---------------------------- MODULE Capabilities ----------------------------
(***************************************************************************)
(* Admission of work by the tools of a session: preflightCapabilities and  *)
(* admitCapabilityWork of src/src/session/capabilities.ts, the workspace   *)
(* policy of src/src/session/workspace-capabilities.ts they start from,    *)
(* and the Codex adapter they ask.                                         *)
(*                                                                         *)
(* An admission is one chain of awaits.  Each asks the adapter something;  *)
(* the answer is made at one moment and the chain goes on at a later one,  *)
(* and the session, its tools and the clock may change at any time.  The   *)
(* timer of bounded() answers the caller by itself: the chain it leaves    *)
(* behind goes on until its next checkpoint.                               *)
(***************************************************************************)
EXTENDS Integers, Sequences, FiniteSets

CONSTANTS
    Policies,      \* workspace policies: shared ids, and each provider's expansion
    Providers,     \* providers a session may have
    Ids,           \* capability ids
    Tools,         \* tools, one on each MCP server
    Contracts,     \* contracts a tool may advertise; profiles pin one
    Configs,       \* configuration digests
    Cursors,       \* cursors the inventory may be continued from
    PageLimit,     \* pages of one inventory (100 in the code)
    Ttl, Timeout,  \* of every profile
    MaxRuntime,    \* bound on the times the runtime is replaced
    MaxTime        \* bound on the clock

Capability == [id : Ids, tool : Tools, pin : Contracts]

ASSUME CapabilitiesAssumption ==
    /\ \A w \in Policies : /\ w.required \in Seq(Ids)
                           /\ DOMAIN w.providers \subseteq Providers
                           /\ \A p \in DOMAIN w.providers : w.providers[p] \in Seq(Capability)
    /\ "codex" \in Providers
    /\ "absent" \notin Contracts
    /\ {Ttl, Timeout, PageLimit, MaxTime} \subseteq Nat \ {0}
    /\ MaxRuntime \in Nat

VARIABLES
    now,           \* the clock: Date.now() and performance.now()
    live,          \* the session as it is: runtime incarnation, configuration
    adm,           \* the admission in progress, or the last one
    answer,        \* the adapter's answer that has not been delivered yet
    told,          \* what the caller has been told
    receipt        \* the last receipt issued, which the host retains

vars == <<now, live, adm, answer, told, receipt>>

sessionVars == <<now, live>>

Binding == [runtime : 0..MaxRuntime, config : Configs]

NoCapability == [id |-> "none"]
NoAnswer == [of |-> "none"]
Failure == [of |-> "failure"]
NoReceipt == [issued |-> FALSE]
NoEvidence == [runtime |-> -1, time |-> -1]

BindingPoints == {"first", "listed", "before", "after", "last", "admit"}
Running == adm.at \in BindingPoints \cup {"listing", "probing"}

-----------------------------------------------------------------------------
(* Policies and profiles.                                                   *)

IdsOf(caps) == {caps[i].id : i \in DOMAIN caps}
NoRepeat(s) == \A i, j \in DOMAIN s : s[i] = s[j] => i = j

(* Each provider's expansion has exactly the shared ids, each once. *)
ExpansionOK(w, p) ==
    /\ NoRepeat([i \in DOMAIN w.providers[p] |-> w.providers[p][i].id])
    /\ IdsOf(w.providers[p]) = {w.required[i] : i \in DOMAIN w.required}

(* resolveWorkspaceCapabilityProfile: whether the policy is good, for every *)
(* provider it names, and names this one.                                   *)
Resolves(w, provider) ==
    /\ w.required # <<>> /\ NoRepeat(w.required)
    /\ \A p \in DOMAIN w.providers : ExpansionOK(w, p)
    /\ provider \in DOMAIN w.providers

(* The profile it returns: the shared ids in order, each with the           *)
(* capability of the provider's own expansion.                              *)
Resolved(w, provider) ==
    LET caps == w.providers[provider]
        Of(id) == IF id \in IdsOf(caps)
                  THEN caps[CHOOSE i \in DOMAIN caps : caps[i].id = id] ELSE NoCapability
    IN  [i \in DOMAIN w.required |-> Of(w.required[i])]

(* profileCopy: ids are distinct, and capabilities that share a tool pin    *)
(* the same contract of it.                                                 *)
ProfileOK(p) ==
    /\ p # <<>>
    /\ \A i \in DOMAIN p : p[i] # NoCapability
    /\ \A i, j \in DOMAIN p : /\ p[i].id = p[j].id => i = j
                              /\ p[i].tool = p[j].tool => p[i].pin = p[j].pin

-----------------------------------------------------------------------------
Idle == [at |-> "idle"]

Init ==
    /\ now = 0
    /\ live \in [runtime : {0}, config : Configs]
    /\ adm = Idle /\ answer = NoAnswer /\ told = "nothing"
    /\ receipt = NoReceipt

(* The session by itself.  Its tools change as they like: what one          *)
(* advertises, and whether its probe succeeds, is known when it is asked.   *)
Tick == now < MaxTime /\ now' = now + 1 /\ UNCHANGED live

Reconnect ==
    /\ live.runtime < MaxRuntime
    /\ live' = [live EXCEPT !.runtime = @ + 1]
    /\ UNCHANGED now

Reconfigure(c) == c # live.config /\ live' = [live EXCEPT !.config = c] /\ UNCHANGED now

AdmissionUnchanged == UNCHANGED <<adm, answer, told, receipt>>

SessionChanges ==
    /\ Tick \/ Reconnect \/ \E c \in Configs : Reconfigure(c)
    /\ AdmissionUnchanged

-----------------------------------------------------------------------------
(* The adapter answers what is asked, from the session as it is then.       *)

Asked == Running /\ answer = NoAnswer

AnswerBinding ==
    /\ Asked
    /\ adm.at \in BindingPoints
    /\ answer' = [of |-> "binding", binding |-> live]
    /\ UNCHANGED <<sessionVars, adm, told, receipt>>

(* One page of the inventory: the servers that are connected, their tools,  *)
(* and whether there is more.                                               *)
AnswerPage ==
    /\ Asked
    /\ adm.at = "listing"
    /\ \E servers \in SUBSET Tools, next \in Cursors \cup {"end"} :
        \E tools \in [servers -> Contracts] :
            /\ answer' = [of |-> "page", servers |-> servers, tools |-> tools, next |-> next]
            /\ adm' = [adm EXCEPT !.advertised =
                          @ \cup {<<t, tools[t], live.runtime>> : t \in servers}]
    /\ UNCHANGED <<sessionVars, told, receipt>>

(* The probe runs; its result is judged later. *)
AnswerProbe ==
    /\ Asked
    /\ adm.at = "probing"
    /\ \E ok \in BOOLEAN :
        /\ answer' = [of |-> "probe", ok |-> ok]
        /\ adm' = [adm EXCEPT !.evidence[adm.index] =
                      IF ok THEN [runtime |-> live.runtime, time |-> now] ELSE @]
    /\ UNCHANGED <<sessionVars, told, receipt>>

(* The transport rejects, or what it returns is malformed. *)
AnswerFails ==
    /\ Asked
    /\ answer' = Failure
    /\ UNCHANGED <<sessionVars, adm, told, receipt>>

-----------------------------------------------------------------------------
(* The chain.                                                               *)

(* admitWorkspaceCapabilityWork, or preflightCapabilities on its own: the   *)
(* policy is resolved and copied, the deadline set, the binding asked for.  *)
(* The bound on the clock stands in the guard.                              *)
Start(kind, w, provider, binding, adapter) ==
    /\ ~Running
    /\ now + 2 * Timeout <= MaxTime
    /\ IF adapter /\ Resolves(w, provider) /\ ProfileOK(Resolved(w, provider))
       THEN /\ adm' = [at |-> "first", kind |-> kind, provider |-> provider,
                       profile |-> Resolved(w, provider), binding |-> binding, started |-> now,
                       deadline |-> now + Timeout, index |-> 1, passed |-> FALSE,
                       listed |-> [t \in Tools |-> "absent"], servers |-> {}, cursors |-> {},
                       advertised |-> {}, evidence |-> [i \in DOMAIN w.required |-> NoEvidence]]
            /\ told' = "nothing"
       ELSE /\ adm' = Idle
            /\ told' = "refused"
    /\ answer' = NoAnswer
    /\ UNCHANGED <<sessionVars, receipt>>

(* The chain throws.  A caller that the timer has answered hears no more.   *)
Refuse == adm' = Idle /\ told' = "refused" /\ UNCHANGED receipt

(* Mutant of Checkpoint: left to the timer.                                 *)
NoCheckpoint == TRUE

(* checkpoint(): the deadline has not passed.  Once the timer has fired it  *)
(* has, so an aborted signal needs no state of its own.                     *)
Checkpoint == now < adm.deadline

(* Mutant of SameBinding: the configuration alone.                          *)
SameConfig == answer.of = "binding" /\ answer.binding.config = adm.binding.config

(* sameBinding(): the binding just read is the one of the admission. *)
SameBinding == answer.of = "binding" /\ answer.binding = adm.binding

(* The chain goes on when what it awaited is there. *)
Resume(point) ==
    /\ adm.at = point
    /\ answer # NoAnswer
    /\ answer' = NoAnswer
    /\ UNCHANGED sessionVars

GoTo(point) == adm' = [adm EXCEPT !.at = point] /\ UNCHANGED <<told, receipt>>

(* The binding before the inventory.  The adapter serves one provider. *)
First ==
    /\ Resume("first")
    /\ IF Checkpoint /\ SameBinding /\ adm.provider = "codex" THEN GoTo("listing") ELSE Refuse

(* inventory(): pages are gathered until there is no more; a server or a    *)
(* cursor that comes again, or too many pages, end it.                      *)
Listing ==
    /\ Resume("listing")
    /\ IF ~Checkpoint \/ answer.of # "page" \/ answer.servers \cap adm.servers # {}
       THEN Refuse
       ELSE LET gathered == [adm EXCEPT
                  !.listed = [t \in Tools |-> IF t \in answer.servers THEN answer.tools[t] ELSE @[t]],
                  !.servers = @ \cup answer.servers,
                  !.cursors = @ \cup ({answer.next} \ {"end"})]
            IN  CASE answer.next = "end" ->
                        adm' = [gathered EXCEPT !.at = "listed"] /\ UNCHANGED <<told, receipt>>
                  [] answer.next \in adm.cursors \/ Cardinality(adm.cursors) + 1 >= PageLimit ->
                        Refuse
                  [] OTHER -> adm' = gathered /\ UNCHANGED <<told, receipt>>

(* Mutant of Pinned: only the capability that is probed first.              *)
FirstPinned == adm.listed[adm.profile[1].tool] = adm.profile[1].pin

(* Every required tool is listed with the contract its capability pins. *)
Pinned == \A i \in DOMAIN adm.profile : adm.listed[adm.profile[i].tool] = adm.profile[i].pin

Listed ==
    /\ Resume("listed")
    /\ IF Checkpoint /\ SameBinding /\ Pinned THEN GoTo("before") ELSE Refuse

MoreToProbe == adm.index < Len(adm.profile)

(* The binding before a probe, the probe, and the binding after it, which   *)
(* comes before the result is judged.                                       *)
Before ==
    /\ Resume("before")
    /\ IF Checkpoint /\ SameBinding THEN GoTo("probing") ELSE Refuse

Probing ==
    /\ Resume("probing")
    /\ IF Checkpoint /\ answer.of = "probe"
       THEN adm' = [adm EXCEPT !.at = "after", !.passed = answer.ok] /\ UNCHANGED <<told, receipt>>
       ELSE Refuse

After ==
    /\ Resume("after")
    /\ IF Checkpoint /\ SameBinding /\ adm.passed
       THEN IF MoreToProbe
            THEN adm' = [adm EXCEPT !.at = "before", !.index = @ + 1] /\ UNCHANGED <<told, receipt>>
            ELSE GoTo("last")
       ELSE Refuse

(* The receipt.  A preflight ends with it; an admission asks for the        *)
(* binding once more, under a deadline of its own.                          *)
Last ==
    /\ Resume("last")
    /\ IF Checkpoint /\ SameBinding /\ now < adm.started + Ttl
       THEN /\ receipt' = [issued |-> TRUE, profile |-> adm.profile, binding |-> adm.binding,
                           start |-> adm.started, end |-> adm.started + Ttl]
            /\ IF adm.kind = "preflight"
               THEN adm' = Idle /\ told' = "receipt"
               ELSE adm' = [adm EXCEPT !.at = "admit", !.deadline = now + Timeout] /\ UNCHANGED told
       ELSE Refuse

(* assertCapabilityReceipt(): the receipt is for this profile and binding,  *)
(* and has not expired.                                                     *)
Valid(r, profile, binding, t) ==
    r.issued /\ r.profile = profile /\ r.binding = binding /\ r.start <= t /\ t < r.end

(* The work is called in the step that has checked the receipt. *)
Admit ==
    /\ Resume("admit")
    /\ IF Checkpoint /\ SameBinding /\ Valid(receipt, adm.profile, adm.binding, now)
       THEN adm' = Idle /\ told' = "work" /\ UNCHANGED receipt
       ELSE Refuse

(* Mutant of Timer: the deadline is looked at only when an answer comes.    *)
TimerOfAnswers ==
    /\ Running /\ told = "nothing" /\ ~(now < adm.deadline) /\ answer # NoAnswer
    /\ told' = "refused"
    /\ UNCHANGED <<sessionVars, adm, answer, receipt>>

(* The timer of bounded(): the caller is told; the chain is not.            *)
Timer ==
    /\ Running /\ told = "nothing" /\ ~(now < adm.deadline)
    /\ told' = "refused"
    /\ UNCHANGED <<sessionVars, adm, answer, receipt>>

-----------------------------------------------------------------------------
Chain == First \/ Listing \/ Listed \/ Before \/ Probing \/ After \/ Last \/ Admit

AdmissionNext ==
    \/ SessionChanges
    \/ AnswerBinding \/ AnswerPage \/ AnswerProbe \/ AnswerFails
    \/ \E kind \in {"preflight", "admit"}, w \in Policies, p \in Providers, b \in Binding,
          adapter \in BOOLEAN : Start(kind, w, p, b, adapter)
    \/ Chain
    \/ Timer

(* The clock goes on, the timer fires, and what is awaited and there is     *)
(* taken up; nothing says that the adapter answers.                         *)
AdmissionFairness ==
    /\ WF_vars(Tick /\ AdmissionUnchanged)
    /\ WF_vars(Timer)

AdmissionSpec == Init /\ [][AdmissionNext]_vars /\ AdmissionFairness
-----------------------------------------------------------------------------
(* Properties.                                                              *)

(* Work is called only on evidence: each capability of the profile was      *)
(* probed with success, in this admission, in the very runtime incarnation  *)
(* the admission is for, less than a receipt's lifetime ago and within two  *)
(* deadlines of its start (preflightCapabilities and admitCapabilityWork;   *)
(* the binding is read before and after each probe).                        *)
WorkRestsOnEvidence ==
    [][told' = "work" /\ told # "work" =>
        /\ \A i \in DOMAIN adm.profile :
              LET e == adm.evidence[i]
              IN  /\ e.runtime = adm.binding.runtime
                  /\ adm.started <= e.time /\ now < e.time + Ttl
        /\ now < adm.started + 2 * Timeout]_vars

(* Once the caller is told of a timeout, the chain left behind asks nothing *)
(* more of the session, probes nothing and calls no work, however late the  *)
(* answers come (checkpoint() in capabilities.ts).                          *)
NothingAfterTimeout ==
    [][Running /\ told = "refused" =>
        /\ adm'.at \in {adm.at, "idle"}
        /\ told' = "refused"
        /\ receipt' = receipt]_vars

(* No tool is called before the whole catalogue is known to be right: every *)
(* required tool was advertised with the contract its capability pins, by   *)
(* the runtime the admission is for ("Validate every required tool before   *)
(* probing any of them", capabilities.ts).                                  *)
CatalogueBeforeProbes ==
    Running /\ adm.at = "probing" =>
        \A i \in DOMAIN adm.profile :
            <<adm.profile[i].tool, adm.profile[i].pin, adm.binding.runtime>> \in adm.advertised

(* Every admission is answered, with work or a refusal, although the        *)
(* adapter may never answer what it was asked (the timer of bounded()).     *)
AdmissionEnds == Running /\ told = "nothing" ~> told # "nothing"
=============================================================================
