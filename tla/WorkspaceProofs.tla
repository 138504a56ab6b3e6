-------------------------- MODULE WorkspaceProofs --------------------------
(***************************************************************************)
(* Theorems about Capabilities and Workspace: what an admission has to show*)
(* for the work it calls, and what a report may say, for any policies,     *)
(* lifetimes and timeouts.                                                 *)
(*                                                                         *)
(* The runtime of a session only ever grows.  So whatever an admission was *)
(* given between two readings of the same binding came from the runtime    *)
(* that the binding names.                                                 *)
(***************************************************************************)
EXTENDS Workspace, TLAPS

(***************************************************************************)
(* Admissions.                                                             *)
(***************************************************************************)
Points == BindingPoints \cup {"listing", "probing"}

Evidence == [runtime : Int, time : Int]

Admission ==
    [at : Points, kind : {"preflight", "admit"}, provider : Providers, profile : Seq(Capability),
     binding : Binding, started : Nat, deadline : Nat, index : Nat, passed : BOOLEAN,
     listed : [Tools -> Contracts \cup {"absent"}], servers : SUBSET Tools,
     cursors : SUBSET Cursors, advertised : SUBSET (Tools \X Contracts \X Nat),
     evidence : Seq(Evidence)]

IsPage(a) ==
    \E servers \in SUBSET Tools, next \in Cursors \cup {"end"} :
        \E tools \in [servers -> Contracts] :
            a = [of |-> "page", servers |-> servers, tools |-> tools, next |-> next]

Answers ==
    \/ answer \in {NoAnswer, Failure}
    \/ \E b \in Binding : answer = [of |-> "binding", binding |-> b]
    \/ IsPage(answer)
    \/ \E ok \in BOOLEAN : answer = [of |-> "probe", ok |-> ok]

SessionShape == now \in Nat /\ live \in Binding

AdmissionShape ==
    /\ SessionShape
    /\ adm = Idle \/ adm \in Admission
    /\ Answers

(* The evidence for the i-th capability, once there is some. *)
Some(i) == adm.evidence[i].runtime # -1
Probed(i) == adm.evidence[i].runtime = adm.binding.runtime /\ adm.started <= adm.evidence[i].time

(* The times of an admission.  Once the timer has told the caller, the      *)
(* deadline is over.                                                        *)
TimesInv ==
    /\ adm.started <= now
    /\ adm.deadline <= adm.started + Timeout \/ adm.at = "admit"
    /\ adm.deadline < adm.started + 2 * Timeout
    /\ told = "refused" => now >= adm.deadline
    /\ adm.at = "admit" => receipt.issued /\ receipt.end = adm.started + Ttl

(* Everything was given by a runtime between the one of the binding and the *)
(* present one, and a binding just read is no earlier than any of it.       *)
RuntimeInv ==
    /\ adm.at # "first" => adm.binding.runtime <= live.runtime
    /\ \A x \in adm.advertised : adm.binding.runtime <= x[3] /\ x[3] <= live.runtime
    /\ \A i \in DOMAIN adm.evidence :
          Some(i) => /\ adm.binding.runtime <= adm.evidence[i].runtime
                     /\ adm.evidence[i].runtime <= live.runtime
                     /\ adm.started <= adm.evidence[i].time
    /\ answer.of = "binding" =>
          /\ answer.binding.runtime <= live.runtime
          /\ \A x \in adm.advertised : x[3] <= answer.binding.runtime
          /\ \A i \in DOMAIN adm.evidence : adm.evidence[i].runtime <= answer.binding.runtime

Advertised(t, contract) == \E x \in adm.advertised : x[1] = t /\ x[2] = contract

(* What is listed was advertised, and so is what is about to be listed. *)
ListedInv ==
    /\ \A t \in Tools : adm.listed[t] # "absent" => Advertised(t, adm.listed[t])
    /\ answer.of = "page" => \A t \in answer.servers : Advertised(t, answer.tools[t])

Catalogue ==
    adm.at \in {"before", "probing", "after", "last", "admit"} =>
        \A i \in DOMAIN adm.profile :
            <<adm.profile[i].tool, adm.profile[i].pin, adm.binding.runtime>> \in adm.advertised

(* Every capability before the one whose turn it is has been probed in the  *)
(* runtime of the binding; at the end they all have.                        *)
ProbesInv ==
    /\ Len(adm.evidence) = Len(adm.profile)
    /\ adm.index \in 1..Len(adm.profile)
    /\ \A i \in DOMAIN adm.profile :
          i < adm.index \/ adm.at \in {"last", "admit"} => Probed(i)
    /\ adm.at = "after" /\ adm.passed => Some(adm.index)
    /\ adm.at = "probing" /\ answer.of = "probe" /\ answer.ok => Some(adm.index)

AdmissionInv ==
    /\ AdmissionShape
    /\ adm # Idle => TimesInv /\ RuntimeInv /\ ListedInv /\ Catalogue /\ ProbesInv
-----------------------------------------------------------------------------
(* Profiles.                                                                *)

(* A policy that resolves gives a profile of real capabilities.             *)
LEMMA ResolvedIsProfile ==
    ASSUME NEW w \in Policies, NEW p, Resolves(w, p), ProfileOK(Resolved(w, p))
    PROVE  /\ Resolved(w, p) \in Seq(Capability) /\ Resolved(w, p) # <<>>
           /\ w.required \in Seq(Ids) /\ Len(Resolved(w, p)) = Len(w.required)
<1>1. p \in DOMAIN w.providers
  BY DEF Resolves
<1>2. PICK caps \in Seq(Capability) : caps = w.providers[p]
  BY <1>1, CapabilitiesAssumption
<1>3. PICK required \in Seq(Ids) : required = w.required
  BY CapabilitiesAssumption
<1> DEFINE Of(id) == IF id \in IdsOf(caps) THEN caps[CHOOSE i \in DOMAIN caps : caps[i].id = id]
                                           ELSE NoCapability
<1>4. Resolved(w, p) = [i \in DOMAIN required |-> Of(required[i])]
  BY <1>2, <1>3 DEF Resolved
<1>5. PICK r : r = Resolved(w, p)
  OBVIOUS
<1>6. \A id : Of(id) = NoCapability \/ Of(id) \in Capability
  <2> SUFFICES ASSUME NEW id, id \in IdsOf(caps)
               PROVE  caps[CHOOSE i \in DOMAIN caps : caps[i].id = id] \in Capability
    OBVIOUS
  <2>1. \E i \in DOMAIN caps : caps[i].id = id
    BY DEF IdsOf
  <2>2. PICK i \in DOMAIN caps : i = CHOOSE j \in DOMAIN caps : caps[j].id = id
    BY <2>1
  <2> QED BY <2>2
<1>7. \A i \in DOMAIN required : r[i] \in Capability
  <2> SUFFICES ASSUME NEW i \in DOMAIN required PROVE r[i] \in Capability
    OBVIOUS
  <2>1. r[i] = Of(required[i]) /\ i \in DOMAIN r
    BY <1>4, <1>5
  <2>2. r[i] # NoCapability
    BY <1>5, <2>1 DEF ProfileOK
  <2> HIDE DEF Of
  <2> QED BY <1>6, <2>1, <2>2
<1>8. DOMAIN required = 1..Len(required) /\ Len(required) \in Nat
  OBVIOUS
<1>9. r \in [1..Len(required) -> Capability]
  <2>1. r = [i \in 1..Len(required) |-> r[i]]
    BY <1>4, <1>5, <1>8
  <2> QED BY <1>7, <1>8, <2>1
<1>10. r \in Seq(Capability) /\ Len(r) = Len(required)
  BY <1>8, <1>9
<1>11. r # <<>>
  BY <1>5 DEF ProfileOK
<1> QED BY <1>3, <1>5, <1>10, <1>11

-----------------------------------------------------------------------------
(* The session, and the adapter.                                            *)

(* The fields of an admission. *)
LEMMA AdmissionFields ==
    ASSUME adm \in Admission
    PROVE  /\ adm.at \in Points /\ adm.profile \in Seq(Capability) /\ adm.binding \in Binding
           /\ adm.started \in Nat /\ adm.deadline \in Nat /\ adm.index \in Nat
           /\ adm.listed \in [Tools -> Contracts \cup {"absent"}]
           /\ adm.advertised \in SUBSET (Tools \X Contracts \X Nat)
           /\ adm.evidence \in Seq(Evidence) /\ adm.binding.runtime \in Nat
           /\ adm # Idle
<1>1. adm.at \in Points
  BY DEF Admission
<1>2. "idle" \notin Points
  BY DEF Points, BindingPoints
<1> QED BY <1>1, <1>2 DEF Admission, Idle, Binding

(* What is listed stays as it was, and so does where it comes from. *)
LEMMA ListedStays ==
    ASSUME ListedInv, adm'.listed = adm.listed, adm'.advertised = adm.advertised,
           answer'.of # "page"
    PROVE  ListedInv'
<1>1. ASSUME NEW t \in Tools, adm'.listed[t] # "absent" PROVE Advertised(t, adm.listed[t])'
  BY <1>1 DEF ListedInv, Advertised
<1> QED BY <1>1 DEF ListedInv, Advertised

(* What the evidence holds for a capability. *)
LEMMA EvidenceShape ==
    ASSUME adm \in Admission, NEW i \in DOMAIN adm.evidence
    PROVE  adm.evidence[i].runtime \in Int /\ adm.evidence[i].time \in Int
<1>1. PICK e \in Seq(Evidence) : e = adm.evidence
  BY AdmissionFields
<1>2. e[i] \in Evidence
  BY <1>1
<1> QED BY <1>1, <1>2 DEF Evidence

(* The constants that are compared with the clock. *)
LEMMA ConstantNumbers == Timeout \in Nat /\ Timeout >= 1 /\ Ttl \in Nat /\ MaxRuntime \in Nat
BY CapabilitiesAssumption

(* Time passes, the session is reconnected or reconfigured. *)
LEMMA SessionStep ==
    ASSUME AdmissionInv, SessionChanges
    PROVE  AdmissionInv'
<1>1. UNCHANGED <<adm, answer, told, receipt>>
  BY DEF SessionChanges, AdmissionUnchanged
<1>2. SessionShape' /\ now <= now' /\ live.runtime <= live'.runtime
  <2>1. SessionShape
    BY DEF AdmissionInv, AdmissionShape
  <2>2. CASE Tick
    BY <2>1, <2>2 DEF Tick, SessionShape, Binding
  <2>3. CASE Reconnect
    BY <2>1, <2>3, ConstantNumbers DEF Reconnect, SessionShape, Binding
  <2>4. CASE \E c \in Configs : Reconfigure(c)
    BY <2>1, <2>4 DEF Reconfigure, SessionShape, Binding
  <2> QED BY <2>2, <2>3, <2>4 DEF SessionChanges
<1>3. now \in Nat /\ now' \in Nat /\ live.runtime \in Nat /\ live'.runtime \in Nat
  BY <1>2 DEF AdmissionInv, AdmissionShape, SessionShape, Binding
<1>4. AdmissionShape'
  BY <1>1, <1>2 DEF AdmissionInv, AdmissionShape, Answers
<1>5. ASSUME adm # Idle PROVE (TimesInv /\ RuntimeInv /\ ListedInv /\ Catalogue /\ ProbesInv)'
  <2>1. adm \in Admission /\ TimesInv /\ RuntimeInv /\ ListedInv /\ Catalogue /\ ProbesInv
    BY <1>5 DEF AdmissionInv, AdmissionShape
  <2>2. TimesInv'
    BY <1>1, <1>2, <1>3, <2>1, AdmissionFields DEF TimesInv
  <2>3. RuntimeInv'
    <3>1. adm.at # "first" => adm.binding.runtime <= live'.runtime
      BY <1>2, <1>3, <2>1, AdmissionFields DEF RuntimeInv
    <3>2. \A x \in adm.advertised : adm.binding.runtime <= x[3] /\ x[3] <= live'.runtime
      BY <1>2, <1>3, <2>1, AdmissionFields DEF RuntimeInv
    <3>3. \A i \in DOMAIN adm.evidence :
             Some(i) => /\ adm.binding.runtime <= adm.evidence[i].runtime
                        /\ adm.evidence[i].runtime <= live'.runtime
                        /\ adm.started <= adm.evidence[i].time
      <4> SUFFICES ASSUME NEW i \in DOMAIN adm.evidence, Some(i)
                   PROVE  /\ adm.binding.runtime <= adm.evidence[i].runtime
                          /\ adm.evidence[i].runtime <= live'.runtime
                          /\ adm.started <= adm.evidence[i].time
        OBVIOUS
      <4>1. adm.evidence[i].runtime \in Int
        BY <2>1, EvidenceShape
      <4> QED BY <1>2, <1>3, <2>1, <4>1 DEF RuntimeInv
    <3>4. answer.of = "binding" =>
             /\ answer.binding.runtime <= live'.runtime
             /\ \A x \in adm.advertised : x[3] <= answer.binding.runtime
             /\ \A i \in DOMAIN adm.evidence : adm.evidence[i].runtime <= answer.binding.runtime
      <4> SUFFICES ASSUME answer.of = "binding" PROVE answer.binding.runtime <= live'.runtime
        BY <2>1 DEF RuntimeInv
      <4>1. answer.binding.runtime \in Nat
        BY DEF AdmissionInv, AdmissionShape, Answers, IsPage, NoAnswer, Failure, Binding
      <4> QED BY <1>2, <1>3, <2>1, <4>1 DEF RuntimeInv
    <3> QED BY <1>1, <3>1, <3>2, <3>3, <3>4 DEF RuntimeInv, Some
  <2>4. ListedInv' /\ Catalogue' /\ ProbesInv'
    BY <1>1, <2>1 DEF ListedInv, Advertised, Catalogue, ProbesInv, Probed, Some
  <2> QED BY <2>2, <2>3, <2>4
<1> QED BY <1>1, <1>4, <1>5 DEF AdmissionInv

(* An answer that is about nothing but the session as it is.                *)
LEMMA AnswerBindingStep ==
    ASSUME AdmissionInv, AnswerBinding \/ AnswerFails
    PROVE  AdmissionInv'
<1>1. /\ UNCHANGED <<now, live, adm, told, receipt>> /\ adm # Idle
      /\ answer' = Failure \/ answer' = [of |-> "binding", binding |-> live]
  BY DEF AnswerBinding, AnswerFails, sessionVars, Asked, Running, BindingPoints, Idle
<1>2. /\ adm \in Admission /\ TimesInv /\ RuntimeInv /\ ListedInv /\ Catalogue /\ ProbesInv
      /\ SessionShape /\ AdmissionShape
  BY <1>1 DEF AdmissionInv, AdmissionShape
<1>3. AdmissionShape'
  BY <1>1, <1>2 DEF AdmissionShape, SessionShape, Answers
<1>4. TimesInv'
  BY <1>1, <1>2 DEF TimesInv
<1>5. RuntimeInv'
  <2>1. answer'.of = "binding" => answer'.binding = live
    BY <1>1 DEF Failure
  <2>2. live.runtime \in Nat
    BY <1>2 DEF SessionShape, Binding
  <2>3. \A i \in DOMAIN adm.evidence : adm.evidence[i].runtime <= live.runtime
    BY <1>2, <2>2, AdmissionFields DEF RuntimeInv, Some, Evidence
  <2> QED BY <1>1, <1>2, <2>1, <2>2, <2>3 DEF RuntimeInv, Some
<1>6. answer'.of \notin {"page", "probe"}
  BY <1>1 DEF Failure
<1>7. ListedInv' /\ Catalogue' /\ ProbesInv'
  BY <1>1, <1>2, <1>6 DEF ListedInv, Advertised, Catalogue, ProbesInv, Probed, Some
<1> QED BY <1>3, <1>4, <1>5, <1>7 DEF AdmissionInv

(* A page: what it lists was advertised by the runtime of the moment.       *)
LEMMA AnswerPageStep ==
    ASSUME AdmissionInv, AnswerPage
    PROVE  AdmissionInv'
<1>1. PICK servers \in SUBSET Tools, next \in Cursors \cup {"end"} :
        \E tools \in [servers -> Contracts] :
            /\ answer' = [of |-> "page", servers |-> servers, tools |-> tools, next |-> next]
            /\ adm' = [adm EXCEPT !.advertised =
                          @ \cup {<<t, tools[t], live.runtime>> : t \in servers}]
  BY DEF AnswerPage
<1>2. PICK tools \in [servers -> Contracts] :
            /\ answer' = [of |-> "page", servers |-> servers, tools |-> tools, next |-> next]
            /\ adm' = [adm EXCEPT !.advertised =
                          @ \cup {<<t, tools[t], live.runtime>> : t \in servers}]
  BY <1>1
<1>3. UNCHANGED <<now, live, told, receipt>> /\ adm # Idle /\ adm.at = "listing"
  BY DEF AnswerPage, sessionVars, Asked, Idle
<1>4. /\ adm \in Admission /\ TimesInv /\ RuntimeInv /\ ListedInv /\ Catalogue /\ ProbesInv
      /\ SessionShape /\ AdmissionShape /\ live.runtime \in Nat
  BY <1>3 DEF AdmissionInv, AdmissionShape, SessionShape, Binding
<1>5. PICK new : new = {<<t, tools[t], live.runtime>> : t \in servers}
  OBVIOUS
<1>6. /\ new \in SUBSET (Tools \X Contracts \X Nat)
      /\ \A x \in new : x[3] = live.runtime
      /\ \A t \in servers : <<t, tools[t], live.runtime>> \in new
  <2>1. ASSUME NEW t \in servers
        PROVE  /\ <<t, tools[t], live.runtime>> \in Tools \X Contracts \X Nat
               /\ <<t, tools[t], live.runtime>>[3] = live.runtime
               /\ <<t, tools[t], live.runtime>>[1] = t /\ <<t, tools[t], live.runtime>>[2] = tools[t]
    BY <1>4
  <2>2. \A t \in servers : <<t, tools[t], live.runtime>> \in new
    BY <1>5
  <2>3. new \in SUBSET (Tools \X Contracts \X Nat)
    BY <1>5, <2>1
  <2>4. \A x \in new : x[3] = live.runtime
    BY <1>5, <2>1
  <2> QED BY <2>2, <2>3, <2>4
<1>7. /\ adm' = [adm EXCEPT !.advertised = @ \cup new]
  BY <1>2, <1>5
<1>8. /\ adm' \in Admission /\ adm'.advertised = adm.advertised \cup new
      /\ adm'.at = adm.at /\ adm'.profile = adm.profile /\ adm'.binding = adm.binding
      /\ adm'.started = adm.started /\ adm'.deadline = adm.deadline /\ adm'.index = adm.index
      /\ adm'.passed = adm.passed /\ adm'.listed = adm.listed /\ adm'.evidence = adm.evidence
  BY <1>4, <1>6, <1>7 DEF Admission
<1>9. AdmissionShape'
  <2>1. Answers'
    BY <1>2 DEF Answers, IsPage
  <2> QED BY <1>3, <1>4, <1>8, <2>1 DEF AdmissionShape, SessionShape
<1>10. TimesInv'
  BY <1>3, <1>4, <1>8 DEF TimesInv
<1>11. RuntimeInv'
  <2>1. answer'.of # "binding"
    BY <1>2
  <2>2. adm.binding.runtime <= live.runtime
    BY <1>3, <1>4 DEF RuntimeInv
  <2>3. \A x \in adm'.advertised : adm.binding.runtime <= x[3] /\ x[3] <= live.runtime
    BY <1>4, <1>6, <1>8, <2>2 DEF RuntimeInv
  <2> QED BY <1>3, <1>4, <1>8, <2>1, <2>2, <2>3 DEF RuntimeInv, Some
<1>12. ListedInv'
  <2>1. answer'.servers = servers /\ answer'.tools = tools
    BY <1>2
  <2>2. ASSUME NEW t \in servers PROVE Advertised(t, tools[t])'
    <3>1. PICK x \in new : x = <<t, tools[t], live.runtime>>
      BY <1>6
    <3>2. x[1] = t /\ x[2] = tools[t]
      BY <3>1
    <3> QED BY <1>8, <3>2 DEF Advertised
  <2>3. \A t \in Tools : adm.listed[t] # "absent" => Advertised(t, adm.listed[t])
    BY <1>4 DEF ListedInv
  <2>4. \A t \in Tools : adm'.listed[t] # "absent" => Advertised(t, adm.listed[t])'
    BY <1>8, <2>3 DEF Advertised
  <2> QED BY <2>1, <2>2, <2>4 DEF ListedInv, Advertised
<1>13. Catalogue' /\ ProbesInv'
  BY <1>3, <1>4, <1>8 DEF Catalogue, ProbesInv, Probed, Some
<1> QED BY <1>9, <1>10, <1>11, <1>12, <1>13 DEF AdmissionInv

(* A probe: its evidence, if any, is of the runtime and the time it ran.    *)
LEMMA AnswerProbeStep ==
    ASSUME AdmissionInv, AnswerProbe
    PROVE  AdmissionInv'
<1>1. PICK ok \in BOOLEAN :
        /\ answer' = [of |-> "probe", ok |-> ok]
        /\ adm' = [adm EXCEPT !.evidence[adm.index] =
                      IF ok THEN [runtime |-> live.runtime, time |-> now] ELSE @]
  BY DEF AnswerProbe
<1>2. UNCHANGED <<now, live, told, receipt>> /\ adm # Idle /\ adm.at = "probing"
  BY DEF AnswerProbe, sessionVars, Asked, Idle
<1>3. /\ adm \in Admission /\ TimesInv /\ RuntimeInv /\ ListedInv /\ Catalogue /\ ProbesInv
      /\ SessionShape /\ AdmissionShape /\ live.runtime \in Nat /\ now \in Nat
  BY <1>2 DEF AdmissionInv, AdmissionShape, SessionShape, Binding
<1>4. PICK e : e = adm.evidence
  OBVIOUS
<1>5. PICK k : k = adm.index
  OBVIOUS
<1>6. e \in Seq(Evidence) /\ k \in DOMAIN e /\ e[k] \in Evidence /\ DOMAIN e = 1..Len(adm.profile)
  BY <1>3, <1>4, <1>5, AdmissionFields DEF ProbesInv
<1>7. PICK v \in Evidence : v = IF ok THEN [runtime |-> live.runtime, time |-> now] ELSE e[k]
  <2>1. (IF ok THEN [runtime |-> live.runtime, time |-> now] ELSE e[k]) \in Evidence
    BY <1>3, <1>6 DEF Evidence
  <2> QED BY <2>1
<1>8. PICK f \in Seq(Evidence) : /\ f = [e EXCEPT ![k] = v] /\ Len(f) = Len(e)
                                 /\ DOMAIN f = DOMAIN e
                                 /\ \A i \in DOMAIN e : f[i] = IF i = k THEN v ELSE e[i]
  <2>1. PICK n \in Nat : n = Len(e) /\ DOMAIN e = 1..n /\ e \in [1..n -> Evidence]
    BY <1>6
  <2>2. PICK f : f = [e EXCEPT ![k] = v]
    OBVIOUS
  <2>3. f \in [1..n -> Evidence] /\ \A i \in 1..n : f[i] = IF i = k THEN v ELSE e[i]
    BY <1>6, <2>1, <2>2
  <2>4. f \in Seq(Evidence) /\ Len(f) = n /\ DOMAIN f = 1..n
    BY <2>3
  <2> QED BY <2>1, <2>2, <2>3, <2>4
<1>9. adm' = [adm EXCEPT !.evidence = f]
  BY <1>1, <1>3, <1>4, <1>5, <1>7, <1>8 DEF Admission
<1>10. /\ adm' \in Admission /\ adm'.evidence = f
       /\ adm'.at = adm.at /\ adm'.profile = adm.profile /\ adm'.binding = adm.binding
       /\ adm'.started = adm.started /\ adm'.deadline = adm.deadline /\ adm'.index = adm.index
       /\ adm'.passed = adm.passed /\ adm'.listed = adm.listed
       /\ adm'.advertised = adm.advertised
  BY <1>3, <1>9 DEF Admission
<1>11. AdmissionShape'
  <2>1. Answers'
    BY <1>1 DEF Answers
  <2> QED BY <1>2, <1>3, <1>10, <2>1 DEF AdmissionShape, SessionShape
<1>12. TimesInv'
  BY <1>2, <1>3, <1>10 DEF TimesInv
<1>13. answer'.of = "probe" /\ answer'.ok = ok
  BY <1>1
<1>14. ok => v.runtime = live.runtime /\ v.time = now /\ v.runtime # -1
  BY <1>3, <1>7
<1>15. RuntimeInv'
  <2>1. adm.binding.runtime <= live.runtime /\ adm.started <= now
    BY <1>2, <1>3 DEF RuntimeInv, TimesInv
  <2>2. ASSUME NEW i \in DOMAIN e, f[i].runtime # -1
        PROVE  /\ adm.binding.runtime <= f[i].runtime /\ f[i].runtime <= live.runtime
               /\ adm.started <= f[i].time
    <3>1. CASE i = k /\ ok
      BY <1>3, <1>8, <1>14, <2>1, <3>1
    <3>2. CASE ~(i = k /\ ok)
      BY <1>3, <1>4, <1>7, <1>8, <2>2, <3>2 DEF RuntimeInv, Some
    <3> QED BY <3>1, <3>2
  <2>3. \A x \in adm.advertised : adm.binding.runtime <= x[3] /\ x[3] <= live.runtime
    BY <1>3 DEF RuntimeInv
  <2> QED BY <1>2, <1>8, <1>10, <1>13, <2>1, <2>2, <2>3 DEF RuntimeInv, Some
<1>16. ListedInv' /\ Catalogue'
  <2>1. ListedInv'
    BY <1>3, <1>10, <1>13, ListedStays
  <2> QED BY <1>3, <1>10, <2>1 DEF Catalogue
<1>17. ProbesInv'
  <2>1. ok => f[k].runtime # -1
    BY <1>6, <1>8, <1>14
  <2>2. \A i \in DOMAIN adm.profile : i < k => f[i] = e[i]
    BY <1>3, <1>6, <1>8, AdmissionFields
  <2>3. \A i \in DOMAIN adm.profile : i < k => Probed(i)
    BY <1>3, <1>5 DEF ProbesInv
  <2> QED BY <1>2, <1>3, <1>4, <1>5, <1>8, <1>10, <1>13, <2>1, <2>2, <2>3
          DEF ProbesInv, Probed, Some
<1> QED BY <1>11, <1>12, <1>15, <1>16, <1>17 DEF AdmissionInv

-----------------------------------------------------------------------------
(* The chain.                                                               *)

(* What every step of the chain starts from. *)
Resumed(point) ==
    /\ adm \in Admission /\ adm # Idle /\ adm.at = point
    /\ TimesInv /\ RuntimeInv /\ ListedInv /\ Catalogue /\ ProbesInv
    /\ UNCHANGED <<now, live>> /\ answer' = NoAnswer /\ SessionShape'
    /\ now \in Nat /\ live.runtime \in Nat

(* A step of the chain starts from the invariant, with its answer taken. *)
LEMMA ResumedHolds ==
    ASSUME AdmissionInv, NEW point \in Points, Resume(point)
    PROVE  Resumed(point)
<1>1. adm # Idle
  BY DEF Resume, Idle, Points, BindingPoints
<1>2. UNCHANGED <<now, live>> /\ answer' = NoAnswer /\ adm.at = point
  BY DEF Resume, sessionVars
<1> QED BY <1>1, <1>2 DEF Resumed, AdmissionInv, AdmissionShape, SessionShape, Binding

(* The chain throws, or ends. *)
LEMMA EndStep ==
    ASSUME NEW point, Resumed(point), adm' = Idle
    PROVE  AdmissionInv'
BY DEF Resumed, AdmissionInv, AdmissionShape, Answers

(* The binding that was just read is that of the admission. *)
LEMMA BindingRead ==
    ASSUME NEW point, Resumed(point), SameBinding
    PROVE  /\ adm.binding.runtime <= live.runtime
           /\ \A x \in adm.advertised : x[3] = adm.binding.runtime
           /\ \A i \in DOMAIN adm.evidence : Some(i) => Probed(i)
<1>1. answer.of = "binding" /\ answer.binding.runtime = adm.binding.runtime
  BY DEF SameBinding
<1>2. adm.binding.runtime \in Nat /\ adm.advertised \in SUBSET (Tools \X Contracts \X Nat)
  BY AdmissionFields DEF Resumed
<1>3. \A x \in adm.advertised : x[3] \in Nat
  BY <1>2
<1>4. \A i \in DOMAIN adm.evidence : adm.evidence[i].runtime \in Int
  BY EvidenceShape DEF Resumed
<1> QED BY <1>1, <1>2, <1>3, <1>4 DEF Resumed, RuntimeInv, Probed

(* The chain goes on to a point where nothing more is claimed than holds.   *)
LEMMA GoOn ==
    ASSUME NEW p \in Points, Resumed(p), p # "admit",
           NEW q \in Points, q \notin {"first", "after", "admit"}, GoTo(q),
           adm.binding.runtime <= live.runtime,
           q \in {"before", "probing", "last"} =>
              \A i \in DOMAIN adm.profile :
                 <<adm.profile[i].tool, adm.profile[i].pin, adm.binding.runtime>> \in adm.advertised,
           q = "last" => \A i \in DOMAIN adm.profile : Probed(i)
    PROVE  AdmissionInv'
<1>1. /\ adm' \in Admission /\ adm'.at = q
      /\ adm'.profile = adm.profile /\ adm'.binding = adm.binding
      /\ adm'.started = adm.started /\ adm'.deadline = adm.deadline /\ adm'.index = adm.index
      /\ adm'.listed = adm.listed /\ adm'.advertised = adm.advertised
      /\ adm'.evidence = adm.evidence
  BY DEF GoTo, Resumed, Admission
<1>2. told' = told /\ receipt' = receipt /\ now' = now /\ live' = live
  BY DEF GoTo, Resumed
<1>3. answer' = NoAnswer /\ answer'.of = "none"
  BY DEF Resumed, NoAnswer
<1>4. AdmissionShape'
  BY <1>1, <1>3 DEF Resumed, AdmissionShape, Answers
<1>5. TimesInv'
  BY <1>1, <1>2 DEF Resumed, TimesInv
<1>6. RuntimeInv'
  <2>1. \A x \in adm.advertised : adm.binding.runtime <= x[3] /\ x[3] <= live.runtime
    BY DEF Resumed, RuntimeInv
  <2>2. \A i \in DOMAIN adm.evidence :
          Some(i) => /\ adm.binding.runtime <= adm.evidence[i].runtime
                     /\ adm.evidence[i].runtime <= live.runtime
                     /\ adm.started <= adm.evidence[i].time
    BY DEF Resumed, RuntimeInv
  <2> QED BY <1>1, <1>2, <1>3, <2>1, <2>2 DEF RuntimeInv, Some
<1>7. ListedInv'
  BY <1>1, <1>3, ListedStays DEF Resumed
<1>8. Catalogue'
  BY <1>1 DEF Catalogue
<1>9. ProbesInv'
  <2>1. /\ Len(adm.evidence) = Len(adm.profile) /\ adm.index \in 1..Len(adm.profile)
        /\ \A i \in DOMAIN adm.profile : i < adm.index => Probed(i)
    BY DEF Resumed, ProbesInv
  <2> QED BY <1>1, <1>3, <2>1 DEF ProbesInv, Probed, Some
<1> QED BY <1>4, <1>5, <1>6, <1>7, <1>8, <1>9 DEF AdmissionInv

(* The binding of the admission is the live one. *)
LEMMA FirstStep ==
    ASSUME AdmissionInv, First
    PROVE  AdmissionInv'
<1>1. Resumed("first")
  BY ResumedHolds DEF First, Points, BindingPoints
<1>2. CASE Refuse
  BY <1>1, <1>2, EndStep DEF Refuse
<1>3. CASE SameBinding /\ GoTo("listing")
  BY <1>1, <1>3, BindingRead, GoOn DEF Points, BindingPoints
<1> QED BY <1>2, <1>3 DEF First

(* Pages are gathered: what is listed comes from one of them. *)
LEMMA ListingStep ==
    ASSUME AdmissionInv, Listing
    PROVE  AdmissionInv'
<1>1. Resumed("listing")
  BY ResumedHolds DEF Listing, Points, BindingPoints
<1>2. CASE Refuse
  BY <1>1, <1>2, EndStep DEF Refuse
<1>3. CASE ~Refuse
  <2> DEFINE listed == [t \in Tools |-> IF t \in answer.servers THEN answer.tools[t] ELSE adm.listed[t]]
             servers == adm.servers \cup answer.servers
             cursors == adm.cursors \cup ({answer.next} \ {"end"})
             gathered == [adm EXCEPT
                  !.listed = [t \in Tools |-> IF t \in answer.servers THEN answer.tools[t] ELSE @[t]],
                  !.servers = @ \cup answer.servers,
                  !.cursors = @ \cup ({answer.next} \ {"end"})]
  <2>1. answer.of = "page" /\ UNCHANGED <<told, receipt>>
        /\ (adm' = gathered \/ adm' = [gathered EXCEPT !.at = "listed"])
    <3>1. ~(~Checkpoint \/ answer.of # "page" \/ answer.servers \cap adm.servers # {})
      BY <1>3 DEF Listing
    <3>2. CASE answer.next = "end"
      BY <1>3, <3>1, <3>2 DEF Listing
    <3>3. CASE ~(answer.next = "end")
      BY <1>3, <3>1, <3>3 DEF Listing
    <3> QED BY <3>2, <3>3
  <2>2. IsPage(answer)
    BY <2>1 DEF AdmissionInv, AdmissionShape, Answers, NoAnswer, Failure
  <2>3. /\ answer.servers \in SUBSET Tools /\ answer.next \in Cursors \cup {"end"}
        /\ \A t \in answer.servers : answer.tools[t] \in Contracts
    BY <2>2 DEF IsPage
  <2>4. /\ adm.listed \in [Tools -> Contracts \cup {"absent"}] /\ adm.servers \in SUBSET Tools
        /\ adm.cursors \in SUBSET Cursors /\ adm \in Admission /\ adm.at = "listing"
    BY <1>1 DEF Resumed, Admission
  <2>5. listed \in [Tools -> Contracts \cup {"absent"}] /\ servers \in SUBSET Tools
        /\ cursors \in SUBSET Cursors
    BY <2>3, <2>4
  <2>6. gathered = [adm EXCEPT !.listed = listed, !.servers = servers, !.cursors = cursors]
    BY <2>4 DEF Admission
  <2> HIDE DEF gathered, listed, servers, cursors
  <2>7. PICK g : g = gathered
    OBVIOUS
  <2>8. /\ g \in Admission /\ g.at = "listing"
        /\ g.profile = adm.profile /\ g.binding = adm.binding
        /\ g.started = adm.started /\ g.deadline = adm.deadline /\ g.index = adm.index
        /\ g.passed = adm.passed /\ g.listed = listed /\ g.advertised = adm.advertised
        /\ g.evidence = adm.evidence
    BY <2>4, <2>5, <2>6, <2>7 DEF Admission
  <2>9. /\ adm' \in Admission /\ adm'.at \in {"listing", "listed"}
        /\ adm'.profile = adm.profile /\ adm'.binding = adm.binding
        /\ adm'.started = adm.started /\ adm'.deadline = adm.deadline /\ adm'.index = adm.index
        /\ adm'.passed = adm.passed /\ adm'.listed = listed /\ adm'.advertised = adm.advertised
        /\ adm'.evidence = adm.evidence
    <3>1. CASE adm' = g
      BY <2>8, <3>1
    <3>2. CASE adm' = [g EXCEPT !.at = "listed"]
      BY <2>8, <3>2 DEF Admission, Points, BindingPoints
    <3> QED BY <2>1, <2>7, <3>1, <3>2
  <2>10. answer' = NoAnswer /\ answer'.of = "none"
    BY <1>1 DEF Resumed, NoAnswer
  <2>11. AdmissionShape'
    BY <1>1, <2>9, <2>10 DEF Resumed, AdmissionShape, Answers
  <2>12. TimesInv'
    BY <1>1, <2>1, <2>4, <2>9 DEF Resumed, TimesInv
  <2>13. RuntimeInv'
    <3>1. /\ adm.binding.runtime <= live.runtime
          /\ \A x \in adm.advertised : adm.binding.runtime <= x[3] /\ x[3] <= live.runtime
          /\ \A i \in DOMAIN adm.evidence :
                Some(i) => /\ adm.binding.runtime <= adm.evidence[i].runtime
                           /\ adm.evidence[i].runtime <= live.runtime
                           /\ adm.started <= adm.evidence[i].time
      BY <1>1, <2>4 DEF Resumed, RuntimeInv
    <3>2. live' = live
      BY <1>1 DEF Resumed
    <3> QED BY <2>9, <2>10, <3>1, <3>2 DEF RuntimeInv, Some
  <2>14. ListedInv'
    <3>1. ASSUME NEW t \in Tools, listed[t] # "absent" PROVE Advertised(t, listed[t])
      <4>1. CASE t \in answer.servers
        <5>1. listed[t] = answer.tools[t]
          BY <4>1 DEF listed
        <5> QED BY <1>1, <2>1, <4>1, <5>1 DEF Resumed, ListedInv
      <4>2. CASE t \notin answer.servers
        <5>1. listed[t] = adm.listed[t]
          BY <4>2 DEF listed
        <5> QED BY <1>1, <3>1, <5>1 DEF Resumed, ListedInv
      <4> QED BY <4>1, <4>2
    <3>2. PICK l : l = listed
      OBVIOUS
    <3>3. \A t \in Tools : l[t] # "absent" => \E x \in adm.advertised : x[1] = t /\ x[2] = l[t]
      BY <3>1, <3>2 DEF Advertised
    <3> QED BY <2>9, <2>10, <3>2, <3>3 DEF ListedInv, Advertised
  <2>15. Catalogue'
    BY <2>9 DEF Catalogue
  <2>16. ProbesInv'
    <3>1. /\ Len(adm.evidence) = Len(adm.profile) /\ adm.index \in 1..Len(adm.profile)
          /\ \A i \in DOMAIN adm.profile : i < adm.index => Probed(i)
      BY <1>1 DEF Resumed, ProbesInv
    <3> QED BY <2>9, <2>10, <3>1 DEF ProbesInv, Probed, Some
  <2> QED BY <2>11, <2>12, <2>13, <2>14, <2>15, <2>16 DEF AdmissionInv
<1> QED BY <1>2, <1>3

(* The whole catalogue was advertised, by the runtime of the binding.       *)
LEMMA ListedStep ==
    ASSUME AdmissionInv, Listed
    PROVE  AdmissionInv'
<1>1. Resumed("listed")
  BY ResumedHolds DEF Listed, Points, BindingPoints
<1>2. CASE Refuse
  BY <1>1, <1>2, EndStep DEF Refuse
<1>3. CASE SameBinding /\ Pinned /\ GoTo("before")
  <2>1. adm.binding.runtime <= live.runtime
        /\ \A x \in adm.advertised : x[3] = adm.binding.runtime
    BY <1>1, <1>3, BindingRead
  <2>2. ASSUME NEW i \in DOMAIN adm.profile
        PROVE  <<adm.profile[i].tool, adm.profile[i].pin, adm.binding.runtime>> \in adm.advertised
    <3>1. PICK profile \in Seq(Capability) : profile = adm.profile
      BY <1>1, AdmissionFields DEF Resumed
    <3>2. profile[i] \in Capability
      BY <3>1
    <3>3. PICK t \in Tools, k \in Contracts : t = adm.profile[i].tool /\ k = adm.profile[i].pin
      BY <3>1, <3>2 DEF Capability
    <3>4. adm.listed[t] = k /\ k # "absent"
      BY <1>3, <3>3, CapabilitiesAssumption DEF Pinned
    <3>5. PICK x \in adm.advertised : x[1] = t /\ x[2] = k
      BY <1>1, <3>4 DEF Resumed, ListedInv, Advertised
    <3>6. x = <<x[1], x[2], x[3]>>
      BY <1>1, AdmissionFields DEF Resumed
    <3> QED BY <2>1, <3>3, <3>5, <3>6
  <2> QED BY <1>1, <1>3, <2>1, <2>2, GoOn DEF Points, BindingPoints
<1> QED BY <1>2, <1>3 DEF Listed

(* The binding is read again before a probe. *)
LEMMA BeforeStep ==
    ASSUME AdmissionInv, Before
    PROVE  AdmissionInv'
<1>1. Resumed("before")
  BY ResumedHolds DEF Before, Points, BindingPoints
<1>2. CASE Refuse
  BY <1>1, <1>2, EndStep DEF Refuse
<1>3. CASE SameBinding /\ GoTo("probing")
  <2>1. adm.binding.runtime <= live.runtime
    BY <1>1, <1>3, BindingRead
  <2>2. \A i \in DOMAIN adm.profile :
           <<adm.profile[i].tool, adm.profile[i].pin, adm.binding.runtime>> \in adm.advertised
    BY <1>1 DEF Resumed, Catalogue
  <2> QED BY <1>1, <1>3, <2>1, <2>2, GoOn DEF Points, BindingPoints
<1> QED BY <1>2, <1>3 DEF Before

(* A step of the chain that keeps what was gathered, its index and what the *)
(* probe said apart.                                                        *)
LEMMA ChainStays ==
    ASSUME NEW p, Resumed(p), p \in {"probing", "after", "last"},
           adm' \in Admission, told' = told,
           adm'.profile = adm.profile, adm'.binding = adm.binding,
           adm'.started = adm.started, adm'.listed = adm.listed,
           adm'.advertised = adm.advertised, adm'.evidence = adm.evidence
    PROVE  AdmissionShape' /\ RuntimeInv' /\ ListedInv' /\ Catalogue'
<1>1. answer' = NoAnswer /\ answer'.of = "none" /\ now' = now /\ live' = live
  BY DEF Resumed, NoAnswer
<1>2. AdmissionShape'
  BY <1>1 DEF Resumed, AdmissionShape, Answers
<1>3. RuntimeInv'
  <2>1. /\ adm.binding.runtime <= live.runtime
        /\ \A x \in adm.advertised : adm.binding.runtime <= x[3] /\ x[3] <= live.runtime
        /\ \A i \in DOMAIN adm.evidence :
              Some(i) => /\ adm.binding.runtime <= adm.evidence[i].runtime
                         /\ adm.evidence[i].runtime <= live.runtime
                         /\ adm.started <= adm.evidence[i].time
    BY DEF Resumed, RuntimeInv
  <2> QED BY <1>1, <2>1 DEF RuntimeInv, Some
<1>4. ListedInv'
  BY <1>1, ListedStays DEF Resumed
<1>5. Catalogue'
  BY DEF Resumed, Catalogue
<1> QED BY <1>2, <1>3, <1>4, <1>5

(* The result of a probe is kept until the binding has been read once more. *)
LEMMA ProbingStep ==
    ASSUME AdmissionInv, Probing
    PROVE  AdmissionInv'
<1>1. Resumed("probing")
  BY ResumedHolds DEF Probing, Points, BindingPoints
<1>2. CASE Refuse
  BY <1>1, <1>2, EndStep DEF Refuse
<1>3. CASE ~Refuse
  <2>1. answer.of = "probe" /\ UNCHANGED <<told, receipt>>
        /\ adm' = [adm EXCEPT !.at = "after", !.passed = answer.ok]
    BY <1>3 DEF Probing
  <2>2. answer.ok \in BOOLEAN
    BY <2>1 DEF AdmissionInv, AdmissionShape, Answers, IsPage, NoAnswer, Failure
  <2>3. /\ adm' \in Admission /\ adm'.at = "after" /\ adm'.passed = answer.ok
        /\ adm'.profile = adm.profile /\ adm'.binding = adm.binding
        /\ adm'.started = adm.started /\ adm'.deadline = adm.deadline /\ adm'.index = adm.index
        /\ adm'.listed = adm.listed /\ adm'.advertised = adm.advertised
        /\ adm'.evidence = adm.evidence
    BY <1>1, <2>1, <2>2 DEF Resumed, Admission, Points, BindingPoints
  <2>4. AdmissionShape' /\ RuntimeInv' /\ ListedInv' /\ Catalogue'
    BY <1>1, <2>1, <2>3, ChainStays
  <2>5. TimesInv'
    BY <1>1, <2>1, <2>3 DEF Resumed, TimesInv
  <2>6. ProbesInv'
    <3>1. /\ Len(adm.evidence) = Len(adm.profile) /\ adm.index \in 1..Len(adm.profile)
          /\ \A i \in DOMAIN adm.profile : i < adm.index => Probed(i)
          /\ answer.ok => Some(adm.index)
      BY <1>1, <2>1 DEF Resumed, ProbesInv
    <3> QED BY <2>3, <3>1 DEF ProbesInv, Probed, Some
  <2> QED BY <2>4, <2>5, <2>6 DEF AdmissionInv
<1> QED BY <1>2, <1>3

(* A probe that passed, between two readings of one binding, is evidence.   *)
LEMMA AfterStep ==
    ASSUME AdmissionInv, After
    PROVE  AdmissionInv'
<1>1. Resumed("after")
  BY ResumedHolds DEF After, Points, BindingPoints
<1>2. CASE Refuse
  BY <1>1, <1>2, EndStep DEF Refuse
<1>3. CASE ~Refuse
  <2>1. SameBinding /\ adm.passed
    BY <1>3 DEF After
  <2>2. /\ Len(adm.evidence) = Len(adm.profile) /\ adm.index \in 1..Len(adm.profile)
        /\ \A i \in DOMAIN adm.profile : i < adm.index => Probed(i)
        /\ Some(adm.index)
        /\ adm.profile \in Seq(Capability) /\ adm.evidence \in Seq(Evidence)
    BY <1>1, <2>1, AdmissionFields DEF Resumed, ProbesInv
  <2>3. PICK n \in Nat : n = Len(adm.profile) /\ DOMAIN adm.profile = 1..n /\ DOMAIN adm.evidence = 1..n
    BY <2>2
  <2>4. adm.index \in 1..n /\ Probed(adm.index) /\ adm.binding.runtime <= live.runtime
    <3>1. PICK i \in 1..n : i = adm.index
      BY <2>2, <2>3
    <3>2. Probed(i)
      BY <1>1, <2>1, <2>2, <2>3, <3>1, BindingRead
    <3>3. adm.binding.runtime <= live.runtime
      BY <1>1, <2>1, BindingRead
    <3> QED BY <3>1, <3>2, <3>3
  <2>5. \A i \in 1..n : i <= adm.index => Probed(i)
    BY <2>2, <2>3, <2>4
  <2>6. CASE MoreToProbe
    <3>1. UNCHANGED <<told, receipt>>
          /\ adm' = [adm EXCEPT !.at = "before", !.index = @ + 1]
      BY <1>3, <2>6 DEF After
    <3>2. /\ adm' \in Admission /\ adm'.at = "before" /\ adm'.index = adm.index + 1
          /\ adm'.profile = adm.profile /\ adm'.binding = adm.binding
          /\ adm'.started = adm.started /\ adm'.deadline = adm.deadline
          /\ adm'.listed = adm.listed /\ adm'.advertised = adm.advertised
          /\ adm'.evidence = adm.evidence
      <4>1. PICK k \in Nat : k = adm.index + 1
        BY <1>1, AdmissionFields DEF Resumed
      <4>2. adm' = [adm EXCEPT !.at = "before", !.index = k]
        BY <1>1, <3>1, <4>1 DEF Resumed, Admission
      <4> QED BY <1>1, <4>1, <4>2 DEF Resumed, Admission, Points, BindingPoints
    <3>3. AdmissionShape' /\ RuntimeInv' /\ ListedInv' /\ Catalogue'
      BY <1>1, <3>1, <3>2, ChainStays
    <3>4. TimesInv'
      BY <1>1, <3>1, <3>2 DEF Resumed, TimesInv
    <3>5. ProbesInv'
      <4>1. adm.index + 1 \in 1..n
        BY <2>3, <2>4, <2>6 DEF MoreToProbe
      <4>2. \A i \in 1..n : i < adm.index + 1 => Probed(i)
        BY <2>4, <2>5
      <4> QED BY <2>2, <2>3, <3>2, <4>1, <4>2 DEF ProbesInv, Probed, Some
    <3> QED BY <3>3, <3>4, <3>5 DEF AdmissionInv
  <2>7. CASE ~MoreToProbe
    <3>1. GoTo("last")
      BY <1>3, <2>7 DEF After
    <3>2. \A i \in DOMAIN adm.profile : Probed(i)
      BY <2>3, <2>4, <2>5, <2>7 DEF MoreToProbe
    <3>3. \A i \in DOMAIN adm.profile :
             <<adm.profile[i].tool, adm.profile[i].pin, adm.binding.runtime>> \in adm.advertised
      BY <1>1 DEF Resumed, Catalogue
    <3> QED BY <1>1, <2>4, <3>1, <3>2, <3>3, GoOn DEF Points, BindingPoints
  <2> QED BY <2>6, <2>7
<1> QED BY <1>2, <1>3

(* A receipt; an admission goes on under a deadline of its own.             *)
LEMMA LastStep ==
    ASSUME AdmissionInv, Last
    PROVE  AdmissionInv'
<1>1. Resumed("last")
  BY ResumedHolds DEF Last, Points, BindingPoints
<1>2. CASE adm' = Idle
  BY <1>1, <1>2, EndStep
<1>3. CASE adm' # Idle
  <2>1. /\ Checkpoint /\ told' = told
        /\ receipt' = [issued |-> TRUE, profile |-> adm.profile, binding |-> adm.binding,
                       start |-> adm.started, end |-> adm.started + Ttl]
        /\ adm' = [adm EXCEPT !.at = "admit", !.deadline = now + Timeout]
    BY <1>3 DEF Last, Refuse
  <2>2. now + Timeout \in Nat
    BY <1>1, ConstantNumbers DEF Resumed
  <2>3. /\ adm' \in Admission /\ adm'.at = "admit" /\ adm'.deadline = now + Timeout
        /\ adm'.profile = adm.profile /\ adm'.binding = adm.binding
        /\ adm'.started = adm.started /\ adm'.index = adm.index
        /\ adm'.listed = adm.listed /\ adm'.advertised = adm.advertised
        /\ adm'.evidence = adm.evidence
    BY <1>1, <2>1, <2>2 DEF Resumed, Admission, Points, BindingPoints
  <2>4. AdmissionShape' /\ RuntimeInv' /\ ListedInv' /\ Catalogue'
    BY <1>1, <2>1, <2>3, ChainStays
  <2>5. TimesInv'
    <3>1. adm.started \in Nat /\ adm.deadline \in Nat /\ now \in Nat /\ now' = now
      BY <1>1, AdmissionFields DEF Resumed
    <3>2. /\ adm.started <= now /\ now < adm.deadline /\ adm.deadline <= adm.started + Timeout
          /\ told # "refused"
      BY <1>1, <2>1, <3>1 DEF Resumed, TimesInv, Checkpoint
    <3>3. now + Timeout < adm.started + 2 * Timeout
      BY <3>1, <3>2, ConstantNumbers
    <3>4. receipt'.issued /\ receipt'.end = adm.started + Ttl
      BY <2>1
    <3> QED BY <2>1, <2>3, <3>1, <3>2, <3>3, <3>4 DEF TimesInv
  <2>6. ProbesInv'
    <3>1. /\ Len(adm.evidence) = Len(adm.profile) /\ adm.index \in 1..Len(adm.profile)
          /\ \A i \in DOMAIN adm.profile : Probed(i)
      BY <1>1 DEF Resumed, ProbesInv
    <3> QED BY <2>3, <3>1 DEF ProbesInv, Probed, Some
  <2> QED BY <2>4, <2>5, <2>6 DEF AdmissionInv
<1> QED BY <1>2, <1>3

(* The work is called, or refused: either way the admission is over.        *)
LEMMA AdmitStep ==
    ASSUME AdmissionInv, Admit
    PROVE  AdmissionInv'
<1>1. Resumed("admit")
  BY ResumedHolds DEF Admit, Points, BindingPoints
<1> QED BY <1>1, EndStep DEF Admit, Refuse

(* The timer tells the caller that the deadline is over.                    *)
LEMMA TimerStep ==
    ASSUME AdmissionInv, Timer
    PROVE  AdmissionInv'
<1>1. UNCHANGED <<now, live, adm, answer, receipt>> /\ ~(now < adm.deadline)
      /\ (adm # Idle => adm \in Admission /\ TimesInv /\ now \in Nat)
  BY DEF Timer, sessionVars, AdmissionInv, AdmissionShape, SessionShape
<1>2. AdmissionShape'
  BY <1>1 DEF AdmissionInv, AdmissionShape, SessionShape, Answers
<1>3. ASSUME adm # Idle PROVE (TimesInv /\ RuntimeInv /\ ListedInv /\ Catalogue /\ ProbesInv)'
  <2>1. TimesInv'
    BY <1>1, <1>3, AdmissionFields DEF TimesInv
  <2>2. RuntimeInv' /\ ListedInv' /\ Catalogue' /\ ProbesInv'
    BY <1>1, <1>3 DEF AdmissionInv, RuntimeInv, ListedInv, Advertised, Catalogue, ProbesInv, Probed, Some
  <2> QED BY <2>1, <2>2
<1> QED BY <1>1, <1>2, <1>3 DEF AdmissionInv

(* An admission begins, unless it is refused at once.                       *)
LEMMA StartStep ==
    ASSUME AdmissionInv, NEW kind \in {"preflight", "admit"}, NEW w \in Policies,
           NEW p \in Providers, NEW b \in Binding, NEW adapter \in BOOLEAN,
           Start(kind, w, p, b, adapter)
    PROVE  AdmissionInv'
<1>1. UNCHANGED <<now, live, receipt>> /\ answer' = NoAnswer /\ SessionShape' /\ now \in Nat
      /\ live.runtime \in Nat
  BY DEF Start, sessionVars, AdmissionInv, AdmissionShape, SessionShape, Binding
<1>2. CASE adm' = Idle
  BY <1>1, <1>2 DEF AdmissionInv, AdmissionShape, Answers
<1>3. CASE adm' # Idle
  <2>1. Resolves(w, p) /\ ProfileOK(Resolved(w, p)) /\ told' = "nothing"
    BY <1>3 DEF Start
  <2>2. PICK profile \in Seq(Capability), n \in Nat :
           /\ profile = Resolved(w, p) /\ n = Len(profile) /\ n >= 1 /\ DOMAIN profile = 1..n
           /\ DOMAIN w.required = 1..n
    <3>1. /\ Resolved(w, p) \in Seq(Capability) /\ Resolved(w, p) # <<>>
          /\ w.required \in Seq(Ids) /\ Len(Resolved(w, p)) = Len(w.required)
      BY <2>1, ResolvedIsProfile
    <3> QED BY <3>1
  <2>3. PICK evidence : evidence = [i \in 1..n |-> NoEvidence]
    OBVIOUS
  <2>4. /\ evidence \in Seq(Evidence) /\ Len(evidence) = n /\ DOMAIN evidence = 1..n
        /\ \A i \in 1..n : evidence[i].runtime = -1
    <3>1. NoEvidence \in Evidence /\ NoEvidence.runtime = -1
      BY DEF NoEvidence, Evidence
    <3> QED BY <2>3, <3>1
  <2>5. PICK listed : listed = [t \in Tools |-> "absent"]
    OBVIOUS
  <2>6. adm' = [at |-> "first", kind |-> kind, provider |-> p,
                       profile |-> profile, binding |-> b, started |-> now,
                       deadline |-> now + Timeout, index |-> 1, passed |-> FALSE,
                       listed |-> listed, servers |-> {}, cursors |-> {},
                       advertised |-> {}, evidence |-> evidence]
    BY <1>3, <2>2, <2>3, <2>5 DEF Start
  <2>7. now + Timeout \in Nat /\ now + Timeout < now + 2 * Timeout
    BY <1>1, ConstantNumbers
  <2>8. /\ adm' \in Admission /\ adm'.at = "first" /\ adm'.profile = profile /\ adm'.binding = b
        /\ adm'.started = now /\ adm'.deadline = now + Timeout /\ adm'.index = 1
        /\ adm'.passed = FALSE /\ adm'.listed = listed /\ adm'.advertised = {}
        /\ adm'.evidence = evidence
    BY <1>1, <2>2, <2>4, <2>5, <2>6, <2>7 DEF Admission, Points, BindingPoints
  <2>9. answer'.of = "none"
    BY <1>1 DEF NoAnswer
  <2>10. AdmissionShape'
    BY <1>1, <2>8 DEF AdmissionShape, Answers
  <2>11. TimesInv'
    BY <1>1, <2>1, <2>7, <2>8 DEF TimesInv
  <2>12. RuntimeInv'
    BY <2>4, <2>8, <2>9 DEF RuntimeInv, Some
  <2>13. ListedInv' /\ Catalogue'
    BY <2>5, <2>8, <2>9 DEF ListedInv, Catalogue
  <2>14. ProbesInv'
    BY <2>2, <2>4, <2>8, <2>9 DEF ProbesInv
  <2> QED BY <2>10, <2>11, <2>12, <2>13, <2>14 DEF AdmissionInv
<1> QED BY <1>2, <1>3

-----------------------------------------------------------------------------
(* The theorems about admissions.                                           *)

(* Every step keeps the invariant of admissions. *)
LEMMA AdmissionStep ==
    ASSUME AdmissionInv, [AdmissionNext]_vars
    PROVE  AdmissionInv'
<1>1. CASE UNCHANGED vars
  <2>1. UNCHANGED <<now, live, adm, answer, told, receipt>>
    BY <1>1 DEF vars
  <2> QED BY <2>1 DEF AdmissionInv, AdmissionShape, SessionShape, Answers, TimesInv, RuntimeInv,
             ListedInv, Advertised, Catalogue, ProbesInv, Probed, Some
<1>2. CASE AdmissionNext
  <2>1. CASE Chain
    BY <2>1, FirstStep, ListingStep, ListedStep, BeforeStep, ProbingStep, AfterStep, LastStep,
       AdmitStep DEF Chain
  <2> QED BY <1>2, <2>1, SessionStep, AnswerBindingStep, AnswerPageStep, AnswerProbeStep,
          StartStep, TimerStep DEF AdmissionNext
<1> QED BY <1>1, <1>2

(* The invariant holds of every behaviour of Capabilities. *)
THEOREM AdmissionInvariant == AdmissionSpec => []AdmissionInv
<1>1. Init => AdmissionInv
  BY CapabilitiesAssumption
     DEF Init, AdmissionInv, AdmissionShape, SessionShape, Binding, Answers
<1>2. AdmissionInv /\ [AdmissionNext]_vars => AdmissionInv'
  BY AdmissionStep
<1> QED BY <1>1, <1>2, PTL DEF AdmissionSpec

(* CatalogueBeforeProbes (preflightCapabilities, capabilities.ts): when a   *)
(* tool is probed, every required one has been advertised with the contract *)
(* its capability pins, by the runtime the admission is for.                *)
THEOREM CatalogueCorrect == AdmissionSpec => []CatalogueBeforeProbes
<1>1. AdmissionInv => CatalogueBeforeProbes
  <2> SUFFICES ASSUME AdmissionInv, Running, adm.at = "probing"
               PROVE  \A i \in DOMAIN adm.profile :
                  <<adm.profile[i].tool, adm.profile[i].pin, adm.binding.runtime>> \in adm.advertised
    BY DEF CatalogueBeforeProbes
  <2>1. adm # Idle
    BY DEF Idle
  <2> QED BY <2>1 DEF AdmissionInv, Catalogue
<1> QED BY <1>1, AdmissionInvariant, PTL

(* What the step that calls the work has checked. *)
LEMMA WorkStep ==
    ASSUME AdmissionInv, AdmissionNext, told' = "work", told # "work"
    PROVE  /\ \A i \in DOMAIN adm.profile :
                 /\ adm.evidence[i].runtime = adm.binding.runtime
                 /\ adm.started <= adm.evidence[i].time
                 /\ now < adm.evidence[i].time + Ttl
           /\ now < adm.started + 2 * Timeout
<1>1. Admit
  BY DEF AdmissionNext, SessionChanges, AdmissionUnchanged, AnswerBinding, AnswerPage, AnswerProbe,
         AnswerFails, Start, Chain, First, Listing, Listed, Before, Probing, After, Last, Refuse,
         GoTo, Timer
<1>2. Resumed("admit") /\ Checkpoint /\ Valid(receipt, adm.profile, adm.binding, now)
  BY <1>1, ResumedHolds DEF Admit, Refuse, Points, BindingPoints
<1>3. /\ adm \in Admission /\ now \in Nat /\ adm.deadline \in Nat /\ adm.started \in Nat
      /\ now < adm.deadline /\ adm.deadline < adm.started + 2 * Timeout
      /\ now < adm.started + Ttl
  BY <1>2, AdmissionFields DEF Resumed, TimesInv, Checkpoint, Valid
<1>4. ASSUME NEW i \in DOMAIN adm.profile
      PROVE  /\ adm.evidence[i].runtime = adm.binding.runtime
             /\ adm.started <= adm.evidence[i].time
             /\ now < adm.evidence[i].time + Ttl
  <2>1. Probed(i) /\ i \in DOMAIN adm.evidence
    <3>1. PICK profile \in Seq(Capability), e \in Seq(Evidence) :
             profile = adm.profile /\ e = adm.evidence /\ Len(profile) = Len(e)
      BY <1>2, AdmissionFields DEF Resumed, ProbesInv
    <3> QED BY <1>2, <3>1 DEF Resumed, ProbesInv
  <2>2. adm.evidence[i].time \in Int
    BY <1>3, <2>1, EvidenceShape
  <2> QED BY <1>3, <2>1, <2>2, ConstantNumbers DEF Probed
<1>5. now < adm.started + 2 * Timeout
  BY <1>3, ConstantNumbers
<1> QED BY <1>4, <1>5

(* WorkRestsOnEvidence (preflightCapabilities and admitCapabilityWork,      *)
(* capabilities.ts): the work is called only if each capability was probed  *)
(* with success in this admission, in the runtime it is for, less than a    *)
(* receipt's lifetime ago, and within two deadlines of its start.           *)
THEOREM WorkCorrect == AdmissionSpec => WorkRestsOnEvidence
<1>1. AdmissionInv /\ [AdmissionNext]_vars =>
        [told' = "work" /\ told # "work" =>
            /\ \A i \in DOMAIN adm.profile :
                  LET e == adm.evidence[i]
                  IN  /\ e.runtime = adm.binding.runtime
                      /\ adm.started <= e.time /\ now < e.time + Ttl
            /\ now < adm.started + 2 * Timeout]_vars
  BY WorkStep
<1> QED BY <1>1, AdmissionInvariant, PTL DEF AdmissionSpec, WorkRestsOnEvidence

(* NothingAfterTimeout (checkpoint and bounded, capabilities.ts): once the  *)
(* timer has answered the caller, the chain it leaves behind asks nothing   *)
(* more and issues no receipt.                                              *)
THEOREM TimeoutCorrect == AdmissionSpec => NothingAfterTimeout
<1>1. ASSUME AdmissionInv, AdmissionNext, Running, told = "refused"
      PROVE  adm'.at \in {adm.at, "idle"} /\ told' = "refused" /\ receipt' = receipt
  <2>1. adm \in Admission /\ ~Checkpoint
    <3>1. adm # Idle
      BY <1>1 DEF Running, BindingPoints, Idle
    <3>2. adm \in Admission /\ TimesInv /\ now \in Nat
      BY <1>1, <3>1 DEF AdmissionInv, AdmissionShape, SessionShape
    <3> QED BY <1>1, <3>2, AdmissionFields DEF TimesInv, Checkpoint
  <2>2. Idle.at = "idle"
    BY DEF Idle
  <2>3. CASE SessionChanges \/ AnswerBinding \/ AnswerFails
    BY <1>1, <2>3 DEF SessionChanges, AdmissionUnchanged, AnswerBinding, AnswerFails
  <2>4. CASE AnswerPage
    BY <1>1, <2>1, <2>4 DEF AnswerPage, Admission
  <2>5. CASE AnswerProbe
    BY <1>1, <2>1, <2>5 DEF AnswerProbe, Admission
  <2>6. CASE Chain
    BY <1>1, <2>1, <2>2, <2>6 DEF Chain, First, Listing, Listed, Before, Probing, After, Last,
       Admit, Refuse
  <2> QED BY <1>1, <2>3, <2>4, <2>5, <2>6 DEF AdmissionNext, Start, Timer
<1>2. AdmissionInv /\ [AdmissionNext]_vars =>
        [Running /\ told = "refused" =>
            /\ adm'.at \in {adm.at, "idle"}
            /\ told' = "refused"
            /\ receipt' = receipt]_vars
  BY <1>1
<1> QED BY <1>2, AdmissionInvariant, PTL DEF AdmissionSpec, NothingAfterTimeout

(***************************************************************************)
(* Reports.                                                                *)
(***************************************************************************)
Times == Nat \cup {Never}

Delivery == [created : Nat, queued : BOOLEAN, handled : Times, acked : Times]

Fields == {"at", "observed", "profile", "receipt", "readiness", "expires", "binding", "readAt",
           "item", "handling", "phase"}

JournalInv ==
    /\ deliveries \in Seq(Delivery)
    /\ \A d \in DOMAIN deliveries : deliveries[d].created <= now

(* The delivery of the report was there when the report began, and was not  *)
(* acknowledged before.                                                     *)
Evidenced(d) ==
    /\ d \in DOMAIN deliveries
    /\ deliveries[d].created <= status.observed
    /\ deliveries[d].acked = Never \/ deliveries[d].acked >= status.observed

(* What is reported of it. *)
Reported(d) ==
    IF status.handling = "handled-awaiting-ack"
    THEN deliveries[d].handled # Never /\ deliveries[d].handled <= status.observed
    ELSE deliveries[d].handled = Never \/ deliveries[d].handled >= status.observed

NoDelivery == {"no-pending-delivery", "evidence-invalid"}

StatusInv ==
    /\ DOMAIN status = Fields
    /\ status.observed \in Nat /\ status.observed <= now
    /\ status.at = "read" => status.readAt >= status.observed
    /\ status.at \in {"receipt", "queued"} => Evidenced(status.item)
    /\ status.at = "queued" => Reported(status.item)
    /\ status.at = Settled /\ status.handling \notin NoDelivery =>
          Evidenced(status.item) /\ Reported(status.item)

ReportInv ==
    /\ SessionShape
    /\ JournalInv
    /\ status = NoReport \/ StatusInv

(* The deliveries of the journal. *)
LEMMA DeliveryShape ==
    ASSUME JournalInv, NEW d \in DOMAIN deliveries
    PROVE  deliveries[d] \in Delivery /\ deliveries[d].created \in Nat
<1>1. PICK s \in Seq(Delivery) : s = deliveries
  BY DEF JournalInv
<1>2. s[d] \in Delivery
  BY <1>1
<1> QED BY <1>1, <1>2 DEF Delivery

(* A step that leaves the report alone. *)
LEMMA StatusStays ==
    ASSUME ReportInv, SessionShape', JournalInv', UNCHANGED status, now <= now',
           \A d \in DOMAIN deliveries : Evidenced(d) => Evidenced(d)',
           \A d \in DOMAIN deliveries : Reported(d) => Reported(d)'
    PROVE  ReportInv'
<1>1. CASE status = NoReport
  BY <1>1 DEF ReportInv
<1>2. CASE status # NoReport
  <2>1. StatusInv /\ now \in Nat /\ now' \in Nat
    BY <1>2 DEF ReportInv, SessionShape
  <2>2. PICK d : d = status.item
    OBVIOUS
  <2>3. status.observed \in Nat /\ status.observed <= now'
    BY <2>1 DEF StatusInv
  <2>4. Evidenced(d) => Evidenced(d)'
    BY DEF Evidenced
  <2>5. Evidenced(d) /\ Reported(d) => Reported(d)'
    BY DEF Evidenced
  <2>6. /\ status.at \in {"receipt", "queued"} => Evidenced(d)
        /\ status.at = "queued" => Reported(d)
        /\ status.at = Settled /\ status.handling \notin NoDelivery => Evidenced(d) /\ Reported(d)
    BY <2>1, <2>2 DEF StatusInv
  <2>7. /\ status.at \in {"receipt", "queued"} => Evidenced(d)'
        /\ status.at = "queued" => Reported(d)'
        /\ status.at = Settled /\ status.handling \notin NoDelivery => Evidenced(d)' /\ Reported(d)'
    BY <2>4, <2>5, <2>6
  <2>8. StatusInv'
    BY <2>1, <2>2, <2>3, <2>7 DEF StatusInv, Evidenced, Reported
  <2> QED BY <2>8 DEF ReportInv
<1> QED BY <1>1, <1>2

(* The clock, the session and the host's receipts. *)
LEMMA SurroundingsStep ==
    ASSUME ReportInv,
           \/ SessionChanges /\ UNCHANGED <<deliveries, status>>
           \/ \E p \in Profiles, b \in Binding, t \in 0..MaxTime : Issue(p, b, t)
    PROVE  ReportInv'
<1>1. UNCHANGED <<deliveries, status>>
  BY DEF Issue
<1>2. SessionShape' /\ now <= now'
  <2>1. now \in Nat /\ live \in Binding
    BY DEF ReportInv, SessionShape
  <2>2. CASE SessionChanges
    <3>1. CASE Tick
      BY <2>1, <3>1 DEF Tick, SessionShape
    <3>2. CASE Reconnect
      BY <2>1, <3>2, ConstantNumbers DEF Reconnect, SessionShape, Binding
    <3>3. CASE \E c \in Configs : Reconfigure(c)
      BY <2>1, <3>3 DEF Reconfigure, SessionShape, Binding
    <3> QED BY <2>2, <3>1, <3>2, <3>3 DEF SessionChanges
  <2>3. CASE UNCHANGED <<now, live>>
    BY <2>1, <2>3 DEF SessionShape
  <2> QED BY <2>2, <2>3 DEF Issue, sessionVars
<1>3. JournalInv'
  <2>1. \A d \in DOMAIN deliveries : deliveries[d].created \in Nat
    BY DeliveryShape DEF ReportInv
  <2> QED BY <1>1, <1>2, <2>1 DEF ReportInv, JournalInv, SessionShape
<1>4. /\ \A d \in DOMAIN deliveries : Evidenced(d) => Evidenced(d)'
      /\ \A d \in DOMAIN deliveries : Reported(d) => Reported(d)'
  BY <1>1 DEF Evidenced, Reported
<1> QED BY <1>1, <1>2, <1>3, <1>4, StatusStays

(* Marks are written to the journal while it is read: what they say is of a *)
(* later moment than the one reported on.                                   *)
LEMMA JournalStep ==
    ASSUME ReportInv, JournalChanges
    PROVE  ReportInv'
<1>1. UNCHANGED status /\ UNCHANGED <<now, live>> /\ now \in Nat /\ SessionShape'
  BY DEF JournalChanges, ReportInv, SessionShape, vars
<1>2. /\ deliveries \in Seq(Delivery) /\ \A d \in DOMAIN deliveries : deliveries[d].created <= now
      /\ status # NoReport => status.observed \in Nat /\ status.observed <= now
  BY DEF ReportInv, JournalInv, StatusInv
<1>3. CASE Add
  <2>1. PICK e \in Delivery : deliveries' = Append(deliveries, e) /\ e.created = now
    <3>1. [created |-> now, queued |-> FALSE, handled |-> Never, acked |-> Never] \in Delivery
      BY <1>1 DEF Delivery, Times
    <3> QED BY <1>3, <3>1 DEF Add
  <2>2. /\ deliveries' \in Seq(Delivery)
        /\ DOMAIN deliveries \subseteq DOMAIN deliveries'
        /\ \A d \in DOMAIN deliveries : deliveries'[d] = deliveries[d]
        /\ \A d \in DOMAIN deliveries' : d \in DOMAIN deliveries \/ deliveries'[d] = e
    BY <1>2, <2>1
  <2>3. JournalInv'
    BY <1>1, <1>2, <2>1, <2>2 DEF JournalInv
  <2>4. /\ \A d \in DOMAIN deliveries : Evidenced(d) => Evidenced(d)'
        /\ \A d \in DOMAIN deliveries : Reported(d) => Reported(d)'
    BY <1>1, <2>2 DEF Evidenced, Reported
  <2> QED BY <1>1, <2>3, <2>4, StatusStays
<1>4. ASSUME NEW d \in DOMAIN deliveries, MarkQueued(d) \/ Handle(d) \/ MarkAcknowledged(d)
      PROVE  ReportInv'
  <2>1. PICK old \in Delivery : old = deliveries[d]
    BY <1>2
  <2>2. PICK e \in Delivery :
           /\ deliveries' = [deliveries EXCEPT ![d] = e] /\ e.created = old.created
           /\ e.handled = old.handled \/ (old.handled = Never /\ e.handled = now)
           /\ e.acked = old.acked \/ e.acked = now
    <3>1. CASE MarkQueued(d)
      <4>1. PICK e : e = [old EXCEPT !.queued = TRUE]
        OBVIOUS
      <4>2. e \in Delivery /\ e.created = old.created /\ e.handled = old.handled /\ e.acked = old.acked
        BY <4>1 DEF Delivery
      <4>3. deliveries' = [deliveries EXCEPT ![d] = e]
        BY <2>1, <3>1, <4>1 DEF MarkQueued
      <4> QED BY <4>2, <4>3
    <3>2. CASE Handle(d)
      <4>1. PICK e : e = [old EXCEPT !.handled = now]
        OBVIOUS
      <4>2. e \in Delivery /\ e.created = old.created /\ e.handled = now /\ e.acked = old.acked
        BY <1>1, <4>1 DEF Delivery, Times
      <4>3. deliveries' = [deliveries EXCEPT ![d] = e] /\ old.handled = Never
        BY <2>1, <3>2, <4>1 DEF Handle
      <4> QED BY <4>2, <4>3
    <3>3. CASE MarkAcknowledged(d)
      <4>1. PICK e : e = [old EXCEPT !.acked = now]
        OBVIOUS
      <4>2. e \in Delivery /\ e.created = old.created /\ e.handled = old.handled /\ e.acked = now
        BY <1>1, <4>1 DEF Delivery, Times
      <4>3. deliveries' = [deliveries EXCEPT ![d] = e]
        BY <2>1, <3>3, <4>1 DEF MarkAcknowledged
      <4> QED BY <4>2, <4>3
    <3> QED BY <1>4, <3>1, <3>2, <3>3
  <2>3. PICK n \in Nat : DOMAIN deliveries = 1..n /\ deliveries \in [1..n -> Delivery]
    BY <1>2
  <2>4. deliveries' \in [1..n -> Delivery]
        /\ \A i \in 1..n : deliveries'[i] = IF i = d THEN e ELSE deliveries[i]
    BY <2>2, <2>3
  <2>5. deliveries' \in Seq(Delivery) /\ DOMAIN deliveries' = 1..n
    BY <2>4
  <2>6. JournalInv'
    BY <1>1, <1>2, <2>1, <2>2, <2>3, <2>4, <2>5 DEF JournalInv
  <2>7. CASE status = NoReport
    BY <1>1, <2>6, <2>7 DEF ReportInv
  <2>8. CASE status # NoReport
    <3>1. PICK o \in Nat : o = status.observed /\ o <= now
      BY <1>2, <2>8
    <3>2. ASSUME NEW i \in DOMAIN deliveries, Evidenced(i) PROVE Evidenced(i)'
      <4>1. /\ deliveries[i].created <= o
            /\ deliveries[i].acked = Never \/ deliveries[i].acked >= o
        BY <3>1, <3>2 DEF Evidenced
      <4>2. /\ deliveries'[i].created <= o
            /\ deliveries'[i].acked = Never \/ deliveries'[i].acked >= o
        BY <1>1, <2>1, <2>2, <2>3, <2>4, <3>1, <4>1
      <4>3. status'.observed = o /\ i \in DOMAIN deliveries'
        BY <1>1, <2>3, <2>5, <3>1
      <4> QED BY <4>2, <4>3 DEF Evidenced
    <3>3. ASSUME NEW i \in DOMAIN deliveries, Reported(i) PROVE Reported(i)'
      <4>1. PICK h, g : h = deliveries[i].handled /\ g = deliveries'[i].handled
        OBVIOUS
      <4>2. g = h \/ (h = Never /\ g = now)
        BY <2>1, <2>2, <2>3, <2>4, <4>1
      <4>3. IF status.handling = "handled-awaiting-ack" THEN h # Never /\ h <= o
                                                        ELSE h = Never \/ h >= o
        BY <3>1, <3>3, <4>1 DEF Reported
      <4>4. IF status.handling = "handled-awaiting-ack" THEN g # Never /\ g <= o
                                                        ELSE g = Never \/ g >= o
        BY <1>1, <3>1, <4>2, <4>3
      <4> QED BY <1>1, <3>1, <4>1, <4>4 DEF Reported
    <3> QED BY <1>1, <2>6, <3>2, <3>3, StatusStays
  <2> QED BY <2>7, <2>8
<1> QED BY <1>3, <1>4 DEF JournalChanges

(* A step of the report changes nothing else. *)
LEMMA ReportStays ==
    ASSUME ReportInv, Report
    PROVE  /\ SessionShape' /\ JournalInv' /\ UNCHANGED <<now, live, deliveries, receipt>>
           /\ now \in Nat
BY DEF ReportInv, Report, vars, SessionShape, JournalInv

(* The report begins. *)
LEMMA AskStep ==
    ASSUME ReportInv, NEW profile, NEW hook \in BOOLEAN, Ask(profile, hook)
    PROVE  ReportInv' /\ status = NoReport
<1>1. /\ SessionShape' /\ JournalInv' /\ UNCHANGED now /\ now \in Nat
  BY ReportStays DEF Ask
<1>2. /\ DOMAIN status' = Fields /\ status'.observed = now
      /\ status'.at \in {"binding", "inspecting"}
  BY DEF Ask, Fields
<1>3. StatusInv'
  BY <1>1, <1>2 DEF StatusInv, Settled
<1> QED BY <1>1, <1>3 DEF ReportInv, Ask

(* The binding is read after the time of the report was taken. *)
LEMMA ReadBindingStep ==
    ASSUME ReportInv, ReadBinding
    PROVE  ReportInv' /\ status'.readiness \in {status.readiness, "binding-unavailable"}
<1>1. /\ SessionShape' /\ JournalInv' /\ UNCHANGED now /\ now \in Nat
  BY ReportStays DEF ReadBinding
<1>2. StatusInv
  BY DEF ReportInv, ReadBinding, NoReport
<1>3. /\ DOMAIN status' = Fields /\ status'.observed = status.observed
      /\ status'.at \in {"read", "inspecting"}
      /\ status'.at = "read" => status'.readAt = now
      /\ status'.readiness \in {status.readiness, "binding-unavailable"}
  BY <1>2 DEF ReadBinding, StatusInv, Fields
<1>4. StatusInv'
  BY <1>1, <1>2, <1>3 DEF StatusInv, Settled
<1> QED BY <1>1, <1>3, <1>4 DEF ReportInv

(* Reading on in the journal is no judgement of the receipt.                *)
LEMMA ReadingStep ==
    ASSUME ReportInv, ReadPending \/ ReadReceipt \/ ReadQueued
    PROVE  ReportInv' /\ status'.readiness = status.readiness
<1>1. /\ SessionShape' /\ JournalInv' /\ UNCHANGED <<now, deliveries>> /\ now \in Nat
  BY ReportStays DEF ReadPending, ReadReceipt, ReadQueued
<1>2. StatusInv /\ JournalInv
  BY DEF ReportInv, ReadPending, ReadReceipt, ReadQueued, NoReport
<1>3. PICK o \in Nat : o = status.observed /\ o <= now
  BY <1>2 DEF StatusInv
<1>4. CASE ReadPending
  <2>1. PICK due : due = {d \in DOMAIN deliveries : Pending(d)}
    OBVIOUS
  <2>2. CASE due = {}
    <3>1. status' = [status EXCEPT !.at = Settled, !.handling = "no-pending-delivery", !.phase = "idle"]
      BY <1>4, <2>1, <2>2 DEF ReadPending
    <3>2. /\ DOMAIN status' = Fields /\ status'.observed = o /\ status'.at = "done"
          /\ status'.handling = "no-pending-delivery" /\ status'.readiness = status.readiness
      BY <1>2, <1>3, <3>1 DEF StatusInv, Fields, Settled
    <3> QED BY <1>1, <1>3, <3>2 DEF ReportInv, StatusInv, NoDelivery
  <2>3. CASE due # {}
    <3>1. PICK d \in due :
             status' = IF deliveries[d].created > status.observed
                       THEN [status EXCEPT !.at = Settled, !.item = d, !.handling = "evidence-invalid"]
                       ELSE [status EXCEPT !.at = "receipt", !.item = d]
      BY <1>4, <2>1, <2>3 DEF ReadPending
    <3>2. d \in DOMAIN deliveries /\ deliveries[d].acked = Never /\ deliveries[d].created \in Nat
      BY <1>2, <2>1, DeliveryShape DEF Pending
    <3>3. CASE deliveries[d].created > o
      <4>1. /\ DOMAIN status' = Fields /\ status'.observed = o /\ status'.at = "done"
            /\ status'.handling = "evidence-invalid" /\ status'.readiness = status.readiness
        BY <1>2, <1>3, <3>1, <3>3 DEF StatusInv, Fields, Settled
      <4> QED BY <1>1, <1>3, <4>1 DEF ReportInv, StatusInv, NoDelivery
    <3>4. CASE ~(deliveries[d].created > o)
      <4>1. /\ DOMAIN status' = Fields /\ status'.observed = o /\ status'.at = "receipt"
            /\ status'.item = d /\ status'.readiness = status.readiness
        BY <1>2, <1>3, <3>1, <3>4 DEF StatusInv, Fields
      <4>2. Evidenced(status.item)'
        BY <1>1, <3>2, <3>4, <4>1 DEF Evidenced
      <4> QED BY <1>1, <1>3, <4>1, <4>2 DEF ReportInv, StatusInv, Settled
    <3> QED BY <3>3, <3>4
  <2> QED BY <2>2, <2>3
<1>5. CASE ReadReceipt
  <2>1. PICK d \in DOMAIN deliveries : d = status.item /\ Evidenced(d) /\ deliveries[d] \in Delivery
    BY <1>2, <1>5 DEF StatusInv, JournalInv, ReadReceipt, Evidenced
  <2>2. PICK found : found = Handling(deliveries[d])
    OBVIOUS
  <2>3. /\ DOMAIN status' = Fields /\ status'.observed = o /\ status'.item = d
        /\ status'.at \in {"done", "queued"}
        /\ status'.handling = found /\ status'.readiness = status.readiness
        /\ status'.at = "queued" => found \notin {"evidence-invalid", "handled-awaiting-ack"}
    BY <1>2, <1>3, <1>5, <2>1, <2>2 DEF StatusInv, Fields, Settled, ReadReceipt
  <2>4. PICK h \in Int : h = deliveries[d].handled
    BY <2>1 DEF Delivery, Times, Never
  <2>5. /\ found = "handled-awaiting-ack" => h # Never /\ h <= o
        /\ found \notin {"handled-awaiting-ack", "evidence-invalid"} => h = Never
    BY <1>3, <2>2, <2>4 DEF Handling
  <2>6. found # "evidence-invalid" => Reported(status.item)'
    BY <1>1, <2>3, <2>4, <2>5 DEF Reported
  <2>7. Evidenced(status.item)'
    BY <1>1, <1>3, <2>1, <2>3 DEF Evidenced
  <2> QED BY <1>1, <1>3, <2>3, <2>6, <2>7 DEF ReportInv, StatusInv, NoDelivery
<1>6. CASE ReadQueued
  <2>1. Evidenced(status.item) /\ Reported(status.item)
    BY <1>2, <1>6 DEF StatusInv, ReadQueued
  <2>2. /\ DOMAIN status' = Fields /\ status'.observed = o /\ status'.item = status.item
        /\ status'.at = "done" /\ status'.handling = status.handling
        /\ status'.readiness = status.readiness
    BY <1>2, <1>3, <1>6 DEF StatusInv, Fields, Settled, ReadQueued
  <2>3. Evidenced(status.item)' /\ Reported(status.item)'
    BY <1>1, <1>3, <2>1, <2>2 DEF Evidenced, Reported
  <2> QED BY <1>1, <1>3, <2>2, <2>3 DEF ReportInv, StatusInv
<1> QED BY <1>4, <1>5, <1>6

(* The receipt is judged. *)
LEMMA JudgeStep ==
    ASSUME ReportInv, JudgeReceipt
    PROVE  ReportInv'
<1>1. /\ SessionShape' /\ JournalInv' /\ UNCHANGED now /\ now \in Nat
  BY ReportStays DEF JudgeReceipt
<1>2. StatusInv
  BY DEF ReportInv, JudgeReceipt, NoReport
<1>3. DOMAIN status' = Fields /\ status'.observed = status.observed /\ status'.at = "inspecting"
  BY <1>2 DEF JudgeReceipt, StatusInv, Fields
<1>4. StatusInv'
  BY <1>1, <1>2, <1>3 DEF StatusInv, Settled
<1> QED BY <1>1, <1>4 DEF ReportInv

(* Every step keeps the invariant of reports. *)
LEMMA ReportStep ==
    ASSUME ReportInv, [Next]_allVars
    PROVE  ReportInv'
<1>1. CASE UNCHANGED allVars
  <2>1. now' = now /\ live' = live /\ deliveries' = deliveries /\ status' = status
    BY <1>1 DEF allVars, vars
  <2> QED BY <2>1 DEF ReportInv, SessionShape, JournalInv, StatusInv, Evidenced, Reported
<1>2. CASE SessionChanges /\ UNCHANGED <<deliveries, status>>
  BY <1>2, SurroundingsStep
<1>3. CASE \E p \in Profiles, b \in Binding, t \in 0..MaxTime : Issue(p, b, t)
  BY <1>3, SurroundingsStep
<1>4. CASE \E p \in Profiles, hook \in BOOLEAN : Ask(p, hook)
  BY <1>4, AskStep
<1> QED BY <1>1, <1>2, <1>3, <1>4, JournalStep, ReadBindingStep, JudgeStep, ReadingStep DEF Next

-----------------------------------------------------------------------------
(* The theorems about reports.                                              *)

(* The invariant holds of every behaviour of Workspace. *)
THEOREM ReportInvariant == Spec => []ReportInv
<1>1. WorkspaceInit => ReportInv
  BY CapabilitiesAssumption
     DEF WorkspaceInit, Init, ReportInv, SessionShape, Binding, JournalInv
<1>2. ReportInv /\ [Next]_allVars => ReportInv'
  BY ReportStep
<1> QED BY <1>1, <1>2, PTL DEF Spec

(* HandlingAsObserved (handlingStatus, workspace.ts): what is reported of a *)
(* pending delivery was so when the report began.                           *)
THEOREM HandlingCorrect == Spec => []HandlingAsObserved
<1>1. ReportInv => HandlingAsObserved
  <2> SUFFICES ASSUME ReportInv, status.at = Settled, status.handling \notin NoDelivery
               PROVE  Evidenced(status.item) /\ Reported(status.item)
    BY DEF HandlingAsObserved, NoDelivery, Evidenced, Reported
  <2>1. status # NoReport
    BY DEF NoReport, Settled
  <2> QED BY <2>1 DEF ReportInv, StatusInv
<1> QED BY <1>1, ReportInvariant, PTL

(* VerifiedWasLive (capabilityStatus, workspace.ts): a participant becomes  *)
(* verified only on a receipt for its profile, good when the report began,  *)
(* that names the binding the session had at some moment after that.        *)
THEOREM VerifiedCorrect == Spec => VerifiedWasLive
<1>1. ASSUME ReportInv, Next, status # NoReport, status'.readiness = "verified",
             status.readiness # "verified"
      PROVE  /\ status.receipt.profile = status.profile
             /\ status.receipt.start <= status.observed /\ status.observed < status.receipt.end
             /\ status'.expires = status.receipt.end
             /\ status.readAt >= status.observed
             /\ status.receipt.binding = status.binding
  <2>1. JudgeReceipt
    <3>1. \A p \in Profiles, hook \in BOOLEAN : ~Ask(p, hook)
      BY <1>1 DEF Ask
    <3>2. status' # status
      BY <1>1
    <3>3. ~ReadBinding /\ ~(ReadPending \/ ReadReceipt \/ ReadQueued)
      BY <1>1, ReadBindingStep, ReadingStep
    <3> QED BY <1>1, <3>1, <3>2, <3>3 DEF Next, JournalChanges, Issue
  <2>2. StatusInv
    BY <1>1 DEF ReportInv
  <2>3. PICK worth : /\ worth = Readiness(status.receipt, status.profile, status.binding, status.observed)
                     /\ status' = [status EXCEPT !.at = "inspecting", !.receipt = NoReceipt,
                           !.readiness = worth,
                           !.expires = IF worth = "verified" THEN status.receipt.end ELSE Never]
    BY <2>1 DEF JudgeReceipt
  <2>4. worth = "verified" /\ status'.expires = status.receipt.end
    BY <1>1, <2>2, <2>3 DEF StatusInv, Fields
  <2>5. /\ status.receipt.binding = status.binding /\ status.receipt.profile = status.profile
        /\ Valid(status.receipt, status.profile, status.binding, status.observed)
    BY <2>3, <2>4 DEF Readiness
  <2> QED BY <2>1, <2>2, <2>4, <2>5 DEF Valid, StatusInv, JudgeReceipt
<1>2. ReportInv /\ [Next]_allVars =>
        [status # NoReport /\ status'.readiness = "verified" /\ status.readiness # "verified" =>
            LET r == status.receipt
            IN  /\ r.profile = status.profile
                /\ r.start <= status.observed /\ status.observed < r.end
                /\ status'.expires = r.end
                /\ status.readAt >= status.observed
                /\ r.binding = status.binding]_allVars
  BY <1>1
<1> QED BY <1>2, ReportInvariant, PTL DEF Spec, VerifiedWasLive
=============================================================================
