------------------------------ MODULE Monitors ------------------------------
(***************************************************************************)
(* One monitor of src/src/server/core.ts under one subscriber's name: its  *)
(* configuration and the rows that record it, who may hold which           *)
(* capabilities of it, what may be published to it, and which rows a pull  *)
(* with a filter of its own asks for.                                      *)
(*                                                                         *)
(* Every handler is one step.  A log row writes the whole state to disk.   *)
(* Whether the types in a filter are known depends on the rows compaction  *)
(* has left: here either may be found.                                     *)
(***************************************************************************)
EXTENDS Filters, FiniteSets

CONSTANTS
    Clients,
    Owner,         \* the client that has the monitor's owner token
    Grantees,      \* clients it gave the subscribe token, if there is one
    Nobody,
    Capabilities,  \* those of the monitor
    DefaultGrant,  \* those a stranger may have
    StoredFilters, \* filters of the monitor and of the subscription
    InlineFilters  \* filters of pulls

ASSUME MonitorsAssumption ==
    /\ Owner \in Clients /\ Nobody \notin Clients /\ Grantees \subseteq Clients \ {Owner}
    /\ DefaultGrant \subseteq Capabilities
    /\ StoredFilters \cup InlineFilters \subseteq Filter

VARIABLES
    owner,         \* kind of the owner's name: "human" or a machine's
    tokened,       \* a subscribe token was minted
    config,        \* the monitor as it is in memory
    saved,         \* and on disk
    record,        \* and as the last `configured` row shows it
    sub,           \* the subscription, or NoSub
    holder,        \* the client that knows its token, or Nobody
    backed,        \* capabilities it has by the owner's or the subscribe token
    answer         \* what the last step published, or returned; else NoAnswer

subVars == <<sub, holder, backed>>
vars == <<owner, tokened, config, saved, record, subVars, answer>>

Visibilities == {"private", "shared", "public"}

NoSub == [capabilities |-> {}]
NoAnswer == [kind |-> "none"]

(* What a `configured` row shows of a configuration. *)
Public(c) == [filter |-> c.filter, visibility |-> c.visibility, active |-> c.active /\ ~c.paused]

-----------------------------------------------------------------------------
(* A monitor has just been created, and its row written. *)
Init ==
    /\ owner \in {"human", "agent"}
    /\ config \in [filter: StoredFilters, visibility: Visibilities,
                   active: {TRUE}, paused: {FALSE}, slipped: {FALSE}]
    /\ tokened \in BOOLEAN /\ (config.visibility = "shared" => tokened)
    /\ saved = config
    /\ record = Public(config)
    /\ sub = NoSub /\ holder = Nobody /\ backed = {}
    /\ answer = NoAnswer

(* A row of the log: what is in memory is on disk from here on. *)
Save == saved' = config'

(* A `configured` row. *)
LogConfig ==
    /\ record' = Public(config')
    /\ Save
    /\ UNCHANGED <<owner, tokened, subVars, answer>>

(* Mutant of Update: the row is taken before the change is made. *)
UpdateRecordingBefore(filter, visibility) ==
    /\ config' = [config EXCEPT !.filter = filter, !.visibility = visibility, !.slipped = FALSE]
    /\ record' = Public(config)
    /\ Save
    /\ UNCHANGED <<owner, tokened, subVars, answer>>

(* update, with a patch that is accepted.                                   *)
Update(filter, visibility) ==
    /\ config' = [config EXCEPT !.filter = filter, !.visibility = visibility, !.slipped = FALSE]
    /\ LogConfig

(* update with a filter that is accepted and rules that are not: refused,   *)
(* with no row, and the filter stays.                                       *)
UpdateRefused(filter) ==
    /\ config' = [config EXCEPT !.filter = filter, !.slipped = TRUE]
    /\ UNCHANGED <<owner, tokened, saved, record, subVars, answer>>

Pause == config' = [config EXCEPT !.paused = TRUE, !.slipped = FALSE] /\ LogConfig
Resume == config' = [config EXCEPT !.paused = FALSE, !.active = TRUE, !.slipped = FALSE] /\ LogConfig
Retire == config' = [config EXCEPT !.active = FALSE, !.slipped = FALSE] /\ LogConfig

Restart ==
    /\ config' = saved
    /\ UNCHANGED <<owner, tokened, saved, record, subVars, answer>>

-----------------------------------------------------------------------------
(* Subscribing.                                                             *)

(* What a client may present: a token it knows, or none. *)
Presents(c) ==
    {"none"} \cup (IF c = Owner THEN {"owner"} ELSE {})
             \cup (IF tokened /\ c \in Grantees THEN {"grant"} ELSE {})
             \cup (IF c = holder THEN {"holder"} ELSE {})

Visible(token) ==
    \/ config.visibility = "public"
    \/ config.visibility = "shared" /\ token = "grant"
    \/ token = "owner"

Privileged(token) == token \in {"owner", "grant"}

(* Mutant of Grantable: holding the subscription is enough for anything.    *)
GrantableToHolder(token) ==
    IF token # "none" THEN Capabilities ELSE DefaultGrant

Grantable(token) ==
    CASE Privileged(token) -> Capabilities
      [] token = "holder" -> DefaultGrant \cup sub.capabilities
      [] OTHER -> DefaultGrant

MaySubscribe(token, caps) ==
    /\ Visible(token)
    /\ sub = NoSub \/ token \in {"holder", "owner"}
    /\ caps \subseteq Grantable(token)
    /\ tokened => Privileged(token) \/ token = "holder"

(* The reply, with the new token, may be lost. *)
Told(c) == holder' \in {c, Nobody}

Subscribe(c, token, caps, filter) ==
    /\ token \in Presents(c)
    /\ MaySubscribe(token, caps)
    /\ sub' = [capabilities |-> caps, filter |-> filter, active |-> TRUE]
    /\ Told(c)
    /\ backed' = IF Privileged(token) THEN caps ELSE backed \cap caps
    /\ config' = config /\ Save
    /\ UNCHANGED <<owner, tokened, record, answer>>

(* renew, and retire of the subscription. *)
RenewToken ==
    /\ sub # NoSub /\ sub.active /\ holder # Nobody
    /\ Told(holder)
    /\ config' = config /\ Save
    /\ UNCHANGED <<owner, tokened, record, sub, backed, answer>>

RetireSub ==
    /\ sub # NoSub /\ sub.active /\ holder # Nobody
    /\ sub' = [sub EXCEPT !.active = FALSE]
    /\ config' = config /\ Save
    /\ UNCHANGED <<owner, tokened, record, holder, backed, answer>>

(* A pull with a filter of its own, and the one it reads with. *)
Pull(inline) ==
    /\ sub # NoSub /\ sub.active /\ holder # Nobody
    /\ ~Clashes(sub.filter, inline)
    /\ answer' = [kind |-> "page", stored |-> sub.filter, inline |-> inline,
                  filter |-> intersectFilters(sub.filter, inline)]
    /\ UNCHANGED <<owner, tokened, config, saved, record, subVars>>

-----------------------------------------------------------------------------
(* Publishing.  A webhook and the system rank as a probe does, certified as *)
(* human_verified, derived as measured.                                     *)
Origins == {"human", "agent", "probe"}
Tiers == {"src", "measured", "unverified"}
Verifications == {"human_verified", "machine_verified", "reported", "unverified"}

(* What a body says; "absent" where it says nothing.  Of an actor it says   *)
(* the origin that its prefix stands for, or a prefix that no table knows.  *)
Body == [actor: Origins \cup {"unknown", "absent"}, behalf: {"absent", "owner", "other"},
         origin: Origins \cup {"absent"}, tier: Tiers \cup {"absent"},
         verification: Verifications \cup {"absent"}]

Stated(x, default) == IF x = "absent" THEN default ELSE x

Actor(b) == Stated(b.actor, owner)

(* originOf: an actor of unknown prefix is taken for an agent. *)
Inferred(b) == IF Actor(b) = "unknown" THEN "agent" ELSE Actor(b)

MayAttest == owner = "human"

Origin(b) ==
    Stated(b.origin, IF ~MayAttest /\ Inferred(b) = "human" THEN "agent" ELSE Inferred(b))

(* Mutant of DefaultTier: an origin gets its ceiling. *)
CeilingTier(origin) ==
    CASE origin = "human" -> "src" [] origin = "probe" -> "measured" [] OTHER -> "unverified"

(* The top of a ladder is never reached by default.                         *)
DefaultTier(origin) == IF origin = "agent" THEN "unverified" ELSE "measured"

DefaultVerification(origin) ==
    CASE origin = "human" -> "reported" [] origin = "probe" -> "machine_verified" [] OTHER -> "unverified"

Tier(b) == Stated(b.tier, DefaultTier(Origin(b)))
Verification(b) == Stated(b.verification, DefaultVerification(Origin(b)))

(* The last refusal is of a known prefix only: an unknown one is no ceiling. *)
Rejected(b) ==
    \/ b.behalf = "other"
    \/ Tier(b) = "src" /\ Origin(b) # "human"
    \/ ~MayAttest /\ (Origin(b) = "human" \/ Tier(b) = "src" \/ Verification(b) = "human_verified")
    \/ Origin(b) = "human" /\ Actor(b) \notin {"human", "unknown"} /\ b.behalf = "absent"

(* publish, by a client that has the owner token: an observation, or a row  *)
(* that says it was rejected.                                               *)
Publish(b) ==
    /\ answer' = IF config.active /\ ~config.paused /\ ~Rejected(b)
                 THEN [kind |-> "observation", origin |-> Origin(b), tier |-> Tier(b),
                       verification |-> Verification(b), body |-> b]
                 ELSE [kind |-> "rejected"]
    /\ config' = config /\ Save
    /\ UNCHANGED <<owner, tokened, record, subVars>>

-----------------------------------------------------------------------------
Requests ==
    \/ \E f \in StoredFilters, v \in Visibilities : Update(f, v)
    \/ \E f \in StoredFilters : UpdateRefused(f)
    \/ Pause \/ Resume \/ Retire \/ Restart
    \/ \E c \in Clients, caps \in SUBSET Capabilities, f \in StoredFilters :
          \E token \in Presents(c) : Subscribe(c, token, caps, f)
    \/ RenewToken \/ RetireSub
    \/ \E f \in InlineFilters : Pull(f)
    \/ \E b \in Body : Publish(b)

(* What was answered is looked at before the next request comes. *)
Forget ==
    /\ answer # NoAnswer
    /\ answer' = NoAnswer
    /\ UNCHANGED <<owner, tokened, config, saved, record, subVars>>

Next == Forget \/ (answer = NoAnswer /\ Requests)

Spec == Init /\ [][Next]_vars

-----------------------------------------------------------------------------
(* A subscription's capabilities beyond the default grant are those it was  *)
(* given on the owner's or the subscribe token, and has asked for ever      *)
(* since: over re-subscriptions, lost replies and changes of visibility,    *)
(* nothing given up comes back by itself (subscribe, core.ts).              *)
GrantsAreBacked == sub.capabilities \subseteq DefaultGrant \cup backed

(* The configuration in force, and the one a restart would find, are those  *)
(* the last `configured` row shows, unless an update was refused half way.  *)
ConfigOnRecord ==
    \A c \in {config, saved} : c.slipped \/ Public(c) = record

(* An observation says no more than the guard lets it under this owner: the *)
(* top of a ladder, and a human origin, only under a human owner; the top   *)
(* only where the body states it; the tier src only with a human origin; a  *)
(* human origin of an actor known for a machine only when it names the      *)
(* owner (publish, core.ts).  What the guard lets through beyond that is    *)
(* the matter of HumanOriginIsBacked.                                       *)
TopOfALadder(a) == a.tier = "src" \/ a.verification = "human_verified"

NothingInflated ==
    answer.kind = "observation" =>
        /\ TopOfALadder(answer) \/ answer.origin = "human" => owner = "human"
        /\ answer.tier = "src" => answer.origin = "human"
        /\ TopOfALadder(answer) => TopOfALadder(answer.body)
        /\ answer.origin = "human" /\ answer.body.actor \in {"agent", "probe"} =>
              answer.body.behalf = "owner"

(* "An agent may carry a human origin only when it names who it acts for"   *)
(* (core.ts:365), of everybody whom the server itself takes for no person.  *)
(* The code does not keep it for an actor whose prefix it does not know.    *)
HumanOriginIsBacked ==
    answer.kind = "observation" /\ answer.origin = "human" =>
        Inferred(answer.body) = "human" \/ answer.body.behalf = "owner"

(* A pull reads what both filters let through, and nothing else, as long as *)
(* no time and no list of tag values in them is empty.                      *)
InlineNarrows ==
    answer.kind = "page" /\ WellFormed(answer.stored) /\ WellFormed(answer.inline) =>
        \A o \in Observation :
            matches(answer.filter, o) => matches(answer.stored, o) /\ matches(answer.inline, o)
=============================================================================
