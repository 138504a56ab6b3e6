--------------------------- MODULE MonitorsProofs ---------------------------
(***************************************************************************)
(* What Monitors states of a monitor's grants, its record, its rows and    *)
(* the pages of its subscriber, for every value of the constants.          *)
(***************************************************************************)
EXTENDS Monitors, TLAPS

-----------------------------------------------------------------------------
(* Filters.                                                                 *)

(* No set a filter may hold is the missing list. *)
LEMMA ListsAreSets ==
    ASSUME NEW S \in SUBSET (Types \cup Values \cup {Prefix})
    PROVE  S # NoList
BY FiltersAssumption

(* A list of types that combines two which do not clash narrows both. *)
LEMMA TypesNarrow ==
    ASSUME NEW have \in Lists(Types \cup {Prefix}), NEW want \in Lists(Types \cup {Prefix}),
           ~Clash(have, want), NEW type \in Types, MatchesTypes(Both(have, want), type)
    PROVE  MatchesTypes(have, type) /\ MatchesTypes(want, type)
<1>1. CASE want = NoList
  BY <1>1 DEF Both, MatchesTypes
<1>2. CASE want # NoList /\ have \in {NoList, {}}
  BY <1>2 DEF Both, MatchesTypes
<1>3. CASE want # NoList /\ have \notin {NoList, {}}
  <2>1. Both(have, want) = have \cap want /\ have \cap want # {}
    BY <1>3 DEF Both, Clash
  <2>2. have \cap want \in SUBSET (Types \cup Values \cup {Prefix})
    <3>1. have \in SUBSET (Types \cup {Prefix})
      BY <1>3 DEF Lists
    <3> QED BY <3>1
  <2>3. type \in have \cap want \/ Prefix \in have \cap want
    BY <2>1, <2>2, ListsAreSets DEF MatchesTypes
  <2> QED BY <2>3 DEF MatchesTypes
<1> QED BY <1>1, <1>2, <1>3

(* So does a list of tag values, none of the two being empty. *)
LEMMA TagsNarrow ==
    ASSUME NEW have \in Lists(Values), NEW want \in Lists(Values), have # {}, want # {},
           ~Clash(have, want), NEW tags, MatchesTag(Both(have, want), tags)
    PROVE  MatchesTag(have, tags) /\ MatchesTag(want, tags)
<1>1. CASE want = NoList
  BY <1>1 DEF Both, MatchesTag
<1>2. CASE want # NoList /\ have \in {NoList, {}}
  BY <1>2 DEF Both, MatchesTag
<1>3. CASE want # NoList /\ have \notin {NoList, {}}
  <2>1. Both(have, want) = have \cap want
    BY <1>3 DEF Both
  <2>2. have \cap want \in SUBSET (Types \cup Values \cup {Prefix})
    <3>1. have \in SUBSET Values
      BY <1>3 DEF Lists
    <3> QED BY <3>1
  <2>3. (have \cap want) \cap tags # {}
    BY <2>1, <2>2, ListsAreSets DEF MatchesTag
  <2> QED BY <2>3 DEF MatchesTag
<1> QED BY <1>1, <1>2, <1>3

(* A filter given with a pull narrows the stored one, whatever the two are: *)
(* what their combination lets through, both do (intersectFilters and       *)
(* matches, filter.ts).                                                     *)
THEOREM IntersectionNarrows ==
    ASSUME NEW stored \in Filter, NEW inline \in Filter, WellFormed(stored),
           WellFormed(inline), ~Clashes(stored, inline), NEW o \in Observation,
           matches(intersectFilters(stored, inline), o)
    PROVE  matches(stored, o) /\ matches(inline, o)
<1> DEFINE both == intersectFilters(stored, inline)
<1>1. /\ both.types = Both(stored.types, inline.types)
      /\ both.tag = Both(stored.tag, inline.tag)
      /\ both.since = Later(stored.since, inline.since)
      /\ both.until = Earlier(stored.until, inline.until)
  BY DEF intersectFilters
<1>2. /\ MatchesTypes(both.types, o.type) /\ MatchesTag(both.tag, o.tags)
      /\ both.since > Empty => o.time >= both.since
      /\ both.until > Empty => o.time <= both.until
  BY DEF matches
<1> HIDE DEF both
<1>3. MatchesTypes(stored.types, o.type) /\ MatchesTypes(inline.types, o.type)
  <2>1. PICK have \in Lists(Types \cup {Prefix}), want \in Lists(Types \cup {Prefix}), type \in Types :
           have = stored.types /\ want = inline.types /\ type = o.type
    BY DEF Filter, Observation
  <2>2. ~Clash(have, want) /\ MatchesTypes(Both(have, want), type)
    BY <1>1, <1>2, <2>1 DEF Clashes
  <2>3. MatchesTypes(have, type) /\ MatchesTypes(want, type)
    BY <2>1, <2>2, TypesNarrow
  <2> QED BY <2>1, <2>3
<1>4. MatchesTag(stored.tag, o.tags) /\ MatchesTag(inline.tag, o.tags)
  BY <1>1, <1>2, TagsNarrow DEF Filter, Clashes, WellFormed
<1>5. /\ o.time \in Int
      /\ stored.since \in Int /\ inline.since \in Int
      /\ stored.until \in Int /\ inline.until \in Int
      /\ stored.until >= Absent /\ inline.until >= Absent
      /\ stored.until # Empty /\ inline.until # Empty
  BY FiltersAssumption DEF Filter, Observation, WellFormed, Absent
<1>6. /\ stored.since > Empty => o.time >= stored.since
      /\ inline.since > Empty => o.time >= inline.since
  BY <1>1, <1>2, <1>5 DEF Later, Empty
<1>7. /\ stored.until > Empty => o.time <= stored.until
      /\ inline.until > Empty => o.time <= inline.until
  BY <1>1, <1>2, <1>5 DEF Earlier, Empty, Absent
<1> QED BY <1>3, <1>4, <1>6, <1>7 DEF matches

-----------------------------------------------------------------------------
(* The invariant.                                                           *)

Config == [filter: StoredFilters, visibility: Visibilities, active: BOOLEAN,
           paused: BOOLEAN, slipped: BOOLEAN]

(* What the steps take for granted of the variables. *)
Shape ==
    /\ owner \in {"human", "agent"}
    /\ config \in Config /\ saved \in Config
    /\ sub = NoSub \/ sub \in [capabilities: SUBSET Capabilities, filter: StoredFilters,
                               active: BOOLEAN]

IInv == Shape /\ GrantsAreBacked /\ ConfigOnRecord /\ NothingInflated /\ InlineNarrows

(* What has no answer says nothing. *)
LEMMA SilentIsRight ==
    ASSUME answer' = NoAnswer
    PROVE  NothingInflated' /\ InlineNarrows'
BY DEF NoAnswer, NothingInflated, InlineNarrows

(* A step that leaves the subscription alone and answers nothing keeps the  *)
(* invariant, as long as the configuration stays on record.                 *)
LEMMA ConfigStep ==
    ASSUME IInv, UNCHANGED <<owner, subVars>>, answer' = NoAnswer,
           config' \in Config, saved' \in Config, ConfigOnRecord'
    PROVE  IInv'
<1>1. Shape' /\ GrantsAreBacked'
  BY DEF IInv, Shape, GrantsAreBacked, subVars
<1> QED BY <1>1, SilentIsRight DEF IInv

(* A `configured` row is written after the change it records. *)
LEMMA LogConfigStep ==
    ASSUME IInv, answer = NoAnswer, LogConfig, config' \in Config
    PROVE  IInv'
<1>1. UNCHANGED <<owner, subVars>> /\ answer' = NoAnswer /\ saved' = config'
      /\ record' = Public(config')
  BY DEF LogConfig, Save
<1>2. ConfigOnRecord'
  BY <1>1 DEF ConfigOnRecord, Public
<1> QED BY <1>1, <1>2, ConfigStep

(* A row of another kind saves what is on record. *)
LEMMA SavedStays ==
    ASSUME IInv, config' = config, Save, record' = record
    PROVE  config' \in Config /\ saved' \in Config /\ ConfigOnRecord'
BY DEF IInv, Shape, ConfigOnRecord, Save, Public

(* subscribe gives what the token is good for, and drops what is not asked. *)
LEMMA SubscribeStep ==
    ASSUME IInv, answer = NoAnswer, NEW c \in Clients, NEW caps \in SUBSET Capabilities,
           NEW f \in StoredFilters, NEW token, Subscribe(c, token, caps, f)
    PROVE  IInv'
<1>1. /\ caps \subseteq Grantable(token)
      /\ sub' = [capabilities |-> caps, filter |-> f, active |-> TRUE]
      /\ backed' = IF Privileged(token) THEN caps ELSE backed \cap caps
      /\ UNCHANGED <<owner, record, answer>> /\ config' = config /\ Save
  BY DEF Subscribe, MaySubscribe
<1>2. caps \subseteq DefaultGrant \cup backed'
  <2>1. CASE Privileged(token)
    BY <1>1, <2>1
  <2>2. CASE ~Privileged(token)
    BY <1>1, <2>2 DEF Grantable, IInv, GrantsAreBacked
  <2> QED BY <2>1, <2>2
<1>3. GrantsAreBacked'
  BY <1>1, <1>2 DEF GrantsAreBacked
<1>4. config' \in Config /\ saved' \in Config /\ ConfigOnRecord'
  BY <1>1, SavedStays
<1>5. Shape'
  BY <1>1, <1>4 DEF IInv, Shape
<1>6. NothingInflated' /\ InlineNarrows'
  BY <1>1, SilentIsRight
<1> QED BY <1>3, <1>4, <1>5, <1>6 DEF IInv

(* A pull reads with a filter that narrows both of those it comes from. *)
LEMMA PullStep ==
    ASSUME IInv, NEW inline \in InlineFilters, Pull(inline)
    PROVE  IInv'
<1>1. /\ ~Clashes(sub.filter, inline)
      /\ answer' = [kind |-> "page", stored |-> sub.filter, inline |-> inline,
                    filter |-> intersectFilters(sub.filter, inline)]
      /\ UNCHANGED <<owner, tokened, config, saved, record, subVars>>
      /\ sub # NoSub
  BY DEF Pull
<1>2. sub.filter \in Filter /\ inline \in Filter
  BY <1>1, MonitorsAssumption DEF IInv, Shape
<1>3. InlineNarrows'
  <2> SUFFICES ASSUME WellFormed(sub.filter), WellFormed(inline), NEW o \in Observation,
                      matches(intersectFilters(sub.filter, inline), o)
               PROVE  matches(sub.filter, o) /\ matches(inline, o)
    BY <1>1 DEF InlineNarrows
  <2> QED BY <1>1, <1>2, IntersectionNarrows
<1>4. NothingInflated'
  BY <1>1 DEF NothingInflated
<1>5. Shape' /\ GrantsAreBacked' /\ ConfigOnRecord'
  BY <1>1 DEF IInv, Shape, GrantsAreBacked, ConfigOnRecord, Public, subVars
<1> QED BY <1>3, <1>4, <1>5 DEF IInv

(* An observation says what the owner may say, and no default inflates it.  *)
LEMMA PublishStep ==
    ASSUME IInv, NEW b \in Body, Publish(b)
    PROVE  IInv'
<1>1. /\ \/ answer' = [kind |-> "rejected"]
         \/ /\ ~Rejected(b)
            /\ answer' = [kind |-> "observation", origin |-> Origin(b), tier |-> Tier(b),
                          verification |-> Verification(b), body |-> b]
      /\ UNCHANGED <<owner, record, subVars>> /\ config' = config /\ Save
  BY DEF Publish
<1>2. config' \in Config /\ saved' \in Config /\ ConfigOnRecord'
  BY <1>1, SavedStays
<1>3. Shape' /\ GrantsAreBacked'
  BY <1>1, <1>2 DEF IInv, Shape, GrantsAreBacked, subVars
<1>4. CASE answer' = [kind |-> "rejected"]
  <2>1. NothingInflated' /\ InlineNarrows'
    BY <1>4 DEF NothingInflated, InlineNarrows
  <2> QED BY <1>2, <1>3, <2>1 DEF IInv
<1>5. CASE /\ ~Rejected(b)
           /\ answer' = [kind |-> "observation", origin |-> Origin(b), tier |-> Tier(b),
                         verification |-> Verification(b), body |-> b]
  <2>1. /\ Tier(b) = "src" \/ Verification(b) = "human_verified" \/ Origin(b) = "human" =>
              owner = "human"
        /\ Tier(b) = "src" => Origin(b) = "human"
    BY <1>5 DEF Rejected, MayAttest
  <2>2. /\ Tier(b) = "src" => b.tier = "src"
        /\ Verification(b) = "human_verified" => b.verification = "human_verified"
    BY DEF Tier, Verification, Stated, DefaultTier, DefaultVerification
  <2>3. Origin(b) = "human" /\ b.actor \in {"agent", "probe"} => b.behalf = "owner"
    <3>1. b.behalf \in {"absent", "owner", "other"}
      BY DEF Body
    <3>2. b.actor \in {"agent", "probe"} => Actor(b) \notin {"human", "unknown"}
      BY DEF Actor, Stated
    <3> QED BY <1>5, <3>1, <3>2 DEF Rejected
  <2>4. NothingInflated'
    BY <1>1, <1>5, <2>1, <2>2, <2>3 DEF NothingInflated, TopOfALadder
  <2>5. InlineNarrows'
    BY <1>5 DEF InlineNarrows
  <2> QED BY <1>2, <1>3, <2>4, <2>5 DEF IInv
<1> QED BY <1>1, <1>4, <1>5

(* Every request, and the look at its answer, keeps the invariant. *)
LEMMA NextIInv == IInv /\ [Next]_vars => IInv'
<1> SUFFICES ASSUME IInv, [Next]_vars PROVE IInv'
  OBVIOUS
<1>c. config \in Config /\ saved \in Config
  BY DEF IInv, Shape
<1>1. ASSUME answer = NoAnswer,
             \/ \E f \in StoredFilters, v \in Visibilities : Update(f, v)
             \/ Pause \/ Resume \/ Retire
      PROVE  IInv'
  <2>1. LogConfig /\ config' \in Config
    BY <1>c, <1>1 DEF Update, Pause, Resume, Retire, Config
  <2> QED BY <1>1, <2>1, LogConfigStep
<1>2. ASSUME answer = NoAnswer, NEW f \in StoredFilters, UpdateRefused(f) PROVE IInv'
  <2>1. config' \in Config /\ config'.slipped
    BY <1>c, <1>2 DEF UpdateRefused, Config
  <2>2. ConfigOnRecord'
    BY <1>2, <2>1 DEF UpdateRefused, IInv, ConfigOnRecord, Public
  <2> QED BY <1>2, <1>c, <2>1, <2>2, ConfigStep DEF UpdateRefused
<1>3. ASSUME answer = NoAnswer, Restart PROVE IInv'
  <2>1. ConfigOnRecord'
    BY <1>3 DEF Restart, IInv, ConfigOnRecord, Public
  <2> QED BY <1>3, <1>c, <2>1, ConfigStep DEF Restart
<1>4. ASSUME answer = NoAnswer, RenewToken \/ RetireSub PROVE IInv'
  <2>1. /\ UNCHANGED <<owner, record, backed, answer>> /\ config' = config /\ Save
        /\ sub' = sub \/ (sub # NoSub /\ sub' = [sub EXCEPT !.active = FALSE])
    <3>1. CASE RenewToken
      BY <3>1 DEF RenewToken
    <3>2. CASE RetireSub
      BY <3>2 DEF RetireSub
    <3> QED BY <1>4, <3>1, <3>2
  <2>2. config' \in Config /\ saved' \in Config /\ ConfigOnRecord'
    BY <2>1, SavedStays
  <2>3. Shape' /\ GrantsAreBacked'
    BY <2>1, <2>2 DEF IInv, Shape, GrantsAreBacked
  <2> QED BY <1>4, <2>1, <2>2, <2>3, SilentIsRight DEF IInv
<1>5. CASE UNCHANGED vars \/ Forget
  <2>1. /\ UNCHANGED <<owner, tokened, config, saved, record, subVars>>
        /\ answer' = answer \/ answer' = NoAnswer
    BY <1>5 DEF vars, Forget
  <2>2. Shape' /\ GrantsAreBacked' /\ ConfigOnRecord'
    BY <2>1 DEF IInv, Shape, GrantsAreBacked, ConfigOnRecord, Public, subVars
  <2>3. NothingInflated' /\ InlineNarrows'
    <3>1. CASE answer' = answer
      BY <2>1, <3>1 DEF IInv, NothingInflated, InlineNarrows
    <3> QED BY <2>1, <3>1, SilentIsRight
  <2> QED BY <2>2, <2>3 DEF IInv
<1> QED BY <1>1, <1>2, <1>3, <1>4, <1>5, SubscribeStep, PullStep, PublishStep
        DEF Next, Requests

(* The invariant of a monitor under one subscriber's name. *)
LEMMA MonitorInvariant == Spec => []IInv
<1>1. ASSUME Init PROVE IInv
  <2>1. Shape
    BY <1>1 DEF Init, Shape, Config
  <2>2. GrantsAreBacked
    BY <1>1 DEF Init, GrantsAreBacked, NoSub
  <2>3. ConfigOnRecord
    BY <1>1 DEF Init, ConfigOnRecord
  <2>4. NothingInflated /\ InlineNarrows
    BY <1>1 DEF Init, NoAnswer, NothingInflated, InlineNarrows
  <2> QED BY <2>1, <2>2, <2>3, <2>4 DEF IInv
<1> QED BY <1>1, NextIInv, PTL DEF Spec

(* Nothing beyond the default grant is held that was not given on the       *)
(* owner's or the subscribe token and asked for since (subscribe, core.ts). *)
THEOREM GrantsCorrect == Spec => []GrantsAreBacked
BY MonitorInvariant, PTL DEF IInv

(* The configuration in force, and the one on disk, are on record, unless   *)
(* an update was refused half way (monitorAction, core.ts).                 *)
THEOREM RecordCorrect == Spec => []ConfigOnRecord
BY MonitorInvariant, PTL DEF IInv

(* No observation claims more than its body states and its owner may say,   *)
(* and none of a known machine a human origin without naming the owner      *)
(* (publish, core.ts).                                                      *)
THEOREM ClaimsCorrect == Spec => []NothingInflated
BY MonitorInvariant, PTL DEF IInv

(* A pull with a filter of its own never reads more than the stored filter  *)
(* lets through (pull, core.ts; intersectFilters, filter.ts).               *)
THEOREM InlineCorrect == Spec => []InlineNarrows
BY MonitorInvariant, PTL DEF IInv
=============================================================================
