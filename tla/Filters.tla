------------------------------ MODULE Filters ------------------------------
(***************************************************************************)
(* src/src/filter.ts: what a filter lets through, and how a filter given   *)
(* with a pull is combined with the stored one.                            *)
(*                                                                         *)
(* A filter has a list of types, a list of values of one tag, and the two  *)
(* times; the other list keys work as the types do.  Times are numbers,    *)
(* the empty string 0, which sorts before all of them, and a missing one   *)
(* Absent.  Keys for a text and a limit are left out: neither matching nor *)
(* combining them can let more rows through.                               *)
(***************************************************************************)
EXTENDS Integers

CONSTANTS
    Types,         \* types of observations
    Prefix,        \* a pattern that covers all of them
    Values,        \* values of the tag
    MaxTime,       \* times are 1..MaxTime
    NoList         \* a list key that is missing

ASSUME FiltersAssumption ==
    /\ MaxTime \in Nat /\ MaxTime >= 1
    /\ Prefix \notin Types
    /\ \A S \in SUBSET (Types \cup Values \cup {Prefix}) : NoList # S

Absent == -1
Empty == 0

Lists(S) == (SUBSET S) \cup {NoList}

Filter == [types: Lists(Types \cup {Prefix}), tag: Lists(Values),
           since: Absent..MaxTime, until: Absent..MaxTime]

Observation == [type: Types, tags: SUBSET Values, time: 1..MaxTime]

(* The empty strings in a time, and a list of tag values that is empty. *)
WellFormed(f) == f.until # Empty /\ f.tag # {}

-----------------------------------------------------------------------------
(* A list of types that is empty asks for nothing; one of tag values is     *)
(* never met.                                                               *)
MatchesTypes(list, type) ==
    list \in {NoList, {}} \/ type \in list \/ Prefix \in list

MatchesTag(list, tags) == list = NoList \/ list \cap tags # {}

matches(f, o) ==
    /\ MatchesTypes(f.types, o.type)
    /\ MatchesTag(f.tag, o.tags)
    /\ f.since > Empty => o.time >= f.since
    /\ f.until > Empty => o.time <= f.until

(* Two lists of one key, either of which may be missing, or empty.  They    *)
(* clash where nothing is in both.                                          *)
Clash(have, want) ==
    want # NoList /\ have \notin {NoList, {}} /\ have \cap want = {}

Both(have, want) ==
    CASE want = NoList -> have
      [] want # NoList /\ have \in {NoList, {}} -> want
      [] OTHER -> have \cap want

Later(have, want) == IF have > want THEN have ELSE want

(* The earlier of two times; a missing one is later than all.               *)
Earlier(have, want) ==
    IF want = Absent \/ (have # Absent /\ have < want) THEN have ELSE want

Clashes(stored, inline) ==
    Clash(stored.types, inline.types) \/ Clash(stored.tag, inline.tag)

(* Mutant of intersectFilters: the given filter takes the place of the      *)
(* stored one, key by key.                                                  *)
OverrideFilters(stored, inline) ==
    [types |-> IF inline.types = NoList THEN stored.types ELSE inline.types,
     tag |-> IF inline.tag = NoList THEN stored.tag ELSE inline.tag,
     since |-> Later(stored.since, inline.since),
     until |-> Earlier(stored.until, inline.until)]

intersectFilters(stored, inline) ==
    [types |-> Both(stored.types, inline.types),
     tag |-> Both(stored.tag, inline.tag),
     since |-> Later(stored.since, inline.since),
     until |-> Earlier(stored.until, inline.until)]
=============================================================================
