------------------------------- MODULE MCFeed -------------------------------
(* Small instances of Feed.  The .cfg files choose among these values.     *)
EXTENDS Feed, TLC

CONSTANTS m1, m2, s1, s2, c1, c2

OneMonitor  == {m1}
TwoMonitors == {m1, m2}
OneSub      == {s1}
OneCall     == {c1}
TwoCalls    == {c1, c2}

(* Every subscription reads m1; m2 only shares the log with it. *)
AllReadM1 == [s \in Subs |-> m1]

LetAllThrough == [m \in Monitors |-> {"obs", "proto"}]

BothKinds  == {"obs", "proto"}
ObsOrAll   == {{"obs"}, {"obs", "proto"}}
ObsOnly    == {{"obs"}}

(* `reply` is written by every step and read by none: states that differ in *)
(* it alone are one state, and the properties of replies are properties of  *)
(* the steps that send them.                                                *)
WithoutReply == <<seq, rows, heads, floor, dropped, monitors, subs, disk, history,
                  calls, sweeping, pages, accounted, handed>>

CallSymmetry == Permutations(Calls)
=============================================================================
