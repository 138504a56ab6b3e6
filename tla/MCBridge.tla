------------------------------ MODULE MCBridge ------------------------------
(* Instances of Bridge for TLC. *)
EXTENDS Bridge, TLC

CONSTANTS w1, w2, h1, h2

OneWorker == {w1}
TwoWorkers == {w1, w2}
OneHandler == {h1}
TwoHandlers == {h1, h2}

(* A fourth row comes only behind one that does not match, and while nobody *)
(* else has moved the cursor or taken the subscription away.                *)
Short == Len(log) > 3 => log[3] # "matching" /\ ~moved /\ active

ShortSpec == Init /\ [][Next /\ Short']_vars /\ Fairness

WorkerSymmetry == Permutations(TwoWorkers)
=============================================================================
