---------------------------- MODULE MCTaskLeases -----------------------------
(***************************************************************************)
(* Small instances of TaskLeases.  For the fencing run: two tasks in       *)
(* different lanes and two engines.  For the order run: an interactive     *)
(* task of low priority, and three in the background, of which two have    *)
(* the same priority, so that every key of the order decides some claim.   *)
(***************************************************************************)
EXTENDS TaskLeases, TLC

CONSTANTS o1, o2

MCOwners == {o1, o2}
OwnerSymmetry == Permutations(MCOwners)
TwoTasks == {1, 2}
FourTasks == 1..4
SecondOnly == {2}
EqualPriority == [t \in TwoTasks |-> 50]
MixedPriority == [t \in FourTasks |-> IF t = 3 THEN 60 ELSE IF t = 4 THEN 10 ELSE 50]
=============================================================================
