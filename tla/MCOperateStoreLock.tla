-------------------------- MODULE MCOperateStoreLock --------------------------
(* Small instances of the Operate store's writer lock for TLC. *)
EXTENDS OperateStoreLock, TLC

CONSTANTS c1, c2, c3

\* Three calls, each in a process of its own; they are alike.
MCTrio == {c1, c2, c3}
MCTrioSymmetry == Permutations(MCTrio)
===============================================================================
