---------------------------- MODULE VersionHistory ----------------------------
(***************************************************************************)
(* What the Operate store promises of its durable state: one history of    *)
(* selected versions that only grows.  A commit adds a new version whose   *)
(* line is the line of the version it replaces; a rewind selects again an  *)
(* older version of the current line.  No version is committed beside      *)
(* another, and none that was selected is forgotten or changed.            *)
(***************************************************************************)
EXTENDS Sequences

CONSTANT Version

VARIABLES
  history,   \* the versions selected so far, the current one last
  line       \* line[v]: v and the versions it was built on; {} while unknown

vars == <<history, line>>

Init ==
  /\ history = <<>>
  /\ line = [v \in Version |-> {}]

LineOfCurrent ==
  IF history = <<>> THEN {} ELSE line[history[Len(history)]]

Commit(v) ==
  /\ line[v] = {}
  /\ line' = [line EXCEPT ![v] = {v} \union LineOfCurrent]
  /\ history' = Append(history, v)

Rewind(v) ==
  /\ v \in LineOfCurrent
  /\ history' = Append(history, v)
  /\ UNCHANGED line

Next == \E v \in Version : Commit(v) \/ Rewind(v)

Spec == Init /\ [][Next]_vars

=============================================================================
