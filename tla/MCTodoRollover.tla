--------------------------- MODULE MCTodoRollover ---------------------------
(* Small instances of TodoRollover.                                        *)
EXTENDS TodoRollover, TLC

CONSTANTS call, water

MCTasks == {call, water}
MCDaily == {water}

\* Every todo of up to two lines: a task twice, done, moved, or both.
MCBodies == {<<>>} \cup [1..1 -> Line] \cup [1..2 -> Line]

MCSymmetry == Permutations(Procs)
=============================================================================
