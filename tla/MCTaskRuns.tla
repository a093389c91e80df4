----------------------------- MODULE MCTaskRuns -----------------------------
(* Small instances of TaskRuns for TLC.                                    *)
EXTENDS TaskRuns, TLC

CONSTANTS r1, r2, r3

OneRun    == {r1}
TwoRuns   == {r1, r2}
ThreeRuns == {r1, r2, r3}
OneDay    == {1}
TwoDays   == {1, 2}

\* The tasks that use the store: all but log rotation.
WritingTasks == {"ping", "speedtest", "archive"}

\* A deadline can pass anywhere; the slow calls are the probes.
Anywhere == Places

RunSymmetry == Permutations(Callers)
=============================================================================
