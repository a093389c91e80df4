--------------------------- MODULE MCFileManager ---------------------------
(* Small instances of FileManager for TLC.                                 *)
EXTENDS FileManager, TLC

CONSTANTS c1, s1, s2, v1, v2

OneCaller  == {c1}
OneDay     == {1}
TwoDays    == {1, 2}

\* Everything that can go wrong with a file, except that something outside
\* the program damages one.
OwnFaults == {"open", "write", "rename", "remove", "read", "backup",
              "archwrite"}

\* No definition tells the slots of a day apart.
SlotSymmetry == Permutations(Slots)
=============================================================================
