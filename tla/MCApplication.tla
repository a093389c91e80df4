--------------------------- MODULE MCApplication ---------------------------
(* A small instance of Application for TLC: a line of a run's goroutine,   *)
(* the line of the signal and the last line of Run.                        *)
EXTENDS Application

CONSTANT x1

OneRunLine == {x1}
MainLines  == {"signal", "server stopped"}
Followed   == OneRunLine \cup MainLines
AllInfo    == [line \in Followed |-> "info"]
TwoDates   == {1, 2}
TwoFiles   == {"config.yml", "scripts.js"}
=============================================================================
