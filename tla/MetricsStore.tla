---------------------------- MODULE MetricsStore ----------------------------
(***************************************************************************)
(* What the store promises to those who call it and to the clients that    *)
(* read metrics.json: every method is one step, or none.  FileManager is   *)
(* shown to implement it while nothing it writes fails.                    *)
(***************************************************************************)
CONSTANT Entry   \* measurements: records with a day and a slot of that day

VARIABLES
    shown,       \* what a client that reads metrics.json sees
    archived,    \* what the archive files hold
    open,        \* a task session is open
    staged       \* its dataset

vars == <<shown, archived, open, staged>>

OfDay(S, d) == {e \in S : e.day = d}
AllDays == {e.day : e \in Entry}

\* A later entry of a slot takes the place of the earlier ones.
Merge(old, new) ==
    {e \in old : ~ \E f \in new : f.day = e.day /\ f.slot = e.slot} \cup new

Init == shown = {} /\ archived = {} /\ open = FALSE /\ staged = {}

\* StartTask: the session starts from all that is shown.
Begin ==
    /\ ~open
    /\ open' = TRUE
    /\ staged' = shown
    /\ UNCHANGED <<shown, archived>>

\* A measurement is staged in a session, and shown at once without one.
Record(e) ==
    /\ IF open THEN staged' = staged \cup {e} /\ UNCHANGED shown
               ELSE shown' = shown \cup {e} /\ UNCHANGED staged
    /\ UNCHANGED <<archived, open>>

\* CommitTask or AbortTask: the session is shown whole or it is dropped.
End ==
    /\ open
    /\ open' = FALSE
    /\ staged' = {}
    /\ shown' \in {staged, shown}
    /\ UNCHANGED archived

\* Archive, day by day: the day is put into the archive ...
Keep(d) ==
    /\ UNCHANGED <<shown, open, staged>>
    /\ archived' = Merge(archived, OfDay(shown, d))

\* ... and days that are there are shown no longer.
Retire(D) ==
    /\ UNCHANGED <<archived, open, staged>>
    /\ \A d \in D : OfDay(shown, d) \subseteq archived
    /\ shown' = {e \in shown : e.day \notin D}

Next ==
    \/ \E D \in SUBSET AllDays : Retire(D)
    \/ \E d \in AllDays : Keep(d)
    \/ Begin
    \/ End
    \/ \E e \in Entry : Record(e)

Spec == Init /\ [][Next]_vars
=============================================================================
