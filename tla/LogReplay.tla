------------------------------- MODULE LogReplay -------------------------------
(***************************************************************************)
(* What a page is promised of a case's event log (app/main.py, events):    *)
(* the log only grows, and every page moves through it one entry at a      *)
(* time, from the first, skipping none; a refresh begins again.            *)
(***************************************************************************)
EXTENDS Naturals, Sequences

CONSTANTS Pages

VARIABLES
    log,     \* the types of the events logged so far
    cursor   \* how far each page has come

Init ==
    /\ log = <<>>
    /\ cursor = [p \in Pages |-> 0]

Log(type) ==
    /\ log' = Append(log, type)
    /\ UNCHANGED cursor

Advance(p) ==
    /\ cursor[p] < Len(log)
    /\ cursor' = [cursor EXCEPT ![p] = @ + 1]
    /\ UNCHANGED log

Refresh(p) ==
    /\ cursor' = [cursor EXCEPT ![p] = 0]
    /\ UNCHANGED log

Next ==
    \/ \E type \in {"step", "stop", "error"} : Log(type)
    \/ \E p \in Pages : Advance(p) \/ Refresh(p)

Spec == Init /\ [][Next]_<<log, cursor>>
=============================================================================
