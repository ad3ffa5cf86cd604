--------------------------- MODULE AlertProtocol ----------------------------
(***************************************************************************)
(* What the alert engine promises the user of a device: for each metric the*)
(* two kinds of notice take turns, the first being an alert (WORKFLOW.md,  *)
(* "State Machine Throttling").  A notice can be disturbed, by an          *)
(* evaluation that dies or by two at the same time; only then may the next *)
(* one say the same again, and with it the disturbance is over.            *)
(***************************************************************************)
EXTENDS Naturals

CONSTANTS Parameter, None

VARIABLES
    newest,     \* the newest notice about each metric
    notices,    \* how many notices there were about it
    disturbed   \* the metrics whose newest notice was disturbed

Notice == {"TRIGGERED", "RESOLVED"}

Init ==
    /\ newest = [p \in Parameter |-> None]
    /\ notices = [p \in Parameter |-> 0]
    /\ disturbed = {}

\* The next notice about p in turn.
Due(p) == IF newest[p] = "TRIGGERED" THEN "RESOLVED" ELSE "TRIGGERED"

\* A notice ends what disturbed the one before, and may be disturbed itself.
Counted(p) ==
    /\ notices' = [notices EXCEPT ![p] = @ + 1]
    /\ disturbed' \in {disturbed \ {p}, disturbed \cup {p}}

Notify(p) == newest' = [newest EXCEPT ![p] = Due(p)] /\ Counted(p)

Repeat(p) ==
    /\ p \in disturbed
    /\ newest[p] \in Notice
    /\ Counted(p)
    /\ UNCHANGED newest

Disturb ==
    /\ disturbed \subseteq disturbed'
    /\ disturbed' \subseteq Parameter
    /\ UNCHANGED <<newest, notices>>

Next == Disturb \/ \E p \in Parameter : Notify(p) \/ Repeat(p)

Spec == Init /\ [][Next]_<<newest, notices, disturbed>>
=============================================================================
