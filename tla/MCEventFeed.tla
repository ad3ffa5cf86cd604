---------------------------- MODULE MCEventFeed -----------------------------
(***************************************************************************)
(* Instances of EventFeed for TLC.  What moves the pages of a reader are   *)
(* many rows, and what confuses the join of log and notices are several    *)
(* metrics: a behaviour aims at the pages of the log, at those of the      *)
(* inbox, or at joins.                                                     *)
(***************************************************************************)
EXTENDS EventFeed, TLC

CONSTANTS co2, pm25, noise

\* One device with two metrics, and one with a third.
Devices == [m \in Metric |-> IF m = noise THEN {noise} ELSE {co2, pm25}]

Symmetry == Permutations({co2, pm25})

VARIABLE aim

\* A log without notices, turned page by page.
AtLog ==
    /\ inbox = <<>> /\ now = ticks
    /\ \A i \in DOMAIN log : log[i].metric = (IF log[i].kind = "OFFLINE" THEN None ELSE noise)
    /\ req.pc # "found"

\* An inbox of notices about a device, turned page by page.
AtInbox ==
    /\ Len(log) < MaxRows /\ now = ticks
    /\ \A i \in DOMAIN log : log[i].metric = None
    /\ req # NoRequest => req.feed = "inbox"

\* Few unread notices of several metrics and of a device that is named for one of them.
AtJoins ==
    /\ \A i \in DOMAIN log : log[i].metric # None
    /\ Len(inbox) < MaxNotices /\ ticks < MaxTicks
    /\ \A n \in DOMAIN inbox : ~inbox[n].read
    /\ req # NoRequest /\ req.high = None => req.take # 1

FeedInit == Init /\ aim \in {"log", "inbox", "joins"}

FeedNext ==
    /\ Next
    /\ \/ aim = "log" /\ AtLog'
       \/ aim = "inbox" /\ AtInbox'
       \/ aim = "joins" /\ AtJoins'
    /\ UNCHANGED aim

FeedSpec == FeedInit /\ [][FeedNext]_<<vars, aim>>
=============================================================================
