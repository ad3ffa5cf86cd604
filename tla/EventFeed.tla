----------------------------- MODULE EventFeed ------------------------------
(***************************************************************************)
(* The history a user reads: the event feeds of                            *)
(* src/src/event-logs/event-logs.repository.ts and the in-app inbox of     *)
(* src/src/in-app-notifications/in-app-notifications.repository.ts, over   *)
(* the EventLog and Notification tables, while the alert engine (module    *)
(* Alerts) and the telemetry handlers (module DevicePipeline) append to    *)
(* them.  What happens is a log row and, by a later query, a notice; the   *)
(* two rows have no key in common, and the readers join them by time.      *)
(***************************************************************************)
EXTENDS Integers, FiniteSets, Sequences

CONSTANTS
    Metric,     \* the metrics of the user's devices
    DeviceOf,   \* the metrics of the device that a metric is of
    Label,      \* metrics, or None, that the first word of a device's name can be
    Cap,        \* rows a feed shows at all (50)
    LastPage,   \* the last page a highlighted row can be on (5)
    Window,     \* the farthest apart two rows are still joined (5 s)
    Take,       \* page sizes of clients that turn pages
    LinkTake,   \* page sizes of clients that follow a link
    MaxTime,    \* bound: how far the clock moves at once
    MaxTicks,   \* bound: how often it moves
    MaxRows,    \* bound: rows of the log
    MaxAlerts,  \* bound: alerts among them
    MaxNotices, \* bound: rows of the inbox
    None        \* null

ASSUME EventFeedAssumption ==
    /\ None \notin Int \cup Metric
    /\ DeviceOf \in [Metric -> SUBSET Metric] /\ \A m \in Metric : m \in DeviceOf[m]
    /\ Label \subseteq Metric \cup {None}
    /\ Cap \in Nat \ {0} /\ LastPage \in Nat \ {0}
    /\ Window \in Nat
    /\ Take \subseteq 1..Cap /\ LinkTake \subseteq 1..Cap
    /\ MaxTime \in Nat /\ MaxTicks \in Nat /\ MaxRows \in Nat /\ MaxAlerts \in Nat /\ MaxNotices \in Nat

VARIABLES
    now, ticks, \* the clock, and how often it has moved
    log,        \* EventLog rows of the user, in the order of their ids
    inbox,      \* Notification rows, in the order they were written
    pending,    \* log rows whose notice is still to be written
    req,        \* the request a client waits for, or its answer
    walk        \* what a client that turns pages had to see, and has seen

tables == <<log, inbox, pending>>
vars   == <<now, ticks, tables, req, walk>>

Alert == {"ALERT_TRIGGERED", "ALERT_RESOLVED"}
Feed  == {"devices", "sensors", "inbox"}

NoRequest == [pc |-> "idle"]
NoWalk    == [base |-> {}, seen |-> {}, marked |-> FALSE]

Init ==
    /\ now = 0 /\ ticks = 0
    /\ log = <<>> /\ inbox = <<>> /\ pending = {}
    /\ req = NoRequest /\ walk = NoWalk

Tick ==
    /\ ticks < MaxTicks
    /\ ticks' = ticks + 1
    /\ \E t \in 1..MaxTime : now' = now + t
    /\ UNCHANGED <<tables, req, walk>>

-----------------------------------------------------------------------------
(* The writers *)

Triggered(i) == log[i].kind = "ALERT_TRIGGERED"

\* What a notice says, its message and its thresholdValue, is about its log row; the
\* first word of its message is a metric, or a word of the device's name.
MetricOf(n) == log[inbox[n].of].metric
KindOf(n)   == log[inbox[n].of].kind

AppendRow(kind, metric) ==
    /\ Len(log) < MaxRows
    /\ log' = Append(log, [kind |-> kind, metric |-> metric, at |-> now])
    /\ pending' = pending \cup {Len(log')}

\* A device is turned ONLINE or OFFLINE: the log row.
LogDevice(label) ==
    /\ AppendRow("OFFLINE", label)
    /\ UNCHANGED <<now, ticks, inbox, req, walk>>

\* triggerAlert, resolveAlert: the log row.  Only what a stored notice has told of
\* can be resolved, because the state is written after the notice.
LogAlert(m, kind) ==
    /\ kind = "ALERT_RESOLVED" =>
          \E n \in DOMAIN inbox : MetricOf(n) = m /\ KindOf(n) = "ALERT_TRIGGERED"
    /\ Cardinality({i \in DOMAIN log : log[i].kind \in Alert}) < MaxAlerts
    /\ AppendRow(kind, m)
    /\ UNCHANGED <<now, ticks, inbox, req, walk>>

\* The notice.  A query that fails, or a node that dies before it, is one that is
\* never written.
Notify(i) ==
    /\ i \in pending
    /\ Len(inbox) < MaxNotices
    /\ inbox' = Append(inbox, [of |-> i, at |-> now, read |-> FALSE])
    /\ pending' = pending \ {i}
    /\ UNCHANGED <<now, ticks, log, req, walk>>

\* markAsRead and markAllAsRead, in another tab perhaps.
Mark(ns) ==
    /\ \E n \in ns : ~inbox[n].read
    /\ inbox' = [n \in DOMAIN inbox |->
                    IF n \in ns THEN [inbox[n] EXCEPT !.read = TRUE] ELSE inbox[n]]
    /\ walk' = [walk EXCEPT !.marked = req # NoRequest /\ req.unread]
    /\ UNCHANGED <<now, ticks, log, pending, req>>

MarkRead(n) == n \in DOMAIN inbox /\ Mark({n})
MarkAllRead == Mark(DOMAIN inbox)

-----------------------------------------------------------------------------
(* Pages *)

\* where
Rows(feed, unread) ==
    CASE feed = "devices" -> {i \in DOMAIN log : log[i].kind = "OFFLINE"}
      [] feed = "sensors" -> {i \in DOMAIN log : log[i].kind \in Alert}
      [] feed = "inbox"   -> {n \in DOMAIN inbox : unread => ~inbox[n].read}

At(feed, i) == IF feed = "inbox" THEN inbox[i].at ELSE log[i].at

Newer(feed, rows, i) == {j \in rows : At(feed, j) > At(feed, i)}

\* The sets that skip newest rows can be: ORDER BY "createdAt" DESC leaves the order
\* of rows of one millisecond to the database.
Newest(feed, rows, skip) ==
    {s \in SUBSET rows :
        /\ Cardinality(s) = (IF skip < Cardinality(rows) THEN skip ELSE Cardinality(rows))
        /\ \A i \in s : Newer(feed, rows, i) \subseteq s}

\* What findMany can answer.
Pages(feed, rows, skip, take) ==
    UNION {{t \ s : t \in {t \in Newest(feed, rows, skip + take) : s \subseteq t}} :
              s \in Newest(feed, rows, skip)}

\* Mutant of TakeOf: one row short at the cap.
TakeShort(feed, skip, take) ==
    IF feed # "inbox" /\ skip + take >= Cap THEN Cap - skip - 1 ELSE take

\* The cap of the event feeds; the inbox has none.
TakeOf(feed, skip, take) ==
    IF feed # "inbox" /\ skip + take > Cap THEN Cap - skip ELSE take

\* Mutant of Shown: the page is shown as it is.
PageOnly(page, high) == page

\* containsHighlighted.
Shown(page, high) == page \cup ({high} \ {None})

\* findMany, and the highlighted row if the page does not have it.  A page beyond
\* the cap is answered at once.
Fetch(feed, unread, take, skip, high, before) ==
    \E page \in IF feed # "inbox" /\ skip >= Cap THEN {{}}
                ELSE Pages(feed, Rows(feed, unread), skip, TakeOf(feed, skip, take)) :
        LET items == IF feed # "inbox" /\ skip >= Cap THEN {} ELSE Shown(page, high)
        IN
        /\ req' = [pc |-> IF items = {} \/ feed = "devices" THEN "done" ELSE "join",
                   feed |-> feed, unread |-> unread, take |-> take, skip |-> skip,
                   high |-> high, items |-> items, shown |-> <<>>]
        /\ walk' = IF high = None THEN [before EXCEPT !.seen = @ \cup page] ELSE NoWalk
        /\ UNCHANGED <<now, ticks, tables>>

\* A client opens a feed.
Open(feed, unread, take) ==
    /\ req.pc = "idle"
    /\ unread => feed = "inbox"
    /\ Fetch(feed, unread, take, 0, None,
             [base |-> Rows(feed, unread), seen |-> {}, marked |-> FALSE])

\* It turns the page.
NextPage ==
    /\ req.pc = "done" /\ req.high = None
    /\ req.items # {}
    /\ Fetch(req.feed, req.unread, req.take, req.skip + req.take, None, walk)

TargetPage(newer, take) ==
    IF newer \div take + 1 > LastPage THEN LastPage ELSE newer \div take + 1

\* It follows a link to a row: highlightId, and the page that the row is on.  Nothing
\* a writer does between the two queries changes the first one's answer.
Find(feed, take, high) ==
    LET newer == Cardinality(Newer(feed, Rows(feed, FALSE), high)) IN
    /\ req.pc = "idle"
    /\ feed # "inbox" /\ high \in Rows(feed, FALSE)
    /\ req' = [pc |-> "found", feed |-> feed, unread |-> FALSE, take |-> take,
               skip |-> (TargetPage(newer, take) - 1) * take, high |-> high,
               items |-> {}, shown |-> <<>>]
    /\ UNCHANGED <<now, ticks, tables, walk>>

FetchFound ==
    /\ req.pc = "found"
    /\ Fetch(req.feed, FALSE, req.take, req.skip, req.high, NoWalk)

Leave ==
    /\ req.pc = "done"
    /\ req' = NoRequest /\ walk' = NoWalk
    /\ UNCHANGED <<now, ticks, tables>>

-----------------------------------------------------------------------------
(* The join of log and notices *)

Gap(i, n) == IF log[i].at > inbox[n].at THEN log[i].at - inbox[n].at
                                        ELSE inbox[n].at - log[i].at

\* Mutant of NoticesFor: of any device of the user.
NoticesOfUser(i) ==
    {n \in DOMAIN inbox : KindOf(n) = "ALERT_TRIGGERED" /\ Gap(i, n) <= Window}

\* The notices with a limit that can be the one of log row i: its metric is not asked.
NoticesFor(i) ==
    {n \in DOMAIN inbox :
        /\ KindOf(n) = "ALERT_TRIGGERED"
        /\ MetricOf(n) \in DeviceOf[log[i].metric]
        /\ Gap(i, n) <= Window}

\* The log rows that can be the one of notice n: a notice that does not say exceeded
\* is taken for a resolution.
EventsFor(n) ==
    {i \in DOMAIN log :
        /\ log[i].kind = (IF KindOf(n) \in Alert THEN KindOf(n) ELSE "ALERT_RESOLVED")
        /\ log[i].metric = MetricOf(n)
        /\ Gap(i, n) <= Window}

\* sort(...)[0] of candidates with their gaps; several may be equally near.
Nearest(gap) ==
    IF DOMAIN gap = {} THEN {None}
    ELSE {r \in DOMAIN gap : \A s \in DOMAIN gap : gap[r] <= gap[s]}

\* The answer: every row with one of its partners.
Show(partners) ==
    /\ \E shown \in [DOMAIN partners -> UNION {partners[r] : r \in DOMAIN partners}] :
          /\ \A r \in DOMAIN partners : shown[r] \in partners[r]
          /\ req' = [req EXCEPT !.pc = "done", !.shown = shown]
    /\ UNCHANGED <<now, ticks, tables, walk>>

\* The second query of getSensorEvents, the notices, and its answer.
ShowLimits ==
    /\ req.pc = "join" /\ req.feed = "sensors"
    /\ Show([i \in {i \in req.items : Triggered(i)} |->
                Nearest([n \in NoticesFor(i) |-> Gap(i, n)])])

\* The second query of the inbox, the log rows, and its answer.
LinkEvents ==
    /\ req.pc = "join" /\ req.feed = "inbox"
    /\ Show([n \in req.items |-> Nearest([i \in EventsFor(n) |-> Gap(i, n)])])

Writing ==
    \/ \E label \in Label : LogDevice(label)
    \/ \E m \in Metric, kind \in Alert : LogAlert(m, kind)
    \/ \E i \in pending : Notify(i)
    \/ \E n \in DOMAIN inbox : MarkRead(n)
    \/ MarkAllRead

Reading ==
    \/ \E feed \in Feed, unread \in BOOLEAN, take \in Take : Open(feed, unread, take)
    \/ \E feed \in Feed, take \in LinkTake, i \in DOMAIN log : Find(feed, take, i)
    \/ NextPage \/ FetchFound \/ ShowLimits \/ LinkEvents \/ Leave

Next == Tick \/ Writing \/ Reading

Spec == Init /\ [][Next]_vars

-----------------------------------------------------------------------------
(* What a reader can rely on *)

\* Whoever follows a link to a row is shown the row, however old it is, and however
\* many rows are added while the page is being looked for - for page sizes whose last
\* page still begins below the cap; beyond it the answer is empty (63-69, 98-104).
HighlightIsShown ==
    req.pc \in {"join", "done"} /\ req.high # None /\ (LastPage - 1) * req.take < Cap
    => req.high \in req.items

\* A client that turns the pages one by one has been shown every row that was there
\* when it began and is within the pages so far and the cap, although rows added
\* meanwhile move the pages under it.  Not so for rows of one millisecond, whose order
\* is open, and for unread notices when some are marked as read meanwhile (106-117).
WalkMissesNothing ==
    req.pc \in {"join", "done"} /\ req.high = None /\ ~walk.marked =>
        LET rows   == Rows(req.feed, req.unread)
            newer(i) == Cardinality(Newer(req.feed, rows, i))
        IN  \A i \in walk.base \ walk.seen :
               \/ \E j \in rows \ {i} : At(req.feed, j) = At(req.feed, i)
               \/ newer(i) >= req.skip + req.take
               \/ req.feed # "inbox" /\ newer(i) >= Cap

\* An alert is shown with a limit of its own metric whenever a notice about that metric
\* is nearer than those about the other metrics of the device (220-269).
LimitIsOwn ==
    \A i \in DOMAIN req'.shown :
        LET own   == {n \in NoticesOfUser(i) : MetricOf(n) = log[i].metric}
            other == {n \in NoticesOfUser(i) : MetricOf(n) # log[i].metric
                        /\ MetricOf(n) \in DeviceOf[log[i].metric]}
        IN  (\E n \in own : \A o \in other : Gap(i, n) < Gap(i, o))
            => req'.shown[i] \in own

\* A notice about an alert links to the log row it was written for, unless that row is
\* further back than the window or another alert of its kind and metric is as near; one
\* about a device links to nothing, unless the device is named for a metric (67-90).
LinkIsOwn ==
    \A n \in DOMAIN req'.shown :
        \/ req'.shown[n] = IF KindOf(n) \in Alert THEN inbox[n].of ELSE None
        \/ KindOf(n) \notin Alert /\ MetricOf(n) # None
        \/ KindOf(n) \in Alert /\ Gap(inbox[n].of, n) > Window
        \/ \E i \in DOMAIN log \ {inbox[n].of} :
              /\ log[i].kind = KindOf(n) /\ log[i].metric = MetricOf(n)
              /\ Gap(i, n) <= Gap(inbox[n].of, n)

\* The join by time finds the right partner in both directions.
JoinFindsPartner ==
    [][req.pc = "join" /\ req'.pc = "done" =>
          IF req.feed = "inbox" THEN LinkIsOwn ELSE LimitIsOwn]_vars
=============================================================================
