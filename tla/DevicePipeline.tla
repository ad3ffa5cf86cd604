--------------------------- MODULE DevicePipeline ---------------------------
(***************************************************************************)
(* Telemetry ingestion (src/src/mqtt/mqtt.consumer.ts) racing the offline  *)
(* detector (src/src/mqtt/offline-detector.service.ts) and the             *)
(* administrator's soft delete, on the Device, DeviceTelemetry and EventLog*)
(* tables.                                                                 *)
(*                                                                         *)
(* A Handler is one invocation of handleTelemetry, on any backend node: the*)
(* broker hands a message to one node, and a node starts the next message  *)
(* while earlier ones wait on the database.  A Detector is one run of      *)
(* checkOfflineDevices, on any node: setInterval does not wait for the     *)
(* previous run.  Every await is a step boundary.                          *)
(***************************************************************************)
EXTENDS Fleet, Integers, FiniteSets

CONSTANTS
    Claimed,        \* the devices that have an active assignment at first
    MessageId,      \* messageId values, chosen by the firmware
    Handler,        \* concurrent invocations of handleTelemetry
    Detector,       \* concurrent runs of checkOfflineDevices
    Timeout,        \* offlineTimeoutSeconds, in clock ticks
    TxTimeout,      \* how long a Prisma transaction may last (5 s), in clock ticks
    MessageIndex,   \* is there a unique index on (deviceId, messageId)?
    MaxTime,        \* bound: clock ticks
    MaxDeliveries,  \* bound: messages the broker hands over, redeliveries included
    MaxFailures     \* bound: handlers and runs that die half way

(***************************************************************************)
(* MessageIndex is TRUE for a database built by the tracked migrations     *)
(* (0_init creates the index, no later folder drops it) and FALSE for one  *)
(* built from schema.prisma or treated with the manual script              *)
(* add_composite_indexes_redis_dedup.sql, which drops it.                  *)
(***************************************************************************)
ASSUME PipelineAssumption ==
    /\ Claimed \subseteq Device
    /\ IsFiniteSet(Handler) /\ IsFiniteSet(Detector)
    /\ Timeout \in Nat \ {0}
    /\ TxTimeout \in 0..Timeout
    /\ MaxTime \in Nat
    /\ MaxDeliveries \in Nat
    /\ MaxFailures \in Nat
    /\ MessageIndex \in BOOLEAN
    /\ None \notin Nat
    /\ None \notin MessageId

\* ACTIVE is in the enum and in the documents; nothing in src/ writes it.
Status == {"ACTIVE", "WARNING", "OFFLINE", "ONLINE"}

\* A payload, as far as the pipeline tells payloads apart: does it carry a
\* messageId, and are its eight metrics all usable after sanitize()?
Message == [device : Device, id : MessageId \cup {None}, complete : BOOLEAN]

\* A row as the insert writes it, its timestamp taken then.
Row == [device : Device, id : MessageId, time : Nat, complete : BOOLEAN]

\* A row of DeviceTelemetry; "beat" is the lastHeartbeatAt its transaction wrote,
\* which no column records.
Reading ==
    [device : Device, id : MessageId, time : Nat, complete : BOOLEAN, beat : Nat]

VARIABLES
    clock,          \* the wall clock
    deliveries,     \* messages handed over so far
    failures,       \* half-done handlers and runs so far
    status,         \* Device.status
    lastHeartbeat,  \* Device.lastHeartbeatAt
    deletedAt,      \* Device.deletedAt; isDeleted is set together with it
    telemetry,      \* rows of DeviceTelemetry
    purged,         \* have a device's rows been deleted since the last one was stored?
    claimed,        \* the devices that have an active assignment
    hpc,            \* where a handler is
    hmsg,           \* the message it works on
    hseen,          \* device.status as it read it
    hrow,           \* the row its open transaction has inserted
    dpc,            \* where a detector run is
    cutoff,         \* its cutoffTime
    dead,           \* its deadDevices, less those already announced
    lastEvent,      \* the newest connectivity event logged for a device's owner
    offlineEvents,  \* how many OFFLINE events were logged for the device
    handed,         \* history: how often each message of a device was handed over
    outages,        \* history: how often the device became OFFLINE
    strays          \* history: how often a run announced it without having marked it

bounds   == <<clock, deliveries, failures>>
device   == <<status, lastHeartbeat, deletedAt>>
handler  == <<hpc, hmsg, hseen, hrow>>
detector == <<dpc, cutoff, dead>>
events   == <<lastEvent, offlineEvents>>
rows     == <<telemetry, purged, claimed>>
history  == <<handed, outages, strays>>
vars == <<bounds, device, rows, handler, detector, events, history>>

HandlerPC  == {"idle", "received", "validated", "inserted", "recovering", "finishing"}
DetectorPC == {"idle", "found", "announcing"}

TypeOK ==
    /\ clock \in Nat
    /\ deliveries \in Nat
    /\ failures \in Nat
    /\ status \in [Device -> Status]
    /\ lastHeartbeat \in [Device -> Nat \cup {None}]
    /\ deletedAt \in [Device -> Nat \cup {None}]
    /\ telemetry \subseteq Reading
    /\ purged \in [Device -> BOOLEAN]
    /\ claimed \subseteq Device
    /\ hpc \in [Handler -> HandlerPC]
    /\ hmsg \in [Handler -> Message \cup {None}]
    /\ \A h \in Handler : hpc[h] # "idle" => hmsg[h] \in Message
    /\ \A h \in Handler : hpc[h] = "validated" => hmsg[h].id # None
    /\ hseen \in [Handler -> Status]
    /\ hrow \in [Handler -> Row \cup {None}]
    /\ \A h \in Handler : hpc[h] = "inserted" => hrow[h] \in Row
    /\ dpc \in [Detector -> DetectorPC]
    /\ cutoff \in [Detector -> Int]
    /\ dead \in [Detector -> SUBSET Device]
    /\ lastEvent \in [Device -> {None, "ONLINE", "OFFLINE"}]
    /\ offlineEvents \in [Device -> Nat]
    /\ handed \in [Device \X MessageId -> Nat]
    /\ outages \in [Device -> Nat]
    /\ strays \in [Device -> Nat]

\* A freshly registered fleet: prisma's defaults for Device.
Init ==
    /\ clock = 0 /\ deliveries = 0 /\ failures = 0
    /\ status = [d \in Device |-> "OFFLINE"]
    /\ lastHeartbeat = [d \in Device |-> None]
    /\ deletedAt = [d \in Device |-> None]
    /\ telemetry = {}
    /\ purged = [d \in Device |-> FALSE]
    /\ claimed = Claimed
    /\ hpc = [h \in Handler |-> "idle"]
    /\ hmsg = [h \in Handler |-> None]
    /\ hseen = [h \in Handler |-> "OFFLINE"]
    /\ hrow = [h \in Handler |-> None]
    /\ dpc = [i \in Detector |-> "idle"]
    /\ cutoff = [i \in Detector |-> 0]
    /\ dead = [i \in Detector |-> {}]
    /\ lastEvent = [d \in Device |-> None]
    /\ offlineEvents = [d \in Device |-> 0]
    /\ handed = [x \in Device \X MessageId |-> 0]
    /\ outages = [d \in Device |-> 0]
    /\ strays = [d \in Device |-> 0]

-----------------------------------------------------------------------------
(* handleTelemetry *)

isDeleted(d) == deletedAt[d] # None

HandlerDone(h) ==
    /\ hpc' = [hpc EXCEPT ![h] = "idle"]
    /\ hmsg' = [hmsg EXCEPT ![h] = None]
    /\ hseen' = [hseen EXCEPT ![h] = "OFFLINE"]
    /\ hrow' = [hrow EXCEPT ![h] = None]

\* QoS 1: the broker hands any message over, at least once, to some node.
Deliver(h, m) ==
    /\ hpc[h] = "idle"
    /\ deliveries < MaxDeliveries
    /\ deliveries' = deliveries + 1
    /\ hpc' = [hpc EXCEPT ![h] = "received"]
    /\ hmsg' = [hmsg EXCEPT ![h] = m]
    /\ handed' = IF m.id = None THEN handed
                 ELSE [handed EXCEPT ![<<m.device, m.id>>] = @ + 1]
    /\ UNCHANGED <<clock, failures, device, rows, hseen, hrow, detector, events, outages,
                   strays>>

\* Mutant of ReadDevice: telemetry of a deleted device is not refused.
ReadDeletedDevice(h) ==
    /\ hpc[h] = "received"
    /\ IF hmsg[h].id = None
       THEN HandlerDone(h)
       ELSE /\ hpc' = [hpc EXCEPT ![h] = "validated"]
            /\ hseen' = [hseen EXCEPT ![h] = status[hmsg[h].device]]
            /\ UNCHANGED <<hmsg, hrow>>
    /\ UNCHANGED <<bounds, device, rows, detector, events, history>>

\* Mutant of ReadDevice: a missing messageId does not end the handler.
ReadWithoutId(h) ==
    /\ hpc[h] = "received"
    /\ IF isDeleted(hmsg[h].device)
       THEN HandlerDone(h)
       ELSE /\ hpc' = [hpc EXCEPT ![h] = "validated"]
            /\ hseen' = [hseen EXCEPT ![h] = status[hmsg[h].device]]
            /\ UNCHANGED <<hmsg, hrow>>
    /\ UNCHANGED <<bounds, device, rows, detector, events, history>>

\* The row read at the top of the handler.  Its status is what the rest of the
\* handler compares with.  A deleted device and a missing messageId end it.
ReadDevice(h) ==
    /\ hpc[h] = "received"
    /\ IF isDeleted(hmsg[h].device) \/ hmsg[h].id = None
       THEN HandlerDone(h)
       ELSE /\ hpc' = [hpc EXCEPT ![h] = "validated"]
            /\ hseen' = [hseen EXCEPT ![h] = status[hmsg[h].device]]
            /\ UNCHANGED <<hmsg, hrow>>
    /\ UNCHANGED <<bounds, device, rows, detector, events, history>>

NewStatus(m) == IF m.complete THEN "ONLINE" ELSE "WARNING"

NewRow(m) == [device |-> m.device, id |-> m.id, time |-> clock, complete |-> m.complete]

\* The primary key (deviceId, timestamp).
SameTime(r, q) == r.device = q.device /\ r.time = q.time

\* Mutant of SameMessage: the index also has the timestamp, as in schema.prisma.
SameMessageAndTime(r, q) ==
    MessageIndex /\ r.device = q.device /\ r.id = q.id /\ r.time = q.time

\* The index (deviceId, messageId) of migration 0_init, on a database that has it.
SameMessage(r, q) == MessageIndex /\ r.device = q.device /\ r.id = q.id

Conflict(r, q) == SameTime(r, q) \/ SameMessage(r, q)

Stored(r, t) ==
    [device |-> r.device, id |-> r.id, time |-> r.time, complete |-> r.complete,
     beat |-> t]

\* Mutant of Insert: the insert is not part of the transaction.
InsertAndCommit(h) ==
    LET r == NewRow(hmsg[h]) IN
    /\ hpc[h] = "validated"
    /\ IF \E q \in telemetry : Conflict(r, q)
       THEN HandlerDone(h) /\ UNCHANGED rows
       ELSE /\ telemetry' = telemetry \cup {Stored(r, clock)}
            /\ UNCHANGED <<purged, claimed>>
            /\ hpc' = [hpc EXCEPT ![h] = "inserted"]
            /\ hrow' = [hrow EXCEPT ![h] = r]
            /\ UNCHANGED <<hmsg, hseen>>
    /\ UNCHANGED <<bounds, device, detector, events, history>>

\* The transaction's insert.  It waits for a transaction that has inserted a
\* conflicting row; against a stored one it is refused (P2002), and the message
\* is dropped as a duplicate with nothing written.
Insert(h) ==
    LET r == NewRow(hmsg[h]) IN
    /\ hpc[h] = "validated"
    /\ \A g \in Handler : hpc[g] = "inserted" => ~Conflict(r, hrow[g])
    /\ IF \E q \in telemetry : Conflict(r, q)
       THEN HandlerDone(h)
       ELSE /\ hpc' = [hpc EXCEPT ![h] = "inserted"]
            /\ hrow' = [hrow EXCEPT ![h] = r]
            /\ UNCHANGED <<hmsg, hseen>>
    /\ UNCHANGED <<bounds, device, rows, detector, events, history>>

IsRecovering(h) == hseen[h] = "OFFLINE" /\ NewStatus(hmsg[h]) = "ONLINE"

\* Mutant of Commit: status is written only when it differs from the one read.
CommitChangedStatus(h) ==
    LET m == hmsg[h] IN
    /\ hpc[h] = "inserted"
    /\ \E t \in hrow[h].time..clock :
          /\ clock <= hrow[h].time + TxTimeout
          /\ telemetry' = telemetry \cup {Stored(hrow[h], t)}
          /\ lastHeartbeat' = [lastHeartbeat EXCEPT ![m.device] = t]
    /\ purged' = [purged EXCEPT ![m.device] = FALSE]
    /\ status' = IF hseen[h] = NewStatus(m) THEN status
                 ELSE [status EXCEPT ![m.device] = NewStatus(m)]
    /\ hpc' = [hpc EXCEPT ![h] = IF IsRecovering(h) THEN "recovering" ELSE "finishing"]
    /\ hrow' = [hrow EXCEPT ![h] = None]
    /\ UNCHANGED <<bounds, deletedAt, claimed, hmsg, hseen, detector, events, history>>

\* The transaction's update of the device row, whose lock lasts to the commit.  The
\* heartbeat is new Date() of when the update was sent; it may have waited since.
Commit(h) ==
    LET m == hmsg[h] IN
    /\ hpc[h] = "inserted"
    /\ \E t \in hrow[h].time..clock :
          /\ clock <= hrow[h].time + TxTimeout
          /\ telemetry' = telemetry \cup {Stored(hrow[h], t)}
          /\ lastHeartbeat' = [lastHeartbeat EXCEPT ![m.device] = t]
    /\ purged' = [purged EXCEPT ![m.device] = FALSE]
    /\ status' = [status EXCEPT ![m.device] = NewStatus(m)]
    /\ hpc' = [hpc EXCEPT ![h] = IF IsRecovering(h) THEN "recovering" ELSE "finishing"]
    /\ hrow' = [hrow EXCEPT ![h] = None]
    /\ UNCHANGED <<bounds, deletedAt, claimed, hmsg, hseen, detector, events, history>>

\* Prisma rolls the transaction back, and the catch block ends the handler.
TransactionTimesOut(h) ==
    /\ hpc[h] = "inserted"
    /\ clock > hrow[h].time + TxTimeout
    /\ HandlerDone(h)
    /\ UNCHANGED <<bounds, device, rows, detector, events, history>>

\* ONLINE event, notification and SSE push for the assigned user, if any.
LogRecovery(h) ==
    /\ hpc[h] = "recovering"
    /\ lastEvent' = IF hmsg[h].device \in claimed
                    THEN [lastEvent EXCEPT ![hmsg[h].device] = "ONLINE"]
                    ELSE lastEvent
    /\ hpc' = [hpc EXCEPT ![h] = "finishing"]
    /\ UNCHANGED <<bounds, device, rows, hmsg, hseen, hrow, detector, offlineEvents,
                   history>>

\* Mutant of Finish: a handler that fails after its transaction starts over.
FinishOrStartOver(h) ==
    /\ hpc[h] = "finishing"
    /\ \/ HandlerDone(h)
       \/ hpc' = [hpc EXCEPT ![h] = "received"] /\ UNCHANGED <<hmsg, hseen, hrow>>
    /\ UNCHANGED <<bounds, device, rows, detector, events, history>>

\* Alert evaluation (module Alerts) and the write of device:{id}:latest, a
\* Redis key that nothing in src/ reads.
Finish(h) ==
    /\ hpc[h] = "finishing"
    /\ HandlerDone(h)
    /\ UNCHANGED <<bounds, device, rows, detector, events, history>>

\* The node dies, or a database or Redis error lands in the catch block.  An open
\* transaction is rolled back.
HandlerFails(h) ==
    /\ hpc[h] # "idle"
    /\ failures < MaxFailures
    /\ failures' = failures + 1
    /\ HandlerDone(h)
    /\ UNCHANGED <<clock, deliveries, device, rows, detector, events, history>>

-----------------------------------------------------------------------------
(* checkOfflineDevices *)

\* Mutant of Overdue: only a device that is ONLINE can go OFFLINE.
OverdueOnline(c) ==
    {d \in Device : /\ ~isDeleted(d)
                    /\ status[d] = "ONLINE"
                    /\ lastHeartbeat[d] # None
                    /\ lastHeartbeat[d] < c}

\* The where clause that both the findMany and the updateMany use.
Overdue(c) ==
    {d \in Device : /\ ~isDeleted(d)
                    /\ status[d] # "OFFLINE"
                    /\ lastHeartbeat[d] # None
                    /\ lastHeartbeat[d] < c}

DetectorDone(i) ==
    /\ dpc' = [dpc EXCEPT ![i] = "idle"]
    /\ cutoff' = [cutoff EXCEPT ![i] = 0]
    /\ dead' = [dead EXCEPT ![i] = {}]

\* Mutant of Find: the list's where clause has drifted from the update's.
FindOnline(i) ==
    LET c == clock - Timeout IN
    /\ dpc[i] = "idle"
    /\ OverdueOnline(c) # {}
    /\ dpc' = [dpc EXCEPT ![i] = "found"]
    /\ cutoff' = [cutoff EXCEPT ![i] = c]
    /\ dead' = [dead EXCEPT ![i] = OverdueOnline(c)]
    /\ UNCHANGED <<bounds, device, rows, handler, events, history>>

\* cutoffTime and the list of devices to announce; an empty list ends the run.
Find(i) ==
    LET c == clock - Timeout IN
    /\ dpc[i] = "idle"
    /\ Overdue(c) # {}
    /\ dpc' = [dpc EXCEPT ![i] = "found"]
    /\ cutoff' = [cutoff EXCEPT ![i] = c]
    /\ dead' = [dead EXCEPT ![i] = Overdue(c)]
    /\ UNCHANGED <<bounds, device, rows, handler, events, history>>

\* Turn the devices of a set OFFLINE; an empty one ends the run.
Mark(i, marked) ==
    /\ dpc[i] = "found"
    /\ status' = [d \in Device |-> IF d \in marked THEN "OFFLINE" ELSE status[d]]
    /\ outages' = [d \in Device |-> IF d \in marked THEN outages[d] + 1 ELSE outages[d]]
    /\ IF marked = {}
       THEN DetectorDone(i) /\ UNCHANGED strays
       ELSE /\ dpc' = [dpc EXCEPT ![i] = "announcing"]
            /\ strays' = [d \in Device |-> IF d \in dead[i] \ marked THEN strays[d] + 1
                                           ELSE strays[d]]
            /\ UNCHANGED <<cutoff, dead>>
    /\ UNCHANGED <<bounds, lastHeartbeat, deletedAt, rows, handler, events, handed>>

\* Mutant of MarkOffline: the list found before is marked as it is.
MarkListed(i) == Mark(i, dead[i])

\* Mutant of MarkOffline: the update computes a cutoff of its own.
MarkWithNewCutoff(i) == Mark(i, Overdue(clock - Timeout))

\* Mutant of MarkOffline: the run does not look at the update's count.
MarkUncounted(i) ==
    LET marked == Overdue(cutoff[i]) IN
    /\ dpc[i] = "found"
    /\ status' = [d \in Device |-> IF d \in marked THEN "OFFLINE" ELSE status[d]]
    /\ outages' = [d \in Device |-> IF d \in marked THEN outages[d] + 1 ELSE outages[d]]
    /\ dpc' = [dpc EXCEPT ![i] = "announcing"]
    /\ UNCHANGED <<cutoff, dead>>
    /\ UNCHANGED <<bounds, lastHeartbeat, deletedAt, rows, handler, events, handed, strays>>

\* updateMany re-evaluates the clause.  Only its count decides whether the list
\* found before is announced.
MarkOffline(i) == Mark(i, Overdue(cutoff[i]))

\* One turn of the loop over deadDevices: OFFLINE event, notification, SSE push.
Announce(i, d) ==
    /\ dpc[i] = "announcing"
    /\ d \in dead[i]
    /\ IF d \in claimed
       THEN /\ lastEvent' = [lastEvent EXCEPT ![d] = "OFFLINE"]
            /\ offlineEvents' = [offlineEvents EXCEPT ![d] = @ + 1]
       ELSE UNCHANGED events
    /\ IF dead[i] = {d}
       THEN DetectorDone(i)
       ELSE /\ dead' = [dead EXCEPT ![i] = @ \ {d}]
            /\ UNCHANGED <<dpc, cutoff>>
    /\ UNCHANGED <<bounds, device, rows, handler, history>>

\* The node dies, or an error ends the run in its catch block.
DetectorFails(i) ==
    /\ dpc[i] # "idle"
    /\ failures < MaxFailures
    /\ failures' = failures + 1
    /\ DetectorDone(i)
    /\ UNCHANGED <<clock, deliveries, device, rows, handler, events, history>>

-----------------------------------------------------------------------------
(* The administrator, the owner, the clock and the specification *)

SoftDelete(d) ==
    /\ deletedAt' = [deletedAt EXCEPT ![d] = clock]
    /\ status' = [status EXCEPT ![d] = "OFFLINE"]
    /\ outages' = IF status[d] = "OFFLINE" THEN outages ELSE [outages EXCEPT ![d] = @ + 1]
    /\ UNCHANGED <<bounds, lastHeartbeat, rows, handler, detector, events, handed, strays>>

\* DELETE /devices/:id ends the assignment and deletes the history of the device;
\* its status and heartbeat stay.  Who may claim it next is the matter of module
\* DeviceOwnership.
Unclaim(d) ==
    /\ d \in claimed
    /\ claimed' = claimed \ {d}
    /\ telemetry' = {r \in telemetry : r.device # d}
    /\ purged' = [purged EXCEPT ![d] = TRUE]
    /\ UNCHANGED <<bounds, device, handler, detector, events, history>>

Tick ==
    /\ clock < MaxTime
    /\ clock' = clock + 1
    /\ UNCHANGED <<deliveries, failures, device, rows, handler, detector, events, history>>

HandlerStep(h) ==
    \/ \E m \in Message : Deliver(h, m)
    \/ ReadDevice(h)
    \/ Insert(h)
    \/ Commit(h)
    \/ TransactionTimesOut(h)
    \/ LogRecovery(h)
    \/ Finish(h)
    \/ HandlerFails(h)

DetectorStep(i) ==
    \/ Find(i)
    \/ MarkOffline(i)
    \/ \E d \in Device : Announce(i, d)
    \/ DetectorFails(i)

Next ==
    \/ Tick
    \/ \E h \in Handler : HandlerStep(h)
    \/ \E i \in Detector : DetectorStep(i)
    \/ \E d \in Device : SoftDelete(d) \/ Unclaim(d)

Spec == Init /\ [][Next]_vars

\* setInterval keeps starting runs on every live node, an await returns, and
\* time passes.  Nothing makes a device send or the administrator act.
Fairness ==
    /\ WF_vars(Tick)
    /\ \A h \in Handler :
          /\ WF_vars(ReadDevice(h))
          /\ WF_vars(Insert(h))
          /\ WF_vars(Commit(h))
          /\ WF_vars(TransactionTimesOut(h))
          /\ WF_vars(LogRecovery(h))
          /\ WF_vars(Finish(h))
    /\ \A i \in Detector :
          /\ WF_vars(Find(i))
          /\ WF_vars(MarkOffline(i))
          /\ \A d \in Device : WF_vars(Announce(i, d))

FairSpec == Spec /\ Fairness

-----------------------------------------------------------------------------
(* What the pipeline owes its users *)

Readings(d) == {r \in telemetry : r.device = d}

\* lastHeartbeatAt is set by storing a reading only (a dropped or rolled-back message
\* never moves it), and it runs behind what is stored by no more than a transaction
\* lasts: two transactions may write it in the wrong order (392-423).
HeartbeatCoversReadings ==
    \A d \in Device :
        /\ lastHeartbeat[d] # None => purged[d] \/ Readings(d) # {}
        /\ \A r \in Readings(d) : /\ r.time <= r.beat
                                  /\ lastHeartbeat[d] # None
                                  /\ r.beat <= lastHeartbeat[d] + TxTimeout

\* Status and heartbeat of a device that is not OFFLINE come from one and the
\* same reading, whatever handlers and runs overlap.
StatusMatchesHeartbeat ==
    \A d \in Device : status[d] # "OFFLINE" =>
        \/ purged[d]
        \/ \E r \in Readings(d) : r.beat = lastHeartbeat[d] /\ NewStatus(r) = status[d]

\* Whatever a run is about to turn OFFLINE is on the list it announces, although
\* list and update are two queries (110-130): no outage is marked in silence.
MarkedAreListed ==
    \A i \in Detector : dpc[i] = "found" => Overdue(cutoff[i]) \subseteq dead[i]

\* Only a silent or a deleted device becomes OFFLINE: a heartbeat that arrives
\* between the list and the update saves the device (where clause, 121-126).
OfflineOnlyWhenSilent ==
    [][\A d \in Device : status[d] # "OFFLINE" /\ status'[d] = "OFFLINE" =>
          isDeleted(d)' \/ clock - lastHeartbeat[d] > Timeout]_vars

\* After a deletion each handler stores at most the one reading it was already
\* past the isDeleted check with (238): a deletion does end the intake.
DeletionStopsIntake ==
    \A d \in Device : isDeleted(d) =>
        Cardinality({r \in Readings(d) : r.beat > deletedAt[d]}) <= Cardinality(Handler)

\* On a database with the index of migration 0_init a message is stored once, however
\* often the broker delivers it.  On one without it (schema.prisma, or after the manual
\* script) a redelivery is stored again, but no delivery is stored more than once:
\* rolled back, timed out, failed and overlapping handlers included (390-457).
IngestedOnce ==
    \A d \in Device, m \in MessageId :
        Cardinality({r \in Readings(d) : r.id = m})
            <= IF MessageIndex THEN 1 ELSE handed[<<d, m>>]

\* Every OFFLINE event is paid for by an outage, or by a run that listed the device,
\* marked others but not it, and announced its whole list (110-144): on a fleet of two
\* a device can be announced twice or without being OFFLINE, but no more often than so.
AnnouncedAreMarked == \A d \in Device : offlineEvents[d] <= outages[d] + strays[d]

\* What docs/telemetry-architecture.md ("Cluster Safety") says of the updateMany: an
\* outage is broadcast once, however many nodes run the detector.  The code looks only
\* at the count of the rows it has changed (132-144), so this is not so.
OutageLoggedOnce == \A d \in Device : offlineEvents[d] <= outages[d]

Silent(d) ==
    /\ ~isDeleted(d)
    /\ status[d] # "OFFLINE"
    /\ clock - lastHeartbeat[d] > Timeout

\* A device that falls silent is turned OFFLINE (or was heard or deleted first),
\* also when it was only WARNING.
SilentGoesOffline == \A d \in Device : Silent(d) ~> ~Silent(d)

\* Every outage of a claimed device is logged, unless the device was deleted or
\* unclaimed or a run died half way: marking and announcing are not one
\* transaction (121-199).
OutageIsLogged ==
    \A d \in Claimed :
        outages[d] > offlineEvents[d] ~>
            \/ outages[d] <= offlineEvents[d]
            \/ isDeleted(d) \/ d \notin claimed
            \/ failures > 0
=============================================================================
