------------------------ MODULE DevicePipelineProofs ------------------------
(***************************************************************************)
(* What holds of the pipeline for every fleet, every number of handlers and*)
(* detector runs, every timeout and every bound.                           *)
(***************************************************************************)
EXTENDS DevicePipeline, FiniteSetTheorems, TLAPS

-----------------------------------------------------------------------------
(* Type correctness *)

\* The payload a handler works on yields a status and, once it has passed the
\* messageId check, a well-formed reading.
LEMMA PayloadTypes ==
    ASSUME TypeOK, NEW m \in Message
    PROVE  /\ NewStatus(m) \in {"ONLINE", "WARNING"}
           /\ m.device \in Device
           /\ m.id # None => NewRow(m) \in Row
  BY DEF TypeOK, Message, NewStatus, NewRow, Row

\* A row becomes a well-formed reading when its transaction commits.
LEMMA StoredTypes ==
    ASSUME NEW r \in Row, NEW t \in Nat
    PROVE  /\ Stored(r, t) \in Reading
           /\ Stored(r, t).device = r.device
           /\ Stored(r, t).id = r.id
           /\ Stored(r, t).time = r.time
           /\ Stored(r, t).beat = t
           /\ NewStatus(Stored(r, t)) = NewStatus(r)
  BY DEF Row, Reading, Stored, NewStatus

\* What a commit writes besides the status, and when it sent its update.
LEMMA CommitTime ==
    ASSUME TypeOK, NEW h \in Handler, Commit(h)
    PROVE  \E t \in Nat :
               /\ hrow[h].time <= t /\ t <= clock
               /\ clock <= hrow[h].time + TxTimeout
               /\ telemetry' = telemetry \cup {Stored(hrow[h], t)}
               /\ lastHeartbeat' = [lastHeartbeat EXCEPT ![hmsg[h].device] = t]
<1>1. hrow[h] \in Row /\ clock \in Nat
  BY DEF TypeOK, Commit
<1>2. hrow[h].time \in Nat
  BY <1>1 DEF Row
<1>3. PICK t \in hrow[h].time..clock :
          /\ clock <= hrow[h].time + TxTimeout
          /\ telemetry' = telemetry \cup {Stored(hrow[h], t)}
          /\ lastHeartbeat' = [lastHeartbeat EXCEPT ![hmsg[h].device] = t]
  BY DEF Commit
<1>4. t \in Nat /\ hrow[h].time <= t /\ t <= clock
  BY <1>1, <1>2
<1>5. QED
  BY <1>3, <1>4

\* Type correctness of the initial state (prisma's defaults for Device).
LEMMA TypeInit == Init => TypeOK
  BY PipelineAssumption DEF Init, TypeOK, Status, HandlerPC, DetectorPC

\* A handler that ends leaves the handler variables well typed.
LEMMA TypeHandlerDone ==
    ASSUME TypeOK, NEW h \in Handler, HandlerDone(h)
    PROVE  /\ hpc' \in [Handler -> HandlerPC]
           /\ hmsg' \in [Handler -> Message \cup {None}]
           /\ \A g \in Handler : hpc'[g] # "idle" => hmsg'[g] \in Message
           /\ \A g \in Handler : hpc'[g] = "validated" => hmsg'[g].id # None
           /\ hseen' \in [Handler -> Status]
           /\ hrow' \in [Handler -> Row \cup {None}]
           /\ \A g \in Handler : hpc'[g] = "inserted" => hrow'[g] \in Row
  BY DEF TypeOK, HandlerDone, HandlerPC, Status

\* A run that ends leaves the detector variables well typed.
LEMMA TypeDetectorDone ==
    ASSUME TypeOK, NEW i \in Detector, DetectorDone(i)
    PROVE  /\ dpc' \in [Detector -> DetectorPC]
           /\ cutoff' \in [Detector -> Int]
           /\ dead' \in [Detector -> SUBSET Device]
  BY DEF TypeOK, DetectorDone, DetectorPC

\* Every step of a handler keeps the types.
LEMMA TypeHandlerStep ==
    ASSUME TypeOK, NEW h \in Handler, HandlerStep(h)
    PROVE  TypeOK'
<1>1. ASSUME NEW m \in Message, Deliver(h, m)
      PROVE  TypeOK'
  <2>1. m.device \in Device /\ m.id \in MessageId \cup {None}
    BY DEF Message
  <2>2. handed' \in [Device \X MessageId -> Nat]
    BY <1>1, <2>1 DEF TypeOK, Deliver
  <2>3. QED
    BY <1>1, <2>2 DEF TypeOK, Deliver, HandlerPC, device, detector, events, rows
<1>2. ASSUME ReadDevice(h)
      PROVE  TypeOK'
  <2>1. hmsg[h] \in Message
    BY <1>2 DEF TypeOK, ReadDevice
  <2>2. CASE isDeleted(hmsg[h].device) \/ hmsg[h].id = None
    <3>1. HandlerDone(h)
      BY <1>2, <2>2 DEF ReadDevice
    <3>2. QED
      BY <1>2, <3>1, TypeHandlerDone
      DEF TypeOK, ReadDevice, bounds, device, detector, events, rows, history
  <2>3. CASE ~(isDeleted(hmsg[h].device) \/ hmsg[h].id = None)
    BY <1>2, <2>1, <2>3
    DEF TypeOK, ReadDevice, HandlerPC, Message, bounds, device, detector, events, rows, history
  <2>4. QED
    BY <2>2, <2>3
<1>3. ASSUME Insert(h)
      PROVE  TypeOK'
  <2>1. hmsg[h] \in Message /\ hmsg[h].id # None
    BY <1>3 DEF TypeOK, Insert
  <2>2. CASE HandlerDone(h)
    BY <1>3, <2>2, TypeHandlerDone
    DEF TypeOK, Insert, bounds, device, detector, events, rows, history
  <2>3. CASE ~HandlerDone(h)
    <3>1. NewRow(hmsg[h]) \in Row
      BY <2>1, PayloadTypes
    <3>2. /\ hpc' = [hpc EXCEPT ![h] = "inserted"]
          /\ hrow' = [hrow EXCEPT ![h] = NewRow(hmsg[h])]
          /\ UNCHANGED <<hmsg, hseen, bounds, device, rows, detector, events, history>>
      BY <1>3, <2>3 DEF Insert
    <3>3. QED
      BY <2>1, <3>1, <3>2 DEF TypeOK, HandlerPC, bounds, device, detector, events, rows, history
  <2>4. QED
    BY <2>2, <2>3
<1>8. ASSUME Commit(h)
      PROVE  TypeOK'
  <2>1. hmsg[h] \in Message /\ hrow[h] \in Row
    BY <1>8 DEF TypeOK, Commit
  <2>5. PICK t \in Nat :
            /\ telemetry' = telemetry \cup {Stored(hrow[h], t)}
            /\ lastHeartbeat' = [lastHeartbeat EXCEPT ![hmsg[h].device] = t]
    BY <1>8, CommitTime
  <2>2. telemetry' \subseteq Reading
    BY <2>1, <2>5, StoredTypes DEF TypeOK
  <2>3. /\ status' \in [Device -> Status]
        /\ lastHeartbeat' \in [Device -> Nat \cup {None}]
    BY <1>8, <2>1, <2>5, PayloadTypes DEF TypeOK, Commit, Status
  <2>4. QED
    BY <1>8, <2>1, <2>2, <2>3 DEF TypeOK, Commit, HandlerPC, bounds, detector, events, rows, history
<1>4. ASSUME LogRecovery(h)
      PROVE  TypeOK'
  <2>1. hmsg[h] \in Message /\ hmsg[h].device \in Device
    BY <1>4 DEF TypeOK, LogRecovery, Message
  <2>2. lastEvent' \in [Device -> {None, "ONLINE", "OFFLINE"}]
    BY <1>4, <2>1 DEF TypeOK, LogRecovery
  <2>3. QED
    BY <1>4, <2>2
    DEF TypeOK, LogRecovery, HandlerPC, bounds, device, detector, rows, history
<1>5. ASSUME Finish(h)
      PROVE  TypeOK'
  BY <1>5, TypeHandlerDone DEF TypeOK, Finish, bounds, device, detector, events, rows, history
<1>6. ASSUME HandlerFails(h)
      PROVE  TypeOK'
  BY <1>6, TypeHandlerDone DEF TypeOK, HandlerFails, device, detector, events, rows, history
<1>9. ASSUME TransactionTimesOut(h)
      PROVE  TypeOK'
  BY <1>9, TypeHandlerDone
  DEF TypeOK, TransactionTimesOut, bounds, device, detector, events, rows, history
<1>7. QED
  BY <1>1, <1>2, <1>3, <1>8, <1>9, <1>4, <1>5, <1>6 DEF HandlerStep

\* Every step of a detector run keeps the types.
LEMMA TypeDetectorStep ==
    ASSUME TypeOK, NEW i \in Detector, DetectorStep(i)
    PROVE  TypeOK'
<1>1. ASSUME Find(i)
      PROVE  TypeOK'
  <2>1. clock - Timeout \in Int /\ Overdue(clock - Timeout) \subseteq Device
    BY PipelineAssumption DEF TypeOK, Overdue
  <2>2. QED
    BY <1>1, <2>1 DEF TypeOK, Find, DetectorPC, bounds, device, handler, events, rows, history
<1>2. ASSUME MarkOffline(i)
      PROVE  TypeOK'
  <2>1. /\ status' \in [Device -> Status]
        /\ outages' \in [Device -> Nat]
        /\ strays' \in [Device -> Nat]
    BY <1>2 DEF TypeOK, MarkOffline, Mark, Status
  <2>2. CASE Overdue(cutoff[i]) = {}
    <3>1. DetectorDone(i)
      BY <1>2, <2>2 DEF MarkOffline, Mark
    <3>2. QED
      BY <1>2, <2>1, <3>1, TypeDetectorDone DEF TypeOK, MarkOffline, Mark, bounds, handler,
         events, rows, history
  <2>3. CASE Overdue(cutoff[i]) # {}
    BY <1>2, <2>1, <2>3
    DEF TypeOK, MarkOffline, Mark, DetectorPC, bounds, handler, events, rows, history
  <2>4. QED
    BY <2>2, <2>3
<1>3. ASSUME NEW d \in Device, Announce(i, d)
      PROVE  TypeOK'
  <2>1. /\ lastEvent' \in [Device -> {None, "ONLINE", "OFFLINE"}]
        /\ offlineEvents' \in [Device -> Nat]
    BY <1>3 DEF TypeOK, Announce, events, rows, history
  <2>2. CASE dead[i] = {d}
    <3>1. DetectorDone(i)
      BY <1>3, <2>2 DEF Announce
    <3>2. QED
      BY <1>3, <2>1, <3>1, TypeDetectorDone
      DEF TypeOK, Announce, bounds, device, handler, rows, history
  <2>3. CASE dead[i] # {d}
    BY <1>3, <2>1, <2>3 DEF TypeOK, Announce, bounds, device, handler, rows, history
  <2>4. QED
    BY <2>2, <2>3
<1>4. ASSUME DetectorFails(i)
      PROVE  TypeOK'
  BY <1>4, TypeDetectorDone DEF TypeOK, DetectorFails, device, handler, events, rows, history
<1>5. QED
  BY <1>1, <1>2, <1>3, <1>4 DEF DetectorStep

\* The clock, the administrator and the owner keep the types.
LEMMA TypeEnvironment ==
    ASSUME TypeOK, Tick \/ \E d \in Device : SoftDelete(d) \/ Unclaim(d)
    PROVE  TypeOK'
<1>1. CASE Tick
  BY <1>1 DEF TypeOK, Tick, device, handler, detector, events, rows, history
<1>2. ASSUME NEW d \in Device, SoftDelete(d)
      PROVE  TypeOK'
  BY <1>2 DEF TypeOK, SoftDelete, Status, bounds, handler, detector, events, rows, history
<1>3. ASSUME NEW d \in Device, Unclaim(d)
      PROVE  TypeOK'
  BY <1>3 DEF TypeOK, Unclaim, bounds, device, handler, detector, events, history
<1>4. QED
  BY <1>1, <1>2, <1>3

\* Every step keeps the types.
LEMMA TypeNext == TypeOK /\ [Next]_vars => TypeOK'
<1> SUFFICES ASSUME TypeOK, [Next]_vars
             PROVE  TypeOK'
  OBVIOUS
<1>1. CASE UNCHANGED vars
  BY <1>1 DEF TypeOK, vars, bounds, device, handler, detector, events, rows, history
<1>2. CASE Next
  BY <1>2, TypeHandlerStep, TypeDetectorStep, TypeEnvironment DEF Next
<1>3. QED
  BY <1>1, <1>2

\* The pipeline is type correct.
THEOREM TypeCorrect == Spec => []TypeOK
  BY TypeInit, TypeNext, PTL DEF Spec

-----------------------------------------------------------------------------
(* The inductive invariant *)

\* The strengthening: nothing stored or computed lies in the future, and an open
\* transaction's row belongs to its handler's message.  A heartbeat written now is
\* therefore at most a transaction's time behind any other, and never before the
\* cutoff of a run that has already started.
OpenRow(h) ==
    hpc[h] = "inserted" =>
        /\ hrow[h].time <= clock
        /\ hrow[h].device = hmsg[h].device
        /\ hrow[h].id = hmsg[h].id
        /\ hrow[h].complete = hmsg[h].complete

NothingAhead ==
    /\ \A r \in telemetry : r.beat <= clock
    /\ \A h \in Handler : OpenRow(h)
    /\ \A i \in Detector : dpc[i] = "found" => cutoff[i] <= clock - Timeout

PipelineInv ==
    /\ TypeOK
    /\ NothingAhead
    /\ HeartbeatCoversReadings
    /\ StatusMatchesHeartbeat
    /\ MarkedAreListed

\* The empty tables satisfy the invariant.
LEMMA InvInit == Init => PipelineInv
<1> SUFFICES ASSUME Init
             PROVE  PipelineInv
  OBVIOUS
<1>1. TypeOK
  BY TypeInit
<1>2. NothingAhead
  BY DEF Init, NothingAhead, OpenRow
<1>3. HeartbeatCoversReadings
  BY DEF Init, HeartbeatCoversReadings, Readings
<1>4. StatusMatchesHeartbeat
  BY DEF Init, StatusMatchesHeartbeat
<1>5. MarkedAreListed
  BY DEF Init, MarkedAreListed
<1>6. QED
  BY <1>1, <1>2, <1>3, <1>4, <1>5 DEF PipelineInv

\* A transaction that commits keeps the invariant: its heartbeat is recent, and no run that
\* has found its list can still overlook the device.
LEMMA InvCommit ==
    ASSUME PipelineInv, TypeOK', NEW h \in Handler, Commit(h)
    PROVE  PipelineInv'
<1> DEFINE m == hmsg[h]
<1>0. PICK t \in Nat :
          /\ hrow[h].time <= t /\ t <= clock
          /\ clock <= hrow[h].time + TxTimeout
          /\ telemetry' = telemetry \cup {Stored(hrow[h], t)}
          /\ lastHeartbeat' = [lastHeartbeat EXCEPT ![m.device] = t]
  BY CommitTime DEF PipelineInv
<1> DEFINE r == Stored(hrow[h], t)
<1>1. m \in Message /\ m.device \in Device /\ hrow[h] \in Row /\ hrow[h].time \in Nat
  BY PayloadTypes DEF PipelineInv, TypeOK, Commit, Message, Row
<1>2. /\ telemetry' = telemetry \cup {r}
      /\ lastHeartbeat' = [lastHeartbeat EXCEPT ![m.device] = t]
      /\ status' = [status EXCEPT ![m.device] = NewStatus(m)]
      /\ \A d \in Device : d # m.device => purged'[d] = purged[d]
      /\ hpc'[h] # "inserted"
      /\ \A g \in Handler : g # h => hpc'[g] = hpc[g] /\ hrow'[g] = hrow[g]
      /\ UNCHANGED <<deletedAt, clock, hmsg, dpc, cutoff, dead>>
  BY <1>0 DEF Commit, bounds, detector, PipelineInv, TypeOK
<1>3. /\ clock \in Nat /\ t # None
      /\ Timeout \in Nat /\ TxTimeout \in Nat /\ TxTimeout <= Timeout
      /\ t <= clock /\ clock <= t + TxTimeout
  BY <1>0, <1>1, PipelineAssumption DEF PipelineInv, TypeOK
<1>4. /\ r.device = m.device /\ r.time <= r.beat /\ r.beat = t
      /\ NewStatus(r) = NewStatus(m) /\ NewStatus(m) # "OFFLINE"
  <2>1. hrow[h].device = m.device /\ hrow[h].complete = m.complete
    BY DEF Commit, PipelineInv, NothingAhead, OpenRow
  <2>2. NewStatus(hrow[h]) = NewStatus(m) /\ NewStatus(m) # "OFFLINE"
    BY <2>1 DEF NewStatus
  <2>3. QED
    BY <1>0, <1>1, <2>1, <2>2, StoredTypes
<1>5. NothingAhead'
  BY <1>2, <1>3, <1>4 DEF PipelineInv, NothingAhead, OpenRow
<1>6. ASSUME NEW d \in Device, d = m.device
      PROVE  lastHeartbeat'[d] = t /\ status'[d] = NewStatus(m) /\ r \in Readings(d)'
  <2>1. lastHeartbeat'[d] = t /\ status'[d] = NewStatus(m)
    BY <1>2, <1>6 DEF PipelineInv, TypeOK
  <2>2. r \in Readings(d)'
    BY <1>2, <1>4, <1>6 DEF Readings
  <2>3. QED
    BY <2>1, <2>2
<1>7. ASSUME NEW d \in Device, d # m.device
      PROVE  /\ UNCHANGED <<lastHeartbeat[d], status[d], purged[d]>>
             /\ Readings(d)' = Readings(d)
  <2>1. UNCHANGED <<lastHeartbeat[d], status[d], purged[d]>>
    BY <1>2, <1>7 DEF PipelineInv, TypeOK
  <2>2. Readings(d)' = Readings(d)
    BY <1>2, <1>4, <1>7 DEF Readings
  <2>3. QED
    BY <2>1, <2>2
<1>8. HeartbeatCoversReadings'
  <2> SUFFICES ASSUME NEW d \in Device
               PROVE  (/\ lastHeartbeat[d] # None => purged[d] \/ Readings(d) # {}
                       /\ \A q \in Readings(d) :
                             /\ lastHeartbeat[d] # None
                             /\ q.time <= q.beat
                             /\ q.beat <= lastHeartbeat[d] + TxTimeout)'
    BY DEF HeartbeatCoversReadings
  <2>1. CASE d = m.device
    <3>1. \A q \in Readings(d)' :
              q.beat \in Nat /\ q.time <= q.beat /\ q.beat <= clock
      BY <1>2, <1>3, <1>4 DEF Readings, PipelineInv, NothingAhead, HeartbeatCoversReadings,
         TypeOK, Reading
    <3>2. QED
      BY <1>3, <1>6, <2>1, <3>1
  <2>2. CASE d # m.device
    BY <1>7, <2>2 DEF PipelineInv, HeartbeatCoversReadings
  <2>3. QED
    BY <2>1, <2>2
<1>9. StatusMatchesHeartbeat'
  <2> SUFFICES ASSUME NEW d \in Device, status'[d] # "OFFLINE"
               PROVE  \/ purged'[d]
                      \/ \E q \in Readings(d)' :
                            q.beat = lastHeartbeat'[d] /\ NewStatus(q) = status'[d]
    BY DEF StatusMatchesHeartbeat, NewStatus
  <2>1. CASE d = m.device
    BY <1>4, <1>6, <2>1
  <2>2. CASE d # m.device
    BY <1>7, <2>2 DEF PipelineInv, StatusMatchesHeartbeat
  <2>3. QED
    BY <2>1, <2>2
<1>10. MarkedAreListed'
  <2> SUFFICES ASSUME NEW i \in Detector, dpc[i] = "found",
                      NEW d \in Overdue(cutoff[i])'
               PROVE  d \in dead[i]
    BY <1>2 DEF MarkedAreListed
  <2>1. cutoff[i] \in Int /\ cutoff[i] <= t
    BY <1>3 DEF PipelineInv, TypeOK, NothingAhead
  <2>2. d # m.device
    BY <1>2, <1>3, <2>1 DEF Overdue, PipelineInv, TypeOK
  <2>3. d \in Overdue(cutoff[i])
    BY <1>2, <2>2 DEF Overdue, isDeleted, PipelineInv, TypeOK
  <2>4. QED
    BY <2>3 DEF PipelineInv, MarkedAreListed
<1>11. QED
  BY <1>5, <1>8, <1>9, <1>10 DEF PipelineInv

\* Steps that leave clock, device, readings and detector runs alone, whatever a
\* handler does, as long as it opens its transaction with a row of its message.
LEMMA InvElsewhere ==
    ASSUME PipelineInv, TypeOK', UNCHANGED <<clock, device, rows, detector>>,
           \A h \in Handler : OpenRow(h)'
    PROVE  PipelineInv'
  BY DEF PipelineInv, NothingAhead, HeartbeatCoversReadings, Readings, device, rows, detector,
         StatusMatchesHeartbeat, MarkedAreListed, Overdue, isDeleted

\* The steps of a handler other than the commit keep the invariant.
LEMMA InvHandlerStep ==
    ASSUME PipelineInv, TypeOK', NEW h \in Handler, HandlerStep(h), ~Commit(h)
    PROVE  PipelineInv'
<1>1. UNCHANGED <<clock, device, rows, detector>>
  BY DEF HandlerStep, Deliver, ReadDevice, Insert, TransactionTimesOut, LogRecovery, Finish,
     HandlerFails, bounds
<1>2. ASSUME NEW g \in Handler, g # h
      PROVE  OpenRow(g)'
  <2>1. UNCHANGED <<hpc[g], hmsg[g], hrow[g]>>
    BY <1>2 DEF HandlerStep, Deliver, ReadDevice, Insert, TransactionTimesOut, LogRecovery,
       Finish, HandlerFails,
                HandlerDone, PipelineInv, TypeOK
  <2>2. QED
    BY <1>1, <2>1 DEF PipelineInv, NothingAhead, OpenRow
<1>3. OpenRow(h)'
  <2>1. CASE hpc'[h] = "inserted"
    <3>1. Insert(h) /\ ~HandlerDone(h)
      BY <2>1 DEF HandlerStep, Deliver, ReadDevice, Insert, TransactionTimesOut, LogRecovery,
         Finish, HandlerFails,
                  HandlerDone, PipelineInv, TypeOK
    <3>2. hmsg'[h] = hmsg[h] /\ hrow'[h] = NewRow(hmsg[h]) /\ clock' = clock
      BY <1>1, <3>1 DEF Insert, PipelineInv, TypeOK
    <3>3. clock \in Nat
      BY DEF PipelineInv, TypeOK
    <3>4. QED
      BY <3>2, <3>3 DEF OpenRow, NewRow
  <2>2. CASE hpc'[h] # "inserted"
    BY <2>2 DEF OpenRow
  <2>3. QED
    BY <2>1, <2>2
<1>4. QED
  BY <1>1, <1>2, <1>3, InvElsewhere

\* Steps that end a run or shorten its list without touching a device.
LEMMA InvDetectorOnly ==
    ASSUME PipelineInv, TypeOK', UNCHANGED <<clock, device, rows, handler>>,
           \A i \in Detector : dpc'[i] = "found" =>
               dpc[i] = "found" /\ UNCHANGED <<cutoff[i], dead[i]>>
    PROVE  PipelineInv'
<1>1. NothingAhead'
  BY DEF PipelineInv, NothingAhead, OpenRow, handler, rows
<1>2. HeartbeatCoversReadings' /\ StatusMatchesHeartbeat'
  BY DEF PipelineInv, HeartbeatCoversReadings, StatusMatchesHeartbeat, Readings, device, rows
<1>3. MarkedAreListed'
  BY DEF PipelineInv, MarkedAreListed, Overdue, isDeleted, device
<1>4. QED
  BY <1>1, <1>2, <1>3 DEF PipelineInv

\* Every step of a detector run keeps the invariant.
LEMMA InvDetectorStep ==
    ASSUME PipelineInv, TypeOK', NEW i \in Detector, DetectorStep(i)
    PROVE  PipelineInv'
<1>1. ASSUME Find(i)
      PROVE  PipelineInv'
  <2>1. UNCHANGED <<clock, device, rows, handler>>
    BY <1>1 DEF Find, bounds
  <2>2. clock \in Nat /\ Timeout \in Nat
    BY PipelineAssumption DEF PipelineInv, TypeOK
  <2>3. NothingAhead'
    BY <1>1, <2>1, <2>2 DEF PipelineInv, NothingAhead, OpenRow, Find, TypeOK, handler, rows
  <2>4. HeartbeatCoversReadings' /\ StatusMatchesHeartbeat'
    BY <2>1 DEF PipelineInv, HeartbeatCoversReadings, StatusMatchesHeartbeat,
                Readings, device, rows
  <2>5. MarkedAreListed'
    BY <1>1, <2>1 DEF PipelineInv, TypeOK, MarkedAreListed, Find, Overdue, isDeleted, device
  <2>6. QED
    BY <2>3, <2>4, <2>5 DEF PipelineInv
<1>2. ASSUME MarkOffline(i)
      PROVE  PipelineInv'
  <2>1. UNCHANGED <<clock, lastHeartbeat, deletedAt, rows, handler>>
    BY <1>2 DEF MarkOffline, Mark, bounds
  <2>2. \A d \in Device : status'[d] # "OFFLINE" => status'[d] = status[d]
    BY <1>2 DEF MarkOffline, Mark
  <2>3. \A j \in Detector : dpc'[j] = "found" =>
            dpc[j] = "found" /\ UNCHANGED <<cutoff[j], dead[j]>>
    BY <1>2 DEF MarkOffline, Mark, DetectorDone, PipelineInv, TypeOK
  <2>4. NothingAhead'
    BY <2>1, <2>3 DEF PipelineInv, NothingAhead, OpenRow, handler, rows
  <2>5. HeartbeatCoversReadings' /\ StatusMatchesHeartbeat'
    BY <2>1, <2>2 DEF PipelineInv, HeartbeatCoversReadings, StatusMatchesHeartbeat, Readings,
           rows
  <2>6. MarkedAreListed'
    BY <2>1, <2>2, <2>3 DEF PipelineInv, MarkedAreListed, Overdue, isDeleted
  <2>7. QED
    BY <2>4, <2>5, <2>6 DEF PipelineInv
<1>3. ASSUME NEW d \in Device, Announce(i, d)
      PROVE  PipelineInv'
  <2>1. UNCHANGED <<clock, device, rows, handler>>
    BY <1>3 DEF Announce, bounds
  <2>2. \A j \in Detector : dpc'[j] = "found" =>
            dpc[j] = "found" /\ UNCHANGED <<cutoff[j], dead[j]>>
    BY <1>3 DEF Announce, DetectorDone, PipelineInv, TypeOK
  <2>3. QED
    BY <2>1, <2>2, InvDetectorOnly
<1>4. ASSUME DetectorFails(i)
      PROVE  PipelineInv'
  <2>1. UNCHANGED <<clock, device, rows, handler>>
    BY <1>4 DEF DetectorFails
  <2>2. \A j \in Detector : dpc'[j] = "found" =>
            dpc[j] = "found" /\ UNCHANGED <<cutoff[j], dead[j]>>
    BY <1>4 DEF DetectorFails, DetectorDone, PipelineInv, TypeOK
  <2>3. QED
    BY <2>1, <2>2, InvDetectorOnly
<1>5. QED
  BY <1>1, <1>2, <1>3, <1>4 DEF DetectorStep

\* The clock, the administrator and the owner keep the invariant.
LEMMA InvEnvironment ==
    ASSUME PipelineInv, TypeOK', Tick \/ \E d \in Device : SoftDelete(d) \/ Unclaim(d)
    PROVE  PipelineInv'
<1>1. CASE Tick
  <2>1. clock' = clock + 1 /\ UNCHANGED <<device, rows, handler, detector>>
    BY <1>1 DEF Tick
  <2>2. clock \in Nat /\ Timeout \in Nat /\ \A r \in telemetry : r.beat \in Nat
    BY PipelineAssumption DEF PipelineInv, TypeOK, Reading
  <2>3. ASSUME NEW h \in Handler
        PROVE  OpenRow(h)'
    BY <2>1, <2>2 DEF PipelineInv, NothingAhead, OpenRow, TypeOK, Row, handler
  <2>6. NothingAhead'
    BY <2>1, <2>2, <2>3 DEF PipelineInv, NothingAhead, TypeOK, detector, rows
  <2>4. HeartbeatCoversReadings' /\ StatusMatchesHeartbeat' /\ MarkedAreListed'
    BY <2>1 DEF PipelineInv, HeartbeatCoversReadings, StatusMatchesHeartbeat, Readings,
                MarkedAreListed, Overdue, isDeleted, device, detector, rows
  <2>5. QED
    BY <2>6, <2>4 DEF PipelineInv
<1>2. ASSUME NEW d \in Device, SoftDelete(d)
      PROVE  PipelineInv'
  <2>1. UNCHANGED <<clock, lastHeartbeat, rows, handler, dpc, cutoff, dead>>
    BY <1>2 DEF SoftDelete, bounds, detector
  <2>2. \A e \in Device : status'[e] # "OFFLINE" => status'[e] = status[e]
    BY <1>2 DEF SoftDelete, PipelineInv, TypeOK
  <2>3. \A e \in Device : isDeleted(e) => isDeleted(e)'
    BY <1>2, PipelineAssumption DEF SoftDelete, PipelineInv, TypeOK, isDeleted
  <2>4. NothingAhead'
    BY <2>1 DEF PipelineInv, NothingAhead, OpenRow, handler, rows
  <2>5. HeartbeatCoversReadings' /\ StatusMatchesHeartbeat'
    BY <2>1, <2>2 DEF PipelineInv, HeartbeatCoversReadings, StatusMatchesHeartbeat, Readings,
           rows
  <2>6. MarkedAreListed'
    BY <2>1, <2>2, <2>3 DEF PipelineInv, MarkedAreListed, Overdue
  <2>7. QED
    BY <2>4, <2>5, <2>6 DEF PipelineInv
<1>3. ASSUME NEW d \in Device, Unclaim(d)
      PROVE  PipelineInv'
  <2>1. /\ UNCHANGED <<clock, device, handler, detector>>
        /\ telemetry' \subseteq telemetry
        /\ purged'[d]
    BY <1>3 DEF Unclaim, bounds, PipelineInv, TypeOK
  <2>2. \A e \in Device : e # d => purged'[e] = purged[e] /\ Readings(e)' = Readings(e)
    BY <1>3 DEF Unclaim, Readings, PipelineInv, TypeOK
  <2>3. NothingAhead'
    BY <2>1 DEF PipelineInv, NothingAhead, OpenRow, handler, detector
  <2>4. HeartbeatCoversReadings'
    BY <2>1, <2>2 DEF PipelineInv, HeartbeatCoversReadings, Readings, device
  <2>5. StatusMatchesHeartbeat'
    BY <2>1, <2>2 DEF PipelineInv, StatusMatchesHeartbeat, device
  <2>6. MarkedAreListed'
    BY <2>1 DEF PipelineInv, MarkedAreListed, Overdue, isDeleted, device, detector
  <2>7. QED
    BY <2>3, <2>4, <2>5, <2>6 DEF PipelineInv
<1>4. QED
  BY <1>1, <1>2, <1>3

\* Every step keeps the invariant.
LEMMA InvNext == PipelineInv /\ [Next]_vars => PipelineInv'
<1> SUFFICES ASSUME PipelineInv, [Next]_vars
             PROVE  PipelineInv'
  OBVIOUS
<1>1. TypeOK'
  BY TypeNext DEF PipelineInv
<1>2. CASE UNCHANGED vars
  BY <1>1, <1>2, InvElsewhere DEF vars, bounds, handler, PipelineInv, NothingAhead, OpenRow
<1>3. ASSUME NEW h \in Handler, HandlerStep(h)
      PROVE  PipelineInv'
  BY <1>1, <1>3, InvCommit, InvHandlerStep
<1>4. QED
  BY <1>1, <1>2, <1>3, InvDetectorStep, InvEnvironment DEF Next

\* The inductive invariant holds of the pipeline.
THEOREM PipelineInvariant == Spec => []PipelineInv
  BY InvInit, InvNext, PTL DEF Spec

\* lastHeartbeatAt is never behind a stored reading, and only a stored reading sets it.
THEOREM HeartbeatCorrect == Spec => []HeartbeatCoversReadings
  BY PipelineInvariant, PTL DEF PipelineInv

\* A device that is not OFFLINE shows the state of the reading that set its heartbeat.
THEOREM StatusCorrect == Spec => []StatusMatchesHeartbeat
  BY PipelineInvariant, PTL DEF PipelineInv

\* No detector run marks a device that it does not go on to announce.
THEOREM NoSilentOutage == Spec => []MarkedAreListed
  BY PipelineInvariant, PTL DEF PipelineInv

-----------------------------------------------------------------------------
(* The action property and idempotent ingestion *)

\* The step formula of OfflineOnlyWhenSilent.
SilentStep ==
    \A d \in Device : status[d] # "OFFLINE" /\ status'[d] = "OFFLINE" =>
        isDeleted(d)' \/ clock - lastHeartbeat[d] > Timeout

\* Under the invariant no step turns a device OFFLINE that is neither silent nor
\* being deleted: the update's own where clause protects a late heartbeat.
LEMMA SilentNext == PipelineInv /\ [Next]_vars => [SilentStep]_vars
<1> SUFFICES ASSUME PipelineInv, Next,
                    NEW d \in Device, status[d] # "OFFLINE", status'[d] = "OFFLINE"
             PROVE  isDeleted(d)' \/ clock - lastHeartbeat[d] > Timeout
  BY DEF SilentStep
<1>1. ASSUME NEW h \in Handler, HandlerStep(h)
      PROVE  FALSE
  <2>1. hmsg[h] \in Message \/ ~Commit(h)
    BY DEF PipelineInv, TypeOK, Commit
  <2>2. status'[d] = status[d] \/ status'[d] \in {"ONLINE", "WARNING"}
    BY <1>1, <2>1, PayloadTypes
    DEF HandlerStep, Deliver, ReadDevice, Insert, Commit, TransactionTimesOut, LogRecovery,
       Finish, HandlerFails,
        device, PipelineInv, TypeOK
  <2>3. QED
    BY <2>2
<1>2. ASSUME NEW i \in Detector, DetectorStep(i)
      PROVE  clock - lastHeartbeat[d] > Timeout
  <2>1. MarkOffline(i)
    BY <1>2 DEF DetectorStep, Find, Announce, DetectorFails, device
  <2>2. d \in Overdue(cutoff[i]) /\ dpc[i] = "found"
    BY <2>1 DEF MarkOffline, Mark
  <2>3. cutoff[i] <= clock - Timeout /\ cutoff[i] \in Int
    BY <2>2 DEF PipelineInv, NothingAhead, TypeOK
  <2>4. lastHeartbeat[d] \in Nat /\ lastHeartbeat[d] < cutoff[i]
    BY <2>2 DEF Overdue, PipelineInv, TypeOK
  <2>5. clock \in Nat /\ Timeout \in Nat
    BY PipelineAssumption DEF PipelineInv, TypeOK
  <2>6. QED
    BY <2>3, <2>4, <2>5
<1>3. CASE Tick
  BY <1>3 DEF Tick, device
<1>4. ASSUME NEW e \in Device, SoftDelete(e)
      PROVE  isDeleted(d)'
  BY <1>4, PipelineAssumption DEF SoftDelete, isDeleted, PipelineInv, TypeOK
<1>5. ASSUME NEW e \in Device, Unclaim(e)
      PROVE  FALSE
  BY <1>5 DEF Unclaim, device
<1>6. QED
  BY <1>1, <1>2, <1>3, <1>4, <1>5 DEF Next

\* Only a silent or a deleted device becomes OFFLINE.
THEOREM OfflineSound == Spec => OfflineOnlyWhenSilent
<1>1. [SilentStep]_vars => [\A d \in Device :
          status[d] # "OFFLINE" /\ status'[d] = "OFFLINE" =>
             isDeleted(d)' \/ clock - lastHeartbeat[d] > Timeout]_vars
  BY DEF SilentStep
<1>2. QED
  BY PipelineInvariant, SilentNext, <1>1, PTL DEF Spec, OfflineOnlyWhenSilent

\* The strengthening: an open transaction's row conflicts with no stored reading
\* and with no other open transaction's row.
RowsKeptApart ==
    \A h \in Handler : hpc[h] = "inserted" =>
        /\ hrow[h] \in Row
        /\ \A r \in telemetry : ~Conflict(hrow[h], r)
        /\ \A g \in Handler : g # h /\ hpc[g] = "inserted" => ~Conflict(hrow[h], hrow[g])

\* ... and no two stored readings are of the same message.
StoredOnce == \A r, q \in telemetry : r.device = q.device /\ r.id = q.id => r = q

IngestInv == TypeOK /\ StoredOnce /\ RowsKeptApart

\* Conflict is symmetric, and with the index it speaks of the message, too.
LEMMA ConflictByMessage ==
    ASSUME MessageIndex, NEW r, NEW q
    PROVE  /\ Conflict(r, q) <=> Conflict(q, r)
           /\ ~Conflict(r, q) => ~(r.device = q.device /\ r.id = q.id)
  BY DEF Conflict, SameTime, SameMessage

\* With the index of the tracked migrations, no step stores a message again.
LEMMA IngestNext ==
    ASSUME MessageIndex
    PROVE  IngestInv /\ [Next]_vars => IngestInv'
<1> SUFFICES ASSUME IngestInv, [Next]_vars
             PROVE  StoredOnce' /\ RowsKeptApart'
  BY TypeNext DEF IngestInv
<1>1. TypeOK /\ TypeOK'
  BY TypeNext DEF IngestInv
<1>2. ASSUME NEW h \in Handler, Insert(h), ~HandlerDone(h)
      PROVE  StoredOnce' /\ RowsKeptApart'
  <2>1. /\ hpc' = [hpc EXCEPT ![h] = "inserted"]
        /\ hrow' = [hrow EXCEPT ![h] = NewRow(hmsg[h])]
        /\ telemetry' = telemetry
        /\ \A q \in telemetry : ~Conflict(NewRow(hmsg[h]), q)
        /\ \A g \in Handler : hpc[g] = "inserted" => ~Conflict(NewRow(hmsg[h]), hrow[g])
    BY <1>2 DEF Insert, rows
  <2>2. /\ hpc'[h] = "inserted" /\ hrow'[h] = NewRow(hmsg[h])
        /\ \A g \in Handler : g # h => hpc'[g] = hpc[g] /\ hrow'[g] = hrow[g]
    BY <1>1, <2>1 DEF TypeOK
  <2>3. hrow'[h] \in Row
    BY <1>1, <2>2 DEF TypeOK
  <2>4. RowsKeptApart'
    BY <2>1, <2>2, <2>3, ConflictByMessage
    DEF IngestInv, RowsKeptApart, Conflict, SameTime, SameMessage
  <2>5. QED
    BY <2>1, <2>4 DEF IngestInv, StoredOnce
<1>3. ASSUME NEW h \in Handler, Commit(h)
      PROVE  StoredOnce' /\ RowsKeptApart'
  <2>0. PICK t \in Nat : telemetry' = telemetry \cup {Stored(hrow[h], t)}
    BY <1>1, <1>3, CommitTime
  <2>1. /\ hpc[h] = "inserted" /\ hrow[h] \in Row
        /\ hpc'[h] # "inserted"
        /\ \A g \in Handler : g # h => hpc'[g] = hpc[g] /\ hrow'[g] = hrow[g]
    BY <1>1, <1>3 DEF Commit, TypeOK
  <2>2. /\ Stored(hrow[h], t).device = hrow[h].device
        /\ Stored(hrow[h], t).id = hrow[h].id
        /\ Stored(hrow[h], t).time = hrow[h].time
    BY <2>1, StoredTypes
  <2>3. \A r \in telemetry : ~(hrow[h].device = r.device /\ hrow[h].id = r.id)
    BY <2>1, ConflictByMessage DEF IngestInv, RowsKeptApart
  <2>4. StoredOnce'
    BY <2>0, <2>1, <2>2, <2>3 DEF IngestInv, StoredOnce
  <2>5. \A g \in Handler : g # h /\ hpc[g] = "inserted" => ~Conflict(hrow[g], Stored(hrow[h], t))
    BY <2>1, <2>2 DEF IngestInv, RowsKeptApart, Conflict, SameTime, SameMessage
  <2>6. RowsKeptApart'
    BY <2>0, <2>1, <2>5 DEF IngestInv, RowsKeptApart, Conflict, SameTime, SameMessage
  <2>7. QED
    BY <2>4, <2>6
<1>4. CASE /\ telemetry' \subseteq telemetry
           /\ \A h \in Handler : hpc'[h] = "inserted" => hpc[h] = "inserted" /\ hrow'[h] = hrow[h]
  BY <1>4 DEF IngestInv, StoredOnce, RowsKeptApart, Conflict, SameTime, SameMessage
<1>5. ASSUME NEW h \in Handler, HandlerStep(h), ~Commit(h), ~Insert(h) \/ HandlerDone(h)
      PROVE  /\ telemetry' \subseteq telemetry
             /\ \A g \in Handler : hpc'[g] = "inserted" => hpc[g] = "inserted" /\ hrow'[g] = hrow[g]
  BY <1>1, <1>5
  DEF HandlerStep, Deliver, ReadDevice, Insert, TransactionTimesOut, LogRecovery, Finish,
     HandlerFails,
      HandlerDone, TypeOK, rows
<1>6. CASE telemetry' \subseteq telemetry /\ UNCHANGED handler
  BY <1>4, <1>6 DEF handler
<1>7. QED
  BY <1>2, <1>3, <1>4, <1>5, <1>6
  DEF Next, DetectorStep, Find, MarkOffline, Mark, Announce, DetectorFails, Tick, SoftDelete,
      Unclaim, rows, vars

\* A set whose members are all equal has at most one.
LEMMA AtMostOne ==
    ASSUME NEW S, \A x, y \in S : x = y
    PROVE  Cardinality(S) \in 0..1
<1>1. CASE S = {}
  BY <1>1, FS_EmptySet
<1>2. ASSUME NEW x \in S
      PROVE  Cardinality(S) = 1
  <2>1. S = {x}
    BY <1>2
  <2>2. QED
    BY <2>1, FS_Singleton
<1>3. QED
  BY <1>1, <1>2

\* One more or one less in a finite set.
LEMMA OneMore ==
    ASSUME NEW S, IsFiniteSet(S), NEW x, NEW T, T \subseteq S \cup {x}
    PROVE  /\ IsFiniteSet(T) /\ Cardinality(T) \in Nat /\ Cardinality(S) \in Nat
           /\ Cardinality(T) <= Cardinality(S) + 1
<1>1. /\ IsFiniteSet(S \cup {x}) /\ Cardinality(S) \in Nat
      /\ Cardinality(S \cup {x}) \in {Cardinality(S), Cardinality(S) + 1}
  BY FS_AddElement, FS_CardinalityType
<1>2. /\ IsFiniteSet(T) /\ Cardinality(T) \in Nat
      /\ Cardinality(T) <= Cardinality(S \cup {x})
  BY <1>1, FS_Subset, FS_CardinalityType
<1>3. QED
  BY <1>1, <1>2

LEMMA OneLess ==
    ASSUME NEW S, IsFiniteSet(S), NEW x \in S, NEW T, T \subseteq S \ {x}
    PROVE  /\ IsFiniteSet(T) /\ Cardinality(T) \in Nat /\ Cardinality(S) \in Nat
           /\ Cardinality(T) <= Cardinality(S) - 1
<1>1. /\ IsFiniteSet(S \ {x}) /\ Cardinality(S) \in Nat
      /\ Cardinality(S \ {x}) = Cardinality(S) - 1
  BY FS_RemoveElement, FS_CardinalityType
<1>2. /\ IsFiniteSet(T) /\ Cardinality(T) \in Nat
      /\ Cardinality(T) <= Cardinality(S \ {x})
  BY <1>1, FS_Subset, FS_CardinalityType
<1>3. QED
  BY <1>1, <1>2

\* The stored readings of a message, ...
Copies(d, m) == {r \in Readings(d) : r.id = m}

\* ... and the handlers that may still store it.
Carriers(d, m) ==
    {h \in Handler : /\ hpc[h] \in {"received", "validated", "inserted"}
                     /\ hmsg[h].device = d
                     /\ hmsg[h].id = m}

\* Every copy, stored or on its way, has a delivery of its own.
CopiesCounted ==
    \A d \in Device, m \in MessageId :
        Cardinality(Copies(d, m)) + Cardinality(Carriers(d, m)) <= handed[<<d, m>>]

CountInv == PipelineInv /\ IsFiniteSet(telemetry) /\ CopiesCounted

\* The table of readings is finite after every step.
LEMMA FiniteNext ==
    ASSUME PipelineInv, IsFiniteSet(telemetry), [Next]_vars
    PROVE  IsFiniteSet(telemetry')
<1>1. \/ telemetry' \subseteq telemetry
      \/ \E s : telemetry' = telemetry \cup {s}
  <2>1. ASSUME NEW h \in Handler, Commit(h)
        PROVE  \E s : telemetry' = telemetry \cup {s}
    BY <2>1, CommitTime DEF PipelineInv
  <2>2. QED
    BY <2>1 DEF Next, vars, rows, Tick, HandlerStep, Deliver, ReadDevice, Insert,
       TransactionTimesOut, LogRecovery, Finish, HandlerFails, DetectorStep, Find, MarkOffline,
       Mark, Announce, DetectorFails, SoftDelete, Unclaim
<1>2. QED
  BY <1>1, FS_Subset, FS_AddElement

LEMMA CountFinite ==
    ASSUME CountInv, NEW d \in Device, NEW m \in MessageId
    PROVE  /\ IsFiniteSet(Copies(d, m)) /\ IsFiniteSet(Carriers(d, m))
           /\ Cardinality(Copies(d, m)) \in Nat /\ Cardinality(Carriers(d, m)) \in Nat
           /\ handed[<<d, m>>] \in Nat
<1>1. Copies(d, m) \subseteq telemetry /\ Carriers(d, m) \subseteq Handler
  BY DEF Copies, Readings, Carriers
<1>2. handed[<<d, m>>] \in Nat
  BY DEF CountInv, PipelineInv, TypeOK
<1>3. QED
  BY <1>1, <1>2, PipelineAssumption, FS_Subset, FS_CardinalityType DEF CountInv

\* A step that hands nothing over, stores nothing and starts no handler on the message.
LEMMA CountShrinks ==
    ASSUME CountInv, NEW d \in Device, NEW m \in MessageId,
           handed'[<<d, m>>] = handed[<<d, m>>],
           Copies(d, m)' \subseteq Copies(d, m), Carriers(d, m)' \subseteq Carriers(d, m)
    PROVE  Cardinality(Copies(d, m))' + Cardinality(Carriers(d, m))' <= handed'[<<d, m>>]
<1>1. /\ Cardinality(Copies(d, m)') \in Nat /\ Cardinality(Carriers(d, m)') \in Nat
      /\ Cardinality(Copies(d, m)') <= Cardinality(Copies(d, m))
      /\ Cardinality(Carriers(d, m)') <= Cardinality(Carriers(d, m))
  BY CountFinite, FS_Subset, FS_CardinalityType
<1>2. Cardinality(Copies(d, m)) + Cardinality(Carriers(d, m)) <= handed[<<d, m>>]
  BY DEF CountInv, CopiesCounted
<1>3. QED
  BY <1>1, <1>2, CountFinite

\* A delivery pays for the handler it starts.
LEMMA CountDeliver ==
    ASSUME CountInv, NEW h \in Handler, NEW x \in Message, Deliver(h, x),
           NEW d \in Device, NEW m \in MessageId
    PROVE  Cardinality(Copies(d, m))' + Cardinality(Carriers(d, m))' <= handed'[<<d, m>>]
<1>1. /\ hpc[h] = "idle" /\ hpc'[h] = "received" /\ hmsg'[h] = x
      /\ \A g \in Handler : g # h => hpc'[g] = hpc[g] /\ hmsg'[g] = hmsg[g]
      /\ UNCHANGED telemetry
  BY DEF Deliver, rows, CountInv, PipelineInv, TypeOK
<1>2. Copies(d, m)' = Copies(d, m)
  BY <1>1 DEF Copies, Readings
<1>3. CASE x.device = d /\ x.id = m
  <2>1. handed'[<<d, m>>] = handed[<<d, m>>] + 1
    BY <1>3, PipelineAssumption DEF Deliver, CountInv, PipelineInv, TypeOK
  <2>2. Carriers(d, m)' \subseteq Carriers(d, m) \cup {h}
    BY <1>1 DEF Carriers
  <2>3. /\ Cardinality(Carriers(d, m)') \in Nat
        /\ Cardinality(Carriers(d, m)') <= Cardinality(Carriers(d, m)) + 1
    BY <2>2, CountFinite, OneMore
  <2>4. Cardinality(Copies(d, m)) + Cardinality(Carriers(d, m)) <= handed[<<d, m>>]
    BY DEF CountInv, CopiesCounted
  <2>5. QED
    BY <1>2, <2>1, <2>3, <2>4, CountFinite
<1>4. CASE ~(x.device = d /\ x.id = m)
  <2>1. handed'[<<d, m>>] = handed[<<d, m>>]
    BY <1>4 DEF Deliver, CountInv, PipelineInv, TypeOK
  <2>2. Carriers(d, m)' \subseteq Carriers(d, m)
    BY <1>1, <1>4 DEF Carriers
  <2>3. QED
    BY <1>2, <2>1, <2>2, CountShrinks
<1>5. QED
  BY <1>3, <1>4

\* The handler that stores a copy cannot store another.
LEMMA CountCommit ==
    ASSUME CountInv, NEW h \in Handler, Commit(h), NEW d \in Device, NEW m \in MessageId
    PROVE  Cardinality(Copies(d, m))' + Cardinality(Carriers(d, m))' <= handed'[<<d, m>>]
<1>1. PICK t \in Nat : telemetry' = telemetry \cup {Stored(hrow[h], t)}
  BY CommitTime DEF CountInv, PipelineInv
<1>2. /\ hpc[h] = "inserted" /\ hpc'[h] \in {"recovering", "finishing"}
      /\ \A g \in Handler : g # h => hpc'[g] = hpc[g]
      /\ UNCHANGED <<hmsg, handed>>
  BY DEF Commit, history, CountInv, PipelineInv, TypeOK
<1>3. Stored(hrow[h], t).device = hmsg[h].device /\ Stored(hrow[h], t).id = hmsg[h].id
  BY <1>2 DEF Stored, CountInv, PipelineInv, NothingAhead, OpenRow
<1>4. CASE ~(hmsg[h].device = d /\ hmsg[h].id = m)
  <2>1. Copies(d, m)' = Copies(d, m) /\ Carriers(d, m)' = Carriers(d, m)
    BY <1>1, <1>2, <1>3, <1>4 DEF Copies, Readings, Carriers
  <2>2. QED
    BY <1>2, <2>1, CountShrinks
<1>5. CASE hmsg[h].device = d /\ hmsg[h].id = m
  <2>1. h \in Carriers(d, m) /\ Carriers(d, m)' \subseteq Carriers(d, m) \ {h}
    BY <1>2, <1>5 DEF Carriers
  <2>2. Copies(d, m)' \subseteq Copies(d, m) \cup {Stored(hrow[h], t)}
    BY <1>1 DEF Copies, Readings
  <2>3. /\ Cardinality(Carriers(d, m)') \in Nat
        /\ Cardinality(Carriers(d, m)') <= Cardinality(Carriers(d, m)) - 1
    BY <2>1, CountFinite, OneLess
  <2>4. /\ Cardinality(Copies(d, m)') \in Nat
        /\ Cardinality(Copies(d, m)') <= Cardinality(Copies(d, m)) + 1
    BY <2>2, CountFinite, OneMore
  <2>5. Cardinality(Copies(d, m)) + Cardinality(Carriers(d, m)) <= handed[<<d, m>>]
    BY DEF CountInv, CopiesCounted
  <2>6. QED
    BY <1>2, <2>3, <2>4, <2>5, CountFinite
<1>6. QED
  BY <1>4, <1>5

\* Every step keeps the count.
LEMMA CountNext == CountInv /\ [Next]_vars => CountInv'
<1> SUFFICES ASSUME CountInv, [Next]_vars
             PROVE  CountInv'
  OBVIOUS
<1>1. PipelineInv' /\ IsFiniteSet(telemetry')
  BY InvNext, FiniteNext DEF CountInv
<1>2. ASSUME NEW d \in Device, NEW m \in MessageId
      PROVE  Cardinality(Copies(d, m))' + Cardinality(Carriers(d, m))' <= handed'[<<d, m>>]
  <2>1. ASSUME NEW h \in Handler, NEW x \in Message, Deliver(h, x)
        PROVE  Cardinality(Copies(d, m))' + Cardinality(Carriers(d, m))' <= handed'[<<d, m>>]
    BY <2>1, CountDeliver
  <2>2. ASSUME NEW h \in Handler, Commit(h)
        PROVE  Cardinality(Copies(d, m))' + Cardinality(Carriers(d, m))' <= handed'[<<d, m>>]
    BY <2>2, CountCommit
  <2>3. ASSUME NEW h \in Handler, HandlerStep(h), ~Commit(h),
               ~ \E x \in Message : Deliver(h, x)
        PROVE  Cardinality(Copies(d, m))' + Cardinality(Carriers(d, m))' <= handed'[<<d, m>>]
    <3>1. UNCHANGED <<telemetry, handed>>
      BY <2>3 DEF HandlerStep, ReadDevice, Insert, TransactionTimesOut, LogRecovery, Finish,
         HandlerFails, rows, history
    <3>2. /\ \A g \in Handler : g # h => hpc'[g] = hpc[g] /\ hmsg'[g] = hmsg[g]
          /\ hpc'[h] \in {"received", "validated", "inserted"} =>
                hmsg'[h] = hmsg[h] /\ hpc[h] \in {"received", "validated", "inserted"}
      BY <2>3 DEF HandlerStep, ReadDevice, Insert, TransactionTimesOut, LogRecovery, Finish,
         HandlerFails, HandlerDone, CountInv, PipelineInv, TypeOK
    <3>3. Carriers(d, m)' \subseteq Carriers(d, m)
      BY <3>2 DEF Carriers
    <3>4. Copies(d, m)' = Copies(d, m)
      BY <3>1 DEF Copies, Readings
    <3>5. QED
      BY <3>1, <3>3, <3>4, CountShrinks
  <2>4. CASE UNCHANGED <<handler, handed>> /\ telemetry' \subseteq telemetry
    <3>1. Carriers(d, m)' = Carriers(d, m)
      BY <2>4 DEF Carriers, handler
    <3>2. Copies(d, m)' \subseteq Copies(d, m)
      BY <2>4 DEF Copies, Readings
    <3>3. QED
      BY <2>4, <3>1, <3>2, CountShrinks
  <2>5. QED
    BY <2>1, <2>2, <2>3, <2>4
    DEF Next, DetectorStep, Find, MarkOffline, Mark, Announce, DetectorFails, Tick, SoftDelete,
        Unclaim, rows, history, vars
<1>3. QED
  BY <1>1, <1>2 DEF CountInv, CopiesCounted

\* Ingestion is idempotent where the unique index on the message exists; where it does
\* not, a message is stored no more often than the broker has handed it over.
THEOREM IngestionIdempotent == Spec => []IngestedOnce
<1>1. Init => CountInv
  <2> SUFFICES ASSUME Init, NEW d \in Device, NEW m \in MessageId
               PROVE  Cardinality(Copies(d, m)) + Cardinality(Carriers(d, m)) <= handed[<<d, m>>]
    BY InvInit, FS_EmptySet DEF Init, CountInv, CopiesCounted
  <2>1. Copies(d, m) = {} /\ Carriers(d, m) = {} /\ handed[<<d, m>>] = 0
    BY DEF Init, Copies, Readings, Carriers
  <2>2. QED
    BY <2>1, FS_EmptySet
<1>2. CountInv /\ (MessageIndex => IngestInv) => IngestedOnce
  <2> SUFFICES ASSUME CountInv, MessageIndex => IngestInv,
                      NEW d \in Device, NEW m \in MessageId
               PROVE  Cardinality(Copies(d, m))
                          <= IF MessageIndex THEN 1 ELSE handed[<<d, m>>]
    BY DEF IngestedOnce, Copies
  <2>1. CASE MessageIndex
    <3>1. \A r, q \in Copies(d, m) : r = q
      BY <2>1 DEF Copies, Readings, IngestInv, StoredOnce
    <3>2. QED
      BY <2>1, <3>1, AtMostOne
  <2>2. CASE ~MessageIndex
    BY <2>2, CountFinite DEF CountInv, CopiesCounted
  <2>3. QED
    BY <2>1, <2>2
<1>3. Init => IngestInv
  BY TypeInit DEF Init, IngestInv, StoredOnce, RowsKeptApart
<1>4. CASE MessageIndex
  <2>1. IngestInv /\ [Next]_vars => IngestInv'
    BY <1>4, IngestNext
  <2>2. CountInv /\ IngestInv => IngestedOnce
    BY <1>2
  <2>3. QED
    BY <1>1, <1>3, <2>1, <2>2, CountNext, PTL DEF Spec
<1>5. CASE ~MessageIndex
  <2>1. CountInv => IngestedOnce
    BY <1>2, <1>5
  <2>2. QED
    BY <1>1, <2>1, CountNext, PTL DEF Spec
<1>6. QED
  BY <1>4, <1>5

-----------------------------------------------------------------------------
(* The end of the intake *)

\* What was stored of a device after its deletion, ...
Late(d) == {r \in Readings(d) : r.beat > deletedAt[d]}

\* ... and the handlers that were past the isDeleted check, and have yet to store.
Past(d) == {h \in Handler : hpc[h] \in {"validated", "inserted"} /\ hmsg[h].device = d}

IntakeBounded ==
    \A d \in Device : isDeleted(d) =>
        Cardinality(Late(d)) + Cardinality(Past(d)) <= Cardinality(Handler)

IntakeInv == PipelineInv /\ IsFiniteSet(telemetry) /\ IntakeBounded

LEMMA IntakeFinite ==
    ASSUME IntakeInv, NEW d \in Device
    PROVE  /\ IsFiniteSet(Late(d)) /\ IsFiniteSet(Past(d))
           /\ Cardinality(Late(d)) \in Nat /\ Cardinality(Past(d)) \in Nat
           /\ Cardinality(Handler) \in Nat
<1>1. Late(d) \subseteq telemetry /\ Past(d) \subseteq Handler
  BY DEF Late, Readings, Past
<1>2. QED
  BY <1>1, PipelineAssumption, FS_Subset, FS_CardinalityType DEF IntakeInv

\* A step that stores nothing of a deleted device, and lets no handler past the check.
LEMMA IntakeShrinks ==
    ASSUME IntakeInv, NEW d \in Device, isDeleted(d),
           telemetry' \subseteq telemetry, deletedAt'[d] = deletedAt[d],
           Past(d)' \subseteq Past(d)
    PROVE  Cardinality(Late(d))' + Cardinality(Past(d))' <= Cardinality(Handler)
<1>1. Late(d)' \subseteq Late(d)
  BY DEF Late, Readings
<1>2. /\ Cardinality(Late(d)') \in Nat /\ Cardinality(Late(d)') <= Cardinality(Late(d))
      /\ Cardinality(Past(d)') \in Nat /\ Cardinality(Past(d)') <= Cardinality(Past(d))
  BY <1>1, IntakeFinite, FS_Subset, FS_CardinalityType
<1>3. Cardinality(Late(d)) + Cardinality(Past(d)) <= Cardinality(Handler)
  BY DEF IntakeInv, IntakeBounded
<1>4. QED
  BY <1>2, <1>3, IntakeFinite

\* A handler that stores a reading of a deleted device had passed the check before.
LEMMA IntakeCommit ==
    ASSUME IntakeInv, NEW h \in Handler, Commit(h), NEW d \in Device, isDeleted(d)
    PROVE  Cardinality(Late(d))' + Cardinality(Past(d))' <= Cardinality(Handler)
<1>1. PICK t \in Nat : telemetry' = telemetry \cup {Stored(hrow[h], t)}
  BY CommitTime DEF IntakeInv, PipelineInv
<1>2. /\ hpc[h] = "inserted" /\ hpc'[h] \in {"recovering", "finishing"}
      /\ \A g \in Handler : g # h => hpc'[g] = hpc[g]
      /\ UNCHANGED <<hmsg, deletedAt>>
  BY DEF Commit, IntakeInv, PipelineInv, TypeOK
<1>3. Stored(hrow[h], t).device = hmsg[h].device
  BY <1>2 DEF Stored, IntakeInv, PipelineInv, NothingAhead, OpenRow
<1>4. CASE hmsg[h].device # d
  <2>1. Late(d)' = Late(d) /\ Past(d)' = Past(d)
    BY <1>1, <1>2, <1>3, <1>4 DEF Late, Readings, Past
  <2>2. QED
    BY <2>1 DEF IntakeInv, IntakeBounded
<1>5. CASE hmsg[h].device = d
  <2>1. h \in Past(d) /\ Past(d)' = Past(d) \ {h}
    BY <1>2, <1>5 DEF Past
  <2>2. Late(d)' \subseteq Late(d) \cup {Stored(hrow[h], t)}
    BY <1>1, <1>2 DEF Late, Readings
  <2>3. /\ Cardinality(Past(d)') \in Nat
        /\ Cardinality(Past(d)') <= Cardinality(Past(d)) - 1
    BY <2>1, IntakeFinite, OneLess
  <2>5. /\ Cardinality(Late(d)') \in Nat
        /\ Cardinality(Late(d)') <= Cardinality(Late(d)) + 1
    BY <2>2, IntakeFinite, OneMore
  <2>6. Cardinality(Late(d)) + Cardinality(Past(d)) <= Cardinality(Handler)
    BY DEF IntakeInv, IntakeBounded
  <2>7. QED
    BY <2>3, <2>5, <2>6, IntakeFinite
<1>6. QED
  BY <1>4, <1>5

\* The deletion itself: nothing stored so far is later than now.
LEMMA IntakeDelete ==
    ASSUME IntakeInv, NEW d \in Device, SoftDelete(d)
    PROVE  Cardinality(Late(d))' + Cardinality(Past(d))' <= Cardinality(Handler)
<1>1. deletedAt'[d] = clock /\ UNCHANGED <<telemetry, hpc, hmsg>> /\ clock \in Nat
  BY DEF SoftDelete, rows, handler, IntakeInv, PipelineInv, TypeOK
<1>2. Late(d)' = {}
  BY <1>1 DEF Late, Readings, IntakeInv, PipelineInv, NothingAhead, TypeOK, Reading
<1>3. Past(d)' \subseteq Handler
  BY DEF Past
<1>4. Cardinality(Late(d)') = 0 /\ Cardinality(Past(d)') <= Cardinality(Handler)
      /\ Cardinality(Past(d)') \in Nat
  BY <1>2, <1>3, PipelineAssumption, FS_EmptySet, FS_Subset, FS_CardinalityType
<1>5. QED
  BY <1>4

\* Every step keeps the bound.
LEMMA IntakeNext == IntakeInv /\ [Next]_vars => IntakeInv'
<1> SUFFICES ASSUME IntakeInv, [Next]_vars
             PROVE  IntakeInv'
  OBVIOUS
<1>1. PipelineInv'
  BY InvNext DEF IntakeInv
<1>2. IsFiniteSet(telemetry')
  BY FiniteNext DEF IntakeInv
<1>3. ASSUME NEW d \in Device, isDeleted(d)'
      PROVE  Cardinality(Late(d))' + Cardinality(Past(d))' <= Cardinality(Handler)
  <2>1. CASE SoftDelete(d)
    BY <2>1, IntakeDelete
  <2>2. ASSUME NEW h \in Handler, Commit(h)
        PROVE  Cardinality(Late(d))' + Cardinality(Past(d))' <= Cardinality(Handler)
    <3>1. isDeleted(d)
      BY <1>3, <2>2 DEF Commit, isDeleted
    <3>2. QED
      BY <2>2, <3>1, IntakeCommit
  <2>3. ASSUME NEW h \in Handler, HandlerStep(h), ~Commit(h)
        PROVE  Cardinality(Late(d))' + Cardinality(Past(d))' <= Cardinality(Handler)
    <3>1. UNCHANGED <<telemetry, deletedAt>>
      BY <2>3 DEF HandlerStep, Deliver, ReadDevice, Insert, TransactionTimesOut, LogRecovery,
         Finish,
                  HandlerFails, rows, device
    <3>2. isDeleted(d)
      BY <1>3, <3>1 DEF isDeleted
    <3>3. /\ \A g \in Handler : g # h => hpc'[g] = hpc[g] /\ hmsg'[g] = hmsg[g]
          /\ hpc'[h] \in {"validated", "inserted"} =>
                /\ hmsg'[h] = hmsg[h]
                /\ hpc[h] \in {"validated", "inserted"} \/ ~isDeleted(hmsg[h].device)
      BY <2>3 DEF HandlerStep, Deliver, ReadDevice, Insert, TransactionTimesOut, LogRecovery,
         Finish,
                  HandlerFails, HandlerDone, IntakeInv, PipelineInv, TypeOK
    <3>4. Past(d)' \subseteq Past(d)
      BY <3>2, <3>3 DEF Past
    <3>5. QED
      BY <3>1, <3>2, <3>4, IntakeShrinks
  <2>4. CASE /\ UNCHANGED handler /\ telemetry' \subseteq telemetry
             /\ deletedAt'[d] = deletedAt[d]
    <3>1. isDeleted(d)
      BY <1>3, <2>4 DEF isDeleted
    <3>2. Past(d)' \subseteq Past(d)
      BY <2>4 DEF Past, handler
    <3>3. QED
      BY <2>4, <3>1, <3>2, IntakeShrinks
  <2>5. ASSUME NEW e \in Device, e # d, SoftDelete(e)
        PROVE  Cardinality(Late(d))' + Cardinality(Past(d))' <= Cardinality(Handler)
    BY <2>4, <2>5 DEF SoftDelete, rows, IntakeInv, PipelineInv, TypeOK
  <2>6. QED
    BY <2>1, <2>2, <2>3, <2>4, <2>5
    DEF Next, DetectorStep, Find, MarkOffline, Mark, Announce, DetectorFails, Tick, Unclaim,
        rows, device, vars
<1>4. QED
  BY <1>1, <1>2, <1>3 DEF IntakeInv, IntakeBounded

\* After a deletion every handler stores at most the one reading with which it was already
\* past the isDeleted check of handleTelemetry.
THEOREM DeletionStopsIntakeCorrect == Spec => []DeletionStopsIntake
<1>1. Init => IntakeInv
  BY InvInit, FS_EmptySet DEF Init, IntakeInv, IntakeBounded, isDeleted
<1>2. IntakeInv => DeletionStopsIntake
  <2> SUFFICES ASSUME IntakeInv, NEW d \in Device, isDeleted(d)
               PROVE  Cardinality(Late(d)) <= Cardinality(Handler)
    BY DEF DeletionStopsIntake, Late
  <2>1. QED
    BY IntakeFinite DEF IntakeInv, IntakeBounded
<1>3. QED
  BY <1>1, <1>2, IntakeNext, PTL DEF Spec

-----------------------------------------------------------------------------
(* What an OFFLINE event is paid for *)

\* The runs that are about to log an OFFLINE event of the device.
Announcers(d) == {i \in Detector : dpc[i] = "announcing" /\ d \in dead[i]}

\* Every event, logged or about to be, has an outage or a stray of its own.
EventsCovered ==
    \A d \in Device : offlineEvents[d] + Cardinality(Announcers(d)) <= outages[d] + strays[d]

LoggedInv == TypeOK /\ EventsCovered

LEMMA LoggedFinite ==
    ASSUME LoggedInv, NEW d \in Device
    PROVE  /\ IsFiniteSet(Announcers(d)) /\ Cardinality(Announcers(d)) \in Nat
           /\ offlineEvents[d] \in Nat /\ outages[d] \in Nat /\ strays[d] \in Nat
           /\ offlineEvents[d] + Cardinality(Announcers(d)) <= outages[d] + strays[d]
<1>1. Announcers(d) \subseteq Detector
  BY DEF Announcers
<1>2. offlineEvents[d] \in Nat /\ outages[d] \in Nat /\ strays[d] \in Nat
  BY DEF LoggedInv, TypeOK
<1>3. QED
  BY <1>1, <1>2, PipelineAssumption, FS_Subset, FS_CardinalityType DEF LoggedInv, EventsCovered

\* Fewer runs that announce, and no fewer outages, cover the same events.
LEMMA StillCovered ==
    ASSUME LoggedInv, TypeOK', NEW d \in Device, offlineEvents'[d] = offlineEvents[d],
           outages'[d] >= outages[d], strays'[d] = strays[d],
           Announcers(d)' \subseteq Announcers(d)
    PROVE  offlineEvents'[d] + Cardinality(Announcers(d))' <= outages'[d] + strays'[d]
<1>1. /\ Cardinality(Announcers(d)') \in Nat
      /\ Cardinality(Announcers(d)') <= Cardinality(Announcers(d))
  BY LoggedFinite, FS_Subset, FS_CardinalityType
<1>2. outages'[d] \in Nat
  BY DEF TypeOK
<1>3. QED
  BY <1>1, <1>2, LoggedFinite

\* A run that goes on to announce a device has marked it, or counts as a stray.
LEMMA CoveredMark ==
    ASSUME LoggedInv, TypeOK', NEW d \in Device, NEW i \in Detector, MarkOffline(i)
    PROVE  offlineEvents'[d] + Cardinality(Announcers(d))' <= outages'[d] + strays'[d]
<1> DEFINE marked == Overdue(cutoff[i])
<1>1. /\ offlineEvents' = offlineEvents
      /\ outages' = [e \in Device |-> IF e \in marked THEN outages[e] + 1 ELSE outages[e]]
      /\ IF marked = {}
         THEN DetectorDone(i) /\ UNCHANGED strays
         ELSE /\ dpc' = [dpc EXCEPT ![i] = "announcing"]
              /\ strays' = [e \in Device |-> IF e \in dead[i] \ marked THEN strays[e] + 1
                                             ELSE strays[e]]
              /\ UNCHANGED <<cutoff, dead>>
  BY DEF MarkOffline, Mark, events
<1> HIDE DEF marked
<1>2. outages'[d] >= outages[d]
  BY <1>1, LoggedFinite
<1>3. CASE marked = {}
  <2>1. Announcers(d)' \subseteq Announcers(d) /\ strays'[d] = strays[d]
    BY <1>1, <1>3 DEF Announcers, DetectorDone, LoggedInv, TypeOK
  <2>2. QED
    BY <1>1, <1>2, <2>1, StillCovered
<1>4. CASE marked # {} /\ d \notin dead[i]
  <2>1. Announcers(d)' \subseteq Announcers(d) /\ strays'[d] = strays[d]
    BY <1>1, <1>4 DEF Announcers, LoggedInv, TypeOK
  <2>2. QED
    BY <1>1, <1>2, <2>1, StillCovered
<1>5. CASE marked # {} /\ d \in dead[i]
  <2>1. outages'[d] + strays'[d] = outages[d] + strays[d] + 1
    BY <1>1, <1>5, LoggedFinite
  <2>2. Announcers(d)' \subseteq Announcers(d) \cup {i}
    BY <1>1, <1>5 DEF Announcers, LoggedInv, TypeOK
  <2>3. /\ Cardinality(Announcers(d)') \in Nat
        /\ Cardinality(Announcers(d)') <= Cardinality(Announcers(d)) + 1
    BY <2>2, LoggedFinite, OneMore
  <2>4. QED
    BY <1>1, <2>1, <2>3, LoggedFinite
<1>6. QED
  BY <1>3, <1>4, <1>5

\* An event takes its device off the run's list.
LEMMA CoveredAnnounce ==
    ASSUME LoggedInv, TypeOK', NEW d \in Device, NEW i \in Detector, NEW e \in Device,
           Announce(i, e)
    PROVE  offlineEvents'[d] + Cardinality(Announcers(d))' <= outages'[d] + strays'[d]
<1>1. \A j \in Detector : j # i => dpc'[j] = dpc[j] /\ dead'[j] = dead[j]
  BY DEF Announce, DetectorDone, LoggedInv, TypeOK
<1>2. d \in dead'[i] /\ dpc'[i] = "announcing" => d \in dead[i] /\ d # e
  BY DEF Announce, DetectorDone, LoggedInv, TypeOK
<1>3. /\ dpc[i] = "announcing" /\ e \in dead[i]
      /\ outages'[d] = outages[d] /\ strays'[d] = strays[d]
  BY DEF Announce, history
<1>4. Announcers(d)' \subseteq Announcers(d)
  BY <1>1, <1>2, <1>3 DEF Announcers
<1>5. CASE offlineEvents'[d] = offlineEvents[d]
  <2>1. outages'[d] >= outages[d]
    BY <1>3, LoggedFinite
  <2>2. QED
    BY <1>3, <1>4, <1>5, <2>1, StillCovered
<1>6. CASE offlineEvents'[d] # offlineEvents[d]
  <2>1. d = e /\ offlineEvents'[d] = offlineEvents[d] + 1
    BY <1>6 DEF Announce, events, LoggedInv, TypeOK
  <2>2. i \in Announcers(d) /\ Announcers(d)' \subseteq Announcers(d) \ {i}
    BY <1>2, <1>3, <1>4, <2>1 DEF Announcers
  <2>3. /\ Cardinality(Announcers(d)') \in Nat
        /\ Cardinality(Announcers(d)') <= Cardinality(Announcers(d)) - 1
    BY <2>2, LoggedFinite, OneLess
  <2>4. QED
    BY <1>3, <2>1, <2>3, LoggedFinite
<1>7. QED
  BY <1>5, <1>6

\* Every step keeps the events covered.
LEMMA LoggedNext == LoggedInv /\ [Next]_vars => LoggedInv'
<1> SUFFICES ASSUME LoggedInv, [Next]_vars
             PROVE  LoggedInv'
  OBVIOUS
<1>1. TypeOK'
  BY TypeNext DEF LoggedInv
<1> SUFFICES ASSUME NEW d \in Device
             PROVE  offlineEvents'[d] + Cardinality(Announcers(d))' <= outages'[d] + strays'[d]
  BY <1>1 DEF LoggedInv, EventsCovered
<1>2. ASSUME NEW i \in Detector, MarkOffline(i)
      PROVE  offlineEvents'[d] + Cardinality(Announcers(d))' <= outages'[d] + strays'[d]
  BY <1>1, <1>2, CoveredMark
<1>3. ASSUME NEW i \in Detector, NEW e \in Device, Announce(i, e)
      PROVE  offlineEvents'[d] + Cardinality(Announcers(d))' <= outages'[d] + strays'[d]
  BY <1>1, <1>3, CoveredAnnounce
<1>4. CASE /\ UNCHANGED <<offlineEvents, strays>> /\ outages'[d] >= outages[d]
           /\ Announcers(d)' \subseteq Announcers(d)
  BY <1>1, <1>4, StillCovered
<1>5. ASSUME NEW i \in Detector, Find(i) \/ DetectorFails(i)
      PROVE  offlineEvents'[d] + Cardinality(Announcers(d))' <= outages'[d] + strays'[d]
  <2>1. UNCHANGED <<offlineEvents, outages, strays>>
    BY <1>5 DEF Find, DetectorFails, events, history
  <2>2. Announcers(d)' \subseteq Announcers(d)
    BY <1>5 DEF Announcers, Find, DetectorFails, DetectorDone, LoggedInv, TypeOK
  <2>3. QED
    BY <1>4, <2>1, <2>2, LoggedFinite
<1>6. CASE UNCHANGED <<detector, events, strays>> /\ outages'[d] >= outages[d]
  <2>1. Announcers(d)' = Announcers(d) /\ offlineEvents' = offlineEvents
    BY <1>6 DEF Announcers, detector, events
  <2>2. QED
    BY <1>4, <1>6, <2>1
<1>7. ASSUME NEW e \in Device, SoftDelete(e)
      PROVE  UNCHANGED <<detector, events, strays>> /\ outages'[d] >= outages[d]
  BY <1>1, <1>7 DEF SoftDelete, LoggedInv, TypeOK
<1>8. ASSUME NEW h \in Handler, HandlerStep(h)
      PROVE  offlineEvents'[d] + Cardinality(Announcers(d))' <= outages'[d] + strays'[d]
  <2>1. UNCHANGED <<detector, offlineEvents, outages, strays>>
    BY <1>8 DEF HandlerStep, Deliver, ReadDevice, Insert, Commit, TransactionTimesOut,
       LogRecovery, Finish, HandlerFails, events, history
  <2>2. Announcers(d)' = Announcers(d)
    BY <2>1 DEF Announcers, detector
  <2>3. QED
    BY <1>4, <2>1, <2>2, LoggedFinite
<1>9. CASE UNCHANGED <<detector, events, strays, outages>>
  BY <1>6, <1>9, LoggedFinite
<1>10. QED
  BY <1>2, <1>3, <1>5, <1>6, <1>7, <1>8, <1>9
  DEF Next, DetectorStep, Tick, Unclaim, history, vars

\* For every fleet: an OFFLINE event is logged for an outage, or by a run that had listed
\* the device, marked others but not it, and announced its whole list all the same.
THEOREM AnnouncedAreMarkedCorrect == Spec => []AnnouncedAreMarked
<1>1. Init => LoggedInv
  <2> SUFFICES ASSUME Init, NEW d \in Device
               PROVE  offlineEvents[d] + Cardinality(Announcers(d)) <= outages[d] + strays[d]
    BY TypeInit DEF LoggedInv, EventsCovered
  <2>1. Announcers(d) = {}
    BY DEF Init, Announcers
  <2>2. QED
    BY <2>1, FS_EmptySet DEF Init
<1>2. LoggedInv => AnnouncedAreMarked
  <2> SUFFICES ASSUME LoggedInv, NEW d \in Device
               PROVE  offlineEvents[d] <= outages[d] + strays[d]
    BY DEF AnnouncedAreMarked
  <2>1. QED
    BY LoggedFinite
<1>3. QED
  BY <1>1, <1>2, LoggedNext, PTL DEF Spec
=============================================================================
