----------------------------- MODULE HistoryProofs -----------------------------
(***************************************************************************)
(* Proofs about what a user comes back for: the reports of module Reports  *)
(* and the feeds of module EventFeed.                                      *)
(*                                                                         *)
(* Reports.  A report that expires when its job has ended and no worker is *)
(* on it stays like that (Touched, Settled), so nothing is written after   *)
(* its file has been unlinked, and the sweep's copy of its row tells truly *)
(* whether it has been finished (PlainHasFailed).                          *)
(*                                                                         *)
(* EventFeed.  Tables only grow, so a row only moves down (Beyond): a page *)
(* that skips as many rows as a row has newer ones shows it or ends before *)
(* it (PageReaches), and what a walk has not shown is beyond its pages     *)
(* (WalkIsComplete).  Between the two queries of a link nothing moves the  *)
(* row out of the table (FoundIsLinked), nor rows out of an answer that is *)
(* being joined (ItemsExist).                                              *)
(***************************************************************************)
EXTENDS EventFeed, Reports, FiniteSetTheorems, SequenceTheorems, TLAPS

-----------------------------------------------------------------------------
(* Reports: what every step keeps *)

Place == {"idle", "making", "writing", "keyed"}

ReportTypes ==
    /\ asked \in [Report -> {"no", "added", "answered"}]
    /\ rows \in SUBSET Report /\ keyed \in SUBSET rows /\ expired \in SUBSET rows
    /\ files \in SUBSET Report /\ overdue \in SUBSET Report
    /\ job \in [Report -> {"none", "waiting", "active", "done", "failed"}]
    /\ lock \in [Report -> Worker \cup {Nil}]
    /\ worker \in [Worker -> [at : Place, rep : Report \cup {Nil}]]
    /\ \A w \in Worker : worker[w].at = "idle" <=> worker[w].rep = Nil
    /\ todo \in [Cleaner -> [Report -> Entry]]
    /\ at \in [Cleaner -> [at : {"idle", "unlinked"}, rep : Report \cup {Nil}]]
    /\ \A c \in Cleaner : at[c].at = "idle" <=> at[c].rep = Nil
    /\ polled \in Report \cup {Nil} /\ overtaken \in BOOLEAN

\* A report is asked for once, and its row is inserted once.
AskedOnce ==
    \A r \in Report :
        /\ job[r] = "none" <=> asked[r] = "no"
        /\ r \in rows \cup overdue => asked[r] = "answered"
        /\ \A c \in Cleaner : todo[c][r] # "none" \/ at[c].rep = r => asked[r] = "answered"
        /\ \A w \in Worker : worker[w].rep = r => asked[r] # "no"

\* Only the holder of an active job's lock can end it.
LockIsOfActive == \A r \in Report : lock[r] \in Worker => job[r] = "active"

\* The key is in the row before the job leaves the queue, as long as there is a row.
KeyFirst ==
    /\ \A w \in Worker : worker[w].at = "keyed" =>
          /\ asked[worker[w].rep] = "answered"
          /\ worker[w].rep \in keyed \/ worker[w].rep \notin rows
          /\ worker[w].rep \notin overdue => worker[w].rep \in keyed
    /\ \A r \in Report : job[r] = "done" =>
          asked[r] = "answered" /\ (r \in rows => r \in keyed)

\* The clean-up has to do with the report, or had.
Touched(r) ==
    \/ r \in expired
    \/ \E c \in Cleaner : todo[c][r] # "none" \/ at[c].rep = r
    \/ job[r] = "done" /\ r \notin rows

Settled(r) == job[r] \in {"done", "failed"} /\ \A w \in Worker : worker[w].rep # r

TouchedIsSettled == \A r \in Report \ overdue : Touched(r) => Settled(r)

PlainHasFailed ==
    \A c \in Cleaner, r \in Report \ overdue : todo[c][r] = "plain" => job[r] = "failed"

UnlinkedIsGone ==
    \A c \in Cleaner : at[c].at = "unlinked" => at[c].rep \in overdue \/ at[c].rep \notin files

PollIsTold == polled # Nil => (job[polled] = "done" => overtaken)

ReportsInv ==
    /\ ReportTypes /\ AskedOnce /\ LockIsOfActive /\ KeyFirst
    /\ TouchedIsSettled /\ PlainHasFailed /\ UnlinkedIsGone /\ FilesAreTracked /\ PollIsTold

LEMMA NilIsNone == Nil \notin Report /\ Nil \notin Worker
  BY ReportsAssumption DEF ReportsAssumption

\* What a failed attempt does to the queue: only the lock's holder gives the job back.
LEMMA Retried ==
    ASSUME ReportsInv, NEW w \in Worker, worker[w].at # "idle", Retry(w)
    PROVE  /\ job' \in [Report -> {"none", "waiting", "active", "done", "failed"}]
           /\ lock' \in [Report -> Worker \cup {Nil}]
           /\ \A r \in Report :
                 \/ job'[r] = job[r] /\ lock'[r] = lock[r]
                 \/ job[r] = "active" /\ job'[r] \in {"waiting", "failed"} /\ lock'[r] = Nil
  <1>1. CASE lock[worker[w].rep] = w
    <2>1. worker[w].rep \in Report /\ job[worker[w].rep] = "active"
      BY <1>1 DEF ReportsInv, ReportTypes, LockIsOfActive, Place
    <2>2. PICK j \in {"waiting", "failed"} :
             /\ job' = [job EXCEPT ![worker[w].rep] = j]
             /\ lock' = [lock EXCEPT ![worker[w].rep] = Nil]
      BY <1>1 DEF Retry
    <2> QED BY <2>1, <2>2 DEF ReportsInv, ReportTypes
  <1>2. CASE lock[worker[w].rep] # w
    BY <1>2 DEF ReportsInv, ReportTypes, Retry
  <1> QED BY <1>1, <1>2

LEMMA EnqueueKeeps ==
    ASSUME ReportsInv, NEW r \in Report, Enqueue(r)
    PROVE  ReportsInv'
  <1> USE NilIsNone DEF ReportsInv, ReportTypes, Enqueue, table, queue, cleaning, polling
  <1>1. ReportTypes'
    OBVIOUS
  <1>2. AskedOnce' /\ KeyFirst' /\ UnlinkedIsGone' /\ FilesAreTracked' /\ PollIsTold'
    BY DEF AskedOnce, KeyFirst, UnlinkedIsGone, FilesAreTracked, PollIsTold
  <1>3. LockIsOfActive'
    BY DEF LockIsOfActive, AskedOnce
  <1>4. TouchedIsSettled'
    BY DEF TouchedIsSettled, Touched, Settled, AskedOnce
  <1>5. PlainHasFailed'
    BY DEF PlainHasFailed, AskedOnce
  <1> QED BY <1>1, <1>2, <1>3, <1>4, <1>5

LEMMA CreateRowKeeps ==
    ASSUME ReportsInv, NEW r \in Report, CreateRow(r)
    PROVE  ReportsInv'
  <1> USE NilIsNone DEF ReportsInv, ReportTypes, CreateRow, table, queue, cleaning, polling
  <1>1. ReportTypes'
    OBVIOUS
  <1>2. /\ AskedOnce' /\ LockIsOfActive' /\ KeyFirst' /\ TouchedIsSettled' /\ PlainHasFailed'
        /\ UnlinkedIsGone' /\ FilesAreTracked' /\ PollIsTold'
    BY DEF AskedOnce, LockIsOfActive, KeyFirst, TouchedIsSettled, Touched, Settled,
       PlainHasFailed, UnlinkedIsGone, FilesAreTracked, PollIsTold
  <1> QED BY <1>1, <1>2

LEMMA CreateFailsKeeps ==
    ASSUME ReportsInv, NEW r \in Report, CreateFails(r)
    PROVE  ReportsInv'
  <1> USE NilIsNone DEF ReportsInv, ReportTypes, CreateFails, Fail, table, queue, cleaning,
              polling
  <1>1. ReportTypes'
    OBVIOUS
  <1>2. /\ AskedOnce' /\ LockIsOfActive' /\ KeyFirst' /\ TouchedIsSettled' /\ PlainHasFailed'
        /\ UnlinkedIsGone' /\ FilesAreTracked' /\ PollIsTold'
    BY DEF AskedOnce, LockIsOfActive, KeyFirst, TouchedIsSettled, Touched, Settled,
       PlainHasFailed, UnlinkedIsGone, FilesAreTracked, PollIsTold
  <1> QED BY <1>1, <1>2

LEMMA TakeKeeps ==
    ASSUME ReportsInv, NEW w \in Worker, NEW r \in Report, TakeJob(w, r)
    PROVE  ReportsInv'
  <1> USE NilIsNone DEF ReportsInv, ReportTypes, TakeJob, table, queue, cleaning, polling
  <1>1. ReportTypes'
    BY DEF Place
  <1>2. /\ AskedOnce' /\ LockIsOfActive' /\ KeyFirst' /\ TouchedIsSettled' /\ PlainHasFailed'
        /\ UnlinkedIsGone' /\ FilesAreTracked' /\ PollIsTold'
    BY DEF AskedOnce, LockIsOfActive, KeyFirst, TouchedIsSettled, Touched, Settled,
       PlainHasFailed, UnlinkedIsGone, FilesAreTracked, PollIsTold
  <1> QED BY <1>1, <1>2

LEMMA WriteFileKeeps ==
    ASSUME ReportsInv, NEW w \in Worker, WriteFile(w)
    PROVE  ReportsInv'
  <1> USE NilIsNone DEF ReportsInv, ReportTypes, WriteFile, table, queue, cleaning, polling
  <1>1. ReportTypes'
    BY DEF Place
  <1>2. /\ AskedOnce' /\ LockIsOfActive' /\ KeyFirst' /\ TouchedIsSettled'
        /\ PlainHasFailed' /\ PollIsTold'
    BY DEF AskedOnce, LockIsOfActive, KeyFirst, TouchedIsSettled, Touched, Settled,
       PlainHasFailed, PollIsTold
  <1>3. UnlinkedIsGone'
    BY DEF UnlinkedIsGone, TouchedIsSettled, Touched, Settled
  <1>4. FilesAreTracked'
    BY DEF FilesAreTracked, TouchedIsSettled, Touched, Settled
  <1> QED BY <1>1, <1>2, <1>3, <1>4

LEMMA MakeFailsKeeps ==
    ASSUME ReportsInv, NEW w \in Worker, MakeFails(w)
    PROVE  ReportsInv'
  <1> USE NilIsNone DEF ReportsInv, ReportTypes, MakeFails, Fail, Idle, table, queue, cleaning,
              polling
  <1>1. /\ worker[w].at = "making" /\ Retry(w)
        /\ files' \in {files, files \cup {worker[w].rep}}
        /\ worker' = [worker EXCEPT ![w] = Idle]
        /\ UNCHANGED <<asked, table, stalled, cleaning, polling, overdue>>
    BY DEF MakeFails
  <1> HIDE DEF MakeFails
  <1>2. worker[w].rep \in Report
    BY <1>1, ReportsAssumption DEF Place, ReportsAssumption
  <1>3. /\ worker' \in [Worker -> [at : Place, rep : Report \cup {Nil}]]
        /\ worker'[w] = Idle
        /\ \A v \in Worker \ {w} : worker'[v] = worker[v]
    BY <1>1, <1>2 DEF Place, Idle
  <1>4. ReportTypes'
    BY <1>1, Retried DEF Place
  <1>5. AskedOnce'
    BY <1>1, <1>3, Retried DEF AskedOnce
  <1>6. LockIsOfActive'
    BY <1>1, Retried DEF LockIsOfActive
  <1>7. KeyFirst'
    BY <1>1, Retried DEF KeyFirst
  <1>8. TouchedIsSettled'
    BY <1>1, Retried DEF TouchedIsSettled, Touched, Settled
  <1>9. PlainHasFailed'
    BY <1>1, Retried DEF PlainHasFailed
  <1>10. UnlinkedIsGone'
    BY <1>1 DEF UnlinkedIsGone, TouchedIsSettled, Touched, Settled
  <1>11. FilesAreTracked'
    BY <1>1, <1>3, <1>2, Retried DEF FilesAreTracked, TouchedIsSettled, Touched, Settled
  <1>12. PollIsTold'
    BY <1>1, Retried DEF PollIsTold
  <1> QED BY <1>4, <1>5, <1>6, <1>7, <1>8, <1>9, <1>10, <1>11, <1>12

\* The row is there, and gets the key before the job can end.
LEMMA SaveKeyKeeps ==
    ASSUME ReportsInv, NEW w \in Worker,
           SaveKey(w), worker[w].rep \in rows
    PROVE  ReportsInv'
  <1> USE NilIsNone DEF ReportsInv, ReportTypes, SaveKey, table, queue, cleaning, polling
  <1>1. /\ worker[w].at = "writing"
        /\ keyed' = keyed \cup {worker[w].rep}
        /\ worker' = [worker EXCEPT ![w].at = "keyed"]
        /\ UNCHANGED <<asked, rows, expired, files, queue, cleaning, polling, failures,
                       overdue>>
    BY DEF SaveKey, queue
  <1> HIDE DEF SaveKey
  <1>2. ReportTypes'
    BY <1>1 DEF Place
  <1>3. /\ AskedOnce' /\ LockIsOfActive' /\ TouchedIsSettled' /\ PlainHasFailed'
        /\ UnlinkedIsGone' /\ FilesAreTracked' /\ PollIsTold'
    BY <1>1 DEF AskedOnce, LockIsOfActive, TouchedIsSettled, Touched, Settled, PlainHasFailed,
       UnlinkedIsGone, FilesAreTracked, PollIsTold
  <1>4. KeyFirst'
    BY <1>1 DEF KeyFirst, AskedOnce
  <1> QED BY <1>2, <1>3, <1>4

\* There is no row: the attempt fails.
LEMMA SaveNoKeyKeeps ==
    ASSUME ReportsInv, NEW w \in Worker,
           SaveKey(w), worker[w].rep \notin rows
    PROVE  ReportsInv'
  <1> USE NilIsNone DEF ReportsInv, ReportTypes, SaveKey, Idle, table, queue, cleaning, polling
  <1>1. /\ worker[w].at = "writing" /\ Retry(w)
        /\ worker' = [worker EXCEPT ![w] = Idle]
        /\ UNCHANGED <<asked, table, files, stalled, cleaning, polling, failures, overdue>>
    BY DEF SaveKey, table
  <1> HIDE DEF SaveKey
  <1>2. worker[w].rep \in Report
    BY <1>1, ReportsAssumption DEF Place, ReportsAssumption
  <1>3. /\ worker' \in [Worker -> [at : Place, rep : Report \cup {Nil}]]
        /\ worker'[w] = Idle
        /\ \A v \in Worker \ {w} : worker'[v] = worker[v]
    BY <1>1, <1>2 DEF Place, Idle
  <1>4. ReportTypes'
    BY <1>1, Retried DEF Place
  <1>5. AskedOnce'
    BY <1>1, <1>3, Retried DEF AskedOnce
  <1>6. LockIsOfActive'
    BY <1>1, Retried DEF LockIsOfActive
  <1>7. KeyFirst'
    BY <1>1, Retried DEF KeyFirst
  <1>8. TouchedIsSettled'
    BY <1>1, Retried DEF TouchedIsSettled, Touched, Settled
  <1>9. PlainHasFailed'
    BY <1>1, Retried DEF PlainHasFailed
  <1>10. UnlinkedIsGone'
    BY <1>1 DEF UnlinkedIsGone
  <1>11. FilesAreTracked'
    BY <1>1, Retried DEF FilesAreTracked
  <1>12. PollIsTold'
    BY <1>1, Retried DEF PollIsTold
  <1> QED BY <1>4, <1>5, <1>6, <1>7, <1>8, <1>9, <1>10, <1>11, <1>12

\* The holder of the lock ends the job.
LEMMA CompleteKeeps ==
    ASSUME ReportsInv, NEW w \in Worker,
           Complete(w), lock[worker[w].rep] = w
    PROVE  ReportsInv'
  <1> USE NilIsNone DEF ReportsInv, ReportTypes, Complete, Idle, table, queue, cleaning, polling
  <1>1. /\ worker[w].at = "keyed"
        /\ job' = [job EXCEPT ![worker[w].rep] = "done"]
        /\ lock' = [lock EXCEPT ![worker[w].rep] = Nil]
        /\ overtaken' = (overtaken \/ polled = worker[w].rep)
        /\ worker' = [worker EXCEPT ![w] = Idle]
        /\ UNCHANGED <<asked, table, files, tries, stalled, cleaning, polled, failures, overdue>>
    BY DEF Complete
  <1> HIDE DEF Complete
  <1>2. ReportTypes'
    BY <1>1 DEF Place
  <1>3. AskedOnce' /\ LockIsOfActive' /\ KeyFirst' /\ UnlinkedIsGone'
    BY <1>1 DEF AskedOnce, LockIsOfActive, KeyFirst, UnlinkedIsGone
  <1>4. TouchedIsSettled'
    BY <1>1 DEF TouchedIsSettled, Touched, Settled, KeyFirst
  <1>5. PlainHasFailed'
    BY <1>1 DEF PlainHasFailed, LockIsOfActive
  <1>6. FilesAreTracked'
    BY <1>1 DEF FilesAreTracked, KeyFirst
  <1>7. PollIsTold'
    <2>1. CASE polled = worker[w].rep
      BY <1>1, <2>1 DEF PollIsTold
    <2>2. CASE polled \in Report \ {worker[w].rep}
      <3>1. job'[polled] = job[polled] /\ polled' = polled
        BY <1>1, <2>2
      <3> QED BY <1>1, <3>1 DEF PollIsTold
    <2> QED BY <1>1, <2>1, <2>2 DEF PollIsTold
  <1> QED BY <1>2, <1>3, <1>4, <1>5, <1>6, <1>7

\* A worker that has lost the lock.
LEMMA CompleteLateKeeps ==
    ASSUME ReportsInv, NEW w \in Worker,
           Complete(w), lock[worker[w].rep] # w
    PROVE  ReportsInv'
  <1> USE NilIsNone DEF ReportsInv, ReportTypes, Complete, Idle, table, queue, cleaning, polling
  <1>1. /\ worker[w].at = "keyed"
        /\ UNCHANGED <<job, lock, overtaken>>
        /\ worker' = [worker EXCEPT ![w] = Idle]
        /\ UNCHANGED <<asked, table, files, tries, stalled, cleaning, polled, failures, overdue>>
    BY DEF Complete
  <1> HIDE DEF Complete
  <1>2. ReportTypes'
    BY <1>1 DEF Place
  <1>3. /\ AskedOnce' /\ LockIsOfActive' /\ KeyFirst' /\ TouchedIsSettled' /\ PlainHasFailed'
        /\ UnlinkedIsGone' /\ FilesAreTracked' /\ PollIsTold'
    BY <1>1 DEF AskedOnce, LockIsOfActive, KeyFirst, TouchedIsSettled, Touched, Settled,
       PlainHasFailed, UnlinkedIsGone, FilesAreTracked, PollIsTold
  <1> QED BY <1>2, <1>3

LEMMA WorkerDiesKeeps ==
    ASSUME ReportsInv, NEW w \in Worker, WorkerDies(w)
    PROVE  ReportsInv'
  <1> USE NilIsNone DEF ReportsInv, ReportTypes, WorkerDies, Idle, table, queue, cleaning,
              polling
  <1>1. ReportTypes'
    BY DEF Place
  <1>2. /\ AskedOnce' /\ LockIsOfActive' /\ KeyFirst' /\ TouchedIsSettled' /\ PlainHasFailed'
        /\ UnlinkedIsGone' /\ FilesAreTracked' /\ PollIsTold'
    BY DEF AskedOnce, LockIsOfActive, KeyFirst, TouchedIsSettled, Touched, Settled,
       PlainHasFailed, UnlinkedIsGone, FilesAreTracked, PollIsTold
  <1> QED BY <1>1, <1>2

LEMMA StallKeeps ==
    ASSUME ReportsInv, NEW r \in Report, Stall(r)
    PROVE  ReportsInv'
  <1> USE NilIsNone DEF ReportsInv, ReportTypes, Stall, table, queue, cleaning, polling
  <1>1. ReportTypes'
    OBVIOUS
  <1>2. AskedOnce'
    BY DEF AskedOnce
  <1>3. LockIsOfActive'
    BY DEF LockIsOfActive
  <1>4. KeyFirst' /\ PlainHasFailed' /\ UnlinkedIsGone' /\ FilesAreTracked' /\ PollIsTold'
    BY DEF KeyFirst, PlainHasFailed, UnlinkedIsGone, FilesAreTracked, PollIsTold
  <1>5. TouchedIsSettled'
    BY DEF TouchedIsSettled, Touched, Settled
  <1> QED BY <1>1, <1>2, <1>3, <1>4, <1>5

LEMMA PollRowKeeps ==
    ASSUME ReportsInv, NEW r \in Report, PollRow(r)
    PROVE  ReportsInv'
  <1> USE NilIsNone DEF ReportsInv, ReportTypes, PollRow, table, queue, cleaning, polling
  <1>1. ReportTypes'
    OBVIOUS
  <1>2. /\ AskedOnce' /\ LockIsOfActive' /\ KeyFirst' /\ TouchedIsSettled'
        /\ PlainHasFailed' /\ UnlinkedIsGone' /\ FilesAreTracked'
    BY DEF AskedOnce, LockIsOfActive, KeyFirst, TouchedIsSettled, Touched, Settled,
       PlainHasFailed, UnlinkedIsGone, FilesAreTracked
  <1>3. PollIsTold'
    BY DEF PollIsTold, KeyFirst
  <1> QED BY <1>1, <1>2, <1>3

LEMMA PollJobKeeps ==
    ASSUME ReportsInv, PollJob
    PROVE  ReportsInv'
  <1> USE NilIsNone DEF ReportsInv, ReportTypes, PollJob, table, queue, cleaning, polling
  <1>1. ReportTypes'
    OBVIOUS
  <1>2. /\ AskedOnce' /\ LockIsOfActive' /\ KeyFirst' /\ TouchedIsSettled' /\ PlainHasFailed'
        /\ UnlinkedIsGone' /\ FilesAreTracked' /\ PollIsTold'
    BY DEF AskedOnce, LockIsOfActive, KeyFirst, TouchedIsSettled, Touched, Settled,
       PlainHasFailed, UnlinkedIsGone, FilesAreTracked, PollIsTold
  <1> QED BY <1>1, <1>2

LEMMA ExpireKeeps ==
    ASSUME ReportsInv, NEW r \in Report, Expire(r)
    PROVE  ReportsInv'
  <1> USE NilIsNone DEF ReportsInv, ReportTypes, Expire, table, queue, cleaning, polling
  <1>1. ReportTypes'
    OBVIOUS
  <1>2. /\ AskedOnce' /\ LockIsOfActive' /\ KeyFirst' /\ PlainHasFailed'
        /\ UnlinkedIsGone' /\ FilesAreTracked' /\ PollIsTold'
    BY DEF AskedOnce, LockIsOfActive, KeyFirst, PlainHasFailed, UnlinkedIsGone, FilesAreTracked,
       PollIsTold
  <1>3. TouchedIsSettled'
    BY DEF TouchedIsSettled, Touched, Settled, AskedOnce, LockIsOfActive
  <1> QED BY <1>1, <1>2, <1>3

LEMMA ListKeeps ==
    ASSUME ReportsInv, NEW c \in Cleaner, List(c)
    PROVE  ReportsInv'
  <1> USE NilIsNone DEF ReportsInv, ReportTypes, List, Listed, table, queue, cleaning, polling
  <1>1. ReportTypes'
    BY DEF Entry
  <1>2. /\ AskedOnce' /\ LockIsOfActive' /\ KeyFirst' /\ TouchedIsSettled'
        /\ UnlinkedIsGone' /\ FilesAreTracked' /\ PollIsTold'
    BY DEF AskedOnce, LockIsOfActive, KeyFirst, TouchedIsSettled, Touched, Settled,
       UnlinkedIsGone, FilesAreTracked, PollIsTold
  <1>3. PlainHasFailed'
    BY DEF PlainHasFailed, TouchedIsSettled, Touched, Settled, KeyFirst
  <1> QED BY <1>1, <1>2, <1>3

LEMMA UnlinkKeeps ==
    ASSUME ReportsInv, NEW c \in Cleaner, NEW r \in Report, Unlink(c, r)
    PROVE  ReportsInv'
  <1> USE NilIsNone DEF ReportsInv, ReportTypes, Unlink, table, queue, cleaning, polling
  <1>1. ReportTypes'
    OBVIOUS
  <1>2. /\ AskedOnce' /\ LockIsOfActive' /\ KeyFirst' /\ TouchedIsSettled' /\ PlainHasFailed'
        /\ UnlinkedIsGone' /\ FilesAreTracked' /\ PollIsTold'
    BY DEF AskedOnce, LockIsOfActive, KeyFirst, TouchedIsSettled, Touched, Settled,
       PlainHasFailed, UnlinkedIsGone, FilesAreTracked, PollIsTold
  <1> QED BY <1>1, <1>2

LEMMA UnlinkFailsKeeps ==
    ASSUME ReportsInv, NEW c \in Cleaner, NEW r \in Report,
           UnlinkFails(c, r)
    PROVE  ReportsInv'
  <1> USE NilIsNone DEF ReportsInv, ReportTypes, UnlinkFails, table, queue, cleaning, polling
  <1>1. ReportTypes'
    BY DEF Entry, Done
  <1>2. AskedOnce'
    BY DEF AskedOnce, Done
  <1>3. LockIsOfActive' /\ KeyFirst' /\ UnlinkedIsGone' /\ FilesAreTracked' /\ PollIsTold'
    BY DEF LockIsOfActive, KeyFirst, UnlinkedIsGone, FilesAreTracked, PollIsTold
  <1>4. TouchedIsSettled'
    BY DEF TouchedIsSettled, Touched, Settled, Done
  <1>5. PlainHasFailed'
    BY DEF PlainHasFailed, Done
  <1> QED BY <1>1, <1>2, <1>3, <1>4, <1>5

LEMMA DeleteKeyedKeeps ==
    ASSUME ReportsInv, NEW c \in Cleaner, DeleteKeyed(c)
    PROVE  ReportsInv'
  <1> USE NilIsNone DEF ReportsInv, ReportTypes, DeleteKeyed, DeleteRow, Idle, table, queue,
              cleaning, polling
  <1>1. ReportTypes'
    BY DEF Entry, Done
  <1>2. AskedOnce'
    BY DEF AskedOnce, Done
  <1>3. LockIsOfActive' /\ UnlinkedIsGone' /\ PollIsTold'
    BY DEF LockIsOfActive, UnlinkedIsGone, PollIsTold
  <1>4. KeyFirst'
    <2>1. ASSUME NEW w \in Worker, worker[w].at = "keyed"
          PROVE  worker[w].rep # at[c].rep \/ worker[w].rep \in overdue
      BY <2>1, ReportsAssumption DEF ReportsAssumption, TouchedIsSettled, Touched, Settled
    <2>2. keyed' = keyed \ {at[c].rep} /\ rows' = rows \ {at[c].rep} OBVIOUS
    <2> QED BY <2>1, <2>2 DEF KeyFirst, queue
  <1>5. TouchedIsSettled'
    BY DEF TouchedIsSettled, Touched, Settled, Done
  <1>6. PlainHasFailed'
    BY DEF PlainHasFailed, Done
  <1>7. FilesAreTracked'
    BY DEF FilesAreTracked, UnlinkedIsGone, Done
  <1> QED BY <1>1, <1>2, <1>3, <1>4, <1>5, <1>6, <1>7

\* DeletePlain finds the row.
LEMMA DeletePlainKeeps ==
    ASSUME ReportsInv, NEW c \in Cleaner, NEW r \in Report,
           DeletePlain(c, r), r \in rows
    PROVE  ReportsInv'
  <1> USE NilIsNone DEF ReportsInv, ReportTypes, DeletePlain, DeleteRow, table, queue, cleaning,
              polling
  <1>1. /\ todo[c][r] = "plain"
        /\ rows' = rows \ {r} /\ keyed' = keyed \ {r} /\ expired' = expired \ {r}
        /\ todo' = [todo EXCEPT ![c][r] = "none"]
        /\ UNCHANGED <<asked, files, queue, worker, at, polling, failures, overdue>>
    BY DEF DeletePlain, Done, DeleteRow
  <1> HIDE DEF DeletePlain
  <1>2. /\ todo' \in [Cleaner -> [Report -> Entry]]
        /\ \A d \in Cleaner, s \in Report : todo'[d][s] = todo[d][s] \/ todo'[d][s] = "none"
    BY <1>1 DEF Entry
  <1>3. ReportTypes'
    BY <1>1 DEF Entry
  <1>4. AskedOnce' /\ LockIsOfActive' /\ PlainHasFailed' /\ UnlinkedIsGone' /\ PollIsTold'
    BY <1>1 DEF AskedOnce, LockIsOfActive, PlainHasFailed, UnlinkedIsGone, PollIsTold
  <1>5. KeyFirst'
    BY <1>1 DEF KeyFirst, TouchedIsSettled, Touched, Settled
  <1>6. TouchedIsSettled'
    <2>1. \A s \in Report \ overdue : Touched(s)' => Touched(s)
      BY <1>1, <1>2 DEF Touched, queue, PlainHasFailed
    <2> QED BY <1>1, <2>1 DEF TouchedIsSettled, Settled, queue
  <1>7. FilesAreTracked'
    BY <1>1 DEF FilesAreTracked, PlainHasFailed
  <1> QED BY <1>3, <1>4, <1>5, <1>6, <1>7

\* DeletePlain does not find the row, and ends the sweep.
LEMMA DeleteNothingKeeps ==
    ASSUME ReportsInv, NEW c \in Cleaner, NEW r \in Report,
           DeletePlain(c, r), r \notin rows
    PROVE  ReportsInv'
  <1> USE NilIsNone DEF ReportsInv, ReportTypes, DeletePlain, DeleteRow, table, queue, cleaning,
              polling
  <1>1. /\ todo[c][r] = "plain"
        /\ rows' = rows \ {r} /\ keyed' = keyed \ {r} /\ expired' = expired \ {r}
        /\ todo' = [todo EXCEPT ![c] = [s \in Report |-> "none"]]
        /\ UNCHANGED <<asked, files, queue, worker, at, polling, failures, overdue>>
    BY DEF DeletePlain, Done, DeleteRow
  <1> HIDE DEF DeletePlain
  <1>2. /\ todo' \in [Cleaner -> [Report -> Entry]]
        /\ \A d \in Cleaner, s \in Report : todo'[d][s] = todo[d][s] \/ todo'[d][s] = "none"
    BY <1>1 DEF Entry
  <1>3. ReportTypes'
    BY <1>1 DEF Entry
  <1>4. /\ AskedOnce' /\ LockIsOfActive' /\ KeyFirst' /\ PlainHasFailed'
        /\ UnlinkedIsGone' /\ FilesAreTracked' /\ PollIsTold'
    BY <1>1 DEF AskedOnce, LockIsOfActive, KeyFirst, PlainHasFailed, UnlinkedIsGone,
       FilesAreTracked, PollIsTold
  <1>5. TouchedIsSettled'
    <2>1. \A s \in Report \ overdue : Touched(s)' => Touched(s)
      BY <1>1, <1>2 DEF Touched, queue, PlainHasFailed
    <2> QED BY <1>1, <2>1 DEF TouchedIsSettled, Settled, queue
  <1> QED BY <1>3, <1>4, <1>5

LEMMA CleanerDiesKeeps ==
    ASSUME ReportsInv, NEW c \in Cleaner, CleanerDies(c)
    PROVE  ReportsInv'
  <1> USE NilIsNone DEF ReportsInv, ReportTypes, CleanerDies, Idle, table, queue, cleaning,
              polling
  <1>1. /\ \A d \in Cleaner : at'[d] = at[d] \/ at'[d] = Idle
        /\ \A d \in Cleaner, s \in Report : todo'[d][s] = todo[d][s] \/ todo'[d][s] = "none"
    OBVIOUS
  <1>2. ReportTypes'
    BY DEF Entry
  <1>3. /\ AskedOnce' /\ LockIsOfActive' /\ KeyFirst' /\ PlainHasFailed'
        /\ UnlinkedIsGone' /\ FilesAreTracked' /\ PollIsTold'
    BY DEF AskedOnce, LockIsOfActive, KeyFirst, PlainHasFailed, UnlinkedIsGone, FilesAreTracked,
       PollIsTold
  <1>4. TouchedIsSettled'
    <2>1. \A s \in Report : Touched(s)' => Touched(s)
      BY <1>1 DEF Touched, table, queue
    <2> QED BY <2>1 DEF TouchedIsSettled, Settled, queue
  <1> QED BY <1>2, <1>3, <1>4

LEMMA ReportsStep == ReportsInv /\ [ReportsNext]_reportsVars => ReportsInv'
  <1> SUFFICES ASSUME ReportsInv, [ReportsNext]_reportsVars PROVE ReportsInv'
    OBVIOUS
  <1>1. ASSUME NEW r \in Report, Asking(r) \/ Stall(r) \/ Expire(r) PROVE ReportsInv'
    BY <1>1, EnqueueKeeps, CreateRowKeeps, CreateFailsKeeps, PollRowKeeps, StallKeeps, ExpireKeeps
    DEF Asking
  <1>2. ASSUME NEW w \in Worker, Working(w) PROVE ReportsInv'
    BY <1>2, TakeKeeps, WriteFileKeeps, MakeFailsKeeps, SaveKeyKeeps, SaveNoKeyKeeps,
       CompleteKeeps, CompleteLateKeeps, WorkerDiesKeeps DEF Working
  <1>3. ASSUME NEW c \in Cleaner, Sweep(c) PROVE ReportsInv'
    BY <1>3, ListKeeps, DeleteKeyedKeeps, UnlinkKeeps, DeletePlainKeeps, DeleteNothingKeeps
    DEF Sweep
  <1>4. ASSUME NEW c \in Cleaner, SweepFails(c) PROVE ReportsInv'
    BY <1>4, CleanerDiesKeeps, UnlinkFailsKeeps DEF SweepFails
  <1>5. ASSUME UNCHANGED reportsVars PROVE ReportsInv'
    BY <1>5 DEF ReportsInv, ReportTypes, AskedOnce, LockIsOfActive, KeyFirst, TouchedIsSettled,
       Touched, Settled, PlainHasFailed, UnlinkedIsGone, FilesAreTracked, PollIsTold,
       reportsVars, table, queue, cleaning, polling
  <1> QED BY <1>1, <1>2, <1>3, <1>4, <1>5, PollJobKeeps DEF ReportsNext

LEMMA InitReports == ReportsInit => ReportsInv
  <1> SUFFICES ASSUME ReportsInit PROVE ReportsInv
    OBVIOUS
  <1>1. ReportTypes
    BY DEF ReportsInit, ReportTypes, Idle, Place, Entry
  <1>2. AskedOnce /\ LockIsOfActive /\ KeyFirst
    BY ReportsAssumption
    DEF ReportsAssumption, ReportsInit, Idle, AskedOnce, LockIsOfActive, KeyFirst
  <1>3. TouchedIsSettled /\ PlainHasFailed
    BY ReportsAssumption
    DEF ReportsAssumption, ReportsInit, Idle, TouchedIsSettled, Touched, PlainHasFailed
  <1>4. UnlinkedIsGone /\ FilesAreTracked /\ PollIsTold
    BY DEF ReportsInit, Idle, UnlinkedIsGone, FilesAreTracked, PollIsTold
  <1> QED BY <1>1, <1>2, <1>3, <1>4 DEF ReportsInv

\* What every step of the reports keeps: the inductive invariant of both results below.
THEOREM ReportsInvariant == ReportsSpec => []ReportsInv
  <1>1. ReportsInit => ReportsInv
    BY InitReports
  <1>2. ReportsInv /\ [ReportsNext]_reportsVars => ReportsInv'
    BY ReportsStep
  <1> QED BY <1>1, <1>2, PTL DEF ReportsSpec

\* No file of a finished report is left without the row that leads the clean-up to it,
\* whatever workers and sweeps of several nodes do to each other.
THEOREM FilesAreTrackedCorrect == ReportsSpec => []FilesAreTracked
  <1>1. ReportsInv => FilesAreTracked
    BY DEF ReportsInv
  <1> QED BY <1>1, ReportsInvariant, PTL

\* A client is told that its report has disappeared only if the job ended between the two
\* reads of its request.
THEOREM DisappearedOnlyIfOvertakenCorrect == ReportsSpec => []DisappearedOnlyIfOvertaken
  <1>1. ReportsInv => DisappearedOnlyIfOvertaken
    BY DEF ReportsInv, PollIsTold, DisappearedOnlyIfOvertaken, Status
  <1> QED BY <1>1, ReportsInvariant, PTL

-----------------------------------------------------------------------------
(* EventFeed: types *)

Kind   == {"OFFLINE"} \cup Alert
Row    == [kind : Kind, metric : Metric \cup {None}, at : Nat]
Notice == [of : Nat, at : Nat, read : BOOLEAN]

TablesTyped ==
    /\ now \in Nat
    /\ log \in Seq(Row) /\ inbox \in Seq(Notice) /\ pending \in SUBSET DOMAIN log
    /\ \A i \in DOMAIN log : log[i].kind \in Alert => log[i].metric \in Metric
    /\ \A n \in DOMAIN inbox : inbox[n].of \in DOMAIN log

Fields == {"pc", "feed", "unread", "take", "skip", "high", "items", "shown"}

\* A request that is under way, or answered.
Request ==
    /\ DOMAIN req = Fields
    /\ req.pc \in {"found", "join", "done"} /\ req.feed \in Feed /\ req.unread \in BOOLEAN
    /\ req.take \in 1..Cap /\ req.skip \in Nat /\ req.high \in Nat \cup {None}
    /\ req.unread => req.feed = "inbox"

RequestTyped == req = NoRequest \/ Request

WalkTyped == walk \in [base : SUBSET Nat, seen : SUBSET Nat, marked : BOOLEAN]

FeedTypes == TablesTyped /\ RequestTyped /\ WalkTyped

LEMMA RowsTyped ==
    ASSUME TablesTyped, NEW feed \in Feed, NEW unread \in BOOLEAN
    PROVE  /\ Rows(feed, unread) \in SUBSET Nat /\ IsFiniteSet(Rows(feed, unread))
           /\ \A i \in Rows(feed, unread) : At(feed, i) \in Nat
  <1>1. /\ DOMAIN log = 1..Len(log) /\ Len(log) \in Nat
        /\ DOMAIN inbox = 1..Len(inbox) /\ Len(inbox) \in Nat
    BY DEF TablesTyped
  <1>2. IsFiniteSet(DOMAIN log) /\ IsFiniteSet(DOMAIN inbox)
    BY <1>1, FS_Interval
  <1>3. \/ feed # "inbox" /\ Rows(feed, unread) \in SUBSET DOMAIN log
        \/ feed = "inbox" /\ Rows(feed, unread) \in SUBSET DOMAIN inbox
    BY DEF Feed, Rows
  <1>4. IsFiniteSet(Rows(feed, unread))
    BY <1>2, <1>3, FS_Subset
  <1>5. \A i \in Rows(feed, unread) : At(feed, i) \in Nat
    <2>1. \A i \in 1..Len(log) : log[i] \in Row
      BY ElementOfSeq DEF TablesTyped
    <2>2. \A n \in 1..Len(inbox) : inbox[n] \in Notice
      BY ElementOfSeq DEF TablesTyped
    <2>3. /\ \A i \in 1..Len(log) : log[i].at \in Nat
          /\ \A n \in 1..Len(inbox) : inbox[n].at \in Nat
      BY <2>1, <2>2 DEF Row, Notice
    <2> QED BY <1>1, <1>3, <2>3 DEF At
  <1> QED BY <1>1, <1>3, <1>4, <1>5

\* What Fetch leaves, with its page.
Answer(feed, unread, take, skip, high, before) ==
    \E page \in SUBSET Rows(feed, unread) :
        /\ IF feed # "inbox" /\ skip >= Cap THEN page = {}
           ELSE page \in Pages(feed, Rows(feed, unread), skip, TakeOf(feed, skip, take))
        /\ req'.items = IF feed # "inbox" /\ skip >= Cap THEN {} ELSE Shown(page, high)
        /\ walk' = IF high = None THEN [before EXCEPT !.seen = @ \cup page] ELSE NoWalk
        /\ Request' /\ req'.pc \in {"join", "done"} /\ (req'.pc = "join" => feed # "devices")
        /\ req'.feed = feed /\ req'.unread = unread /\ req'.take = take
        /\ req'.skip = skip /\ req'.high = high
        /\ UNCHANGED <<now, ticks, tables>>

LEMMA Fetched ==
    ASSUME FeedTypes, NEW feed \in Feed, NEW unread \in BOOLEAN, NEW take \in 1..Cap,
           NEW skip \in Nat, NEW high \in Nat \cup {None}, NEW before,
           unread => feed = "inbox",
           Fetch(feed, unread, take, skip, high, before)
    PROVE  Answer(feed, unread, take, skip, high, before)
  <1>1. PICK page \in (IF feed # "inbox" /\ skip >= Cap THEN {{}}
                       ELSE Pages(feed, Rows(feed, unread), skip, TakeOf(feed, skip, take))) :
           LET items == IF feed # "inbox" /\ skip >= Cap THEN {} ELSE Shown(page, high)
           IN  /\ req' = [pc |-> IF items = {} \/ feed = "devices" THEN "done" ELSE "join",
                          feed |-> feed, unread |-> unread, take |-> take, skip |-> skip,
                          high |-> high, items |-> items, shown |-> <<>>]
               /\ walk' = IF high = None THEN [before EXCEPT !.seen = @ \cup page] ELSE NoWalk
               /\ UNCHANGED <<now, ticks, tables>>
    BY DEF Fetch
  <1>2. page \in SUBSET Rows(feed, unread)
    BY <1>1 DEF Pages, Newest
  <1>3. Request' /\ req'.pc \in {"join", "done"} /\ (req'.pc = "join" => feed # "devices")
    BY <1>1 DEF Request, Fields
  <1> QED BY <1>1, <1>2, <1>3 DEF Answer

\* The answer is completed with partners, and nothing else of it changes.
LEMMA Shows ==
    ASSUME Request, NEW partners, Show(partners)
    PROVE  /\ Request' /\ req'.pc = "done"
           /\ req'.items = req.items /\ req'.high = req.high /\ req'.feed = req.feed
           /\ req'.take = req.take /\ req'.skip = req.skip /\ req'.unread = req.unread
           /\ DOMAIN req'.shown = DOMAIN partners
           /\ \A r \in DOMAIN partners : req'.shown[r] \in partners[r]
           /\ UNCHANGED <<now, ticks, tables, walk>>
  <1>1. PICK shown \in [DOMAIN partners -> UNION {partners[r] : r \in DOMAIN partners}] :
           /\ \A r \in DOMAIN partners : shown[r] \in partners[r]
           /\ req' = [req EXCEPT !.pc = "done", !.shown = shown]
           /\ UNCHANGED <<now, ticks, tables, walk>>
    BY DEF Show
  <1>2. DOMAIN req' = Fields /\ req'.pc = "done" /\ req'.shown = shown
    BY <1>1 DEF Request, Fields
  <1>3. /\ req'.items = req.items /\ req'.high = req.high /\ req'.feed = req.feed
        /\ req'.take = req.take /\ req'.skip = req.skip /\ req'.unread = req.unread
    BY <1>1 DEF Request, Fields
  <1> QED BY <1>1, <1>2, <1>3 DEF Request

\* The all of a page that skips as many as i has newer all, or fewer, are i and its
\* successors: i is on it, or has as many newer all as the page reaches to.
LEMMA PageReaches ==
    ASSUME NEW feed, NEW all, IsFiniteSet(all), \A j \in all : At(feed, j) \in Nat,
           NEW skip \in Nat, NEW take \in Nat, NEW page \in Pages(feed, all, skip, take),
           NEW i \in all \ page, \A j \in all \ {i} : At(feed, j) # At(feed, i),
           Cardinality(Newer(feed, all, i)) >= skip
    PROVE  Cardinality(Newer(feed, all, i)) >= skip + take
  <1>1. PICK s \in Newest(feed, all, skip), t \in Newest(feed, all, skip + take) :
           s \subseteq t /\ page = t \ s
    BY DEF Pages
  <1> DEFINE N == Newer(feed, all, i)
  <1>2. N \in SUBSET all /\ i \notin N /\ s \in SUBSET all /\ t \in SUBSET all
    BY <1>1 DEF Newer, Newest
  <1>3. /\ IsFiniteSet(N) /\ IsFiniteSet(s) /\ IsFiniteSet(t)
        /\ Cardinality(N) \in Nat /\ Cardinality(s) \in Nat /\ Cardinality(all) \in Nat
    BY <1>2, FS_Subset, FS_CardinalityType
  <1>4. i \notin s
    <2>1. SUFFICES ASSUME i \in s PROVE FALSE
      OBVIOUS
    <2>2. N \in SUBSET (s \ {i})
      BY <1>1, <1>2, <2>1 DEF Newest
    <2>3. IsFiniteSet(s \ {i}) /\ Cardinality(s \ {i}) = Cardinality(s) - 1
      BY <1>3, <2>1, FS_RemoveElement
    <2>4. Cardinality(N) <= Cardinality(s \ {i})
      BY <2>2, <2>3, FS_Subset
    <2>5. Cardinality(s) <= skip
      BY <1>1, <1>3 DEF Newest
    <2> QED BY <1>3, <2>3, <2>4, <2>5
  <1>5. t \in SUBSET N
    <2>1. SUFFICES ASSUME NEW j \in t PROVE At(feed, j) > At(feed, i)
      BY <1>2 DEF Newer
    <2>2. i \notin t
      BY <1>1, <1>4
    <2>3. i \notin Newer(feed, all, j)
      BY <1>1, <2>2 DEF Newest
    <2>4. At(feed, j) # At(feed, i) /\ j \in all
      BY <1>2, <2>2
    <2> QED BY <2>3, <2>4 DEF Newer
  <1>6. Cardinality(t) <= Cardinality(N)
    BY <1>3, <1>5, FS_Subset
  <1>7. CASE skip + take < Cardinality(all)
    BY <1>1, <1>6, <1>7 DEF Newest
  <1>8. CASE ~(skip + take < Cardinality(all))
    <2>1. Cardinality(t) = Cardinality(all)
      BY <1>1, <1>8 DEF Newest
    <2>2. t = all
      BY <1>2, <2>1, FS_Subset
    <2> QED BY <1>2, <1>5, <2>2
  <1> QED BY <1>7, <1>8

\* Row i cannot be expected within the first k all of a feed.
Beyond(feed, unread, k, i) ==
    LET newer == Cardinality(Newer(feed, Rows(feed, unread), i)) IN
    \/ \E j \in Rows(feed, unread) \ {i} : At(feed, j) = At(feed, i)
    \/ newer >= k
    \/ feed # "inbox" /\ newer >= Cap

LEMMA PageFollows ==
    ASSUME TablesTyped, NEW feed \in Feed, NEW unread \in BOOLEAN,
           NEW skip \in Nat, NEW take \in 1..Cap, feed = "inbox" \/ skip < Cap,
           NEW page \in Pages(feed, Rows(feed, unread), skip, TakeOf(feed, skip, take)),
           NEW i \in Rows(feed, unread) \ page, Beyond(feed, unread, skip, i)
    PROVE  Beyond(feed, unread, skip + take, i)
  <1> DEFINE all == Rows(feed, unread)
             newer == Cardinality(Newer(feed, all, i))
             most == TakeOf(feed, skip, take)
  <1>1. IsFiniteSet(all) /\ \A j \in all : At(feed, j) \in Nat
    BY RowsTyped
  <1>2. most \in Nat /\ (most = take \/ (feed # "inbox" /\ most = Cap - skip))
    <2>1. Cap \in Nat /\ take \in Nat /\ skip \in Nat
      BY EventFeedAssumption DEF EventFeedAssumption
    <2>2. CASE feed # "inbox" /\ skip + take > Cap
      BY <2>1, <2>2 DEF TakeOf
    <2>3. CASE feed = "inbox" \/ ~(skip + take > Cap)
      <3>1. most = take
        BY <2>3 DEF TakeOf
      <3> QED BY <2>1, <3>1
    <2> QED BY <2>2, <2>3
  <1>3. ASSUME \A j \in all \ {i} : At(feed, j) # At(feed, i), newer >= skip
        PROVE  newer >= skip + most
    <2>1. PICK m : m = most
      OBVIOUS
    <2>2. m \in Nat /\ page \in Pages(feed, all, skip, m) /\ i \in all \ page
      BY <1>2, <2>1
    <2> HIDE DEF most, all
    <2>3. newer >= skip + m
      BY <1>1, <1>3, <2>2, PageReaches
    <2> QED BY <2>1, <2>3
  <1>4. newer \in Nat
    BY <1>1, FS_Subset, FS_CardinalityType DEF Newer
  <1> HIDE DEF newer, most
  <1> QED BY <1>2, <1>3, <1>4, EventFeedAssumption DEF Beyond, newer, EventFeedAssumption

\* What the tables gain only makes a row be further down.
TablesGrow ==
    \A feed \in Feed, unread \in BOOLEAN :
        /\ Rows(feed, unread) \in SUBSET Rows(feed, unread)'
        /\ \A i \in Rows(feed, unread) : At(feed, i)' = At(feed, i)

LEMMA BeyondStays ==
    ASSUME TablesTyped, TablesTyped', NEW feed \in Feed, NEW unread \in BOOLEAN,
           Rows(feed, unread) \in SUBSET Rows(feed, unread)',
           \A j \in Rows(feed, unread) : At(feed, j)' = At(feed, j),
           NEW k \in Nat, NEW i \in Rows(feed, unread), Beyond(feed, unread, k, i)
    PROVE  Beyond(feed, unread, k, i)'
  <1> DEFINE N == Newer(feed, Rows(feed, unread), i)
  <1>1. N \in SUBSET N'
    BY DEF Newer
  <1>2. IsFiniteSet(N) /\ IsFiniteSet(N')
    <2>1. /\ DOMAIN log' = 1..Len(log') /\ Len(log') \in Nat
          /\ DOMAIN inbox' = 1..Len(inbox') /\ Len(inbox') \in Nat
      BY DEF TablesTyped
    <2>2. IsFiniteSet(DOMAIN log') /\ IsFiniteSet(DOMAIN inbox')
      BY <2>1, FS_Interval
    <2>3. Rows(feed, unread)' \in SUBSET DOMAIN log' \/ Rows(feed, unread)' \in SUBSET DOMAIN inbox'
      BY DEF Feed, Rows
    <2>4. IsFiniteSet(Rows(feed, unread)')
      BY <2>2, <2>3, FS_Subset
    <2>5. N \in SUBSET Rows(feed, unread) /\ N' \in SUBSET Rows(feed, unread)'
      BY DEF Newer
    <2> QED BY <2>4, <2>5, RowsTyped, FS_Subset
  <1>3. Cardinality(N) \in Nat /\ Cardinality(N') \in Nat /\ Cardinality(N) <= Cardinality(N')
    BY <1>1, <1>2, FS_Subset, FS_CardinalityType
  <1> HIDE DEF N
  <1> QED BY <1>3, EventFeedAssumption DEF Beyond, N, EventFeedAssumption

-----------------------------------------------------------------------------
(* EventFeed: the steps of writers *)

LEMMA AppendGrows ==
    ASSUME TablesTyped, NEW kind \in Kind, NEW metric \in Metric \cup {None},
           kind \in Alert => metric \in Metric, AppendRow(kind, metric), UNCHANGED <<now, inbox>>
    PROVE  TablesTyped' /\ TablesGrow
  <1> DEFINE row == [kind |-> kind, metric |-> metric, at |-> now]
  <1>1. row \in Row /\ log' = Append(log, row) /\ pending' = pending \cup {Len(log')}
    BY DEF AppendRow, Row, TablesTyped
  <1>2. /\ log' \in Seq(Row) /\ Len(log) \in Nat
        /\ DOMAIN log = 1..Len(log) /\ DOMAIN log' = 1..Len(log) + 1 /\ Len(log') = Len(log) + 1
        /\ log'[Len(log) + 1] = row
        /\ \A i \in DOMAIN log : i \in DOMAIN log' /\ log'[i] = log[i]
    <2> HIDE DEF row
    <2> QED BY <1>1 DEF TablesTyped
  <1>3. \A i \in DOMAIN log' : log'[i].kind \in Alert => log'[i].metric \in Metric
    <2>1. \A i \in DOMAIN log' : i \in DOMAIN log \/ i = Len(log) + 1
      BY <1>2
    <2> QED BY <1>2, <2>1 DEF TablesTyped
  <1>4. \A n \in DOMAIN inbox' : inbox'[n].of \in DOMAIN log'
    BY <1>2 DEF TablesTyped
  <1>5. pending' \in SUBSET DOMAIN log'
    BY <1>1, <1>2 DEF TablesTyped
  <1>6. TablesTyped'
    <2> HIDE DEF row
    <2> QED BY <1>2, <1>3, <1>4, <1>5 DEF TablesTyped
  <1>7. TablesGrow
    BY <1>2 DEF TablesGrow, Rows, At, Feed
  <1> QED BY <1>6, <1>7

LEMMA NotifyGrows ==
    ASSUME TablesTyped, NEW i \in pending, Notify(i)
    PROVE  TablesTyped' /\ TablesGrow
  <1> DEFINE row == [of |-> i, at |-> now, read |-> FALSE]
  <1>1. row \in Notice /\ inbox' = Append(inbox, row) /\ UNCHANGED <<now, log>>
    BY DEF Notify, Notice, TablesTyped
  <1>2. /\ inbox' \in Seq(Notice) /\ Len(inbox) \in Nat
        /\ DOMAIN inbox = 1..Len(inbox) /\ DOMAIN inbox' = 1..Len(inbox) + 1
        /\ inbox'[Len(inbox) + 1] = row
        /\ \A n \in DOMAIN inbox : n \in DOMAIN inbox' /\ inbox'[n] = inbox[n]
    <2> HIDE DEF row
    <2> QED BY <1>1 DEF TablesTyped
  <1>3. \A n \in DOMAIN inbox' : inbox'[n].of \in DOMAIN log
    <2>1. \A n \in DOMAIN inbox' : n \in DOMAIN inbox \/ n = Len(inbox) + 1
      BY <1>2
    <2>2. row.of \in DOMAIN log
      BY DEF TablesTyped
    <2> HIDE DEF row
    <2> QED BY <1>2, <2>1, <2>2 DEF TablesTyped
  <1>4. TablesTyped'
    <2> HIDE DEF row
    <2> QED BY <1>1, <1>2, <1>3 DEF TablesTyped, Notify
  <1>5. TablesGrow
    <2> HIDE DEF row
    <2> QED BY <1>1, <1>2 DEF TablesGrow, Rows, At, Feed
  <1> QED BY <1>4, <1>5

\* Marking changes neither order nor all, but for whoever reads unread notices only.
LEMMA MarkLeaves ==
    ASSUME TablesTyped, NEW ns \in SUBSET DOMAIN inbox, Mark(ns)
    PROVE  /\ TablesTyped'
           /\ \A feed \in Feed, i \in Nat :
                 At(feed, i)' = At(feed, i) \/ (feed = "inbox" /\ i \notin DOMAIN inbox)
           /\ \A feed \in Feed, unread \in BOOLEAN :
                 ~(feed = "inbox" /\ unread) => Rows(feed, unread)' = Rows(feed, unread)
  <1>1. /\ inbox' = [n \in DOMAIN inbox |->
                       IF n \in ns THEN [inbox[n] EXCEPT !.read = TRUE] ELSE inbox[n]]
        /\ UNCHANGED <<now, log, pending>>
    BY DEF Mark
  <1>2. /\ DOMAIN inbox = 1..Len(inbox) /\ Len(inbox) \in Nat
        /\ \A n \in DOMAIN inbox : inbox[n] \in Notice
    BY DEF TablesTyped
  <1>3. \A n \in DOMAIN inbox : /\ inbox'[n] \in Notice
                                /\ inbox'[n].at = inbox[n].at /\ inbox'[n].of = inbox[n].of
    BY <1>1, <1>2 DEF Notice
  <1>4. inbox' \in [1..Len(inbox) -> Notice]
    BY <1>1, <1>2, <1>3
  <1>5. inbox' \in Seq(Notice) /\ DOMAIN inbox' = DOMAIN inbox
    BY <1>1, <1>2, <1>4, SeqDef
  <1>6. TablesTyped'
    BY <1>1, <1>3, <1>5 DEF TablesTyped
  <1>7. \A feed \in Feed, i \in Nat :
           At(feed, i)' = At(feed, i) \/ (feed = "inbox" /\ i \notin DOMAIN inbox)
    BY <1>1, <1>3 DEF At
  <1>8. \A feed \in Feed, unread \in BOOLEAN :
           ~(feed = "inbox" /\ unread) => Rows(feed, unread)' = Rows(feed, unread)
    BY <1>1, <1>5 DEF Rows, Feed
  <1> QED BY <1>6, <1>7, <1>8

-----------------------------------------------------------------------------
(* EventFeed: the invariant *)

\* The link's row exists, and the page looked for begins on the last page at most.
FoundIsLinked ==
    \A feed \in Feed : req.pc = "found" /\ req.feed = feed =>
        /\ feed # "inbox" /\ ~req.unread
        /\ req.high \in Rows(feed, FALSE)
        /\ req.skip <= (LastPage - 1) * req.take

\* The all that still want a partner are all of the feed.
ItemsExist ==
    \A feed \in Feed : req.pc = "join" /\ req.feed = feed =>
        feed # "devices" /\ req.items \in SUBSET Rows(feed, FALSE)

\* What has not been seen of what was there at the beginning is beyond the pages so far.
WalkIsComplete ==
    \A feed \in Feed, unread \in BOOLEAN :
        /\ req.pc \in {"join", "done"} /\ req.high = None
        /\ req.feed = feed /\ req.unread = unread
        => /\ walk.marked => unread
           /\ ~walk.marked =>
                 /\ walk.base \in SUBSET Rows(feed, unread)
                 /\ \A i \in walk.base \ walk.seen, k \in Nat :
                       k = req.skip + req.take => Beyond(feed, unread, k, i)

FeedInv ==
    FeedTypes /\ FoundIsLinked /\ ItemsExist /\ HighlightIsShown /\ WalkIsComplete

LEMMA TablesStill ==
    ASSUME TablesTyped, UNCHANGED <<now, tables>>
    PROVE  /\ TablesTyped'
           /\ \A feed \in Feed, unread \in BOOLEAN :
                 /\ Rows(feed, unread)' = Rows(feed, unread)
                 /\ \A k \in Nat, i \in Nat :
                       Beyond(feed, unread, k, i)' <=> Beyond(feed, unread, k, i)
  <1>1. TablesTyped'
    BY DEF TablesTyped, tables
  <1>2. \A feed \in Feed, unread \in BOOLEAN : Rows(feed, unread)' = Rows(feed, unread)
    BY DEF Rows, tables
  <1>3. \A feed, i : At(feed, i)' = At(feed, i)
    BY DEF At, tables
  <1>4. \A feed \in Feed, unread \in BOOLEAN, k \in Nat, i \in Nat :
           Beyond(feed, unread, k, i)' <=> Beyond(feed, unread, k, i)
    BY <1>2, <1>3 DEF Beyond, Newer
  <1> QED BY <1>1, <1>2, <1>4

LEMMA GrowKeeps ==
    ASSUME FeedInv, TablesTyped', TablesGrow, UNCHANGED <<req, walk>>
    PROVE  FeedInv'
  <1>1. FeedTypes'
    BY DEF FeedInv, FeedTypes, RequestTyped, Request, WalkTyped
  <1>2. FoundIsLinked' /\ ItemsExist' /\ HighlightIsShown'
    BY DEF FeedInv, FoundIsLinked, ItemsExist, HighlightIsShown, TablesGrow
  <1>3. WalkIsComplete'
    <2> SUFFICES ASSUME NEW feed \in Feed, NEW unread \in BOOLEAN,
                        req.pc \in {"join", "done"}, req.high = None,
                        req.feed = feed, req.unread = unread
                 PROVE  /\ walk.marked => unread
                        /\ ~walk.marked =>
                              /\ walk.base \in SUBSET Rows(feed, unread)'
                              /\ \A i \in walk.base \ walk.seen, k \in Nat :
                                    k = req.skip + req.take => Beyond(feed, unread, k, i)'
      BY DEF WalkIsComplete
    <2>1. ASSUME ~walk.marked, NEW i \in walk.base \ walk.seen, NEW k \in Nat, k = req.skip + req.take
          PROVE  Beyond(feed, unread, k, i)'
      <3>1. i \in Rows(feed, unread) /\ Beyond(feed, unread, k, i)
        BY <2>1 DEF FeedInv, WalkIsComplete
      <3> QED BY <3>1, BeyondStays DEF FeedInv, FeedTypes, TablesGrow
    <2> QED BY <2>1 DEF FeedInv, WalkIsComplete, TablesGrow
  <1> QED BY <1>1, <1>2, <1>3 DEF FeedInv

LEMMA MarkKeeps ==
    ASSUME FeedInv, NEW ns \in SUBSET DOMAIN inbox, Mark(ns)
    PROVE  FeedInv'
  <1>1. /\ req' = req
        /\ walk' = [walk EXCEPT !.marked = req # NoRequest /\ req.unread]
    BY DEF Mark
  <1>2. walk'.base = walk.base /\ walk'.seen = walk.seen /\ WalkTyped'
        /\ (req # NoRequest => walk'.marked = req.unread)
    BY <1>1 DEF FeedInv, FeedTypes, WalkTyped, RequestTyped, Request
  <1>3. TablesTyped'
    BY MarkLeaves DEF FeedInv, FeedTypes
  <1>4. FeedTypes'
    BY <1>1, <1>2, <1>3 DEF FeedInv, FeedTypes, RequestTyped, Request
  <1>5. HighlightIsShown'
    BY <1>1 DEF FeedInv, HighlightIsShown
  <1>6. \A feed \in Feed : Rows(feed, FALSE)' = Rows(feed, FALSE)
    BY MarkLeaves DEF FeedInv, FeedTypes
  <1>7. FoundIsLinked' /\ ItemsExist'
    BY <1>1, <1>6 DEF FeedInv, FoundIsLinked, ItemsExist
  <1>8. WalkIsComplete'
    <2> SUFFICES ASSUME NEW feed \in Feed, NEW unread \in BOOLEAN,
                        req.pc \in {"join", "done"}, req.high = None,
                        req.feed = feed, req.unread = unread
                 PROVE  /\ walk'.marked => unread
                        /\ ~walk'.marked =>
                              /\ walk.base \in SUBSET Rows(feed, unread)'
                              /\ \A i \in walk.base \ walk.seen, k \in Nat :
                                    k = req.skip + req.take => Beyond(feed, unread, k, i)'
      BY <1>1, <1>2 DEF WalkIsComplete
    <2>1. walk'.marked = unread
      BY <1>2 DEF NoRequest
    <2>2. CASE unread
      BY <2>1, <2>2
    <2>3. CASE ~unread
      <3>1. ~walk.marked /\ walk.base \in SUBSET Rows(feed, unread)
        BY <2>3 DEF FeedInv, WalkIsComplete
      <3>2. Rows(feed, unread)' = Rows(feed, unread)
        BY <2>3, MarkLeaves DEF FeedInv, FeedTypes
      <3>3. \A j \in Rows(feed, unread) : At(feed, j)' = At(feed, j)
        <4>1. \A j \in Rows(feed, unread) : j \in Nat /\ (feed = "inbox" => j \in DOMAIN inbox)
          BY RowsTyped DEF Rows, FeedInv, FeedTypes
        <4> QED BY <4>1, MarkLeaves DEF FeedInv, FeedTypes
      <3>4. ASSUME NEW i \in walk.base \ walk.seen, NEW k \in Nat, k = req.skip + req.take
            PROVE  Beyond(feed, unread, k, i)'
        <4>1. i \in Rows(feed, unread) /\ Beyond(feed, unread, k, i)
          BY <3>1, <3>4 DEF FeedInv, WalkIsComplete
        <4> QED BY <1>3, <3>2, <3>3, <4>1, BeyondStays DEF FeedInv, FeedTypes
      <3> QED BY <2>1, <2>3, <3>1, <3>2, <3>4
    <2> QED BY <2>2, <2>3
  <1> QED BY <1>4, <1>5, <1>7, <1>8 DEF FeedInv

-----------------------------------------------------------------------------
(* EventFeed: the steps of readers *)

LEMMA ShowKeeps ==
    ASSUME FeedInv, Request, req.pc = "join", NEW partners, Show(partners)
    PROVE  FeedInv'
  <1>1. /\ Request' /\ req'.pc = "done"
        /\ req'.items = req.items /\ req'.high = req.high /\ req'.feed = req.feed
        /\ req'.take = req.take /\ req'.skip = req.skip /\ req'.unread = req.unread
        /\ walk' = walk
    BY Shows
  <1>2. TablesTyped /\ UNCHANGED <<now, tables>>
    BY Shows DEF FeedInv, FeedTypes
  <1>3. FeedTypes'
    BY <1>1, <1>2, TablesStill DEF FeedInv, FeedTypes, RequestTyped, WalkTyped
  <1>4. FoundIsLinked' /\ ItemsExist' /\ HighlightIsShown'
    BY <1>1 DEF FeedInv, FoundIsLinked, ItemsExist, HighlightIsShown
  <1>5. WalkIsComplete'
    <2> SUFFICES ASSUME NEW feed \in Feed, NEW unread \in BOOLEAN,
                        req.high = None, req.feed = feed, req.unread = unread
                 PROVE  /\ walk.marked => unread
                        /\ ~walk.marked =>
                              /\ walk.base \in SUBSET Rows(feed, unread)'
                              /\ \A i \in walk.base \ walk.seen, k \in Nat :
                                    k = req.skip + req.take => Beyond(feed, unread, k, i)'
      BY <1>1 DEF WalkIsComplete
    <2>1. walk.base \in SUBSET Nat
      BY DEF FeedInv, FeedTypes, WalkTyped
    <2> QED BY <1>2, <2>1, TablesStill DEF FeedInv, WalkIsComplete
  <1> QED BY <1>3, <1>4, <1>5 DEF FeedInv

\* The page that is looked for begins on the last page at the latest.
LEMMA TargetSkip ==
    ASSUME NEW newer \in Nat, NEW take \in 1..Cap
    PROVE  /\ (TargetPage(newer, take) - 1) * take \in Nat
           /\ (TargetPage(newer, take) - 1) * take <= (LastPage - 1) * take
  <1>1. take \in Nat /\ take > 0 /\ LastPage \in Nat /\ LastPage > 0
    BY EventFeedAssumption DEF EventFeedAssumption
  <1>2. newer \div take \in Nat
    BY <1>1
  <1>3. PICK p \in Nat : p = TargetPage(newer, take) - 1 /\ p <= LastPage - 1
    <2>1. PICK q \in Nat : q = newer \div take
      BY <1>2
    <2>2. TargetPage(newer, take) - 1 \in Nat /\ TargetPage(newer, take) - 1 <= LastPage - 1
      BY <1>1, <2>1 DEF TargetPage
    <2> QED BY <2>2
  <1>4. PICK d \in Nat : LastPage - 1 = p + d
    <2>1. LastPage - 1 - p \in Nat /\ LastPage - 1 = p + (LastPage - 1 - p)
      BY <1>1, <1>3
    <2> QED BY <2>1
  <1>5. p * take \in Nat /\ d * take \in Nat /\ (p + d) * take = p * take + d * take
    BY <1>1
  <1> QED BY <1>3, <1>4, <1>5

LEMMA FindKeeps ==
    ASSUME FeedInv, NEW feed \in Feed, NEW take \in LinkTake, NEW i \in DOMAIN log, Find(feed, take, i)
    PROVE  FeedInv'
  <1> DEFINE newer == Cardinality(Newer(feed, Rows(feed, FALSE), i))
             skip == (TargetPage(newer, take) - 1) * take
  <1>1. /\ feed # "inbox" /\ i \in Rows(feed, FALSE) /\ UNCHANGED <<now, ticks, tables, walk>>
        /\ req' = [pc |-> "found", feed |-> feed, unread |-> FALSE, take |-> take, skip |-> skip,
                   high |-> i, items |-> {}, shown |-> <<>>]
    BY DEF Find
  <1>2. take \in 1..Cap
    BY EventFeedAssumption DEF EventFeedAssumption
  <1>3. newer \in Nat /\ i \in Nat
    BY <1>1, RowsTyped, FS_Subset, FS_CardinalityType DEF Newer, FeedInv, FeedTypes
  <1>4. skip \in Nat /\ skip <= (LastPage - 1) * take
    BY <1>2, <1>3, TargetSkip
  <1> HIDE DEF newer, skip
  <1>5. Request' /\ req'.pc = "found" /\ req'.feed = feed /\ ~req'.unread
        /\ req'.high = i /\ req'.skip = skip /\ req'.take = take
    BY <1>1, <1>2, <1>3, <1>4 DEF Request, Fields
  <1>6. FeedTypes'
    BY <1>1, <1>5, TablesStill DEF FeedInv, FeedTypes, RequestTyped, WalkTyped
  <1>7. Rows(feed, FALSE)' = Rows(feed, FALSE)
    BY <1>1, TablesStill DEF FeedInv, FeedTypes
  <1>8. FoundIsLinked'
    BY <1>1, <1>4, <1>5, <1>7 DEF FoundIsLinked
  <1>9. ItemsExist' /\ HighlightIsShown' /\ WalkIsComplete'
    BY <1>5 DEF ItemsExist, HighlightIsShown, WalkIsComplete
  <1> QED BY <1>6, <1>8, <1>9 DEF FeedInv

LEMMA FetchFoundKeeps ==
    ASSUME FeedInv, FetchFound
    PROVE  FeedInv'
  <1>1. req.pc = "found" /\ Request
    BY DEF FetchFound, FeedInv, FeedTypes, RequestTyped, NoRequest
  <1>2. PICK feed \in Feed, take \in 1..Cap, skip \in Nat, high \in Nat :
           req.feed = feed /\ req.take = take /\ req.skip = skip /\ req.high = high
    BY <1>1, RowsTyped DEF Request, FeedInv, FeedTypes, FoundIsLinked
  <1>3. feed # "inbox" /\ high \in Rows(feed, FALSE) /\ skip <= (LastPage - 1) * take
    BY <1>1, <1>2 DEF FeedInv, FoundIsLinked
  <1>4. Fetch(feed, FALSE, take, skip, high, NoWalk)
    BY <1>2 DEF FetchFound, Fetch
  <1>5. high # None
    BY EventFeedAssumption DEF EventFeedAssumption
  <1>6. PICK page \in SUBSET Rows(feed, FALSE) :
           /\ req'.items = IF feed # "inbox" /\ skip >= Cap THEN {} ELSE Shown(page, high)
           /\ walk' = NoWalk
           /\ Request' /\ req'.pc \in {"join", "done"} /\ (req'.pc = "join" => feed # "devices")
           /\ req'.feed = feed /\ req'.take = take /\ req'.skip = skip /\ req'.high = high
           /\ UNCHANGED <<now, ticks, tables>>
    <2>1. Answer(feed, FALSE, take, skip, high, NoWalk)
      BY <1>4, Fetched, Zenon DEF FeedInv
    <2> QED BY <1>5, <2>1 DEF Answer
  <1>7. FeedTypes'
    BY <1>6, TablesStill DEF FeedInv, FeedTypes, RequestTyped, WalkTyped, NoWalk
  <1>8. ItemsExist'
    <2>1. Rows(feed, FALSE)' = Rows(feed, FALSE)
      BY <1>6, TablesStill DEF FeedInv, FeedTypes
    <2>2. req'.items \in SUBSET Rows(feed, FALSE)
      BY <1>3, <1>6 DEF Shown
    <2> QED BY <1>6, <2>1, <2>2 DEF ItemsExist
  <1>9. HighlightIsShown'
    <2>1. ASSUME (LastPage - 1) * take < Cap PROVE skip < Cap
      <3>1. PICK m : m = (LastPage - 1) * take
        OBVIOUS
      <3>2. m \in Int
        BY <3>1, EventFeedAssumption DEF EventFeedAssumption
      <3> QED BY <1>3, <2>1, <3>1, <3>2, EventFeedAssumption DEF EventFeedAssumption
    <2>2. ASSUME (LastPage - 1) * take < Cap PROVE high \in req'.items
      BY <1>5, <1>6, <2>1, <2>2, EventFeedAssumption DEF Shown, EventFeedAssumption
    <2> QED BY <1>6, <2>2 DEF HighlightIsShown
  <1>10. FoundIsLinked' /\ WalkIsComplete'
    BY <1>5, <1>6 DEF FoundIsLinked, WalkIsComplete
  <1> QED BY <1>7, <1>8, <1>9, <1>10 DEF FeedInv

\* A page of a walk that has so far been complete.
LEMMA WalkGoesOn ==
    ASSUME FeedInv, NEW feed \in Feed, NEW unread \in BOOLEAN, unread => feed = "inbox",
           NEW take \in 1..Cap, NEW skip \in Nat,
           NEW before \in [base : SUBSET Nat, seen : SUBSET Nat, marked : BOOLEAN],
           before.marked => unread,
           ~before.marked => /\ before.base \in SUBSET Rows(feed, unread)
                             /\ \A i \in before.base \ before.seen : Beyond(feed, unread, skip, i),
           Fetch(feed, unread, take, skip, None, before)
    PROVE  FeedInv'
  <1>1. Answer(feed, unread, take, skip, None, before)
    BY Fetched, Zenon DEF FeedInv
  <1>2. PICK page \in SUBSET Rows(feed, unread) :
           /\ IF feed # "inbox" /\ skip >= Cap THEN page = {}
              ELSE page \in Pages(feed, Rows(feed, unread), skip, TakeOf(feed, skip, take))
           /\ req'.items = IF feed # "inbox" /\ skip >= Cap THEN {} ELSE Shown(page, None)
           /\ walk' = [before EXCEPT !.seen = @ \cup page]
           /\ Request' /\ req'.pc \in {"join", "done"} /\ (req'.pc = "join" => feed # "devices")
           /\ req'.feed = feed /\ req'.unread = unread /\ req'.take = take
           /\ req'.skip = skip /\ req'.high = None
           /\ UNCHANGED <<now, ticks, tables>>
    BY <1>1 DEF Answer
  <1>3. /\ TablesTyped'
        /\ Rows(feed, unread)' = Rows(feed, unread) /\ Rows(feed, FALSE)' = Rows(feed, FALSE)
        /\ \A k \in Nat, i \in Nat : Beyond(feed, unread, k, i)' <=> Beyond(feed, unread, k, i)
    BY <1>2, TablesStill DEF FeedInv, FeedTypes
  <1>4. page \in SUBSET Nat
    BY <1>2, RowsTyped DEF FeedInv, FeedTypes
  <1>5. /\ walk'.base = before.base /\ walk'.seen = before.seen \cup page
        /\ walk'.marked = before.marked /\ WalkTyped'
    BY <1>2, <1>4 DEF WalkTyped
  <1>6. FeedTypes'
    BY <1>2, <1>3, <1>5 DEF FeedTypes, RequestTyped
  <1>7. ItemsExist'
    <2>1. Rows(feed, unread) \in SUBSET Rows(feed, FALSE)
      BY DEF Rows, Feed
    <2>2. req'.items \in SUBSET Rows(feed, unread)
      BY <1>2 DEF Shown
    <2> QED BY <1>2, <1>3, <2>1, <2>2 DEF ItemsExist
  <1>8. FoundIsLinked' /\ HighlightIsShown'
    BY <1>2 DEF FoundIsLinked, HighlightIsShown
  <1>9. WalkIsComplete'
    <2>1. ASSUME ~before.marked, NEW i \in before.base \ (before.seen \cup page)
          PROVE  Beyond(feed, unread, skip + take, i)
      <3>1. i \in Rows(feed, unread) \ page /\ Beyond(feed, unread, skip, i)
        BY <2>1
      <3>2. CASE feed = "inbox" \/ skip < Cap
        <4>1. page \in Pages(feed, Rows(feed, unread), skip, TakeOf(feed, skip, take))
          BY <1>2, <3>2, EventFeedAssumption DEF EventFeedAssumption
        <4> QED BY <3>1, <3>2, <4>1, PageFollows DEF FeedInv, FeedTypes
      <3>3. CASE feed # "inbox" /\ skip >= Cap
        <4>1. Cardinality(Newer(feed, Rows(feed, unread), i)) \in Nat
          BY RowsTyped, FS_Subset, FS_CardinalityType DEF Newer, FeedInv, FeedTypes
        <4> QED BY <3>1, <3>3, <4>1, EventFeedAssumption DEF Beyond, EventFeedAssumption
      <3> QED BY <3>2, <3>3, EventFeedAssumption DEF EventFeedAssumption
    <2>2. \A k \in Nat : k = req'.skip + req'.take => k = skip + take
      BY <1>2
    <2>3. ASSUME ~before.marked, NEW i \in before.base \ (before.seen \cup page), NEW k \in Nat,
                 k = req'.skip + req'.take
          PROVE  Beyond(feed, unread, k, i)'
      BY <1>3, <2>1, <2>2, <2>3
    <2> QED BY <1>2, <1>3, <1>5, <2>3 DEF WalkIsComplete
  <1> QED BY <1>6, <1>7, <1>8, <1>9 DEF FeedInv

LEMMA OpenKeeps ==
    ASSUME FeedInv, NEW feed \in Feed, NEW unread \in BOOLEAN, NEW take \in Take,
           Open(feed, unread, take)
    PROVE  FeedInv'
  <1>1. PICK before : before = [base |-> Rows(feed, unread), seen |-> {}, marked |-> FALSE]
    OBVIOUS
  <1>2. (unread => feed = "inbox") /\ Fetch(feed, unread, take, 0, None, before)
    BY <1>1 DEF Open, Fetch
  <1>3. Rows(feed, unread) \in SUBSET Nat /\ IsFiniteSet(Rows(feed, unread))
    BY RowsTyped DEF FeedInv, FeedTypes
  <1>4. before \in [base : SUBSET Nat, seen : SUBSET Nat, marked : BOOLEAN]
    BY <1>1, <1>3
  <1>5. \A i \in before.base \ before.seen : Beyond(feed, unread, 0, i)
    <2>1. \A i \in before.base \ before.seen : Cardinality(Newer(feed, Rows(feed, unread), i)) \in Nat
      BY <1>3, FS_Subset, FS_CardinalityType DEF Newer
    <2> QED BY <2>1 DEF Beyond
  <1>6. take \in 1..Cap
    BY EventFeedAssumption DEF EventFeedAssumption
  <1> QED BY <1>1, <1>2, <1>4, <1>5, <1>6, WalkGoesOn

LEMMA NextPageKeeps ==
    ASSUME FeedInv, NextPage
    PROVE  FeedInv'
  <1>1. req.pc = "done" /\ req.high = None /\ Request
    BY DEF NextPage, FeedInv, FeedTypes, RequestTyped, NoRequest
  <1>2. PICK feed \in Feed, unread \in BOOLEAN, take \in 1..Cap, skip \in Nat :
           req.feed = feed /\ req.unread = unread /\ req.take = take /\ skip = req.skip + req.take
    <2>1. req.skip + req.take \in Nat
      BY <1>1, EventFeedAssumption DEF Request, EventFeedAssumption
    <2> QED BY <1>1, <2>1 DEF Request
  <1>3. PICK before : before = walk
    OBVIOUS
  <1>4. Fetch(feed, unread, take, skip, None, before)
    BY <1>2, <1>3 DEF NextPage, Fetch
  <1>5. before \in [base : SUBSET Nat, seen : SUBSET Nat, marked : BOOLEAN]
    BY <1>3 DEF FeedInv, FeedTypes, WalkTyped
  <1>6. /\ before.marked => unread
        /\ ~before.marked => /\ before.base \in SUBSET Rows(feed, unread)
                             /\ \A i \in before.base \ before.seen : Beyond(feed, unread, skip, i)
    BY <1>1, <1>2, <1>3 DEF FeedInv, WalkIsComplete
  <1>7. unread => feed = "inbox"
    BY <1>1, <1>2 DEF Request
  <1> QED BY <1>4, <1>5, <1>6, <1>7, WalkGoesOn

LEMMA LeaveKeeps ==
    ASSUME FeedInv, Leave
    PROVE  FeedInv'
  <1>1. req' = NoRequest /\ walk' = NoWalk /\ UNCHANGED <<now, ticks, tables>>
    BY DEF Leave
  <1>2. FeedTypes'
    BY <1>1, TablesStill DEF FeedInv, FeedTypes, RequestTyped, WalkTyped, NoWalk
  <1>3. FoundIsLinked' /\ ItemsExist' /\ HighlightIsShown' /\ WalkIsComplete'
    BY <1>1 DEF NoRequest, FoundIsLinked, ItemsExist, HighlightIsShown, WalkIsComplete
  <1> QED BY <1>2, <1>3 DEF FeedInv

LEMMA FeedStep == FeedInv /\ [Next]_vars => FeedInv'
  <1> SUFFICES ASSUME FeedInv, [Next]_vars PROVE FeedInv'
    OBVIOUS
  <1>1. ASSUME Tick \/ UNCHANGED vars PROVE FeedInv'
    <2>1. UNCHANGED <<log, inbox, pending, req, walk>>
      BY <1>1 DEF Tick, vars, tables
    <2>2. now' \in Nat
      BY <1>1, EventFeedAssumption DEF Tick, vars, FeedInv, FeedTypes, TablesTyped,
         EventFeedAssumption
    <2>3. TablesTyped'
      BY <2>1, <2>2 DEF FeedInv, FeedTypes, TablesTyped
    <2>4. TablesGrow
      BY <2>1 DEF TablesGrow, Rows, At
    <2> QED BY <2>1, <2>3, <2>4, GrowKeeps
  <1>2. ASSUME NEW label \in Label, LogDevice(label) PROVE FeedInv'
    <2>1. label \in Metric \cup {None} /\ "OFFLINE" \in Kind /\ "OFFLINE" \notin Alert
      BY EventFeedAssumption DEF EventFeedAssumption, Kind, Alert
    <2> QED BY <1>2, <2>1, AppendGrows, GrowKeeps DEF LogDevice, FeedInv, FeedTypes
  <1>3. ASSUME NEW m \in Metric, NEW kind \in Alert, LogAlert(m, kind) PROVE FeedInv'
    <2>1. kind \in Kind
      BY DEF Kind
    <2> QED BY <1>3, <2>1, AppendGrows, GrowKeeps DEF LogAlert, FeedInv, FeedTypes
  <1>4. ASSUME NEW i \in pending, Notify(i) PROVE FeedInv'
    BY <1>4, NotifyGrows, GrowKeeps DEF Notify, FeedInv, FeedTypes
  <1>5. ASSUME NEW n \in DOMAIN inbox, MarkRead(n) PROVE FeedInv'
    BY <1>5, MarkKeeps DEF MarkRead
  <1>6. ASSUME MarkAllRead PROVE FeedInv'
    BY <1>6, MarkKeeps DEF MarkAllRead
  <1>7. ASSUME NEW feed \in Feed, NEW unread \in BOOLEAN, NEW take \in Take, Open(feed, unread, take)
        PROVE  FeedInv'
    BY <1>7, OpenKeeps
  <1>8. ASSUME NEW feed \in Feed, NEW take \in LinkTake, NEW i \in DOMAIN log, Find(feed, take, i)
        PROVE  FeedInv'
    BY <1>8, FindKeeps
  <1>9. ASSUME ShowLimits PROVE FeedInv'
    <2>1. req.pc = "join" /\ Request
      BY <1>9 DEF ShowLimits, FeedInv, FeedTypes, RequestTyped, NoRequest
    <2> QED BY <1>9, <2>1, ShowKeeps DEF ShowLimits
  <1>10. ASSUME LinkEvents PROVE FeedInv'
    <2>1. req.pc = "join" /\ Request
      BY <1>10 DEF LinkEvents, FeedInv, FeedTypes, RequestTyped, NoRequest
    <2> QED BY <1>10, <2>1, ShowKeeps DEF LinkEvents
  <1> QED BY <1>1, <1>2, <1>3, <1>4, <1>5, <1>6, <1>7, <1>8, <1>9, <1>10,
             NextPageKeeps, FetchFoundKeeps, LeaveKeeps DEF Next, Writing, Reading

LEMMA FeedInit == Init => FeedInv
  <1> SUFFICES ASSUME Init PROVE FeedInv
    OBVIOUS
  <1>1. TablesTyped
    BY DEF Init, TablesTyped
  <1>2. RequestTyped /\ WalkTyped
    BY DEF Init, RequestTyped, WalkTyped, NoWalk
  <1>3. FoundIsLinked /\ ItemsExist /\ HighlightIsShown /\ WalkIsComplete
    BY DEF Init, NoRequest, FoundIsLinked, ItemsExist, HighlightIsShown, WalkIsComplete
  <1> QED BY <1>1, <1>2, <1>3 DEF FeedInv, FeedTypes

\* What every step of writers and readers keeps: the inductive invariant of the feeds.
THEOREM FeedInvariant == Spec => []FeedInv
  <1> QED BY FeedInit, FeedStep, PTL DEF Spec

\* However the tables grow between the two queries of a link, the answer has its row.
THEOREM HighlightIsShownCorrect == Spec => []HighlightIsShown
  <1>1. FeedInv => HighlightIsShown
    BY DEF FeedInv
  <1> QED BY <1>1, FeedInvariant, PTL

\* Whatever is written while a client turns the pages, it is shown the all it began with.
THEOREM WalkMissesNothingCorrect == Spec => []WalkMissesNothing
  <1>1. ASSUME FeedInv PROVE WalkMissesNothing
    <2> SUFFICES ASSUME req.pc \in {"join", "done"}, req.high = None, ~walk.marked,
                        NEW i \in walk.base \ walk.seen
                 PROVE  LET all  == Rows(req.feed, req.unread)
                            newer == Cardinality(Newer(req.feed, all, i))
                        IN  \/ \E j \in all \ {i} : At(req.feed, j) = At(req.feed, i)
                            \/ newer >= req.skip + req.take
                            \/ req.feed # "inbox" /\ newer >= Cap
      BY DEF WalkMissesNothing
    <2>1. Request
      BY <1>1 DEF FeedInv, FeedTypes, RequestTyped, NoRequest
    <2>2. PICK k \in Nat : k = req.skip + req.take
      <3>1. req.skip + req.take \in Nat
        BY <2>1, EventFeedAssumption DEF Request, EventFeedAssumption
      <3> QED BY <3>1
    <2>3. PICK feed \in Feed, unread \in BOOLEAN : feed = req.feed /\ unread = req.unread
      BY <2>1 DEF Request
    <2>4. Beyond(feed, unread, k, i)
      BY <1>1, <2>2, <2>3 DEF FeedInv, WalkIsComplete
    <2> QED BY <2>2, <2>3, <2>4 DEF Beyond
  <1> QED BY <1>1, FeedInvariant, PTL

-----------------------------------------------------------------------------
(* EventFeed: the join *)

LEMMA LimitsAreOwn ==
    ASSUME FeedInv, ShowLimits
    PROVE  LimitIsOwn
  <1> DEFINE partners == [i \in {i \in req.items : Triggered(i)} |->
                             Nearest([n \in NoticesFor(i) |-> Gap(i, n)])]
  <1>1. Request /\ req.pc = "join" /\ req.feed = "sensors" /\ Show(partners)
    BY DEF ShowLimits, FeedInv, FeedTypes, RequestTyped, NoRequest
  <1>2. DOMAIN req'.shown = DOMAIN partners
        /\ \A i \in DOMAIN partners : req'.shown[i] \in partners[i]
    <2> HIDE DEF partners
    <2> QED BY <1>1, Shows
  <1> SUFFICES ASSUME NEW i \in DOMAIN req'.shown,
                      NEW n \in NoticesOfUser(i), MetricOf(n) = log[i].metric,
                      \A o \in NoticesOfUser(i) :
                         MetricOf(o) # log[i].metric /\ MetricOf(o) \in DeviceOf[log[i].metric]
                         => Gap(i, n) < Gap(i, o)
               PROVE  req'.shown[i] \in NoticesOfUser(i) /\ MetricOf(req'.shown[i]) = log[i].metric
    BY DEF LimitIsOwn
  <1>3. /\ i \in req.items /\ Triggered(i)
        /\ req'.shown[i] \in Nearest([o \in NoticesFor(i) |-> Gap(i, o)])
    BY <1>2
  <1>4. log[i].metric \in Metric /\ log[i].at \in Nat
    <2>1. i \in DOMAIN log
      BY <1>1, <1>3 DEF FeedInv, ItemsExist, Rows, Feed
    <2>2. log[i] \in Row
      BY <2>1 DEF FeedInv, FeedTypes, TablesTyped
    <2> QED BY <1>3, <2>1, <2>2 DEF FeedInv, FeedTypes, TablesTyped, Triggered, Alert, Row
  <1>5. n \in NoticesFor(i)
    BY <1>4, EventFeedAssumption DEF NoticesFor, NoticesOfUser, EventFeedAssumption
  <1>6. PICK r \in NoticesFor(i) : req'.shown[i] = r /\ \A o \in NoticesFor(i) : Gap(i, r) <= Gap(i, o)
    <2> DEFINE gap == [o \in NoticesFor(i) |-> Gap(i, o)]
    <2>1. DOMAIN gap = NoticesFor(i) /\ \A o \in NoticesFor(i) : gap[o] = Gap(i, o)
      OBVIOUS
    <2>2. req'.shown[i] \in Nearest(gap)
      BY <1>3
    <2> HIDE DEF gap
    <2> QED BY <1>5, <2>1, <2>2 DEF Nearest
  <1>7. \A o \in NoticesFor(i) : o \in NoticesOfUser(i) /\ Gap(i, o) \in Int
    <2>1. \A o \in DOMAIN inbox : inbox[o] \in Notice
      BY DEF FeedInv, FeedTypes, TablesTyped
    <2>2. \A o \in DOMAIN inbox : inbox[o].at \in Nat
      BY <2>1 DEF Notice
    <2> QED BY <1>4, <2>2 DEF NoticesFor, NoticesOfUser, Gap
  <1>8. CASE MetricOf(r) # log[i].metric
    <2>1. MetricOf(r) \in DeviceOf[log[i].metric]
      BY DEF NoticesFor
    <2> QED BY <1>5, <1>6, <1>7, <1>8, <2>1
  <1> QED BY <1>6, <1>7, <1>8

LEMMA LinksAreOwn ==
    ASSUME FeedInv, LinkEvents
    PROVE  LinkIsOwn
  <1> DEFINE partners == [n \in req.items |-> Nearest([i \in EventsFor(n) |-> Gap(i, n)])]
  <1>1. Request /\ req.pc = "join" /\ req.feed = "inbox" /\ Show(partners)
    BY DEF LinkEvents, FeedInv, FeedTypes, RequestTyped, NoRequest
  <1>2. DOMAIN req'.shown = DOMAIN partners
        /\ \A n \in DOMAIN partners : req'.shown[n] \in partners[n]
    <2> HIDE DEF partners
    <2> QED BY <1>1, Shows
  <1> SUFFICES ASSUME NEW n \in DOMAIN req'.shown,
                      KindOf(n) \in Alert \/ MetricOf(n) = None,
                      KindOf(n) \in Alert => ~(Gap(inbox[n].of, n) > Window),
                      ~\E i \in DOMAIN log \ {inbox[n].of} :
                          /\ log[i].kind = KindOf(n) /\ log[i].metric = MetricOf(n)
                          /\ Gap(i, n) <= Gap(inbox[n].of, n)
               PROVE  req'.shown[n] = IF KindOf(n) \in Alert THEN inbox[n].of ELSE None
    BY DEF LinkIsOwn
  <1>3. n \in DOMAIN inbox /\ req'.shown[n] \in Nearest([i \in EventsFor(n) |-> Gap(i, n)])
    BY <1>1, <1>2 DEF FeedInv, ItemsExist, Rows, Feed
  <1>4. /\ inbox[n].of \in DOMAIN log /\ inbox[n] \in Notice
        /\ \A i \in DOMAIN log : log[i] \in Row
    BY <1>3 DEF FeedInv, FeedTypes, TablesTyped
  <1>5. \A i \in DOMAIN log : Gap(i, n) \in Int
    <2>1. inbox[n].at \in Nat /\ \A i \in DOMAIN log : log[i].at \in Nat
      BY <1>4 DEF Notice, Row
    <2> QED BY <2>1 DEF Gap
  <1> DEFINE gap == [i \in EventsFor(n) |-> Gap(i, n)]
  <1>6. /\ DOMAIN gap = EventsFor(n) /\ \A i \in EventsFor(n) : gap[i] = Gap(i, n)
        /\ req'.shown[n] \in Nearest(gap)
    BY <1>3
  <1> HIDE DEF gap, partners
  <1>7. CASE KindOf(n) \in Alert
    <2>1. inbox[n].of \in EventsFor(n)
      BY <1>4, <1>5, <1>7, EventFeedAssumption DEF EventsFor, KindOf, MetricOf,
         EventFeedAssumption
    <2>2. PICK r \in EventsFor(n) : req'.shown[n] = r /\ Gap(r, n) <= Gap(inbox[n].of, n)
      BY <1>6, <2>1 DEF Nearest
    <2> QED BY <1>7, <2>2 DEF EventsFor
  <1>8. CASE KindOf(n) \notin Alert
    <2>1. \A i \in DOMAIN log : log[i].kind = "ALERT_RESOLVED" => log[i].metric # MetricOf(n)
      BY <1>8, EventFeedAssumption DEF FeedInv, FeedTypes, TablesTyped, Alert, EventFeedAssumption
    <2>2. EventsFor(n) = {}
      BY <1>8, <2>1 DEF EventsFor
    <2> QED BY <1>6, <1>8, <2>2 DEF Nearest
  <1> QED BY <1>7, <1>8

\* An alert is shown with its own limit, and a notice with its own log row, whenever time
\* tells them apart.
THEOREM JoinFindsPartnerCorrect == Spec => JoinFindsPartner
  <1>1. ASSUME FeedInv, [Next]_vars, req.pc = "join", req'.pc = "done"
        PROVE  IF req.feed = "inbox" THEN LinkIsOwn ELSE LimitIsOwn
    <2>1. CASE ShowLimits
      BY <1>1, <2>1, LimitsAreOwn DEF ShowLimits
    <2>2. CASE LinkEvents
      BY <1>1, <2>2, LinksAreOwn DEF LinkEvents
    <2>3. ShowLimits \/ LinkEvents
      <3>1. req' # req
        BY <1>1
      <3>2. ~(Tick \/ Writing)
        BY <3>1 DEF Tick, Writing, LogDevice, LogAlert, Notify, MarkRead, MarkAllRead, Mark
      <3>3. ~(NextPage \/ FetchFound \/ Leave)
        BY <1>1 DEF NextPage, FetchFound, Leave
      <3>4. ~(\E feed \in Feed, unread \in BOOLEAN, take \in Take : Open(feed, unread, take))
        BY <1>1 DEF Open
      <3>5. ~(\E feed \in Feed, take \in LinkTake, i \in DOMAIN log : Find(feed, take, i))
        BY <1>1 DEF Find
      <3> QED BY <1>1, <3>1, <3>2, <3>3, <3>4, <3>5 DEF Next, Reading, vars
    <2> QED BY <2>1, <2>2, <2>3
  <1>2. FeedInv /\ [Next]_vars =>
          [req.pc = "join" /\ req'.pc = "done" =>
              IF req.feed = "inbox" THEN LinkIsOwn ELSE LimitIsOwn]_vars
    BY <1>1
  <1> QED BY <1>2, FeedInvariant, PTL DEF Spec, JoinFindsPartner
=============================================================================
