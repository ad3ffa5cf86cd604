-------------------------------- MODULE Reports --------------------------------
(***************************************************************************)
(* Reports on demand: the request that queues one, the workers that make   *)
(* it, the status a client polls and the hourly clean-up (src/src/reports).*)
(*                                                                         *)
(* A report is three things that no transaction holds together: a row of   *)
(* GeneratedReport, a job of the BullMQ queue, and a file in the directory *)
(* that all nodes of a host share.  Workers and cleaners are those of all  *)
(* nodes.  What is in the file is abstracted: making it succeeds or fails. *)
(***************************************************************************)
EXTENDS Naturals, FiniteSets

CONSTANTS
    Report,         \* the identifiers of randomUUID
    Worker, Cleaner,
    Attempts,       \* of a job, 3
    MaxFailures,    \* bound: failures of any kind
    Nil

ASSUME ReportsAssumption ==
    Nil \notin Report \cup Worker /\ Attempts \in Nat \ {0} /\ MaxFailures \in Nat

VARIABLES
    asked,              \* per report: how far enqueueReport has come
    rows, keyed,        \* rows of GeneratedReport, and those with a fileKey
    expired,            \* rows whose expiresAt has passed
    files,
    job, tries, stalled,    \* the queue: state, failed attempts, stalled once
    lock,               \* the worker that holds the lock of an active job
    worker,             \* what each worker does, and for which report
    todo, at,           \* a cleaner's list, what is left of it, and where it is
    polled,             \* a status request that has read the row: its report
    failures,
    overdue,            \* see FilesAreTracked
    overtaken           \* see DisappearedOnlyIfOvertaken

table == <<rows, keyed, expired>>
queue == <<job, tries, stalled, lock>>
cleaning == <<todo, at>>
polling == <<polled, overtaken>>
reportsVars == <<asked, table, files, queue, worker, cleaning, polling, failures, overdue>>

Idle == [at |-> "idle", rep |-> Nil]

\* A cleaner's copy of a row: whether it had a fileKey when it was listed.
Entry == {"none", "plain", "keyed"}

ReportsInit ==
    /\ asked = [r \in Report |-> "no"]
    /\ rows = {} /\ keyed = {} /\ expired = {} /\ files = {}
    /\ job = [r \in Report |-> "none"] /\ tries = [r \in Report |-> 0] /\ stalled = {}
    /\ lock = [r \in Report |-> Nil]
    /\ worker = [w \in Worker |-> Idle]
    /\ todo = [c \in Cleaner |-> [r \in Report |-> "none"]]
    /\ at = [c \in Cleaner |-> Idle]
    /\ polled = Nil /\ overtaken = FALSE
    /\ failures = 0 /\ overdue = {}

Fail == failures < MaxFailures /\ failures' = failures + 1

-----------------------------------------------------------------------------
(* enqueueReport *)

\* The device is the user's; the job is added first, and may run at once.
Enqueue(r) ==
    /\ asked[r] = "no"
    /\ asked' = [asked EXCEPT ![r] = "added"]
    /\ job' = [job EXCEPT ![r] = "waiting"]
    /\ UNCHANGED <<table, files, tries, stalled, lock, worker, cleaning, polling, failures, overdue>>

CreateRow(r) ==
    /\ asked[r] = "added"
    /\ asked' = [asked EXCEPT ![r] = "answered"]
    /\ rows' = rows \cup {r}
    /\ UNCHANGED <<keyed, expired, files, queue, worker, cleaning, polling, failures, overdue>>

\* The node stops, or the insert fails: the job has no row.
CreateFails(r) ==
    /\ asked[r] = "added" /\ Fail
    /\ asked' = [asked EXCEPT ![r] = "answered"]
    /\ UNCHANGED <<table, files, queue, worker, cleaning, polling, overdue>>

-----------------------------------------------------------------------------
(* The worker *)

TakeJob(w, r) ==
    /\ worker[w].at = "idle" /\ job[r] = "waiting"
    /\ job' = [job EXCEPT ![r] = "active"]
    /\ lock' = [lock EXCEPT ![r] = w]
    /\ worker' = [worker EXCEPT ![w] = [at |-> "making", rep |-> r]]
    /\ UNCHANGED <<asked, table, files, tries, stalled, cleaning, polling, failures, overdue>>

\* BullMQ, for a job whose attempt failed; a worker without the lock changes nothing.
Retry(w) ==
    LET r == worker[w].rep
        t == tries[r] + 1 IN
    IF lock[r] = w
    THEN /\ tries' = [tries EXCEPT ![r] = t]
         /\ job' = [job EXCEPT ![r] = IF t < Attempts THEN "waiting" ELSE "failed"]
         /\ lock' = [lock EXCEPT ![r] = Nil]
    ELSE UNCHANGED <<tries, job, lock>>

\* writeFile replaces what an earlier attempt has left.
WriteFile(w) ==
    /\ worker[w].at = "making"
    /\ files' = files \cup {worker[w].rep}
    /\ worker' = [worker EXCEPT ![w].at = "writing"]
    /\ UNCHANGED <<asked, table, queue, cleaning, polling, failures, overdue>>

\* The device is no longer the user's, a query fails or the disk does, with part of a file left.
MakeFails(w) ==
    /\ worker[w].at = "making" /\ Fail
    /\ files' \in {files, files \cup {worker[w].rep}}
    /\ Retry(w)
    /\ worker' = [worker EXCEPT ![w] = Idle]
    /\ UNCHANGED <<asked, table, stalled, cleaning, polling, overdue>>

\* Mutant of SaveKey: the job is finished with the file, and the row follows by itself.
SaveKeyLater(w) ==
    LET r == worker[w].rep IN
    /\ worker[w].at \in {"writing", "saving"}
    /\ IF worker[w].at = "writing"
       THEN /\ job' = [job EXCEPT ![r] = "done"]
            /\ overtaken' = (overtaken \/ polled = r)
            /\ worker' = [worker EXCEPT ![w].at = "saving"]
            /\ UNCHANGED keyed
       ELSE /\ keyed' = keyed \cup ({r} \cap rows)
            /\ worker' = [worker EXCEPT ![w] = Idle]
            /\ UNCHANGED <<job, overtaken>>
    /\ UNCHANGED <<asked, rows, expired, files, tries, stalled, lock, cleaning, polled,
                   failures, overdue>>

\* The update throws when there is no row, or not yet (P2025).
SaveKey(w) ==
    LET r == worker[w].rep IN
    /\ worker[w].at = "writing"
    /\ IF r \in rows
       THEN /\ keyed' = keyed \cup {r}
            /\ worker' = [worker EXCEPT ![w].at = "keyed"]
            /\ UNCHANGED <<job, tries, lock>>
       ELSE /\ Retry(w)
            /\ worker' = [worker EXCEPT ![w] = Idle]
            /\ UNCHANGED keyed
    /\ UNCHANGED <<asked, rows, expired, files, stalled, cleaning, polling, failures, overdue>>

\* BullMQ, after process has returned: a job that is done leaves the queue.
Complete(w) ==
    LET r == worker[w].rep IN
    /\ worker[w].at = "keyed"
    /\ IF lock[r] = w
       THEN /\ job' = [job EXCEPT ![r] = "done"]
            /\ lock' = [lock EXCEPT ![r] = Nil]
            /\ overtaken' = (overtaken \/ polled = r)
       ELSE UNCHANGED <<job, lock, overtaken>>
    /\ worker' = [worker EXCEPT ![w] = Idle]
    /\ UNCHANGED <<asked, table, files, tries, stalled, cleaning, polled, failures, overdue>>

WorkerDies(w) ==
    /\ worker[w].at # "idle" /\ Fail
    /\ worker' = [worker EXCEPT ![w] = Idle]
    /\ UNCHANGED <<asked, table, files, queue, cleaning, polling, overdue>>

\* A lock that is not renewed, because its worker is dead, or (a failure) too busy: BullMQ
\* gives the job to another worker once, and fails it the second time.
Stall(r) ==
    /\ job[r] = "active"
    /\ IF worker[lock[r]].rep = r THEN Fail ELSE UNCHANGED failures
    /\ lock' = [lock EXCEPT ![r] = Nil]
    /\ IF r \in stalled
       THEN job' = [job EXCEPT ![r] = "failed"] /\ UNCHANGED stalled
       ELSE job' = [job EXCEPT ![r] = "waiting"] /\ stalled' = stalled \cup {r}
    /\ UNCHANGED <<asked, table, files, tries, worker, cleaning, polling, overdue>>

-----------------------------------------------------------------------------
(* getReportStatus *)

PollRow(r) ==
    /\ polled = Nil /\ r \in rows \ keyed
    /\ polled' = r /\ overtaken' = FALSE
    /\ UNCHANGED <<asked, table, files, queue, worker, cleaning, failures, overdue>>

\* The answer, when the row that was read has no fileKey.
Status(r) ==
    CASE job[r] = "done" -> "disappeared"
      [] job[r] = "failed" -> "failed"
      [] OTHER -> "processing"

PollJob ==
    /\ polled # Nil
    /\ polled' = Nil /\ overtaken' = FALSE
    /\ UNCHANGED <<asked, table, files, queue, worker, cleaning, failures, overdue>>

-----------------------------------------------------------------------------
(* cleanupExpiredReports, at the start of a node and every hour *)

\* 24 hours have passed.
Expire(r) ==
    /\ r \in rows \ expired
    /\ expired' = expired \cup {r}
    /\ overdue' = IF \/ job[r] \in {"waiting", "active"}
                     \/ \E w \in Worker : worker[w].rep = r
                  THEN overdue \cup {r} ELSE overdue
    /\ UNCHANGED <<asked, rows, keyed, files, queue, worker, cleaning, polling, failures>>

\* Mutant of Listed: reports that were never finished are left to themselves.
ListedFinished(r) == r \in expired /\ r \in keyed

Listed(r) == r \in expired

List(c) ==
    /\ \A r \in Report : todo[c][r] = "none"
    /\ \E r \in Report : Listed(r)
    /\ todo' = [todo EXCEPT ![c] = [r \in Report |->
                    IF ~Listed(r) THEN "none" ELSE IF r \in keyed THEN "keyed" ELSE "plain"]]
    /\ UNCHANGED <<asked, table, files, queue, worker, at, polling, failures, overdue>>

Done(c, r) == todo' = [todo EXCEPT ![c][r] = "none"]
DeleteRow(r) == rows' = rows \ {r} /\ keyed' = keyed \ {r} /\ expired' = expired \ {r}

\* existsSync and unlink: a file that is gone already is no obstacle.
Unlink(c, r) ==
    /\ at[c].at = "idle" /\ todo[c][r] = "keyed"
    /\ files' = files \ {r}
    /\ at' = [at EXCEPT ![c] = [at |-> "unlinked", rep |-> r]]
    /\ UNCHANGED <<asked, table, queue, worker, todo, polling, failures, overdue>>

\* Mutant of UnlinkFails: a file that could not be deleted is forgotten.
UnlinkForgets(c, r) ==
    /\ at[c].at = "idle" /\ todo[c][r] = "keyed" /\ Fail
    /\ at' = [at EXCEPT ![c] = [at |-> "unlinked", rep |-> r]]
    /\ UNCHANGED <<asked, table, files, queue, worker, todo, polling, overdue>>

\* The error is logged, and the row stays for the next sweep; also when another node has
\* deleted the file between the look and the unlink (ENOENT).
UnlinkFails(c, r) ==
    /\ at[c].at = "idle" /\ todo[c][r] = "keyed"
    /\ \/ Fail
       \/ /\ \E d \in Cleaner : at[d].at = "unlinked" /\ at[d].rep = r
          /\ UNCHANGED failures
    /\ Done(c, r)
    /\ UNCHANGED <<asked, table, files, queue, worker, at, polling, overdue>>

\* A row another node has deleted throws (P2025), and is logged.
DeleteKeyed(c) ==
    LET r == at[c].rep IN
    /\ at[c].at = "unlinked"
    /\ DeleteRow(r)
    /\ Done(c, r)
    /\ at' = [at EXCEPT ![c] = Idle]
    /\ UNCHANGED <<asked, files, queue, worker, polling, failures, overdue>>

\* Outside of the inner try: the same error ends the sweep.
DeletePlain(c, r) ==
    /\ at[c].at = "idle" /\ todo[c][r] = "plain"
    /\ DeleteRow(r)
    /\ IF r \in rows THEN Done(c, r)
       ELSE todo' = [todo EXCEPT ![c] = [s \in Report |-> "none"]]
    /\ UNCHANGED <<asked, files, queue, worker, at, polling, failures, overdue>>

CleanerDies(c) ==
    /\ \E r \in Report : todo[c][r] # "none"
    /\ Fail
    /\ todo' = [todo EXCEPT ![c] = [r \in Report |-> "none"]]
    /\ at' = [at EXCEPT ![c] = Idle]
    /\ UNCHANGED <<asked, table, files, queue, worker, polling, overdue>>

-----------------------------------------------------------------------------

Asking(r) == Enqueue(r) \/ CreateRow(r) \/ CreateFails(r) \/ PollRow(r)

Working(w) ==
    \/ \E r \in Report : TakeJob(w, r)
    \/ WriteFile(w) \/ MakeFails(w) \/ SaveKey(w) \/ Complete(w) \/ WorkerDies(w)

Sweep(c) ==
    \/ List(c) \/ DeleteKeyed(c)
    \/ \E r \in Report : Unlink(c, r) \/ DeletePlain(c, r)

SweepFails(c) == CleanerDies(c) \/ \E r \in Report : UnlinkFails(c, r)

ReportsNext ==
    \/ \E r \in Report : Asking(r) \/ Stall(r) \/ Expire(r)
    \/ \E w \in Worker : Working(w)
    \/ \E c \in Cleaner : Sweep(c) \/ SweepFails(c)
    \/ PollJob

\* The hourly cron and the loop it runs; nothing here asks for workers that never fail.
Fairness == \A c \in Cleaner : WF_reportsVars(Sweep(c))

ReportsSpec == ReportsInit /\ [][ReportsNext]_reportsVars /\ Fairness

-----------------------------------------------------------------------------
(* Properties *)

\* A finished report's file is never left on the disk without its row, by which alone the
\* clean-up finds it.  Excused are reports whose row expired while their job had not ended
\* (the worker writes after the sweep).  Of jobs that fail for good nothing is said: the
\* clean-up takes a row without fileKey for one without a file, and leaves what an attempt
\* has written.
FilesAreTracked == \A r \in files \ overdue : job[r] = "done" => r \in rows

\* A client is told that the job disappeared before completion only if the job completed
\* between the two reads of the status request: the fileKey is in the row before the job
\* leaves the queue.
DisappearedOnlyIfOvertaken ==
    polled # Nil /\ Status(polled) = "disappeared" => overtaken

\* Every expired row is deleted in the end, however often sweeps of two nodes disturb each
\* other, and although one deleted row ends the whole sweep of the other node.
ExpiredAreCleaned == \A r \in Report : r \in expired ~> r \notin rows
=============================================================================
