------------------------------ MODULE AccountCodes ------------------------------
(***************************************************************************)
(* One e-mail address: its one-time codes, the counters and the lockout    *)
(* that guard them in Redis (src/src/auth/auth.service, the own codes of   *)
(* src/src/module/users), the queue that mails them (src/src/mail) and the *)
(* suppression list that the mail provider's webhook keeps                 *)
(* (src/src/notifications).                                                *)
(*                                                                         *)
(* A Process is a request in flight; every command to Redis and every      *)
(* query is an action.  What a successful request goes on to do with the   *)
(* user's sessions is the subject of Sessions.  Phone codes are off        *)
(* (REQUIRE_PHONE_VERIFICATION) and would be the same again.               *)
(***************************************************************************)
EXTENDS Naturals, FiniteSets

CONSTANTS
    Process,
    MaxFailures,    \* MAX_FAILED_OTP_ATTEMPTS, 5
    RateLimit,      \* requests per window of checkAccountRateLimit, 3
    OwnLimit,       \* requests per hour of checkRateLimit, 5
    Attempts,       \* of a mail job, 3
    MaxRequests,    \* bound: requests
    MaxCrashes,     \* bound: requests that die half way
    MaxEras         \* bound: suppressions

ASSUME AccountCodesAssumption ==
    /\ IsFiniteSet(Process)
    /\ MaxFailures \in Nat \ {0} /\ RateLimit \in Nat \ {0} /\ OwnLimit \in Nat \ {0}
    /\ Attempts \in Nat \ {0} /\ MaxRequests \in Nat /\ MaxCrashes \in Nat /\ MaxEras \in Nat

VARIABLES
    exists, verified,   \* the row of User
    proof,              \* the code that verified it, or 0 when none did
    count, timed,       \* Redis counters: the value (0: no key) and whether the key has a TTL
    locked, cooling,    \* Redis: the keys lockout: and rate_limit:otp_cooldown:
    code,               \* Redis: the current code of each kind (0: no key)
    suppressed,         \* Redis: the address is in suppressed_emails
    mail, tries,        \* the job of each code, and its failed attempts while it is queued
    pc, task,           \* the next step of each process, and what it has in hand
    requests, crashes,
    issued,             \* codes made so far
    era, eraOf,         \* suppressions so far; how many when a code's request checked
    guesses,            \* wrong guesses judged since the counters were last reset
    stuck               \* counters whose missing TTL nobody will set any more

user  == <<exists, verified, proof>>
redis == <<count, timed, locked, cooling, code, suppressed>>
queue == <<mail, tries>>
process == <<pc, task>>
bounds  == <<requests, crashes>>
history == <<issued, era, eraOf, guesses, stuck>>
vars == <<user, redis, queue, process, bounds, history>>

Kind == {"email", "reset"}
Counter == {"failures", "signup", "email", "reset", "own"}
Id == 1..MaxRequests

Asks == {"signup", "email", "reset"}        \* ask for a code
Operation == Asks \cup
             {"verify", "change", "login",  \* present a code, or a password
              "own", "admin", "bounce"}
KindOf(op) == IF op \in {"reset", "change"} THEN "reset" ELSE "email"

Task == [op : Operation, id : 0..MaxRequests, era : Nat, read : Nat]
Nothing == [op |-> "login", id |-> 0, era |-> 0, read |-> 0]

Init ==
    /\ exists \in BOOLEAN /\ verified = FALSE /\ proof = 0
    /\ \E f \in 0..(MaxFailures - 1) :  \* failures of the running window
          /\ count = [c \in Counter |-> IF c = "failures" THEN f ELSE 0]
          /\ timed = [c \in Counter |-> c = "failures" /\ f > 0]
          /\ guesses = f
    /\ locked = FALSE /\ cooling = FALSE
    /\ code = [k \in Kind |-> 0]
    /\ suppressed \in BOOLEAN       \* the list outlives the user
    /\ mail = [i \in Id |-> "none"] /\ tries = [i \in Id |-> 0]
    /\ pc = [p \in Process |-> "idle"] /\ task = [p \in Process |-> Nothing]
    /\ requests = 0 /\ crashes = 0
    /\ issued = 0 /\ era = IF suppressed THEN 1 ELSE 0
    /\ eraOf = [i \in Id |-> 0] /\ stuck = {}

Goto(p, place) == pc' = [pc EXCEPT ![p] = place]

\* The answer, or an exception.
End(p) == Goto(p, "idle") /\ task' = [task EXCEPT ![p] = Nothing]

Start(p, place, op) ==
    /\ pc[p] = "idle" /\ requests < MaxRequests
    /\ requests' = requests + 1
    /\ Goto(p, place)
    /\ task' = [task EXCEPT ![p] = [Nothing EXCEPT !.op = op,
                                        !.era = IF op \in Asks THEN era ELSE 0]]
    /\ UNCHANGED <<user, redis, queue, crashes, history>>

\* INCR of a key that has no TTL yet, or keeps the one it has.
Incr(c) == count' = [count EXCEPT ![c] = @ + 1] /\ UNCHANGED timed

\* EXPIRE does nothing when there is no such key.
SetTtl(c) == timed' = [timed EXCEPT ![c] = count[c] > 0] /\ UNCHANGED count

Del(c) ==
    /\ count' = [count EXCEPT ![c] = 0]
    /\ timed' = [timed EXCEPT ![c] = FALSE]
    /\ stuck' = stuck \ {c}

-----------------------------------------------------------------------------
(* Asking for a code: signup, requestEmailOtp, forgotPassword *)

Signup(p) == Start(p, "lock", "signup")

\* An address on the suppression list is refused before anything else is looked at.
RequestCode(p, op) == ~suppressed /\ Start(p, "lock", op)

RequestEmailOtp(p) == RequestCode(p, "email")
ForgotPassword(p)  == RequestCode(p, "reset")

CheckLockout(p) ==
    /\ pc[p] = "lock"
    /\ IF locked THEN End(p)
       ELSE /\ Goto(p, IF task[p].op \in Asks THEN "rate" ELSE "judge")
            /\ UNCHANGED task
    /\ UNCHANGED <<user, redis, queue, bounds, history>>

\* checkAccountRateLimit: INCR, EXPIRE after the first, and the limit.
CountRequest(p) ==
    LET c == task[p].op
        current == count[c] + 1 IN
    /\ pc[p] = "rate"
    /\ Incr(c)
    /\ IF current = 1 THEN Goto(p, "rateTtl") /\ UNCHANGED task
       ELSE IF current > RateLimit THEN End(p)
       ELSE Goto(p, "find") /\ UNCHANGED task
    /\ UNCHANGED <<user, locked, cooling, code, suppressed, queue, bounds, history>>

TimeRequests(p) ==
    /\ pc[p] = "rateTtl"
    /\ SetTtl(task[p].op)
    /\ Goto(p, "find")
    /\ UNCHANGED <<user, locked, cooling, code, suppressed, queue, task, bounds, history>>

\* The lookup of the user; signup creates it, unless its e-mail is taken.
FindUser(p) ==
    LET op == task[p].op
        goes == CASE op = "signup" -> ~exists
                  [] op = "email" -> exists /\ ~verified
                  [] op = "reset" -> exists IN
    /\ pc[p] = "find"
    /\ IF goes THEN Goto(p, "set") /\ UNCHANGED task ELSE End(p)
    /\ exists' = (exists \/ op = "signup")
    /\ UNCHANGED <<verified, proof, redis, queue, bounds, history>>

\* SET replaces the code of an earlier request.
SetCode(p) ==
    LET i == issued + 1 IN
    /\ pc[p] = "set"
    /\ issued' = i
    /\ eraOf' = [eraOf EXCEPT ![i] = task[p].era]
    /\ code' = [code EXCEPT ![KindOf(task[p].op)] = i]
    /\ task' = [task EXCEPT ![p].id = i]
    /\ Goto(p, "mail")
    /\ UNCHANGED <<user, count, timed, locked, cooling, suppressed, queue, bounds,
                   era, guesses, stuck>>

\* MailService: an error of the queue is logged, and the request succeeds all the same.
Enqueue(p) ==
    /\ pc[p] = "mail"
    /\ \E added \in BOOLEAN :
          mail' = IF added THEN [mail EXCEPT ![task[p].id] = "queued"] ELSE mail
    /\ End(p)
    /\ UNCHANGED <<user, redis, tries, bounds, history>>

-----------------------------------------------------------------------------
(* The worker of the mail queue *)

\* Mutant of MailCheck: the list is not looked at.
MailUnchecked(i) ==
    /\ mail[i] = "queued"
    /\ mail' = [mail EXCEPT ![i] = "checked"]
    /\ UNCHANGED <<user, redis, tries, process, bounds, history>>

\* sendHtmlEmail looks the address up in every attempt ...
MailCheck(i) ==
    /\ mail[i] = "queued"
    /\ mail' = [mail EXCEPT ![i] = IF suppressed THEN "dropped" ELSE "checked"]
    /\ tries' = IF suppressed THEN [tries EXCEPT ![i] = 0] ELSE tries
    /\ UNCHANGED <<user, redis, process, bounds, history>>

\* ... and the provider takes the mail, or rejects it for good, ...
MailSend(i) ==
    /\ mail[i] = "checked"
    /\ mail' \in {[mail EXCEPT ![i] = "sent"], [mail EXCEPT ![i] = "dropped"]}
    /\ tries' = [tries EXCEPT ![i] = 0]
    /\ UNCHANGED <<user, redis, process, bounds, history>>

\* ... or fails, and BullMQ tries again, until the attempts are used up.
MailError(i) ==
    /\ mail[i] = "checked"
    /\ IF tries[i] + 1 < Attempts
       THEN mail' = [mail EXCEPT ![i] = "queued"] /\ tries' = [tries EXCEPT ![i] = @ + 1]
       ELSE mail' = [mail EXCEPT ![i] = "dropped"] /\ tries' = [tries EXCEPT ![i] = 0]
    /\ UNCHANGED <<user, redis, process, bounds, history>>

-----------------------------------------------------------------------------
(* Presenting a code or a password: verifyEmailOtp, resetPassword, login *)

Present(p, op) == Start(p, "lock", op)

VerifyEmailOtp(p) == Present(p, "verify")
ResetPassword(p)  == Present(p, "change")
Login(p)          == Present(p, "login")

\* Who knows a code has got it by mail; the row of a login is read here.
Judge(p) ==
    LET op == task[p].op
        current == code[KindOf(op)] IN
    /\ pc[p] = "judge"
    /\ \/ /\ IF op = "login" THEN exists ELSE current # 0 /\ mail[current] = "sent"
          /\ task' = [task EXCEPT ![p].id = IF op = "login" THEN 0 ELSE current]
          /\ Goto(p, "clear")
          /\ UNCHANGED guesses
       \/ /\ guesses' = guesses + 1
          /\ Goto(p, "fail")
          /\ UNCHANGED task
    /\ UNCHANGED <<user, redis, queue, bounds, issued, era, eraOf, stuck>>

\* Mutant of RecordFailure: the TTL is set before the key is there.
RecordFailureTimed(p) ==
    /\ pc[p] = "fail"
    /\ count' = [count EXCEPT !["failures"] = @ + 1]
    /\ timed' = [timed EXCEPT !["failures"] = count["failures"] > 0]
    /\ IF count["failures"] + 1 >= MaxFailures THEN Goto(p, "lockout") /\ UNCHANGED task
       ELSE End(p)
    /\ UNCHANGED <<user, locked, cooling, code, suppressed, queue, bounds, history>>

\* recordFailure: INCR, EXPIRE after the first, and the lockout after the last.
RecordFailure(p) ==
    LET failures == count["failures"] + 1 IN
    /\ pc[p] = "fail"
    /\ Incr("failures")
    /\ task' = [task EXCEPT ![p].read = failures]
    /\ Goto(p, IF failures = 1 THEN "failTtl" ELSE "failed")
    /\ UNCHANGED <<user, locked, cooling, code, suppressed, queue, bounds, history>>

TimeFailures(p) ==
    /\ pc[p] = "failTtl"
    /\ SetTtl("failures")
    /\ Goto(p, "failed")
    /\ UNCHANGED <<user, locked, cooling, code, suppressed, queue, task, bounds, history>>

\* Mutant of LockOut: the counter goes first.
LockOutLate(p) ==
    \/ /\ pc[p] = "failed"
       /\ IF task[p].read >= MaxFailures
          THEN Del("failures") /\ Goto(p, "forget") /\ UNCHANGED task
          ELSE End(p) /\ UNCHANGED <<count, timed, stuck>>
       /\ UNCHANGED <<locked, user, cooling, code, suppressed, queue, bounds,
                      issued, era, eraOf, guesses>>
    \/ /\ pc[p] = "forget"
       /\ locked' = TRUE
       /\ End(p)
       /\ UNCHANGED <<count, timed, user, cooling, code, suppressed, queue, bounds, history>>

\* The lockout is set before the counter is deleted.  When it has been lifted in between, the
\* DEL takes with it whatever has been counted since.
LockOut(p) ==
    \/ /\ pc[p] = "failed"
       /\ IF task[p].read >= MaxFailures
          THEN locked' = TRUE /\ Goto(p, "forget") /\ UNCHANGED task
          ELSE End(p) /\ UNCHANGED locked
       /\ UNCHANGED <<count, timed, user, cooling, code, suppressed, queue, bounds, history>>
    \/ /\ pc[p] = "forget"
       /\ Del("failures") /\ guesses' = IF locked THEN guesses ELSE 0
       /\ End(p)
       /\ UNCHANGED <<locked, user, cooling, code, suppressed, queue, bounds,
                      issued, era, eraOf>>

\* clearFailures: the counter, then the lockout.
ClearFailures(p) ==
    /\ pc[p] = "clear"
    /\ Del("failures") /\ guesses' = 0
    /\ Goto(p, "clearLock")
    /\ UNCHANGED <<user, locked, cooling, code, suppressed, queue, task, bounds,
                   issued, era, eraOf>>

ClearLockout(p) ==
    /\ pc[p] = "clearLock"
    /\ locked' = FALSE /\ guesses' = 0
    /\ IF task[p].op = "login" THEN End(p) ELSE Goto(p, "prove") /\ UNCHANGED task
    /\ UNCHANGED <<user, count, timed, cooling, code, suppressed, queue, bounds,
                   issued, era, eraOf, stuck>>

\* verifyEmailOtp marks the address as verified, resetPassword sets the password.
Prove(p) ==
    /\ pc[p] = "prove"
    /\ IF exists THEN Goto(p, "spend") /\ UNCHANGED task ELSE End(p)
    /\ IF exists /\ task[p].op = "verify"
       THEN verified' = TRUE /\ proof' = task[p].id
       ELSE UNCHANGED <<verified, proof>>
    /\ UNCHANGED <<exists, redis, queue, bounds, history>>

\* DEL of the key, whichever code it holds by now.
SpendCode(p) ==
    /\ pc[p] = "spend"
    /\ code' = [code EXCEPT ![KindOf(task[p].op)] = 0]
    /\ End(p)
    /\ UNCHANGED <<user, count, timed, locked, cooling, suppressed, queue, bounds, history>>

\* googleLogin with a new Google id or organisation takes Google's word, or makes the user.
GoogleLogin ==
    /\ requests < MaxRequests /\ requests' = requests + 1
    /\ exists' = TRUE /\ verified' = TRUE /\ proof' = 0
    /\ UNCHANGED <<redis, queue, process, crashes, history>>

-----------------------------------------------------------------------------
(* The own codes of UsersService: nothing mails them, only their limits matter here *)

OwnRequest(p) ==
    /\ exists /\ ~verified /\ ~cooling
    /\ Start(p, "ownCount", "own")

OwnCheck(p) ==
    /\ pc[p] = "ownCount"
    /\ IF count["own"] >= OwnLimit THEN End(p)
       ELSE Goto(p, "ownCool") /\ task' = [task EXCEPT ![p].read = count["own"]]
    /\ UNCHANGED <<user, redis, queue, bounds, history>>

OwnCool(p) ==
    /\ pc[p] = "ownCool"
    /\ cooling' = TRUE
    /\ Goto(p, "ownIncr")
    /\ UNCHANGED <<user, count, timed, locked, code, suppressed, queue, task, bounds, history>>

\* Whether the key is new is judged by the value that was read before: a counter that has
\* lapsed since is made again, and nobody sets its TTL.
OwnIncr(p) ==
    /\ pc[p] = "ownIncr"
    /\ Incr("own")
    /\ IF task[p].read = 0
       THEN Goto(p, "ownTtl") /\ UNCHANGED <<task, stuck>>
       ELSE /\ End(p)
            /\ stuck' = IF timed["own"] THEN stuck ELSE stuck \cup {"own"}
    /\ UNCHANGED <<user, locked, cooling, code, suppressed, queue, bounds,
                   issued, era, eraOf, guesses>>

OwnTtl(p) ==
    /\ pc[p] = "ownTtl"
    /\ SetTtl("own")
    /\ stuck' = stuck \ {"own"}
    /\ End(p)
    /\ UNCHANGED <<user, locked, cooling, code, suppressed, queue, bounds,
                   issued, era, eraOf, guesses>>

-----------------------------------------------------------------------------
(* The administrator, the mail provider, time and failures *)

UnlockUser(p) == Start(p, "unlock", "admin")

UnlockLockout(p) ==
    /\ pc[p] = "unlock"
    /\ locked' = FALSE /\ guesses' = 0
    /\ Goto(p, "unlockCount")
    /\ UNCHANGED <<user, count, timed, cooling, code, suppressed, queue, task, bounds,
                   issued, era, eraOf, stuck>>

UnlockCounter(p) ==
    /\ pc[p] = "unlockCount"
    /\ Del("failures") /\ guesses' = 0
    /\ End(p)
    /\ UNCHANGED <<user, locked, cooling, code, suppressed, queue, bounds, issued, era, eraOf>>

RemoveSuppressedEmail ==
    /\ suppressed
    /\ suppressed' = FALSE
    /\ UNCHANGED <<user, count, timed, locked, cooling, code, queue, process, bounds, history>>

\* The webhook: a mail has bounced, or its reader complained.
Bounce(p) ==
    /\ \E i \in Id : mail[i] = "sent"
    /\ era < MaxEras
    /\ Start(p, "unverify", "bounce")

Unverify(p) ==
    /\ pc[p] = "unverify"
    /\ verified' = FALSE /\ proof' = 0
    /\ Goto(p, "suppress")
    /\ UNCHANGED <<exists, redis, queue, task, bounds, history>>

Suppress(p) ==
    /\ pc[p] = "suppress"
    /\ suppressed' = TRUE
    /\ era' = IF suppressed THEN era ELSE era + 1
    /\ End(p)
    /\ UNCHANGED <<user, count, timed, locked, cooling, code, queue, bounds,
                   issued, eraOf, guesses, stuck>>

\* A key with a TTL lapses.
CounterLapses(c) ==
    /\ timed[c]
    /\ count' = [count EXCEPT ![c] = 0] /\ timed' = [timed EXCEPT ![c] = FALSE]
    /\ guesses' = IF c = "failures" THEN 0 ELSE guesses
    /\ UNCHANGED <<user, locked, cooling, code, suppressed, queue, process, bounds,
                   issued, era, eraOf, stuck>>

LockoutLapses ==
    /\ locked
    /\ locked' = FALSE /\ guesses' = 0
    /\ UNCHANGED <<user, count, timed, cooling, code, suppressed, queue, process, bounds,
                   issued, era, eraOf, stuck>>

CooldownLapses ==
    /\ cooling
    /\ cooling' = FALSE
    /\ UNCHANGED <<user, count, timed, locked, code, suppressed, queue, process, bounds, history>>

CodeLapses(k) ==
    /\ code[k] # 0
    /\ code' = [code EXCEPT ![k] = 0]
    /\ UNCHANGED <<user, count, timed, locked, cooling, suppressed, queue, process, bounds, history>>

\* The counter a process has yet to give its TTL.
Timing(p) ==
    CASE pc[p] = "rateTtl" -> {task[p].op}
      [] pc[p] = "failTtl" -> {"failures"}
      [] pc[p] = "ownTtl"  -> {"own"}
      [] OTHER -> {}

\* A node stops, or Redis or the database fails: the rest of the request is not done.
Crash(p) ==
    /\ pc[p] # "idle" /\ crashes < MaxCrashes
    /\ crashes' = crashes + 1
    /\ stuck' = stuck \cup {c \in Timing(p) : count[c] > 0 /\ ~timed[c]}
    /\ End(p)
    /\ UNCHANGED <<user, redis, queue, requests, issued, era, eraOf, guesses>>

Asking(p) ==
    \/ Signup(p) \/ RequestEmailOtp(p) \/ ForgotPassword(p)
    \/ CountRequest(p) \/ TimeRequests(p) \/ FindUser(p) \/ SetCode(p) \/ Enqueue(p)

Presenting(p) ==
    \/ VerifyEmailOtp(p) \/ ResetPassword(p) \/ Login(p)
    \/ CheckLockout(p) \/ Judge(p) \/ RecordFailure(p) \/ TimeFailures(p) \/ LockOut(p)
    \/ ClearFailures(p) \/ ClearLockout(p) \/ Prove(p) \/ SpendCode(p)

Own(p) == OwnRequest(p) \/ OwnCheck(p) \/ OwnCool(p) \/ OwnIncr(p) \/ OwnTtl(p)

Keeping(p) ==
    UnlockUser(p) \/ UnlockLockout(p) \/ UnlockCounter(p)
    \/ Bounce(p) \/ Unverify(p) \/ Suppress(p) \/ Crash(p)

Mailing(i) == MailCheck(i) \/ MailSend(i) \/ MailError(i)

Lapsing ==
    \/ \E c \in Counter : CounterLapses(c)
    \/ \E k \in Kind : CodeLapses(k)
    \/ LockoutLapses \/ CooldownLapses

Next ==
    \/ \E p \in Process : Asking(p) \/ Presenting(p) \/ Own(p) \/ Keeping(p)
    \/ \E i \in Id : Mailing(i)
    \/ Lapsing \/ GoogleLogin \/ RemoveSuppressedEmail

Spec == Init /\ [][Next]_vars

-----------------------------------------------------------------------------
(* Properties *)

\* However many requests guess at the same time, on any node, the address is judged at most
\* MaxFailures - 1 wrong guesses, one more for every request in flight, and those of
\* requests that died before they were counted, until a success, an administrator, the
\* passing of the window, or the request that set a lockout lifted since, resets the count.
GuessesBounded == guesses <= MaxFailures - 1 + Cardinality(Process) + crashes

\* No counter stays for ever: where the TTL is missing a process is about to set it, or the
\* one that should have has died, or (own codes) took the counter for an older one.
CountersExpire ==
    \A c \in Counter : count[c] > 0 /\ ~timed[c] =>
        c \in stuck \/ \E p \in Process : c \in Timing(p)

\* An address on the suppression list is verified only by Google, or by a code that was
\* asked for before it came on the list: no later code reaches anybody, not even that of a
\* sign-up, which does not look at the list.
SuppressedIsSpared == suppressed /\ verified /\ proof # 0 => eraOf[proof] < era
=============================================================================
