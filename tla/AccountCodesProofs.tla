--------------------------- MODULE AccountCodesProofs ---------------------------
(***************************************************************************)
(* The proofs about AccountCodes: the count of the wrong guesses is bound, *)
(* no counter stays for ever, and a suppressed address is not verified by  *)
(* a code it should never have got, for every number of requests, limits   *)
(* and crashes.                                                            *)
(***************************************************************************)
EXTENDS AccountCodes, FiniteSetTheorems, TLAPS

AskPlace == {"rate", "rateTtl", "find", "set", "mail"}
AnswerPlace == {"judge", "clear", "fail", "failTtl", "failed", "forget",
                "clearLock", "prove", "spend"}
OwnPlace == {"ownCount", "ownCool", "ownIncr", "ownTtl"}
Place == {"idle", "lock", "unlock", "unlockCount", "unverify", "suppress"}
         \cup AskPlace \cup AnswerPlace \cup OwnPlace

Answers == {"verify", "change", "login"}

\* The operations a process can be at a step of.
OpsAt(place) ==
    IF place \in AskPlace THEN Asks
    ELSE IF place \in AnswerPlace THEN Answers
    ELSE IF place = "lock" THEN Asks \cup Answers
    ELSE Operation

TaskOk == [op : Operation, id : Nat, era : Nat, read : Nat]
MailState == {"none", "queued", "checked", "sent", "dropped"}

UserOk == exists \in BOOLEAN /\ verified \in BOOLEAN /\ proof \in Nat
CounterOk == count \in [Counter -> Nat] /\ timed \in [Counter -> BOOLEAN]
KeyOk ==
    /\ locked \in BOOLEAN /\ cooling \in BOOLEAN /\ suppressed \in BOOLEAN
    /\ code \in [Kind -> Nat]
QueueOk == mail \in [Id -> MailState] /\ tries \in [Id -> Nat]
ProcessOk ==
    /\ pc \in [Process -> Place] /\ task \in [Process -> TaskOk]
    /\ \A p \in Process : task[p].op \in OpsAt(pc[p])
BoundsOk == requests \in 0..MaxRequests /\ crashes \in Nat
HistoryOk ==
    /\ issued \in Nat /\ era \in Nat /\ eraOf \in [Id -> Nat]
    /\ guesses \in Nat /\ stuck \subseteq Counter

\* Every variable has its type, and a process is only at the steps of its operation.
TypeInv ==
    UserOk /\ CounterOk /\ KeyOk /\ QueueOk /\ ProcessOk /\ BoundsOk /\ HistoryOk

\* The requests with a wrong guess that the counter has yet to count, ...
Uncounted == {p \in Process : pc[p] = "fail"}

\* ... those that have read a count that calls for the lockout, ...
Over == {p \in Process : pc[p] \in {"failTtl", "failed"} /\ task[p].read >= MaxFailures}

Behind == Uncounted \cup Over

\* ... and those that have passed the lockout and have yet to judge.
Judging == {p \in Process : pc[p] = "judge"}

\* While there is no lockout, every guess is counted, or is in the hands of a request, or was
\* in those of one that died; and what exceeds the limit has requests that will lock.
GuessesCounted ==
    ~locked => guesses <= count["failures"] + Cardinality(Uncounted) + crashes

ExcessIsSeen ==
    ~locked => guesses <= MaxFailures - 1 + Cardinality(Behind) + crashes

\* While there is one, only those that had passed it before can still judge.
LockoutCloses ==
    locked => guesses + Cardinality(Judging) <= MaxFailures - 1 + Cardinality(Process) + crashes

GuessesOk == GuessesCounted /\ ExcessIsSeen /\ LockoutCloses
GuessesInv == TypeInv /\ GuessesOk

\* Every request makes at most one code: Entitled are those that may still make theirs.
Entitled ==
    {p \in Process : task[p].op \in Asks /\ pc[p] \in {"lock", "rate", "rateTtl", "find", "set"}}
CodesAllowed == issued + Cardinality(Entitled) <= requests

\* The steps of a verification that know which code was presented.
VerifyPlace == {"clear", "clearLock", "prove"}
Verifying(p) == task[p].op = "verify" /\ pc[p] \in VerifyPlace

\* Nothing refers to a code, or to a suppression, that has not been made yet.
CodesIssued ==
    /\ proof <= issued
    /\ \A k \in Kind : code[k] <= issued
    /\ \A p \in Process : task[p].id <= issued /\ task[p].era <= era
    /\ \A p \in Process : pc[p] = "mail" \/ Verifying(p) => task[p].id # 0
    /\ \A i \in Id : eraOf[i] <= era
    /\ \A i \in Id : i > issued => mail[i] = "none"

\* While the address is on the list, no code that was asked for since it came on it has
\* reached anybody, ...
NotMailed ==
    suppressed => \A i \in Id : mail[i] \in {"checked", "sent"} => eraOf[i] < era

\* ... so that no request is about to verify the address by one.
NotAboutToVerify ==
    suppressed => \A p \in Process : Verifying(p) => eraOf[task[p].id] < era

SparedInv ==
    /\ TypeInv /\ CodesAllowed /\ CodesIssued
    /\ NotMailed /\ NotAboutToVerify /\ SuppressedIsSpared
-----------------------------------------------------------------------------
(* Types *)

LEMMA Untouched ==
    ASSUME TypeInv
    PROVE  /\ UNCHANGED user => UserOk'
           /\ UNCHANGED <<count, timed>> => CounterOk'
           /\ UNCHANGED <<locked, cooling, code, suppressed>> => KeyOk'
           /\ UNCHANGED queue => QueueOk'
           /\ UNCHANGED process => ProcessOk'
           /\ UNCHANGED bounds => BoundsOk'
           /\ UNCHANGED history => HistoryOk'
<1> USE DEF TypeInv
<1>1. UNCHANGED user => UserOk' BY DEF user, UserOk
<1>2. UNCHANGED <<count, timed>> => CounterOk' BY DEF CounterOk
<1>3. UNCHANGED <<locked, cooling, code, suppressed>> => KeyOk' BY DEF KeyOk
<1>4. UNCHANGED queue => QueueOk' BY DEF queue, QueueOk
<1>5. UNCHANGED process => ProcessOk' BY DEF process, ProcessOk
<1>6. UNCHANGED bounds => BoundsOk' BY DEF bounds, BoundsOk
<1>7. UNCHANGED history => HistoryOk' BY DEF history, HistoryOk
<1> QED BY <1>1, <1>2, <1>3, <1>4, <1>5, <1>6, <1>7

\* A process goes to a step of its operation, whatever it has in hand by then.
LEMMA Moves ==
    ASSUME ProcessOk, NEW p \in Process, NEW place \in Place, NEW t \in TaskOk,
           pc' = [pc EXCEPT ![p] = place], task' = [task EXCEPT ![p] = t],
           t.op \in OpsAt(place)
    PROVE  ProcessOk'
<1>1. pc' \in [Process -> Place] /\ task' \in [Process -> TaskOk] BY DEF ProcessOk
<1>2. ASSUME NEW q \in Process PROVE task'[q].op \in OpsAt(pc'[q])
  <2>1. CASE q = p
    <3>1. pc'[q] = place /\ task'[q] = t BY <2>1 DEF ProcessOk
    <3> QED BY <3>1
  <2>2. CASE q # p
    <3>1. pc'[q] = pc[q] /\ task'[q] = task[q] BY <2>2 DEF ProcessOk
    <3> QED BY <3>1 DEF ProcessOk
  <2> QED BY <2>1, <2>2
<1> QED BY <1>1, <1>2 DEF ProcessOk, OpsAt

LEMMA Goes ==
    ASSUME ProcessOk, NEW p \in Process, NEW place \in Place,
           Goto(p, place), UNCHANGED task, task[p].op \in OpsAt(place)
    PROVE  ProcessOk'
<1>1. task[p] \in TaskOk /\ task' = [task EXCEPT ![p] = task[p]] BY DEF ProcessOk
<1> QED BY <1>1, Moves DEF Goto

LEMMA GoesWith ==
    ASSUME ProcessOk, NEW p \in Process, NEW place \in Place, NEW x \in Nat,
           Goto(p, place), task[p].op \in OpsAt(place),
           \/ task' = [task EXCEPT ![p].id = x]
           \/ task' = [task EXCEPT ![p].read = x]
    PROVE  ProcessOk'
<1>1. task[p] \in TaskOk BY DEF ProcessOk
<1>2. CASE task' = [task EXCEPT ![p].id = x]
  <2> DEFINE t == [task[p] EXCEPT !.id = x]
  <2>1. t \in TaskOk /\ t.op = task[p].op BY <1>1 DEF TaskOk
  <2>2. task' = [task EXCEPT ![p] = t] BY <1>2 DEF ProcessOk
  <2> HIDE DEF t
  <2> QED BY <2>1, <2>2, Moves DEF Goto
<1>3. CASE task' = [task EXCEPT ![p].read = x]
  <2> DEFINE t == [task[p] EXCEPT !.read = x]
  <2>1. t \in TaskOk /\ t.op = task[p].op BY <1>1 DEF TaskOk
  <2>2. task' = [task EXCEPT ![p] = t] BY <1>3 DEF ProcessOk
  <2> HIDE DEF t
  <2> QED BY <2>1, <2>2, Moves DEF Goto
<1> QED BY <1>2, <1>3

LEMMA Ends ==
    ASSUME ProcessOk, NEW p \in Process, End(p)
    PROVE  ProcessOk'
<1>1. Nothing \in TaskOk BY DEF Nothing, TaskOk, Operation, Asks
<1>2. Nothing.op \in OpsAt("idle") /\ "idle" \in Place
  BY DEF Nothing, OpsAt, AskPlace, AnswerPlace, Operation, Place
<1> QED BY <1>1, <1>2, Moves DEF End, Goto

LEMMA Starts ==
    ASSUME TypeInv, NEW p \in Process, NEW place \in Place, NEW op \in OpsAt(place),
           Start(p, place, op)
    PROVE  TypeInv'
<1> DEFINE t == [Nothing EXCEPT !.op = op, !.era = IF op \in Asks THEN era ELSE 0]
<1>1. op \in Operation
  BY DEF OpsAt, Operation, Asks, Answers
<1>2. t \in TaskOk /\ t.op = op
  BY <1>1 DEF Nothing, TaskOk, TypeInv, HistoryOk
<1>3. pc' = [pc EXCEPT ![p] = place] /\ task' = [task EXCEPT ![p] = t] BY DEF Start, Goto
<1> HIDE DEF t
<1>4. ProcessOk' BY <1>2, <1>3, Moves DEF TypeInv
<1>5. BoundsOk' BY AccountCodesAssumption DEF Start, TypeInv, BoundsOk
<1>6. UserOk' /\ CounterOk' /\ KeyOk' /\ QueueOk' /\ HistoryOk'
  BY Untouched DEF Start, redis
<1> QED BY <1>4, <1>5, <1>6 DEF TypeInv
-----------------------------------------------------------------------------
LEMMA TypeStep == TypeInv /\ [Next]_vars => TypeInv'
<1> SUFFICES ASSUME TypeInv, [Next]_vars PROVE TypeInv' OBVIOUS
<1> USE DEF TypeInv
<1>1. ASSUME NEW p \in Process, Asking(p) PROVE TypeInv'
  <2>1. CASE Signup(p)
    BY <2>1, Starts DEF Signup, OpsAt, AskPlace, AnswerPlace, Place, Asks, Answers, Operation
  <2>2. CASE RequestEmailOtp(p)
    BY <2>2, Starts DEF RequestEmailOtp, RequestCode, OpsAt, AskPlace, AnswerPlace, Place, Asks,
       Answers, Operation
  <2>3. CASE ForgotPassword(p)
    BY <2>3, Starts DEF ForgotPassword, RequestCode, OpsAt, AskPlace, AnswerPlace, Place, Asks,
       Answers, Operation
  <2>4. CASE CountRequest(p)
    <3>1. CounterOk'
      BY <2>4 DEF CountRequest, CounterOk, Incr, Counter, Asks, OpsAt, ProcessOk, AskPlace
    <3>2. ProcessOk'
      BY <2>4, Goes, Ends DEF CountRequest, ProcessOk, OpsAt, AskPlace, AnswerPlace, Place, Asks,
         Answers
    <3> QED BY <2>4, <3>1, <3>2, Untouched DEF CountRequest, redis, queue, process, bounds,
       history, Incr, SetTtl, Del
  <2>5. CASE TimeRequests(p)
    <3>1. CounterOk'
      BY <2>5 DEF TimeRequests, CounterOk, SetTtl, Counter, Asks, OpsAt, ProcessOk, AskPlace
    <3>2. ProcessOk'
      BY <2>5, Goes, Ends DEF TimeRequests, ProcessOk, OpsAt, AskPlace, AnswerPlace, Place, Asks,
         Answers
    <3> QED BY <2>5, <3>1, <3>2, Untouched DEF TimeRequests, redis, queue, process, bounds,
       history, Incr, SetTtl, Del
  <2>6. CASE FindUser(p)
    <3>1. UserOk' BY <2>6 DEF FindUser, UserOk, Counter, Asks, OpsAt, ProcessOk, AskPlace
    <3>2. ProcessOk'
      BY <2>6, Goes, Ends DEF FindUser, ProcessOk, OpsAt, AskPlace, AnswerPlace, Place, Asks,
         Answers
    <3> QED BY <2>6, <3>1, <3>2, Untouched DEF FindUser, redis, queue, process, bounds, history,
       Incr, SetTtl, Del
  <2>7. CASE SetCode(p)
    <3>1. task[p] \in TaskOk /\ issued + 1 \in Nat BY DEF ProcessOk, HistoryOk
    <3>2. KeyOk' BY <2>7, <3>1 DEF SetCode, KeyOk, Kind, KindOf
    <3>3. HistoryOk' BY <2>7, <3>1 DEF SetCode, HistoryOk, TaskOk
    <3>4. Goto(p, "mail") /\ task' = [task EXCEPT ![p].id = issued + 1] BY <2>7 DEF SetCode
    <3>5. task[p].op \in OpsAt("mail") /\ "mail" \in Place
      BY <2>7 DEF SetCode, ProcessOk, OpsAt, AskPlace, AnswerPlace, Place, Asks, Answers
    <3>6. ProcessOk' BY <3>1, <3>4, <3>5, GoesWith
    <3> QED BY <2>7, <3>2, <3>3, <3>6, Untouched DEF SetCode, queue, bounds
  <2>8. CASE Enqueue(p)
    <3>1. QueueOk'
      BY <2>8 DEF Enqueue, QueueOk, MailState, Counter, Asks, OpsAt, ProcessOk, AskPlace
    <3>2. ProcessOk'
      BY <2>8, Goes, Ends DEF Enqueue, ProcessOk, OpsAt, AskPlace, AnswerPlace, Place, Asks,
         Answers
    <3> QED BY <2>8, <3>1, <3>2, Untouched DEF Enqueue, redis, queue, process, bounds, history,
       Incr, SetTtl, Del
  <2> QED BY <1>1, <2>1, <2>2, <2>3, <2>4, <2>5, <2>6, <2>7, <2>8 DEF Asking
<1>2. ASSUME NEW p \in Process, Presenting(p) PROVE TypeInv'
  <2>1. CASE VerifyEmailOtp(p)
    BY <2>1, Starts DEF VerifyEmailOtp, Present, OpsAt, AskPlace, AnswerPlace, Place, Asks,
       Answers, Operation
  <2>2. CASE ResetPassword(p)
    BY <2>2, Starts DEF ResetPassword, Present, OpsAt, AskPlace, AnswerPlace, Place, Asks,
       Answers, Operation
  <2>3. CASE Login(p)
    BY <2>3, Starts DEF Login, Present, OpsAt, AskPlace, AnswerPlace, Place, Asks, Answers,
       Operation
  <2>4. CASE CheckLockout(p)
    <3>1. ProcessOk'
      BY <2>4, Goes, Ends DEF CheckLockout, ProcessOk, OpsAt, AskPlace, AnswerPlace, Place, Asks,
         Answers
    <3> QED BY <2>4, <3>1, Untouched DEF CheckLockout, redis, queue, process, bounds, history,
       Incr, SetTtl, Del
  <2>5. CASE Judge(p)
    <3> DEFINE op == task[p].op
                current == code[KindOf(op)]
                known == IF op = "login" THEN 0 ELSE current
    <3>1. op \in Answers /\ current \in Nat
      BY <2>5 DEF Judge, ProcessOk, KeyOk, Kind, KindOf, OpsAt, AskPlace, AnswerPlace
    <3>2. op \in OpsAt("clear") /\ op \in OpsAt("fail") /\ "clear" \in Place /\ "fail" \in Place
      BY <3>1 DEF OpsAt, AskPlace, AnswerPlace, Place
    <3>3. HistoryOk' BY <2>5 DEF Judge, HistoryOk
    <3>4. \/ Goto(p, "clear") /\ task' = [task EXCEPT ![p].id = known]
          \/ Goto(p, "fail") /\ UNCHANGED task
      BY <2>5 DEF Judge
    <3>5. known \in Nat BY <3>1
    <3> HIDE DEF known
    <3>6. ProcessOk' BY <3>2, <3>4, <3>5, Goes, GoesWith
    <3> QED BY <2>5, <3>3, <3>6, Untouched DEF Judge, redis, queue, bounds
  <2>6. CASE RecordFailure(p)
    <3> DEFINE failures == count["failures"] + 1
    <3>1. failures \in Nat BY DEF CounterOk, Counter
    <3>2. CounterOk' BY <2>6 DEF RecordFailure, CounterOk, Incr, Counter
    <3>3. task[p].op \in OpsAt("failTtl") /\ task[p].op \in OpsAt("failed")
          /\ "failTtl" \in Place /\ "failed" \in Place
      BY <2>6 DEF RecordFailure, ProcessOk, OpsAt, AskPlace, AnswerPlace, Place, Asks, Answers
    <3>4. task' = [task EXCEPT ![p].read = failures]
          /\ (Goto(p, "failTtl") \/ Goto(p, "failed")) BY <2>6 DEF RecordFailure
    <3>5. ProcessOk' BY <3>1, <3>3, <3>4, GoesWith
    <3> QED BY <2>6, <3>2, <3>5, Untouched DEF RecordFailure, bounds
  <2>7. CASE TimeFailures(p)
    <3>1. CounterOk'
      BY <2>7 DEF TimeFailures, CounterOk, SetTtl, Counter, Asks, OpsAt, ProcessOk, AskPlace
    <3>2. ProcessOk'
      BY <2>7, Goes, Ends DEF TimeFailures, ProcessOk, OpsAt, AskPlace, AnswerPlace, Place, Asks,
         Answers
    <3> QED BY <2>7, <3>1, <3>2, Untouched DEF TimeFailures, redis, queue, process, bounds,
       history, Incr, SetTtl, Del
  <2>8. CASE LockOut(p)
    <3>1. CounterOk'
      <4>1. CASE UNCHANGED <<count, timed>> BY <4>1 DEF CounterOk
      <4>2. CASE Del("failures") BY <4>2 DEF CounterOk, Del
      <4> QED BY <2>8, <4>1, <4>2 DEF LockOut
    <3>2. KeyOk' BY <2>8 DEF LockOut, KeyOk
    <3>3. ProcessOk'
      BY <2>8, Goes, Ends DEF LockOut, ProcessOk, OpsAt, AskPlace, AnswerPlace, Place, Asks,
         Answers
    <3>4. HistoryOk' BY <2>8 DEF LockOut, HistoryOk, Del, history
    <3> QED BY <2>8, <3>1, <3>2, <3>3, <3>4, Untouched DEF LockOut, queue, bounds
  <2>9. CASE ClearFailures(p)
    <3>1. CounterOk'
      BY <2>9 DEF ClearFailures, CounterOk, Del, Counter, Asks, OpsAt, ProcessOk, AskPlace
    <3>2. HistoryOk'
      BY <2>9 DEF ClearFailures, HistoryOk, Del, Counter, Asks, OpsAt, ProcessOk, AskPlace
    <3>3. ProcessOk'
      BY <2>9, Goes, Ends DEF ClearFailures, ProcessOk, OpsAt, AskPlace, AnswerPlace, Place,
         Asks, Answers
    <3> QED BY <2>9, <3>1, <3>2, <3>3, Untouched DEF ClearFailures, redis, queue, process,
       bounds, history, Incr, SetTtl, Del
  <2>10. CASE ClearLockout(p)
    <3>1. KeyOk' BY <2>10 DEF ClearLockout, KeyOk, Kind, Counter, Asks, OpsAt, ProcessOk, AskPlace
    <3>2. HistoryOk'
      BY <2>10 DEF ClearLockout, HistoryOk, Counter, Asks, OpsAt, ProcessOk, AskPlace
    <3>3. ProcessOk'
      BY <2>10, Goes, Ends DEF ClearLockout, ProcessOk, OpsAt, AskPlace, AnswerPlace, Place,
         Asks, Answers
    <3> QED BY <2>10, <3>1, <3>2, <3>3, Untouched DEF ClearLockout, redis, queue, process,
       bounds, history, Incr, SetTtl, Del
  <2>11. CASE Prove(p)
    <3>1. UserOk' BY <2>11 DEF Prove, UserOk, ProcessOk, TaskOk
    <3>2. ProcessOk'
      BY <2>11, Goes, Ends DEF Prove, ProcessOk, OpsAt, AskPlace, AnswerPlace, Place, Asks,
         Answers
    <3> QED BY <2>11, <3>1, <3>2, Untouched DEF Prove, redis, queue, bounds, history
  <2>12. CASE SpendCode(p)
    <3>1. KeyOk' BY <2>12 DEF SpendCode, KeyOk, Kind, Counter, Asks, OpsAt, ProcessOk, AskPlace
    <3>2. ProcessOk'
      BY <2>12, Goes, Ends DEF SpendCode, ProcessOk, OpsAt, AskPlace, AnswerPlace, Place, Asks,
         Answers
    <3> QED BY <2>12, <3>1, <3>2, Untouched DEF SpendCode, redis, queue, process, bounds,
       history, Incr, SetTtl, Del
  <2> QED BY <1>2, <2>1, <2>2, <2>3, <2>4, <2>5, <2>6, <2>7, <2>8, <2>9, <2>10, <2>11, <2>12
  DEF Presenting
<1>3. ASSUME NEW p \in Process, Own(p) PROVE TypeInv'
  <2>1. CASE OwnRequest(p)
    BY <2>1, Starts DEF OwnRequest, OpsAt, AskPlace, AnswerPlace, OwnPlace, Place, Operation
  <2>2. CASE OwnCheck(p)
    <3>1. count["own"] \in Nat BY DEF CounterOk, Counter
    <3>2. task[p].op \in OpsAt("ownCool") /\ "ownCool" \in Place
      BY DEF ProcessOk, TaskOk, OpsAt, AskPlace, AnswerPlace, OwnPlace, Place, Operation
    <3>3. ProcessOk' BY <2>2, <3>1, <3>2, GoesWith, Ends DEF OwnCheck
    <3> QED BY <2>2, <3>3, Untouched DEF OwnCheck, redis, bounds
  <2>3. CASE OwnCool(p)
    <3>1. KeyOk' BY <2>3 DEF OwnCool, KeyOk
    <3>2. task[p].op \in OpsAt("ownIncr") /\ "ownIncr" \in Place
      BY DEF ProcessOk, TaskOk, OpsAt, AskPlace, AnswerPlace, OwnPlace, Place, Operation
    <3>3. ProcessOk' BY <2>3, <3>2, Goes DEF OwnCool
    <3> QED BY <2>3, <3>1, <3>3, Untouched DEF OwnCool, bounds
  <2>4. CASE OwnIncr(p)
    <3>1. CounterOk' BY <2>4 DEF OwnIncr, CounterOk, Incr, Counter
    <3>2. HistoryOk' BY <2>4 DEF OwnIncr, HistoryOk, Counter
    <3>3. task[p].op \in OpsAt("ownTtl") /\ "ownTtl" \in Place
      BY DEF ProcessOk, TaskOk, OpsAt, AskPlace, AnswerPlace, OwnPlace, Place, Operation
    <3>4. ProcessOk' BY <2>4, <3>3, Goes, Ends DEF OwnIncr
    <3> QED BY <2>4, <3>1, <3>2, <3>4, Untouched DEF OwnIncr, bounds
  <2>5. CASE OwnTtl(p)
    <3>1. CounterOk'
      BY <2>5 DEF OwnTtl, CounterOk, SetTtl, Counter, Asks, OpsAt, ProcessOk, AskPlace
    <3>2. HistoryOk' BY <2>5 DEF OwnTtl, HistoryOk, Counter, Asks, OpsAt, ProcessOk, AskPlace
    <3>3. ProcessOk'
      BY <2>5, Goes, Ends DEF OwnTtl, ProcessOk, OpsAt, AskPlace, AnswerPlace, Place, Asks,
         Answers
    <3> QED BY <2>5, <3>1, <3>2, <3>3, Untouched DEF OwnTtl, redis, queue, process, bounds,
       history, Incr, SetTtl, Del
  <2> QED BY <1>3, <2>1, <2>2, <2>3, <2>4, <2>5 DEF Own
<1>4. ASSUME NEW p \in Process, Keeping(p) PROVE TypeInv'
  <2>1. CASE UnlockUser(p)
    BY <2>1, Starts DEF UnlockUser, OpsAt, AskPlace, AnswerPlace, Place, Asks, Answers, Operation
  <2>2. CASE UnlockLockout(p)
    <3>1. KeyOk' BY <2>2 DEF UnlockLockout, KeyOk, Kind, Counter, Asks, OpsAt, ProcessOk, AskPlace
    <3>2. HistoryOk'
      BY <2>2 DEF UnlockLockout, HistoryOk, Counter, Asks, OpsAt, ProcessOk, AskPlace
    <3>3. ProcessOk'
      BY <2>2, Goes, Ends DEF UnlockLockout, ProcessOk, OpsAt, AskPlace, AnswerPlace, Place,
         Asks, Answers
    <3> QED BY <2>2, <3>1, <3>2, <3>3, Untouched DEF UnlockLockout, redis, queue, process,
       bounds, history, Incr, SetTtl, Del
  <2>3. CASE UnlockCounter(p)
    <3>1. CounterOk'
      BY <2>3 DEF UnlockCounter, CounterOk, Del, Counter, Asks, OpsAt, ProcessOk, AskPlace
    <3>2. HistoryOk'
      BY <2>3 DEF UnlockCounter, HistoryOk, Del, Counter, Asks, OpsAt, ProcessOk, AskPlace
    <3>3. ProcessOk'
      BY <2>3, Goes, Ends DEF UnlockCounter, ProcessOk, OpsAt, AskPlace, AnswerPlace, Place,
         Asks, Answers
    <3> QED BY <2>3, <3>1, <3>2, <3>3, Untouched DEF UnlockCounter, redis, queue, process,
       bounds, history, Incr, SetTtl, Del
  <2>4. CASE Bounce(p)
    BY <2>4, Starts DEF Bounce, OpsAt, AskPlace, AnswerPlace, Place, Asks, Answers, Operation
  <2>5. CASE Unverify(p)
    <3>1. UserOk' BY <2>5 DEF Unverify, UserOk, Counter, Asks, OpsAt, ProcessOk, AskPlace
    <3>2. ProcessOk'
      BY <2>5, Goes, Ends DEF Unverify, ProcessOk, OpsAt, AskPlace, AnswerPlace, Place, Asks,
         Answers
    <3> QED BY <2>5, <3>1, <3>2, Untouched DEF Unverify, redis, queue, process, bounds, history,
       Incr, SetTtl, Del
  <2>6. CASE Suppress(p)
    <3>1. KeyOk' BY <2>6 DEF Suppress, KeyOk, Kind, Counter, Asks, OpsAt, ProcessOk, AskPlace
    <3>2. HistoryOk' BY <2>6 DEF Suppress, HistoryOk, Counter, Asks, OpsAt, ProcessOk, AskPlace
    <3>3. ProcessOk'
      BY <2>6, Goes, Ends DEF Suppress, ProcessOk, OpsAt, AskPlace, AnswerPlace, Place, Asks,
         Answers
    <3> QED BY <2>6, <3>1, <3>2, <3>3, Untouched DEF Suppress, redis, queue, process, bounds,
       history, Incr, SetTtl, Del
  <2>7. CASE Crash(p)
    <3>1. stuck' \subseteq Counter
      <4>1. \A c \in Timing(p) : c \in Counter
        BY DEF Timing, Counter, ProcessOk, OpsAt, AskPlace, Asks
      <4> QED BY <2>7, <4>1 DEF Crash, HistoryOk
    <3>2. HistoryOk' BY <2>7, <3>1 DEF Crash, HistoryOk
    <3>3. ProcessOk' BY <2>7, Ends DEF Crash
    <3>4. BoundsOk' BY <2>7 DEF Crash, BoundsOk
    <3> QED BY <2>7, <3>2, <3>3, <3>4, Untouched DEF Crash, redis
  <2> QED BY <1>4, <2>1, <2>2, <2>3, <2>4, <2>5, <2>6, <2>7 DEF Keeping
<1>5. ASSUME NEW i \in Id, Mailing(i) PROVE TypeInv'
  <2>1. QueueOk' BY <1>5 DEF Mailing, MailCheck, MailSend, MailError, QueueOk, MailState
  <2> QED BY <1>5, <2>1, Untouched DEF Mailing, MailCheck, MailSend, MailError, redis
<1>6. CASE Lapsing
  <2>1. CASE LockoutLapses
    <3>1. KeyOk' /\ HistoryOk' BY <2>1 DEF LockoutLapses, KeyOk, HistoryOk
    <3> QED BY <2>1, <3>1, Untouched DEF LockoutLapses
  <2>4. CASE CooldownLapses
    <3>1. KeyOk' BY <2>4 DEF CooldownLapses, KeyOk
    <3> QED BY <2>4, <3>1, Untouched DEF CooldownLapses
  <2>2. ASSUME NEW c \in Counter, CounterLapses(c) PROVE TypeInv'
    BY <2>2, Untouched DEF CounterLapses, CounterOk, HistoryOk, queue, bounds, process, history
  <2>3. ASSUME NEW k \in Kind, CodeLapses(k) PROVE TypeInv'
    BY <2>3, Untouched DEF CodeLapses, KeyOk, queue, bounds, process, history
  <2> QED BY <1>6, <2>1, <2>2, <2>3, <2>4 DEF Lapsing
<1>7. CASE GoogleLogin
  BY <1>7, Untouched, AccountCodesAssumption DEF GoogleLogin, UserOk, BoundsOk, redis
<1>8. CASE RemoveSuppressedEmail
  BY <1>8, Untouched DEF RemoveSuppressedEmail, KeyOk
<1>9. CASE UNCHANGED vars BY <1>9, Untouched DEF vars, redis
<1> QED BY <1>1, <1>2, <1>3, <1>4, <1>5, <1>6, <1>7, <1>8, <1>9 DEF Next
\* A step of one process leaves the others where they are.
LEMMA OthersStay ==
    ASSUME ProcessOk, NEW p \in Process, Asking(p) \/ Presenting(p) \/ Own(p) \/ Keeping(p),
           NEW q \in Process \ {p}
    PROVE  pc'[q] = pc[q] /\ task'[q] = task[q]
<1> USE DEF ProcessOk, Start, Goto, End
<1>1. CASE Asking(p)
  BY <1>1 DEF Asking, Signup, RequestEmailOtp, ForgotPassword, RequestCode, CountRequest,
              TimeRequests, FindUser, SetCode, Enqueue
<1>2. CASE Presenting(p)
  BY <1>2 DEF Presenting, VerifyEmailOtp, ResetPassword, Login, Present, CheckLockout, Judge,
              RecordFailure, TimeFailures, LockOut, ClearFailures, ClearLockout, Prove, SpendCode
<1>3. CASE Own(p)
  BY <1>3 DEF Own, OwnRequest, OwnCheck, OwnCool, OwnIncr, OwnTtl
<1>4. CASE Keeping(p)
  BY <1>4 DEF Keeping, UnlockUser, UnlockLockout, UnlockCounter, Bounce, Unverify, Suppress, Crash
<1> QED BY <1>1, <1>2, <1>3, <1>4

LEMMA TypeStart == Init => TypeInv
<1> SUFFICES ASSUME Init PROVE TypeInv OBVIOUS
<1> USE AccountCodesAssumption DEF Init
<1>1. UserOk /\ KeyOk BY DEF UserOk, KeyOk, Kind
<1>2. CounterOk /\ HistoryOk BY DEF CounterOk, HistoryOk
<1>3. QueueOk /\ BoundsOk BY DEF QueueOk, MailState, BoundsOk
<1>4. ProcessOk
  BY DEF ProcessOk, Place, TaskOk, Nothing, OpsAt, AskPlace, AnswerPlace, Operation, Asks
<1> QED BY <1>1, <1>2, <1>3, <1>4 DEF TypeInv

\* Every variable of the model keeps to its type, and every request to the steps of its
\* operation (src/src/auth/auth.service, src/src/module/users, src/src/notifications).
THEOREM TypeCorrect == Spec => []TypeInv
<1>1. Init => TypeInv BY TypeStart
<1>2. TypeInv /\ [Next]_vars => TypeInv' BY TypeStep
<1> QED BY <1>1, <1>2, PTL DEF Spec

-----------------------------------------------------------------------------
(* CountersExpire *)

\* The counter has a TTL, or will get one, or is one of those that history says never will.
Expires(c) == count[c] > 0 /\ ~timed[c] => c \in stuck \/ \E p \in Process : c \in Timing(p)

LEMMA StillTiming ==
    ASSUME NEW p \in Process, pc'[p] = pc[p], task'[p] = task[p]
    PROVE  Timing(p)' = Timing(p)
BY DEF Timing

\* A counter that a step of p does not touch goes on to expire when p was not to set its TTL.
LEMMA StillExpires ==
    ASSUME TypeInv, NEW p \in Process, Asking(p) \/ Presenting(p) \/ Own(p) \/ Keeping(p),
           NEW c \in Counter, Expires(c), c \notin Timing(p),
           count'[c] > 0 /\ ~timed'[c] => count[c] > 0 /\ ~timed[c],
           c \in stuck => c \in stuck'
    PROVE  Expires(c)'
<1> SUFFICES ASSUME count[c] > 0, ~timed[c], c \notin stuck
             PROVE  \E q \in Process : c \in Timing(q)'
  BY DEF Expires
<1>1. PICK q \in Process : c \in Timing(q) BY DEF Expires
<1>2. q \in Process \ {p} BY <1>1
<1>3. Timing(q)' = Timing(q) BY <1>2, OthersStay, StillTiming DEF TypeInv
<1> QED BY <1>1, <1>3
LEMMA ExpireStep ==
    ASSUME TypeInv, CountersExpire, [Next]_vars
    PROVE  CountersExpire'
<1> SUFFICES ASSUME NEW c \in Counter PROVE Expires(c)' BY DEF CountersExpire, Expires
<1>0. Expires(c) /\ count[c] \in Nat BY DEF CountersExpire, Expires, TypeInv, CounterOk
<1> USE <1>0, StillExpires DEF Timing
<1>1. ASSUME NEW p \in Process, Asking(p) PROVE Expires(c)'
  <2>1. CASE CountRequest(p)
    <3>1. task[p].op \in Counter
      BY <2>1 DEF CountRequest, TypeInv, ProcessOk, OpsAt, AskPlace, Asks, Counter
    <3>2. c \notin Timing(p) /\ timed' = timed /\ stuck' = stuck
      BY <2>1 DEF CountRequest, Incr, history
    <3>3. CASE c # task[p].op \/ count[c] > 0
      <4>1. count'[c] > 0 => count[c] > 0
        BY <2>1, <3>1, <3>3 DEF CountRequest, Incr, TypeInv, CounterOk
      <4> QED BY <1>1, <3>2, <4>1
    <3>4. CASE c = task[p].op /\ count[c] = 0
      <4>1. c \in Timing(p)'
        BY <2>1, <3>4 DEF CountRequest, Goto, TypeInv, ProcessOk
      <4> QED BY <4>1 DEF Expires
    <3> QED BY <3>3, <3>4
  <2>2. CASE TimeRequests(p)
    <3>1. UNCHANGED <<count, stuck>> /\ timed' = [timed EXCEPT ![task[p].op] = count[task[p].op] > 0]
      BY <2>2 DEF TimeRequests, SetTtl, history
    <3>2. CASE c = task[p].op
      BY <3>1, <3>2 DEF Expires, TypeInv, CounterOk
    <3>3. CASE c # task[p].op
      <4>1. timed'[c] = timed[c] /\ c \notin Timing(p)
        BY <2>2, <3>1, <3>3 DEF TypeInv, CounterOk, TimeRequests
      <4> QED BY <1>1, <3>1, <4>1
    <3> QED BY <3>2, <3>3
  <2>3. CASE ~CountRequest(p) /\ ~TimeRequests(p)
    <3>1. c \notin Timing(p) /\ UNCHANGED <<count, timed, stuck>>
      BY <1>1, <2>3 DEF Asking, Signup, RequestEmailOtp, ForgotPassword, RequestCode, Start,
                        FindUser, SetCode, Enqueue, redis, history
    <3> QED BY <1>1, <3>1
  <2> QED BY <2>1, <2>2, <2>3
<1>2. ASSUME NEW p \in Process, Presenting(p) PROVE Expires(c)'
  <2>1. CASE RecordFailure(p)
    <3>1. c \notin Timing(p) /\ timed' = timed /\ stuck' = stuck
      BY <2>1 DEF RecordFailure, Incr, history
    <3>2. CASE c # "failures" \/ count[c] > 0
      <4>1. count'[c] > 0 => count[c] > 0
        BY <2>1, <3>2 DEF RecordFailure, Incr, TypeInv, CounterOk
      <4> QED BY <1>2, <3>1, <4>1
    <3>3. CASE c = "failures" /\ count[c] = 0
      <4>1. c \in Timing(p)'
        BY <2>1, <3>3 DEF RecordFailure, Goto, TypeInv, ProcessOk
      <4> QED BY <4>1 DEF Expires
    <3> QED BY <3>2, <3>3
  <2>2. CASE TimeFailures(p)
    <3>1. UNCHANGED <<count, stuck>> /\ timed' = [timed EXCEPT !["failures"] = count["failures"] > 0]
      BY <2>2 DEF TimeFailures, SetTtl, history
    <3>2. CASE c = "failures" BY <3>1, <3>2 DEF Expires, TypeInv, CounterOk
    <3>3. CASE c # "failures"
      <4>1. timed'[c] = timed[c] /\ c \notin Timing(p)
        BY <2>2, <3>1, <3>3 DEF TypeInv, CounterOk, TimeFailures
      <4> QED BY <1>2, <3>1, <4>1
    <3> QED BY <3>2, <3>3
  <2>3. CASE LockOut(p) \/ ClearFailures(p)
    <3>1. c \notin Timing(p) BY <2>3 DEF LockOut, ClearFailures
    <3>2. UNCHANGED <<count, timed, stuck>> \/ Del("failures")
      BY <2>3 DEF LockOut, ClearFailures, history
    <3>3. CASE UNCHANGED <<count, timed, stuck>> BY <1>2, <3>1, <3>3
    <3>4. CASE Del("failures")
      <4>1. c = "failures" => count'[c] = 0
        BY <3>4 DEF Del, TypeInv, CounterOk
      <4>2. c # "failures" => count'[c] = count[c] /\ timed'[c] = timed[c] /\ (c \in stuck => c \in stuck')
        BY <3>4 DEF Del, TypeInv, CounterOk
      <4> QED BY <1>2, <3>1, <4>1, <4>2 DEF Expires
    <3> QED BY <3>2, <3>3, <3>4
  <2>4. CASE ~(RecordFailure(p) \/ TimeFailures(p) \/ LockOut(p) \/ ClearFailures(p))
    <3>1. c \notin Timing(p) /\ UNCHANGED <<count, timed, stuck>>
      BY <1>2, <2>4 DEF Presenting, VerifyEmailOtp, ResetPassword, Login, Present, Start,
                        CheckLockout, Judge, ClearLockout, Prove, SpendCode, redis, history
    <3> QED BY <1>2, <3>1
  <2> QED BY <2>1, <2>2, <2>3, <2>4
<1>3. ASSUME NEW p \in Process, Own(p) PROVE Expires(c)'
  <2>1. CASE OwnIncr(p)
    <3>1. c \notin Timing(p) /\ timed' = timed /\ (c \in stuck => c \in stuck')
      BY <2>1 DEF OwnIncr, Incr
    <3>2. CASE c # "own"
      <4>1. count'[c] = count[c] BY <2>1, <3>2 DEF OwnIncr, Incr, TypeInv, CounterOk
      <4> QED BY <1>3, <3>1, <4>1
    <3>3. CASE c = "own"
      <4>1. CASE task[p].read = 0
        <5>1. c \in Timing(p)' BY <2>1, <3>3, <4>1 DEF OwnIncr, Goto, TypeInv, ProcessOk
        <5> QED BY <5>1 DEF Expires
      <4>2. CASE task[p].read # 0
        BY <2>1, <3>1, <3>3, <4>2 DEF OwnIncr, Expires
      <4> QED BY <4>1, <4>2
    <3> QED BY <3>2, <3>3
  <2>2. CASE OwnTtl(p)
    <3>1. count' = count /\ timed' = [timed EXCEPT !["own"] = count["own"] > 0]
          /\ stuck' = stuck \ {"own"}
      BY <2>2 DEF OwnTtl, SetTtl
    <3>2. CASE c = "own" BY <3>1, <3>2 DEF Expires, TypeInv, CounterOk
    <3>3. CASE c # "own"
      <4>1. timed'[c] = timed[c] /\ c \notin Timing(p)
        BY <2>2, <3>1, <3>3 DEF TypeInv, CounterOk, OwnTtl
      <4> QED BY <1>3, <3>1, <3>3, <4>1
    <3> QED BY <3>2, <3>3
  <2>3. CASE ~OwnIncr(p) /\ ~OwnTtl(p)
    <3>1. c \notin Timing(p) /\ UNCHANGED <<count, timed, stuck>>
      BY <1>3, <2>3 DEF Own, OwnRequest, OwnCheck, OwnCool, Start, redis, history
    <3> QED BY <1>3, <3>1
  <2> QED BY <2>1, <2>2, <2>3
<1>4. ASSUME NEW p \in Process, Keeping(p) PROVE Expires(c)'
  <2>1. CASE UnlockCounter(p)
    <3>1. c \notin Timing(p) BY <2>1 DEF UnlockCounter
    <3>2. c = "failures" => count'[c] = 0
      BY <2>1 DEF UnlockCounter, Del, TypeInv, CounterOk
    <3>3. c # "failures" => count'[c] = count[c] /\ timed'[c] = timed[c] /\ (c \in stuck => c \in stuck')
      BY <2>1 DEF UnlockCounter, Del, TypeInv, CounterOk
    <3> QED BY <1>4, <3>1, <3>2, <3>3 DEF Expires
  <2>2. CASE Crash(p)
    <3>1. UNCHANGED <<count, timed>>
          /\ stuck' = stuck \cup {d \in Timing(p) : count[d] > 0 /\ ~timed[d]}
      BY <2>2 DEF Crash, redis
    <3>2. CASE c \in Timing(p)
      <4> HIDE DEF Timing
      <4> QED BY <3>1, <3>2 DEF Expires
    <3>3. CASE c \notin Timing(p)
      <4> HIDE DEF Timing
      <4> QED BY <1>4, <3>1, <3>3
    <3> QED BY <3>2, <3>3
  <2>3. CASE ~UnlockCounter(p) /\ ~Crash(p)
    <3>1. c \notin Timing(p) /\ UNCHANGED <<count, timed, stuck>>
      BY <1>4, <2>3 DEF Keeping, UnlockUser, UnlockLockout, Bounce, Unverify, Suppress, Start,
                        redis, history
    <3> QED BY <1>4, <3>1
  <2> QED BY <2>1, <2>2, <2>3
<1>5. CASE (\E i \in Id : Mailing(i)) \/ GoogleLogin \/ RemoveSuppressedEmail \/ UNCHANGED vars
  <2>1. UNCHANGED <<count, timed, stuck, pc, task>>
    BY <1>5 DEF Mailing, MailCheck, MailSend, MailError, GoogleLogin, RemoveSuppressedEmail,
                vars, redis, process, history
  <2> QED BY <2>1 DEF Expires
<1>6. CASE Lapsing
  <2>1. UNCHANGED <<stuck, pc, task>>
    BY <1>6 DEF Lapsing, CounterLapses, CodeLapses, LockoutLapses, CooldownLapses, process,
       history
  <2>2. count'[c] > 0 /\ ~timed'[c] => count[c] > 0 /\ ~timed[c]
    BY <1>6 DEF Lapsing, CounterLapses, CodeLapses, LockoutLapses, CooldownLapses,
                TypeInv, CounterOk
  <2>3. ASSUME NEW q \in Process PROVE Timing(q)' = Timing(q) BY <2>1
  <2> HIDE DEF Timing
  <2> QED BY <2>1, <2>2, <2>3 DEF Expires
<1> QED BY <1>1, <1>2, <1>3, <1>4, <1>5, <1>6 DEF Next

\* No counter of codes or of failures stays for ever (checkAccountRateLimit and recordFailure of
\* src/src/auth/auth.service, requestEmailOtp of src/src/module/users): where the TTL is missing,
\* a request is about to set it, has died before, or took the counter for an older one.
THEOREM CountersExpireCorrect == Spec => []CountersExpire
<1>1. Init => TypeInv /\ CountersExpire
  <2> SUFFICES ASSUME Init, NEW c \in Counter, count[c] > 0 PROVE timed[c]
    BY TypeStart DEF CountersExpire
  <2>1. PICK f \in 0..(MaxFailures - 1) :
          /\ count = [d \in Counter |-> IF d = "failures" THEN f ELSE 0]
          /\ timed = [d \in Counter |-> d = "failures" /\ f > 0]
    BY DEF Init
  <2>2. count[c] = (IF c = "failures" THEN f ELSE 0) /\ timed[c] = (c = "failures" /\ f > 0)
    BY <2>1, Zenon
  <2>3. c = "failures" /\ f > 0 BY <2>2, AccountCodesAssumption
  <2> QED BY <2>2, <2>3, Zenon
<1>2. TypeInv /\ CountersExpire /\ [Next]_vars => (TypeInv /\ CountersExpire)'
  BY TypeStep, ExpireStep
<1> QED BY <1>1, <1>2, PTL DEF Spec
-----------------------------------------------------------------------------
(* GuessesBounded *)

One(b) == IF b THEN 1 ELSE 0

\* Two sets of processes that differ at most in p.
LEMMA OneMoves ==
    ASSUME NEW S \in SUBSET Process, NEW T \in SUBSET Process, NEW p \in Process,
           \A q \in Process \ {p} : q \in S <=> q \in T
    PROVE  Cardinality(T) = Cardinality(S) + One(p \in T) - One(p \in S)
<1>1. IsFiniteSet(S) /\ IsFiniteSet(T)
  BY AccountCodesAssumption, FS_Subset
<1>2. Cardinality(S) \in Nat /\ Cardinality(T) \in Nat
  BY <1>1, FS_CardinalityType
<1>3. CASE p \in S <=> p \in T
  <2>1. S = T BY <1>3
  <2> QED BY <1>2, <1>3, <2>1 DEF One
<1>4. CASE p \notin S /\ p \in T
  <2>1. T = S \cup {p} BY <1>4
  <2> QED BY <1>1, <1>2, <1>4, <2>1, FS_AddElement DEF One
<1>5. CASE p \in S /\ p \notin T
  <2>1. T = S \ {p} BY <1>5
  <2> QED BY <1>1, <1>2, <1>5, <2>1, FS_RemoveElement DEF One
<1> QED BY <1>3, <1>4, <1>5

LEMMA AtMostAll ==
    ASSUME NEW S \in SUBSET Process
    PROVE  /\ Cardinality(S) \in Nat /\ Cardinality(Process) \in Nat
           /\ Cardinality(S) <= Cardinality(Process)
BY AccountCodesAssumption, FS_Subset, FS_CardinalityType

\* How the three numbers change in a step of p.
LEMMA Recount ==
    ASSUME TypeInv, NEW p \in Process, Asking(p) \/ Presenting(p) \/ Own(p) \/ Keeping(p)
    PROVE  /\ Cardinality(Uncounted')
                = Cardinality(Uncounted) + One(p \in Uncounted') - One(p \in Uncounted)
           /\ Cardinality(Behind') = Cardinality(Behind) + One(p \in Behind') - One(p \in Behind)
           /\ Cardinality(Judging')
                = Cardinality(Judging) + One(p \in Judging') - One(p \in Judging)
<1>1. \A q \in Process \ {p} : pc'[q] = pc[q] /\ task'[q] = task[q]
  BY OthersStay DEF TypeInv
<1>2. /\ Uncounted \in SUBSET Process /\ Uncounted' \in SUBSET Process
      /\ \A q \in Process \ {p} : q \in Uncounted <=> q \in Uncounted'
  BY <1>1 DEF Uncounted
<1>3. /\ Behind \in SUBSET Process /\ Behind' \in SUBSET Process
      /\ \A q \in Process \ {p} : q \in Behind <=> q \in Behind'
  BY <1>1 DEF Behind, Uncounted, Over
<1>4. /\ Judging \in SUBSET Process /\ Judging' \in SUBSET Process
      /\ \A q \in Process \ {p} : q \in Judging <=> q \in Judging'
  BY <1>1 DEF Judging
<1> QED BY <1>2, <1>3, <1>4, OneMoves
LEMMA Numbers ==
    ASSUME TypeInv
    PROVE  /\ Cardinality(Uncounted) \in Nat /\ Cardinality(Behind) \in Nat
           /\ Cardinality(Judging) \in Nat /\ Cardinality(Process) \in Nat
           /\ Cardinality(Behind) + Cardinality(Judging) <= Cardinality(Process)
           /\ guesses \in Nat /\ crashes \in Nat /\ count["failures"] \in Nat
<1>1. /\ Uncounted \in SUBSET Process /\ Behind \in SUBSET Process /\ Judging \in SUBSET Process
      /\ Behind \cup Judging \in SUBSET Process
  BY DEF Behind, Uncounted, Over, Judging
<1>2. IsFiniteSet(Behind) /\ IsFiniteSet(Judging)
  BY <1>1, AccountCodesAssumption, FS_Subset
<1>3. Behind \cap Judging = {} BY DEF Behind, Uncounted, Over, Judging
<1>4. Cardinality(Behind \cup Judging) = Cardinality(Behind) + Cardinality(Judging)
  <2>1. Cardinality(Behind \cap Judging) = 0 BY <1>3, FS_EmptySet
  <2>2. Cardinality(Behind \cup Judging)
          = Cardinality(Behind) + Cardinality(Judging) - Cardinality(Behind \cap Judging)
    BY <1>2, FS_Union
  <2>3. Cardinality(Behind) \in Nat /\ Cardinality(Judging) \in Nat BY <1>1, AtMostAll
  <2> QED BY <2>1, <2>2, <2>3
<1>5. guesses \in Nat /\ crashes \in Nat /\ count["failures"] \in Nat
  BY DEF TypeInv, HistoryOk, BoundsOk, CounterOk, Counter
<1> QED BY <1>1, <1>4, <1>5, AtMostAll

\* A step that neither judges nor counts nor locks leaves the count of guesses right.
LEMMA QuietGuesses ==
    ASSUME GuessesInv, NEW p \in Process, Asking(p) \/ Presenting(p) \/ Own(p) \/ Keeping(p),
           UNCHANGED <<locked, guesses, crashes>>, count'["failures"] = count["failures"],
           p \in Uncounted' <=> p \in Uncounted, p \in Behind' <=> p \in Behind,
           p \in Judging' <=> p \in Judging
    PROVE  GuessesOk'
<1>1. /\ Cardinality(Uncounted') = Cardinality(Uncounted)
      /\ Cardinality(Behind') = Cardinality(Behind)
      /\ Cardinality(Judging') = Cardinality(Judging)
  BY Recount, Numbers DEF One, GuessesInv
<1> QED BY <1>1 DEF GuessesInv, GuessesOk, GuessesCounted, ExcessIsSeen, LockoutCloses

\* After a reset nothing is owed.
LEMMA ResetGuesses ==
    ASSUME TypeInv', guesses' = 0
    PROVE  GuessesOk'
<1>1. Uncounted' \in SUBSET Process /\ Behind' \in SUBSET Process /\ Judging' \in SUBSET Process
  BY DEF Behind, Uncounted, Over, Judging
<1>2. /\ Cardinality(Uncounted') \in Nat /\ Cardinality(Behind') \in Nat
      /\ Cardinality(Judging') \in Nat /\ Cardinality(Process) \in Nat
      /\ Cardinality(Judging') <= Cardinality(Process)
  BY <1>1, AtMostAll
<1>3. crashes' \in Nat /\ count'["failures"] \in Nat
  BY DEF TypeInv, BoundsOk, CounterOk, Counter
<1> QED BY <1>2, <1>3, AccountCodesAssumption
        DEF GuessesOk, GuessesCounted, ExcessIsSeen, LockoutCloses

LEMMA JudgeGuesses ==
    ASSUME GuessesInv, NEW p \in Process, Presenting(p), Judge(p)
    PROVE  GuessesOk'
<1>1. UNCHANGED <<locked, crashes, count>> BY DEF Judge, redis, bounds
<1>2. p \in Judging /\ p \notin Uncounted /\ p \notin Behind
  BY DEF Judge, Judging, Uncounted, Behind, Over
<1>3. CASE Goto(p, "clear") /\ UNCHANGED guesses
  <2>1. p \notin Judging' /\ p \notin Uncounted' /\ p \notin Behind'
    BY <1>3 DEF Goto, Judging, Uncounted, Behind, Over, GuessesInv, TypeInv, ProcessOk
  <2>2. /\ Cardinality(Uncounted') = Cardinality(Uncounted)
        /\ Cardinality(Behind') = Cardinality(Behind)
        /\ Cardinality(Judging') = Cardinality(Judging) - 1
    BY <1>2, <2>1, Recount, Numbers DEF One, GuessesInv
  <2> QED BY <1>1, <1>3, <2>2, Numbers, AccountCodesAssumption
          DEF GuessesInv, GuessesOk, GuessesCounted, ExcessIsSeen, LockoutCloses
<1>4. CASE Goto(p, "fail") /\ guesses' = guesses + 1
  <2>1. p \notin Judging' /\ p \in Uncounted' /\ p \in Behind'
    BY <1>4 DEF Goto, Judging, Uncounted, Behind, Over, GuessesInv, TypeInv, ProcessOk
  <2>2. /\ Cardinality(Uncounted') = Cardinality(Uncounted) + 1
        /\ Cardinality(Behind') = Cardinality(Behind) + 1
        /\ Cardinality(Judging') = Cardinality(Judging) - 1
    BY <1>2, <2>1, Recount, Numbers DEF One, GuessesInv
  <2> QED BY <1>1, <1>4, <2>2, Numbers, AccountCodesAssumption
          DEF GuessesInv, GuessesOk, GuessesCounted, ExcessIsSeen, LockoutCloses
<1> QED BY <1>3, <1>4 DEF Judge

LEMMA RecordGuesses ==
    ASSUME GuessesInv, NEW p \in Process, Presenting(p), RecordFailure(p)
    PROVE  GuessesOk'
<1>1. UNCHANGED <<locked, crashes, guesses>> BY DEF RecordFailure, history, bounds
<1>2. p \notin Judging /\ p \in Uncounted /\ p \in Behind
  BY DEF RecordFailure, Judging, Uncounted, Behind
<1>3. p \notin Judging' /\ p \notin Uncounted'
  BY DEF RecordFailure, Goto, Judging, Uncounted, GuessesInv, TypeInv, ProcessOk
<1>4. count'["failures"] = count["failures"] + 1
  BY DEF RecordFailure, Incr, GuessesInv, TypeInv, CounterOk, Counter
<1>5. p \notin Behind' => count["failures"] + 1 < MaxFailures
  <2>1. pc'[p] \in {"failTtl", "failed"} /\ task'[p].read = count["failures"] + 1
    BY DEF RecordFailure, Goto, GuessesInv, TypeInv, ProcessOk, TaskOk
  <2> QED BY <2>1, Numbers, AccountCodesAssumption DEF Behind, Over, GuessesInv
<1>6. /\ Cardinality(Uncounted') = Cardinality(Uncounted) - 1
      /\ Cardinality(Judging') = Cardinality(Judging)
      /\ p \in Behind' => Cardinality(Behind') = Cardinality(Behind)
      /\ p \notin Behind' => Cardinality(Behind') = Cardinality(Behind) - 1
  BY <1>2, <1>3, Recount, Numbers DEF One, GuessesInv
<1>7. GuessesCounted' /\ LockoutCloses'
  BY <1>1, <1>4, <1>6, Numbers DEF GuessesInv, GuessesOk, GuessesCounted, LockoutCloses
<1>8. ExcessIsSeen'
  <2>1. Cardinality(Uncounted') <= Cardinality(Behind')
    <3>1. /\ Uncounted' \in SUBSET Behind' /\ IsFiniteSet(Behind')
      BY AccountCodesAssumption, FS_Subset DEF Behind, Uncounted, Over
    <3> QED BY <3>1, FS_Subset
  <2>2. CASE p \in Behind'
    BY <1>1, <1>6, <2>2, Numbers DEF GuessesInv, GuessesOk, ExcessIsSeen
  <2>3. CASE p \notin Behind'
    <3>1. Cardinality(Behind') = Cardinality(Behind) - 1 /\ count["failures"] + 1 < MaxFailures
      BY <1>5, <1>6, <2>3
    <3> QED BY <1>1, <1>6, <2>1, <3>1, Numbers, AccountCodesAssumption
            DEF GuessesInv, GuessesOk, GuessesCounted, ExcessIsSeen
  <2> QED BY <2>2, <2>3
<1> QED BY <1>7, <1>8 DEF GuessesOk

LEMMA LockGuesses ==
    ASSUME GuessesInv, TypeInv', NEW p \in Process, Presenting(p), LockOut(p)
    PROVE  GuessesOk'
<1> USE DEF GuessesInv
<1>1. crashes' = crashes BY DEF LockOut, bounds
<1>2. CASE pc[p] = "failed"
  <2>1. UNCHANGED <<count, guesses>> BY <1>2 DEF LockOut, history
  <2>2. p \notin Uncounted /\ p \notin Judging /\ p \notin Uncounted' /\ p \notin Judging' /\ p \notin Behind'
    BY <1>2 DEF LockOut, Goto, End, Uncounted, Judging, Behind, Over, TypeInv, ProcessOk
  <2>3. CASE locked' = TRUE
    <3>1. Cardinality(Judging') = Cardinality(Judging) BY <2>2, Recount, Numbers DEF One
    <3>2. locked \in BOOLEAN BY DEF TypeInv, KeyOk
    <3> QED BY <1>1, <2>1, <2>3, <3>1, <3>2, Numbers, AccountCodesAssumption
            DEF GuessesOk, GuessesCounted, ExcessIsSeen, LockoutCloses
  <2>4. CASE locked' = locked /\ ~(task[p].read >= MaxFailures)
    <3>1. p \notin Behind BY <1>2, <2>4 DEF Behind, Over, Uncounted
    <3> QED BY <1>1, <2>1, <2>2, <2>4, <3>1, QuietGuesses
  <2> QED BY <1>2, <2>3, <2>4 DEF LockOut
<1>3. CASE pc[p] = "forget"
  <2>1. locked' = locked /\ guesses' = IF locked THEN guesses ELSE 0
    BY <1>3 DEF LockOut
  <2>2. p \notin Judging /\ p \notin Judging'
    BY <1>3 DEF LockOut, End, Goto, Judging, TypeInv, ProcessOk
  <2>3. CASE locked
    <3>1. Cardinality(Judging') = Cardinality(Judging) BY <2>2, Recount, Numbers DEF One
    <3> QED BY <1>1, <2>1, <2>3, <3>1
            DEF GuessesOk, GuessesCounted, ExcessIsSeen, LockoutCloses
  <2>4. CASE ~locked BY <2>1, <2>4, ResetGuesses
  <2> QED BY <2>3, <2>4
<1> QED BY <1>2, <1>3 DEF LockOut

LEMMA CrashGuesses ==
    ASSUME GuessesInv, NEW p \in Process, Keeping(p), Crash(p)
    PROVE  GuessesOk'
<1> USE DEF GuessesInv
<1>1. crashes' = crashes + 1 /\ UNCHANGED <<locked, count, guesses>> BY DEF Crash, redis
<1>2. p \notin Uncounted' /\ p \notin Judging' /\ p \notin Behind'
  BY DEF Crash, End, Goto, Uncounted, Judging, Behind, Over, TypeInv, ProcessOk
<1>3. /\ Cardinality(Uncounted') = Cardinality(Uncounted) - One(p \in Uncounted)
      /\ Cardinality(Behind') = Cardinality(Behind) - One(p \in Behind)
      /\ Cardinality(Judging') = Cardinality(Judging) - One(p \in Judging)
  BY <1>2, Recount, Numbers DEF One
<1>4. One(p \in Uncounted) \in {0, 1} /\ One(p \in Behind) \in {0, 1} /\ One(p \in Judging) \in {0, 1}
  BY DEF One
<1> QED BY <1>1, <1>3, <1>4, Numbers, AccountCodesAssumption
        DEF GuessesOk, GuessesCounted, ExcessIsSeen, LockoutCloses
LEMMA GuessesStep ==
    ASSUME GuessesInv, TypeInv', [Next]_vars
    PROVE  GuessesOk'
<1> USE DEF GuessesInv
<1>1. ASSUME NEW p \in Process, Asking(p) PROVE GuessesOk'
  <2>1. UNCHANGED <<locked, guesses, crashes>> /\ count'["failures"] = count["failures"]
    <3>1. CASE CountRequest(p)
      <4>1. task[p].op # "failures"
        BY <3>1 DEF CountRequest, TypeInv, ProcessOk, OpsAt, AskPlace, Asks
      <4> QED BY <3>1, <4>1 DEF CountRequest, Incr, TypeInv, CounterOk, history, bounds
    <3>2. CASE ~CountRequest(p)
      BY <1>1, <3>2 DEF Asking, Signup, RequestEmailOtp, ForgotPassword, RequestCode, Start,
                        TimeRequests, SetTtl, FindUser, SetCode, Enqueue, redis, history, bounds
    <3> QED BY <3>1, <3>2
  <2>2. pc[p] \notin {"judge", "fail", "failTtl", "failed"}
        /\ pc'[p] \notin {"judge", "fail", "failTtl", "failed"}
    BY <1>1 DEF Asking, Signup, RequestEmailOtp, ForgotPassword, RequestCode, Start, CountRequest,
                TimeRequests, FindUser, SetCode, Enqueue, Goto, End, TypeInv, ProcessOk
  <2>3. /\ p \notin Uncounted /\ p \notin Behind /\ p \notin Judging
        /\ p \notin Uncounted' /\ p \notin Behind' /\ p \notin Judging'
    BY <2>2 DEF Uncounted, Behind, Over, Judging
  <2> QED BY <1>1, <2>1, <2>3, QuietGuesses
<1>2. ASSUME NEW p \in Process, Presenting(p) PROVE GuessesOk'
  <2>1. CASE Judge(p) BY <1>2, <2>1, JudgeGuesses
  <2>2. CASE RecordFailure(p) BY <1>2, <2>2, RecordGuesses
  <2>3. CASE LockOut(p) BY <1>2, <2>3, LockGuesses
  <2>4. CASE ClearFailures(p) \/ ClearLockout(p)
    BY <2>4, ResetGuesses DEF ClearFailures, ClearLockout
  <2>5. CASE TimeFailures(p)
    <3>1. UNCHANGED <<locked, guesses, crashes, count>>
      BY <2>5 DEF TimeFailures, SetTtl, history, bounds
    <3>2. pc[p] = "failTtl" /\ pc'[p] = "failed" /\ task'[p] = task[p]
      BY <2>5 DEF TimeFailures, Goto, TypeInv, ProcessOk
    <3>3. /\ p \in Uncounted' <=> p \in Uncounted
          /\ p \in Behind' <=> p \in Behind
          /\ p \in Judging' <=> p \in Judging
      BY <3>2 DEF Uncounted, Behind, Over, Judging
    <3> QED BY <1>2, <3>1, <3>3, QuietGuesses
  <2>6. CASE CheckLockout(p)
    <3>1. UNCHANGED <<locked, guesses, crashes, count>>
      BY <2>6 DEF CheckLockout, redis, history, bounds
    <3>2. pc[p] = "lock" /\ pc'[p] \in {"idle", "rate", "judge"} /\ (pc'[p] = "judge" => ~locked)
      BY <2>6 DEF CheckLockout, Goto, End, TypeInv, ProcessOk
    <3>3. /\ p \notin Uncounted /\ p \notin Behind /\ p \notin Judging
          /\ p \notin Uncounted' /\ p \notin Behind' /\ (p \in Judging' => ~locked)
      BY <3>2 DEF Uncounted, Behind, Over, Judging
    <3>4. CASE locked BY <1>2, <3>1, <3>3, <3>4, QuietGuesses
    <3>5. CASE ~locked
      <4>1. /\ Cardinality(Uncounted') = Cardinality(Uncounted)
            /\ Cardinality(Behind') = Cardinality(Behind)
        BY <1>2, <3>3, Recount, Numbers DEF One
      <4> QED BY <3>1, <3>5, <4>1 DEF GuessesOk, GuessesCounted, ExcessIsSeen, LockoutCloses
    <3> QED BY <3>4, <3>5
  <2>7. CASE VerifyEmailOtp(p) \/ ResetPassword(p) \/ Login(p) \/ Prove(p) \/ SpendCode(p)
    <3>1. UNCHANGED <<locked, guesses, crashes, count>>
      BY <2>7 DEF VerifyEmailOtp, ResetPassword, Login, Present, Start, Prove, SpendCode,
                  redis, history, bounds
    <3>2. pc[p] \in {"idle", "prove", "spend"} /\ pc'[p] \in {"idle", "lock", "spend"}
      BY <2>7 DEF VerifyEmailOtp, ResetPassword, Login, Present, Start, Prove, SpendCode,
                  Goto, End, TypeInv, ProcessOk
    <3>3. /\ p \notin Uncounted /\ p \notin Behind /\ p \notin Judging
          /\ p \notin Uncounted' /\ p \notin Behind' /\ p \notin Judging'
      BY <3>2 DEF Uncounted, Behind, Over, Judging
    <3> QED BY <1>2, <3>1, <3>3, QuietGuesses
  <2> QED BY <1>2, <2>1, <2>2, <2>3, <2>4, <2>5, <2>6, <2>7 DEF Presenting
<1>3. ASSUME NEW p \in Process, Own(p) PROVE GuessesOk'
  <2>1. UNCHANGED <<locked, guesses, crashes>> /\ count'["failures"] = count["failures"]
    <3>1. CASE OwnIncr(p)
      BY <3>1 DEF OwnIncr, Incr, TypeInv, CounterOk, bounds
    <3>2. CASE ~OwnIncr(p)
      BY <1>3, <3>2 DEF Own, OwnRequest, Start, OwnCheck, OwnCool, OwnTtl, SetTtl,
                        redis, history, bounds
    <3> QED BY <3>1, <3>2
  <2>2. /\ pc[p] \in {"idle", "ownCount", "ownCool", "ownIncr", "ownTtl"}
        /\ pc'[p] \in {"idle", "ownCount", "ownCool", "ownIncr", "ownTtl"}
    BY <1>3 DEF Own, OwnRequest, Start, OwnCheck, OwnCool, OwnIncr, OwnTtl, Goto, End,
                TypeInv, ProcessOk
  <2>3. /\ p \notin Uncounted /\ p \notin Behind /\ p \notin Judging
        /\ p \notin Uncounted' /\ p \notin Behind' /\ p \notin Judging'
    BY <2>2 DEF Uncounted, Behind, Over, Judging
  <2> QED BY <1>3, <2>1, <2>3, QuietGuesses
<1>4. ASSUME NEW p \in Process, Keeping(p) PROVE GuessesOk'
  <2>1. CASE Crash(p) BY <1>4, <2>1, CrashGuesses
  <2>2. CASE UnlockLockout(p) \/ UnlockCounter(p)
    BY <2>2, ResetGuesses DEF UnlockLockout, UnlockCounter
  <2>3. CASE UnlockUser(p) \/ Bounce(p) \/ Unverify(p) \/ Suppress(p)
    <3>1. UNCHANGED <<locked, guesses, crashes, count>>
      BY <2>3 DEF UnlockUser, Bounce, Start, Unverify, Suppress, redis, history, bounds
    <3>2. /\ pc[p] \in {"idle", "unverify", "suppress"}
          /\ pc'[p] \in {"idle", "unlock", "unverify", "suppress"}
      BY <2>3 DEF UnlockUser, Bounce, Start, Unverify, Suppress, Goto, End, TypeInv, ProcessOk
    <3>3. /\ p \notin Uncounted /\ p \notin Behind /\ p \notin Judging
          /\ p \notin Uncounted' /\ p \notin Behind' /\ p \notin Judging'
      BY <3>2 DEF Uncounted, Behind, Over, Judging
    <3> QED BY <1>4, <3>1, <3>3, QuietGuesses
  <2> QED BY <1>4, <2>1, <2>2, <2>3 DEF Keeping
<1>5. CASE (\E i \in Id : Mailing(i)) \/ GoogleLogin \/ RemoveSuppressedEmail \/ UNCHANGED vars
           \/ (\E k \in Kind : CodeLapses(k)) \/ CooldownLapses
  <2>1. UNCHANGED <<count, locked, guesses, crashes, pc, task>>
    BY <1>5 DEF Mailing, MailCheck, MailSend, MailError, GoogleLogin, RemoveSuppressedEmail,
                CodeLapses, CooldownLapses, vars, redis, process, bounds, history
  <2> QED BY <2>1 DEF GuessesOk, GuessesCounted, ExcessIsSeen, LockoutCloses, Behind,
                      Uncounted, Over, Judging
<1>6. CASE LockoutLapses BY <1>6, ResetGuesses DEF LockoutLapses
<1>7. ASSUME NEW c \in Counter, CounterLapses(c) PROVE GuessesOk'
  <2>1. CASE c = "failures" BY <1>7, <2>1, ResetGuesses DEF CounterLapses
  <2>2. CASE c # "failures"
    <3>1. UNCHANGED <<locked, guesses, crashes, pc, task>> /\ count'["failures"] = count["failures"]
      BY <1>7, <2>2 DEF CounterLapses, process, bounds, TypeInv, CounterOk, Counter
    <3> QED BY <3>1 DEF GuessesOk, GuessesCounted, ExcessIsSeen, LockoutCloses, Behind,
                        Uncounted, Over, Judging
  <2> QED BY <2>1, <2>2
<1> QED BY <1>1, <1>2, <1>3, <1>4, <1>5, <1>6, <1>7 DEF Next, Lapsing

\* The guesses of an address, counted and locked out in steps of their own
\* (src/src/auth/auth.service), are bound as the inductive invariant says.
THEOREM GuessesInvariant == Spec => []GuessesInv
<1>1. Init => GuessesInv
  <2> SUFFICES ASSUME Init PROVE GuessesInv OBVIOUS
  <2>1. TypeInv BY TypeStart
  <2>2. ~locked /\ Judging = {} /\ guesses = count["failures"] /\ guesses <= MaxFailures - 1
    BY AccountCodesAssumption DEF Init, Judging, Counter
  <2> QED BY <2>1, <2>2, Numbers, AccountCodesAssumption
          DEF GuessesInv, GuessesOk, GuessesCounted, ExcessIsSeen, LockoutCloses
<1>2. GuessesInv /\ [Next]_vars => GuessesInv'
  BY TypeStep, GuessesStep DEF GuessesInv
<1> QED BY <1>1, <1>2, PTL DEF Spec

\* However many requests guess at the same time, the address is judged no more wrong guesses
\* than the limit, one for every request in flight, and those of requests that died
\* (checkLockout, recordFailure of src/src/auth/auth.service).
THEOREM GuessesBoundedCorrect == Spec => []GuessesBounded
<1>1. GuessesInv => GuessesBounded
  BY Numbers, AccountCodesAssumption
     DEF GuessesInv, GuessesOk, ExcessIsSeen, LockoutCloses, GuessesBounded, TypeInv, KeyOk
<1> QED BY <1>1, GuessesInvariant, PTL
-----------------------------------------------------------------------------
(* SuppressedIsSpared *)

LEMMA EntitledStep ==
    ASSUME TypeInv, CodesAllowed, [Next]_vars
    PROVE  CodesAllowed'
<1>1. ASSUME NEW p \in Process, Asking(p) \/ Presenting(p) \/ Own(p) \/ Keeping(p)
      PROVE  CodesAllowed'
  <2>1. /\ Entitled \in SUBSET Process /\ Entitled' \in SUBSET Process
        /\ \A q \in Process \ {p} : q \in Entitled <=> q \in Entitled'
    <3>1. \A q \in Process \ {p} : pc'[q] = pc[q] /\ task'[q] = task[q]
      BY <1>1, OthersStay DEF TypeInv
    <3> QED BY <3>1 DEF Entitled
  <2>2. /\ Cardinality(Entitled') = Cardinality(Entitled) + One(p \in Entitled') - One(p \in Entitled)
        /\ Cardinality(Entitled) \in Nat /\ Cardinality(Entitled') \in Nat
    BY <2>1, OneMoves, AtMostAll
  <2>3. \/ issued' = issued /\ requests' = requests /\ (p \in Entitled' => p \in Entitled)
        \/ issued' = issued /\ requests' = requests + 1 /\ p \notin Entitled
        \/ issued' = issued + 1 /\ requests' = requests /\ p \in Entitled /\ p \notin Entitled'
    <3> USE DEF TypeInv, ProcessOk
    <3>1. CASE Asking(p)
      <4>1. CASE Signup(p) \/ RequestEmailOtp(p) \/ ForgotPassword(p)
        BY <4>1 DEF Signup, RequestEmailOtp, ForgotPassword, RequestCode, Start, history, Entitled
      <4>2. CASE SetCode(p)
        BY <4>2 DEF SetCode, Goto, bounds, Entitled, OpsAt, AskPlace
      <4>3. CASE CountRequest(p) \/ TimeRequests(p) \/ FindUser(p) \/ Enqueue(p)
        <5>1. UNCHANGED <<issued, requests>>
          BY <4>3 DEF CountRequest, TimeRequests, FindUser, Enqueue, history, bounds
        <5>2. task[p].op \in Asks
          BY <4>3 DEF CountRequest, TimeRequests, FindUser, Enqueue, OpsAt, AskPlace
        <5>3. pc[p] \in {"rate", "rateTtl", "find"} \/ pc'[p] = "idle"
          BY <4>3 DEF CountRequest, TimeRequests, FindUser, Enqueue, End, Goto
        <5> QED BY <5>1, <5>2, <5>3 DEF Entitled
      <4> QED BY <3>1, <4>1, <4>2, <4>3 DEF Asking
    <3>2. CASE Presenting(p)
      <4>1. CASE VerifyEmailOtp(p) \/ ResetPassword(p) \/ Login(p)
        BY <4>1 DEF VerifyEmailOtp, ResetPassword, Login, Present, Start, history, Entitled
      <4>2. CASE CheckLockout(p)
        <5>1. UNCHANGED <<issued, requests>> BY <4>2 DEF CheckLockout, history, bounds
        <5>2. pc[p] = "lock" /\ (pc'[p] = "idle" \/ task'[p] = task[p])
          BY <4>2 DEF CheckLockout, End, Goto
        <5> QED BY <5>1, <5>2 DEF Entitled
      <4>3. CASE Judge(p) \/ RecordFailure(p) \/ TimeFailures(p) \/ LockOut(p) \/ ClearFailures(p)
                 \/ ClearLockout(p) \/ Prove(p) \/ SpendCode(p)
        <5>1. UNCHANGED <<issued, requests>>
          BY <4>3 DEF Judge, RecordFailure, TimeFailures, LockOut, ClearFailures, ClearLockout,
                      Prove, SpendCode, history, bounds
        <5>2. pc'[p] \in {"idle", "clear", "fail", "failTtl", "failed", "forget", "clearLock",
                          "prove", "spend"}
          BY <4>3 DEF Judge, RecordFailure, TimeFailures, LockOut, ClearFailures, ClearLockout,
                      Prove, SpendCode, End, Goto
        <5> QED BY <5>1, <5>2 DEF Entitled
      <4> QED BY <3>2, <4>1, <4>2, <4>3 DEF Presenting
    <3>3. CASE Own(p)
      <4>1. CASE OwnRequest(p) BY <4>1 DEF OwnRequest, Start, history, Entitled
      <4>2. CASE OwnCheck(p) \/ OwnCool(p) \/ OwnIncr(p) \/ OwnTtl(p)
        <5>1. UNCHANGED <<issued, requests>>
          BY <4>2 DEF OwnCheck, OwnCool, OwnIncr, OwnTtl, history, bounds
        <5>2. pc'[p] \in {"idle", "ownCool", "ownIncr", "ownTtl"}
          BY <4>2 DEF OwnCheck, OwnCool, OwnIncr, OwnTtl, End, Goto
        <5> QED BY <5>1, <5>2 DEF Entitled
      <4> QED BY <3>3, <4>1, <4>2 DEF Own
    <3>4. CASE Keeping(p)
      <4>1. CASE UnlockUser(p) \/ Bounce(p)
        BY <4>1 DEF UnlockUser, Bounce, Start, history, Entitled
      <4>2. CASE UnlockLockout(p) \/ UnlockCounter(p) \/ Unverify(p) \/ Suppress(p) \/ Crash(p)
        <5>1. UNCHANGED <<issued, requests>>
          BY <4>2 DEF UnlockLockout, UnlockCounter, Unverify, Suppress, Crash, history, bounds
        <5>2. pc'[p] \in {"idle", "unlockCount", "suppress"}
          BY <4>2 DEF UnlockLockout, UnlockCounter, Unverify, Suppress, Crash, End, Goto
        <5> QED BY <5>1, <5>2 DEF Entitled
      <4> QED BY <3>4, <4>1, <4>2 DEF Keeping
    <3> QED BY <1>1, <3>1, <3>2, <3>3, <3>4
  <2>4. issued \in Nat /\ requests \in Nat
    BY AccountCodesAssumption DEF TypeInv, HistoryOk, BoundsOk
  <2> QED BY <2>2, <2>3, <2>4 DEF CodesAllowed, One
<1>2. CASE GoogleLogin
  <2>1. requests' = requests + 1 /\ UNCHANGED <<issued, pc, task>>
    BY <1>2 DEF GoogleLogin, process, history
  <2>2. issued \in Nat /\ requests \in Nat /\ Cardinality(Entitled) \in Nat
    BY AccountCodesAssumption, AtMostAll DEF TypeInv, HistoryOk, BoundsOk, Entitled
  <2> QED BY <2>1, <2>2 DEF CodesAllowed, Entitled
<1>3. CASE (\E i \in Id : Mailing(i)) \/ Lapsing \/ RemoveSuppressedEmail \/ UNCHANGED vars
  <2>1. UNCHANGED <<requests, issued, pc, task>>
    BY <1>3 DEF Mailing, MailCheck, MailSend, MailError, Lapsing, CounterLapses, CodeLapses,
                LockoutLapses, CooldownLapses, RemoveSuppressedEmail, vars, process, bounds, history
  <2> QED BY <2>1 DEF CodesAllowed, Entitled
<1> QED BY <1>1, <1>2, <1>3 DEF Next

\* A code that has been made has its number among the codes there can be.
LEMMA IssuedIsId ==
    ASSUME TypeInv, CodesAllowed, NEW i \in Nat, i # 0, i <= issued
    PROVE  i \in Id
<1>1. Cardinality(Entitled) \in Nat BY AtMostAll DEF Entitled
<1> QED BY <1>1, AccountCodesAssumption DEF CodesAllowed, Id, TypeInv, HistoryOk, BoundsOk
\* What a step of a request may do to the codes and to what refers to them, unless it makes one.
LEMMA OldCodes ==
    ASSUME TypeInv, NEW p \in Process, Asking(p) \/ Presenting(p) \/ Own(p) \/ Keeping(p),
           ~SetCode(p)
    PROVE  /\ issued' = issued /\ eraOf' = eraOf
           /\ proof' \in {proof, 0} \/ (Verifying(p) /\ proof' = task[p].id)
           /\ \A k \in Kind : code'[k] \in {code[k], 0}
           /\ task'[p].id \in {task[p].id, 0} \cup {code[k] : k \in Kind}
           /\ task'[p].era \in {task[p].era, 0, era}
           /\ pc'[p] # "mail"
           /\ Verifying(p)' =>
                \/ Verifying(p) /\ task'[p].id = task[p].id
                \/ task'[p].id # 0 /\ (\E k \in Kind : task'[p].id = code[k] /\ mail[code[k]] = "sent")
           /\ \/ UNCHANGED <<era, suppressed>>
              \/ suppressed' /\ era' = IF suppressed THEN era ELSE era + 1
           /\ \/ mail' = mail
              \/ mail' = [mail EXCEPT ![task[p].id] = "queued"] /\ pc[p] = "mail"
<1> USE DEF TypeInv, ProcessOk, TaskOk, HistoryOk, Goto
<1>1. CASE Signup(p) \/ RequestEmailOtp(p) \/ ForgotPassword(p) \/ VerifyEmailOtp(p)
           \/ ResetPassword(p) \/ Login(p) \/ OwnRequest(p) \/ UnlockUser(p) \/ Bounce(p)
  <2>1. PICK place \in {"lock", "ownCount", "unlock", "unverify"}, op \in Operation : Start(p, place, op)
    BY <1>1 DEF Signup, RequestEmailOtp, ForgotPassword, RequestCode, VerifyEmailOtp,
       ResetPassword,
                Login, Present, OwnRequest, UnlockUser, Bounce, Operation, Asks
  <2>2. UNCHANGED <<user, redis, queue, history>> BY <2>1 DEF Start
  <2>3. pc'[p] = place /\ task'[p].id = 0 /\ task'[p].era \in {0, era}
    BY <2>1 DEF Start, Nothing
  <2> QED BY <2>2, <2>3 DEF user, redis, queue, history, Verifying, VerifyPlace
<1>2. CASE Judge(p)
  <2>1. /\ UNCHANGED <<user, redis, queue, issued, era, eraOf>>
        /\ task'[p].era = task[p].era /\ task'[p].op = task[p].op
    BY <1>2 DEF Judge
  <2>2. CASE task[p].op = "login"
    <3>1. task'[p].id \in {task[p].id, 0} /\ pc'[p] \in {"clear", "fail"} BY <1>2, <2>2 DEF Judge
    <3> QED BY <2>1, <2>2, <3>1 DEF user, redis, queue, Verifying, VerifyPlace
  <2>3. CASE task[p].op # "login"
    <3> DEFINE k == KindOf(task[p].op)
    <3>1. k \in Kind BY DEF KindOf, Kind
    <3>2. \/ task'[p].id = task[p].id /\ pc'[p] = "fail"
          \/ task'[p].id = code[k] /\ code[k] # 0 /\ mail[code[k]] = "sent" /\ pc'[p] = "clear"
      BY <1>2, <2>3 DEF Judge
    <3> QED BY <2>1, <3>1, <3>2 DEF user, redis, queue, Verifying, VerifyPlace
  <2> QED BY <2>2, <2>3
<1>3. CASE Prove(p)
  <2>1. /\ UNCHANGED <<redis, queue, history>> /\ pc[p] = "prove"
        /\ proof' = proof \/ (task[p].op = "verify" /\ proof' = task[p].id)
    BY <1>3 DEF Prove
  <2>2. task'[p].id \in {task[p].id, 0} /\ task'[p].era \in {task[p].era, 0} /\ pc'[p] \in {"spend", "idle"}
    BY <1>3 DEF Prove, End, Nothing
  <2> QED BY <2>1, <2>2 DEF redis, queue, history, Verifying, VerifyPlace
<1>4. CASE Enqueue(p) \/ SpendCode(p) \/ Unverify(p) \/ Suppress(p)
  <2>1. /\ task'[p].id \in {task[p].id, 0} /\ task'[p].era \in {task[p].era, 0}
        /\ pc'[p] \in {"idle", "suppress"} /\ issued' = issued /\ eraOf' = eraOf
    BY <1>4 DEF Enqueue, SpendCode, Unverify, Suppress, End, Nothing, history
  <2>2. \A k \in Kind : code'[k] \in {code[k], 0}
    BY <1>4 DEF Enqueue, SpendCode, Unverify, Suppress, redis, KeyOk
  <2>3. proof' \in {proof, 0}
    BY <1>4 DEF Enqueue, SpendCode, Unverify, Suppress, user
  <2>4. /\ \/ UNCHANGED <<era, suppressed>>
           \/ suppressed' /\ era' = IF suppressed THEN era ELSE era + 1
        /\ \/ mail' = mail
           \/ mail' = [mail EXCEPT ![task[p].id] = "queued"] /\ pc[p] = "mail"
    BY <1>4 DEF Enqueue, SpendCode, Unverify, Suppress, queue, history, redis
  <2> QED BY <2>1, <2>2, <2>3, <2>4 DEF Verifying, VerifyPlace
<1>5. CASE \/ CountRequest(p) \/ TimeRequests(p) \/ FindUser(p) \/ CheckLockout(p) \/ RecordFailure(p)
           \/ TimeFailures(p) \/ LockOut(p) \/ ClearFailures(p) \/ ClearLockout(p) \/ OwnCheck(p)
           \/ OwnCool(p) \/ OwnIncr(p) \/ OwnTtl(p) \/ UnlockLockout(p) \/ UnlockCounter(p) \/ Crash(p)
  <2>1. UNCHANGED <<proof, code, suppressed, mail, issued, era, eraOf>>
    BY <1>5 DEF CountRequest, TimeRequests, FindUser, CheckLockout, RecordFailure, TimeFailures,
                LockOut, ClearFailures, ClearLockout, OwnCheck, OwnCool, OwnIncr, OwnTtl,
                UnlockLockout, UnlockCounter, Crash, user, redis, queue, history
  <2>2. /\ task'[p].id \in {task[p].id, 0} /\ task'[p].era \in {task[p].era, 0}
        /\ pc'[p] # "mail"
    <3>1. CASE RecordFailure(p) \/ OwnCheck(p)
      BY <3>1 DEF RecordFailure, OwnCheck, End, Nothing
    <3>2. CASE ~(RecordFailure(p) \/ OwnCheck(p))
      <4>1. End(p) \/ (task' = task /\ pc'[p] # "mail")
        BY <1>5, <3>2 DEF CountRequest, TimeRequests, FindUser, CheckLockout, TimeFailures,
                    LockOut, ClearFailures, ClearLockout, OwnCool, OwnIncr, OwnTtl,
                    UnlockLockout, UnlockCounter, Crash
      <4> QED BY <4>1 DEF End, Nothing
    <3> QED BY <3>1, <3>2
  <2>3. Verifying(p)' => Verifying(p) /\ task'[p].id = task[p].id
    BY <1>5 DEF CountRequest, TimeRequests, FindUser, CheckLockout, RecordFailure, TimeFailures,
                LockOut, ClearFailures, ClearLockout, OwnCheck, OwnCool, OwnIncr, OwnTtl,
                UnlockLockout, UnlockCounter, Crash, End, Nothing, Verifying, VerifyPlace
  <2> QED BY <2>1, <2>2, <2>3
<1> QED BY <1>1, <1>2, <1>3, <1>4, <1>5 DEF Asking, Presenting, Own, Keeping
LEMMA CodesStep ==
    ASSUME TypeInv, CodesAllowed, CodesIssued, [Next]_vars
    PROVE  CodesIssued'
<1> USE DEF TypeInv, ProcessOk, TaskOk, HistoryOk, CodesIssued
<1>1. ASSUME NEW p \in Process, Asking(p) \/ Presenting(p) \/ Own(p) \/ Keeping(p), ~SetCode(p)
      PROVE  CodesIssued'
  <2>1. /\ issued' = issued /\ eraOf' = eraOf
        /\ proof' \in {proof, 0} \/ (Verifying(p) /\ proof' = task[p].id)
        /\ \A k \in Kind : code'[k] \in {code[k], 0}
        /\ task'[p].id \in {task[p].id, 0} \cup {code[k] : k \in Kind}
        /\ task'[p].era \in {task[p].era, 0, era}
        /\ pc'[p] # "mail"
        /\ Verifying(p)' => \/ Verifying(p) /\ task'[p].id = task[p].id
                            \/ task'[p].id # 0
        /\ era' \in {era, era + 1}
        /\ \/ mail' = mail
           \/ mail' = [mail EXCEPT ![task[p].id] = "queued"] /\ pc[p] = "mail"
    BY <1>1, OldCodes
  <2>2. \A q \in Process \ {p} : pc'[q] = pc[q] /\ task'[q] = task[q]
    BY <1>1, OthersStay
  <2>3. proof' <= issued' BY <2>1
  <2>4. \A k \in Kind : code'[k] <= issued' BY <2>1
  <2>5. ASSUME NEW q \in Process PROVE task'[q].id <= issued' /\ task'[q].era <= era'
    <3>1. CASE q = p BY <2>1, <3>1
    <3>2. CASE q # p BY <2>1, <2>2, <3>2
    <3> QED BY <3>1, <3>2
  <2>6. ASSUME NEW q \in Process, pc'[q] = "mail" \/ Verifying(q)' PROVE task'[q].id # 0
    <3>1. CASE q = p BY <2>1, <2>6, <3>1
    <3>2. CASE q # p BY <2>2, <2>6, <3>2 DEF Verifying
    <3> QED BY <3>1, <3>2
  <2>7. \A i \in Id : eraOf'[i] <= era' BY <2>1
  <2>8. ASSUME NEW i \in Id, i > issued' PROVE mail'[i] = "none"
    <3>1. mail[i] = "none" /\ (pc[p] = "mail" => task[p].id # i)
      BY <2>1, <2>8 DEF Id
    <3> QED BY <2>1, <3>1 DEF QueueOk
  <2> QED BY <2>3, <2>4, <2>5, <2>6, <2>7, <2>8
<1>2. ASSUME NEW p \in Process, SetCode(p) PROVE CodesIssued'
  <2>1. /\ issued' = issued + 1 /\ eraOf' = [eraOf EXCEPT ![issued + 1] = task[p].era]
        /\ code' = [code EXCEPT ![KindOf(task[p].op)] = issued + 1]
        /\ UNCHANGED <<proof, era, mail>>
        /\ pc'[p] = "mail" /\ task'[p].id = issued + 1 /\ task'[p].era = task[p].era
        /\ \A q \in Process \ {p} : pc'[q] = pc[q] /\ task'[q] = task[q]
    BY <1>2 DEF SetCode, Goto, user, queue
  <2>2. proof' <= issued' BY <2>1 DEF UserOk
  <2>3. \A k \in Kind : code'[k] <= issued' BY <2>1 DEF KeyOk
  <2>4. ASSUME NEW q \in Process PROVE task'[q].id <= issued' /\ task'[q].era <= era'
    <3>1. CASE q = p BY <2>1, <3>1
    <3>2. CASE q # p BY <2>1, <3>2
    <3> QED BY <3>1, <3>2
  <2>5. ASSUME NEW q \in Process, pc'[q] = "mail" \/ Verifying(q)' PROVE task'[q].id # 0
    <3>1. CASE q = p BY <2>1, <3>1
    <3>2. CASE q # p BY <2>1, <2>5, <3>2 DEF Verifying
    <3> QED BY <3>1, <3>2
  <2>6. \A i \in Id : eraOf'[i] <= era' BY <2>1
  <2>7. \A i \in Id : i > issued' => mail'[i] = "none" BY <2>1 DEF Id
  <2> QED BY <2>2, <2>3, <2>4, <2>5, <2>6, <2>7
<1>3. ASSUME NEW i \in Id, Mailing(i) PROVE CodesIssued'
  <2>1. UNCHANGED <<proof, code, pc, task, issued, era, eraOf>>
    BY <1>3 DEF Mailing, MailCheck, MailSend, MailError, user, redis, process, history
  <2>2. mail[i] # "none" /\ \A j \in Id \ {i} : mail'[j] = mail[j]
    BY <1>3 DEF Mailing, MailCheck, MailSend, MailError, QueueOk
  <2> QED BY <2>1, <2>2 DEF Verifying
<1>4. CASE Lapsing \/ GoogleLogin \/ RemoveSuppressedEmail \/ UNCHANGED vars
  <2>1. /\ UNCHANGED <<pc, task, mail, issued, era, eraOf>> /\ proof' \in {proof, 0}
        /\ \A k \in Kind : code'[k] \in {code[k], 0}
    BY <1>4 DEF Lapsing, CounterLapses, CodeLapses, LockoutLapses, CooldownLapses, GoogleLogin,
                RemoveSuppressedEmail, vars, user, redis, queue, process, history, KeyOk
  <2> QED BY <2>1 DEF Verifying
<1> QED BY <1>1, <1>2, <1>3, <1>4 DEF Next

\* No code reaches anybody that was asked for since the address came on the list.
LEMMA NotMailedStep ==
    ASSUME SparedInv, [Next]_vars
    PROVE  NotMailed'
<1> USE DEF SparedInv, TypeInv, KeyOk, HistoryOk, NotMailed
<1> SUFFICES ASSUME suppressed', NEW i \in Id, mail'[i] \in {"checked", "sent"}
             PROVE  eraOf'[i] < era'
  OBVIOUS
<1>1. ASSUME NEW p \in Process, Asking(p) \/ Presenting(p) \/ Own(p) \/ Keeping(p), ~SetCode(p)
      PROVE  eraOf'[i] < era'
  <2>1. /\ eraOf' = eraOf
        /\ \/ UNCHANGED <<era, suppressed>>
           \/ suppressed' /\ era' = IF suppressed THEN era ELSE era + 1
        /\ \/ mail' = mail
           \/ mail' = [mail EXCEPT ![task[p].id] = "queued"]
    BY <1>1, OldCodes
  <2>2. mail[i] \in {"checked", "sent"} BY <2>1 DEF QueueOk
  <2>3. eraOf[i] <= era BY DEF CodesIssued
  <2>4. CASE suppressed BY <2>1, <2>2, <2>4
  <2>5. CASE ~suppressed
    <3>1. era' = era + 1 BY <2>1, <2>5
    <3> QED BY <2>1, <2>3, <3>1
  <2> QED BY <2>4, <2>5
<1>2. ASSUME NEW p \in Process, SetCode(p) PROVE eraOf'[i] < era'
  <2>1. /\ eraOf' = [eraOf EXCEPT ![issued + 1] = task[p].era]
        /\ UNCHANGED <<suppressed, era, mail>>
    BY <1>2 DEF SetCode, queue
  <2>2. i # issued + 1 BY <2>1 DEF CodesIssued
  <2> QED BY <2>1, <2>2
<1>3. ASSUME NEW j \in Id, Mailing(j) PROVE eraOf'[i] < era'
  <2>1. UNCHANGED <<suppressed, era, eraOf>>
    BY <1>3 DEF Mailing, MailCheck, MailSend, MailError, redis, history
  <2>2. mail[i] \in {"checked", "sent"}
    BY <1>3, <2>1 DEF Mailing, MailCheck, MailSend, MailError, QueueOk
  <2> QED BY <2>1, <2>2
<1>4. CASE Lapsing \/ GoogleLogin \/ RemoveSuppressedEmail \/ UNCHANGED vars
  <2>1. UNCHANGED <<suppressed, mail, era, eraOf>>
    BY <1>4 DEF Lapsing, CounterLapses, CodeLapses, LockoutLapses, CooldownLapses, GoogleLogin,
                RemoveSuppressedEmail, vars, redis, queue, history
  <2> QED BY <2>1
<1> QED BY <1>1, <1>2, <1>3, <1>4 DEF Next

\* No request gets to know such a code, ...
LEMMA VerifyStep ==
    ASSUME SparedInv, [Next]_vars
    PROVE  NotAboutToVerify'
<1> USE DEF SparedInv, TypeInv, ProcessOk, TaskOk, KeyOk, HistoryOk, NotAboutToVerify
<1> SUFFICES ASSUME suppressed', NEW q \in Process, Verifying(q)'
             PROVE  eraOf'[task'[q].id] < era'
  OBVIOUS
<1>1. ASSUME NEW p \in Process, Asking(p) \/ Presenting(p) \/ Own(p) \/ Keeping(p), ~SetCode(p)
      PROVE  eraOf'[task'[q].id] < era'
  <2>1. /\ eraOf' = eraOf
        /\ \/ UNCHANGED <<era, suppressed>>
           \/ suppressed' /\ era' = IF suppressed THEN era ELSE era + 1
    BY <1>1, OldCodes
  <2>2. \/ Verifying(q) /\ task'[q].id = task[q].id
        \/ \E k \in Kind : /\ task'[q].id = code[k] /\ code[k] # 0 /\ mail[code[k]] = "sent"
    <3>1. CASE q = p BY <1>1, <3>1, OldCodes
    <3>2. CASE q # p BY <1>1, <3>2, OthersStay DEF Verifying
    <3> QED BY <3>1, <3>2
  <2>3. CASE Verifying(q) /\ task'[q].id = task[q].id
    <3>1. task[q].id \in Id BY <2>3, IssuedIsId DEF CodesIssued
    <3>2. eraOf[task[q].id] <= era BY <3>1 DEF CodesIssued
    <3>3. CASE suppressed BY <2>1, <2>3, <3>3
    <3>4. CASE ~suppressed
      <4>1. era' = era + 1 BY <2>1, <3>4
      <4> QED BY <2>1, <2>3, <3>1, <3>2, <4>1
    <3> QED BY <3>3, <3>4
  <2>4. ASSUME NEW k \in Kind, task'[q].id = code[k], code[k] # 0, mail[code[k]] = "sent"
        PROVE  eraOf'[task'[q].id] < era'
    <3>1. code[k] \in Id BY <2>4, IssuedIsId DEF CodesIssued, KeyOk
    <3>2. eraOf[code[k]] <= era BY <3>1 DEF CodesIssued
    <3>3. CASE suppressed
      <4>1. eraOf[code[k]] < era BY <2>4, <3>1, <3>3 DEF NotMailed
      <4> QED BY <2>1, <2>4, <3>3, <4>1
    <3>4. CASE ~suppressed
      <4>1. era' = era + 1 BY <2>1, <3>4
      <4> QED BY <2>1, <2>4, <3>1, <3>2, <4>1
    <3> QED BY <3>3, <3>4
  <2> QED BY <2>2, <2>3, <2>4
<1>2. ASSUME NEW p \in Process, SetCode(p) PROVE eraOf'[task'[q].id] < era'
  <2>1. /\ eraOf' = [eraOf EXCEPT ![issued + 1] = task[p].era]
        /\ UNCHANGED <<suppressed, era>> /\ pc'[p] = "mail"
        /\ \A r \in Process \ {p} : pc'[r] = pc[r] /\ task'[r] = task[r]
    BY <1>2 DEF SetCode, Goto
  <2>2. q # p BY <2>1 DEF Verifying, VerifyPlace
  <2>3. Verifying(q) /\ task'[q] = task[q] /\ task[q].id <= issued
    BY <2>1, <2>2 DEF Verifying, CodesIssued
  <2>4. eraOf'[task[q].id] = eraOf[task[q].id] BY <2>1, <2>3
  <2> QED BY <2>1, <2>3, <2>4
<1>3. CASE (\E i \in Id : Mailing(i)) \/ Lapsing \/ GoogleLogin \/ RemoveSuppressedEmail \/ UNCHANGED vars
  <2>1. UNCHANGED <<pc, task, era, eraOf>> /\ (suppressed' => suppressed)
    BY <1>3 DEF Mailing, MailCheck, MailSend, MailError, Lapsing, CounterLapses, CodeLapses,
                LockoutLapses, CooldownLapses, GoogleLogin, RemoveSuppressedEmail, vars, redis,
                process, history
  <2> QED BY <2>1 DEF Verifying
<1> QED BY <1>1, <1>2, <1>3 DEF Next

\* ... and the address is not verified by one.
LEMMA SparedStep ==
    ASSUME SparedInv, [Next]_vars
    PROVE  SuppressedIsSpared'
<1> USE DEF SparedInv, TypeInv, KeyOk, HistoryOk, UserOk, SuppressedIsSpared
<1> SUFFICES ASSUME suppressed', verified', proof' # 0 PROVE eraOf'[proof'] < era'
  OBVIOUS
<1>0. proof # 0 => proof \in Id /\ eraOf[proof] <= era BY IssuedIsId DEF CodesIssued
<1>1. ASSUME NEW p \in Process, Asking(p) \/ Presenting(p) \/ Own(p) \/ Keeping(p), ~SetCode(p)
      PROVE  eraOf'[proof'] < era'
  <2>1. /\ eraOf' = eraOf
        /\ \/ UNCHANGED <<era, suppressed>>
           \/ suppressed' /\ era' = IF suppressed THEN era ELSE era + 1
    BY <1>1, OldCodes
  <2>2. CASE Prove(p) /\ task[p].op = "verify" /\ proof' = task[p].id
    <3>1. /\ Verifying(p) /\ proof' = task[p].id /\ UNCHANGED <<era, suppressed>>
      BY <2>2 DEF Prove, Verifying, VerifyPlace, redis, history
    <3> QED BY <2>1, <3>1 DEF NotAboutToVerify
  <2>3. CASE ~(Prove(p) /\ task[p].op = "verify" /\ proof' = task[p].id)
    <3>1. proof' = proof /\ verified' = verified
      <4>1. CASE Asking(p)
        BY <4>1, <1>1 DEF Asking, Signup, RequestEmailOtp, ForgotPassword, RequestCode, Start,
                    CountRequest, TimeRequests, FindUser, Enqueue, user
      <4>2. CASE Presenting(p)
        <5>1. CASE Prove(p) BY <5>1, <2>3 DEF Prove
        <5>2. CASE ~Prove(p)
          BY <4>2, <5>2 DEF Presenting, VerifyEmailOtp, ResetPassword, Login, Present, Start,
                    CheckLockout, Judge, RecordFailure, TimeFailures, LockOut, ClearFailures,
                    ClearLockout, SpendCode, user
        <5> QED BY <5>1, <5>2
      <4>3. CASE Own(p)
        BY <4>3 DEF Own, OwnRequest, Start, OwnCheck, OwnCool, OwnIncr, OwnTtl, user
      <4>4. CASE Keeping(p)
        BY <4>4 DEF Keeping, UnlockUser, UnlockLockout, UnlockCounter, Bounce, Start, Unverify,
                    Suppress, Crash, user
      <4> QED BY <1>1, <4>1, <4>2, <4>3, <4>4
    <3>2. CASE suppressed BY <2>1, <3>1, <3>2
    <3>3. CASE ~suppressed
      <4>1. era' = era + 1 BY <2>1, <3>3
      <4> QED BY <1>0, <2>1, <3>1, <4>1
    <3> QED BY <3>2, <3>3
  <2> QED BY <2>2, <2>3
<1>2. ASSUME NEW p \in Process, SetCode(p) PROVE eraOf'[proof'] < era'
  <2>1. /\ eraOf' = [eraOf EXCEPT ![issued + 1] = task[p].era]
        /\ UNCHANGED <<suppressed, era, proof, verified>>
    BY <1>2 DEF SetCode, user
  <2>2. proof # issued + 1 BY DEF CodesIssued
  <2> QED BY <2>1, <2>2
<1>3. CASE GoogleLogin BY <1>3 DEF GoogleLogin
<1>4. CASE (\E i \in Id : Mailing(i)) \/ Lapsing \/ RemoveSuppressedEmail \/ UNCHANGED vars
  <2>1. UNCHANGED <<proof, verified, era, eraOf>> /\ (suppressed' => suppressed)
    BY <1>4 DEF Mailing, MailCheck, MailSend, MailError, Lapsing, CounterLapses, CodeLapses,
                LockoutLapses, CooldownLapses, RemoveSuppressedEmail, vars, user, redis, history
  <2> QED BY <2>1
<1> QED BY <1>1, <1>2, <1>3, <1>4 DEF Next

\* What the mail queue, the requests in flight and the user's row know of a suppressed
\* address all dates from before its suppression (src/src/mail, src/src/notifications,
\* src/src/auth/auth.service).
THEOREM SparedInvariant == Spec => []SparedInv
<1>1. Init => SparedInv
  <2> SUFFICES ASSUME Init PROVE SparedInv OBVIOUS
  <2>1. TypeInv BY TypeStart
  <2>2. CodesAllowed
    <3>1. Entitled = {} BY DEF Init, Entitled
    <3> QED BY <3>1, FS_EmptySet DEF Init, CodesAllowed
  <2>3. CodesIssued
    BY DEF Init, CodesIssued, Kind, Nothing, Verifying, VerifyPlace
  <2>4. NotMailed /\ NotAboutToVerify /\ SuppressedIsSpared
    BY DEF Init, NotMailed, NotAboutToVerify, Verifying, VerifyPlace, SuppressedIsSpared
  <2> QED BY <2>1, <2>2, <2>3, <2>4 DEF SparedInv
<1>2. SparedInv /\ [Next]_vars => SparedInv'
  BY TypeStep, EntitledStep, CodesStep, NotMailedStep, VerifyStep, SparedStep DEF SparedInv
<1> QED BY <1>1, <1>2, PTL DEF Spec

\* An address on the suppression list is verified only by Google, or by a code asked for
\* before it came on the list: not even the code of a sign-up, which does not look at the
\* list, reaches anybody (src/src/auth/auth.service, sendHtmlEmail of src/src/mail).
THEOREM SuppressedIsSparedCorrect == Spec => []SuppressedIsSpared
<1>1. SparedInv => SuppressedIsSpared BY DEF SparedInv
<1> QED BY <1>1, SparedInvariant, PTL

=============================================================================
