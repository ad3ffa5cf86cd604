---------------------------- MODULE PaymentsProofs ----------------------------
(***************************************************************************)
(* What holds of premium access for every set of users, orders and         *)
(* processes, all plans and every bound.                                   *)
(***************************************************************************)
EXTENDS Payments, TLAPS

\* What a transaction has picked are subscriptions of its users.
PickedRows ==
    \A p \in Process : \A i \in rows[p] : subs[i].user \in task[p].users

PaymentsInv ==
    /\ TypeOK
    /\ PickedRows
    /\ OncePerOrder
    /\ PremiumIsBacked

-----------------------------------------------------------------------------
(* Rows and processes *)

\* The premium columns of a user, and a row of PremiumSubscription.
LEMMA UserType ==
    ASSUME TypeOK, NEW u \in User
    PROVE  /\ users[u] \in UserRow
           /\ users[u].isPremium => users[u].premiumExpiry # None
  BY DEF TypeOK

LEMMA RowType ==
    ASSUME TypeOK, NEW i \in DOMAIN subs
    PROVE  subs[i] \in SubRow
  BY DEF TypeOK

\* An updateMany changes rows in place.
LEMMA RowsInPlace ==
    ASSUME subs \in Seq(SubRow), NEW p \in Process,
           NEW f, \A i \in rows[p] \cap DOMAIN subs : f[i] \in SubRow,
           SetSubs(p, f)
    PROVE  /\ subs' \in Seq(SubRow) /\ DOMAIN subs' = DOMAIN subs
           /\ Len(subs') = Len(subs)
           /\ \A i \in DOMAIN subs : subs'[i] = IF i \in rows[p] THEN f[i] ELSE subs[i]
<1>1. subs' = [i \in 1..Len(subs) |-> IF i \in rows[p] THEN f[i] ELSE subs[i]]
  BY DEF SetSubs
<1>2. Len(subs) \in Nat /\ DOMAIN subs = 1..Len(subs)
  OBVIOUS
<1>3. \A i \in 1..Len(subs) : (IF i \in rows[p] THEN f[i] ELSE subs[i]) \in SubRow
  BY <1>2
<1>4. subs' \in [1..Len(subs) -> SubRow]
  BY <1>1, <1>3
<1>5. subs' \in Seq(SubRow)
  BY <1>2, <1>4
<1>6. Len(subs') = Len(subs) /\ DOMAIN subs' = 1..Len(subs)
  BY <1>1, <1>2, <1>5
<1>7. QED
  BY <1>1, <1>2, <1>5, <1>6

\* An activation adds one row.
LEMMA RowAdded ==
    ASSUME subs \in Seq(SubRow), NEW s \in SubRow, subs' = Append(subs, s)
    PROVE  /\ subs' \in Seq(SubRow)
           /\ Len(subs) \in Nat
           /\ DOMAIN subs = 1..Len(subs)
           /\ DOMAIN subs' = 1..(Len(subs) + 1)
           /\ \A i \in DOMAIN subs : subs'[i] = subs[i]
           /\ subs'[Len(subs) + 1] = s
  OBVIOUS

\* The part of TypeOK about processes.
ProcessTypes ==
    /\ pc \in [Process -> {"idle", "granting", "selecting", "locking", "updating"}]
    /\ task \in [Process -> Task]
    /\ rows \in [Process -> SUBSET DOMAIN subs]
    /\ \A p \in Process :
          /\ pc[p] = "idle" <=> task[p].users = {}
          /\ pc[p] \notin {"locking", "updating"} => rows[p] = {}
          /\ task[p].order \in paid \cup {None}

\* A process that begins with a task.
LEMMA StartTypes ==
    ASSUME ProcessTypes, NEW p \in Process, NEW t \in Task, t.users # {},
           NEW w \in {"granting", "selecting"}, Start(p, w, t),
           t.order \in paid \cup {None}, UNCHANGED <<subs, paid>>
    PROVE  /\ ProcessTypes'
           /\ rows' = rows /\ rows[p] = {}
           /\ \A q \in Process \ {p} : task'[q] = task[q]
  BY DEF ProcessTypes, Start

\* A process that ends.
LEMMA EndTypes ==
    ASSUME ProcessTypes, NEW p \in Process, End(p),
           DOMAIN subs \subseteq DOMAIN subs', paid \subseteq paid'
    PROVE  /\ ProcessTypes'
           /\ \A q \in Process \ {p} : rows'[q] = rows[q] /\ task'[q] = task[q]
           /\ rows'[p] = {}
<1>1. Idle \in Task /\ Idle.users = {} /\ Idle.order = None
  BY DEF Idle, Task, Kind
<1>2. QED
  BY <1>1 DEF ProcessTypes, End

-----------------------------------------------------------------------------
(* Type correctness *)

\* The part of TypeOK about users, orders and bounds.
TableTypes ==
    /\ now \in 0..MaxTime
    /\ users \in [User -> UserRow]
    /\ \A u \in User : users[u].isPremium => users[u].premiumExpiry # None
    /\ subs \in Seq(SubRow)
    /\ activated \subseteq paid /\ paid \subseteq Order
    /\ webhook \subseteq paid
    /\ requests \in 0..MaxAdmin /\ faults \in 0..MaxFaults
    /\ excused \subseteq DOMAIN subs

LEMMA TypeParts == TypeOK <=> TableTypes /\ ProcessTypes
  BY DEF TypeOK, TableTypes, ProcessTypes

LEMMA TypeInit == Init => TypeOK
<1>1. Idle \in Task /\ Idle.users = {} /\ Idle.order = None
  BY DEF Idle, Task, Kind
<1>2. QED
  BY <1>1, PaymentsAssumption DEF Init, TypeOK, UserRow

\* An activation leaves well-typed tables.
LEMMA ActivateTypes ==
    ASSUME TypeOK, NEW p \in Process, NEW u \in User, NEW o \in Order \cup {None},
           NEW date \in Nat, ActivatePremium(p, u, o, date)
    PROVE  /\ users' \in [User -> UserRow]
           /\ \A v \in User : users'[v].isPremium => users'[v].premiumExpiry # None
           /\ subs' \in Seq(SubRow)
           /\ DOMAIN subs \subseteq DOMAIN subs'
           /\ excused' \subseteq DOMAIN subs'
<1> DEFINE s == [user |-> u, order |-> o, expiryDate |-> date, status |-> "ACTIVE"]
<1>1. s \in SubRow /\ subs \in Seq(SubRow) /\ subs' = Append(subs, s)
  BY DEF TypeOK, SubRow, ActivatePremium
<1>2. /\ subs' \in Seq(SubRow) /\ DOMAIN subs \subseteq DOMAIN subs'
      /\ Len(subs) + 1 \in DOMAIN subs'
  BY <1>1, RowAdded
<1>3. excused \subseteq DOMAIN subs /\ Active(u) \subseteq DOMAIN subs
  BY DEF TypeOK, Active
<1>4. excused' \subseteq DOMAIN subs'
  BY <1>2, <1>3 DEF ActivatePremium
<1>5. users \in [User -> UserRow] /\ users' = [users EXCEPT ![u] = Granted(@, date)]
  BY DEF TypeOK, ActivatePremium
<1>6. Granted(users[u], date) \in UserRow /\ Granted(users[u], date).premiumExpiry # None
  BY <1>5, PaymentsAssumption DEF Granted, UserRow
<1>7. users' \in [User -> UserRow]
  BY <1>5, <1>6
<1>8. ASSUME NEW v \in User, users'[v].isPremium PROVE users'[v].premiumExpiry # None
  <2>1. CASE v = u
    BY <2>1, <1>5, <1>6
  <2>2. CASE v # u
    BY <2>2, <1>5, <1>8 DEF TypeOK
  <2>3. QED
    BY <2>1, <2>2
<1>9. QED
  BY <1>2, <1>4, <1>7, <1>8

\* An updateMany of users leaves well-typed rows.
LEMMA SetUsersTypes ==
    ASSUME TypeOK, NEW p \in Process, NEW f, SetUsers(p, f),
           \A u \in task[p].users \cap User :
              f[u] \in UserRow /\ (f[u].isPremium => f[u].premiumExpiry # None)
    PROVE  /\ users' \in [User -> UserRow]
           /\ \A u \in User : users'[u].isPremium => users'[u].premiumExpiry # None
<1>1. /\ users \in [User -> UserRow]
      /\ \A u \in User : users[u].isPremium => users[u].premiumExpiry # None
  BY DEF TypeOK
<1>2. \A u \in User : users'[u] = IF u \in task[p].users THEN f[u] ELSE users[u]
  BY DEF SetUsers
<1>3. users' = [u \in User |-> IF u \in task[p].users THEN f[u] ELSE users[u]]
  BY DEF SetUsers
<1>4. \A u \in User : (IF u \in task[p].users THEN f[u] ELSE users[u]) \in UserRow
  BY <1>1
<1>5. users' \in [User -> UserRow]
  BY <1>3, <1>4
<1>6. QED
  BY <1>1, <1>2, <1>5

LEMMA TypeStep == TypeOK /\ [Next]_vars => TypeOK'
<1> SUFFICES ASSUME TypeOK, [Next]_vars PROVE TypeOK'
  OBVIOUS
<1> USE PaymentsAssumption
<1>0. TableTypes /\ ProcessTypes /\ now \in Nat
  BY TypeParts DEF TableTypes
<1>1. ASSUME NEW o \in Order, Pay(o) PROVE TypeOK'
  BY <1>1 DEF TypeOK, Pay, tables, process, bounds
<1>2. ASSUME NEW o \in Order, AlreadyActive(o) PROVE TypeOK'
  BY <1>2 DEF TypeOK, AlreadyActive, tables, process, bounds
<1>3. ASSUME NEW p \in Process, NEW o \in Order, VerifyCheck(p, o) \/ WebhookCheck(p, o)
      PROVE  TypeOK'
  <2>1. PICK k \in {"verify", "webhook"} : Start(p, "granting", Activation(o, k))
    BY <1>3 DEF VerifyCheck, WebhookCheck
  <2>2. /\ Activation(o, k) \in Task /\ Activation(o, k).users # {}
        /\ Activation(o, k).order \in paid
    BY <1>0, <1>3 DEF Activation, Task, Kind, VerifyCheck, WebhookCheck, TableTypes
  <2>3. UNCHANGED <<now, tables, gateway, bounds, excused>>
    BY <1>3 DEF VerifyCheck, WebhookCheck
  <2>4. ProcessTypes'
    BY <1>0, <2>1, <2>2, <2>3, StartTypes DEF tables, gateway
  <2>5. TableTypes'
    BY <1>0, <2>3 DEF TableTypes, tables, gateway, bounds
  <2>6. QED
    BY <2>4, <2>5 DEF TypeOK, TableTypes, ProcessTypes
<1>4. ASSUME NEW p \in Process, NEW u \in User, NEW d \in 0..MaxDate,
             AdminActivateCheck(p, u, d) \/ RenewCheck(p, u, d) \/ RevokeCheck(p, u)
      PROVE  TypeOK'
  <2>1. PICK w \in {"granting", "selecting"}, k \in {"activate", "renew", "revoke"},
             x \in Nat : Request(p, w, k, u, x)
    BY <1>0, <1>4 DEF AdminActivateCheck, RenewCheck, RevokeCheck
  <2> DEFINE t == [kind |-> k, users |-> {u}, order |-> None, date |-> x]
  <2>2. t \in Task /\ t.users # {}
    BY DEF Task, Kind
  <2>3. ProcessTypes'
    BY <1>0, <2>1, <2>2, StartTypes DEF Request, tables, gateway
  <2>4. TableTypes'
    BY <1>0, <2>1 DEF TableTypes, Request, tables, gateway
  <2>5. QED
    BY <2>3, <2>4 DEF TypeOK, TableTypes, ProcessTypes
<1>5. ASSUME NEW p \in Process, ExpireList(p) PROVE TypeOK'
  <2> DEFINE t == [kind |-> "expire", users |-> {u \in User : Overdue(u)},
                   order |-> None, date |-> now]
  <2>1. t \in Task /\ t.users # {} /\ Start(p, "selecting", t)
    BY <1>0, <1>5 DEF Task, Kind, ExpireList
  <2>2. ProcessTypes'
    BY <1>0, <1>5, <2>1, StartTypes DEF ExpireList, tables, gateway
  <2>3. TableTypes'
    BY <1>0, <1>5 DEF TableTypes, ExpireList, tables, gateway, bounds
  <2>4. QED
    BY <2>2, <2>3 DEF TypeOK, TableTypes, ProcessTypes
<1>6. ASSUME NEW p \in Process, ActivateCommit(p) PROVE TypeOK'
  <2> DEFINE t == task[p]
  <2>1. t \in Task /\ t.order \in Order /\ Buyer[t.order] \in User /\ t.date \in Nat
    BY <1>6 DEF ActivateCommit, TypeOK, Task
  <2>2. CASE t.order \in activated
    <3>1. ProcessTypes'
      BY <1>0, <1>6, <2>2, EndTypes DEF ActivateCommit, tables
    <3>2. TableTypes'
      BY <1>0, <1>6, <2>2 DEF TableTypes, ActivateCommit, tables, bounds
    <3>3. QED
      BY <3>1, <3>2 DEF TypeOK, TableTypes, ProcessTypes
  <2>3. CASE t.order \notin activated
    <3>1. /\ ActivatePremium(p, Buyer[t.order], t.order, t.date) /\ End(p)
          /\ paid' = paid
      BY <1>6, <2>3 DEF ActivateCommit
    <3>2. /\ users' \in [User -> UserRow]
          /\ \A v \in User : users'[v].isPremium => users'[v].premiumExpiry # None
          /\ subs' \in Seq(SubRow) /\ DOMAIN subs \subseteq DOMAIN subs'
          /\ excused' \subseteq DOMAIN subs'
      BY <2>1, <3>1, ActivateTypes
    <3>3. ProcessTypes'
      BY <1>0, <3>1, <3>2, EndTypes
    <3>4. t.order \in paid
      BY <2>1, PaymentsAssumption DEF TypeOK
    <3>5. TableTypes'
      BY <1>0, <1>6, <2>1, <2>3, <3>2, <3>4 DEF TableTypes, ActivateCommit, bounds
    <3>6. QED
      BY <3>3, <3>5 DEF TypeOK, TableTypes, ProcessTypes
  <2>4. QED
    BY <2>2, <2>3
<1>7. ASSUME NEW p \in Process, AdminActivateCommit(p) PROVE TypeOK'
  <2>1. task[p] \in Task
    BY DEF TypeOK
  <2>2. PICK u \in task[p].users : ActivatePremium(p, u, None, task[p].date)
    BY <1>7 DEF AdminActivateCommit
  <2>3. u \in User /\ task[p].date \in Nat
    BY <2>1 DEF Task
  <2>4. /\ users' \in [User -> UserRow]
        /\ \A v \in User : users'[v].isPremium => users'[v].premiumExpiry # None
        /\ subs' \in Seq(SubRow) /\ DOMAIN subs \subseteq DOMAIN subs'
        /\ excused' \subseteq DOMAIN subs'
    BY <2>2, <2>3, ActivateTypes
  <2>5. ProcessTypes'
    BY <1>0, <1>7, <2>4, EndTypes DEF AdminActivateCommit, gateway
  <2>6. TableTypes'
    BY <1>0, <1>7, <2>4 DEF TableTypes, AdminActivateCommit, gateway, bounds
  <2>7. QED
    BY <2>5, <2>6 DEF TypeOK, TableTypes, ProcessTypes
<1>8. ASSUME NEW p \in Process, Select(p) \/ Lock(p) PROVE TypeOK'
  <2>1. TableTypes'
    BY <1>0, <1>8 DEF TableTypes, Select, Lock, tables, gateway, bounds
  <2>2. ProcessTypes'
    BY <1>0, <1>8 DEF ProcessTypes, Select, Lock, tables, gateway
  <2>3. QED
    BY <2>1, <2>2 DEF TypeOK, TableTypes, ProcessTypes
<1>9. ASSUME NEW p \in Process, NEW f, NEW g,
             End(p), SetSubs(p, f), SetUsers(p, g),
             UNCHANGED <<now, activated, gateway, bounds>>,
             excused' = excused \/ excused' = excused \cup rows[p],
             \A i \in rows[p] \cap DOMAIN subs : f[i] \in SubRow,
             \A u \in task[p].users \cap User :
                g[u] \in UserRow /\ (g[u].isPremium => g[u].premiumExpiry # None)
      PROVE  TypeOK'
  <2>1. subs' \in Seq(SubRow) /\ DOMAIN subs' = DOMAIN subs
    BY <1>0, <1>9, RowsInPlace DEF TableTypes
  <2>2. /\ users' \in [User -> UserRow]
        /\ \A u \in User : users'[u].isPremium => users'[u].premiumExpiry # None
    BY <1>9, SetUsersTypes
  <2>3. ProcessTypes'
    BY <1>0, <1>9, <2>1, EndTypes DEF gateway
  <2>4. excused' \subseteq DOMAIN subs'
    BY <1>0, <1>9, <2>1 DEF TableTypes, ProcessTypes
  <2>5. TableTypes'
    BY <1>0, <1>9, <2>1, <2>2, <2>4 DEF TableTypes, gateway, bounds
  <2>6. QED
    BY <2>3, <2>5 DEF TypeOK, TableTypes, ProcessTypes
<1>10. ASSUME NEW p \in Process, RenewCommit(p) PROVE TypeOK'
  <2> DEFINE date == task[p].date
             f == [i \in rows[p] |-> [subs[i] EXCEPT !.expiryDate = date]]
             g == [u \in task[p].users |->
                     [users[u] EXCEPT !.premiumExpiry = date, !.premiumStatus = "PREMIUM"]]
  <2>1. date \in Nat
    BY DEF TypeOK, Task
  <2>2. \A i \in rows[p] \cap DOMAIN subs : f[i] \in SubRow
    BY <2>1, RowType DEF SubRow
  <2>3. \A u \in task[p].users \cap User :
           g[u] \in UserRow /\ (g[u].isPremium => g[u].premiumExpiry # None)
    BY <2>1, UserType, PaymentsAssumption DEF UserRow
  <2>4. End(p) /\ UNCHANGED <<now, activated, gateway, bounds>>
    BY <1>10 DEF RenewCommit, Commit
  <2>5. SetSubs(p, f) /\ SetUsers(p, g)
    BY <1>10 DEF RenewCommit
  <2>6. excused' = excused \/ excused' = excused \cup rows[p]
    BY <1>10 DEF RenewCommit
  <2>7. QED
    BY <1>9, <2>2, <2>3, <2>4, <2>5, <2>6
<1>11. ASSUME NEW p \in Process, RevokeCommit(p) PROVE TypeOK'
  <2> DEFINE f == [i \in rows[p] |-> [subs[i] EXCEPT !.status = "REVOKED"]]
             g == [u \in task[p].users |-> [isPremium |-> FALSE,
                     premiumExpiry |-> task[p].date, premiumStatus |-> "REVOKED"]]
  <2>1. task[p].date \in Nat
    BY DEF TypeOK, Task
  <2>2. \A i \in rows[p] \cap DOMAIN subs : f[i] \in SubRow
    BY RowType DEF SubRow
  <2>3. \A u \in task[p].users \cap User :
           g[u] \in UserRow /\ (g[u].isPremium => g[u].premiumExpiry # None)
    BY <2>1 DEF UserRow
  <2>4. /\ End(p) /\ UNCHANGED <<now, activated, gateway, bounds>>
        /\ SetSubs(p, f) /\ SetUsers(p, g) /\ excused' = excused
    BY <1>11 DEF RevokeCommit, Commit
  <2>5. QED
    BY <1>9, <2>2, <2>3, <2>4
<1>12. ASSUME NEW p \in Process, ExpireCommit(p) PROVE TypeOK'
  <2> DEFINE f == [i \in rows[p] |-> [subs[i] EXCEPT !.status = "EXPIRED"]]
             g == [u \in task[p].users |->
                     [users[u] EXCEPT !.isPremium = FALSE, !.premiumStatus = "EXPIRED"]]
  <2>1. \A i \in rows[p] \cap DOMAIN subs : f[i] \in SubRow
    BY RowType DEF SubRow
  <2>2. \A u \in task[p].users \cap User :
           g[u] \in UserRow /\ (g[u].isPremium => g[u].premiumExpiry # None)
    BY UserType DEF UserRow
  <2>3. /\ End(p) /\ UNCHANGED <<now, activated, gateway, bounds>>
        /\ SetSubs(p, f) /\ SetUsers(p, g) /\ excused' = excused
    BY <1>12 DEF ExpireCommit, Commit
  <2>4. QED
    BY <1>9, <2>1, <2>2, <2>3
<1>13. ASSUME NEW p \in Process, Fails(p) PROVE TypeOK'
  <2>1. ProcessTypes'
    BY <1>0, <1>13, EndTypes DEF Fails, tables, gateway
  <2>2. TableTypes'
    BY <1>0, <1>13 DEF TableTypes, Fails, tables, gateway
  <2>3. QED
    BY <2>1, <2>2 DEF TypeOK, TableTypes, ProcessTypes
<1>14. CASE Tick
  BY <1>14 DEF TypeOK, Tick, tables, gateway, process, bounds
<1>15. CASE UNCHANGED vars
  BY <1>15 DEF TypeOK, vars, tables, gateway, process, bounds
<1>16. QED
  BY <1>1, <1>2, <1>3, <1>4, <1>5, <1>6, <1>7, <1>8, <1>10, <1>11, <1>12, <1>13, <1>14,
     <1>15 DEF Next, Transaction, ExpireNothing

\* Every column keeps its type, and an idle process holds no row (the premium columns
\* of User, PremiumSubscription, Subscription).
THEOREM TypeCorrect == Spec => []TypeOK
  BY TypeInit, TypeStep, PTL DEF Spec

-----------------------------------------------------------------------------
(* The steps of the invariant *)

\* The steps that write no table and let no transaction pick other rows.
Quiet ==
    /\ UNCHANGED <<tables, rows>>
    /\ \A p \in Process : rows[p] # {} => task'[p] = task[p]

\* A process that ends, with no subscription changing hands.
LEMMA PickedAtEnd ==
    ASSUME TypeOK, PickedRows, NEW p \in Process, End(p),
           \A i \in DOMAIN subs : subs'[i].user = subs[i].user
    PROVE  PickedRows'
<1>1. \A q \in Process \ {p} : rows'[q] = rows[q] /\ task'[q] = task[q]
  BY DEF TypeOK, End
<1>2. rows'[p] = {}
  BY DEF TypeOK, End
<1>3. \A q \in Process : rows[q] \subseteq DOMAIN subs
  BY DEF TypeOK
<1>4. QED
  BY <1>1, <1>2, <1>3 DEF PickedRows

\* Orders and their rows, when subscriptions are changed in place.
LEMMA OrdersInPlace ==
    ASSUME OncePerOrder, activated' = activated, DOMAIN subs' = DOMAIN subs,
           \A i \in DOMAIN subs : subs'[i].order = subs[i].order
    PROVE  OncePerOrder'
  BY DEF OncePerOrder

\* What an activation of u does to the invariant.
LEMMA ActivateKeeps ==
    ASSUME PaymentsInv, NEW p \in Process, NEW u \in User, NEW o \in Order \cup {None},
           NEW date \in Nat, ActivatePremium(p, u, o, date), End(p),
           o \notin activated,
           activated' = activated \cup ({o} \ {None})
    PROVE  PickedRows' /\ OncePerOrder' /\ PremiumIsBacked'
<1> DEFINE s == [user |-> u, order |-> o, expiryDate |-> date, status |-> "ACTIVE"]
           n == Len(subs) + 1
<1>1. TypeOK /\ PickedRows /\ OncePerOrder /\ PremiumIsBacked
  BY DEF PaymentsInv
<1>2. s \in SubRow /\ subs \in Seq(SubRow) /\ subs' = Append(subs, s)
  BY <1>1 DEF TypeOK, SubRow, ActivatePremium
<1>3. /\ n \notin DOMAIN subs /\ DOMAIN subs' = DOMAIN subs \cup {n}
      /\ \A i \in DOMAIN subs : subs'[i] = subs[i]
      /\ subs'[n] = s
  BY <1>2, RowAdded
<1>4. PickedRows'
  BY <1>1, <1>3, PickedAtEnd
<1>5. OncePerOrder'
  <2>1. \A i \in DOMAIN subs : subs[i].order = o => o = None
    BY <1>1 DEF OncePerOrder
  <2>2. s.order = o
    OBVIOUS
  <2>3. ASSUME NEW i \in DOMAIN subs', NEW j \in DOMAIN subs',
               subs'[i].order # None, subs'[i].order = subs'[j].order
        PROVE  i = j
    BY <1>1, <1>3, <2>1, <2>2, <2>3 DEF OncePerOrder
  <2>4. {subs'[i].order : i \in DOMAIN subs'} = {subs[i].order : i \in DOMAIN subs} \cup {o}
    BY <1>3, <2>2
  <2>5. activated' = {subs'[i].order : i \in DOMAIN subs'} \ {None}
    BY <1>1, <2>4 DEF OncePerOrder
  <2>6. QED
    BY <2>3, <2>5 DEF OncePerOrder
<1>6. PremiumIsBacked'
  <2>1. users' = [users EXCEPT ![u] = Granted(@, date)] /\ users \in [User -> UserRow]
    BY <1>1 DEF ActivatePremium, TypeOK
  <2>2. ASSUME NEW v \in User, users'[v].isPremium
        PROVE  users'[v].premiumStatus = "PREMIUM" /\ Active(v)' # {}
    <3>1. CASE v = u
      <4>1. n \in Active(u)'
        BY <1>3 DEF Active
      <4>2. users'[u].premiumStatus = "PREMIUM"
        BY <2>1 DEF Granted, UserRow
      <4>3. QED
        BY <3>1, <4>1, <4>2
    <3>2. CASE v # u
      <4>1. users'[v] = users[v]
        BY <2>1, <3>2
      <4>2. Active(v) \subseteq Active(v)'
        BY <1>3 DEF Active
      <4>3. QED
        BY <1>1, <2>2, <4>1, <4>2 DEF PremiumIsBacked
    <3>3. QED
      BY <3>1, <3>2
  <2>3. QED
    BY <2>2 DEF PremiumIsBacked
<1>7. QED
  BY <1>4, <1>5, <1>6

\* What an updateMany of subscriptions and users does to it.  Either the
\* subscriptions keep their status and the users their flag, or the flag is cleared.
LEMMA UpdateKeeps ==
    ASSUME PaymentsInv, NEW p \in Process, NEW f, NEW g,
           End(p), SetSubs(p, f), SetUsers(p, g), activated' = activated,
           \A i \in rows[p] \cap DOMAIN subs :
              f[i] \in SubRow /\ f[i].user = subs[i].user /\ f[i].order = subs[i].order,
           \/ /\ \A i \in rows[p] \cap DOMAIN subs : f[i].status = subs[i].status
              /\ \A u \in task[p].users \cap User :
                    g[u].isPremium = users[u].isPremium /\ g[u].premiumStatus = "PREMIUM"
           \/ \A u \in task[p].users \cap User : ~g[u].isPremium
    PROVE  PickedRows' /\ OncePerOrder' /\ PremiumIsBacked'
<1>1. TypeOK /\ PickedRows /\ OncePerOrder /\ PremiumIsBacked
  BY DEF PaymentsInv
<1>2. /\ DOMAIN subs' = DOMAIN subs
      /\ \A i \in DOMAIN subs : subs'[i] = IF i \in rows[p] THEN f[i] ELSE subs[i]
  BY <1>1, RowsInPlace DEF TypeOK
<1>3. \A i \in DOMAIN subs : subs'[i].user = subs[i].user /\ subs'[i].order = subs[i].order
  BY <1>2
<1>4. PickedRows'
  BY <1>1, <1>3, PickedAtEnd
<1>5. OncePerOrder'
  BY <1>1, <1>2, <1>3, OrdersInPlace
<1>6. \A u \in User : users'[u] = IF u \in task[p].users THEN g[u] ELSE users[u]
  BY DEF SetUsers
<1>7. ASSUME NEW u \in User, users'[u].isPremium
      PROVE  users'[u].premiumStatus = "PREMIUM" /\ Active(u)' # {}
  <2>1. CASE u \in task[p].users
    <3>1. /\ \A i \in rows[p] \cap DOMAIN subs : f[i].status = subs[i].status
          /\ users[u].isPremium /\ users'[u].premiumStatus = "PREMIUM"
      BY <1>6, <1>7, <2>1
    <3>2. \A i \in DOMAIN subs : subs'[i].status = subs[i].status
      BY <1>2, <3>1
    <3>3. Active(u)' = Active(u)
      BY <1>2, <1>3, <3>2 DEF Active
    <3>4. QED
      BY <1>1, <3>1, <3>3 DEF PremiumIsBacked
  <2>2. CASE u \notin task[p].users
    <3>1. users'[u] = users[u]
      BY <1>6, <2>2
    <3>2. \A i \in Active(u) : i \in DOMAIN subs /\ i \notin rows[p]
      BY <1>1, <2>2 DEF Active, PickedRows
    <3>3. Active(u) \subseteq Active(u)'
      BY <1>2, <3>2 DEF Active
    <3>4. QED
      BY <1>1, <1>7, <3>1, <3>3 DEF PremiumIsBacked
  <2>3. QED
    BY <2>1, <2>2
<1>8. QED
  BY <1>4, <1>5, <1>7 DEF PremiumIsBacked

LEMMA PaymentsInit == Init => PaymentsInv
<1> SUFFICES ASSUME Init PROVE PaymentsInv
  OBVIOUS
<1>1. TypeOK
  BY TypeInit
<1>2. DOMAIN subs = {}
  BY DEF Init
<1>3. PickedRows
  BY DEF Init, PickedRows
<1>4. OncePerOrder
  BY <1>2 DEF Init, OncePerOrder
<1>5. PremiumIsBacked
  BY DEF Init, PremiumIsBacked
<1>6. QED
  BY <1>1, <1>3, <1>4, <1>5 DEF PaymentsInv

LEMMA QuietKeeps ==
    ASSUME PaymentsInv, Quiet
    PROVE  PickedRows' /\ OncePerOrder' /\ PremiumIsBacked'
<1>1. PickedRows'
  BY DEF PaymentsInv, PickedRows, Quiet, tables
<1>2. OncePerOrder' /\ PremiumIsBacked'
  BY DEF PaymentsInv, OncePerOrder, PremiumIsBacked, Active, Quiet, tables
<1>3. QED
  BY <1>1, <1>2

LEMMA PaymentsStep == PaymentsInv /\ [Next]_vars => PaymentsInv'
<1> SUFFICES ASSUME PaymentsInv, [Next]_vars PROVE PaymentsInv'
  OBVIOUS
<1> DEFINE Rest == PickedRows /\ OncePerOrder /\ PremiumIsBacked
<1>0. TypeOK /\ TypeOK' /\ PickedRows /\ OncePerOrder /\ PremiumIsBacked
  BY TypeStep DEF PaymentsInv
<1>1. ASSUME NEW o \in Order, Pay(o) \/ AlreadyActive(o) PROVE Rest'
  BY <1>1, QuietKeeps DEF Quiet, Pay, AlreadyActive, process
<1>2. ASSUME NEW p \in Process, NEW w, NEW t, Start(p, w, t), UNCHANGED tables PROVE Rest'
  <2>1. rows[p] = {} /\ rows' = rows
    BY <1>0, <1>2 DEF TypeOK, Start
  <2>2. \A q \in Process \ {p} : task'[q] = task[q]
    BY <1>0, <1>2 DEF TypeOK, Start
  <2>3. Quiet
    BY <1>2, <2>1, <2>2 DEF Quiet
  <2>4. QED
    BY <2>3, QuietKeeps
<1>3. ASSUME NEW p \in Process, NEW o \in Order, VerifyCheck(p, o) \/ WebhookCheck(p, o)
      PROVE  Rest'
  BY <1>2, <1>3 DEF VerifyCheck, WebhookCheck
<1>4. ASSUME NEW p \in Process, NEW u \in User, NEW d,
             AdminActivateCheck(p, u, d) \/ RenewCheck(p, u, d) \/ RevokeCheck(p, u)
      PROVE  Rest'
  BY <1>2, <1>4 DEF AdminActivateCheck, RenewCheck, RevokeCheck, Request
<1>5. ASSUME NEW p \in Process, ExpireList(p) PROVE Rest'
  BY <1>2, <1>5 DEF ExpireList
<1>6. ASSUME NEW p \in Process, End(p), UNCHANGED tables PROVE Rest'
  <2>1. PickedRows'
    BY <1>0, <1>6, PickedAtEnd DEF tables
  <2>2. OncePerOrder' /\ PremiumIsBacked'
    BY <1>0, <1>6 DEF OncePerOrder, PremiumIsBacked, Active, tables
  <2>3. QED
    BY <2>1, <2>2
<1>7. ASSUME NEW p \in Process, ActivateCommit(p) PROVE Rest'
  <2> DEFINE t == task[p]
  <2>1. t \in Task /\ t.order \in Order /\ Buyer[t.order] \in User /\ t.date \in Nat
    BY <1>0, <1>7, PaymentsAssumption DEF ActivateCommit, TypeOK, Task
  <2>2. CASE t.order \in activated
    BY <1>6, <1>7, <2>2 DEF ActivateCommit
  <2>3. CASE t.order \notin activated
    <3>1. /\ ActivatePremium(p, Buyer[t.order], t.order, t.date) /\ End(p)
          /\ activated' = activated \cup ({t.order} \ {None})
      BY <1>7, <2>3 DEF ActivateCommit
    <3>2. QED
      BY <2>1, <2>3, <3>1, ActivateKeeps
  <2>4. QED
    BY <2>2, <2>3
<1>8. ASSUME NEW p \in Process, AdminActivateCommit(p) PROVE Rest'
  <2>1. task[p] \in Task
    BY <1>0 DEF TypeOK
  <2>2. PICK u \in task[p].users : ActivatePremium(p, u, None, task[p].date)
    BY <1>8 DEF AdminActivateCommit
  <2>3. u \in User /\ task[p].date \in Nat
    BY <2>1 DEF Task
  <2>4. None \notin activated
    BY <1>0, PaymentsAssumption DEF TypeOK
  <2>5. End(p) /\ activated' = activated \cup ({None} \ {None})
    BY <1>8 DEF AdminActivateCommit
  <2>6. QED
    BY <2>2, <2>3, <2>4, <2>5, ActivateKeeps
<1>9. ASSUME NEW p \in Process, Select(p) \/ Lock(p) PROVE Rest'
  <2>1. UNCHANGED <<tables, task>>
    BY <1>9 DEF Select, Lock
  <2>2. \A q \in Process \ {p} : rows'[q] = rows[q]
    BY <1>0, <1>9 DEF TypeOK, Select, Lock
  <2>3. \A i \in rows'[p] : Matches(p, i)
    BY <1>0, <1>9 DEF TypeOK, Select, Lock
  <2>4. PickedRows'
    BY <1>0, <2>1, <2>2, <2>3 DEF PickedRows, Matches, tables
  <2>5. OncePerOrder' /\ PremiumIsBacked'
    BY <1>0, <2>1 DEF OncePerOrder, PremiumIsBacked, Active, tables
  <2>6. QED
    BY <2>4, <2>5
<1>10. ASSUME NEW p \in Process, RenewCommit(p) PROVE Rest'
  <2> DEFINE date == task[p].date
             f == [i \in rows[p] |-> [subs[i] EXCEPT !.expiryDate = date]]
             g == [u \in task[p].users |->
                     [users[u] EXCEPT !.premiumExpiry = date, !.premiumStatus = "PREMIUM"]]
  <2>1. date \in Nat
    BY <1>0 DEF TypeOK, Task
  <2>2. \A i \in rows[p] \cap DOMAIN subs :
           /\ f[i] \in SubRow /\ f[i].user = subs[i].user
           /\ f[i].order = subs[i].order /\ f[i].status = subs[i].status
    BY <1>0, <2>1, RowType DEF SubRow
  <2>3. \A u \in task[p].users \cap User :
           g[u].isPremium = users[u].isPremium /\ g[u].premiumStatus = "PREMIUM"
    BY <1>0, UserType DEF UserRow
  <2>4. End(p) /\ SetSubs(p, f) /\ SetUsers(p, g) /\ activated' = activated
    BY <1>10 DEF RenewCommit, Commit
  <2>5. QED
    BY <2>2, <2>3, <2>4, UpdateKeeps
<1>11. ASSUME NEW p \in Process, RevokeCommit(p) PROVE Rest'
  <2> DEFINE f == [i \in rows[p] |-> [subs[i] EXCEPT !.status = "REVOKED"]]
             g == [u \in task[p].users |-> [isPremium |-> FALSE,
                     premiumExpiry |-> task[p].date, premiumStatus |-> "REVOKED"]]
  <2>1. \A i \in rows[p] \cap DOMAIN subs :
           f[i] \in SubRow /\ f[i].user = subs[i].user /\ f[i].order = subs[i].order
    BY <1>0, RowType DEF SubRow
  <2>2. \A u \in task[p].users \cap User : ~g[u].isPremium
    OBVIOUS
  <2>3. End(p) /\ SetSubs(p, f) /\ SetUsers(p, g) /\ activated' = activated
    BY <1>11 DEF RevokeCommit, Commit
  <2>4. QED
    BY <2>1, <2>2, <2>3, UpdateKeeps
<1>12. ASSUME NEW p \in Process, ExpireCommit(p) PROVE Rest'
  <2> DEFINE f == [i \in rows[p] |-> [subs[i] EXCEPT !.status = "EXPIRED"]]
             g == [u \in task[p].users |->
                     [users[u] EXCEPT !.isPremium = FALSE, !.premiumStatus = "EXPIRED"]]
  <2>1. \A i \in rows[p] \cap DOMAIN subs :
           f[i] \in SubRow /\ f[i].user = subs[i].user /\ f[i].order = subs[i].order
    BY <1>0, RowType DEF SubRow
  <2>2. \A u \in task[p].users \cap User : ~g[u].isPremium
    BY <1>0, UserType DEF UserRow
  <2>3. End(p) /\ SetSubs(p, f) /\ SetUsers(p, g) /\ activated' = activated
    BY <1>12 DEF ExpireCommit, Commit
  <2>4. QED
    BY <2>1, <2>2, <2>3, UpdateKeeps
<1>13. ASSUME NEW p \in Process, Fails(p) PROVE Rest'
  BY <1>6, <1>13 DEF Fails
<1>14. ASSUME Tick \/ UNCHANGED vars PROVE Rest'
  BY <1>14, QuietKeeps DEF Quiet, Tick, vars, process
<1>15. ASSUME NEW p \in Process, Transaction(p) PROVE Rest'
  BY <1>7, <1>8, <1>9, <1>10, <1>11, <1>12, <1>15 DEF Transaction
<1>16. Rest'
  <2> HIDE DEF Rest
  <2>1. CASE Next
    BY <1>1, <1>3, <1>4, <1>5, <1>13, <1>14, <1>15, <2>1 DEF Next, ExpireNothing
  <2>2. QED
    BY <1>14, <2>1
<1>17. QED
  BY <1>0, <1>16 DEF PaymentsInv

-----------------------------------------------------------------------------
(* The theorems *)

\* The inductive invariant holds in every reachable state of the premium transactions.
THEOREM PaymentsInvariant == Spec => []PaymentsInv
  BY PaymentsInit, PaymentsStep, PTL DEF Spec

\* Verify and webhook may race and repeat: an order grants one subscription
\* (activateUserSubscription).
THEOREM OncePerOrderCorrect == Spec => []OncePerOrder
<1>1. PaymentsInv => OncePerOrder
  BY DEF PaymentsInv
<1>2. QED
  BY <1>1, PaymentsInvariant, PTL

\* Behind the premium flag there is an ACTIVE subscription, whatever renewals,
\* revocations and expiries overlap (premium.repository.ts).
THEOREM PremiumIsBackedCorrect == Spec => []PremiumIsBacked
<1>1. PaymentsInv => PremiumIsBacked
  BY DEF PaymentsInv
<1>2. QED
  BY <1>1, PaymentsInvariant, PTL
-----------------------------------------------------------------------------
(* What was paid is honoured *)

\* Only a renewal, a revocation or the expiry picks subscriptions.
KindsFit ==
    \A p \in Process :
        pc[p] \in {"selecting", "locking", "updating"} =>
            task[p].kind \in {"renew", "revoke", "expire"}

\* A subscription that is to be honoured.
Due(i) == i \notin excused /\ subs[i].status = "ACTIVE"

\* Its user has the flag, for at least as long; every transaction that has picked rows
\* of the user has picked it too, and the nightly listing names the user only when it
\* is over.
Kept(i) ==
    LET u == subs[i].user IN
    /\ users[u].isPremium /\ users[u].premiumExpiry >= subs[i].expiryDate
    /\ \A q \in Process : u \in task[q].users =>
          /\ pc[q] \in {"locking", "updating"} => i \in rows[q]
          /\ task[q].kind = "expire" => subs[i].expiryDate < task[q].date

HonouredInv ==
    /\ PaymentsInv
    /\ KindsFit
    /\ \A i \in DOMAIN subs : Due(i) => Kept(i)

\* The columns of a row, and what its user's are if it is kept.
LEMMA DueRow ==
    ASSUME HonouredInv, NEW i \in DOMAIN subs
    PROVE  /\ subs[i].user \in User /\ subs[i].expiryDate \in Nat
           /\ users[subs[i].user] \in UserRow
           /\ Due(i) => users[subs[i].user].premiumExpiry \in Nat
<1>1. TypeOK
  BY DEF HonouredInv, PaymentsInv
<1>2. subs[i].user \in User /\ subs[i].expiryDate \in Nat
  BY <1>1, RowType DEF SubRow
<1>3. /\ users[subs[i].user] \in UserRow
      /\ users[subs[i].user].isPremium => users[subs[i].user].premiumExpiry # None
  BY <1>1, <1>2, UserType
<1>4. QED
  BY <1>2, <1>3 DEF HonouredInv, Kept, UserRow

\* A process that begins, with no user whose subscription is due in a nightly listing.
LEMMA HonouredAtStart ==
    ASSUME HonouredInv, NEW p \in Process, NEW w \in {"granting", "selecting"}, NEW t,
           Start(p, w, t), UNCHANGED <<tables, excused>>,
           w = "selecting" => t.kind \in {"renew", "revoke", "expire"},
           t.kind = "expire" =>
              \A u \in t.users : users[u].premiumExpiry < t.date /\ t.date \in Nat
    PROVE  KindsFit' /\ \A i \in DOMAIN subs' : Due(i)' => Kept(i)'
<1>1. TypeOK /\ UNCHANGED <<users, subs, excused, rows>>
  BY DEF HonouredInv, PaymentsInv, tables, Start
<1>2. /\ pc'[p] = w /\ task'[p] = t
      /\ \A q \in Process \ {p} : pc'[q] = pc[q] /\ task'[q] = task[q]
  BY <1>1 DEF TypeOK, Start
<1>3. KindsFit'
  BY <1>2 DEF HonouredInv, KindsFit
<1>4. ASSUME NEW i \in DOMAIN subs, Due(i)
      PROVE  Kept(i)'
  <2>1. Kept(i)
    BY <1>4 DEF HonouredInv
  <2>2. subs[i].expiryDate \in Nat /\ users[subs[i].user].premiumExpiry \in Nat
    BY <1>4, DueRow
  <2>3. subs[i].user \in t.users /\ t.kind = "expire" => subs[i].expiryDate < t.date
    BY <2>1, <2>2 DEF Kept
  <2>4. QED
    BY <1>1, <1>2, <2>1, <2>3 DEF Kept
<1>5. QED
  BY <1>1, <1>3, <1>4 DEF Due

\* A process that ends without a change to the tables.
LEMMA HonouredAtEnd ==
    ASSUME HonouredInv, NEW p \in Process, End(p), UNCHANGED <<tables, excused>>
    PROVE  KindsFit' /\ \A i \in DOMAIN subs' : Due(i)' => Kept(i)'
<1>1. TypeOK /\ UNCHANGED <<users, subs, excused>>
  BY DEF HonouredInv, PaymentsInv, tables
<1>2. /\ pc'[p] = "idle" /\ task'[p].users = {}
      /\ \A q \in Process \ {p} : pc'[q] = pc[q] /\ task'[q] = task[q] /\ rows'[q] = rows[q]
  BY <1>1 DEF TypeOK, End, Idle
<1>3. QED
  BY <1>1, <1>2 DEF HonouredInv, KindsFit, Due, Kept

\* What a transaction picks of its users' rows has all that are due.
LEMMA HonouredAtPick ==
    ASSUME HonouredInv, NEW p \in Process, Select(p) \/ Lock(p)
    PROVE  KindsFit' /\ \A i \in DOMAIN subs' : Due(i)' => Kept(i)'
<1>1. TypeOK /\ UNCHANGED <<users, subs, excused, task>>
  BY DEF HonouredInv, PaymentsInv, tables, Select, Lock
<1>2. /\ pc[p] \in {"selecting", "locking"}
      /\ \A q \in Process \ {p} : pc'[q] = pc[q] /\ rows'[q] = rows[q]
  BY <1>1 DEF TypeOK, Select, Lock
<1>3. ASSUME NEW i \in DOMAIN subs, Due(i), subs[i].user \in task[p].users
      PROVE  i \in rows'[p]
  <2>1. Kept(i) /\ subs[i].status = "ACTIVE"
    BY <1>3 DEF HonouredInv, Due
  <2>2. Matches(p, i)
    BY <1>3, <2>1 DEF Matches, Kept
  <2>3. CASE Select(p)
    BY <1>1, <2>2, <2>3 DEF Select, TypeOK
  <2>4. CASE Lock(p)
    <3>1. i \in rows[p]
      BY <1>3, <2>1, <2>4 DEF Kept, Lock
    <3>2. QED
      BY <1>1, <2>2, <2>4, <3>1 DEF Lock, TypeOK
  <2>5. QED
    BY <2>3, <2>4
<1>4. KindsFit'
  BY <1>1, <1>2 DEF HonouredInv, KindsFit
<1>5. QED
  BY <1>1, <1>2, <1>3, <1>4 DEF HonouredInv, Due, Kept

\* An activation excuses the rows it outdates, and its own if a transaction has read
\* the user's rows before.
LEMMA HonouredAtActivate ==
    ASSUME HonouredInv, NEW p \in Process, pc[p] = "granting",
           NEW u \in User, NEW o \in Order \cup {None},
           NEW date \in Nat, ActivatePremium(p, u, o, date), End(p)
    PROVE  KindsFit' /\ \A i \in DOMAIN subs' : Due(i)' => Kept(i)'
<1> DEFINE s == [user |-> u, order |-> o, expiryDate |-> date, status |-> "ACTIVE"]
<1>0. PICK n : n = Len(subs) + 1
  OBVIOUS
<1>1. TypeOK
  BY DEF HonouredInv, PaymentsInv
<1>2. s \in SubRow /\ subs \in Seq(SubRow) /\ subs' = Append(subs, s)
  BY <1>1 DEF TypeOK, SubRow, ActivatePremium
<1>3. /\ n \notin DOMAIN subs /\ DOMAIN subs' = DOMAIN subs \cup {n}
      /\ \A i \in DOMAIN subs : subs'[i] = subs[i]
      /\ subs'[n] = s
  BY <1>0, <1>2, RowAdded
<1>4. /\ pc'[p] = "idle" /\ task'[p].users = {}
      /\ \A q \in Process \ {p} : pc'[q] = pc[q] /\ task'[q] = task[q] /\ rows'[q] = rows[q]
  BY <1>1 DEF TypeOK, End, Idle
<1>5. users \in [User -> UserRow] /\ users' = [users EXCEPT ![u] = Granted(@, date)]
  BY <1>1 DEF TypeOK, ActivatePremium
<1>6. users'[u].isPremium /\ users'[u].premiumExpiry = date
  BY <1>5 DEF Granted, UserRow
<1>7. /\ excused \subseteq excused'
      /\ \A i \in Active(u) : subs[i].expiryDate > date => i \in excused'
      /\ InFlight(p, u, {"renew", "revoke", "expire"}) => n \in excused'
  BY <1>0 DEF ActivatePremium
<1>8. KindsFit'
  BY <1>4 DEF HonouredInv, KindsFit
<1>9. ASSUME NEW i \in DOMAIN subs, Due(i)'
      PROVE  Kept(i)'
  <2>1. Due(i) /\ Kept(i)
    BY <1>3, <1>7, <1>9 DEF HonouredInv, Due
  <2>2. subs[i].user \in User /\ subs[i].expiryDate \in Nat
    BY DueRow
  <2>3. /\ users'[subs[i].user].isPremium
        /\ users'[subs[i].user].premiumExpiry >= subs[i].expiryDate
    <3>1. CASE subs[i].user = u
      <4>1. i \in Active(u)
        BY <2>1, <3>1 DEF Active, Due
      <4>2. ~(subs[i].expiryDate > date)
        BY <1>7, <1>9, <4>1 DEF Due
      <4>3. QED
        BY <1>6, <2>2, <3>1, <4>2
    <3>2. CASE subs[i].user # u
      BY <1>5, <2>1, <2>2, <3>2 DEF Kept
    <3>3. QED
      BY <3>1, <3>2
  <2>4. QED
    BY <1>3, <1>4, <2>1, <2>3 DEF Kept
<1>10. ASSUME Due(n)'
       PROVE  Kept(n)'
  <2>1. ~InFlight(p, u, {"renew", "revoke", "expire"})
    BY <1>7, <1>10 DEF Due
  <2>2. subs'[n].user = u /\ subs'[n].expiryDate = date
    BY <1>3
  <2>3. users'[u].premiumExpiry >= date
    BY <1>6
  <2>4. ASSUME NEW q \in Process, u \in task'[q].users
        PROVE  pc'[q] \notin {"locking", "updating"} /\ task'[q].kind # "expire"
    <3>1. q # p /\ pc'[q] = pc[q] /\ task'[q] = task[q]
      BY <1>4, <2>4
    <3>2. pc[q] \in {"locking", "updating"} => task[q].kind \in {"renew", "revoke", "expire"}
      BY DEF HonouredInv, KindsFit
    <3>3. QED
      BY <2>1, <2>4, <3>1, <3>2 DEF InFlight
  <2>5. QED
    BY <1>6, <2>2, <2>3, <2>4 DEF Kept
<1>11. QED
  BY <1>3, <1>8, <1>9, <1>10

\* An updateMany that leaves no due row ACTIVE, or gives all rows it has picked and
\* their users the same date, with no nightly listing of the users in flight.
LEMMA HonouredAtUpdate ==
    ASSUME HonouredInv, NEW p \in Process, pc[p] = "updating", NEW f, NEW g,
           End(p), SetSubs(p, f), SetUsers(p, g), excused \subseteq excused',
           \A i \in rows[p] \cap DOMAIN subs : f[i] \in SubRow /\ f[i].user = subs[i].user,
           \/ \A i \in rows[p] \cap DOMAIN subs : f[i].status # "ACTIVE"
           \/ /\ \A i \in rows[p] \cap DOMAIN subs :
                    f[i].expiryDate = task[p].date /\ f[i].status = subs[i].status
              /\ \A u \in task[p].users \cap User :
                    /\ g[u].isPremium = users[u].isPremium
                    /\ g[u].premiumExpiry = task[p].date
              /\ \/ rows[p] \subseteq excused'
                 \/ \A u \in task[p].users : ~InFlight(p, u, {"expire"})
    PROVE  KindsFit' /\ \A i \in DOMAIN subs' : Due(i)' => Kept(i)'
<1>1. TypeOK /\ PickedRows
  BY DEF HonouredInv, PaymentsInv
<1>2. /\ DOMAIN subs' = DOMAIN subs
      /\ \A i \in DOMAIN subs : subs'[i] = IF i \in rows[p] THEN f[i] ELSE subs[i]
  BY <1>1, RowsInPlace DEF TypeOK
<1>3. \A u \in User : users'[u] = IF u \in task[p].users THEN g[u] ELSE users[u]
  BY DEF SetUsers
<1>4. /\ pc'[p] = "idle" /\ task'[p].users = {}
      /\ \A q \in Process \ {p} : pc'[q] = pc[q] /\ task'[q] = task[q] /\ rows'[q] = rows[q]
  BY <1>1 DEF TypeOK, End, Idle
<1>5. KindsFit'
  BY <1>4 DEF HonouredInv, KindsFit
<1>6. ASSUME NEW i \in DOMAIN subs, Due(i)'
      PROVE  Kept(i)'
  <2>1. subs'[i].user = subs[i].user /\ subs[i].user \in User
    BY <1>2, DueRow
  <2>2. CASE i \notin rows[p]
    <3>1. subs'[i] = subs[i] /\ Due(i)
      BY <1>2, <1>6, <2>2 DEF Due
    <3>2. Kept(i)
      BY <3>1 DEF HonouredInv
    <3>3. subs[i].user \notin task[p].users
      BY <2>2, <3>2 DEF Kept
    <3>4. users'[subs[i].user] = users[subs[i].user]
      BY <1>3, <2>1, <3>3
    <3>5. QED
      BY <1>4, <3>1, <3>2, <3>4 DEF Kept
  <2>3. CASE i \in rows[p]
    <3>1. subs'[i] = f[i] /\ f[i].status = "ACTIVE" /\ i \notin excused'
      BY <1>2, <1>6, <2>3 DEF Due
    <3>2. /\ f[i].expiryDate = task[p].date /\ f[i].status = subs[i].status
          /\ \A u \in task[p].users \cap User :
                g[u].isPremium = users[u].isPremium /\ g[u].premiumExpiry = task[p].date
          /\ \A u \in task[p].users : ~InFlight(p, u, {"expire"})
      BY <2>3, <3>1
    <3>3. Due(i) /\ Kept(i)
      BY <3>1, <3>2 DEF HonouredInv, Due
    <3>4. subs[i].user \in task[p].users
      BY <1>1, <2>3 DEF PickedRows
    <3>5. task[p].date \in Nat
      BY <1>1 DEF TypeOK, Task
    <3>6. /\ users'[subs[i].user].isPremium
          /\ users'[subs[i].user].premiumExpiry >= subs'[i].expiryDate
      BY <1>3, <2>1, <3>1, <3>2, <3>3, <3>4, <3>5 DEF Kept
    <3>7. ASSUME NEW q \in Process, subs[i].user \in task'[q].users
          PROVE  /\ pc'[q] \in {"locking", "updating"} => i \in rows'[q]
                 /\ task'[q].kind # "expire"
      <4>1. q # p /\ pc'[q] = pc[q] /\ task'[q] = task[q] /\ rows'[q] = rows[q]
        BY <1>4, <3>7
      <4>2. ~InFlight(p, subs[i].user, {"expire"})
        BY <3>2, <3>4
      <4>3. task[q].kind # "expire"
        BY <3>7, <4>1, <4>2 DEF InFlight
      <4>4. QED
        BY <3>3, <3>7, <4>1, <4>3 DEF Kept
    <3>8. QED
      BY <2>1, <3>6, <3>7 DEF Kept
  <2>4. QED
    BY <2>2, <2>3
<1>7. QED
  BY <1>2, <1>5, <1>6

LEMMA HonouredInit == Init => HonouredInv
<1> SUFFICES ASSUME Init PROVE HonouredInv
  OBVIOUS
<1>1. PaymentsInv
  BY PaymentsInit
<1>2. DOMAIN subs = {}
  BY DEF Init
<1>3. KindsFit
  BY DEF Init, KindsFit
<1>4. QED
  BY <1>1, <1>2, <1>3 DEF HonouredInv

LEMMA HonouredStep == HonouredInv /\ [Next]_vars => HonouredInv'
<1> SUFFICES ASSUME HonouredInv, [Next]_vars PROVE HonouredInv'
  OBVIOUS
<1> DEFINE Rest == KindsFit /\ \A i \in DOMAIN subs : Due(i) => Kept(i)
<1>0. PaymentsInv /\ PaymentsInv' /\ TypeOK
  BY PaymentsStep DEF HonouredInv, PaymentsInv
<1>1. ASSUME UNCHANGED <<tables, process, excused>> PROVE Rest'
  BY <1>1 DEF HonouredInv, KindsFit, Due, Kept, tables, process
<1>2. ASSUME NEW p \in Process, NEW o \in Order, VerifyCheck(p, o) \/ WebhookCheck(p, o)
      PROVE  Rest'
  <2>1. PICK k \in {"verify", "webhook"} : Start(p, "granting", Activation(o, k))
    BY <1>2 DEF VerifyCheck, WebhookCheck
  <2>2. Activation(o, k).kind # "expire"
    BY DEF Activation
  <2>3. QED
    BY <1>2, <2>1, <2>2, HonouredAtStart DEF VerifyCheck, WebhookCheck
<1>3. ASSUME NEW p \in Process, NEW u \in User, NEW d \in 0..MaxDate,
             AdminActivateCheck(p, u, d) \/ RenewCheck(p, u, d) \/ RevokeCheck(p, u)
      PROVE  Rest'
  <2>1. PICK w, k, x :
             /\ w \in {"granting", "selecting"} /\ k \in {"activate", "renew", "revoke"}
             /\ Request(p, w, k, u, x) /\ (w = "selecting" => k # "activate")
    BY <1>3 DEF AdminActivateCheck, RenewCheck, RevokeCheck
  <2> DEFINE t == [kind |-> k, users |-> {u}, order |-> None, date |-> x]
  <2>2. /\ Start(p, w, t) /\ UNCHANGED <<tables, excused>>
        /\ w = "selecting" => t.kind \in {"renew", "revoke", "expire"}
        /\ t.kind # "expire"
    BY <2>1 DEF Request
  <2> HIDE DEF t
  <2>3. QED
    BY <2>1, <2>2, HonouredAtStart
<1>4. ASSUME NEW p \in Process, ExpireList(p) PROVE Rest'
  <2> DEFINE t == [kind |-> "expire", users |-> {u \in User : Overdue(u)},
                   order |-> None, date |-> now]
  <2>1. Start(p, "selecting", t) /\ UNCHANGED <<tables, excused>>
    BY <1>4 DEF ExpireList
  <2>2. t.kind = "expire" /\ t.date = now /\ now \in Nat
    BY <1>0, PaymentsAssumption DEF TypeOK
  <2>3. \A u \in t.users : users[u].premiumExpiry < now
    BY DEF Overdue
  <2> HIDE DEF t
  <2>4. QED
    BY <2>1, <2>2, <2>3, HonouredAtStart
<1>5. ASSUME NEW p \in Process, ActivateCommit(p) PROVE Rest'
  <2> DEFINE t == task[p]
  <2>1. t \in Task /\ t.order \in Order /\ Buyer[t.order] \in User /\ t.date \in Nat
    BY <1>0, <1>5, PaymentsAssumption DEF ActivateCommit, TypeOK, Task
  <2>2. CASE t.order \in activated
    BY <1>5, <2>2, HonouredAtEnd DEF ActivateCommit
  <2>3. CASE t.order \notin activated
    <3>1. /\ ActivatePremium(p, Buyer[t.order], t.order, t.date) /\ End(p)
          /\ pc[p] = "granting"
      BY <1>5, <2>3 DEF ActivateCommit
    <3>2. QED
      BY <2>1, <3>1, HonouredAtActivate
  <2>4. QED
    BY <2>2, <2>3
<1>6. ASSUME NEW p \in Process, AdminActivateCommit(p) PROVE Rest'
  <2>1. task[p] \in Task
    BY <1>0 DEF TypeOK
  <2>2. PICK u \in task[p].users : ActivatePremium(p, u, None, task[p].date)
    BY <1>6 DEF AdminActivateCommit
  <2>3. u \in User /\ task[p].date \in Nat
    BY <2>1 DEF Task
  <2>4. End(p) /\ pc[p] = "granting"
    BY <1>6 DEF AdminActivateCommit
  <2>5. QED
    BY <2>2, <2>3, <2>4, HonouredAtActivate
<1>7. ASSUME NEW p \in Process, RenewCommit(p) PROVE Rest'
  <2> DEFINE date == task[p].date
             f == [i \in rows[p] |-> [subs[i] EXCEPT !.expiryDate = date]]
             g == [u \in task[p].users |->
                     [users[u] EXCEPT !.premiumExpiry = date, !.premiumStatus = "PREMIUM"]]
  <2>1. date \in Nat
    BY <1>0 DEF TypeOK, Task
  <2>2. \A i \in rows[p] \cap DOMAIN subs :
           /\ f[i] \in SubRow /\ f[i].user = subs[i].user
           /\ f[i].expiryDate = task[p].date /\ f[i].status = subs[i].status
    BY <1>0, <2>1, RowType DEF SubRow
  <2>3. \A u \in task[p].users \cap User :
           g[u].isPremium = users[u].isPremium /\ g[u].premiumExpiry = task[p].date
    BY <1>0, UserType DEF UserRow
  <2>4. /\ End(p) /\ SetSubs(p, f) /\ SetUsers(p, g) /\ pc[p] = "updating"
        /\ excused' = IF \E u \in task[p].users : InFlight(p, u, {"expire"})
                      THEN excused \cup rows[p] ELSE excused
    BY <1>7 DEF RenewCommit, Commit
  <2> HIDE DEF f, g
  <2>5. QED
    BY <2>2, <2>3, <2>4, HonouredAtUpdate
<1>8. ASSUME NEW p \in Process, RevokeCommit(p) PROVE Rest'
  <2> DEFINE f == [i \in rows[p] |-> [subs[i] EXCEPT !.status = "REVOKED"]]
             g == [u \in task[p].users |-> [isPremium |-> FALSE,
                     premiumExpiry |-> task[p].date, premiumStatus |-> "REVOKED"]]
  <2>1. \A i \in rows[p] \cap DOMAIN subs :
           f[i] \in SubRow /\ f[i].user = subs[i].user /\ f[i].status # "ACTIVE"
    BY <1>0, RowType DEF SubRow
  <2>2. End(p) /\ SetSubs(p, f) /\ SetUsers(p, g) /\ pc[p] = "updating" /\ excused' = excused
    BY <1>8 DEF RevokeCommit, Commit
  <2> HIDE DEF f, g
  <2>3. QED
    BY <2>1, <2>2, HonouredAtUpdate
<1>9. ASSUME NEW p \in Process, ExpireCommit(p) PROVE Rest'
  <2> DEFINE f == [i \in rows[p] |-> [subs[i] EXCEPT !.status = "EXPIRED"]]
             g == [u \in task[p].users |->
                     [users[u] EXCEPT !.isPremium = FALSE, !.premiumStatus = "EXPIRED"]]
  <2>1. \A i \in rows[p] \cap DOMAIN subs :
           f[i] \in SubRow /\ f[i].user = subs[i].user /\ f[i].status # "ACTIVE"
    BY <1>0, RowType DEF SubRow
  <2>2. End(p) /\ SetSubs(p, f) /\ SetUsers(p, g) /\ pc[p] = "updating" /\ excused' = excused
    BY <1>9 DEF ExpireCommit, Commit
  <2> HIDE DEF f, g
  <2>3. QED
    BY <2>1, <2>2, HonouredAtUpdate
<1>10. ASSUME NEW p \in Process, Fails(p) PROVE Rest'
  BY <1>10, HonouredAtEnd DEF Fails
<1>11. ASSUME NEW p \in Process, Transaction(p) PROVE Rest'
  BY <1>5, <1>6, <1>7, <1>8, <1>9, <1>11, HonouredAtPick DEF Transaction
<1>12. ASSUME \/ \E o \in Order : Pay(o) \/ AlreadyActive(o)
              \/ Tick \/ UNCHANGED vars
       PROVE  UNCHANGED <<tables, process, excused>>
  BY <1>12 DEF Pay, AlreadyActive, Tick, vars
<1>13. Rest'
  <2> HIDE DEF Rest
  <2>1. CASE \E p \in Process, u \in User :
                \/ \E d \in 0..MaxDate : AdminActivateCheck(p, u, d) \/ RenewCheck(p, u, d)
                \/ RevokeCheck(p, u)
    <3>1. 0 \in 0..MaxDate
      BY PaymentsAssumption
    <3>2. QED
      BY <1>3, <2>1, <3>1
  <2>2. CASE UNCHANGED vars
    BY <1>1, <1>12, <2>2
  <2>3. QED
    BY <1>1, <1>2, <1>4, <1>10, <1>11, <1>12, <2>1, <2>2 DEF Next, ExpireNothing
<1>14. QED
  BY <1>0, <1>13 DEF HonouredInv

\* A granted subscription opens PremiumGuard until its date unless it is revoked,
\* but for the three races that "excused" names.
THEOREM PaidIsHonouredCorrect == Spec => []PaidIsHonoured
<1>1. HonouredInv => PaidIsHonoured
  <2> SUFFICES ASSUME HonouredInv, NEW i \in DOMAIN subs \ excused,
                      subs[i].status = "ACTIVE", subs[i].expiryDate >= now
               PROVE  /\ Access(subs[i].user)
                      /\ users[subs[i].user].premiumExpiry >= subs[i].expiryDate
    BY DEF PaidIsHonoured
  <2>1. Due(i) /\ Kept(i) /\ now \in Nat
    BY PaymentsAssumption DEF Due, HonouredInv, PaymentsInv, TypeOK
  <2>2. subs[i].expiryDate \in Nat /\ users[subs[i].user].premiumExpiry \in Nat
    BY <2>1, DueRow
  <2>3. QED
    BY <2>1, <2>2 DEF Kept, Access
<1>2. QED
  BY <1>1, HonouredInit, HonouredStep, PTL DEF Spec
=============================================================================
