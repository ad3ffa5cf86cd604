------------------------------- MODULE Payments -------------------------------
(***************************************************************************)
(* Premium access: what a paid order, an administrator and the nightly     *)
(* expiry do to the User row and to the rows of PremiumSubscription        *)
(* (src/src/module/subscriptions/payments, src/src/module/premium).        *)
(*                                                                         *)
(* A Process is one call in flight on any node: an HTTP request, a webhook *)
(* or the cron job.  It reads, and then runs a transaction that ends by    *)
(* updating the User row.  That update's row lock orders the transactions  *)
(* by their commits, so a transaction is one action at its commit, except  *)
(* for what it reads before.  A renewal, a revocation and the expiry first *)
(* update subscriptions: the statement picks its rows (Select), waits for  *)
(* the transactions that hold them and looks at them again (Lock).         *)
(***************************************************************************)
EXTENDS Naturals, Sequences

CONSTANTS
    User,
    Order,          \* orders of Razorpay
    Buyer,          \* the user who pays an order
    Days,           \* durationDays of its plan
    Process,
    MaxTime,        \* bound: midnights that pass
    MaxDate,        \* bound: the last date an administrator asks for
    MaxAdmin,       \* bound: requests of administrators
    MaxFaults,      \* bound: failed transactions and crashes
    None            \* null

ASSUME PaymentsAssumption ==
    /\ Buyer \in [Order -> User] /\ Days \in [Order -> Nat \ {0}]
    /\ MaxTime \in Nat /\ MaxDate \in Nat /\ MaxAdmin \in Nat /\ MaxFaults \in Nat
    /\ None \notin Order /\ None \notin Nat

VARIABLES
    now,
    users,          \* the premium columns of User
    subs,           \* the rows of PremiumSubscription, in the order of their creation
    activated,      \* orders with a row sub_{orderId} in Subscription
    paid,
    webhook,        \* paid orders whose order.paid Razorpay has not seen answered 2xx
    pc, task,       \* where a process is and what it does
    rows,           \* the subscriptions its first statement has picked
    requests, faults,
    excused         \* subscriptions that need not be honoured: see PaidIsHonoured

tables  == <<users, subs, activated>>
gateway == <<paid, webhook>>
process == <<pc, task, rows>>
bounds  == <<requests, faults>>
vars == <<now, tables, gateway, process, bounds, excused>>

UserRow == [isPremium : BOOLEAN, premiumExpiry : Nat \cup {None},
            premiumStatus : {"FREE", "PREMIUM", "REVOKED", "EXPIRED"}]

\* `order` is not a column: it tells who granted the subscription.
SubRow == [user : User, order : Order \cup {None}, expiryDate : Nat,
           status : {"ACTIVE", "REVOKED", "EXPIRED"}]

Kind == {"verify", "webhook", "activate", "renew", "revoke", "expire"}
Task == [kind : Kind, users : SUBSET User, order : Order \cup {None}, date : Nat]
Idle == [kind |-> "expire", users |-> {}, order |-> None, date |-> 0]

TypeOK ==
    /\ now \in 0..MaxTime
    /\ users \in [User -> UserRow]
    /\ \A u \in User : users[u].isPremium => users[u].premiumExpiry # None
    /\ subs \in Seq(SubRow)
    /\ activated \subseteq paid /\ paid \subseteq Order
    /\ webhook \subseteq paid
    /\ pc \in [Process -> {"idle", "granting", "selecting", "locking", "updating"}]
    /\ task \in [Process -> Task]
    /\ rows \in [Process -> SUBSET DOMAIN subs]
    /\ \A p \in Process :
          /\ pc[p] = "idle" <=> task[p].users = {}
          /\ pc[p] \notin {"locking", "updating"} => rows[p] = {}
          /\ task[p].order \in paid \cup {None}
    /\ requests \in 0..MaxAdmin /\ faults \in 0..MaxFaults
    /\ excused \subseteq DOMAIN subs

Init ==
    /\ now = 0
    /\ users = [u \in User |-> [isPremium |-> FALSE, premiumExpiry |-> None,
                                premiumStatus |-> "FREE"]]
    /\ subs = << >> /\ activated = {}
    /\ paid = {} /\ webhook = {}
    /\ pc = [p \in Process |-> "idle"]
    /\ task = [p \in Process |-> Idle]
    /\ rows = [p \in Process |-> {}]
    /\ requests = 0 /\ faults = 0
    /\ excused = {}

Active(u) == {i \in DOMAIN subs : subs[i].user = u /\ subs[i].status = "ACTIVE"}

\* Mutant of Overdue: lte instead of lt.
OverdueToday(u) ==
    /\ users[u].isPremium
    /\ users[u].premiumExpiry # None /\ users[u].premiumExpiry <= now

\* where: { isPremium: true, premiumExpiry: { lt: now } }; null is not less.
Overdue(u) ==
    /\ users[u].isPremium
    /\ users[u].premiumExpiry # None /\ users[u].premiumExpiry < now

\* PremiumGuard lets the user through.
Access(u) ==
    /\ users[u].isPremium
    /\ users[u].premiumExpiry # None => users[u].premiumExpiry >= now

-----------------------------------------------------------------------------
(* Processes *)

Start(p, where, what) ==
    /\ pc[p] = "idle"
    /\ pc' = [pc EXCEPT ![p] = where]
    /\ task' = [task EXCEPT ![p] = what]
    /\ UNCHANGED rows

End(p) ==
    /\ pc' = [pc EXCEPT ![p] = "idle"]
    /\ task' = [task EXCEPT ![p] = Idle]
    /\ rows' = [rows EXCEPT ![p] = {}]

\* Another process that has read u or u's subscriptions and has yet to write them.
InFlight(p, u, kinds) ==
    \E q \in Process \ {p} :
        /\ u \in task[q].users /\ task[q].kind \in kinds
        /\ task[q].kind # "expire" => pc[q] \in {"locking", "updating"}

-----------------------------------------------------------------------------
(* Orders *)

\* The checkout of an order made by createOrder succeeds.
Pay(o) ==
    /\ o \notin paid
    /\ paid' = paid \cup {o}
    /\ webhook' = webhook \cup {o}
    /\ UNCHANGED <<now, tables, process, bounds, excused>>

Activation(o, kind) ==
    [kind |-> kind, users |-> {Buyer[o]}, order |-> o, date |-> now + Days[o]]

\* activateUserSubscription finds no row for the order and computes its dates.  The
\* buyer's browser calls verify, in the buyer's session, and may do so again.
VerifyCheck(p, o) ==
    /\ o \in paid \ activated
    /\ Start(p, "granting", Activation(o, "verify"))
    /\ UNCHANGED <<now, tables, gateway, bounds, excused>>

WebhookCheck(p, o) ==
    /\ o \in webhook \ activated
    /\ Start(p, "granting", Activation(o, "webhook"))
    /\ UNCHANGED <<now, tables, gateway, bounds, excused>>

\* "Subscription for order ... already active.": the webhook answers 201, and verify
\* changes nothing.
AlreadyActive(o) ==
    /\ o \in webhook \cap activated
    /\ webhook' = webhook \ {o}
    /\ UNCHANGED <<now, tables, paid, process, bounds, excused>>

\* Mutant of Granted: the expiry stays as it was.
GrantedUndated(row, date) ==
    [row EXCEPT !.isPremium = TRUE, !.premiumStatus = "PREMIUM"]

Granted(row, date) ==
    [row EXCEPT !.isPremium = TRUE, !.premiumExpiry = date, !.premiumStatus = "PREMIUM"]

\* PremiumRepository.activatePremium, for a user's order or for an administrator.
ActivatePremium(p, u, o, date) ==
    /\ subs' = Append(subs, [user |-> u, order |-> o, expiryDate |-> date,
                             status |-> "ACTIVE"])
    /\ users' = [users EXCEPT ![u] = Granted(@, date)]
    /\ excused' = excused
         \cup {i \in Active(u) : subs[i].expiryDate > date}
         \cup (IF InFlight(p, u, {"renew", "revoke", "expire"})
               THEN {Len(subs) + 1} ELSE {})

\* Mutant of ActivateCommit: no primary key made of the order's id.
ActivateUnkeyed(p) ==
    LET t == task[p]
        u == Buyer[t.order] IN
    /\ pc[p] = "granting" /\ t.order # None
    /\ ActivatePremium(p, u, t.order, t.date)
    /\ activated' = activated \cup {t.order}
    /\ webhook' = IF t.kind = "webhook" THEN webhook \ {t.order} ELSE webhook
    /\ End(p)
    /\ UNCHANGED <<now, paid, bounds>>

\* The transaction of activateUserSubscription commits, or the primary key
\* sub_{orderId} refuses it (P2002) and rolls all of it back: verify answers 400,
\* the webhook 500, and Razorpay will deliver it again.
ActivateCommit(p) ==
    LET t == task[p]
        u == Buyer[t.order] IN
    /\ pc[p] = "granting" /\ t.order # None
    /\ IF t.order \in activated
       THEN UNCHANGED <<tables, webhook, excused>>
       ELSE /\ ActivatePremium(p, u, t.order, t.date)
            /\ activated' = activated \cup {t.order}
            /\ webhook' = IF t.kind = "webhook" THEN webhook \ {t.order} ELSE webhook
    /\ End(p)
    /\ UNCHANGED <<now, paid, bounds>>

-----------------------------------------------------------------------------
(* The administrator *)

Request(p, where, kind, u, date) ==
    /\ requests < MaxAdmin
    /\ requests' = requests + 1
    /\ Start(p, where, [kind |-> kind, users |-> {u}, order |-> None, date |-> date])
    /\ UNCHANGED <<now, tables, gateway, faults, excused>>

AdminActivateCheck(p, u, date) ==
    /\ ~users[u].isPremium
    /\ date > now
    /\ Request(p, "granting", "activate", u, date)

AdminActivateCommit(p) ==
    /\ pc[p] = "granting" /\ task[p].order = None
    /\ \E u \in task[p].users : ActivatePremium(p, u, None, task[p].date)
    /\ End(p)
    /\ UNCHANGED <<now, activated, gateway, bounds>>

\* The new date need not lie in the future.
RenewCheck(p, u, date) ==
    /\ users[u].isPremium /\ users[u].premiumExpiry # None
    /\ date > users[u].premiumExpiry
    /\ Request(p, "selecting", "renew", u, date)

RevokeCheck(p, u) ==
    /\ users[u].isPremium
    /\ Request(p, "selecting", "revoke", u, now)

-----------------------------------------------------------------------------
(* The cron job, on every node *)

ExpireList(p) ==
    LET overdue == {u \in User : Overdue(u)} IN
    /\ overdue # {}
    /\ Start(p, "selecting",
             [kind |-> "expire", users |-> overdue, order |-> None, date |-> now])
    /\ UNCHANGED <<now, tables, gateway, bounds, excused>>

\* "No expired subscriptions found".
ExpireNothing ==
    /\ \A u \in User : ~Overdue(u)
    /\ UNCHANGED vars

-----------------------------------------------------------------------------
(* The transactions of renewal, revocation and expiry *)

\* The where clause of the updateMany of PremiumSubscription.
Matches(p, i) ==
    /\ subs[i].user \in task[p].users /\ subs[i].status = "ACTIVE"
    /\ task[p].kind = "expire" => subs[i].expiryDate < task[p].date

Select(p) ==
    /\ pc[p] = "selecting"
    /\ rows' = [rows EXCEPT ![p] = {i \in DOMAIN subs : Matches(p, i)}]
    /\ pc' = [pc EXCEPT ![p] = "locking"]
    /\ UNCHANGED <<now, tables, gateway, task, bounds, excused>>

Lock(p) ==
    /\ pc[p] = "locking"
    /\ \A q \in Process : pc[q] = "updating" => rows[q] \cap rows[p] = {}
    /\ rows' = [rows EXCEPT ![p] = {i \in @ : Matches(p, i)}]
    /\ pc' = [pc EXCEPT ![p] = "updating"]
    /\ UNCHANGED <<now, tables, gateway, task, bounds, excused>>

Commit(p, kind) ==
    /\ pc[p] = "updating" /\ task[p].kind = kind
    /\ End(p)
    /\ UNCHANGED <<now, activated, gateway, bounds>>

\* The picked subscriptions become what `changed` maps them to.
SetSubs(p, changed) ==
    subs' = [i \in DOMAIN subs |-> IF i \in rows[p] THEN changed[i] ELSE subs[i]]

\* So do the users of the task.
SetUsers(p, changed) ==
    users' = [u \in User |-> IF u \in task[p].users THEN changed[u] ELSE users[u]]

\* Mutant of RenewCommit: renewing sets isPremium too.
RenewReactivates(p) ==
    LET date == task[p].date IN
    /\ Commit(p, "renew")
    /\ SetSubs(p, [i \in rows[p] |-> [subs[i] EXCEPT !.expiryDate = date]])
    /\ SetUsers(p, [u \in task[p].users |-> Granted(users[u], date)])
    /\ UNCHANGED excused

RenewCommit(p) ==
    LET date == task[p].date IN
    /\ Commit(p, "renew")
    /\ SetSubs(p, [i \in rows[p] |-> [subs[i] EXCEPT !.expiryDate = date]])
    /\ SetUsers(p, [u \in task[p].users |->
                       [users[u] EXCEPT !.premiumExpiry = date, !.premiumStatus = "PREMIUM"]])
    /\ excused' = IF \E u \in task[p].users : InFlight(p, u, {"expire"})
                  THEN excused \cup rows[p] ELSE excused

RevokeCommit(p) ==
    /\ Commit(p, "revoke")
    /\ SetSubs(p, [i \in rows[p] |-> [subs[i] EXCEPT !.status = "REVOKED"]])
    /\ SetUsers(p, [u \in task[p].users |->
                       [isPremium |-> FALSE, premiumExpiry |-> task[p].date,
                        premiumStatus |-> "REVOKED"]])
    /\ UNCHANGED excused

\* The users are those listed before, whatever has become of them.
ExpireCommit(p) ==
    /\ Commit(p, "expire")
    /\ SetSubs(p, [i \in rows[p] |-> [subs[i] EXCEPT !.status = "EXPIRED"]])
    /\ SetUsers(p, [u \in task[p].users |->
                       [users[u] EXCEPT !.isPremium = FALSE, !.premiumStatus = "EXPIRED"]])
    /\ UNCHANGED excused

-----------------------------------------------------------------------------
(* Failures and time *)

\* Mutant of Fails: the webhook catches the error and answers 200.
FailsQuietly(p) ==
    /\ pc[p] # "idle"
    /\ faults < MaxFaults
    /\ faults' = faults + 1
    /\ webhook' = IF task[p].kind = "webhook" THEN webhook \ {task[p].order} ELSE webhook
    /\ End(p)
    /\ UNCHANGED <<now, tables, paid, requests, excused>>

\* A query is rejected, the transaction takes more than five seconds, or the node
\* dies: nothing is committed.
Fails(p) ==
    /\ pc[p] # "idle"
    /\ faults < MaxFaults
    /\ faults' = faults + 1
    /\ End(p)
    /\ UNCHANGED <<now, tables, gateway, requests, excused>>

Tick ==
    /\ now < MaxTime
    /\ now' = now + 1
    /\ UNCHANGED <<tables, gateway, process, bounds, excused>>

Transaction(p) ==
    \/ ActivateCommit(p) \/ AdminActivateCommit(p)
    \/ Select(p) \/ Lock(p)
    \/ RenewCommit(p) \/ RevokeCommit(p) \/ ExpireCommit(p)

Next ==
    \/ \E o \in Order : Pay(o) \/ AlreadyActive(o)
    \/ \E p \in Process, o \in Order : VerifyCheck(p, o) \/ WebhookCheck(p, o)
    \/ \E p \in Process, u \in User :
          \/ \E date \in 0..MaxDate : AdminActivateCheck(p, u, date) \/ RenewCheck(p, u, date)
          \/ RevokeCheck(p, u)
    \/ \E p \in Process : ExpireList(p) \/ Transaction(p) \/ Fails(p)
    \/ ExpireNothing
    \/ Tick

\* A transaction goes on by itself; Razorpay delivers order.paid until it is answered
\* with a 2xx status.
Spec ==
    /\ Init /\ [][Next]_vars
    /\ \A p \in Process : WF_vars(Transaction(p))
    /\ \A o \in Order : WF_vars(\E p \in Process : WebhookCheck(p, o))

-----------------------------------------------------------------------------
(* Properties *)

\* However often verify and the webhook are called, and in whatever order they
\* overlap, an order grants one subscription, and exactly when it has its row in
\* Subscription (activateUserSubscription).
OncePerOrder ==
    /\ \A i, j \in DOMAIN subs :
          subs[i].order # None /\ subs[i].order = subs[j].order => i = j
    /\ activated = {subs[i].order : i \in DOMAIN subs} \ {None}

\* A user is never premium on the strength of a subscription that was revoked or has
\* expired: behind the flag there is an ACTIVE row, although activation, renewal,
\* revocation and expiry update rows and flag from different readings.
PremiumIsBacked ==
    \A u \in User : users[u].isPremium =>
        users[u].premiumStatus = "PREMIUM" /\ Active(u) # {}

\* A granted subscription opens PremiumGuard until its date unless it is revoked.
\* The code has three exceptions, and `excused` holds the subscriptions they hit: a
\* later activation with an earlier date (it replaces premiumExpiry), an activation
\* between the reading and the commit of another transaction, a renewal between the
\* nightly listing and its commit.
PaidIsHonoured ==
    \A i \in DOMAIN subs \ excused :
        subs[i].status = "ACTIVE" /\ subs[i].expiryDate >= now =>
            /\ Access(subs[i].user)
            /\ users[subs[i].user].premiumExpiry >= subs[i].expiryDate

\* Whatever fails on the way, an order that was paid is activated in the end
\* (handleWebhook answers an error so that Razorpay delivers again).
PaidIsActivated ==
    \A o \in Order : o \in paid ~> o \in activated
=============================================================================
