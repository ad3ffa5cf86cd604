-------------------------------- MODULE Sessions --------------------------------
(***************************************************************************)
(* The sessions of one user: the rows of RefreshToken, and the operations  *)
(* that store, rotate, revoke and delete them (src/src/auth/auth.service,  *)
(* the restriction and deletion of users in src/src/module/admin).         *)
(*                                                                         *)
(* A Process is a request in flight on any node; its program counter names *)
(* the query it does next.  Every query is one action: nothing but the     *)
(* deletion of a user runs in a transaction.  Passwords and codes are      *)
(* checked against what a request has read, so a request that fails such a *)
(* check changes nothing here; what it does to the counters in Redis is    *)
(* the subject of AccountCodes.                                            *)
(***************************************************************************)
EXTENDS Naturals, FiniteSets

CONSTANTS
    Token,          \* the random strings of randomBytes(64)
    Process,
    MaxRequests,    \* bound: requests
    MaxCrashes,     \* bound: requests that die half way
    None

ASSUME SessionsAssumption ==
    /\ None \notin Token /\ IsFiniteSet(Process)
    /\ MaxRequests \in Nat /\ MaxCrashes \in Nat

VARIABLES
    exists, restricted,         \* the row of User
    changes,                    \* how often changePassword or resetPassword set its hash
    stored, revoked, expired,   \* the user's rows of RefreshToken
    pc, task,                   \* the next query of a process and what it holds
    requests, crashes,
    issued,                     \* tokens ever stored
    since,                      \* `changes` when the request that stored a token checked
    stray, ended,               \* see SessionsEnd and NobodyElseEndsIt
    heirs                       \* tokens stored by refreshes of a token

user    == <<exists, restricted, changes>>
rows    == <<stored, revoked, expired>>
process == <<pc, task>>
bounds  == <<requests, crashes>>
history == <<issued, since, stray, ended, heirs>>
vars == <<user, rows, process, bounds, history>>

Live == stored \ revoked

Place == {"idle", "rotating", "purging", "cleaning", "storing",
          "changing", "revoking", "deleting"}

\* `seen` is `changes` at the check; in "revoking", the number of the process' own change.
Task == [token : Token \cup {None}, seen : Nat]
Nothing == [token |-> None, seen |-> 0]

TypeOK ==
    /\ exists \in BOOLEAN /\ restricted \in BOOLEAN /\ changes \in Nat
    /\ stored \subseteq issued /\ revoked \subseteq stored /\ expired \subseteq stored
    /\ issued \subseteq Token
    /\ pc \in [Process -> Place]
    /\ task \in [Process -> Task]
    /\ \A p \in Process : task[p].seen <= changes
    /\ requests \in 0..MaxRequests /\ crashes \in 0..MaxCrashes
    /\ since \in [Token -> Nat] /\ \A t \in Token : since[t] <= changes
    /\ stray \subseteq Token /\ ended \subseteq Token
    /\ heirs \in [Token -> SUBSET issued]

Init ==
    /\ exists = TRUE /\ restricted = FALSE /\ changes = 0
    /\ stored = {} /\ revoked = {} /\ expired = {}
    /\ pc = [p \in Process |-> "idle"]
    /\ task = [p \in Process |-> Nothing]
    /\ requests = 0 /\ crashes = 0
    /\ issued = {} /\ since = [t \in Token |-> 0]
    /\ stray = {} /\ ended = {}
    /\ heirs = [t \in Token |-> {}]

Start(p, place, t) ==
    /\ pc[p] = "idle" /\ requests < MaxRequests
    /\ requests' = requests + 1
    /\ pc' = [pc EXCEPT ![p] = place]
    /\ task' = [task EXCEPT ![p] = [token |-> t, seen |-> changes]]
    /\ UNCHANGED <<user, rows, crashes, history>>

Goto(p, place) == pc' = [pc EXCEPT ![p] = place] /\ UNCHANGED task

\* The answer, or an exception that ends the request.
End(p) ==
    /\ pc' = [pc EXCEPT ![p] = "idle"]
    /\ task' = [task EXCEPT ![p] = Nothing]

-----------------------------------------------------------------------------
(* Requests that end in generateTokens *)

\* What JwtAuthGuard asks of the row before a request with an access token goes on.
ValidateUser == exists /\ ~restricted

\* The password matches the row that is read here.
Login(p) == exists /\ ~restricted /\ Start(p, "cleaning", None)

\* The profile is Google's; the restriction is looked up in the row read or updated.
GoogleLogin(p) == exists /\ ~restricted /\ Start(p, "cleaning", None)

\* The code matches; a restriction is not looked up.
VerifyEmailOtp(p) == exists /\ Start(p, "cleaning", None)

\* JwtAuthGuard has let the request through.  It may also set a password, and ends nothing.
CompleteProfile(p) == ValidateUser /\ Start(p, "cleaning", None)

\* The row that holds the token, and its user; a client presents what it was once given.
RefreshFind(p, t) ==
    /\ t \in Live
    /\ \/ t \in expired /\ Start(p, "purging", t)
       \/ t \notin expired /\ ~restricted /\ Start(p, "rotating", t)

\* An expired token is deleted, and refused.
RefreshPurge(p) ==
    LET t == task[p].token IN
    /\ pc[p] = "purging"
    /\ stored' = stored \ {t} /\ revoked' = revoked \ {t} /\ expired' = expired \ {t}
    /\ End(p)
    /\ UNCHANGED <<user, bounds, history>>

\* The update finds the row whatever has become of it meanwhile, unless it is gone (P2025).
RefreshRotate(p) ==
    LET t == task[p].token IN
    /\ pc[p] = "rotating"
    /\ IF t \in stored
       THEN /\ revoked' = revoked \cup {t}
            /\ ended' = ended \cup {t}
            /\ Goto(p, "cleaning")
       ELSE End(p) /\ UNCHANGED <<revoked, ended>>
    /\ UNCHANGED <<user, stored, expired, bounds, issued, since, stray, heirs>>

\* Mutant of Clean: one session per user.
CleanAll(p) ==
    /\ pc[p] = "cleaning"
    /\ stored' = {} /\ revoked' = {} /\ expired' = {}
    /\ Goto(p, "storing")
    /\ UNCHANGED <<user, bounds, history>>

\* generateTokens deletes the user's expired and revoked rows ...
Clean(p) ==
    /\ pc[p] = "cleaning"
    /\ stored' = stored \ (revoked \cup expired)
    /\ revoked' = {} /\ expired' = {}
    /\ Goto(p, "storing")
    /\ UNCHANGED <<user, bounds, history>>

\* ... and stores the new token; without a user the foreign key refuses it.
Store(p) ==
    LET old == task[p].token
        seen == task[p].seen IN
    /\ pc[p] = "storing"
    /\ \/ /\ exists
          /\ \E t \in Token \ issued :
                /\ stored' = stored \cup {t}
                /\ issued' = issued \cup {t}
                /\ since' = [since EXCEPT ![t] = seen]
                /\ stray' = IF seen < changes \/ restricted THEN stray \cup {t} ELSE stray
                /\ heirs' = IF old = None THEN heirs
                            ELSE [heirs EXCEPT ![old] = @ \cup {t}]
       \/ /\ ~exists
          /\ UNCHANGED <<stored, issued, since, stray, heirs>>
    /\ End(p)
    /\ UNCHANGED <<user, revoked, expired, bounds, ended>>

-----------------------------------------------------------------------------
(* Requests that end sessions *)

\* updateMany where token: nothing to await afterwards.
Logout(t) ==
    /\ t \in issued
    /\ revoked' = revoked \cup ({t} \cap stored)
    /\ ended' = ended \cup {t}
    /\ UNCHANGED <<user, stored, expired, process, bounds, issued, since, stray, heirs>>

\* The old password matches the row; the caller's session has been checked.
ChangePassword(p) == ValidateUser /\ Start(p, "changing", None)

\* The code matches.
ResetPassword(p) == exists /\ Start(p, "changing", None)

\* user.update; without a user it throws.
SetPassword(p) ==
    /\ pc[p] = "changing"
    /\ IF exists
       THEN /\ changes' = changes + 1
            /\ pc' = [pc EXCEPT ![p] = "revoking"]
            /\ task' = [task EXCEPT ![p].seen = changes + 1]
       ELSE End(p) /\ UNCHANGED changes
    /\ UNCHANGED <<exists, restricted, rows, bounds, history>>

\* Mutant of RevokeAll: the first session only.
RevokeOne(p) ==
    /\ pc[p] = "revoking"
    /\ \E t \in stored \cup {None} :
          /\ t = None => stored = {}
          /\ revoked' = revoked \cup ({t} \cap stored)
          /\ ended' = ended \cup ({t} \cap stored)
    /\ End(p)
    /\ UNCHANGED <<user, stored, expired, bounds, issued, since, stray, heirs>>

RevokeAll(p) ==
    /\ pc[p] = "revoking"
    /\ revoked' = stored
    /\ ended' = ended \cup stored
    /\ End(p)
    /\ UNCHANGED <<user, stored, expired, bounds, issued, since, stray, heirs>>

\* restrictUser sets the flag (without a user it throws), and then deletes the sessions.
RestrictUser(p) ==
    /\ exists
    /\ pc[p] = "idle" /\ requests < MaxRequests
    /\ restricted' = TRUE
    /\ requests' = requests + 1
    /\ pc' = [pc EXCEPT ![p] = "deleting"]
    /\ UNCHANGED <<exists, changes, rows, task, crashes, history>>

DeleteSessions(p) ==
    /\ pc[p] = "deleting"
    /\ stored' = {} /\ revoked' = {} /\ expired' = {}
    /\ ended' = ended \cup stored
    /\ End(p)
    /\ UNCHANGED <<user, bounds, issued, since, stray, heirs>>

Unrestrict ==
    /\ exists /\ requests < MaxRequests
    /\ restricted' = FALSE
    /\ requests' = requests + 1
    /\ UNCHANGED <<exists, changes, rows, process, crashes, history>>

\* The transaction of deleteUser; the foreign key takes rows that are being inserted.
DeleteUser ==
    /\ exists /\ requests < MaxRequests
    /\ exists' = FALSE
    /\ requests' = requests + 1
    /\ stored' = {} /\ revoked' = {} /\ expired' = {}
    /\ ended' = ended \cup stored
    /\ UNCHANGED <<restricted, changes, process, crashes, issued, since, stray, heirs>>

-----------------------------------------------------------------------------
(* Time and failures *)

\* expiresAt passes.
Expire(t) ==
    /\ t \in stored \ expired
    /\ expired' = expired \cup {t}
    /\ ended' = ended \cup {t}
    /\ UNCHANGED <<user, stored, revoked, process, bounds, issued, since, stray, heirs>>

\* The cron job of 2:00.
CleanupExpiredTokens ==
    /\ stored' = stored \ expired
    /\ revoked' = revoked \ expired
    /\ expired' = {}
    /\ UNCHANGED <<user, process, bounds, history>>

\* A node stops or a query fails between two steps.
Crash(p) ==
    /\ pc[p] # "idle" /\ crashes < MaxCrashes
    /\ crashes' = crashes + 1
    /\ stray' = IF pc[p] \in {"revoking", "deleting"} THEN stray \cup stored ELSE stray
    /\ End(p)
    /\ UNCHANGED <<user, rows, requests, issued, since, ended, heirs>>

Entering(p) == Login(p) \/ GoogleLogin(p)

Proving(p) == VerifyEmailOtp(p) \/ CompleteProfile(p)

Refreshing(p) ==
    (\E t \in Token : RefreshFind(p, t)) \/ RefreshPurge(p) \/ RefreshRotate(p)

Issuing(p) == Entering(p) \/ Proving(p) \/ Refreshing(p) \/ Clean(p) \/ Store(p)

Ending(p) == ChangePassword(p) \/ ResetPassword(p) \/ SetPassword(p) \/ RevokeAll(p)

Administering ==
    \/ \E p \in Process : RestrictUser(p) \/ DeleteSessions(p)
    \/ Unrestrict \/ DeleteUser

Next ==
    \/ \E p \in Process : Issuing(p) \/ Ending(p) \/ Crash(p)
    \/ \E t \in Token : Logout(t) \/ Expire(t)
    \/ Administering \/ CleanupExpiredTokens

Spec == Init /\ [][Next]_vars

-----------------------------------------------------------------------------
(* Properties *)

\* A change or reset of the password, a restriction and a deletion end every session:
\* what is still live was stored by a request that checked after the change, or the
\* process that changes or restricts has yet to come to it.  `stray` are the sessions the
\* code misses: those of a request that had passed its check (or, for a code, makes none),
\* and those a process that died between its two steps has left.
SessionsEnd ==
    \A t \in Live \ stray :
        /\ exists
        /\ since[t] < changes =>
              \E p \in Process : pc[p] = "revoking" /\ since[t] < task[p].seen
        /\ restricted => \E p \in Process : pc[p] = "deleting"

\* A session that has not ended itself (by its logout, its refresh, its expiry, or one of
\* the requests that end all) is live: the clean-up that every login and every refresh
\* does, on any device, takes away no other's session.
NobodyElseEndsIt == issued \ ended \subseteq Live

\* The rotation: a refresh token buys at most as many new ones as there can be refreshes
\* in flight that have all found it before the first of them revoked it.  The documents
\* promise one (docs/auth/README.md, "Token Rotation Security"), and nothing in the code
\* keeps two overlapping refreshes from getting one each (741-790).
RotationBounded == \A t \in Token : Cardinality(heirs[t]) <= Cardinality(Process)
=============================================================================
