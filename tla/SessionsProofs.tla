---------------------------- MODULE SessionsProofs ----------------------------
(***************************************************************************)
(* What holds of the sessions for every number of tokens, processes,       *)
(* requests and crashes.                                                   *)
(***************************************************************************)
EXTENDS Sessions, TLAPS, FiniteSetTheorems

-----------------------------------------------------------------------------
(* Types *)

\* The steps that begin and end a request.
LEMMA StartType ==
    ASSUME TypeOK, NEW p \in Process, NEW place \in Place, NEW t \in Token \cup {None},
           Start(p, place, t)
    PROVE  TypeOK'
  <1>1. task' \in [Process -> Task] BY DEF TypeOK, Start, Task
  <1>2. pc' \in [Process -> Place] BY DEF TypeOK, Start
  <1>3. requests' \in 0..MaxRequests BY SessionsAssumption DEF TypeOK, Start, SessionsAssumption
  <1>4. \A q \in Process : task'[q].seen <= changes' BY DEF TypeOK, Start, user, Task
  <1> QED BY <1>1, <1>2, <1>3, <1>4 DEF TypeOK, Start, user, rows, history

LEMMA EndType ==
    ASSUME TypeOK, NEW p \in Process, End(p)
    PROVE  /\ pc' \in [Process -> Place]
           /\ task' \in [Process -> Task]
           /\ \A q \in Process : task'[q].seen <= changes
  BY DEF TypeOK, End, Place, Task, Nothing

LEMMA GotoType ==
    ASSUME TypeOK, NEW p \in Process, NEW place \in Place, Goto(p, place)
    PROVE  /\ pc' \in [Process -> Place]
           /\ task' = task
  BY DEF TypeOK, Goto

\* Every step keeps the types.
LEMMA TypeStep == TypeOK /\ [Next]_vars => TypeOK'
  <1> SUFFICES ASSUME TypeOK, [Next]_vars PROVE TypeOK'
    OBVIOUS
  <1>1. ASSUME NEW p \in Process, Entering(p) PROVE TypeOK'
    BY <1>1, StartType DEF Entering, Login, GoogleLogin, Place
  <1>2. ASSUME NEW p \in Process, Proving(p) PROVE TypeOK'
    BY <1>2, StartType DEF Proving, VerifyEmailOtp, CompleteProfile, Place
  <1>3. ASSUME NEW p \in Process, NEW t \in Token, RefreshFind(p, t) PROVE TypeOK'
    BY <1>3, StartType DEF RefreshFind, Place
  <1>4. ASSUME NEW p \in Process, RefreshPurge(p) PROVE TypeOK'
    BY <1>4, EndType DEF RefreshPurge, TypeOK, user, bounds, history
  <1>5. ASSUME NEW p \in Process, RefreshRotate(p) PROVE TypeOK'
    <2>1. CASE task[p].token \in stored
      BY <1>5, <2>1, GotoType DEF RefreshRotate, TypeOK, user, bounds, Place
    <2>2. CASE task[p].token \notin stored
      BY <1>5, <2>2, EndType DEF RefreshRotate, TypeOK, user, bounds
    <2> QED BY <2>1, <2>2
  <1>6. ASSUME NEW p \in Process, Clean(p) PROVE TypeOK'
    BY <1>6, GotoType DEF Clean, TypeOK, user, bounds, history, Place
  <1>7. ASSUME NEW p \in Process, Store(p) PROVE TypeOK'
    <2>1. /\ pc' \in [Process -> Place]
          /\ task' \in [Process -> Task]
          /\ \A q \in Process : task'[q].seen <= changes
      BY <1>7, EndType DEF Store
    <2>2. task[p].seen \in Nat /\ task[p].seen <= changes BY DEF TypeOK, Task
    <2> QED BY <1>7, <2>1, <2>2 DEF Store, TypeOK, user, bounds
  <1>8. ASSUME NEW t \in Token, Logout(t) PROVE TypeOK'
    BY <1>8 DEF Logout, TypeOK, user, process, bounds
  <1>9. ASSUME NEW p \in Process, ChangePassword(p) \/ ResetPassword(p) PROVE TypeOK'
    BY <1>9, StartType DEF ChangePassword, ResetPassword, Place
  <1>10. ASSUME NEW p \in Process, SetPassword(p) PROVE TypeOK'
    <2>1. CASE exists
      <3>1. changes' = changes + 1 /\ changes' \in Nat BY <1>10, <2>1 DEF SetPassword, TypeOK
      <3>2. task' \in [Process -> Task] /\ \A q \in Process : task'[q].seen <= changes'
        BY <1>10, <2>1, <3>1 DEF SetPassword, TypeOK, Task
      <3> QED BY <1>10, <2>1, <3>1, <3>2 DEF SetPassword, TypeOK, Place, rows, bounds, history
    <2>2. CASE ~exists
      BY <1>10, <2>2, EndType DEF SetPassword, TypeOK, rows, bounds, history
    <2> QED BY <2>1, <2>2
  <1>11. ASSUME NEW p \in Process, RevokeAll(p) PROVE TypeOK'
    BY <1>11, EndType DEF RevokeAll, TypeOK, user, bounds
  <1>12. ASSUME NEW p \in Process, RestrictUser(p) PROVE TypeOK'
    <2>1. requests' \in 0..MaxRequests
      BY <1>12, SessionsAssumption DEF RestrictUser, TypeOK, SessionsAssumption
    <2> QED BY <1>12, <2>1 DEF RestrictUser, TypeOK, Place, rows, history
  <1>13. ASSUME NEW p \in Process, DeleteSessions(p) PROVE TypeOK'
    BY <1>13, EndType DEF DeleteSessions, TypeOK, user, bounds
  <1>14. ASSUME Unrestrict PROVE TypeOK'
    <2>1. requests' \in 0..MaxRequests
      BY <1>14, SessionsAssumption DEF Unrestrict, TypeOK, SessionsAssumption
    <2> QED BY <1>14, <2>1 DEF Unrestrict, TypeOK, rows, process, history
  <1>15. ASSUME DeleteUser PROVE TypeOK'
    <2>1. requests' \in 0..MaxRequests
      BY <1>15, SessionsAssumption DEF DeleteUser, TypeOK, SessionsAssumption
    <2> QED BY <1>15, <2>1 DEF DeleteUser, TypeOK, process
  <1>16. ASSUME NEW t \in Token, Expire(t) PROVE TypeOK'
    BY <1>16 DEF Expire, TypeOK, user, process, bounds
  <1>17. ASSUME CleanupExpiredTokens PROVE TypeOK'
    BY <1>17 DEF CleanupExpiredTokens, TypeOK, user, process, bounds, history
  <1>18. ASSUME NEW p \in Process, Crash(p) PROVE TypeOK'
    <2>1. crashes' \in 0..MaxCrashes
      BY <1>18, SessionsAssumption DEF Crash, TypeOK, SessionsAssumption
    <2> QED BY <1>18, <2>1, EndType DEF Crash, TypeOK, user, rows
  <1>19. CASE UNCHANGED vars
    BY <1>19 DEF vars, user, rows, process, bounds, history, TypeOK
  <1> QED
    BY <1>1, <1>2, <1>3, <1>4, <1>5, <1>6, <1>7, <1>8, <1>9, <1>10, <1>11, <1>12, <1>13,
       <1>14, <1>15, <1>16, <1>17, <1>18, <1>19
    DEF Next, Issuing, Refreshing, Ending, Administering

LEMMA TypeInit == Init => TypeOK
  <1> SUFFICES ASSUME Init PROVE TypeOK
    OBVIOUS
  <1>1. pc \in [Process -> Place] /\ task \in [Process -> Task]
    BY DEF Init, Place, Task, Nothing
  <1>2. \A p \in Process : task[p].seen <= changes BY DEF Init, Nothing
  <1>3. requests \in 0..MaxRequests /\ crashes \in 0..MaxCrashes
    BY SessionsAssumption DEF Init, SessionsAssumption
  <1>4. since \in [Token -> Nat] /\ \A t \in Token : since[t] <= changes BY DEF Init
  <1>5. heirs \in [Token -> SUBSET issued] BY DEF Init
  <1> QED BY <1>1, <1>2, <1>3, <1>4, <1>5 DEF Init, TypeOK

\* The sessions' variables keep their types: what is revoked or expired is stored, and
\* no request has seen a change of the password that is still to come.
THEOREM TypeCorrect == Spec => []TypeOK
  BY TypeInit, TypeStep, PTL DEF Spec

-----------------------------------------------------------------------------
(* Everything ends, and by itself *)

\* A step that adds no session and ends at most some keeps SessionsEnd, unless it
\* touches the user or the processes that SessionsEnd waits for.
LEMMA FewerSessions ==
    ASSUME SessionsEnd,
           Live' \subseteq Live, stray' = stray, since' = since,
           UNCHANGED user,
           \A p \in Process : pc[p] \in {"revoking", "deleting"}
                              => pc'[p] = pc[p] /\ task'[p] = task[p]
    PROVE  SessionsEnd'
  BY DEF SessionsEnd, user

LEMMA EndStep == TypeOK /\ TypeOK' /\ SessionsEnd /\ [Next]_vars => SessionsEnd'
  <1> SUFFICES ASSUME TypeOK, TypeOK', SessionsEnd, [Next]_vars PROVE SessionsEnd'
    OBVIOUS
  <1> USE DEF TypeOK
  <1>0. ASSUME NEW p \in Process, NEW place, NEW t, Start(p, place, t) PROVE SessionsEnd'
    BY <1>0, FewerSessions DEF Start, rows, history, Live
  <1>1. ASSUME NEW p \in Process, Entering(p) PROVE SessionsEnd'
    BY <1>1, <1>0 DEF Entering, Login, GoogleLogin
  <1>2. ASSUME NEW p \in Process, Proving(p) PROVE SessionsEnd'
    BY <1>2, <1>0 DEF Proving, VerifyEmailOtp, CompleteProfile
  <1>3. ASSUME NEW p \in Process, NEW t \in Token, RefreshFind(p, t) PROVE SessionsEnd'
    BY <1>3, <1>0 DEF RefreshFind
  <1>4. ASSUME NEW p \in Process, RefreshPurge(p) PROVE SessionsEnd'
    BY <1>4, FewerSessions DEF RefreshPurge, End, history, Live
  <1>5. ASSUME NEW p \in Process, RefreshRotate(p) PROVE SessionsEnd'
    BY <1>5, FewerSessions DEF RefreshRotate, End, Goto, Live
  <1>6. ASSUME NEW p \in Process, Clean(p) PROVE SessionsEnd'
    BY <1>6, FewerSessions DEF Clean, Goto, history, Live
  <1>7. ASSUME NEW p \in Process, Store(p) PROVE SessionsEnd'
    <2>1. CASE ~exists
      BY <1>7, <2>1, FewerSessions DEF Store, End, Live
    <2>2. CASE exists
      <3>1. PICK t \in Token \ issued :
               /\ stored' = stored \cup {t}
               /\ since' = [since EXCEPT ![t] = task[p].seen]
               /\ stray' = IF task[p].seen < changes \/ restricted
                           THEN stray \cup {t} ELSE stray
        BY <1>7, <2>2 DEF Store
      <3>2. \A q \in Process : pc[q] \in {"revoking", "deleting"}
                               => pc'[q] = pc[q] /\ task'[q] = task[q]
        BY <1>7 DEF Store, End
      <3>3. ASSUME NEW s \in Live' \ stray'
            PROVE  /\ exists'
                   /\ since'[s] < changes' =>
                         \E q \in Process : pc'[q] = "revoking" /\ since'[s] < task'[q].seen
                   /\ restricted' => \E q \in Process : pc'[q] = "deleting"
        <4>1. CASE s = t
          <5>1. ~(task[p].seen < changes) /\ ~restricted /\ since'[t] = task[p].seen
            BY <3>1, <3>3, <4>1
          <5> QED BY <1>7, <2>2, <4>1, <5>1 DEF Store, user
        <4>2. CASE s # t
          <5>1. s \in Live \ stray /\ since'[s] = since[s]
            BY <1>7, <3>1, <3>3, <4>2 DEF Store, Live
          <5> QED BY <1>7, <2>2, <3>2, <5>1 DEF Store, user, SessionsEnd
        <4> QED BY <4>1, <4>2
      <3> QED BY <3>3 DEF SessionsEnd
    <2> QED BY <2>1, <2>2
  <1>8. ASSUME NEW t \in Token, Logout(t) PROVE SessionsEnd'
    BY <1>8, FewerSessions DEF Logout, process, Live
  <1>9. ASSUME NEW p \in Process, ChangePassword(p) \/ ResetPassword(p) PROVE SessionsEnd'
    BY <1>9, <1>0 DEF ChangePassword, ResetPassword
  <1>10. ASSUME NEW p \in Process, SetPassword(p) PROVE SessionsEnd'
    <2>1. CASE exists
      <3>1. changes' = changes + 1 /\ pc'[p] = "revoking" /\ task'[p].seen = changes + 1
        BY <1>10, <2>1 DEF SetPassword, Task
      <3>2. \A t \in Live' \ stray' : since'[t] <= changes
        BY <1>10 DEF SetPassword, Live, rows, history
      <3>3. \A q \in Process : pc[q] = "deleting" => pc'[q] = "deleting"
        BY <1>10 DEF SetPassword, End
      <3> QED BY <1>10, <2>1, <3>1, <3>2, <3>3 DEF SetPassword, SessionsEnd, rows, history, Live
    <2>2. CASE ~exists
      BY <1>10, <2>2, FewerSessions DEF SetPassword, End, user, rows, history, Live
    <2> QED BY <2>1, <2>2
  <1>11. ASSUME NEW p \in Process, RevokeAll(p) PROVE SessionsEnd'
    BY <1>11 DEF RevokeAll, SessionsEnd, Live
  <1>12. ASSUME NEW p \in Process, RestrictUser(p) PROVE SessionsEnd'
    BY <1>12 DEF RestrictUser, SessionsEnd, Live, rows, history
  <1>13. ASSUME NEW p \in Process, DeleteSessions(p) PROVE SessionsEnd'
    BY <1>13 DEF DeleteSessions, SessionsEnd, Live
  <1>14. ASSUME Unrestrict PROVE SessionsEnd'
    BY <1>14 DEF Unrestrict, SessionsEnd, Live, rows, process, history
  <1>15. ASSUME DeleteUser PROVE SessionsEnd'
    BY <1>15 DEF DeleteUser, SessionsEnd, Live
  <1>16. ASSUME NEW t \in Token, Expire(t) PROVE SessionsEnd'
    BY <1>16, FewerSessions DEF Expire, process, Live
  <1>17. ASSUME CleanupExpiredTokens PROVE SessionsEnd'
    BY <1>17, FewerSessions DEF CleanupExpiredTokens, process, history, Live
  <1>18. ASSUME NEW p \in Process, Crash(p) PROVE SessionsEnd'
    <2>1. CASE pc[p] \in {"revoking", "deleting"}
      BY <1>18, <2>1 DEF Crash, SessionsEnd, Live, rows
    <2>2. CASE pc[p] \notin {"revoking", "deleting"}
      BY <1>18, <2>2, FewerSessions DEF Crash, End, rows, Live
    <2> QED BY <2>1, <2>2
  <1>19. CASE UNCHANGED vars
    BY <1>19, FewerSessions DEF vars, rows, process, history, Live
  <1> QED
    BY <1>1, <1>2, <1>3, <1>4, <1>5, <1>6, <1>7, <1>8, <1>9, <1>10, <1>11, <1>12, <1>13,
       <1>14, <1>15, <1>16, <1>17, <1>18, <1>19
    DEF Next, Issuing, Refreshing, Ending, Administering

\* A change or reset of the password, a restriction and a deletion end every session
\* but those the model names as missed, with any number of requests in flight.
THEOREM SessionsEndCorrect == Spec => []SessionsEnd
  <1>1. Init => SessionsEnd BY DEF Init, SessionsEnd, Live
  <1> QED BY <1>1, TypeInit, TypeStep, EndStep, PTL DEF Spec

\* What is revoked, has expired, or is about to be purged has ended.
EndedWell ==
    /\ revoked \cup expired \subseteq ended
    /\ \A p \in Process : pc[p] = "purging" => task[p].token \in ended
    /\ NobodyElseEndsIt

LEMMA EndedStep == TypeOK /\ EndedWell /\ [Next]_vars => EndedWell'
  <1> SUFFICES ASSUME TypeOK, EndedWell, [Next]_vars PROVE EndedWell'
    OBVIOUS
  <1> USE DEF TypeOK, EndedWell, NobodyElseEndsIt, Live
  <1>0. ASSUME NEW p \in Process, NEW place, NEW t, Start(p, place, t),
               place = "purging" => t \in ended
        PROVE  EndedWell'
    BY <1>0 DEF Start, rows, history
  <1>1. ASSUME NEW p \in Process, Entering(p) PROVE EndedWell'
    BY <1>1, <1>0 DEF Entering, Login, GoogleLogin
  <1>2. ASSUME NEW p \in Process, Proving(p) PROVE EndedWell'
    BY <1>2, <1>0 DEF Proving, VerifyEmailOtp, CompleteProfile
  <1>3. ASSUME NEW p \in Process, NEW t \in Token, RefreshFind(p, t) PROVE EndedWell'
    BY <1>3, <1>0 DEF RefreshFind
  <1>4. ASSUME NEW p \in Process, RefreshPurge(p) PROVE EndedWell'
    BY <1>4 DEF RefreshPurge, End, history
  <1>5. ASSUME NEW p \in Process, RefreshRotate(p) PROVE EndedWell'
    BY <1>5 DEF RefreshRotate, End, Goto
  <1>6. ASSUME NEW p \in Process, Clean(p) PROVE EndedWell'
    BY <1>6 DEF Clean, Goto, history
  <1>7. ASSUME NEW p \in Process, Store(p) PROVE EndedWell'
    BY <1>7 DEF Store, End
  <1>8. ASSUME NEW t \in Token, Logout(t) PROVE EndedWell'
    BY <1>8 DEF Logout, process
  <1>9. ASSUME NEW p \in Process, ChangePassword(p) \/ ResetPassword(p) PROVE EndedWell'
    BY <1>9, <1>0 DEF ChangePassword, ResetPassword
  <1>10. ASSUME NEW p \in Process, SetPassword(p) PROVE EndedWell'
    BY <1>10 DEF SetPassword, End, rows, history
  <1>11. ASSUME NEW p \in Process, RevokeAll(p) PROVE EndedWell'
    BY <1>11 DEF RevokeAll, End
  <1>12. ASSUME NEW p \in Process, RestrictUser(p) PROVE EndedWell'
    BY <1>12 DEF RestrictUser, rows, history
  <1>13. ASSUME NEW p \in Process, DeleteSessions(p) PROVE EndedWell'
    BY <1>13 DEF DeleteSessions, End
  <1>14. ASSUME Unrestrict PROVE EndedWell'
    BY <1>14 DEF Unrestrict, rows, process, history
  <1>15. ASSUME DeleteUser PROVE EndedWell'
    BY <1>15 DEF DeleteUser, process
  <1>16. ASSUME NEW t \in Token, Expire(t) PROVE EndedWell'
    BY <1>16 DEF Expire, process
  <1>17. ASSUME CleanupExpiredTokens PROVE EndedWell'
    BY <1>17 DEF CleanupExpiredTokens, process, history
  <1>18. ASSUME NEW p \in Process, Crash(p) PROVE EndedWell'
    BY <1>18 DEF Crash, End, rows
  <1>19. CASE UNCHANGED vars
    BY <1>19 DEF vars, rows, process, history
  <1> QED
    BY <1>1, <1>2, <1>3, <1>4, <1>5, <1>6, <1>7, <1>8, <1>9, <1>10, <1>11, <1>12, <1>13,
       <1>14, <1>15, <1>16, <1>17, <1>18, <1>19
    DEF Next, Issuing, Refreshing, Ending, Administering

\* The clean-up of a login or a refresh deletes only sessions that have ended.
THEOREM NobodyElseEndsItCorrect == Spec => []NobodyElseEndsIt
  <1>1. Init => EndedWell BY DEF Init, EndedWell, NobodyElseEndsIt, Live
  <1>2. EndedWell => NobodyElseEndsIt BY DEF EndedWell
  <1> QED BY <1>1, <1>2, TypeInit, TypeStep, EndedStep, PTL DEF Spec

-----------------------------------------------------------------------------
(* The rotation *)

\* The requests that hold a token they have found, to revoke it or in exchange for it.
Holders(t) ==
    {p \in Process : pc[p] \in {"rotating", "cleaning", "storing"} /\ task[p].token = t}

\* A token that has been exchanged, or is past its revocation, never is live again;
\* until then all that hold it are requests that found it.
Spent ==
    /\ \A p \in Process : pc[p] \in {"rotating", "purging"} => task[p].token \in issued
    /\ \A p \in Process :
          pc[p] \in {"cleaning", "storing"} => task[p].token \in (issued \ Live) \cup {None}
    /\ \A t \in Token : heirs[t] # {} => t \in issued \ Live

\* Whoever holds a token may yet store one for it.
Bounded ==
    \A t \in Token : /\ IsFiniteSet(heirs[t])
                     /\ Cardinality(heirs[t]) + Cardinality(Holders(t)) <= Cardinality(Process)

LEMMA HoldersFinite ==
    ASSUME NEW t
    PROVE  /\ IsFiniteSet(Holders(t)) /\ Cardinality(Holders(t)) \in Nat
           /\ Cardinality(Process) \in Nat
           /\ Cardinality(Holders(t)) <= Cardinality(Process)
  <1>1. Holders(t) \in SUBSET Process BY DEF Holders
  <1>2. IsFiniteSet(Process) BY SessionsAssumption DEF SessionsAssumption
  <1> QED BY <1>1, <1>2, FS_Subset, FS_CardinalityType

LEMMA AtMostOneMore ==
    ASSUME NEW S, NEW x, IsFiniteSet(S)
    PROVE  /\ IsFiniteSet(S \cup {x})
           /\ \/ Cardinality(S \cup {x}) = Cardinality(S)
              \/ Cardinality(S \cup {x}) = Cardinality(S) + 1
  BY FS_AddElement

\* Only the refreshes that find a token add a holder, and only what they store an heir.
LEMMA FewerHolders ==
    ASSUME Bounded, heirs' = heirs,
           NEW t \in Token, Holders(t)' \subseteq Holders(t)
    PROVE  /\ IsFiniteSet(heirs'[t])
           /\ Cardinality(heirs'[t]) + Cardinality(Holders(t)') <= Cardinality(Process)
  <1>1. Holders(t)' \in SUBSET Holders(t) OBVIOUS
  <1>2. /\ Cardinality(Holders(t)') <= Cardinality(Holders(t))
        /\ IsFiniteSet(Holders(t)')
    BY <1>1, HoldersFinite, FS_Subset
  <1>3. IsFiniteSet(heirs[t]) /\ Cardinality(heirs[t]) \in Nat
    BY FS_CardinalityType DEF Bounded
  <1>4. Cardinality(Holders(t)') \in Nat BY <1>2, FS_CardinalityType
  <1> QED BY <1>2, <1>3, <1>4, HoldersFinite DEF Bounded

LEMMA SpentStep == TypeOK /\ Spent /\ [Next]_vars => Spent'
  <1> SUFFICES ASSUME TypeOK, Spent, [Next]_vars PROVE Spent'
    OBVIOUS
  <1> USE SessionsAssumption DEF TypeOK, Spent, Live, SessionsAssumption
  <1>0. ASSUME NEW p \in Process, NEW place, NEW t \in issued \cup {None},
               Start(p, place, t),
               place \in {"rotating", "purging"} => t \in issued,
               place \in {"cleaning", "storing"} => t = None
        PROVE  Spent'
    BY <1>0 DEF Start, rows, history
  <1>1. ASSUME NEW p \in Process, Entering(p) PROVE Spent'
    BY <1>1, <1>0 DEF Entering, Login, GoogleLogin
  <1>2. ASSUME NEW p \in Process, Proving(p) PROVE Spent'
    BY <1>2, <1>0 DEF Proving, VerifyEmailOtp, CompleteProfile
  <1>3. ASSUME NEW p \in Process, NEW t \in Token, RefreshFind(p, t) PROVE Spent'
    BY <1>3, <1>0 DEF RefreshFind
  <1>4. ASSUME NEW p \in Process, RefreshPurge(p) PROVE Spent'
    BY <1>4 DEF RefreshPurge, End, history
  <1>5. ASSUME NEW p \in Process, RefreshRotate(p) PROVE Spent'
    BY <1>5 DEF RefreshRotate, End, Goto
  <1>6. ASSUME NEW p \in Process, Clean(p) PROVE Spent'
    BY <1>6 DEF Clean, Goto, history
  <1>7. ASSUME NEW p \in Process, Store(p) PROVE Spent'
    BY <1>7 DEF Store, End, Task
  <1>8. ASSUME NEW t \in Token, Logout(t) PROVE Spent'
    BY <1>8 DEF Logout, process
  <1>9. ASSUME NEW p \in Process, ChangePassword(p) \/ ResetPassword(p) PROVE Spent'
    BY <1>9, <1>0 DEF ChangePassword, ResetPassword
  <1>10. ASSUME NEW p \in Process, SetPassword(p) PROVE Spent'
    BY <1>10 DEF SetPassword, End, rows, history
  <1>11. ASSUME NEW p \in Process, RevokeAll(p) PROVE Spent'
    BY <1>11 DEF RevokeAll, End
  <1>12. ASSUME NEW p \in Process, RestrictUser(p) PROVE Spent'
    BY <1>12 DEF RestrictUser, rows, history
  <1>13. ASSUME NEW p \in Process, DeleteSessions(p) PROVE Spent'
    BY <1>13 DEF DeleteSessions, End
  <1>14. ASSUME Unrestrict PROVE Spent'
    BY <1>14 DEF Unrestrict, rows, process, history
  <1>15. ASSUME DeleteUser PROVE Spent'
    BY <1>15 DEF DeleteUser, process
  <1>16. ASSUME NEW t \in Token, Expire(t) PROVE Spent'
    BY <1>16 DEF Expire, process
  <1>17. ASSUME CleanupExpiredTokens PROVE Spent'
    BY <1>17 DEF CleanupExpiredTokens, process, history
  <1>18. ASSUME NEW p \in Process, Crash(p) PROVE Spent'
    BY <1>18 DEF Crash, End, rows
  <1>19. CASE UNCHANGED vars
    BY <1>19 DEF vars, rows, process, history
  <1> QED
    BY <1>1, <1>2, <1>3, <1>4, <1>5, <1>6, <1>7, <1>8, <1>9, <1>10, <1>11, <1>12, <1>13,
       <1>14, <1>15, <1>16, <1>17, <1>18, <1>19
    DEF Next, Issuing, Refreshing, Ending, Administering

\* A step that adds no holder and no heir keeps the bound.
LEMMA NoNewHolder ==
    ASSUME Bounded, heirs' = heirs,
           \A t \in Token : Holders(t)' \subseteq Holders(t)
    PROVE  Bounded'
  BY FewerHolders DEF Bounded

LEMMA BoundedStep == TypeOK /\ Spent /\ Bounded /\ [Next]_vars => Bounded'
  <1> SUFFICES ASSUME TypeOK, Spent, Bounded, [Next]_vars PROVE Bounded'
    OBVIOUS
  <1> USE SessionsAssumption DEF TypeOK, Holders, SessionsAssumption
  <1>0. ASSUME NEW p \in Process, NEW place, NEW t, Start(p, place, t),
               place = "rotating" => t \in Live,
               place \in {"cleaning", "storing"} => t = None
        PROVE  Bounded'
    <2>1. ASSUME NEW s \in Token
          PROVE  /\ IsFiniteSet(heirs'[s])
                 /\ Cardinality(heirs'[s]) + Cardinality(Holders(s)') <= Cardinality(Process)
      <3>1. CASE place = "rotating" /\ s = t
        <4>1. heirs'[s] = {} BY <1>0, <3>1 DEF Start, history, Spent
        <4>2. IsFiniteSet(heirs'[s]) /\ Cardinality(heirs'[s]) = 0 BY <4>1, FS_EmptySet
        <4>3. Holders(s)' \in SUBSET Process OBVIOUS
        <4>4. /\ Cardinality(Holders(s)') <= Cardinality(Process)
              /\ Cardinality(Holders(s)') \in Nat
          BY <4>3, FS_Subset, FS_CardinalityType
        <4> HIDE DEF Holders
        <4> QED BY <4>2, <4>4, HoldersFinite
      <3>2. CASE ~(place = "rotating" /\ s = t)
        <4>1. Holders(s)' \subseteq Holders(s) BY <1>0, <3>2 DEF Start
        <4>2. heirs' = heirs BY <1>0 DEF Start, history
        <4> HIDE DEF Holders
        <4> QED BY <4>1, <4>2, FewerHolders
      <3> QED BY <3>1, <3>2
    <2> HIDE DEF Holders
    <2> QED BY <2>1 DEF Bounded
  <1>1. ASSUME NEW p \in Process, Entering(p) PROVE Bounded'
    BY <1>1, <1>0 DEF Entering, Login, GoogleLogin
  <1>2. ASSUME NEW p \in Process, Proving(p) PROVE Bounded'
    BY <1>2, <1>0 DEF Proving, VerifyEmailOtp, CompleteProfile
  <1>3. ASSUME NEW p \in Process, NEW t \in Token, RefreshFind(p, t) PROVE Bounded'
    BY <1>3, <1>0 DEF RefreshFind
  <1>4. ASSUME NEW p \in Process, RefreshPurge(p) PROVE Bounded'
    <2>1. heirs' = heirs /\ \A s \in Token : Holders(s)' \subseteq Holders(s)
      BY <1>4 DEF RefreshPurge, End, history
    <2> HIDE DEF Holders
    <2> QED BY <2>1, NoNewHolder
  <1>5. ASSUME NEW p \in Process, RefreshRotate(p) PROVE Bounded'
    <2>1. heirs' = heirs /\ \A s \in Token : Holders(s)' \subseteq Holders(s)
      BY <1>5 DEF RefreshRotate, End, Goto, history
    <2> HIDE DEF Holders
    <2> QED BY <2>1, NoNewHolder
  <1>6. ASSUME NEW p \in Process, Clean(p) PROVE Bounded'
    <2>1. heirs' = heirs /\ \A s \in Token : Holders(s)' \subseteq Holders(s)
      BY <1>6 DEF Clean, Goto, history
    <2> HIDE DEF Holders
    <2> QED BY <2>1, NoNewHolder
  <1>7. ASSUME NEW p \in Process, Store(p) PROVE Bounded'
    <2>1. CASE ~exists \/ task[p].token = None
      <3>1. heirs' = heirs /\ \A t \in Token : Holders(t)' \subseteq Holders(t)
        BY <1>7, <2>1 DEF Store, End
      <3> HIDE DEF Holders
      <3> QED BY <3>1, NoNewHolder
    <2>2. CASE exists /\ task[p].token # None
      <3> DEFINE old == task[p].token
      <3>1. PICK x \in Token : heirs' = [heirs EXCEPT ![old] = @ \cup {x}]
        BY <1>7, <2>2 DEF Store
      <3>2. old \in Token BY <2>2 DEF Task
      <3>3. ASSUME NEW s \in Token
            PROVE  /\ IsFiniteSet(heirs'[s])
                   /\ Cardinality(heirs'[s]) + Cardinality(Holders(s)') <= Cardinality(Process)
        <4>1. CASE s = old
          <5>1. heirs'[s] = heirs[s] \cup {x} BY <3>1, <3>2, <4>1
          <5>2. p \in Holders(s) /\ Holders(s)' = Holders(s) \ {p}
            BY <1>7, <4>1 DEF Store, End
          <5> HIDE DEF Holders
          <5>3. Cardinality(Holders(s)') = Cardinality(Holders(s)) - 1
            BY <5>2, HoldersFinite, FS_RemoveElement
          <5>4. IsFiniteSet(heirs[s]) /\ Cardinality(heirs[s]) \in Nat
            BY FS_CardinalityType DEF Bounded
          <5>5. /\ IsFiniteSet(heirs[s] \cup {x})
                /\ \/ Cardinality(heirs[s] \cup {x}) = Cardinality(heirs[s])
                   \/ Cardinality(heirs[s] \cup {x}) = Cardinality(heirs[s]) + 1
            BY ONLY <5>4, AtMostOneMore
          <5> QED BY <5>1, <5>3, <5>4, <5>5, HoldersFinite DEF Bounded
        <4>2. CASE s # old
          <5>1. heirs'[s] = heirs[s] BY <3>1, <4>2
          <5>2. Holders(s)' \in SUBSET Holders(s) BY <1>7 DEF Store, End
          <5> HIDE DEF Holders
          <5>3. Cardinality(Holders(s)') <= Cardinality(Holders(s)) /\ IsFiniteSet(Holders(s)')
            BY <5>2, HoldersFinite, FS_Subset
          <5>4. Cardinality(Holders(s)') \in Nat BY <5>3, FS_CardinalityType
          <5>5. IsFiniteSet(heirs[s]) /\ Cardinality(heirs[s]) \in Nat
            BY FS_CardinalityType DEF Bounded
          <5> QED BY <5>1, <5>3, <5>4, <5>5, HoldersFinite DEF Bounded
        <4> QED BY <4>1, <4>2
      <3> HIDE DEF Holders
      <3> QED BY <3>3 DEF Bounded
    <2> QED BY <2>1, <2>2
  <1>8. ASSUME NEW t \in Token, Logout(t) PROVE Bounded'
    <2>1. heirs' = heirs /\ \A s \in Token : Holders(s)' \subseteq Holders(s)
      BY <1>8 DEF Logout, process, history
    <2> HIDE DEF Holders
    <2> QED BY <2>1, NoNewHolder
  <1>9. ASSUME NEW p \in Process, ChangePassword(p) \/ ResetPassword(p) PROVE Bounded'
    BY <1>9, <1>0 DEF ChangePassword, ResetPassword
  <1>10. ASSUME NEW p \in Process, SetPassword(p) PROVE Bounded'
    <2>1. heirs' = heirs /\ \A s \in Token : Holders(s)' \subseteq Holders(s)
      BY <1>10 DEF SetPassword, End, rows, history
    <2> HIDE DEF Holders
    <2> QED BY <2>1, NoNewHolder
  <1>11. ASSUME NEW p \in Process, RevokeAll(p) PROVE Bounded'
    <2>1. heirs' = heirs /\ \A s \in Token : Holders(s)' \subseteq Holders(s)
      BY <1>11 DEF RevokeAll, End, history
    <2> HIDE DEF Holders
    <2> QED BY <2>1, NoNewHolder
  <1>12. ASSUME NEW p \in Process, RestrictUser(p) PROVE Bounded'
    <2>1. heirs' = heirs /\ \A s \in Token : Holders(s)' \subseteq Holders(s)
      BY <1>12 DEF RestrictUser, rows, history
    <2> HIDE DEF Holders
    <2> QED BY <2>1, NoNewHolder
  <1>13. ASSUME NEW p \in Process, DeleteSessions(p) PROVE Bounded'
    <2>1. heirs' = heirs /\ \A s \in Token : Holders(s)' \subseteq Holders(s)
      BY <1>13 DEF DeleteSessions, End, history
    <2> HIDE DEF Holders
    <2> QED BY <2>1, NoNewHolder
  <1>14. ASSUME Unrestrict PROVE Bounded'
    <2>1. heirs' = heirs /\ \A s \in Token : Holders(s)' \subseteq Holders(s)
      BY <1>14 DEF Unrestrict, rows, process, history
    <2> HIDE DEF Holders
    <2> QED BY <2>1, NoNewHolder
  <1>15. ASSUME DeleteUser PROVE Bounded'
    <2>1. heirs' = heirs /\ \A s \in Token : Holders(s)' \subseteq Holders(s)
      BY <1>15 DEF DeleteUser, process, history
    <2> HIDE DEF Holders
    <2> QED BY <2>1, NoNewHolder
  <1>16. ASSUME NEW t \in Token, Expire(t) PROVE Bounded'
    <2>1. heirs' = heirs /\ \A s \in Token : Holders(s)' \subseteq Holders(s)
      BY <1>16 DEF Expire, process, history
    <2> HIDE DEF Holders
    <2> QED BY <2>1, NoNewHolder
  <1>17. ASSUME CleanupExpiredTokens PROVE Bounded'
    <2>1. heirs' = heirs /\ \A s \in Token : Holders(s)' \subseteq Holders(s)
      BY <1>17 DEF CleanupExpiredTokens, process, history
    <2> HIDE DEF Holders
    <2> QED BY <2>1, NoNewHolder
  <1>18. ASSUME NEW p \in Process, Crash(p) PROVE Bounded'
    <2>1. heirs' = heirs /\ \A s \in Token : Holders(s)' \subseteq Holders(s)
      BY <1>18 DEF Crash, End, rows, history
    <2> HIDE DEF Holders
    <2> QED BY <2>1, NoNewHolder
  <1>19. CASE UNCHANGED vars
    <2>1. heirs' = heirs /\ \A s \in Token : Holders(s)' \subseteq Holders(s)
      BY <1>19 DEF vars, process, history
    <2> HIDE DEF Holders
    <2> QED BY <2>1, NoNewHolder
  <1> QED
    BY <1>1, <1>2, <1>3, <1>4, <1>5, <1>6, <1>7, <1>8, <1>9, <1>10, <1>11, <1>12, <1>13,
       <1>14, <1>15, <1>16, <1>17, <1>18, <1>19
    DEF Next, Issuing, Refreshing, Ending, Administering

\* A refresh token buys at most one new token for each request that can be in flight,
\* whatever else ends sessions, deletes rows or dies meanwhile.
THEOREM RotationBoundedCorrect == Spec => []RotationBounded
  <1>1. Init => Spent /\ Bounded
    <2> SUFFICES ASSUME Init PROVE Spent /\ Bounded
      OBVIOUS
    <2>1. Spent BY DEF Init, Spent
    <2>2. \A t \in Token : heirs[t] = {} BY DEF Init
    <2>3. \A t : Cardinality(Holders(t)) \in Nat /\ Cardinality(Holders(t)) <= Cardinality(Process)
                 /\ Cardinality(Process) \in Nat
      BY HoldersFinite
    <2> QED BY <2>1, <2>2, <2>3, FS_EmptySet DEF Bounded
  <1>2. Bounded => RotationBounded
    <2> SUFFICES ASSUME Bounded, NEW t \in Token
                 PROVE  Cardinality(heirs[t]) <= Cardinality(Process)
      BY DEF RotationBounded
    <2>1. Cardinality(heirs[t]) \in Nat BY FS_CardinalityType DEF Bounded
    <2> QED BY <2>1, HoldersFinite DEF Bounded
  <1> QED BY <1>1, <1>2, TypeInit, TypeStep, SpentStep, BoundedStep, PTL DEF Spec
=============================================================================
