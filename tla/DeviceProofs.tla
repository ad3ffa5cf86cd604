---------------------------- MODULE DeviceProofs ----------------------------
(***************************************************************************)
(* What holds of the devices of users for every set of users, devices,     *)
(* groups and nodes and any number of requests: who owns a device          *)
(* (DeviceOwnership), and what its owner does with it (DeviceControl).     *)
(***************************************************************************)
EXTENDS DeviceOwnership, DeviceControl, TLAPS, FiniteSetTheorems

\* The part of TypeOK that the ownership of devices rests on.
RowTypes ==
    /\ users \subseteq User
    /\ assigned \subseteq Device \X User
    /\ meta \in [Device -> Meta \cup {None}]
    /\ rpc \in [Request -> PC]
    /\ rreq \in [Request -> Asked \cup {None}]
    /\ \A r \in Request : rpc[r] # "idle" => rreq[r] \in Asked
    /\ rhit \in [Request -> BOOLEAN]
    /\ forced \subseteq Device
    /\ emptied \subseteq Device

\* A device has one owner: the form that is inductive.
Unshared == \A d \in Device : \A u, v \in Owners(d) : u = v

\* An unclaim's transaction either holds the lock on an assignment that is still
\* there, alone, or has found none.
Knows(r) ==
    rpc[r] = "ending" =>
        IF rhit[r]
        THEN /\ rreq[r].user \in Owners(rreq[r].device)
             /\ \A s \in Request :
                   rpc[s] = "ending" /\ rhit[s] /\ rreq[s].device = rreq[r].device => s = r
        ELSE rreq[r].device \in emptied

EndingKnows == \A r \in Request : Knows(r)

OwnershipInv ==
    /\ RowTypes
    /\ Unshared
    /\ EndingKnows
    /\ OwnerHasMeta
    /\ FreeUnlessForced

\* The steps that write no row, and the request they leave in an unclaim's transaction,
\* if any, was there before.
Quiet ==
    /\ UNCHANGED <<users, assigned, meta, rhit, forced, emptied>>
    /\ \A r \in Request : rpc'[r] = "ending" => rpc[r] = "ending" /\ rreq'[r] = rreq[r]

-----------------------------------------------------------------------------
(* Operators and types *)

\* The owners of a device depend on the assignments only.
LEMMA OwnersOf ==
    ASSUME NEW d \in Device, NEW u \in User
    PROVE  u \in Owners(d) <=> <<d, u>> \in assigned
  BY DEF Owners

\* What a request that is under way asks for.
LEMMA AskedFor ==
    ASSUME RowTypes, NEW r \in Request, rpc[r] # "idle"
    PROVE  /\ rreq[r] \in Asked
           /\ rreq[r].user \in User /\ rreq[r].device \in Device /\ rreq[r].name \in Name
  BY DEF RowTypes, Asked

\* A metadata row is no null, and names a user.
LEMMA MetaRow ==
    ASSUME RowTypes, NEW d \in Device, meta[d] # None
    PROVE  meta[d] \in Meta /\ meta[d].user \in User
  BY DEF RowTypes, Meta

\* Beginning, answering and going on keep the types of the requests.
LEMMA RequestTypes ==
    ASSUME RowTypes, NEW r \in Request,
           \/ Answer(r)
           \/ \E place \in PC : rpc[r] # "idle" /\ Goto(r, place)
           \/ \E q \in Asked, place \in PC : Begin(r, q, place)
    PROVE  /\ rpc' \in [Request -> PC]
           /\ rreq' \in [Request -> Asked \cup {None}]
           /\ \A s \in Request : rpc'[s] # "idle" => rreq'[s] \in Asked
  BY DEF RowTypes, Answer, Goto, Begin, PC

-----------------------------------------------------------------------------
(* The steps *)

\* Steps that write no row keep the invariant.
LEMMA QuietKeeps ==
    ASSUME OwnershipInv, RowTypes', Quiet
    PROVE  OwnershipInv'
<1>1. \A d \in Device : Owners(d)' = Owners(d)
  BY DEF Quiet, Owners
<1>2. Unshared' /\ OwnerHasMeta' /\ FreeUnlessForced'
  BY <1>1 DEF OwnershipInv, Unshared, OwnerHasMeta, FreeUnlessForced, Quiet
<1>3. ASSUME NEW r \in Request, rpc'[r] = "ending"
      PROVE  Knows(r)'
  <2>1. \A s \in Request : rpc'[s] = "ending" =>
            rpc[s] = "ending" /\ rreq'[s] = rreq[s] /\ rhit'[s] = rhit[s]
    BY DEF Quiet
  <2>2. rreq[r].device \in Device
    BY <1>3, <2>1, AskedFor DEF OwnershipInv
  <2>3. Owners(rreq[r].device)' = Owners(rreq[r].device)
    BY <1>3, <2>1 DEF Owners, Quiet
  <2>4. Knows(r)
    BY DEF OwnershipInv, EndingKnows
  <2>5. QED
    BY <1>3, <2>1, <2>3, <2>4 DEF Knows, Quiet
<1>4. EndingKnows'
  BY <1>3 DEF EndingKnows, Knows
<1>5. QED
  BY <1>2, <1>4 DEF OwnershipInv

\* The claim's inserts keep the invariant: they write both rows, for one owner.
LEMMA ClaimKeeps ==
    ASSUME OwnershipInv, NEW r \in Request, ClaimInsert(r)
    PROVE  OwnershipInv'
<1>0. RowTypes /\ rpc[r] = "claiming"
  BY DEF OwnershipInv, ClaimInsert
<1>1. PICK d0 \in Device, u0 \in User, n0 \in Name :
          rreq[r].device = d0 /\ rreq[r].user = u0 /\ rreq[r].name = n0
  BY <1>0, AskedFor
<1> DEFINE row == [user |-> u0, name |-> n0]
<1>2. Goto(r, "refused") \/ Goto(r, "evicting") \/ Answer(r)
  BY DEF ClaimInsert
<1>3. UNCHANGED <<rhit, forced, emptied>>
  BY DEF ClaimInsert, ghosts
<1>4. \/ UNCHANGED rows
      \/ /\ Owners(d0) = {} /\ UNCHANGED users
         /\ assigned' = assigned \cup {<<d0, u0>>}
         /\ meta' = [meta EXCEPT ![d0] = row]
  BY <1>1 DEF ClaimInsert
<1>5. row \in Meta /\ row # None
  BY <1>1, OwnershipAssumption DEF Meta
<1>6. RowTypes'
  <2>1. /\ users' \subseteq User /\ assigned' \subseteq Device \X User
        /\ meta' \in [Device -> Meta \cup {None}]
    BY <1>0, <1>4, <1>5 DEF RowTypes, rows
  <2>2. /\ rpc' \in [Request -> PC]
        /\ rreq' \in [Request -> Asked \cup {None}]
        /\ \A s \in Request : rpc'[s] # "idle" => rreq'[s] \in Asked
    BY <1>0, <1>2, RequestTypes DEF PC
  <2>3. QED
    BY <1>0, <1>3, <2>1, <2>2 DEF RowTypes
<1>7. \A s \in Request : rpc'[s] = "ending" => rpc[s] = "ending" /\ rreq'[s] = rreq[s]
  BY <1>0, <1>2 DEF RowTypes, Goto, Answer
<1>8. CASE UNCHANGED rows
  BY <1>3, <1>6, <1>7, <1>8, QuietKeeps DEF Quiet, rows
<1>9. CASE ~UNCHANGED rows
  <2>1. Owners(d0)' = {u0} /\ Owners(d0) = {}
    BY <1>4, <1>9 DEF Owners
  <2>2. \A d \in Device : d # d0 => Owners(d)' = Owners(d)
    BY <1>4, <1>9 DEF Owners
  <2>3. /\ \A d \in Device : d # d0 => meta'[d] = meta[d]
        /\ meta'[d0] = row
    BY <1>0, <1>4, <1>9 DEF RowTypes
  <2>4. Unshared'
    BY <2>1, <2>2 DEF OwnershipInv, Unshared
  <2>5. OwnerHasMeta'
    BY <1>3, <1>5, <2>1, <2>2, <2>3 DEF OwnershipInv, OwnerHasMeta
  <2>6. FreeUnlessForced'
    BY <1>3, <2>1, <2>2, <2>3 DEF OwnershipInv, FreeUnlessForced
  <2>7. ASSUME NEW s \in Request, rpc'[s] = "ending"
        PROVE  Knows(s)'
    <3>1. /\ rpc[s] = "ending" /\ Knows(s)
          /\ \A t \in Request : rpc'[t] = "ending" => rpc[t] = "ending" /\ rreq'[t] = rreq[t]
      BY <1>7, <2>7 DEF OwnershipInv, EndingKnows
    <3>2. rreq[s].device \in Device
      BY <1>0, <3>1, AskedFor
    <3>3. rhit[s] => rreq[s].user \in Owners(rreq[s].device)
      BY <3>1 DEF Knows
    <3>4. rhit[s] => rreq[s].device # d0
      BY <2>1, <3>3
    <3>5. CASE rhit[s]
      <4>1. Owners(rreq[s].device)' = Owners(rreq[s].device)
        BY <1>7, <2>2, <2>7, <3>2, <3>4, <3>5
      <4>2. QED
        BY <1>3, <2>7, <3>1, <3>5, <4>1 DEF Knows
    <3>6. CASE ~rhit[s]
      BY <1>3, <3>1, <3>6 DEF Knows
    <3>7. QED
      BY <3>5, <3>6
  <2>8. EndingKnows'
    BY <2>7 DEF EndingKnows, Knows
  <2>9. QED
    BY <1>6, <2>4, <2>5, <2>6, <2>8 DEF OwnershipInv
<1>10. QED
  BY <1>8, <1>9

\* A rename keeps the invariant: it changes the name in the user's own row.
LEMMA RenameKeeps ==
    ASSUME OwnershipInv, NEW r \in Request, RenameUpdate(r)
    PROVE  OwnershipInv'
<1>0. RowTypes /\ rpc[r] = "renaming"
  BY DEF OwnershipInv, RenameUpdate
<1>1. PICK d0 \in Device, u0 \in User, n0 \in Name :
          rreq[r].device = d0 /\ rreq[r].user = u0 /\ rreq[r].name = n0
  BY <1>0, AskedFor
<1>2. Goto(r, "evicting") \/ Answer(r)
  BY DEF RenameUpdate
<1>3. UNCHANGED <<users, assigned, rhit, forced, emptied>>
  BY DEF RenameUpdate, ghosts
<1>4. \/ UNCHANGED meta
      \/ /\ meta[d0] # None /\ meta[d0].user = u0
         /\ meta' = [meta EXCEPT ![d0] = [user |-> u0, name |-> n0]]
  <2>1. CASE meta[d0] # None /\ meta[d0].user = u0
    <3>1. meta[d0] \in Meta /\ meta \in [Device -> Meta \cup {None}]
      BY <1>0, <2>1, MetaRow DEF RowTypes
    <3>2. meta' = [meta EXCEPT ![d0].name = n0]
      BY <1>1, <2>1 DEF RenameUpdate
    <3>3. [meta[d0] EXCEPT !.name = n0] = [user |-> u0, name |-> n0]
      BY <2>1, <3>1 DEF Meta
    <3>4. QED
      BY <2>1, <3>1, <3>2, <3>3
  <2>2. CASE ~(meta[d0] # None /\ meta[d0].user = u0)
    BY <1>1, <2>2 DEF RenameUpdate
  <2>3. QED
    BY <2>1, <2>2
<1>5. [user |-> u0, name |-> n0] \in Meta /\ [user |-> u0, name |-> n0] # None
  BY <1>1, OwnershipAssumption DEF Meta
<1>6. RowTypes'
  <2>1. /\ rpc' \in [Request -> PC]
        /\ rreq' \in [Request -> Asked \cup {None}]
        /\ \A s \in Request : rpc'[s] # "idle" => rreq'[s] \in Asked
    BY <1>0, <1>2, RequestTypes DEF PC
  <2>2. meta' \in [Device -> Meta \cup {None}]
    BY <1>0, <1>4, <1>5 DEF RowTypes
  <2>3. QED
    BY <1>0, <1>3, <2>1, <2>2 DEF RowTypes
<1>7. /\ \A d \in Device : Owners(d)' = Owners(d)
      /\ \A d \in Device : meta'[d] = meta[d] \/
              (meta[d] # None /\ meta'[d] # None /\ meta'[d].user = meta[d].user)
  BY <1>0, <1>3, <1>4, <1>5 DEF Owners, RowTypes
<1>8. Unshared' /\ OwnerHasMeta' /\ FreeUnlessForced'
  BY <1>3, <1>7 DEF OwnershipInv, Unshared, OwnerHasMeta, FreeUnlessForced
<1>9. \A s \in Request : rpc'[s] = "ending" => rpc[s] = "ending" /\ rreq'[s] = rreq[s]
  BY <1>0, <1>2 DEF RowTypes, Goto, Answer
<1>10. EndingKnows'
  <2>1. ASSUME NEW s \in Request, rpc'[s] = "ending"
        PROVE  Knows(s)'
    <3>1. rpc[s] = "ending" /\ Knows(s) /\ rreq[s].device \in Device
      BY <1>0, <1>9, <2>1, AskedFor DEF OwnershipInv, EndingKnows
    <3>2. Owners(rreq[s].device)' = Owners(rreq[s].device)
      BY <1>7, <1>9, <2>1, <3>1
    <3>3. QED
      BY <1>3, <1>9, <2>1, <3>1, <3>2 DEF Knows
  <2>2. QED
    BY <2>1 DEF EndingKnows, Knows
<1>11. QED
  BY <1>6, <1>8, <1>10 DEF OwnershipInv

\* An unclaim's transaction that reaches the assignment knows what it found.
LEMMA UnclaimEndKeeps ==
    ASSUME OwnershipInv, NEW r \in Request, UnclaimEnd(r)
    PROVE  OwnershipInv'
<1>0. RowTypes /\ rpc[r] = "unclaiming" /\ r \in Request
  BY DEF OwnershipInv, UnclaimEnd
<1>1. PICK d0 \in Device, u0 \in User : rreq[r].device = d0 /\ rreq[r].user = u0
  BY <1>0, AskedFor
<1>2. /\ UNCHANGED <<users, assigned, meta, forced, rreq>>
      /\ rpc' = [rpc EXCEPT ![r] = "ending"]
      /\ rhit' = [rhit EXCEPT ![r] = u0 \in Owners(d0)]
      /\ emptied' = IF u0 \in Owners(d0) THEN emptied ELSE emptied \cup {d0}
      /\ ~Locked(d0)
  BY <1>1 DEF UnclaimEnd, Goto, rows
<1>3. RowTypes'
  BY <1>0, <1>1, <1>2 DEF RowTypes, PC
<1>4. \A d \in Device : Owners(d)' = Owners(d)
  BY <1>2 DEF Owners
<1>5. Unshared' /\ OwnerHasMeta' /\ FreeUnlessForced'
  BY <1>2, <1>4 DEF OwnershipInv, Unshared, OwnerHasMeta, FreeUnlessForced
<1>6. /\ \A s \in Request : s # r => rpc'[s] = rpc[s] /\ rhit'[s] = rhit[s]
      /\ rpc'[r] = "ending" /\ (rhit'[r] <=> u0 \in Owners(d0))
  BY <1>0, <1>2 DEF RowTypes
<1>7. \A s \in Request : rpc[s] = "ending" /\ rhit[s] => rreq[s].device # d0
  BY <1>2 DEF Locked
<1>8. Knows(r)'
  BY <1>1, <1>2, <1>4, <1>6, <1>7 DEF Knows
<1>9. ASSUME NEW s \in Request, s # r, rpc'[s] = "ending"
      PROVE  Knows(s)'
  <2>1. /\ rpc[s] = "ending" /\ Knows(s) /\ rreq[s].device \in Device
        /\ rhit'[s] = rhit[s] /\ rreq'[s] = rreq[s]
    BY <1>0, <1>2, <1>6, <1>9, AskedFor DEF OwnershipInv, EndingKnows
  <2>2. Owners(rreq[s].device)' = Owners(rreq[s].device)
    BY <1>2, <1>4, <2>1
  <2>3. CASE rhit[s]
    BY <1>1, <1>2, <1>6, <1>7, <1>9, <2>1, <2>2, <2>3 DEF Knows
  <2>4. CASE ~rhit[s]
    BY <1>2, <1>9, <2>1, <2>4 DEF Knows
  <2>5. QED
    BY <2>3, <2>4
<1>10. EndingKnows'
  BY <1>8, <1>9 DEF EndingKnows, Knows
<1>11. QED
  BY <1>3, <1>5, <1>10 DEF OwnershipInv

\* Its commit takes the user's assignment and metadata together, or finds metadata
\* of a later claim only where it has found no assignment.
LEMMA UnclaimCommitKeeps ==
    ASSUME OwnershipInv, NEW r \in Request, UnclaimCommit(r)
    PROVE  OwnershipInv'
<1>0. RowTypes /\ rpc[r] = "ending" /\ Knows(r)
  BY DEF OwnershipInv, UnclaimCommit, EndingKnows
<1>1. PICK d0 \in Device, u0 \in User : rreq[r].device = d0 /\ rreq[r].user = u0
  BY <1>0, AskedFor
<1>2. /\ UNCHANGED <<users, forced, emptied>>
      /\ assigned' = IF rhit[r] THEN assigned \ {<<d0, u0>>} ELSE assigned
      /\ meta' = IF meta[d0] # None /\ meta[d0].user = u0
                 THEN [meta EXCEPT ![d0] = None] ELSE meta
      /\ rhit' = [rhit EXCEPT ![r] = FALSE]
      /\ Answer(r)
  BY <1>1 DEF UnclaimCommit, ghosts
<1>3. RowTypes'
  <2>1. /\ rpc' \in [Request -> PC]
        /\ rreq' \in [Request -> Asked \cup {None}]
        /\ \A s \in Request : rpc'[s] # "idle" => rreq'[s] \in Asked
    BY <1>0, <1>2, RequestTypes
  <2>2. QED
    BY <1>0, <1>2, <2>1 DEF RowTypes
<1>4. /\ \A d \in Device : d # d0 => Owners(d)' = Owners(d) /\ meta'[d] = meta[d]
      /\ meta'[d0] = IF meta[d0] # None /\ meta[d0].user = u0 THEN None ELSE meta[d0]
  BY <1>0, <1>2 DEF Owners, RowTypes
<1>5. /\ rpc'[r] # "ending"
      /\ \A s \in Request : s # r =>
            rpc'[s] = rpc[s] /\ rreq'[s] = rreq[s] /\ rhit'[s] = rhit[s]
  BY <1>0, <1>2 DEF RowTypes, Answer
<1>6. ASSUME NEW s \in Request, rpc'[s] = "ending"
      PROVE  Knows(s)'
  <2>1. s # r /\ rpc[s] = "ending" /\ Knows(s) /\ rreq[s].device \in Device
    BY <1>0, <1>5, <1>6, AskedFor DEF OwnershipInv, EndingKnows
  <2>2. CASE rhit[s]
    <3>1. Owners(rreq[s].device)' = Owners(rreq[s].device)
      <4>1. CASE rreq[s].device = d0
        <5>1. ~rhit[r]
          BY <1>0, <1>1, <2>1, <2>2, <4>1 DEF Knows
        <5>2. assigned' = assigned
          BY <1>2, <5>1
        <5>3. QED
          BY <1>5, <2>1, <5>2 DEF Owners
      <4>2. CASE rreq[s].device # d0
        BY <1>4, <1>5, <2>1, <4>2
      <4>3. QED
        BY <4>1, <4>2
    <3>2. QED
      BY <1>2, <1>5, <1>6, <2>1, <2>2, <3>1 DEF Knows
  <2>3. CASE ~rhit[s]
    BY <1>2, <1>5, <2>1, <2>3 DEF Knows
  <2>4. QED
    BY <2>2, <2>3
<1>7. EndingKnows'
  BY <1>6 DEF EndingKnows, Knows
<1>8. CASE rhit[r]
  <2>1. u0 \in Owners(d0) /\ Owners(d0)' = {}
    BY <1>0, <1>1, <1>2, <1>8 DEF OwnershipInv, Unshared, Owners, Knows
  <2>2. meta'[d0] = None
    BY <1>4, <2>1 DEF OwnershipInv, OwnerHasMeta
  <2>3. Unshared' /\ OwnerHasMeta' /\ FreeUnlessForced'
    BY <1>2, <1>4, <2>1, <2>2
    DEF OwnershipInv, Unshared, OwnerHasMeta, FreeUnlessForced
  <2>4. QED
    BY <1>3, <1>7, <2>3 DEF OwnershipInv
<1>9. CASE ~rhit[r]
  <2>1. Owners(d0)' = Owners(d0) /\ d0 \in emptied
    BY <1>0, <1>1, <1>2, <1>9 DEF Owners, Knows
  <2>2. Unshared' /\ OwnerHasMeta' /\ FreeUnlessForced'
    BY <1>2, <1>4, <2>1 DEF OwnershipInv, Unshared, OwnerHasMeta, FreeUnlessForced
  <2>3. QED
    BY <1>3, <1>7, <2>2 DEF OwnershipInv
<1>10. QED
  BY <1>8, <1>9

\* The administrator's unassign leaves the metadata, and says so in "forced".
LEMMA ForceKeeps ==
    ASSUME OwnershipInv, NEW d0 \in Device, ForceUnassign(d0)
    PROVE  OwnershipInv'
<1>1. /\ UNCHANGED <<users, meta, rpc, rreq, rhit, emptied>>
      /\ assigned' = {a \in assigned : a[1] # d0}
      /\ forced' = IF Owners(d0) = {} THEN forced ELSE forced \cup {d0}
      /\ ~Locked(d0)
  BY DEF ForceUnassign, request
<1>2. RowTypes'
  BY <1>1 DEF OwnershipInv, RowTypes
<1>3. Owners(d0)' = {} /\ \A d \in Device : d # d0 => Owners(d)' = Owners(d)
  BY <1>1 DEF Owners
<1>4. Unshared' /\ OwnerHasMeta' /\ FreeUnlessForced'
  BY <1>1, <1>3 DEF OwnershipInv, Unshared, OwnerHasMeta, FreeUnlessForced
<1>5. ASSUME NEW s \in Request, rpc[s] = "ending"
      PROVE  Knows(s)'
  <2>1. Knows(s) /\ rreq[s].device \in Device
    BY <1>5, AskedFor DEF OwnershipInv, EndingKnows
  <2>2. rhit[s] => Owners(rreq[s].device)' = Owners(rreq[s].device)
    BY <1>1, <1>3, <1>5, <2>1 DEF Locked
  <2>3. QED
    BY <1>1, <2>1, <2>2 DEF Knows
<1>6. EndingKnows'
  BY <1>1, <1>5 DEF EndingKnows, Knows
<1>7. QED
  BY <1>2, <1>4, <1>6 DEF OwnershipInv

\* Deleting a user takes the user's assignments and metadata together.
LEMMA DeleteKeeps ==
    ASSUME OwnershipInv, NEW u0 \in User, DeleteUser(u0)
    PROVE  OwnershipInv'
<1>1. /\ UNCHANGED <<rpc, rreq, rhit, forced, emptied>>
      /\ users' = users \ {u0}
      /\ assigned' = {a \in assigned : a[2] # u0}
      /\ meta' = [d \in Device |-> IF meta[d] # None /\ meta[d].user = u0
                                   THEN None ELSE meta[d]]
      /\ \A d \in DevicesOf(u0) : ~Locked(d)
  BY DEF DeleteUser, request, ghosts
<1>2. RowTypes'
  BY <1>1 DEF OwnershipInv, RowTypes
<1>3. \A d \in Device : Owners(d)' = Owners(d) \ {u0}
  BY <1>1 DEF Owners
<1>4. Unshared'
  BY <1>3 DEF OwnershipInv, Unshared
<1>5. OwnerHasMeta'
  BY <1>1, <1>3 DEF OwnershipInv, OwnerHasMeta
<1>6. FreeUnlessForced'
  <2> SUFFICES ASSUME NEW d \in Device, Owners(d)' = {}, meta'[d] # None
               PROVE  d \in forced
    BY <1>1 DEF FreeUnlessForced
  <2>1. meta[d] # None /\ meta[d].user # u0
    BY <1>1
  <2>2. u0 \notin Owners(d)
    BY <2>1 DEF OwnershipInv, OwnerHasMeta
  <2>3. Owners(d) = {}
    BY <1>3, <2>2
  <2>4. QED
    BY <2>1, <2>3 DEF OwnershipInv, FreeUnlessForced
<1>7. ASSUME NEW s \in Request, rpc[s] = "ending"
      PROVE  Knows(s)'
  <2>1. Knows(s) /\ rreq[s].device \in Device /\ rreq[s].user \in User
    BY <1>7, AskedFor DEF OwnershipInv, EndingKnows
  <2>2. rhit[s] => rreq[s].user # u0
    BY <1>1, <1>7, <2>1 DEF Knows, Locked, DevicesOf
  <2>3. Owners(rreq[s].device)' = Owners(rreq[s].device) \ {u0}
    BY <1>1, <1>3, <2>1
  <2>4. QED
    BY <1>1, <2>1, <2>2, <2>3 DEF Knows
<1>8. EndingKnows'
  BY <1>1, <1>7 DEF EndingKnows, Knows
<1>9. QED
  BY <1>2, <1>4, <1>5, <1>6, <1>8 DEF OwnershipInv

\* Steps of a request that write no row, and those of the cache, are quiet.
LEMMA QuietSteps ==
    ASSUME OwnershipInv, NEW r \in Request,
           \/ \E q \in Asked : \/ ClaimCheck(r, q) \/ RenameCheck(r, q)
                              \/ ListMiss(r, q) \/ UnclaimCheck(r, q)
           \/ Refuse(r) \/ Evict(r) \/ EvictFails(r)
           \/ ReadAssignments(r) \/ ReadMeta(r) \/ Store(r)
    PROVE  OwnershipInv'
<1>0. RowTypes
  BY DEF OwnershipInv
<1>1. UNCHANGED <<users, assigned, meta, rhit, forced, emptied>>
  BY DEF ClaimCheck, RenameCheck, ListMiss, UnclaimCheck, Refuse, Evict, EvictFails,
         ReadAssignments, ReadMeta, Store, rows, ghosts
<1>2. \/ \E q \in Asked, place \in PC \ {"ending"} : Begin(r, q, place)
      \/ Answer(r)
      \/ UNCHANGED request
  BY DEF ClaimCheck, RenameCheck, ListMiss, UnclaimCheck, Refuse, Evict, EvictFails,
         ReadAssignments, ReadMeta, Store, PC
<1>3. \A s \in Request : rpc'[s] = "ending" => rpc[s] = "ending" /\ rreq'[s] = rreq[s]
  BY <1>0, <1>2 DEF RowTypes, Begin, Answer, request
<1>4. RowTypes'
  <2>1. /\ rpc' \in [Request -> PC]
        /\ rreq' \in [Request -> Asked \cup {None}]
        /\ \A s \in Request : rpc'[s] # "idle" => rreq'[s] \in Asked
    <3>1. CASE UNCHANGED request
      BY <1>0, <3>1 DEF RowTypes, request
    <3>2. CASE ~UNCHANGED request
      BY <1>0, <1>2, <3>2, RequestTypes
    <3>3. QED
      BY <3>1, <3>2
  <2>2. QED
    BY <1>0, <1>1, <2>1 DEF RowTypes
<1>5. QED
  BY <1>1, <1>3, <1>4, QuietKeeps DEF Quiet

\* The empty database satisfies the invariant.
LEMMA InitKeeps == Init => OwnershipInv
  BY DEF Init, OwnershipInv, RowTypes, PC, Unshared, EndingKnows, Knows, OwnerHasMeta,
         FreeUnlessForced, Owners

\* Every step keeps it.
LEMMA NextKeeps == OwnershipInv /\ [Next]_vars => OwnershipInv'
<1> SUFFICES ASSUME OwnershipInv, [Next]_vars
             PROVE  OwnershipInv'
  OBVIOUS
<1>1. ASSUME NEW r \in Request, RequestStep(r)
      PROVE  OwnershipInv'
  <2>1. \/ ClaimInsert(r) \/ RenameUpdate(r) \/ UnclaimEnd(r) \/ UnclaimCommit(r)
        \/ \E q \in Asked : \/ ClaimCheck(r, q) \/ RenameCheck(r, q)
                           \/ ListMiss(r, q) \/ UnclaimCheck(r, q)
        \/ Refuse(r) \/ Evict(r) \/ EvictFails(r)
        \/ ReadAssignments(r) \/ ReadMeta(r) \/ Store(r)
    BY <1>1 DEF RequestStep
  <2>2. QED
    BY <2>1, ClaimKeeps, RenameKeeps, UnclaimEndKeeps, UnclaimCommitKeeps, QuietSteps
<1>2. CASE \E d \in Device : ForceUnassign(d)
  BY <1>2, ForceKeeps
<1>3. CASE \E u \in User : DeleteUser(u)
  BY <1>3, DeleteKeeps
<1>4. CASE \E u \in User : Expire(u)
  BY <1>4, QuietKeeps DEF Expire, Quiet, rows, request, ghosts, OwnershipInv, RowTypes
<1>5. CASE UNCHANGED vars
  BY <1>5, QuietKeeps DEF vars, Quiet, rows, request, ghosts, OwnershipInv, RowTypes
<1>6. QED
  BY <1>1, <1>2, <1>3, <1>4, <1>5 DEF Next

-----------------------------------------------------------------------------
(* The theorems *)

\* The inductive invariant: which rows a database can hold, whatever the requests.
THEOREM OwnershipInvariant == Spec => []OwnershipInv
  BY InitKeeps, NextKeeps, PTL DEF Spec

\* A device has at most one active owner, however claims, unclaims, unassignments and
\* deletions of users interleave.
THEOREM OneOwnerCorrect == Spec => []OneOwner
<1>1. OwnershipInv => OneOwner
  <2> SUFFICES ASSUME Unshared, NEW d \in Device
               PROVE  Cardinality(Owners(d)) <= 1
    BY DEF OwnershipInv, OneOwner
  <2>1. CASE Owners(d) = {}
    BY <2>1, FS_EmptySet
  <2>2. CASE Owners(d) # {}
    <3>1. PICK u \in Owners(d) : TRUE
      BY <2>2
    <3>2. Owners(d) = {u}
      BY <3>1 DEF Unshared
    <3>3. Cardinality({u}) = 1
      BY FS_Singleton, Zenon
    <3>4. QED
      BY <3>2, <3>3
  <2>3. QED
    BY <2>1, <2>2
<1>2. QED
  BY <1>1, OwnershipInvariant, PTL

\* The owner's metadata is the device's, unless a late unclaim has taken it.
THEOREM OwnerHasMetaCorrect == Spec => []OwnerHasMeta
<1>1. OwnershipInv => OwnerHasMeta
  BY DEF OwnershipInv
<1>2. QED
  BY <1>1, OwnershipInvariant, PTL

\* A free device is left with metadata by the administrator's unassign only.
THEOREM FreeUnlessForcedCorrect == Spec => []FreeUnlessForced
<1>1. OwnershipInv => FreeUnlessForced
  BY DEF OwnershipInv
<1>2. QED
  BY <1>1, OwnershipInvariant, PTL
-----------------------------------------------------------------------------
(* The cached list *)

\* A claim or rename of the user is committed and its eviction still to come.
Evicting(u) == \E r \in Request : rpc[r] = "evicting" /\ rreq[r].user = u

\* What EvictionIsEnough says of one user.
Covered(u) == u \in excused \/ cache[u] = None \/ cache[u] = List(u) \/ Evicting(u)

CacheInv ==
    /\ RowTypes
    /\ cache = [u \in User |-> cache[u]]
    /\ \A u \in users : Covered(u)

Named(d, u) == meta[d] # None /\ meta[d].user = u

\* A step that changes none of the rows a user's list is made of.
SameRows(u) ==
    \A d \in Device :
        /\ <<d, u>> \in assigned' <=> <<d, u>> \in assigned
        /\ Named(d, u)' <=> Named(d, u)
        /\ Named(d, u) => meta'[d] = meta[d]

\* Such a step leaves the user's list.
LEMMA ListStays ==
    ASSUME NEW u \in User, SameRows(u)
    PROVE  List(u)' = List(u)
<1>1. DevicesOf(u)' = DevicesOf(u)
  BY DEF DevicesOf, Owners, SameRows
<1>2. NamesOf(u)' = NamesOf(u)
  <2>1. {d \in Device : Named(d, u)}' = {d \in Device : Named(d, u)}
    BY DEF SameRows
  <2>2. \A d \in {e \in Device : Named(e, u)} : meta'[d].name = meta[d].name
    BY DEF SameRows
  <2>3. NamesOf(u) = {[device |-> d, name |-> meta[d].name] :
                         d \in {e \in Device : Named(e, u)}}
    BY Zenon DEF NamesOf, Named
  <2>4. NamesOf(u)' = {[device |-> d, name |-> meta'[d].name] :
                         d \in {e \in Device : Named(e, u)}}
    BY <2>1, Zenon DEF NamesOf, Named
  <2>5. QED
    BY <2>2, <2>3, <2>4
<1>3. QED
  BY <1>1, <1>2 DEF List, Merge

\* A step that leaves a user's rows, cached list and evictions alone, and excuses
\* nobody's staleness less, leaves the user covered.
LEMMA StaysCovered ==
    ASSUME NEW u \in User, Covered(u), SameRows(u),
           cache'[u] = cache[u],
           u \in excused => u \in excused',
           Evicting(u) => Evicting(u)'
    PROVE  Covered(u)'
  BY ListStays DEF Covered

\* The rows are typed after every step.
LEMMA RowTypesKept ==
    ASSUME OwnershipInv, [Next]_vars
    PROVE  RowTypes'
  BY NextKeeps DEF OwnershipInv

\* A step that writes no row leaves every list.
LEMMA RowsLeft ==
    ASSUME UNCHANGED <<assigned, meta>>, NEW u \in User
    PROVE  SameRows(u)
  BY DEF SameRows, Named

\* Requests that neither begin nor end an eviction.
LEMMA EvictionsLeft ==
    ASSUME RowTypes, NEW r \in Request, rpc[r] # "evicting", NEW u \in User,
           \/ Answer(r)
           \/ \E place \in PC : Goto(r, place)
           \/ \E q \in Asked, place \in PC : Begin(r, q, place)
    PROVE  Evicting(u) => Evicting(u)'
<1> SUFFICES ASSUME NEW s \in Request, rpc[s] = "evicting", rreq[s].user = u
             PROVE  rpc'[s] = "evicting" /\ rreq'[s].user = u
  BY DEF Evicting
<1>1. s # r
  OBVIOUS
<1>2. QED
  BY <1>1 DEF RowTypes, Answer, Goto, Begin

\* A claim's inserts change the list of its own user, whose eviction is to come.
LEMMA ClaimCovers ==
    ASSUME CacheInv, NEW r \in Request, ClaimInsert(r), NEW u \in users'
    PROVE  Covered(u)'
<1>0. RowTypes /\ rpc[r] = "claiming" /\ u \in users /\ u \in User /\ Covered(u)
  BY DEF CacheInv, RowTypes, ClaimInsert, rows
<1>1. PICK d0 \in Device, u0 \in User, n0 \in Name :
          rreq[r].device = d0 /\ rreq[r].user = u0 /\ rreq[r].name = n0
  BY <1>0, AskedFor
<1>2. \/ (Answer(r) \/ Goto(r, "refused")) /\ UNCHANGED rows
      \/ /\ meta[d0] = None
         /\ assigned' = assigned \cup {<<d0, u0>>}
         /\ meta' = [meta EXCEPT ![d0] = [user |-> u0, name |-> n0]]
         /\ Goto(r, "evicting")
  BY <1>1 DEF ClaimInsert
<1>3. UNCHANGED <<cache, excused>>
  BY DEF ClaimInsert
<1>4. Evicting(u) => Evicting(u)'
  BY <1>0, <1>2, EvictionsLeft DEF PC
<1>5. CASE UNCHANGED rows
  BY <1>0, <1>3, <1>4, <1>5, StaysCovered, RowsLeft DEF rows
<1>6. CASE ~UNCHANGED rows
  <2>1. CASE u = u0
    <3>1. rpc'[r] = "evicting" /\ rreq'[r].user = u0
      BY <1>0, <1>1, <1>2, <1>6 DEF RowTypes, Goto
    <3>2. QED
      BY <2>1, <3>1 DEF Covered, Evicting
  <2>2. CASE u # u0
    <3>1. SameRows(u)
      BY <1>0, <1>1, <1>2, <1>6, <2>2 DEF SameRows, Named, RowTypes
    <3>2. QED
      BY <1>0, <1>3, <1>4, <3>1, StaysCovered
  <2>3. QED
    BY <2>1, <2>2
<1>7. QED
  BY <1>5, <1>6

\* So does a rename.
LEMMA RenameCovers ==
    ASSUME CacheInv, NEW r \in Request, RenameUpdate(r), NEW u \in users'
    PROVE  Covered(u)'
<1>0. RowTypes /\ rpc[r] = "renaming" /\ u \in users /\ u \in User /\ Covered(u)
  BY DEF CacheInv, RowTypes, RenameUpdate
<1>1. PICK d0 \in Device, u0 \in User, n0 \in Name :
          rreq[r].device = d0 /\ rreq[r].user = u0 /\ rreq[r].name = n0
  BY <1>0, AskedFor
<1>2. \/ Answer(r) /\ UNCHANGED meta
      \/ /\ Named(d0, u0)
         /\ meta' = [meta EXCEPT ![d0].name = n0]
         /\ Goto(r, "evicting")
  BY <1>1 DEF RenameUpdate, Named
<1>3. UNCHANGED <<assigned, cache, excused>>
  BY DEF RenameUpdate
<1>4. Evicting(u) => Evicting(u)'
  BY <1>0, <1>2, EvictionsLeft DEF PC
<1>5. CASE UNCHANGED meta
  BY <1>0, <1>3, <1>4, <1>5, StaysCovered, RowsLeft
<1>6. CASE ~UNCHANGED meta
  <2>1. CASE u = u0
    <3>1. rpc'[r] = "evicting" /\ rreq'[r].user = u0
      BY <1>0, <1>1, <1>2, <1>6 DEF RowTypes, Goto
    <3>2. QED
      BY <2>1, <3>1 DEF Covered, Evicting
  <2>2. CASE u # u0
    <3>1. meta[d0] # None /\ meta[d0].user = u0 /\ meta[d0] \in Meta
      BY <1>0, <1>2, <1>6, MetaRow DEF Named
    <3>2. meta'[d0].user = u0 /\ \A d \in Device : d # d0 => meta'[d] = meta[d]
      BY <1>0, <1>2, <1>6, <3>1 DEF RowTypes, Meta
    <3>3. SameRows(u)
      BY <1>3, <2>2, <3>1, <3>2 DEF SameRows, Named
    <3>4. QED
      BY <1>0, <1>3, <1>4, <3>3, StaysCovered
  <2>3. QED
    BY <2>1, <2>2
<1>7. QED
  BY <1>5, <1>6

\* An unclaim's commit changes the list of its own user, who is excused.
LEMMA UnclaimCovers ==
    ASSUME CacheInv, NEW r \in Request, UnclaimCommit(r), NEW u \in users'
    PROVE  Covered(u)'
<1>0. RowTypes /\ rpc[r] = "ending" /\ u \in users /\ u \in User /\ Covered(u)
  BY DEF CacheInv, RowTypes, UnclaimCommit
<1>1. PICK d0 \in Device, u0 \in User : rreq[r].device = d0 /\ rreq[r].user = u0
  BY <1>0, AskedFor
<1>2. /\ assigned' = IF rhit[r] THEN assigned \ {<<d0, u0>>} ELSE assigned
      /\ meta' = IF Named(d0, u0) THEN [meta EXCEPT ![d0] = None] ELSE meta
      /\ excused' = excused \cup {u0}
      /\ Answer(r) /\ UNCHANGED cache
  BY <1>1 DEF UnclaimCommit, Named
<1>3. CASE u = u0
  BY <1>2, <1>3 DEF Covered
<1>4. CASE u # u0
  <2>1. Evicting(u) => Evicting(u)'
    BY <1>0, <1>2, EvictionsLeft
  <2>2. SameRows(u)
    BY <1>0, <1>2, <1>4 DEF SameRows, Named, RowTypes
  <2>3. QED
    BY <1>0, <1>2, <2>1, <2>2, StaysCovered
<1>5. QED
  BY <1>3, <1>4

\* The administrator's unassign changes the lists of the device's owners, who are
\* excused.
LEMMA ForceCovers ==
    ASSUME CacheInv, NEW d0 \in Device, ForceUnassign(d0), NEW u \in users'
    PROVE  Covered(u)'
<1>0. RowTypes /\ u \in users /\ u \in User /\ Covered(u)
  BY DEF CacheInv, RowTypes, ForceUnassign
<1>1. /\ UNCHANGED <<meta, cache, rpc, rreq>>
      /\ assigned' = {a \in assigned : a[1] # d0}
      /\ excused' = excused \cup Owners(d0)
  BY DEF ForceUnassign, request
<1>2. CASE u \in Owners(d0)
  BY <1>1, <1>2 DEF Covered
<1>3. CASE u \notin Owners(d0)
  <2>1. SameRows(u)
    BY <1>0, <1>1, <1>3 DEF SameRows, Named, Owners
  <2>2. Evicting(u) => Evicting(u)'
    BY <1>1 DEF Evicting
  <2>3. QED
    BY <1>0, <1>1, <2>1, <2>2, StaysCovered
<1>4. QED
  BY <1>2, <1>3

\* Deleting a user changes the list of that user only.
LEMMA DeleteCovers ==
    ASSUME CacheInv, NEW u0 \in User, DeleteUser(u0), NEW u \in users'
    PROVE  Covered(u)'
<1>1. /\ UNCHANGED <<cache, rpc, rreq, excused>>
      /\ assigned' = {a \in assigned : a[2] # u0}
      /\ meta' = [d \in Device |-> IF Named(d, u0) THEN None ELSE meta[d]]
      /\ users' = users \ {u0}
  BY DEF DeleteUser, request, Named
<1>2. RowTypes /\ u \in User /\ Covered(u) /\ u # u0
  BY <1>1 DEF CacheInv, RowTypes
<1>3. SameRows(u)
  BY <1>1, <1>2 DEF SameRows, Named
<1>4. Evicting(u) => Evicting(u)'
  BY <1>1 DEF Evicting
<1>5. QED
  BY <1>1, <1>2, <1>3, <1>4, StaysCovered

\* A listing stores what the tables say, or its user is excused.
LEMMA StoreCovers ==
    ASSUME CacheInv, NEW r \in Request, Store(r), NEW u \in users'
    PROVE  Covered(u)'
<1>0. RowTypes /\ rpc[r] = "reading" /\ u \in users /\ u \in User /\ Covered(u)
  BY DEF CacheInv, RowTypes, Store, rows
<1>1. PICK u0 \in User : rreq[r].user = u0
  BY <1>0, AskedFor
<1> DEFINE result == Merge(rdevs[r], rnames[r])
<1>2. /\ \/ /\ cache' = [cache EXCEPT ![u0] = result]
            /\ excused' = IF result = List(u0) THEN excused \ {u0} ELSE excused \cup {u0}
         \/ UNCHANGED <<cache, excused>>
      /\ Answer(r)
      /\ UNCHANGED <<assigned, meta>>
  BY <1>1 DEF Store, rows
<1> HIDE DEF result
<1>3. SameRows(u) /\ List(u)' = List(u)
  BY <1>0, <1>2, RowsLeft, ListStays
<1>4. Evicting(u) => Evicting(u)'
  BY <1>0, <1>2, EvictionsLeft
<1>5. CASE u = u0 /\ cache' = [cache EXCEPT ![u0] = result] /\ ~UNCHANGED <<cache, excused>>
  <2>1. cache'[u0] = result
    BY <1>1, <1>5 DEF CacheInv
  <2>2. result = List(u0) \/ u0 \in excused'
    BY <1>2, <1>5
  <2>3. QED
    BY <1>3, <1>5, <2>1, <2>2 DEF Covered
<1>6. CASE u # u0 \/ UNCHANGED <<cache, excused>>
  <2>1. cache'[u] = cache[u] /\ (u \in excused => u \in excused')
    BY <1>0, <1>1, <1>2, <1>6 DEF CacheInv
  <2>2. QED
    BY <1>0, <1>3, <1>4, <2>1, StaysCovered
<1>7. QED
  BY <1>2, <1>5, <1>6

\* An eviction that is done leaves nothing cached; one that fails excuses its user.
LEMMA EvictCovers ==
    ASSUME CacheInv, NEW r \in Request, Evict(r) \/ EvictFails(r), NEW u \in users'
    PROVE  Covered(u)'
<1>0. RowTypes /\ rpc[r] = "evicting" /\ u \in users /\ u \in User /\ Covered(u)
  BY DEF CacheInv, RowTypes, Evict, EvictFails, rows
<1>1. PICK u0 \in User : rreq[r].user = u0
  BY <1>0, AskedFor
<1>2. Answer(r) /\ UNCHANGED <<assigned, meta>>
  BY DEF Evict, EvictFails, rows
<1>3. \/ cache' = [cache EXCEPT ![u0] = None] /\ excused' = excused \ {u0}
      \/ UNCHANGED cache /\ excused' = excused \cup {u0}
  BY <1>1 DEF Evict, EvictFails
<1>4. CASE u = u0
  BY <1>1, <1>3, <1>4 DEF CacheInv, Covered
<1>5. CASE u # u0
  <2>1. cache'[u] = cache[u] /\ (u \in excused => u \in excused')
    BY <1>0, <1>1, <1>3, <1>5 DEF CacheInv
  <2>2. Evicting(u) => Evicting(u)'
    <3> SUFFICES ASSUME NEW s \in Request, rpc[s] = "evicting", rreq[s].user = u
                 PROVE  rpc'[s] = "evicting" /\ rreq'[s].user = u
      BY DEF Evicting
    <3>1. s # r
      BY <1>1, <1>5
    <3>2. QED
      BY <1>0, <1>2, <3>1 DEF RowTypes, Answer
  <2>3. SameRows(u)
    BY <1>0, <1>2, RowsLeft
  <2>4. QED
    BY <1>0, <2>1, <2>2, <2>3, StaysCovered
<1>6. QED
  BY <1>4, <1>5

\* The other steps of a request touch neither the rows nor the cache.
LEMMA OthersCover ==
    ASSUME CacheInv, NEW r \in Request, NEW u \in users',
           \/ \E q \in Asked : \/ ClaimCheck(r, q) \/ RenameCheck(r, q)
                              \/ ListMiss(r, q) \/ UnclaimCheck(r, q)
           \/ Refuse(r) \/ UnclaimEnd(r) \/ ReadAssignments(r) \/ ReadMeta(r)
    PROVE  Covered(u)'
<1>1. UNCHANGED <<users, assigned, meta, cache, excused>>
  BY DEF ClaimCheck, RenameCheck, ListMiss, UnclaimCheck, Refuse, UnclaimEnd,
         ReadAssignments, ReadMeta, rows
<1>2. RowTypes /\ u \in User /\ Covered(u)
  BY <1>1 DEF CacheInv, RowTypes
<1>3. \/ rpc[r] # "evicting" /\ (Answer(r) \/ Goto(r, "ending"))
      \/ rpc[r] # "evicting" /\ \E q \in Asked, place \in PC : Begin(r, q, place)
      \/ UNCHANGED request
  BY DEF ClaimCheck, RenameCheck, ListMiss, UnclaimCheck, Refuse, UnclaimEnd,
         ReadAssignments, ReadMeta, Begin, PC
<1>4. Evicting(u) => Evicting(u)'
  <2>1. CASE UNCHANGED request
    BY <2>1 DEF Evicting, request
  <2>2. CASE ~UNCHANGED request
    BY <1>2, <1>3, <2>2, EvictionsLeft DEF PC
  <2>3. QED
    BY <2>1, <2>2
<1>5. SameRows(u)
  BY <1>1, <1>2, RowsLeft
<1>6. QED
  BY <1>1, <1>2, <1>4, <1>5, StaysCovered

\* No user's list is cached at first.
LEMMA InitCovers == Init => CacheInv
<1> SUFFICES ASSUME Init PROVE CacheInv
  OBVIOUS
<1>1. RowTypes
  BY InitKeeps DEF OwnershipInv
<1>2. users = User /\ cache = [u \in User |-> None]
  BY DEF Init
<1>3. cache = [u \in User |-> cache[u]] /\ \A u \in users : cache[u] = None
  BY <1>2
<1>4. QED
  BY <1>1, <1>3 DEF CacheInv, Covered

\* Every step leaves every user covered.
LEMMA NextCovers == OwnershipInv /\ CacheInv /\ [Next]_vars => CacheInv'
<1> SUFFICES ASSUME OwnershipInv, CacheInv, [Next]_vars
             PROVE  CacheInv'
  OBVIOUS
<1>1. RowTypes'
  BY RowTypesKept
<1>2. (cache = [u \in User |-> cache[u]])'
  <2>1. \/ UNCHANGED cache
        \/ \E u \in User : \E l : cache' = [cache EXCEPT ![u] = l]
    <3>1. ASSUME NEW r \in Request, RequestStep(r), ~UNCHANGED cache
          PROVE  \E u \in User : \E l : cache' = [cache EXCEPT ![u] = l]
      <4>1. Evict(r) \/ Store(r)
        BY <3>1 DEF RequestStep, ClaimCheck, RenameCheck, ListMiss, UnclaimCheck,
           ClaimInsert, Refuse, RenameUpdate, EvictFails, ReadAssignments, ReadMeta,
           UnclaimEnd, UnclaimCommit
      <4>2. rpc[r] # "idle"
        BY <4>1 DEF Evict, Store
      <4>3. rreq[r].user \in User
        BY <4>2, AskedFor DEF OwnershipInv
      <4>4. \E l : cache' = [cache EXCEPT ![rreq[r].user] = l]
        BY <3>1, <4>1 DEF Evict, Store
      <4>5. QED
        BY <4>3, <4>4
    <3>2. ASSUME NEW d \in Device, ForceUnassign(d)
          PROVE  UNCHANGED cache
      BY <3>2 DEF ForceUnassign
    <3>3. ASSUME NEW u \in User, DeleteUser(u)
          PROVE  UNCHANGED cache
      BY <3>3 DEF DeleteUser
    <3>4. ASSUME NEW u \in User, Expire(u)
          PROVE  cache' = [cache EXCEPT ![u] = None]
      BY <3>4 DEF Expire
    <3>5. QED
      BY <3>1, <3>2, <3>3, <3>4 DEF Next, vars
  <2>2. QED
    BY <2>1 DEF CacheInv
<1>3. ASSUME NEW u \in users'
      PROVE  Covered(u)'
  <2>1. ASSUME NEW r \in Request, RequestStep(r)
        PROVE  Covered(u)'
    BY <2>1, ClaimCovers, RenameCovers, UnclaimCovers, StoreCovers, EvictCovers,
       OthersCover DEF RequestStep
  <2>2. ASSUME NEW u0 \in User, Expire(u0)
        PROVE  Covered(u)'
    <3>1. /\ UNCHANGED <<users, assigned, meta, rpc, rreq>>
          /\ cache' = [cache EXCEPT ![u0] = None]
          /\ excused' = excused \ {u0}
      BY <2>2 DEF Expire, rows, request
    <3>2. u \in User /\ Covered(u)
      BY <1>1, <3>1 DEF CacheInv, RowTypes
    <3>3. CASE u = u0
      BY <3>1, <3>3 DEF CacheInv, Covered
    <3>4. CASE u # u0
      <4>1. SameRows(u) /\ (Evicting(u) => Evicting(u)')
        BY <3>1, <3>2, RowsLeft DEF Evicting
      <4>2. cache'[u] = cache[u] /\ (u \in excused => u \in excused')
        BY <3>1, <3>2, <3>4 DEF CacheInv
      <4>3. QED
        BY <3>2, <4>1, <4>2, StaysCovered
    <3>5. QED
      BY <3>3, <3>4
  <2>3. CASE UNCHANGED vars
    <3>1. UNCHANGED <<users, assigned, meta, cache, rpc, rreq, excused>>
      BY <2>3 DEF vars, rows, request
    <3>2. u \in User /\ Covered(u)
      BY <1>1, <3>1 DEF CacheInv, RowTypes
    <3>3. SameRows(u) /\ (Evicting(u) => Evicting(u)')
      BY <3>1, <3>2, RowsLeft DEF Evicting
    <3>4. QED
      BY <3>1, <3>2, <3>3, StaysCovered
  <2>4. QED
    BY <2>1, <2>2, <2>3, ForceCovers, DeleteCovers DEF Next
<1>4. QED
  BY <1>1, <1>2, <1>3 DEF CacheInv

\* Once its eviction is done, the cached list of a user is that of the tables, unless
\* the code itself leaves it stale: an eviction that failed, a change that evicts
\* nothing, a listing that was overtaken.
THEOREM EvictionIsEnoughCorrect == Spec => []EvictionIsEnough
<1>1. CacheInv => EvictionIsEnough
  BY DEF CacheInv, EvictionIsEnough, Covered, Evicting
<1>2. QED
  BY <1>1, OwnershipInvariant, InitCovers, NextCovers, PTL DEF Spec

-----------------------------------------------------------------------------
(* Groups, thresholds and the restart command *)

\* The parts of the state the exclusion rests on have their types, and a request that is
\* about to group a device, or to give it a threshold, was made for that.
Typed ==
    /\ DOMAIN pc = Process
    /\ task \in [Process -> Task]
    /\ groupId \in [Device -> Group \cup {None}]
    /\ own \subseteq Device
    /\ \A p \in Process :
          /\ pc[p] \in {"assigned", "mutex", "add"} => task[p].op = "add"
          /\ pc[p] = "set" => task[p].op = "set"
          /\ task[p].op \in {"add", "set"} => task[p].dev \in Device
          /\ task[p].op = "add" => task[p].grp \in Group

\* Two requests that meet at a device are remembered; so is a device that changed after a
\* request had looked at it.
Met ==
    /\ \A p, q \in Process :
          task[p].op = "add" /\ task[q].op = "set" /\ task[p].dev = task[q].dev
          => task[p].dev \in overlapped
    /\ \A p \in Process : pc[p] = "add" /\ task[p].dev \in own => task[p].dev \in overlapped
    /\ \A p \in Process :
          pc[p] = "set" /\ groupId[task[p].dev] # None => task[p].dev \in overlapped

Exclusion == Typed /\ Met /\ ThresholdsExclusive

\* A request begins.
LEMMA StartKeeps ==
    ASSUME Exclusion, NEW p \in Process, NEW place, NEW op, NEW d, NEW g,
           Start(p, place, op, d, g), [op |-> op, dev |-> d, grp |-> g] \in Task,
           place # "add",
           place \in {"assigned", "mutex"} => op = "add",
           place = "set" => op = "set" /\ groupId[d] = None,
           op \in {"add", "set"} => d \in Device,
           op = "add" => g \in Group
    PROVE  Exclusion'
  <1>1. /\ pc' = [pc EXCEPT ![p] = place]
        /\ task' = [task EXCEPT ![p] = [op |-> op, dev |-> d, grp |-> g]]
        /\ UNCHANGED <<groupId, own>>
        /\ overlapped \subseteq overlapped'
        /\ op = "add" /\ At("set", d) => d \in overlapped'
        /\ op = "set" /\ At("add", d) => d \in overlapped'
    BY DEF Start
  <1>2. Typed' BY <1>1 DEF Exclusion, Typed
  <1>3. \A q \in Process : q # p => pc'[q] = pc[q] /\ task'[q] = task[q]
    BY <1>1 DEF Exclusion, Typed
  <1>4. /\ pc'[p] = place /\ task'[p].op = op /\ task'[p].dev = d
    BY <1>1 DEF Exclusion, Typed
  <1>5. ASSUME NEW q \in Process, NEW r \in Process,
               task'[q].op = "add", task'[r].op = "set", task'[q].dev = task'[r].dev
        PROVE  task'[q].dev \in overlapped'
    <2>1. CASE q = p
      <3>1. op = "add" /\ task'[q].dev = d BY <1>4, <1>5, <2>1
      <3>2. r # p BY <1>4, <1>5, <3>1
      <3>3. task[r].op = "set" /\ task[r].dev = d BY <1>3, <1>5, <3>1, <3>2
      <3>4. At("set", d) BY <3>3 DEF At
      <3>5. d \in overlapped' BY <1>1, <3>1, <3>4
      <3> QED BY <3>1, <3>5
    <2>2. CASE r = p
      <3>1. op = "set" /\ task'[q].dev = d BY <1>4, <1>5, <2>2
      <3>2. q # p BY <1>4, <1>5, <3>1
      <3>3. task[q].op = "add" /\ task[q].dev = d BY <1>3, <1>5, <3>1, <3>2
      <3>4. At("add", d) BY <3>3 DEF At
      <3>5. d \in overlapped' BY <1>1, <3>1, <3>4
      <3> QED BY <3>1, <3>5
    <2>3. CASE q # p /\ r # p
      BY <1>1, <1>3, <1>5, <2>3 DEF Exclusion, Met
    <2> QED BY <2>1, <2>2, <2>3
  <1>6. \A q \in Process : pc'[q] = "add" /\ task'[q].dev \in own' => task'[q].dev \in overlapped'
    BY <1>1, <1>3, <1>4 DEF Exclusion, Met
  <1>7. \A q \in Process :
           pc'[q] = "set" /\ groupId'[task'[q].dev] # None => task'[q].dev \in overlapped'
    BY <1>1, <1>3, <1>4 DEF Exclusion, Met
  <1>8. ThresholdsExclusive' BY <1>1 DEF Exclusion, ThresholdsExclusive, Typed
  <1> QED BY <1>2, <1>5, <1>6, <1>7, <1>8 DEF Exclusion, Met

\* Requests go on short of their writes, or end; groups and thresholds only go.
LEMMA TablesLeft ==
    ASSUME Exclusion, overlapped' = overlapped,
           own' \subseteq own,
           groupId' \in [Device -> Group \cup {None}],
           \A d \in Device : groupId'[d] \in {groupId[d], None},
           DOMAIN pc' = Process, task' \in [Process -> Task],
           \A q \in Process :
              \/ pc'[q] = pc[q] /\ task'[q] = task[q]
              \/ pc'[q] = "idle" /\ task'[q] = Nothing
              \/ pc'[q] = "mutex" /\ pc[q] = "assigned" /\ task'[q] = task[q]
              \/ pc'[q] \in {"subscribed", "listening"} /\ task'[q] = task[q]
    PROVE  Exclusion'
  <1>1. \A q \in Process :
           \/ task'[q] = task[q]
           \/ task'[q].op = "none" /\ pc'[q] = "idle"
    BY DEF Nothing
  <1>2. \A q \in Process : pc'[q] \in {"add", "set"} => pc'[q] = pc[q] /\ task'[q] = task[q]
    OBVIOUS
  <1>3. Typed'
    <2>1. own' \subseteq Device BY DEF Exclusion, Typed
    <2>2. \A q \in Process :
             /\ pc'[q] \in {"assigned", "mutex", "add"} => task'[q].op = "add"
             /\ pc'[q] = "set" => task'[q].op = "set"
             /\ task'[q].op \in {"add", "set"} => task'[q].dev \in Device
             /\ task'[q].op = "add" => task'[q].grp \in Group
      BY DEF Exclusion, Typed, Nothing
    <2> QED BY <2>1, <2>2 DEF Typed
  <1>4. \A p, q \in Process :
           task'[p].op = "add" /\ task'[q].op = "set" /\ task'[p].dev = task'[q].dev
           => task'[p].dev \in overlapped'
    BY <1>1 DEF Exclusion, Met
  <1>5. \A p \in Process : pc'[p] = "add" /\ task'[p].dev \in own' => task'[p].dev \in overlapped'
    BY <1>2 DEF Exclusion, Met
  <1>6. \A p \in Process :
           pc'[p] = "set" /\ groupId'[task'[p].dev] # None => task'[p].dev \in overlapped'
    BY <1>2 DEF Exclusion, Met, Typed
  <1>7. ThresholdsExclusive' BY DEF Exclusion, ThresholdsExclusive, Typed
  <1> QED BY <1>3, <1>4, <1>5, <1>6, <1>7 DEF Exclusion, Met

LEMMA NothingIsTask == Nothing \in Task
  BY DEF Nothing, Task

\* An ending request, with groups and thresholds as they are or fewer.
LEMMA EndKeeps ==
    ASSUME Exclusion, overlapped' = overlapped, own' = own, NEW p \in Process, End(p),
           groupId' \in [Device -> Group \cup {None}],
           \A d \in Device : groupId'[d] \in {groupId[d], None}
    PROVE  Exclusion'
  <1>1. DOMAIN pc' = Process /\ task' \in [Process -> Task]
    BY NothingIsTask DEF End, Exclusion, Typed
  <1>2. \A q \in Process : \/ pc'[q] = pc[q] /\ task'[q] = task[q]
                           \/ pc'[q] = "idle" /\ task'[q] = Nothing
    BY DEF End, Exclusion, Typed
  <1> QED BY <1>1, <1>2, TablesLeft

\* Requests that leave groups and thresholds alone.
LEMMA IdleKeeps ==
    ASSUME Exclusion, UNCHANGED <<groupId, own, overlapped>>,
           DOMAIN pc' = Process, task' \in [Process -> Task],
           \A q \in Process :
              \/ pc'[q] = pc[q] /\ task'[q] = task[q]
              \/ pc'[q] = "idle" /\ task'[q] = Nothing
              \/ pc'[q] = "mutex" /\ pc[q] = "assigned" /\ task'[q] = task[q]
              \/ pc'[q] \in {"subscribed", "listening"} /\ task'[q] = task[q]
    PROVE  Exclusion'
  BY TablesLeft DEF Exclusion, Typed

LEMMA GotoKeeps ==
    ASSUME Exclusion, UNCHANGED <<groupId, own, overlapped>>, NEW p \in Process, NEW place,
           GoOn(p, place),
           \/ place = "subscribed"
           \/ place = "listening"
           \/ place = "mutex" /\ pc[p] = "assigned"
    PROVE  Exclusion'
  <1>1. DOMAIN pc' = Process /\ task' \in [Process -> Task]
    BY DEF GoOn, Exclusion, Typed
  <1>2. \A q \in Process :
           \/ pc'[q] = pc[q] /\ task'[q] = task[q]
           \/ pc'[q] = "mutex" /\ pc[q] = "assigned" /\ task'[q] = task[q]
           \/ pc'[q] \in {"subscribed", "listening"} /\ task'[q] = task[q]
    BY DEF GoOn, Exclusion, Typed
  <1> QED BY <1>1, <1>2, IdleKeeps

LEMMA CleanUpKeeps ==
    ASSUME Exclusion, UNCHANGED <<groupId, own, overlapped>>,
           NEW P, NEW n, NEW d, NEW result, CleanUp(P, n, d, result)
    PROVE  Exclusion'
  <1>1. DOMAIN pc' = Process /\ task' \in [Process -> Task]
    BY NothingIsTask DEF CleanUp, Exclusion, Typed
  <1>2. \A q \in Process : \/ pc'[q] = pc[q] /\ task'[q] = task[q]
                           \/ pc'[q] = "idle" /\ task'[q] = Nothing
    BY DEF CleanUp
  <1> QED BY <1>1, <1>2, IdleKeeps

LEMMA ExclusionStep == Exclusion /\ [ControlNext]_controlVars => Exclusion'
  <1> SUFFICES ASSUME Exclusion, [ControlNext]_controlVars PROVE Exclusion'
    OBVIOUS
  <1>0. ASSUME UNCHANGED <<groupId, own, overlapped, pc, task>> PROVE Exclusion'
    BY <1>0, IdleKeeps DEF Exclusion, Typed
  <1>1. ASSUME NEW p \in Process, NEW d \in Device, NEW g \in Group, AddFind(p, d, g)
        PROVE  Exclusion'
    <2>1. [op |-> "add", dev |-> d, grp |-> g] \in Task BY DEF Task
    <2> QED BY <1>1, <2>1, StartKeeps DEF AddFind
  <1>2. ASSUME NEW p \in Process, NEW d \in Device, NEW g \in Group, RemoveFind(p, d, g)
        PROVE  Exclusion'
    <2>1. [op |-> "remove", dev |-> d, grp |-> g] \in Task BY DEF Task
    <2> QED BY <1>2, <2>1, StartKeeps DEF RemoveFind
  <1>3. ASSUME NEW p \in Process, NEW g \in Group, SetGroupFind(p, g) PROVE Exclusion'
    <2>1. [op |-> "setGroup", dev |-> None, grp |-> g] \in Task BY DEF Task
    <2> QED BY <1>3, <2>1, StartKeeps DEF SetGroupFind
  <1>4. ASSUME NEW p \in Process, NEW d \in Device, SetFind(p, d) PROVE Exclusion'
    <2>1. [op |-> "set", dev |-> d, grp |-> None] \in Task BY DEF Task
    <2> QED BY <1>4, <2>1, StartKeeps DEF SetFind
  <1>5. ASSUME NEW p \in Process, NEW d \in Device, Restart(p, d) PROVE Exclusion'
    <2>1. [op |-> "restart", dev |-> d, grp |-> None] \in Task BY DEF Task
    <2> QED BY <1>5, <2>1, StartKeeps DEF Restart
  <1>6. ASSUME NEW p \in Process, AddAssigned(p) PROVE Exclusion'
    <2>1. UNCHANGED <<groupId, own, overlapped>> BY <1>6 DEF AddAssigned, tables
    <2>2. CASE GoOn(p, "mutex") BY <1>6, <2>1, <2>2, GotoKeeps DEF AddAssigned
    <2>3. CASE End(p) BY <2>1, <2>3, EndKeeps DEF Exclusion, Typed
    <2> QED BY <1>6, <2>2, <2>3 DEF AddAssigned
  <1>7. ASSUME NEW p \in Process, AddMutex(p) PROVE Exclusion'
    <2>1. UNCHANGED <<groupId, own, overlapped>> BY <1>7 DEF AddMutex, tables
    <2>2. CASE task[p].dev \in own
      BY <1>7, <2>1, <2>2, EndKeeps DEF AddMutex, Exclusion, Typed
    \* The device has no threshold: the request may write.
    <2>3. CASE task[p].dev \notin own
      <3>1. pc[p] = "mutex" /\ pc' = [pc EXCEPT ![p] = "add"] /\ task' = task
        BY <1>7, <2>3 DEF AddMutex, GoOn
      <3>2. Typed' BY <2>1, <3>1 DEF Exclusion, Typed
      <3>3. Met' BY <2>1, <2>3, <3>1 DEF Exclusion, Typed, Met
      <3>4. ThresholdsExclusive' BY <2>1 DEF Exclusion, ThresholdsExclusive
      <3> QED BY <3>2, <3>3, <3>4 DEF Exclusion
    <2> QED BY <2>2, <2>3
  <1>8. ASSUME NEW p \in Process, AddWrite(p) PROVE Exclusion'
    <2> DEFINE d == task[p].dev
               g == task[p].grp
    <2>1. pc[p] = "add" /\ task[p].op = "add" /\ d \in Device /\ g \in Group
      BY <1>8 DEF AddWrite, Exclusion, Typed
    <2>2. CASE g \notin groups
      BY <1>8, <2>2, EndKeeps DEF AddWrite, Exclusion, Typed
    <2>3. CASE g \in groups
      <3>1. /\ groupId' = [groupId EXCEPT ![task[p].dev] = task[p].grp]
            /\ UNCHANGED <<own, overlapped>>
            /\ pc' = [pc EXCEPT ![p] = "idle"] /\ task' = [task EXCEPT ![p] = Nothing]
        BY <1>8, <2>3 DEF AddWrite, End
      <3>2. \A q \in Process \ {p} : pc'[q] = pc[q] /\ task'[q] = task[q]
        BY <3>1 DEF Exclusion, Typed
      <3>3. pc'[p] = "idle" /\ task'[p].op = "none"
        BY <3>1 DEF Exclusion, Typed, Nothing
      <3>4. Typed'
        <4>1. task' \in [Process -> Task] BY <3>1, NothingIsTask DEF Exclusion, Typed
        <4>2. groupId' \in [Device -> Group \cup {None}]
          BY <2>1, <3>1 DEF Exclusion, Typed
        <4> QED BY <3>1, <3>2, <3>3, <4>1, <4>2 DEF Exclusion, Typed
      <3>5. \A q \in Process \ {p} :
               pc[q] = "set" /\ task[q].dev = task[p].dev => task[p].dev \in overlapped
        BY <2>1 DEF Exclusion, Typed, Met
      <3>6. \A q \in Process :
               pc'[q] = "set" /\ groupId'[task'[q].dev] # None => task'[q].dev \in overlapped'
        BY <2>1, <3>1, <3>2, <3>3, <3>5 DEF Exclusion, Typed, Met
      <3>7. Met' BY <3>1, <3>2, <3>3, <3>6 DEF Exclusion, Met
      <3>8. ThresholdsExclusive'
        BY <2>1, <3>1 DEF Exclusion, Typed, Met, ThresholdsExclusive
      <3> QED BY <3>4, <3>7, <3>8 DEF Exclusion
    <2> QED BY <2>2, <2>3
  <1>9. ASSUME NEW p \in Process, RemoveWrite(p) PROVE Exclusion'
    <2>1. /\ groupId' \in [Device -> Group \cup {None}]
          /\ \A d \in Device : groupId'[d] \in {groupId[d], None}
      BY <1>9 DEF RemoveWrite, Exclusion, Typed
    <2> QED BY <1>9, <2>1, EndKeeps DEF RemoveWrite
  <1>10. ASSUME NEW p \in Process, SetGroupWrite(p) PROVE Exclusion'
    BY <1>10, EndKeeps DEF SetGroupWrite, Exclusion, Typed
  <1>11. ASSUME NEW p \in Process, SetWrite(p) PROVE Exclusion'
    <2>1. pc[p] = "set" /\ task[p].op = "set" /\ task[p].dev \in Device
      BY <1>11 DEF SetWrite, Exclusion, Typed
    <2>2. /\ own' = own \cup {task[p].dev}
          /\ UNCHANGED <<groupId, overlapped>>
          /\ pc' = [pc EXCEPT ![p] = "idle"] /\ task' = [task EXCEPT ![p] = Nothing]
      BY <1>11 DEF SetWrite, End
    <2>3. \A q \in Process \ {p} : pc'[q] = pc[q] /\ task'[q] = task[q]
      BY <2>2 DEF Exclusion, Typed
    <2>4. pc'[p] = "idle" /\ task'[p].op = "none"
      BY <2>2 DEF Exclusion, Typed, Nothing
    <2>5. Typed'
      <3>1. task' \in [Process -> Task] BY <2>2, NothingIsTask DEF Exclusion, Typed
      <3> QED BY <2>1, <2>2, <2>3, <2>4, <3>1 DEF Exclusion, Typed
    <2>6. \A q \in Process \ {p} :
             pc[q] = "add" /\ task[q].dev = task[p].dev => task[p].dev \in overlapped
      BY <2>1 DEF Exclusion, Typed, Met
    <2>7. \A q \in Process :
             pc'[q] = "add" /\ task'[q].dev \in own' => task'[q].dev \in overlapped'
      BY <2>2, <2>3, <2>4, <2>6 DEF Exclusion, Met
    <2>8. Met' BY <2>2, <2>3, <2>4, <2>7 DEF Exclusion, Met
    <2>9. ThresholdsExclusive'
      BY <2>1, <2>2 DEF Exclusion, Met, ThresholdsExclusive
    <2> QED BY <2>5, <2>8, <2>9 DEF Exclusion
  <1>12. ASSUME NEW g \in Group, CreateGroup(g) \/ RemoveGroupThreshold(g) PROVE Exclusion'
    BY <1>0, <1>12 DEF CreateGroup, RemoveGroupThreshold
  <1>13. ASSUME NEW g \in Group, DeleteGroup(g) PROVE Exclusion'
    <2>1. /\ groupId' \in [Device -> Group \cup {None}]
          /\ \A d \in Device : groupId'[d] \in {groupId[d], None}
          /\ UNCHANGED <<own, overlapped, pc, task>>
      BY <1>13 DEF DeleteGroup, Exclusion, Typed
    <2>2. DOMAIN pc' = Process /\ task' \in [Process -> Task]
      BY <2>1 DEF Exclusion, Typed
    <2> QED BY <2>1, <2>2, TablesLeft
  <1>14. ASSUME NEW d \in Device, RemoveThreshold(d) PROVE Exclusion'
    <2>1. own' \subseteq own /\ UNCHANGED <<groupId, overlapped, pc, task>>
      BY <1>14 DEF RemoveThreshold
    <2>2. DOMAIN pc' = Process /\ task' \in [Process -> Task]
      BY <2>1 DEF Exclusion, Typed
    <2> QED BY <2>1, <2>2, TablesLeft DEF Exclusion, Typed
  <1>15. ASSUME NEW d \in Device, ChangeOwner(d) \/ Reply(d) \/ Ignore(d) PROVE Exclusion'
    BY <1>0, <1>15 DEF ChangeOwner, Reply, Ignore, tables
  <1>16. ASSUME NEW p \in Process, Subscribe(p) PROVE Exclusion'
    <2>1. UNCHANGED <<groupId, own, overlapped>> BY <1>16 DEF Subscribe, tables
    <2>2. CASE GoOn(p, "subscribed") BY <2>1, <2>2, GotoKeeps
    <2>3. CASE End(p) BY <2>1, <2>3, EndKeeps DEF Exclusion, Typed
    <2> QED BY <1>16, <2>2, <2>3 DEF Subscribe
  <1>17. ASSUME NEW p \in Process, Command(p) PROVE Exclusion'
    <2>1. UNCHANGED <<groupId, own, overlapped>> BY <1>17 DEF Command, tables
    <2>2. GoOn(p, "listening") BY <1>17 DEF Command
    <2> QED BY <2>1, <2>2, GotoKeeps
  <1>18. ASSUME NEW p \in Process, Timeout(p) \/ PublishFails(p) PROVE Exclusion'
    BY <1>18, CleanUpKeeps DEF Timeout, PublishFails, tables
  <1>19. ASSUME NEW n \in Node, NEW d \in Device, Hear(n, d) PROVE Exclusion'

          <2> DEFINE P == {p \in Process : pc[p] = "listening" /\ NodeOf[p] = n /\ task[p].dev = d}
    <2>1. UNCHANGED <<groupId, own, overlapped>> BY <1>19 DEF Hear, tables
    <2>2. CASE P = {} BY <1>0, <1>19, <2>1, <2>2 DEF Hear
    <2>3. CASE P # {}
      <3>1. CleanUp(P, n, d, "ok") BY <1>19, <2>3 DEF Hear
      <3> HIDE DEF P
      <3> QED BY <2>1, <3>1, CleanUpKeeps
    <2> QED BY <2>2, <2>3
  <1>20. CASE UNCHANGED controlVars
    BY <1>0, <1>20 DEF controlVars, tables
  <1> QED
    BY <1>1, <1>2, <1>3, <1>4, <1>5, <1>6, <1>7, <1>8, <1>9, <1>10, <1>11, <1>12, <1>13,
       <1>14, <1>15, <1>16, <1>17, <1>18, <1>19, <1>20
    DEF ControlNext, Grouping, Setting, Restarting

LEMMA ExclusionInit == ControlInit => Exclusion
  <1> SUFFICES ASSUME ControlInit PROVE Exclusion
    OBVIOUS
  <1>1. Typed BY NothingIsTask DEF ControlInit, Typed, Nothing
  <1>2. Met BY DEF ControlInit, Met, Nothing
  <1>3. ThresholdsExclusive BY DEF ControlInit, ThresholdsExclusive
  <1> QED BY <1>1, <1>2, <1>3 DEF Exclusion

\* A device has a group or thresholds of its own, not both, unless a grouping call and a
\* threshold call for it were under way together, with any number of requests and nodes.
THEOREM ThresholdsExclusiveCorrect == ControlSpec => []ThresholdsExclusive
  <1>1. Exclusion => ThresholdsExclusive BY DEF Exclusion
  <1> QED BY <1>1, ExclusionInit, ExclusionStep, PTL DEF ControlSpec

-----------------------------------------------------------------------------
(* The restart command *)

\* A request is not answered before it has sent its command; while it waits, and no other
\* request has taken the subscription, its node has it, and an answer it was given is
\* on its way.
Hearing ==
    /\ outcome = [p \in Process |-> outcome[p]]
    /\ \A p \in Process : pc[p] \in {"subscribing", "subscribed"} => p \notin answered
    /\ \A p \in Process : pc[p] \in {"subscribed", "listening"} /\ p \notin deaf =>
          <<NodeOf[p], task[p].dev>> \in subs
    /\ \A p \in Process : pc[p] = "listening" /\ p \in answered /\ p \notin deaf =>
          <<NodeOf[p], task[p].dev>> \in answers

HearingInv == Exclusion /\ Hearing

\* The requests of groups and thresholds send and hear nothing.
LEMMA OthersHear ==
    ASSUME HearingInv, UNCHANGED mqtt,
           \A q \in Process :
              \/ pc'[q] = pc[q] /\ task'[q] = task[q]
              \/ pc'[q] \notin {"subscribing", "subscribed", "listening"}
    PROVE  Hearing'
  BY DEF HearingInv, Hearing, mqtt

\* A request that ends takes the node's subscription with it; those it leaves without one
\* are deaf.
LEMMA CleanUpHears ==
    ASSUME HearingInv, NEW P, NEW n, NEW d, NEW result, CleanUp(P, n, d, result),
           UNCHANGED answered,
           answers \ {<<n, d>>} \subseteq answers',
           \A p \in Process \ P :
              pc[p] = "listening" /\ NodeOf[p] = n /\ task[p].dev = d => answers' = answers
    PROVE  Hearing'
  <1>1. \A p \in Process : outcome'[p] = IF p \in P THEN result ELSE outcome[p]
    BY DEF CleanUp
  <1>2. outcome' = [p \in Process |-> outcome'[p]]
    BY <1>1 DEF CleanUp
  <1>3. \A p \in Process : \/ pc'[p] = "idle"
                           \/ pc'[p] = pc[p] /\ task'[p] = task[p] /\ p \notin P
    BY DEF CleanUp
  <1>4. /\ subs' = subs \ {<<n, d>>} /\ deaf \subseteq deaf'
        /\ \A p \in Process \ P :
              NodeOf[p] = n /\ task[p].dev = d /\ pc[p] \in {"subscribed", "listening"}
              => p \in deaf'
    BY DEF CleanUp
  <1>5. \A p \in Process : pc'[p] \in {"subscribing", "subscribed"} => p \notin answered'
    BY <1>3 DEF HearingInv, Hearing
  <1>6. ASSUME NEW p \in Process, pc'[p] \in {"subscribed", "listening"}, p \notin deaf'
        PROVE  /\ <<NodeOf[p], task'[p].dev>> \in subs'
               /\ pc'[p] = "listening" /\ p \in answered' =>
                     <<NodeOf[p], task'[p].dev>> \in answers'
    <2>1. /\ pc'[p] = pc[p] /\ task'[p] = task[p] /\ p \notin P /\ p \notin deaf
          /\ ~(NodeOf[p] = n /\ task[p].dev = d)
      BY <1>3, <1>4, <1>6
    <2>2. <<NodeOf[p], task[p].dev>> # <<n, d>> BY <2>1
    <2>3. <<NodeOf[p], task[p].dev>> \in subs BY <1>6, <2>1 DEF HearingInv, Hearing
    <2>4. pc[p] = "listening" /\ p \in answered => <<NodeOf[p], task[p].dev>> \in answers
      BY <2>1 DEF HearingInv, Hearing
    <2> QED BY <1>4, <2>1, <2>2, <2>3, <2>4
  <1> QED BY <1>2, <1>5, <1>6 DEF Hearing

LEMMA HearingStep == HearingInv /\ [ControlNext]_controlVars => HearingInv'
  <1> SUFFICES ASSUME HearingInv, [ControlNext]_controlVars PROVE Hearing'
    BY ExclusionStep DEF HearingInv
  <1>0. DOMAIN pc = Process /\ DOMAIN task = Process
    BY DEF HearingInv, Exclusion, Typed
  <1>1. ASSUME NEW p \in Process, Grouping(p) \/ Setting(p) PROVE Hearing'
    <2>1. /\ UNCHANGED mqtt
          /\ \E place \in {"assigned", "mutex", "add", "remove", "setGroup", "set", "idle"} :
                pc' = [pc EXCEPT ![p] = place]
          /\ \E t : task' = [task EXCEPT ![p] = t] \/ task' = task
      BY <1>1 DEF Grouping, Setting, AddFind, RemoveFind, SetGroupFind,
         SetFind, AddAssigned,
         AddMutex, AddWrite, RemoveWrite, SetGroupWrite, SetWrite, Start,
         GoOn, End, mqtt
    <2>2. \A q \in Process :
             \/ pc'[q] = pc[q] /\ task'[q] = task[q]
             \/ pc'[q] \notin {"subscribing", "subscribed", "listening"}
      BY <1>0, <2>1
    <2> QED BY <2>1, <2>2, OthersHear
  <1>2. ASSUME NEW p \in Process, NEW d \in Device, Restart(p, d) PROVE Hearing'
    <2>1. /\ pc' = [pc EXCEPT ![p] = "subscribing"]
          /\ \E t : task' = [task EXCEPT ![p] = t]
          /\ outcome' = [outcome EXCEPT ![p] = "none"]
          /\ answered' = answered \ {p} /\ deaf' = deaf \ {p}
          /\ UNCHANGED <<subs, answers>>
      BY <1>2 DEF Restart, Start
    <2>2. pc'[p] = "subscribing"
          /\ \A q \in Process \ {p} : pc'[q] = pc[q] /\ task'[q] = task[q]
      BY <1>0, <2>1
    <2>3. outcome' = [q \in Process |-> outcome'[q]] BY <2>1 DEF HearingInv, Hearing
    <2> QED BY <2>1, <2>2, <2>3 DEF HearingInv, Hearing
  <1>3. ASSUME NEW p \in Process, Subscribe(p) PROVE Hearing'
    <2>1. pc[p] = "subscribing" /\ UNCHANGED <<answers, answered, deaf>>
      BY <1>3 DEF Subscribe
    <2>2. CASE GoOn(p, "subscribed") /\ subs' = subs \cup {<<NodeOf[p], task[p].dev>>}
               /\ UNCHANGED outcome
      <3>1. /\ pc'[p] = "subscribed" /\ task' = task
            /\ \A q \in Process \ {p} : pc'[q] = pc[q]
        BY <1>0, <2>2 DEF GoOn
      <3> QED BY <2>1, <2>2, <3>1 DEF HearingInv, Hearing
    <2>3. CASE End(p) /\ UNCHANGED subs /\ outcome' = [outcome EXCEPT ![p] = "error"]
      <3>1. /\ pc'[p] = "idle"
            /\ \A q \in Process \ {p} : pc'[q] = pc[q] /\ task'[q] = task[q]
        BY <1>0, <2>3 DEF End
      <3>2. outcome' = [q \in Process |-> outcome'[q]] BY <2>3 DEF HearingInv, Hearing
      <3> QED BY <2>1, <2>3, <3>1, <3>2 DEF HearingInv, Hearing
    <2> QED BY <1>3, <2>2, <2>3 DEF Subscribe
  <1>4. ASSUME NEW p \in Process, Command(p) PROVE Hearing'
    <2>1. /\ pc[p] = "subscribed" /\ pc' = [pc EXCEPT ![p] = "listening"] /\ task' = task
          /\ UNCHANGED <<subs, answers, answered, deaf, outcome>>
      BY <1>4 DEF Command, GoOn
    <2>2. pc'[p] = "listening" /\ \A q \in Process \ {p} : pc'[q] = pc[q]
      BY <1>0, <2>1
    <2> QED BY <2>1, <2>2 DEF HearingInv, Hearing
  <1>5. ASSUME NEW p \in Process, Timeout(p) \/ PublishFails(p) PROVE Hearing'
    BY <1>5, CleanUpHears DEF Timeout, PublishFails
  <1>6. ASSUME NEW d \in Device, Reply(d) PROVE Hearing'
    <2>1. /\ answers' = answers \cup {s \in subs : s[2] = d}
          /\ answered' = answered \cup {p \in Process : pc[p] = "listening" /\ task[p].dev = d}
          /\ UNCHANGED <<pc, task, subs, deaf, outcome>>
      BY <1>6 DEF Reply
    <2>2. \A p \in Process : pc[p] \in {"subscribing", "subscribed"} => p \notin answered'
      BY <2>1 DEF HearingInv, Hearing
    <2>3. ASSUME NEW p \in Process, pc[p] = "listening", p \in answered', p \notin deaf
          PROVE  <<NodeOf[p], task[p].dev>> \in answers'
      <3>1. CASE p \in answered
        BY <2>1, <2>3, <3>1 DEF HearingInv, Hearing
      <3>2. CASE p \notin answered
        <4>1. task[p].dev = d BY <2>1, <2>3, <3>2
        <4>2. <<NodeOf[p], task[p].dev>> \in subs BY <2>3 DEF HearingInv, Hearing
        <4> QED BY <2>1, <4>1, <4>2
      <3> QED BY <3>1, <3>2
    <2> QED BY <2>1, <2>2, <2>3 DEF HearingInv, Hearing
  <1>7. ASSUME NEW n \in Node, NEW d \in Device, Hear(n, d) PROVE Hearing'

          <2> DEFINE P == {p \in Process : pc[p] = "listening" /\ NodeOf[p] = n /\ task[p].dev = d}
    <2>1. answers' = answers \ {<<n, d>>} /\ UNCHANGED answered BY <1>7 DEF Hear
    <2>2. CASE P = {}
      <3>1. UNCHANGED <<subs, pc, task, outcome, deaf>> BY <1>7, <2>2 DEF Hear
      <3>2. \A p \in Process : pc[p] = "listening" => <<NodeOf[p], task[p].dev>> # <<n, d>>
        BY <2>2
      <3> QED BY <2>1, <3>1, <3>2 DEF HearingInv, Hearing
    <2>3. CASE P # {}
      <3>1. CleanUp(P, n, d, "ok") BY <1>7, <2>3 DEF Hear
      <3>2. \A p \in Process \ P : ~(pc[p] = "listening" /\ NodeOf[p] = n /\ task[p].dev = d)
        OBVIOUS
      <3> HIDE DEF P
      <3> QED BY <2>1, <3>1, <3>2, CleanUpHears
    <2> QED BY <2>2, <2>3
  <1>8. ASSUME \/ \E g \in Group : CreateGroup(g) \/ RemoveGroupThreshold(g) \/ DeleteGroup(g)
               \/ \E d \in Device : RemoveThreshold(d) \/ ChangeOwner(d) \/ Ignore(d)
               \/ UNCHANGED controlVars
        PROVE  Hearing'
    BY <1>8 DEF CreateGroup, RemoveGroupThreshold, DeleteGroup, RemoveThreshold,
       ChangeOwner,
       Ignore, controlVars, mqtt, HearingInv, Hearing
  <1> QED
    BY <1>1, <1>2, <1>3, <1>4, <1>5, <1>6, <1>7, <1>8 DEF ControlNext, Restarting

LEMMA HearingInit == ControlInit => HearingInv
  <1> SUFFICES ASSUME ControlInit PROVE Hearing
    BY ExclusionInit DEF HearingInv
  <1> QED BY DEF ControlInit, Hearing

\* The invariant of the restart command: whom the broker's subscription and an answer on
\* its way still serve (requestResponse, mqtt.service.ts).
THEOREM HearingInvariant == ControlSpec => []HearingInv
  BY HearingInit, HearingStep, PTL DEF ControlSpec

\* A step that tells a caller that the device did not answer.
ReportsSilence ==
    \A p \in Process :
        outcome'[p] = "silence" /\ outcome[p] # "silence" =>
            \/ p \notin answered
            \/ p \in deaf
            \/ <<NodeOf[p], task[p].dev>> \in answers

\* Only a request that is listening is told so.
LEMMA SilenceStep == HearingInv /\ [ControlNext]_controlVars => ReportsSilence
  <1> SUFFICES ASSUME HearingInv, [ControlNext]_controlVars, NEW p \in Process,
                      outcome'[p] = "silence", outcome[p] # "silence"
               PROVE  p \notin answered \/ p \in deaf \/ <<NodeOf[p], task[p].dev>> \in answers
    BY DEF ReportsSilence
  <1>1. pc[p] = "listening"
    <2>0. outcome = [q \in Process |-> outcome[q]] BY DEF HearingInv, Hearing
    <2>1. ASSUME NEW q \in Process, Grouping(q) \/ Setting(q) PROVE FALSE
      BY <2>1 DEF Grouping, Setting, AddFind, RemoveFind, SetGroupFind,
         SetFind, AddAssigned,
         AddMutex, AddWrite, RemoveWrite, SetGroupWrite, SetWrite, mqtt
    <2>2. ASSUME NEW q \in Process,
                 (\E d \in Device : Restart(q, d)) \/ Subscribe(q) \/ Command(q) PROVE FALSE
      BY <2>0, <2>2 DEF Restart, Subscribe, Command
    <2>3. ASSUME NEW q \in Process, Timeout(q) \/ PublishFails(q) PROVE pc[p] = "listening"
      BY <2>3 DEF Timeout, PublishFails, CleanUp
    <2>5. ASSUME NEW n \in Node, NEW d \in Device, Hear(n, d) PROVE FALSE
      BY <2>5 DEF Hear, CleanUp
    <2>6. ASSUME \/ \E g \in Group : CreateGroup(g) \/ RemoveGroupThreshold(g) \/ DeleteGroup(g)
                 \/ \E d \in Device :
                       RemoveThreshold(d) \/ ChangeOwner(d) \/ Reply(d) \/ Ignore(d)
                 \/ UNCHANGED controlVars
          PROVE  FALSE
      BY <2>6 DEF CreateGroup, RemoveGroupThreshold, DeleteGroup,
         RemoveThreshold, ChangeOwner,
         Reply, Ignore, controlVars, mqtt
    <2> QED BY <2>1, <2>2, <2>3, <2>5, <2>6 DEF ControlNext, Restarting
  <1> QED BY <1>1 DEF HearingInv, Hearing

\* A restart reported as unanswered had no answer, or its answer is still on the way, or
\* another request for the device took the node's subscription (requestResponse).
THEOREM AnswerIsHeardCorrect == ControlSpec => AnswerIsHeard
  <1>1. HearingInv /\ [ControlNext]_controlVars => [ReportsSilence]_controlVars
    BY SilenceStep
  <1>2. AnswerIsHeard <=> [][ReportsSilence]_controlVars
    BY Zenon DEF AnswerIsHeard, ReportsSilence
  <1> QED BY <1>1, <1>2, HearingInvariant, PTL DEF ControlSpec
=============================================================================
