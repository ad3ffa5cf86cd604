--------------------------- MODULE DeviceOwnership ---------------------------
(***************************************************************************)
(* Who owns a device (src/src/module/devices): the active rows of          *)
(* DeviceAssignment, the UserDevice metadata kept beside them, and the     *)
(* per-user device list cached in Redis, under concurrent requests of      *)
(* users and administrators.                                               *)
(*                                                                         *)
(* A Request is one HTTP request in flight on any node.  Every await is a  *)
(* step boundary, except inside claimDevice's transaction after its check, *)
(* whose two inserts commit together.                                      *)
(***************************************************************************)
EXTENDS Fleet, Naturals, FiniteSets

CONSTANTS
    User,
    Name,           \* the metadata a user gives a device
    Incomplete,     \* the users whose profile is incomplete: an admin may delete them
    Request,        \* requests in flight at the same time
    MaxRequests,    \* bound: requests ever begun
    MaxFaults       \* bound: errors of Redis, deaths of a node

ASSUME OwnershipAssumption ==
    /\ Incomplete \subseteq User
    /\ MaxRequests \in Nat /\ MaxFaults \in Nat
    /\ None \notin User /\ None \notin Name /\ None \notin [user : User, name : Name]

VARIABLES
    users,      \* rows of User
    assigned,   \* <<device, user>> of the rows of DeviceAssignment with unassignedAt null
    meta,       \* rows of UserDevice; deviceId is unique
    cache,      \* the key user:{userId}:devices
    rpc,        \* where a request is
    rreq,       \* its user, device and name
    rdevs,      \* the assignments a listing has read
    rnames,     \* the metadata a listing has read
    rhit,       \* did an unclaim's transaction find an assignment to end?
    requests, faults,
    excused,    \* users whose cached list may be stale: see EvictionIsEnough
    forced,     \* devices an administrator has ever taken from their owner
    emptied     \* devices for which an unclaim found its assignment already ended

rows    == <<users, assigned, meta>>
request == <<rpc, rreq>>
listing == <<rdevs, rnames>>
ghosts  == <<forced, emptied>>
vars == <<rows, cache, request, listing, rhit, requests, faults, excused, ghosts>>

PC == {"idle", "claiming", "renaming", "reading", "unclaiming", "ending", "evicting",
       "refused"}
Meta   == [user : User, name : Name]
Entry  == [device : Device, name : Name \cup {None}]
Asked  == [user : User, device : Device, name : Name]

TypeOK ==
    /\ users \subseteq User
    /\ assigned \subseteq Device \X User
    /\ meta \in [Device -> Meta \cup {None}]
    /\ cache \in [User -> SUBSET Entry \cup {None}]
    /\ rpc \in [Request -> PC]
    /\ rreq \in [Request -> Asked \cup {None}]
    /\ \A r \in Request : rpc[r] # "idle" => rreq[r] \in Asked
    /\ rdevs \in [Request -> SUBSET Device \cup {None}]
    /\ rnames \in [Request -> SUBSET Entry \cup {None}]
    /\ rhit \in [Request -> BOOLEAN]
    /\ requests \in 0..MaxRequests
    /\ faults \in 0..MaxFaults
    /\ excused \subseteq User
    /\ forced \subseteq Device
    /\ emptied \subseteq Device

Init ==
    /\ users = User
    /\ assigned = {}
    /\ meta = [d \in Device |-> None]
    /\ cache = [u \in User |-> None]
    /\ rpc = [r \in Request |-> "idle"]
    /\ rreq = [r \in Request |-> None]
    /\ rdevs = [r \in Request |-> None]
    /\ rnames = [r \in Request |-> None]
    /\ rhit = [r \in Request |-> FALSE]
    /\ requests = 0 /\ faults = 0
    /\ excused = {} /\ forced = {} /\ emptied = {}

Owners(d) == {u \in User : <<d, u>> \in assigned}

\* An unclaim's transaction holds the lock on the assignment row it ends.
Locked(d) == \E r \in Request : rpc[r] = "ending" /\ rhit[r] /\ rreq[r].device = d

-----------------------------------------------------------------------------
(* Requests *)

\* The request passes the JWT guard and goes to its first await.
Begin(r, q, pc) ==
    /\ rpc[r] = "idle"
    /\ q.user \in users
    /\ requests < MaxRequests
    /\ requests' = requests + 1
    /\ rpc' = [rpc EXCEPT ![r] = pc]
    /\ rreq' = [rreq EXCEPT ![r] = q]

\* A request that ends; its answer, success or error, is not kept.
Answer(r) ==
    /\ rpc' = [rpc EXCEPT ![r] = "idle"]
    /\ rreq' = [rreq EXCEPT ![r] = None]

Goto(r, pc) == rpc' = [rpc EXCEPT ![r] = pc] /\ UNCHANGED rreq

\* claimDevice's transaction looks for an active assignment.
ClaimCheck(r, q) ==
    /\ Begin(r, q, IF Owners(q.device) = {} THEN "claiming" ELSE "refused")
    /\ UNCHANGED <<rows, cache, listing, rhit, faults, excused, ghosts>>

\* Mutant of ClaimInsert: a database without the two unique indexes.
ClaimUnindexed(r) ==
    LET q == rreq[r] IN
    /\ rpc[r] = "claiming"
    /\ IF q.user \notin users
       THEN Answer(r) /\ UNCHANGED rows
       ELSE /\ assigned' = assigned \cup {<<q.device, q.user>>}
            /\ meta' = [meta EXCEPT ![q.device] = [user |-> q.user, name |-> q.name]]
            /\ Goto(r, "evicting")
            /\ UNCHANGED users
    /\ UNCHANGED <<cache, listing, rhit, requests, faults, excused, ghosts>>

\* Mutant of ClaimInsert: an upsert that keeps a metadata row it finds.
ClaimUpsert(r) ==
    LET q == rreq[r] IN
    /\ rpc[r] = "claiming"
    /\ ~Locked(q.device)
    /\ IF Owners(q.device) # {}
       THEN Goto(r, "refused") /\ UNCHANGED rows
       ELSE IF q.user \notin users
       THEN Answer(r) /\ UNCHANGED rows
       ELSE /\ assigned' = assigned \cup {<<q.device, q.user>>}
            /\ meta' = IF meta[q.device] # None THEN meta
                       ELSE [meta EXCEPT ![q.device] = [user |-> q.user, name |-> q.name]]
            /\ Goto(r, "evicting")
            /\ UNCHANGED users
    /\ UNCHANGED <<cache, listing, rhit, requests, faults, excused, ghosts>>

\* Its two inserts.  The partial index on active assignments and the unique
\* UserDevice.deviceId refuse the claim (P2002, answered 409); the foreign key
\* refuses a user deleted since.  The index waits for a transaction that is ending
\* the assignment.
ClaimInsert(r) ==
    LET q == rreq[r] IN
    /\ rpc[r] = "claiming"
    /\ ~Locked(q.device)
    /\ IF Owners(q.device) # {} \/ (q.user \in users /\ meta[q.device] # None)
       THEN Goto(r, "refused") /\ UNCHANGED rows
       ELSE IF q.user \notin users
       THEN Answer(r) /\ UNCHANGED rows
       ELSE /\ assigned' = assigned \cup {<<q.device, q.user>>}
            /\ meta' = [meta EXCEPT ![q.device] = [user |-> q.user, name |-> q.name]]
            /\ Goto(r, "evicting")
            /\ UNCHANGED users
    /\ UNCHANGED <<cache, listing, rhit, requests, faults, excused, ghosts>>

\* The 409 "Device is already claimed by another user."
Refuse(r) ==
    /\ rpc[r] = "refused"
    /\ Answer(r)
    /\ UNCHANGED <<rows, cache, listing, rhit, requests, faults, excused, ghosts>>

\* updateDevice checks the assignment, then updates the metadata.
RenameCheck(r, q) ==
    /\ q.user \in Owners(q.device)
    /\ Begin(r, q, "renaming")
    /\ UNCHANGED <<rows, cache, listing, rhit, faults, excused, ghosts>>

\* Mutant of RenameUpdate: a rename does not reach the eviction.
RenameUnevicted(r) ==
    LET q == rreq[r] IN
    /\ rpc[r] = "renaming"
    /\ IF meta[q.device] # None /\ meta[q.device].user = q.user
       THEN meta' = [meta EXCEPT ![q.device].name = q.name]
       ELSE UNCHANGED meta
    /\ Answer(r)
    /\ UNCHANGED <<users, assigned, cache, listing, rhit, requests, faults, excused, ghosts>>

RenameUpdate(r) ==
    LET q == rreq[r] IN
    /\ rpc[r] = "renaming"
    /\ IF meta[q.device] # None /\ meta[q.device].user = q.user
       THEN meta' = [meta EXCEPT ![q.device].name = q.name] /\ Goto(r, "evicting")
       ELSE Answer(r) /\ UNCHANGED meta
    /\ UNCHANGED <<users, assigned, cache, listing, rhit, requests, faults, excused, ghosts>>

\* redis.del after the write.
Evict(r) ==
    LET u == rreq[r].user IN
    /\ rpc[r] = "evicting"
    /\ cache' = [cache EXCEPT ![u] = None]
    /\ excused' = excused \ {u}
    /\ Answer(r)
    /\ UNCHANGED <<rows, listing, rhit, requests, faults, ghosts>>

\* The node dies or redis.del throws, after the write is committed.
EvictFails(r) ==
    /\ rpc[r] = "evicting"
    /\ faults < MaxFaults
    /\ faults' = faults + 1
    /\ excused' = excused \cup {rreq[r].user}
    /\ Answer(r)
    /\ UNCHANGED <<rows, cache, listing, rhit, requests, ghosts>>

\* getMyDevices misses the cache (a hit is answered from it and changes nothing).
ListMiss(r, q) ==
    /\ cache[q.user] = None
    /\ Begin(r, q, "reading")
    /\ UNCHANGED <<rows, cache, listing, rhit, faults, excused, ghosts>>

DevicesOf(u) == {d \in Device : u \in Owners(d)}

NamesOf(u) ==
    {[device |-> d, name |-> meta[d].name] :
        d \in {e \in Device : meta[e] # None /\ meta[e].user = u}}

\* The answer: a device without metadata is shown under its own id.
Merge(devices, names) ==
    {n \in names : n.device \in devices} \cup
    {[device |-> d, name |-> None] : d \in {e \in devices : \A n \in names : n.device # e}}

List(u) == Merge(DevicesOf(u), NamesOf(u))

\* The two queries of Promise.all, in either order.
ReadAssignments(r) ==
    /\ rpc[r] = "reading" /\ rdevs[r] = None
    /\ rdevs' = [rdevs EXCEPT ![r] = DevicesOf(rreq[r].user)]
    /\ UNCHANGED <<rows, cache, request, rnames, rhit, requests, faults, excused, ghosts>>

ReadMeta(r) ==
    /\ rpc[r] = "reading" /\ rnames[r] = None
    /\ rnames' = [rnames EXCEPT ![r] = NamesOf(rreq[r].user)]
    /\ UNCHANGED <<rows, cache, request, rdevs, rhit, requests, faults, excused, ghosts>>

\* redis.set of what was read; its failure is ignored.  A list that a write has
\* overtaken since is stored all the same.
Store(r) ==
    LET u == rreq[r].user
        result == Merge(rdevs[r], rnames[r]) IN
    /\ rpc[r] = "reading" /\ rdevs[r] # None /\ rnames[r] # None
    /\ \/ /\ cache' = [cache EXCEPT ![u] = result]
          /\ excused' = IF result = List(u) THEN excused \ {u} ELSE excused \cup {u}
          /\ UNCHANGED faults
       \/ /\ faults < MaxFaults
          /\ faults' = faults + 1
          /\ UNCHANGED <<cache, excused>>
    /\ rdevs' = [rdevs EXCEPT ![r] = None]
    /\ rnames' = [rnames EXCEPT ![r] = None]
    /\ Answer(r)
    /\ UNCHANGED <<rows, rhit, requests, ghosts>>

\* unclaimDevice checks the assignment ...
UnclaimCheck(r, q) ==
    /\ q.user \in Owners(q.device)
    /\ Begin(r, q, "unclaiming")
    /\ UNCHANGED <<rows, cache, listing, rhit, faults, excused, ghosts>>

\* ... its transaction ends it, if it is still there ...
UnclaimEnd(r) ==
    LET q == rreq[r] IN
    /\ rpc[r] = "unclaiming"
    /\ ~Locked(q.device)
    /\ rhit' = [rhit EXCEPT ![r] = q.user \in Owners(q.device)]
    /\ emptied' = IF q.user \in Owners(q.device) THEN emptied ELSE emptied \cup {q.device}
    /\ Goto(r, "ending")
    /\ UNCHANGED <<rows, cache, listing, requests, faults, excused, forced>>

\* Mutant of UnclaimCommit: the metadata row stays.
UnclaimKeepsMeta(r) ==
    LET q == rreq[r] IN
    /\ rpc[r] = "ending"
    /\ assigned' = IF rhit[r] THEN assigned \ {<<q.device, q.user>>} ELSE assigned
    /\ rhit' = [rhit EXCEPT ![r] = FALSE]
    /\ excused' = excused \cup {q.user}
    /\ Answer(r)
    /\ UNCHANGED <<users, meta, cache, listing, requests, faults, ghosts>>

\* ... and deletes the metadata the user has for the device by then.  Nothing is
\* evicted.  The readings it deletes are the matter of module DevicePipeline.
UnclaimCommit(r) ==
    LET q == rreq[r] IN
    /\ rpc[r] = "ending"
    /\ assigned' = IF rhit[r] THEN assigned \ {<<q.device, q.user>>} ELSE assigned
    /\ meta' = IF meta[q.device] # None /\ meta[q.device].user = q.user
               THEN [meta EXCEPT ![q.device] = None] ELSE meta
    /\ rhit' = [rhit EXCEPT ![r] = FALSE]
    /\ excused' = excused \cup {q.user}
    /\ Answer(r)
    /\ UNCHANGED <<users, cache, listing, requests, faults, ghosts>>

-----------------------------------------------------------------------------
(* The administrator and Redis *)

\* POST /admin/devices/:id/unassign ends the assignment and nothing else.
ForceUnassign(d) ==
    /\ ~Locked(d)
    /\ assigned' = {a \in assigned : a[1] # d}
    /\ excused' = excused \cup Owners(d)
    /\ forced' = IF Owners(d) = {} THEN forced ELSE forced \cup {d}
    /\ UNCHANGED <<users, meta, cache, request, listing, rhit, requests, faults, emptied>>

\* deleteUser's transaction.  The user's cached list stays, but no request reads it.
DeleteUser(u) ==
    /\ u \in users \cap Incomplete
    /\ \A d \in DevicesOf(u) : ~Locked(d)
    /\ users' = users \ {u}
    /\ assigned' = {a \in assigned : a[2] # u}
    /\ meta' = [d \in Device |-> IF meta[d] # None /\ meta[d].user = u
                                 THEN None ELSE meta[d]]
    /\ UNCHANGED <<cache, request, listing, rhit, requests, faults, excused, ghosts>>

\* The key's five minutes are over, or a status change of one of the user's devices
\* evicts it (mqtt.consumer.ts, offline-detector.service.ts).
Expire(u) ==
    /\ cache[u] # None
    /\ cache' = [cache EXCEPT ![u] = None]
    /\ excused' = excused \ {u}
    /\ UNCHANGED <<rows, request, listing, rhit, requests, faults, ghosts>>

RequestStep(r) ==
    \/ \E q \in Asked : \/ ClaimCheck(r, q)
                        \/ RenameCheck(r, q)
                        \/ ListMiss(r, q)
                        \/ UnclaimCheck(r, q)
    \/ ClaimInsert(r) \/ Refuse(r)
    \/ RenameUpdate(r)
    \/ Evict(r) \/ EvictFails(r)
    \/ ReadAssignments(r) \/ ReadMeta(r) \/ Store(r)
    \/ UnclaimEnd(r) \/ UnclaimCommit(r)

Next ==
    \/ \E r \in Request : RequestStep(r)
    \/ \E d \in Device : ForceUnassign(d)
    \/ \E u \in User : DeleteUser(u) \/ Expire(u)

Spec == Init /\ [][Next]_vars

-----------------------------------------------------------------------------
(* What ownership has to keep *)

\* However two claims interleave, a device has at most one owner (the check and the
\* partial index behind it, devices.repository.ts 50-73).
OneOwner == \A d \in Device : Cardinality(Owners(d)) <= 1

\* The owner of a device is the user whose metadata it carries: nobody sees the name
\* and address a former owner gave it.  Only an unclaim that found its assignment
\* already ended may have taken the metadata of a claim made since (123-156).
OwnerHasMeta ==
    \A d \in Device, u \in User : u \in Owners(d) =>
        \/ meta[d] # None /\ meta[d].user = u
        \/ meta[d] = None /\ d \in emptied

\* Metadata that would refuse the next claim is left behind by the administrator's
\* unassign only, not by an unclaim, a deletion of the user or any race of them.
FreeUnlessForced ==
    \A d \in Device : Owners(d) = {} /\ meta[d] # None => d \in forced

\* A claim or rename leaves no stale list behind: once its eviction is done the
\* cached list is that of the tables, unless the eviction failed, the change was one
\* that evicts nothing (unclaim, unassign), or a listing read before the change and
\* stored after (devices.service.ts 29-118).
EvictionIsEnough ==
    \A u \in users \ excused :
        \/ cache[u] \in {None, List(u)}
        \/ \E r \in Request : rpc[r] = "evicting" /\ rreq[r].user = u

\* A claim is refused only while the device has an owner (docs/DEVICES_API.md:
\* "409 Conflict: Device is already claimed by another user").
RefusedOnlyIfClaimed ==
    [][\A r \in Request : rpc[r] = "claiming" /\ rpc'[r] = "refused" =>
          Owners(rreq[r].device) # {}]_vars
=============================================================================
