----------------------------- MODULE DeviceControl -----------------------------
(***************************************************************************)
(* What a user does with a device besides claiming it: groups and          *)
(* thresholds (src/src/groups/groups.service, the thresholds of            *)
(* src/src/module/devices), which the alert engine reads, and the restart  *)
(* command over MQTT (requestResponse of src/src/mqtt/mqtt.service).       *)
(*                                                                         *)
(* The groups are those of one user, whose devices are `mine`; claims and  *)
(* unassignments (DeviceOwnership) change `mine` and nothing else here.  A *)
(* Process is a request in flight on the node NodeOf[p]; reads and writes  *)
(* of one request are separate actions, and only deleteGroup has a         *)
(* transaction.                                                            *)
(***************************************************************************)
EXTENDS Fleet, Naturals, FiniteSets

CONSTANTS
    Group, Process, Node,
    NodeOf,         \* the node that serves a process
    MaxCalls        \* bound: requests ever begun

ASSUME DeviceControlAssumption ==
    /\ NodeOf \in [Process -> Node] /\ MaxCalls \in Nat
    /\ None \notin Device \cup Group

VARIABLES
    mine,               \* the user's active assignments
    groups,             \* rows of DeviceGroup
    groupId,            \* Device.groupId
    own, limit,         \* rows of DeviceThreshold and of GroupThreshold
    pc, task,
    calls,              \* requests begun so far
    overlapped,         \* devices that a grouping and a threshold call were at together
    subs,               \* the broker's subscriptions to restart topics, <<node, device>>
    commands,           \* RESTART messages a device has not answered
    answers,            \* OK messages on their way to a node
    answered, deaf,     \* see AnswerIsHeard
    outcome             \* what requestResponse gave a process last: "ok" (true), "silence"
                        \* (false) or "error" (an exception)

tables == <<mine, groups, groupId, own, limit, overlapped>>
mqtt == <<subs, commands, answers, answered, deaf, outcome>>
controlVars == <<tables, pc, task, calls, mqtt>>

Task == [op : {"none", "add", "remove", "setGroup", "delete", "set", "restart"},
         dev : Device \cup {None}, grp : Group \cup {None}]
Nothing == [op |-> "none", dev |-> None, grp |-> None]

ControlInit ==
    /\ mine \in SUBSET Device
    /\ groups = {} /\ groupId = [d \in Device |-> None]
    /\ own = {} /\ limit = {}
    /\ pc = [p \in Process |-> "idle"] /\ task = [p \in Process |-> Nothing]
    /\ calls = 0 /\ overlapped = {}
    /\ subs = {} /\ commands = [d \in Device |-> 0] /\ answers = {}
    /\ answered = {} /\ deaf = {} /\ outcome = [p \in Process |-> "none"]

At(op, d) == \E q \in Process : task[q].op = op /\ task[q].dev = d

Start(p, place, op, d, g) ==
    /\ pc[p] = "idle" /\ calls < MaxCalls
    /\ calls' = calls + 1
    /\ pc' = [pc EXCEPT ![p] = place]
    /\ task' = [task EXCEPT ![p] = [op |-> op, dev |-> d, grp |-> g]]
    /\ overlapped' = IF \/ op = "add" /\ At("set", d)
                        \/ op = "set" /\ At("add", d)
                     THEN overlapped \cup {d} ELSE overlapped
    /\ UNCHANGED <<mine, groups, groupId, own, limit>>

GoOn(p, place) == pc' = [pc EXCEPT ![p] = place] /\ UNCHANGED task

End(p) ==
    /\ pc' = [pc EXCEPT ![p] = "idle"]
    /\ task' = [task EXCEPT ![p] = Nothing]

-----------------------------------------------------------------------------
(* Groups *)

CreateGroup(g) ==
    /\ g \notin groups /\ calls < MaxCalls
    /\ calls' = calls + 1
    /\ groups' = groups \cup {g}
    /\ UNCHANGED <<mine, groupId, own, limit, overlapped, pc, task, mqtt>>

\* The rows of group and device are read; an ungrouped device goes on ...
AddFind(p, d, g) ==
    /\ g \in groups /\ groupId[d] = None
    /\ Start(p, "assigned", "add", d, g)
    /\ UNCHANGED mqtt

\* ... if it is assigned to the user ...
AddAssigned(p) ==
    /\ pc[p] = "assigned"
    /\ IF task[p].dev \in mine THEN GoOn(p, "mutex") ELSE End(p)
    /\ UNCHANGED <<tables, calls, mqtt>>

\* Mutant of AddMutex: the group's threshold is looked for instead.
AddMutexOfGroup(p) ==
    /\ pc[p] = "mutex"
    /\ IF task[p].grp \in limit THEN End(p) ELSE GoOn(p, "add")
    /\ UNCHANGED <<tables, calls, mqtt>>

\* ... and has no threshold of its own.
AddMutex(p) ==
    /\ pc[p] = "mutex"
    /\ IF task[p].dev \in own THEN End(p) ELSE GoOn(p, "add")
    /\ UNCHANGED <<tables, calls, mqtt>>

\* The foreign key refuses a group that is gone.
AddWrite(p) ==
    LET d == task[p].dev
        g == task[p].grp IN
    /\ pc[p] = "add"
    /\ groupId' = IF g \in groups THEN [groupId EXCEPT ![d] = g] ELSE groupId
    /\ End(p)
    /\ UNCHANGED <<mine, groups, own, limit, overlapped, calls, mqtt>>

RemoveFind(p, d, g) ==
    /\ g \in groups /\ groupId[d] = g
    /\ Start(p, "remove", "remove", d, g)
    /\ UNCHANGED mqtt

\* The update does not look at the group again.
RemoveWrite(p) ==
    /\ pc[p] = "remove"
    /\ groupId' = [groupId EXCEPT ![task[p].dev] = None]
    /\ End(p)
    /\ UNCHANGED <<mine, groups, own, limit, overlapped, calls, mqtt>>

\* No member may have a threshold of its own.
SetGroupFind(p, g) ==
    /\ g \in groups
    /\ \A d \in own : groupId[d] # g
    /\ Start(p, "setGroup", "setGroup", None, g)
    /\ UNCHANGED mqtt

SetGroupWrite(p) ==
    /\ pc[p] = "setGroup"
    /\ limit' = limit \cup ({task[p].grp} \cap groups)
    /\ End(p)
    /\ UNCHANGED <<mine, groups, groupId, own, overlapped, calls, mqtt>>

\* A lookup that only guards the delete, which throws when there is no row.
RemoveGroupThreshold(g) ==
    /\ g \in limit
    /\ limit' = limit \ {g}
    /\ UNCHANGED <<mine, groups, groupId, own, overlapped, pc, task, calls, mqtt>>

\* The transaction; its last delete throws when the group is gone, and undoes the others.
DeleteGroup(g) ==
    /\ g \in groups
    /\ groups' = groups \ {g} /\ limit' = limit \ {g}
    /\ groupId' = [d \in Device |-> IF groupId[d] = g THEN None ELSE groupId[d]]
    /\ UNCHANGED <<mine, own, overlapped, pc, task, calls, mqtt>>

-----------------------------------------------------------------------------
(* Thresholds of a device: nobody asks whose device it is *)

SetFind(p, d) ==
    /\ groupId[d] = None
    /\ Start(p, "set", "set", d, None)
    /\ UNCHANGED mqtt

SetWrite(p) ==
    /\ pc[p] = "set"
    /\ own' = own \cup {task[p].dev}
    /\ End(p)
    /\ UNCHANGED <<mine, groups, groupId, limit, overlapped, calls, mqtt>>

RemoveThreshold(d) ==
    /\ d \in own
    /\ own' = own \ {d}
    /\ UNCHANGED <<mine, groups, groupId, limit, overlapped, pc, task, calls, mqtt>>

\* A claim; the administrator's unassign, which leaves group and thresholds as they are.
ChangeOwner(d) ==
    /\ mine' = IF d \in mine THEN mine \ {d} ELSE mine \cup {d}
    /\ UNCHANGED <<groups, groupId, own, limit, overlapped, pc, task, calls, mqtt>>

-----------------------------------------------------------------------------
(* The restart command *)

\* The lookup, the ownership check and the connection, and the subscription is sent.
Restart(p, d) ==
    /\ d \in mine
    /\ Start(p, "subscribing", "restart", d, None)
    /\ outcome' = [outcome EXCEPT ![p] = "none"]
    /\ answered' = answered \ {p} /\ deaf' = deaf \ {p}
    /\ UNCHANGED <<subs, commands, answers>>

\* Mutant of Subscribe: a refusal of the broker goes unnoticed.
SubscribeUnchecked(p) ==
    /\ pc[p] = "subscribing"
    /\ subs' \in {subs, subs \cup {<<NodeOf[p], task[p].dev>>}}
    /\ GoOn(p, "subscribed")
    /\ UNCHANGED <<tables, calls, commands, answers, answered, deaf, outcome>>

\* The broker grants the subscription, or the request fails.
Subscribe(p) ==
    /\ pc[p] = "subscribing"
    /\ \/ /\ subs' = subs \cup {<<NodeOf[p], task[p].dev>>}
          /\ GoOn(p, "subscribed")
          /\ UNCHANGED outcome
       \/ /\ End(p)
          /\ outcome' = [outcome EXCEPT ![p] = "error"]
          /\ UNCHANGED subs
    /\ UNCHANGED <<tables, calls, commands, answers, answered, deaf>>

\* After the acknowledgement: listener, timer and publish, in one turn of the event loop.
Command(p) ==
    /\ pc[p] = "subscribed"
    /\ commands' = [commands EXCEPT ![task[p].dev] = @ + 1]
    /\ GoOn(p, "listening")
    /\ UNCHANGED <<tables, calls, subs, answers, answered, deaf, outcome>>

\* cleanup for the requests in P of one node: each removes its listener and its timer,
\* and unsubscribes the topic, whoever else of the node needs it.
CleanUp(P, n, d, result) ==
    /\ subs' = subs \ {<<n, d>>}
    /\ pc' = [p \in Process |-> IF p \in P THEN "idle" ELSE pc[p]]
    /\ task' = [p \in Process |-> IF p \in P THEN Nothing ELSE task[p]]
    /\ outcome' = [p \in Process |-> IF p \in P THEN result ELSE outcome[p]]
    /\ deaf' = deaf \cup {p \in Process \ P : /\ NodeOf[p] = n /\ task[p].dev = d
                                              /\ pc[p] \in {"subscribed", "listening"}}

Timeout(p) ==
    /\ pc[p] = "listening"
    /\ CleanUp({p}, NodeOf[p], task[p].dev, "silence")
    /\ UNCHANGED <<tables, calls, commands, answers, answered>>

\* The publish is refused, and the command has not left the node.  The caller is told
\* the same as after a timeout: cleanup(false).
PublishFails(p) ==
    /\ pc[p] = "listening"
    /\ commands[task[p].dev] > 0
    /\ commands' = [commands EXCEPT ![task[p].dev] = @ - 1]
    /\ CleanUp({p}, NodeOf[p], task[p].dev, "silence")
    /\ UNCHANGED <<tables, calls, answers, answered>>

\* The device answers a command on the same topic, and the broker passes the answer on.
Reply(d) ==
    /\ commands[d] > 0
    /\ commands' = [commands EXCEPT ![d] = @ - 1]
    /\ answers' = answers \cup {s \in subs : s[2] = d}
    /\ answered' = answered \cup {p \in Process : pc[p] = "listening" /\ task[p].dev = d}
    /\ UNCHANGED <<tables, pc, task, calls, subs, deaf, outcome>>

\* A device that is off never answers.
Ignore(d) ==
    /\ commands[d] > 0
    /\ commands' = [commands EXCEPT ![d] = @ - 1]
    /\ UNCHANGED <<tables, pc, task, calls, subs, answers, answered, deaf, outcome>>

\* Every listener of the node for this topic takes the answer as its own.
Hear(n, d) ==
    LET P == {p \in Process : pc[p] = "listening" /\ NodeOf[p] = n /\ task[p].dev = d} IN
    /\ <<n, d>> \in answers
    /\ answers' = answers \ {<<n, d>>}
    /\ IF P = {} THEN UNCHANGED <<subs, pc, task, outcome, deaf>>
       ELSE CleanUp(P, n, d, "ok")
    /\ UNCHANGED <<tables, calls, commands, answered>>

-----------------------------------------------------------------------------

Grouping(p) ==
    \/ \E d \in Device, g \in Group : AddFind(p, d, g) \/ RemoveFind(p, d, g)
    \/ \E g \in Group : SetGroupFind(p, g)
    \/ AddAssigned(p) \/ AddMutex(p) \/ AddWrite(p) \/ RemoveWrite(p) \/ SetGroupWrite(p)

Setting(p) == SetWrite(p) \/ \E d \in Device : SetFind(p, d)

Restarting(p) ==
    \/ \E d \in Device : Restart(p, d)
    \/ Subscribe(p) \/ Command(p) \/ Timeout(p) \/ PublishFails(p)

ControlNext ==
    \/ \E p \in Process : Grouping(p) \/ Setting(p) \/ Restarting(p)
    \/ \E g \in Group : CreateGroup(g) \/ RemoveGroupThreshold(g) \/ DeleteGroup(g)
    \/ \E d \in Device : RemoveThreshold(d) \/ ChangeOwner(d) \/ Reply(d) \/ Ignore(d)
    \/ \E n \in Node, d \in Device : Hear(n, d)

ControlSpec == ControlInit /\ [][ControlNext]_controlVars

-----------------------------------------------------------------------------
(* Properties *)

\* A device is in a group or has thresholds of its own, not both, which the alert engine
\* relies on to know whose limits apply; the one way to both is a grouping call and a
\* threshold call for the device at the same time, each past the other's check.
ThresholdsExclusive == \A d \in own : groupId[d] # None => d \in overlapped

\* A restart that is reported as "No response from device", after a timeout or a refused
\* publish, had none: the device answered nobody while the request was listening, or its
\* answer is still on the way, or another request for the device on the same node has
\* ended in the meantime and taken the node's subscription with it (176-190).
AnswerIsHeard ==
    [][\A p \in Process :
          outcome'[p] = "silence" /\ outcome[p] # "silence" =>
              \/ p \notin answered
              \/ p \in deaf
              \/ <<NodeOf[p], task[p].dev>> \in answers]_controlVars
=============================================================================
