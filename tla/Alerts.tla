------------------------------- MODULE Alerts -------------------------------
(***************************************************************************)
(* Alert evaluation (src/src/alerts/alerts.service.ts) of the readings of  *)
(* one device for the user it is assigned to, on the AlertState, EventLog  *)
(* and Notification tables.  An Evaluator is one call of evaluate, made by *)
(* a telemetry handler after its transaction (module DevicePipeline), on   *)
(* any node: nothing keeps two readings of a device from being evaluated at*)
(* the same time.  The user changes thresholds meanwhile.                  *)
(***************************************************************************)
EXTENDS Integers, FiniteSets

CONSTANTS
    Parameter,      \* metrics
    Value,          \* values a metric of a reading can have
    Reading,        \* readings of the device: a value of each metric, or None
    Profile,        \* threshold records: a limit for each metric, or None
    Default,        \* DEFAULT_THRESHOLDS
    Evaluator,      \* concurrent calls of evaluate
    MaxReadings,    \* bound: calls of evaluate
    MaxFailures,    \* bound: calls that die half way
    None            \* null

ASSUME AlertsAssumption ==
    /\ Value \subseteq Int
    /\ Reading \subseteq [Parameter -> Value \cup {None}]
    /\ \A f \in Profile : f \in [Parameter -> Nat \cup {None}]
    /\ Default \in Profile
    /\ MaxReadings \in Nat /\ MaxFailures \in Nat
    /\ None \notin Int \cup Parameter \cup {"TRIGGERED", "RESOLVED"}
    /\ IsFiniteSet(Parameter)

State  == {"NORMAL", "ALERTING"}
Notice == {"TRIGGERED", "RESOLVED"}

VARIABLES
    readings, failures, \* counters for the bounds
    own,        \* the device's DeviceThreshold row, or None
    group,      \* the GroupThreshold row of the device's group, or None
    state,      \* AlertState.state; a missing row reads as NORMAL
    newest,     \* the newest EventLog row about each metric
    basis,      \* the value and the limit that row was written for
    notices,    \* how many such rows there are
    disturbed,  \* history: the metrics whose newest notice was disturbed, see Clashing
    pc,         \* where an evaluator is
    reading,    \* the values it evaluates
    limits,     \* the thresholds it has chosen
    seen,       \* stateMap, read once
    todo,       \* the metrics it has not reached yet
    saving      \* the metric whose state it is about to write

tables == <<own, group>>
log    == <<newest, basis, notices>>
call   == <<pc, reading, limits, seen, todo, saving>>
vars   == <<readings, failures, tables, state, log, disturbed, call>>

Basis   == [value : Value, limit : Nat]

PC == {"idle", "own", "group", "states", "evaluating", "saving"}

NoReading == [p \in Parameter |-> None]
AllNormal == [p \in Parameter |-> "NORMAL"]

\* A value is judged only against a limit, by an evaluator with something to do.
TypeOK ==
    /\ readings \in Nat /\ failures \in Nat
    /\ own \in Profile \cup {None} /\ group \in Profile \cup {None}
    /\ state \in [Parameter -> State]
    /\ newest \in [Parameter -> Notice \cup {None}]
    /\ basis \in [Parameter -> Basis \cup {None}]
    /\ notices \in [Parameter -> Nat]
    /\ disturbed \subseteq Parameter
    /\ pc \in [Evaluator -> PC]
    /\ reading \in [Evaluator -> [Parameter -> Value \cup {None}]]
    /\ limits \in [Evaluator -> Profile]
    /\ seen \in [Evaluator -> [Parameter -> State]]
    /\ todo \in [Evaluator -> SUBSET Parameter]
    /\ saving \in [Evaluator -> Parameter \cup {None}]
    /\ \A e \in Evaluator :
          /\ pc[e] = "saving" <=> saving[e] # None
          /\ todo[e] # {} => pc[e] \in {"evaluating", "saving"}
          /\ \A p \in todo[e] : reading[e][p] # None /\ limits[e][p] # None

Init ==
    /\ readings = 0 /\ failures = 0
    /\ own = None /\ group = None
    /\ state = AllNormal
    /\ newest = [p \in Parameter |-> None]
    /\ basis = [p \in Parameter |-> None]
    /\ notices = [p \in Parameter |-> 0]
    /\ disturbed = {}
    /\ pc = [e \in Evaluator |-> "idle"]
    /\ reading = [e \in Evaluator |-> NoReading]
    /\ limits = [e \in Evaluator |-> Default]
    /\ seen = [e \in Evaluator |-> AllNormal]
    /\ todo = [e \in Evaluator |-> {}]
    /\ saving = [e \in Evaluator |-> None]

-----------------------------------------------------------------------------
(* evaluate: the hierarchy of thresholds *)

Done(e) ==
    /\ pc' = [pc EXCEPT ![e] = "idle"]
    /\ reading' = [reading EXCEPT ![e] = NoReading]
    /\ limits' = [limits EXCEPT ![e] = Default]
    /\ seen' = [seen EXCEPT ![e] = AllNormal]
    /\ todo' = [todo EXCEPT ![e] = {}]
    /\ saving' = [saving EXCEPT ![e] = None]

Goes(e, there) == pc' = [pc EXCEPT ![e] = there]

Evaluate(e, r) ==
    /\ pc[e] = "idle"
    /\ readings < MaxReadings
    /\ readings' = readings + 1
    /\ Goes(e, "own")
    /\ reading' = [reading EXCEPT ![e] = r]
    /\ UNCHANGED <<failures, tables, state, log, disturbed, limits, seen, todo, saving>>

\* The device's own thresholds come first.
ReadDeviceThreshold(e) ==
    /\ pc[e] = "own"
    /\ IF own # None
       THEN Goes(e, "states") /\ limits' = [limits EXCEPT ![e] = own]
       ELSE Goes(e, "group") /\ UNCHANGED limits
    /\ UNCHANGED <<readings, failures, tables, state, log, disturbed, reading, seen, todo,
                   saving>>

\* Then those of its group, then the defaults.
ReadGroupThreshold(e) ==
    /\ pc[e] = "group"
    /\ Goes(e, "states")
    /\ limits' = [limits EXCEPT ![e] = IF group # None THEN group ELSE Default]
    /\ UNCHANGED <<readings, failures, tables, state, log, disturbed, reading, seen, todo,
                   saving>>

-----------------------------------------------------------------------------
(* evaluateWithThresholds, triggerAlert, resolveAlert *)

\* A metric that one call has logged a notice about and not yet written the state of,
\* while another call is at it, or has read its state and will come to it.
Clashing ==
    {p \in Parameter : \E e, f \in Evaluator :
        e # f /\ saving[e] = p /\ (saving[f] = p \/ p \in todo[f])}

Metrics(e) == {p \in Parameter : limits[e][p] # None /\ reading[e][p] # None}

\* The assignment, which module DeviceOwnership moves, and the states of the
\* metrics that have a limit.  Nobody assigned ends the call.
ReadStates(e) ==
    /\ pc[e] = "states"
    /\ \/ Done(e) /\ UNCHANGED disturbed
       \/ /\ Goes(e, "evaluating")
          /\ seen' = [seen EXCEPT ![e] = state]
          /\ todo' = [todo EXCEPT ![e] = Metrics(e)]
          /\ UNCHANGED <<reading, limits, saving>>
          /\ disturbed' = disturbed \cup Clashing'
    /\ UNCHANGED <<readings, failures, tables, state, log>>

Exceeds(v, limit) == v > limit

\* Mutant of Resolves: no hysteresis.
ResolvesAtLimit(v, limit) == v <= limit

\* value < threshold - max(1, 5 %), in hundredths.
Resolves(v, limit) == 100 * v < 100 * limit - (IF limit > 20 THEN 5 * limit ELSE 100)

\* Mutant of Triggers: the state does not suppress anything.
TriggersAgain(e, p) == Exceeds(reading[e][p], limits[e][p])

Triggers(e, p) == seen[e][p] = "NORMAL" /\ Exceeds(reading[e][p], limits[e][p])

Resolving(e, p) == seen[e][p] = "ALERTING" /\ Resolves(reading[e][p], limits[e][p])

\* The loop over the thresholds reaches p.
Turn(e, p) == pc[e] = "evaluating" /\ p \in todo[e]

\* A turn that changes nothing.
Skip(e, p) ==
    /\ Turn(e, p)
    /\ ~Triggers(e, p) /\ ~Resolving(e, p)
    /\ todo' = [todo EXCEPT ![e] = @ \ {p}]
    /\ UNCHANGED <<readings, failures, tables, state, log, disturbed, pc, reading, limits,
                   seen, saving>>

\* EventLog and Notification rows; the state is written by a later query.  The notice
\* supersedes what disturbed the one before.
Log(e, p, notice) ==
    /\ newest' = [newest EXCEPT ![p] = notice]
    /\ basis' = [basis EXCEPT ![p] = [value |-> reading[e][p], limit |-> limits[e][p]]]
    /\ notices' = [notices EXCEPT ![p] = @ + 1]
    /\ todo' = [todo EXCEPT ![e] = @ \ {p}]
    /\ saving' = [saving EXCEPT ![e] = p]
    /\ Goes(e, "saving")
    /\ disturbed' = (disturbed \ {p}) \cup Clashing'
    /\ UNCHANGED <<readings, failures, tables, state, reading, limits, seen>>

TriggerAlert(e, p) == Turn(e, p) /\ Triggers(e, p) /\ Log(e, p, "TRIGGERED")

ResolveAlert(e, p) == Turn(e, p) /\ Resolving(e, p) /\ Log(e, p, "RESOLVED")

\* Mutant of NewState: resolving leaves the row as it was.
KeptState(e) == "ALERTING"

NewState(e) == IF seen[e][saving[e]] = "NORMAL" THEN "ALERTING" ELSE "NORMAL"

Upsert(p, s) == state' = [state EXCEPT ![p] = s]

\* Mutant of SaveState: the call returns instead of going on with its loop.
SaveAndReturn(e) ==
    /\ pc[e] = "saving"
    /\ Upsert(saving[e], NewState(e))
    /\ Done(e)
    /\ UNCHANGED <<readings, failures, tables, log, disturbed>>

\* upsertAlertState, then the SSE push.
SaveState(e) ==
    /\ pc[e] = "saving"
    /\ Upsert(saving[e], NewState(e))
    /\ Goes(e, "evaluating")
    /\ saving' = [saving EXCEPT ![e] = None]
    /\ UNCHANGED <<readings, failures, tables, log, disturbed, reading, limits, seen, todo>>

Finish(e) ==
    /\ pc[e] = "evaluating"
    /\ todo[e] = {}
    /\ Done(e)
    /\ UNCHANGED <<readings, failures, tables, state, log, disturbed>>

\* A rejected query or a dead node ends the call where it is.
Fails(e) ==
    /\ pc[e] # "idle"
    /\ failures < MaxFailures
    /\ failures' = failures + 1
    /\ Done(e)
    /\ disturbed' = disturbed \cup ({saving[e]} \ {None})
    /\ UNCHANGED <<readings, tables, state, log>>

-----------------------------------------------------------------------------
(* Thresholds are set and removed by the user, for the device or the group *)

ChangeThreshold ==
    /\ \/ own' \in (Profile \cup {None}) \ {own} /\ UNCHANGED group
       \/ group' \in (Profile \cup {None}) \ {group} /\ UNCHANGED own
    /\ UNCHANGED <<readings, failures, state, log, disturbed, call>>

EvaluatorStep(e) ==
    \/ \E r \in Reading : Evaluate(e, r)
    \/ ReadDeviceThreshold(e)
    \/ ReadGroupThreshold(e)
    \/ ReadStates(e)
    \/ \E p \in Parameter : Skip(e, p) \/ TriggerAlert(e, p) \/ ResolveAlert(e, p)
    \/ SaveState(e)
    \/ Finish(e)
    \/ Fails(e)

Next == ChangeThreshold \/ \E e \in Evaluator : EvaluatorStep(e)

Spec == Init /\ [][Next]_vars

-----------------------------------------------------------------------------
(* What the engine owes the user *)

\* However many calls overlap, the two kinds of notice about a metric take turns, and
\* one is sent twice only after the notice before was disturbed: its call died before
\* the state was written (138-154), or another call was at the same metric with the
\* states it had read before (79-116).
Protocol == INSTANCE AlertProtocol
    WITH Parameter <- Parameter, None <- None,
         newest <- newest, notices <- notices, disturbed <- disturbed

ImplementsProtocol == Protocol!Spec

\* Anti-flicker: when an alert follows a resolution against the same limit, the
\* value has really climbed by more than the hysteresis, one unit at least, over
\* however many calls, failures and threshold changes in between (92-93).
NoFlicker ==
    [][\A p \in Parameter :
          /\ newest[p] = "RESOLVED" /\ newest'[p] = "TRIGGERED"
          /\ basis[p].limit = basis'[p].limit
          => /\ basis'[p].value - basis[p].value > 1
             /\ 100 * (basis'[p].value - basis[p].value) > 5 * basis[p].limit]_vars

\* The state that suppresses the next alert is the one the user was last told, unless
\* that notice was disturbed or its call is about to write the state.  A disturbance
\* ends with the next notice about the metric that no other call contends with
\* (146-154, 192-198).
StateIsWhatWasTold ==
    \A p \in Parameter \ disturbed :
        (\A e \in Evaluator : saving[e] # p)
        => (state[p] = "ALERTING" <=> newest[p] = "TRIGGERED")

\* A call that gets past a metric it found above its limit, because the loop has
\* reached it or because the loop has ended, leaves the user alerted about it, by a
\* notice of its own or an earlier one (79-116), unless the call fails there or the
\* newest notice about the metric was disturbed.
BreachIsTold ==
    [][\A e \in Evaluator : \A p \in todo[e] \ (todo'[e] \cup disturbed') :
          Exceeds(reading[e][p], limits[e][p]) /\ failures' = failures
          => newest'[p] = "TRIGGERED"]_vars
=============================================================================
