----------------------------- MODULE AlertsProofs -----------------------------
(***************************************************************************)
(* What holds of the alert engine for every set of metrics, values and     *)
(* threshold records, and any number of readings, failures and calls at the *)
(* same time.                                                              *)
(***************************************************************************)
EXTENDS Alerts, TLAPS

-----------------------------------------------------------------------------
(* Types *)

LEMMA DoneType ==
    ASSUME TypeOK, NEW e \in Evaluator, Done(e)
    PROVE  /\ pc' \in [Evaluator -> PC]
           /\ reading' \in [Evaluator -> [Parameter -> Value \cup {None}]]
           /\ limits' \in [Evaluator -> Profile]
           /\ seen' \in [Evaluator -> [Parameter -> State]]
           /\ todo' \in [Evaluator -> SUBSET Parameter]
           /\ saving' \in [Evaluator -> Parameter \cup {None}]
           /\ \A f \in Evaluator :
                 /\ pc'[f] = "saving" <=> saving'[f] # None
                 /\ todo'[f] # {} => pc'[f] \in {"evaluating", "saving"}
                 /\ \A p \in todo'[f] : reading'[f][p] # None /\ limits'[f][p] # None
  <1>1. NoReading \in [Parameter -> Value \cup {None}] BY DEF NoReading
  <1>2. AllNormal \in [Parameter -> State] BY DEF AllNormal, State
  <1>3. Default \in Profile BY AlertsAssumption DEF AlertsAssumption
  <1>4. "idle" \in PC BY DEF PC
  <1> QED BY <1>1, <1>2, <1>3, <1>4 DEF TypeOK, Done

\* The loop's two ways to log a notice are type correct.
LEMMA LogType ==
    ASSUME TypeOK, NEW e \in Evaluator, NEW p \in Parameter, NEW n \in Notice,
           Turn(e, p), Log(e, p, n)
    PROVE  TypeOK'
  <1>1. reading[e][p] \in Value /\ limits[e][p] \in Nat
    BY AlertsAssumption DEF TypeOK, Turn, AlertsAssumption
  <1>2. basis' \in [Parameter -> Basis \cup {None}]
    BY <1>1 DEF TypeOK, Log, Basis
  <1>3. pc' \in [Evaluator -> PC] /\ saving' \in [Evaluator -> Parameter \cup {None}]
    BY DEF TypeOK, Log, Goes, PC
  <1>4. \A f \in Evaluator : /\ pc'[f] = "saving" <=> saving'[f] # None
                             /\ todo'[f] # {} => pc'[f] \in {"evaluating", "saving"}
    BY AlertsAssumption DEF TypeOK, Log, Goes, Turn, AlertsAssumption
  <1>5. newest' \in [Parameter -> Notice \cup {None}] BY DEF TypeOK, Log
  <1>6. /\ notices' \in [Parameter -> Nat]
        /\ disturbed' \subseteq Parameter
    BY DEF TypeOK, Log, Clashing
  <1>7. todo' \in [Evaluator -> SUBSET Parameter] /\ \A f \in Evaluator : todo'[f] \subseteq todo[f]
    BY DEF TypeOK, Log
  <1> QED BY <1>2, <1>3, <1>4, <1>5, <1>6, <1>7 DEF TypeOK, Log, tables

LEMMA TypeStep == TypeOK /\ [Next]_vars => TypeOK'
  <1> SUFFICES ASSUME TypeOK, [Next]_vars PROVE TypeOK'
    OBVIOUS
  <1>1. ASSUME ChangeThreshold PROVE TypeOK'
    BY <1>1 DEF ChangeThreshold, TypeOK, log, call
  <1>2. ASSUME NEW e \in Evaluator, NEW r \in Reading, Evaluate(e, r) PROVE TypeOK'
    <2>1. /\ pc' \in [Evaluator -> PC]
          /\ reading' \in [Evaluator -> [Parameter -> Value \cup {None}]]
      BY <1>2, AlertsAssumption DEF Evaluate, Goes, TypeOK, PC, AlertsAssumption
    <2>2. \A f \in Evaluator :
             /\ pc'[f] = "saving" <=> saving'[f] # None
             /\ todo'[f] # {} => pc'[f] \in {"evaluating", "saving"}
      BY <1>2 DEF Evaluate, Goes, TypeOK
    <2>3. readings' \in Nat BY <1>2 DEF Evaluate, TypeOK
    <2>4. \A f \in Evaluator : \A p \in todo'[f] : reading'[f][p] # None /\ limits'[f][p] # None
      BY <1>2 DEF Evaluate, TypeOK
    <2> QED BY <1>2, <2>1, <2>2, <2>3, <2>4 DEF Evaluate, TypeOK, tables, log
  <1>3. ASSUME NEW e \in Evaluator, ReadDeviceThreshold(e) \/ ReadGroupThreshold(e)
        PROVE TypeOK'
    <2>1. pc' \in [Evaluator -> PC]
      BY <1>3 DEF ReadDeviceThreshold, ReadGroupThreshold, Goes, TypeOK, PC
    <2>2. limits' \in [Evaluator -> Profile]
      BY <1>3, AlertsAssumption
      DEF ReadDeviceThreshold, ReadGroupThreshold, TypeOK, AlertsAssumption
    <2>3. \A f \in Evaluator :
             /\ pc'[f] = "saving" <=> saving'[f] # None
             /\ todo'[f] # {} => pc'[f] \in {"evaluating", "saving"}
      BY <1>3 DEF ReadDeviceThreshold, ReadGroupThreshold, Goes, TypeOK
    <2>4. /\ todo[e] = {} /\ todo' = todo /\ reading' = reading
          /\ \A f \in Evaluator \ {e} : limits'[f] = limits[f]
      BY <1>3 DEF ReadDeviceThreshold, ReadGroupThreshold, TypeOK
    <2>5. \A f \in Evaluator : \A p \in todo'[f] : reading'[f][p] # None /\ limits'[f][p] # None
      BY <2>4 DEF TypeOK
    <2> QED BY <1>3, <2>1, <2>2, <2>3, <2>5
            DEF ReadDeviceThreshold, ReadGroupThreshold, TypeOK, tables, log
  <1>4. ASSUME NEW e \in Evaluator, ReadStates(e) PROVE TypeOK'
    <2>1. CASE Done(e)
      <3>1. disturbed' \subseteq Parameter BY <1>4 DEF ReadStates, TypeOK, Clashing
      <3> QED BY <1>4, <2>1, <3>1, DoneType DEF ReadStates, TypeOK, tables, log
    <2>2. CASE ~Done(e)
      <3>1. /\ Goes(e, "evaluating")
            /\ seen' = [seen EXCEPT ![e] = state]
            /\ todo' = [todo EXCEPT ![e] = Metrics(e)]
            /\ UNCHANGED <<reading, limits, saving>>
        BY <1>4, <2>2 DEF ReadStates
      <3>2. pc' \in [Evaluator -> PC] /\ seen' \in [Evaluator -> [Parameter -> State]]
        BY <3>1 DEF Goes, TypeOK, PC
      <3>3. todo' \in [Evaluator -> SUBSET Parameter] BY <3>1 DEF Metrics, TypeOK
      <3>6. disturbed' \subseteq Parameter
        BY <1>4, <2>2 DEF ReadStates, TypeOK, Clashing
      <3>4. \A f \in Evaluator :
               /\ pc'[f] = "saving" <=> saving'[f] # None
               /\ todo'[f] # {} => pc'[f] \in {"evaluating", "saving"}
        BY <1>4, <3>1 DEF ReadStates, Goes, TypeOK
      <3>5. \A f \in Evaluator : \A p \in todo'[f] : reading'[f][p] # None /\ limits'[f][p] # None
        BY <3>1 DEF Metrics, TypeOK
      <3> QED BY <1>4, <3>1, <3>2, <3>3, <3>4, <3>5, <3>6 DEF ReadStates, TypeOK, tables, log
    <2> QED BY <2>1, <2>2
  <1>5. ASSUME NEW e \in Evaluator, NEW p \in Parameter, Skip(e, p) PROVE TypeOK'
    <2>1. todo' \in [Evaluator -> SUBSET Parameter] /\ \A f \in Evaluator : todo'[f] \subseteq todo[f]
      BY <1>5 DEF Skip, TypeOK
    <2> QED BY <1>5, <2>1 DEF Skip, TypeOK, tables, log
  <1>6. ASSUME NEW e \in Evaluator, NEW p \in Parameter, TriggerAlert(e, p) \/ ResolveAlert(e, p)
        PROVE TypeOK'
    BY <1>6, LogType DEF TriggerAlert, ResolveAlert, Notice
  <1>7. ASSUME NEW e \in Evaluator, SaveState(e) PROVE TypeOK'
    <2>1. NewState(e) \in State BY DEF NewState, State
    <2>2. state' \in [Parameter -> State] BY <1>7, <2>1 DEF SaveState, Upsert, TypeOK
    <2>3. pc' \in [Evaluator -> PC] BY <1>7 DEF SaveState, Goes, TypeOK, PC
    <2>4. \A f \in Evaluator :
             /\ pc'[f] = "saving" <=> saving'[f] # None
             /\ todo'[f] # {} => pc'[f] \in {"evaluating", "saving"}
      BY <1>7 DEF SaveState, Goes, TypeOK
    <2> QED BY <1>7, <2>2, <2>3, <2>4 DEF SaveState, TypeOK, tables, log
  <1>8. ASSUME NEW e \in Evaluator, Finish(e) PROVE TypeOK'
    BY <1>8, DoneType DEF Finish, TypeOK, tables, log
  <1>9. ASSUME NEW e \in Evaluator, Fails(e) PROVE TypeOK'
    <2>1. failures' \in Nat /\ disturbed' \subseteq Parameter
      BY <1>9 DEF Fails, TypeOK
    <2> QED BY <1>9, <2>1, DoneType DEF Fails, TypeOK, tables, log
  <1>10. CASE UNCHANGED vars
    BY <1>10 DEF vars, tables, log, call, TypeOK
  <1> QED
    BY <1>1, <1>2, <1>3, <1>4, <1>5, <1>6, <1>7, <1>8, <1>9, <1>10 DEF Next, EvaluatorStep

LEMMA TypeInit == Init => TypeOK
  <1> SUFFICES ASSUME Init PROVE TypeOK
    OBVIOUS
  <1>1. state \in [Parameter -> State] /\ seen \in [Evaluator -> [Parameter -> State]]
    BY DEF Init, AllNormal, State
  <1>2. pc \in [Evaluator -> PC] BY DEF Init, PC
  <1>3. reading \in [Evaluator -> [Parameter -> Value \cup {None}]]
    BY DEF Init, NoReading
  <1>4. limits \in [Evaluator -> Profile]
    BY AlertsAssumption DEF Init, AlertsAssumption
  <1>5. /\ newest \in [Parameter -> Notice \cup {None}]
        /\ basis \in [Parameter -> Basis \cup {None}]
        /\ notices \in [Parameter -> Nat]
    BY DEF Init
  <1>6. /\ todo \in [Evaluator -> SUBSET Parameter]
        /\ saving \in [Evaluator -> Parameter \cup {None}]
    BY DEF Init
  <1>7. \A e \in Evaluator : todo[e] = {} /\ saving[e] = None /\ pc[e] = "idle" BY DEF Init
  <1> QED BY <1>1, <1>2, <1>3, <1>4, <1>5, <1>6, <1>7 DEF Init, TypeOK

\* The tables and the calls keep their types: a value is judged only against a limit, by
\* a call that has something to do.
THEOREM TypeCorrect == Spec => []TypeOK
  BY TypeInit, TypeStep, PTL DEF Spec

-----------------------------------------------------------------------------
(* The hysteresis *)

\* The newest notice about a metric says RESOLVED only of a value below its band.
Calmed ==
    \A p \in Parameter :
        newest[p] = "RESOLVED" => basis[p] \in Basis /\ Resolves(basis[p].value, basis[p].limit)

LEMMA CalmedStep == TypeOK /\ Calmed /\ [Next]_vars => Calmed'
  <1> SUFFICES ASSUME TypeOK, Calmed, [Next]_vars PROVE Calmed'
    OBVIOUS
  <1>1. ASSUME NEW e \in Evaluator, NEW p \in Parameter, TriggerAlert(e, p) PROVE Calmed'
    BY <1>1 DEF TriggerAlert, Log, Calmed, TypeOK, Resolves
  <1>2. ASSUME NEW e \in Evaluator, NEW p \in Parameter, ResolveAlert(e, p) PROVE Calmed'
    <2>1. reading[e][p] \in Value /\ limits[e][p] \in Nat
      BY <1>2, AlertsAssumption DEF ResolveAlert, Turn, TypeOK, AlertsAssumption
    <2>2. /\ basis'[p] = [value |-> reading[e][p], limit |-> limits[e][p]]
          /\ \A q \in Parameter \ {p} : basis'[q] = basis[q] /\ newest'[q] = newest[q]
      BY <1>2 DEF ResolveAlert, Log, TypeOK
    <2>3. basis'[p] \in Basis BY <2>1, <2>2 DEF Basis
    <2>4. Resolves(basis'[p].value, basis'[p].limit) BY <1>2, <2>2 DEF ResolveAlert, Resolving
    <2> HIDE DEF Resolves
    <2> QED BY <2>2, <2>3, <2>4 DEF Calmed
  <1>3. ASSUME UNCHANGED log PROVE Calmed'
    BY <1>3 DEF log, Calmed, Resolves
  <1>4. ASSUME NEW e \in Evaluator, SaveState(e) PROVE Calmed'
    BY <1>3, <1>4 DEF SaveState
  <1> QED
    BY <1>1, <1>2, <1>3, <1>4
    DEF Next, EvaluatorStep, ChangeThreshold, Evaluate, ReadDeviceThreshold,
        ReadGroupThreshold, ReadStates, Skip, Finish, Fails, vars

\* The arithmetic of lines 90-91: from below the band to above the limit is a climb of
\* more than one unit and more than 5 % of the limit.
LEMMA BandWidth ==
    ASSUME NEW v \in Int, NEW w \in Int, NEW l \in Nat, Resolves(v, l), Exceeds(w, l)
    PROVE  w - v > 1 /\ 100 * (w - v) > 5 * l
  BY DEF Resolves, Exceeds

\* An alert never follows a resolution against the same limit unless the value has
\* climbed by more than the hysteresis, with any number of calls at the same time.
THEOREM NoFlickerCorrect == Spec => NoFlicker
  <1>1. Init => Calmed BY AlertsAssumption DEF Init, Calmed, AlertsAssumption
  <1>2. TypeOK /\ Calmed /\ [Next]_vars =>
          [\A p \in Parameter :
              /\ newest[p] = "RESOLVED" /\ newest'[p] = "TRIGGERED"
              /\ basis[p].limit = basis'[p].limit
              => /\ basis'[p].value - basis[p].value > 1
                 /\ 100 * (basis'[p].value - basis[p].value) > 5 * basis[p].limit]_vars
    <2> SUFFICES ASSUME TypeOK, Calmed, Next, NEW p \in Parameter,
                        newest[p] = "RESOLVED", newest'[p] = "TRIGGERED",
                        basis[p].limit = basis'[p].limit
                 PROVE  /\ basis'[p].value - basis[p].value > 1
                        /\ 100 * (basis'[p].value - basis[p].value) > 5 * basis[p].limit
      OBVIOUS
    <2>1. PICK e \in Evaluator : TriggerAlert(e, p)
      <3>1. newest' # newest OBVIOUS
      <3>2. PICK e \in Evaluator, q \in Parameter : TriggerAlert(e, q) \/ ResolveAlert(e, q)
        BY <3>1
        DEF Next, EvaluatorStep, ChangeThreshold, Evaluate, ReadDeviceThreshold,
            ReadGroupThreshold, ReadStates, Skip, Finish, Fails, SaveState, log
      <3>3. CASE TriggerAlert(e, q)
        <4>1. newest' = [newest EXCEPT ![q] = "TRIGGERED"] BY <3>3 DEF TriggerAlert, Log
        <4>2. q = p BY <4>1 DEF TypeOK
        <4> QED BY <3>3, <4>2
      <3>4. CASE ResolveAlert(e, q)
        BY <3>4 DEF ResolveAlert, Log, TypeOK
      <3> QED BY <3>2, <3>3, <3>4
    <2>2. reading[e][p] \in Int /\ limits[e][p] \in Nat
      <3>1. reading[e][p] \in Value /\ limits[e][p] \in Nat
        BY <2>1, AlertsAssumption DEF TriggerAlert, Turn, TypeOK, AlertsAssumption
      <3> QED BY <3>1, AlertsAssumption DEF AlertsAssumption
    <2>3. basis'[p].value = reading[e][p] /\ basis'[p].limit = limits[e][p]
      BY <2>1 DEF TriggerAlert, Log, TypeOK
    <2>4. Exceeds(reading[e][p], limits[e][p]) BY <2>1 DEF TriggerAlert, Triggers
    <2>5. basis[p].value \in Int /\ Resolves(basis[p].value, basis[p].limit)
      BY AlertsAssumption DEF Calmed, Basis, AlertsAssumption
    <2> QED BY <2>2, <2>3, <2>4, <2>5, BandWidth
  <1> QED BY <1>1, <1>2, TypeInit, TypeStep, CalmedStep, PTL DEF Spec, NoFlicker

-----------------------------------------------------------------------------
(* Notices and states, with any number of calls at the same time *)

\* The state of a metric is what its newest notice says.
Told(p) == newest[p] = "TRIGGERED" <=> state[p] = "ALERTING"

\* Nobody contends with the call that is about to write the state of p, which then says
\* what its notice said; with no such call it does so already.  Whoever comes to p later
\* has read its state as it is.
Undisturbed(p) ==
    /\ p \notin Clashing
    /\ (\A e \in Evaluator : saving[e] # p) => Told(p)
    /\ \A e \in Evaluator : saving[e] = p =>
          newest[p] = IF seen[e][p] = "NORMAL" THEN "TRIGGERED" ELSE "RESOLVED"
    /\ \A e \in Evaluator : p \in todo[e] => seen[e][p] = state[p]

\* A metric nobody was told about is NORMAL, and everybody knows it as such.
Unheard(p) ==
    newest[p] = None =>
        /\ state[p] = "NORMAL"
        /\ \A e \in Evaluator : seen[e][p] = "NORMAL" /\ saving[e] # p

Engine ==
    /\ \A e \in Evaluator : saving[e] \notin todo[e]
    /\ \A p \in Parameter : Unheard(p)
    /\ \A p \in Parameter \ disturbed : Undisturbed(p)

LEMMA EngineInit == Init => Engine
  <1> SUFFICES ASSUME Init PROVE Engine
    OBVIOUS
  <1>1. \A e \in Evaluator : todo[e] = {} /\ saving[e] = None BY DEF Init
  <1>2. \A p \in Parameter : newest[p] = None /\ state[p] = "NORMAL"
    BY DEF Init, AllNormal
  <1>3. \A e \in Evaluator : \A p \in Parameter : seen[e][p] = "NORMAL"
    BY DEF Init, AllNormal
  <1>4. None \notin Parameter /\ None # "TRIGGERED" BY AlertsAssumption DEF AlertsAssumption
  <1> QED BY <1>1, <1>2, <1>3, <1>4 DEF Engine, Unheard, Undisturbed, Clashing, Told

\* Steps that log nothing, write no state and read none: what a call has to do may shrink,
\* and one that is about to save may die if that is recorded.
LEMMA QuietStep ==
    ASSUME TypeOK, Engine, UNCHANGED <<state, newest>>, disturbed \subseteq disturbed',
           \A e \in Evaluator : todo'[e] \subseteq todo[e],
           \A e \in Evaluator : saving'[e] # saving[e] =>
               saving'[e] = None /\ saving[e] \in disturbed',
           \A e \in Evaluator : seen'[e] # seen[e] =>
               seen'[e] = AllNormal /\ todo'[e] = {} /\ saving'[e] = None
    PROVE  Engine'
  <1>0. None \notin Parameter BY AlertsAssumption DEF AlertsAssumption
  <1>1. \A e \in Evaluator : saving'[e] \notin todo'[e]
    BY <1>0 DEF Engine, TypeOK
  <1>2. ASSUME NEW p \in Parameter PROVE Unheard(p)'
    <2>1. Unheard(p) BY DEF Engine
    <2>2. AllNormal[p] = "NORMAL" BY DEF AllNormal
    <2> QED BY <1>0, <2>1, <2>2 DEF Unheard
  <1>3. ASSUME NEW p \in Parameter, p \notin disturbed' PROVE Undisturbed(p)'
    <2>1. Undisturbed(p) BY <1>3 DEF Engine
    <2>2. \A e \in Evaluator : saving'[e] = p <=> saving[e] = p BY <1>0, <1>3
    <2>3. p \notin Clashing' BY <2>1, <2>2 DEF Undisturbed, Clashing
    <2>4. \A e \in Evaluator : saving'[e] = p \/ p \in todo'[e] => seen'[e] = seen[e]
      BY <1>0
    <2> QED BY <2>1, <2>2, <2>3, <2>4 DEF Undisturbed, Told
  <1> QED BY <1>1, <1>2, <1>3 DEF Engine

\* A notice is written for what the call has read, and by no call with another one to save.
LEMMA Notices ==
    ASSUME TypeOK, NEW e \in Evaluator, NEW p \in Parameter,
           TriggerAlert(e, p) \/ ResolveAlert(e, p)
    PROVE  /\ p \in todo[e] /\ saving[e] = None
           /\ seen[e][p] \in State
           /\ Log(e, p, IF seen[e][p] = "NORMAL" THEN "TRIGGERED" ELSE "RESOLVED")
  BY DEF TriggerAlert, ResolveAlert, Turn, Triggers, Resolving, TypeOK

LEMMA LogStep ==
    ASSUME TypeOK, Engine, NEW e \in Evaluator, NEW p \in Parameter,
           TriggerAlert(e, p) \/ ResolveAlert(e, p)
    PROVE  Engine'
  <1> DEFINE n == IF seen[e][p] = "NORMAL" THEN "TRIGGERED" ELSE "RESOLVED"
  <1>0. None \notin Parameter /\ None \notin {"TRIGGERED", "RESOLVED"}
    BY AlertsAssumption DEF AlertsAssumption
  <1>1. /\ p \in todo[e] /\ saving[e] = None
        /\ newest' = [newest EXCEPT ![p] = n]
        /\ todo' = [todo EXCEPT ![e] = @ \ {p}]
        /\ saving' = [saving EXCEPT ![e] = p]
        /\ disturbed' = (disturbed \ {p}) \cup Clashing'
        /\ UNCHANGED <<state, seen>>
    BY Notices DEF Log
  <1>2. saving'[e] = p /\ \A f \in Evaluator \ {e} : saving'[f] = saving[f]
    BY <1>1 DEF TypeOK
  <1>3. todo'[e] = todo[e] \ {p} /\ \A f \in Evaluator \ {e} : todo'[f] = todo[f]
    BY <1>1 DEF TypeOK
  <1>4. newest'[p] = n /\ \A q \in Parameter \ {p} : newest'[q] = newest[q]
    BY <1>1 DEF TypeOK
  <1>5. \A f \in Evaluator : saving'[f] \notin todo'[f]
    BY <1>2, <1>3 DEF Engine
  <1>6. ASSUME NEW q \in Parameter PROVE Unheard(q)'
    BY <1>0, <1>1, <1>2, <1>4 DEF Engine, Unheard
  <1>7. ASSUME NEW q \in Parameter, q \notin disturbed' PROVE Undisturbed(q)'
    <2>1. q \notin Clashing' BY <1>1, <1>7
    <2>2. CASE q = p
      <3>1. \A f \in Evaluator \ {e} : saving'[f] # p /\ p \notin todo'[f]
        BY <1>2, <2>1, <2>2 DEF Clashing
      <3> QED BY <1>1, <1>2, <1>3, <1>4, <2>1, <2>2, <3>1 DEF Undisturbed
    <2>3. CASE q # p
      <3>1. Undisturbed(q) BY <1>1, <1>7, <2>3 DEF Engine
      <3>2. \A f \in Evaluator : saving'[f] = q <=> saving[f] = q
        BY <1>0, <1>1, <1>2, <2>3
      <3>3. \A f \in Evaluator : q \in todo'[f] => q \in todo[f] BY <1>3
      <3> QED BY <1>1, <1>4, <2>1, <2>3, <3>1, <3>2, <3>3 DEF Undisturbed, Told
    <2> QED BY <2>2, <2>3
  <1> QED BY <1>5, <1>6, <1>7 DEF Engine

LEMMA SnapshotStep ==
    ASSUME TypeOK, Engine, NEW e \in Evaluator, ReadStates(e), ~Done(e)
    PROVE  Engine'
  <1>1. /\ pc[e] = "states"
        /\ seen' = [seen EXCEPT ![e] = state]
        /\ todo' = [todo EXCEPT ![e] = Metrics(e)]
        /\ disturbed' = disturbed \cup Clashing'
        /\ UNCHANGED <<saving, state, newest>>
    BY DEF ReadStates, log
  <1>2. saving[e] = None BY <1>1 DEF TypeOK
  <1>3. seen'[e] = state /\ \A f \in Evaluator \ {e} : seen'[f] = seen[f] BY <1>1 DEF TypeOK
  <1>4. todo'[e] = Metrics(e) /\ \A f \in Evaluator \ {e} : todo'[f] = todo[f]
    BY <1>1 DEF TypeOK
  <1>5. \A f \in Evaluator : saving'[f] \notin todo'[f]
    BY <1>1, <1>2, <1>4, AlertsAssumption DEF Engine, Metrics, AlertsAssumption
  <1>6. ASSUME NEW p \in Parameter PROVE Unheard(p)'
    BY <1>1, <1>3 DEF Engine, Unheard
  <1>7. ASSUME NEW p \in Parameter, p \notin disturbed' PROVE Undisturbed(p)'
    <2>1. p \notin Clashing' /\ Undisturbed(p) BY <1>1, <1>7 DEF Engine
    <2>2. \A f \in Evaluator : saving[f] = p => seen'[f] = seen[f]
      BY <1>2, <1>3, AlertsAssumption DEF AlertsAssumption
    <2>3. \A f \in Evaluator : p \in todo'[f] => seen'[f][p] = state[p]
      BY <1>3, <1>4, <2>1 DEF Undisturbed
    <2> QED BY <1>1, <2>1, <2>2, <2>3 DEF Undisturbed, Told
  <1> QED BY <1>5, <1>6, <1>7 DEF Engine

LEMMA SaveStep ==
    ASSUME TypeOK, Engine, NEW e \in Evaluator, SaveState(e)
    PROVE  Engine'
  <1>0. None \notin Parameter BY AlertsAssumption DEF AlertsAssumption
  <1>1. PICK p \in Parameter : p = saving[e] BY DEF SaveState, TypeOK
  <1>2. /\ state' = [state EXCEPT ![p] = NewState(e)]
        /\ saving' = [saving EXCEPT ![e] = None]
        /\ UNCHANGED <<newest, todo, seen, disturbed>>
    BY <1>1 DEF SaveState, Upsert, log
  <1>3. saving'[e] = None /\ \A f \in Evaluator \ {e} : saving'[f] = saving[f]
    BY <1>2 DEF TypeOK
  <1>4. state'[p] = NewState(e) /\ \A q \in Parameter \ {p} : state'[q] = state[q]
    BY <1>2 DEF TypeOK
  <1>5. \A f \in Evaluator : saving'[f] \notin todo'[f]
    BY <1>0, <1>2, <1>3 DEF Engine, TypeOK
  <1>6. ASSUME NEW q \in Parameter PROVE Unheard(q)'
    BY <1>0, <1>1, <1>2, <1>3, <1>4 DEF Engine, Unheard
  <1>7. ASSUME NEW q \in Parameter, q \notin disturbed' PROVE Undisturbed(q)'
    <2>1. Undisturbed(q) BY <1>2, <1>7 DEF Engine
    <2>2. q \notin Clashing' BY <1>0, <1>2, <1>3, <2>1 DEF Undisturbed, Clashing
    <2>3. CASE q = p
      <3>1. \A f \in Evaluator : saving'[f] # p /\ p \notin todo[f]
        BY <1>0, <1>1, <1>3, <2>1, <2>3 DEF Undisturbed, Clashing, Engine
      <3>2. Told(p)'
        BY <1>1, <1>2, <1>4, <2>1, <2>3 DEF Undisturbed, Told, NewState
      <3> QED BY <1>2, <2>2, <2>3, <3>1, <3>2 DEF Undisturbed
    <2>4. CASE q # p
      <3>1. \A f \in Evaluator : saving'[f] = q <=> saving[f] = q BY <1>0, <1>1, <1>3, <2>4
      <3> QED BY <1>2, <1>4, <2>1, <2>2, <2>4, <3>1 DEF Undisturbed, Told
    <2> QED BY <2>3, <2>4
  <1> QED BY <1>5, <1>6, <1>7 DEF Engine

LEMMA EngineStep == TypeOK /\ Engine /\ [Next]_vars => Engine'
  <1> SUFFICES ASSUME TypeOK, Engine, [Next]_vars PROVE Engine'
    OBVIOUS
  \* Whoever ends has nothing to save, or leaves it disturbed.
  <1>1. ASSUME NEW e \in Evaluator, Done(e), UNCHANGED <<state, newest>>,
               disturbed \subseteq disturbed', saving[e] # None => saving[e] \in disturbed'
        PROVE Engine'
    <2>1. /\ \A f \in Evaluator \ {e} :
                saving'[f] = saving[f] /\ todo'[f] = todo[f] /\ seen'[f] = seen[f]
          /\ saving'[e] = None /\ todo'[e] = {} /\ seen'[e] = AllNormal
      BY <1>1 DEF Done, TypeOK
    <2> QED BY <1>1, <2>1, QuietStep
  <1>2. ASSUME UNCHANGED <<state, newest, disturbed, saving, seen>>,
               \A e \in Evaluator : todo'[e] \subseteq todo[e]
        PROVE Engine'
    BY <1>2, QuietStep
  <1>3. ASSUME ChangeThreshold \/ UNCHANGED vars PROVE Engine'
    BY <1>2, <1>3 DEF ChangeThreshold, vars, log, call
  <1>4. ASSUME NEW e \in Evaluator,
               \/ \E r \in Reading : Evaluate(e, r)
               \/ ReadDeviceThreshold(e) \/ ReadGroupThreshold(e)
        PROVE Engine'
    BY <1>2, <1>4 DEF Evaluate, ReadDeviceThreshold, ReadGroupThreshold, log
  <1>5. ASSUME NEW e \in Evaluator, ReadStates(e) PROVE Engine'
    <2>1. CASE Done(e)
      <3>1. saving[e] = None /\ UNCHANGED <<state, newest, disturbed>>
        <4>1. pc'[e] = "idle" BY <2>1 DEF Done, TypeOK
        <4>2. ~Goes(e, "evaluating") BY <4>1 DEF Goes, TypeOK
        <4> QED BY <1>5, <4>2 DEF ReadStates, TypeOK, log
      <3> QED BY <1>1, <2>1, <3>1
    <2> QED BY <1>5, <2>1, SnapshotStep
  <1>6. ASSUME NEW e \in Evaluator, NEW p \in Parameter, Skip(e, p) PROVE Engine'
    BY <1>2, <1>6 DEF Skip, TypeOK, log
  <1>7. ASSUME NEW e \in Evaluator, NEW p \in Parameter,
               TriggerAlert(e, p) \/ ResolveAlert(e, p)
        PROVE Engine'
    BY <1>7, LogStep
  <1>8. ASSUME NEW e \in Evaluator, SaveState(e) PROVE Engine'
    BY <1>8, SaveStep
  <1>9. ASSUME NEW e \in Evaluator, Finish(e) PROVE Engine'
    BY <1>1, <1>9 DEF Finish, TypeOK, log
  <1>10. ASSUME NEW e \in Evaluator, Fails(e) PROVE Engine'
    BY <1>1, <1>10 DEF Fails, TypeOK, log
  <1> QED
    BY <1>3, <1>4, <1>5, <1>6, <1>7, <1>8, <1>9, <1>10 DEF Next, EvaluatorStep

\* The state that suppresses the next alert is the one the user was last told, unless the
\* notice was disturbed by a failure or by another call; the next notice about the metric
\* with which no other call contends ends the disturbance.
THEOREM StateIsWhatWasToldCorrect == Spec => []StateIsWhatWasTold
  <1>1. Engine => StateIsWhatWasTold
    BY DEF Engine, Undisturbed, Told, StateIsWhatWasTold
  <1>2. TypeOK /\ Engine /\ [Next]_vars => (TypeOK /\ Engine)'
    BY TypeStep, EngineStep
  <1>3. Init => TypeOK /\ Engine BY TypeInit, EngineInit
  <1> QED BY <1>1, <1>2, <1>3, PTL DEF Spec

\* About a metric that a call comes to and whose newest notice is undisturbed, everything is
\* as it was told.
LEMMA AsTold ==
    ASSUME TypeOK, Engine, NEW e \in Evaluator, NEW p \in todo[e], p \notin disturbed
    PROVE  Told(p) /\ seen[e][p] = state[p]
  <1>1. p \in Parameter /\ Undisturbed(p) BY DEF TypeOK, Engine
  <1>2. \A f \in Evaluator : saving[f] # p
    BY <1>1 DEF Undisturbed, Clashing, Engine
  <1> QED BY <1>1, <1>2 DEF Undisturbed

\* Any number of calls at the same time implements the protocol: the two kinds of notice
\* take turns, and one is sent twice only after the notice before was disturbed.
THEOREM ProtocolImplemented == Spec => ImplementsProtocol
  <1> DEFINE pvars == <<newest, notices, disturbed>>
  <1>1. Init => Protocol!Init BY DEF Init, Protocol!Init
  <1>2. TypeOK /\ TypeOK' /\ Engine /\ Engine' /\ [Next]_vars => [Protocol!Next]_pvars
    <2> SUFFICES ASSUME TypeOK, TypeOK', Engine, Engine', Next PROVE [Protocol!Next]_pvars
      BY DEF vars, log
    <2>1. ASSUME NEW e \in Evaluator, NEW p \in Parameter,
                 TriggerAlert(e, p) \/ ResolveAlert(e, p)
          PROVE  Protocol!Next
      <3> DEFINE n == IF seen[e][p] = "NORMAL" THEN "TRIGGERED" ELSE "RESOLVED"
      <3>1. p \in todo[e] /\ seen[e][p] \in State /\ Log(e, p, n) BY <2>1, Notices
      <3>2. newest' = [newest EXCEPT ![p] = n] /\ notices' = [notices EXCEPT ![p] = @ + 1]
        BY <3>1 DEF Log
      <3>3. disturbed' \in {disturbed \ {p}, disturbed \cup {p}}
        <4>1. disturbed' = (disturbed \ {p}) \cup Clashing' BY <3>1 DEF Log
        <4>2. ASSUME NEW q \in Clashing', q # p PROVE q \in disturbed
          <5>1. PICK f, g \in Evaluator :
                    f # g /\ saving'[f] = q /\ (saving'[g] = q \/ q \in todo'[g])
            BY <4>2 DEF Clashing
          <5>2. saving'[e] = p /\ \A h \in Evaluator \ {e} : saving'[h] = saving[h]
            BY <3>1 DEF Log, TypeOK
          <5>3. \A h \in Evaluator : todo'[h] \subseteq todo[h] BY <3>1 DEF Log, TypeOK
          <5>4. f # e /\ saving[f] = q /\ (saving[g] = q \/ q \in todo[g])
            BY <4>2, <5>1, <5>2, <5>3
          <5>5. q \in Parameter BY <4>2 DEF Clashing
          <5>6. q \in Clashing BY <5>1, <5>4, <5>5 DEF Clashing
          <5> QED BY <5>5, <5>6 DEF Engine, Undisturbed
        <4> QED BY <4>1, <4>2
      <3>4. Protocol!Counted(p) BY <3>2, <3>3 DEF Protocol!Counted
      <3>5. CASE n = Protocol!Due(p)
        BY <3>2, <3>4, <3>5 DEF Protocol!Next, Protocol!Notify
      <3>6. CASE n # Protocol!Due(p)
        <4>1. p \in disturbed
          <5> SUFFICES ASSUME p \notin disturbed PROVE FALSE
            OBVIOUS
          <5>1. Told(p) /\ seen[e][p] = state[p] BY <3>1, AsTold
          <5> QED BY <3>1, <3>6, <5>1 DEF Told, Protocol!Due, State
        <4>2. newest[p] = n /\ newest[p] \in Protocol!Notice
          <5>1. Unheard(p) BY DEF Engine
          <5>2. newest[p] \in Notice \cup {None} BY DEF TypeOK
          <5>3. newest[p] # None
            BY <3>6, <5>1, AlertsAssumption DEF Unheard, Protocol!Due, AlertsAssumption
          <5> QED BY <3>6, <5>2, <5>3 DEF Notice, Protocol!Notice, Protocol!Due
        <4>3. newest' = newest BY <3>2, <4>2 DEF TypeOK
        <4> QED BY <3>4, <4>1, <4>2, <4>3 DEF Protocol!Next, Protocol!Repeat
      <3> QED BY <3>5, <3>6
    <2>2. ASSUME UNCHANGED <<newest, notices>>, disturbed \subseteq disturbed'
          PROVE  Protocol!Next
      BY <2>2 DEF Protocol!Next, Protocol!Disturb, TypeOK
    <2>3. ASSUME NEW e \in Evaluator, ReadStates(e) \/ Fails(e) PROVE Protocol!Next
      BY <2>2, <2>3 DEF ReadStates, Fails, log
    <2> QED
      BY <2>1, <2>3
      DEF Next, EvaluatorStep, ChangeThreshold, Evaluate, ReadDeviceThreshold,
          ReadGroupThreshold, Skip, Finish, SaveState, log
  <1>3. TypeOK /\ Engine /\ [Next]_vars => (TypeOK /\ Engine)'
    BY TypeStep, EngineStep
  <1>4. Init => TypeOK /\ Engine BY TypeInit, EngineInit
  <1> QED
    BY <1>1, <1>2, <1>3, <1>4, PTL DEF Spec, ImplementsProtocol, Protocol!Spec

\* A call that gets past a metric it found above its limit leaves the user alerted about it,
\* whatever other calls do, unless it fails there or the newest notice was disturbed.
THEOREM BreachIsToldCorrect == Spec => BreachIsTold
  <1>1. TypeOK /\ Engine /\ [Next]_vars =>
          [\A e \in Evaluator : \A p \in todo[e] \ (todo'[e] \cup disturbed') :
              Exceeds(reading[e][p], limits[e][p]) /\ failures' = failures
              => newest'[p] = "TRIGGERED"]_vars
    <2> SUFFICES ASSUME TypeOK, Engine, Next, NEW e \in Evaluator,
                        NEW p \in todo[e], p \notin todo'[e], p \notin disturbed',
                        Exceeds(reading[e][p], limits[e][p]), failures' = failures
                 PROVE  newest'[p] = "TRIGGERED"
      OBVIOUS
    <2>0. p \in Parameter /\ pc[e] \in {"evaluating", "saving"} BY DEF TypeOK
    <2>1. Skip(e, p) \/ TriggerAlert(e, p) \/ ResolveAlert(e, p)
      <3>1. todo' # todo OBVIOUS
      <3>2. PICK f \in Evaluator : EvaluatorStep(f)
        BY <3>1 DEF Next, ChangeThreshold, call
      <3>3. failures \in Nat BY DEF TypeOK
      <3>4. ~Fails(f) BY <3>3 DEF Fails
      <3>5. ~Finish(f)
        BY DEF Finish, Done, TypeOK
      <3>6. ~ReadStates(f)
        <4>1. ASSUME ReadStates(f) PROVE f # e /\ todo'[e] = todo[e]
          BY <2>0, <4>1 DEF ReadStates, Done, TypeOK
        <4> QED BY <4>1
      <3>7. PICK q \in Parameter : Skip(f, q) \/ TriggerAlert(f, q) \/ ResolveAlert(f, q)
        BY <3>1, <3>2, <3>4, <3>5, <3>6
        DEF EvaluatorStep, Evaluate, ReadDeviceThreshold, ReadGroupThreshold, SaveState
      <3>8. todo' = [todo EXCEPT ![f] = @ \ {q}]
        BY <3>7 DEF Skip, TriggerAlert, ResolveAlert, Log
      <3>9. f = e /\ q = p BY <3>8 DEF TypeOK
      <3> QED BY <3>7, <3>9
    <2>2. CASE Skip(e, p)
      <3>1. newest' = newest /\ p \notin disturbed BY <2>2 DEF Skip, log
      <3>2. Told(p) /\ seen[e][p] = state[p] BY <3>1, AsTold
      <3>3. seen[e][p] # "NORMAL" BY <2>2 DEF Skip, Triggers
      <3> QED BY <2>0, <3>1, <3>2, <3>3 DEF Told, TypeOK, State
    <2>3. CASE TriggerAlert(e, p)
      BY <2>0, <2>3 DEF TriggerAlert, Log, TypeOK
    <2>4. CASE ResolveAlert(e, p)
      <3>0. reading[e][p] \in Value /\ limits[e][p] \in Nat
        BY <2>0, AlertsAssumption DEF TypeOK, AlertsAssumption
      <3>1. reading[e][p] \in Int /\ limits[e][p] \in Nat
        BY <3>0, AlertsAssumption DEF AlertsAssumption
      <3>2. Resolves(reading[e][p], limits[e][p]) BY <2>4 DEF ResolveAlert, Resolving
      <3> QED BY <3>1, <3>2 DEF Resolves, Exceeds
    <2> QED BY <2>1, <2>2, <2>3, <2>4
  <1>2. TypeOK /\ Engine /\ [Next]_vars => (TypeOK /\ Engine)'
    BY TypeStep, EngineStep
  <1>3. Init => TypeOK /\ Engine BY TypeInit, EngineInit
  <1> QED BY <1>1, <1>2, <1>3, PTL DEF Spec, BreachIsTold
=============================================================================
