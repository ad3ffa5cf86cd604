------------------------------ MODULE MCAlerts ------------------------------
(* Instances of Alerts for TLC: values below, in and above the hysteresis band of a  *)
(* limit with the 5 % buffer (co2, 40) and of one with the 1-unit buffer (noise, 10). *)
EXTENDS Alerts, TLC

CONSTANTS co2, noise

Values == {8, 10, 11, 37, 40, 41}

Readings ==
    {co2 :> 37 @@ noise :> 8, co2 :> 37 @@ noise :> 11, co2 :> 40 @@ noise :> 10,
     co2 :> 41 @@ noise :> 8, co2 :> 41 @@ noise :> 11, co2 :> 41 @@ noise :> None}

\* The defaults, and a profile that drops a metric and has another limit.
Defaults == co2 :> 40 @@ noise :> 10
Profiles == {Defaults, co2 :> 10 @@ noise :> None}

\* Calls are interchangeable, and no property names one.
Symmetry == Permutations(Evaluator)
=============================================================================
