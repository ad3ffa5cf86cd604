------------------------------ MODULE MCPayments ------------------------------
(* Instances of Payments for TLC. *)
EXTENDS Payments, TLC

CONSTANTS u1, o1, o2

\* One user buys a short and a long plan.
OneBuyer == [o \in Order |-> u1]
ShortAndLong == o1 :> 1 @@ o2 :> 2
=============================================================================
