------------------------------ MODULE MCSignedIn ------------------------------
(***************************************************************************)
(* Instances of Sessions and SseFanout for TLC: what somebody who is       *)
(* signed in has at the nodes, refresh tokens and event streams.  The two  *)
(* have no variable in common, and are checked one after the other rather  *)
(* than interleaved: every behaviour moves one of them only.               *)
(***************************************************************************)
EXTENDS Sessions, SseFanout, TLC

\* The requests at a time are one on each node, so that a permutation of the nodes is one
\* of the requests.  One token stays where it is: fewer permutations are tried that way
\* than states are saved.
Symmetry ==
    Permutations(Token \ {CHOOSE t \in Token : TRUE})
    \cup Permutations(Node) \cup Permutations(Stream)

VARIABLE moving     \* which of the two modules moves

SignedInInit == Init /\ SseInit /\ moving \in {"sessions", "streams"}

SignedInNext ==
    \/ moving = "sessions" /\ Next /\ UNCHANGED <<sseVars, moving>>
    \/ moving = "streams" /\ SseNext /\ UNCHANGED <<vars, moving>>

SignedInSpec == SignedInInit /\ [][SignedInNext]_<<vars, sseVars, moving>>
=============================================================================
