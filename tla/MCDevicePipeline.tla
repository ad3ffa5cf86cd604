-------------------------- MODULE MCDevicePipeline --------------------------
(* Instances of DevicePipeline for TLC. *)
EXTENDS DevicePipeline, TLC

\* Handlers are interchangeable, and so are detector runs and message ids.  Used
\* only by the runs of invariants and action properties, which name none of them.
Symmetry ==
    Permutations(Handler) \cup Permutations(Detector) \cup Permutations(MessageId)
=============================================================================
