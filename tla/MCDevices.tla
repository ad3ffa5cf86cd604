------------------------------ MODULE MCDevices -------------------------------
(***************************************************************************)
(* Instances of DeviceOwnership and DeviceControl for TLC.  They have no   *)
(* variable in common, and are checked one after the other rather than     *)
(* interleaved: every behaviour moves one of them only.  Two processes of  *)
(* DeviceControl share a node.                                             *)
(***************************************************************************)
EXTENDS DeviceOwnership, DeviceControl, TLC

CONSTANTS p1, p2, p3, n1, n2

TwoOfOneNode == (p1 :> n1) @@ (p2 :> n1) @@ (p3 :> n2)

\* Users are not interchangeable: only one of them has an incomplete profile.
Symmetry ==
    Permutations(Request) \cup Permutations(Name)
    \cup Permutations(Group) \cup Permutations({p1, p2})

VARIABLE moving     \* which of the two modules moves

OwnershipInit == moving = "ownership" /\ Init /\ ControlInit /\ mine = {}
OnlyControlInit == moving = "control" /\ Init /\ ControlInit

DevicesNext ==
    \/ moving = "ownership" /\ Next /\ UNCHANGED <<controlVars, moving>>
    \/ moving = "control" /\ ControlNext /\ UNCHANGED <<vars, moving>>

DevicesSpec ==
    (OwnershipInit \/ OnlyControlInit) /\ [][DevicesNext]_<<vars, controlVars, moving>>
=============================================================================
