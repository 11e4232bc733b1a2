----------------------------- MODULE FlatMemory ------------------------------
(***************************************************************************)
(* What the virtual-memory test environment promises the test it runs: the *)
(* test sees its own image as one flat memory, whatever paging does below. *)
(* Once the test has made its exit call the environment may put a page     *)
(* back to the image, and does nothing else to it.                         *)
(***************************************************************************)
CONSTANTS Pages, Vals

VARIABLES image,    \* the test as it was loaded
          vmem,     \* what the test sees
          obs,      \* the last value it read
          exited

vars == <<image, vmem, obs, exited>>

Init == /\ image \in [Pages -> Vals]
        /\ vmem = image
        /\ obs \in Vals
        /\ exited = FALSE

Read(p) == ~exited /\ obs' = vmem[p] /\ UNCHANGED <<image, vmem, exited>>

Write(p, v) == /\ ~exited
               /\ vmem' = [vmem EXCEPT ![p] = v]
               /\ UNCHANGED <<image, obs, exited>>

Exit == ~exited /\ exited' = TRUE /\ UNCHANGED <<image, vmem, obs>>

Scrub(p) == /\ exited
            /\ vmem' = [vmem EXCEPT ![p] = image[p]]
            /\ UNCHANGED <<image, obs, exited>>

Next == \/ \E p \in Pages : Read(p) \/ Scrub(p) \/ \E v \in Vals : Write(p, v)
        \/ Exit

Spec == Init /\ [][Next]_vars
=============================================================================
