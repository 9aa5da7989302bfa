------------------------- MODULE MC_GpuReservation -------------------------
(* Small instances of GpuReservation for TLC. *)
EXTENDS GpuReservation, TLC

CONSTANTS w1, w2, w3

\* Three workers on two GPUs of 2 and 3 bytes; each asks for up to 2 bytes,
\* so on either GPU two requests can fit alone and not together.
MCWorkers == {w1, w2, w3}
MCDevices == {0, 1}
MCCapacity == [d \in MCDevices |-> d + 2]

\* Two workers contending for one GPU of 3 bytes.
MCWorkers2 == {w1, w2}
MCDevices1 == {0}
MCCapacity1 == [d \in MCDevices1 |-> 3]

WorkerSymmetry == Permutations(MCWorkers)
=============================================================================
