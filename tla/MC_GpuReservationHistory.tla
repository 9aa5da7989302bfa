---------------------- MODULE MC_GpuReservationHistory ----------------------
(* GpuReservationHistory on the instance of MC_GpuReservation. *)
EXTENDS GpuReservationHistory, TLC

CONSTANTS w1, w2, w3

MCWorkers == {w1, w2, w3}
MCDevices == {0, 1}
MCCapacity == [d \in MCDevices |-> d + 2]

WorkerSymmetry == Permutations(MCWorkers)
=============================================================================
