\* The instance of MC_GpuReservation.cfg with the history of fetch_adds:
\* the inductive invariant of the admission proof, and the refinement.
CONSTANTS
    w1 = w1
    w2 = w2
    w3 = w3
    Workers <- MCWorkers
    Devices <- MCDevices
    Capacity <- MCCapacity
    MaxAmount = 2
    Width = 3
SYMMETRY WorkerSymmetry
SPECIFICATION HSpec
INVARIANT HInv
