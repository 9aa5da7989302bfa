---------------------------- MODULE GpuAdmission ----------------------------
(***************************************************************************)
(* What the reservation pool of gpu_memory.rs promises its callers, with   *)
(* the atomics abstracted away: a worker asks for amount bytes on a GPU,   *)
(* is admitted in one atomic step only if they fit next to the memory      *)
(* already allocated there, holds them, and frees them.  GpuReservation    *)
(* implements this specification under a refinement mapping.              *)
(***************************************************************************)
EXTENDS Naturals

CONSTANTS Workers, Devices, Capacity, MaxAmount

VARIABLES
    allocated,  \* bytes held on each GPU
    stage,      \* each worker: "idle", "waiting" (asked) or "holding"
    dev,        \* the GPU of the worker's request
    amount      \* the bytes of the worker's request

avars == <<allocated, stage, dev, amount>>

AInit ==
    /\ allocated = [d \in Devices |-> 0]
    /\ stage = [w \in Workers |-> "idle"]
    /\ dev \in [Workers -> Devices]
    /\ amount = [w \in Workers |-> 0]

\* A worker asks for a bytes on GPU d.
Request(w, d, a) ==
    /\ stage[w] = "idle"
    /\ stage' = [stage EXCEPT ![w] = "waiting"]
    /\ dev' = [dev EXCEPT ![w] = d]
    /\ amount' = [amount EXCEPT ![w] = a]
    /\ UNCHANGED allocated

\* The request is admitted only if it fits: admission and allocation are
\* one atomic step.
Admit(w) ==
    /\ stage[w] = "waiting"
    /\ allocated[dev[w]] + amount[w] <= Capacity[dev[w]]
    /\ stage' = [stage EXCEPT ![w] = "holding"]
    /\ allocated' = [allocated EXCEPT ![dev[w]] = @ + amount[w]]
    /\ UNCHANGED <<dev, amount>>

\* The worker frees what it holds.
Free(w) ==
    /\ stage[w] = "holding"
    /\ stage' = [stage EXCEPT ![w] = "idle"]
    /\ allocated' = [allocated EXCEPT ![dev[w]] = @ - amount[w]]
    /\ UNCHANGED <<dev, amount>>

ANext ==
    \E w \in Workers :
        \/ \E d \in Devices, a \in 0 .. MaxAmount : Request(w, d, a)
        \/ Admit(w)
        \/ Free(w)

ASpec == AInit /\ [][ANext]_avars

=============================================================================
