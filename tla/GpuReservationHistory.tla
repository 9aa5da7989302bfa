------------------------ MODULE GpuReservationHistory ------------------------
(***************************************************************************)
(* GpuReservation with one history variable, seen: for a worker in the     *)
(* pool of a GPU, the workers whose amounts were already in the counter    *)
(* when its fetch_add ran and have stayed there since.  seen is computed   *)
(* from the steps the workers take and constrains none of them, so every   *)
(* behaviour of GpuReservation!Spec is, with seen added, a behaviour of     *)
(* HSpec.  It records the order of the fetch_adds, which is what makes the *)
(* check of reserve_memory_on_gpu sound: a worker's check counts all the   *)
(* workers that went before it, and every worker that comes after counts   *)
(* it.                                                                      *)
(***************************************************************************)
EXTENDS GpuReservation

VARIABLE seen

hvars == <<vars, seen>>

HInit == Init /\ seen = [w \in Workers |-> {}]

\* A fetch_add records the pool it added to; a worker leaving the pool
\* leaves every record.
SeenNext ==
    seen' = [x \in Workers |->
               IF pc[x] = "add" /\ pc'[x] = "check" THEN InPool(dev[x])
               ELSE seen[x] \cap InPool(dev[x])']

HNext == Next /\ SeenNext

HSpec == HInit /\ [][HNext]_hvars

\* The workers of S that have reserved and not yet allocated.
Pending(S) == {y \in S : pc[y] \in {"check", "rollback", "alloc"}}

\* seen[x] lists workers of x's pool other than x.
SeenInPool ==
    /\ seen \in [Workers -> SUBSET Workers]
    /\ \A x \in Workers : seen[x] \subseteq InPool(dev[x]) \ {x}

\* Of two workers in the same pool, one went before the other.
SeenTotal ==
    \A d \in Devices : \A x, y \in InPool(d) :
        x # y => x \in seen[y] \/ y \in seen[x]

\* A worker that went before x went before those x came after.
SeenTransitive ==
    \A x, z \in Workers : x \in seen[z] => seen[x] \subseteq seen[z]

\* The old_pool_size of a worker about to check covers the bytes of those
\* before it, and adding its own amount does not wrap.
OldCoversSeen ==
    \A x \in Workers : pc[x] = "check" =>
        /\ Cardinality(BytesOf(seen[x])) <= old_pool_size[x]
        /\ old_pool_size[x] + amount[x] < Modulus

\* An admitted worker's amount fits next to the allocated memory and the
\* bytes of the workers before it that have not allocated yet.
AdmittedFits ==
    \A x \in Workers : pc[x] = "alloc" =>
        allocated[dev[x]] + amount[x] + Cardinality(BytesOf(Pending(seen[x])))
            <= Capacity[dev[x]]

(***************************************************************************)
(* The inductive invariant of the admission proof: IInv, the order of the  *)
(* fetch_adds that seen records, and what each check established.  It     *)
(* implies NoOvercommit and the guard of GpuAdmission's Admit at every    *)
(* Allocate.                                                               *)
(***************************************************************************)
HInv ==
    /\ IInv
    /\ SeenInPool
    /\ SeenTotal
    /\ SeenTransitive
    /\ OldCoversSeen
    /\ AdmittedFits
    /\ NoOvercommit

=============================================================================
