--------------------- MODULE GpuReservationHistoryProofs ---------------------
(***************************************************************************)
(* Proof that the reservation pool never overcommits a GPU and implements  *)
(* atomic admission (GpuAdmission), for every number of workers and GPUs,  *)
(* every capacity, amount bound and counter width of GpuReservation's      *)
(* assumptions.                                                             *)
(*                                                                          *)
(* The argument follows the fetch_adds in the order seen records.  When a  *)
(* worker x passes its check, its old_pool_size covered every worker       *)
(* before it, so x's amount fits next to the allocated memory and the      *)
(* bytes of those before x that have not allocated yet (AdmittedFits).  A  *)
(* worker y that allocates either went before x, and then its bytes move   *)
(* from x's pending ones to the allocated memory, or came after x, and     *)
(* then y's own check counted x and everything before x.                   *)
(***************************************************************************)
EXTENDS GpuReservationHistory, GpuReservationProofs

\* Everything HInv adds to IInv.
SInv ==
    /\ SeenInPool
    /\ SeenTotal
    /\ SeenTransitive
    /\ OldCoversSeen
    /\ AdmittedFits
    /\ NoOvercommit

\* Fewer workers have fewer bytes.
LEMMA ByteSetMono ==
  ASSUME NEW S \in SUBSET Workers, NEW T \in SUBSET Workers, S \subseteq T,
         NEW a \in AmountFcn
  PROVE  Cardinality(ByteSet(S, a)) <= Cardinality(ByteSet(T, a))
  <1>1. ByteSet(S, a) \subseteq ByteSet(T, a)
    BY DEF ByteSet
  <1>2. IsFiniteSet(ByteSet(T, a))
    BY ByteSetBound
  <1>3. QED
    BY <1>1, <1>2, FS_Subset

\* The type facts every step below uses.
LEMMA IInvTypes ==
  ASSUME IInv
  PROVE  /\ pc \in [Workers -> Locations]
         /\ dev \in [Workers -> Devices]
         /\ amount \in AmountFcn
         /\ old_pool_size \in [Workers -> 0 .. Modulus - 1]
         /\ allocated \in [Devices -> Nat]
         /\ gpu_mem_reservation \in [Devices -> 0 .. Modulus - 1]
  BY DEF IInv, TypeOK, AmountFcn

\* The bytes of a set of workers, as a natural number.
LEMMA BytesNat ==
  ASSUME IInv, NEW S \in SUBSET Workers
  PROVE  /\ Cardinality(BytesOf(S)) \in Nat
         /\ Cardinality(BytesOf(S)) = Cardinality(ByteSet(S, amount))
  BY IInvTypes, ByteSetBound, BytesOfIsByteSet

-----------------------------------------------------------------------------
(***************************************************************************)
(* Each action preserves SInv, given IInv before and after the step.       *)
(***************************************************************************)

LEMMA CallReserveKeeps ==
  ASSUME IInv, IInv', SInv, SeenNext,
         NEW w \in Workers, NEW d \in Devices, NEW a \in Amounts,
         CallReserve(w, d, a)
  PROVE  SInv'
  <1>1. /\ pc \in [Workers -> Locations] /\ dev \in [Workers -> Devices]
        /\ amount \in AmountFcn
    BY IInvTypes
  <1>2. /\ pc[w] = "idle"
        /\ pc' = [pc EXCEPT ![w] = "add"]
        /\ dev' = [dev EXCEPT ![w] = d]
        /\ amount' = [amount EXCEPT ![w] = a]
        /\ UNCHANGED <<gpu_mem_reservation, allocated, old_pool_size>>
    BY DEF CallReserve, Move
  <1>3. \A e \in Devices : InPool(e)' = InPool(e) /\ w \notin InPool(e)
    BY <1>1, <1>2 DEF InPool
  <1>4. /\ seen \in [Workers -> SUBSET Workers]
        /\ \A x \in Workers : seen[x] \subseteq InPool(dev[x]) \ {x}
    BY DEF SInv, SeenInPool
  <1>5. seen' = [x \in Workers |-> seen[x] \cap InPool(dev[x])']
    BY <1>1, <1>2 DEF SeenNext
  <1>6. ASSUME NEW x \in Workers \ {w} PROVE seen'[x] = seen[x]
    <2>1. dev'[x] = dev[x] /\ dev[x] \in Devices
      BY <1>1, <1>2
    <2>2. InPool(dev[x])' = InPool(dev[x])
      BY <2>1, <1>3
    <2>3. QED
      BY <1>4, <1>5, <2>2
  <1>0. InPool(dev[w])' = InPool(d)
    BY <1>1, <1>2, <1>3
  <1>7. seen'[w] \subseteq seen[w] /\ seen'[w] \subseteq InPool(d)
    BY <1>5, <1>0
  <1>8. \A x \in Workers : w \notin seen[x]
    BY <1>1, <1>3, <1>4
  <1>9. SeenInPool'
    <2>1. seen' \in [Workers -> SUBSET Workers]
      BY <1>4, <1>5
    <2>2. ASSUME NEW x \in Workers PROVE seen'[x] \subseteq InPool(dev[x])' \ {x}
      <3>1. CASE x = w
        BY <3>1, <1>7, <1>3, <1>0
      <3>2. CASE x # w
        <4>1. dev'[x] = dev[x] /\ dev[x] \in Devices
          BY <3>2, <1>1, <1>2
        <4>2. InPool(dev[x])' = InPool(dev[x])
          BY <4>1, <1>3
        <4>3. QED
          BY <3>2, <1>6, <1>4, <4>2
      <3>3. QED
        BY <3>1, <3>2
    <2>3. QED
      BY <2>1, <2>2 DEF SeenInPool
  <1>10. SeenTotal'
    <2> SUFFICES ASSUME NEW e \in Devices, NEW x \in InPool(e)', NEW y \in InPool(e)',
                        x # y
                 PROVE  x \in seen'[y] \/ y \in seen'[x]
      BY DEF SeenTotal
    <2>1. x \in InPool(e) /\ y \in InPool(e) /\ x # w /\ y # w
      BY <1>3
    <2>2. x \in seen[y] \/ y \in seen[x]
      BY <2>1 DEF SInv, SeenTotal
    <2>3. QED
      BY <2>1, <2>2, <1>6 DEF InPool
  <1>11. SeenTransitive'
    <2> SUFFICES ASSUME NEW x \in Workers, NEW z \in Workers, x \in seen'[z]
                 PROVE  seen'[x] \subseteq seen'[z]
      BY DEF SeenTransitive
    <2>1. x \in seen[z] /\ x # w
      BY <1>6, <1>7, <1>8
    <2>2. seen'[x] = seen[x] /\ seen[x] \subseteq seen[z]
      BY <2>1, <1>6 DEF SInv, SeenTransitive
    <2>3. CASE z # w
      BY <2>2, <2>3, <1>6
    <2>4. CASE z = w
      <3>1. x \in InPool(d)
        BY <2>4, <1>7
      <3>2. seen[x] \subseteq InPool(d)
        BY <3>1, <1>4 DEF InPool
      <3>3. seen'[w] = seen[w] \cap InPool(d)
        BY <1>1, <1>2, <1>3, <1>5
      <3>4. QED
        BY <2>2, <2>4, <3>2, <3>3
    <2>5. QED
      BY <2>3, <2>4
  <1>12. ASSUME NEW x \in Workers \ {w}
         PROVE  /\ BytesOf(seen[x])' = BytesOf(seen[x])
                /\ BytesOf(Pending(seen[x]))' = BytesOf(Pending(seen[x]))
    <2>1. \A y \in seen[x] : amount'[y] = amount[y] /\ pc'[y] = pc[y]
      BY <1>2, <1>8
    <2>2. Pending(seen[x])' = Pending(seen[x])
      BY <2>1, <1>6 DEF Pending
    <2>3. \A y \in Pending(seen[x]) : amount'[y] = amount[y]
      BY <2>1 DEF Pending
    <2>4. QED
      BY <2>1, <2>2, <2>3, <1>6, BytesOfIsByteSet, ByteSetAgree
  <1>13. OldCoversSeen'
    <2> SUFFICES ASSUME NEW x \in Workers, pc'[x] = "check"
                 PROVE  /\ Cardinality(BytesOf(seen[x])') <= old_pool_size'[x]
                        /\ old_pool_size'[x] + amount'[x] < Modulus
      BY DEF OldCoversSeen
    <2>1. x # w /\ pc[x] = "check"
      BY <1>1, <1>2
    <2>2. amount'[x] = amount[x]
      BY <2>1, <1>2
    <2>3. QED
      BY <2>1, <2>2, <1>2, <1>12 DEF SInv, OldCoversSeen
  <1>14. AdmittedFits'
    <2> SUFFICES ASSUME NEW x \in Workers, pc'[x] = "alloc"
                 PROVE  allocated'[dev'[x]] + amount'[x]
                          + Cardinality(BytesOf(Pending(seen[x]))')
                          <= Capacity[dev'[x]]
      BY DEF AdmittedFits
    <2>1. x # w /\ pc[x] = "alloc"
      BY <1>1, <1>2
    <2>2. amount'[x] = amount[x] /\ dev'[x] = dev[x]
      BY <2>1, <1>2
    <2>3. QED
      BY <2>1, <2>2, <1>2, <1>12 DEF SInv, AdmittedFits
  <1>15. NoOvercommit'
    BY <1>2 DEF SInv, NoOvercommit
  <1>16. QED
    BY <1>9, <1>10, <1>11, <1>13, <1>14, <1>15 DEF SInv


LEMMA FetchAddKeeps ==
  ASSUME IInv, IInv', SInv, SeenNext, NEW w \in Workers, ReserveFetchAdd(w)
  PROVE  SInv'
  <1> DEFINE d == dev[w]
  <1>1. /\ pc \in [Workers -> Locations] /\ dev \in [Workers -> Devices]
        /\ amount \in AmountFcn /\ allocated \in [Devices -> Nat]
    BY IInvTypes
  <1>2. /\ pc[w] = "add"
        /\ pc' = [pc EXCEPT ![w] = "check"]
        /\ old_pool_size' = [old_pool_size EXCEPT ![w] = gpu_mem_reservation[d]]
        /\ UNCHANGED <<allocated, dev, amount>>
    BY DEF ReserveFetchAdd, Move
  <1>3. /\ w \notin InPool(d)
        /\ InPool(d)' = InPool(d) \cup {w}
        /\ \A e \in Devices \ {d} : InPool(e)' = InPool(e)
    BY <1>1, <1>2 DEF InPool
  <1>4. /\ seen \in [Workers -> SUBSET Workers]
        /\ \A x \in Workers : seen[x] \subseteq InPool(dev[x]) \ {x}
    BY DEF SInv, SeenInPool
  <1>5. seen' = [x \in Workers |-> IF x = w THEN InPool(d)
                                   ELSE seen[x] \cap InPool(dev[x])']
    BY <1>1, <1>2 DEF SeenNext
  <1>3a. \A x \in Workers : InPool(dev[x]) \subseteq InPool(dev[x])'
    BY <1>1, <1>2 DEF InPool
  <1>6. ASSUME NEW x \in Workers \ {w} PROVE seen'[x] = seen[x]
    BY <1>3a, <1>4, <1>5
  <1>7. seen'[w] = InPool(d)
    BY <1>5
  <1>8. \A x \in Workers : w \notin seen[x]
    BY <1>1, <1>2, <1>4 DEF InPool
  <1>9. SeenInPool'
    <2>1. seen' \in [Workers -> SUBSET Workers]
      BY <1>4, <1>5 DEF InPool
    <2>2. ASSUME NEW x \in Workers PROVE seen'[x] \subseteq InPool(dev[x])' \ {x}
      <3>1. CASE x = w
        BY <3>1, <1>2, <1>3, <1>7
      <3>2. CASE x # w
        BY <3>2, <1>3a, <1>4, <1>6
      <3>3. QED
        BY <3>1, <3>2
    <2>3. QED
      BY <2>1, <2>2 DEF SeenInPool
  <1>10. SeenTotal'
    <2> SUFFICES ASSUME NEW e \in Devices, NEW x \in InPool(e)', NEW y \in InPool(e)',
                        x # y
                 PROVE  x \in seen'[y] \/ y \in seen'[x]
      BY DEF SeenTotal
    <2>1. CASE x # w /\ y # w
      <3>1. x \in InPool(e) /\ y \in InPool(e)
        BY <2>1, <1>1, <1>2 DEF InPool
      <3>2. x \in seen[y] \/ y \in seen[x]
        BY <3>1 DEF SInv, SeenTotal
      <3>3. QED
        BY <2>1, <3>2, <1>6 DEF InPool
    <2>2. CASE y = w
      <3>1. e = d /\ x \in InPool(d)
        BY <2>2, <1>1, <1>2, <1>3 DEF InPool
      <3>2. QED
        BY <2>2, <3>1, <1>7
    <2>3. CASE x = w
      <3>1. e = d /\ y \in InPool(d)
        BY <2>3, <1>1, <1>2, <1>3 DEF InPool
      <3>2. QED
        BY <2>3, <3>1, <1>7
    <2>4. QED
      BY <2>1, <2>2, <2>3
  <1>11. SeenTransitive'
    <2> SUFFICES ASSUME NEW x \in Workers, NEW z \in Workers, x \in seen'[z]
                 PROVE  seen'[x] \subseteq seen'[z]
      BY DEF SeenTransitive
    <2>1. CASE z = w
      <3>1. x \in InPool(d) /\ x # w
        BY <2>1, <1>3, <1>7
      <3>2. seen[x] \subseteq InPool(d)
        BY <3>1, <1>4 DEF InPool
      <3>3. QED
        BY <2>1, <3>1, <3>2, <1>6, <1>7
    <2>2. CASE z # w
      <3>1. x \in seen[z] /\ x # w
        BY <2>2, <1>6, <1>8
      <3>2. seen[x] \subseteq seen[z]
        BY <3>1 DEF SInv, SeenTransitive
      <3>3. QED
        BY <2>2, <3>1, <3>2, <1>6
    <2>3. QED
      BY <2>1, <2>2
  <1>12. ASSUME NEW x \in Workers \ {w}
         PROVE  /\ BytesOf(seen[x])' = BytesOf(seen[x])
                /\ BytesOf(Pending(seen[x]))' = BytesOf(Pending(seen[x]))
    <2>1. \A y \in seen[x] : pc'[y] = pc[y]
      BY <1>2, <1>8
    <2>2. Pending(seen[x])' = Pending(seen[x])
      BY <2>1, <1>6 DEF Pending
    <2>3. QED
      BY <2>2, <1>2, <1>6, BytesOfIsByteSet
  <1>13. OldCoversSeen'
    <2> SUFFICES ASSUME NEW x \in Workers, pc'[x] = "check"
                 PROVE  /\ Cardinality(BytesOf(seen[x])') <= old_pool_size'[x]
                        /\ old_pool_size'[x] + amount'[x] < Modulus
      BY DEF OldCoversSeen
    <2>1. CASE x = w
      <3>1. old_pool_size'[w] = Cardinality(ByteSet(InPool(d), amount))
        <4>1. gpu_mem_reservation[d] = Cardinality(PoolBytes(d))
          BY <1>1 DEF IInv, CounterMatchesReservations
        <4>2. QED
          BY <4>1, <1>1, <1>2, BytesOfIsByteSet DEF PoolBytes, IInv, TypeOK
      <3>2. Cardinality(BytesOf(seen[w])') = Cardinality(ByteSet(InPool(d), amount))
        BY <1>2, <1>7, BytesOfIsByteSet
      <3>0. InPool(d) \in SUBSET Workers /\ w \in Workers \ InPool(d)
        BY <1>3 DEF InPool
      <3>3. Cardinality(ByteSet(InPool(d) \cup {w}, amount))
              = Cardinality(ByteSet(InPool(d), amount)) + amount[w]
        BY <3>0, <1>1, ByteSetAdd
      <3>4. Cardinality(ByteSet(InPool(d) \cup {w}, amount)) \in 0 .. Modulus - 1
        BY <3>0, <1>1, ByteSetInRange
      <3>5. Cardinality(ByteSet(InPool(d), amount)) \in Nat
        BY <1>1, ByteSetBound DEF InPool
      <3>6. amount'[w] = amount[w] /\ amount[w] \in Nat
        BY <1>1, <1>2 DEF AmountFcn, Amounts
      <3>7. /\ Cardinality(BytesOf(seen[w])') <= old_pool_size'[w]
            /\ old_pool_size'[w] + amount'[w] < Modulus
        BY <3>1, <3>2, <3>3, <3>4, <3>5, <3>6, ModulusPositive
      <3>8. QED
        BY <2>1, <3>7
    <2>2. CASE x # w
      <3>1. pc[x] = "check"
        BY <2>2, <1>2
      <3>2. old_pool_size'[x] = old_pool_size[x]
        BY <2>2, <1>2
      <3>3. BytesOf(seen[x])' = BytesOf(seen[x]) /\ amount'[x] = amount[x]
        BY <2>2, <1>2, <1>12
      <3>4. /\ Cardinality(BytesOf(seen[x])) <= old_pool_size[x]
            /\ old_pool_size[x] + amount[x] < Modulus
        BY <3>1 DEF SInv, OldCoversSeen
      <3>5. QED
        BY <3>2, <3>3, <3>4
    <2>3. QED
      BY <2>1, <2>2
  <1>14. AdmittedFits'
    <2> SUFFICES ASSUME NEW x \in Workers, pc'[x] = "alloc"
                 PROVE  allocated'[dev'[x]] + amount'[x]
                          + Cardinality(BytesOf(Pending(seen[x]))')
                          <= Capacity[dev'[x]]
      BY DEF AdmittedFits
    <2>1. x # w /\ pc[x] = "alloc"
      BY <1>1, <1>2
    <2>2. QED
      BY <2>1, <1>2, <1>12 DEF SInv, AdmittedFits
  <1>15. NoOvercommit'
    BY <1>2 DEF SInv, NoOvercommit
  <1>16. QED
    BY <1>9, <1>10, <1>11, <1>13, <1>14, <1>15 DEF SInv

(***************************************************************************)
(* A step that changes no pool and no worker's device, amount or          *)
(* old_pool_size, and neither is nor makes a fetch_add, leaves seen and    *)
(* every conjunct about it alone.                                          *)
(***************************************************************************)
LEMMA SamePoolsKeep ==
  ASSUME IInv, SInv, SeenNext, NEW w \in Workers, NEW to,
         pc[w] # "add", to # "check",
         pc' = [pc EXCEPT ![w] = to],
         UNCHANGED <<dev, amount, old_pool_size>>,
         \A e \in Devices : InPool(e)' = InPool(e)
  PROVE  /\ seen' = seen
         /\ SeenInPool' /\ SeenTotal' /\ SeenTransitive' /\ OldCoversSeen'
  <1>1. /\ pc \in [Workers -> Locations] /\ dev \in [Workers -> Devices]
        /\ amount \in AmountFcn
    BY IInvTypes
  <1>2. /\ seen \in [Workers -> SUBSET Workers]
        /\ \A x \in Workers : seen[x] \subseteq InPool(dev[x]) \ {x}
    BY DEF SInv, SeenInPool
  <1>3. \A x \in Workers : ~(pc[x] = "add" /\ pc'[x] = "check")
    BY <1>1
  <1>4. \A x \in Workers : InPool(dev[x])' = InPool(dev[x])
    BY <1>1
  <1>5. seen' = seen
    <2>1. seen' = [x \in Workers |-> seen[x] \cap InPool(dev[x])']
      BY <1>3 DEF SeenNext
    <2>2. QED
      BY <2>1, <1>2, <1>4
  <1>6. SeenInPool' /\ SeenTotal' /\ SeenTransitive'
    BY <1>4, <1>5 DEF SInv, SeenInPool, SeenTotal, SeenTransitive
  <1>7. OldCoversSeen'
    <2> SUFFICES ASSUME NEW x \in Workers, pc'[x] = "check"
                 PROVE  /\ Cardinality(BytesOf(seen[x])') <= old_pool_size'[x]
                        /\ old_pool_size'[x] + amount'[x] < Modulus
      BY DEF OldCoversSeen
    <2>1. x # w /\ pc[x] = "check"
      BY <1>1
    <2>2. BytesOf(seen[x])' = BytesOf(seen[x])
      BY <1>5, BytesOfIsByteSet
    <2>3. QED
      BY <2>1, <2>2 DEF SInv, OldCoversSeen
  <1>8. QED
    BY <1>5, <1>6, <1>7

(***************************************************************************)
(* A fetch_sub (rollback or release) takes w out of its pool and out of    *)
(* every record; nothing else about the pools changes.                     *)
(***************************************************************************)
LEMMA LeavePoolKeeps ==
  ASSUME IInv, SInv, SeenNext, NEW w \in Workers,
         pc[w] \in {"rollback", "sub"},
         NEW to \in {"add", "run"},
         pc' = [pc EXCEPT ![w] = to],
         UNCHANGED <<allocated, dev, amount, old_pool_size>>
  PROVE  SInv'
  <1>1. /\ pc \in [Workers -> Locations] /\ dev \in [Workers -> Devices]
        /\ amount \in AmountFcn
    BY IInvTypes
  <1>2. /\ seen \in [Workers -> SUBSET Workers]
        /\ \A x \in Workers : seen[x] \subseteq InPool(dev[x]) \ {x}
    BY DEF SInv, SeenInPool
  <1>3. \A e \in Devices : InPool(e)' = InPool(e) \ {w}
    BY <1>1 DEF InPool
  <1>4. seen' = [x \in Workers |-> seen[x] \ {w}]
    <2>1. \A x \in Workers : ~(pc[x] = "add" /\ pc'[x] = "check")
      BY <1>1
    <2>2. seen' = [x \in Workers |-> seen[x] \cap InPool(dev[x])']
      BY <2>1 DEF SeenNext
    <2>3. \A x \in Workers : InPool(dev[x])' = InPool(dev[x]) \ {w}
      BY <1>1, <1>3
    <2>4. QED
      BY <2>2, <2>3, <1>2
  <1>5. SeenInPool' /\ SeenTotal' /\ SeenTransitive'
    <2>1. SeenInPool'
      BY <1>2, <1>3, <1>4, <1>1 DEF SeenInPool
    <2>2. SeenTotal'
      <3> SUFFICES ASSUME NEW e \in Devices, NEW x \in InPool(e)',
                          NEW y \in InPool(e)', x # y
                   PROVE  x \in seen'[y] \/ y \in seen'[x]
        BY DEF SeenTotal
      <3>1. x \in InPool(e) /\ y \in InPool(e) /\ x # w /\ y # w
        BY <1>3
      <3>2. x \in seen[y] \/ y \in seen[x]
        BY <3>1 DEF SInv, SeenTotal
      <3>3. x \in Workers /\ y \in Workers
        BY <3>1 DEF InPool
      <3>4. QED
        BY <1>4, <3>1, <3>2, <3>3
    <2>3. SeenTransitive'
      BY <1>4 DEF SInv, SeenTransitive
    <2>4. QED
      BY <2>1, <2>2, <2>3
  <1>6. \A x \in Workers : /\ seen[x] \ {w} \in SUBSET Workers
                           /\ seen[x] \in SUBSET Workers
    BY <1>2
  <1>7. OldCoversSeen'
    <2> SUFFICES ASSUME NEW x \in Workers, pc'[x] = "check"
                 PROVE  /\ Cardinality(BytesOf(seen[x])') <= old_pool_size'[x]
                        /\ old_pool_size'[x] + amount'[x] < Modulus
      BY DEF OldCoversSeen
    <2>1. x # w /\ pc[x] = "check"
      BY <1>1
    <2>2. BytesOf(seen[x])' = ByteSet(seen[x] \ {w}, amount)
      BY <1>4, BytesOfIsByteSet
    <2>3. Cardinality(ByteSet(seen[x] \ {w}, amount))
            <= Cardinality(ByteSet(seen[x], amount))
      BY <1>1, <1>6, ByteSetMono
    <2>4. Cardinality(ByteSet(seen[x], amount)) <= old_pool_size[x]
      BY <2>1, BytesOfIsByteSet DEF SInv, OldCoversSeen
    <2>5. Cardinality(ByteSet(seen[x] \ {w}, amount)) \in Nat
      BY <1>1, <1>6, ByteSetBound
    <2>6. old_pool_size[x] + amount[x] < Modulus
      BY <2>1 DEF SInv, OldCoversSeen
    <2>7. /\ old_pool_size'[x] = old_pool_size[x] /\ amount'[x] = amount[x]
          /\ old_pool_size[x] \in Nat
      BY IInvTypes
    <2>8. Cardinality(ByteSet(seen[x], amount)) \in Nat
      BY <1>1, <1>6, ByteSetBound
    <2>9. QED
      BY <2>2, <2>3, <2>4, <2>5, <2>6, <2>7, <2>8
  <1>8. AdmittedFits'
    <2> SUFFICES ASSUME NEW x \in Workers, pc'[x] = "alloc"
                 PROVE  allocated'[dev'[x]] + amount'[x]
                          + Cardinality(BytesOf(Pending(seen[x]))')
                          <= Capacity[dev'[x]]
      BY DEF AdmittedFits
    <2>1. x # w /\ pc[x] = "alloc"
      BY <1>1
    <2>2. Pending(seen[x])' = Pending(seen[x] \ {w})
      BY <1>4 DEF Pending
    <2>3. /\ Pending(seen[x] \ {w}) \in SUBSET Workers
          /\ Pending(seen[x]) \in SUBSET Workers
          /\ Pending(seen[x] \ {w}) \subseteq Pending(seen[x])
      BY <1>6 DEF Pending
    <2>4. Cardinality(BytesOf(Pending(seen[x]))')
            <= Cardinality(ByteSet(Pending(seen[x]), amount))
      BY <2>2, <2>3, <1>1, ByteSetMono, BytesOfIsByteSet
    <2>5. allocated[dev[x]] + amount[x]
            + Cardinality(ByteSet(Pending(seen[x]), amount)) <= Capacity[dev[x]]
      BY <2>1, BytesOfIsByteSet DEF SInv, AdmittedFits
    <2>6. /\ Cardinality(BytesOf(Pending(seen[x]))') \in Nat
          /\ Cardinality(ByteSet(Pending(seen[x]), amount)) \in Nat
          /\ allocated[dev[x]] \in Nat /\ amount[x] \in Nat
          /\ Capacity[dev[x]] \in Nat
      <3>1. BytesOf(Pending(seen[x]))' = ByteSet(Pending(seen[x] \ {w}), amount)
        BY <2>2, BytesOfIsByteSet
      <3>2. /\ Cardinality(ByteSet(Pending(seen[x] \ {w}), amount)) \in Nat
            /\ Cardinality(ByteSet(Pending(seen[x]), amount)) \in Nat
        BY <2>3, <1>1, ByteSetBound
      <3>3. QED
        BY <3>1, <3>2, <1>1, IInvTypes, CapacityAssumption DEF AmountFcn, Amounts
    <2>7. QED
      BY <2>4, <2>5, <2>6
  <1>9. NoOvercommit'
    BY DEF SInv, NoOvercommit
  <1>10. QED
    BY <1>5, <1>7, <1>8, <1>9 DEF SInv

(***************************************************************************)
(* A successful check admits w: old_pool_size covered every worker before  *)
(* w, and old_pool_size + amount did not wrap, so w's amount fits next to  *)
(* the allocated memory and the pending bytes of those workers.            *)
(***************************************************************************)
LEMMA CheckKeeps ==
  ASSUME IInv, SInv, SeenNext, NEW w \in Workers, ReserveCheck(w)
  PROVE  SInv'
  <1> DEFINE d == dev[w]
  <1>1. /\ pc \in [Workers -> Locations] /\ dev \in [Workers -> Devices]
        /\ amount \in AmountFcn /\ allocated \in [Devices -> Nat]
        /\ old_pool_size \in [Workers -> 0 .. Modulus - 1]
    BY IInvTypes
  <1>2. PICK to \in {"alloc", "rollback"} :
          /\ pc[w] = "check"
          /\ pc' = [pc EXCEPT ![w] = to]
          /\ to = "alloc" =>
               CheckValidCudaMalloc(WrapAdd(old_pool_size[w], amount[w]), d)
          /\ UNCHANGED <<gpu_mem_reservation, allocated, dev, amount,
                         old_pool_size>>
    BY DEF ReserveCheck
  <1>3. \A e \in Devices : InPool(e)' = InPool(e)
    BY <1>1, <1>2 DEF InPool
  <1>4. /\ seen' = seen
        /\ SeenInPool' /\ SeenTotal' /\ SeenTransitive' /\ OldCoversSeen'
    BY <1>2, <1>3, SamePoolsKeep
  <1>5. \A x \in Workers :
          BytesOf(Pending(seen[x]))' = BytesOf(Pending(seen[x]))
    <2>1. \A S \in SUBSET Workers : Pending(S)' = Pending(S)
      BY <1>1, <1>2 DEF Pending
    <2>2. \A x \in Workers : seen[x] \in SUBSET Workers
      BY DEF SInv, SeenInPool
    <2>3. QED
      BY <1>2, <1>4, <2>1, <2>2, BytesOfIsByteSet
  <1>6. AdmittedFits'
    <2> SUFFICES ASSUME NEW x \in Workers, pc'[x] = "alloc"
                 PROVE  allocated[dev[x]] + amount[x]
                          + Cardinality(BytesOf(Pending(seen[x])))
                          <= Capacity[dev[x]]
      BY <1>2, <1>5 DEF AdmittedFits
    <2>1. CASE x # w
      BY <2>1, <1>2 DEF SInv, AdmittedFits
    <2>2. CASE x = w
      <3>1. WrapAdd(old_pool_size[w], amount[w]) + allocated[d] <= Capacity[d]
        BY <2>2, <1>2 DEF CheckValidCudaMalloc
      <3>2. /\ Cardinality(BytesOf(seen[w])) <= old_pool_size[w]
            /\ old_pool_size[w] + amount[w] < Modulus
        BY <1>2 DEF SInv, OldCoversSeen
      <3>3. old_pool_size[w] \in Nat /\ amount[w] \in Nat
        BY <1>1 DEF AmountFcn, Amounts
      <3>4. WrapAdd(old_pool_size[w], amount[w]) = old_pool_size[w] + amount[w]
        BY <3>2, <3>3, ModSmall DEF WrapAdd
      <3>5. seen[w] \in SUBSET Workers /\ Pending(seen[w]) \subseteq seen[w]
        BY DEF SInv, SeenInPool, Pending
      <3>6. Cardinality(ByteSet(Pending(seen[w]), amount))
              <= Cardinality(ByteSet(seen[w], amount))
        BY <1>1, <3>5, ByteSetMono
      <3>7. /\ Cardinality(ByteSet(Pending(seen[w]), amount)) \in Nat
            /\ Cardinality(ByteSet(seen[w], amount)) \in Nat
        BY <1>1, <3>5, ByteSetBound
      <3>8. allocated[d] \in Nat /\ Capacity[d] \in Nat
        BY <1>1, CapacityAssumption
      <3>9. QED
        BY <2>2, <3>1, <3>2, <3>3, <3>4, <3>6, <3>7, <3>8, BytesOfIsByteSet
    <2>3. QED
      BY <2>1, <2>2
  <1>7. NoOvercommit'
    BY <1>2 DEF SInv, NoOvercommit
  <1>8. QED
    BY <1>4, <1>6, <1>7 DEF SInv

(***************************************************************************)
(* The load of release and the end of the operation admit nobody, leave   *)
(* the pending workers alone and never increase the allocated memory.     *)
(***************************************************************************)
LEMMA NoAdmitKeeps ==
  ASSUME IInv, SInv, SeenNext, NEW w \in Workers,
         pc[w] \in {"load", "run"}, NEW to \in {"sub", "idle"},
         (pc[w] = "load") <=> (to = "sub"),
         pc' = [pc EXCEPT ![w] = to],
         UNCHANGED <<dev, amount, old_pool_size>>,
         allocated' \in [Devices -> Nat],
         \A e \in Devices : allocated'[e] <= allocated[e]
  PROVE  SInv'
  <1>1. /\ pc \in [Workers -> Locations] /\ dev \in [Workers -> Devices]
        /\ amount \in AmountFcn /\ allocated \in [Devices -> Nat]
    BY IInvTypes
  <1>2. \A e \in Devices : InPool(e)' = InPool(e)
    BY <1>1 DEF InPool
  <1>3. /\ seen' = seen
        /\ SeenInPool' /\ SeenTotal' /\ SeenTransitive' /\ OldCoversSeen'
    BY <1>2, SamePoolsKeep
  <1>4. \A x \in Workers :
          BytesOf(Pending(seen[x]))' = BytesOf(Pending(seen[x]))
    <2>1. \A S \in SUBSET Workers : Pending(S)' = Pending(S)
      BY <1>1 DEF Pending
    <2>2. \A x \in Workers : seen[x] \in SUBSET Workers
      BY DEF SInv, SeenInPool
    <2>3. QED
      BY <1>3, <2>1, <2>2, BytesOfIsByteSet
  <1>5. AdmittedFits'
    <2> SUFFICES ASSUME NEW x \in Workers, pc'[x] = "alloc"
                 PROVE  allocated'[dev[x]] + amount[x]
                          + Cardinality(BytesOf(Pending(seen[x])))
                          <= Capacity[dev[x]]
      BY <1>4 DEF AdmittedFits
    <2>1. x # w /\ pc[x] = "alloc"
      BY <1>1
    <2>2. allocated[dev[x]] + amount[x]
            + Cardinality(BytesOf(Pending(seen[x]))) <= Capacity[dev[x]]
      BY <2>1 DEF SInv, AdmittedFits
    <2>3. Pending(seen[x]) \in SUBSET Workers
      BY DEF SInv, SeenInPool, Pending
    <2>4. /\ Cardinality(BytesOf(Pending(seen[x]))) \in Nat
          /\ amount[x] \in Nat /\ Capacity[dev[x]] \in Nat
          /\ allocated[dev[x]] \in Nat /\ allocated'[dev[x]] \in Nat
      BY <1>1, <2>3, BytesNat, CapacityAssumption DEF AmountFcn, Amounts
    <2>5. QED
      BY <1>1, <2>2, <2>4
  <1>6. NoOvercommit'
    <2>1. \A e \in Devices : allocated[e] <= Capacity[e] /\ Capacity[e] \in Nat
      BY CapacityAssumption DEF SInv, NoOvercommit
    <2>2. QED
      BY <1>1, <2>1 DEF NoOvercommit
  <1>7. QED
    BY <1>3, <1>5, <1>6 DEF SInv

(***************************************************************************)
(* The allocation of an admitted worker w keeps every other admitted       *)
(* worker x within capacity.  If w went before x, w's bytes move from x's  *)
(* pending bytes to the allocated memory.  Otherwise x went before w, and  *)
(* w's own admission counted x and every pending worker before x.          *)
(***************************************************************************)
LEMMA AllocateKeeps ==
  ASSUME IInv, SInv, SeenNext, NEW w \in Workers, Allocate(w)
  PROVE  SInv'
  <1> DEFINE d == dev[w]
             P(x) == Pending(seen[x])
             C(S) == Cardinality(ByteSet(S, amount))
  <1>1. /\ pc \in [Workers -> Locations] /\ dev \in [Workers -> Devices]
        /\ amount \in AmountFcn /\ allocated \in [Devices -> Nat]
    BY IInvTypes
  <1>2. /\ pc[w] = "alloc"
        /\ pc' = [pc EXCEPT ![w] = "load"]
        /\ allocated' = [allocated EXCEPT ![d] = @ + amount[w]]
        /\ UNCHANGED <<gpu_mem_reservation, dev, amount, old_pool_size>>
    BY DEF Allocate, Move
  <1>3. \A e \in Devices : InPool(e)' = InPool(e)
    BY <1>1, <1>2 DEF InPool
  <1>4. /\ seen' = seen
        /\ SeenInPool' /\ SeenTotal' /\ SeenTransitive' /\ OldCoversSeen'
    BY <1>2, <1>3, SamePoolsKeep
  <1>5. /\ seen \in [Workers -> SUBSET Workers]
        /\ \A x \in Workers : seen[x] \subseteq InPool(dev[x]) \ {x}
    BY DEF SInv, SeenInPool
  <1>6. \A x \in Workers : /\ P(x) \in SUBSET Workers
                           /\ BytesOf(P(x))' = ByteSet(P(x) \ {w}, amount)
                           /\ Cardinality(BytesOf(P(x))) = C(P(x))
                           /\ C(P(x)) \in Nat
    BY <1>1, <1>2, <1>4, <1>5, BytesOfIsByteSet, ByteSetBound DEF Pending
  <1>7. /\ allocated[d] + amount[w] + C(P(w)) <= Capacity[d]
        /\ amount[w] \in Nat /\ Capacity[d] \in Nat /\ allocated[d] \in Nat
    <2>1. allocated[d] + amount[w] + Cardinality(BytesOf(P(w))) <= Capacity[d]
      BY <1>2 DEF SInv, AdmittedFits
    <2>2. Cardinality(BytesOf(P(w))) = C(P(w))
      BY <1>6
    <2>3. d \in Devices
      BY <1>1
    <2>4. amount[w] \in Nat /\ Capacity[d] \in Nat /\ allocated[d] \in Nat
      BY <1>1, <2>3, CapacityAssumption DEF AmountFcn, Amounts
    <2>5. QED
      BY <2>1, <2>2, <2>4
  <1>8. AdmittedFits'
    <2> SUFFICES ASSUME NEW x \in Workers, pc'[x] = "alloc"
                 PROVE  allocated'[dev[x]] + amount[x]
                          + C(P(x) \ {w}) <= Capacity[dev[x]]
      BY <1>2, <1>6 DEF AdmittedFits
    <2>0. x # w /\ pc[x] = "alloc"
      BY <1>1, <1>2
    <2>1. /\ x # w /\ pc[x] = "alloc"
          /\ allocated[dev[x]] + amount[x] + C(P(x)) <= Capacity[dev[x]]
          /\ amount[x] \in Nat /\ Capacity[dev[x]] \in Nat
          /\ allocated[dev[x]] \in Nat
      <3>1. allocated[dev[x]] + amount[x] + Cardinality(BytesOf(P(x)))
              <= Capacity[dev[x]]
        BY <2>0 DEF SInv, AdmittedFits
      <3>2. Cardinality(BytesOf(P(x))) = C(P(x))
        BY <1>6
      <3>3. /\ amount[x] \in Nat /\ Capacity[dev[x]] \in Nat
            /\ allocated[dev[x]] \in Nat
        BY <1>1, CapacityAssumption DEF AmountFcn, Amounts
      <3>4. QED
        BY <2>0, <3>1, <3>2, <3>3
    <2>2. CASE dev[x] # d
      <3>1. w \notin P(x)
        BY <2>2, <1>5 DEF Pending, InPool
      <3>2. allocated'[dev[x]] = allocated[dev[x]]
        BY <2>2, <1>1, <1>2
      <3>3. QED
        BY <2>1, <3>1, <3>2
    <2>3. CASE dev[x] = d /\ w \in seen[x]
      <3>1. w \in P(x)
        BY <2>3, <1>2 DEF Pending
      <3>2. C(P(x)) = C(P(x) \ {w}) + amount[w]
        BY <3>1, <1>1, <1>6, ByteSetRemove
      <3>3. C(P(x) \ {w}) \in Nat
        BY <1>1, <1>6, ByteSetBound
      <3>4. allocated'[d] = allocated[d] + amount[w]
        BY <1>1, <1>2
      <3>5. QED
        BY <2>1, <2>3, <3>2, <3>3, <3>4, <1>7
    <2>4. CASE dev[x] = d /\ w \notin seen[x]
      <3>1. x \in InPool(d) /\ w \in InPool(d)
        BY <2>1, <2>4, <1>2 DEF InPool
      <3>2. x \in seen[w]
        BY <1>1, <2>1, <2>4, <3>1 DEF SInv, SeenTotal
      <3>3. seen[x] \subseteq seen[w]
        BY <3>2 DEF SInv, SeenTransitive
      <3>4. /\ P(x) \ {w} = P(x)
            /\ x \notin P(x)
            /\ P(x) \cup {x} \subseteq P(w)
        BY <2>1, <2>4, <3>2, <3>3, <1>5 DEF Pending
      <3>5. C(P(x) \cup {x}) = C(P(x)) + amount[x]
        BY <3>4, <1>1, <1>6, ByteSetAdd
      <3>6. C(P(x) \cup {x}) <= C(P(w))
        BY <3>4, <1>1, <1>6, ByteSetMono
      <3>7. allocated'[d] = allocated[d] + amount[w]
        BY <1>1, <1>2
      <3>8. C(P(x)) \in Nat /\ C(P(w)) \in Nat /\ C(P(x) \ {w}) = C(P(x))
        BY <3>4, <1>6
      <3>9. QED
        BY <2>1, <2>4, <3>5, <3>6, <3>7, <3>8, <1>7
    <2>5. QED
      BY <2>2, <2>3, <2>4
  <1>9. NoOvercommit'
    <2>1. allocated'[d] <= Capacity[d]
      <3>1. allocated'[d] = allocated[d] + amount[w]
        BY <1>1, <1>2
      <3>2. C(P(w)) \in Nat
        BY <1>6
      <3>3. QED
        BY <3>1, <3>2, <1>7
    <2>2. \A e \in Devices \ {d} : allocated'[e] <= Capacity[e]
      BY <1>1, <1>2 DEF SInv, NoOvercommit
    <2>3. QED
      BY <2>1, <2>2 DEF NoOvercommit
  <1>10. QED
    BY <1>4, <1>8, <1>9 DEF SInv

-----------------------------------------------------------------------------
(***************************************************************************)
(* HInv is inductive.                                                      *)
(***************************************************************************)

LEMMA InitHInv == HInit => HInv
  <1> SUFFICES ASSUME HInit PROVE HInv
    OBVIOUS
  <1>1. IInv
    BY InitIInv DEF HInit
  <1>2. \A e \in Devices : InPool(e) = {}
    BY DEF HInit, Init, InPool
  <1>3. SeenInPool /\ SeenTotal /\ SeenTransitive
    BY <1>2 DEF HInit, SeenInPool, SeenTotal, SeenTransitive
  <1>4. OldCoversSeen /\ AdmittedFits
    BY DEF HInit, Init, OldCoversSeen, AdmittedFits
  <1>5. NoOvercommit
    BY CapacityAssumption DEF HInit, Init, NoOvercommit
  <1>6. QED
    BY <1>1, <1>3, <1>4, <1>5 DEF HInv

LEMMA HNextInv == HInv /\ [HNext]_hvars => HInv'
  <1> SUFFICES ASSUME HInv, [HNext]_hvars PROVE HInv'
    OBVIOUS
  <1>0. IInv /\ SInv
    BY DEF HInv, SInv
  <1>1. IInv'
    BY <1>0, NextIInv DEF HNext, hvars, vars
  <1>2. ASSUME HNext PROVE SInv'
    <2>0. SeenNext
      BY <1>2 DEF HNext
    <2> PICK w \in Workers : \/ \E d \in Devices, a \in Amounts : CallReserve(w, d, a)
                             \/ Step(w)
      BY <1>2 DEF HNext, Next
    <2>1. CASE \E d \in Devices, a \in Amounts : CallReserve(w, d, a)
      BY <1>0, <1>1, <2>0, <2>1, CallReserveKeeps
    <2>2. CASE ReserveFetchAdd(w)
      BY <1>0, <1>1, <2>0, <2>2, FetchAddKeeps
    <2>3. CASE ReserveCheck(w)
      BY <1>0, <2>0, <2>3, CheckKeeps
    <2>4. CASE ReserveRollback(w)
      BY <1>0, <2>0, <2>4, LeavePoolKeeps DEF ReserveRollback, Move
    <2>5. CASE Allocate(w)
      BY <1>0, <2>0, <2>5, AllocateKeeps
    <2>6. CASE ReleaseLoad(w)
      <3>1. pc'[w] # "panicked"
        BY <1>1 DEF IInv, ReleaseNeverPanics
      <3>2. /\ pc[w] = "load"
            /\ pc' = [pc EXCEPT ![w] = "sub"]
            /\ UNCHANGED <<allocated, dev, amount, old_pool_size>>
        BY <2>6, <3>1, IInvTypes, <1>0 DEF ReleaseLoad
      <3>3. allocated' \in [Devices -> Nat] /\ \A e \in Devices : allocated'[e] <= allocated[e]
        BY <3>2, <1>0, IInvTypes
      <3>4. QED
        BY <1>0, <2>0, <3>2, <3>3, NoAdmitKeeps
    <2>7. CASE ReleaseSub(w)
      BY <1>0, <2>0, <2>7, LeavePoolKeeps DEF ReleaseSub, Move
    <2>8. CASE Finish(w)
      <3>1. /\ pc[w] = "run"
            /\ pc' = [pc EXCEPT ![w] = "idle"]
            /\ allocated' = [allocated EXCEPT ![dev[w]] = @ - amount[w]]
            /\ UNCHANGED <<dev, amount, old_pool_size>>
        BY <2>8 DEF Finish, Move
      <3>2. /\ allocated' \in [Devices -> Nat]
            /\ allocated \in [Devices -> Nat] /\ dev[w] \in Devices
            /\ amount[w] \in Nat
        BY <1>0, <1>1, IInvTypes DEF IInv, TypeOK, AmountFcn, Amounts
      <3>3. \A e \in Devices : allocated'[e] <= allocated[e]
        BY <3>1, <3>2
      <3>4. QED
        BY <1>0, <2>0, <3>1, <3>2, <3>3, NoAdmitKeeps
    <2>9. QED
      BY <2>1, <2>2, <2>3, <2>4, <2>5, <2>6, <2>7, <2>8 DEF Step
  <1>3. ASSUME UNCHANGED hvars PROVE SInv'
    <2>1. UNCHANGED <<gpu_mem_reservation, allocated, pc, dev, amount,
                      old_pool_size, seen>>
      BY <1>3 DEF hvars, vars
    <2>2. \A e \in Devices : InPool(e)' = InPool(e)
      BY <2>1 DEF InPool
    <2>3. \A S : BytesOf(S)' = BytesOf(S) /\ Pending(S)' = Pending(S)
      BY <2>1 DEF BytesOf, Pending
    <2>4. SeenInPool' /\ SeenTotal' /\ SeenTransitive'
      BY <1>0, <2>1, <2>2, IInvTypes
         DEF SInv, SeenInPool, SeenTotal, SeenTransitive
    <2>5. OldCoversSeen' /\ AdmittedFits' /\ NoOvercommit'
      BY <1>0, <2>1, <2>3 DEF SInv, OldCoversSeen, AdmittedFits, NoOvercommit
    <2>6. QED
      BY <2>4, <2>5 DEF SInv
  <1>4. QED
    BY <1>1, <1>2, <1>3 DEF HInv, SInv

(***************************************************************************)
(* The admission invariant holds in every reachable state of the pool     *)
(* with its history, for every set of workers and GPUs, every capacity and *)
(* every counter width in which the workers' total demand fits.            *)
(***************************************************************************)
THEOREM HistoryInvariance == HSpec => []HInv
  BY InitHInv, HNextInv, PTL DEF HSpec

(***************************************************************************)
(* reserve_memory_on_gpu never lets the allocations on a GPU exceed its    *)
(* capacity, however many workers' fetch_adds, checks, rollbacks,         *)
(* allocations and releases interleave.  seen only records the steps, so   *)
(* this holds of every behaviour of Spec.                                  *)
(***************************************************************************)
THEOREM NoOvercommitProved == HSpec => []NoOvercommit
  <1>1. HInv => NoOvercommit
    BY DEF HInv
  <1>2. QED
    BY <1>1, HistoryInvariance, PTL

-----------------------------------------------------------------------------
(***************************************************************************)
(* Refinement: the pool implements atomic admission.                       *)
(***************************************************************************)

\* A step that moves a worker within "waiting" or within "holding" and
\* changes no allocation, device or amount is a stutter of GpuAdmission.
LEMMA SameStageStutters ==
  ASSUME NEW w \in Workers, NEW to,
         \/ {pc[w], to} \subseteq {"add", "check", "rollback", "alloc"}
         \/ {pc[w], to} \subseteq {"load", "sub", "run", "panicked"},
         pc' = [pc EXCEPT ![w] = to], pc \in [Workers -> Locations],
         UNCHANGED <<allocated, dev, amount>>
  PROVE  UNCHANGED Admission!avars
  <1>1. \A v \in Workers : StageOf(v)' = StageOf(v)
    BY DEF StageOf
  <1>2. QED
    BY <1>1 DEF Admission!avars

LEMMA HNextMaps == HInv /\ [HNext]_hvars => [Admission!ANext]_Admission!avars
  <1> SUFFICES ASSUME HInv, [HNext]_hvars
               PROVE  [Admission!ANext]_Admission!avars
    OBVIOUS
  <1>0. /\ pc \in [Workers -> Locations] /\ dev \in [Workers -> Devices]
        /\ amount \in AmountFcn /\ allocated \in [Devices -> Nat]
    BY IInvTypes DEF HInv
  <1>1. CASE UNCHANGED hvars
    BY <1>1 DEF hvars, vars, Admission!avars, StageOf
  <1>2. CASE HNext
    <2> PICK w \in Workers : \/ \E d \in Devices, a \in Amounts : CallReserve(w, d, a)
                             \/ Step(w)
      BY <1>2 DEF HNext, Next
    <2>1. CASE \E d \in Devices, a \in Amounts : CallReserve(w, d, a)
      <3> PICK d \in Devices, a \in Amounts : CallReserve(w, d, a)
        BY <2>1
      <3>1. /\ pc[w] = "idle"
            /\ pc' = [pc EXCEPT ![w] = "add"]
            /\ dev' = [dev EXCEPT ![w] = d]
            /\ amount' = [amount EXCEPT ![w] = a]
            /\ UNCHANGED allocated
        BY DEF CallReserve, Move
      <3>2. Admission!Request(w, d, a)
        BY <3>1, <1>0 DEF Admission!Request, StageOf
      <3>3. QED
        BY <3>2 DEF Admission!ANext, Amounts
    <2>2. CASE ReserveFetchAdd(w)
      BY <2>2, <1>0, SameStageStutters DEF ReserveFetchAdd, Move
    <2>3. CASE ReserveCheck(w)
      BY <2>3, <1>0, SameStageStutters DEF ReserveCheck
    <2>4. CASE ReserveRollback(w)
      BY <2>4, <1>0, SameStageStutters DEF ReserveRollback, Move
    <2>5. CASE Allocate(w)
      <3>1. /\ pc[w] = "alloc"
            /\ pc' = [pc EXCEPT ![w] = "load"]
            /\ allocated' = [allocated EXCEPT ![dev[w]] = @ + amount[w]]
            /\ UNCHANGED <<dev, amount>>
        BY <2>5 DEF Allocate, Move
      <3>2. allocated[dev[w]] + amount[w] <= Capacity[dev[w]]
        <4>1. allocated[dev[w]] + amount[w]
                + Cardinality(BytesOf(Pending(seen[w]))) <= Capacity[dev[w]]
          BY <3>1 DEF HInv, AdmittedFits
        <4>2. Pending(seen[w]) \in SUBSET Workers
          BY DEF HInv, SeenInPool, Pending
        <4>3. /\ Cardinality(BytesOf(Pending(seen[w]))) \in Nat
              /\ allocated[dev[w]] \in Nat /\ amount[w] \in Nat
              /\ Capacity[dev[w]] \in Nat
          BY <1>0, <4>2, BytesNat, CapacityAssumption DEF HInv, AmountFcn, Amounts
        <4>4. QED
          BY <4>1, <4>3
      <3>3. Admission!Admit(w)
        BY <3>1, <3>2, <1>0 DEF Admission!Admit, StageOf
      <3>4. QED
        BY <3>3 DEF Admission!ANext
    <2>6. CASE ReleaseLoad(w)
      <3>1. PICK to \in {"sub", "panicked"} :
              /\ pc[w] = "load" /\ pc' = [pc EXCEPT ![w] = to]
              /\ UNCHANGED <<allocated, dev, amount>>
        BY <2>6 DEF ReleaseLoad
      <3>2. QED
        BY <3>1, <1>0, SameStageStutters
    <2>7. CASE ReleaseSub(w)
      BY <2>7, <1>0, SameStageStutters DEF ReleaseSub, Move
    <2>8. CASE Finish(w)
      <3>1. /\ pc[w] = "run"
            /\ pc' = [pc EXCEPT ![w] = "idle"]
            /\ allocated' = [allocated EXCEPT ![dev[w]] = @ - amount[w]]
            /\ UNCHANGED <<dev, amount>>
        BY <2>8 DEF Finish, Move
      <3>2. Admission!Free(w)
        BY <3>1, <1>0 DEF Admission!Free, StageOf
      <3>3. QED
        BY <3>2 DEF Admission!ANext
    <2>9. QED
      BY <2>1, <2>2, <2>3, <2>4, <2>5, <2>6, <2>7, <2>8 DEF Step
  <1>3. QED
    BY <1>1, <1>2

LEMMA InitMaps == HInit => Admission!AInit
  BY DevicesAssumption DEF HInit, Init, Admission!AInit, StageOf

(***************************************************************************)
(* The optimistic fetch_add / check / rollback loop of                     *)
(* reserve_memory_on_gpu, with the allocation and release around it,       *)
(* implements GpuAdmission: under the mapping of each worker's location to *)
(* idle, waiting or holding, every allocation is an atomic admission whose *)
(* bytes fit next to those already allocated on the GPU, and every other   *)
(* atomic step is invisible.                                               *)
(***************************************************************************)
THEOREM Implementation == HSpec => AdmissionRefinement
  <1>1. HSpec => []HInv
    BY HistoryInvariance
  <1>2. QED
    BY <1>1, InitMaps, HNextMaps, PTL DEF HSpec, AdmissionRefinement, Admission!ASpec


=============================================================================
