------------------------ MODULE GpuReservationProofs ------------------------
(***************************************************************************)
(* Proofs about GpuReservation for every number of workers and GPUs, every *)
(* capacity, amount bound and counter width that satisfy its assumptions.  *)
(*                                                                          *)
(* A sum of amounts is written as the cardinality of a set of "bytes"      *)
(* {w} \X (1 .. a[w]), so that adding or removing one worker's amount is   *)
(* a union or a difference of disjoint finite sets, which the facts of     *)
(* FiniteSetTheorems settle without induction.                              *)
(***************************************************************************)
EXTENDS GpuReservation, FiniteSetTheorems, TLAPS

\* The bytes of the workers in S under an amount function a.
ByteSet(S, a) == UNION {{w} \X (1 .. a[w]) : w \in S}

AmountFcn == [Workers -> Amounts]

LEMMA ModulusPositive == Modulus \in Nat /\ Modulus > 0
  <1>1. Cardinality(Workers) \in Nat
    BY WorkersAssumption, FS_CardinalityType
  <1>2. QED
    BY <1>1, AmountAssumption, WidthAssumption

\* A value below the modulus is left alone by the wrap-around arithmetic.
LEMMA ModSmall ==
  ASSUME NEW x \in Nat, x < Modulus
  PROVE  x % Modulus = x
  BY ModulusPositive

\* One worker's bytes: a finite set of a[w] elements.
LEMMA OneWorkerBytes ==
  ASSUME NEW w, NEW n \in Nat
  PROVE  /\ IsFiniteSet({w} \X (1 .. n))
         /\ Cardinality({w} \X (1 .. n)) = n
  <1>1. IsFiniteSet({w}) /\ Cardinality({w}) = 1
    BY FS_Singleton
  <1>2. IsFiniteSet(1 .. n) /\ Cardinality(1 .. n) = n
    BY FS_Interval
  <1>3. /\ IsFiniteSet({w} \X (1 .. n))
        /\ Cardinality({w} \X (1 .. n)) = Cardinality({w}) * Cardinality(1 .. n)
    BY <1>1, <1>2, FS_Product
  <1>4. QED
    BY <1>1, <1>2, <1>3

\* The bytes of any set of workers fit in Workers \X (1 .. MaxAmount).
LEMMA ByteSetBound ==
  ASSUME NEW S \in SUBSET Workers, NEW a \in AmountFcn
  PROVE  /\ IsFiniteSet(ByteSet(S, a))
         /\ Cardinality(ByteSet(S, a)) \in Nat
         /\ Cardinality(ByteSet(S, a)) <= Cardinality(Workers) * MaxAmount
  <1>1. IsFiniteSet(Workers \X (1 .. MaxAmount))
        /\ Cardinality(Workers \X (1 .. MaxAmount))
             = Cardinality(Workers) * MaxAmount
    <2>1. IsFiniteSet(1 .. MaxAmount) /\ Cardinality(1 .. MaxAmount) = MaxAmount
      BY AmountAssumption, FS_Interval
    <2>2. QED
      BY <2>1, WorkersAssumption, FS_Product
  <1>2. ByteSet(S, a) \subseteq Workers \X (1 .. MaxAmount)
    <2>1. ASSUME NEW w \in S
          PROVE  {w} \X (1 .. a[w]) \subseteq Workers \X (1 .. MaxAmount)
      <3>1. a[w] \in 0 .. MaxAmount
        BY DEF AmountFcn, Amounts
      <3>2. 1 .. a[w] \subseteq 1 .. MaxAmount
        BY <3>1, AmountAssumption
      <3>3. QED
        BY <3>2
    <2>2. QED
      BY <2>1 DEF ByteSet
  <1>3. /\ IsFiniteSet(ByteSet(S, a))
        /\ Cardinality(ByteSet(S, a))
             <= Cardinality(Workers \X (1 .. MaxAmount))
    BY <1>1, <1>2, FS_Subset
  <1>4. Cardinality(ByteSet(S, a)) \in Nat
    BY <1>3, FS_CardinalityType
  <1>5. QED
    BY <1>1, <1>3, <1>4

\* Adding one worker outside S adds its amount.
LEMMA ByteSetAdd ==
  ASSUME NEW S \in SUBSET Workers, NEW a \in AmountFcn,
         NEW w \in Workers \ S
  PROVE  Cardinality(ByteSet(S \cup {w}, a))
           = Cardinality(ByteSet(S, a)) + a[w]
  <1> DEFINE B == {w} \X (1 .. a[w])
  <1>1. ByteSet(S \cup {w}, a) = ByteSet(S, a) \cup B
    BY DEF ByteSet
  <1>2. ByteSet(S, a) \cap B = {}
    <2>1. ASSUME NEW x \in ByteSet(S, a) PROVE x[1] \in S
      BY DEF ByteSet
    <2>2. ASSUME NEW x \in B PROVE x[1] = w
      OBVIOUS
    <2>3. QED
      BY <2>1, <2>2
  <1>0. a[w] \in Nat
    BY DEF AmountFcn, Amounts
  <1>3. IsFiniteSet(B) /\ Cardinality(B) = a[w]
    BY <1>0, OneWorkerBytes
  <1>4. IsFiniteSet(ByteSet(S, a)) /\ Cardinality(ByteSet(S, a)) \in Nat
    BY ByteSetBound
  <1>5. Cardinality(ByteSet(S, a) \cup B)
          = Cardinality(ByteSet(S, a)) + Cardinality(B) - Cardinality({})
    BY <1>2, <1>3, <1>4, FS_Union
  <1>6. Cardinality({}) = 0
    BY FS_EmptySet
  <1>7. Cardinality(ByteSet(S \cup {w}, a)) = Cardinality(ByteSet(S, a) \cup B)
    BY <1>1
  <1>8. QED
    BY <1>0, <1>3, <1>4, <1>5, <1>6, <1>7

\* Removing one worker of S removes its amount.
LEMMA ByteSetRemove ==
  ASSUME NEW S \in SUBSET Workers, NEW a \in AmountFcn, NEW w \in S
  PROVE  Cardinality(ByteSet(S, a))
           = Cardinality(ByteSet(S \ {w}, a)) + a[w]
  <1>1. (S \ {w}) \cup {w} = S
    OBVIOUS
  <1>2. Cardinality(ByteSet((S \ {w}) \cup {w}, a))
          = Cardinality(ByteSet(S \ {w}, a)) + a[w]
    BY ByteSetAdd
  <1>3. QED
    BY <1>1, <1>2

\* Two amount functions that agree on S give the same bytes.
LEMMA ByteSetAgree ==
  ASSUME NEW S, NEW a, NEW b, \A w \in S : a[w] = b[w]
  PROVE  ByteSet(S, a) = ByteSet(S, b)
  BY DEF ByteSet

\* The sum of the amounts of any workers is a value of the counter.
LEMMA ByteSetInRange ==
  ASSUME NEW S \in SUBSET Workers, NEW a \in AmountFcn
  PROVE  Cardinality(ByteSet(S, a)) \in 0 .. Modulus - 1
  <1>1. /\ Cardinality(ByteSet(S, a)) \in Nat
        /\ Cardinality(ByteSet(S, a)) <= Cardinality(Workers) * MaxAmount
    BY ByteSetBound
  <1>2. Cardinality(Workers) * MaxAmount \in Nat
    BY WorkersAssumption, AmountAssumption, FS_CardinalityType
  <1>3. QED
    BY <1>1, <1>2, WidthAssumption, ModulusPositive

\* The counter and the allocation of a GPU as sums over byte sets.
LEMMA BytesOfIsByteSet ==
  ASSUME NEW S
  PROVE  /\ BytesOf(S) = ByteSet(S, amount)
         /\ BytesOf(S)' = ByteSet(S', amount')
  BY DEF BytesOf, ByteSet

-----------------------------------------------------------------------------
(***************************************************************************)
(* Each action preserves IInv.                                              *)
(***************************************************************************)

LEMMA FetchAddPreserves ==
  ASSUME IInv, NEW w \in Workers, ReserveFetchAdd(w)
  PROVE  IInv'
  <1> DEFINE d == dev[w]
  <1>1. /\ TypeOK /\ CounterMatchesReservations /\ ReleaseNeverPanics
        /\ \A e \in Devices : allocated[e] = Cardinality(BytesOf(Holding(e)))
    BY DEF IInv
  <1>2. /\ pc[w] = "add"
        /\ pc' = [pc EXCEPT ![w] = "check"]
        /\ old_pool_size' = [old_pool_size EXCEPT ![w] = gpu_mem_reservation[d]]
        /\ gpu_mem_reservation' = [gpu_mem_reservation EXCEPT
                                       ![d] = WrapAdd(@, amount[w])]
        /\ UNCHANGED <<allocated, dev, amount>>
    BY DEF ReserveFetchAdd, Move
  <1>3. d \in Devices /\ amount \in AmountFcn
    BY <1>1 DEF TypeOK, AmountFcn
  <1>4. \A e \in Devices : InPool(e)' = IF e = d THEN InPool(e) \cup {w}
                                                ELSE InPool(e)
    BY <1>1, <1>2 DEF InPool, TypeOK
  <1>5. \A e \in Devices : Holding(e)' = Holding(e)
    BY <1>1, <1>2 DEF Holding, TypeOK
  <1>6. w \notin InPool(d)
    BY <1>2 DEF InPool
  <1>7. CounterMatchesReservations'
    <2> SUFFICES ASSUME NEW e \in Devices
                 PROVE  gpu_mem_reservation'[e] = Cardinality(PoolBytes(e)')
      BY DEF CounterMatchesReservations
    <2>1. CASE e = d
      <3>1. gpu_mem_reservation[d] = Cardinality(ByteSet(InPool(d), amount))
        BY <1>1, <1>3, BytesOfIsByteSet DEF CounterMatchesReservations, PoolBytes
      <3>2. Cardinality(ByteSet(InPool(d) \cup {w}, amount))
              = Cardinality(ByteSet(InPool(d), amount)) + amount[w]
        <4>1. InPool(d) \in SUBSET Workers
          BY DEF InPool
        <4>2. QED
          BY <1>3, <1>6, <4>1, ByteSetAdd
      <3>3. Cardinality(ByteSet(InPool(d) \cup {w}, amount)) \in 0 .. Modulus - 1
        <4>1. InPool(d) \cup {w} \in SUBSET Workers
          BY DEF InPool
        <4>2. QED
          BY <1>3, <4>1, ByteSetInRange
      <3>4. gpu_mem_reservation'[d] = (gpu_mem_reservation[d] + amount[w]) % Modulus
        BY <1>1, <1>2, <1>3 DEF TypeOK, WrapAdd
      <3>5. gpu_mem_reservation'[d] = Cardinality(ByteSet(InPool(d) \cup {w}, amount))
        <4>1. Cardinality(ByteSet(InPool(d) \cup {w}, amount)) % Modulus
                = Cardinality(ByteSet(InPool(d) \cup {w}, amount))
          <5>1. /\ Cardinality(ByteSet(InPool(d) \cup {w}, amount)) \in Nat
                /\ Cardinality(ByteSet(InPool(d) \cup {w}, amount)) < Modulus
            BY <3>3, ModulusPositive
          <5>2. QED
            BY <5>1, ModSmall
        <4>2. QED
          BY <3>1, <3>2, <3>4, <4>1
      <3>6. PoolBytes(e)' = ByteSet(InPool(d) \cup {w}, amount)
        BY <1>2, <1>4, <2>1, BytesOfIsByteSet DEF PoolBytes
      <3>7. QED
        BY <2>1, <3>5, <3>6
    <2>2. CASE e # d
      <3>1. gpu_mem_reservation'[e] = gpu_mem_reservation[e]
        BY <1>1, <1>2, <2>2 DEF TypeOK
      <3>2. PoolBytes(e)' = PoolBytes(e)
        BY <1>2, <1>4, <2>2, BytesOfIsByteSet DEF PoolBytes
      <3>3. QED
        BY <1>1, <3>1, <3>2 DEF CounterMatchesReservations
    <2>3. QED
      BY <2>1, <2>2
  <1>8. \A e \in Devices : allocated'[e] = Cardinality(BytesOf(Holding(e))')
    BY <1>1, <1>2, <1>5, BytesOfIsByteSet
  <1>9. ReleaseNeverPanics'
    BY <1>1, <1>2 DEF ReleaseNeverPanics
  <1>10. TypeOK'
    <2>1. \A e \in Devices : Cardinality(PoolBytes(e)') \in 0 .. Modulus - 1
      <3> SUFFICES ASSUME NEW e \in Devices
                   PROVE  Cardinality(ByteSet(InPool(e)', amount)) \in 0 .. Modulus - 1
        BY <1>2, BytesOfIsByteSet DEF PoolBytes
      <3>1. InPool(e)' \in SUBSET Workers
        BY DEF InPool
      <3>2. QED
        BY <1>3, <3>1, ByteSetInRange
    <2>2. gpu_mem_reservation' \in [Devices -> 0 .. Modulus - 1]
      BY <1>1, <1>2, <1>7, <2>1 DEF TypeOK, CounterMatchesReservations
    <2>3. old_pool_size' \in [Workers -> 0 .. Modulus - 1]
      BY <1>1, <1>2, <1>3 DEF TypeOK
    <2>4. pc' \in [Workers -> Locations]
      BY <1>1, <1>2 DEF TypeOK, Locations
    <2>5. QED
      BY <1>1, <1>2, <2>2, <2>3, <2>4 DEF TypeOK
  <1>11. QED
    BY <1>7, <1>8, <1>9, <1>10 DEF IInv

\* fetch_sub of an amount the counter holds, in wrap-around arithmetic.
LEMMA WrapSubExact ==
  ASSUME NEW x \in Nat, NEW y \in Nat, y <= x, x < Modulus
  PROVE  WrapSub(x, y) = x - y
  <1>1. x - y \in Nat /\ x - y < Modulus
    BY ModulusPositive
  <1>2. (x - y + Modulus) % Modulus = (x - y) % Modulus
    BY <1>1, ModulusPositive, SMTT(30)
  <1>3. (x - y) % Modulus = x - y
    BY <1>1, ModSmall
  <1>4. x + Modulus - y = x - y + Modulus
    BY ModulusPositive
  <1>5. QED
    BY <1>2, <1>3, <1>4 DEF WrapSub

(***************************************************************************)
(* The two fetch_subs: the rollback of a failed try and the release.  Both *)
(* take the worker out of the pool of its GPU and leave the holders alone. *)
(***************************************************************************)
LEMMA FetchSubPreserves ==
  ASSUME IInv, NEW w \in Workers,
         NEW from \in {"rollback", "sub"}, NEW to \in {"add", "run"},
         from = "rollback" <=> to = "add",
         pc[w] = from,
         pc' = [pc EXCEPT ![w] = to],
         gpu_mem_reservation' = [gpu_mem_reservation EXCEPT
                                    ![dev[w]] = WrapSub(@, amount[w])],
         UNCHANGED <<allocated, dev, amount, old_pool_size>>
  PROVE  IInv'
  <1> DEFINE d == dev[w]
  <1>1. /\ TypeOK /\ CounterMatchesReservations /\ ReleaseNeverPanics
        /\ \A e \in Devices : allocated[e] = Cardinality(BytesOf(Holding(e)))
    BY DEF IInv
  <1>3. d \in Devices /\ amount \in AmountFcn
    BY <1>1 DEF TypeOK, AmountFcn
  <1>4. \A e \in Devices : InPool(e)' = IF e = d THEN InPool(e) \ {w}
                                                ELSE InPool(e)
    BY <1>1 DEF InPool, TypeOK
  <1>5. \A e \in Devices : Holding(e)' = Holding(e)
    BY <1>1 DEF Holding, TypeOK
  <1>6. w \in InPool(d)
    BY DEF InPool
  <1>7. CounterMatchesReservations'
    <2> SUFFICES ASSUME NEW e \in Devices
                 PROVE  gpu_mem_reservation'[e] = Cardinality(PoolBytes(e)')
      BY DEF CounterMatchesReservations
    <2>1. CASE e = d
      <3>1. gpu_mem_reservation[d] = Cardinality(ByteSet(InPool(d), amount))
        BY <1>1, <1>3, BytesOfIsByteSet DEF CounterMatchesReservations, PoolBytes
      <3>2. Cardinality(ByteSet(InPool(d), amount))
              = Cardinality(ByteSet(InPool(d) \ {w}, amount)) + amount[w]
        <4>1. InPool(d) \in SUBSET Workers
          BY DEF InPool
        <4>2. QED
          BY <1>3, <1>6, <4>1, ByteSetRemove
      <3>3. /\ Cardinality(ByteSet(InPool(d) \ {w}, amount)) \in Nat
            /\ Cardinality(ByteSet(InPool(d), amount)) < Modulus
        <4>1. InPool(d) \ {w} \in SUBSET Workers /\ InPool(d) \in SUBSET Workers
          BY DEF InPool
        <4>2. Cardinality(ByteSet(InPool(d) \ {w}, amount)) \in 0 .. Modulus - 1
          BY <1>3, <4>1, ByteSetInRange
        <4>3. Cardinality(ByteSet(InPool(d), amount)) \in 0 .. Modulus - 1
          BY <1>3, <4>1, ByteSetInRange
        <4>4. QED
          BY <4>2, <4>3, ModulusPositive
      <3>4. amount[w] \in Nat
        BY <1>3, AmountAssumption DEF AmountFcn, Amounts
      <3>5. WrapSub(gpu_mem_reservation[d], amount[w])
              = Cardinality(ByteSet(InPool(d) \ {w}, amount))
        BY <3>1, <3>2, <3>3, <3>4, WrapSubExact
      <3>6. gpu_mem_reservation'[d] = WrapSub(gpu_mem_reservation[d], amount[w])
        BY <1>1, <1>3 DEF TypeOK
      <3>7. PoolBytes(e)' = ByteSet(InPool(d) \ {w}, amount)
        BY <1>4, <2>1, BytesOfIsByteSet DEF PoolBytes
      <3>8. QED
        BY <2>1, <3>5, <3>6, <3>7
    <2>2. CASE e # d
      <3>1. gpu_mem_reservation'[e] = gpu_mem_reservation[e]
        BY <1>1, <2>2 DEF TypeOK
      <3>2. PoolBytes(e)' = PoolBytes(e)
        BY <1>4, <2>2, BytesOfIsByteSet DEF PoolBytes
      <3>3. QED
        BY <1>1, <3>1, <3>2 DEF CounterMatchesReservations
    <2>3. QED
      BY <2>1, <2>2
  <1>8. \A e \in Devices : allocated'[e] = Cardinality(BytesOf(Holding(e))')
    BY <1>1, <1>5, BytesOfIsByteSet
  <1>9. ReleaseNeverPanics'
    BY <1>1 DEF ReleaseNeverPanics
  <1>10. TypeOK'
    <2>1. \A e \in Devices : Cardinality(PoolBytes(e)') \in 0 .. Modulus - 1
      <3> SUFFICES ASSUME NEW e \in Devices
                   PROVE  Cardinality(ByteSet(InPool(e)', amount)) \in 0 .. Modulus - 1
        BY BytesOfIsByteSet DEF PoolBytes
      <3>1. InPool(e)' \in SUBSET Workers
        BY DEF InPool
      <3>2. QED
        BY <1>3, <3>1, ByteSetInRange
    <2>2. gpu_mem_reservation' \in [Devices -> 0 .. Modulus - 1]
      BY <1>1, <1>7, <2>1 DEF TypeOK, CounterMatchesReservations
    <2>3. pc' \in [Workers -> Locations]
      BY <1>1 DEF TypeOK, Locations
    <2>4. QED
      BY <1>1, <2>2, <2>3 DEF TypeOK
  <1>11. QED
    BY <1>7, <1>8, <1>9, <1>10 DEF IInv

(***************************************************************************)
(* Steps that change neither the pool nor the holders of any GPU, nor the *)
(* amounts of their workers: the call of reserve, the check of a try and  *)
(* the load of release that passes its assert.                            *)
(***************************************************************************)
LEMMA SameSetsPreserves ==
  ASSUME IInv, NEW w \in Workers, NEW to \in Locations \ {"panicked"},
         pc' = [pc EXCEPT ![w] = to],
         dev' \in [Workers -> Devices],
         amount' \in AmountFcn,
         \A e \in Devices :
            /\ InPool(e)' = InPool(e)
            /\ Holding(e)' = Holding(e)
            /\ \A v \in InPool(e) \cup Holding(e) : amount'[v] = amount[v],
         UNCHANGED <<gpu_mem_reservation, allocated, old_pool_size>>
  PROVE  IInv'
  <1>1. /\ TypeOK /\ CounterMatchesReservations /\ ReleaseNeverPanics
        /\ \A e \in Devices : allocated[e] = Cardinality(BytesOf(Holding(e)))
    BY DEF IInv
  <1>2. \A e \in Devices : PoolBytes(e)' = PoolBytes(e)
    <2> SUFFICES ASSUME NEW e \in Devices PROVE PoolBytes(e)' = PoolBytes(e)
      OBVIOUS
    <2>1. ByteSet(InPool(e), amount') = ByteSet(InPool(e), amount)
      BY ByteSetAgree
    <2>2. QED
      BY <2>1, BytesOfIsByteSet DEF PoolBytes
  <1>3. \A e \in Devices : BytesOf(Holding(e))' = BytesOf(Holding(e))
    <2> SUFFICES ASSUME NEW e \in Devices
                 PROVE BytesOf(Holding(e))' = BytesOf(Holding(e))
      OBVIOUS
    <2>1. ByteSet(Holding(e), amount') = ByteSet(Holding(e), amount)
      BY ByteSetAgree
    <2>2. QED
      BY <2>1, BytesOfIsByteSet
  <1>4. CounterMatchesReservations'
    BY <1>1, <1>2 DEF CounterMatchesReservations
  <1>5. ReleaseNeverPanics'
    BY <1>1 DEF ReleaseNeverPanics, TypeOK
  <1>6. TypeOK'
    BY <1>1 DEF TypeOK, AmountFcn, Locations
  <1>7. QED
    BY <1>1, <1>3, <1>4, <1>5, <1>6 DEF IInv

LEMMA CallReservePreserves ==
  ASSUME IInv, NEW w \in Workers, NEW d \in Devices, NEW a \in Amounts,
         CallReserve(w, d, a)
  PROVE  IInv'
  <1>1. TypeOK
    BY DEF IInv
  <1>2. /\ pc[w] = "idle"
        /\ pc' = [pc EXCEPT ![w] = "add"]
        /\ dev' = [dev EXCEPT ![w] = d]
        /\ amount' = [amount EXCEPT ![w] = a]
        /\ UNCHANGED <<gpu_mem_reservation, allocated, old_pool_size>>
    BY DEF CallReserve, Move
  <1>3. dev' \in [Workers -> Devices] /\ amount' \in AmountFcn
    BY <1>1, <1>2 DEF TypeOK, AmountFcn
  <1>4. ASSUME NEW e \in Devices
        PROVE  /\ InPool(e)' = InPool(e)
               /\ Holding(e)' = Holding(e)
               /\ \A v \in InPool(e) \cup Holding(e) : amount'[v] = amount[v]
    BY <1>1, <1>2 DEF InPool, Holding, TypeOK
  <1>5. QED
    BY <1>2, <1>3, <1>4, SameSetsPreserves DEF Locations

LEMMA CheckPreserves ==
  ASSUME IInv, NEW w \in Workers, ReserveCheck(w)
  PROVE  IInv'
  <1>1. TypeOK
    BY DEF IInv
  <1>2. PICK to \in {"alloc", "rollback"} :
          /\ pc[w] = "check"
          /\ pc' = [pc EXCEPT ![w] = to]
          /\ UNCHANGED <<gpu_mem_reservation, allocated, dev, amount, old_pool_size>>
    BY DEF ReserveCheck
  <1>3. ASSUME NEW e \in Devices
        PROVE  /\ InPool(e)' = InPool(e)
               /\ Holding(e)' = Holding(e)
               /\ \A v \in InPool(e) \cup Holding(e) : amount'[v] = amount[v]
    BY <1>1, <1>2 DEF InPool, Holding, TypeOK
  <1>4. QED
    BY <1>1, <1>2, <1>3, SameSetsPreserves DEF Locations, TypeOK, AmountFcn

(***************************************************************************)
(* The load of release_memory_on_gpu always passes its assert: the worker *)
(* is in the pool of its GPU, so the counter holds at least its amount.   *)
(***************************************************************************)
LEMMA LoadPreserves ==
  ASSUME IInv, NEW w \in Workers, ReleaseLoad(w)
  PROVE  IInv'
  <1> DEFINE d == dev[w]
  <1>1. TypeOK /\ CounterMatchesReservations
    BY DEF IInv
  <1>2. d \in Devices /\ amount \in AmountFcn /\ amount[w] \in Nat
    BY <1>1, AmountAssumption DEF TypeOK, AmountFcn, Amounts
  <1>3. w \in InPool(d) /\ InPool(d) \in SUBSET Workers
    BY DEF ReleaseLoad, InPool
  <1>4. gpu_mem_reservation[d] >= amount[w]
    <2>1. gpu_mem_reservation[d] = Cardinality(ByteSet(InPool(d), amount))
      BY <1>1, <1>2, BytesOfIsByteSet DEF CounterMatchesReservations, PoolBytes
    <2>2. Cardinality(ByteSet(InPool(d), amount))
            = Cardinality(ByteSet(InPool(d) \ {w}, amount)) + amount[w]
      BY <1>2, <1>3, ByteSetRemove
    <2>3. Cardinality(ByteSet(InPool(d) \ {w}, amount)) \in Nat
      BY <1>2, <1>3, ByteSetBound
    <2>4. QED
      BY <1>2, <2>1, <2>2, <2>3
  <1>5. /\ pc' = [pc EXCEPT ![w] = "sub"]
        /\ UNCHANGED <<gpu_mem_reservation, allocated, dev, amount, old_pool_size>>
    BY <1>4 DEF ReleaseLoad
  <1>6. ASSUME NEW e \in Devices
        PROVE  /\ InPool(e)' = InPool(e)
               /\ Holding(e)' = Holding(e)
               /\ \A v \in InPool(e) \cup Holding(e) : amount'[v] = amount[v]
    BY <1>1, <1>5 DEF ReleaseLoad, InPool, Holding, TypeOK
  <1>7. QED
    BY <1>1, <1>2, <1>5, <1>6, SameSetsPreserves DEF Locations, TypeOK

\* The allocation after reserve returns: the worker joins the holders.
LEMMA AllocatePreserves ==
  ASSUME IInv, NEW w \in Workers, Allocate(w)
  PROVE  IInv'
  <1> DEFINE d == dev[w]
  <1>1. /\ TypeOK /\ CounterMatchesReservations /\ ReleaseNeverPanics
        /\ \A e \in Devices : allocated[e] = Cardinality(BytesOf(Holding(e)))
    BY DEF IInv
  <1>2. /\ pc[w] = "alloc"
        /\ pc' = [pc EXCEPT ![w] = "load"]
        /\ allocated' = [allocated EXCEPT ![d] = @ + amount[w]]
        /\ UNCHANGED <<gpu_mem_reservation, dev, amount, old_pool_size>>
    BY DEF Allocate, Move
  <1>3. d \in Devices /\ amount \in AmountFcn /\ amount[w] \in Nat
    BY <1>1, AmountAssumption DEF TypeOK, AmountFcn, Amounts
  <1>4. \A e \in Devices : InPool(e)' = InPool(e)
    BY <1>1, <1>2 DEF InPool, TypeOK
  <1>5. \A e \in Devices : Holding(e)' = IF e = d THEN Holding(e) \cup {w}
                                                 ELSE Holding(e)
    BY <1>1, <1>2 DEF Holding, TypeOK
  <1>6. \A e \in Devices : allocated'[e] = Cardinality(BytesOf(Holding(e))')
    <2> SUFFICES ASSUME NEW e \in Devices
                 PROVE  allocated'[e] = Cardinality(BytesOf(Holding(e))')
      OBVIOUS
    <2>1. CASE e = d
      <3>1. allocated'[d] = allocated[d] + amount[w]
        BY <1>1, <1>2, <1>3 DEF TypeOK
      <3>2. Cardinality(ByteSet(Holding(d) \cup {w}, amount))
              = Cardinality(ByteSet(Holding(d), amount)) + amount[w]
        <4>1. Holding(d) \in SUBSET Workers /\ w \notin Holding(d)
          BY <1>2 DEF Holding
        <4>2. QED
          BY <1>3, <4>1, ByteSetAdd
      <3>3. BytesOf(Holding(e))' = ByteSet(Holding(d) \cup {w}, amount)
        BY <1>2, <1>5, <2>1, BytesOfIsByteSet
      <3>4. allocated[d] = Cardinality(ByteSet(Holding(d), amount))
        BY <1>1, <1>3, BytesOfIsByteSet
      <3>5. QED
        BY <2>1, <3>1, <3>2, <3>3, <3>4
    <2>2. CASE e # d
      <3>1. allocated'[e] = allocated[e]
        BY <1>1, <1>2, <2>2 DEF TypeOK
      <3>2. BytesOf(Holding(e))' = BytesOf(Holding(e))
        BY <1>2, <1>5, <2>2, BytesOfIsByteSet
      <3>3. QED
        BY <1>1, <3>1, <3>2
    <2>3. QED
      BY <2>1, <2>2
  <1>7. CounterMatchesReservations'
    <2>1. \A e \in Devices : PoolBytes(e)' = PoolBytes(e)
      BY <1>2, <1>4, BytesOfIsByteSet DEF PoolBytes
    <2>2. QED
      BY <1>1, <1>2, <2>1 DEF CounterMatchesReservations
  <1>8. ReleaseNeverPanics'
    BY <1>1, <1>2 DEF ReleaseNeverPanics
  <1>9. TypeOK'
    <2>1. allocated' \in [Devices -> Nat]
      BY <1>1, <1>2, <1>3 DEF TypeOK
    <2>2. QED
      BY <1>1, <1>2, <2>1 DEF TypeOK, Locations
  <1>10. QED
    BY <1>6, <1>7, <1>8, <1>9 DEF IInv

\* The operation completes: its memory is freed and the worker leaves the
\* holders.
LEMMA FinishPreserves ==
  ASSUME IInv, NEW w \in Workers, Finish(w)
  PROVE  IInv'
  <1> DEFINE d == dev[w]
  <1>1. /\ TypeOK /\ CounterMatchesReservations /\ ReleaseNeverPanics
        /\ \A e \in Devices : allocated[e] = Cardinality(BytesOf(Holding(e)))
    BY DEF IInv
  <1>2. /\ pc[w] = "run"
        /\ pc' = [pc EXCEPT ![w] = "idle"]
        /\ allocated' = [allocated EXCEPT ![d] = @ - amount[w]]
        /\ UNCHANGED <<gpu_mem_reservation, dev, amount, old_pool_size>>
    BY DEF Finish, Move
  <1>3. d \in Devices /\ amount \in AmountFcn /\ amount[w] \in Nat
    BY <1>1, AmountAssumption DEF TypeOK, AmountFcn, Amounts
  <1>4. \A e \in Devices : InPool(e)' = InPool(e)
    BY <1>1, <1>2 DEF InPool, TypeOK
  <1>5. \A e \in Devices : Holding(e)' = IF e = d THEN Holding(e) \ {w}
                                                 ELSE Holding(e)
    BY <1>1, <1>2 DEF Holding, TypeOK
  <1>6. ASSUME NEW e \in Devices, e = d
        PROVE  /\ allocated'[e] = Cardinality(BytesOf(Holding(e))')
               /\ allocated'[e] \in Nat
    <2>1. allocated'[d] = allocated[d] - amount[w]
      BY <1>1, <1>2, <1>3 DEF TypeOK
    <2>2. Holding(d) \in SUBSET Workers /\ w \in Holding(d)
      BY <1>2 DEF Holding
    <2>3. Cardinality(ByteSet(Holding(d), amount))
            = Cardinality(ByteSet(Holding(d) \ {w}, amount)) + amount[w]
      BY <1>3, <2>2, ByteSetRemove
    <2>4. Cardinality(ByteSet(Holding(d) \ {w}, amount)) \in Nat
      BY <1>3, <2>2, ByteSetBound
    <2>5. BytesOf(Holding(e))' = ByteSet(Holding(d) \ {w}, amount)
      BY <1>2, <1>5, <1>6, BytesOfIsByteSet
    <2>6. allocated[d] = Cardinality(ByteSet(Holding(d), amount))
      BY <1>1, <1>3, BytesOfIsByteSet
    <2>7. QED
      BY <1>3, <1>6, <2>1, <2>3, <2>4, <2>5, <2>6
  <1>7. \A e \in Devices : allocated'[e] = Cardinality(BytesOf(Holding(e))')
    <2> SUFFICES ASSUME NEW e \in Devices, e # d
                 PROVE  allocated'[e] = Cardinality(BytesOf(Holding(e))')
      BY <1>6
    <2>1. allocated'[e] = allocated[e]
      BY <1>1, <1>2 DEF TypeOK
    <2>2. BytesOf(Holding(e))' = BytesOf(Holding(e))
      BY <1>2, <1>5, BytesOfIsByteSet
    <2>3. QED
      BY <1>1, <2>1, <2>2
  <1>8. CounterMatchesReservations'
    <2>1. \A e \in Devices : PoolBytes(e)' = PoolBytes(e)
      BY <1>2, <1>4, BytesOfIsByteSet DEF PoolBytes
    <2>2. QED
      BY <1>1, <1>2, <2>1 DEF CounterMatchesReservations
  <1>9. ReleaseNeverPanics'
    BY <1>1, <1>2 DEF ReleaseNeverPanics
  <1>10. TypeOK'
    <2>1. allocated' \in [Devices -> Nat]
      BY <1>1, <1>2, <1>6 DEF TypeOK
    <2>2. QED
      BY <1>1, <1>2, <2>1 DEF TypeOK, Locations
  <1>11. QED
    BY <1>7, <1>8, <1>9, <1>10 DEF IInv

-----------------------------------------------------------------------------
(***************************************************************************)
(* Initial states and the invariance theorems.                             *)
(***************************************************************************)

LEMMA InitIInv == Init => IInv
  <1> SUFFICES ASSUME Init PROVE IInv
    OBVIOUS
  <1>1. \A e \in Devices : InPool(e) = {} /\ Holding(e) = {}
    BY DEF Init, InPool, Holding
  <1>2. BytesOf({}) = {} /\ Cardinality({}) = 0
    BY FS_EmptySet DEF BytesOf
  <1>3. TypeOK
    BY ModulusPositive, DevicesAssumption, AmountAssumption
       DEF Init, TypeOK, Locations, Amounts
  <1>4. CounterMatchesReservations
    BY <1>1, <1>2 DEF Init, CounterMatchesReservations, PoolBytes
  <1>5. \A e \in Devices : allocated[e] = Cardinality(BytesOf(Holding(e)))
    BY <1>1, <1>2 DEF Init
  <1>6. ReleaseNeverPanics
    BY DEF Init, ReleaseNeverPanics
  <1>7. QED
    BY <1>3, <1>4, <1>5, <1>6 DEF IInv

LEMMA NextIInv == IInv /\ [Next]_vars => IInv'
  <1> SUFFICES ASSUME IInv, [Next]_vars PROVE IInv'
    OBVIOUS
  <1>1. CASE \E w \in Workers :
               \/ \E d \in Devices, a \in Amounts : CallReserve(w, d, a)
               \/ Step(w)
    <2> PICK w \in Workers : \/ \E d \in Devices, a \in Amounts : CallReserve(w, d, a)
                             \/ Step(w)
      BY <1>1
    <2>1. CASE \E d \in Devices, a \in Amounts : CallReserve(w, d, a)
      BY <2>1, CallReservePreserves
    <2>2. CASE ReserveFetchAdd(w)
      BY <2>2, FetchAddPreserves
    <2>3. CASE ReserveCheck(w)
      BY <2>3, CheckPreserves
    <2>4. CASE ReserveRollback(w)
      BY <2>4, FetchSubPreserves DEF ReserveRollback, Move
    <2>5. CASE Allocate(w)
      BY <2>5, AllocatePreserves
    <2>6. CASE ReleaseLoad(w)
      BY <2>6, LoadPreserves
    <2>7. CASE ReleaseSub(w)
      BY <2>7, FetchSubPreserves DEF ReleaseSub, Move
    <2>8. CASE Finish(w)
      BY <2>8, FinishPreserves
    <2>9. QED
      BY <2>1, <2>2, <2>3, <2>4, <2>5, <2>6, <2>7, <2>8 DEF Step
  <1>2. CASE UNCHANGED vars
    BY <1>2 DEF vars, IInv, TypeOK, CounterMatchesReservations,
                ReleaseNeverPanics, PoolBytes, BytesOf, InPool, Holding
  <1>3. QED
    BY <1>1, <1>2 DEF Next

(***************************************************************************)
(* The inductive invariant holds in every reachable state, for every set   *)
(* of worker threads and GPUs, every capacity and every counter width in   *)
(* which the workers' total demand fits.                                    *)
(***************************************************************************)
LEMMA Invariance == Spec => []IInv
  BY InitIInv, NextIInv, PTL DEF Spec

(***************************************************************************)
(* Counter conservation: every counter of gpu_mem_reservation is the sum of *)
(* the amounts whose fetch_add has not yet been undone, under every         *)
(* interleaving of reserve tries, rollbacks and releases.                  *)
(***************************************************************************)
THEOREM Conservation == Spec => []CounterMatchesReservations
  <1>1. IInv => CounterMatchesReservations
    BY DEF IInv
  <1>2. QED
    BY Invariance, <1>1, PTL

(***************************************************************************)
(* The assert of release_memory_on_gpu never fails, although its load and  *)
(* its fetch_sub are two separate atomic steps.                             *)
(***************************************************************************)
THEOREM NoPanic == Spec => []ReleaseNeverPanics
  <1>1. IInv => ReleaseNeverPanics
    BY DEF IInv
  <1>2. QED
    BY Invariance, <1>1, PTL

=============================================================================
