------------------------ MODULE CostEstimatorProofs ------------------------
(***************************************************************************)
(* Proofs about CostEstimator, for every set of scalar values: the three  *)
(* properties the run cost_estimator_dispatch checks on three values hold *)
(* for every operation, every operand list of up to three operands and    *)
(* every u256 scalar whatever its bytes.                                   *)
(***************************************************************************)
EXTENDS CostEstimator, SequenceTheorems, TLAPS

\* An operand list is a sequence of at most three operands.
LEMMA InputShape ==
  ASSUME NEW i \in Inputs
  PROVE  /\ Len(i) \in 0 .. 3
         /\ \A k \in 1 .. Len(i) : i[k] \in Operands
  <1>1. PICK n \in 0 .. 3 : i \in [1 .. n -> Operands]
    BY DEF Inputs
  <1>2. i \in Seq(Operands)
    BY <1>1, SeqDef
  <1>3. Len(i) = n
    BY <1>1, <1>2, LenProperties
  <1>4. QED
    BY <1>1, <1>3

\* Every operand is a ciphertext of a supported type or a Scalar.
LEMMA OperandKind ==
  ASSUME NEW x \in Operands
  PROVE  x.kind \in CtTypes \cup {"Scalar"}
  BY DEF Operands

\* The operations of spec section 4.2 are only defined on ciphertext types.
LEMMA SpecTypesAreCtTypes ==
  ASSUME NEW o
  PROVE  SpecTypes(o) \subseteq CtTypes
  BY DEF SpecTypes, CtTypes, UIntTypes, BytesTypes

(***************************************************************************)
(* The to_be_u<N>_bit of every (ciphertext, Scalar) arm is the width of    *)
(* that ciphertext type in spec section 3.                                  *)
(***************************************************************************)
LEMMA ScalarBitsAreSpecWidths ==
  ASSUME NEW t \in CtTypes
  PROVE  /\ ScalarBits[t] = SpecWidth[t]
         /\ ScalarBits[t] \in {4, 8, 16, 32, 64, 128, 160, 256, 512, 1024, 2048}
  <1>1. t \in {"FheBool", "FheUint4", "FheUint8", "FheUint16", "FheUint32",
                "FheUint64", "FheUint128", "FheUint160", "FheUint256",
                "FheBytes64", "FheBytes128", "FheBytes256"}
    BY DEF CtTypes, UIntTypes, BytesTypes
  <1>2. CASE t = "FheBool"
    BY <1>2 DEF ScalarBits, SpecWidth
  <1>3. CASE t = "FheUint4"
    BY <1>3 DEF ScalarBits, SpecWidth
  <1>4. CASE t = "FheUint8"
    BY <1>4 DEF ScalarBits, SpecWidth
  <1>5. CASE t = "FheUint16"
    BY <1>5 DEF ScalarBits, SpecWidth
  <1>6. CASE t = "FheUint32"
    BY <1>6 DEF ScalarBits, SpecWidth
  <1>7. CASE t = "FheUint64"
    BY <1>7 DEF ScalarBits, SpecWidth
  <1>8. CASE t = "FheUint128"
    BY <1>8 DEF ScalarBits, SpecWidth
  <1>9. CASE t = "FheUint160"
    BY <1>9 DEF ScalarBits, SpecWidth
  <1>10. CASE t = "FheUint256"
    BY <1>10 DEF ScalarBits, SpecWidth
  <1>11. CASE t = "FheBytes64"
    BY <1>11 DEF ScalarBits, SpecWidth
  <1>12. CASE t = "FheBytes128"
    BY <1>12 DEF ScalarBits, SpecWidth
  <1>13. CASE t = "FheBytes256"
    BY <1>13 DEF ScalarBits, SpecWidth
  <1>14. QED
    BY <1>1, <1>2, <1>3, <1>4, <1>5, <1>6, <1>7, <1>8, <1>9, <1>10, <1>11,
       <1>12, <1>13

\* to_be_u16_bit(..) as i16 is an i16, for every value of the scalar's bytes.
LEMMA TagIsI16 ==
  ASSUME NEW v \in Nat
  PROVE  TagOf(v) \in TagRange
  BY DEF TagOf, TagRange

-----------------------------------------------------------------------------
(***************************************************************************)
(* What the three properties ask of a cost c returned for operation o on  *)
(* operands i: a typed cost whose tag is an i16 and whose scalar width is *)
(* supported, returned as a size only for a shape spec section 4.2        *)
(* allows, and whose scalar is coerced to the width of the first operand. *)
(***************************************************************************)
CostOK(o, i, c) ==
    /\ c.status \in {"ok", "zero", "panic"}
    /\ c.arg.kind \in CtTypes \cup {"FheUint2", "Scalar", "bool", "tag", "none"}
    /\ c.arg.kind = "tag" => c.arg.width \in TagRange
    /\ c.arg.kind \in {"Scalar", "bool"} =>
           c.arg.width \in {4, 8, 16, 32, 64, 128, 160, 256, 512, 1024, 2048}
    /\ c.status = "ok" => SpecShape(o, i)
    /\ c.status = "ok" /\ c.arg.kind \in {"Scalar", "bool"} =>
           /\ c.arg.width = SpecWidth[i[1].kind]
           /\ c.recv \in {i[1].kind, "FheUint2"}

\* A panic satisfies them whatever the call.
LEMMA PanicOK ==
  ASSUME NEW o, NEW i
  PROVE  CostOK(o, i, Panic)
  BY DEF CostOK, Panic, NoArg

\* The shapes spec section 4.2 allows for a two-operand operation.
LEMMA SpecShapeBinary ==
  ASSUME NEW o \in BinaryOps, NEW i
  PROVE  SpecShape(o, i) <=> (/\ Len(i) >= 2
                              /\ i[1].kind \in SpecTypes(o)
                              /\ i[2].kind \in {i[1].kind, "Scalar"})
  BY DEF SpecShape, BinaryOps, ArithOps, BitOps, ShiftOps, MinMaxOps, EqOps,
         OrderOps

(***************************************************************************)
(* A two-operand match block whose (t, t) and (t, Scalar) arms are for    *)
(* types the operation is defined on returns costs that satisfy CostOK:   *)
(* assert_eq!(len, 2) rules out other lengths, the (t, t) arms require    *)
(* equal types, and the (t, Scalar) arms coerce with ScalarBits[t].       *)
(***************************************************************************)
LEMMA BinaryCostOK ==
  ASSUME NEW o \in BinaryOps, NEW fn, NEW i \in Inputs,
         NEW pairs \in SUBSET SpecTypes(o), NEW scalars \in SUBSET SpecTypes(o)
  PROVE  CostOK(o, i, BinaryCost(fn, i, pairs, scalars))
  <1>1. CASE Len(i) # 2
    BY <1>1, PanicOK DEF BinaryCost
  <1>2. CASE Len(i) = 2
    <2> DEFINE a == i[1].kind
               b == i[2].kind
    <2>1. /\ a \in CtTypes \cup {"Scalar"}
          /\ b \in CtTypes \cup {"Scalar"}
      BY <1>2, InputShape, OperandKind
    <2>2. pairs \subseteq CtTypes /\ scalars \subseteq CtTypes
      BY SpecTypesAreCtTypes
    <2>3. SpecShape(o, i) <=> (a \in SpecTypes(o) /\ b \in {a, "Scalar"})
      <3>1. Len(i) >= 2
        BY <1>2, InputShape
      <3>2. QED
        BY <3>1, SpecShapeBinary
    <2>4. CASE a \in pairs /\ b = a
      <3>1. BinaryCost(fn, i, pairs, scalars) = Leaf(fn, a, CtArg(b))
        BY <1>2, <2>4 DEF BinaryCost
      <3>2. QED
        BY <2>2, <2>3, <2>4, <3>1
           DEF CostOK, Leaf, CtArg, CtTypes, UIntTypes, BytesTypes
    <2>5. CASE ~(a \in pairs /\ b = a) /\ a \in scalars /\ b = "Scalar"
      <3>1. BinaryCost(fn, i, pairs, scalars) =
              Leaf(fn, IF a = "FheBool" THEN "FheUint2" ELSE a,
                   ScalarArg(ScalarBits[a]))
        BY <1>2, <2>5 DEF BinaryCost
      <3>2. /\ ScalarBits[a] = SpecWidth[a]
            /\ ScalarBits[a] \in {4, 8, 16, 32, 64, 128, 160, 256, 512, 1024, 2048}
        BY <2>2, <2>5, ScalarBitsAreSpecWidths
      <3>3. QED
        BY <2>3, <2>5, <3>1, <3>2 DEF CostOK, Leaf, ScalarArg
    <2>6. CASE ~(a \in pairs /\ b = a) /\ ~(a \in scalars /\ b = "Scalar")
      BY <1>2, <2>6, PanicOK DEF BinaryCost
    <2>7. QED
      BY <2>4, <2>5, <2>6
  <1>3. QED
    BY <1>1, <1>2

\* The shapes spec section 4.2 allows for the other operations.
LEMMA SpecShapeOther ==
  ASSUME NEW i
  PROVE  /\ \A o \in {"FheNot", "FheNeg"} :
              SpecShape(o, i) <=> Len(i) >= 1 /\ i[1].kind \in SpecTypes(o)
         /\ SpecShape("FheIfThenElse", i) <=>
              /\ Len(i) >= 3
              /\ i[1].kind = "FheBool"
              /\ i[2].kind \in CtTypes
              /\ i[3].kind = i[2].kind
         /\ \A o \in {"FheCast", "FheTrivialEncrypt", "FheRand"} :
              SpecShape(o, i) <=> Len(i) >= 2 /\ i[2].kind = "Scalar"
         /\ SpecShape("FheRandBounded", i) <=> Len(i) >= 3 /\ i[3].kind = "Scalar"
  BY DEF SpecShape, BinaryOps, ArithOps, BitOps, ShiftOps, MinMaxOps, EqOps,
         OrderOps

\* The types spec section 4.2 defines each two-operand operation on.
LEMMA SpecTypesOf ==
  /\ \A o \in ArithOps : SpecTypes(o) = UIntTypes
  /\ \A o \in ShiftOps : SpecTypes(o) = UIntTypes \cup BytesTypes
  /\ \A o \in BitOps \cup MinMaxOps \cup EqOps \cup OrderOps : SpecTypes(o) = CtTypes
  /\ SpecTypes("FheNot") = CtTypes
  /\ SpecTypes("FheNeg") = UIntTypes
  BY DEF SpecTypes, ArithOps, BitOps, ShiftOps, MinMaxOps, EqOps, OrderOps

\* A one-operand block: assert_eq!(len, 1) and an arm per defined type.
LEMMA UnaryCostOK ==
  ASSUME NEW o \in {"FheNot", "FheNeg"}, NEW fn, NEW i \in Inputs,
         NEW types \in SUBSET SpecTypes(o)
  PROVE  CostOK(o, i, UnaryCost(fn, i, types))
  <1>1. CASE Len(i) = 1 /\ i[1].kind \in types
    <2>1. SpecShape(o, i)
      BY <1>1, SpecShapeOther, InputShape
    <2>2. QED
      BY <1>1, <2>1 DEF UnaryCost, CostOK, Leaf, NoArg
  <1>2. CASE ~(Len(i) = 1 /\ i[1].kind \in types)
    BY <1>2, PanicOK DEF UnaryCost
  <1>3. QED
    BY <1>1, <1>2

\* BitAnd's own arm for a FheBool receiver passes to_be_u4_bit(b) > 0.
LEMMA BitAndOK ==
  ASSUME NEW i \in Inputs
  PROVE  CostOK("FheBitAnd", i, FheBitAndSize(i))
  <1>1. "FheBitAnd" \in BinaryOps /\ SpecTypes("FheBitAnd") = CtTypes
    BY SpecTypesOf DEF BinaryOps, BitOps
  <1>2. CASE Len(i) = 2 /\ i[1].kind = "FheBool" /\ i[2].kind = "Scalar"
    <2>1. SpecShape("FheBitAnd", i)
      BY <1>1, <1>2, SpecShapeBinary DEF CtTypes
    <2>2. QED
      BY <1>2, <2>1 DEF FheBitAndSize, CostOK, Leaf, SpecWidth
  <1>3. CASE ~(Len(i) = 2 /\ i[1].kind = "FheBool" /\ i[2].kind = "Scalar")
    <2>1. FheBitAndSize(i) = BinaryCost("bitand", i, CtTypes, CtTypes)
      BY <1>3 DEF FheBitAndSize
    <2>2. QED
      BY <1>1, <2>1, BinaryCostOK
  <1>4. QED
    BY <1>2, <1>3

\* A non-FheBool selector returns 0; FheBool branches are cast to FheUint2.
LEMMA IfThenElseOK ==
  ASSUME NEW i \in Inputs
  PROVE  CostOK("FheIfThenElse", i, FheIfThenElseSize(i))
  <1>1. CASE Len(i) # 3
    BY <1>1, PanicOK DEF FheIfThenElseSize
  <1>2. CASE Len(i) = 3 /\ i[1].kind # "FheBool"
    BY <1>2 DEF FheIfThenElseSize, CostOK, Zero, NoArg
  <1>3. CASE Len(i) = 3 /\ i[1].kind = "FheBool"
             /\ i[2].kind \in CtTypes /\ i[3].kind = i[2].kind
    <2>1. SpecShape("FheIfThenElse", i)
      BY <1>3, InputShape, SpecShapeOther
    <2>2. QED
      BY <1>3, <2>1 DEF FheIfThenElseSize, CostOK, Leaf, CtArg, CtTypes,
                        UIntTypes, BytesTypes
  <1>4. CASE Len(i) = 3 /\ i[1].kind = "FheBool"
             /\ ~(i[2].kind \in CtTypes /\ i[3].kind = i[2].kind)
    BY <1>4, PanicOK DEF FheIfThenElseSize
  <1>5. QED
    BY <1>1, <1>2, <1>3, <1>4

\* Cast and TrivialEncrypt encode the i16 tag of their second operand.
LEMMA CastOK ==
  ASSUME NEW o \in {"FheCast", "FheTrivialEncrypt"}, NEW i \in Inputs
  PROVE  CostOK(o, i, FheCastSize(i))
  <1>1. CASE Len(i) < 2 \/ i[2].kind # "Scalar"
    BY <1>1, PanicOK DEF FheCastSize
  <1>2. CASE ~(Len(i) < 2 \/ i[2].kind # "Scalar")
    <2>1. i[2] \in Operands /\ Len(i) \in 0 .. 3
      BY <1>2, InputShape
    <2>2. i[2].val \in Nat
      BY <1>2, <2>1, ScalarValuesAssumption
         DEF Operands, CtTypes, UIntTypes, BytesTypes
    <2>3. TagOf(i[2].val) \in TagRange
      BY <2>2, TagIsI16
    <2>4. SpecShape(o, i)
      BY <1>2, <2>1, SpecShapeOther
    <2>5. QED
      BY <1>2, <2>3, <2>4 DEF FheCastSize, CostOK, Leaf
  <1>3. QED
    BY <1>1, <1>2

\* Rand and RandBounded: the tag at pos picks one of 12 output types.
LEMMA RandOK ==
  ASSUME NEW o \in {"FheRand", "FheRandBounded"}, NEW fn, NEW i \in Inputs
  PROVE  CostOK(o, i, RandCost(fn, i, IF o = "FheRand" THEN 2 ELSE 3))
  <1> DEFINE pos == IF o = "FheRand" THEN 2 ELSE 3
  <1>1. CASE Len(i) < pos
    BY <1>1, PanicOK DEF RandCost
  <1>2. CASE ~(Len(i) < pos) /\ i[pos].kind # "Scalar"
    BY <1>2, InputShape DEF RandCost, CostOK, Zero, NoArg
  <1>3. CASE ~(Len(i) < pos) /\ i[pos].kind = "Scalar"
    <2>1. SpecShape(o, i)
      BY <1>3, InputShape, SpecShapeOther
    <2>2. QED
      BY <1>3, <2>1, PanicOK DEF RandCost, CostOK, Leaf, NoArg
  <1>4. QED
    BY <1>1, <1>2, <1>3

(***************************************************************************)
(* get_op_size_on_gpu: every one of its 26 match blocks, and the final    *)
(* panic!() for an operation without one, returns a cost that satisfies   *)
(* CostOK, for every operand list of up to three operands.                *)
(***************************************************************************)
LEMMA DispatchOK ==
  ASSUME NEW o \in Ops, NEW i \in Inputs
  PROVE  CostOK(o, i, GetOpSizeOnGpu(o, i))
  <1> USE DEF Ops, BinaryOps, ArithOps, BitOps, ShiftOps, MinMaxOps, EqOps,
              OrderOps
  <1>1. CASE o \in {"FheAdd", "FheSub", "FheMul", "FheDiv", "FheRem"}
    <2>1. PICK fn : GetOpSizeOnGpu(o, i) = BinaryCost(fn, i, UIntTypes, UIntTypes)
      BY <1>1 DEF GetOpSizeOnGpu, FheAddSize, FheSubSize, FheMulSize, FheDivSize,
             FheRemSize
    <2>2. /\ UIntTypes \in SUBSET SpecTypes(o)
          /\ UIntTypes \in SUBSET SpecTypes(o)
      BY <1>1, SpecTypesOf DEF CtTypes
    <2>3. QED
      BY <1>1, <2>1, <2>2, BinaryCostOK
  <1>2. CASE o \in {"FheBitOr", "FheBitXor"}
    <2>1. PICK fn : GetOpSizeOnGpu(o, i) = BinaryCost(fn, i, CtTypes, CtTypes)
      BY <1>2 DEF GetOpSizeOnGpu, FheBitOrSize, FheBitXorSize
    <2>2. /\ CtTypes \in SUBSET SpecTypes(o)
          /\ CtTypes \in SUBSET SpecTypes(o)
      BY <1>2, SpecTypesOf DEF CtTypes
    <2>3. QED
      BY <1>2, <2>1, <2>2, BinaryCostOK
  <1>3. CASE o \in {"FheShl", "FheShr", "FheRotl", "FheRotr"}
    <2>1. PICK fn : GetOpSizeOnGpu(o, i) = BinaryCost(fn, i, UIntTypes \cup BytesTypes,
                                       UIntTypes \cup BytesTypes)
      BY <1>3 DEF GetOpSizeOnGpu, FheShlSize, FheShrSize, FheRotlSize, FheRotrSize
    <2>2. /\ UIntTypes \cup BytesTypes \in SUBSET SpecTypes(o)
          /\ UIntTypes \cup BytesTypes \in SUBSET SpecTypes(o)
      BY <1>3, SpecTypesOf DEF CtTypes
    <2>3. QED
      BY <1>3, <2>1, <2>2, BinaryCostOK
  <1>4. CASE o \in {"FheMin", "FheMax"}
    <2>1. PICK fn : GetOpSizeOnGpu(o, i) = BinaryCost(fn, i, UIntTypes \cup BytesTypes, UIntTypes)
      BY <1>4 DEF GetOpSizeOnGpu, FheMinSize, FheMaxSize
    <2>2. /\ UIntTypes \cup BytesTypes \in SUBSET SpecTypes(o)
          /\ UIntTypes \in SUBSET SpecTypes(o)
      BY <1>4, SpecTypesOf DEF CtTypes
    <2>3. QED
      BY <1>4, <2>1, <2>2, BinaryCostOK
  <1>5. CASE o \in {"FheEq", "FheNe"}
    <2>1. PICK fn : GetOpSizeOnGpu(o, i) = BinaryCost(fn, i, CtTypes, CtTypes)
      BY <1>5 DEF GetOpSizeOnGpu, FheEqSize, FheNeSize
    <2>2. /\ CtTypes \in SUBSET SpecTypes(o)
          /\ CtTypes \in SUBSET SpecTypes(o)
      BY <1>5, SpecTypesOf DEF CtTypes
    <2>3. QED
      BY <1>5, <2>1, <2>2, BinaryCostOK
  <1>6. CASE o \in {"FheGe", "FheGt", "FheLe", "FheLt"}
    <2>1. PICK fn : GetOpSizeOnGpu(o, i) = BinaryCost(fn, i, UIntTypes \cup BytesTypes,
                                       {"FheBool"} \cup UIntTypes)
      BY <1>6 DEF GetOpSizeOnGpu, FheGeSize, FheGtSize, FheLeSize, FheLtSize
    <2>2. /\ UIntTypes \cup BytesTypes \in SUBSET SpecTypes(o)
          /\ {"FheBool"} \cup UIntTypes \in SUBSET SpecTypes(o)
      BY <1>6, SpecTypesOf DEF CtTypes
    <2>3. QED
      BY <1>6, <2>1, <2>2, BinaryCostOK
  <1>7. CASE o = "FheBitAnd"
    BY <1>7, BitAndOK DEF GetOpSizeOnGpu
  <1>8. CASE o \in {"FheNot", "FheNeg"}
    <2>1. GetOpSizeOnGpu(o, i) =
            IF o = "FheNot" THEN UnaryCost("bitnot", i, CtTypes)
                            ELSE UnaryCost("neg", i, UIntTypes)
      BY <1>8 DEF GetOpSizeOnGpu, FheNotSize, FheNegSize
    <2>2. QED
      BY <1>8, <2>1, SpecTypesOf, UnaryCostOK
  <1>9. CASE o = "FheIfThenElse"
    BY <1>9, IfThenElseOK DEF GetOpSizeOnGpu
  <1>10. CASE o \in {"FheCast", "FheTrivialEncrypt"}
    BY <1>10, CastOK DEF GetOpSizeOnGpu
  <1>11. CASE o \in {"FheRand", "FheRandBounded"}
    <2>1. GetOpSizeOnGpu(o, i) =
            IF o = "FheRand" THEN RandCost("oprf", i, 2)
                             ELSE RandCost("oprf_bounded", i, 3)
      BY <1>11 DEF GetOpSizeOnGpu, FheRandSize, FheRandBoundedSize
    <2>2. QED
      BY <1>11, <2>1, RandOK
  <1>12. CASE o = "FheUnmatched"
    BY <1>12, PanicOK DEF GetOpSizeOnGpu
  <1>13. QED
    BY <1>1, <1>2, <1>3, <1>4, <1>5, <1>6, <1>7, <1>8, <1>9, <1>10, <1>11, <1>12

-----------------------------------------------------------------------------
(***************************************************************************)
(* The inductive invariant: the caller holds no estimate, or the estimate *)
(* get_op_size_on_gpu returned for the call it made.  It holds by the     *)
(* structure of the caller, so it is not a property of its own; with      *)
(* DispatchOK it gives the three properties.                               *)
(***************************************************************************)
EstimateInv ==
    /\ op \in Ops \cup {"none"}
    /\ ins \in Inputs
    /\ \/ cost = NoCall
       \/ op \in Ops /\ cost = GetOpSizeOnGpu(op, ins)

LEMMA EstimateInvariant == Spec => []EstimateInv
  <1>0. << >> \in Inputs
    BY DEF Inputs
  <1>1. Init => EstimateInv
    BY <1>0 DEF Init, EstimateInv
  <1>2. EstimateInv /\ [Next]_vars => EstimateInv'
    <2> SUFFICES ASSUME EstimateInv, [Next]_vars PROVE EstimateInv'
      OBVIOUS
    <2>1. ASSUME NEW o \in Ops, NEW i \in Inputs, Estimate(o, i)
          PROVE  EstimateInv'
      BY <2>1 DEF Estimate, EstimateInv
    <2>2. CASE Consume
      BY <1>0, <2>2 DEF Consume, EstimateInv
    <2>3. CASE UNCHANGED vars
      BY <2>3 DEF vars, EstimateInv
    <2>4. QED
      BY <2>1, <2>2, <2>3 DEF Next
  <1>3. QED
    BY <1>1, <1>2, PTL DEF Spec

\* The estimate the caller holds satisfies CostOK.
LEMMA HeldCostOK ==
  ASSUME EstimateInv
  PROVE  \/ cost = NoCall
         \/ op \in Ops /\ ins \in Inputs /\ CostOK(op, ins, cost)
  BY DispatchOK DEF EstimateInv

(***************************************************************************)
(* Type correctness of the dispatch for every scalar value: every type    *)
(* tag of Cast and TrivialEncrypt is an i16, whatever the bytes of the    *)
(* scalar, and every coerced scalar has a width the helpers support.      *)
(***************************************************************************)
THEOREM TypeCorrect == Spec => []TypeOK
  <1>1. EstimateInv => TypeOK
    BY HeldCostOK DEF EstimateInv, TypeOK, CostOK, NoCall, NoArg
  <1>2. QED
    BY <1>1, EstimateInvariant, PTL

(***************************************************************************)
(* Soundness of the dispatch: get_op_size_on_gpu returns a size only for  *)
(* operands of a shape spec section 4.2 allows for the operation.         *)
(***************************************************************************)
THEOREM AcceptedShapesLegal == Spec => []AcceptedShapesAreSpecLegal
  <1>1. EstimateInv => AcceptedShapesAreSpecLegal
    BY HeldCostOK DEF AcceptedShapesAreSpecLegal, CostOK, NoCall
  <1>2. QED
    BY <1>1, EstimateInvariant, PTL

=============================================================================
