--------------------------- MODULE CostEstimator ---------------------------
(***************************************************************************)
(* get_op_size_on_gpu of fhevm-engine-common/gpu_memory.rs: the device     *)
(* memory an FHE operation needs, by dispatch on the operation and on the  *)
(* variants of its operands.  The byte counts themselves come from the     *)
(* tfhe layer (get_add_size_on_gpu, ...), so a cost is modelled as the     *)
(* leaf call the dispatch makes: which size function, on which receiver    *)
(* type, with which second argument.  A panic (failed assert_eq, out of   *)
(* bounds index, panic!() arm, failed try_into) is the cost Panic.          *)
(*                                                                          *)
(* The module is a caller that asks for one estimate at a time and then    *)
(* uses it; every call is a pure function of its inputs.                   *)
(***************************************************************************)
EXTENDS Integers, Sequences

CONSTANTS
    ScalarValues  \* big-endian values of the raw bytes of Scalar operands

ASSUME ScalarValuesAssumption == ScalarValues \subseteq Nat

\* The SupportedFheCiphertexts variants.
UIntTypes == {"FheUint4", "FheUint8", "FheUint16", "FheUint32", "FheUint64",
              "FheUint128", "FheUint160", "FheUint256"}
BytesTypes == {"FheBytes64", "FheBytes128", "FheBytes256"}
CtTypes == {"FheBool"} \cup UIntTypes \cup BytesTypes

\* An operand: a ciphertext of some type, or Scalar(bytes) with their value.
Operands == [kind : CtTypes, val : {0}] \cup [kind : {"Scalar"}, val : ScalarValues]

(***************************************************************************)
(* The operation codes matched by get_op_size_on_gpu, and "FheUnmatched":  *)
(* an i16 that fhe_operation_int.try_into() rejects, or an operation with  *)
(* no arm of its own (the final _ => panic!()).                             *)
(***************************************************************************)
ArithOps == {"FheAdd", "FheSub", "FheMul", "FheDiv", "FheRem"}
BitOps == {"FheBitAnd", "FheBitOr", "FheBitXor"}
ShiftOps == {"FheShl", "FheShr", "FheRotl", "FheRotr"}
MinMaxOps == {"FheMin", "FheMax"}
EqOps == {"FheEq", "FheNe"}
OrderOps == {"FheGe", "FheGt", "FheLe", "FheLt"}
BinaryOps == ArithOps \cup BitOps \cup ShiftOps \cup MinMaxOps \cup EqOps \cup OrderOps
Ops == BinaryOps \cup {"FheNot", "FheNeg", "FheIfThenElse", "FheCast",
                       "FheTrivialEncrypt", "FheRand", "FheRandBounded",
                       "FheUnmatched"}

\* The argument of a size function: a ciphertext type, a scalar coerced to
\* a width by to_be_u<width>_bit, the bool to_be_u4_bit(b) > 0, or a tag.
CtArg(t) == [kind |-> t, width |-> 0]
ScalarArg(w) == [kind |-> "Scalar", width |-> w]
NoArg == [kind |-> "none", width |-> 0]

\* A cost: the leaf size function called, the panic, or the early return 0.
Leaf(fn, recv, arg) == [status |-> "ok", fn |-> fn, recv |-> recv, arg |-> arg]
Panic == [status |-> "panic", fn |-> "none", recv |-> "none", arg |-> NoArg]
Zero == [status |-> "zero", fn |-> "none", recv |-> "none", arg |-> NoArg]

(***************************************************************************)
(* The to_be_u<N>_bit conversion each (ciphertext, Scalar) arm applies to  *)
(* the scalar: the width of the ciphertext type, 4 for FheBool.            *)
(***************************************************************************)
ScalarBits ==
    [FheBool |-> 4, FheUint4 |-> 4, FheUint8 |-> 8, FheUint16 |-> 16,
     FheUint32 |-> 32, FheUint64 |-> 64, FheUint128 |-> 128,
     FheUint160 |-> 160, FheUint256 |-> 256, FheBytes64 |-> 512,
     FheBytes128 |-> 1024, FheBytes256 |-> 2048]

(***************************************************************************)
(* to_be_u16_bit(bytes) as i16: the big-endian bytes truncated to 16 bits, *)
(* then reinterpreted as a two's complement i16.                            *)
(***************************************************************************)
\* Mutant: the "as i16" reinterpretation is left out.
TagOfUnsigned(v) == v % 65536

TagOf(v) == LET u == v % 65536 IN IF u >= 32768 THEN u - 65536 ELSE u

(***************************************************************************)
(* One two-operand arm block: assert_eq!(len, 2), then the arms (t, t) for *)
(* t in pairs and (t, Scalar) for t in scalars, else panic!().  A FheBool   *)
(* receiver of a scalar is cast into FheUint2 first.                        *)
(***************************************************************************)
BinaryCost(fn, ins, pairs, scalars) ==
    IF Len(ins) # 2 THEN Panic
    ELSE LET a == ins[1].kind
             b == ins[2].kind
         IN  IF a \in pairs /\ b = a THEN Leaf(fn, a, CtArg(b))
             ELSE IF a \in scalars /\ b = "Scalar"
                  THEN Leaf(fn, IF a = "FheBool" THEN "FheUint2" ELSE a,
                            ScalarArg(ScalarBits[a]))
                  ELSE Panic

FheAddSize(ins) == BinaryCost("add", ins, UIntTypes, UIntTypes)
FheSubSize(ins) == BinaryCost("sub", ins, UIntTypes, UIntTypes)
FheMulSize(ins) == BinaryCost("mul", ins, UIntTypes, UIntTypes)
FheDivSize(ins) == BinaryCost("div", ins, UIntTypes, UIntTypes)
FheRemSize(ins) == BinaryCost("rem", ins, UIntTypes, UIntTypes)

\* BitAnd alone passes the FheBool receiver uncast, with to_be_u4_bit(b) > 0.
FheBitAndSize(ins) ==
    IF Len(ins) = 2 /\ ins[1].kind = "FheBool" /\ ins[2].kind = "Scalar"
    THEN Leaf("bitand", "FheBool", [kind |-> "bool", width |-> 4])
    ELSE BinaryCost("bitand", ins, CtTypes, CtTypes)
FheBitOrSize(ins) == BinaryCost("bitor", ins, CtTypes, CtTypes)
FheBitXorSize(ins) == BinaryCost("bitxor", ins, CtTypes, CtTypes)

\* Mutant: the Shl block also has FheBool arms.
FheShlSizeWithBool(ins) == BinaryCost("left_shift", ins, CtTypes, CtTypes)

FheShlSize(ins) == BinaryCost("left_shift", ins, UIntTypes \cup BytesTypes,
                                                 UIntTypes \cup BytesTypes)
FheShrSize(ins) == BinaryCost("right_shift", ins, UIntTypes \cup BytesTypes,
                                                  UIntTypes \cup BytesTypes)
FheRotlSize(ins) == BinaryCost("rotate_left", ins, UIntTypes \cup BytesTypes,
                                                   UIntTypes \cup BytesTypes)
FheRotrSize(ins) == BinaryCost("rotate_right", ins, UIntTypes \cup BytesTypes,
                                                    UIntTypes \cup BytesTypes)

FheMinSize(ins) == BinaryCost("min", ins, UIntTypes \cup BytesTypes, UIntTypes)
FheMaxSize(ins) == BinaryCost("max", ins, UIntTypes \cup BytesTypes, UIntTypes)

FheEqSize(ins) == BinaryCost("eq", ins, CtTypes, CtTypes)
FheNeSize(ins) == BinaryCost("ne", ins, CtTypes, CtTypes)

FheGeSize(ins) == BinaryCost("ge", ins, UIntTypes \cup BytesTypes,
                                        {"FheBool"} \cup UIntTypes)
FheGtSize(ins) == BinaryCost("gt", ins, UIntTypes \cup BytesTypes,
                                        {"FheBool"} \cup UIntTypes)
FheLeSize(ins) == BinaryCost("le", ins, UIntTypes \cup BytesTypes,
                                        {"FheBool"} \cup UIntTypes)
FheLtSize(ins) == BinaryCost("lt", ins, UIntTypes \cup BytesTypes,
                                        {"FheBool"} \cup UIntTypes)

\* assert_eq!(len, 1), then one arm per allowed variant.
UnaryCost(fn, ins, types) ==
    IF Len(ins) = 1 /\ ins[1].kind \in types THEN Leaf(fn, ins[1].kind, NoArg)
    ELSE Panic

FheNotSize(ins) == UnaryCost("bitnot", ins, CtTypes)
FheNegSize(ins) == UnaryCost("neg", ins, UIntTypes)

\* A non-FheBool selector returns 0 early; FheBool branches are cast to
\* FheUint2.
FheIfThenElseSize(ins) ==
    IF Len(ins) # 3 THEN Panic
    ELSE IF ins[1].kind # "FheBool" THEN Zero
    ELSE IF ins[2].kind \in CtTypes /\ ins[3].kind = ins[2].kind
         THEN Leaf("if_then_else", "FheBool",
                   CtArg(IF ins[2].kind = "FheBool" THEN "FheUint2"
                                                   ELSE ins[2].kind))
         ELSE Panic

\* No arity assert: indexing operands[0] and [1] panics below two operands.
FheCastSize(ins) ==
    IF Len(ins) < 2 \/ ins[2].kind # "Scalar" THEN Panic
    ELSE Leaf("trivial_encrypt", "none", [kind |-> "tag", width |-> TagOf(ins[2].val)])

\* The 12 output types of the oblivious pseudo-random generation, by tag.
RandTypes == <<"FheUint2", "FheUint4", "FheUint8", "FheUint16", "FheUint32",
               "FheUint64", "FheUint128", "FheUint160", "FheUint256",
               "FheUint512", "FheUint1024", "FheUint2048">>

\* The tag is operands[pos]: out of bounds panics, a non-Scalar returns 0.
RandCost(fn, ins, pos) ==
    IF Len(ins) < pos THEN Panic
    ELSE IF ins[pos].kind # "Scalar" THEN Zero
    ELSE LET tag == TagOf(ins[pos].val)
         IN  IF tag \in 0 .. 11 THEN Leaf(fn, RandTypes[tag + 1], NoArg) ELSE Panic

FheRandSize(ins) == RandCost("oprf", ins, 2)
FheRandBoundedSize(ins) == RandCost("oprf_bounded", ins, 3)

\* The dispatch on the operation.
GetOpSizeOnGpu(op, ins) ==
    CASE op = "FheAdd" -> FheAddSize(ins)
      [] op = "FheSub" -> FheSubSize(ins)
      [] op = "FheMul" -> FheMulSize(ins)
      [] op = "FheDiv" -> FheDivSize(ins)
      [] op = "FheRem" -> FheRemSize(ins)
      [] op = "FheBitAnd" -> FheBitAndSize(ins)
      [] op = "FheBitOr" -> FheBitOrSize(ins)
      [] op = "FheBitXor" -> FheBitXorSize(ins)
      [] op = "FheShl" -> FheShlSize(ins)
      [] op = "FheShr" -> FheShrSize(ins)
      [] op = "FheRotl" -> FheRotlSize(ins)
      [] op = "FheRotr" -> FheRotrSize(ins)
      [] op = "FheMin" -> FheMinSize(ins)
      [] op = "FheMax" -> FheMaxSize(ins)
      [] op = "FheEq" -> FheEqSize(ins)
      [] op = "FheNe" -> FheNeSize(ins)
      [] op = "FheGe" -> FheGeSize(ins)
      [] op = "FheGt" -> FheGtSize(ins)
      [] op = "FheLe" -> FheLeSize(ins)
      [] op = "FheLt" -> FheLtSize(ins)
      [] op = "FheNot" -> FheNotSize(ins)
      [] op = "FheNeg" -> FheNegSize(ins)
      [] op = "FheIfThenElse" -> FheIfThenElseSize(ins)
      [] op \in {"FheCast", "FheTrivialEncrypt"} -> FheCastSize(ins)
      [] op = "FheRand" -> FheRandSize(ins)
      [] op = "FheRandBounded" -> FheRandBoundedSize(ins)
      [] OTHER -> Panic

-----------------------------------------------------------------------------
(***************************************************************************)
(* A caller asks for one estimate and uses it before asking again; a panic *)
(* aborts the process, so a state whose cost is Panic has no successor.     *)
(***************************************************************************)
VARIABLES op, ins, cost

vars == <<op, ins, cost>>

\* Operand lists of up to three operands, the largest arity of an operation.
Inputs == UNION {[1 .. n -> Operands] : n \in 0 .. 3}

NoCall == [status |-> "none", fn |-> "none", recv |-> "none", arg |-> NoArg]

Init ==
    /\ op = "none"
    /\ ins = << >>
    /\ cost = NoCall

\* get_op_size_on_gpu(fhe_operation_int, input_operands)
Estimate(o, i) ==
    /\ cost = NoCall
    /\ op' = o
    /\ ins' = i
    /\ cost' = GetOpSizeOnGpu(o, i)

\* The caller reserves the estimate and runs the operation.
Consume ==
    /\ cost.status \in {"ok", "zero"}
    /\ op' = "none"
    /\ ins' = << >>
    /\ cost' = NoCall

Next ==
    \/ cost = NoCall /\ \E o \in Ops, i \in Inputs : Estimate(o, i)
    \/ Consume

Spec == Init /\ [][Next]_vars

-----------------------------------------------------------------------------
(***************************************************************************)
(* Properties.  The references are the legal shapes of spec section 4.2.    *)
(***************************************************************************)

\* The i16 values, -2^15 .. 2^15 - 1.
TagRange == {x \in Int : -32768 <= x /\ x <= 32767}

\* The argument of a size function is a type, a coerced scalar of a
\* supported width, the to_be_u4_bit bool, or an i16 type tag.
TypeOK ==
    /\ op \in Ops \cup {"none"}
    /\ ins \in Inputs
    /\ cost.status \in {"none", "ok", "zero", "panic"}
    /\ cost.arg.kind \in CtTypes \cup {"FheUint2", "Scalar", "bool", "tag", "none"}
    /\ cost.arg.kind = "tag" => cost.arg.width \in TagRange
    /\ cost.arg.kind \in {"Scalar", "bool"} =>
           cost.arg.width \in {4, 8, 16, 32, 64, 128, 160, 256, 512, 1024, 2048}

\* The ciphertext types for which spec section 4.2 defines each operation:
\* no arithmetic on FheBool or byte strings, no shift of FheBool, FheBool
\* compared by promotion, no negation of FheBool or byte strings.
SpecTypes(o) ==
    CASE o \in ArithOps \cup {"FheNeg"} -> UIntTypes
      [] o \in ShiftOps -> UIntTypes \cup BytesTypes
      [] OTHER -> CtTypes

\* The fixed arity of each operation (the tag of Rand is its second operand,
\* the tag of RandBounded its third).
SpecArity(o) ==
    CASE o \in BinaryOps \cup {"FheCast", "FheTrivialEncrypt", "FheRand"} -> 2
      [] o \in {"FheNot", "FheNeg"} -> 1
      [] OTHER -> 3

\* The operands an operation reads have a shape spec section 4.2 allows.
SpecShape(o, i) ==
    CASE o \in BinaryOps ->
            /\ Len(i) >= 2
            /\ i[1].kind \in SpecTypes(o)
            /\ i[2].kind \in {i[1].kind, "Scalar"}
      [] o \in {"FheNot", "FheNeg"} -> Len(i) >= 1 /\ i[1].kind \in SpecTypes(o)
      [] o = "FheIfThenElse" ->
            /\ Len(i) >= 3
            /\ i[1].kind = "FheBool"
            /\ i[2].kind \in CtTypes
            /\ i[3].kind = i[2].kind
      [] o \in {"FheCast", "FheTrivialEncrypt", "FheRand"} ->
            Len(i) >= 2 /\ i[2].kind = "Scalar"
      [] o = "FheRandBounded" -> Len(i) >= 3 /\ i[3].kind = "Scalar"
      [] OTHER -> FALSE

(***************************************************************************)
(* Soundness of the dispatch: whenever get_op_size_on_gpu returns a size,  *)
(* the operands have a shape the specification allows for the operation:  *)
(* no mismatched ciphertext types, no scalar first, no type the operation  *)
(* is undefined on, across all 26 match blocks.                             *)
(***************************************************************************)
AcceptedShapesAreSpecLegal ==
    cost.status = "ok" => SpecShape(op, ins)

\* The bit width of each ciphertext type (spec section 3: FheBytesN holds
\* N bytes, 8 * N bits); FheBool is promoted to the smallest width of the
\* coercion helper.  The proofs of TypeOK use it to bound the coerced widths.
SpecWidth ==
    [FheBool |-> 4, FheUint4 |-> 4, FheUint8 |-> 8, FheUint16 |-> 16,
     FheUint32 |-> 32, FheUint64 |-> 64, FheUint128 |-> 128,
     FheUint160 |-> 160, FheUint256 |-> 256, FheBytes64 |-> 512,
     FheBytes128 |-> 1024, FheBytes256 |-> 2048]

(***************************************************************************)
(* Spec section 4.2: every shape it allows is accepted, i.e. the dispatch  *)
(* has an arm for it and does not panic.                                    *)
(***************************************************************************)
SpecShapesAccepted ==
    (op \in Ops /\ SpecShape(op, ins) /\ Len(ins) = SpecArity(op))
        => cost.status \in {"ok", "zero"}

(***************************************************************************)
(* Spec sections 4.2 and 7: the only estimate of zero is the deliberate    *)
(* short-circuit of an IfThenElse whose selector is not a FheBool; an       *)
(* unusable type tag is fatal.                                              *)
(***************************************************************************)
ZeroOnlyForNonBoolSelector ==
    cost.status = "zero" => op = "FheIfThenElse" /\ ins[1].kind # "FheBool"

(***************************************************************************)
(* Spec section 4.2: the operand count is validated against the fixed      *)
(* arity of the operation, a mismatch is fatal.                             *)
(***************************************************************************)
ArityEnforced ==
    cost.status \in {"ok", "zero"} => Len(ins) = SpecArity(op)

=============================================================================
