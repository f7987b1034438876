---------------------------- MODULE PlcFunctions -----------------------------
(***************************************************************************)
(* The blocks without a state: gates, comparisons, integer arithmetic and  *)
(* conversions.  A block reads its inputs from the memory of its program   *)
(* and writes its output there, in the width of the output's type.  A REAL *)
(* is one of a few numbers or NaN.                                         *)
(***************************************************************************)
EXTENDS Integers, Sequences, FiniteSets

CONSTANTS
  ByteBits,         \* of int8_t, 8 in the code
  IntBits,          \* of int16_t, 16 in the code
  MaxInputs,        \* bound on the inputs of a gate
  Real, NaN         \* what a REAL may be

ASSUME FunctionsAssumption ==
  /\ ByteBits \in Nat \ {0} /\ IntBits \in Nat /\ ByteBits <= IntBits
  /\ MaxInputs \in Nat
  /\ Real \subseteq Int /\ NaN \notin Real

VARIABLES
  function,         \* the type of the block
  input_vars,       \* what its input variables hold
  output_var        \* what it last wrote

functionVars == <<function, input_vars, output_var>>

Pow2[n \in 0 .. IntBits] == IF n = 0 THEN 1 ELSE 2 * Pow2[n - 1]

(* int8_t and int16_t, and their unsigned kin. *)
Signed(n, bits) ==
  LET low == n % Pow2[bits]
  IN  IF low >= Pow2[bits - 1] THEN low - Pow2[bits] ELSE low
Unsigned(n, bits) == n % Pow2[bits]
SignedRange(bits) == -Pow2[bits - 1] .. Pow2[bits - 1] - 1
UnsignedRange(bits) == 0 .. Pow2[bits] - 1

Gate == {"AND", "OR", "XOR", "NAND", "NOR", "BoolArrayToInt8"}
Comparison == {"EQ", "NE", "LT", "LE", "GT", "GE"}
OnInt == {"INC", "DEC", "Int16ToUint16"}
OnByte == {"Int8ToInt16", "Int8ToUint8"}

InputsOf(f) ==
  CASE f \in Gate -> UNION {[1 .. n -> BOOLEAN] : n \in 1 .. MaxInputs}
    [] f = "NOT" -> {<<b>> : b \in BOOLEAN}
    [] f \in Comparison -> (Real \cup {NaN}) \X (Real \cup {NaN})
    [] f = "MOD" -> SignedRange(IntBits) \X SignedRange(IntBits)
    [] f \in OnInt -> {<<n>> : n \in SignedRange(IntBits)}
    [] f \in OnByte -> {<<n>> : n \in SignedRange(ByteBits)}
Function == Gate \cup Comparison \cup OnInt \cup OnByte \cup {"NOT", "MOD"}
------------------------------------------------------------------------------
AND(in) == \A i \in DOMAIN in : in[i]
OR(in) == \E i \in DOMAIN in : in[i]
NAND(in) == ~AND(in)
NOR(in) == ~OR(in)
XOR(in) ==
  LET result[n \in 0 .. Len(in)] ==
        IF n = 0 THEN FALSE ELSE result[n - 1] # in[n]
  IN  result[Len(in)]
NOT(in) == ~in[1]

(* NaN is neither less, nor greater, nor equal. *)
EQ(in) == NaN \notin {in[1], in[2]} /\ in[1] = in[2]
NE(in) == ~EQ(in)
LT(in) == NaN \notin {in[1], in[2]} /\ in[1] < in[2]
GT(in) == NaN \notin {in[1], in[2]} /\ in[1] > in[2]
LE(in) == LT(in) \/ EQ(in)
GE(in) == GT(in) \/ EQ(in)

INC(in) == Signed(in[1] + 1, IntBits)
DEC(in) == Signed(in[1] - 1, IntBits)

Abs(n) == IF n < 0 THEN -n ELSE n

(* As if % were the remainder that is never negative. *)
MODFloored(in) == IF in[2] = 0 THEN 0 ELSE in[1] % Abs(in[2])

(* The remainder of C has the sign of the dividend. *)
MOD(in) ==
  IF in[2] = 0 THEN 0
  ELSE IF in[1] < 0 THEN -(-in[1] % Abs(in[2])) ELSE in[1] % Abs(in[2])

(* The first inputs are the low bits; more than a byte has are ignored. *)
BoolArrayToInt8(in) ==
  LET result[n \in 0 .. Len(in)] ==
        IF n = 0 THEN 0
        ELSE IF in[n] /\ n <= ByteBits THEN result[n - 1] + Pow2[n - 1]
                                       ELSE result[n - 1]
  IN  Signed(result[Len(in)], ByteBits)

Int16ToUint16(in) == Unsigned(in[1], IntBits)
Int8ToUint8(in) == Unsigned(in[1], ByteBits)
Int8ToInt16(in) == Signed(in[1], IntBits)

Result(f, in) ==
  CASE f = "AND" -> AND(in) [] f = "OR" -> OR(in) [] f = "XOR" -> XOR(in)
    [] f = "NAND" -> NAND(in) [] f = "NOR" -> NOR(in) [] f = "NOT" -> NOT(in)
    [] f = "EQ" -> EQ(in) [] f = "NE" -> NE(in) [] f = "LT" -> LT(in)
    [] f = "LE" -> LE(in) [] f = "GT" -> GT(in) [] f = "GE" -> GE(in)
    [] f = "INC" -> INC(in) [] f = "DEC" -> DEC(in) [] f = "MOD" -> MOD(in)
    [] f = "BoolArrayToInt8" -> BoolArrayToInt8(in)
    [] f = "Int16ToUint16" -> Int16ToUint16(in)
    [] f = "Int8ToUint8" -> Int8ToUint8(in)
    [] f = "Int8ToInt16" -> Int8ToInt16(in)

Logical ==
  Comparison \cup {"AND", "OR", "XOR", "NAND", "NOR", "NOT"}

OutputOf(f) ==
  CASE f \in Logical -> BOOLEAN
    [] f \in {"INC", "DEC", "MOD", "Int8ToInt16"} -> SignedRange(IntBits)
    [] f = "BoolArrayToInt8" -> SignedRange(ByteBits)
    [] f = "Int16ToUint16" -> UnsignedRange(IntBits)
    [] f = "Int8ToUint8" -> UnsignedRange(ByteBits)

FunctionsTypeOK ==
  /\ function \in Function
  /\ input_vars \in InputsOf(function)
  /\ output_var \in OutputOf(function)

FunctionsInit ==
  /\ function \in Function
  /\ input_vars \in InputsOf(function)
  /\ output_var = IF function \in Logical THEN FALSE ELSE 0

(* INC and DEC write where they read. *)
evaluateFunction ==
  /\ output_var' = Result(function, input_vars)
  /\ input_vars' = IF function \in {"INC", "DEC"} THEN <<output_var'>>
                                                 ELSE input_vars
  /\ UNCHANGED function

InputsChange ==
  /\ input_vars' \in InputsOf(function)
  /\ UNCHANGED <<function, output_var>>

FunctionsNext == evaluateFunction \/ InputsChange

FunctionsSpec == FunctionsInit /\ [][FunctionsNext]_functionVars
------------------------------------------------------------------------------
(* The blocks against what their names say.  The remainder of MOD makes    *)
(* the dividend a multiple of the divisor, is smaller than it and has the  *)
(* sign of the dividend; INC and DEC fail at the end of the range only; of *)
(* less, equal and greater one holds, or none of a NaN; XOR is odd parity; *)
(* the bits of a byte are the inputs; and an unsigned value is the signed  *)
(* one it was converted from when read as signed again.                    *)
AsNamed(f, in, out) ==
  CASE f = "MOD" /\ in[2] # 0 ->
         /\ (in[1] - out) % Abs(in[2]) = 0
         /\ Abs(out) < Abs(in[2])
         /\ in[1] * out >= 0
    [] f = "MOD" /\ in[2] = 0 -> out = 0
    [] f = "INC" -> out = in[1] + 1 \/ out = -Pow2[IntBits - 1]
    [] f = "DEC" -> out = in[1] - 1 \/ out = Pow2[IntBits - 1] - 1
    [] f \in Comparison ->
         /\ NaN \in {in[1], in[2]} => out = (f = "NE")
         /\ NaN \notin {in[1], in[2]} => NE(in) = (LT(in) # GT(in))
    [] f = "XOR" -> out = (Cardinality({i \in DOMAIN in : in[i]}) % 2 = 1)
    [] f = "NAND" -> out = OR([i \in DOMAIN in |-> ~in[i]])
    [] f = "NOR" -> out = AND([i \in DOMAIN in |-> ~in[i]])
    [] f = "BoolArrayToInt8" ->
         \A i \in 1 .. ByteBits :
           ((Unsigned(out, ByteBits) \div Pow2[i - 1]) % 2 = 1)
             = (i \in DOMAIN in /\ in[i])
    [] f = "Int8ToUint8" -> Signed(out, ByteBits) = in[1]
    [] f = "Int16ToUint16" -> Signed(out, IntBits) = in[1]
    [] f = "Int8ToInt16" -> out = in[1]
    [] OTHER -> TRUE

(* Block*::evaluate: what a block writes is what its name says of the      *)
(* inputs it reads, in the widths of input and output.                     *)
FunctionsAgree ==
  [][evaluateFunction =>
       AsNamed(function, input_vars, output_var')]_functionVars
==============================================================================
