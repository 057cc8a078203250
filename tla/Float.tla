--------------------------------- MODULE Float ---------------------------------
(***************************************************************************)
(* The floating point units of a processor built with HAVE_NEW_FP: IEEE    *)
(* operations (AlphaCPU_ieeefloat.cpp) on registers that hold T numbers    *)
(* of E exponent and F fraction bits and, in the same form, S numbers of   *)
(* SE and SF bits; and VAX operations (AlphaCPU_vaxfloat.cpp) on G and F   *)
(* numbers, whose exponent of zero is zero, or with a sign a reserved      *)
(* operand. A register is [s, e, f]; an unpacked number has its fraction   *)
(* in the upper bits of a word of 1 + F + GUARD bits.                      *)
(*                                                                         *)
(* The default unit (es40_float.hpp) converts the registers to the host's  *)
(* double, and the double back. The host rounds to nearest, ties to even;  *)
(* its doubles have the F fraction bits of a G number and a larger range.  *)
(* A D number has DF bits, and the exponent of an F number.                *)
(***************************************************************************)
EXTENDS Integers

CONSTANTS E, F, SE, SF,
          DF,     \* the fraction bits of a D number
          GUARD,  \* FPR_GUARD: the bits of the word below the fraction
          Units   \* the units that are built: "ieee", "vax", "host"

FormatsOK ==
  /\ {E, F, SE, SF, DF, GUARD} \subseteq Nat \ {0}
  /\ SE <= E /\ SF <= F /\ GUARD >= 3

VARIABLES
  fpu,       \* the unit: one of Units
  op, dp,    \* the operation, and the type of its result: "S" or "T", "F" or "G"
  a, b,      \* its operands
  mode,      \* the rounding mode: "chop", "plus", "minus", "nearest"; VAX only "chop"
             \* and what is called "nearest" here
  dnz,       \* FPCR: denormal operands are zero
  done, r,   \* the result
  traps      \* the exceptions signalled: each call of ieee_trap() traps

vars == <<fpu, op, dp, a, b, mode, dnz, done, r, traps>>

V_NM == F + GUARD          \* UF_V_NM
Word == 2 ^ (V_NM + 1)     \* X64_QUAD, and one more
NM == 2 ^ V_NM
Q(x) == x % Word

Registers == [s : {0, 1}, e : 0 .. 2 ^ E - 1, f : 0 .. 2 ^ F - 1]
Number(s, e, f) == [s |-> s, e |-> e, f |-> f]

(* ieee_norm() and vax_norm(); the sign that is left of a zero is not       *)
(* looked at.                                                               *)
Norm(u) ==
  IF u.f % Word = 0 THEN [u EXCEPT !.e = 0, !.f = 0]
  ELSE LET n == CHOOSE k \in 0 .. V_NM : Q(u.f) * 2 ^ k \in NM .. Word - 1 IN
       [u EXCEPT !.e = @ - n, !.f = Q(u.f) * 2 ^ n]

Sticky(n) == IF n # 0 THEN 1 ELSE 0
Or1(n, bit) == IF n % 2 = 0 THEN n + bit ELSE n

Lost(short) == IF short THEN F - SF + GUARD ELSE GUARD   \* the bits that are rounded off
Result(x, t) == [r |-> x, traps |-> t]

(* What ieee_fadd() and vax_fadd() order their operands by.                 *)
Larger(u, v) == IF u.e < v.e \/ (u.e = v.e /\ u.f < v.f) THEN v ELSE u

-----------------------------------------------------------------------------
(* Exact numbers, as integers of the unit of the registers' smallest        *)
(* exponent.                                                                *)
Magnitude(x) == IF x.e = 0 THEN 0 ELSE (2 ^ F + x.f) * 2 ^ x.e
Abs(n) == IF n < 0 THEN -n ELSE n

(* Its neighbours of p fraction bits, m * 2^k and (m + 1) * 2^k, and where  *)
(* it lies between them. The exponent is not bounded; Fine keeps it from    *)
(* being negative here.                                                     *)
Fine == 2 * (E + F)
Between(n, d, p) ==
  LET x == n * 2 ^ Fine
      k == CHOOSE j \in 0 .. 31 - p : d * 2 ^ (p + j) <= x /\ (x \div 2) < d * 2 ^ (p + j) IN
  [m |-> x \div (d * 2 ^ k), k |-> k,
   twice |-> IF x % (d * 2 ^ k) = 0 THEN 0
             ELSE IF 2 * (x % (d * 2 ^ k)) < d * 2 ^ k THEN 1
             ELSE IF 2 * (x % (d * 2 ^ k)) = d * 2 ^ k THEN 2 ELSE 3]

-----------------------------------------------------------------------------
Nan == 2 ^ E - 1
Bias == 2 ^ (E - 1) - 1
SBias == 2 ^ (SE - 1) - 1
Inf(s) == Number(s, Nan, 0)
Zero(s) == Number(s, 0, 0)
CQNAN == Number(1, Nan, 2 ^ (F - 1))
Quiet(x) == [x EXCEPT !.f = IF @ < 2 ^ (F - 1) THEN @ + 2 ^ (F - 1) ELSE @]
Max(s) == Number(s, Nan, 2 ^ F - 1)      \* FPMAX and FMMAX: all ones

-----------------------------------------------------------------------------
(* ieee_unpack(): the type, and the exceptions it signals.                  *)
Unpack(x) ==
  LET u == Number(x.s, x.e, x.f * 2 ^ GUARD) IN
  CASE x.e = 0 /\ (x.f = 0 \/ dnz) -> [t |-> "zero", u |-> Zero(x.s), traps |-> {}]
    [] x.e = 0 /\ x.f # 0 /\ ~dnz -> [t |-> "denormal", u |-> Norm(u), traps |-> {"INV"}]
    [] x.e = Nan /\ x.f = 0 -> [t |-> "inf", u |-> Number(x.s, x.e, 0), traps |-> {}]
    [] x.e = Nan /\ x.f # 0 ->
         [t |-> "nan", u |-> Number(x.s, x.e, x.f),
          traps |-> IF x.f < 2 ^ (F - 1) THEN {"INV"} ELSE {}]
    [] OTHER -> [t |-> "finite", u |-> [u EXCEPT !.f = @ + NM], traps |-> {}]

(* ieee_rpack(): round to nearest adds half, and clears the lowest bit of   *)
(* the register when the number was halfway.                                *)
StdRnd == [t \in {"S", "T"} |-> 2 ^ (Lost(t = "S") - 1)]
InfRnd == [t \in {"S", "T"} |-> 2 ^ Lost(t = "S") - 1]
ExpMax == [S |-> Bias - SBias + 2 ^ SE - 2, T |-> 2 ^ E - 2]
ExpMin == [S |-> Bias - SBias, T |-> 0]
RoundAdd(u) ==
  CASE mode = "nearest" -> StdRnd[dp]
    [] (mode = "plus" /\ u.s = 0) \/ (mode = "minus" /\ u.s = 1) -> InfRnd[dp]
    [] OTHER -> 0
ToEven_Never(u) == FALSE
ToEven(u) == mode = "nearest" /\ u.f % (InfRnd[dp] + 1) = StdRnd[dp]
Pack(u) ==
  LET sum == Q(u.f + RoundAdd(u))
      f == IF sum < NM THEN (sum \div 2) + NM ELSE sum
      e == IF sum < NM THEN u.e + 1 ELSE u.e
      inexact == IF u.f % (InfRnd[dp] + 1) # 0 THEN {"INE"} ELSE {}
      frac == (f \div 2 ^ GUARD) % 2 ^ F IN
  CASE u.f = 0 -> Result(Zero(u.s), {})
    [] u.f # 0 /\ e > ExpMax[dp] ->
         Result(IF RoundAdd(u) # 0 THEN Inf(u.s) ELSE Max(u.s), {"OVF", "INE"})
    [] u.f # 0 /\ e <= ExpMin[dp] -> Result(Zero(0), {"UNF", "INE"})
    [] OTHER -> Result(Number(u.s, e, IF ToEven(u) THEN frac - (frac % 2) ELSE frac), inexact)

-----------------------------------------------------------------------------
(* ieee_fadd(): the smaller operand is shifted, and what it loses is kept   *)
(* in its lowest bit.                                                       *)
Shifted_Lossy(f, n) == f \div 2 ^ n
Shifted(f, n) ==
  IF n > V_NM THEN 1 ELSE Or1(f \div 2 ^ n, Sticky(f % 2 ^ n))
AddFractions(u, v) ==
  LET big == Larger(u, v)
      small == IF big = u THEN v ELSE u
      f == Shifted(small.f, big.e - small.e)
      sum == Q(big.f + f) IN
  IF big.s # small.s THEN Norm([big EXCEPT !.f = @ - f])
  ELSE IF sum < f THEN [big EXCEPT !.f = Or1(NM + (sum \div 2), sum % 2), !.e = @ + 1]
  ELSE [big EXCEPT !.f = sum]
Add(x, y, sub) ==
  LET p == Unpack(x)
      q == Unpack(y)
      t == p.traps \cup q.traps
      v == IF sub THEN [q.u EXCEPT !.s = 1 - @] ELSE q.u IN
  CASE q.t = "nan" -> Result(Quiet(y), t)
    [] q.t # "nan" /\ p.t = "nan" -> Result(Quiet(x), t)
    [] q.t = "inf" /\ p.t = "inf" /\ p.u.s # v.s -> Result(CQNAN, t \cup {"INV"})
    [] q.t = "inf" /\ p.t # "nan" /\ ~(p.t = "inf" /\ p.u.s # v.s) -> Result(Inf(v.s), t)
    [] p.t = "inf" /\ q.t \notin {"nan", "inf"} -> Result(x, t)
    [] OTHER ->
         LET u == IF p.t = "zero" THEN v
                  ELSE IF q.t = "zero" THEN p.u ELSE AddFractions(p.u, v)
             z == Pack(u) IN
         Result(z.r, t \cup z.traps)

(* ieee_fmul(), with the high and the low word of the product (uemul64()).  *)
Product(u, v) ==
  LET hi == (u.f * v.f) \div Word
      lo == (u.f * v.f) % Word
      n == Norm([s |-> (u.s + v.s) % 2, e |-> u.e + v.e + 1 - Bias, f |-> hi]) IN
  [n EXCEPT !.f = Or1(@, Sticky(lo))]
(* ieee_fdiv(): a bit more than the fraction and its guard (ufdiv64()).     *)
Quotient(u, v) ==
  LET n == F + 3
      dividend == (u.f \div 2) * 2 ^ (n - 1)
      quo == dividend \div (v.f \div 2)
      q == Norm([s |-> (u.s + v.s) % 2, e |-> u.e - v.e + Bias,
                 f |-> Q(quo * 2 ^ (V_NM - n + 1))]) IN
  [q EXCEPT !.f = Or1(@, Sticky(dividend % (v.f \div 2)))]
Multiply(x, y) ==
  LET p == Unpack(x)
      q == Unpack(y)
      t == p.traps \cup q.traps
      s == (x.s + y.s) % 2
      types == {p.t, q.t} IN
  CASE q.t = "nan" -> Result(Quiet(y), t)
    [] q.t # "nan" /\ p.t = "nan" -> Result(Quiet(x), t)
    [] types = {"zero", "inf"} -> Result(CQNAN, t \cup {"INV"})
    [] "zero" \in types /\ types \cap {"nan", "inf"} = {} -> Result(Zero(s), t)
    [] "inf" \in types /\ types \cap {"nan", "zero"} = {} -> Result(Inf(s), t)
    [] OTHER -> LET z == Pack(Product(p.u, q.u)) IN Result(z.r, t \cup z.traps)
Divide(x, y) ==
  LET p == Unpack(x)
      q == Unpack(y)
      t == p.traps \cup q.traps
      s == (x.s + y.s) % 2 IN
  CASE q.t = "nan" -> Result(Quiet(y), t)
    [] q.t # "nan" /\ p.t = "nan" -> Result(Quiet(x), t)
    [] q.t = p.t /\ p.t \in {"inf", "zero"} -> Result(CQNAN, t \cup {"INV"})
    [] q.t = "inf" /\ p.t \notin {"nan", "inf"} -> Result(Zero(s), t)
    [] q.t = "zero" /\ p.t \notin {"nan", "zero"} -> Result(Inf(s), t \cup {"DZE"})
    [] p.t = "inf" /\ q.t \notin {"nan", "inf", "zero"} -> Result(Inf(s), t)
    [] p.t = "zero" /\ q.t \notin {"nan", "inf", "zero"} -> Result(Zero(s), t)
    [] OTHER -> LET z == Pack(Quotient(p.u, q.u)) IN Result(z.r, t \cup z.traps)

-----------------------------------------------------------------------------
(* ieee_fcmp(): -1, 0 or 1; a NaN is greater than everything.               *)
Sign(less) == IF less THEN -1 ELSE 1
Compare(x, y, trapNan) ==
  LET p == Unpack(x)
      q == Unpack(y)
      u == IF p.t = "zero" THEN Zero(0) ELSE p.u
      v == IF q.t = "zero" THEN Zero(0) ELSE q.u
      t == p.traps \cup q.traps IN
  CASE "nan" \in {p.t, q.t} -> Result(1, t \cup IF trapNan THEN {"INV"} ELSE {})
    [] "nan" \notin {p.t, q.t} /\ u.s # v.s -> Result(Sign(u.s = 1), t)
    [] "nan" \notin {p.t, q.t} /\ u.s = v.s ->
         Result(CASE u.e # v.e -> Sign((u.s = 1) # (u.e < v.e))
                  [] u.e = v.e /\ u.f # v.f -> Sign((u.s = 1) # (u.f < v.f))
                  [] u.e = v.e /\ u.f = v.f -> 0, t)

(* ieee_cvtif(), ieee_cvtfi(): integers are of the size of a word, and the  *)
(* dynamic rounding mode is not looked at.                                  *)
FromInteger(n) ==
  IF n = 0 THEN Result(Zero(0), {})
  ELSE Pack(Norm([s |-> IF n < 0 THEN 1 ELSE 0, e |-> V_NM + Bias,
                  f |-> IF n < 0 THEN -n ELSE n]))
IntegerPart(u) ==    \* and twice the fraction, with a sticky bit
  LET k == u.e - Bias IN
  CASE k < -1 -> [n |-> 0, half |-> 1, ovf |-> FALSE]
    [] k = -1 -> [n |-> 0, half |-> IF u.f = NM THEN 2 ELSE 3, ovf |-> FALSE]
    [] k \in 0 .. V_NM ->
         LET unit == 2 ^ (V_NM - k)
             rest == 2 * (u.f % unit) IN
         [n |-> u.f \div unit,
          half |-> CASE rest = 0 -> 0 [] rest \in 1 .. unit - 1 -> 1
                     [] rest = unit -> 2 [] rest > unit -> 3,
          ovf |-> FALSE]
    [] k > V_NM -> [n |-> Q(u.f * 2 ^ (k - V_NM)), half |-> 0, ovf |-> TRUE]
ToInteger(x) ==
  LET p == Unpack(x)
      i == IntegerPart(p.u)
      up == \/ mode = "nearest" /\ i.half >= 2
            \/ mode = "plus" /\ p.u.s = 0 /\ i.half > 0
            \/ mode = "minus" /\ p.u.s = 1 /\ i.half > 0
      even == mode = "nearest" /\ i.half = 2
      n == IF up THEN Q(i.n + 1) - (IF even THEN (i.n + 1) % 2 ELSE 0) ELSE i.n
      ovf == i.ovf \/ (up /\ i.n = Word - 1) \/ n > (IF p.u.s = 1 THEN NM ELSE NM - 1) IN
  CASE p.t \notin {"zero", "finite"} -> Result(0, p.traps \cup {"INV"})
    [] p.t = "zero" -> Result(0, p.traps)
    [] p.t = "finite" ->
         Result(IF p.u.s = 1 THEN -n ELSE n,
                p.traps \cup (IF ovf THEN {"IOV"} ELSE {})
                        \cup (IF ovf \/ i.half > 0 THEN {"INE"} ELSE {}))

(* ieee_cvtts(), ieee_cvtst().                                              *)
ToS(x) ==
  LET p == Unpack(x)
      z == Pack(p.u) IN
  CASE p.t \in {"zero", "finite"} -> Result(z.r, p.traps \cup z.traps)
    [] p.t = "nan" -> Result(Quiet(x), p.traps)
    [] p.t = "inf" -> Result(x, p.traps)
    [] p.t = "denormal" -> Result(Zero(0), p.traps)
ToT(x) ==
  LET p == Unpack(x)
      z == Pack([p.u EXCEPT !.e = @ + Bias - SBias]) IN
  IF p.t = "denormal" THEN Result(z.r, p.traps \cup z.traps) ELSE Result(x, p.traps)

(* ieee_sts(), ieee_lds(): an S number in memory.                           *)
Store(x) ==
  [s |-> x.s,
   e |-> IF x.e = Nan THEN 2 ^ SE - 1
         ELSE IF x.e # 0 THEN (x.e + SBias - Bias) % 2 ^ SE ELSE 0,
   f |-> x.f \div 2 ^ (F - SF)]
Load(m) ==
  Number(m.s, IF m.e = 2 ^ SE - 1 THEN Nan ELSE IF m.e # 0 THEN m.e + Bias - SBias ELSE 0,
         m.f * 2 ^ (F - SF))

-----------------------------------------------------------------------------
(* An instruction. The operands of S operations are S numbers.              *)
IsS(x) == Load(Store(x)) = x
IeeeInit ==
  /\ fpu = "ieee"
  /\ op \in {"add", "sub", "mul", "div", "cmp", "toint", "fromint", "tos", "tot"}
  /\ dp \in {"S", "T"} /\ mode \in {"chop", "plus", "minus", "nearest"} /\ dnz \in BOOLEAN
  /\ a \in IF op = "fromint" THEN -NM .. NM - 1 ELSE Registers
  /\ b \in IF op \in {"add", "sub", "mul", "div", "cmp"} THEN Registers ELSE {Zero(0)}
  /\ op \in {"cmp", "toint", "tot"} => dp = "T"
  /\ op = "tos" => dp = "S"
  /\ dp = "S" /\ op \notin {"fromint", "tos"} => IsS(a) /\ IsS(b)
  /\ op = "tot" => IsS(a)
  /\ done = FALSE /\ r = 0 /\ traps = {}
Operation ==
  CASE op = "add" -> Add(a, b, FALSE) [] op = "sub" -> Add(a, b, TRUE)
    [] op = "mul" -> Multiply(a, b) [] op = "div" -> Divide(a, b)
    [] op = "cmp" -> Compare(a, b, TRUE) [] op = "toint" -> ToInteger(a)
    [] op = "fromint" -> FromInteger(a) [] op = "tos" -> ToS(a) [] op = "tot" -> ToT(a)

-----------------------------------------------------------------------------
(* The VAX operations.                                                       *)
Rounds == mode = "nearest"
VBias == 2 ^ (E - 1)
FBias == 2 ^ (SE - 1)
VZero == Number(0, 0, 0)

(* vax_unpack() and vax_rpack(). Only one bit more than the result is       *)
(* looked at.                                                               *)
Reserved(x) == IF x.e = 0 /\ x.s = 1 THEN {"INV"} ELSE {}
VUnpack(x) == IF x.e = 0 THEN VZero ELSE Number(x.s, x.e, NM + x.f * 2 ^ GUARD)
VExpMax == IF dp = "F" THEN VBias - FBias + 2 ^ SE - 1 ELSE 2 ^ E - 1
VExpMin == IF dp = "F" THEN VBias - FBias ELSE 0
VPack(u) ==
  LET sum == Q(u.f + IF Rounds THEN 2 ^ (Lost(dp = "F") - 1) ELSE 0)
      carry == Rounds /\ sum < NM
      f == IF carry THEN (sum \div 2) + NM ELSE sum
      e == IF carry THEN u.e + 1 ELSE u.e
      frac == (f \div 2 ^ GUARD) % 2 ^ F IN
  CASE u.f = 0 -> Result(VZero, {})
    [] u.f # 0 /\ e > VExpMax -> Result(Number(u.s, VExpMax, frac), {"OVF"})
    [] u.f # 0 /\ e <= VExpMin -> Result(VZero, {"UNF"})
    [] OTHER -> Result(Number(u.s, e, frac), {})

-----------------------------------------------------------------------------
(* vax_fadd(): only a subtraction keeps what the smaller operand loses.     *)
Kept_Never(f, n) == IF n > V_NM THEN 0 ELSE f \div 2 ^ n
Kept(f, n) == IF n > V_NM THEN 1 ELSE Or1(f \div 2 ^ n, Sticky(f % 2 ^ n))
VAddFractions(u, v) ==
  LET big == Larger(u, v)
      small == IF big = u THEN v ELSE u
      n == big.e - small.e
      f == IF n > V_NM THEN 0 ELSE small.f \div 2 ^ n
      sum == Q(big.f + f) IN
  IF big.s # small.s THEN Norm([big EXCEPT !.f = @ - Kept(small.f, n)])
  ELSE IF sum < f THEN [big EXCEPT !.f = NM + (sum \div 2), !.e = @ + 1]
  ELSE [big EXCEPT !.f = sum]
VAdd(x, y, sub) ==
  LET u == VUnpack(x)
      v == IF sub THEN [VUnpack(y) EXCEPT !.s = 1 - @] ELSE VUnpack(y)
      z == VPack(IF u.e = 0 THEN v ELSE IF v.e = 0 THEN u ELSE VAddFractions(u, v)) IN
  Result(z.r, Reserved(x) \cup Reserved(y) \cup z.traps)

(* vax_fmul(), vax_fdiv().                                                  *)
VMultiply(x, y) ==
  LET u == VUnpack(x)
      v == VUnpack(y)
      z == VPack(Norm([s |-> (u.s + v.s) % 2, e |-> u.e + v.e - VBias,
                      f |-> (u.f * v.f) \div Word])) IN
  IF u.e = 0 \/ v.e = 0 THEN Result(VZero, Reserved(x) \cup Reserved(y)) ELSE z
VDivide(x, y) ==
  LET u == VUnpack(x)
      v == VUnpack(y)
      n == F + 3
      quo == ((u.f \div 2) * 2 ^ (n - 1)) \div (v.f \div 2)
      z == VPack(Norm([s |-> (u.s + v.s) % 2, e |-> u.e - v.e + VBias + 1,
                      f |-> Q(quo * 2 ^ (V_NM - n + 1))]))
      t == Reserved(x) \cup Reserved(y) IN
  CASE v.e = 0 -> Result(VZero, t \cup {"DZE"})
    [] v.e # 0 /\ u.e = 0 -> Result(VZero, t)
    [] v.e # 0 /\ u.e # 0 -> z

(* vax_fcmp() compares the registers, as unsigned numbers.                  *)
Raw(x) == (x.s * 2 ^ E + x.e) * 2 ^ F + x.f
VCompare(x, y) ==
  LET u == VUnpack(x)
      v == VUnpack(y) IN
  Result(CASE x = y -> 0
           [] x # y /\ u.s # v.s -> IF u.s = 1 THEN -1 ELSE 1
           [] x # y /\ u.s = v.s -> IF (Raw(x) < Raw(y)) # (u.s = 1) THEN -1 ELSE 1,
         Reserved(x) \cup Reserved(y))

(* vax_cvtif(), vax_cvtfi(), and the conversions between F and G, which     *)
(* round or copy.                                                           *)
VFromInteger(n) ==
  IF n = 0 THEN Result(VZero, {})
  ELSE VPack(Norm([s |-> IF n < 0 THEN 1 ELSE 0, e |-> V_NM + 1 + VBias,
                  f |-> IF n < 0 THEN -n ELSE n]))
VToInteger(x) ==
  LET u == VUnpack(x)
      k == u.e - VBias
      twice == IF k <= V_NM THEN u.f \div 2 ^ (V_NM - k) ELSE 0
      n == CASE k < 0 -> 0 [] k \in 0 .. V_NM -> (twice + IF Rounds THEN 1 ELSE 0) \div 2
             [] k > V_NM -> Q(u.f * 2 ^ (k - V_NM - 1)) IN
  Result(IF u.s = 1 THEN -n ELSE n,
         Reserved(x) \cup IF k > V_NM \/ n > (IF u.s = 1 THEN NM ELSE NM - 1)
                          THEN {"IOV"} ELSE {})
ToF(x) == LET z == VPack(VUnpack(x)) IN Result(z.r, Reserved(x) \cup z.traps)

(* vax_stf(), vax_ldf(): an F number in memory, whose halves are swapped.   *)
VStore(x) ==
  [s |-> x.s, e |-> IF x.e = 0 THEN 0 ELSE (x.e + FBias - VBias) % 2 ^ SE,
   f |-> x.f \div 2 ^ (F - SF)]
VLoad(m) == Number(m.s, IF m.e = 0 THEN 0 ELSE m.e + VBias - FBias, m.f * 2 ^ (F - SF))
IsF(x) == VLoad(VStore(x)) = x

-----------------------------------------------------------------------------
VaxInit ==
  /\ fpu = "vax"
  /\ op \in {"add", "sub", "mul", "div", "cmp", "toint", "fromint", "tof"}
  /\ dp \in {"F", "G"} /\ mode \in {"chop", "nearest"} /\ dnz = FALSE
  /\ a \in IF op = "fromint" THEN -NM .. NM - 1 ELSE Registers
  /\ b \in IF op \in {"add", "sub", "mul", "div", "cmp"} THEN Registers ELSE {VZero}
  /\ op \in {"cmp", "toint"} => dp = "G"
  /\ op = "tof" => dp = "F"
  /\ dp = "F" /\ op \notin {"fromint", "tof"} => IsF(a) /\ IsF(b)
  /\ done = FALSE /\ r = 0 /\ traps = {}
VOperation ==
  CASE op = "add" -> VAdd(a, b, FALSE) [] op = "sub" -> VAdd(a, b, TRUE)
    [] op = "mul" -> VMultiply(a, b) [] op = "div" -> VDivide(a, b)
    [] op = "cmp" -> VCompare(a, b) [] op = "toint" -> VToInteger(a)
    [] op = "fromint" -> VFromInteger(a) [] op = "tof" -> ToF(a)
-------------------------------------

-----------------------------------------------------------------------------
(* A double is a sign and a magnitude, in the unit of a G number's lowest   *)
(* exponent. f2host(), d2host(): the fraction of a D number is rounded when *)
(* it becomes a double.                                                     *)
Double(s, m) == [s |-> s, m |-> m]
Nearest(n, p) ==           \* the integer n to p + 1 significant bits
  LET k == CHOOSE j \in 0 .. 30 - p : n < 2 ^ (p + 1 + j) /\ (j > 0 => n >= 2 ^ (p + j))
      low == n % 2 ^ k
      m == n \div 2 ^ k
      up == 2 * low > 2 ^ k \/ (2 * low = 2 ^ k /\ m % 2 = 1) IN
  (m + IF up THEN 1 ELSE 0) * 2 ^ k
GtoHost(g) == IF g.e = 0 THEN Double(0, 0) ELSE Double(g.s, (2 ^ F + g.f) * 2 ^ g.e)
DtoHost(d) ==
  IF d.e = 0 THEN Double(0, 0)
  ELSE Double(d.s, (Nearest(2 ^ DF + d.f, F) * 2 ^ (d.e + VBias - FBias)) \div 2 ^ (DF - F))

(* host2g(), host2f(), host2d(): the exponent that makes the fraction one   *)
(* of [1/2, 1), kept within bounds, and as much of the fraction as there is *)
(* room for.                                                                *)
ExponentOf(m) == (CHOOSE h \in 0 .. 30 : m \div 2 ^ h = 1) - F
Clamp(n, low, high) == IF n < low THEN low ELSE IF n > high THEN high ELSE n
FractionOf(m, e, bits) ==
  LET scaled == m * 2 ^ (bits - F) IN ((2 * scaled + 2 ^ e) \div 2 ^ (e + 1)) % 2 ^ bits
HostToG(v) ==
  LET e == Clamp(ExponentOf(v.m), 1, 2 ^ E - 1) IN
  IF v.m = 0 THEN VZero ELSE Number(v.s, e, FractionOf(v.m, e, F))
HostToF_Unmasked(v) ==
  LET e == Clamp(ExponentOf(v.m), VBias - FBias + 1, VBias + FBias - 1) IN
  IF v.m = 0 THEN VZero ELSE Number(v.s, e, FractionOf(v.m, e, F))
HostToF(v) ==
  LET e == Clamp(ExponentOf(v.m), VBias - FBias + 1, VBias + FBias - 1)
      f == FractionOf(v.m, e, F) IN
  IF v.m = 0 THEN VZero ELSE Number(v.s, e, f - (f % 2 ^ (F - SF)))
HostToD(v) ==
  LET e == Clamp(ExponentOf(v.m), VBias - FBias + 1, VBias + FBias - 1) IN
  IF v.m = 0 THEN VZero ELSE Number(v.s, e - VBias + FBias, FractionOf(v.m, e, DF))

(* map_s(): the exponent of an S number in memory, and in a register;       *)
(* IEEE's bias is one less than VAX's.                                      *)
MapS(e) ==
  CASE e = 0 -> 0 [] e = 2 ^ SE - 1 -> 2 ^ E - 1
    [] e \notin {0, 2 ^ SE - 1} -> e + VBias - FBias
LoadS(m) == Number(m.s, MapS(m.e), m.f * 2 ^ (F - SF))
StoreS(t) ==       \* the sign, the highest bit and the lowest SE - 1 bits of the exponent
  Number(t.s, (t.e \div 2 ^ (E - 1)) * 2 ^ (SE - 1) + (t.e % 2 ^ (SE - 1)), t.f \div 2 ^ (F - SF))

(* load_f(), store_f(), itof_f(): the same for an F number, but for the     *)
(* largest exponent.                                                        *)
LoadF(m) ==
  LET high == m.e \div 2 ^ (SE - 1)
      low == m.e % 2 ^ (SE - 1)
      mid == IF high = 0 /\ low # 0 THEN 2 ^ (E - 1) - 2 ^ (SE - 1) ELSE 0 IN
  Number(m.s, high * 2 ^ (E - 1) + mid + low, m.f * 2 ^ (F - SF))
StoreF(g) == StoreS(g)

(* FCMOVxx, FBxx: the conditions are tested on the register.                *)
IsZero(g) == g.e = 0 /\ g.f = 0
Condition_Signs(c, g) == (g.s = 1) <=> c \in {"le", "lt", "ne"}
Condition(c, g) ==
  CASE c = "eq" -> IsZero(g)
    [] c = "ne" -> ~IsZero(g)
    [] c = "ge" -> g.s = 0 \/ IsZero(g)
    [] c = "gt" -> g.s = 0 /\ ~(g = VZero)
    [] c = "le" -> g.s = 1 \/ g = VZero
    [] c = "lt" -> g.s = 1 /\ ~IsZero(g)

Memory(se, sf) == [s : {0, 1}, e : 0 .. 2 ^ se - 1, f : 0 .. 2 ^ sf - 1]
Conditions == {"eq", "ne", "ge", "gt", "le", "lt"}
HostInit ==
  /\ fpu = "host"
  /\ op \in {"addg", "addf", "gtof", "gtod", "dtog", "loadf", "loads"} \cup Conditions
  /\ a \in CASE op = "dtog" -> Memory(SE, DF) [] op \in {"loadf", "loads"} -> Memory(SE, SF)
             [] op \notin {"dtog", "loadf", "loads"} -> Registers
  /\ b \in IF op \in {"addg", "addf"} THEN Registers ELSE {VZero}
  /\ op = "addf" => LoadF(StoreF(a)) = a /\ LoadF(StoreF(b)) = b
  /\ dp = "G" /\ mode = "nearest" /\ dnz = FALSE
  /\ done = FALSE /\ r = 0 /\ traps = {}
Sum(u, v) ==       \* the host's addition
  LET n == (IF u.s = 1 THEN -u.m ELSE u.m) + IF v.s = 1 THEN -v.m ELSE v.m IN
  Double(IF n < 0 THEN 1 ELSE 0, Nearest(Abs(n), F))
Convert ==
  CASE op = "addg" -> HostToG(Sum(GtoHost(a), GtoHost(b)))
    [] op = "addf" -> HostToF(Sum(GtoHost(a), GtoHost(b)))
    [] op = "gtof" -> HostToF(GtoHost(a))
    [] op = "gtod" -> HostToD(GtoHost(a))
    [] op = "dtog" -> HostToG(DtoHost(a))
    [] op = "loadf" -> LoadF(a)
    [] op = "loads" -> LoadS(a)
    [] op \in Conditions -> Condition(op, a)

-----------------------------------------------------------------------------
Execute ==
  /\ ~done /\ done' = TRUE
  /\ LET z == CASE fpu = "ieee" -> Operation [] fpu = "vax" -> VOperation
                [] OTHER -> Result(Convert, {}) IN
     r' = z.r /\ traps' = z.traps
  /\ UNCHANGED <<fpu, op, dp, a, b, mode, dnz>>
Init == fpu \in Units /\ (IeeeInit \/ VaxInit \/ HostInit)
Next == Execute
Spec == Init /\ [][Next]_vars

-----------------------------------------------------------------------------
(* The exact result, in units of 2^-Unit: a fraction n/d with a sign.       *)
Unit == Bias + F
Finite(x) == x.e \in 1 .. Nan - 1 \/ x = Zero(x.s)
Signed(x) == IF x.s = 1 THEN -Magnitude(x) ELSE Magnitude(x)
Exact ==
  CASE op \in {"add", "cmp"} -> [n |-> Signed(a) + Signed(b), d |-> 1]
    [] op = "sub" -> [n |-> Signed(a) - Signed(b), d |-> 1]
    [] op = "mul" -> [n |-> Signed(a) * Signed(b), d |-> 2 ^ Unit]
    [] op = "div" -> [n |-> (IF b.s = 1 THEN -1 ELSE 1) * Signed(a) * 2 ^ Unit, d |-> Magnitude(b)]
    [] op = "fromint" -> [n |-> a * 2 ^ Unit, d |-> 1]
    [] OTHER -> [n |-> Signed(a), d |-> 1]
Rounded(n, d, s, p, t) ==
  LET x == Between(n, d, p)
      up == \/ mode = "nearest" /\ (x.twice = 3 \/ (x.twice = 2 /\ x.m % 2 = 1))
            \/ mode = "plus" /\ s = 0 /\ x.twice > 0
            \/ mode = "minus" /\ s = 1 /\ x.twice > 0
      m == IF up THEN x.m + 1 ELSE x.m
      e == x.k - Fine - (F - p) + IF m = 2 ^ (p + 1) THEN 1 ELSE 0 IN
  [e |-> e, s |-> s, f |-> (m % 2 ^ p) * 2 ^ (F - p), inexact |-> x.twice > 0,
   halfway |-> x.twice = 2,
   over |-> e > ExpMax[t], under |-> e <= ExpMin[t]]
Wanted ==
  Rounded(Abs(Exact.n), Exact.d, IF Exact.n < 0 THEN 1 ELSE 0, IF dp = "S" THEN SF ELSE F, dp)
Arithmetic == op \in {"add", "sub", "mul", "div", "fromint", "tos"}
Computes ==
  /\ done /\ fpu = "ieee" /\ (op # "fromint" => Finite(a) /\ Finite(b)) /\ (op = "div" => Magnitude(b) # 0)
  /\ Arithmetic /\ Exact.n # 0

(* An operation on finite numbers gives the number that is nearest to the   *)
(* exact result in the direction of the rounding mode (as it is stored, if  *)
(* it is an S number), zero where that is too small and an infinity where   *)
(* it is too large, and signals just what happened (ieee_fadd(),            *)
(* ieee_fmul(), ieee_fdiv(), ieee_cvtif(), ieee_rpack()).                   *)
RoundsRight ==
  Computes =>
    LET w == Wanted
        x == Number(w.s, w.e, w.f) IN
    /\ ~w.over /\ ~w.under =>
         /\ dp = "T" => r = x
         /\ dp = "S" /\ ~(mode = "nearest" /\ w.halfway) => Store(r) = Store(x)
         /\ traps = IF w.inexact THEN {"INE"} ELSE {}
    /\ w.under => r = Zero(0) /\ traps = {"UNF", "INE"}
    /\ w.over =>
         /\ traps = {"OVF", "INE"}
         /\ mode = "nearest" => r = Inf(w.s)

(* A comparison orders the finite numbers and the infinities, and an        *)
(* integer is the number it was converted from, rounded (ieee_fcmp(),       *)
(* ieee_cvtfi()).                                                           *)
Order(x) == IF x.e = Nan THEN (IF x.s = 1 THEN -1 ELSE 1) * 2 ^ (Nan + F + 1) ELSE Signed(x)
Comparable(x) == Finite(x) \/ x = Inf(x.s)
IntegerRight ==
  LET n == Abs(Signed(a)) \div 2 ^ Unit
      rest == Abs(Signed(a)) % 2 ^ Unit
      up == \/ mode = "nearest" /\ (2 * rest > 2 ^ Unit \/ (2 * rest = 2 ^ Unit /\ n % 2 = 1))
            \/ mode = "plus" /\ a.s = 0 /\ rest > 0
            \/ mode = "minus" /\ a.s = 1 /\ rest > 0 IN
  r = (IF a.s = 1 THEN -1 ELSE 1) * (IF up THEN n + 1 ELSE n)
ComparesRight ==
  done /\ fpu = "ieee" =>
    /\ op = "cmp" /\ Comparable(a) /\ Comparable(b) =>
         r = (IF Order(a) < Order(b) THEN -1 ELSE IF Order(a) > Order(b) THEN 1 ELSE 0)
    /\ op = "toint" /\ Finite(a) => IntegerRight

-----------------------------------------------------------------------------
(* The exact result, in units of 2^-VUnit, as a fraction.                   *)
VUnit == VBias + F + 1
VExact ==
  CASE op = "add" -> [n |-> Signed(a) + Signed(b), d |-> 1]
    [] op = "sub" -> [n |-> Signed(a) - Signed(b), d |-> 1]
    [] op = "mul" -> [n |-> Signed(a) * Signed(b), d |-> 2 ^ VUnit]
    [] op = "div" -> [n |-> (IF b.s = 1 THEN -1 ELSE 1) * Signed(a) * 2 ^ VUnit, d |-> Magnitude(b)]
    [] op = "fromint" -> [n |-> a * 2 ^ VUnit, d |-> 1]
    [] OTHER -> [n |-> Signed(a), d |-> 1]
VWanted ==
  LET p == IF dp = "F" THEN SF ELSE F
      x == Between(Abs(VExact.n), VExact.d, p)
      m == IF Rounds /\ x.twice >= 2 THEN x.m + 1 ELSE x.m IN
  Number(IF VExact.n < 0 THEN 1 ELSE 0,
         x.k - Fine - (F - p) + IF m = 2 ^ (p + 1) THEN 1 ELSE 0,
         (m % 2 ^ p) * 2 ^ (F - p))
VComputes ==
  /\ done /\ fpu = "vax" /\ op \in {"add", "sub", "mul", "div", "fromint", "tof"}
  /\ op # "fromint" => a.e # 0 /\ (b.e # 0 \/ b = VZero)
  /\ op = "div" => b.e # 0
  /\ VExact.n # 0

(* An operation gives the number nearest to the exact result, the larger if *)
(* it is halfway, or the chopped one, as it is stored; zero where it is too *)
(* small (vax_fadd(), vax_fmul(), vax_fdiv(), vax_cvtif(), vax_rpack()).    *)
VaxRoundsRight ==
  VComputes =>
    CASE VWanted.e > VExpMax -> traps = {"OVF"}
      [] VWanted.e <= VExpMin -> r = VZero /\ traps = {"UNF"}
      [] OTHER -> /\ traps = {}
                  /\ IF dp = "F" THEN VStore(r) = VStore(VWanted) ELSE r = VWanted

(* A comparison orders the numbers, and an integer is the number it comes   *)
(* from, rounded or chopped (vax_fcmp(), vax_cvtfi()).                      *)
VIntegerRight ==
  LET n == Abs(Signed(a)) \div 2 ^ VUnit
      up == Rounds /\ 2 * (Abs(Signed(a)) % 2 ^ VUnit) >= 2 ^ VUnit IN
  r = (IF a.s = 1 THEN -1 ELSE 1) * IF up THEN n + 1 ELSE n
VaxComparesRight ==
  done /\ fpu = "vax" =>
    /\ op = "cmp" /\ Reserved(a) = {} /\ Reserved(b) = {} /\ (a.e = 0 => a.f = 0)
       /\ (b.e = 0 => b.f = 0) =>
         r = (IF Signed(a) < Signed(b) THEN -1 ELSE IF Signed(a) > Signed(b) THEN 1 ELSE 0)
    /\ op = "toint" /\ Reserved(a) = {} => VIntegerRight

-----------------------------------------------------------------------------
(* Where the exact result is within the range of the format, G numbers are  *)
(* the nearest to it, F numbers the chopped nearest double and D numbers    *)
(* exact (host2g(), host2f(), host2d(), d2host()).                          *)
InRange(n, low, high) == n = 0 \/ (Abs(n) >= 2 ^ (F + low) /\ Abs(n) < 2 ^ (F + high) )
Chop(n) ==     \* to SF + 1 bits
  LET k == CHOOSE j \in 0 .. 30 : n < 2 ^ (SF + 1 + j) /\ (j > 0 => n >= 2 ^ (SF + j)) IN
  (n \div 2 ^ k) * 2 ^ k
FInRange(n) == InRange(n, VBias - FBias + 1, VBias + FBias)
Converted ==
  done /\ fpu = "host" =>
    LET n == IF op \in {"addg", "addf", "gtof", "gtod"} THEN Signed(a) + Signed(b) ELSE 0
        near == Nearest(Abs(n), F) IN
    /\ op = "addg" /\ InRange(near, 1, 2 ^ E) =>
         Magnitude(r) = near /\ (n # 0 => r.s = (IF n < 0 THEN 1 ELSE 0))
    /\ op \in {"addf", "gtof"} /\ FInRange(near) => Magnitude(r) = Chop(near)
    /\ op = "gtod" /\ FInRange(n) =>
         DtoHost(r) = (IF n = 0 THEN Double(0, 0) ELSE GtoHost(a))
    /\ op = "dtog" => GtoHost(r) = DtoHost(a)
    /\ op = "loadf" => StoreF(r) = a
    /\ op = "loads" => StoreS(r) = a

(* A branch or a conditional move takes a register for the sign and the     *)
(* value that its number has (DO_FBxx, DO_FCMOVxx).                         *)
Ordered(c, n) ==
  CASE c = "eq" -> n = 0 [] c = "ne" -> n # 0 [] c = "ge" -> n >= 0
    [] c = "gt" -> n > 0 [] c = "le" -> n <= 0 [] c = "lt" -> n < 0
ConditionsRight ==
  done /\ fpu = "host" /\ op \in Conditions /\ (a.e = 0 => a = VZero) => (r <=> Ordered(op, Signed(a)))
==============================================================================
