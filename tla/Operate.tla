-------------------------------- MODULE Operate --------------------------------
(***************************************************************************)
(* The integer operations of the CPU whose result is not that of one       *)
(* operator of the language (cpu_arith.hpp, cpu_bwx.hpp, cpu_mvi.hpp,      *)
(* cpu_logical.hpp): overflow, the high half of a product, shifts,         *)
(* counts, and bytes of a quadword. A quadword has NB bytes of B bits; a   *)
(* longword is half of it.                                                 *)
(***************************************************************************)
EXTENDS Integers, FiniteSets

CONSTANTS B, NB,
  Second,    \* the second operands
  Stored     \* what is stored

VARIABLES
  a, b, c,   \* operands: registers 1 and 2, and one that is stored
  k,         \* an address, as the byte of a quadword
  phase

vars == <<a, b, c, k, phase>>

W == B * NB
L == W \div 2
M == 2^W
Quad == 0 .. M - 1
Bit(x, i) == (x \div 2^i) % 2
Byte(x, i) == (x \div 2^(B * i)) % 2^B
Signed(x, n) == (x % 2^n) - (IF x % 2^n >= 2^(n - 1) THEN 2^n ELSE 0)
Sext(x, n) == Signed(x, n) % M             \* sext_u64_32() and others
Or(x, y) ==
  LET f[i \in 0 .. W] ==
        IF i = W THEN 0 ELSE 2^i * (IF Bit(x, i) + Bit(y, i) > 0 THEN 1 ELSE 0) + f[i + 1]
  IN f[0]
And(x, y) == LET f[i \in 0 .. W] == IF i = W THEN 0 ELSE 2^i * (Bit(x, i) * Bit(y, i)) + f[i + 1]
             IN f[0]
Not(x) == M - 1 - x

-----------------------------------------------------------------------------
(* Overflow: the sign of the result, and those of the operands.             *)
Carries_Low(x, y, r, i) == Bit(x, i) # Bit(r, i)
Carries(x, y, r, i) == Bit(x, i) = Bit(y, i) /\ Bit(x, i) # Bit(r, i)
Borrows(x, y, r, i) == Bit(x, i) # Bit(y, i) /\ Bit(x, i) # Bit(r, i)
AddqV == LET r == (a + b) % M IN [r |-> r, trap |-> Carries(a, b, r, W - 1)]
AddlV == LET r == Sext(a + b, L) IN [r |-> r, trap |-> Carries(a, b, r, L - 1)]
SubqV == LET r == (a - b) % M IN [r |-> r, trap |-> Borrows(a, b, r, W - 1)]
SublV == LET r == Sext(a - b, L) IN [r |-> r, trap |-> Borrows(a, b, r, L - 1)]

(* uemul64(): the product from those of the halves, with the carries.       *)
Mul ==
  LET h == 2^L
      mid1 == (a \div h) * (b % h)
      mid2 == (a % h) * (b \div h)
      hi == (a \div h) * (b \div h) + mid1 \div h + mid2 \div h
      m1 == (mid1 * h) % M
      m2 == (mid2 * h) % M
      lo1 == ((a % h) * (b % h) + m1) % M
      lo2 == (lo1 + m2) % M IN
  [hi |-> (hi + (IF lo1 < m1 THEN 1 ELSE 0) + (IF lo2 < m2 THEN 1 ELSE 0)) % M, lo |-> lo2]
MulqV ==
  LET t == (Mul.hi - (IF Bit(a, W - 1) = 1 THEN b ELSE 0) - (IF Bit(b, W - 1) = 1 THEN a ELSE 0)) % M IN
  [r |-> Mul.lo, trap |-> IF Bit(Mul.lo, W - 1) = 1 THEN t # M - 1 ELSE t # 0]
MullV ==
  LET s == (Sext(a, L) * Sext(b, L)) % M
      r == Sext(s, L) IN
  [r |-> r, trap |-> r \div 2^L # s \div 2^L]

(* Counts, and the shift that keeps the sign.                               *)
Scan(from, step) ==      \* the zeros before the first one
  LET f[n \in 0 .. W] == IF n = W THEN 0 ELSE IF Bit(b, from + step * n) = 1 THEN 0 ELSE 1 + f[n + 1]
  IN f[0]
Ctlz == Scan(W - 1, -1)
Cttz == Scan(0, 1)
Ctpop == Cardinality({i \in 0 .. W - 1 : Bit(b, i) = 1})
Sra ==
  LET n == b % W IN
  IF n = 0 THEN a
  ELSE Or(a \div 2^n, IF Bit(a, W - 1) = 1 THEN ((M - 1) * 2^(W - n)) % M ELSE 0)

(* Bytes: extraction, insertion and masks of z bytes at byte n, in the low  *)
(* and the high of two quadwords.                                           *)
Ones(z) == 2^(B * z) - 1
Rest(n) == (W - n * B) % W
ExtL(x, n, z) == And(x \div 2^(n * B), Ones(z))
ExtH(x, n, z) == And((x * 2^Rest(n)) % M, Ones(z))
InsL(x, n, z) == (And(x, Ones(z)) * 2^(n * B)) % M
InsH_Low(x, n, z) == IF n = 0 THEN 0 ELSE And(x, Ones(z)) \div 2^(n * B)
InsH(x, n, z) == IF n = 0 THEN 0 ELSE And(x, Ones(z)) \div 2^Rest(n)
MskL(x, n, z) == And(x, Not((Ones(z) * 2^(n * B)) % M))
MskH(x, n, z) == IF n = 0 THEN x ELSE And(x, Not(Ones(z) \div 2^Rest(n)))
Lanes(F(_, _), z) ==        \* MINxx, MAXxx, ZAP: byte after byte, z of them at a time
  LET f[i \in 0 .. NB \div z] ==
        IF i = NB \div z THEN 0
        ELSE 2^(B * z * i) * F((a \div 2^(B * z * i)) % 2^(B * z),
                               (b \div 2^(B * z * i)) % 2^(B * z)) + f[i + 1]
  IN f[0]
Lower(signed, z) ==
  LET F(x, y) == IF (IF signed THEN Signed(x, B * z) > Signed(y, B * z) ELSE x > y) THEN y ELSE x
  IN Lanes(F, z)
Upper(signed, z) ==
  LET F(x, y) == IF (IF signed THEN Signed(x, B * z) > Signed(y, B * z) ELSE x > y) THEN x ELSE y
  IN Lanes(F, z)
Cmpbge ==
  LET f[i \in 0 .. NB] ==
        IF i = NB THEN 0 ELSE 2^i * (IF Byte(a, i) >= Byte(b, i) THEN 1 ELSE 0) + f[i + 1]
          IN f[0]
Zapnot(x, m) ==
  LET f[i \in 0 .. NB] == IF i = NB THEN 0 ELSE 2^(B * i) * (Bit(m, i) * Byte(x, i)) + f[i + 1] IN f[0]

-----------------------------------------------------------------------------
Init == a \in Quad /\ b = 0 /\ c = 0 /\ k = 0 /\ phase = "first"
Operands ==
  /\ phase = "first" /\ phase' = "all"
  /\ b' \in Second /\ c' \in Stored /\ k' \in 0 .. NB - 1
  /\ UNCHANGED a
Next == Operands
Spec == Init /\ [][Next]_vars

-----------------------------------------------------------------------------
(* A trap is taken exactly when the result is not the number: of a          *)
(* quadword, of a longword. The high half of a product is right, and shifts *)
(* and counts are (ADDQ_V to CTTZ).                                         *)
Fits(x, n) == x \in -(2^(n - 1)) .. 2^(n - 1) - 1
ArithmeticRight ==
  /\ AddqV.trap <=> ~Fits(Signed(a, W) + Signed(b, W), W)
  /\ SubqV.trap <=> ~Fits(Signed(a, W) - Signed(b, W), W)
  /\ MulqV.trap <=> ~Fits(Signed(a, W) * Signed(b, W), W)
  /\ AddlV.trap <=> ~Fits(Signed(a, L) + Signed(b, L), L)
  /\ SublV.trap <=> ~Fits(Signed(a, L) - Signed(b, L), L)
  /\ MullV.trap <=> ~Fits(Signed(a, L) * Signed(b, L), L)
  /\ Mul = [hi |-> (a * b) \div M, lo |-> (a * b) % M]
  /\ Signed(Sra, W) = Signed(a, W) \div 2^(b % W)
  /\ b # 0 => b \in 2^(W - 1 - Ctlz) .. 2^(W - Ctlz) - 1 /\ b % 2^Cttz = 0 /\ Bit(b, Cttz) = 1
  /\ b = 0 => Ctlz = W /\ Cttz = W /\ Ctpop = 0

(* Of memory that a compiler loads and stores in quadwords, z bytes at any  *)
(* address are what is extracted from the two quadwords that have them, and *)
(* are what is inserted into them; all others stay. Comparison of bytes and *)
(* zapping are about the same bytes (EXTxx, INSxx, MSKxx).                  *)
Memory(lo, hi, i) == IF i < NB THEN Byte(lo, i) ELSE Byte(hi, i - NB)
BytesRight ==
  /\ \A z \in {1, 2, NB} :
       LET crosses == k + z > NB
           hi == IF crosses THEN b ELSE a          \* the quadword of the last byte
           value == IF z = 1 THEN ExtL(a, k, 1) ELSE Or(ExtL(a, k, z), ExtH(hi, k, z))
           low == Or(MskL(a, k, z), InsL(c, k, z))
           high == Or(MskH(hi, k, z), InsH(c, k, z)) IN
       /\ \A i \in 0 .. NB - 1 : Byte(value, i) = IF i < z THEN Memory(a, hi, k + i) ELSE 0
       /\ \A i \in 0 .. 2 * NB - 1 :
            i < NB \/ crosses =>
              Memory(low, high, i) = IF i \in k .. k + z - 1 THEN Byte(c, i - k) ELSE Memory(a, b, i)
  /\ \A i \in 0 .. NB - 1 :
       /\ Byte(Zapnot(a, Cmpbge), i) = IF Byte(a, i) >= Byte(b, i) THEN Byte(a, i) ELSE 0
       /\ {Byte(Lower(FALSE, 1), i), Byte(Upper(FALSE, 1), i)} = {Byte(a, i), Byte(b, i)}
       /\ Byte(Lower(FALSE, 1), i) <= Byte(Upper(FALSE, 1), i)
       /\ Signed(Byte(Lower(TRUE, 1), i), B) <= Signed(Byte(Upper(TRUE, 1), i), B)
=============================================================================
