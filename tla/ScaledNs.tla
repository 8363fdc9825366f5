------------------------------ MODULE ScaledNs ------------------------------
(***************************************************************************)
(* Arithmetic on UScaledNs (tsn_drivers/ptp_types.c): unsigned time in     *)
(* three limbs, 2^-16 ns, ns, and 2^64 ns.  The widths of the limbs are    *)
(* parameters: SubNs = 2^16, NsMod = 2^64 and MsbMod = 2^16 in the code.   *)
(***************************************************************************)
EXTENDS Integers

CONSTANTS SubNs, NsMod, MsbMod

ASSUME LimbAssumption == {SubNs, NsMod, MsbMod} \subseteq Nat \ {0, 1}

UScaledNs == [subns : 0 .. SubNs - 1, nsec : 0 .. NsMod - 1, nsec_msb : 0 .. MsbMod - 1]

\* The number that a UScaledNs stands for, in units of 2^-16 ns.
Value(t) == t.subns + SubNs * (t.nsec + NsMod * t.nsec_msb)

\* 1 if the sum of two limbs of width m and a carry does not fit, which
\* check_overflow sees by comparing the truncated sum with one of them.
check_overflow(a, b, carry, m) ==
  LET s == (a + b + carry) % m
  IN IF carry = 0 THEN IF s < a THEN 1 ELSE 0
                  ELSE IF s > a THEN 0 ELSE 1

\* The lowest limb carries when its sum reaches 0xFFFF, not 0x10000.
EarlyCarry(t1, t2) == IF t1.subns + t2.subns >= SubNs - 1 THEN 1 ELSE 0

\* uscaledns_add
Add(t1, t2) ==
  LET c == EarlyCarry(t1, t2)
  IN [subns    |-> (t1.subns + t2.subns) % SubNs,
      nsec     |-> (t1.nsec + t2.nsec + c) % NsMod,
      nsec_msb |-> (t1.nsec_msb + t2.nsec_msb + check_overflow(t1.nsec, t2.nsec, c, NsMod))
                     % MsbMod]

\* The borrow out of a limb: t1.nsec == 0 is a case of its own because the limb is
\* unsigned and t1.nsec - 1 would wrap.
Borrows(a, b, borrow) == IF a = 0 /\ borrow = 1 THEN 1
                         ELSE IF a - borrow >= b THEN 0 ELSE 1

\* uscaledns_subtract
Subtract(t1, t2) ==
  LET b1 == IF t1.subns >= t2.subns THEN 0 ELSE 1
      b2 == Borrows(t1.nsec, t2.nsec, b1)
  IN [subns    |-> (t1.subns - t2.subns) % SubNs,
      nsec     |-> (t1.nsec - b1 - t2.nsec) % NsMod,
      nsec_msb |-> (t1.nsec_msb - b2 - t2.nsec_msb) % MsbMod]

\* uscaledns_compare
Compare(t1, t2) ==
  CASE t1.nsec_msb # t2.nsec_msb -> IF t1.nsec_msb > t2.nsec_msb THEN 1 ELSE -1
    [] t1.nsec_msb = t2.nsec_msb /\ t1.nsec # t2.nsec -> IF t1.nsec > t2.nsec THEN 1 ELSE -1
    [] OTHER -> IF t1.subns > t2.subns THEN 1 ELSE IF t1.subns < t2.subns THEN -1 ELSE 0

\* The UScaledNs of a number.
FromValue(v) == [subns    |-> v % SubNs,
                 nsec     |-> (v \div SubNs) % NsMod,
                 nsec_msb |-> (v \div (SubNs * NsMod)) % MsbMod]
=============================================================================
