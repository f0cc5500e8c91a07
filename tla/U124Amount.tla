----------------------------- MODULE U124Amount -----------------------------
(***************************************************************************)
(* Amounts of the wide profile (token/wide/src/main.psy.rs): a pair of     *)
(* limbs below 2^62, because one field element cannot hold 18 decimals of  *)
(* a large supply.  The program spells every sum, difference and           *)
(* comparison out in bits: the sum of two low limbs is split at bit 62 for *)
(* its carry, a comparison goes over the bits of both limbs from the       *)
(* lowest up, a difference borrows Base when the low limb is too small,    *)
(* and each limb of a result is range-checked.  Limbs are integers here    *)
(* and Base is any radix; the sums never reach the size of the field.      *)
(*                                                                         *)
(* A definition whose comment starts with "Faulty" is the next one with a  *)
(* plausible mistake.  Nothing uses it; it shows that a property notices.  *)
(***************************************************************************)
EXTENDS Integers

CONSTANT Base       \* 2^62, the radix of a limb (small in TLC)

ASSUME BaseAssumption == Base \in Nat /\ Base >= 2

Limb == 0..Base - 1
Wide == [lo : Limb, hi : Limb]
Zero == [lo |-> 0, hi |-> 0]

(* The number a pair stands for, and the largest such number.              *)
Val(a) == a.lo + Base * a.hi
MaxWide == Base * Base - 1

-----------------------------------------------------------------------------
(* Faulty: pairs are compared limb by limb.                                *)
LessInBoth(a, b) == a.hi <= b.hi /\ a.lo < b.lo

Less(a, b) == a.hi < b.hi \/ (a.hi = b.hi /\ a.lo < b.lo)

Leq(a, b) == Less(a, b) \/ (a.hi = b.hi /\ a.lo = b.lo)

Carry(a, b) == IF a.lo + b.lo >= Base THEN 1 ELSE 0

(* The sum; the caller's range check refuses a high limb that overflowed.  *)
Plus(a, b) ==
    [lo |-> a.lo + b.lo - Carry(a, b) * Base, hi |-> a.hi + b.hi + Carry(a, b)]

Borrow(a, b) == IF a.lo < b.lo THEN 1 ELSE 0

(* Faulty: the low limb borrows, the high limb does not pay.               *)
MinusUnpaid(a, b) ==
    [lo |-> a.lo + Borrow(a, b) * Base - b.lo, hi |-> a.hi - b.hi]

(* The difference; the caller has compared the two.                        *)
Minus(a, b) ==
    [lo |-> a.lo + Borrow(a, b) * Base - b.lo, hi |-> a.hi - b.hi - Borrow(a, b)]
=============================================================================
