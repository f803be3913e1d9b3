----------------------------- MODULE StbSizes -----------------------------
(* The checks of stb_image.h that come before every size computation: a      *)
(* product or a sum is formed only after its check.                          *)
EXTENDS Integers

CONSTANTS INT_MAX, SHRT_MAX   \* the largest int and the largest short

ASSUME WidthAssumption == INT_MAX \in Nat /\ SHRT_MAX \in Nat

INT_MIN == -INT_MAX - 1
SHRT_MIN == -SHRT_MAX - 1
Int32 == INT_MIN..INT_MAX

\* Division of C: towards zero.
Quot(a, b) ==
  LET q == (IF a >= 0 THEN a ELSE -a) \div (IF b >= 0 THEN b ELSE -b)
  IN IF (a >= 0) = (b >= 0) THEN q ELSE -q

addsizes_valid(a, b) == b >= 0 /\ a <= INT_MAX - b

mul2sizes_valid(a, b) == a >= 0 /\ b >= 0 /\ (b = 0 \/ a <= INT_MAX \div b)

mad2sizes_valid(a, b, add) == mul2sizes_valid(a, b) /\ addsizes_valid(a * b, add)

mad3sizes_valid(a, b, c, add) ==
  mul2sizes_valid(a, b) /\ mul2sizes_valid(a * b, c) /\ addsizes_valid(a * b * c, add)

addints_valid(a, b) ==
  \/ (a >= 0) # (b >= 0)
  \/ a < 0 /\ b < 0 /\ a >= INT_MIN - b
  \/ a >= 0 /\ b >= 0 /\ a <= INT_MAX - b

\* The JPEG decoder passes for b an entry of a quantisation table, which is never
\* negative; for two negative factors the comparison is the wrong way round.
mul2shorts_valid(a, b) ==
  \/ b \in {0, -1}
  \/ b # 0 /\ (a >= 0) = (b >= 0) /\ a <= Quot(SHRT_MAX, b)
  \/ b < -1 /\ a >= 0 /\ a <= Quot(SHRT_MIN, b)
  \/ b > 0 /\ a < 0 /\ a >= Quot(SHRT_MIN, b)
=============================================================================
