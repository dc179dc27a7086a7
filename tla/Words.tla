-------------------------------- MODULE Words --------------------------------
(***************************************************************************)
(* The integers of the language: words of Width bits in two's complement,  *)
(* with the arithmetic of src/object/object.hpp that wraps, the division    *)
(* of src/vm/vm.hpp that rounds down, and the numbers an index, a slice     *)
(* and a range are turned into.                                            *)
(***************************************************************************)
LOCAL INSTANCE Integers

CONSTANT Width      \* bits of an integer (64 in the code)
ASSUME WidthAssumption == Width \in Nat \ {0}

IntMin == -(2^(Width - 1))
IntMax == 2^(Width - 1) - 1

Wrap(n) == ((n - IntMin) % 2^Width) + IntMin

Magnitude(n) == IF n < 0 THEN -n ELSE n
Signum(n) == IF n < 0 THEN -1 ELSE IF n = 0 THEN 0 ELSE 1

-----------------------------------------------------------------------------
(* Division *)

\* C++ division truncates; the quotient of IntMin by -1 does not exist, the
\* processor traps: TruncDiv leaves the range of the integers there.
TruncDiv(l, r) == Signum(l) * Signum(r) * (Magnitude(l) \div Magnitude(r))
TruncRem(l, r) == l - r * TruncDiv(l, r)

\* mutant: floor division without the guard for the divisor -1.
FloorDivUnguarded(l, r) ==
    LET q == TruncDiv(l, r)
    IN IF TruncRem(l, r) # 0 /\ (l < 0) # (r < 0) THEN q - 1 ELSE q
FloorDiv(l, r) ==
    IF r = -1 THEN Wrap(-l)
    ELSE LET q == TruncDiv(l, r)
         IN IF TruncRem(l, r) # 0 /\ (l < 0) # (r < 0) THEN q - 1 ELSE q

FloorMod(l, r) ==
    IF r = -1 THEN 0
    ELSE LET m == TruncRem(l, r)
         IN IF m # 0 /\ (m < 0) # (r < 0) THEN m + r ELSE m

-----------------------------------------------------------------------------
(* Places in a sequence, and the length of a range *)

\* The position an index names, counting from 1; 0 outside.
FromEnd(i, n) == LET k == IF i < 0 THEN i + n ELSE i
                 IN IF k >= 0 /\ k < n THEN k + 1 ELSE 0

\* The bound of a slice of n elements.
Norm(idx, n) == LET k == IF idx < 0 THEN idx + n ELSE idx
                IN IF k < 0 THEN 0 ELSE IF k > n THEN n ELSE k

\* Plain arithmetic in the code: where the distance does not fit, it wraps.
RangeLength(r) ==
    IF r.step > 0
    THEN IF r.to <= r.from THEN 0 ELSE TruncDiv(Wrap(r.to - r.from + r.step - 1), r.step)
    ELSE IF r.to >= r.from THEN 0 ELSE TruncDiv(Wrap(r.from - r.to - r.step - 1), Wrap(-r.step))
=============================================================================
