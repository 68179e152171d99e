-------------------------------- MODULE Floats --------------------------------
(***************************************************************************)
(* Non-negative binary floating-point numbers as the program's f64, which  *)
(* has 53 bits and exponents up to 1024: a number is a quotient            *)
(* <<num, den>>, den a power of two, and every operation rounds its exact  *)
(* result to the nearest number that has Precision bits, ties to even.     *)
(***************************************************************************)
EXTENDS Integers, Sequences, SequencesExt

CONSTANTS
  Precision,   \* bits of a significand
  MaxExponent  \* numbers lie below 2^MaxExponent

ASSUME FloatAssumption ==
  Precision \in Nat \ {0} /\ MaxExponent \in Nat /\ MaxExponent >= Precision

Pow2[n \in Nat] == IF n = 0 THEN 1 ELSE 2 * Pow2[n - 1]

(* Below 1/Denominator the distance of numbers stays the same.             *)
Denominator == Pow2[MaxExponent]
Numbers == Nat \X {Pow2[k] : k \in 0..MaxExponent}

Nearest(num, den) ==
  LET q == num \div den
      twice == 2 * (num % den)
  IN IF twice < den THEN q ELSE IF twice > den THEN q + 1 ELSE q + (q % 2)

(* The least k with num/den < 2^k, for num > 0, in the range of exponents. *)
Exponent(num, den) ==
  Min({k \in (-MaxExponent)..MaxExponent :
         IF k >= 0 THEN num \div Pow2[k] < den ELSE num * Pow2[-k] < den})

Rounded(num, den) ==
  IF num = 0 THEN <<0, 1>>
  ELSE LET shift == Precision - Exponent(num, den)
       IN IF shift >= 0 THEN <<Nearest(num * Pow2[shift], den), Pow2[shift]>>
          ELSE <<Nearest(num, den * Pow2[-shift]) * Pow2[-shift], 1>>

Quotient(x, y) == Rounded(x[1] * y[2], x[2] * y[1])
Product(x, y) == Rounded(x[1] * y[1], x[2] * y[2])
Minus(x, y) == Rounded(x[1] * y[2] - y[1] * x[2], x[2] * y[2])
Plus(x, y) == Rounded(x[1] * y[2] + y[1] * x[2], x[2] * y[2])
AtMost(x, y) == x[1] * y[2] <= y[1] * x[2]

(* Added up one after the other, from zero.                                *)
Total(xs) ==
  LET sum[i \in 0..Len(xs)] == IF i = 0 THEN <<0, 1>> ELSE Plus(sum[i - 1], xs[i])
  IN sum[Len(xs)]
=============================================================================
