------------------------------- MODULE Pricing -------------------------------
(***************************************************************************)
(* The price arithmetic of internal/billing/service.go: a charge is the    *)
(* int64 product units * rate, guarded by an int64 division.  MaxInt64 is  *)
(* a parameter, so that TLC meets every boundary with small numbers.       *)
(***************************************************************************)
EXTENDS Integers

CONSTANT MaxInt64   \* math.MaxInt64: the largest value of the machine integer

ASSUME MaxInt64Assumption == MaxInt64 \in Nat \ {0}

\* Two's complement: the int64 value that the mathematical integer x denotes.
Wrap(x) ==
    LET modulus == 2 * (MaxInt64 + 1)
        low     == x % modulus
    IN  IF low > MaxInt64 THEN low - modulus ELSE low

\* Service.Accept: input.Units > math.MaxInt64/s.rate.
Overflows(units, rate) == units > MaxInt64 \div rate

\* Service.Accept: AmountMicros: input.Units * s.rate, an int64 product.
Amount(units, rate) == Wrap(units * rate)
=============================================================================
