---------------------------- MODULE NumericCodec ----------------------------
(***************************************************************************)
(* DECIMAL and TIMESTAMP in the binary format of PostgreSQL.               *)
(*                                                                         *)
(* A NUMERIC is a sequence of digits in base NBASE (DecDigits decimal      *)
(* digits each), the weight of the first one, a sign and the number of     *)
(* decimal digits after the point.  DuckDB keeps a DECIMAL(width, scale)   *)
(* as an integer of type T, here of Bits bits, that is its value times     *)
(* 10^scale, and computes in T.  Timestamps are counted from different     *)
(* epochs.  The numbers are smaller than in the code, where DEC_DIGITS is  *)
(* 4, and T has 9 digits in 32 bits, 18 in 64 and 38 in 128.               *)
(***************************************************************************)
EXTENDS Integers, Sequences, SequencesExt

CONSTANTS
  DecDigits,   \* DEC_DIGITS
  Bits,        \* bits of T
  EpochDiff,   \* POSTGRES_EPOCH - DUCKDB_EPOCH
  ServerMin,   \* POSTGRES_MIN_TIMESTAMP
  ServerEnd    \* POSTGRES_END_TIMESTAMP

MaxInt == 2 ^ (Bits - 1) - 1    \* as infinity, also of TIMESTAMP

ASSUME CodecAssumption ==
  /\ DecDigits \in Nat \ {0} /\ Bits \in Nat \ {0, 1} /\ EpochDiff \in Nat
  /\ ServerMin \in Int /\ ServerEnd \in Int
  /\ -MaxInt < ServerMin /\ ServerMin < ServerEnd /\ ServerEnd <= MaxInt

NBase == 10 ^ DecDigits

\* Two's complement, and the division of C++.
Narrow(x)  == ((x + MaxInt + 1) % (2 * (MaxInt + 1))) - (MaxInt + 1)
Div(a, b)  == IF a < 0 THEN -((-a) \div b) ELSE a \div b
Rem(a, b)  == a - b * Div(a, b)
Unsigned16(x) == x % 65536

Magnitude(x) == IF x < 0 THEN -x ELSE x
Larger(a, b) == IF a > b THEN a ELSE b

\* How many digits in base NBASE n has; 0 has none.
DigitsOf(n) == CHOOSE k \in 0 .. Bits : n < NBase ^ k /\ (k = 0 \/ n >= NBase ^ (k - 1))

-------------------------------------------------------------------------------
(* DECIMAL.                                                                *)

\* Always as many digits as the scale takes, with the fraction aligned to the left.
WriteDecimal(value, scale) ==
  LET v          == Magnitude(value)
      integral   == v \div 10 ^ scale
      nIntegral  == DigitsOf(integral)
      nFraction  == (scale + DecDigits - 1) \div DecDigits
      correction == nFraction * DecDigits - scale
      fraction   == Narrow((v % 10 ^ scale) * 10 ^ correction)
  IN [weight |-> nIntegral - 1, negative |-> value < 0, scale |-> scale,
      digits |-> [i \in 1 .. nIntegral |-> (integral \div NBase ^ (nIntegral - i)) % NBase]
                 \o [i \in 1 .. nFraction |->
                       Unsigned16(Rem(Div(fraction, NBase ^ (nFraction - i)), NBase))]]

\* numeric_send: without leading and trailing zero digits.
NumericSend(value, scale) ==
  LET v         == Magnitude(value)
      nFraction == (scale + DecDigits - 1) \div DecDigits
      aligned   == v * 10 ^ (nFraction * DecDigits - scale)
      n         == DigitsOf(aligned)
      trailing  == CHOOSE k \in 0 .. n : /\ aligned % NBase ^ k = 0
                                         /\ k = n \/ aligned % NBase ^ (k + 1) # 0
  IN [weight |-> IF v = 0 THEN 0 ELSE n - nFraction - 1, negative |-> value < 0, scale |-> scale,
      digits |-> [i \in 1 .. n - trailing |-> (aligned \div NBase ^ (n - i)) % NBase]]

\* Mutant: trailing zeroes the server has suppressed are not made up for.
ReadFractionAsSent(d) ==
  FoldSeq(LAMBDA digit, part : Narrow(part * NBase + digit), 0,
          SubSeq(d.digits, Larger(0, d.weight + 1) + 1, Len(d.digits)))

\* The digits after the point: the last one makes up for the digits that are not there,
\* or that the scale cuts off.
ReadFraction(d) ==
  LET n       == Len(d.digits)
      first   == Larger(0, d.weight + 1)
      correction == (n - d.weight - 1) * DecDigits - d.scale
      power   == Narrow(10 ^ Magnitude(correction))
      Scaled(x) == IF correction >= 0 THEN Div(x, power) ELSE Narrow(x * power)
      part[i \in first .. n] ==
        IF i = first THEN 0
        ELSE IF i < n THEN Narrow(part[i - 1] * NBase + d.digits[i])
        ELSE Narrow(part[i - 1] * Scaled(NBase) + Scaled(d.digits[i]))
  IN part[n]

ReadIntegral(d) ==
  LET part[i \in 0 .. d.weight] ==
        LET digit == IF i < Len(d.digits) THEN d.digits[i + 1] ELSE 0
        IN IF i = 0 THEN digit ELSE Narrow(part[i - 1] * NBase + digit)
  IN Narrow(part[d.weight] * 10 ^ d.scale)

ReadDecimal(d) ==
  LET integral == IF d.weight >= 0 THEN ReadIntegral(d) ELSE 0
      fraction == IF Len(d.digits) > d.weight + 1 THEN ReadFraction(d) ELSE 0
      value    == IF d.digits = <<>> THEN 0 ELSE Narrow(integral + fraction)
  IN IF d.negative THEN -value ELSE value

-------------------------------------------------------------------------------
(* TIMESTAMP.  The last of its integers is infinity.                       *)

Overflows(x) == x > MaxInt \/ x < -MaxInt - 1

\* DuckDBTimestampToPostgres throws for what the server does
\* not have.
WritesTimestamp(value) ==
  Magnitude(value) = MaxInt \/ (value - EpochDiff >= ServerMin /\ value - EpochDiff < ServerEnd)

\* -infinity is the smallest integer for the server, the next one for DuckDB.
WriteTimestamp(value) ==
  CASE value = MaxInt  -> MaxInt
    [] value = -MaxInt -> -MaxInt - 1
    [] OTHER           -> value - EpochDiff

\* ReadTimestamp throws for what is not finite in DuckDB.
ReadsTimestamp(usec) ==
  \/ usec \in {MaxInt, -MaxInt - 1}
  \/ ~Overflows(usec + EpochDiff) /\ Magnitude(usec + EpochDiff) < MaxInt

ReadTimestamp(usec) ==
  CASE usec = MaxInt      -> MaxInt
    [] usec = -MaxInt - 1 -> -MaxInt
    [] OTHER              -> usec + EpochDiff
===============================================================================
