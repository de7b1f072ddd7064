------------------------------- MODULE Money -------------------------------
(***************************************************************************)
(* The money value object of app/core/money.py: amounts are integers of    *)
(* minor units, and a currency says how many decimal places they stand     *)
(* for. A decimal is [units, places], the number units / 10^places.        *)
(* Currency codes are the upper-case ones __post_init__ normalises to.     *)
(***************************************************************************)
EXTENDS Integers, FiniteSets

CurrencyExponents ==
    [USD |-> 2, EUR |-> 2, GBP |-> 2, CAD |-> 2, AUD |-> 2, TRY |-> 2, AED |-> 2,
     SAR |-> 2, INR |-> 2, JPY |-> 0, BTC |-> 8, ETH |-> 8, USDT |-> 6]

IsSupportedCurrency(code) == code \in DOMAIN CurrencyExponents

(* __post_init__ accepts the integers of a supported currency. *)
MoneyOf(n, code) == [minor_units |-> n, currency |-> code]

(* Mutant of RoundHalfEven: a half is always rounded up. *)
RoundHalfUp(n, d) ==
    LET q == n \div d IN IF 2 * (n % d) < d THEN q ELSE q + 1

(* n / d quantized to an integer with ROUND_HALF_EVEN. *)
RoundHalfEven(n, d) ==
    LET q == n \div d
        r == n % d
    IN  IF 2 * r < d \/ (2 * r = d /\ q % 2 = 0) THEN q ELSE q + 1

(* 10^k, for the places of every currency and one more. *)
TenTo(k) == <<1, 10, 100, 1000, 10000, 100000, 1000000, 10000000, 100000000,
              1000000000>>[k + 1]

FromDecimal(x, code) ==
    MoneyOf(RoundHalfEven(x.units * TenTo(CurrencyExponents[code]), TenTo(x.places)), code)

(* Mutant of ToDecimal: every currency has cents. *)
ToCents(m) == [units |-> m.minor_units, places |-> 2]

ToDecimal(m) == [units |-> m.minor_units, places |-> CurrencyExponents[m.currency]]

-----------------------------------------------------------------------------
(* What rounding means, without quotients: the integers nearest to n / d,   *)
(* and of two equally near ones the even one.                               *)
Distance(k, n, d) == IF k * d > n THEN k * d - n ELSE n - k * d

NearestEven(n, d) ==
    LET around == (n \div d) - 1 .. (n \div d) + 2
        nearest == {k \in around : \A j \in around : Distance(k, n, d) =< Distance(j, n, d)}
    IN  CHOOSE k \in nearest : Cardinality(nearest) > 1 => k % 2 = 0
=============================================================================
