------------------------------ MODULE Decimal ------------------------------
(***************************************************************************)
(* Fixed-point decimals.  A decimal is the integer of its last place: with *)
(* Places = 2 the integer 150 is 1.50.  A text is a sign, the number       *)
(* before the point and the digits behind it.                              *)
(***************************************************************************)
EXTENDS Integers, Sequences, FiniteSetsExt, SequencesExt

CONSTANT Places   \* Precision, 18 in the code

ASSUME DecimalAssumption == Places \in Nat \ {0}

\* Powers of ten.
TenTo[n \in Nat] == IF n = 0 THEN 1 ELSE 10 * TenTo[n - 1]

Unit == TenTo[Places]

Magnitude(x) == IF x < 0 THEN -x ELSE x

\* big.Int's Div: the remainder is never negative.
Quotient(a, b) == IF b > 0 THEN a \div b ELSE -(a \div (-b))

Times(x, y) == Quotient(x * y, Unit)

Over(x, y) == IF y = 0 THEN 0 ELSE Quotient(x * Unit, y)

Remainder(x, y) == IF y = 0 THEN 0 ELSE x - y * Quotient(x, y)

Number(digits) == FoldLeft(LAMBDA n, d : 10 * n + d, 0, digits)

Digits(n) == [i \in 1 .. Places |-> (n \div TenTo[Places - i]) % 10]

\* Trailing zeros go.
Trimmed(digits) ==
    SubSeq(digits, 1, Max({0} \cup {i \in DOMAIN digits : digits[i] # 0}))

\* Mutant: zeros go at the other end too.
FormatStripped(x) ==
    LET digits == Trimmed(Digits(Magnitude(x) % Unit))
        zeros == Max({0} \cup {i \in DOMAIN digits : \A j \in 1 .. i : digits[j] = 0})
    IN  [negative |-> x < 0, int |-> Magnitude(x) \div Unit,
         frac |-> SubSeq(digits, zeros + 1, Len(digits))]

\* String; Value writes it to the database.
Format(x) ==
    [negative |-> x < 0, int |-> Magnitude(x) \div Unit,
     frac |-> Trimmed(Digits(Magnitude(x) % Unit))]

\* One more in the last place; digits that are all nines stay as they are.
RoundedUp(digits) ==
    LET k == Max({0} \cup {i \in DOMAIN digits : digits[i] < 9})
    IN  IF k = 0 THEN digits
        ELSE [i \in DOMAIN digits |->
                IF i < k THEN digits[i] ELSE IF i = k THEN digits[i] + 1 ELSE 0]

\* NewFromString, of a plain number: digits, with one sign before and one point
\* within.  Scan reads the database with it.
Parse(text) ==
    LET kept == IF Len(text.frac) <= Places THEN text.frac
                ELSE IF text.frac[Places + 1] >= 5 THEN RoundedUp(SubSeq(text.frac, 1, Places))
                ELSE SubSeq(text.frac, 1, Places)
        x == text.int * Unit + Number(kept) * TenTo[Places - Len(kept)]
    IN  IF text.negative THEN -x ELSE x
=============================================================================
