------------------------------ MODULE Amounts ------------------------------
(***************************************************************************)
(* An amount on its way from a request through arithmetic to a NUMERIC     *)
(* column of the database and back.                                        *)
(***************************************************************************)
EXTENDS Decimal

CONSTANTS
    Texts,      \* what requests contain
    Factors,    \* decimals that amounts are multiplied with and divided by
    Largest     \* bound: magnitude of an amount

\* Texts are plain numbers.  NewFromString takes some others as well, with a
\* second sign or one after the point ("--5", "1.-5"): they are not modelled.
ASSUME AmountsAssumption ==
    /\ Texts \subseteq [negative : BOOLEAN, int : Nat, frac : Seq(0 .. 9)]
    /\ Factors \subseteq Int

VARIABLES
    amount,     \* the decimal in memory
    text,       \* the request's text, or what the column holds
    stage       \* "read", "held", "stored", "loaded"

amountVars == <<amount, text, stage>>

AmountsInit ==
    /\ text \in Texts
    /\ amount = 0 /\ stage = "read"

ReadRequest ==
    /\ stage = "read"
    /\ amount' = Parse(text)
    /\ stage' = "held"
    /\ text' = Format(0)

Compute ==
    /\ stage \in {"held", "loaded"}
    /\ \E f \in Factors : amount' \in {Times(amount, f), Over(amount, f), Remainder(amount, f),
                                       amount + f, amount - f}
    /\ Magnitude(amount') <= Largest
    /\ stage' = "held"
    /\ text' = Format(0)

Store ==
    /\ stage = "held"
    /\ text' = Format(amount)
    /\ stage' = "stored"
    /\ UNCHANGED amount

Load ==
    /\ stage = "stored"
    /\ amount' = Parse(text)
    /\ stage' = "loaded"
    /\ UNCHANGED text

AmountsNext == ReadRequest \/ Compute \/ Store \/ Load

AmountsSpec == AmountsInit /\ [][AmountsNext]_amountVars

(***************************************************************************)
(* Properties.                                                             *)
(***************************************************************************)
\* What a text is and what a decimal is, both in units of the last digit that
\* either of them writes.
Scale(t) == TenTo[Max({Len(t.frac), Places})]
Written(t) ==
    LET n == (t.int * TenTo[Len(t.frac)] + Number(t.frac)) * (Scale(t) \div TenTo[Len(t.frac)])
    IN  IF t.negative THEN -n ELSE n
TakenFor(t, x) == x * (Scale(t) \div Unit)

\* Rounding up would carry into the whole number.
Carries(t) ==
    Len(t.frac) > Places /\ t.frac[Places + 1] >= 5 /\ \A i \in 1 .. Places : t.frac[i] = 9

\* An amount that was stored is read back as it was; and a request's amount is
\* taken for what was written to half of the last place that is kept, unless
\* rounding would carry into the whole number: then it is cut, and off by less
\* than that place.
AmountsKept ==
    [][/\ stage = "stored" => amount' = amount
       /\ stage = "read" =>
            LET off == Magnitude(TakenFor(text, amount') - Written(text))
                place == Scale(text) \div Unit
            IN  IF Carries(text) THEN off < place ELSE 2 * off <= place]_amountVars
=============================================================================
