----------------------------- MODULE MCAirdata -----------------------------
(* A finite instance of Airdata: a trail of two balls, filters of two lengths. *)
EXTENDS Airdata

Good == [alpha |-> "number", beta |-> "number", q |-> "positive", p |-> "positive",
         t |-> "number"]

\* A sample with an angle that is NaN, or without one.
Angles == {Good, [Good EXCEPT !.alpha = "NaN"], [Good EXCEPT !.beta = "NaN"]}

\* Samples with fields that are not what they should be, of which each disturbs
\* some of the values computed and leaves others good: a speed, two or none is
\* infinite or NaN, the altitude is a number, infinite or NaN.  An empty field
\* for the pressure is read as zero.
Fields ==
    {Good, [Good EXCEPT !.alpha = "NaN", !.t = "NaN"], [Good EXCEPT !.p = "zero"],
     [Good EXCEPT !.q = "inf", !.p = "NaN"], [Good EXCEPT !.q = "negative", !.p = "-inf"]}
=============================================================================
