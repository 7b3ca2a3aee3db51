----------------------------- MODULE MCAudioAlign -----------------------------
(* Four frames of three samples that each start early, in time, late by    *)
(* less than a gap or by more, or at no known time.                        *)
EXTENDS AudioAlign

CONSTANTS none

Steps == {-6, 0, 6, 9, 16}

MCStamps ==
  {<<none, 20, 26, 32>>, <<20, none, 40, 46>>, <<20, 26, none, 50>>} \union
  {<<20, 20 + 6 + a, 20 + 12 + a + b, 20 + 18 + a + b + c>> : a \in Steps, b \in Steps, c \in Steps}
===============================================================================
