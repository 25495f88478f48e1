--------------------------- MODULE MC_AmountDisplay ---------------------------
(* Small instance of AmountDisplay: two decimals instead of 18, amounts up *)
(* to 10.01 so that zero, fractions and whole amounts ending in 0 occur,   *)
(* and a buffer two or three cells longer than the longest string.         *)
EXTENDS AmountDisplay

MCAmounts == 0..1001
=============================================================================
