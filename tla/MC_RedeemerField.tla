--------------------------- MODULE MC_RedeemerField ---------------------------
(* Every value of the u16 length field.  size_t is 32 bits on the device; *)
(* TLC's integers stop below 2^31, so a 16-bit size_t is used: the       *)
(* subtraction wraps the same way at every width.                          *)
EXTENDS RedeemerField

MCLenFields == 0..65535
=============================================================================
