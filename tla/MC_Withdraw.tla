----------------------------- MODULE MC_Withdraw -----------------------------
(* Model values for checking Withdraw with TLC. *)
EXTENDS Withdraw

CONSTANTS c1, c2

\* Two chunk contents: c1 carries a redeemer script of the signing key, c2
\* one that check_address rejects.
MCContent == {c1, c2}
MCOwnScripts == {c1}
=============================================================================
