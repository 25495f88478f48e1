----------------------------- MODULE MC_SigEncode -----------------------------
(* Two-byte r and s.  The values give DER integers of one byte, of two     *)
(* bytes, and of three bytes (a high top bit forces the 0 pad), including  *)
(* the largest and smallest of each length.  The garbage bytes stand for   *)
(* the classes the code tells apart: a length that passes the check (0,    *)
(* W + 1), one that fails it but keeps the s_length read inside sig        *)
(* (W + 2), and one that sends it past the end (255).                      *)
EXTENDS SigEncode

MCValues == {1, 127, 128, 255, 256, 32767, 32768, 65535}
MCGarbage == {0, 3, 4, 255}
=============================================================================
