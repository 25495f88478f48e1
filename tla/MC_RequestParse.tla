--------------------------- MODULE MC_RequestParse ---------------------------
(* Two path steps instead of ten: path lengths up to two past the bound,   *)
(* and every request size up to one that holds the longest such path with  *)
(* the longest varint and the root.                                        *)
EXTENDS RequestParse

MCPathLens == 0..4
MCSizes == 0..(1 + 4 * 4 + 9 + 32)
=============================================================================
