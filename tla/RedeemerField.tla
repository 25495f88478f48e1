---------------------------- MODULE RedeemerField ----------------------------
(***************************************************************************)
(* How display_data_content_and_confirm (src/handler/withdraw.c) locates   *)
(* the redeemer output script in chunk 10 before handing it to the script  *)
(* decoder: the big-endian u16 at bytes [30, 32) is the length, clamped to *)
(* 32; the script starts at byte 33 (CHUNK_SECOND_PART + 1) and the        *)
(* decoder is given length - 1 bytes, computed in size_t.                  *)
(***************************************************************************)
EXTENDS Naturals

CONSTANTS
    SizeWidth,   \* bits of size_t (32 on the device)
    LenFields    \* values of the u16 length field the host may commit to

VARIABLES
    lenField,    \* read_u16_be(data_chunk, 30)
    len,         \* len_redeemer_output_script
    count,       \* the length argument of get_script_type/get_script_address
    pc           \* "read" or "decode"

vars == <<lenField, len, count, pc>>

ChunkSize == 64            \* CHUNK_SIZE_IN_BYTES
ScriptOffset == 32 + 1     \* CHUNK_SECOND_PART + 1

Init ==
    /\ lenField \in LenFields
    /\ len = lenField
    /\ count = 0
    /\ pc = "read"

\* The clamp of the length and the size_t subtraction handed to the decoder.
Locate ==
    /\ pc = "read"
    /\ len' = IF len > 32 THEN 32 ELSE len
    /\ count' = (len' + 2 ^ SizeWidth - 1) % 2 ^ SizeWidth
    /\ pc' = "decode"
    /\ UNCHANGED lenField

Next == Locate

Spec == Init /\ [][Next]_vars

-----------------------------------------------------------------------------
TypeOK ==
    /\ lenField \in LenFields
    /\ len \in 0..65535
    /\ count \in 0..2 ^ SizeWidth - 1
    /\ pc \in {"read", "decode"}

\* Spec 3 (Field Decoder): the decoder is given the script that follows the
\* length byte, inside the 64-byte chunk: the slice [33, 33 + count) that
\* get_script_type and get_script_address read lies within data_chunk.
ScriptSliceWithinChunk ==
    pc = "decode" => ScriptOffset + count <= ChunkSize

=============================================================================
