------------------------------ MODULE SigEncode ------------------------------
(***************************************************************************)
(* handler_withdraw's conversion of the DER signature returned by          *)
(* crypto_ecdsa_sign_sha256_hash_with_key into the 65-byte Bitcoin        *)
(* message-signature format (src/handler/withdraw.c).  W is the width of  *)
(* r and s (32 in the code); a DER integer takes 1..W+1 bytes, W+1 when a  *)
(* leading 0 keeps it positive.  The loops copy s, then r, right-aligned,  *)
(* walking backwards so that the pad byte of a (W+1)-byte s lands on the   *)
(* last cell of r (overwritten by the r loop) and that of r on cell 0      *)
(* (overwritten by the recovery byte).                                     *)
(*                                                                         *)
(* Arrays are C-indexed here: sig[0] is the DER tag, res[0] the header.    *)
(***************************************************************************)
EXTENDS Integers, Sequences

CONSTANTS
    W,           \* bytes of r and s
    Values,      \* r and s values the signer may return
    Garbage,     \* byte values an uninitialised or out-of-bounds read may give
    SignCanFail  \* crypto_ecdsa_sign_sha256_hash_with_key may fail

ASSUME WAssumption == W \in Nat \ {0}
\* The SEQUENCE length, at most 2 * (W + 1) + 4, has DER's one-byte short
\* form: the code reads r_length at the fixed offset sig[3] (70 for W = 32).
ASSUME ShortFormAssumption == 2 * (W + 1) + 4 <= 127
ASSUME ValuesAssumption == Values \subseteq 1..(256 ^ W - 1) /\ Values # {}
ASSUME GarbageAssumption == Garbage \subseteq 0..255 /\ Garbage # {}
ASSUME SignCanFailAssumption == SignCanFail \in BOOLEAN

VARIABLES
    r, s,      \* the signature's integers (inputs)
    parity,    \* CX_ECCINFO_PARITY_ODD in info
    signed,    \* sign_tx_hash succeeded and wrote sig
    sig,       \* uint8_t sig[MAX_DER_SIG_LEN]; Undef marks unwritten cells
    rl, sl,    \* r_length, s_length
    res,       \* result[0..2W]
    k,         \* loop index
    oob,       \* some read fell outside sig
    phase      \* "parse", "s", "r", "v", "done" or "bad"

vars == <<r, s, parity, signed, sig, rl, sl, res, k, oob, phase>>

Bytes == 0..255
Undef == -1

\* MAX_DER_SIG_LEN: SEQUENCE header, two INTEGER headers, two (W+1)-byte
\* integers (72 for W = 32).
MaxDerLen == 2 * (W + 1) + 6
SigCells == 0..MaxDerLen - 1

\* x as w big-endian bytes.
BE(x, w) == [j \in 1..w |-> (x \div 256 ^ (w - j)) % 256]

\* The fewest bytes that hold a positive x.
DerLen(x) == CHOOSE m \in 1..W : x < 256 ^ m /\ \A p \in 1..W : x < 256 ^ p => m <= p

\* Minimal DER INTEGER content of a positive x.
DerInt(x) ==
    LET b == BE(x, DerLen(x))
    IN  IF b[1] >= 128 THEN <<0>> \o b ELSE b

\* SEQUENCE { INTEGER r, INTEGER s } as the signer returns it.
Der(x, y) ==
    LET dr == DerInt(x)
        ds == DerInt(y)
        body == <<2, Len(dr)>> \o dr \o <<2, Len(ds)>> \o ds
    IN  <<48, Len(body)>> \o body

\* A C array view of a sequence.
CArray(q) == [j \in 0..Len(q) - 1 |-> q[j + 1]]

\* The values a read of sig[j] can give: the byte written there, or any
\* byte when the cell was never written or lies outside the array.
ReadSig(j) == IF j \in SigCells /\ sig[j] # Undef THEN {sig[j]} ELSE Garbage

\* Record a read of sig[j].
NoteRead(j) == oob' = (oob \/ j \notin SigCells)

Init ==
    /\ r \in Values
    /\ s \in Values
    /\ parity \in BOOLEAN
    /\ signed \in IF SignCanFail THEN BOOLEAN ELSE {TRUE}
    /\ sig = LET der == Der(r, s)
             IN  [j \in SigCells |-> IF signed /\ j < Len(der) THEN der[j + 1]
                                                             ELSE Undef]
    /\ rl = 0
    /\ sl = 0
    /\ res = [j \in 0..2 * W |-> 0]          \* memset(result, 0, ...)
    /\ k = 0
    /\ oob = FALSE
    /\ phase = "parse"

\* Mutant: the s loop starts at s_length instead of s_length - 1.
ParseLoopFromLength ==
    /\ phase = "parse"
    /\ \E a \in ReadSig(3) : \E b \in ReadSig(4 + a + 1) :
          /\ rl' = a
          /\ sl' = b
          /\ NoteRead(4 + a + 1)
          /\ IF a > W + 1 \/ b > W + 1
               THEN phase' = "bad" /\ UNCHANGED k
               ELSE phase' = "s" /\ k' = b
    /\ UNCHANGED <<r, s, parity, signed, sig, res>>

\* r_length = sig[3], s_length = sig[4 + r_length + 1] (read before
\* r_length is checked), and the check that neither exceeds W + 1.
Parse ==
    /\ phase = "parse"
    /\ \E a \in ReadSig(3) : \E b \in ReadSig(4 + a + 1) :
          /\ rl' = a
          /\ sl' = b
          /\ NoteRead(4 + a + 1)
          /\ IF a > W + 1 \/ b > W + 1
               THEN phase' = "bad" /\ UNCHANGED k
               ELSE phase' = "s" /\ k' = b - 1
    /\ UNCHANGED <<r, s, parity, signed, sig, res>>

\* Mutant: the destination offset of s computed with r_length.
SCopyUsesRLength ==
    /\ phase = "s"
    /\ k >= 0
    /\ \E b \in ReadSig(4 + rl + 2 + k) :
          res' = [res EXCEPT ![1 + 2 * W - rl + k] = b]
    /\ NoteRead(4 + rl + 2 + k)
    /\ k' = k - 1
    /\ UNCHANGED <<r, s, parity, signed, sig, rl, sl, phase>>

\* Mutant: s is read one byte too far, past its INTEGER header.
SCopyReadsPastS ==
    /\ phase = "s"
    /\ k >= 0
    /\ \E b \in ReadSig(4 + rl + 3 + k) :
          res' = [res EXCEPT ![1 + 2 * W - sl + k] = b]
    /\ NoteRead(4 + rl + 3 + k)
    /\ k' = k - 1
    /\ UNCHANGED <<r, s, parity, signed, sig, rl, sl, phase>>

\* result[1 + 32 + 32 - s_length + i] = sig[4 + r_length + 2 + i]
SCopy ==
    /\ phase = "s"
    /\ k >= 0
    /\ \E b \in ReadSig(4 + rl + 2 + k) :
          res' = [res EXCEPT ![1 + 2 * W - sl + k] = b]
    /\ NoteRead(4 + rl + 2 + k)
    /\ k' = k - 1
    /\ UNCHANGED <<r, s, parity, signed, sig, rl, sl, phase>>

SCopyDone ==
    /\ phase = "s"
    /\ k < 0
    /\ phase' = "r"
    /\ k' = rl - 1
    /\ UNCHANGED <<r, s, parity, signed, sig, rl, sl, res, oob>>

\* result[1 + 32 - r_length + i] = sig[4 + i]
RCopy ==
    /\ phase = "r"
    /\ k >= 0
    /\ \E b \in ReadSig(4 + k) :
          res' = [res EXCEPT ![1 + W - rl + k] = b]
    /\ NoteRead(4 + k)
    /\ k' = k - 1
    /\ UNCHANGED <<r, s, parity, signed, sig, rl, sl, phase>>

RCopyDone ==
    /\ phase = "r"
    /\ k < 0
    /\ phase' = "v"
    /\ UNCHANGED <<r, s, parity, signed, sig, rl, sl, res, k, oob>>

\* result[0] = 27 + 4 + parity
Header ==
    /\ phase = "v"
    /\ res' = [res EXCEPT ![0] = 27 + 4 + (IF parity THEN 1 ELSE 0)]
    /\ phase' = "done"
    /\ UNCHANGED <<r, s, parity, signed, sig, rl, sl, k, oob>>

Next == Parse \/ SCopy \/ SCopyDone \/ RCopy \/ RCopyDone \/ Header

Spec == Init /\ [][Next]_vars

-----------------------------------------------------------------------------
(* Properties *)

TypeOK ==
    /\ r \in Values /\ s \in Values
    /\ parity \in BOOLEAN /\ signed \in BOOLEAN /\ oob \in BOOLEAN
    /\ sig \in [SigCells -> Bytes \cup {Undef}]
    /\ rl \in Bytes /\ sl \in Bytes
    /\ res \in [0..2 * W -> Bytes]
    /\ k \in -1..W
    /\ phase \in {"parse", "s", "r", "v", "done", "bad"}

\* The 65-byte response built from a signature the signer returned is the
\* recovery header followed by r and s as W-byte big-endian integers,
\* whatever the DER lengths of r and s are (including the 33-byte forms
\* whose pad byte the loops must drop).
EncodingMatchesSignature ==
    phase = "done" /\ signed =>
        res = CArray(<<31 + (IF parity THEN 1 ELSE 0)>> \o BE(r, W) \o BE(s, W))

\* A DER integer placed right-aligned in a w-byte field: its last w bytes,
\* with zeros before a shorter one.
RightAlign(d, w) == [p \in 1..w |-> IF p > w - Len(d) THEN d[p - (w - Len(d))] ELSE 0]

\* The copy loops put r and s right-aligned in their W-byte fields of the
\* response, whatever their DER lengths: a short integer keeps the zeros of
\* the memset before it, and the pad byte of a (W+1)-byte integer is
\* dropped, the one of s by the r loop writing over it, the one of r by the
\* recovery header.
EncodingMatchesDer ==
    phase = "done" /\ signed =>
        res = CArray(<<31 + (IF parity THEN 1 ELSE 0)>>
                     \o RightAlign(DerInt(r), W) \o RightAlign(DerInt(s), W))

\* The conversion reads only inside sig[MAX_DER_SIG_LEN]: the index of
\* s_length, computed from r_length before r_length is checked, and every
\* index of the two copy loops stay within the array.
ReadsWithinSig == ~oob

=============================================================================
