--------------------------- MODULE SigEncodeProofs ---------------------------
(***************************************************************************)
(* Proof that, when crypto_ecdsa_sign_sha256_hash_with_key succeeds, the   *)
(* signature conversion of handler_withdraw reads only inside              *)
(* sig[MAX_DER_SIG_LEN], for every width W of r and s: r_length and        *)
(* s_length are the DER lengths, at most W + 1, so the read of s_length    *)
(* at 4 + r_length + 1 and both copy loops stay within the DER encoding;   *)
(* and that the loops leave the DER integers of r and s right-aligned in   *)
(* their W-byte fields behind the header (ResInv tracks result through     *)
(* each iteration).                                                        *)
(***************************************************************************)
EXTENDS SigEncode, SequenceTheorems, WellFoundedInduction, TLAPS

\* The contents of sig after a successful signature.
SignedSig == LET der == Der(r, s)
             IN  [j \in SigCells |-> IF j < Len(der) THEN der[j + 1] ELSE Undef]

\* The DER lengths of r and s.
RLen == Len(DerInt(r))
SLen == Len(DerInt(s))

\* The conversion of a successful signature is never out of bounds: it
\* parses the DER lengths, and each copy loop counts down from one below
\* its length.
SInv ==
    /\ r \in Values /\ s \in Values /\ signed = TRUE /\ sig = SignedSig
    /\ phase \in {"parse", "s", "r", "v", "done"}
    /\ phase # "parse" => rl = RLen /\ sl = SLen
    /\ phase = "s" => k \in -1..sl - 1
    /\ phase = "r" => k \in -1..rl - 1
    /\ ~oob

\* The DER integers of r and s.
DR == DerInt(r)
DS == DerInt(s)

\* result after the s loop has copied the bytes of s above index kk: the
\* s integer right-aligned at the end of the array, zeros elsewhere.
AfterS(kk) ==
    [p \in 0..2 * W |-> IF p > 2 * W - SLen + 1 + kk THEN DS[p - (2 * W - SLen)]
                                                     ELSE 0]

\* result after the r loop has also copied the bytes of r above index kk,
\* right-aligned at index W, over whatever the s loop left there.
AfterR(kk) ==
    [p \in 0..2 * W |-> IF p > W - RLen + 1 + kk /\ p <= W
                          THEN DR[p - (W - RLen)]
                          ELSE AfterS(-1)[p]]

\* The header byte.
HeaderByte == 31 + (IF parity THEN 1 ELSE 0)

\* What result holds at each point of the conversion.
ResInv ==
    /\ phase = "parse" => res = [p \in 0..2 * W |-> 0]
    /\ phase = "s" => res = AfterS(k)
    /\ phase = "r" => res = AfterR(k)
    /\ phase = "v" => res = AfterR(-1)
    /\ phase = "done" => res = [AfterR(-1) EXCEPT ![0] = HeaderByte]

\* TypeOK with the loop bounds it needs to be inductive: once parsed, both
\* lengths passed the check, and each loop index stays below its length.
TInv ==
    /\ TypeOK
    /\ phase \in {"s", "r", "v", "done"} => rl \in 0..W + 1 /\ sl \in 0..W + 1
    /\ phase = "s" => k \in -1..sl - 1
    /\ phase = "r" => k \in -1..rl - 1

-----------------------------------------------------------------------------
\* Every byte of a big-endian encoding is a byte.
LEMMA BESeq ==
    ASSUME NEW x \in Int, NEW w \in Nat
    PROVE  BE(x, w) \in Seq(Bytes) /\ Len(BE(x, w)) = w
<1>1. \A j \in 1..w : (x \div 256 ^ (w - j)) % 256 \in Bytes
  BY DEF Bytes
<1>2. QED
  BY <1>1 DEF BE

\* The minimal DER length exists: the least m in 1..W with x < 256^m.
LEMMA MinimalLength ==
    ASSUME NEW x \in Values
    PROVE  \E m \in 1..W : x < 256 ^ m /\ \A p \in 1..W : x < 256 ^ p => m <= p
<1> DEFINE T == {m \in 1..W : x < 256 ^ m}
<1>1. W \in T
  BY ValuesAssumption, WAssumption
<1>2. T \subseteq Nat /\ T # {}
  BY <1>1
<1>3. PICK m \in T : \A p \in T : ~(<<p, m>> \in OpToRel(<, Nat))
  BY <1>2, NatLessThanWellFounded, WFMin
<1>4. \A p \in T : ~(p < m)
  <2> TAKE p \in T
  <2>1. p \in Nat /\ m \in Nat
    BY <1>2
  <2>2. p < m => <<p, m>> \in OpToRel(<, Nat)
    BY <2>1, Zenon DEF OpToRel
  <2>3. QED
    BY <1>3, <2>2
<1>5. QED
  BY <1>4

\* A DER integer of a W-byte value takes 1..W+1 bytes.
LEMMA DerIntLen ==
    ASSUME NEW x \in Values
    PROVE  DerInt(x) \in Seq(Bytes) /\ Len(DerInt(x)) \in 1..W + 1
<1>1. DerLen(x) \in 1..W
  BY MinimalLength DEF DerLen
<1>2. x \in Int
  BY ValuesAssumption
<1>3. BE(x, DerLen(x)) \in Seq(Bytes) /\ Len(BE(x, DerLen(x))) = DerLen(x)
  BY <1>1, <1>2, BESeq
<1>4. <<0>> \in Seq(Bytes) /\ Len(<<0>>) = 1
  BY DEF Bytes
<1>5. /\ <<0>> \o BE(x, DerLen(x)) \in Seq(Bytes)
      /\ Len(<<0>> \o BE(x, DerLen(x))) = DerLen(x) + 1
  BY <1>3, <1>4, ConcatProperties
<1>6. CASE BE(x, DerLen(x))[1] >= 128
  <2>1. DerInt(x) = <<0>> \o BE(x, DerLen(x))
    BY <1>6 DEF DerInt
  <2>2. DerInt(x) \in Seq(Bytes) /\ Len(DerInt(x)) = DerLen(x) + 1
    BY <1>5, <2>1
  <2>3. DerLen(x) + 1 \in 1..W + 1
    BY <1>1, WAssumption
  <2>4. QED
    BY <2>2, <2>3
<1>7. CASE ~(BE(x, DerLen(x))[1] >= 128)
  <2>1. DerInt(x) = BE(x, DerLen(x))
    BY <1>7 DEF DerInt
  <2>2. DerInt(x) \in Seq(Bytes) /\ Len(DerInt(x)) = DerLen(x)
    BY <1>3, <2>1
  <2>3. DerLen(x) \in 1..W + 1
    BY <1>1, WAssumption
  <2>4. QED
    BY <2>2, <2>3
<1>8. QED
  BY <1>6, <1>7

\* Concatenation keeps the first part in place and shifts the second by
\* the first one's length.
LEMMA ConcatSplit ==
    ASSUME NEW s1 \in Seq(Nat), NEW s2 \in Seq(Nat)
    PROVE  /\ s1 \o s2 \in Seq(Nat)
           /\ Len(s1 \o s2) = Len(s1) + Len(s2)
           /\ \A i \in 1..Len(s1) : (s1 \o s2)[i] = s1[i]
           /\ \A j \in 1..Len(s2) : (s1 \o s2)[Len(s1) + j] = s2[j]
<1>1. /\ s1 \o s2 \in Seq(Nat)
      /\ Len(s1 \o s2) = Len(s1) + Len(s2)
      /\ \A i \in 1..Len(s1) + Len(s2) : (s1 \o s2)[i] =
                     IF i <= Len(s1) THEN s1[i] ELSE s2[i - Len(s1)]
  BY ConcatProperties
<1>2. \A i \in 1..Len(s1) : (s1 \o s2)[i] = s1[i]
  BY <1>1
<1>3. \A j \in 1..Len(s2) : (s1 \o s2)[Len(s1) + j] = s2[j]
  BY <1>1
<1>4. QED
  BY <1>1, <1>2, <1>3

\* A two-byte DER header (tag, length) put in front of a byte string.
LEMMA PairConcat ==
    ASSUME NEW a \in Nat, NEW b \in Nat, NEW t \in Seq(Nat)
    PROVE  /\ <<a, b>> \o t \in Seq(Nat)
           /\ Len(<<a, b>> \o t) = 2 + Len(t)
           /\ (<<a, b>> \o t)[2] = b
           /\ \A j \in 1..Len(t) : (<<a, b>> \o t)[2 + j] = t[j]
<1>1. <<a, b>> \in Seq(Nat) /\ Len(<<a, b>>) = 2
  OBVIOUS
<1>2. QED
  BY <1>1, ConcatProperties

\* The byte layout of SEQUENCE { INTEGER, INTEGER } for any two integer
\* encodings: tags and lengths at fixed offsets, the integers' bytes after.
LEMMA DerShape ==
    ASSUME NEW dr \in Seq(Nat), NEW ds \in Seq(Nat)
    PROVE  LET body == <<2, Len(dr)>> \o dr \o <<2, Len(ds)>> \o ds
               d == <<48, Len(body)>> \o body
           IN  /\ d \in Seq(Nat)
               /\ Len(d) = 6 + Len(dr) + Len(ds)
               /\ d[4] = Len(dr)
               /\ d[6 + Len(dr)] = Len(ds)
               /\ \A q \in 1..Len(dr) : d[4 + q] = dr[q]
               /\ \A q \in 1..Len(ds) : d[6 + Len(dr) + q] = ds[q]
<1> DEFINE lr == Len(dr)
           ls == Len(ds)
           b1 == <<2, lr>> \o dr
           b2 == b1 \o <<2, ls>>
           body == b2 \o ds
           d == <<48, Len(body)>> \o body
<1>1. lr \in Nat /\ ls \in Nat
  OBVIOUS
<1>2. /\ b1 \in Seq(Nat) /\ Len(b1) = 2 + lr /\ b1[2] = lr
      /\ \A q \in 1..lr : b1[2 + q] = dr[q]
  BY <1>1, PairConcat
<1>3. /\ b2 \in Seq(Nat) /\ Len(b2) = 4 + lr /\ b2[2] = lr /\ b2[4 + lr] = ls
      /\ \A q \in 1..lr : b2[2 + q] = dr[q]
  <2>1. <<2, ls>> \in Seq(Nat) /\ Len(<<2, ls>>) = 2 /\ <<2, ls>>[2] = ls
    BY <1>1
  <2> HIDE DEF b1
  <2>2. /\ b2 \in Seq(Nat) /\ Len(b2) = 4 + lr
        /\ \A i \in 1..Len(b1) : b2[i] = b1[i]
        /\ b2[Len(b1) + 2] = ls
    BY <1>2, <2>1, ConcatSplit
  <2>3. QED
    BY <1>1, <1>2, <2>2
<1>4. /\ body \in Seq(Nat) /\ Len(body) = 4 + lr + ls
      /\ body[2] = lr /\ body[4 + lr] = ls
      /\ \A q \in 1..lr : body[2 + q] = dr[q]
      /\ \A q \in 1..ls : body[4 + lr + q] = ds[q]
  <2> HIDE DEF b2
  <2>1. /\ body \in Seq(Nat) /\ Len(body) = Len(b2) + ls
        /\ \A i \in 1..Len(b2) : body[i] = b2[i]
        /\ \A j \in 1..ls : body[Len(b2) + j] = ds[j]
    BY <1>3, ConcatSplit, Zenon
  <2>2. QED
    BY <1>1, <1>3, <2>1
<1> HIDE DEF body
<1>5. /\ d \in Seq(Nat) /\ Len(d) = 2 + Len(body)
      /\ \A j \in 1..Len(body) : d[2 + j] = body[j]
  <2>1. 48 \in Nat /\ Len(body) \in Nat
    BY <1>4
  <2>2. QED
    BY <1>4, <2>1, PairConcat, Zenon
<1> HIDE DEF d
<1>6. \A j \in 1..4 + lr + ls : d[2 + j] = body[j]
  BY <1>4, <1>5
<1>7. d[4] = lr /\ d[6 + lr] = ls
  <2>1. 2 \in 1..4 + lr + ls /\ 4 + lr \in 1..4 + lr + ls
    BY <1>1
  <2>2. d[2 + 2] = body[2] /\ d[2 + (4 + lr)] = body[4 + lr]
    BY <1>6, <2>1
  <2>3. QED
    BY <1>1, <1>4, <2>2
<1>8. \A q \in 1..lr : d[4 + q] = dr[q]
  <2>1. SUFFICES ASSUME NEW q \in 1..lr PROVE d[4 + q] = dr[q]
    OBVIOUS
  <2>2. 2 + q \in 1..4 + lr + ls /\ 2 + (2 + q) = 4 + q
    BY <1>1
  <2>3. d[4 + q] = body[2 + q]
    BY <1>6, <2>2
  <2>4. QED
    BY <2>3, <1>4
<1>9. \A q \in 1..ls : d[6 + lr + q] = ds[q]
  <2>1. SUFFICES ASSUME NEW q \in 1..ls PROVE d[6 + lr + q] = ds[q]
    OBVIOUS
  <2>2. 4 + lr + q \in 1..4 + lr + ls /\ 2 + (4 + lr + q) = 6 + lr + q
    BY <1>1
  <2>3. d[6 + lr + q] = body[4 + lr + q]
    BY <1>6, <2>2
  <2>4. QED
    BY <2>3, <1>4
<1>10. d \in Seq(Nat) /\ Len(d) = 6 + lr + ls
  BY <1>1, <1>4, <1>5
<1>11. QED
  BY <1>7, <1>8, <1>9, <1>10, Zenon DEF d, body, b2, b1

\* Where handler_withdraw finds the lengths in the signer's DER output:
\* r_length at byte 3, s_length at byte 4 + r_length + 1 (C indices), and
\* the whole encoding is 6 + r_length + s_length bytes.
LEMMA DerLayout ==
    ASSUME NEW x \in Values, NEW y \in Values
    PROVE  /\ Der(x, y) \in Seq(Nat)
           /\ Len(Der(x, y)) = 6 + Len(DerInt(x)) + Len(DerInt(y))
           /\ Der(x, y)[4] = Len(DerInt(x))
           /\ Der(x, y)[6 + Len(DerInt(x))] = Len(DerInt(y))
           /\ \A q \in 1..Len(DerInt(x)) : Der(x, y)[4 + q] = DerInt(x)[q]
           /\ \A q \in 1..Len(DerInt(y)) :
                 Der(x, y)[6 + Len(DerInt(x)) + q] = DerInt(y)[q]
<1>1. DerInt(x) \in Seq(Nat) /\ DerInt(y) \in Seq(Nat)
  <2>1. DerInt(x) \in Seq(Bytes) /\ DerInt(y) \in Seq(Bytes)
    BY DerIntLen
  <2>2. Bytes \subseteq Nat
    BY DEF Bytes
  <2>3. QED
    BY <2>1, <2>2, SeqMonotonic
<1>2. QED
  BY <1>1, DerShape DEF Der

\* What the parse reads from a successful signature: byte 3 holds the DER
\* length of r, byte 4 + r_length + 1 that of s, both inside sig.
LEMMA SignedSigFacts ==
    ASSUME r \in Values, s \in Values, sig = SignedSig
    PROVE  /\ RLen \in 1..W + 1 /\ SLen \in 1..W + 1
           /\ 3 \in SigCells /\ sig[3] = RLen
           /\ 5 + RLen \in SigCells /\ sig[5 + RLen] = SLen
<1>1. /\ Len(Der(r, s)) = 6 + RLen + SLen
      /\ Der(r, s)[4] = RLen
      /\ Der(r, s)[6 + RLen] = SLen
  BY DerLayout DEF RLen, SLen
<1>2. RLen \in 1..W + 1 /\ SLen \in 1..W + 1
  BY DerIntLen DEF RLen, SLen
<1>3. 3 \in SigCells /\ 5 + RLen \in SigCells
  BY <1>2, WAssumption DEF SigCells, MaxDerLen
<1>4. 3 < Len(Der(r, s)) /\ 5 + RLen < Len(Der(r, s))
  BY <1>1, <1>2
<1>5. QED
  BY <1>1, <1>2, <1>3, <1>4 DEF SignedSig

\* What the copy loops read from a successful signature: the bytes of the
\* DER integer of r from sig[4], those of s from sig[4 + r_length + 2].
LEMMA SignedSigBytes ==
    ASSUME r \in Values, s \in Values, sig = SignedSig
    PROVE  /\ DR \in Seq(Bytes) /\ DS \in Seq(Bytes)
           /\ \A q \in 0..RLen - 1 : ReadSig(4 + q) = {DR[q + 1]}
           /\ \A q \in 0..SLen - 1 : ReadSig(4 + RLen + 2 + q) = {DS[q + 1]}
<1>1. /\ Len(Der(r, s)) = 6 + RLen + SLen
      /\ \A q \in 1..RLen : Der(r, s)[4 + q] = DR[q]
      /\ \A q \in 1..SLen : Der(r, s)[6 + RLen + q] = DS[q]
  BY DerLayout DEF RLen, SLen, DR, DS
<1>2. /\ DR \in Seq(Bytes) /\ DS \in Seq(Bytes)
      /\ RLen \in 1..W + 1 /\ SLen \in 1..W + 1
      /\ RLen = Len(DR) /\ SLen = Len(DS)
  BY DerIntLen DEF RLen, SLen, DR, DS
<1>3. \A j \in SigCells : j < Len(Der(r, s)) => sig[j] = Der(r, s)[j + 1]
  BY DEF SignedSig
<1>4. ASSUME NEW q \in 0..RLen - 1 PROVE ReadSig(4 + q) = {DR[q + 1]}
  <2>1. 4 + q \in SigCells /\ 4 + q < Len(Der(r, s))
    BY <1>1, <1>2, WAssumption DEF SigCells, MaxDerLen
  <2>2. sig[4 + q] = DR[q + 1]
    BY <1>1, <1>2, <1>3, <2>1
  <2>3. DR[q + 1] \in Bytes
    BY <1>2, ElementOfSeq
  <2>4. sig[4 + q] # Undef
    BY <2>2, <2>3 DEF Undef, Bytes
  <2>5. QED
    BY <2>1, <2>2, <2>4 DEF ReadSig
<1>5. ASSUME NEW q \in 0..SLen - 1 PROVE ReadSig(4 + RLen + 2 + q) = {DS[q + 1]}
  <2>1. 4 + RLen + 2 + q \in SigCells /\ 4 + RLen + 2 + q < Len(Der(r, s))
    BY <1>1, <1>2, WAssumption DEF SigCells, MaxDerLen
  <2>2. sig[4 + RLen + 2 + q] = DS[q + 1]
    <3>1. 4 + RLen + 2 + q + 1 = 6 + RLen + (q + 1)
      BY <1>2
    <3>2. QED
      BY <1>1, <1>2, <1>3, <2>1, <3>1
  <2>3. DS[q + 1] \in Bytes
    BY <1>2, ElementOfSeq
  <2>4. sig[4 + RLen + 2 + q] # Undef
    BY <2>2, <2>3 DEF Undef, Bytes
  <2>5. QED
    BY <2>1, <2>2, <2>4 DEF ReadSig
<1>6. QED
  BY <1>2, <1>4, <1>5

\* The signature and its DER lengths depend on r and s alone.
LEMMA SignedSigFrame ==
    ASSUME UNCHANGED <<r, s>>
    PROVE  SignedSig' = SignedSig /\ RLen' = RLen /\ SLen' = SLen
BY Zenon DEF SignedSig, RLen, SLen

-----------------------------------------------------------------------------
\* The lengths of the DER integers, as the lemmas below use them.
LEMMA LenFacts ==
    ASSUME r \in Values, s \in Values
    PROVE  /\ RLen \in 1..W + 1 /\ SLen \in 1..W + 1
           /\ DR \in Seq(Bytes) /\ DS \in Seq(Bytes)
           /\ Len(DR) = RLen /\ Len(DS) = SLen
BY DerIntLen DEF RLen, SLen, DR, DS

\* Before the s loop copies anything, result is still all zeros.
LEMMA AfterSFirst ==
    ASSUME SLen \in 1..W + 1
    PROVE  AfterS(SLen - 1) = [p \in 0..2 * W |-> 0]
BY WAssumption DEF AfterS

\* One iteration of the s loop: byte kk of s goes to 1 + 2W - s_length + kk.
LEMMA AfterSStep ==
    ASSUME SLen \in 1..W + 1, NEW kk \in 0..SLen - 1
    PROVE  [AfterS(kk) EXCEPT ![1 + 2 * W - SLen + kk] = DS[kk + 1]] = AfterS(kk - 1)
<1>1. 1 + 2 * W - SLen + kk \in 0..2 * W
  BY WAssumption
<1>2. \A p \in 0..2 * W :
        [AfterS(kk) EXCEPT ![1 + 2 * W - SLen + kk] = DS[kk + 1]][p] = AfterS(kk - 1)[p]
  BY <1>1, WAssumption DEF AfterS
<1>3. QED
  BY <1>1, <1>2 DEF AfterS

\* The r loop starts from what the s loop left: its first index is past W.
LEMMA AfterRFirst ==
    ASSUME RLen \in 1..W + 1
    PROVE  AfterR(RLen - 1) = AfterS(-1)
BY WAssumption DEF AfterR, AfterS

\* One iteration of the r loop: byte kk of r goes to 1 + W - r_length + kk.
LEMMA AfterRStep ==
    ASSUME RLen \in 1..W + 1, NEW kk \in 0..RLen - 1
    PROVE  [AfterR(kk) EXCEPT ![1 + W - RLen + kk] = DR[kk + 1]] = AfterR(kk - 1)
<1>1. 1 + W - RLen + kk \in 0..2 * W
  BY WAssumption
<1>2. \A p \in 0..2 * W :
        [AfterR(kk) EXCEPT ![1 + W - RLen + kk] = DR[kk + 1]][p] = AfterR(kk - 1)[p]
  BY <1>1, WAssumption DEF AfterR
<1>3. QED
  BY <1>1, <1>2 DEF AfterR

-----------------------------------------------------------------------------
\* A successful signature starts the conversion in SInv.
LEMMA InitSInv == ~SignCanFail /\ Init => SInv
BY SignCanFailAssumption DEF Init, SInv, SignedSig

\* Every step of the conversion keeps SInv.
LEMMA NextSInv == SInv /\ [Next]_vars => SInv'
<1> SUFFICES ASSUME SInv, [Next]_vars PROVE SInv'
  OBVIOUS
<1>a. UNCHANGED <<r, s>>
  BY DEF Next, Parse, SCopy, SCopyDone, RCopy, RCopyDone, Header, vars
<1>b. SignedSig' = SignedSig /\ RLen' = RLen /\ SLen' = SLen
  BY <1>a, SignedSigFrame
<1>0. /\ RLen \in 1..W + 1 /\ SLen \in 1..W + 1
      /\ 3 \in SigCells /\ sig[3] = RLen
      /\ 5 + RLen \in SigCells /\ sig[5 + RLen] = SLen
  BY SignedSigFacts DEF SInv
<1>1. CASE Parse
  <2>1. ReadSig(3) = {RLen}
    BY <1>0 DEF ReadSig, Undef
  <2>2. ReadSig(4 + RLen + 1) = {SLen}
    BY <1>0 DEF ReadSig, Undef
  <2>3. /\ phase = "parse"
        /\ rl' = RLen /\ sl' = SLen
        /\ oob' = (oob \/ 4 + RLen + 1 \notin SigCells)
        /\ IF RLen > W + 1 \/ SLen > W + 1
             THEN phase' = "bad" /\ UNCHANGED k
             ELSE phase' = "s" /\ k' = SLen - 1
        /\ UNCHANGED <<r, s, signed, sig>>
    BY <1>1, <2>1, <2>2 DEF Parse, NoteRead
  <2>4. r' \in Values /\ s' \in Values /\ signed' = TRUE /\ sig' = SignedSig'
    BY <1>b, <2>3 DEF SInv
  <2>5. phase' = "s" /\ k' = SLen - 1
    BY <1>0, <2>3, WAssumption
  <2>6. rl' = RLen' /\ sl' = SLen' /\ k' \in -1..sl' - 1
    BY <1>0, <1>b, <2>3, <2>5
  <2>7. ~oob'
    <3>1. 4 + RLen + 1 \in SigCells
      BY <1>0
    <3>2. ~oob
      BY DEF SInv
    <3>3. QED
      BY <2>3, <3>1, <3>2, Zenon
  <2>8. QED
    BY <2>4, <2>5, <2>6, <2>7 DEF SInv
<1>2. CASE SCopy
  <2>1. /\ phase = "s" /\ k >= 0 /\ k' = k - 1
        /\ oob' = (oob \/ 4 + rl + 2 + k \notin SigCells)
        /\ UNCHANGED <<r, s, signed, sig, rl, sl, phase>>
    BY <1>2 DEF SCopy, NoteRead
  <2>2. 4 + rl + 2 + k \in SigCells
    BY <1>0, <2>1, WAssumption DEF SInv, SigCells, MaxDerLen
  <2>3. r' \in Values /\ s' \in Values /\ signed' = TRUE /\ sig' = SignedSig'
    BY <1>b, <2>1 DEF SInv
  <2>4. phase' = "s" /\ rl' = RLen' /\ sl' = SLen'
    BY <1>b, <2>1 DEF SInv
  <2>5. k' \in -1..sl' - 1
    BY <1>0, <2>1, <2>4 DEF SInv
  <2>6. ~oob'
    BY <2>1, <2>2 DEF SInv
  <2>7. QED
    BY <2>3, <2>4, <2>5, <2>6 DEF SInv
<1>3. CASE SCopyDone
  BY <1>0, <1>3, <1>b DEF SCopyDone, SInv, SignedSig, RLen, SLen
<1>4. CASE RCopy
  <2>1. /\ phase = "r" /\ k >= 0 /\ k' = k - 1
        /\ oob' = (oob \/ 4 + k \notin SigCells)
        /\ UNCHANGED <<r, s, signed, sig, rl, sl, phase>>
    BY <1>4 DEF RCopy, NoteRead
  <2>2. 4 + k \in SigCells
    BY <1>0, <2>1, WAssumption DEF SInv, SigCells, MaxDerLen
  <2>3. r' \in Values /\ s' \in Values /\ signed' = TRUE /\ sig' = SignedSig'
    BY <1>b, <2>1 DEF SInv
  <2>4. phase' = "r" /\ rl' = RLen' /\ sl' = SLen'
    BY <1>b, <2>1 DEF SInv
  <2>5. k' \in -1..rl' - 1
    BY <1>0, <2>1, <2>4 DEF SInv
  <2>6. ~oob'
    BY <2>1, <2>2 DEF SInv
  <2>7. QED
    BY <2>3, <2>4, <2>5, <2>6 DEF SInv
<1>5. CASE RCopyDone
  BY <1>5, <1>b DEF RCopyDone, SInv, SignedSig, RLen, SLen
<1>6. CASE Header
  BY <1>6, <1>b DEF Header, SInv, SignedSig, RLen, SLen
<1>7. CASE UNCHANGED vars
  BY <1>7, <1>b DEF vars, SInv, SignedSig, RLen, SLen
<1>8. QED
  BY <1>1, <1>2, <1>3, <1>4, <1>5, <1>6, <1>7 DEF Next

\* A DER integer right-aligned in a W-byte field is a W-byte sequence.
LEMMA RightAlignSeq ==
    ASSUME NEW d \in Seq(Bytes), Len(d) \in 1..W + 1
    PROVE  RightAlign(d, W) \in Seq(Nat) /\ Len(RightAlign(d, W)) = W
<1>1. \A p \in 1..W : p > W - Len(d) => d[p - (W - Len(d))] \in Bytes
  BY WAssumption, ElementOfSeq
<1>2. RightAlign(d, W) \in [1..W -> Nat]
  <2>1. \A p \in 1..W : RightAlign(d, W)[p] \in Nat
    <3> TAKE p \in 1..W
    <3>1. CASE p > W - Len(d)
      <4>1. RightAlign(d, W)[p] = d[p - (W - Len(d))]
        BY <3>1 DEF RightAlign
      <4>2. d[p - (W - Len(d))] \in Bytes
        BY <1>1, <3>1
      <4>3. Bytes \subseteq Nat
        BY DEF Bytes
      <4>4. QED
        BY <4>1, <4>2, <4>3, Zenon
    <3>2. CASE ~(p > W - Len(d))
      BY <3>2 DEF RightAlign
    <3>3. QED
      BY <3>1, <3>2
  <2>2. DOMAIN RightAlign(d, W) = 1..W
    BY DEF RightAlign
  <2>3. RightAlign(d, W) = [p \in 1..W |-> RightAlign(d, W)[p]]
    BY DEF RightAlign
  <2>4. QED
    BY <2>1, <2>3
<1>3. RightAlign(d, W) \in Seq(Nat)
  BY <1>2, WAssumption
<1>4. DOMAIN RightAlign(d, W) = 1..Len(RightAlign(d, W))
      /\ Len(RightAlign(d, W)) \in Nat
  BY <1>3, LenProperties
<1>5. DOMAIN RightAlign(d, W) = 1..W
  BY DEF RightAlign
<1>6. QED
  <2>1. W \in 1..Len(RightAlign(d, W))
    BY <1>4, <1>5, WAssumption
  <2>2. Len(RightAlign(d, W)) \in 1..W
    <3>1. Len(RightAlign(d, W)) # 0
      BY <1>4, <1>5, <2>1
    <3>2. Len(RightAlign(d, W)) \in 1..Len(RightAlign(d, W))
      BY <1>4, <3>1
    <3>3. QED
      BY <1>4, <1>5, <3>2
  <2>3. QED
    BY <1>3, <2>1, <2>2, WAssumption

\* Once the header is written, result is the header followed by r and s
\* right-aligned in their W-byte fields.
LEMMA FinalLayout ==
    ASSUME r \in Values, s \in Values
    PROVE  [AfterR(-1) EXCEPT ![0] = HeaderByte]
             = CArray(<<HeaderByte>> \o RightAlign(DR, W) \o RightAlign(DS, W))
<1> DEFINE RAR == RightAlign(DR, W)
           RAS == RightAlign(DS, W)
           q1 == <<HeaderByte>> \o RAR
           q == q1 \o RAS
<1>0. /\ RLen \in 1..W + 1 /\ SLen \in 1..W + 1
      /\ DR \in Seq(Bytes) /\ DS \in Seq(Bytes)
      /\ Len(DR) = RLen /\ Len(DS) = SLen
  BY LenFacts
<1>1. /\ RAR \in Seq(Nat) /\ Len(RAR) = W
      /\ RAS \in Seq(Nat) /\ Len(RAS) = W
  BY <1>0, RightAlignSeq
<1>2. <<HeaderByte>> \in Seq(Nat) /\ Len(<<HeaderByte>>) = 1
  BY DEF HeaderByte
<1> HIDE DEF RAR, RAS
<1>3. /\ q1 \in Seq(Nat) /\ Len(q1) = 1 + W
      /\ q1[1] = HeaderByte
      /\ \A j \in 1..W : q1[1 + j] = RAR[j]
  BY <1>1, <1>2, ConcatSplit
<1> HIDE DEF q1
<1>4. /\ Len(q) = 1 + 2 * W
      /\ \A i \in 1..1 + W : q[i] = q1[i]
      /\ \A j \in 1..W : q[1 + W + j] = RAS[j]
  <2>1. /\ Len(q) = Len(q1) + Len(RAS)
        /\ \A i \in 1..Len(q1) : q[i] = q1[i]
        /\ \A j \in 1..Len(RAS) : q[Len(q1) + j] = RAS[j]
    BY <1>1, <1>3, ConcatSplit, Zenon
  <2>2. Len(q1) = 1 + W /\ Len(RAS) = W /\ W \in Nat
    BY <1>1, <1>3, WAssumption
  <2>3. Len(q) = 1 + 2 * W
    BY <2>1, <2>2
  <2>4. \A i \in 1..1 + W : q[i] = q1[i]
    BY <2>1, <2>2
  <2>5. \A j \in 1..W : q[1 + W + j] = RAS[j]
    BY <2>1, <2>2
  <2>6. QED
    BY <2>3, <2>4, <2>5
<1> HIDE DEF q
<1>5. CArray(q) = [p \in 0..2 * W |-> q[p + 1]]
  BY <1>4, WAssumption DEF CArray
<1>6. ASSUME NEW p \in 0..2 * W
      PROVE  [AfterR(-1) EXCEPT ![0] = HeaderByte][p] = q[p + 1]
  <2>1. CASE p = 0
    BY <1>3, <1>4, <2>1, WAssumption DEF AfterR
  <2>2. CASE p \in 1..W
    <3>1. q[p + 1] = RAR[p]
      BY <1>3, <1>4, <2>2, WAssumption
    <3>2. AfterR(-1)[p] = RAR[p]
      BY <1>0, <2>2, WAssumption DEF AfterR, AfterS, RAR, RightAlign, RLen, SLen
    <3>3. QED
      BY <2>2, <3>1, <3>2, WAssumption DEF AfterR
  <2>3. CASE p \in W + 1..2 * W
    <3>1. q[p + 1] = RAS[p - W]
      <4>1. p - W \in 1..W /\ p + 1 = 1 + W + (p - W)
        BY <2>3, WAssumption
      <4>2. QED
        BY <1>4, <4>1
    <3>2. AfterR(-1)[p] = RAS[p - W]
      BY <1>0, <2>3, WAssumption DEF AfterR, AfterS, RAS, RightAlign, RLen, SLen
    <3>3. QED
      BY <2>3, <3>1, <3>2, WAssumption DEF AfterR
  <2>4. QED
    BY <2>1, <2>2, <2>3, WAssumption
<1> DEFINE F == [AfterR(-1) EXCEPT ![0] = HeaderByte]
<1>7. F = [p \in 0..2 * W |-> F[p]]
  BY DEF AfterR
<1>8. \A p \in 0..2 * W : F[p] = q[p + 1]
  BY <1>6
<1> HIDE DEF F
<1>9. F = CArray(q)
  BY <1>5, <1>7, <1>8
<1>10. QED
  BY <1>9, Zenon DEF F, q, q1, RAR, RAS

\* The conversion starts with result zeroed.
LEMMA InitRes == Init => ResInv
BY DEF Init, ResInv

\* Every step of a successful conversion keeps ResInv.
LEMMA NextRes == SInv /\ ResInv /\ [Next]_vars => ResInv'
<1> SUFFICES ASSUME SInv, ResInv, [Next]_vars PROVE ResInv'
  OBVIOUS
<1>0. /\ RLen \in 1..W + 1 /\ SLen \in 1..W + 1
      /\ \A q \in 0..RLen - 1 : ReadSig(4 + q) = {DR[q + 1]}
      /\ \A q \in 0..SLen - 1 : ReadSig(4 + RLen + 2 + q) = {DS[q + 1]}
  BY LenFacts, SignedSigBytes DEF SInv
<1>a. UNCHANGED <<r, s, parity>>
  BY DEF Next, Parse, SCopy, SCopyDone, RCopy, RCopyDone, Header, vars
<1>b. /\ RLen' = RLen /\ SLen' = SLen /\ DR' = DR /\ DS' = DS
      /\ HeaderByte' = HeaderByte
      /\ \A kk : AfterS(kk)' = AfterS(kk) /\ AfterR(kk)' = AfterR(kk)
  BY <1>a, Zenon DEF RLen, SLen, DR, DS, HeaderByte, AfterS, AfterR
<1>1. CASE Parse
  <2>1. phase = "parse" /\ res' = res /\ res = [p \in 0..2 * W |-> 0]
    BY <1>1 DEF Parse, ResInv
  <2>2. phase' = "s" /\ k' = SLen - 1
    <3>1. phase' # "bad"
      BY <1>1, <1>b, NextSInv DEF SInv
    <3>2. \E a \in ReadSig(3) : \E b \in ReadSig(4 + a + 1) :
              /\ sl' = b
              /\ IF a > W + 1 \/ b > W + 1
                   THEN phase' = "bad" /\ UNCHANGED k
                   ELSE phase' = "s" /\ k' = b - 1
      BY <1>1 DEF Parse
    <3>3. phase' = "s" /\ k' = sl' - 1
      BY <3>1, <3>2
    <3>4. sl' = SLen
      BY <1>1, <1>b, <3>3, NextSInv DEF SInv
    <3>5. QED
      BY <3>3, <3>4
  <2>3. QED
    BY <1>0, <1>b, <2>1, <2>2, AfterSFirst DEF ResInv
<1>2. CASE SCopy
  <2>1. /\ phase = "s" /\ k >= 0 /\ k' = k - 1 /\ phase' = "s"
        /\ \E b \in ReadSig(4 + rl + 2 + k) : res' = [res EXCEPT ![1 + 2 * W - sl + k] = b]
    BY <1>2 DEF SCopy
  <2>2. rl = RLen /\ sl = SLen /\ k \in 0..SLen - 1 /\ res = AfterS(k)
    BY <2>1 DEF SInv, ResInv
  <2>3. res' = [AfterS(k) EXCEPT ![1 + 2 * W - SLen + k] = DS[k + 1]]
    <3>1. ReadSig(4 + rl + 2 + k) = {DS[k + 1]}
      BY <1>0, <2>2
    <3>2. PICK b \in ReadSig(4 + rl + 2 + k) : res' = [res EXCEPT ![1 + 2 * W - sl + k] = b]
      BY <2>1
    <3>3. QED
      BY <2>2, <3>1, <3>2
  <2>4. res' = AfterS(k - 1)
    BY <1>0, <2>2, <2>3, AfterSStep
  <2>5. QED
    BY <1>b, <2>1, <2>4 DEF ResInv
<1>3. CASE SCopyDone
  <2>1. /\ phase = "s" /\ k < 0 /\ phase' = "r" /\ k' = rl - 1 /\ res' = res
    BY <1>3 DEF SCopyDone
  <2>2. rl = RLen /\ k = -1 /\ res = AfterS(-1)
    BY <2>1 DEF SInv, ResInv
  <2>3. res' = AfterR(k')
    BY <1>0, <2>1, <2>2, AfterRFirst
  <2>4. QED
    BY <1>b, <2>1, <2>3 DEF ResInv
<1>4. CASE RCopy
  <2>1. /\ phase = "r" /\ k >= 0 /\ k' = k - 1 /\ phase' = "r"
        /\ \E b \in ReadSig(4 + k) : res' = [res EXCEPT ![1 + W - rl + k] = b]
    BY <1>4 DEF RCopy
  <2>2. rl = RLen /\ k \in 0..RLen - 1 /\ res = AfterR(k)
    BY <2>1 DEF SInv, ResInv
  <2>3. res' = [AfterR(k) EXCEPT ![1 + W - RLen + k] = DR[k + 1]]
    BY <1>0, <2>1, <2>2
  <2>4. res' = AfterR(k - 1)
    BY <1>0, <2>2, <2>3, AfterRStep
  <2>5. QED
    BY <1>b, <2>1, <2>4 DEF ResInv
<1>5. CASE RCopyDone
  <2>1. /\ phase = "r" /\ k < 0 /\ phase' = "v" /\ res' = res
    BY <1>5 DEF RCopyDone
  <2>2. k = -1 /\ res = AfterR(-1)
    BY <2>1 DEF SInv, ResInv
  <2>3. QED
    BY <1>b, <2>1, <2>2 DEF ResInv
<1>6. CASE Header
  <2>1. /\ phase = "v" /\ phase' = "done"
        /\ res' = [res EXCEPT ![0] = 27 + 4 + (IF parity THEN 1 ELSE 0)]
    BY <1>6 DEF Header
  <2>2. res = AfterR(-1)
    BY <2>1 DEF ResInv
  <2>3. res' = [AfterR(-1) EXCEPT ![0] = HeaderByte]
    BY <2>1, <2>2 DEF HeaderByte
  <2>4. QED
    BY <1>b, <2>1, <2>3 DEF ResInv
<1>7. CASE UNCHANGED vars
  BY <1>7, <1>b DEF vars, ResInv
<1>8. QED
  BY <1>1, <1>2, <1>3, <1>4, <1>5, <1>6, <1>7 DEF Next

-----------------------------------------------------------------------------
\* When the signer succeeds, the conversion in handler_withdraw reads only
\* inside sig[MAX_DER_SIG_LEN], whatever the DER lengths of r and s: the
\* read of s_length, made before r_length is checked, and every read of
\* the two copy loops land in the DER encoding, for every width W.
THEOREM ReadsInBounds == ~SignCanFail => (Spec => []ReadsWithinSig)
<1> SUFFICES ASSUME ~SignCanFail PROVE Spec => []ReadsWithinSig
  OBVIOUS
<1>1. Init => SInv
  BY InitSInv
<1>2. SInv /\ [Next]_vars => SInv'
  BY NextSInv
<1>3. SInv => ReadsWithinSig
  BY DEF SInv, ReadsWithinSig
<1>4. QED
  BY <1>1, <1>2, <1>3, PTL DEF Spec

\* When the signer succeeds, the two copy loops of handler_withdraw leave
\* the DER integers of r and s right-aligned in their W-byte fields of the
\* response, behind the recovery header, for every width W and every pair
\* of DER lengths: a short integer keeps the memset's zeros before it, and
\* the pad byte of a (W+1)-byte s is overwritten by the r loop, that of r by
\* the header.
THEOREM ConversionPlacesIntegers == ~SignCanFail => (Spec => []EncodingMatchesDer)
<1> SUFFICES ASSUME ~SignCanFail PROVE Spec => []EncodingMatchesDer
  OBVIOUS
<1>1. Init => SInv /\ ResInv
  BY InitSInv, InitRes
<1>2. SInv /\ ResInv /\ [Next]_vars => SInv' /\ ResInv'
  BY NextSInv, NextRes
<1>3. SInv /\ ResInv => EncodingMatchesDer
  <2> SUFFICES ASSUME SInv, ResInv, phase = "done", signed
               PROVE  res = CArray(<<31 + (IF parity THEN 1 ELSE 0)>>
                                   \o RightAlign(DerInt(r), W) \o RightAlign(DerInt(s), W))
    BY DEF EncodingMatchesDer
  <2>1. res = [AfterR(-1) EXCEPT ![0] = HeaderByte]
    BY DEF ResInv
  <2>2. [AfterR(-1) EXCEPT ![0] = HeaderByte]
          = CArray(<<HeaderByte>> \o RightAlign(DR, W) \o RightAlign(DS, W))
    BY FinalLayout DEF SInv
  <2>3. QED
    BY <2>1, <2>2 DEF HeaderByte, DR, DS
<1>4. QED
  BY <1>1, <1>2, <1>3, PTL DEF Spec


-----------------------------------------------------------------------------
\* Concatenating two byte strings gives a byte string.
LEMMA ConcatBytes ==
    ASSUME NEW s1 \in Seq(Bytes), NEW s2 \in Seq(Bytes)
    PROVE  s1 \o s2 \in Seq(Bytes) /\ Len(s1 \o s2) = Len(s1) + Len(s2)
BY ConcatProperties

\* A two-byte header is a byte string.
LEMMA PairBytes ==
    ASSUME NEW a \in Bytes, NEW b \in Bytes
    PROVE  <<a, b>> \in Seq(Bytes) /\ Len(<<a, b>>) = 2
OBVIOUS

\* The lengths DER writes into its header bytes fit in a byte: an integer of
\* at most W + 1 bytes, and a body of two such integers with their headers.
LEMMA HeaderLenBytes ==
    ASSUME NEW a \in 1..W + 1, NEW b \in 1..W + 1
    PROVE  /\ 2 \in Bytes /\ 48 \in Bytes
           /\ a \in Bytes /\ 4 + a + b \in Bytes
  BY WAssumption, ShortFormAssumption DEF Bytes

\* Every byte of the signer's DER output is a byte: the SEQUENCE length
\* fits one byte under ShortFormAssumption.
LEMMA DerBytes ==
    ASSUME NEW x \in Values, NEW y \in Values
    PROVE  Der(x, y) \in Seq(Bytes)
<1> DEFINE dr == DerInt(x)
           ds == DerInt(y)
           h1 == <<2, Len(dr)>>
           h2 == <<2, Len(ds)>>
           b1 == h1 \o dr
           b2 == b1 \o h2
           body == b2 \o ds
<1>1. /\ dr \in Seq(Bytes) /\ Len(dr) \in 1..W + 1
      /\ ds \in Seq(Bytes) /\ Len(ds) \in 1..W + 1
  BY DerIntLen
<1>2. h1 \in Seq(Bytes) /\ Len(h1) = 2 /\ h2 \in Seq(Bytes) /\ Len(h2) = 2
  <2>0. Len(dr) \in 1..W + 1 /\ Len(ds) \in 1..W + 1
    BY <1>1
  <2>1. 2 \in Bytes /\ Len(dr) \in Bytes /\ Len(ds) \in Bytes
    BY <2>0, HeaderLenBytes
  <2>2. QED
    BY <2>1, PairBytes
<1> HIDE DEF dr, ds, h1, h2
<1>3. b1 \in Seq(Bytes) /\ Len(b1) = 2 + Len(dr)
  BY <1>1, <1>2, ConcatBytes
<1> HIDE DEF b1
<1>4. b2 \in Seq(Bytes) /\ Len(b2) = 4 + Len(dr)
  <2>1. b2 \in Seq(Bytes) /\ Len(b2) = Len(b1) + Len(h2)
    BY <1>2, <1>3, ConcatBytes
  <2>2. QED
    BY <1>1, <1>2, <1>3, <2>1
<1> HIDE DEF b2
<1>5. body \in Seq(Bytes) /\ Len(body) = 4 + Len(dr) + Len(ds)
  BY <1>1, <1>4, ConcatBytes
<1> HIDE DEF body
<1>6. <<48, Len(body)>> \in Seq(Bytes)
  <2>0. Len(dr) \in 1..W + 1 /\ Len(ds) \in 1..W + 1
        /\ Len(body) = 4 + Len(dr) + Len(ds)
    BY <1>1, <1>5
  <2>1. 48 \in Bytes /\ Len(body) \in Bytes
    BY <2>0, HeaderLenBytes
  <2>2. QED
    BY <2>1, PairBytes
<1>7. <<48, Len(body)>> \o body \in Seq(Bytes)
  BY <1>5, <1>6, ConcatBytes
<1>8. QED
  BY <1>7, Zenon DEF Der, body, b2, b1, h1, h2, dr, ds

\* A read of sig gives a byte: the byte written there, or garbage.
LEMMA ReadSigBytes ==
    ASSUME TypeOK, NEW j
    PROVE  ReadSig(j) \subseteq Bytes
BY GarbageAssumption DEF ReadSig, TypeOK, Bytes, Undef

\* Every start of the conversion is well typed, whether the signer
\* succeeded or not.
LEMMA InitTInv == Init => TInv
<1> SUFFICES ASSUME Init PROVE TInv
  OBVIOUS
<1>1. sig \in [SigCells -> Bytes \cup {Undef}]
  <2>1. CASE signed
    <3>1. Der(r, s) \in Seq(Bytes)
      BY DerBytes DEF Init
    <3>2. \A j \in SigCells : j < Len(Der(r, s)) => Der(r, s)[j + 1] \in Bytes
      BY <3>1, ElementOfSeq DEF SigCells
    <3>3. QED
      BY <2>1, <3>2 DEF Init
  <2>2. CASE ~signed
    BY <2>2 DEF Init
  <2>3. QED
    BY <2>1, <2>2
<1>2. signed \in BOOLEAN
  BY SignCanFailAssumption DEF Init
<1>3. res \in [0..2 * W -> Bytes]
  BY DEF Init, Bytes
<1>4. rl \in Bytes /\ sl \in Bytes /\ k \in -1..W
  BY WAssumption DEF Init, Bytes
<1>5. QED
  BY <1>1, <1>2, <1>3, <1>4 DEF Init, TInv, TypeOK

\* Every step of the conversion keeps TInv, for a good or a failed
\* signature alike.
LEMMA NextTInv == TInv /\ [Next]_vars => TInv'
<1> SUFFICES ASSUME TInv, [Next]_vars PROVE TInv'
  OBVIOUS
<1>0. TypeOK
  BY DEF TInv
<1>1. CASE Parse
  <2>1. PICK a \in ReadSig(3) : \E b \in ReadSig(4 + a + 1) :
              /\ rl' = a
              /\ sl' = b
              /\ NoteRead(4 + a + 1)
              /\ IF a > W + 1 \/ b > W + 1
                   THEN phase' = "bad" /\ UNCHANGED k
                   ELSE phase' = "s" /\ k' = b - 1
    BY <1>1 DEF Parse
  <2>2. PICK b \in ReadSig(4 + a + 1) :
              /\ rl' = a
              /\ sl' = b
              /\ NoteRead(4 + a + 1)
              /\ IF a > W + 1 \/ b > W + 1
                   THEN phase' = "bad" /\ UNCHANGED k
                   ELSE phase' = "s" /\ k' = b - 1
    BY <2>1
  <2>3. a \in Bytes /\ b \in Bytes
    BY <1>0, ReadSigBytes
  <2>4. UNCHANGED <<r, s, parity, signed, sig, res>> /\ oob' \in BOOLEAN
    BY <1>1, <2>2 DEF Parse, NoteRead
  <2>5. CASE a > W + 1 \/ b > W + 1
    BY <1>0, <2>2, <2>3, <2>4, <2>5 DEF TInv, TypeOK
  <2>6. CASE ~(a > W + 1 \/ b > W + 1)
    BY <1>0, <2>2, <2>3, <2>4, <2>6, WAssumption DEF TInv, TypeOK, Bytes
  <2>7. QED
    BY <2>5, <2>6
<1>2. CASE SCopy
  <2>1. PICK b \in ReadSig(4 + rl + 2 + k) :
              res' = [res EXCEPT ![1 + 2 * W - sl + k] = b]
    BY <1>2 DEF SCopy
  <2>2. b \in Bytes
    BY <1>0, ReadSigBytes
  <2>3. /\ phase = "s" /\ k >= 0 /\ k' = k - 1 /\ oob' \in BOOLEAN
        /\ UNCHANGED <<r, s, parity, signed, sig, rl, sl, phase>>
    BY <1>2 DEF SCopy, NoteRead
  <2>4. QED
    BY <1>0, <2>1, <2>2, <2>3, WAssumption DEF TInv, TypeOK
<1>3. CASE SCopyDone
  BY <1>3, WAssumption DEF SCopyDone, TInv, TypeOK
<1>4. CASE RCopy
  <2>1. PICK b \in ReadSig(4 + k) : res' = [res EXCEPT ![1 + W - rl + k] = b]
    BY <1>4 DEF RCopy
  <2>2. b \in Bytes
    BY <1>0, ReadSigBytes
  <2>3. /\ phase = "r" /\ k >= 0 /\ k' = k - 1 /\ oob' \in BOOLEAN
        /\ UNCHANGED <<r, s, parity, signed, sig, rl, sl, phase>>
    BY <1>4 DEF RCopy, NoteRead
  <2>4. QED
    BY <1>0, <2>1, <2>2, <2>3, WAssumption DEF TInv, TypeOK
<1>5. CASE RCopyDone
  BY <1>5 DEF RCopyDone, TInv, TypeOK
<1>6. CASE Header
  <2>1. 27 + 4 + (IF parity THEN 1 ELSE 0) \in Bytes
    BY <1>0 DEF TypeOK, Bytes
  <2>2. res' \in [0..2 * W -> Bytes]
    BY <1>0, <1>6, <2>1 DEF Header, TypeOK
  <2>3. QED
    BY <1>0, <1>6, <2>2 DEF Header, TInv, TypeOK
<1>7. CASE UNCHANGED vars
  BY <1>7 DEF vars, TInv, TypeOK
<1>8. QED
  BY <1>1, <1>2, <1>3, <1>4, <1>5, <1>6, <1>7 DEF Next

\* Every state of the signature conversion is well typed, for every width
\* W and whether or not the signer succeeded: the bytes read from sig, the
\* DER lengths, result and the loop index keep their C types and ranges.
THEOREM SigTypeCorrect == Spec => []TypeOK
<1>1. TInv => TypeOK
  BY DEF TInv
<1>2. QED
  BY <1>1, InitTInv, NextTInv, PTL DEF Spec

=============================================================================
