-------------------------- MODULE RequestParseProofs --------------------------
(***************************************************************************)
(* Proof that handler_withdraw's request parse hands on only requests      *)
(* whose path fits bip32_path and that carried every field, for every      *)
(* MAX_BIP32_PATH_STEPS, set of path lengths and set of request sizes.     *)
(***************************************************************************)
EXTENDS RequestParse, TLAPS

\* The inductive strengthening: at each point of the || chain, the bytes
\* consumed so far are exactly (path) or at least (later) those of the
\* fields read, and a request past the length check has a short path.
PInv ==
    /\ TypeOK
    /\ pc = "len"    => remaining = size /\ j = 0
    /\ pc = "path"   => remaining + 1 + 4 * j = size
    /\ pc = "varint" => remaining + 1 + 4 * pathLen = size
    /\ pc = "root"   => remaining + 1 + 4 * pathLen + 1 <= size
    /\ pc \in {"check", "accepted"} =>
          remaining + 1 + 4 * pathLen + 1 + RootLen <= size
    /\ pc = "accepted" => pathLen <= MaxSteps


-----------------------------------------------------------------------------
StatusWords == {"WRONG_DATA_LENGTH", "INCORRECT_DATA"}

LEMMA InitPInv == Init => PInv
BY SizesAssumption DEF Init, PInv, TypeOK

LEMMA NextPInv == PInv /\ [Next]_vars => PInv'
<1> SUFFICES ASSUME PInv, [Next]_vars PROVE PInv'
  OBVIOUS
<1> USE SizesAssumption, PathLensAssumption, MaxStepsAssumption
<1>0. /\ size \in Nat /\ remaining \in Nat /\ pathLen \in Nat /\ j \in Nat
      /\ sw \in Seq(StatusWords)
  BY DEF PInv, TypeOK, StatusWords
<1>1. CASE ReadPathLen
  <2>1. CASE remaining >= 1
    <3>1. /\ pathLen' \in PathLens /\ remaining' = remaining - 1
          /\ pc = "len" /\ pc' = "path" /\ UNCHANGED <<sw, size, j>>
      BY <1>0, <1>1, <2>1 DEF ReadPathLen
    <3>2. QED
      BY <1>0, <2>1, <3>1 DEF PInv, TypeOK
  <2>2. CASE remaining < 1
    <3>1. sw' \in Seq(StatusWords) /\ pc' = "done"
      BY <1>0, <1>1, <2>2 DEF Reject, ReadPathLen, StatusWords
    <3>2. QED
      BY <1>0, <1>1, <2>2, <3>1 DEF ReadPathLen, PInv, TypeOK, StatusWords
  <2>3. QED
    BY <1>0, <2>1, <2>2
<1>2. CASE ReadPathEntry
  <2>1. CASE remaining >= 4
    BY <1>0, <1>2, <2>1 DEF ReadPathEntry, PInv, TypeOK
  <2>2. CASE remaining < 4
    <3>1. sw' \in Seq(StatusWords) /\ pc' = "done"
      BY <1>0, <1>2, <2>2 DEF Reject, ReadPathEntry, StatusWords
    <3>2. QED
      BY <1>0, <1>2, <2>2, <3>1 DEF ReadPathEntry, PInv, TypeOK, StatusWords
  <2>3. QED
    BY <1>0, <2>1, <2>2
<1>3. CASE ReadPathDone
  BY <1>0, <1>3 DEF ReadPathDone, PInv, TypeOK
<1>4. CASE ReadVarint
  <2>1. PICK m \in VarintLens :
          \/ /\ remaining >= m
             /\ remaining' = remaining - m
             /\ pc' = "root"
             /\ UNCHANGED sw
          \/ /\ remaining < m
             /\ Reject("WRONG_DATA_LENGTH")
             /\ UNCHANGED remaining
    BY <1>4 DEF ReadVarint
  <2>2. m \in Nat /\ m >= 1
    BY DEF VarintLens
  <2>3. CASE remaining >= m /\ pc' = "root"
    BY <1>0, <1>4, <2>1, <2>2, <2>3 DEF ReadVarint, PInv, TypeOK
  <2>4. CASE remaining < m
    <3>1. sw' \in Seq(StatusWords) /\ pc' = "done"
      BY <1>0, <2>1, <2>2, <2>4 DEF Reject, StatusWords
    <3>2. QED
      BY <1>0, <1>4, <2>1, <2>4, <3>1 DEF ReadVarint, PInv, TypeOK, StatusWords
  <2>5. QED
    BY <2>1, <2>3, <2>4
<1>5. CASE ReadRoot
  <2>1. CASE remaining >= RootLen
    BY <1>0, <1>5, <2>1 DEF ReadRoot, PInv, TypeOK, RootLen
  <2>2. CASE remaining < RootLen
    <3>1. sw' \in Seq(StatusWords) /\ pc' = "done"
      BY <1>0, <1>5, <2>2 DEF Reject, ReadRoot, StatusWords, RootLen
    <3>2. QED
      BY <1>0, <1>5, <2>2, <3>1 DEF ReadRoot, PInv, TypeOK, StatusWords
  <2>3. QED
    BY <1>0, <2>1, <2>2 DEF RootLen
<1>6. CASE CheckPathLen
  <2>1. CASE pathLen > MaxSteps
    <3>1. sw' \in Seq(StatusWords) /\ pc' = "done"
      BY <1>0, <1>6, <2>1 DEF Reject, CheckPathLen, StatusWords
    <3>2. QED
      BY <1>0, <1>6, <2>1, <3>1 DEF CheckPathLen, PInv, TypeOK, StatusWords
  <2>2. CASE pathLen <= MaxSteps
    BY <1>0, <1>6, <2>2 DEF CheckPathLen, PInv, TypeOK
  <2>3. QED
    BY <1>0, <2>1, <2>2
<1>7. CASE UNCHANGED vars
  BY <1>7 DEF vars, PInv, TypeOK
<1>8. QED
  BY <1>1, <1>2, <1>3, <1>4, <1>5, <1>6, <1>7 DEF Next

\* A request that handler_withdraw hands on to the display path has a path
\* that fits bip32_path[MAX_BIP32_PATH_STEPS] and carried the path, a
\* varint and the root in full.
THEOREM AcceptedWellFormed == Spec => []AcceptedRequestWellFormed
<1>1. PInv => AcceptedRequestWellFormed
  BY SizesAssumption, PathLensAssumption
  DEF PInv, TypeOK, AcceptedRequestWellFormed, RootLen
<1>2. QED
  BY <1>1, InitPInv, NextPInv, PTL DEF Spec

\* The parse keeps its state typed: the remaining byte count never goes
\* negative however short the request, the path index stays a count, and
\* only the parse's two error words are sent.
THEOREM ParseTypeCorrect == Spec => []TypeOK
<1>1. PInv => TypeOK
  BY DEF PInv
<1>2. QED
  BY <1>1, InitPInv, NextPInv, PTL DEF Spec

=============================================================================
