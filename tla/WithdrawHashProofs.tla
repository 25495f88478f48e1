-------------------------- MODULE WithdrawHashProofs --------------------------
(***************************************************************************)
(* Proof that a WITHDRAW request whose only status word is OK hashed the   *)
(* committed transaction: compute_tx_hash fed the selector of chunk 4 and  *)
(* both halves of chunks 5..n-1 in order to the tx.data Keccak context,    *)
(* wrote all 11 words of the struct buffer from committed data, and fed    *)
(* the verifying contract to the domain separator; for every NMax,         *)
(* Content, OwnScripts and MaxFaults, in both builds.                      *)
(***************************************************************************)
EXTENDS WithdrawProofs, SequenceTheorems

\* The first len words of tx.data in the order fetch_and_hash_tx_data feeds
\* them: the selector word of chunk 4, then chunk 5 low half, chunk 5 high
\* half, chunk 6 low half, ...
FedPrefix(len) ==
    [k \in 1..len |-> IF k = 1 THEN <<4, 0>>
                               ELSE <<5 + (k - 2) \div 2, ((k - 2) % 2) * 32>>]

\* How many words the payload loop has fed when it is about to feed the
\* half at offset h of chunk j.
FedCount(j, h) == 1 + 2 * (j - 5) + (IF h = 0 THEN 0 ELSE 1)

\* The struct slots written when the field loop is about to fetch field g.
FilledBefore(g) == {1, 4} \cup {FieldFetch[j].slot : j \in 1..g - 1}

\* As long as the host has been told nothing, every fetch so far succeeded,
\* so each phase of compute_tx_hash has done all of its work up to where it
\* stands; a lone OK is sent only from there.
CleanInv ==
    /\ sw = <<>> =>
         /\ pc \in ReviewPhases \cup {"Selector"} => fed = <<>>
         /\ pc = "Payload" =>
               /\ 5 <= i /\ i <= n /\ (half = 32 => i < n)
               /\ fed = FedPrefix(FedCount(i, half))
         /\ pc \in {"Fields", "Domain", "Sign"} => fed = CommittedPayload
         /\ pc = "Fields" => filled = FilledBefore(f)
         /\ pc \in {"Domain", "Sign"} => filled = Slots
         /\ pc = "Sign" => domainFed
    /\ sw = <<"OK">> =>
         /\ pc = "Done"
         /\ fed = CommittedPayload
         /\ filled = Slots
         /\ domainFed

-----------------------------------------------------------------------------
\* A prefix of tx.data is a sequence of words of len elements.
LEMMA FedPrefixSeq ==
    ASSUME NEW len \in Nat
    PROVE  /\ FedPrefix(len) \in Seq(Nat \X Nat)
           /\ Len(FedPrefix(len)) = len
BY DEF FedPrefix

\* Feeding the next word of tx.data extends the prefix by one.
LEMMA FedPrefixAppend ==
    ASSUME NEW len \in Nat
    PROVE  Append(FedPrefix(len), FedPrefix(len + 1)[len + 1]) = FedPrefix(len + 1)
<1> DEFINE p == FedPrefix(len)
           q == FedPrefix(len + 1)
<1>1. p \in Seq(Nat \X Nat) /\ Len(p) = len /\ q \in Seq(Nat \X Nat) /\ Len(q) = len + 1
  BY FedPrefixSeq
<1>2. q[len + 1] \in Nat \X Nat
  BY <1>1, ElementOfSeq
<1>3. /\ Append(p, q[len + 1]) \in Seq(Nat \X Nat)
      /\ Len(Append(p, q[len + 1])) = len + 1
      /\ \A j \in 1..len : Append(p, q[len + 1])[j] = p[j]
      /\ Append(p, q[len + 1])[len + 1] = q[len + 1]
  BY <1>1, <1>2, AppendProperties
<1>4. \A j \in 1..len : p[j] = q[j]
  BY DEF FedPrefix
<1>5. \A j \in 1..len + 1 : Append(p, q[len + 1])[j] = q[j]
  BY <1>3, <1>4
<1>6. QED
  BY <1>1, <1>3, <1>5, SeqEqual

\* The word the payload loop feeds for chunk j, half h is the next word of
\* tx.data.
LEMMA FedPrefixWord ==
    ASSUME NEW j \in Nat, NEW h \in {0, 32}, j >= 5
    PROVE  FedPrefix(FedCount(j, h) + 1)[FedCount(j, h) + 1] = <<j, h>>
<1> DEFINE c == FedCount(j, h) + 1
<1>1. c \in Nat /\ c >= 2 /\ c - 2 = 2 * (j - 5) + (IF h = 0 THEN 0 ELSE 1)
  BY DEF FedCount
<1>2. (c - 2) \div 2 = j - 5 /\ ((c - 2) % 2) * 32 = h
  BY <1>1
<1>3. FedPrefix(c)[c] = <<5 + (c - 2) \div 2, ((c - 2) % 2) * 32>>
  BY <1>1 DEF FedPrefix
<1>4. QED
  BY <1>2, <1>3

\* The selector is the first word.
LEMMA FedPrefixOne == Append(<<>>, <<4, 0>>) = FedPrefix(1)
BY DEF FedPrefix

\* At the end of the loop the prefix is the whole committed payload.
LEMMA FedPrefixAll ==
    ASSUME NEW m \in Nat, m >= 5
    PROVE  FedPrefix(FedCount(m, 0)) = IF m > 5 THEN PayloadWords(m)
                                                ELSE <<<<4, 0>>>>
<1>1. CASE m > 5
  BY <1>1 DEF FedPrefix, FedCount, PayloadWords
<1>2. CASE m = 5
  BY <1>2 DEF FedPrefix, FedCount
<1>3. QED
  BY <1>1, <1>2

\* The nine field fetches fill the struct buffer.
LEMMA FilledAll == FilledBefore(NFields + 1) = Slots
BY DEF FilledBefore, FieldFetch, NFields, Slots

\* One more field fetch adds its slot.
LEMMA FilledNext ==
    ASSUME NEW g \in 1..NFields
    PROVE  FilledBefore(g) \cup {FieldFetch[g].slot} = FilledBefore(g + 1)
BY DEF FilledBefore, NFields

\* A status word, once sent, stays in the log.
LEMMA NonEmptyLog ==
    ASSUME NEW S, NEW q \in Seq(S), NEW a \in S, NEW b \in S
    PROVE  /\ Append(q, a) # <<>>
           /\ q \o <<a, b>> # <<>>
<1>1. Append(q, a) # <<>>
  BY AppendProperties
<1>2. Len(q \o <<a, b>>) = Len(q) + 2 /\ Len(q) \in Nat
  BY ConcatProperties, LenProperties
<1>3. QED
  BY <1>1, <1>2

\* A step that reports an error leaves a log that is neither empty nor a
\* lone OK.
LEMMA ErrorLog ==
    ASSUME NEW q \in Seq(SW), NEW w \in SW, w # "OK"
    PROVE  /\ Append(q, w) # <<>>
           /\ Append(q, w) # <<"OK">>
<1>1. /\ Len(Append(q, w)) = Len(q) + 1
      /\ Append(q, w)[Len(q) + 1] = w
      /\ Len(q) \in Nat
  BY AppendProperties, LenProperties
<1>2. Append(q, w) # <<"OK">>
  <2> SUFFICES ASSUME Append(q, w) = <<"OK">> PROVE FALSE
    OBVIOUS
  <2>1. Len(q) = 0
    BY <1>1
  <2>2. w = "OK"
    BY <1>1, <2>1
  <2>3. QED
    BY <2>2
<1>3. QED
  BY <1>2, NonEmptyLog

\* Two status words in one step.
LEMMA PairLog ==
    ASSUME NEW q \in Seq(SW), NEW a \in SW, NEW b \in SW
    PROVE  /\ q \o <<a, b>> # <<>>
           /\ q \o <<a, b>> # <<"OK">>
<1>1. Len(q \o <<a, b>>) = Len(q) + 2 /\ Len(q) \in Nat
  BY ConcatProperties, LenProperties
<1>2. Len(<<>>) = 0 /\ Len(<<"OK">>) = 1
  OBVIOUS
<1>3. q \o <<a, b>> # <<>>
  BY <1>1, <1>2
<1>4. q \o <<a, b>> # <<"OK">>
  <2> SUFFICES ASSUME q \o <<a, b>> = <<"OK">> PROVE FALSE
    OBVIOUS
  <2>1. Len(q \o <<a, b>>) = 1
    BY <1>2
  <2>2. QED
    BY <1>1, <2>1
<1>5. QED
  BY <1>3, <1>4

\* OK appended to a log that already holds a word.
LEMMA LateOK ==
    ASSUME NEW q \in Seq(SW), q # <<>>
    PROVE  Append(q, "OK") # <<"OK">>
<1>1. Len(q) \in Nat \ {0}
  BY EmptySeq
<1>2. Len(Append(q, "OK")) = Len(q) + 1
  <2>1. "OK" \in SW
    BY DEF SW
  <2>2. QED
    BY <2>1, AppendProperties
<1>3. Len(<<"OK">>) = 1
  OBVIOUS
<1>4. QED
  <2> SUFFICES ASSUME Append(q, "OK") = <<"OK">> PROVE FALSE
    OBVIOUS
  <2>1. Len(Append(q, "OK")) = 1
    BY <1>3
  <2>2. QED
    BY <1>1, <1>2, <2>1

-----------------------------------------------------------------------------
\* Nothing is hashed before the request is received.
LEMMA InitClean == Init => CleanInv
BY DEF Init, CleanInv, ReviewPhases

\* Every step keeps CleanInv.
LEMMA NextClean == TypeInv /\ CleanInv /\ [Next]_vars => CleanInv'
<1> SUFFICES ASSUME TypeInv, CleanInv, [Next]_vars PROVE CleanInv'
  OBVIOUS
<1>0. /\ sw \in Seq(SW)
      /\ n \in 0..NMax /\ i \in Nat /\ half \in {0, 32}
      /\ "WRONG_DATA_LENGTH" \in SW /\ "INCORRECT_DATA" \in SW
      /\ "DENY" \in SW /\ "BAD_STATE" \in SW /\ "OK" \in SW
  BY NMaxAssumption DEF TypeInv, TypeOK, SW
<1>1. CASE Receive
  <2>1. CASE pc' = "Done"
    <3>1. \/ sw' = Append(sw, "WRONG_DATA_LENGTH")
          \/ sw' = Append(sw, "INCORRECT_DATA")
      BY <1>1, <2>1 DEF Receive, Fail
    <3>2. sw' # <<>> /\ sw' # <<"OK">>
      BY <1>0, <3>1, ErrorLog
    <3>3. QED
      BY <3>2 DEF CleanInv
  <2>2. CASE pc' # "Done"
    BY <1>1, <2>2 DEF Receive, Fail, CleanInv, ReviewPhases
  <2>3. QED
    BY <2>1, <2>2
<1>2. CASE FetchAmount
  BY <1>2 DEF FetchAmount, CleanInv, ReviewPhases
<1>3. CASE FetchRedeemer
  <2>1. CASE pc' = "Done"
    <3>1. sw' = sw \o <<"INCORRECT_DATA", "DENY">>
      BY <1>3, <2>1 DEF FetchRedeemer
    <3>2. sw' # <<>> /\ sw' # <<"OK">>
      BY <1>0, <3>1, PairLog
    <3>3. QED
      BY <3>2 DEF CleanInv
  <2>2. CASE pc' # "Done"
    BY <1>3, <2>2 DEF FetchRedeemer, CleanInv, ReviewPhases
  <2>3. QED
    BY <2>1, <2>2
<1>4. CASE Confirm
  <2>1. CASE pc' = "Done"
    <3>1. sw' = Append(sw, "DENY")
      BY <1>4, <2>1 DEF Confirm, Fail
    <3>2. sw' # <<>> /\ sw' # <<"OK">>
      BY <1>0, <3>1, ErrorLog
    <3>3. QED
      BY <3>2 DEF CleanInv
  <2>2. CASE pc' # "Done"
    BY <1>4, <2>2 DEF Confirm, Fail, CleanInv, ReviewPhases
  <2>3. QED
    BY <2>1, <2>2
<1>5. CASE HashSelector
  <2>1. PICK ok \in Answers :
           \/ /\ Fetched(4, ok)
              /\ fed' = Append(fed, <<4, 0>>)
              /\ UNCHANGED <<sw, ui>>
           \/ /\ ~Fetched(4, ok)
              /\ Fail("WRONG_DATA_LENGTH")
              /\ UNCHANGED fed
    BY <1>5 DEF HashSelector
  <2>2. /\ pc = "Selector" /\ pc' = "Payload" /\ i' = 5 /\ half' = 0
        /\ UNCHANGED n
    BY <1>5 DEF HashSelector
  <2>3. sw # <<"OK">>
    BY <2>2 DEF CleanInv
  <2>4. CASE Fetched(4, ok) /\ fed' = Append(fed, <<4, 0>>) /\ UNCHANGED sw
    <3>1. sw = <<>> => fed' = FedPrefix(FedCount(5, 0))
      BY <2>2, <2>4, FedPrefixOne DEF CleanInv, ReviewPhases, FedCount
    <3>2. 5 <= n
      BY <1>0, <2>4 DEF Fetched
    <3>3. QED
      BY <2>2, <2>3, <2>4, <3>1, <3>2 DEF CleanInv, ReviewPhases
  <2>5. CASE Fail("WRONG_DATA_LENGTH")
    <3>1. sw' # <<>> /\ sw' # <<"OK">>
      BY <1>0, <2>5, ErrorLog DEF Fail
    <3>2. QED
      BY <3>1 DEF CleanInv
  <2>6. QED
    BY <2>1, <2>4, <2>5
<1>6. CASE HashPayload
  <2>1. PICK ok \in Answers :
           \/ /\ Fetched(i, ok)
              /\ fed' = Append(fed, <<i, half>>)
              /\ UNCHANGED <<sw, ui>>
           \/ /\ ~Fetched(i, ok)
              /\ Fail("WRONG_DATA_LENGTH")
              /\ UNCHANGED fed
    BY <1>6 DEF HashPayload
  <2>2. /\ pc = "Payload" /\ pc' = "Payload" /\ i < n /\ UNCHANGED n
        /\ IF half = 0 THEN half' = 32 /\ i' = i ELSE half' = 0 /\ i' = i + 1
    BY <1>6 DEF HashPayload
  <2>3. sw # <<"OK">>
    BY <2>2 DEF CleanInv
  <2>4. CASE Fetched(i, ok) /\ fed' = Append(fed, <<i, half>>) /\ UNCHANGED sw
    <3>1. SUFFICES ASSUME sw = <<>>
                   PROVE  /\ 5 <= i' /\ i' <= n' /\ (half' = 32 => i' < n')
                          /\ fed' = FedPrefix(FedCount(i', half'))
      BY <2>2, <2>3, <2>4 DEF CleanInv, ReviewPhases
    <3>2. 5 <= i /\ fed = FedPrefix(FedCount(i, half))
      BY <2>2, <3>1 DEF CleanInv
    <3>3. FedCount(i, half) \in Nat
      BY <1>0, <3>2 DEF FedCount
    <3>4. fed' = FedPrefix(FedCount(i, half) + 1)
      BY <1>0, <2>4, <3>2, <3>3, FedPrefixWord, FedPrefixAppend
    <3>5. FedCount(i', half') = FedCount(i, half) + 1
      BY <1>0, <2>2 DEF FedCount
    <3>6. 5 <= i' /\ i' <= n' /\ (half' = 32 => i' < n')
      BY <1>0, <2>2, <3>2
    <3>7. QED
      BY <3>4, <3>5, <3>6
  <2>5. CASE Fail("WRONG_DATA_LENGTH")
    <3>1. sw' # <<>> /\ sw' # <<"OK">>
      BY <1>0, <2>5, ErrorLog DEF Fail
    <3>2. QED
      BY <3>1 DEF CleanInv
  <2>6. QED
    BY <2>1, <2>4, <2>5
<1>7. CASE HashPayloadDone
  <2>1. /\ pc = "Payload" /\ pc' = "Fields" /\ i >= n /\ f' = 1
        /\ filled' = {1, 4}
        /\ UNCHANGED <<n, sw, fed>>
    BY <1>7 DEF HashPayloadDone
  <2>2. sw # <<"OK">>
    BY <2>1 DEF CleanInv
  <2>3. SUFFICES ASSUME sw = <<>>
                 PROVE  /\ fed' = CommittedPayload'
                        /\ filled' = FilledBefore(f')
    BY <2>1, <2>2 DEF CleanInv, ReviewPhases
  <2>4. i = n /\ half = 0 /\ n >= 5 /\ fed = FedPrefix(FedCount(n, 0))
    BY <1>0, <2>1, <2>3 DEF CleanInv
  <2>5. fed' = CommittedPayload'
    BY <1>0, <2>1, <2>4, FedPrefixAll DEF CommittedPayload
  <2>6. filled' = FilledBefore(f')
    BY <2>1 DEF FilledBefore
  <2>7. QED
    BY <2>5, <2>6
<1>8. CASE EncodeField
  <2>1. PICK ok \in Answers :
           \/ /\ Fetched(FieldFetch[f].chunk, ok)
              /\ filled' = filled \cup {FieldFetch[f].slot}
              /\ UNCHANGED <<sw, ui>>
           \/ /\ ~Fetched(FieldFetch[f].chunk, ok)
              /\ Fail("WRONG_DATA_LENGTH")
              /\ UNCHANGED filled
    BY <1>8 DEF EncodeField
  <2>2. /\ pc = "Fields" /\ f \in 1..NFields /\ f' = f + 1
        /\ pc' = IF f = NFields THEN "Domain" ELSE "Fields"
        /\ UNCHANGED <<n, fed, domainFed>>
    BY <1>8 DEF EncodeField, TypeInv
  <2>3. sw # <<"OK">>
    BY <2>2 DEF CleanInv
  <2>4. CASE filled' = filled \cup {FieldFetch[f].slot} /\ UNCHANGED sw
    <3>1. SUFFICES ASSUME sw = <<>>
                   PROVE  /\ fed' = CommittedPayload'
                          /\ pc' = "Fields" => filled' = FilledBefore(f')
                          /\ pc' = "Domain" => filled' = Slots
      BY <2>2, <2>3, <2>4 DEF CleanInv, ReviewPhases
    <3>2. fed = CommittedPayload /\ filled = FilledBefore(f)
      BY <2>2, <3>1 DEF CleanInv
    <3>3. filled' = FilledBefore(f + 1)
      BY <2>2, <2>4, <3>2, FilledNext
    <3>4. pc' = "Domain" => f + 1 = NFields + 1
      BY <2>2
    <3>5. QED
      BY <2>2, <3>2, <3>3, <3>4, FilledAll DEF CommittedPayload
  <2>5. CASE Fail("WRONG_DATA_LENGTH")
    <3>1. sw' # <<>> /\ sw' # <<"OK">>
      BY <1>0, <2>5, ErrorLog DEF Fail
    <3>2. QED
      BY <3>1 DEF CleanInv
  <2>6. QED
    BY <2>1, <2>4, <2>5
<1>9. CASE HashDomain
  <2>1. PICK ok \in Answers :
           \/ /\ Fetched(7, ok)
              /\ domainFed' = TRUE
              /\ UNCHANGED <<sw, ui>>
           \/ /\ ~Fetched(7, ok)
              /\ Fail("WRONG_DATA_LENGTH")
              /\ UNCHANGED domainFed
    BY <1>9 DEF HashDomain
  <2>2. /\ pc = "Domain" /\ pc' = "Sign"
        /\ UNCHANGED <<n, fed, filled>>
    BY <1>9 DEF HashDomain
  <2>3. sw # <<"OK">>
    BY <2>2 DEF CleanInv
  <2>4. CASE domainFed' = TRUE /\ UNCHANGED sw
    BY <2>2, <2>3, <2>4 DEF CleanInv, ReviewPhases, CommittedPayload
  <2>5. CASE Fail("WRONG_DATA_LENGTH")
    <3>1. sw' # <<>> /\ sw' # <<"OK">>
      BY <1>0, <2>5, ErrorLog DEF Fail
    <3>2. QED
      BY <3>1 DEF CleanInv
  <2>6. QED
    BY <2>1, <2>4, <2>5
<1>10. CASE Sign
  <2>1. /\ pc = "Sign" /\ pc' = "Done"
        /\ UNCHANGED <<n, fed, filled, domainFed>>
    BY <1>10 DEF Sign
  <2>2. sw' # <<>>
    BY <1>0, <1>10, NonEmptyLog DEF Sign
  <2>3. CASE sw' = Append(sw, "OK") /\ sw = <<>>
    BY <2>1, <2>2, <2>3 DEF CleanInv, CommittedPayload
  <2>4. CASE sw' = Append(sw, "OK") /\ sw # <<>>
    BY <1>0, <2>2, <2>4, LateOK DEF CleanInv
  <2>5. CASE sw' \in {sw \o <<"BAD_STATE", "BAD_STATE">>,
                      sw \o <<"BAD_STATE", "OK">>}
    BY <1>0, <2>5, PairLog DEF CleanInv
  <2>6. QED
    BY <1>10, <2>3, <2>4, <2>5 DEF Sign
<1>11. CASE UNCHANGED vars
  BY <1>11 DEF vars, CleanInv, CommittedPayload, FilledBefore
<1>12. QED
  BY <1>1, <1>2, <1>3, <1>4, <1>5, <1>6, <1>7, <1>8, <1>9, <1>10, <1>11
     DEF Next

-----------------------------------------------------------------------------
\* When the host is told nothing but OK, the device hashed exactly the
\* committed tx.data in order (the selector of chunk 4, then both halves of
\* chunks 5..n-1), wrote all 11 struct words from committed data and fed
\* the verifying contract: a failed fetch in fetch_and_hash_tx_data,
\* fetch_and_abi_encode_tx_fields or compute_domain_separator_hash always
\* leaves an error word in the response.
THEOREM CleanRunHashesCommitted == Spec => []CleanRunHashesCommittedData
<1>1. Init => TypeInv /\ CleanInv
  BY InitTypeInv, InitClean
<1>2. TypeInv /\ CleanInv /\ [Next]_vars => (TypeInv /\ CleanInv)'
  BY NextTypeInv, NextClean
<1>3. CleanInv => CleanRunHashesCommittedData
  BY DEF CleanInv, CleanRunHashesCommittedData
<1>4. QED
  BY <1>1, <1>2, <1>3, PTL DEF Spec

=============================================================================
