---------------------------- MODULE WithdrawProofs ----------------------------
(***************************************************************************)
(* Proofs about the WITHDRAW command model: type correctness, and that in  *)
(* the production build the signer is reached only after the user approved *)
(* a redeemer that check_address accepted, for every NMax, Content,        *)
(* OwnScripts and MaxFaults; and that the model implements the safety      *)
(* part of WithdrawAbstract under the refinement mapping of Withdraw.      *)
(***************************************************************************)
EXTENDS Withdraw, TLAPS

\* The points of the display path.
ReviewPhases == {"Receive", "Amount", "Redeemer", "Confirm"}

\* The phases of compute_tx_hash and the signer, all after the display path.
HashPhases == {"Selector", "Payload", "Fields", "Domain", "Sign"}

\* TypeOK with the bound on f that the field loop keeps while it runs.
TypeInv ==
    /\ TypeOK
    /\ pc = "Fields" => f \in 1..NFields

\* The strengthening of SignedOnlyAfterApproval: nothing is approved before
\* the user answers; the approval and the accepted redeemer are established
\* before hashing starts and nothing after the display path changes them;
\* the signer is called only on the way out.
IInv ==
    /\ TypeInv
    /\ signerCalled => pc = "Done"
    /\ pc \in ReviewPhases => ~approved
    /\ pc = "Confirm" => RedeemerOwned(shownRedeemer)
    /\ ~AutoApprove =>
          /\ pc \in HashPhases => approved /\ RedeemerOwned(shownRedeemer)
          /\ signerCalled => approved /\ RedeemerOwned(shownRedeemer)

-----------------------------------------------------------------------------
\* Every field fetch writes a slot of the struct buffer.
LEMMA FieldSlots == \A j \in 1..NFields : FieldFetch[j].slot \in Slots
BY DEF FieldFetch, NFields, Slots

\* A fetch never pushes the fault count past MaxFaults.
LEMMA CountFaultBound ==
    ASSUME NEW idx, NEW ok \in Answers, faults \in 0..MaxFaults,
           CountFault(idx, ok)
    PROVE  faults' \in 0..MaxFaults
<1>1. CASE ok = TRUE
  BY <1>1 DEF CountFault
<1>2. CASE ok # TRUE
  <2>1. faults < MaxFaults
    BY <1>2 DEF Answers
  <2>2. QED
    BY <2>1, MaxFaultsAssumption DEF CountFault
<1>3. QED
  BY <1>1, <1>2

\* Appending one or two elements of T to a sequence over T.
LEMMA AppendType ==
    ASSUME NEW T, NEW q \in Seq(T), NEW e \in T
    PROVE  Append(q, e) \in Seq(T)
OBVIOUS

LEMMA ConcatPairType ==
    ASSUME NEW T, NEW q \in Seq(T), NEW a \in T, NEW b \in T
    PROVE  q \o <<a, b>> \in Seq(T)
OBVIOUS

\* Reporting a status word keeps the two logs typed.
LEMMA FailType ==
    ASSUME sw \in Seq(SW), ui \in Seq(BOOLEAN), NEW w \in SW, Fail(w)
    PROVE  sw' \in Seq(SW) /\ ui' \in Seq(BOOLEAN)
BY AppendType DEF Fail

\* A status-word step of an action: either unchanged or one Fail.
LEMMA LogsType ==
    ASSUME sw \in Seq(SW), ui \in Seq(BOOLEAN), NEW w \in SW,
           Fail(w) \/ UNCHANGED <<sw, ui>>
    PROVE  sw' \in Seq(SW) /\ ui' \in Seq(BOOLEAN)
BY FailType

-----------------------------------------------------------------------------
\* The fetch actions share this shape: a host answer, a fault count and
\* either an update of one variable or a WRONG_DATA_LENGTH report.
LEMMA FetchStep ==
    ASSUME TypeInv, NEW idx,
           NEW ok \in Answers,
           CountFault(idx, ok),
           Fail("WRONG_DATA_LENGTH") \/ UNCHANGED <<sw, ui>>
    PROVE  /\ faults' \in 0..MaxFaults
           /\ sw' \in Seq(SW) /\ ui' \in Seq(BOOLEAN)
<1>1. faults' \in 0..MaxFaults
  BY CountFaultBound DEF TypeInv, TypeOK
<1>2. "WRONG_DATA_LENGTH" \in SW
  BY DEF SW
<1>3. sw' \in Seq(SW) /\ ui' \in Seq(BOOLEAN)
  BY <1>2, LogsType DEF TypeInv, TypeOK
<1>4. QED
  BY <1>1, <1>3

-----------------------------------------------------------------------------
\* The initial states are well typed.
LEMMA InitTypeInv == Init => TypeInv
  <2> SUFFICES ASSUME Init PROVE TypeInv
    OBVIOUS
  <2>1. sw \in Seq(SW) /\ ui \in Seq(BOOLEAN) /\ fed \in Seq(Nat \X {0, 32})
    BY DEF Init
  <2>2. shownAmount \in Content \cup {None} /\ shownRedeemer \in Content \cup {None}
    BY DEF Init
  <2>3. n \in 0..NMax /\ i \in Nat /\ half \in {0, 32} /\ f \in 1..NFields + 1
         /\ faults \in 0..MaxFaults
    BY NMaxAssumption, MaxFaultsAssumption DEF Init, NFields
  <2>4. filled \subseteq Slots /\ pc \in PCs /\ pc # "Fields"
    BY DEF Init, PCs
  <2>5. QED
    BY <2>1, <2>2, <2>3, <2>4 DEF Init, TypeInv, TypeOK

\* Every step keeps the state well typed.
LEMMA NextTypeInv == TypeInv /\ [Next]_vars => TypeInv'
  <2> SUFFICES ASSUME TypeInv, [Next]_vars PROVE TypeInv'
    OBVIOUS
  <2>0. TypeOK
    BY DEF TypeInv
  <2>1. CASE Receive
    <3>1. sw' \in Seq(SW) /\ ui' \in Seq(BOOLEAN)
      <4>1. "WRONG_DATA_LENGTH" \in SW /\ "INCORRECT_DATA" \in SW
        BY DEF SW
      <4>2. QED
        BY <2>0, <2>1, <4>1, LogsType DEF Receive, TypeOK
    <3>2. pc' \in {"Done", "Amount", "Selector"}
      BY <2>1 DEF Receive
    <3>3. QED
      BY <2>0, <2>1, <3>1, <3>2 DEF Receive, TypeInv, TypeOK, PCs
  <2>2. CASE FetchAmount
    <3>1. PICK ok \in Answers :
             /\ buf' = IF Fetched(5, ok) THEN tx[5] ELSE buf
             /\ shownAmount' = buf'
             /\ CountFault(5, ok)
      BY <2>2 DEF FetchAmount
    <3>2. faults' \in 0..MaxFaults
      BY <2>0, <3>1, CountFaultBound DEF TypeOK
    <3>3. buf' \in Content
      BY <2>0, <3>1 DEF TypeOK, DisplayChunks
    <3>4. QED
      BY <2>0, <2>2, <3>1, <3>2, <3>3 DEF FetchAmount, TypeInv, TypeOK, PCs
  <2>3. CASE FetchRedeemer
    <3>1. PICK ok \in Answers :
             LET b == IF Fetched(10, ok) THEN tx[10] ELSE buf
             IN  /\ buf' = b
                 /\ shownRedeemer' = b
                 /\ CountFault(10, ok)
                 /\ \/ /\ RedeemerOwned(b)
                       /\ pc' = "Confirm"
                       /\ UNCHANGED <<sw, ui>>
                    \/ /\ ~RedeemerOwned(b)
                       /\ sw' = sw \o <<"INCORRECT_DATA", "DENY">>
                       /\ ui' = ui \o <<FALSE, FALSE>>
                       /\ pc' = "Done"
      BY <2>3 DEF FetchRedeemer
    <3>2. faults' \in 0..MaxFaults
      BY <2>0, <3>1, CountFaultBound DEF TypeOK
    <3>3. buf' \in Content
      BY <2>0, <3>1 DEF TypeOK, DisplayChunks
    <3>4. sw' \in Seq(SW) /\ ui' \in Seq(BOOLEAN)
      <4>1. "INCORRECT_DATA" \in SW /\ "DENY" \in SW /\ FALSE \in BOOLEAN
        BY DEF SW
      <4>2. QED
        BY <2>0, <3>1, <4>1, ConcatPairType DEF TypeOK
    <3>5. pc' \in {"Confirm", "Done"}
      BY <3>1
    <3>6. QED
      BY <2>0, <2>3, <3>1, <3>2, <3>3, <3>4, <3>5
         DEF FetchRedeemer, TypeInv, TypeOK, PCs
  <2>4. CASE Confirm
    <3>1. sw' \in Seq(SW) /\ ui' \in Seq(BOOLEAN)
      <4>1. "DENY" \in SW
        BY DEF SW
      <4>2. QED
        BY <2>0, <2>4, <4>1, LogsType DEF Confirm, TypeOK
    <3>2. pc' \in {"Selector", "Done"} /\ approved' \in BOOLEAN
      BY <2>0, <2>4 DEF Confirm, TypeOK
    <3>3. QED
      BY <2>0, <2>4, <3>1, <3>2 DEF Confirm, TypeInv, TypeOK, PCs
  <2>5. CASE HashSelector
    <3>1. PICK ok \in Answers :
             /\ CountFault(4, ok)
             /\ \/ /\ Fetched(4, ok)
                   /\ fed' = Append(fed, <<4, 0>>)
                   /\ UNCHANGED <<sw, ui>>
                \/ /\ ~Fetched(4, ok)
                   /\ Fail("WRONG_DATA_LENGTH")
                   /\ UNCHANGED fed
      BY <2>5 DEF HashSelector
    <3>2. /\ faults' \in 0..MaxFaults
          /\ sw' \in Seq(SW) /\ ui' \in Seq(BOOLEAN)
      BY <3>1, FetchStep
    <3>3. fed' \in Seq(Nat \X {0, 32})
      BY <2>0, <3>1, AppendType DEF TypeOK
    <3>4. QED
      BY <2>0, <2>5, <3>2, <3>3 DEF HashSelector, TypeInv, TypeOK, PCs
  <2>6. CASE HashPayload
    <3>1. PICK ok \in Answers :
             /\ CountFault(i, ok)
             /\ \/ /\ Fetched(i, ok)
                   /\ fed' = Append(fed, <<i, half>>)
                   /\ UNCHANGED <<sw, ui>>
                \/ /\ ~Fetched(i, ok)
                   /\ Fail("WRONG_DATA_LENGTH")
                   /\ UNCHANGED fed
      BY <2>6 DEF HashPayload
    <3>2. /\ faults' \in 0..MaxFaults
          /\ sw' \in Seq(SW) /\ ui' \in Seq(BOOLEAN)
      BY <3>1, FetchStep
    <3>3. fed' \in Seq(Nat \X {0, 32})
      BY <2>0, <3>1, AppendType DEF TypeOK
    <3>4. i' \in Nat /\ half' \in {0, 32}
      BY <2>0, <2>6 DEF HashPayload, TypeOK
    <3>5. QED
      BY <2>0, <2>6, <3>2, <3>3, <3>4 DEF HashPayload, TypeInv, TypeOK, PCs
  <2>7. CASE HashPayloadDone
    BY <2>0, <2>7 DEF HashPayloadDone, TypeInv, TypeOK, PCs, Slots, NFields
  <2>8. CASE EncodeField
    <3>1. f \in 1..NFields
      BY <2>8 DEF EncodeField, TypeInv
    <3>2. PICK ok \in Answers :
             /\ CountFault(FieldFetch[f].chunk, ok)
             /\ \/ /\ Fetched(FieldFetch[f].chunk, ok)
                   /\ filled' = filled \cup {FieldFetch[f].slot}
                   /\ UNCHANGED <<sw, ui>>
                \/ /\ ~Fetched(FieldFetch[f].chunk, ok)
                   /\ Fail("WRONG_DATA_LENGTH")
                   /\ UNCHANGED filled
      BY <2>8 DEF EncodeField
    <3>3. /\ faults' \in 0..MaxFaults
          /\ sw' \in Seq(SW) /\ ui' \in Seq(BOOLEAN)
      BY <3>2, FetchStep
    <3>4. filled' \subseteq Slots
      BY <2>0, <3>1, <3>2, FieldSlots DEF TypeOK
    <3>5. f' \in 1..NFields + 1 /\ (pc' = "Fields" => f' \in 1..NFields)
      BY <3>1, <2>8 DEF EncodeField, NFields
    <3>6. QED
      BY <2>0, <2>8, <3>3, <3>4, <3>5 DEF EncodeField, TypeInv, TypeOK, PCs
  <2>9. CASE HashDomain
    <3>1. PICK ok \in Answers :
             /\ CountFault(7, ok)
             /\ \/ /\ Fetched(7, ok)
                   /\ domainFed' = TRUE
                   /\ UNCHANGED <<sw, ui>>
                \/ /\ ~Fetched(7, ok)
                   /\ Fail("WRONG_DATA_LENGTH")
                   /\ UNCHANGED domainFed
      BY <2>9 DEF HashDomain
    <3>2. /\ faults' \in 0..MaxFaults
          /\ sw' \in Seq(SW) /\ ui' \in Seq(BOOLEAN)
      BY <3>1, FetchStep
    <3>3. domainFed' \in BOOLEAN
      BY <2>0, <3>1 DEF TypeOK
    <3>4. QED
      BY <2>0, <2>9, <3>2, <3>3 DEF HashDomain, TypeInv, TypeOK, PCs
  <2>10. CASE Sign
    <3>1. sw' \in Seq(SW) /\ ui' \in Seq(BOOLEAN)
      <4>1. "OK" \in SW /\ "BAD_STATE" \in SW
        BY DEF SW
      <4>2. QED
        BY <2>0, <2>10, <4>1, AppendType, ConcatPairType DEF Sign, TypeOK
    <3>2. QED
      BY <2>0, <2>10, <3>1 DEF Sign, TypeInv, TypeOK, PCs
  <2>11. CASE UNCHANGED vars
    BY <2>11 DEF vars, TypeInv, TypeOK
  <2>12. QED
    BY <2>1, <2>2, <2>3, <2>4, <2>5, <2>6, <2>7, <2>8, <2>9, <2>10, <2>11
       DEF Next

\* TypeInv holds in every reachable state.
THEOREM TypeCorrect == Spec => []TypeInv
BY InitTypeInv, NextTypeInv, PTL DEF Spec

\* Every variable of handler_withdraw keeps its type: the status-word and
\* UI logs hold only the handler's words, the fault count stays within
\* MaxFaults, the loop indices within their ranges.
THEOREM TypeOKHolds == Spec => []TypeOK
<1>1. TypeInv => TypeOK
  BY DEF TypeInv
<1>2. QED
  BY <1>1, TypeCorrect, PTL

-----------------------------------------------------------------------------
\* IInv holds in every reachable state.
LEMMA InvariantIInv == Spec => []IInv
<1>1. Init => IInv
  BY InitTypeInv DEF Init, IInv, HashPhases, ReviewPhases
<1>2. IInv /\ [Next]_vars => IInv'
  <2> SUFFICES ASSUME IInv, [Next]_vars PROVE IInv'
    OBVIOUS
  <2>0. TypeInv'
    BY NextTypeInv DEF IInv
  <2> USE DEF IInv, HashPhases, ReviewPhases
  <2>1. CASE Receive
    BY <2>0, <2>1 DEF Receive
  <2>2. CASE FetchAmount
    BY <2>0, <2>2 DEF FetchAmount
  <2>3. CASE FetchRedeemer
    <3>1. PICK ok \in Answers :
             LET b == IF Fetched(10, ok) THEN tx[10] ELSE buf
             IN  /\ shownRedeemer' = b
                 /\ \/ /\ RedeemerOwned(b)
                       /\ pc' = "Confirm"
                    \/ /\ ~RedeemerOwned(b)
                       /\ pc' = "Done"
      BY <2>3 DEF FetchRedeemer
    <3>2. pc' = "Confirm" => RedeemerOwned(shownRedeemer')
      BY <3>1
    <3>3. pc' \in {"Confirm", "Done"} /\ signerCalled' = signerCalled
          /\ approved' = approved
      BY <3>1, <2>3 DEF FetchRedeemer
    <3>4. ~signerCalled /\ ~approved
      BY <2>3 DEF FetchRedeemer
    <3>5. QED
      BY <2>0, <3>2, <3>3, <3>4
  <2>4. CASE Confirm
    BY <2>0, <2>4 DEF Confirm
  <2>5. CASE HashSelector
    BY <2>0, <2>5 DEF HashSelector
  <2>6. CASE HashPayload
    BY <2>0, <2>6 DEF HashPayload
  <2>7. CASE HashPayloadDone
    BY <2>0, <2>7 DEF HashPayloadDone
  <2>8. CASE EncodeField
    BY <2>0, <2>8 DEF EncodeField
  <2>9. CASE HashDomain
    BY <2>0, <2>9 DEF HashDomain
  <2>10. CASE Sign
    BY <2>0, <2>10 DEF Sign
  <2>11. CASE UNCHANGED vars
    BY <2>0, <2>11 DEF vars
  <2>12. QED
    BY <2>1, <2>2, <2>3, <2>4, <2>5, <2>6, <2>7, <2>8, <2>9, <2>10, <2>11
       DEF Next
<1>3. QED
  BY <1>1, <1>2, PTL DEF Spec

\* In the production build every call of the signer follows the user's
\* approval of a redeemer that check_address matched against the signing
\* key: a denial, a rejected script and a failed address check all end
\* the command before compute_tx_hash, and nothing after the display path
\* changes what was approved (display_data_content_and_confirm,
\* handler_withdraw).
THEOREM SignerNeedsApproval == Spec => []SignedOnlyAfterApproval
<1>1. IInv => SignedOnlyAfterApproval
  BY DEF IInv, SignedOnlyAfterApproval
<1>2. QED
  BY <1>1, InvariantIInv, PTL

-----------------------------------------------------------------------------
\* handler_withdraw implements the request lifecycle of WithdrawAbstract
\* (safety part): parsing either rejects the request or opens it for
\* review, the user's answer or the redeemer check decides it, every step
\* of compute_tx_hash leaves the abstract request unchanged, and the one
\* call of the signer closes it.
THEOREM Refinement == Spec => Abs!SafeSpec
<1>1. Init => Abs!Init
  BY DEF Init, Abs!Init, StageOf
<1>2. IInv /\ [Next]_vars => [Abs!Next]_Abs!avars
  <2> SUFFICES ASSUME IInv, [Next]_vars PROVE [Abs!Next]_Abs!avars
    OBVIOUS
  <2>1. CASE Receive
    <3>1. /\ StageOf(pc) = "Idle"
          /\ UNCHANGED <<approved, shownRedeemer, signerCalled>>
          /\ \/ pc' = "Done"
             \/ pc' = IF AutoApprove THEN "Selector" ELSE "Amount"
      BY <2>1 DEF Receive, StageOf
    <3>2. CASE pc' = "Done"
      BY <3>1, <3>2 DEF Abs!Next, Abs!Reject, StageOf
    <3>3. CASE pc' # "Done" /\ AutoApprove
      BY <3>1, <3>3 DEF Abs!Next, Abs!Open, StageOf
    <3>4. CASE pc' # "Done" /\ ~AutoApprove
      BY <3>1, <3>4 DEF Abs!Next, Abs!Open, StageOf
    <3>5. QED
      BY <3>2, <3>3, <3>4
  <2>2. CASE FetchAmount
    BY <2>2 DEF FetchAmount, StageOf, Abs!avars
  <2>3. CASE FetchRedeemer
    <3>1. /\ pc = "Redeemer" /\ ~approved
          /\ UNCHANGED <<approved, signerCalled>>
          /\ pc' \in {"Confirm", "Done"}
      BY <2>3 DEF FetchRedeemer, IInv, ReviewPhases
    <3>2. CASE pc' = "Confirm"
      BY <3>1, <3>2 DEF StageOf, Abs!avars
    <3>3. CASE pc' = "Done"
      BY <3>1, <3>3 DEF Abs!Next, Abs!Deny, StageOf
    <3>4. QED
      BY <3>1, <3>2, <3>3
  <2>4. CASE Confirm
    <3>1. /\ pc = "Confirm" /\ RedeemerOwned(shownRedeemer)
          /\ UNCHANGED <<shownRedeemer, signerCalled>>
          /\ \/ approved' = TRUE /\ pc' = "Selector"
             \/ UNCHANGED approved /\ pc' = "Done"
      BY <2>4 DEF Confirm, IInv
    <3>2. CASE approved' = TRUE /\ pc' = "Selector"
      BY <3>1, <3>2 DEF Abs!Next, Abs!Approve, StageOf, RedeemerOwned
    <3>3. CASE UNCHANGED approved /\ pc' = "Done"
      BY <3>1, <3>3 DEF Abs!Next, Abs!Deny, StageOf
    <3>4. QED
      BY <3>1, <3>2, <3>3
  <2>5. CASE HashSelector
    BY <2>5 DEF HashSelector, StageOf, Abs!avars
  <2>6. CASE HashPayload
    BY <2>6 DEF HashPayload, StageOf, Abs!avars
  <2>7. CASE HashPayloadDone
    BY <2>7 DEF HashPayloadDone, StageOf, Abs!avars
  <2>8. CASE EncodeField
    BY <2>8 DEF EncodeField, StageOf, Abs!avars
  <2>9. CASE HashDomain
    BY <2>9 DEF HashDomain, StageOf, Abs!avars
  <2>10. CASE Sign
    BY <2>10 DEF Sign, Abs!Next, Abs!Sign, StageOf
  <2>11. CASE UNCHANGED vars
    BY <2>11 DEF vars, Abs!avars
  <2>12. QED
    BY <2>1, <2>2, <2>3, <2>4, <2>5, <2>6, <2>7, <2>8, <2>9, <2>10, <2>11
       DEF Next
<1>3. QED
  BY <1>1, <1>2, InvariantIInv, PTL DEF Spec, Abs!SafeSpec


-----------------------------------------------------------------------------
\* Once the user approved on the device, the approval stands and the amount
\* and redeemer the prompt showed never change: the display path is behind
\* the approval, and compute_tx_hash and the signer never touch what it
\* showed (display_data_content_and_confirm, handler_withdraw).
THEOREM ApprovalFreezesView == Spec => ApprovedViewFrozen
<1>1. IInv /\ [Next]_vars
        => [approved => approved' /\ UNCHANGED <<shownAmount, shownRedeemer>>]_vars
  <2> SUFFICES ASSUME IInv, [Next]_vars, approved
               PROVE  approved' /\ UNCHANGED <<shownAmount, shownRedeemer>>
    OBVIOUS
  <2>1. pc \notin ReviewPhases
    BY DEF IInv
  <2>2. ~(FetchAmount \/ FetchRedeemer \/ Confirm \/ Receive)
    BY <2>1 DEF FetchAmount, FetchRedeemer, Confirm, Receive, ReviewPhases
  <2>3. CASE HashSelector
    BY <2>3 DEF HashSelector
  <2>4. CASE HashPayload
    BY <2>4 DEF HashPayload
  <2>5. CASE HashPayloadDone
    BY <2>5 DEF HashPayloadDone
  <2>6. CASE EncodeField
    BY <2>6 DEF EncodeField
  <2>7. CASE HashDomain
    BY <2>7 DEF HashDomain
  <2>8. CASE Sign
    BY <2>8 DEF Sign
  <2>9. CASE UNCHANGED vars
    BY <2>9 DEF vars
  <2>10. QED
    BY <2>2, <2>3, <2>4, <2>5, <2>6, <2>7, <2>8, <2>9 DEF Next
<1>2. QED
  BY <1>1, InvariantIInv, PTL DEF Spec, ApprovedViewFrozen

=============================================================================
