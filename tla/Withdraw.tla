------------------------------- MODULE Withdraw -------------------------------
(***************************************************************************)
(* The WITHDRAW command of the Acre Ledger app (src/handler/withdraw.c):   *)
(* handler_withdraw, the display path display_data_content_and_confirm,    *)
(* the streaming hash engine compute_tx_hash and the signer sign_tx_hash.  *)
(*                                                                         *)
(* The command runs single-threaded; its only suspension points are the    *)
(* round trips to the host that fetch one Merkle leaf (a 64-byte chunk)    *)
(* and the wait for the user's answer.  Each such round trip is one step   *)
(* here, together with the synchronous code that follows it up to the next *)
(* round trip.  The host is untrusted: every fetch may fail (bad proof,    *)
(* wrong length, index out of range), but a fetch that succeeds returns    *)
(* the chunk the Merkle root commits to.                                   *)
(*                                                                         *)
(* Data is abstracted to what the properties tell apart: a chunk's content *)
(* is a model value of Content; the data hash is the sequence of           *)
(* <<chunk, offset>> words fed to the Keccak context; the 11-slot struct   *)
(* buffer is the set of slots written from committed data.                 *)
(***************************************************************************)
EXTENDS Naturals, Sequences

CONSTANTS
    NMax,         \* largest n_chunks the request may carry
    Content,      \* possible contents of a 64-byte chunk
    OwnScripts,   \* contents whose redeemer script decodes (get_script_type,
                  \* get_script_address) to the address derived at the path
    AutoApprove,  \* HAVE_AUTOAPPROVE_FOR_PERF_TESTS is defined
    None,         \* "nothing displayed yet"
    MaxFaults     \* bound on the fetches the host makes fail on purpose

ASSUME NMaxAssumption == NMax \in Nat
ASSUME ContentAssumption == Content # {} /\ OwnScripts \subseteq Content
ASSUME AutoApproveAssumption == AutoApprove \in BOOLEAN
ASSUME NoneAssumption == None \notin Content
ASSUME MaxFaultsAssumption == MaxFaults \in Nat

VARIABLES
    pc,             \* where handler_withdraw is
    n,              \* n_chunks of the request
    tx,             \* committed content of the chunks the display reads
    buf,            \* data_chunk of display_data_content_and_confirm
    shownAmount,    \* chunk the displayed amount was read from
    shownRedeemer,  \* chunk the displayed redeemer script was read from
    approved,       \* the user approved on the device
    sw,             \* status words sent to the host, in order
    ui,             \* ui_post_processing_confirm_withdraw calls, in order
    fed,            \* words fed to the tx.data Keccak context
    i, half,        \* loop index and half (0 or 32) of fetch_and_hash_tx_data
    f,              \* next field of fetch_and_abi_encode_tx_fields
    filled,         \* struct-buffer slots written from committed data
    domainFed,      \* verifying contract fed to the domain-separator hash
    signerCalled,   \* crypto_ecdsa_sign_sha256_hash_with_key was called
    faults          \* fetches of existing leaves the host made fail

vars == <<pc, n, tx, buf, shownAmount, shownRedeemer, approved, sw, ui,
          fed, i, half, f, filled, domainFed, signerCalled, faults>>

PCs == {"Receive", "Amount", "Redeemer", "Confirm", "Selector", "Payload",
        "Fields", "Domain", "Sign", "Done"}

\* Status words of boilerplate/sw.h used by the handler.
SW == {"OK", "WRONG_DATA_LENGTH", "INCORRECT_DATA", "DENY", "BAD_STATE"}
ErrorSW == SW \ {"OK"}

\* The chunks the display path reads (DATA_CHUNK_INDEX_1, DATA_CHUNK_INDEX_2).
DisplayChunks == {5, 10}

\* The fields fetch_and_abi_encode_tx_fields fetches, in call order: the
\* chunk each is read from and its slot in the 11-word struct buffer.
\* Slot 1 (SafeTxTypeHash) and slot 4 (keccak of tx.data) are copied.
FieldFetch == << [chunk |-> 0, slot |-> 2],    \* to
                 [chunk |-> 1, slot |-> 3],    \* value
                 [chunk |-> 3, slot |-> 5],    \* operation
                 [chunk |-> 1, slot |-> 6],    \* safeTxGas
                 [chunk |-> 2, slot |-> 7],    \* baseGas
                 [chunk |-> 2, slot |-> 8],    \* gasPrice
                 [chunk |-> 0, slot |-> 9],    \* gasToken
                 [chunk |-> 0, slot |-> 10],   \* refundReceiver
                 [chunk |-> 3, slot |-> 11] >> \* nonce
NFields == 9
Slots == 1..11

-----------------------------------------------------------------------------
(* Helpers *)

\* call_get_merkle_leaf_element succeeds: the host answered with a valid
\* proof (ok) for a leaf that exists.
Fetched(idx, ok) == ok /\ idx < n

\* The host's possible answers to a fetch: it can always make a fetch fail
\* (bad proof or length), up to MaxFaults times for leaves that exist.
Answers == IF faults < MaxFaults THEN BOOLEAN ELSE {TRUE}

CountFault(idx, ok) ==
    faults' = IF ~ok /\ idx < n THEN faults + 1 ELSE faults

\* Report a status word and the best-effort UI failure notification.
Fail(word) == /\ sw' = Append(sw, word)
              /\ ui' = Append(ui, FALSE)

\* The redeemer script decodes and check_address finds it is the address
\* derived at the BIP32 path.
RedeemerOwned(b) == b \in OwnScripts

-----------------------------------------------------------------------------
Init ==
    /\ pc = "Receive"
    /\ n \in 0..NMax
    /\ tx \in [DisplayChunks -> Content]
    /\ buf \in Content          \* data_chunk is not initialised
    /\ shownAmount = None
    /\ shownRedeemer = None
    /\ approved = FALSE
    /\ sw = <<>>
    /\ ui = <<>>
    /\ fed = <<>>
    /\ i = 0
    /\ half = 0
    /\ f = 1
    /\ filled = {}
    /\ domainFed = FALSE
    /\ signerCalled = FALSE
    /\ faults = 0

\* Mutant: the display path is compiled out of the production build too.
ReceiveSkipsReview ==
    /\ pc = "Receive"
    /\ \/ /\ Fail("WRONG_DATA_LENGTH")
          /\ pc' = "Done"
       \/ /\ Fail("INCORRECT_DATA")
          /\ pc' = "Done"
       \/ /\ pc' = "Selector"
          /\ UNCHANGED <<sw, ui>>
    /\ UNCHANGED <<n, tx, buf, shownAmount, shownRedeemer, approved, fed, i,
                   half, f, filled, domainFed, signerCalled, faults>>

\* handler_withdraw parses the request: a short buffer is WRONG_DATA_LENGTH,
\* a path longer than MAX_BIP32_PATH_STEPS is INCORRECT_DATA.
Receive ==
    /\ pc = "Receive"
    /\ \/ /\ Fail("WRONG_DATA_LENGTH")
          /\ pc' = "Done"
       \/ /\ Fail("INCORRECT_DATA")
          /\ pc' = "Done"
       \/ /\ pc' = IF AutoApprove THEN "Selector" ELSE "Amount"
          /\ UNCHANGED <<sw, ui>>
    /\ UNCHANGED <<n, tx, buf, shownAmount, shownRedeemer, approved, fed, i,
                   half, f, filled, domainFed, signerCalled, faults>>

\* Mutant: the amount fetch is not tied to its point of the display path.
FetchAmountUnguarded ==
    /\ \E ok \in Answers :
          LET b == IF Fetched(5, ok) THEN tx[5] ELSE buf
          IN  /\ buf' = b
              /\ shownAmount' = b
              /\ CountFault(5, ok)
    /\ pc' = "Redeemer"
    /\ UNCHANGED <<n, tx, shownRedeemer, approved, sw, ui, fed, i, half, f,
                   filled, domainFed, signerCalled>>

\* Fetch chunk 5 and format the amount.  The return value of the fetch is
\* ignored: on failure data_chunk keeps its previous content.
FetchAmount ==
    /\ pc = "Amount"
    /\ \E ok \in Answers :
          LET b == IF Fetched(5, ok) THEN tx[5] ELSE buf
          IN  /\ buf' = b
              /\ shownAmount' = b
              /\ CountFault(5, ok)
    /\ pc' = "Redeemer"
    /\ UNCHANGED <<n, tx, shownRedeemer, approved, sw, ui, fed, i, half, f,
                   filled, domainFed, signerCalled>>

\* Fetch chunk 10 (result ignored again), decode the redeemer script and
\* check it against the derived address.  On rejection the display path
\* sends INCORRECT_DATA and returns false, upon which handler_withdraw
\* sends DENY.
FetchRedeemer ==
    /\ pc = "Redeemer"
    /\ \E ok \in Answers :
          LET b == IF Fetched(10, ok) THEN tx[10] ELSE buf
          IN  /\ buf' = b
              /\ shownRedeemer' = b
              /\ CountFault(10, ok)
              /\ \/ /\ RedeemerOwned(b)
                    /\ pc' = "Confirm"
                    /\ UNCHANGED <<sw, ui>>
                 \/ /\ ~RedeemerOwned(b)
                    /\ sw' = sw \o <<"INCORRECT_DATA", "DENY">>
                    /\ ui' = ui \o <<FALSE, FALSE>>
                    /\ pc' = "Done"
    /\ UNCHANGED <<n, tx, shownAmount, approved, fed, i, half, f, filled,
                   domainFed, signerCalled>>

\* Mutant: the rejection does not return, hashing and signing go on.
ConfirmDenyFallsThrough ==
    /\ pc = "Confirm"
    /\ \/ /\ approved' = TRUE
          /\ pc' = "Selector"
          /\ UNCHANGED <<sw, ui>>
       \/ /\ Fail("DENY")
          /\ pc' = "Selector"
          /\ UNCHANGED approved
    /\ UNCHANGED <<n, tx, buf, shownAmount, shownRedeemer, fed, i, half, f,
                   filled, domainFed, signerCalled, faults>>

\* The user approves or rejects the amount and redeemer on the device.
Confirm ==
    /\ pc = "Confirm"
    /\ \/ /\ approved' = TRUE
          /\ pc' = "Selector"
          /\ UNCHANGED <<sw, ui>>
       \/ /\ Fail("DENY")
          /\ pc' = "Done"
          /\ UNCHANGED approved
    /\ UNCHANGED <<n, tx, buf, shownAmount, shownRedeemer, fed, i, half, f,
                   filled, domainFed, signerCalled, faults>>

\* Mutant: the payload loop starts at chunk 6.
HashSelectorFromSix ==
    /\ pc = "Selector"
    /\ \E ok \in Answers :
          /\ CountFault(4, ok)
          /\ \/ /\ Fetched(4, ok)
                /\ fed' = Append(fed, <<4, 0>>)
                /\ UNCHANGED <<sw, ui>>
             \/ /\ ~Fetched(4, ok)
                /\ Fail("WRONG_DATA_LENGTH")
                /\ UNCHANGED fed
    /\ i' = 6
    /\ half' = 0
    /\ pc' = "Payload"
    /\ UNCHANGED <<n, tx, buf, shownAmount, shownRedeemer, approved, f,
                   filled, domainFed, signerCalled>>

\* compute_tx_hash: feed the 4-byte selector of chunk 4.  A failed fetch
\* sends WRONG_DATA_LENGTH and returns, and the caller carries on.
HashSelector ==
    /\ pc = "Selector"
    /\ \E ok \in Answers :
          /\ CountFault(4, ok)
          /\ \/ /\ Fetched(4, ok)
                /\ fed' = Append(fed, <<4, 0>>)
                /\ UNCHANGED <<sw, ui>>
             \/ /\ ~Fetched(4, ok)
                /\ Fail("WRONG_DATA_LENGTH")
                /\ UNCHANGED fed
    /\ i' = 5
    /\ half' = 0
    /\ pc' = "Payload"
    /\ UNCHANGED <<n, tx, buf, shownAmount, shownRedeemer, approved, f,
                   filled, domainFed, signerCalled>>

\* Mutant: the chunk offset is not reset to 0 for the next chunk.
HashPayloadNoHalfReset ==
    /\ pc = "Payload"
    /\ i < n
    /\ \E ok \in Answers :
          /\ CountFault(i, ok)
          /\ \/ /\ Fetched(i, ok)
                /\ fed' = Append(fed, <<i, half>>)
                /\ UNCHANGED <<sw, ui>>
             \/ /\ ~Fetched(i, ok)
                /\ Fail("WRONG_DATA_LENGTH")
                /\ UNCHANGED fed
    /\ IF half = 0 THEN half' = 32 /\ UNCHANGED i
                   ELSE half' = half + 32 /\ i' = i + 1
    /\ UNCHANGED <<pc, n, tx, buf, shownAmount, shownRedeemer, approved, f,
                   filled, domainFed, signerCalled>>

\* One fetch_and_add_chunk_to_hash of the loop over chunks 5..n-1: the low
\* half of chunk i, then its high half.
HashPayload ==
    /\ pc = "Payload"
    /\ i < n
    /\ \E ok \in Answers :
          /\ CountFault(i, ok)
          /\ \/ /\ Fetched(i, ok)
                /\ fed' = Append(fed, <<i, half>>)
                /\ UNCHANGED <<sw, ui>>
             \/ /\ ~Fetched(i, ok)
                /\ Fail("WRONG_DATA_LENGTH")
                /\ UNCHANGED fed
    /\ IF half = 0 THEN half' = 32 /\ UNCHANGED i
                   ELSE half' = 0 /\ i' = i + 1
    /\ UNCHANGED <<pc, n, tx, buf, shownAmount, shownRedeemer, approved, f,
                   filled, domainFed, signerCalled>>

\* Mutant: the loop exit tests i > n.
HashPayloadDoneOffByOne ==
    /\ pc = "Payload"
    /\ i > n
    /\ filled' = {1, 4}
    /\ f' = 1
    /\ pc' = "Fields"
    /\ UNCHANGED <<n, tx, buf, shownAmount, shownRedeemer, approved, sw, ui,
                   fed, i, half, domainFed, signerCalled, faults>>

\* The loop ends; the data hash is finalised and the struct buffer gets its
\* two copied words (SafeTxTypeHash and the data hash).
HashPayloadDone ==
    /\ pc = "Payload"
    /\ i >= n
    /\ filled' = {1, 4}
    /\ f' = 1
    /\ pc' = "Fields"
    /\ UNCHANGED <<n, tx, buf, shownAmount, shownRedeemer, approved, sw, ui,
                   fed, i, half, domainFed, signerCalled, faults>>

\* One fetch_and_add_chunk_to_buffer: on failure the slot is left as it was
\* (uninitialised stack memory) and the caller carries on.
EncodeField ==
    /\ pc = "Fields"
    /\ \E ok \in Answers :
          /\ CountFault(FieldFetch[f].chunk, ok)
          /\ \/ /\ Fetched(FieldFetch[f].chunk, ok)
                /\ filled' = filled \cup {FieldFetch[f].slot}
                /\ UNCHANGED <<sw, ui>>
             \/ /\ ~Fetched(FieldFetch[f].chunk, ok)
                /\ Fail("WRONG_DATA_LENGTH")
                /\ UNCHANGED filled
    /\ f' = f + 1
    /\ pc' = IF f = NFields THEN "Domain" ELSE "Fields"
    /\ UNCHANGED <<n, tx, buf, shownAmount, shownRedeemer, approved, fed, i,
                   half, domainFed, signerCalled>>

\* compute_domain_separator_hash: feed the verifying contract of chunk 7,
\* then the final 0x1901 combination.
HashDomain ==
    /\ pc = "Domain"
    /\ \E ok \in Answers :
          /\ CountFault(7, ok)
          /\ \/ /\ Fetched(7, ok)
                /\ domainFed' = TRUE
                /\ UNCHANGED <<sw, ui>>
             \/ /\ ~Fetched(7, ok)
                /\ Fail("WRONG_DATA_LENGTH")
                /\ UNCHANGED domainFed
    /\ pc' = "Sign"
    /\ UNCHANGED <<n, tx, buf, shownAmount, shownRedeemer, approved, fed, i,
                   half, f, filled, signerCalled>>

\* sign_tx_hash and the re-encoding of the DER signature.  If signing fails
\* sign_tx_hash sends BAD_STATE but handler_withdraw does not look at the
\* result: it decodes the uninitialised sig buffer, and either its r/s
\* lengths exceed 33 (BAD_STATE again) or it sends a 65-byte response.
Sign ==
    /\ pc = "Sign"
    /\ signerCalled' = TRUE
    /\ \/ /\ sw' = Append(sw, "OK")
          /\ ui' = Append(ui, TRUE)
       \/ /\ sw' = sw \o <<"BAD_STATE", "BAD_STATE">>
          /\ ui' = ui \o <<FALSE, FALSE>>
       \/ /\ sw' = sw \o <<"BAD_STATE", "OK">>
          /\ ui' = ui \o <<FALSE, TRUE>>
    /\ pc' = "Done"
    /\ UNCHANGED <<n, tx, buf, shownAmount, shownRedeemer, approved, fed, i,
                   half, f, filled, domainFed, faults>>

Next ==
    \/ Receive
    \/ FetchAmount
    \/ FetchRedeemer
    \/ Confirm
    \/ HashSelector
    \/ HashPayload
    \/ HashPayloadDone
    \/ EncodeField
    \/ HashDomain
    \/ Sign

\* The host answers every fetch and the user answers the prompt.
Spec == Init /\ [][Next]_vars /\ WF_vars(Next)

-----------------------------------------------------------------------------
(* Properties *)

Sent(w) == \E k \in 1..Len(sw) : sw[k] = w

TypeOK ==
    /\ pc \in PCs
    /\ n \in 0..NMax
    /\ tx \in [DisplayChunks -> Content]
    /\ buf \in Content
    /\ shownAmount \in Content \cup {None}
    /\ shownRedeemer \in Content \cup {None}
    /\ approved \in BOOLEAN
    /\ sw \in Seq(SW)
    /\ ui \in Seq(BOOLEAN)
    /\ fed \in Seq(Nat \X {0, 32})
    /\ i \in Nat
    /\ half \in {0, 32}
    /\ f \in 1..NFields + 1
    /\ filled \subseteq Slots
    /\ domainFed \in BOOLEAN
    /\ signerCalled \in BOOLEAN
    /\ faults \in 0..MaxFaults

\* The words the spec says make up tx.data: the selector of chunk 4, then
\* both halves of every chunk 5..m-1, low half first.
PayloadWords(m) ==
    [k \in 1..(1 + 2 * (m - 5)) |->
        IF k = 1 THEN <<4, 0>>
                 ELSE <<5 + (k - 2) \div 2, ((k - 2) % 2) * 32>>]

CommittedPayload == IF n > 5 THEN PayloadWords(n) ELSE <<<<4, 0>>>>

\* In the production build the signer is only ever called after the user
\* approved on the device a redeemer that check_address matched against
\* the signing key (display_data_content_and_confirm, handler_withdraw).
SignedOnlyAfterApproval ==
    signerCalled /\ ~AutoApprove =>
        /\ approved
        /\ RedeemerOwned(shownRedeemer)

\* When the host sees nothing but OK, the device hashed exactly the
\* committed tx.data, in order, every struct field from committed data and
\* the verifying contract (fetch_and_hash_tx_data, compute_tx_hash).
CleanRunHashesCommittedData ==
    sw = <<"OK">> =>
        /\ fed = CommittedPayload
        /\ filled = Slots
        /\ domainFed

\* Spec 7 and 9: every request reports exactly one outcome.  The display
\* path sends INCORRECT_DATA for a rejected redeemer and handler_withdraw
\* then sends DENY as well; failed fetches in compute_tx_hash do not stop it.
SingleStatusWord == Len(sw) <= 1

\* Spec 7 and 8: no signature is emitted for a request that failed, and a
\* chunk-retrieval failure never reaches the signer.
NoSignatureWithFailure ==
    Sent("OK") => \A k \in 1..Len(sw) : sw[k] = "OK"

\* Spec 4.1 and 4.2: a fetch failure aborts the request, so when the host is
\* told only OK the amount and redeemer the user approved were read from
\* the committed chunks 5 and 10.
DisplayedIsCommitted ==
    sw = <<"OK">> /\ ~AutoApprove =>
        /\ n > 10
        /\ shownAmount = tx[5]
        /\ shownRedeemer = tx[10]

\* Once the user approved on the device, the approval stands and the amount
\* and redeemer the prompt showed never change: compute_tx_hash and the
\* signer run on what was approved, never on a re-read of the display
\* chunks or of data_chunk (display_data_content_and_confirm,
\* handler_withdraw).
ApprovedViewFrozen ==
    [][approved => approved' /\ UNCHANGED <<shownAmount, shownRedeemer>>]_vars

\* Every request ends and the host receives a status word.
EventuallyAnswered == <>(pc = "Done" /\ sw # <<>>)

-----------------------------------------------------------------------------
(* Refinement of WithdrawAbstract *)

\* The stage of the abstract request that each point of handler_withdraw
\* belongs to: parsing, the display path, the hash and sign phases, done.
StageOf(p) ==
    CASE p = "Receive"                          -> "Idle"
      [] p \in {"Amount", "Redeemer", "Confirm"} -> "Review"
      [] p = "Done"                             -> "Closed"
      [] OTHER                                  -> "Approved"

Abs == INSTANCE WithdrawAbstract
         WITH stage <- StageOf(pc),
              approvedRedeemer <- IF approved THEN shownRedeemer ELSE None,
              signed <- signerCalled

\* handler_withdraw implements the request lifecycle: parse, review on the
\* device (production build), at most one call of the signer and only
\* after approval of an owned redeemer, no way back from a decision, and
\* every request eventually closed.
ImplementsAbstract == Abs!Spec


=============================================================================
