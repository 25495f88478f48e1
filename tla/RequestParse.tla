----------------------------- MODULE RequestParse -----------------------------
(***************************************************************************)
(* handler_withdraw's parse of the request (src/handler/withdraw.c): the   *)
(* path length byte, the path read into bip32_path[MAX_BIP32_PATH_STEPS],  *)
(* the varint chunk count and the 32-byte root, chained with ||, and only  *)
(* then the check of the path length against MAX_BIP32_PATH_STEPS.         *)
(*                                                                         *)
(* The readers (buffer_read_u8, buffer_read_bip32_path, buffer_read_varint *)
(* and buffer_read_bytes) are library code: they consume bytes from the    *)
(* front of the buffer and fail when too few remain, and                   *)
(* buffer_read_bip32_path reads its n 4-byte entries one by one into       *)
(* out[0], out[1], ... without knowing the size of out.  The request's     *)
(* bytes are abstracted to the number that remain.                         *)
(***************************************************************************)
EXTENDS Naturals, Sequences

CONSTANTS
    MaxSteps,    \* MAX_BIP32_PATH_STEPS
    PathLens,    \* values of the path length byte the host may send
    Sizes        \* request sizes in bytes

ASSUME MaxStepsAssumption == MaxSteps \in Nat \ {0}
ASSUME PathLensAssumption == PathLens \subseteq 0..255 /\ PathLens # {}
ASSUME SizesAssumption == Sizes \subseteq Nat /\ Sizes # {}

VARIABLES
    size,        \* bytes in the request
    remaining,   \* bytes not yet read
    pathLen,     \* bip32_path_len
    j,           \* entries of bip32_path written
    sw,          \* status words sent
    pc           \* "len", "path", "varint", "root", "check", "done", "accepted"

vars == <<size, remaining, pathLen, j, sw, pc>>

RootLen == 32
\* Bytes a varint takes: its first byte selects 1, 3, 5 or 9.
VarintLens == {1, 3, 5, 9}

\* SEND_SW and the UI failure notification, and return.
Reject(word) == /\ sw' = Append(sw, word)
                /\ pc' = "done"

Init ==
    /\ size \in Sizes
    /\ remaining = size
    /\ pathLen = 0
    /\ j = 0
    /\ sw = <<>>
    /\ pc = "len"

ReadPathLen ==
    /\ pc = "len"
    /\ \/ /\ remaining >= 1
          /\ \E p \in PathLens : pathLen' = p
          /\ remaining' = remaining - 1
          /\ pc' = "path"
          /\ UNCHANGED sw
       \/ /\ remaining < 1
          /\ Reject("WRONG_DATA_LENGTH")
          /\ UNCHANGED <<remaining, pathLen>>
    /\ UNCHANGED <<size, j>>

\* Mutant: the reader's loop runs while i <= n.
ReadPathEntryPastEnd ==
    /\ pc = "path"
    /\ j <= pathLen
    /\ \/ /\ remaining >= 4
          /\ j' = j + 1
          /\ remaining' = remaining - 4
          /\ UNCHANGED <<sw, pc>>
       \/ /\ remaining < 4
          /\ Reject("WRONG_DATA_LENGTH")
          /\ UNCHANGED <<j, remaining>>
    /\ UNCHANGED <<size, pathLen>>

\* One buffer_read_u32 of buffer_read_bip32_path, into bip32_path[j].
ReadPathEntry ==
    /\ pc = "path"
    /\ j < pathLen
    /\ \/ /\ remaining >= 4
          /\ j' = j + 1
          /\ remaining' = remaining - 4
          /\ UNCHANGED <<sw, pc>>
       \/ /\ remaining < 4
          /\ Reject("WRONG_DATA_LENGTH")
          /\ UNCHANGED <<j, remaining>>
    /\ UNCHANGED <<size, pathLen>>

ReadPathDone ==
    /\ pc = "path"
    /\ j = pathLen
    /\ pc' = "varint"
    /\ UNCHANGED <<size, remaining, pathLen, j, sw>>

ReadVarint ==
    /\ pc = "varint"
    /\ \E n \in VarintLens :
          \/ /\ remaining >= n
             /\ remaining' = remaining - n
             /\ pc' = "root"
             /\ UNCHANGED sw
          \/ /\ remaining < n
             /\ Reject("WRONG_DATA_LENGTH")
             /\ UNCHANGED remaining
    /\ UNCHANGED <<size, pathLen, j>>

ReadRoot ==
    /\ pc = "root"
    /\ \/ /\ remaining >= RootLen
          /\ remaining' = remaining - RootLen
          /\ pc' = "check"
          /\ UNCHANGED sw
       \/ /\ remaining < RootLen
          /\ Reject("WRONG_DATA_LENGTH")
          /\ UNCHANGED remaining
    /\ UNCHANGED <<size, pathLen, j>>

\* Mutant: the bound check lets one step too many through.
CheckPathLenOffByOne ==
    /\ pc = "check"
    /\ \/ /\ pathLen > MaxSteps + 1
          /\ Reject("INCORRECT_DATA")
       \/ /\ pathLen <= MaxSteps + 1
          /\ pc' = "accepted"
          /\ UNCHANGED sw
    /\ UNCHANGED <<size, remaining, pathLen, j>>

\* if (bip32_path_len > MAX_BIP32_PATH_STEPS) INCORRECT_DATA
CheckPathLen ==
    /\ pc = "check"
    /\ \/ /\ pathLen > MaxSteps
          /\ Reject("INCORRECT_DATA")
       \/ /\ pathLen <= MaxSteps
          /\ pc' = "accepted"
          /\ UNCHANGED sw
    /\ UNCHANGED <<size, remaining, pathLen, j>>

Next == ReadPathLen \/ ReadPathEntry \/ ReadPathDone \/ ReadVarint
          \/ ReadRoot \/ CheckPathLen

Spec == Init /\ [][Next]_vars

-----------------------------------------------------------------------------
TypeOK ==
    /\ size \in Sizes
    /\ remaining \in 0..size
    /\ pathLen \in PathLens \cup {0}
    /\ j \in 0..pathLen
    /\ sw \in Seq({"WRONG_DATA_LENGTH", "INCORRECT_DATA"})
    /\ pc \in {"len", "path", "varint", "root", "check", "done", "accepted"}

\* A request handed on to the display path has a path that fits
\* bip32_path and carried every field in full: the path, the shortest
\* varint and the root.
AcceptedRequestWellFormed ==
    pc = "accepted" =>
        /\ pathLen <= MaxSteps
        /\ size >= 1 + 4 * pathLen + 1 + RootLen

\* Spec 2 (WithdrawalRequest: a path of bounded length): the parse never
\* writes past the end of bip32_path[MAX_BIP32_PATH_STEPS].
PathWritesWithinArray == j <= MaxSteps

=============================================================================
