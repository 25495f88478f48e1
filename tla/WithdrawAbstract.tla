--------------------------- MODULE WithdrawAbstract ---------------------------
(***************************************************************************)
(* What one WITHDRAW request promises its user (spec sections 1 and 5),    *)
(* without chunks, hashes or status words.  A request is received; a       *)
(* malformed one is closed at once.  In the production build the user      *)
(* reviews it and either denies it or approves a redeemer that belongs to  *)
(* the signing key; the performance-test build skips the review.  An       *)
(* approved request is signed at most once, or abandoned, and a closed     *)
(* request stays closed.  Every request is eventually closed.              *)
(***************************************************************************)
CONSTANTS
    Content,      \* possible redeemer scripts
    OwnScripts,   \* those that decode to the address derived at the path
    AutoApprove,  \* the review is skipped
    None          \* no redeemer approved

VARIABLES
    stage,             \* "Idle", "Review", "Approved" or "Closed"
    approvedRedeemer,  \* the redeemer the user approved, or None
    signed             \* a signature was produced

avars == <<stage, approvedRedeemer, signed>>

Init ==
    /\ stage = "Idle"
    /\ approvedRedeemer = None
    /\ signed = FALSE

\* The request is malformed.
Reject ==
    /\ stage = "Idle"
    /\ stage' = "Closed"
    /\ UNCHANGED <<approvedRedeemer, signed>>

\* The request is shown to the user, or goes straight on without review.
Open ==
    /\ stage = "Idle"
    /\ stage' = IF AutoApprove THEN "Approved" ELSE "Review"
    /\ UNCHANGED <<approvedRedeemer, signed>>

Approve ==
    /\ stage = "Review"
    /\ stage' = "Approved"
    /\ approvedRedeemer' \in OwnScripts
    /\ UNCHANGED signed

\* The user, or the redeemer check, turns the request down.
Deny ==
    /\ stage = "Review"
    /\ stage' = "Closed"
    /\ UNCHANGED <<approvedRedeemer, signed>>

Sign ==
    /\ stage = "Approved"
    /\ stage' = "Closed"
    /\ signed' = TRUE
    /\ UNCHANGED approvedRedeemer

\* An approved request fails before it is signed.
Abandon ==
    /\ stage = "Approved"
    /\ stage' = "Closed"
    /\ UNCHANGED <<approvedRedeemer, signed>>

Next == Reject \/ Open \/ Approve \/ Deny \/ Sign \/ Abandon

SafeSpec == Init /\ [][Next]_avars

Spec == SafeSpec /\ WF_avars(Next)

\* Only a request the user approved with its own redeemer, or one of the
\* performance-test build, is ever signed.
SignedOnlyApproved ==
    signed => AutoApprove \/ approvedRedeemer \in OwnScripts

=============================================================================
