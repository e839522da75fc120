--------------------------- MODULE EscrowCustody ---------------------------
(***************************************************************************)
(* What a commitment deposit promises to the member and to the Chama, with *)
(* no request, callback or worker in sight: it is taken from one payment;  *)
(* a default is triggered or the member leaves, and never both; and only   *)
(* then the money goes, once, to the Chama or back to the member.          *)
(* CommitmentDeposit implements this specification.                        *)
(***************************************************************************)
CONSTANTS
    Payment,     \* payments of the deposit that a customer may make
    Settlement   \* evidence of refunds and of forfeitures

VARIABLES
    standing,    \* what the member and the Chama may expect
    taken,       \* the payments taken into custody
    given        \* what left it, and on which evidence

escrowVars == <<standing, taken, given>>

EscrowInit ==
    /\ standing = "unpaid"
    /\ taken = {}
    /\ given = {}

Pay(p) ==
    /\ standing = "unpaid"
    /\ standing' = "held"
    /\ taken' = {p}
    /\ UNCHANGED given

TriggerDefault ==
    /\ standing = "held"
    /\ standing' = "defaulted"
    /\ UNCHANGED <<taken, given>>

Leave ==
    /\ standing = "held"
    /\ standing' = "leaving"
    /\ UNCHANGED <<taken, given>>

Return(s) ==
    /\ standing = "leaving"
    /\ standing' = "returned"
    /\ given' = {<<"commitment_refund", s>>}
    /\ UNCHANGED taken

Surrender(s) ==
    /\ standing = "defaulted"
    /\ standing' = "surrendered"
    /\ given' = {<<"commitment_forfeiture", s>>}
    /\ UNCHANGED taken

EscrowNext ==
    \/ \E p \in Payment : Pay(p)
    \/ TriggerDefault \/ Leave
    \/ \E s \in Settlement : Return(s) \/ Surrender(s)

EscrowSpec == EscrowInit /\ [][EscrowNext]_escrowVars
=============================================================================
