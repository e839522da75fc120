------------------------- MODULE CommitmentDeposit -------------------------
(***************************************************************************)
(* The commitment deposit of one membership, from its M-Pesa payment to    *)
(* its refund or forfeiture (src/services/commitment.service.ts,           *)
(* commitment-payment.service.ts).                                         *)
(*                                                                         *)
(* Each operation of CommitmentService is one transaction that locks the   *)
(* deposit, the membership and the application, hence one action.  The     *)
(* payment service uses no transaction: every statement of its request and *)
(* of its callback commits alone, and the process may die in between.      *)
(*                                                                         *)
(* The provider is external: it asks the customer, who pays or does not,   *)
(* and reports that one outcome any number of times.  A paid attempt has a *)
(* receipt number of its own, so a receipt is identified with its attempt. *)
(* The amount is that of the accepted Constitution and never changes; the  *)
(* code moves all of it or nothing, so it needs no number.                 *)
(***************************************************************************)
EXTENDS Naturals, FiniteSets

CONSTANTS
    Attempt,     \* bound: commitment_payment_attempts rows
    Evidence     \* bound: provider references of refunds, rule references of forfeitures


VARIABLES
    deposit,     \* commitment_deposits: state, receipt, source of the last transition
    membership,  \* chama_members.membership_status
    application, \* chama_applications.status
    attempt,     \* commitment_payment_attempts, with where request and callback stand
    custody      \* ledger_transactions of the deposit: the commitment_* journals

depositVars == <<deposit, membership, application, attempt, custody>>

MembershipStatus == {"active", "pending", "suspended", "defaulted", "exited"}
CommitmentState ==
    {"applied", "held", "at_risk", "default_triggered", "forfeited",
     "eligible_for_refund", "refund_requested", "refunded"}
NoReceipt == "none"

ASSUME AttemptAssumption == NoReceipt \notin Attempt

\* `run` is where initiate stands, `hook` where the callback stands, and
\* `provider` what the customer did.
NoAttempt == [status |-> "none", referenced |-> FALSE, run |-> "idle",
              hook |-> "idle", provider |-> "none"]

\* A join that requires a commitment leaves these three rows.
DepositInit ==
    /\ deposit = [state |-> "applied", receipt |-> NoReceipt, source |-> "join_flow"]
    /\ membership = "pending"
    /\ application = "commitment_pending"
    /\ attempt = [n \in Attempt |-> NoAttempt]
    /\ custody = {}

-----------------------------------------------------------------------------
\* initiate: the deposit and a pending attempt are looked up without a lock.
RequestPayment(n) ==
    /\ attempt[n] = NoAttempt
    /\ deposit.state = "applied"
    /\ \A o \in Attempt : attempt[o].status # "pending"
    /\ attempt' = [attempt EXCEPT ![n].run = "insert"]
    /\ UNCHANGED <<deposit, membership, application, custody>>

\* A unique index allows one pending attempt; the loser's request fails.
InsertAttempt(n) ==
    /\ attempt[n].run = "insert"
    /\ attempt' = IF \E o \in Attempt : attempt[o].status = "pending"
                  THEN [attempt EXCEPT ![n] = NoAttempt]
                  ELSE [attempt EXCEPT ![n].status = "pending", ![n].run = "dispatch"]
    /\ UNCHANGED <<deposit, membership, application, custody>>

\* The gateway call; an error does not say whether the customer was asked.
Dispatch(n) ==
    /\ attempt[n].run = "dispatch"
    /\ \/ \E next \in {"record", "fail"} :
            attempt' = [attempt EXCEPT ![n].run = next, ![n].provider = "accepted"]
       \/ attempt' = [attempt EXCEPT ![n].run = "fail"]
    /\ UNCHANGED <<deposit, membership, application, custody>>

\* The CheckoutRequestID is stored, and the request may not learn that it was.
RecordDispatch(n) ==
    /\ attempt[n].run = "record"
    /\ \/ \E next \in {"idle", "fail"} :
            attempt' = [attempt EXCEPT ![n].run = next, ![n].referenced = TRUE]
       \/ attempt' = [attempt EXCEPT ![n].run = "fail"]
    /\ UNCHANGED <<deposit, membership, application, custody>>

\* The catch block marks the attempt failed whatever it is by now.
FailDispatch(n) ==
    /\ attempt[n].run = "fail"
    /\ attempt' = [attempt EXCEPT ![n].run = "idle", ![n].status = "failed"]
    /\ UNCHANGED <<deposit, membership, application, custody>>

CustomerDecides(n) ==
    /\ attempt[n].provider = "accepted"
    /\ \E outcome \in {"paid", "refused"} :
          attempt' = [attempt EXCEPT ![n].provider = outcome]
    /\ UNCHANGED <<deposit, membership, application, custody>>

\* The process dies between two statements of the request or of the callback.
Crash(n) ==
    /\ \/ attempt[n].run # "idle" /\ attempt' = [attempt EXCEPT ![n].run = "idle"]
       \/ attempt[n].hook # "idle" /\ attempt' = [attempt EXCEPT ![n].hook = "idle"]
    /\ UNCHANGED <<deposit, membership, application, custody>>

-----------------------------------------------------------------------------
\* processStkCallback: the row is found by its CheckoutRequestID, and a
\* confirmed one is replayed.
Open(n) == attempt[n].referenced /\ attempt[n].status # "confirmed" /\ attempt[n].hook = "idle"

CallbackFailure(n) ==
    /\ attempt[n].provider = "refused"
    /\ Open(n)
    /\ attempt' = [attempt EXCEPT ![n].status = "failed"]
    /\ UNCHANGED <<deposit, membership, application, custody>>

CallbackSuccess(n) ==
    /\ attempt[n].provider = "paid"
    /\ Open(n)
    /\ attempt' = [attempt EXCEPT ![n].hook = "hold"]
    /\ UNCHANGED <<deposit, membership, application, custody>>

AnyReceipt(n) == deposit.state = "held"
AlreadyHeldBy(n) == deposit.state = "held" /\ deposit.receipt = n

Payable ==
    /\ deposit.state = "applied"
    /\ application = "commitment_pending"
    /\ membership = "pending"

Transition(state, source) == deposit' = [deposit EXCEPT !.state = state, !.source = source]

\* confirmHoldFromProvider.  The Constitution was accepted by the join.  A
\* conflict ends the callback with an error.
ConfirmHold(n) ==
    /\ attempt[n].hook = "hold"
    /\ \/ /\ AlreadyHeldBy(n)
          /\ attempt' = [attempt EXCEPT ![n].hook = "store"]
          /\ UNCHANGED <<deposit, membership, application, custody>>
       \/ /\ Payable
          /\ deposit' = [state |-> "held", receipt |-> n, source |-> "provider_confirmation"]
          /\ custody' = custody \cup {<<"commitment_hold", n>>}
          /\ membership' = "active"
          /\ application' = "approved"
          /\ attempt' = [attempt EXCEPT ![n].hook = "store"]
       \/ /\ ~AlreadyHeldBy(n) /\ ~Payable
          /\ attempt' = [attempt EXCEPT ![n].hook = "idle"]
          /\ UNCHANGED <<deposit, membership, application, custody>>

StoreConfirmed(n) ==
    /\ attempt[n].hook = "store"
    /\ attempt' = [attempt EXCEPT ![n].hook = "idle", ![n].status = "confirmed"]
    /\ UNCHANGED <<deposit, membership, application, custody>>

-----------------------------------------------------------------------------
\* The boundary of the rules engine: transitions that move no money.
MarkAtRisk ==
    /\ deposit.state = "held"
    /\ Transition("at_risk", "rules_engine")
    /\ UNCHANGED <<membership, application, attempt, custody>>

MarkDefaultTriggered ==
    /\ deposit.state = "at_risk"
    /\ Transition("default_triggered", "rules_engine")
    /\ membership' = "defaulted"
    /\ UNCHANGED <<application, attempt, custody>>

MarkEligibleForRefund ==
    /\ deposit.state \in {"held", "at_risk"}
    /\ membership # "defaulted"
    /\ Transition("eligible_for_refund", "rules_engine")
    /\ UNCHANGED <<membership, application, attempt, custody>>

RequestRefund ==
    /\ deposit.state = "eligible_for_refund"
    /\ membership # "defaulted"
    /\ Transition("refund_requested", "member_request")
    /\ UNCHANGED <<membership, application, attempt, custody>>

\* The provider, or the rules engine, repeats itself: only the first evidence
\* finds the deposit in the state it asks for.
RefundableAgain == deposit.state \in {"refund_requested", "refunded"} /\ membership # "defaulted"
Refundable == deposit.state = "refund_requested" /\ membership # "defaulted"
ForfeitableEarly == deposit.state \in {"at_risk", "default_triggered"}
Forfeitable == deposit.state = "default_triggered"

ConfirmRefund(e) ==
    /\ Refundable
    /\ Transition("refunded", "provider_refund_confirmation")
    /\ custody' = custody \cup {<<"commitment_refund", e>>}
    /\ UNCHANGED <<membership, application, attempt>>

Forfeit(e) ==
    /\ Forfeitable
    /\ Transition("forfeited", "rules_engine")
    /\ custody' = custody \cup {<<"commitment_forfeiture", e>>}
    /\ UNCHANGED <<membership, application, attempt>>

\* updateMember of chama management sets any status, whatever the deposit is.
SetMembership(status) ==
    /\ membership # status
    /\ membership' = status
    /\ UNCHANGED <<deposit, application, attempt, custody>>

-----------------------------------------------------------------------------
PaymentRequest(n) ==
    \/ RequestPayment(n) \/ InsertAttempt(n) \/ Dispatch(n) \/ RecordDispatch(n)
    \/ FailDispatch(n) \/ Crash(n) \/ CustomerDecides(n)

PaymentCallback(n) ==
    CallbackFailure(n) \/ CallbackSuccess(n) \/ ConfirmHold(n) \/ StoreConfirmed(n)

Custody ==
    \/ MarkAtRisk \/ MarkDefaultTriggered \/ MarkEligibleForRefund \/ RequestRefund
    \/ \E e \in Evidence : ConfirmRefund(e) \/ Forfeit(e)
    \/ \E status \in MembershipStatus : SetMembership(status)

DepositNext == Custody \/ \E n \in Attempt : PaymentRequest(n) \/ PaymentCallback(n)

DepositSpec == DepositInit /\ [][DepositNext]_depositVars

-----------------------------------------------------------------------------
DepositRow ==
    [state : CommitmentState, receipt : Attempt \cup {NoReceipt},
     source : {"join_flow", "provider_confirmation", "rules_engine", "member_request",
               "provider_refund_confirmation", "be08_penalty_worker"}]

AttemptRow ==
    [status : {"none", "pending", "failed", "confirmed"},
     referenced : BOOLEAN,
     run : {"idle", "insert", "dispatch", "record", "fail"},
     hook : {"idle", "hold", "store"},
     provider : {"none", "accepted", "paid", "refused"}]

DepositTypeOK ==
    /\ deposit \in DepositRow
    /\ membership \in MembershipStatus
    /\ application \in {"commitment_pending", "approved"}
    /\ attempt \in [Attempt -> AttemptRow]
    /\ custody \subseteq ({"commitment_hold"} \X Attempt)
                  \cup ({"commitment_refund", "commitment_forfeiture"} \X Evidence)

Journals(kinds) == {j \in custody : j[1] \in kinds}
Moved(kinds) == Cardinality(Journals(kinds))

\* The money in custody follows the state of the deposit: it is taken once, from
\* the payment the deposit names, and leaves once, refunded or forfeited and never
\* both, over any second payment, repeated callback or repeated evidence
\* (confirmHoldFromProvider, confirmRefundFromProvider, forfeitFromRule).
EscrowFollowsState ==
    /\ Journals({"commitment_hold"}) =
          IF deposit.state = "applied" THEN {} ELSE {<<"commitment_hold", deposit.receipt>>}
    /\ Moved({"commitment_refund"}) = IF deposit.state = "refunded" THEN 1 ELSE 0
    /\ Moved({"commitment_forfeiture"}) = IF deposit.state = "forfeited" THEN 1 ELSE 0

\* What the member is told of a payment is true: a confirmed attempt was paid and
\* is the one the deposit is held by, although its row is updated outside the
\* transaction that took the money; so no two attempts are ever confirmed
\* (commitment-payment.service.ts, processStkCallback).
ConfirmedAttemptBacksDeposit ==
    \A n \in Attempt : attempt[n].status = "confirmed" =>
        /\ attempt[n].provider = "paid"
        /\ deposit.receipt = n

-----------------------------------------------------------------------------
\* The abstract custody: its standing is read off the state of the deposit, the
\* money that came and went off the journals.
Standing ==
    CASE deposit.state = "applied"                                    -> "unpaid"
      [] deposit.state \in {"held", "at_risk"}                        -> "held"
      [] deposit.state = "default_triggered"                          -> "defaulted"
      [] deposit.state \in {"eligible_for_refund", "refund_requested"} -> "leaving"
      [] deposit.state = "refunded"                                   -> "returned"
      [] deposit.state = "forfeited"                                  -> "surrendered"

Promise == INSTANCE EscrowCustody WITH
    Payment    <- Attempt,
    Settlement <- Evidence,
    standing   <- Standing,
    taken      <- {n \in Attempt : <<"commitment_hold", n>> \in custody},
    given      <- Journals({"commitment_refund", "commitment_forfeiture"})

\* The deposit keeps the promise step by step: one payment in; out only after the
\* default, or the leave, that justifies it; and never a way back, whatever
\* requests, callbacks, evidence and membership changes interleave
\* (commitment.service.ts, commitment-payment.service.ts).
ImplementsEscrow == Promise!EscrowSpec
=============================================================================
