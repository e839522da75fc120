---------------------- MODULE CommitmentDepositProofs ----------------------
(***************************************************************************)
(* Proofs about CommitmentDeposit, for any number of payment attempts and  *)
(* any evidence, and about PenaltyAssessment, whose worker is one more     *)
(* author of its transitions.  The inductive invariant IInv adds to the    *)
(* properties what the places of a request and of a callback know: nothing *)
(* was asked of the customer before the dispatch, a callback that is past  *)
(* its checks reports a payment, and one about to store its result has the *)
(* deposit.  PenaltyInv adds what an assessment under way knows.           *)
(***************************************************************************)
EXTENDS PenaltyAssessment, FiniteSetTheorems, WellFoundedInduction, TLAPS

NothingAskedYet ==
    \A n \in Attempt : attempt[n].run \in {"insert", "dispatch"} =>
        /\ attempt[n].provider = "none"
        /\ attempt[n].hook = "idle"
        /\ attempt[n].status # "confirmed"

CallbackReportsPayment ==
    \A n \in Attempt : attempt[n].hook # "idle" => attempt[n].provider = "paid"

StoredCallbackHolds ==
    \A n \in Attempt : attempt[n].hook = "store" => deposit.receipt = n

AppliedHasNoReceipt ==
    deposit.state = "applied" <=> deposit.receipt = NoReceipt

\* EscrowFollowsState without cardinalities.
OneJournal(kind, moved) ==
    IF moved THEN \E e \in Evidence : Journals({kind}) = {<<kind, e>>}
    ELSE Journals({kind}) = {}

Escrow ==
    /\ Journals({"commitment_hold"}) =
          IF deposit.state = "applied" THEN {} ELSE {<<"commitment_hold", deposit.receipt>>}
    /\ OneJournal("commitment_refund", deposit.state = "refunded")
    /\ OneJournal("commitment_forfeiture", deposit.state = "forfeited")

Callbacks == NothingAskedYet /\ CallbackReportsPayment /\ StoredCallbackHolds
             /\ ConfirmedAttemptBacksDeposit

IInv == DepositTypeOK /\ AppliedHasNoReceipt /\ Escrow /\ Callbacks

USE AttemptAssumption DEF NoReceipt

-----------------------------------------------------------------------------
\* The rows of a new join satisfy the invariant.
LEMMA InitInvariant == DepositInit => IInv
<1> SUFFICES ASSUME DepositInit PROVE IInv
    OBVIOUS
<1> USE DEF DepositInit, NoAttempt
<1>1. DepositTypeOK
    BY DEF DepositTypeOK, AttemptRow, DepositRow, CommitmentState, MembershipStatus
<1>2. AppliedHasNoReceipt
    BY DEF AppliedHasNoReceipt
<1>3. Escrow
    BY DEF Escrow, OneJournal, Journals
<1>4. Callbacks
    BY DEF Callbacks, NothingAskedYet, CallbackReportsPayment, StoredCallbackHolds,
           ConfirmedAttemptBacksDeposit
<1>5. QED
    BY <1>1, <1>2, <1>3, <1>4 DEF IInv

\* What two updates of an attempt, and a transition, leave as they are.
LEMMA FailedRow ==
    ASSUME NEW r \in AttemptRow
    PROVE  [r EXCEPT !.run = "idle", !.status = "failed"] \in AttemptRow
BY DEF AttemptRow

\* The row of an attempt whose hook is done.
LEMMA ConfirmedRow ==
    ASSUME NEW r \in AttemptRow
    PROVE  [r EXCEPT !.hook = "idle", !.status = "confirmed"] \in AttemptRow
BY DEF AttemptRow

\* A transition of the deposit leaves its receipt alone.
LEMMA TransitionKeepsReceipt ==
    ASSUME deposit \in DepositRow, NEW state \in CommitmentState,
           NEW source \in {"rules_engine", "member_request", "provider_refund_confirmation"},
           Transition(state, source)
    PROVE  /\ deposit' \in DepositRow
           /\ deposit'.receipt = deposit.receipt
           /\ deposit'.state = state
BY DEF DepositRow, Transition

\* A statement of a request or callback that leaves the deposit alone.
LEMMA PaymentStepPreserves ==
    ASSUME IInv, NEW n \in Attempt,
           \/ PaymentRequest(n)
           \/ CallbackFailure(n) \/ CallbackSuccess(n) \/ StoreConfirmed(n)
    PROVE  IInv'
<1> USE DEF IInv
<1>1. UNCHANGED <<deposit, membership, application, custody>>
    BY DEF PaymentRequest, RequestPayment, InsertAttempt, Dispatch, RecordDispatch,
           FailDispatch, Crash, CustomerDecides, CallbackFailure, CallbackSuccess, StoreConfirmed
<1>2. AppliedHasNoReceipt' /\ Escrow'
    BY <1>1 DEF AppliedHasNoReceipt, Escrow, OneJournal, Journals
<1> USE DEF DepositTypeOK, Callbacks, NothingAskedYet, CallbackReportsPayment,
            StoredCallbackHolds, ConfirmedAttemptBacksDeposit
<1>3. CASE RequestPayment(n)
    <2>1. DepositTypeOK'
        BY <1>1, <1>3 DEF RequestPayment, NoAttempt, AttemptRow
    <2>2. Callbacks'
        BY <1>1, <1>3 DEF RequestPayment, NoAttempt, AttemptRow
    <2>3. QED
        BY <1>2, <2>1, <2>2
<1>4. CASE InsertAttempt(n)
    BY <1>1, <1>2, <1>4 DEF InsertAttempt, NoAttempt, AttemptRow
<1>5. CASE Dispatch(n)
    BY <1>1, <1>2, <1>5 DEF Dispatch, AttemptRow
<1>6. CASE RecordDispatch(n)
    BY <1>1, <1>2, <1>6 DEF RecordDispatch, AttemptRow
<1>7. CASE FailDispatch(n)
    <2>a. attempt' = [attempt EXCEPT ![n] = [attempt[n] EXCEPT !.run = "idle", !.status = "failed"]]
        BY <1>7 DEF FailDispatch
    <2>b. [attempt[n] EXCEPT !.run = "idle", !.status = "failed"] \in AttemptRow
        BY FailedRow
    <2>1. DepositTypeOK'
        BY <1>1, <2>a, <2>b
    <2>2. Callbacks'
        BY <1>1, <1>7 DEF FailDispatch, AttemptRow
    <2>3. QED
        BY <1>2, <2>1, <2>2
<1>8. CASE Crash(n)
    BY <1>1, <1>2, <1>8 DEF Crash, AttemptRow
<1>9. CASE CustomerDecides(n)
    BY <1>1, <1>2, <1>9 DEF CustomerDecides, AttemptRow
<1>10. CASE CallbackFailure(n)
    BY <1>1, <1>2, <1>10 DEF CallbackFailure, Open, AttemptRow
<1>11. CASE CallbackSuccess(n)
    BY <1>1, <1>2, <1>11 DEF CallbackSuccess, Open, AttemptRow
<1>12. CASE StoreConfirmed(n)
    <2>a. attempt' = [attempt EXCEPT ![n] = [attempt[n] EXCEPT !.hook = "idle", !.status = "confirmed"]]
        BY <1>12 DEF StoreConfirmed
    <2>b. [attempt[n] EXCEPT !.hook = "idle", !.status = "confirmed"] \in AttemptRow
        BY ConfirmedRow
    <2>1. DepositTypeOK'
        BY <1>1, <2>a, <2>b
    <2>2. Callbacks'
        BY <1>1, <1>12 DEF StoreConfirmed, AttemptRow
    <2>3. QED
        BY <1>2, <2>1, <2>2
<1>13. QED
    BY <1>3, <1>4, <1>5, <1>6, <1>7, <1>8, <1>9, <1>10, <1>11, <1>12 DEF PaymentRequest

\* A callback takes the money into custody only while nobody holds the deposit.
LEMMA ConfirmHoldPreserves ==
    ASSUME IInv, NEW n \in Attempt, ConfirmHold(n)
    PROVE  IInv'
<1> USE DEF IInv
<1>1. CASE UNCHANGED <<deposit, membership, application, custody>>
    <2>1. AppliedHasNoReceipt' /\ Escrow'
        BY <1>1 DEF AppliedHasNoReceipt, Escrow, OneJournal, Journals
    <2>2. DepositTypeOK' /\ Callbacks'
        BY <1>1 DEF ConfirmHold, AlreadyHeldBy, Payable, DepositTypeOK, AttemptRow, AppliedHasNoReceipt,
              Callbacks, NothingAskedYet,
              CallbackReportsPayment, StoredCallbackHolds, ConfirmedAttemptBacksDeposit
    <2>3. QED
        BY <2>1, <2>2
<1>2. CASE ~UNCHANGED <<deposit, membership, application, custody>>
    <2> USE DEF DepositTypeOK
    <2>1. /\ Payable
          /\ attempt[n].hook = "hold"
          /\ deposit' = [state |-> "held", receipt |-> n, source |-> "provider_confirmation"]
          /\ custody' = custody \cup {<<"commitment_hold", n>>}
          /\ membership' = "active"
          /\ application' = "approved"
          /\ attempt' = [attempt EXCEPT ![n].hook = "store"]
        BY <1>2 DEF ConfirmHold
    <2>2. deposit.receipt = NoReceipt /\ deposit.state = "applied"
        BY <2>1 DEF Payable, AppliedHasNoReceipt
    <2>3. DepositTypeOK'
        BY <2>1 DEF DepositRow, AttemptRow, CommitmentState, MembershipStatus
    <2>4. AppliedHasNoReceipt'
        BY <2>1 DEF AppliedHasNoReceipt
    <2>5. Escrow'
        BY <2>1, <2>2 DEF Escrow, OneJournal, Journals
    <2>6. Callbacks'
        BY <2>1, <2>2 DEF Callbacks, NothingAskedYet, CallbackReportsPayment,
              StoredCallbackHolds, ConfirmedAttemptBacksDeposit
    <2>7. QED
        BY <2>3, <2>4, <2>5, <2>6
<1>3. QED
    BY <1>1, <1>2

\* A transition that moves no money.
LEMMA TransitionPreserves ==
    ASSUME IInv, deposit.state # "applied",
           NEW state \in CommitmentState \ {"applied", "refunded", "forfeited"},
           NEW source \in {"rules_engine", "member_request"}, Transition(state, source),
           deposit.state \notin {"refunded", "forfeited"},
           membership' \in MembershipStatus, UNCHANGED <<application, attempt, custody>>
    PROVE  IInv'
<1> USE DEF IInv
<1>1. deposit' \in DepositRow /\ deposit'.receipt = deposit.receipt /\ deposit'.state = state
    BY TransitionKeepsReceipt DEF DepositTypeOK
<1>2. DepositTypeOK'
    BY <1>1 DEF DepositTypeOK
<1>3. AppliedHasNoReceipt'
    BY <1>1 DEF AppliedHasNoReceipt
<1>4. Callbacks'
    BY <1>1 DEF Callbacks, NothingAskedYet, CallbackReportsPayment,
          StoredCallbackHolds, ConfirmedAttemptBacksDeposit
<1>5. Escrow'
    BY <1>1 DEF Escrow, OneJournal, Journals
<1>6. QED
    BY <1>2, <1>3, <1>4, <1>5

\* The transition that ends custody, with its journal.
LEMMA SettlementPreserves ==
    ASSUME IInv, NEW e \in Evidence, ConfirmRefund(e) \/ Forfeit(e)
    PROVE  IInv'
<1> DEFINE final == IF ConfirmRefund(e) THEN "refunded" ELSE "forfeited"
           kind  == IF ConfirmRefund(e) THEN "commitment_refund" ELSE "commitment_forfeiture"
<1> USE DEF IInv
<1>1. /\ deposit.state \notin {"applied", "refunded", "forfeited"}
      /\ custody' = custody \cup {<<kind, e>>}
      /\ UNCHANGED <<membership, application, attempt>>
      /\ \E source \in {"rules_engine", "provider_refund_confirmation"} : Transition(final, source)
    BY DEF ConfirmRefund, Forfeit, Refundable, Forfeitable
<1>2. deposit' \in DepositRow /\ deposit'.receipt = deposit.receipt /\ deposit'.state = final
    BY <1>1, TransitionKeepsReceipt DEF DepositTypeOK, CommitmentState
<1>3. DepositTypeOK'
    BY <1>1, <1>2 DEF DepositTypeOK
<1>4. AppliedHasNoReceipt'
    BY <1>1, <1>2 DEF AppliedHasNoReceipt
<1>5. Callbacks'
    BY <1>1, <1>2 DEF Callbacks, NothingAskedYet, CallbackReportsPayment,
          StoredCallbackHolds, ConfirmedAttemptBacksDeposit
<1>6. Escrow'
    <2>1. CASE ConfirmRefund(e)
        BY <2>1, <1>1, <1>2 DEF Escrow, OneJournal, Journals
    <2>2. CASE ~ConfirmRefund(e)
        BY <2>2, <1>1, <1>2 DEF Escrow, OneJournal, Journals
    <2>3. QED
        BY <2>1, <2>2
<1>7. QED
    BY <1>3, <1>4, <1>5, <1>6

\* Everything that happens to a deposit in custody.
LEMMA CustodyPreserves ==
    ASSUME IInv, Custody
    PROVE  IInv'
<1> USE DEF CommitmentState, MembershipStatus
<1>1. membership \in MembershipStatus
    BY DEF IInv, DepositTypeOK
<1>2. CASE MarkAtRisk
    BY <1>1, <1>2, TransitionPreserves DEF MarkAtRisk
<1>3. CASE MarkDefaultTriggered
    BY <1>3, TransitionPreserves DEF MarkDefaultTriggered
<1>4. CASE MarkEligibleForRefund
    BY <1>1, <1>4, TransitionPreserves DEF MarkEligibleForRefund
<1>5. CASE RequestRefund
    BY <1>1, <1>5, TransitionPreserves DEF RequestRefund
<1>6. ASSUME NEW e \in Evidence, ConfirmRefund(e) \/ Forfeit(e) PROVE IInv'
    BY <1>6, SettlementPreserves
<1>7. ASSUME NEW status \in MembershipStatus, SetMembership(status) PROVE IInv'
    BY <1>7 DEF SetMembership, IInv, DepositTypeOK, AppliedHasNoReceipt, Escrow, OneJournal,
          Journals, Callbacks, NothingAskedYet, CallbackReportsPayment, StoredCallbackHolds,
          ConfirmedAttemptBacksDeposit
<1>8. QED
    BY <1>2, <1>3, <1>4, <1>5, <1>6, <1>7 DEF Custody

\* Every step preserves the invariant.
LEMMA StepInvariant == IInv /\ [DepositNext]_depositVars => IInv'
<1> SUFFICES ASSUME IInv, [DepositNext]_depositVars PROVE IInv'
    OBVIOUS
<1>1. CASE Custody
    BY <1>1, CustodyPreserves
<1>2. ASSUME NEW n \in Attempt, PaymentRequest(n) \/ PaymentCallback(n) PROVE IInv'
    BY <1>2, PaymentStepPreserves, ConfirmHoldPreserves DEF PaymentCallback
<1>3. CASE UNCHANGED depositVars
    BY <1>3 DEF depositVars, IInv, DepositTypeOK, AppliedHasNoReceipt, Escrow, OneJournal,
          Journals, Callbacks, NothingAskedYet, CallbackReportsPayment, StoredCallbackHolds,
          ConfirmedAttemptBacksDeposit
<1>4. QED
    BY <1>1, <1>2, <1>3 DEF DepositNext

-----------------------------------------------------------------------------
\* The inductive invariant of the payment and custody of a commitment deposit.
THEOREM Invariance == DepositSpec => []IInv
<1>1. DepositInit => IInv
    BY InitInvariant
<1>2. IInv /\ [DepositNext]_depositVars => IInv'
    BY StepInvariant
<1>3. QED
    BY <1>1, <1>2, PTL DEF DepositSpec

\* At most one journal of a kind, counted.
LEMMA CountedJournals ==
    ASSUME NEW kind, NEW moved \in BOOLEAN, OneJournal(kind, moved)
    PROVE  Moved({kind}) = IF moved THEN 1 ELSE 0
<1>1. CASE moved
    <2>1. PICK e \in Evidence : Journals({kind}) = {<<kind, e>>}
        BY <1>1 DEF OneJournal
    <2>2. QED
        BY <1>1, <2>1, FS_Singleton DEF Moved
<1>2. CASE ~moved
    BY <1>2, FS_EmptySet DEF OneJournal, Moved
<1>3. QED
    BY <1>1, <1>2

\* The invariant without cardinalities says the same.
LEMMA CountedInvariant == IInv => EscrowFollowsState
<1> SUFFICES ASSUME IInv PROVE EscrowFollowsState
    OBVIOUS
<1>1. Moved({"commitment_refund"}) = IF deposit.state = "refunded" THEN 1 ELSE 0
    BY CountedJournals DEF IInv, Escrow
<1>2. Moved({"commitment_forfeiture"}) = IF deposit.state = "forfeited" THEN 1 ELSE 0
    BY CountedJournals DEF IInv, Escrow
<1>3. QED
    BY <1>1, <1>2 DEF IInv, Escrow, EscrowFollowsState

\* The money is taken into custody once and leaves it once, whatever the payments,
\* callbacks, crashes and evidence (confirmHoldFromProvider,
\* confirmRefundFromProvider, forfeitFromRule).
THEOREM CustodyIsSettledOnce == DepositSpec => []EscrowFollowsState
<1>1. QED
    BY Invariance, CountedInvariant, PTL

\* A payment reported as confirmed was paid and is the one that holds the deposit,
\* although its row is updated outside the transaction that took the money
\* (processStkCallback of commitment-payment.service.ts).
THEOREM ConfirmationsAreTrue == DepositSpec => []ConfirmedAttemptBacksDeposit
<1>1. IInv => ConfirmedAttemptBacksDeposit
    BY DEF IInv, Callbacks
<1>2. QED
    BY Invariance, <1>1, PTL

\* Type correctness.
THEOREM TypeCorrect == DepositSpec => []DepositTypeOK
<1>1. IInv => DepositTypeOK
    BY DEF IInv
<1>2. QED
    BY Invariance, <1>1, PTL

-----------------------------------------------------------------------------
\* The refinement.  What the requests and the payments that do not hold leave alone
\* is a stutter of the abstract custody.
PromiseUnchanged == UNCHANGED Promise!escrowVars

\* The custody promise looks at the deposit and the treasury only.
LEMMA CustodyRowsUnchanged ==
    ASSUME UNCHANGED <<deposit, custody>>
    PROVE  PromiseUnchanged
BY DEF PromiseUnchanged, Promise!escrowVars, Standing, Journals

\* A payment is taken: the deposit was unpaid, so no other one is in custody.
LEMMA HoldIsPayment ==
    ASSUME IInv, NEW n \in Attempt, ConfirmHold(n)
    PROVE  Promise!Pay(n) \/ PromiseUnchanged
<1>1. CASE UNCHANGED <<deposit, custody>>
    BY <1>1, CustodyRowsUnchanged
<1>2. CASE ~UNCHANGED <<deposit, custody>>
    <2>1. /\ deposit.state = "applied" /\ deposit'.state = "held"
          /\ custody' = custody \cup {<<"commitment_hold", n>>}
        BY <1>2 DEF ConfirmHold, Payable
    <2>2. Journals({"commitment_hold"}) = {}
        BY <2>1 DEF IInv, Escrow
    <2>3. {a \in Attempt : <<"commitment_hold", a>> \in custody'} = {n}
        BY <2>1, <2>2 DEF Journals
    <2>4. Journals({"commitment_refund", "commitment_forfeiture"})'
            = Journals({"commitment_refund", "commitment_forfeiture"})
        BY <2>1 DEF Journals
    <2>5. Standing = "unpaid" /\ Standing' = "held"
        BY <2>1 DEF Standing
    <2>6. QED
        BY <2>3, <2>4, <2>5 DEF Promise!Pay
<1>3. QED
    BY <1>1, <1>2

\* The money goes: nothing has gone before, neither to the member nor to the Chama.
LEMMA SettlementIsFirst ==
    ASSUME IInv, NEW e \in Evidence
    PROVE  /\ ConfirmRefund(e) => Promise!Return(e)
           /\ Forfeit(e) => Promise!Surrender(e)
<1>1. deposit \in DepositRow
    BY DEF IInv, DepositTypeOK
<1>2. ASSUME deposit.state \notin {"refunded", "forfeited"}
      PROVE  Journals({"commitment_refund", "commitment_forfeiture"}) = {}
    BY <1>2 DEF IInv, Escrow, OneJournal, Journals
<1>3. ASSUME ConfirmRefund(e) PROVE Promise!Return(e)
    <2>1. /\ deposit.state = "refund_requested" /\ deposit'.state = "refunded"
          /\ custody' = custody \cup {<<"commitment_refund", e>>}
        BY <1>1, <1>3 DEF ConfirmRefund, Refundable, Transition, DepositRow
    <2>2. Journals({"commitment_refund", "commitment_forfeiture"})' = {<<"commitment_refund", e>>}
        BY <1>2, <2>1 DEF Journals
    <2>3. Standing = "leaving" /\ Standing' = "returned"
        BY <2>1 DEF Standing
    <2>4. QED
        BY <2>1, <2>2, <2>3 DEF Promise!Return
<1>4. ASSUME Forfeit(e) PROVE Promise!Surrender(e)
    <2>1. /\ deposit.state = "default_triggered" /\ deposit'.state = "forfeited"
          /\ custody' = custody \cup {<<"commitment_forfeiture", e>>}
        BY <1>1, <1>4 DEF Forfeit, Forfeitable, Transition, DepositRow
    <2>2. Journals({"commitment_refund", "commitment_forfeiture"})'
            = {<<"commitment_forfeiture", e>>}
        BY <1>2, <2>1 DEF Journals
    <2>3. Standing = "defaulted" /\ Standing' = "surrendered"
        BY <2>1 DEF Standing
    <2>4. QED
        BY <2>1, <2>2, <2>3 DEF Promise!Surrender
<1>5. QED
    BY <1>3, <1>4

\* What the rules engine, the member and chama management do.
LEMMA CustodyIsPromised ==
    ASSUME IInv, Custody
    PROVE  Promise!EscrowNext \/ PromiseUnchanged
<1>1. deposit \in DepositRow
    BY DEF IInv, DepositTypeOK
<1> USE DEF Transition, DepositRow
<1>2. CASE MarkAtRisk
    BY <1>1, <1>2 DEF MarkAtRisk, PromiseUnchanged, Promise!escrowVars, Standing, Journals
<1>3. CASE MarkDefaultTriggered
    <2>1. Promise!TriggerDefault
        BY <1>1, <1>3 DEF MarkDefaultTriggered, Promise!TriggerDefault, Standing, Journals
    <2>2. QED
        BY <2>1 DEF Promise!EscrowNext
<1>4. CASE MarkEligibleForRefund
    <2>1. Promise!Leave
        BY <1>1, <1>4 DEF MarkEligibleForRefund, Promise!Leave, Standing, Journals
    <2>2. QED
        BY <2>1 DEF Promise!EscrowNext
<1>5. CASE RequestRefund
    BY <1>1, <1>5 DEF RequestRefund, PromiseUnchanged, Promise!escrowVars, Standing, Journals
<1>6. ASSUME NEW e \in Evidence, ConfirmRefund(e) \/ Forfeit(e) PROVE Promise!EscrowNext
    BY <1>6, SettlementIsFirst DEF Promise!EscrowNext
<1>7. ASSUME NEW status \in MembershipStatus, SetMembership(status) PROVE PromiseUnchanged
    BY <1>7, CustodyRowsUnchanged DEF SetMembership
<1>8. QED
    BY <1>2, <1>3, <1>4, <1>5, <1>6, <1>7 DEF Custody

\* Every step of the deposit is a step of the abstract custody, or none.
LEMMA StepIsPromised ==
    ASSUME IInv, [DepositNext]_depositVars
    PROVE  [Promise!EscrowNext]_(Promise!escrowVars)
<1>1. CASE Custody
    BY <1>1, CustodyIsPromised DEF PromiseUnchanged
<1>2. ASSUME NEW n \in Attempt, PaymentRequest(n) PROVE PromiseUnchanged
    BY <1>2, CustodyRowsUnchanged DEF PaymentRequest, RequestPayment, InsertAttempt, Dispatch,
          RecordDispatch, FailDispatch, Crash, CustomerDecides
<1>3. ASSUME NEW n \in Attempt, PaymentCallback(n) PROVE Promise!Pay(n) \/ PromiseUnchanged
    <2>1. CASE ConfirmHold(n)
        BY <2>1, HoldIsPayment
    <2>2. CASE CallbackFailure(n) \/ CallbackSuccess(n) \/ StoreConfirmed(n)
        BY <2>2, CustodyRowsUnchanged DEF CallbackFailure, CallbackSuccess, StoreConfirmed
    <2>3. QED
        BY <1>3, <2>1, <2>2 DEF PaymentCallback
<1>4. CASE UNCHANGED depositVars
    BY <1>4, CustodyRowsUnchanged DEF depositVars, PromiseUnchanged
<1>5. QED
    BY <1>1, <1>2, <1>3, <1>4 DEF DepositNext, PromiseUnchanged, Promise!EscrowNext

\* The deposit keeps the promise of the abstract custody for any number of payment
\* attempts and any evidence: one payment in, and out once, for the reason that
\* justifies it (commitment.service.ts, commitment-payment.service.ts).
THEOREM Refinement == DepositSpec => ImplementsEscrow
<1>1. DepositInit => Promise!EscrowInit
    BY DEF DepositInit, Promise!EscrowInit, Standing, Journals
<1>2. IInv /\ [DepositNext]_depositVars => [Promise!EscrowNext]_(Promise!escrowVars)
    BY StepIsPromised
<1>3. QED
    BY <1>1, <1>2, Invariance, PTL DEF DepositSpec, ImplementsEscrow, Promise!EscrowSpec

-----------------------------------------------------------------------------
(***************************************************************************)
(* PenaltyAssessment: the penalty worker works on the same deposit.  What  *)
(* an assessment has read stays true until it takes effect, because it     *)
(* holds the row of its contribution (JobsAreCurrent), and the misses of   *)
(* earlier contributions can only become more (CountsAreMisses).           *)
(***************************************************************************)
AssessmentRow == [done : BOOLEAN, missed : BOOLEAN, count : Nat]

JobRow == [contribution : Contribution \cup {0}, missed : BOOLEAN, count : Nat]

TimelineTypeOK ==
    /\ callback \in [Contribution -> Nat] /\ paid \in [Contribution -> Nat]
    /\ assessed \in [Contribution -> AssessmentRow]
    /\ job \in [Worker -> JobRow]
    /\ now \in Nat

CountsAreMisses ==
    \A c \in Contribution :
        /\ assessed[c].count <= Cardinality(Missed(1..c))
        /\ assessed[c].missed => assessed[c].done

JobIsCurrent(w) ==
    LET c == job[w].contribution IN
    /\ c \in Contribution /\ ~assessed[c].done
    /\ job[w].missed <=> ~(paid[c] < Deadline(c))
    /\ job[w].count <= IF job[w].missed THEN Cardinality(Missed(1..(c - 1))) + 1 ELSE 0
    /\ \A v \in Worker : job[v].contribution = c => v = w

JobsAreCurrent == \A w \in Worker : job[w] # NoJob => JobIsCurrent(w)

DefaultIsEarned ==
    deposit.source = "be08_penalty_worker" /\ deposit.state = "default_triggered" =>
        Cardinality(Missed(Contribution)) >= Threshold

PenaltyInv ==
    /\ IInv /\ TimelineTypeOK
    /\ CountsAreMisses /\ JobsAreCurrent /\ DefaultIsEarned

USE DeadlineAssumption, ThresholdAssumption

\* The latest of some contributions exists.
LEMMA LatestContribution ==
    ASSUME NEW S \in SUBSET Contribution, S # {}
    PROVE  LastOf(S) \in S /\ \A e \in S : e <= LastOf(S)
<1> DEFINE T == {n \in Nat : Last - n \in S}
<1>1. T \subseteq Nat /\ T # {}
    <2>1. PICK d : d \in S
        OBVIOUS
    <2>2. d \in 1..Last
        BY <2>1 DEF Contribution
    <2>3. Last - d \in Nat /\ Last - (Last - d) = d
        BY <2>2
    <2>4. Last - d \in T
        BY <2>1, <2>3
    <2>5. QED
        BY <2>4
<1>2. PICK x \in T : \A y \in T : ~ (<<y, x>> \in OpToRel(<, Nat))
    <2> HIDE DEF T
    <2>1. QED
        BY <1>1, NatLessThanWellFounded, WFMin
<1>3. x \in Nat /\ Last - x \in S
    BY <1>2
<1>4. ASSUME NEW e \in S PROVE e <= Last - x
    <2>1. e \in 1..Last
        BY DEF Contribution
    <2>2. Last - e \in Nat /\ Last - (Last - e) = e
        BY <2>1
    <2>3. Last - e \in T
        BY <2>2
    <2>4. ~ (Last - e < x)
        BY <1>2, <1>3, <2>2, <2>3 DEF OpToRel
    <2>5. QED
        BY <1>3, <2>1, <2>2, <2>4
<1>5. QED
    BY <1>3, <1>4 DEF LastOf

\* Misses are counted by numbers, and more contributions have no fewer of them.
LEMMA MissesCounted ==
    ASSUME NEW c \in Int, NEW d \in Int, c <= d
    PROVE  /\ Cardinality(Missed(1..c)) \in Nat
           /\ Cardinality(Missed(1..c)) <= Cardinality(Missed(1..d))
<1>1. IsFiniteSet(1..d) /\ 1..c \subseteq 1..d
    BY FS_Interval
<1>2. IsFiniteSet(Missed(1..d)) /\ Missed(1..c) \subseteq Missed(1..d)
    BY <1>1, FS_Subset DEF Missed
<1>3. QED
    BY <1>2, FS_Subset, FS_CardinalityType

\* An assessment that takes effect takes no miss back, and adds its own.
LEMMA MissAdded ==
    ASSUME TimelineTypeOK, NEW c \in Contribution, ~assessed[c].missed,
           NEW row \in AssessmentRow, assessed' = [assessed EXCEPT ![c] = row]
    PROVE  /\ \A d \in 0..Last : Cardinality(Missed(1..d)) <= Cardinality(Missed(1..d)')
           /\ row.missed => Cardinality(Missed(1..c)') = Cardinality(Missed(1..(c - 1))) + 1
<1>1. \A d \in Contribution : assessed'[d] = IF d = c THEN row ELSE assessed[d]
    BY DEF TimelineTypeOK
<1>2. c \in 1..Last
    BY DEF Contribution
<1>3. ASSUME NEW d \in 0..Last
      PROVE  Cardinality(Missed(1..d)) <= Cardinality(Missed(1..d)')
    <2>1. Missed(1..d) \subseteq Missed(1..d)' /\ Missed(1..d)' \subseteq 1..d
        <3>1. \A e \in 1..d : e \in Contribution
            BY <1>3 DEF Contribution
        <3>2. QED
            BY <1>1, <3>1 DEF Missed
    <2>2. IsFiniteSet(1..d)
        BY <1>3, FS_Interval
    <2>3. IsFiniteSet(Missed(1..d)')
        BY <2>1, <2>2, FS_Subset
    <2>4. QED
        BY <2>1, <2>3, FS_Subset
<1>4. ASSUME row.missed
      PROVE  Cardinality(Missed(1..c)') = Cardinality(Missed(1..(c - 1))) + 1
    <2>1. Missed(1..c)' = Missed(1..(c - 1)) \cup {c} /\ c \notin Missed(1..(c - 1))
        <3>1. 1..c = 1..(c - 1) \cup {c} /\ c \notin 1..(c - 1)
            BY <1>2
        <3>2. \A e \in 1..(c - 1) : e \in Contribution /\ e # c
            BY <1>2 DEF Contribution
        <3>3. QED
            BY <1>1, <1>4, <3>1, <3>2 DEF Missed
    <2>2. IsFiniteSet(Missed(1..(c - 1)))
        BY <1>2, FS_Interval, FS_Subset DEF Missed
    <2>3. QED
        BY <2>1, <2>2, FS_AddElement
<1>5. QED
    BY <1>3, <1>4

\* The member starts with a deposit held and nothing assessed.
LEMMA PenaltyInitInvariant == PenaltyInit => PenaltyInv
<1> SUFFICES ASSUME PenaltyInit PROVE PenaltyInv
    OBVIOUS
<1>1. PICK n \in Attempt :
         /\ deposit = [state |-> "held", receipt |-> n, source |-> "provider_confirmation"]
         /\ custody = {<<"commitment_hold", n>>}
         /\ attempt = [o \in Attempt |->
              IF o = n THEN [NoAttempt EXCEPT !.status = "confirmed", !.referenced = TRUE,
                                              !.provider = "paid"]
              ELSE NoAttempt]
    BY DEF PenaltyInit
<1>2. membership = "active" /\ application = "approved"
    BY DEF PenaltyInit
<1>3. IInv
    <2>1. /\ attempt \in [Attempt -> AttemptRow]
          /\ \A o \in Attempt : attempt[o].run = "idle" /\ attempt[o].hook = "idle"
          /\ \A o \in Attempt : attempt[o].status = "confirmed" =>
                o = n /\ attempt[o].provider = "paid"
        BY <1>1 DEF NoAttempt, AttemptRow
    <2>2. DepositTypeOK
        BY <1>1, <1>2, <2>1 DEF DepositTypeOK, DepositRow, CommitmentState, MembershipStatus
    <2>3. AppliedHasNoReceipt /\ Escrow
        BY <1>1 DEF AppliedHasNoReceipt, Escrow, OneJournal, Journals
    <2>4. Callbacks
        BY <1>1, <2>1 DEF Callbacks, NothingAskedYet, CallbackReportsPayment,
                          StoredCallbackHolds, ConfirmedAttemptBacksDeposit
    <2>5. QED
        BY <2>2, <2>3, <2>4 DEF IInv
<1>4. TimelineTypeOK /\ JobsAreCurrent /\ \A c \in Contribution : assessed[c] = Unassessed
    <2>1. TimelineTypeOK
        BY DEF PenaltyInit, TimelineTypeOK, Never, Unassessed, NoJob, AssessmentRow, JobRow
    <2>2. QED
        BY <2>1 DEF PenaltyInit, JobsAreCurrent
<1>5. CountsAreMisses
    <2>1. \A c \in Contribution : ~assessed[c].missed /\ assessed[c].count = 0
        BY <1>4 DEF Unassessed
    <2>2. ASSUME NEW c \in Contribution PROVE 0 <= Cardinality(Missed(1..c))
        BY MissesCounted DEF Contribution
    <2>3. QED
        BY <2>1, <2>2 DEF CountsAreMisses
<1>6. DefaultIsEarned
    BY <1>1 DEF DefaultIsEarned
<1>7. QED
    BY <1>3, <1>4, <1>5, <1>6 DEF PenaltyInv

\* What is read and found so far stands as long as nothing is assessed and no
\* payment of a contribution under assessment appears.
LEMMA TimelineStands ==
    ASSUME PenaltyInv, UNCHANGED <<assessed, deposit>>,
           \A w \in Worker : job'[w] \in {job[w], NoJob},
           \A c \in Contribution : Locked(c) => paid'[c] = paid[c]
    PROVE  CountsAreMisses' /\ JobsAreCurrent' /\ DefaultIsEarned'
<1>1. CountsAreMisses' /\ DefaultIsEarned'
    BY DEF PenaltyInv, CountsAreMisses, DefaultIsEarned, Missed
<1>2. ASSUME NEW w \in Worker, job'[w] # NoJob PROVE JobIsCurrent(w)'
    <2>1. job'[w] = job[w] /\ JobIsCurrent(w)
        BY <1>2 DEF PenaltyInv, JobsAreCurrent
    <2> DEFINE c == job[w].contribution
    <2>2. c \in Contribution /\ paid'[c] = paid[c]
        BY <2>1 DEF JobIsCurrent, Locked
    <2>3. \A v \in Worker : job'[v].contribution = c => v = w
        <3>1. NoJob.contribution # c
            BY <2>2 DEF NoJob, Contribution
        <3>2. QED
            BY <2>1, <3>1 DEF JobIsCurrent
    <2>4. QED
        BY <2>1, <2>2, <2>3 DEF JobIsCurrent, Missed
<1>3. QED
    BY <1>1, <1>2 DEF JobsAreCurrent

\* The clock, the customers, the callbacks and the reconciliation.
LEMMA SurroundingsPreservePenalty ==
    ASSUME PenaltyInv,
           \/ Tick
           \/ \E c \in Contribution : Collection(c)
           \/ \E from, to \in Time : Reconcile(from, to)
           \/ \E w \in Worker : AssessAbort(w)
    PROVE  PenaltyInv'
<1>1. UNCHANGED <<depositVars, assessed>>
    BY DEF Tick, Collection, Settle, CallbackBegin, CallbackCommit, CallbackAbort, Reconcile,
           AssessAbort
<1>2. IInv'
    BY <1>1, StepInvariant DEF PenaltyInv
<1>3. \A w \in Worker : job'[w] \in {job[w], NoJob}
    BY DEF Tick, Collection, Settle, CallbackBegin, CallbackCommit, CallbackAbort, Reconcile,
           AssessAbort, Rollback, PenaltyInv, TimelineTypeOK
<1>4. \A c \in Contribution : Locked(c) => paid'[c] = paid[c]
    BY DEF Tick, Collection, Settle, CallbackBegin, CallbackCommit, CallbackAbort, Reconcile,
           AssessAbort, PenaltyInv, TimelineTypeOK
<1>5. TimelineTypeOK'
    <2>1. TimelineTypeOK
        BY DEF PenaltyInv
    <2> USE DEF TimelineTypeOK, Never
    <2>2. CASE Tick
        BY <2>1, <2>2 DEF Tick
    <2>3. ASSUME NEW c \in Contribution, Collection(c) PROVE TimelineTypeOK'
        <3>1. CASE Settle(c)
            BY <2>1, <3>1 DEF Settle
        <3>2. CASE CallbackBegin(c)
            BY <2>1, <3>2 DEF CallbackBegin
        <3>3. CASE CallbackCommit(c)
            BY <2>1, <3>3 DEF CallbackCommit
        <3>4. CASE CallbackAbort(c)
            BY <2>1, <3>4 DEF CallbackAbort
        <3>5. QED
            BY <2>3, <3>1, <3>2, <3>3, <3>4 DEF Collection
    <2>4. CASE \E from, to \in Time : Reconcile(from, to)
        BY <2>1, <2>4 DEF Reconcile
    <2>5. ASSUME NEW w \in Worker, AssessAbort(w) PROVE TimelineTypeOK'
        BY <2>1, <2>5 DEF AssessAbort, Rollback, NoJob, JobRow
    <2>6. QED
        BY <2>2, <2>3, <2>4, <2>5
<1>6. QED
    BY <1>1, <1>2, <1>3, <1>4, <1>5, TimelineStands DEF PenaltyInv, depositVars

\* The rules engine triggers defaults of its own; it does not speak for the worker.
LEMMA CustodyPreservesPenalty ==
    ASSUME PenaltyInv, Custody, UNCHANGED timelineVars
    PROVE  PenaltyInv'
<1>1. IInv'
    BY CustodyPreserves DEF PenaltyInv
<1>2. TimelineTypeOK' /\ CountsAreMisses' /\ JobsAreCurrent'
    BY DEF PenaltyInv, timelineVars, TimelineTypeOK, CountsAreMisses, JobsAreCurrent,
           JobIsCurrent, Missed
<1>3. deposit' = deposit \/ deposit'.source # "be08_penalty_worker"
    <2>1. deposit \in DepositRow
        BY DEF PenaltyInv, IInv, DepositTypeOK
    <2>2. QED
        BY <2>1 DEF Custody, MarkAtRisk, MarkDefaultTriggered, MarkEligibleForRefund,
              RequestRefund, ConfirmRefund, Forfeit, SetMembership, Transition, DepositRow
<1>4. DefaultIsEarned'
    BY <1>3 DEF PenaltyInv, DefaultIsEarned, timelineVars, Missed
<1>5. QED
    BY <1>1, <1>2, <1>4 DEF PenaltyInv

\* The count of a miss is one more than a count that was true.
LEMMA CountIsEarned ==
    ASSUME PenaltyInv, NEW c \in Contribution
    PROVE  /\ NextMissCount(c) \in Nat
           /\ NextMissCount(c) <= Cardinality(Missed(1..(c - 1))) + 1
<1>1. c \in 1..Last /\ Cardinality(Missed(1..(c - 1))) \in Nat
    BY MissesCounted DEF Contribution
<1>2. CASE Earlier(c) = {}
    BY <1>1, <1>2 DEF NextMissCount
<1>3. CASE Earlier(c) # {}
    <2> DEFINE d == LastOf(Earlier(c))
    <2>1. d \in Earlier(c)
        BY <1>3, LatestContribution DEF Earlier
    <2>2. d \in Contribution /\ d \in Int /\ d < c /\ d <= c - 1
        BY <1>1, <2>1 DEF Earlier, Contribution
    <2> HIDE DEF d
    <2>3. /\ assessed[d].count <= Cardinality(Missed(1..d))
          /\ assessed[d].count \in Nat
        BY <2>2 DEF PenaltyInv, CountsAreMisses, TimelineTypeOK, AssessmentRow
    <2>4. /\ Cardinality(Missed(1..d)) \in Nat
          /\ Cardinality(Missed(1..d)) <= Cardinality(Missed(1..(c - 1)))
        BY <1>1, <2>2, MissesCounted
    <2>5. NextMissCount(c) = assessed[d].count + 1
        BY <1>3 DEF NextMissCount, d
    <2>6. QED
        BY <1>1, <2>3, <2>4, <2>5
<1>4. QED
    BY <1>2, <1>3

\* The worker reads under the lock of the contribution.
LEMMA AssessReadPreserves ==
    ASSUME PenaltyInv, NEW w \in Worker, NEW c \in Contribution, AssessRead(w, c)
    PROVE  PenaltyInv'
<1> DEFINE missed == ~(paid[c] < Deadline(c))
           count == CountFor(c, missed)
           row == [contribution |-> c, missed |-> missed, count |-> count]
<1>1. /\ UNCHANGED <<depositVars, paid, callback, assessed, now>>
      /\ job' = [job EXCEPT ![w] = row]
      /\ job[w] = NoJob /\ ~assessed[c].done
      /\ \A v \in Worker : job[v].contribution # c
    BY DEF AssessRead, Locked, Assessable
<1>2. /\ count \in Nat /\ missed \in BOOLEAN
      /\ count <= IF missed THEN Cardinality(Missed(1..(c - 1))) + 1 ELSE 0
    BY CountIsEarned DEF CountFor
<1>3. TimelineTypeOK
    BY DEF PenaltyInv
<1>4. row \in JobRow
    BY <1>2 DEF JobRow
<1>5. row.contribution = c /\ row.missed = missed /\ row.count = count
    OBVIOUS
<1> HIDE DEF row, count
<1>6. \A v \in Worker : job'[v] = IF v = w THEN row ELSE job[v]
    BY <1>1, <1>3 DEF TimelineTypeOK
<1>7. IInv'
    BY <1>1, StepInvariant DEF PenaltyInv
<1>8. TimelineTypeOK'
    BY <1>1, <1>3, <1>4 DEF TimelineTypeOK
<1>9. CountsAreMisses' /\ DefaultIsEarned'
    BY <1>1 DEF PenaltyInv, CountsAreMisses, DefaultIsEarned, Missed, depositVars
<1>10. JobsAreCurrent'
    <2>1. ASSUME NEW v \in Worker, job'[v] # NoJob PROVE JobIsCurrent(v)'
        <3>1. CASE v = w
            <4>1. \A o \in Worker : job'[o].contribution = c => o = w
                BY <1>1, <1>6
            <4>2. QED
                BY <1>1, <1>2, <1>5, <1>6, <3>1, <4>1 DEF JobIsCurrent, Missed
        <3>2. CASE v # w
            <4>1. job'[v] = job[v] /\ JobIsCurrent(v)
                BY <1>6, <2>1, <3>2 DEF PenaltyInv, JobsAreCurrent
            <4>2. c # job[v].contribution
                BY <1>1
            <4>3. \A o \in Worker : job'[o].contribution = job[v].contribution => o = v
                BY <1>5, <1>6, <4>1, <4>2 DEF JobIsCurrent
            <4>4. QED
                BY <1>1, <4>1, <4>3 DEF JobIsCurrent, Missed
        <3>3. QED
            BY <3>1, <3>2
    <2>2. QED
        BY <2>1 DEF JobsAreCurrent
<1>11. QED
    BY <1>7, <1>8, <1>9, <1>10 DEF PenaltyInv

\* The worker's transition moves no money, and is a default only for enough misses.
LEMMA EscalationPreserves ==
    ASSUME IInv, NEW count, Escalate(count), UNCHANGED <<application, attempt, custody>>
    PROVE  /\ IInv'
           /\ \/ deposit' = deposit
              \/ count >= Threshold
              \/ deposit'.state # "default_triggered"
<1> DEFINE state == Escalated(deposit.state, count)
<1>1. /\ deposit \in DepositRow /\ membership \in MembershipStatus
    BY DEF IInv, DepositTypeOK
<1>2. membership' \in MembershipStatus
    BY <1>1 DEF Escalate, MembershipStatus
<1>3. CASE state = deposit.state
    <2>1. deposit' = deposit
        BY <1>3 DEF Escalate
    <2>2. QED
        BY <1>2, <2>1 DEF IInv, DepositTypeOK, AppliedHasNoReceipt, Escrow, OneJournal,
              Journals, Callbacks, NothingAskedYet, CallbackReportsPayment,
              StoredCallbackHolds, ConfirmedAttemptBacksDeposit
<1>4. CASE state # deposit.state
    <2>1. /\ deposit.state \in {"held", "at_risk"}
          /\ state = IF count >= Threshold THEN "default_triggered" ELSE "at_risk"
          /\ Transition(state, "be08_penalty_worker")
        BY <1>4 DEF Escalate, Escalated
    <2>2. state \in {"default_triggered", "at_risk"}
        BY <2>1
    <2> HIDE DEF state
    <2>3. /\ deposit' \in DepositRow /\ deposit'.receipt = deposit.receipt
          /\ deposit'.state = state
        BY <1>1, <2>1, <2>2 DEF Transition, DepositRow, CommitmentState
    <2>4. DepositTypeOK'
        BY <1>2, <2>3 DEF IInv, DepositTypeOK
    <2>5. AppliedHasNoReceipt'
        BY <2>1, <2>2, <2>3 DEF IInv, AppliedHasNoReceipt
    <2>6. Callbacks'
        BY <2>3 DEF IInv, Callbacks, NothingAskedYet, CallbackReportsPayment,
              StoredCallbackHolds, ConfirmedAttemptBacksDeposit
    <2>7. Escrow'
        BY <2>1, <2>2, <2>3 DEF IInv, Escrow, OneJournal, Journals
    <2>8. QED
        BY <2>1, <2>3, <2>4, <2>5, <2>6, <2>7 DEF IInv
<1>5. QED
    BY <1>3, <1>4

\* A finding takes effect, with its escalation.
LEMMA AssessCommitPreserves ==
    ASSUME PenaltyInv, NEW w \in Worker, AssessCommit(w)
    PROVE  PenaltyInv'
<1> DEFINE found == job[w]
           row == [done |-> TRUE, missed |-> found.missed, count |-> found.count]
<1>0. PICK c \in Contribution : c = job[w].contribution
    BY DEF AssessCommit
<1>1. /\ c \in Contribution
      /\ assessed' = [assessed EXCEPT ![c] = row]
      /\ IF found.missed THEN Escalate(found.count) ELSE UNCHANGED <<deposit, membership>>
      /\ callback' \in {callback, [callback EXCEPT ![c] = Never]}
      /\ job' = [job EXCEPT ![w] = NoJob]
      /\ UNCHANGED <<application, attempt, custody, now, settled, paid, covered>>
    BY <1>0 DEF AssessCommit
<1>2. TimelineTypeOK /\ found \in JobRow /\ c = found.contribution
    BY <1>0 DEF PenaltyInv, TimelineTypeOK
<1>6. c \in 1..Last
    BY <1>1 DEF Contribution
<1>3. found.missed \in BOOLEAN /\ found.count \in Nat
    BY <1>2 DEF JobRow
<1>4. /\ ~assessed[c].done /\ ~assessed[c].missed
      /\ found.count <= IF found.missed THEN Cardinality(Missed(1..(c - 1))) + 1 ELSE 0
      /\ \A v \in Worker : job[v].contribution = c => v = w
    <2>1. found # NoJob
        BY <1>2, <1>6 DEF NoJob
    <2>2. QED
        BY <1>2, <2>1 DEF PenaltyInv, JobsAreCurrent, JobIsCurrent, CountsAreMisses
<1>5. row \in AssessmentRow /\ row.done /\ row.missed = found.missed /\ row.count = found.count
    BY <1>3 DEF AssessmentRow
<1> HIDE DEF row, found
<1>7. /\ \A d \in 0..Last : Cardinality(Missed(1..d)) <= Cardinality(Missed(1..d)')
      /\ found.missed => Cardinality(Missed(1..c)') = Cardinality(Missed(1..(c - 1))) + 1
    BY <1>1, <1>2, <1>4, <1>5, MissAdded
<1>8. \A d \in 0..Last : Cardinality(Missed(1..d)) \in Nat /\ Cardinality(Missed(1..d)') \in Nat
    <2>1. ASSUME NEW d \in 0..Last
          PROVE  IsFiniteSet(Missed(1..d)) /\ IsFiniteSet(Missed(1..d)')
        <3>1. IsFiniteSet(1..d)
            BY <2>1, FS_Interval
        <3>2. Missed(1..d) \subseteq 1..d /\ Missed(1..d)' \subseteq 1..d
            BY DEF Missed
        <3>3. QED
            BY <3>1, <3>2, FS_Subset
    <2>2. QED
        BY <2>1, FS_CardinalityType
<1>9. \A d \in Contribution : assessed'[d] = IF d = c THEN row ELSE assessed[d]
    BY <1>1, <1>2 DEF TimelineTypeOK
<1>10. \A v \in Worker : job'[v] = IF v = w THEN NoJob ELSE job[v]
    BY <1>1, <1>2 DEF TimelineTypeOK
<1>11. TimelineTypeOK'
    <2>1. NoJob \in JobRow /\ Never \in Nat
        BY DEF NoJob, JobRow, Never
    <2>2. QED
        BY <1>1, <1>2, <1>5, <2>1 DEF TimelineTypeOK
<1>12. IInv' /\ \/ deposit' = deposit
                \/ found.missed /\ found.count >= Threshold
                \/ deposit'.state # "default_triggered"
    <2>1. CASE found.missed
        BY <1>1, <2>1, EscalationPreserves DEF PenaltyInv
    <2>2. CASE ~found.missed
        <3>1. UNCHANGED depositVars
            BY <1>1, <2>2 DEF depositVars
        <3>2. QED
            BY <3>1, StepInvariant DEF PenaltyInv, depositVars
    <2>3. QED
        BY <2>1, <2>2
<1>13. CountsAreMisses'
    <2>1. ASSUME NEW d \in Contribution
          PROVE  /\ assessed'[d].count <= Cardinality(Missed(1..d)')
                 /\ assessed'[d].missed => assessed'[d].done
        <3>1. d \in 0..Last /\ c - 1 \in 0..Last /\ c \in 0..Last
            BY <1>6 DEF Contribution
        <3>2. CASE d = c
            <4>1. CASE found.missed
                BY <1>4, <1>5, <1>7, <1>9, <3>2, <4>1
            <4>2. CASE ~found.missed
                BY <1>3, <1>4, <1>5, <1>8, <1>9, <3>1, <3>2, <4>2
            <4>3. QED
                BY <4>1, <4>2
        <3>3. CASE d # c
            <4>1. /\ assessed[d].count <= Cardinality(Missed(1..d))
                  /\ assessed[d].missed => assessed[d].done
                  /\ assessed[d].count \in Nat
                BY <1>2 DEF PenaltyInv, CountsAreMisses, TimelineTypeOK, AssessmentRow
            <4>2. QED
                BY <1>7, <1>8, <1>9, <3>1, <3>3, <4>1
        <3>4. QED
            BY <3>2, <3>3
    <2>2. QED
        BY <2>1 DEF CountsAreMisses
<1>14. JobsAreCurrent'
    <2>1. ASSUME NEW v \in Worker, job'[v] # NoJob PROVE JobIsCurrent(v)'
        <3>0. PICK d \in Contribution : d = job[v].contribution
            BY <1>10, <2>1 DEF PenaltyInv, JobsAreCurrent, JobIsCurrent
        <3>1. /\ v # w /\ job'[v] = job[v] /\ JobIsCurrent(v)
              /\ job[v] \in JobRow
            BY <1>2, <1>10, <2>1 DEF PenaltyInv, JobsAreCurrent, TimelineTypeOK
        <3>2. d # c /\ d - 1 \in 0..Last /\ d = job[v].contribution
            BY <1>4, <3>0, <3>1 DEF Contribution
        <3>3. \A o \in Worker : job'[o].contribution = d => o = v
            <4>1. NoJob.contribution # d
                BY DEF NoJob, Contribution
            <4>2. QED
                BY <1>10, <3>1, <3>2, <4>1 DEF JobIsCurrent
        <3>4. job[v].count <= IF job[v].missed THEN Cardinality(Missed(1..(d - 1))') + 1 ELSE 0
            <4> DEFINE before == Cardinality(Missed(1..(d - 1)))
                       after == Cardinality(Missed(1..(d - 1))')
            <4>1. before <= after /\ before \in Nat /\ after \in Nat
                BY <1>7, <1>8, <3>2
            <4>2. job[v].count <= IF job[v].missed THEN before + 1 ELSE 0
                BY <3>1, <3>2 DEF JobIsCurrent
            <4>3. job[v].count \in Nat
                BY <3>1 DEF JobRow
            <4> HIDE DEF before, after
            <4>4. job[v].count <= IF job[v].missed THEN after + 1 ELSE 0
                BY <4>1, <4>2, <4>3
            <4>5. QED
                BY <4>4 DEF after
        <3>5. ~assessed'[d].done /\ (job[v].missed <=> ~(paid'[d] < Deadline(d)))
            BY <1>1, <1>9, <3>1, <3>2 DEF JobIsCurrent
        <3>6. QED
            BY <3>1, <3>2, <3>3, <3>4, <3>5 DEF JobIsCurrent
    <2>2. QED
        BY <2>1 DEF JobsAreCurrent
<1>15. DefaultIsEarned'
    <2>1. Last \in 0..Last /\ Contribution = 1..Last
        BY DEF Contribution
    <2>2. ASSUME found.missed, found.count >= Threshold
          PROVE  Cardinality(Missed(1..Last)') >= Threshold
        <3>1. /\ IsFiniteSet(Missed(1..Last)') /\ Missed(1..c)' \subseteq Missed(1..Last)'
              /\ c \in 0..Last
            <4>1. IsFiniteSet(1..Last) /\ Missed(1..Last)' \subseteq 1..Last
                BY FS_Interval DEF Missed
            <4>2. 1..c \subseteq 1..Last
                BY <1>6
            <4>3. Missed(1..c)' \subseteq Missed(1..Last)'
                BY <4>2 DEF Missed
            <4>4. QED
                BY <1>6, <4>1, <4>3, FS_Subset
        <3>2. Cardinality(Missed(1..c)') <= Cardinality(Missed(1..Last)')
            BY <3>1, FS_Subset
        <3>3. found.count <= Cardinality(Missed(1..c)')
            BY <1>4, <1>7, <2>2
        <3>4. QED
            BY <1>3, <1>8, <2>1, <2>2, <3>1, <3>2, <3>3
    <2>3. CASE deposit' = deposit
        BY <1>7, <1>8, <2>1, <2>3 DEF PenaltyInv, DefaultIsEarned
    <2>4. QED
        BY <1>12, <2>1, <2>2, <2>3 DEF DefaultIsEarned
<1>16. QED
    BY <1>11, <1>12, <1>13, <1>14, <1>15 DEF PenaltyInv

-----------------------------------------------------------------------------
\* The inductive invariant of a deposit under the penalty worker.
THEOREM PenaltyInvariance == PenaltySpec => []PenaltyInv
<1>1. PenaltyInv /\ [PenaltyNext]_penaltyVars => PenaltyInv'
    <2> SUFFICES ASSUME PenaltyInv, [PenaltyNext]_penaltyVars PROVE PenaltyInv'
        OBVIOUS
    <2>1. CASE \/ Tick
               \/ \E c \in Contribution : Collection(c)
               \/ \E from, to \in Time : Reconcile(from, to)
        BY <2>1, SurroundingsPreservePenalty
    <2>2. ASSUME NEW w \in Worker, Assessment(w) PROVE PenaltyInv'
        BY <2>2, AssessReadPreserves, AssessCommitPreserves, SurroundingsPreservePenalty
        DEF Assessment
    <2>3. CASE Custody /\ UNCHANGED timelineVars
        BY <2>3, CustodyPreservesPenalty
    <2>4. CASE UNCHANGED penaltyVars
        <3>1. IInv'
            BY <2>4, StepInvariant DEF PenaltyInv, penaltyVars
        <3>2. UNCHANGED <<timelineVars, deposit>>
            BY <2>4 DEF penaltyVars, depositVars
        <3>3. QED
            BY <3>1, <3>2 DEF PenaltyInv, timelineVars, TimelineTypeOK, CountsAreMisses,
                JobsAreCurrent, JobIsCurrent, DefaultIsEarned, Missed
    <2>5. QED
        BY <2>1, <2>2, <2>3, <2>4 DEF PenaltyNext
<1>2. QED
    BY <1>1, PenaltyInitInvariant, PTL DEF PenaltySpec

\* Custody is settled once under the penalty worker as well, whose transitions run
\* between those of the rules engine.
THEOREM CustodyUnderPenalties == PenaltySpec => []EscrowFollowsState
<1>1. PenaltyInv => EscrowFollowsState
    BY CountedInvariant DEF PenaltyInv
<1>2. QED
    BY <1>1, PenaltyInvariance, PTL

\* A miss count never runs ahead of the misses, and the worker triggers a default
\* only after Threshold of them.
THEOREM DefaultsAreEarned == PenaltySpec => []DefaultNeedsMisses
<1>1. PenaltyInv => DefaultNeedsMisses
    BY DEF PenaltyInv, CountsAreMisses, DefaultIsEarned, DefaultNeedsMisses
<1>2. QED
    BY <1>1, PenaltyInvariance, PTL

\* What an assessment read is still so when it takes effect.
THEOREM FindingsAreCurrent == PenaltySpec => AssessedOnCurrentPayments
<1> DEFINE Current ==
        \A c \in Contribution : ~assessed[c].done /\ assessed'[c].done =>
          (assessed'[c].missed <=> ~(paid[c] < Deadline(c)))
<1>1. PenaltyInv /\ [PenaltyNext]_penaltyVars => [Current]_penaltyVars
    <2> SUFFICES ASSUME PenaltyInv, PenaltyNext PROVE Current
        OBVIOUS
    <2>1. CASE assessed' = assessed
        BY <2>1
    <2>2. ASSUME NEW w \in Worker, AssessCommit(w) PROVE Current
        <3> DEFINE c == job[w].contribution
        <3>1. /\ c \in Contribution
              /\ assessed' = [assessed EXCEPT ![c] =
                    [done |-> TRUE, missed |-> job[w].missed, count |-> job[w].count]]
            BY <2>2 DEF AssessCommit
        <3>2. job[w].missed <=> ~(paid[c] < Deadline(c))
            <4>1. job[w] # NoJob
                BY <3>1 DEF NoJob, Contribution
            <4>2. QED
                BY <4>1 DEF PenaltyInv, JobsAreCurrent, JobIsCurrent
        <3>3. \A d \in Contribution : d # c => assessed'[d] = assessed[d]
            BY <3>1
        <3>4. assessed'[c].missed <=> job[w].missed
            BY <3>1 DEF PenaltyInv, TimelineTypeOK
        <3> HIDE DEF c
        <3>5. QED
            BY <3>2, <3>3, <3>4
    <2>3. QED
        BY <2>1, <2>2 DEF PenaltyNext, Tick, Collection, Settle, CallbackBegin,
            CallbackCommit, CallbackAbort, Reconcile, Assessment, AssessRead, AssessAbort,
            timelineVars
<1> HIDE DEF Current
<1>2. PenaltySpec => [][Current]_penaltyVars
    BY <1>1, PenaltyInvariance, PTL DEF PenaltySpec
<1>3. QED
    BY <1>2 DEF Current, AssessedOnCurrentPayments

-----------------------------------------------------------------------------
\* The worker's escalation triggers the default of a held deposit, or shows nothing
\* of itself in the abstract custody.
LEMMA EscalationIsPromised ==
    ASSUME IInv, NEW count, Escalate(count), UNCHANGED custody
    PROVE  Promise!TriggerDefault \/ PromiseUnchanged
<1> DEFINE state == Escalated(deposit.state, count)
<1>1. CASE state = deposit.state
    <2>1. UNCHANGED <<deposit, custody>>
        BY <1>1 DEF Escalate
    <2>2. QED
        BY <2>1, CustodyRowsUnchanged
<1>2. CASE state # deposit.state
    <2>1. /\ deposit.state \in {"held", "at_risk"}
          /\ state = IF count >= Threshold THEN "default_triggered" ELSE "at_risk"
          /\ Transition(state, "be08_penalty_worker")
        BY <1>2 DEF Escalate, Escalated
    <2> HIDE DEF state
    <2>2. deposit'.state = state
        BY <2>1 DEF IInv, DepositTypeOK, DepositRow, Transition
    <2>3. Standing = "held" /\ Standing' \in {"defaulted", "held"}
        BY <2>1, <2>2 DEF Standing
    <2>4. QED
        BY <2>3 DEF Promise!TriggerDefault, PromiseUnchanged, Promise!escrowVars, Journals
<1>3. QED
    BY <1>1, <1>2

\* The steps that the abstract custody allows.
EscrowSteps == [][Promise!EscrowNext]_(Promise!escrowVars)

\* With the penalty worker beside the rules engine, too, the deposit takes only steps
\* of the abstract custody: a default only of a held deposit, and no way back from it.
\* (The specification starts with the deposit held, so EscrowInit is not claimed.)
THEOREM EscrowUnderPenalties == PenaltySpec => EscrowSteps
<1>1. PenaltyInv /\ [PenaltyNext]_penaltyVars => [Promise!EscrowNext]_(Promise!escrowVars)
    <2> SUFFICES ASSUME PenaltyInv, [PenaltyNext]_penaltyVars
                 PROVE  Promise!EscrowNext \/ PromiseUnchanged
        BY DEF PromiseUnchanged
    <2>1. CASE Custody
        BY <2>1, CustodyIsPromised DEF PenaltyInv
    <2>2. ASSUME NEW w \in Worker, AssessCommit(w) PROVE Promise!EscrowNext \/ PromiseUnchanged
        <3>1. UNCHANGED custody /\ (UNCHANGED deposit \/ Escalate(job[w].count))
            BY <2>2 DEF AssessCommit
        <3>2. QED
            BY <3>1, EscalationIsPromised, CustodyRowsUnchanged DEF PenaltyInv, Promise!EscrowNext
    <2>3. CASE UNCHANGED <<deposit, custody>>
        BY <2>3, CustodyRowsUnchanged
    <2>4. QED
        BY <2>1, <2>2, <2>3 DEF PenaltyNext, Tick, Collection, Settle, CallbackBegin,
            CallbackCommit, CallbackAbort, Reconcile, Assessment, AssessRead, AssessAbort,
            depositVars, penaltyVars
<1>2. QED
    BY <1>1, PenaltyInvariance, PTL DEF PenaltySpec, EscrowSteps
=============================================================================
