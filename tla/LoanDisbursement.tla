-------------------------- MODULE LoanDisbursement --------------------------
(***************************************************************************)
(* The life of a loan in one Chama: application, guarantor pledges, the    *)
(* Treasurer's and the Chairperson's approvals, the M-Pesa B2C payout and  *)
(* its callbacks (src/services/loan.service.ts).                           *)
(*                                                                         *)
(* Each withDatabaseTransaction is one action: they are SERIALIZABLE and   *)
(* lock the loan row.  The Chairperson's approval is several actions,      *)
(* because the provider is called between two transactions; the process    *)
(* may die between any two of them.  The provider is external: it accepts  *)
(* a payout, later pays it or refuses it, reports that one outcome any     *)
(* number of times and at any later moment, and may report a timeout.      *)
(***************************************************************************)
EXTENDS TreasuryLedger

CONSTANTS
    Group,           \* the Chama
    Loan, Member,
    Pledge,          \* amounts a guarantor may be nominated for
    MinGuarantors,   \* values of loan_rules.min_guarantors
    Multiplier,      \* loan_rules.max_borrowing_multiplier
    MaxActiveLoans,  \* the subscription plan's limit
    Receipt,         \* bound: one contribution payment each
    Turn             \* bound: one merry-go-round payout each

ASSUME GroupAssumption == Group \in Chama
ASSUME LoanAssumption  == IsFiniteSet(Loan) /\ IsFiniteSet(Member) /\ MinGuarantors # {}
ASSUME PledgeAssumption == Pledge \subseteq Nat

VARIABLES
    savings,         \* confirmed contribution payments of each member
    minGuarantors,   \* the current loan rule
    loan,            \* loans and loan_guarantors
    disbursement,    \* loan_disbursements
    approval,        \* where the Chairperson's request for a loan stands
    provider         \* what M-Pesa did with the payout of a loan

loanVars == <<pooled, journals, savings, minGuarantors, loan, disbursement, approval, provider>>

LoanStatus == {"none", "awaiting_guarantors", "pending_admin_approval", "partially_approved",
               "disbursement_pending", "disbursement_failed", "disbursed", "rejected"}

NoLoan == [status |-> "none", principal |-> 0, guarantors |-> [m \in {} |-> 0],
           approved |-> {}, treasurerApproved |-> FALSE]

NoDisbursement == [status |-> "none", dispatched |-> FALSE]

LoanInit ==
    /\ LedgerInit
    /\ savings = [m \in Member |-> 0]
    /\ minGuarantors \in MinGuarantors
    /\ loan = [l \in Loan |-> NoLoan]
    /\ disbursement = [l \in Loan |-> NoDisbursement]
    /\ approval = [l \in Loan |-> "idle"]
    /\ provider = [l \in Loan |-> "none"]

LoanReference(l) == <<"loan-disbursement", l>>
LoanInstruction(l) == LoanDisbursement(LoanReference(l), Group, loan[l].principal, "KES")

\* What is posted here: loans, contributions and merry-go-round payouts.
Postings ==
    {LoanDisbursement(LoanReference(l), Group, a, "KES") : l \in Loan, a \in Amount}
        \cup {Deposit(<<"mpesa:stk", r>>, Group, a, "KES") : r \in Receipt, a \in Amount}
        \cup {Payout(<<"mgr-payout", t>>, Group, a, "KES") : t \in Turn, a \in Amount}

ASSUME PostingAssumption == Postings \subseteq Workload

SetStatus(l, status) == loan' = [loan EXCEPT ![l].status = status]
SetDisbursement(l, status) == disbursement' = [disbursement EXCEPT ![l].status = status]

-----------------------------------------------------------------------------
\* A confirmed M-Pesa contribution raises the treasury and the member's savings.
Contribute(m, amount, receipt) ==
    /\ Post(Deposit(<<"mpesa:stk", receipt>>, Group, amount, "KES"))
    /\ savings' = [savings EXCEPT ![m] = @ + amount]
    /\ UNCHANGED <<minGuarantors, loan, disbursement, approval, provider>>

\* The merry-go-round spends the same treasury and looks at no loan.
PayTurn(turn, amount) ==
    /\ Post(Payout(<<"mgr-payout", turn>>, Group, amount, "KES"))
    /\ UNCHANGED <<savings, minGuarantors, loan, disbursement, approval, provider>>

UpsertRule(n) ==
    /\ minGuarantors' = n
    /\ UNCHANGED <<pooled, journals, savings, loan, disbursement, approval, provider>>

Encumbering(l) == loan[l].status \notin {"none", "rejected"}

Apply(l, borrower, principal, guarantors) ==
    /\ loan[l].status = "none"
    /\ Cardinality({x \in Loan : Encumbering(x)}) < MaxActiveLoans
    /\ Cardinality(DOMAIN guarantors) >= minGuarantors
    /\ principal <= savings[borrower] * Multiplier
    /\ borrower \notin DOMAIN guarantors
    /\ loan' = [loan EXCEPT ![l] =
            [status |-> "awaiting_guarantors", principal |-> principal,
             guarantors |-> guarantors, approved |-> {}, treasurerApproved |-> FALSE]]
    /\ UNCHANGED <<pooled, journals, savings, minGuarantors, disbursement, approval, provider>>

\* What the approved pledges of m on other open loans have already locked.
Pledged(m, loans) == SumFunction([x \in loans |-> loan[x].guarantors[m]])

LockedUntilDispatch(m, excluded) ==
    Pledged(m, {x \in Loan \ {excluded} : m \in loan[x].approved /\ Encumbering(x)
                  /\ loan[x].status # "disbursement_failed"})
LockedGuarantees(m, excluded) ==
    Pledged(m, {x \in Loan \ {excluded} : m \in loan[x].approved /\ Encumbering(x)})

Coverage(l, approved) == SumFunctionOnSet(loan[l].guarantors, approved)

CountedOnly(l, approved) == Cardinality(approved) >= minGuarantors

\* guarantorProgress against the principal and the current rule.
Collateralised(l, approved) ==
    /\ Coverage(l, approved) >= loan[l].principal
    /\ Cardinality(approved) >= minGuarantors

AcceptGuarantee(l, m) ==
    /\ m \in DOMAIN loan[l].guarantors \ loan[l].approved
    /\ loan[l].status = "awaiting_guarantors"
    /\ loan[l].guarantors[m] <= savings[m] - LockedGuarantees(m, l)
    /\ LET approved == loan[l].approved \cup {m}
       IN  loan' = [loan EXCEPT ![l].approved = approved,
                                ![l].status = IF Collateralised(l, approved)
                                              THEN "pending_admin_approval" ELSE @]
    /\ UNCHANGED <<pooled, journals, savings, minGuarantors, disbursement, approval, provider>>

TreasurerApprove(l) ==
    /\ loan[l].status = "pending_admin_approval"
    /\ Collateralised(l, loan[l].approved)
    /\ loan' = [loan EXCEPT ![l].status = "partially_approved", ![l].treasurerApproved = TRUE]
    /\ UNCHANGED <<pooled, journals, savings, minGuarantors, disbursement, approval, provider>>

\* assertTreasuryAvailableForLoan: the balance less the payouts of other loans
\* that are still pending.
Reserved(l) ==
    LET pending == {x \in Loan \ {l} : /\ disbursement[x].status = "pending"
                                       /\ loan[x].status = "disbursement_pending"}
    IN  SumFunction([x \in pending |-> loan[x].principal])

ChairApprove(l) ==
    /\ loan[l].status = "partially_approved"
    /\ Collateralised(l, loan[l].approved)
    /\ loan[l].treasurerApproved
    /\ loan[l].principal <= pooled[Group] - Reserved(l)
    /\ SetStatus(l, "disbursement_pending")
    /\ disbursement' = [disbursement EXCEPT ![l] = [status |-> "pending", dispatched |-> FALSE]]
    /\ approval' = [approval EXCEPT ![l] = "dispatch"]
    /\ UNCHANGED <<pooled, journals, savings, minGuarantors, provider>>

\* dispatchB2CPayout outside any transaction.  An error does not say whether
\* the provider took the request.
Dispatch(l) ==
    /\ approval[l] = "dispatch"
    /\ \/ /\ provider' = [provider EXCEPT ![l] = "accepted"]
          /\ \E next \in {"record", "fail"} : approval' = [approval EXCEPT ![l] = next]
       \/ /\ approval' = [approval EXCEPT ![l] = "fail"]
          /\ UNCHANGED provider
    /\ UNCHANGED <<pooled, journals, savings, minGuarantors, loan, disbursement>>

\* The second transaction stores the ConversationID.  It may fail, or commit
\* without the request learning of it.
RecordDispatch(l) ==
    /\ approval[l] = "record"
    /\ \/ /\ disbursement[l].status = "pending"
          /\ disbursement' = [disbursement EXCEPT ![l].dispatched = TRUE]
          /\ \E next \in {"idle", "fail"} : approval' = [approval EXCEPT ![l] = next]
       \/ /\ approval' = [approval EXCEPT ![l] = "fail"]
          /\ UNCHANGED disbursement
    /\ UNCHANGED <<pooled, journals, savings, minGuarantors, loan, provider>>

\* The catch block marks both rows failed whatever they are now.
FailDispatch(l) ==
    /\ approval[l] = "fail"
    /\ SetDisbursement(l, "failed")
    /\ SetStatus(l, "disbursement_failed")
    /\ approval' = [approval EXCEPT ![l] = "idle"]
    /\ UNCHANGED <<pooled, journals, savings, minGuarantors, provider>>

\* The process dies with the request in flight.
Crash(l) ==
    /\ approval[l] # "idle"
    /\ approval' = [approval EXCEPT ![l] = "idle"]
    /\ UNCHANGED <<pooled, journals, savings, minGuarantors, loan, disbursement, provider>>

ProviderDecides(l) ==
    /\ provider[l] = "accepted"
    /\ \E outcome \in {"paid", "refused"} : provider' = [provider EXCEPT ![l] = outcome]
    /\ UNCHANGED <<pooled, journals, savings, minGuarantors, loan, disbursement, approval>>

\* Callbacks find the row by the stored ConversationID; without it they get a 404.
SettledAsPaid(l) == disbursement[l].status = "confirmed" /\ loan[l].status = "disbursed"

ReportsAcceptance(l) == provider[l] # "none"
ReportsPayment(l) == provider[l] = "paid"

ResultSuccess(l) ==
    /\ ReportsPayment(l)
    /\ disbursement[l].dispatched
    /\ ~SettledAsPaid(l)
    /\ ExecuteWithinTransaction(LoanInstruction(l))
    /\ SetDisbursement(l, "confirmed")
    /\ SetStatus(l, "disbursed")
    /\ UNCHANGED <<savings, minGuarantors, approval, provider>>

ResultFailure(l) ==
    /\ provider[l] = "refused"
    /\ disbursement[l].dispatched
    /\ ~(disbursement[l].status = "failed" /\ loan[l].status = "disbursement_failed")
    /\ SetDisbursement(l, "failed")
    /\ SetStatus(l, "disbursement_failed")
    /\ UNCHANGED <<pooled, journals, savings, minGuarantors, approval, provider>>

\* A timeout may come whatever the provider does with the payout, even after.
Overwrite(l) ==
    /\ SetDisbursement(l, "failed")
    /\ SetStatus(l, "disbursement_failed")
FailIfPending(l) ==
    /\ SetDisbursement(l, IF disbursement[l].status = "pending" THEN "failed" ELSE disbursement[l].status)
    /\ SetStatus(l, IF loan[l].status = "disbursement_pending" THEN "disbursement_failed" ELSE loan[l].status)

Timeout(l) ==
    /\ provider[l] # "none"
    /\ disbursement[l].dispatched
    /\ FailIfPending(l)
    /\ UNCHANGED <<pooled, journals, savings, minGuarantors, approval, provider>>

MayReject(l) == loan[l].status \in {"awaiting_guarantors", "pending_admin_approval",
                                    "partially_approved", "disbursement_failed"}
FailureReported(l) == disbursement[l].status # "pending"
Reconciled(l) == loan[l].status = "disbursement_failed" => ~disbursement[l].dispatched

Reject(l) ==
    /\ MayReject(l)
    /\ Reconciled(l)
    /\ SetStatus(l, "rejected")
    /\ UNCHANGED <<pooled, journals, savings, minGuarantors, disbursement, approval, provider>>

-----------------------------------------------------------------------------
Nominations(borrower) == UNION {[S -> Pledge] : S \in SUBSET (Member \ {borrower})}

Office ==
    \/ \E m \in Member, a \in Amount, r \in Receipt : Contribute(m, a, r)
    \/ \E t \in Turn, a \in Amount : PayTurn(t, a)
    \/ \E n \in MinGuarantors : UpsertRule(n)
    \/ \E l \in Loan, m \in Member, a \in Amount :
          \E g \in Nominations(m) : Apply(l, m, a, g)
    \/ \E l \in Loan, m \in Member : AcceptGuarantee(l, m)
    \/ \E l \in Loan : TreasurerApprove(l) \/ ChairApprove(l) \/ Reject(l)

ApprovalStep(l) ==
    Dispatch(l) \/ RecordDispatch(l) \/ FailDispatch(l) \/ Crash(l) \/ ProviderDecides(l)

Callback(l) == ResultSuccess(l) \/ ResultFailure(l) \/ Timeout(l)

LoanNext == Office \/ \E l \in Loan : ApprovalStep(l) \/ Callback(l)

LoanSpec == LoanInit /\ [][LoanNext]_loanVars

-----------------------------------------------------------------------------
LoanTypeOK ==
    /\ pooled \in [Chama -> Nat]
    /\ \A r \in DOMAIN journals : journals[r].reference = r
    /\ savings \in [Member -> Nat]
    /\ minGuarantors \in MinGuarantors
    /\ DOMAIN loan = Loan
    /\ \A l \in Loan :
         /\ loan[l].status \in LoanStatus
         /\ loan[l].principal \in Amount \cup {0}
         /\ loan[l].approved \subseteq DOMAIN loan[l].guarantors
         /\ DOMAIN loan[l].guarantors \subseteq Member
    /\ disbursement \in [Loan -> [status : {"none", "pending", "failed", "confirmed"},
                                 dispatched : BOOLEAN]]
    /\ approval \in [Loan -> {"idle", "dispatch", "record", "fail"}]
    /\ provider \in [Loan -> {"none", "accepted", "paid", "refused"}]

Journalled(l) == LoanReference(l) \in DOMAIN journals

\* No member's approved pledges on open loans, taken together, exceed the
\* member's confirmed savings (acceptGuarantee): accepting a pledge encumbers it
\* until the loan is rejected, whatever became of the payout in between.
PledgesCovered ==
    \A m \in Member :
        Pledged(m, {l \in Loan : m \in loan[l].approved /\ Encumbering(l)}) <= savings[m]

\* The provider is never asked to pay a loan that was not approved by the
\* Treasurer or is not guaranteed in full, though rules, pledges and other loans
\* change while the approvals are under way (approve).
PayoutIsAuthorised ==
    \A l \in Loan :
        provider[l] # "none" =>
            /\ loan[l].treasurerApproved
            /\ Coverage(l, loan[l].approved) >= loan[l].principal

\* The treasury is charged for a loan only when M-Pesa really paid it, and a
\* `disbursed` loan has been charged.  A charged loan may for a while read
\* `disbursement_failed` (the catch block of approve can overwrite a result that
\* overtook it), but never anything else.
JournalMatchesPayout ==
    \A l \in Loan :
        /\ Journalled(l) => /\ provider[l] = "paid"
                           /\ loan[l].status \in {"disbursed", "disbursement_failed"}
        /\ loan[l].status = "disbursed" => Journalled(l)

\* A loan whose ConversationID is stored is not rejected: its collateral stays
\* locked until the payout is reconciled (reject).
DispatchedLoanKeepsCollateral ==
    \A l \in Loan : disbursement[l].dispatched => loan[l].status # "rejected"

\* Once the ledger has charged a loan, a repeated success, a late timeout or a
\* failure never touches the treasury or the journal for it again, and a
\* `disbursed` loan is left only by the catch block of its own approval.
SettlementIsFinal ==
    [][\A l \in Loan :
        /\ Journalled(l) => Journalled(l)' /\ journals'[LoanReference(l)] = journals[LoanReference(l)]
        /\ loan[l].status = "disbursed" /\ loan'[l].status # "disbursed"
              => approval[l] = "fail"]_loanVars

\* What README.md promises of rejection: "a dispatched-but-unreconciled payout
\* is not safe to reject", so no loan that M-Pesa accepted is rejected unless
\* M-Pesa refused to pay it.
NoRejectionAfterDispatch ==
    \A l \in Loan : provider[l] \in {"accepted", "paid"} => loan[l].status # "rejected"
=============================================================================
