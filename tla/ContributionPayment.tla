------------------------ MODULE ContributionPayment -------------------------
(***************************************************************************)
(* The collection of contributions by M-Pesa STK push                      *)
(* (src/services/payment.service.ts).                                      *)
(*                                                                         *)
(* initiateStkPush reads what remains to be paid without a lock, inserts   *)
(* its log row, calls the provider and stores the CheckoutRequestID, each  *)
(* on its own: no transaction spans them, and the process may die between  *)
(* any two.  processStkCallback is one SERIALIZABLE transaction that locks *)
(* the log row and the contribution, hence one action.  It writes the      *)
(* journal and the treasury itself, without the ledger's advisory lock.    *)
(*                                                                         *)
(* The provider is external: it asks the customer, who pays or does not,   *)
(* and reports that one outcome any number of times.  A paid push has a    *)
(* receipt number of its own, so a receipt is identified with its push.    *)
(***************************************************************************)
EXTENDS TreasuryLedger

CONSTANTS
    Group,          \* the Chama
    Contribution,
    Expected,       \* contributions.expected_amount
    Push            \* bound: payment_provider_logs rows

ASSUME GroupAssumption    == Group \in Chama
ASSUME ExpectedAssumption == Expected \in Nat \ {0} /\ IsFiniteSet(Push)

VARIABLES
    contribution,   \* contributions: status, and whether the deadline was assessed
    payments,       \* contribution_payments, by receipt
    push            \* payment_provider_logs, with where each request stands

paymentVars == <<pooled, journals, contribution, payments, push>>

\* `run` is where initiateStkPush stands, `provider` what the customer did.
NoPush == [contribution |-> "none", amount |-> 0, status |-> "none",
           referenced |-> FALSE, run |-> "idle", provider |-> "none"]

PaymentInit ==
    /\ LedgerInit
    /\ contribution = [c \in Contribution |-> [status |-> "pending", assessed |-> FALSE]]
    /\ payments = [n \in {} |-> NoPush]
    /\ push = [n \in Push |-> NoPush]

\* The sum over confirmed pushes would forget a receipt whose log row the catch
\* block failed; the code sums contribution_payments.
PushTotal(rows, c) ==
    SumFunctionOnSet([n \in DOMAIN rows |-> rows[n].amount],
        {n \in DOMAIN rows : rows[n].contribution = c /\ push[n].status = "confirmed"})
Total(rows, c) ==
    SumFunctionOnSet([n \in DOMAIN rows |-> rows[n].amount],
        {n \in DOMAIN rows : rows[n].contribution = c})
Paid(c) == Total(payments, c)

-----------------------------------------------------------------------------
\* initiateStkPush up to its checks, for an active member.
Payable(c) == contribution[c].status \in {"pending", "partially_paid", "late"}
WithinRemaining(c, amount) == amount <= Expected - Paid(c)

Request(n, c, amount) ==
    /\ push[n] = NoPush
    /\ Payable(c)
    /\ WithinRemaining(c, amount)
    /\ push' = [push EXCEPT ![n].contribution = c, ![n].amount = amount, ![n].run = "insert"]
    /\ UNCHANGED <<pooled, journals, contribution, payments>>

InsertLog(n) ==
    /\ push[n].run = "insert"
    /\ push' = [push EXCEPT ![n].status = "pending", ![n].run = "dispatch"]
    /\ UNCHANGED <<pooled, journals, contribution, payments>>

\* The gateway call; an error does not say whether the customer was asked.
Dispatch(n) ==
    /\ push[n].run = "dispatch"
    /\ \/ \E next \in {"record", "fail"} :
            push' = [push EXCEPT ![n].run = next, ![n].provider = "accepted"]
       \/ push' = [push EXCEPT ![n].run = "fail"]
    /\ UNCHANGED <<pooled, journals, contribution, payments>>

\* The CheckoutRequestID is stored, and the request may not learn that it was.
RecordDispatch(n) ==
    /\ push[n].run = "record"
    /\ \/ \E next \in {"idle", "fail"} :
            push' = [push EXCEPT ![n].run = next, ![n].referenced = TRUE]
       \/ push' = [push EXCEPT ![n].run = "fail"]
    /\ UNCHANGED <<pooled, journals, contribution, payments>>

\* The catch block marks the log row failed whatever it is by now.
FailDispatch(n) ==
    /\ push[n].run = "fail"
    /\ push' = [push EXCEPT ![n].run = "idle", ![n].status = "failed"]
    /\ UNCHANGED <<pooled, journals, contribution, payments>>

Crash(n) ==
    /\ push[n].run # "idle"
    /\ push' = [push EXCEPT ![n].run = "idle"]
    /\ UNCHANGED <<pooled, journals, contribution, payments>>

CustomerDecides(n) ==
    /\ push[n].provider = "accepted"
    /\ \E outcome \in {"paid", "refused"} : push' = [push EXCEPT ![n].provider = outcome]
    /\ UNCHANGED <<pooled, journals, contribution, payments>>

-----------------------------------------------------------------------------
\* processStkCallback finds the row by its CheckoutRequestID and replays a
\* confirmed one.
Open(n) == push[n].referenced /\ push[n].status # "confirmed"

CallbackFailure(n) ==
    /\ push[n].provider = "refused"
    /\ Open(n)
    /\ push' = [push EXCEPT ![n].status = "failed"]
    /\ UNCHANGED <<pooled, journals, contribution, payments>>

StkDeposit(n) == Deposit(<<"mpesa:stk", n>>, Group, push[n].amount, "KES")

Postings == {Deposit(<<"mpesa:stk", n>>, Group, a, "KES") : n \in Push, a \in Amount}

ASSUME PostingAssumption == Postings \subseteq Workload

KnownReceipt(n) == n \in DOMAIN payments

\* A known receipt is neither inserted nor posted again.
Collect(n) ==
    \/ /\ KnownReceipt(n)
       /\ UNCHANGED <<pooled, journals, payments>>
    \/ /\ ~KnownReceipt(n)
       /\ Post(StkDeposit(n))
       /\ payments' = [r \in DOMAIN payments \cup {n} |->
                          IF r = n THEN [contribution |-> push[n].contribution,
                                         amount |-> push[n].amount]
                          ELSE payments[r]]

ReportsAcceptance(n) == push[n].provider # "none"
ReportsPayment(n) == push[n].provider = "paid"

NoLimit(total) == total >= 0
NotOverpaid(total) == total <= Expected

CallbackSuccess(n) ==
    LET c == push[n].contribution
    IN  /\ ReportsPayment(n)
        /\ Open(n)
        /\ Collect(n)
        /\ NotOverpaid(Total(payments', c))
        /\ contribution' = [contribution EXCEPT ![c].status =
                              IF Total(payments', c) = Expected THEN "paid" ELSE "partially_paid"]
        /\ push' = [push EXCEPT ![n].status = "confirmed"]

\* assessContribution, once after the grace deadline: what it does to the row of
\* the contribution.  The penalty it charges is a receivable and touches neither
\* the treasury nor a payment.
Unpaid(c) == Paid(c) < Expected

Assess(c) ==
    /\ ~contribution[c].assessed
    /\ contribution' = [contribution EXCEPT ![c].assessed = TRUE,
                            ![c].status = IF Unpaid(c) THEN "late" ELSE @]
    /\ UNCHANGED <<pooled, journals, payments, push>>

-----------------------------------------------------------------------------
Initiate(n) == InsertLog(n) \/ Dispatch(n) \/ RecordDispatch(n) \/ FailDispatch(n) \/ Crash(n)

PaymentNext ==
    \/ \E n \in Push, c \in Contribution, a \in Amount : Request(n, c, a)
    \/ \E n \in Push : Initiate(n) \/ CustomerDecides(n)
    \/ \E n \in Push : CallbackFailure(n) \/ CallbackSuccess(n)
    \/ \E c \in Contribution : Assess(c)

PaymentSpec == PaymentInit /\ [][PaymentNext]_paymentVars

-----------------------------------------------------------------------------
\* A contribution never collects more than is expected, whatever several pushes
\* for the same remainder do, and its status says what its confirmed payments
\* add up to (processStkCallback, assessContribution).
StatusFollowsPayments ==
    \A c \in Contribution :
        /\ Paid(c) <= Expected
        /\ contribution[c].status = "paid" <=> Paid(c) = Expected
        /\ contribution[c].status = "partially_paid" => Paid(c) > 0
        /\ contribution[c].status = "pending" => Paid(c) = 0

\* One receipt, one contribution payment, one deposit: the customer really paid
\* it, and the treasury holds exactly what the receipts say
\* (the promise of README.md on successful callbacks).
TreasuryHoldsReceipts ==
    /\ \A n \in DOMAIN payments : push[n].provider = "paid"
    /\ DOMAIN journals = {<<"mpesa:stk", n>> : n \in DOMAIN payments}
    /\ pooled[Group] = Opening[Group]
                        + SumFunction([n \in DOMAIN payments |-> payments[n].amount])

\* A collected payment is never forgotten: no repeated callback, late failure or
\* catch block withdraws a receipt, and a contribution paid in full stays paid,
\* the assessment of its deadline included.
CollectedStaysCollected ==
    [][/\ \A n \in DOMAIN payments : n \in DOMAIN payments' /\ payments'[n] = payments[n]
       /\ \A c \in Contribution :
            contribution[c].status = "paid" => contribution'[c].status = "paid"]_paymentVars
=============================================================================
