-------------------------- MODULE PlatformPayments --------------------------
(***************************************************************************)
(* What a Chama pays to the platform by M-Pesa STK push: the fee for its   *)
(* registration and its Premium subscription.  Both services insert a      *)
(* pending row in a transaction, ask the gateway outside of it, store the  *)
(* CheckoutRequestID, and confirm in a callback under a lock of the row.   *)
(* What a confirmation buys is a Chama, or a period of the subscription.   *)
(***************************************************************************)
EXTENDS Integers, Sequences, FiniteSets

CONSTANTS
    Payment,
    PeriodOf,      \* the length of the billing period of each Premium plan
    MaxTime        \* bound on the clock, in units of which a period has some

ASSUME PaymentsAssumption ==
    /\ \A plan \in DOMAIN PeriodOf : plan # "free" /\ PeriodOf[plan] \in Nat \ {0}
    /\ MaxTime \in Nat

VARIABLES
    now,
    subscription,  \* platform_subscriptions: plan and current period
    payments,      \* subscription_payments, chama_registration_payments
    journals,      \* payments with a platform_fee transaction in the ledger
    bought         \* history: what was bought, with which payment, in order

paymentsVars == <<now, subscription, payments, journals, bought>>

Plans == DOMAIN PeriodOf
Registration == "registration"
Items == Plans \cup {Registration}

\* `run` is where initiate stands, `provider` what the customer did.
NoPayment == [item |-> "none", status |-> "none", referenced |-> FALSE,
              run |-> "idle", provider |-> "none"]

PaymentsInit ==
    /\ now = 0
    /\ subscription = [plan |-> "free", start |-> 0, end |-> 0]
    /\ payments = [p \in Payment |-> NoPayment]
    /\ journals = {}
    /\ bought = <<>>

-----------------------------------------------------------------------------
SameService(item, other) == (item = Registration) <=> (other = Registration)

\* A founder, and a Chama, have one pending payment at a time.
Initiate(p, item) ==
    /\ payments[p] = NoPayment
    /\ \A q \in Payment :
          ~(payments[q].status = "pending" /\ SameService(payments[q].item, item))
    /\ payments' = [payments EXCEPT ![p].item = item, ![p].status = "pending",
                                    ![p].run = "dispatch"]
    /\ UNCHANGED <<now, subscription, journals, bought>>

\* The gateway call; an error does not say whether the customer was asked.
AskCustomer(p) ==
    /\ payments[p].run = "dispatch"
    /\ \/ \E next \in {"record", "fail"} :
            payments' = [payments EXCEPT ![p].run = next, ![p].provider = "asked"]
       \/ payments' = [payments EXCEPT ![p].run = "fail"]
    /\ UNCHANGED <<now, subscription, journals, bought>>

\* Both statements of initiate spare a row that the callback has settled.
RecordCheckout(p) ==
    /\ payments[p].run = "record"
    /\ \/ \E next \in {"idle", "fail"} :
            payments' = [payments EXCEPT ![p].run = next,
                                         ![p].referenced = payments[p].status = "pending"]
       \/ payments' = [payments EXCEPT ![p].run = "fail"]
    /\ UNCHANGED <<now, subscription, journals, bought>>

FailInitiation(p) ==
    /\ payments[p].run = "fail"
    /\ payments' = [payments EXCEPT ![p].run = "idle",
                                    ![p].status = IF @ = "pending" THEN "failed" ELSE @]
    /\ UNCHANGED <<now, subscription, journals, bought>>

InitiationDies(p) ==
    /\ payments[p].run # "idle"
    /\ payments' = [payments EXCEPT ![p].run = "idle"]
    /\ UNCHANGED <<now, subscription, journals, bought>>

CustomerAnswers(p) ==
    /\ payments[p].provider = "asked"
    /\ \E answer \in {"paid", "refused"} : payments' = [payments EXCEPT ![p].provider = answer]
    /\ UNCHANGED <<now, subscription, journals, bought>>

-----------------------------------------------------------------------------
\* processStkCallback finds the row by its CheckoutRequestID and replays a paid
\* one; a failed one is settled again.
OpenForCallback(p) == payments[p].referenced /\ payments[p].status # "paid"

CallbackRefused(p) ==
    /\ payments[p].provider = "refused"
    /\ OpenForCallback(p)
    /\ payments' = [payments EXCEPT ![p].status = "failed"]
    /\ UNCHANGED <<now, subscription, journals, bought>>

StartsNow(end) == now

\* A renewal before the end of the current period is appended to it.
PeriodStart(end) == IF end > now THEN end ELSE now

Buy(p, start, end) ==
    bought' = Append(bought, [payment |-> p, item |-> payments[p].item, start |-> start, end |-> end])

\* The Chama is created from the payload stored with the payment.
BuyChama(p) ==
    /\ payments[p].item = Registration
    /\ Buy(p, now, now)
    /\ UNCHANGED subscription

BuyPeriod(p) ==
    LET start == PeriodStart(subscription.end)
        end   == start + PeriodOf[payments[p].item]
    IN  /\ payments[p].item # Registration
        /\ Buy(p, start, end)
        /\ subscription' = [plan |-> payments[p].item, start |-> start, end |-> end]

CallbackPaid(p) ==
    /\ payments[p].provider = "paid"
    /\ OpenForCallback(p)
    /\ BuyChama(p) \/ BuyPeriod(p)
    /\ journals' = journals \cup {p}
    /\ payments' = [payments EXCEPT ![p].status = "paid"]
    /\ UNCHANGED now

TimePasses ==
    /\ now < MaxTime
    /\ now' = now + 1
    /\ UNCHANGED <<subscription, payments, journals, bought>>

PaymentStep(p) ==
    \/ AskCustomer(p)
    \/ RecordCheckout(p)
    \/ FailInitiation(p)
    \/ CustomerAnswers(p)
    \/ CallbackRefused(p)
    \/ CallbackPaid(p)

-----------------------------------------------------------------------------
Paid == {p \in Payment : payments[p].status = "paid"}
Periods == {n \in DOMAIN bought : bought[n].item # Registration}

\* Whatever the order of callbacks, retries and catch blocks, every payment that
\* reads paid was made, is in the ledger, and bought one thing; the periods that
\* a Chama paid for follow each other without overlap up to the end it is shown.
EveryPaymentBuysOnce ==
    /\ journals = Paid
    /\ \A p \in Payment :
          Cardinality({n \in DOMAIN bought : bought[n].payment = p})
              = IF p \in Paid THEN 1 ELSE 0
    /\ \A p \in Paid : payments[p].provider = "paid"
    /\ \A n \in Periods :
          /\ bought[n].end - bought[n].start = PeriodOf[bought[n].item]
          /\ \A later \in Periods : later > n => bought[later].start >= bought[n].end
          /\ (\A other \in Periods : other <= n) =>
                /\ subscription.end = bought[n].end
                /\ subscription.plan = bought[n].item
=============================================================================
