--------------------- MODULE ContributionPaymentProofs ----------------------
(***************************************************************************)
(* Proofs about ContributionPayment, for any number of contributions,      *)
(* pushes and amounts.  The inductive invariant IInv adds to the two       *)
(* invariants of the runs what a request fixes before the customer can be  *)
(* asked (PushPlaces) and that a receipt is worth what its push asked for  *)
(* (ReceiptOfPush).                                                        *)
(***************************************************************************)
EXTENDS ContributionPayment, TreasuryLedgerProofs

PushRow ==
    [contribution : Contribution \cup {"none"}, amount : Amount \cup {0},
     status : {"none", "pending", "failed", "confirmed"}, referenced : BOOLEAN,
     run : {"idle", "insert", "dispatch", "record", "fail"},
     provider : {"none", "accepted", "paid", "refused"}]

ContributionRow ==
    [status : {"pending", "partially_paid", "paid", "late"}, assessed : BOOLEAN]

CollectionTypeOK ==
    /\ pooled \in [Chama -> Nat]
    /\ contribution \in [Contribution -> ContributionRow]
    /\ push \in [Push -> PushRow]
    /\ DOMAIN payments \subseteq Push

\* A request names its contribution and amount before it does anything, and
\* nothing but its dispatch can make the provider answer.
PushPlace(p) ==
    /\ p.run # "idle" \/ p.provider # "none" =>
          p.contribution \in Contribution /\ p.amount \in Amount
    /\ p.run \in {"insert", "dispatch"} => p.provider = "none"

PushPlaces == \A n \in Push : PushPlace(push[n])

\* A receipt is a payment of the push it belongs to.
ReceiptOfPush ==
    \A n \in DOMAIN payments :
        payments[n] = [contribution |-> push[n].contribution, amount |-> push[n].amount]

IInv ==
    /\ CollectionTypeOK /\ PushPlaces /\ ReceiptOfPush
    /\ TreasuryHoldsReceipts /\ StatusFollowsPayments

USE GroupAssumption, ExpectedAssumption

-----------------------------------------------------------------------------
\* What all receipts add up to.
Receipts(rows) == SumFunction([n \in DOMAIN rows |-> rows[n].amount])

\* Receipts of known pushes, each of a known amount.
ReceiptsOK(rows) ==
    /\ DOMAIN rows \subseteq Push
    /\ \A n \in DOMAIN rows : rows[n].amount \in Nat \ {0}

WithReceipt(rows, n, c, a) ==
    [r \in DOMAIN rows \cup {n} |->
        IF r = n THEN [contribution |-> c, amount |-> a] ELSE rows[r]]

\* The sums of receipts are numbers, and a receipt of a contribution counts.
LEMMA TotalsAreNumbers ==
    ASSUME NEW rows, ReceiptsOK(rows)
    PROVE  /\ Receipts(rows) \in Nat
           /\ \A c : Total(rows, c) \in Nat
           /\ \A n \in DOMAIN rows : Total(rows, rows[n].contribution) > 0
<1> DEFINE f == [n \in DOMAIN rows |-> rows[n].amount]
           Of(c) == {n \in DOMAIN rows : rows[n].contribution = c}
<1>1. IsFiniteSet(DOMAIN rows) /\ \A n \in DOMAIN rows : f[n] \in Nat
    BY FS_Subset DEF ReceiptsOK
<1>2. \A c : IsFiniteSet(Of(c)) /\ \A n \in Of(c) : f[n] \in Nat
    BY <1>1, FS_Subset
<1>3. Receipts(rows) = SumFunctionOnSet(f, DOMAIN rows)
    BY DEF Receipts, SumFunction
<1>4. \A c : Total(rows, c) = SumFunctionOnSet(f, Of(c))
    BY DEF Total
<1>5. ASSUME NEW n \in DOMAIN rows PROVE f[n] > 0 /\ n \in Of(rows[n].contribution)
    BY DEF ReceiptsOK
<1> HIDE DEF f, Of
<1>6. Receipts(rows) \in Nat
    BY <1>1, <1>3, SumOfFewer
<1>7. ASSUME NEW c PROVE Total(rows, c) \in Nat
    BY <1>2, <1>4, SumOfFewer
<1>8. ASSUME NEW n \in DOMAIN rows PROVE Total(rows, rows[n].contribution) > 0
    <2> DEFINE S == Of(rows[n].contribution)
    <2>1. n \in S /\ {n} \subseteq S /\ IsFiniteSet(S) /\ (\A m \in S : f[m] \in Nat)
        BY <1>2, <1>5
    <2> HIDE DEF S
    <2>2. SumFunctionOnSet(f, {n}) <= SumFunctionOnSet(f, S)
          /\ SumFunctionOnSet(f, S) \in Nat
        BY <2>1, SumOfFewer
    <2>3. SumFunctionOnSet(f, {} \cup {n}) = SumFunctionOnSet(f, {}) + f[n]
        <3>1. \A m \in S : f[m] \in Int
            BY <2>1
        <3>2. {} \in SUBSET S /\ n \in S \ {}
            BY <2>1
        <3>3. QED
            BY <2>1, <3>1, <3>2, SumWithOneMore
    <2>4. SumFunctionOnSet(f, {n}) = f[n]
        BY <1>1, <2>3, SumOfNothing
    <2>5. QED
        BY <1>1, <1>4, <1>5, <2>2, <2>4 DEF S
<1>9. QED
    BY <1>6, <1>7, <1>8

\* A new receipt adds its amount to its contribution and to no other.
LEMMA ReceiptAddsAmount ==
    ASSUME NEW rows, ReceiptsOK(rows), NEW n \in Push, n \notin DOMAIN rows,
           NEW c, NEW a \in Nat \ {0}
    PROVE  LET new == WithReceipt(rows, n, c, a)
           IN  /\ ReceiptsOK(new)
               /\ Receipts(new) = Receipts(rows) + a
               /\ Total(new, c) = Total(rows, c) + a
               /\ \A d : d # c => Total(new, d) = Total(rows, d)
<1> DEFINE new == WithReceipt(rows, n, c, a)
           old == DOMAIN rows
           f == [r \in old |-> rows[r].amount]
           g == [r \in DOMAIN new |-> new[r].amount]
           Of(d) == {r \in old : rows[r].contribution = d}
           NewOf(d) == {r \in DOMAIN new : new[r].contribution = d}
<1>1. DOMAIN new = old \cup {n} /\ new[n].amount = a /\ new[n].contribution = c
      /\ \A r \in old : new[r] = rows[r]
    BY DEF WithReceipt
<1>2. ReceiptsOK(new)
    BY <1>1 DEF ReceiptsOK
<1>3. IsFiniteSet(DOMAIN new) /\ IsFiniteSet(old) /\ old \subseteq DOMAIN new
    BY <1>1, FS_Subset DEF ReceiptsOK
<1>4. \A r \in DOMAIN new : g[r] \in Int
    BY <1>2 DEF ReceiptsOK
<1>5. \A r \in old : g[r] = f[r]
    BY <1>1
<1>6. g[n] = a
    BY <1>1
<1>7. NewOf(c) = Of(c) \cup {n} /\ \A d : d # c => NewOf(d) = Of(d)
    BY <1>1
<1>8. /\ Receipts(new) = SumFunctionOnSet(g, DOMAIN new)
      /\ Receipts(rows) = SumFunctionOnSet(f, old)
    BY DEF Receipts, SumFunction
<1>9. \A d : Total(new, d) = SumFunctionOnSet(g, NewOf(d)) /\ Total(rows, d) = SumFunctionOnSet(f, Of(d))
    BY DEF Total
<1>10. \A d : Of(d) \in SUBSET old
    OBVIOUS
<1>11. n \in DOMAIN new
    BY <1>1
<1> HIDE DEF new, f, g, Of, NewOf, old
<1>12. \A S \in SUBSET old : SumFunctionOnSet(g, S) = SumFunctionOnSet(f, S)
    <2> TAKE S \in SUBSET old
    <2>1. IsFiniteSet(S) /\ \A r \in S : g[r] = f[r]
        BY <1>3, <1>5, FS_Subset
    <2>2. QED
        BY <2>1, SumOfSameValues
<1>13. \A S \in SUBSET old : SumFunctionOnSet(g, S \cup {n}) = SumFunctionOnSet(f, S) + a
    <2> TAKE S \in SUBSET old
    <2>1. S \in SUBSET DOMAIN new /\ n \in DOMAIN new \ S
        BY <1>3, <1>11 DEF old
    <2>2. SumFunctionOnSet(g, S \cup {n}) = SumFunctionOnSet(g, S) + g[n]
        BY <1>3, <1>4, <2>1, SumWithOneMore
    <2>3. QED
        BY <1>6, <1>12, <2>2
<1>14. Receipts(new) = Receipts(rows) + a
    BY <1>1, <1>8, <1>13
<1>15. Total(new, c) = Total(rows, c) + a
    BY <1>7, <1>9, <1>10, <1>13
<1>16. ASSUME NEW d, d # c PROVE Total(new, d) = Total(rows, d)
    BY <1>7, <1>9, <1>10, <1>12, <1>16
<1>17. QED
    BY <1>2, <1>14, <1>15, <1>16 DEF new
-----------------------------------------------------------------------------
\* Every payment row has the amount of its push, a positive number.
LEMMA PaymentsAreReceipts ==
    ASSUME IInv
    PROVE  /\ ReceiptsOK(payments)
           /\ \A n \in DOMAIN payments :
                 push[n].contribution \in Contribution /\ push[n].amount \in Amount
<1>1. ASSUME NEW n \in DOMAIN payments
      PROVE  /\ n \in Push
             /\ push[n].contribution \in Contribution /\ push[n].amount \in Amount
             /\ payments[n].amount = push[n].amount
    BY DEF IInv, CollectionTypeOK, PushPlaces, PushPlace, ReceiptOfPush, TreasuryHoldsReceipts
<1>2. \A a \in Amount : a \in Nat \ {0}
    BY AmountAssumption
<1>3. QED
    BY <1>1, <1>2 DEF ReceiptsOK, IInv, CollectionTypeOK

\* Nothing is collected at first, whatever is open.
LEMMA InitInvariant == PaymentInit => IInv
<1> SUFFICES ASSUME PaymentInit PROVE IInv
    OBVIOUS
<1> USE DEF PaymentInit, LedgerInit
<1>1. CollectionTypeOK
    BY WorkloadAssumption DEF CollectionTypeOK, PushRow, ContributionRow, NoPush
<1>2. PushPlaces /\ ReceiptOfPush
    BY DEF PushPlaces, PushPlace, ReceiptOfPush, NoPush
<1>3. DOMAIN payments = {}
    OBVIOUS
<1>4. Receipts(payments) = 0 /\ \A c \in Contribution : Paid(c) = 0
    <2>1. {n \in DOMAIN payments : FALSE} = {}
        OBVIOUS
    <2>2. \A c : {n \in DOMAIN payments : payments[n].contribution = c} = {}
        BY <1>3
    <2>3. QED
        BY <1>3, <2>2, SumOfNothing DEF Receipts, Paid, Total, SumFunction
<1>5. TreasuryHoldsReceipts
    BY <1>3, <1>4, WorkloadAssumption DEF TreasuryHoldsReceipts, Receipts
<1>6. StatusFollowsPayments
    BY <1>4 DEF StatusFollowsPayments
<1>7. QED
    BY <1>1, <1>2, <1>5, <1>6 DEF IInv

\* A step of one push that leaves receipts, treasury and contributions alone.
LEMMA PushStepPreserves ==
    ASSUME IInv, UNCHANGED <<pooled, journals, contribution, payments>>,
           NEW n \in Push, push' \in [Push -> PushRow], PushPlace(push'[n]),
           \A m \in Push \ {n} : push'[m] = push[m],
           push[n].provider = "paid" =>
             /\ push'[n].provider = "paid"
             /\ push'[n].contribution = push[n].contribution /\ push'[n].amount = push[n].amount
    PROVE  IInv'
<1> USE DEF IInv
<1>1. CollectionTypeOK'
    BY DEF CollectionTypeOK
<1>2. PushPlaces'
    BY DEF PushPlaces
<1>3. \A m \in DOMAIN payments : m \in Push /\ push[m].provider = "paid"
    BY DEF CollectionTypeOK, TreasuryHoldsReceipts
<1>4. \A m \in DOMAIN payments :
         /\ push'[m].provider = "paid"
         /\ push'[m].contribution = push[m].contribution /\ push'[m].amount = push[m].amount
    BY <1>3
<1>5. ReceiptOfPush'
    BY <1>4 DEF ReceiptOfPush
<1>6. TreasuryHoldsReceipts'
    BY <1>4 DEF TreasuryHoldsReceipts
<1>7. StatusFollowsPayments'
    BY DEF StatusFollowsPayments, Paid, Total
<1>8. QED
    BY <1>1, <1>2, <1>5, <1>6, <1>7

\* A request takes a push nobody used.
LEMMA RequestPreserves ==
    ASSUME IInv, NEW n \in Push, NEW c \in Contribution, NEW a \in Amount, Request(n, c, a)
    PROVE  IInv'
<1>1. push[n] \in PushRow /\ push \in [Push -> PushRow] /\ PushPlace(push[n])
    BY DEF IInv, CollectionTypeOK, PushPlaces
<1>2. /\ push[n].provider = "none"
      /\ push'[n].contribution = c /\ push'[n].amount = a /\ push'[n].run = "insert"
      /\ push'[n].provider = "none"
    BY <1>1 DEF Request, NoPush, PushRow
<1>3. push' \in [Push -> PushRow] /\ \A m \in Push \ {n} : push'[m] = push[m]
    BY <1>1 DEF Request, PushRow
<1>4. QED
    BY <1>2, <1>3, PushStepPreserves DEF Request, PushPlace

\* The request after its checks, the customer's decision and a refusal.
LEMMA InitiatePreserves ==
    ASSUME IInv, NEW n \in Push, Initiate(n) \/ CustomerDecides(n) \/ CallbackFailure(n)
    PROVE  IInv'
<1>1. push \in [Push -> PushRow] /\ push[n] \in PushRow /\ PushPlace(push[n])
    BY DEF IInv, CollectionTypeOK, PushPlaces
<1>2. ASSUME NEW next \in PushRow, push' = [push EXCEPT ![n] = next],
             UNCHANGED <<pooled, journals, contribution, payments>>, PushPlace(next),
             next.contribution = push[n].contribution, next.amount = push[n].amount,
             push[n].provider = "paid" => next.provider = "paid"
      PROVE  IInv'
    BY <1>1, <1>2, PushStepPreserves
<1>3. CASE InsertLog(n)
    <2> DEFINE next == [push[n] EXCEPT !.status = "pending", !.run = "dispatch"]
    <2>1. push' = [push EXCEPT ![n] = next] /\ next \in PushRow /\ PushPlace(next)
        BY <1>1, <1>3 DEF InsertLog, PushRow, PushPlace
    <2>2. QED
        BY <1>1, <1>2, <1>3, <2>1 DEF InsertLog, PushRow
<1>4. CASE Dispatch(n)
    <2>1. PICK next \in {[push[n] EXCEPT !.run = "record", !.provider = "accepted"],
                         [push[n] EXCEPT !.run = "fail", !.provider = "accepted"],
                         [push[n] EXCEPT !.run = "fail"]} :
            push' = [push EXCEPT ![n] = next]
        BY <1>1, <1>4 DEF Dispatch
    <2>2. push[n].run = "dispatch" /\ push[n].provider = "none"
        BY <1>1, <1>4 DEF Dispatch, PushPlace
    <2>3. next \in PushRow /\ PushPlace(next) /\ next.contribution = push[n].contribution
          /\ next.amount = push[n].amount
        BY <1>1, <2>1, <2>2 DEF PushRow, PushPlace
    <2>4. QED
        BY <1>2, <1>4, <2>1, <2>2, <2>3 DEF Dispatch
<1>5. CASE RecordDispatch(n)
    <2>1. PICK next \in {[push[n] EXCEPT !.run = "idle", !.referenced = TRUE],
                         [push[n] EXCEPT !.run = "fail", !.referenced = TRUE],
                         [push[n] EXCEPT !.run = "fail"]} :
            push' = [push EXCEPT ![n] = next]
        BY <1>1, <1>5 DEF RecordDispatch
    <2>2. push[n].run = "record"
        BY <1>5 DEF RecordDispatch
    <2>3. next \in PushRow /\ PushPlace(next) /\ next.contribution = push[n].contribution
          /\ next.amount = push[n].amount /\ next.provider = push[n].provider
        BY <1>1, <2>1, <2>2 DEF PushRow, PushPlace
    <2>4. QED
        BY <1>2, <1>5, <2>1, <2>3 DEF RecordDispatch
<1>6. CASE FailDispatch(n)
    <2> DEFINE next == [push[n] EXCEPT !.run = "idle", !.status = "failed"]
    <2>1. push' = [push EXCEPT ![n] = next] /\ next \in PushRow /\ PushPlace(next)
        BY <1>1, <1>6 DEF FailDispatch, PushRow, PushPlace
    <2>2. QED
        BY <1>1, <1>2, <1>6, <2>1 DEF FailDispatch, PushRow
<1>7. CASE Crash(n)
    <2> DEFINE next == [push[n] EXCEPT !.run = "idle"]
    <2>1. push' = [push EXCEPT ![n] = next] /\ next \in PushRow /\ PushPlace(next)
        BY <1>1, <1>7 DEF Crash, PushRow, PushPlace
    <2>2. QED
        BY <1>1, <1>2, <1>7, <2>1 DEF Crash, PushRow
<1>8. CASE CustomerDecides(n)
    <2>1. PICK next \in {[push[n] EXCEPT !.provider = "paid"],
                         [push[n] EXCEPT !.provider = "refused"]} :
            push' = [push EXCEPT ![n] = next]
        BY <1>1, <1>8 DEF CustomerDecides
    <2>2. push[n].provider = "accepted"
        BY <1>8 DEF CustomerDecides
    <2>3. next \in PushRow /\ PushPlace(next) /\ next.contribution = push[n].contribution
          /\ next.amount = push[n].amount
        BY <1>1, <2>1, <2>2 DEF PushRow, PushPlace
    <2>4. QED
        BY <1>2, <1>8, <2>1, <2>2, <2>3 DEF CustomerDecides
<1>9. CASE CallbackFailure(n)
    <2> DEFINE next == [push[n] EXCEPT !.status = "failed"]
    <2>1. push' = [push EXCEPT ![n] = next] /\ next \in PushRow /\ PushPlace(next)
        BY <1>1, <1>9 DEF CallbackFailure, PushRow, PushPlace
    <2>2. QED
        BY <1>1, <1>2, <1>9, <2>1 DEF CallbackFailure, PushRow
<1>10. QED
    BY <1>3, <1>4, <1>5, <1>6, <1>7, <1>8, <1>9 DEF Initiate
\* What collecting a paid push does to the receipts and the treasury.
LEMMA CollectAddsOnce ==
    ASSUME IInv, NEW n \in Push, ReportsPayment(n), Collect(n)
    PROVE  LET c == push[n].contribution
           IN  /\ c \in Contribution
               /\ ReceiptsOK(payments')
               /\ pooled' \in [Chama -> Nat]
               /\ pooled'[Group] = Opening[Group] + Receipts(payments')
               /\ DOMAIN journals' = {<<"mpesa:stk", m>> : m \in DOMAIN payments'}
               /\ DOMAIN payments' = DOMAIN payments \cup {n}
               /\ \A m \in DOMAIN payments : payments'[m] = payments[m]
               /\ payments'[n] = [contribution |-> c, amount |-> push[n].amount]
               /\ Total(payments, c) \in Nat /\ Total(payments', c) \in Nat
               /\ Total(payments', c) > 0
               /\ payments' = payments \/ Total(payments', c) > Total(payments, c)
               /\ \A d : d # c => Total(payments', d) = Total(payments, d)
<1> DEFINE c == push[n].contribution
           a == push[n].amount
<1>1. c \in Contribution /\ a \in Nat \ {0}
    BY AmountAssumption DEF IInv, PushPlaces, PushPlace, ReportsPayment
<1>2. ReceiptsOK(payments)
    BY PaymentsAreReceipts
<1>3. /\ pooled \in [Chama -> Nat]
      /\ pooled[Group] = Opening[Group] + Receipts(payments)
      /\ DOMAIN journals = {<<"mpesa:stk", m>> : m \in DOMAIN payments}
    BY DEF IInv, CollectionTypeOK, TreasuryHoldsReceipts, Receipts
<1>4. Receipts(payments) \in Nat /\ \A d : Total(payments, d) \in Nat
    BY <1>2, TotalsAreNumbers
<1>5. CASE KnownReceipt(n) /\ UNCHANGED <<pooled, journals, payments>>
    <2>1. n \in DOMAIN payments /\ payments[n] = [contribution |-> c, amount |-> a]
        BY <1>5 DEF KnownReceipt, IInv, ReceiptOfPush
    <2>2. Total(payments, c) > 0
        BY <1>2, <2>1, TotalsAreNumbers
    <2> HIDE DEF c, a
    <2>3. QED
        BY <1>1, <1>2, <1>3, <1>4, <1>5, <2>1, <2>2 DEF c, a
<1>6. CASE /\ ~KnownReceipt(n)
           /\ Post(StkDeposit(n))
           /\ payments' = WithReceipt(payments, n, c, a)
    <2>1. n \notin DOMAIN payments
        BY <1>6 DEF KnownReceipt
    <2>2. /\ ReceiptsOK(payments')
          /\ Receipts(payments') = Receipts(payments) + a
          /\ Total(payments', c) = Total(payments, c) + a
          /\ \A d : d # c => Total(payments', d) = Total(payments, d)
        BY <1>1, <1>2, <1>6, <2>1, ReceiptAddsAmount
    <2>3. /\ DOMAIN payments' = DOMAIN payments \cup {n}
          /\ \A m \in DOMAIN payments : payments'[m] = payments[m]
          /\ payments'[n] = [contribution |-> c, amount |-> a]
        BY <1>6, <2>1 DEF WithReceipt
    <2>4. /\ StkDeposit(n).reference = <<"mpesa:stk", n>>
          /\ StkDeposit(n).deltas = [x \in {Group} |-> a]
        BY DEF StkDeposit, Deposit, Instruction
    <2>5. DOMAIN journals' = {<<"mpesa:stk", m>> : m \in DOMAIN payments'}
        BY <1>3, <1>6, <2>3, <2>4 DEF Post
    <2>6. pooled' = [x \in Chama |-> IF x = Group THEN pooled[x] + a ELSE pooled[x]]
        BY <1>3, <1>6, <2>4 DEF Post, After
    <2>7. pooled' \in [Chama -> Nat] /\ pooled'[Group] = pooled[Group] + a
        BY <1>1, <1>3, <2>6
    <2>8. pooled'[Group] = Opening[Group] + Receipts(payments')
        <3>1. Opening[Group] \in Nat
            BY WorkloadAssumption
        <3>2. QED
            BY <1>1, <1>3, <1>4, <2>2, <2>7, <3>1
    <2> HIDE DEF c, a
    <2>9. Total(payments', c) \in Nat /\ Total(payments', c) > Total(payments, c)
          /\ Total(payments', c) > 0
        BY <1>1, <1>4, <2>2
    <2>10. QED
        BY <1>1, <1>4, <2>2, <2>3, <2>5, <2>7, <2>8, <2>9 DEF c, a
<1>7. QED
    BY <1>5, <1>6 DEF Collect, WithReceipt

\* A successful callback inserts the payment, journals it and sets the status.
LEMMA CallbackSuccessPreserves ==
    ASSUME IInv, NEW n \in Push, CallbackSuccess(n)
    PROVE  IInv'
<1> DEFINE c == push[n].contribution
           t == Total(payments', c)
           outcome == IF t = Expected THEN "paid" ELSE "partially_paid"
<1>1. /\ c \in Contribution
      /\ pooled' \in [Chama -> Nat]
      /\ pooled'[Group] = Opening[Group] + Receipts(payments')
      /\ DOMAIN journals' = {<<"mpesa:stk", m>> : m \in DOMAIN payments'}
      /\ DOMAIN payments' = DOMAIN payments \cup {n}
      /\ \A m \in DOMAIN payments : payments'[m] = payments[m]
      /\ payments'[n] = [contribution |-> c, amount |-> push[n].amount]
      /\ t \in Nat /\ t > 0
      /\ \A d : d # c => Total(payments', d) = Total(payments, d)
    BY CollectAddsOnce DEF CallbackSuccess
<1>2. /\ push \in [Push -> PushRow] /\ push[n] \in PushRow /\ PushPlace(push[n])
      /\ push[n].provider = "paid"
    BY DEF IInv, CollectionTypeOK, PushPlaces, CallbackSuccess, ReportsPayment
<1> DEFINE next == [push[n] EXCEPT !.status = "confirmed"]
<1>3. /\ push' = [push EXCEPT ![n] = next] /\ next \in PushRow /\ PushPlace(next)
      /\ next.provider = "paid" /\ next.contribution = c /\ next.amount = push[n].amount
    BY <1>2 DEF CallbackSuccess, PushRow, PushPlace
<1>4. /\ push' \in [Push -> PushRow]
      /\ \A m \in Push : push'[m].provider = push[m].provider
            /\ push'[m].contribution = push[m].contribution /\ push'[m].amount = push[m].amount
      /\ \A m \in Push : push'[m] = push[m] \/ push'[m] = next
    BY <1>2, <1>3
<1>5. /\ contribution \in [Contribution -> ContributionRow]
      /\ contribution' = [contribution EXCEPT ![c].status = outcome]
      /\ t <= Expected
    BY DEF IInv, CollectionTypeOK, CallbackSuccess, NotOverpaid
<1>6. /\ contribution' \in [Contribution -> ContributionRow]
      /\ contribution'[c].status = outcome
      /\ \A d \in Contribution \ {c} : contribution'[d] = contribution[d]
    BY <1>1, <1>5 DEF ContributionRow
<1>7. CollectionTypeOK'
    BY <1>1, <1>4, <1>6 DEF IInv, CollectionTypeOK
<1>8. PushPlaces'
    BY <1>3, <1>4 DEF IInv, PushPlaces
<1>9. ReceiptOfPush'
    <2>1. ASSUME NEW m \in DOMAIN payments'
          PROVE  payments'[m] = [contribution |-> push'[m].contribution, amount |-> push'[m].amount]
        BY <1>1, <1>4, <2>1 DEF IInv, CollectionTypeOK, ReceiptOfPush
    <2>2. QED
        BY <2>1 DEF ReceiptOfPush
<1>10. TreasuryHoldsReceipts'
    <2>1. \A m \in DOMAIN payments' : push'[m].provider = "paid"
        BY <1>1, <1>2, <1>4 DEF IInv, CollectionTypeOK, TreasuryHoldsReceipts
    <2>2. QED
        BY <1>1, <2>1 DEF TreasuryHoldsReceipts, Receipts
<1>11. StatusFollowsPayments'
    <2>1. ASSUME NEW d \in Contribution
          PROVE  /\ Total(payments', d) <= Expected
                 /\ contribution'[d].status = "paid" <=> Total(payments', d) = Expected
                 /\ contribution'[d].status = "partially_paid" => Total(payments', d) > 0
                 /\ contribution'[d].status = "pending" => Total(payments', d) = 0
        <3>1. CASE d = c
            BY <1>1, <1>5, <1>6, <3>1
        <3>2. CASE d # c
            <4>1. Total(payments', d) = Paid(d) /\ contribution'[d] = contribution[d]
                BY <1>1, <1>6, <3>2 DEF Paid
            <4>2. QED
                BY <4>1 DEF IInv, StatusFollowsPayments
        <3>3. QED
            BY <3>1, <3>2
    <2>2. QED
        BY <2>1 DEF StatusFollowsPayments, Paid
<1>12. QED
    BY <1>7, <1>8, <1>9, <1>10, <1>11 DEF IInv

\* The assessment finds a contribution that is not paid and calls it late.
LEMMA AssessPreserves ==
    ASSUME IInv, NEW c \in Contribution, Assess(c)
    PROVE  IInv'
<1>1. /\ contribution \in [Contribution -> ContributionRow]
      /\ UNCHANGED <<pooled, journals, payments, push>>
    BY DEF IInv, CollectionTypeOK, Assess
<1>2. /\ contribution' \in [Contribution -> ContributionRow]
      /\ contribution'[c].status = IF Unpaid(c) THEN "late" ELSE contribution[c].status
      /\ \A d \in Contribution \ {c} : contribution'[d] = contribution[d]
    BY <1>1 DEF Assess, ContributionRow
<1>3. \A d : Paid(d)' = Paid(d)
    BY <1>1 DEF Paid, Total
<1>4. \A d : Paid(d) \in Nat
    BY PaymentsAreReceipts, TotalsAreNumbers DEF Paid
<1>5. StatusFollowsPayments'
    <2>1. ASSUME NEW d \in Contribution
          PROVE  /\ Paid(d) <= Expected
                 /\ contribution'[d].status = "paid" <=> Paid(d) = Expected
                 /\ contribution'[d].status = "partially_paid" => Paid(d) > 0
                 /\ contribution'[d].status = "pending" => Paid(d) = 0
        BY <1>2, <1>4 DEF IInv, StatusFollowsPayments, Unpaid
    <2>2. QED
        BY <1>3, <2>1 DEF StatusFollowsPayments
<1>6. CollectionTypeOK' /\ PushPlaces' /\ ReceiptOfPush' /\ TreasuryHoldsReceipts'
    BY <1>1, <1>2 DEF IInv, CollectionTypeOK, PushPlaces, ReceiptOfPush, TreasuryHoldsReceipts
<1>7. QED
    BY <1>5, <1>6 DEF IInv

\* Nothing changes.
LEMMA StutterPreserves == IInv /\ UNCHANGED paymentVars => IInv'
BY DEF IInv, paymentVars, CollectionTypeOK, PushPlaces, ReceiptOfPush,
       TreasuryHoldsReceipts, StatusFollowsPayments, Paid, Total

\* Every step of the payment service preserves the invariant.
LEMMA StepPreserves == IInv /\ [PaymentNext]_paymentVars => IInv'
<1> SUFFICES ASSUME IInv, PaymentNext \/ UNCHANGED paymentVars PROVE IInv'
    OBVIOUS
<1>1. CASE \E n \in Push, c \in Contribution, a \in Amount : Request(n, c, a)
    BY <1>1, RequestPreserves
<1>2. CASE \E n \in Push : Initiate(n) \/ CustomerDecides(n) \/ CallbackFailure(n)
    BY <1>2, InitiatePreserves
<1>3. CASE \E n \in Push : CallbackSuccess(n)
    BY <1>3, CallbackSuccessPreserves
<1>4. CASE \E c \in Contribution : Assess(c)
    BY <1>4, AssessPreserves
<1>5. CASE UNCHANGED paymentVars
    BY <1>5, StutterPreserves
<1>6. QED
    BY <1>1, <1>2, <1>3, <1>4, <1>5 DEF PaymentNext

\* The invariant holds in every reachable state, whatever the number of pushes.
THEOREM Invariance == PaymentSpec => []IInv
<1>1. PaymentInit => IInv
    BY InitInvariant
<1>2. IInv /\ [PaymentNext]_paymentVars => IInv'
    BY StepPreserves
<1>3. QED
    BY <1>1, <1>2, PTL DEF PaymentSpec

\* A contribution never collects more than is expected and its status says what
\* its payments add up to: pushes that raced for the same remainder, and callbacks
\* that came late or twice, included (processStkCallback, assessContribution).
THEOREM StatusIsTrue == PaymentSpec => []StatusFollowsPayments
<1>1. IInv => StatusFollowsPayments
    BY DEF IInv
<1>2. QED
    BY <1>1, Invariance, PTL

\* The treasury has gained exactly what the receipts say, each paid by the
\* customer and journalled once (processStkCallback).
THEOREM TreasuryIsExact == PaymentSpec => []TreasuryHoldsReceipts
<1>1. IInv => TreasuryHoldsReceipts
    BY DEF IInv
<1>2. QED
    BY <1>1, Invariance, PTL

\* No step withdraws a receipt, and a contribution paid in full stays paid.
THEOREM PaymentsStay == PaymentSpec => CollectedStaysCollected
<1> DEFINE Kept ==
        /\ \A n \in DOMAIN payments : n \in DOMAIN payments' /\ payments'[n] = payments[n]
        /\ \A c \in Contribution :
             contribution[c].status = "paid" => contribution'[c].status = "paid"
<1>1. IInv /\ [PaymentNext]_paymentVars => [Kept]_paymentVars
    <2> SUFFICES ASSUME IInv, PaymentNext PROVE Kept
        OBVIOUS
    <2>1. CASE UNCHANGED <<payments, contribution>>
        BY <2>1
    <2>2. ASSUME NEW n \in Push, CallbackSuccess(n) PROVE Kept
        <3> DEFINE c == push[n].contribution
                   t == Total(payments', c)
        <3>1. /\ c \in Contribution /\ DOMAIN payments' = DOMAIN payments \cup {n}
              /\ \A m \in DOMAIN payments : payments'[m] = payments[m]
              /\ Total(payments, c) \in Nat /\ t \in Nat
              /\ payments' = payments \/ t > Total(payments, c)
            BY <2>2, CollectAddsOnce DEF CallbackSuccess
        <3>2. /\ contribution' = [contribution EXCEPT ![c].status =
                                    IF t = Expected THEN "paid" ELSE "partially_paid"]
              /\ t <= Expected
            BY <2>2 DEF CallbackSuccess, NotOverpaid
        <3>3. contribution[c].status = "paid" => Total(payments, c) = Expected
            BY <3>1 DEF IInv, StatusFollowsPayments, Paid
        <3>4. t = Expected \/ contribution[c].status # "paid"
            BY <3>1, <3>2, <3>3
        <3> HIDE DEF t
        <3>5. contribution \in [Contribution -> ContributionRow]
            BY DEF IInv, CollectionTypeOK
        <3>6. \A d \in Contribution :
                 contribution[d].status = "paid" => contribution'[d].status = "paid"
            BY <3>2, <3>4, <3>5 DEF ContributionRow
        <3>7. QED
            BY <3>1, <3>6
    <2>3. ASSUME NEW c \in Contribution, Assess(c) PROVE Kept
        <3>1. contribution[c].status = "paid" => ~Unpaid(c)
            BY DEF IInv, StatusFollowsPayments, Unpaid
        <3>2. contribution \in [Contribution -> ContributionRow]
            BY DEF IInv, CollectionTypeOK
        <3>3. QED
            BY <2>3, <3>1, <3>2 DEF Assess, ContributionRow
    <2>4. QED
        BY <2>1, <2>2, <2>3 DEF PaymentNext, Request, Initiate, InsertLog, Dispatch,
            RecordDispatch, FailDispatch, Crash, CustomerDecides, CallbackFailure
<1>2. QED
    BY <1>1, Invariance, PTL DEF PaymentSpec, CollectedStaysCollected

-----------------------------------------------------------------------------
\* A callback that writes the journal itself does what a posting does.
LEMMA StepIsPosting == IInv /\ [PaymentNext]_paymentVars => [LedgerNext]_ledgerVars
<1> SUFFICES ASSUME IInv, PaymentNext, ~UNCHANGED ledgerVars
             PROVE  LedgerNext
    BY DEF paymentVars, ledgerVars
<1>1. CASE \E n \in Push : CallbackSuccess(n)
    <2>1. PICK n \in Push : CallbackSuccess(n)
        BY <1>1
    <2>2. Post(StkDeposit(n)) /\ push[n].provider = "paid"
        BY <2>1 DEF CallbackSuccess, Collect, ledgerVars, ReportsPayment
    <2>3. push[n].amount \in Amount
        BY <2>2 DEF IInv, PushPlaces, PushPlace
    <2>4. StkDeposit(n) \in Workload
        BY <2>3, PostingAssumption DEF Postings, StkDeposit
    <2>5. QED
        BY <2>2, <2>4 DEF LedgerNext
<1>2. QED
    BY <1>1 DEF PaymentNext, Request, Initiate, InsertLog, Dispatch, RecordDispatch, FailDispatch,
        Crash, CustomerDecides, CallbackFailure, Assess, ledgerVars

\* Collection posts as the ledger does, though it takes neither its advisory lock
\* nor its code path (processStkCallback).
THEOREM CollectionPostsToLedger == PaymentSpec => LedgerSpec
<1>1. PaymentInit => LedgerInit
    BY DEF PaymentInit
<1>2. QED
    BY <1>1, StepIsPosting, Invariance, PTL DEF PaymentSpec, LedgerSpec
=============================================================================
