------------------------ MODULE BackgroundWorkProofs ------------------------
(***************************************************************************)
(* Proofs about BackgroundWork, for any number of jobs, payments and       *)
(* workers and any agenda of calls and faults.  The inductive invariant    *)
(* IInv has a part for each component, which only the steps of that        *)
(* component and of the leases can disturb: what was bought (Purchases,    *)
(* PeriodsInOrder), who holds which job (Tokens), where a message of an    *)
(* attempt stands (Messages, ReminderAttempts, MeetingOnce), and what      *)
(* status and file of an upload say of what completions found (UploadsOK). *)
(***************************************************************************)
EXTENDS BackgroundWork, FiniteSetTheorems, TLAPS

PaymentRow ==
    [item : Items \cup {"none"}, status : {"none", "pending", "failed", "paid"},
     referenced : BOOLEAN, run : {"idle", "dispatch", "record", "fail"},
     provider : {"none", "asked", "paid", "refused"}]

Purchase == [payment : Payment, item : Items, start : Nat, end : Nat]

PaymentsTypeOK ==
    /\ now \in Nat
    /\ subscription \in [plan : Plans \cup {"free"}, start : Nat, end : Nat]
    /\ payments \in [Payment -> PaymentRow]
    /\ bought \in Seq(Purchase)

PaymentPlace(row) ==
    /\ row.run = "dispatch" => row.status = "pending" /\ ~row.referenced
    /\ row.run # "idle" \/ row.referenced => row.item \in Items

Purchases ==
    /\ journals = Paid
    /\ \A n \in DOMAIN bought : bought[n].payment \in Paid
    /\ \A p \in Paid : payments[p].provider = "paid"
                       /\ \E n \in DOMAIN bought : bought[n].payment = p
    /\ \A m, n \in DOMAIN bought : bought[m].payment = bought[n].payment => m = n

PeriodsInOrder ==
    /\ \A n \in Periods :
          /\ bought[n].end - bought[n].start = PeriodOf[bought[n].item]
          /\ \A later \in Periods : later > n => bought[later].start >= bought[n].end
          /\ bought[n].end <= subscription.end
          /\ (\A other \in Periods : other <= n) =>
                subscription.end = bought[n].end /\ subscription.plan = bought[n].item
    /\ subscription.plan \in PlansHad

PaymentsInv ==
    /\ PaymentsTypeOK /\ \A p \in Payment : PaymentPlace(payments[p])
    /\ Purchases /\ PeriodsInOrder

-----------------------------------------------------------------------------
JobRow ==
    [status : {"none", "open", "done", "failed", "cancelled", "expired",
               "initiated", "rejected", "infected", "clean", "deleted"},
     attempts : Nat, token : Nat, live : BOOLEAN]

WorkRow ==
    [job : Job \cup {"none"}, token : Nat,
     place : {"idle", "claimed", "deliver", "sending", "sent", "failing", "failed", "mark"}]

LeaseTypeOK == jobs \in [Job -> JobRow] /\ work \in [Worker -> WorkRow]

Busy(w, j) == work[w] # Idle /\ work[w].job = j

\* A token is that of the last claim, as long as the job is open, and each attempt
\* has a token of its own.
Tokens ==
    /\ \A j \in Job :
          /\ jobs[j].token \in {0, jobs[j].attempts}
          /\ jobs[j].token # 0 => Open(j)
          /\ jobs[j].live => jobs[j].token # 0
    /\ \A w \in Worker : work[w] # Idle =>
          /\ work[w].job \in Job
          /\ work[w].token \in 1..jobs[work[w].job].attempts
    /\ \A v, w \in Worker :
          work[v] # Idle /\ work[v].job = work[w].job /\ work[v].token = work[w].token => v = w

LeaseInv == LeaseTypeOK /\ Tokens

-----------------------------------------------------------------------------
DeliveryTypeOK ==
    /\ used \in [Months -> Nat] /\ spent \in [Months -> Nat] /\ leaked \in [Months -> Nat]
    /\ message \in [Worker -> [slot : Nat, taken : BOOLEAN]]
    /\ note \in [Job -> {"none", "pending", "cancelled", "sent", "failed"}]
    /\ accepted \in [Job -> SUBSET Nat] /\ lost \in [Job -> SUBSET Nat]

\* Where a worker may be with a message, and with what job.
Messages ==
    /\ \A w \in Worker :
          /\ message[w] # NoMessage => work[w].place \in {"sending", "sent", "failing"}
          /\ work[w].place = "sending" => ~message[w].taken
          /\ work[w].place = "sent" =>
                message[w].taken /\ work[w].token \in accepted[work[w].job]
          /\ work[w].place # "claimed" /\ work[w] # Idle =>
                Kind[work[w].job] \in {"reminder", "meeting"}
          /\ work[w].place \in {"deliver", "mark"} => Kind[work[w].job] = "meeting"
    /\ \A j \in Job : Kind[j] \notin {"reminder", "meeting"} => accepted[j] = {}

\* An attempt at a reminder that is not written off has the job, and one that the
\* provider took is the last one.
ReminderAttempts ==
    \A j \in Job : Kind[j] = "reminder" =>
        /\ \A w \in Worker : Busy(w, j) /\ work[w].token \notin lost[j] =>
              jobs[j].token = work[w].token /\ jobs[j].live
        /\ \A t \in accepted[j] : t \in 1..jobs[j].attempts
        /\ \A t \in accepted[j] \ lost[j] :
              /\ t = jobs[j].attempts
              /\ Open(j) => \E w \in Worker :
                    Busy(w, j) /\ work[w].token = t /\ work[w].place = "sent"

Delivering(w, j) ==
    Busy(w, j) /\ work[w].place \in {"deliver", "sending", "sent", "failing", "failed"}

\* One attempt delivers the message of a meeting.
MeetingOnce ==
    \A j \in Job : Kind[j] = "meeting" =>
        /\ note[j] = "none" =>
              /\ accepted[j] = {}
              /\ \A w \in Worker : Busy(w, j) => work[w].place = "claimed"
        /\ \A v, w \in Worker : Delivering(v, j) /\ Delivering(w, j) => v = w
        /\ \A w \in Worker : Busy(w, j) /\ work[w].place \in {"deliver", "sending"} =>
              accepted[j] = {}
        /\ \A s, t \in accepted[j] : s = t

DeliveryInv ==
    /\ DeliveryTypeOK /\ Messages /\ ReminderAttempts /\ MeetingOnce
    /\ QuotaAccounted /\ SentIsTrue

-----------------------------------------------------------------------------
\* Nothing will be deleted, or found again, of an upload in one of these.
Closed(j) == jobs[j].status \in {"rejected", "infected", "deleted"}

\* A scan was asked for after a completion had found the declared file.  A file is
\* deleted once its upload is closed, or after a completion found another one, and
\* without a second post it is what every completion has found.
UploadPlace(j) ==
    /\ jobs[j].status \in {"open", "clean"} => "declared" \in seen[j]
    /\ j \in removing => Closed(j)
    /\ object[j] = "none" => seen[j] = {} \/ Closed(j) \/ "other" \in seen[j]
    /\ j \notin reposted => object[j] = "none" \/ seen[j] \subseteq {object[j]}

UploadsOK ==
    /\ object \in [Job -> Content \cup {"none"}] /\ seen \in [Job -> SUBSET Content]
    /\ expired \subseteq Upload /\ removing \subseteq Upload /\ reposted \subseteq Upload
    /\ asset \in Upload \cup {"none"}
    /\ \A j \in Upload : UploadPlace(j)

OneIsClean == {j \in Upload : jobs[j].status = "clean"} = {asset} \ {"none"}

UploadInv == UploadsOK /\ OneIsClean

IInv == PaymentsInv /\ LeaseInv /\ DeliveryInv /\ UploadInv
-----------------------------------------------------------------------------
\* Nothing is bought at first.
LEMMA NothingBought == ASSUME PaymentsInit PROVE PaymentsInv
<1> USE DEF PaymentsInit, NoPayment
<1>1. PaymentsTypeOK
    BY DEF PaymentsTypeOK, PaymentRow
<1>2. Paid = {} /\ DOMAIN bought = {} /\ Periods = {}
    BY DEF Paid, Periods
<1>3. Purchases
    BY <1>2 DEF Purchases
<1>4. PeriodsInOrder
    BY <1>2 DEF PeriodsInOrder, PlansHad
<1>5. QED
    BY <1>1, <1>3, <1>4 DEF PaymentsInv, PaymentPlace

\* A step of one payment that does not settle it as paid buys nothing and leaves
\* every purchase as it was.
LEMMA PaymentRowChanges ==
    ASSUME PaymentsInv, NEW p \in Payment, NEW row \in PaymentRow, PaymentPlace(row),
           row.status = "paid" <=> payments[p].status = "paid",
           row.status = "paid" => row.provider = "paid",
           payments' = [payments EXCEPT ![p] = row],
           UNCHANGED <<now, subscription, journals, bought>>
    PROVE  PaymentsInv'
<1>1. PaymentsTypeOK'
    BY DEF PaymentsInv, PaymentsTypeOK
<1>2. \A q \in Payment : payments'[q] = IF q = p THEN row ELSE payments[q]
    BY DEF PaymentsInv, PaymentsTypeOK
<1>3. Paid' = Paid
    BY <1>2 DEF Paid
<1>4. \A q \in Payment : PaymentPlace(payments'[q])
    BY <1>2 DEF PaymentsInv
<1>5. \A q \in Paid : payments'[q].provider = "paid"
    BY <1>2 DEF PaymentsInv, Purchases, Paid
<1>6. Purchases'
    BY <1>3, <1>5 DEF PaymentsInv, Purchases
<1>7. PeriodsInOrder'
    BY DEF PaymentsInv, PeriodsInOrder, Periods, PlansHad
<1>8. QED
    BY <1>1, <1>4, <1>6, <1>7 DEF PaymentsInv

\* The steps of initiate, of the customer, and the refusal of the callback.
LEMMA PaymentMoves ==
    ASSUME PaymentsInv, NEW p \in Payment,
           \/ \E item \in Items : Initiate(p, item)
           \/ InitiationDies(p) \/ AskCustomer(p) \/ RecordCheckout(p)
           \/ FailInitiation(p) \/ CustomerAnswers(p) \/ CallbackRefused(p)
    PROVE  PaymentsInv'
<1>1. payments[p] \in PaymentRow /\ PaymentPlace(payments[p])
      /\ (payments[p].status = "paid" => payments[p].provider = "paid")
    BY DEF PaymentsInv, PaymentsTypeOK, Purchases, Paid
<1>2. \E row \in PaymentRow :
          /\ PaymentPlace(row)
          /\ row.status = "paid" <=> payments[p].status = "paid"
          /\ row.status = "paid" => row.provider = "paid"
          /\ payments' = [payments EXCEPT ![p] = row]
          /\ UNCHANGED <<now, subscription, journals, bought>>
    <2> DEFINE Good(row) ==
            /\ row \in PaymentRow /\ PaymentPlace(row)
            /\ row.status = "paid" <=> payments[p].status = "paid"
            /\ row.status = "paid" => row.provider = "paid"
    <2> SUFFICES \E row : /\ Good(row)
                          /\ payments' = [payments EXCEPT ![p] = row]
                          /\ UNCHANGED <<now, subscription, journals, bought>>
        OBVIOUS
    <2>1. CASE \E item \in Items : Initiate(p, item)
        <3>1. PICK item \in Items : Initiate(p, item)
            BY <2>1
        <3> DEFINE row == [payments[p] EXCEPT !.item = item, !.status = "pending",
                                              !.run = "dispatch"]
        <3>2. payments[p] = NoPayment /\ item \in Items
            BY <3>1 DEF Initiate
        <3>3. /\ row.item = item /\ row.status = "pending" /\ row.referenced = FALSE
              /\ row.run = "dispatch"
            BY <3>2 DEF NoPayment
        <3>4. row \in PaymentRow
            BY <1>1, <3>2 DEF PaymentRow
        <3>5. /\ row \in PaymentRow /\ PaymentPlace(row) /\ row.status # "paid"
              /\ payments[p].status # "paid"
            <4> HIDE DEF row
            <4>1. QED
                BY <3>2, <3>3, <3>4 DEF NoPayment, PaymentPlace
        <3>6. payments' = [payments EXCEPT ![p] = row]
            BY <3>1 DEF Initiate
        <3> HIDE DEF row
        <3>7. Good(row)
            BY <3>5
        <3> HIDE DEF Good
        <3>8. QED
            BY <3>1, <3>6, <3>7 DEF Initiate
    <2>2. CASE InitiationDies(p)
        <3> DEFINE row == [payments[p] EXCEPT !.run = "idle"]
        <3>1. Good(row)
            BY <1>1 DEF PaymentRow, PaymentPlace
        <3>2. payments' = [payments EXCEPT ![p] = row]
            BY <2>2 DEF InitiationDies
        <3> HIDE DEF row, Good
        <3>3. QED
            BY <2>2, <3>1, <3>2 DEF InitiationDies
    <2>3. CASE AskCustomer(p)
        <3> DEFINE asked(next) == [payments[p] EXCEPT !.run = next, !.provider = "asked"]
                   row == [payments[p] EXCEPT !.run = "fail"]
        <3>1. payments[p].run = "dispatch"
            BY <2>3 DEF AskCustomer
        <3>2. payments[p].status = "pending" /\ payments[p].item \in Items
            BY <1>1, <3>1 DEF PaymentPlace
        <3>3. Good(row)
            BY <1>1, <3>1 DEF PaymentRow, PaymentPlace
        <3>4. ASSUME NEW next \in {"record", "fail"} PROVE Good(asked(next))
            BY <1>1, <3>2 DEF PaymentRow, PaymentPlace
        <3>5. \/ \E next \in {"record", "fail"} : payments' = [payments EXCEPT ![p] = asked(next)]
              \/ payments' = [payments EXCEPT ![p] = row]
            BY <2>3 DEF AskCustomer
        <3> HIDE DEF row, asked, Good
        <3>6. QED
            BY <2>3, <3>3, <3>4, <3>5 DEF AskCustomer
    <2>4. CASE RecordCheckout(p)
        <3> DEFINE ref == payments[p].status = "pending"
                   stored(next) == [payments[p] EXCEPT !.run = next, !.referenced = ref]
                   row == [payments[p] EXCEPT !.run = "fail"]
        <3>1. payments[p].run = "record"
            BY <2>4 DEF RecordCheckout
        <3>2. Good(row) /\ \A next \in {"idle", "fail"} : Good(stored(next))
            BY <1>1, <3>1 DEF PaymentRow, PaymentPlace
        <3>3. \/ \E next \in {"idle", "fail"} : payments' = [payments EXCEPT ![p] = stored(next)]
              \/ payments' = [payments EXCEPT ![p] = row]
            BY <2>4 DEF RecordCheckout
        <3> HIDE DEF row, stored, Good
        <3>4. QED
            BY <2>4, <3>2, <3>3 DEF RecordCheckout
    <2>5. CASE FailInitiation(p)
        <3> DEFINE end == IF payments[p].status = "pending" THEN "failed" ELSE payments[p].status
                   row == [payments[p] EXCEPT !.run = "idle", !.status = end]
        <3>1. Good(row)
            BY <1>1 DEF PaymentRow, PaymentPlace
        <3>2. payments' = [payments EXCEPT ![p] = row]
            BY <2>5 DEF FailInitiation
        <3> HIDE DEF row, Good
        <3>3. QED
            BY <2>5, <3>1, <3>2 DEF FailInitiation
    <2>6. CASE CustomerAnswers(p)
        <3>1. PICK answer \in {"paid", "refused"} :
                  payments' = [payments EXCEPT ![p].provider = answer]
            BY <2>6 DEF CustomerAnswers
        <3> DEFINE row == [payments[p] EXCEPT !.provider = answer]
        <3>2. Good(row)
            BY <1>1, <2>6 DEF PaymentRow, PaymentPlace, CustomerAnswers
        <3>3. payments' = [payments EXCEPT ![p] = row]
            BY <3>1
        <3> HIDE DEF row, Good
        <3>4. QED
            BY <2>6, <3>2, <3>3 DEF CustomerAnswers
    <2>7. CASE CallbackRefused(p)
        <3> DEFINE row == [payments[p] EXCEPT !.status = "failed"]
        <3>1. Good(row)
            BY <1>1, <2>7 DEF PaymentRow, PaymentPlace, CallbackRefused, OpenForCallback
        <3>2. payments' = [payments EXCEPT ![p] = row]
            BY <2>7 DEF CallbackRefused
        <3> HIDE DEF row, Good
        <3>3. QED
            BY <2>7, <3>1, <3>2 DEF CallbackRefused
    <2>8. QED
        BY <2>1, <2>2, <2>3, <2>4, <2>5, <2>6, <2>7
<1>3. QED
    BY <1>2, PaymentRowChanges

\* A confirmation buys one thing with a payment that has bought nothing, and a
\* period it buys starts when the last one has ended.
LEMMA ConfirmationBuys ==
    ASSUME PaymentsInv, NEW p \in Payment, CallbackPaid(p)
    PROVE  PaymentsInv'
<1> DEFINE row == [payments[p] EXCEPT !.status = "paid"]
           N == Len(bought)
<1>1. /\ payments[p] \in PaymentRow /\ PaymentPlace(payments[p])
      /\ payments[p].item \in Items /\ payments[p].provider = "paid"
      /\ p \notin Paid
    BY DEF PaymentsInv, PaymentsTypeOK, PaymentPlace, CallbackPaid, OpenForCallback, Paid
<1>2. row \in PaymentRow /\ PaymentPlace(row) /\ row.status = "paid" /\ row.provider = "paid"
    BY <1>1 DEF PaymentRow, PaymentPlace, CallbackPaid, OpenForCallback
<1>3. payments' = [payments EXCEPT ![p] = row] /\ now' = now /\ journals' = journals \cup {p}
    BY DEF CallbackPaid
<1> HIDE DEF row
<1>4. \A q \in Payment : payments'[q] = IF q = p THEN row ELSE payments[q]
    BY <1>3 DEF PaymentsInv, PaymentsTypeOK
<1>5. payments' \in [Payment -> PaymentRow] /\ \A q \in Payment : PaymentPlace(payments'[q])
    BY <1>2, <1>3, <1>4 DEF PaymentsInv, PaymentsTypeOK
<1>6. Paid' = Paid \cup {p}
    BY <1>2, <1>4 DEF Paid
<1>7. /\ now \in Nat
      /\ subscription \in [plan : Plans \cup {"free"}, start : Nat, end : Nat]
      /\ bought \in Seq(Purchase)
    BY DEF PaymentsInv, PaymentsTypeOK
<1>8. \E start, end \in Nat :
          /\ Buy(p, start, end)
          /\ \/ payments[p].item = Registration /\ UNCHANGED subscription
             \/ /\ payments[p].item # Registration
                /\ start >= subscription.end
                /\ end = start + PeriodOf[payments[p].item] /\ end > start
                /\ subscription' = [plan |-> payments[p].item, start |-> start, end |-> end]
    <2>1. CASE BuyChama(p)
        BY <1>7, <2>1 DEF BuyChama
    <2>2. CASE BuyPeriod(p)
        <3> DEFINE start == PeriodStart(subscription.end)
                   end == start + PeriodOf[payments[p].item]
        <3>1. start \in Nat /\ start >= subscription.end
            BY <1>7 DEF PeriodStart
        <3>2. PeriodOf[payments[p].item] \in Nat \ {0}
            BY <1>1, <2>2, PaymentsAssumption DEF BuyPeriod, Items, Plans
        <3>3. end \in Nat /\ end > start
            BY <3>1, <3>2
        <3>4. QED
            BY <2>2, <3>1, <3>3 DEF BuyPeriod
    <2>3. QED
        BY <2>1, <2>2 DEF CallbackPaid
<1>9. PICK start, end \in Nat :
          /\ Buy(p, start, end)
          /\ \/ payments[p].item = Registration /\ UNCHANGED subscription
             \/ /\ payments[p].item # Registration
                /\ start >= subscription.end
                /\ end = start + PeriodOf[payments[p].item] /\ end > start
                /\ subscription' = [plan |-> payments[p].item, start |-> start, end |-> end]
    BY <1>8
<1> DEFINE new == [payment |-> p, item |-> payments[p].item, start |-> start, end |-> end]
<1>10. new \in Purchase
    BY <1>1 DEF Purchase
<1>11. /\ bought' = Append(bought, new) /\ bought' \in Seq(Purchase)
       /\ N \in Nat /\ DOMAIN bought = 1..N /\ DOMAIN bought' = 1..(N+1)
       /\ bought'[N+1] = new
       /\ \A n \in 1..N : bought'[n] = bought[n]
    BY <1>7, <1>9, <1>10 DEF Buy
<1>12. \A n \in DOMAIN bought : bought[n].start \in Nat /\ bought[n].end \in Nat
    <2>1. \A n \in DOMAIN bought : bought[n] \in Purchase
        BY <1>7
    <2>2. QED
        BY <2>1 DEF Purchase
<1>13. new.payment = p /\ new.item = payments[p].item /\ new.start = start /\ new.end = end
    OBVIOUS
<1> HIDE DEF new, N
<1>14. PaymentsTypeOK'
    <2>1. subscription' \in [plan : Plans \cup {"free"}, start : Nat, end : Nat]
        BY <1>1, <1>7, <1>9 DEF Items
    <2>2. QED
        BY <1>3, <1>5, <1>7, <1>11, <2>1 DEF PaymentsTypeOK
<1>15. Purchases'
    <2>1. \A n \in DOMAIN bought : bought[n].payment # p
        BY <1>1 DEF PaymentsInv, Purchases
    <2>2. \A n \in DOMAIN bought' : bought'[n].payment \in Paid'
        BY <1>6, <1>11, <1>13 DEF PaymentsInv, Purchases
    <2>3. \A m, n \in DOMAIN bought' : bought'[m].payment = bought'[n].payment => m = n
        BY <1>11, <1>13, <2>1 DEF PaymentsInv, Purchases
    <2>4. \A q \in Paid' : payments'[q].provider = "paid"
        BY <1>2, <1>4, <1>6 DEF PaymentsInv, Purchases, Paid
    <2>5. ASSUME NEW q \in Paid' PROVE \E n \in DOMAIN bought' : bought'[n].payment = q
        <3>1. CASE q = p
            BY <1>11, <1>13, <3>1
        <3>2. CASE q \in Paid
            <4>1. PICK n \in DOMAIN bought : bought[n].payment = q
                BY <3>2 DEF PaymentsInv, Purchases
            <4>2. QED
                BY <1>11, <4>1
        <3>3. QED
            BY <1>6, <3>1, <3>2
    <2>6. QED
        BY <1>3, <1>6, <2>2, <2>3, <2>4, <2>5 DEF PaymentsInv, Purchases
<1>16. PeriodsInOrder'
    <2>1. Periods \subseteq 1..N
        BY <1>11 DEF Periods
    <2>2. PlansHad \subseteq PlansHad'
        BY <1>11 DEF PlansHad, Periods
    <2>3. CASE payments[p].item = Registration /\ UNCHANGED subscription
        <3>1. Periods' = Periods
            BY <1>11, <1>13, <2>3 DEF Periods
        <3>2. \A n \in Periods : bought'[n] = bought[n]
            BY <1>11, <2>1
        <3>3. QED
            BY <2>2, <2>3, <3>1, <3>2 DEF PaymentsInv, PeriodsInOrder
    <2>4. CASE /\ payments[p].item # Registration
               /\ start >= subscription.end
               /\ end = start + PeriodOf[payments[p].item] /\ end > start
               /\ subscription' = [plan |-> payments[p].item, start |-> start, end |-> end]
        <3>1. Periods' = Periods \cup {N + 1}
            BY <1>11, <1>13, <2>4 DEF Periods
        <3>2. \A n \in Periods : bought'[n] = bought[n] /\ n \in Nat /\ n < N + 1
            <4>1. N \in Nat /\ \A n \in 1..N : bought'[n] = bought[n]
                BY <1>11
            <4>2. \A n \in 1..N : n \in Nat /\ n < N + 1
                BY <4>1
            <4>3. QED
                BY <2>1, <4>1, <4>2
        <3>3. subscription'.plan \in PlansHad'
            <4>1. N + 1 \in Periods' /\ bought'[N + 1].item = payments[p].item
                BY <1>11, <1>13, <3>1
            <4>2. QED
                BY <2>4, <4>1 DEF PlansHad
        <3>4. /\ subscription'.end = bought'[N+1].end
              /\ subscription'.plan = bought'[N+1].item
              /\ bought'[N+1].end = end /\ bought'[N+1].start = start
              /\ bought'[N+1].item = payments[p].item
            BY <1>11, <1>13, <2>4
        <3>5. subscription.end \in Nat /\ PeriodOf[payments[p].item] = end - start
            <4>1. PeriodOf[payments[p].item] \in Nat
                BY <1>1, <2>4, PaymentsAssumption DEF Items, Plans
            <4>2. QED
                BY <1>7, <2>4, <4>1
        <3>6. \A n \in Periods :
                  /\ bought[n].end \in Nat
                  /\ bought[n].end - bought[n].start = PeriodOf[bought[n].item]
                  /\ \A later \in Periods : later > n => bought[later].start >= bought[n].end
                  /\ bought[n].end <= subscription.end
            BY <1>12 DEF PaymentsInv, PeriodsInOrder, Periods
        <3>7. ASSUME NEW n \in Periods'
              PROVE  /\ bought'[n].end - bought'[n].start = PeriodOf[bought'[n].item]
                     /\ \A later \in Periods' : later > n => bought'[later].start >= bought'[n].end
                     /\ bought'[n].end <= subscription'.end
                     /\ (\A other \in Periods' : other <= n) =>
                           subscription'.end = bought'[n].end /\ subscription'.plan = bought'[n].item
            <4>1. CASE n = N + 1
                <5>1. /\ bought'[n].end = end /\ bought'[n].start = start
                      /\ bought'[n].item = payments[p].item
                      /\ subscription'.end = end /\ subscription'.plan = bought'[n].item
                    BY <3>4, <4>1
                <5>2. \A later \in Periods' : ~(later > n)
                    BY <1>11, <3>1, <3>2, <4>1
                <5>3. QED
                    BY <3>5, <5>1, <5>2
            <4>2. CASE n \in Periods
                <5>1. bought'[n] = bought[n] /\ n < N + 1 /\ n \in Nat /\ N + 1 \in Periods'
                    BY <3>1, <3>2, <4>2
                <5>2. \A later \in Periods' : later > n => bought'[later].start >= bought'[n].end
                    BY <2>4, <3>1, <3>2, <3>4, <3>5, <3>6, <4>2, <5>1
                <5>3. bought'[n].end <= subscription'.end
                    BY <2>4, <3>4, <3>5, <3>6, <4>2, <5>1
                <5>4. ~ \A other \in Periods' : other <= n
                    BY <1>11, <5>1
                <5>5. QED
                    BY <3>6, <4>2, <5>1, <5>2, <5>3, <5>4
            <4>3. QED
                BY <3>1, <4>1, <4>2
        <3>8. QED
            BY <3>3, <3>7 DEF PeriodsInOrder
    <2>5. QED
        BY <1>9, <2>3, <2>4
<1>17. QED
    BY <1>5, <1>14, <1>15, <1>16 DEF PaymentsInv
-----------------------------------------------------------------------------
\* Nobody has a job at first.
LEMMA NobodyWorks == ASSUME LeaseInit PROVE LeaseInv
    BY DEF LeaseInit, LeaseInv, LeaseTypeOK, JobRow, WorkRow, Tokens, NoJob, Idle, Open

\* What a worker that is not idle has.
LEMMA AtWork ==
    ASSUME LeaseInv, NEW w \in Worker, work[w] # Idle
    PROVE  /\ work[w] \in WorkRow
           /\ work[w].job \in Job /\ work[w].job # "none"
           /\ jobs[work[w].job] \in JobRow
           /\ work[w].token \in Nat /\ work[w].token # 0
           /\ work[w].token <= jobs[work[w].job].attempts
           /\ jobs[work[w].job].attempts \in Nat
<1>1. work[w] \in WorkRow /\ work[w].job \in Job /\ work[w].token \in 1..jobs[work[w].job].attempts
    BY DEF LeaseInv, LeaseTypeOK, Tokens
<1>2. jobs[work[w].job] \in JobRow
    BY <1>1 DEF LeaseInv, LeaseTypeOK
<1>3. work[w].token \in Nat /\ jobs[work[w].job].attempts \in Nat
    BY <1>1, <1>2 DEF WorkRow, JobRow
<1>4. QED
    BY <1>1, <1>2, <1>3, LeaseAssumption

\* Attempts may go on or end, and jobs be settled, changed or lose a lease, as long
\* as no attempt is counted and no token is given.
LEMMA TokensStay ==
    ASSUME LeaseInv, jobs' \in [Job -> JobRow],
           \A j \in Job :
               /\ jobs'[j].attempts = jobs[j].attempts
               /\ jobs'[j].token \in {0, jobs[j].token}
               /\ jobs'[j].token # 0 => jobs'[j].status = "open"
               /\ jobs'[j].live => jobs'[j].token # 0,
           work' \in [Worker -> WorkRow],
           \A w \in Worker :
               \/ work'[w] = Idle
               \/ work[w] # Idle /\ work'[w].job = work[w].job /\ work'[w].token = work[w].token
    PROVE  LeaseInv'
<1>1. LeaseTypeOK'
    BY DEF LeaseTypeOK
<1>2. \A j \in Job :
          /\ jobs'[j].token \in {0, jobs'[j].attempts}
          /\ jobs'[j].token # 0 => jobs'[j].status = "open"
          /\ jobs'[j].live => jobs'[j].token # 0
    BY DEF LeaseInv, Tokens
<1>3. \A w \in Worker : work'[w] # Idle =>
          /\ work[w] # Idle /\ work'[w].job = work[w].job /\ work'[w].token = work[w].token
          /\ work'[w].job \in Job
          /\ work'[w].token \in 1..jobs'[work'[w].job].attempts
    BY DEF LeaseInv, Tokens
<1>4. \A v, w \in Worker :
          work'[v] # Idle /\ work'[v].job = work'[w].job /\ work'[v].token = work'[w].token => v = w
    <2> SUFFICES ASSUME NEW v \in Worker, NEW w \in Worker, work'[v] # Idle,
                        work'[v].job = work'[w].job, work'[v].token = work'[w].token
                 PROVE  v = w
        OBVIOUS
    <2>1. work[v] # Idle /\ work'[v].job = work[v].job /\ work'[v].token = work[v].token
        BY <1>3
    <2>2. work'[w] # Idle
        BY <1>3, LeaseAssumption DEF Idle
    <2>3. work'[w].job = work[w].job /\ work'[w].token = work[w].token
        BY <1>3, <2>2
    <2>4. work[v] # Idle /\ work[v].job = work[w].job /\ work[v].token = work[w].token
        BY <2>1, <2>3
    <2>5. QED
        BY <2>4 DEF LeaseInv, Tokens
<1>5. QED
    BY <1>1, <1>2, <1>3, <1>4 DEF LeaseInv, Tokens, Open

\* What a settlement changes: the job, if the attempt still has it, and the attempt.
LEMMA Settlement ==
    ASSUME LeaseInv, NEW w \in Worker, work[w] # Idle, NEW status, Settle(w, status),
           status \in {"open", "failed", "cancelled", "done"}
    PROVE  /\ LeaseInv'
           /\ work'[w] = Idle /\ \A v \in Worker : v # w => work'[v] = work[v]
           /\ \A j \in Job : jobs'[j] # jobs[j] =>
                  /\ j = work[w].job /\ jobs[j].token = work[w].token
                  /\ Open(j) /\ jobs'[j].status = status
           /\ Holds(w) => jobs'[work[w].job].status = status
           /\ \A j \in Job : /\ jobs'[j].attempts = jobs[j].attempts
                             /\ jobs'[j].token = jobs[j].token \/ jobs'[j] # jobs[j]
<1> DEFINE job == work[w].job
           row == [jobs[job] EXCEPT !.status = status, !.token = 0, !.live = FALSE]
<1>1. job \in Job /\ jobs[job] \in JobRow /\ work[w].token # 0
    BY AtWork
<1>2. row \in JobRow /\ row.attempts = jobs[job].attempts /\ row.token = 0 /\ row.live = FALSE
      /\ row.status = status
    BY <1>1 DEF JobRow
<1>3. Outcome(w, status) = [jobs EXCEPT ![job] = row]
    BY DEF Outcome
<1> HIDE DEF row
<1>4. work' = [work EXCEPT ![w] = Idle] /\ jobs \in [Job -> JobRow] /\ work \in [Worker -> WorkRow]
    BY DEF Settle, LeaseInv, LeaseTypeOK
<1>5. Idle \in WorkRow
    BY DEF Idle, WorkRow
<1>6. work' \in [Worker -> WorkRow] /\ work'[w] = Idle /\ \A v \in Worker : v # w => work'[v] = work[v]
    BY <1>4, <1>5
<1>7. jobs' \in [Job -> JobRow]
      /\ \A j \in Job : jobs'[j] = IF j = job /\ Holds(w) THEN row ELSE jobs[j]
    BY <1>1, <1>2, <1>3, <1>4 DEF Settle
<1>8. \A j \in Job : /\ jobs[j].token \in {0, jobs[j].attempts}
                     /\ jobs[j].token # 0 => Open(j)
                     /\ jobs[j].live => jobs[j].token # 0
    BY DEF LeaseInv, Tokens
<1>9. \A j \in Job :
          /\ jobs'[j].attempts = jobs[j].attempts
          /\ jobs'[j].token \in {0, jobs[j].token}
          /\ jobs'[j].token # 0 => jobs'[j].status = "open"
          /\ jobs'[j].live => jobs'[j].token # 0
    BY <1>2, <1>7, <1>8 DEF Open
<1>10. \A v \in Worker :
          \/ work'[v] = Idle
          \/ work[v] # Idle /\ work'[v].job = work[v].job /\ work'[v].token = work[v].token
    BY <1>6
<1>11. LeaseInv'
    BY <1>6, <1>7, <1>9, <1>10, TokensStay
<1>12. \A j \in Job : jobs'[j] # jobs[j] =>
                  /\ j = work[w].job /\ jobs[j].token = work[w].token
                  /\ Open(j) /\ jobs'[j].status = status
    BY <1>1, <1>2, <1>7, <1>8 DEF Holds
<1>13. Holds(w) => jobs'[work[w].job].status = status
    BY <1>1, <1>2, <1>7
<1>14. \A j \in Job : jobs'[j].token = jobs[j].token \/ jobs'[j] # jobs[j]
    OBVIOUS
<1>15. QED
    BY <1>6, <1>9, <1>11, <1>12, <1>13, <1>14

\* An attempt goes on, or ends without a settlement.
LEMMA AttemptMoves ==
    ASSUME LeaseInv, NEW w \in Worker, work[w] # Idle, NEW row \in WorkRow,
           \/ row = Idle
           \/ row.job = work[w].job /\ row.token = work[w].token,
           work' = [work EXCEPT ![w] = row], UNCHANGED jobs
    PROVE  LeaseInv' /\ \A v \in Worker : work'[v] = IF v = w THEN row ELSE work[v]
<1>1. work \in [Worker -> WorkRow] /\ jobs \in [Job -> JobRow]
    BY DEF LeaseInv, LeaseTypeOK
<1>2. work' \in [Worker -> WorkRow] /\ \A v \in Worker : work'[v] = IF v = w THEN row ELSE work[v]
    BY <1>1
<1>3. \A j \in Job :
          /\ jobs'[j].attempts = jobs[j].attempts
          /\ jobs'[j].token \in {0, jobs[j].token}
          /\ jobs'[j].token # 0 => jobs'[j].status = "open"
          /\ jobs'[j].live => jobs'[j].token # 0
    BY DEF LeaseInv, Tokens, Open
<1>4. \A v \in Worker :
          \/ work'[v] = Idle
          \/ work[v] # Idle /\ work'[v].job = work[v].job /\ work'[v].token = work[v].token
    BY <1>2
<1>5. QED
    BY <1>1, <1>2, <1>3, <1>4, TokensStay

\* One job changes, or several uploads, and no attempt.
LEMMA JobsChange ==
    ASSUME LeaseInv, jobs' \in [Job -> JobRow], UNCHANGED work,
           \A j \in Job :
               \/ jobs'[j] = jobs[j]
               \/ /\ jobs'[j].attempts = jobs[j].attempts
                  /\ jobs'[j].token \in {0, jobs[j].token}
                  /\ jobs'[j].token # 0 => jobs'[j].status = "open"
                  /\ jobs'[j].live => jobs'[j].token # 0
    PROVE  LeaseInv'
<1>1. work \in [Worker -> WorkRow]
    BY DEF LeaseInv, LeaseTypeOK
<1>2. \A j \in Job :
          /\ jobs'[j].attempts = jobs[j].attempts
          /\ jobs'[j].token \in {0, jobs[j].token}
          /\ jobs'[j].token # 0 => jobs'[j].status = "open"
          /\ jobs'[j].live => jobs'[j].token # 0
    BY DEF LeaseInv, Tokens, Open
<1>3. \A w \in Worker :
          \/ work'[w] = Idle
          \/ work[w] # Idle /\ work'[w].job = work[w].job /\ work'[w].token = work[w].token
    OBVIOUS
<1>4. QED
    BY <1>1, <1>2, <1>3, TokensStay

\* A claim begins an attempt with a token that no attempt has had.
LEMMA ClaimBegins ==
    ASSUME LeaseInv, NEW w \in Worker, NEW j \in Job, Claim(w, j)
    PROVE  /\ LeaseInv'
           /\ work'[w] = [job |-> j, token |-> jobs[j].attempts + 1, place |-> "claimed"]
           /\ work[w] = Idle /\ \A v \in Worker : v # w => work'[v] = work[v]
           /\ \A k \in Job : k # j => jobs'[k] = jobs[k]
           /\ jobs'[j].token = jobs[j].attempts + 1 /\ jobs'[j].live
           /\ jobs'[j].attempts = jobs[j].attempts + 1
           /\ jobs'[j].status = "open" /\ Open(j) /\ Free(j) /\ jobs[j].attempts \in Nat
<1> DEFINE token == jobs[j].attempts + 1
           row == [jobs[j] EXCEPT !.attempts = token, !.token = token, !.live = TRUE]
           attempt == [job |-> j, token |-> token, place |-> "claimed"]
<1>1. jobs \in [Job -> JobRow] /\ work \in [Worker -> WorkRow]
    BY DEF LeaseInv, LeaseTypeOK
<1>2. jobs[j] \in JobRow /\ jobs[j].attempts \in Nat /\ token \in Nat /\ token > jobs[j].attempts
    BY <1>1 DEF JobRow
<1>3. /\ row \in JobRow /\ row.attempts = token /\ row.token = token /\ row.live = TRUE
      /\ row.status = jobs[j].status
    BY <1>2 DEF JobRow
<1>4. /\ attempt \in WorkRow /\ attempt.job = j /\ attempt.token = token
    BY <1>2 DEF WorkRow
<1>5. jobs' = [jobs EXCEPT ![j] = row] /\ work' = [work EXCEPT ![w] = attempt]
    BY DEF Claim
<1>6. work[w] = Idle /\ Open(j) /\ Free(j)
    BY DEF Claim, Claimable
<1> HIDE DEF row, attempt, token
<1>7. /\ jobs' \in [Job -> JobRow] /\ jobs'[j] = row /\ \A k \in Job : k # j => jobs'[k] = jobs[k]
      /\ work' \in [Worker -> WorkRow] /\ work'[w] = attempt
      /\ \A v \in Worker : v # w => work'[v] = work[v]
    BY <1>1, <1>3, <1>4, <1>5
<1>8. \A k \in Job :
          /\ jobs'[k].token \in {0, jobs'[k].attempts}
          /\ jobs'[k].token # 0 => jobs'[k].status = "open"
          /\ jobs'[k].live => jobs'[k].token # 0
    BY <1>2, <1>3, <1>6, <1>7 DEF LeaseInv, Tokens, Open
<1>9. ASSUME NEW v \in Worker, work'[v] # Idle
      PROVE  /\ work'[v].job \in Job
             /\ work'[v].token \in 1..jobs'[work'[v].job].attempts
             /\ v # w /\ work'[v].job = j => work'[v].token # token
    <2>1. CASE v = w
        BY <1>2, <1>3, <1>4, <1>7, <2>1
    <2>2. CASE v # w
        <3>1. work[v] # Idle /\ work'[v] = work[v]
            BY <1>7, <1>9, <2>2
        <3>2. /\ work[v].job \in Job /\ work[v].token \in Nat /\ work[v].token # 0
              /\ work[v].token <= jobs[work[v].job].attempts
              /\ jobs[work[v].job].attempts \in Nat
            BY <3>1, AtWork
        <3>3. QED
            BY <1>2, <1>3, <1>7, <2>2, <3>1, <3>2
    <2>3. QED
        BY <2>1, <2>2
<1>10. \A v, u \in Worker :
          work'[v] # Idle /\ work'[v].job = work'[u].job /\ work'[v].token = work'[u].token => v = u
    <2> SUFFICES ASSUME NEW v \in Worker, NEW u \in Worker, work'[v] # Idle,
                        work'[v].job = work'[u].job, work'[v].token = work'[u].token, v # u
                 PROVE  FALSE
        OBVIOUS
    <2>1. work'[u] # Idle
        BY <1>9, LeaseAssumption DEF Idle
    <2>2. CASE v = w
        BY <1>4, <1>7, <1>9, <2>1, <2>2
    <2>3. CASE u = w
        BY <1>4, <1>7, <1>9, <2>1, <2>3
    <2>4. CASE v # w /\ u # w
        BY <1>7, <2>4 DEF LeaseInv, Tokens
    <2>5. QED
        BY <2>2, <2>3, <2>4
<1>11. LeaseInv'
    BY <1>7, <1>8, <1>9, <1>10 DEF LeaseInv, LeaseTypeOK, Tokens, Open
<1>12. QED
    BY <1>2, <1>3, <1>6, <1>7, <1>11 DEF Open, attempt, token
-----------------------------------------------------------------------------
\* The messages of a month that are under way can be counted.
LEMMA FlightsAreCounted == \A m : IsFiniteSet(InFlight(m)) /\ Cardinality(InFlight(m)) \in Nat
<1> SUFFICES ASSUME NEW m PROVE IsFiniteSet(InFlight(m)) /\ Cardinality(InFlight(m)) \in Nat
    OBVIOUS
<1>1. InFlight(m) \in SUBSET Worker
    BY DEF InFlight
<1>2. IsFiniteSet(InFlight(m))
    BY <1>1, FS_Subset, LeaseAssumption
<1>3. QED
    BY <1>2, FS_CardinalityType

\* Nothing is sent at first.
LEMMA NothingSent == ASSUME DeliveryInit, LeaseInit PROVE DeliveryInv
<1> USE DEF DeliveryInit, LeaseInit, NoMessage, NoJob, Idle
<1>1. DeliveryTypeOK
    BY DEF DeliveryTypeOK
<1>2. Messages
    BY DEF Messages
<1>3. ReminderAttempts
    BY LeaseAssumption DEF ReminderAttempts, Busy
<1>4. MeetingOnce
    BY LeaseAssumption DEF MeetingOnce, Busy, Delivering
<1>5. \A m \in Months : InFlight(m) = {}
    BY DEF InFlight, Months
<1>6. QuotaAccounted
    <2>1. Cardinality({}) = 0
        BY FS_EmptySet
    <2>2. \A m \in Months : used[m] = 0 /\ spent[m] = 0 /\ leaked[m] = 0
        OBVIOUS
    <2>3. \A m \in Months : Cardinality(InFlight(m)) = 0
        BY <1>5, <2>1
    <2> HIDE DEF DeliveryInit
    <2>4. QED
        BY <2>2, <2>3 DEF QuotaAccounted
<1>7. SentIsTrue
    BY DEF SentIsTrue
<1>8. QED
    BY <1>1, <1>2, <1>3, <1>4, <1>6, <1>7 DEF DeliveryInv

\* No slot moves while only messages that the provider has, or without a slot, are
\* forgotten; the Chama may have bought another plan.
LEMMA QuotaKept ==
    ASSUME QuotaAccounted, UNCHANGED <<used, spent, leaked>>, PlansHad \subseteq PlansHad',
           \A w \in Worker :
               \/ message'[w] = message[w]
               \/ /\ message'[w].slot = 0 \/ message'[w].taken
                  /\ message[w].slot = 0 \/ message[w].taken
    PROVE  QuotaAccounted'
<1>1. \A m \in Months : InFlight(m)' = InFlight(m)
    BY DEF InFlight, Months
<1>2. ASSUME NEW m \in Months
      PROVE  /\ used'[m] = Cardinality(InFlight(m)') + spent'[m] + leaked'[m]
             /\ used'[m] > 0 => \E plan \in PlansHad' :
                    QuotaOf[plan] # Unlimited /\ used'[m] <= QuotaOf[plan]
    BY <1>1 DEF QuotaAccounted
<1>3. QED
    BY <1>2 DEF QuotaAccounted

\* What payments, uploads and scans do leaves the messages as they are.
LEMMA DeliveryUndisturbed ==
    ASSUME DeliveryInv, UNCHANGED deliveryVars, PlansHad \subseteq PlansHad',
           \A j \in Job : jobs'[j] = jobs[j] \/ Kind[j] = "scan",
           \A w \in Worker :
               work'[w] = work[w] \/ (work[w].place = "claimed" /\ work'[w] = Idle)
    PROVE  DeliveryInv'
<1> USE DEF deliveryVars
<1>1. DeliveryTypeOK'
    BY DEF DeliveryInv, DeliveryTypeOK
<1>2. Messages'
    BY DEF DeliveryInv, Messages, Idle
<1>3. \A w \in Worker, j \in Job : Busy(w, j)' => Busy(w, j) /\ work'[w] = work[w]
    BY LeaseAssumption DEF Busy
<1>4. \A w \in Worker, j \in Job :
          Busy(w, j) /\ work[w].place = "sent" => Busy(w, j)' /\ work'[w] = work[w]
    BY DEF Busy
<1>5. ReminderAttempts'
    <2> SUFFICES ASSUME NEW j \in Job, Kind[j] = "reminder"
                 PROVE  /\ \A w \in Worker : Busy(w, j)' /\ work'[w].token \notin lost[j] =>
                              jobs'[j].token = work'[w].token /\ jobs'[j].live
                        /\ \A t \in accepted[j] : t \in 1..jobs'[j].attempts
                        /\ \A t \in accepted[j] \ lost[j] :
                              /\ t = jobs'[j].attempts
                              /\ jobs'[j].status = "open" => \E w \in Worker :
                                    Busy(w, j)' /\ work'[w].token = t /\ work'[w].place = "sent"
        BY DEF ReminderAttempts, Open
    <2>1. jobs'[j] = jobs[j]
        OBVIOUS
    <2>2. QED
        BY <1>3, <1>4, <2>1 DEF DeliveryInv, ReminderAttempts, Open
<1>6. MeetingOnce'
    BY <1>3 DEF DeliveryInv, MeetingOnce, Delivering
<1>7. QuotaAccounted'
    BY QuotaKept DEF DeliveryInv
<1>8. SentIsTrue'
    BY DEF DeliveryInv, SentIsTrue
<1>9. QED
    BY <1>1, <1>2, <1>5, <1>6, <1>7, <1>8 DEF DeliveryInv

\* A token of an attempt that has the job, or had it, says how it stands with a
\* reminder: while the job is free, no attempt that is not written off took it.
LEMMA FreeReminder ==
    ASSUME LeaseInv, DeliveryInv, NEW j \in Job, Kind[j] = "reminder", Free(j)
    PROVE  /\ \A w \in Worker : Busy(w, j) => work[w].token \in lost[j]
           /\ Open(j) => accepted[j] \subseteq lost[j]
<1>1. ASSUME NEW w \in Worker, Busy(w, j) PROVE work[w].token \in lost[j]
    <2>1. work[w].token # 0 /\ (work[w].token \notin lost[j] =>
              jobs[j].token = work[w].token /\ jobs[j].live)
        BY <1>1, AtWork DEF DeliveryInv, ReminderAttempts, Busy
    <2>2. QED
        BY <2>1 DEF Free
<1>2. ASSUME Open(j), NEW t \in accepted[j], t \notin lost[j] PROVE FALSE
    <2>1. \E w \in Worker : Busy(w, j) /\ work[w].token = t
        BY <1>2 DEF DeliveryInv, ReminderAttempts
    <2>2. QED
        BY <1>1, <1>2, <2>1
<1>3. QED
    BY <1>1, <1>2

\* A claim sends nothing yet.
LEMMA ClaimSendsNothing ==
    ASSUME LeaseInv, DeliveryInv, NEW w \in Worker, NEW j \in Job, Claim(w, j),
           UNCHANGED deliveryVars, UNCHANGED bought
    PROVE  DeliveryInv'
<1> USE DEF deliveryVars
<1>1. /\ work'[w] = [job |-> j, token |-> jobs[j].attempts + 1, place |-> "claimed"]
      /\ work[w] = Idle /\ \A v \in Worker : v # w => work'[v] = work[v]
      /\ \A k \in Job : k # j => jobs'[k] = jobs[k]
      /\ jobs'[j].token = jobs[j].attempts + 1 /\ jobs'[j].live
      /\ jobs'[j].attempts = jobs[j].attempts + 1
      /\ jobs'[j].status = "open" /\ Open(j) /\ Free(j) /\ jobs[j].attempts \in Nat
    BY ClaimBegins
<1>2. DeliveryTypeOK'
    BY DEF DeliveryInv, DeliveryTypeOK
<1>3. Messages'
    BY <1>1 DEF DeliveryInv, Messages, Idle
<1>4. ReminderAttempts'
    <2> SUFFICES ASSUME NEW k \in Job, Kind[k] = "reminder"
                 PROVE  /\ \A v \in Worker : Busy(v, k)' /\ work'[v].token \notin lost[k] =>
                              jobs'[k].token = work'[v].token /\ jobs'[k].live
                        /\ \A t \in accepted[k] : t \in 1..jobs'[k].attempts
                        /\ \A t \in accepted[k] \ lost[k] :
                              /\ t = jobs'[k].attempts
                              /\ jobs'[k].status = "open" => \E v \in Worker :
                                    Busy(v, k)' /\ work'[v].token = t /\ work'[v].place = "sent"
        BY DEF ReminderAttempts, Open
    <2>1. \A v \in Worker : v # w => (Busy(v, k)' <=> Busy(v, k))
        BY <1>1 DEF Busy
    <2>2. CASE k # j
        <3>1. ~Busy(w, k)' /\ ~Busy(w, k)
            BY <1>1, <2>2, LeaseAssumption DEF Busy, Idle
        <3>2. jobs'[k] = jobs[k] /\ \A v \in Worker : (Busy(v, k)' <=> Busy(v, k))
            BY <1>1, <2>1, <2>2, <3>1
        <3>3. \A v \in Worker : Busy(v, k) => work'[v] = work[v]
            BY <1>1, <3>1
        <3>4. QED
            BY <3>2, <3>3 DEF DeliveryInv, ReminderAttempts, Open
    <2>3. CASE k = j
        <3>1. /\ \A v \in Worker : Busy(v, j) => work[v].token \in lost[j]
              /\ accepted[j] \subseteq lost[j]
            BY <1>1, <2>3, FreeReminder
        <3>2. \A v \in Worker : Busy(v, j)' /\ work'[v].token \notin lost[j] => v = w
            BY <1>1, <2>1, <2>3, <3>1
        <3>3. \A t \in accepted[j] : t \in 1..jobs[j].attempts
            BY <2>3 DEF DeliveryInv, ReminderAttempts
        <3>4. QED
            BY <1>1, <2>3, <3>1, <3>2, <3>3
    <2>4. QED
        BY <2>2, <2>3
<1>5. \A v \in Worker, k \in Job :
          Busy(v, k)' => \/ v = w /\ work'[v].place = "claimed"
                         \/ Busy(v, k) /\ work'[v] = work[v]
    <2>1. work'[w].place = "claimed" /\ \A v \in Worker : v # w => work'[v] = work[v]
        BY <1>1
    <2>2. QED
        BY <2>1 DEF Busy
<1>6. MeetingOnce'
    BY <1>5 DEF DeliveryInv, MeetingOnce, Delivering
<1>7. QuotaAccounted'
    BY QuotaKept DEF DeliveryInv, PlansHad, Periods
<1>8. SentIsTrue'
    BY <1>1 DEF DeliveryInv, SentIsTrue
<1>9. QED
    BY <1>2, <1>3, <1>4, <1>6, <1>7, <1>8 DEF DeliveryInv
-----------------------------------------------------------------------------
\* Jobs change without any attempt: a reminder is asked for or loses its lease, a
\* meeting starts, a report expires.
LEMMA JobsAlone ==
    ASSUME LeaseInv, DeliveryInv, UNCHANGED <<work, used, message, note, accepted, spent, leaked>>,
           UNCHANGED bought, NEW j \in Job, \A k \in Job : k # j => jobs'[k] = jobs[k],
           jobs'[j].attempts = jobs[j].attempts, jobs'[j].status # "done" \/ Open(j),
           jobs'[j].status = "done" => jobs[j].status = "done",
           \/ Kind[j] # "reminder" /\ lost' = lost
           \/ /\ accepted[j] = {} /\ lost' = lost
              /\ \A w \in Worker : ~Busy(w, j)
           \/ /\ jobs'[j].status = jobs[j].status
              /\ lost' = [lost EXCEPT ![j] = @ \cup {jobs[j].token}]
              /\ jobs[j].token \in Nat
    PROVE  DeliveryInv'
<1>1. /\ lost' \in [Job -> SUBSET Nat]
      /\ \A k \in Job : lost[k] \subseteq lost'[k] /\ (k # j => lost'[k] = lost[k])
    BY DEF DeliveryInv, DeliveryTypeOK
<1>2. DeliveryTypeOK'
    BY <1>1 DEF DeliveryInv, DeliveryTypeOK
<1>3. Messages'
    BY DEF DeliveryInv, Messages
<1>4. ReminderAttempts'
    <2> SUFFICES ASSUME NEW k \in Job, Kind[k] = "reminder"
                 PROVE  /\ \A v \in Worker : Busy(v, k) /\ work[v].token \notin lost'[k] =>
                              jobs'[k].token = work[v].token /\ jobs'[k].live
                        /\ \A t \in accepted[k] : t \in 1..jobs'[k].attempts
                        /\ \A t \in accepted[k] \ lost'[k] :
                              /\ t = jobs'[k].attempts
                              /\ jobs'[k].status = "open" => \E v \in Worker :
                                    Busy(v, k) /\ work[v].token = t /\ work[v].place = "sent"
        BY DEF ReminderAttempts, Open, Busy
    <2>1. CASE k # j
        BY <1>1, <2>1 DEF DeliveryInv, ReminderAttempts, Open
    <2>2. CASE k = j /\ accepted[j] = {} /\ \A w \in Worker : ~Busy(w, j)
        BY <2>2
    <2>3. CASE /\ k = j /\ jobs'[j].status = jobs[j].status
               /\ lost' = [lost EXCEPT ![j] = @ \cup {jobs[j].token}]
        <3>1. jobs[j].token \in lost'[j]
            BY <2>3 DEF DeliveryInv, DeliveryTypeOK
        <3>2. \A v \in Worker : ~(Busy(v, k) /\ work[v].token \notin lost'[k])
            BY <1>1, <2>3, <3>1 DEF DeliveryInv, ReminderAttempts
        <3>3. \A t \in accepted[k] : t \in 1..jobs'[k].attempts
            BY <2>3 DEF DeliveryInv, ReminderAttempts
        <3>4. \A t \in accepted[k] \ lost'[k] :
                              /\ t = jobs'[k].attempts
                              /\ jobs'[k].status = "open" => \E v \in Worker :
                                    Busy(v, k) /\ work[v].token = t /\ work[v].place = "sent"
            BY <1>1, <2>3 DEF DeliveryInv, ReminderAttempts, Open
        <3>5. QED
            BY <3>2, <3>3, <3>4
    <2>4. QED
        BY <2>1, <2>2, <2>3
<1>5. MeetingOnce'
    BY DEF DeliveryInv, MeetingOnce, Delivering, Busy
<1>6. QuotaAccounted'
    BY QuotaKept DEF DeliveryInv, PlansHad, Periods
<1>7. SentIsTrue'
    BY DEF DeliveryInv, SentIsTrue
<1>8. QED
    BY <1>2, <1>3, <1>4, <1>5, <1>6, <1>7 DEF DeliveryInv

\* An attempt is settled, with or without being written off, or ends with its
\* process.  One that sent a reminder says so, or is written off.
LEMMA AttemptEnds ==
    ASSUME LeaseInv, DeliveryInv, NEW w \in Worker, work[w] # Idle, UNCHANGED bought,
           UNCHANGED <<note, accepted>>, DeliveryTypeOK', QuotaAccounted', Forget(w),
           lost' = lost \/ Lose(w), NEW status \in {"open", "failed", "cancelled", "done"},
           Settle(w, status) \/ Dies(w),
           Kind[work[w].job] = "reminder" /\ work[w].place = "sent" =>
               (Settle(w, "done") /\ Holds(w) /\ status = "done") \/ Lose(w),
           status = "done" /\ Settle(w, status) =>
               \/ Kind[work[w].job] \notin {"reminder", "meeting"}
               \/ Kind[work[w].job] = "reminder" /\ work[w].place = "sent"
               \/ Kind[work[w].job] = "meeting" /\ work[w].place = "mark"
    PROVE  LeaseInv' /\ DeliveryInv'
<1> DEFINE job == work[w].job
<1>1. /\ LeaseInv'
      /\ work'[w] = Idle /\ \A v \in Worker : v # w => work'[v] = work[v]
      /\ \A j \in Job : jobs'[j].attempts = jobs[j].attempts
      /\ \A j \in Job : jobs'[j] # jobs[j] =>
             /\ j = job /\ jobs[j].token = work[w].token
             /\ Open(j) /\ jobs'[j].status = status /\ Settle(w, status)
      /\ Settle(w, status) /\ Holds(w) => jobs'[job].status = status
    <2>1. CASE Settle(w, status)
        BY <2>1, Settlement
    <2>2. CASE Dies(w) /\ ~Settle(w, status)
        <3>1. work' = [work EXCEPT ![w] = Idle] /\ UNCHANGED jobs
            BY <2>2 DEF Dies
        <3>2. Idle \in WorkRow
            BY DEF Idle, WorkRow
        <3>3. LeaseInv' /\ \A v \in Worker : work'[v] = IF v = w THEN Idle ELSE work[v]
            BY <3>1, <3>2, AttemptMoves
        <3>4. QED
            BY <2>2, <3>1, <3>3
    <2>3. QED
        BY <2>1, <2>2
<1>2. /\ job \in Job /\ work[w].token \in Nat /\ work[w].token # 0
      /\ jobs[job].token \in {0, jobs[job].attempts}
    BY AtWork DEF LeaseInv, Tokens
<1>3. /\ message'[w] = NoMessage
      /\ \A v \in Worker : v # w => message'[v] = message[v]
    BY DEF Forget, DeliveryInv, DeliveryTypeOK
<1>4. /\ \A j \in Job : lost[j] \subseteq lost'[j]
      /\ Lose(w) => work[w].token \in lost'[job]
    BY <1>2 DEF Lose, DeliveryInv, DeliveryTypeOK
<1>5. Messages'
    BY <1>1, <1>3 DEF DeliveryInv, Messages, Idle
<1>6. \A v \in Worker, j \in Job : Busy(v, j)' => Busy(v, j) /\ work'[v] = work[v] /\ v # w
    BY <1>1, LeaseAssumption DEF Busy, Idle
<1>7. ReminderAttempts'
    <2> SUFFICES ASSUME NEW j \in Job, Kind[j] = "reminder"
                 PROVE  /\ \A v \in Worker : Busy(v, j)' /\ work'[v].token \notin lost'[j] =>
                              jobs'[j].token = work'[v].token /\ jobs'[j].live
                        /\ \A t \in accepted[j] : t \in 1..jobs'[j].attempts
                        /\ \A t \in accepted[j] \ lost'[j] :
                              /\ t = jobs'[j].attempts
                              /\ jobs'[j].status = "open" => \E v \in Worker :
                                    Busy(v, j)' /\ work'[v].token = t /\ work'[v].place = "sent"
        BY DEF ReminderAttempts, Open
    <2>1. ASSUME NEW v \in Worker, Busy(v, j)', work'[v].token \notin lost'[j]
          PROVE  jobs'[j].token = work'[v].token /\ jobs'[j].live
        <3>1. /\ Busy(v, j) /\ work'[v] = work[v] /\ v # w
              /\ jobs[j].token = work[v].token /\ jobs[j].live
            BY <1>4, <1>6, <2>1 DEF DeliveryInv, ReminderAttempts
        <3>2. ~(j = job /\ work[w].token = work[v].token)
            BY <3>1 DEF LeaseInv, Tokens, Busy
        <3>3. jobs'[j] = jobs[j]
            BY <1>1, <3>1, <3>2
        <3>4. QED
            BY <3>1, <3>3
    <2>2. ASSUME NEW t \in accepted[j] PROVE t \in 1..jobs'[j].attempts
        BY <1>1 DEF DeliveryInv, ReminderAttempts
    <2>3. ASSUME NEW t \in accepted[j] \ lost'[j] PROVE t = jobs'[j].attempts
        BY <1>1, <1>4 DEF DeliveryInv, ReminderAttempts
    <2>4. ASSUME NEW t \in accepted[j] \ lost'[j], jobs'[j].status = "open"
          PROVE  \E v \in Worker : Busy(v, j)' /\ work'[v].token = t /\ work'[v].place = "sent"
        <3>1. Open(j) /\ t \in accepted[j] \ lost[j]
            BY <1>1, <1>4, <2>4 DEF Open
        <3>2. PICK v \in Worker : Busy(v, j) /\ work[v].token = t /\ work[v].place = "sent"
            BY <3>1 DEF DeliveryInv, ReminderAttempts
        <3>3. CASE v # w
            BY <1>1, <3>2, <3>3 DEF Busy
        <3>4. CASE v = w
            <4>1. job = j /\ Kind[job] = "reminder" /\ work[w].place = "sent" /\ work[w].token = t
                BY <3>2, <3>4 DEF Busy
            <4>2. ~Lose(w)
                BY <1>4, <2>4, <4>1
            <4>3. jobs'[j].status = "done"
                BY <1>1, <4>1, <4>2
            <4>4. QED
                BY <2>4, <4>3
        <3>5. QED
            BY <3>3, <3>4
    <2>5. QED
        BY <2>1, <2>2, <2>3, <2>4
<1>8. MeetingOnce'
    BY <1>6 DEF DeliveryInv, MeetingOnce, Delivering
<1>9. SentIsTrue'
    <2> SUFFICES ASSUME NEW j \in Job, jobs'[j].status = "done"
                 PROVE  /\ Kind[j] = "reminder" => jobs'[j].attempts \in accepted[j]
                        /\ Kind[j] = "meeting" => note[j] # "none"
        BY DEF SentIsTrue
    <2>1. CASE jobs'[j] = jobs[j]
        BY <2>1 DEF DeliveryInv, SentIsTrue
    <2>2. CASE jobs'[j] # jobs[j]
        <3>1. /\ j = job /\ status = "done" /\ Settle(w, status)
              /\ work[w].token = jobs[j].attempts /\ jobs'[j].attempts = jobs[j].attempts
            BY <1>1, <1>2, <2>2
        <3>2. Kind[j] = "reminder" => work[w].token \in accepted[j]
            BY <3>1 DEF DeliveryInv, Messages
        <3>3. Kind[j] = "meeting" => note[j] # "none"
            BY <3>1 DEF DeliveryInv, MeetingOnce, Busy
        <3>4. QED
            BY <3>1, <3>2, <3>3
    <2>3. QED
        BY <2>1, <2>2
<1>10. QED
    BY <1>1, <1>5, <1>7, <1>8, <1>9 DEF DeliveryInv
\* An attempt goes on to its next place.
LEMMA AttemptGoesOn ==
    ASSUME LeaseInv, DeliveryInv, NEW w \in Worker, work[w] # Idle, UNCHANGED <<bought, jobs>>,
           NEW place \in {"deliver", "sending", "sent", "failing", "failed", "mark"},
           Goto(w, place), DeliveryTypeOK', QuotaAccounted',
           Kind[work[w].job] \in {"reminder", "meeting"},
           place \in {"deliver", "mark"} => Kind[work[w].job] = "meeting",
           \A v \in Worker : v # w => message'[v] = message[v],
           message'[w] # NoMessage => place \in {"sending", "sent", "failing"},
           place = "sending" => ~message'[w].taken,
           place = "sent" => message'[w].taken /\ work[w].token \in accepted'[work[w].job],
           lost' = lost \/ Lose(w),
           \/ accepted' = accepted
           \/ Took(w) /\ work[w].place = "sending" /\ (place = "sent" \/ (place = "failing" /\ Lose(w))),
           Kind[work[w].job] = "reminder" /\ work[w].place = "sent" => Lose(w),
           \A j \in Job : note'[j] = note[j] \/ note'[j] # "none",
           \A j \in Job : Kind[j] = "meeting" /\ j # work[w].job => note'[j] = note[j],
           Kind[work[w].job] = "meeting" =>
               /\ note'[work[w].job] # "none"
               /\ place # "mark" =>
                     \/ work[w].place = "claimed" /\ place = "deliver" /\ note[work[w].job] = "none"
                     \/ work[w].place = "deliver" /\ place \in {"sending", "failing"}
                     \/ /\ work[w].place \in {"sending", "sent", "failing"}
                        /\ place \notin {"deliver", "sending"}
    PROVE  LeaseInv' /\ DeliveryInv'
<1> DEFINE job == work[w].job
           row == [work[w] EXCEPT !.place = place]
<1>1. /\ job \in Job /\ work[w] \in WorkRow /\ work[w].token \in Nat /\ work[w].token # 0
      /\ jobs[job].token \in {0, jobs[job].attempts}
      /\ work[w].token \in 1..jobs[job].attempts
    BY AtWork DEF LeaseInv, Tokens
<1>2. row \in WorkRow /\ row.job = job /\ row.token = work[w].token /\ row.place = place
    BY <1>1 DEF WorkRow
<1>3. work' = [work EXCEPT ![w] = row]
    BY DEF Goto
<1> HIDE DEF row
<1>4. LeaseInv' /\ \A v \in Worker : work'[v] = IF v = w THEN row ELSE work[v]
    BY <1>2, <1>3, AttemptMoves
<1>5. /\ \A j \in Job : lost[j] \subseteq lost'[j]
      /\ Lose(w) => work[w].token \in lost'[job]
    BY <1>1 DEF Lose, DeliveryInv, DeliveryTypeOK
<1>6. /\ \A j \in Job : j # job => accepted'[j] = accepted[j]
      /\ accepted'[job] = accepted[job] \/ accepted'[job] = accepted[job] \cup {work[w].token}
      /\ accepted'[job] = accepted[job]
         \/ (work[w].place = "sending" /\ (place = "sent" \/ (place = "failing" /\ Lose(w))))
    <2>1. CASE accepted' = accepted
        BY <2>1
    <2>2. CASE Took(w) /\ work[w].place = "sending"
               /\ (place = "sent" \/ (place = "failing" /\ Lose(w)))
        <3>1. accepted' = [accepted EXCEPT ![job] = accepted[job] \cup {work[w].token}]
              /\ accepted \in [Job -> SUBSET Nat]
            BY <2>2 DEF Took, DeliveryInv, DeliveryTypeOK
        <3>2. /\ \A j \in Job : j # job => accepted'[j] = accepted[j]
              /\ accepted'[job] = accepted[job] \cup {work[w].token}
            BY <1>1, <3>1
        <3>3. QED
            BY <2>2, <3>2
    <2>3. QED
        BY <2>1, <2>2
<1>7. \A v \in Worker, j \in Job : Busy(v, j)' <=> Busy(v, j)
    BY <1>1, <1>2, <1>4, LeaseAssumption DEF Busy, Idle
<1>8. Messages'
    <2>1. ASSUME NEW v \in Worker
          PROVE  /\ message'[v] # NoMessage => work'[v].place \in {"sending", "sent", "failing"}
                 /\ work'[v].place = "sending" => ~message'[v].taken
                 /\ work'[v].place = "sent" =>
                       message'[v].taken /\ work'[v].token \in accepted'[work'[v].job]
                 /\ work'[v].place # "claimed" /\ work'[v] # Idle =>
                       Kind[work'[v].job] \in {"reminder", "meeting"}
                 /\ work'[v].place \in {"deliver", "mark"} => Kind[work'[v].job] = "meeting"
        <3>1. CASE v = w
            BY <1>2, <1>4, <3>1
        <3>2. CASE v # w
            <4>1. work'[v] = work[v] /\ message'[v] = message[v]
                BY <1>4, <3>2
            <4>2. work[v].place = "sent" => work[v].token \in accepted'[work[v].job]
                <5>1. ASSUME work[v].place = "sent"
                      PROVE  work[v].job \in Job /\ work[v].token \in accepted[work[v].job]
                    BY <5>1, AtWork DEF DeliveryInv, Messages, Idle
                <5>2. QED
                    BY <1>6, <5>1
            <4>3. QED
                BY <4>1, <4>2 DEF DeliveryInv, Messages
        <3>3. QED
            BY <3>1, <3>2
    <2>2. \A j \in Job : Kind[j] \notin {"reminder", "meeting"} => accepted'[j] = {}
        BY <1>6 DEF DeliveryInv, Messages
    <2>3. QED
        BY <2>1, <2>2 DEF Messages
<1>9. ReminderAttempts'
    <2> SUFFICES ASSUME NEW j \in Job, Kind[j] = "reminder"
                 PROVE  /\ \A v \in Worker : Busy(v, j)' /\ work'[v].token \notin lost'[j] =>
                              jobs[j].token = work'[v].token /\ jobs[j].live
                        /\ \A t \in accepted'[j] : t \in 1..jobs[j].attempts
                        /\ \A t \in accepted'[j] \ lost'[j] :
                              /\ t = jobs[j].attempts
                              /\ Open(j) => \E v \in Worker :
                                    Busy(v, j)' /\ work'[v].token = t /\ work'[v].place = "sent"
        BY DEF ReminderAttempts, Open
    <2>1. ASSUME NEW v \in Worker, Busy(v, j)', work'[v].token \notin lost'[j]
          PROVE  jobs[j].token = work'[v].token /\ jobs[j].live
        <3>1. Busy(v, j) /\ work'[v].token = work[v].token /\ work[v].token \notin lost[j]
            BY <1>2, <1>4, <1>5, <1>7, <2>1
        <3>2. QED
            BY <3>1 DEF DeliveryInv, ReminderAttempts
    <2>2. ASSUME NEW t \in accepted'[j] PROVE t \in 1..jobs[j].attempts
        BY <1>1, <1>6 DEF DeliveryInv, ReminderAttempts
    <2>3. ASSUME NEW t \in accepted'[j] \ lost'[j]
          PROVE  /\ t = jobs[j].attempts
                 /\ Open(j) => \E v \in Worker :
                       Busy(v, j)' /\ work'[v].token = t /\ work'[v].place = "sent"
        <3>1. CASE t \in accepted[j]
            <4>1. t = jobs[j].attempts
                BY <1>5, <3>1 DEF DeliveryInv, ReminderAttempts
            <4>2. ASSUME Open(j)
                  PROVE  \E v \in Worker :
                            Busy(v, j)' /\ work'[v].token = t /\ work'[v].place = "sent"
                <5>1. PICK v \in Worker : Busy(v, j) /\ work[v].token = t /\ work[v].place = "sent"
                    BY <1>5, <3>1, <4>2 DEF DeliveryInv, ReminderAttempts
                <5>2. v # w
                    BY <1>5, <5>1, <2>3 DEF Busy
                <5>3. QED
                    BY <1>4, <1>7, <5>1, <5>2
            <4>3. QED
                BY <4>1, <4>2
        <3>2. CASE t \notin accepted[j]
            <4>1. j = job /\ t = work[w].token /\ work[w].place = "sending" /\ place = "sent"
                BY <1>5, <1>6, <2>3, <3>2
            <4>2. Busy(w, j) /\ t \notin lost[j]
                BY <1>5, <2>3, <4>1 DEF Busy
            <4>3. jobs[j].token = t
                BY <4>1, <4>2 DEF DeliveryInv, ReminderAttempts
            <4>4. t = jobs[j].attempts
                BY <1>1, <4>1, <4>3
            <4>5. QED
                BY <1>2, <1>4, <1>7, <4>1, <4>2, <4>4
        <3>3. QED
            BY <3>1, <3>2
    <2>4. QED
        BY <2>1, <2>2, <2>3
<1>10. MeetingOnce'
    <2> SUFFICES ASSUME NEW j \in Job, Kind[j] = "meeting"
                 PROVE  /\ note'[j] = "none" =>
                              /\ accepted'[j] = {}
                              /\ \A v \in Worker : Busy(v, j)' => work'[v].place = "claimed"
                        /\ \A u, v \in Worker : Delivering(u, j)' /\ Delivering(v, j)' => u = v
                        /\ \A v \in Worker : Busy(v, j)' /\ work'[v].place \in {"deliver", "sending"}
                              => accepted'[j] = {}
                        /\ \A s, t \in accepted'[j] : s = t
        BY DEF MeetingOnce
    <2>1. /\ note[j] = "none" =>
                /\ accepted[j] = {}
                /\ \A v \in Worker : Busy(v, j) => work[v].place = "claimed"
          /\ \A u, v \in Worker : Delivering(u, j) /\ Delivering(v, j) => u = v
          /\ \A v \in Worker : Busy(v, j) /\ work[v].place \in {"deliver", "sending"} =>
                accepted[j] = {}
          /\ \A s, t \in accepted[j] : s = t
        BY DEF DeliveryInv, MeetingOnce
    <2>2. CASE j # job
        <3>1. \A v \in Worker : Busy(v, j)' => Busy(v, j) /\ work'[v] = work[v]
            BY <1>4, <1>7, <2>2 DEF Busy
        <3>2. accepted'[j] = accepted[j] /\ note'[j] = note[j]
            BY <1>6, <2>2
        <3>3. \A v \in Worker : Delivering(v, j)' => Delivering(v, j)
            BY <3>1 DEF Delivering
        <3>4. QED
            BY <2>1, <3>1, <3>2, <3>3
    <2>3. CASE j = job
        <3>1. /\ Busy(w, j) /\ work'[w].place = place /\ note'[j] # "none"
              /\ \A v \in Worker : v # w => work'[v] = work[v]
            BY <1>2, <1>4, <2>3 DEF Busy
        <3>2. \A v \in Worker : v # w => (Delivering(v, j)' <=> Delivering(v, j))
            BY <1>7, <3>1 DEF Delivering
        <3>3. CASE place = "mark"
            <4>1. accepted'[j] = accepted[j] /\ ~Delivering(w, j)'
                BY <1>6, <2>3, <3>1, <3>3 DEF Delivering
            <4>2. QED
                BY <1>7, <2>1, <3>1, <3>2, <3>3, <4>1
        <3>4. CASE work[w].place = "claimed" /\ place = "deliver" /\ note[j] = "none"
            <4>1. accepted'[j] = accepted[j] /\ \A v \in Worker : ~Delivering(v, j)
                BY <1>6, <2>1, <2>3, <3>4 DEF Delivering
            <4>2. QED
                BY <1>7, <2>1, <3>1, <3>2, <3>4, <4>1
        <3>5. CASE work[w].place = "deliver" /\ place \in {"sending", "failing"}
            <4>1. accepted'[j] = {} /\ Delivering(w, j)
                BY <1>6, <2>1, <2>3, <3>1, <3>5 DEF Delivering
            <4>2. QED
                BY <1>7, <2>1, <3>1, <3>2, <4>1
        <3>6. CASE /\ work[w].place \in {"sending", "sent", "failing"}
                   /\ place \notin {"deliver", "sending"}
            <4>1. Delivering(w, j)
                BY <3>1, <3>6 DEF Delivering
            <4>2. \A v \in Worker : Delivering(v, j)' => v = w
                BY <2>1, <3>2, <4>1
            <4>3. \A v \in Worker : ~(Busy(v, j)' /\ work'[v].place \in {"deliver", "sending"})
                BY <3>1, <3>6, <4>2 DEF Delivering
            <4>4. \A s, t \in accepted'[j] : s = t
                <5>1. CASE work[w].place = "sending"
                    BY <1>6, <2>1, <2>3, <3>1, <5>1
                <5>2. CASE work[w].place # "sending"
                    BY <1>6, <2>1, <2>3, <5>2
                <5>3. QED
                    BY <5>1, <5>2
            <4>5. QED
                BY <3>1, <4>2, <4>3, <4>4
        <3>7. QED
            BY <2>3, <3>3, <3>4, <3>5, <3>6
    <2>4. QED
        BY <2>2, <2>3
<1>11. SentIsTrue'
    <2>1. \A j \in Job : accepted[j] \subseteq accepted'[j]
        BY <1>6
    <2>2. QED
        BY <2>1 DEF DeliveryInv, SentIsTrue
<1>12. QED
    BY <1>4, <1>8, <1>9, <1>10, <1>11 DEF DeliveryInv
-----------------------------------------------------------------------------
\* What a worker writes off, or the provider took, are attempts.
LEMMA HistoryTypes ==
    ASSUME LeaseInv, DeliveryInv, NEW w \in Worker, work[w] # Idle
    PROVE  /\ Lose(w) => lost' \in [Job -> SUBSET Nat]
           /\ Took(w) => accepted' \in [Job -> SUBSET Nat]
                         /\ work[w].token \in accepted'[work[w].job]
<1>1. work[w].token \in Nat /\ work[w].job \in Job
    BY AtWork
<1>2. lost \in [Job -> SUBSET Nat] /\ accepted \in [Job -> SUBSET Nat]
    BY DEF DeliveryInv, DeliveryTypeOK
<1>3. QED
    BY <1>1, <1>2 DEF Lose, Took

\* EndAttempt, wherever the attempt holds no slot of a message still to be sent.
LEMMA EndsAccounted ==
    ASSUME LeaseInv, DeliveryInv, NEW w \in Worker, work[w] # Idle, UNCHANGED bought,
           work[w].place \notin {"sending", "failing"},
           NEW status \in {"open", "failed", "cancelled", "done"}, EndAttempt(w, status),
           lost' = lost \/ Lose(w),
           Kind[work[w].job] = "reminder" /\ work[w].place = "sent" =>
               (status = "done" /\ Holds(w)) \/ Lose(w),
           status = "done" =>
               \/ Kind[work[w].job] \notin {"reminder", "meeting"}
               \/ Kind[work[w].job] = "reminder" /\ work[w].place = "sent"
               \/ Kind[work[w].job] = "meeting" /\ work[w].place = "mark"
    PROVE  LeaseInv' /\ DeliveryInv'
<1>1. /\ Settle(w, status) /\ Forget(w)
      /\ UNCHANGED <<used, note, accepted, spent, leaked>>
    BY DEF EndAttempt
<1>2. message[w] = NoMessage \/ message[w].taken
    BY DEF DeliveryInv, Messages
<1>3. /\ message' \in [Worker -> [slot : Nat, taken : BOOLEAN]]
      /\ \A v \in Worker : message'[v] = IF v = w THEN NoMessage ELSE message[v]
    BY <1>1 DEF Forget, NoMessage, DeliveryInv, DeliveryTypeOK
<1>4. DeliveryTypeOK'
    BY <1>1, <1>3, HistoryTypes DEF DeliveryInv, DeliveryTypeOK
<1>5. PlansHad' = PlansHad
    BY DEF PlansHad, Periods
<1>6. QuotaAccounted'
    BY <1>1, <1>2, <1>3, <1>5, QuotaKept DEF DeliveryInv, NoMessage
<1>7. QED
    BY <1>1, <1>4, <1>6, AttemptEnds

\* The ends of an attempt, one dispatcher after the other.
LEMMA EndsOfAttempts ==
    ASSUME LeaseInv, DeliveryInv, NEW w \in Worker, UNCHANGED bought,
           \/ GiveUp(w) \/ NobodyToRemind(w) \/ LookupFails(w) \/ RetryReminder(w)
           \/ FinishNoteFails(w) \/ MarkDispatched(w) \/ StoreReport(w) \/ ReportFails(w)
    PROVE  LeaseInv' /\ DeliveryInv'
<1>1. AfterFailure(w) \in {"failed", "open"}
    BY DEF AfterFailure
<1>2. CASE GiveUp(w)
    BY <1>2, EndsAccounted DEF GiveUp, At
<1>3. CASE NobodyToRemind(w)
    BY <1>3, EndsAccounted DEF NobodyToRemind, At
<1>4. CASE LookupFails(w)
    BY <1>1, <1>4, EndsAccounted DEF LookupFails, Fails, At
<1>5. CASE RetryReminder(w)
    BY <1>1, <1>5, EndsAccounted DEF RetryReminder, Fails, At
<1>6. CASE FinishNoteFails(w)
    BY <1>1, <1>6, EndsAccounted DEF FinishNoteFails, Fails, At
<1>7. CASE MarkDispatched(w)
    BY <1>1, <1>7, EndsAccounted DEF MarkDispatched, Fails, At
<1>8. CASE StoreReport(w)
    BY <1>8, EndsAccounted DEF StoreReport, At
<1>9. CASE ReportFails(w)
    BY <1>1, <1>9, EndsAccounted DEF ReportFails, Fails, At
<1>10. QED
    BY <1>2, <1>3, <1>4, <1>5, <1>6, <1>7, <1>8, <1>9

\* An attempt that goes on with the message and the slot as they are.
LEMMA GoesOnAccounted ==
    ASSUME LeaseInv, DeliveryInv, NEW w \in Worker, work[w] # Idle, UNCHANGED <<bought, jobs>>,
           NEW place \in {"deliver", "failing", "mark"}, Goto(w, place),
           UNCHANGED <<used, message, spent, leaked>>,
           note' \in [Job -> {"none", "pending", "cancelled", "sent", "failed"}],
           Kind[work[w].job] \in {"reminder", "meeting"},
           place \in {"deliver", "mark"} => Kind[work[w].job] = "meeting",
           message[w] # NoMessage => place = "failing",
           lost' = lost \/ Lose(w),
           accepted' = accepted \/ (Took(w) /\ work[w].place = "sending"
                                    /\ place = "failing" /\ Lose(w)),
           Kind[work[w].job] = "reminder" /\ work[w].place = "sent" => Lose(w),
           \A j \in Job : note'[j] = note[j] \/ note'[j] # "none",
           \A j \in Job : Kind[j] = "meeting" /\ j # work[w].job => note'[j] = note[j],
           Kind[work[w].job] = "meeting" =>
               /\ note'[work[w].job] # "none"
               /\ place # "mark" =>
                     \/ work[w].place = "claimed" /\ place = "deliver" /\ note[work[w].job] = "none"
                     \/ work[w].place \in {"deliver", "sending"} /\ place = "failing"
    PROVE  LeaseInv' /\ DeliveryInv'
<1>1. DeliveryTypeOK'
    BY HistoryTypes DEF DeliveryInv, DeliveryTypeOK
<1>2. PlansHad' = PlansHad
    BY DEF PlansHad, Periods
<1>3. QuotaAccounted'
    BY <1>2, QuotaKept DEF DeliveryInv
<1>4. /\ place \in {"deliver", "sending", "sent", "failing", "failed", "mark"}
      /\ place # "sending" /\ place # "sent"
      /\ \A v \in Worker : v # w => message'[v] = message[v]
      /\ message'[w] # NoMessage => place \in {"sending", "sent", "failing"}
    OBVIOUS
<1>5. accepted' = accepted
      \/ (Took(w) /\ work[w].place = "sending" /\ (place = "sent" \/ (place = "failing" /\ Lose(w))))
    OBVIOUS
<1>6. Kind[work[w].job] = "meeting" =>
               /\ note'[work[w].job] # "none"
               /\ place # "mark" =>
                     \/ work[w].place = "claimed" /\ place = "deliver" /\ note[work[w].job] = "none"
                     \/ work[w].place = "deliver" /\ place \in {"sending", "failing"}
                     \/ /\ work[w].place \in {"sending", "sent", "failing"}
                        /\ place \notin {"deliver", "sending"}
    OBVIOUS
<1>7. QED
    BY <1>1, <1>3, <1>4, <1>5, <1>6, AttemptGoesOn
\* What is known of a note that is written.
LEMMA NotesStand ==
    ASSUME DeliveryInv, NEW j \in Job,
           NEW value \in {"pending", "cancelled", "sent", "failed"},
           note' = [note EXCEPT ![j] = value]
    PROVE  /\ note' \in [Job -> {"none", "pending", "cancelled", "sent", "failed"}]
           /\ note'[j] # "none"
           /\ \A k \in Job : k # j => note'[k] = note[k]
           /\ \A k \in Job : note'[k] = note[k] \/ note'[k] # "none"
    BY DEF DeliveryInv, DeliveryTypeOK

\* The steps that leave the message and its slot alone.
LEMMA StepsWithoutSlot ==
    ASSUME LeaseInv, DeliveryInv, NEW w \in Worker, UNCHANGED bought,
           \/ OpenNote(w) \/ QuotaExhausted(w) \/ ReserveFails(w) \/ FailNote(w) \/ MarkSent(w)
    PROVE  LeaseInv' /\ DeliveryInv'
<1> DEFINE job == work[w].job
<1>1. work[w] # Idle /\ job \in Job
    BY AtWork DEF OpenNote, QuotaExhausted, ReserveFails, FailNote, MarkSent, ReadyToSend, At
<1>2. /\ message[w] # NoMessage => work[w].place \in {"sending", "sent", "failing"}
      /\ note \in [Job -> {"none", "pending", "cancelled", "sent", "failed"}]
      /\ Kind[job] = "meeting" /\ note[job] = "none" => work[w].place = "claimed"
    BY <1>1 DEF DeliveryInv, DeliveryTypeOK, Messages, MeetingOnce, Busy
<1>3. CASE OpenNote(w)
    <2>1. /\ Kind[job] = "meeting" /\ work[w].place = "claimed" /\ message[w] = NoMessage
          /\ UNCHANGED <<jobs, used, message, accepted, lost, spent, leaked>>
        BY <1>2, <1>3 DEF OpenNote, At
    <2>2. CASE note[job] # "none" /\ Goto(w, "mark") /\ UNCHANGED note
        BY <1>1, <1>2, <2>1, <2>2, GoesOnAccounted
    <2>3. CASE note[job] = "none" /\ note' = [note EXCEPT ![job] = "pending"] /\ Goto(w, "deliver")
        BY <1>1, <2>1, <2>3, NotesStand, GoesOnAccounted
    <2>4. CASE note' = [note EXCEPT ![job] = "cancelled"] /\ Goto(w, "mark")
        BY <1>1, <2>1, <2>4, NotesStand, GoesOnAccounted
    <2>5. QED
        BY <1>3, <2>2, <2>3, <2>4 DEF OpenNote, InsertNote
<1>4. CASE QuotaExhausted(w)
    <2>1. work[w].place \in {"claimed", "deliver"} /\ message[w] = NoMessage /\ lost' = lost
        BY <1>2, <1>4 DEF QuotaExhausted, ReadyToSend, At
    <2>2. CASE Kind[job] = "reminder" /\ EndAttempt(w, "cancelled")
        BY <1>1, <2>1, <2>2, EndsAccounted
    <2>3. CASE /\ Kind[job] = "meeting" /\ note' = [note EXCEPT ![job] = "cancelled"]
               /\ Goto(w, "mark")
               /\ UNCHANGED <<jobs, used, message, accepted, spent, leaked>>
        BY <1>1, <2>1, <2>3, NotesStand, GoesOnAccounted
    <2>4. QED
        BY <1>4, <2>2, <2>3 DEF QuotaExhausted
<1>5. CASE ReserveFails(w)
    <2>1. /\ Kind[job] = "meeting" /\ work[w].place = "deliver" /\ message[w] = NoMessage
          /\ Goto(w, "failing") /\ UNCHANGED jobs
          /\ UNCHANGED <<used, message, note, accepted, lost, spent, leaked>>
        BY <1>2, <1>5 DEF ReserveFails, At, deliveryVars
    <2>2. QED
        BY <1>1, <1>2, <2>1, GoesOnAccounted
<1>6. CASE FailNote(w)
    <2>1. /\ Kind[job] = "meeting" /\ message[w] = NoMessage
          /\ note' = [note EXCEPT ![job] = "failed"] /\ Goto(w, "mark")
          /\ UNCHANGED <<jobs, used, message, accepted, lost, spent, leaked>>
        BY <1>2, <1>6 DEF FailNote, At
    <2>2. QED
        BY <1>1, <2>1, NotesStand, GoesOnAccounted
<1>7. CASE MarkSent(w)
    <2>1. Kind[job] = "reminder" /\ work[w].place = "sent"
        BY <1>7 DEF MarkSent, At
    <2>2. CASE EndAttempt(w, "done") /\ IF Holds(w) THEN UNCHANGED lost ELSE Lose(w)
        BY <1>1, <2>1, <2>2, EndsAccounted
    <2>3. CASE /\ Goto(w, "failing") /\ Lose(w)
               /\ UNCHANGED <<jobs, used, message, note, accepted, spent, leaked>>
        BY <1>1, <1>2, <2>1, <2>3, GoesOnAccounted
    <2>4. QED
        BY <1>7, <2>2, <2>3 DEF MarkSent
<1>8. QED
    BY <1>3, <1>4, <1>5, <1>6, <1>7

\* A slot of the month is reserved while the plan has one left.
LEMMA SlotIsReserved ==
    ASSUME PaymentsInv, LeaseInv, DeliveryInv, NEW w \in Worker, UNCHANGED bought, ReserveSlot(w)
    PROVE  LeaseInv' /\ DeliveryInv'
<1> DEFINE month == MonthOf(now)
           job == work[w].job
<1>1. /\ work[w] # Idle /\ Goto(w, "sending") /\ SlotLeft(month) /\ Reserve(w)
      /\ UNCHANGED <<jobs, note, accepted, lost, spent, leaked>>
      /\ \/ Kind[job] = "reminder" /\ work[w].place = "claimed"
         \/ Kind[job] = "meeting" /\ work[w].place = "deliver"
    BY DEF ReserveSlot, ReadyToSend, At
<1>2. job \in Job /\ message[w] = NoMessage
      /\ (Kind[job] = "meeting" => note[job] # "none")
    BY <1>1, AtWork DEF DeliveryInv, Messages, MeetingOnce, Busy
<1>3. month \in Nat /\ month # 0
    BY DeliveryAssumption DEF PaymentsInv, PaymentsTypeOK, MonthOf
<1>4. /\ message \in [Worker -> [slot : Nat, taken : BOOLEAN]] /\ used \in [Months -> Nat]
      /\ Quota \in Nat \cup {Unlimited} /\ Unlimited \notin Nat
      /\ subscription.plan \in PlansHad
    BY DeliveryAssumption
        DEF DeliveryInv, DeliveryTypeOK, Quota, PaymentsInv, PaymentsTypeOK, PeriodsInOrder
<1>5. PlansHad' = PlansHad
    BY DEF PlansHad, Periods
<1> HIDE DEF month
<1>6. CASE Quota = Unlimited /\ UNCHANGED <<used, message>>
    <2>1. DeliveryTypeOK'
        BY <1>1, <1>6 DEF DeliveryInv, DeliveryTypeOK
    <2>2. QuotaAccounted'
        BY <1>1, <1>5, <1>6, QuotaKept DEF DeliveryInv
    <2>3. message'[w] = NoMessage /\ ~message'[w].taken
        BY <1>2, <1>6 DEF NoMessage
    <2>4. QED
        BY <1>1, <1>2, <1>6, <2>1, <2>2, <2>3, AttemptGoesOn
<1>7. CASE /\ Quota # Unlimited
           /\ used' = [used EXCEPT ![month] = @ + 1]
           /\ message' = [message EXCEPT ![w].slot = month]
    <2> DEFINE reserved == [message[w] EXCEPT !.slot = month]
    <2>1. /\ message' = [message EXCEPT ![w] = reserved]
          /\ reserved.slot = month /\ reserved.taken = FALSE
          /\ reserved \in [slot : Nat, taken : BOOLEAN]
        <3>1. message' = [message EXCEPT ![w] = reserved]
            BY <1>7
        <3>2. reserved.slot = month /\ reserved.taken = FALSE
            BY <1>2 DEF NoMessage
        <3>3. reserved \in [slot : Nat, taken : BOOLEAN]
            BY <1>3, <1>4
        <3>4. QED
            BY <3>1, <3>2, <3>3
    <2> HIDE DEF reserved
    <2>2. /\ message' \in [Worker -> [slot : Nat, taken : BOOLEAN]]
          /\ \A v \in Worker : message'[v] = IF v = w THEN reserved ELSE message[v]
        BY <1>3, <1>4, <2>1
    <2>3. used' \in [Months -> Nat]
          /\ \A m \in Months : used'[m] = IF m = month THEN used[m] + 1 ELSE used[m]
        <3>1. CASE month \in Months
            BY <1>4, <1>7, <3>1
        <3>2. CASE month \notin Months
            <4>1. used' = used
                BY <1>4, <1>7, <3>2
            <4>2. QED
                BY <1>4, <3>2, <4>1
        <3>3. QED
            BY <3>1, <3>2
    <2>4. DeliveryTypeOK'
        BY <1>1, <2>2, <2>3 DEF DeliveryInv, DeliveryTypeOK
    <2>5. QuotaAccounted'
        <3>1. ASSUME NEW m \in Months
              PROVE  used'[m] = Cardinality(InFlight(m)') + spent'[m] + leaked'[m]
            <4>1. CASE m = month
                <5>1. w \notin InFlight(m) /\ InFlight(m)' = InFlight(m) \cup {w}
                    BY <1>2, <1>3, <2>1, <2>2, <4>1 DEF InFlight, NoMessage
                <5>2. Cardinality(InFlight(m)') = Cardinality(InFlight(m)) + 1
                    BY <5>1, FlightsAreCounted, FS_AddElement
                <5>3. used[m] = Cardinality(InFlight(m)) + spent[m] + leaked[m]
                      /\ spent[m] \in Nat /\ leaked[m] \in Nat /\ Cardinality(InFlight(m)) \in Nat
                    BY FlightsAreCounted DEF DeliveryInv, DeliveryTypeOK, QuotaAccounted
                <5>4. QED
                    BY <1>1, <2>3, <4>1, <5>2, <5>3
            <4>2. CASE m # month
                <5>1. m # 0
                    BY DEF Months
                <5>2. InFlight(m)' = InFlight(m)
                    BY <1>2, <2>1, <2>2, <4>2, <5>1 DEF InFlight, NoMessage
                <5>3. QED
                    BY <1>1, <2>3, <4>2, <5>2 DEF DeliveryInv, QuotaAccounted
            <4>3. QED
                BY <4>1, <4>2
        <3>2. ASSUME NEW m \in Months, used'[m] > 0
              PROVE  \E plan \in PlansHad : QuotaOf[plan] # Unlimited /\ used'[m] <= QuotaOf[plan]
            <4>1. CASE m = month
                <5>1. used[m] < Quota /\ Quota \in Nat /\ used[m] \in Nat /\ used'[m] = used[m] + 1
                    BY <1>1, <1>4, <1>7, <2>3, <4>1 DEF SlotLeft
                <5>2. used'[m] <= Quota
                    BY <5>1
                <5>3. QED
                    BY <1>4, <1>7, <5>2 DEF Quota
            <4>2. CASE m # month
                BY <2>3, <3>2, <4>2 DEF DeliveryInv, QuotaAccounted
            <4>3. QED
                BY <4>1, <4>2
        <3>3. QED
            BY <1>5, <3>1, <3>2 DEF QuotaAccounted
    <2>6. ~message'[w].taken /\ \A v \in Worker : v # w => message'[v] = message[v]
        BY <2>1, <2>2
    <2>7. QED
        BY <1>1, <1>2, <2>4, <2>5, <2>6, AttemptGoesOn
<1>8. QED
    BY <1>1, <1>6, <1>7 DEF Reserve, month

\* The provider is called: it takes the message and the slot is spent, or the
\* attempt fails, whatever the provider did.
LEMMA ProviderIsCalled ==
    ASSUME LeaseInv, DeliveryInv, NEW w \in Worker, UNCHANGED bought, Send(w)
    PROVE  LeaseInv' /\ DeliveryInv'
<1> DEFINE month == message[w].slot
           job == work[w].job
<1>1. work[w] # Idle /\ work[w].place = "sending" /\ UNCHANGED <<jobs, used, note, leaked>>
    BY DEF Send, Idle
<1>2. /\ job \in Job /\ Kind[job] \in {"reminder", "meeting"} /\ ~message[w].taken
      /\ Kind[job] = "meeting" => note[job] # "none"
    BY <1>1, AtWork DEF DeliveryInv, Messages, MeetingOnce, Busy
<1>3. /\ message \in [Worker -> [slot : Nat, taken : BOOLEAN]] /\ spent \in [Months -> Nat]
      /\ note \in [Job -> {"none", "pending", "cancelled", "sent", "failed"}]
      /\ month \in Nat
    BY DEF DeliveryInv, DeliveryTypeOK
<1>4. PlansHad' = PlansHad
    BY DEF PlansHad, Periods
<1>5. CASE /\ Took(w) /\ UNCHANGED lost
           /\ message' = [message EXCEPT ![w].taken = TRUE]
           /\ spent' = IF month = 0 THEN spent ELSE [spent EXCEPT ![month] = @ + 1]
           /\ Goto(w, "sent")
    <2> DEFINE taken == [message[w] EXCEPT !.taken = TRUE]
    <2>1. message' = [message EXCEPT ![w] = taken]
        BY <1>5
    <2>2. taken.slot = month /\ taken.taken = TRUE /\ taken \in [slot : Nat, taken : BOOLEAN]
        BY <1>3
    <2> HIDE DEF taken
    <2>3. /\ message' \in [Worker -> [slot : Nat, taken : BOOLEAN]]
          /\ \A v \in Worker : message'[v] = IF v = w THEN taken ELSE message[v]
        BY <1>3, <2>1, <2>2
    <2>4. spent' \in [Months -> Nat]
          /\ \A m \in Months : spent'[m] = IF m = month THEN spent[m] + 1 ELSE spent[m]
        <3>1. \A m \in Months : m # 0
            BY DEF Months
        <3>2. CASE month \in Months
            BY <1>3, <1>5, <3>1, <3>2
        <3>3. CASE month \notin Months
            <4>1. spent' = spent
                BY <1>3, <1>5, <3>3
            <4>2. QED
                BY <1>3, <3>3, <4>1
        <3>4. QED
            BY <3>2, <3>3
    <2>5. accepted' \in [Job -> SUBSET Nat] /\ work[w].token \in accepted'[job]
        BY <1>1, <1>5, HistoryTypes
    <2>6. DeliveryTypeOK'
        BY <1>1, <1>5, <2>3, <2>4, <2>5 DEF DeliveryInv, DeliveryTypeOK
    <2>7. QuotaAccounted'
        <3>1. ASSUME NEW m \in Months
              PROVE  used'[m] = Cardinality(InFlight(m)') + spent'[m] + leaked'[m]
            <4>1. used[m] = Cardinality(InFlight(m)) + spent[m] + leaked[m]
                  /\ spent[m] \in Nat /\ leaked[m] \in Nat /\ Cardinality(InFlight(m)) \in Nat
                BY FlightsAreCounted DEF DeliveryInv, DeliveryTypeOK, QuotaAccounted
            <4>2. CASE m = month
                <5>1. w \in InFlight(m) /\ InFlight(m)' = InFlight(m) \ {w}
                    BY <1>2, <2>2, <2>3, <4>2 DEF InFlight
                <5>2. Cardinality(InFlight(m)') = Cardinality(InFlight(m)) - 1
                    BY <5>1, FlightsAreCounted, FS_RemoveElement
                <5>3. QED
                    BY <1>1, <2>4, <4>1, <4>2, <5>2
            <4>3. CASE m # month
                <5>1. InFlight(m)' = InFlight(m)
                    BY <1>2, <2>2, <2>3, <4>3 DEF InFlight
                <5>2. QED
                    BY <1>1, <2>4, <4>1, <4>3, <5>1
            <4>4. QED
                BY <4>2, <4>3
        <3>2. QED
            BY <1>1, <1>4, <3>1 DEF QuotaAccounted, DeliveryInv
    <2>8. message'[w].taken /\ \A v \in Worker : v # w => message'[v] = message[v]
        BY <2>2, <2>3
    <2>9. QED
        BY <1>1, <1>2, <1>5, <2>5, <2>6, <2>7, <2>8, AttemptGoesOn
<1>6. CASE Took(w) /\ Lose(w) /\ Goto(w, "failing") /\ UNCHANGED <<message, spent>>
    BY <1>1, <1>2, <1>3, <1>6, GoesOnAccounted
<1>7. CASE Goto(w, "failing") /\ UNCHANGED <<message, spent, accepted, lost>>
    BY <1>1, <1>2, <1>3, <1>7, GoesOnAccounted
<1>8. QED
    BY <1>5, <1>6, <1>7 DEF Send

\* A plan that was paid for is one of the plans.
LEMMA PlansAreKnown == ASSUME PaymentsInv PROVE PlansHad \subseteq Plans \cup {"free"}
<1>1. \A n \in DOMAIN bought : bought[n] \in Purchase
    BY DEF PaymentsInv, PaymentsTypeOK
<1>2. \A n \in Periods : bought[n].item \in Plans
    BY <1>1 DEF Periods, Purchase, Items
<1>3. QED
    BY <1>2 DEF PlansHad

\* What happens to the counts when a slot is given back or lost.
LEMMA SlotLeaves ==
    ASSUME PaymentsInv, DeliveryInv, NEW w \in Worker, UNCHANGED <<bought, spent>>,
           \A v \in Worker : message'[v] = IF v = w THEN NoMessage ELSE message[v],
           IF Releasable(w)
           THEN \/ /\ used' = [used EXCEPT ![message[w].slot] = IF @ = 0 THEN 0 ELSE @ - 1]
                   /\ UNCHANGED leaked
                \/ /\ leaked' = [leaked EXCEPT ![message[w].slot] = @ + 1]
                   /\ UNCHANGED used
           ELSE UNCHANGED <<used, leaked>>
    PROVE  QuotaAccounted' /\ used' \in [Months -> Nat] /\ leaked' \in [Months -> Nat]
<1> DEFINE month == message[w].slot
           change(m) == IF Releasable(w) /\ m = month THEN 1 ELSE 0
<1>1. used \in [Months -> Nat] /\ leaked \in [Months -> Nat] /\ spent \in [Months -> Nat]
      /\ month \in Nat
    BY DEF DeliveryInv, DeliveryTypeOK
<1>2. ASSUME NEW m \in Months
      PROVE  /\ used[m] = Cardinality(InFlight(m)) + spent[m] + leaked[m]
             /\ used[m] \in Nat /\ spent[m] \in Nat /\ leaked[m] \in Nat
             /\ Cardinality(InFlight(m)) \in Nat
             /\ Cardinality(InFlight(m)') = Cardinality(InFlight(m)) - change(m)
             /\ used[m] >= change(m)
    <2>1. /\ used[m] = Cardinality(InFlight(m)) + spent[m] + leaked[m]
          /\ used[m] \in Nat /\ spent[m] \in Nat /\ leaked[m] \in Nat
          /\ IsFiniteSet(InFlight(m)) /\ Cardinality(InFlight(m)) \in Nat /\ m # 0
        BY FlightsAreCounted DEF DeliveryInv, DeliveryTypeOK, QuotaAccounted, Months
    <2>2. CASE Releasable(w) /\ m = month
        <3>1. w \in InFlight(m) /\ InFlight(m)' = InFlight(m) \ {w}
            BY <2>1, <2>2 DEF InFlight, Releasable, NoMessage
        <3>2. Cardinality(InFlight(m)') = Cardinality(InFlight(m)) - 1
            BY <2>1, <3>1, FS_RemoveElement
        <3>3. Cardinality(InFlight(m)) # 0
            BY <2>1, <3>1, FS_EmptySet
        <3>4. change(m) = 1
            BY <2>2
        <3>5. QED
            BY <2>1, <3>2, <3>3, <3>4
    <2>3. CASE ~(Releasable(w) /\ m = month)
        <3>1. InFlight(m)' = InFlight(m)
            BY <2>1, <2>3 DEF InFlight, Releasable, NoMessage
        <3>2. change(m) = 0
            BY <2>3
        <3>3. QED
            BY <2>1, <3>1, <3>2
    <2>4. QED
        BY <2>2, <2>3
<1>3. ASSUME NEW m \in Months
      PROVE  /\ change(m) \in {0, 1}
             /\ m # month \/ ~Releasable(w) => change(m) = 0
             /\ m = month /\ Releasable(w) => change(m) = 1
    OBVIOUS
<1> HIDE DEF change
<1>4. /\ used' \in [Months -> Nat] /\ leaked' \in [Months -> Nat]
      /\ \/ \A m \in Months : used'[m] = used[m] - change(m) /\ leaked'[m] = leaked[m]
         \/ \A m \in Months : used'[m] = used[m] /\ leaked'[m] = leaked[m] + change(m)
    <2>1. CASE ~Releasable(w)
        BY <1>1, <1>3, <2>1
    <2>2. CASE /\ Releasable(w) /\ UNCHANGED leaked
               /\ used' = [used EXCEPT ![month] = IF @ = 0 THEN 0 ELSE @ - 1]
        <3>1. CASE month \in Months
            <4> DEFINE left == IF used[month] = 0 THEN 0 ELSE used[month] - 1
            <4>1. used[month] \in Nat /\ used[month] >= 1
                <5>1. used[month] \in Nat /\ used[month] >= change(month) /\ change(month) = 1
                    BY <1>2, <1>3, <2>2, <3>1
                <5>2. QED
                    BY <5>1
            <4>2. left = used[month] - 1 /\ left \in Nat
                BY <4>1
            <4>3. used' = [used EXCEPT ![month] = left]
                BY <2>2
            <4> HIDE DEF left
            <4>4. QED
                BY <1>1, <1>3, <2>2, <3>1, <4>2, <4>3
        <3>2. CASE month \notin Months
            <4>1. used' = used
                BY <1>1, <2>2, <3>2
            <4>2. QED
                BY <1>1, <1>3, <3>2, <4>1, <2>2
        <3>3. QED
            BY <3>1, <3>2
    <2>3. CASE /\ Releasable(w) /\ UNCHANGED used
               /\ leaked' = [leaked EXCEPT ![month] = @ + 1]
        <3>1. CASE month \in Months
            BY <1>1, <1>3, <2>3, <3>1
        <3>2. CASE month \notin Months
            <4>1. leaked' = leaked
                BY <1>1, <2>3, <3>2
            <4>2. QED
                BY <1>1, <1>3, <3>2, <4>1, <2>3
        <3>3. QED
            BY <3>1, <3>2
    <2>4. QED
        BY <2>1, <2>2, <2>3
<1>5. ASSUME NEW m \in Months
      PROVE  /\ used'[m] = Cardinality(InFlight(m)') + spent'[m] + leaked'[m]
             /\ used'[m] <= used[m] /\ used'[m] \in Nat /\ used[m] \in Nat
    <2>1. /\ used[m] = Cardinality(InFlight(m)) + spent[m] + leaked[m]
          /\ used[m] \in Nat /\ spent[m] \in Nat /\ leaked[m] \in Nat
          /\ Cardinality(InFlight(m)) \in Nat /\ change(m) \in {0, 1}
          /\ Cardinality(InFlight(m)') = Cardinality(InFlight(m)) - change(m)
          /\ used[m] >= change(m) /\ spent'[m] = spent[m]
        BY <1>2, <1>3
    <2>2. \/ used'[m] = used[m] - change(m) /\ leaked'[m] = leaked[m]
          \/ used'[m] = used[m] /\ leaked'[m] = leaked[m] + change(m)
        BY <1>4
    <2>3. QED
        BY <2>1, <2>2
<1>6. ASSUME NEW m \in Months, used'[m] > 0
      PROVE  \E plan \in PlansHad : QuotaOf[plan] # Unlimited /\ used'[m] <= QuotaOf[plan]
    <2>1. used[m] > 0
        BY <1>5, <1>6
    <2>2. PICK plan \in PlansHad : QuotaOf[plan] # Unlimited /\ used[m] <= QuotaOf[plan]
        BY <2>1 DEF DeliveryInv, QuotaAccounted
    <2>3. plan \in Plans \cup {"free"}
        BY PlansAreKnown
    <2>4. QuotaOf[plan] \in Nat
        BY <2>2, <2>3, DeliveryAssumption
    <2>5. used'[m] <= QuotaOf[plan]
        BY <1>5, <2>2, <2>4
    <2>6. QED
        BY <2>2, <2>5
<1>7. PlansHad' = PlansHad
    BY DEF PlansHad, Periods
<1>8. QED
    BY <1>4, <1>5, <1>6, <1>7 DEF QuotaAccounted

\* The catch block of the call gives the slot back, or loses it, and a message that
\* was sent is recorded; a process that dies takes its slot with it.
LEMMA MessageIsForgotten ==
    ASSUME PaymentsInv, LeaseInv, DeliveryInv, NEW w \in Worker, UNCHANGED bought,
           Release(w) \/ FinishNote(w) \/ DeliveryDies(w)
    PROVE  LeaseInv' /\ DeliveryInv'
<1> DEFINE job == work[w].job
<1>1. work[w] # Idle /\ Forget(w)
    BY DEF Release, FinishNote, DeliveryDies, Dies, At, Idle
<1>2. job \in Job
    BY <1>1, AtWork
<1>3. /\ message' \in [Worker -> [slot : Nat, taken : BOOLEAN]] /\ message'[w] = NoMessage
      /\ \A v \in Worker : message'[v] = IF v = w THEN NoMessage ELSE message[v]
    BY <1>1 DEF Forget, NoMessage, DeliveryInv, DeliveryTypeOK
<1>4. /\ note \in [Job -> {"none", "pending", "cancelled", "sent", "failed"}]
      /\ spent \in [Months -> Nat] /\ leaked \in [Months -> Nat]
    BY DEF DeliveryInv, DeliveryTypeOK
<1>5. CASE Release(w)
    <2>1. /\ work[w].place = "failing" /\ Goto(w, "failed")
          /\ UNCHANGED <<jobs, note, accepted, lost, spent>>
        BY <1>5 DEF Release
    <2>2. QuotaAccounted' /\ used' \in [Months -> Nat] /\ leaked' \in [Months -> Nat]
        BY <1>3, <1>5, SlotLeaves DEF Release
    <2>3. DeliveryTypeOK'
        BY <1>3, <2>1, <2>2 DEF DeliveryInv, DeliveryTypeOK
    <2>4. /\ Kind[job] \in {"reminder", "meeting"}
          /\ Kind[job] = "meeting" => note[job] # "none"
        BY <1>1, <1>2, <2>1 DEF DeliveryInv, Messages, MeetingOnce, Busy
    <2>5. QED
        BY <1>1, <1>3, <2>1, <2>2, <2>3, <2>4, AttemptGoesOn
<1>6. CASE FinishNote(w)
    <2>1. /\ work[w].place = "sent" /\ Kind[job] = "meeting" /\ Goto(w, "mark")
          /\ note' = [note EXCEPT ![job] = "sent"]
          /\ UNCHANGED <<jobs, used, accepted, lost, spent, leaked>>
        BY <1>6 DEF FinishNote, At
    <2>2. ~Releasable(w)
        BY <2>1 DEF DeliveryInv, Messages, Releasable
    <2>3. QuotaAccounted'
        BY <1>3, <2>1, <2>2, SlotLeaves
    <2>4. /\ note' \in [Job -> {"none", "pending", "cancelled", "sent", "failed"}]
          /\ note'[job] # "none"
          /\ \A k \in Job : k # job => note'[k] = note[k]
          /\ \A k \in Job : note'[k] = note[k] \/ note'[k] # "none"
        BY <1>2, <2>1, NotesStand
    <2>5. DeliveryTypeOK'
        BY <1>3, <2>1, <2>4 DEF DeliveryInv, DeliveryTypeOK
    <2>6. QED
        BY <1>1, <1>3, <2>1, <2>3, <2>4, <2>5, AttemptGoesOn
<1>7. CASE DeliveryDies(w)
    <2>1. /\ Dies(w) /\ Lose(w) /\ UNCHANGED <<used, note, accepted, spent>>
          /\ leaked' = IF Releasable(w) THEN [leaked EXCEPT ![message[w].slot] = @ + 1] ELSE leaked
        BY <1>7 DEF DeliveryDies
    <2>2. QuotaAccounted' /\ leaked' \in [Months -> Nat]
        BY <1>3, <2>1, SlotLeaves
    <2>3. DeliveryTypeOK'
        BY <1>1, <1>3, <2>1, <2>2, HistoryTypes DEF DeliveryInv, DeliveryTypeOK
    <2>4. \E status \in {"open", "failed", "cancelled", "done"} : status # "done"
        OBVIOUS
    <2>5. PICK status \in {"open", "failed", "cancelled", "done"} : status # "done"
        BY <2>4
    <2>6. QED
        BY <1>1, <2>1, <2>2, <2>3, <2>5, AttemptEnds
<1>8. QED
    BY <1>5, <1>6, <1>7

\* Every step of a dispatcher.
LEMMA DeliverySteps ==
    ASSUME PaymentsInv, LeaseInv, DeliveryInv, NEW w \in Worker, UNCHANGED bought,
           DeliveryStep(w) \/ DeliveryDies(w)
    PROVE  LeaseInv' /\ DeliveryInv'
<1>1. CASE \/ GiveUp(w) \/ NobodyToRemind(w) \/ LookupFails(w) \/ RetryReminder(w)
           \/ FinishNoteFails(w) \/ MarkDispatched(w) \/ StoreReport(w) \/ ReportFails(w)
    BY <1>1, EndsOfAttempts
<1>2. CASE OpenNote(w) \/ QuotaExhausted(w) \/ ReserveFails(w) \/ FailNote(w) \/ MarkSent(w)
    BY <1>2, StepsWithoutSlot
<1>3. CASE ReserveSlot(w)
    BY <1>3, SlotIsReserved
<1>4. CASE Send(w)
    BY <1>4, ProviderIsCalled
<1>5. CASE Release(w) \/ FinishNote(w) \/ DeliveryDies(w)
    BY <1>5, MessageIsForgotten
<1>6. QED
    BY <1>1, <1>2, <1>3, <1>4, <1>5 DEF DeliveryStep

\* None of them touches an upload.
LEMMA DeliveryLeavesUploads ==
    ASSUME LeaseInv, DeliveryInv, NEW w \in Worker, DeliveryStep(w) \/ DeliveryDies(w)
    PROVE  \A j \in Upload : jobs'[j] = jobs[j]
<1> SUFFICES ASSUME NEW j \in Job, Kind[j] = "scan" PROVE jobs'[j] = jobs[j]
    BY DEF Upload
<1>1. work[w] # Idle /\ (DeliveryDies(w) \/ Kind[work[w].job] # "scan")
    <2>1. work[w] # Idle
        BY DEF DeliveryStep, GiveUp, NobodyToRemind, LookupFails, OpenNote, ReserveSlot,
               QuotaExhausted, ReserveFails, Send, Release, RetryReminder, FailNote, MarkSent,
               FinishNote, FinishNoteFails, MarkDispatched, StoreReport, ReportFails,
               ReadyToSend, At, DeliveryDies, Dies, Idle
    <2>2. work[w].place # "claimed" => Kind[work[w].job] # "scan"
        BY <2>1 DEF DeliveryInv, Messages
    <2>3. QED
        BY <2>1, <2>2
            DEF DeliveryStep, GiveUp, NobodyToRemind, LookupFails, OpenNote, ReserveSlot,
               QuotaExhausted, ReserveFails, Send, Release, RetryReminder, FailNote, MarkSent,
               FinishNote, FinishNoteFails, MarkDispatched, StoreReport, ReportFails,
               ReadyToSend, At
<1>2. jobs' = jobs \/ \E status : Settle(w, status)
    BY DEF DeliveryStep, GiveUp, NobodyToRemind, LookupFails, OpenNote, ReserveSlot,
           QuotaExhausted, ReserveFails, Send, Release, RetryReminder, FailNote, MarkSent,
           FinishNote, FinishNoteFails, MarkDispatched, StoreReport, ReportFails,
           EndAttempt, Fails, DeliveryDies, Dies
<1>3. CASE jobs' = jobs
    BY <1>3
<1>4. CASE ~DeliveryDies(w) /\ \E status : Settle(w, status)
    <2>1. work[w].job # j /\ work[w].job \in Job
        BY <1>1, <1>4, AtWork
    <2>2. jobs \in [Job -> JobRow]
        BY DEF LeaseInv, LeaseTypeOK
    <2>3. PICK status : Settle(w, status)
        BY <1>4
    <2>4. QED
        BY <2>1, <2>2, <2>3 DEF Settle, Outcome
<1>5. QED
    BY <1>2, <1>3, <1>4 DEF DeliveryDies, Dies
-----------------------------------------------------------------------------
\* There is no upload at first.
LEMMA NothingUploaded == ASSUME UploadInit, LeaseInit PROVE UploadInv
    BY LeaseAssumption
        DEF UploadInit, LeaseInit, NoJob, UploadInv, UploadsOK, OneIsClean, UploadPlace, Closed,
            Upload, Content

\* Whoever claims, delivers or dies: the uploads keep their status.
LEMMA UploadsUndisturbed ==
    ASSUME UploadInv, UNCHANGED uploadVars,
           \A j \in Upload : jobs'[j].status = jobs[j].status
    PROVE  UploadInv'
<1>1. {j \in Upload : jobs'[j].status = "clean"} = {j \in Upload : jobs[j].status = "clean"}
    OBVIOUS
<1>2. \A j \in Upload : UploadPlace(j)'
    BY DEF uploadVars, UploadInv, UploadsOK, UploadPlace, Closed
<1>3. QED
    BY <1>1, <1>2 DEF uploadVars, UploadInv, UploadsOK, OneIsClean, Upload

\* The steps of a user and of storage.
LEMMA UploadSteps ==
    ASSUME LeaseInv, UploadInv, NEW j \in Upload, CreateUpload(j) \/ UploadStep(j)
    PROVE  /\ LeaseInv' /\ UploadInv'
           /\ work' = work /\ \A k \in Job : k # j => jobs'[k] = jobs[k]
<1>1. jobs \in [Job -> JobRow] /\ j \in Job /\ jobs[j] \in JobRow
    BY DEF LeaseInv, LeaseTypeOK, Upload
<1>2. /\ object \in [Job -> Content \cup {"none"}] /\ seen \in [Job -> SUBSET Content]
      /\ expired \subseteq Upload /\ removing \subseteq Upload /\ reposted \subseteq Upload
      /\ asset \in Upload \cup {"none"}
      /\ \A k \in Upload : UploadPlace(k)
      /\ {k \in Upload : jobs[k].status = "clean"} = {asset} \ {"none"}
    BY DEF UploadInv, UploadsOK, OneIsClean
<1>3. ASSUME jobs[j].token = 0, NEW status \in {"initiated", "open", "rejected"},
             jobs' = [jobs EXCEPT ![j].status = status], work' = work
      PROVE  /\ LeaseInv' /\ \A k \in Job : k # j => jobs'[k] = jobs[k]
             /\ jobs'[j].status = status
    <2> DEFINE row == [jobs[j] EXCEPT !.status = status]
    <2>1. row \in JobRow /\ row.attempts = jobs[j].attempts /\ row.token = jobs[j].token
          /\ row.live = jobs[j].live /\ row.status = status
        BY <1>1 DEF JobRow
    <2>2. jobs' = [jobs EXCEPT ![j] = row]
        BY <1>3
    <2> HIDE DEF row
    <2>3. /\ jobs' \in [Job -> JobRow] /\ jobs'[j] = row
          /\ \A k \in Job : k # j => jobs'[k] = jobs[k]
        BY <1>1, <2>1, <2>2
    <2>4. jobs[j].live => jobs[j].token # 0
        BY <1>1 DEF LeaseInv, Tokens
    <2>5. LeaseInv'
        BY <1>3, <2>1, <2>3, <2>4, JobsChange
    <2>6. QED
        BY <2>1, <2>3, <2>5
<1>4. jobs[j].status # "open" => jobs[j].token = 0
    BY <1>1 DEF LeaseInv, Tokens, Open
<1>5. ASSUME UNCHANGED leaseVars
      PROVE  LeaseInv' /\ work' = work /\ jobs' = jobs
    BY <1>5 DEF leaseVars, LeaseInv, LeaseTypeOK, Tokens, Open
\* Only j changes, and it does not become the shown upload, or stop being it.
<1>6. ASSUME object' \in [Job -> Content \cup {"none"}], seen' \in [Job -> SUBSET Content],
             expired' \subseteq Upload, removing' \subseteq Upload, reposted' \subseteq Upload,
             asset' = asset,
             \A k \in Upload \ {j} :
                 /\ jobs'[k] = jobs[k] /\ object'[k] = object[k] /\ seen'[k] = seen[k]
                 /\ k \in removing' <=> k \in removing
                 /\ k \in reposted' <=> k \in reposted,
             jobs'[j].status = "clean" <=> jobs[j].status = "clean",
             UploadPlace(j)'
      PROVE  UploadInv'
    <2>1. \A k \in Upload : UploadPlace(k)'
        BY <1>2, <1>6 DEF UploadPlace, Closed
    <2>2. {k \in Upload : jobs'[k].status = "clean"} = {k \in Upload : jobs[k].status = "clean"}
        BY <1>6
    <2>3. Upload' = Upload
        BY DEF Upload
    <2>4. QED
        BY <1>2, <1>6, <2>1, <2>2, <2>3 DEF UploadInv, UploadsOK, OneIsClean
<1>7. UploadPlace(j)
    BY <1>2
\* A row that changes its status without a file being touched.
<1>8. ASSUME NEW status \in {"initiated", "open", "rejected"},
             jobs' = [jobs EXCEPT ![j].status = status], work' = work, UNCHANGED uploadVars,
             jobs[j].token = 0, jobs[j].status \in {"none", "initiated"},
             status = "open" => "declared" \in seen[j]
      PROVE  /\ LeaseInv' /\ UploadInv'
             /\ work' = work /\ \A k \in Job : k # j => jobs'[k] = jobs[k]
    <2>1. LeaseInv' /\ (\A k \in Job : k # j => jobs'[k] = jobs[k]) /\ jobs'[j].status = status
        BY <1>3, <1>8
    <2>2. UNCHANGED <<object, expired, seen, removing, reposted, asset>>
        BY <1>8 DEF uploadVars
    <2>3. UploadPlace(j)'
        BY <1>7, <1>8, <2>1, <2>2 DEF UploadPlace, Closed
    <2>4. UploadInv'
        BY <1>2, <1>6, <1>8, <2>1, <2>2, <2>3 DEF Upload
    <2>5. QED
        BY <1>8, <2>1, <2>4
<1>9. CASE CreateUpload(j)
    BY <1>8, <1>9 DEF CreateUpload, NoJob
<1>10. CASE RequestScan(j)
    BY <1>4, <1>8, <1>10 DEF RequestScan, StillInitiated
<1>11. CASE RejectMismatch(j) \/ RejectExpired(j)
    BY <1>4, <1>8, <1>11 DEF RejectMismatch, RejectExpired, RejectUpload, StillInitiated
<1>12. CASE PutObject(j)
    <2>1. /\ UNCHANGED <<leaseVars, expired, seen, removing, asset>>
          /\ reposted' = IF seen[j] = {} THEN reposted ELSE reposted \cup {j}
        BY <1>12 DEF PutObject
    <2>2. PICK content \in Content : object' = [object EXCEPT ![j] = content]
        BY <1>12 DEF PutObject
    <2>3. /\ object' \in [Job -> Content \cup {"none"}] /\ object'[j] = content /\ content # "none"
          /\ \A k \in Job : k # j => object'[k] = object[k]
        BY <1>1, <1>2, <2>2 DEF Content
    <2>4. LeaseInv' /\ work' = work /\ jobs' = jobs
        BY <1>5, <2>1
    <2>5. UploadPlace(j)'
        BY <1>7, <2>1, <2>3, <2>4 DEF UploadPlace, Closed
    <2>6. UploadInv'
        BY <1>2, <1>6, <2>1, <2>3, <2>4, <2>5 DEF Upload
    <2>7. QED
        BY <2>4, <2>6
<1>13. CASE ExpireForm(j)
    <2>1. /\ UNCHANGED <<leaseVars, object, seen, removing, reposted, asset>>
          /\ expired' = expired \cup {j}
        BY <1>13 DEF ExpireForm
    <2>2. LeaseInv' /\ work' = work /\ jobs' = jobs
        BY <1>5, <2>1
    <2>3. UploadPlace(j)'
        BY <1>7, <2>1, <2>2 DEF UploadPlace, Closed
    <2>4. UploadInv'
        BY <1>2, <1>6, <2>1, <2>2, <2>3
    <2>5. QED
        BY <2>2, <2>4
<1>14. CASE HeadObject(j)
    <2>1. /\ UNCHANGED <<leaseVars, object, expired, removing, reposted, asset>>
          /\ object[j] # "none" /\ seen' = [seen EXCEPT ![j] = @ \cup {object[j]}]
        BY <1>14 DEF HeadObject
    <2>2. object[j] \in Content /\ seen[j] \cup {object[j]} \in SUBSET Content
        BY <1>1, <1>2, <2>1
    <2>3. /\ seen' \in [Job -> SUBSET Content] /\ seen'[j] = seen[j] \cup {object[j]}
          /\ \A k \in Job : k # j => seen'[k] = seen[k]
        BY <1>1, <1>2, <2>1, <2>2
    <2>4. LeaseInv' /\ work' = work /\ jobs' = jobs
        BY <1>5, <2>1
    <2>5. UploadPlace(j)'
        BY <1>7, <2>1, <2>3, <2>4 DEF UploadPlace, Closed
    <2>6. UploadInv'
        BY <1>2, <1>6, <2>1, <2>3, <2>4, <2>5 DEF Upload
    <2>7. QED
        BY <2>4, <2>6
<1>15. CASE RemoveMismatch(j)
    <2>1. /\ UNCHANGED <<leaseVars, expired, seen, removing, reposted, asset>>
          /\ "other" \in seen[j] /\ object' = [object EXCEPT ![j] = "none"]
        BY <1>15 DEF RemoveMismatch
    <2>2. /\ object' \in [Job -> Content \cup {"none"}] /\ object'[j] = "none"
          /\ \A k \in Job : k # j => object'[k] = object[k]
        BY <1>1, <1>2, <2>1
    <2>3. LeaseInv' /\ work' = work /\ jobs' = jobs
        BY <1>5, <2>1
    <2>4. UploadPlace(j)'
        BY <1>7, <2>1, <2>2, <2>3 DEF UploadPlace, Closed
    <2>5. UploadInv'
        BY <1>2, <1>6, <2>1, <2>2, <2>3, <2>4 DEF Upload
    <2>6. QED
        BY <2>3, <2>5
<1>16. CASE RemoveObject(j)
    <2>1. /\ UNCHANGED <<leaseVars, expired, seen, reposted, asset>>
          /\ j \in removing /\ removing' = removing \ {j}
        BY <1>16 DEF RemoveObject
    <2>2. /\ object' \in [Job -> Content \cup {"none"}] /\ object'[j] \in {object[j], "none"}
          /\ \A k \in Job : k # j => object'[k] = object[k]
        BY <1>1, <1>2, <1>16 DEF RemoveObject
    <2>3. LeaseInv' /\ work' = work /\ jobs' = jobs
        BY <1>5, <2>1
    <2>4. UploadPlace(j)'
        BY <1>7, <2>1, <2>2, <2>3 DEF UploadPlace, Closed
    <2>5. UploadInv'
        BY <1>2, <1>6, <2>1, <2>2, <2>3, <2>4 DEF Upload
    <2>6. QED
        BY <2>3, <2>5
<1>17. QED
    BY <1>9, <1>10, <1>11, <1>12, <1>13, <1>14, <1>15, <1>16 DEF UploadStep

\* The verdicts of the scanner.
LEMMA ScanSteps ==
    ASSUME LeaseInv, UploadInv, NEW w \in Worker, ScanStep(w)
    PROVE  /\ LeaseInv' /\ UploadInv'
           /\ work[w].place = "claimed" /\ work'[w] = Idle
           /\ \A v \in Worker : v # w => work'[v] = work[v]
           /\ \A j \in Job : jobs'[j] = jobs[j] \/ Kind[j] = "scan"
<1> DEFINE upload == work[w].job
<1>1. /\ work[w] # Idle /\ Kind[upload] = "scan" /\ work[w].place = "claimed"
      /\ work' = [work EXCEPT ![w] = Idle]
    BY DEF ScanStep, ScanError, ScanMismatch, ScanInfected, ScanClean, VerdictRefused,
           Discard, Verdict, At
<1>2. upload \in Upload /\ upload \in Job /\ jobs[upload] \in JobRow
    BY <1>1, AtWork DEF Upload
<1>3. work \in [Worker -> WorkRow] /\ jobs \in [Job -> JobRow] /\ Idle \in WorkRow
    BY DEF LeaseInv, LeaseTypeOK, Idle, WorkRow
<1>4. /\ work' \in [Worker -> WorkRow] /\ work'[w] = Idle
      /\ \A v \in Worker : v # w => work'[v] = work[v]
    BY <1>1, <1>3
<1>5. \A v \in Worker :
          \/ work'[v] = Idle
          \/ work[v] # Idle /\ work'[v].job = work[v].job /\ work'[v].token = work[v].token
    BY <1>4
<1>6. \A j \in Job : /\ jobs[j].token # 0 => jobs[j].status = "open"
                     /\ jobs[j].live => jobs[j].token # 0
    BY DEF LeaseInv, Tokens, Open
<1>7. /\ object \in [Job -> Content \cup {"none"}] /\ seen \in [Job -> SUBSET Content]
      /\ expired \subseteq Upload /\ removing \subseteq Upload /\ reposted \subseteq Upload
      /\ asset \in Upload \cup {"none"}
      /\ \A k \in Upload : UploadPlace(k)
      /\ {k \in Upload : jobs[k].status = "clean"} = {asset} \ {"none"}
      /\ "none" \notin Upload
    BY LeaseAssumption DEF UploadInv, UploadsOK, OneIsClean, Upload
<1>8. CASE VerdictRefused(w)
    <2>1. UNCHANGED <<jobs, uploadVars>>
        BY <1>8 DEF VerdictRefused
    <2>2. LeaseInv'
        BY <1>1, <1>3, <2>1, AttemptMoves
    <2>3. UploadInv'
        BY <2>1, UploadsUndisturbed DEF uploadVars
    <2>4. QED
        BY <1>1, <1>4, <2>1, <2>2, <2>3
<1>9. CASE ~VerdictRefused(w)
    <2> DEFINE Settled(row) ==
            /\ row \in JobRow /\ row.attempts = jobs[upload].attempts
            /\ row.token = 0 /\ row.live = FALSE
    <2>1. HoldsLive(w) /\ jobs[upload].status = "open"
        BY <1>9 DEF ScanStep, ScanError, ScanMismatch, ScanInfected, ScanClean, Discard, Verdict,
                    HoldsLive, Open
    <2>2. /\ "declared" \in seen[upload] /\ upload \notin removing
          /\ object[upload] = "none" => "other" \in seen[upload]
          /\ upload \notin reposted => object[upload] = "none" \/ seen[upload] \subseteq {object[upload]}
        BY <1>2, <1>7, <2>1 DEF UploadPlace, Closed
    <2>3. ASSUME NEW status \in {"open", "failed", "rejected", "infected", "clean"}
          PROVE  /\ Outcome(w, status) \in [Job -> JobRow]
                 /\ \A j \in Job : j # upload => Outcome(w, status)[j] = jobs[j]
                 /\ Settled(Outcome(w, status)[upload])
                 /\ Outcome(w, status)[upload].status = status
        <3> DEFINE row == [jobs[upload] EXCEPT !.status = status, !.token = 0, !.live = FALSE]
        <3>1. Settled(row) /\ row.status = status
            BY <1>2 DEF JobRow
        <3>2. Outcome(w, status) = [jobs EXCEPT ![upload] = row]
            BY DEF Outcome
        <3> HIDE DEF row
        <3>3. QED
            BY <1>2, <1>3, <3>1, <3>2
    <2> HIDE DEF upload
    <2>4. ASSUME jobs' \in [Job -> JobRow],
                 \A j \in Job : j # upload =>
                     \/ jobs'[j] = jobs[j]
                     \/ /\ jobs[j].status = "clean" /\ jobs'[j].attempts = jobs[j].attempts
                        /\ jobs'[j].token = jobs[j].token /\ jobs'[j].live = jobs[j].live,
                 Settled(jobs'[upload])
          PROVE  LeaseInv'
        <3>1. ASSUME NEW j \in Job
              PROVE  /\ jobs'[j].attempts = jobs[j].attempts
                     /\ jobs'[j].token \in {0, jobs[j].token}
                     /\ jobs'[j].token # 0 => jobs'[j].status = "open"
                     /\ jobs'[j].live => jobs'[j].token # 0
            <4>1. CASE j = upload
                BY <2>4, <4>1
            <4>2. CASE j # upload
                BY <1>6, <2>4, <4>2
            <4>3. QED
                BY <4>1, <4>2
        <3>2. QED
            BY <1>4, <1>5, <2>4, <3>1, TokensStay
    <2>5. CASE ScanError(w)
        <3>1. AfterFailure(w) \in {"open", "failed", "rejected", "infected", "clean"}
              /\ AfterFailure(w) \notin {"rejected", "infected", "clean"}
            BY DEF AfterFailure
        <3>2. jobs' = Outcome(w, AfterFailure(w)) /\ UNCHANGED <<object, expired, seen, removing, reposted, asset>>
            BY <2>5 DEF ScanError, uploadVars
        <3>3. LeaseInv' /\ \A j \in Job : j # upload => jobs'[j] = jobs[j]
            BY <2>3, <2>4, <3>1, <3>2
        <3>4. jobs'[upload].status \in {"open", "failed"}
            BY <2>3, <3>1, <3>2 DEF AfterFailure
        <3>5. UploadInv'
            <4>1. \A k \in Upload : UploadPlace(k)'
                BY <1>2, <1>7, <2>1, <2>2, <3>2, <3>3, <3>4 DEF UploadPlace, Closed, Upload
            <4>2. QED
                BY <1>2, <1>7, <2>1, <3>2, <3>3, <3>4, <4>1
                    DEF UploadInv, UploadsOK, OneIsClean, Upload
        <3>6. QED
            BY <1>1, <1>4, <3>3, <3>5 DEF upload
    <2>6. CASE ScanMismatch(w) \/ ScanInfected(w)
        <3>1. PICK status \in {"rejected", "infected"} : Discard(w, status)
            BY <2>6 DEF ScanMismatch, ScanInfected
        <3>2. /\ jobs' = Outcome(w, status) /\ removing' = removing \cup {upload}
              /\ UNCHANGED <<object, expired, seen, reposted, asset>>
            BY <3>1 DEF Discard, upload
        <3>3. LeaseInv' /\ \A j \in Job : j # upload => jobs'[j] = jobs[j]
            BY <2>3, <2>4, <3>2
        <3>4. jobs'[upload].status \in {"rejected", "infected"}
            BY <2>3, <3>2
        <3>5. UploadInv'
            <4>1. \A k \in Upload : UploadPlace(k)'
                BY <1>2, <1>7, <2>1, <2>2, <3>2, <3>3, <3>4 DEF UploadPlace, Closed, Upload
            <4>2. QED
                BY <1>2, <1>7, <2>1, <3>2, <3>3, <3>4, <4>1
                    DEF UploadInv, UploadsOK, OneIsClean, Upload
        <3>6. QED
            BY <1>1, <1>4, <3>3, <3>5 DEF upload
    <2>7. CASE ScanClean(w)
        <3> DEFINE clean == Outcome(w, "clean")
                   old == Superseded(upload)
        <3>1. /\ asset' = upload
              /\ jobs' = [j \in Job |-> IF j \in old
                                        THEN [clean[j] EXCEPT !.status = "deleted"] ELSE clean[j]]
              /\ removing' = removing \cup old
              /\ UNCHANGED <<object, expired, seen, reposted>>
            BY <2>7 DEF ScanClean, upload
        <3>2. /\ clean \in [Job -> JobRow] /\ Settled(clean[upload])
              /\ clean[upload].status = "clean"
              /\ \A j \in Job : j # upload => clean[j] = jobs[j]
            BY <2>3
        <3>3. old = {j \in Upload : j # upload /\ jobs[j].status = "clean"} /\ upload \notin old
            BY DEF Superseded
        <3> HIDE DEF clean, old
        <3>4. ASSUME NEW j \in old
              PROVE  /\ j \in Upload /\ j \in Job /\ j # upload /\ jobs[j].status = "clean"
                     /\ jobs'[j] \in JobRow /\ jobs'[j].status = "deleted"
                     /\ jobs'[j].attempts = jobs[j].attempts
                     /\ jobs'[j].token = jobs[j].token /\ jobs'[j].live = jobs[j].live
            <4> DEFINE row == [jobs[j] EXCEPT !.status = "deleted"]
            <4>1. j \in Upload /\ j \in Job /\ j # upload /\ jobs[j].status = "clean"
                BY <3>3 DEF Upload
            <4>2. /\ row \in JobRow /\ row.status = "deleted" /\ row.attempts = jobs[j].attempts
                  /\ row.token = jobs[j].token /\ row.live = jobs[j].live
                BY <1>3, <4>1 DEF JobRow
            <4>3. jobs'[j] = row
                BY <3>1, <3>2, <4>1
            <4> HIDE DEF row
            <4>4. QED
                BY <4>1, <4>2, <4>3
        <3>5. \A j \in Job : j \notin old => jobs'[j] = clean[j]
            BY <3>1
        <3>6. jobs' \in [Job -> JobRow] /\ jobs'[upload] = clean[upload]
            <4>1. \A j \in Job : jobs'[j] \in JobRow
                BY <3>2, <3>4, <3>5
            <4>2. jobs' = [j \in Job |-> jobs'[j]]
                BY <3>1
            <4>3. jobs' \in [Job -> JobRow]
                BY <4>1, <4>2
            <4>4. QED
                BY <1>2, <3>3, <3>5, <4>3
        <3>7. \A j \in Job : j # upload => jobs'[j] = jobs[j] \/ j \in old
            BY <3>2, <3>5
        <3>8. LeaseInv'
            BY <2>4, <3>2, <3>4, <3>6, <3>7
        <3>9. UploadInv'
            <4>1. {j \in Upload : jobs'[j].status = "clean"} = {upload}
                <5>1. ASSUME NEW j \in Upload, jobs'[j].status = "clean", j # upload PROVE FALSE
                    <6>1. j \in Job
                        BY DEF Upload
                    <6>2. j \notin old
                        BY <3>4, <5>1
                    <6>3. QED
                        BY <3>3, <3>7, <5>1, <6>1, <6>2
                <5>2. QED
                    BY <1>2, <3>2, <3>6, <5>1
            <4>2. asset' \in Upload /\ {upload} = {asset'} \ {"none"}
                BY <1>2, <1>7, <3>1
            <4>3. removing' \subseteq Upload /\ upload \notin removing'
                BY <1>7, <2>2, <3>1, <3>3
            <4>4. ASSUME NEW k \in Upload PROVE UploadPlace(k)'
                <5>1. CASE k = upload
                    BY <2>2, <3>1, <3>2, <3>6, <4>3, <5>1 DEF UploadPlace, Closed
                <5>2. CASE k \in old
                    BY <1>7, <3>1, <3>4, <5>2 DEF UploadPlace, Closed
                <5>3. CASE k # upload /\ k \notin old
                    <6>1. jobs'[k] = jobs[k]
                        BY <3>7, <5>3 DEF Upload
                    <6>2. QED
                        BY <1>7, <3>1, <5>3, <6>1 DEF UploadPlace, Closed
                <5>4. QED
                    BY <5>1, <5>2, <5>3
            <4>5. UploadsOK'
                BY <1>7, <3>1, <4>2, <4>3, <4>4 DEF UploadsOK
            <4>6. OneIsClean'
                BY <4>1, <4>2 DEF OneIsClean
            <4>7. QED
                BY <4>5, <4>6 DEF UploadInv
        <3>10. \A j \in Job : jobs'[j] = jobs[j] \/ Kind[j] = "scan"
            BY <1>1, <3>4, <3>7 DEF Upload, upload
        <3>11. QED
            BY <1>1, <1>4, <3>8, <3>9, <3>10
    <2>8. QED
        BY <1>9, <2>5, <2>6, <2>7 DEF ScanStep
<1>10. QED
    BY <1>8, <1>9
-----------------------------------------------------------------------------
\* Every step of a payment, and of the clock.
LEMMA PaymentSteps ==
    ASSUME PaymentsInv,
           \/ \E p \in Payment, item \in Items : Initiate(p, item)
           \/ \E p \in Payment : InitiationDies(p) \/ PaymentStep(p)
           \/ TimePasses
    PROVE  PaymentsInv' /\ PlansHad \subseteq PlansHad'
<1>1. ASSUME NEW p \in Payment,
             \/ \E item \in Items : Initiate(p, item)
             \/ InitiationDies(p) \/ AskCustomer(p) \/ RecordCheckout(p)
             \/ FailInitiation(p) \/ CustomerAnswers(p) \/ CallbackRefused(p)
      PROVE  PaymentsInv' /\ PlansHad \subseteq PlansHad'
    <2>1. bought' = bought
        BY <1>1 DEF Initiate, InitiationDies, AskCustomer, RecordCheckout, FailInitiation,
                    CustomerAnswers, CallbackRefused
    <2>2. PaymentsInv'
        BY <1>1, PaymentMoves
    <2>3. QED
        BY <2>1, <2>2 DEF PlansHad, Periods
<1>2. ASSUME NEW p \in Payment, CallbackPaid(p)
      PROVE  PaymentsInv' /\ PlansHad \subseteq PlansHad'
    <2>1. PICK new : bought' = Append(bought, new)
        BY <1>2 DEF CallbackPaid, BuyChama, BuyPeriod, Buy
    <2>2. bought \in Seq(Purchase) /\ bought' \in Seq(Purchase)
        BY <1>2, ConfirmationBuys DEF PaymentsInv, PaymentsTypeOK
    <2>3. \A n \in DOMAIN bought : n \in DOMAIN bought' /\ bought'[n] = bought[n]
        BY <2>1, <2>2
    <2>4. QED
        BY <1>2, <2>3, ConfirmationBuys DEF PlansHad, Periods
<1>3. CASE TimePasses
    <2>1. UNCHANGED <<subscription, payments, journals, bought>> /\ now' \in Nat
        BY <1>3 DEF TimePasses, PaymentsInv, PaymentsTypeOK
    <2>2. QED
        BY <2>1 DEF PaymentsInv, PaymentsTypeOK, Purchases, PeriodsInOrder, Paid, PlansHad, Periods
<1>4. QED
    BY <1>1, <1>2, <1>3 DEF PaymentStep

\* What has no payment in it leaves the payments as they are.
LEMMA PaymentsUndisturbed ==
    ASSUME PaymentsInv, UNCHANGED paymentsVars
    PROVE  PaymentsInv' /\ PlansHad' = PlansHad
    BY DEF paymentsVars, PaymentsInv, PaymentsTypeOK, Purchases, PeriodsInOrder, Paid, PlansHad,
           Periods

\* One job changes and no attempt.
LEMMA OneJobChanges ==
    ASSUME LeaseInv, NEW j \in Job, NEW row \in JobRow, row.attempts = jobs[j].attempts,
           row.token \in {0, jobs[j].token}, row.token # 0 => row.status = "open",
           row.live => row.token # 0, jobs' = [jobs EXCEPT ![j] = row], UNCHANGED work
    PROVE  LeaseInv' /\ jobs'[j] = row /\ \A k \in Job : k # j => jobs'[k] = jobs[k]
<1>1. jobs \in [Job -> JobRow]
    BY DEF LeaseInv, LeaseTypeOK
<1>2. /\ jobs' \in [Job -> JobRow] /\ jobs'[j] = row
      /\ \A k \in Job : k # j => jobs'[k] = jobs[k]
    BY <1>1
<1>3. QED
    BY <1>2, JobsChange

\* Jobs are asked for, and change without an attempt.
LEMMA JobSteps ==
    ASSUME LeaseInv, DeliveryInv, UNCHANGED bought, NEW j \in Job,
           Enqueue(j) \/ MeetingStarts(j) \/ ReportExpires(j) \/ AttemptExpires(j)
    PROVE  LeaseInv' /\ DeliveryInv' /\ \A k \in Upload : jobs'[k].status = jobs[k].status
<1> DEFINE Row == jobs[j]
<1>1. /\ Row \in JobRow /\ Row.attempts \in Nat
      /\ Row.token \in {0, Row.attempts} /\ (Row.token # 0 => Row.status = "open")
      /\ Row.live => Row.token # 0
    <2>1. Row \in JobRow
        BY DEF LeaseInv, LeaseTypeOK
    <2>2. QED
        BY <2>1 DEF LeaseInv, Tokens, Open, JobRow
<1>2. CASE Enqueue(j)
    <2> DEFINE row == [Row EXCEPT !.status = "open"]
    <2>1. /\ Row.attempts = 0 /\ Row.token = 0 /\ Row.live = FALSE /\ Row.status = "none"
          /\ Kind[j] # "scan" /\ work' = work /\ UNCHANGED deliveryVars
        BY <1>2 DEF Enqueue, NoJob
    <2>2. /\ row \in JobRow /\ row.attempts = Row.attempts /\ row.token = 0 /\ row.live = FALSE
          /\ row.status = "open" /\ jobs' = [jobs EXCEPT ![j] = row]
        BY <1>1, <1>2, <2>1 DEF JobRow, Enqueue
    <2> HIDE DEF row
    <2>3. LeaseInv' /\ jobs'[j] = row /\ \A k \in Job : k # j => jobs'[k] = jobs[k]
        BY <2>1, <2>2, OneJobChanges
    <2>4. Kind[j] = "reminder" => accepted[j] = {} /\ \A w \in Worker : ~Busy(w, j)
        <3>1. \A w \in Worker : ~Busy(w, j)
            BY <2>1, AtWork DEF Busy
        <3>2. Kind[j] = "reminder" => \A t \in accepted[j] : t \in 1..0
            BY <2>1 DEF DeliveryInv, ReminderAttempts
        <3>3. QED
            BY <3>1, <3>2
    <2>5. DeliveryInv'
        BY <2>1, <2>2, <2>3, <2>4, JobsAlone DEF deliveryVars
    <2>6. QED
        BY <2>1, <2>3, <2>5 DEF Upload
<1>3. CASE MeetingStarts(j)
    <2> DEFINE row == [Row EXCEPT !.status = "failed", !.token = 0, !.live = FALSE]
    <2>1. Kind[j] = "meeting" /\ work' = work /\ UNCHANGED deliveryVars
        BY <1>3 DEF MeetingStarts
    <2>2. /\ row \in JobRow /\ row.attempts = Row.attempts /\ row.token = 0 /\ row.live = FALSE
          /\ row.status = "failed" /\ jobs' = [jobs EXCEPT ![j] = row]
        BY <1>1, <1>3 DEF JobRow, MeetingStarts
    <2> HIDE DEF row
    <2>3. LeaseInv' /\ jobs'[j] = row /\ \A k \in Job : k # j => jobs'[k] = jobs[k]
        BY <2>1, <2>2, OneJobChanges
    <2>4. DeliveryInv'
        BY <2>1, <2>2, <2>3, JobsAlone DEF deliveryVars
    <2>5. QED
        BY <2>1, <2>3, <2>4 DEF Upload
<1>4. CASE ReportExpires(j)
    <2> DEFINE row == [Row EXCEPT !.status = "expired"]
    <2>1. Kind[j] = "report" /\ Row.status = "done" /\ work' = work /\ UNCHANGED deliveryVars
        BY <1>4 DEF ReportExpires
    <2>2. Row.token = 0 /\ ~Row.live
        BY <1>1, <2>1
    <2>3. /\ row \in JobRow /\ row.attempts = Row.attempts /\ row.token = 0 /\ ~row.live
          /\ row.status = "expired" /\ jobs' = [jobs EXCEPT ![j] = row]
        BY <1>1, <1>4, <2>2 DEF JobRow, ReportExpires
    <2> HIDE DEF row
    <2>4. LeaseInv' /\ jobs'[j] = row /\ \A k \in Job : k # j => jobs'[k] = jobs[k]
        BY <2>1, <2>3, OneJobChanges
    <2>5. DeliveryInv'
        BY <2>1, <2>3, <2>4, JobsAlone DEF deliveryVars
    <2>6. QED
        BY <2>1, <2>4, <2>5 DEF Upload
<1>5. CASE AttemptExpires(j)
    <2> DEFINE row == [Row EXCEPT !.live = FALSE]
    <2>1. /\ Row.live /\ work' = work
          /\ lost' = [lost EXCEPT ![j] = @ \cup {jobs[j].token}]
          /\ UNCHANGED <<used, message, note, accepted, spent, leaked>>
        BY <1>5 DEF AttemptExpires, LeaseExpires
    <2>2. /\ row \in JobRow /\ row.attempts = Row.attempts /\ row.token = Row.token
          /\ row.live = FALSE /\ row.status = Row.status /\ jobs' = [jobs EXCEPT ![j] = row]
        BY <1>1, <1>5 DEF JobRow, AttemptExpires, LeaseExpires
    <2> HIDE DEF row
    <2>3. LeaseInv' /\ jobs'[j] = row /\ \A k \in Job : k # j => jobs'[k] = jobs[k]
        BY <1>1, <2>1, <2>2, OneJobChanges
    <2>4. Row.status = "open" /\ Row.token \in Nat
        BY <1>1, <2>1
    <2>5. DeliveryInv'
        BY <2>1, <2>2, <2>3, <2>4, JobsAlone DEF Open
    <2>6. QED
        BY <2>2, <2>3, <2>5 DEF Upload
<1>6. QED
    BY <1>2, <1>3, <1>4, <1>5

\* The invariant holds at first.
LEMMA InitInvariant == Init => IInv
    BY NothingBought, NobodyWorks, NothingSent, NothingUploaded DEF Init, IInv

\* Each step, with the parts of the invariant that it can disturb.
LEMMA StepInvariant == IInv /\ [Next]_vars => IInv'
<1> SUFFICES ASSUME IInv, [Next]_vars PROVE IInv'
    OBVIOUS
<1>1. PaymentsInv /\ LeaseInv /\ DeliveryInv /\ UploadInv
    BY DEF IInv
<1>2. ASSUME UNCHANGED <<leaseVars, deliveryVars, uploadVars>>,
             PaymentsInv', PlansHad \subseteq PlansHad'
      PROVE  IInv'
    <2>1. LeaseInv'
        BY <1>1, <1>2 DEF leaseVars, LeaseInv, LeaseTypeOK, Tokens, Open
    <2>2. DeliveryInv'
        BY <1>1, <1>2, DeliveryUndisturbed DEF leaseVars
    <2>3. UploadInv'
        BY <1>1, <1>2, UploadsUndisturbed DEF leaseVars
    <2>4. QED
        BY <1>2, <2>1, <2>2, <2>3 DEF IInv
<1>3. ASSUME UNCHANGED <<paymentsVars, uploadVars>>, LeaseInv', DeliveryInv',
             \A k \in Upload : jobs'[k].status = jobs[k].status
      PROVE  IInv'
    BY <1>1, <1>3, PaymentsUndisturbed, UploadsUndisturbed DEF IInv
<1>4. ASSUME UNCHANGED <<paymentsVars, deliveryVars>>, LeaseInv', UploadInv',
             \A j \in Job : jobs'[j] = jobs[j] \/ Kind[j] = "scan",
             \A w \in Worker : work'[w] = work[w] \/ (work[w].place = "claimed" /\ work'[w] = Idle)
      PROVE  IInv'
    <2>1. PaymentsInv' /\ PlansHad \subseteq PlansHad'
        BY <1>1, <1>4, PaymentsUndisturbed
    <2>2. DeliveryInv'
        BY <1>1, <1>4, <2>1, DeliveryUndisturbed
    <2>3. QED
        BY <1>4, <2>1, <2>2 DEF IInv
<1>5. ASSUME OnPayments(\/ \E p \in Payment, item \in Items : Initiate(p, item)
                        \/ \E p \in Payment : InitiationDies(p) \/ PaymentStep(p)
                        \/ TimePasses)
      PROVE  IInv'
    BY <1>1, <1>2, <1>5, PaymentSteps DEF OnPayments
<1>6. ASSUME NEW w \in Worker, OnDelivery(DeliveryStep(w) \/ DeliveryDies(w))
      PROVE  IInv'
    <2>1. DeliveryStep(w) \/ DeliveryDies(w)
        BY <1>6 DEF OnDelivery
    <2>2. UNCHANGED <<paymentsVars, uploadVars>> /\ UNCHANGED bought
        BY <1>6 DEF OnDelivery, paymentsVars
    <2>3. LeaseInv' /\ DeliveryInv'
        BY <1>1, <2>1, <2>2, DeliverySteps
    <2>4. \A k \in Upload : jobs'[k].status = jobs[k].status
        BY <1>1, <2>1, DeliveryLeavesUploads
    <2>5. QED
        BY <1>3, <2>2, <2>3, <2>4
<1>7. ASSUME NEW j \in Job,
             OnDelivery(Enqueue(j) \/ MeetingStarts(j) \/ ReportExpires(j) \/ AttemptExpires(j))
      PROVE  IInv'
    <2>1. UNCHANGED <<paymentsVars, uploadVars>> /\ UNCHANGED bought
        BY <1>7 DEF OnDelivery, paymentsVars
    <2>2. LeaseInv' /\ DeliveryInv' /\ \A k \in Upload : jobs'[k].status = jobs[k].status
        BY <1>1, <1>7, <2>1, JobSteps DEF OnDelivery
    <2>3. QED
        BY <1>3, <2>1, <2>2
<1>8. ASSUME NEW j \in Upload, OnUploads(CreateUpload(j) \/ UploadStep(j))
      PROVE  IInv'
    <2>1. /\ LeaseInv' /\ UploadInv'
          /\ work' = work /\ \A k \in Job : k # j => jobs'[k] = jobs[k]
        BY <1>1, <1>8, UploadSteps DEF OnUploads
    <2>2. \A k \in Job : jobs'[k] = jobs[k] \/ Kind[k] = "scan"
        BY <2>1 DEF Upload
    <2>3. QED
        BY <1>4, <1>8, <2>1, <2>2 DEF OnUploads
<1>9. ASSUME NEW w \in Worker, OnUploads(ScanStep(w))
      PROVE  IInv'
    <2>1. /\ LeaseInv' /\ UploadInv'
          /\ work[w].place = "claimed" /\ work'[w] = Idle
          /\ \A v \in Worker : v # w => work'[v] = work[v]
          /\ \A j \in Job : jobs'[j] = jobs[j] \/ Kind[j] = "scan"
        BY <1>1, <1>9, ScanSteps DEF OnUploads
    <2>2. \A v \in Worker : work'[v] = work[v] \/ (work[v].place = "claimed" /\ work'[v] = Idle)
        BY <2>1
    <2>3. QED
        BY <1>4, <1>9, <2>1, <2>2 DEF OnUploads
<1>10. ASSUME NEW w \in Worker, NEW j \in Job, OnLeases(Claim(w, j))
       PROVE  IInv'
    <2>1. Claim(w, j) /\ UNCHANGED <<paymentsVars, deliveryVars, uploadVars>> /\ UNCHANGED bought
        BY <1>10 DEF OnLeases, paymentsVars
    <2>2. LeaseInv' /\ DeliveryInv'
        BY <1>1, <2>1, ClaimBegins, ClaimSendsNothing
    <2>3. \A k \in Upload : jobs'[k].status = jobs[k].status
        BY <1>1, <2>1, ClaimBegins DEF Open, Upload
    <2>4. QED
        BY <1>3, <2>1, <2>2, <2>3
<1>11. CASE Begin
    <2>1. CASE OnPayments(\E p \in Payment \cap agenda.begins, item \in Items : Initiate(p, item))
        BY <1>5, <2>1 DEF OnPayments
    <2>2. CASE OnDelivery(\E j \in Job \cap agenda.begins : Enqueue(j))
        BY <1>7, <2>2 DEF OnDelivery
    <2>3. CASE OnUploads(\E j \in Upload \cap agenda.begins : CreateUpload(j))
        BY <1>8, <2>3 DEF OnUploads
    <2>4. QED
        BY <1>11, <2>1, <2>2, <2>3 DEF Begin
<1>12. CASE Fault
    <2>1. CASE OnPayments(\E p \in Payment : InitiationDies(p))
        BY <1>5, <2>1 DEF OnPayments
    <2>2. CASE OnDelivery(\E w \in Worker : DeliveryDies(w))
        BY <1>6, <2>2 DEF OnDelivery
    <2>3. CASE OnDelivery(\E j \in Job : Outlived(j))
        BY <1>7, <2>3 DEF OnDelivery, Outlived
    <2>4. QED
        BY <1>12, <2>1, <2>2, <2>3 DEF Fault
<1>13. CASE Elsewhere
    <2>1. CASE OnPayments(now < agenda.until /\ TimePasses)
        BY <1>5, <2>1 DEF OnPayments
    <2>2. CASE OnPayments(\E p \in Payment : PaymentStep(p))
        BY <1>5, <2>2 DEF OnPayments
    <2>3. CASE OnDelivery(\E j \in Job : MeetingStarts(j) \/ ReportExpires(j))
        BY <1>7, <2>3 DEF OnDelivery
    <2>4. CASE OnUploads(\E j \in Upload : UploadStep(j))
        BY <1>8, <2>4 DEF OnUploads
    <2>5. QED
        BY <1>13, <2>1, <2>2, <2>3, <2>4 DEF Elsewhere
<1>14. CASE Work
    <2>1. PICK w \in Worker : Serve(w)
        BY <1>14 DEF Work
    <2>2. CASE OnDelivery(DeliveryStep(w))
        BY <1>6, <2>2 DEF OnDelivery
    <2>3. CASE OnUploads(ScanStep(w))
        BY <1>9, <2>3
    <2>4. QED
        BY <2>1, <2>2, <2>3 DEF Serve
<1>15. CASE Poll
    BY <1>10, <1>15 DEF Poll, ClaimSome, OnLeases
<1>16. CASE Lapse
    BY <1>7, <1>16 DEF Lapse, Reclaimable, OnDelivery
<1>17. CASE UNCHANGED vars
    <2>1. UNCHANGED <<leaseVars, deliveryVars, uploadVars>> /\ UNCHANGED paymentsVars
        BY <1>17 DEF vars
    <2>2. QED
        BY <1>1, <1>2, <2>1, PaymentsUndisturbed
<1>18. QED
    BY <1>11, <1>12, <1>13, <1>14, <1>15, <1>16, <1>17 DEF Next
-----------------------------------------------------------------------------
\* The invariant of the workers and the services they depend on.
THEOREM Invariance == Spec => []IInv
    BY InitInvariant, StepInvariant, PTL DEF Spec

\* A payment that reads paid was made, is in the ledger and bought one thing, and
\* the periods of a subscription follow each other (processStkCallback of the
\* subscription and the registration service).
THEOREM PaymentsBuyOnce == Spec => []EveryPaymentBuysOnce
<1>1. IInv => EveryPaymentBuysOnce
    <2> SUFFICES ASSUME IInv PROVE EveryPaymentBuysOnce
        OBVIOUS
    <2>1. Purchases /\ PeriodsInOrder
        BY DEF IInv, PaymentsInv
    <2>2. ASSUME NEW p \in Payment
          PROVE  Cardinality({n \in DOMAIN bought : bought[n].payment = p})
                     = IF p \in Paid THEN 1 ELSE 0
        <3>1. CASE p \in Paid
            <4>1. PICK k \in DOMAIN bought : bought[k].payment = p
                BY <2>1, <3>1 DEF Purchases
            <4>2. {n \in DOMAIN bought : bought[n].payment = p} = {k}
                BY <2>1, <4>1 DEF Purchases
            <4>3. QED
                BY <3>1, <4>2, FS_Singleton
        <3>2. CASE p \notin Paid
            <4>1. {n \in DOMAIN bought : bought[n].payment = p} = {}
                BY <2>1, <3>2 DEF Purchases
            <4>2. QED
                BY <3>2, <4>1, FS_EmptySet
        <3>3. QED
            BY <3>1, <3>2
    <2>3. \A n \in Periods :
              /\ bought[n].end - bought[n].start = PeriodOf[bought[n].item]
              /\ \A later \in Periods : later > n => bought[later].start >= bought[n].end
              /\ (\A other \in Periods : other <= n) =>
                    /\ subscription.end = bought[n].end
                    /\ subscription.plan = bought[n].item
        BY <2>1 DEF PeriodsInOrder
    <2>4. journals = Paid /\ \A p \in Paid : payments[p].provider = "paid"
        BY <2>1 DEF Purchases
    <2>5. QED
        BY <2>2, <2>3, <2>4 DEF EveryPaymentBuysOnce
<1>2. QED
    BY <1>1, Invariance, PTL

\* Every slot of the monthly quota is accounted for, and none is used beyond a plan
\* that the Chama had (reserveSmsQuota, releaseSmsQuota and their callers).
THEOREM QuotaIsAccounted == Spec => []QuotaAccounted
<1>1. IInv => QuotaAccounted
    BY DEF IInv, DeliveryInv
<1>2. QED
    BY <1>1, Invariance, PTL

\* A reminder is sent twice only after an attempt that was lost, the message of a
\* meeting never (the dispatchers of reminders and meeting reminders).
THEOREM DuplicatesAreExplained == Spec => []DuplicatesNeedLoss
<1>1. IInv => DuplicatesNeedLoss
    <2> SUFFICES ASSUME IInv, NEW j \in Job
                 PROVE  /\ \A t \in accepted[j] :
                              (\E later \in accepted[j] : later > t) => t \in lost[j]
                        /\ Kind[j] = "meeting" => Cardinality(accepted[j]) <= 1
        BY DEF DuplicatesNeedLoss
    <2>1. /\ DeliveryInv /\ accepted[j] \subseteq Nat
          /\ jobs[j].attempts \in Nat
        BY DEF IInv, DeliveryInv, DeliveryTypeOK, LeaseInv, LeaseTypeOK, JobRow
    <2>2. CASE Kind[j] = "reminder"
        <3>1. ASSUME NEW t \in accepted[j], NEW later \in accepted[j], later > t, t \notin lost[j]
              PROVE  FALSE
            <4>1. t = jobs[j].attempts /\ later \in 1..jobs[j].attempts
                BY <2>1, <2>2, <3>1 DEF DeliveryInv, ReminderAttempts
            <4>2. QED
                BY <2>1, <3>1, <4>1
        <3>2. \A t \in accepted[j] : (\E later \in accepted[j] : later > t) => t \in lost[j]
            BY <3>1
        <3>3. QED
            BY <2>2, <3>2
    <2>3. CASE Kind[j] = "meeting"
        <3>1. \A s, t \in accepted[j] : s = t
            BY <2>1, <2>3 DEF DeliveryInv, MeetingOnce
        <3>2. accepted[j] = {} \/ \E t : accepted[j] = {t}
            BY <3>1
        <3>3. Cardinality(accepted[j]) <= 1
            <4>1. CASE accepted[j] = {}
                BY <4>1, FS_EmptySet
            <4>2. CASE \E t : accepted[j] = {t}
                <5>1. PICK t : accepted[j] = {t}
                    BY <4>2
                <5>2. Cardinality({t}) = 1
                    BY FS_Singleton
                <5>3. QED
                    BY <5>1, <5>2
            <4>3. QED
                BY <3>2, <4>1, <4>2
        <3>4. \A t, later \in accepted[j] : ~(later > t)
            BY <2>1, <3>1
        <3>5. QED
            BY <3>3, <3>4
    <2>4. CASE Kind[j] \notin {"reminder", "meeting"}
        <3>1. accepted[j] = {}
            BY <2>1, <2>4 DEF DeliveryInv, Messages
        <3>2. QED
            BY <2>4, <3>1
    <2>5. QED
        BY <2>2, <2>3, <2>4
<1>2. QED
    BY <1>1, Invariance, PTL

\* A reminder that reads sent was taken by the provider in its last attempt, and a
\* meeting that reads announced has its notification.
THEOREM SentMeansTaken == Spec => []SentIsTrue
<1>1. IInv => SentIsTrue
    BY DEF IInv, DeliveryInv
<1>2. QED
    BY <1>1, Invariance, PTL

\* The asset that is shown is the one clean upload; its file is deleted only by a
\* completion that found a mismatch, and another one only if it was posted again
\* (completeUpload, recordScanResult).
THEOREM ShownAssetIsClean == Spec => []AssetIsClean
<1>1. IInv => AssetIsClean
    <2> SUFFICES ASSUME IInv PROVE AssetIsClean
        OBVIOUS
    <2>1. ASSUME NEW j \in Upload, jobs[j].status = "clean"
          PROVE  /\ j \notin removing
                 /\ object[j] = "none" => "other" \in seen[j]
                 /\ object[j] = "other" => j \in reposted
        <3>1. UploadPlace(j) /\ ~Closed(j)
            BY <2>1 DEF IInv, UploadInv, UploadsOK, Closed
        <3>2. QED
            BY <2>1, <3>1 DEF UploadPlace
    <2>2. QED
        BY <2>1 DEF IInv, UploadInv, OneIsClean, AssetIsClean
<1>2. QED
    BY <1>1, Invariance, PTL
=============================================================================
