------------------------------ MODULE Delivery ------------------------------
(***************************************************************************)
(* What the workers send and produce: payment reminders and the messages   *)
(* of meeting reminders by SMS, within the monthly quota of the plan the   *)
(* Chama pays for, and report exports.  A slot of the quota is reserved    *)
(* before the provider is called and given back when the call fails; no    *)
(* transaction is held during the call.                                    *)
(*                                                                         *)
(* A reminder goes to one recipient.  A meeting has one recipient here,    *)
(* whose message is a row of notifications with the meeting as dedupe key. *)
(***************************************************************************)
EXTENDS PlatformPayments, WorkerLease

CONSTANTS
    QuotaOf,        \* sms_quota_monthly of each plan; Unlimited is NULL
    Unlimited,
    MonthLength     \* the length of a calendar month on the clock

ASSUME DeliveryAssumption ==
    /\ QuotaOf \in [Plans \cup {"free"} -> Nat \cup {Unlimited}]
    /\ Unlimited \notin Nat
    /\ MonthLength \in Nat \ {0}

VARIABLES
    used,       \* subscription_sms_usage of the Chama, by month
    message,    \* what each worker knows of the SMS it sends
    note,       \* notifications, by the meeting they announce
    accepted,   \* history: the attempts of a job whose SMS the provider took
    lost,       \* history: attempts that died, outlived a lease or went unrecorded
    spent, leaked  \* history: slots of the month used for good, and lost

deliveryVars == <<used, message, note, accepted, lost, spent, leaked>>

MonthOf(time) == time \div MonthLength + 1
Months == 1..MonthOf(MaxTime)

\* `slot` is the month a reservation was made in, 0 if none is held.
NoMessage == [slot |-> 0, taken |-> FALSE]

DeliveryInit ==
    /\ used = [m \in Months |-> 0]
    /\ message = [w \in Worker |-> NoMessage]
    /\ note = [j \in Job |-> "none"]
    /\ accepted = [j \in Job |-> {}]
    /\ lost = [j \in Job |-> {}]
    /\ spent = [m \in Months |-> 0]
    /\ leaked = [m \in Months |-> 0]

-----------------------------------------------------------------------------
\* Reservation and release of a slot.

Quota == QuotaOf[subscription.plan]

SlotLeft(month) == Quota # Unlimited => used[month] < Quota

\* A plan without a limit needs no reservation.
Reserve(w) ==
    LET month == MonthOf(now) IN
    \/ /\ Quota = Unlimited
       /\ UNCHANGED <<used, message>>
    \/ /\ Quota # Unlimited
       /\ used' = [used EXCEPT ![month] = @ + 1]
       /\ message' = [message EXCEPT ![w].slot = month]

ReleasableAlways(w) == message[w].slot # 0

\* Only what the provider has not taken is given back.
Releasable(w) == message[w].slot # 0 /\ ~message[w].taken

Forget(w) == message' = [message EXCEPT ![w] = NoMessage]

-----------------------------------------------------------------------------
\* An attempt ends; what it knew of its message is gone.
EndAttempt(w, status) ==
    /\ Settle(w, status)
    /\ Forget(w)
    /\ UNCHANGED <<used, note, accepted, spent, leaked>>

\* The catch block of a dispatcher.
Fails(w) == EndAttempt(w, AfterFailure(w))

\* A reminder claimed beyond the maximum is given up.
GiveUp(w) ==
    /\ At(w, "reminder", "claimed")
    /\ work[w].token > MaxAttempts
    /\ EndAttempt(w, "failed")
    /\ UNCHANGED lost

\* Paid meanwhile, past its deadline, or without an address.
NobodyToRemind(w) ==
    /\ At(w, "reminder", "claimed")
    /\ work[w].token <= MaxAttempts
    /\ EndAttempt(w, "cancelled")
    /\ UNCHANGED lost

\* Reading the recipients, or inserting their notifications, fails.
LookupFails(w) ==
    /\ \/ At(w, "reminder", "claimed") /\ work[w].token <= MaxAttempts
       \/ At(w, "meeting", "claimed")
    /\ Fails(w)
    /\ UNCHANGED lost

\* The notification is inserted unless an earlier attempt did it; only the
\* attempt that inserted it delivers it.
InsertNote(w, meeting) ==
    \/ note' = [note EXCEPT ![meeting] = "pending"] /\ Goto(w, "deliver")
    \/ note' = [note EXCEPT ![meeting] = "cancelled"] /\ Goto(w, "mark")

OpenNote(w) ==
    LET meeting == work[w].job IN
    /\ At(w, "meeting", "claimed")
    /\ \/ note[meeting] = "none" /\ InsertNote(w, meeting)
       \/ note[meeting] # "none" /\ Goto(w, "mark") /\ UNCHANGED note
    /\ UNCHANGED <<jobs, used, message, accepted, lost, spent, leaked>>

ReadyToSend(w) ==
    \/ At(w, "reminder", "claimed") /\ work[w].token <= MaxAttempts
    \/ At(w, "meeting", "deliver")

ReserveSlot(w) ==
    /\ ReadyToSend(w)
    /\ SlotLeft(MonthOf(now))
    /\ Reserve(w)
    /\ Goto(w, "sending")
    /\ UNCHANGED <<jobs, note, accepted, lost, spent, leaked>>

QuotaExhausted(w) ==
    /\ ReadyToSend(w)
    /\ ~SlotLeft(MonthOf(now))
    /\ \/ /\ Kind[work[w].job] = "reminder"
          /\ EndAttempt(w, "cancelled")
       \/ /\ Kind[work[w].job] = "meeting"
          /\ note' = [note EXCEPT ![work[w].job] = "cancelled"]
          /\ Goto(w, "mark")
          /\ UNCHANGED <<jobs, used, message, accepted, spent, leaked>>
    /\ UNCHANGED lost

\* The reservation throws, after its retries; a reminder is LookupFails then.
ReserveFails(w) ==
    /\ At(w, "meeting", "deliver")
    /\ Goto(w, "failing")
    /\ UNCHANGED <<jobs, deliveryVars>>

\* The provider takes the message, refuses it, or takes it and cannot be heard.
Took(w) == accepted' = [accepted EXCEPT ![work[w].job] = @ \cup {work[w].token}]
Lose(w) == lost' = [lost EXCEPT ![work[w].job] = @ \cup {work[w].token}]

Send(w) ==
    LET month == message[w].slot IN
    /\ work[w].place = "sending"
    /\ \/ /\ Took(w)
          /\ message' = [message EXCEPT ![w].taken = TRUE]
          /\ spent' = IF month = 0 THEN spent ELSE [spent EXCEPT ![month] = @ + 1]
          /\ Goto(w, "sent")
          /\ UNCHANGED lost
       \/ /\ Took(w) /\ Lose(w)
          /\ Goto(w, "failing")
          /\ UNCHANGED <<message, spent>>
       \/ /\ Goto(w, "failing")
          /\ UNCHANGED <<message, spent, accepted, lost>>
    /\ UNCHANGED <<jobs, used, note, leaked>>

\* The catch block gives the slot back; a failure to do so is ignored.
Release(w) ==
    LET month == message[w].slot IN
    /\ work[w].place = "failing"
    /\ \/ /\ Releasable(w)
          /\ \/ /\ used' = [used EXCEPT ![month] = IF @ = 0 THEN 0 ELSE @ - 1]
                /\ UNCHANGED leaked
             \/ /\ leaked' = [leaked EXCEPT ![month] = @ + 1]
                /\ UNCHANGED used
       \/ /\ ~Releasable(w)
          /\ UNCHANGED <<used, leaked>>
    /\ Forget(w)
    /\ Goto(w, "failed")
    /\ UNCHANGED <<jobs, note, accepted, lost, spent>>

RetryReminder(w) ==
    /\ At(w, "reminder", "failed")
    /\ Fails(w)
    /\ UNCHANGED lost

\* The message is marked failed for good; the reminder of the meeting goes on.
FailNote(w) ==
    /\ At(w, "meeting", "failed")
    /\ note' = [note EXCEPT ![work[w].job] = "failed"]
    /\ Goto(w, "mark")
    /\ UNCHANGED <<jobs, used, message, accepted, lost, spent, leaked>>

\* Marked sent under the token; if that fails, the catch block asks for another
\* attempt although the provider took the message.
MarkSent(w) ==
    /\ At(w, "reminder", "sent")
    /\ \/ /\ EndAttempt(w, "done")
          /\ IF Holds(w) THEN UNCHANGED lost ELSE Lose(w)
       \/ /\ Goto(w, "failing")
          /\ Lose(w)
          /\ UNCHANGED <<jobs, used, message, note, accepted, spent, leaked>>

\* The notification is marked without a token.
FinishNote(w) ==
    /\ At(w, "meeting", "sent")
    /\ note' = [note EXCEPT ![work[w].job] = "sent"]
    /\ Goto(w, "mark")
    /\ Forget(w)
    /\ UNCHANGED <<jobs, used, accepted, lost, spent, leaked>>

\* The answer of finish is not awaited inside the try: what it throws reaches the
\* dispatcher, and the notification stays pending.
FinishNoteFails(w) ==
    /\ \/ At(w, "meeting", "sent") \/ At(w, "meeting", "failed")
       \/ At(w, "meeting", "deliver") /\ ~SlotLeft(MonthOf(now))
    /\ Fails(w)
    /\ Lose(w)

MarkDispatched(w) ==
    /\ At(w, "meeting", "mark")
    /\ EndAttempt(w, "done") \/ Fails(w)
    /\ UNCHANGED lost

\* A meeting that has started is no longer announced, whoever holds it.
MeetingStarts(j) ==
    /\ Kind[j] = "meeting" /\ Open(j)
    /\ jobs' = [jobs EXCEPT ![j].status = "failed", ![j].token = 0, ![j].live = FALSE]
    /\ UNCHANGED <<work, deliveryVars>>

\* Reports are captured in one read-only transaction and stored under the token.
StoreReport(w) ==
    /\ At(w, "report", "claimed")
    /\ EndAttempt(w, "done")
    /\ UNCHANGED lost

ReportFails(w) ==
    /\ At(w, "report", "claimed")
    /\ Fails(w)
    /\ UNCHANGED lost

ReportExpires(j) ==
    /\ Kind[j] = "report" /\ jobs[j].status = "done"
    /\ jobs' = [jobs EXCEPT ![j].status = "expired"]
    /\ UNCHANGED <<work, deliveryVars>>

\* enqueueReminders, createMeeting, the exports of ReportService
Enqueue(j) ==
    /\ Kind[j] \in {"reminder", "meeting", "report"}
    /\ jobs[j] = NoJob
    /\ jobs' = [jobs EXCEPT ![j].status = "open"]
    /\ UNCHANGED <<work, deliveryVars>>

\* An attempt that is still running may have its job taken away.
AttemptExpires(j) ==
    /\ LeaseExpires(j)
    /\ lost' = [lost EXCEPT ![j] = @ \cup {jobs[j].token}]
    /\ UNCHANGED <<used, message, note, accepted, spent, leaked>>

DeliveryDies(w) ==
    LET month == message[w].slot IN
    /\ Dies(w)
    /\ Forget(w)
    /\ leaked' = IF Releasable(w) THEN [leaked EXCEPT ![month] = @ + 1] ELSE leaked
    /\ Lose(w)
    /\ UNCHANGED <<used, note, accepted, spent>>

DeliveryStep(w) ==
    \/ GiveUp(w) \/ NobodyToRemind(w) \/ LookupFails(w) \/ OpenNote(w)
    \/ ReserveSlot(w) \/ QuotaExhausted(w) \/ ReserveFails(w) \/ Send(w) \/ Release(w)
    \/ RetryReminder(w) \/ FailNote(w) \/ MarkSent(w)
    \/ FinishNote(w) \/ FinishNoteFails(w) \/ MarkDispatched(w)
    \/ StoreReport(w) \/ ReportFails(w)
-----------------------------------------------------------------------------
InFlight(month) == {w \in Worker : message[w].slot = month /\ ~message[w].taken}

PlansHad == {"free"} \cup {bought[n].item : n \in Periods}

\* Every slot of a month that reads used is held for a message under way, was
\* spent on one the provider took, or was lost with a process or a release; none
\* is given back twice or into another month, and no more are used than a plan
\* the Chama had allows.
QuotaAccounted ==
    \A m \in Months :
        /\ used[m] = Cardinality(InFlight(m)) + spent[m] + leaked[m]
        /\ used[m] > 0 =>
              \E plan \in PlansHad :
                  QuotaOf[plan] # Unlimited /\ used[m] <= QuotaOf[plan]

\* The provider takes a reminder a second time only after an attempt that took
\* it died, outlived its lease or could not be recorded; a recipient of a
\* meeting reminder is never sent it twice.
DuplicatesNeedLoss ==
    \A j \in Job :
        /\ \A t \in accepted[j] : (\E later \in accepted[j] : later > t) => t \in lost[j]
        /\ Kind[j] = "meeting" => Cardinality(accepted[j]) <= 1

\* What reads sent was taken by the provider in the attempt that says so, which
\* is the last one; a meeting that reads announced has its notification.
SentIsTrue ==
    \A j \in Job :
        jobs[j].status = "done" =>
            /\ Kind[j] = "reminder" => jobs[j].attempts \in accepted[j]
            /\ Kind[j] = "meeting" => note[j] # "none"
=============================================================================
