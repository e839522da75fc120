---------------------------- MODULE MerryGoRound ----------------------------
(***************************************************************************)
(* One merry-go-round cycle of a Chama: the queue of turns, swap requests, *)
(* M-Pesa B2C payouts with retried attempts, and their callbacks           *)
(* (src/services/mgr.service.ts).                                          *)
(*                                                                         *)
(* Each withDatabaseTransaction is one action: they are SERIALIZABLE and   *)
(* lock the cycle row.  disburse is several, because the provider is       *)
(* called between two transactions.  The provider is external: it decides  *)
(* once what becomes of a payout it accepted, and may report that outcome, *)
(* or a timeout, any number of times and at any later moment.              *)
(*                                                                         *)
(* A request that the code refuses (a wrong role, a missing phone number,  *)
(* an expired subscription) changes nothing and is not an action.          *)
(***************************************************************************)
EXTENDS TreasuryLedger, Sequences

CONSTANTS
    Group,           \* the Chama
    Member,
    PayoutAmount,    \* merry_go_round_cycles.payout_amount
    Income,          \* bound: other deposits into the treasury, of one payout each
    MaxAttempts,     \* bound: provider attempts in the cycle
    MaxInactive      \* bound: members not active at the same time

ASSUME GroupAssumption  == Group \in Chama /\ PayoutAmount \in Amount
ASSUME MemberAssumption == IsFiniteSet(Member) /\ Cardinality(Member) >= 2

VARIABLES
    active,          \* memberships that are active
    cycle,           \* merry_go_round_cycles: status and current_position
    turn,            \* merry_go_round_payouts, by member
    swaps,           \* pending merry_go_round_swap_requests
    attempt          \* merry_go_round_disbursement_attempts, in order of creation

mgrVars == <<pooled, journals, active, cycle, turn, swaps, attempt>>

Position == 1..Cardinality(Member)
NoTurns == [m \in {} |-> 0]

\* `run` is where the disburse request that created the attempt stands, and
\* `provider` what M-Pesa did with the payout.
NewAttempt(m) ==
    [member |-> m, status |-> "pending", referenced |-> FALSE,
     run |-> "dispatch", provider |-> "none"]

MgrInit ==
    /\ LedgerInit
    /\ active = Member
    /\ cycle = [status |-> "none", current |-> 1]
    /\ turn = NoTurns
    /\ swaps = {}
    /\ attempt = <<>>

ReceiptReference(n) == <<"mgr-payout", n>>
PayoutInstruction(n) == Payout(ReceiptReference(n), Group, PayoutAmount, "KES")

\* What is posted here: a payout for each attempt, and other deposits.
Postings ==
    {PayoutInstruction(n) : n \in 1..MaxAttempts}
        \cup {Deposit(<<"mpesa:stk", i>>, Group, PayoutAmount, "KES") : i \in Income}

ASSUME PostingAssumption == MaxAttempts \in Nat /\ Postings \subseteq Workload

SetTurn(m, status) == turn' = [turn EXCEPT ![m].status = status]

-----------------------------------------------------------------------------
\* Contributions fill the treasury.
Receive(i) ==
    /\ Post(Deposit(<<"mpesa:stk", i>>, Group, PayoutAmount, "KES"))
    /\ UNCHANGED <<active, cycle, turn, swaps, attempt>>

\* updateMember sets any status, so a membership can end and become active
\* again; defaults, polls and commitments are other ways to the same changes.
ChangeMembership(m) ==
    /\ active' = IF m \in active THEN active \ {m} ELSE active \cup {m}
    /\ Cardinality(Member \ active') <= MaxInactive
    /\ UNCHANGED <<pooled, journals, cycle, turn, swaps, attempt>>

\* The queue is a permutation of the members active now, shuffled or given.
CreateCycle ==
    /\ cycle.status = "none"
    /\ Cardinality(active) >= 2
    /\ cycle' = [cycle EXCEPT !.status = "active"]
    /\ \E order \in Bijection(active, 1..Cardinality(active)) :
          turn' = [m \in active |-> [position |-> order[m], status |-> "scheduled"]]
    /\ UNCHANGED <<pooled, journals, active, swaps, attempt>>

Swappable(m) == turn[m].status = "scheduled" /\ turn[m].position >= cycle.current

RequestSwap(requester, target) ==
    /\ cycle.status = "active"
    /\ requester # target
    /\ {requester, target} \subseteq active \cap DOMAIN turn
    /\ Swappable(requester) /\ Swappable(target)
    /\ \A s \in swaps : {requester, target} \cap {s.requester, s.target} = {}
    /\ swaps' = swaps \cup {[requester |-> requester, target |-> target]}
    /\ UNCHANGED <<pooled, journals, active, cycle, turn, attempt>>

\* The requester cancels, or the target rejects.
DropSwap(s) ==
    /\ s.requester \in active \/ s.target \in active
    /\ swaps' = swaps \ {s}
    /\ UNCHANGED <<pooled, journals, active, cycle, turn, attempt>>

\* swapPayoutPositions: the scheduled dates stay with the positions.
AcceptSwap(s) ==
    /\ cycle.status = "active"
    /\ s.target \in active
    /\ Swappable(s.requester) /\ Swappable(s.target)
    /\ turn' = [turn EXCEPT ![s.requester].position = turn[s.target].position,
                            ![s.target].position = turn[s.requester].position]
    /\ swaps' = swaps \ {s}
    /\ UNCHANGED <<pooled, journals, active, cycle, attempt>>

-----------------------------------------------------------------------------
Attempts(m) == {n \in DOMAIN attempt : attempt[n].member = m}
InFlight(n) == attempt[n].status = "dispatched"
Unresolved(n) == attempt[n].status \in {"pending", "dispatched", "timed_out"}

Disburse(m) ==
    /\ Len(attempt) < MaxAttempts
    /\ cycle.status = "active"
    /\ m \in active \cap DOMAIN turn
    /\ turn[m].position = cycle.current
    /\ turn[m].status = "scheduled"
    /\ \A n \in Attempts(m) : ~Unresolved(n)
    /\ pooled[Group] >= PayoutAmount
    /\ attempt' = Append(attempt, NewAttempt(m))
    /\ SetTurn(m, "disbursement_pending")
    /\ UNCHANGED <<pooled, journals, active, cycle, swaps>>

\* dispatchB2CPayout outside any transaction.  An error does not say whether
\* the provider took the request.
Dispatch(n) ==
    /\ attempt[n].run = "dispatch"
    /\ \/ \E next \in {"record", "fail"} :
            attempt' = [attempt EXCEPT ![n].run = next, ![n].provider = "accepted"]
       \/ attempt' = [attempt EXCEPT ![n].run = "fail"]
    /\ UNCHANGED <<pooled, journals, active, cycle, turn, swaps>>

\* The second transaction stores the ConversationID.  It may fail, or commit
\* without the request learning of it.
RecordDispatch(n) ==
    /\ attempt[n].run = "record"
    /\ \/ /\ attempt[n].status = "pending"
          /\ \E next \in {"idle", "fail"} :
                attempt' = [attempt EXCEPT ![n].run = next, ![n].status = "dispatched",
                                           ![n].referenced = TRUE]
       \/ attempt' = [attempt EXCEPT ![n].run = "fail"]
    /\ UNCHANGED <<pooled, journals, active, cycle, turn, swaps>>

RescheduleAlways(m, from) == SetTurn(m, "scheduled")

\* `UPDATE merry_go_round_payouts ... AND status IN (...)`
Reschedule(m, from) == IF turn[m].status \in from THEN SetTurn(m, "scheduled") ELSE UNCHANGED turn

\* The catch block leaves an attempt alone once its ConversationID is stored.
FailDispatch(n) ==
    /\ attempt[n].run = "fail"
    /\ \/ /\ attempt[n].referenced
          /\ attempt' = [attempt EXCEPT ![n].run = "idle"]
          /\ UNCHANGED turn
       \/ /\ ~attempt[n].referenced
          /\ attempt' = [attempt EXCEPT ![n].run = "idle", ![n].status = "failed"]
          /\ Reschedule(attempt[n].member, {"disbursement_pending"})
    /\ UNCHANGED <<pooled, journals, active, cycle, swaps>>

\* The process dies with the request in flight.
Crash(n) ==
    /\ attempt[n].run # "idle"
    /\ attempt' = [attempt EXCEPT ![n].run = "idle"]
    /\ UNCHANGED <<pooled, journals, active, cycle, turn, swaps>>

ProviderDecides(n) ==
    /\ attempt[n].provider = "accepted"
    /\ \E outcome \in {"paid", "refused"} :
          attempt' = [attempt EXCEPT ![n].provider = outcome]
    /\ UNCHANGED <<pooled, journals, active, cycle, turn, swaps>>

-----------------------------------------------------------------------------
\* A definitive failure; a repeated one is ignored only while the turn waits.
ResultFailure(n) ==
    LET m == attempt[n].member
    IN  /\ attempt[n].provider = "refused"
        /\ attempt[n].referenced
        /\ ~(attempt[n].status = "failed" /\ turn[m].status = "scheduled")
        /\ attempt' = [attempt EXCEPT ![n].status = "failed"]
        /\ Reschedule(m, {"disbursement_pending", "disputed"})
        /\ UNCHANGED <<pooled, journals, active, cycle, swaps>>

Advance ==
    cycle' = IF cycle.current >= Cardinality(DOMAIN turn)
             THEN [cycle EXCEPT !.status = "completed"]
             ELSE [cycle EXCEPT !.current = @ + 1]

AnyTurn(m) == m \in DOMAIN turn
CurrentTurn(m) == turn[m].position = cycle.current

ReportsAcceptance(n) == attempt[n].provider # "none"
ReportsPayment(n) == attempt[n].provider = "paid"

\* The posting, the turn and the cycle change together or, when the turn is no
\* longer the current one, not at all.
ResultSuccess(n) ==
    LET m == attempt[n].member
    IN  /\ ReportsPayment(n)
        /\ attempt[n].referenced
        /\ ~(attempt[n].status = "confirmed" /\ turn[m].status = "paid")
        /\ ExecuteWithinTransaction(PayoutInstruction(n))
        /\ attempt' = [attempt EXCEPT ![n].status = "confirmed"]
        /\ SetTurn(m, "paid")
        /\ CurrentTurn(m)
        /\ Advance
        /\ UNCHANGED <<active, swaps>>

Timeout(n) ==
    LET m == attempt[n].member
    IN  /\ attempt[n].provider # "none"
        /\ attempt[n].referenced
        /\ attempt[n].status # "confirmed" /\ turn[m].status # "paid"
        /\ attempt' = [attempt EXCEPT ![n].status =
                          IF @ \in {"pending", "dispatched"} THEN "timed_out" ELSE @]
        /\ IF turn[m].status = "disbursement_pending"
           THEN SetTurn(m, "disputed") ELSE UNCHANGED turn
        /\ UNCHANGED <<pooled, journals, active, cycle, swaps>>

-----------------------------------------------------------------------------
Queue ==
    \/ \E i \in Income : Receive(i)
    \/ \E m \in Member : ChangeMembership(m)
    \/ CreateCycle
    \/ \E m, o \in Member : RequestSwap(m, o)
    \/ \E s \in swaps : DropSwap(s) \/ AcceptSwap(s)
    \/ \E m \in Member : Disburse(m)

Payment(n) ==
    \/ Dispatch(n) \/ RecordDispatch(n) \/ FailDispatch(n) \/ Crash(n)
    \/ ProviderDecides(n)
    \/ ResultFailure(n) \/ ResultSuccess(n) \/ Timeout(n)

MgrNext == Queue \/ \E n \in DOMAIN attempt : Payment(n)

MgrSpec == MgrInit /\ [][MgrNext]_mgrVars

-----------------------------------------------------------------------------
\* Turns are paid in the order of the queue: the paid ones are exactly those
\* before current_position, all of them once the cycle is completed, and every
\* position is held by one turn, whatever was swapped on the way
\* (processB2CResult, decideSwap).
PaidInRotationOrder ==
    /\ \A m, o \in DOMAIN turn : m # o => turn[m].position # turn[o].position
    /\ \A m \in DOMAIN turn :
         turn[m].status = "paid" <=>
            cycle.status = "completed" \/ turn[m].position < cycle.current

Journalled(n) == ReceiptReference(n) \in DOMAIN journals

\* The treasury is charged for a turn once, when the turn is paid, and for a
\* payout M-Pesa really made, over any retries, timeouts and repeated callbacks.
OnePostingPerTurn ==
    /\ \A n \in DOMAIN attempt :
         Journalled(n) => attempt[n].status = "confirmed" /\ attempt[n].provider = "paid"
    /\ \A m \in DOMAIN turn :
         Cardinality({n \in Attempts(m) : Journalled(n)})
            = IF turn[m].status = "paid" THEN 1 ELSE 0

\* M-Pesa took the payout and has not refused it.
MayPay(n) == attempt[n].provider \in {"accepted", "paid"}

\* Marked failed by the catch block, without a ConversationID.
GivenUp(n) == attempt[n].status = "failed" /\ ~attempt[n].referenced

\* Of the attempts for a turn that the program waits for, or that M-Pesa took and
\* did not refuse, there is one at most, even after a late callback rescheduled the
\* turn; except for those that the catch block gave up, which M-Pesa may pay beside
\* it (disburse, processB2CResult).
OneOpenAttempt ==
    \A m \in DOMAIN turn :
        Cardinality({n \in Attempts(m) : Unresolved(n) \/ (MayPay(n) /\ ~GivenUp(n))}) <= 1

\* A turn that was paid stays paid at its position, whatever arrives afterwards;
\* the cycle never goes back, and once completed it stays so.
PaidTurnsAreFixed ==
    [][/\ \A m \in DOMAIN turn : turn[m].status = "paid" => turn'[m] = turn[m]
       /\ cycle'.current >= cycle.current
       /\ cycle.status = "completed" => cycle' = cycle]_mgrVars

\* What README.md promises of a timeout: "A later successful result can still
\* settle that timed-out attempt", so its turn is still the current one.
TimedOutAttemptCanSettle ==
    \A n \in DOMAIN attempt :
        attempt[n].status = "timed_out" => CurrentTurn(attempt[n].member)
=============================================================================
