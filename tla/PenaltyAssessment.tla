------------------------- MODULE PenaltyAssessment -------------------------
(***************************************************************************)
(* The assessment of a member's contributions after their deadlines        *)
(* (src/jobs/penalties.ts, financial-scan.ts), the provider reconciliation *)
(* it waits for (src/services/ledger.service.ts) and its escalation to the *)
(* commitment deposit and the membership.                                  *)
(*                                                                         *)
(* assessContribution is a READ COMMITTED transaction that holds the row   *)
(* lock of the contribution: it reads (AssessRead), and what it writes     *)
(* becomes visible later, all together (AssessCommit).  Other workers and  *)
(* callbacks run in between.  processStkCallback is SERIALIZABLE; its      *)
(* paid_at is the time at which it began, not the one of the payment.      *)
(*                                                                         *)
(* A contribution is settled by one payment: partial payments are a matter *)
(* of ContributionPayment.  A penalty row and its journal are written in   *)
(* AssessCommit exactly for a miss under a late fee, so `missed` stands    *)
(* for them.                                                               *)
(***************************************************************************)
EXTENDS CommitmentDeposit

CONSTANTS
    Last,        \* contributions of the member, 1..Last in order of due date
    Worker,      \* worker processes
    MaxTime,     \* bound: the clock
    Threshold    \* chama_rules.default_after_consecutive_misses

ASSUME DeadlineAssumption == Last \in Nat \ {0} /\ MaxTime \in Nat /\ MaxTime >= Last
ASSUME ThresholdAssumption == Threshold \in Nat \ {0}

Contribution == 1..Last

\* A contribution may be paid from the due date, WindowStart, up to the end of
\* its grace period, Deadline.
WindowStart(c) == c - 1
Deadline(c) == c
Never == MaxTime + 1
Time == 0..MaxTime

VARIABLES
    now,
    settled,     \* when M-Pesa took the money of the contribution
    callback,    \* when the callback transaction under way for it began
    paid,        \* contribution_payments.paid_at, which is also the journal's created_at
    covered,     \* contributions whose window a clean run of the gate's provider covers
    assessed,    \* penalty_checked_at, missed_at and consecutive_miss_count
    job          \* the assessment each worker has under way

timelineVars == <<now, settled, callback, paid, covered, assessed, job>>
penaltyVars == <<depositVars, timelineVars>>

Unassessed == [done |-> FALSE, missed |-> FALSE, count |-> 0]
NoJob == [contribution |-> 0, missed |-> FALSE, count |-> 0]

\* A member who joined with a deposit paid by attempt n.
PenaltyInit ==
    /\ \E n \in Attempt :
         /\ deposit = [state |-> "held", receipt |-> n, source |-> "provider_confirmation"]
         /\ custody = {<<"commitment_hold", n>>}
         /\ attempt = [o \in Attempt |->
              IF o = n THEN [NoAttempt EXCEPT !.status = "confirmed", !.referenced = TRUE,
                                              !.provider = "paid"]
              ELSE NoAttempt]
    /\ membership = "active"
    /\ application = "approved"
    /\ now = 0
    /\ settled = [c \in Contribution |-> Never]
    /\ callback = settled
    /\ paid = settled
    /\ covered = {}
    /\ assessed = [c \in Contribution |-> Unassessed]
    /\ job = [w \in Worker |-> NoJob]

Tick ==
    /\ now < MaxTime
    /\ now' = now + 1
    /\ UNCHANGED <<depositVars, settled, callback, paid, covered, assessed, job>>

-----------------------------------------------------------------------------
\* The row lock of a contribution under assessment: FOR NO KEY UPDATE.
NotLocked(c) == FALSE
Locked(c) == \E w \in Worker : job[w].contribution = c

\* The customer pays; the report of it may come much later.
Settle(c) ==
    /\ settled[c] = Never
    /\ now >= WindowStart(c)
    /\ settled' = [settled EXCEPT ![c] = now]
    /\ UNCHANGED <<depositVars, now, callback, paid, covered, assessed, job>>

CallbackBegin(c) ==
    /\ settled[c] # Never
    /\ paid[c] = Never
    /\ callback[c] = Never
    /\ callback' = [callback EXCEPT ![c] = now]
    /\ UNCHANGED <<depositVars, now, settled, paid, covered, assessed, job>>

CallbackCommit(c) ==
    /\ callback[c] # Never
    /\ ~Locked(c)
    /\ paid' = [paid EXCEPT ![c] = callback[c]]
    /\ callback' = [callback EXCEPT ![c] = Never]
    /\ UNCHANGED <<depositVars, now, settled, covered, assessed, job>>

CallbackAbort(c) ==
    /\ callback[c] # Never
    /\ callback' = [callback EXCEPT ![c] = Never]
    /\ UNCHANGED <<depositVars, now, settled, paid, covered, assessed, job>>

-----------------------------------------------------------------------------
\* The provider the gate asks for, and the one contribution journals carry.
PENALTY_RECONCILIATION_PROVIDER == "mpesa"
StkProvider == "safaricom_daraja"

\* The records of a window that each side knows under the provider's name.
ProviderRecords(provider, from, to) ==
    {c \in Contribution : provider = StkProvider /\ settled[c] >= from /\ settled[c] < to}
LedgerRecords(provider, from, to) ==
    {c \in Contribution : provider = StkProvider /\ paid[c] >= from /\ paid[c] < to}

Covers(from, to, c) == from <= WindowStart(c) /\ to >= Deadline(c)

\* reconcileProviderWindow and hasCleanReconciliation: only a run without a
\* mismatch is of use, and one is as good as another.
Reconcile(from, to) ==
    LET provider == PENALTY_RECONCILIATION_PROVIDER
    IN  /\ from < to
        /\ ProviderRecords(provider, from, to) = LedgerRecords(provider, from, to)
        /\ covered' = covered \cup {c \in Contribution : Covers(from, to, c)}
        /\ UNCHANGED <<depositVars, now, settled, callback, paid, assessed, job>>

-----------------------------------------------------------------------------
Earlier(c) == {d \in Contribution : d < c /\ assessed[d].done}
LastOf(S) == CHOOSE d \in S : \A e \in S : e <= d

\* nextConsecutiveMissCount
NextMissCount(c) ==
    IF Earlier(c) = {} THEN 1 ELSE assessed[LastOf(Earlier(c))].count + 1

CountAlways(c, missed) == NextMissCount(c)
CountFor(c, missed) == IF missed THEN NextMissCount(c) ELSE 0

\* The hourly recovery scan takes up whatever the scan at midnight left.
AtDeadline(c) == now = Deadline(c)
PastDeadline(c) == now >= Deadline(c)

Assessable(c) ==
    /\ ~assessed[c].done
    /\ membership = "active"
    /\ PastDeadline(c)
    /\ c \in covered

\* The worker skips a locked row: another worker, or a callback, is at it.
AssessRead(w, c) ==
    /\ job[w] = NoJob
    /\ ~Locked(c)
    /\ Assessable(c)
    /\ LET missed == ~(paid[c] < Deadline(c))
       IN  job' = [job EXCEPT ![w] = [contribution |-> c, missed |-> missed,
                                      count |-> CountFor(c, missed)]]
    /\ UNCHANGED <<depositVars, now, settled, callback, paid, covered, assessed>>

EscalatedAnyState(state, count) ==
    IF count >= Threshold THEN "default_triggered" ELSE state
Escalated(state, count) ==
    CASE state \in {"held", "at_risk"} ->
            IF count >= Threshold THEN "default_triggered" ELSE "at_risk"
      [] OTHER -> state

\* applyMissEscalation
Escalate(count) ==
    LET state == Escalated(deposit.state, count)
    IN  /\ IF state = deposit.state THEN UNCHANGED deposit
           ELSE Transition(state, "be08_penalty_worker")
        /\ membership' = IF count >= Threshold /\ membership = "active"
                         THEN "defaulted" ELSE membership

\* A callback whose snapshot is older than the assessment fails to serialize; one
\* that has begun and read nothing yet goes on, with the time at which it began.
AssessCommit(w) ==
    LET c == job[w].contribution
    IN  /\ c \in Contribution
        /\ assessed' = [assessed EXCEPT ![c] =
              [done |-> TRUE, missed |-> job[w].missed, count |-> job[w].count]]
        /\ IF job[w].missed THEN Escalate(job[w].count) ELSE UNCHANGED <<deposit, membership>>
        /\ callback' \in {callback, [callback EXCEPT ![c] = Never]}
        /\ job' = [job EXCEPT ![w] = NoJob]
        /\ UNCHANGED <<application, attempt, custody, now, settled, paid, covered>>

\* A lock timeout, a failed statement or the death of the worker; the next scan retries.
Rollback(w) == job' = [job EXCEPT ![w] = NoJob]

AssessAbort(w) ==
    /\ job[w] # NoJob
    /\ Rollback(w)
    /\ UNCHANGED <<depositVars, now, settled, callback, paid, covered, assessed>>

-----------------------------------------------------------------------------
Collection(c) ==
    Settle(c) \/ CallbackBegin(c) \/ CallbackCommit(c) \/ CallbackAbort(c)

Assessment(w) == (\E c \in Contribution : AssessRead(w, c)) \/ AssessCommit(w) \/ AssessAbort(w)

PenaltyNext ==
    \/ Tick
    \/ \E c \in Contribution : Collection(c)
    \/ \E from, to \in Time : Reconcile(from, to)
    \/ \E w \in Worker : Assessment(w)
    \/ Custody /\ UNCHANGED timelineVars

\* Every scan visits each contribution that is due, and the scans recur for as
\* long as a worker runs: one of them gets through.
PenaltyFairness ==
    /\ \A c \in Contribution : SF_penaltyVars(\E w \in Worker : AssessRead(w, c))
    /\ \A w \in Worker : SF_penaltyVars(AssessCommit(w))

PenaltySpec == PenaltyInit /\ [][PenaltyNext]_penaltyVars /\ PenaltyFairness

-----------------------------------------------------------------------------
\* A contribution is found missed exactly when no payment of it before the deadline
\* is on record at the moment the finding takes effect, although the payments were
\* read earlier in the transaction and callbacks run concurrently
\* (assessContribution, processStkCallback).
AssessedOnCurrentPayments ==
    [][\A c \in Contribution : ~assessed[c].done /\ assessed'[c].done =>
          (assessed'[c].missed <=> ~(paid[c] < Deadline(c)))]_penaltyVars

Missed(S) == {c \in S : assessed[c].missed}

\* The miss count never runs ahead of the misses, whatever the order in which the
\* contributions are assessed and however two workers interleave; so the worker
\* triggers a default only after at least Threshold misses
\* (nextConsecutiveMissCount, applyMissEscalation).
DefaultNeedsMisses ==
    /\ \A c \in Contribution : assessed[c].count <= Cardinality(Missed(1..c))
    /\ deposit.source = "be08_penalty_worker" /\ deposit.state = "default_triggered" =>
          Cardinality(Missed(Contribution)) >= Threshold

\* A contribution of an active member whose deadline passed and whose window is
\* reconciled is assessed in the end, whatever rollbacks and crashes delay it
\* (runFinancialScan: "next scan will retry").
RetriedUntilAssessed ==
    \A c \in Contribution :
        <>[](membership = "active" /\ now >= Deadline(c) /\ c \in covered) => <>assessed[c].done

\* What README.md promises of the reconciliation gate: it "prevents a missed
\* webhook/server outage from turning a provider-confirmed payment into a false
\* penalty".
NoFalsePenalty ==
    \A c \in Contribution : assessed[c].missed => ~(settled[c] < Deadline(c))
=============================================================================
