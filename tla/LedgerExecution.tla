-------------------------- MODULE LedgerExecution ---------------------------
(***************************************************************************)
(* How the code executes a ledger instruction: LedgerBusinessLogic.execute *)
(* (and executeWithinTransaction) under withDatabaseTransaction, against a *)
(* PostgreSQL database at SERIALIZABLE.  One action per statement at which *)
(* concurrent callers can interleave.                                      *)
(*                                                                         *)
(* The first statement of the transaction asks for the advisory lock, and  *)
(* it is that statement that takes the snapshot: a caller that waited for  *)
(* the lock still reads the database as it was before it waited.  The lock *)
(* therefore does not by itself make a second caller see the first one's   *)
(* journal; the first-updater-wins rule on the treasury rows, the unique   *)
(* index on the reference and the retries are all part of the argument.    *)
(***************************************************************************)
EXTENDS TreasuryLedger

CONSTANTS
    Caller,      \* concurrent requests, callbacks and jobs
    MaxRetries,  \* maxRetries of withDatabaseTransaction
    MaxCalls     \* bound: calls each caller makes

ASSUME RetryAssumption == MaxRetries \in Nat /\ MaxCalls \in Nat

VARIABLES
    pc,          \* where each caller stands
    request,     \* the instruction it submitted last
    attempt,     \* retries used
    snapshot,    \* the database its statements read
    stale,       \* treasury rows committed by others since that snapshot
    treasuries,  \* rows it locked, with the value it read
    outcome,     \* what its last call returned or threw
    calls        \* calls made

callerVars == <<pc, request, attempt, snapshot, stale, treasuries, outcome, calls>>
vars == <<pooled, journals, callerVars>>

NoRows     == [c \in {} |-> 0]
NoSnapshot == [pooled |-> Opening, references |-> {}]
Start  == {"idle", "begin"}
Places == Start \cup {"reference", "find", "lock", "post", "commit"}
Outcomes == {"none", "posted", "replayed", "conflict", "not_found", "insufficient",
             "duplicate", "serialization_failure", "unknown"}

InTransaction(k) == pc[k] \notin Start
HoldsReference(k) == pc[k] \in {"find", "lock", "post", "commit"} /\ ~IsCharge(request[k])

Init ==
    /\ LedgerInit
    /\ pc = [k \in Caller |-> "idle"]
    /\ request \in [Caller -> {CHOOSE i \in Workload : TRUE}]
    /\ attempt = [k \in Caller |-> 0]
    /\ snapshot = [k \in Caller |-> NoSnapshot]
    /\ stale = [k \in Caller |-> {}]
    /\ treasuries = [k \in Caller |-> NoRows]
    /\ outcome = [k \in Caller |-> "none"]
    /\ calls = [k \in Caller |-> 0]

-----------------------------------------------------------------------------
\* The transaction is over, its locks are released and the call has answered.
Finish(k, result) ==
    /\ pc' = [pc EXCEPT ![k] = "idle"]
    /\ treasuries' = [treasuries EXCEPT ![k] = NoRows]
    /\ snapshot' = [snapshot EXCEPT ![k] = NoSnapshot]
    /\ outcome' = [outcome EXCEPT ![k] = result]
    /\ UNCHANGED <<request, attempt, calls>>

Refuse(k, result) ==
    /\ Finish(k, result)
    /\ stale' = [stale EXCEPT ![k] = {}]
    /\ UNCHANGED <<pooled, journals>>

\* withDatabaseTransaction after a 40001 or 40P01.
Retry(k) ==
    \/ /\ attempt[k] < MaxRetries
       /\ attempt' = [attempt EXCEPT ![k] = @ + 1]
       /\ pc' = [pc EXCEPT ![k] = "begin"]
       /\ treasuries' = [treasuries EXCEPT ![k] = NoRows]
       /\ snapshot' = [snapshot EXCEPT ![k] = NoSnapshot]
       /\ stale' = [stale EXCEPT ![k] = {}]
       /\ UNCHANGED <<pooled, journals, request, outcome, calls>>
    \/ /\ attempt[k] = MaxRetries
       /\ Refuse(k, "serialization_failure")

MoveTo(k, place) == pc' = [pc EXCEPT ![k] = place]

-----------------------------------------------------------------------------
Submit(k, instruction) ==
    /\ pc[k] = "idle"
    /\ calls[k] < MaxCalls
    /\ MoveTo(k, "begin")
    /\ request' = [request EXCEPT ![k] = instruction]
    /\ attempt' = [attempt EXCEPT ![k] = 0]
    /\ outcome' = [outcome EXCEPT ![k] = "none"]
    /\ calls' = [calls EXCEPT ![k] = @ + 1]
    /\ UNCHANGED <<pooled, journals, snapshot, stale, treasuries>>

\* BEGIN and the snapshot of the first statement.  recordMemberCharge has no
\* lock and no lookup: its first statement is the insert.
Begin(k) ==
    /\ pc[k] = "begin"
    /\ MoveTo(k, IF IsCharge(request[k]) THEN "post" ELSE "reference")
    /\ snapshot' = [snapshot EXCEPT ![k] = [pooled |-> pooled, references |-> DOMAIN journals]]
    /\ stale' = [stale EXCEPT ![k] = {}]
    /\ UNCHANGED <<pooled, journals, request, attempt, treasuries, outcome, calls>>

AcquireReference(k) ==
    /\ pc[k] = "reference"
    /\ \A j \in Caller : HoldsReference(j) => request[j].reference # request[k].reference
    /\ MoveTo(k, "find")
    /\ UNCHANGED <<pooled, journals, request, attempt, snapshot, stale, treasuries, outcome, calls>>

AnswerByReference(existing, instruction) == "replayed"

Answer(existing, instruction) ==
    IF SameInstruction(existing, instruction) THEN "replayed" ELSE "conflict"

FindExisting(k) ==
    /\ pc[k] = "find"
    /\ LET reference == request[k].reference
       IN  \/ /\ reference \notin snapshot[k].references
              /\ MoveTo(k, "lock")
              /\ UNCHANGED <<pooled, journals, request, attempt, snapshot, stale,
                             treasuries, outcome, calls>>
           \/ /\ reference \in snapshot[k].references
              /\ Refuse(k, Answer(journals[reference], request[k]))

RowsLeft(k) == (DOMAIN request[k].deltas \cap Chama) \ DOMAIN treasuries[k]

AnyRow(k, c) == c \in RowsLeft(k)
NextRow(k, c) == \A d \in RowsLeft(k) : c <= d

NotWaiting(k, c) == c \notin DOMAIN treasuries[k]
RowFree(k, c) == \A j \in Caller \ {k} : c \notin DOMAIN treasuries[j]

NeverUpdated(k, c) == c \notin Chama
UpdatedSince(k, c) == c \in stale[k]

\* SELECT ... ORDER BY id FOR UPDATE takes the rows one by one in id order.
LockTreasury(k) ==
    /\ pc[k] = "lock"
    /\ \E c \in RowsLeft(k) :
        /\ NextRow(k, c)
        /\ RowFree(k, c)
        /\ \/ /\ UpdatedSince(k, c)
              /\ Retry(k)
           \/ /\ ~UpdatedSince(k, c)
              /\ treasuries' = [treasuries EXCEPT ![k] =
                    [d \in DOMAIN treasuries[k] \cup {c} |->
                        IF d = c THEN snapshot[k].pooled[c] ELSE treasuries[k][d]]]
              /\ UNCHANGED <<pooled, journals, pc, request, attempt, snapshot, stale,
                             outcome, calls>>

\* lockTreasuries returns, or throws for an id that has no row.
TreasuriesLocked(k) ==
    /\ pc[k] = "lock"
    /\ RowsLeft(k) = {}
    /\ IF DOMAIN request[k].deltas \subseteq Chama
       THEN /\ MoveTo(k, "post")
            /\ UNCHANGED <<pooled, journals, request, attempt, snapshot, stale,
                           treasuries, outcome, calls>>
       ELSE Refuse(k, "not_found")

Balances(k) == After(treasuries[k], request[k])

SufficientBefore(k) == \A c \in DOMAIN treasuries[k] : treasuries[k][c] >= 0
Sufficient(k) == \A c \in DOMAIN treasuries[k] : Balances(k)[c] >= 0

RefuseOverdraft(k) ==
    /\ pc[k] = "post"
    /\ ~Sufficient(k)
    /\ Refuse(k, "insufficient")

TakenInSnapshot(k) == request[k].reference \in snapshot[k].references
ReferenceTaken(k) == request[k].reference \in DOMAIN journals

\* The insert waits for an uncommitted insert of the same reference, and fails
\* when a committed one exists: the unique index sees past the snapshot.  For a
\* transaction that looked the reference up first PostgreSQL reports 40001.
InsertJournal(k) ==
    /\ pc[k] = "post"
    /\ Sufficient(k)
    /\ \A j \in Caller : pc[j] = "commit" => request[j].reference # request[k].reference
    /\ \/ /\ ~ReferenceTaken(k)
          /\ MoveTo(k, "commit")
          /\ UNCHANGED <<pooled, journals, request, attempt, snapshot, stale,
                         treasuries, outcome, calls>>
       \/ /\ ReferenceTaken(k)
          /\ \/ Refuse(k, "duplicate")
             \/ ~IsCharge(request[k]) /\ Retry(k)

\* COMMIT makes the journal and the balances visible; the answer may be lost
\* with the connection even though the transaction committed.
Commit(k) ==
    /\ pc[k] = "commit"
    /\ pooled' = [c \in Chama |->
                    IF c \in DOMAIN treasuries[k] THEN Balances(k)[c] ELSE pooled[c]]
    /\ journals' = [r \in DOMAIN journals \cup {request[k].reference} |->
                    IF r = request[k].reference THEN request[k] ELSE journals[r]]
    /\ stale' = [j \in Caller |-> IF j = k THEN {}
                                  ELSE IF InTransaction(j) THEN stale[j] \cup DOMAIN treasuries[k]
                                  ELSE stale[j]]
    /\ \E result \in {"posted", "unknown"} : Finish(k, result)

\* Serializable snapshot isolation may abort any transaction.
SerializationFailure(k) == InTransaction(k) /\ Retry(k)

\* The process or its connection dies: the database rolls back.
ConnectionLost(k) == pc[k] # "idle" /\ Refuse(k, "unknown")

Step(k) ==
    \/ Begin(k) \/ AcquireReference(k) \/ FindExisting(k) \/ LockTreasury(k)
    \/ TreasuriesLocked(k) \/ RefuseOverdraft(k) \/ InsertJournal(k) \/ Commit(k)

Next ==
    \E k \in Caller :
        \/ \E i \in Workload : Submit(k, i)
        \/ Step(k)
        \/ SerializationFailure(k)
        \/ ConnectionLost(k)

Spec == Init /\ [][Next]_vars

\* The event loop and the database run every enabled statement sooner or later.
FairSpec == Spec /\ \A k \in Caller : WF_vars(Step(k))

-----------------------------------------------------------------------------
TypeOK ==
    /\ pooled \in [Chama -> Nat]
    /\ DOMAIN journals \subseteq Reference
    /\ \A r \in DOMAIN journals : journals[r] \in Workload /\ journals[r].reference = r
    /\ pc \in [Caller -> Places]
    /\ request \in [Caller -> Workload]
    /\ attempt \in [Caller -> 0..MaxRetries]
    /\ snapshot \in [Caller -> [pooled : [Chama -> Nat], references : SUBSET Reference]]
    /\ stale \in [Caller -> SUBSET Chama]
    /\ DOMAIN treasuries = Caller
    /\ \A k \in Caller : /\ DOMAIN treasuries[k] \subseteq Chama
                         /\ \A c \in DOMAIN treasuries[k] : treasuries[k][c] \in Nat
    /\ outcome \in [Caller -> Outcomes]
    /\ calls \in [Caller -> 0..MaxCalls]

\* What a caller is told about its reference is true of the committed journals:
\* `posted` and `replayed` mean its own instruction is there, `conflict` that
\* another one is.
AnswersAreTrue ==
    \A k \in Caller :
        /\ outcome[k] \in {"posted", "replayed"} =>
             /\ request[k].reference \in DOMAIN journals
             /\ SameInstruction(journals[request[k].reference], request[k])
        /\ outcome[k] = "conflict" =>
             /\ request[k].reference \in DOMAIN journals
             /\ ~SameInstruction(journals[request[k].reference], request[k])

\* Of all calls with one reference at most one is told that it was not a replay
\* (`replayed: false`), however they interleave.
OnePostingAnswer ==
    \A j, k \in Caller :
        j # k /\ outcome[j] = "posted" /\ outcome[k] = "posted"
            => request[j].reference # request[k].reference

\* A caller that has locked a treasury row holds the committed balance, so the
\* absolute value it later writes loses no other caller's update.
LockedBalanceIsCurrent ==
    \A k \in Caller : \A c \in DOMAIN treasuries[k] : treasuries[k][c] = pooled[c]

\* Every call returns: no cycle of waiting on references, rows and the index.
CallsReturn == \A k \in Caller : pc[k] # "idle" ~> pc[k] = "idle"

\* The executions implement the abstract ledger.
Ledger == INSTANCE TreasuryLedger WITH pooled <- pooled, journals <- journals
ImplementsTreasuryLedger == Ledger!LedgerSpec
=============================================================================
