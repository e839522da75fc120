----------------------- MODULE LedgerExecutionProofs ------------------------
(***************************************************************************)
(* Proofs about LedgerExecution, for any number of callers, treasuries,    *)
(* references and retries.  The inductive invariant IInv says what each    *)
(* place of a transaction knows: a snapshot is current except for the rows *)
(* in `stale`, a locked row is current and exclusively held, and a caller  *)
(* about to commit holds all its rows, can pay, and owns its reference.    *)
(***************************************************************************)
EXTENDS LedgerExecution, TreasuryLedgerProofs

SnapshotIsCurrent ==
    \A k \in Caller :
        /\ snapshot[k].references \subseteq DOMAIN journals
        /\ InTransaction(k) =>
             \A c \in Chama \ stale[k] : snapshot[k].pooled[c] = pooled[c]

LockedRows ==
    \A k \in Caller :
        /\ DOMAIN treasuries[k] # {} => pc[k] \in {"lock", "post", "commit"}
        /\ DOMAIN treasuries[k] \subseteq DOMAIN request[k].deltas
        /\ \A c \in DOMAIN treasuries[k] :
             /\ c \notin stale[k]
             /\ treasuries[k][c] = pooled[c]
             /\ \A j \in Caller \ {k} : c \notin DOMAIN treasuries[j]

ReadyToPost ==
    \A k \in Caller :
        pc[k] \in {"post", "commit"} => DOMAIN treasuries[k] = DOMAIN request[k].deltas

ReadyToCommit ==
    \A k \in Caller :
        pc[k] = "commit" =>
            /\ Sufficient(k)
            /\ request[k].reference \notin DOMAIN journals
            /\ \A j \in Caller \ {k} :
                 pc[j] = "commit" => request[j].reference # request[k].reference

PostedIsJournalled ==
    \A k \in Caller :
        outcome[k] = "posted" =>
            /\ pc[k] = "idle"
            /\ request[k].reference \in DOMAIN journals
            /\ journals[request[k].reference] = request[k]

AnswersHold == AnswersAreTrue /\ OnePostingAnswer /\ PostedIsJournalled
               /\ \A k \in Caller : pc[k] # "idle" => outcome[k] = "none"

IInv == TypeOK /\ SnapshotIsCurrent /\ LockedRows /\ ReadyToPost /\ ReadyToCommit /\ AnswersHold

-----------------------------------------------------------------------------
-----------------------------------------------------------------------------
\* The initial states satisfy the invariant.
LEMMA InitInvariant == Init => IInv
<1> SUFFICES ASSUME Init PROVE IInv
    OBVIOUS
<1> USE DEF Init, LedgerInit, NoRows, NoSnapshot
<1>1. (CHOOSE i \in Workload : TRUE) \in Workload
    BY WorkloadAssumption
<1>2. TypeOK
    BY <1>1, WorkloadAssumption, RetryAssumption DEF TypeOK, Places, Start, Outcomes
<1>3. SnapshotIsCurrent /\ LockedRows
    BY DEF SnapshotIsCurrent, LockedRows, InTransaction, Start
<1>4. ReadyToPost /\ ReadyToCommit
    BY DEF ReadyToPost, ReadyToCommit
<1>5. AnswersHold
    BY DEF AnswersHold, AnswersAreTrue, OnePostingAnswer, PostedIsJournalled
<1>6. QED
    BY <1>2, <1>3, <1>4, <1>5 DEF IInv

\* A call that ends without committing, with an answer that claims nothing false.
LEMMA RefusePreserves ==
    ASSUME IInv, NEW k \in Caller, NEW result \in Outcomes \ {"posted"}, pc[k] # "idle",
           Refuse(k, result),
           result = "replayed" =>
             /\ request[k].reference \in DOMAIN journals
             /\ SameInstruction(journals[request[k].reference], request[k]),
           result = "conflict" =>
             /\ request[k].reference \in DOMAIN journals
             /\ ~SameInstruction(journals[request[k].reference], request[k])
    PROVE  IInv'
<1> USE DEF IInv, Refuse, Finish
<1>1. TypeOK'
    BY WorkloadAssumption DEF TypeOK, Places, Start, NoRows, NoSnapshot
<1>2. SnapshotIsCurrent'
    BY DEF TypeOK, SnapshotIsCurrent, InTransaction, Start, NoSnapshot
<1>3. LockedRows'
    BY DEF TypeOK, LockedRows, NoRows
<1>4. ReadyToPost'
    BY DEF TypeOK, ReadyToPost
<1>5. ReadyToCommit'
    BY DEF TypeOK, ReadyToCommit, Sufficient, Balances
<1>6. AnswersHold'
    BY DEF TypeOK, AnswersHold, AnswersAreTrue, OnePostingAnswer, PostedIsJournalled
<1>7. QED
    BY <1>1, <1>2, <1>3, <1>4, <1>5, <1>6

\* Rolling back for another attempt.
LEMMA RetryPreserves ==
    ASSUME IInv, NEW k \in Caller, pc[k] # "idle", Retry(k)
    PROVE  IInv'
<1>1. CASE attempt[k] = MaxRetries /\ Refuse(k, "serialization_failure")
    BY <1>1, RefusePreserves DEF Outcomes
<1>2. CASE /\ attempt[k] < MaxRetries
           /\ attempt' = [attempt EXCEPT ![k] = @ + 1]
           /\ pc' = [pc EXCEPT ![k] = "begin"]
           /\ treasuries' = [treasuries EXCEPT ![k] = NoRows]
           /\ snapshot' = [snapshot EXCEPT ![k] = NoSnapshot]
           /\ stale' = [stale EXCEPT ![k] = {}]
           /\ UNCHANGED <<pooled, journals, request, outcome, calls>>
  <2> USE <1>2 DEF IInv
  <2>1. TypeOK'
    BY WorkloadAssumption, RetryAssumption DEF TypeOK, Places, Start, NoRows, NoSnapshot
  <2>2. SnapshotIsCurrent'
    BY DEF TypeOK, SnapshotIsCurrent, InTransaction, Start, NoSnapshot
  <2>3. LockedRows'
    BY DEF TypeOK, LockedRows, NoRows
  <2>4. ReadyToPost'
    BY DEF TypeOK, ReadyToPost
  <2>5. ReadyToCommit'
    BY DEF TypeOK, ReadyToCommit, Sufficient, Balances
  <2>6. AnswersHold'
    BY DEF TypeOK, AnswersHold, AnswersAreTrue, OnePostingAnswer, PostedIsJournalled
  <2>7. QED
    BY <2>1, <2>2, <2>3, <2>4, <2>5, <2>6
<1>3. QED
    BY <1>1, <1>2 DEF Retry

-----------------------------------------------------------------------------
\* A new call, and the first statement of an attempt.
LEMMA OpeningPreserves ==
    ASSUME IInv, NEW k \in Caller,
           (\E i \in Workload : Submit(k, i)) \/ Begin(k)
    PROVE  IInv'
<1>1. CASE \E i \in Workload : Submit(k, i)
  <2>1. PICK i \in Workload : Submit(k, i)
    BY <1>1
  <2> USE <2>1 DEF IInv, Submit, MoveTo
  <2>2. TypeOK'
    BY WorkloadAssumption, RetryAssumption DEF TypeOK, Places, Start, Outcomes
  <2>3. SnapshotIsCurrent' /\ LockedRows'
    BY DEF TypeOK, SnapshotIsCurrent, LockedRows, InTransaction, Start
  <2>4. ReadyToPost' /\ ReadyToCommit'
    BY DEF TypeOK, ReadyToPost, ReadyToCommit, Sufficient, Balances
  <2>5. AnswersHold'
    BY DEF TypeOK, AnswersHold, AnswersAreTrue, OnePostingAnswer, PostedIsJournalled
  <2>6. QED
    BY <2>2, <2>3, <2>4, <2>5
<1>2. CASE Begin(k)
  <2> USE <1>2 DEF IInv, Begin, MoveTo
  <2>1. IsCharge(request[k]) => DOMAIN request[k].deltas = {}
    BY WorkloadAssumption, InstructionShape DEF TypeOK
  <2>2. TypeOK'
    BY DEF TypeOK, Places, Start
  <2>3. SnapshotIsCurrent'
    BY DEF TypeOK, SnapshotIsCurrent, InTransaction, Start
  <2>4. LockedRows'
    BY DEF TypeOK, LockedRows
  <2>5. ReadyToPost'
    BY <2>1 DEF TypeOK, ReadyToPost, LockedRows
  <2>6. ReadyToCommit'
    BY DEF TypeOK, ReadyToCommit, Sufficient, Balances
  <2>7. AnswersHold'
    BY DEF TypeOK, AnswersHold, AnswersAreTrue, OnePostingAnswer, PostedIsJournalled
  <2>8. QED
    BY <2>2, <2>3, <2>4, <2>5, <2>6, <2>7
<1>3. QED
    BY <1>1, <1>2

\* A step that only moves the caller to a later place which asks nothing new.
LEMMA MovePreserves ==
    ASSUME IInv, NEW k \in Caller, NEW place \in {"find", "lock", "post"},
           pc[k] \in {"reference", "find", "lock"}, MoveTo(k, place),
           pc[k] # "lock" => place # "post",
           place = "post" => DOMAIN treasuries[k] = DOMAIN request[k].deltas,
           UNCHANGED <<pooled, journals, request, attempt, snapshot, stale,
                       treasuries, outcome, calls>>,
           place = "find" => DOMAIN treasuries[k] = {}
    PROVE  IInv'
<1> USE DEF IInv, MoveTo
<1>1. TypeOK'
    BY DEF TypeOK, Places, Start
<1>2. SnapshotIsCurrent'
    BY DEF TypeOK, SnapshotIsCurrent, InTransaction, Start
<1>3. LockedRows'
    BY DEF TypeOK, LockedRows
<1>4. ReadyToPost'
    BY DEF TypeOK, ReadyToPost
<1>5. ReadyToCommit'
    BY DEF TypeOK, ReadyToCommit, Sufficient, Balances
<1>6. AnswersHold'
    BY DEF TypeOK, AnswersHold, AnswersAreTrue, OnePostingAnswer, PostedIsJournalled
<1>7. QED
    BY <1>1, <1>2, <1>3, <1>4, <1>5, <1>6

\* Waiting for the reference, and finding the operation already executed or not.
LEMMA LookupPreserves ==
    ASSUME IInv, NEW k \in Caller, AcquireReference(k) \/ FindExisting(k)
    PROVE  IInv'
<1>1. pc[k] \in {"reference", "find"} => DOMAIN treasuries[k] = {}
    BY DEF IInv, LockedRows
<1>2. CASE AcquireReference(k)
    BY <1>1, <1>2, MovePreserves DEF AcquireReference
<1>3. CASE FindExisting(k)
  <2>1. CASE request[k].reference \notin snapshot[k].references
    BY <1>1, <1>3, <2>1, MovePreserves DEF FindExisting
  <2>2. CASE request[k].reference \in snapshot[k].references
    <3>1. request[k].reference \in DOMAIN journals
      BY <2>2 DEF IInv, SnapshotIsCurrent
    <3>2. CASE SameInstruction(journals[request[k].reference], request[k])
      BY <1>3, <2>2, <3>1, <3>2, RefusePreserves DEF FindExisting, Answer, Outcomes
    <3>3. CASE ~SameInstruction(journals[request[k].reference], request[k])
      BY <1>3, <2>2, <3>1, <3>3, RefusePreserves DEF FindExisting, Answer, Outcomes
    <3>4. QED
      BY <3>2, <3>3
  <2>3. QED
    BY <2>1, <2>2
<1>4. QED
    BY <1>2, <1>3

\* Locking the treasury rows one by one.
LEMMA LockPreserves ==
    ASSUME IInv, NEW k \in Caller, LockTreasury(k) \/ TreasuriesLocked(k)
    PROVE  IInv'
<1>1. CASE LockTreasury(k)
  <2>1. PICK c \in RowsLeft(k) :
           /\ RowFree(k, c)
           /\ \/ UpdatedSince(k, c) /\ Retry(k)
              \/ /\ ~UpdatedSince(k, c)
                 /\ treasuries' = [treasuries EXCEPT ![k] =
                        [d \in DOMAIN treasuries[k] \cup {c} |->
                            IF d = c THEN snapshot[k].pooled[c] ELSE treasuries[k][d]]]
                 /\ UNCHANGED <<pooled, journals, pc, request, attempt, snapshot, stale,
                                outcome, calls>>
    BY <1>1 DEF LockTreasury
  <2>2. pc[k] = "lock"
    BY <1>1 DEF LockTreasury
  <2>3. CASE Retry(k)
    BY <2>2, <2>3, RetryPreserves
  <2>4. CASE /\ ~UpdatedSince(k, c)
             /\ treasuries' = [treasuries EXCEPT ![k] =
                    [d \in DOMAIN treasuries[k] \cup {c} |->
                        IF d = c THEN snapshot[k].pooled[c] ELSE treasuries[k][d]]]
             /\ UNCHANGED <<pooled, journals, pc, request, attempt, snapshot, stale,
                            outcome, calls>>
    <3> USE <2>2, <2>4 DEF IInv
    <3>1. /\ c \in Chama /\ c \in DOMAIN request[k].deltas
          /\ c \notin DOMAIN treasuries[k] /\ c \notin stale[k]
      BY <2>1 DEF RowsLeft, UpdatedSince
    <3>2. snapshot[k].pooled[c] = pooled[c] /\ pooled[c] \in Nat
      BY <3>1 DEF SnapshotIsCurrent, TypeOK, InTransaction, Start
    <3>3. \A j \in Caller \ {k} : c \notin DOMAIN treasuries[j]
      BY <2>1 DEF RowFree
    <3>4. TypeOK'
      BY <3>1, <3>2 DEF TypeOK
    <3>5. SnapshotIsCurrent'
      BY DEF TypeOK, SnapshotIsCurrent, InTransaction, Start
    <3>6. LockedRows'
      BY <3>1, <3>2, <3>3 DEF TypeOK, LockedRows
    <3>7. ReadyToPost' /\ ReadyToCommit'
      BY DEF TypeOK, ReadyToPost, ReadyToCommit, Sufficient, Balances
    <3>8. AnswersHold'
      BY DEF TypeOK, AnswersHold, AnswersAreTrue, OnePostingAnswer, PostedIsJournalled
    <3>9. QED
      BY <3>4, <3>5, <3>6, <3>7, <3>8
  <2>5. QED
    BY <2>1, <2>3, <2>4
<1>2. CASE TreasuriesLocked(k)
  <2>1. CASE DOMAIN request[k].deltas \subseteq Chama
    <3>1. DOMAIN treasuries[k] \subseteq DOMAIN request[k].deltas
      BY DEF IInv, LockedRows
    <3>2. QED
      BY <1>2, <2>1, <3>1, MovePreserves DEF TreasuriesLocked, RowsLeft
  <2>2. CASE ~(DOMAIN request[k].deltas \subseteq Chama)
    BY <1>2, <2>2, RefusePreserves DEF TreasuriesLocked, Outcomes
  <2>3. QED
    BY <2>1, <2>2
<1>3. QED
    BY <1>1, <1>2

\* The balance check and the insert of the journal.
LEMMA InsertPreserves ==
    ASSUME IInv, NEW k \in Caller, RefuseOverdraft(k) \/ InsertJournal(k)
    PROVE  IInv'
<1>1. pc[k] = "post"
    BY DEF RefuseOverdraft, InsertJournal
<1>2. CASE Refuse(k, "insufficient") \/ Refuse(k, "duplicate")
    BY <1>1, <1>2, RefusePreserves DEF Outcomes
<1>3. CASE Retry(k)
    BY <1>1, <1>3, RetryPreserves
<1>4. CASE /\ Sufficient(k)
           /\ \A j \in Caller : pc[j] = "commit" => request[j].reference # request[k].reference
           /\ ~ReferenceTaken(k)
           /\ MoveTo(k, "commit")
           /\ UNCHANGED <<pooled, journals, request, attempt, snapshot, stale,
                          treasuries, outcome, calls>>
  <2> USE <1>1, <1>4 DEF IInv, MoveTo
  <2>1. TypeOK'
    BY DEF TypeOK, Places, Start
  <2>2. SnapshotIsCurrent'
    BY DEF TypeOK, SnapshotIsCurrent, InTransaction, Start
  <2>3. LockedRows'
    BY DEF TypeOK, LockedRows
  <2>4. ReadyToPost'
    BY DEF TypeOK, ReadyToPost
  <2>5. ReadyToCommit'
    BY DEF TypeOK, ReadyToCommit, ReferenceTaken, Sufficient, Balances
  <2>6. AnswersHold'
    BY DEF TypeOK, AnswersHold, AnswersAreTrue, OnePostingAnswer, PostedIsJournalled
  <2>7. QED
    BY <2>1, <2>2, <2>3, <2>4, <2>5, <2>6
<1>5. QED
    BY <1>2, <1>3, <1>4 DEF RefuseOverdraft, InsertJournal

\* What COMMIT writes: the absolute balances computed from the rows read under
\* lock are the abstract ledger's new balances.
LEMMA CommitWrites ==
    ASSUME IInv, NEW k \in Caller, Commit(k)
    PROVE  /\ request[k] \in Workload
           /\ request[k].reference \notin DOMAIN journals
           /\ DOMAIN request[k].deltas \subseteq Chama
           /\ pooled' = After(pooled, request[k])
           /\ \A c \in Chama : After(pooled, request[k])[c] \in Nat
<1> USE DEF IInv, Commit
<1>1. /\ request[k] \in Workload
      /\ request[k].reference \notin DOMAIN journals
      /\ DOMAIN treasuries[k] = DOMAIN request[k].deltas
      /\ DOMAIN request[k].deltas \subseteq Chama
      /\ pooled \in [Chama -> Nat]
    BY DEF TypeOK, ReadyToCommit, ReadyToPost
<1>2. \A c \in DOMAIN treasuries[k] :
        /\ treasuries[k][c] = pooled[c]
        /\ Balances(k)[c] = pooled[c] + request[k].deltas[c]
        /\ Balances(k)[c] >= 0
        /\ request[k].deltas[c] \in Int
  <2>1. \A c \in DOMAIN treasuries[k] : treasuries[k][c] = pooled[c]
    BY DEF LockedRows
  <2>2. \A c \in DOMAIN treasuries[k] : Balances(k)[c] >= 0
    BY DEF ReadyToCommit, Sufficient
  <2>3. IsInstruction(request[k])
    BY <1>1, WorkloadAssumption
  <2>4. \A c \in DOMAIN treasuries[k] : request[k].deltas[c] \in Int
    BY <1>1, <2>3, InstructionShape
  <2>5. QED
    BY <1>1, <2>1, <2>2, <2>4 DEF Balances, After
<1>3. pooled' = After(pooled, request[k])
    BY <1>1, <1>2 DEF After
<1>4. \A c \in Chama : After(pooled, request[k])[c] \in Nat
    BY <1>1, <1>2 DEF After
<1>5. QED
    BY <1>1, <1>3, <1>4

\* COMMIT: the rows it releases are stale for every other snapshot.
LEMMA CommitPreserves ==
    ASSUME IInv, NEW k \in Caller, Commit(k)
    PROVE  IInv'
<1>1. PICK result \in {"posted", "unknown"} : Finish(k, result)
    BY DEF Commit
<1>2. /\ pooled' \in [Chama -> Nat]
      /\ \A c \in Chama \ DOMAIN treasuries[k] : pooled'[c] = pooled[c]
    BY CommitWrites DEF Commit, After, IInv, TypeOK
<1>3. /\ journals' = [r \in DOMAIN journals \cup {request[k].reference} |->
                       IF r = request[k].reference THEN request[k] ELSE journals[r]]
      /\ request[k].reference \notin DOMAIN journals
      /\ pc[k] = "commit"
    BY CommitWrites DEF Commit
<1>4. stale' = [j \in Caller |-> IF j = k THEN {}
                                 ELSE IF InTransaction(j) THEN stale[j] \cup DOMAIN treasuries[k]
                                 ELSE stale[j]]
    BY DEF Commit
<1>5. request[k].reference \in Reference
    BY WorkloadAssumption, InstructionShape DEF IInv, TypeOK
<1> USE <1>1, <1>2, <1>3, <1>4 DEF IInv, Finish
<1>6. TypeOK'
  <2>1. /\ DOMAIN journals' \subseteq Reference
        /\ \A r \in DOMAIN journals' : journals'[r] \in Workload /\ journals'[r].reference = r
    BY <1>5 DEF TypeOK
  <2>2. /\ pc' \in [Caller -> Places]
        /\ outcome' \in [Caller -> Outcomes]
        /\ snapshot' \in [Caller -> [pooled : [Chama -> Nat], references : SUBSET Reference]]
    BY WorkloadAssumption DEF TypeOK, Places, Start, Outcomes, NoSnapshot
  <2>3. stale' \in [Caller -> SUBSET Chama]
    BY DEF TypeOK
  <2>4. /\ DOMAIN treasuries' = Caller
        /\ \A j \in Caller : /\ DOMAIN treasuries'[j] \subseteq Chama
                             /\ \A c \in DOMAIN treasuries'[j] : treasuries'[j][c] \in Nat
    BY DEF TypeOK, NoRows
  <2>5. UNCHANGED <<request, attempt, calls>>
    OBVIOUS
  <2>6. QED
    BY <2>1, <2>2, <2>3, <2>4, <2>5 DEF TypeOK
<1>7. SnapshotIsCurrent'
    BY DEF TypeOK, SnapshotIsCurrent, InTransaction, Start, NoSnapshot
<1>8. LockedRows'
  <2>1. \A j \in Caller \ {k} : \A c \in DOMAIN treasuries[j] : c \notin DOMAIN treasuries[k]
    BY DEF LockedRows
  <2>2. \A j \in Caller : treasuries'[j] = IF j = k THEN NoRows ELSE treasuries[j]
    BY DEF TypeOK
  <2>3. \A j \in Caller \ {k} : \A c \in DOMAIN treasuries[j] :
            c \in Chama /\ pooled'[c] = pooled[c] /\ c \notin stale'[j]
    BY <2>1 DEF TypeOK, LockedRows
  <2>4. QED
    BY <2>1, <2>2, <2>3 DEF TypeOK, LockedRows, NoRows
<1>9. ReadyToPost'
    BY DEF TypeOK, ReadyToPost
<1>10. ReadyToCommit'
    BY DEF TypeOK, ReadyToCommit, Sufficient, Balances
<1>11. AnswersHold'
  <2>1. \A r \in DOMAIN journals : r \in DOMAIN journals' /\ journals'[r] = journals[r]
    OBVIOUS
  <2>2. PostedIsJournalled'
    BY <2>1 DEF TypeOK, AnswersHold, PostedIsJournalled
  <2>3. \A j \in Caller : pc'[j] # "idle" => outcome'[j] = "none"
    BY DEF TypeOK, AnswersHold
  <2>4. AnswersAreTrue'
    BY <2>1 DEF TypeOK, AnswersHold, AnswersAreTrue, SameInstruction
  <2>5. OnePostingAnswer'
    BY DEF TypeOK, AnswersHold, OnePostingAnswer, PostedIsJournalled
  <2>6. QED
    BY <2>2, <2>3, <2>4, <2>5 DEF AnswersHold
<1>12. QED
    BY <1>6, <1>7, <1>8, <1>9, <1>10, <1>11

-----------------------------------------------------------------------------
\* Every step preserves the invariant, one lemma per kind of step.
LEMMA NextPreserves == IInv /\ [Next]_vars => IInv'
<1> SUFFICES ASSUME IInv, [Next]_vars PROVE IInv'
    OBVIOUS
<1>1. CASE UNCHANGED vars
    BY <1>1 DEF vars, callerVars, IInv, TypeOK, SnapshotIsCurrent, InTransaction, LockedRows,
        ReadyToPost, ReadyToCommit, Sufficient, Balances, AnswersHold, AnswersAreTrue,
        OnePostingAnswer, PostedIsJournalled
<1>2. ASSUME NEW k \in Caller, \E i \in Workload : Submit(k, i)
      PROVE  IInv'
    BY <1>2, OpeningPreserves
<1>3. ASSUME NEW k \in Caller, Step(k)
      PROVE  IInv'
    BY <1>3, OpeningPreserves, LookupPreserves, LockPreserves, InsertPreserves,
        CommitPreserves DEF Step
<1>4. ASSUME NEW k \in Caller, SerializationFailure(k)
      PROVE  IInv'
    BY <1>4, RetryPreserves DEF SerializationFailure, InTransaction, Start
<1>5. ASSUME NEW k \in Caller, ConnectionLost(k)
      PROVE  IInv'
    BY <1>5, RefusePreserves DEF ConnectionLost, Outcomes
<1>6. QED
    BY <1>1, <1>2, <1>3, <1>4, <1>5 DEF Next

\* The inductive invariant holds of every execution.
THEOREM Invariance == Spec => []IInv
BY InitInvariant, NextPreserves, PTL DEF Spec

\* No treasury is ever negative, whatever the callers do (calculateBalances and
\* the row locks), and every other variable keeps its type.
THEOREM TypeCorrect == Spec => []TypeOK
BY Invariance, PTL DEF IInv

\* A locked row still shows the committed balance, so the absolute value the
\* UPDATE writes overwrites nobody's change (lockTreasuries).
THEOREM NoLostUpdate == Spec => []LockedBalanceIsCurrent
<1>1. IInv => LockedBalanceIsCurrent
    BY DEF IInv, LockedRows, LockedBalanceIsCurrent
<1>2. QED
    BY <1>1, Invariance, PTL

\* What a caller was told about its reference is true of the committed journals
\* for ever after (findExistingOperation).
THEOREM TrueAnswers == Spec => []AnswersAreTrue
BY Invariance, PTL DEF IInv, AnswersHold

\* At most one of the callers that hold a `replayed: false` answer used any one
\* reference.
THEOREM SinglePosting == Spec => []OnePostingAnswer
BY Invariance, PTL DEF IInv, AnswersHold

-----------------------------------------------------------------------------
\* Every step of the executions is a posting of the abstract ledger or a stutter.
LEMMA StepIsPosting == IInv /\ [Next]_vars => [LedgerNext]_ledgerVars
<1> SUFFICES ASSUME IInv, [Next]_vars, ~UNCHANGED <<pooled, journals>>
             PROVE  LedgerNext
    BY DEF ledgerVars
<1>1. PICK k \in Caller : Commit(k)
    BY DEF Next, vars, callerVars, Submit, Step, Begin, AcquireReference, FindExisting,
        LockTreasury, TreasuriesLocked, RefuseOverdraft, InsertJournal,
        SerializationFailure, ConnectionLost, Retry, Refuse, Finish
<1>2. /\ \A c \in Chama : After(pooled, request[k])[c] >= 0
      /\ pooled' = After(pooled, request[k])
    BY <1>1, CommitWrites
<1>3. Post(request[k])
    BY <1>1, <1>2, CommitWrites DEF Post, Solvent, Commit
<1>4. QED
    BY <1>1, <1>3, CommitWrites DEF LedgerNext

\* The transactions with their locks, snapshots, retries and lost connections
\* implement the atomic, at-most-once, never-overdrawn ledger.
THEOREM Refinement == Spec => ImplementsTreasuryLedger
<1>1. Init => Ledger!LedgerInit
    BY DEF Init, LedgerInit, Ledger!LedgerInit
<1>2. IInv /\ [Next]_vars => [Ledger!LedgerNext]_(Ledger!ledgerVars)
    BY StepIsPosting DEF LedgerNext, ledgerVars, Post, Solvent, After, Ledger!LedgerNext,
        Ledger!ledgerVars, Ledger!Post, Ledger!Solvent, Ledger!After
<1>3. QED
    BY <1>1, <1>2, Invariance, PTL DEF Spec, ImplementsTreasuryLedger, Ledger!LedgerSpec

\* The balance a treasury shows is its opening balance and the treasury entries
\* of every committed journal, whatever commits, retries and lost connections
\* came in between: so it is in the ledger that the executions implement
\* (calculateBalances, insertLedgerEntries).
THEOREM BalancesFollowJournals == Spec => []BalanceIsJournalled
<1>1. Init => LedgerInit
    BY DEF Init
<1>2. Spec => LedgerSpec
    BY <1>1, StepIsPosting, Invariance, PTL DEF Spec, LedgerSpec
<1>3. LedgerInv => BalanceIsJournalled
    BY DEF LedgerInv
<1>4. QED
    BY <1>2, <1>3, LedgerInvariance, PTL
=============================================================================
