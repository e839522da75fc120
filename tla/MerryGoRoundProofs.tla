------------------------- MODULE MerryGoRoundProofs -------------------------
(***************************************************************************)
(* Proofs about MerryGoRound, for any number of members, attempts, retries *)
(* and callbacks.  The inductive invariant IInv adds to the properties     *)
(* what an attempt's stored fields say of the payout at the provider: an   *)
(* attempt without a ConversationID is beyond any callback, one that       *)
(* failed with its ConversationID was refused, and so a turn has at most   *)
(* one attempt that is not failed.                                         *)
(***************************************************************************)
EXTENDS MerryGoRound, TreasuryLedgerProofs, SequenceTheorems

TurnRow(size) ==
    [position : 1..size,
     status : {"scheduled", "disbursement_pending", "disputed", "paid"}]

CycleRow == [status : {"none", "active", "completed"}, current : Nat \ {0}]

AttemptRow ==
    [member : Member,
     status : {"pending", "dispatched", "timed_out", "failed", "confirmed"},
     referenced : BOOLEAN,
     run : {"dispatch", "record", "fail", "idle"},
     provider : {"none", "accepted", "paid", "refused"}]

Size == Cardinality(DOMAIN turn)

MgrTypeOK ==
    /\ active \subseteq Member
    /\ DOMAIN turn \subseteq Member
    /\ turn \in [DOMAIN turn -> TurnRow(Size)]
    /\ cycle \in CycleRow
    /\ swaps \subseteq [requester : DOMAIN turn, target : DOMAIN turn]
    /\ attempt \in Seq(AttemptRow)

\* Before the cycle exists there is nothing, and current_position is a position.
CyclePlace ==
    /\ cycle.status = "none" => turn = NoTurns /\ attempt = <<>> /\ cycle.current = 1
    /\ cycle.status # "none" => cycle.current <= Size
    /\ cycle.status = "completed" => cycle.current = Size
    /\ \A s \in swaps : s.requester # s.target

\* Where the disburse request stands, and what the stored fields say of it.
RequestPlace(a) ==
    /\ a.run \in {"dispatch", "record"} => a.status = "pending" /\ ~a.referenced
    /\ a.run = "dispatch" => a.provider = "none"
    /\ a.run = "record" => a.provider # "none"
    /\ a.referenced => a.status # "pending"
    /\ ~a.referenced => a.status \in {"pending", "failed"}
    /\ ~a.referenced /\ a.status = "failed" => a.run = "idle"

\* What an outcome the program stored says of the provider.
OutcomeIsReal(a) ==
    /\ a.status = "confirmed" => a.provider = "paid"
    /\ a.referenced /\ a.status = "failed" => a.provider = "refused"

AttemptPlaces ==
    \A n \in DOMAIN attempt :
        /\ attempt[n].member \in DOMAIN turn
        /\ RequestPlace(attempt[n])
        /\ OutcomeIsReal(attempt[n])

\* A turn has at most one attempt that is not failed.
OneLiveAttempt ==
    \A n, k \in DOMAIN attempt :
        /\ attempt[n].member = attempt[k].member
        /\ attempt[n].status # "failed" /\ attempt[k].status # "failed"
        => n = k

\* A turn is paid by a confirmed attempt, and that one is in the journal.
PaidIsConfirmed ==
    /\ \A m \in DOMAIN turn :
         turn[m].status = "paid" <=> \E n \in Attempts(m) : attempt[n].status = "confirmed"
    /\ \A n \in Nat :
         Journalled(n) <=> n \in DOMAIN attempt /\ attempt[n].status = "confirmed"

IInv == MgrTypeOK /\ CyclePlace /\ PaidInRotationOrder /\ AttemptPlaces
        /\ OneLiveAttempt /\ PaidIsConfirmed

USE MemberAssumption DEF NoTurns

-----------------------------------------------------------------------------
\* Before the cycle is created there is nothing to be wrong.
LEMMA InitInvariant == MgrInit => IInv
<1> SUFFICES ASSUME MgrInit PROVE IInv
    OBVIOUS
<1> USE DEF MgrInit, LedgerInit
<1>1. DOMAIN turn = {} /\ DOMAIN attempt = {} /\ attempt \in Seq(AttemptRow)
    OBVIOUS
<1>2. MgrTypeOK
    BY <1>1 DEF MgrTypeOK, CycleRow
<1>3. CyclePlace /\ PaidInRotationOrder
    BY <1>1 DEF CyclePlace, PaidInRotationOrder
<1>4. AttemptPlaces /\ OneLiveAttempt /\ PaidIsConfirmed
    BY <1>1 DEF AttemptPlaces, OneLiveAttempt, PaidIsConfirmed, Journalled
<1>5. QED
    BY <1>2, <1>3, <1>4 DEF IInv

\* The number of turns is a number, and each turn has one of their positions.
LEMMA Turns ==
    ASSUME MgrTypeOK
    PROVE  /\ IsFiniteSet(DOMAIN turn) /\ Size \in Nat
           /\ \A m \in DOMAIN turn : turn[m] \in TurnRow(Size)
<1>1. IsFiniteSet(DOMAIN turn)
    BY FS_Subset DEF MgrTypeOK
<1>2. QED
    BY <1>1, FS_CardinalityType DEF MgrTypeOK, Size

\* What writing one row of the attempts leaves as it is.
LEMMA RowUpdate ==
    ASSUME attempt \in Seq(AttemptRow), NEW n \in DOMAIN attempt, NEW r \in AttemptRow,
           attempt' = [attempt EXCEPT ![n] = r]
    PROVE  /\ attempt' \in Seq(AttemptRow)
           /\ DOMAIN attempt' = DOMAIN attempt
           /\ attempt'[n] = r
           /\ \A k \in DOMAIN attempt \ {n} : attempt'[k] = attempt[k]
BY ExceptSeq, LenProperties

\* What writing the status of one turn leaves as it is.
LEMMA TurnUpdate ==
    ASSUME MgrTypeOK, NEW m \in DOMAIN turn,
           NEW status \in {"scheduled", "disbursement_pending", "disputed", "paid"},
           SetTurn(m, status)
    PROVE  /\ DOMAIN turn' = DOMAIN turn /\ Size' = Size
           /\ turn' \in [DOMAIN turn -> TurnRow(Size)]
           /\ turn'[m].status = status
           /\ \A o \in DOMAIN turn : turn'[o].position = turn[o].position
           /\ \A o \in DOMAIN turn \ {m} : turn'[o] = turn[o]
<1>1. DOMAIN turn' = DOMAIN turn
    BY DEF SetTurn, MgrTypeOK
<1>2. turn' = [turn EXCEPT ![m] = [turn[m] EXCEPT !.status = status]]
    BY DEF SetTurn
<1>3. [turn[m] EXCEPT !.status = status] \in TurnRow(Size)
    BY DEF MgrTypeOK, TurnRow
<1>4. turn' \in [DOMAIN turn -> TurnRow(Size)]
    BY <1>2, <1>3 DEF MgrTypeOK
<1>5. turn'[m].status = status /\ turn'[m].position = turn[m].position
    BY <1>2, Turns DEF MgrTypeOK, TurnRow
<1>6. \A o \in DOMAIN turn \ {m} : turn'[o] = turn[o]
    BY <1>2
<1>7. QED
    BY <1>1, <1>4, <1>5, <1>6 DEF Size

\* A step of one attempt that pays nothing and revives nothing, whatever it
\* does to the status of a turn that is not paid.
LEMMA AttemptStepPreserves ==
    ASSUME IInv, NEW n \in DOMAIN attempt, NEW r \in AttemptRow,
           attempt' = [attempt EXCEPT ![n] = r],
           r.member = attempt[n].member,
           RequestPlace(r), OutcomeIsReal(r),
           attempt[n].status = "failed" => r.status = "failed",
           r.status = "confirmed" <=> attempt[n].status = "confirmed",
           \/ UNCHANGED turn
           \/ /\ turn[r.member].status # "paid"
              /\ \E status \in {"scheduled", "disputed"} : SetTurn(r.member, status),
           UNCHANGED <<pooled, journals, active, cycle, swaps>>
    PROVE  IInv'
<1> DEFINE m == r.member
<1> USE DEF IInv
<1>1. /\ attempt' \in Seq(AttemptRow) /\ DOMAIN attempt' = DOMAIN attempt
      /\ attempt'[n] = r /\ \A k \in DOMAIN attempt \ {n} : attempt'[k] = attempt[k]
    BY RowUpdate DEF MgrTypeOK
<1>2. \A k \in DOMAIN attempt : attempt'[k].member = attempt[k].member
    BY <1>1
<1>3. m \in DOMAIN turn
    BY DEF AttemptPlaces
<1>4. /\ DOMAIN turn' = DOMAIN turn /\ Size' = Size
      /\ turn' \in [DOMAIN turn -> TurnRow(Size)]
      /\ \A o \in DOMAIN turn : turn'[o].position = turn[o].position
      /\ \A o \in DOMAIN turn : turn'[o].status = "paid" <=> turn[o].status = "paid"
    <2>1. CASE UNCHANGED turn
        BY <2>1 DEF Size, MgrTypeOK
    <2>2. CASE turn[m].status # "paid" /\ \E status \in {"scheduled", "disputed"} : SetTurn(m, status)
        BY <1>3, <2>2, TurnUpdate
    <2>3. QED
        BY <2>1, <2>2
<1>5. MgrTypeOK'
    BY <1>1, <1>4 DEF MgrTypeOK
<1>6. CyclePlace'
    <2>1. cycle.status # "none"
        BY <1>3 DEF CyclePlace
    <2>2. QED
        BY <1>4, <2>1 DEF CyclePlace
<1>7. PaidInRotationOrder'
    BY <1>4 DEF PaidInRotationOrder
<1>8. AttemptPlaces'
    BY <1>1, <1>2, <1>4 DEF AttemptPlaces
<1>9. OneLiveAttempt'
    BY <1>1, <1>2 DEF OneLiveAttempt
<1>10. PaidIsConfirmed'
    <2>1. \A k \in DOMAIN attempt : attempt'[k].status = "confirmed" <=> attempt[k].status = "confirmed"
        BY <1>1
    <2>2. \A o \in DOMAIN turn : Attempts(o)' = Attempts(o)
        BY <1>1, <1>2 DEF Attempts
    <2>3. \A k \in Nat : Journalled(k)' <=> Journalled(k)
        BY DEF Journalled
    <2>4. QED
        BY <1>1, <1>4, <2>1, <2>2, <2>3 DEF PaidIsConfirmed, Attempts
<1>11. QED
    BY <1>5, <1>6, <1>7, <1>8, <1>9, <1>10

-----------------------------------------------------------------------------
\* The request that pays: dispatch, the stored ConversationID, an error, a crash.
LEMMA RequestPreserves ==
    ASSUME IInv, NEW n \in DOMAIN attempt,
           Dispatch(n) \/ RecordDispatch(n) \/ FailDispatch(n) \/ Crash(n) \/ ProviderDecides(n)
    PROVE  IInv'
<1> DEFINE a == attempt[n]
<1>1. /\ a \in AttemptRow /\ a.member \in DOMAIN turn
      /\ RequestPlace(a) /\ OutcomeIsReal(a)
    BY ElementOfSeq, LenProperties DEF IInv, MgrTypeOK, AttemptPlaces
<1>2. CASE Dispatch(n)
    <2>1. CASE \E next \in {"record", "fail"} :
                  attempt' = [attempt EXCEPT ![n].run = next, ![n].provider = "accepted"]
        <3>1. PICK next \in {"record", "fail"} :
                  attempt' = [attempt EXCEPT ![n] = [a EXCEPT !.run = next, !.provider = "accepted"]]
            BY <2>1
        <3> DEFINE r == [a EXCEPT !.run = next, !.provider = "accepted"]
        <3>2. r \in AttemptRow /\ r.member = a.member /\ r.status = a.status
              /\ RequestPlace(r) /\ OutcomeIsReal(r)
            BY <1>1, <1>2 DEF Dispatch, AttemptRow, RequestPlace, OutcomeIsReal
        <3> HIDE DEF r
        <3>3. QED
            BY <1>2, <3>1, <3>2, AttemptStepPreserves DEF Dispatch, r
    <2>2. CASE attempt' = [attempt EXCEPT ![n].run = "fail"]
        <3> DEFINE r == [a EXCEPT !.run = "fail"]
        <3>1. attempt' = [attempt EXCEPT ![n] = r]
            BY <2>2
        <3>2. r \in AttemptRow /\ r.member = a.member /\ r.status = a.status
              /\ RequestPlace(r) /\ OutcomeIsReal(r)
            BY <1>1, <1>2 DEF Dispatch, AttemptRow, RequestPlace, OutcomeIsReal
        <3> HIDE DEF r
        <3>3. QED
            BY <1>2, <3>1, <3>2, AttemptStepPreserves DEF Dispatch
    <2>3. QED
        BY <1>2, <2>1, <2>2 DEF Dispatch
<1>3. CASE RecordDispatch(n)
    <2>1. CASE \E next \in {"idle", "fail"} :
                  attempt' = [attempt EXCEPT ![n].run = next, ![n].status = "dispatched",
                                             ![n].referenced = TRUE]
        <3>1. PICK next \in {"idle", "fail"} :
                  attempt' = [attempt EXCEPT ![n] =
                     [a EXCEPT !.run = next, !.status = "dispatched", !.referenced = TRUE]]
            BY <2>1
        <3> DEFINE r == [a EXCEPT !.run = next, !.status = "dispatched", !.referenced = TRUE]
        <3>2. r \in AttemptRow /\ r.member = a.member /\ r.status = "dispatched"
              /\ RequestPlace(r) /\ OutcomeIsReal(r)
            BY <1>1, <1>3 DEF RecordDispatch, AttemptRow, RequestPlace, OutcomeIsReal
        <3>3. a.status = "pending"
            BY <1>1, <1>3 DEF RecordDispatch, AttemptRow, RequestPlace, OutcomeIsReal
        <3> HIDE DEF r
        <3>4. QED
            BY <1>3, <3>1, <3>2, <3>3, AttemptStepPreserves DEF RecordDispatch, r
    <2>2. CASE attempt' = [attempt EXCEPT ![n].run = "fail"]
        <3> DEFINE r == [a EXCEPT !.run = "fail"]
        <3>1. attempt' = [attempt EXCEPT ![n] = r]
            BY <2>2
        <3>2. r \in AttemptRow /\ r.member = a.member /\ r.status = a.status
              /\ RequestPlace(r) /\ OutcomeIsReal(r)
            BY <1>1, <1>3 DEF RecordDispatch, AttemptRow, RequestPlace, OutcomeIsReal
        <3> HIDE DEF r
        <3>3. QED
            BY <1>3, <3>1, <3>2, AttemptStepPreserves DEF RecordDispatch
    <2>3. QED
        BY <1>3, <2>1, <2>2 DEF RecordDispatch
<1>4. CASE FailDispatch(n)
    <2>1. CASE a.referenced /\ attempt' = [attempt EXCEPT ![n].run = "idle"] /\ UNCHANGED turn
        <3> DEFINE r == [a EXCEPT !.run = "idle"]
        <3>1. attempt' = [attempt EXCEPT ![n] = r]
            BY <2>1
        <3>2. r \in AttemptRow /\ r.member = a.member /\ r.status = a.status
              /\ RequestPlace(r) /\ OutcomeIsReal(r)
            BY <1>1 DEF AttemptRow, RequestPlace, OutcomeIsReal
        <3> HIDE DEF r
        <3>3. QED
            BY <1>4, <2>1, <3>1, <3>2, AttemptStepPreserves DEF FailDispatch
    <2>2. CASE /\ ~a.referenced
               /\ attempt' = [attempt EXCEPT ![n].run = "idle", ![n].status = "failed"]
               /\ Reschedule(a.member, {"disbursement_pending"})
        <3> DEFINE r == [a EXCEPT !.run = "idle", !.status = "failed"]
        <3>1. attempt' = [attempt EXCEPT ![n] = r]
            BY <2>2
        <3>2. r \in AttemptRow /\ r.member = a.member /\ r.status = "failed"
              /\ RequestPlace(r) /\ OutcomeIsReal(r) /\ a.status # "confirmed"
            BY <1>1, <2>2 DEF AttemptRow, RequestPlace, OutcomeIsReal
        <3> HIDE DEF r
        <3>3. \/ UNCHANGED turn
              \/ turn[r.member].status # "paid" /\ SetTurn(r.member, "scheduled")
            BY <2>2, <3>2 DEF Reschedule
        <3>4. QED
            BY <1>4, <3>1, <3>2, <3>3, AttemptStepPreserves DEF FailDispatch
    <2>3. QED
        BY <1>4, <2>1, <2>2 DEF FailDispatch
<1>5. CASE Crash(n)
    <2> DEFINE r == [a EXCEPT !.run = "idle"]
    <2>1. attempt' = [attempt EXCEPT ![n] = r]
        BY <1>5 DEF Crash
    <2>2. r \in AttemptRow /\ r.member = a.member /\ r.status = a.status
          /\ RequestPlace(r) /\ OutcomeIsReal(r)
        BY <1>1 DEF AttemptRow, RequestPlace, OutcomeIsReal
    <2> HIDE DEF r
    <2>3. QED
        BY <1>5, <2>1, <2>2, AttemptStepPreserves DEF Crash
<1>6. CASE ProviderDecides(n)
    <2>1. PICK outcome \in {"paid", "refused"} :
              attempt' = [attempt EXCEPT ![n] = [a EXCEPT !.provider = outcome]]
        BY <1>6 DEF ProviderDecides
    <2> DEFINE r == [a EXCEPT !.provider = outcome]
    <2>2. r \in AttemptRow /\ r.member = a.member /\ r.status = a.status
          /\ RequestPlace(r) /\ OutcomeIsReal(r)
        BY <1>1, <1>6 DEF ProviderDecides, AttemptRow, RequestPlace, OutcomeIsReal
    <2> HIDE DEF r
    <2>3. QED
        BY <1>6, <2>1, <2>2, AttemptStepPreserves DEF ProviderDecides, r
<1>7. QED
    BY <1>2, <1>3, <1>4, <1>5, <1>6

\* A failure or a timeout that the provider reports.
LEMMA ReportPreserves ==
    ASSUME IInv, NEW n \in DOMAIN attempt, ResultFailure(n) \/ Timeout(n)
    PROVE  IInv'
<1> DEFINE a == attempt[n]
<1>1. /\ a \in AttemptRow /\ a.member \in DOMAIN turn
      /\ RequestPlace(a) /\ OutcomeIsReal(a)
    BY ElementOfSeq, LenProperties DEF IInv, MgrTypeOK, AttemptPlaces
<1>2. CASE ResultFailure(n)
    <2> DEFINE r == [a EXCEPT !.status = "failed"]
    <2>1. attempt' = [attempt EXCEPT ![n] = r]
        BY <1>2 DEF ResultFailure
    <2>2. r \in AttemptRow /\ r.member = a.member /\ r.status = "failed"
          /\ RequestPlace(r) /\ OutcomeIsReal(r) /\ a.status # "confirmed"
        BY <1>1, <1>2 DEF ResultFailure, AttemptRow, RequestPlace, OutcomeIsReal
    <2> HIDE DEF r
    <2>3. \/ UNCHANGED turn
          \/ turn[r.member].status # "paid" /\ SetTurn(r.member, "scheduled")
        BY <1>2, <2>2 DEF ResultFailure, Reschedule
    <2>4. QED
        BY <1>2, <2>1, <2>2, <2>3, AttemptStepPreserves DEF ResultFailure
<1>3. CASE Timeout(n)
    <2> DEFINE after == IF a.status \in {"pending", "dispatched"} THEN "timed_out" ELSE a.status
               r == [a EXCEPT !.status = after]
    <2>1. attempt' = [attempt EXCEPT ![n] = r]
        BY <1>3 DEF Timeout
    <2>2. /\ r \in AttemptRow /\ r.member = a.member
          /\ a.status = "failed" => r.status = "failed"
          /\ r.status = "confirmed" <=> a.status = "confirmed"
          /\ RequestPlace(r) /\ OutcomeIsReal(r)
        BY <1>1, <1>3 DEF Timeout, AttemptRow, RequestPlace, OutcomeIsReal
    <2> HIDE DEF r
    <2>3. \/ UNCHANGED turn
          \/ turn[r.member].status # "paid" /\ SetTurn(r.member, "disputed")
        BY <1>3, <2>2 DEF Timeout
    <2>4. QED
        BY <1>3, <2>1, <2>2, <2>3, AttemptStepPreserves DEF Timeout
<1>4. QED
    BY <1>2, <1>3

-----------------------------------------------------------------------------
\* The payment of the current turn: the journal, the attempt, the turn and the
\* position move together.
LEMMA ResultSuccessPreserves ==
    ASSUME IInv, NEW n \in DOMAIN attempt, ResultSuccess(n)
    PROVE  IInv'
<1> DEFINE a == attempt[n]
           m == a.member
           r == [a EXCEPT !.status = "confirmed"]
<1> USE DEF IInv
<1>1. /\ a \in AttemptRow /\ m \in DOMAIN turn /\ RequestPlace(a) /\ OutcomeIsReal(a)
      /\ n \in Nat
    BY ElementOfSeq, LenProperties DEF MgrTypeOK, AttemptPlaces
<1>2. a.status # "failed" /\ a.provider = "paid"
    BY <1>1 DEF ResultSuccess, ReportsPayment, OutcomeIsReal
<1>3. a.status # "confirmed" /\ turn[m].status # "paid"
    BY <1>1, <1>2 DEF ResultSuccess, PaidIsConfirmed, OneLiveAttempt, Attempts
<1>4. /\ r \in AttemptRow /\ r.member = m /\ r.status = "confirmed"
      /\ RequestPlace(r) /\ OutcomeIsReal(r)
    BY <1>1, <1>2, <1>3 DEF ResultSuccess, AttemptRow, RequestPlace, OutcomeIsReal
<1>5. attempt' = [attempt EXCEPT ![n] = r]
    BY DEF ResultSuccess
<1> HIDE DEF r
<1>6. /\ attempt' \in Seq(AttemptRow) /\ DOMAIN attempt' = DOMAIN attempt
      /\ attempt'[n] = r /\ \A k \in DOMAIN attempt \ {n} : attempt'[k] = attempt[k]
    BY <1>4, <1>5, RowUpdate DEF MgrTypeOK
<1>7. /\ DOMAIN turn' = DOMAIN turn /\ Size' = Size
      /\ turn' \in [DOMAIN turn -> TurnRow(Size)]
      /\ turn'[m].status = "paid"
      /\ \A o \in DOMAIN turn : turn'[o].position = turn[o].position
      /\ \A o \in DOMAIN turn \ {m} : turn'[o] = turn[o]
    BY <1>1, TurnUpdate DEF ResultSuccess
<1>8. \A k \in Nat : Journalled(k)' <=> k = n \/ Journalled(k)
    <2>1. Post(PayoutInstruction(n))
        BY <1>1, <1>3 DEF ResultSuccess, ExecuteWithinTransaction, PaidIsConfirmed,
              Journalled, PayoutInstruction, Payout, Instruction
    <2>2. DOMAIN journals' = DOMAIN journals \cup {ReceiptReference(n)}
        BY <2>1 DEF Post, PayoutInstruction, Payout, Instruction
    <2>3. QED
        BY <1>1, <2>2 DEF Journalled, ReceiptReference
<1>9. /\ cycle \in CycleRow /\ Size \in Nat /\ \A o \in DOMAIN turn : turn[o].position \in 1..Size
      /\ cycle.status = "active" /\ cycle.current <= Size /\ turn[m].position = cycle.current
    <2>1. cycle.status # "completed"
        BY <1>1, <1>3 DEF PaidInRotationOrder
    <2>2. QED
        BY <1>1, <2>1, Turns DEF MgrTypeOK, TurnRow, CyclePlace, CycleRow, ResultSuccess, CurrentTurn
<1>10. /\ cycle' \in CycleRow /\ cycle'.status # "none" /\ cycle'.current <= Size
       /\ cycle'.status = "completed" => cycle'.current = Size
       /\ PaidInRotationOrder'
    <2>1. CASE cycle.current = Size
        <3>1. cycle' = [cycle EXCEPT !.status = "completed"]
            BY <1>9, <2>1 DEF ResultSuccess, Advance, Size
        <3>2. cycle' \in CycleRow /\ cycle'.status = "completed" /\ cycle'.current = Size
            BY <1>9, <2>1, <3>1 DEF CycleRow
        <3>3. \A o \in DOMAIN turn : turn'[o].status = "paid"
            BY <1>1, <1>7, <1>9, <2>1 DEF PaidInRotationOrder
        <3>4. PaidInRotationOrder'
            BY <1>7, <3>2, <3>3 DEF PaidInRotationOrder
        <3>5. QED
            BY <1>9, <3>2, <3>4
    <2>2. CASE cycle.current < Size
        <3>1. cycle' = [cycle EXCEPT !.current = @ + 1]
            BY <1>9, <2>2 DEF ResultSuccess, Advance, Size, CycleRow
        <3>2. cycle' \in CycleRow /\ cycle'.status = "active" /\ cycle'.current = cycle.current + 1
            BY <1>9, <2>2, <3>1 DEF CycleRow
        <3>3. \A o \in DOMAIN turn \ {m} : turn[o].position < cycle.current + 1
                                              <=> turn[o].position < cycle.current
            BY <1>1, <1>9 DEF PaidInRotationOrder, CycleRow
        <3>4. \A o \in DOMAIN turn : turn'[o].status = "paid" <=> turn[o].position < cycle.current + 1
            BY <1>1, <1>7, <1>9, <3>3 DEF PaidInRotationOrder, CycleRow
        <3>5. PaidInRotationOrder'
            BY <1>7, <3>2, <3>4 DEF PaidInRotationOrder
        <3>6. QED
            BY <1>9, <2>2, <3>2, <3>5 DEF CycleRow
    <2>3. QED
        BY <1>9, <2>1, <2>2 DEF CycleRow
<1>11. UNCHANGED <<active, swaps>>
    BY DEF ResultSuccess
<1>12. MgrTypeOK'
    BY <1>6, <1>7, <1>10, <1>11 DEF MgrTypeOK
<1>13. CyclePlace'
    BY <1>7, <1>10, <1>11 DEF CyclePlace
<1>14. AttemptPlaces'
    BY <1>4, <1>6, <1>7 DEF AttemptPlaces
<1>15. OneLiveAttempt'
    BY <1>2, <1>4, <1>6 DEF OneLiveAttempt
<1>16. PaidIsConfirmed'
    <2>1. \A k \in Nat : Journalled(k)' <=> k \in DOMAIN attempt' /\ attempt'[k].status = "confirmed"
        BY <1>4, <1>6, <1>8 DEF PaidIsConfirmed
    <2>2. \A o \in DOMAIN turn : turn'[o].status = "paid"
                <=> \E k \in DOMAIN attempt : attempt'[k].member = o /\ attempt'[k].status = "confirmed"
        BY <1>1, <1>3, <1>4, <1>6, <1>7 DEF PaidIsConfirmed, Attempts
    <2>3. QED
        BY <1>6, <1>7, <2>1, <2>2 DEF PaidIsConfirmed, Attempts
<1>17. QED
    BY <1>10, <1>12, <1>13, <1>14, <1>15, <1>16

-----------------------------------------------------------------------------
\* A deposit, or a change of membership, leaves the cycle alone.
LEMMA OutsideStepPreserves ==
    ASSUME IInv, UNCHANGED <<cycle, turn, swaps, attempt>>, active' \subseteq Member,
           \A n \in Nat : Journalled(n)' <=> Journalled(n)
    PROVE  IInv'
<1> USE DEF IInv
<1>1. MgrTypeOK' /\ CyclePlace'
    BY DEF MgrTypeOK, CyclePlace, Size
<1>2. PaidInRotationOrder' /\ AttemptPlaces' /\ OneLiveAttempt'
    BY DEF PaidInRotationOrder, AttemptPlaces, OneLiveAttempt
<1>3. PaidIsConfirmed'
    <2>1. \A m : Attempts(m)' = Attempts(m)
        BY DEF Attempts
    <2>2. QED
        BY <2>1 DEF PaidIsConfirmed
<1>4. QED
    BY <1>1, <1>2, <1>3

\* The queue a cycle starts with holds every position once.
LEMMA CreateCyclePreserves ==
    ASSUME IInv, CreateCycle
    PROVE  IInv'
<1> USE DEF IInv
<1> DEFINE size == Cardinality(active)
<1>1. IsFiniteSet(active) /\ size \in Nat /\ size >= 2
    BY FS_Subset, FS_CardinalityType DEF MgrTypeOK, CreateCycle
<1>2. PICK order \in Bijection(active, 1..size) :
         turn' = [m \in active |-> [position |-> order[m], status |-> "scheduled"]]
    BY DEF CreateCycle
<1>3. /\ order \in [active -> 1..size]
      /\ \A m, o \in active : m # o => order[m] # order[o]
    BY <1>2 DEF Bijection, Injection, IsInjective
<1>4. /\ DOMAIN turn = {} /\ DOMAIN attempt = {} /\ attempt' = attempt /\ active' = active
      /\ swaps = {} /\ swaps' = {}
    BY DEF CreateCycle, CyclePlace, MgrTypeOK
<1>5. /\ DOMAIN turn' = active /\ Size' = size
      /\ turn' \in [active -> TurnRow(size)]
      /\ \A m \in active : turn'[m].position = order[m] /\ turn'[m].status = "scheduled"
    BY <1>2, <1>3 DEF Size, TurnRow
<1>6. cycle' = [cycle EXCEPT !.status = "active"] /\ cycle.current = 1
    BY DEF CreateCycle, CyclePlace
<1>7. cycle' \in CycleRow /\ cycle'.status = "active" /\ cycle'.current = 1
    BY <1>6 DEF MgrTypeOK, CycleRow
<1>8. MgrTypeOK' /\ CyclePlace'
    BY <1>1, <1>4, <1>5, <1>7 DEF MgrTypeOK, CyclePlace
<1>9. PaidInRotationOrder'
    BY <1>1, <1>3, <1>5, <1>7 DEF PaidInRotationOrder
<1>10. AttemptPlaces' /\ OneLiveAttempt'
    BY <1>4 DEF AttemptPlaces, OneLiveAttempt
<1>11. PaidIsConfirmed'
    BY <1>4, <1>5 DEF PaidIsConfirmed, Attempts, Journalled, CreateCycle
<1>12. QED
    BY <1>8, <1>9, <1>10, <1>11

\* Two scheduled turns, neither before the current one, change places.
LEMMA AcceptSwapPreserves ==
    ASSUME IInv, NEW s \in swaps, AcceptSwap(s)
    PROVE  IInv'
<1> USE DEF IInv
<1> DEFINE p == s.requester
           q == s.target
<1>1. p \in DOMAIN turn /\ q \in DOMAIN turn /\ p # q
    BY DEF MgrTypeOK, CyclePlace
<1>2. turn \in [DOMAIN turn -> TurnRow(Size)] /\ cycle.status = "active"
    BY DEF MgrTypeOK, AcceptSwap
<1>3. turn' = [turn EXCEPT ![p].position = turn[q].position, ![q].position = turn[p].position]
    BY DEF AcceptSwap
<1>4. /\ turn[p].status = "scheduled" /\ turn[p].position >= cycle.current
      /\ turn[q].status = "scheduled" /\ turn[q].position >= cycle.current
    BY DEF AcceptSwap, Swappable
<1>5. /\ DOMAIN turn' = DOMAIN turn /\ Size' = Size
      /\ turn'[p] = [turn[p] EXCEPT !.position = turn[q].position]
      /\ turn'[q] = [turn[q] EXCEPT !.position = turn[p].position]
      /\ \A m \in DOMAIN turn \ {p, q} : turn'[m] = turn[m]
    BY <1>1, <1>2, <1>3 DEF Size
<1>6. /\ turn'[p] \in TurnRow(Size) /\ turn'[q] \in TurnRow(Size)
      /\ turn'[p].position = turn[q].position /\ turn'[p].status = "scheduled"
      /\ turn'[q].position = turn[p].position /\ turn'[q].status = "scheduled"
    BY <1>1, <1>2, <1>4, <1>5 DEF TurnRow
<1> HIDE DEF p, q
<1>7. \A m \in DOMAIN turn : turn'[m].status = turn[m].status
    BY <1>4, <1>5, <1>6
<1>8. UNCHANGED <<journals, active, cycle, attempt>> /\ swaps' \subseteq swaps
    BY DEF AcceptSwap
<1>9. turn' \in [DOMAIN turn -> TurnRow(Size)]
    BY <1>2, <1>3, <1>5, <1>6
<1>10. MgrTypeOK'
    BY <1>5, <1>8, <1>9 DEF MgrTypeOK
<1>11. CyclePlace'
    BY <1>1, <1>2, <1>5, <1>8 DEF CyclePlace
<1>12. PaidInRotationOrder'
    <2>1. \A m, o \in DOMAIN turn : m # o => turn'[m].position # turn'[o].position
        <3>1. \A m \in DOMAIN turn :
                 turn'[m].position = turn[IF m = p THEN q ELSE IF m = q THEN p ELSE m].position
            BY <1>5, <1>6
        <3>2. QED
            BY <1>1, <3>1 DEF PaidInRotationOrder
    <2>2. cycle.current \in Nat /\ \A m \in DOMAIN turn : turn[m].position \in Nat
        BY Turns DEF TurnRow, MgrTypeOK, CycleRow
    <2>3. \A m \in {p, q} : turn'[m].status # "paid" /\ ~(turn'[m].position < cycle.current)
        BY <1>1, <1>4, <1>6, <2>2
    <2>4. \A m \in DOMAIN turn \ {p, q} :
             turn'[m].status = "paid" <=> turn[m].position < cycle.current
        BY <1>2, <1>7 DEF PaidInRotationOrder
    <2>5. QED
        BY <1>2, <1>5, <1>8, <2>1, <2>3, <2>4 DEF PaidInRotationOrder
<1>13. AttemptPlaces' /\ OneLiveAttempt'
    BY <1>5, <1>8 DEF AttemptPlaces, OneLiveAttempt
<1>14. PaidIsConfirmed'
    BY <1>5, <1>7, <1>8 DEF PaidIsConfirmed, Attempts, Journalled
<1>15. QED
    BY <1>10, <1>11, <1>12, <1>13, <1>14

\* A new attempt is made only when the earlier ones of the turn have failed.
LEMMA DisbursePreserves ==
    ASSUME IInv, NEW m \in Member, Disburse(m)
    PROVE  IInv'
<1> USE DEF IInv
<1> DEFINE new == Len(attempt) + 1
<1>1. m \in DOMAIN turn /\ turn[m].status = "scheduled"
    BY DEF Disburse
<1>2. NewAttempt(m) \in AttemptRow /\ RequestPlace(NewAttempt(m)) /\ OutcomeIsReal(NewAttempt(m))
      /\ NewAttempt(m).member = m /\ NewAttempt(m).status = "pending"
    BY DEF NewAttempt, AttemptRow, RequestPlace, OutcomeIsReal
<1>3. attempt \in Seq(AttemptRow) /\ DOMAIN attempt = 1..Len(attempt) /\ Len(attempt) \in Nat
    BY LenProperties DEF MgrTypeOK
<1>4. attempt' = Append(attempt, NewAttempt(m))
    BY DEF Disburse
<1>5. /\ attempt' \in Seq(AttemptRow) /\ Len(attempt') = new
      /\ attempt'[new] = NewAttempt(m)
      /\ \A k \in DOMAIN attempt : attempt'[k] = attempt[k]
    BY <1>2, <1>3, <1>4, AppendProperties
<1>6. /\ DOMAIN attempt' = DOMAIN attempt \cup {new} /\ new \notin DOMAIN attempt /\ new \in Nat
    BY <1>3, <1>5, LenProperties
<1> HIDE DEF new
<1>7. /\ DOMAIN turn' = DOMAIN turn /\ Size' = Size
      /\ turn' \in [DOMAIN turn -> TurnRow(Size)]
      /\ turn'[m].status = "disbursement_pending"
      /\ \A o \in DOMAIN turn : turn'[o].position = turn[o].position
      /\ \A o \in DOMAIN turn \ {m} : turn'[o] = turn[o]
    BY <1>1, TurnUpdate DEF Disburse
<1>8. UNCHANGED <<journals, active, cycle, swaps>>
    BY DEF Disburse
<1>9. \A k \in DOMAIN attempt : attempt[k].member = m => attempt[k].status = "failed"
    <2>1. \A k \in Attempts(m) : ~Unresolved(k) /\ attempt[k].status # "confirmed"
        BY <1>1 DEF Disburse, PaidIsConfirmed
    <2>2. \A k \in DOMAIN attempt : attempt[k] \in AttemptRow
        BY <1>3, ElementOfSeq
    <2>3. QED
        BY <2>1, <2>2 DEF Attempts, Unresolved, AttemptRow
<1>10. MgrTypeOK'
    BY <1>5, <1>7, <1>8 DEF MgrTypeOK
<1>11. CyclePlace'
    BY <1>1, <1>7, <1>8 DEF CyclePlace, Disburse
<1>12. PaidInRotationOrder'
    BY <1>1, <1>7, <1>8 DEF PaidInRotationOrder
<1>13. AttemptPlaces'
    BY <1>1, <1>2, <1>5, <1>6, <1>7 DEF AttemptPlaces
<1>14. OneLiveAttempt'
    BY <1>2, <1>5, <1>6, <1>9 DEF OneLiveAttempt
<1>15. PaidIsConfirmed'
    <2>1. \A o \in DOMAIN turn : turn'[o].status = "paid" <=> turn[o].status = "paid"
        BY <1>1, <1>7
    <2>2. \A k \in DOMAIN attempt' : attempt'[k].status = "confirmed"
                                       <=> k \in DOMAIN attempt /\ attempt[k].status = "confirmed"
        BY <1>2, <1>5, <1>6
    <2>3. QED
        BY <1>5, <1>6, <1>7, <1>8, <2>1, <2>2 DEF PaidIsConfirmed, Attempts, Journalled
<1>16. QED
    BY <1>10, <1>11, <1>12, <1>13, <1>14, <1>15

-----------------------------------------------------------------------------
\* Every step of a queue operation keeps the invariant.
LEMMA QueuePreserves ==
    ASSUME IInv, Queue
    PROVE  IInv'
<1>1. CASE \E i \in Income : Receive(i)
    <2>1. PICK i \in Income : Receive(i)
        BY <1>1
    <2>2. DOMAIN journals' = DOMAIN journals \cup {<<"mpesa:stk", i>>}
        BY <2>1 DEF Receive, Post, Deposit, Instruction
    <2>3. \A n \in Nat : Journalled(n)' <=> Journalled(n)
        BY <2>2 DEF Journalled, ReceiptReference
    <2>4. QED
        BY <2>1, <2>3, OutsideStepPreserves DEF Receive, IInv, MgrTypeOK
<1>2. CASE \E m \in Member : ChangeMembership(m)
    <2>1. PICK m \in Member : ChangeMembership(m)
        BY <1>2
    <2>2. active' \subseteq Member
        BY <2>1 DEF ChangeMembership, IInv, MgrTypeOK
    <2>3. QED
        BY <2>1, <2>2, OutsideStepPreserves DEF ChangeMembership, Journalled
<1>3. CASE CreateCycle
    BY <1>3, CreateCyclePreserves
<1>4. CASE \E s \in swaps : DropSwap(s)
    BY <1>4 DEF DropSwap, IInv, MgrTypeOK, CyclePlace, Size, PaidInRotationOrder,
                AttemptPlaces, OneLiveAttempt, PaidIsConfirmed, Attempts, Journalled
<1>5. CASE \E m, o \in Member : RequestSwap(m, o)
    <2>1. PICK m \in Member, o \in Member : RequestSwap(m, o)
        BY <1>5
    <2>2. UNCHANGED <<journals, active, cycle, turn, attempt>>
        BY <2>1 DEF RequestSwap
    <2>3. MgrTypeOK' /\ CyclePlace'
        BY <2>1, <2>2 DEF RequestSwap, IInv, MgrTypeOK, CyclePlace, Size
    <2>4. QED
        BY <2>2, <2>3 DEF IInv, PaidInRotationOrder, AttemptPlaces, OneLiveAttempt,
                          PaidIsConfirmed, Attempts, Journalled
<1>6. CASE \E s \in swaps : AcceptSwap(s)
    BY <1>6, AcceptSwapPreserves
<1>7. CASE \E m \in Member : Disburse(m)
    BY <1>7, DisbursePreserves
<1>8. QED
    BY <1>1, <1>2, <1>3, <1>4, <1>5, <1>6, <1>7 DEF Queue

\* The invariant holds in every state of every execution.
THEOREM Invariance == MgrSpec => []IInv
<1>1. MgrInit => IInv
    BY InitInvariant
<1>2. IInv /\ [MgrNext]_mgrVars => IInv'
    <2> SUFFICES ASSUME IInv, [MgrNext]_mgrVars PROVE IInv'
        OBVIOUS
    <2>1. CASE Queue
        BY <2>1, QueuePreserves
    <2>2. CASE \E n \in DOMAIN attempt : Payment(n)
        BY <2>2, RequestPreserves, ReportPreserves, ResultSuccessPreserves DEF Payment
    <2>3. CASE UNCHANGED mgrVars
        <3>1. \A n \in Nat : Journalled(n)' <=> Journalled(n)
            BY <2>3 DEF mgrVars, Journalled
        <3>2. QED
            BY <2>3, <3>1, OutsideStepPreserves DEF mgrVars, IInv, MgrTypeOK
    <2>4. QED
        BY <2>1, <2>2, <2>3 DEF MgrNext
<1>3. QED
    BY <1>1, <1>2, PTL DEF MgrSpec

-----------------------------------------------------------------------------
\* Whatever is swapped, retried or reported late, the paid turns are exactly
\* those before current_position (processB2CResult, decideSwap).
THEOREM RotationOrder == MgrSpec => []PaidInRotationOrder
BY Invariance, PTL DEF IInv

\* One attempt for a turn is open or may pay, next to those the catch block gave
\* up: what failed with a ConversationID was refused.
THEOREM AtMostOneOpen == MgrSpec => []OneOpenAttempt
<1>1. IInv => OneOpenAttempt
    <2> SUFFICES ASSUME IInv, NEW m \in DOMAIN turn
                 PROVE  Cardinality({n \in Attempts(m) :
                                        Unresolved(n) \/ (MayPay(n) /\ ~GivenUp(n))}) <= 1
        BY DEF OneOpenAttempt
    <2> DEFINE open == {n \in Attempts(m) : Unresolved(n) \/ (MayPay(n) /\ ~GivenUp(n))}
    <2>0. \A n \in open : n \in DOMAIN attempt /\ attempt[n].member = m
                          /\ attempt[n].status # "failed"
        <3>1. \A n \in DOMAIN attempt : MayPay(n) /\ attempt[n].status = "failed" => GivenUp(n)
            BY DEF IInv, AttemptPlaces, OutcomeIsReal, MayPay, GivenUp
        <3>2. \A n \in DOMAIN attempt : Unresolved(n) => attempt[n].status # "failed"
            BY DEF Unresolved
        <3>3. QED
            BY <3>1, <3>2 DEF Attempts
    <2>1. \A n, k \in open : n = k
        BY <2>0 DEF IInv, OneLiveAttempt
    <2>2. CASE open = {}
        BY <2>2, FS_EmptySet
    <2>3. CASE open # {}
        <3>1. PICK n \in open : TRUE
            BY <2>3
        <3>2. open = {n}
            BY <2>1, <3>1
        <3>3. QED
            BY <3>2, FS_Singleton
    <2>4. QED
        BY <2>2, <2>3
<1>2. QED
    BY <1>1, Invariance, PTL

\* A paid turn has exactly one posting, any other none, and a posting is for a
\* payout that M-Pesa made (processB2CResult).
THEOREM PostedOnce == MgrSpec => []OnePostingPerTurn
<1>1. IInv => OnePostingPerTurn
    <2> SUFFICES ASSUME IInv PROVE OnePostingPerTurn
        OBVIOUS
    <2>1. DOMAIN attempt \subseteq Nat
        BY LenProperties DEF IInv, MgrTypeOK
    <2>2. \A n \in DOMAIN attempt : Journalled(n) <=> attempt[n].status = "confirmed"
        BY <2>1 DEF IInv, PaidIsConfirmed
    <2>3. \A n \in DOMAIN attempt :
             Journalled(n) => attempt[n].status = "confirmed" /\ attempt[n].provider = "paid"
        BY <2>2 DEF IInv, AttemptPlaces, OutcomeIsReal
    <2>4. ASSUME NEW m \in DOMAIN turn
          PROVE  Cardinality({n \in Attempts(m) : Journalled(n)})
                    = IF turn[m].status = "paid" THEN 1 ELSE 0
        <3> DEFINE posted == {n \in Attempts(m) : Journalled(n)}
        <3>1. CASE turn[m].status = "paid"
            <4>1. PICK n \in Attempts(m) : attempt[n].status = "confirmed"
                BY <3>1 DEF IInv, PaidIsConfirmed
            <4>2. posted = {n}
                BY <2>2, <4>1 DEF IInv, OneLiveAttempt, Attempts
            <4>3. QED
                BY <3>1, <4>2, FS_Singleton
        <3>2. CASE turn[m].status # "paid"
            <4>1. posted = {}
                BY <2>2, <3>2 DEF IInv, PaidIsConfirmed, Attempts
            <4>2. QED
                BY <3>2, <4>1, FS_EmptySet
        <3>3. QED
            BY <3>1, <3>2
    <2>5. QED
        BY <2>3, <2>4 DEF OnePostingPerTurn
<1>2. QED
    BY <1>1, Invariance, PTL

\* No callback, retry or swap moves or reopens a paid turn, and the cycle never
\* goes back (processB2CResult, processB2CTimeout, decideSwap).
THEOREM PaidTurnsStay == MgrSpec => PaidTurnsAreFixed
<1> DEFINE Fixed ==
        /\ \A m \in DOMAIN turn : turn[m].status = "paid" => turn'[m] = turn[m]
        /\ cycle'.current >= cycle.current
        /\ cycle.status = "completed" => cycle' = cycle
<1>1. IInv /\ [MgrNext]_mgrVars => [Fixed]_mgrVars
    <2> SUFFICES ASSUME IInv, MgrNext PROVE Fixed
        BY DEF mgrVars
    <2>0. cycle \in CycleRow /\ cycle.current >= cycle.current
        BY DEF IInv, MgrTypeOK, CycleRow
    <2>1. ASSUME NEW m \in DOMAIN turn, turn[m].status # "paid",
                 NEW status \in {"scheduled", "disbursement_pending", "disputed", "paid"},
                 SetTurn(m, status)
          PROVE  \A o \in DOMAIN turn : turn[o].status = "paid" => turn'[o] = turn[o]
        BY <2>1, TurnUpdate DEF IInv
    <2>2. CASE \E n \in DOMAIN attempt : ResultSuccess(n)
        <3>1. PICK n \in DOMAIN attempt : ResultSuccess(n)
            BY <2>2
        <3> DEFINE m == attempt[n].member
        <3>2. m \in DOMAIN turn /\ SetTurn(m, "paid") /\ turn[m].position = cycle.current /\ Advance
            BY <3>1 DEF IInv, AttemptPlaces, ResultSuccess, CurrentTurn
        <3>3. turn[m].status # "paid"
            <4>1. attempt[n].status # "failed"
                BY <3>1 DEF IInv, AttemptPlaces, OutcomeIsReal, ResultSuccess, ReportsPayment
            <4>2. QED
                BY <3>1, <3>2, <4>1 DEF ResultSuccess, IInv, PaidIsConfirmed, OneLiveAttempt, Attempts
        <3>4. cycle.status # "completed"
            BY <3>2, <3>3 DEF IInv, PaidInRotationOrder
        <3>5. cycle'.current >= cycle.current
            BY <2>0, <3>2 DEF Advance, CycleRow
        <3>6. QED
            BY <2>1, <3>2, <3>3, <3>4, <3>5
    <2>3. CASE \E n \in DOMAIN attempt :
                  FailDispatch(n) \/ ResultFailure(n) \/ Timeout(n)
        <3>1. PICK n \in DOMAIN attempt : FailDispatch(n) \/ ResultFailure(n) \/ Timeout(n)
            BY <2>3
        <3> DEFINE m == attempt[n].member
        <3>2. m \in DOMAIN turn
            BY DEF IInv, AttemptPlaces
        <3>3. UNCHANGED cycle /\ (UNCHANGED turn \/ \E status \in {"scheduled", "disputed"} :
                                     turn[m].status # "paid" /\ SetTurn(m, status))
            BY <3>1 DEF FailDispatch, ResultFailure, Timeout, Reschedule
        <3>4. QED
            BY <2>0, <2>1, <3>2, <3>3
    <2>4. CASE \E n \in DOMAIN attempt :
                  Dispatch(n) \/ RecordDispatch(n) \/ Crash(n) \/ ProviderDecides(n)
        BY <2>0, <2>4 DEF Dispatch, RecordDispatch, Crash, ProviderDecides
    <2>5. CASE \E m \in Member : Disburse(m)
        <3>1. PICK m \in Member : Disburse(m)
            BY <2>5
        <3>2. /\ m \in DOMAIN turn /\ turn[m].status # "paid"
              /\ SetTurn(m, "disbursement_pending") /\ UNCHANGED cycle
            BY <3>1 DEF Disburse
        <3>3. QED
            BY <2>0, <2>1, <3>2
    <2>6. CASE \E s \in swaps : AcceptSwap(s)
        BY <2>0, <2>6 DEF AcceptSwap, Swappable
    <2>7. CASE CreateCycle
        <3>1. DOMAIN turn = {} /\ cycle'.current = cycle.current /\ cycle.status # "completed"
            BY <2>0, <2>7 DEF CreateCycle, IInv, CyclePlace, CycleRow
        <3>2. QED
            BY <2>0, <3>1
    <2>8. CASE UNCHANGED <<cycle, turn>>
        BY <2>0, <2>8
    <2>9. QED
        BY <2>2, <2>3, <2>4, <2>5, <2>6, <2>7, <2>8
           DEF MgrNext, Queue, Payment, Receive, ChangeMembership, RequestSwap, DropSwap
<1>2. QED
    BY <1>1, Invariance, PTL DEF MgrSpec, PaidTurnsAreFixed

-----------------------------------------------------------------------------
\* The attempts never outnumber their bound.
LEMMA AttemptsBounded ==
    /\ MgrInit => Len(attempt) <= MaxAttempts
    /\ IInv /\ Len(attempt) <= MaxAttempts /\ [MgrNext]_mgrVars => Len(attempt') <= MaxAttempts
<1>1. MgrInit => Len(attempt) <= MaxAttempts
    BY PostingAssumption DEF MgrInit
<1>2. ASSUME IInv, Len(attempt) <= MaxAttempts, [MgrNext]_mgrVars
      PROVE  Len(attempt') <= MaxAttempts
    <2> attempt \in Seq(AttemptRow) /\ MaxAttempts \in Nat
        BY <1>2, PostingAssumption DEF IInv, MgrTypeOK
    <2>1. CASE \E m \in Member : Disburse(m)
        <3>1. PICK m \in Member : attempt' = Append(attempt, NewAttempt(m)) /\ Len(attempt) < MaxAttempts
            BY <2>1 DEF Disburse
        <3>2. Len(attempt') = Len(attempt) + 1
            BY <3>1
        <3>3. QED
            BY <3>1, <3>2, LenProperties
    <2>2. CASE \E n \in DOMAIN attempt : Payment(n)
        <3>1. PICK n \in DOMAIN attempt : Payment(n)
            BY <2>2
        <3>2. \E r : attempt' = [attempt EXCEPT ![n] = r]
            BY <3>1 DEF Payment, Dispatch, RecordDispatch, FailDispatch, Crash, ProviderDecides,
                ResultFailure, ResultSuccess, Timeout
        <3>3. Len(attempt') = Len(attempt)
            BY <3>2
        <3>4. QED
            BY <1>2, <3>3
    <2>3. CASE UNCHANGED attempt
        BY <1>2, <2>3
    <2>4. QED
        BY <1>2, <2>1, <2>2, <2>3 DEF MgrNext, mgrVars, Queue, Receive, ChangeMembership, CreateCycle,
            RequestSwap, DropSwap, AcceptSwap
<1>3. QED
    BY <1>1, <1>2

\* Deposits and payouts of turns post instructions of the ledger.
LEMMA StepIsPosting ==
    IInv /\ Len(attempt) <= MaxAttempts /\ [MgrNext]_mgrVars => [LedgerNext]_ledgerVars
<1> SUFFICES ASSUME IInv, Len(attempt) <= MaxAttempts, MgrNext, ~UNCHANGED ledgerVars
             PROVE  LedgerNext
    BY DEF mgrVars, ledgerVars
<1>1. CASE \E i \in Income : Receive(i)
    <2>1. PICK i \in Income : Post(Deposit(<<"mpesa:stk", i>>, Group, PayoutAmount, "KES"))
        BY <1>1 DEF Receive
    <2>2. Deposit(<<"mpesa:stk", i>>, Group, PayoutAmount, "KES") \in Workload
        BY PostingAssumption DEF Postings
    <2>3. QED
        BY <2>1, <2>2 DEF LedgerNext
<1>2. CASE \E n \in DOMAIN attempt : ResultSuccess(n)
    <2>1. PICK n \in DOMAIN attempt : ResultSuccess(n)
        BY <1>2
    <2>2. Post(PayoutInstruction(n))
        BY <2>1 DEF ResultSuccess, ExecuteWithinTransaction
    <2>3. n \in 1..MaxAttempts
        BY LenProperties, PostingAssumption DEF IInv, MgrTypeOK
    <2>4. PayoutInstruction(n) \in Workload
        BY <2>3, PostingAssumption DEF Postings
    <2>5. QED
        BY <2>2, <2>4 DEF LedgerNext
<1>3. QED
    BY <1>1, <1>2 DEF MgrNext, Queue, ChangeMembership, CreateCycle, RequestSwap, DropSwap,
        AcceptSwap, Disburse, Payment, Dispatch, RecordDispatch, FailDispatch, Crash,
        ProviderDecides, ResultFailure, Timeout, ledgerVars

\* A cycle, with its retries and late callbacks, uses the treasury as the ledger
\* allows: one posting for each payout (recordMemberPayoutWithinTransaction).
THEOREM TurnsPostToLedger == MgrSpec => LedgerSpec
<1> DEFINE Bounded == Len(attempt) <= MaxAttempts
<1>1. MgrInit => LedgerInit
    BY DEF MgrInit
<1>2. (MgrInit => Bounded) /\ (IInv /\ Bounded /\ [MgrNext]_mgrVars => Bounded')
    BY AttemptsBounded
<1>3. IInv /\ Bounded /\ [MgrNext]_mgrVars => [LedgerNext]_ledgerVars
    BY StepIsPosting
<1> HIDE DEF Bounded
<1>4. QED
    BY <1>1, <1>2, <1>3, Invariance, PTL DEF MgrSpec, LedgerSpec

\* So the treasury always holds the opening balance and what the journals of
\* deposits and payouts say.
THEOREM TreasuryFollowsJournals == MgrSpec => []BalanceIsJournalled
<1>1. LedgerInv => BalanceIsJournalled
    BY DEF LedgerInv
<1>2. QED
    BY <1>1, TurnsPostToLedger, LedgerInvariance, PTL
=============================================================================
