--------------------------- MODULE BackgroundWork ---------------------------
(***************************************************************************)
(* The worker processes with the services they depend on: what a Chama     *)
(* pays sets the quota its reminders are sent within, and reminders,       *)
(* meetings, reports and scans are claimed by the same workers.            *)
(***************************************************************************)
EXTENDS Delivery, MediaUpload

\* Bound: what one behaviour may begin, how many deaths, and leases that a running
\* attempt outlives, it may meet, and how long it may last.
CONSTANT Agendas

ASSUME BackgroundAssumption ==
    Agendas \subseteq [begins : SUBSET (Job \cup Payment), faults : Nat, until : 0..MaxTime]

VARIABLES agenda, faults

vars == <<paymentsVars, leaseVars, deliveryVars, uploadVars, agenda, faults>>

Init ==
    /\ PaymentsInit
    /\ LeaseInit
    /\ DeliveryInit
    /\ UploadInit
    /\ agenda \in Agendas
    /\ faults = 0

-----------------------------------------------------------------------------
\* Each component with the variables of the others unchanged.
OnPayments(A) == A /\ UNCHANGED <<leaseVars, deliveryVars, uploadVars>>
OnLeases(A)   == A /\ UNCHANGED <<paymentsVars, deliveryVars, uploadVars>>
OnDelivery(A) == A /\ UNCHANGED <<paymentsVars, uploadVars>>
OnUploads(A)  == A /\ UNCHANGED <<paymentsVars, deliveryVars>>

\* A lease expires under an attempt that is still running.
Outlived(j) == ~Orphaned(j) /\ AttemptExpires(j)

\* Calls of the API, and what the workers enqueue for themselves.
Begin ==
    /\ \/ OnPayments(\E p \in Payment \cap agenda.begins, item \in Items : Initiate(p, item))
       \/ OnDelivery(\E j \in Job \cap agenda.begins : Enqueue(j))
       \/ OnUploads(\E j \in Upload \cap agenda.begins : CreateUpload(j))
    /\ UNCHANGED <<agenda, faults>>

Fault ==
    /\ faults < agenda.faults
    /\ faults' = faults + 1
    /\ \/ OnPayments(\E p \in Payment : InitiationDies(p))
       \/ OnDelivery(\E w \in Worker : DeliveryDies(w))
       \/ OnDelivery(\E j \in Job : Outlived(j))
    /\ UNCHANGED agenda

Serve(w) ==
    /\ OnDelivery(DeliveryStep(w)) \/ OnUploads(ScanStep(w))
    /\ UNCHANGED <<agenda, faults>>

ClaimSome(j) ==
    /\ OnLeases(\E w \in Worker : Claim(w, j))
    /\ UNCHANGED <<agenda, faults>>

Reclaimable(j) ==
    /\ OnDelivery(Orphaned(j) /\ AttemptExpires(j))
    /\ UNCHANGED <<agenda, faults>>

Elsewhere ==
    /\ \/ OnPayments(now < agenda.until /\ TimePasses)
       \/ OnPayments(\E p \in Payment : PaymentStep(p))
       \/ OnDelivery(\E j \in Job : MeetingStarts(j) \/ ReportExpires(j))
       \/ OnUploads(\E j \in Upload : UploadStep(j))
    /\ UNCHANGED <<agenda, faults>>

Work   == \E w \in Worker : Serve(w)
Poll   == \E j \in Job : ClaimSome(j)
Lapse  == \E j \in Job : Reclaimable(j)

Next == Begin \/ Fault \/ Elsewhere \/ Work \/ Poll \/ Lapse

\* Some worker goes on: the scheduler runs every batch again and again, the calls
\* of an attempt return, and leases expire with the clock.  Which worker or job
\* is served is open; customers, users and deaths are free.
Fairness == WF_vars(Work) /\ WF_vars(Poll) /\ WF_vars(Lapse)

Spec == Init /\ [][Next]_vars /\ Fairness
-----------------------------------------------------------------------------
\* The last attempt at a report or a scan is over and its lease is still in the
\* row: the process died, or a scanner answered after the lease.  Only a claim
\* writes anything about it, and none takes a job at the maximum.
Abandoned(j) ==
    /\ Kind[j] \in {"report", "scan"}
    /\ jobs[j].token = MaxAttempts /\ MaxAttempts \in lost[j]
    /\ \A w \in Worker : work[w].job # j

\* Once processes stop dying, everything that was asked for comes to an end:
\* reminders and meetings are sent, cancelled or failed, whatever died with them,
\* and a report or a scan fails unless its very last attempt was lost.  The
\* exception is not what src/README.md promises: "Abandoned `processing` leases
\* are recoverable; failures retry with exponential backoff and eventually become
\* `failed`" (line 741), and "scanner failures retry and eventually become
\* terminal `scan_failed`" (line 860).
JobsSettle == \A j \in Job : Open(j) ~> (~Open(j) \/ Abandoned(j))
=============================================================================
