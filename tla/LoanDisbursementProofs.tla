----------------------- MODULE LoanDisbursementProofs -----------------------
(***************************************************************************)
(* Proofs about LoanDisbursement, for any number of loans, members, pledges *)
(* and competing payouts.  The inductive invariant IInv says of each loan  *)
(* how its row, its disbursement, the Chairperson's request, the provider  *)
(* and the journal fit together; a loan is related to the others only by   *)
(* the pledges of a member, which PledgesCovered adds up.                  *)
(***************************************************************************)
EXTENDS LoanDisbursement, TreasuryLedgerProofs

GuarantorList == UNION {[S -> Pledge] : S \in SUBSET Member}

LoanRow ==
    [status : LoanStatus, principal : Amount \cup {0}, guarantors : GuarantorList,
     approved : SUBSET Member, treasurerApproved : BOOLEAN]

DisbursementRow == [status : {"none", "pending", "failed", "confirmed"}, dispatched : BOOLEAN]

RowsOK(rows) ==
    /\ rows \in [Loan -> LoanRow]
    /\ \A l \in Loan : rows[l].approved \subseteq DOMAIN rows[l].guarantors

Secured(row) == SumFunctionOnSet(row.guarantors, row.approved) >= row.principal

\* How far the approvals of a loan have come.
Approved(row) ==
    /\ row.status \notin {"none", "awaiting_guarantors", "rejected"} => Secured(row)
    /\ row.status \in {"partially_approved", "disbursement_pending",
                       "disbursement_failed", "disbursed"} => row.treasurerApproved

\* A payout is begun for an approved loan only.
BegunWhenApproved(row, paid, request, asked, charged) ==
    paid.status # "none" \/ paid.dispatched \/ request # "idle" \/ asked # "none" \/ charged =>
        /\ Secured(row) /\ row.treasurerApproved
        /\ row.status \in {"disbursement_pending", "disbursement_failed", "disbursed", "rejected"}

\* Where the Chairperson's request stands, and what that says of both rows.
RequestPlace(row, paid, request, asked) ==
    /\ request # "idle" => row.status # "rejected"
    /\ request # "idle" /\ ~paid.dispatched =>
          row.status = "disbursement_pending" /\ paid.status = "pending"
    /\ request = "dispatch" => asked = "none" /\ ~paid.dispatched
    /\ request = "record" => asked # "none" /\ ~paid.dispatched
    /\ paid.dispatched =>
          /\ asked # "none"
          /\ row.status \in {"disbursement_pending", "disbursement_failed", "disbursed"}

\* The journal has a payout exactly of what the provider paid and was recorded.
ChargedWhenPaid(row, paid, asked, charged) ==
    /\ charged => /\ asked = "paid" /\ paid.dispatched
                  /\ row.status \in {"disbursed", "disbursement_failed"}
    /\ row.status = "disbursed" => charged

Consistent(row, paid, request, asked, charged) ==
    /\ Approved(row)
    /\ BegunWhenApproved(row, paid, request, asked, charged)
    /\ RequestPlace(row, paid, request, asked)
    /\ ChargedWhenPaid(row, paid, asked, charged)

LoanPlaces ==
    \A l \in Loan :
        Consistent(loan[l], disbursement[l], approval[l], provider[l], Journalled(l))

IInv == LoanTypeOK /\ RowsOK(loan) /\ LoanPlaces /\ PledgesCovered

USE LoanAssumption, GroupAssumption

-----------------------------------------------------------------------------
\* The loans on which a pledge of m counts, and what these pledges add up to.
Held(rows, m) ==
    {l \in Loan : m \in rows[l].approved /\ rows[l].status \notin {"none", "rejected"}}

Burden(rows, m) == SumFunction([l \in Held(rows, m) |-> rows[l].guarantors[m]])

\* PledgesCovered in terms of the sum of what a member pledged.
LEMMA CoveredByBurden ==
    PledgesCovered <=> \A m \in Member : Burden(loan, m) <= savings[m]
BY DEF PledgesCovered, Pledged, Burden, Held, Encumbering

\* A list of guarantors names members, each with a pledge.
LEMMA GuarantorsPledge ==
    ASSUME NEW g \in GuarantorList
    PROVE  DOMAIN g \subseteq Member /\ \A m \in DOMAIN g : g[m] \in Nat
BY PledgeAssumption DEF GuarantorList

\* The pledges counted for a member are numbers, and so is their sum.
LEMMA BurdenIsSum ==
    ASSUME NEW rows, RowsOK(rows), NEW m
    PROVE  LET f == [l \in Loan |-> rows[l].guarantors[m]]
           IN  /\ IsFiniteSet(Held(rows, m))
               /\ \A l \in Held(rows, m) : f[l] \in Nat
               /\ Burden(rows, m) = SumFunctionOnSet(f, Held(rows, m))
<1> DEFINE H == Held(rows, m)
           f == [l \in Loan |-> rows[l].guarantors[m]]
           h == [l \in H |-> rows[l].guarantors[m]]
<1>1. IsFiniteSet(H) /\ H \subseteq Loan
    BY FS_Subset DEF Held
<1>2. \A l \in H : f[l] \in Nat
    <2> SUFFICES ASSUME NEW l \in H PROVE rows[l].guarantors[m] \in Nat
        BY <1>1
    <2>1. l \in Loan /\ m \in rows[l].approved /\ rows[l] \in LoanRow
          /\ rows[l].approved \subseteq DOMAIN rows[l].guarantors
        BY DEF Held, RowsOK
    <2>2. rows[l].guarantors \in GuarantorList
        BY <2>1 DEF LoanRow
    <2>3. QED
        BY <2>1, <2>2, GuarantorsPledge
<1>3. Burden(rows, m) = SumFunctionOnSet(h, H)
    BY DEF Burden, SumFunction
<1>4. \A l \in H : h[l] = f[l]
    BY <1>1
<1> HIDE DEF f, h
<1>5. SumFunctionOnSet(h, H) = SumFunctionOnSet(f, H)
    BY <1>1, <1>4, SumOfSameValues
<1>6. QED
    BY <1>1, <1>2, <1>3, <1>5 DEF f

\* A member whose counted pledges become fewer, each as it was, owes no more.
LEMMA FewerPledges ==
    ASSUME NEW old, NEW new, RowsOK(old), RowsOK(new), NEW m, Held(new, m) \subseteq Held(old, m),
           \A l \in Held(new, m) : new[l].guarantors = old[l].guarantors
    PROVE  Burden(new, m) \in Nat /\ Burden(old, m) \in Nat /\ Burden(new, m) <= Burden(old, m)
<1> DEFINE f == [l \in Loan |-> old[l].guarantors[m]]
           g == [l \in Loan |-> new[l].guarantors[m]]
<1>1. /\ IsFiniteSet(Held(old, m)) /\ \A l \in Held(old, m) : f[l] \in Nat
      /\ Burden(old, m) = SumFunctionOnSet(f, Held(old, m))
    BY BurdenIsSum
<1>2. /\ IsFiniteSet(Held(new, m))
      /\ Burden(new, m) = SumFunctionOnSet(g, Held(new, m))
    BY BurdenIsSum
<1>3. \A l \in Held(new, m) : g[l] = f[l]
    BY DEF Held
<1> HIDE DEF f, g
<1>4. SumFunctionOnSet(g, Held(new, m)) = SumFunctionOnSet(f, Held(new, m))
    BY <1>2, <1>3, SumOfSameValues
<1>5. QED
    BY <1>1, <1>2, <1>4, SumOfFewer

\* A pledge that begins to count on one more loan adds its amount.
LEMMA OneMorePledge ==
    ASSUME NEW old, NEW new, RowsOK(old), RowsOK(new), NEW m, NEW l \in Loan,
           l \notin Held(old, m), Held(new, m) = Held(old, m) \cup {l},
           \A x \in Held(new, m) : new[x].guarantors = old[x].guarantors
    PROVE  Burden(new, m) = Burden(old, m) + old[l].guarantors[m]
<1> DEFINE f == [x \in Loan |-> old[x].guarantors[m]]
           g == [x \in Loan |-> new[x].guarantors[m]]
<1>1. /\ IsFiniteSet(Held(new, m)) /\ \A x \in Held(new, m) : g[x] \in Nat
      /\ Burden(new, m) = SumFunctionOnSet(g, Held(new, m))
    BY BurdenIsSum
<1>2. /\ IsFiniteSet(Held(old, m))
      /\ Burden(old, m) = SumFunctionOnSet(f, Held(old, m))
    BY BurdenIsSum
<1>3. \A x \in Held(new, m) : g[x] = f[x]
    BY DEF Held
<1>4. f[l] = old[l].guarantors[m]
    OBVIOUS
<1> HIDE DEF f, g
<1>5. \A x \in Held(new, m) : f[x] \in Int
    BY <1>1, <1>3
<1>6. SumFunctionOnSet(g, Held(new, m)) = SumFunctionOnSet(f, Held(new, m))
    BY <1>1, <1>3, SumOfSameValues
<1>7. SumFunctionOnSet(f, Held(old, m) \cup {l}) = SumFunctionOnSet(f, Held(old, m)) + f[l]
    BY <1>1, <1>5, SumWithOneMore
<1>8. QED
    BY <1>1, <1>2, <1>4, <1>6, <1>7

-----------------------------------------------------------------------------
\* What writing the row of one loan leaves as it is.
LEMMA RowUpdate ==
    ASSUME RowsOK(loan), NEW l \in Loan, NEW r \in LoanRow, r.approved \subseteq DOMAIN r.guarantors,
           loan' = [loan EXCEPT ![l] = r]
    PROVE  RowsOK(loan') /\ loan'[l] = r /\ \A x \in Loan \ {l} : loan'[x] = loan[x]
BY DEF RowsOK

\* A loan that changes only its status, and no further than `rejected` from open,
\* leaves every member covered.
LEMMA StatusStep ==
    ASSUME IInv, NEW l \in Loan, NEW status \in LoanStatus, NEW flag \in BOOLEAN,
           loan' = [loan EXCEPT ![l] = [loan[l] EXCEPT !.status = status,
                                                       !.treasurerApproved = flag]],
           Encumbering(l) \/ status = "rejected",
           UNCHANGED savings
    PROVE  /\ RowsOK(loan') /\ PledgesCovered'
           /\ loan'[l].status = status /\ loan'[l].treasurerApproved = flag
           /\ Secured(loan'[l]) <=> Secured(loan[l])
           /\ \A x \in Loan \ {l} : loan'[x] = loan[x]
<1> DEFINE r == [loan[l] EXCEPT !.status = status, !.treasurerApproved = flag]
<1>1. loan[l] \in LoanRow /\ loan[l].approved \subseteq DOMAIN loan[l].guarantors
    BY DEF IInv, RowsOK
<1>2. /\ r \in LoanRow /\ r.status = status /\ r.treasurerApproved = flag
      /\ r.guarantors = loan[l].guarantors /\ r.approved = loan[l].approved
      /\ Secured(r) <=> Secured(loan[l])
    BY <1>1 DEF LoanRow, Secured
<1>a. loan' = [loan EXCEPT ![l] = r]
    OBVIOUS
<1> HIDE DEF r
<1>3. RowsOK(loan') /\ loan'[l] = r /\ \A x \in Loan \ {l} : loan'[x] = loan[x]
    BY <1>1, <1>2, <1>a, RowUpdate DEF IInv
<1>4. ASSUME NEW m \in Member PROVE Burden(loan', m) <= savings'[m]
    <2>1. Held(loan', m) \subseteq Held(loan, m)
        BY <1>2, <1>3 DEF Held, Encumbering
    <2>2. \A x \in Held(loan', m) : loan'[x].guarantors = loan[x].guarantors
        BY <1>2, <1>3 DEF Held
    <2>3. Burden(loan', m) \in Nat /\ Burden(loan, m) \in Nat /\ Burden(loan', m) <= Burden(loan, m)
        BY <1>3, <2>1, <2>2, FewerPledges DEF IInv
    <2>4. savings[m] \in Nat /\ Burden(loan, m) <= savings[m]
        BY CoveredByBurden DEF IInv, LoanTypeOK
    <2>5. QED
        BY <2>3, <2>4
<1>5. PledgesCovered'
    BY <1>4 DEF PledgesCovered, Pledged, Burden, Held, Encumbering
<1>6. QED
    BY <1>2, <1>3, <1>5

\* A posting keeps every treasury a natural number and every earlier journal.
LEMMA PostKeepsTypes ==
    ASSUME LoanTypeOK, NEW i, Post(i), \A c \in DOMAIN i.deltas : i.deltas[c] \in Int
    PROVE  /\ pooled' \in [Chama -> Nat]
           /\ \A r \in DOMAIN journals' : journals'[r].reference = r
           /\ DOMAIN journals' = DOMAIN journals \cup {i.reference}
           /\ i.reference \notin DOMAIN journals
           /\ \A r \in DOMAIN journals : journals'[r] = journals[r]
<1>1. \A c \in Chama : pooled'[c] \in Int /\ pooled'[c] >= 0
    BY DEF LoanTypeOK, Post, After, Solvent
<1>2. pooled' \in [Chama -> Nat]
    BY <1>1 DEF LoanTypeOK, Post, After
<1>3. QED
    BY <1>2 DEF LoanTypeOK, Post

\* The references of the three kinds of posting never meet.
LEMMA ReferencesDiffer ==
    \A l, x \in Loan : \A y :
        /\ LoanReference(l) # <<"mpesa:stk", y>> /\ LoanReference(l) # <<"mgr-payout", y>>
        /\ l # x => LoanReference(l) # LoanReference(x)
BY DEF LoanReference

\* What is left to show of a step that concerns one loan.
LEMMA OneLoanStep ==
    ASSUME IInv, NEW l \in Loan, RowsOK(loan'), PledgesCovered', UNCHANGED <<savings, minGuarantors>>,
           pooled' \in [Chama -> Nat],
           \A r \in DOMAIN journals' : journals'[r].reference = r,
           disbursement' \in [Loan -> DisbursementRow],
           approval' \in [Loan -> {"idle", "dispatch", "record", "fail"}],
           provider' \in [Loan -> {"none", "accepted", "paid", "refused"}],
           \A x \in Loan \ {l} :
              /\ loan'[x] = loan[x] /\ disbursement'[x] = disbursement[x]
              /\ approval'[x] = approval[x] /\ provider'[x] = provider[x]
              /\ Journalled(x)' <=> Journalled(x),
           Consistent(loan'[l], disbursement'[l], approval'[l], provider'[l], Journalled(l)')
    PROVE  IInv'
<1>1. LoanTypeOK'
    <2>1. \A x \in Loan : loan'[x] \in LoanRow /\ DOMAIN loan'[x].guarantors \subseteq Member
        BY GuarantorsPledge DEF RowsOK, LoanRow
    <2>2. QED
        BY <2>1 DEF LoanTypeOK, RowsOK, LoanRow, DisbursementRow, IInv
<1>2. LoanPlaces'
    <2>1. ASSUME NEW x \in Loan \ {l}
          PROVE  Consistent(loan'[x], disbursement'[x], approval'[x], provider'[x], Journalled(x)')
        <3>1. Consistent(loan[x], disbursement[x], approval[x], provider[x], Journalled(x))
            BY DEF IInv, LoanPlaces
        <3>2. Journalled(x)' = Journalled(x)
            BY DEF Journalled
        <3>3. QED
            BY <3>1, <3>2
    <2>2. QED
        BY <2>1 DEF LoanPlaces
<1>3. QED
    BY <1>1, <1>2 DEF IInv

-----------------------------------------------------------------------------
\* The initial states satisfy the invariant: there are no loans yet.
LEMMA InitInvariant == LoanInit => IInv
<1> SUFFICES ASSUME LoanInit PROVE IInv
    OBVIOUS
<1> USE DEF LoanInit, LedgerInit
<1>1. NoLoan.guarantors \in GuarantorList
    <2>1. NoLoan.guarantors \in [{} -> Pledge]
        BY DEF NoLoan
    <2>2. QED
        BY <2>1 DEF GuarantorList
<1>2. NoLoan \in LoanRow
    BY <1>1 DEF NoLoan, LoanRow, LoanStatus
<1>3. RowsOK(loan)
    BY <1>2 DEF RowsOK, NoLoan
<1>4. LoanTypeOK
    BY WorkloadAssumption DEF LoanTypeOK, NoLoan, LoanStatus, NoDisbursement
<1>5. LoanPlaces
    BY DEF LoanPlaces, Consistent, Approved, BegunWhenApproved, RequestPlace, ChargedWhenPaid,
           NoLoan, NoDisbursement, Journalled
<1>6. PledgesCovered
    <2>1. ASSUME NEW m \in Member PROVE Burden(loan, m) <= savings[m]
        <3>1. Held(loan, m) = {}
            BY DEF Held, NoLoan
        <3>2. Burden(loan, m) = SumFunctionOnSet([l \in {} |-> loan[l].guarantors[m]], {})
            BY <3>1 DEF Burden, SumFunction
        <3>3. Burden(loan, m) = 0
            BY <3>2, SumOfNothing
        <3>4. QED
            BY <3>3
    <2>2. QED
        BY <2>1, CoveredByBurden
<1>7. QED
    BY <1>3, <1>4, <1>5, <1>6 DEF IInv

\* Contributions and other payouts share the treasury and touch no loan.
LEMMA TreasuryPreserves ==
    ASSUME IInv,
           \/ \E m \in Member, a \in Amount, r \in Receipt : Contribute(m, a, r)
           \/ \E t \in Turn, a \in Amount : PayTurn(t, a)
    PROVE  IInv'
<1>1. ASSUME NEW i, Post(i), \A c \in DOMAIN i.deltas : i.deltas[c] \in Int,
             \A l \in Loan : i.reference # LoanReference(l),
             savings' \in [Member -> Nat], \A m \in Member : savings'[m] >= savings[m],
             UNCHANGED <<minGuarantors, loan, disbursement, approval, provider>>
      PROVE  IInv'
    <2>1. /\ pooled' \in [Chama -> Nat]
          /\ \A r \in DOMAIN journals' : journals'[r].reference = r
          /\ DOMAIN journals' = DOMAIN journals \cup {i.reference}
        BY <1>1, PostKeepsTypes DEF IInv
    <2>2. LoanTypeOK'
        BY <1>1, <2>1 DEF IInv, LoanTypeOK
    <2>3. \A l \in Loan : Journalled(l)' = Journalled(l)
        BY <1>1, <2>1 DEF Journalled
    <2>4. LoanPlaces'
        BY <1>1, <2>3 DEF IInv, LoanPlaces
    <2>5. PledgesCovered'
        <3>1. ASSUME NEW m \in Member PROVE Burden(loan, m) <= savings'[m]
            <4>1. Burden(loan, m) \in Nat
                BY FewerPledges DEF IInv
            <4>2. Burden(loan, m) <= savings[m] /\ savings[m] \in Nat /\ savings'[m] \in Nat
                  /\ savings'[m] >= savings[m]
                BY <1>1, CoveredByBurden DEF IInv, LoanTypeOK
            <4>3. QED
                BY <4>1, <4>2
        <3>2. QED
            BY <1>1, <3>1 DEF PledgesCovered, Pledged, Burden, Held, Encumbering
    <2>6. QED
        BY <1>1, <2>2, <2>4, <2>5 DEF IInv
<1>2. CASE \E m \in Member, a \in Amount, r \in Receipt : Contribute(m, a, r)
    <2>1. PICK m \in Member, a \in Amount, r \in Receipt : Contribute(m, a, r)
        BY <1>2
    <2> DEFINE i == Deposit(<<"mpesa:stk", r>>, Group, a, "KES")
    <2>2. Post(i) /\ UNCHANGED <<minGuarantors, loan, disbursement, approval, provider>>
        BY <2>1 DEF Contribute
    <2>3. /\ i.reference = <<"mpesa:stk", r>>
          /\ \A c \in DOMAIN i.deltas : i.deltas[c] \in Int
        BY AmountAssumption DEF Deposit, Instruction
    <2>4. savings' \in [Member -> Nat] /\ \A x \in Member : savings'[x] >= savings[x]
        BY <2>1, AmountAssumption DEF Contribute, IInv, LoanTypeOK
    <2> HIDE DEF i
    <2>5. QED
        BY <1>1, <2>2, <2>3, <2>4, ReferencesDiffer
<1>3. CASE \E t \in Turn, a \in Amount : PayTurn(t, a)
    <2>1. PICK t \in Turn, a \in Amount : PayTurn(t, a)
        BY <1>3
    <2> DEFINE i == Payout(<<"mgr-payout", t>>, Group, a, "KES")
    <2>2. Post(i) /\ UNCHANGED <<savings, minGuarantors, loan, disbursement, approval, provider>>
        BY <2>1 DEF PayTurn
    <2>3. /\ i.reference = <<"mgr-payout", t>>
          /\ \A c \in DOMAIN i.deltas : i.deltas[c] \in Int
        BY AmountAssumption DEF Payout, Instruction
    <2>4. savings' \in [Member -> Nat] /\ \A x \in Member : savings'[x] >= savings[x]
        BY <2>2 DEF IInv, LoanTypeOK
    <2> HIDE DEF i
    <2>5. QED
        BY <1>1, <2>2, <2>3, <2>4, ReferencesDiffer
<1>4. QED
    BY <1>2, <1>3

\* An application encumbers nobody yet.
LEMMA ApplyPreserves ==
    ASSUME IInv, NEW l \in Loan, NEW m \in Member, NEW a \in Amount,
           NEW g \in Nominations(m), Apply(l, m, a, g)
    PROVE  IInv'
<1> DEFINE r == [status |-> "awaiting_guarantors", principal |-> a,
                 guarantors |-> g, approved |-> {}, treasurerApproved |-> FALSE]
<1>1. g \in GuarantorList
    BY DEF Nominations, GuarantorList
<1>2. r \in LoanRow /\ r.approved \subseteq DOMAIN r.guarantors
    BY <1>1 DEF LoanRow, LoanStatus
<1>3. loan' = [loan EXCEPT ![l] = r] /\ loan[l].status = "none"
    BY DEF Apply
<1>4. RowsOK(loan') /\ loan'[l] = r /\ \A x \in Loan \ {l} : loan'[x] = loan[x]
    <2> HIDE DEF r
    <2>1. QED
        BY <1>2, <1>3, RowUpdate DEF IInv
<1>5. PledgesCovered'
    <2>1. ASSUME NEW o \in Member PROVE Burden(loan', o) <= savings'[o]
        <3>1. Held(loan', o) \subseteq Held(loan, o)
              /\ \A x \in Held(loan', o) : loan'[x].guarantors = loan[x].guarantors
            BY <1>3, <1>4 DEF Held
        <3>2. Burden(loan', o) \in Nat /\ Burden(loan, o) \in Nat
              /\ Burden(loan', o) <= Burden(loan, o)
            BY <1>4, <3>1, FewerPledges DEF IInv
        <3>3. savings[o] \in Nat /\ Burden(loan, o) <= savings[o] /\ savings' = savings
            BY CoveredByBurden DEF IInv, LoanTypeOK, Apply
        <3>4. QED
            BY <3>2, <3>3
    <2>2. QED
        BY <2>1 DEF PledgesCovered, Pledged, Burden, Held, Encumbering
<1>6. /\ approval[l] = "idle" /\ provider[l] = "none" /\ ~Journalled(l)
      /\ disbursement[l].status = "none" /\ ~disbursement[l].dispatched
    BY <1>3 DEF IInv, LoanPlaces, Consistent, BegunWhenApproved
<1>7. UNCHANGED <<pooled, journals, savings, minGuarantors, disbursement, approval, provider>>
    BY DEF Apply
<1>8. Consistent(loan'[l], disbursement'[l], approval'[l], provider'[l], Journalled(l)')
    BY <1>4, <1>6, <1>7 DEF Consistent, Approved, BegunWhenApproved, RequestPlace,
                            ChargedWhenPaid, Journalled
<1>9. QED
    BY <1>4, <1>5, <1>7, <1>8, OneLoanStep DEF IInv, LoanTypeOK, DisbursementRow, Journalled

\* A pledge is accepted only within what the member has left.
LEMMA AcceptGuaranteePreserves ==
    ASSUME IInv, NEW l \in Loan, NEW m \in Member, AcceptGuarantee(l, m)
    PROVE  IInv'
<1> DEFINE approved == loan[l].approved \cup {m}
           status == IF Collateralised(l, approved) THEN "pending_admin_approval"
                     ELSE loan[l].status
           r == [loan[l] EXCEPT !.approved = approved, !.status = status]
<1>1. /\ loan[l] \in LoanRow /\ loan[l].status = "awaiting_guarantors"
      /\ m \in DOMAIN loan[l].guarantors \ loan[l].approved
      /\ loan[l].approved \subseteq DOMAIN loan[l].guarantors
    BY DEF IInv, RowsOK, AcceptGuarantee
<1>2. loan' = [loan EXCEPT ![l] = r]
    BY DEF AcceptGuarantee
<1>3. /\ r \in LoanRow /\ r.guarantors = loan[l].guarantors /\ r.approved = approved
      /\ r.principal = loan[l].principal /\ r.status = status
      /\ r.approved \subseteq DOMAIN r.guarantors
    BY <1>1 DEF LoanRow, LoanStatus
<1>4. status = "awaiting_guarantors" \/ (status = "pending_admin_approval" /\ Secured(r))
    BY <1>1, <1>3 DEF Collateralised, Coverage, Secured
<1> HIDE DEF r, status
<1>5. RowsOK(loan') /\ loan'[l] = r /\ \A x \in Loan \ {l} : loan'[x] = loan[x]
    BY <1>2, <1>3, RowUpdate DEF IInv
<1>6. \A x \in Loan : loan'[x].guarantors = loan[x].guarantors
    BY <1>3, <1>5
<1>7. ASSUME NEW o \in Member PROVE Burden(loan', o) <= savings[o]
    <2>1. savings[o] \in Nat /\ Burden(loan, o) <= savings[o]
        BY CoveredByBurden DEF IInv, LoanTypeOK
    <2>2. CASE o # m
        <3>1. Held(loan', o) \subseteq Held(loan, o)
              /\ \A x \in Held(loan', o) : loan'[x].guarantors = loan[x].guarantors
            BY <1>1, <1>3, <1>5, <1>6, <2>2 DEF Held
        <3>2. Burden(loan', o) \in Nat /\ Burden(loan, o) \in Nat
              /\ Burden(loan', o) <= Burden(loan, o)
            BY <1>5, <3>1, FewerPledges DEF IInv
        <3>3. QED
            BY <2>1, <3>2
    <2>3. CASE o = m
        <3>1. l \notin Held(loan, m) /\ Held(loan', m) = Held(loan, m) \cup {l}
            BY <1>1, <1>3, <1>4, <1>5 DEF Held
        <3>2. Burden(loan', m) = Burden(loan, m) + loan[l].guarantors[m]
            <4>1. \A x \in Held(loan', m) : loan'[x].guarantors = loan[x].guarantors
                BY <1>6 DEF Held
            <4>2. QED
                BY <1>5, <3>1, <4>1, OneMorePledge DEF IInv
        <3>3. LockedGuarantees(m, l) = Burden(loan, m)
            <4>1. {x \in Loan \ {l} : m \in loan[x].approved /\ Encumbering(x)} = Held(loan, m)
                BY <3>1 DEF Held, Encumbering
            <4>2. QED
                BY <4>1 DEF LockedGuarantees, Pledged, Burden
        <3>4. loan[l].guarantors[m] <= savings[m] - Burden(loan, m)
            BY <3>3 DEF AcceptGuarantee
        <3>5. loan[l].guarantors[m] \in Nat /\ Burden(loan, m) \in Nat
            BY <1>1, GuarantorsPledge, FewerPledges DEF LoanRow, IInv
        <3>6. QED
            BY <2>1, <2>3, <3>2, <3>4, <3>5
    <2>4. QED
        BY <2>2, <2>3
<1>8. UNCHANGED <<pooled, journals, savings, minGuarantors, disbursement, approval, provider>>
    BY DEF AcceptGuarantee
<1>9. PledgesCovered'
    BY <1>7, <1>8 DEF PledgesCovered, Pledged, Burden, Held, Encumbering
<1>10. /\ approval[l] = "idle" /\ provider[l] = "none" /\ ~Journalled(l)
       /\ disbursement[l].status = "none" /\ ~disbursement[l].dispatched
    BY <1>1 DEF IInv, LoanPlaces, Consistent, BegunWhenApproved
<1>11. Consistent(loan'[l], disbursement'[l], approval'[l], provider'[l], Journalled(l)')
    BY <1>3, <1>4, <1>5, <1>8, <1>10 DEF Consistent, Approved, BegunWhenApproved, RequestPlace,
                            ChargedWhenPaid, Journalled
<1>12. QED
    BY <1>5, <1>8, <1>9, <1>11, OneLoanStep DEF IInv, LoanTypeOK, DisbursementRow, Journalled

\* A step that changes the status or the Treasurer's approval of one open loan,
\* and what else belongs to that loan.
LEMMA StatusStepPreserves ==
    ASSUME IInv, NEW l \in Loan, NEW status \in LoanStatus, NEW f \in BOOLEAN,
           loan' = [loan EXCEPT ![l] = [loan[l] EXCEPT !.status = status, !.treasurerApproved = f]],
           Encumbering(l) \/ status = "rejected",
           UNCHANGED <<savings, minGuarantors, provider>>,
           pooled' \in [Chama -> Nat],
           \A r \in DOMAIN journals' : journals'[r].reference = r,
           disbursement' \in [Loan -> DisbursementRow],
           approval' \in [Loan -> {"idle", "dispatch", "record", "fail"}],
           \A x \in Loan \ {l} :
              /\ disbursement'[x] = disbursement[x] /\ approval'[x] = approval[x]
              /\ Journalled(x)' <=> Journalled(x),
           \A row \in LoanRow :
              row.status = status /\ row.treasurerApproved = f /\ (Secured(row) <=> Secured(loan[l]))
              => Consistent(row, disbursement'[l], approval'[l], provider'[l], Journalled(l)')
    PROVE  IInv'
<1>1. /\ RowsOK(loan') /\ PledgesCovered'
      /\ loan'[l].status = status /\ loan'[l].treasurerApproved = f
      /\ Secured(loan'[l]) <=> Secured(loan[l])
      /\ \A x \in Loan \ {l} : loan'[x] = loan[x]
    BY StatusStep
<1>2. Consistent(loan'[l], disbursement'[l], approval'[l], provider'[l], Journalled(l)')
    BY <1>1 DEF RowsOK
<1>3. \A x \in Loan \ {l} :
         /\ loan'[x] = loan[x] /\ disbursement'[x] = disbursement[x]
         /\ approval'[x] = approval[x] /\ provider'[x] = provider[x]
         /\ Journalled(x)' <=> Journalled(x)
    BY <1>1
<1>4. provider' \in [Loan -> {"none", "accepted", "paid", "refused"}]
    BY DEF IInv, LoanTypeOK
<1>5. QED
    BY <1>1, <1>2, <1>3, <1>4, OneLoanStep

\* A step that leaves the loan itself alone.
LEMMA PayoutStepPreserves ==
    ASSUME IInv, NEW l \in Loan,
           UNCHANGED <<pooled, journals, savings, minGuarantors, loan>>,
           disbursement' \in [Loan -> DisbursementRow],
           approval' \in [Loan -> {"idle", "dispatch", "record", "fail"}],
           provider' \in [Loan -> {"none", "accepted", "paid", "refused"}],
           \A x \in Loan \ {l} : /\ disbursement'[x] = disbursement[x]
                                 /\ approval'[x] = approval[x] /\ provider'[x] = provider[x],
           Consistent(loan[l], disbursement'[l], approval'[l], provider'[l], Journalled(l))
    PROVE  IInv'
<1>1. \A x \in Loan : Journalled(x)' = Journalled(x)
    BY DEF Journalled
<1>2. PledgesCovered'
    BY DEF IInv, PledgesCovered, Pledged, Encumbering
<1>3. RowsOK(loan') /\ pooled' \in [Chama -> Nat]
      /\ \A r \in DOMAIN journals' : journals'[r].reference = r
    BY DEF IInv, LoanTypeOK
<1>4. Consistent(loan'[l], disbursement'[l], approval'[l], provider'[l], Journalled(l)')
    BY <1>1
<1>5. \A x \in Loan \ {l} :
         /\ loan'[x] = loan[x] /\ disbursement'[x] = disbursement[x]
         /\ approval'[x] = approval[x] /\ provider'[x] = provider[x]
         /\ Journalled(x)' <=> Journalled(x)
    BY <1>1
<1>6. QED
    BY <1>2, <1>3, <1>4, <1>5, OneLoanStep

\* What the invariant says of one loan.
LEMMA OneLoan ==
    ASSUME IInv, NEW l \in Loan
    PROVE  /\ loan[l] \in LoanRow /\ loan \in [Loan -> LoanRow]
           /\ disbursement \in [Loan -> DisbursementRow] /\ disbursement[l] \in DisbursementRow
           /\ approval \in [Loan -> {"idle", "dispatch", "record", "fail"}]
           /\ provider \in [Loan -> {"none", "accepted", "paid", "refused"}]
           /\ pooled \in [Chama -> Nat]
           /\ \A r \in DOMAIN journals : journals[r].reference = r
           /\ Consistent(loan[l], disbursement[l], approval[l], provider[l], Journalled(l))
           /\ Journalled(l) \in BOOLEAN
BY DEF IInv, RowsOK, LoanPlaces, LoanTypeOK, DisbursementRow, Journalled

\* The approvals and the rejection of a loan.
LEMMA OfficialsPreserve ==
    ASSUME IInv, NEW l \in Loan, TreasurerApprove(l) \/ ChairApprove(l) \/ Reject(l)
    PROVE  IInv'
<1>1. /\ loan[l] \in LoanRow /\ loan \in [Loan -> LoanRow]
      /\ disbursement \in [Loan -> DisbursementRow]
      /\ Consistent(loan[l], disbursement[l], approval[l], provider[l], Journalled(l))
    BY OneLoan
<1>2. \A x \in Loan : Journalled(x)' <=> Journalled(x)
    BY DEF Journalled, TreasurerApprove, ChairApprove, Reject
<1> USE DEF Consistent, Approved, BegunWhenApproved, RequestPlace, ChargedWhenPaid
<1>3. CASE TreasurerApprove(l)
    <2>1. loan' = [loan EXCEPT ![l] = [loan[l] EXCEPT !.status = "partially_approved",
                                                      !.treasurerApproved = TRUE]]
        BY <1>3 DEF TreasurerApprove
    <2>2. loan[l].status = "pending_admin_approval"
          /\ UNCHANGED <<pooled, journals, savings, minGuarantors, disbursement, approval, provider>>
        BY <1>3 DEF TreasurerApprove
    <2>3. Journalled(l)' = Journalled(l)
        BY <2>2 DEF Journalled
    <2>4. \A row \in LoanRow :
             row.status = "partially_approved" /\ row.treasurerApproved = TRUE
                /\ (Secured(row) <=> Secured(loan[l]))
             => Consistent(row, disbursement'[l], approval'[l], provider'[l], Journalled(l)')
        BY <1>1, <2>2, <2>3
    <2> HIDE DEF Consistent
    <2>5. QED
        BY <1>2, <2>1, <2>2, <2>4, OneLoan, StatusStepPreserves DEF LoanStatus, Encumbering
<1>4. CASE ChairApprove(l)
    <2>1. loan' = [loan EXCEPT ![l] = [loan[l] EXCEPT !.status = "disbursement_pending",
                                                      !.treasurerApproved = loan[l].treasurerApproved]]
        BY <1>1, <1>4 DEF ChairApprove, SetStatus, LoanRow
    <2>2. /\ loan[l].status = "partially_approved" /\ loan[l].treasurerApproved
          /\ disbursement' = [disbursement EXCEPT ![l] = [status |-> "pending", dispatched |-> FALSE]]
          /\ approval' = [approval EXCEPT ![l] = "dispatch"]
          /\ UNCHANGED <<pooled, journals, savings, minGuarantors, provider>>
        BY <1>4 DEF ChairApprove
    <2>3. /\ disbursement' \in [Loan -> DisbursementRow] /\ approval'[l] = "dispatch"
          /\ disbursement'[l].status = "pending" /\ ~disbursement'[l].dispatched
          /\ approval' \in [Loan -> {"idle", "dispatch", "record", "fail"}]
          /\ \A x \in Loan \ {l} : disbursement'[x] = disbursement[x] /\ approval'[x] = approval[x]
        BY <1>1, <2>2 DEF DisbursementRow, IInv, LoanTypeOK
    <2>4. \A row \in LoanRow :
             row.status = "disbursement_pending" /\ row.treasurerApproved = loan[l].treasurerApproved
                /\ (Secured(row) <=> Secured(loan[l]))
             => Consistent(row, disbursement'[l], approval'[l], provider'[l], Journalled(l)')
        BY <1>1, <2>2, <2>3 DEF Journalled
    <2> HIDE DEF Consistent
    <2>5. QED
        BY <1>1, <1>2, <2>1, <2>2, <2>3, <2>4, OneLoan, StatusStepPreserves
           DEF LoanStatus, LoanRow, Encumbering
<1>5. CASE Reject(l)
    <2>1. loan' = [loan EXCEPT ![l] = [loan[l] EXCEPT !.status = "rejected",
                                                      !.treasurerApproved = loan[l].treasurerApproved]]
        BY <1>1, <1>5 DEF Reject, SetStatus, LoanRow
    <2>2. /\ loan[l].status \in {"awaiting_guarantors", "pending_admin_approval",
                                "partially_approved", "disbursement_failed"}
          /\ loan[l].status = "disbursement_failed" => ~disbursement[l].dispatched
          /\ UNCHANGED <<pooled, journals, savings, minGuarantors, disbursement, approval, provider>>
        BY <1>5 DEF Reject, MayReject, Reconciled
    <2>3. Journalled(l)' = Journalled(l)
        BY <2>2 DEF Journalled
    <2>4. \A row \in LoanRow :
             row.status = "rejected" /\ row.treasurerApproved = loan[l].treasurerApproved
                /\ (Secured(row) <=> Secured(loan[l]))
             => Consistent(row, disbursement'[l], approval'[l], provider'[l], Journalled(l)')
        BY <1>1, <2>2, <2>3
    <2> HIDE DEF Consistent
    <2>5. QED
        BY <1>1, <1>2, <2>1, <2>2, <2>4, OneLoan, StatusStepPreserves DEF LoanStatus, LoanRow
<1>6. QED
    BY <1>3, <1>4, <1>5

\* The Chairperson's request around the call of the provider.
LEMMA ApprovalStepPreserves ==
    ASSUME IInv, NEW l \in Loan, ApprovalStep(l)
    PROVE  IInv'
<1> DEFINE d == disbursement[l]
<1>1. /\ loan[l] \in LoanRow /\ loan \in [Loan -> LoanRow]
      /\ disbursement \in [Loan -> DisbursementRow] /\ d \in DisbursementRow
      /\ approval \in [Loan -> {"idle", "dispatch", "record", "fail"}]
      /\ provider \in [Loan -> {"none", "accepted", "paid", "refused"}]
      /\ Consistent(loan[l], d, approval[l], provider[l], Journalled(l))
      /\ Journalled(l) \in BOOLEAN
    BY OneLoan
<1> USE DEF Approved, BegunWhenApproved, RequestPlace, ChargedWhenPaid
<1>2. CASE Dispatch(l)
    <2>1. Consistent(loan[l], disbursement'[l], approval'[l], provider'[l], Journalled(l))
        BY <1>1, <1>2 DEF Dispatch, Consistent
    <2>2. QED
        BY <1>1, <1>2, <2>1, PayoutStepPreserves DEF Dispatch
<1>3. CASE RecordDispatch(l)
    <2>1. disbursement' = disbursement \/ disbursement' = [disbursement EXCEPT ![l] = [d EXCEPT !.dispatched = TRUE]]
        BY <1>3 DEF RecordDispatch
    <2>2. [d EXCEPT !.dispatched = TRUE] \in DisbursementRow
          /\ [d EXCEPT !.dispatched = TRUE].status = d.status
        BY <1>1 DEF DisbursementRow
    <2>3. disbursement' \in [Loan -> DisbursementRow]
        BY <1>1, <2>1, <2>2
    <2>4. Consistent(loan[l], disbursement'[l], approval'[l], provider'[l], Journalled(l))
        BY <1>1, <1>3 DEF RecordDispatch, Consistent, DisbursementRow
    <2>5. QED
        BY <1>1, <1>3, <2>3, <2>4, PayoutStepPreserves DEF RecordDispatch
<1>4. CASE Crash(l)
    <2>1. Consistent(loan[l], disbursement'[l], approval'[l], provider'[l], Journalled(l))
        BY <1>1, <1>4 DEF Crash, Consistent
    <2>2. QED
        BY <1>1, <1>4, <2>1, PayoutStepPreserves DEF Crash
<1>5. CASE ProviderDecides(l)
    <2>1. Consistent(loan[l], disbursement'[l], approval'[l], provider'[l], Journalled(l))
        BY <1>1, <1>5 DEF ProviderDecides, Consistent
    <2>2. QED
        BY <1>1, <1>5, <2>1, PayoutStepPreserves DEF ProviderDecides
<1>6. CASE FailDispatch(l)
    <2>1. loan' = [loan EXCEPT ![l] = [loan[l] EXCEPT !.status = "disbursement_failed",
                                                      !.treasurerApproved = loan[l].treasurerApproved]]
        BY <1>1, <1>6 DEF FailDispatch, SetStatus, LoanRow
    <2>2. /\ disbursement' = [disbursement EXCEPT ![l] = [d EXCEPT !.status = "failed"]]
          /\ approval' = [approval EXCEPT ![l] = "idle"] /\ approval[l] = "fail"
          /\ UNCHANGED <<pooled, journals, savings, minGuarantors, provider>>
        BY <1>6 DEF FailDispatch, SetDisbursement
    <2>3. [d EXCEPT !.status = "failed"] \in DisbursementRow
          /\ [d EXCEPT !.status = "failed"].dispatched = d.dispatched
        BY <1>1 DEF DisbursementRow
    <2>4. /\ disbursement' \in [Loan -> DisbursementRow]
          /\ approval' \in [Loan -> {"idle", "dispatch", "record", "fail"}]
          /\ disbursement'[l].dispatched = d.dispatched /\ approval'[l] = "idle"
          /\ \A x \in Loan \ {l} : disbursement'[x] = disbursement[x] /\ approval'[x] = approval[x]
          /\ \A x \in Loan : Journalled(x)' = Journalled(x)
        BY <1>1, <2>2, <2>3 DEF Journalled
    <2>5. Encumbering(l)
        BY <1>1, <2>2 DEF Consistent, Encumbering
    <2>6. \A row \in LoanRow :
             row.status = "disbursement_failed" /\ row.treasurerApproved = loan[l].treasurerApproved
                /\ (Secured(row) <=> Secured(loan[l]))
             => Consistent(row, disbursement'[l], approval'[l], provider'[l], Journalled(l)')
        BY <1>1, <2>2, <2>4 DEF Consistent
    <2>7. QED
        BY <1>1, <2>1, <2>2, <2>4, <2>5, <2>6, OneLoan, StatusStepPreserves
           DEF LoanStatus, LoanRow
<1>7. QED
    BY <1>2, <1>3, <1>4, <1>5, <1>6 DEF ApprovalStep

\* The provider's reports, in any order and any number.
LEMMA CallbackPreserves ==
    ASSUME IInv, NEW l \in Loan, Callback(l)
    PROVE  IInv'
<1> DEFINE d == disbursement[l]
<1>1. /\ loan[l] \in LoanRow /\ loan \in [Loan -> LoanRow]
      /\ disbursement \in [Loan -> DisbursementRow] /\ d \in DisbursementRow
      /\ Consistent(loan[l], d, approval[l], provider[l], Journalled(l))
      /\ Journalled(l) \in BOOLEAN
    BY OneLoan
<1>2. d.dispatched /\ UNCHANGED <<savings, minGuarantors, approval, provider>>
    BY DEF Callback, ResultSuccess, ResultFailure, Timeout
<1>3. Encumbering(l)
    BY <1>1, <1>2 DEF Consistent, RequestPlace, Encumbering
<1>4. ASSUME NEW status \in LoanStatus,
             NEW stored \in {"none", "pending", "failed", "confirmed"},
             SetStatus(l, status), SetDisbursement(l, stored),
             pooled' \in [Chama -> Nat],
             \A r \in DOMAIN journals' : journals'[r].reference = r,
             \A x \in Loan \ {l} : Journalled(x)' <=> Journalled(x),
             \A row \in LoanRow : \A p \in DisbursementRow :
                /\ row.status = status /\ row.treasurerApproved = loan[l].treasurerApproved
                /\ Secured(row) <=> Secured(loan[l])
                /\ p.status = stored /\ p.dispatched
                => Consistent(row, p, approval[l], provider[l], Journalled(l)')
      PROVE  IInv'
    <2>1. loan' = [loan EXCEPT ![l] = [loan[l] EXCEPT !.status = status,
                                                      !.treasurerApproved = loan[l].treasurerApproved]]
        BY <1>1, <1>4 DEF SetStatus, LoanRow
    <2>2. [d EXCEPT !.status = stored] \in DisbursementRow
        BY <1>1, <1>4 DEF DisbursementRow
    <2>3. /\ disbursement' \in [Loan -> DisbursementRow]
          /\ disbursement'[l].status = stored /\ disbursement'[l].dispatched
          /\ \A x \in Loan \ {l} : disbursement'[x] = disbursement[x]
        BY <1>1, <1>2, <1>4, <2>2 DEF SetDisbursement, DisbursementRow
    <2>4. \A row \in LoanRow :
             row.status = status /\ row.treasurerApproved = loan[l].treasurerApproved
                /\ (Secured(row) <=> Secured(loan[l]))
             => Consistent(row, disbursement'[l], approval'[l], provider'[l], Journalled(l)')
        BY <1>2, <1>4, <2>3
    <2>5. QED
        BY <1>1, <1>2, <1>3, <1>4, <2>1, <2>3, <2>4, OneLoan, StatusStepPreserves DEF LoanRow
<1>5. UNCHANGED <<pooled, journals>> =>
        /\ pooled' \in [Chama -> Nat]
        /\ \A r \in DOMAIN journals' : journals'[r].reference = r
        /\ \A x \in Loan : Journalled(x)' = Journalled(x)
    BY OneLoan DEF Journalled
<1> USE DEF Approved, BegunWhenApproved, RequestPlace, ChargedWhenPaid
<1>6. CASE ResultSuccess(l)
    <2> DEFINE i == LoanInstruction(l)
    <2>1. Post(i) \/ (i.reference \in DOMAIN journals /\ UNCHANGED <<pooled, journals>>)
        BY <1>6 DEF ResultSuccess, ExecuteWithinTransaction, ledgerVars
    <2>2. i.reference = LoanReference(l) /\ \A c \in DOMAIN i.deltas : i.deltas[c] \in Int
        <3>1. loan[l].principal \in Nat
            <4>1. loan[l].principal \in Amount \cup {0}
                BY DEF IInv, LoanTypeOK
            <4>2. \A a \in Amount \cup {0} : a \in Nat
                BY AmountAssumption
            <4>3. QED
                BY <4>1, <4>2
        <3>2. QED
            BY <3>1 DEF LoanInstruction, LoanDisbursement, Instruction
    <2> HIDE DEF i
    <2>3. /\ pooled' \in [Chama -> Nat]
          /\ \A r \in DOMAIN journals' : journals'[r].reference = r
          /\ \A x \in Loan \ {l} : Journalled(x)' <=> Journalled(x)
          /\ Journalled(l)'
        <3>1. CASE Post(i)
            <4>1. /\ pooled' \in [Chama -> Nat]
                  /\ \A r \in DOMAIN journals' : journals'[r].reference = r
                  /\ DOMAIN journals' = DOMAIN journals \cup {LoanReference(l)}
                BY <2>2, <3>1, PostKeepsTypes DEF IInv
            <4>2. QED
                BY <4>1, ReferencesDiffer DEF Journalled
        <3>2. CASE i.reference \in DOMAIN journals /\ UNCHANGED <<pooled, journals>>
            BY <1>5, <2>2, <3>2 DEF Journalled
        <3>3. QED
            BY <2>1, <3>1, <3>2
    <2>4. \A row \in LoanRow : \A p \in DisbursementRow :
             /\ row.status = "disbursed" /\ row.treasurerApproved = loan[l].treasurerApproved
             /\ Secured(row) <=> Secured(loan[l])
             /\ p.status = "confirmed" /\ p.dispatched
             => Consistent(row, p, approval[l], provider[l], Journalled(l)')
        BY <1>1, <1>2, <1>6, <2>3 DEF Consistent, ResultSuccess, ReportsPayment
    <2>5. QED
        BY <1>4, <1>6, <2>3, <2>4 DEF ResultSuccess, LoanStatus
<1>7. CASE ResultFailure(l)
    <2>1. \A row \in LoanRow : \A p \in DisbursementRow :
             /\ row.status = "disbursement_failed" /\ row.treasurerApproved = loan[l].treasurerApproved
             /\ Secured(row) <=> Secured(loan[l])
             /\ p.status = "failed" /\ p.dispatched
             => Consistent(row, p, approval[l], provider[l], Journalled(l)')
        BY <1>1, <1>2, <1>5, <1>7 DEF Consistent, ResultFailure
    <2>2. QED
        BY <1>4, <1>5, <1>7, <2>1 DEF ResultFailure, LoanStatus
<1>8. CASE Timeout(l)
    <2> DEFINE status == IF loan[l].status = "disbursement_pending" THEN "disbursement_failed"
                         ELSE loan[l].status
               stored == IF d.status = "pending" THEN "failed" ELSE d.status
    <2>1. status \in LoanStatus /\ stored \in {"none", "pending", "failed", "confirmed"}
        BY <1>1 DEF LoanRow, LoanStatus, DisbursementRow
    <2>2. SetStatus(l, status) /\ SetDisbursement(l, stored) /\ UNCHANGED <<pooled, journals>>
        BY <1>8 DEF Timeout, FailIfPending
    <2>3. \A row \in LoanRow : \A p \in DisbursementRow :
             /\ row.status = status /\ row.treasurerApproved = loan[l].treasurerApproved
             /\ Secured(row) <=> Secured(loan[l])
             /\ p.status = stored /\ p.dispatched
             => Consistent(row, p, approval[l], provider[l], Journalled(l)')
        BY <1>1, <1>2, <1>5, <2>2 DEF Consistent
    <2> HIDE DEF status, stored
    <2>4. QED
        BY <1>4, <1>5, <2>1, <2>2, <2>3
<1>9. QED
    BY <1>6, <1>7, <1>8 DEF Callback

-----------------------------------------------------------------------------
\* Every step keeps the invariant.
LEMMA StepInvariant == IInv /\ [LoanNext]_loanVars => IInv'
<1> SUFFICES ASSUME IInv, [LoanNext]_loanVars PROVE IInv'
    OBVIOUS
<1>1. CASE Office
    <2>1. CASE \E n \in MinGuarantors : UpsertRule(n)
        <3>1. UNCHANGED <<pooled, journals, savings, loan, disbursement, approval, provider>>
              /\ minGuarantors' \in MinGuarantors
            BY <2>1 DEF UpsertRule
        <3>2. \A l \in Loan : Journalled(l)' = Journalled(l)
            BY <3>1 DEF Journalled
        <3>3. QED
            BY <3>1, <3>2 DEF IInv, LoanTypeOK, LoanPlaces, PledgesCovered, Pledged, Encumbering
    <2>2. QED
        BY <1>1, <2>1, TreasuryPreserves, ApplyPreserves, AcceptGuaranteePreserves,
           OfficialsPreserve DEF Office
<1>2. CASE \E l \in Loan : ApprovalStep(l) \/ Callback(l)
    BY <1>2, ApprovalStepPreserves, CallbackPreserves
<1>3. CASE UNCHANGED loanVars
    <2>1. \A l \in Loan : Journalled(l)' = Journalled(l)
        BY <1>3 DEF Journalled, loanVars
    <2>2. QED
        BY <1>3, <2>1 DEF loanVars, IInv, LoanTypeOK, LoanPlaces, PledgesCovered, Pledged, Encumbering
<1>4. QED
    BY <1>1, <1>2, <1>3 DEF LoanNext

\* The invariant holds in every state of every execution.
THEOREM Invariance == LoanSpec => []IInv
BY InitInvariant, StepInvariant, PTL DEF LoanSpec

-----------------------------------------------------------------------------
\* Every variable keeps its type, and no treasury goes below zero.
THEOREM TypeCorrect == LoanSpec => []LoanTypeOK
BY Invariance, PTL DEF IInv

\* However many loans a member guarantees, the savings cover all the pledges
\* that still count (acceptGuarantee, reject).
THEOREM SavingsCoverPledges == LoanSpec => []PledgesCovered
BY Invariance, PTL DEF IInv

\* The provider is asked only to pay a loan that the Treasurer approved and the
\* guarantors cover in full (approve).
THEOREM OnlyAuthorisedPayouts == LoanSpec => []PayoutIsAuthorised
<1>1. IInv => PayoutIsAuthorised
    BY DEF IInv, LoanPlaces, Consistent, BegunWhenApproved, Secured, PayoutIsAuthorised, Coverage
<1>2. QED
    BY <1>1, Invariance, PTL

\* The treasury is charged only for loans that M-Pesa paid, and every disbursed
\* loan was charged (processB2CResult).
THEOREM ChargedWhatWasPaid == LoanSpec => []JournalMatchesPayout
<1>1. IInv => JournalMatchesPayout
    BY DEF IInv, LoanPlaces, Consistent, ChargedWhenPaid, JournalMatchesPayout
<1>2. QED
    BY <1>1, Invariance, PTL

\* A payout that M-Pesa acknowledged is not rejected away (reject).
THEOREM CollateralStays == LoanSpec => []DispatchedLoanKeepsCollateral
<1>1. IInv => DispatchedLoanKeepsCollateral
    BY DEF IInv, LoanPlaces, Consistent, RequestPlace, DispatchedLoanKeepsCollateral
<1>2. QED
    BY <1>1, Invariance, PTL

\* No late or repeated report touches a settled loan's journal, and only the
\* catch block of its own approval makes a disbursed loan read failed.
THEOREM SettledForGood == LoanSpec => SettlementIsFinal
<1> DEFINE Final(l) ==
        /\ Journalled(l) => Journalled(l)' /\ journals'[LoanReference(l)] = journals[LoanReference(l)]
        /\ loan[l].status = "disbursed" /\ loan'[l].status # "disbursed" => approval[l] = "fail"
<1>1. IInv /\ [LoanNext]_loanVars => [\A l \in Loan : Final(l)]_loanVars
    <2> SUFFICES ASSUME IInv, LoanNext, NEW l \in Loan PROVE Final(l)
        OBVIOUS
    <2>1. /\ loan[l] \in LoanRow /\ loan \in [Loan -> LoanRow]
          /\ Consistent(loan[l], disbursement[l], approval[l], provider[l], Journalled(l))
        BY OneLoan
    <2>2. \A r \in DOMAIN journals : r \in DOMAIN journals' /\ journals'[r] = journals[r]
        <3>1. ASSUME NEW i, Post(i)
              PROVE  \A r \in DOMAIN journals : r \in DOMAIN journals' /\ journals'[r] = journals[r]
            BY <3>1 DEF Post
        <3>2. UNCHANGED journals \/ \E i : Post(i)
            BY DEF LoanNext, Office, ApprovalStep, Callback, Contribute, PayTurn, UpsertRule, Apply,
                   AcceptGuarantee, TreasurerApprove, ChairApprove, Reject, Dispatch, RecordDispatch,
                   FailDispatch, Crash, ProviderDecides, ResultSuccess, ResultFailure, Timeout,
                   ExecuteWithinTransaction, ledgerVars
        <3>3. QED
            BY <3>1, <3>2
    <2>3. ASSUME loan[l].status = "disbursed", loan'[l].status # "disbursed"
          PROVE  approval[l] = "fail"
        <3>1. provider[l] = "paid"
            BY <2>1, <2>3 DEF Consistent, ChargedWhenPaid
        <3>2. CASE Office
            <4>1. CASE \E x \in Loan, m \in Member, a \in Amount :
                         \E g \in Nominations(m) : Apply(x, m, a, g)
                BY <2>1, <2>3, <4>1 DEF Apply
            <4>2. CASE \E x \in Loan, m \in Member : AcceptGuarantee(x, m)
                BY <2>1, <2>3, <4>2 DEF AcceptGuarantee
            <4>3. CASE \E x \in Loan : TreasurerApprove(x) \/ ChairApprove(x) \/ Reject(x)
                BY <2>1, <2>3, <4>3 DEF TreasurerApprove, ChairApprove, Reject, MayReject, SetStatus
            <4>4. CASE UNCHANGED loan
                BY <2>3, <4>4
            <4>5. QED
                BY <3>2, <4>1, <4>2, <4>3, <4>4 DEF Office, Contribute, PayTurn, UpsertRule
        <3>3. CASE \E x \in Loan : ApprovalStep(x)
            BY <2>1, <2>3, <3>3 DEF ApprovalStep, Dispatch, RecordDispatch, FailDispatch, Crash,
                   ProviderDecides, SetStatus
        <3>4. CASE \E x \in Loan : Callback(x)
            <4>1. PICK x \in Loan, status \in LoanStatus :
                     /\ SetStatus(x, status)
                     /\ x = l => status = "disbursed"
                <5>1. PICK x \in Loan : Callback(x)
                    BY <3>4
                <5>2. CASE ResultSuccess(x)
                    BY <5>2 DEF ResultSuccess, LoanStatus
                <5>3. CASE ResultFailure(x)
                    BY <3>1, <5>3 DEF ResultFailure, LoanStatus
                <5>4. CASE Timeout(x)
                    <6>1. loan[x].status \in LoanStatus
                        BY DEF IInv, LoanTypeOK
                    <6>2. QED
                        BY <2>3, <5>4, <6>1 DEF Timeout, FailIfPending, LoanStatus
                <5>5. QED
                    BY <5>1, <5>2, <5>3, <5>4 DEF Callback
            <4>2. QED
                BY <2>1, <2>3, <4>1 DEF SetStatus, LoanRow
        <3>5. QED
            BY <3>2, <3>3, <3>4 DEF LoanNext
    <2>4. QED
        BY <2>2, <2>3 DEF Journalled
<1>2. QED
    BY <1>1, Invariance, PTL DEF LoanSpec, SettlementIsFinal

-----------------------------------------------------------------------------
\* A loan that counts has the principal that was applied for.
Principals == \A l \in Loan : Encumbering(l) => loan[l].principal \in Amount

LEMMA PrincipalsStay ==
    /\ LoanInit => Principals
    /\ IInv /\ Principals /\ [LoanNext]_loanVars => Principals'
<1>1. LoanInit => Principals
    BY DEF LoanInit, Principals, Encumbering, NoLoan
<1>2. ASSUME IInv, Principals, [LoanNext]_loanVars PROVE Principals'
    <2> loan \in [Loan -> LoanRow]
        BY <1>2 DEF IInv, RowsOK
    <2>1. ASSUME NEW l \in Loan, NEW m \in Member, NEW a \in Amount,
                 NEW g \in Nominations(m), Apply(l, m, a, g)
          PROVE  Principals'
        <3>1. loan'[l].principal = a /\ \A x \in Loan \ {l} : loan'[x] = loan[x]
            BY <2>1 DEF Apply
        <3>2. QED
            BY <1>2, <3>1 DEF Principals, Encumbering
    <2>2. ASSUME NEW l \in Loan, NEW status, SetStatus(l, status),
                 Encumbering(l)
          PROVE  Principals'
        <3>1. /\ loan'[l].principal = loan[l].principal /\ loan'[l].status = status
              /\ \A x \in Loan \ {l} : loan'[x] = loan[x]
            BY <2>2 DEF SetStatus, LoanRow
        <3>2. QED
            BY <1>2, <2>2, <3>1 DEF Principals, Encumbering
    <2>3. ASSUME NEW l \in Loan, ChairApprove(l) \/ Reject(l) \/ FailDispatch(l) \/ Callback(l)
          PROVE  Principals'
        <3>1. Consistent(loan[l], disbursement[l], approval[l], provider[l], Journalled(l))
            BY <1>2 DEF IInv, LoanPlaces
        <3>2. Encumbering(l)
            BY <2>3, <3>1 DEF ChairApprove, Reject, MayReject, FailDispatch, Callback, ResultSuccess,
                ResultFailure, Timeout, Consistent, RequestPlace, BegunWhenApproved, Encumbering
        <3>3. \E status : SetStatus(l, status)
            BY <2>3 DEF ChairApprove, Reject, FailDispatch, Callback, ResultSuccess,
                ResultFailure, Timeout, FailIfPending
        <3>4. QED
            BY <2>2, <3>2, <3>3
    <2>4. ASSUME NEW l \in Loan, NEW m \in Member, AcceptGuarantee(l, m) PROVE Principals'
        <3>1. Encumbering(l) /\ loan'[l].principal = loan[l].principal
              /\ \A x \in Loan \ {l} : loan'[x] = loan[x]
            BY <2>4 DEF AcceptGuarantee, Encumbering, LoanRow
        <3>2. QED
            BY <1>2, <3>1 DEF Principals, Encumbering
    <2>5. ASSUME NEW l \in Loan, TreasurerApprove(l) PROVE Principals'
        <3>1. Encumbering(l) /\ loan'[l].principal = loan[l].principal
              /\ \A x \in Loan \ {l} : loan'[x] = loan[x]
            BY <2>5 DEF TreasurerApprove, Encumbering, LoanRow
        <3>2. QED
            BY <1>2, <3>1 DEF Principals, Encumbering
    <2>6. CASE UNCHANGED loan
        BY <1>2, <2>6 DEF Principals, Encumbering
    <2>7. QED
        BY <1>2, <2>1, <2>3, <2>4, <2>5, <2>6 DEF LoanNext, loanVars, Office, ApprovalStep,
            Contribute, PayTurn, UpsertRule, Dispatch, RecordDispatch, Crash, ProviderDecides
<1>3. QED
    BY <1>1, <1>2

\* Whatever loans, contributions and other payouts do to the treasury, they do by
\* posting instructions of the ledger, each once under its reference.
LEMMA StepIsPosting == IInv /\ Principals /\ [LoanNext]_loanVars => [LedgerNext]_ledgerVars
<1> SUFFICES ASSUME IInv, Principals, LoanNext, ~UNCHANGED ledgerVars
             PROVE  LedgerNext
    BY DEF loanVars, ledgerVars
<1>1. CASE \E m \in Member, a \in Amount, r \in Receipt : Contribute(m, a, r)
    <2>1. PICK a \in Amount, r \in Receipt : Post(Deposit(<<"mpesa:stk", r>>, Group, a, "KES"))
        BY <1>1 DEF Contribute
    <2>2. Deposit(<<"mpesa:stk", r>>, Group, a, "KES") \in Workload
        BY PostingAssumption DEF Postings
    <2>3. QED
        BY <2>1, <2>2 DEF LedgerNext
<1>2. CASE \E t \in Turn, a \in Amount : PayTurn(t, a)
    <2>1. PICK t \in Turn, a \in Amount : Post(Payout(<<"mgr-payout", t>>, Group, a, "KES"))
        BY <1>2 DEF PayTurn
    <2>2. Payout(<<"mgr-payout", t>>, Group, a, "KES") \in Workload
        BY PostingAssumption DEF Postings
    <2>3. QED
        BY <2>1, <2>2 DEF LedgerNext
<1>3. CASE \E l \in Loan : ResultSuccess(l)
    <2>1. PICK l \in Loan : ResultSuccess(l)
        BY <1>3
    <2>2. Post(LoanInstruction(l))
        BY <2>1 DEF ResultSuccess, ExecuteWithinTransaction
    <2>3. disbursement[l].dispatched
        BY <2>1 DEF ResultSuccess
    <2>4. loan[l].principal \in Amount
        BY <2>3 DEF IInv, LoanPlaces, Consistent, RequestPlace, Principals, Encumbering
    <2>5. LoanInstruction(l) \in Workload
        BY <2>4, PostingAssumption DEF Postings, LoanInstruction
    <2>6. QED
        BY <2>2, <2>5 DEF LedgerNext
<1>4. QED
    BY <1>1, <1>2, <1>3 DEF LoanNext, Office, ApprovalStep, Callback, UpsertRule, Apply,
        AcceptGuarantee, TreasurerApprove, ChairApprove, Reject, Dispatch, RecordDispatch,
        FailDispatch, Crash, ProviderDecides, ResultFailure, Timeout, ledgerVars

\* The loans of a Chama, with the contributions and payouts around them, use the
\* treasury as the ledger allows (recordLoanDisbursementWithinTransaction).
THEOREM LoansPostToLedger == LoanSpec => LedgerSpec
<1>1. LoanInit => LedgerInit
    BY DEF LoanInit
<1>2. QED
    BY <1>1, PrincipalsStay, StepIsPosting, Invariance, PTL DEF LoanSpec, LedgerSpec

\* So the treasury always holds the opening balance and what the journals of
\* contributions, loans and payouts say, to the unit.
THEOREM TreasuryFollowsJournals == LoanSpec => []BalanceIsJournalled
<1>1. LedgerInv => BalanceIsJournalled
    BY DEF LedgerInv
<1>2. QED
    BY <1>1, LoansPostToLedger, LedgerInvariance, PTL
=============================================================================
