---------------------------- MODULE AccessProofs ----------------------------
(***************************************************************************)
(* Proofs about who may act: as a member of a Chama (Governance), for any  *)
(* number of users, invitations, polls and amendments, and with a session  *)
(* (Sessions), for any number of tokens, codes and requests.  The two      *)
(* models share nothing; the second part starts at Grants.                 *)
(*                                                                         *)
(* The inductive invariant IInv of Governance adds to the invariants of    *)
(* its run that a poll counts votes of its electorate only and is acted on *)
(* after it closed (PollsConsistent), and that what anybody accepted is a  *)
(* version there is, with the text it has (RulesStand).  SessionsInv says  *)
(* what each request has locked and relies on (RequestsOK, HeldOnce), and  *)
(* that what a token was issued for is used up (GrantsSpent).              *)
(***************************************************************************)
EXTENDS Governance, Sessions, FiniteSetTheorems, TLAPS

Rule == [version : Nat, text : Nat]

MemberRow ==
    [role : Role \cup {"none"}, status : Statuses \cup ManualStatus \cup {"none"},
     accepted : Rule, via : InvitationId \cup {"none", "platform"}]

ApplicationRow ==
    [user : User, status : {"pending", "rejected", "commitment_pending", "approved"},
     rule : Rule]

InvitationRow ==
    [status : Usable \cup {"none", "accepted", "cancelled", "rejected"},
     addressee : User \cup {Anyone}, role : Role \cup {"none"}, uses : Nat, max : Nat,
     expired : BOOLEAN]

PollRow ==
    [status : {"none", "open", "closed"}, kind : PollKinds, version : Nat,
     eligible : SUBSET User, yes : SUBSET User, no : SUBSET User,
     target : User \cup {"none"}, acted : BOOLEAN]

ChamaRow ==
    [visibility : Visibilities, target : Target, live : BOOLEAN, full : BOOLEAN,
     deadline : BOOLEAN]

MembershipTypeOK ==
    /\ chama \in ChamaRow
    /\ members \in [User -> MemberRow]
    /\ applications \in Seq(ApplicationRow)
    /\ invitations \in [InvitationId -> InvitationRow]

GovernanceTypeOK ==
    /\ MembershipTypeOK
    /\ constitution \in Seq([text : Nat, poll : PollId \cup {"none"}])
    /\ Current >= 1
    /\ polls \in [PollId -> PollRow]

PollsConsistent ==
    \A p \in PollId :
        /\ Votes(polls[p]) \subseteq polls[p].eligible
        /\ polls[p].acted => polls[p].status = "closed"

EnactedByPolls == \A v \in 2..Current : constitution[v].poll \in PollId

\* The rule is none, or a version of this Constitution with the text it has.
Stands(rule, versions) ==
    rule = NoRule \/ (rule.version \in DOMAIN versions /\ rule.text = versions[rule.version].text)

RulesStand ==
    /\ \A u \in User : Stands(members[u].accepted, constitution)
    /\ \A n \in DOMAIN applications : Stands(applications[n].rule, constitution)

IInv ==
    /\ GovernanceTypeOK /\ PollsConsistent /\ EnactedByPolls /\ AmendedByItsPoll
    /\ RulesStand /\ InvitationsAccounted

USE MembershipAssumption, GovernanceAssumption

-----------------------------------------------------------------------------
\* A row of a sequence is replaced by another one.
LEMMA ReplacedRow ==
    ASSUME NEW Row, NEW s \in Seq(Row), NEW n \in DOMAIN s, NEW row \in Row
    PROVE  [s EXCEPT ![n] = row] \in Seq(Row)
<1>1. s \in [1..Len(s) -> Row] /\ Len(s) \in Nat
    OBVIOUS
<1>2. [s EXCEPT ![n] = row] \in [1..Len(s) -> Row]
    BY <1>1
<1>3. QED
    BY <1>1, <1>2

\* The users an invitation let in.
Entered(rows, i) == {u \in User : rows[u].via = i}

\* What the invariant says of one invitation, with its entrants named.
LEMMA Counted ==
    ASSUME InvitationsAccounted, NEW i \in InvitationId
    PROVE  /\ invitations[i].uses = Cardinality(Entered(members, i))
           /\ Cardinality(Entered(members, i)) <= invitations[i].max
           /\ invitations[i].status = "accepted"
                 <=> invitations[i].max > 0
                     /\ Cardinality(Entered(members, i)) = invitations[i].max
BY DEF InvitationsAccounted, Entered

\* An invitation that lets nobody in and is neither used up nor found used up.
LEMMA StillAccounted ==
    ASSUME InvitationsAccounted,
           \A u \in User : \A i \in InvitationId :
              members'[u].via = i <=> members[u].via = i,
           \A i \in InvitationId :
              /\ invitations'[i].uses = invitations[i].uses
              /\ invitations'[i].max = invitations[i].max
              /\ invitations'[i].status = "accepted" <=> invitations[i].status = "accepted"
    PROVE  InvitationsAccounted'
<1>1. \A i \in InvitationId : Entered(members', i) = Entered(members, i)
    BY DEF Entered
<1>2. QED
    BY <1>1, Counted DEF InvitationsAccounted, Entered

\* What was accepted stands as long as no version loses its text.
LEMMA StillStands ==
    ASSUME GovernanceTypeOK, RulesStand,
           \A v \in DOMAIN constitution :
              v \in DOMAIN constitution' /\ constitution'[v].text = constitution[v].text,
           \A u \in User : \/ members'[u].accepted = members[u].accepted
                           \/ Stands(members'[u].accepted, constitution),
           \A n \in DOMAIN applications' :
              \/ n \in DOMAIN applications /\ applications'[n].rule = applications[n].rule
              \/ Stands(applications'[n].rule, constitution)
    PROVE  RulesStand'
<1>1. ASSUME NEW rule, Stands(rule, constitution) PROVE Stands(rule, constitution')
    BY <1>1 DEF Stands
<1>2. \A u \in User : Stands(members'[u].accepted, constitution)
    BY DEF RulesStand
<1>3. \A n \in DOMAIN applications' : Stands(applications'[n].rule, constitution)
    BY DEF RulesStand
<1>4. QED
    BY <1>1, <1>2, <1>3 DEF RulesStand

\* The version in force stands.
LEMMA CurrentStands ==
    ASSUME GovernanceTypeOK
    PROVE  CurrentRule \in Rule /\ Stands(CurrentRule, constitution)
           /\ Current \in Nat /\ Current \in DOMAIN constitution
<1> DEFINE Version == [text : Nat, poll : PollId \cup {"none"}]
<1>1. constitution \in Seq(Version) /\ Len(constitution) >= 1
    BY DEF GovernanceTypeOK, Current
<1> HIDE DEF Version
<1>2. Current \in DOMAIN constitution /\ Current \in Nat /\ constitution[Current] \in Version
    BY <1>1 DEF Current
<1>3. constitution[Current].text \in Nat
    BY <1>2 DEF Version
<1>4. QED
    BY <1>2, <1>3 DEF CurrentRule, Rule, Stands

\* A Chama starts with its founder, version 1 and nothing to account for.
LEMMA InitInvariant == InitGovernance => IInv
<1> SUFFICES ASSUME InitGovernance PROVE IInv
    OBVIOUS
<1> USE DEF InitGovernance, InitMembership
<1>1. /\ members \in [User -> MemberRow]
      /\ \A u \in User : members[u].via \in {"none", "platform"} /\ members[u].accepted = NoRule
    <2>1. PICK office \in [Enrolled -> Role \cup {"none"}] :
            members = [u \in User |->
              CASE u = Founder -> Enrolment("chairperson", "active", "none")
                [] u \in Enrolled /\ office[u] # "none" ->
                      Enrolment(office[u], "active", "platform")
                [] OTHER -> NoMember]
        OBVIOUS
    <2>2. ASSUME NEW role \in Role \cup {"none"}, NEW status \in {"active", "none"},
                 NEW via \in {"none", "platform"}
          PROVE  /\ Enrolment(role, status, via) \in MemberRow
                 /\ Enrolment(role, status, via).via = via
                 /\ Enrolment(role, status, via).accepted = NoRule
        BY DEF Enrolment, MemberRow, Rule, NoRule, Statuses
    <2>3. ASSUME NEW u \in User
          PROVE  /\ members[u] \in MemberRow
                 /\ members[u].via \in {"none", "platform"} /\ members[u].accepted = NoRule
        <3>1. CASE u = Founder
            BY <2>1, <2>2, <3>1
        <3>2. CASE u # Founder /\ u \in Enrolled /\ office[u] # "none"
            <4>1. members[u] = Enrolment(office[u], "active", "platform")
                BY <2>1, <3>2
            <4>2. QED
                BY <2>2, <3>2, <4>1
        <3>3. CASE u # Founder /\ ~(u \in Enrolled /\ office[u] # "none")
            <4>1. members[u] = Enrolment("none", "none", "none")
                BY <2>1, <3>3 DEF NoMember
            <4>2. QED
                BY <2>2, <4>1
        <3>4. QED
            BY <3>1, <3>2, <3>3
    <2>4. QED
        BY <2>1, <2>3
<1>2. GovernanceTypeOK
    <2>1. invitations \in [InvitationId -> InvitationRow]
        BY DEF NoInvitation, InvitationRow
    <2>2. polls \in [PollId -> PollRow]
        BY DEF PollRow, NoPoll, PollKinds
    <2> DEFINE Version == [text : Nat, poll : PollId \cup {"none"}]
               first == [text |-> 0, poll |-> "none"]
    <2>3. first \in Version /\ constitution = <<first>>
        OBVIOUS
    <2> HIDE DEF Version, first
    <2>4. constitution \in Seq(Version) /\ Current >= 1
        BY <2>3 DEF Current
    <2>5. applications \in Seq(ApplicationRow)
        OBVIOUS
    <2>6. chama \in ChamaRow
        BY DEF ChamaRow
    <2>7. QED
        BY <1>1, <2>1, <2>2, <2>4, <2>5, <2>6 DEF GovernanceTypeOK, MembershipTypeOK, Version
<1>3. PollsConsistent /\ EnactedByPolls /\ AmendedByItsPoll
    BY DEF PollsConsistent, EnactedByPolls, AmendedByItsPoll, Current, NoPoll, Votes
<1>4. RulesStand
    BY <1>1 DEF RulesStand, Stands
<1>5. InvitationsAccounted
    <2>1. \A i \in InvitationId : Entered(members, i) = {}
        BY <1>1 DEF Entered
    <2>2. \A i \in InvitationId : Cardinality(Entered(members, i)) = 0
        BY <2>1, FS_EmptySet
    <2>3. \A i \in InvitationId : invitations[i] = NoInvitation
        OBVIOUS
    <2>4. NoInvitation.uses = 0 /\ NoInvitation.max = 0 /\ NoInvitation.status = "none"
        BY DEF NoInvitation
    <2>5. ASSUME NEW i \in InvitationId
          PROVE  /\ Cardinality(Entered(members, i)) = 0
                 /\ invitations[i].uses = 0 /\ invitations[i].max = 0
                 /\ invitations[i].status = "none"
        BY <2>2, <2>3, <2>4
    <2> HIDE DEF InitGovernance, InitMembership
    <2>6. QED
        BY <2>5 DEF InvitationsAccounted, Entered
<1>6. QED
    BY <1>2, <1>3, <1>4, <1>5 DEF IInv
-----------------------------------------------------------------------------
\* A step that leaves Constitution and polls alone needs to keep the rest.
LEMMA MembershipPartsSuffice ==
    ASSUME IInv, UNCHANGED <<constitution, polls>>, MembershipTypeOK',
           RulesStand', InvitationsAccounted'
    PROVE  IInv'
BY DEF IInv, GovernanceTypeOK, PollsConsistent, EnactedByPolls, AmendedByItsPoll, Current,
       Votes, MajorityMet, QuorumMet

\* A new member was none before, and nobody else changes.
LEMMA EnterWrites ==
    ASSUME IInv, NEW u \in User, ~HasMembership(u), NEW role \in Role \cup {"none"},
           NEW rule \in Rule, Stands(rule, constitution),
           NEW via \in InvitationId \cup {"none"}, Enter(u, role, rule, via)
    PROVE  /\ chama' \in ChamaRow
           /\ members' \in [User -> MemberRow]
           /\ members[u].via = "none" /\ members'[u].via = via
           /\ members'[u].accepted = rule
           /\ \A other \in User \ {u} : members'[other] = members[other]
<1>1. members \in [User -> MemberRow] /\ chama \in ChamaRow
    BY DEF IInv, GovernanceTypeOK, MembershipTypeOK
<1> DEFINE row == [Enrolment(role, "pending", via) EXCEPT !.accepted = rule]
<1>2. row \in MemberRow /\ row.via = via /\ row.accepted = rule
    BY DEF Enrolment, MemberRow, Statuses
<1>3. members' = [members EXCEPT ![u] = row]
    BY DEF Enter
<1>4. members[u].via = "none"
    BY DEF HasMembership, NoMember, Enrolment
<1>5. chama' \in ChamaRow
    BY <1>1 DEF Enter, ChamaRow
<1> HIDE DEF row
<1>6. QED
    BY <1>1, <1>2, <1>3, <1>4, <1>5

\* A new row of applications, or another status of one.
LEMMA ApplicationWrites ==
    ASSUME IInv,
           \/ \E u \in User, status \in {"pending", "commitment_pending"} :
                applications' = Append(applications, Application(u, status, CurrentRule))
           \/ \E n \in DOMAIN applications,
                 status \in {"rejected", "commitment_pending", "approved"} :
                applications' = [applications EXCEPT ![n].status = status]
    PROVE  /\ applications' \in Seq(ApplicationRow)
           /\ \A n \in DOMAIN applications' :
                \/ n \in DOMAIN applications /\ applications'[n].rule = applications[n].rule
                \/ Stands(applications'[n].rule, constitution)
<1>1. applications \in Seq(ApplicationRow)
    BY DEF IInv, GovernanceTypeOK, MembershipTypeOK
<1>2. CASE \E u \in User, status \in {"pending", "commitment_pending"} :
                applications' = Append(applications, Application(u, status, CurrentRule))
    <2>1. PICK u \in User, status \in {"pending", "commitment_pending"} :
                applications' = Append(applications, Application(u, status, CurrentRule))
        BY <1>2
    <2> DEFINE row == Application(u, status, CurrentRule)
    <2>2. CurrentRule \in Rule /\ Stands(CurrentRule, constitution)
        BY CurrentStands DEF IInv
    <2>3. row \in ApplicationRow /\ row.rule = CurrentRule
        BY <2>2 DEF Application, ApplicationRow
    <2> HIDE DEF row
    <2>4. /\ applications' = Append(applications, row)
          /\ applications' \in Seq(ApplicationRow)
          /\ Len(applications') = Len(applications) + 1
        BY <1>1, <2>1, <2>3 DEF row
    <2>5. ASSUME NEW n \in DOMAIN applications'
          PROVE  \/ n \in DOMAIN applications /\ applications'[n] = applications[n]
                 \/ applications'[n] = row
        BY <1>1, <2>3, <2>4
    <2>6. QED
        BY <2>2, <2>3, <2>4, <2>5
<1>3. CASE \E n \in DOMAIN applications,
              status \in {"rejected", "commitment_pending", "approved"} :
                applications' = [applications EXCEPT ![n].status = status]
    <2>1. PICK n \in DOMAIN applications,
               status \in {"rejected", "commitment_pending", "approved"} :
                applications' = [applications EXCEPT ![n].status = status]
        BY <1>3
    <2> DEFINE row == [applications[n] EXCEPT !.status = status]
    <2>2. applications[n] \in ApplicationRow
        BY <1>1
    <2>3. row \in ApplicationRow /\ row.rule = applications[n].rule
        BY <2>2 DEF ApplicationRow
    <2> HIDE DEF row
    <2>4. applications' = [applications EXCEPT ![n] = row]
        BY <2>1 DEF row
    <2>5. applications' \in Seq(ApplicationRow)
        BY <1>1, <2>3, <2>4, ReplacedRow
    <2>6. \A m \in DOMAIN applications' :
             m \in DOMAIN applications /\ applications'[m].rule = applications[m].rule
        BY <1>1, <2>3, <2>4
    <2>7. QED
        BY <2>5, <2>6
<1>4. QED
    BY <1>2, <1>3

\* Joining directly, and the approval of an application.
LEMMA EntryPreserves ==
    ASSUME IInv, NEW u \in User, ~HasMembership(u), NEW rule \in Rule,
           Stands(rule, constitution), Enter(u, "member", rule, "none"),
           \/ \E status \in {"pending", "commitment_pending"} :
                applications' = Append(applications, Application(u, status, CurrentRule))
           \/ \E n \in DOMAIN applications,
                 status \in {"rejected", "commitment_pending", "approved"} :
                applications' = [applications EXCEPT ![n].status = status],
           UNCHANGED <<invitations, constitution, polls>>
    PROVE  IInv'
<1>1. /\ chama' \in ChamaRow
      /\ members' \in [User -> MemberRow]
      /\ members[u].via = "none" /\ members'[u].via = "none"
      /\ members'[u].accepted = rule
      /\ \A other \in User \ {u} : members'[other] = members[other]
    BY EnterWrites
<1>2. /\ applications' \in Seq(ApplicationRow)
      /\ \A n \in DOMAIN applications' :
            \/ n \in DOMAIN applications /\ applications'[n].rule = applications[n].rule
            \/ Stands(applications'[n].rule, constitution)
    BY ApplicationWrites
<1>3. MembershipTypeOK'
    BY <1>1, <1>2 DEF IInv, GovernanceTypeOK, MembershipTypeOK
<1>4. RulesStand'
    BY <1>1, <1>2, StillStands DEF IInv
<1>5. InvitationsAccounted'
    <2>1. \A o \in User : members'[o].via = members[o].via
        BY <1>1
    <2>2. QED
        BY <2>1, StillAccounted DEF IInv
<1>6. QED
    BY <1>3, <1>4, <1>5, MembershipPartsSuffice

\* An invitation lets one user in and counts one use.
LEMMA JoinByInvitationPreserves ==
    ASSUME IInv, NEW u \in User, NEW i \in InvitationId, JoinByInvitation(u, i, Current),
           UNCHANGED polls
    PROVE  IInv'
<1>1. CurrentRule \in Rule /\ Stands(CurrentRule, constitution)
    BY CurrentStands DEF IInv
<1>2. invitations \in [InvitationId -> InvitationRow] /\ invitations[i] \in InvitationRow
    BY DEF IInv, GovernanceTypeOK, MembershipTypeOK
<1>3. /\ ~HasMembership(u) /\ invitations[i].status \in Usable
      /\ invitations[i].uses < invitations[i].max
      /\ Enter(u, invitations[i].role, CurrentRule, i)
      /\ UseInvitation(i) /\ UNCHANGED <<constitution, polls>>
      /\ applications' = Append(applications, Application(u, "commitment_pending", CurrentRule))
    BY DEF JoinByInvitation, MayEnter, Admits
<1>4. invitations[i].role \in Role \cup {"none"}
    BY <1>2 DEF InvitationRow
<1>5. /\ chama' \in ChamaRow
      /\ members' \in [User -> MemberRow]
      /\ members[u].via = "none" /\ members'[u].via = i
      /\ members'[u].accepted = CurrentRule
      /\ \A other \in User \ {u} : members'[other] = members[other]
    BY <1>1, <1>3, <1>4, EnterWrites
<1>6. /\ applications' \in Seq(ApplicationRow)
      /\ \A n \in DOMAIN applications' :
            \/ n \in DOMAIN applications /\ applications'[n].rule = applications[n].rule
            \/ Stands(applications'[n].rule, constitution)
    BY <1>3, ApplicationWrites
<1> DEFINE uses == invitations[i].uses
           max == invitations[i].max
<1>7. uses \in Nat /\ max \in Nat
    BY <1>2 DEF InvitationRow
<1>8. /\ invitations' \in [InvitationId -> InvitationRow]
      /\ invitations'[i].uses = uses + 1 /\ invitations'[i].max = max
      /\ invitations'[i].status =
            IF uses + 1 >= max THEN "accepted" ELSE invitations[i].status
      /\ \A j \in InvitationId \ {i} : invitations'[j] = invitations[j]
    <2> DEFINE status == IF uses + 1 >= max THEN "accepted" ELSE invitations[i].status
               row == [invitations[i] EXCEPT !.uses = uses + 1, !.status = status]
    <2>1. invitations' = [invitations EXCEPT ![i] = row]
        BY <1>2, <1>3 DEF UseInvitation, InvitationRow
    <2>2. status \in Usable \cup {"none", "accepted", "cancelled", "rejected"}
        BY <1>2 DEF InvitationRow
    <2> HIDE DEF status
    <2>3. row.uses = uses + 1 /\ row.max = max /\ row.status = status
        BY <1>2 DEF InvitationRow
    <2>4. row \in InvitationRow
        <3> DEFINE old == invitations[i]
                   n == uses + 1
        <3>1. n \in Nat /\ old \in InvitationRow
            BY <1>2, <1>7
        <3>2. row = [old EXCEPT !.uses = n, !.status = status]
            OBVIOUS
        <3> HIDE DEF n, old, row
        <3>3. QED
            BY <2>2, <3>1, <3>2 DEF InvitationRow
    <2> HIDE DEF row, uses, max
    <2>5. QED
        BY <1>2, <2>1, <2>3, <2>4 DEF status
<1>9. MembershipTypeOK'
    BY <1>5, <1>6, <1>8 DEF IInv, GovernanceTypeOK, MembershipTypeOK
<1>10. RulesStand'
    BY <1>1, <1>3, <1>5, <1>6, StillStands DEF IInv
<1>11. InvitationsAccounted'
    <2> DEFINE E(j) == Entered(members, j)
               F(j) == Entered(members', j)
    <2>1. F(i) = E(i) \cup {u} /\ u \notin E(i) /\ IsFiniteSet(E(i))
        <3>1. u \notin E(i) /\ F(i) = E(i) \cup {u}
            BY <1>5 DEF Entered
        <3>2. IsFiniteSet(E(i))
            BY FS_Subset DEF Entered
        <3>3. QED
            BY <3>1, <3>2
    <2>2. \A j \in InvitationId \ {i} : F(j) = E(j)
        BY <1>5 DEF Entered
    <2> HIDE DEF E, F
    <2>3. Cardinality(F(i)) = Cardinality(E(i)) + 1 /\ Cardinality(E(i)) \in Nat
        BY <2>1, FS_AddElement, FS_CardinalityType
    <2>4. uses = Cardinality(E(i))
        BY Counted DEF IInv, E
    <2>5. invitations[i].status # "accepted"
        BY <1>3 DEF Usable
    <2> HIDE DEF uses, max
    <2>6. /\ invitations'[i].uses = Cardinality(F(i))
          /\ Cardinality(F(i)) <= invitations'[i].max
          /\ invitations'[i].status = "accepted"
                <=> invitations'[i].max > 0 /\ Cardinality(F(i)) = invitations'[i].max
        <3>1. uses < max
            BY <1>3 DEF uses, max
        <3>2. QED
            BY <1>7, <1>8, <2>3, <2>4, <2>5, <3>1
    <2>7. \A j \in InvitationId \ {i} :
            /\ invitations'[j].uses = Cardinality(F(j))
            /\ Cardinality(F(j)) <= invitations'[j].max
            /\ invitations'[j].status = "accepted"
                  <=> invitations'[j].max > 0 /\ Cardinality(F(j)) = invitations'[j].max
        BY <1>8, <2>2, Counted DEF IInv, E
    <2>8. QED
        BY <2>6, <2>7 DEF InvitationsAccounted, F, Entered
<1>12. QED
    BY <1>3, <1>9, <1>10, <1>11, MembershipPartsSuffice

\* Whichever way a user joins.
LEMMA JoinPreserves ==
    ASSUME IInv, NEW u \in User, Join(u), UNCHANGED polls
    PROVE  IInv'
<1>1. CurrentRule \in Rule /\ Stands(CurrentRule, constitution)
    BY CurrentStands DEF IInv
<1>2. CASE ApplyForReview(u, Current)
    <2>1. /\ applications' = Append(applications, Application(u, "pending", CurrentRule))
          /\ UNCHANGED <<chama, members, invitations, constitution>>
        BY <1>2 DEF ApplyForReview
    <2>2. /\ applications' \in Seq(ApplicationRow)
          /\ \A n \in DOMAIN applications' :
                \/ n \in DOMAIN applications /\ applications'[n].rule = applications[n].rule
                \/ Stands(applications'[n].rule, constitution)
        BY <2>1, ApplicationWrites
    <2>3. MembershipTypeOK'
        BY <2>1, <2>2 DEF IInv, GovernanceTypeOK, MembershipTypeOK
    <2>4. RulesStand'
        BY <2>1, <2>2, StillStands DEF IInv
    <2>5. InvitationsAccounted'
        BY <2>1, StillAccounted DEF IInv
    <2>6. QED
        BY <2>1, <2>3, <2>4, <2>5, MembershipPartsSuffice
<1>3. CASE JoinDirectly(u, Current)
    <2>1. /\ ~HasMembership(u) /\ Enter(u, "member", CurrentRule, "none")
          /\ applications' = Append(applications, Application(u, "commitment_pending", CurrentRule))
          /\ UNCHANGED <<invitations, constitution>>
        BY <1>3 DEF JoinDirectly, MayEnter
    <2>2. QED
        BY <1>1, <2>1, EntryPreserves
<1>4. ASSUME NEW i \in InvitationId, RejectInvitation(u, i)
      PROVE  IInv'
    <2>1. /\ invitations' = [invitations EXCEPT ![i].status = "rejected"]
          /\ invitations[i].status \in Usable
          /\ UNCHANGED <<chama, members, applications, constitution>>
        BY <1>4 DEF RejectInvitation
    <2>2. invitations \in [InvitationId -> InvitationRow]
        BY DEF IInv, GovernanceTypeOK, MembershipTypeOK
    <2>3. invitations' \in [InvitationId -> InvitationRow]
        BY <2>1, <2>2 DEF InvitationRow
    <2>4. \A j \in InvitationId :
              /\ invitations'[j].uses = invitations[j].uses
              /\ invitations'[j].max = invitations[j].max
              /\ invitations'[j].status = "accepted" <=> invitations[j].status = "accepted"
        BY <2>1, <2>2 DEF InvitationRow, Usable
    <2>5. MembershipTypeOK'
        BY <2>1, <2>3 DEF IInv, GovernanceTypeOK, MembershipTypeOK
    <2>6. RulesStand'
        BY <2>1 DEF IInv, RulesStand
    <2>7. InvitationsAccounted'
        BY <2>1, <2>4, StillAccounted DEF IInv
    <2>8. QED
        BY <2>1, <2>5, <2>6, <2>7, MembershipPartsSuffice
<1>5. QED
    BY <1>2, <1>3, <1>4, JoinByInvitationPreserves DEF Join

\* One invitation changes in nothing that its use depends on.
LEMMA InvitationKept ==
    ASSUME IInv, NEW i \in InvitationId, NEW row \in InvitationRow,
           invitations' = [invitations EXCEPT ![i] = row],
           row.uses = invitations[i].uses, row.max = invitations[i].max,
           invitations[i].status # "accepted", row.status # "accepted",
           UNCHANGED <<chama, members, applications, constitution, polls>>
    PROVE  IInv'
<1>1. invitations \in [InvitationId -> InvitationRow]
    BY DEF IInv, GovernanceTypeOK, MembershipTypeOK
<1>2. /\ invitations' \in [InvitationId -> InvitationRow]
      /\ \A j \in InvitationId :
            /\ invitations'[j].uses = invitations[j].uses
            /\ invitations'[j].max = invitations[j].max
            /\ invitations'[j].status = "accepted" <=> invitations[j].status = "accepted"
    BY <1>1
<1>3. MembershipTypeOK'
    BY <1>2 DEF IInv, GovernanceTypeOK, MembershipTypeOK
<1>4. RulesStand'
    BY DEF IInv, RulesStand
<1>5. InvitationsAccounted'
    BY <1>2, StillAccounted DEF IInv
<1>6. QED
    BY <1>3, <1>4, <1>5, MembershipPartsSuffice

\* Another status of an invitation that is not used up.
LEMMA StatusKept ==
    ASSUME IInv, NEW i \in InvitationId, invitations[i].status \in Usable,
           NEW status \in Usable \cup {"cancelled", "rejected"},
           invitations' = [invitations EXCEPT ![i].status = status],
           UNCHANGED <<chama, members, applications, constitution, polls>>
    PROVE  IInv'
<1> DEFINE row == [invitations[i] EXCEPT !.status = status]
<1>1. invitations[i] \in InvitationRow
    BY DEF IInv, GovernanceTypeOK, MembershipTypeOK
<1>2. /\ row \in InvitationRow /\ row.status = status
      /\ row.uses = invitations[i].uses /\ row.max = invitations[i].max
    BY <1>1 DEF InvitationRow
<1>3. invitations' = [invitations EXCEPT ![i] = row]
    OBVIOUS
<1>4. invitations[i].status # "accepted" /\ status # "accepted"
    BY DEF Usable
<1> HIDE DEF row
<1>5. QED
    BY <1>2, <1>3, <1>4, InvitationKept

\* Members change in nothing that invitations or accepted versions depend on.
LEMMA MembersParts ==
    ASSUME IInv, NEW u \in User, NEW row \in MemberRow,
           members' = [members EXCEPT ![u] = row],
           row.via = members[u].via \/ (members[u].via = "none" /\ row.via = "platform"),
           row.accepted = members[u].accepted \/ Stands(row.accepted, constitution),
           applications' = applications \/
              \E n \in DOMAIN applications,
                 status \in {"rejected", "commitment_pending", "approved"} :
                applications' = [applications EXCEPT ![n].status = status],
           UNCHANGED <<chama, invitations, constitution>>
    PROVE  MembershipTypeOK' /\ RulesStand' /\ InvitationsAccounted'
<1>1. members \in [User -> MemberRow] /\ applications \in Seq(ApplicationRow)
    BY DEF IInv, GovernanceTypeOK, MembershipTypeOK
<1>2. /\ members' \in [User -> MemberRow]
      /\ \A o \in User : members'[o] = IF o = u THEN row ELSE members[o]
    BY <1>1
<1>3. /\ applications' \in Seq(ApplicationRow)
      /\ \A n \in DOMAIN applications' :
            \/ n \in DOMAIN applications /\ applications'[n].rule = applications[n].rule
            \/ Stands(applications'[n].rule, constitution)
    <2>1. CASE applications' = applications
        BY <1>1, <2>1
    <2>2. QED
        BY <2>1, ApplicationWrites
<1>4. MembershipTypeOK'
    BY <1>2, <1>3 DEF IInv, GovernanceTypeOK, MembershipTypeOK
<1>5. RulesStand'
    BY <1>2, <1>3, StillStands DEF IInv
<1>6. InvitationsAccounted'
    BY <1>2, StillAccounted DEF IInv
<1>7. QED
    BY <1>4, <1>5, <1>6

\* The same of a step that leaves the polls alone.
LEMMA MembersKept ==
    ASSUME IInv, NEW u \in User, NEW row \in MemberRow,
           members' = [members EXCEPT ![u] = row],
           row.via = members[u].via \/ (members[u].via = "none" /\ row.via = "platform"),
           row.accepted = members[u].accepted \/ Stands(row.accepted, constitution),
           applications' = applications \/
              \E n \in DOMAIN applications,
                 status \in {"rejected", "commitment_pending", "approved"} :
                applications' = [applications EXCEPT ![n].status = status],
           UNCHANGED <<chama, invitations, constitution, polls>>
    PROVE  IInv'
BY MembersParts, MembershipPartsSuffice

\* Officials and administrators change role and status of a member.
LEMMA ReassignPreserves ==
    ASSUME IInv, NEW u \in User, NEW role \in Role \cup {"none"},
           NEW status \in Statuses \cup ManualStatus \cup {"none"},
           members' = [members EXCEPT ![u].role = role, ![u].status = status],
           UNCHANGED <<chama, applications, invitations, constitution, polls>>
    PROVE  IInv'
<1> DEFINE row == [members[u] EXCEPT !.role = role, !.status = status]
<1>1. members[u] \in MemberRow /\ members \in [User -> MemberRow]
    BY DEF IInv, GovernanceTypeOK, MembershipTypeOK
<1>2. row \in MemberRow /\ row.via = members[u].via /\ row.accepted = members[u].accepted
    BY <1>1 DEF MemberRow
<1>3. members' = [members EXCEPT ![u] = row]
    BY <1>1 DEF MemberRow
<1> HIDE DEF row
<1>4. QED
    BY <1>2, <1>3, MembersKept

\* An official approves or rejects an application.
LEMMA ReviewPreserves ==
    ASSUME IInv, NEW a \in User, Review(a), UNCHANGED polls
    PROVE  IInv'
<1>1. PICK n \in DOMAIN applications : ApproveApplication(a, n) \/ RejectApplication(a, n)
    BY DEF Review
<1>2. applications \in Seq(ApplicationRow) /\ applications[n] \in ApplicationRow
    BY DEF IInv, GovernanceTypeOK, MembershipTypeOK
<1>3. CASE ApproveApplication(a, n)
    <2> DEFINE u == applications[n].user
               rule == applications[n].rule
    <2>1. u \in User /\ rule \in Rule
        BY <1>2 DEF ApplicationRow
    <2>2. Stands(rule, constitution)
        BY DEF IInv, RulesStand
    <2>3. /\ ~HasMembership(u) /\ Enter(u, "member", rule, "none")
          /\ applications' = [applications EXCEPT ![n].status = "commitment_pending"]
          /\ UNCHANGED <<invitations, constitution>>
        BY <1>3 DEF ApproveApplication, MayEnter
    <2> HIDE DEF u, rule
    <2>4. QED
        BY <2>1, <2>2, <2>3, EntryPreserves
<1>4. CASE RejectApplication(a, n)
    <2>1. /\ applications' = [applications EXCEPT ![n].status = "rejected"]
          /\ UNCHANGED <<chama, members, invitations, constitution>>
        BY <1>4 DEF RejectApplication
    <2>2. /\ applications' \in Seq(ApplicationRow)
          /\ \A m \in DOMAIN applications' :
                \/ m \in DOMAIN applications /\ applications'[m].rule = applications[m].rule
                \/ Stands(applications'[m].rule, constitution)
        BY <2>1, ApplicationWrites
    <2>3. MembershipTypeOK'
        BY <2>1, <2>2 DEF IInv, GovernanceTypeOK, MembershipTypeOK
    <2>4. RulesStand'
        BY <2>1, <2>2, StillStands DEF IInv
    <2>5. InvitationsAccounted'
        BY <2>1, StillAccounted DEF IInv
    <2>6. QED
        BY <2>1, <2>3, <2>4, <2>5, MembershipPartsSuffice
<1>5. QED
    BY <1>1, <1>3, <1>4

\* A step that writes neither members, applications, invitations nor what the
\* Chama decided.
LEMMA ElsewherePreserves ==
    ASSUME IInv, chama' \in ChamaRow,
           UNCHANGED <<members, applications, invitations, constitution, polls>>
    PROVE  IInv'
<1>1. MembershipTypeOK'
    BY DEF IInv, GovernanceTypeOK, MembershipTypeOK
<1>2. RulesStand' /\ InvitationsAccounted'
    BY DEF IInv, RulesStand, InvitationsAccounted
<1>3. QED
    BY <1>1, <1>2, MembershipPartsSuffice

\* A new invitation has let nobody in yet.
LEMMA InvitePreserves ==
    ASSUME IInv, NEW a \in User, NEW i \in InvitationId, NEW addressee \in User \cup {Anyone},
           NEW role \in Role, NEW m \in MaxUses, Invite(a, i, addressee, role, m), UNCHANGED polls
    PROVE  IInv'
<1> DEFINE row == [status |-> "pending", addressee |-> addressee, role |-> role,
                   uses |-> 0, max |-> m, expired |-> FALSE]
<1>1. /\ invitations[i] = NoInvitation /\ invitations' = [invitations EXCEPT ![i] = row]
      /\ UNCHANGED <<chama, members, applications, constitution>>
    BY DEF Invite
<1>2. invitations \in [InvitationId -> InvitationRow]
    BY DEF IInv, GovernanceTypeOK, MembershipTypeOK
<1>3. row \in InvitationRow /\ m \in Nat \ {0}
    BY DEF InvitationRow, Usable
<1>4. row.uses = 0 /\ row.max = m /\ row.status = "pending"
    OBVIOUS
<1> HIDE DEF row
<1>5. MembershipTypeOK'
    BY <1>1, <1>2, <1>3 DEF IInv, GovernanceTypeOK, MembershipTypeOK
<1>6. RulesStand'
    BY <1>1 DEF IInv, RulesStand
<1>7. InvitationsAccounted'
    <2>1. Cardinality(Entered(members, i)) = 0
        BY <1>1, Counted DEF IInv, NoInvitation
    <2>2. \A j : Entered(members', j) = Entered(members, j)
        BY <1>1 DEF Entered
    <2>3. ASSUME NEW j \in InvitationId
          PROVE  /\ invitations'[j].uses = Cardinality(Entered(members', j))
                 /\ Cardinality(Entered(members', j)) <= invitations'[j].max
                 /\ invitations'[j].status = "accepted"
                       <=> invitations'[j].max > 0
                           /\ Cardinality(Entered(members', j)) = invitations'[j].max
        <3>1. CASE j = i
            BY <1>1, <1>2, <1>3, <1>4, <2>1, <2>2, <3>1
        <3>2. CASE j # i
            BY <1>1, <1>2, <2>2, <3>2, Counted DEF IInv
        <3>3. QED
            BY <3>1, <3>2
    <2>4. QED
        BY <2>3 DEF InvitationsAccounted, Entered
<1>8. QED
    BY <1>1, <1>5, <1>6, <1>7, MembershipPartsSuffice

\* Requests that only the middleware authorised.
LEMMA OfficePreserves ==
    ASSUME IInv, NEW a \in User, Office(a), UNCHANGED polls
    PROVE  IInv'
<1>1. chama \in ChamaRow /\ members \in [User -> MemberRow]
    BY DEF IInv, GovernanceTypeOK, MembershipTypeOK
<1>2. CASE Authorize(a)
    BY <1>1, <1>2, ElsewherePreserves DEF Authorize
<1>3. ASSUME NEW i \in InvitationId, NEW u \in User \cup {Anyone}, NEW r \in Role,
             NEW m \in MaxUses, Invite(a, i, u, r, m)
      PROVE  IInv'
    BY <1>3, InvitePreserves
<1>4. ASSUME NEW i \in InvitationId, Resend(a, i) PROVE IInv'
    BY <1>1, <1>4, ElsewherePreserves DEF Resend
<1>5. ASSUME NEW i \in InvitationId, CancelInvitation(a, i) PROVE IInv'
    BY <1>5, StatusKept DEF CancelInvitation
<1>6. ASSUME NEW v \in Visibilities, NEW t \in Target, NEW later \in BOOLEAN,
             UpdateChama(a, v, t, later)
      PROVE  IInv'
    <2>1. chama' \in ChamaRow
        BY <1>1, <1>6 DEF UpdateChama, ChamaRow
    <2>2. QED
        BY <1>6, <2>1, ElsewherePreserves DEF UpdateChama
<1>7. ASSUME NEW u \in User, NEW r \in Role, NEW s \in Statuses, UpdateMember(a, u, r, s)
      PROVE  IInv'
    BY <1>7, ReassignPreserves DEF UpdateMember, Reassign
<1>8. QED
    BY <1>2, <1>3, <1>4, <1>5, <1>6, <1>7 DEF Office

\* What platform administrators do.
LEMMA AdministrationPreserves ==
    ASSUME IInv, Administration, UNCHANGED polls
    PROVE  IInv'
<1>1. chama \in ChamaRow /\ members \in [User -> MemberRow]
    BY DEF IInv, GovernanceTypeOK, MembershipTypeOK
<1>2. ASSUME NEW u \in User, NEW r \in Role, ChangeRole(u, r) PROVE IInv'
    <2>1. members[u].status \in Statuses \cup ManualStatus \cup {"none"}
        BY <1>1 DEF MemberRow
    <2>2. QED
        BY <1>2, <2>1, ReassignPreserves DEF ChangeRole, Reassign
<1>3. ASSUME NEW u \in User, NEW r \in Role, NEW s \in ManualStatus, AddMembership(u, r, s)
      PROVE  IInv'
    <2> DEFINE row == Enrolment(r, s, "platform")
    <2>1. row \in MemberRow /\ row.via = "platform" /\ row.accepted = NoRule
        BY DEF Enrolment, MemberRow, Rule, NoRule
    <2>2. members[u].via = "none" /\ Stands(NoRule, constitution)
        BY <1>3 DEF AddMembership, HasMembership, NoMember, Enrolment, Stands
    <2>3. /\ members' = [members EXCEPT ![u] = row]
          /\ UNCHANGED <<chama, applications, invitations, constitution>>
        BY <1>3 DEF AddMembership
    <2> HIDE DEF row
    <2>4. QED
        BY <2>1, <2>2, <2>3, MembersKept
<1>4. CASE ModerateChama
    <2>1. chama' \in ChamaRow
        BY <1>1, <1>4 DEF ModerateChama, ChamaRow
    <2>2. QED
        BY <1>4, <2>1, ElsewherePreserves DEF ModerateChama
<1>5. QED
    BY <1>2, <1>3, <1>4 DEF Administration

\* Deliveries, expiries, deposits, defaults and deadlines.
LEMMA SurroundingsPreserve ==
    ASSUME IInv, Surroundings, UNCHANGED polls
    PROVE  IInv'
<1>1. /\ chama \in ChamaRow /\ members \in [User -> MemberRow]
      /\ applications \in Seq(ApplicationRow)
      /\ invitations \in [InvitationId -> InvitationRow]
    BY DEF IInv, GovernanceTypeOK, MembershipTypeOK
<1>2. ASSUME NEW i \in InvitationId, MarkSent(i) PROVE IInv'
    <2>1. CASE Deliverable(i)
        <3>1. invitations[i].status \in Usable /\ "sent" \in Usable
            BY <2>1 DEF Deliverable, Resendable, Usable
        <3>2. QED
            BY <1>2, <2>1, <3>1, StatusKept DEF MarkSent
    <2>2. CASE ~Deliverable(i)
        BY <1>1, <1>2, <2>2, ElsewherePreserves DEF MarkSent
    <2>3. QED
        BY <2>1, <2>2
<1>3. ASSUME NEW i \in InvitationId, DeliveryFails(i) PROVE IInv'
    BY <1>1, <1>3, ElsewherePreserves DEF DeliveryFails
<1>4. ASSUME NEW i \in InvitationId, InvitationExpires(i) PROVE IInv'
    <2> DEFINE row == [invitations[i] EXCEPT !.expired = TRUE]
    <2>1. /\ row \in InvitationRow /\ row.status = invitations[i].status
          /\ row.uses = invitations[i].uses /\ row.max = invitations[i].max
        <3>1. invitations[i] \in InvitationRow
            BY <1>1
        <3>2. QED
            BY <3>1 DEF InvitationRow
    <2>2. /\ invitations' = [invitations EXCEPT ![i] = row]
          /\ invitations[i].status # "accepted"
          /\ UNCHANGED <<chama, members, applications, constitution>>
        BY <1>4 DEF InvitationExpires, Usable
    <2> HIDE DEF row
    <2>3. QED
        BY <2>1, <2>2, InvitationKept
<1>5. ASSUME NEW n \in DOMAIN applications, DepositHeld(n) PROVE IInv'
    <2> DEFINE u == applications[n].user
               row == [members[u] EXCEPT !.status = "active"]
    <2>1. u \in User
        <3>1. applications[n] \in ApplicationRow
            BY <1>1
        <3>2. QED
            BY <3>1 DEF ApplicationRow
    <2> HIDE DEF u
    <2>2. /\ row \in MemberRow /\ row.via = members[u].via
          /\ row.accepted = members[u].accepted
        <3>1. members[u] \in MemberRow
            BY <1>1, <2>1
        <3>2. QED
            BY <3>1 DEF MemberRow, Statuses
    <2>3. /\ members' = [members EXCEPT ![u] = row]
          /\ applications' = [applications EXCEPT ![n].status = "approved"]
          /\ UNCHANGED <<chama, invitations, constitution>>
        BY <1>5 DEF DepositHeld, u
    <2> HIDE DEF row
    <2>4. QED
        BY <2>1, <2>2, <2>3, MembersKept
<1>6. ASSUME NEW u \in User, PenaltyDefault(u) PROVE IInv'
    <2> DEFINE row == [members[u] EXCEPT !.status = "defaulted"]
    <2>1. /\ row \in MemberRow /\ row.via = members[u].via
          /\ row.accepted = members[u].accepted
        BY <1>1 DEF MemberRow, Statuses
    <2>2. /\ members' = [members EXCEPT ![u] = row]
          /\ UNCHANGED <<chama, applications, invitations, constitution>>
        BY <1>6 DEF PenaltyDefault
    <2> HIDE DEF row
    <2>3. QED
        BY <2>1, <2>2, MembersKept
<1>7. CASE DeadlinePasses
    <2>1. chama' \in ChamaRow
        BY <1>1, <1>7 DEF DeadlinePasses, ChamaRow
    <2>2. QED
        BY <1>7, <2>1, ElsewherePreserves DEF DeadlinePasses
<1>8. QED
    BY <1>2, <1>3, <1>4, <1>5, <1>6, <1>7 DEF Surroundings

\* No step of Membership disturbs the invariant.
LEMMA MembershipPreserves == IInv /\ MembershipNext => IInv'
BY JoinPreserves, ReviewPreserves, OfficePreserves, AdministrationPreserves,
   SurroundingsPreserve DEF MembershipNext

-----------------------------------------------------------------------------
\* A poll that was not acted on enacted nothing, so it may change, and be acted
\* on if it is closed and not about the Constitution.
LEMMA PollsKept ==
    ASSUME IInv, NEW p \in PollId, NEW poll \in PollRow,
           polls' = [polls EXCEPT ![p] = poll], ~polls[p].acted,
           Votes(poll) \subseteq poll.eligible,
           poll.acted => poll.status = "closed" /\ poll.kind # "rule_amendment",
           UNCHANGED constitution
    PROVE  /\ polls' \in [PollId -> PollRow]
           /\ PollsConsistent' /\ EnactedByPolls' /\ AmendedByItsPoll'
<1>1. polls \in [PollId -> PollRow]
    BY DEF IInv, GovernanceTypeOK
<1>2. \A q \in PollId : polls'[q] = IF q = p THEN poll ELSE polls[q]
    BY <1>1
<1>3. PollsConsistent'
    BY <1>2 DEF IInv, PollsConsistent, Votes
<1>4. EnactedByPolls' /\ Current' = Current
    BY DEF IInv, EnactedByPolls, Current
<1>5. AmendedByItsPoll'
    <2>1. ASSUME NEW v \in 2..Current
          PROVE  constitution[v].poll \in PollId /\ constitution[v].poll # p
        BY DEF IInv, EnactedByPolls, AmendedByItsPoll
    <2>2. \A v \in 2..Current : polls'[constitution[v].poll] = polls[constitution[v].poll]
        BY <1>2, <2>1
    <2>3. ASSUME NEW v \in 2..Current
          PROVE  LET enacting == polls'[constitution[v].poll] IN
                 /\ enacting.version = v - 1
                 /\ enacting.status = "closed" /\ enacting.acted
                 /\ Votes(enacting) \subseteq enacting.eligible
                 /\ MajorityMet(enacting)
        BY <2>2 DEF IInv, AmendedByItsPoll
    <2>4. ASSUME NEW q \in PollId, polls'[q].acted, polls'[q].kind = "rule_amendment"
          PROVE  \E v \in 2..Current : constitution[v].poll = q
        BY <1>2, <2>4 DEF IInv, AmendedByItsPoll
    <2>5. QED
        BY <1>4, <2>3, <2>4 DEF AmendedByItsPoll, Votes, MajorityMet, QuorumMet
<1>6. QED
    BY <1>1, <1>3, <1>4, <1>5

\* Nothing but a poll changes.
LEMMA PollChangeKeeps ==
    ASSUME IInv, NEW p \in PollId, NEW poll \in PollRow,
           polls' = [polls EXCEPT ![p] = poll], ~polls[p].acted,
           Votes(poll) \subseteq poll.eligible, ~poll.acted,
           UNCHANGED <<constitution, members, applications, invitations>>, chama' = chama
    PROVE  IInv'
<1>1. /\ polls' \in [PollId -> PollRow]
      /\ PollsConsistent' /\ EnactedByPolls' /\ AmendedByItsPoll'
    BY PollsKept
<1>2. GovernanceTypeOK'
    BY <1>1 DEF IInv, GovernanceTypeOK, MembershipTypeOK, Current
<1>3. RulesStand' /\ InvitationsAccounted'
    BY DEF IInv, RulesStand, InvitationsAccounted
<1>4. QED
    BY <1>1, <1>2, <1>3 DEF IInv

\* The outcome of a removal poll.
LEMMA RemoveMemberPreserves ==
    ASSUME IInv, NEW a \in User, NEW p \in PollId, RemoveMember(a, p)
    PROVE  IInv'
<1> DEFINE old == polls[p]
           poll == [old EXCEPT !.acted = TRUE]
           u == old.target
           row == [members[u] EXCEPT !.status = "exited"]
<1>1. polls \in [PollId -> PollRow] /\ old \in PollRow /\ Votes(old) \subseteq old.eligible
      /\ members \in [User -> MemberRow]
    BY DEF IInv, GovernanceTypeOK, MembershipTypeOK, PollsConsistent
<1>2. /\ old.kind = "member_removal" /\ old.status = "closed" /\ ~old.acted
      /\ members' = [members EXCEPT ![u] = row]
      /\ polls' = [polls EXCEPT ![p] = poll]
      /\ UNCHANGED <<chama, applications, invitations, constitution>>
    BY DEF RemoveMember
<1>3. /\ poll \in PollRow /\ poll.status = "closed" /\ poll.kind = "member_removal"
      /\ poll.eligible = old.eligible /\ poll.yes = old.yes /\ poll.no = old.no
    BY <1>1, <1>2 DEF PollRow
<1> HIDE DEF poll, row, u
<1>4. Votes(poll) \subseteq poll.eligible
    BY <1>1, <1>3 DEF Votes
<1>5. /\ polls' \in [PollId -> PollRow]
      /\ PollsConsistent' /\ EnactedByPolls' /\ AmendedByItsPoll'
    BY <1>2, <1>3, <1>4, PollsKept
<1>6. MembershipTypeOK' /\ RulesStand' /\ InvitationsAccounted'
    <2>1. CASE u \in User
        <3>1. members[u] \in MemberRow
            BY <1>1, <2>1
        <3>2. /\ row \in MemberRow /\ row.via = members[u].via
              /\ row.accepted = members[u].accepted
            BY <3>1 DEF row, MemberRow, Statuses
        <3>3. QED
            BY <1>2, <2>1, <3>2, MembersParts
    <2>2. CASE u \notin User
        <3>1. members' = members
            BY <1>1, <1>2, <2>2
        <3>2. MembershipTypeOK'
            BY <1>2, <3>1 DEF IInv, GovernanceTypeOK, MembershipTypeOK
        <3>3. RulesStand'
            BY <1>2, <3>1 DEF IInv, RulesStand
        <3>4. InvitationsAccounted'
            BY <1>2, <3>1 DEF IInv, InvitationsAccounted
        <3>5. QED
            BY <3>2, <3>3, <3>4
    <2>3. QED
        BY <2>1, <2>2
<1>7. QED
    BY <1>2, <1>5, <1>6 DEF IInv, GovernanceTypeOK, Current

\* A poll that is due closes.
LEMMA PollDeadlinePreserves ==
    ASSUME IInv, NEW p \in PollId, PollDeadline(p)
    PROVE  IInv'
<1> DEFINE poll == [polls[p] EXCEPT !.status = "closed"]
<1>1. polls[p] \in PollRow /\ Votes(polls[p]) \subseteq polls[p].eligible
      /\ polls[p].status = "open" /\ ~polls[p].acted
    <2>1. polls[p] \in PollRow /\ Votes(polls[p]) \subseteq polls[p].eligible
          /\ (polls[p].acted => polls[p].status = "closed")
        BY DEF IInv, GovernanceTypeOK, PollsConsistent
    <2>2. QED
        BY <2>1 DEF PollDeadline, PollRow
<1>2. /\ poll \in PollRow /\ poll.eligible = polls[p].eligible /\ poll.acted = polls[p].acted
      /\ poll.yes = polls[p].yes /\ poll.no = polls[p].no
    BY <1>1 DEF PollRow
<1>3. polls' = [polls EXCEPT ![p] = poll] /\ UNCHANGED membershipVars
    BY DEF PollDeadline
<1> HIDE DEF poll
<1>4. Votes(poll) \subseteq poll.eligible
    BY <1>1, <1>2 DEF Votes
<1>5. QED
    BY <1>1, <1>2, <1>3, <1>4, PollChangeKeeps DEF membershipVars

\* A poll opens without votes.
LEMMA CreatePollPreserves ==
    ASSUME IInv, NEW a \in User, NEW p \in PollId, NEW kind \in PollKinds,
           NEW target \in User \cup {"none"}, CreatePoll(a, p, kind, target)
    PROVE  IInv'
<1> DEFINE poll == [NoPoll EXCEPT !.status = "open", !.kind = kind, !.version = Current,
                                  !.eligible = {u \in User : IsActive(u)}, !.target = target]
<1>1. Current \in Nat
    BY CurrentStands DEF IInv
<1>2. poll \in PollRow /\ Votes(poll) = {} /\ ~poll.acted
    BY <1>1 DEF PollRow, NoPoll, Votes
<1>3. polls' = [polls EXCEPT ![p] = poll] /\ polls[p] = NoPoll
      /\ UNCHANGED <<chama, members, applications, invitations, constitution>>
    BY DEF CreatePoll
<1>4. ~polls[p].acted
    BY <1>3 DEF NoPoll
<1> HIDE DEF poll
<1>5. QED
    BY <1>2, <1>3, <1>4, PollChangeKeeps

\* A vote is one of the electorate.
LEMMA VotePreserves ==
    ASSUME IInv, NEW u \in User, NEW p \in PollId, NEW approve \in BOOLEAN, Vote(u, p, approve)
    PROVE  IInv'
<1> DEFINE old == polls[p]
           cast == IF approve THEN [old EXCEPT !.yes = @ \cup {u}]
                   ELSE [old EXCEPT !.no = @ \cup {u}]
           poll == Refreshed(cast)
<1>1. polls \in [PollId -> PollRow] /\ old \in PollRow /\ Votes(old) \subseteq old.eligible
      /\ (old.acted => old.status = "closed")
    BY DEF IInv, GovernanceTypeOK, PollsConsistent
<1>2. old.status = "open" /\ u \in old.eligible
    BY DEF Vote, MayVote
<1>3. ~old.acted
    BY <1>1, <1>2 DEF PollRow
<1>4. polls' = [polls EXCEPT ![p] = poll] /\ UNCHANGED membershipVars
    BY <1>1 DEF Vote
<1> HIDE DEF old
<1>5. cast \in PollRow /\ cast.eligible = old.eligible /\ ~cast.acted
      /\ Votes(cast) \subseteq cast.eligible
    <2>1. CASE approve
        BY <1>1, <1>2, <1>3, <2>1 DEF PollRow, Votes
    <2>2. CASE ~approve
        BY <1>1, <1>2, <1>3, <2>2 DEF PollRow, Votes
    <2>3. QED
        BY <2>1, <2>2
<1> HIDE DEF cast
<1>6. /\ poll \in PollRow /\ poll.eligible = cast.eligible /\ ~poll.acted
      /\ poll.yes = cast.yes /\ poll.no = cast.no
    BY <1>5 DEF Refreshed, PollRow
<1> HIDE DEF poll
<1>7. Votes(poll) \subseteq poll.eligible
    BY <1>5, <1>6 DEF Votes
<1>8. QED
    BY <1>3, <1>4, <1>6, <1>7, PollChangeKeeps DEF membershipVars, old

\* The amendment is enacted: a version of its own, and the poll is acted on.
LEMMA AmendPreserves ==
    ASSUME IInv, NEW a \in User, NEW p \in PollId, AmendConstitution(a, p)
    PROVE  IInv'
<1> DEFINE old == polls[p]
           poll == [old EXCEPT !.acted = TRUE]
           Version == [text : Nat, poll : PollId \cup {"none"}]
           version == [text |-> 0, poll |-> p]
<1>1. /\ polls \in [PollId -> PollRow] /\ old \in PollRow /\ Votes(old) \subseteq old.eligible
      /\ constitution \in Seq(Version) /\ version \in Version /\ Len(constitution) >= 1
      /\ version.poll = p /\ version.text = 0
    BY DEF IInv, GovernanceTypeOK, PollsConsistent, Current
<1>2. /\ old.version = Current /\ old.status = "closed" /\ ~old.acted
      /\ MajorityMet(old)
      /\ constitution' = Append(constitution, version)
      /\ polls' = [polls EXCEPT ![p] = poll]
      /\ UNCHANGED <<chama, members, applications, invitations>>
    BY DEF AmendConstitution, Targets
<1>3. /\ poll \in PollRow /\ poll.status = "closed" /\ poll.acted /\ poll.version = old.version
      /\ poll.eligible = old.eligible /\ poll.yes = old.yes /\ poll.no = old.no
    BY <1>1, <1>2 DEF PollRow
<1> HIDE DEF poll, version, Version, old
<1>4. Votes(poll) \subseteq poll.eligible /\ MajorityMet(poll)
    BY <1>1, <1>2, <1>3 DEF Votes, MajorityMet, QuorumMet
<1>5. /\ constitution' \in Seq(Version) /\ Current' = Current + 1
      /\ Current \in Nat /\ Current >= 1
      /\ DOMAIN constitution = 1..Current /\ DOMAIN constitution' = 1..(Current + 1)
      /\ constitution'[Current + 1] = version
      /\ \A v \in 1..Current : constitution'[v] = constitution[v]
    BY <1>1, <1>2 DEF Current
<1>6. \A q \in PollId : polls'[q] = IF q = p THEN poll ELSE polls[q]
    BY <1>1, <1>2
<1>7. GovernanceTypeOK'
    <2>1. polls' \in [PollId -> PollRow] /\ MembershipTypeOK'
        BY <1>1, <1>2, <1>3 DEF IInv, GovernanceTypeOK, MembershipTypeOK
    <2>2. QED
        BY <1>5, <2>1 DEF GovernanceTypeOK, Version
<1>8. PollsConsistent'
    BY <1>3, <1>4, <1>6 DEF IInv, PollsConsistent, Votes
<1>9. EnactedByPolls'
    <2>1. ASSUME NEW v \in 2..(Current + 1) PROVE constitution'[v].poll \in PollId
        <3>1. CASE v = Current + 1
            BY <1>1, <1>5, <3>1
        <3>2. CASE v # Current + 1
            <4>1. v \in 2..Current /\ v \in 1..Current
                BY <1>5, <3>2
            <4>2. QED
                BY <1>5, <4>1 DEF IInv, EnactedByPolls
        <3>3. QED
            BY <3>1, <3>2
    <2>2. QED
        BY <1>5, <2>1 DEF EnactedByPolls
<1>10. AmendedByItsPoll'
    <2>1. ASSUME NEW v \in 2..(Current + 1)
          PROVE  LET enacting == polls'[constitution'[v].poll] IN
                 /\ enacting.version = v - 1
                 /\ enacting.status = "closed" /\ enacting.acted
                 /\ Votes(enacting) \subseteq enacting.eligible
                 /\ MajorityMet(enacting)
        <3>1. CASE v = Current + 1
            <4>1. polls'[constitution'[v].poll] = poll
                BY <1>1, <1>5, <1>6, <3>1
            <4>2. poll.version = v - 1
                BY <1>2, <1>3, <1>5, <3>1
            <4>3. QED
                BY <1>3, <1>4, <4>1, <4>2
        <3>2. CASE v # Current + 1
            <4>1. v \in 2..Current /\ v \in 1..Current
                BY <1>5, <3>2
            <4> DEFINE enacting == polls[constitution[v].poll]
            <4>2. /\ constitution[v].poll \in PollId
                  /\ enacting.version = v - 1
                  /\ enacting.status = "closed" /\ enacting.acted
                  /\ Votes(enacting) \subseteq enacting.eligible
                  /\ MajorityMet(enacting)
                BY <4>1 DEF IInv, EnactedByPolls, AmendedByItsPoll
            <4>3. constitution[v].poll # p
                BY <1>2, <4>2 DEF old
            <4>4. polls'[constitution'[v].poll] = enacting
                BY <1>5, <1>6, <4>1, <4>2, <4>3
            <4> HIDE DEF enacting
            <4>5. QED
                BY <4>2, <4>4
        <3>3. QED
            BY <3>1, <3>2
    <2>2. ASSUME NEW q \in PollId, polls'[q].acted, polls'[q].kind = "rule_amendment"
          PROVE  \E v \in 2..(Current + 1) : constitution'[v].poll = q
        <3>1. CASE q = p
            <4>1. Current + 1 \in 2..(Current + 1)
                BY <1>5
            <4>2. QED
                BY <1>1, <1>5, <3>1, <4>1
        <3>2. CASE q # p
            <4>1. PICK v \in 2..Current : constitution[v].poll = q
                BY <1>6, <2>2, <3>2 DEF IInv, AmendedByItsPoll
            <4>2. v \in 2..(Current + 1) /\ constitution'[v] = constitution[v]
                BY <1>5
            <4>3. QED
                BY <4>1, <4>2
        <3>3. QED
            BY <3>1, <3>2
    <2>3. QED
        BY <1>5, <2>1, <2>2 DEF AmendedByItsPoll, Votes, MajorityMet, QuorumMet
<1>11. RulesStand'
    <2>1. \A v \in DOMAIN constitution :
             v \in DOMAIN constitution' /\ constitution'[v].text = constitution[v].text
        BY <1>5
    <2>2. QED
        BY <1>2, <2>1, StillStands DEF IInv
<1>12. InvitationsAccounted'
    BY <1>2 DEF IInv, InvitationsAccounted
<1>13. QED
    BY <1>7, <1>8, <1>9, <1>10, <1>11, <1>12 DEF IInv

\* Version 1 gets another text before anybody accepted any.
LEMMA ConfigurePreserves ==
    ASSUME IInv, NEW a \in User, ConfigureConstitution(a)
    PROVE  IInv'
<1> DEFINE Version == [text : Nat, poll : PollId \cup {"none"}]
           version == [constitution[1] EXCEPT !.text = @ + 1]
<1>1. constitution \in Seq(Version) /\ Current = 1
    BY DEF IInv, GovernanceTypeOK, ConfigureConstitution
<1>2. DOMAIN constitution = {1} /\ constitution[1] \in Version
    <2> HIDE DEF Version
    <2>1. DOMAIN constitution = 1..1
        BY <1>1 DEF Current
    <2>2. 1..1 = {1}
        OBVIOUS
    <2>3. QED
        BY <1>1, <2>1, <2>2
<1>3. version \in Version
    <2> DEFINE first == constitution[1]
    <2> HIDE DEF first
    <2>1. [first EXCEPT !.text = @ + 1] \in Version
        BY <1>2 DEF first
    <2>2. QED
        BY <2>1 DEF first
<1>4. /\ constitution' = [constitution EXCEPT ![1] = version]
      /\ UNCHANGED <<chama, members, applications, invitations, polls>>
    BY DEF ConfigureConstitution
<1> HIDE DEF Version, version
<1>5. constitution' \in Seq(Version) /\ Current' = 1 /\ DOMAIN constitution' = {1}
    <2>1. constitution' \in Seq(Version)
        BY <1>1, <1>2, <1>3, <1>4, ReplacedRow
    <2>2. DOMAIN constitution' = DOMAIN constitution
        BY <1>1, <1>4
    <2>3. QED
        BY <1>1, <1>2, <2>1, <2>2 DEF Current
<1>6. GovernanceTypeOK'
    BY <1>4, <1>5 DEF IInv, GovernanceTypeOK, MembershipTypeOK, Version
<1>7. PollsConsistent' /\ EnactedByPolls'
    BY <1>4, <1>5 DEF IInv, PollsConsistent, EnactedByPolls, Votes
<1>8. AmendedByItsPoll'
    <2>1. \A q \in PollId : ~(polls[q].acted /\ polls[q].kind = "rule_amendment")
        BY <1>1 DEF IInv, AmendedByItsPoll
    <2>2. QED
        BY <1>4, <1>5, <2>1 DEF AmendedByItsPoll
<1>9. RulesStand'
    <2>1. /\ \A u \in User : members[u].accepted = NoRule
          /\ \A n \in DOMAIN applications : applications[n].rule = NoRule
        BY <1>2 DEF IInv, RulesStand, Stands, ConfigureConstitution, NeverAccepted
    <2>2. QED
        BY <1>4, <2>1 DEF RulesStand, Stands
<1>10. InvitationsAccounted'
    BY <1>4 DEF IInv, InvitationsAccounted
<1>11. QED
    BY <1>6, <1>7, <1>8, <1>9, <1>10 DEF IInv

\* A member accepts the version in force.
LEMMA AcceptPreserves ==
    ASSUME IInv, NEW u \in User, AcceptConstitution(u)
    PROVE  IInv'
<1> DEFINE row == [members[u] EXCEPT !.accepted = CurrentRule]
<1>1. CurrentRule \in Rule /\ Stands(CurrentRule, constitution)
    BY CurrentStands DEF IInv
<1>2. members[u] \in MemberRow
    BY DEF IInv, GovernanceTypeOK, MembershipTypeOK
<1>3. row \in MemberRow /\ row.via = members[u].via /\ row.accepted = CurrentRule
    <2> HIDE DEF row
    <2>1. row = [members[u] EXCEPT !.accepted = CurrentRule]
        BY DEF row
    <2>2. QED
        BY <1>1, <1>2, <2>1 DEF MemberRow
<1>4. /\ members' = [members EXCEPT ![u] = row]
      /\ UNCHANGED <<chama, applications, invitations, constitution, polls>>
    BY DEF AcceptConstitution
<1> HIDE DEF row
<1>5. QED
    BY <1>1, <1>3, <1>4, MembersKept

\* Every step preserves the invariant.
LEMMA NextPreserves == IInv /\ [Next]_governanceVars => IInv'
<1> SUFFICES ASSUME IInv, [Next]_governanceVars PROVE IInv'
    OBVIOUS
<1>1. CASE MembershipNext
    BY <1>1, MembershipPreserves
<1>2. ASSUME NEW a \in User, Polling(a) PROVE IInv'
    <2>1. PICK p \in PollId :
             \/ \E t \in User : CreatePoll(a, p, "member_removal", t)
             \/ CreatePoll(a, p, "rule_amendment", "none")
             \/ \E approve \in BOOLEAN : Vote(a, p, approve)
             \/ RemoveMember(a, p)
             \/ AmendConstitution(a, p)
        BY <1>2 DEF Polling
    <2>2. "member_removal" \in PollKinds /\ "rule_amendment" \in PollKinds
        BY DEF PollKinds
    <2>3. QED
        BY <2>1, <2>2, CreatePollPreserves, VotePreserves, RemoveMemberPreserves, AmendPreserves
<1>3. ASSUME NEW a \in User, ConfigureConstitution(a) \/ AcceptConstitution(a) PROVE IInv'
    BY <1>3, ConfigurePreserves, AcceptPreserves
<1>4. ASSUME NEW p \in PollId, PollDeadline(p) PROVE IInv'
    BY <1>4, PollDeadlinePreserves
<1>5. CASE UNCHANGED governanceVars
    BY <1>5, ElsewherePreserves DEF governanceVars, membershipVars, IInv, GovernanceTypeOK,
                                    MembershipTypeOK
<1>6. QED
    BY <1>1, <1>2, <1>3, <1>4, <1>5 DEF Next, GovernanceNext

-----------------------------------------------------------------------------
\* The inductive invariant holds in every behaviour.
THEOREM Invariance == Spec => []IInv
<1>1. IInv /\ [Next]_governanceVars => IInv'
    BY NextPreserves
<1>2. QED
    BY <1>1, InitInvariant, PTL DEF Spec

\* Every version after the first was enacted by one poll about the version
\* before it, closed, with quorum and majority in its electorate.
THEOREM AmendmentsWereVoted == Spec => []AmendedByItsPoll
<1>1. IInv => AmendedByItsPoll
    BY DEF IInv
<1>2. QED
    BY <1>1, Invariance, PTL

\* An acceptance stands for the text that was accepted.
THEOREM AcceptedTextsStand == Spec => []AcceptedTextStands
<1>1. IInv => AcceptedTextStands
    BY DEF IInv, RulesStand, Stands, AcceptedTextStands
<1>2. QED
    BY <1>1, Invariance, PTL

\* The uses of an invitation are the members it let in.
THEOREM InvitationsCounted == Spec => []InvitationsAccounted
<1>1. IInv => InvitationsAccounted
    BY DEF IInv
<1>2. QED
    BY <1>1, Invariance, PTL

-----------------------------------------------------------------------------
\* What a step may do about entries, and about the office of the chairperson.
EntryStep ==
    /\ \A u \in User :
         ~HasMembership(u) /\ HasMembership(u)' /\ members'[u].via # "platform" =>
           /\ Occupied' <= Capacity
           /\ members'[u].accepted.version = Current
    /\ chama.full => chama'.full

ChairStep ==
    Chairs # {} /\ Chairs' = {} => \E u \in Chairs : members'[u].status = "defaulted"

\* A step that changes no membership.
LEMMA MembersUntouched ==
    ASSUME members' = members, chama.full => chama'.full
    PROVE  EntryStep /\ ChairStep
BY DEF EntryStep, ChairStep, HasMembership, Chairs, IsChair, IsActive

\* A member changes, and a chairperson is left.
LEMMA MemberChanges ==
    ASSUME IInv, NEW u \in User, NEW row, members' = [members EXCEPT ![u] = row],
           HasMembership(u), KeepsChair(u, row.role, row.status), chama.full => chama'.full
    PROVE  EntryStep /\ ChairStep
<1>1. \A o \in User : members'[o] = IF o = u THEN row ELSE members[o]
    BY DEF IInv, GovernanceTypeOK, MembershipTypeOK
<1>2. EntryStep
    BY <1>1 DEF EntryStep, HasMembership
<1>3. ASSUME NEW c \in Chairs PROVE Chairs' # {}
    <2>1. c \in User /\ IsChair(c)
        BY <1>3 DEF Chairs
    <2>2. PICK keeper \in User : \/ keeper # u /\ IsChair(keeper)
                                 \/ keeper = u /\ row.role = "chairperson"
                                    /\ row.status = "active"
        BY <2>1 DEF KeepsChair, Chairs
    <2>3. members'[keeper].role = "chairperson" /\ members'[keeper].status = "active"
        BY <1>1, <2>2 DEF IsChair, IsActive
    <2>4. keeper \in Chairs'
        BY <2>3 DEF Chairs, IsChair, IsActive
    <2>5. QED
        BY <2>4
<1>4. QED
    BY <1>2, <1>3 DEF ChairStep

\* A user without a membership gets one that is not a chairperson's loss, and
\* that is either the platform's decision or an entry with a slot and the
\* Constitution in force.
LEMMA MemberEnters ==
    ASSUME IInv, NEW u \in User, ~HasMembership(u), NEW row,
           members' = [members EXCEPT ![u] = row], chama.full => chama'.full,
           \/ row.via = "platform"
           \/ Occupied < Capacity /\ row.status \in {"active", "pending"}
              /\ row.accepted.version = Current
    PROVE  EntryStep /\ ChairStep
<1>1. \A o \in User : members'[o] = IF o = u THEN row ELSE members[o]
    BY DEF IInv, GovernanceTypeOK, MembershipTypeOK
<1>2. members[u].status = "none"
    BY DEF HasMembership, NoMember, Enrolment
<1>3. ASSUME Occupied < Capacity, row.status \in {"active", "pending"}
      PROVE  Occupied' <= Capacity
    <2> DEFINE S == {o \in User : members[o].status \in {"active", "pending"}}
               T == {o \in User : members'[o].status \in {"active", "pending"}}
    <2>1. T = S \cup {u} /\ u \notin S
        BY <1>1, <1>2, <1>3
    <2>2. IsFiniteSet(S)
        BY FS_Subset
    <2>3. Occupied = Cardinality(S) /\ Occupied' = Cardinality(T)
        BY DEF Occupied
    <2> HIDE DEF S, T
    <2>4. Cardinality(T) = Cardinality(S) + 1 /\ Cardinality(S) \in Nat
        BY <2>1, <2>2, FS_AddElement, FS_CardinalityType
    <2>5. Capacity \in Nat
        <3>1. chama.target \in Nat
            BY DEF IInv, GovernanceTypeOK, MembershipTypeOK, ChamaRow
        <3>2. QED
            BY <3>1 DEF Capacity
    <2>6. QED
        BY <1>3, <2>3, <2>4, <2>5
<1>4. EntryStep
    BY <1>1, <1>3 DEF EntryStep, HasMembership
<1>5. ASSUME NEW c \in Chairs PROVE c \in Chairs'
    <2>1. c \in User /\ members[c].status = "active" /\ members[c].role = "chairperson"
        BY <1>5 DEF Chairs, IsChair, IsActive
    <2>2. c # u
        BY <1>2, <2>1
    <2>3. QED
        BY <1>1, <2>1, <2>2 DEF Chairs, IsChair, IsActive
<1>6. QED
    BY <1>4, <1>5 DEF ChairStep

\* Joining and the approval of an application take a slot of the Chama.
LEMMA EnterSteps ==
    ASSUME IInv, NEW u \in User, NEW role, NEW rule, NEW via,
           MayEnter(u), rule.version = Current, Enter(u, role, rule, via)
    PROVE  EntryStep /\ ChairStep
<1> DEFINE row == [Enrolment(role, "pending", via) EXCEPT !.accepted = rule]
<1>1. row.status = "pending" /\ row.accepted = rule
    BY DEF Enrolment
<1>2. members' = [members EXCEPT ![u] = row]
    BY DEF Enter
<1>3. chama.full => chama'.full
    <2>1. chama \in ChamaRow
        BY DEF IInv, GovernanceTypeOK, MembershipTypeOK
    <2>2. QED
        BY <2>1 DEF Enter, ChamaRow
<1>4. ~HasMembership(u) /\ Occupied < Capacity
    BY DEF MayEnter
<1> HIDE DEF row
<1>5. QED
    BY <1>1, <1>2, <1>3, <1>4, MemberEnters

\* Officials and administrators may not take the office from the last one.
LEMMA ReassignSteps ==
    ASSUME IInv, NEW u \in User, NEW role, NEW status, Reassign(u, role, status),
           chama' = chama
    PROVE  EntryStep /\ ChairStep
<1> DEFINE row == [members[u] EXCEPT !.role = role, !.status = status]
<1>1. members[u] \in MemberRow /\ members \in [User -> MemberRow]
    BY DEF IInv, GovernanceTypeOK, MembershipTypeOK
<1>2. row.role = role /\ row.status = status
    BY <1>1 DEF MemberRow
<1>3. members' = [members EXCEPT ![u] = row]
    BY <1>1 DEF Reassign, MemberRow
<1>4. HasMembership(u) /\ KeepsChair(u, role, status)
    BY DEF Reassign
<1> HIDE DEF row
<1>5. QED
    BY <1>2, <1>3, <1>4, MemberChanges

\* Whichever way a user joins.
LEMMA JoinSteps == ASSUME IInv, NEW u \in User, Join(u) PROVE EntryStep /\ ChairStep
<1>1. CASE ApplyForReview(u, Current)
    BY <1>1, MembersUntouched DEF ApplyForReview
<1>2. CurrentRule.version = Current
    BY DEF CurrentRule
<1>3. CASE JoinDirectly(u, Current)
    BY <1>2, <1>3, EnterSteps DEF JoinDirectly
<1>4. ASSUME NEW i \in InvitationId, JoinByInvitation(u, i, Current)
      PROVE  EntryStep /\ ChairStep
    BY <1>2, <1>4, EnterSteps DEF JoinByInvitation
<1>5. ASSUME NEW i \in InvitationId, RejectInvitation(u, i)
      PROVE  EntryStep /\ ChairStep
    BY <1>5, MembersUntouched DEF RejectInvitation
<1>6. QED
    BY <1>1, <1>3, <1>4, <1>5 DEF Join

\* An approval takes the slot it counts and checks the version again.
LEMMA ReviewSteps == ASSUME IInv, NEW a \in User, Review(a) PROVE EntryStep /\ ChairStep
<1>1. PICK n \in DOMAIN applications : ApproveApplication(a, n) \/ RejectApplication(a, n)
    BY DEF Review
<1>2. CASE RejectApplication(a, n)
    BY <1>2, MembersUntouched DEF RejectApplication
<1>3. CASE ApproveApplication(a, n)
    <2> DEFINE u == applications[n].user
               rule == applications[n].rule
    <2>1. u \in User
        <3>1. applications[n] \in ApplicationRow
            BY DEF IInv, GovernanceTypeOK, MembershipTypeOK
        <3>2. QED
            BY <3>1 DEF ApplicationRow
    <2>2. rule.version = Current /\ MayEnter(u) /\ Enter(u, "member", rule, "none")
        BY <1>3 DEF ApproveApplication, StillCurrent
    <2> HIDE DEF u, rule
    <2>3. QED
        BY <2>1, <2>2, EnterSteps
<1>4. QED
    BY <1>1, <1>2, <1>3

\* Of the requests of officials one changes a member.
LEMMA OfficeSteps == ASSUME IInv, NEW a \in User, Office(a) PROVE EntryStep /\ ChairStep
<1>1. CASE Authorize(a)
    BY <1>1, MembersUntouched DEF Authorize
<1>2. ASSUME NEW i \in InvitationId, NEW u \in User \cup {Anyone}, NEW r \in Role,
             NEW m \in MaxUses, Invite(a, i, u, r, m)
      PROVE  EntryStep /\ ChairStep
    BY <1>2, MembersUntouched DEF Invite
<1>3. ASSUME NEW i \in InvitationId, Resend(a, i) \/ CancelInvitation(a, i)
      PROVE  EntryStep /\ ChairStep
    BY <1>3, MembersUntouched DEF Resend, CancelInvitation
<1>4. ASSUME NEW v \in Visibilities, NEW t \in Target, NEW later \in BOOLEAN,
             UpdateChama(a, v, t, later)
      PROVE  EntryStep /\ ChairStep
    <2>1. chama \in ChamaRow
        BY DEF IInv, GovernanceTypeOK, MembershipTypeOK
    <2>2. chama'.full = chama.full /\ members' = members
        BY <1>4, <2>1 DEF UpdateChama, ChamaRow
    <2>3. QED
        BY <2>2, MembersUntouched
<1>5. ASSUME NEW u \in User, NEW r \in Role, NEW s \in Statuses, UpdateMember(a, u, r, s)
      PROVE  EntryStep /\ ChairStep
    BY <1>5, ReassignSteps DEF UpdateMember
<1>6. QED
    BY <1>1, <1>2, <1>3, <1>4, <1>5 DEF Office

\* The platform enrols members and moves offices.
LEMMA AdministrationSteps == ASSUME IInv, Administration PROVE EntryStep /\ ChairStep
<1>1. ASSUME NEW u \in User, NEW r \in Role, ChangeRole(u, r)
      PROVE  EntryStep /\ ChairStep
    BY <1>1, ReassignSteps DEF ChangeRole
<1>2. ASSUME NEW u \in User, NEW r \in Role, NEW s \in ManualStatus, AddMembership(u, r, s)
      PROVE  EntryStep /\ ChairStep
    <2> DEFINE row == Enrolment(r, s, "platform")
    <2>1. row.via = "platform"
        BY DEF Enrolment
    <2>2. members' = [members EXCEPT ![u] = row] /\ ~HasMembership(u) /\ chama' = chama
        BY <1>2 DEF AddMembership
    <2> HIDE DEF row
    <2>3. QED
        BY <2>1, <2>2, MemberEnters
<1>3. CASE ModerateChama
    <2>1. chama \in ChamaRow
        BY DEF IInv, GovernanceTypeOK, MembershipTypeOK
    <2>2. chama'.full = chama.full /\ members' = members
        BY <1>3, <2>1 DEF ModerateChama, ChamaRow
    <2>3. QED
        BY <2>2, MembersUntouched
<1>4. QED
    BY <1>1, <1>2, <1>3 DEF Administration

\* Only a default may take the last chairperson.
LEMMA SurroundingsSteps == ASSUME IInv, Surroundings PROVE EntryStep /\ ChairStep
<1>1. /\ chama \in ChamaRow /\ members \in [User -> MemberRow]
      /\ applications \in Seq(ApplicationRow)
    BY DEF IInv, GovernanceTypeOK, MembershipTypeOK
<1>2. ASSUME NEW i \in InvitationId, MarkSent(i) \/ DeliveryFails(i) \/ InvitationExpires(i)
      PROVE  EntryStep /\ ChairStep
    BY <1>2, MembersUntouched DEF MarkSent, DeliveryFails, InvitationExpires
<1>3. ASSUME NEW n \in DOMAIN applications, DepositHeld(n)
      PROVE  EntryStep /\ ChairStep
    <2> DEFINE u == applications[n].user
               row == [members[u] EXCEPT !.status = "active"]
    <2>1. u \in User
        <3>1. applications[n] \in ApplicationRow
            BY <1>1
        <3>2. QED
            BY <3>1 DEF ApplicationRow
    <2>2. /\ members[u].status = "pending" /\ members' = [members EXCEPT ![u] = row]
          /\ chama' = chama
        BY <1>3 DEF DepositHeld
    <2> HIDE DEF u, row
    <2>3. HasMembership(u) /\ ~IsChair(u)
        BY <2>2 DEF HasMembership, NoMember, Enrolment, IsChair, IsActive
    <2>4. QED
        BY <2>1, <2>2, <2>3, MemberChanges DEF KeepsChair
<1>4. ASSUME NEW u \in User, PenaltyDefault(u)
      PROVE  EntryStep /\ ChairStep
    <2>1. /\ members' = [members EXCEPT ![u].status = "defaulted"]
          /\ members[u].status = "active" /\ chama' = chama
        BY <1>4 DEF PenaltyDefault, IsActive
    <2>2. /\ members[u] \in MemberRow /\ members'[u].status = "defaulted"
          /\ \A o \in User \ {u} : members'[o] = members[o]
        BY <1>1, <2>1 DEF MemberRow
    <2>3. EntryStep
        BY <2>1, <2>2 DEF EntryStep, HasMembership, NoMember, Enrolment
    <2>4. \A c \in Chairs \ {u} : c \in Chairs'
        BY <2>2 DEF Chairs, IsChair, IsActive
    <2>5. QED
        BY <2>2, <2>3, <2>4 DEF ChairStep
<1>5. CASE DeadlinePasses
    <2>1. chama'.full = chama.full /\ members' = members
        BY <1>1, <1>5 DEF DeadlinePasses, ChamaRow
    <2>2. QED
        BY <2>1, MembersUntouched
<1>6. QED
    BY <1>2, <1>3, <1>4, <1>5 DEF Surroundings

\* A removal poll removes no last chairperson.
LEMMA PollingSteps == ASSUME IInv, NEW a \in User, Polling(a) PROVE EntryStep /\ ChairStep
<1>1. PICK p \in PollId :
         \/ \E t \in User : CreatePoll(a, p, "member_removal", t)
         \/ CreatePoll(a, p, "rule_amendment", "none")
         \/ \E approve \in BOOLEAN : Vote(a, p, approve)
         \/ RemoveMember(a, p)
         \/ AmendConstitution(a, p)
    BY DEF Polling
<1>2. CASE RemoveMember(a, p)
    <2> DEFINE u == polls[p].target
               row == [members[u] EXCEPT !.status = "exited"]
    <2>1. /\ HasMembership(u) /\ KeepsChair(u, members[u].role, "exited")
          /\ members' = [members EXCEPT ![u] = row] /\ chama' = chama
        BY <1>2 DEF RemoveMember
    <2>2. members \in [User -> MemberRow]
        BY DEF IInv, GovernanceTypeOK, MembershipTypeOK
    <2> HIDE DEF u
    <2>3. CASE u \in User
        <3>1. row.role = members[u].role /\ row.status = "exited"
            BY <2>2, <2>3 DEF MemberRow
        <3> HIDE DEF row
        <3>2. QED
            BY <2>1, <2>3, <3>1, MemberChanges
    <2>4. CASE u \notin User
        <3>1. members' = members
            BY <2>1, <2>2, <2>4
        <3>2. QED
            BY <2>1, <3>1, MembersUntouched
    <2>5. QED
        BY <2>3, <2>4
<1>3. QED
    BY <1>1, <1>2, MembersUntouched
    DEF CreatePoll, Vote, AmendConstitution, membershipVars

\* Every step respects both.
LEMMA EveryStep == IInv /\ [Next]_governanceVars => EntryStep /\ ChairStep
<1> SUFFICES ASSUME IInv, [Next]_governanceVars PROVE EntryStep /\ ChairStep
    OBVIOUS
<1>1. CASE MembershipNext
    BY <1>1, JoinSteps, ReviewSteps, OfficeSteps, AdministrationSteps, SurroundingsSteps
    DEF MembershipNext
<1>2. ASSUME NEW a \in User, Polling(a) PROVE EntryStep /\ ChairStep
    BY <1>2, PollingSteps
<1>3. ASSUME NEW a \in User, ConfigureConstitution(a) PROVE EntryStep /\ ChairStep
    BY <1>3, MembersUntouched DEF ConfigureConstitution
<1>4. ASSUME NEW u \in User, AcceptConstitution(u) PROVE EntryStep /\ ChairStep
    <2> DEFINE row == [members[u] EXCEPT !.accepted = CurrentRule]
    <2>1. /\ HasMembership(u) /\ members' = [members EXCEPT ![u] = row] /\ chama' = chama
        BY <1>4 DEF AcceptConstitution
    <2>2. row.role = members[u].role /\ row.status = members[u].status
        BY DEF IInv, GovernanceTypeOK, MembershipTypeOK, MemberRow
    <2> HIDE DEF row
    <2>3. KeepsChair(u, row.role, row.status)
        BY <2>2 DEF KeepsChair, IsChair, IsActive
    <2>4. QED
        BY <2>1, <2>3, MemberChanges
<1>5. ASSUME NEW p \in PollId, PollDeadline(p) PROVE EntryStep /\ ChairStep
    BY <1>5, MembersUntouched DEF PollDeadline, membershipVars
<1>6. CASE UNCHANGED governanceVars
    BY <1>6, MembersUntouched DEF governanceVars, membershipVars
<1>7. QED
    BY <1>1, <1>2, <1>3, <1>4, <1>5, <1>6 DEF Next, GovernanceNext

\* Who enters without the platform's doing fits into the Chama and has accepted
\* the Constitution in force, and recruitment that is full never reopens.
THEOREM EntryIsRespected == Spec => EntryRespectsChama
<1> DEFINE Step ==
        /\ \A u \in User :
             ~HasMembership(u) /\ HasMembership(u)' /\ members'[u].via # "platform" =>
               /\ Occupied' <= Capacity
               /\ members'[u].accepted.version = Current
        /\ chama.full => chama'.full
<1>1. IInv /\ [Next]_governanceVars => [Step]_governanceVars
    BY EveryStep DEF EntryStep
<1> HIDE DEF Step
<1>2. Spec => [][Step]_governanceVars
    BY <1>1, Invariance, PTL DEF Spec
<1>3. QED
    BY <1>2 DEF Step, EntryRespectsChama

\* Only a default takes a Chama its last active chairperson.
THEOREM ChairStays == Spec => ChairLostOnlyByDefault
<1> DEFINE Step ==
        Chairs # {} /\ Chairs' = {} => \E u \in Chairs : members'[u].status = "defaulted"
<1>1. IInv /\ [Next]_governanceVars => [Step]_governanceVars
    BY EveryStep DEF ChairStep
<1> HIDE DEF Step
<1>2. Spec => [][Step]_governanceVars
    BY <1>1, Invariance, PTL DEF Spec
<1>3. QED
    BY <1>2 DEF Step, ChairLostOnlyByDefault

-----------------------------------------------------------------------------
(***************************************************************************)
(* Sessions.                                                               *)
(***************************************************************************)
Grants == Token \cup Code \cup {"none", "password"}

TokenRow ==
    [status : {"none", "live", "revoked"}, from : Grants, epoch : Nat, raced : BOOLEAN]

CodeRow == [status : {"none", "live", "consumed"}, number : Nat]

RequestRow ==
    [op : {"none", "code", "activate", "login", "reuse", "inactive", "refresh",
           "invalidate", "admin"},
     place : {"idle", "request", "sms", "load", "issue", "lock", "read", "revoke", "commit"},
     held : SUBSET (Token \cup Code), seen : SUBSET Token, grant : Grants, epoch : Nat]

UserRow ==
    [status : {"none", "pending", "active", "suspended", "deleted"},
     lockedBy : Request \cup {"none"}, mode : {"none", "update", "no key"}]

SessionsTypeOK ==
    /\ user \in UserRow
    /\ tokens \in [Token -> TokenRow]
    /\ codes \in [Code -> CodeRow]
    /\ requests \in [Request -> RequestRow]
    /\ begun \in Nat
    /\ revocations \in Nat

\* What a request has locked and may rely on at each place: while it is about to
\* issue tokens, what it gives them for is unused and its own.
PlaceOK(q) ==
    /\ q.place \in {"idle", "request", "sms"} => q.held = {}
    /\ q.place = "sms" => q.grant \in Code /\ codes[q.grant].status # "none"
    /\ q.place \in {"load", "issue"} => q.op \in {"login", "activate", "refresh"}
    /\ q.place \in {"load", "issue"} /\ q.op = "login" => q.grant = "password"
    /\ q.place \in {"load", "issue"} /\ q.op = "activate" =>
          q.grant \in Code \cap q.held /\ codes[q.grant].status = "live"
    /\ q.place \in {"load", "issue"} /\ q.op = "refresh" =>
          q.grant \in Token \cap q.held /\ tokens[q.grant].status = "live"
    /\ q.place \in {"lock", "read", "revoke", "commit"} =>
          q.op \in {"invalidate", "reuse", "inactive", "admin"}
    /\ q.place \in {"revoke", "commit"} => \A t \in q.seen : tokens[t].status # "none"
    /\ q.place = "commit" => q.seen \subseteq q.held

\* An invalidation that has read the live tokens has seen every one that is not
\* marked as issued beside it.
SeenOK(q) ==
    q.op \in {"invalidate", "reuse", "admin"} /\ q.place \in {"revoke", "commit"} =>
        \A t \in Live : t \in q.seen \/ tokens[t].raced

RequestsOK == \A r \in Request : PlaceOK(requests[r]) /\ SeenOK(requests[r])

\* No row is locked twice.
HeldOnce ==
    \A r, other \in Request : r # other => requests[r].held \cap requests[other].held = {}

Issued == {c \in Code : codes[c] # NoCode}

\* The codes are numbered as they are issued.
CodesInOrder ==
    /\ IsFiniteSet(Issued)
    /\ \A c \in Code : codes[c].status = "none" <=> codes[c] = NoCode
    /\ \A c \in Code : codes[c].number <= Cardinality(Issued)
    /\ \A c \in Unconsumed : \A other \in Code \ {c} :
          codes[other].status # "live" /\ codes[other].number < codes[c].number

\* What a token was issued for is used up, and is the grant of no other token.
GrantsSpent ==
    /\ \A t \in Token : tokens[t].status = "none" <=> tokens[t] = NoToken
    /\ \A t \in Token : tokens[t] # NoToken => tokens[t].from # "none"
    /\ \A t \in Token : tokens[t].from \in Token => tokens[tokens[t].from].status = "revoked"
    /\ \A t \in Token : tokens[t].from \in Code => codes[tokens[t].from].status = "consumed"
    /\ \A t, other \in Token :
          t # other /\ tokens[t] # NoToken /\ tokens[t].from = tokens[other].from
              => tokens[t].from = "password"

SessionsInv ==
    SessionsTypeOK /\ RequestsOK /\ HeldOnce /\ CodesInOrder /\ GrantsSpent /\ SessionsEnd

-----------------------------------------------------------------------------
\* The initial states satisfy the invariant.
LEMMA SessionsInitInvariant == SessionsInit => SessionsInv
<1> SUFFICES ASSUME SessionsInit PROVE SessionsInv
    OBVIOUS
<1> USE DEF SessionsInit
<1>1. NoToken \in TokenRow /\ NoCode \in CodeRow /\ NoRequest \in RequestRow
    BY DEF NoToken, TokenRow, Grants, NoCode, CodeRow, NoRequest, RequestRow
<1>2. user \in UserRow
    BY DEF UserRow
<1>3. SessionsTypeOK
    BY <1>1, <1>2 DEF SessionsTypeOK
<1>4. Issued = {} /\ Unconsumed = {} /\ Live = {}
    BY DEF Issued, Unconsumed, Live, NoCode, NoToken
<1>5. CodesInOrder
    BY <1>4, FS_EmptySet DEF CodesInOrder, NoCode
<1>6. GrantsSpent
    BY SessionsAssumption DEF GrantsSpent, NoToken
<1>7. RequestsOK /\ HeldOnce
    BY DEF RequestsOK, HeldOnce, PlaceOK, SeenOK, NoRequest
<1>8. SessionsEnd
    BY <1>4 DEF SessionsEnd
<1>9. QED
    BY <1>3, <1>5, <1>6, <1>7, <1>8 DEF SessionsInv

\* A step of one request that leaves tokens and codes alone.
LEMMA OneRequestMoves ==
    ASSUME SessionsInv, NEW r \in Request, NEW q \in RequestRow,
           requests' = [requests EXCEPT ![r] = q],
           PlaceOK(q), SeenOK(q),
           \A other \in Request \ {r} : q.held \cap requests[other].held = {},
           user' \in UserRow, begun' \in Nat,
           tokens' = tokens, codes' = codes, revocations' = revocations
    PROVE  SessionsInv'
<1>1. requests \in [Request -> RequestRow]
    BY DEF SessionsInv, SessionsTypeOK
<1>2. \A x \in Request : requests'[x] = IF x = r THEN q ELSE requests[x]
    BY <1>1
<1>3. SessionsTypeOK'
    BY <1>1 DEF SessionsInv, SessionsTypeOK
<1>4. RequestsOK'
    <2> SUFFICES ASSUME NEW x \in Request PROVE (PlaceOK(requests[x]) /\ SeenOK(requests[x]))'
        BY DEF RequestsOK
    <2>1. PlaceOK(requests'[x]) /\ SeenOK(requests'[x])
        BY <1>2 DEF SessionsInv, RequestsOK
    <2>2. QED
        BY <2>1 DEF PlaceOK, SeenOK, Live
<1>5. HeldOnce'
    BY <1>2 DEF SessionsInv, HeldOnce
<1>6. CodesInOrder' /\ GrantsSpent' /\ SessionsEnd'
    BY DEF SessionsInv, CodesInOrder, GrantsSpent, SessionsEnd, Issued, Unconsumed, Live
<1>7. QED
    BY <1>3, <1>4, <1>5, <1>6 DEF SessionsInv

\* The request that begins, and the one that ends.
Begun(op, place, held, grant) ==
    [op |-> op, place |-> place, held |-> held, seen |-> {}, grant |-> grant, epoch |-> 0]

LEMMA BeginIs ==
    ASSUME SessionsInv, NEW r \in Request, NEW op, NEW place, NEW held, NEW grant,
           Begin(r, op, place, held, grant)
    PROVE  /\ requests' = [requests EXCEPT ![r] = Begun(op, place, held, grant)]
           /\ begun' \in Nat
<1>1. requests \in [Request -> RequestRow] /\ requests[r] = NoRequest /\ begun \in Nat
    BY DEF SessionsInv, SessionsTypeOK, Begin, Arrive
<1>2. QED
    BY <1>1 DEF Begin, Arrive, Begun

\* Locks of the user keep its row well typed.
LEMMA UserLocks ==
    ASSUME SessionsInv, NEW r \in Request
    PROVE  /\ user \in UserRow /\ Unlocked(r) \in UserRow
           /\ Locked(r, "update") \in UserRow /\ Locked(r, "no key") \in UserRow
BY DEF SessionsInv, SessionsTypeOK, UserRow, Unlocked, Locked

LEMMA NobodyWaits ==
    NoRequest \in RequestRow /\ PlaceOK(NoRequest) /\ SeenOK(NoRequest) /\ NoRequest.held = {}
BY DEF NoRequest, RequestRow, Grants, PlaceOK, SeenOK

\* A request that begins with a lock on nothing, or on one row that is free.
LEMMA BeginPreserves ==
    ASSUME SessionsInv, NEW r \in Request, NEW op, NEW place, NEW held, NEW grant,
           Begin(r, op, place, held, grant), Begun(op, place, held, grant) \in RequestRow,
           PlaceOK(Begun(op, place, held, grant)), place \notin {"revoke", "commit"},
           \A x \in held : RowFree(r, x),
           user' \in UserRow,
           tokens' = tokens, codes' = codes, revocations' = revocations
    PROVE  SessionsInv'
<1> DEFINE q == Begun(op, place, held, grant)
<1>1. SeenOK(q)
    BY DEF SeenOK, Begun
<1>2. \A other \in Request \ {r} : q.held \cap requests[other].held = {}
    BY DEF Begun, RowFree
<1>3. requests' = [requests EXCEPT ![r] = q] /\ begun' \in Nat
    BY BeginIs
<1> HIDE DEF q
<1>4. PlaceOK(q) /\ q \in RequestRow
    BY DEF q
<1>5. QED
    BY <1>1, <1>2, <1>3, <1>4, OneRequestMoves

-----------------------------------------------------------------------------
\* Every request begins in a place it may be in.
LEMMA BeginningsPreserve ==
    ASSUME SessionsInv, NEW r \in Request,
           \/ Register(r) \/ SendOtp(r) \/ \E c \in Code : VerifyOtp(r, c)
           \/ Login(r) \/ \E t \in Token : Refresh(r, t)
           \/ LogoutAll(r) \/ ChangePassword(r) \/ RevokeUserSessions(r)
    PROVE  SessionsInv'
<1> USE DEF Grants
<1>0. user \in UserRow /\ Locked(r, "update") \in UserRow
    BY UserLocks
<1>1. ASSUME Register(r) \/ SendOtp(r) PROVE SessionsInv'
    <2>1. Begun("code", "request", {}, "none") \in RequestRow
          /\ PlaceOK(Begun("code", "request", {}, "none"))
        BY DEF Begun, RequestRow, PlaceOK
    <2>2. user' \in UserRow
        BY <1>0, <1>1 DEF Register, SendOtp, UserRow
    <2>3. QED
        BY <1>1, <2>1, <2>2, BeginPreserves DEF Register, SendOtp
<1>2. ASSUME NEW c \in Code, VerifyOtp(r, c) PROVE SessionsInv'
    <2>1. Begun("activate", "load", {c}, c) \in RequestRow
          /\ PlaceOK(Begun("activate", "load", {c}, c))
        BY <1>2 DEF Begun, RequestRow, PlaceOK, VerifyOtp, Consumable
    <2>2. RowFree(r, c)
        BY <1>2 DEF VerifyOtp, Consumable
    <2>3. QED
        BY <1>0, <1>2, <2>1, <2>2, BeginPreserves DEF VerifyOtp
<1>3. ASSUME Login(r) PROVE SessionsInv'
    <2>1. Begun("login", "load", {}, "password") \in RequestRow
          /\ PlaceOK(Begun("login", "load", {}, "password"))
        BY DEF Begun, RequestRow, PlaceOK
    <2>2. QED
        BY <1>0, <1>3, <2>1, BeginPreserves DEF Login
<1>4. ASSUME NEW t \in Token, Refresh(r, t) PROVE SessionsInv'
    <2>1. PICK op, place : /\ Begin(r, op, place, {t}, t)
                           /\ <<op, place>> \in {<<"reuse", "lock">>, <<"inactive", "read">>,
                                                 <<"refresh", "load">>}
                           /\ op = "refresh" => ~Spent(t)
        BY <1>4 DEF Refresh
    <2>2. tokens[t] # NoToken /\ tokens[t].status \in {"none", "live", "revoked"}
        BY <1>4 DEF Refresh, SessionsInv, SessionsTypeOK, TokenRow
    <2>3. ~Spent(t) => tokens[t].status = "live"
        BY <2>2 DEF Spent, SessionsInv, GrantsSpent
    <2>4. Begun(op, place, {t}, t) \in RequestRow
        BY <2>1 DEF Begun, RequestRow
    <2>5. PlaceOK(Begun(op, place, {t}, t))
        BY <2>1, <2>3 DEF Begun, PlaceOK
    <2>6. place \notin {"revoke", "commit"} /\ RowFree(r, t)
        BY <1>4, <2>1 DEF Refresh
    <2>7. QED
        BY <1>0, <1>4, <2>1, <2>4, <2>5, <2>6, BeginPreserves DEF Refresh
<1>5. ASSUME LogoutAll(r) PROVE SessionsInv'
    <2>1. Begun("invalidate", "lock", {}, "none") \in RequestRow
          /\ PlaceOK(Begun("invalidate", "lock", {}, "none"))
        BY DEF Begun, RequestRow, PlaceOK
    <2>2. QED
        BY <1>0, <1>5, <2>1, BeginPreserves DEF LogoutAll
<1>6. ASSUME ChangePassword(r) PROVE SessionsInv'
    <2>1. Begun("invalidate", "read", {}, "none") \in RequestRow
          /\ PlaceOK(Begun("invalidate", "read", {}, "none"))
        BY DEF Begun, RequestRow, PlaceOK
    <2>2. QED
        BY <1>0, <1>6, <2>1, BeginPreserves DEF ChangePassword
<1>7. ASSUME RevokeUserSessions(r) PROVE SessionsInv'
    <2>1. Begun("admin", "read", {}, "none") \in RequestRow
          /\ PlaceOK(Begun("admin", "read", {}, "none"))
        BY DEF Begun, RequestRow, PlaceOK
    <2>2. QED
        BY <1>0, <1>7, <2>1, BeginPreserves DEF RevokeUserSessions
<1>8. QED
    BY <1>1, <1>2, <1>3, <1>4, <1>5, <1>6, <1>7

-----------------------------------------------------------------------------
\* The steps of a request that change no token and no code.
LEMMA MovesPreserve ==
    ASSUME SessionsInv, NEW r \in Request,
           \/ SmsSent(r) \/ LoadAccessPayload(r) \/ LockUser(r) \/ ReadLive(r)
           \/ RevokeAllRefreshTokens(r) \/ Rollback(r) \/ ModerateUser(r)
    PROVE  SessionsInv'
<1>1. /\ requests \in [Request -> RequestRow] /\ requests[r] \in RequestRow
      /\ begun \in Nat /\ revocations \in Nat /\ user \in UserRow
      /\ tokens \in [Token -> TokenRow]
    BY DEF SessionsInv, SessionsTypeOK
<1>2. PlaceOK(requests[r]) /\ SeenOK(requests[r])
    BY DEF SessionsInv, RequestsOK
<1>3. \A other \in Request \ {r} : requests[r].held \cap requests[other].held = {}
    BY DEF SessionsInv, HeldOnce
<1>4. /\ Unlocked(r) \in UserRow /\ Locked(r, "no key") \in UserRow
    BY UserLocks
<1>5. ASSUME SmsSent(r) \/ Rollback(r) PROVE SessionsInv'
    <2>1. /\ requests' = [requests EXCEPT ![r] = NoRequest]
          /\ UNCHANGED <<tokens, codes, begun, revocations>>
          /\ user' \in UserRow
        BY <1>1, <1>4, <1>5 DEF SmsSent, Rollback, Done
    <2>2. QED
        BY <1>1, <2>1, NobodyWaits, OneRequestMoves
<1>6. ASSUME LoadAccessPayload(r) PROVE SessionsInv'
    <2> DEFINE q == [requests[r] EXCEPT !.place = "issue", !.epoch = revocations]
    <2>1. q \in RequestRow /\ q.held = requests[r].held
        BY <1>1 DEF RequestRow
    <2>2. requests' = [requests EXCEPT ![r] = q]
        BY <1>1, <1>6 DEF LoadAccessPayload
    <2>3. PlaceOK(q) /\ SeenOK(q)
        BY <1>1, <1>2, <1>6 DEF PlaceOK, SeenOK, LoadAccessPayload, RequestRow
    <2> HIDE DEF q
    <2>4. UNCHANGED <<user, tokens, codes, begun, revocations>>
        BY <1>6 DEF LoadAccessPayload
    <2>5. QED
        BY <1>1, <1>3, <2>1, <2>2, <2>3, <2>4, OneRequestMoves
<1>7. ASSUME LockUser(r) PROVE SessionsInv'
    <2> DEFINE q == [requests[r] EXCEPT !.place = "read"]
    <2>1. q \in RequestRow /\ q.held = requests[r].held
        BY <1>1 DEF RequestRow
    <2>2. requests' = [requests EXCEPT ![r] = q]
        BY <1>7 DEF LockUser
    <2>3. PlaceOK(q) /\ SeenOK(q)
        BY <1>1, <1>2, <1>7 DEF PlaceOK, SeenOK, LockUser, RequestRow
    <2> HIDE DEF q
    <2>4. user' = Locked(r, "no key") /\ UNCHANGED <<tokens, codes, begun, revocations>>
        BY <1>7 DEF LockUser
    <2>5. QED
        BY <1>1, <1>3, <1>4, <2>1, <2>2, <2>3, <2>4, OneRequestMoves
<1>8. ASSUME ReadLive(r) PROVE SessionsInv'
    <2> DEFINE q == [requests[r] EXCEPT !.place = "revoke", !.seen = Live]
    <2>1. q \in RequestRow /\ q.held = requests[r].held
        BY <1>1 DEF RequestRow, Live
    <2>2. requests' = [requests EXCEPT ![r] = q]
        BY <1>1, <1>8 DEF ReadLive, Seen
    <2>3. /\ q.place = "revoke" /\ q.seen = Live /\ q.op = requests[r].op
          /\ requests[r].place = "read"
        BY <1>1, <1>8 DEF ReadLive, RequestRow
    <2> HIDE DEF q
    <2>4. PlaceOK(q) /\ SeenOK(q)
        BY <1>2, <2>3 DEF PlaceOK, SeenOK, Live
    <2>5. UNCHANGED <<user, tokens, codes, begun, revocations>>
        BY <1>8 DEF ReadLive
    <2>6. QED
        BY <1>1, <1>3, <2>1, <2>2, <2>4, <2>5, OneRequestMoves
<1>9. ASSUME RevokeAllRefreshTokens(r) PROVE SessionsInv'
    <2> DEFINE q == [requests[r] EXCEPT !.place = "commit", !.held = @ \cup requests[r].seen]
    <2>1. q \in RequestRow /\ q.held = requests[r].held \cup requests[r].seen
        BY <1>1 DEF RequestRow
    <2>2. requests' = [requests EXCEPT ![r] = q]
        BY <1>1, <1>9 DEF RevokeAllRefreshTokens
    <2>3. PlaceOK(q) /\ SeenOK(q)
        BY <1>1, <1>2, <1>9, <2>1 DEF PlaceOK, SeenOK, RevokeAllRefreshTokens, RequestRow
    <2>4. \A other \in Request \ {r} : q.held \cap requests[other].held = {}
        BY <1>3, <1>9, <2>1 DEF RevokeAllRefreshTokens, RowFree
    <2> HIDE DEF q
    <2>5. UNCHANGED <<user, tokens, codes, begun, revocations>>
        BY <1>9 DEF RevokeAllRefreshTokens
    <2>6. QED
        BY <1>1, <2>1, <2>2, <2>3, <2>4, <2>5, OneRequestMoves
<1>10. ASSUME ModerateUser(r) PROVE SessionsInv'
    <2>1. requests' = [requests EXCEPT ![r] = requests[r]] /\ begun' \in Nat
        BY <1>1, <1>10 DEF ModerateUser, Arrive
    <2>2. user' \in UserRow
        <3>1. PICK status \in {"suspended", "active", "deleted"} :
                 user' = [user EXCEPT !.status = status]
            BY <1>10 DEF ModerateUser
        <3>2. QED
            BY <1>1, <3>1 DEF UserRow
    <2>3. UNCHANGED <<tokens, codes, revocations>>
        BY <1>10 DEF ModerateUser
    <2>4. QED
        BY <1>1, <1>2, <1>3, <2>1, <2>2, <2>3, OneRequestMoves
<1>11. QED
    BY <1>5, <1>6, <1>7, <1>8, <1>9, <1>10

-----------------------------------------------------------------------------
\* A step that may change tokens and codes, and ends a request or begins a step.
\* Codes that are consumed and tokens that are revoked stay in order.
Consumed(C) ==
    [c \in Code |-> IF c \in C THEN [codes[c] EXCEPT !.status = "consumed"] ELSE codes[c]]
Revoked(T) ==
    [t \in Token |-> IF t \in T THEN [tokens[t] EXCEPT !.status = "revoked"] ELSE tokens[t]]

LEMMA CodesConsumed ==
    ASSUME CodesInOrder, codes \in [Code -> CodeRow], NEW C \in SUBSET Code,
           \A c \in C : codes[c] # NoCode,
           codes' = Consumed(C)
    PROVE  /\ CodesInOrder' /\ codes' \in [Code -> CodeRow]
           /\ \A c \in Code : codes[c].status = "consumed" => codes'[c].status = "consumed"
           /\ \A c \in Code : codes[c].status # "none" => codes'[c].status # "none"
<1>1. \A c \in Code : /\ codes'[c].number = codes[c].number
                      /\ codes'[c].status = IF c \in C THEN "consumed" ELSE codes[c].status
                      /\ codes'[c] \in CodeRow
                      /\ c \notin C => codes'[c] = codes[c]
    BY DEF CodeRow, Consumed
<1>2. codes' \in [Code -> CodeRow]
    BY <1>1 DEF Consumed
<1>3. \A c \in Code : codes'[c] = NoCode <=> codes[c] = NoCode
    BY <1>1 DEF NoCode
<1>4. Issued' = Issued
    BY <1>3 DEF Issued
<1>5. Unconsumed' \subseteq Unconsumed
    BY <1>1 DEF Unconsumed
<1>6. \A c \in Code : codes'[c].status = "none" <=> codes'[c] = NoCode
    BY <1>1, <1>3 DEF CodesInOrder, NoCode
<1>7. \A c \in Code : codes'[c].number <= Cardinality(Issued')
    BY <1>1, <1>4 DEF CodesInOrder
<1>8. \A c \in Unconsumed' : \A other \in Code \ {c} :
          codes'[other].status # "live" /\ codes'[other].number < codes'[c].number
    BY <1>1, <1>5 DEF CodesInOrder, Unconsumed
<1>9. CodesInOrder'
    BY <1>4, <1>6, <1>7, <1>8 DEF CodesInOrder
<1>10. QED
    BY <1>1, <1>2, <1>9

\* Tokens keep what they were issued for when some are revoked.
LEMMA TokensRevoked ==
    ASSUME GrantsSpent, tokens \in [Token -> TokenRow], NEW T \in SUBSET Token,
           \A t \in T : tokens[t] # NoToken,
           tokens' = Revoked(T),
           \A c \in Code : codes[c].status = "consumed" => codes'[c].status = "consumed"
    PROVE  /\ GrantsSpent' /\ tokens' \in [Token -> TokenRow]
           /\ Live' = Live \ T
           /\ \A t \in Token : tokens[t].status # "none" => tokens'[t].status # "none"
           /\ \A t \in Token : /\ tokens'[t].raced = tokens[t].raced
                               /\ tokens'[t].epoch = tokens[t].epoch
<1>1. \A t \in Token : /\ tokens'[t].raced = tokens[t].raced
                       /\ tokens'[t].epoch = tokens[t].epoch
                       /\ tokens'[t].from = tokens[t].from
                       /\ tokens'[t].status = IF t \in T THEN "revoked" ELSE tokens[t].status
                       /\ tokens'[t] \in TokenRow
                       /\ t \notin T => tokens'[t] = tokens[t]
    BY DEF TokenRow, Revoked
<1>2. tokens' \in [Token -> TokenRow]
    BY <1>1 DEF Revoked
<1>3. Live' = Live \ T
    BY <1>1 DEF Live
<1>4. \A t \in Token : tokens'[t] = NoToken <=> tokens[t] = NoToken
    <2> SUFFICES ASSUME NEW t \in Token PROVE tokens'[t] = NoToken <=> tokens[t] = NoToken
        OBVIOUS
    <2>1. CASE t \in T
        <3>1. tokens'[t].status = "revoked" /\ tokens[t] # NoToken
            BY <1>1, <2>1
        <3>2. QED
            BY <3>1 DEF NoToken
    <2>2. CASE t \notin T
        BY <1>1, <2>2
    <2>3. QED
        BY <2>1, <2>2
<1>5. GrantsSpent'
    <2>1. \A t \in Token : tokens'[t].status = "none" <=> tokens'[t] = NoToken
        BY <1>1, <1>4 DEF GrantsSpent, NoToken
    <2>2. \A t \in Token : tokens'[t] # NoToken => tokens'[t].from # "none"
        BY <1>1, <1>4 DEF GrantsSpent
    <2>3. \A t \in Token : tokens'[t].from \in Token => tokens'[tokens'[t].from].status = "revoked"
        BY <1>1 DEF GrantsSpent
    <2>4. \A t \in Token : tokens'[t].from \in Code => codes'[tokens'[t].from].status = "consumed"
        BY <1>1 DEF GrantsSpent
    <2>5. \A t, other \in Token :
              t # other /\ tokens'[t] # NoToken /\ tokens'[t].from = tokens'[other].from
                  => tokens'[t].from = "password"
        BY <1>1, <1>4 DEF GrantsSpent
    <2>6. QED
        BY <2>1, <2>2, <2>3, <2>4, <2>5 DEF GrantsSpent
<1>6. QED
    BY <1>1, <1>2, <1>3, <1>5

\* The requests stay in order when one ends, or goes on without a lock, and what
\* the others have locked stays as it is.
LEMMA OthersGoOn ==
    ASSUME SessionsInv, NEW r \in Request, NEW q \in RequestRow,
           requests' = [requests EXCEPT ![r] = q],
           q.held = {}, q.place \in {"idle", "sms"},
           q.place = "sms" => q.grant \in Code /\ codes'[q.grant].status # "none",
           \A c \in Code : codes[c].status # "none" => codes'[c].status # "none",
           \A t \in Token : tokens[t].status # "none" => tokens'[t].status # "none",
           \A other \in Request \ {r} : \A t \in Token \cap requests[other].held :
               tokens[t].status = "live" => tokens'[t].status = "live",
           \A other \in Request \ {r} : \A c \in Code \cap requests[other].held :
               codes[c].status = "live" => codes'[c].status = "live",
           \A other \in Request \ {r} : Invalidating(other) =>
               \A t \in Live' : \/ t \in Live /\ tokens'[t].raced = tokens[t].raced
                                \/ tokens'[t].raced
    PROVE  requests' \in [Request -> RequestRow] /\ RequestsOK' /\ HeldOnce'
<1>1. requests \in [Request -> RequestRow]
    BY DEF SessionsInv, SessionsTypeOK
<1>2. /\ requests'[r] = q
      /\ \A x \in Request \ {r} : requests'[x] = requests[x]
    BY <1>1
<1>3. HeldOnce'
    BY <1>2 DEF SessionsInv, HeldOnce
<1>4. RequestsOK'
    <2> SUFFICES ASSUME NEW x \in Request PROVE (PlaceOK(requests[x]) /\ SeenOK(requests[x]))'
        BY DEF RequestsOK
    <2>1. CASE x = r
        BY <1>2, <2>1 DEF PlaceOK, SeenOK
    <2>2. CASE x # r
        <3>1. requests'[x] = requests[x] /\ PlaceOK(requests[x]) /\ SeenOK(requests[x])
            BY <1>2, <2>2 DEF SessionsInv, RequestsOK
        <3>2. PlaceOK(requests[x])'
            <4>1. requests[x].seen \subseteq Token
                BY <1>1 DEF RequestRow
            <4>2. QED
                BY <2>2, <3>1, <4>1 DEF PlaceOK
        <3>3. SeenOK(requests[x])'
            BY <2>2, <3>1 DEF SeenOK, Invalidating
        <3>4. QED
            BY <3>2, <3>3
    <2>3. QED
        BY <2>1, <2>2
<1>5. QED
    BY <1>1, <1>3, <1>4

\* RevokeOne: a logout or an expiry revokes one token nobody has locked.
LEMMA RevokeOnePreserves ==
    ASSUME SessionsInv, NEW r \in Request, NEW t \in Token, RevokeOne(r, t)
    PROVE  SessionsInv'
<1>1. /\ requests \in [Request -> RequestRow] /\ requests[r] = NoRequest
      /\ tokens \in [Token -> TokenRow] /\ begun \in Nat
    BY DEF SessionsInv, SessionsTypeOK, RevokeOne, Arrive
<1> DEFINE T == {t}
<1>2. tokens' = Revoked(T)
    BY <1>1 DEF RevokeOne, Revoked
<1>3. tokens[t] # NoToken /\ UNCHANGED <<user, codes, requests, revocations>> /\ begun' \in Nat
    BY <1>1 DEF RevokeOne, Arrive, NoToken
<1>4. /\ GrantsSpent' /\ tokens' \in [Token -> TokenRow] /\ Live' = Live \ T
      /\ \A x \in Token : tokens[x].status # "none" => tokens'[x].status # "none"
      /\ \A x \in Token : tokens'[x].raced = tokens[x].raced /\ tokens'[x].epoch = tokens[x].epoch
    <2>1. GrantsSpent /\ T \in SUBSET Token /\ \A x \in T : tokens[x] # NoToken
        BY <1>3 DEF SessionsInv
    <2>2. \A c \in Code : codes[c].status = "consumed" => codes'[c].status = "consumed"
        BY <1>3
    <2> HIDE DEF T
    <2>3. QED
        BY <1>1, <1>2, <2>1, <2>2, TokensRevoked
<1>5. RequestsOK' /\ HeldOnce' /\ requests' \in [Request -> RequestRow]
    <2>1. requests' = [requests EXCEPT ![r] = NoRequest]
        BY <1>1, <1>3
    <2>2. \A other \in Request \ {r} : \A x \in Token \cap requests[other].held :
              tokens[x].status = "live" => tokens'[x].status = "live"
        BY DEF RevokeOne, RowFree
    <2>3. \A x \in Live' : x \in Live /\ tokens'[x].raced = tokens[x].raced
        BY <1>4 DEF Live
    <2>4. NoRequest.place = "idle"
        BY DEF NoRequest
    <2>5. QED
        BY <1>3, <1>4, <2>1, <2>2, <2>3, <2>4, NobodyWaits, OthersGoOn
<1>6. SessionsTypeOK'
    BY <1>3, <1>4, <1>5 DEF SessionsInv, SessionsTypeOK
<1>7. CodesInOrder'
    BY <1>3 DEF SessionsInv, CodesInOrder, Issued, Unconsumed
<1>8. SessionsEnd'
    BY <1>3, <1>4 DEF SessionsInv, SessionsEnd, Live
<1>9. QED
    BY <1>4, <1>5, <1>6, <1>7, <1>8 DEF SessionsInv

\* SmsFails: the code whose SMS did not leave is consumed.
LEMMA SmsFailsPreserves ==
    ASSUME SessionsInv, NEW r \in Request, SmsFails(r)
    PROVE  SessionsInv'
<1> DEFINE code == requests[r].grant
<1>1. /\ requests \in [Request -> RequestRow] /\ codes \in [Code -> CodeRow]
      /\ UNCHANGED <<user, tokens, begun, revocations>>
      /\ requests' = [requests EXCEPT ![r] = NoRequest]
    BY DEF SessionsInv, SessionsTypeOK, SmsFails, Done
<1>2. code \in Code /\ codes[code].status # "none" /\ RowFree(r, code)
    BY DEF SessionsInv, RequestsOK, PlaceOK, SmsFails
<1>3. codes' = [codes EXCEPT ![code].status = "consumed"]
    BY DEF SmsFails
<1> DEFINE C == {code}
<1>4. codes' = Consumed(C)
    BY <1>1, <1>3 DEF Consumed
<1>5. C \in SUBSET Code /\ CodesInOrder /\ \A c \in C : codes[c] # NoCode
    BY <1>2 DEF NoCode, SessionsInv
<1> HIDE DEF code
<1>6. /\ CodesInOrder' /\ codes' \in [Code -> CodeRow]
      /\ \A c \in Code : codes[c].status = "consumed" => codes'[c].status = "consumed"
      /\ \A c \in Code : codes[c].status # "none" => codes'[c].status # "none"
    <2> HIDE DEF C
    <2>1. QED
        BY <1>1, <1>4, <1>5, CodesConsumed
<1>7. RequestsOK' /\ HeldOnce' /\ requests' \in [Request -> RequestRow]
    <2>1. \A other \in Request \ {r} : \A c \in Code \cap requests[other].held :
              codes[c].status = "live" => codes'[c].status = "live"
        BY <1>2, <1>4 DEF RowFree, Consumed
    <2>2. \A x \in Live' : x \in Live /\ tokens'[x].raced = tokens[x].raced
        BY <1>1 DEF Live
    <2>3. NoRequest.place = "idle"
        BY DEF NoRequest
    <2>4. QED
        BY <1>1, <1>6, <2>1, <2>2, <2>3, NobodyWaits, OthersGoOn
<1>8. SessionsTypeOK'
    BY <1>1, <1>6, <1>7 DEF SessionsInv, SessionsTypeOK
<1>9. GrantsSpent' /\ SessionsEnd'
    BY <1>1, <1>6 DEF SessionsInv, GrantsSpent, SessionsEnd, Live
<1>10. QED
    BY <1>6, <1>7, <1>8, <1>9 DEF SessionsInv

\* RequestOtp: the codes so far are consumed, and the next one gets the next number.
LEMMA RequestOtpPreserves ==
    ASSUME SessionsInv, NEW r \in Request, RequestOtp(r)
    PROVE  SessionsInv'
<1> DEFINE old == [c \in Code |->
                IF c \in Unconsumed THEN [codes[c] EXCEPT !.status = "consumed"] ELSE codes[c]]
           number == Cardinality(Issued) + 1
<1>1. /\ requests \in [Request -> RequestRow] /\ requests[r] \in RequestRow
      /\ codes \in [Code -> CodeRow] /\ CodesInOrder
      /\ UNCHANGED <<user, tokens, begun, revocations>>
    BY DEF SessionsInv, SessionsTypeOK, RequestOtp
<1>2. PICK new \in Code \ Issued :
          /\ codes' = [old EXCEPT ![new] = [status |-> "live", number |-> number]]
          /\ requests' = [requests EXCEPT ![r].place = "sms", ![r].grant = new]
    BY DEF RequestOtp, Issued
<1>3. number \in Nat \ {0} /\ number > Cardinality(Issued)
    BY <1>1, FS_CardinalityType DEF CodesInOrder
<1>4. \A c \in Code : /\ old[c].number = codes[c].number /\ old[c] \in CodeRow
                      /\ old[c].status # "live"
                      /\ old[c].status = "none" <=> codes[c].status = "none"
                      /\ codes[c].status = "consumed" => old[c].status = "consumed"
                      /\ c \notin Unconsumed => old[c] = codes[c]
    BY <1>1 DEF CodeRow, Unconsumed
<1>5. /\ codes'[new] = [status |-> "live", number |-> number]
      /\ \A c \in Code \ {new} : codes'[c] = old[c]
    BY <1>2
<1> HIDE DEF old, number
<1>6. codes' \in [Code -> CodeRow]
    <2>1. [status |-> "live", number |-> number] \in CodeRow
        BY <1>3 DEF CodeRow
    <2>2. QED
        BY <1>2, <1>4, <2>1 DEF old
<1>7. codes[new].status = "none"
    BY <1>1, <1>2 DEF CodesInOrder, Issued
<1>8. \A c \in Code : codes'[c] # NoCode <=> codes[c] # NoCode \/ c = new
    BY <1>1, <1>4, <1>5 DEF CodesInOrder, NoCode, Unconsumed
<1>9. Issued' = Issued \cup {new}
    BY <1>8 DEF Issued
<1>10. IsFiniteSet(Issued') /\ Cardinality(Issued') = number
    BY <1>1, <1>2, <1>9, FS_AddElement DEF CodesInOrder, number
<1>11. Unconsumed' = {new}
    BY <1>4, <1>5 DEF Unconsumed
<1>12. \A c \in Code \ {new} : codes'[c].number < number /\ codes'[c].status # "live"
    BY <1>1, <1>3, <1>4, <1>5, FS_CardinalityType DEF CodesInOrder, CodeRow
<1>13. CodesInOrder'
    <2>1. \A c \in Code : codes'[c].status = "none" <=> codes'[c] = NoCode
        BY <1>1, <1>4, <1>5, <1>8 DEF CodesInOrder
    <2>2. \A c \in Code : codes'[c].number <= Cardinality(Issued')
        BY <1>3, <1>5, <1>6, <1>10, <1>12 DEF CodeRow
    <2>3. \A c \in Unconsumed' : \A other \in Code \ {c} :
              codes'[other].status # "live" /\ codes'[other].number < codes'[c].number
        BY <1>5, <1>11, <1>12
    <2>4. QED
        BY <1>10, <2>1, <2>2, <2>3 DEF CodesInOrder
<1>14. RequestsOK' /\ HeldOnce' /\ requests' \in [Request -> RequestRow]
    <2> DEFINE q == [requests[r] EXCEPT !.place = "sms", !.grant = new]
    <2>1. q \in RequestRow /\ q.place = "sms" /\ q.grant = new /\ q.held = requests[r].held
        BY <1>1 DEF RequestRow, Grants
    <2>2. requests' = [requests EXCEPT ![r] = q]
        BY <1>1, <1>2
    <2>3. requests[r].held = {}
        BY DEF SessionsInv, RequestsOK, PlaceOK, RequestOtp
    <2>4. \A other \in Request \ {r} : \A c \in Code \cap requests[other].held :
              codes[c].status = "live" => codes'[c].status = "live"
        BY DEF RequestOtp, RowFree, Unconsumed
    <2>5. \A x \in Live' : x \in Live /\ tokens'[x].raced = tokens[x].raced
        BY <1>1 DEF Live
    <2>6. \A c \in Code : codes[c].status # "none" => codes'[c].status # "none"
        BY <1>4, <1>5
    <2>7. codes'[new].status # "none"
        BY <1>5
    <2> HIDE DEF q
    <2>8. QED
        BY <1>1, <2>1, <2>2, <2>3, <2>4, <2>5, <2>6, <2>7, OthersGoOn
<1>15. SessionsTypeOK'
    BY <1>1, <1>6, <1>14 DEF SessionsInv, SessionsTypeOK
<1>16. GrantsSpent' /\ SessionsEnd'
    BY <1>1, <1>4, <1>5, <1>7 DEF SessionsInv, GrantsSpent, SessionsEnd, Live
<1>17. QED
    BY <1>13, <1>14, <1>15, <1>16 DEF SessionsInv

\* IssueToken: what it is given for is used up, and it has no other successor.
LEMMA IssueTokenPreserves ==
    ASSUME SessionsInv, NEW r \in Request, IssueToken(r)
    PROVE  SessionsInv'
<1> DEFINE g == requests[r].grant
           T == {g} \cap Token
           C == {g} \cap Code
<1>1. /\ requests \in [Request -> RequestRow] /\ requests[r] \in RequestRow
      /\ tokens \in [Token -> TokenRow] /\ codes \in [Code -> CodeRow]
      /\ CodesInOrder /\ GrantsSpent /\ SessionsEnd /\ HeldOnce
      /\ PlaceOK(requests[r]) /\ requests[r].place = "issue"
      /\ requests' = [requests EXCEPT ![r] = NoRequest]
      /\ UNCHANGED <<begun, revocations>>
    BY DEF SessionsInv, SessionsTypeOK, RequestsOK, IssueToken, Done
<1>2. PICK new \in Token :
          /\ tokens[new] = NoToken
          /\ tokens' = [t \in Token |->
                IF t = new THEN [status |-> "live", from |-> g,
                                 epoch |-> requests[r].epoch, raced |-> Raced(r)]
                ELSE IF t = g THEN [tokens[t] EXCEPT !.status = "revoked"] ELSE tokens[t]]
    BY DEF IssueToken
<1>3. codes' = Consumed(C)
    BY DEF IssueToken, Consumed
<1>4. \/ g = "password"
      \/ g \in Code \cap requests[r].held /\ codes[g].status = "live"
      \/ g \in Token \cap requests[r].held /\ tokens[g].status = "live"
    BY <1>1 DEF PlaceOK
<1>5. Raced(r) \in BOOLEAN /\ requests[r].epoch \in Nat /\ g \in Grants /\ g # "none"
    BY <1>1, <1>4, SessionsAssumption DEF Raced, RequestRow
<1>6. /\ CodesInOrder' /\ codes' \in [Code -> CodeRow]
      /\ \A c \in Code : codes[c].status = "consumed" => codes'[c].status = "consumed"
      /\ \A c \in Code : codes[c].status # "none" => codes'[c].status # "none"
    <2>1. C \in SUBSET Code /\ \A c \in C : codes[c] # NoCode
        BY <1>4, SessionsAssumption DEF NoCode
    <2> HIDE DEF C
    <2>2. QED
        BY <1>1, <1>3, <2>1, CodesConsumed
<1>7. g \in Token => g # new /\ tokens[g].status = "live"
    BY <1>2, <1>4, SessionsAssumption DEF NoToken
<1>8. g \in Code => codes[g].status = "live" /\ codes'[g].status = "consumed"
    BY <1>1, <1>3, <1>4, SessionsAssumption DEF Consumed
<1>9. \A t \in Token : tokens[t].from = g => g = "password"
    BY <1>1, <1>4, <1>7, <1>8 DEF GrantsSpent
<1>10. tokens'[new] = [status |-> "live", from |-> g,
                       epoch |-> requests[r].epoch, raced |-> Raced(r)]
    BY <1>2
<1> HIDE DEF g
<1>11. \A t \in Token \ {new} :
          /\ tokens'[t] = IF t = g THEN [tokens[t] EXCEPT !.status = "revoked"] ELSE tokens[t]
          /\ tokens'[t].from = tokens[t].from
          /\ tokens'[t].raced = tokens[t].raced
          /\ tokens'[t].epoch = tokens[t].epoch
          /\ tokens'[t].status = IF t = g THEN "revoked" ELSE tokens[t].status
          /\ tokens'[t] \in TokenRow
    <2>1. \A t \in Token \ {new} :
              tokens'[t] = IF t = g THEN [tokens[t] EXCEPT !.status = "revoked"] ELSE tokens[t]
        BY <1>2
    <2>2. QED
        BY <1>1, <2>1 DEF TokenRow
<1>12. tokens'[new].status = "live" /\ tokens'[new].from = g /\ tokens'[new] # NoToken
       /\ tokens'[new].epoch = requests[r].epoch /\ tokens'[new].raced = Raced(r)
       /\ tokens'[new] \in TokenRow
    BY <1>5, <1>10 DEF NoToken, TokenRow
<1>13. tokens' \in [Token -> TokenRow]
    BY <1>2, <1>11, <1>12
<1>14. \A t \in Token \ {new} : tokens'[t] = NoToken <=> tokens[t] = NoToken
    <2> SUFFICES ASSUME NEW t \in Token \ {new} PROVE tokens'[t] = NoToken <=> tokens[t] = NoToken
        OBVIOUS
    <2>1. CASE t = g
        <3>1. tokens'[t].status = "revoked" /\ tokens[t].status = "live"
            BY <1>7, <1>11, <2>1
        <3>2. QED
            BY <3>1 DEF NoToken
    <2>2. CASE t # g
        BY <1>11, <2>2
    <2>3. QED
        BY <2>1, <2>2
<1>15. GrantsSpent'
    <2>1. tokens[new].status = "none" /\ tokens[new].from = "none"
        BY <1>2 DEF NoToken
    <2>2. \A t \in Token \ {new} :
              /\ tokens'[t].from = tokens[t].from
              /\ tokens'[t].status = IF t = g THEN "revoked" ELSE tokens[t].status
              /\ tokens'[t] = NoToken <=> tokens[t] = NoToken
        BY <1>11, <1>14
    <2>3. tokens'[new].status = "live" /\ tokens'[new].from = g /\ tokens'[new] # NoToken
        BY <1>12
    <2>4. /\ \A t \in Token : tokens[t].status = "none" <=> tokens[t] = NoToken
          /\ \A t \in Token : tokens[t] # NoToken => tokens[t].from # "none"
          /\ \A t \in Token : tokens[t].from \in Token => tokens[tokens[t].from].status = "revoked"
          /\ \A t \in Token : tokens[t].from \in Code => codes[tokens[t].from].status = "consumed"
        BY <1>1 DEF GrantsSpent
    <2>5. \A t, other \in Token :
              t # other /\ tokens[t] # NoToken /\ tokens[t].from = tokens[other].from
                  => tokens[t].from = "password"
        BY <1>1 DEF GrantsSpent
    <2>6. \A t \in Token : tokens'[t].status = "none" <=> tokens'[t] = NoToken
        <3> SUFFICES ASSUME NEW t \in Token
                     PROVE  tokens'[t].status = "none" <=> tokens'[t] = NoToken
            OBVIOUS
        <3>1. CASE t = new
            BY <2>3, <3>1
        <3>2. CASE t # new
            BY <1>7, <2>2, <2>4, <3>2
        <3>3. QED
            BY <3>1, <3>2
    <2>7. \A t \in Token : tokens'[t] # NoToken => tokens'[t].from # "none"
        BY <1>5, <2>2, <2>3, <2>4
    <2>8. \A t \in Token : tokens'[t].from \in Token => tokens'[tokens'[t].from].status = "revoked"
        <3> SUFFICES ASSUME NEW t \in Token, tokens'[t].from \in Token
                     PROVE  tokens'[tokens'[t].from].status = "revoked"
            OBVIOUS
        <3>1. CASE t = new
            BY <1>7, <2>2, <2>3, <3>1
        <3>2. CASE t # new
            <4>1. tokens'[t].from = tokens[t].from /\ tokens[tokens[t].from].status = "revoked"
                BY <2>2, <2>4, <3>2
            <4>2. tokens[t].from # new
                BY <2>1, <4>1
            <4>3. QED
                BY <2>2, <4>1, <4>2
        <3>3. QED
            BY <3>1, <3>2
    <2>9. \A t \in Token : tokens'[t].from \in Code => codes'[tokens'[t].from].status = "consumed"
        BY <1>6, <1>8, <2>2, <2>3, <2>4
    <2>10. \A t, other \in Token :
              t # other /\ tokens'[t] # NoToken /\ tokens'[t].from = tokens'[other].from
                  => tokens'[t].from = "password"
        <3> SUFFICES ASSUME NEW t \in Token, NEW other \in Token, t # other,
                            tokens'[t] # NoToken, tokens'[t].from = tokens'[other].from
                     PROVE  tokens'[t].from = "password"
            OBVIOUS
        <3>1. CASE t = new
            BY <1>9, <2>2, <2>3, <3>1
        <3>2. CASE other = new
            BY <1>9, <2>2, <2>3, <3>2
        <3>3. CASE t # new /\ other # new
            BY <2>2, <2>5, <3>3
        <3>4. QED
            BY <3>1, <3>2, <3>3
    <2>11. QED
        BY <2>6, <2>7, <2>8, <2>9, <2>10 DEF GrantsSpent
<1>16. \A t \in Live' : \/ t = new
                        \/ t \in Live /\ tokens'[t].raced = tokens[t].raced
                                      /\ tokens'[t].epoch = tokens[t].epoch
    BY <1>11 DEF Live
<1>17. RequestsOK' /\ HeldOnce' /\ requests' \in [Request -> RequestRow]
    <2>1. \A other \in Request \ {r} : g \notin (Token \cup Code) \cap requests[other].held
        BY <1>1, <1>4, SessionsAssumption DEF HeldOnce
    <2>2. \A other \in Request \ {r} : \A t \in Token \cap requests[other].held :
              tokens[t].status = "live" => tokens'[t].status = "live"
        BY <1>11, <1>12, <2>1
    <2>3. \A other \in Request \ {r} : \A c \in Code \cap requests[other].held :
              codes[c].status = "live" => codes'[c].status = "live"
        BY <1>3, <2>1 DEF Consumed
    <2>4. \A other \in Request \ {r} : Invalidating(other) => tokens'[new].raced
        BY <1>12 DEF Raced
    <2>5. \A t \in Token : tokens[t].status # "none" => tokens'[t].status # "none"
        BY <1>11, <1>12
    <2>6. NoRequest.place = "idle"
        BY DEF NoRequest
    <2>7. QED
        BY <1>1, <1>6, <1>16, <2>2, <2>3, <2>4, <2>5, <2>6, NobodyWaits, OthersGoOn
<1>18. user' \in UserRow
    <2>1. user' = Unlocked(r) \/ user' = [Unlocked(r) EXCEPT !.status = "active"]
        BY DEF IssueToken
    <2>2. QED
        BY <2>1, UserLocks DEF UserRow
<1>19. SessionsTypeOK'
    BY <1>1, <1>6, <1>13, <1>17, <1>18 DEF SessionsInv, SessionsTypeOK
<1>20. SessionsEnd'
    <2> SUFFICES ASSUME NEW t \in Live', tokens'[t].epoch # revocations'
                 PROVE  tokens'[t].raced
        BY DEF SessionsEnd
    <2>1. CASE t = new
        BY <1>1, <1>12, <2>1 DEF Raced
    <2>2. CASE t # new
        BY <1>1, <1>16, <2>2 DEF SessionsEnd
    <2>3. QED
        BY <2>1, <2>2
<1>21. QED
    BY <1>6, <1>15, <1>17, <1>19, <1>20 DEF SessionsInv

\* CommitRevocation: of the tokens issued before it only those issued beside it are left.
LEMMA CommitRevocationPreserves ==
    ASSUME SessionsInv, NEW r \in Request, CommitRevocation(r)
    PROVE  SessionsInv'
<1> DEFINE T == requests[r].seen
<1>1. /\ requests \in [Request -> RequestRow] /\ requests[r] \in RequestRow
      /\ tokens \in [Token -> TokenRow] /\ revocations \in Nat
      /\ GrantsSpent /\ SessionsEnd /\ HeldOnce
      /\ PlaceOK(requests[r]) /\ SeenOK(requests[r]) /\ requests[r].place = "commit"
      /\ requests' = [requests EXCEPT ![r] = NoRequest]
      /\ UNCHANGED <<codes, begun>>
    BY DEF SessionsInv, SessionsTypeOK, RequestsOK, CommitRevocation, Done
<1>2. tokens' = Revoked(T)
    BY DEF CommitRevocation, Revoked
<1>3. /\ T \in SUBSET Token /\ \A t \in T : tokens[t] # NoToken
      /\ T \subseteq requests[r].held
    BY <1>1 DEF PlaceOK, NoToken, RequestRow
<1>4. requests[r].op \in {"invalidate", "reuse", "inactive", "admin"}
    BY <1>1 DEF PlaceOK
<1>5. requests[r].op # "inactive" => \A t \in Live : t \in T \/ tokens[t].raced
    BY <1>1, <1>4 DEF SeenOK
<1>6. revocations' = IF requests[r].op = "inactive" THEN revocations ELSE revocations + 1
    BY DEF CommitRevocation
<1> HIDE DEF T
<1>7. /\ GrantsSpent' /\ tokens' \in [Token -> TokenRow] /\ Live' = Live \ T
      /\ \A t \in Token : tokens[t].status # "none" => tokens'[t].status # "none"
      /\ \A t \in Token : tokens'[t].raced = tokens[t].raced /\ tokens'[t].epoch = tokens[t].epoch
    <2>1. \A c \in Code : codes[c].status = "consumed" => codes'[c].status = "consumed"
        BY <1>1
    <2>2. QED
        BY <1>1, <1>2, <1>3, <2>1, TokensRevoked
<1>8. RequestsOK' /\ HeldOnce' /\ requests' \in [Request -> RequestRow]
    <2>1. \A other \in Request \ {r} : \A t \in Token \cap requests[other].held :
              tokens[t].status = "live" => tokens'[t].status = "live"
        BY <1>1, <1>2, <1>3 DEF HeldOnce, Revoked
    <2>2. \A t \in Live' : t \in Live /\ tokens'[t].raced = tokens[t].raced
        BY <1>7 DEF Live
    <2>3. NoRequest.place = "idle"
        BY DEF NoRequest
    <2>4. QED
        BY <1>1, <1>7, <2>1, <2>2, <2>3, NobodyWaits, OthersGoOn
<1>9. SessionsEnd'
    <2> SUFFICES ASSUME NEW t \in Live', tokens'[t].epoch # revocations'
                 PROVE  tokens'[t].raced
        BY DEF SessionsEnd
    <2>1. /\ t \in Live \ T /\ t \in Token
          /\ tokens'[t].raced = tokens[t].raced /\ tokens'[t].epoch = tokens[t].epoch
        BY <1>7 DEF Live
    <2>2. CASE requests[r].op = "inactive"
        BY <1>1, <1>6, <2>1, <2>2 DEF SessionsEnd
    <2>3. CASE requests[r].op # "inactive"
        BY <1>5, <2>1, <2>3
    <2>4. QED
        BY <2>2, <2>3
<1>10. user' \in UserRow /\ revocations' \in Nat
    <2>1. user' = Unlocked(r)
        BY DEF CommitRevocation
    <2>2. revocations' \in Nat
        BY <1>1, <1>6
    <2>3. QED
        BY <2>1, <2>2, UserLocks
<1>11. SessionsTypeOK'
    BY <1>1, <1>7, <1>8, <1>10 DEF SessionsInv, SessionsTypeOK
<1>12. CodesInOrder'
    BY <1>1 DEF SessionsInv, CodesInOrder, Issued, Unconsumed
<1>13. QED
    BY <1>7, <1>8, <1>9, <1>11, <1>12 DEF SessionsInv

-----------------------------------------------------------------------------
\* Every step preserves the invariant.
LEMMA SessionsStepInvariant == SessionsInv /\ [SessionsNext]_sessionVars => SessionsInv'
<1> SUFFICES ASSUME SessionsInv, [SessionsNext]_sessionVars PROVE SessionsInv'
    OBVIOUS
<1>1. ASSUME NEW r \in Request, RequestStep(r) PROVE SessionsInv'
    BY <1>1, RequestOtpPreserves, SmsFailsPreserves, MovesPreserve, IssueTokenPreserves,
       CommitRevocationPreserves DEF RequestStep
<1>2. ASSUME NEW r \in Request, NEW t \in Token, RevokeOne(r, t) PROVE SessionsInv'
    BY <1>2, RevokeOnePreserves
<1>3. ASSUME NEW r \in Request, ModerateUser(r) PROVE SessionsInv'
    BY <1>3, MovesPreserve
<1>4. ASSUME NEW r \in Request,
             \/ Register(r) \/ SendOtp(r) \/ \E c \in Code : VerifyOtp(r, c)
             \/ Login(r) \/ \E t \in Token : Refresh(r, t)
             \/ LogoutAll(r) \/ ChangePassword(r) \/ RevokeUserSessions(r)
      PROVE  SessionsInv'
    BY <1>4, BeginningsPreserve
<1>5. CASE UNCHANGED sessionVars
    <2>1. UNCHANGED <<user, tokens, codes, requests, begun, revocations>>
        BY <1>5 DEF sessionVars
    <2>2. SessionsTypeOK' /\ HeldOnce'
        BY <2>1 DEF SessionsInv, SessionsTypeOK, HeldOnce
    <2>3. RequestsOK'
        BY <2>1 DEF SessionsInv, RequestsOK, PlaceOK, SeenOK, Live
    <2>4. CodesInOrder' /\ GrantsSpent' /\ SessionsEnd'
        BY <2>1 DEF SessionsInv, CodesInOrder, GrantsSpent, SessionsEnd, Issued, Unconsumed, Live
    <2>5. QED
        BY <2>2, <2>3, <2>4 DEF SessionsInv
<1>6. QED
    BY <1>1, <1>2, <1>3, <1>4, <1>5 DEF SessionsNext

\* The inductive invariant holds in every behaviour.
THEOREM SessionsInvariance == SessionsSpec => []SessionsInv
    BY SessionsInitInvariant, SessionsStepInvariant, PTL DEF SessionsSpec

\* A revocation of all sessions ends every refresh token that was not issued
\* while it was under way.
THEOREM RevocationEndsSessions == SessionsSpec => []SessionsEnd
<1>1. SessionsInv => SessionsEnd
    BY DEF SessionsInv
<1>2. QED
    BY <1>1, SessionsInvariance, PTL

\* No refresh token has two successors, no code begins two sessions, and only the
\* code asked for last can be used.
THEOREM GrantsAreSpent == SessionsSpec => []GrantsAreUsedOnce
<1>1. SessionsInv => GrantsAreUsedOnce
    BY DEF SessionsInv, GrantsSpent, CodesInOrder, GrantsAreUsedOnce
<1>2. QED
    BY <1>1, SessionsInvariance, PTL
=============================================================================
