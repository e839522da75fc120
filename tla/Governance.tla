----------------------------- MODULE Governance -----------------------------
(***************************************************************************)
(* How a Chama governs itself: polls with a frozen electorate, the outcome *)
(* of a removal poll, and the Constitution, which is configured before     *)
(* anybody accepted it and amended by polls afterwards.  Composed with     *)
(* Membership, whose members vote, are removed and accept versions.        *)
(***************************************************************************)
EXTENDS Membership

CONSTANTS
    PollId,
    QuorumPct, MajorityPct,  \* the thresholds of the rule, copied by each poll
    MaxText                  \* bound on reconfigurations of version 1

ASSUME GovernanceAssumption ==
    /\ QuorumPct \in 0..100 /\ MajorityPct \in 0..100
    /\ MaxText \in Nat
    /\ "none" \notin PollId \cup InvitationId \cup User /\ "platform" \notin InvitationId

VARIABLE polls    \* polls with poll_eligible_voters and poll_votes

governanceVars == <<membershipVars, polls>>

PollKinds == {"rule_amendment", "member_removal"}
NoPoll == [status |-> "none", kind |-> "rule_amendment", version |-> 0, eligible |-> {},
           yes |-> {}, no |-> {}, target |-> "none", acted |-> FALSE]

InitGovernance ==
    /\ InitMembership
    /\ polls = [p \in PollId |-> NoPoll]

-----------------------------------------------------------------------------
\* The electorate is the membership at the creation of the poll.  A poll that
\* opens later (draft) is one that nobody votes in yet.
CreatePoll(a, p, kind, target) ==
    /\ IsChair(a)
    /\ polls[p] = NoPoll
    /\ polls' = [polls EXCEPT ![p] =
          [NoPoll EXCEPT !.status = "open",
                         !.kind = kind,
                         !.version = Current,
                         !.eligible = {u \in User : IsActive(u)},
                         !.target = target]]
    /\ Initiative
    /\ UNCHANGED <<chama, members, applications, invitations, sending, cleared, constitution>>

\* Every operation looks first whether the poll is due, so what its row says
\* between the deadline and that look makes no difference.
PollDeadline(p) ==
    /\ polls[p].status = "open"
    /\ polls' = [polls EXCEPT ![p].status = "closed"]
    /\ UNCHANGED membershipVars

Votes(poll) == poll.yes \cup poll.no

\* Full turnout closes a poll before its deadline.
Refreshed(poll) ==
    IF poll.status = "open" /\ poll.eligible \subseteq Votes(poll)
    THEN [poll EXCEPT !.status = "closed"]
    ELSE poll

\* Those who were members at the creation, still are, and did not vote yet.
MayVote(u, poll) ==
    /\ poll.status = "open"
    /\ u \in poll.eligible
    /\ IsActive(u)
    /\ u \notin Votes(poll)

Vote(u, p, approve) ==
    LET poll == polls[p]
        cast == IF approve THEN [poll EXCEPT !.yes = @ \cup {u}]
                ELSE [poll EXCEPT !.no = @ \cup {u}] IN
    /\ MayVote(u, poll)
    /\ polls' = [polls EXCEPT ![p] = Refreshed(cast)]
    /\ UNCHANGED membershipVars

QuorumMet(poll) == Cardinality(Votes(poll)) * 100 >= QuorumPct * Cardinality(poll.eligible)

MajorityMet(poll) ==
    /\ QuorumMet(poll)
    /\ Votes(poll) # {}
    /\ Cardinality(poll.yes) * 100 >= MajorityPct * Cardinality(Votes(poll))

\* The Chairperson applies the outcome of a removal poll.
RemoveMember(a, p) ==
    LET poll == polls[p] IN
    /\ IsChair(a)
    /\ poll.kind = "member_removal"
    /\ poll.status = "closed" /\ ~poll.acted
    /\ MajorityMet(poll)
    /\ HasMembership(poll.target) /\ members[poll.target].status # "exited"
    /\ KeepsChair(poll.target, members[poll.target].role, "exited")
    /\ members' = [members EXCEPT ![poll.target].status = "exited"]
    /\ polls' = [polls EXCEPT ![p] = [poll EXCEPT !.acted = TRUE]]
    /\ UNCHANGED <<chama, applications, invitations, sending, cleared, constitution, initiatives>>

-----------------------------------------------------------------------------
TargetsAny(poll, version) == TRUE

\* A poll decides about the version in force when it was opened, and no other.
Targets(poll, version) == poll.version = version

AmendConstitution(a, p) ==
    LET poll == polls[p] IN
    /\ IsChair(a)
    /\ poll.kind = "rule_amendment"
    /\ Targets(poll, Current)
    /\ poll.status = "closed" /\ ~poll.acted
    /\ MajorityMet(poll)
    /\ constitution' = Append(constitution, [text |-> 0, poll |-> p])
    /\ polls' = [polls EXCEPT ![p] = [poll EXCEPT !.acted = TRUE]]
    /\ UNCHANGED <<chama, members, applications, invitations, sending, cleared, initiatives>>

NeverAcceptedByMember(version) == \A u \in User : members[u].accepted.version # version

\* Nobody has accepted the version, as a member or in an application.
NeverAccepted(version) ==
    /\ \A u \in User : members[u].accepted.version # version
    /\ \A n \in DOMAIN applications : applications[n].rule.version # version

\* The Chairperson rewrites version 1 in place.
ConfigureConstitution(a) ==
    /\ IsChair(a)
    /\ Current = 1
    /\ NeverAccepted(1)
    /\ constitution[1].text < MaxText
    /\ constitution' = [constitution EXCEPT ![1].text = @ + 1]
    /\ UNCHANGED <<chama, members, applications, invitations, sending, cleared, initiatives, polls>>

AcceptConstitution(u) ==
    /\ HasMembership(u) /\ members[u].status # "exited"
    /\ members[u].accepted.version # Current
    /\ members' = [members EXCEPT ![u].accepted = CurrentRule]
    /\ UNCHANGED <<chama, applications, invitations, sending, cleared, constitution, initiatives, polls>>

-----------------------------------------------------------------------------
Join(u) ==
    \/ ApplyForReview(u, Current)
    \/ JoinDirectly(u, Current)
    \/ \E i \in InvitationId : JoinByInvitation(u, i, Current) \/ RejectInvitation(u, i)

Review(a) ==
    \E n \in DOMAIN applications : ApproveApplication(a, n) \/ RejectApplication(a, n)

Office(a) ==
    \/ Authorize(a)
    \/ \E i \in InvitationId :
          \/ \E u \in User \cup {Anyone}, r \in Role, m \in MaxUses : Invite(a, i, u, r, m)
          \/ Resend(a, i)
          \/ CancelInvitation(a, i)
    \/ \E v \in Visibilities, t \in Target, later \in BOOLEAN : UpdateChama(a, v, t, later)
    \/ \E u \in User, r \in Role, s \in Statuses : UpdateMember(a, u, r, s)

Administration ==
    \/ \E u \in User, r \in Role :
          \/ ChangeRole(u, r)
          \/ \E s \in ManualStatus : AddMembership(u, r, s)
    \/ ModerateChama

Surroundings ==
    \/ \E i \in InvitationId : MarkSent(i) \/ DeliveryFails(i) \/ InvitationExpires(i)
    \/ \E n \in DOMAIN applications : DepositHeld(n)
    \/ \E u \in User : PenaltyDefault(u)
    \/ DeadlinePasses

Polling(a) ==
    \E p \in PollId :
        \/ \E t \in User : CreatePoll(a, p, "member_removal", t)
        \/ CreatePoll(a, p, "rule_amendment", "none")
        \/ \E approve \in BOOLEAN : Vote(a, p, approve)
        \/ RemoveMember(a, p)
        \/ AmendConstitution(a, p)

MembershipNext ==
    /\ UNCHANGED polls
    /\ \/ \E u \in User : Join(u) \/ Review(u) \/ Office(u)
       \/ Administration
       \/ Surroundings

GovernanceNext ==
    \/ \E a \in User : Polling(a) \/ ConfigureConstitution(a) \/ AcceptConstitution(a)
    \/ \E p \in PollId : PollDeadline(p)

Next == MembershipNext \/ GovernanceNext

Spec == InitGovernance /\ [][Next]_governanceVars

-----------------------------------------------------------------------------
\* Every later version was enacted by one poll of its own, which was about the
\* version before it, closed with quorum and majority among those who were
\* members when it was opened; and a poll that was acted on enacted something.
AmendedByItsPoll ==
    /\ \A v \in 2..Current :
          LET poll == polls[constitution[v].poll] IN
          /\ poll.version = v - 1
          /\ poll.status = "closed" /\ poll.acted
          /\ Votes(poll) \subseteq poll.eligible
          /\ MajorityMet(poll)
    /\ \A p \in PollId :
          polls[p].acted /\ polls[p].kind = "rule_amendment"
              => \E v \in 2..Current : constitution[v].poll = p

\* Nobody's acceptance comes to stand for another text than the one accepted:
\* not a member's, not an applicant's.
AcceptedTextStands ==
    LET rules == {members[u].accepted : u \in User}
                 \cup {applications[n].rule : n \in DOMAIN applications}
    IN \A r \in rules \ {NoRule} : r.text = constitution[r.version].text

\* Each use of an invitation let in one member, no more than it allows, and it
\* counts as accepted exactly when they are used up, whatever its delivery does.
InvitationsAccounted ==
    \A i \in InvitationId :
        LET entered == Cardinality({u \in User : members[u].via = i}) IN
        /\ invitations[i].uses = entered
        /\ entered <= invitations[i].max
        /\ invitations[i].status = "accepted"
              <=> invitations[i].max > 0 /\ entered = invitations[i].max

\* A member that enters on its own account fits into the Chama, has accepted the
\* Constitution in force at that moment, and recruitment never reopens.
EntryRespectsChama ==
    [][/\ \A u \in User :
            ~HasMembership(u) /\ HasMembership(u)' /\ members'[u].via # "platform" =>
              /\ Occupied' <= Capacity
              /\ members'[u].accepted.version = Current
       /\ chama.full => chama'.full]_governanceVars

\* No decision of officials, administrators or polls leaves a Chama without an
\* active chairperson; only the penalty worker does.
ChairLostOnlyByDefault ==
    [][Chairs # {} /\ Chairs' = {} =>
          \E u \in Chairs : members'[u].status = "defaulted"]_governanceVars
=============================================================================
