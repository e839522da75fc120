----------------------------- MODULE Membership -----------------------------
(***************************************************************************)
(* How users become and stop being members of one Chama: direct joins,     *)
(* applications and their review, invitations and their delivery, the      *)
(* commitment deposit that activates a member, and the changes officials   *)
(* and platform administrators make.  Every service call that runs in a    *)
(* SERIALIZABLE transaction on the locked Chama row is one action; what is *)
(* read before it (the role check of the middleware, the invitation that   *)
(* is being sent by SMS) is a step of its own.                             *)
(*                                                                         *)
(* The Constitution is read here and changed by Governance.                *)
(***************************************************************************)
EXTENDS Naturals, Sequences, FiniteSets

CONSTANTS
    User,
    Founder,          \* the user that created the Chama
    Platform,         \* users that are platform administrators as well
    Enrolled,         \* users the platform may have enrolled at its creation
    Anyone,           \* the addressee of a shareable invitation
    Role,             \* member_role; at least "member" and "chairperson"
    ManualStatus,     \* the statuses officials and administrators may set
    Target,           \* values of target_members that are configured
    MaxMembers,       \* CHAMA_MAX_MEMBERS, or what the plan allows if less
    InvitationId,
    MaxUses,          \* values of max_uses that officials choose
    MaxInitiatives    \* bound on what sets things going, see Initiative

ASSUME MembershipAssumption ==
    /\ IsFiniteSet(User) /\ Founder \in User /\ Anyone \notin User
    /\ Enrolled \subseteq User \ {Founder} /\ Platform \subseteq User
    /\ {"member", "chairperson"} \subseteq Role
    /\ Target \subseteq Nat \ {0}
    /\ MaxMembers \in Nat \ {0}
    /\ MaxUses \subseteq Nat \ {0}
    /\ MaxInitiatives \in Nat

VARIABLES
    chama,          \* chamas: visibility, target_members, status, recruitment
    members,        \* chama_members with membership_constitution_acceptances
    applications,   \* chama_applications in order of creation
    invitations,    \* chama_invitations
    sending,        \* invitations whose SMS is being sent
    cleared,        \* officials with a request past the role check
    constitution,   \* chama_rules in order of version; the last one is active
    initiatives     \* the number of initiatives so far

membershipVars ==
    <<chama, members, applications, invitations, sending, cleared, constitution, initiatives>>

Visibilities == {"public", "application", "private"}
Statuses     == {"pending", "active", "suspended", "defaulted", "exited"}
Usable       == {"pending", "sent", "approved", "delivery_failed"}
Resendable   == {"pending", "sent", "delivery_failed"}

\* Of the versions a member accepted only the latest makes a difference.
NoRule       == [version |-> 0, text |-> 0]
Enrolment(role, status, via) ==
    [role |-> role, status |-> status, accepted |-> NoRule, via |-> via]
NoMember     == Enrolment("none", "none", "none")
NoInvitation == [status |-> "none", addressee |-> Anyone, role |-> "none",
                 uses |-> 0, max |-> 0, expired |-> FALSE]

Current        == Len(constitution)
CurrentRule    == [version |-> Current, text |-> constitution[Current].text]
HasMembership(u) == members[u] # NoMember
IsActive(u)    == members[u].status = "active"
IsChair(u)     == IsActive(u) /\ members[u].role = "chairperson"
Chairs         == {u \in User : IsChair(u)}
IsOfficial(u)  == IsActive(u) /\ members[u].role \in {"chairperson", "secretary"}
Occupied       == Cardinality({u \in User : members[u].status \in {"active", "pending"}})
Capacity       == IF chama.target < MaxMembers THEN chama.target ELSE MaxMembers

InitMembership ==
    /\ chama \in [visibility : Visibilities, target : Target, live : {TRUE},
                  full : {FALSE}, deadline : {FALSE}]
    /\ \E office \in [Enrolled -> Role \cup {"none"}] :
          members = [u \in User |->
              CASE u = Founder -> Enrolment("chairperson", "active", "none")
                [] u \in Enrolled /\ office[u] # "none" ->
                      Enrolment(office[u], "active", "platform")
                [] OTHER -> NoMember]
    /\ applications = <<>>
    /\ invitations = [i \in InvitationId |-> NoInvitation]
    /\ sending = {}
    /\ cleared = {}
    /\ constitution = <<[text |-> 0, poll |-> "none"]>>
    /\ initiatives = 0

-----------------------------------------------------------------------------
\* Every application, request of an official, platform decision, poll, default
\* and passing of a term is one.
Initiative == initiatives < MaxInitiatives /\ initiatives' = initiatives + 1

\* Joining.

RecruitmentOpen == chama.live /\ ~chama.full /\ ~chama.deadline

MayEnterUncounted(u) == RecruitmentOpen /\ ~HasMembership(u)

\* The slot is counted in the transaction that takes it.
MayEnter(u) == RecruitmentOpen /\ ~HasMembership(u) /\ Occupied < Capacity

\* A new membership occupies a slot; the last one closes recruitment for good.
\* The founding rule asks for a commitment deposit and amendments carry its
\* amount over, so every new member is pending until it is held.
Enter(u, role, rule, invitation) ==
    /\ members' = [members EXCEPT ![u] =
          [Enrolment(role, "pending", invitation) EXCEPT !.accepted = rule]]
    /\ chama' = [chama EXCEPT !.full = @ \/ Occupied + 1 >= chama.target]

Application(u, status, rule) == [user |-> u, status |-> status, rule |-> rule]

ApplyForReview(u, version) ==
    /\ chama.visibility = "application"
    /\ version = Current
    /\ MayEnter(u)
    /\ \A n \in DOMAIN applications :
          ~(applications[n].user = u /\ applications[n].status = "pending")
    /\ Initiative
    /\ applications' = Append(applications, Application(u, "pending", CurrentRule))
    /\ UNCHANGED <<chama, members, invitations, sending, cleared, constitution>>

JoinDirectly(u, version) ==
    /\ chama.visibility = "public"
    /\ version = Current
    /\ MayEnter(u)
    /\ Initiative
    /\ Enter(u, "member", CurrentRule, "none")
    /\ applications' = Append(applications, Application(u, "commitment_pending", CurrentRule))
    /\ UNCHANGED <<invitations, sending, cleared, constitution>>

Admits(i, u) ==
    /\ invitations[i].status \in Usable
    /\ ~invitations[i].expired
    /\ invitations[i].uses < invitations[i].max
    /\ invitations[i].addressee \in {u, Anyone}

UseInvitation(i) ==
    invitations' = [invitations EXCEPT
        ![i].uses = @ + 1,
        ![i].status = IF invitations[i].uses + 1 >= invitations[i].max THEN "accepted" ELSE @]

JoinByInvitation(u, i, version) ==
    /\ chama.visibility = "private"
    /\ version = Current
    /\ MayEnter(u)
    /\ Admits(i, u)
    /\ Initiative
    /\ Enter(u, invitations[i].role, CurrentRule, i)
    /\ applications' = Append(applications, Application(u, "commitment_pending", CurrentRule))
    /\ UseInvitation(i)
    /\ UNCHANGED <<sending, cleared, constitution>>

\* The Chairperson or Secretary decides; membership and office are read again
\* inside the transaction.
RejectApplication(a, n) ==
    /\ IsOfficial(a)
    /\ applications[n].status = "pending"
    /\ applications' = [applications EXCEPT ![n].status = "rejected"]
    /\ UNCHANGED <<chama, members, invitations, sending, cleared, constitution, initiatives>>

StillCurrent(rule) == rule.version = Current

ApproveApplication(a, n) ==
    LET application == applications[n] IN
    /\ IsOfficial(a)
    /\ application.status = "pending"
    /\ StillCurrent(application.rule)
    /\ MayEnter(application.user)
    /\ Enter(application.user, "member", application.rule, "none")
    /\ applications' = [applications EXCEPT ![n].status = "commitment_pending"]
    /\ UNCHANGED <<invitations, sending, cleared, constitution, initiatives>>

\* The provider confirms the deposit of a commitment-pending application.
DepositHeld(n) ==
    LET u == applications[n].user IN
    /\ applications[n].status = "commitment_pending"
    /\ members[u].status = "pending"
    /\ members' = [members EXCEPT ![u].status = "active"]
    /\ applications' = [applications EXCEPT ![n].status = "approved"]
    /\ UNCHANGED <<chama, invitations, sending, cleared, constitution, initiatives>>

-----------------------------------------------------------------------------
\* Requests that only the middleware authorises: the office is read when the
\* request arrives and not again when the handler runs.  Platform administrators
\* pass without an office.

Authorize(a) ==
    /\ IsOfficial(a) \/ a \in Platform
    /\ a \notin cleared
    /\ Initiative
    /\ cleared' = cleared \cup {a}
    /\ UNCHANGED <<chama, members, applications, invitations, sending, constitution>>

Handle(a) ==
    /\ a \in cleared
    /\ cleared' = cleared \ {a}
    /\ UNCHANGED initiatives

Outstanding(i, addressee) ==
    /\ invitations[i].addressee = addressee
    /\ invitations[i].status \in Usable
    /\ ~invitations[i].expired
    /\ invitations[i].uses < invitations[i].max

\* POST /invite: the row is inserted, then an addressee is sent an SMS.
Invite(a, i, addressee, role, max) ==
    /\ Handle(a)
    /\ invitations[i] = NoInvitation
    /\ RecruitmentOpen
    /\ addressee = Anyone => chama.visibility = "private" /\ role = "member"
    /\ addressee # Anyone => /\ ~HasMembership(addressee)
                             /\ \A j \in InvitationId : ~Outstanding(j, addressee)
    /\ Occupied < Capacity
    /\ invitations' = [invitations EXCEPT ![i] =
          [status |-> "pending", addressee |-> addressee, role |-> role,
           uses |-> 0, max |-> max, expired |-> FALSE]]
    /\ sending' = IF addressee = Anyone THEN sending ELSE sending \cup {i}
    /\ UNCHANGED <<chama, members, applications, constitution>>

Resend(a, i) ==
    /\ Handle(a)
    /\ invitations[i].status \in Resendable
    /\ ~invitations[i].expired
    /\ invitations[i].addressee # Anyone
    /\ sending' = sending \cup {i}
    /\ UNCHANGED <<chama, members, applications, invitations, constitution>>

DeliverableAlways(i) == TRUE

\* After the SMS one UPDATE marks the row, unless it was used or withdrawn meanwhile.
Deliverable(i) == invitations[i].status \in Resendable

MarkSent(i) ==
    /\ i \in sending
    /\ sending' = sending \ {i}
    /\ invitations' = IF Deliverable(i) THEN [invitations EXCEPT ![i].status = "sent"]
                      ELSE invitations
    /\ UNCHANGED <<chama, members, applications, cleared, constitution, initiatives>>

DeliveryFails(i) ==
    /\ i \in sending
    /\ sending' = sending \ {i}
    /\ UNCHANGED <<chama, members, applications, invitations, cleared, constitution, initiatives>>

CancelInvitation(a, i) ==
    /\ Handle(a)
    /\ invitations[i].status \in Usable
    /\ invitations' = [invitations EXCEPT ![i].status = "cancelled"]
    /\ UNCHANGED <<chama, members, applications, sending, constitution>>

RejectInvitation(u, i) ==
    /\ invitations[i].addressee = u
    /\ invitations[i].status \in Usable
    /\ invitations' = [invitations EXCEPT ![i].status = "rejected"]
    /\ UNCHANGED <<chama, members, applications, sending, cleared, constitution, initiatives>>

UpdateChama(a, visibility, target, later) ==
    /\ Handle(a)
    /\ chama' = [chama EXCEPT !.visibility = visibility, !.target = target,
                             !.deadline = @ /\ ~later]
    /\ UNCHANGED <<members, applications, invitations, sending, constitution>>

KeepsChairOnDemotion(u, role, status) ==
    \/ ~IsChair(u)
    \/ role = "chairperson"
    \/ \E c \in Chairs : c # u

\* The last active chairperson may neither be demoted nor deactivated.
KeepsChair(u, role, status) ==
    \/ ~IsChair(u)
    \/ role = "chairperson" /\ status = "active"
    \/ \E c \in Chairs : c # u

Reassign(u, role, status) ==
    /\ HasMembership(u)
    /\ KeepsChair(u, role, status)
    /\ members' = [members EXCEPT ![u].role = role, ![u].status = status]

UpdateMember(a, u, role, status) ==
    /\ Handle(a)
    /\ status \in ManualStatus \cup {members[u].status}
    /\ Reassign(u, role, status)
    /\ UNCHANGED <<chama, applications, invitations, sending, constitution>>

-----------------------------------------------------------------------------
\* Platform administrators and workers.

AddMembership(u, role, status) ==
    /\ Initiative
    /\ ~HasMembership(u)
    /\ members' = [members EXCEPT ![u] = Enrolment(role, status, "platform")]
    /\ UNCHANGED <<chama, applications, invitations, sending, cleared, constitution>>

ChangeRole(u, role) ==
    /\ Initiative
    /\ members[u].role # role
    /\ Reassign(u, role, members[u].status)
    /\ UNCHANGED <<chama, applications, invitations, sending, cleared, constitution>>

ModerateChama ==
    /\ Initiative
    /\ chama' = [chama EXCEPT !.live = ~@]
    /\ UNCHANGED <<members, applications, invitations, sending, cleared, constitution>>

\* The penalty worker knows no chairperson.
PenaltyDefault(u) ==
    /\ Initiative
    /\ IsActive(u)
    /\ members' = [members EXCEPT ![u].status = "defaulted"]
    /\ UNCHANGED <<chama, applications, invitations, sending, cleared, constitution>>

InvitationExpires(i) ==
    /\ Initiative
    /\ invitations[i].status \in Usable /\ ~invitations[i].expired
    /\ invitations' = [invitations EXCEPT ![i].expired = TRUE]
    /\ UNCHANGED <<chama, members, applications, sending, cleared, constitution>>

DeadlinePasses ==
    /\ Initiative
    /\ ~chama.deadline
    /\ chama' = [chama EXCEPT !.deadline = TRUE]
    /\ UNCHANGED <<members, applications, invitations, sending, cleared, constitution>>

=============================================================================
