SPECIFICATION Spec
CONSTANTS
    u1 = u1
    u2 = u2
    u3 = u3
    anyone = anyone
    i1 = i1
    p1 = p1
    p2 = p2
    User = {u1, u2, u3}
    Founder = u1
    Anyone = anyone
    Platform = {u3}
    Enrolled = {u2}
    Role <- MCRole
    ManualStatus <- MCManualStatus
    Target = {2, 3}
    MaxMembers = 3
    InvitationId = {i1}
    MaxUses <- MCMaxUses
    MaxInitiatives = 2
    PollId = {p1, p2}
    QuorumPct = 50
    MajorityPct = 50
    MaxText = 1
SYMMETRY Symmetry
INVARIANTS
    AmendedByItsPoll
    AcceptedTextStands
    InvitationsAccounted
PROPERTIES
    EntryRespectsChama
    ChairLostOnlyByDefault
CHECK_DEADLOCK FALSE
