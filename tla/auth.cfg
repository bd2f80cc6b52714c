SPECIFICATION Spec
CONSTANTS
    Challenge = {h1, h2, h3}
    Key = {k1, k2, k3}
    Session = {s1, s2, s3}
    Invite = {i1}
    MaxGrants = 2
    ChallengeLimit = 2
    InviteLimit = 1
INVARIANTS
    OneOwner
    SessionsHaveKeys
    AuthoritySpentOnce
    OwnerCanReturn
SYMMETRY AuthSymmetry
CHECK_DEADLOCK FALSE
