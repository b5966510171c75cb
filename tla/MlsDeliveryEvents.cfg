\* Events, mutations and attachments: nobody reads.
SPECIFICATION Spec
CONSTANTS
    owner = owner
    member = member
    d1 = d1
    d2 = d2
    d3 = d3
    None = None
    Devices = {d1, d2}
    Users = {owner, member}
    UserOf <- MCUserOf
    Owner = owner
    Enrolled = {d1, d2}
    Readers = {}
    Operations = {o1, o2}
    EventIds = {e1, e2, e3}
    Kinds = {"message", "edit", "delete", "reaction", "attachment"}
    Attachments = {a1, a2}
    Limits = {1}
    MaxEpoch = 2
    MaxSequence = 3
SYMMETRY Symmetry
INVARIANTS
    ExactlyOnce
    EpochsFollowCommits
    RetriesReplay
    MutationsHaveRoots
    AttachmentsBoundWhole
CHECK_DEADLOCK FALSE
