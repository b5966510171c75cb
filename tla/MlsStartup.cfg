\* The owner's device and a member's open a new channel.
SPECIFICATION Spec
CONSTANTS
    owner = owner
    member = member
    d1 = d1
    d2 = d2
    None = None
    Devices = {d1, d2}
    Users = {owner, member}
    UserOf <- MCUserOf
    Owner = owner
PROPERTIES
    StartupReconciles
CHECK_DEADLOCK FALSE
