SPECIFICATION Spec
CONSTANTS
    Attachers = {a1}
    Web = a1
    Api = a2
    Source <- AttacherSource
    remove = remove
    reboot = reboot
    mkfs = mkfs
    Words = {remove, reboot, mkfs}
    Rules <- RuleSet
    Tokens = {k1}
    NoToken = NoToken
    MaxLine = 2
    MaxOut = 2
INVARIANT ConfirmIsHeld
CHECK_DEADLOCK FALSE
