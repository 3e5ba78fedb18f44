SPECIFICATION Spec
CONSTANTS
    Attachers = {a1, a2}
    Web = a1
    Api = a2
    Source <- AttacherSource
    remove = remove
    reboot = reboot
    mkfs = mkfs
    Words = {remove, mkfs}
    Rules <- RuleSet
    Tokens = {k1, k2}
    NoToken = NoToken
    MaxLine = 2
    MaxOut = 2
CONSTRAINT AstrayAlone
INVARIANT GateTracksLine
 
 
INVARIANT AskHasOneOutcome
\* Clients are used once: everybody may be gone.
CHECK_DEADLOCK FALSE
