SPECIFICATION MCSpec
CONSTANTS
    alice = alice
    bob = bob
    alice1 = alice1
    bob1 = bob1
    free = free
    strict = strict
    Sessions = {alice1, bob1}
    Owner = alice
    Users = {alice, bob}
    UserOf <- MCUserOf
    Contributions = {c1}
    Proposals <- MCProposals
    Pushes = {push}
    Pushed <- MCPushed
    Licenses = {free, strict}
    MaxVersion = 3
    None = None
INVARIANT MergedIsAccepted
INVARIANT LineageGrows
INVARIANT WritersAreCredited
INVARIANT RightsAcknowledged
PROPERTY WritersConsented
PROPERTY ImplementsRegister
