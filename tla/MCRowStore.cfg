SPECIFICATION Spec
CONSTANTS
    Nodes = {n1, n2}
    None = None
    u1 = u1
    u2 = u2
    u3 = u3
    old = old
    new = new
    Profiles = {old, new}
    Matches <- SomeMatches
    Sequel = TRUE
    Capacity = 2
INVARIANTS
    MatchesAgree
    OneProfile
PROPERTIES
    UpdatesAreAtomic
