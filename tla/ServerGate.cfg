SPECIFICATION FairSpec
CONSTANTS
    Calls = {c1, c2, c3}
    Transitions = {w1, w2}
    NoOne = NoOne
    PassesOn = TRUE
PROPERTIES
    ImplementsSharedExclusive
    EveryoneServed
