CONSTANTS
    Tokens = {t1, t2, t3, t4}
    NoToken = NoToken
    kClientMaximum = 3
SPECIFICATION ServiceSpec
INVARIANT
    NothingLeaks
PROPERTY NoPinning
