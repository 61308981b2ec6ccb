SPECIFICATION LinkSpec
CONSTANTS
    Submissions = {s1, s2}
    Turns = {t1, t2}
    NoLink = noLink
    Window = 3
    HardTtl = 3
    AckTimeout = 2
    MaxReadAge = 1
    MaxTime = 4
INVARIANTS LinksAreTrue
CHECK_DEADLOCK FALSE
