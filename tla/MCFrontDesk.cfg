CONSTANTS
    a = a
    b = b
    amy = amy
    ben = ben
    Tills = {a, b}
    Staff = {amy, ben}
    Knows <- MCKnows
    FirstUser <- MCFirstUser
    Clock <- MCClock
    Papers = {k1}
    Requests = {r1, r2}
    MaxAsks = 4
    MaxSales = 1
    MaxEdits = 1
    MaxMoments = 5
    MaxCrashes = 1
    None = None
SPECIFICATION FocusSpec
SYMMETRY RequestSymmetry
CHECK_DEADLOCK FALSE
INVARIANTS CashOnItsReport SessionsAgree ParkedOnce QuotesAgree
