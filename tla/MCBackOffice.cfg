CONSTANTS
    a = a
    b = b
    n1 = n1
    n2 = n2
    Tills = {a, b}
    Clock <- MCClock
    Phones = {n1, n2}
    Regular = n1
    Limits = {1, 2}
    Cards = {g1}
    Worth = 2
    Requests = {r1, r2}
    MaxForms = 2
    MaxMoments = 5
    MaxCrashes = 1
    None = None
    ann = ann
    bob = bob
    cy = cy
    chief = chief
    clerk = clerk
    Admin = chief
    Users = {ann, bob, cy}
    Roles = {chief, clerk}
    KeySets <- MCKeySets
    SeedRoles <- MCSeedRoles
    SeedUsers <- MCSeedUsers
    FirstUser = ann
    StaffReqs = {q1, q2}
    MaxChanges = 3
    MaxCodes = 3
    Absent = Absent
    Shops = {main, branch}
    Main = main
    Latest = 2
    Rank <- MCRank
    MaxSales = 2
    MaxArchives = 2
    MaxTroubles = 1
SPECIFICATION FocusSpec
SYMMETRY RequestSymmetry
CHECK_DEADLOCK FALSE
INVARIANTS BooksFollowLedger TillsOweTheSame LimitsAgree UpdateIsProtected UndoKeepsWork
PROPERTIES OwnerStays RecoveryCodeOnce PutBackWhole
