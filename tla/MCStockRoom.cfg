CONSTANTS
    Products = {p1, p2}
    Tracked = {p1}
    OnHand = 1
    FirstCost = 10
    Deliveries = {d1}
    Qty <- MCQty
    Price <- MCPrice
    Takes = {t1}
    Counts = {c1}
    Sheets = {{p1}}
    MaxDocs = 2
    Requests = {r1, r2}
    MaxMoves = 1
    MaxWrites = 2
    MaxCrashes = 1
    None = None
SPECIFICATION Spec
SYMMETRY RequestSymmetry
CHECK_DEADLOCK FALSE
INVARIANTS BooksMatchGoods PeerFollows CountAddsUp CostBounded
