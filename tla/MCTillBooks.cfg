SPECIFICATION Spec
CONSTANTS
    Orders = {o1, o2}
    Legs = {1, 2, 3}
    Requests = {q1}
    Prompts = {c1}
    Slips = {s1}
    Goods = {g, u}
    Tracked = {g}
    OnHand = 1
    Total = 250
    CreditPart = 100
    Spend = 2
    Earn = 3
    Relayed = {c1}
    MaxCrashes = 1
    None = None
CHECK_DEADLOCK FALSE
INVARIANTS StockExact LoyaltyAndCredit TabDebt
