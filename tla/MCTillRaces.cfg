SPECIFICATION Spec
CONSTANTS
    Orders = {o1}
    Legs = {1, 2, 3}
    Requests = {q1, q2}
    Prompts = {c1, c2}
    Slips = {s1}
    Goods = {g}
    Tracked = {g}
    OnHand = 1
    Total = 250
    CreditPart = 100
    Spend = 0
    Earn = 3
    Relayed = {c1}
    MaxCrashes = 0
    None = None
CHECK_DEADLOCK FALSE
SYMMETRY Interchangeable
INVARIANTS PaidOnce NoSaleAfterVoid OneLegPerReceipt NotOvercharged
