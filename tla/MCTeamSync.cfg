SPECIFICATION FocusSpec
CONSTANTS
  a = a
  b = b
  cash = cash
  tab = tab
  Tills = {a, b}
  Orders = {cash, tab}
  Tabs = {tab}
  Voidable = {cash}
  Home <- BothAtA
  Catalog = a
  OnHand = 2
  MaxPush = 2
  Batch = 2
  MaxRows = 1
  MaxFaults = 3
CHECK_DEADLOCK FALSE
INVARIANTS OnceEach LogIsTrue TillsAgree OrdersArrive ChargedOnce
