SPECIFICATION FocusSpec
CONSTANTS
  a = a
  b = b
  cash = cash
  tab = tab
  Tills = {a, b}
  Orders = {cash, tab}
  Tabs = {tab}
  Voidable = {}
  Home <- BothAtA
  Catalog = a
  OnHand = 2
  MaxPush = 2
  Batch = 2
  MaxRows = 0
  MaxFaults = 1
CHECK_DEADLOCK FALSE
PROPERTIES LogIsRead
