\* Six attempts, as in the code; seven orders are the fewest that lose them all.
CONSTANTS
    busy = busy
    quiet = quiet
    Tills = {busy, quiet}
    Attempts = 6
    MaxOrders <- MCMaxOrders
    MaxPapers = 2
SPECIFICATION NumbersSpec
CHECK_DEADLOCK FALSE
INVARIANTS SaleGetsNumber
