CONSTANTS
    t1 = t1
    Screens = {t1, t2}
    Handlers = {h1, h2}
    FlushBatch = 1
    MaxSales = 2
    MaxTroubles = 2
    Gone = Gone
SPECIFICATION FocusSpec
CHECK_DEADLOCK FALSE
PROPERTIES KeepsPromise TakenIsSettled
