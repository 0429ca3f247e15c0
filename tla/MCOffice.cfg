CONSTANTS
    w1 = w1
    p1 = p1
    Workers = {w1, w2}
    Pads = {p1, p2}
    Tries = 1
    MaxAsked = 3
    MaxPins = 3
    MaxLost = 1
    MaxDeaths = 1
    MaxUnsaved = 1
    Kept = 2
    Nobody = Nobody
    Sales = {s1}
    Askers = {a1, a2}
    Batch = 1
    MaxAttempts = 2
    MaxJobs = 2
    MaxRetries = 2
    MaxUnheard = 1
    MaxKills = 1
    Takers = {timer, button}
    LocalKeep = 2
    RemoteKeep = 1
    MaxSnapshots = 3
    MaxUnheardPuts = 1
    MaxOutages = 1
SPECIFICATION FocusSpec
CHECK_DEADLOCK FALSE
INVARIANTS RestoresLastSent
PROPERTIES GrantAppliedOnce GrantArrives ReceiptOnce JobsSettle SnapshotArrives
