SPECIFICATION FairSpec
CONSTANTS
    s1 = s1
    s2 = s2
    eth = eth
    btc = btc
    Absent = Absent
    Strategies = {s1, s2}
    Instruments = {eth, btc}
    InstrumentOf <- MCApart
    Sides <- MCLongOnly
    Sources = {"public", "fixture"}
    MaxEvents = 3
    MaxFills = 2
    MaxBoots = 3
INVARIANTS
    TypeOK
    ArchiveComplete
    CountedOnce
    CheckpointCurrent
    FixtureReplaysEvent
PROPERTIES
    EvidenceGrows
    ImplementsLedger
    ClosedWindowReplaced
