SPECIFICATION Spec
CONSTANTS
    s1 = s1
    s2 = s2
    eth = eth
    btc = btc
    Absent = Absent
    Strategies = {s1, s2}
    Instruments = {eth, btc}
    InstrumentOf <- MCApart
    Sides <- MCLongOnly
    Sources = {"public"}
    MaxEvents = 2
    MaxFills = 2
    MaxBoots = 2
INVARIANTS
    CrashReplaysEvent
