SPECIFICATION Spec
CONSTANTS
    u1 = u1
    d1 = d1
    b1 = b1
    b2 = b2
    s1 = s1
    s2 = s2
    p1 = p1
    NoBay = NoBay
    NoOne = NoOne
    Users <- OneUser
    Devices <- OneDevice
    Bays <- TwoBays
    Sessions <- TwoSessions
    OwnerOf <- AllOwnedByOne
    DeviceOf <- AllOnOneDevice
    Postings <- OnePosting
    Amounts = {1}
    OpeningCredit = 2
    Tariff = 2
    Unit = 3
    EnergyCap = 5
    Margin = 1
    Readings = {1}
    MaxAt = 1
    MaxStops = 1
INVARIANTS OneOpenSession BalanceCoversHolds LedgerExplainsBalance
CONSTRAINT Sequential
PROPERTIES KeepsCreditPromise
VIEW SequenceView
