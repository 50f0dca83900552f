SPECIFICATION SystemSpec
CONSTANTS
    u1 = u1
    d1 = d1
    b1 = b1
    s1 = s1
    s2 = s2
    NoBay = NoBay
    NoOne = NoOne
    None = None
    Users <- OneUser
    Devices <- OneDevice
    Bays <- OneBay
    Sessions <- OneSession
    OwnerOf <- OwnedByOne
    DeviceOf <- OnOneDevice
    Postings <- NoPosting
    Amounts = {1}
    OpeningCredit = 1
    Tariff = 1
    Unit = 1
    EnergyCap = 2
    Margin = 0
    Readings = {1}
    MaxAt = 1
    Leftover = {0}
    MaxStops = 1
    Backlog = 1
CONSTRAINT Calm
VIEW SystemView
INVARIANTS PowerIsPaidFor
PROPERTIES KeepsRelayContract
