SPECIFICATION Spec
CONSTANTS
    NoSession = NoSession
    NoAccount = NoAccount
    NoChange = NoChange
    Sessions = {s1, s2}
    Commands = {c1, c2}
    Scenarios = {"normal", "unplug", "battery-full", "sensor-fault", "timeout", "command-failure"}
    MaxEnergy = 2
    MaxTicks = 12
    MaxSent = 4
    MaxClock = 2
    BatchSize = 2
    MaxEvents = 1
    MaxQueue = 2
    MaxRooms = 1
    MaxRetries = 1
    Keys = {k1}
    MaxApplied = 2
    MaxCounter = 2
    FullPower = 1
    MaxDuration = 1
    MaxNow = 2
    MaxReadings = 3
    Parts = 4
    MaxPower = 3
    Latency = 2
    Interval = 3
    Speed = 1
    Authorised = {4, 5, 6, 7}
    Kinds = {"start", "topup", "adjust", "reserve"}
    Choices = {f1, f2}
    MaxIntentions = 2
    MaxKeys = 3
    MaxCalls = 3
INVARIANTS DeactivationWaits
CHECK_DEADLOCK FALSE
