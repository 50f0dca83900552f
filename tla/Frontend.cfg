SPECIFICATION Spec
CONSTANTS
    Owners = {o1}
    Bays = {b1}
    Requests = {r1}
    OwnerOf <- AllByOne
    Payments = {p1}
    PayerOf <- PaidByOne
    TopUp = 2
    Adjustments = {a1}
    Amounts <- Down
    OpeningCredit = 1
    MaxWallet = 2
    Tariffs = {2}
    Unit = 2
    Capacity = 2
    MaxStep = 1
    MaxCommands = 2
    Bookings = {k1, k2}
    BookerOf <- EachByItself
    Sample = k1
    Rooms = {b1, b2}
    Spare = b2
    Prices = {1, 2}
    Fee = 1
    CancellationFee = 1
    Hours = {1}
    MaxTime = 1
    Expected = 4
    Room = 1
    Accounts = {u1, u2}
    Nobody = Nobody
    MaxChanges = 3
    MaxRefreshes = 2
    MaxLoads = 2
    MaxPower = 2
    MaxCharge = 1
    MaxDischarge = 1
    Auxiliary = 1
    HourLength = 2
    MaxInterval = 2
    Speeds = {1, 2}
    Slices = 2
    MaxElapsed = 3
    LastTick = 3
    Owner = Owner
    Admin = Admin
    Demo = Demo
    MaxAttempts = 2
    MaxLogins = 1
INVARIANTS HoldIsCovered BooksBalance NoDoubleBooking ShownIsOwn HoursExplainBattery AttemptIsAnswered
CONSTRAINT Mild
VIEW Chosen
CHECK_DEADLOCK FALSE
