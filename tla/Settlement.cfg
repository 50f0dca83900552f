SPECIFICATION LiveSpec
CONSTANTS
    u1 = u1
    p1 = p1
    p2 = p2
    v1 = v1
    v2 = v2
    v3 = v3
    r1 = r1
    Nothing = Nothing
    Job = Job
    Users <- OneUser
    Payments <- TwoPayments
    PayerOf <- AllPaidByOne
    AmountOf <- AllOfOne
    Local <- OneLocal
    Attempts <- ThreeAttempts
    AttemptOf <- TwoForFirst
    Requests <- OneRequest
    Providers = {"gateway", "local"}
    OpeningCredit = 0
INVARIANTS PaidMatchesLedger PaidIsConfirmed HeldIsCovered
PROPERTIES KeepsTopUpPromise TakenIsSettled
CONSTRAINT OneAtATime
CHECK_DEADLOCK FALSE
