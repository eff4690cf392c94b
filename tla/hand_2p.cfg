CONSTANTS
    p1 = p1
    p2 = p2
    p3 = p3
    p4 = p4
    Player = {p1, p2}
    Seats <- TwoSeats
    Stacks <- TwoStacks
    SmallBlind = 1
    BigBlind = 2
    Requests = {"fold", "check", "call", "bet"}
    BetAmounts = {2, 4}
    MaxPending = 1
    MaxRounds = 2
    MaxExpiries = 1
    AdvanceFirst = FALSE
SPECIFICATION FairSpec
INVARIANT ChipsConserved
CHECK_DEADLOCK FALSE
PROPERTY HandCompletes
PROPERTY ImplementsLedger
