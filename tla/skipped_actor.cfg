CONSTANTS
    p1 = p1
    p2 = p2
    p3 = p3
    p4 = p4
    Player = {p1, p2, p3}
    Seats <- ThreeSeats
    Stacks <- ThreeStacks
    SmallBlind = 1
    BigBlind = 2
    Requests = {"fold", "check", "call", "bet"}
    BetAmounts = {2, 3, 4}
    MaxPending = 1
    MaxRounds = 1
    MaxExpiries = 0
    AdvanceFirst = TRUE
SPECIFICATION Spec
PROPERTY ActionClosesMatchedStreet
CHECK_DEADLOCK FALSE
