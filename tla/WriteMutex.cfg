SPECIFICATION ASpec
CONSTANTS
    op1 = op1
    cb1 = cb1
    guest1 = guest1
    Operators = {op1}
    Executors = {ex1}
    Reconcilers = {rc1}
    Callbacks = {cb1}
    Guests = {guest1}
    GuestOf <- MCGuestOf
    None = None
    Ghost = Ghost
    OperatorTicks = 2
    AutomaticTicks = 1
    MaxClock = 0
INVARIANT AdoptionExcludesReconciliation
