SPECIFICATION BotSpec
CONSTANTS
    Users = {u1, u2}
    Slots = {s1}
    Times = {1}
    MaxBookings = 2
    MaxReminders = 1
    Tasks = {t1, t2}
    NoSlot = NoSlot
    Commands = {"select", "phone", "payment", "cancel", "privacy"}
    MaxPayers = 1
    MaxRetries = 1
    MaxErrors = 0
    MaxCrashes = 0
SYMMETRY Symmetry
INVARIANTS
    OwnerKept
    PaidWasDeposited
