SPECIFICATION FairBotSpec
CONSTANTS
    Users = {u1}
    Slots = {s1, s2}
    Times = {1}
    MaxBookings = 2
    MaxReminders = 2
    Tasks = {t1}
    NoSlot = NoSlot
    Commands = {"select", "phone", "payment"}
    MaxPayers = 1
    MaxRetries = 3
    MaxErrors = 0
    MaxCrashes = 0
PROPERTY DepositMarksPaid
