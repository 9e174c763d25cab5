SPECIFICATION BotSpec
CONSTANTS
    Users = {u1}
    Slots = {s1, s2}
    Times = {1}
    MaxBookings = 2
    MaxReminders = 2
    Tasks = {t1, t2}
    NoSlot = NoSlot
    Commands = {"start", "select", "phone", "payment", "cancel"}
    MaxPayers = 1
    MaxRetries = 2
    MaxErrors = 0
    MaxCrashes = 1
SYMMETRY Symmetry
INVARIANTS
    BotTypeOK
    OneReminderPerBooking
