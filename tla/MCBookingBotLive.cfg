SPECIFICATION FairBotSpec
CONSTANTS
    Users = {u1}
    Slots = {s1}
    Times = {1}
    MaxBookings = 1
    MaxReminders = 1
    Tasks = {t1, t2}
    NoSlot = NoSlot
    Commands = {"start", "select", "phone", "payment", "flood", "cancel", "privacy"}
    MaxPayers = 1
    MaxRetries = 2
    MaxErrors = 1
    MaxCrashes = 0
PROPERTIES
    EveryTaskEnds
    BookingSurvivesReminder
