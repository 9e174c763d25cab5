SPECIFICATION SchedSpec
CONSTANTS
    Users = {u1}
    Slots = {s1}
    Times = {1, 2}
    MaxBookings = 1
    MaxReminders = 1
    MaxTime = 1
    Blocked = {}
    MaxErrors = 0
    MaxCrashes = 0
PROPERTY CancelledNotReminded
