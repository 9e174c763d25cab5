SPECIFICATION FairSchedSpec
CONSTANTS
    Users = {u1, u2}
    Slots = {s1, s2}
    Times = {1, 2}
    MaxBookings = 2
    MaxReminders = 2
    MaxTime = 2
    Blocked = {u2}
    MaxErrors = 1
    MaxCrashes = 1
INVARIANTS
    SchedTypeOK
    RepeatsOnlyByFaults
    InactiveWasDelivered
PROPERTY DueIsDelivered
