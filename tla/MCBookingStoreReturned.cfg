SPECIFICATION Spec
CONSTANTS
    Users = {u1, u2}
    Slots = {s1, s2}
    Times = {1}
    MaxBookings = 3
    MaxReminders = 1
INVARIANT SlotsComeBack
