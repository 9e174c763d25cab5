SPECIFICATION FairAdminSpec
CONSTANTS
    Users = {u1}
    Tasks = {t1, t2}
    MaxAttempts = 3
    Window = 2
    MaxRetries = 2
    MaxFaults = 1
INVARIANTS
    AdminTypeOK
    GuessesBounded
    GuessesPerMessage
    PanelForAdmins
    AskedHasSlot
PROPERTY LockoutEnds
