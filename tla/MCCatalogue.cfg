SPECIFICATION FairCatalogueSpec
CONSTANTS
    s1 = s1
    s3 = s3
    v1 = v1
    u1 = u1
    t1 = t1
    o1 = o1
    o2 = o2
    Users = {u1, u2}
    Slots = {s1, s3}
    Times = {1}
    MaxBookings = 2
    MaxReminders = 0
    Tasks = {t1, t2}
    Services = {v1}
    ServiceOf <- MCServiceOf
    DayOf <- MCDayOf
    Week = 2
    WorkingDays = {1}
    DaysAhead = 3
    MaxButtons = 1
    Owners <- MCOwners
    Window = 2
    Mixes <- MCMixes
    MaxTime = 4
    MaxCrashes = 1
INVARIANTS
    CatalogueTypeOK
    DatesAreHonest
    ButtonsAreOwn
    StormGuard
    RoundReachesOwners
PROPERTY EmptyCatalogueAnswered
