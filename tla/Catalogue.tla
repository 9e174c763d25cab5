------------------------------- MODULE Catalogue -------------------------------
(***************************************************************************)
(* The menus of src/booking/handlers.py: the list of services with the     *)
(* alert that tells the owners the catalogue is empty, the dates and the   *)
(* times of a service, and the customer's own bookings.  They are callback *)
(* handlers that read the database of BookingStore in one session per      *)
(* query, so that bookings and cancellations of other customers commit     *)
(* between the days of one menu.  The time of the last alert is kept by    *)
(* the process.                                                            *)
(***************************************************************************)
EXTENDS BookingStore, Sequences, SequencesExt

CONSTANTS
    Tasks,          \* bound: menus being made at the same time
    Services,       \* table services, active or not
    ServiceOf,      \* slots.service_id, per slot
    DayOf,          \* slots.date, per slot, as the number of days from today
    Week,           \* days in a week (7)
    WorkingDays,    \* the days of the week with rows in weekly_schedule
    DaysAhead,      \* days_ahead of get_available_dates (14)
    MaxButtons,     \* dates on a keyboard (10)
    Owners,         \* the configured admins, in order
    Window,         \* catalog_alert_window (600 s)
    Mixes,          \* bound: the kinds of callback that come together, and
                    \* the tasks and customers of such a behaviour
    MaxTime,        \* bound: the last instant
    MaxCrashes      \* bound: crashes of the process

ASSUME CatalogueAssumption ==
    /\ ServiceOf \in [Slots -> Services]
    /\ DayOf \in [Slots -> Nat]
    /\ Week \in Nat \ {0}
    /\ WorkingDays \subseteq 0..(Week - 1)
    /\ DaysAhead \in Nat
    /\ MaxButtons \in Nat
    /\ Owners \in Seq(Range(Owners))
    /\ Window \in Nat \ {0}
    /\ \A m \in Mixes :
          /\ m.kinds \subseteq {"services", "service", "date", "my"}
          /\ m.tasks \subseteq Tasks
          /\ m.users \subseteq Users
    /\ MaxTime \in Nat /\ MaxTime >= Window
    /\ MaxCrashes \in Nat

VARIABLES
    active,         \* the services with is_active = 1; the operator edits them
    blocked,        \* the owners no message reaches
    alerted_at,     \* catalog_alerted_at[0], or 0
    clock,          \* time.time(), far from 0 at the start
    task,           \* the menus being made
    menu,           \* per customer: the cancel buttons of the list last shown
    mix,            \* the bound of this behaviour, one of Mixes
    crashes

alertVars     == <<blocked, alerted_at, clock, mix>>
catalogueVars == <<storeVars, active, alertVars, task, menu, crashes>>

Flows == {"services", "service", "date", "my", "cancel"}
Pcs   == {"services", "notify", "service", "day", "times", "bookings", "cancel",
          "show", "refuse", "answer"}

(* A running handler: the service and day it is about, the dates found,    *)
(* the bookings listed, and the owners still to tell in a round begun at   *)
(* began.  told, steady and ever are history: the owners told, the slots   *)
(* free ever since select_service started, and those free at some time in  *)
(* it (empty for other handlers).                                          *)
Task == [flow : Flows, pc : Pcs, user : Users, service : Services, day : 1..(DaysAhead + 1),
         dates : Seq(1..DaysAhead), listed : SUBSET (1..MaxBookings), pick : 0..MaxBookings,
         left : Seq(Range(Owners)), began : Nat,
         told : SUBSET Range(Owners), steady : SUBSET Slots, ever : SUBSET Slots]

FreeSlots == {s \in Slots : ~SlotTaken(s)}

CatalogueInit ==
    /\ Init
    /\ active \in SUBSET Services
    /\ blocked \in SUBSET Range(Owners)
    /\ alerted_at = 0
    /\ clock = Window
    /\ mix \in Mixes
    /\ task = << >>
    /\ menu = [u \in Users |-> {}]
    /\ crashes = 0
-------------------------------------------------------------------------------
At(t, pc)    == t \in DOMAIN task /\ task[t].pc = pc
Goto(t, pc)  == task' = [task EXCEPT ![t].pc = pc]
End(t)       == task' = Delete(task, {t})

Begin(t, flow, pc, u, v, d, b) ==
    /\ t \notin DOMAIN task
    /\ task' = Insert(task, t,
                  [flow |-> flow, pc |-> pc, user |-> u, service |-> v, day |-> d,
                   dates |-> << >>, listed |-> {}, pick |-> b, left |-> << >>, began |-> 0,
                   told |-> {}, steady |-> IF pc = "service" THEN FreeSlots ELSE {},
                   ever |-> IF pc = "service" THEN FreeSlots ELSE {}])

(* A callback arrives, from a keyboard that may have been on the screen    *)
(* for any time.  parse_callback_int turns a malformed one into a polite   *)
(* refusal; int() in select_date raises, and nobody is answered.           *)
Callback(t) ==
    /\ t \in mix.tasks
    /\ \E u \in mix.users, v \in Services :
          \/ "services" \in mix.kinds /\ Begin(t, "services", "services", u, v, 1, 0)
          \/ "service" \in mix.kinds  /\ \E pc \in {"service", "refuse"} :
                                              Begin(t, "service", pc, u, v, 1, 0)
          \/ "date" \in mix.kinds     /\ \E d \in 1..DaysAhead : Begin(t, "date", "times", u, v, d, 0)
          \/ "my" \in mix.kinds       /\ Begin(t, "my", "bookings", u, v, 1, 0)
          \/ "my" \in mix.kinds       /\ \E b \in menu[u] : Begin(t, "cancel", "cancel", u, v, 1, b)
    /\ UNCHANGED <<storeVars, active, alertVars, menu, crashes>>
-------------------------------------------------------------------------------
(* list_services.  The check of the window and the note of the alert run   *)
(* without an await between them.                                          *)
AlertDue == Owners # << >> /\ clock - alerted_at >= Window

NotedNever(t)   == alerted_at
NotedAtStart(t) == clock

ListServices(t) ==
    /\ At(t, "services")
    /\ active # {}
    /\ Goto(t, "show")
    /\ UNCHANGED <<storeVars, active, alertVars, menu, crashes>>

AlertOwners(t) ==
    /\ At(t, "services")
    /\ active = {}
    /\ AlertDue
    /\ alerted_at' = NotedAtStart(t)
    /\ task' = [task EXCEPT ![t] = [@ EXCEPT !.pc = "notify", !.left = Owners,
                                             !.began = clock]]
    /\ UNCHANGED <<storeVars, active, blocked, clock, mix, menu, crashes>>

AlertedAlready(t) ==
    /\ At(t, "services")
    /\ active = {}
    /\ ~AlertDue
    /\ Goto(t, "refuse")
    /\ UNCHANGED <<storeVars, active, alertVars, menu, crashes>>

(* _notify_empty_catalog: one owner after the other; a failure is logged.  *)
AfterNotice(t, told) ==
    task' = [task EXCEPT ![t] = [@ EXCEPT
                !.left = Tail(task[t].left), !.told = task[t].told \cup told,
                !.pc = IF Len(task[t].left) = 1 THEN "refuse" ELSE "notify"]]

AfterNoticeFailureRaised(t) == End(t)
AfterNoticeFailureStops(t)  == Goto(t, "refuse")
AfterNoticeFailure(t)       == AfterNotice(t, {})

Notify(t) ==
    /\ At(t, "notify")
    /\ IF Head(task[t].left) \in blocked
       THEN AfterNoticeFailure(t)
       ELSE AfterNotice(t, {Head(task[t].left)})
    /\ UNCHANGED <<storeVars, active, alertVars, menu, crashes>>
-------------------------------------------------------------------------------
(* get_available_dates: get_service, whether it is active or not, then one *)
(* session per day; a day of the week without hours is passed over.        *)
GetService(t) ==
    /\ At(t, "service")
    /\ Goto(t, IF DaysAhead = 0 THEN "refuse" ELSE "day")
    /\ UNCHANGED <<storeVars, active, alertVars, menu, crashes>>

FreeOn(v, d) == {s \in FreeSlots : ServiceOf[s] = v /\ DayOf[s] = d}

LastDayLate == DaysAhead + 1
LastDay == DaysAhead

AfterDayOffEnds(t) == LastDay
AfterDayOff(t)     == task[t].day

ScanDay(t) ==
    /\ At(t, "day")
    /\ LET works == (task[t].day % Week) \in WorkingDays
           found == IF works /\ FreeOn(task[t].service, task[t].day) # {}
                    THEN Append(task[t].dates, task[t].day) ELSE task[t].dates
           last  == IF works THEN task[t].day ELSE AfterDayOff(t)
       IN  task' = [task EXCEPT ![t] = [@ EXCEPT !.dates = found, !.day = last + 1,
                       !.pc = IF last < LastDay THEN "day"
                              ELSE IF found = << >> THEN "refuse" ELSE "show"]]
    /\ UNCHANGED <<storeVars, active, alertVars, menu, crashes>>

(* The dates the customer is shown: dates[:10]. *)
Keyboard(t) == SubSeq(task[t].dates, 1, IF Len(task[t].dates) < MaxButtons
                                        THEN Len(task[t].dates) ELSE MaxButtons)

(* select_date. *)
GetFreeSlots(t) ==
    /\ At(t, "times")
    /\ \/ End(t)                        \* int() raises
       \/ Goto(t, IF FreeOn(task[t].service, task[t].day) = {} THEN "refuse" ELSE "show")
    /\ UNCHANGED <<storeVars, active, alertVars, menu, crashes>>

(* my_bookings: what the customer may still cancel. *)
ListedAll(u) == {b \in DOMAIN bookings : bookings[b].status \in Active}
Listed(u) == {b \in BookingsOf(u) : bookings[b].status \in Active}

GetBookings(t) ==
    /\ At(t, "bookings")
    /\ task' = [task EXCEPT ![t] = [@ EXCEPT !.pc = "show", !.listed = Listed(task[t].user)]]
    /\ UNCHANGED <<storeVars, active, alertVars, menu, crashes>>

(* edit_text shows the menu, and the callback is answered; when edit_text  *)
(* fails, whether or not Telegram showed the menu, the handler ends there, *)
(* and no middleware runs it again.                                        *)
Listing(t) == IF task[t].flow = "my"
              THEN [menu EXCEPT ![task[t].user] = task[t].listed] ELSE menu

Show(t) ==
    /\ At(t, "show")
    /\ menu' = Listing(t)
    /\ Goto(t, "answer")
    /\ UNCHANGED <<storeVars, active, alertVars, crashes>>

ShowFails(t) ==
    /\ At(t, "show")
    /\ menu' \in {menu, Listing(t)}
    /\ End(t)
    /\ UNCHANGED <<storeVars, active, alertVars, crashes>>

Answer(t) ==
    /\ At(t, "answer") \/ At(t, "refuse")
    /\ End(t)
    /\ UNCHANGED <<storeVars, active, alertVars, menu, crashes>>
-------------------------------------------------------------------------------
(* Menus being made while the slots change hands. *)
Seen(t)    == task[t].pc \in {"service", "day"}
Watched(t) ==
    IF Seen(t)
    THEN LET free == {s \in Slots : ~is_booked'[s]}
         IN  [task[t] EXCEPT !.steady = @ \cap free, !.ever = @ \cup free]
    ELSE task[t]

(* cancel: the transaction, then the answer that it succeeded or not. *)
CancelListed(t) ==
    /\ At(t, "cancel")
    /\ CancelBooking(task[t].pick, task[t].user)
    /\ task' = [s \in DOMAIN task |->
                   IF s = t THEN [task[t] EXCEPT !.pc = "answer"] ELSE Watched(s)]
    /\ UNCHANGED <<active, alertVars, menu, crashes>>

CancelRefused(t) ==
    /\ At(t, "cancel")
    /\ ~Cancellable(task[t].pick, task[t].user)
    /\ Goto(t, "refuse")
    /\ UNCHANGED <<storeVars, active, alertVars, menu, crashes>>

(* The other handlers of the bot, by their transactions. *)
Others ==
    /\ mix.kinds # {"services"}
    /\ \E u \in mix.users :
          \/ \E s \in Slots : BookSlot(u, s)
          \/ \E b \in BookingsOf(u) : CancelBooking(b, u)
          \/ \E b \in BookingsOf(u) : MarkBookingPaid(b)
          \/ DeleteUserData(u)
    /\ task' = [t \in DOMAIN task |-> Watched(t)]
    /\ UNCHANGED <<active, alertVars, menu, crashes>>

(* The operator edits the catalogue by hand: no code of the bot does. *)
EditCatalogue ==
    /\ "services" \in mix.kinds
    /\ active' \in SUBSET Services
    /\ active' # active
    /\ UNCHANGED <<storeVars, alertVars, task, menu, crashes>>

Tick ==
    /\ "services" \in mix.kinds
    /\ clock < MaxTime
    /\ clock' = clock + 1
    /\ UNCHANGED <<storeVars, active, blocked, alerted_at, mix, task, menu, crashes>>

(* The process dies: the menus and the time of the last alert are gone. *)
Crash ==
    /\ crashes < MaxCrashes
    /\ crashes' = crashes + 1
    /\ alerted_at' = 0
    /\ task' = << >>
    /\ UNCHANGED <<storeVars, active, blocked, clock, mix, menu>>

TaskStep(t) ==
    \/ ListServices(t) \/ AlertOwners(t) \/ AlertedAlready(t) \/ Notify(t)
    \/ GetService(t) \/ ScanDay(t) \/ GetFreeSlots(t) \/ GetBookings(t)
    \/ CancelListed(t) \/ CancelRefused(t)
    \/ Show(t) \/ ShowFails(t) \/ Answer(t)

CatalogueNext ==
    \/ \E t \in Tasks : Callback(t) \/ TaskStep(t)
    \/ Others \/ EditCatalogue \/ Tick \/ Crash

CatalogueSpec == CatalogueInit /\ [][CatalogueNext]_catalogueVars

(* asyncio runs every ready handler; time and customers may stop. *)
FairCatalogueSpec == CatalogueSpec /\ \A t \in Tasks : WF_catalogueVars(TaskStep(t))
-------------------------------------------------------------------------------
(* Handlers, menus and the alert hold values of their types. *)
CatalogueTypeOK ==
    /\ TypeOK
    /\ active \subseteq Services
    /\ blocked \subseteq Range(Owners)
    /\ clock \in Window..MaxTime
    /\ alerted_at \in 0..clock
    /\ DOMAIN task \subseteq Tasks
    /\ task \in [DOMAIN task -> Task]
    /\ mix \in Mixes
    /\ menu \in [Users -> SUBSET (1..MaxBookings)]
    /\ crashes \in 0..MaxCrashes

(* The list of dates is put together from one query per day while slots are*)
(* booked and given back.  It is still right for the handler's duration: a *)
(* date it names had a free slot of the service at some time in it, and a  *)
(* date with a slot that stayed free all along is on the keyboard, unless  *)
(* earlier dates fill it.                                                  *)
ShownDates(t) == Range(Keyboard(t))
SteadyDates(t) ==
    {d \in 1..DaysAhead : /\ (d % Week) \in WorkingDays
                          /\ \E s \in task[t].steady : ServiceOf[s] = task[t].service
                                                       /\ DayOf[s] = d}
DatesAreHonest ==
    \A t \in DOMAIN task :
        task[t].flow = "service" /\ task[t].day > 1 /\ task[t].pc \in {"show", "refuse"} =>
            /\ \A d \in ShownDates(t) :
                  \E s \in task[t].ever : ServiceOf[s] = task[t].service /\ DayOf[s] = d
            /\ \A d \in SteadyDates(t) :
                  \/ d \in ShownDates(t)
                  \/ Cardinality({e \in ShownDates(t) : e < d}) = MaxButtons

(* A cancel button left on a customer's screen names a booking of that     *)
(* customer or none at all, whatever was deleted and booked since.         *)
ButtonsAreOwn ==
    \A u \in Users : \A b \in menu[u] \cap DOMAIN bookings : bookings[b].client_user_id = u

(* "The second customer in a row does not cause a second notification      *)
(* within the window" (handlers.py, on the storm guard).  Compared are the *)
(* rounds of one process that are under way together, where the awaits of  *)
(* one leave room for the other: they began a window apart.  Of two rounds *)
(* one after the other it says nothing.                                    *)
StormGuard ==
    \A t, s \in DOMAIN task :
        t # s /\ At(t, "notify") /\ At(s, "notify") =>
            \/ task[t].began - task[s].began >= Window
            \/ task[s].began - task[t].began >= Window

(* A round tells every owner that can be told, though others cannot. *)
RoundReachesOwners ==
    \A t \in DOMAIN task :
        At(t, "refuse") /\ task[t].began > 0 => Range(Owners) \ blocked \subseteq task[t].told

(* "The refusal to the customer must not be lost for it" (handlers.py, on  *)
(* the notification): whatever becomes of the messages to the owners, the  *)
(* customer is answered.                                                   *)
EmptyCatalogueAnswered ==
    \A t \in Tasks, c \in 0..MaxCrashes :
        (At(t, "notify") /\ crashes = c) ~> (At(t, "refuse") \/ crashes # c)
===============================================================================
