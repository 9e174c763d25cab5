---------------------------- MODULE CatalogueProofs ----------------------------
(***************************************************************************)
(* What holds of Catalogue for every number of customers, slots, owners    *)
(* and menus being made at once, and every week and window.                *)
(***************************************************************************)
EXTENDS Catalogue, BookingStoreProofs, FiniteSetTheorems, SequenceTheorems

(* What a handler holds at its awaits, with the bookings given out so far  *)
(* and the time of the last alert.                                         *)
RecOK(x, seq, noted) ==
    /\ x \in Task
    /\ x.pc = "service" => x.day = 1
    /\ x.pc = "day" => x.day <= DaysAhead
    /\ x.pc = "notify" => x.left # << >> /\ x.began <= noted
    /\ x.listed \subseteq 1..seq

TasksOK ==
    /\ DOMAIN task \subseteq Tasks
    /\ task = [t \in DOMAIN task |-> task[t]]
    /\ \A t \in DOMAIN task : RecOK(task[t], bookingSeq, alerted_at)

MenuOK == menu \in [Users -> SUBSET (1..bookingSeq)]

RestOK ==
    /\ active \subseteq Services
    /\ blocked \subseteq Range(Owners)
    /\ clock \in Window..MaxTime
    /\ alerted_at \in 0..clock
    /\ mix \in Mixes
    /\ crashes \in 0..MaxCrashes

(* The bookings a handler has read, and is about to show, are its user's.  *)
ListsAreOwn ==
    \A t \in DOMAIN task : \A b \in task[t].listed \cap DOMAIN bookings :
        bookings[b].client_user_id = task[t].user

KInv == TypeOK /\ TasksOK /\ MenuOK /\ RestOK
CInv == KInv /\ ListsAreOwn /\ ButtonsAreOwn /\ StormGuard
-------------------------------------------------------------------------------
LEMMA KInvTyped == KInv => CatalogueTypeOK
<1> SUFFICES ASSUME KInv PROVE CatalogueTypeOK
    OBVIOUS
<1>1. 1..bookingSeq \subseteq 1..MaxBookings
    BY StoreAssumption DEF KInv, TypeOK
<1>2. menu \in [Users -> SUBSET (1..MaxBookings)]
    BY <1>1 DEF KInv, MenuOK
<1>3. task \in [DOMAIN task -> Task]
    BY DEF KInv, TasksOK, RecOK
<1> QED
    BY <1>2, <1>3 DEF KInv, TasksOK, RestOK, CatalogueTypeOK

LEMMA CInit == CatalogueInit => CInv
<1> SUFFICES ASSUME CatalogueInit PROVE CInv
    OBVIOUS
<1>1. TypeOK /\ bookings = << >> /\ bookingSeq = 0
    BY InitIInv DEF CatalogueInit, Init, IInv
<1>2. task = << >> /\ DOMAIN task = {} /\ menu = [u \in Users |-> {}]
    BY DEF CatalogueInit
<1>3. TasksOK /\ ListsAreOwn /\ StormGuard
    BY <1>2 DEF TasksOK, ListsAreOwn, StormGuard
<1>4. MenuOK /\ ButtonsAreOwn
    BY <1>2 DEF MenuOK, ButtonsAreOwn
<1>5. RestOK
  <2>1. Window \in Window..MaxTime /\ 0 \in 0..Window /\ 0 \in 0..MaxCrashes
      BY CatalogueAssumption
  <2> QED
      BY <2>1 DEF CatalogueInit, RestOK
<1> QED
    BY <1>1, <1>3, <1>4, <1>5 DEF CInv, KInv
-------------------------------------------------------------------------------
(* A handler whose locals a step leaves alone, but for the history it is   *)
(* watched with.                                                           *)
Alike(x, y) ==
    /\ x \in Task => y \in Task
    /\ y.pc = x.pc /\ y.day = x.day /\ y.left = x.left /\ y.began = x.began
    /\ y.listed = x.listed /\ y.user = x.user /\ y.told = x.told

(* A step that gives one handler a new record, and leaves the others.      *)
OneGets(t, x) ==
    /\ DOMAIN task' = DOMAIN task \cup {t}
    /\ task' = [o \in DOMAIN task' |-> task'[o]]
    /\ task'[t] = x
    /\ \A o \in DOMAIN task : o # t => Alike(task[o], task'[o])

(* ... or takes some away. *)
SomeEnd ==
    /\ DOMAIN task' \subseteq DOMAIN task
    /\ task' = [o \in DOMAIN task' |-> task'[o]]
    /\ \A o \in DOMAIN task' : Alike(task[o], task'[o])

LEMMA AlikeSelf == ASSUME NEW x PROVE Alike(x, x)
    BY DEF Alike

LEMMA EndEnds == ASSUME NEW t, End(t) PROVE SomeEnd
<1>1. /\ DOMAIN task' \subseteq DOMAIN task
      /\ task' = [o \in DOMAIN task' |-> task'[o]]
      /\ \A o \in DOMAIN task' : task'[o] = task[o]
    BY DEF End, Delete, Restrict
<1> QED
    BY <1>1, AlikeSelf DEF SomeEnd

LEMMA RecKept ==
    ASSUME NEW x, NEW y, Alike(x, y),
           NEW seq \in Nat, NEW seq2 \in Nat, seq <= seq2,
           NEW noted \in Nat, NEW noted2 \in Nat, noted <= noted2,
           RecOK(x, seq, noted)
    PROVE  RecOK(y, seq2, noted2)
<1>1. 1..seq \subseteq 1..seq2
    OBVIOUS
<1>2. x.began \in Nat
    BY DEF RecOK, Task
<1>3. x.began <= noted => x.began <= noted2
    BY <1>2
<1> QED
    BY <1>1, <1>3, Zenon DEF RecOK, Alike

(* The counters of the invariant, before and after a step.                 *)
Counters ==
    /\ bookingSeq \in Nat /\ bookingSeq' \in Nat /\ bookingSeq <= bookingSeq'
    /\ alerted_at \in Nat /\ alerted_at' \in Nat /\ alerted_at <= alerted_at'

LEMMA TasksOneGets ==
    ASSUME TasksOK, Counters, NEW t \in Tasks, NEW x, OneGets(t, x),
           RecOK(x, bookingSeq', alerted_at')
    PROVE  TasksOK'
<1>1. ASSUME NEW o \in DOMAIN task' PROVE RecOK(task'[o], bookingSeq', alerted_at')
  <2>1. CASE o = t
      BY <2>1 DEF OneGets
  <2>2. CASE o # t
    <3>1. /\ o \in DOMAIN task /\ Alike(task[o], task'[o])
          /\ RecOK(task[o], bookingSeq, alerted_at)
        BY <2>2 DEF OneGets, TasksOK
    <3> QED
        BY <3>1, RecKept DEF Counters
  <2> QED
      BY <2>1, <2>2
<1> QED
    BY <1>1 DEF TasksOK, OneGets

LEMMA TasksSomeEnd ==
    ASSUME TasksOK, Counters, SomeEnd
    PROVE  TasksOK'
<1>1. ASSUME NEW o \in DOMAIN task' PROVE RecOK(task'[o], bookingSeq', alerted_at')
  <2>1. o \in DOMAIN task /\ Alike(task[o], task'[o]) /\ RecOK(task[o], bookingSeq, alerted_at)
      BY DEF SomeEnd, TasksOK
  <2> QED
      BY <2>1, RecKept DEF Counters
<1> QED
    BY <1>1 DEF TasksOK, SomeEnd
-------------------------------------------------------------------------------
(* The ids on the lists and on the buttons were given out before the step, *)
(* so the rows found under them after it are the same customer's.          *)
OwnIds(listed, u) == \A b \in listed \cap DOMAIN bookings : bookings[b].client_user_id = u

LEMMA OwnKept ==
    ASSUME TypeOK, TypeOK', [Next]_storeVars, NEW u,
           NEW listed \in SUBSET (1..bookingSeq), OwnIds(listed, u)
    PROVE  \A b \in listed \cap DOMAIN bookings' : bookings'[b].client_user_id = u
<1> SUFFICES ASSUME NEW b \in listed, b \in DOMAIN bookings'
             PROVE  bookings'[b].client_user_id = u
    OBVIOUS
<1>1. b <= bookingSeq
    BY DEF TypeOK
<1>2. b \in DOMAIN bookings /\ bookings'[b].client_user_id = bookings[b].client_user_id
    BY <1>1, OldIds
<1> QED
    BY <1>2 DEF OwnIds

LEMMA MenuKept ==
    ASSUME TypeOK, TypeOK', [Next]_storeVars, Counters, MenuOK, ButtonsAreOwn, menu' = menu
    PROVE  MenuOK' /\ ButtonsAreOwn'
<1>1. 1..bookingSeq \subseteq 1..bookingSeq'
    BY DEF Counters
<1>2. MenuOK'
    BY <1>1 DEF MenuOK
<1>3. ASSUME NEW u \in Users
      PROVE  \A b \in menu[u] \cap DOMAIN bookings' : bookings'[b].client_user_id = u
  <2>1. menu[u] \in SUBSET (1..bookingSeq) /\ OwnIds(menu[u], u)
      BY DEF MenuOK, ButtonsAreOwn, OwnIds
  <2> QED
      BY <2>1, OwnKept
<1> QED
    BY <1>2, <1>3 DEF ButtonsAreOwn

LEMMA ListsOneGets ==
    ASSUME TypeOK, TypeOK', [Next]_storeVars, TasksOK, ListsAreOwn, NEW t, NEW x, OneGets(t, x),
           \A b \in x.listed \cap DOMAIN bookings' : bookings'[b].client_user_id = x.user
    PROVE  ListsAreOwn'
<1>1. ASSUME NEW o \in DOMAIN task', o # t
      PROVE  \A b \in task'[o].listed \cap DOMAIN bookings' :
                 bookings'[b].client_user_id = task'[o].user
  <2>1. o \in DOMAIN task /\ Alike(task[o], task'[o]) /\ RecOK(task[o], bookingSeq, alerted_at)
      BY <1>1 DEF OneGets, TasksOK
  <2>2. task[o].listed \in SUBSET (1..bookingSeq) /\ OwnIds(task[o].listed, task[o].user)
      BY <2>1 DEF RecOK, ListsAreOwn, OwnIds
  <2>3. \A b \in task[o].listed \cap DOMAIN bookings' :
            bookings'[b].client_user_id = task[o].user
      BY <2>2, OwnKept
  <2> QED
      BY <2>1, <2>3 DEF Alike
<1> QED
    BY <1>1 DEF ListsAreOwn, OneGets

LEMMA ListsSomeEnd ==
    ASSUME TypeOK, TypeOK', [Next]_storeVars, TasksOK, ListsAreOwn, SomeEnd
    PROVE  ListsAreOwn'
<1>1. ASSUME NEW o \in DOMAIN task'
      PROVE  \A b \in task'[o].listed \cap DOMAIN bookings' :
                 bookings'[b].client_user_id = task'[o].user
  <2>1. o \in DOMAIN task /\ Alike(task[o], task'[o]) /\ RecOK(task[o], bookingSeq, alerted_at)
      BY DEF SomeEnd, TasksOK
  <2>2. task[o].listed \in SUBSET (1..bookingSeq) /\ OwnIds(task[o].listed, task[o].user)
      BY <2>1 DEF RecOK, ListsAreOwn, OwnIds
  <2>3. \A b \in task[o].listed \cap DOMAIN bookings' :
            bookings'[b].client_user_id = task[o].user
      BY <2>2, OwnKept
  <2> QED
      BY <2>1, <2>3 DEF Alike
<1> QED
    BY <1>1 DEF ListsAreOwn
-------------------------------------------------------------------------------
(* Rounds: a step that begins none keeps them a window apart, and the one  *)
(* that begins a round does so a window after the last was noted.          *)
Apart(x, y) == x.began - y.began >= Window \/ y.began - x.began >= Window

LEMMA RoundsOneGets ==
    ASSUME StormGuard, NEW t, NEW x, OneGets(t, x),
           x.pc = "notify" => \A o \in DOMAIN task :
               o # t /\ task[o].pc = "notify" => Apart(x, task[o])
    PROVE  StormGuard'
<1> SUFFICES ASSUME NEW a \in DOMAIN task', NEW b \in DOMAIN task', a # b,
                    task'[a].pc = "notify", task'[b].pc = "notify"
             PROVE  Apart(task'[a], task'[b])
    BY DEF StormGuard, At, Apart
<1>1. CASE a = t
  <2>1. b \in DOMAIN task /\ task[b].pc = "notify" /\ task'[b].began = task[b].began
      BY <1>1 DEF OneGets, Alike
  <2>2. Apart(x, task[b]) /\ task'[a] = x
      BY <1>1, <2>1 DEF OneGets
  <2> QED
      BY <2>1, <2>2 DEF Apart
<1>2. CASE b = t
  <2>1. a \in DOMAIN task /\ task[a].pc = "notify" /\ task'[a].began = task[a].began
      BY <1>2 DEF OneGets, Alike
  <2>2. Apart(x, task[a]) /\ task'[b] = x
      BY <1>2, <2>1 DEF OneGets
  <2> QED
      BY <2>1, <2>2 DEF Apart
<1>3. CASE a # t /\ b # t
  <2>1. /\ a \in DOMAIN task /\ task[a].pc = "notify" /\ task'[a].began = task[a].began
        /\ b \in DOMAIN task /\ task[b].pc = "notify" /\ task'[b].began = task[b].began
      BY <1>3 DEF OneGets, Alike
  <2>2. Apart(task[a], task[b])
      BY <2>1 DEF StormGuard, At, Apart
  <2> QED
      BY <2>1, <2>2 DEF Apart
<1> QED
    BY <1>1, <1>2, <1>3

LEMMA RoundsSomeEnd ==
    ASSUME StormGuard, SomeEnd
    PROVE  StormGuard'
<1> SUFFICES ASSUME NEW a \in DOMAIN task', NEW b \in DOMAIN task', a # b,
                    task'[a].pc = "notify", task'[b].pc = "notify"
             PROVE  Apart(task'[a], task'[b])
    BY DEF StormGuard, At, Apart
<1>1. /\ a \in DOMAIN task /\ task[a].pc = "notify" /\ task'[a].began = task[a].began
      /\ b \in DOMAIN task /\ task[b].pc = "notify" /\ task'[b].began = task[b].began
    BY DEF SomeEnd, Alike
<1>2. Apart(task[a], task[b])
    BY <1>1 DEF StormGuard, At, Apart
<1> QED
    BY <1>1, <1>2 DEF Apart
-------------------------------------------------------------------------------
(* What a step that is not a crash does to the handlers. *)
Kept == TasksOK' /\ ListsAreOwn' /\ StormGuard'
Around == CInv /\ TypeOK' /\ [Next]_storeVars /\ Counters

(* A handler goes on, with the user and the list it had, and begins no     *)
(* round.                                                                  *)
LEMMA Moves ==
    ASSUME Around, NEW t \in Tasks, t \in DOMAIN task, NEW x, OneGets(t, x),
           RecOK(x, bookingSeq', alerted_at'),
           x.user = task[t].user, x.listed = task[t].listed,
           x.pc = "notify" => task[t].pc = "notify" /\ x.began = task[t].began
    PROVE  Kept
<1>0. TypeOK /\ TasksOK /\ ListsAreOwn /\ StormGuard /\ TypeOK' /\ [Next]_storeVars /\ Counters
    BY DEF Around, CInv, KInv
<1>1. TasksOK'
    BY <1>0, TasksOneGets
<1>2. ListsAreOwn'
  <2>1. task[t].listed \in SUBSET (1..bookingSeq) /\ OwnIds(task[t].listed, task[t].user)
      BY <1>0 DEF TasksOK, RecOK, ListsAreOwn, OwnIds
  <2>2. \A b \in task[t].listed \cap DOMAIN bookings' :
            bookings'[b].client_user_id = task[t].user
      BY <1>0, <2>1, OwnKept
  <2> QED
      BY <1>0, <2>2, ListsOneGets
<1>3. StormGuard'
  <2>1. x.pc = "notify" => \A o \in DOMAIN task :
            o # t /\ task[o].pc = "notify" => Apart(x, task[o])
      BY <1>0 DEF StormGuard, At, Apart
  <2> QED
      BY <1>0, <2>1, RoundsOneGets
<1> QED
    BY <1>1, <1>2, <1>3 DEF Kept

LEMMA Ends ==
    ASSUME Around, SomeEnd
    PROVE  Kept
    BY TasksSomeEnd, ListsSomeEnd, RoundsSomeEnd DEF Around, CInv, KInv, Kept

LEMMA Stays ==
    ASSUME Around, task' = task
    PROVE  Kept
<1>1. SomeEnd
    BY AlikeSelf DEF SomeEnd, Around, CInv, KInv, TasksOK
<1> QED
    BY <1>1, Ends

(* The record of one handler replaced. *)
LEMMA Replaces ==
    ASSUME Around, NEW t \in DOMAIN task, NEW x, task' = [task EXCEPT ![t] = x]
    PROVE  OneGets(t, x)
<1>1. /\ DOMAIN task' = DOMAIN task \cup {t}
      /\ task' = [o \in DOMAIN task' |-> task'[o]]
      /\ task'[t] = x
      /\ \A o \in DOMAIN task : o # t => task'[o] = task[o]
    BY DEF Around, CInv, KInv, TasksOK
<1> QED
    BY <1>1, AlikeSelf DEF OneGets

LEMMA Goes ==
    ASSUME Around, NEW t \in Tasks, t \in DOMAIN task,
           NEW pc \in Pcs \ {"service", "notify"},
           pc = "day" => task[t].day <= DaysAhead, Goto(t, pc)
    PROVE  Kept
<1> DEFINE x == [task[t] EXCEPT !.pc = pc]
<1>0. RecOK(task[t], bookingSeq, alerted_at) /\ Counters
    BY DEF Around, CInv, KInv, TasksOK
<1>1. task' = [task EXCEPT ![t] = x]
    BY DEF Goto
<1>2. OneGets(t, x)
    BY <1>1, Replaces
<1>3. /\ x \in Task /\ x.pc = pc /\ x.user = task[t].user /\ x.day = task[t].day
      /\ x.listed = task[t].listed
    BY <1>0 DEF RecOK, Task
<1>4. 1..bookingSeq \subseteq 1..bookingSeq'
    BY <1>0 DEF Counters
<1>5. RecOK(x, bookingSeq', alerted_at')
    BY <1>0, <1>3, <1>4, Zenon DEF RecOK
<1> QED
    BY <1>2, <1>3, <1>5, Moves, Zenon
-------------------------------------------------------------------------------
(* The handlers, one by one. *)
LEMMA CallbackKeeps ==
    ASSUME Around, NEW t \in Tasks, Callback(t)
    PROVE  Kept
<1>0. TypeOK /\ TasksOK /\ ListsAreOwn /\ StormGuard /\ TypeOK' /\ [Next]_storeVars /\ Counters
    BY DEF Around, CInv, KInv
<1>1. ASSUME NEW flow \in Flows, NEW pc \in Pcs \ {"day", "notify"}, NEW u \in Users,
             NEW v \in Services, NEW d \in 1..(DaysAhead + 1), NEW b \in 0..MaxBookings,
             pc = "service" => d = 1, Begin(t, flow, pc, u, v, d, b)
      PROVE  Kept
  <2> DEFINE free == IF pc = "service" THEN FreeSlots ELSE {}
             x == [flow |-> flow, pc |-> pc, user |-> u, service |-> v, day |-> d,
                   dates |-> << >>, listed |-> {}, pick |-> b, left |-> << >>, began |-> 0,
                   told |-> {}, steady |-> free, ever |-> free]
  <2>1. t \notin DOMAIN task /\ task' = Insert(task, t, x)
      BY <1>1 DEF Begin
  <2>2. /\ DOMAIN task' = DOMAIN task \cup {t}
        /\ task' = [o \in DOMAIN task' |-> task'[o]]
        /\ task'[t] = x
        /\ \A o \in DOMAIN task : o # t => task'[o] = task[o]
      BY <2>1 DEF Insert
  <2>3. OneGets(t, x)
      BY <2>2, AlikeSelf DEF OneGets
  <2>4. << >> \in Seq(1..DaysAhead) /\ << >> \in Seq(Range(Owners)) /\ 0 \in Nat
      OBVIOUS
  <2>5. free \in SUBSET Slots
      BY DEF FreeSlots
  <2>6. x \in Task
      BY <2>4, <2>5 DEF Task
  <2>7. x.pc = pc /\ x.day = d /\ x.listed = {}
      OBVIOUS
  <2>8. RecOK(x, bookingSeq', alerted_at')
      BY <1>1, <2>6, <2>7, Zenon DEF RecOK
  <2>9. TasksOK'
      BY <1>0, <2>3, <2>8, TasksOneGets
  <2>10. ListsAreOwn'
      BY <1>0, <2>3, <2>7, ListsOneGets
  <2>11. StormGuard'
      BY <1>0, <2>3, <2>7, RoundsOneGets
  <2> QED
      BY <2>9, <2>10, <2>11 DEF Kept
<1>2. mix.users \subseteq Users
    BY CatalogueAssumption DEF Around, CInv, KInv, RestOK
<1>3. DaysAhead \in Nat /\ 0 \in 0..MaxBookings /\ 1 \in 1..(DaysAhead + 1)
      /\ 1..DaysAhead \subseteq 1..(DaysAhead + 1)
    BY CatalogueAssumption, StoreAssumption
<1>4. \A u \in Users : \A b \in menu[u] : b \in 0..MaxBookings
    BY StoreAssumption DEF Around, CInv, KInv, MenuOK, TypeOK
<1>5. {"services", "service", "date", "my", "cancel"} \subseteq Flows
      /\ {"services", "service", "refuse", "times", "bookings", "cancel"} \subseteq Pcs \ {"day", "notify"}
    BY DEF Flows, Pcs
<1>6. PICK u \in Users, v \in Services :
          \/ Begin(t, "services", "services", u, v, 1, 0)
          \/ \E pc \in {"service", "refuse"} : Begin(t, "service", pc, u, v, 1, 0)
          \/ \E d \in 1..DaysAhead : Begin(t, "date", "times", u, v, d, 0)
          \/ Begin(t, "my", "bookings", u, v, 1, 0)
          \/ \E b \in menu[u] : Begin(t, "cancel", "cancel", u, v, 1, b)
    BY <1>2 DEF Callback
<1>7. CASE Begin(t, "services", "services", u, v, 1, 0)
    BY <1>1, <1>3, <1>5, <1>7
<1>8. ASSUME NEW pc \in {"service", "refuse"}, Begin(t, "service", pc, u, v, 1, 0) PROVE Kept
    BY <1>1, <1>3, <1>5, <1>8
<1>9. ASSUME NEW d \in 1..DaysAhead, Begin(t, "date", "times", u, v, d, 0) PROVE Kept
    BY <1>1, <1>3, <1>5, <1>9
<1>10. CASE Begin(t, "my", "bookings", u, v, 1, 0)
    BY <1>1, <1>3, <1>5, <1>10
<1>11. ASSUME NEW b \in menu[u], Begin(t, "cancel", "cancel", u, v, 1, b) PROVE Kept
    BY <1>1, <1>3, <1>4, <1>5, <1>11
<1> QED
    BY <1>6, <1>7, <1>8, <1>9, <1>10, <1>11

(* list_services begins a round only a window after the last was noted. *)
LEMMA AlertKeeps ==
    ASSUME Around, NEW t \in Tasks, AlertOwners(t)
    PROVE  Kept
<1> DEFINE x == [task[t] EXCEPT !.pc = "notify", !.left = Owners, !.began = clock]
<1>0. /\ TypeOK /\ TasksOK /\ ListsAreOwn /\ StormGuard /\ TypeOK' /\ [Next]_storeVars
      /\ Counters /\ RestOK
    BY DEF Around, CInv, KInv
<1>1. t \in DOMAIN task /\ RecOK(task[t], bookingSeq, alerted_at) /\ task[t].pc = "services"
    BY <1>0 DEF AlertOwners, At, TasksOK
<1>2. task' = [task EXCEPT ![t] = x]
    BY DEF AlertOwners
<1>3. OneGets(t, x)
    BY <1>1, <1>2, Replaces
<1>4. alerted_at' = clock /\ Owners # << >> /\ clock - alerted_at >= Window
    BY DEF AlertOwners, NotedAtStart, AlertDue
<1>5. clock \in Nat /\ alerted_at \in Nat /\ Window \in Nat
    BY <1>0, CatalogueAssumption DEF RestOK
<1>6. /\ x \in Task /\ x.pc = "notify" /\ x.left = Owners /\ x.began = clock
      /\ x.listed = task[t].listed /\ x.user = task[t].user
    BY <1>1, <1>5, CatalogueAssumption DEF RecOK, Task, Pcs
<1>7. 1..bookingSeq \subseteq 1..bookingSeq'
    BY <1>0 DEF Counters
<1>8. clock <= clock
    BY <1>5
<1>9. RecOK(x, bookingSeq', clock)
    BY <1>1, <1>4, <1>6, <1>7, <1>8, Zenon DEF RecOK
<1>10. TasksOK'
    BY <1>0, <1>3, <1>4, <1>9, TasksOneGets
<1>11. ListsAreOwn'
  <2>1. task[t].listed \in SUBSET (1..bookingSeq) /\ OwnIds(task[t].listed, task[t].user)
      BY <1>0, <1>1 DEF RecOK, ListsAreOwn, OwnIds
  <2>2. \A b \in task[t].listed \cap DOMAIN bookings' :
            bookings'[b].client_user_id = task[t].user
      BY <1>0, <2>1, OwnKept
  <2>3. \A b \in x.listed \cap DOMAIN bookings' : bookings'[b].client_user_id = x.user
      BY <1>6, <2>2
  <2> QED
      BY <1>0, <1>3, <2>3, ListsOneGets
<1>12. ASSUME NEW o \in DOMAIN task, task[o].pc = "notify" PROVE Apart(x, task[o])
  <2>1. task[o].began \in Nat /\ task[o].began <= alerted_at
      BY <1>0, <1>12 DEF TasksOK, RecOK, Task
  <2>2. clock - task[o].began >= Window
      BY <1>4, <1>5, <2>1
  <2> QED
      BY <1>6, <2>2 DEF Apart
<1>13. StormGuard'
    BY <1>0, <1>3, <1>12, RoundsOneGets
<1> QED
    BY <1>10, <1>11, <1>13 DEF Kept

(* One owner less to tell, and the round goes on while any is left. *)
LEMMA NotifyKeeps ==
    ASSUME Around, NEW t \in Tasks, Notify(t)
    PROVE  Kept
<1>0. RecOK(task[t], bookingSeq, alerted_at) /\ t \in DOMAIN task /\ task[t].pc = "notify"
      /\ Counters
    BY DEF Around, CInv, KInv, TasksOK, Notify, At
<1>1. /\ task[t] \in Task /\ task[t].left \in Seq(Range(Owners)) /\ task[t].left # << >>
      /\ task[t].began \in Nat /\ task[t].began <= alerted_at
    BY <1>0 DEF RecOK, Task
<1>2. PICK told \in SUBSET Range(Owners) : AfterNotice(t, told)
  <2>1. {} \in SUBSET Range(Owners) /\ {Head(task[t].left)} \in SUBSET Range(Owners)
      BY <1>1
  <2> QED
      BY <2>1 DEF Notify, AfterNoticeFailure
<1> DEFINE pc == IF Len(task[t].left) = 1 THEN "refuse" ELSE "notify"
           x == [task[t] EXCEPT !.left = Tail(task[t].left),
                                !.told = task[t].told \cup told, !.pc = pc]
<1>3. task' = [task EXCEPT ![t] = x]
    BY <1>2 DEF AfterNotice
<1>4. OneGets(t, x)
    BY <1>0, <1>3, Replaces
<1>5. Tail(task[t].left) \in Seq(Range(Owners))
      /\ (Len(task[t].left) # 1 => Tail(task[t].left) # << >>)
  <2>1. Len(Tail(task[t].left)) = Len(task[t].left) - 1 /\ Tail(task[t].left) \in Seq(Range(Owners))
      BY <1>1, HeadTailProperties
  <2>2. Len(task[t].left) \in Nat /\ Len(task[t].left) # 0
      BY <1>1, EmptySeq
  <2>3. Tail(task[t].left) = << >> => Len(Tail(task[t].left)) = 0
      BY EmptySeq
  <2> QED
      BY <2>1, <2>2, <2>3
<1>6. pc \in Pcs /\ (pc = "notify" => Len(task[t].left) # 1) /\ pc # "service" /\ pc # "day"
    BY DEF Pcs
<1>7. task[t].told \cup told \in SUBSET Range(Owners)
    BY <1>1 DEF Task
<1>8. /\ x \in Task /\ x.pc = pc /\ x.left = Tail(task[t].left) /\ x.began = task[t].began
      /\ x.listed = task[t].listed /\ x.user = task[t].user
  <2> HIDE DEF pc
  <2> QED
      BY <1>1, <1>5, <1>6, <1>7 DEF Task
<1>9. 1..bookingSeq \subseteq 1..bookingSeq' /\ task[t].began <= alerted_at'
    BY <1>0, <1>1 DEF Counters
<1> HIDE DEF pc, x
<1>10. RecOK(x, bookingSeq', alerted_at')
    BY <1>0, <1>5, <1>6, <1>8, <1>9, Zenon DEF RecOK
<1> QED
    BY <1>0, <1>4, <1>8, <1>10, Moves

(* One day of get_available_dates: there is a next one while the day is    *)
(* before the last.                                                        *)
LEMMA ScanKeeps ==
    ASSUME Around, NEW t \in Tasks, ScanDay(t)
    PROVE  Kept
<1>0. RecOK(task[t], bookingSeq, alerted_at) /\ t \in DOMAIN task /\ task[t].pc = "day"
      /\ Counters
    BY DEF Around, CInv, KInv, TasksOK, ScanDay, At
<1>1. /\ task[t] \in Task /\ task[t].day \in 1..DaysAhead /\ DaysAhead \in Nat
      /\ task[t].dates \in Seq(1..DaysAhead)
    BY <1>0, CatalogueAssumption DEF RecOK, Task
<1>2. PICK found \in Seq(1..DaysAhead), pc \in {"day", "refuse", "show"} :
          /\ task' = [task EXCEPT ![t] = [@ EXCEPT !.dates = found, !.day = task[t].day + 1,
                                                   !.pc = pc]]
          /\ pc = "day" => task[t].day < DaysAhead
  <2> DEFINE works == (task[t].day % Week) \in WorkingDays
             has   == works /\ FreeOn(task[t].service, task[t].day) # {}
             found == IF has THEN Append(task[t].dates, task[t].day) ELSE task[t].dates
             pc    == IF task[t].day < DaysAhead THEN "day"
                      ELSE IF found = << >> THEN "refuse" ELSE "show"
  <2>1. found \in Seq(1..DaysAhead)
    <3>1. Append(task[t].dates, task[t].day) \in Seq(1..DaysAhead)
        BY <1>1, AppendProperties
    <3> QED
        BY <1>1, <3>1
  <2>2. task' = [task EXCEPT ![t] = [@ EXCEPT !.dates = found, !.day = task[t].day + 1,
                                              !.pc = pc]]
      BY DEF ScanDay, AfterDayOff, LastDay
  <2>3. pc \in {"day", "refuse", "show"} /\ (pc = "day" => task[t].day < DaysAhead)
      OBVIOUS
  <2> HIDE DEF found, pc
  <2> QED
      BY <2>1, <2>2, <2>3
<1> DEFINE x == [task[t] EXCEPT !.dates = found, !.day = task[t].day + 1, !.pc = pc]
<1>3. task' = [task EXCEPT ![t] = x]
    BY <1>2
<1>4. OneGets(t, x)
    BY <1>0, <1>3, Replaces
<1>5. /\ task[t].day + 1 \in 1..(DaysAhead + 1)
      /\ pc = "day" => task[t].day + 1 <= DaysAhead
      /\ pc \in Pcs
    BY <1>1, <1>2 DEF Pcs
<1>6. /\ x \in Task /\ x.pc = pc /\ x.day = task[t].day + 1
      /\ x.listed = task[t].listed /\ x.user = task[t].user
    BY <1>1, <1>2, <1>5 DEF Task
<1>7. 1..bookingSeq \subseteq 1..bookingSeq' /\ pc # "service" /\ pc # "notify"
    BY <1>0, <1>2 DEF Counters
<1> HIDE DEF x
<1>8. RecOK(x, bookingSeq', alerted_at')
    BY <1>0, <1>5, <1>6, <1>7, Zenon DEF RecOK
<1> QED
    BY <1>0, <1>4, <1>6, <1>7, <1>8, Moves

(* The list my_bookings reads is its user's. *)
LEMMA ListKeeps ==
    ASSUME Around, NEW t \in Tasks, GetBookings(t)
    PROVE  Kept
<1>0. /\ TypeOK /\ TasksOK /\ ListsAreOwn /\ StormGuard /\ TypeOK' /\ [Next]_storeVars
      /\ Counters
    BY DEF Around, CInv, KInv
<1>1. t \in DOMAIN task /\ RecOK(task[t], bookingSeq, alerted_at) /\ task[t] \in Task
    BY <1>0 DEF GetBookings, At, TasksOK, RecOK
<1>2. bookings' = bookings /\ bookingSeq' = bookingSeq
    BY DEF GetBookings, storeVars, slotVars
<1> DEFINE listed == Listed(task[t].user)
           x == [task[t] EXCEPT !.pc = "show", !.listed = listed]
<1>3. task' = [task EXCEPT ![t] = x]
    BY DEF GetBookings
<1>4. OneGets(t, x)
    BY <1>1, <1>3, Replaces
<1>5. listed \subseteq DOMAIN bookings /\ listed \subseteq 1..bookingSeq
    BY <1>0 DEF Listed, BookingsOf, TypeOK
<1>6. \A b \in listed : bookings[b].client_user_id = task[t].user
    BY DEF Listed, BookingsOf
<1>7. listed \in SUBSET (1..MaxBookings)
    BY <1>0, <1>5, StoreAssumption DEF TypeOK
<1> HIDE DEF listed
<1>8. x \in Task /\ x.pc = "show" /\ x.listed = listed /\ x.user = task[t].user
    BY <1>1, <1>7 DEF Task, Pcs
<1> HIDE DEF x
<1>9. RecOK(x, bookingSeq', alerted_at')
    BY <1>2, <1>5, <1>8, Zenon DEF RecOK
<1>10. TasksOK'
    BY <1>0, <1>4, <1>9, TasksOneGets
<1>11. ListsAreOwn'
  <2>1. \A b \in x.listed \cap DOMAIN bookings' : bookings'[b].client_user_id = x.user
      BY <1>2, <1>6, <1>8
  <2> QED
      BY <1>0, <1>4, <2>1, ListsOneGets
<1>12. StormGuard'
    BY <1>0, <1>4, <1>8, RoundsOneGets
<1> QED
    BY <1>10, <1>11, <1>12 DEF Kept

(* A handler whose slots changed hands while it was watched. *)
LEMMA WatchedAlike ==
    ASSUME NEW s \in DOMAIN task
    PROVE  Alike(task[s], Watched(s))
<1>1. CASE ~Seen(s)
    BY <1>1, AlikeSelf DEF Watched
<1>2. CASE Seen(s)
  <2> DEFINE free == {o \in Slots : ~is_booked'[o]}
             y == [task[s] EXCEPT !.steady = task[s].steady \cap free,
                                  !.ever = task[s].ever \cup free]
  <2>1. Watched(s) = y
      BY <1>2 DEF Watched
  <2>2. ASSUME task[s] \in Task
        PROVE  y \in Task /\ y.pc = task[s].pc /\ y.day = task[s].day /\ y.left = task[s].left
               /\ y.began = task[s].began /\ y.listed = task[s].listed /\ y.user = task[s].user
               /\ y.told = task[s].told
    <3>1. task[s].steady \cap free \in SUBSET Slots /\ task[s].ever \cup free \in SUBSET Slots
        BY <2>2 DEF Task
    <3> HIDE DEF free
    <3> QED
        BY <2>2, <3>1 DEF Task
  <2>3. y.pc = task[s].pc /\ y.day = task[s].day /\ y.left = task[s].left
        /\ y.began = task[s].began /\ y.listed = task[s].listed /\ y.user = task[s].user
        /\ y.told = task[s].told
      OBVIOUS
  <2> QED
      BY <2>1, <2>2, <2>3 DEF Alike
<1> QED
    BY <1>1, <1>2

(* The transactions of the menus and of the other handlers. *)
LEMMA CancelKeeps ==
    ASSUME Around, NEW t \in Tasks, CancelListed(t)
    PROVE  Kept
<1> DEFINE x == [task[t] EXCEPT !.pc = "answer"]
<1>0. RecOK(task[t], bookingSeq, alerted_at) /\ t \in DOMAIN task /\ Counters
    BY DEF Around, CInv, KInv, TasksOK, CancelListed, At
<1>1. /\ DOMAIN task' = DOMAIN task
      /\ task' = [o \in DOMAIN task' |-> task'[o]]
      /\ task'[t] = x
      /\ \A o \in DOMAIN task : o # t => task'[o] = Watched(o)
    BY <1>0 DEF CancelListed
<1>2. OneGets(t, x)
    BY <1>0, <1>1, WatchedAlike DEF OneGets
<1>3. /\ x \in Task /\ x.pc = "answer" /\ x.user = task[t].user
      /\ x.listed = task[t].listed
    BY <1>0 DEF RecOK, Task, Pcs
<1>4. 1..bookingSeq \subseteq 1..bookingSeq'
    BY <1>0 DEF Counters
<1> HIDE DEF x
<1>5. RecOK(x, bookingSeq', alerted_at')
    BY <1>0, <1>3, <1>4, Zenon DEF RecOK
<1> QED
    BY <1>0, <1>2, <1>3, <1>5, Moves, Zenon

LEMMA OthersKeep ==
    ASSUME Around, Others
    PROVE  Kept
<1>1. /\ DOMAIN task' = DOMAIN task
      /\ task' = [o \in DOMAIN task' |-> task'[o]]
      /\ \A o \in DOMAIN task : task'[o] = Watched(o)
    BY DEF Others
<1>2. SomeEnd
    BY <1>1, WatchedAlike DEF SomeEnd
<1> QED
    BY <1>2, Ends

(* The steps of one handler. *)
LEMMA StepKeeps ==
    ASSUME Around, NEW t \in Tasks, TaskStep(t)
    PROVE  Kept
<1>0. t \in DOMAIN task => RecOK(task[t], bookingSeq, alerted_at)
    BY DEF Around, CInv, KInv, TasksOK
<1>1. CASE ListServices(t)
    BY <1>1, Goes DEF ListServices, At, Pcs
<1>2. CASE AlertedAlready(t)
    BY <1>2, Goes DEF AlertedAlready, At, Pcs
<1>3. CASE GetService(t)
  <2>1. t \in DOMAIN task /\ task[t].day = 1
      BY <1>0, <1>3 DEF GetService, At, RecOK
  <2>2. DaysAhead # 0 => task[t].day <= DaysAhead
      BY <2>1, CatalogueAssumption
  <2>3. PICK pc \in {"refuse", "day"} : Goto(t, pc) /\ (pc = "day" => DaysAhead # 0)
      BY <1>3 DEF GetService
  <2> QED
      BY <2>1, <2>2, <2>3, Goes DEF Pcs
<1>4. CASE GetFreeSlots(t)
  <2>1. CASE End(t)
      BY <2>1, EndEnds, Ends
  <2>2. CASE \E pc \in {"refuse", "show"} : Goto(t, pc)
      BY <1>4, <2>2, Goes DEF GetFreeSlots, At, Pcs
  <2> QED
      BY <1>4, <2>1, <2>2 DEF GetFreeSlots
<1>5. CASE CancelRefused(t)
    BY <1>5, Goes DEF CancelRefused, At, Pcs
<1>6. CASE Show(t)
    BY <1>6, Goes DEF Show, At, Pcs
<1>7. CASE ShowFails(t) \/ Answer(t)
    BY <1>7, EndEnds, Ends DEF ShowFails, Answer
<1> QED
    BY <1>1, <1>2, <1>3, <1>4, <1>5, <1>6, <1>7, AlertKeeps, NotifyKeeps, ScanKeeps,
       ListKeeps, CancelKeeps DEF TaskStep
-------------------------------------------------------------------------------
(* Every step is a transaction of the store, or none. *)
LEMMA CatalogueStoreStep == CInv /\ [CatalogueNext]_catalogueVars => [Next]_storeVars
<1> SUFFICES ASSUME CInv, [CatalogueNext]_catalogueVars PROVE [Next]_storeVars
    OBVIOUS
<1>0. TypeOK /\ mix.users \subseteq Users
    BY CatalogueAssumption DEF CInv, KInv, RestOK
<1>1. ASSUME NEW t \in Tasks, CancelListed(t) PROVE Next
  <2>1. task[t].pick \in DOMAIN bookings /\ task[t].user \in Users
      BY <1>1 DEF CancelListed, CancelBooking, Cancellable, At, CInv, KInv, TasksOK, RecOK, Task
  <2>2. task[t].pick \in 1..bookingSeq
      BY <1>0, <2>1 DEF TypeOK
  <2> QED
      BY <1>1, <2>1, <2>2 DEF CancelListed, Next
<1>2. CASE Others
  <2>1. \A u \in Users : BookingsOf(u) \subseteq 1..bookingSeq
      BY <1>0 DEF BookingsOf, TypeOK
  <2> QED
      BY <1>0, <1>2, <2>1 DEF Others, Next
<1>3. ASSUME NEW t \in Tasks,
             \/ Callback(t) \/ ListServices(t) \/ AlertOwners(t) \/ AlertedAlready(t)
             \/ Notify(t) \/ GetService(t) \/ ScanDay(t) \/ GetFreeSlots(t) \/ GetBookings(t)
             \/ CancelRefused(t) \/ Show(t) \/ ShowFails(t) \/ Answer(t)
      PROVE  UNCHANGED storeVars
    BY <1>3 DEF Callback, ListServices, AlertOwners, AlertedAlready, Notify, GetService, ScanDay,
                GetFreeSlots, GetBookings, CancelRefused, Show, ShowFails, Answer
<1>4. CASE EditCatalogue \/ Tick \/ Crash
    BY <1>4 DEF EditCatalogue, Tick, Crash
<1>5. CASE UNCHANGED catalogueVars
    BY <1>5 DEF catalogueVars
<1> QED
    BY <1>1, <1>2, <1>3, <1>4, <1>5 DEF CatalogueNext, TaskStep

(* The alert and the clock, at every step; only a crash forgets the alert. *)
LEMMA RestKeeps == CInv /\ [CatalogueNext]_catalogueVars =>
                       RestOK' /\ (alerted_at <= alerted_at' \/ Crash)
<1> SUFFICES ASSUME CInv, [CatalogueNext]_catalogueVars
             PROVE  RestOK' /\ (alerted_at <= alerted_at' \/ Crash)
    OBVIOUS
<1>0. RestOK /\ clock \in Nat /\ alerted_at \in Nat /\ Window \in Nat /\ MaxTime \in Nat
    BY CatalogueAssumption DEF CInv, KInv, RestOK
<1> USE <1>0
<1>1. ASSUME UNCHANGED <<active, alertVars, crashes>>
      PROVE  RestOK' /\ alerted_at <= alerted_at'
    BY <1>1 DEF RestOK, alertVars
<1>2. ASSUME NEW t \in Tasks, AlertOwners(t) PROVE RestOK' /\ alerted_at <= alerted_at'
    BY <1>2 DEF AlertOwners, NotedAtStart, RestOK
<1>3. ASSUME NEW t \in Tasks,
             \/ Callback(t) \/ ListServices(t) \/ AlertedAlready(t) \/ Notify(t)
             \/ GetService(t) \/ ScanDay(t) \/ GetFreeSlots(t) \/ GetBookings(t)
             \/ CancelListed(t) \/ CancelRefused(t) \/ Show(t) \/ ShowFails(t) \/ Answer(t)
      PROVE  UNCHANGED <<active, alertVars, crashes>>
    BY <1>3 DEF Callback, ListServices, AlertedAlready, Notify, GetService, ScanDay,
                GetFreeSlots, GetBookings, CancelListed, CancelRefused, Show, ShowFails, Answer
<1>4. CASE Others
    BY <1>1, <1>4 DEF Others
<1>5. CASE EditCatalogue
    BY <1>5 DEF EditCatalogue, RestOK, alertVars
<1>6. CASE Tick
    BY <1>6 DEF Tick, RestOK
<1>7. CASE Crash
  <2>1. crashes' \in 0..MaxCrashes
      BY <1>7, CatalogueAssumption DEF Crash, RestOK
  <2> QED
      BY <1>7, <2>1 DEF Crash, RestOK
<1>8. CASE UNCHANGED catalogueVars
    BY <1>1, <1>8 DEF catalogueVars
<1> QED
    BY <1>1, <1>2, <1>3, <1>4, <1>5, <1>6, <1>7, <1>8 DEF CatalogueNext, TaskStep
-------------------------------------------------------------------------------
(* The buttons: what my_bookings listed, and only that, is shown. *)
LEMMA MenuKeeps ==
    ASSUME Around, [CatalogueNext]_catalogueVars
    PROVE  MenuOK' /\ ButtonsAreOwn'
<1>0. /\ TypeOK /\ TypeOK' /\ [Next]_storeVars /\ Counters /\ MenuOK /\ ButtonsAreOwn
      /\ TasksOK /\ ListsAreOwn
    BY DEF Around, CInv, KInv
<1>1. CASE menu' = menu
    BY <1>0, <1>1, MenuKept
<1>2. ASSUME NEW t \in Tasks, Show(t) \/ ShowFails(t), menu' # menu
      PROVE  MenuOK' /\ ButtonsAreOwn'
  <2>1. /\ t \in DOMAIN task /\ RecOK(task[t], bookingSeq, alerted_at)
        /\ menu' = [menu EXCEPT ![task[t].user] = task[t].listed]
        /\ bookings' = bookings /\ bookingSeq' = bookingSeq
      BY <1>0, <1>2 DEF Show, ShowFails, Listing, At, TasksOK, storeVars, slotVars
  <2>2. task[t].listed \in SUBSET (1..bookingSeq)
      BY <2>1 DEF RecOK
  <2>3. MenuOK'
      BY <1>0, <2>1, <2>2 DEF MenuOK
  <2>4. ASSUME NEW u \in Users, NEW b \in menu'[u] \cap DOMAIN bookings
        PROVE  bookings[b].client_user_id = u
    <3>1. CASE u = task[t].user
        BY <1>0, <2>1, <2>4, <3>1 DEF ListsAreOwn, MenuOK
    <3>2. CASE u # task[t].user
        BY <1>0, <2>1, <2>4, <3>2 DEF ButtonsAreOwn, MenuOK
    <3> QED
        BY <3>1, <3>2
  <2> QED
      BY <2>1, <2>3, <2>4 DEF ButtonsAreOwn
<1>3. ASSUME NEW t \in Tasks,
             \/ Callback(t) \/ ListServices(t) \/ AlertOwners(t) \/ AlertedAlready(t)
             \/ Notify(t) \/ GetService(t) \/ ScanDay(t) \/ GetFreeSlots(t) \/ GetBookings(t)
             \/ CancelListed(t) \/ CancelRefused(t) \/ Answer(t)
      PROVE  menu' = menu
    BY <1>3 DEF Callback, ListServices, AlertOwners, AlertedAlready, Notify, GetService, ScanDay,
                GetFreeSlots, GetBookings, CancelListed, CancelRefused, Answer
<1>4. CASE Others \/ EditCatalogue \/ Tick \/ Crash
    BY <1>1, <1>4 DEF Others, EditCatalogue, Tick, Crash
<1>5. CASE UNCHANGED catalogueVars
    BY <1>1, <1>5 DEF catalogueVars
<1> QED
    BY <1>1, <1>2, <1>3, <1>4, <1>5 DEF CatalogueNext, TaskStep

(* A crash leaves no handler; the buttons stay on the screens. *)
LEMMA CrashKeeps ==
    ASSUME CInv, TypeOK', RestOK', Crash
    PROVE  CInv'
<1>1. task' = << >> /\ DOMAIN task' = {} /\ menu' = menu /\ UNCHANGED storeVars
    BY DEF Crash
<1>2. bookings' = bookings /\ bookingSeq' = bookingSeq
    BY <1>1 DEF storeVars, slotVars
<1>3. TasksOK' /\ ListsAreOwn' /\ StormGuard'
    BY <1>1 DEF TasksOK, ListsAreOwn, StormGuard
<1>4. MenuOK' /\ ButtonsAreOwn'
    BY <1>1, <1>2 DEF CInv, KInv, MenuOK, ButtonsAreOwn
<1> QED
    BY <1>3, <1>4 DEF CInv, KInv

LEMMA CNext == CInv /\ [CatalogueNext]_catalogueVars => CInv'
<1> SUFFICES ASSUME CInv, [CatalogueNext]_catalogueVars PROVE CInv'
    OBVIOUS
<1>1. [Next]_storeVars /\ TypeOK
    BY CatalogueStoreStep DEF CInv, KInv
<1>2. TypeOK' /\ bookingSeq <= bookingSeq' /\ bookingSeq' \in Nat
    BY <1>1, TypeNext, SeqGrows
<1>3. RestOK' /\ (alerted_at <= alerted_at' \/ Crash)
    BY RestKeeps
<1>4. CASE Crash
    BY <1>2, <1>3, <1>4, CrashKeeps
<1>5. CASE ~Crash
  <2>1. Counters
      BY <1>1, <1>2, <1>3, <1>5 DEF Counters, TypeOK, RestOK, CInv, KInv
  <2>2. Around
      BY <1>1, <1>2, <2>1 DEF Around
  <2>3. Kept
    <3>1. CASE Others
        BY <2>2, <3>1, OthersKeep
    <3>2. CASE EditCatalogue \/ Tick \/ UNCHANGED catalogueVars
        BY <2>2, <3>2, Stays DEF EditCatalogue, Tick, catalogueVars
    <3> QED
        BY <1>5, <2>2, <3>1, <3>2, CallbackKeeps, StepKeeps DEF CatalogueNext
  <2> QED
      BY <1>2, <1>3, <2>2, <2>3, MenuKeeps DEF Kept, CInv, KInv
<1> QED
    BY <1>4, <1>5

(* The invariant of the menus: a handler's locals are of their types, its  *)
(* lists and the buttons are its customer's, and rounds are a window apart.*)
THEOREM CatalogueInvariant == CatalogueSpec => []CInv
    BY CInit, CNext, PTL DEF CatalogueSpec

(* Handlers, menus and the alert of handlers.py hold values of their types.*)
THEOREM CatalogueTypeCorrect == CatalogueSpec => []CatalogueTypeOK
<1>1. CInv => CatalogueTypeOK
    BY KInvTyped DEF CInv
<1> QED
    BY CatalogueInvariant, <1>1, PTL

(* However old the cancel button of my_bookings is, it names a booking of  *)
(* the customer who sees it or none.                                       *)
THEOREM CatalogueButtonsAreOwn == CatalogueSpec => []ButtonsAreOwn
<1>1. CInv => ButtonsAreOwn
    BY DEF CInv
<1> QED
    BY CatalogueInvariant, <1>1, PTL

(* Two rounds of list_services under way together began a window apart.    *)
THEOREM CatalogueStormGuard == CatalogueSpec => []StormGuard
<1>1. CInv => StormGuard
    BY DEF CInv
<1> QED
    BY CatalogueInvariant, <1>1, PTL

(* The menus and their cancellations are transactions of the store, so     *)
(* that what is proved of it holds while they run.                         *)
THEOREM CatalogueImplementsStore == CatalogueSpec => Spec
<1>1. CatalogueInit => Init
    BY DEF CatalogueInit
<1> QED
    BY <1>1, CatalogueInvariant, CatalogueStoreStep, PTL DEF CatalogueSpec, Spec
-------------------------------------------------------------------------------
(* What a round still owes: an owner who can be reached has been told, or  *)
(* is among those left.  Before its round a handler has no time of one.    *)
RoundOK(x, out) ==
    /\ x.pc = "notify" => Range(Owners) \ out \subseteq x.told \cup Range(x.left)
    /\ x.pc = "refuse" /\ x.began > 0 => Range(Owners) \ out \subseteq x.told
    /\ x.pc \notin {"notify", "refuse", "answer"} => x.began = 0

RoundsOwe == \A t \in DOMAIN task : RoundOK(task[t], blocked)

LEMMA RoundKept == ASSUME NEW x, NEW y, NEW out, Alike(x, y), RoundOK(x, out) PROVE RoundOK(y, out)
    BY Zenon DEF Alike, RoundOK

LEMMA RoundsWith ==
    ASSUME RoundsOwe, blocked' = blocked, NEW t, NEW x, OneGets(t, x), RoundOK(x, blocked)
    PROVE  RoundsOwe'
<1> SUFFICES ASSUME NEW o \in DOMAIN task' PROVE RoundOK(task'[o], blocked)
    BY DEF RoundsOwe
<1>1. CASE o = t
    BY <1>1 DEF OneGets
<1>2. CASE o # t
  <2>1. o \in DOMAIN task /\ Alike(task[o], task'[o]) /\ RoundOK(task[o], blocked)
      BY <1>2 DEF OneGets, RoundsOwe
  <2> QED
      BY <2>1, RoundKept
<1> QED
    BY <1>1, <1>2

LEMMA RoundsLess ==
    ASSUME RoundsOwe, blocked' = blocked, SomeEnd
    PROVE  RoundsOwe'
<1> SUFFICES ASSUME NEW o \in DOMAIN task' PROVE RoundOK(task'[o], blocked)
    BY DEF RoundsOwe
<1>1. o \in DOMAIN task /\ Alike(task[o], task'[o]) /\ RoundOK(task[o], blocked)
    BY DEF SomeEnd, RoundsOwe
<1> QED
    BY <1>1, RoundKept

(* A step of a handler that is in no round. *)
LEMMA RoundsQuiet ==
    ASSUME RoundsOwe, blocked' = blocked, NEW t \in DOMAIN task,
           task[t].pc \notin {"notify", "refuse", "answer"},
           NEW x, OneGets(t, x), x.pc # "notify", x.began = task[t].began
    PROVE  RoundsOwe'
<1>1. x.began = 0
    BY DEF RoundsOwe, RoundOK
<1>2. ~(x.began > 0)
    BY <1>1
<1>3. RoundOK(x, blocked)
    BY <1>1, <1>2, Zenon DEF RoundOK
<1> QED
    BY <1>3, RoundsWith

LEMMA RoundsGo ==
    ASSUME Around, RoundsOwe, blocked' = blocked, NEW t \in DOMAIN task,
           task[t].pc \notin {"notify", "refuse", "answer"},
           NEW pc \in Pcs \ {"notify"}, Goto(t, pc)
    PROVE  RoundsOwe'
<1> DEFINE x == [task[t] EXCEPT !.pc = pc]
<1>1. task[t] \in Task /\ task' = [task EXCEPT ![t] = x]
    BY DEF Around, CInv, KInv, TasksOK, RecOK, Goto
<1>2. OneGets(t, x)
    BY <1>1, Replaces
<1>3. x.pc # "notify" /\ x.began = task[t].began
    BY <1>1 DEF Task
<1> HIDE DEF x
<1> QED
    BY <1>2, <1>3, RoundsQuiet
-------------------------------------------------------------------------------
LEMMA RoundsCallback ==
    ASSUME Around, RoundsOwe, NEW t \in Tasks, Callback(t)
    PROVE  RoundsOwe'
<1>1. ASSUME NEW flow, NEW pc \in Pcs \ {"notify"}, NEW u, NEW v, NEW d, NEW b,
             Begin(t, flow, pc, u, v, d, b)
      PROVE  RoundsOwe'
  <2> DEFINE free == IF pc = "service" THEN FreeSlots ELSE {}
             x == [flow |-> flow, pc |-> pc, user |-> u, service |-> v, day |-> d,
                   dates |-> << >>, listed |-> {}, pick |-> b, left |-> << >>, began |-> 0,
                   told |-> {}, steady |-> free, ever |-> free]
  <2>1. task' = Insert(task, t, x) /\ t \notin DOMAIN task
      BY <1>1 DEF Begin
  <2>2. /\ DOMAIN task' = DOMAIN task \cup {t}
        /\ task' = [o \in DOMAIN task' |-> task'[o]]
        /\ task'[t] = x
        /\ \A o \in DOMAIN task : o # t => task'[o] = task[o]
      BY <2>1 DEF Insert
  <2>3. OneGets(t, x)
      BY <2>2, AlikeSelf DEF OneGets
  <2>4. RoundOK(x, blocked)
      BY DEF RoundOK
  <2>5. blocked' = blocked
      BY DEF Callback, alertVars
  <2> HIDE DEF x
  <2> QED
      BY <2>3, <2>4, <2>5, RoundsWith
<1> QED
    BY <1>1 DEF Callback, Pcs

LEMMA RoundsAlert ==
    ASSUME Around, RoundsOwe, NEW t \in Tasks, AlertOwners(t)
    PROVE  RoundsOwe'
<1> DEFINE x == [task[t] EXCEPT !.pc = "notify", !.left = Owners, !.began = clock]
<1>1. t \in DOMAIN task /\ task[t] \in Task /\ task' = [task EXCEPT ![t] = x]
    BY DEF Around, CInv, KInv, TasksOK, RecOK, AlertOwners, At
<1>2. OneGets(t, x)
    BY <1>1, Replaces
<1>3. x.pc = "notify" /\ x.left = Owners
    BY <1>1 DEF Task
<1> HIDE DEF x
<1>4. RoundOK(x, blocked)
    BY <1>3 DEF RoundOK
<1> QED
    BY <1>2, <1>4, RoundsWith DEF AlertOwners

(* The owners left are the one told or skipped now, and the rest. *)
LEMMA LeftOwners ==
    ASSUME NEW S, NEW s \in Seq(S), s # << >>
    PROVE  /\ Range(s) \subseteq {Head(s)} \cup Range(Tail(s))
           /\ Len(s) = 1 => Range(Tail(s)) = {}
<1>1. /\ Len(s) \in Nat \ {0} /\ Tail(s) \in Seq(S) /\ Len(Tail(s)) = Len(s) - 1
      /\ \A i \in 1..Len(Tail(s)) : Tail(s)[i] = s[i + 1]
    BY EmptySeq, HeadTailProperties
<1>2. DOMAIN s = 1..Len(s) /\ DOMAIN Tail(s) = 1..Len(Tail(s)) /\ Head(s) = s[1]
    BY <1>1
<1>3. ASSUME NEW i \in 1..Len(s), i # 1 PROVE s[i] \in Range(Tail(s))
  <2>1. i - 1 \in 1..Len(Tail(s)) /\ (i - 1) + 1 = i
      BY <1>1, <1>3
  <2>2. Tail(s)[i - 1] = s[i]
      BY <1>1, <2>1
  <2> QED
      BY <1>2, <2>1, <2>2 DEF Range
<1>4. Range(s) \subseteq {Head(s)} \cup Range(Tail(s))
    BY <1>2, <1>3 DEF Range
<1>5. Len(s) = 1 => DOMAIN Tail(s) = {}
  <2>1. Len(s) = 1 => Len(Tail(s)) = 0
      BY <1>1
  <2>2. 1..0 = {}
      OBVIOUS
  <2> QED
      BY <1>2, <2>1, <2>2
<1>6. Len(s) = 1 => Range(Tail(s)) = {}
    BY <1>5 DEF Range
<1> QED
    BY <1>4, <1>6

LEMMA RoundsNotify ==
    ASSUME Around, RoundsOwe, NEW t \in Tasks, Notify(t)
    PROVE  RoundsOwe'
<1>1. /\ t \in DOMAIN task /\ task[t].pc = "notify" /\ task[t] \in Task
      /\ task[t].left \in Seq(Range(Owners)) /\ task[t].left # << >>
      /\ RoundOK(task[t], blocked)
    BY DEF Around, CInv, KInv, TasksOK, RecOK, Task, Notify, At, RoundsOwe
<1>2. PICK told : /\ AfterNotice(t, told)
                  /\ Head(task[t].left) \in blocked \cup told
    BY DEF Notify, AfterNoticeFailure
<1> DEFINE pc == IF Len(task[t].left) = 1 THEN "refuse" ELSE "notify"
           x == [task[t] EXCEPT !.left = Tail(task[t].left),
                                !.told = task[t].told \cup told, !.pc = pc]
<1>3. task' = [task EXCEPT ![t] = x]
    BY <1>2 DEF AfterNotice
<1>4. OneGets(t, x)
    BY <1>1, <1>3, Replaces
<1>5. /\ x.pc = pc /\ x.left = Tail(task[t].left) /\ x.told = task[t].told \cup told
  <2> HIDE DEF pc
  <2> QED
      BY <1>1 DEF Task
<1>6. /\ pc = "refuse" => Len(task[t].left) = 1
      /\ pc \in {"refuse", "notify"}
    OBVIOUS
<1> HIDE DEF pc, x
<1>7. Range(Owners) \ blocked \subseteq x.told \cup Range(x.left)
    BY <1>1, <1>2, <1>5, LeftOwners DEF RoundOK
<1>8. pc = "refuse" => Range(x.left) = {}
    BY <1>1, <1>5, <1>6, LeftOwners
<1>9. RoundOK(x, blocked)
    BY <1>5, <1>6, <1>7, <1>8 DEF RoundOK
<1>10. blocked' = blocked
    BY DEF Notify, alertVars
<1> QED
    BY <1>4, <1>9, <1>10, RoundsWith

LEMMA RoundsScan ==
    ASSUME Around, RoundsOwe, NEW t \in Tasks,
           ScanDay(t) \/ GetBookings(t) \/ CancelListed(t)
    PROVE  RoundsOwe'
<1>1. /\ t \in DOMAIN task /\ task[t].pc \in {"day", "bookings", "cancel"} /\ task[t] \in Task
      /\ blocked' = blocked
    BY DEF Around, CInv, KInv, TasksOK, RecOK, ScanDay, GetBookings, CancelListed, At, alertVars
<1>2. CASE ScanDay(t)
  <2>1. PICK dates, day, pc :
            /\ pc \in {"day", "refuse", "show"}
            /\ task' = [task EXCEPT ![t] = [@ EXCEPT !.dates = dates, !.day = day, !.pc = pc]]
    <3> DEFINE works == (task[t].day % Week) \in WorkingDays
               has   == works /\ FreeOn(task[t].service, task[t].day) # {}
               found == IF has THEN Append(task[t].dates, task[t].day) ELSE task[t].dates
               next  == IF task[t].day < DaysAhead THEN "day"
                        ELSE IF found = << >> THEN "refuse" ELSE "show"
    <3>1. task' = [task EXCEPT ![t] = [@ EXCEPT !.dates = found, !.day = task[t].day + 1,
                                                !.pc = next]]
        BY <1>2 DEF ScanDay, AfterDayOff, LastDay
    <3>2. next \in {"day", "refuse", "show"}
        OBVIOUS
    <3> HIDE DEF found, next
    <3> QED
        BY <3>1, <3>2
  <2> DEFINE x == [task[t] EXCEPT !.dates = dates, !.day = day, !.pc = pc]
  <2>2. OneGets(t, x)
      BY <1>1, <2>1, Replaces
  <2>3. x.pc # "notify" /\ x.began = task[t].began
      BY <1>1, <2>1 DEF Task
  <2> HIDE DEF x
  <2> QED
      BY <1>1, <2>2, <2>3, RoundsQuiet
<1>3. CASE GetBookings(t)
  <2> DEFINE x == [task[t] EXCEPT !.pc = "show", !.listed = Listed(task[t].user)]
  <2>1. OneGets(t, x)
      BY <1>1, <1>3, Replaces DEF GetBookings
  <2>2. x.pc # "notify" /\ x.began = task[t].began
      BY <1>1 DEF Task
  <2> HIDE DEF x
  <2> QED
      BY <1>1, <2>1, <2>2, RoundsQuiet
<1>4. CASE CancelListed(t)
  <2> DEFINE x == [task[t] EXCEPT !.pc = "answer"]
  <2>1. /\ DOMAIN task' = DOMAIN task
        /\ task' = [o \in DOMAIN task' |-> task'[o]]
        /\ task'[t] = x
        /\ \A o \in DOMAIN task : o # t => task'[o] = Watched(o)
      BY <1>1, <1>4 DEF CancelListed
  <2>2. OneGets(t, x)
      BY <1>1, <2>1, WatchedAlike DEF OneGets
  <2>3. x.pc # "notify" /\ x.began = task[t].began
      BY <1>1 DEF Task
  <2> HIDE DEF x
  <2> QED
      BY <1>1, <2>2, <2>3, RoundsQuiet
<1> QED
    BY <1>2, <1>3, <1>4

LEMMA RoundsStep ==
    ASSUME Around, RoundsOwe, NEW t \in Tasks, TaskStep(t)
    PROVE  RoundsOwe'
<1>1. ASSUME ListServices(t) \/ AlertedAlready(t) \/ GetService(t) \/ CancelRefused(t) \/ Show(t)
      PROVE  RoundsOwe'
  <2>1. PICK pc \in {"show", "refuse", "day", "answer"} : Goto(t, pc)
      BY <1>1 DEF ListServices, AlertedAlready, GetService, CancelRefused, Show
  <2>2. /\ t \in DOMAIN task /\ task[t].pc \in {"services", "service", "cancel", "show"}
        /\ blocked' = blocked
      BY <1>1 DEF ListServices, AlertedAlready, GetService, CancelRefused, Show, At, alertVars
  <2> QED
      BY <2>1, <2>2, RoundsGo DEF Pcs
<1>2. ASSUME GetFreeSlots(t) PROVE RoundsOwe'
  <2>1. t \in DOMAIN task /\ task[t].pc = "times" /\ blocked' = blocked
      BY <1>2 DEF GetFreeSlots, At, alertVars
  <2>2. CASE End(t)
      BY <2>1, <2>2, EndEnds, RoundsLess
  <2>3. CASE \E pc \in {"refuse", "show"} : Goto(t, pc)
      BY <2>1, <2>3, RoundsGo DEF Pcs
  <2> QED
      BY <1>2, <2>2, <2>3 DEF GetFreeSlots
<1>3. ASSUME ShowFails(t) \/ Answer(t) PROVE RoundsOwe'
    BY <1>3, EndEnds, RoundsLess DEF ShowFails, Answer, alertVars
<1> QED
    BY <1>1, <1>2, <1>3, RoundsAlert, RoundsNotify, RoundsScan DEF TaskStep

LEMMA RoundsNext == CInv /\ RoundsOwe /\ [CatalogueNext]_catalogueVars => RoundsOwe'
<1> SUFFICES ASSUME CInv, RoundsOwe, [CatalogueNext]_catalogueVars PROVE RoundsOwe'
    OBVIOUS
<1>1. CASE Crash
  <2>1. DOMAIN task' = {}
      BY <1>1 DEF Crash
  <2> QED
      BY <2>1 DEF RoundsOwe
<1>2. CASE ~Crash
  <2>1. [Next]_storeVars /\ TypeOK
      BY CatalogueStoreStep DEF CInv, KInv
  <2>2. TypeOK' /\ bookingSeq <= bookingSeq' /\ bookingSeq' \in Nat
      BY <2>1, TypeNext, SeqGrows
  <2>3. RestOK' /\ alerted_at <= alerted_at'
      BY <1>2, RestKeeps
  <2>4. Counters
      BY <2>1, <2>2, <2>3 DEF Counters, TypeOK, RestOK, CInv, KInv
  <2>5. Around
      BY <2>1, <2>2, <2>4 DEF Around
  <2>6. CASE Others
    <3>1. /\ DOMAIN task' = DOMAIN task
          /\ task' = [o \in DOMAIN task' |-> task'[o]]
          /\ \A o \in DOMAIN task : task'[o] = Watched(o)
        BY <2>6 DEF Others
    <3>2. SomeEnd /\ blocked' = blocked
        BY <2>6, <3>1, WatchedAlike DEF SomeEnd, Others, alertVars
    <3> QED
        BY <3>2, RoundsLess
  <2>7. CASE EditCatalogue \/ Tick \/ UNCHANGED catalogueVars
    <3>1. task' = task /\ blocked' = blocked
        BY <2>7 DEF EditCatalogue, Tick, catalogueVars, alertVars
    <3> QED
        BY <3>1 DEF RoundsOwe
  <2> QED
      BY <1>2, <2>5, <2>6, <2>7, RoundsCallback, RoundsStep DEF CatalogueNext
<1> QED
    BY <1>1, <1>2

(* _notify_empty_catalog tells every owner who can be told, though others  *)
(* cannot: a failing message ends neither the round nor the handler.       *)
THEOREM CatalogueRoundReachesOwners == CatalogueSpec => []RoundReachesOwners
<1>1. CatalogueInit => RoundsOwe
    BY DEF CatalogueInit, RoundsOwe
<1>2. RoundsOwe => RoundReachesOwners
    BY DEF RoundsOwe, RoundOK, RoundReachesOwners, At
<1> QED
    BY <1>1, <1>2, RoundsNext, CatalogueInvariant, PTL DEF CatalogueSpec
-------------------------------------------------------------------------------
(* What select_service knows once it has asked for the days before x.day:  *)
(* the dates found, in order, each with a slot that was free at some time, *)
(* among them every working day with a slot that was free all along.       *)
Found(x) ==
    /\ \A i \in 1..Len(x.dates) : x.dates[i] < x.day
    /\ \A i, j \in 1..Len(x.dates) : i < j => x.dates[i] < x.dates[j]
    /\ \A i \in 1..Len(x.dates) :
          \E s \in x.ever : ServiceOf[s] = x.service /\ DayOf[s] = x.dates[i]
    /\ \A s \in x.steady :
          /\ ServiceOf[s] = x.service /\ DayOf[s] \in 1..DaysAhead /\ DayOf[s] < x.day
          /\ (DayOf[s] % Week) \in WorkingDays
          => \E i \in 1..Len(x.dates) : x.dates[i] = DayOf[s]

Complete(x) ==
    x.day > 1 /\ x.pc \in {"show", "refuse"} =>
        x.day > DaysAhead /\ (x.pc = "refuse" => x.dates = << >>)

Honest(x) ==
    /\ x.pc \in {"services", "notify", "times", "bookings", "cancel"} => x.flow # "service"
    /\ x.flow = "service" /\ x.pc # "answer" => Found(x) /\ Complete(x)

(* While it asks, its history follows the slots. *)
Fresh(x, free) ==
    x.pc \in {"service", "day"} => x.steady \subseteq free /\ free \subseteq x.ever

MenusHonest ==
    \A t \in DOMAIN task : Honest(task[t]) /\ Fresh(task[t], FreeSlots)

(* The keyboard is a prefix of the dates. *)
LEMMA KeyboardIsPrefix ==
    ASSUME NEW t, task[t].dates \in Seq(1..DaysAhead)
    PROVE  \E k \in Nat :
              /\ k <= Len(task[t].dates) /\ (k < Len(task[t].dates) => k = MaxButtons)
              /\ ShownDates(t) = {task[t].dates[i] : i \in 1..k}
<1> DEFINE dates == task[t].dates
           k == IF Len(dates) < MaxButtons THEN Len(dates) ELSE MaxButtons
           shown == SubSeq(dates, 1, k)
<1>1. Len(dates) \in Nat /\ MaxButtons \in Nat /\ \A i \in 1..Len(dates) : dates[i] \in 1..DaysAhead
    BY CatalogueAssumption
<1>2. k \in Nat /\ k <= Len(dates) /\ (k < Len(dates) => k = MaxButtons)
    BY <1>1
<1>3. Keyboard(t) = shown
    BY DEF Keyboard
<1> HIDE DEF k
<1>4. \A i \in 1..k : dates[i] \in 1..DaysAhead
    BY <1>1, <1>2
<1>5. /\ shown \in Seq(1..DaysAhead)
      /\ Len(shown) = IF 1 <= k THEN k - 1 + 1 ELSE 0
      /\ \A i \in 1..(k - 1 + 1) : shown[i] = dates[1 + i - 1]
  <2>1. 1 \in Int /\ k \in Int
      BY <1>2
  <2> QED
      BY <1>4, <2>1, SubSeqProperties
<1>6. DOMAIN shown = 1..k /\ \A i \in 1..k : shown[i] = dates[i]
  <2>1. Len(shown) = k /\ k - 1 + 1 = k /\ \A i \in 1..k : 1 + i - 1 = i
      BY <1>2, <1>5
  <2>2. DOMAIN shown = 1..Len(shown)
      BY <1>5
  <2> QED
      BY <1>5, <2>1, <2>2
<1> HIDE DEF shown
<1>7. ShownDates(t) = {dates[i] : i \in 1..k}
    BY <1>3, <1>6 DEF ShownDates, Range
<1> QED
    BY <1>2, <1>7

(* Dates in order are as many as their positions. *)
LEMMA CountDates ==
    ASSUME NEW dates, NEW k \in Nat, \A i \in 1..k : dates[i] \in Nat,
           \A i, j \in 1..k : i < j => dates[i] < dates[j]
    PROVE  Cardinality({dates[i] : i \in 1..k}) = k
<1> DEFINE T == {dates[i] : i \in 1..k}
           f == [i \in 1..k |-> dates[i]]
<1>1. f \in Surjection(1..k, T)
    BY DEF Surjection
<1>2. f \in Injection(1..k, T)
  <2>1. ASSUME NEW i \in 1..k, NEW j \in 1..k, i # j PROVE dates[i] # dates[j]
    <3>1. i < j \/ j < i
        BY <2>1
    <3> QED
        BY <3>1
  <2> QED
      BY <2>1 DEF Injection, IsInjective
<1>3. IsFiniteSet(1..k) /\ Cardinality(1..k) = k
  <2>1. 1 \in Int /\ k \in Int
      OBVIOUS
  <2>2. IsFiniteSet(1..k) /\ Cardinality(1..k) = IF 1 > k THEN 0 ELSE k - 1 + 1
      BY <2>1, FS_Interval
  <2> QED
      BY <2>2
<1> HIDE DEF f, T
<1>4. Cardinality(T) = Cardinality(1..k)
    BY <1>1, <1>2, <1>3, FS_Surjection
<1> QED
    BY <1>3, <1>4 DEF T

LEMMA HonestDates == CInv /\ MenusHonest => DatesAreHonest
<1> SUFFICES ASSUME CInv, MenusHonest, NEW t \in DOMAIN task, task[t].flow = "service",
                    task[t].day > 1, task[t].pc \in {"show", "refuse"}
             PROVE  /\ \A d \in ShownDates(t) :
                          \E s \in task[t].ever : ServiceOf[s] = task[t].service /\ DayOf[s] = d
                    /\ \A d \in SteadyDates(t) :
                          \/ d \in ShownDates(t)
                          \/ Cardinality({e \in ShownDates(t) : e < d}) = MaxButtons
    BY DEF DatesAreHonest
<1> DEFINE dates == task[t].dates
<1>0. Honest(task[t])
    BY DEF MenusHonest
<1>1. Found(task[t]) /\ task[t].day > DaysAhead
  <2>1. Found(task[t]) /\ Complete(task[t])
      BY <1>0 DEF Honest
  <2> QED
      BY <2>1 DEF Complete
<1>2. dates \in Seq(1..DaysAhead) /\ task[t].day \in Nat /\ DaysAhead \in Nat
      /\ Len(dates) \in Nat /\ \A i \in 1..Len(dates) : dates[i] \in Nat
  <2>1. task[t] \in Task
      BY DEF CInv, KInv, TasksOK, RecOK
  <2>2. dates \in Seq(1..DaysAhead) /\ task[t].day \in 1..(DaysAhead + 1) /\ DaysAhead \in Nat
      BY <2>1, CatalogueAssumption DEF Task
  <2> HIDE DEF dates
  <2>3. Len(dates) \in Nat /\ \A i \in 1..Len(dates) : dates[i] \in 1..DaysAhead
      BY <2>2
  <2> QED
      BY <2>2, <2>3
<1>3. PICK k \in Nat :
          /\ k <= Len(dates) /\ (k < Len(dates) => k = MaxButtons)
          /\ ShownDates(t) = {dates[i] : i \in 1..k}
    BY <1>2, KeyboardIsPrefix
<1>4. \A i \in 1..k : i \in 1..Len(dates)
    BY <1>2, <1>3
<1>5. \A d \in ShownDates(t) :
          \E s \in task[t].ever : ServiceOf[s] = task[t].service /\ DayOf[s] = d
    BY <1>1, <1>3, <1>4 DEF Found
<1>6. ASSUME NEW d \in SteadyDates(t), d \notin ShownDates(t)
      PROVE  Cardinality({e \in ShownDates(t) : e < d}) = MaxButtons
  <2>1. PICK s \in task[t].steady : ServiceOf[s] = task[t].service /\ DayOf[s] = d
      BY DEF SteadyDates
  <2>2. d \in 1..DaysAhead /\ (d % Week) \in WorkingDays /\ d < task[t].day
      BY <1>1, <1>2 DEF SteadyDates
  <2>3. PICK j \in 1..Len(dates) : dates[j] = d
      BY <1>1, <2>1, <2>2 DEF Found
  <2>4. j \notin 1..k
      BY <1>3, <1>6, <2>3
  <2>5. k < j /\ k < Len(dates)
      BY <1>2, <2>4
  <2>6. \A i \in 1..k : dates[i] < d
      BY <1>1, <1>4, <2>3, <2>5 DEF Found
  <2>7. {e \in ShownDates(t) : e < d} = {dates[i] : i \in 1..k}
      BY <1>3, <2>6
  <2>8. \A i, l \in 1..k : i < l => dates[i] < dates[l]
      BY <1>1, <1>4 DEF Found
  <2>9. \A i \in 1..k : dates[i] \in Nat
      BY <1>2, <1>4
  <2> HIDE DEF dates
  <2> QED
      BY <1>3, <2>5, <2>7, <2>8, <2>9, CountDates
<1> QED
    BY <1>5, <1>6
-------------------------------------------------------------------------------
(* A step of one handler, with the tables as they were.                    *)
LEMMA HonestStep ==
    ASSUME MenusHonest, is_booked' = is_booked, NEW t,
           DOMAIN task' \subseteq DOMAIN task \cup {t},
           \A o \in DOMAIN task' : o # t => task'[o] = task[o],
           t \in DOMAIN task' => Honest(task'[t]) /\ Fresh(task'[t], FreeSlots)
    PROVE  MenusHonest'
<1>1. FreeSlots' = FreeSlots
    BY DEF FreeSlots, SlotTaken
<1> SUFFICES ASSUME NEW o \in DOMAIN task'
             PROVE  Honest(task'[o]) /\ Fresh(task'[o], FreeSlots)
    BY <1>1 DEF MenusHonest, Fresh, Honest, Found, Complete
<1>2. CASE o = t
    BY <1>2
<1>3. CASE o # t
    BY <1>3 DEF MenusHonest
<1> QED
    BY <1>2, <1>3

LEMMA HonestPut ==
    ASSUME MenusHonest, is_booked' = is_booked, NEW t \in DOMAIN task, NEW x,
           task = [o \in DOMAIN task |-> task[o]],
           task' = [task EXCEPT ![t] = x], Honest(x), Fresh(x, FreeSlots)
    PROVE  MenusHonest'
<1>1. /\ DOMAIN task' = DOMAIN task /\ task'[t] = x
      /\ \A o \in DOMAIN task : o # t => task'[o] = task[o]
    OBVIOUS
<1> QED
    BY <1>1, HonestStep

LEMMA HonestEnd ==
    ASSUME MenusHonest, is_booked' = is_booked, NEW t, End(t)
    PROVE  MenusHonest'
<1>1. DOMAIN task' = DOMAIN task \ {t} /\ \A o \in DOMAIN task' : task'[o] = task[o]
    BY DEF End, Delete, Restrict
<1> QED
    BY <1>1, HonestStep

(* The slots change hands: what was free all along is still free, and what *)
(* is free now was free at some time.                                      *)
LEMMA WatchedHonest ==
    ASSUME MenusHonest, NEW o \in DOMAIN task, task[o] \in Task
    PROVE  Honest(Watched(o)) /\ Fresh(Watched(o), {s \in Slots : ~is_booked'[s]})
<1> DEFINE x == task[o]
           free == {s \in Slots : ~is_booked'[s]}
           y == [x EXCEPT !.steady = x.steady \cap free, !.ever = x.ever \cup free]
<1>1. Honest(x) /\ x \in Task
    BY DEF MenusHonest
<1>2. CASE Seen(o)
  <2>1. Watched(o) = y
      BY <1>2 DEF Watched
  <2>2. /\ y.pc = x.pc /\ y.flow = x.flow /\ y.day = x.day /\ y.dates = x.dates
        /\ y.service = x.service /\ y.steady = x.steady \cap free /\ y.ever = x.ever \cup free
      BY <1>1 DEF Task
  <2> HIDE DEF x, y, free
  <2>3. Found(x) => Found(y)
      BY <2>2 DEF Found
  <2>4. Complete(x) => Complete(y)
      BY <2>2 DEF Complete
  <2>5. Honest(y)
      BY <1>1, <2>2, <2>3, <2>4 DEF Honest
  <2>6. Fresh(y, free)
      BY <2>2 DEF Fresh
  <2> QED
      BY <2>1, <2>5, <2>6 DEF free
<1>3. CASE ~Seen(o)
    BY <1>1, <1>3 DEF Watched, Seen, Fresh
<1> QED
    BY <1>2, <1>3

LEMMA HonestWatched ==
    ASSUME MenusHonest, NEW t, DOMAIN task' = DOMAIN task,
           \A o \in DOMAIN task : task[o] \in Task,
           \A o \in DOMAIN task : o # t => task'[o] = Watched(o),
           t \in DOMAIN task => task'[t].pc = "answer"
    PROVE  MenusHonest'
<1>1. FreeSlots' = {s \in Slots : ~is_booked'[s]}
    BY DEF FreeSlots, SlotTaken
<1> SUFFICES ASSUME NEW o \in DOMAIN task
             PROVE  Honest(task'[o]) /\ Fresh(task'[o], {s \in Slots : ~is_booked'[s]})
    BY <1>1 DEF MenusHonest, Fresh, Honest, Found, Complete
<1>2. CASE o = t
    BY <1>2 DEF Honest, Fresh
<1>3. CASE o # t
    BY <1>3, WatchedHonest
<1> QED
    BY <1>2, <1>3

(* A handler that goes on with what it had. *)
LEMMA HonestGo ==
    ASSUME MenusHonest, is_booked' = is_booked, NEW t \in DOMAIN task, task[t] \in Task,
           task = [o \in DOMAIN task |-> task[o]], NEW pc, Goto(t, pc),
           \/ pc = "answer"
           \/ /\ task[t].pc \in {"services", "times", "cancel"}
              /\ pc \in {"show", "refuse"}
           \/ task[t].pc = "service" /\ pc \in {"day", "refuse"} /\ task[t].day = 1
    PROVE  MenusHonest'
<1> DEFINE x == [task[t] EXCEPT !.pc = pc]
<1>1. task' = [task EXCEPT ![t] = x]
    BY DEF Goto
<1>2. /\ x.pc = pc /\ x.flow = task[t].flow /\ x.day = task[t].day /\ x.dates = task[t].dates
      /\ x.service = task[t].service /\ x.steady = task[t].steady /\ x.ever = task[t].ever
    BY DEF Task
<1> HIDE DEF x
<1>3. Honest(task[t]) /\ Fresh(task[t], FreeSlots)
    BY DEF MenusHonest
<1>4. Found(task[t]) => Found(x)
    BY <1>2 DEF Found
<1>5. task[t].day = 1 => Complete(x)
    BY <1>2 DEF Complete
<1>6. Honest(x)
    BY <1>2, <1>3, <1>4, <1>5 DEF Honest
<1>7. Fresh(x, FreeSlots)
    BY <1>2, <1>3 DEF Fresh
<1> QED
    BY <1>1, <1>6, <1>7, HonestPut

LEMMA HonestCallback ==
    ASSUME MenusHonest, is_booked' = is_booked, NEW t, Callback(t)
    PROVE  MenusHonest'
<1>1. ASSUME NEW flow, NEW pc, NEW u, NEW v, NEW d, NEW b, Begin(t, flow, pc, u, v, d, b),
             flow = "service" => d = 1 /\ pc \in {"service", "refuse"}, pc # "day"
      PROVE  MenusHonest'
  <2> DEFINE free == IF pc = "service" THEN FreeSlots ELSE {}
             x == [flow |-> flow, pc |-> pc, user |-> u, service |-> v, day |-> d,
                   dates |-> << >>, listed |-> {}, pick |-> b, left |-> << >>, began |-> 0,
                   told |-> {}, steady |-> free, ever |-> free]
  <2>1. task' = Insert(task, t, x) /\ t \notin DOMAIN task
      BY <1>1 DEF Begin
  <2>2. /\ DOMAIN task' = DOMAIN task \cup {t}
        /\ task'[t] = x
        /\ \A o \in DOMAIN task : task'[o] = task[o]
      BY <2>1 DEF Insert
  <2>3. (Found(x) /\ Complete(x)) \/ flow # "service"
    <3>1. x.dates = << >> /\ x.day = d /\ Len(<< >>) = 0
        OBVIOUS
    <3>2. d = 1 => Found(x)
        BY <3>1 DEF Found
    <3>3. d = 1 => Complete(x)
        BY <3>1 DEF Complete
    <3> QED
        BY <1>1, <3>2, <3>3
  <2>4. Honest(x)
      BY <1>1, <2>3 DEF Honest
  <2>5. Fresh(x, FreeSlots)
      BY <1>1 DEF Fresh
  <2> HIDE DEF x
  <2> QED
      BY <2>2, <2>4, <2>5, HonestStep
<1> QED
    BY <1>1 DEF Callback

(* One more day: its slots are those the history holds for certain.        *)
LEMMA HonestScan ==
    ASSUME CInv, MenusHonest, NEW t, ScanDay(t)
    PROVE  MenusHonest'
<1> DEFINE x     == task[t]
           works == (x.day % Week) \in WorkingDays
           has   == works /\ FreeOn(x.service, x.day) # {}
           found == IF has THEN Append(x.dates, x.day) ELSE x.dates
           pc    == IF x.day < DaysAhead THEN "day" ELSE IF found = << >> THEN "refuse" ELSE "show"
           y     == [x EXCEPT !.dates = found, !.day = x.day + 1, !.pc = pc]
<1>1. /\ t \in DOMAIN task /\ x.pc = "day" /\ x \in Task /\ x.day <= DaysAhead
      /\ task = [o \in DOMAIN task |-> task[o]]
    BY DEF ScanDay, At, CInv, KInv, TasksOK, RecOK
<1>2. task' = [task EXCEPT ![t] = y]
    BY DEF ScanDay, AfterDayOff, LastDay
<1>3. is_booked' = is_booked
    BY DEF ScanDay, storeVars, slotVars
<1>4. Honest(x) /\ Fresh(x, FreeSlots)
    BY <1>1 DEF MenusHonest
<1>5. /\ x.day \in Nat /\ DaysAhead \in Nat /\ x.dates \in Seq(1..DaysAhead) /\ Len(x.dates) \in Nat
      /\ x.day \in 1..DaysAhead
    BY <1>1, CatalogueAssumption DEF Task
<1>6. /\ y.pc = pc /\ y.day = x.day + 1 /\ y.dates = found /\ y.flow = x.flow
      /\ y.service = x.service /\ y.steady = x.steady /\ y.ever = x.ever
    BY <1>1 DEF Task
<1>7. pc \in {"day", "refuse", "show"} /\ (pc # "day" => x.day >= DaysAhead)
      /\ (pc = "refuse" => found = << >>)
    BY <1>5
<1>8. x.steady \subseteq FreeSlots /\ FreeSlots \subseteq x.ever
    BY <1>1, <1>4 DEF Fresh
<1>9. has => /\ Len(found) = Len(x.dates) + 1 /\ found[Len(x.dates) + 1] = x.day
             /\ \A i \in 1..Len(x.dates) : found[i] = x.dates[i]
    BY <1>5, AppendProperties
<1>10. ~has => found = x.dates
    OBVIOUS
<1>11. has => \E s \in x.ever : ServiceOf[s] = x.service /\ DayOf[s] = x.day
    BY <1>8 DEF FreeOn
<1>12. \A s \in x.steady : ServiceOf[s] = x.service /\ DayOf[s] = x.day /\ works => has
    BY <1>8 DEF FreeOn
<1>13. ASSUME Found(x) PROVE Found(y)
  <2>1. \A i \in 1..Len(found) : i \in 1..Len(x.dates) \/ (has /\ i = Len(x.dates) + 1)
    <3> HIDE DEF has, found
    <3> QED
        BY <1>5, <1>9, <1>10
  <2>2. \A i \in 1..Len(x.dates) : i \in 1..Len(found) /\ found[i] = x.dates[i]
                                   /\ x.dates[i] \in Nat /\ x.dates[i] < x.day
    <3> HIDE DEF has, found
    <3> SUFFICES ASSUME NEW i \in 1..Len(x.dates)
                 PROVE  /\ i \in 1..Len(found) /\ found[i] = x.dates[i]
                        /\ x.dates[i] \in Nat /\ x.dates[i] < x.day
        OBVIOUS
    <3>1. x.dates[i] < x.day
        BY <1>13 DEF Found
    <3>2. x.dates[i] \in Nat
        BY <1>5
    <3>3. i \in 1..Len(found) /\ found[i] = x.dates[i]
        BY <1>5, <1>9, <1>10
    <3> QED
        BY <3>1, <3>2, <3>3
  <2> HIDE DEF has, found
  <2>3. ASSUME NEW i \in 1..Len(found) PROVE found[i] < x.day + 1
    <3>1. CASE i \in 1..Len(x.dates)
      <4>1. found[i] \in Nat /\ found[i] < x.day
          BY <2>2, <3>1
      <4> QED
          BY <1>5, <4>1
    <3>2. CASE has /\ i = Len(x.dates) + 1
      <4>1. found[i] = x.day
          BY <1>9, <3>2
      <4> QED
          BY <1>5, <4>1
    <3> QED
        BY <2>1, <3>1, <3>2
  <2>4. ASSUME NEW i \in 1..Len(found), NEW j \in 1..Len(found), i < j PROVE found[i] < found[j]
    <3>1. i \in 1..Len(x.dates)
        BY <1>5, <2>1, <2>4
    <3>2. CASE j \in 1..Len(x.dates)
        BY <1>13, <2>2, <2>4, <3>1, <3>2 DEF Found
    <3>3. CASE has /\ j = Len(x.dates) + 1
        BY <1>9, <2>2, <3>1, <3>3
    <3> QED
        BY <2>1, <3>2, <3>3
  <2>5. ASSUME NEW i \in 1..Len(found)
        PROVE  \E s \in x.ever : ServiceOf[s] = x.service /\ DayOf[s] = found[i]
      BY <1>9, <1>11, <1>13, <2>1, <2>2 DEF Found
  <2>6. ASSUME NEW s \in x.steady, ServiceOf[s] = x.service, DayOf[s] \in 1..DaysAhead,
               DayOf[s] < x.day + 1, (DayOf[s] % Week) \in WorkingDays
        PROVE  \E i \in 1..Len(found) : found[i] = DayOf[s]
    <3>1. CASE DayOf[s] < x.day
      <4>1. PICK i \in 1..Len(x.dates) : x.dates[i] = DayOf[s]
          BY <1>13, <2>6, <3>1 DEF Found
      <4> QED
          BY <2>2, <4>1
    <3>2. CASE DayOf[s] = x.day
      <4>1. has
          BY <1>12, <2>6, <3>2
      <4>2. Len(x.dates) + 1 \in 1..Len(found)
          BY <1>5, <1>9, <4>1
      <4> QED
          BY <1>9, <3>2, <4>1, <4>2
    <3> QED
        BY <1>5, <2>6, <3>1, <3>2
  <2> HIDE DEF y, x
  <2> QED
      BY <1>6, <2>3, <2>4, <2>5, <2>6 DEF Found
<1>14. Complete(y)
  <2> HIDE DEF y, pc, found
  <2> QED
      BY <1>5, <1>6, <1>7 DEF Complete
<1>15. Honest(y) /\ Fresh(y, FreeSlots)
  <2> HIDE DEF y, pc, found
  <2> QED
      BY <1>1, <1>4, <1>6, <1>7, <1>8, <1>13, <1>14 DEF Honest, Fresh
<1> HIDE DEF y
<1> QED
    BY <1>1, <1>2, <1>3, <1>15, HonestPut

LEMMA HonestTask ==
    ASSUME CInv, MenusHonest, NEW t, TaskStep(t)
    PROVE  MenusHonest'
<1>1. /\ task = [o \in DOMAIN task |-> task[o]]
      /\ \A o \in DOMAIN task : task[o] \in Task /\ (task[o].pc = "service" => task[o].day = 1)
    BY DEF CInv, KInv, TasksOK, RecOK
<1>2. ~CancelListed(t) => is_booked' = is_booked
    BY DEF TaskStep, ListServices, AlertOwners, AlertedAlready, Notify, GetService, ScanDay,
           GetFreeSlots, GetBookings, CancelRefused, Show, ShowFails, Answer, storeVars, slotVars
<1>3. ASSUME NEW x, is_booked' = is_booked, t \in DOMAIN task, task' = [task EXCEPT ![t] = x],
             x.flow = task[t].flow, task[t].pc \in {"services", "notify", "bookings"},
             x.pc \notin {"service", "day"}
      PROVE  MenusHonest'
  <2>1. task[t].flow # "service"
      BY <1>3 DEF MenusHonest, Honest
  <2>2. Honest(x) /\ Fresh(x, FreeSlots)
      BY <1>3, <2>1 DEF Honest, Fresh
  <2> QED
      BY <1>1, <1>3, <2>2, HonestPut
<1>4. CASE ListServices(t) \/ AlertedAlready(t) \/ GetService(t) \/ CancelRefused(t) \/ Show(t)
  <2>1. ~CancelListed(t)
      BY <1>4 DEF ListServices, AlertedAlready, GetService, CancelRefused, Show, CancelListed,
                  CancelBooking, Cancellable, At
  <2>2. PICK pc : /\ Goto(t, pc) /\ t \in DOMAIN task
                  /\ \/ pc = "answer"
                     \/ /\ task[t].pc \in {"services", "times", "cancel"}
                        /\ pc \in {"show", "refuse"}
                     \/ task[t].pc = "service" /\ pc \in {"day", "refuse"} /\ task[t].day = 1
      BY <1>1, <1>4 DEF ListServices, AlertedAlready, GetService, CancelRefused, Show, At
  <2> QED
      BY <1>1, <1>2, <2>1, <2>2, HonestGo
<1>5. CASE GetFreeSlots(t)
  <2>1. is_booked' = is_booked /\ t \in DOMAIN task /\ task[t].pc = "times"
      BY <1>5 DEF GetFreeSlots, At, storeVars, slotVars
  <2>2. CASE End(t)
      BY <2>1, <2>2, HonestEnd
  <2>3. CASE \E pc \in {"refuse", "show"} : Goto(t, pc)
      BY <1>1, <2>1, <2>3, HonestGo
  <2> QED
      BY <1>5, <2>2, <2>3 DEF GetFreeSlots
<1>6. CASE AlertOwners(t)
  <2> DEFINE x == [task[t] EXCEPT !.pc = "notify", !.left = Owners, !.began = clock]
  <2>1. /\ task' = [task EXCEPT ![t] = x] /\ t \in DOMAIN task /\ task[t].pc = "services"
        /\ is_booked' = is_booked
      BY <1>6 DEF AlertOwners, At, storeVars, slotVars
  <2>2. x.flow = task[t].flow /\ x.pc = "notify"
      BY <1>1, <2>1 DEF Task
  <2> HIDE DEF x
  <2> QED
      BY <1>3, <2>1, <2>2
<1>7. CASE Notify(t)
  <2>1. /\ t \in DOMAIN task /\ task[t].pc = "notify" /\ is_booked' = is_booked
        /\ \E told : AfterNotice(t, told)
      BY <1>7 DEF Notify, AfterNoticeFailure, At, storeVars, slotVars
  <2>2. PICK told : AfterNotice(t, told)
      BY <2>1
  <2> DEFINE pc == IF Len(task[t].left) = 1 THEN "refuse" ELSE "notify"
             x == [task[t] EXCEPT !.left = Tail(task[t].left),
                                  !.told = task[t].told \cup told, !.pc = pc]
  <2>3. task' = [task EXCEPT ![t] = x]
      BY <2>2 DEF AfterNotice
  <2>4. pc \notin {"service", "day"}
      OBVIOUS
  <2> HIDE DEF pc
  <2>5. x.flow = task[t].flow /\ x.pc = pc
      BY <1>1, <2>1 DEF Task
  <2> HIDE DEF x
  <2> QED
      BY <1>3, <2>1, <2>3, <2>4, <2>5
<1>8. CASE GetBookings(t)
  <2> DEFINE x == [task[t] EXCEPT !.pc = "show", !.listed = Listed(task[t].user)]
  <2>1. /\ task' = [task EXCEPT ![t] = x] /\ t \in DOMAIN task /\ task[t].pc = "bookings"
        /\ is_booked' = is_booked
      BY <1>8 DEF GetBookings, At, storeVars, slotVars
  <2>2. x.flow = task[t].flow /\ x.pc = "show"
      BY <1>1, <2>1 DEF Task
  <2> HIDE DEF x
  <2> QED
      BY <1>3, <2>1, <2>2
<1>9. CASE CancelListed(t)
  <2>1. /\ DOMAIN task' = DOMAIN task
        /\ \A o \in DOMAIN task : o # t => task'[o] = Watched(o)
        /\ t \in DOMAIN task => task'[t] = [task[t] EXCEPT !.pc = "answer"]
      BY <1>9 DEF CancelListed
  <2>2. t \in DOMAIN task => task'[t].pc = "answer"
      BY <1>1, <2>1 DEF Task
  <2> QED
      BY <1>1, <2>1, <2>2, HonestWatched
<1>10. CASE ShowFails(t) \/ Answer(t)
  <2>1. End(t) /\ is_booked' = is_booked
      BY <1>10 DEF ShowFails, Answer, storeVars, slotVars
  <2> QED
      BY <2>1, HonestEnd
<1> QED
    BY <1>4, <1>5, <1>6, <1>7, <1>8, <1>9, <1>10, HonestScan DEF TaskStep

LEMMA HonestNext == CInv /\ MenusHonest /\ [CatalogueNext]_catalogueVars => MenusHonest'
<1> SUFFICES ASSUME CInv, MenusHonest, [CatalogueNext]_catalogueVars PROVE MenusHonest'
    OBVIOUS
<1>1. \A o \in DOMAIN task : task[o] \in Task
    BY DEF CInv, KInv, TasksOK, RecOK
<1>2. ASSUME NEW t, Callback(t) PROVE MenusHonest'
    BY <1>2, HonestCallback DEF Callback, storeVars, slotVars
<1>3. CASE Others
  <2>1. /\ DOMAIN task' = DOMAIN task
        /\ \A o \in DOMAIN task : task'[o] = Watched(o)
      BY <1>3 DEF Others
  <2>2. PICK t : t \notin DOMAIN task
      BY NoSetContainsEverything
  <2> QED
      BY <1>1, <2>1, <2>2, HonestWatched
<1>4. CASE EditCatalogue \/ Tick \/ UNCHANGED catalogueVars
  <2>1. task' = task /\ is_booked' = is_booked
      BY <1>4 DEF EditCatalogue, Tick, catalogueVars, alertVars, storeVars, slotVars
  <2> QED
      BY <2>1 DEF MenusHonest, FreeSlots, SlotTaken
<1>5. CASE Crash
    BY <1>5 DEF Crash, MenusHonest
<1> QED
    BY <1>2, <1>3, <1>4, <1>5, HonestTask DEF CatalogueNext

(* get_available_dates asks for one day at a time while slots are booked   *)
(* and given back: a date it names had a free slot while it asked, and one *)
(* with a slot free throughout is named, if the keyboard has room for it.  *)
THEOREM CatalogueDatesAreHonest == CatalogueSpec => []DatesAreHonest
<1>1. CatalogueInit => MenusHonest
    BY DEF CatalogueInit, MenusHonest
<1> QED
    BY <1>1, HonestNext, HonestDates, CatalogueInvariant, PTL DEF CatalogueSpec
===============================================================================
