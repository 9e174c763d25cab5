------------------------ MODULE ReminderSchedulerProofs ------------------------
(***************************************************************************)
(* Theorems about the reminder loop of ReminderScheduler, for every number *)
(* of customers, reminders, failures and crashes.                          *)
(*                                                                         *)
(* What makes a repetition possible is a window: between the message and   *)
(* the transaction that records it the row is still active.  A failure or  *)
(* a crash is what closes it without the record, and each is counted; so a *)
(* row that may be sent again has been sent no more often than there were  *)
(* failures and crashes.                                                   *)
(***************************************************************************)
EXTENDS ReminderScheduler, BookingStoreProofs

(* A reminder about to be inserted is a customer's, of a known booking, and*)
(* so is every row. *)
RowsKnown ==
    /\ \A row \in scheduling : row.user_id \in Users
    /\ \A r \in DOMAIN reminders : reminders[r].booking_id \in 1..bookingSeq

(* Rows that may still be sent, from the list or by a later pass, and the  *)
(* keys no row has had yet. *)
MaySend ==
    /\ \A r \in due \ {current} : sends[r] <= errors + crashes
    /\ \A r \in DOMAIN reminders :
          reminders[r].is_active /\ r # current => sends[r] <= errors + crashes
    /\ \A r \in 1..MaxReminders : r > reminderSeq => sends[r] = 0

(* The row being marked has been sent. *)
MarkedWasSent == pc = "mark" => sends[current] >= 1

SInv ==
    /\ SchedTypeOK
    /\ RowsKnown
    /\ MaySend
    /\ RepeatsOnlyByFaults
    /\ MarkedWasSent
    /\ InactiveWasDelivered
-------------------------------------------------------------------------------
(* What a step may do to the two tables, as far as the loop depends on it: *)
(* rows are deleted, and added active under the next key; one that becomes *)
(* inactive was sent or is of a booking that holds no slot any more.       *)
TablesStep(sent) ==
    /\ TypeOK'
    /\ bookingSeq <= bookingSeq'
    /\ reminderSeq <= reminderSeq'
    /\ \A b \in Live' : b \in Live \/ b > bookingSeq
    /\ \A r \in DOMAIN reminders' :
          \/ /\ r \in DOMAIN reminders
             /\ reminders'[r].booking_id = reminders[r].booking_id
             /\ reminders'[r].is_active => reminders[r].is_active
             /\ \/ (reminders'[r].is_active <=> reminders[r].is_active)
                \/ reminders[r].booking_id \notin Live'
                \/ r = sent
          \/ /\ r = reminderSeq + 1
             /\ r <= reminderSeq'
             /\ reminders'[r].is_active
             /\ reminders'[r].booking_id \in 1..bookingSeq

(* The SMT backend does not add a primed variable: sums of primed ones are *)
(* compared by this fact, or rewritten to unprimed ones. *)
LEMMA SumNat == \A a, b \in Nat : 0 <= a + b
    OBVIOUS

LEMMA StillTables ==
    ASSUME TypeOK, UNCHANGED storeVars
    PROVE  TablesStep(0)
    BY TypeNext DEF TablesStep, storeVars, slotVars, reminderVars, Live, TypeOK

LEMMA BookTables ==
    ASSUME TypeOK, NEW u \in Users, NEW s \in Slots, BookSlot(u, s)
    PROVE  TablesStep(0)
<1>1. TypeOK'
    BY TypeNext DEF Next
<1>2. /\ reminders' = reminders
      /\ reminderSeq' = reminderSeq
      /\ bookingSeq' = bookingSeq + 1
    BY DEF BookSlot, reminderVars
<1>3. \A b \in Live' : b \in Live \/ b > bookingSeq
    BY FreshKey DEF BookSlot, Insert, Live, NextBookingId, TypeOK
<1> QED
    BY <1>1, <1>2, <1>3 DEF TablesStep, TypeOK

LEMMA CancelTables ==
    ASSUME TypeOK, NEW b \in 1..bookingSeq, NEW u \in Users, CancelBooking(b, u)
    PROVE  TablesStep(0)
<1>1. TypeOK'
    BY TypeNext DEF Next
<1>2. /\ reminderSeq' = reminderSeq
      /\ bookingSeq' = bookingSeq
      /\ DOMAIN bookings' = DOMAIN bookings
      /\ DOMAIN reminders' = DOMAIN reminders
    BY DEF CancelBooking
<1>3. /\ \A c \in DOMAIN bookings : c # b => bookings'[c] = bookings[c]
      /\ bookings'[b].status = "cancelled"
    BY DEF CancelBooking, Cancellable, TypeOK, Booking
<1>4. \A c \in Live' : c \in Live
    BY <1>2, <1>3 DEF Live
<1>5. b \notin Live'
    BY <1>3 DEF Live
<1>6. ASSUME NEW r \in DOMAIN reminders
      PROVE  /\ reminders'[r].booking_id = reminders[r].booking_id
             /\ reminders'[r].is_active => reminders[r].is_active
             /\ \/ (reminders'[r].is_active <=> reminders[r].is_active)
                \/ reminders[r].booking_id = b
  <2>1. reminders[r] \in Reminder
      BY DEF TypeOK
  <2>2. CASE reminders[r].booking_id = b
      BY <2>1, <2>2 DEF CancelBooking, Reminder
  <2>3. CASE reminders[r].booking_id # b
      BY <2>1, <2>3 DEF CancelBooking, Reminder
  <2> QED
      BY <2>2, <2>3
<1> QED
    BY <1>1, <1>2, <1>4, <1>5, <1>6 DEF TablesStep, TypeOK

LEMMA PaidTables ==
    ASSUME TypeOK, NEW b \in 1..bookingSeq, MarkBookingPaid(b)
    PROVE  TablesStep(0)
<1>1. TypeOK'
    BY TypeNext DEF Next
<1>2. /\ reminders' = reminders
      /\ reminderSeq' = reminderSeq
      /\ bookingSeq' = bookingSeq
      /\ DOMAIN bookings' = DOMAIN bookings
    BY DEF MarkBookingPaid, reminderVars
<1>3. \A c \in Live' : c \in Live
    BY <1>2 DEF MarkBookingPaid, Payable, Live
<1> QED
    BY <1>1, <1>2, <1>3 DEF TablesStep, TypeOK

LEMMA DeleteTables ==
    ASSUME TypeOK, NEW u \in Users, DeleteUserData(u)
    PROVE  TablesStep(0)
<1>1. TypeOK'
    BY TypeNext DEF Next
<1>2. /\ reminderSeq' = reminderSeq
      /\ bookingSeq' = bookingSeq
      /\ \A r \in DOMAIN reminders' : r \in DOMAIN reminders /\ reminders'[r] = reminders[r]
      /\ \A c \in DOMAIN bookings' : c \in DOMAIN bookings /\ bookings'[c] = bookings[c]
    BY DEF DeleteUserData, Delete, Restrict
<1>3. \A c \in Live' : c \in Live
    BY <1>2 DEF Live
<1> QED
    BY <1>1, <1>2, <1>3 DEF TablesStep, TypeOK

LEMMA CreateTables ==
    ASSUME TypeOK, NEW b \in 1..bookingSeq, NEW u \in Users, NEW at \in Times,
           CreateReminder(b, u, at)
    PROVE  TablesStep(0)
<1>1. TypeOK'
    BY TypeNext DEF Next
<1>2. /\ bookings' = bookings
      /\ bookingSeq' = bookingSeq
      /\ reminderSeq' = reminderSeq + 1
      /\ DOMAIN reminders' = DOMAIN reminders \cup {reminderSeq + 1}
      /\ \A r \in DOMAIN reminders : reminders'[r] = reminders[r]
      /\ reminders'[reminderSeq + 1].is_active
      /\ reminders'[reminderSeq + 1].booking_id = b
    BY FreshKey DEF CreateReminder, slotVars, Insert
<1>3. Live' = Live
    BY <1>2 DEF Live
<1> QED
    BY <1>1, <1>2, <1>3 DEF TablesStep, TypeOK

LEMMA MarkTables ==
    ASSUME TypeOK, NEW r \in 1..reminderSeq, MarkSent(r)
    PROVE  TablesStep(r)
<1>1. TypeOK'
    BY TypeNext DEF Next
<1>2. /\ bookings' = bookings
      /\ bookingSeq' = bookingSeq
      /\ reminderSeq' = reminderSeq
    BY DEF MarkSent, slotVars
<1>3. /\ DOMAIN reminders' = DOMAIN reminders
      /\ \A q \in DOMAIN reminders : q # r => reminders'[q] = reminders[q]
    BY DEF MarkSent
<1>4. r \in DOMAIN reminders =>
          /\ reminders'[r].booking_id = reminders[r].booking_id
          /\ ~reminders'[r].is_active
    BY DEF MarkSent, TypeOK, Reminder
<1>5. Live' = Live
    BY <1>2 DEF Live
<1> QED
    BY <1>1, <1>2, <1>3, <1>4, <1>5 DEF TablesStep, TypeOK
-------------------------------------------------------------------------------
(* What the sent messages and the tables decide, when neither the loop nor *)
(* the schedulers move: MaySend, RepeatsOnlyByFaults, InactiveWasDelivered.*)
LEMMA InvInit == SchedInit => SInv
<1> SUFFICES ASSUME SchedInit PROVE SInv
    OBVIOUS
<1>1. TypeOK /\ DOMAIN reminders = {} /\ reminderSeq = 0 /\ bookingSeq = 0
    BY InitIInv DEF SchedInit, IInv, Init
<1>2. SchedTypeOK
    BY <1>1, SchedulerAssumption, StoreAssumption DEF SchedTypeOK, SchedInit
<1> QED
    BY <1>1, <1>2, StoreAssumption DEF SInv, SchedInit, RowsKnown, MaySend, MarkedWasSent,
       RepeatsOnlyByFaults, InactiveWasDelivered

(* A customer's transaction, or the insertion of a reminder: the tables    *)
(* move by it, and the loop does not. *)
LEMMA CustomersTables ==
    ASSUME SchedTypeOK, RowsKnown, Customers
    PROVE  /\ TablesStep(0)
           /\ \A row \in scheduling' : /\ row.booking_id \in 1..bookingSeq
                                       /\ row.fire_at \in Times
                                       /\ row.user_id \in Users
<1> DEFINE RowsOK(R) == \A row \in R : /\ row.booking_id \in 1..bookingSeq
                                       /\ row.fire_at \in Times
                                       /\ row.user_id \in Users
<1> USE DEF SchedTypeOK
<1>0. TypeOK /\ RowsOK(scheduling)
    BY DEF RowsKnown
<1>1. ASSUME NEW u \in Users, NEW s \in Slots, BookSlot(u, s), UNCHANGED scheduling
      PROVE  TablesStep(0) /\ RowsOK(scheduling')
    BY <1>0, <1>1, BookTables
<1>2. ASSUME NEW b \in 1..bookingSeq, NEW u \in Users, CancelBooking(b, u), UNCHANGED scheduling
      PROVE  TablesStep(0) /\ RowsOK(scheduling')
    BY <1>0, <1>2, CancelTables
<1>3. ASSUME NEW b \in 1..bookingSeq, MarkBookingPaid(b), UNCHANGED scheduling
      PROVE  TablesStep(0) /\ RowsOK(scheduling')
    BY <1>0, <1>3, PaidTables
<1>4. ASSUME NEW u \in Users, DeleteUserData(u), UNCHANGED scheduling
      PROVE  TablesStep(0) /\ RowsOK(scheduling')
    BY <1>0, <1>4, DeleteTables
<1>5. ASSUME NEW b \in 1..bookingSeq, NEW at \in Times, ReadRow(b, at)
      PROVE  TablesStep(0) /\ RowsOK(scheduling')
  <2>1. TablesStep(0)
      BY <1>0, <1>5, StillTables DEF ReadRow
  <2>2. bookings[b].client_user_id \in Users
      BY <1>0, <1>5 DEF ReadRow, TypeOK, Booking
  <2> QED
      BY <1>0, <1>5, <2>1, <2>2 DEF ReadRow
<1>6. ASSUME NEW row \in scheduling, Create(row)
      PROVE  TablesStep(0) /\ RowsOK(scheduling')
  <2>1. /\ row.booking_id \in 1..bookingSeq
        /\ row.user_id \in Users
        /\ row.fire_at \in Times
      BY <1>0
  <2>2. TablesStep(0)
      BY <1>0, <1>6, <2>1, CreateTables DEF Create
  <2> QED
      BY <1>0, <1>6, <2>2 DEF Create
<1> QED
    BY <1>1, <1>2, <1>3, <1>4, <1>5, <1>6 DEF Customers

(* The loop's part of the bookkeeping: no list entry beyond the keys given *)
(* out, and no message without a fault that pays for it or a row that is   *)
(* then marked; done is the row marked by the step, 0 for none.            *)
LoopStep(done) ==
    /\ errors' \in Nat /\ crashes' \in Nat
    /\ done # 0 => /\ done = current
                   /\ pc = "mark"
                   /\ done \in DOMAIN reminders' => ~reminders'[done].is_active
    /\ current' \in 0..reminderSeq
    /\ due' \subseteq 1..reminderSeq
    /\ sends' \in [1..MaxReminders -> Nat]
    /\ \A r \in 1..MaxReminders :
          /\ r > reminderSeq => sends'[r] = sends[r]
          /\ sends[r] <= sends'[r]
          /\ sends'[r] <= 1 + errors' + crashes'
    /\ \A r \in due' \ {current'} : sends'[r] <= errors' + crashes'
    /\ \A r \in DOMAIN reminders :
          reminders[r].is_active /\ r # current' /\ r # done => sends'[r] <= errors' + crashes'

(* Such a step keeps what the invariant says about the rows. *)
LEMMA BookkeepingKept ==
    ASSUME SInv, NEW done \in 0..reminderSeq, TablesStep(done), LoopStep(done)
    PROVE  MaySend' /\ RepeatsOnlyByFaults' /\ InactiveWasDelivered'
           /\ \A r \in DOMAIN reminders' : reminders'[r].booking_id \in 1..bookingSeq'
<1> USE SchedulerAssumption, StoreAssumption
<1>1. TypeOK /\ TypeOK'
    BY DEF SInv, SchedTypeOK, TablesStep
<1>2. /\ bookingSeq \in Nat /\ bookingSeq' \in Nat /\ bookingSeq <= bookingSeq'
      /\ reminderSeq \in 0..MaxReminders /\ reminderSeq' \in 0..MaxReminders
      /\ reminderSeq <= reminderSeq'
      /\ DOMAIN reminders \subseteq 1..reminderSeq
      /\ DOMAIN reminders' \subseteq 1..reminderSeq'
      /\ sends \in [1..MaxReminders -> Nat]
    BY <1>1 DEF TypeOK, TablesStep, SInv, SchedTypeOK
<1>d. errors' \in Nat /\ crashes' \in Nat
    BY DEF LoopStep
<1>e. \A r \in 1..MaxReminders : sends'[r] <= 1 + errors' + crashes'
    BY DEF LoopStep
<1>b. \A b \in Live' : b \in Live \/ b > bookingSeq
    BY DEF TablesStep
<1>c. \A r \in DOMAIN reminders' :
          \/ /\ r \in DOMAIN reminders
             /\ reminders'[r].booking_id = reminders[r].booking_id
             /\ reminders'[r].is_active => reminders[r].is_active
             /\ \/ (reminders'[r].is_active <=> reminders[r].is_active)
                \/ reminders[r].booking_id \notin Live'
                \/ r = done
          \/ /\ r = reminderSeq + 1
             /\ r <= reminderSeq'
             /\ reminders'[r].is_active
             /\ reminders'[r].booking_id \in 1..bookingSeq
    BY DEF TablesStep
<1>3. MaySend'
  <2>1. \A r \in 1..MaxReminders : r > reminderSeq => sends'[r] = 0
      BY DEF SInv, MaySend, LoopStep
  <2>2. ASSUME NEW r \in DOMAIN reminders', reminders'[r].is_active, r # current'
        PROVE  sends'[r] <= errors' + crashes'
    <3>1. CASE r \in DOMAIN reminders /\ (reminders'[r].is_active => reminders[r].is_active)
      <4>1. r # 0
          BY <1>2, <3>1
      <4>2. done # 0 => (done \in DOMAIN reminders' => ~reminders'[done].is_active)
          BY DEF LoopStep
      <4>3. r # done
          BY <2>2, <4>1, <4>2, Zenon
      <4> QED
          BY <2>2, <3>1, <4>3 DEF LoopStep
    <3>2. CASE r = reminderSeq + 1 /\ r <= reminderSeq'
      <4>1. sends'[r] = 0
          BY <1>2, <2>1, <3>2
      <4>2. 0 <= errors' + crashes'
          BY <1>d, SumNat, Zenon
      <4> QED
          BY <4>1, <4>2, Zenon
    <3> QED
        BY <1>c, <2>2, <3>1, <3>2
  <2> QED
      BY <1>2, <2>1, <2>2 DEF MaySend, LoopStep
<1>4. RepeatsOnlyByFaults'
    BY <1>2, <1>d, <1>e DEF RepeatsOnlyByFaults, LoopStep
<1>5. ASSUME NEW r \in DOMAIN reminders'
      PROVE  reminders'[r].booking_id \in 1..bookingSeq'
    BY <1>2, <1>c DEF SInv, RowsKnown
<1>6. ASSUME NEW r \in DOMAIN reminders', ~reminders'[r].is_active,
             reminders'[r].booking_id \in Live'
      PROVE  sends'[r] >= 1
  <2>1. /\ r \in DOMAIN reminders
        /\ reminders'[r].booking_id = reminders[r].booking_id
        /\ (reminders'[r].is_active <=> reminders[r].is_active) \/ r = done
      BY <1>6, <1>c
  <2>2. r \in 1..MaxReminders /\ sends[r] \in Nat /\ sends'[r] \in Nat
      BY <1>2, <2>1 DEF LoopStep
  <2>3. reminders[r].booking_id \in Live
    <3>1. reminders[r].booking_id \in 1..bookingSeq
        BY <2>1 DEF SInv, RowsKnown
    <3> QED
        BY <1>2, <1>6, <1>b, <2>1, <3>1
  <2>4. CASE ~reminders[r].is_active
    <3>1. sends[r] >= 1
        BY <2>1, <2>3, <2>4 DEF SInv, InactiveWasDelivered
    <3> QED
        BY <2>2, <3>1 DEF LoopStep
  <2>5. CASE reminders[r].is_active
    <3>1. r = done /\ done # 0
        BY <1>2, <1>6, <2>1, <2>5
    <3>2. sends[r] >= 1
        BY <3>1 DEF SInv, MarkedWasSent, LoopStep
    <3> QED
        BY <2>2, <3>2 DEF LoopStep
  <2> QED
      BY <2>4, <2>5
<1> QED
    BY <1>3, <1>4, <1>5, <1>6 DEF InactiveWasDelivered
-------------------------------------------------------------------------------
(* The steps, one lemma each.  What the loop holds, apart from the tables. *)
LoopTyped ==
    /\ now \in 0..MaxTime
    /\ \A row \in scheduling : /\ row.booking_id \in 1..bookingSeq
                               /\ row.fire_at \in Times
                               /\ row.user_id \in Users
    /\ pc \in {"sleep", "send", "mark"}
    /\ due \subseteq 1..reminderSeq
    /\ IF pc = "mark" THEN current \in due ELSE current = 0
    /\ pc = "sleep" => due = {}
    /\ sends \in [1..MaxReminders -> Nat]
    /\ errors \in 0..MaxErrors
    /\ crashes \in 0..MaxCrashes

LEMMA InvSplit ==
    /\ SInv => LoopTyped /\ TypeOK
    /\ TypeOK /\ LoopTyped /\ MarkedWasSent /\ MaySend /\ RepeatsOnlyByFaults
          /\ InactiveWasDelivered
          /\ (\A r \in DOMAIN reminders : reminders[r].booking_id \in 1..bookingSeq)
       => SInv
    BY DEF SInv, LoopTyped, SchedTypeOK, RowsKnown

(* What the steps below use of the invariant, once.                        *)
LEMMA LoopFacts ==
    ASSUME SInv
    PROVE  /\ errors \in Nat /\ crashes \in Nat
           /\ reminderSeq \in 0..MaxReminders /\ 0 \in 0..reminderSeq
           /\ 1..reminderSeq \subseteq 1..MaxReminders
           /\ DOMAIN reminders \subseteq 1..reminderSeq
           /\ due \subseteq 1..reminderSeq /\ current \in 0..reminderSeq
           /\ sends \in [1..MaxReminders -> Nat]
           /\ \A q \in 1..MaxReminders : sends[q] <= 1 + errors + crashes
           /\ \A q \in due \ {current} : sends[q] <= errors + crashes
           /\ \A q \in DOMAIN reminders :
                 reminders[q].is_active /\ q # current => sends[q] <= errors + crashes
<1>1. LoopTyped /\ TypeOK
    BY InvSplit
<1>2. reminderSeq \in 0..MaxReminders /\ MaxReminders \in Nat
    BY <1>1, StoreAssumption DEF TypeOK
<1>3. DOMAIN reminders \subseteq 1..reminderSeq
    BY <1>1 DEF TypeOK
<1>4. /\ 0 \in 0..reminderSeq /\ 1..reminderSeq \subseteq 1..MaxReminders
      /\ 1..reminderSeq \subseteq 0..reminderSeq
    BY <1>2
<1>5. errors \in Nat /\ crashes \in Nat
    BY <1>1, SchedulerAssumption DEF LoopTyped
<1>6. /\ due \subseteq 1..reminderSeq /\ current \in 0..reminderSeq
      /\ sends \in [1..MaxReminders -> Nat]
    BY <1>1, <1>4 DEF LoopTyped
<1>7. \A q \in 1..MaxReminders : sends[q] <= 1 + errors + crashes
    BY DEF SInv, RepeatsOnlyByFaults
<1>8. /\ \A q \in due \ {current} : sends[q] <= errors + crashes
      /\ \A q \in DOMAIN reminders :
            reminders[q].is_active /\ q # current => sends[q] <= errors + crashes
    BY DEF SInv, MaySend
<1> QED
    BY <1>2, <1>3, <1>4, <1>5, <1>6, <1>7, <1>8

(* A step that leaves the loop's counts alone, whatever it does to due.    *)
LEMMA LoopStill ==
    ASSUME SInv, UNCHANGED <<current, sends, errors, crashes>>,
           due' \subseteq due \/ due' \subseteq {r \in DOMAIN reminders : reminders[r].is_active},
           current = 0 \/ due' \subseteq due
    PROVE  LoopStep(0)
<1>1. /\ errors' \in Nat /\ crashes' \in Nat /\ current' \in 0..reminderSeq
      /\ due' \subseteq 1..reminderSeq
      /\ sends' \in [1..MaxReminders -> Nat]
    BY LoopFacts
<1>2. \A q \in due' \ {current'} : sends[q] <= errors + crashes
    BY LoopFacts
<1>3. \A q \in 1..MaxReminders : sends[q] <= sends[q] /\ sends[q] <= 1 + errors + crashes
    BY LoopFacts
<1>4. \A q \in DOMAIN reminders :
          reminders[q].is_active /\ q # current => sends[q] <= errors + crashes
    BY LoopFacts
<1> QED
    BY <1>1, <1>2, <1>3, <1>4, Zenon DEF LoopStep

(* To show that a step keeps the invariant: the tables, the loop's part,   *)
(* its types, and the message behind a mark. *)
LEMMA StepKeeps ==
    ASSUME SInv, NEW done \in 0..reminderSeq, TablesStep(done), LoopStep(done),
           LoopTyped', MarkedWasSent'
    PROVE  SInv'
<1>1. TypeOK'
    BY DEF TablesStep
<1> QED
    BY <1>1, BookkeepingKept, InvSplit DEF SInv, LoopTyped, SchedTypeOK, RowsKnown

LEMMA CustomersKeep == SInv /\ Customers => SInv'
<1> SUFFICES ASSUME SInv, Customers PROVE SInv'
    OBVIOUS
<1> USE StoreAssumption, SchedulerAssumption
<1>1. SchedTypeOK /\ RowsKnown /\ LoopTyped /\ TypeOK
    BY InvSplit DEF SInv
<1>2. /\ TablesStep(0)
      /\ \A row \in scheduling' : /\ row.booking_id \in 1..bookingSeq
                                  /\ row.fire_at \in Times
                                  /\ row.user_id \in Users
    BY <1>1, CustomersTables
<1>3. UNCHANGED <<loopVars, now, crashes>>
    BY DEF Customers
<1>4. LoopStep(0)
    BY <1>3, LoopStill DEF loopVars
<1>5. LoopTyped'
  <2>1. /\ 1..bookingSeq \subseteq 1..bookingSeq'
        /\ 1..reminderSeq \subseteq 1..reminderSeq'
      BY <1>1, <1>2 DEF TablesStep, TypeOK
  <2>2. UNCHANGED <<pc, due, current, sends, errors, now, crashes>>
      BY <1>3 DEF loopVars
  <2> QED
      BY <1>1, <1>2, <2>1, <2>2 DEF LoopTyped
<1>6. MarkedWasSent'
    BY <1>3 DEF SInv, MarkedWasSent, loopVars
<1>7. 0 \in 0..reminderSeq
    BY <1>1 DEF TypeOK
<1> QED
    BY <1>2, <1>4, <1>5, <1>6, <1>7, StepKeeps

(* Nothing but the clock moves. *)
LEMMA TickKeeps == SInv /\ Tick => SInv'
<1> SUFFICES ASSUME SInv, Tick PROVE SInv'
    OBVIOUS
<1> USE StoreAssumption, SchedulerAssumption
<1>1. LoopTyped /\ TypeOK
    BY InvSplit
<1>2. /\ UNCHANGED <<storeVars, scheduling, loopVars, crashes>>
      /\ now' \in 0..MaxTime
    BY <1>1 DEF Tick, LoopTyped
<1>3. TablesStep(0)
    BY <1>1, <1>2, StillTables
<1>4. LoopStep(0)
    BY <1>2, LoopStill DEF loopVars
<1>5. LoopTyped'
    BY <1>1, <1>2 DEF LoopTyped, loopVars, storeVars, slotVars, reminderVars
<1>6. MarkedWasSent'
    BY <1>2 DEF SInv, MarkedWasSent, loopVars
<1>7. 0 \in 0..reminderSeq
    BY <1>1 DEF TypeOK
<1> QED
    BY <1>3, <1>4, <1>5, <1>6, <1>7, StepKeeps

(* A pass begins with rows that are still active, and ends. *)
LEMMA FetchKeeps == SInv /\ (Fetch \/ EndPass) /\ UNCHANGED <<scheduling, now, crashes>> => SInv'
<1> SUFFICES ASSUME SInv, Fetch \/ EndPass, UNCHANGED <<scheduling, now, crashes>> PROVE SInv'
    OBVIOUS
<1> USE StoreAssumption, SchedulerAssumption
<1>1. LoopTyped /\ TypeOK
    BY InvSplit
<1>2. /\ UNCHANGED <<storeVars, current, sends, errors, scheduling, now, crashes>>
      /\ current = 0
      /\ pc' \in {"send", "sleep"}
      /\ due' \subseteq {r \in DOMAIN reminders : reminders[r].is_active}
      /\ pc' = "sleep" => due' = {}
    BY <1>1 DEF Fetch, EndPass, PassOver, LoopTyped, Due
<1>3. TablesStep(0)
    BY <1>1, <1>2, StillTables
<1>4. LoopStep(0)
    BY <1>2, LoopStill
<1>5. LoopTyped'
    BY <1>1, <1>2 DEF LoopTyped, TypeOK, storeVars, slotVars, reminderVars
<1>6. MarkedWasSent'
    BY <1>2 DEF MarkedWasSent
<1>7. 0 \in 0..reminderSeq
    BY <1>1 DEF TypeOK
<1> QED
    BY <1>3, <1>4, <1>5, <1>6, <1>7, StepKeeps

(* A message: its row has been sent no more often than there were faults,  *)
(* and is now the one that is marked. *)
LEMMA SendKeeps ==
    ASSUME SInv, NEW r \in due, Send(r), UNCHANGED <<scheduling, now, crashes>>
    PROVE  SInv'
<1> USE StoreAssumption, SchedulerAssumption
<1>1. LoopTyped /\ TypeOK
    BY InvSplit
<1>2. /\ UNCHANGED <<storeVars, due, errors, scheduling, now, crashes>>
      /\ current = 0
      /\ current' = r
      /\ pc' = "mark"
      /\ sends' = [sends EXCEPT ![r] = @ + 1]
    BY <1>1 DEF Send, LoopTyped
<1>3. /\ r \in 1..reminderSeq
      /\ r \in 1..MaxReminders
      /\ sends[r] \in Nat
      /\ sends[r] <= errors + crashes
  <2>1. r \in 1..reminderSeq /\ r \in 1..MaxReminders /\ sends[r] \in Nat
      BY LoopFacts
  <2>2. r \in due \ {current}
      BY <1>2, <2>1
  <2> QED
      BY <2>1, <2>2, LoopFacts
<1>4. /\ sends' \in [1..MaxReminders -> Nat]
      /\ sends'[r] = sends[r] + 1
      /\ \A q \in 1..MaxReminders : q # r => sends'[q] = sends[q]
    BY <1>1, <1>2, <1>3 DEF LoopTyped
<1>5. TablesStep(0)
    BY <1>1, <1>2, StillTables
<1>6. LoopStep(0)
  <2>1. /\ errors' \in Nat /\ crashes' \in Nat
        /\ errors' = errors /\ crashes' = crashes /\ errors \in Nat /\ crashes \in Nat
        /\ current' \in 0..reminderSeq
        /\ due' \subseteq 1..reminderSeq
        /\ \A q \in 1..MaxReminders : sends[q] \in Nat /\ sends[q] <= 1 + errors + crashes
    <3>1. 1..reminderSeq \subseteq 0..reminderSeq
        OBVIOUS
    <3> QED
        BY <1>2, <1>3, <3>1, LoopFacts
  <2>2. \A q \in 1..MaxReminders :
            /\ q > reminderSeq => sends'[q] = sends[q]
            /\ sends[q] <= sends'[q]
            /\ sends'[q] <= 1 + errors' + crashes'
    <3> TAKE q \in 1..MaxReminders
    <3>1. sends'[q] <= 1 + errors + crashes
      <4>1. sends[r] + 1 <= 1 + errors + crashes
          BY <1>3, <2>1
      <4>2. CASE q = r
          BY <1>4, <4>1, <4>2, Zenon
      <4>3. CASE q # r
          BY <1>4, <2>1, <4>3, Zenon
      <4> QED
          BY <4>2, <4>3
    <3>2. sends'[q] <= 1 + errors' + crashes'
        BY <2>1, <3>1, Zenon
    <3>3. (q > reminderSeq => sends'[q] = sends[q]) /\ sends[q] <= sends'[q]
      <4>1. r <= reminderSeq /\ sends[r] <= sends[r] + 1 /\ sends[q] <= sends[q]
          BY <1>3, <2>1
      <4>2. r \in 1..reminderSeq /\ reminderSeq \in Nat
          BY <1>3, LoopFacts
      <4>3. CASE q = r
          BY <1>4, <4>1, <4>2, <4>3
      <4>4. CASE q # r
          BY <1>4, <4>1, <4>4, Zenon
      <4> QED
          BY <4>3, <4>4
    <3> QED
        BY <3>2, <3>3, Zenon
  <2>3. \A q \in due' \ {current'} : sends'[q] <= errors' + crashes'
    <3> SUFFICES ASSUME NEW q \in due' \ {current'} PROVE sends'[q] <= errors' + crashes'
        OBVIOUS
    <3>1. q \in 1..MaxReminders /\ q # r /\ q \in due \ {current}
        BY <1>2, LoopFacts
    <3> QED
        BY <1>4, <2>1, <3>1, LoopFacts, Zenon
  <2>4. \A q \in DOMAIN reminders :
            reminders[q].is_active /\ q # current' => sends'[q] <= errors' + crashes'
    <3> SUFFICES ASSUME NEW q \in DOMAIN reminders, reminders[q].is_active, q # current'
                 PROVE  sends'[q] <= errors' + crashes'
        OBVIOUS
    <3>1. q \in 1..MaxReminders /\ q # r /\ q # current
        BY <1>2, LoopFacts
    <3> QED
        BY <1>4, <2>1, <3>1, LoopFacts, Zenon
  <2> QED
      BY <1>4, <2>1, <2>2, <2>3, <2>4 DEF LoopStep
<1>7. LoopTyped'
    BY <1>1, <1>2, <1>4 DEF LoopTyped, storeVars, slotVars, reminderVars
<1>8. MarkedWasSent'
    BY <1>2, <1>3, <1>4 DEF MarkedWasSent
<1>9. 0 \in 0..reminderSeq
    BY <1>1 DEF TypeOK
<1> QED
    BY <1>5, <1>6, <1>7, <1>8, <1>9, StepKeeps

(* The row's transaction: it has been sent, and is not active any more. *)
LEMMA MarkKeeps ==
    ASSUME SInv, Mark, UNCHANGED <<scheduling, now, crashes>>
    PROVE  SInv'
<1> USE StoreAssumption, SchedulerAssumption
<1>1. LoopTyped /\ TypeOK
    BY InvSplit
<1>2. /\ UNCHANGED <<sends, errors, scheduling, now, crashes>>
      /\ pc = "mark" /\ pc' = "send"
      /\ current \in due /\ current' = 0
      /\ due' = due \ {current}
      /\ MarkSent(current)
    BY <1>1 DEF Mark, LoopTyped
<1>3. /\ current \in 1..reminderSeq
      /\ current \in 0..reminderSeq
      /\ 0 \in 0..reminderSeq
      /\ current # 0
    BY <1>1, <1>2 DEF LoopTyped, TypeOK
<1>4. TablesStep(current)
    BY <1>1, <1>2, <1>3, MarkTables
<1>5. /\ UNCHANGED <<bookingSeq, reminderSeq>>
      /\ current \in DOMAIN reminders' => ~reminders'[current].is_active
    BY <1>1, <1>2 DEF MarkSent, slotVars, TypeOK, Reminder
<1>6. LoopStep(current)
  <2>1. /\ errors' \in Nat /\ crashes' \in Nat
        /\ errors' = errors /\ crashes' = crashes
        /\ current' \in 0..reminderSeq
        /\ due' \subseteq 1..reminderSeq
        /\ sends' \in [1..MaxReminders -> Nat]
      BY <1>1, <1>2, <1>3 DEF LoopTyped
  <2>2. \A q \in 1..MaxReminders :
            /\ q > reminderSeq => sends'[q] = sends[q]
            /\ sends[q] <= sends'[q]
            /\ sends'[q] <= 1 + errors' + crashes'
      BY <1>1, <1>2 DEF LoopTyped, SInv, RepeatsOnlyByFaults
  <2>3. /\ \A q \in due' \ {current'} : sends'[q] <= errors' + crashes'
        /\ \A q \in DOMAIN reminders :
              reminders[q].is_active /\ q # current' /\ q # current
                  => sends'[q] <= errors' + crashes'
      BY <1>2 DEF SInv, MaySend
  <2> QED
      BY <1>2, <1>5, <2>1, <2>2, <2>3 DEF LoopStep
<1>7. LoopTyped'
    BY <1>1, <1>2, <1>3, <1>5 DEF LoopTyped
<1>8. MarkedWasSent'
    BY <1>2 DEF MarkedWasSent
<1> QED
    BY <1>3, <1>4, <1>6, <1>7, <1>8, StepKeeps

(* A step that counts a fault, and may have sent one more message of a     *)
(* row that was not being marked: every row's bound has room for it. *)
LEMMA FaultKeeps ==
    ASSUME SInv, UNCHANGED storeVars, LoopTyped', pc' # "mark",
           errors' + crashes' = 1 + errors + crashes,
           due' \subseteq due,
           \/ sends' = sends
           \/ \E r \in due \ {current} : sends' = [sends EXCEPT ![r] = @ + 1]
    PROVE  SInv'
<1> USE StoreAssumption, SchedulerAssumption
<1>1. LoopTyped /\ TypeOK
    BY InvSplit
<1>2. TablesStep(0)
    BY <1>1, StillTables
<1>3. /\ errors \in Nat /\ crashes \in Nat
      /\ 0 \in 0..reminderSeq
      /\ reminderSeq \in 0..MaxReminders
      /\ DOMAIN reminders \subseteq 1..reminderSeq
      /\ due \subseteq 1..reminderSeq
      /\ sends \in [1..MaxReminders -> Nat]
      /\ \A q \in 1..MaxReminders : sends[q] \in Nat /\ sends[q] <= 1 + errors + crashes
      /\ \A q \in due \ {current} : sends[q] <= errors + crashes
    BY LoopFacts
<1>4. /\ sends' \in [1..MaxReminders -> Nat]
      /\ \A q \in 1..MaxReminders :
            /\ q > reminderSeq => sends'[q] = sends[q]
            /\ sends[q] <= sends'[q]
            /\ sends'[q] <= 1 + errors + crashes
  <2>1. CASE sends' = sends
      BY <1>3, <2>1
  <2>2. ASSUME NEW r \in due \ {current}, sends' = [sends EXCEPT ![r] = @ + 1]
        PROVE  /\ sends' \in [1..MaxReminders -> Nat]
               /\ \A q \in 1..MaxReminders :
                     /\ q > reminderSeq => sends'[q] = sends[q]
                     /\ sends[q] <= sends'[q]
                     /\ sends'[q] <= 1 + errors + crashes
    <3>1. /\ r \in 1..MaxReminders /\ r <= reminderSeq
          /\ sends[r] \in Nat /\ sends[r] <= errors + crashes
        BY <1>3
    <3>2. /\ sends' \in [1..MaxReminders -> Nat]
          /\ sends'[r] = sends[r] + 1
          /\ \A q \in 1..MaxReminders : q # r => sends'[q] = sends[q]
        BY <1>3, <2>2, <3>1
    <3>3. sends[r] <= sends[r] + 1 /\ sends[r] + 1 <= 1 + errors + crashes
        BY <1>3, <3>1
    <3>4. \A q \in 1..MaxReminders : q # r => sends[q] <= sends[q]
        BY <1>3
    <3>5. r > reminderSeq => FALSE
        BY <1>3, <3>1
    <3> QED
        BY <1>3, <3>1, <3>2, <3>3, <3>4, <3>5, Zenon
  <2> QED
      BY <2>1, <2>2
<1>5. \A q \in 1..MaxReminders : sends'[q] <= errors' + crashes'
    BY <1>4, Zenon
<1>6. /\ errors' \in Nat /\ crashes' \in Nat
      /\ current' \in 0..reminderSeq
      /\ due' \subseteq 1..reminderSeq
    BY <1>3 DEF LoopTyped
<1>7. \A q \in 1..MaxReminders : sends'[q] <= 1 + errors' + crashes'
  <2>1. \A a, b, n \in Nat : n <= a + b => n <= 1 + a + b
      OBVIOUS
  <2> QED
      BY <1>4, <1>5, <1>6, <2>1, Zenon
<1>8. LoopStep(0)
  <2>1. due' \subseteq 1..MaxReminders /\ DOMAIN reminders \subseteq 1..MaxReminders
      BY <1>3, <1>6
  <2>2. /\ \A q \in due' \ {current'} : sends'[q] <= errors' + crashes'
        /\ \A q \in DOMAIN reminders : sends'[q] <= errors' + crashes'
      BY <1>5, <2>1, Zenon
  <2> QED
      BY <1>4, <1>6, <1>7, <2>2, Zenon DEF LoopStep
<1> QED
    BY <1>2, <1>3, <1>8, StepKeeps DEF MarkedWasSent

(* A chat that rejects the message: the row stays due, and leaves the list.*)
LEMMA RefusedKeeps ==
    ASSUME SInv, NEW r \in due, Refused(r), UNCHANGED <<scheduling, now, crashes>>
    PROVE  SInv'
<1> USE StoreAssumption, SchedulerAssumption
<1>1. LoopTyped /\ TypeOK
    BY InvSplit
<1>2. /\ UNCHANGED <<storeVars, pc, current, sends, errors, scheduling, now, crashes>>
      /\ pc = "send" /\ current = 0
      /\ due' \subseteq due
    BY <1>1 DEF Refused, AfterFailure, LoopTyped
<1>3. TablesStep(0)
    BY <1>1, <1>2, StillTables
<1>4. LoopStep(0)
    BY <1>2, LoopStill
<1>5. LoopTyped'
    BY <1>1, <1>2 DEF LoopTyped, storeVars, slotVars, reminderVars
<1>6. MarkedWasSent'
    BY <1>2 DEF MarkedWasSent
<1>7. 0 \in 0..reminderSeq
    BY <1>1 DEF TypeOK
<1> QED
    BY <1>3, <1>4, <1>5, <1>6, <1>7, StepKeeps

(* A call that times out, a transaction that raises, and a crash. *)
LEMMA FailsKeep == SInv /\ LoopFails => SInv'
<1> SUFFICES ASSUME SInv, LoopFails PROVE SInv'
    OBVIOUS
<1> USE StoreAssumption, SchedulerAssumption
<1>1. LoopTyped /\ TypeOK
    BY InvSplit
<1>2. UNCHANGED <<scheduling, now, crashes>>
    BY DEF LoopFails
<1>3. ASSUME MarkFails PROVE SInv'
  <2>1. /\ UNCHANGED <<storeVars, sends>>
        /\ errors < MaxErrors /\ errors' = errors + 1
        /\ due' = due \ {current}
        /\ current' = 0 /\ pc' = "send"
      BY <1>3 DEF MarkFails, AfterFailure
  <2>2. LoopTyped'
    <3>1. /\ UNCHANGED <<bookingSeq, reminderSeq>>
          /\ errors' \in 0..MaxErrors
        BY <1>1, <2>1 DEF LoopTyped, storeVars, slotVars, reminderVars
    <3>2. due' \subseteq 1..reminderSeq
        BY <1>1, <2>1 DEF LoopTyped
    <3> QED
        BY <1>1, <1>2, <2>1, <3>1, <3>2 DEF LoopTyped
  <2>3. errors' + crashes' = 1 + errors + crashes
    <3>1. (errors + 1) + crashes = 1 + errors + crashes
        BY <1>1 DEF LoopTyped
    <3> QED
        BY <1>2, <2>1, <3>1, Zenon
  <2> QED
      BY <2>1, <2>2, <2>3, FaultKeeps
<1>4. ASSUME NEW r \in due, SendFails(r) PROVE SInv'
  <2>1. /\ UNCHANGED <<storeVars, pc, current>>
        /\ errors < MaxErrors /\ errors' = errors + 1
        /\ sends' \in {sends, [sends EXCEPT ![r] = @ + 1]}
        /\ due' = due \ {r}
        /\ pc = "send"
      BY <1>4 DEF SendFails, AfterFailure
  <2>2. /\ r \in 1..MaxReminders
        /\ r \in due \ {current}
        /\ sends' \in [1..MaxReminders -> Nat]
    <3>1. r \in 1..MaxReminders /\ r \in 1..reminderSeq /\ sends \in [1..MaxReminders -> Nat]
        BY LoopFacts
    <3>2. current = 0
        BY <1>1, <2>1 DEF LoopTyped
    <3> QED
        BY <2>1, <3>1, <3>2
  <2>3. LoopTyped'
      BY <1>1, <1>2, <2>1, <2>2 DEF LoopTyped, storeVars, slotVars, reminderVars
  <2>4. errors' + crashes' = 1 + errors + crashes
    <3>1. (errors + 1) + crashes = 1 + errors + crashes
        BY <1>1 DEF LoopTyped
    <3> QED
        BY <1>2, <2>1, <3>1, Zenon
  <2> QED
      BY <2>1, <2>2, <2>3, <2>4, FaultKeeps
<1> QED
    BY <1>3, <1>4 DEF LoopFails

LEMMA CrashKeeps == SInv /\ Crash => SInv'
<1> SUFFICES ASSUME SInv, Crash PROVE SInv'
    OBVIOUS
<1> USE StoreAssumption, SchedulerAssumption
<1>1. LoopTyped /\ TypeOK
    BY InvSplit
<1>2. /\ UNCHANGED <<storeVars, now, sends, errors>>
      /\ crashes < MaxCrashes /\ crashes' = crashes + 1
      /\ pc' = "sleep" /\ due' = {} /\ current' = 0 /\ scheduling' = {}
    BY DEF Crash
<1>3. LoopTyped'
    BY <1>1, <1>2 DEF LoopTyped, storeVars, slotVars, reminderVars
<1>4. errors' + crashes' = 1 + errors + crashes
  <2>1. errors + (crashes + 1) = 1 + errors + crashes
      BY <1>1 DEF LoopTyped
  <2> QED
      BY <1>2, <2>1, Zenon
<1> QED
    BY <1>2, <1>3, <1>4, FaultKeeps

(* Nothing moves at all. *)
LEMMA StutterKeeps == SInv /\ UNCHANGED vars => SInv'
    BY DEF SInv, SchedTypeOK, RowsKnown, MaySend, MarkedWasSent, RepeatsOnlyByFaults,
           InactiveWasDelivered, Live, TypeOK, vars, loopVars, storeVars, slotVars, reminderVars
-------------------------------------------------------------------------------
LEMMA SchedInvariant == SchedSpec => []SInv
<1>1. SInv /\ [SchedNext]_vars => SInv'
  <2> SUFFICES ASSUME SInv, [SchedNext]_vars PROVE SInv'
      OBVIOUS
  <2>1. CASE Loop
      BY <2>1, FetchKeeps, SendKeeps, RefusedKeeps, MarkKeeps DEF Loop
  <2> QED
      BY <2>1, CustomersKeep, TickKeeps, FailsKeep, CrashKeeps, StutterKeeps DEF SchedNext
<1> QED
    BY InvInit, <1>1, PTL DEF SchedSpec

(* The tables and the loop hold values of their types, for every number of *)
(* customers, reminders, failures and crashes (scheduler.py). *)
THEOREM SchedTypeCorrect == SchedSpec => []SchedTypeOK
<1>1. SInv => SchedTypeOK
    BY DEF SInv
<1> QED
    BY SchedInvariant, <1>1, PTL

(* A customer is reminded of a visit once, and once more for each failure  *)
(* or crash: send_due_reminders sends no row that an earlier pass recorded *)
(* with mark_sent. *)
THEOREM SchedRepeatsOnlyByFaults == SchedSpec => []RepeatsOnlyByFaults
<1>1. SInv => RepeatsOnlyByFaults
    BY DEF SInv
<1> QED
    BY SchedInvariant, <1>1, PTL

(* No reminder is lost: one that is inactive while its visit is on was     *)
(* delivered, whatever failed or crashed between two awaits of the loop. *)
THEOREM SchedInactiveWasDelivered == SchedSpec => []InactiveWasDelivered
<1>1. SInv => InactiveWasDelivered
    BY DEF SInv
<1> QED
    BY SchedInvariant, <1>1, PTL
-------------------------------------------------------------------------------
(* The loop touches the tables by mark_sent only, and of the rows on its   *)
(* list, which the counter gave out; the customers' transactions are the   *)
(* store's, with what schedule_reminder carried from its read. *)
LEMMA SchedStoreStep == SInv /\ [SchedNext]_vars => [Next]_storeVars
<1> SUFFICES ASSUME SInv, [SchedNext]_vars, ~UNCHANGED storeVars PROVE Next
    OBVIOUS
<1>1. /\ \A row \in scheduling :
            row.booking_id \in 1..bookingSeq /\ row.user_id \in Users /\ row.fire_at \in Times
      /\ pc = "mark" => current \in 1..reminderSeq
    BY DEF SInv, SchedTypeOK, RowsKnown
<1>2. CASE Customers
  <2>1. CASE \E row \in scheduling : Create(row)
    <3> PICK row \in scheduling : Create(row)
        BY <2>1
    <3> QED
        BY <1>1 DEF Create, Next
  <2>2. CASE \E b \in 1..bookingSeq, at \in Times : ReadRow(b, at)
      BY <2>2 DEF ReadRow
  <2> QED
      BY <1>2, <2>1, <2>2 DEF Customers, Next
<1>3. CASE Loop
  <2>1. Mark
      BY <1>3 DEF Loop, Fetch, EndPass, Send, Refused, AfterFailure
  <2> QED
      BY <1>1, <2>1 DEF Mark, Next
<1>4. UNCHANGED storeVars \/ Customers \/ Loop
    BY DEF SchedNext, Tick, LoopFails, MarkFails, SendFails, AfterFailure, Crash, vars
<1> QED
    BY <1>2, <1>3, <1>4

(* scheduler.py and service.py implement the store: beside the loop, with  *)
(* its faults and its crashes, the tables go through transactions of the   *)
(* store only. *)
THEOREM SchedImplementsStore == SchedSpec => Spec
<1>1. SchedInit => Init
    BY DEF SchedInit
<1> QED
    BY <1>1, SchedInvariant, SchedStoreStep, PTL DEF SchedSpec, Spec

(* README, Features: a slot is never double-held, also while the loop      *)
(* works through a list that has grown stale. *)
THEOREM SchedNeverDoubleHeld == SchedSpec => []NeverDoubleHeld
    BY SchedImplementsStore, StoreNeverDoubleHeld, PTL

(* The ids on the list of a pass, however stale, name the rows that the    *)
(* pass read or none, and no customer's transaction makes a reminder that  *)
(* mark_sent recorded due again. *)
THEOREM SchedReminderLife == SchedSpec => ReminderLife
    BY SchedImplementsStore, StoreReminderLife, PTL
===============================================================================
