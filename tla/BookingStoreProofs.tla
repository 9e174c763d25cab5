-------------------------- MODULE BookingStoreProofs --------------------------
(***************************************************************************)
(* What holds of BookingStore for every set of users and slots and every   *)
(* bound.  TypeOK and NeverDoubleHeld are inductive together: that an      *)
(* inserted row does not overwrite another needs the keys to be below the  *)
(* counter, and that a cancellation frees a slot nobody else holds needs   *)
(* the slots of the rows to be distinct.                                   *)
(***************************************************************************)
EXTENDS BookingStore, TLAPS

IInv == TypeOK /\ NeverDoubleHeld

(* The next row's key is a new one. *)
LEMMA FreshKey ==
    ASSUME TypeOK
    PROVE  /\ NextBookingId \notin DOMAIN bookings
           /\ reminderSeq + 1 \notin DOMAIN reminders
    BY DEF TypeOK, NextBookingId

(* The initial database is well typed and holds no slot. *)
LEMMA InitIInv == Init => IInv
    BY StoreAssumption DEF Init, IInv, TypeOK, NeverDoubleHeld, SlotIdUnique, FlagAgrees, Live

(* Every transaction leaves the tables well typed. *)
LEMMA TypeNext == TypeOK /\ [Next]_storeVars => TypeOK'
<1> SUFFICES ASSUME TypeOK, [Next]_storeVars PROVE TypeOK'
    OBVIOUS
<1> USE StoreAssumption DEF TypeOK, Booking, Reminder, Statuses
<1>1. ASSUME NEW u \in Users, NEW s \in Slots, BookSlot(u, s) PROVE TypeOK'
    BY <1>1 DEF BookSlot, Insert, NextBookingId, reminderVars
<1>2. ASSUME NEW b \in 1..bookingSeq, NEW u \in Users, CancelBooking(b, u) PROVE TypeOK'
  <2>1. /\ b \in DOMAIN bookings
        /\ bookings' \in [DOMAIN bookings -> Booking]
        /\ DOMAIN bookings' = DOMAIN bookings
      BY <1>2 DEF CancelBooking, Cancellable
  <2>2. is_booked' \in [Slots -> BOOLEAN]
      BY <1>2, <2>1 DEF CancelBooking
  <2>3. reminders' \in [DOMAIN reminders -> Reminder] /\ DOMAIN reminders' = DOMAIN reminders
    <3>1. \A r \in DOMAIN reminders : [reminders[r] EXCEPT !.is_active = FALSE] \in Reminder
        OBVIOUS
    <3>2. reminders' = [r \in DOMAIN reminders |->
                          IF reminders[r].booking_id = b
                          THEN [reminders[r] EXCEPT !.is_active = FALSE]
                          ELSE reminders[r]]
        BY <1>2 DEF CancelBooking
    <3> QED
        BY <3>1, <3>2
  <2> QED
      BY <1>2, <2>1, <2>2, <2>3 DEF CancelBooking
<1>3. ASSUME NEW b \in 1..bookingSeq, MarkBookingPaid(b) PROVE TypeOK'
  <2>1. b \in DOMAIN bookings
      BY <1>3 DEF MarkBookingPaid, Payable, Live
  <2>2. bookings' \in [DOMAIN bookings -> Booking] /\ DOMAIN bookings' = DOMAIN bookings
      BY <1>3, <2>1 DEF MarkBookingPaid
  <2> QED
      BY <1>3, <2>2 DEF MarkBookingPaid, reminderVars
<1>4. ASSUME NEW u \in Users, DeleteUserData(u) PROVE TypeOK'
    BY <1>4 DEF DeleteUserData, Delete, Restrict, BookingsOf, RemindersOf
<1>5. ASSUME NEW u \in Users, LogAudit(u) PROVE TypeOK'
    BY <1>5 DEF LogAudit, slotVars, reminderVars
<1>6. ASSUME NEW b \in 1..bookingSeq, NEW u \in Users, NEW at \in Times, CreateReminder(b, u, at)
      PROVE TypeOK'
    BY <1>6 DEF CreateReminder, Insert, slotVars
<1>7. ASSUME NEW r \in 1..reminderSeq, MarkSent(r) PROVE TypeOK'
  <2>1. /\ reminders' \in [DOMAIN reminders -> Reminder]
        /\ DOMAIN reminders' = DOMAIN reminders
    <3>1. CASE r \in DOMAIN reminders
      <4>1. [reminders[r] EXCEPT !.is_active = FALSE] \in Reminder
          BY <3>1
      <4>2. reminders' = [reminders EXCEPT ![r].is_active = FALSE]
          BY <1>7, <3>1 DEF MarkSent
      <4> QED
          BY <4>1, <4>2
    <3>2. CASE r \notin DOMAIN reminders
        BY <1>7, <3>2 DEF MarkSent
    <3> QED
        BY <3>1, <3>2
  <2> QED
      BY <1>7, <2>1 DEF MarkSent, slotVars
<1>8. CASE UNCHANGED storeVars
    BY <1>8 DEF storeVars, slotVars, reminderVars
<1> QED
    BY <1>1, <1>2, <1>3, <1>4, <1>5, <1>6, <1>7, <1>8 DEF Next

(* No transaction gives a slot to a second booking, or lets the flag and   *)
(* the bookings disagree.                                                  *)
LEMMA HeldNext == IInv /\ [Next]_storeVars => NeverDoubleHeld'
<1> SUFFICES ASSUME TypeOK, SlotIdUnique, FlagAgrees, [Next]_storeVars
             PROVE  SlotIdUnique' /\ FlagAgrees'
    BY DEF IInv, NeverDoubleHeld
<1> USE DEF SlotIdUnique, FlagAgrees, Live
<1> USE DEF TypeOK, Booking
<1>1. ASSUME NEW u \in Users, NEW s \in Slots, BookSlot(u, s)
      PROVE  SlotIdUnique' /\ FlagAgrees'
    BY <1>1, FreshKey DEF BookSlot, SlotIdUsed, Insert
<1>2. ASSUME NEW b \in 1..bookingSeq, NEW u \in Users, CancelBooking(b, u)
      PROVE  SlotIdUnique' /\ FlagAgrees'
    BY <1>2 DEF CancelBooking, Cancellable, Active
<1>3. ASSUME NEW b \in 1..bookingSeq, MarkBookingPaid(b)
      PROVE  SlotIdUnique' /\ FlagAgrees'
    BY <1>3 DEF MarkBookingPaid, Payable
<1>4. ASSUME NEW u \in Users, DeleteUserData(u)
      PROVE  SlotIdUnique' /\ FlagAgrees'
    BY <1>4 DEF DeleteUserData, Delete, Restrict
<1>5. CASE UNCHANGED slotVars
    BY <1>5 DEF slotVars
<1> QED
    BY <1>1, <1>2, <1>3, <1>4, <1>5
    DEF Next, LogAudit, CreateReminder, MarkSent, storeVars

(* The inductive invariant of the store: rows of their types, no two rows  *)
(* of one slot, and a slot flag that agrees with the bookings.             *)
THEOREM StoreInvariant == Spec => []IInv
<1>1. IInv /\ [Next]_storeVars => IInv'
    BY TypeNext, HeldNext DEF IInv
<1> QED
    BY InitIInv, <1>1, PTL DEF Spec

(* The tables of BookingStore always hold rows of their types. *)
THEOREM StoreTypeOK == Spec => []TypeOK
<1>1. IInv => TypeOK
    BY DEF IInv
<1> QED
    BY StoreInvariant, <1>1, PTL

(* README, Features: "a slot is never double-held". *)
THEOREM StoreNeverDoubleHeld == Spec => []NeverDoubleHeld
<1>1. IInv => NeverDoubleHeld
    BY DEF IInv
<1> QED
    BY StoreInvariant, <1>1, PTL

(* One transaction against the life of a row.  The inserting one is the    *)
(* only one that adds a key, and the key is fresh.                         *)
BookingLifeStep ==
    /\ \A b \in DOMAIN bookings \cap DOMAIN bookings' :
         /\ bookings'[b].slot_id = bookings[b].slot_id
         /\ bookings'[b].client_user_id = bookings[b].client_user_id
         /\ <<bookings[b].status, bookings'[b].status>> \in StatusSteps
    /\ \A b \in DOMAIN bookings' \ DOMAIN bookings : b > bookingSeq

(* The steps a status may take, as a disjunction. *)
LEMMA StatusStepsOf ==
    ASSUME NEW s \in Statuses, NEW t \in Statuses,
           t = s \/ (s \in Active /\ t \in {"paid", "cancelled"})
    PROVE  <<s, t>> \in StatusSteps
    BY DEF StatusSteps, Active, Statuses

(* Every transaction takes the rows through the steps of their life only.  *)
LEMMA LifeNext == TypeOK /\ [Next]_storeVars => [BookingLifeStep]_storeVars
<1> SUFFICES ASSUME TypeOK, Next PROVE BookingLifeStep
    OBVIOUS
<1> USE StatusStepsOf DEF TypeOK, Booking, Statuses, BookingLifeStep
<1>1. ASSUME NEW u \in Users, NEW s \in Slots, BookSlot(u, s) PROVE BookingLifeStep
  <2>1. /\ NextBookingId \notin DOMAIN bookings
        /\ NextBookingId > bookingSeq
      BY FreshKey DEF NextBookingId
  <2>2. /\ DOMAIN bookings' = DOMAIN bookings \cup {NextBookingId}
        /\ \A b \in DOMAIN bookings : bookings'[b] = bookings[b]
      BY <1>1, <2>1 DEF BookSlot, Insert
  <2>3. \A b \in DOMAIN bookings : <<bookings[b].status, bookings[b].status>> \in StatusSteps
      BY StatusStepsOf
  <2> QED
      BY <2>1, <2>2, <2>3
<1>2. ASSUME NEW b \in 1..bookingSeq, NEW u \in Users, CancelBooking(b, u) PROVE BookingLifeStep
  <2>1. /\ b \in DOMAIN bookings
        /\ bookings[b].status \in Active
        /\ DOMAIN bookings' = DOMAIN bookings
      BY <1>2 DEF CancelBooking, Cancellable, Active
  <2>2. /\ bookings'[b].slot_id = bookings[b].slot_id
        /\ bookings'[b].client_user_id = bookings[b].client_user_id
        /\ bookings'[b].status = "cancelled"
      BY <1>2, <2>1 DEF CancelBooking
  <2>3. \A c \in DOMAIN bookings : c # b => bookings'[c] = bookings[c]
      BY <1>2 DEF CancelBooking
  <2>4. <<bookings[b].status, bookings'[b].status>> \in StatusSteps
      BY <2>1, <2>2 DEF StatusSteps, Active
  <2> QED
      BY <2>1, <2>2, <2>3, <2>4
<1>3. ASSUME NEW b \in 1..bookingSeq, MarkBookingPaid(b) PROVE BookingLifeStep
  <2>1. /\ b \in DOMAIN bookings
        /\ bookings[b].status \in Active \cup {"paid"}
        /\ DOMAIN bookings' = DOMAIN bookings
      BY <1>3 DEF MarkBookingPaid, Payable, Live, Active
  <2>2. /\ bookings'[b].slot_id = bookings[b].slot_id
        /\ bookings'[b].client_user_id = bookings[b].client_user_id
        /\ bookings'[b].status = "paid"
      BY <1>3, <2>1 DEF MarkBookingPaid
  <2>3. \A c \in DOMAIN bookings : c # b => bookings'[c] = bookings[c]
      BY <1>3 DEF MarkBookingPaid
  <2>4. <<bookings[b].status, bookings'[b].status>> \in StatusSteps
      BY <2>1, <2>2 DEF StatusSteps, Active
  <2> QED
      BY <2>1, <2>2, <2>3, <2>4
<1>4. ASSUME NEW u \in Users, DeleteUserData(u) PROVE BookingLifeStep
    BY <1>4 DEF DeleteUserData, Delete, Restrict
<1>5. ASSUME UNCHANGED bookings PROVE BookingLifeStep
    BY <1>5
<1> QED
    BY <1>1, <1>2, <1>3, <1>4, <1>5
    DEF Next, LogAudit, CreateReminder, MarkSent, slotVars

(* Keys are only given out, never taken back.                              *)
LEMMA SeqGrows == TypeOK /\ [Next]_storeVars => bookingSeq <= bookingSeq' /\ bookingSeq' \in Nat
<1> SUFFICES ASSUME TypeOK, [Next]_storeVars PROVE bookingSeq <= bookingSeq' /\ bookingSeq' \in Nat
    OBVIOUS
<1>1. bookingSeq \in Nat
    BY DEF TypeOK
<1>2. ASSUME NEW u \in Users, NEW s \in Slots, BookSlot(u, s) PROVE bookingSeq' = bookingSeq + 1
    BY <1>2 DEF BookSlot
<1>3. ASSUME NEW b \in 1..bookingSeq, NEW u \in Users, CancelBooking(b, u)
      PROVE  bookingSeq' = bookingSeq
    BY <1>3 DEF CancelBooking
<1>4. ASSUME NEW b \in 1..bookingSeq, MarkBookingPaid(b) PROVE bookingSeq' = bookingSeq
    BY <1>4 DEF MarkBookingPaid
<1>5. ASSUME NEW u \in Users, DeleteUserData(u) PROVE bookingSeq' = bookingSeq
    BY <1>5 DEF DeleteUserData
<1>6. ASSUME UNCHANGED slotVars PROVE bookingSeq' = bookingSeq
    BY <1>6 DEF slotVars
<1>7. ASSUME Next PROVE bookingSeq' = bookingSeq \/ bookingSeq' = bookingSeq + 1
  <2>1. ASSUME NEW u \in Users, LogAudit(u) PROVE bookingSeq' = bookingSeq
      BY <1>6, <2>1 DEF LogAudit
  <2>2. ASSUME NEW b, NEW u, NEW at, CreateReminder(b, u, at) PROVE bookingSeq' = bookingSeq
      BY <1>6, <2>2 DEF CreateReminder
  <2>3. ASSUME NEW r, MarkSent(r) PROVE bookingSeq' = bookingSeq
      BY <1>6, <2>3 DEF MarkSent
  <2> QED
      BY <1>2, <1>3, <1>4, <1>5, <1>7, <2>1, <2>2, <2>3 DEF Next
<1>8. ASSUME UNCHANGED storeVars PROVE bookingSeq' = bookingSeq
    BY <1>6, <1>8 DEF storeVars
<1>9. bookingSeq' = bookingSeq \/ bookingSeq' = bookingSeq + 1
    BY <1>7, <1>8
<1> QED
    BY <1>1, <1>9

(* A row whose key was already given out before a step was there before    *)
(* it, with the same client.                                               *)
LEMMA OldIds ==
    ASSUME TypeOK, TypeOK', [Next]_storeVars, NEW b \in DOMAIN bookings', b <= bookingSeq
    PROVE  b \in DOMAIN bookings /\ bookings'[b].client_user_id = bookings[b].client_user_id
<1>1. CASE UNCHANGED storeVars
    BY <1>1 DEF storeVars, slotVars
<1>2. CASE BookingLifeStep
  <2>1. b \in Nat /\ bookingSeq \in Nat
      BY DEF TypeOK
  <2>2. ~(b > bookingSeq)
      BY <2>1
  <2>3. b \in DOMAIN bookings
      BY <1>2, <2>2 DEF BookingLifeStep
  <2> QED
      BY <1>2, <2>3 DEF BookingLifeStep
<1> QED
    BY <1>1, <1>2, LifeNext

(* A booking row keeps its slot and its client, is paid or cancelled at    *)
(* most once, and its key is never given to another row.                        *)
THEOREM StoreBookingLife == Spec => BookingLife
<1>1. BookingLife <=> [][BookingLifeStep]_storeVars
    BY DEF BookingLife, BookingLifeStep
<1> QED
    BY <1>1, StoreTypeOK, LifeNext, PTL DEF Spec

(* What a step may do to the reminders, as an action. *)
ReminderLifeStep ==
    /\ \A r \in DOMAIN reminders \cap DOMAIN reminders' :
          /\ reminders'[r].booking_id = reminders[r].booking_id
          /\ reminders'[r].user_id = reminders[r].user_id
          /\ reminders'[r].fire_at = reminders[r].fire_at
          /\ reminders'[r].is_active => reminders[r].is_active
    /\ \A r \in DOMAIN reminders' \ DOMAIN reminders : r > reminderSeq

(* Every transaction keeps what a reminder is about, and none revives one. *)
LEMMA ReminderLifeNext == TypeOK /\ [Next]_storeVars => [ReminderLifeStep]_storeVars
<1> SUFFICES ASSUME TypeOK, Next PROVE ReminderLifeStep
    OBVIOUS
<1>1. /\ \A r \in DOMAIN reminders : reminders[r] \in Reminder
      /\ reminderSeq \in Nat /\ DOMAIN reminders \subseteq 1..reminderSeq
    BY StoreAssumption DEF TypeOK
<1>2. ASSUME NEW b \in 1..bookingSeq, NEW u \in Users, CancelBooking(b, u) PROVE ReminderLifeStep
    BY <1>1, <1>2 DEF CancelBooking, Reminder, ReminderLifeStep
<1>3. ASSUME NEW u \in Users, DeleteUserData(u) PROVE ReminderLifeStep
    BY <1>3 DEF DeleteUserData, Delete, Restrict, ReminderLifeStep
<1>4. ASSUME NEW b, NEW u, NEW at, CreateReminder(b, u, at) PROVE ReminderLifeStep
  <2>1. /\ DOMAIN reminders' = DOMAIN reminders \cup {reminderSeq + 1}
        /\ \A r \in DOMAIN reminders : reminders'[r] = reminders[r]
      BY <1>1, <1>4 DEF CreateReminder, Insert
  <2> QED
      BY <1>1, <2>1 DEF ReminderLifeStep
<1>5. ASSUME NEW r, MarkSent(r) PROVE ReminderLifeStep
    BY <1>1, <1>5 DEF MarkSent, Reminder, ReminderLifeStep
<1>6. ASSUME UNCHANGED reminders PROVE ReminderLifeStep
    BY <1>6 DEF ReminderLifeStep
<1> QED
    BY <1>2, <1>3, <1>4, <1>5, <1>6
    DEF Next, BookSlot, MarkBookingPaid, LogAudit, reminderVars

(* An id of a reminder names one row for ever, and a reminder that was     *)
(* sent or cancelled is never due again: get_due_reminders and mark_sent   *)
(* may be as far apart as they like.                                       *)
THEOREM StoreReminderLife == Spec => ReminderLife
<1>1. ReminderLife <=> [][ReminderLifeStep]_storeVars
    BY DEF ReminderLife, ReminderLifeStep
<1> QED
    BY <1>1, StoreTypeOK, ReminderLifeNext, PTL DEF Spec
-------------------------------------------------------------------------------
(* The refinement of the ledger.  <<u, s>> is a hold exactly when some     *)
(* live booking of s is u's; with the slots of the rows distinct there is  *)
(* at most one, so a cancellation takes exactly one pair away.             *)
LEMMA HoldsDef ==
    ASSUME NEW u, NEW s
    PROVE  <<u, s>> \in holds <=>
               \E b \in Live : bookings[b].client_user_id = u /\ bookings[b].slot_id = s
    BY DEF holds

(* A booking takes a slot nobody holds: no row of the table is of it. *)
LEMMA BookTakes ==
    ASSUME TypeOK, NEW u \in Users, NEW s \in Slots, BookSlot(u, s)
    PROVE  Ledger!Take(u, s)
<1> USE DEF TypeOK, Booking
<1>1. \A v \in Users : <<v, s>> \notin holds
    BY HoldsDef DEF BookSlot, SlotIdUsed, Live
<1>2. Live' = Live \cup {NextBookingId}
    BY FreshKey DEF BookSlot, Insert, Live
<1>3. \A b \in Live : bookings'[b] = bookings[b]
    BY FreshKey DEF BookSlot, Insert, Live
<1>4. bookings'[NextBookingId].client_user_id = u /\ bookings'[NextBookingId].slot_id = s
    BY FreshKey DEF BookSlot, Insert
<1>5. holds' = holds \cup {<<u, s>>}
    BY <1>2, <1>3, <1>4 DEF holds
<1> QED
    BY <1>1, <1>5 DEF Ledger!Take, Ledger!Free

(* A cancellation releases the slot of the one booking it cancels. *)
LEMMA CancelReleases ==
    ASSUME TypeOK, SlotIdUnique, NEW b, NEW u \in Users, CancelBooking(b, u)
    PROVE  \E S \in SUBSET Slots : Ledger!Release(u, S)
<1> USE DEF TypeOK, Booking
<1> DEFINE s == bookings[b].slot_id
<1>1. b \in Live /\ bookings[b].client_user_id = u /\ s \in Slots
    BY DEF CancelBooking, Cancellable, Active, Live
<1>2. \A c \in DOMAIN bookings : c # b => bookings'[c] = bookings[c]
    BY DEF CancelBooking
<1>3. Live' = Live \ {b}
  <2>1. DOMAIN bookings' = DOMAIN bookings /\ bookings'[b].status = "cancelled"
      BY <1>1 DEF CancelBooking, Live
  <2> QED
      BY <1>2, <2>1 DEF Live
<1>4. holds' = {<<bookings[c].client_user_id, bookings[c].slot_id>> : c \in Live \ {b}}
    BY <1>2, <1>3 DEF holds, Live
<1>5. \A c \in Live \ {b} : bookings[c].slot_id # s
    BY <1>1 DEF SlotIdUnique, Live
<1>6. holds' = holds \ ({u} \X {s}) /\ {u} \X {s} \subseteq holds
    BY <1>1, <1>4, <1>5 DEF holds
<1> QED
    BY <1>1, <1>6 DEF Ledger!Release

(* A data deletion releases every slot the user holds, at once. *)
LEMMA DeleteReleases ==
    ASSUME TypeOK, NEW u \in Users, DeleteUserData(u)
    PROVE  \E S \in SUBSET Slots : Ledger!Release(u, S)
<1> USE DEF TypeOK, Booking
<1> DEFINE S == {s \in Slots : <<u, s>> \in holds}
<1>1. Live' = {b \in Live : bookings[b].client_user_id # u}
    BY DEF DeleteUserData, Delete, Restrict, BookingsOf, Live
<1>2. \A b \in Live' : bookings'[b] = bookings[b]
    BY DEF DeleteUserData, Delete, Restrict, Live
<1>3. holds' = {<<bookings[b].client_user_id, bookings[b].slot_id>> :
                    b \in {c \in Live : bookings[c].client_user_id # u}}
    BY <1>1, <1>2 DEF holds
<1>4. holds' = holds \ ({u} \X S)
    BY <1>3 DEF holds, Live
<1>5. {u} \X S \subseteq holds
    OBVIOUS
<1>6. Ledger!Release(u, S)
    BY <1>4, <1>5 DEF Ledger!Release
<1> QED
    BY <1>6

(* A payment moves no hold, and the other transactions touch no booking. *)
LEMMA PaidKeeps ==
    ASSUME TypeOK, NEW b, MarkBookingPaid(b)
    PROVE  holds' = holds
<1> USE DEF TypeOK, Booking
<1>1. Live' = Live /\ \A c \in Live :
          /\ bookings'[c].client_user_id = bookings[c].client_user_id
          /\ bookings'[c].slot_id = bookings[c].slot_id
    BY DEF MarkBookingPaid, Payable, Live
<1> QED
    BY <1>1 DEF holds

(* Every transaction moves the holds of the live bookings as the ledger    *)
(* allows.                                                                 *)
LEMMA LedgerNext == IInv /\ [Next]_storeVars => [Ledger!Next]_holds
<1> SUFFICES ASSUME TypeOK, SlotIdUnique, [Next]_storeVars PROVE [Ledger!Next]_holds
    BY DEF IInv, NeverDoubleHeld
<1>1. ASSUME NEW u \in Users, NEW s \in Slots, BookSlot(u, s) PROVE Ledger!Next
    BY <1>1, BookTakes DEF Ledger!Next
<1>2. ASSUME NEW b \in 1..bookingSeq, NEW u \in Users, CancelBooking(b, u) PROVE Ledger!Next
    BY <1>2, CancelReleases DEF Ledger!Next
<1>3. ASSUME NEW b \in 1..bookingSeq, MarkBookingPaid(b) PROVE holds' = holds
    BY <1>3, PaidKeeps
<1>4. ASSUME NEW u \in Users, DeleteUserData(u) PROVE Ledger!Next
    BY <1>4, DeleteReleases DEF Ledger!Next
<1>5. ASSUME UNCHANGED bookings PROVE holds' = holds
    BY <1>5 DEF holds, Live
<1> QED
    BY <1>1, <1>2, <1>3, <1>4, <1>5
    DEF Next, LogAudit, CreateReminder, MarkSent, slotVars, storeVars

(* The tables implement the promise: a free slot is taken by one customer, *)
(* and only the customer who holds a slot gives it back.                   *)
THEOREM StoreImplementsLedger == Spec => LedgerSpec
<1>1. Init => Ledger!Init
    BY DEF Init, Ledger!Init, holds, Live
<1>2. LedgerSpec <=> Ledger!Init /\ [][Ledger!Next]_holds
    BY DEF LedgerSpec, Ledger!Spec
<1> QED
    BY <1>1, <1>2, StoreInvariant, LedgerNext, PTL DEF Spec
===============================================================================
