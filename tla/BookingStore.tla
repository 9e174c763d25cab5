----------------------------- MODULE BookingStore -----------------------------
(***************************************************************************)
(* The database of the booking bot (src/booking/models.py) and the         *)
(* transactions that src/booking/service.py and src/reminder/service.py    *)
(* run on it.  Every `async with db.transaction()` block is one action:    *)
(* each of them starts with a write, so SQLite's write lock serialises the *)
(* whole block, and a block that raises is rolled back and changes nothing.*)
(*                                                                         *)
(* A table is a function from the primary keys of its rows to the rows.    *)
(* SQLite does not enforce the REFERENCES clauses (no PRAGMA foreign_keys  *)
(* in src/core/database.py); UNIQUE and AUTOINCREMENT it does.             *)
(***************************************************************************)
EXTENDS Naturals, FiniteSets, Functions

CONSTANTS
    Users,          \* Telegram user ids
    Slots,          \* the rows of table slots, which no code of the bot creates
    Times,          \* the instants a reminder may be due at
    MaxBookings,    \* bound: rows ever inserted into bookings
    MaxReminders    \* bound: rows ever inserted into reminders

ASSUME StoreAssumption ==
    /\ Times \subseteq Nat
    /\ MaxBookings \in Nat
    /\ MaxReminders \in Nat

VARIABLES
    is_booked,      \* slots.is_booked, per slot
    bookings,       \* table bookings
    bookingSeq,     \* AUTOINCREMENT counter of bookings
    reminders,      \* table reminders
    reminderSeq,    \* AUTOINCREMENT counter of reminders
    audit_log       \* the users with an entry in audit_log

slotVars     == <<is_booked, bookings, bookingSeq>>
reminderVars == <<reminders, reminderSeq>>
storeVars    == <<slotVars, reminderVars, audit_log>>

Statuses == {"pending", "confirmed", "paid", "cancelled"}
Active   == {"confirmed", "pending"}      \* what the client may still see and cancel

Booking  == [slot_id : Slots, client_user_id : Users, status : Statuses]
Reminder == [booking_id : Nat, user_id : Users, fire_at : Times, is_active : BOOLEAN]

(* INSERT of a row under a new key. *)
Insert(table, key, row) ==
    [k \in DOMAIN table \cup {key} |-> IF k = key THEN row ELSE table[k]]

(* DELETE of every row under the given keys. *)
Delete(table, keys) == Restrict(table, DOMAIN table \ keys)
-------------------------------------------------------------------------------
(* The bookings that hold a slot for a customer: `pending' is the default  *)
(* of the schema, no code inserts it.                                      *)
Live == {b \in DOMAIN bookings : bookings[b].status # "cancelled"}

BookingsOfAll(u) == DOMAIN bookings
BookingsOf(u)  == {b \in DOMAIN bookings : bookings[b].client_user_id = u}
RemindersOf(u) == {r \in DOMAIN reminders : reminders[r].user_id = u}

Init ==
    /\ is_booked = [s \in Slots |-> FALSE]
    /\ bookings = << >>
    /\ bookingSeq = 0
    /\ reminders = << >>
    /\ reminderSeq = 0
    /\ audit_log = {}
-------------------------------------------------------------------------------
(* book_slot.  The UPDATE matches no row when the slot is taken, and the   *)
(* service raises SlotUnavailableError; the INSERT breaks UNIQUE(slot_id)  *)
(* when any booking of the slot is still in the table, a cancelled one     *)
(* included, and the driver raises IntegrityError.                         *)
SlotTaken(s)  == is_booked[s]
SlotIdUsed(s) == \E b \in DOMAIN bookings : bookings[b].slot_id = s

NextBookingIdRowid ==
    IF DOMAIN bookings = {} THEN 1
    ELSE 1 + CHOOSE b \in DOMAIN bookings : \A c \in DOMAIN bookings : c <= b
NextBookingId == bookingSeq + 1

BookSlot(u, s) ==
    /\ ~SlotTaken(s)
    /\ ~SlotIdUsed(s)
    /\ bookingSeq < MaxBookings
    /\ is_booked' = [is_booked EXCEPT ![s] = TRUE]
    /\ bookingSeq' = bookingSeq + 1
    /\ bookings' = Insert(bookings, NextBookingId,
                          [slot_id |-> s, client_user_id |-> u, status |-> "confirmed"])
    /\ UNCHANGED <<reminderVars, audit_log>>

(* cancel_booking: the booking of that client, if it is still active; its  *)
(* slot is freed and its reminders are deactivated in the same transaction.*)
CancellableEvenPaid(b, u) ==
    /\ b \in DOMAIN bookings
    /\ bookings[b].client_user_id = u
    /\ bookings[b].status # "cancelled"
Cancellable(b, u) ==
    /\ b \in DOMAIN bookings
    /\ bookings[b].client_user_id = u
    /\ bookings[b].status \in Active

CancelBooking(b, u) ==
    /\ Cancellable(b, u)
    /\ bookings' = [bookings EXCEPT ![b].status = "cancelled"]
    /\ is_booked' = [is_booked EXCEPT ![bookings[b].slot_id] = FALSE]
    /\ reminders' = [r \in DOMAIN reminders |->
                        IF reminders[r].booking_id = b
                        THEN [reminders[r] EXCEPT !.is_active = FALSE]
                        ELSE reminders[r]]
    /\ UNCHANGED <<bookingSeq, reminderSeq, audit_log>>

(* mark_booking_paid: every booking but a cancelled one. *)
PayableWhenCancelled(b) == b \in DOMAIN bookings
Payable(b) == b \in Live

MarkBookingPaid(b) ==
    /\ Payable(b)
    /\ bookings' = [bookings EXCEPT ![b].status = "paid"]
    /\ UNCHANGED <<is_booked, bookingSeq, reminderVars, audit_log>>

(* delete_user_data: the user's reminders and bookings.  The slots of the  *)
(* deleted bookings are left as they are.                                  *)
DeleteUserData(u) ==
    /\ reminders' = Delete(reminders, RemindersOf(u))
    /\ bookings' = Delete(bookings, BookingsOf(u))
    /\ UNCHANGED <<is_booked, bookingSeq, reminderSeq, audit_log>>

(* log_audit, called with the action "delete_my_data" only. *)
LogAudit(u) ==
    /\ audit_log' = audit_log \cup {u}
    /\ UNCHANGED <<slotVars, reminderVars>>

(* create_reminder: the row is inserted whatever has become of the booking. *)
CreateReminderRowid(b, u, at) ==
    /\ reminderSeq < MaxReminders
    /\ reminderSeq' = reminderSeq + 1
    /\ reminders' = Insert(reminders, CHOOSE r \in 1..reminderSeq' : r \notin DOMAIN reminders,
                           [booking_id |-> b, user_id |-> u,
                            fire_at |-> at, is_active |-> TRUE])
    /\ UNCHANGED <<slotVars, audit_log>>
CreateReminderSwapped(b, u, at) ==
    /\ reminderSeq < MaxReminders
    /\ reminderSeq' = reminderSeq + 1
    /\ reminders' = Insert(reminders, reminderSeq + 1,
                           [booking_id |-> u, user_id |-> b,
                            fire_at |-> at, is_active |-> TRUE])
    /\ UNCHANGED <<slotVars, audit_log>>
CreateReminder(b, u, at) ==
    /\ reminderSeq < MaxReminders
    /\ reminderSeq' = reminderSeq + 1
    /\ reminders' = Insert(reminders, reminderSeq + 1,
                           [booking_id |-> b, user_id |-> u,
                            fire_at |-> at, is_active |-> TRUE])
    /\ UNCHANGED <<slotVars, audit_log>>

(* mark_sent: an UPDATE that matches no row once the row is deleted. *)
MarkSent(r) ==
    /\ reminders' = IF r \in DOMAIN reminders
                    THEN [reminders EXCEPT ![r].is_active = FALSE]
                    ELSE reminders
    /\ UNCHANGED <<slotVars, reminderSeq, audit_log>>

(* The rows get_due_reminders selects at the instant now. *)
DueInactiveToo(now) == {r \in DOMAIN reminders : reminders[r].fire_at <= now}
Due(now) == {r \in DOMAIN reminders : reminders[r].is_active /\ reminders[r].fire_at <= now}
-------------------------------------------------------------------------------
(* The transactions in any order, by any caller. *)
Next ==
    \/ \E u \in Users, s \in Slots : BookSlot(u, s)
    \/ \E b \in 1..bookingSeq, u \in Users : CancelBooking(b, u)
    \/ \E b \in 1..bookingSeq : MarkBookingPaid(b)
    \/ \E u \in Users : DeleteUserData(u)
    \/ \E u \in Users : LogAudit(u)
    \/ \E b \in 1..bookingSeq, u \in Users, at \in Times : CreateReminder(b, u, at)
    \/ \E r \in 1..reminderSeq : MarkSent(r)

Spec == Init /\ [][Next]_storeVars
-------------------------------------------------------------------------------
(* The tables hold rows of their types, under keys the counters gave out. *)
TypeOK ==
    /\ is_booked \in [Slots -> BOOLEAN]
    /\ bookingSeq \in 0..MaxBookings
    /\ DOMAIN bookings \subseteq 1..bookingSeq
    /\ bookings \in [DOMAIN bookings -> Booking]
    /\ reminderSeq \in 0..MaxReminders
    /\ DOMAIN reminders \subseteq 1..reminderSeq
    /\ reminders \in [DOMAIN reminders -> Reminder]
    /\ audit_log \subseteq Users

(* No two bookings in the table are of the same slot. *)
SlotIdUnique ==
    \A b, c \in DOMAIN bookings : bookings[b].slot_id = bookings[c].slot_id => b = c

(* The two ways the code records a hold agree: the slot of a live booking  *)
(* is marked taken, so no handler offers it to somebody else, and the slot *)
(* of a cancelled one is not.                                              *)
FlagAgrees ==
    \A b \in DOMAIN bookings : is_booked[bookings[b].slot_id] <=> b \in Live

(* A slot is never double-held (README, Features): live bookings have      *)
(* different slots, and the flag get_free_slots reads never offers one of  *)
(* them, in whatever order bookings, cancellations, late payments and data *)
(* deletions are committed.                                                *)
NeverDoubleHeld == SlotIdUnique /\ FlagAgrees

(* The life of a booking row: its slot and its client never change, a      *)
(* cancelled booking is never revived by a payment that arrives late, and  *)
(* a paid one is never cancelled; the row ends only by deletion, and no    *)
(* later row takes its key.                                                *)
StatusSteps ==
    (Active \X {"paid", "cancelled"}) \cup {<<s, s>> : s \in Statuses}

BookingLife ==
    [][/\ \A b \in DOMAIN bookings \cap DOMAIN bookings' :
             /\ bookings'[b].slot_id = bookings[b].slot_id
             /\ bookings'[b].client_user_id = bookings[b].client_user_id
             /\ <<bookings[b].status, bookings'[b].status>> \in StatusSteps
       /\ \A b \in DOMAIN bookings' \ DOMAIN bookings : b > bookingSeq]_storeVars

(* The life of a reminder row, which the reminder loop and the handlers    *)
(* know by an id read before: the id names the row it was read from or     *)
(* none, so that a late mark_sent deactivates nobody else's reminder; and  *)
(* a reminder that was sent or cancelled is never due again.               *)
ReminderLife ==
    [][/\ \A r \in DOMAIN reminders \cap DOMAIN reminders' :
             /\ reminders'[r].booking_id = reminders[r].booking_id
             /\ reminders'[r].user_id = reminders[r].user_id
             /\ reminders'[r].fire_at = reminders[r].fire_at
             /\ reminders'[r].is_active => reminders[r].is_active
       /\ \A r \in DOMAIN reminders' \ DOMAIN reminders : r > reminderSeq]_storeVars

(* "A slot is held while the customer pays, and the slot has to come back  *)
(* if they do not" (README, What it does): a slot that no customer holds   *)
(* any more is offered by get_free_slots, and book_slot then books it.     *)
SlotsComeBack ==
    \A s \in Slots :
        (\A b \in Live : bookings[b].slot_id # s) => ~SlotTaken(s) /\ ~SlotIdUsed(s)

(* The store implements the ledger: its holds are the live bookings. *)
holds == {<<bookings[b].client_user_id, bookings[b].slot_id>> : b \in Live}
Ledger == INSTANCE SlotLedger WITH held <- holds
LedgerSpec == Ledger!Spec
===============================================================================
