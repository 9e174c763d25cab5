------------------------------ MODULE BookingBot ------------------------------
(***************************************************************************)
(* The update handlers of src/booking/handlers.py and the deposit callback *)
(* of src/app.py, running concurrently over the database of BookingStore   *)
(* and the conversation state that aiogram's FSMContext keeps in Redis     *)
(* (src/core/storage.py).  aiogram runs every update in a task of its own, *)
(* also two updates of the same user, so handlers interleave at every      *)
(* await: a Redis command, a transaction, a Telegram call.  A task is      *)
(* modelled by what it still has to do (pc) and the locals it carries.     *)
(*                                                                         *)
(* src/core/errors.py runs a message handler again, from its first line,   *)
(* when a Telegram call fails; any other exception ends the task.          *)
(***************************************************************************)
EXTENDS BookingStore

CONSTANTS
    Tasks,          \* bound: updates handled at the same time
    NoSlot,         \* the empty FSM data
    Commands,       \* bound: the kinds of update the customers of an instance send
    MaxPayers,      \* bound: users who pay the same invoice link
    MaxRetries,     \* max_retries of RetryMiddleware (3 in the code)
    MaxErrors,      \* bound: commands of Redis or the database that raise
    MaxCrashes      \* bound: crashes of the process

ASSUME BotAssumption ==
    /\ NoSlot \notin Slots
    /\ Commands \subseteq {"start", "select", "phone", "payment", "flood",
                      "cancel", "privacy"}
    /\ MaxPayers \in Nat
    /\ MaxRetries \in Nat \ {0}
    /\ MaxErrors \in Nat
    /\ MaxCrashes \in Nat

VARIABLES
    fsm_state,      \* per user: is the conversation in BookingStates.waiting_phone
    fsm_data,       \* per user: the slot_id in the FSM data, or NoSlot
    task,           \* the running handlers
    invoices,       \* the pairs <<booking, client>> whose invoice link was delivered
    deposits,       \* the pairs <<booking, payer>> of the links that were paid
    errors, crashes

fsmVars   == <<fsm_state, fsm_data>>
moneyVars == <<invoices, deposits>>
faultVars == <<errors, crashes>>
botVars   == <<fsmVars, task, moneyVars, faultVars>>
vars      == <<storeVars, botVars>>

Flows == {"start", "select", "phone", "booked", "full", "paid", "privacy"}
Pcs   == {"set_data", "set_state", "get_data", "book", "clear_state", "clear_data",
          "read_row", "create", "answer", "mark_paid", "audit"}

(* booking is 0 until the task has one. *)
Task == [flow : Flows, pc : Pcs, user : Users, slot : Slots \cup {NoSlot},
         booking : Nat, tries : Nat]

BotInit ==
    /\ Init
    /\ fsm_state = [u \in Users |-> FALSE]
    /\ fsm_data = [u \in Users |-> NoSlot]
    /\ task = << >>
    /\ invoices = {}
    /\ deposits = {}
    /\ errors = 0
    /\ crashes = 0
-------------------------------------------------------------------------------
(* An update starts a handler. *)
Begin(t, flow, pc, u, s, b) ==
    /\ t \notin DOMAIN task
    /\ task' = Insert(task, t, [flow |-> flow, pc |-> pc, user |-> u, slot |-> s,
                                booking |-> b, tries |-> 0])

At(t, pc)      == t \in DOMAIN task /\ task[t].pc = pc
Goto(t, pc)    == task' = [task EXCEPT ![t].pc = pc]
Turn(t, flow, b) ==
    task' = [task EXCEPT ![t] = [@ EXCEPT !.flow = flow, !.pc = "clear_state", !.slot = NoSlot,
                                          !.booking = b]]
End(t)         == task' = Delete(task, {t})

(* /start *)
StartCommand(t, u) ==
    /\ "start" \in Commands
    /\ Begin(t, "start", "clear_state", u, NoSlot, 0)
    /\ UNCHANGED <<storeVars, fsmVars, moneyVars, faultVars>>

(* select_slot: a button of a keyboard get_free_slots once filled, and     *)
(* which may have been on the user's screen for any time since.            *)
SelectSlot(t, u, s) ==
    /\ "select" \in Commands
    /\ Begin(t, "select", "set_data", u, s, 0)
    /\ UNCHANGED <<storeVars, fsmVars, moneyVars, faultVars>>

(* capture_phone is reached by any message that is not a command while the *)
(* state read at its arrival is waiting_phone.                             *)
PhoneMessage(t, u) ==
    /\ "phone" \in Commands
    /\ fsm_state[u]
    /\ Begin(t, "phone", "get_data", u, NoSlot, 0)
    /\ UNCHANGED <<storeVars, fsmVars, moneyVars, faultVars>>

(* A delivered invoice link can be paid by anybody who holds it, passed on *)
(* by the client it was sent to.                                           *)
Links == {i[1] : i \in invoices}

PaidBy(b) == {u \in Users : <<b, u>> \in deposits}
Unpaid ==
    {d \in Links \X Users : d \notin deposits /\ Cardinality(PaidBy(d[1])) < MaxPayers}

(* The successful_payment message, which comes from the payer: it has no   *)
(* text, so capture_phone, which is registered first, takes it from a user *)
(* it waits for.                                                           *)
PaymentMessage(t, u, b) ==
    /\ "payment" \in Commands
    /\ <<b, u>> \in Unpaid
    /\ deposits' = deposits \cup {<<b, u>>}
    /\ IF fsm_state[u]
       THEN Begin(t, "phone", "get_data", u, NoSlot, 0)
       ELSE Begin(t, "paid", "mark_paid", u, NoSlot, b)
    /\ UNCHANGED <<storeVars, fsmVars, invoices, faultVars>>

(* A payment that comes within the rate limit of another message of its    *)
(* payer: ThrottlingMiddleware answers it with nothing at all.          *)
PaymentThrottled(b, u) ==
    /\ "flood" \in Commands
    /\ <<b, u>> \in Unpaid
    /\ deposits' = deposits \cup {<<b, u>>}
    /\ UNCHANGED <<storeVars, fsmVars, task, invoices, faultVars>>

(* cancel: one transaction between the arrival and the answer. *)
CancelButton(b, u) ==
    /\ "cancel" \in Commands
    /\ CancelBooking(b, u)
    /\ UNCHANGED botVars

(* privacy_confirm: the deletion, with the audit entry still to be written.*)
PrivacyConfirm(t, u) ==
    /\ "privacy" \in Commands
    /\ DeleteUserData(u)
    /\ Begin(t, "privacy", "audit", u, NoSlot, 0)
    /\ UNCHANGED <<fsmVars, moneyVars, faultVars>>
-------------------------------------------------------------------------------
(* select_slot: update_data, then set_state. *)
SetData(t) ==
    /\ At(t, "set_data")
    /\ fsm_data' = [fsm_data EXCEPT ![task[t].user] = task[t].slot]
    /\ Goto(t, "set_state")
    /\ UNCHANGED <<storeVars, fsm_state, moneyVars, faultVars>>

SetState(t) ==
    /\ At(t, "set_state")
    /\ fsm_state' = [fsm_state EXCEPT ![task[t].user] = TRUE]
    /\ End(t)
    /\ UNCHANGED <<storeVars, fsm_data, moneyVars, faultVars>>

(* capture_phone: get_data; data["service_id"] raises KeyError when the    *)
(* data was cleared since the message arrived.                             *)
GetData(t) ==
    /\ At(t, "get_data")
    /\ IF fsm_data[task[t].user] = NoSlot
       THEN End(t)
       ELSE task' = [task EXCEPT ![t].pc = "book", ![t].slot = fsm_data[task[t].user]]
    /\ UNCHANGED <<storeVars, fsmVars, moneyVars, faultVars>>

BookTask(t) ==
    /\ At(t, "book")
    /\ BookSlot(task[t].user, task[t].slot)
    /\ Turn(t, "booked", NextBookingId)
    /\ UNCHANGED <<fsmVars, moneyVars, faultVars>>

SlotUnavailable(t) ==
    /\ At(t, "book")
    /\ SlotTaken(task[t].slot)
    /\ Turn(t, "full", task[t].booking)
    /\ UNCHANGED <<storeVars, fsmVars, moneyVars, faultVars>>

(* IntegrityError, which capture_phone does not catch (an insert past the  *)
(* bound of the model fails the same way).                                 *)
BookRaises(t) ==
    /\ At(t, "book")
    /\ ~SlotTaken(task[t].slot)
    /\ SlotIdUsed(task[t].slot) \/ bookingSeq = MaxBookings
    /\ End(t)
    /\ UNCHANGED <<storeVars, fsmVars, moneyVars, faultVars>>

(* state.clear() is set_state(None), then set_data({}). *)
ClearState(t) ==
    /\ At(t, "clear_state")
    /\ fsm_state' = [fsm_state EXCEPT ![task[t].user] = FALSE]
    /\ Goto(t, "clear_data")
    /\ UNCHANGED <<storeVars, fsm_data, moneyVars, faultVars>>

ClearData(t) ==
    /\ At(t, "clear_data")
    /\ fsm_data' = [fsm_data EXCEPT ![task[t].user] = NoSlot]
    /\ Goto(t, IF task[t].flow = "booked" THEN "read_row" ELSE "answer")
    /\ UNCHANGED <<storeVars, fsm_state, moneyVars, faultVars>>

(* schedule_reminder reads the booking in one session: no row, or a visit  *)
(* inside the lead time, and there is no reminder.                         *)
ReadRow(t) ==
    /\ At(t, "read_row")
    /\ \/ Goto(t, "answer")
       \/ /\ task[t].booking \in DOMAIN bookings
          /\ Goto(t, "create")
    /\ UNCHANGED <<storeVars, fsmVars, moneyVars, faultVars>>

(* ... and inserts the reminder in another transaction (past the bound of  *)
(* the model the insert fails, which the handler survives).                *)
Create(t) ==
    /\ At(t, "create")
    /\ IF reminderSeq < MaxReminders
       THEN \E at \in Times : CreateReminder(task[t].booking, task[t].user, at)
       ELSE UNCHANGED storeVars
    /\ Goto(t, "answer")
    /\ UNCHANGED <<fsmVars, moneyVars, faultVars>>

(* "A confirmed booking must survive a reminder failure": the exception of *)
(* either step is caught, and the handler goes on.                         *)
AfterScheduleFailureRaised(t) == End(t)
AfterScheduleFailure(t)       == Goto(t, "answer")

ScheduleFails(t) ==
    /\ At(t, "read_row") \/ At(t, "create")
    /\ errors < MaxErrors
    /\ errors' = errors + 1
    /\ AfterScheduleFailure(t)
    /\ UNCHANGED <<storeVars, fsmVars, moneyVars, crashes>>

(* The answer of a confirmed booking carries the invoice link. *)
Delivered(t) ==
    IF task[t].flow = "booked" THEN {<<task[t].booking, task[t].user>>} ELSE {}

Answer(t) ==
    /\ At(t, "answer")
    /\ invoices' = invoices \cup Delivered(t)
    /\ End(t)
    /\ UNCHANGED <<storeVars, fsmVars, deposits, faultVars>>

(* RetryMiddleware: after a flood limit or a network error the handler     *)
(* starts again, unless it was the last try; any other Telegram error ends *)
(* it.  A call that timed out may have been delivered all the same.        *)
RestartAfterBooking(flow) ==
    CASE flow = "start" -> "clear_state" [] flow = "booked" -> "read_row" [] OTHER -> "get_data"
Restart(flow) == IF flow = "start" THEN "clear_state" ELSE "get_data"

TriesForgotten(t) == 0
TriesAfter(t)     == task[t].tries + 1

LastTryLate(t) == TriesAfter(t) > MaxRetries
LastTry(t)     == TriesAfter(t) >= MaxRetries

AnswerFails(t) ==
    /\ At(t, "answer")
    /\ invoices' \in {invoices, invoices \cup Delivered(t)}
    /\ \/ End(t)
       \/ /\ ~LastTry(t)
          /\ task' = [task EXCEPT ![t].pc = Restart(task[t].flow), ![t].tries = TriesAfter(t)]
    /\ UNCHANGED <<storeVars, fsmVars, deposits, faultVars>>

(* _on_deposit_confirmed: the payload names the booking, and who paid is   *)
(* not compared with its client; mark_booking_paid's result is not looked  *)
(* at.                                                                     *)
PayloadLatest(t)  == bookingSeq
PayloadBooking(t) == task[t].booking

MarkPaid(t) ==
    /\ At(t, "mark_paid")
    /\ IF Payable(PayloadBooking(t))
       THEN MarkBookingPaid(PayloadBooking(t))
       ELSE UNCHANGED storeVars
    /\ End(t)
    /\ UNCHANGED <<fsmVars, moneyVars, faultVars>>

Audit(t) ==
    /\ At(t, "audit")
    /\ LogAudit(task[t].user)
    /\ End(t)
    /\ UNCHANGED <<fsmVars, moneyVars, faultVars>>
-------------------------------------------------------------------------------
(* Redis or the database raises in a handler: the task ends there. *)
TaskRaises(t) ==
    /\ t \in DOMAIN task
    /\ task[t].pc \notin {"read_row", "create", "answer"}
    /\ errors < MaxErrors
    /\ errors' = errors + 1
    /\ End(t)
    /\ UNCHANGED <<storeVars, fsmVars, moneyVars, crashes>>

(* The process dies and starts again: the database stays, the tasks are    *)
(* gone, and drop_pending_updates discards what Telegram queued, the       *)
(* payments made meanwhile among them.  The conversation state stays in    *)
(* Redis, or is lost with the MemoryStorage of a bot without Redis.        *)
FsmLost ==
    /\ fsm_state' = [u \in Users |-> FALSE]
    /\ fsm_data' = [u \in Users |-> NoSlot]

Crash ==
    /\ crashes < MaxCrashes
    /\ crashes' = crashes + 1
    /\ task' = << >>
    /\ \E paid \in SUBSET Unpaid : deposits' = deposits \cup paid
    /\ UNCHANGED fsmVars \/ FsmLost
    /\ UNCHANGED <<storeVars, invoices, errors>>

TaskStep(t) ==
    \/ SetData(t) \/ SetState(t) \/ GetData(t)
    \/ BookTask(t) \/ SlotUnavailable(t) \/ BookRaises(t)
    \/ ClearState(t) \/ ClearData(t) \/ ReadRow(t) \/ Create(t)
    \/ Answer(t) \/ AnswerFails(t) \/ MarkPaid(t) \/ Audit(t)

Update(t) ==
    \E u \in Users :
        \/ StartCommand(t, u)
        \/ \E s \in Slots : SelectSlot(t, u, s)
        \/ PhoneMessage(t, u)
        \/ \E b \in 1..bookingSeq : PaymentMessage(t, u, b)
        \/ PrivacyConfirm(t, u)

BotNext ==
    \/ \E t \in Tasks : Update(t) \/ TaskStep(t) \/ ScheduleFails(t) \/ TaskRaises(t)
    \/ \E b \in 1..bookingSeq, u \in Users : CancelButton(b, u) \/ PaymentThrottled(b, u)
    \/ Crash

BotSpec == BotInit /\ [][BotNext]_vars

(* A handler that is not waiting for the customer goes on: asyncio runs    *)
(* every ready task.  Customers, faults and crashes are not fair.          *)
FairBotSpec == BotSpec /\ \A t \in Tasks : WF_vars(TaskStep(t))
-------------------------------------------------------------------------------
(* The tables and the conversation state hold values of their types. *)
BotTypeOK ==
    /\ TypeOK
    /\ fsm_state \in [Users -> BOOLEAN]
    /\ fsm_data \in [Users -> Slots \cup {NoSlot}]
    /\ DOMAIN task \subseteq Tasks
    /\ task \in [DOMAIN task -> Task]
    /\ \A t \in DOMAIN task : task[t].booking <= bookingSeq /\ task[t].tries < MaxRetries
    /\ invoices \subseteq (1..bookingSeq) \X Users
    /\ deposits \subseteq Links \X Users
    /\ errors \in 0..MaxErrors
    /\ crashes \in 0..MaxCrashes

(* A booking id keeps meaning the same customer's booking wherever it was  *)
(* copied to, however long ago: in a reminder row, in the payload of an    *)
(* invoice, in the locals of a handler that awaits.  The row may be gone;  *)
(* it is never somebody else's.  The payment of an invoice may come from   *)
(* anybody; the booking it pays for is the one of the invoice's customer.  *)
OwnerKept ==
    /\ \A r \in DOMAIN reminders :
          LET b == reminders[r].booking_id
          IN  b \in DOMAIN bookings => bookings[b].client_user_id = reminders[r].user_id
    /\ \A i \in invoices : i[1] \in DOMAIN bookings => bookings[i[1]].client_user_id = i[2]
    /\ \A t \in DOMAIN task :
          task[t].booking \in DOMAIN bookings =>
              LET client == bookings[task[t].booking].client_user_id
              IN  IF task[t].flow = "paid"
                  THEN <<task[t].booking, client>> \in invoices
                  ELSE client = task[t].user

(* A booking is marked paid only on a deposit that came through the link   *)
(* of this booking, and the link had been sent to the booking's own        *)
(* client: neither a late payment nor one for a deleted booking is ever    *)
(* credited to another booking.  Who paid is open, as in the code.         *)
PaidWasDeposited ==
    \A b \in DOMAIN bookings :
        bookings[b].status = "paid" =>
            /\ \E payer \in Users : <<b, payer>> \in deposits
            /\ <<b, bookings[b].client_user_id>> \in invoices

(* No booking gets two reminders, though RetryMiddleware runs the handler  *)
(* that schedules them up to MaxRetries times.                             *)
OneReminderPerBooking ==
    \A q, r \in DOMAIN reminders : reminders[q].booking_id = reminders[r].booking_id => q = r

(* Every update is done with: no failing Telegram call keeps a handler in  *)
(* the loop of RetryMiddleware for ever.                                   *)
EveryTaskEnds == \A t \in Tasks : t \in DOMAIN task ~> t \notin DOMAIN task

(* "A confirmed booking must survive a reminder failure" (handlers.py): a  *)
(* handler that schedules the reminder goes on to answer the customer.     *)
BookingSurvivesReminder ==
    \A t \in Tasks : (At(t, "read_row") \/ At(t, "create")) ~> At(t, "answer")
-------------------------------------------------------------------------------
(* What the repository says and the code does not do. *)

(* test_deposit_flow_books_then_marks_paid: a booking whose deposit is paid*)
(* is marked paid, if it is still held.                                    *)
DepositMarksPaid ==
    \A b \in 1..MaxBookings, u \in Users :
        <<b, u>> \in deposits ~> (b \notin Live \/ bookings[b].status = "paid")
===============================================================================
