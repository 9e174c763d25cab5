---------------------------- MODULE OneReminderProofs ----------------------------
(***************************************************************************)
(* No booking gets two reminders, for every number of customers, slots and *)
(* concurrent handlers, though RetryMiddleware runs the handler that       *)
(* schedules them again.  A handler owes a reminder from the commit of its *)
(* booking to the insert of the row; at any time a booking has a row, or   *)
(* one handler that owes it one, or neither.                               *)
(***************************************************************************)
EXTENDS BookingBotProofs

Owes(o) == /\ task[o].flow = "booked"
           /\ task[o].pc \in {"clear_state", "clear_data", "read_row", "create"}

OwedHasNoRow ==
    \A o \in DOMAIN task, r \in DOMAIN reminders :
        Owes(o) => task[o].booking # reminders[r].booking_id

OwedByOne ==
    \A o, p \in DOMAIN task : Owes(o) /\ Owes(p) /\ task[o].booking = task[p].booking => o = p

RInv == OInv /\ OneReminderPerBooking /\ OwedHasNoRow /\ OwedByOne
-------------------------------------------------------------------------------
(* A step leaves what is owed as it was, but for the handler t.            *)
OwedBut(t) ==
    \A o \in DOMAIN task' : Owes(o)' /\ o # t =>
        o \in DOMAIN task /\ Owes(o) /\ task'[o].booking = task[o].booking

(* A step that makes t owe nothing new.                                    *)
OwedKept ==
    \A o \in DOMAIN task' : Owes(o)' =>
        o \in DOMAIN task /\ Owes(o) /\ task'[o].booking = task[o].booking

RowsKept ==
    \A r \in DOMAIN reminders' :
        r \in DOMAIN reminders /\ reminders'[r].booking_id = reminders[r].booking_id

(* What an await of a handler does to what the handlers owe.               *)
LEMMA GotoOwes ==
    ASSUME TaskTyped, NEW t \in DOMAIN task, NEW pc \in Pcs, Goto(t, pc),
           Owes(t) \/ task[t].flow # "booked"
                   \/ pc \notin {"clear_state", "clear_data", "read_row", "create"}
    PROVE  OwedKept
    BY GotoFacts DEF OwedKept, Owes

LEMMA EndOwes == ASSUME NEW t, End(t) PROVE OwedKept
    BY EndFacts DEF OwedKept, Owes

(* An update that starts a handler finds it owing nothing.                 *)
LEMMA UpdateOwes == ASSUME NEW t \in Tasks, Update(t) PROVE OwedKept
<1>1. PICK flow, pc, u, s, b : Begin(t, flow, pc, u, s, b) /\ flow # "booked"
  <2>1. PICK u \in Users :
            \/ StartCommand(t, u)
            \/ \E s \in Slots : SelectSlot(t, u, s)
            \/ PhoneMessage(t, u)
            \/ \E b \in 1..bookingSeq : PaymentMessage(t, u, b)
            \/ PrivacyConfirm(t, u)
      BY DEF Update
  <2>2. CASE StartCommand(t, u)
      BY <2>2 DEF StartCommand
  <2>3. CASE \E s \in Slots : SelectSlot(t, u, s)
      BY <2>3 DEF SelectSlot
  <2>4. CASE PhoneMessage(t, u)
      BY <2>4 DEF PhoneMessage
  <2>5. CASE \E b \in 1..bookingSeq : PaymentMessage(t, u, b)
      BY <2>5 DEF PaymentMessage
  <2>6. CASE PrivacyConfirm(t, u)
      BY <2>6 DEF PrivacyConfirm
  <2> QED
      BY <2>1, <2>2, <2>3, <2>4, <2>5, <2>6
<1>2. /\ DOMAIN task' = DOMAIN task \cup {t}
      /\ task'[t].flow = flow
      /\ \A o \in DOMAIN task : task'[o] = task[o]
    BY <1>1 DEF Begin, Insert
<1> QED
    BY <1>1, <1>2 DEF OwedKept, Owes

(* Every step of a handler but the booking itself.                         *)
LEMMA TaskOwes ==
    ASSUME BInv, NEW t \in Tasks, TaskStep(t) \/ ScheduleFails(t) \/ TaskRaises(t), ~BookTask(t)
    PROVE  OwedKept
<1>0. TaskTyped /\ LocalsOK
    BY DEF BInv, BotTypeOK, TaskTyped
<1>1. CASE \/ SetState(t) \/ BookRaises(t) \/ Answer(t) \/ MarkPaid(t) \/ Audit(t)
           \/ TaskRaises(t)
    BY <1>1, EndOwes DEF SetState, BookRaises, Answer, MarkPaid, Audit, TaskRaises
<1>2. CASE SetData(t)
    BY <1>0, <1>2, GotoOwes DEF SetData, At, Pcs
<1>3. CASE ClearState(t)
    BY <1>0, <1>3, GotoOwes DEF ClearState, At, Owes, Pcs
<1>4. CASE ClearData(t)
    BY <1>0, <1>4, GotoOwes DEF ClearData, At, Owes, Pcs
<1>5. CASE ReadRow(t)
    BY <1>0, <1>5, GotoOwes DEF ReadRow, At, Owes, LocalsOK, Pcs
<1>6. CASE Create(t)
    BY <1>0, <1>6, GotoOwes DEF Create, At, Pcs
<1>7. CASE ScheduleFails(t)
    BY <1>0, <1>7, GotoOwes DEF ScheduleFails, AfterScheduleFailure, At, Pcs
<1>8. CASE GetData(t)
  <2>1. t \in DOMAIN task /\ task[t] \in Task
      BY <1>0, <1>8 DEF GetData, At, TaskTyped
  <2>2. CASE End(t)
      BY <2>2, EndOwes
  <2>3. CASE task' = [task EXCEPT ![t].pc = "book", ![t].slot = fsm_data[task[t].user]]
    <3>1. /\ DOMAIN task' = DOMAIN task /\ task'[t].pc = "book"
          /\ \A o \in DOMAIN task : o # t => task'[o] = task[o]
        BY <1>0, <2>1, <2>3 DEF Task, TaskTyped
    <3> QED
        BY <3>1 DEF OwedKept, Owes
  <2> QED
      BY <1>8, <2>2, <2>3 DEF GetData
<1>9. CASE SlotUnavailable(t)
  <2>1. t \in DOMAIN task /\ task[t].booking \in Nat /\ Turn(t, "full", task[t].booking)
      BY <1>0, <1>9 DEF SlotUnavailable, At, TaskTyped, Task
  <2>2. /\ DOMAIN task' = DOMAIN task /\ task'[t].flow = "full"
        /\ \A o \in DOMAIN task : o # t => task'[o] = task[o]
      BY <1>0, <2>1, TurnFacts DEF Flows
  <2> QED
      BY <2>2 DEF OwedKept, Owes
<1>10. CASE AnswerFails(t)
  <2>1. t \in DOMAIN task /\ task[t] \in Task
      BY <1>0, <1>10 DEF AnswerFails, At, TaskTyped
  <2>2. CASE End(t)
      BY <2>2, EndOwes
  <2>3. CASE task' = [task EXCEPT ![t].pc = Restart(task[t].flow), ![t].tries = TriesAfter(t)]
    <3>1. /\ DOMAIN task' = DOMAIN task
          /\ task'[t].pc = Restart(task[t].flow) /\ task'[t].flow = task[t].flow
          /\ \A o \in DOMAIN task : o # t => task'[o] = task[o]
        BY <1>0, <2>1, <2>3 DEF Task, TaskTyped
    <3> QED
        BY <3>1 DEF OwedKept, Owes, Restart
  <2> QED
      BY <1>10, <2>2, <2>3 DEF AnswerFails
<1> QED
    BY <1>1, <1>2, <1>3, <1>4, <1>5, <1>6, <1>7, <1>8, <1>9, <1>10 DEF TaskStep

(* The booking makes its handler owe a reminder of the new id.             *)
LEMMA BookOwes ==
    ASSUME BInv, NEW t \in Tasks, BookTask(t)
    PROVE  /\ OwedBut(t)
           /\ t \in DOMAIN task' => task'[t].booking = bookingSeq + 1
<1>1. TaskTyped /\ t \in DOMAIN task /\ bookingSeq + 1 \in Nat /\ Turn(t, "booked", bookingSeq + 1)
    BY DEF BookTask, At, NextBookingId, BInv, BotTypeOK, TaskTyped, TypeOK
<1>2. /\ DOMAIN task' = DOMAIN task /\ task'[t].booking = bookingSeq + 1
      /\ \A o \in DOMAIN task : o # t => task'[o] = task[o]
    BY <1>1, TurnFacts DEF Flows
<1> QED
    BY <1>2 DEF OwedBut, Owes

(* No step but the insert of a reminder adds a row.                        *)
LEMMA RowsFrom ==
    ASSUME BInv, [BotNext]_vars, \A t \in Tasks : ~Create(t)
    PROVE  RowsKept
<1>0. TypeOK
    BY BInvParts
<1>1. ASSUME reminders' = reminders PROVE RowsKept
    BY <1>1 DEF RowsKept
<1>2. ASSUME NEW b, NEW u, CancelButton(b, u) PROVE RowsKept
    BY <1>0, <1>2 DEF CancelButton, CancelBooking, TypeOK, Reminder, RowsKept
<1>3. ASSUME NEW t, NEW u, PrivacyConfirm(t, u) PROVE RowsKept
    BY <1>0, <1>3 DEF PrivacyConfirm, DeleteUserData, Delete, Restrict, TypeOK, RowsKept
<1>4. ASSUME NEW t \in Tasks, Update(t) PROVE RowsKept
    BY <1>1, <1>3, <1>4 DEF Update, StartCommand, SelectSlot, PhoneMessage, PaymentMessage,
                            storeVars, reminderVars
<1>5. ASSUME NEW t \in Tasks, TaskStep(t) \/ ScheduleFails(t) \/ TaskRaises(t)
      PROVE  reminders' = reminders
    BY <1>5 DEF TaskStep, SetData, SetState, GetData, BookTask, BookSlot, SlotUnavailable, BookRaises,
                ClearState, ClearData, ReadRow, Answer, AnswerFails, MarkPaid, MarkBookingPaid, Audit,
                LogAudit, ScheduleFails, TaskRaises, storeVars, reminderVars
<1>6. ASSUME NEW b, NEW u, PaymentThrottled(b, u) PROVE reminders' = reminders
    BY <1>6 DEF PaymentThrottled, storeVars, reminderVars
<1>7. ASSUME Crash \/ UNCHANGED vars PROVE reminders' = reminders
    BY <1>7 DEF Crash, vars, storeVars, reminderVars
<1> QED
    BY <1>1, <1>2, <1>4, <1>5, <1>6, <1>7 DEF BotNext

(* The insert: the row is that of a handler that owed it, and owes it no   *)
(* longer.                                                                 *)
LEMMA CreateRows ==
    ASSUME BInv, NEW t \in Tasks, Create(t)
    PROVE  /\ t \in DOMAIN task /\ Owes(t) /\ (t \in DOMAIN task' => ~Owes(t)')
           /\ \A r \in DOMAIN reminders' :
                 \/ r \in DOMAIN reminders /\ reminders'[r].booking_id = reminders[r].booking_id
                 \/ r = reminderSeq + 1 /\ reminders'[r].booking_id = task[t].booking
<1>1. t \in DOMAIN task /\ task[t].pc = "create" /\ Goto(t, "answer") /\ TaskTyped /\ TypeOK /\ LocalsOK
    BY DEF Create, At, BInv, BotTypeOK, TaskTyped
<1>2. Owes(t)
    BY <1>1 DEF LocalsOK, Owes
<1>3. ~Owes(t)'
  <2>1. task'[t].pc = "answer"
      BY <1>1, GotoFacts DEF Pcs
  <2> QED
      BY <2>1 DEF Owes
<1>4. ASSUME NEW r \in DOMAIN reminders'
      PROVE  \/ r \in DOMAIN reminders /\ reminders'[r].booking_id = reminders[r].booking_id
             \/ r = reminderSeq + 1 /\ reminders'[r].booking_id = task[t].booking
  <2>1. CASE UNCHANGED storeVars
      BY <1>4, <2>1 DEF storeVars, reminderVars
  <2>2. ASSUME NEW at \in Times, CreateReminder(task[t].booking, task[t].user, at)
        PROVE  \/ r \in DOMAIN reminders /\ reminders'[r].booking_id = reminders[r].booking_id
               \/ r = reminderSeq + 1 /\ reminders'[r].booking_id = task[t].booking
      BY <1>1, <1>4, <2>2 DEF CreateReminder, Insert, TypeOK, Reminder
  <2> QED
      BY <2>1, <2>2 DEF Create
<1> QED
    BY <1>1, <1>2, <1>3, <1>4
-------------------------------------------------------------------------------
LEMMA RNext == RInv /\ [BotNext]_vars => RInv'
<1> SUFFICES ASSUME RInv, [BotNext]_vars PROVE RInv'
    OBVIOUS
<1>0. BInv /\ OInv' /\ OneReminderPerBooking /\ OwedHasNoRow /\ OwedByOne
    BY OInvNext DEF RInv, OInv
<1>1. ASSUME NEW t \in Tasks, Create(t) PROVE OneReminderPerBooking' /\ OwedHasNoRow' /\ OwedByOne'
  <2>1. OwedKept
      BY <1>0, <1>1, TaskOwes DEF TaskStep, Create, BookTask, At
  <2>2. /\ t \in DOMAIN task /\ Owes(t) /\ (t \in DOMAIN task' => ~Owes(t)')
        /\ \A r \in DOMAIN reminders' :
              \/ r \in DOMAIN reminders /\ reminders'[r].booking_id = reminders[r].booking_id
              \/ r = reminderSeq + 1 /\ reminders'[r].booking_id = task[t].booking
      BY <1>0, <1>1, CreateRows
  <2>3. OneReminderPerBooking'
      BY <1>0, <2>2 DEF OneReminderPerBooking, OwedHasNoRow
  <2>4. OwedHasNoRow'
      BY <1>0, <2>1, <2>2 DEF OwedKept, OwedHasNoRow, OwedByOne
  <2>5. OwedByOne'
      BY <1>0, <2>1 DEF OwedKept, OwedByOne
  <2> QED
      BY <2>3, <2>4, <2>5
<1>2. ASSUME \A t \in Tasks : ~Create(t)
      PROVE  OneReminderPerBooking' /\ OwedHasNoRow' /\ OwedByOne'
  <2>1. RowsKept
      BY <1>0, <1>2, RowsFrom
  <2>2. OneReminderPerBooking'
      BY <1>0, <2>1 DEF OneReminderPerBooking, RowsKept
  <2>3. ASSUME NEW t \in Tasks, BookTask(t) PROVE OwedHasNoRow' /\ OwedByOne'
    <3>1. /\ OwedBut(t)
          /\ t \in DOMAIN task' => task'[t].booking = bookingSeq + 1
        BY <1>0, <2>3, BookOwes
    <3>2. /\ \A r \in DOMAIN reminders : bookingSeq + 1 # reminders[r].booking_id
          /\ \A o \in DOMAIN task : bookingSeq + 1 # task[o].booking
      <4>1. /\ bookingSeq \in Nat
            /\ \A r \in DOMAIN reminders : reminders[r].booking_id \in Nat
            /\ \A o \in DOMAIN task : task[o].booking \in Nat
          BY <1>0 DEF BInv, BotTypeOK, TypeOK, Reminder, Task
      <4>2. /\ \A r \in DOMAIN reminders : reminders[r].booking_id <= bookingSeq
            /\ \A o \in DOMAIN task : task[o].booking <= bookingSeq
          BY DEF RInv, OInv, RemindersKnown, BInv, BotTypeOK
      <4> QED
          BY <4>1, <4>2
    <3>3. OwedHasNoRow'
        BY <1>0, <2>1, <3>1, <3>2 DEF OwedHasNoRow, OwedBut, RowsKept
    <3>4. OwedByOne'
        BY <1>0, <3>1, <3>2 DEF OwedByOne, OwedBut
    <3> QED
        BY <3>3, <3>4
  <2>4. ASSUME OwedKept PROVE OwedHasNoRow' /\ OwedByOne'
      BY <1>0, <2>1, <2>4 DEF OwedHasNoRow, OwedByOne, OwedKept, RowsKept
  <2>5. ASSUME \A t \in Tasks : ~BookTask(t) PROVE OwedHasNoRow' /\ OwedByOne'
    <3>1. ASSUME NEW t \in Tasks, Update(t) \/ TaskStep(t) \/ ScheduleFails(t) \/ TaskRaises(t)
          PROVE  OwedKept
        BY <1>0, <2>5, <3>1, UpdateOwes, TaskOwes
    <3>2. ASSUME task' = task PROVE OwedKept
        BY <3>2 DEF OwedKept, Owes
    <3>3. ASSUME NEW b, NEW u, CancelButton(b, u) \/ PaymentThrottled(b, u) PROVE OwedKept
        BY <3>2, <3>3 DEF CancelButton, PaymentThrottled, botVars
    <3>4. ASSUME Crash PROVE OwedKept
        BY <3>4 DEF Crash, OwedKept
    <3>5. ASSUME UNCHANGED vars PROVE OwedKept
        BY <3>2, <3>5 DEF vars, botVars
    <3>6. OwedKept
        BY <3>1, <3>3, <3>4, <3>5 DEF BotNext
    <3> QED
        BY <2>4, <3>6
  <2> QED
      BY <2>2, <2>3, <2>5
<1> QED
    BY <1>0, <1>1, <1>2 DEF RInv

(* No booking gets two reminders: a handler that was run again after its   *)
(* booking owes the first one no second row, and a second handler has a    *)
(* booking of its own.                                                     *)
THEOREM BotOneReminderPerBooking == BotSpec => []OneReminderPerBooking
<1>1. BotInit => RInv
  <2> SUFFICES ASSUME BotInit
               PROVE  /\ BInv /\ RemindersKnown /\ OwnerKept
                      /\ OneReminderPerBooking /\ OwedHasNoRow /\ OwedByOne
      BY DEF RInv, OInv
  <2> QED
      BY BInvInit DEF BotInit, Init, RemindersKnown, OwnerKept, OneReminderPerBooking,
                      OwedHasNoRow, OwedByOne
<1>2. RInv => OneReminderPerBooking
    BY DEF RInv
<1> QED
    BY <1>1, <1>2, RNext, PTL DEF BotSpec
===============================================================================
