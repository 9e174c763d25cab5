---------------------------- MODULE BookingBotProofs ----------------------------
(***************************************************************************)
(* What holds of BookingBot for every set of users, slots and tasks and    *)
(* every bound.  The handlers implement the store: each of their steps is  *)
(* one transaction of BookingStore or leaves the database alone, so what   *)
(* BookingStoreProofs proves of the store holds of the whole bot.  On top  *)
(* of it, the ids that rows, invoices and handlers remember keep meaning   *)
(* the same customer's booking.                                            *)
(***************************************************************************)
EXTENDS BookingBot, BookingStoreProofs

(* What a handler's locals hold at each of its awaits. *)
LocalsOK ==
    \A t \in DOMAIN task :
        /\ task[t].pc = "book" => task[t].slot \in Slots
        /\ task[t].pc \in {"read_row", "create"} => task[t].flow = "booked"
        /\ task[t].flow = "booked" => task[t].booking \in 1..bookingSeq
        /\ task[t].flow = "paid" <=> task[t].pc = "mark_paid"
        /\ task[t].flow = "paid" => <<task[t].booking, task[t].user>> \in deposits

BInv == BotTypeOK /\ LocalsOK

-------------------------------------------------------------------------------
(* What the helpers do to the running handlers. *)
TaskTyped == DOMAIN task \subseteq Tasks /\ task \in [DOMAIN task -> Task]

(* A handler that goes on to its next await keeps its locals, and the      *)
(* other handlers are not touched.                                         *)
LEMMA GotoFacts ==
    ASSUME TaskTyped, NEW t \in DOMAIN task, NEW pc \in Pcs, Goto(t, pc)
    PROVE  /\ task' = [o \in DOMAIN task' |-> task'[o]]
           /\ DOMAIN task' = DOMAIN task
           /\ task'[t] \in Task
           /\ task'[t].pc = pc
           /\ task'[t].flow = task[t].flow
           /\ task'[t].user = task[t].user
           /\ task'[t].slot = task[t].slot
           /\ task'[t].booking = task[t].booking
           /\ task'[t].tries = task[t].tries
           /\ \A o \in DOMAIN task : o # t => task'[o] = task[o]
    BY DEF Goto, Task, TaskTyped

(* The outcome of book_slot gives capture_phone its booking and sends it   *)
(* on to state.clear(); the other handlers are not touched.                *)
LEMMA TurnFacts ==
    ASSUME TaskTyped, NEW t \in DOMAIN task, NEW flow \in Flows, NEW b \in Nat, Turn(t, flow, b)
    PROVE  /\ task' = [o \in DOMAIN task' |-> task'[o]]
           /\ DOMAIN task' = DOMAIN task
           /\ task'[t] \in Task
           /\ task'[t].pc = "clear_state"
           /\ task'[t].flow = flow
           /\ task'[t].user = task[t].user
           /\ task'[t].booking = b
           /\ task'[t].tries = task[t].tries
           /\ \A o \in DOMAIN task : o # t => task'[o] = task[o]
<1>1. task[t] \in Task
    BY DEF TaskTyped
<1>2. /\ DOMAIN task' = DOMAIN task
      /\ task' = [o \in DOMAIN task' |-> task'[o]]
      /\ \A o \in DOMAIN task : o # t => task'[o] = task[o]
    BY DEF Turn
<1>3. task'[t] = [task[t] EXCEPT !.flow = flow, !.pc = "clear_state", !.slot = NoSlot, !.booking = b]
    BY DEF Turn
<1> QED
    BY <1>1, <1>2, <1>3 DEF Task, Pcs

(* A handler that ends takes no other handler with it.                     *)
LEMMA EndFacts ==
    ASSUME NEW t, End(t)
    PROVE  /\ task' = [o \in DOMAIN task' |-> task'[o]]
           /\ DOMAIN task' = DOMAIN task \ {t}
           /\ \A o \in DOMAIN task' : task'[o] = task[o]
    BY DEF End, Delete, Restrict
-------------------------------------------------------------------------------
(* Every step of the bot is a transaction of the store, or no transaction. *)
LEMMA StoreStep == BInv /\ [BotNext]_vars => [Next]_storeVars
<1> SUFFICES ASSUME BInv, [BotNext]_vars PROVE [Next]_storeVars
    OBVIOUS
<1> USE DEF Next
<1>1. ASSUME NEW t \in Tasks, Update(t) PROVE [Next]_storeVars
    BY <1>1 DEF Update, StartCommand, SelectSlot, PhoneMessage, PaymentMessage, PrivacyConfirm
<1>2. ASSUME NEW t \in Tasks, BookTask(t) PROVE Next
    BY <1>2 DEF BookTask, At, BInv, BotTypeOK, LocalsOK, Task
<1>3. ASSUME NEW t \in Tasks, Create(t) PROVE [Next]_storeVars
    BY <1>3 DEF Create, At, BInv, BotTypeOK, LocalsOK, Task
<1>4. ASSUME NEW t \in Tasks, MarkPaid(t) PROVE [Next]_storeVars
  <2>1. CASE Payable(PayloadBooking(t))
      BY <1>4, <2>1 DEF MarkPaid, Payable, Live, BInv, BotTypeOK, TypeOK
  <2> QED
      BY <1>4, <2>1 DEF MarkPaid
<1>5. ASSUME NEW t \in Tasks, Audit(t) PROVE Next
    BY <1>5 DEF Audit, At, BInv, BotTypeOK, Task
<1>6. ASSUME NEW t \in Tasks,
             \/ SetData(t) \/ SetState(t) \/ GetData(t) \/ SlotUnavailable(t) \/ BookRaises(t)
             \/ ClearState(t) \/ ClearData(t) \/ ReadRow(t) \/ Answer(t) \/ AnswerFails(t)
             \/ ScheduleFails(t) \/ TaskRaises(t) \/ Crash
      PROVE  UNCHANGED storeVars
    BY <1>6 DEF SetData, SetState, GetData, SlotUnavailable, BookRaises, ClearState, ClearData,
                ReadRow, Answer, AnswerFails, ScheduleFails, TaskRaises, Crash
<1>7. ASSUME NEW b \in 1..bookingSeq, NEW u \in Users, CancelButton(b, u) PROVE Next
    BY <1>7 DEF CancelButton
<1>8. CASE Crash
    BY <1>8 DEF Crash
<1>9. CASE UNCHANGED vars
    BY <1>9 DEF vars
<1>10. ASSUME NEW b, NEW u, PaymentThrottled(b, u) PROVE UNCHANGED storeVars
    BY <1>10 DEF PaymentThrottled
<1> QED
    BY <1>1, <1>2, <1>3, <1>4, <1>5, <1>6, <1>7, <1>8, <1>9, <1>10 DEF BotNext, TaskStep
-------------------------------------------------------------------------------
(* The invariant, cut along the parts of the state a step changes. *)
RecOK(x, seq, paid) ==
    /\ x \in Task
    /\ x.booking <= seq
    /\ x.tries < MaxRetries
    /\ x.pc = "book" => x.slot \in Slots
    /\ x.pc \in {"read_row", "create"} => x.flow = "booked"
    /\ x.flow = "booked" => x.booking \in 1..seq
    /\ x.flow = "paid" <=> x.pc = "mark_paid"
    /\ x.flow = "paid" => <<x.booking, x.user>> \in paid

TasksOK ==
    /\ DOMAIN task \subseteq Tasks
    /\ task = [t \in DOMAIN task |-> task[t]]
    /\ \A t \in DOMAIN task : RecOK(task[t], bookingSeq, deposits)

FsmOK ==
    /\ fsm_state \in [Users -> BOOLEAN]
    /\ fsm_data \in [Users -> Slots \cup {NoSlot}]

MoneyOK ==
    /\ invoices \subseteq (1..bookingSeq) \X Users
    /\ deposits \subseteq Links \X Users
    /\ errors \in 0..MaxErrors
    /\ crashes \in 0..MaxCrashes

(* The parts make up the invariant.                                        *)
LEMMA BInvParts == BInv <=> TypeOK /\ TasksOK /\ FsmOK /\ MoneyOK
    BY DEF BInv, BotTypeOK, LocalsOK, TasksOK, FsmOK, MoneyOK, RecOK

(* The parts, after a step, make up the invariant after it.                *)
LEMMA BInvPartsNext == TypeOK' /\ TasksOK' /\ FsmOK' /\ MoneyOK' => BInv'
    BY DEF BInv, BotTypeOK, LocalsOK, TasksOK, FsmOK, MoneyOK, RecOK

(* The record of a handler that a step does not change stays good.         *)
LEMMA RecKept ==
    ASSUME TypeOK, bookingSeq' \in Nat, bookingSeq <= bookingSeq',
           deposits \subseteq deposits', NEW o, RecOK(task[o], bookingSeq, deposits), task'[o] = task[o]
    PROVE  RecOK(task'[o], bookingSeq', deposits')
    BY DEF RecOK, Task, TypeOK

(* A step that begins, changes or ends the handler of t, and leaves it     *)
(* with a good record.                                                     *)
OnlyChanges(t) ==
    /\ task' = [o \in DOMAIN task' |-> task'[o]]
    /\ DOMAIN task' \subseteq DOMAIN task \cup {t}
    /\ \A o \in DOMAIN task : o # t => o \in DOMAIN task' /\ task'[o] = task[o]

(* To keep every record good, a step has only to leave a good one for the  *)
(* handler it moves.                                                       *)
LEMMA TasksAfter ==
    ASSUME TypeOK, TasksOK, bookingSeq <= bookingSeq', bookingSeq' \in Nat,
           deposits \subseteq deposits', NEW t \in Tasks, OnlyChanges(t),
           t \in DOMAIN task' => RecOK(task'[t], bookingSeq', deposits')
    PROVE  TasksOK'
<1>1. \A o \in DOMAIN task' : RecOK(task'[o], bookingSeq', deposits')
    BY RecKept DEF TasksOK, OnlyChanges
<1> QED
    BY <1>1 DEF TasksOK, OnlyChanges

-------------------------------------------------------------------------------
(* The invariant is inductive: it holds at first.                          *)
LEMMA BInvInit == BotInit => BInv
<1> SUFFICES ASSUME BotInit PROVE TypeOK /\ TasksOK /\ FsmOK /\ MoneyOK
    BY BInvParts
<1>1. TypeOK
    BY InitIInv DEF BotInit, IInv
<1> QED
    BY <1>1, BotAssumption DEF BotInit, TasksOK, FsmOK, MoneyOK

(* The updates that arrive. *)
LEMMA BInvUpdate ==
    ASSUME BInv, TypeOK', bookingSeq <= bookingSeq', bookingSeq' \in Nat,
           NEW t \in Tasks, Update(t)
    PROVE  BInv'
<1> SUFFICES TasksOK' /\ FsmOK' /\ MoneyOK'
    BY BInvPartsNext
<1>0. TypeOK /\ TasksOK /\ FsmOK /\ MoneyOK
    BY BInvParts
<1>1. ASSUME NEW u \in Users, StartCommand(t, u) PROVE TasksOK' /\ FsmOK' /\ MoneyOK'
  <2>1. RecOK(task'[t], bookingSeq', deposits')
      BY <1>0, <1>1, BotAssumption DEF StartCommand, Begin, Insert, RecOK, Task, Flows, Pcs
  <2>2. deposits \subseteq deposits'
      BY <1>1 DEF StartCommand, moneyVars
  <2>3. OnlyChanges(t)
      BY <1>1 DEF StartCommand, Begin, Insert, OnlyChanges
  <2>4. TasksOK'
      BY <1>0, <2>1, <2>2, <2>3, TasksAfter
  <2> QED
      BY <1>0, <1>1, <2>4 DEF StartCommand, FsmOK, MoneyOK, Links, fsmVars, moneyVars, faultVars, storeVars, slotVars
<1>2. ASSUME NEW u \in Users, NEW s \in Slots, SelectSlot(t, u, s) PROVE TasksOK' /\ FsmOK' /\ MoneyOK'
  <2>1. RecOK(task'[t], bookingSeq', deposits')
      BY <1>0, <1>2, BotAssumption DEF SelectSlot, Begin, Insert, RecOK, Task, Flows, Pcs
  <2>2. deposits \subseteq deposits'
      BY <1>2 DEF SelectSlot, moneyVars
  <2>3. OnlyChanges(t)
      BY <1>2 DEF SelectSlot, Begin, Insert, OnlyChanges
  <2>4. TasksOK'
      BY <1>0, <2>1, <2>2, <2>3, TasksAfter
  <2> QED
      BY <1>0, <1>2, <2>4 DEF SelectSlot, FsmOK, MoneyOK, Links, fsmVars, moneyVars, faultVars, storeVars, slotVars
<1>3. ASSUME NEW u \in Users, PhoneMessage(t, u) PROVE TasksOK' /\ FsmOK' /\ MoneyOK'
  <2>1. RecOK(task'[t], bookingSeq', deposits')
      BY <1>0, <1>3, BotAssumption DEF PhoneMessage, Begin, Insert, RecOK, Task, Flows, Pcs
  <2>2. deposits \subseteq deposits'
      BY <1>3 DEF PhoneMessage, moneyVars
  <2>3. OnlyChanges(t)
      BY <1>3 DEF PhoneMessage, Begin, Insert, OnlyChanges
  <2>4. TasksOK'
      BY <1>0, <2>1, <2>2, <2>3, TasksAfter
  <2> QED
      BY <1>0, <1>3, <2>4 DEF PhoneMessage, FsmOK, MoneyOK, Links, fsmVars, moneyVars, faultVars, storeVars, slotVars
<1>4. ASSUME NEW u \in Users, NEW b \in 1..bookingSeq, PaymentMessage(t, u, b) PROVE TasksOK' /\ FsmOK' /\ MoneyOK'
  <2>1. deposits \subseteq deposits' /\ MoneyOK' /\ FsmOK' /\ bookingSeq' = bookingSeq
      BY <1>0, <1>4 DEF PaymentMessage, Unpaid, FsmOK, MoneyOK, Links, fsmVars, moneyVars, faultVars, storeVars, slotVars
  <2>2. CASE fsm_state[u]
    <3>1. Begin(t, "phone", "get_data", u, NoSlot, 0)
        BY <1>4, <2>2 DEF PaymentMessage
    <3>2. RecOK(task'[t], bookingSeq', deposits')
        BY <2>1, <3>1, BotAssumption DEF Begin, Insert, RecOK, Task, Flows, Pcs
    <3>4. OnlyChanges(t)
        BY <3>1 DEF Begin, Insert, OnlyChanges
    <3> QED
        BY <1>0, <2>1, <3>2, <3>4, TasksAfter
  <2>3. CASE ~fsm_state[u]
    <3>1. Begin(t, "paid", "mark_paid", u, NoSlot, b)
        BY <1>4, <2>3 DEF PaymentMessage
    <3>2. <<b, u>> \in deposits'
        BY <1>4 DEF PaymentMessage
    <3>3. RecOK(task'[t], bookingSeq', deposits')
        BY <1>0, <2>1, <3>1, <3>2, BotAssumption DEF Begin, Insert, RecOK, Task, Flows, Pcs, TypeOK
    <3>4. OnlyChanges(t)
        BY <3>1 DEF Begin, Insert, OnlyChanges
    <3> QED
        BY <1>0, <2>1, <3>3, <3>4, TasksAfter
  <2> QED
      BY <2>2, <2>3
<1>5. ASSUME NEW u \in Users, PrivacyConfirm(t, u) PROVE TasksOK' /\ FsmOK' /\ MoneyOK'
  <2>1. RecOK(task'[t], bookingSeq', deposits')
      BY <1>0, <1>5, BotAssumption DEF PrivacyConfirm, Begin, Insert, RecOK, Task, Flows, Pcs
  <2>2. deposits \subseteq deposits'
      BY <1>5 DEF PrivacyConfirm, moneyVars
  <2>3. OnlyChanges(t)
      BY <1>5 DEF PrivacyConfirm, Begin, Insert, OnlyChanges
  <2>4. TasksOK'
      BY <1>0, <2>1, <2>2, <2>3, TasksAfter
  <2> QED
      BY <1>0, <1>5, <2>4 DEF PrivacyConfirm, FsmOK, MoneyOK, Links, fsmVars, moneyVars, faultVars, storeVars, slotVars, DeleteUserData
<1> QED
    BY <1>1, <1>2, <1>3, <1>4, <1>5 DEF Update
(* The steps of a running handler. *)
LEMMA BInvTask ==
    ASSUME BInv, TypeOK', bookingSeq <= bookingSeq', bookingSeq' \in Nat,
           NEW t \in Tasks, TaskStep(t) \/ ScheduleFails(t) \/ TaskRaises(t)
    PROVE  BInv'
<1> SUFFICES TasksOK' /\ FsmOK' /\ MoneyOK'
    BY BInvPartsNext
<1>0. TypeOK /\ TasksOK /\ FsmOK /\ MoneyOK /\ TaskTyped
    BY BInvParts DEF TasksOK, TaskTyped, RecOK
<1>a. t \in DOMAIN task => RecOK(task[t], bookingSeq, deposits)
    BY <1>0 DEF TasksOK
<1>1. ASSUME SetData(t) PROVE TasksOK' /\ FsmOK' /\ MoneyOK'
  <2>f. FsmOK' /\ MoneyOK' /\ deposits \subseteq deposits'
      BY <1>0, <1>a, <1>1 DEF SetData, At, RecOK, Task, FsmOK, MoneyOK, Links, fsmVars, moneyVars, faultVars, storeVars, slotVars
  <2>1. t \in DOMAIN task /\ RecOK(task[t], bookingSeq, deposits)
      BY <1>a, <1>1 DEF SetData, At
  <2>2. PICK pc \in {"set_state"} : Goto(t, pc)
      BY <1>1 DEF SetData
  <2>p. pc \in Pcs
      BY <2>2 DEF Pcs
  <2>3. OnlyChanges(t) /\ t \in DOMAIN task'
      BY <1>0, <2>1, <2>2, <2>p, GotoFacts DEF OnlyChanges
  <2>b. /\ pc = "read_row" \/ pc = "create" => task[t].flow = "booked"
        /\ pc # "mark_paid" /\ task[t].pc # "mark_paid"
      BY <1>0, <1>a, <1>1, <2>1, <2>2 DEF SetData, At, RecOK, Goto, TaskTyped, Task
  <2>4. RecOK(task'[t], bookingSeq', deposits')
      BY <1>0, <2>f, <2>1, <2>2, <2>p, <2>b, GotoFacts DEF RecOK, TypeOK, Task
  <2> QED
      BY <1>0, <2>f, <2>3, <2>4, TasksAfter
<1>2. ASSUME ClearState(t) PROVE TasksOK' /\ FsmOK' /\ MoneyOK'
  <2>f. FsmOK' /\ MoneyOK' /\ deposits \subseteq deposits'
      BY <1>0, <1>a, <1>2 DEF ClearState, At, RecOK, Task, FsmOK, MoneyOK, Links, fsmVars, moneyVars, faultVars, storeVars, slotVars
  <2>1. t \in DOMAIN task /\ RecOK(task[t], bookingSeq, deposits)
      BY <1>a, <1>2 DEF ClearState, At
  <2>2. PICK pc \in {"clear_data"} : Goto(t, pc)
      BY <1>2 DEF ClearState
  <2>p. pc \in Pcs
      BY <2>2 DEF Pcs
  <2>3. OnlyChanges(t) /\ t \in DOMAIN task'
      BY <1>0, <2>1, <2>2, <2>p, GotoFacts DEF OnlyChanges
  <2>b. /\ pc = "read_row" \/ pc = "create" => task[t].flow = "booked"
        /\ pc # "mark_paid" /\ task[t].pc # "mark_paid"
      BY <1>0, <1>a, <1>2, <2>1, <2>2 DEF ClearState, At, RecOK, Goto, TaskTyped, Task
  <2>4. RecOK(task'[t], bookingSeq', deposits')
      BY <1>0, <2>f, <2>1, <2>2, <2>p, <2>b, GotoFacts DEF RecOK, TypeOK, Task
  <2> QED
      BY <1>0, <2>f, <2>3, <2>4, TasksAfter
<1>3. ASSUME ClearData(t) PROVE TasksOK' /\ FsmOK' /\ MoneyOK'
  <2>f. FsmOK' /\ MoneyOK' /\ deposits \subseteq deposits'
      BY <1>0, <1>a, <1>3 DEF ClearData, At, RecOK, Task, FsmOK, MoneyOK, Links, fsmVars, moneyVars, faultVars, storeVars, slotVars
  <2>1. t \in DOMAIN task /\ RecOK(task[t], bookingSeq, deposits)
      BY <1>a, <1>3 DEF ClearData, At
  <2>2. PICK pc \in {"read_row", "answer"} : Goto(t, pc)
      BY <1>3 DEF ClearData
  <2>p. pc \in Pcs
      BY <2>2 DEF Pcs
  <2>3. OnlyChanges(t) /\ t \in DOMAIN task'
      BY <1>0, <2>1, <2>2, <2>p, GotoFacts DEF OnlyChanges
  <2>b. /\ pc = "read_row" \/ pc = "create" => task[t].flow = "booked"
        /\ pc # "mark_paid" /\ task[t].pc # "mark_paid"
      BY <1>0, <1>a, <1>3, <2>1, <2>2 DEF ClearData, At, RecOK, Goto, TaskTyped, Task
  <2>4. RecOK(task'[t], bookingSeq', deposits')
      BY <1>0, <2>f, <2>1, <2>2, <2>p, <2>b, GotoFacts DEF RecOK, TypeOK, Task
  <2> QED
      BY <1>0, <2>f, <2>3, <2>4, TasksAfter
<1>4. ASSUME ReadRow(t) PROVE TasksOK' /\ FsmOK' /\ MoneyOK'
  <2>f. FsmOK' /\ MoneyOK' /\ deposits \subseteq deposits'
      BY <1>0, <1>a, <1>4 DEF ReadRow, At, RecOK, Task, FsmOK, MoneyOK, Links, fsmVars, moneyVars, faultVars, storeVars, slotVars
  <2>1. t \in DOMAIN task /\ RecOK(task[t], bookingSeq, deposits)
      BY <1>a, <1>4 DEF ReadRow, At
  <2>2. PICK pc \in {"create", "answer"} : Goto(t, pc)
      BY <1>4 DEF ReadRow
  <2>p. pc \in Pcs
      BY <2>2 DEF Pcs
  <2>3. OnlyChanges(t) /\ t \in DOMAIN task'
      BY <1>0, <2>1, <2>2, <2>p, GotoFacts DEF OnlyChanges
  <2>b. /\ pc = "read_row" \/ pc = "create" => task[t].flow = "booked"
        /\ pc # "mark_paid" /\ task[t].pc # "mark_paid"
      BY <1>0, <1>a, <1>4, <2>1, <2>2 DEF ReadRow, At, RecOK, Goto, TaskTyped, Task
  <2>4. RecOK(task'[t], bookingSeq', deposits')
      BY <1>0, <2>f, <2>1, <2>2, <2>p, <2>b, GotoFacts DEF RecOK, TypeOK, Task
  <2> QED
      BY <1>0, <2>f, <2>3, <2>4, TasksAfter
<1>5. ASSUME Create(t) PROVE TasksOK' /\ FsmOK' /\ MoneyOK'
  <2>f. FsmOK' /\ MoneyOK' /\ deposits \subseteq deposits'
      BY <1>0, <1>a, <1>5 DEF Create, At, RecOK, Task, FsmOK, MoneyOK, Links, fsmVars, moneyVars, faultVars, storeVars, slotVars, CreateReminder
  <2>1. t \in DOMAIN task /\ RecOK(task[t], bookingSeq, deposits)
      BY <1>a, <1>5 DEF Create, At
  <2>2. PICK pc \in {"answer"} : Goto(t, pc)
      BY <1>5 DEF Create
  <2>p. pc \in Pcs
      BY <2>2 DEF Pcs
  <2>3. OnlyChanges(t) /\ t \in DOMAIN task'
      BY <1>0, <2>1, <2>2, <2>p, GotoFacts DEF OnlyChanges
  <2>b. /\ pc = "read_row" \/ pc = "create" => task[t].flow = "booked"
        /\ pc # "mark_paid" /\ task[t].pc # "mark_paid"
      BY <1>0, <1>a, <1>5, <2>1, <2>2 DEF Create, At, RecOK, Goto, TaskTyped, Task
  <2>4. RecOK(task'[t], bookingSeq', deposits')
      BY <1>0, <2>f, <2>1, <2>2, <2>p, <2>b, GotoFacts DEF RecOK, TypeOK, Task
  <2> QED
      BY <1>0, <2>f, <2>3, <2>4, TasksAfter
<1>6. ASSUME ScheduleFails(t) PROVE TasksOK' /\ FsmOK' /\ MoneyOK'
  <2>f. FsmOK' /\ MoneyOK' /\ deposits \subseteq deposits'
      BY <1>0, <1>6, BotAssumption DEF ScheduleFails, FsmOK, MoneyOK, Links, fsmVars, moneyVars, faultVars, storeVars, slotVars
  <2>1. t \in DOMAIN task /\ RecOK(task[t], bookingSeq, deposits)
      BY <1>a, <1>6 DEF ScheduleFails, At
  <2>2. PICK pc \in {"answer"} : Goto(t, pc)
      BY <1>6 DEF ScheduleFails, AfterScheduleFailure
  <2>p. pc \in Pcs
      BY <2>2 DEF Pcs
  <2>3. OnlyChanges(t) /\ t \in DOMAIN task'
      BY <1>0, <2>1, <2>2, <2>p, GotoFacts DEF OnlyChanges
  <2>b. /\ pc = "read_row" \/ pc = "create" => task[t].flow = "booked"
        /\ pc # "mark_paid" /\ task[t].pc # "mark_paid"
      BY <1>0, <1>a, <1>6, <2>1, <2>2 DEF ScheduleFails, At, RecOK, Goto, TaskTyped, Task
  <2>4. RecOK(task'[t], bookingSeq', deposits')
      BY <1>0, <2>f, <2>1, <2>2, <2>p, <2>b, GotoFacts DEF RecOK, TypeOK, Task
  <2> QED
      BY <1>0, <2>f, <2>3, <2>4, TasksAfter
<1>7. ASSUME SetState(t) PROVE TasksOK' /\ FsmOK' /\ MoneyOK'
  <2>f. FsmOK' /\ MoneyOK' /\ deposits \subseteq deposits'
      BY <1>0, <1>a, <1>7 DEF SetState, At, RecOK, Task, FsmOK, MoneyOK, Links, fsmVars, moneyVars, faultVars, storeVars, slotVars
  <2>1. End(t)
      BY <1>7 DEF SetState
  <2> QED
      BY <1>0, <2>f, <2>1, EndFacts, TasksAfter DEF OnlyChanges
<1>8. ASSUME BookRaises(t) PROVE TasksOK' /\ FsmOK' /\ MoneyOK'
  <2>f. FsmOK' /\ MoneyOK' /\ deposits \subseteq deposits'
      BY <1>0, <1>a, <1>8 DEF BookRaises, At, RecOK, Task, FsmOK, MoneyOK, Links, fsmVars, moneyVars, faultVars, storeVars, slotVars
  <2>1. End(t)
      BY <1>8 DEF BookRaises
  <2> QED
      BY <1>0, <2>f, <2>1, EndFacts, TasksAfter DEF OnlyChanges
<1>9. ASSUME Answer(t) PROVE TasksOK' /\ FsmOK' /\ MoneyOK'
  <2>f. FsmOK' /\ MoneyOK' /\ deposits \subseteq deposits'
      BY <1>0, <1>a, <1>9 DEF Answer, At, RecOK, Task, FsmOK, MoneyOK, Links, fsmVars, moneyVars, faultVars, storeVars, slotVars, Delivered
  <2>1. End(t)
      BY <1>9 DEF Answer
  <2> QED
      BY <1>0, <2>f, <2>1, EndFacts, TasksAfter DEF OnlyChanges
<1>10. ASSUME MarkPaid(t) PROVE TasksOK' /\ FsmOK' /\ MoneyOK'
  <2>f. FsmOK' /\ MoneyOK' /\ deposits \subseteq deposits'
      BY <1>0, <1>a, <1>10 DEF MarkPaid, At, RecOK, Task, FsmOK, MoneyOK, Links, fsmVars, moneyVars, faultVars, storeVars, slotVars, MarkBookingPaid
  <2>1. End(t)
      BY <1>10 DEF MarkPaid
  <2> QED
      BY <1>0, <2>f, <2>1, EndFacts, TasksAfter DEF OnlyChanges
<1>11. ASSUME Audit(t) PROVE TasksOK' /\ FsmOK' /\ MoneyOK'
  <2>f. FsmOK' /\ MoneyOK' /\ deposits \subseteq deposits'
      BY <1>0, <1>a, <1>11 DEF Audit, At, RecOK, Task, FsmOK, MoneyOK, Links, fsmVars, moneyVars, faultVars, storeVars, slotVars, LogAudit
  <2>1. End(t)
      BY <1>11 DEF Audit
  <2> QED
      BY <1>0, <2>f, <2>1, EndFacts, TasksAfter DEF OnlyChanges
<1>12. ASSUME TaskRaises(t) PROVE TasksOK' /\ FsmOK' /\ MoneyOK'
  <2>f. FsmOK' /\ MoneyOK' /\ deposits \subseteq deposits'
      BY <1>0, <1>12, BotAssumption DEF TaskRaises, FsmOK, MoneyOK, Links, fsmVars, moneyVars, faultVars, storeVars, slotVars
  <2>1. End(t)
      BY <1>12 DEF TaskRaises
  <2> QED
      BY <1>0, <2>f, <2>1, EndFacts, TasksAfter DEF OnlyChanges
<1>13. ASSUME GetData(t) PROVE TasksOK' /\ FsmOK' /\ MoneyOK'
  <2>f. FsmOK' /\ MoneyOK' /\ deposits \subseteq deposits'
      BY <1>0, <1>a, <1>13 DEF GetData, At, RecOK, Task, FsmOK, MoneyOK, Links, fsmVars, moneyVars, faultVars, storeVars, slotVars
  <2>1. t \in DOMAIN task /\ task[t].pc = "get_data" /\ RecOK(task[t], bookingSeq, deposits)
      BY <1>a, <1>13 DEF GetData, At
  <2>2. CASE fsm_data[task[t].user] = NoSlot
      BY <1>0, <1>13, <2>f, <2>2, EndFacts, TasksAfter DEF GetData, OnlyChanges
  <2>3. CASE fsm_data[task[t].user] # NoSlot
    <3>1. fsm_data[task[t].user] \in Slots
        BY <1>0, <2>1, <2>3 DEF FsmOK, RecOK, Task
    <3>2. task' = [task EXCEPT ![t].pc = "book", ![t].slot = fsm_data[task[t].user]]
        BY <1>13, <2>3 DEF GetData
    <3>3. OnlyChanges(t) /\ t \in DOMAIN task'
        BY <1>0, <2>1, <3>2 DEF OnlyChanges, TaskTyped, Task
    <3>4. /\ task'[t] \in Task
          /\ task'[t].pc = "book"
          /\ task'[t].slot = fsm_data[task[t].user]
          /\ task'[t].flow = task[t].flow
          /\ task'[t].user = task[t].user
          /\ task'[t].booking = task[t].booking
          /\ task'[t].tries = task[t].tries
        BY <1>0, <2>1, <3>1, <3>2 DEF TaskTyped, Task, Pcs
    <3>5. RecOK(task'[t], bookingSeq', deposits')
        BY <1>0, <2>f, <2>1, <3>1, <3>4 DEF RecOK, TypeOK, Task
    <3> QED
        BY <1>0, <2>f, <3>3, <3>5, TasksAfter
  <2> QED
      BY <2>2, <2>3
<1>14. ASSUME BookTask(t) PROVE TasksOK' /\ FsmOK' /\ MoneyOK'
  <2>e. bookingSeq \in Nat /\ bookingSeq' = bookingSeq + 1 /\ invoices' = invoices
      BY <1>0, <1>14 DEF BookTask, BookSlot, TypeOK, moneyVars
  <2>f. FsmOK' /\ MoneyOK' /\ deposits \subseteq deposits'
      BY <1>0, <1>14, <2>e DEF BookTask, FsmOK, MoneyOK, Links, fsmVars, moneyVars, faultVars
  <2>1. t \in DOMAIN task /\ RecOK(task[t], bookingSeq, deposits)
      BY <1>a, <1>14 DEF BookTask, At
  <2>2. Turn(t, "booked", NextBookingId) /\ NextBookingId \in Nat /\ NextBookingId <= bookingSeq'
      BY <1>0, <1>14, <2>1 DEF BookTask, NextBookingId, BookSlot, TypeOK, RecOK, Task, storeVars, slotVars
  <2>3. OnlyChanges(t) /\ t \in DOMAIN task'
      BY <1>0, <2>1, <2>2, TurnFacts DEF OnlyChanges, Flows
  <2>4. /\ task'[t] \in Task
        /\ task'[t].pc = "clear_state"
        /\ task'[t].flow = "booked"
        /\ task'[t].booking = NextBookingId
        /\ task'[t].tries = task[t].tries
      BY <1>0, <2>1, <2>2, TurnFacts DEF Flows
  <2>5. RecOK(task'[t], bookingSeq', deposits')
      BY <1>0, <2>f, <2>1, <2>2, <2>4 DEF RecOK, TypeOK, Task, NextBookingId
  <2> QED
      BY <1>0, <2>f, <2>3, <2>5, TasksAfter
<1>15. ASSUME SlotUnavailable(t) PROVE TasksOK' /\ FsmOK' /\ MoneyOK'
  <2>f. FsmOK' /\ MoneyOK' /\ deposits \subseteq deposits'
      BY <1>0, <1>a, <1>15 DEF SlotUnavailable, At, RecOK, Task, FsmOK, MoneyOK, Links, fsmVars, moneyVars, faultVars, storeVars, slotVars
  <2>1. t \in DOMAIN task /\ RecOK(task[t], bookingSeq, deposits)
      BY <1>a, <1>15 DEF SlotUnavailable, At
  <2>2. Turn(t, "full", task[t].booking) /\ task[t].booking \in Nat /\ task[t].booking <= bookingSeq'
      BY <1>0, <1>15, <2>1 DEF SlotUnavailable, NextBookingId, BookSlot, TypeOK, RecOK, Task, storeVars, slotVars
  <2>3. OnlyChanges(t) /\ t \in DOMAIN task'
      BY <1>0, <2>1, <2>2, TurnFacts DEF OnlyChanges, Flows
  <2>4. /\ task'[t] \in Task
        /\ task'[t].pc = "clear_state"
        /\ task'[t].flow = "full"
        /\ task'[t].booking = task[t].booking
        /\ task'[t].tries = task[t].tries
      BY <1>0, <2>1, <2>2, TurnFacts DEF Flows
  <2>5. RecOK(task'[t], bookingSeq', deposits')
      BY <1>0, <2>f, <2>1, <2>2, <2>4 DEF RecOK, TypeOK, Task, NextBookingId
  <2> QED
      BY <1>0, <2>f, <2>3, <2>5, TasksAfter
<1>16. ASSUME AnswerFails(t) PROVE TasksOK' /\ FsmOK' /\ MoneyOK'
  <2>f. FsmOK' /\ MoneyOK' /\ deposits \subseteq deposits'
      BY <1>0, <1>a, <1>16 DEF AnswerFails, At, RecOK, Task, FsmOK, MoneyOK, Links, fsmVars, moneyVars, faultVars, storeVars, slotVars, Delivered
  <2>1. t \in DOMAIN task /\ task[t].pc = "answer" /\ RecOK(task[t], bookingSeq, deposits)
      BY <1>a, <1>16 DEF AnswerFails, At
  <2>2. CASE End(t)
      BY <1>0, <2>f, <2>2, EndFacts, TasksAfter DEF OnlyChanges
  <2>3. CASE ~End(t)
    <3>1. PICK pc \in {"clear_state", "get_data"} :
              task' = [task EXCEPT ![t].pc = pc, ![t].tries = TriesAfter(t)]
        BY <1>16, <2>3 DEF AnswerFails, Restart
    <3>2. TriesAfter(t) \in Nat /\ TriesAfter(t) < MaxRetries
        BY <1>16, <2>1, <2>3, BotAssumption DEF AnswerFails, LastTry, TriesAfter, RecOK, Task
    <3>3. OnlyChanges(t) /\ t \in DOMAIN task'
        BY <1>0, <2>1, <3>1 DEF OnlyChanges, TaskTyped, Task
    <3>4. /\ task'[t] \in Task
          /\ task'[t].pc = pc
          /\ task'[t].flow = task[t].flow
          /\ task'[t].user = task[t].user
          /\ task'[t].booking = task[t].booking
          /\ task'[t].tries = TriesAfter(t)
        BY <1>0, <2>1, <3>1, <3>2 DEF TaskTyped, Task, Pcs
    <3>5. RecOK(task'[t], bookingSeq', deposits')
        BY <1>0, <2>f, <2>1, <3>1, <3>2, <3>4 DEF RecOK, TypeOK, Task
    <3> QED
        BY <1>0, <2>f, <3>3, <3>5, TasksAfter
  <2> QED
      BY <1>16, <2>2, <2>3 DEF AnswerFails
<1> QED
    BY <1>1, <1>2, <1>3, <1>4, <1>5, <1>6, <1>7, <1>8, <1>9, <1>10, <1>11, <1>12, <1>13, <1>14, <1>15, <1>16 DEF TaskStep
(* One step of the bot keeps the invariant. *)
LEMMA BInvNext == BInv /\ [BotNext]_vars => BInv'
<1> SUFFICES ASSUME BInv, [BotNext]_vars PROVE BInv'
    OBVIOUS
<1>0. TypeOK /\ TasksOK /\ FsmOK /\ MoneyOK
    BY BInvParts
<1>1. TypeOK' /\ bookingSeq <= bookingSeq' /\ bookingSeq' \in Nat
    BY <1>0, StoreStep, TypeNext, SeqGrows
<1>2. ASSUME NEW t \in Tasks, Update(t) PROVE BInv'
    BY <1>1, <1>2, BInvUpdate
<1>3. ASSUME NEW t \in Tasks, TaskStep(t) \/ ScheduleFails(t) \/ TaskRaises(t) PROVE BInv'
    BY <1>1, <1>3, BInvTask
<1>4. ASSUME UNCHANGED botVars, bookingSeq' = bookingSeq PROVE BInv'
  <2>1. TasksOK' /\ FsmOK' /\ MoneyOK'
      BY <1>0, <1>4 DEF TasksOK, FsmOK, MoneyOK, Links, botVars, fsmVars, moneyVars, faultVars
  <2> QED
      BY <1>1, <2>1, BInvPartsNext
<1>5. ASSUME NEW b \in 1..bookingSeq, NEW u \in Users, CancelButton(b, u) PROVE BInv'
    BY <1>4, <1>5 DEF CancelButton, CancelBooking
<1>6. CASE Crash
  <2>1. FsmOK'
      BY <1>0, <1>6 DEF Crash, FsmLost, FsmOK, fsmVars
  <2>2. MoneyOK'
      BY <1>0, <1>6, BotAssumption DEF Crash, Unpaid, MoneyOK, Links, storeVars, slotVars
  <2>3. TasksOK'
      BY <1>6 DEF Crash, TasksOK
  <2> QED
      BY <1>1, <2>1, <2>2, <2>3, BInvPartsNext
<1>7. CASE UNCHANGED vars
    BY <1>4, <1>7 DEF vars, storeVars, slotVars
<1>8. ASSUME NEW b \in 1..bookingSeq, NEW u \in Users, PaymentThrottled(b, u) PROVE BInv'
  <2>1. TasksOK' /\ FsmOK' /\ MoneyOK'
      BY <1>0, <1>8
      DEF PaymentThrottled, Unpaid, RecOK, TasksOK, FsmOK, MoneyOK, Links, fsmVars, faultVars, storeVars, slotVars
  <2> QED
      BY <1>1, <2>1, BInvPartsNext
<1> QED
    BY <1>2, <1>3, <1>5, <1>6, <1>7, <1>8 DEF BotNext

(* The inductive invariant of the bot: typed state, and handlers whose     *)
(* locals fit the await they are at (a booking handler that schedules a    *)
(* reminder has a booking, a payment handler has a deposit).               *)
THEOREM BotInvariant == BotSpec => []BInv
    BY BInvInit, BInvNext, PTL DEF BotSpec

(* The tables, the conversation state and the locals of every handler hold *)
(* values of their types, and no handler is tried more than MaxRetries     *)
(* times.                                                                  *)
THEOREM BotTypeCorrect == BotSpec => []BotTypeOK
<1>1. BInv => BotTypeOK
    BY DEF BInv
<1> QED
    BY BotInvariant, <1>1, PTL

(* The handlers, at the grain of their awaits, implement the transactions  *)
(* of the store.                                                           *)
THEOREM BotImplementsStore == BotSpec => Spec
<1>1. BotInit => Init
    BY DEF BotInit
<1> QED
    BY <1>1, BotInvariant, StoreStep, PTL DEF BotSpec, Spec

(* README, Features: "a slot is never double-held", whatever the handlers  *)
(* interleave, whichever calls fail, and wherever the process dies.        *)
THEOREM BotNeverDoubleHeld == BotSpec => []NeverDoubleHeld
    BY BotImplementsStore, StoreNeverDoubleHeld, PTL

(* From the awaits of the handlers to the promise: whatever the bot does,  *)
(* holds are taken by a customer, one per slot, and given back by the same *)
(* customer. *)
THEOREM BotImplementsLedger == BotSpec => LedgerSpec
    BY BotImplementsStore, StoreImplementsLedger, PTL

(* A handler that marks a payment or cancels long after it read its ids    *)
(* neither revives a booking nor touches the row of somebody else: rows    *)
(* keep slot and client, and keys are not given again. *)
THEOREM BotBookingLife == BotSpec => BookingLife
    BY BotImplementsStore, StoreBookingLife, PTL
-------------------------------------------------------------------------------
(* Ids keep their owner.  A copy of an id is at most bookingSeq when it is *)
(* made, and a row that appears later has a key above it.                  *)
RemindersKnown == \A r \in DOMAIN reminders : reminders[r].booking_id <= bookingSeq

OInv == BInv /\ RemindersKnown /\ OwnerKept

(* Where the reminder rows after a step come from. *)
LEMMA RemindersFrom ==
    ASSUME BInv, [BotNext]_vars
    PROVE  \A r \in DOMAIN reminders' :
              \/ /\ r \in DOMAIN reminders
                 /\ reminders'[r].booking_id = reminders[r].booking_id
                 /\ reminders'[r].user_id = reminders[r].user_id
              \/ \E t \in DOMAIN task :
                    /\ task[t].flow = "booked"
                    /\ reminders'[r].booking_id = task[t].booking
                    /\ reminders'[r].user_id = task[t].user
<1> DEFINE Old(r) == /\ r \in DOMAIN reminders
                     /\ reminders'[r].booking_id = reminders[r].booking_id
                     /\ reminders'[r].user_id = reminders[r].user_id
<1>0. TypeOK
    BY BInvParts
<1>1. ASSUME reminders' = reminders PROVE \A r \in DOMAIN reminders' : Old(r)
    BY <1>1
<1>2. ASSUME NEW b, NEW u, CancelBooking(b, u) PROVE \A r \in DOMAIN reminders' : Old(r)
    BY <1>0, <1>2 DEF CancelBooking, TypeOK, Reminder
<1>3. ASSUME NEW u, DeleteUserData(u) PROVE \A r \in DOMAIN reminders' : Old(r)
    BY <1>0, <1>3 DEF DeleteUserData, Delete, Restrict, TypeOK
<1>4. ASSUME NEW t \in Tasks, Create(t), NEW r \in DOMAIN reminders'
      PROVE  \/ Old(r)
             \/ /\ t \in DOMAIN task
                /\ task[t].flow = "booked"
                /\ reminders'[r].booking_id = task[t].booking
                /\ reminders'[r].user_id = task[t].user
  <2>1. t \in DOMAIN task /\ task[t].flow = "booked"
      BY <1>4 DEF Create, At, BInv, LocalsOK
  <2>2. CASE UNCHANGED storeVars
      BY <1>1, <1>4, <2>2 DEF storeVars, reminderVars
  <2>3. ASSUME NEW at \in Times, CreateReminder(task[t].booking, task[t].user, at)
        PROVE  \/ Old(r)
               \/ /\ reminders'[r].booking_id = task[t].booking
                  /\ reminders'[r].user_id = task[t].user
      BY <1>0, <1>4, <2>3 DEF CreateReminder, Insert, TypeOK, Reminder
  <2> QED
      BY <1>4, <2>1, <2>2, <2>3 DEF Create
<1>5. ASSUME NEW t \in Tasks, Update(t) PROVE \A r \in DOMAIN reminders' : Old(r)
    BY <1>1, <1>3, <1>5
    DEF Update, StartCommand, SelectSlot, PhoneMessage, PaymentMessage, PrivacyConfirm, storeVars,
        reminderVars
<1>6. ASSUME NEW t \in Tasks, TaskStep(t) \/ ScheduleFails(t) \/ TaskRaises(t) \/ Crash, ~Create(t)
      PROVE  reminders' = reminders
    BY <1>6 DEF TaskStep, SetData, SetState, GetData, BookTask, BookSlot, SlotUnavailable, BookRaises,
                ClearState, ClearData, ReadRow, Answer, AnswerFails, MarkPaid, MarkBookingPaid, Audit,
                LogAudit, ScheduleFails, TaskRaises, Crash, storeVars, reminderVars
<1>7. ASSUME Crash PROVE reminders' = reminders
    BY <1>7 DEF Crash, storeVars, reminderVars
<1>8. ASSUME UNCHANGED vars PROVE reminders' = reminders
    BY <1>8 DEF vars, storeVars, reminderVars
<1>9. ASSUME NEW b, NEW u, CancelButton(b, u) PROVE \A r \in DOMAIN reminders' : Old(r)
    BY <1>2, <1>9 DEF CancelButton
<1>10. ASSUME NEW b, NEW u, PaymentThrottled(b, u) PROVE reminders' = reminders
    BY <1>10 DEF PaymentThrottled, storeVars, reminderVars
<1> QED
    BY <1>1, <1>4, <1>5, <1>6, <1>7, <1>8, <1>9, <1>10 DEF BotNext, TaskStep

(* Where the delivered invoices after a step come from. *)
LEMMA InvoicesFrom ==
    ASSUME BInv, [BotNext]_vars
    PROVE  \A i \in invoices' :
              \/ i \in invoices
              \/ \E t \in DOMAIN task :
                    task[t].flow = "booked" /\ i = <<task[t].booking, task[t].user>>
<1>1. ASSUME NEW t \in Tasks, Answer(t) \/ AnswerFails(t), NEW i \in invoices'
      PROVE  \/ i \in invoices
             \/ /\ t \in DOMAIN task
                /\ task[t].flow = "booked"
                /\ i = <<task[t].booking, task[t].user>>
  <2>1. t \in DOMAIN task
      BY <1>1 DEF Answer, AnswerFails, At
  <2>2. invoices' = invoices \/ invoices' = invoices \cup Delivered(t)
      BY <1>1 DEF Answer, AnswerFails
  <2>3. \A j \in Delivered(t) : task[t].flow = "booked" /\ j = <<task[t].booking, task[t].user>>
      BY DEF Delivered
  <2> QED
      BY <2>1, <2>2, <2>3
<1>2. ASSUME NEW t \in Tasks,
             \/ Update(t) \/ ScheduleFails(t) \/ TaskRaises(t)
             \/ TaskStep(t) /\ ~(Answer(t) \/ AnswerFails(t))
      PROVE  invoices' = invoices
    BY <1>2 DEF Update, StartCommand, SelectSlot, PhoneMessage, PaymentMessage, PrivacyConfirm,
                TaskStep, SetData, SetState, GetData, BookTask, SlotUnavailable, BookRaises,
                ClearState, ClearData, ReadRow, Create, MarkPaid, Audit,
                ScheduleFails, TaskRaises, moneyVars
<1>3. ASSUME NEW b, NEW u, CancelButton(b, u) PROVE invoices' = invoices
    BY <1>3 DEF CancelButton, botVars, moneyVars
<1>4. CASE Crash
    BY <1>4 DEF Crash, moneyVars
<1>5. CASE UNCHANGED vars
    BY <1>5 DEF vars, botVars, moneyVars
<1>6. ASSUME NEW b, NEW u, PaymentThrottled(b, u) PROVE invoices' = invoices
    BY <1>6 DEF PaymentThrottled
<1> QED
    BY <1>1, <1>2, <1>3, <1>4, <1>5, <1>6 DEF BotNext, TaskStep

(* Where the bookings the handlers remember after a step come from. *)
LEMMA TasksFrom ==
    ASSUME BInv, [BotNext]_vars
    PROVE  \A o \in DOMAIN task' :
              \/ /\ o \in DOMAIN task
                 /\ task'[o].booking = task[o].booking
                 /\ task'[o].user = task[o].user
                 /\ task[o].flow = "paid" => task'[o].flow = "paid"
              \/ task'[o].booking = 0
              \/ task'[o].flow = "paid"
              \/ bookings'[task'[o].booking].client_user_id = task'[o].user
<1> DEFINE Kept(o) == /\ o \in DOMAIN task
                      /\ task'[o].booking = task[o].booking
                      /\ task'[o].user = task[o].user
                      /\ task[o].flow = "paid" => task'[o].flow = "paid"
<1>0. TaskTyped /\ LocalsOK
    BY DEF BInv, BotTypeOK, TaskTyped
<1>1. ASSUME NEW t \in Tasks, Update(t), NEW o \in DOMAIN task'
      PROVE  \/ Kept(o)
             \/ task'[o].booking = 0
             \/ task'[o].flow = "paid"
  <2>1. PICK flow, pc, u, s, b : Begin(t, flow, pc, u, s, b) /\ (b = 0 \/ flow = "paid")
      BY <1>1 DEF Update, StartCommand, SelectSlot, PhoneMessage, PaymentMessage, PrivacyConfirm
  <2>2. CASE o = t
      BY <2>1, <2>2 DEF Begin, Insert
  <2>3. CASE o # t
      BY <2>1, <2>3 DEF Begin, Insert
  <2> QED
      BY <2>2, <2>3
<1>2. ASSUME NEW t \in Tasks, NEW pc \in Pcs, t \in DOMAIN task, Goto(t, pc), NEW o \in DOMAIN task'
      PROVE  Kept(o)
    BY <1>0, <1>2, GotoFacts
<1>3. ASSUME NEW t \in Tasks, End(t), NEW o \in DOMAIN task' PROVE Kept(o)
    BY <1>3, EndFacts
<1>4. ASSUME NEW t \in Tasks, BookTask(t), NEW o \in DOMAIN task'
      PROVE  \/ Kept(o)
             \/ bookings'[task'[o].booking].client_user_id = task'[o].user
  <2>a. /\ t \in DOMAIN task
        /\ BookSlot(task[t].user, task[t].slot)
        /\ Turn(t, "booked", NextBookingId)
      BY <1>4 DEF BookTask, At
  <2>b. bookings'[NextBookingId].client_user_id = task[t].user
      BY <2>a DEF BookSlot, Insert
  <2>1. /\ t \in DOMAIN task
        /\ bookings'[NextBookingId].client_user_id = task[t].user
        /\ Turn(t, "booked", NextBookingId)
        /\ NextBookingId \in Nat
      BY <2>a, <2>b DEF NextBookingId, BInv, BotTypeOK, TypeOK
  <2>2. CASE o = t
      BY <1>0, <2>1, <2>2, TurnFacts DEF Flows
  <2>3. CASE o # t
      BY <1>0, <2>1, <2>3, TurnFacts DEF Flows
  <2> QED
      BY <2>2, <2>3
<1>5. ASSUME NEW t \in Tasks, SlotUnavailable(t), NEW o \in DOMAIN task' PROVE Kept(o)
  <2>1. /\ t \in DOMAIN task /\ task[t].pc = "book" /\ task[t].booking \in Nat
        /\ Turn(t, "full", task[t].booking)
      BY <1>0, <1>5 DEF SlotUnavailable, At, TaskTyped, Task
  <2>2. task[t].flow # "paid"
      BY <1>0, <2>1 DEF LocalsOK
  <2> QED
      BY <1>0, <1>5, <2>1, <2>2, TurnFacts DEF Flows
<1>6. ASSUME NEW t \in Tasks, GetData(t), NEW o \in DOMAIN task' PROVE Kept(o)
    BY <1>0, <1>3, <1>6 DEF GetData, At, TaskTyped, Task
<1>7. ASSUME NEW t \in Tasks, AnswerFails(t), NEW o \in DOMAIN task' PROVE Kept(o)
    BY <1>0, <1>3, <1>7 DEF AnswerFails, At, TaskTyped, Task
<1>8. ASSUME NEW t \in Tasks,
             \/ SetData(t) \/ ClearState(t) \/ ClearData(t) \/ ReadRow(t) \/ Create(t)
             \/ ScheduleFails(t),
             NEW o \in DOMAIN task'
      PROVE  Kept(o)
  <2>1. t \in DOMAIN task
      BY <1>8 DEF SetData, ClearState, ClearData, ReadRow, Create, ScheduleFails, At
  <2>2. \E pc \in Pcs : Goto(t, pc)
      BY <1>8 DEF SetData, ClearState, ClearData, ReadRow, Create, ScheduleFails,
                  AfterScheduleFailure, Pcs
  <2> QED
      BY <1>2, <2>1, <2>2
<1>9. ASSUME NEW t \in Tasks,
             \/ SetState(t) \/ BookRaises(t) \/ Answer(t) \/ MarkPaid(t) \/ Audit(t) \/ TaskRaises(t),
             NEW o \in DOMAIN task'
      PROVE  Kept(o)
    BY <1>3, <1>9 DEF SetState, BookRaises, Answer, MarkPaid, Audit, TaskRaises
<1>10. ASSUME NEW b, NEW u, CancelButton(b, u), NEW o \in DOMAIN task' PROVE Kept(o)
    BY <1>10 DEF CancelButton, botVars
<1>11. ASSUME Crash PROVE DOMAIN task' = {}
    BY <1>11 DEF Crash
<1>12. ASSUME UNCHANGED vars, NEW o \in DOMAIN task' PROVE Kept(o)
    BY <1>12 DEF vars, botVars
<1>17. ASSUME NEW b, NEW u, PaymentThrottled(b, u), NEW o \in DOMAIN task' PROVE Kept(o)
    BY <1>17 DEF PaymentThrottled
<1> DEFINE From(o) == \/ Kept(o)
                      \/ task'[o].booking = 0
                      \/ task'[o].flow = "paid"
                      \/ bookings'[task'[o].booking].client_user_id = task'[o].user
<1>13. ASSUME NEW t \in Tasks, TaskStep(t), NEW o \in DOMAIN task' PROVE From(o)
    BY <1>4, <1>5, <1>6, <1>7, <1>8, <1>9, <1>13 DEF TaskStep
<1>14. ASSUME NEW t \in Tasks, ScheduleFails(t) \/ TaskRaises(t), NEW o \in DOMAIN task'
       PROVE  From(o)
    BY <1>8, <1>9, <1>14
<1>15. ASSUME NEW t \in Tasks, Update(t), NEW o \in DOMAIN task' PROVE From(o)
    BY <1>1, <1>15
<1>16. ASSUME NEW o \in DOMAIN task' PROVE From(o)
  <2>1. CASE \E t \in Tasks : Update(t) \/ TaskStep(t) \/ ScheduleFails(t) \/ TaskRaises(t)
    <3>1. PICK t \in Tasks : Update(t) \/ TaskStep(t) \/ ScheduleFails(t) \/ TaskRaises(t)
        BY <2>1
    <3>2. CASE Update(t)
        BY <1>15, <1>16, <3>2
    <3>3. CASE TaskStep(t)
        BY <1>13, <1>16, <3>3
    <3>4. CASE ScheduleFails(t) \/ TaskRaises(t)
        BY <1>14, <1>16, <3>4
    <3> QED
        BY <3>1, <3>2, <3>3, <3>4
  <2>2. CASE \E b \in 1..bookingSeq, u \in Users : CancelButton(b, u)
      BY <1>10, <1>16, <2>2
  <2>3. CASE Crash
      BY <1>11, <1>16, <2>3
  <2>4. CASE UNCHANGED vars
      BY <1>12, <1>16, <2>4
  <2>5. CASE \E b \in 1..bookingSeq, u \in Users : PaymentThrottled(b, u)
      BY <1>16, <1>17, <2>5
  <2> QED
      BY <2>1, <2>2, <2>3, <2>4, <2>5 DEF BotNext
<1> QED
    BY <1>16, Zenon

(* One step of the bot leaves every copy of an id with its owner.          *)
LEMMA OInvNext == OInv /\ [BotNext]_vars => OInv'
<1> SUFFICES ASSUME OInv, [BotNext]_vars PROVE OInv'
    OBVIOUS
<1>0. BInv /\ BInv' /\ TypeOK /\ TypeOK' /\ [Next]_storeVars /\ bookingSeq <= bookingSeq'
    BY BInvNext, BInvParts, StoreStep, TypeNext, SeqGrows DEF OInv
<1>s. bookingSeq \in Nat /\ bookingSeq' \in Nat
    BY <1>0 DEF TypeOK
<1>1. ASSUME NEW b \in DOMAIN bookings', b <= bookingSeq
      PROVE  b \in DOMAIN bookings /\ bookings'[b].client_user_id = bookings[b].client_user_id
    BY <1>0, <1>1, OldIds
<1>2. \A t \in DOMAIN task : task[t].booking \in Nat /\ task[t].booking <= bookingSeq
    BY <1>0 DEF BInv, BotTypeOK, Task
<1>3. \A i \in invoices : i[1] \in 1..bookingSeq
    BY <1>0 DEF BInv, BotTypeOK
<1>4. RemindersKnown'
  <2>1. ASSUME NEW r \in DOMAIN reminders' PROVE reminders'[r].booking_id <= bookingSeq
      BY <1>0, <1>2, <2>1, RemindersFrom DEF OInv, RemindersKnown
  <2>2. ASSUME NEW r \in DOMAIN reminders' PROVE reminders'[r].booking_id \in Nat
      BY <1>0, <2>2 DEF TypeOK, Reminder
  <2> QED
      BY <1>0, <1>s, <2>1, <2>2 DEF RemindersKnown
<1>5. ASSUME NEW r \in DOMAIN reminders', reminders'[r].booking_id \in DOMAIN bookings'
      PROVE  bookings'[reminders'[r].booking_id].client_user_id = reminders'[r].user_id
  <2>1. CASE /\ r \in DOMAIN reminders
             /\ reminders'[r].booking_id = reminders[r].booking_id
             /\ reminders'[r].user_id = reminders[r].user_id
      BY <1>1, <1>5, <2>1 DEF OInv, OwnerKept, RemindersKnown
  <2>2. CASE \E t \in DOMAIN task :
                /\ task[t].flow = "booked"
                /\ reminders'[r].booking_id = task[t].booking
                /\ reminders'[r].user_id = task[t].user
      BY <1>1, <1>2, <1>5, <2>2 DEF OInv, OwnerKept
  <2> QED
      BY <1>0, <2>1, <2>2, RemindersFrom
<1>6. ASSUME NEW i \in invoices', i[1] \in DOMAIN bookings'
      PROVE  bookings'[i[1]].client_user_id = i[2]
  <2>1. CASE i \in invoices
    <3>1. i[1] <= bookingSeq
        BY <1>3, <1>s, <2>1
    <3> QED
        BY <1>1, <1>6, <2>1, <3>1 DEF OInv, OwnerKept
  <2>2. CASE \E t \in DOMAIN task :
                task[t].flow = "booked" /\ i = <<task[t].booking, task[t].user>>
    <3>1. PICK t \in DOMAIN task :
              task[t].flow = "booked" /\ i[1] = task[t].booking /\ i[2] = task[t].user
        BY <2>2
    <3> QED
        BY <1>1, <1>2, <1>6, <3>1 DEF OInv, OwnerKept
  <2> QED
      BY <1>0, <2>1, <2>2, InvoicesFrom
<1>7. ASSUME NEW o \in DOMAIN task', task'[o].booking \in DOMAIN bookings', task'[o].flow # "paid"
      PROVE  bookings'[task'[o].booking].client_user_id = task'[o].user
  <2>1. CASE /\ o \in DOMAIN task
             /\ task'[o].booking = task[o].booking
             /\ task'[o].user = task[o].user
             /\ task[o].flow = "paid" => task'[o].flow = "paid"
      BY <1>1, <1>2, <1>7, <2>1 DEF OInv, OwnerKept
  <2>2. CASE task'[o].booking = 0
      BY <1>0, <1>s, <1>7, <2>2 DEF TypeOK
  <2>3. CASE bookings'[task'[o].booking].client_user_id = task'[o].user
      BY <2>3
  <2> QED
      BY <1>0, <1>7, <2>1, <2>2, <2>3, TasksFrom
<1>9. ASSUME NEW o \in DOMAIN task', task'[o].booking \in DOMAIN bookings', task'[o].flow = "paid"
      PROVE  <<task'[o].booking, bookings'[task'[o].booking].client_user_id>> \in invoices'
  <2>1. <<task'[o].booking, task'[o].user>> \in deposits'
      BY <1>0, <1>9 DEF BInv, LocalsOK
  <2>2. PICK i \in invoices' : i[1] = task'[o].booking
      BY <1>0, <2>1 DEF BInv, BotTypeOK, Links
  <2>3. i = <<i[1], i[2]>>
      BY <1>0 DEF BInv, BotTypeOK
  <2> QED
      BY <1>6, <1>9, <2>2, <2>3
<1>8. OwnerKept'
    BY <1>5, <1>6, <1>7, <1>9 DEF OwnerKept
<1> QED
    BY <1>0, <1>4, <1>8 DEF OInv

(* A booking id stays bound to one customer: the reminder that is sent to  *)
(* a user, the invoice a user pays and the answer a handler still owes are *)
(* about that user's booking, or about none, whatever was deleted and      *)
(* booked in between.                                                      *)
THEOREM BotOwnerKept == BotSpec => []OwnerKept
<1>1. BotInit => OInv
  <2> SUFFICES ASSUME BotInit PROVE BInv /\ RemindersKnown /\ OwnerKept
      BY DEF OInv
  <2> QED
      BY BInvInit DEF BotInit, Init, RemindersKnown, OwnerKept
<1>2. OInv => OwnerKept
    BY DEF OInv
<1> QED
    BY <1>1, <1>2, OInvNext, PTL DEF BotSpec
-------------------------------------------------------------------------------
(* A paid row has been paid for.  Was(b) says that it was paid before the  *)
(* step already, Late(b, t) that the payment handler t pays it now.        *)
Same(b) == b \in DOMAIN bookings /\ bookings'[b].client_user_id = bookings[b].client_user_id
Was(b)  == Same(b) /\ bookings[b].status = "paid"

(* No transaction but mark_booking_paid makes a row paid. *)
LEMMA PaidBefore ==
    ASSUME TypeOK,
           \/ bookings' = bookings
           \/ \E u \in Users, s \in Slots : BookSlot(u, s)
           \/ \E b \in 1..bookingSeq, u \in Users : CancelBooking(b, u)
           \/ \E u \in Users : DeleteUserData(u),
           NEW b \in DOMAIN bookings', bookings'[b].status = "paid"
    PROVE  Was(b)
<1>1. CASE bookings' = bookings
    BY <1>1 DEF Was, Same
<1>2. ASSUME NEW u \in Users, NEW s \in Slots, BookSlot(u, s) PROVE Was(b)
    BY <1>2 DEF BookSlot, Insert, TypeOK, Was, Same
<1>3. ASSUME NEW c \in 1..bookingSeq, NEW u \in Users, CancelBooking(c, u) PROVE Was(b)
  <2>1. b \in DOMAIN bookings /\ bookings' = [bookings EXCEPT ![c].status = "cancelled"]
      BY <1>3 DEF CancelBooking, TypeOK
  <2>2. CASE b = c
    <3>1. bookings[c] \in Booking
        BY <2>1, <2>2 DEF TypeOK
    <3>2. bookings'[b].status = "cancelled"
        BY <2>1, <2>2, <3>1 DEF TypeOK, Booking
    <3> QED
        BY <3>2
  <2>3. CASE b # c
      BY <2>1, <2>3 DEF TypeOK, Was, Same
  <2> QED
      BY <2>2, <2>3
<1>4. ASSUME NEW u \in Users, DeleteUserData(u) PROVE Was(b)
    BY <1>4 DEF DeleteUserData, Delete, Restrict, Was, Same
<1> QED
    BY <1>1, <1>2, <1>3, <1>4

(* Where the paid rows after a step come from. *)
LEMMA PaidFrom ==
    ASSUME BInv, [BotNext]_vars, NEW b \in DOMAIN bookings', bookings'[b].status = "paid"
    PROVE  \/ Was(b)
           \/ \E t \in DOMAIN task : At(t, "mark_paid") /\ b = task[t].booking /\ Same(b)
<1>0. TypeOK
    BY BInvParts
<1>1. ASSUME NEW t \in Tasks, MarkPaid(t)
      PROVE  Was(b) \/ (t \in DOMAIN task /\ At(t, "mark_paid") /\ b = task[t].booking /\ Same(b))
  <2>1. CASE Payable(PayloadBooking(t))
    <3>1. /\ t \in DOMAIN task
          /\ At(t, "mark_paid")
          /\ bookings' = [bookings EXCEPT ![task[t].booking].status = "paid"]
        BY <1>1, <2>1 DEF MarkPaid, MarkBookingPaid, PayloadBooking, At
    <3>2. b \in DOMAIN bookings
        BY <3>1 DEF TypeOK
    <3>3. CASE b = task[t].booking
      <4>1. bookings[b] \in Booking
          BY <1>0, <3>2 DEF TypeOK
      <4>2. bookings'[b].client_user_id = bookings[b].client_user_id
          BY <1>0, <3>1, <3>2, <3>3, <4>1 DEF TypeOK, Booking
      <4> QED
          BY <3>1, <3>2, <3>3, <4>2 DEF Same
    <3>4. CASE b # task[t].booking
        BY <1>0, <3>1, <3>2, <3>4 DEF TypeOK, Was, Same
    <3> QED
        BY <3>3, <3>4
  <2>2. CASE ~Payable(PayloadBooking(t))
      BY <1>0, <1>1, <2>2, PaidBefore DEF MarkPaid, storeVars, slotVars
  <2> QED
      BY <2>1, <2>2
<1>2. ASSUME NEW t \in Tasks, BookTask(t) PROVE Was(b)
  <2>1. task[t].user \in Users /\ task[t].slot \in Slots /\ BookSlot(task[t].user, task[t].slot)
      BY <1>2 DEF BookTask, At, BInv, BotTypeOK, LocalsOK, Task
  <2> QED
      BY <1>0, <2>1, PaidBefore
<1>3. ASSUME NEW t \in Tasks, TaskStep(t) \/ ScheduleFails(t) \/ TaskRaises(t),
             ~BookTask(t), ~MarkPaid(t)
      PROVE  bookings' = bookings
    BY <1>3 DEF TaskStep, SetData, SetState, GetData, SlotUnavailable, BookRaises, ClearState, ClearData,
                ReadRow, Create, CreateReminder, Answer, AnswerFails, Audit, LogAudit,
                ScheduleFails, TaskRaises, storeVars, slotVars
<1>4. ASSUME NEW t \in Tasks, Update(t) PROVE Was(b)
  <2>1. CASE \E u \in Users : PrivacyConfirm(t, u)
      BY <1>0, <2>1, PaidBefore DEF PrivacyConfirm
  <2>2. CASE ~\E u \in Users : PrivacyConfirm(t, u)
    <3>1. bookings' = bookings
        BY <1>4, <2>2 DEF Update, StartCommand, SelectSlot, PhoneMessage, PaymentMessage,
                          storeVars, slotVars
    <3> QED
        BY <1>0, <3>1, PaidBefore
  <2> QED
      BY <2>1, <2>2
<1>5. ASSUME NEW c \in 1..bookingSeq, NEW u \in Users, CancelButton(c, u) PROVE Was(b)
    BY <1>0, <1>5, PaidBefore DEF CancelButton
<1>6. ASSUME NEW c \in 1..bookingSeq, NEW u \in Users, PaymentThrottled(c, u)
      PROVE  bookings' = bookings
    BY <1>6 DEF PaymentThrottled, storeVars, slotVars
<1>7. ASSUME Crash \/ UNCHANGED vars PROVE bookings' = bookings
    BY <1>7 DEF Crash, vars, storeVars, slotVars
<1>8. ASSUME bookings' = bookings PROVE Was(b)
    BY <1>0, <1>8, PaidBefore
<1>9. ASSUME NEW t \in Tasks, TaskStep(t) \/ ScheduleFails(t) \/ TaskRaises(t)
      PROVE  \/ Was(b)
             \/ t \in DOMAIN task /\ At(t, "mark_paid") /\ b = task[t].booking /\ Same(b)
    BY <1>1, <1>2, <1>3, <1>8, <1>9
<1> QED
    BY <1>4, <1>5, <1>6, <1>7, <1>8, <1>9 DEF BotNext

(* No step takes back a link that was sent or a payment. *)
LEMMA MoneyGrows ==
    BotNext \/ UNCHANGED vars => invoices \subseteq invoices' /\ deposits \subseteq deposits'
<1>1. ASSUME NEW t \in Tasks, Update(t) \/ TaskStep(t) \/ ScheduleFails(t) \/ TaskRaises(t)
      PROVE  invoices \subseteq invoices' /\ deposits \subseteq deposits'
    BY <1>1 DEF Update, StartCommand, SelectSlot, PhoneMessage, PaymentMessage, PrivacyConfirm,
                TaskStep, SetData, SetState, GetData, BookTask, SlotUnavailable, BookRaises,
                ClearState, ClearData, ReadRow, Create, Answer, AnswerFails, MarkPaid, Audit,
                ScheduleFails, TaskRaises, moneyVars
<1>2. ASSUME NEW b, NEW u, CancelButton(b, u) \/ PaymentThrottled(b, u)
      PROVE  invoices \subseteq invoices' /\ deposits \subseteq deposits'
    BY <1>2 DEF CancelButton, PaymentThrottled, botVars, moneyVars
<1>3. ASSUME Crash \/ UNCHANGED vars PROVE invoices \subseteq invoices' /\ deposits \subseteq deposits'
    BY <1>3 DEF Crash, vars, botVars, moneyVars
<1> QED
    BY <1>1, <1>2, <1>3 DEF BotNext

(* What PaidWasDeposited asks of a paid booking. *)
PaidFor(b) ==
    /\ \E payer \in Users : <<b, payer>> \in deposits
    /\ <<b, bookings[b].client_user_id>> \in invoices

(* One step keeps paid bookings paid for. *)
LEMMA PaidNext == OInv /\ PaidWasDeposited /\ [BotNext]_vars => PaidWasDeposited'
<1> SUFFICES ASSUME OInv, PaidWasDeposited, [BotNext]_vars,
                    NEW b \in DOMAIN bookings', bookings'[b].status = "paid"
             PROVE  PaidFor(b)'
    BY DEF PaidWasDeposited, PaidFor
<1>0. BInv /\ OwnerKept /\ invoices \subseteq invoices' /\ deposits \subseteq deposits'
    BY MoneyGrows DEF OInv
<1>1. CASE Was(b)
    BY <1>0, <1>1 DEF Was, Same, PaidWasDeposited, PaidFor
<1>2. ASSUME NEW t \in DOMAIN task, At(t, "mark_paid"), b = task[t].booking, Same(b)
      PROVE  PaidFor(b)'
  <2>1. task[t].flow = "paid" /\ <<b, task[t].user>> \in deposits
      BY <1>0, <1>2 DEF At, BInv, LocalsOK
  <2>2. task[t].user \in Users
      BY <1>0 DEF BInv, BotTypeOK, Task
  <2>3. <<b, bookings[b].client_user_id>> \in invoices
      BY <1>0, <1>2, <2>1 DEF OwnerKept, Same
  <2> QED
      BY <1>0, <1>2, <2>1, <2>2, <2>3 DEF Same, PaidFor
<1> QED
    BY <1>0, <1>1, <1>2, PaidFrom

(* A booking is marked paid only on a deposit through a link to it that    *)
(* its own client was sent, however the payment messages, whoever they     *)
(* come from, the retries, deletions and new bookings are interleaved.     *)
THEOREM BotPaidWasDeposited == BotSpec => []PaidWasDeposited
<1>1. BotInit => OInv /\ PaidWasDeposited
  <2> SUFFICES ASSUME BotInit PROVE BInv /\ RemindersKnown /\ OwnerKept /\ PaidWasDeposited
      BY DEF OInv
  <2> QED
      BY BInvInit DEF BotInit, Init, RemindersKnown, OwnerKept, PaidWasDeposited
<1> QED
    BY <1>1, OInvNext, PaidNext, PTL DEF BotSpec
===============================================================================
