--------------------------- MODULE ReminderScheduler ---------------------------
(***************************************************************************)
(* The reminder loop of src/reminder/scheduler.py beside the customers.    *)
(* scheduler_loop runs a pass every interval: it reads the due reminders   *)
(* in one session, then for each row of that list awaits the Telegram call *)
(* and the transaction that deactivates the row.  Customers book, cancel,  *)
(* pay and delete their data between any two of these steps.               *)
(*                                                                         *)
(* A customer's transaction is one step here; BookingBot has the handlers  *)
(* around them in their own steps.                                         *)
(***************************************************************************)
EXTENDS BookingStore

CONSTANTS
    MaxTime,        \* bound: the clock stops here
    Blocked,        \* the users whose chat rejects every message
    MaxErrors,      \* bound: transient failures of Telegram or the database
    MaxCrashes      \* bound: crashes of the process

ASSUME SchedulerAssumption ==
    /\ MaxTime \in Nat
    /\ Blocked \subseteq Users
    /\ MaxErrors \in Nat
    /\ MaxCrashes \in Nat

VARIABLES
    now,            \* datetime.now()
    scheduling,     \* the reminders schedule_reminder has yet to insert
    pc,             \* "sleep", "send" or "mark": where the loop is
    due,            \* rows of the pass still to be handled
    current,        \* the row being handled, 0 for none
    sends,          \* per reminder: the messages its user received
    errors, crashes

loopVars == <<pc, due, current, sends, errors>>
vars     == <<storeVars, scheduling, loopVars, now, crashes>>

SchedInit ==
    /\ Init
    /\ now = 0
    /\ scheduling = {}
    /\ pc = "sleep"
    /\ due = {}
    /\ current = 0
    /\ sends = [r \in 1..MaxReminders |-> 0]
    /\ errors = 0
    /\ crashes = 0
-------------------------------------------------------------------------------
(* schedule_reminder, called once for a booking: it reads the booking in   *)
(* one session, makes no reminder whose instant has passed, and inserts it *)
(* in a transaction of its own.                                            *)
ReadRow(b, at) ==
    /\ b \in DOMAIN bookings
    /\ \A r \in DOMAIN reminders : reminders[r].booking_id # b
    /\ \A row \in scheduling : row.booking_id # b
    /\ at > now
    /\ scheduling' = scheduling \cup
          {[booking_id |-> b, user_id |-> bookings[b].client_user_id, fire_at |-> at]}
    /\ UNCHANGED storeVars

Create(row) ==
    /\ row \in scheduling
    /\ CreateReminder(row.booking_id, row.user_id, row.fire_at)
    /\ scheduling' = scheduling \ {row}

Customers ==
    /\ \/ /\ \/ \E u \in Users, s \in Slots : BookSlot(u, s)
             \/ \E b \in 1..bookingSeq, u \in Users : CancelBooking(b, u)
             \/ \E b \in 1..bookingSeq : MarkBookingPaid(b)
             \/ \E u \in Users : DeleteUserData(u)
          /\ UNCHANGED scheduling
       \/ \E b \in 1..bookingSeq, at \in Times : ReadRow(b, at)
       \/ \E row \in scheduling : Create(row)
    /\ UNCHANGED <<loopVars, now, crashes>>

Tick ==
    /\ now < MaxTime
    /\ now' = now + 1
    /\ UNCHANGED <<storeVars, scheduling, loopVars, crashes>>
-------------------------------------------------------------------------------
(* get_due_reminders; a pass that finds nothing goes back to sleep. *)
Fetch ==
    /\ pc = "sleep"
    /\ Due(now) # {}
    /\ due' = Due(now)
    /\ pc' = "send"
    /\ UNCHANGED <<storeVars, current, sends, errors>>

(* SELECT without ORDER BY: the rows come in any order. *)
Send(r) ==
    /\ pc = "send"
    /\ r \in due
    /\ r \in DOMAIN reminders => reminders[r].user_id \notin Blocked
    /\ sends' = [sends EXCEPT ![r] = @ + 1]
    /\ current' = r
    /\ pc' = "mark"
    /\ UNCHANGED <<storeVars, due, errors>>

Mark ==
    /\ pc = "mark"
    /\ MarkSent(current)
    /\ due' = due \ {current}
    /\ current' = 0
    /\ pc' = "send"
    /\ UNCHANGED <<sends, errors>>

(* The except of send_due_reminders: one failing row is logged, and the    *)
(* pass goes on with the next one; the row stays due.                      *)
AfterFailureAborted(r) == due' = {} /\ UNCHANGED storeVars
AfterFailureMarked(r)  == due' = due \ {r} /\ MarkSent(r)
AfterFailure(r)        == due' = due \ {r} /\ UNCHANGED storeVars

(* The chat rejects the message. *)
Refused(r) ==
    /\ pc = "send"
    /\ r \in due
    /\ r \in DOMAIN reminders => reminders[r].user_id \in Blocked
    /\ AfterFailure(r)
    /\ UNCHANGED <<pc, current, sends, errors>>

(* The call times out, with the message delivered or not. *)
SendFails(r) ==
    /\ pc = "send"
    /\ r \in due
    /\ errors < MaxErrors
    /\ errors' = errors + 1
    /\ sends' \in {sends, [sends EXCEPT ![r] = @ + 1]}
    /\ AfterFailure(r)
    /\ UNCHANGED <<pc, current>>

(* mark_sent raises after the message went out. *)
MarkFails ==
    /\ pc = "mark"
    /\ errors < MaxErrors
    /\ errors' = errors + 1
    /\ AfterFailure(current)
    /\ current' = 0
    /\ pc' = "send"
    /\ UNCHANGED sends

(* send_due_reminders returns when it has been through its list, and the   *)
(* loop sleeps for its interval.                                           *)
PassOverAfterOne == TRUE
PassOver         == due = {}

EndPass ==
    /\ pc = "send"
    /\ PassOver
    /\ pc' = "sleep"
    /\ UNCHANGED <<storeVars, due, current, sends, errors>>

(* The process dies and is started again: the list it held is lost. *)
Crash ==
    /\ crashes < MaxCrashes
    /\ crashes' = crashes + 1
    /\ pc' = "sleep"
    /\ due' = {}
    /\ current' = 0
    /\ scheduling' = {}
    /\ UNCHANGED <<storeVars, now, sends, errors>>

Loop ==
    /\ \/ Fetch \/ Mark \/ EndPass
       \/ \E r \in due : Send(r) \/ Refused(r)
    /\ UNCHANGED <<scheduling, now, crashes>>

LoopFails ==
    /\ MarkFails \/ \E r \in due : SendFails(r)
    /\ UNCHANGED <<scheduling, now, crashes>>

SchedNext == Customers \/ Tick \/ Loop \/ LoopFails \/ Crash

SchedSpec == SchedInit /\ [][SchedNext]_vars

(* The loop is started at boot and never ends: it takes its steps.  The    *)
(* customers and the faults owe nothing.                                   *)
FairSchedSpec == SchedSpec /\ WF_vars(Loop)
-------------------------------------------------------------------------------
(* The tables and the loop hold values of their types; the loop's list     *)
(* holds ids that rows had, and the loop does not sleep on an unfinished   *)
(* one.                                                                    *)
SchedTypeOK ==
    /\ TypeOK
    /\ now \in 0..MaxTime
    /\ \A row \in scheduling : row.booking_id \in 1..bookingSeq /\ row.fire_at \in Times
    /\ pc \in {"sleep", "send", "mark"}
    /\ due \subseteq 1..reminderSeq
    /\ IF pc = "mark" THEN current \in due ELSE current = 0
    /\ pc = "sleep" => due = {}
    /\ sends \in [1..MaxReminders -> Nat]
    /\ errors \in 0..MaxErrors
    /\ crashes \in 0..MaxCrashes

(* A customer is reminded of a visit at most once, and once more for each  *)
(* failure or crash between the message and the transaction that records   *)
(* it: no pass sends a reminder that an earlier one recorded.              *)
RepeatsOnlyByFaults == \A r \in 1..MaxReminders : sends[r] <= 1 + errors + crashes

(* A reminder is never lost: one that is inactive while its visit is still *)
(* on was delivered, whatever failed on the way.                           *)
InactiveWasDelivered ==
    \A r \in DOMAIN reminders :
        /\ ~reminders[r].is_active
        /\ reminders[r].booking_id \in Live
        => sends[r] >= 1

(* A due reminder of a user who can be reached is delivered, cancelled or  *)
(* deleted in the end: customers who blocked the bot do not starve others. *)
DueIsDelivered ==
    \A r \in 1..MaxReminders :
        (r \in Due(now) /\ reminders[r].user_id \notin Blocked) ~> (r \notin Due(now))
-------------------------------------------------------------------------------
(* What the repository says and the code does not do. *)

(* "A cancelled visit stops reminding: the message is about the visit, not *)
(* the row" (service.py, cancel_booking): no message goes out about a      *)
(* visit that is cancelled or deleted by then.                             *)
CancelledNotReminded ==
    [][\A r \in 1..MaxReminders :
          sends'[r] > sends[r] => r \in DOMAIN reminders /\ reminders[r].booking_id \in Live]_vars
===============================================================================
