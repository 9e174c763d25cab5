------------------------------- MODULE AdminPanel -------------------------------
(***************************************************************************)
(* The admin panel of src/admin/handlers.py, and the booking conversation  *)
(* it shares the FSM state with: /admin puts a user who may be in the      *)
(* middle of a booking into waiting_password, a slot button puts one who   *)
(* is asked for a password into waiting_phone, and one state.clear() wipes *)
(* what the other conversation had stored.  Message handlers run inside    *)
(* RetryMiddleware; the panel's buttons are callbacks and do not.          *)
(*                                                                         *)
(* AdminGate is botkit_core's: it is modelled from src/core/auth.py, the   *)
(* router and the tests of the gate.  Its sessions and attempts live in    *)
(* the process, the FSM state in Redis (or there too, without Redis).  What a booking does to the tables *)
(* is BookingBot's matter; here it succeeds, finds the slot taken (the     *)
(* same to the FSM) or raises.                                             *)
(***************************************************************************)
EXTENDS Naturals, Sequences, FiniteSets

CONSTANTS
    Users,
    Tasks,          \* bound: updates handled at the same time
    MaxAttempts,    \* failed attempts that throttle a user (5)
    Window,         \* how long an attempt counts (300 s), in ticks
    MaxRetries,     \* max_retries of RetryMiddleware (3)
    MaxFaults       \* bound: failing Redis or database commands, and crashes

ASSUME AdminAssumption ==
    /\ MaxAttempts \in Nat \ {0}
    /\ Window \in Nat \ {0}
    /\ MaxRetries \in Nat \ {0}
    /\ MaxFaults \in Nat

VARIABLES
    admin_ids,      \* the configured admins
    sessions,       \* users who gave the password to this process
    attempts,       \* per user: the ages of the failed attempts that count
    fsm_state,      \* per user: "none", "phone" or "password"
    fsm_slot,       \* per user: is there a slot in the FSM data
    task,           \* the running handlers
    overlapped,     \* users who ever had two handlers running at once
    faults,
    guessed,        \* history, per user: the ages of the wrong passwords of the last
                    \* window since the user last gave the right one
    restarts        \* history: crashes of the process

gateVars == <<admin_ids, sessions, attempts>>
fsmVars  == <<fsm_state, fsm_slot>>
histVars == <<guessed, restarts>>
vars     == <<gateVars, fsmVars, task, overlapped, faults, histVars>>

Flows == {"start", "select", "phone", "entry", "password", "panel"}
Pcs   == {"set_data", "set_phone", "get_data", "entry", "check", "clear_state",
          "clear_data", "answer", "read", "show", "refuse"}

(* text is the message's; guesses counts the attempts recorded for it. *)
Task == [flow : Flows, pc : Pcs, user : Users, text : {"right", "other"},
         tries : Nat, guesses : Nat]

AdminInit ==
    /\ admin_ids \in SUBSET Users
    /\ sessions = {}
    /\ attempts = [u \in Users |-> << >>]
    /\ fsm_state = [u \in Users |-> "none"]
    /\ fsm_slot = [u \in Users |-> FALSE]
    /\ task = << >>
    /\ overlapped = {}
    /\ faults = 0
    /\ guessed = [u \in Users |-> << >>]
    /\ restarts = 0
-------------------------------------------------------------------------------
(* AdminGate. *)
IsAdmin(u)   == u \in admin_ids \cup sessions
Throttled(u) == Len(attempts[u]) >= MaxAttempts

(* Time passes.  Attempts are listed oldest first, so those that reach the *)
(* age of the window, and are forgotten, are the first ones.               *)
Outdated(ages)  == {i \in DOMAIN ages : ages[i] + 1 >= Window}
AfterTick(ages) ==
    LET old == Cardinality(Outdated(ages))
    IN  [i \in 1..(Len(ages) - old) |-> ages[i + old] + 1]

Tick ==
    /\ \E u \in Users : attempts[u] # << >> \/ guessed[u] # << >>
    /\ attempts' = [u \in Users |-> AfterTick(attempts[u])]
    /\ guessed' = [u \in Users |-> AfterTick(guessed[u])]
    /\ UNCHANGED <<admin_ids, sessions, fsmVars, task, overlapped, faults, restarts>>
-------------------------------------------------------------------------------
Busy(u) == \E t \in DOMAIN task : task[t].user = u

Begin(t, flow, pc, u, text) ==
    /\ t \notin DOMAIN task
    /\ task' = [s \in DOMAIN task \cup {t} |->
                   IF s = t
                   THEN [flow |-> flow, pc |-> pc, user |-> u, text |-> text,
                         tries |-> 0, guesses |-> 0]
                   ELSE task[s]]
    /\ overlapped' = IF Busy(u) THEN overlapped \cup {u} ELSE overlapped

At(t, pc)   == t \in DOMAIN task /\ task[t].pc = pc
Goto(t, pc) == task' = [task EXCEPT ![t].pc = pc]
End(t)      == task' = [s \in DOMAIN task \ {t} |-> task[s]]

(* Two awaits of select_slot, in this order. *)
SelectOrderSwapped == <<"set_phone", "set_data">>
SelectOrder == <<"set_data", "set_phone">>
NextOfSelect(t) == IF task[t].pc = SelectOrder[1] THEN Goto(t, SelectOrder[2]) ELSE End(t)

(* An update arrives.  A text is routed by the state read at its arrival;  *)
(* without a state no handler takes it.                                    *)
StartCommand(t, u) == Begin(t, "start", "clear_state", u, "other")
AdminCommand(t, u) == Begin(t, "entry", "entry", u, "other")
SelectSlot(t, u)   == Begin(t, "select", SelectOrder[1], u, "other")

TextMessage(t, u, text) ==
    \/ fsm_state[u] = "phone"    /\ Begin(t, "phone", "get_data", u, text)
    \/ fsm_state[u] = "password" /\ Begin(t, "password", "check", u, text)

(* require_admin in front of list_services, show_schedule, list_bookings. *)
AllowedAll(u) == TRUE
Allowed(u) == IsAdmin(u)

PanelButton(t, u) == Begin(t, "panel", IF Allowed(u) THEN "read" ELSE "refuse", u, "other")

Update(t) ==
    /\ \E u \in Users :
          \/ StartCommand(t, u)
          \/ AdminCommand(t, u)
          \/ SelectSlot(t, u)
          \/ \E text \in {"right", "other"} : TextMessage(t, u, text)
          \/ PanelButton(t, u)
    /\ UNCHANGED <<gateVars, fsmVars, faults, histVars>>
-------------------------------------------------------------------------------
(* admin_entry: the menu for an admin, the prompt for anybody else; the    *)
(* FSM data stays.                                                         *)
Enter(t) ==
    /\ At(t, "entry")
    /\ fsm_state' = IF IsAdmin(task[t].user)
                    THEN fsm_state
                    ELSE [fsm_state EXCEPT ![task[t].user] = "password"]
    /\ Goto(t, "answer")
    /\ UNCHANGED <<gateVars, fsm_slot, overlapped, faults, histVars>>

(* check_password up to its first await: is_throttled, then authorize,     *)
(* which takes the right password at any time and records a wrong one.     *)
RefusedNever(u) == FALSE
Refused(u) == Throttled(u)

AfterRefusalRenewed(u) == [attempts EXCEPT ![u] = [i \in DOMAIN @ |-> 0]]
AfterRefusal(u) == attempts

Refuse(t) ==
    /\ At(t, "check")
    /\ Refused(task[t].user)
    /\ attempts' = AfterRefusal(task[t].user)
    /\ Goto(t, "clear_state")
    /\ UNCHANGED <<admin_ids, sessions, fsmVars, overlapped, faults, histVars>>

Authorize(t) ==
    /\ At(t, "check")
    /\ ~Refused(task[t].user)
    /\ task[t].text = "right"
    /\ sessions' = sessions \cup {task[t].user}
    /\ attempts' = [attempts EXCEPT ![task[t].user] = << >>]
    /\ guessed' = [guessed EXCEPT ![task[t].user] = << >>]
    /\ Goto(t, "clear_state")
    /\ UNCHANGED <<admin_ids, fsmVars, overlapped, faults, restarts>>

WrongPassword(t) ==
    /\ At(t, "check")
    /\ ~Refused(task[t].user)
    /\ task[t].text # "right"
    /\ attempts' = [attempts EXCEPT ![task[t].user] = Append(@, 0)]
    /\ guessed' = [guessed EXCEPT ![task[t].user] = Append(@, 0)]
    /\ task' = [task EXCEPT ![t].pc = "answer", ![t].guesses = @ + 1]
    /\ UNCHANGED <<admin_ids, sessions, fsmVars, overlapped, faults, restarts>>

(* select_slot. *)
SetData(t) ==
    /\ At(t, "set_data")
    /\ fsm_slot' = [fsm_slot EXCEPT ![task[t].user] = TRUE]
    /\ NextOfSelect(t)
    /\ UNCHANGED <<gateVars, fsm_state, overlapped, faults, histVars>>

SetPhone(t) ==
    /\ At(t, "set_phone")
    /\ fsm_state' = [fsm_state EXCEPT ![task[t].user] = "phone"]
    /\ NextOfSelect(t)
    /\ UNCHANGED <<gateVars, fsm_slot, overlapped, faults, histVars>>

(* capture_phone: KeyError without a slot, and a booking that may raise. *)
GetData(t) ==
    /\ At(t, "get_data")
    /\ \/ End(t)
       \/ fsm_slot[task[t].user] /\ Goto(t, "clear_state")
    /\ UNCHANGED <<gateVars, fsmVars, overlapped, faults, histVars>>

(* state.clear() is set_state(None), then set_data({}). *)
ClearState(t) ==
    /\ At(t, "clear_state")
    /\ fsm_state' = [fsm_state EXCEPT ![task[t].user] = "none"]
    /\ Goto(t, "clear_data")
    /\ UNCHANGED <<gateVars, fsm_slot, overlapped, faults, histVars>>

ClearData(t) ==
    /\ At(t, "clear_data")
    /\ fsm_slot' = [fsm_slot EXCEPT ![task[t].user] = FALSE]
    /\ Goto(t, "answer")
    /\ UNCHANGED <<gateVars, fsm_state, overlapped, faults, histVars>>

(* The panel reads the database, then shows what it read. *)
Read(t) ==
    /\ At(t, "read")
    /\ Goto(t, "show")
    /\ UNCHANGED <<gateVars, fsmVars, overlapped, faults, histVars>>

Answer(t) ==
    /\ At(t, "answer") \/ At(t, "show") \/ At(t, "refuse")
    /\ End(t)
    /\ UNCHANGED <<gateVars, fsmVars, overlapped, faults, histVars>>

(* Telegram fails in a message handler: after a flood limit or a network   *)
(* error it runs again from its start, any other error ends it.            *)
Restart(flow) ==
    CASE flow = "start" -> "clear_state" [] flow = "phone" -> "get_data"
      [] flow = "entry" -> "entry"       [] flow = "password" -> "check"

LastTryLate(t) == task[t].tries >= MaxRetries
LastTry(t) == task[t].tries + 1 >= MaxRetries

AnswerFails(t) ==
    /\ At(t, "answer")
    /\ \/ End(t)
       \/ /\ ~LastTry(t)
          /\ task' = [task EXCEPT ![t].pc = Restart(task[t].flow), ![t].tries = @ + 1]
    /\ UNCHANGED <<gateVars, fsmVars, overlapped, faults, histVars>>
-------------------------------------------------------------------------------
(* Redis or the database raises: the handler ends there. *)
TaskRaises(t) ==
    /\ t \in DOMAIN task
    /\ faults < MaxFaults
    /\ faults' = faults + 1
    /\ End(t)
    /\ UNCHANGED <<gateVars, fsmVars, overlapped, histVars>>

(* The process dies: sessions and attempts are gone; the FSM stays in      *)
(* Redis, or is gone with the MemoryStorage of a bot without it.           *)
FsmLost ==
    /\ fsm_state' = [u \in Users |-> "none"]
    /\ fsm_slot' = [u \in Users |-> FALSE]

Crash ==
    /\ faults < MaxFaults
    /\ faults' = faults + 1
    /\ sessions' = {}
    /\ attempts' = [u \in Users |-> << >>]
    /\ task' = << >>
    /\ restarts' = restarts + 1
    /\ UNCHANGED fsmVars \/ FsmLost
    /\ UNCHANGED <<admin_ids, overlapped, guessed>>

TaskStep(t) ==
    \/ Enter(t) \/ Refuse(t) \/ Authorize(t) \/ WrongPassword(t)
    \/ SetData(t) \/ SetPhone(t) \/ GetData(t) \/ ClearState(t) \/ ClearData(t)
    \/ Read(t) \/ Answer(t) \/ AnswerFails(t)

AdminNext ==
    \/ \E t \in Tasks : Update(t) \/ TaskStep(t) \/ TaskRaises(t)
    \/ Tick
    \/ Crash

AdminSpec == AdminInit /\ [][AdminNext]_vars

(* Handlers go on, and time passes. *)
FairAdminSpec == AdminSpec /\ WF_vars(Tick) /\ \A t \in Tasks : WF_vars(TaskStep(t))
-------------------------------------------------------------------------------
(* Gate, conversation and handlers hold values of their types. *)
AdminTypeOK ==
    /\ admin_ids \subseteq Users
    /\ sessions \subseteq Users
    /\ attempts \in [Users -> Seq(Nat)]
    /\ fsm_state \in [Users -> {"none", "phone", "password"}]
    /\ fsm_slot \in [Users -> BOOLEAN]
    /\ DOMAIN task \subseteq Tasks
    /\ task \in [DOMAIN task -> Task]
    /\ \A t \in DOMAIN task : task[t].tries < MaxRetries
    /\ overlapped \subseteq Users
    /\ faults \in 0..MaxFaults
    /\ guessed \in [Users -> Seq(Nat)]
    /\ restarts \in 0..faults

(* "checked BEFORE authorize" (check_password): however many handlers of a *)
(* user run at once, and however often each is retried, a user who does    *)
(* not find the password tries no more than MaxAttempts wrong ones in a    *)
(* window, and as many again for each restart of the process, which        *)
(* forgets the gate's list.  guessed counts them; the gate's own list,     *)
(* which a restart empties, is attempts.                                   *)
GuessesBounded == \A u \in Users : Len(guessed[u]) <= MaxAttempts * (1 + restarts)

(* One message counts for at most MaxRetries attempts: the middleware runs *)
(* the check again with the same text, and each run is recorded.           *)
GuessesPerMessage == \A t \in DOMAIN task : task[t].guesses <= MaxRetries

(* The lists of the panel are read and shown for admins only, still at the *)
(* time they are shown.                                                    *)
PanelForAdmins ==
    \A t \in DOMAIN task : task[t].pc \in {"read", "show"} => IsAdmin(task[t].user)

(* A user asked for a phone has chosen a slot, in whatever order booking   *)
(* and admin conversation, errors and crashes follow each other; only two  *)
(* handlers of the user at once can undo it.                               *)
AskedHasSlot ==
    \A u \in Users \ overlapped : fsm_state[u] = "phone" => fsm_slot[u]

(* A user locked out of the panel is not for ever, though he keeps trying. *)
LockoutEnds == \A u \in Users : Throttled(u) ~> ~Throttled(u)
===============================================================================
