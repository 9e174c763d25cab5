---------------------------- MODULE AdminPanelProofs ----------------------------
(***************************************************************************)
(* Theorems about AdminPanel, for every set of users, admins and handlers, *)
(* and every number of faults.                                             *)
(*                                                                         *)
(* What the two conversations do to each other in one FSM depends on the   *)
(* users who never had two handlers at once: such a user's only handler    *)
(* finds the state and the data as its own last step left them.            *)
(***************************************************************************)
EXTENDS AdminPanel, FiniteSetTheorems, SequenceTheorems, WellFoundedInduction, TLAPS

FsmTyped ==
    /\ fsm_state \in [Users -> {"none", "phone", "password"}]
    /\ fsm_slot \in [Users -> BOOLEAN]

TaskTyped == task \in [DOMAIN task -> Task]

(* Two handlers of one user overlap. *)
Alone ==
    \A s, t \in DOMAIN task :
        s # t /\ task[s].user = task[t].user => task[s].user \in overlapped

(* A run of the check records at most one attempt, and has recorded none   *)
(* when it starts. *)
Counted ==
    \A t \in DOMAIN task :
        /\ task[t].tries < MaxRetries
        /\ task[t].guesses <= task[t].tries + 1
        /\ task[t].pc = "check" => task[t].guesses <= task[t].tries

(* Only message handlers pass the awaits that a retry may come after.      *)
Retried == {"answer", "clear_state", "clear_data", "get_data", "check", "entry"}
Messages ==
    \A t \in DOMAIN task :
        task[t].pc \in Retried => task[t].flow \in {"start", "phone", "entry", "password"}

(* The half of a step of the FSM that the handler has yet to take finds    *)
(* the other half as it left it. *)
Halfway ==
    \A t \in DOMAIN task :
        task[t].user \notin overlapped =>
            /\ task[t].pc = "set_phone" => fsm_slot[task[t].user]
            /\ task[t].pc = "clear_data" => fsm_state[task[t].user] = "none"

AInv ==
    /\ FsmTyped
    /\ TaskTyped
    /\ Alone
    /\ Counted
    /\ Messages
    /\ Halfway
    /\ PanelForAdmins
    /\ AskedHasSlot
-------------------------------------------------------------------------------
LEMMA AInit == AdminInit => AInv
    BY DEF AdminInit, AInv, FsmTyped, TaskTyped, Alone, Counted, Messages, Halfway,
           PanelForAdmins, AskedHasSlot

(* A handler is done, by its last step or an exception.  The others of its *)
(* user overlap with it. *)
LEMMA EndKeeps ==
    ASSUME AInv, NEW t \in DOMAIN task, End(t),
           UNCHANGED <<admin_ids, sessions, overlapped>>,
           FsmTyped',
           \A u \in Users : u # task[t].user =>
               fsm_state'[u] = fsm_state[u] /\ fsm_slot'[u] = fsm_slot[u],
           task[t].user \notin overlapped /\ fsm_state'[task[t].user] = "phone"
               => fsm_slot'[task[t].user]
    PROVE  AInv'
<1>1. /\ DOMAIN task' = DOMAIN task \ {t}
      /\ task' = [s \in DOMAIN task' |-> task'[s]]
      /\ \A s \in DOMAIN task' : task'[s] = task[s]
    BY DEF End
<1>2. TaskTyped'
    BY <1>1 DEF AInv, TaskTyped
<1>3. Alone' /\ Counted' /\ Messages'
    BY <1>1 DEF AInv, Alone, Counted, Messages
<1>4. PanelForAdmins'
    BY <1>1 DEF AInv, PanelForAdmins, IsAdmin
<1>5. Halfway'
  <2> SUFFICES ASSUME NEW s \in DOMAIN task', task[s].user \notin overlapped
               PROVE  /\ task[s].pc = "set_phone" => fsm_slot'[task[s].user]
                      /\ task[s].pc = "clear_data" => fsm_state'[task[s].user] = "none"
      BY <1>1 DEF Halfway
  <2>1. s \in DOMAIN task /\ s # t /\ task[s].user # task[t].user
      BY <1>1 DEF AInv, Alone
  <2>2. task[s].user \in Users
      BY <2>1 DEF AInv, TaskTyped, Task
  <2> QED
      BY <2>1, <2>2 DEF AInv, Halfway
<1>6. AskedHasSlot'
  <2> SUFFICES ASSUME NEW u \in Users \ overlapped, fsm_state'[u] = "phone"
               PROVE  fsm_slot'[u]
      BY DEF AskedHasSlot
  <2> QED
      BY DEF AInv, AskedHasSlot
<1> QED
    BY <1>2, <1>3, <1>4, <1>5, <1>6 DEF AInv

(* A handler goes on.  Whatever it does to its user's FSM, to its own      *)
(* counts and to the admins is right for every other handler: those of the *)
(* same user overlap, and admins are not taken away. *)
LEMMA StepKeeps ==
    ASSUME AInv, NEW t \in DOMAIN task,
           task' = [s \in DOMAIN task' |-> task'[s]],
           DOMAIN task' = DOMAIN task,
           task'[t] \in Task, task'[t].user = task[t].user,
           \A s \in DOMAIN task : s # t => task'[s] = task[s],
           UNCHANGED <<admin_ids, overlapped>>, sessions \subseteq sessions',
           FsmTyped',
           \A u \in Users : u # task[t].user =>
               fsm_state'[u] = fsm_state[u] /\ fsm_slot'[u] = fsm_slot[u],
           task'[t].tries < MaxRetries,
           task'[t].guesses <= task'[t].tries + 1,
           task'[t].pc = "check" => task'[t].guesses <= task'[t].tries,
           task'[t].pc \in {"read", "show"} => task[t].pc = "read",
           task'[t].flow = task[t].flow,
           task'[t].pc \in Retried => task[t].pc \in Retried,
           task[t].user \notin overlapped =>
               /\ task'[t].pc = "set_phone" => fsm_slot'[task[t].user]
               /\ task'[t].pc = "clear_data" => fsm_state'[task[t].user] = "none"
               /\ fsm_state'[task[t].user] = "phone" => fsm_slot'[task[t].user]
    PROVE  AInv'
<1>1. TaskTyped'
    BY DEF AInv, TaskTyped
<1>2. Alone'
    BY DEF AInv, Alone
<1>3. Counted' /\ Messages'
    BY DEF AInv, Counted, Messages
<1>4. \A s \in DOMAIN task : task[s].user \in Users
    BY DEF AInv, TaskTyped, Task
<1>5. Halfway'
  <2> SUFFICES ASSUME NEW s \in DOMAIN task, task'[s].user \notin overlapped
               PROVE  /\ task'[s].pc = "set_phone" => fsm_slot'[task'[s].user]
                      /\ task'[s].pc = "clear_data" => fsm_state'[task'[s].user] = "none"
      BY DEF Halfway
  <2>1. CASE s = t
      BY <2>1
  <2>2. CASE s # t
    <3>1. task'[s] = task[s] /\ task[s].user # task[t].user
        BY <2>2 DEF AInv, Alone
    <3> QED
        BY <1>4, <3>1 DEF AInv, Halfway
  <2> QED
      BY <2>1, <2>2
<1>6. PanelForAdmins'
    BY DEF AInv, PanelForAdmins, IsAdmin
<1>7. AskedHasSlot'
  <2> SUFFICES ASSUME NEW u \in Users \ overlapped, fsm_state'[u] = "phone"
               PROVE  fsm_slot'[u]
      BY DEF AskedHasSlot
  <2>1. CASE u = task[t].user
      BY <2>1
  <2>2. CASE u # task[t].user
      BY <2>2 DEF AInv, AskedHasSlot
  <2> QED
      BY <2>1, <2>2
<1> QED
    BY <1>1, <1>2, <1>3, <1>5, <1>6, <1>7 DEF AInv
-------------------------------------------------------------------------------
(* What Goto leaves of a handler. *)
LEMMA GotoFacts ==
    ASSUME TaskTyped, NEW t \in DOMAIN task, NEW pc \in Pcs, Goto(t, pc)
    PROVE  /\ task' = [s \in DOMAIN task' |-> task'[s]]
           /\ DOMAIN task' = DOMAIN task
           /\ task'[t] \in Task
           /\ task'[t].pc = pc
           /\ task'[t].user = task[t].user
           /\ task'[t].flow = task[t].flow
           /\ task'[t].tries = task[t].tries
           /\ task'[t].guesses = task[t].guesses
           /\ \A s \in DOMAIN task : s # t => task'[s] = task[s]
    BY DEF Goto, Task, TaskTyped

(* A handler whose next await is not the check, nor a list of the panel.   *)
LEMMA GotoKeeps ==
    ASSUME AInv, NEW t \in DOMAIN task, NEW pc \in Pcs, Goto(t, pc),
           UNCHANGED <<admin_ids, overlapped>>, sessions \subseteq sessions',
           FsmTyped',
           \A u \in Users : u # task[t].user =>
               fsm_state'[u] = fsm_state[u] /\ fsm_slot'[u] = fsm_slot[u],
           pc # "check", pc \in {"read", "show"} => task[t].pc = "read",
           pc \in Retried => task[t].pc \in Retried,
           task[t].user \notin overlapped =>
               /\ pc = "set_phone" => fsm_slot'[task[t].user]
               /\ pc = "clear_data" => fsm_state'[task[t].user] = "none"
               /\ fsm_state'[task[t].user] = "phone" => fsm_slot'[task[t].user]
    PROVE  AInv'
<1>1. /\ task' = [s \in DOMAIN task' |-> task'[s]]
      /\ DOMAIN task' = DOMAIN task
      /\ task'[t] \in Task
      /\ task'[t].pc = pc
      /\ task'[t].user = task[t].user
      /\ task'[t].flow = task[t].flow
      /\ task'[t].tries = task[t].tries
      /\ task'[t].guesses = task[t].guesses
      /\ \A s \in DOMAIN task : s # t => task'[s] = task[s]
    BY GotoFacts DEF AInv
<1>2. task[t].tries < MaxRetries /\ task[t].guesses <= task[t].tries + 1
    BY DEF AInv, Counted
<1> QED
    BY <1>1, <1>2, StepKeeps

LEMMA SelectOrderFacts == SelectOrder[1] = "set_data" /\ SelectOrder[2] = "set_phone"
    BY DEF SelectOrder

(* The user of a handler, and what the FSM holds for one who never had two.*)
LEMMA Own ==
    ASSUME AInv, NEW t \in DOMAIN task
    PROVE  /\ task[t].user \in Users
           /\ FsmTyped
           /\ task[t].user \notin overlapped =>
                 /\ task[t].pc = "set_phone" => fsm_slot[task[t].user]
                 /\ task[t].pc = "clear_data" => fsm_state[task[t].user] = "none"
                 /\ fsm_state[task[t].user] = "phone" => fsm_slot[task[t].user]
    BY DEF AInv, TaskTyped, Task, Halfway, AskedHasSlot

(* Steps that do not touch the FSM. *)
LEMMA QuietKeeps ==
    ASSUME AInv, NEW t, Refuse(t) \/ Authorize(t) \/ GetData(t) \/ Read(t) \/ Answer(t) \/ TaskRaises(t)
    PROVE  AInv'
<1>1. t \in DOMAIN task
    BY DEF Refuse, Authorize, GetData, Read, Answer, TaskRaises, At
<1>2. /\ UNCHANGED <<admin_ids, fsm_state, fsm_slot, overlapped>>
      /\ sessions \subseteq sessions'
    BY <1>1 DEF Refuse, Authorize, GetData, Read, Answer, TaskRaises, gateVars, fsmVars
<1>3. FsmTyped'
    BY <1>2 DEF AInv, FsmTyped
<1>4. CASE End(t) /\ sessions' = sessions
    BY <1>1, <1>2, <1>3, <1>4, Own, EndKeeps
<1>5. CASE \/ Goto(t, "clear_state") /\ task[t].pc \in Retried
           \/ (Goto(t, "show") /\ task[t].pc = "read")
    BY <1>1, <1>2, <1>3, <1>5, Own, GotoKeeps DEF Pcs, Retried
<1> QED
    BY <1>1, <1>2, <1>4, <1>5 DEF Refuse, Authorize, GetData, Read, Answer, TaskRaises, At, gateVars, Retried

(* Steps on the FSM, each of its handler's user only. *)
LEMMA FsmKeeps ==
    ASSUME AInv, NEW t, Enter(t) \/ SetData(t) \/ SetPhone(t) \/ ClearState(t) \/ ClearData(t)
    PROVE  AInv'
<1> DEFINE u == task[t].user
<1>1. t \in DOMAIN task
    BY DEF Enter, SetData, SetPhone, ClearState, ClearData, At
<1>2. /\ u \in Users
      /\ FsmTyped
      /\ u \notin overlapped =>
            /\ task[t].pc = "set_phone" => fsm_slot[u]
            /\ task[t].pc = "clear_data" => fsm_state[u] = "none"
            /\ fsm_state[u] = "phone" => fsm_slot[u]
    BY <1>1, Own
<1>3. UNCHANGED <<admin_ids, sessions, overlapped>> /\ sessions \subseteq sessions'
    BY DEF Enter, SetData, SetPhone, ClearState, ClearData, gateVars
<1>4. \/ fsm_slot' = fsm_slot /\ \E x \in {"none", "phone", "password"} :
                                   fsm_state' = [fsm_state EXCEPT ![u] = x]
      \/ fsm_slot' = fsm_slot /\ fsm_state' = fsm_state
      \/ fsm_state' = fsm_state /\ \E x \in BOOLEAN : fsm_slot' = [fsm_slot EXCEPT ![u] = x]
    BY DEF Enter, SetData, SetPhone, ClearState, ClearData
<1>5. /\ FsmTyped'
      /\ \A v \in Users : v # u => fsm_state'[v] = fsm_state[v] /\ fsm_slot'[v] = fsm_slot[v]
    BY <1>2, <1>4 DEF FsmTyped
<1>6. CASE Enter(t)
  <2>1. Goto(t, "answer") /\ fsm_slot' = fsm_slot /\ task[t].pc = "entry"
      BY <1>6 DEF Enter, At
  <2>2. fsm_state'[u] \in {fsm_state[u], "password"}
      BY <1>2, <1>6 DEF Enter, FsmTyped
  <2>3. u \notin overlapped => (fsm_state'[u] = "phone" => fsm_slot'[u])
      BY <1>2, <2>1, <2>2
  <2> QED
      BY <1>1, <1>3, <1>5, <2>1, <2>3, GotoKeeps DEF Pcs, Retried
<1>7. CASE SetData(t)
  <2>1. Goto(t, "set_phone") /\ fsm_slot'[u] = TRUE
      BY <1>2, <1>7, SelectOrderFacts DEF SetData, NextOfSelect, At, FsmTyped
  <2> QED
      BY <1>1, <1>3, <1>5, <2>1, GotoKeeps DEF Pcs, Retried
<1>8. CASE SetPhone(t)
  <2>1. End(t) /\ fsm_slot' = fsm_slot /\ task[t].pc = "set_phone"
      BY <1>8, SelectOrderFacts DEF SetPhone, NextOfSelect, At
  <2> QED
      BY <1>1, <1>2, <1>3, <1>5, <2>1, EndKeeps
<1>9. CASE ClearState(t)
  <2>1. Goto(t, "clear_data") /\ fsm_state'[u] = "none" /\ task[t].pc = "clear_state"
      BY <1>2, <1>9 DEF ClearState, FsmTyped, At
  <2> QED
      BY <1>1, <1>3, <1>5, <2>1, GotoKeeps DEF Pcs, Retried
<1>10. CASE ClearData(t)
  <2>1. Goto(t, "answer") /\ fsm_state' = fsm_state /\ task[t].pc = "clear_data"
      BY <1>10 DEF ClearData, At
  <2> QED
      BY <1>1, <1>2, <1>3, <1>5, <2>1, GotoKeeps DEF Pcs, Retried
<1> QED
    BY <1>6, <1>7, <1>8, <1>9, <1>10

(* A wrong password is counted against the message: the check runs once    *)
(* per try. *)
LEMMA WrongKeeps == ASSUME AInv, NEW t, WrongPassword(t) PROVE AInv'
<1>1. t \in DOMAIN task /\ task[t].pc = "check"
    BY DEF WrongPassword, At
<1>2. /\ task' = [task EXCEPT ![t].pc = "answer", ![t].guesses = task[t].guesses + 1]
      /\ UNCHANGED <<admin_ids, sessions, fsm_state, fsm_slot, overlapped>>
    BY DEF WrongPassword, fsmVars
<1>3. /\ task \in [DOMAIN task -> Task] /\ task[t] \in Task
      /\ task[t].guesses \in Nat /\ task[t].tries \in Nat /\ task[t].guesses + 1 \in Nat
    BY <1>1 DEF AInv, TaskTyped, Task
<1>4. task[t].tries < MaxRetries /\ task[t].guesses <= task[t].tries
    BY <1>1 DEF AInv, Counted
<1>5. /\ task' = [s \in DOMAIN task' |-> task'[s]]
      /\ DOMAIN task' = DOMAIN task
      /\ \A s \in DOMAIN task : s # t => task'[s] = task[s]
    BY <1>1, <1>2, <1>3
<1>6. /\ task'[t] \in Task
      /\ task'[t].pc = "answer"
      /\ task'[t].flow = task[t].flow
      /\ task'[t].user = task[t].user
      /\ task'[t].tries = task[t].tries
      /\ task'[t].guesses = task[t].guesses + 1
    BY <1>1, <1>2, <1>3 DEF Task, Pcs
<1>7. FsmTyped'
    BY <1>2 DEF AInv, FsmTyped
<1>8. task'[t].guesses <= task'[t].tries + 1
    BY <1>3, <1>4, <1>6
<1> QED
    BY <1>1, <1>2, <1>4, <1>5, <1>6, <1>7, <1>8, Own, StepKeeps DEF Retried

(* Telegram fails: the handler ends, or starts again with one more try. *)
LEMMA FailsKeeps == ASSUME AInv, NEW t, AnswerFails(t) PROVE AInv'
<1>1. /\ t \in DOMAIN task /\ task[t].pc = "answer"
      /\ UNCHANGED <<admin_ids, sessions, fsm_state, fsm_slot, overlapped>>
    BY DEF AnswerFails, At, gateVars, fsmVars
<1>2. FsmTyped'
    BY <1>1 DEF AInv, FsmTyped
<1>3. CASE End(t)
    BY <1>1, <1>2, <1>3, Own, EndKeeps
<1>4. CASE ~LastTry(t) /\ task' = [task EXCEPT ![t].pc = Restart(task[t].flow), ![t].tries = @ + 1]
  <2>1. /\ task \in [DOMAIN task -> Task] /\ task[t] \in Task
        /\ task[t].guesses \in Nat /\ task[t].tries \in Nat /\ task[t].tries + 1 \in Nat
        /\ task[t].guesses <= task[t].tries + 1
      BY <1>1 DEF AInv, TaskTyped, Task, Counted
  <2>2. task[t].flow \in {"start", "phone", "entry", "password"}
      BY <1>1 DEF AInv, Messages, Retried
  <2>3. PICK pc \in {"clear_state", "get_data", "entry", "check"} :
            task' = [task EXCEPT ![t].pc = pc, ![t].tries = task[t].tries + 1]
      BY <1>4, <2>2 DEF Restart
  <2>4. task[t].tries + 1 < MaxRetries
      BY <1>4, <2>1, AdminAssumption DEF LastTry
  <2>5. /\ task' = [s \in DOMAIN task' |-> task'[s]]
        /\ DOMAIN task' = DOMAIN task
        /\ \A s \in DOMAIN task : s # t => task'[s] = task[s]
      BY <1>1, <2>1, <2>3
  <2>6. /\ task'[t] \in Task
        /\ task'[t].pc = pc
        /\ task'[t].flow = task[t].flow
        /\ task'[t].user = task[t].user
        /\ task'[t].tries = task[t].tries + 1
        /\ task'[t].guesses = task[t].guesses
      BY <1>1, <2>1, <2>3 DEF Task, Pcs
  <2>7. /\ task'[t].tries < MaxRetries
        /\ task'[t].guesses <= task'[t].tries
        /\ task'[t].guesses <= task'[t].tries + 1
      BY <2>1, <2>4, <2>6
  <2>8. task'[t].pc \notin {"read", "show", "set_phone", "clear_data"} /\ task[t].pc \in Retried
      BY <1>1, <2>6 DEF Retried
  <2> QED
      BY <1>1, <1>2, <2>5, <2>6, <2>7, <2>8, Own, StepKeeps
<1> QED
    BY <1>3, <1>4 DEF AnswerFails

(* An update arrives.  Its user overlaps from now on, if a handler of the  *)
(* same user is still running. *)
LEMMA BeginKeeps ==
    ASSUME AInv, NEW t, NEW flow \in Flows, NEW pc \in Pcs, NEW u \in Users,
           NEW text \in {"right", "other"}, Begin(t, flow, pc, u, text),
           UNCHANGED <<gateVars, fsmVars>>,
           pc = "read" => IsAdmin(u), pc \notin {"show", "set_phone", "clear_data"},
           pc \in Retried => flow \in {"start", "phone", "entry", "password"}
    PROVE  AInv'
<1> DEFINE new == [flow |-> flow, pc |-> pc, user |-> u, text |-> text, tries |-> 0, guesses |-> 0]
<1>1. /\ t \notin DOMAIN task
      /\ DOMAIN task' = DOMAIN task \cup {t}
      /\ task' = [s \in DOMAIN task' |-> task'[s]]
      /\ task'[t] = new
      /\ \A s \in DOMAIN task : task'[s] = task[s]
      /\ overlapped' = IF Busy(u) THEN overlapped \cup {u} ELSE overlapped
    BY DEF Begin
<1>2. new \in Task /\ new.pc = pc /\ new.user = u /\ new.tries = 0 /\ new.guesses = 0 /\ new.flow = flow
    BY DEF Task
<1> HIDE DEF new
<1>3. overlapped \subseteq overlapped' /\ (Busy(u) => u \in overlapped')
    BY <1>1
<1>4. UNCHANGED <<admin_ids, sessions, fsm_state, fsm_slot>>
    BY DEF gateVars, fsmVars
<1>5. FsmTyped' /\ TaskTyped'
    BY <1>1, <1>2, <1>4 DEF AInv, FsmTyped, TaskTyped
<1>6. Alone'
    BY <1>1, <1>2, <1>3 DEF AInv, Alone, Busy
<1>7. Counted' /\ Messages'
    BY <1>1, <1>2, AdminAssumption DEF AInv, Counted, Messages
<1>8. Halfway'
    BY <1>1, <1>2, <1>3, <1>4 DEF AInv, Halfway
<1>9. PanelForAdmins'
    BY <1>1, <1>2, <1>4 DEF AInv, PanelForAdmins, IsAdmin
<1>10. AskedHasSlot'
    BY <1>3, <1>4 DEF AInv, AskedHasSlot
<1> QED
    BY <1>5, <1>6, <1>7, <1>8, <1>9, <1>10 DEF AInv

LEMMA UpdateKeeps == ASSUME AInv, NEW t, Update(t) PROVE AInv'
<1> USE DEF Flows, Pcs, Retried
<1>1. PICK u \in Users :
          \/ StartCommand(t, u) \/ AdminCommand(t, u) \/ SelectSlot(t, u)
          \/ \E text \in {"right", "other"} : TextMessage(t, u, text)
          \/ PanelButton(t, u)
    BY DEF Update
<1>2. UNCHANGED <<gateVars, fsmVars>>
    BY DEF Update
<1>3. CASE StartCommand(t, u)
    BY <1>2, <1>3, BeginKeeps DEF StartCommand
<1>4. CASE AdminCommand(t, u)
    BY <1>2, <1>4, BeginKeeps DEF AdminCommand
<1>5. CASE SelectSlot(t, u)
    BY <1>2, <1>5, BeginKeeps, SelectOrderFacts DEF SelectSlot
<1>6. ASSUME NEW text \in {"right", "other"}, TextMessage(t, u, text) PROVE AInv'
    BY <1>2, <1>6, BeginKeeps DEF TextMessage
<1>7. CASE PanelButton(t, u)
    BY <1>2, <1>7, BeginKeeps DEF PanelButton, Allowed
<1> QED
    BY <1>1, <1>3, <1>4, <1>5, <1>6, <1>7

(* A crash takes the sessions, and the handlers that relied on them. *)
LEMMA CrashKeeps == AInv /\ Crash => AInv'
<1> SUFFICES ASSUME AInv, Crash PROVE AInv'
    OBVIOUS
<1>1. task' = << >> /\ overlapped' = overlapped /\ (UNCHANGED fsmVars \/ FsmLost)
    BY DEF Crash
<1>2. TaskTyped' /\ Alone' /\ Counted' /\ Messages' /\ Halfway' /\ PanelForAdmins'
    BY <1>1 DEF TaskTyped, Alone, Counted, Messages, Halfway, PanelForAdmins
<1>3. CASE UNCHANGED fsmVars
    BY <1>1, <1>2, <1>3 DEF AInv, FsmTyped, AskedHasSlot, fsmVars
<1>4. CASE FsmLost
    BY <1>1, <1>2, <1>4 DEF FsmLost, AInv, FsmTyped, AskedHasSlot
<1> QED
    BY <1>1, <1>3, <1>4

LEMMA StillKeeps == AInv /\ (Tick \/ UNCHANGED vars) => AInv'
<1> SUFFICES ASSUME AInv, Tick \/ UNCHANGED vars PROVE AInv'
    OBVIOUS
<1>1. UNCHANGED <<admin_ids, sessions, fsm_state, fsm_slot, task, overlapped>>
    BY DEF Tick, vars, gateVars, fsmVars
<1> QED
    BY <1>1 DEF AInv, FsmTyped, TaskTyped, Alone, Counted, Messages, Halfway, PanelForAdmins,
                AskedHasSlot, IsAdmin
-------------------------------------------------------------------------------
LEMMA AdminInvariant == AdminSpec => []AInv
<1>1. AInv /\ [AdminNext]_vars => AInv'
    BY UpdateKeeps, QuietKeeps, FsmKeeps, WrongKeeps, FailsKeeps, CrashKeeps, StillKeeps
       DEF AdminNext, TaskStep
<1> QED
    BY AInit, <1>1, PTL DEF AdminSpec

(* The lists of the panel are read and shown for admins only: sessions end *)
(* with the process, and so do its handlers (src/core/auth.py). *)
THEOREM AdminPanelForAdmins == AdminSpec => []PanelForAdmins
<1>1. AInv => PanelForAdmins
    BY DEF AInv
<1> QED
    BY AdminInvariant, <1>1, PTL

(* A user asked for a phone has chosen a slot, however the booking and the *)
(* admin conversation follow each other, unless two of the user's handlers *)
(* ever ran at once (select_slot, capture_phone, /admin, /start). *)
THEOREM AdminAskedHasSlot == AdminSpec => []AskedHasSlot
<1>1. AInv => AskedHasSlot
    BY DEF AInv
<1> QED
    BY AdminInvariant, <1>1, PTL

(* One message counts for at most MaxRetries failed attempts, however      *)
(* often RetryMiddleware runs check_password again. *)
THEOREM AdminGuessesPerMessage == AdminSpec => []GuessesPerMessage
<1>1. AInv => GuessesPerMessage
  <2> SUFFICES ASSUME AInv, NEW t \in DOMAIN task PROVE task[t].guesses <= MaxRetries
      BY DEF GuessesPerMessage
  <2>1. task[t].guesses \in Nat /\ task[t].tries \in Nat
      BY DEF AInv, TaskTyped, Task
  <2> QED
      BY <2>1, AdminAssumption DEF AInv, Counted
<1> QED
    BY AdminInvariant, <1>1, PTL
-------------------------------------------------------------------------------
(* A set of natural numbers that is not empty has a least one.             *)
LEMMA LeastNat ==
    ASSUME NEW S \in SUBSET Nat, S # {}
    PROVE  \E n \in S : \A k \in S : n <= k
<1>1. IsWellFoundedOn(OpToRel(<, Nat), Nat)
    BY NatLessThanWellFounded
<1>2. PICK n \in S : \A k \in S : ~(<<k, n>> \in OpToRel(<, Nat))
    BY <1>1, WFMin
<1>3. \A k \in S : ~(k < n)
    BY <1>2 DEF OpToRel
<1> QED
    BY <1>3

(* The failed attempts of a user, oldest first, are all within the window. *)
InOrder(ages) ==
    /\ ages \in Seq(Nat)
    /\ \A i \in 1..Len(ages) : ages[i] < Window
    /\ \A i, j \in 1..Len(ages) : i < j => ages[i] >= ages[j]

(* Those that a tick makes outdated are the first ones, so that dropping   *)
(* as many from the front is to drop them and no others.                   *)
LEMMA OutdatedFirst ==
    ASSUME NEW ages, InOrder(ages)
    PROVE  /\ Cardinality(Outdated(ages)) \in 0..Len(ages)
           /\ Outdated(ages) = 1..Cardinality(Outdated(ages))
<1> DEFINE S == Outdated(ages)
           T == {k \in Nat : k # 0 /\ k \notin S}
<1>1. Window \in Nat /\ Len(ages) \in Nat /\ DOMAIN ages = 1..Len(ages)
      /\ \A i \in 1..Len(ages) : ages[i] \in Nat
    BY AdminAssumption DEF InOrder
<1>2. S \subseteq 1..Len(ages)
    BY <1>1 DEF Outdated
<1>3. ASSUME NEW j \in S, NEW i \in 1..Len(ages), i < j PROVE i \in S
  <2>1. ages[i] >= ages[j] /\ ages[j] + 1 >= Window
      BY <1>2, <1>3 DEF InOrder, Outdated
  <2> QED
      BY <1>1, <1>2, <2>1 DEF Outdated
<1> HIDE DEF S
<1>4. Len(ages) + 1 \in T
    BY <1>1, <1>2
<1>5. PICK n \in T : \A k \in T : n <= k
    BY <1>4, LeastNat
<1>6. n \in Nat /\ n - 1 \in Nat /\ n <= Len(ages) + 1
    BY <1>1, <1>4, <1>5
<1>7. S = 1..(n - 1)
  <2>1. ASSUME NEW j \in S PROVE j \in 1..(n - 1)
      BY <1>2, <1>3, <1>5, <1>6, <2>1
  <2>2. ASSUME NEW j \in 1..(n - 1) PROVE j \in S
      BY <1>5, <1>6, <2>2
  <2> QED
      BY <2>1, <2>2
<1>8. Cardinality(1..(n - 1)) = n - 1
  <2>1. 1 \in Int /\ n - 1 \in Int
      BY <1>6
  <2>2. Cardinality(1..(n - 1)) = IF 1 > n - 1 THEN 0 ELSE (n - 1) - 1 + 1
      BY <2>1, FS_Interval
  <2> QED
      BY <1>6, <2>2
<1>9. n - 1 \in 0..Len(ages)
    BY <1>1, <1>6
<1> QED
    BY <1>7, <1>8, <1>9 DEF S

LEMMA AfterTickKeeps ==
    ASSUME NEW ages, InOrder(ages)
    PROVE  /\ InOrder(AfterTick(ages))
           /\ Len(AfterTick(ages)) <= Len(ages)
<1> DEFINE old == Cardinality(Outdated(ages))
           n   == Len(ages) - old
           new == [i \in 1..n |-> ages[i + old] + 1]
<1>1. old \in 0..Len(ages) /\ Outdated(ages) = 1..old
    BY OutdatedFirst
<1>2. /\ Len(ages) \in Nat /\ DOMAIN ages = 1..Len(ages) /\ Window \in Nat
      /\ \A i \in 1..Len(ages) : ages[i] \in Nat
    BY AdminAssumption DEF InOrder
<1>3. ASSUME NEW i \in (old + 1)..Len(ages) PROVE ages[i] + 1 < Window
  <2>1. i \in DOMAIN ages /\ i \notin Outdated(ages)
      BY <1>1, <1>2, <1>3
  <2> QED
      BY <1>2, <2>1 DEF Outdated
<1>4. AfterTick(ages) = new
    BY DEF AfterTick
<1> HIDE DEF old
<1>5. n \in Nat /\ n <= Len(ages)
    BY <1>1, <1>2
<1>6. \A i \in 1..n : i + old \in (old + 1)..Len(ages) /\ i + old \in 1..Len(ages)
    BY <1>1, <1>2
<1>7. \A i \in 1..n : new[i] = ages[i + old] + 1 /\ new[i] \in Nat /\ new[i] < Window
    BY <1>2, <1>3, <1>6
<1>8. new \in Seq(Nat) /\ Len(new) = n
  <2>1. new \in [1..n -> Nat]
      BY <1>7
  <2> QED
      BY <1>5, <2>1, LenProperties, SeqDef
<1>9. ASSUME NEW i \in 1..n, NEW j \in 1..n, i < j PROVE new[i] >= new[j]
  <2>1. ages[i + old] >= ages[j + old]
      BY <1>1, <1>6, <1>9 DEF InOrder
  <2> QED
      BY <1>2, <1>6, <1>7, <2>1
<1> HIDE DEF new, n
<1> QED
    BY <1>4, <1>5, <1>7, <1>8, <1>9 DEF InOrder

(* The gate's list a and the wrong guesses g of a user: the gate knows the *)
(* last ones of them, and a restart made it forget MaxAttempts at most.    *)
Knows(a, g) == \A i \in 1..Len(a) : a[i] = g[i + (Len(g) - Len(a))]

GuessOK(a, g, forgotten) ==
    /\ InOrder(a) /\ InOrder(g)
    /\ Len(a) <= MaxAttempts
    /\ Len(a) <= Len(g)
    /\ Len(g) <= Len(a) + forgotten
    /\ Knows(a, g)

GateInv ==
    /\ attempts \in [Users -> Seq(Nat)]
    /\ guessed \in [Users -> Seq(Nat)]
    /\ restarts \in Nat
    /\ \A u \in Users : GuessOK(attempts[u], guessed[u], MaxAttempts * restarts)

RestTyped ==
    /\ admin_ids \subseteq Users
    /\ sessions \subseteq Users
    /\ DOMAIN task \subseteq Tasks
    /\ overlapped \subseteq Users
    /\ faults \in 0..MaxFaults
    /\ restarts \in 0..faults

LEMMA NoAttempts == InOrder(<< >>) /\ Len(<< >>) = 0 /\ MaxAttempts \in Nat
    BY AdminAssumption DEF InOrder

LEMMA GateInit == AdminInit => GateInv
<1> SUFFICES ASSUME AdminInit PROVE GateInv
    OBVIOUS
<1>1. /\ attempts = [u \in Users |-> << >>] /\ guessed = [u \in Users |-> << >>]
      /\ restarts = 0
    BY DEF AdminInit
<1>2. GuessOK(<< >>, << >>, MaxAttempts * 0)
    BY NoAttempts DEF GuessOK, Knows
<1> QED
    BY <1>1, <1>2 DEF GateInv

(* A wrong guess more. *)
LEMMA OneMore ==
    ASSUME NEW ages, InOrder(ages)
    PROVE  /\ InOrder(Append(ages, 0))
           /\ Len(Append(ages, 0)) = Len(ages) + 1
           /\ \A i \in 1..Len(ages) : Append(ages, 0)[i] = ages[i]
           /\ Append(ages, 0)[Len(ages) + 1] = 0
<1> DEFINE more == Append(ages, 0)
<1>1. ages \in Seq(Nat) /\ Len(ages) \in Nat
    BY DEF InOrder
<1>2. /\ more \in Seq(Nat) /\ Len(more) = Len(ages) + 1
      /\ \A i \in 1..Len(ages) : more[i] = ages[i] /\ ages[i] \in Nat
      /\ more[Len(ages) + 1] = 0
    BY <1>1, AppendProperties
<1> HIDE DEF more
<1>3. \A i \in 1..Len(more) : i \in 1..Len(ages) \/ i = Len(ages) + 1
    BY <1>1, <1>2
<1>4. \A i \in 1..Len(more) : more[i] < Window
  <2>1. \A i \in 1..Len(ages) : ages[i] < Window
      BY DEF InOrder
  <2>2. 0 < Window
      BY AdminAssumption
  <2> QED
      BY <1>2, <1>3, <2>1, <2>2
<1>5. ASSUME NEW i \in 1..Len(more), NEW j \in 1..Len(more), i < j PROVE more[i] >= more[j]
  <2>1. i \in 1..Len(ages)
      BY <1>1, <1>2, <1>5
  <2>2. CASE j \in 1..Len(ages)
      BY <1>2, <1>5, <2>1, <2>2 DEF InOrder
  <2>3. CASE j = Len(ages) + 1
      BY <1>2, <2>1, <2>3
  <2> QED
      BY <1>3, <2>2, <2>3
<1>6. InOrder(more)
    BY <1>2, <1>4, <1>5 DEF InOrder
<1> QED
    BY <1>2, <1>6 DEF more

LEMMA GuessedOneMore ==
    ASSUME NEW a, NEW g, NEW forgotten \in Nat, GuessOK(a, g, forgotten), Len(a) < MaxAttempts
    PROVE  GuessOK(Append(a, 0), Append(g, 0), forgotten)
<1> DEFINE b == Append(a, 0)
           h == Append(g, 0)
<1>1. /\ InOrder(a) /\ InOrder(g) /\ Len(a) \in Nat /\ Len(g) \in Nat /\ MaxAttempts \in Nat
      /\ Len(a) <= Len(g) /\ Len(g) <= Len(a) + forgotten
    BY AdminAssumption DEF GuessOK, InOrder
<1>2. /\ InOrder(b) /\ Len(b) = Len(a) + 1 /\ b[Len(a) + 1] = 0
      /\ \A i \in 1..Len(a) : b[i] = a[i]
    BY <1>1, OneMore
<1>3. /\ InOrder(h) /\ Len(h) = Len(g) + 1 /\ h[Len(g) + 1] = 0
      /\ \A i \in 1..Len(g) : h[i] = g[i]
    BY <1>1, OneMore
<1> HIDE DEF b, h
<1>4. ASSUME NEW i \in 1..Len(b) PROVE b[i] = h[i + (Len(h) - Len(b))]
  <2>1. CASE i = Len(a) + 1
    <3>1. i + (Len(h) - Len(b)) = Len(g) + 1
        BY <1>1, <1>2, <1>3, <2>1
    <3> QED
        BY <1>2, <1>3, <2>1, <3>1
  <2>2. CASE i \in 1..Len(a)
    <3>1. /\ i + (Len(h) - Len(b)) = i + (Len(g) - Len(a))
          /\ i + (Len(g) - Len(a)) \in 1..Len(g)
        BY <1>1, <1>2, <1>3, <2>2
    <3>2. a[i] = g[i + (Len(g) - Len(a))]
        BY <2>2 DEF GuessOK, Knows
    <3> QED
        BY <1>2, <1>3, <2>2, <3>1, <3>2
  <2> QED
      BY <1>1, <1>2, <2>1, <2>2
<1>5. Len(b) <= MaxAttempts /\ Len(b) <= Len(h) /\ Len(h) <= Len(b) + forgotten
    BY <1>1, <1>2, <1>3
<1> QED
    BY <1>2, <1>3, <1>4, <1>5 DEF GuessOK, Knows, b, h

(* What a tick takes from the front of a list: it leaves the list later.   *)
Older(ages, old, later) ==
    /\ InOrder(later)
    /\ old \in Nat /\ old <= Len(ages)
    /\ Len(later) = Len(ages) - old
    /\ \A i \in 1..(Len(ages) - old) : later[i] = ages[i + old] + 1
    /\ \A i \in 1..Len(ages) : i <= old <=> ages[i] + 1 >= Window

LEMMA TickFacts ==
    ASSUME NEW ages, InOrder(ages)
    PROVE  Older(ages, Cardinality(Outdated(ages)), AfterTick(ages))
<1>0. PICK old : old = Cardinality(Outdated(ages))
    OBVIOUS
<1>1. old \in 0..Len(ages) /\ Outdated(ages) = 1..old /\ InOrder(AfterTick(ages))
    BY <1>0, OutdatedFirst, AfterTickKeeps
<1>2. Len(ages) \in Nat /\ DOMAIN ages = 1..Len(ages)
    BY DEF InOrder
<1>8. old \in Nat /\ old <= Len(ages) /\ Len(ages) - old \in Nat
  <2>1. old \in 0..Len(ages)
      BY <1>1
  <2> QED
      BY <1>2, <2>1
<1>3. AfterTick(ages) = [i \in 1..(Len(ages) - old) |-> ages[i + old] + 1]
    BY <1>0 DEF AfterTick
<1>4. Len(AfterTick(ages)) \in Nat /\ DOMAIN AfterTick(ages) = 1..Len(AfterTick(ages))
    BY <1>1 DEF InOrder
<1>5. DOMAIN AfterTick(ages) = 1..(Len(ages) - old)
    BY <1>3
<1>6. Len(AfterTick(ages)) = Len(ages) - old
  <2>1. \A m, n \in Nat : 1..m = 1..n => m = n
    <3> SUFFICES ASSUME NEW m \in Nat, NEW n \in Nat, 1..m = 1..n, m < n \/ n < m PROVE FALSE
        OBVIOUS
    <3>1. CASE m < n
        BY <3>1
    <3>2. CASE n < m
        BY <3>2
    <3> QED
        BY <3>1, <3>2
  <2> QED
      BY <1>4, <1>5, <1>8, <2>1
<1>7. ASSUME NEW i \in 1..Len(ages) PROVE i <= old <=> ages[i] + 1 >= Window
  <2>1. i <= old <=> i \in 1..old
      BY <1>2, <1>7, <1>8
  <2>2. i \in 1..old <=> i \in Outdated(ages)
      BY <1>1
  <2> QED
      BY <1>2, <1>7, <2>1, <2>2 DEF Outdated
<1>9. \A i \in 1..(Len(ages) - old) : AfterTick(ages)[i] = ages[i + old] + 1
    BY <1>3
<1>10. Older(ages, old, AfterTick(ages))
    BY <1>1, <1>6, <1>7, <1>8, <1>9 DEF Older
<1> QED
    BY <1>0, <1>10

(* Time: an attempt and the guess it records become outdated together, so  *)
(* that the gate's list stays the last part of the guesses.                *)
LEMMA GuessedTick ==
    ASSUME NEW a, NEW g, NEW forgotten \in Nat, GuessOK(a, g, forgotten)
    PROVE  GuessOK(AfterTick(a), AfterTick(g), forgotten)
<1>1. /\ InOrder(a) /\ InOrder(g) /\ Len(a) \in Nat /\ Len(g) \in Nat /\ MaxAttempts \in Nat
      /\ Len(a) <= MaxAttempts /\ Len(a) <= Len(g) /\ Len(g) <= Len(a) + forgotten
    BY AdminAssumption DEF GuessOK, InOrder
<1> DEFINE b == AfterTick(a)
           h == AfterTick(g)
<1>2. PICK j : j = Cardinality(Outdated(a))
    OBVIOUS
<1>3. PICK k : k = Cardinality(Outdated(g))
    OBVIOUS
<1>4. PICK d \in Nat : Len(g) = Len(a) + d
  <2>1. Len(g) - Len(a) \in Nat /\ Len(g) = Len(a) + (Len(g) - Len(a))
      BY <1>1
  <2> QED
      BY <2>1
<1>5. /\ InOrder(b) /\ j \in Nat /\ j <= Len(a) /\ Len(b) = Len(a) - j
      /\ \A i \in 1..(Len(a) - j) : b[i] = a[i + j] + 1
      /\ \A i \in 1..Len(a) : i <= j <=> a[i] + 1 >= Window
  <2>1. Older(a, j, b)
      BY <1>1, <1>2, TickFacts
  <2> QED
      BY <2>1 DEF Older
<1>6. /\ InOrder(h) /\ k \in Nat /\ k <= Len(g) /\ Len(h) = Len(g) - k
      /\ \A i \in 1..(Len(g) - k) : h[i] = g[i + k] + 1
      /\ \A i \in 1..Len(g) : i <= k <=> g[i] + 1 >= Window
  <2>1. Older(g, k, h)
      BY <1>1, <1>3, TickFacts
  <2> QED
      BY <2>1 DEF Older
<1> HIDE DEF b, h
<1>7. ASSUME NEW i \in 1..Len(a)
      PROVE  i + d \in 1..Len(g) /\ a[i] = g[i + d] /\ (i <= j <=> i + d <= k)
  <2>1. i + d \in 1..Len(g) /\ Len(g) - Len(a) = d
      BY <1>1, <1>4
  <2>2. a[i] = g[i + d]
      BY <2>1 DEF GuessOK, Knows
  <2> QED
      BY <1>5, <1>6, <2>1, <2>2
<1>8. IF j = 0 THEN k <= d ELSE k = j + d
  <2>1. CASE j = 0
    <3>1. Len(a) >= 1 => ~(1 + d <= k)
        BY <1>1, <1>7, <2>1
    <3> QED
        BY <1>1, <1>4, <1>6, <2>1, <3>1
  <2>2. CASE j # 0
    <3>1. j \in 1..Len(a)
        BY <1>1, <1>5, <2>2
    <3>2. j + d <= k
        BY <1>5, <1>7, <3>1
    <3>3. j + 1 <= Len(a) => ~(j + 1 + d <= k)
        BY <1>1, <1>5, <1>7
    <3> QED
        BY <1>1, <1>4, <1>5, <1>6, <2>2, <3>2, <3>3
  <2> QED
      BY <2>1, <2>2
<1>9. /\ Len(b) <= MaxAttempts /\ Len(b) <= Len(h) /\ Len(h) <= Len(b) + forgotten
    BY <1>1, <1>4, <1>5, <1>6, <1>8
<1>10. ASSUME NEW i \in 1..Len(b) PROVE b[i] = h[i + (Len(h) - Len(b))]
  <2>1. /\ i \in 1..(Len(a) - j) /\ i + j \in 1..Len(a)
      BY <1>1, <1>5
  <2>2. PICK n \in Nat : n = i + (Len(h) - Len(b))
    <3>1. i + (Len(h) - Len(b)) \in Nat
        BY <1>1, <1>4, <1>5, <1>6, <1>9
    <3> QED
        BY <3>1
  <2>3. n \in 1..(Len(g) - k) /\ n + k = i + j + d
      BY <1>1, <1>4, <1>5, <1>6, <1>8, <1>9, <2>1, <2>2
  <2>4. b[i] = a[i + j] + 1 /\ h[n] = g[n + k] + 1 /\ a[i + j] = g[i + j + d]
      BY <1>5, <1>6, <1>7, <2>1, <2>3
  <2> QED
      BY <2>2, <2>3, <2>4
<1> QED
    BY <1>5, <1>6, <1>9, <1>10 DEF GuessOK, Knows, b, h

LEMMA Forgettable == restarts \in Nat => MaxAttempts * restarts \in Nat
    BY AdminAssumption

(* The lists of one user change. *)
LEMMA ListsSet ==
    ASSUME GateInv, NEW u \in Users, NEW a, NEW g, GuessOK(a, g, MaxAttempts * restarts),
           attempts' = [attempts EXCEPT ![u] = a], guessed' = [guessed EXCEPT ![u] = g],
           restarts' = restarts
    PROVE  GateInv'
<1>1. a \in Seq(Nat) /\ g \in Seq(Nat)
    BY DEF GuessOK, InOrder
<1>2. /\ attempts' \in [Users -> Seq(Nat)] /\ guessed' \in [Users -> Seq(Nat)]
      /\ \A v \in Users : /\ attempts'[v] = IF v = u THEN a ELSE attempts[v]
                          /\ guessed'[v] = IF v = u THEN g ELSE guessed[v]
    BY <1>1 DEF GateInv
<1>3. \A v \in Users : GuessOK(attempts'[v], guessed'[v], MaxAttempts * restarts')
    BY <1>2 DEF GateInv
<1> QED
    BY <1>2, <1>3 DEF GateInv

LEMMA GateNext == ASSUME AInv, GateInv, [AdminNext]_vars PROVE GateInv'
<1>0. /\ restarts \in Nat /\ MaxAttempts * restarts \in Nat /\ MaxAttempts \in Nat
      /\ \A u \in Users : GuessOK(attempts[u], guessed[u], MaxAttempts * restarts)
    BY Forgettable, NoAttempts DEF GateInv
<1>1. CASE UNCHANGED <<attempts, guessed, restarts>>
    BY <1>1 DEF GateInv
<1>2. ASSUME NEW t, Authorize(t) PROVE GateInv'
  <2>1. PICK u \in Users : u = task[t].user
      BY <1>2 DEF Authorize, At, AInv, TaskTyped, Task
  <2>2. /\ attempts' = [attempts EXCEPT ![u] = << >>] /\ guessed' = [guessed EXCEPT ![u] = << >>]
        /\ restarts' = restarts
      BY <1>2, <2>1 DEF Authorize
  <2>3. GuessOK(<< >>, << >>, MaxAttempts * restarts)
      BY <1>0, NoAttempts DEF GuessOK, Knows
  <2> QED
      BY <2>2, <2>3, ListsSet
<1>3. CASE Tick
  <2>1. /\ attempts' = [u \in Users |-> AfterTick(attempts[u])]
        /\ guessed' = [u \in Users |-> AfterTick(guessed[u])]
        /\ restarts' = restarts
      BY <1>3 DEF Tick
  <2>2. \A u \in Users :
            GuessOK(AfterTick(attempts[u]), AfterTick(guessed[u]), MaxAttempts * restarts)
      BY <1>0, GuessedTick
  <2>3. \A u \in Users : AfterTick(attempts[u]) \in Seq(Nat) /\ AfterTick(guessed[u]) \in Seq(Nat)
      BY <2>2 DEF GuessOK, InOrder
  <2> QED
      BY <1>0, <2>1, <2>2, <2>3 DEF GateInv
<1>4. CASE Crash
  <2>1. /\ attempts' = [u \in Users |-> << >>] /\ guessed' = guessed
        /\ restarts' = restarts + 1
      BY <1>4 DEF Crash
  <2>2. ASSUME NEW u \in Users PROVE GuessOK(<< >>, guessed[u], MaxAttempts * (restarts + 1))
    <3>1. PICK f \in Nat : f = MaxAttempts * restarts
        BY <1>0
    <3>2. GuessOK(attempts[u], guessed[u], f)
        BY <1>0, <3>1
    <3>3. /\ Len(attempts[u]) \in Nat /\ Len(guessed[u]) \in Nat /\ InOrder(guessed[u])
          /\ Len(guessed[u]) <= Len(attempts[u]) + f
          /\ Len(attempts[u]) <= MaxAttempts
        BY <3>2 DEF GuessOK, InOrder
    <3>4. PICK h \in Nat : h = MaxAttempts * (restarts + 1) /\ h = f + MaxAttempts
      <4>1. MaxAttempts * (restarts + 1) = MaxAttempts * restarts + MaxAttempts
          BY <1>0
      <4> QED
          BY <1>0, <3>1, <4>1
    <3>5. GuessOK(<< >>, guessed[u], h)
        BY <1>0, <3>3, <3>4, NoAttempts DEF GuessOK, Knows
    <3> QED
        BY <3>4, <3>5
  <2>3. << >> \in Seq(Nat) /\ restarts' \in Nat
      BY <1>0, <2>1
  <2> QED
      BY <2>1, <2>2, <2>3 DEF GateInv
<1>5. ASSUME NEW t, WrongPassword(t) PROVE GateInv'
  <2>1. PICK u \in Users : u = task[t].user
      BY <1>5 DEF WrongPassword, At, AInv, TaskTyped, Task
  <2>2. /\ ~(Len(attempts[u]) >= MaxAttempts)
        /\ attempts' = [attempts EXCEPT ![u] = Append(attempts[u], 0)]
        /\ guessed' = [guessed EXCEPT ![u] = Append(guessed[u], 0)]
        /\ restarts' = restarts
      BY <1>5, <2>1 DEF WrongPassword, Refused, Throttled
  <2>3. Len(attempts[u]) < MaxAttempts
      BY <1>0, <2>2 DEF GuessOK, InOrder
  <2>4. GuessOK(Append(attempts[u], 0), Append(guessed[u], 0), MaxAttempts * restarts)
      BY <1>0, <2>3, GuessedOneMore
  <2> QED
      BY <2>2, <2>4, ListsSet
<1>6. ASSUME NEW t, Update(t) \/ TaskRaises(t) \/ Enter(t) \/ Refuse(t) \/ SetData(t) \/ SetPhone(t)
                    \/ GetData(t) \/ ClearState(t) \/ ClearData(t) \/ Read(t) \/ Answer(t)
                    \/ AnswerFails(t)
      PROVE  UNCHANGED <<attempts, guessed, restarts>>
    BY <1>6 DEF Update, TaskRaises, Enter, Refuse, SetData, SetPhone, GetData, ClearState, ClearData,
                Read, Answer, AnswerFails, gateVars, histVars, AfterRefusal
<1>7. UNCHANGED vars => UNCHANGED <<attempts, guessed, restarts>>
    BY DEF vars, gateVars, histVars
<1> QED
    BY <1>1, <1>2, <1>3, <1>4, <1>5, <1>6, <1>7 DEF AdminNext, TaskStep

LEMMA GateInvariant == AdminSpec => []GateInv
    BY GateInit, GateNext, AdminInvariant, PTL DEF AdminSpec

LEMMA RestInit == AdminInit => RestTyped
    BY AdminAssumption DEF AdminInit, RestTyped

LEMMA RestNext == ASSUME AInv, RestTyped, [AdminNext]_vars PROVE RestTyped'
<1>1. admin_ids' = admin_ids
    BY DEF AdminNext, TaskStep, Update, TaskRaises, Tick, Crash, Enter, Refuse, Authorize,
           WrongPassword, SetData, SetPhone, GetData, ClearState, ClearData, Read, Answer,
           AnswerFails, vars, gateVars
<1>2. ASSUME NEW t, Authorize(t) PROVE task[t].user \in Users
    BY <1>2 DEF Authorize, At, AInv, TaskTyped, Task
<1>3. sessions' \subseteq Users
  <2>1. \/ sessions' \subseteq sessions
        \/ \E t : Authorize(t) /\ sessions' = sessions \cup {task[t].user}
      BY DEF AdminNext, TaskStep, Update, TaskRaises, Tick, Crash, Enter, Refuse, Authorize,
             WrongPassword, SetData, SetPhone, GetData, ClearState, ClearData, Read, Answer,
             AnswerFails, vars, gateVars
  <2> QED
      BY <1>2, <2>1 DEF RestTyped
<1>4. faults' \in 0..MaxFaults
  <2>1. \/ faults' = faults
        \/ faults < MaxFaults /\ faults' = faults + 1
      BY DEF AdminNext, TaskStep, Update, TaskRaises, Tick, Crash, Enter, Refuse, Authorize,
             WrongPassword, SetData, SetPhone, GetData, ClearState, ClearData, Read, Answer,
             AnswerFails, vars
  <2> QED
      BY <2>1, AdminAssumption DEF RestTyped
<1>8. restarts' \in 0..faults'
  <2>1. \/ restarts' = restarts /\ faults' \in {faults, faults + 1}
        \/ restarts' = restarts + 1 /\ faults' = faults + 1
      BY DEF AdminNext, TaskStep, Update, TaskRaises, Tick, Crash, Enter, Refuse, Authorize,
             WrongPassword, SetData, SetPhone, GetData, ClearState, ClearData, Read, Answer,
             AnswerFails, vars, histVars
  <2> QED
      BY <2>1 DEF RestTyped
<1>5. ASSUME NEW t \in Tasks, Update(t)
      PROVE  DOMAIN task' \subseteq Tasks /\ overlapped' \subseteq Users
    BY <1>5 DEF Update, StartCommand, AdminCommand, SelectSlot, TextMessage, PanelButton, Begin,
                RestTyped
<1>6. ASSUME NEW t, TaskStep(t) \/ TaskRaises(t)
      PROVE  DOMAIN task' \subseteq DOMAIN task /\ overlapped' = overlapped
  <2>1. task \in [DOMAIN task -> Task]
      BY DEF AInv, TaskTyped
  <2>2. ASSUME NEW pc, Goto(t, pc) PROVE DOMAIN task' = DOMAIN task
      BY <2>1, <2>2 DEF Goto
  <2>3. ASSUME End(t) PROVE DOMAIN task' \subseteq DOMAIN task
      BY <2>3 DEF End
  <2>4. CASE Enter(t) \/ Refuse(t) \/ Authorize(t) \/ SetData(t) \/ SetPhone(t) \/ GetData(t)
             \/ ClearState(t) \/ ClearData(t) \/ Read(t) \/ Answer(t) \/ TaskRaises(t)
      BY <2>2, <2>3, <2>4 DEF Enter, Refuse, Authorize, SetData, SetPhone, GetData, ClearState,
             ClearData, Read, Answer, TaskRaises, NextOfSelect
  <2>5. CASE WrongPassword(t)
      BY <2>1, <2>5 DEF WrongPassword
  <2>6. CASE AnswerFails(t)
      BY <2>1, <2>3, <2>6 DEF AnswerFails
  <2> QED
      BY <1>6, <2>4, <2>5, <2>6 DEF TaskStep
<1>7. DOMAIN task' \subseteq Tasks /\ overlapped' \subseteq Users
    BY <1>5, <1>6 DEF AdminNext, Tick, Crash, vars, RestTyped
<1> QED
    BY <1>1, <1>3, <1>4, <1>7, <1>8 DEF RestTyped

(* Gate, conversation and handlers hold values of their types.             *)
THEOREM AdminTypeCorrect == AdminSpec => []AdminTypeOK
<1>1. AInv /\ GateInv /\ RestTyped => AdminTypeOK
    BY DEF AInv, GateInv, RestTyped, FsmTyped, TaskTyped, Counted, AdminTypeOK
<1> QED
    BY <1>1, AdminInvariant, GateInvariant, RestInit, RestNext, PTL DEF AdminSpec

(* check_password asks is_throttled before authorize, without an await     *)
(* between them: of all handlers of a user that run at once, and of all    *)
(* their retries, no more than MaxAttempts wrong passwords get through to  *)
(* the gate in a window, and as many again for each restart, which makes   *)
(* the gate forget them.                                                   *)
THEOREM AdminGuessesBounded == AdminSpec => []GuessesBounded
<1>1. GateInv => GuessesBounded
  <2> SUFFICES ASSUME GateInv, NEW u \in Users
               PROVE  Len(guessed[u]) <= MaxAttempts * (1 + restarts)
      BY DEF GuessesBounded
  <2>1. PICK f \in Nat : f = MaxAttempts * restarts
      BY Forgettable DEF GateInv
  <2>2. GuessOK(attempts[u], guessed[u], f)
      BY <2>1 DEF GateInv
  <2>3. /\ Len(attempts[u]) \in Nat /\ Len(guessed[u]) \in Nat /\ MaxAttempts \in Nat
        /\ Len(guessed[u]) <= Len(attempts[u]) + f
        /\ Len(attempts[u]) <= MaxAttempts
      BY <2>2, NoAttempts DEF GuessOK, InOrder
  <2>4. MaxAttempts * (1 + restarts) = MaxAttempts + f
      BY <2>1, <2>3 DEF GateInv
  <2> QED
      BY <2>3, <2>4
<1> QED
    BY <1>1, GateInvariant, PTL

(* The attempts that time makes outdated are always the first of the list: *)
(* the gate forgets these and keeps every one within the window.           *)
THEOREM AdminForgetsOutdated ==
    AdminSpec => [](\A u \in Users :
        Outdated(attempts[u]) = 1..Cardinality(Outdated(attempts[u])))
<1>1. GateInv => \A u \in Users : Outdated(attempts[u]) = 1..Cardinality(Outdated(attempts[u]))
    BY OutdatedFirst DEF GateInv, GuessOK
<1> QED
    BY <1>1, GateInvariant, PTL
===============================================================================
