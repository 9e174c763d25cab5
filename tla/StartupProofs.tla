----------------------------- MODULE StartupProofs -----------------------------
(***************************************************************************)
(* Theorems about the boots of Startup, for every set of migrations, every *)
(* number of statements and every number of faults.                        *)
(*                                                                         *)
(* That a version is recorded is worth something only because of the order *)
(* of the migrations: while one is applied, all that are not to be done    *)
(* any more are complete, and those include all before it.  The order is   *)
(* the least element of what is to do, which a finite set of numbers has.  *)
(***************************************************************************)
EXTENDS Startup, FiniteSetTheorems, TLAPS

(* registry.migrations is sorted: the first migration to do is the least   *)
(* one.  There is one: the smaller versions are a subset of those of any other version,  *)
(* and strict inclusion of finite sets is well-founded.                    *)
LEMMA LeastOf ==
    ASSUME NEW S, S \subseteq Versions, S # {}
    PROVE  Min(S) \in S /\ \A v \in S : Min(S) <= v
<1> DEFINE Below(v) == {w \in S : w < v}
           T == {Below(v) : v \in S}
<1>1. IsFiniteSet(S) /\ S \subseteq Nat
    BY FS_Subset, StartupAssumption
<1>2. IsWellFoundedOn(StrictSubsetOrdering(S), SUBSET S)
    BY <1>1, FS_StrictSubsetOrderingWellFounded, FS_FiniteSubsetsOfFinite
<1>3. PICK B \in T : \A C \in T : ~(<<C, B>> \in StrictSubsetOrdering(S))
  <2>1. T \subseteq SUBSET S /\ T # {}
      OBVIOUS
  <2> HIDE DEF T
  <2> QED
      BY <1>2, <2>1, WFMin
<1>4. PICK v \in S : B = Below(v)
    BY <1>3
<1>5. \A w \in S : v <= w
  <2> SUFFICES ASSUME NEW w \in S, w < v PROVE FALSE
      BY <1>1
  <2>1. ASSUME NEW x \in Below(w) PROVE x \in Below(v)
    <3>1. x \in S /\ x < w
        OBVIOUS
    <3>2. x \in Nat /\ w \in Nat /\ v \in Nat
        BY <1>1, <3>1
    <3> QED
        BY <3>1, <3>2
  <2>2. w \in Below(v) /\ w \notin Below(w)
      BY <1>1
  <2>3. <<Below(w), Below(v)>> \in StrictSubsetOrdering(S)
      BY <2>1, <2>2 DEF StrictSubsetOrdering
  <2> QED
      BY <1>3, <1>4, <2>3
<1> QED
    BY <1>1, <1>5 DEF Min
-------------------------------------------------------------------------------
Done(v) == executed[v] = Statements

(* The migrations that are not to be done are complete, and the current    *)
(* one has taken effect as far as the loop has come.                       *)
Applying ==
    /\ pc = "apply" => \A v \in Versions \ todo : Done(v)
    /\ pc = "apply" /\ todo # {} => step <= executed[Current]
    /\ pc # "apply" \/ todo = {} => step = 0

(* Past the migrations the schema is whole; before them nothing runs.      *)
AfterBoot ==
    /\ pc \notin {"down", "exited"} \cup Booting => Complete
    /\ pc \in {"down", "exited"} \cup Booting => ~reminders /\ ~listening

(* What the transports have set up by each of their awaits.                *)
Transport ==
    /\ pc \in {"listen", "drop", "hook", "serve"} => reminders
    /\ pc \in {"hook", "serve"} => listening
    /\ pc = "drop" /\ mode = "webhook" => listening
    /\ pc = "serve" => webhook
    /\ pc \in {"hook", "serve", "unhook", "close"} => mode = "webhook"
    /\ pc \in Polling => mode = "polling"
    /\ pc = "unhook" => listening
    /\ pc \in {"listen"} \cup Polling /\ mode = "polling" => ~webhook

(* If nothing went wrong since the last delete_webhook of a start, then a  *)
(* webhook is registered from set_webhook to the delete_webhook of the     *)
(* stop, and at no other time.                                             *)
HookWindow == webhook /\ ~interrupted => pc \in {"serve", "unhook"}

UInv ==
    /\ StartupTypeOK
    /\ Applying
    /\ VersionMeansApplied
    /\ AfterBoot
    /\ Transport
    /\ HookWindow

LEMMA UInit == StartupInit => UInv
<1> SUFFICES ASSUME StartupInit PROVE UInv
    OBVIOUS
<1>1. StartupTypeOK
  <2>1. 0 \in 0..Statements /\ 0 \in 0..MaxFaults
      BY StartupAssumption
  <2>2. executed \in [Versions -> 0..Statements]
      BY <2>1 DEF StartupInit
  <2> QED
      BY <2>1, <2>2 DEF StartupInit, StartupTypeOK
<1>2. Applying /\ VersionMeansApplied
    BY DEF StartupInit, Applying, VersionMeansApplied
<1>3. AfterBoot /\ Transport /\ HookWindow
    BY DEF StartupInit, AfterBoot, Transport, HookWindow, Polling
<1> QED
    BY <1>1, <1>2, <1>3 DEF UInv

(* Outside the loop over the migrations nothing touches the schema.        *)
LEMMA SchemaStays ==
    ASSUME UInv, UNCHANGED <<versions, executed>>, pc' # "apply",
           StartupTypeOK', AfterBoot', Transport', HookWindow', step' = 0
    PROVE  UInv'
<1>1. Applying'
    BY DEF Applying
<1>2. VersionMeansApplied'
    BY DEF UInv, VersionMeansApplied
<1> QED
    BY <1>1, <1>2 DEF UInv

LEMMA StartKeeps == UInv /\ (Boot \/ StartAgain) => UInv'
<1> SUFFICES ASSUME UInv, Boot \/ StartAgain PROVE UInv'
    OBVIOUS
<1> USE DEF UInv, Boot, StartAgain, Booting, Polling, Running, Complete,
        schemaVars, loopVars, processVars
<1>1. StartupTypeOK'
    BY DEF StartupTypeOK
<1>2. AfterBoot' /\ Transport' /\ HookWindow'
    BY DEF AfterBoot, Transport, HookWindow
<1>3. step' = 0 /\ UNCHANGED <<versions, executed>> /\ pc' # "apply"
    BY DEF Applying
<1> QED
    BY <1>1, <1>2, <1>3, SchemaStays

(* Reading the versions: what is not to be done is recorded, so applied. *)
LEMMA ReadKeeps == UInv /\ (ReadVersions \/ ReadFails) => UInv'
<1> SUFFICES ASSUME UInv, ReadVersions \/ ReadFails PROVE UInv'
    OBVIOUS
<1> USE DEF UInv, ReadVersions, ReadFails, Fault, Booting, Polling, Running, Complete,
        schemaVars, loopVars, processVars
<1>1. StartupTypeOK'
  <2>1. faults' \in 0..MaxFaults
      BY StartupAssumption DEF StartupTypeOK
  <2>2. pc' = "apply" /\ version_table' = TRUE /\ todo' \subseteq Versions
      BY DEF StartupTypeOK
  <2> QED
      BY <2>1, <2>2 DEF StartupTypeOK
<1>2. AfterBoot' /\ Transport' /\ HookWindow'
    BY DEF AfterBoot, Transport, HookWindow, StartupTypeOK
<1>3. /\ todo' \in {Versions, Versions \ versions} /\ todo' \subseteq Versions
      /\ step' = 0
      /\ UNCHANGED <<versions, executed>>
    BY DEF Applying
<1>4. \A v \in Versions \ todo' : executed'[v] = Statements
    BY <1>3, StartupAssumption DEF VersionMeansApplied
<1>5. todo' # {} => step' <= executed'[Current']
  <2> SUFFICES ASSUME todo' # {} PROVE step' <= executed'[Current']
      OBVIOUS
  <2>1. Current' \in Versions
      BY <1>3, LeastOf DEF Current
  <2> QED
      BY <1>1, <1>3, <2>1, StartupAssumption DEF StartupTypeOK
<1>6. Applying'
    BY <1>3, <1>4, <1>5 DEF Applying, Done
<1> QED
    BY <1>1, <1>2, <1>3, <1>6 DEF VersionMeansApplied

(* A statement: no migration takes a step back, and the current one comes  *)
(* as far as the loop. *)
LEMMA ExecuteKeeps == UInv /\ Execute => UInv'
<1> SUFFICES ASSUME UInv, Execute PROVE UInv'
    OBVIOUS
<1>1. /\ pc = "apply" /\ todo # {} /\ todo \subseteq Versions
      /\ step \in 0..Statements /\ step < Statements
      /\ step' = step + 1
      /\ executed \in [Versions -> 0..Statements]
      /\ executed' = [executed EXCEPT ![Current] = IF @ > step THEN @ ELSE step + 1]
      /\ UNCHANGED <<pc, todo, processVars, mode, version_table, versions, webhook, signalled,
                     interrupted, faults>>
    BY DEF UInv, StartupTypeOK, Execute, MoreStatements, Tolerates
<1>2. Current \in todo /\ Current \in Versions
    BY <1>1, LeastOf DEF Current
<1>3. Current' = Current
    BY <1>1 DEF Current
<1>4. /\ executed' \in [Versions -> 0..Statements]
      /\ step' \in 0..Statements
      /\ executed'[Current] >= step'
      /\ \A v \in Versions : Done(v) => executed'[v] = Statements
  <2> HIDE DEF Current
  <2> DEFINE e == IF executed[Current] > step THEN executed[Current] ELSE step + 1
  <2>1. /\ executed[Current] \in 0..Statements
        /\ step \in 0..Statements /\ step < Statements /\ step' = step + 1
      BY <1>1, <1>2
  <2>2. /\ e \in 0..Statements
        /\ e >= step + 1
        /\ executed[Current] = Statements => e = Statements
      BY <2>1, StartupAssumption
  <2>3. executed' = [executed EXCEPT ![Current] = e]
      BY <1>1
  <2> HIDE DEF e
  <2>4. /\ executed' \in [Versions -> 0..Statements]
        /\ executed'[Current] = e
        /\ \A v \in Versions : v # Current => executed'[v] = executed[v]
      BY <1>1, <1>2, <2>2, <2>3
  <2>5. step' \in 0..Statements /\ executed'[Current] >= step'
      BY <2>1, <2>2, <2>4, StartupAssumption
  <2> QED
      BY <1>2, <2>2, <2>4, <2>5 DEF Done
<1>5. StartupTypeOK'
    BY <1>1, <1>4 DEF UInv, StartupTypeOK, processVars
<1>6. Applying'
    BY <1>1, <1>3, <1>4 DEF UInv, Applying, Done
<1>7. VersionMeansApplied'
    BY <1>1, <1>4 DEF UInv, VersionMeansApplied, Done
<1>8. AfterBoot' /\ Transport' /\ HookWindow'
    BY <1>1 DEF UInv, AfterBoot, Transport, HookWindow, processVars, Polling, Booting
<1> QED
    BY <1>5, <1>6, <1>7, <1>8 DEF UInv

(* The process is gone: what is left is the schema, and Telegram's side.   *)
LEMMA GoneKeeps ==
    ASSUME UInv, Gone, UNCHANGED <<mode, schemaVars, webhook, signalled>>,
           faults' \in 0..MaxFaults, interrupted' \in BOOLEAN,
           webhook => interrupted'
    PROVE  UInv'
<1>1. pc' \in {"down", "exited"} /\ todo' = {} /\ step' = 0
      /\ reminders' = FALSE /\ listening' = FALSE /\ shutdown' = FALSE
    BY DEF Gone
<1>2. StartupTypeOK'
  <2>1. 0 \in 0..Statements
      BY StartupAssumption
  <2> QED
      BY <1>1, <2>1 DEF UInv, StartupTypeOK, schemaVars
<1>3. AfterBoot' /\ Transport' /\ HookWindow'
    BY <1>1 DEF AfterBoot, Transport, HookWindow, Polling, Booting
<1> QED
    BY <1>1, <1>2, <1>3, SchemaStays DEF schemaVars

(* The version is recorded: the migration is complete, and all before it   *)
(* are not to be done any more. *)
LEMMA RecordKeeps == UInv /\ Record => UInv'
<1> SUFFICES ASSUME UInv, Record PROVE UInv'
    OBVIOUS
<1>1. CASE Current \in versions
    BY <1>1, GoneKeeps DEF Record, UInv, StartupTypeOK, HookWindow, schemaVars
<1>2. CASE Current \notin versions
  <2>1. /\ pc = "apply" /\ todo # {} /\ todo \subseteq Versions
        /\ step = Statements
        /\ versions' = versions \cup {Current}
        /\ todo' = todo \ {Current}
        /\ step' = 0
        /\ UNCHANGED <<pc, processVars, mode, version_table, executed, webhook, signalled,
                       interrupted, faults>>
      BY <1>2 DEF UInv, StartupTypeOK, Record, Recordable
  <2>2. Current \in todo /\ Current \in Versions /\ \A v \in todo : Current <= v
      BY <2>1, LeastOf DEF Current
  <2>3. /\ executed \in [Versions -> 0..Statements]
        /\ \A v \in Versions \ todo : executed[v] = Statements
        /\ Statements <= executed[Current]
      BY <2>1 DEF UInv, StartupTypeOK, Applying, Done
  <2> HIDE DEF Current
  <2>4. executed[Current] = Statements
      BY <2>2, <2>3, StartupAssumption
  <2>5. \A w \in Versions : w <= Current => executed[w] = Statements
    <3> SUFFICES ASSUME NEW w \in Versions, w <= Current, w \in todo
                 PROVE  executed[w] = Statements
        BY <2>3
    <3>1. w = Current
        BY <2>2, StartupAssumption
    <3> QED
        BY <2>4, <3>1
  <2>6. StartupTypeOK'
      BY <2>1, <2>2, StartupAssumption DEF UInv, StartupTypeOK, processVars
  <2>7. VersionMeansApplied'
      BY <2>1, <2>5 DEF UInv, VersionMeansApplied
  <2>8. Applying'
    <3>1. \A v \in Versions \ todo' : executed'[v] = Statements
        BY <2>1, <2>3, <2>4
    <3>2. todo' # {} => 0 <= executed'[Current']
      <4> SUFFICES ASSUME todo' # {} PROVE 0 <= executed'[Current']
          OBVIOUS
      <4>1. Current' \in Versions
          BY <2>1, LeastOf DEF Current
      <4> QED
          BY <2>1, <2>3, <4>1, StartupAssumption
    <3> QED
        BY <2>1, <3>1, <3>2 DEF Applying, Done
  <2>9. AfterBoot' /\ Transport' /\ HookWindow'
      BY <2>1 DEF UInv, AfterBoot, Transport, HookWindow, processVars, Polling, Booting
  <2> QED
      BY <2>6, <2>7, <2>8, <2>9 DEF UInv
<1> QED
    BY <1>1, <1>2

(* The migrations are done: nothing is left that is not complete. *)
LEMMA ScheduleKeeps == UInv /\ ScheduleReminders => UInv'
<1> SUFFICES ASSUME UInv, ScheduleReminders PROVE UInv'
    OBVIOUS
<1> USE DEF UInv, ScheduleReminders, ScheduleReady, Booting, Polling, Running,
        schemaVars, loopVars
<1>1. StartupTypeOK'
  <2>1. todo = {} /\ step = 0
      BY DEF Applying
  <2> QED
      BY <2>1 DEF StartupTypeOK
<1>2. Complete'
    BY DEF Complete, Applying, Done
<1>3. AfterBoot' /\ Transport' /\ HookWindow'
    BY <1>2 DEF AfterBoot, Transport, HookWindow, StartupTypeOK
<1>4. step' = 0 /\ UNCHANGED <<versions, executed>> /\ pc' # "apply"
    BY DEF Applying
<1> QED
    BY <1>1, <1>3, <1>4, SchemaStays

(* The server, and the two calls that set the webhook up: the first of     *)
(* them removes what an earlier process left.                              *)
LEMMA ListenKeeps == UInv /\ (Listen \/ DropPending \/ SetWebhook) => UInv'
<1> SUFFICES ASSUME UInv, Listen \/ DropPending \/ SetWebhook PROVE UInv'
    OBVIOUS
<1> USE DEF UInv, Listen, DropPending, SetWebhook, Hooked, Booting, Polling, Running,
        Dropped, Complete, schemaVars, loopVars, processVars
<1>1. StartupTypeOK'
    BY StartupAssumption DEF StartupTypeOK
<1>2. AfterBoot' /\ Transport' /\ HookWindow'
    BY DEF AfterBoot, Transport, HookWindow, StartupTypeOK
<1>3. step' = 0 /\ UNCHANGED <<versions, executed>> /\ pc' # "apply"
    BY DEF Applying
<1> QED
    BY <1>1, <1>2, <1>3, SchemaStays

(* The awaits of a stop. *)
LEMMA StopKeeps == UInv /\ (Waited \/ DeleteWebhook \/ Cleanup) => UInv'
<1> SUFFICES ASSUME UInv, Waited \/ DeleteWebhook \/ Cleanup PROVE UInv'
    OBVIOUS
<1> USE DEF UInv, Waited, DeleteWebhook, Cleanup, Unhooked, Booting, Polling, Running,
        Complete, schemaVars, loopVars, processVars
<1>1. StartupTypeOK'
    BY StartupAssumption DEF StartupTypeOK
<1>2. AfterBoot' /\ Transport' /\ HookWindow'
    BY DEF AfterBoot, Transport, HookWindow, StartupTypeOK
<1>3. step' = 0 /\ UNCHANGED <<versions, executed>> /\ pc' # "apply"
    BY DEF Applying
<1> QED
    BY <1>1, <1>2, <1>3, SchemaStays

(* Telegram or the polling task fails. *)
LEMMA FailKeeps == UInv /\ (TelegramFails \/ PollingFails \/ PollingWaited) => UInv'
<1> SUFFICES ASSUME UInv, TelegramFails \/ PollingFails \/ PollingWaited PROVE UInv'
    OBVIOUS
<1> USE DEF UInv, TelegramFails, PollingFails, PollingWaited, Fault, Booting, Polling, Running,
        Complete, schemaVars, loopVars, processVars
<1>1. StartupTypeOK'
  <2>1. faults' \in 0..MaxFaults
      BY StartupAssumption DEF StartupTypeOK
  <2>2. pc' \in {"cancel", "half"} /\ webhook' \in BOOLEAN
      BY DEF StartupTypeOK
  <2> QED
      BY <2>1, <2>2 DEF StartupTypeOK
<1>2. AfterBoot' /\ Transport' /\ HookWindow'
    BY DEF AfterBoot, Transport, HookWindow, StartupTypeOK
<1>3. step' = 0 /\ UNCHANGED <<versions, executed>> /\ pc' # "apply"
    BY DEF Applying
<1> QED
    BY <1>1, <1>2, <1>3, SchemaStays

(* The ends of the process. *)
LEMMA EndKeeps == UInv /\ (CancelReminders \/ Kill \/ Crash) => UInv'
<1> SUFFICES ASSUME UInv, CancelReminders \/ Kill \/ Crash PROVE UInv'
    OBVIOUS
<1>1. /\ Gone
      /\ UNCHANGED <<mode, schemaVars, webhook, signalled>>
    BY DEF CancelReminders, Kill, Crash
<1>2. interrupted' \in BOOLEAN
    BY DEF CancelReminders, Kill, Crash, UInv, StartupTypeOK
<1>3. faults' \in 0..MaxFaults
  <2>1. faults \in 0..MaxFaults
      BY DEF UInv, StartupTypeOK
  <2>2. faults' = faults \/ (faults < MaxFaults /\ faults' = faults + 1)
      BY DEF CancelReminders, Kill, Crash, Fault
  <2> QED
      BY <2>1, <2>2, StartupAssumption
<1>4. webhook => interrupted'
  <2>1. CASE CancelReminders
    <3>1. pc \notin {"serve", "unhook"} /\ interrupted' = interrupted
        BY <2>1 DEF CancelReminders
    <3> QED
        BY <3>1 DEF UInv, HookWindow
  <2>2. CASE Kill \/ Crash
      BY <2>2 DEF Kill, Crash
  <2> QED
      BY <2>1, <2>2
<1> QED
    BY <1>1, <1>2, <1>3, <1>4, GoneKeeps

(* A SIGTERM changes nothing of a boot, and is noted by everything after it. *)
LEMMA SignalKeeps == UInv /\ Signal => UInv'
<1> SUFFICES ASSUME UInv, Signal PROVE UInv'
    OBVIOUS
<1>1. CASE pc \in Booting
  <2>1. /\ signalled' = "ignored"
        /\ UNCHANGED <<pc, todo, step, mode, version_table, versions, executed, webhook,
                       reminders, listening, shutdown, interrupted, faults>>
      BY <1>1 DEF Signal, schemaVars, loopVars
  <2>2. StartupTypeOK'
      BY <2>1 DEF UInv, StartupTypeOK
  <2>3. Applying' /\ VersionMeansApplied'
      BY <2>1 DEF UInv, Applying, VersionMeansApplied, Done, Current
  <2>4. AfterBoot' /\ Transport' /\ HookWindow'
      BY <2>1 DEF UInv, AfterBoot, Transport, HookWindow, Complete
  <2> QED
      BY <2>2, <2>3, <2>4 DEF UInv
<1>2. CASE pc \notin Booting
  <2>1. /\ pc' = IF pc = "poll" THEN "half" ELSE pc
        /\ pc \in Running
        /\ signalled' = "heard"
        /\ shutdown' = (shutdown \/ SetBySignal)
        /\ UNCHANGED <<todo, step, mode, version_table, versions, executed, webhook, reminders,
                       listening, interrupted, faults>>
      BY <1>2 DEF Signal, schemaVars, loopVars
  <2>2. StartupTypeOK'
    <3>1. shutdown' \in BOOLEAN
        BY <2>1
    <3>2. pc' \in Running
        BY <2>1 DEF Running, Polling
    <3> QED
        BY <2>1, <3>1, <3>2 DEF UInv, StartupTypeOK
  <2>3. AfterBoot' /\ Transport' /\ HookWindow'
      BY <1>2, <2>1 DEF UInv, AfterBoot, Transport, HookWindow, Booting, Polling, Complete
  <2>4. step' = 0 /\ pc' # "apply"
      BY <1>2, <2>1 DEF UInv, Applying, Booting
  <2> QED
      BY <2>1, <2>2, <2>3, <2>4, SchemaStays
<1> QED
    BY <1>1, <1>2

LEMMA StillKeeps == UInv /\ UNCHANGED vars => UInv'
    BY DEF UInv, StartupTypeOK, Applying, VersionMeansApplied, AfterBoot, Transport, HookWindow,
           Done, Complete, Current, vars, schemaVars, loopVars, processVars
-------------------------------------------------------------------------------
LEMMA StartupInvariant == StartupSpec => []UInv
<1>1. UInv /\ [StartupNext]_vars => UInv'
    BY StartKeeps, ReadKeeps, ExecuteKeeps, RecordKeeps, ScheduleKeeps, ListenKeeps, StopKeeps,
       FailKeeps, EndKeeps, SignalKeeps, StillKeeps DEF StartupNext, MainStep
<1> QED
    BY UInit, <1>1, PTL DEF StartupSpec

(* Schema, Telegram's side and the process hold values of their types.     *)
THEOREM StartupTypeCorrect == StartupSpec => []StartupTypeOK
<1>1. UInv => StartupTypeOK
    BY DEF UInv
<1> QED
    BY StartupInvariant, <1>1, PTL

(* A version recorded by _apply is of a migration that is complete, as are *)
(* all before it, wherever earlier processes died (database.py). *)
THEOREM StartupVersionMeansApplied == StartupSpec => []VersionMeansApplied
<1>1. UInv => VersionMeansApplied
    BY DEF UInv
<1> QED
    BY StartupInvariant, <1>1, PTL

(* The reminder task and the server, or the polling, run on the whole      *)
(* schema (main() of bot.py). *)
THEOREM StartupSchemaBeforeService == StartupSpec => []SchemaBeforeService
<1>1. UInv => SchemaBeforeService
    BY DEF UInv, AfterBoot, SchemaBeforeService
<1> QED
    BY StartupInvariant, <1>1, PTL

(* In webhook mode a process that waits for its stop is reachable: the     *)
(* server is up, Telegram knows it, the reminders run (_run_webhook).      *)
THEOREM StartupServingIsReachable == StartupSpec => []ServingIsReachable
<1>1. UInv => ServingIsReachable
    BY DEF UInv, Transport, HookWindow, ServingIsReachable
<1> QED
    BY StartupInvariant, <1>1, PTL

(* Nothing but a crash, a SIGKILL or a failing call of Telegram makes a    *)
(* webhook outlive its server (_run_webhook), whatever signals come during *)
(* the boot; and what such an interruption leaves is gone when the next    *)
(* process has deleted it. *)
THEOREM StartupNoOrphanWebhook == StartupSpec => []NoOrphanWebhook
<1>1. UInv => NoOrphanWebhook
    BY DEF UInv, Transport, HookWindow, NoOrphanWebhook
<1> QED
    BY StartupInvariant, <1>1, PTL

(* _run_polling polls after a delete_webhook, so that no webhook of an     *)
(* earlier process, killed or crashed in webhook mode, is in its way.      *)
THEOREM StartupPollingIsAlone == StartupSpec => []PollingIsAlone
<1>1. UInv => PollingIsAlone
    BY DEF UInv, Transport, PollingIsAlone
<1> QED
    BY StartupInvariant, <1>1, PTL
===============================================================================
