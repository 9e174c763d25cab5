-------------------------------- MODULE Startup --------------------------------
(***************************************************************************)
(* The life of the process: main() of bot.py with the migrations of        *)
(* src/core/database.py, the reminder task, and the two transports.  What  *)
(* survives the process is the schema and the webhook registered at        *)
(* Telegram; docker starts the process again when it dies by itself        *)
(* (restart: unless-stopped in docker-compose.yml), and sends it SIGTERM,  *)
(* later SIGKILL, to stop it.  The image runs python as the first process  *)
(* of its container (CMD in exec form), to which the kernel delivers a     *)
(* SIGTERM only once a handler for it is installed.                        *)
(*                                                                         *)
(* The SQLite driver commits every CREATE statement by itself; only the    *)
(* INSERT of the version is in the transaction of _apply.                  *)
(***************************************************************************)
EXTENDS Naturals, FiniteSetsExt

CONSTANTS
    Versions,       \* the versions of the registered migrations
    Statements,     \* bound: statements of a migration
    MaxFaults       \* bound: crashes, and failing calls of Telegram or the database

ASSUME StartupAssumption ==
    /\ Versions \subseteq Nat
    /\ IsFiniteSet(Versions)
    /\ Statements \in Nat \ {0}
    /\ MaxFaults \in Nat

VARIABLES
    mode,           \* "webhook" when WEBHOOK_URL is set, else "polling"
    version_table,  \* does table _migrations exist
    versions,       \* the versions recorded in it
    executed,       \* per migration: how many of its statements have taken effect
    webhook,        \* is a webhook registered at Telegram
    pc,             \* where main() is
    todo, step,     \* init_database: migrations to apply, statements of the first one done
    reminders,      \* is reminder_task running
    listening,      \* is the HTTP server up
    shutdown,       \* shutdown_event
    signalled,      \* a SIGTERM to this process: "no", "ignored" or "heard"
    interrupted,    \* history: has a process been killed or crashed, or Telegram failed
                    \* it, since the webhook was last deleted at a start
    faults

schemaVars  == <<version_table, versions, executed>>
loopVars    == <<todo, step>>
processVars == <<reminders, listening, shutdown>>
vars == <<mode, schemaVars, webhook, pc, loopVars, processVars, signalled, interrupted, faults>>

Booting == {"read", "apply"}
Polling == {"poll", "half"}
Running == Booting \cup Polling
           \cup {"listen", "drop", "hook", "serve", "unhook", "close", "cancel"}

StartupInit ==
    /\ mode \in {"webhook", "polling"}
    /\ version_table = FALSE
    /\ versions = {}
    /\ executed = [v \in Versions |-> 0]
    /\ webhook = FALSE
    /\ pc = "down"
    /\ todo = {}
    /\ step = 0
    /\ reminders = FALSE
    /\ listening = FALSE
    /\ shutdown = FALSE
    /\ signalled = "no"
    /\ interrupted = FALSE
    /\ faults = 0

Fault == faults < MaxFaults /\ faults' = faults + 1

(* The process is gone, with all it had in memory. *)
Gone ==
    /\ pc' = IF signalled = "no" THEN "down" ELSE "exited"
    /\ reminders' = FALSE
    /\ listening' = FALSE
    /\ shutdown' = FALSE
    /\ todo' = {}
    /\ step' = 0
-------------------------------------------------------------------------------
(* docker starts a process that died; an operator one that was stopped,    *)
(* with or without WEBHOOK_URL in its environment.                         *)
Boot ==
    /\ pc = "down"
    /\ pc' = "read"
    /\ UNCHANGED <<mode, schemaVars, webhook, loopVars, processVars, signalled, interrupted, faults>>

StartAgain ==
    /\ pc = "exited"
    /\ pc' = "down"
    /\ mode' \in {"webhook", "polling"}
    /\ signalled' = "no"
    /\ UNCHANGED <<schemaVars, webhook, loopVars, processVars, interrupted, faults>>

(* _applied_versions: a SELECT that raises is taken for a missing table. *)
ReadVersions ==
    /\ pc = "read"
    /\ version_table' = TRUE
    /\ todo' = Versions \ versions
    /\ pc' = "apply"
    /\ UNCHANGED <<mode, versions, executed, webhook, step, processVars, signalled, interrupted, faults>>

ReadFails ==
    /\ pc = "read"
    /\ Fault
    /\ version_table' = TRUE
    /\ todo' = Versions
    /\ pc' = "apply"
    /\ UNCHANGED <<mode, versions, executed, webhook, step, processVars, signalled, interrupted>>

(* registry.migrations is sorted by version. *)
CurrentUnsorted == Max(todo)
Current == Min(todo)

(* CREATE ... IF NOT EXISTS is content with what an earlier try left. *)
ToleratesNothing(v, i) == executed[v] < i
Tolerates(v, i) == TRUE

MoreStatements == step < Statements

Execute ==
    /\ pc = "apply"
    /\ todo # {}
    /\ MoreStatements
    /\ IF Tolerates(Current, step + 1)
       THEN /\ executed' = [executed EXCEPT ![Current] = IF @ > step THEN @ ELSE step + 1]
            /\ step' = step + 1
            /\ UNCHANGED <<pc, todo, processVars>>
       ELSE Gone /\ UNCHANGED executed
    /\ UNCHANGED <<mode, version_table, versions, webhook, signalled, interrupted, faults>>

(* The version goes in after the statements; a second time it breaks the   *)
(* primary key, and main() dies of the IntegrityError.                     *)
RecordableEarly == TRUE
Recordable == step = Statements

Record ==
    /\ pc = "apply"
    /\ todo # {}
    /\ Recordable
    /\ IF Current \in versions
       THEN Gone /\ UNCHANGED versions
       ELSE /\ versions' = versions \cup {Current}
            /\ todo' = todo \ {Current}
            /\ step' = 0
            /\ UNCHANGED <<pc, processVars>>
    /\ UNCHANGED <<mode, version_table, executed, webhook, signalled, interrupted, faults>>
-------------------------------------------------------------------------------
(* init_database has been through its list; a failing one ends main().     *)
ScheduleEarly == pc = "apply"
ScheduleSwallowed ==
    pc = "apply" /\ (todo = {} \/ (step = Statements /\ Current \in versions))
ScheduleReady == pc = "apply" /\ todo = {}

(* reminder_task is created once the database is ready, the signal         *)
(* handlers are installed, and the transport starts: webhook mode with its *)
(* server, polling with delete_webhook.                                    *)
ScheduleReminders ==
    /\ ScheduleReady
    /\ reminders' = TRUE
    /\ pc' = IF mode = "webhook" THEN "listen" ELSE "drop"
    /\ UNCHANGED <<mode, schemaVars, webhook, loopVars, listening, shutdown, signalled, interrupted, faults>>

(* site.start(), in polling start_metrics_server. *)
Listen ==
    /\ pc = "listen"
    /\ listening' = TRUE
    /\ pc' = IF mode = "webhook" THEN "drop" ELSE "poll"
    /\ UNCHANGED <<mode, schemaVars, webhook, loopVars, reminders, shutdown, signalled, interrupted, faults>>

(* delete_webhook(drop_pending_updates=True), in both modes; in webhook    *)
(* mode then set_webhook.                                                  *)
DroppedByWebhookOnly == webhook /\ mode = "polling"
Dropped == FALSE

DropPending ==
    /\ pc = "drop"
    /\ webhook' = Dropped
    /\ interrupted' = FALSE
    /\ pc' = IF mode = "webhook" THEN "hook" ELSE "listen"
    /\ UNCHANGED <<mode, schemaVars, loopVars, processVars, signalled, faults>>

HookForgotten == webhook
Hooked == TRUE

SetWebhook ==
    /\ pc = "hook"
    /\ webhook' = Hooked
    /\ pc' = "serve"
    /\ UNCHANGED <<mode, schemaVars, loopVars, processVars, signalled, interrupted, faults>>

(* shutdown_event.wait() returns; finally: delete_webhook, cleanup. *)
Waited ==
    /\ pc = "serve"
    /\ shutdown
    /\ pc' = "unhook"
    /\ UNCHANGED <<mode, schemaVars, webhook, loopVars, processVars, signalled, interrupted, faults>>

UnhookedNot == webhook
Unhooked == FALSE

DeleteWebhook ==
    /\ pc = "unhook"
    /\ webhook' = Unhooked
    /\ pc' = "close"
    /\ UNCHANGED <<mode, schemaVars, loopVars, processVars, signalled, interrupted, faults>>

Cleanup ==
    /\ pc = "close"
    /\ listening' = FALSE
    /\ pc' = "cancel"
    /\ UNCHANGED <<mode, schemaVars, webhook, loopVars, reminders, shutdown, signalled, interrupted, faults>>

(* The finally of main(): reminder_task is cancelled and awaited.  Only a  *)
(* stop and an exception lead here, and an exception ends in a restart.    *)
CancelReminders ==
    /\ pc = "cancel"
    /\ Gone
    /\ UNCHANGED <<mode, schemaVars, webhook, signalled, interrupted, faults>>

(* Telegram does not answer, whether or not it did what it was asked: the  *)
(* exception leaves _run_webhook or _run_polling, from the finally block   *)
(* too, and the rest of it is skipped.                                     *)
TelegramFails ==
    /\ pc \in {"drop", "hook", "unhook"}
    /\ Fault
    /\ webhook' \in {webhook, pc = "hook"}
    /\ interrupted' = TRUE
    /\ pc' = "cancel"
    /\ UNCHANGED <<mode, schemaVars, loopVars, processVars, signalled>>
-------------------------------------------------------------------------------
(* SIGTERM, once or again.  Before the handlers are installed it is        *)
(* ignored, and main() goes on to serve.  The handlers set the event; but  *)
(* start_polling replaces them by its own, which end the polling and leave *)
(* the event alone.                                                        *)
SetByLate == pc = "serve"
SetBySignal == pc \notin Polling

Signal ==
    /\ pc \in Running
    /\ IF pc \in Booting
       THEN /\ signalled' = "ignored"
            /\ UNCHANGED <<pc, shutdown>>
       ELSE /\ signalled' = "heard"
            /\ shutdown' = (shutdown \/ SetBySignal)
            /\ pc' = IF pc = "poll" THEN "half" ELSE pc
    /\ UNCHANGED <<mode, schemaVars, webhook, loopVars, reminders, listening, interrupted, faults>>

(* The polling task ends in an exception of its own: main() waits on. *)
PollingFails ==
    /\ pc = "poll"
    /\ Fault
    /\ pc' = "half"
    /\ UNCHANGED <<mode, schemaVars, webhook, loopVars, processVars, signalled, interrupted>>

(* asyncio.wait waits for the polling task and for the event, both; then   *)
(* dp.stop_polling() of what is stopped raises, into the finally of main().*)
PollingWaited ==
    /\ pc = "half"
    /\ shutdown
    /\ pc' = "cancel"
    /\ UNCHANGED <<mode, schemaVars, webhook, loopVars, processVars, signalled, interrupted, faults>>

(* docker's SIGKILL to a process that has not ended within ten seconds of  *)
(* the SIGTERM, wherever it is by then.                                    *)
Kill ==
    /\ pc \in Running
    /\ signalled # "no"
    /\ Gone
    /\ interrupted' = TRUE
    /\ UNCHANGED <<mode, schemaVars, webhook, signalled, faults>>

Crash ==
    /\ pc \in Running
    /\ Fault
    /\ Gone
    /\ interrupted' = TRUE
    /\ UNCHANGED <<mode, schemaVars, webhook, signalled>>

MainStep ==
    \/ Boot \/ ReadVersions \/ Execute \/ Record \/ ScheduleReminders
    \/ Listen \/ DropPending \/ SetWebhook \/ Waited \/ DeleteWebhook \/ Cleanup
    \/ PollingWaited \/ CancelReminders

StartupNext ==
    \/ MainStep
    \/ StartAgain \/ Signal \/ Kill
    \/ ReadFails \/ TelegramFails \/ PollingFails \/ Crash

StartupSpec == StartupInit /\ [][StartupNext]_vars

(* main() goes on, and docker restarts it: MainStep is fair.  Operators,   *)
(* signals and faults owe nothing.                                         *)
FairStartupSpec == StartupSpec /\ WF_vars(MainStep)
-------------------------------------------------------------------------------
Complete == \A v \in Versions : executed[v] = Statements
Serving  == pc \in {"serve"} \cup Polling

(* Schema, Telegram's side and the process hold values of their types; and *)
(* main() leaves init_database only when it has applied its whole list.    *)
StartupTypeOK ==
    /\ mode \in {"webhook", "polling"}
    /\ version_table \in BOOLEAN
    /\ versions \subseteq Versions
    /\ executed \in [Versions -> 0..Statements]
    /\ webhook \in BOOLEAN
    /\ pc \in Running \cup {"down", "exited"}
    /\ todo \subseteq Versions
    /\ step \in 0..Statements
    /\ pc # "apply" => todo = {} /\ step = 0
    /\ reminders \in BOOLEAN
    /\ listening \in BOOLEAN
    /\ shutdown \in BOOLEAN
    /\ signalled \in {"no", "ignored", "heard"}
    /\ interrupted \in BOOLEAN
    /\ faults \in 0..MaxFaults

(* A recorded version was applied to the last statement, and so were all   *)
(* before it, wherever earlier processes died: no boot skips a migration   *)
(* that is half done.                                                      *)
VersionMeansApplied ==
    \A v \in versions : \A w \in Versions : w <= v => executed[w] = Statements

(* The reminder loop, and whatever serves updates, run on the whole schema.*)
SchemaBeforeService == reminders \/ listening => Complete

(* A process that waits for its stop in webhook mode can be reached: the   *)
(* server is up, Telegram knows it, and the reminders tick beside it.      *)
ServingIsReachable == pc = "serve" => listening /\ webhook /\ reminders

(* A stopped bot leaves nothing behind at Telegram, and a webhook is never *)
(* registered for a server that is down: only a crash, a SIGKILL or a call *)
(* of Telegram that fails leaves one, and no longer than until the next    *)
(* process gets to its delete_webhook.                                     *)
NoOrphanWebhook == webhook /\ ~interrupted => listening

(* Telegram refuses getUpdates while a webhook is registered: whatever a   *)
(* killed or crashed process in webhook mode left behind is removed before *)
(* the bot polls.                                                          *)
PollingIsAlone == pc \in Polling => ~webhook

(* However often the process dies in the middle of its migrations, it      *)
(* comes to serve, unless it is stopped.                                   *)
BootRecovers == pc = "read" ~> (Serving \/ pc = "exited")

(* In webhook mode a stop that main() hears ends the process by itself,    *)
(* wherever main() is, and does not wait for docker's SIGKILL.             *)
StopEndsProcess == (mode = "webhook" /\ signalled = "heard") ~> pc = "exited"
===============================================================================
