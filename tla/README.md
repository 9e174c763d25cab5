# Verification of the BotKit booking bot

This directory holds the TLA+ specifications of the booking bot in `src/`, the TLC
configurations that check them on small instances, and the theorems that TLAPS proves
about them for every instance. `PROJECT.json` says, definition by definition, which
lines of the source each one stands for.

To repeat a run: `tlc -config MCBookingStore.cfg MCBookingStore.tla`. To repeat the
proofs: `tlapm M.tla` for each of `BookingStoreProofs`, `BookingBotProofs`,
`OneReminderProofs`, `ReminderSchedulerProofs`, `ThrottleProofs`, `AdminPanelProofs`,
`StartupProofs` and `CatalogueProofs`.

## 1. The system and its parts

The bot is one Python process (asyncio, aiogram 3) over one SQL database and one Redis.
aiogram starts a task for every update that arrives, also for two updates of the same
user, and the reminder loop is one more task. Tasks share the database, the FSM
(conversation) state in Redis, and a few dictionaries in memory. They interleave at every
`await`: a Redis command, a database transaction, a Telegram call.

Code outside `src/` appears in four places. `aiogram` is modelled from its documented
interface as the code uses it: `state.clear()` is `set_state(None)` and then
`set_data({})`, the state filter is evaluated before the handler starts, `start_polling`
installs its own signal handlers. `botkit_core` (the payment handlers, the admin gate) is
modelled from how the code and the tests call it. `docker` restarts a process that dies
and sends SIGTERM, then SIGKILL, to one that is stopped; python is the first process of
its container (`CMD` in exec form), to which the kernel delivers no SIGTERM before a
handler for it is installed. SQLite serialises write
transactions, commits DDL by itself under this driver, does not enforce `REFERENCES` (no
`PRAGMA foreign_keys`), and does enforce `UNIQUE` and `AUTOINCREMENT`.

### Booking store: `src/src/booking/models.py`, `src/src/booking/service.py`, `src/src/reminder/service.py`

- *State*: the tables `slots` (`is_booked`), `bookings` (status, `slot_id UNIQUE`),
  `reminders` (`is_active`, `fire_at`), `audit_log`; the AUTOINCREMENT counters.
- *Operations that write*: `book_slot`, `cancel_booking`, `mark_booking_paid`,
  `delete_user_data`, `log_audit`, `create_reminder`, `mark_sent`. No code inserts into
  `services`, `slots`, `payments` or `feedback`: an operator fills the schedule.
- *Callers*: the handlers, the deposit callback, the reminder loop, concurrently.
- *Hard*: a hold is recorded twice (the slot's flag and the booking row) and released by
  three operations; payments arrive after cancellations; rows are deleted while their ids
  live on elsewhere.
- *Correct when*: a slot is never double-held; the two records of a hold agree; a
  booking row has one life; an id never comes to mean another row.

### Update handlers: `src/src/booking/handlers.py`, `src/src/core/storage.py`, `src/src/core/fsm.py`

- *State*: per user, the FSM state (`waiting_phone` or none) and the FSM data (the chosen
  slot), in Redis or, without one, in the process (`MemoryStorage`); per running handler,
  where it awaits and its locals.
- *Operations*: `/start`, `select_slot`, `capture_phone`, `cancel`, `privacy_confirm`.
  `delete_my_data` and `privacy_cancel` change nothing; the menus are a part of their own.
- *Hard*: handlers of one user interleave on one FSM state; the FSM and the database are
  not one transaction; `capture_phone` awaits seven times over (get_data, book, the two
  halves of clear, read the booking, insert the reminder, answer) and anything may be
  committed in between.
- *Correct when*: whatever interleaves, an id a handler carries stays its user's; a
  booking gets one reminder; a confirmed booking survives a reminder that cannot be
  scheduled; every handler ends.

### Retry and errors: `src/src/core/errors.py`

- *State*: the tries of a running message handler.
- *Operations*: `RetryMiddleware` runs a message handler again, from its first line, when
  a Telegram call meets a flood limit or a network error, up to `max_retries` times; any
  other exception ends the update. Callbacks do not pass through it.
- *Hard*: the retried handler has already committed part of its work.
- *Correct when*: retries end, and nothing is done twice.

### Deposits: `src/src/app.py`, `src/src/core/payments.py`

- *State*: invoices delivered to customers, deposits collected by Telegram; the booking's
  status. `src/bot.py` passes no provider to `collect_routers`, which then takes the mock
  one of `botkit_core`.
- *Operations*: the invoice link in `capture_phone`, the `successful_payment` message,
  `_on_deposit_confirmed`.
- *Hard*: a payment is a message like any other: it can be routed to another handler,
  throttled, or dropped at a restart. It may come after the booking was cancelled or
  deleted, and from anybody who holds the link: the payload alone names the booking.
- *Correct when*: a booking is paid only by a deposit through its own link, which went to
  its own client, and a deposit that is paid marks its booking (it does not always:
  section 7).

### Reminder loop: `src/src/reminder/scheduler.py`, `src/src/reminder/service.py`

- *State*: the list a pass works through, the row it is at; the rows in the database; the
  reminders that `schedule_reminder` has decided on and not yet inserted.
- *Operations*: read the due rows, send each, mark each as sent; per row, an exception is
  logged and the pass goes on; the loop sleeps for its interval.
- *Hard*: the list grows stale while it is sent; a message and its record are two
  effects; users block the bot.
- *Correct when*: no due reminder is lost or starved, and none is sent again unless a
  fault came between the message and its record.

### Throttling: `src/src/core/throttling.py`

- *State*: per user, the time of the last message let through, in a dictionary of the
  process and in a Redis key with an expiry.
- *Operations*: one decision per message, across one or two Redis calls, failing open.
- *Hard*: check, await, set: two messages of a user interleave between the levels; the
  wall clock is compared, and Redis counts its own seconds; Redis fails; a restart empties
  one of the two levels.
- *Correct when*: a message is dropped only for one let through just before it; messages
  that do not overlap are spaced; nobody is shut out for good.

### Admin panel: `src/src/admin/handlers.py`, `src/src/core/auth.py`

- *State*: the gate's sessions and failed attempts in the process; the FSM state, which is
  the one the booking conversation uses.
- *Operations*: `/admin`, the password message, the three lists behind `require_admin`,
  with `/start`, `select_slot` and `capture_phone` beside them.
- *Hard*: a conversation starts in the middle of the other one, and one `state.clear()`
  wipes both; a retried password is recorded again; attempts expire.
- *Correct when*: wrong passwords in a window are bounded as long as the process runs, the
  lists are shown to admins only, a user who is asked for a phone has a slot, and a
  lockout ends.

### Menus and schedule queries: `src/src/booking/handlers.py`, `src/src/booking/service.py`, `src/src/core/callbacks.py`

- *State*: keyboards on the customers' screens; the menus being made.
- *Operations*: `list_services`, `select_service` (with `get_available_dates`, one session
  per day), `select_date`, `my_bookings`, `cancel`; `parse_callback_int`.
- *Hard*: the list of dates is of no single moment; buttons outlive what they name.
- *Correct when*: the dates are right for the handler's duration, and a cancel button
  never names a stranger's booking.

### Empty-catalogue alert: `list_services` and `_notify_empty_catalog` of `src/src/booking/handlers.py`

- *State*: the time of the last alert, in the process.
- *Operations*: note the time, tell each owner, refuse the customer politely.
- *Hard*: the note comes before the sends, and other customers come during them; an owner
  may be unreachable.
- *Correct when*: rounds are a window apart, a round reaches every owner who can be
  reached, and the customer is answered anyway.

### Migrations: `src/src/core/database.py`, `src/src/core/migrations.py`

- *State*: the table of versions and the schema, both surviving the process.
- *Operations*: read the versions, run each missing migration statement by statement,
  record its version.
- *Hard*: every `CREATE` is committed by itself, so a crash leaves half a migration; a
  failing read of the versions is taken for an empty table.
- *Correct when*: a recorded version is applied in full, and a boot after any number of
  crashes completes.

### Transport and lifecycle: `src/bot.py`, `src/src/core/bot_factory.py`, `src/src/core/webhook.py`

- *State*: where `main()` is, the reminder task, the HTTP server, the webhook registered
  at Telegram, the shutdown event.
- *Operations*: boot, webhook or polling, SIGTERM, the `finally` blocks, docker's restarts.
- *Hard*: Telegram fails inside a `finally`; polling replaces the signal handlers; a stop
  may come at any line, and before `add_signal_handler` it is not heard.
- *Correct when*: nothing is served before the schema is whole, a webhook has its server
  unless the process was killed or crashed, one left behind is gone before the bot polls,
  and a stop that is heard in webhook mode ends the process.

### Not modelled

Configuration (`src/src/core/config.py`) is read once: its values are the CONSTANTS of the
modules. Metrics, logging, tracing and Sentry change nothing the bot reads (that the
metrics server listens is part of `Startup`). Navigation and texts are formatting.
`src/scripts/`, the validators under `src/.github/` and the load test are tools of the
repository's pipeline, not part of the running bot.

## 2. The modules

| Module | What it is |
|---|---|
| `SlotLedger` | The promise: a set of holds, at most one per slot, taken by a customer and given back by that customer. |
| `BookingStore` | The tables and every transaction on them, one action each; any caller, any order. Implements `SlotLedger`. |
| `BookingBot` | The handlers at the grain of their awaits, the FSM in Redis, `RetryMiddleware`, the deposit callback, crashes; EXTENDS `BookingStore` and implements it. |
| `ReminderScheduler` | The reminder loop, its faults and crashes, with the customers' transactions between its steps; EXTENDS `BookingStore`. |
| `Catalogue` | The menus and the empty-catalogue alert, with the other handlers' transactions between their queries; EXTENDS `BookingStore` and implements it. |
| `Throttle` | The middleware in front of the message handlers, with clock, key expiry and faults. |
| `AdminPanel` | The panel and the booking conversation on one FSM state, inside `RetryMiddleware`. |
| `Startup` | The life of the process: migrations, both transports, signals, docker. |
| `MC...` | Symmetry sets and constant functions for TLC; the `.cfg` files give the constants. |
| `...Proofs` | The theorems: one module per component, and `OneReminderProofs` on top of `BookingBotProofs`. |

**BookingStore.** A table is a function from primary keys to rows. A block
`async with db.transaction()` starts with a write, which takes SQLite's write lock, and
is rolled back when it raises; so it is one action. A guard is the WHERE clause of the
first statement (`is_booked = 0`, `status IN (...)`, `status != 'cancelled'`), and where it
matches no row the block has no effect. `bookingSeq` is the AUTOINCREMENT counter: a
deleted key is not given again. `SlotIdUsed` is the `UNIQUE` constraint on
`bookings.slot_id`, which counts cancelled rows too.

**BookingBot.** A running handler is a record: which path of which handler it is on
(`flow`), the await it is at (`pc`), its user, the slot and booking in its locals, and how
often it was tried. `Update` starts one; `TaskStep` is its next await. `capture_phone` is
`GetData`, then `BookTask`, `SlotUnavailable` or `BookRaises`, then `ClearState`,
`ClearData`, `ReadRow`, `Create` and `Answer`. `AnswerFails` is a Telegram call that
raises, delivered or not: the middleware starts the handler again, or the error is of
another kind and ends it. `TaskRaises` is an error of Redis or the database. `Crash` ends
the process: the tasks are gone, the database stays, the FSM stays in Redis or is lost with
`MemoryStorage`, and payments made meanwhile are discarded with the pending updates.
A delivered link (`invoices`) may be paid by any user, who need not be the one it was sent
to (`Unpaid`): a deposit is a pair of link and payer. `PaymentThrottled` is a payment message that the throttle drops. Buttons may be
pressed at any time after their keyboard was sent, so `SelectSlot` takes any slot.
`CancelButton` is one transaction with nothing after it but an answer, so it needs no task.

**ReminderScheduler.** `Fetch`, `Send`, `Mark` and `EndPass` are the awaits of a pass;
`Refused` is a chat that rejects every message, `SendFails` a call that times out with the
message delivered or not, `MarkFails` a `mark_sent` that raises. `ReadRow` and `Create`
are the two sessions of `schedule_reminder`. The interval is not counted: a sleeping loop
may start a pass whenever a reminder is due.

**Catalogue.** A menu is a record like a handler's; `ScanDay` is one session of
`get_available_dates`, one day each, and days without working hours are passed over.
`AlertOwners` is the check of the window and the note of the time, which no await
separates; `Notify` is one owner. `menu` is what hangs on a customer's screen: `Show`, and an
`edit_text` that times out too late (`ShowFails`), puts the listed bookings there, and any
later `Callback` may use them. `steady` and `ever` are
history: the slots free throughout, and free at some time in, the handler. `EditCatalogue`
is the operator, who activates services by hand. `Mixes` says which callbacks come
together in one behaviour.

**Throttle.** A message is `get` or `set` while it awaits Redis and ends as `through` or
`dropped`. What the code does between awaits is one step: `Arrive` reads the dictionary
and, when it lets the message through, writes it. `Tick` moves the clock and the expiry
together; `SetBack` moves the wall clock alone. `disturbed` is history: the users whose
messages overlapped or met a fault.

**AdminPanel.** `check_password` up to its first await is `Refuse`, `Authorize` or
`WrongPassword`, decided by `is_throttled` and `authorize` of the gate (external); then
the two halves of `state.clear()`, and the answer. An attempt is kept by its age, oldest
first, so that `Tick` alone forgets it: as many from the old end of the list as are
outdated (`AfterTick`), which are the outdated ones (`AdminForgetsOutdated`). The gate's
list is `attempts`: a restart empties it. `guessed` is history: the ages of a user's wrong
passwords of the last window since the right one was given, which no restart empties;
`restarts` counts those. `GetData` may end in a `KeyError`, a slot that is gone, or an
exception of the booking, whose tables are `BookingBot`'s matter.

**Startup.** `pc` is where `main()` is. `ReadVersions`, `Execute` and `Record` are
`init_database` with one step per committed statement; `Listen`, `DropPending`,
`SetWebhook`, `Waited`, `DeleteWebhook`, `Cleanup`, `CancelReminders` are the rest of
`main()` and of the transports, `TelegramFails` what happens when one of their calls
raises, the skipped `finally` steps included. `Signal` is SIGTERM at any point, once or
again: `ignored` while `main()` boots, since the process is the first of its container and
has no handler yet, and `heard` later; in polling it ends the polling task and leaves
`shutdown_event` alone. `Kill` is docker's SIGKILL, wherever `main()` is by then, a stop
being under way. `interrupted` is history: a crash, a SIGKILL or a failing call of Telegram
since a process last deleted the webhook at its start. `StartAgain` is the operator's, with
or without `WEBHOOK_URL`.

## 3. What the runs check

| Run | Properties | What it shows |
|---|---|---|
| `store` | `TypeOK` `NeverDoubleHeld` `BookingLife` `ReminderLife` `LedgerSpec` | All orders of the transactions keep holds exclusive and consistent with the flag, give a booking and a reminder one life each, and implement the ledger. |
| `bot_users` | `OwnerKept` `PaidWasDeposited` | Two customers: ids in rows, invoices and locals keep their owner through deletions and rebookings; whoever pays a link, a booking is paid only by a deposit through the link that went to its own client. |
| `bot_slots` | `BotTypeOK` `OneReminderPerBooking` | Two handlers of one customer, two slots, retries and a crash: no second reminder, no try too many. |
| `bot_live` | `EveryTaskEnds` `BookingSurvivesReminder` | Handlers end, and a failing reminder leaves the way to the answer open. |
| `scheduler` | `SchedTypeOK` `RepeatsOnlyByFaults` `InactiveWasDelivered` `DueIsDelivered` | A reminder is delivered at least once, and again only by a fault; a user who blocked the bot does not starve another. |
| `throttle` | `ThrottleTypeOK` `NoFalseDrop` `CalmIsSpaced` `ShutOutEnds` | Messages over both levels, with a Redis fault, a restart or a clock set back: no drop without cause, no two calm messages too close, no shut-out for good. |
| `admin` | `AdminTypeOK` `GuessesBounded` `GuessesPerMessage` `PanelForAdmins` `AskedHasSlot` `LockoutEnds` | Two updates at a time over both conversations, with retries, errors and a crash, after which as many guesses more are open. |
| `startup` | `StartupTypeOK` `VersionMeansApplied` `SchemaBeforeService` `ServingIsReachable` `NoOrphanWebhook` `PollingIsAlone` `BootRecovers` `StopEndsProcess` | Crashes at every statement, failing Telegram calls, stops ignored, heard and killed, in both modes and from one to the other. |
| `catalogue` | `CatalogueTypeOK` `DatesAreHonest` `ButtonsAreOwn` `StormGuard` `RoundReachesOwners` `EmptyCatalogueAnswered` | Menus while slots change hands, and the alert with owners out of reach and a crash. |
| `returned_slots`, `deposit_paid`, `stale_reminder` | one each | The disagreements of section 7, each found by TLC. |

Every property of a passing run has a mutant of the code next to the definition it
changes (`NextBookingIdRowid` and `CreateReminderRowid` are a schema without AUTOINCREMENT, `PayableWhenCancelled`
the missing `status != 'cancelled'`, `CreateReminderSwapped` two arguments of
`create_reminder` in each other's place, `PassOverAfterOne` a pass that goes to sleep on
its first reminder, `ScheduleSwallowed` a `main()` that goes on past a failing migration,
`DroppedByWebhookOnly` a `delete_webhook` missing in polling mode,
`RestartAfterBooking` a middleware that resumes in the middle, `NotedNever` an alert whose
time is not noted, ...), which violates it on the instance of the run.

What a property leaves open, where that is easily overlooked: `StormGuard` compares the
alert rounds that are under way together, which is less than the comment it quotes says
("the second customer in a row"); `CalmIsSpaced` and `AskedHasSlot` are about users whose
updates do not overlap; `GuessesBounded` is about a user who does not give the right
password, and grows with the restarts; `NoOrphanWebhook` and `StopEndsProcess` leave out
what SIGKILL does, and the latter the polling mode altogether (section 7).

### Bounds, and why they are enough

- `Users`: two where the property is about two customers, one where it is about one
  user's concurrent updates (`throttle` and `admin` keep nothing that two users share).
  A third customer adds no relation: every property compares two rows or a row and a copy
  of its id.
- `Slots`: two where bookings of different slots meet, one where contention matters.
- `MaxBookings` 3 in `store` (book, cancel or delete, book again, beside another
  booking), 2 elsewhere (one row deleted and one with a later key), 1 in `bot_live`; the
  bound is on rows ever inserted, and an insert past it fails as any raising insert does.
- `MaxReminders`: 2 where a second reminder of a booking must have room to appear
  (`bot_slots`, `scheduler`); 1 in `bot_users`, where one row that outlives its booking is
  the whole case, and in `bot_live`, which has one booking.
- `MaxPayers`: 1, a link is paid by the customer it was sent to or by another one; a second
  payment of it finds the booking paid.
- `Tasks`: two handlers at once; all the code's hazards are pairs (a handler and what is
  committed in one of its windows). Tasks are used again, so any number of handlers runs
  in turn. In `catalogue` two alerts run together, and one menu beside the transactions
  of `Others`.
- `MaxRetries`: 3 as in the code in `deposit_paid`; 2 in `bot_slots`, `bot_live` and `admin`,
  which is one full retry and one last try; 1, no retry, in `bot_users`, to keep its states
  in minutes: an answer may still fail, delivered or not, and its theorems
  (`BotOwnerKept`, `BotPaidWasDeposited`) hold for every number of retries. `MaxAttempts` 3 (5 in the code) leaves room for two handlers
  retried once each to pass the limit, if they could.
- `MaxErrors`, `MaxCrashes`, `MaxFaults`: one each where faults matter: one fault already
  separates any two steps. `startup` has three, for a crash in the second try of the same
  migration and a failing call after it. `Commands` says which kinds of update the
  customers of an instance send: `bot_users` leaves out `/start` and `bot_slots` the data
  deletion, to keep the state space in minutes; `bot_live` has all of them.
- `throttle`: four messages, so that one can be late, one recent, and two more follow;
  `Limit` 2 and `Idle` 3 so that the key outlives the limit by one tick, as 60 s outlives
  0.5 s; the clock runs from 2 to `MaxTime` 7, past the end of one key and the limit
  after it. Messages and time run out, so a behaviour
  may stop: this run alone sets `CHECK_DEADLOCK FALSE`.
- `startup`: two migrations of two statements each, so that a crash can fall inside one,
  and between statement and version, with another before or behind it.
- `catalogue`: a week of two days with one day of work, so that of the three days ahead
  the middle one is passed over; two slots on the outer days, one button, so that an
  earlier date pushes a later one off the keyboard; two owners, of whom any may be out of
  reach; the clock has room for a second window.
- `MaxTime` and `Times` of `scheduler`: two instants, one reminder due before another.
- Symmetry is used only in runs whose properties are invariants and `[][A]_v`.

### Fairness, and why the code justifies it

`FairBotSpec` and `FairCatalogueSpec` are weakly fair in `TaskStep(t)` for each task: asyncio
runs every ready task, and each await of a handler (Redis, database, Telegram) returns or
raises, as long as the service behind it does not stay silent for ever. `FairSchedSpec` is
weakly fair in `Loop`: `bot.py` starts the loop at boot and `scheduler_loop` catches what a
pass raises. `FairAdminSpec` adds `Tick`: attempts age by the clock. `FairStartupSpec` is
weakly fair in `MainStep`: `main()` goes on, and docker starts what died
(`restart: unless-stopped` in `docker-compose.yml`). `Signal` and `Kill` are not fair: no
property relies on a SIGKILL. Customers, owners, operators, faults and crashes owe nothing
either: no property relies on a customer paying or cancelling.

## 4. What is proved

For every set of users, slots and tasks, every set of migrations, every week and window,
and every value of the bounds, from the named assumptions on constants (`StoreAssumption`,
`BotAssumption`, `SchedulerAssumption`, `ThrottleAssumption`, `AdminAssumption`,
`StartupAssumption`, `CatalogueAssumption`) and nothing else:

| Theorem | Says |
|---|---|
| `StoreTypeOK`, `StoreNeverDoubleHeld` | the tables are typed; live bookings have different slots and agree with `is_booked` |
| `StoreBookingLife`, `StoreReminderLife` | a booking keeps slot and client, no late payment revives it; a reminder keeps what it is about and is never due again once recorded; no key is reused |
| `StoreImplementsLedger` | the tables implement `SlotLedger` |
| `BotTypeCorrect` | handlers, conversation state and tables are typed, and tries stay below `MaxRetries` |
| `BotImplementsStore` | the handlers implement the store, `BotSpec => Spec` |
| `BotImplementsLedger`, `BotNeverDoubleHeld`, `BotBookingLife` | so the whole bot keeps the ledger's promise, and no late handler touches a row that is not its own |
| `BotOwnerKept` | a copied booking id never means somebody else's booking |
| `BotPaidWasDeposited` | a booking is paid only by a deposit through its own link, whoever paid, and the link went to its own client |
| `BotOneReminderPerBooking` | no booking gets two reminders, however often its handler is retried |
| `SchedTypeCorrect`, `SchedRepeatsOnlyByFaults`, `SchedInactiveWasDelivered` | the loop is typed, repeats a reminder only by a fault, and loses none |
| `SchedImplementsStore`, `SchedNeverDoubleHeld`, `SchedReminderLife` | the loop implements the store, so an id on its stale list names the row it was read from or none |
| `ThrottleTypeCorrect`, `ThrottleNoFalseDrop`, `ThrottleShutOutEnds` | clock, key and messages are typed; every drop has its cause, and shut-outs end with the key |
| `ThrottleCalmIsSpaced` | messages that neither overlap nor meet a fault reach the handlers a limit apart |
| `AdminTypeCorrect`, `AdminPanelForAdmins`, `AdminAskedHasSlot` | sessions and handlers are typed; the panel stays with admins; a phone is asked for with a slot |
| `AdminGuessesBounded`, `AdminGuessesPerMessage`, `AdminForgetsOutdated` | a user without the right password tries at most `MaxAttempts` wrong ones in a window, and as many again per restart; at most `MaxRetries` of them count for one message; time forgets the outdated ones only |
| `StartupTypeCorrect`, `StartupVersionMeansApplied`, `StartupSchemaBeforeService` | no boot skips half a migration, and nothing runs on one |
| `StartupServingIsReachable`, `StartupNoOrphanWebhook` | a server that waits for its stop has its webhook, and a webhook its server unless the process was interrupted |
| `StartupPollingIsAlone` | no webhook, whoever left it, is registered while the bot polls |
| `CatalogueTypeCorrect`, `CatalogueButtonsAreOwn`, `CatalogueStormGuard` | old cancel buttons stay their customer's; alert rounds are a window apart |
| `CatalogueRoundReachesOwners` | a round tells every owner a message can reach |
| `CatalogueDatesAreHonest` | a list of dates has no day that was never free and misses none that always was, and the keyboard shows the earliest |
| `CatalogueImplementsStore` | the menus implement the store |

**The store.** `IInv == TypeOK /\ NeverDoubleHeld`. Exclusiveness alone is not
inductive: that two live bookings differ in their slot survives `book_slot` only because the flag
agrees with the rows (`FlagAgrees`) *and* because no two rows, cancelled ones included, share a
slot (`SlotIdUnique`), so that `cancel_booking` clears the flag of nobody else's hold.
The refinement maps the holds to the pairs (client, slot) of the live bookings: booking
takes one, cancelling releases one, deleting a user's data releases all of theirs at
once, and everything else stutters. That a booking implies a free slot in the ledger, and
that a cancellation releases exactly one pair, both rest on `IInv`.

**The bot.** `BInv` adds to the types what the locals of a handler hold at each await: a
handler about to book has a slot, one that schedules a reminder has a booking the counter
gave out, one that marks a payment has a collected deposit. With it each handler step is a
store transaction or leaves the tables alone (`StoreStep`), which yields
`BotImplementsStore`, and by it all the store's theorems. `BotOwnerKept` strengthens the
invariant by `RemindersKnown`: every copy of an id is at most `bookingSeq` at the time it
is made, rows inserted later have larger keys, and existing rows keep their client
(`OldIds`), so an old copy can only meet its own row or none. It is AUTOINCREMENT that
makes this hold; the mutant without it (`NextBookingIdRowid`) breaks the property.
For `BotPaidWasDeposited` the payer plays no part: what a handler about to mark a payment
knows is that its payload names a link somebody paid, and by `BotOwnerKept` that link went
to the client of the booking that has this id now, if there is one.

**One reminder.** `RInv` adds the obligation: a handler between `book_slot` and the insert
*owes* the reminder of its booking; a booking that is owed one has none yet
(`OwedHasNoRow`) and is owed by one handler (`OwedByOne`). A retry does not restore the
obligation, because it starts at `get_data` and can only reach the insert through another
`book_slot`, whose key is new.

**The reminder loop.** `SInv` bounds the messages of a row by the faults so far *and*
splits them by where the loop is: a row that is active and not being marked has been sent
at most once per fault (`MaySend`), so that sending it once more stays within the bound;
a row being marked, or inactive while its visit is on, has been sent (`MarkedWasSent`).
The same invariant says that what the loop marks and what `schedule_reminder` carries from
its read to its insert are keys, users and instants of the tables, so that each step is a
transaction of the store (`SchedStoreStep`) and the store's theorems hold beside the loop.
Of these `ReminderLife` is what lets a pass keep ids for as long as it likes; it rests on
the fresh key of every insert.

**The throttle.** `HInv`: every time in the dictionary or the key is that of a message let
through (`Sourced`), which makes every drop justified; and the key never lives longer than
what is left of `Idle` since the last message that got through (`KeyIsFresh`).
`CalmIsSpaced` needs the two levels related for each user whose messages never overlapped
and met no fault (`Calm`): at most one message is waiting for Redis (`Waiting`); when none
is, the dictionary holds the time of the last message let through, and so does the key,
which lives until that time is `Limit` ago. The last of these is where `Limit <= Idle` is
used: a shorter key would be gone while the dictionary still calls the message recent, and
Redis would let the next one through. A restart is a fault here: it empties the
dictionary, and a message the dictionary calls old is let through without a look at the key.

**The panel.** `AInv` says for each await what the handler may rely on: `read` and `show`
only with an admin's user (sessions are only lost in a crash, which ends the handlers),
and for a user whose handlers never overlapped, the state `phone` with a slot, or the one
handler that is on its way to clear both, in that order. `GateInv` keeps a user's attempts, and the guesses of the history, in order, oldest first,
and all within the window; a wrong password is recorded by a check that found room for it
in the same step, so no interleaving of handlers and retries makes the gate's list too
long. That the guesses are bounded needs the two related (`GuessOK`): the gate's list is the
last part of the guesses, age for age, and the rest is no longer than `MaxAttempts` per
restart, which is what one can make the gate forget. Time keeps that, because it forgets a
prefix of each list, and all of what is outdated: this follows from the order by the
least-number principle (`LeastNat`).

**The start.** `UInv` says that while migrations are applied, those no longer on the list
are complete, and the current one has taken effect up to `step` at least (`Applying`); the
current one is the least on the list, so all before it are complete when it is recorded; after the boot the schema is whole (`AfterBoot`); and at each
line of the transport which of server, webhook and reminder task are up, and in polling
mode, past `delete_webhook`, that no webhook is (`Transport`). `HookWindow` says where a
webhook can be registered as long as nothing interrupted the process: it speaks of
`interrupted`, not of the fault count, and starts anew with every `delete_webhook` of a boot.

**The menus.** `CInv` says that ids on screens and in handlers' lists were given out
before (`MenuOK`, `RecOK`), so that `OldIds` of the store applies to them too; and that a
round under way began no later than the last note, so that the next begins a window after
it. A crash forgets the note, but ends the rounds with it. `RoundsOwe` adds that an owner a
message can reach has been told or is still among those left, and that none is left once
the round is over: each notice moves the head of the list, told or out of reach, off it.
`MenusHonest` is the loop invariant of `get_available_dates`: the days asked so far that had a free
slot are in the list, in order (`Found`), the list is complete when it is shown
(`Complete`), and the history follows the slots while days are still asked (`Fresh`). The
keyboard is a prefix of that list (`KeyboardIsPrefix`); a day it leaves out comes after
`MaxButtons` different earlier ones (`CountDates`).

**Only model-checked.** Liveness (`EveryTaskEnds`, `BookingSurvivesReminder`,
`DueIsDelivered`, `LockoutEnds`, `BootRecovers`, `StopEndsProcess`,
`EmptyCatalogueAnswered`): the prover has no rules for fairness and ENABLED. Every other
property of a passing run is a theorem.

## 5. What is left out, and why

- Texts, phone numbers, names, prices, dates of slots: no property tells them apart. The
  FSM data is one slot id; `service_id` travels with it.
- `get_free_slots` and the lists of the panel are read in one session and shown; what
  the former reads is the flag in `FlagAgrees` and `SlotsComeBack`.
- The delays of `RetryMiddleware` and the interval of the loop: other tasks' steps take
  their place.
- A slot that does not exist (`slot_row is None`): the buttons hold slots of the table.
- Inside a transaction: SQLite's write lock makes a block one step. With PostgreSQL in
  place of SQLite the conditional UPDATE takes a row lock, and `book_slot` is still one
  step as far as the slot goes; that case is not modelled.
- The pre-checkout gate and the payment provider: `botkit_core` code of which `src/` shows
  only the registration. For the same reason the deposits are modelled in part.
- `fire_at` is an instant, not its text: the code writes and compares one format.
- Messages without a sender, which the throttle passes on at once.
- `feedback` and `payments`: nothing writes them.

## 6. Plan

Built: all modules of section 2 and the proofs of section 4. Left: a statement-level
`book_slot` shown to implement the one-step transaction, also for a database with row
locks in place of SQLite's write lock.

## 7. Where the repository says one thing and the code does another

Each is a run that TLC ends with a counterexample.

| Run | The repository says | The code does |
|---|---|---|
| `returned_slots` | README: "the slot has to come back if they do not" | `cancel_booking` frees the flag and keeps the row; `slot_id` is UNIQUE, so every later booking of the offered slot raises IntegrityError. (`delete_user_data` the other way round: the row is gone and `is_booked` stays 1.) |
| `stale_reminder` | "A cancelled visit stops reminding" | the `SELECT` of `schedule_reminder` does not look at the status: a visit cancelled after `book_slot` and before it (the counterexample), or between it and the insert, gets an active reminder and is reminded of; so is one cancelled during a pass, from the list the pass read at its start. |
| `deposit_paid` | `test_deposit_flow_books_then_marks_paid` | a payment message without text, from a customer who is asked for a phone, is taken by `capture_phone`. This rests on the order of registration: `app.py` attaches the payment handlers to the booking router after its own. |

Seen while modelling, and not made into runs:

- Nothing releases a hold that is never paid: a customer who does not pay keeps the slot
  until it is cancelled by hand (`src/src/booking/service.py:93`).
- `capture_phone` run again after its `state.clear()` finds the data cleared: it raises
  `KeyError`, which nothing retries, and the customer gets neither answer nor invoice
  (`src/src/core/errors.py:37` speaks of retrying "on transient Telegram errors").
- A payment message within the rate limit, or sent while the bot is down, is lost, and
  the deposit stays unmarked (`PaymentThrottled` and `Crash` of `BookingBot`).
- A reminder inserted by a handler that read the booking before `delete_user_data` outlives
  the deletion, with the user's id in it.
- `int()` in `select_date` raises on a malformed callback where its neighbours use
  `parse_callback_int`: nobody is answered.
- `my_bookings` lists what can still be cancelled, so that a paid booking disappears from it.
- Nothing is ever removed from the throttle's dictionary (`max_idle` is the life of the Redis
  key only): it keeps an entry for every user seen since the start.
- The deposit callback does not compare the payer with the booking's customer
  (`src/src/app.py:33`): a link that was passed on can be paid by anybody.
- In polling mode, once the polling runs, SIGTERM no longer sets `shutdown_event`
  (aiogram's handlers replaced the ones that do), and `main()` waits for it: the stop is
  docker's SIGKILL, and the `finally` of `main()` does not run.
- A SIGTERM before `src/bot.py:127` is ignored: `main()` goes on to serve, in webhook mode
  registers the webhook, and the SIGKILL leaves it registered until the next start.
