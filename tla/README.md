# Smart Home Simulator: specifications and proofs

TLA+ modules that model the simulator in this repository, TLC configurations
that model-check them on small instances, and theorems proved with TLAPS for
every value of the constants. Paths are relative to `simulator/src/` unless
they start with `api/`.

## 1. The system

| Component | State | Operations | Talks to |
|---|---|---|---|
| EventScheduler (`core/scheduler`) | heap of stamped events, `running_`, mutex, condition variable | `schedule_event`, `run`, `stop` | called by the CLI thread, libmosquitto's thread and EventEngine; calls EventEngine |
| EventEngine (`core/event_engine`) | `custom_handlers_`: device, event type → closure | `process_event`, `add_event_handler` | DeviceEngine, device handlers, EventScheduler (sub-events of a trigger) |
| DeviceEngine (`core/device_engine`) | `devices_`, `models_`, mutex | `load_from_db`, `add_device`, `remove_device`, lookups, snapshots | SqliteStore, AdapterManager, devices |
| SqliteStore (`core/db`, `data/seed.sql`) | the database | seed, load, insert, delete | DeviceEngine |
| Devices (`devices/`) | `states_` | `update_state`, event handlers, `publish_state` | protocol client |
| AdapterManager (`core/adapter_manager`), MQTTClient, RestServer (`protocols/`) | clients, `connected_`, the session | connect, disconnect, (un)subscribe, publish, `on_message` | broker, EventScheduler |
| IpManager (`core/ip_manager`) | free bytes, byte of each device | assign, remove, clear | none in the program yet |
| main, signal handlers, CLI, SimulatorApi | threads, HTTP server | start, commands, shutdown | all of the above |
| API bridge (`api/src`) | cache of states, MQTT connection | GET, POST, WebSocket broadcast | broker |

Four threads run in the core: main (the CLI loop), the scheduler thread, the
HTTP thread and libmosquitto's. The bridge is a single-threaded process of its
own that meets the core only at the broker.

### What is hard here

- **Waking up.** The scheduler sleeps in two ways (until there is an event,
  until the first one is due) and is woken by notifications sent without the
  lock; `stop()` also writes its flag without the lock.
- **Object lifetime.** Events look a device up under a mutex, then act without
  it. State changes hold a `shared_ptr`; handlers hold a raw `this`.
- **Two copies.** The devices exist in memory and as rows; a crash can fall
  between the two halves of an addition or a removal.
- **The broker.** Sessions are clean, publications have QoS 0, `connected_` is
  not told of a loss, rooms and identifiers reach the topics unchecked, and each
  failure is caught by a different caller, or by none.
- **Stopping.** `SimulatorApi::stop()` joins a thread, and SIGTERM makes the
  same call on whatever thread it interrupts, DeviceEngine's mutex included.
- **Time.** Every event and every item of a trigger is stamped from a clock that
  moves on, with delays that may be negative, while its device may come and go.
- **Names.** A variable is addressed by state key, capability or alias, through
  two functions that have to agree, one of which looks at the states reached so
  far.

`PROJECT.json` lists these hazards at their lines, with the properties that
cover each, and the ones no property covers yet.

### What makes each component correct

- EventScheduler: accepted events are dispatched once, not early, in the heap's
  order, and no event is slept over; `stop()` ends the loop.
- DeviceEngine, EventEngine, SqliteStore: memory mirrors the database; reports
  to the user survive crashes; each device gets the events of its model; nothing
  works on a destroyed object.
- EventEngine: a trigger's items run in the order of their stamps, those before
  a malformed one are scheduled and no other; nothing is dropped without a
  reason, and only `stop()` or a failed publication leaves events unprocessed.
- main, SIGTERM, SimulatorApi: whoever stops, `main()` returns when every thread
  has ended; `stop()` returns.
- Transport: the session subscribes to no other than the devices there are, and
  to each of those it can; a publication does not end the process; shutdown
  leaves nothing connected.
- Devices: one entry per variable whatever names are used; what is published is
  what is.
- IpManager: the pool is partitioned; lowest free byte first.
- Bridge: after any loss, one publication brings the cache up to date; commands
  reach devices.

## 2. Modules

Each component is a module with its state as variables and one action per
operation, or per stretch of an operation between two points where another
thread can look in. Operators named after mutations of the code (commented
`Mutation:`) precede the definition they are a faulty form of; substituting one
shows that the property it aims at depends on that code. Nothing else uses them.

**EventAgenda** — what the scheduler promises: a set of stamped entries; an
entry enters once, is served once, not before its time, and not while an earlier
one is there. It knows no threads.

**EventScheduler** — `run()` as a program counter over its lines, `mutex_` as
the set of places that hold it, `cv_` as the places `wait` and `timedWait` that
`Notify` ends. `schedule_event()` is three steps: the caller stamps the event
(`Stamp`), pushes it under the lock (`Push`), notifies after the unlock
(`NotifyOne`). Sub-events of a trigger are scheduled one at a time by the
scheduler thread itself while `pc = "process"`. `stop()` is two steps. Spurious
wake-ups and notifications that find nobody waiting are included. Time is
discrete; negative delays stand for stamps already in the past. `INSTANCE
EventAgenda` maps the heap to the agenda and leaves clock and history as they
are. `lost` is a history variable: the calls of `stop()` whose flag was cleared
by the first line of `run()`, or whose notification came between a predicate and
the sleep after it.

**StopLoop** — what `run()` and `stop()` look like to whoever stops the
simulator: a loop that looks at a flag before it processes anything or goes to
sleep, and calls that lower the flag and then wake it. Two modules implement it.
EventScheduler does in full, its two waits mapped to one sleep (`Place`);
SimulatorLifecycle does with the threads around it, where a loop that is inside
DeviceEngine counts as processing and a thread that is not there yet as created.
So the scheduler that SimulatorLifecycle puts among the other threads promises
nothing EventScheduler does not.

**DeviceRegistry** — `devices_`, the handler table and the rows of `devices`.
The CLI thread's `add_device()` and `remove_device()` are split at each effect;
they hold DeviceEngine's mutex from first to last, which is `MutexFree` for the
others. The scheduler thread checks that the device is known, then takes one of
two routes. An object is a record with a generation, so that a device added
again is another object; `Alive` says which objects some `shared_ptr` still
holds. `Crash` may fall anywhere and `Boot` runs the seed and loads. What the
user was last told about a device (`told`) is kept to state durability; `gone`
is a history variable too: the device of the event at hand was erased since
`is_known_device()` found it. Whose life the scheduler's thread prolongs is state
of its own (`schedRef`): the lookup of a state change takes a share of the object
and its return gives it back, a handler has none. If the
process dies in the middle of the seed, the next boot ends it (INSERT OR
IGNORE), so `Boot` is one step.

The HTTP thread's `GET /devices` is a reader of its own: it copies the map under
the mutex (`ApiSnapshot`) and formats its answer later from what it copied.

**DeviceCatalog** — what DeviceRegistry promises: a catalog of devices in which
adding and removing are single steps, a restart loses nothing, and a reader sees
the catalog of one moment. `INSTANCE DeviceCatalog` maps the rows of the database
to the catalog: a command takes effect with its insert or delete, and the mutex
hides the moment at which `devices_` says otherwise.

**EventFlow** — `process_event()` and `handle_trigger()`, between the callers of
`schedule_event()` and the devices. The scheduler is `INSTANCE EventAgenda`: the
EventScheduler module has been shown to implement it. An event is dispatched and
validated in one step (`Dispatch`), and then updates a device, calls a handler,
or schedules one item of its payload per step (`TriggerItem`), items that are
triggers included; devices are added and removed between any two steps. A
malformed item throws, which `handle_trigger()` catches outside its loop. What
`publish_state()` throws nobody catches: `PublishThrows` ends the thread, and the
process with it, in the middle of the update or the handler. `Leave` is `run()`
finding `running_` down between two events; both are in the variable `loop`.
`OnMessage` has the topic forms of `MQTTClient::on_message()`. `absent` is a
history variable: events whose device was missing at some time since they were
scheduled. What DeviceEngine's lookups cost in locks is DeviceRegistry's matter.

**SimulatorLifecycle** — the threads: `main()` with its CLI loop, the HTTP
thread and its worker, the scheduler thread and libmosquitto's. Both stoppers,
the end of `main()` and the SIGTERM handler, go through the lines of
`SimulatorApi::stop()` and `EventScheduler::stop()`; a thread that runs the
handler does nothing else (`Interrupted`). DeviceEngine's mutex is here by its
owner only. `joinable()` and `join()` are two steps (`TestJoinable`, `Join`),
with anything in between. `met` and `early` are history variables: the stoppers
under way that were so together with another one, and those whose `svr_->stop()`
came before `listen()`. Of cpp-httplib and `std::thread`, which are not in the
repository, the model has what `simulator_api.cpp` uses: a `stop()` that finds a
listening socket closes it, `listen()` waits for its workers, a `join()` on a
thread that has been joined since the test, that another one is joining, or on
the thread itself throws or is undefined (the process is terminated, or the
caller is stuck). `std::signal()` restarts an interrupted read, so SIGTERM does
not end the CLI loop.

**MqttTransport** — the phases of `main()` from the first connect to the last
disconnect, with any of the devices loaded at the start; the clients registered
and those with `connected_` set; whether libmosquitto has a session, and the
subscriptions the broker holds for it. A connect can fail before the session,
after it (the loop does not start), or be refused by the broker, which
`connected_` is not told. `MQTTClient` throws on every error libmosquitto
reports: there is no session, or the topic will not do. `Topic` says what a
device's room and identifier make of its topics: plain; a filter (a level that
is `+`), which can be subscribed to and not published on; or malformed (`a+b`),
which is good for neither.
Publishing is two steps, because the connection can be lost between
`is_connected()` and `mosquitto_publish()`. That `delete_device()` succeeds for
a device in memory, so that its removal goes on after the unsubscribe, is
DeviceRegistry's `MemoryMirrorsDisk`.

**DeviceState** — one device, of any of the three types. `StateKey`, `Names`
and `Resolve` translate the name functions; `Handlers` is the table of event
handlers with the names each takes its value from and the value when it finds
none. A state change is applied one item per step, in the order of `std::map`,
and then published.

**PayloadEffect, AtomicDevice** — what a payload does, as an operator on states,
and the device that does it in one step: a state change or an event turns one
published state into the next, and there is nothing in between. `INSTANCE
AtomicDevice` maps a device half-way through a payload to one that has applied
it: what the rest of the loop will do is a function of the states reached so far
and of the items left, and each item keeps that function's value.

**ApiBridge** — devices that publish their whole state on
`home/<room>/<id>/state` and take commands on `home/<room>/<id>`, and the bridge
with its subscription, its cache and its POST. State messages keep their order
on one connection and are lost with it. Clients with an MQTT connection of their
own (`Direct`) use the simulator's topic; the bridge uses another.

**IpManager** — every method is one critical section, hence one action.

EventFlow is composed with the scheduler through EventAgenda, of which it is an
instance and EventScheduler an implementation. For the rest, each module takes
from the others what its header says (DeviceRegistry leaves subscriptions to
MqttTransport, ApiBridge leaves the simulator's own connection to it,
SimulatorLifecycle has of the scheduler what `stop()` meets).

## 3. Runs

| Run | Bounds | Shows |
|---|---|---|
| `scheduler` | a trigger, its sub-event, another event; delays −1, 0, 1; clock to 2; one `stop()`; fairness | `NoEventSleptOver`; EventAgenda and StopLoop are implemented (`ImplementsAgenda`, `ImplementsLoop`); `StopLostByRaceOnly`: a `stop()` that is not one of two races takes effect; `QueuedIsServed`: queued events are dispatched unless stopped; `StopWithWorkExits`: `stop()` with work queued ends the loop |
| `registry_safety` | a seeded device of an unsupported type and a free id, two types of devices, two additions per process, any number of crashes | `MemoryMirrorsDisk`, `Durable`, `StateChangeOnLiveObject`; `HandlerOfOwnDevice`: the only two ways for a handler to meet another object than its device's; DeviceCatalog is implemented (`ImplementsCatalog`) |
| `event_flow` | `stop()` and failed publications at any point; a trigger with a late item and a trigger in it, whose three items are early, malformed and never reached; a broker message in every topic form; one id added and removed; command delay 1; fairness | `SiblingsInOrder`, `DelaysAdd`, `PrefixScheduled`, `BrokerNeverTriggers`, `DropHasReason`; `AllProcessed`: every event scheduled is processed, unless `run()` is stopped or a publication throws through it |
| `lifecycle` | two SIGTERMs, on any thread at any time; fairness | `QuietAtExit`; `DeathNeedsOverlap`: what it takes for a stopper to end the process; `DeafServerNeedsEarlyStop`: what it takes to wait for a server that listens on; `CircleNeedsHandler`: what it takes for threads to wait in a circle; StopLoop is implemented (`ImplementsLoop`); `StopGetsThrough`: when `stop()` returns; `ExitAfterSigterm`: `exit` still works after a SIGTERM |
| `mqtt_safety` | three MQTT devices, with a plain topic, a filter and a malformed one, and a REST device, any of them loaded; two losses or refusals of the session | `NoGhostSubscription`; `SubscribedUntilLoss`: refused topics cost the other devices nothing; `FatalNeedsLossOrTopic`: what it takes for a publication to end the process; `MqttNeedsRest`: MQTT is connected beside REST only; `DownIsDisconnected` |
| `device_state` | the seed's lights, thermostat and motion sensor; payloads of up to two items, all single names and the pairs that interact | `NamesAgree`: what a state change makes of every name an event reads; `ReportedIsCurrent`; AtomicDevice is implemented (`ImplementsAtomic`) |
| `bridge_cache` | one id, two rooms, two types with a shared and a private variable; two state messages and a command under way | `CacheCatchesUp` |
| `ip_pool` | five devices, four bytes | `PoolPartitioned` |

Three events are the fewest that let a trigger's sub-event, an event that was
queued before and the one being slept towards differ; a clock to 2 lets a stamp
lie before, at and after another one. Two additions per process give a device
whose handlers replace those of an earlier object of another type. Two losses
give a loss after a reconnect, or after a refusal. In `bridge_cache`, one id
suffices: the cache keeps ids apart, and what can go wrong is between the lives
of one id. In `event_flow` the clock needs no bound of its own (`MaxTime = 0`):
it runs as long as something is pending, so the delays bound it. Two SIGTERMs
are the fewest for two handlers to meet, with and without `exit`, and for one to
join between the test and the join of another. Every safety property of these
runs, and all five refinements, also have proofs for every bound.

### Where the code and its documentation disagree

Each of these runs checks one statement of a comment or document, and TLC finds
a behaviour of the code that breaks it.

| Run | Statement | What happens |
|---|---|---|
| `scheduler_stop_lost` | "Signal the main loop to exit cleanly" (`event_scheduler.hpp:31`) | `stop()` between predicate and sleep is not heard; `main()` hangs in `join()`. With events in the queue it always works: `StopWithWorkExits`. Only this race, and a `stop()` before the first line of `run()`, lose it: `StopLostByRaceOnly` |
| `registry_freed_object` | DeviceEngine "owns all VirtualDevice instances and dispatches events to them" (`device_engine.hpp:23`) | a handler runs on an object removed meanwhile. It takes that removal, or a handler an earlier device of the id has left: `HandlerOfOwnDevice`. State changes are safe: `StateChangeOnLiveObject` |
| `mqtt_fatal` | `run()` "returns only after stop() is called" (`event_scheduler.hpp:28`) | publishing while the connection is lost throws through `run()` and ends the process (the run has plain topics only; a room such as `a+b` does the same without a loss). It takes one of the two: `FatalNeedsLossOrTopic` |
| `lifecycle_handler` | `stop()` is "Safe to call from a signal handler via std::atomic stop flag" (`simulator_api.hpp:31`) | there is no flag, there is a `join()`: the handler never returns if it interrupted a thread inside DeviceEngine that a request waits for, the HTTP thread or its worker, or came before `listen()`; with a second stopper it may end the process, also when that one is past its `join()` by then. What each of these takes: `StopGetsThrough`, `DeathNeedsOverlap`, `DeafServerNeedsEarlyStop`, `CircleNeedsHandler` |

Other disagreements are visible in the modules' actions and need no run of their
own:

- "Subscribe the MQTT client to every loaded device's command topic"
  (`main.cpp:57`): `connect_all()` tries REST first and a client without devices
  throws, so with the shipped seed, which has no REST device, MQTT is never
  connected (`MqttNeedsRest`).
- "Command topics are subscribed by devices" (`ARCHITECTURE.md:99-100`): nobody
  subscribes again after a reconnect (`Reconnect` leaves `subs` alone).
- POST "publishes on `home/:type/:id/command`" (`ARCHITECTURE.md:90`), and that
  is what the bridge does; the simulator listens on `home/<room>/<id>` (`Post`,
  `Direct` in ApiBridge).
- "target device (empty = broadcast)" (`event.hpp:96`): a state change without a
  device finds none and is dropped (`Update` in EventFlow).
- SIGTERM ends the server and the scheduler and leaves the CLI running: commands
  are then accepted and never processed, until `exit` (`ExitAfterSigterm`).
- `run()` sets `running_` on its first line, so a `stop()` that returned before
  that is overwritten (`Start` in EventScheduler, and a case of `lost`).
- "Chronological order" (`event_scheduler.hpp:13`) holds among the events in the
  queue (`ImplementsAgenda`); an event stamped first can be pushed after a later
  one was dispatched, since the stamp is taken before the lock (`Stamp`, `Push`).
- Handlers of a removed device, or of one whose insert failed, stay in the table
  (`RemoveErase`, `AddInsert` leave `handlers` alone), against "Cleanup is
  coordinated by DeviceEngine" (`virtual_device.cpp:55`).
- The example payload at `event_engine.cpp:81` sets `mode`, a name that
  `resolve_state_key()` does not know before a `mode_changed` event has created
  the state; and every handler accepts `value`, which it never knows. These are
  the only names on which state changes and events part (`NamesAgree`).
- The cache's key is room and id, not `"type/id"` (`api/src/state/store.js:1`):
  a GET by type finds nothing (`StateTopic`, `Merged` in ApiBridge).

### Fairness

Three modules have liveness properties. In EventScheduler, `Fairness` asks that
time passes, that `main()`'s thread starts, that the scheduler thread, each
thread inside `schedule_event()` and each one inside `stop()` eventually
executes its next instruction. These are the operating system's promises to
threads that can run; mutex_ is only held for bounded stretches, so weak
fairness is enough. Nothing obliges anyone to schedule an event or to call
`stop()`, and spurious wake-ups are allowed but not relied on. EventFlow asks
that the clock runs while something is pending and that the scheduler's thread
takes its next step as long as it is in its loop; it may find itself stopped or
die of an exception at any time, and nobody has to type, to send or to add a
device. SimulatorLifecycle asks weak fairness of each thread and of each
stopper, and strong fairness of the two threads that wait for DeviceEngine's
mutex: commands may be typed for ever, and a thread that finds the mutex free
again and again gets it. Commands, requests, wake-ups and signals have no
fairness at all.

`CHECK_DEADLOCK FALSE` appears where the system really stops: in the scheduler
once the loop has ended and the bounded clock has run out, in the transport once
the process is down or dead, in the lifecycle once `main()` has returned or the
process died, in the event flow when every event of the instance is processed or
the loop has ended.

## 4. Proofs

| Module | Theorems |
|---|---|
| EventSchedulerProofs | `TypeCorrect`, `NoLostEventWakeup`, `Accounting`, `AgendaImplemented`, `StopHeard`, `LoopImplemented` |
| DeviceRegistryProofs | `TypeCorrect`, `Mirrored`, `Durability`, `OwnHandlers`, `StateChangeSafety`, `HandlerOwner`, `CatalogImplemented` |
| EventFlowProofs | `TypeCorrect`, `Siblings`, `Delayed`, `Prefix`, `BrokerLeaf`, `Drops` |
| SimulatorLifecycleProofs | `TypeCorrect`, `Quiet`, `Deaths`, `DeafServers`, `Circles`, `LoopImplemented` |
| ApiBridgeProofs | `TypeCorrect`, `CatchesUp` |
| MqttTransportProofs | `TypeCorrect`, `NoGhosts`, `Subscribed`, `Fatal`, `NeedsRest`, `Disconnected` |
| DeviceStateProofs | `TypeCorrect`, `OneEntry`, `Agree`, `Current`, `AtomicImplemented` |
| IpManagerProofs | `TypeCorrect`, `Partitioned`, `Lowest` |

Every proof goes by an inductive invariant `IInv`; `Invariance` states it.

- *EventScheduler.* `NoEventSleptOver` is about the moment of sleeping, but what
  makes it true happens earlier: while the scheduler holds the lock on its way
  to sleep, nothing can be pushed, so the predicate it has read is still true
  when it sleeps; after that, each push leaves its `notify_one()` to be made.
  `IInv` says this for each place on that way. `Accounted` needs nothing else.
  For the refinement, each step maps to `Advance`, `Enter`, `Serve` or a
  stutter; `Enter` needs `Accounted` (a pushed event was not there before),
  `Serve` needs that `Pop` takes a least stamp. `StopHeard` needs more than the
  property says (`StopInv`): from its flag on, a call that is not in `lost`
  finds `run()` begun and `running_` down, so that after its notification no
  wait can begin. `LoopImplemented` is a matter of steps only: `Pop` and both
  waits look at the flag before they go on.
- *DeviceRegistry.* `MemoryMirrorsDisk` excludes the row under the command being
  run; `IInv` says what that row and the local `device` are at each place of the
  command. `OwnHandlersInstalled` needs that the object being added has its
  handlers in the table from `AddRegister` on, and that nobody else writes
  there. `StateChangeOnLiveObject` takes that the lookup, which alone leads to
  `update`, has taken a share of the object (`schedRef`) and that no step before
  the return gives it back, whatever the other threads remove. For
  `CatalogImplemented`, the one fact that is not a matter of mapping steps is
  `SnapshotIsCatalog`: when the HTTP thread gets the mutex no command is half
  done, so `MemoryMirrorsDisk` makes the copied map the supported rows.
  `HandlerOwner` is about two moments, the check and the call, and `CallInv`
  about the time between: as long as the device is not `gone`, it is in
  `devices_`, where by `OwnHandlersInstalled` its own handlers are in the table.
- *EventFlow.* `SiblingsInOrder` rests on the thread: items are scheduled one by
  one, but by the thread that would serve them, so none is served before the last
  is scheduled (`LoopShape`), and from then on the agenda serves the least stamp
  (`AgendaSound` ties the agenda's stamps to the events'). `DelaysAdd` is
  `ItemsAfterTrigger`, a stamp is not before its trigger's dispatch plus the
  delay, with `ServedLate`. `BrokerNeverTriggers` and `DropHasReason` need
  `RouteTypes`, which events go which way, and `AbsentKnown`, that the history
  variable misses no absence.
- *SimulatorLifecycle.* `MainShape` says where `exit`'s calls are when `main()`
  is past them; `ServerShape` that a server which is not joinable has ended;
  `CloserAtWork` that a server that is closing was closed by a stopper that is
  still at it. `DeathNeedsOverlap` rests on `MetTogether`: two stoppers under
  way have both met, and so has one that is about to join what is no longer
  joinable, since whoever joined it was under way with it. `CloserAtWork` keeps
  a closing server from being left behind for the next lone stopper to trip
  over; with `early` it is `DeafServers` too: past `svr_->stop()`, the server is
  closing or ended unless that call came too soon. `Circles` lets the threads
  drop out of a circle one by one (`NoOtherCircle`): who is waited for must wait
  in its turn, `main()` for the scheduler or in a handler, the scheduler and the
  worker for the holder of the mutex, the HTTP thread for its worker, and the
  holder of the mutex waits for nobody unless a handler joins on it.
- *ApiBridge.* `HeardIsTrue`: of a device whose last publication was not lost,
  the last message under way tells its room and state; when none is under way,
  the cache holds them. Receiving the last message turns the first half into the
  second (`MergedFacts`: merging takes over every variable of the message).
- *MqttTransport.* Every subscription lives in a session of a connected client,
  on a topic that will do; until the first loss or refusal `connected_` tells the
  truth; `init_subscriptions()` works on a list nobody changes, and comes to each
  entry whether the others are refused or not; who publishes has seen its client
  connected, and `main()` joins it before it disconnects. MQTT is connected after
  REST and disconnected after it.
- *DeviceState.* `OneEntryPerVariable` is inductive once `resolve_state_key()`
  is known to return state keys only (`ResolvesToStateKey`), and `NamesAgree` is
  a consequence of it (`Agreement`): each variable is found under all its names
  and no other (`ResolveFinds`), and the names an event reads are those of its
  variable (`EventNames`) and `value`, which is nobody's (`ValueNamesNothing`).
  Were `on_off` ever an entry of a light, the two name functions would part.
  `AtomicImplemented` is about a loop over a payload of any size. That each item
  keeps the effect of what is left (`ItemKeepsEffect`) needs the names that
  reach one variable to have a last one (`LastFacts`); induction over sets is
  not to be had, so that goes by a set of names of least size without one.
- *IpManager.* The partition is inductive; `Lowest` uses it to exchange free and
  unused.

Assumptions: the named ones of each module. `SchedulerAssumption`,
`RegistryAssumption`, `TransportAssumption`, `IpAssumption`, `StateAssumption`,
`BridgeAssumption` and `LifecycleAssumption` type the constants and keep the
values that stand for "nothing" apart from the others; `BridgeAssumption` also
says that a type has variables. `FlowAssumption` adds that the items of
different payloads are different events, since the parser builds each anew.
`AliasAssumption` says that an alias is not also a capability or a state key of
its model and stands for a capability the model has, and that `value` is neither
a capability nor an alias. The seed's rows satisfy it and no command adds
models, but the tables do not force it; without it `NamesAgree` is false.
`StateAssumption` takes payloads to be finite, which JSON objects are.

Only model-checked: the liveness properties (`QueuedIsServed`,
`StopWithWorkExits`, `AllProcessed`, `StopGetsThrough`, `ExitAfterSigterm`),
which need ENABLED and fairness, out of the proof system's reach. What can be
said of them without fairness is proved: `Circles` (nobody waits in a circle
without a handler), `StopHeard` (a `stop()` that is heard stays heard),
`NoLostEventWakeup`. `TypeOK` of IpManager and of ApiBridge, `Accounted`,
`OneEntryPerVariable`, `OwnHandlersInstalled` and `LowestFreeByte` are proved
and in no run: other properties of the same runs rest on them or say more.

## 5. What is not modelled

- Text: tokenizer and output of the CLI, JSON syntax, SQL, topic splitting
  beyond the number and kind of levels.
- Rows of `device_models`: nothing writes them after the seed; they are
  constants.
- `AdapterManager::send_message`, `messages`, `unregister_client` and the records
  of sent messages: no caller in the program.
- Errors of libmosquitto that do not depend on the session or the topic (out of
  memory, a payload beyond the protocol's size) and failures of
  `mosquitto_disconnect()`; a payload that does not parse or is no object, which
  `update_state()` refuses before it changes anything; that the process ends
  while SimulatorLifecycle's threads run because a publication threw, which is
  EventFlow's and MqttTransport's matter.
- The order in which events of several threads were stamped: the stamp is taken
  before the lock, and ImplementsAgenda orders what is in the queue.
- Data races on `states_` and `custom_handlers_` beyond seeing the value before
  or after: DeviceRegistry lets a lookup during an insertion see either, or the
  process die.
- The WebSocket server: it forwards each message to whoever is connected and
  keeps nothing.
- Events with equal stamps: the heap keeps no order among them and nothing says
  it should; the models allow either.
- A handler of an earlier device that runs while `init_states()` of a new one of
  the same id is between registering the handlers and setting its last states:
  that it takes a removal in the meantime is `HandlerOfOwnDevice`, what it leaves
  in the states is in no module.
- What a signal handler may not do by the letter of POSIX (lock, allocate,
  notify): the model lets `notify_all()` work, as it does on Linux.

## 6. Plan

1. *Done:* the modules above, their runs and proofs: the scheduler with its
   agenda and its loop, the registry and its catalog, the event flow on top of
   the agenda, the lifecycle of the threads around the same loop, the transport,
   the devices and their atomic form, the bridge, the IP pool.
2. **Delivery**, an abstract module of an event's way to its device (looked up,
   then applied or dropped, while devices come and go), which EventFlow and
   DeviceRegistry would both be shown to implement, as EventScheduler and
   SimulatorLifecycle both implement StopLoop.
3. **Composition of DeviceRegistry and DeviceState**: handlers that run on a
   device whose `init_states()` has not ended.
4. **The CLI's tokenizer**, as a recursive function over characters checked
   against a reference definition of quoting.
