# Formal models of thingplus-embedded

TLA+ models of `libthingplus` (the embedded client of the Thing+ IoT
platform) and of the two gateways the repository builds on it, the people
counter and the maestro, with the TLC runs that check them and the theorems
that TLAPS proves about them.

Paths below are relative to the repository; `mqtt.c` is
`library/src/mqtt/mqtt.c`, `rest.c` is `library/src/rest/rest.c`,
`gateway.c` and `apc100.c` are in `examples/people-counter/src`, `main.c`,
`pir.c` and `htx23c.c` in `examples/maestro`.

    tlc -workers 2 -config MqttClientSafety.cfg MCMqttClient
    tlapm MqttClient_proofs.tla

## 1. The system

A gateway is one process. It registers its devices and sensors over HTTPS
(REST), then keeps one MQTT connection over which it publishes values and
statuses and receives requests.

| Component | State | Operations |
|---|---|---|
| **MQTT client**, `mqtt.c` | `struct mqtt`: `state` (INITIALIZED, CONNECTED, DISCONNECTED), the callbacks, the `mosquitto` handle; the network thread of `mosquitto_loop_start` | `mqtt_init`, `_connect`, `_disconnect`, `_callback_set`, `_value_publish`, `_status_publish`, `_cleanup`; the callbacks `_cb_connected`, `_cb_disconnected`, `_cb_message`, `_cb_published` |
| **Payloads**, `packetize.c`, `values.c` | a growing buffer; a list of groups of values, one per sensor | `packetize_payload`; `values_init`, `values_cleanup` |
| **Device management**, `device_management.c` | the table of callbacks and their argument | `device_management_init`, `_do`, `_cleanup` |
| **REST registration**, `rest.c` | the cache of the gateway's information (with devices and sensors), of its model | `rest_device_register`, `rest_sensor_register` |
| **REST information**, `rest.c` | none; structs of the application, and the arrays it allocates for them | `rest_gatewayinfo`, `rest_deviceinfo`, `rest_sensorinfo`, `rest_gatewayinfo_free` |
| **HTTP exchange**, `tcurl.c` | none between calls | `tcurl_read`, `tcurl_post`, `tcurl_payload_free` |
| **Sensor drivers**, `sensor_driver.c` | one list of drivers per process | `sensor_driver_id_template_get`, `sensor_driver_cleanup` |
| **Facade**, `thingplus.c` | a pair of handles | checks its arguments and delegates |
| **People counter**, `gateway.c` | `struct gw`, the condition variable, the POSIX timer | `gw_init`, `gw_connect`, `gw_disconnect`, `gw_cleanup`, `gw_event_value_publish`; `_connected`; `_status_publish` |
| **APC100 driver**, `apc100.c` | the serial line, a mutex, the last counts, the trigger, the polling thread | `apc100_init`, `apc100_cumulativeness`, `apc100_in_trigger`, `apc100_cleanup` |
| **Maestro example**, `main.c`, `pir.c`, `htx23c.c` | sensor ids, the last sample of the door, a timer, a monitoring thread | `main`, `_monitoring`, `hbe_event_trigger`, `_value_status_publish` |

How they interact:

- Application threads call the facade; the MQTT client calls `libmosquitto`,
  which runs the callbacks **on its own thread**. `struct mqtt` has no lock:
  `t->state` is written by the network thread and read by every API call.
- `_cb_connected` subscribes to the request topic, publishes `on` and calls the
  application's `connected`; `_cb_message` runs a request through
  `device_management_do` and publishes the answer.
- The broker keeps one session per gateway with a will (`err`), which it
  publishes when the session ends without DISCONNECT.
- Registration is synchronous: one call makes one to five HTTP exchanges. What
  an earlier exchange left in a cache decides every later call.
- In the people counter, the main thread sleeps in `gw_connect` until the
  callback signals, the callback creates the timer, and each expiry runs in a
  thread of its own. Its polling thread and its application threads share one
  serial line under a mutex; the trigger is called without it.
- In the maestro, a monitoring thread reports changes of the door and timer
  threads report statuses, temperature and humidity; neither looks at whether
  the gateway is connected, nor at what publishing returned.

What is hard, and where (the complete list, line by line, is under `hazards`
in `PROJECT.json`):

| Behaviour | Where it bites | What makes the component correct |
|---|---|---|
| state read on one thread, changed on another | `mqtt.c:280`, `:415` | `t->state` and the callbacks follow the connection; a lost connection is reported |
| losses, refusals, reconnections | `mqtt.c:171-233` | status and subscription are renewed; the client gets online again |
| the network thread is joined | `mqtt.c:420` | `mqtt_disconnect` returns in every state |
| going away while a handshake completes | `mqtt.c:415` | the gateway is not left shown as on |
| requests lost with a session, several ways through one function | `mqtt.c:244`, `device_management.c:136-201` | answered once, in order, truthfully |
| caches that are stale, half filled or zeroed | `rest.c:619`, `:272`, `:767` | nothing is posted twice or without the server's word |
| answers that are lost, empty or of another form | `tcurl.c:55`, `:108` | success means registered |
| a wakeup without a predicate, timers and frees | `gateway.c:54`, `:110`, `:243` | `gw_connect` returns; a timer reports while connected; nothing freed is used |
| callbacks replaced, and memory freed, field by field under a running thread | `mqtt.c:488-503`, `:594-604` | what is freed is not used, what is called is what was installed last, unless the two met |
| one line for two threads, a thread cancelled anywhere | `apc100.c:84-156`, `:101`, `:216` | each reads its own response, nobody is lost or counted twice, cleanup returns |
| changes reported once over a connection that comes and goes | `pir.c:35`, `main.c:92-111` | the server shows the last sample that was not lost; what was missed heals |
| structs that are read into again and freed again | `rest.c:495`, `:580`, `:619` | every field is from this answer; no array is freed twice or lost |
| buffers that grow by a fixed amount | `packetize.c:22`, `values.c:36` | what is written fits; each value is published once under its sensor |

## 2. Modules

| Module | Models | Checked by | Proved in |
|---|---|---|---|
| `ConnectionEvents` | abstract: what an application is promised about connection callbacks | refinement by `MqttClient`; used by `GatewayApp` and `Maestro` | `MqttClient_proofs` |
| `MqttClient` | `mqtt.c` with the network thread, application threads, the broker | `MCMqttClient` | `MqttClient_proofs` |
| `RequestServer` | abstract: what the server is promised about its requests | refinement by `DeviceManagement` | `DeviceManagement_proofs` |
| `DeviceManagement` | `device_management.c`, `mqtt_callback_set`, `mqtt_cleanup` and the callbacks of `mqtt.c` | `MCDeviceManagement` | `DeviceManagement_proofs` |
| `ValuePayload` | the payload of one `mqtt_value_publish` | `MCValuePayload` | `ValuePayload_proofs` |
| `RestRegister` | `rest.c`, `tcurl.c`, `sensor_driver.c` against the server | `MCRestRegister` | `RestRegister_proofs` |
| `RestInfo` | the readers of `rest.c` and the application's structs | `MCRestInfo` | `RestInfo_proofs` |
| `GatewayApp` | `gateway.c` on top of `ConnectionEvents` | `MCGatewayApp` | `GatewayApp_proofs` |
| `Apc100` | `apc100.c`, the serial line and the counter | `MCApc100` | `Apc100_proofs` |
| `Maestro` | `main.c`, `pir.c`, `htx23c.c` on top of `ConnectionEvents` | `MCMaestro` | `Maestro_proofs` |

Composition: `GatewayApp` and `Maestro` are written on `ConnectionEvents` (their
library actions are `Link!Start`, `Link!TellConnected`, ...), and `MqttClient` is
shown to implement `ConnectionEvents` under the mapping `running <- net # "off"`.
What the gateways rely on is thus what the client does. `MqttClient` takes
requests as well-formed; `DeviceManagement` is the detailed view of its action
`NetMessage`, with requests of every form but one (section 6), and is shown to
implement `RequestServer`. `ValuePayload` is the detailed view
of what `ValueChecked`/`ValueSend` hand to the library.

Definitions named `...Unchecked`, `...Once` and the like, marked *Mutant* in
their comment, are plausible faults of the code and are not part of any
specification; each property a run checks has one that it catches.

### MqttClient

`state` is `t->state`; `net` the point the network thread has reached (in
`loop`, at the call of a callback's next library function, or `off`); `link`
the client's socket; `wire` the packets in flight, in order; `sess`,
`subscribed`, `status` what the broker holds; `pc[t]` where an application
thread is. Every read of `t->state` and every library call is a step of its
own, because between any two of them the other threads may run:
`mqtt_disconnect` is `DisconnectCall` (first read of the state),
`DisconnectUnsubscribe`, `DisconnectCheck` (second read), `DisconnectOff`,
`DisconnectRequest`, `DisconnectJoin`.

`libmosquitto`, the broker and TCP are modelled from how `mqtt.c` uses them and
marked external in the map: a publish fails only without a socket; on a
connection that is broken but not yet known to be, it succeeds and the packet
is lost; the broker reads packets in order, and takes a gateway's next session
after it is done with the last. A `Drop` loses everything in flight.

### ConnectionEvents

Two variables, `running` (a network thread exists) and `told` (the last
callback): a connection is announced only after the last one ended, and the
thread stops only when nothing is announced. It is the vocabulary in which
applications are written.

### RequestServer

Requests arrive one at a time (`Arrive`); the callback of one that must be
answered runs once at most, before the answer (`Do`); the answer is published
before the next request arrives and says `result` if and only if the callback ran
and returned true (`Answer`); after `Close` nothing happens. There are no
installations in it: the promise holds whatever the application installs
meanwhile. `DeviceManagement` implements it with the callbacks that ran taken by
request (`Did`) and `open` as long as `mqtt_cleanup` has not returned.

### DeviceManagement

The main thread installs callbacks (`CallbackSet`, `SetArgument`, `SetFree`,
`SetNew`: the struct, its argument, the free of the old table, the new one) and
at last cleans up (`Cleanup`, `GwIdFreed`, `CleanupTable`, `CleanupDestroy`); each
of these is a step, between which the network thread may run. The k-th call of
`mqtt_callback_set` is installation k, and `callback`, `argument` and `table` say
whose they are. The network thread handles an event in `EventTest`, `EventLoad`
and `EventCall` (the test of the pointer, its use, its argument) after
`_cb_connected` has published a status with `gw_id`, or a request: `TableRead` takes the
table, and then comes one of the ways through `device_management_do`:
`Unreadable` (NULL is returned, nothing is published), `NoMethod`, `Unserved`
(unknown method, no callback, missing parameters), `Run` with a callback that
returns true or false; `Answer` is the publish in `_cb_message`. A request is a
record (is it JSON with an id, its method, has it all its parameters).

Using what is freed, or calling NULL, sets `wild`, after which nothing more is
said. `raced` remembers whether a step of the main thread met what the network
thread was handling: freed memory *is* used when the two meet (`mqtt.c:490-503`
and `:594-604` lock nothing), and the property says that it happens in no other
way. `mosquitto_destroy` cancels and joins the thread, at any point it is in.

### ValuePayload

One step is one loop iteration. An id is a pair (text, address): `mqtt.c:115`
compares addresses to decide between the sensor's and the gateway's topic and
`values.c:17` compares texts to group, so both are kept. Each step that writes
goes through `Packetize`, whose piece has any length from 1 to `Chunk - 1`; the
source has a 512-byte scratch buffer, and that a piece fits it is an assumption
about the application's strings. What the payload must be is said by position
(`ObjectOf`, `ListedAt`, over `Rank` and `Before`, the number of values up to one
and the values whose text was seen earlier), not by a second program that builds it.

### RestRegister

One action per HTTP exchange and outcome; `pc` is the exchange the running
call is about to make, `open` and `models` what it has learnt. `info` has the
three values the code can tell apart or confuses: `empty` (model -1, the value
`GATEWAY_INFO_EMPTY` tests), `zeroed` (after a failed fetch: `rest.c:619` has
cleared it first, model is 0), `server`. Ids keep what the template mentions,
so that two calls may well compute one id. The server's side is `srvDevices`
and `srvSensors`; a POST may be accepted, refused with a JSON object
(`PostRejected`) or fail with or without having been carried out (`PostFails`).

### RestInfo

Answers are numbered, and a field holds the number of the answer it was copied
from, `Zero` when it was cleared, `Garbage` when nothing was ever written. Fields
that are parsed alike share one; the sensor's are three, because
`_sensorinfo_parse` clears the size of a *device* (`rest.c:495`): `id` and `type`
lie inside that part, `owner` stands for those behind it (`category`, `device_id`
and what follows). The offsets are computed from the sizes in
`thingplus_types.h`. Times pass through `int` (`rest.c:78`), whose largest
value, `IntMax`, is a constant. `heap` holds the allocated arrays; `Held` is what the gateway's struct points to.

### GatewayApp

`CallbackConnected`, `CallbackTimer`, `CallbackDone` are the three statements
of `_connected`; `GwConnect`, `GwWait`, `GwConnectReturn` are `gw_connect`;
`GwCleanup`, `CleanupTimer`, `CleanupLibrary`, `CleanupFree` are `gw_cleanup`.
`timers` are the armed timers: each reconnection creates one more and
`gw->timer_id` knows the last only. `timer_create` may fail at any connection
(`CallbackTimerFails`): that is printed and nothing else happens, `timer_id` stays
what it was. So a gateway that has once got a timer keeps one through later
failures and reconnections (`ReportsWhileConnected`), and one whose every
`timer_create` failed (`created = 0`) is connected and reports nothing. `orphans` says that a timer or a running
handler outlived the `struct gw` it points to.

### Apc100

`Lock`, `Write`, `WriteFails`, `Read` and `ReadTooMuch` are
`apc100_cumulativeness`, for the polling thread and for applications alike;
`Compare` and `Call` are the rest of `_polling`; `InTrigger` and `InTriggerArg` the
two assignments of `apc100_in_trigger`, which the polling thread reads without
the lock; `Cancel` ends the polling thread at any cancellation point, holding
the mutex or not, and `Joined` is the `pthread_join`. A response of 43 characters
is two here, a header and a count; `read` returns when a response's length has
arrived, whatever it consists of. A `read` that fails or returns early
(`ReadFails`) leaves on the line what it did not take. The line may lose or invent a
character. After either, `clean` is false: the code checks nothing but the length, so what a
disturbed exchange returns is not specified.

### Maestro

`MainInit` to `MainTimer` are the stages of `main`; `GpioRead`, `GpioFault` (an
`fread` that reads nothing leaves the zero) and `EventTrigger` are the monitoring
thread; `Expire` and `StatusPublish` to `PublishHumidity` a timer thread. `server`
is what the server shows under each sensor's id, `alive` whether the statuses
it shows are still valid.

A connection breaks (`Break`) some time before the library tells of it
(`Disconnected`), and nobody looks at what publishing returned. What is published
on an intact connection (`Intact`) arrives; on one that is broken, known or not, or
refused, it is lost; between the server's acceptance and the callback it may be
either (`MayArrive`). Packets of one connection arrive in order or, from the break
on, not at all, so a packet sent before the break is taken to arrive at once: a
delay only moves the break. `missed` remembers whether the last change of the
door was published while the connection was not intact: a change is reported
once, so nothing else can make up for that.

## 3. Runs

Runs that pass, with the distinct states TLC finds:

| Run | Instance | Shows |
|---|---|---|
| `mqtt_safety` (1.9 M) | 2 application threads, 2 connections, 1 publishing call, 2 packets, 2 faults, 1 request | `StateTracksLink`, `CallbackTracksLink`: state and callbacks follow the connection. `OnlineWhenSettled`, `OnlineMeansReachable`: a gateway that stays up is shown as on and subscribed, and is never shown as on while it cannot be asked. `OffUnlessRaced`: after `mqtt_disconnect` it is not left on, except in the race of section 4. `ValueFailureReported`. `ImplementsEvents`: refinement of `ConnectionEvents` |
| `mqtt_live` (40 k) | main thread only, 2 connections, 2 faults, 1 request, fair | `DisconnectReturns`, `EventuallyOnline`, `RequestsAnswered` |
| `requests_answered` (6.5 M) | 2 methods (one with parameters), 2 requests, 1 event, callbacks set twice at any step, 2 runs of the thread, a cleanup at any step | `AnsweredInOrder`, `RanAsAsked`, `ResultMeansDone`, `UsesLiveUnlessRaced`, `EventToLatest`. `ImplementsServer`: refinement of `RequestServer` |
| `value_payload` (42 k) | up to 4 values, 2 texts at 2 addresses or NULL, chunk 3, batch 2 | `BufferHolds`, `ArraysHold`, `PublishedUnderItsId` |
| `rest_safety` (3.3 M) | a device model of each template kind, one not discoverable, 3 sensor types, 2 uids, 3 calls, 2 faults, 1 portal device, 1 restart | `DeviceNotRepeated`, `PostsOnKnowledge`, `ConfirmedOrRejected`, `DuplicateIsKnown` |
| `rest_info` (864 k) | 3 reads of any kind with any subset of keys, 2 frees, arrays of 0 or 2 entries, a time that fits the int and one that does not | `InfoIsOfThisAnswer`, `FreedOnce`, `NothingLeaks` |
| `gateway_safety` (42 k) | 2 handlers, 3 losses or refusals, a `timer_create` that may fail each time, 1 spurious wakeup, 5 calls, fair | `ReturnMeansCalledBack`, `OneConnection`, `ReportsWhileConnected`, `EarlyWaitEnds` |
| `apc100` (301 k) | the polling thread and one application, 2 people, 2 triggers, 1 question, 1 fault of the line or of a `read`, one life, fair | `OwnResponse`, `ReportsRise`, `CallsWhole`, `PassersReported`, `CleanupReturns` |
| `maestro` (699 k) | one timer thread, 1 change of the door, 1 of the weather, 1 failed read, 1 loss or refusal, fair | `DoorFollowsUnlessMissed`, `DoorSettles`, `StatusRenewed`, `ClimateHeals` |

`rest_info` checks `TypeOK` too; it is a theorem of every module.
Deadlock is not checked in any of them: every
bounded history ends, and an application that makes no call leaves its gateway
at rest.

Why the bounds are enough. Two faults give a loss after a loss, a refusal
after a loss and a loss during the handshake after a refusal; two connections
give a client that is started again in the state the first left behind; one
call with two packets puts a loss before, between and after the packets; a
publishing thread changes nothing that another one reads, so one call is enough.
Three registrations are the least that can confirm a device, lose an answer
and meet the result. Two installations give one that is freed and one that takes its
place; two requests give one handled before and one during or after it, and one event
meets each of its fields; two runs of the thread put a call between them.
Four values give two groups that alternate and one array
that must grow (batch 2); chunk 3 with pieces of 1 and 2 characters meets every
boundary of `packetize.c:22`: no room, room for the text but not for the zero,
and room for both. Three reads and two frees are a read, a free, a read that fails or brings
other arrays, a free, and one more read; an `INT_MAX` of 127 stands for 2^31 - 1. Five calls
of the main thread are init, connect, disconnect, cleanup and init again. Two
people who come in and one question give an exchange of each thread around each
of them; two triggers replace one by another under the polling thread; one fault is
enough, since nothing is claimed of a line after its first. The first sample of the
door, its change and a failed read are four reports at most, before the first
connection, on it, on it when it is broken, and on the next: one that is lost,
and one that makes up for it, on either side of the loss. One loss is a
refusal or a break at any point of a round of the timer thread.

Fairness. In `MqttClient`: weak fairness of the network thread as a whole
(`mosquitto_loop_forever` retries after a delay and never gives up), of the
thread inside `mqtt_disconnect` and of the broker. No fairness makes the
application call anything or a fault happen, and faults are finite. In
`GatewayApp`: weak fairness of the main thread inside a call, of the callback
that runs, of the library's answers (a running network thread keeps trying until
the server has accepted or refused, as `EventuallyOnline` shows for the client)
and of the disconnection that follows a refusal. In `Apc100`: weak fairness of the
polling thread, of each application's exchange, of the second half of
`apc100_in_trigger`, of a cancelled thread's end and of the join, and of the
counter and its line; the mutex is not assumed to be fair. In `Maestro`: weak
fairness of `main`, of the monitoring thread, of the timer's expiries (it is
periodic), of each timer thread, of the library's discovery that a connection is
broken (its keepalive) and of its attempts to reconnect (`EventuallyOnline`).
Nothing makes a connection break or a read fail, and both happen finitely often.

## 4. Divergences

Runs of kind *violation* check one statement of a test that the code does not
keep:

| Run | Statement | What happens |
|---|---|---|
| `gateway_returns` | `gw_connect` returns (`tests/gateway.cpp:78-81`) | the callback signals before `pthread_cond_wait`: a lost wakeup (`gateway.c:54`) |
| `gateway_cleanup` | cleanup causes no bad access (`tests/gateway.cpp:55`) | a handler that has started, or a timer forgotten at a reconnection, uses the freed `struct gw` (`gateway.c:243`) |
| `apc100_reopen` | a question to a counter that is there returns 0 (`tests/apc100.cpp:53-54`) | cleanup has cut off an exchange; the next instance reads the rest of the old response (`apc100.c:216`) |

Seen while modelling, with no run spent on them.

The connection (`mqtt.c`):

- `mqtt_disconnect` finds the state not CONNECTED and skips `off`; the handshake
  then completes and `on` is published, and DISCONNECT discards the will
  (`mqtt.c:415` against `mqttProtocol.md:59`). `OffUnlessRaced` shows that this
  race is the only way.
- `on` and `off` are published without retain (`mqtt.c:96` against
  `mqttProtocol.md:87`).
- `mqtt_status_publish` returns success whatever `mosquitto_publish` returned
  (`mqtt.c:399` against `Thingplus_Embedded_Guide_EN.md:911-912`).
- An answer that reports an error is no JSON: `"error":"code":-32000,...`
  (`device_management.c:169`, `:197` against `mqttProtocol.md:196`, `:205`).
- `values_cleanup` steps from a list entry it has freed (`values.c:85`).

REST (`rest.c`, `tcurl.c`):

- A refusal in JSON is `atoi` 0, a success (`tcurl.c:108` against
  `Thingplus_Embedded_Guide_EN.md:937-939`).
- One failed fetch leaves model 0, not -1: every later call is refused
  (`rest.c:619` against `Thingplus_Embedded_Guide_EN.md:412`).
- A sensor that was registered is not added to the cache and is posted again
  (`rest.c:696-706`); without the driver's template a sensor gets an id of
  another form (`rest.c:690` against `Thingplus_Embedded_Guide_EN.md:450`).
- `_json_int64_parse` returns `int`, so times in milliseconds are cut
  (`rest.c:78` against `Thingplus_Embedded_Guide_EN.md:583`, `:748`).
- `_sensorinfo_parse` clears the size of a device, not of a sensor (`rest.c:495`),
  and asks for `device_id` (`rest.c:505`); `thingplus_deviceinfo` returns 0 without
  doing anything (`thingplus.c:41`); no reader frees the answer it parsed.

The gateways:

- `_connected` of the people counter does not look at the error, so that
  `gw_connect` returns 0 for a refused gateway (`gateway.c:116`).
- A failed `timer_create` is only printed (`gateway.c:99-102`): the gateway is
  connected and publishes no status. Timers forgotten at reconnections
  (`gateway.c:110`, `:118`) use up the limit on them and lead there.
- `_status_publish` always publishes two entries of an array that has room for
  one sensor and the gateway (`gateway.c:61`).
- The maestro does not install `_disconnected` (`main.c:158-160`), so its flag stays
  set; `timeout_ms` is twice the period in seconds, 120 ms for a status renewed
  every 60 s (`main.c:83-86`); a change of the door while it is offline, or on a
  connection that is broken but not known to be, is never reported again (`pir.c:35`,
  `main.c:126`); an HTX23C error is published as a reading
  (`main.c:96`, `htx23c.h:4`); `main.c:195` assigns a handle to itself.

## 5. Proofs

All proofs are checked to the last leaf. The assumptions are the named `ASSUME`s
of the modules (bounds are natural numbers, `Main` is a thread, the polling
thread is no application, the chunk is at least 2, `IntMax` is positive, templates are functions of
the right kind), which TLC evaluates in the runs. Nothing is assumed of the
sizes of the sets.

| Module | Theorem | `Spec => []`... |
|---|---|---|
| `MqttClient` | `TypeCorrect`, `StateIsLink`, `CallbackIsLink`, `OnlineSettles`, `OnlineReachable`, `OffIfNotRaced`, `LossesReported`, `Implements` | `TypeOK`; `StateTracksLink`; `CallbackTracksLink`; `OnlineWhenSettled`; `OnlineMeansReachable`; `OffUnlessRaced`; `ValueFailureReported`; and `Spec => ImplementsEvents` |
| `DeviceManagement` | `TypeCorrect`, `AnswersInOrder`, `CallbacksAsAsked`, `ResultsTrue`, `LiveUnlessRaced`, `EventsToLatest`, `NothingAfter`, `Implements` | `TypeOK`; `AnsweredInOrder`; `RanAsAsked`; `ResultMeansDone`; `UsesLiveUnlessRaced`; `EventToLatest`; `NothingAfterCleanup`; and `Spec => ImplementsServer` |
| `RestRegister` | `TypeCorrect`, `PostsKnow`, `DevicesOnce`, `SuccessesTrue`, `DuplicatesTrue` | `TypeOK`; `PostsOnKnowledge`; `DeviceNotRepeated`; `ConfirmedOrRejected`; `DuplicateIsKnown` |
| `RestInfo` | `TypeCorrect`, `InfoIsFresh`, `CountsMatch`, `NoDoubleFree`, `NoLeak` | `TypeOK`; `InfoIsOfThisAnswer`; `CountsAreOfArrays`; `FreedOnce`; `NothingLeaks` |
| `ValuePayload` | `TypeCorrect`, `BufferNeverOverflows`, `ArraysNeverOverflow`, `Publishes` | `TypeOK`; `BufferHolds`; `ArraysHold`; `PublishedUnderItsId` |
| `GatewayApp` | `TypeCorrect`, `ConnectsOnce`, `ReturnsCalledBack`, `Reporting` | `TypeOK`; `OneConnection`; `ReturnMeansCalledBack`; `ReportsWhileConnected` |
| `Apc100` | `TypeCorrect`, `OwnResponses`, `ReportsOnlyRise`, `WholeCalls`, `NothingAfter` | `TypeOK`; `OwnResponse`; `ReportsRise`; `CallsWhole`; `NothingAfterCleanup` |
| `Maestro` | `TypeCorrect`, `DoorFollows`, `ErrorsExcused`, `SilentUntilRegistered` | `TypeOK`; `DoorFollowsUnlessMissed`; `ReadingsAreMeasured`; `ReportsAfterRegistration` |

The arguments, each an inductive invariant with one step per action:

- **`MqttClient`, `LinkInv`**: what the two link properties say between callbacks
  is not inductive, since a callback starts in one step and ends several later.
  `InCallback` adds what holds inside: `_cb_connected` runs with the state
  already CONNECTED and nothing announced, `_cb_disconnected` with the socket
  closed, and after a refusal there is always a disconnection. **`Implements`**
  takes every action to one of `ConnectionEvents` or a stutter, with `LinkInv` to
  know that `told` is not `connected` when `_cb_connected` announces and when the
  thread ends. `TypeOK` is inductive, in two parts.
- **`MqttClient`, `WireInv`**: what is on and subscribed when everything has
  arrived must be argued from what is still in flight. `SessionInv` ties the
  broker's session to the link (nothing is in flight on a link the broker cannot
  read from; a session that is not open has no subscription; one that expired
  has published the will). `OnlineInv` says of a live connection that is not being
  taken down that the subscription, and after it `on`, is either at the broker or
  in `wire`, and that nothing in `wire` undoes it. `OrderInv` is about positions in
  `wire`: no `on` behind an `off`, a DISCONNECT only behind an `off`, an `on` only
  behind a `sub` or to a broker that is subscribed. It is claimed only while
  `~raced`: a handshake that ends inside `mqtt_disconnect` does publish `on` behind
  the decision to skip `off` (section 4), and that step sets `raced`. **`LossInv`**:
  no call has lost anything before it is over.
- **`DeviceManagement`, `UseInv`**: as long as no step of the main thread has met
  what the network thread handles, the main thread is between its calls
  (`RaceInv`), and then struct, argument and table are one installation's and not
  freed (`TableInv`, `LatestInv`). **`AnswerInv`**: the request being handled is the
  last of those due, from arrival to publish; all before it are answered.
  **`RanInv`**, **`PassedInv`**: every callback that ran belongs to a request that
  has arrived and to an installation that was made; while a request is being
  handled none has run for it yet, and if nothing met it, the table it was
  given is the last completed installation's. **`DoneInv`**: the numbers of the
  requests due rise, and the reply that waits to be published already tells
  what the callback returned. **`Implements`** (`ServerStep`) takes each
  step of the network thread to a step of `RequestServer` and each of the main thread to
  a stutter, except the end of `mqtt_cleanup` (`Close`), which is final (`GoneStays`)
  and after which the network thread takes no step (`NothingAfterCleanup`). **`PlacesInv`** is the rest of `TypeOK`.
- **`RestRegister`, `KnowledgeInv`**: a fetch is only made into an empty cache,
  the gateway is open only with the server's word, a call is past the gate
  only then and past the model lookup only with a model. Its point is the
  failed fetch: `info` becomes `zeroed` and `open` stays false, so nothing is
  posted on it. **`CacheInv`**: an instance that has confirmed anything has its
  information from the server, so the fetch that replaces `devices` never comes
  after a confirmation. **`TruthInv`**: every cached and every confirmed id is the
  server's or was refused; the lemmas `Grows` and `TruthKept` say that the server
  only adds, so that only the exchanges that tell the instance something need an
  argument of their own. `TypeOK` needs **`CallTyped`**: what a call was given stays
  with it, so that every id it computes has the form of a template, the id of a
  sensor whose driver could not be fetched included.
- **`RestInfo`, `OwnInv`**: between a read and its free the struct's pointers and
  counts describe what is allocated (`ReadOutcome`), and while every read was
  freed, all of it. `InfoIsOfThisAnswer` is inductive (`InfoStep`), by the lemmas
  on the conversion (`ToIntRange`, `ToIntFits`: the remainder leaves a number that
  fits an int as it is) and on what the clear of the wrong size reaches
  (`SensorCleared`).
- **`ValuePayload`, `BufferInv`**: `PacketizeHolds` is the arithmetic of
  `packetize.c:22-33`; that one growth is enough rests on the piece being shorter
  than the chunk. **`LoopInv`**: every loop index stays within one of its array's
  end, and every group has room (`Pushes`); that a text is given its own group is
  not needed for it. **`SortedInv`**: after n values there is one group for each text
  seen, in the order of the first, and it holds that text's values in order;
  `PushSorts` is the step, by what `Rank` does when n grows (`RankNext`).
  **`LayoutInv`**: the groups before the present one stand in the buffer from
  `Start` of each on, the present one up to the present value; a step writes behind
  that and nothing before it changes (`Writes`, `WrittenStays`, `OpenStays`).
  At the end `Start`, which counts groups, is shown to be the reference's `Offset`,
  which counts texts (`BeforeIsPrev`, `AllPrev`), and `Publishes` follows.
- **`GatewayApp`, `Inv`**: `NoneInv` (no struct, no library), `ConnectInv` (whoever
  called `thingplus_connect` waits or was woken by the callback that sets the
  flag), `TimerInv` (`timer_id` is an armed
  timer from the first that was created until `gw_disconnect`, a failed
  `timer_create` included),
  `CountInv` (one timer for each connection or refusal).
- **`Apc100`, `RunInv`**: only the polling thread is left when cleanup cancels it.
  **`CallInv`**: outside `apc100_in_trigger` trigger and argument agree, and a poll
  that nothing disturbed has tested the present one. **`LineInv`**: the mutex makes
  at most one exchange run (`Turn`), so on a clean line all characters in flight
  are one response, to the thread that waits (`Awaits`), and its count is between
  the last one kept and the counter's (`Counted`).
- **`Maestro`, `Inv`**: nothing runs before `pir_init` (`Silent`), an error is in a
  timer thread's hands or shown only with an excuse (`MeasuredInv`). For the door,
  a report reaches the server or sets `missed` (`EventShows`), and no timer thread
  touches what the server shows of it (`TimerKeeps`).

Model-checked only: the liveness properties, since fairness and ENABLED are
out of the prover's reach: `DisconnectReturns`, `EventuallyOnline`,
`RequestsAnswered`, `EarlyWaitEnds`, `PassersReported`, `CleanupReturns`,
`StatusRenewed`, `ClimateHeals`, `DoorSettles`. Every other property a run checks is a theorem, so
the bounds of section 3 limit the liveness properties and the three
violations only. (`MaxCalls` and the other bounds are constants of the models and
thus of the theorems, which hold for all their values.)

## 6. Not modelled

- A callback that calls `thingplus_disconnect`: one thread joins itself at the
  first such call, and what `pthread_join` does then is not this code's.
- A second `mqtt_connect` while a network thread runs; QoS 1 retransmission
  inside `libmosquitto`.
- A request whose `method` is a JSON null: `device_management.c:165` finds the key
  there, `:173` gets NULL and `strcmp` at `:185` crashes. In the models a method is a
  string. Likewise a JSON null where the REST readers expect a string, which
  `strncpy` is given (`rest.c:97`).
- In `RestRegister`, an answer with some of the gateway's keys only: an answer with
  `autoCreateDiscoverable` but without `model` leaves `GATEWAY_INFO_EMPTY`, and the
  next call fetches again. (`RestInfo` reads every subset of the keys.)
- What happens after `strlen(NULL)`, where a batch without any id ends
  (`mqtt.c:105`, `:301`): `ValuePayload` stops there. A counter of the APC100 that wraps
  or is reset.
- Failing allocations (`realloc` and `calloc` returning NULL; a `realloc` that
  fails in `packetize.c:26` makes the size -1); texts longer than the fixed buffers
  they are printed into; freeing the groups of `values.c`.
- Two `RestRegister` instances in two threads over the one, unlocked list of
  sensor drivers. An instance whose list another one has emptied fetches its
  drivers again, as after `Restart`.
- Building URLs (`url.c`) and the vendored `list.h`: formatting, foreign code. `sht20.c`
  is built by no target. `main.c` of the people counter is one behaviour of
  `GatewayApp`, and its trigger is the one of `Apc100`.
- `thingplus_deviceinfo` as the application calls it, which does nothing.

## 7. Plan

What is left, by importance:

1. Two instances of `RestRegister` over one list of sensor drivers, with the
   list's steps modelled one by one.
2. The safety part of the liveness arguments as theorems: for each step a
   liveness property relies on, that it leads where the argument says (for example,
   that the network thread of a client that is told to stop only moves towards its
   end).
