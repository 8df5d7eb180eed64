# TLA+ models of the LuatOS port for ESP-IDF 5

This directory holds TLA+ models of the code in `src/luatos`: the port of the LuatOS core to
ESP-IDF 5 on the ESP32, ESP32-C2, ESP32-C3 and ESP32-S3. The LuatOS core (the Lua virtual machine,
the message bus, the `rtos`, `gpio`, `uart` and `wlan` libraries) and ESP-IDF are not in the
repository. The port sits between them: it turns calls of the core into driver calls, and driver
events into messages for the one Lua task.

- [1. The system](#1-the-system)
- [2. Inventory](#2-inventory)
- [3. Modules and their correspondence to the code](#3-modules-and-their-correspondence-to-the-code)
- [4. Runs](#4-runs)
- [5. Fairness](#5-fairness)
- [6. Proofs](#6-proofs)
- [7. What the models found](#7-what-the-models-found)
- [8. What is not modelled](#8-what-is-not-modelled)
- [9. Plan](#9-plan)

Model-check with `tlc -config <run>.cfg <module>`, prove with `tlapm <module>.tla` for the
modules named `...Proofs`. `PROJECT.json` lists components, runs, the mutation that breaks each
property, the source lines behind each definition, findings, hazards and theorems.

Paths below are relative to `src/luatos/components/luat`, unless they start with `main`.

## 1. The system

The program consists of tasks that share memory without locks.

| task | made by | what it runs |
| --- | --- | --- |
| Lua task | `app_main`, `main/idf5_main.c` | the script, every `luat_*` call of the port, and the handlers of bus messages, one at a time |
| system event task | ESP-IDF | `wifi_event_handler`, `ip_event_handler`, `sc_event_handler` |
| `uartN_irq_task` | `luat_uart_setup` | turns driver events of a UART into bus messages |
| MQTT client task | `esp_mqtt_client_start` (legacy) | `mqtt_event_handler` |
| HTTP task | `l_http_request` (legacy) | one per request: `luat_http_task_entry` and the client's events |
| interrupts | GPIO and UART hardware | `gpio_isr_handler`; the UART driver's ISR |

They interact in three ways only:

- **The message bus.** Any task puts a message with `luat_msgbus_put(&msg, 0)`: no wait, and the
  message is dropped when the bus is full. No caller looks at the result. The Lua task takes the
  messages one by one and calls `msg.handler`.
- **Flags.** The Lua task and the other task read and write static variables or a shared block
  (`wlan_is_ready`, `smartconfig_state`, `uart_port[].recv`, `gpio_isr_cb[]`, the MQTT and HTTP
  control blocks) without synchronization.
- **The driver.** A call in the Lua task changes the driver, which reports the change later, as an
  event, to another task.

What makes this hard: state is read in one task and acted on later in another; reports pass two
queues, of which the second drops what does not fit; calls of the script come between an event and
its report; one step of a setup or transfer may fail; power may fail between a change and its commit.

## 2. Inventory

For each component: the state it keeps, its operations, whom it talks to, what is hard, what makes
it correct.

**WiFi port** (`port/luat_wlan_idf5.c`). *State*: `wlan_inited`, `wlan_is_ready`,
`auto_reconnection`, `smartconfig_state`, `sta_connected_bssid`, `wifiSTA`, `wifiAP`, `sc_evt`.
*Operations*: init, mode, connect, disconnect, AP start and stop, smartconfig start and stop, the
three event handlers, `l_wlan_handler`. *Talks to*: driver, event task, bus, network adapter.
*Hard*: every interleaving of script, event task and radio; stale decisions in `l_wlan_handler`;
a full bus. *Correct when*: flags and script agree with the link once reports have been handled;
reports are told once and in order; the port reconnects when asked to; the AP adapter follows the
access point; no smartconfig session goes on behind the port's back.

**Custom MAC addresses** (same file, with NVS recovery in `main/idf5_main.c`). *State*: NVS
namespace `macaddr`, the address of the interfaces. *Operations*: `luat_wlan_set_mac`, `macaddr_set`,
`macaddr_restore` on the START messages. *Hard*: power failures between write and commit; failing NVS
calls; the saved address and the one in use may part. *Correct when*: what a boot restores can be
restored, and is the address in use.

**GPIO port** (`port/luat_gpio_idf5.c`). *State*: `gpio_isr_cb[pin]` (callback and args),
`warn_c3_gpio1819`. *Operations*: setup, close, the interrupt. *Hard*: the interrupt between two
writes of one entry; a reset that touches other pins. *Correct when*: callbacks run with their own
args, only on interrupt pins, never after a close.

**SPI port** (`port/luat_spi_idf5.c`). *State*: `spi_config`, `spi_handle`, `spi_bus`, the handle
and chip select of each device. *Operations*: setup, close, change of speed; device setup and close;
half- and full-duplex transfers, receive, send, each cut in chunks of `SOC_SPI_MAXIMUM_BUFFER_SIZE`.
*Hard*: each driver call may fail; two users of one bus; lengths around the chunk size. *Correct
when*: nobody relies on a bus that is down, a transfer that reports success moved everything, the plain
calls keep the mode they were set up with.

**PWM port** (`port/luat_pwm_idf5.c`). *State*: the table `luat_pwm_idf[LEDC_TIMER_MAX]` that
shadows the LEDC timers. *Operations*: setup, close, the search of the duty resolution. *Hard*: the
table, the timers and the pins must stay in step through any sequence of calls. *Correct when*: what
was accepted is put out at the frequency and duty asked for, nothing is refused that could be done,
what is closed is silent.

**UART port** (`port/luat_uart_idf5.c`). *State*: `uart_port[]`: queue, task, `recv`. *Operations*:
setup, callback registration, read, write, close, the irq tasks. *Hard*: `xQueueReset` after each
message throws events away. *Correct when*: once the sender pauses, what it sent is read.

**MQTT client binding** (`legacy/luat_lib_mqtt.c`). *State*: `luat_mqtt_ctrl_t`, a Lua userdata.
*Operations*: create, on, connect, subscribe, unsubscribe, publish, close, collection. *Hard*: client
task, messages and payloads hold pointers to the object; close waits for a task that puts messages;
acknowledgements overtake the call they answer; a new session starts without subscriptions.
*Correct when*: nothing points to a collected object, each payload is freed once, close returns, what
the script is told fits what its calls returned, and its subscriptions outlive a lost connection.

**HTTP client binding** (`legacy/luat_lib_http.c`). *State*: `luat_http_ctrl_t` per request.
*Operations*: request, the event handler, `http_resp_error`, the answer, `http_close`. *Hard*: who
owns the block; a client that could not be made; the buffer arithmetic; several places that could
answer. *Correct when*: each request is answered at most once, with the whole body, and frees what
it got.

The legacy files are kept in the repository but are not in the component's list of source
directories (`CMakeLists.txt`): the models are about the files as they stand, not about the firmware
built today.

**Flash and file system** (`port/luat_flash_idf5.c`, `luat_fs_idf5.c`, `luat_sfd_idf5_onchip.c`).
*State*: `luadb_partition`, the mounts, the descriptors of spiffs. *Operations*: `luat_fs_init`; raw
read, write and erase of the script partition; open, close, queries, remove, rename and listing of
files. *Hard*: lengths clamped with arithmetic that wraps, a driver that fails halfway, descriptors
borrowed by queries, listings by page. *Correct when*: results can be relied on.

**Lua heap** (`port/luat_malloc_idf5.c`). *State*: the pool, in the array `vmheap` or, on the S3,
in PSRAM. *Operations*: `luat_heap_init`, `luat_heap_alloc`. *Hard*: objects of the mapped script that
must not be freed, a shrink that fails. *Correct when*: the contract of a
`lua_Alloc` holds.

**Log** (`port/luat_log_idf5.c`). *State*: one static line buffer that all tasks share.
*Operations*: `luat_log_log`, `luat_log_write`. *Hard*: no lock. *Correct when*: lines come out whole
where the priorities allow it.

**Watchdog** (`port/luat_wdt_idf5.c`). *State*: `task_added`. *Operations*: init, feed, set timeout,
close. *Hard*: the hand-over from the idle task to the Lua task. *Correct when*: a script that hangs
is reset.

**Boot** (`main/idf5_main.c`, `port/luat_base_idf5.c`): NVS recovery, the order in which libraries
and timers start. **SNTP**, **I2C**, **ADC**, **power**, **MCU**, **RTC**, **RTOS**, **OTA**,
**shell**, **u8g2**, **crypto**, **BLE start**: driver calls or stubs with at most one flag.

## 3. Modules and their correspondence to the code

| module | models | actions |
| --- | --- | --- |
| `MsgBus` | `luat_msgbus_put` with timeout 0, external | operators `BusPut`, `BusFull` |
| `LinkFeed` | abstract: what a script may rely on | `Report`, `Tell`, `Drop` |
| `Wlan` | WiFi port | driver, event task, Lua-side handler, script calls |
| `WlanProofs` | theorems about `Wlan` | |
| `Mac` | custom MAC addresses | power failures, START messages, `luat_wlan_set_mac`, each NVS call |
| `MacProofs` | theorems about `Mac` | |
| `Gpio` | GPIO port | the interrupt, and one action per write of setup and close |
| `GpioProofs` | theorems about `Gpio` | |
| `Spi` | SPI port | setups, closes, one action per chunk and per end of a transfer |
| `SpiProofs` | theorems about `Spi` | |
| `Pwm` | PWM port | setup by outcome, close by outcome |
| `PwmProofs` | theorems about `Pwm` | |
| `Uart` | receive path of one UART | bytes, ISR, overflow, irq task in three steps, Lua task, script calls |
| `Mqtt` | MQTT binding | client task, Lua-side callback, script calls, the collector |
| `MqttProofs` | theorems about `Mqtt` | |
| `Flash` | script partition | `luat_fs_init`; raw read, write, erase by outcome |
| `Files` | spiffs calls | open, close, queries, remove, rename, paged listing |
| `Heap` | memory of the Lua VM | pool, new object, resize by outcome, free |
| `Log` | the line buffer | per task: begin, one cell formatted, one cell written |
| `Wdt` | watchdog | init in two steps, the other calls, the script that hangs, the idle task, the period |
| `Services` | `Flash`, `Files`, `Heap`, `Log`, `Wdt` and `Uart` side by side | one action per module |
| `PortProofs` | theorems about `Flash`, `Files`, `Heap`, `Log`, `Wdt`, about `Services`, and about `Uart` | |
| `Http` | HTTP binding | the request's task by event, the answer |
| `HttpProofs` | theorems about `Http` | |

Names of variables and actions are those of the code where it has them. A call of the port that
another task or an interrupt can interrupt with an effect is split into one action per visible step
(`ApStart` and `ApStartRest`, `SetupCb` and `SetupArgs`, `Close` and `CloseRest`, `Open`, `Write`
and `Commit`); a call that runs between two messages without touching what others see in between is
one action.

**Wlan.** `Associate`, `Drop`, `Lease`, `Hear`, `Acknowledge`, `Notice` are the radio and the
driver. `Reconfigure` is what `esp_wifi_set_mode`, `esp_wifi_start` and `esp_wifi_stop` do to the
interfaces and which events they post. `EventTask` is one call of one of the three event handlers:
the change of `sta_connected_bssid` and `wlan_is_ready`, the AP link, and the put. `OnConn`,
`OnDisc`, `OnGotSsid`, `OnAckDone`, `OnOther` are the cases of `l_wlan_handler`. The `Wlan...`,
`Smartconfig...` and `Ap...` actions are the script's calls. An event is its name: `OTHER` stands
for the events that are only forwarded. The address in `sta_connected_bssid` is a bit, set or not.
Assumed of the driver: each attempt and each connection that ends is reported by exactly one DISC
event, whatever ended it; a post waits for a slot of the event queue; `esp_wifi_connect` is refused
unless the station is up and idle. `LateIp` chooses whether a lease may still be reported between
the loss of the link and the handling of its DISC event; the run `WlanReady` sets it.
`luat_wlan_ap_start` stops the WiFi (`StopsFirst`) and then makes the interface: `apNetif` is
whether the AP adapter was given one. `Feed` is `LinkFeed` with the refinement mapping: what is
pending there is `LinkReports` of the bus followed by those of the event queue, the link reports of
a queue in their order, counted off by rank.

**Mac.** `written` is NVS with the last write counted, `stored` what is committed; a power failure
keeps one or the other, since NVS may flush early, or nothing, when `app_main` erases the partition
because it is full or of a newer version. `SetMac`, `ClearMac`, `RefuseMac` are the three ways through
`luat_wlan_set_mac`; `Open`, `Write`, `Commit`, `SaveFails` are `macaddr_set`. A START message may be
lost at a full bus (`Lose`). The ghost variables `cleared` and `unsaved` record that the script
cleared an address, or that a failure was swallowed, since the boot.

**Gpio.** `Setup` is `luat_gpio_setup` up to the writes of `gpio_isr_cb[pin]`; `SetupCb`, `SetupArgs`,
`SetupHandler` the two writes and `gpio_isr_handler_add`. `Close`, `CloseCb`, `CloseArgs`,
`CloseReset` are `luat_gpio_close`. `Isr` may come between any two. Levels and pulls are left out, and
so is `gpio_isr_sta`: the ISR service is installed before the first handler and never removed. The
ghosts `mode` and `given` record what the script asked for, `fired` what an interrupt ran.

**Spi.** The plain calls and the device calls share a bus; `Begin`, `Chunk`, then `Abort`,
`ReadPhase` or `Finish` are one transfer of either. All transfers of the file have that shape:
`Chunk` is the loop of the sends, of the receives, of the write of a transfer and of its full-duplex
variant. The read of a half-duplex transfer is no loop but one transmit (`ReadPhase`); how much it
brings is not followed. `selected` are the chip selects that are low, those that a failed write left
low included. A setup over an open handle fails at the bus, which is up. Calls on handles that are not
open are left out.

**Pwm.** A slot is `is_opened`, the channel it holds and its configuration, period and precision; a
cleared `pc` is `Cleared`. `Resolution` is `ledc_find_suitable_duty_resolution2` with `Divisor`,
`Valid`, `Rounded` and `Truncated` its parts; the clock, the fraction and the limits are constants.
`hwTimer`, `hwDuty` and `pin` are what the hardware does. `MustReconfigure` is the comparison that
decides whether the timer and the pin are configured anew. The search takes the first slot that is free
or holds the channel, so that an open channel may get a second slot (`PassesBy`); the history variable
`retuned` remembers the channels that ever did.

**Uart.** `fifo` are bytes in hardware, `ring` bytes in the driver's ring, `stash` what the ISR holds
while the ring has no room, `xQueue` the driver's events, each with its `timeout_flag`. `Isr` is the
interrupt at the threshold or after a pause of the sender: either empties the FIFO, since
`uart_set_always_rx_timeout` is not called, so that no pause is seen after a burst that ends on the
threshold. `Overflow` resets a full FIFO; its event has either value in `timeout_flag`, which the driver
does not set. `Take`, `PutMessage`, `ResetQueue` are the loop of the irq task. The disjunct
`event.size > 1024 * 2 - 200` of its test is never true: an event's size is at most the FIFO's. With
`DualCore = FALSE` the Lua task runs only while the irq task, which has the higher priority, waits. The
receive handler and the reading callback are the core's and the script's: the callback is assumed to
read until nothing is left. The history variable `announced` says that a pause of the sender was seen
and its bytes are unread, `missed` that no callback was promised for one: none was registered, or the
event or the message found its queue full.

**Mqtt.** `ctrl` is the life of the userdata, `held` whether the script reaches it, `mqtt_ref` the
registry reference. `Handle`, `HandlerPuts`, `HandlerReturns` are `mqtt_event_handler`; `Callback` is
`l_mqtt_callback`; `Close` and `CloseRest` are `l_mqtt_close` around the wait of
`esp_mqtt_client_stop`. A session of the client is `link`, what the broker knows of the script `subs`;
`Reports` says which events the library may report in it. `Publish` and `PublishReturns` are the two
ends of `esp_mqtt_client_publish`, between which the client task may handle the acknowledgement.
`Callback` contains the script's own reaction, a subscribe on `conack`. `deaf` records that the script
gave up its subscription, or had no callback when a connection was told. `Reconnect` chooses whether
the script calls connect a second time.

**Http.** `owned` is what is reachable from the control block, `resp` the recorded length, the real
room and the offset of the body buffer. The task's actions are the cases of `l_http_event_handler`,
and `Perform` the end of `luat_http_task_entry`. Option parsing is a choice between started and
failed. Results the code does not look at may be NULL: a request may start without a client
(`esp_http_client_init`, line 307), and then its task performs an error, or the client library faults;
headers, body and path without memory fault too. A fault sets `panicked`, after which nothing runs.

**Flash.** A cell of the chip is erased or holds data. `Clamp` is the arithmetic that clamps a length,
in `size_t` (`Word`); `Offset` what the driver gets. `Accepted` is the driver's own test of range and
sector grid. `FlashChanges` is a write or an erase, with the driver done or stopped after any number of
cells. The ghost `believed` is the chip as the results tell it, `doubt` the cells of calls that
reported 0 after the driver had begun.

**Files.** `used` counts the descriptors of spiffs, `held` what the script holds open. `Scan` is the
loop of `luat_vfs_spiffs_lsdir`, entry by entry, of body `Entry`, and `List` asks for one page after
the other, as a script does. Names over 240 characters are the set `LongNames`.

**Heap.** Sizes are units; `osize` is what the VM holds, `block` what the allocator gave. bget is
external and may fail at any time. `InRange` is the address test that skips the free of an object in the
mapped script. The pool moves to PSRAM on the S3 only and scripts are mapped off the S3 only
(`luat_conf_bsp.h`, lines 211 to 219), so that lines 159 to 162, which move the range of the test with
the pool, are in no build; on the S3 `RomObjs` is empty.

**Log.** Each cell of the buffer says which call of which task wrote it. The event task runs above the
Lua task and takes the core whenever it does not wait for `stdout`.

**Wdt.** External: the task watchdog of ESP-IDF, which starts with the idle task watched, and
unsubscribes it when it is deinitialized. `WdtOpen` is `luat_wdt_init` up to its call of
`luat_wdt_set_timeout`, `WdtAdd` the rest; between the two nobody is watched. The script may set the
timeout at any time and open and close the watchdog again and again.

**Services.** The six have no state in common and none calls another. One initial state per service,
and its own steps from there: what is checked is the union of the six state spaces.

## 4. Runs

| run | module | what it shows | bounds | states |
| --- | --- | --- | --- | --- |
| `WlanLink` | `Wlan` | flags, AP link and script follow the radio; leases in order; smartconfig sessions are known; `Wlan` implements `LinkFeed` | 2 slots each in event queue and bus, all script calls | 1 556 000 |
| `WlanReconnect` | `Wlan` | reconnection is always under way and happens | event queue 3, bus 2, connect, disconnect, `ap_start` | 66 000 |
| `WlanReady` | `Wlan` | violation: `wlan_is_ready` with the station idle | 2 slots each, connect, disconnect, `LateIp = TRUE` | |
| `MacBoots` | `Mac` | what NVS holds can be restored, and is the address in use | 3 addresses, one refused; 2 START messages per interface | 159 000 |
| `GpioIrq` | `Gpio` | callbacks, args and interrupts stay in step under interrupts anywhere | 3 pins, two of them USB pins; 2 callbacks | 207 000 |
| `SpiBus` | `Spi` | nobody relies on a bus that is down; length and mode of transfers of three users with failures | 2 devices and the plain calls; chunks of 2, up to 5 bytes | 905 000 |
| `PwmClosed` | `Pwm` | what is accepted is driven as asked, what is closed is silent, nothing is refused that could be done | 2 timers, 3 channels, 3 frequencies, 2 precisions, 2 pulses | 3 800 |
| `PwmRefusal` | `Pwm` | violation: refused although not full | the same, 2 frequencies, 1 precision | |
| `MqttOnce` | `Mqtt` | nothing dangles, payloads have one owner, acknowledgements and subscriptions fit the calls, close returns | bus 3, 4 payloads, one client, 2 messages published | 496 000 |
| `MqttReconnect` | `Mqtt` | violation: the first client runs on after close | bus 1, two clients | |
| `Services` | `Services` | flash and file results hold; the allocator's contract; lines whole; what a UART announced is read; a hung script is reset | chip of 7 cells, addresses below 8; 4 names, 2 descriptors, pages of 2; 4 units of heap; buffer of 5 cells, 3 lines per task; FIFO 3, threshold 2, ring 4, event queue and bus 2, one core | 107 000 |
| `HttpTwo` | `Http` | ownership, answers, body arithmetic and clean-up of two requests | bus of 1 slot, bodies up to 3, one request a download | 48 000 |

Why the bounds are enough:

- Two slots hold a loss and the connection behind it, or a link report and a lease, so that reports
  can overtake, pile up and be dropped. What does not fit waits in the driver's post, or is dropped at
  the bus: both happen at these sizes. A reconfiguration that posts three events, as when
  `luat_wlan_ap_start` stops a connected station and an access point, needs the three slots of
  `WlanReconnect`; in `WlanLink` it cannot happen, and what `WlanLink` checks of it rests on the
  theorems of section 6, which hold at every size.
- Three addresses let the address in use, the one being saved and the refused one be different. Two
  START messages can be under way while a save begins.
- Two USB pins and an ordinary one, and two callbacks, are the least in which a reset of one pin can
  hit another and a callback can meet the args of another.
- Lengths 0 to 5 with chunks of 2 are zero, less than a chunk, exactly one and two chunks, and one more.
- Three channels for two timers make the table overflow by one. With a clock of 250 and dividers of
  1 to 127/16, frequency 1 is too low for any resolution, 65 is one where the rounded quotient gives a
  resolution that is too fine and the truncated one does not, and 8 is an ordinary one.
- Addresses and lengths of 3 bits with a partition of cells 2 to 5 contain every case of below, inside,
  across the end, and wrapped. Four names with pages of two make a listing of two full pages, which
  needs an empty third; two descriptors run out.
- A line of 4 in a buffer of 5 and one of 3 let each task overwrite the other's line in part or whole.
- A FIFO of 3 and a threshold of 2 let a burst end on the threshold, before it and past it; a ring of 4
  is full after two bursts; queues of 2 fill up.
- A bus of one slot makes two requests compete for it; bodies of 3 bytes in chunks of 1 to 3, with
  lengths claimed from 0 to 3, contain every order of first buffer and growth.

`CHECK_DEADLOCK FALSE` is set for `Mqtt`, `Http` and `Services` only: an object that was closed and
collected, requests that were all answered, a chip that was reset and tasks that have logged their
lines leave nothing to do.

The properties, with the question each answers, stand at the end of each module. Each is tied to a
mutation of one definition (`BusPutFront`, `BssidKept`, `KeepPc`, ...) that a plausible slip in the
code would amount to, and that breaks it. The alternatives stand next to the definition they would
replace.

## 5. Fairness

- `Wlan`: `WF(EventTask)`, since the event task blocks on nothing but its queue (its put does not
  wait). `SF(Dispatch)`: the Lua task takes a message each time it returns to its message loop, which
  it does between the calls of the script, however many these are; weak fairness would let a script
  that calls without end keep it away. `WF(ApStartRest)`: a call that has begun comes back. Nothing
  is assumed of the radio, of leases or of the script.
- `Uart`, in `Services`: `WF` of the irq task, which has the highest priority; `SF` of the Lua task,
  which on one core is let run between the bursts, again and again, but not continuously; and
  `CoreIsLeft`, that it is let run again and again: a UART interrupts at most once in a pause or in
  a threshold's worth of bytes (120 by default), 10 ms at 115200 baud, and the irq task needs
  microseconds. Nothing is owed by the sender.
- `Mqtt`: `WF` of the Lua task's own steps, and of the steps by which a client task leaves its
  handler. No event and no call is owed.
- `Http`: `WF(Perform)` for each request, since the client's timeouts end every perform, and `WF` of
  the Lua task.
- `Wdt`, in `Services`: `WF` of the period of the task watchdog only. Neither the idle task nor the
  script owes anything.

`Mac`, `Gpio`, `Spi` and `Pwm` are checked for safety only and assume none.

## 6. Proofs

The theorems hold for every value of the constants, under the named assumptions that TLC evaluates in
each run (`WlanAssumption`, `BusCapAssumption`, `GpioAssumption`, `MacAssumption`, `HttpAssumption`,
`SpiAssumption`, `PwmAssumption`, `MqttAssumption`, `UartAssumption`, `FlashAssumption`,
`FilesAssumption`, `HeapAssumption`, `LogAssumption`). A theorem that needs more of a
constant than that says so in an `ASSUME` of its own; which counterexample makes it necessary is said
below.

**`WlanProofs`**: for every size of both queues (also an event queue of none), every set of calls and
either timing of leases,

- `TypeCorrect`: types, and that neither queue outgrows its slots;
- `BssidIsTheLink`: with no link report in the event queue, `sta_connected_bssid` is set exactly while
  the station is connected;
- `StatusIsTheLink`: with no link report in either queue and none dropped, what the script was told
  last is the state of the link.

`BssidFollowsLink` and `StatusFollowsLink` speak of empty queues only and so are not inductive: the
step that takes the last report needs to know what that report says. The strengthening follows a
queue from its two ends. `Settles(q, b, a)` says that a reader who believes `b` and applies the link
reports of `q` in order ends up believing `a`: if `q` holds no link report then `b = a`, and otherwise
the last link report of `q` says `a`. The event queue settles `sta_connected_bssid` on the link
(`EvqSettles`), and, while nothing was dropped, the bus settles the script on `sta_connected_bssid`
(`BusSettles`). `IInv` is these two and `TypeOK`. The lemmas say how `Settles` is kept by appending
reports (a driver step posts up to three, the last link report among them being the new state), by
taking the head, and by a put that may drop. The step that moves a report from one queue to the other
uses both halves at once.

For every size of both queues and every script:

- `SessionIsAlwaysKnown`: no smartconfig session runs that the port does not know of;
- `PortImplementsFeed`: every step of the port is a step of `LinkFeed` or a stutter. `StepsAreShaped`
  says once what a step does to the two queues: it appends to the event queue, moves its head to the
  bus or drops it, or takes a message from the bus. `LinkReportsConcat` and `RemoveMiddle` say what
  that is in `LinkReports`. A report dropped at a full bus is the entry that `Drop` takes out of the
  middle of what is pending;
- `ApLinkIsTheAp`: the AP adapter follows the access point, and has the interface once there is one.
  `Decides(q, b, a)` says of a queue what `Settles` says of link reports, here of AP_START and
  AP_STOP: a reader who believes `b` ends up believing `a`. The event queue decides `apLink` to be
  whether the access point is up. For the interface, `ApInv` adds that an adapter that is up without
  the interface, although there is one, has an AP_STOP or an AP_START still to come:
  `luat_wlan_ap_start` stops the WiFi before it makes the interface, so that an access point which
  `luat_wlan_mode` brought up without one goes down first.

With a hypothesis each:

- `IpReadyIsInOrder` assumes `~LateIp`. With a late lease TLC breaks the property. `Ordered` says that a
  reader of a queue, who starts from what it believes of the link, believes it up whenever a lease
  comes; `Settles` carries this from the event queue to the bus.
- `ReconnectIsInFlight` assumes that the script calls none of `mode`, `sc_start` and `ap_stop`. TLC
  has a counterexample for each: mode, connect and mode again, or a stop of the access point and
  connect, leave the station idle without a report; a session that starts between a loss and its
  report keeps `OnDisc` from connecting. `ReconnectInv` adds what makes `OnDisc` succeed when it
  gets the report: no session stands in its way, and whenever the Lua task is in its loop the
  station is in the mode and started.

**`GpioProofs`**: for any number of pins and callbacks,

- `CallbacksGetTheirArgs`, `InterruptsAsAsked`, `CallbacksEndWithClose`: the three properties of
  `GpioIrq`.

`IInv` adds to them what the Lua task has done so far in the call it is in: an entry of `gpio_isr_cb`
is whole but between the two writes of a setup (`EntryWhole`); during a setup the pin's interrupt is
off, and only then differs from what the script asked for (`Armed`), which is why an interrupt never
meets half an entry; an entry is empty before a close turns the interrupt off (`EntryStage`,
`EntryGiven`); and as long as the USB pins' warning was not given none of them was set up, so that
resetting them all takes nothing from the script (`UsbUntouched`).

**`MacProofs`**: for any addresses, any set of refused ones and any number of START messages,

- `SavedCanBeRestored` and `InUseIsTheSaved`: the properties of `MacBoots`.

`AddressIsTheSaved` speaks of settled interfaces. `InStep` says what holds on the way: with nothing
saved the interface has its own address, and with something saved it has that address as soon as no
START message is left. `SaveStage` covers the call in progress: the interface took the address before
it was opened, written and committed, and after the write NVS has it too.

**`HttpProofs`**: for any number of requests, any size of the bus and bodies of any length,

- `BlockHasOneOwner`, `OneAnswer`, `BodyFitsAlways`, `WholeBodyAnswered`, `AllReleased`: all safety
  properties of `HttpTwo`.

The invariant holds per request (`Good`), plus `OnePerRequest`: a request has at most one message on
the bus. `Ownership` ties the message to the stage of the task: while the task runs there is none,
`close_state` is 0 and nobody was answered, so the one message it posts is the only one. A message
of success has its client (`SuccessHasClient`): only a perform that had one reports success.
`Buffer` says that the recorded length may be less than the room but never more, which is what makes
the test with the stale length safe, and that the offset counts what came. `Outcome` is what an
answer says and leaves behind. `PutMessage` and `TakeMessage` say what the bus keeps for the other
requests, and `Untouched` that they stay as they were.

**`SpiProofs`**: for any number of devices, any chunk size and transfers of any length,

- `BusStaysUp`, `AllBytesMoved`, `PlainModeKept`: the properties of `SpiBus`.

`MovedInFull` speaks of the last transfer only; `Accounted` says of the one under way that as long as
no chunk has failed, what was moved and what is left make what was asked. `PlainModeIsIts` needs
`BusHasOneSide`: while the plain handle is open, `spi_bus` is 0 and the bus is up, so that every
device setup asks the driver for a bus it cannot have, and fails before it writes `spi_config`; and
while `spi_bus` is 1 the bus is up, since `luat_spi_close` takes it down for an open plain handle only
(`BusIsUp`).

**`PwmProofs`**: for any number of timers, channels and requests, any clock up to 2^30 Hz, any frequency
from 1 to the clock, and any limits of the divider,

- `DrivenAsAsked`, `SilentWhenClosed`, `RefusalIsRight`: the properties of `PwmClosed`.

`SlotInv` ties an open slot to what the script asked of its channel: the slot's configuration, the
timer, the duty and the pin; a free slot has no configuration and no duty, which is why a setup that
finds its own configuration in the slot may skip the hardware. `ChannelInv` gives each driven
channel a slot. All this is said of channels outside `retuned`; two slots never hold one of those
(`OneSlot`). A table without a candidate is therefore, as long as `retuned` is empty, a bijection
from slots to driven channels (`FullTable`). That the first candidate exists (`MinOfSlots`) rests on
the inclusion of initial segments being well-founded.

`SearchFinds`, a lemma, is the arithmetic of `RefusalIsRight`:
`ledc_find_suitable_duty_resolution2`, which tries two resolutions, fails only where no resolution
has a valid divider. At the logarithm of the truncated quotient the divider is at least 1, and at
most 2 unless the width of the timer cuts that logarithm. So a divider that is out of range there is
too large, at the finest resolution there is, and at every coarser one it is larger still; and where
the logarithm is 0, every resolution has a divider below 1. It needs `DivMax >= 2 * Fraction` of the
constants, and that is all `PwmAssumption` asks of the limits: in the code the fraction is 256, the
largest divider 0x3FFFF, the clock 80 MHz and the width 14 or 20 bits. Frequencies are from 1 to the
clock: line 44 divides by the frequency, and above the clock it asks for the logarithm of 0.

**`MqttProofs`**: for any number of clients and messages, any size of the bus, and a heap that may
refuse,

- `TypeCorrect`;
- `SentIsAfterPublish`: `IdsInv` adds that no id waiting for its acknowledgement, in the handler or on
  the bus is beyond those given out, and that all given out were returned unless a publish is under way,
  during which the Lua task takes no message;
- `PayloadsAreOwned`, inductive as it stands: each step moves a block from the heap to the handler,
  from there to the bus or back to the heap, and from the bus to the callback, which frees it. The
  counting lemmas say what a put and a take do to the number of DATA messages;
- `SubscribedAtRest`: `SubsInv` says of a session without the script's subscription that the CONNECTED
  event that makes it subscribe is in the handler or on the bus, unless a message was lost or the script
  was deaf;
- `NothingIsLeftDangling` and `CloseDoesRelease`, for a script that connects once (`~Reconnect`; the run
  `MqttReconnect` is the counterexample otherwise): `LifeInv` says that a release message is the
  last one on the bus, and that from then on, and once the object's reference is given up, the script
  has closed it and every client is `Gone`, unused or destroyed (`Quiet`).

**`PortProofs`**: for every chip, pool, directory, buffer and queue,

- `ReportedIsHeld`: `FlashSpec` keeps `FlashAsReported`. `CoveredIsAsked` is the argument: what passes
  the test of the address and the driver's test of the range works on exactly the cells asked for, all
  inside the partition, whether `addr + len` wrapped or not.
- `FilesAreAnsweredTruly`: `FilesSpec` keeps `FilesAnswerTrue`. `ScanIs` gives the loop of lsdir in
  closed form, by a least counterexample, since the induction theorems cannot be instantiated: after
  `n` entries it has counted what was listed of them and filled the page with the entries from
  `offset` on. From this `PageIs` and `NextPage` give what a page holds and where the next begins.
  `DescriptorsCounted` ties spiffs' count of descriptors to what the script holds open, on which the
  answer of a query depends.
- `ObjectsAreBacked`: `HeapInv`, the property with its types, is inductive as it stands.
- `LinesComeOutWhole`: `LogInv` adds how far the call under way has come (`LogShape`) and whose text
  the cells behind it hold (`FormattedBelongs`).
- `HungPeriodResets`, an action property: once `luat_wdt_init` has returned, and until the watchdog
  is closed, a period in which the script hangs and did not feed ends in a reset. `LuaIsWatched`: as
  long as the watchdog was never closed, it is the one of the boot, so that the call that adds the
  Lua task finds it and the task stays watched, whatever timeouts are set before or after.
- `WakeupIsNotLost`: on one core (`~DualCore`; on two TLC loses a wakeup) `NoLostWakeup` is kept.
  `UartInv` adds types (`UartShape`) and why the queue may be reset: at that point the message that
  answers for the events thrown away is on the bus, or the Lua task is in the callback, unless the bus
  was full (`MessageIsOut`).
- `ServicesImplementEach` and `ServicesKeepTheirPromises`: the composition that `Services` runs
  implements the specifications of flash, files, heap and log, and the safety parts of those of watchdog
  and UART, and keeps what they promise, since none of the steps touches the state of another service
  (`OneServes`).

The steps are proved one action at a time, and the temporal theorems combine them with `PTL`.

Left to TLC: the liveness properties (`Reconnects`, `BytesAreRead`, `CloseReturns`, `Answered`,
`HangIsCaught`), which need fairness and `ENABLED`, out of the prover's reach. Every safety property
of a passing run is stated by a theorem; where a theorem has a hypothesis on the constants, the
run's values meet it.

## 7. What the models found

Runs that end in a counterexample, each against a sentence of the repository:

- `WlanReady`: `wlan_is_ready` is set by a lease without a look at the link (line 357). A lease reported
  between the loss of the link and the handling of its DISC event leaves `luat_wlan_ready`, "whether the
  wifi is connected" (line 467), true with the station idle. Whether ESP-IDF reports a lease that late
  depends on its DHCP client; this is what `LateIp = TRUE` assumes.
- `PwmRefusal`: the search of `luat_pwm_setup` stops at the first free slot, even when a later one
  holds the channel. A channel set up again takes a second slot, and a new channel is then
  refused with fewer than `LEDC_TIMER_MAX` channels open. After its close the other slot keeps the
  configuration, so that the next setup returns 0 without connecting the pin (line 98).
- `MqttReconnect`: a second `connect` overwrites the client handle; close stops the last one only.

Seen on the way, without a run, since no sentence of the repository promises the contrary or the
behaviour beyond is undefined:

- Of the watchdog, three gaps that `HangIsCaught` leaves out. Between lines 14 and 15 of `luat_wdt_init`
  nobody is watched. After `luat_wdt_set_timeout` without `luat_wdt_init` nobody is: the idle task is
  taken off and no other put on (lines 24 to 32). And `luat_wdt_close` does not clear `task_added`, so
  that the next `luat_wdt_init` watches nothing.
- Bytes a UART does not announce: a burst that ends exactly on the FIFO threshold gives no event with
  `timeout_flag`, which the irq tasks ask for (lines 43, 72, 93), and neither does a full ring or an
  overflow of the FIFO. The bytes stay unread until more come and the sender pauses.
- A device transfer whose write fails returns -2 and leaves the chip select low (line 371); the next
  transfer to another device addresses both. What `SpiBus` checks does not depend on who is selected.
- `luat_wlan_mode` with an access point, before the first `luat_wlan_ap_start`: the AP_START event
  hands a NULL `wifiAP` to the network adapter (line 327). `ApLinkFollows` says that this ends with
  `luat_wlan_ap_start`.
- `OnGotSsid` connects with the credentials smartconfig heard, even when the script called
  `luat_wlan_disconnect` since (lines 256 to 294).
- The HTTP binding looks neither at the client it gets (line 307) nor at the memory for headers,
  body and path (lines 161 to 166, 324 and 348). `Http` contains both, with a panic where a NULL is
  used.
- On two cores `NoLostWakeup` does not hold (`DualCore = TRUE`); the configuration has one core.
- `luat_wlan_smartconfig_start` ignores the result of `esp_smartconfig_start` and reports a running
  session; only the other direction, `SessionIsKnown`, holds.
- After `luat_wlan_ap_stop` and `luat_wlan_ap_start` a station that should be connected stays idle:
  its DISC was handled while `esp_wifi_connect` was refused (line 191).
- `macaddr_set` swallows errors.
- A log text longer than the buffer makes `luat_log_log` write past it: `vsnprintf_` returns the
  length the text would have had (lines 80 to 85).
- `sfd_onchip_read`, `_write` and `_erase` take a positive result of ESP-IDF, which is an error, for
  success. `luat_os_entry_cri` leaves a critical section instead of entering one (nothing in the
  repository calls it).
- The loop of `luat_mcu_unique_id` that drops trailing 0xFF bytes looks one byte past the id, and so
  drops none.

## 8. What is not modelled

- Contents: payloads, addresses, credentials, scan results, option strings, topics and headers are
  left out or are members of small sets. Nothing in the control flow of the modelled parts looks at
  them.
- In the WiFi port: scan, hostname, IP queries, static addresses. Scan and queries are driver calls
  that leave no state another task reads; `dhcp_enable` only chooses whether `l_wlan_handler` publishes
  IP_READY with the connection, and starting the DHCP client is the driver's.
- Line parameters, levels, pulls, clock modes: passed through to the driver.
- The shell on UART 0 and the USB console. A UART whose driver cannot be installed:
  `luat_uart_setup` does not look at the result, and its irq task would wait on a queue that is not
  there.
- How many bytes the read of a half-duplex SPI transfer brings.
- Calls on handles and ports that were not set up, which the Lua libraries of the core filter.
- Of the file system: what a file holds, since read, write and seek only forward to the C library;
  mkdir, which spiffs refuses; the fdb partition. Of the heap: the system heap, which forwards to
  malloc, and the variant that is compiled out. Of the log: the shell's multiplexer and the level.
- I2C, ADC, power, MCU, RTC, SNTP, OTA, u8g2, crypto hooks, BLE start: straight driver calls or stubs,
  on one thread, with at most one flag.
- The LuatOS core and ESP-IDF. Where the port depends on them the modules say what is assumed.

## 9. Plan

Done: `MsgBus`, `LinkFeed`, `Wlan`, `Mac`, `Gpio`, `Spi`, `Pwm`, `Uart`, `Mqtt`, `Http`, `Flash`,
`Files`, `Heap`, `Log`, `Wdt` with `Services`, each with the proofs of its safety properties.

Next, in this order:

1. `ReconnectIsInFlight` under a weaker hypothesis: with the three calls it excludes, up to the
   point where TLC's counterexamples begin.
2. `Boot`: the order of `app_main`, with the LVGL timer, which puts messages before the bus exists.
3. A composition of `Wlan` and `Mac`: START messages with the address in use during an association.
