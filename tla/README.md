# Verification of the Device Management Client example

TLA+ models, TLC runs and TLAPS proofs kept beside `mbed-cloud-client-example`,
the application that shows how a device uses the Pelion / Izuma Device
Management Client library.  Paths are relative to the root of the repository;
`.../` abbreviates `pal-platform/SDK/`.

Contents: 1 inventory, 2 how the parts interact, 3 modules and code, 4 runs,
5 bounds, 6 fairness, 7 proofs, 8 only model-checked, 9 assumptions about code
outside the repository, 10 findings and observations, 11 what is not modelled,
12 plan.

## 1. Inventory

### 1.1 Components that are modelled

| component, source | state | operations | what is hard | what makes it correct |
|---|---|---|---|---|
| **Application core** `main.cpp`, `source/pdmc_example.cpp`, `source/blinky.cpp` | `register_called`, `registered`, `paused`, `error_count`, `retry_counter`, requested timers, the button resource | boot connect loop, `pdmc_connect`, status and error callbacks, `pdmc_resume`, button and increment handlers, polling loop, reboot | main thread, event loop and network stack interleave; pause and resume; one error counter with two thresholds; timers that cannot be requested and are lost | a sleeper is woken, unless the timer for it could not be requested; it is not notified about while it sleeps; thresholds are not stepped over; the interface is not closed under the client; the program leaves only after Unregistered |
| **Large resource 5000/0/2** `source/pdmc_example.cpp` | `large_res_data` | block read callback, delivery status callback | a buffer shared by blocks and reports; failing `malloc`; the last short block | blocks are sent from live memory, nothing is freed twice or leaked, blocks cover the resource |
| **Blinky** `source/blinky.cpp` | `_pattern`, `_curr_pattern`, `_state`, `_restart` | `start`, `stop`, `run_step`, `get_next_int`, `handle_pattern_event` | a requested timer cannot be taken back: chains of timers outlive their pattern | no NULL or freed pattern is read, fields play once and in order, restart goes on, anything else ends |
| **Migration** `source/migrate_kvstore.cpp` | four bootstrap keys, four LwM2M keys, the flag key | `migrate_kvstore`, `kvstore_locate_and_replace`, `kvstore_clear_LwM2M_info` | loss of power between any two writes, failing writes, an uninitialised flag | all or nothing as seen by the client; old credentials gone, new ones kept; it gets done |
| **Network interface, Mbed OS** `source/platform/mbed-os/mcc_common_setup.cpp` | `network_interface`, `interface_connected`, `async_connect`, the registered callback | connect (blocking and event driven, with retries), close, get, status callback | events that come late or in between; a nested dispatch that must be broken | what is handed out is up or its end announced; closed stays closed; every dispatch has a way out; every connect returns; each but for a named race with the callback |
| **Provisioning** `source/application_init.cpp`, `source/platform/mbed-os/mcc_atca_credentials_init.c`, `source/platform/secure_element/mcc_se_init.c` | the storage, FCC initialised or not, "already formatted" | `initialize_fcc`, `fcc_initialize`, `sotp_initialize`, `reset_storage`, `verify_cloud_configuration`, `mcc_se_init` | 64 builds, loss of power inside the developer flow and the certificate chain, automatic format | once finalised FCC is used for nothing but a second finalisation; the client only runs on a whole storage; a half written one heals; a good one is not wiped |
| **Flash drivers of the FreeRTOS ports** `.../Renesas_RX65N-CK/...`, `.../EVK-MIMXRT1060/...`, `.../Renesas_EK_RA6M3/...`, `.../LPCXpresso54628/...` | the flash, loop position, status | `erase`, `program` of six drivers | sectors of different sizes, ranges that are not aligned or leave the chip, requests that fail half-way | success means the range has the promised content, neighbours survive, failures are reported, loops end |
| **Deployment tool** `pal-platform/pal-platform.py` | source trees of the target's elements, the build directory | deploy (fetch, update, check out, submodules, copy, patch), generate, clean | any external command may fail and the tool may be killed between two of them; references move; a later run finds what an earlier one left | a deploy that reports success left every element in its version, with submodules, patch and all its files; a build directory only over complete sources |
| **Network set-up of the other ports** `source/platform/{Linux,ZephyrOS,NXP,Renesas_EK_RA6M3,Renesas_RX65N-CK,KEIL}`, with the start-up of the NXP boards `.../{EVK-MIMXRT1060,LPCXpresso54628}/pelion_enet/rtos_startup.c` (partly) | network up or not, mounted partitions, attempts | `run_program`, daemon task hook, card and mount loop, DHCP and Wi-Fi with their retries, connect, close, connect again | waits for an address with and without an end; failures that are dropped; connecting again | a port that checks its network reports it truthfully; the start-up ends |
| **Ethernet receive path, EK-RA6M3** (partly) `source/platform/Renesas_EK_RA6M3/lwip/src/netif/ethernetif.c` | descriptor ring, notifications, receive task | interrupt callback, receive task, `ethernetif_input`, opening again | interrupt against receiving task; coalesced interrupts; a read that fails | a full ring is read |
| **Storage requests** `.../mimxrt1060/*flexspi*`, `.../lpc546xx_spifi_storage.c`, `source/platform/KEIL/pdmc_example/Driver_Flash.c`, `source/platform/NXP/event_platform.c` | the chip with its write-enable latch and busy command, controller and data cache, event flag | initialise, erase, program with enable, command, poll, reset, unlock, lock; event create, wait, notify, tick | a chip that works on its own; code that runs from the chip it programs; caches; an interrupt that comes late or not | success means the chip did it; nobody reads a stale page; requests return |
| **Buttons and LEDs** (partly, in the application core) `source/platform/*/mcc_common_button_and_led.*` | `button_pressed` | set by interrupt or signal, test-and-clear by polling | a press between the test and the clear | a press is seen by the handler |

### 1.2 Components that are not modelled

| component | behaviour | reason to leave it out |
|---|---|---|
| FOTA hooks and application interface, `source/fota_platform_*` | registers components, authorizes, prints the progress | callbacks without state of their own; the order of the registrations and the 32-bit progress are planned |
| Update user interface `update_ui_example.cpp` | authorizes everything, draws a bar | output |
| Certificate renewal, custom metrics | a counter | prints; returns an address |
| Heap and stack statistics `source/memory_tests.cpp` | none | diagnostic output |
| Development root of trust, certificate definitions | none | data |
| Bootloader of EVK-MIMXRT1060 | jump to the application, reset cause | assembly and registers |
| Board support, configuration headers | clock, pin and interrupt tables, options | written by vendor tools |
| RTOS ports and application entry | task switching of the RA family | vendored FreeRTOS port; empty hooks |
| `FlashIAP_LPCXpresso54628.cpp` | an earlier flash driver | not part of any build |
| Developer tools | combine images, convert certificates, drive tests | one pass from input to output, no state a later run reads |

The hazards, each at its line and with the properties that cover it, are in
`PROJECT.json`.

## 2. How the parts interact

`main()` calls `main_application` on the main thread.  In this order it starts
the storage, runs `application_init` (migration of the key-value store, then
provisioning), brings the network up in a loop that reboots after
`MAX_PDMC_CLIENT_CONNECTION_ERROR_COUNT` failures, creates the resources, and
starts the client.  A failed step makes it return.  Afterwards the main thread polls
`register_called`, or dispatches the event queue for ever when the build has one.

The client library calls back on its event loop: status and error callbacks,
writes to resources, block reads of 5000/0/2.  The pattern, button and
increment timers are events of the same loop, so handlers exclude each other.
They share flags with the main thread without a lock.  When the client announces
Sleep, the handler pauses it, closes the interface and sets `paused`; the next
timer handler that wants to notify runs `pdmc_resume`, which connects, counts
failures in the same `error_count` the error callback uses, and hands the
interface to the client.

The network stack reports changes through `network_status_callback`, which
sets `interface_connected` and breaks the nested dispatch an event-driven
connect waits in.  The key-value store and the key manager sit on the flash
drivers; a driver that reports success for what it has not done is invisible to
the modules above it, which assume atomic writes.

The models split along these lines:

    Provisioning                           before the network
    MigrateKvstore --- implements --- ServerMove      before the network
    InterfaceConnect                       connect, close, get, callback
    PdmcClient --- implements --- DeviceLifecycle     main thread, callbacks, timers
    Blinky   LargeResource                 event loop only
    FlashIAP --- implements --- FlashDevice           below the storage
    StorageRequests --- implements --- FlashDevice    below FlashIAP and the SD card
    NetworkStart                           power-on to connect, other ports
    PalPlatform                            build time

`PdmcClient` uses `InterfaceConnect` by its contract: a connect returns 0 with
the interface up or -1 with it down, and the callback may change that at any
later time.  `GetIsUp`, `ClosedStaysClosed` and `ConnectReturns` of
`InterfaceConnect` are that contract on Mbed OS, up to two races of the callback
with a connect, which they name; `NetworkStart` says what
becomes of it on the other ports (`ConnectMeansNetwork` holds on three of them,
see section 10).  `FlashDevice` is what the
storage takes its flash to be.  `FlashIAP` implements it over requests that are done or
have failed when they return, and `StorageRequests` implements it too, with such a
request as the call, over a chip that works on its own.  The two boot-time modules are joined at
"the client runs": `RunsProvisioned` and the theorem `ClientOnMigratedStore` are what
`PdmcClient` may take for granted when it starts.

## 3. Modules and code

`MCx` holds the definitions an instance of `x` needs for TLC, `xProofs` its
theorems.  Two MC modules put components side by side: `MCEventLoop` lets the steps of
`Blinky` and `LargeResource` alternate, as the event loop does, and `MCPorts` is a board
that runs either Mbed OS (`InterfaceConnect`) or one of the other ports
(`NetworkStart`).  `PdmcClientProofs` also holds those of `LargeResource`, and
`ConnectProofs` those of `InterfaceConnect` and `NetworkStart`; the second module
of each pair prefixes the names it shares with the first (`LargeSpec`,
`StartSpec`).  Each module has the mutated forms of its definitions next to the
originals ("Mutant: ..."); no specification uses them.

**`DeviceLifecycle`** is the abstract promise: booting, awake, asleep, stopped;
a notification only when awake; a sleeper that still has its `alarm` is woken or
reset.  `PdmcClient` implements it with `phase` a function of the client's state and
`alarm` the increment timer, as long as no request for it has failed.  A device whose
build lets it (`early_notify`) may also notify while it is being woken.

**`PdmcClient`**.  `main` is the program counter of `main_application`
("init", the storage, the platform and `application_init`, 78-125;
"connect" 151-166, "setup" and "flag" inside `pdmc_connect`, "poll" 185-204),
`loop` that of the event loop: idle, or inside `pdmc_resume` before its connect ("resume"), before `pdmc_client.resume` ("handover"), before the
handler's own update ("update"), or in `mcc_platform_reboot`.  The step between
`setup()` and `register_called = true` (`pdmc_example.cpp:148-149`) is an action
of its own because the event loop runs in between.  `paused` is cleared at the
beginning of the resume (line 102), as in the code, not at its end.
`Builds` is the set of builds to look at and `nested_dispatch` the one chosen
at the start: with an event queue there is one thread, no exit from the dispatch,
and handlers run from inside the connect of `pdmc_resume`.  `client` is the
library's state as its callbacks show it.  `RequestTimedEvents` is
`Blinky::request_timed_event`: any request may find no memory, no caller looks at the
result, and nothing asks for that timer again before the next boot.  The history variable
`lost` has the timers that this has ended.

**`LargeResource`**.  Buffers are numbered by allocation and `frees` counts
their `free()` calls, so that use after free and double free are visible.
`ReadFirst` is the callback at offset 0, `ReadNext` at later offsets,
`LargeResSentCb` the delivery status callback; `held` is the block the library
is still sending.  `Overlap` says whether a second read may begin before the
first was reported.

**`Blinky`**.  A pattern is the list of its fields: a delay, a negative number
or junk.  `pending` is the set of chains of timers that have not ended;
`HandlePatternEvent` lets any of them fire, which covers every choice of
delays.  `NextInt` and `FieldAfter` are what `get_next_int` returns and where it
leaves `_curr_pattern`.

**`ServerMove`** is what a migration promises: the device is pointed to the new
server, the old credentials are wiped, the move is put on record, and only then
does the client run and is issued new ones.

**`MigrateKvstore`**.  One action per key and loop.  `Replacement` is the bytes
`kv_set` is handed, with the length the code passes; `locked` is the write-once
flag that an uninitialised `info.flags` can produce.  It implements `ServerMove`:
the device is pointed to the new server when all four keys are replaced,
`migrationKey` is the record, a boot that failed to read it doubts it.

**`InterfaceConnect`**.  `pc` has a label at each point where another thread or
the stack can act.  `events` is the queue of status changes the stack has not
delivered yet.  The callback comes from the stack's own thread, so `DeliverEvent` may
happen between any two statements of a call.  Two history variables mark the races
that the code loses, until the next event is delivered: `raced`, a DISCONNECTED
delivered where the caller is about to set `interface_connected`, and `missed`, the end
of a connection delivered before `async_connect` was set.

**`Provisioning`**.  `build` is the set of compile-time options, chosen once.
One action per FCC or key manager call, the developer flow item by item.
`stage` says who called `sotp_initialize`: the boot, the storage reset or the
automatic format; its `format` value is also what prevents a second format.  A failing
`sotp_initialize` finalises FCC; called from `fcc_initialize` it is followed by
a second `fcc_finalize` (`FinalizeAgain`).

**`FlashDevice`** is a flash one call at a time: while a call runs, the pages it
covers, and no others, may hold anything; success means that they hold what was asked
for, until a later call covers them; the pages of a call that was cut are loose as
long as the chip still works on them; every call returns.

**`FlashIAP`**.  The unit is a program page.  `port` is the driver, and
`SectorStart` and `SectorSize` describe any layout of sectors.  One action is one
request to the controller; `Erases`, `NextSector`, `Targets` and `Given` are where
the drivers differ.  It implements `FlashDevice` with `Covered` the pages a call may
change (the whole sectors of an erase, the page behind on LPC) and a goal the code
promises (`Promised`: the cases of `EraseSucceeds` and `ProgramWritesBuffer`).

**`PalPlatform`**.  One action per external command (`git clone`, `pull`,
`checkout`, `submodule`, a copy, a patch and its commit, `rmtree`).  `Interrupt`
ends the command at any of them and leaves `tree` as it is; `NewVersion` lets a
reference move between and during runs.  A tree has the version of its HEAD, the
patch (committed, in the files, or half of either), the version of its
submodules, and which of its files are missing: those a patch changes and the others are
told apart.  `DeleteBegin` is a `rmtree` cut short: it leaves a directory without a usable
`.git`, or a repository that is whole but for files of its work tree.  Git takes a missing
file for a change: a checkout brings it back only where the two versions
differ in it (`StillMissing`), a pull or a patch is refused.

**`NetworkStart`**.  `port` is fixed at the start, `main` the place of the
application's thread between power-on and "online".  `rx` is the receive path:
frames in the descriptor ring, frames whose interrupt is pending, notifications
counted for the task.  A read takes a frame, finds none, or fails: then the frame
stays, and what the buffer held is passed on (`ReadFails`).  The main task runs when the interrupt and the
receive task have nothing to do (`Quiet`), as priorities on one core have it.

**`StorageRequests`**.  `chip` accepts a command only if it is not busy and, for
writes, only with the latch set; `ChipDone` is its own step.  `kept` and `line`
are what the controller's buffers and the data cache hold of each page.
`troubled` records that a transfer failed, or was cut by a reset, without any
later call having cleared it up; `clean` that the last call began otherwise.  It
implements `FlashDevice`: what the chip still has in work for a call that was cut
(`InWork`) is loose.

## 4. Runs

Passing runs:

| run | instance | distinct states | shows |
|---|---|---|---|
| `pdmc` | both builds, shipped thresholds 5 and 9 | 30,594 | the core sleeps, wakes, reboots and leaves safely in every interleaving, with timers that get lost, and implements `DeviceLifecycle` with its liveness; handlers nested in `pdmc_resume` do not lose a wake-up |
| `event_loop` | seven patterns, three starts, failing memory and timers; two readers, one read at a time, 9 bytes in blocks of 2 | 41,272 | patterns play as written however many chains read them, restart goes on, the rest ends; no use after free, double free or leak of the large resource |
| `migrate` | all presence patterns of the keys, two failures, three power losses | 247,450 | the client only runs on a whole migration, a fit device gets there, and all boots together implement `ServerMove` |
| `provisioning` | 64 builds, three developer items, two failures, two power losses | 49,565 | the client only runs provisioned, half a storage heals, a good one survives |
| `flash_iap` | six drivers, six pages, two calls with every range, one failure | 361,982 | success is true, neighbours survive, failures are reported, and each driver implements `FlashDevice` with its liveness |
| `pal_deploy` | two elements in four configurations, two versions, two failures or kills | 198,762 | reported success is up to date and patched, build directories have their sources, a deploy repeated often enough succeeds |
| `ports` | Mbed OS: five attempts, two lost links, three undelivered events; seven other ports: two failed connects, two frames | 164,736 | get hands out what is up or known to go down, close is final, connects return; reported networks are there, a full ring is read, start-ups end |
| `storage_requests` | five boards, one sector of two pages | 39,839 | reads are fresh, success was performed by the chip, and each board implements `FlashDevice` with its liveness |

Runs that show a disagreement between the code and what it says of itself
(section 10): `pdmc_errors`, `pdmc_exit_race`, `interface_get`, `pal_files`.

What the properties of the passing runs mean, and which hazard each is for:

* `AwakeClientHasInterface`, `SleeperIsWakeable`, `ResumeBudget`,
  `ExitedClientIsDone`, `NotifyOnlyWhenAwake`, `SleeperWakes`: the sleep and
  wake-up protocol.  `SleeperIsWakeable` relates the client's state to the
  flag, the registration and the timers; losing any of the three leaves a
  device that never wakes.  A timer can be lost, when there is no memory for its next
  event, and the properties say what remains true: nothing else takes a
  timer away, a sleeper that still has its increment timer, or whose resume
  has begun, is woken, and `ImplementsLifecycle` tells the two kinds of
  sleepers apart.  `ResumeBudget` is why `==` in `reboot_if_threshold_value` suffices for the resume loop;
  `pdmc_errors` shows that it does not for the other caller.
* `BufferIsOwned`, `BlocksStayInside`: the block the library sends lies in the
  live buffer, nothing is freed twice, and nothing is left behind.
* `StepsFollowPattern`, `RestartGoesOn`, `PatternEnds`: the player with
  overlapping chains of timers.
* `MigratedIsComplete`, `FlagAfterWipe`, `NewCredentialsKept`,
  `MigrationCompletes`, `ImplementsServerMove`: the flag key as a commit record.
  What a boot does that could not write it is left open by `ServerMove`, because code
  and comment differ (section 10).
* `GetIsUp`, `ClosedStaysClosed`, `DispatchIsArmed`, `ConnectReturns`: late
  events and the nested dispatch.  `GetIsUp` and `ConnectReturns` hold for a callback
  that preempts its caller anywhere, except for one race each (`raced`,
  `missed`), and for nothing but that race.
* `FccIsUp`, `RunsProvisioned`, `SecureIdentity`, `CredentialsSurviveBoot`,
  `ProvisioningCompletes`: the boot flow.  `FccIsUp` says that after `fcc_finalize`
  nothing is configured, deleted or run, in any of the stages that share
  `sotp_initialize`; a second `fcc_finalize` is all that may follow.
* `EraseSucceeds`, `OnlyRange`, `ProgramWritesBuffer`, `NoSilentFailure`,
  `ImplementsFlashDevice`: the drivers' contract.  The refinement adds what the
  others do not say: nothing outside the pages of a call changes at any moment of it, what
  a success promised stays, and calls return.  The cases one driver does not meet are
  named in the comment and in the formula of the property, and in section 10.
* `SuccessIsUpToDate`, `OutputHasSources`, `DeploySucceeds`: what the tool says
  against what is on the disk, over several runs.  `SuccessIsUpToDate` covers versions,
  patches and submodules; that the files are all there is `SuccessHasAllFiles`, and
  `pal_files` shows that it fails.
* `ConnectMeansNetwork`, `RxNeverStalls`, `StartEnds`: what a start-up reports,
  and what it waits for.  `RxNeverStalls` is about a full ring and leaves out the time after a
  failed read; what is left over in a ring that is not full waits for the next frame.
* `ReadsAreFresh`, `SuccessIsPerformed`, `ImplementsFlashDevice`: the chip behind a
  request, also one that was cut and is still in work when the next call comes.

Deadlock is checked for `pal_deploy` and `storage_requests`.  Elsewhere the system
really may stop: `main_application` returns, the bounded environment has no event
left, the device halts with a fault, or a connect waits in a dispatch whose event it
missed.

Every property has a mutant: a plausible slip in one mapped definition that
TLC shows to violate it under the configuration of its run (`PROJECT.json`).

## 5. Bounds and why they are enough

| constant | value | reason |
|---|---|---|
| `MaxErrorCount`, `MaxConnectErrors` | 5, 9 | the values of the source |
| `ErrorBound` (PdmcClient) | 14 | `error_count` is unbounded in the code; 14 is beyond both thresholds together (5 + 9 - 1 = 13), so a count that has passed both is reached.  At the bound counting stops, the resume loop itself never gets there (`ResumeBudget`, proved for every bound) |
| `CountWrap` | 2 | the properties only ask whether the button resource changes |
| `LargeResSize`, `BlockSize` | 9, 2 | four full blocks and a short one, as 2049 bytes are with every power of two as block size |
| `AllocBound` | 5 | several reads after one another; freeing and allocating repeat after two |
| `StartBound`, patterns | 3; 7 | three chains of timers at a time; empty, junk first, junk inside, negative first, negative inside, plain and zero-delay patterns |
| `NewUriLen` | 57 | longer than the 40 characters of the key's name, as real URIs with an access key are |
| `ErrorBound`, `BootBound` (MigrateKvstore) | 2, 3 | one failure in each of two boots, and power lost in each phase |
| `RetryCount`, `LossBound`, `EventBound` (InterfaceConnect) | 5, 2, 3 | the value of the source; the link lost during and after a connect; an event of each earlier attempt still queued |
| `Items`, `ErrorBound`, `LossBound` (Provisioning) | 3, 2, 2 | an item before, at and after the cut; failures in two boots; power lost twice |
| `N`, `AreaEnd`, `CallBound`, `FailureBound` | 6, 5, 2, 1 | sectors of two pages and of one in both orders, ranges that begin or end inside one, reach the end or leave the chip; the second call finds what the first left |
| `N`, `MaxVersion`, `MaxInterrupts` (PalPlatform) | 2, 2, 2 | an element done before and one after the cut; a reference that moves once; a failure in each of two runs.  Four configurations have every protocol but archives (handled as local folders or as files), every kind of reference, patches that clash or not, submodules; a cut deletion may take any of the two kinds of files.  The safety theorems hold for every bound |
| `MaxErrors`, `MaxAttempts`, `MaxCardReads` (NetworkStart) | 2, 2, 1 | 9; 3 and 40; 5 in the source: the loops only count, so one turn that goes on and one that ends suffice |
| `RingSize`, `MaxNotified` | 2, 2 | a ring with one frame and a full one; a frame that arrives while another is being read |
| `Boards`, `N` (StorageRequests) | 5, 2 | one sector: a program of one page, of both, and the neighbour; sectors do not interact |

## 6. Fairness

Liveness is checked under weak fairness of what the platform itself does, and
nothing is assumed of the cloud, the network or the user.

* `PdmcClient`: the main thread is scheduled (`MainStep`), a connect call
  returns and the resume goes on (`ResumeStep`; `ConnectReturns` says but for which
  race), an increment timer that is armed fires
  (`HandleAutomaticIncrement`), a requested reboot happens.  Nothing is assumed of
  requests for timers: they may fail, and then no handler is fair.  Fairness holds for the
  whole of `ResumeStep`: connects may fail for ever, and the reboot threshold,
  not luck, ends them.
* `Blinky`: a requested timer event is delivered.
* `MigrateKvstore`, `Provisioning`: the boot goes on, and a device that halted
  is power-cycled.  Failures and losses of power are bounded, which is what
  "once they stop" means here.
* `InterfaceConnect`: the caller's thread runs, the stack ends a connection it
  began, one way or the other, and delivers its events.
* `FlashIAP`: a driver's loop goes on.
* `PalPlatform`: a running command goes on (weak); a developer who is free to
  deploy again and again does (strong, because other commands may come in
  between), and cleans an element no deploy can repair (strong).  Interrupts and
  moves of references are bounded.
* `NetworkStart`: the interrupt and the receive task run (weak); the main
  task runs if frames let it again and again (strong: it has the lower
  priority); a network that stays reachable gives an address (weak).
* `StorageRequests`: the driver goes on, the chip finishes what it began, and the
  millisecond tick comes.

`LargeResource` has safety properties only.

## 7. What is proved

TLAPS proves the following for every value of the constants that satisfies the
named assumptions of each module.

**Application core** (`PdmcClientProofs`).  The inductive invariant `IInv`
consists of types and six facts about who may do what: before the client was
started no callback, timer or flag is active (`BootIsQuiet`); the event loop is
in the middle of a resume only with a paused client, a cleared flag and a
registered application (`LoopAgrees`); in the resume loop the count is below the
threshold (`CountAgrees`); an exited program has a client that never started or
unregistered (`ExitAgrees`); all timers run but those whose request failed, unless the
main thread is about to request them (`TimersAgree`); an awake client has an interface.  None of the
properties is inductive alone: `SleeperIsWakeable` needs `TimersAgree` for the
window between `setup()` and the timers, and `AwakeClientHasInterface` needs
`ExitAgrees` for the close of the main thread.  Theorems: `TypesHold`,
`InterfaceUnderAwakeClient`, `SleepersStayWakeable`, `ResumeLoopRebootsInTime`,
`ExitIsClean`, `NotificationsFollowResume` and `ImplementsLifecycleSafety`, for
both builds and whichever timers are lost (`AlarmFollowsLost`: only a failed request takes
the alarm of `DeviceLifecycle` away); `NotifyOnlyWhenAwake` itself is about the build with an event loop
thread (section 10), and the lemma `BuildIsFixed` carries that through a step.

**Large resource** (`PdmcClientProofs`).  `SeqInv`: at most one read is open,
its block lies in the current buffer, and no other buffer is live.  Theorems
under `Overlap = FALSE`: `SequentialReadsUseLiveMemory`,
`SequentialReadsFreeOnce`, `SequentialReadsLeakNothing`, their conjunction
`SequentialReadsOwnTheirBuffer`, `SequentialReadsStayInside` and, for the types,
`SequentialReadsTyped`.

**Blinky** (`BlinkyProofs`).  `PlayerTyped`: for all patterns and any number of
chains the position stays inside the pattern or one past its last field.
`PlayerNeverReadsNull`: NULL is read only if a `start()` may run out of memory
while a chain is pending; with `MallocFails` or `StartsOverlap` excluded it is not
read at all.  `FieldsPlayedInOrder`, `StartedHasTimer` and `RestartNeverStops`: a
step at field c plays c or nothing and leaves c behind, so what has been played
lies before the position in order, whichever chain moved it.

**Migration** (`MigrateKvstoreProofs`).  `MigrateInv` ties the position of the
loops to what has been done in this boot, with the store's flags and
`LockedHoldNew`: a key that became write-once by the uninitialised flag already
holds its replacement, so that its refusal of later writes does no harm.
Theorems: `MigrationIsComplete`, `ClientOnMigratedStore`, `FlagIsWrittenLast`,
`LockedKeysNeedNoSet`; and `IssuedCredentialsStay`, because a boot that repeats a
recorded migration has misread the flag (`RepeatsOnMisread`).  `MigrationTyped` is its
`TypeOK`; that only keys which exist are write-once follows from `LockedHoldNew`.
`ImplementsServerMoveSafety` is the refinement: the step that replaces the
last missing key points the device, and each other replacement is invisible
(`ReplaceMoves`).

**Network interface** (`ConnectProofs`), for a callback that preempts its caller
anywhere.  `ClosedInterfaceStaysClosed`, `DispatchAndBreakBelong` and
`HandedOutIsUp`: a link whose last event says that it came up is up (`NewsAgree`), and the
flag is set, or about to be, only for a link that is up, whose DISCONNECTED is still
queued for a registered callback, or whose DISCONNECTED has raced with the caller
(`FlagAgrees`).  `InterfaceTyped`: the types; one callback at most is a matter of
`ListenersHaveInterface`.

**Network set-up** (`ConnectProofs`), for every limit, ring size and number of
retries.  `ReceptionGoesOn`: the ring holds what it can, an open driver has its
receive task and no frame waits without one, and a full ring has a pending
interrupt, a counted notification or a task that is reading, unless the last read failed;
`InputReads` says what a read may do; the middle part is what keeps
the last when the driver is opened again and the ring changes under the task.  `PlacesAgree` ties
the places of the application's thread to the port, `LinkAgrees` says what is known
of the network at each, `LimitsAgree` and `DiskAgrees` where the counters stand.
Theorems: `FullRingIsRead`, `OnlineHasNetwork`, `StartStaysInLimits`.

**Storage requests** (`StorageRequestsProofs`), for every number of pages and every
choice of boards.  Neither property is near to inductive: whether a call that
returned was performed depends on whether the chip listened to its first command.
`IInv` follows the request.  A call that began without trouble and has not
failed has none (`CleanAgrees`); without trouble the chip is idle where the
driver takes it to be, has the latch when a command is sent, and uses four lines
or has been told to (`IdleAgrees`, `LatchAgrees`, `QuadAgrees`); so it takes
every command, and the pages before the position are done, those behind it
untouched, with the one in between asked for or answered (`WorkAgrees`).  What that
leaves when the call returns is `ReturnAgrees`.  On the SD card, where the driver waits
for an event, the news of a transfer is with the card, with its interrupt or with the
event, and only one of them (`EventAgrees`).  `KeptAgrees` says that every copy of
a page is what the chip holds where the interrupts are not masked.  The proof
classifies the steps by board (`StepsByBoard`) and knows each step of the chip
by a lemma (`EnabledLatches`, `AcceptedBegins`, `BusyBegins`, `ChipDoneEffect`);
`ChipStep` is the one fact about all of them that three parts rest on: only a
chip that is done with a command changes its pages.  Theorems: `RequestsAgree`,
`RequestsKeepTypes`, `MapShowsTheChip`, `SuccessfulCallsAreDone`.

`ImplementsFlashDeviceSafety` is the refinement of `FlashDevice`.  `StepKinds` sorts
the steps by what that device tells apart: a call goes on, comes back, starts, is
forgotten by a restart, or the chip ends a command.  Two facts carry it: a command is
for pages of its call (`WorkOfCommand`), and a call that returns success leaves its
pages done and the chip idle (`AgreedDelivery`, from `ReturnAgrees`), so that
nothing loose is left that could undo it.  `SuccessLasts` is what the users of the flash get
from it.

**Provisioning** (`ProvisioningProofs`).  `ProvInv` says, for each point of the
boot, what the storage has by then, and that FCC is up (`FccIsUp`, `SotpKept`,
`VerifiedRuns`, `NameFirst`, `PastChain`); `Untroubled` adds what holds when no call failed.
Theorems: `FinalizedFccEndsBoot`, `ClientRunsProvisioned`,
`IdentityComesWhole`, `ConfiguredDevicesKeepCredentials`, `ProvisioningTyped`.

**Flash** (`FlashIAPProofs`).  From `LayoutAssumption` (sectors are intervals that
follow each other) the lemmas `SectorInside` and `SectorAfter` say that a sector that
begins at a boundary ends at one, inside an aligned range.  `FlashInv` is the
loop invariant of all six drivers: pages before the position are done, pages
outside the range are as before, and a failure is remembered.  Theorems:
`FlashTyped`, `ErasesWhatItReports`, `NeighboursAreSafe`,
`ProgramsWhatItReports`, `FailuresAreReported`, each with the cases its property leaves out
(failed and small blocks on RX65N-CK, erases and sources in flash on LPC).

`ImplementsFlashDeviceSafety` is the refinement of `FlashDevice`.  The goal of an erase is
whole sectors, and on LPC the page behind the range, which `FlashInv` does not speak of:
`BehindErased` does; `InArea` keeps a program of RX65N-CK inside the chip, so that its
goal can be reached.  `RequestsCovered` says that each request stays in what its call
covers, `PromiseKept` that a successful return has reached the whole goal, by
`SectorInside` between the start of the range and the boundary where the loop stopped.
`SuccessLasts`: the goal stands until the next call.

**Deployment tool** (`PalPlatformProofs`).  `DeployInv` is the invariant of the two
loops of a deploy: elements before the present one are fetched, or patched
(`FetchedSoFar`, `PatchedSoFar`), all are fetched once the patches begin
(`FetchedAll`), a patch leaves base and submodules alone and is only begun where
the files it changes are there (`FilesThere`; `AtVersion`,
`OnlyBranches` and `CopyOnly` say which steps an element can be at).  `OutputInv`
says that generating starts with every tree in place and deleting with no build
directory.  Theorems: `ToolTyped`, `SuccessfulDeploysAreUpToDate`,
`BuildDirectoryHasSources`, for any number of elements, configurations, versions and
interrupts.

## 8. What is only model-checked

Liveness under fairness is out of the prover's reach: `SleeperWakes`, the
liveness parts of `ImplementsLifecycle`, `ImplementsServerMove` and of both
`ImplementsFlashDevice` (that no call is active for ever), `PatternEnds`,
`MigrationCompletes`, `ConnectReturns`, `ProvisioningCompletes`, `DeploySucceeds`,
`StartEnds`.  The safety parts of the four refinements are theorems, and every
invariant and every action property of a passing run is stated by a theorem.

## 9. Assumed of code outside the repository

Read off from how the source uses it; marked external in `PROJECT.json`.

* Client library: callbacks and timers run one at a time on its event loop; a
  paused client calls nothing back; Sleep and Unregistered come from a
  registered client; a registration update only after a registration; a block
  is used until it is acknowledged, a read ends with DELIVERED or SEND_FAILED.
* Key-value store: a write is atomic; a write-once key refuses every set.
* FCC and key manager: an item that exists is refused; the developer flow stores its
  items in a fixed order; the verification succeeds only if all items are
  there; items of the secure element survive a deletion; a chain with a missing
  certificate is not closed, and its device certificate may or may not stay.
* Event queue: a request for a timer succeeds or fails, and nothing is assumed of which;
  an event that was accepted is delivered.
* Network stack: a connection begun ends, with an event; events arrive in order.  Its
  thread preempts the caller's, so that a callback runs as a whole between two steps of it.
* Flash controllers: an erase request takes whole sectors or fails, a page
  written twice is garbage, a failed request leaves the old content or garbage.
  IAP's end page is inclusive.  The driver of EK-RA6M3 may refuse an address
  inside a sector.  A chip ignores commands while it is busy, and erase and program
  without the write-enable latch.
* `git`, `patch`, file system of the developer: a failed `git clone` leaves
  nothing behind; `checkout` and `pull` refuse to overwrite changed files; a
  copy, a patch or a removal may stop half-way, and a removal then has taken any of the
  files.  Git takes a file that is missing from the work tree for a local change: it is
  kept missing by a checkout that does not change it, and refuses a pull.
* Ethernet controller and RTOS: opening a driver that is open keeps or drops its
  frames (`BSP_CFG_PARAM_CHECKING_ENABLE` is 0, so it is not refused); the
  assertions of lwIP hold; the mount point is known; one core, where the task with the
  higher priority runs.  A read of a frame may fail with an error that leaves the frame in the
  ring; no further event of the controller is assumed then, and the unfilled buffer holds
  at most what the last frame left in it.  There is memory for the interface and the
  DHCP client: a failing `ethernetif_init` (397-401) or `dhcp_start`, whose results
  `networkInit` does not look at, is left out.

## 10. Findings and observations

Disagreements that a run demonstrates:

1. `pdmc_errors`: the comment at `source/pdmc_example.cpp:42` promises a reboot
   after `MAX_ERROR_COUNT` consecutive errors.  `error_count` is also
   incremented by failed connects of the wake-up, up to 8 without a reboot, and
   compared with `==` (line 438), so after five of them the threshold is gone.
2. `pdmc_exit_race`: `register_called` is set after `setup()` (line 149).  An
   Unregistered callback before that is overwritten, and the program does not end
   (`main.cpp:210`).
3. `interface_get`: `mcc_common_setup.h:51` promises an interface "with GLOBAL_UP
   state".  `mcc_platform_interface_connect` sets `interface_connected` (159, 234)
   after its last look at the link; a DISCONNECTED delivered in between is
   overwritten, and an interface that is down is handed out.
4. `pal_files`: `pal-platform.py` fetches "the required target-dependent sources"
   (700).  After a clean that was cut short (622) a repository may lack files; a checkout
   of the version it is at keeps them missing (252), and the deploy reports success
   (818).

Observations without a run, because the source makes no clear promise, or the
property names them as its exception:

* Build with an event queue: a handler nested in `pdmc_resume` notifies while the
  client is still paused, since `paused` is already cleared; and the dispatch is
  never left after Unregistered (`main.cpp:193`).
* Blinky: a `start()` without memory while a pattern plays leaves `_curr_pattern`
  NULL and the old timer pending; `handle_pattern_event` passes it to `strtol`
  (`source/blinky.cpp:142`).  `StepsFollowPattern` names this as its exception.
* Migration: the new server address is stored with the length of the name of its
  key (`source/migrate_kvstore.cpp:74, 79`), not its own (lines 49, 62); the model
  shows it as the value "cut" or "overread".
* Timers: the comments at `source/blinky.cpp:246, 268` say that the loop "should then be
  restarted after re-registration"; nothing does so, and `request_timed_event` may
  fail (235) with no caller looking.  A sleeping client whose increment timer is lost
  wakes only by the button, or never.  `SleeperWakes` names this as its exception.
* Overlapping reads of 5000/0/2 share one pointer: with `Overlap = TRUE` TLC finds
  memory used after it was freed, and a leak.
* A status callback that preempts `mcc_platform_interface_connect` between
  `connect()` and line 163 is missed, and the dispatch hangs until another event:
  the exception of `ConnectReturns`.
* Migration: a failing write of the flag is called not fatal (lines 117-119), "it will
  just cause unnecessary further LwM2M cert wiping", and still ends the boot (125,
  `application_init.cpp:310-324`).  The model follows the code; `info.flags` is read uninitialised when `kv_get_info` failed
  (line 168).
* Provisioning: with automatic format, a verification that fails for a passing
  reason formats a configured device (`application_init.cpp:245`, comment
  286-288); the minimal build ignores a failed developer flow; FCC is
  finalised twice when the first `sotp_initialize` of a boot fails (376 after 399 or 412,
  `FinalizeAgain`); an endpoint name stored without its
  chain is never repaired; `device_certificate_buffer` has the size of the signer
  certificate (`mcc_atca_credentials_init.c:336`).
* RX65N-CK: the status of a failed block is overwritten by the next (line 314), the
  step of an erase is the sector size at its start (315), a program of size 0
  writes a page (221).
* LPCXpresso54628 (`lpc546xx_flash_api.c`): an erase takes the following page
  too, and the last page cannot be erased (120); of a source in flash only the first page is
  copied (97).
* Common `FlashIAP.cpp`: the start of an erase is not checked for alignment
  (98-105).  RT1060 and RA6M3 check only the start of a program.  SPIFI reports
  no status.
* Storage requests: the RT1060 driver invalidates the cache at the offset instead
  of the address (194, 271), harmless because `main` disables the data cache
  (`ReadsAreFresh` fails without that).  A failed transfer returns before the
  software reset; after a failed status transfer, or a reset of the processor in the
  middle of an erase, the chip is still busy, ignores the next request, and that request
  reports success: the exception `clean` of `SuccessIsPerformed`.
  `port_storage_init` ignores the result of `enable_quad_mode` on the LPC board.
  `Driver_Flash.c:94` counts the base of the flash twice in a limit.  A notification
  that comes after its wait gave up makes the following wait return at once, and one
  between the end of the loop and line 123 of `event_platform.c` is lost.
* Deployment tool (`pal-platform/pal-platform.py`): a branch that is up to
  date returns before its submodules are looked at (249); a patched branch
  can no longer follow an upstream that moved (161); a failed command ends the tool
  with exit status 0 (458); a fetch is taken as done when the directory
  exists; a patch or a removal cut short needs a clean.  In particular a repository that
  lacks a file its patch changes is refused by `patch` (376) at every deploy until it
  is cleaned.
* Network set-up: on KEIL, Linux, Zephyr and NXP a connect returns 0 whatever the
  network does, which is why `ConnectMeansNetwork` names only the ports that
  check; on KEIL the result of `init_connection` is dropped and a Wi-Fi failure printed.
  On EK-RA6M3 each retry and each resume runs `networkInit` again:
  interface block, receive task, stack thread and DHCP client of the first are
  leaked and the address is lost.  Interrupts that coalesce leave a frame waiting
  for the next one (`RxNeverStalls` only promises that a full ring is served).  When
  `R_ETHER_Read` fails otherwise than with no data the assertion is not compiled in
  (`ethernetif.c:291`): the frame stays, and an unfilled buffer goes to the stack.
  On RX65N every `mcc_platform_get_network_interface` allocates four bytes; on NXP the
  result of `xTaskCreate` is ignored and the wait for DHCP has no limit.  In
  `init.c` the result of the second partition overwrites that of the first, a card
  inserted between the fifth check and the seventh is ignored (`count++ > 5`
  against `count < 5`), and `fatResult` is uninitialised without a mount point.
* `fota_platform_ifs_imp.cpp:44` multiplies the size by 100 in 32 bits; the Linux
  button is tested and cleared in two steps (53-54).

## 11. Not modelled, and why

See the table in 1.2.  Most of the files of the repository are configuration headers
(the options of mbed TLS, lwIP, FreeRTOS and the Renesas packages), code that
vendor tools generate (clocks, pins, interrupt vectors, board set-up) and the
vendored FreeRTOS port of the RA family: constants and register writes, or code
of another project, with no protocol to state a property of.  The tools that combine
images, convert certificates and fetch credentials run once from their
arguments to their output.

Within modelled components, data the properties do not
tell apart is abstracted: the payload of resources, the text of patterns beyond
what a field converts to, URIs and certificates beyond old, new and cut, printing
and traces, LED output.  The read and size functions of the flash drivers change
no state.  Of the Ethernet driver the transmit side is left out (a copy and one
call), of the NXP start-up the clocks, pins and the hooks that loop for ever.
`pal-platform.py`'s reading of its configuration and the `cmake` and `make` calls of
`fullbuild` are left out.  Alignment of flash addresses to the program page, and wrap-around of
32-bit addresses, are left to the callers.  An Mbed OS board without an
interface, and the multicast option, are left out.

## 12. Plan

Done, in this order: the application core with its abstract specification,
the large resource, Blinky, the migration, the network interface, provisioning,
the flash drivers, each with its invariant as a theorem; then the steps of
`main_application` before the network and both builds in one run of
`PdmcClient`, the deployment tool with its theorems, the network set-up of the other
ports with the receive path, the storage requests, and the migration as an
implementation of a move in one piece; last the proofs about `NetworkStart` and
`StorageRequests`, and the flash of `FlashDevice` that `FlashIAP` and
`StorageRequests` implement.

Next:

1. `FlashIAP` with the CMSIS driver of KEIL as a seventh port.
2. The button flag as a test and a clear in two steps, in `PdmcClient`.
3. FOTA hooks: registration order and lost results; the progress computation with
   its 32-bit width.
4. The scripts that combine images, as operators against a reference layout.
