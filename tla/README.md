# Verification of the IoT application runtime

The repository holds a device runtime: a C++ process that draws with LVGL on a framebuffer, runs one
MicroPython application at a time, and replaces that application when a package arrives over MQTT from a
command-line sender. This directory holds TLA+ models of its parts and of how they work together, the
configurations that check them with TLC on small instances, and proofs that TLAPS checks for all instances.

    tlc -workers 2 -config deployment.cfg MCApplicationDeployment     # one model-checking run
    tlapm DeploymentProofs.tla                                        # one module of proofs

`PROJECT.json` lists for every definition the source lines it models, for every run its properties, for
every property a fault (a definition marked `Fault:`) that it catches, and the hazards the properties are
for. Paths below are relative to `iot_app/src/` unless they start with `iot_app`.

## 1. Inventory

Two threads of the process matter, plus the one libmosquitto runs. The **main thread** (`runtime/main.cpp`)
loops: check the render thread, wait for a deployment message until the next timer is due, process the
message, run due callbacks. It also runs all Python code, and everything Python calls. The **render
thread** belongs to the screen manager and is the only one that touches LVGL. The **MQTT network thread**
runs the receiver's callbacks and only puts messages into a queue.

| Component | State it keeps | Operations | Interacts with |
|---|---|---|---|
| Deployment controller and installer (`messaging/application_deployment_controller.cpp`, `temporary_python_application_installer.cpp`) | the last 64 final statuses, the active install directory; `.staging-<id>` and `<id>` directories | `process()`, install, remove; the constructor empties the root | publishes statuses, starts applications through the manager |
| Delivery (`iot_app_sender/send_app.py`, `messaging/mqtt_application_receiver.cpp`, `application_message_queue.cpp`) | a sender run's events and last status; the subscription; a queue of 4 messages | one run of the sender; connect, subscribe, receive; push and pop | broker (QoS 1, clean session) between sender and device |
| Screen manager (`ui/screen_manager.cpp`) and LVGL backend | widget IDs, area count, queue of 256 commands, stop flag, stored failure; widgets on the screen | drawing calls, `clear`, `showErrorScreen`, `start`, `stop`, exclusive video; the render loop | main and render thread share the queue; mpv takes over the display |
| Picture cache (`ui/jpeg_image_loader.cpp`) | decoded pictures by file, version and limits; a byte count | `loadImage`, `clearCache` | pixels are shared with queued commands and widgets |
| Application life cycle (`python/python_application_manager.cpp`, `micropython_runtime.cpp`) | the state, the interpreter, its context | start the default, activate an external application, run callbacks, stop; emergency screen | called by the controller and the main loop; clears screen and downloads |
| Timers (`iot_app/micropython_iot_modules/scheduler/`) | up to 128 timers with their remaining time; the time of the last update | `every`, `cancel`, `clear`; update; time until the next callback | Python registers, the main loop updates and waits |
| Downloads (`network/http_file_downloader.cpp`) | records and byte count of the stored files; the directory | `downloadFile`, `clearDownloadedFiles` | Python downloads; the manager clears before each start |
| Input controllers (`input/`, `iot_app/micropython_iot_modules/input/`), I2C (`platform/linux/i2c_device.cpp`) | connected or not, buttons and joystick as last read, open I2C devices, claimed GPIO lines; one HAT shared with the status display | make, `connect`, `calibrate`, `refresh`, `close`, finaliser | Python makes and polls them; they end with the interpreter |
| Process (`runtime/main.cpp`, `runtime_config.cpp`) | its local variables, the flag that signals set, the exit code | startup, main loop, shutdown, exceptions | makes and destroys every part above |
| MQTT receiver (`messaging/mqtt_application_receiver.cpp`) | library, client, network thread | `start()`, `stop()` | used by the process; its thread fills the queue |
| Video player (`video/mpv_exclusive_video_player.cpp`) | an mpv handle during a call | play and wait | called from Python through the screen manager; asks for a shutdown |
| Status display (`status/seengreat_status_display.cpp`, `font16.c`) | the panel, on or off | constructor, `show()` once a second, destructor | shares the HAT with the keys; shows the system information |
| Display discovery (`platform/linux/display_manager.cpp`, `edid_parser.cpp`) | the list of one scan, the active monitor | scan, choice; `monitors()`, `active_monitor()` | renderer, mpv and Python get the same monitor |
| Loader, metadata, message rules (`python/application_metadata.cpp`, `path_validation.cpp`, `python_application_loader.cpp`, `messaging/application_deployment_message.cpp`, `iot_app_sender/send_app.py`) | none | validate, build, parse, load | the same rules in Python and in C++ |
| JPEG decoder (`ui/libjpeg_turbo_jpeg_image_decoder.cpp`), system information (`platform/linux/system_information.cpp`), JSON | none | functions of files | cache; status display and Python |
| Bridges, logging, SHA-256 | none | | |

### What is hard here, and what correctness means

* **Deployment.** A package is answered in several steps (`received`, `validated`, then `accepted`,
  `rejected` or `failed`), and "accepted" goes out *before* the old application is stopped. QoS 1 may deliver
  a message again at any later time; file operations fail one by one; the process can be killed between any
  two steps. Correct: one answer per transfer, a start only after "accepted" and at most once, no directory
  left over, and the directory of the running application intact.
* **Delivery.** Copies, a full queue, lost statuses, disconnections, time limits on one side only. Correct:
  the exit code of the sender never says something the device did not do, copies never make the device work
  twice, queued messages are answered, runs of the sender end.
* **Screen.** IDs are handed out on the main thread long before the widget exists, the queue can refuse,
  a wipe replaces the queue while the render thread holds one more command, the render thread can fail at any
  moment, and start, stop and video wait for it. Correct: the main thread's bookkeeping is what will be drawn,
  the backend's own checks are never what fails, nobody waits for ever, and what is drawn late does not stay.
* **Pictures.** `use_count()` is read while the other thread drops references. Correct: the memory of one
  screen stays within the limit of the cache, and at most one wiped screen lingers.
* **Life cycle.** A start is a chain of calls, each of which can fail after the earlier ones took effect, and
  the renderer can fail between any two. Correct: the state tells the truth, the next application starts
  clean, the emergency screen stays, a failed renderer ends the process.
* **Input controllers.** A constructor and a `connect()` talk to a device several times and can throw at each;
  `connect()` may be called again; the HAT is shared by Python and the status display; the interpreter may end
  with controllers still open. Correct: lines and devices are held by exactly the driver objects that exist,
  and what says it is connected has been read from configured inputs.
* **Timers.** Updates come at any time and between milliseconds. Correct: no call lost, repeated or
  drifting; the wait ends at the deadline.
* **Process.** Each part can fail to start, an exception or a signal may come at any step, and a video may
  keep Python busy for ever. Correct: nobody outlives what it uses, a failed receiver leaves nothing of
  libmosquitto, the OLED is dark afterwards, and a shutdown that was asked for happens.
* **Surroundings.** Several cards number their connectors alike, EDID blocks are damaged, inputs are active
  low and big endian, axes are reversed, texts meet the edge of a panel, JPEG sizes are rounded, and the rules
  for a package are written in two languages. Correct: Python is told the monitor that is used, readings follow
  the hand, the panel can be read, a picture keeps its limits, and the device takes what the sender sends.
* **Downloads.** Files are damaged by others, removals fail, some of them unnoticed, and the process is killed
  between renaming and recording. Correct: limits hold on disk, not only in the count, but for what an unnoticed
  failure left there, and only verified files are handed out.

## 2. The modules

| Module | Models | Abstract specification |
|---|---|---|
| `ApplicationDeployment` | controller and installer | `DeploymentContract`: what the device promises a sender |
| `DeploymentDelivery` (extends it) | sender, broker, receiver, queue, controller together | |
| `ScreenManager` | screen manager, render thread, widgets of the backend | `ApplicationScreen`: one screen that each accepted call changes at once |
| `JpegImageLoader` | picture cache and the references to its pixels | |
| `PythonApplicationManager` | life cycle and main loop | |
| `InputControllers` (extends it) | gamepad, HAT keys, and the lines and devices they claim | |
| `Scheduler` | timers, the clock of the runtime, the wait | |
| `HttpFileDownloader` | the store of downloaded files | |
| `RuntimeProcess` | `main()`, the receiver's `start()` and `stop()`, the playback loop, the life of the status display | |
| `DisplayDiscovery` | the scan of the monitors, the choice, what Python is told | |
| `SystemInformation`, `StatusDisplay` (extends it) | network interfaces, temperature, the picture on the OLED | |
| `InputReadings` | positions, directions and buttons from bytes and keys | |
| `ApplicationPackage` | the rules of sender, parser, installer and loader for an application | |
| `JpegDecoder` | the size that a file is decoded to, or the refusal | |
| `SubSequences` | what a loop over a list gathers: due timers, path segments, interfaces, connectors | |

`MC...` modules give the constants small values; `MCRuntimeProcess` and `MCApplicationFiles` also check modules
side by side that share no state, one subject in each behaviour. The theorems are in `...Proofs` modules, one
for what belongs together; lemmas about collections are in `CollectionLemmas`.

| Proofs | About |
|---|---|
| `DeploymentProofs` | `ApplicationDeployment`, `DeploymentDelivery`, refinement of `DeploymentContract` |
| `LifeCycleProofs` | `PythonApplicationManager`, `InputControllers` |
| `ScreenManagerProofs` | `ScreenManager`, refinement of `ApplicationScreen` |
| `JpegImageLoaderProofs` | `JpegImageLoader`, `JpegDecoder` |
| `HttpFileDownloaderProofs` | `HttpFileDownloader` |
| `SchedulerProofs` | `Scheduler` |
| `RuntimeProcessProofs` | `RuntimeProcess`, `DisplayDiscovery`, `ApplicationPackage`, `InputReadings`, `StatusDisplay` with `SystemInformation` |
| `CollectionLemmas` | numbers, finite sets, sequences, sums |

**ApplicationDeployment.** `process()` is a chain of actions because a status that was published is out of
the program's hands and a kill may follow it: `BeginDeployment` (look-up, "received"), `RejectMessage` or
`ValidateMessage` (the parser), `FailInstallation` or `InstallAndAccept`, `ActivateApplication` or
`FailActivation` with the clean-up that follows in the code. `RepublishRememberedStatus` is the early return
for a known transfer. `stage` is the program counter. `installed[t]` says whether the directory of `t` is
absent, complete, or partial (a removal that failed half-way; `RemovalMayFail`). `answers` and
`removalFailed` are history variables. `LateRedelivery = FALSE` restricts the environment: a transfer arrives
again only while its answer is remembered. `Restart` is a kill at any point: the constructor empties the root.

**DeploymentDelivery.** Each run of the sender has its own transfer ID, so a transfer stands for its run. The
sender's waits, `wait_for_publish()` and the final status are actions; every wait may also end by its time
limit. The broker holds messages only for a subscribed session. A device that connected but was refused the
subscription is `"deaf"`, as in the code, which only logs that. The network thread pushes, the main thread
pops, and the actions of `ApplicationDeployment` are used as they are. A published status may be lost, or be
on its way for any time: libmosquitto keeps it while the device is not connected.

**ScreenManager.** A drawing call takes the mutex once and otherwise touches variables of the main thread
only, so it is one step; the render thread takes a command under the mutex (`TakeCommand`) and runs it
outside (`ExecuteCommand`), so calls fall between. `start`, `stop` and the video consist of a request, the
render thread's own steps, and the join or the promise. `Accepts` is the backend's check for unknown and
duplicate widgets. Geometry, text and colours are left out. `BackendKnowsEveryWidget` is about
`failure = "unknownWidget"`, which records *why* the thread failed. The render thread may draw a widget that the
main thread has forgotten already, since a deletion or a wipe can queue up behind the command that creates it:
`LateDrawingIsUndone` says that whenever a forgotten widget is drawn, what takes it away again is still waiting.

**JpegImageLoader.** A picture is what the cache key tells apart; a buffer is a picture with a copy number, so
that decoding twice gives two buffers. The references are computed (`Held`), not counted: they are the queued,
executing and shown commands. A scan of the cache is two steps, `StartScan` and `EvictLeastRecentlyUsed`,
because the render thread may drop references in between; entries freed meanwhile may or may not be seen.

**PythonApplicationManager.** `step` is the next call of a start. The renderer may fail between any two steps,
and it is noticed only where the code asks. Application code may draw and download while its interpreter runs.

**InputControllers.** The steps of the life cycle are used as they are; `WithControllers` adds what the end of
an interpreter does to the controllers in it. Whether `mp_embed_deinit()` runs the finalisers is up to
MicroPython, which is not in the repository: `InterpreterEnds` allows both, and controllers that were not
finalised stay `Abandoned`, with what they hold. A call of Python is one step, since only the main thread
calls, with a choice of where it fails (`ConnectSteps`). A reset whose write fails may have reached the
processor, which `resetBy` and `inputsConfigured` remember: two gamepad objects can talk to the same board.
Directions, buttons and the measured centre are in `InputReadings`. `UpdateReadings` stores the buttons before
the joystick is read, as the code does.

**Scheduler.** Time is in ticks; a millisecond has several, because the runtime carries fractions from one
update to the next. `Update` is `runScheduledCallbacks()` up to the first callback, which gathers the due ones.

**HttpFileDownloader.** A file is named by the hash of its content. Each step of `downloadFile()` is an
action, because others may damage files and the process may be killed between them. The byte counts are sums
over the recorded files. `~TemporaryDownloadFile()` ignores that a removal fails (`DropTemporary`): `leftover` are
the bytes of temporary files that stay, after a kill too, and the history variable `unremoved` adds up what failed
removals have left since the directory was last emptied. A failed transfer, a content that was there already and
a file that was renamed but not recorded all end there. An empty temporary file that stays is no byte, so the
model does not see it.

**RuntimeProcess.** `stage` is the program counter of the main thread: the steps of the startup, those of the
receiver's `start()`, the main loop, those of `stop()`, and the end. `objects` are the local variables of
`main()`, destroyed in reverse order by `DestroyPart`. `stop()` is called from three places, so `resume` says
where it returns to. `HandlerRuns` is the network thread; it needs no more than that it is there and uses the
client. Signals come between any two steps (`SignalArrives`), with the default action until `main()` has
installed its handlers. The panel takes a command or does not; `oledSilent` remembers that it did not. What
Python does is reduced to what the process sees: an interpreter, a video, the renderer.

**DisplayDiscovery.** A card is what libdrm says of it. `ConnectedDisplays` is the scan with its filter, order
and the walk from connector to mode; `ParseEdid` keeps of a block what decides: length, header, checksum, the
letters, the descriptors. The property compares the scan of `/dev/dri` in every order of its entries.

**StatusDisplay.** The frame is a set of rectangles and texts. `ClippedAppName`, `TemperatureText` and the
choice of the interface are translated; of the pictures of characters there remain which characters have one,
and which columns the letters of the title use in `font16.c`, since the title draws them a pixel wider.
`SystemInformation` has what `getifaddrs()` and the thermal zones are turned into.

**InputReadings.** A byte is the set of its bits, so that masks are set operations. `LevelBytes` is what the
board sends for the buttons held down, with unused inputs at any level. `stick`, `held` and `calibrated`
remember what was true of the hand.

**ApplicationPackage.** Fields are what the rules look at: a length, a character class, the segments of a path,
the identity of a content. `BuildMessage` is the sender up to the publish, `IsValidMessage` the parser,
`Install` the installer, `Loaded` what the loader would make of the files that it wrote.

**JpegDecoder.** `decode()` as one operator over the state `file` and `request`, with the scaling factors of the
library as a sequence, because the first of equal factors is kept. `DecodedPictureFits` names the two reasons for
which a file that can be decoded is refused; `LargestSizeIsDecoded` is what the interface promises (Finding 3).

## 3. Runs

| Run | Question | Bounds |
|---|---|---|
| `deployment` | Does the controller keep the contract with the sender, clean up, and keep the running directory intact, when removals fail and copies arrive while remembered? | 3 transfers, memory of 2 |
| `deployment_late_redelivery` | Is an application that was just started installed, if a copy arrives after its answer was forgotten? (violation) | 2 transfers, memory of 1 |
| `delivery_copies` | Is the assumption of `deployment` justified by the queue and the broker? | 3 transfers, memory 2, queue 1, 1 in transit, 4 publishes |
| `delivery_restart` | Is the exit code true, and is every queued message answered, with restarts, disconnections, late copies? | 2 transfers, memory and transit 1, queue 2, 3 publishes |
| `screen` | Does the bookkeeping match what will be drawn, and does the whole implement one screen? | 2 widgets, queue 2, 2 areas, batch 2 |
| `screen_liveness` | Do widgets appear, calls return, refreshes happen? | 1 widget, queue 2, 1 area, batch 2 |
| `application_files` | Is the memory for pixels bounded? | 2 small and 1 large picture, cache of 3 units, 2 slots, queue 2 |
| | Does a decoded picture keep its limits? | 27 files around the limits of size, 144 requests, the 16 factors of libjpeg-turbo |
| | Are the limits of downloads kept, is nothing in the directory without a record, are answers verified? | 3 contents of sizes 1, 1, 2; limits 2 and 3; failed removals leave up to 3 bytes |
| `jpeg_largest_size` | Is the largest size decoded that all limits allow? (violation) | the same |
| `manager` | Is the state true and the start clean, whatever fails; do activations end; are lines and devices those of the controllers, and connected ones ready? | default and 2 external applications, 2 controllers, with or without the status display |
| `scheduler_timing` | Do calls match deadlines and waits end at them? | 2 timers at a time, 3 in all, intervals 2 and 3 ms, 2 ticks per ms, 16 ticks |
| `scheduler_first_call` | Can a timer be called at once? (violation) | the same |
| `runtime` | Does the process come down in a safe order and in time, from every failure and signal? | none |
| | Is Python told the monitor in use? | up to 2 cards of 9 kinds and a render node |
| | Is the panel legible, and the address on it one that reaches the device? | up to 3 addresses of 6 kinds, up to 2 zones of 13 kinds, names of 0 to 40 characters |
| | Do readings follow the hand? | 4 raw values, 6 buttons, 4 grips, 4 calibrations, dead zones around the limits; all 256 sets of keys |
| | Do sender and device agree on a package? | each field at its limits, 13 entry points, 6 sources |

**Why the bounds are enough.** The code treats transfers, widgets, pictures and hashes alike, so what matters
is that each limit can be reached and crossed. A memory of two answers and three transfers evicts; a queue of
one or two is full while one more message is in transit; three publishes allow a copy of one transfer behind
another; two widgets and a queue of two make every order of create, delete and wipe around a taken command; a
batch of two ends with commands left; a large picture needs two evictions; intervals 2 and 3 meet at 6 and an
update may be late by several of both; the stick has its ends, and two values at rest, which is all that a
comparison with a centre and a dead zone can tell apart; the bytes that failed removals may leave hold the large
content and a small one, or all that fits in the directory; names, temperatures, sizes and identifiers are taken on
both sides of every limit the code compares them with; a download fits one limit and not the other;
two controllers are two gamepads on one board, two pairs of keys on one HAT, or one of each. For the safety properties
that the theorems cover the bounds do not matter at all.

`InputTypeOK` and `TypeOK` of every module with theorems are proved, those of `Scheduler` and `RuntimeProcess`
although no configuration lists them. `DecoderTypeOK` and `StatusTypeOK` say what the inputs of two functions may
be; they are the hypotheses of the theorems about these functions, and hold in every state of the runs when they
are added to a configuration. That of `DeploymentDelivery` does too.

The bounds on counters are `MaximumWidgetId`, `MaximumPublishes`, `MaximumInTransit`, `MaximumTaskId`,
`MaximumTime`, `MaximumUnremovedBytes` and `Copies`; the other constants are limits of the code. `MaximumElapsed` is 100 in the runs
and never reached, so the saturation at `UINT32_MAX` (49 days) is modelled but not exercised; the theorem about
deadlines has it as its hypothesis that updates come in time. The deadlock
check is off for `manager` and `runtime` (the process ends) and the two timer runs (the clock stops).

`delivery_copies` sets `PromptCopies`: the broker gets a copy only while the original is unanswered, which is
what an MQTT client does that repeats a publish until it is acknowledged. With it, a memory at least as long
as what fits in front of a copy (queue and transit) suffices; the code has 64 against 4, and this is proved for
all lengths (`CopiesStayRecognised`).

### Findings

1. *A late copy destroys its own application* (`deployment_late_redelivery`, `StartedApplicationIsInstalled`). If
   a transfer that is running arrives again after 64 others pushed its answer out (they may all have been
   refused, so it still runs), the copy is installed over the directory of the running application, accepted and
   started; `process()` then removes "the previous directory", which is the same path
   (`messaging/application_deployment_controller.cpp:84-92`). The comment on
   `removeInstalledApplication()` says it removes an app "that is no longer needed". The trace of the run ends in
   that removal. A reinstallation that fails half-way harms the directory of the running application as well,
   which is why `ActiveDirectoryIsIntact` also needs the assumption on copies.
2. *A timer can be called at once* (`scheduler_first_call`, `CallIsNotImmediate`). A timer registered by a slow
   callback is charged with the whole time since the last update, also the time before it existed. The API
   guide (`iot_app/docs/micropython-api/README.md:1054-1055`) says the callback is not called immediately.
3. *A picture that could be decoded smaller is refused* (`jpeg_largest_size`, `LargestSizeIsDecoded`). The decoder
   chooses the largest factor that the request allows and only then looks at the 32 MiB for pixels
   (`ui/libjpeg_turbo_jpeg_image_decoder.cpp:182-194`), so that a file of 4096 x 2731 pixels is refused at 100 %,
   although 7/8 of it fits. `ui/internal/ijpeg_image_decoder.h:35` says that `decode()` "decodes the largest JPEG
   size allowed by the request and safety limits".

### Fairness

* `FairDeliverySpec`: weak fairness of the main thread (`MainThread`; the loop waits for the queue and always
  returns to it). Nothing is assumed of the senders, the broker, the network or the receiver.
* `RuntimeProcess!FairSpec`, and the same in `MCSpec`: weak fairness of the main thread, which includes the look
  at the shutdown flag every 100 ms of a video, and strong fairness of Python's return, since a script may play
  one video after the other, but not for ever. Nothing is assumed of mpv, the network or the signals.
* `ScreenManager!FairSpec`: weak fairness of the render thread and of the main thread's continuation of a
  call already made. The operating system schedules both. Nothing obliges the application to call, and no
  command is assumed to succeed. The continuation of `playExclusiveVideoAndWait()` includes that the player
  returns, so `CallsReturn` assumes that a video ends or is stopped; what a shutdown does about a video that does
  not end is in `RuntimeProcess`.
* `InputControllers!FairInputSpec`: the fairness of `PythonApplicationManager!FairSpec` on the composed steps,
  that is, weak fairness of the steps of a start and of the loop. Controllers add none. It assumes that
  `main.py` and every callback end; the code has no limit on Python code, and a script that loops for ever
  does stop deployments (listed among the hazards).

## 4. Proofs

All theorems hold for every value of the constants that satisfies the `ASSUME`s in the modules. These say
little: identifiers are distinct, limits are positive, sizes are natural numbers, each button has a
pin of its own, and a stick has values beyond the default dead zone.

**`DeploymentProofs`, one device.** `TypeCorrect`, `MemorySoundness`, `NoDirectoryLeaks`, `RunningIsTracked`
and `RememberedAnswersAreStable` hold with failing removals and with `LateRedelivery = TRUE`. The checked
invariants speak about the moments between two messages; `IInv` adds what is true inside `process()`: the
transfer being worked on has no remembered answer (`CurrentIsForgotten`, from the look-up), an accepted one is
installed and was told so, a directory is active, about to be, or could not be removed. Pushing an answer is a
lemma of its own (`PushResult`, `PushKeepsMemorySound`): the list shifts by one when full, so positions are
compared with an offset. `ActiveDirectoryStaysIntact` and `ControllerImplementsContract` assume
`~LateRedelivery` and need `FreshInv`: the transfer in work was never answered, hence is not the active one
(which was answered "accepted"), so neither installing nor cleaning up touches the active directory. Finding 1
shows that the assumption is needed. What the proofs use of it is only that a deployment that begins is of a
transfer without an answer (`BeginsFresh`), so that `StepKeepsFreshInv` and `StepKeepsContract` serve behind the
queue too. The refinement maps the four steps that publish or start to steps of `DeploymentContract` and all
others to stuttering.

**`DeploymentProofs`, with senders and broker.** The queues hold transfers, so every step behind sender, broker and
network is a step of `ApplicationDeployment` or leaves it alone (`DeliveryKeepsDeployment`): what is proved there with
`LateRedelivery = TRUE` holds here too. `ExitCodesAreTrue` is proved from `ExitInv`: `ExitCodeIsTrue` alone says
nothing about a status that is still on its way to a sender, so the invariant adds that each of these was
published for its transfer (`ResponsesWerePublished`). That a remembered answer can be told again needs the
type of the memory, which comes from `TypeCorrect`.

`CopiesStayRecognised`, `DeliveredApplicationStaysIntact` and `DeliveryImplementsContract` discharge the assumption
`~LateRedelivery` behind the queue. They assume `PromptCopies` and
`MaximumQueuedMessages + MaximumInTransit <= MaximumRememberedDeployments`: with the 4 and 64 of
`runtime/runtime_config.h:19-20` up to 60 messages may be in transit. Restarts are allowed. The invariant counts
(`MeetsMemory`): a copy in place `n` of what waits whose answer is in place `i` of a memory of `l` answers has
`l + n` (and one more while a deployment is in work) at most the length of the memory plus `i`. Taking a
message brings the waiting copies one place forward, and the answer it leads to moves the remembered ones at most
one place towards being forgotten. A copy enters only before its answer is published, so it finds room behind it.

**`LifeCycleProofs`, the manager.** `StateIsTrue` is not inductive: it says nothing inside a start. `IInv`
says for each step of a start what the earlier ones achieved (`StartProgress`: after the first step nothing
runs; between context and interpreter only a context exists; while `main.py` runs both exist and the manager
holds neither) and that screen and downloads were emptied before an interpreter exists (`StartIsPrepared`). It
gives `PreviousIsGone`, `StateNamesTheTruth`, `ApplicationsAreSeparated` and `EmergencyScreenIsKept`.

**`LifeCycleProofs`, with controllers.** `ControllersKeepLifeCycle` shows that every step with controllers is a step of
`PythonApplicationManager` or leaves it alone, so all theorems about the life cycle hold here
(`StateNamesTheTruthWithControllers` is one). The inductive invariant joins types, claims and readiness. Two
parts of it are needed only for the induction: a controller belongs to the interpreter that exists, to nobody,
or is abandoned, so that the end of an interpreter reaches all that Python can use; and what is connected
exists, so that an object made later in the same place starts unconnected. `ManagerStepCases` says what the
life cycle may do to the interpreter, `DestroyKeepsIInv` covers closing, finalising and the end of the status
display at once. `ClaimsAreControllers` and `ConnectedMeansReady` follow.

**`HttpFileDownloaderProofs`.** `OnlyVerifiedAnswers` follows from the types, from requests being served only for
an application, and from the content being known and expected after the verification. `EveryFileIsRecorded` and
`DiskUsageStaysBounded` are proved together (`DiskInv`). While an application runs, the bytes without a record are
at most those that failed removals left (`unremoved`): a step of a call only takes from the store, or leaves a
temporary file and counts it (`ShrinkingStoreKeepsDisk`, `DroppedTemporary`), and a file that is put in place is
recorded or was such a one before. A limit is not spent twice: from the start of a transfer the recorded files and
the *whole* transfer that was allowed fit together, and what is put in place is not recorded yet
(`TransferFits`). All that is on disk is then what is recorded, what is in transfer and what is without a record
(`BytesOfParts`); after a kill nothing is recorded, but neither does anything come in before the directory is
emptied.

**`CollectionLemmas`.** `SumFunctionOnSet` is a recursive function over sets, and the library's induction theorems
cannot be used. The lemmas use the least counterexample instead: where a statement fails for a finite set it fails
for one of least cardinality (`LeastSet`), and one element less is a contradiction. This gives that the recursion
has a solution on every finite set (`SumsExist`), that a sum does not depend on the order (`SumWithout`,
`SumWith`), and that a part sums to no more than the whole (`SumOfPart`). What a loop gathers from a list is given
by the places of the gathered elements (`SubSequences`), so that it needs no induction over the list: there is
exactly one `n`-th smallest number of a finite set (again by least counterexamples), hence `ElementsAt` has the
elements at these places and no others, in the order of the list.

**`ScreenManagerProofs`.** `BackendKnowsEveryWidget` says that no command met a missing or a double widget;
inductively, *none of the commands that wait will*. `ScreenIsSound` says so of the work, that is, the command in
flight and the queue: wipes stand only at the head of the queue (`WipesAreFirst`), each change or deletion finds
its widget after the commands before it (`WorkFindsWidgets`), each creation is of a new ID (`CreationsAreNew`),
and IDs and area counts are what all of the work makes (`ids = PromisedWidgets`). `FilledAreasFit` had to be
stronger than the checked bound: while an area is being drawn and a wipe is queued behind it, the promised count
does not include that area, but the backend will hold it. `ThreadsAgree` ties the main thread's waiting to the
render thread's state, so that all is empty when rendering begins again. What a command at place `n` finds is what
the last command before it that concerns the widget left, so a proof about a step compares the work before and
after it place by place: taking a command does not change the work, running it drops the first place, a call adds
one at the end, a wipe keeps only the first. From `IInv` follow `BackendFindsWidgets`, `IdsMatchScreen`,
`VideoHasTheDisplay`, `LateDrawingIsAlwaysUndone`, and the refinement of `ApplicationScreen`
(`ScreenKeepsItsPromise`), with this mapping: accepted calls, start and end of the rendering are the steps of the
abstract screen, a refused drawing call is `Refuse` there if it used up its ID; taking and running commands,
refreshing and all waiting are stuttering.

**`JpegImageLoaderProofs`.** The checked bounds follow from where buffers can be. `ScreenIsCached`: what belongs to
the present screen is in the cache or just being decoded, and the cache holds a picture once.
`OldScreenIsLeaving`: what was cleared while still in use is held by the render thread alone, and a wipe that has
nothing of the new screen in front of it is queued or being executed; hence a second clear finds nothing of a
screen before the last. `SeenAreFree`: what a scan found free stays free until it is evicted, because references
are made only from the cache and only by the main thread, which is in the scan. This is why reading `use_count()`
beside the render thread is sound. The byte count is then a sum over the cache (`TypeOK`), and the theorems
`ScreenPixelsStayBounded`, `OldScreensGo` and `PicturesAreShared` are sums of parts of it. `CopyIsFree` shows that
the bound `Copies` is never reached.

**`JpegImageLoaderProofs`, the decoder.** `DecodedPicturesFit`: whatever factors the library has, in whatever order, a
decoded picture keeps the limits of the request and of the decoder and is the largest that the request allows; and
a file that can be decoded is refused only if no factor meets its width or height limit, or if that largest picture
exceeds the memory for pixels, even where a smaller one would fit (Finding 3). The factors are compared by cross-multiplication; a
largest allowed factor exists because the factors are finitely many fractions, and rounding up is monotonic
(`RoundedUpGrows`), so the largest factor also gives the largest picture. The assumption is that the least
percentage of the decoder allows some factor of the library, which is 1/8 against 13 % in practice. The
hypothesis `DecoderTypeOK` says that sizes are natural numbers.

**`SchedulerProofs`.** `WaitsEndAtDeadlines` is about one state, and needs the type invariant together with what
holds of each phase (`PhaseOK`: there is a last update once `main.py` has ended, and no list after an exception).
`CallsMatchTheirDeadlines` needs a relation to the past. For a task of `main.py`,
a deadline is a multiple of the interval counted from the end of `main.py`; the invariant says that the time of
the last update plus the remaining time *is* such a multiple, and the next one (`OnGrid`). A late update of
several intervals keeps it, because the code subtracts what is left of the division and not the elapsed time; and
that the division is of milliseconds, whereas updates come between them, does not matter because the fraction is
carried over. The hypothesis `UpdatesComeInTime` says that no update comes more than `MaximumElapsed` after the one
before (49 days in the code); beyond it the elapsed time saturates and the timers do drift.

**`RuntimeProcessProofs`, the process.** It has no constants, so the run covers all its states; the theorems
say why it is right. `ProcessInv` joins the types, what libmosquitto holds at each stage of `start()` and `stop()`
(`ReceiverInv`), which parts exist at each step of startup, loop and shutdown (`PartsInv`), and the properties about
users and the OLED. That a failed receiver holds nothing is inductive only with the stages in between, each of
which undoes exactly what the earlier ones did.

**`RuntimeProcessProofs`, monitors, packages, readings, status.** These hold for all values of the constants: every
content of `/dev/dri` with distinct names and connector IDs, every set of packages, configurations and foreign
messages, any wiring, range of the stick, noise at rest and sampling.
`MonitorsAreFound`: exactly one entry is active because no two displays of a scan have the same identifier. That
needs the whole scan: comparing card numbers as text is a total order (`CardsAreOrdered`), so each card has a
place of its own and sorting loses and repeats none (`DevicesAreSorted`); a card lists each connector once
(`DisplaysOfCard`); and joining the lists of different cards keeps identifiers apart (`FlattenedIds`, where the
recursion of `FlattenSeq` is solved with least counterexamples). That a text of an EDID block is clean follows from the
first padding character and the last character that is no space (`TrimmedIsClean`).
`PackagesAreUnderstood`: the invariant says from which package message and files were made; what the sender lets
pass satisfies the parser's rules field by field, and the segments of an entry point that ends in a file are the
same for both sides.
`ReadingsFollow`: of each axis, the position is what the stick says or the centre just measured, a centre measured
at rest is a mean of resting values and so lies between them (lemmas about sums), and a value is outside the dead
zone on the side to which the stick is pushed. `StatusCanBeRead`: the run has names of at most 40 characters and a few addresses; the
theorem has every name, any number of interfaces and zones, and every temperature. The lengths of the three texts
are bounded (`TextsFit`), which bounds the boxes on the panel, so that they lie inside of it and do not overlap.
`ShownAddressesAreReachable` is the part about the choice of the interface: an address is shown exactly if one leads
to the device, and it is one of that interface's, in whatever order and however often the system lists interfaces.

**Only model-checked:** liveness, since fairness and ENABLED are out of the prover's reach (`QueuedMessageIsAnswered`,
`CallsReturn`, `DisplayKeepsRefreshing`, `DrawnWidgetAppears`, `ActivationEnds`, `RenderFailureEndsProcess`,
`ShutdownEnds`). All invariants, action properties and refinements of the passing runs are proved, with the
hypotheses named above. The findings are violations and are shown by their runs.

## 5. Observations

Met while modelling, and in no run, because no document of the repository says otherwise or the case is outside
the bounds of a model:

* An entry point `"main.py/"` passes the sender, for which it is the file `main.py`, and is refused by the device,
  whose file name is what follows the last slash (`EndsInFile` in `PackageIsUnderstood`).
* A name of more than about 10,000 characters that need escapes is installed with an `app.json` that is larger
  than the 64 KiB the loader reads. Deployments do not read it back, so they work.
* A name with a null character passes the sender; the JSON of the device cuts it there or refuses the document.
* A name with half of a surrogate pair (an escape in the JSON of the package) passes the sender, which escapes it
  again, and cJSON refuses the message. Names are characters in the model, so neither case is in it.
* A downloaded temporary file whose removal fails (`network/http_file_downloader.cpp:64-70`) stays until the next
  application starts, without a record, a word in the log or a place in the byte count, so the directory can
  exceed `maximumStoredDownloadedFilesSizeInBytes` by as much (`unremoved` in `DiskUsageIsBounded`).
* A message that meets a full queue is acknowledged to the broker and only logged; the sender ends with its time
  limit and exit code 1, which promises nothing. `ExitCodeIsTrue` is about the codes 0 and 2.
* `choosePreferredDisplay()` takes `HDMI-A-1`, or else the first display, without looking at its mode; the process
  then ends, although another display may have one.
* A receiver whose start failed is not started again until the process is; the device then runs without MQTT.
* A callback that an earlier one of the same update cancelled still runs once (the guide does not say).
* A refresh of the gamepad that fails after its buttons were read leaves buttons and joystick of different
  moments (the call throws; the guide, which speaks of one refresh cycle in
  `iot_app/docs/micropython-api/README.md:1753-1780`, does not say what they are then).
* A file replaced within the resolution of its time stamp by one of the same size is taken from the cache.

## 6. Not modelled, and the plan

Order followed: deployment first, because it decides what the device runs; then the screen with its two
threads; delivery and life cycle around them; then the stores and timers; then the process that holds them, and
what it computes of its surroundings. What is next:

1. **Composition** of the life cycle with the screen, the cache and the downloads, replacing the promised
   screen of `PythonApplicationManager` by the real one; the life cycle as the activation of the controller.
2. The argument checks of the display module (`iot_app/micropython_iot_modules/display/mod_iot_display.c`) and the
   other readers of `platform/linux/system_information.cpp`.

Left out for good: mpv, libdrm, libjpeg-turbo, libmosquitto and cJSON, of which the models have what the callers
see; the other native bridges (conversion between C and C++); logging and SHA-256 (a line on a stream, and a hash
that stands for what it is of); the pixels of characters and pictures; the device image and build files. Symbolic
links inside a package are left out of `ApplicationPackage`. The memory model of C++ is not modelled: data shared
between threads is under the mutex or a promise in the code, and `use_count()` is treated as a read at some moment
of the scan.

Hazards without a property: a refused subscription (deliberate in the code) and endless Python code, which
nothing in the runtime limits.
