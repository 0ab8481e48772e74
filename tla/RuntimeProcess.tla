------------------------------ MODULE RuntimeProcess ------------------------------
(***************************************************************************)
(* The life of the iot_app process: main() of runtime/main.cpp, which      *)
(* makes its parts in the order of its local variables, runs the main loop *)
(* and takes everything down again, by a signal or by an exception.        *)
(*                                                                         *)
(* Inside it: the steps of MqttApplicationReceiver::start() and stop()     *)
(* with the network thread of libmosquitto, the playback loop of the mpv   *)
(* player, and the status display on the OLED.  The Python application and *)
(* the renderer appear only as what main() and its parts see of them; they *)
(* are modelled in PythonApplicationManager and ScreenManager.             *)
(***************************************************************************)
EXTENDS Naturals

VARIABLES
  stage,              \* what main() does next
  resume,             \* where main() goes when the receiver has stopped
  objects,            \* the local variables of main() that hold a part
  handlers,           \* SIGINT and SIGTERM set a flag and no longer kill
  shutdownRequested,  \* the flag
  library,            \* m_libraryIsInitialized
  client,             \* m_mqttClient is set
  loop,               \* m_networkLoopIsRunning
  networkThread,      \* the thread of libmosquitto
  lit,                \* the OLED is switched on
  oledSilent,         \* history: the OLED did not take a command to switch it
  renderer,           \* the render thread
  interpreter,        \* a Python interpreter exists
  playing,            \* mpv owns the display
  exitCode

receiverVars == <<library, client, loop, networkThread>>
oledVars     == <<lit, oledSilent>>
pythonVars   == <<renderer, interpreter, playing>>
signalVars   == <<handlers, shutdownRequested>>
vars == <<stage, resume, objects, signalVars, receiverVars, oledVars, pythonVars, exitCode>>

\* The parts in the order of their declaration in main().
Parts == {"statusDisplay", "screenManager", "fileDownloader", "pythonManager", "deploymentService"}
Age   == [statusDisplay |-> 1, screenManager |-> 2, fileDownloader |-> 3, pythonManager |-> 4,
          deploymentService |-> 5]

StartUp     == {"config", "oled", "displays", "signals", "application", "screen", "downloader",
                "manager", "defaultApplication", "service"}
StartSteps  == {"initializeLibrary", "createClient", "configureClient", "connect", "startLoop"}
StopSteps   == {"stopLoop", "destroyClient", "cleanupLibrary"}
MainLoop    == {"checking", "waiting", "activating", "callbacks", "status"}
ShutDown    == {"oledOff", "stopManager", "stopScreen", "unwind"}
Stages      == StartUp \cup StartSteps \cup StopSteps \cup MainLoop \cup ShutDown \cup {"ended", "killed"}
PythonRuns  == {"defaultApplication", "activating", "callbacks"}

Init ==
  /\ stage = "config" /\ resume = "unwind"
  /\ objects = {}
  /\ handlers = FALSE /\ shutdownRequested = FALSE
  /\ library = FALSE /\ client = FALSE /\ loop = FALSE /\ networkThread = "absent"
  /\ lit = FALSE /\ oledSilent = FALSE
  /\ renderer = "absent" /\ interpreter = FALSE /\ playing = FALSE
  /\ exitCode = 0

Goes(to) == stage' = to
Make(part) == objects' = objects \cup {part}

\* An exception leaves the try block of main().
Throws == Goes("unwind") /\ exitCode' = 1

\* A step of main() from one stage, that changes nothing but what its parts name.
At(s) == stage = s /\ ~playing /\ UNCHANGED handlers

-----------------------------------------------------------------------------
(***************************************************************************)
(* Startup.                                                                *)
(***************************************************************************)

\* loadRuntimeConfig(): --help ends the process at once; an unknown argument, a second
\* one, or a bad IOT_MQTT_PORT is an error.
LoadConfig ==
  /\ At("config")
  /\ \/ Goes("oled") /\ UNCHANGED exitCode
     \/ Goes("unwind") /\ UNCHANGED exitCode
     \/ Throws
  /\ UNCHANGED <<resume, objects, shutdownRequested, receiverVars, oledVars, pythonVars>>

\* SeenGreatStatusDisplay(): one transfer switches the panel on.  Without a HAT, or if
\* the transfer fails, the process goes on without a status display.
OpenStatusDisplay ==
  /\ At("oled")
  /\ Goes("displays")
  /\ \/ Make("statusDisplay") /\ lit' = TRUE /\ UNCHANGED oledSilent
     \/ UNCHANGED <<objects, oledVars>>
     \/ UNCHANGED objects /\ lit' \in BOOLEAN /\ oledSilent' = TRUE
  /\ UNCHANGED <<resume, shutdownRequested, receiverVars, pythonVars, exitCode>>

\* A step of the startup that succeeds or throws.
Required(from, to) ==
  /\ At(from)
  /\ \/ Goes(to) /\ UNCHANGED exitCode
     \/ Throws
  /\ UNCHANGED <<resume, objects, shutdownRequested, receiverVars, oledVars, pythonVars>>

\* connectedDisplays() and choosePreferredDisplay(); see DisplayDiscovery.
ChooseDisplay == Required("displays", "signals")

InstallHandlers ==
  /\ stage = "signals"
  /\ handlers' = TRUE
  /\ Goes("application")
  /\ UNCHANGED <<resume, objects, shutdownRequested, receiverVars, oledVars, pythonVars, exitCode>>

\* PythonApplicationLoader::load() of the directory that loadRuntimeConfig() found.
LoadDefaultApplication == Required("application", "screen")

\* ScreenManager::start() waits until the backend is ready or has failed; a manager
\* whose start failed has joined its thread.
StartScreen ==
  /\ At("screen")
  /\ Make("screenManager")
  /\ \/ renderer' = "running" /\ Goes("downloader") /\ UNCHANGED exitCode
     \/ UNCHANGED renderer /\ Throws
  /\ UNCHANGED <<resume, shutdownRequested, receiverVars, oledVars, interpreter, playing>>

\* A constructor that may throw; then there is no object.
MakePart(from, part, to) ==
  /\ At(from)
  /\ \/ Make(part) /\ Goes(to) /\ UNCHANGED exitCode
     \/ UNCHANGED objects /\ Throws
  /\ UNCHANGED <<resume, shutdownRequested, receiverVars, oledVars, pythonVars>>

MakeDownloader == MakePart("downloader", "fileDownloader", "manager")

MakeManager ==
  /\ At("manager")
  /\ Make("pythonManager") /\ Goes("defaultApplication")
  /\ UNCHANGED <<resume, shutdownRequested, receiverVars, oledVars, pythonVars, exitCode>>

MakeService == MakePart("service", "deploymentService", "initializeLibrary")

-----------------------------------------------------------------------------
(***************************************************************************)
(* MqttApplicationReceiver::start() and stop().                            *)
(***************************************************************************)

\* Where stop() is called from: the error path of start(), main() and the destructor.
StopReceiver(next) == Goes("stopLoop") /\ resume' = next

\* mosquitto_lib_init(): if it fails there is nothing to undo; main() only logs it.
InitializeLibrary ==
  /\ At("initializeLibrary")
  /\ \/ library' = TRUE /\ Goes("createClient")
     \/ UNCHANGED library /\ Goes("checking")
  /\ UNCHANGED <<resume, objects, shutdownRequested, client, loop, networkThread, oledVars,
                 pythonVars, exitCode>>

\* A call of libmosquitto in start(): if it fails, stop() undoes the calls before it.
StartStep(from, to) ==
  /\ At(from)
  /\ \/ Goes(to) /\ UNCHANGED resume
     \/ StopReceiver("checking")
  /\ UNCHANGED <<objects, shutdownRequested, library, oledVars, pythonVars, exitCode>>

CreateClient ==
  /\ StartStep("createClient", "configureClient")
  /\ client' = (stage' = "configureClient")
  /\ UNCHANGED <<loop, networkThread>>

\* MQTT 5, the reconnection delay, the credentials and the callbacks.
ConfigureClient == StartStep("configureClient", "connect") /\ UNCHANGED <<client, loop, networkThread>>

Connect == StartStep("connect", "startLoop") /\ UNCHANGED <<client, loop, networkThread>>

StartNetworkLoop ==
  /\ StartStep("startLoop", "checking")
  /\ loop' = (stage' = "checking")
  /\ networkThread' = IF stage' = "checking" THEN "idle" ELSE "absent"
  /\ UNCHANGED client

\* The network thread calls handleConnected(), handleDisconnected() or handleMessage(),
\* which use the receiver, the client and the queue.
HandlerRuns ==
  /\ \/ networkThread = "idle" /\ networkThread' = "inHandler"
     \/ networkThread = "inHandler" /\ networkThread' = "idle"
  /\ UNCHANGED <<stage, resume, objects, signalVars, library, client, loop, oledVars, pythonVars, exitCode>>

StopStepUnchanged ==
  UNCHANGED <<objects, shutdownRequested, oledVars, pythonVars, exitCode>>

\* Fault: the client is destroyed without stopping its thread first.
StopNetworkLoopLater ==
  /\ At("stopLoop")
  /\ Goes("destroyClient")
  /\ UNCHANGED <<resume, receiverVars>>
  /\ StopStepUnchanged

\* disconnect, and mosquitto_loop_stop() with force: it cancels and joins the thread.
StopNetworkLoop ==
  /\ At("stopLoop")
  /\ Goes("destroyClient")
  /\ IF client /\ loop THEN networkThread' = "absent" ELSE UNCHANGED networkThread
  /\ loop' = (loop /\ ~client)
  /\ UNCHANGED <<resume, library, client>>
  /\ StopStepUnchanged

DestroyClient ==
  /\ At("destroyClient")
  /\ Goes("cleanupLibrary")
  /\ client' = FALSE
  /\ UNCHANGED <<resume, library, loop, networkThread>>
  /\ StopStepUnchanged

\* Fault: the error path of start() keeps the library.
CleanupLibraryAtEnd ==
  /\ At("cleanupLibrary")
  /\ Goes(resume)
  /\ library' = (library /\ resume = "checking")
  /\ UNCHANGED <<resume, client, loop, networkThread>>
  /\ StopStepUnchanged

CleanupLibrary ==
  /\ At("cleanupLibrary")
  /\ Goes(resume)
  /\ library' = FALSE
  /\ UNCHANGED <<resume, client, loop, networkThread>>
  /\ StopStepUnchanged

-----------------------------------------------------------------------------
(***************************************************************************)
(* Python, and the video it may play.                                      *)
(***************************************************************************)

PythonUnchanged == UNCHANGED <<resume, objects, signalVars, receiverVars, oledVars>>

\* startDefaultApplication() or activateExternalApplication() makes an interpreter.
ApplicationStarts ==
  /\ stage \in {"defaultApplication", "activating"} /\ ~playing /\ ~interpreter
  /\ interpreter' = TRUE
  /\ UNCHANGED <<stage, renderer, playing, exitCode>>
  /\ PythonUnchanged

\* The application keeps running, or its failure ends the interpreter and shows the
\* emergency screen.  Only at startup does a failed renderer end the process here.
PythonReturns ==
  /\ stage \in PythonRuns /\ ~playing
  /\ \/ UNCHANGED interpreter /\ stage # "defaultApplication"
     \/ UNCHANGED interpreter /\ interpreter
     \/ interpreter' = FALSE
  /\ CASE stage = "activating" -> Goes("callbacks") /\ UNCHANGED exitCode
       [] stage = "callbacks"  -> Goes("status") /\ UNCHANGED exitCode
       [] stage = "defaultApplication" ->
            IF renderer = "failed" /\ ~interpreter' THEN Throws
            ELSE Goes("service") /\ UNCHANGED exitCode
  /\ UNCHANGED <<renderer, playing>>
  /\ PythonUnchanged

\* playExclusiveVideoAndWait(): the render thread ends before mpv starts.
PlayVideo ==
  /\ stage \in PythonRuns /\ interpreter /\ ~playing
  /\ renderer = "running"
  /\ renderer' = "absent" /\ playing' = TRUE
  /\ UNCHANGED <<stage, interpreter, exitCode>>
  /\ PythonUnchanged

\* The playback is over, one way or the other; start() reopens the framebuffer.
ReleaseDisplay ==
  /\ playing
  /\ playing' = FALSE
  /\ renderer' \in {"running", "failed"}
  /\ UNCHANGED <<stage, interpreter, exitCode>>
  /\ PythonUnchanged

\* Fault: nobody tells the player about the shutdown.
PlayOnAtShutdown == FALSE /\ UNCHANGED vars

\* waitForPlaybackToFinish(): the flag is read at least every 100 ms.
StopPlaybackAtShutdown == shutdownRequested /\ ReleaseDisplay

\* mpv reports the end of the file, an error or its own end, some time or never.
PlaybackEnds == ~shutdownRequested /\ ReleaseDisplay

RenderThreadFails ==
  /\ renderer = "running"
  /\ renderer' = "failed"
  /\ UNCHANGED <<stage, interpreter, playing, exitCode>>
  /\ PythonUnchanged

-----------------------------------------------------------------------------
(***************************************************************************)
(* The main loop.                                                          *)
(***************************************************************************)

LoopUnchanged == UNCHANGED <<resume, shutdownRequested, receiverVars, pythonVars>>

\* The condition of the loop, and throwIfRenderThreadFailed().
CheckLoop ==
  /\ At("checking")
  /\ IF shutdownRequested
     THEN Goes("oledOff") /\ UNCHANGED exitCode
     ELSE IF renderer = "failed" THEN Throws ELSE Goes("waiting") /\ UNCHANGED exitCode
  /\ UNCHANGED <<objects, oledVars>>
  /\ LoopUnchanged

\* waitForAndProcessOneMessage(): no message in time, one that is refused, or one
\* that replaces the application.  A message can only have come through the client.
WaitForMessage ==
  /\ At("waiting")
  /\ \/ Goes("callbacks") /\ UNCHANGED interpreter
     \/ client /\ Goes("activating") /\ interpreter' = FALSE
  /\ UNCHANGED <<resume, objects, shutdownRequested, receiverVars, oledVars, renderer, playing, exitCode>>

\* Fault: the display is dropped as it is.
DropStatusDisplaySilently == objects' = objects \ {"statusDisplay"} /\ UNCHANGED oledVars

\* ~SeenGreatStatusDisplay() switches the panel off, if the transfer succeeds.
DropStatusDisplay ==
  /\ objects' = objects \ {"statusDisplay"}
  /\ IF "statusDisplay" \in objects
     THEN \/ lit' = FALSE /\ UNCHANGED oledSilent
          \/ UNCHANGED lit /\ oledSilent' = TRUE
     ELSE UNCHANGED oledVars

\* show(), once a second: the display goes when a transfer fails.
ShowStatus ==
  /\ At("status")
  /\ Goes("checking")
  /\ \/ UNCHANGED <<objects, oledVars>>
     \/ "statusDisplay" \in objects /\ DropStatusDisplay
  /\ UNCHANGED exitCode
  /\ LoopUnchanged

-----------------------------------------------------------------------------
(***************************************************************************)
(* The end of the process.                                                 *)
(***************************************************************************)

\* statusDisplay.reset() and applicationDeploymentService.stop().
SwitchOledOff ==
  /\ At("oledOff")
  /\ DropStatusDisplay
  /\ StopReceiver("stopManager")
  /\ UNCHANGED <<shutdownRequested, receiverVars, pythonVars, exitCode>>

StopManager ==
  /\ At("stopManager")
  /\ interpreter' = FALSE
  /\ Goes("stopScreen")
  /\ UNCHANGED <<resume, objects, shutdownRequested, receiverVars, oledVars, renderer, playing, exitCode>>

StopScreen ==
  /\ At("stopScreen")
  /\ renderer' = "absent"
  /\ Goes("unwind")
  /\ UNCHANGED <<resume, objects, shutdownRequested, receiverVars, oledVars, interpreter, playing, exitCode>>

\* Local variables are destroyed in reverse order.
Youngest(part) == part \in objects /\ \A other \in objects : Age[other] <= Age[part]

\* A destructor: that of the service stops the receiver, that of the manager ends
\* Python, that of the screen manager joins the render thread.
DestroyPart(part) ==
  /\ At("unwind")
  /\ Youngest(part)
  /\ IF part = "statusDisplay" THEN DropStatusDisplay
     ELSE objects' = objects \ {part} /\ UNCHANGED oledVars
  /\ IF part = "deploymentService" THEN StopReceiver("unwind") ELSE UNCHANGED <<stage, resume>>
  /\ interpreter' = (interpreter /\ part # "pythonManager")
  /\ renderer' = IF part = "screenManager" THEN "absent" ELSE renderer
  /\ UNCHANGED <<shutdownRequested, receiverVars, playing, exitCode>>

End ==
  /\ At("unwind") /\ objects = {}
  /\ Goes("ended")
  /\ UNCHANGED <<resume, objects, shutdownRequested, receiverVars, oledVars, pythonVars, exitCode>>

\* SIGINT or SIGTERM arrives.  Before its handler is installed it kills the process.
SignalArrives ==
  /\ stage \notin {"ended", "killed"}
  /\ IF handlers THEN shutdownRequested' = TRUE /\ UNCHANGED <<stage, objects>>
     ELSE Goes("killed") /\ objects' = {} /\ UNCHANGED shutdownRequested
  /\ UNCHANGED <<resume, handlers, receiverVars, oledVars, pythonVars, exitCode>>

-----------------------------------------------------------------------------
StartUpStep == \/ LoadConfig \/ OpenStatusDisplay \/ ChooseDisplay \/ InstallHandlers
               \/ LoadDefaultApplication \/ StartScreen \/ MakeDownloader \/ MakeManager
               \/ MakeService

StartReceiverStep == \/ InitializeLibrary \/ CreateClient \/ ConfigureClient \/ Connect
                     \/ StartNetworkLoop

StopReceiverStep == StopNetworkLoop \/ DestroyClient \/ CleanupLibrary

LoopStep == CheckLoop \/ WaitForMessage \/ ShowStatus

ShutDownStep == \/ SwitchOledOff \/ StopManager \/ StopScreen
                \/ \E part \in Parts : DestroyPart(part)
                \/ End

MainStep == \/ StartUpStep \/ StartReceiverStep \/ StopReceiverStep
            \/ PythonReturns \/ StopPlaybackAtShutdown \/ LoopStep \/ ShutDownStep

Next == \/ MainStep \/ ApplicationStarts \/ PlayVideo \/ PlaybackEnds \/ RenderThreadFails
        \/ HandlerRuns \/ SignalArrives

Spec == Init /\ [][Next]_vars

\* The main thread is scheduled, and main.py and every callback return once they stop
\* playing videos.
FairSpec == Spec /\ WF_vars(MainStep) /\ SF_vars(PythonReturns)

-----------------------------------------------------------------------------
(***************************************************************************)
(* Properties.                                                             *)
(***************************************************************************)

\* Types.
TypeOK ==
  /\ stage \in Stages
  /\ resume \in {"checking", "stopManager", "unwind"}
  /\ objects \subseteq Parts
  /\ handlers \in BOOLEAN /\ shutdownRequested \in BOOLEAN
  /\ library \in BOOLEAN /\ client \in BOOLEAN /\ loop \in BOOLEAN
  /\ networkThread \in {"absent", "idle", "inHandler"}
  /\ lit \in BOOLEAN /\ oledSilent \in BOOLEAN
  /\ renderer \in {"absent", "running", "failed"}
  /\ interpreter \in BOOLEAN /\ playing \in BOOLEAN
  /\ exitCode \in {0, 1}

\* Whoever still runs finds what it uses, whatever failed and in whatever order things
\* end: the network thread its client, Python the screen, the downloads and its
\* manager, the render thread its queue; and mpv has the display for itself.
UsersFindTheirObjects ==
  /\ networkThread # "absent" => library /\ client
  /\ interpreter => {"screenManager", "fileDownloader", "pythonManager"} \subseteq objects
  /\ renderer # "absent" => "screenManager" \in objects
  /\ playing => interpreter /\ renderer = "absent"

\* start() undoes exactly the steps it made: in the main loop the receiver either works
\* with all its parts or holds nothing of libmosquitto, and at the end it holds nothing.
ReceiverIsWholeOrGone ==
  /\ stage \in MainLoop \cup {"ended"} =>
       (library = client) /\ (client = loop) /\ (loop <=> networkThread # "absent")
  /\ stage = "ended" => ~library

\* The OLED is lit only while the status display exists, on every way through startup,
\* failed updates, shutdown and exceptions, as long as it takes its commands; only a
\* signal before the handlers are installed leaves it lit.
OledIsNotLeftLit == lit => "statusDisplay" \in objects \/ oledSilent \/ stage = "killed"

\* A shutdown that was asked for happens, also in the middle of a video that never ends
\* by itself and at any step of the startup.
ShutdownEnds == shutdownRequested ~> stage = "ended"
=============================================================================
