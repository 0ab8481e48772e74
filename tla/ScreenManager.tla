----------------------------- MODULE ScreenManager -----------------------------
(***************************************************************************)
(* The screen manager, its render thread and the widgets of the LVGL       *)
(* backend (ui/screen_manager.cpp, ui/lvgl_framebuffer_render_backend.cpp).*)
(*                                                                         *)
(* The main thread calls the public operations.  Each takes the state      *)
(* mutex at most once and otherwise touches only variables of the main     *)
(* thread, so a call is one step, except start(), stop() and               *)
(* playExclusiveVideoAndWait(), which wait for the render thread.  The     *)
(* render thread takes one command under the mutex and runs it without     *)
(* the mutex, so the main thread's calls fall between those two steps.     *)
(***************************************************************************)
EXTENDS Naturals, Sequences, FiniteSets

CONSTANTS
  MaximumWidgetId,        \* bound: calls that would give a widget a higher ID are not made
  MaximumPendingCommands, \* m_maximumPendingCommands
  MaximumFilledAreas,     \* maximumFilledAreasPerScreen
  MaximumBatch            \* maximumRenderCommandsPerBatch

ASSUME ScreenAssumption ==
  /\ MaximumWidgetId \in Nat \ {0}
  /\ MaximumPendingCommands \in Nat \ {0}
  /\ MaximumFilledAreas \in Nat \ {0}
  /\ MaximumBatch \in Nat \ {0}

VARIABLES
  caller,           \* what the main thread is doing: see Callers
  ids,              \* m_textBoxIds and the keys of m_jpegImageSourceStatesById
  nextWidgetId,     \* m_nextWidgetId
  filledAreaCount,  \* m_filledAreaCount
  pending,          \* m_pendingRenderCommands
  stopping,         \* m_stopping
  failure,          \* m_renderThreadFailure: none, or what raised it
  thread,           \* where the render thread is: see Threads
  processed,        \* processedCommandCount
  inFlight,         \* the command taken from the queue that is being run, if any
  started,          \* the initialization promise
  open,             \* backend: m_isInitialized
  shown,            \* backend: m_textBoxes and m_jpegImageWidgetsById
  filledAreas,      \* backend: filled-area objects on the active screen
  background,       \* backend: m_backgroundJpegImageWidget is set
  errorShown        \* backend: m_errorScreenLayer is set

mainVars    == <<ids, nextWidgetId, filledAreaCount>>
sharedVars  == <<pending, stopping, failure>>
threadVars  == <<thread, processed, inFlight, started>>
backendVars == <<open, shown, filledAreas, background, errorShown>>
vars == <<mainVars, caller, sharedVars, threadVars, backendVars>>

Kinds     == {"textBox", "image"}
WidgetIds == 1..MaximumWidgetId
Callers   == {"idle", "starting", "stopping", "releasing", "playing"}
Threads   == {"absent", "initializing", "drawing", "refreshing", "waiting",
              "failing", "closing", "finished"}
Failures  == {"none", "backend", "unknownWidget"}

WidgetOps == {"create", "change", "delete"}
Wipes     == {"clear", "error"}
ScreenOps == Wipes \cup {"fill", "setBackground", "clearBackground"}

\* A queued command: what it does and the widget it is for.
Command == [op : WidgetOps, kind : Kinds, id : WidgetIds]
             \cup [op : ScreenOps, kind : {"screen"}, id : {0}]

For(op, k, w) == [op |-> op, kind |-> k, id |-> w]
Screen(op)    == [op |-> op, kind |-> "screen", id |-> 0]
NoWidgets     == [k \in Kinds |-> {}]

Init ==
  /\ caller = "idle"
  /\ ids = NoWidgets /\ nextWidgetId = 1 /\ filledAreaCount = 0
  /\ pending = << >> /\ stopping = FALSE /\ failure = "none"
  /\ thread = "absent" /\ processed = 0 /\ inFlight = << >> /\ started = "no"
  /\ open = FALSE /\ shown = NoWidgets /\ filledAreas = 0
  /\ background = FALSE /\ errorShown = FALSE

-----------------------------------------------------------------------------
(***************************************************************************)
(* The main thread: drawing calls.  A call that throws changes nothing,    *)
(* but for the ID it may have used up.                                     *)
(***************************************************************************)

\* throwIfRenderThreadIsUnavailableWhileLocked() returns.
Available == failure = "none" /\ thread # "absent" /\ ~stopping

CanEnqueue == Available /\ Len(pending) < MaximumPendingCommands

Enqueue(command) ==
  /\ CanEnqueue
  /\ pending' = Append(pending, command)

Undisturbed == UNCHANGED <<caller, stopping, failure, threadVars, backendVars>>

\* Fault: the ID of a refused drawing call is not withdrawn.
DrawWidgetKeepsRefusedId(k) ==
  /\ caller = "idle"
  /\ nextWidgetId \in WidgetIds
  /\ nextWidgetId' = nextWidgetId + 1
  /\ ids' = [ids EXCEPT ![k] = @ \cup {nextWidgetId}]
  /\ \/ Enqueue(For("create", k, nextWidgetId))
     \/ ~CanEnqueue /\ UNCHANGED pending
  /\ Undisturbed /\ UNCHANGED filledAreaCount

\* drawTextBox(), drawJpegImage(): the ID is registered before the command is
\* queued and withdrawn again when the queue refuses it.
DrawWidget(k) ==
  /\ caller = "idle"
  /\ nextWidgetId \in WidgetIds
  /\ nextWidgetId' = nextWidgetId + 1
  /\ \/ /\ Enqueue(For("create", k, nextWidgetId))
        /\ ids' = [ids EXCEPT ![k] = @ \cup {nextWidgetId}]
     \/ ~CanEnqueue /\ UNCHANGED <<pending, ids>>
  /\ Undisturbed /\ UNCHANGED filledAreaCount

\* updateTextBox(), moveTextBox(), replaceJpegImage(), moveJpegImage(),
\* setJpegImageScale(): an unknown ID and a full queue throw.
ChangeWidget(k, w) ==
  /\ caller = "idle"
  /\ w \in ids[k]
  /\ Enqueue(For("change", k, w))
  /\ Undisturbed /\ UNCHANGED mainVars

\* Fault: the ID is forgotten although the queue refuses the deletion.
DeleteWidgetForgetsFirst(k, w) ==
  /\ caller = "idle"
  /\ w \in ids[k]
  /\ ids' = [ids EXCEPT ![k] = @ \ {w}]
  /\ \/ Enqueue(For("delete", k, w))
     \/ ~CanEnqueue /\ UNCHANGED pending
  /\ Undisturbed /\ UNCHANGED <<nextWidgetId, filledAreaCount>>

\* deleteTextBox(), deleteJpegImage(): the ID is forgotten once the command is queued.
DeleteWidget(k, w) ==
  /\ caller = "idle"
  /\ w \in ids[k]
  /\ Enqueue(For("delete", k, w))
  /\ ids' = [ids EXCEPT ![k] = @ \ {w}]
  /\ Undisturbed /\ UNCHANGED <<nextWidgetId, filledAreaCount>>

\* fillArea(): the area is counted once the command is queued.
FillArea ==
  /\ caller = "idle"
  /\ filledAreaCount < MaximumFilledAreas
  /\ Enqueue(Screen("fill"))
  /\ filledAreaCount' = filledAreaCount + 1
  /\ Undisturbed /\ UNCHANGED <<ids, nextWidgetId>>

\* setBackgroundJpegImage(), clearBackgroundJpegImage().
ChangeBackground(op) ==
  /\ caller = "idle"
  /\ Enqueue(Screen(op))
  /\ Undisturbed /\ UNCHANGED mainVars

\* clearApplicationVisualState().
ForgetApplication ==
  /\ ids' = NoWidgets
  /\ filledAreaCount' = 0
  /\ UNCHANGED nextWidgetId

\* Fault: the replacement is run next, but what was queued stays queued.
WipeScreenKeepsQueue(op) ==
  /\ caller = "idle"
  /\ Available
  /\ pending' = <<Screen(op)>> \o pending
  /\ ForgetApplication
  /\ Undisturbed

\* clear(), showErrorScreen(): the replacement takes the place of everything
\* that is queued, however long the queue is.
WipeScreen(op) ==
  /\ caller = "idle"
  /\ Available
  /\ pending' = <<Screen(op)>>
  /\ ForgetApplication
  /\ Undisturbed

-----------------------------------------------------------------------------
(***************************************************************************)
(* The main thread: start(), stop(), playExclusiveVideoAndWait().          *)
(***************************************************************************)

\* start() on a stopped manager, up to the wait for the promise.
LaunchRenderThread ==
  /\ thread = "absent"
  /\ caller' = "starting"
  /\ stopping' = FALSE /\ failure' = "none"
  /\ thread' = "initializing" /\ started' = "no"
  /\ UNCHANGED <<mainVars, pending, processed, inFlight, backendVars>>

Start == caller = "idle" /\ LaunchRenderThread

\* initialized.get() returns.
StartReturns ==
  /\ caller = "starting" /\ started = "yes"
  /\ caller' = "idle"
  /\ UNCHANGED <<mainVars, sharedVars, threadVars, backendVars>>

\* stop() up to the join; next says what the main thread waits for it in.
RequestStop(next) ==
  /\ thread # "absent"
  /\ caller' = next
  /\ stopping' = TRUE
  /\ UNCHANGED <<mainVars, pending, failure, threadVars, backendVars>>

Stop == caller = "idle" /\ RequestStop("stopping")

\* initialized.get() throws; start() stops the render thread and rethrows.
StartFails == caller = "starting" /\ started = "failed" /\ RequestStop("stopping")

\* The file is readable and the render thread is available; the screen is stopped.
ReleaseDisplayForVideo == caller = "idle" /\ Available /\ RequestStop("releasing")

\* Fault: the application is not forgotten.
JoinKeepsApplication ==
  /\ caller \in {"stopping", "releasing"} /\ thread = "finished"
  /\ caller' = IF caller = "releasing" THEN "playing" ELSE "idle"
  /\ thread' = "absent"
  /\ pending' = << >>
  /\ UNCHANGED <<mainVars, stopping, failure, processed, inFlight, started, backendVars>>

\* Fault: the queue is kept for the next start.
JoinKeepsQueue ==
  /\ caller \in {"stopping", "releasing"} /\ thread = "finished"
  /\ caller' = IF caller = "releasing" THEN "playing" ELSE "idle"
  /\ thread' = "absent"
  /\ ForgetApplication
  /\ UNCHANGED <<pending, stopping, failure, processed, inFlight, started, backendVars>>

\* join() returns; stop() drops the queue and forgets the application.
JoinRenderThread ==
  /\ caller \in {"stopping", "releasing"} /\ thread = "finished"
  /\ caller' = IF caller = "releasing" THEN "playing" ELSE "idle"
  /\ thread' = "absent"
  /\ pending' = << >>
  /\ ForgetApplication
  /\ UNCHANGED <<stopping, failure, processed, inFlight, started, backendVars>>

\* playVideoAndWait() returns or throws: either way the renderer is started again.
VideoEnds == caller = "playing" /\ LaunchRenderThread

-----------------------------------------------------------------------------
(***************************************************************************)
(* The render thread.                                                      *)
(***************************************************************************)

MainUndisturbed == UNCHANGED <<mainVars, caller, stopping>>

InitializeBackend ==
  /\ thread = "initializing"
  /\ open' = TRUE /\ started' = "yes"
  /\ thread' = "drawing" /\ processed' = 0
  /\ MainUndisturbed
  /\ UNCHANGED <<pending, failure, inFlight, shown, filledAreas, background, errorShown>>

\* Fault: the promise is left unset.
InitializeFailsSilently ==
  /\ thread = "initializing"
  /\ thread' = "closing"
  /\ failure' = "backend"
  /\ MainUndisturbed /\ UNCHANGED <<pending, processed, inFlight, started, backendVars>>

\* initialize() throws; it has already shut the backend down.
InitializeFails ==
  /\ thread = "initializing"
  /\ thread' = "closing" /\ started' = "failed"
  /\ failure' = "backend"
  /\ MainUndisturbed /\ UNCHANGED <<pending, processed, inFlight, backendVars>>

\* Fault: commands are taken for as long as there are any.
TakeCommandWithoutLimit ==
  /\ thread = "drawing" /\ inFlight = << >>
  /\ pending # << >>
  /\ inFlight' = <<Head(pending)>>
  /\ pending' = Tail(pending)
  /\ MainUndisturbed /\ UNCHANGED <<failure, thread, processed, started, backendVars>>

TakeCommand ==
  /\ thread = "drawing" /\ inFlight = << >>
  /\ processed < MaximumBatch
  /\ pending # << >>
  /\ inFlight' = <<Head(pending)>>
  /\ pending' = Tail(pending)
  /\ processed' = processed + 1
  /\ MainUndisturbed /\ UNCHANGED <<failure, thread, started, backendVars>>

\* The backend has the widget the command is for.
Accepts(command) ==
  CASE command.op = "create" -> command.kind = "image" => command.id \notin shown["image"]
    [] command.op \in {"change", "delete"} -> command.id \in shown[command.kind]
    [] OTHER -> TRUE

\* The widget operations of the backend.
DrawOnBackend(command) ==
  LET op == command.op
  IN  /\ shown' = CASE op = "create" -> [shown EXCEPT ![command.kind] = @ \cup {command.id}]
                    [] op = "delete" -> [shown EXCEPT ![command.kind] = @ \ {command.id}]
                    [] op \in Wipes  -> NoWidgets
                    [] OTHER         -> shown
      /\ filledAreas' = IF op \in Wipes THEN 0
                        ELSE IF op = "fill" THEN filledAreas + 1 ELSE filledAreas
      /\ background' = (op = "setBackground"
                          \/ (background /\ op \notin Wipes \cup {"clearBackground"}))
      /\ errorShown' = (op = "error" \/ (errorShown /\ op # "clear"))

ExecuteCommand ==
  /\ thread = "drawing" /\ inFlight # << >>
  /\ Accepts(inFlight[1])
  /\ DrawOnBackend(inFlight[1])
  /\ inFlight' = << >>
  /\ MainUndisturbed /\ UNCHANGED <<pending, failure, thread, processed, started, open>>

\* The command throws, because the backend lacks the widget or LVGL fails; the
\* exception leaves the loop.
CommandThrows ==
  /\ thread = "drawing" /\ inFlight # << >>
  /\ thread' = "failing"
  /\ MainUndisturbed /\ UNCHANGED <<pending, failure, processed, inFlight, started, backendVars>>

\* storeRenderThreadFailure().
StoreFailure ==
  /\ thread = "failing"
  /\ failure' = IF Accepts(inFlight[1]) THEN "backend" ELSE "unknownWidget"
  /\ thread' = "closing"
  /\ MainUndisturbed /\ UNCHANGED <<pending, processed, inFlight, started, backendVars>>

\* The batch is over; processEventsAndGetWaitMilliseconds() is next.
EndBatch ==
  /\ thread = "drawing" /\ inFlight = << >>
  /\ pending = << >> \/ processed = MaximumBatch
  /\ thread' = "refreshing"
  /\ MainUndisturbed /\ UNCHANGED <<pending, failure, processed, inFlight, started, backendVars>>

\* LVGL has refreshed; the stop flag is checked before the wait.
RefreshDisplay ==
  /\ thread = "refreshing"
  /\ thread' = IF stopping THEN "closing" ELSE "waiting"
  /\ MainUndisturbed /\ UNCHANGED <<pending, failure, processed, inFlight, started, backendVars>>

\* The wait ends by a notification or by its time limit.
WakeUp ==
  /\ thread = "waiting"
  /\ IF stopping THEN thread' = "closing" /\ UNCHANGED processed
                 ELSE thread' = "drawing" /\ processed' = 0
  /\ MainUndisturbed /\ UNCHANGED <<pending, failure, inFlight, started, backendVars>>

ShutDownBackend ==
  /\ thread = "closing"
  /\ thread' = "finished"
  /\ inFlight' = << >>
  /\ open' = FALSE /\ shown' = NoWidgets /\ filledAreas' = 0
  /\ background' = FALSE /\ errorShown' = FALSE
  /\ MainUndisturbed /\ UNCHANGED <<pending, failure, processed, started>>

-----------------------------------------------------------------------------
Draw == \/ \E k \in Kinds : DrawWidget(k)
        \/ \E k \in Kinds, w \in WidgetIds : ChangeWidget(k, w) \/ DeleteWidget(k, w)
        \/ FillArea
        \/ \E op \in {"setBackground", "clearBackground"} : ChangeBackground(op)
        \/ \E op \in Wipes : WipeScreen(op)

\* Steps of the main thread that follow from a call already made.
MainContinues == StartReturns \/ StartFails \/ JoinRenderThread \/ VideoEnds

RenderThread == \/ InitializeBackend \/ InitializeFails
                \/ TakeCommand \/ ExecuteCommand \/ CommandThrows
                \/ StoreFailure \/ EndBatch \/ RefreshDisplay \/ WakeUp \/ ShutDownBackend

Next == Draw \/ Start \/ Stop \/ ReleaseDisplayForVideo \/ MainContinues \/ RenderThread

Spec == Init /\ [][Next]_vars

\* The operating system runs both threads; nothing obliges the application to call.
FairSpec == Spec /\ WF_vars(RenderThread) /\ WF_vars(MainContinues)

-----------------------------------------------------------------------------
(***************************************************************************)
(* What the queue promises: the widgets the backend will have once it has  *)
(* run the first n - 1 commands of the work it has accepted.               *)
(***************************************************************************)

Work == inFlight \o pending

Erases(command, k, w) == command.op \in Wipes \/ command = For("delete", k, w)

Exists(k, w, n) ==
  \/ /\ w \in shown[k]
     /\ \A j \in 1..(n - 1) : ~Erases(Work[j], k, w)
  \/ \E i \in 1..(n - 1) :
        /\ Work[i] = For("create", k, w)
        /\ \A j \in (i + 1)..(n - 1) : ~Erases(Work[j], k, w)

PromisedWidgets == [k \in Kinds |-> {w \in WidgetIds : Exists(k, w, Len(Work) + 1)}]

\* Positions of the work after which the screen is not wiped again.
LastPart == {i \in 1..Len(Work) : \A j \in i..Len(Work) : Work[j].op \notin Wipes}

PromisedFilledAreas ==
  Cardinality({i \in LastPart : Work[i].op = "fill"})
    + (IF LastPart = 1..Len(Work) THEN filledAreas ELSE 0)

\* The last command of the work whose operation is one of ops decides; before it is
\* there, the backend's state does.
Last(ops, op, otherwise) ==
  \/ \E i \in 1..Len(Work) : /\ Work[i].op = op
                             /\ \A j \in (i + 1)..Len(Work) : Work[j].op \notin ops
  \/ otherwise /\ \A i \in 1..Len(Work) : Work[i].op \notin ops

PromisedBackground == Last(Wipes \cup {"setBackground", "clearBackground"},
                           "setBackground", background)
PromisedErrorShown == Last(Wipes, "error", errorShown)

\* The render thread still takes commands.
Rendering == thread \in {"drawing", "refreshing", "waiting"}

-----------------------------------------------------------------------------
(***************************************************************************)
(* Safety.                                                                 *)
(***************************************************************************)

\* Type correctness of every variable; the queue of m_pendingRenderCommands never
\* outgrows its limit.
TypeOK ==
  /\ caller \in Callers
  /\ ids \in [Kinds -> SUBSET WidgetIds]
  /\ nextWidgetId \in 1..(MaximumWidgetId + 1)
  /\ filledAreaCount \in 0..MaximumFilledAreas
  /\ pending \in Seq(Command) /\ Len(pending) <= MaximumPendingCommands
  /\ stopping \in BOOLEAN
  /\ failure \in Failures
  /\ thread \in Threads
  /\ processed \in 0..MaximumBatch
  /\ inFlight \in Seq(Command) /\ Len(inFlight) <= 1
  /\ started \in {"no", "yes", "failed"}
  /\ open \in BOOLEAN
  /\ shown \in [Kinds -> SUBSET WidgetIds]
  /\ filledAreas \in 0..MaximumFilledAreas
  /\ background \in BOOLEAN
  /\ errorShown \in BOOLEAN

\* The backend's own checks for unknown and duplicate widgets are never what ends
\* the render thread: a call the main thread accepted finds its widget, whatever the
\* render thread had or had not drawn when the call was made.
BackendKnowsEveryWidget == failure # "unknownWidget"

\* What the main thread keeps of the screen is what the screen will have when the accepted
\* work is done: a refused call, a wipe or a restart leaves no ID without a widget and no
\* widget without an ID, and the count of filled areas covers the queued ones, so that
\* the LVGL objects they become stay within the limit at every moment.
IdsMatchPromisedScreen ==
  Rendering => /\ ids = PromisedWidgets
               /\ filledAreaCount = PromisedFilledAreas
               /\ filledAreas <= MaximumFilledAreas

\* While mpv owns the display the render thread is gone and the framebuffer closed,
\* and no ID given out before the video is accepted after it.
VideoOwnsTheDisplay ==
  caller = "playing" => /\ thread = "absent" /\ ~open
                        /\ ids = NoWidgets /\ pending = << >>

\* The render thread may draw a widget whose ID the main thread has forgotten, because it
\* lags behind, but never for good: of a deleted widget the deletion still waits in the
\* queue, and of a wiped one the wipe is the next command, so that nothing else that was
\* queued for the old screen is drawn first.
LateDrawingIsUndone ==
  [][\A k \in Kinds : \A w \in shown'[k] \ shown[k] :
        \/ w \in ids[k]
        \/ \E i \in 1..Len(pending) : pending[i] = For("delete", k, w)
        \/ pending # << >> /\ Head(pending).op \in Wipes]_vars

\* The screen the application relies on: each accepted call takes effect at once in
\* what the queue promises, refused calls and the render thread's own steps have no
\* effect on it, and it is lost only as a whole.
PromisedScreen == INSTANCE ApplicationScreen WITH
  lit         <- Rendering,
  widgets     <- IF Rendering THEN PromisedWidgets ELSE NoWidgets,
  filledAreas <- IF Rendering THEN PromisedFilledAreas ELSE 0,
  background  <- Rendering /\ PromisedBackground,
  errorShown  <- Rendering /\ PromisedErrorShown,
  used        <- 1..(nextWidgetId - 1)

ImplementsApplicationScreen == PromisedScreen!Spec

-----------------------------------------------------------------------------
(***************************************************************************)
(* Liveness, with both threads scheduled.                                  *)
(***************************************************************************)

\* A widget whose creation was accepted appears, unless it is deleted or wiped or
\* rendering stops or fails.
DrawnWidgetAppears ==
  \A k \in Kinds, w \in WidgetIds :
    w \in ids[k] ~> w \in shown[k] \/ w \notin ids[k] \/ failure # "none"

\* start(), stop() and a video return: neither thread waits for the other for ever.
CallsReturn == caller # "idle" ~> caller = "idle"

\* However fast commands arrive, LVGL gets to refresh the display.
DisplayKeepsRefreshing == thread = "drawing" ~> thread \in {"refreshing", "failing"}
=============================================================================
