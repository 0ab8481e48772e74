------------------------ MODULE PythonApplicationManager ------------------------
(***************************************************************************)
(* The life of the Python application: python_application_manager.cpp, the *)
(* interpreter and context it owns (micropython_runtime.cpp,               *)
(* micropython_application_context.cpp) and the main loop that drives it   *)
(* (runtime/main.cpp).                                                     *)
(*                                                                         *)
(* The render thread can fail between any two steps, and the manager sees  *)
(* that only when it next asks for a drawing operation; so a start is a    *)
(* chain of steps.  The screen is what ApplicationScreen promises: the     *)
(* result of the drawing calls accepted so far.                            *)
(***************************************************************************)
EXTENDS Naturals

CONSTANTS
  ExternalApplications,  \* applications that deployments bring
  DefaultApplication,    \* the shipped application
  NoApplication          \* no application

Applications == ExternalApplications \cup {DefaultApplication}

\* The screen shows the widgets of an application, the emergency screen, or neither.
Blank     == "blank"
Emergency == "emergency"
Screens   == Applications \cup {Blank, Emergency}

ASSUME ManagerAssumption ==
  /\ DefaultApplication \notin ExternalApplications
  /\ {NoApplication, Blank, Emergency} \cap Applications = {}

VARIABLES
  process,       \* what main() does: see Phases
  starting,      \* the application that is being started
  step,          \* the next step of the start
  state,         \* m_state
  context,       \* application of the context that exists, if any
  interpreter,   \* application of the interpreter that exists, if any
  kept,          \* m_microPythonRuntime is set
  screen,        \* what the accepted drawing calls leave on the screen
  downloads,     \* application that the downloaded files belong to
  renderFailed   \* the render thread has stored a failure

managerVars == <<state, context, interpreter, kept>>
vars == <<process, starting, step, managerVars, screen, downloads, renderFailed>>

InLoop       == {"checking", "waiting", "callbacks"}
Phases       == {"startup", "activating", "exited", "failed"} \cup InLoop
Steps        == {"none", "clearScreen", "clearDownloads", "createContext",
                 "createInterpreter", "execute", "emergency"}
States       == {"Stopped", "DefaultApplication", "ExternalApplication", "EmergencyScreen"}

Init ==
  /\ process = "startup"
  /\ starting = DefaultApplication
  /\ step = "clearScreen"
  /\ state = "Stopped"
  /\ context = NoApplication
  /\ interpreter = NoApplication
  /\ kept = FALSE
  /\ screen = Blank
  /\ downloads = NoApplication
  /\ renderFailed = FALSE

InManager == process \in {"startup", "activating"}
Goes(to)  == step' = to

-----------------------------------------------------------------------------
(***************************************************************************)
(* Starting an application.                                                *)
(***************************************************************************)

\* stopPythonInterpreter(): the interpreter goes before the context.
StopInterpreter ==
  /\ interpreter' = NoApplication
  /\ context' = NoApplication
  /\ kept' = FALSE

\* prepareForApplicationStart(), up to the clear command.
ClearScreen ==
  /\ InManager /\ step = "clearScreen"
  /\ StopInterpreter
  /\ state' = "Stopped"
  /\ \/ ~renderFailed /\ screen' = Blank /\ Goes("clearDownloads")
     \/ renderFailed /\ UNCHANGED screen /\ Goes("emergency")     \* clear() throws
  /\ UNCHANGED <<process, starting, downloads, renderFailed>>

\* Fault: files that cannot be removed do not stop the start.
ClearDownloadsAtBest ==
  /\ InManager /\ step = "clearDownloads"
  /\ downloads' \in {downloads, NoApplication}
  /\ Goes("createContext")
  /\ UNCHANGED <<process, starting, managerVars, screen, renderFailed>>

\* clearDownloadedFiles() may throw.
ClearDownloads ==
  /\ InManager /\ step = "clearDownloads"
  /\ \/ downloads' = NoApplication /\ Goes("createContext")
     \/ UNCHANGED downloads /\ Goes("emergency")
  /\ UNCHANGED <<process, starting, managerVars, screen, renderFailed>>

\* startApplicationInNewInterpreter(): throwIfRenderThreadFailed() and the context,
\* whose system information may be unreadable.
CreateContext ==
  /\ InManager /\ step = "createContext"
  /\ \/ /\ ~renderFailed
        /\ context = NoApplication          \* only one context can be active
        /\ context' = starting /\ Goes("createInterpreter")
     \/ UNCHANGED context /\ Goes("emergency")
  /\ UNCHANGED <<process, starting, state, interpreter, kept, screen, downloads,
                 renderFailed>>

CreateInterpreter ==
  /\ InManager /\ step = "createInterpreter"
  /\ interpreter' = starting
  /\ Goes("execute")
  /\ UNCHANGED <<process, starting, state, context, kept, screen, downloads,
                 renderFailed>>

\* main.py or a callback draws something or downloads a file, while its interpreter
\* runs.  A refused drawing call raises an exception that the application may catch.
ApplicationWorks ==
  /\ interpreter # NoApplication
  /\ step = "execute" \/ process = "callbacks"
  /\ \/ ~renderFailed /\ screen' = interpreter /\ UNCHANGED downloads
     \/ downloads' = interpreter /\ UNCHANGED screen
  /\ UNCHANGED <<process, starting, step, managerVars, renderFailed>>

\* What startDefaultApplication() and activateExternalApplication() do at the end.
Return ==
  /\ process' = IF process = "startup" THEN "checking" ELSE "callbacks"
  /\ starting' = NoApplication
  /\ Goes("none")

\* Fault: the interpreter is not moved into the manager.
StartupSucceedsUnkept ==
  /\ InManager /\ step = "execute"
  /\ kept' = FALSE
  /\ state' = IF starting = DefaultApplication THEN "DefaultApplication" ELSE "ExternalApplication"
  /\ Return
  /\ UNCHANGED <<context, interpreter, screen, downloads, renderFailed>>

\* executeApplication() succeeds: the manager keeps the interpreter and the context.
StartupSucceeds ==
  /\ InManager /\ step = "execute"
  /\ kept' = TRUE
  /\ state' = IF starting = DefaultApplication THEN "DefaultApplication" ELSE "ExternalApplication"
  /\ Return
  /\ UNCHANGED <<context, interpreter, screen, downloads, renderFailed>>

\* It fails: interpreter and context are destroyed with the local variables.
StartupFails ==
  /\ InManager /\ step = "execute"
  /\ StopInterpreter
  /\ Goes("emergency")
  /\ UNCHANGED <<process, starting, state, screen, downloads, renderFailed>>

-----------------------------------------------------------------------------
(***************************************************************************)
(* The emergency screen.                                                   *)
(***************************************************************************)

\* Fault: the interpreter of the failed application lives on.
ShowEmergencyScreenOnly ==
  /\ state' = IF renderFailed THEN "Stopped" ELSE "EmergencyScreen"
  /\ screen' = IF renderFailed THEN screen ELSE Emergency
  /\ UNCHANGED <<context, interpreter, kept>>

\* showEmergencyScreenForApplicationFailure(): the error screen replaces what is
\* queued; only a failed renderer refuses it.
ShowEmergencyScreen ==
  /\ StopInterpreter
  /\ state' = IF renderFailed THEN "Stopped" ELSE "EmergencyScreen"
  /\ screen' = IF renderFailed THEN screen ELSE Emergency

\* Fault: the emergency screen is shown again until the renderer accepts it.
EmergencyUntilShown ==
  /\ InManager /\ step = "emergency"
  /\ ShowEmergencyScreen
  /\ IF renderFailed THEN UNCHANGED <<process, starting, step>> ELSE Return
  /\ UNCHANGED <<downloads, renderFailed>>

\* After a failed start.  If the default application's emergency screen fails too,
\* startDefaultApplication() throws and main() returns 1.
EmergencyAfterStart ==
  /\ InManager /\ step = "emergency"
  /\ ShowEmergencyScreen
  /\ IF process = "startup" /\ renderFailed
     THEN process' = "failed" /\ starting' = NoApplication /\ Goes("none")
     ELSE Return
  /\ UNCHANGED <<downloads, renderFailed>>

-----------------------------------------------------------------------------
(***************************************************************************)
(* The main loop: check the renderer, process one message, run callbacks.  *)
(***************************************************************************)

\* Fault: the main loop never looks at the renderer.
CheckNothing ==
  /\ process = "checking"
  /\ process' = "waiting"
  /\ UNCHANGED <<starting, step, managerVars, screen, downloads, renderFailed>>

\* throwIfRenderThreadFailed() at the top of the loop: main() returns 1 and the
\* manager is destroyed on the way.
CheckRenderThread ==
  /\ process = "checking"
  /\ IF renderFailed
     THEN process' = "failed" /\ StopInterpreter /\ state' = "Stopped"
     ELSE process' = "waiting" /\ UNCHANGED managerVars
  /\ UNCHANGED <<starting, step, screen, downloads, renderFailed>>

\* A validated and installed deployment is activated.
Activate(a) ==
  /\ process = "waiting"
  /\ process' = "activating"
  /\ starting' = a
  /\ Goes("clearScreen")
  /\ UNCHANGED <<managerVars, screen, downloads, renderFailed>>

\* The wait is over and no application is activated.
NoActivation ==
  /\ process = "waiting"
  /\ process' = "callbacks"
  /\ UNCHANGED <<starting, step, managerVars, screen, downloads, renderFailed>>

\* runScheduledCallbacks() returns.
CallbacksEnd ==
  /\ process = "callbacks"
  /\ process' = "checking"
  /\ UNCHANGED <<starting, step, managerVars, screen, downloads, renderFailed>>

\* It reports that a callback raised an exception.
CallbackFails ==
  /\ process = "callbacks" /\ kept
  /\ ShowEmergencyScreen
  /\ process' = "checking"
  /\ UNCHANGED <<starting, step, downloads, renderFailed>>

\* A signal has ended the loop; stop() is called.
Exit ==
  /\ process = "checking"
  /\ process' = "exited"
  /\ StopInterpreter
  /\ state' = "Stopped"
  /\ UNCHANGED <<starting, step, screen, downloads, renderFailed>>

\* The render thread fails, at any time.
RenderThreadFails ==
  /\ process \notin {"exited", "failed"}
  /\ ~renderFailed
  /\ renderFailed' = TRUE
  /\ UNCHANGED <<process, starting, step, managerVars, screen, downloads>>

-----------------------------------------------------------------------------
Start == ClearScreen \/ ClearDownloads \/ CreateContext \/ CreateInterpreter
           \/ StartupSucceeds \/ StartupFails \/ EmergencyAfterStart

MainLoop == \/ CheckRenderThread \/ NoActivation \/ CallbacksEnd \/ CallbackFails
            \/ \E a \in ExternalApplications : Activate(a)

Next == Start \/ MainLoop \/ ApplicationWorks \/ RenderThreadFails \/ Exit

Spec == Init /\ [][Next]_vars

\* main() keeps running; main.py and every callback come to an end.
FairSpec == Spec /\ WF_vars(Start) /\ WF_vars(CheckRenderThread)
                 /\ WF_vars(NoActivation) /\ WF_vars(CallbacksEnd)

-----------------------------------------------------------------------------
(***************************************************************************)
(* Properties.                                                             *)
(***************************************************************************)

\* Types, and a start in progress is exactly a step that is due.
TypeOK ==
  /\ process \in Phases
  /\ starting \in Applications \cup {NoApplication}
  /\ step \in Steps
  /\ InManager <=> step # "none"
  /\ InManager <=> starting # NoApplication
  /\ state \in States
  /\ context \in Applications \cup {NoApplication}
  /\ interpreter \in Applications \cup {NoApplication}
  /\ kept \in BOOLEAN
  /\ screen \in Screens
  /\ downloads \in Applications \cup {NoApplication}
  /\ renderFailed \in BOOLEAN

\* Nothing of the previous application is alive when the next one gets its context and
\* its interpreter, so a start never fails on the check for a second interpreter or on
\* the check for a second context.
PreviousApplicationIsGone ==
  step \in {"createContext", "createInterpreter"} => interpreter = NoApplication /\ ~kept
                                                     /\ (step = "createContext" => context = NoApplication)

\* Between two steps of the main loop the state names the truth: an application runs
\* exactly in the two application states, and without application or emergency screen
\* there is a failed renderer that will end the process.
StateIsTrue ==
  process \in InLoop =>
    /\ state = "DefaultApplication"  <=> kept /\ interpreter = DefaultApplication
    /\ state = "ExternalApplication" <=> kept /\ interpreter \in ExternalApplications
    /\ state = "EmergencyScreen" => screen = Emergency
    /\ state = "Stopped" => renderFailed
    /\ kept <=> interpreter # NoApplication /\ context = interpreter

\* An application never finds the widgets, the emergency screen or the downloaded
\* files of another one.
ApplicationStartsClean ==
  interpreter # NoApplication => /\ screen \in {Blank, interpreter}
                                 /\ downloads \in {NoApplication, interpreter}

\* The emergency screen stays until an external application is being activated.
KeepsEmergencyScreen == screen = Emergency /\ screen' # Emergency => process = "activating"

EmergencyScreenStays == [][KeepsEmergencyScreen]_vars

\* A failed renderer ends the process, whatever is deployed meanwhile.
RenderFailureEndsProcess == renderFailed ~> process \in {"failed", "exited"}

\* Every activation comes to an end and the loop goes on.
ActivationEnds == process = "activating" ~> process # "activating"
=============================================================================
