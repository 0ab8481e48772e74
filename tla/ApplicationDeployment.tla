------------------------- MODULE ApplicationDeployment -------------------------
(***************************************************************************)
(* The deployment controller and the temporary installer it owns           *)
(* (messaging/application_deployment_controller.cpp,                       *)
(* messaging/temporary_python_application_installer.cpp).                  *)
(*                                                                         *)
(* process() runs on the main thread.  It is one chain of steps here,      *)
(* look up, parse, install and accept, activate and clean up, because the  *)
(* process can be killed between two of them and a status that was         *)
(* published is out of its hands.  The variable stage says which step is   *)
(* next, so the order is the program's.                                    *)
(***************************************************************************)
EXTENDS Naturals, Sequences

CONSTANTS
  TransferIds,                  \* safe transfer IDs, also the directory names under the root
  NoTransfer,                   \* empty path / no identifier
  MaximumRememberedDeployments, \* length of the list of remembered final statuses
  RemovalMayFail,               \* TRUE: std::filesystem::remove_all may report an error
  LateRedelivery                \* TRUE: a transfer may arrive again after its answer was forgotten

ASSUME DeploymentAssumption ==
  /\ NoTransfer \notin TransferIds
  /\ MaximumRememberedDeployments \in Nat \ {0}
  /\ RemovalMayFail \in BOOLEAN
  /\ LateRedelivery \in BOOLEAN

VARIABLES
  stage,          \* what process() does next; "idle" outside it
  current,        \* transfer that process() is handling
  currentIsValid, \* whether the payload of that message passes parse()
  remembered,     \* m_rememberedFinalStatuses, oldest first
  staging,        \* transfers whose ".staging-<id>" directory exists
  installed,      \* what the directory of each transfer holds
  active,         \* m_activeExternalApplicationInstallDirectory
  running,        \* transfer whose source the interpreter runs, if any
  answers,        \* history: final states published for each transfer since startup
  removalFailed   \* history: directories whose removal reported an error

vars == <<stage, current, currentIsValid, remembered, staging, installed,
          active, running, answers, removalFailed>>

FinalStates == {"accepted", "rejected", "failed"}
Contents    == {"absent", "partial", "complete"}
Stages      == {"idle", "received", "validated", "accepted"}
FinalStatus == [transfer : TransferIds, state : FinalStates]

Init ==
  /\ stage = "idle"
  /\ current = NoTransfer
  /\ currentIsValid = FALSE
  /\ remembered = << >>
  /\ staging = {}                                      \* the constructor empties the root
  /\ installed = [t \in TransferIds |-> "absent"]
  /\ active = NoTransfer
  /\ running = NoTransfer                              \* the default application runs
  /\ answers = [t \in TransferIds |-> {}]
  /\ removalFailed = {}

-----------------------------------------------------------------------------
(***************************************************************************)
(* Directories.                                                            *)
(***************************************************************************)

\* What remove_all can leave of a directory: nothing, or, when it reports an
\* error, all or a part of it.  A removal that removeInstalledApplication()
\* refuses, because the path is not directly below the root, leaves all of it.
AfterRemoval(content) ==
  IF RemovalMayFail /\ content # "absent"
  THEN {"absent", "partial", content}
  ELSE {"absent"}

\* removeInstalledApplication() for every directory in D: errors are logged and
\* swallowed.
RemoveInstalledApplications(D) ==
  /\ installed' \in { f \in [TransferIds -> Contents] :
                        \A t \in TransferIds : IF t \in D
                                               THEN f[t] \in AfterRemoval(installed[t])
                                               ELSE f[t] = installed[t] }
  /\ removalFailed' = removalFailed \cup {t \in D : installed'[t] # "absent"}

\* What installApplication() can leave behind when it throws: staged says whether
\* the staging directory is left, content what the directory of the transfer
\* holds after removeFailedInstallationFiles().
FailedInstallationLeaves(t, staged, content) ==
  /\ staged => RemovalMayFail
  /\ \/ content = installed[t]                  \* staging could not be cleared or written
     \/ content \in AfterRemoval(installed[t])  \* the earlier copy was removed, or only in part
     \/ ~staged /\ content \in AfterRemoval("complete")  \* renamed, then not resolved

-----------------------------------------------------------------------------
(***************************************************************************)
(* The remembered answers.                                                 *)
(***************************************************************************)

Remembers(t) == \E i \in 1..Len(remembered) : remembered[i].transfer = t

\* publishAndRememberFinalStatus().  The list never holds more than the maximum
\* before the push, so one pop_front() is enough.
PublishAndRemember(t, state) ==
  LET all == Append(remembered, [transfer |-> t, state |-> state])
  IN  /\ remembered' = IF Len(all) > MaximumRememberedDeployments THEN Tail(all) ELSE all
      /\ answers' = [answers EXCEPT ![t] = @ \cup {state}]

-----------------------------------------------------------------------------
(***************************************************************************)
(* process()                                                               *)
(***************************************************************************)

\* Which messages can arrive.  The broker and the sender repeat a message only
\* shortly after the original; LateRedelivery lifts that restriction.
MayArrive(t) == LateRedelivery \/ answers[t] = {} \/ Remembers(t)

\* A transfer whose answer is remembered gets that answer again.
RepublishRememberedStatus(t) ==
  /\ stage = "idle"
  /\ Remembers(t)
  /\ \E i \in 1..Len(remembered) :
       /\ remembered[i].transfer = t
       /\ \A j \in 1..(i - 1) : remembered[j].transfer # t
       /\ answers' = [answers EXCEPT ![t] = @ \cup {remembered[i].state}]
  /\ UNCHANGED <<stage, current, currentIsValid, remembered, staging, installed,
                 active, running, removalFailed>>

\* Fault: the remembered answers are not looked up.
BeginWithoutLookup(t, isValid) ==
  /\ stage = "idle"
  /\ MayArrive(t)
  /\ stage' = "received"
  /\ current' = t
  /\ currentIsValid' = isValid
  /\ UNCHANGED <<remembered, staging, installed, active, running, answers, removalFailed>>

\* Any other transfer is worked on; "received" is published.
BeginDeployment(t, isValid) ==
  /\ stage = "idle"
  /\ MayArrive(t)
  /\ ~Remembers(t)
  /\ stage' = "received"
  /\ current' = t
  /\ currentIsValid' = isValid
  /\ UNCHANGED <<remembered, staging, installed, active, running, answers, removalFailed>>

\* Fault: the return after the rejection is missing.
RejectAndContinue ==
  /\ stage = "received"
  /\ ~currentIsValid
  /\ PublishAndRemember(current, "rejected")
  /\ stage' = "validated"
  /\ UNCHANGED <<current, currentIsValid, staging, installed, active, running, removalFailed>>

\* parse() throws.
RejectMessage ==
  /\ stage = "received"
  /\ ~currentIsValid
  /\ PublishAndRemember(current, "rejected")
  /\ stage' = "idle"
  /\ current' = NoTransfer
  /\ UNCHANGED <<currentIsValid, staging, installed, active, running, removalFailed>>

\* parse() returns; "validated" is published.
ValidateMessage ==
  /\ stage = "received"
  /\ currentIsValid
  /\ stage' = "validated"
  /\ UNCHANGED <<current, currentIsValid, remembered, staging, installed, active,
                 running, answers, removalFailed>>

\* installApplication() throws.
FailInstallation ==
  /\ stage = "validated"
  /\ \E staged \in BOOLEAN, content \in Contents :
       /\ FailedInstallationLeaves(current, staged, content)
       /\ staging' = IF staged THEN staging \cup {current} ELSE staging \ {current}
       /\ installed' = [installed EXCEPT ![current] = content]
       /\ removalFailed' = IF staged \/ content \notin {"absent", installed[current]}
                           THEN removalFailed \cup {current}
                           ELSE removalFailed
  /\ PublishAndRemember(current, "failed")
  /\ stage' = "idle"
  /\ current' = NoTransfer
  /\ UNCHANGED <<currentIsValid, active, running>>

\* installApplication() returns: staging was renamed over any earlier copy.
\* "accepted" is published and remembered before the current app is stopped.
InstallAndAccept ==
  /\ stage = "validated"
  /\ staging' = staging \ {current}
  /\ installed' = [installed EXCEPT ![current] = "complete"]
  /\ PublishAndRemember(current, "accepted")
  /\ stage' = "accepted"
  /\ UNCHANGED <<current, currentIsValid, active, running, removalFailed>>

\* Fault: the directory of an application that did not start is kept.
OnlyPreviousDirectory(started) == {t \in TransferIds : t = active}

\* Fault: the previous directory is read after it was overwritten.
NewDirectoryToo(started) == {t \in TransferIds : t = active \/ t = current}

\* The directories that process() removes after the activation: that of the
\* previous application and, when the new one did not start, its own.
ObsoleteDirectories(started) ==
  {t \in TransferIds : t = active \/ (~started /\ t = current)}

\* activateExternalApplication() reports that the new application runs.
ActivateApplication ==
  /\ stage = "accepted"
  /\ RemoveInstalledApplications(ObsoleteDirectories(TRUE))
  /\ active' = current
  /\ running' = current
  /\ stage' = "idle"
  /\ current' = NoTransfer
  /\ UNCHANGED <<currentIsValid, remembered, staging, answers>>

\* Fault: the current application keeps running when its successor does not start.
FailActivationKeepsRunning ==
  /\ stage = "accepted"
  /\ RemoveInstalledApplications(ObsoleteDirectories(FALSE))
  /\ active' = NoTransfer
  /\ stage' = "idle"
  /\ current' = NoTransfer
  /\ UNCHANGED <<running, currentIsValid, remembered, staging, answers>>

\* It reports a failure: no Python application runs any more.
FailActivation ==
  /\ stage = "accepted"
  /\ RemoveInstalledApplications(ObsoleteDirectories(FALSE))
  /\ active' = NoTransfer
  /\ running' = NoTransfer
  /\ stage' = "idle"
  /\ current' = NoTransfer
  /\ UNCHANGED <<currentIsValid, remembered, staging, answers>>

\* A scheduled callback of the running application raises an exception; the
\* controller is not told.
StopAfterCallbackFailure ==
  /\ stage = "idle"
  /\ running # NoTransfer
  /\ running' = NoTransfer
  /\ UNCHANGED <<stage, current, currentIsValid, remembered, staging, installed,
                 active, answers, removalFailed>>

\* The process is stopped or killed at any point and started again.
Restart ==
  /\ stage' = "idle"
  /\ current' = NoTransfer
  /\ currentIsValid' = FALSE
  /\ remembered' = << >>
  /\ staging' = {}
  /\ installed' = [t \in TransferIds |-> "absent"]
  /\ active' = NoTransfer
  /\ running' = NoTransfer
  /\ answers' = [t \in TransferIds |-> {}]
  /\ removalFailed' = {}

Next ==
  \/ \E t \in TransferIds : RepublishRememberedStatus(t)
  \/ \E t \in TransferIds, isValid \in BOOLEAN : BeginDeployment(t, isValid)
  \/ RejectMessage
  \/ ValidateMessage
  \/ FailInstallation
  \/ InstallAndAccept
  \/ ActivateApplication
  \/ FailActivation
  \/ StopAfterCallbackFailure
  \/ Restart

Spec == Init /\ [][Next]_vars

-----------------------------------------------------------------------------
(***************************************************************************)
(* Properties.                                                             *)
(***************************************************************************)

\* Every variable keeps its type.
TypeOK ==
  /\ stage \in Stages
  /\ current \in TransferIds \cup {NoTransfer}
  /\ (stage = "idle") <=> (current = NoTransfer)
  /\ currentIsValid \in BOOLEAN
  /\ remembered \in Seq(FinalStatus)
  /\ staging \subseteq TransferIds
  /\ installed \in [TransferIds -> Contents]
  /\ active \in TransferIds \cup {NoTransfer}
  /\ running \in TransferIds \cup {NoTransfer}
  /\ answers \in [TransferIds -> SUBSET FinalStates]
  /\ removalFailed \subseteq TransferIds

\* The memory is bounded and holds one answer per transfer, an answer that was
\* really published: a duplicate finds one entry or none, never two that disagree.
MemoryIsSound ==
  /\ Len(remembered) <= MaximumRememberedDeployments
  /\ \A i, j \in 1..Len(remembered) :
       remembered[i].transfer = remembered[j].transfer => i = j
  /\ \A i \in 1..Len(remembered) :
       remembered[i].state \in answers[remembered[i].transfer]

\* After process() returns, the only directories under the temporary root are that
\* of the active application and those whose removal failed: every early return
\* and both outcomes of the activation clean up after themselves.
NothingIsLeftBehind ==
  stage = "idle" =>
    \A t \in TransferIds :
      /\ t \in staging => t \in removalFailed
      /\ installed[t] # "absent" => t = active \/ t \in removalFailed

\* The interpreter never runs a received application the controller has lost track
\* of, nor one whose sender was not told "accepted" first.
RunningApplicationIsTracked ==
  running # NoTransfer => running = active /\ "accepted" \in answers[running]

\* As long as a transfer is remembered its published answer does not change: a
\* duplicate is never answered in a new way, whatever was processed in between.
KeepsRememberedAnswers ==
  \A t \in TransferIds :
    Remembers(t) => answers'[t] = answers[t] \/ (\A u \in TransferIds : answers'[u] = {})

RememberedAnswerIsStable == [][KeepsRememberedAnswers]_vars

\* No transfer is ever answered in two different ways.  Needs the memory to outlast
\* the duplicates (LateRedelivery = FALSE).
AnswerIsFinal == \A t \in TransferIds : \A a, b \in answers[t] : a = b

\* The directory of the application that the controller considers active holds the
\* complete package, from its activation until another application replaces it.
ActiveDirectoryIsIntact == active # NoTransfer => installed[active] = "complete"

\* The comment on removeInstalledApplication(): "Removes a received app that is no longer
\* needed".  An activation that succeeds does not remove the directory of the application
\* it has just started, also when that application ran before.
StartedApplicationIsInstalled ==
  [][stage = "accepted" /\ running' = current => installed'[current] = "complete"]_vars

\* process() keeps the promise of DeploymentContract: one answer per transfer, and a
\* start only after "accepted", once per transfer, in the order of the answers.
Contract == INSTANCE DeploymentContract
              WITH pending <- IF stage = "accepted" THEN current ELSE NoTransfer

ImplementsContract == Contract!Spec

=============================================================================
