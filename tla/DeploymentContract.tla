--------------------------- MODULE DeploymentContract ---------------------------
(***************************************************************************)
(* What the device promises the sender of an application, without the      *)
(* memory, the directories and the steps that keep the promise.  Every     *)
(* transfer is answered at most once; only an accepted transfer is         *)
(* started, at most once, and before the next one is answered.             *)
(***************************************************************************)
CONSTANTS TransferIds, NoTransfer

VARIABLES
  answers,  \* final states given for each transfer since the device started
  pending,  \* accepted transfer that is not yet started
  running   \* transfer whose application runs

contractVars == <<answers, pending, running>>

Init ==
  /\ answers = [t \in TransferIds |-> {}]
  /\ pending = NoTransfer
  /\ running = NoTransfer

Unanswered(t) == answers[t] = {} /\ pending = NoTransfer

\* The package is installed and will be started next.
Accept(t) ==
  /\ Unanswered(t)
  /\ answers' = [answers EXCEPT ![t] = {"accepted"}]
  /\ pending' = t
  /\ UNCHANGED running

\* The message is invalid or could not be installed; the current application stays.
Refuse(t) ==
  /\ Unanswered(t)
  /\ \E state \in {"rejected", "failed"} : answers' = [answers EXCEPT ![t] = {state}]
  /\ UNCHANGED <<pending, running>>

\* The pending application replaces the current one, or leaves none if it fails.
Start ==
  /\ pending # NoTransfer
  /\ running' \in {pending, NoTransfer}
  /\ pending' = NoTransfer
  /\ UNCHANGED answers

\* The running application fails after its start.
Stop ==
  /\ running # NoTransfer
  /\ pending = NoTransfer
  /\ running' = NoTransfer
  /\ UNCHANGED <<answers, pending>>

\* The device starts again and remembers nothing.
Restart ==
  /\ answers' = [t \in TransferIds |-> {}]
  /\ pending' = NoTransfer
  /\ running' = NoTransfer

Next ==
  \/ \E t \in TransferIds : Accept(t) \/ Refuse(t)
  \/ Start
  \/ Stop
  \/ Restart

Spec == Init /\ [][Next]_contractVars

=============================================================================
