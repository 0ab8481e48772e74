--------------------------- MODULE DeploymentDelivery ---------------------------
(***************************************************************************)
(* A deployment from end to end: runs of the command-line sender           *)
(* (iot_app_sender/send_app.py), the MQTT broker, the MQTT receiver        *)
(* (messaging/mqtt_application_receiver.cpp), the bounded message queue    *)
(* (messaging/application_message_queue.cpp) and the controller of         *)
(* ApplicationDeployment, which takes its messages from the queue here.    *)
(*                                                                         *)
(* Each run of the sender makes its own transfer ID, so a transfer stands  *)
(* for its sender.  The broker and the two MQTT libraries are external:    *)
(* QoS 1 from the sender to the broker (a message may arrive twice), a     *)
(* clean session on the device (what it has not received when it           *)
(* disconnects is gone), statuses that may be lost on the way back.        *)
(***************************************************************************)
EXTENDS ApplicationDeployment, SequencesExt

CONSTANTS
  MaximumQueuedMessages,  \* capacity of ApplicationMessageQueue
  MaximumInTransit,       \* bound: messages the broker holds for the device
  MaximumPublishes,       \* bound: how often any message reaches the broker, over all senders
  PromptCopies,           \* TRUE: a copy reaches the broker only while its original is unanswered
  ProcessMayRestart       \* TRUE: the device's process may stop and start again

ASSUME DeliveryAssumption ==
  /\ MaximumQueuedMessages \in Nat \ {0}
  /\ MaximumInTransit \in Nat \ {0}
  /\ MaximumPublishes \in Nat \ {0}
  /\ PromptCopies \in BOOLEAN
  /\ ProcessMayRestart \in BOOLEAN

VARIABLES
  sender,         \* what each run of the sender does: see SenderStates
  finalResponse,  \* the final status that has reached each run or is on its way to it
  copies,         \* how often its message has reached the broker
  connection,     \* the device's MQTT connection
  toDevice,       \* messages the broker has for the device's session
  queue,          \* m_queuedMessages
  published       \* history: final statuses ever published for each transfer

senderVars    == <<sender, finalResponse, copies>>
deliveryVars  == <<senderVars, connection, toDevice, queue, published>>
allVars       == <<vars, deliveryVars>>

\* "success" is exit code 0, "refused" 2, "gaveUp" 1; "sent" is 0 with --no-wait.
SenderExits  == {"success", "refused", "gaveUp", "sent"}
SenderStates == {"ready", "connecting", "publishing", "waiting"} \cup SenderExits
NoResponse   == "none"

DeliveryInit ==
  /\ Init
  /\ sender = [t \in TransferIds |-> "ready"]
  /\ finalResponse = [t \in TransferIds |-> NoResponse]
  /\ copies = [t \in TransferIds |-> 0]
  /\ connection = "down"
  /\ toDevice = << >>
  /\ queue = << >>
  /\ published = [t \in TransferIds |-> {}]

-----------------------------------------------------------------------------
(***************************************************************************)
(* The sender: send_application() and its MQTT callbacks.                  *)
(***************************************************************************)

SenderGoes(t, from, to) ==
  /\ sender[t] = from
  /\ sender' = [sender EXCEPT ![t] = to]
  /\ UNCHANGED <<vars, finalResponse, copies, connection, toDevice, queue, published>>

StartSender(t) == SenderGoes(t, "ready", "connecting")

\* on_connect() and on_subscribe() have been called: the status topic is subscribed
\* before the message is published.
SenderSubscribed(t) == SenderGoes(t, "connecting", "publishing")

\* The connection or the subscription is refused, or one of the waits times out.
SenderGivesUp(t) == \E from \in {"connecting", "publishing", "waiting"} :
                      SenderGoes(t, from, "gaveUp")

\* The original of t has been answered.
Answered(t) == published[t] # {}

\* Bound: all copies together.
MayPublishAgain == FoldFunction(+, 0, copies) < MaximumPublishes

\* The message reaches the broker, the first time or again because the
\* acknowledgement was lost.  The broker has a session for the device only while
\* the device is subscribed, and forgets the message otherwise.
PublishReachesBroker(t) ==
  /\ sender[t] = "publishing"
  /\ MayPublishAgain
  /\ Len(toDevice) < MaximumInTransit
  /\ PromptCopies => ~Answered(t)
  /\ copies' = [copies EXCEPT ![t] = @ + 1]
  /\ toDevice' = IF connection = "subscribed" THEN Append(toDevice, t) ELSE toDevice
  /\ UNCHANGED <<vars, sender, finalResponse, connection, queue, published>>

\* wait_for_publish() returns.
BrokerAcknowledges(t) ==
  /\ copies[t] > 0
  /\ \E to \in {"waiting", "sent"} : SenderGoes(t, "publishing", to)

\* Fault: any final status counts as success.
SenderConcludesAnyStatus(t) ==
  /\ finalResponse[t] # NoResponse
  /\ SenderGoes(t, "waiting", "success")

\* final_response_received.wait() returns: the exit code follows from the status.
SenderConcludes(t) ==
  /\ finalResponse[t] # NoResponse
  /\ SenderGoes(t, "waiting", IF finalResponse[t] = "accepted" THEN "success" ELSE "refused")

-----------------------------------------------------------------------------
(***************************************************************************)
(* The device's MQTT network thread.                                       *)
(***************************************************************************)

\* handleConnected(): a failed subscription is logged and not tried again.
DeviceConnects ==
  /\ connection = "down"
  /\ connection' \in {"subscribed", "deaf"}
  /\ UNCHANGED <<vars, senderVars, toDevice, queue, published>>

\* handleDisconnected(): only logs.  The clean session ends.
DeviceDisconnects ==
  /\ connection # "down"
  /\ connection' = "down"
  /\ toDevice' = << >>
  /\ UNCHANGED <<vars, senderVars, queue, published>>

\* Fault: the limit is checked one message too late.
TryPushOneMore(t) ==
  queue' = IF Len(queue) > MaximumQueuedMessages THEN queue ELSE Append(queue, t)

\* tryPush(): a full queue refuses the message.
TryPush(t) ==
  queue' = IF Len(queue) >= MaximumQueuedMessages THEN queue ELSE Append(queue, t)

\* handleMessage(): a refused message is only logged; the broker counts it as delivered.
ReceiveMessage ==
  /\ connection = "subscribed"
  /\ toDevice # << >>
  /\ TryPush(Head(toDevice))
  /\ toDevice' = Tail(toDevice)
  /\ UNCHANGED <<vars, senderVars, connection, published>>

-----------------------------------------------------------------------------
(***************************************************************************)
(* The device's main thread: waitForAndProcessOneMessage().                *)
(***************************************************************************)

\* publishStatus() for a final status, and on_message() of the sender, where the last
\* one received counts.  Errors are only logged, so the status may get lost, or it waits
\* in libmosquitto until the device is connected again; the broker forwards it only while
\* the sender is subscribed.
PublishStatus(t, status) ==
  /\ published' = [published EXCEPT ![t] = @ \cup {status}]
  /\ \/ /\ sender[t] \in {"publishing", "waiting"}
        /\ finalResponse' = [finalResponse EXCEPT ![t] = status]
     \/ UNCHANGED finalResponse

OthersUnchanged == UNCHANGED <<sender, copies, connection, toDevice>>

\* Fault: a message that is a duplicate stays in the queue.
TakeMessageKeepsDuplicate ==
  /\ queue # << >>
  /\ queue' = Tail(queue)
  /\ \E isValid \in BOOLEAN : BeginDeployment(Head(queue), isValid)
  /\ UNCHANGED <<finalResponse, published>>
  /\ OthersUnchanged

\* waitAndPopMessage() and process() up to the look-up.
TakeMessage ==
  /\ queue # << >>
  /\ queue' = Tail(queue)
  /\ LET t == Head(queue)
     IN  \/ /\ \E isValid \in BOOLEAN : BeginDeployment(t, isValid)
            /\ UNCHANGED <<finalResponse, published>>
         \/ /\ RepublishRememberedStatus(t)
            /\ \E i \in 1..Len(remembered) : /\ remembered[i].transfer = t
                                             /\ PublishStatus(t, remembered[i].state)
  /\ OthersUnchanged

\* The steps of process() that publish a final status.
AnswerMessage ==
  /\ \/ RejectMessage    /\ PublishStatus(current, "rejected")
     \/ FailInstallation /\ PublishStatus(current, "failed")
     \/ InstallAndAccept /\ PublishStatus(current, "accepted")
  /\ UNCHANGED queue
  /\ OthersUnchanged

\* Its other steps.
ContinueProcessing ==
  /\ ValidateMessage \/ ActivateApplication \/ FailActivation
  /\ UNCHANGED deliveryVars

ApplicationFails ==
  /\ StopAfterCallbackFailure
  /\ UNCHANGED deliveryVars

\* The queue and the connection end with the process.
RestartProcess ==
  /\ ProcessMayRestart
  /\ Restart
  /\ queue' = << >>
  /\ connection' = "down"
  /\ toDevice' = << >>
  /\ UNCHANGED <<senderVars, published>>

-----------------------------------------------------------------------------
MainThread == TakeMessage \/ AnswerMessage \/ ContinueProcessing

SenderMoves(t) == \/ SenderSubscribed(t) \/ BrokerAcknowledges(t)
                  \/ SenderConcludes(t) \/ SenderGivesUp(t)

DeliveryNext ==
  \/ \E t \in TransferIds : \/ StartSender(t) \/ SenderMoves(t)
                            \/ PublishReachesBroker(t)
  \/ DeviceConnects \/ DeviceDisconnects \/ ReceiveMessage
  \/ MainThread \/ ApplicationFails \/ RestartProcess

DeliverySpec == DeliveryInit /\ [][DeliveryNext]_allVars

\* The main loop keeps running.
FairDeliverySpec == DeliverySpec /\ WF_allVars(MainThread)

-----------------------------------------------------------------------------
(***************************************************************************)
(* Properties.                                                             *)
(***************************************************************************)

\* Types; no queue outgrows its bound.
DeliveryTypeOK ==
  /\ sender \in [TransferIds -> SenderStates]
  /\ finalResponse \in [TransferIds -> FinalStates \cup {NoResponse}]
  /\ copies \in [TransferIds -> 0..MaximumPublishes]
  /\ connection \in {"down", "deaf", "subscribed"}
  /\ toDevice \in Seq(TransferIds) /\ Len(toDevice) <= MaximumInTransit
  /\ queue \in Seq(TransferIds) /\ Len(queue) <= MaximumQueuedMessages
  /\ published \in [TransferIds -> SUBSET FinalStates]

\* The exit code of the sender tells what the device did: 0 only for a package the
\* device accepted, 2 only for one it rejected or could not install.
ExitCodeIsTrue ==
  \A t \in TransferIds :
    /\ sender[t] = "success" => "accepted" \in published[t]
    /\ sender[t] = "refused" => published[t] \cap {"rejected", "failed"} # {}

\* A transfer is worked on once per life of the process, however its copies are
\* spread over the queue, as long as they arrive before the original is answered
\* and the memory is not shorter than the queue.  This is what ApplicationDeployment
\* assumes with LateRedelivery = FALSE.
CopiesAreRecognised ==
  [][stage = "idle" /\ stage' = "received" => answers[current'] = {}]_allVars

\* The state after a restart.
ProcessIsNew == /\ stage = "idle" /\ connection = "down" /\ queue = << >>
                /\ \A t \in TransferIds : answers[t] = {}

\* What the queue holds is answered, in whatever order deployments fail, copies come and
\* the connection is lost; only the end of the process loses it.
QueuedMessageIsAnswered ==
  \A t \in TransferIds : Contains(queue, t) ~> answers[t] # {} \/ ProcessIsNew
=============================================================================
