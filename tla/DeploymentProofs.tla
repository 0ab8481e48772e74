--------------------------- MODULE DeploymentProofs ---------------------------
(***************************************************************************)
(* Theorems about ApplicationDeployment, for every set of transfers and    *)
(* every length of the memory, and about DeploymentDelivery, for every     *)
(* number of senders, every length of the queue and any number of copies:  *)
(* what the senders are told, and that copies meet the memory, so that     *)
(* what is proved about the controller alone holds behind the queue.       *)
(***************************************************************************)
EXTENDS DeploymentDelivery, SequenceTheorems, TLAPS

-----------------------------------------------------------------------------
(***************************************************************************)
(* The controller, its memory and the directories.                         *)
(***************************************************************************)

\* AfterRemoval() stays among the contents a directory can have.
LEMMA AfterRemovalType ==
  ASSUME NEW content \in Contents
  PROVE  AfterRemoval(content) \subseteq Contents
BY DEF AfterRemoval, Contents

\* What the memory is after an answer was pushed: a sequence of answers at most one
\* longer, in which every entry is an old one or the new one.
LEMMA PushResult ==
  ASSUME remembered \in Seq(FinalStatus), NEW t \in TransferIds, NEW state \in FinalStates,
         PublishAndRemember(t, state)
  PROVE  LET new == [transfer |-> t, state |-> state]
             k   == IF Len(remembered) + 1 > MaximumRememberedDeployments THEN 1 ELSE 0
         IN  /\ remembered' \in Seq(FinalStatus)
             /\ Len(remembered') = Len(remembered) + 1 - k
             /\ \A i \in 1..Len(remembered') :
                  remembered'[i] = IF i + k = Len(remembered) + 1 THEN new ELSE remembered[i + k]
<1> DEFINE new == [transfer |-> t, state |-> state]
           all == Append(remembered, new)
<1>1. new \in FinalStatus
  BY DEF FinalStatus
<1>2. /\ all \in Seq(FinalStatus)
      /\ Len(all) = Len(remembered) + 1
      /\ Len(remembered) \in Nat
      /\ all # << >>
      /\ \A i \in 1..Len(all) : all[i] = IF i = Len(remembered) + 1 THEN new ELSE remembered[i]
  BY <1>1
<1>3. CASE Len(all) > MaximumRememberedDeployments
  <2> DEFINE rest == Tail(all)
  <2>1. rest \in Seq(FinalStatus) /\ Len(rest) = Len(remembered)
        /\ \A i \in 1..Len(rest) : rest[i] = all[i + 1]
    BY <1>2, HeadTailProperties
  <2>2. remembered' = rest
    BY <1>3 DEF PublishAndRemember
  <2> HIDE DEF all, rest, new
  <2>3. QED
    BY <1>2, <1>3, <2>1, <2>2, SMTT(30) DEF new
<1>4. CASE ~(Len(all) > MaximumRememberedDeployments)
  <2>1. remembered' = all
    BY <1>4 DEF PublishAndRemember
  <2> HIDE DEF all
  <2>2. QED
    BY <1>2, <1>4, <2>1, DeploymentAssumption
<1>5. QED  BY <1>3, <1>4

\* The types after an answer was pushed.
LEMMA PushType ==
  ASSUME TypeOK, NEW t \in TransferIds, NEW state \in FinalStates,
         PublishAndRemember(t, state)
  PROVE  /\ remembered' \in Seq(FinalStatus)
         /\ answers' \in [TransferIds -> SUBSET FinalStates]
         /\ answers'[t] = answers[t] \cup {state}
         /\ \A u \in TransferIds : u # t => answers'[u] = answers[u]
<1>1. remembered' \in Seq(FinalStatus)
  BY PushResult DEF TypeOK
<1>2. QED
  BY <1>1 DEF PublishAndRemember, TypeOK

\* Init and every step of the program keep the types.
THEOREM TypeCorrect == Spec => []TypeOK
<1>1. Init => TypeOK
  <2> SUFFICES ASSUME Init PROVE TypeOK
    OBVIOUS
  <2>1. remembered \in Seq(FinalStatus) /\ answers \in [TransferIds -> SUBSET FinalStates]
    BY DEF Init
  <2>2. QED
    BY <2>1, DeploymentAssumption DEF Init, TypeOK, Stages, Contents
<1>2. TypeOK /\ [Next]_vars => TypeOK'
  <2> SUFFICES ASSUME TypeOK, [Next]_vars
               PROVE  TypeOK'
    OBVIOUS
  <2> USE DeploymentAssumption DEF Stages, Contents
  <2>1. ASSUME NEW t \in TransferIds, RepublishRememberedStatus(t)
        PROVE  TypeOK'
    <3>1. PICK i \in 1..Len(remembered) :
            answers' = [answers EXCEPT ![t] = @ \cup {remembered[i].state}]
      BY <2>1 DEF RepublishRememberedStatus
    <3>2. remembered[i] \in FinalStatus
      BY <3>1 DEF TypeOK
    <3>3. answers' \in [TransferIds -> SUBSET FinalStates]
      BY <3>1, <3>2 DEF TypeOK, FinalStatus
    <3>4. QED
      BY <2>1, <3>3 DEF RepublishRememberedStatus, TypeOK
  <2>2. ASSUME NEW t \in TransferIds, NEW isValid \in BOOLEAN, BeginDeployment(t, isValid)
        PROVE  TypeOK'
    BY <2>2 DEF BeginDeployment, TypeOK
  <2>3. CASE RejectMessage
    BY <2>3, PushType DEF RejectMessage, TypeOK, FinalStates
  <2>4. CASE ValidateMessage
    BY <2>4 DEF ValidateMessage, TypeOK
  <2>5. CASE FailInstallation
    <3>1. current \in TransferIds
      BY <2>5 DEF FailInstallation, TypeOK
    <3>2. /\ installed' \in [TransferIds -> Contents]
          /\ staging' \subseteq TransferIds
          /\ removalFailed' \subseteq TransferIds
      BY <2>5, <3>1 DEF FailInstallation, TypeOK
    <3>3. QED
      BY <2>5, <3>1, <3>2, PushType DEF FailInstallation, TypeOK, FinalStates
  <2>6. CASE InstallAndAccept
    <3>1. current \in TransferIds
      BY <2>6 DEF InstallAndAccept, TypeOK
    <3>2. QED
      BY <2>6, <3>1, PushType DEF InstallAndAccept, TypeOK, FinalStates
  <2>7. CASE ActivateApplication
    BY <2>7 DEF ActivateApplication, RemoveInstalledApplications, ObsoleteDirectories, TypeOK
  <2>8. CASE FailActivation
    BY <2>8 DEF FailActivation, RemoveInstalledApplications, ObsoleteDirectories, TypeOK
  <2>9. CASE StopAfterCallbackFailure
    BY <2>9 DEF StopAfterCallbackFailure, TypeOK
  <2>10. CASE Restart
    <3>1. remembered' \in Seq(FinalStatus)
      BY <2>10 DEF Restart
    <3>2. answers' \in [TransferIds -> SUBSET FinalStates]
      BY <2>10 DEF Restart
    <3>3. QED
      BY <2>10, <3>1, <3>2 DEF Restart, TypeOK
  <2>11. CASE UNCHANGED vars
    BY <2>11 DEF vars, TypeOK
  <2>12. QED
    BY <2>1, <2>2, <2>3, <2>4, <2>5, <2>6, <2>7, <2>8, <2>9, <2>10, <2>11 DEF Next
<1>3. QED
  BY <1>1, <1>2, PTL DEF Spec

-----------------------------------------------------------------------------
(***************************************************************************)
(* The inductive invariant.  The safety invariants speak of the moments    *)
(* when process() is not running; these conjuncts say what holds inside it.*)
(***************************************************************************)

\* The transfer that is being worked on has no remembered answer yet.
CurrentIsForgotten == stage \in {"received", "validated"} => ~Remembers(current)

\* An accepted transfer is installed and was told so.
AcceptedIsInstalled ==
  stage = "accepted" => "accepted" \in answers[current] /\ installed[current] = "complete"

\* In every stage, a directory is active, about to be, or could not be removed.
DirectoriesAreTracked ==
  /\ staging \subseteq removalFailed
  /\ \A t \in TransferIds :
       installed[t] # "absent" =>
         t = active \/ t \in removalFailed \/ (stage = "accepted" /\ t = current)

\* The application in the active directory was answered "accepted".
ActiveWasAccepted == active # NoTransfer => "accepted" \in answers[active]

IInv ==
  /\ MemoryIsSound
  /\ CurrentIsForgotten
  /\ AcceptedIsInstalled
  /\ DirectoriesAreTracked
  /\ ActiveWasAccepted
  /\ RunningApplicationIsTracked

\* A push for a transfer that is not remembered keeps the memory sound.
LEMMA PushKeepsMemorySound ==
  ASSUME TypeOK, MemoryIsSound, NEW t \in TransferIds, NEW state \in FinalStates,
         ~Remembers(t), PublishAndRemember(t, state)
  PROVE  MemoryIsSound'
<1> DEFINE new == [transfer |-> t, state |-> state]
           k   == IF Len(remembered) + 1 > MaximumRememberedDeployments THEN 1 ELSE 0
<1>1. /\ remembered' \in Seq(FinalStatus)
      /\ Len(remembered') = Len(remembered) + 1 - k
      /\ \A i \in 1..Len(remembered') :
           remembered'[i] = IF i + k = Len(remembered) + 1 THEN new ELSE remembered[i + k]
  BY PushResult DEF TypeOK
<1>2. /\ Len(remembered) \in Nat
      /\ \A i \in 1..Len(remembered) : remembered[i] \in FinalStatus
      /\ Len(remembered) <= MaximumRememberedDeployments
      /\ k \in {0, 1}
  BY DEF TypeOK, MemoryIsSound
<1>3. /\ state \in answers'[t]
      /\ \A u \in TransferIds : answers[u] \subseteq answers'[u]
  BY PushType
<1>4. Len(remembered') <= MaximumRememberedDeployments
  BY <1>1, <1>2, DeploymentAssumption
<1> HIDE DEF k
<1>5. ASSUME NEW i \in 1..Len(remembered')
      PROVE  \/ remembered'[i] = new /\ i + k = Len(remembered) + 1
             \/ /\ i + k \in 1..Len(remembered)
                /\ remembered'[i] = remembered[i + k]
                /\ remembered'[i].transfer # t
  <2>1. CASE i + k = Len(remembered) + 1
    BY <1>1, <2>1
  <2>2. CASE i + k # Len(remembered) + 1
    <3>1. i + k \in 1..Len(remembered)
      BY <1>1, <1>2, <2>2
    <3>2. QED
      BY <1>1, <2>2, <3>1 DEF Remembers
  <2>3. QED  BY <2>1, <2>2
<1>6. ASSUME NEW i \in 1..Len(remembered'), NEW j \in 1..Len(remembered'),
             remembered'[i].transfer = remembered'[j].transfer
      PROVE  i = j
  <2>1. new.transfer = t
    OBVIOUS
  <2>2. CASE remembered'[i] = new
    <3>1. remembered'[i].transfer = t
      BY <2>1, <2>2
    <3>2. i + k = Len(remembered) + 1 /\ j + k = Len(remembered) + 1
      BY <1>5, <1>6, <3>1
    <3>3. QED  BY <1>1, <1>2, <3>2
  <2>3. CASE remembered'[i] # new
    <3>1. remembered'[i].transfer # t /\ remembered'[i] = remembered[i + k]
          /\ i + k \in 1..Len(remembered)
      BY <1>5, <2>3
    <3>2. remembered'[j] # new
      BY <1>6, <2>1, <3>1
    <3>3. remembered'[j] = remembered[j + k] /\ j + k \in 1..Len(remembered)
      BY <1>5, <3>2
    <3>4. i + k = j + k
      BY <1>6, <3>1, <3>3 DEF MemoryIsSound
    <3>5. QED  BY <1>1, <1>2, <3>4
  <2>4. QED  BY <2>2, <2>3
<1>7. ASSUME NEW i \in 1..Len(remembered')
      PROVE  remembered'[i].state \in answers'[remembered'[i].transfer]
  <2>1. CASE remembered'[i] = new
    BY <1>3, <2>1
  <2>2. CASE remembered'[i] # new
    <3>1. remembered'[i] = remembered[i + k] /\ i + k \in 1..Len(remembered)
      BY <1>5, <2>2
    <3>2. remembered[i + k].transfer \in TransferIds
      BY <1>2, <3>1 DEF FinalStatus
    <3>3. QED
      BY <1>3, <3>1, <3>2 DEF MemoryIsSound
  <2>3. QED  BY <2>1, <2>2
<1>8. QED
  BY <1>4, <1>6, <1>7 DEF MemoryIsSound

\* Removing directories of applications changes only those directories, and those
\* that stay are noted.
LEMMA RemovalResult ==
  ASSUME TypeOK, NEW D \in SUBSET TransferIds, RemoveInstalledApplications(D)
  PROVE  /\ \A t \in TransferIds \ D : installed'[t] = installed[t]
         /\ \A t \in D : installed'[t] # "absent" => t \in removalFailed'
         /\ removalFailed \subseteq removalFailed'
         /\ ~RemovalMayFail => \A t \in D : installed'[t] = "absent"
BY DEF RemoveInstalledApplications, AfterRemoval, TypeOK

\* Every step keeps the inductive invariant.
LEMMA StepKeepsIInv == TypeOK /\ IInv /\ [Next]_vars => IInv'
<1> SUFFICES ASSUME TypeOK, IInv, [Next]_vars
             PROVE  IInv'
  OBVIOUS
<1> USE DeploymentAssumption
<1>1. ASSUME NEW t \in TransferIds, RepublishRememberedStatus(t)
      PROVE  IInv'
  <2>1. answers' = answers
    <3>1. PICK i \in 1..Len(remembered) :
            /\ remembered[i].transfer = t
            /\ answers' = [answers EXCEPT ![t] = @ \cup {remembered[i].state}]
      BY <1>1 DEF RepublishRememberedStatus
    <3>2. remembered[i].state \in answers[t]
      BY <3>1 DEF IInv, MemoryIsSound
    <3>3. QED  BY <3>1, <3>2 DEF TypeOK
  <2>2. QED
    BY <1>1, <2>1 DEF RepublishRememberedStatus, IInv, MemoryIsSound, CurrentIsForgotten, Remembers,
       AcceptedIsInstalled, DirectoriesAreTracked, ActiveWasAccepted, RunningApplicationIsTracked
<1>2. ASSUME NEW t \in TransferIds, NEW isValid \in BOOLEAN, BeginDeployment(t, isValid)
      PROVE  IInv'
  BY <1>2 DEF BeginDeployment, IInv, MemoryIsSound, CurrentIsForgotten, Remembers,
     AcceptedIsInstalled, DirectoriesAreTracked, ActiveWasAccepted, RunningApplicationIsTracked
<1>3. CASE RejectMessage
  <2>1. current \in TransferIds /\ "rejected" \in FinalStates /\ ~Remembers(current)
    BY <1>3 DEF RejectMessage, TypeOK, FinalStates, IInv, CurrentIsForgotten
  <2>2. MemoryIsSound'
    BY <1>3, <2>1, PushKeepsMemorySound DEF RejectMessage, IInv
  <2>3. \A u \in TransferIds : answers[u] \subseteq answers'[u]
    BY <1>3, <2>1, PushType DEF RejectMessage
  <2>4. QED
    BY <1>3, <2>2, <2>3 DEF RejectMessage, IInv, CurrentIsForgotten, AcceptedIsInstalled,
       DirectoriesAreTracked, ActiveWasAccepted, RunningApplicationIsTracked, TypeOK
<1>4. CASE ValidateMessage
  BY <1>4 DEF ValidateMessage, IInv, MemoryIsSound, CurrentIsForgotten, Remembers,
     AcceptedIsInstalled, DirectoriesAreTracked, ActiveWasAccepted, RunningApplicationIsTracked
<1>5. CASE FailInstallation
  <2>1. current \in TransferIds /\ "failed" \in FinalStates /\ ~Remembers(current)
    BY <1>5 DEF FailInstallation, TypeOK, FinalStates, IInv, CurrentIsForgotten
  <2>2. MemoryIsSound'
    BY <1>5, <2>1, PushKeepsMemorySound DEF FailInstallation, IInv
  <2>3. \A u \in TransferIds : answers[u] \subseteq answers'[u]
    BY <1>5, <2>1, PushType DEF FailInstallation
  <2>4. DirectoriesAreTracked'
    <3>1. PICK staged \in BOOLEAN, content \in Contents :
            /\ staging' = IF staged THEN staging \cup {current} ELSE staging \ {current}
            /\ installed' = [installed EXCEPT ![current] = content]
            /\ removalFailed' = IF staged \/ content \notin {"absent", installed[current]}
                                THEN removalFailed \cup {current}
                                ELSE removalFailed
      BY <1>5 DEF FailInstallation
    <3>2. stage = "validated" /\ stage' = "idle" /\ active' = active
      BY <1>5 DEF FailInstallation
    <3>3. QED
      BY <2>1, <3>1, <3>2 DEF IInv, DirectoriesAreTracked, TypeOK
  <2>5. QED
    BY <1>5, <2>2, <2>3, <2>4 DEF FailInstallation, IInv, CurrentIsForgotten, AcceptedIsInstalled,
       ActiveWasAccepted, RunningApplicationIsTracked, TypeOK
<1>6. CASE InstallAndAccept
  <2>1. current \in TransferIds /\ "accepted" \in FinalStates /\ ~Remembers(current)
    BY <1>6 DEF InstallAndAccept, TypeOK, FinalStates, IInv, CurrentIsForgotten
  <2>2. MemoryIsSound'
    BY <1>6, <2>1, PushKeepsMemorySound DEF InstallAndAccept, IInv
  <2>3. /\ \A u \in TransferIds : answers[u] \subseteq answers'[u]
        /\ "accepted" \in answers'[current]
    BY <1>6, <2>1, PushType DEF InstallAndAccept
  <2>4. DirectoriesAreTracked' /\ AcceptedIsInstalled'
    BY <1>6, <2>1, <2>3 DEF InstallAndAccept, IInv, DirectoriesAreTracked, AcceptedIsInstalled, TypeOK
  <2>5. QED
    BY <1>6, <2>2, <2>3, <2>4 DEF InstallAndAccept, IInv, CurrentIsForgotten,
       ActiveWasAccepted, RunningApplicationIsTracked, TypeOK
<1>7. CASE ActivateApplication
  <2>1. current \in TransferIds /\ "accepted" \in answers[current]
    BY <1>7 DEF ActivateApplication, TypeOK, IInv, AcceptedIsInstalled
  <2>2. DirectoriesAreTracked'
    <3> DEFINE D == ObsoleteDirectories(TRUE)
    <3>1. D \in SUBSET TransferIds /\ (active # NoTransfer => active \in D)
      BY DEF ObsoleteDirectories, TypeOK
    <3>2. RemoveInstalledApplications(D)
      BY <1>7 DEF ActivateApplication
    <3> HIDE DEF D
    <3>3. /\ \A t \in TransferIds \ D : installed'[t] = installed[t]
          /\ \A t \in D : installed'[t] # "absent" => t \in removalFailed'
          /\ removalFailed \subseteq removalFailed'
      BY <3>1, <3>2, RemovalResult
    <3>4. stage = "accepted" /\ stage' = "idle" /\ active' = current /\ staging' = staging
      BY <1>7 DEF ActivateApplication
    <3>5. staging' \subseteq removalFailed'
      BY <3>3, <3>4 DEF IInv, DirectoriesAreTracked
    <3>6. ASSUME NEW t \in TransferIds, installed'[t] # "absent"
          PROVE  t = active' \/ t \in removalFailed'
      <4>1. CASE t \in D
        BY <3>1, <3>3, <3>4, <3>6, <4>1 DEF IInv, DirectoriesAreTracked
      <4>2. CASE t \notin D
        BY <3>1, <3>3, <3>4, <3>6, <4>2 DEF IInv, DirectoriesAreTracked
      <4>3. QED  BY <4>1, <4>2
    <3>7. QED  BY <3>5, <3>6 DEF DirectoriesAreTracked
  <2>3. QED
    BY <1>7, <2>1, <2>2 DEF ActivateApplication, IInv, MemoryIsSound, CurrentIsForgotten,
       AcceptedIsInstalled, ActiveWasAccepted, RunningApplicationIsTracked
<1>8. CASE FailActivation
  <2>1. DirectoriesAreTracked'
    <3> DEFINE D == ObsoleteDirectories(FALSE)
    <3>1. D \in SUBSET TransferIds /\ (active # NoTransfer => active \in D) /\ current \in D
      BY <1>8 DEF FailActivation, ObsoleteDirectories, TypeOK
    <3>2. RemoveInstalledApplications(D)
      BY <1>8 DEF FailActivation
    <3> HIDE DEF D
    <3>3. /\ \A t \in TransferIds \ D : installed'[t] = installed[t]
          /\ \A t \in D : installed'[t] # "absent" => t \in removalFailed'
          /\ removalFailed \subseteq removalFailed'
      BY <3>1, <3>2, RemovalResult
    <3>4. stage = "accepted" /\ stage' = "idle" /\ active' = NoTransfer /\ staging' = staging
      BY <1>8 DEF FailActivation
    <3>5. staging' \subseteq removalFailed'
      BY <3>3, <3>4 DEF IInv, DirectoriesAreTracked
    <3>6. ASSUME NEW t \in TransferIds, installed'[t] # "absent"
          PROVE  t \in removalFailed'
      <4>1. CASE t \in D
        BY <3>1, <3>3, <3>4, <3>6, <4>1 DEF IInv, DirectoriesAreTracked
      <4>2. CASE t \notin D
        BY <3>1, <3>3, <3>4, <3>6, <4>2 DEF IInv, DirectoriesAreTracked
      <4>3. QED  BY <4>1, <4>2
    <3>7. QED  BY <3>5, <3>6 DEF DirectoriesAreTracked
  <2>2. QED
    BY <1>8, <2>1 DEF FailActivation, IInv, MemoryIsSound, CurrentIsForgotten,
       AcceptedIsInstalled, ActiveWasAccepted, RunningApplicationIsTracked
<1>9. CASE StopAfterCallbackFailure
  BY <1>9 DEF StopAfterCallbackFailure, IInv, MemoryIsSound, CurrentIsForgotten, Remembers,
     AcceptedIsInstalled, DirectoriesAreTracked, ActiveWasAccepted, RunningApplicationIsTracked
<1>10. CASE Restart
  BY <1>10 DEF Restart, IInv, MemoryIsSound, CurrentIsForgotten,
     AcceptedIsInstalled, DirectoriesAreTracked, ActiveWasAccepted, RunningApplicationIsTracked
<1>11. CASE UNCHANGED vars
  BY <1>11 DEF vars, IInv, MemoryIsSound, CurrentIsForgotten, Remembers,
     AcceptedIsInstalled, DirectoriesAreTracked, ActiveWasAccepted, RunningApplicationIsTracked
<1>12. QED
  BY <1>1, <1>2, <1>3, <1>4, <1>5, <1>6, <1>7, <1>8, <1>9, <1>10, <1>11 DEF Next

\* The inductive invariant holds in every reachable state.
LEMMA InductiveInvariant == Spec => []IInv
<1>1. Init => IInv
  BY DeploymentAssumption DEF Init, IInv, MemoryIsSound, CurrentIsForgotten, AcceptedIsInstalled,
     DirectoriesAreTracked, ActiveWasAccepted, RunningApplicationIsTracked
<1>2. QED
  BY <1>1, StepKeepsIInv, TypeCorrect, PTL DEF Spec

\* The memory of the controller is bounded, holds one answer per transfer, and only
\* answers that were published.
THEOREM MemorySoundness == Spec => []MemoryIsSound
<1>1. IInv => MemoryIsSound
  BY DEF IInv
<1>2. QED
  BY <1>1, InductiveInvariant, PTL

\* Between two messages only the active application has a directory, unless a
\* removal failed.
THEOREM NoDirectoryLeaks == Spec => []NothingIsLeftBehind
<1>1. IInv => NothingIsLeftBehind
  BY DEF IInv, DirectoriesAreTracked, NothingIsLeftBehind
<1>2. QED
  BY <1>1, InductiveInvariant, PTL

\* The running application is the one the controller tracks, and was accepted.
THEOREM RunningIsTracked == Spec => []RunningApplicationIsTracked
<1>1. IInv => RunningApplicationIsTracked
  BY DEF IInv
<1>2. QED
  BY <1>1, InductiveInvariant, PTL

-----------------------------------------------------------------------------
\* A duplicate of a remembered transfer is answered as before, and what happens to
\* other transfers does not change that answer.
THEOREM RememberedAnswersAreStable == Spec => RememberedAnswerIsStable
<1>1. TypeOK /\ IInv /\ [Next]_vars => [KeepsRememberedAnswers]_vars
  <2> SUFFICES ASSUME TypeOK, IInv, Next, NEW t \in TransferIds, Remembers(t)
               PROVE  \/ answers'[t] = answers[t]
                      \/ \A u \in TransferIds : answers'[u] = {}
    BY DEF KeepsRememberedAnswers
  <2>1. ASSUME NEW u \in TransferIds, RepublishRememberedStatus(u)
        PROVE  answers'[t] = answers[t]
    <3>1. PICK i \in 1..Len(remembered) :
            /\ remembered[i].transfer = u
            /\ answers' = [answers EXCEPT ![u] = @ \cup {remembered[i].state}]
      BY <2>1 DEF RepublishRememberedStatus
    <3>2. remembered[i].state \in answers[u]
      BY <3>1 DEF IInv, MemoryIsSound
    <3>3. QED  BY <3>1, <3>2 DEF TypeOK
  <2>2. ASSUME NEW u \in TransferIds, NEW isValid \in BOOLEAN, BeginDeployment(u, isValid)
        PROVE  answers'[t] = answers[t]
    BY <2>2 DEF BeginDeployment
  <2>3. ASSUME RejectMessage \/ FailInstallation \/ InstallAndAccept
        PROVE  answers'[t] = answers[t]
    <3>1. stage \in {"received", "validated"} /\ current # t
      BY <2>3 DEF RejectMessage, FailInstallation, InstallAndAccept, IInv, CurrentIsForgotten
    <3>2. QED
      BY <2>3, <3>1 DEF RejectMessage, FailInstallation, InstallAndAccept, PublishAndRemember, TypeOK
  <2>4. ASSUME ValidateMessage \/ ActivateApplication \/ FailActivation \/ StopAfterCallbackFailure
        PROVE  answers'[t] = answers[t]
    BY <2>4 DEF ValidateMessage, ActivateApplication, FailActivation, StopAfterCallbackFailure
  <2>5. ASSUME Restart
        PROVE  \A u \in TransferIds : answers'[u] = {}
    BY <2>5 DEF Restart
  <2>6. QED
    BY <2>1, <2>2, <2>3, <2>4, <2>5 DEF Next
<1>2. QED
  BY <1>1, TypeCorrect, InductiveInvariant, PTL DEF Spec, RememberedAnswerIsStable

-----------------------------------------------------------------------------
(***************************************************************************)
(* What holds when no transfer is worked on again after it was answered.   *)
(***************************************************************************)
BeginsFresh == stage = "idle" /\ stage' = "received" => answers[current'] = {}

\* Without LateRedelivery that is the arrival's own condition and the look-up.
LEMMA OnlyFreshBegins ==
  ASSUME ~LateRedelivery
  PROVE  [Next]_vars => BeginsFresh
<1> SUFFICES ASSUME [Next]_vars, stage = "idle", stage' = "received"
             PROVE  answers[current'] = {}
  BY DEF BeginsFresh
<1>1. \E t \in TransferIds, isValid \in BOOLEAN : BeginDeployment(t, isValid)
  BY DEF Next, vars, RepublishRememberedStatus, RejectMessage, ValidateMessage, FailInstallation,
         InstallAndAccept, ActivateApplication, FailActivation, StopAfterCallbackFailure, Restart
<1>2. QED
  BY <1>1 DEF BeginDeployment, MayArrive

FreshInv ==
  /\ stage \in {"received", "validated"} => answers[current] = {}
  /\ stage = "accepted" => current # active
  /\ AnswerIsFinal
  /\ ActiveDirectoryIsIntact

\* Every step keeps FreshInv as long as duplicates meet the memory.
LEMMA StepKeepsFreshInv == TypeOK /\ IInv /\ FreshInv /\ BeginsFresh /\ [Next]_vars => FreshInv'
<1> SUFFICES ASSUME TypeOK, IInv, FreshInv, BeginsFresh, [Next]_vars
             PROVE  FreshInv'
  OBVIOUS
<1> USE DeploymentAssumption
<1>1. ASSUME NEW t \in TransferIds, RepublishRememberedStatus(t)
      PROVE  FreshInv'
  <2>1. PICK i \in 1..Len(remembered) :
          /\ remembered[i].transfer = t
          /\ answers' = [answers EXCEPT ![t] = @ \cup {remembered[i].state}]
    BY <1>1 DEF RepublishRememberedStatus
  <2>2. remembered[i].state \in answers[t]
    BY <2>1 DEF IInv, MemoryIsSound
  <2>3. answers' = answers
    BY <2>1, <2>2 DEF TypeOK
  <2>4. QED
    BY <1>1, <2>3 DEF RepublishRememberedStatus, FreshInv, AnswerIsFinal, ActiveDirectoryIsIntact
<1>2. ASSUME NEW t \in TransferIds, NEW isValid \in BOOLEAN, BeginDeployment(t, isValid)
      PROVE  FreshInv'
  BY <1>2 DEF BeginDeployment, BeginsFresh, FreshInv, AnswerIsFinal, ActiveDirectoryIsIntact
<1>3. CASE RejectMessage
  <2>1. current \in TransferIds /\ "rejected" \in FinalStates /\ answers[current] = {}
    BY <1>3 DEF RejectMessage, TypeOK, FinalStates, FreshInv
  <2>2. AnswerIsFinal'
    BY <1>3, <2>1, PushType DEF RejectMessage, FreshInv, AnswerIsFinal
  <2>3. QED
    BY <1>3, <2>2 DEF RejectMessage, FreshInv, ActiveDirectoryIsIntact
<1>4. CASE ValidateMessage
  BY <1>4 DEF ValidateMessage, FreshInv, AnswerIsFinal, ActiveDirectoryIsIntact
<1>5. CASE FailInstallation
  <2>1. current \in TransferIds /\ "failed" \in FinalStates /\ answers[current] = {}
    BY <1>5 DEF FailInstallation, TypeOK, FinalStates, FreshInv
  <2>2. AnswerIsFinal'
    BY <1>5, <2>1, PushType DEF FailInstallation, FreshInv, AnswerIsFinal
  <2>3. active # current
    BY <2>1, <1>5 DEF IInv, ActiveWasAccepted, TypeOK
  <2>4. ActiveDirectoryIsIntact'
    BY <1>5, <2>3 DEF FailInstallation, FreshInv, ActiveDirectoryIsIntact, TypeOK
  <2>5. QED
    BY <1>5, <2>2, <2>4 DEF FailInstallation, FreshInv
<1>6. CASE InstallAndAccept
  <2>1. current \in TransferIds /\ "accepted" \in FinalStates /\ answers[current] = {}
    BY <1>6 DEF InstallAndAccept, TypeOK, FinalStates, FreshInv
  <2>2. AnswerIsFinal'
    BY <1>6, <2>1, PushType DEF InstallAndAccept, FreshInv, AnswerIsFinal
  <2>3. active # current
    BY <2>1, <1>6 DEF IInv, ActiveWasAccepted, TypeOK
  <2>4. ActiveDirectoryIsIntact'
    BY <1>6, <2>3 DEF InstallAndAccept, FreshInv, ActiveDirectoryIsIntact, TypeOK
  <2>5. QED
    BY <1>6, <2>2, <2>3, <2>4 DEF InstallAndAccept, FreshInv
<1>7. CASE ActivateApplication
  <2> DEFINE D == ObsoleteDirectories(TRUE)
  <2>1. D \in SUBSET TransferIds /\ current \in TransferIds \ D
    BY <1>7 DEF ActivateApplication, ObsoleteDirectories, TypeOK, FreshInv
  <2>2. RemoveInstalledApplications(D)
    BY <1>7 DEF ActivateApplication
  <2> HIDE DEF D
  <2>3. installed'[current] = installed[current]
    BY <2>1, <2>2, RemovalResult
  <2>4. QED
    BY <1>7, <2>1, <2>3 DEF ActivateApplication, FreshInv, IInv, AcceptedIsInstalled, AnswerIsFinal, ActiveDirectoryIsIntact
<1>8. CASE FailActivation
  BY <1>8 DEF FailActivation, FreshInv, AnswerIsFinal, ActiveDirectoryIsIntact
<1>9. CASE StopAfterCallbackFailure
  BY <1>9 DEF StopAfterCallbackFailure, FreshInv, AnswerIsFinal, ActiveDirectoryIsIntact
<1>10. CASE Restart
  BY <1>10 DEF Restart, FreshInv, AnswerIsFinal, ActiveDirectoryIsIntact
<1>11. CASE UNCHANGED vars
  BY <1>11 DEF vars, FreshInv, AnswerIsFinal, ActiveDirectoryIsIntact
<1>12. QED
  BY <1>1, <1>2, <1>3, <1>4, <1>5, <1>6, <1>7, <1>8, <1>9, <1>10, <1>11 DEF Next

\* FreshInv holds in every reachable state.
LEMMA FreshInvariant ==
  ASSUME ~LateRedelivery
  PROVE  Spec => []FreshInv
<1>1. Init => FreshInv
  BY DEF Init, FreshInv, AnswerIsFinal, ActiveDirectoryIsIntact
<1>2. TypeOK /\ IInv /\ FreshInv /\ [Next]_vars => FreshInv'
  BY StepKeepsFreshInv, OnlyFreshBegins
<1>3. QED
  BY <1>1, <1>2, TypeCorrect, InductiveInvariant, PTL DEF Spec

\* When the memory outlasts the duplicates, the directory of the active application
\* is complete and no transfer is answered in two ways.
THEOREM ActiveDirectoryStaysIntact ==
  ASSUME ~LateRedelivery
  PROVE  Spec => [](ActiveDirectoryIsIntact /\ AnswerIsFinal)
<1>1. FreshInv => ActiveDirectoryIsIntact /\ AnswerIsFinal
  BY DEF FreshInv
<1>2. QED
  BY <1>1, FreshInvariant, PTL

-----------------------------------------------------------------------------
\* Each step of process() is a step of the contract with the sender, or none.
LEMMA StepKeepsContract == TypeOK /\ IInv /\ FreshInv /\ [Next]_vars => [Contract!Next]_Contract!contractVars
<1> USE DeploymentAssumption
<1> SUFFICES ASSUME TypeOK, IInv, FreshInv, [Next]_vars
             PROVE  [Contract!Next]_Contract!contractVars
  OBVIOUS
<1>1. ASSUME NEW t \in TransferIds, RepublishRememberedStatus(t)
      PROVE  UNCHANGED Contract!contractVars
  <2>1. PICK i \in 1..Len(remembered) :
          /\ remembered[i].transfer = t
          /\ answers' = [answers EXCEPT ![t] = @ \cup {remembered[i].state}]
    BY <1>1 DEF RepublishRememberedStatus
  <2>2. remembered[i].state \in answers[t]
    BY <2>1 DEF IInv, MemoryIsSound
  <2>3. answers' = answers
    BY <2>1, <2>2 DEF TypeOK
  <2>4. QED  BY <1>1, <2>3 DEF RepublishRememberedStatus, Contract!contractVars
<1>2. ASSUME NEW t \in TransferIds, NEW isValid \in BOOLEAN, BeginDeployment(t, isValid)
      PROVE  UNCHANGED Contract!contractVars
  BY <1>2 DEF BeginDeployment, Contract!contractVars
<1>3. CASE RejectMessage
  <2>1. current \in TransferIds /\ answers[current] = {} /\ stage = "received" /\ stage' = "idle"
    BY <1>3 DEF RejectMessage, TypeOK, FreshInv
  <2>2. answers' = [answers EXCEPT ![current] = {"rejected"}] /\ running' = running
    BY <1>3, <2>1 DEF RejectMessage, PublishAndRemember, TypeOK
  <2>3. Contract!Refuse(current)
    BY <2>1, <2>2 DEF Contract!Refuse, Contract!Unanswered
  <2>4. QED  BY <2>1, <2>3 DEF Contract!Next
<1>4. CASE ValidateMessage
  BY <1>4 DEF ValidateMessage, Contract!contractVars
<1>5. CASE FailInstallation
  <2>1. current \in TransferIds /\ answers[current] = {} /\ stage = "validated" /\ stage' = "idle"
    BY <1>5 DEF FailInstallation, TypeOK, FreshInv
  <2>2. answers' = [answers EXCEPT ![current] = {"failed"}] /\ running' = running
    BY <1>5, <2>1 DEF FailInstallation, PublishAndRemember, TypeOK
  <2>3. Contract!Refuse(current)
    BY <2>1, <2>2 DEF Contract!Refuse, Contract!Unanswered
  <2>4. QED  BY <2>1, <2>3 DEF Contract!Next
<1>6. CASE InstallAndAccept
  <2>1. current \in TransferIds /\ answers[current] = {} /\ stage = "validated" /\ stage' = "accepted"
        /\ current' = current
    BY <1>6 DEF InstallAndAccept, TypeOK, FreshInv
  <2>2. answers' = [answers EXCEPT ![current] = {"accepted"}] /\ running' = running
    BY <1>6, <2>1 DEF InstallAndAccept, PublishAndRemember, TypeOK
  <2>3. Contract!Accept(current)
    BY <2>1, <2>2 DEF Contract!Accept, Contract!Unanswered
  <2>4. QED  BY <2>1, <2>3 DEF Contract!Next
<1>7. CASE ActivateApplication
  <2>1. current # NoTransfer
    BY <1>7 DEF ActivateApplication, TypeOK
  <2>2. Contract!Start
    BY <1>7, <2>1 DEF ActivateApplication, Contract!Start
  <2>3. QED  BY <2>2 DEF Contract!Next
<1>8. CASE FailActivation
  <2>1. current # NoTransfer
    BY <1>8 DEF FailActivation, TypeOK
  <2>2. Contract!Start
    BY <1>8, <2>1 DEF FailActivation, Contract!Start
  <2>3. QED  BY <2>2 DEF Contract!Next
<1>9. CASE StopAfterCallbackFailure
  BY <1>9 DEF StopAfterCallbackFailure, Contract!Next, Contract!Stop
<1>10. CASE Restart
  BY <1>10 DEF Restart, Contract!Next, Contract!Restart
<1>11. CASE UNCHANGED vars
  BY <1>11 DEF vars, Contract!contractVars
<1>12. QED
  BY <1>1, <1>2, <1>3, <1>4, <1>5, <1>6, <1>7, <1>8, <1>9, <1>10, <1>11 DEF Next

\* When the memory outlasts the duplicates, the controller implements the contract
\* with the sender: one answer per transfer, one start per accepted transfer.
THEOREM ControllerImplementsContract ==
  ASSUME ~LateRedelivery
  PROVE  Spec => ImplementsContract
<1>1. Init => Contract!Init
  BY DEF Init, Contract!Init
<1>2. TypeOK /\ IInv /\ FreshInv /\ [Next]_vars => [Contract!Next]_Contract!contractVars
  BY StepKeepsContract
<1>3. QED
  BY <1>1, <1>2, TypeCorrect, InductiveInvariant, FreshInvariant, PTL DEF Spec, ImplementsContract, Contract!Spec


-----------------------------------------------------------------------------
(***************************************************************************)
(* Behind sender, broker and queue.                                        *)
(***************************************************************************)

\* What waits for the main thread are transfers.
QueuesHoldTransfers == queue \in Seq(TransferIds) /\ toDevice \in Seq(TransferIds)

LEMMA QueuesInvariant == DeliverySpec => []QueuesHoldTransfers
<1>1. DeliveryInit => QueuesHoldTransfers
  BY DEF DeliveryInit, QueuesHoldTransfers
<1>2. QueuesHoldTransfers /\ [DeliveryNext]_allVars => QueuesHoldTransfers'
  <2> SUFFICES ASSUME QueuesHoldTransfers, [DeliveryNext]_allVars
               PROVE  QueuesHoldTransfers'
    OBVIOUS
  <2> USE DEF QueuesHoldTransfers
  <2>1. ASSUME NEW t \in TransferIds, StartSender(t) \/ SenderMoves(t)
        PROVE  QueuesHoldTransfers'
    BY <2>1 DEF StartSender, SenderMoves, SenderSubscribed, BrokerAcknowledges, SenderConcludes,
                SenderGivesUp, SenderGoes
  <2>2. ASSUME NEW t \in TransferIds, PublishReachesBroker(t)
        PROVE  QueuesHoldTransfers'
    <3>1. queue' = queue /\ toDevice' \in {toDevice, Append(toDevice, t)}
      BY <2>2 DEF PublishReachesBroker
    <3>2. QED
      BY <3>1
  <2>3. CASE DeviceConnects \/ DeviceDisconnects \/ RestartProcess
    <3>1. << >> \in Seq(TransferIds)
      OBVIOUS
    <3>2. queue' \in {queue, << >>} /\ toDevice' \in {toDevice, << >>}
      BY <2>3 DEF DeviceConnects, DeviceDisconnects, RestartProcess
    <3>3. QED
      BY <3>1, <3>2
  <2>4. CASE ReceiveMessage
    <3>1. Head(toDevice) \in TransferIds /\ toDevice' \in Seq(TransferIds)
      BY <2>4 DEF ReceiveMessage
    <3>2. QED
      BY <2>4, <3>1 DEF ReceiveMessage, TryPush
  <2>5. CASE MainThread \/ ApplicationFails
    BY <2>5, SMTT(30) DEF MainThread, ApplicationFails, TakeMessage, AnswerMessage, ContinueProcessing,
                OthersUnchanged, deliveryVars
  <2>6. CASE UNCHANGED allVars
    BY <2>6 DEF allVars, deliveryVars
  <2>7. QED
    BY <2>1, <2>2, <2>3, <2>4, <2>5, <2>6 DEF DeliveryNext
<1>3. QED
  BY <1>1, <1>2, PTL DEF DeliverySpec

-----------------------------------------------------------------------------
\* Behind sender, broker, network and queue the device still behaves like the controller
\* of ApplicationDeployment: all that is proved about that one, with copies at any time,
\* holds here too.
THEOREM DeliveryKeepsDeployment == DeliverySpec => Spec
<1>1. DeliveryInit => Init
  BY DEF DeliveryInit
<1>2. QueuesHoldTransfers /\ [DeliveryNext]_allVars => [Next]_vars
  <2> SUFFICES ASSUME QueuesHoldTransfers, [DeliveryNext]_allVars
               PROVE  [Next]_vars
    OBVIOUS
  <2>1. ASSUME NEW t \in TransferIds, StartSender(t) \/ SenderMoves(t) \/ PublishReachesBroker(t)
        PROVE  UNCHANGED vars
    BY <2>1 DEF StartSender, SenderMoves, SenderSubscribed, BrokerAcknowledges, SenderConcludes,
                SenderGivesUp, SenderGoes, PublishReachesBroker
  <2>2. CASE DeviceConnects \/ DeviceDisconnects \/ ReceiveMessage
    BY <2>2 DEF DeviceConnects, DeviceDisconnects, ReceiveMessage
  <2>3. CASE TakeMessage
    <3>1. Head(queue) \in TransferIds
      BY <2>3 DEF TakeMessage, QueuesHoldTransfers
    <3>2. QED
      BY <2>3, <3>1 DEF TakeMessage, Next
  <2>4. CASE AnswerMessage \/ ContinueProcessing \/ ApplicationFails \/ RestartProcess
    BY <2>4 DEF AnswerMessage, ContinueProcessing, ApplicationFails, RestartProcess, Next
  <2>5. CASE UNCHANGED allVars
    BY <2>5 DEF allVars
  <2>6. QED
    BY <2>1, <2>2, <2>3, <2>4, <2>5 DEF DeliveryNext, MainThread
<1>3. QED
  BY <1>1, <1>2, QueuesInvariant, PTL DEF DeliverySpec, Spec

-----------------------------------------------------------------------------
(***************************************************************************)
(* What the senders are told.                                              *)
(***************************************************************************)

\* A status that is with a sender, or on its way to it, was published for its transfer.
ResponsesWerePublished ==
  /\ sender \in [TransferIds -> SenderStates]
  /\ finalResponse \in [TransferIds -> FinalStates \cup {NoResponse}]
  /\ published \in [TransferIds -> SUBSET FinalStates]
  /\ \A t \in TransferIds : finalResponse[t] # NoResponse => finalResponse[t] \in published[t]

ExitInv == ResponsesWerePublished /\ ExitCodeIsTrue

\* Publishing a status, received or lost, makes no exit code untrue.
LEMMA PublishKeepsExitInv ==
  ASSUME ExitInv, NEW t \in TransferIds, NEW status \in FinalStates,
         PublishStatus(t, status), UNCHANGED sender
  PROVE  ExitInv'
<1> USE DEF ExitInv, ResponsesWerePublished, PublishStatus
<1>1. published' \in [TransferIds -> SUBSET FinalStates]
  OBVIOUS
<1>2. \A u \in TransferIds : published[u] \subseteq published'[u]
  OBVIOUS
<1>3. finalResponse' \in [TransferIds -> FinalStates \cup {NoResponse}]
  OBVIOUS
<1>4. \A u \in TransferIds : finalResponse'[u] # NoResponse => finalResponse'[u] \in published'[u]
  OBVIOUS
<1>5. ExitCodeIsTrue'
  BY <1>2 DEF ExitCodeIsTrue
<1>6. QED
  BY <1>1, <1>3, <1>4, <1>5

LEMMA StepKeepsExitInv ==
  ASSUME ExitInv, QueuesHoldTransfers, TypeOK, [DeliveryNext]_allVars
  PROVE  ExitInv'
<1>1. ASSUME NEW t \in TransferIds, StartSender(t) \/ SenderMoves(t)
      PROVE  ExitInv'
  <2>1. UNCHANGED <<finalResponse, published>>
    BY <1>1 DEF StartSender, SenderMoves, SenderSubscribed, BrokerAcknowledges, SenderConcludes,
                SenderGivesUp, SenderGoes
  <2>2. CASE SenderConcludes(t)
    <3>1. finalResponse[t] \in published[t] /\ finalResponse[t] \in FinalStates
      BY <2>2 DEF SenderConcludes, ExitInv, ResponsesWerePublished
    <3>2. sender' = [sender EXCEPT ![t] = IF finalResponse[t] = "accepted" THEN "success" ELSE "refused"]
      BY <2>2 DEF SenderConcludes, SenderGoes
    <3>3. QED
      BY <2>1, <3>1, <3>2 DEF ExitInv, ResponsesWerePublished, ExitCodeIsTrue, FinalStates,
                              SenderStates, SenderExits
  <2>3. CASE ~SenderConcludes(t)
    <3>1. \E to \in {"connecting", "publishing", "waiting", "sent", "gaveUp"} :
            sender' = [sender EXCEPT ![t] = to]
      BY <1>1, <2>3 DEF StartSender, SenderMoves, SenderSubscribed, BrokerAcknowledges,
                        SenderGivesUp, SenderGoes
    <3>2. QED
      BY <2>1, <3>1 DEF ExitInv, ResponsesWerePublished, ExitCodeIsTrue, SenderStates, SenderExits
  <2>4. QED
    BY <2>2, <2>3
<1>2. CASE \/ \E t \in TransferIds : PublishReachesBroker(t)
           \/ DeviceConnects \/ DeviceDisconnects \/ ReceiveMessage
           \/ ContinueProcessing \/ ApplicationFails \/ UNCHANGED allVars
  BY <1>2 DEF PublishReachesBroker, DeviceConnects, DeviceDisconnects, ReceiveMessage, ContinueProcessing,
              ApplicationFails, allVars, deliveryVars, senderVars, ExitInv, ResponsesWerePublished,
              ExitCodeIsTrue
<1>3. CASE RestartProcess
  BY <1>3 DEF RestartProcess, senderVars, ExitInv, ResponsesWerePublished, ExitCodeIsTrue
<1>4. CASE TakeMessage
  <2>1. UNCHANGED sender /\ Head(queue) \in TransferIds
    BY <1>4 DEF TakeMessage, OthersUnchanged, QueuesHoldTransfers
  <2>2. CASE UNCHANGED <<finalResponse, published>>
    BY <2>1, <2>2 DEF ExitInv, ResponsesWerePublished, ExitCodeIsTrue
  <2>3. ASSUME NEW i \in 1..Len(remembered), PublishStatus(Head(queue), remembered[i].state)
        PROVE  ExitInv'
    <3>1. remembered[i] \in FinalStatus
      BY DEF TypeOK
    <3>2. remembered[i].state \in FinalStates
      BY <3>1 DEF FinalStatus
    <3>3. QED
      BY <2>1, <2>3, <3>2, PublishKeepsExitInv
  <2>4. QED
    BY <1>4, <2>2, <2>3 DEF TakeMessage
<1>5. CASE AnswerMessage
  <2>1. UNCHANGED sender /\ \E status \in FinalStates : PublishStatus(current, status)
    BY <1>5 DEF AnswerMessage, OthersUnchanged, FinalStates
  <2>2. current \in TransferIds
    BY <1>5 DEF AnswerMessage, RejectMessage, FailInstallation, InstallAndAccept, TypeOK
  <2>3. QED
    BY <2>1, <2>2, PublishKeepsExitInv
<1>6. QED
  BY <1>1, <1>2, <1>3, <1>4, <1>5 DEF DeliveryNext, MainThread

\* However often messages are copied, statuses lost and processes restarted, a sender
\* ends with 0 only if its package was accepted, and with 2 only if it was refused.
THEOREM ExitCodesAreTrue == DeliverySpec => []ExitCodeIsTrue
<1>1. DeliveryInit => ExitInv
  BY DEF DeliveryInit, ExitInv, ResponsesWerePublished, ExitCodeIsTrue, SenderStates, NoResponse
<1>2. ExitInv /\ QueuesHoldTransfers /\ TypeOK /\ [DeliveryNext]_allVars => ExitInv'
  BY StepKeepsExitInv
<1>3. ExitInv => ExitCodeIsTrue
  BY DEF ExitInv
<1>4. QED
  BY <1>1, <1>2, <1>3, QueuesInvariant, DeliveryKeepsDeployment, TypeCorrect, PTL DEF DeliverySpec

-----------------------------------------------------------------------------
(***************************************************************************)
(* Copies meet the memory.                                                 *)
(***************************************************************************)

\* The message that is being worked on will take a place in the memory.
InWork == IF stage \in {"received", "validated"} THEN 1 ELSE 0

\* A copy of an answered transfer, n-th among the waiting messages, will find its answer
\* although one before it and the one in work may push others out of the memory.
MeetsMemory(t, n) ==
  answers[t] # {} =>
    \E i \in 1..Len(remembered) :
      /\ remembered[i].transfer = t
      /\ Len(remembered) + InWork + n <= MaximumRememberedDeployments + i

WaitingMeetsMemory ==
  /\ \A j \in 1..Len(queue) : MeetsMemory(queue[j], j)
  /\ \A j \in 1..Len(toDevice) : MeetsMemory(toDevice[j], Len(queue) + j)

\* What the controller has answered since it started was published.
AnswersWerePublished ==
  /\ published \in [TransferIds -> SUBSET FinalStates]
  /\ \A t \in TransferIds : published[t] = {} => answers[t] = {}

CopiesInv ==
  /\ Len(queue) <= MaximumQueuedMessages /\ Len(toDevice) <= MaximumInTransit
  /\ AnswersWerePublished
  /\ WaitingMeetsMemory

LEMMA DeliveryConstants ==
  /\ MaximumRememberedDeployments \in Nat \ {0}
  /\ MaximumQueuedMessages \in Nat \ {0} /\ MaximumInTransit \in Nat \ {0}
BY DeploymentAssumption, DeliveryAssumption

\* It is enough to look at each waiting message as a fixed transfer.
LEMMA EachWaitingMessage ==
  ASSUME \A j \in 1..Len(queue') : \A t : t = queue'[j] => MeetsMemory(t, j)',
         \A j \in 1..Len(toDevice') : \A t, n : t = toDevice'[j] /\ n = Len(queue') + j
                                                  => MeetsMemory(t, n)'
  PROVE  WaitingMeetsMemory'
BY DEF WaitingMeetsMemory, MeetsMemory

LEMMA EarlierIsEasier ==
  ASSUME TypeOK, NEW t, NEW n \in Nat, NEW m \in 0..n, MeetsMemory(t, n)
  PROVE  MeetsMemory(t, m)
<1>1. Len(remembered) \in Nat /\ InWork \in Nat
  BY LenProperties DEF TypeOK, InWork
<1>2. QED
  BY <1>1, DeliveryConstants DEF MeetsMemory

\* Nothing is answered or taken for work.
LEMMA SameMemory ==
  ASSUME UNCHANGED <<remembered, answers>>, InWork' = InWork
  PROVE  \A t, n : MeetsMemory(t, n)' <=> MeetsMemory(t, n)
BY DEF MeetsMemory

\* A message takes its place in the memory.  Copies of others come one place closer to
\* being forgotten, and the message itself is remembered last.
LEMMA PushMeetsMemory ==
  ASSUME TypeOK, MemoryIsSound, stage \in {"received", "validated"}, InWork' = 0,
         NEW state \in FinalStates, PublishAndRemember(current, state),
         NEW t, NEW n \in Nat, 1 <= n, n <= MaximumRememberedDeployments,
         MeetsMemory(t, n), t \in TransferIds
  PROVE  MeetsMemory(t, n)'
<1> DEFINE new == [transfer |-> current, state |-> state]
           k   == IF Len(remembered) + 1 > MaximumRememberedDeployments THEN 1 ELSE 0
<1>1. current \in TransferIds /\ InWork = 1 /\ remembered \in Seq(FinalStatus)
  BY DEF TypeOK, InWork
<1>2. /\ remembered' \in Seq(FinalStatus)
      /\ Len(remembered') = Len(remembered) + 1 - k
      /\ \A i \in 1..Len(remembered') :
           remembered'[i] = IF i + k = Len(remembered) + 1 THEN new ELSE remembered[i + k]
  BY <1>1, PushResult
<1>3. Len(remembered) \in Nat /\ Len(remembered) <= MaximumRememberedDeployments
      /\ MaximumRememberedDeployments \in Nat \ {0} /\ k \in {0, 1}
      /\ (k = 1 => Len(remembered) = MaximumRememberedDeployments)
  BY <1>1, LenProperties, DeliveryConstants DEF MemoryIsSound
<1>4. new.transfer = current
  OBVIOUS
<1> HIDE DEF new, k
<1>5. CASE t = current
  <2>1. Len(remembered') \in 1..Len(remembered') /\ Len(remembered') + k = Len(remembered) + 1
    BY <1>2, <1>3
  <2>2. remembered'[Len(remembered')].transfer = t
    BY <2>1, <1>2, <1>4, <1>5
  <2>3. Len(remembered') + InWork' + n <= MaximumRememberedDeployments + Len(remembered')
    BY <1>2, <1>3
  <2>4. QED
    BY <2>1, <2>2, <2>3 DEF MeetsMemory
<1>6. CASE t # current
  <2> SUFFICES ASSUME answers'[t] # {}
               PROVE  \E i \in 1..Len(remembered') :
                        /\ remembered'[i].transfer = t
                        /\ Len(remembered') + InWork' + n <= MaximumRememberedDeployments + i
    BY DEF MeetsMemory
  <2>1. answers[t] # {}
    BY <1>1, <1>6, PushType
  <2>2. PICK i \in 1..Len(remembered) :
          /\ remembered[i].transfer = t
          /\ Len(remembered) + 1 + n <= MaximumRememberedDeployments + i
    BY <2>1, <1>1 DEF MeetsMemory
  <2>3. i - k \in 1..Len(remembered') /\ (i - k) + k = i /\ i # Len(remembered) + 1
    BY <2>2, <1>2, <1>3
  <2>4. remembered'[i - k].transfer = t
    BY <2>2, <2>3, <1>2
  <2>5. Len(remembered') + InWork' + n <= MaximumRememberedDeployments + (i - k)
    BY <2>2, <1>2, <1>3
  <2>6. QED
    BY <2>3, <2>4, <2>5
<1>7. QED
  BY <1>5, <1>6

\* Senders, broker and network thread: the queues change, the controller does not.
LEMMA NetworkKeepsCopiesInv ==
  ASSUME TypeOK, QueuesHoldTransfers, CopiesInv, PromptCopies, UNCHANGED <<vars, published>>,
         \/ UNCHANGED <<queue, toDevice>>
         \/ \E t \in TransferIds : PublishReachesBroker(t)
         \/ DeviceDisconnects
         \/ ReceiveMessage
  PROVE  CopiesInv'
<1> USE DeliveryConstants
<1>1. /\ queue \in Seq(TransferIds) /\ toDevice \in Seq(TransferIds)
      /\ Len(queue) \in Nat /\ Len(toDevice) \in Nat
      /\ Len(queue) <= MaximumQueuedMessages /\ Len(toDevice) <= MaximumInTransit
  BY LenProperties DEF QueuesHoldTransfers, CopiesInv
<1>2. UNCHANGED <<stage, remembered, answers, published>>
  BY DEF vars
<1>3. AnswersWerePublished'
  BY <1>2 DEF CopiesInv, AnswersWerePublished
<1>4. \A t, n : MeetsMemory(t, n) => MeetsMemory(t, n)'
  BY <1>2, SameMemory DEF InWork
<1>5. /\ \A j \in 1..Len(queue) : MeetsMemory(queue[j], j)
      /\ \A j \in 1..Len(toDevice) : MeetsMemory(toDevice[j], Len(queue) + j)
  BY DEF CopiesInv, WaitingMeetsMemory
<1>6. CASE UNCHANGED <<queue, toDevice>>
  <2>1. WaitingMeetsMemory'
    BY <1>4, <1>5, <1>6, EachWaitingMessage
  <2>2. QED
    BY <1>1, <1>3, <1>6, <2>1 DEF CopiesInv
<1>7. ASSUME NEW t \in TransferIds, PublishReachesBroker(t)
      PROVE  CopiesInv'
  <2>1. queue' = queue /\ answers[t] = {} /\ Len(toDevice) < MaximumInTransit
        /\ toDevice' \in {toDevice, Append(toDevice, t)}
    BY <1>7 DEF PublishReachesBroker, Answered, CopiesInv, AnswersWerePublished
  <2>2. CASE toDevice' = toDevice
    BY <2>1, <2>2, <1>6
  <2>3. CASE toDevice' = Append(toDevice, t)
    <3>1. /\ Len(toDevice') = Len(toDevice) + 1
          /\ \A j \in 1..Len(toDevice) : toDevice'[j] = toDevice[j]
          /\ toDevice'[Len(toDevice) + 1] = t
      BY <2>3, <1>1, AppendProperties
    <3>2. \A n : MeetsMemory(t, n)
      BY <2>1 DEF MeetsMemory
    <3>3. ASSUME NEW j \in 1..Len(toDevice')
          PROVE  MeetsMemory(toDevice'[j], Len(queue') + j)
      <4>1. j \in 1..Len(toDevice) \/ j = Len(toDevice) + 1
        BY <3>1, <1>1
      <4>2. QED
        BY <4>1, <3>1, <3>2, <2>1, <1>5
    <3>4. WaitingMeetsMemory'
      BY <3>3, <2>1, <1>4, <1>5, EachWaitingMessage
    <3>5. QED
      BY <1>1, <1>3, <2>1, <3>1, <3>4 DEF CopiesInv
  <2>4. QED
    BY <2>1, <2>2, <2>3
<1>8. CASE DeviceDisconnects
  <2>1. queue' = queue /\ toDevice' = << >> /\ Len(toDevice') = 0
    BY <1>8 DEF DeviceDisconnects
  <2>2. WaitingMeetsMemory'
    BY <2>1, <1>4, <1>5, EachWaitingMessage
  <2>3. QED
    BY <1>1, <1>3, <2>1, <2>2 DEF CopiesInv
<1>9. CASE ReceiveMessage
  <2> DEFINE h == Head(toDevice)
  <2>1. toDevice # << >> /\ toDevice' = Tail(toDevice)
        /\ queue' = IF Len(queue) >= MaximumQueuedMessages THEN queue ELSE Append(queue, h)
    BY <1>9 DEF ReceiveMessage, TryPush
  <2>2. /\ Len(toDevice) \in Nat \ {0} /\ h = toDevice[1] /\ h \in TransferIds
        /\ Len(toDevice') = Len(toDevice) - 1
        /\ \A j \in 1..Len(toDevice') : toDevice'[j] = toDevice[j + 1]
    BY <2>1, <1>1, EmptySeq, HeadTailProperties
  <2> HIDE DEF h
  <2>3. MeetsMemory(h, Len(queue) + 1)
    BY <2>2, <1>5
  <2>4. CASE Len(queue) >= MaximumQueuedMessages
    <3>1. queue' = queue
      BY <2>1, <2>4
    <3>2. ASSUME NEW j \in 1..Len(toDevice')
          PROVE  MeetsMemory(toDevice'[j], Len(queue') + j)
      <4>1. MeetsMemory(toDevice[j + 1], Len(queue) + (j + 1)) /\ toDevice'[j] = toDevice[j + 1]
        BY <2>2, <1>5
      <4>2. Len(queue) + (j + 1) \in Nat /\ Len(queue) + j \in 0..(Len(queue) + (j + 1))
        BY <1>1
      <4>3. QED
        BY <4>1, <4>2, <3>1, EarlierIsEasier
    <3>3. WaitingMeetsMemory'
      BY <3>1, <3>2, <1>4, <1>5, EachWaitingMessage
    <3>4. QED
      BY <1>1, <1>3, <2>2, <3>1, <3>3 DEF CopiesInv
  <2>5. CASE ~(Len(queue) >= MaximumQueuedMessages)
    <3>1. /\ Len(queue') = Len(queue) + 1
          /\ \A j \in 1..Len(queue) : queue'[j] = queue[j]
          /\ queue'[Len(queue) + 1] = h
      <4>1. queue' = Append(queue, h)
        BY <2>1, <2>5
      <4>2. /\ Len(Append(queue, h)) = Len(queue) + 1
            /\ \A j \in 1..Len(queue) : Append(queue, h)[j] = queue[j]
            /\ Append(queue, h)[Len(queue) + 1] = h
        BY <2>2, <1>1, AppendProperties
      <4>3. QED
        BY <4>1, <4>2
    <3>2. ASSUME NEW j \in 1..Len(queue')
          PROVE  MeetsMemory(queue'[j], j)
      <4>1. j \in 1..Len(queue) \/ j = Len(queue) + 1
        BY <3>1, <1>1
      <4>2. QED
        BY <4>1, <3>1, <2>3, <1>5
    <3>3. ASSUME NEW j \in 1..Len(toDevice')
          PROVE  MeetsMemory(toDevice'[j], Len(queue') + j)
      <4>1. MeetsMemory(toDevice[j + 1], Len(queue) + (j + 1)) /\ toDevice'[j] = toDevice[j + 1]
        BY <2>2, <1>5
      <4>2. Len(queue') + j = Len(queue) + (j + 1)
        BY <3>1, <1>1
      <4>3. QED
        BY <4>1, <4>2
    <3>4. WaitingMeetsMemory'
      BY <3>2, <3>3, <1>4, EachWaitingMessage
    <3>5. QED
      BY <1>1, <1>3, <2>2, <2>5, <3>1, <3>4 DEF CopiesInv
  <2>6. QED
    BY <2>4, <2>5
<1>10. QED
  BY <1>6, <1>7, <1>8, <1>9

\* The main thread takes a message: it moves from the queue into work, or its answer is
\* found and nothing changes in the memory.
LEMMA TakeMessageKeepsCopiesInv ==
  ASSUME TypeOK, MemoryIsSound, QueuesHoldTransfers, CopiesInv, TakeMessage
  PROVE  CopiesInv' /\ (stage' = "received" => answers[current'] = {})
<1> USE DeliveryConstants
<1> DEFINE h == Head(queue)
<1>1. queue # << >> /\ queue' = Tail(queue) /\ toDevice' = toDevice
  BY DEF TakeMessage, OthersUnchanged
<1>2. /\ queue \in Seq(TransferIds) /\ h \in TransferIds /\ h = queue[1]
      /\ Len(queue) \in Nat \ {0} /\ Len(queue') = Len(queue) - 1
      /\ Len(toDevice) \in Nat
      /\ \A j \in 1..Len(queue') : queue'[j] = queue[j + 1]
      /\ Len(queue) <= MaximumQueuedMessages /\ Len(toDevice) <= MaximumInTransit
  BY <1>1, EmptySeq, HeadTailProperties, LenProperties DEF QueuesHoldTransfers, CopiesInv
<1>3. /\ \A j \in 1..Len(queue) : MeetsMemory(queue[j], j)
      /\ \A j \in 1..Len(toDevice) : MeetsMemory(toDevice[j], Len(queue) + j)
  BY DEF CopiesInv, WaitingMeetsMemory
<1>4. ASSUME NEW j \in 1..Len(queue')
      PROVE  j \in Nat /\ MeetsMemory(queue'[j], j + 1)
  <2>1. j + 1 \in 1..Len(queue) /\ queue'[j] = queue[j + 1]
    BY <1>2
  <2>2. QED
    BY <2>1, <1>3
<1>5. ASSUME NEW j \in 1..Len(toDevice')
      PROVE  Len(queue') + j \in Nat /\ MeetsMemory(toDevice'[j], (Len(queue') + j) + 1)
  <2>1. (Len(queue') + j) + 1 = Len(queue) + j
    BY <1>1, <1>2
  <2>2. QED
    BY <2>1, <1>1, <1>2, <1>3
\* One place less ahead of every message that waits.
<1>6. ASSUME \A t, n : n \in Nat /\ MeetsMemory(t, n + 1) => MeetsMemory(t, n)'
      PROVE  WaitingMeetsMemory'
  BY <1>4, <1>5, <1>6, EachWaitingMessage
<1>7. Len(queue') <= MaximumQueuedMessages /\ Len(toDevice') <= MaximumInTransit
  BY <1>1, <1>2
<1>8. remembered \in Seq(FinalStatus) /\ Len(remembered) \in Nat
      /\ Len(remembered) <= MaximumRememberedDeployments
  BY LenProperties DEF TypeOK, MemoryIsSound
<1> HIDE DEF h
<1>9. ASSUME NEW isValid \in BOOLEAN, BeginDeployment(h, isValid), UNCHANGED published
      PROVE  CopiesInv' /\ (stage' = "received" => answers[current'] = {})
  <2>1. /\ stage = "idle" /\ stage' = "received" /\ current' = h /\ ~Remembers(h)
        /\ UNCHANGED <<remembered, answers>>
    BY <1>9 DEF BeginDeployment
  <2>2. InWork = 0 /\ InWork' = 1
    BY <2>1 DEF InWork
  <2>3. answers[h] = {}
    <3>1. MeetsMemory(h, 1)
      BY <1>2, <1>3
    <3>2. QED
      BY <3>1, <2>1 DEF MeetsMemory, Remembers
  <2>4. ASSUME NEW t, NEW n \in Nat, MeetsMemory(t, n + 1)
        PROVE  MeetsMemory(t, n)'
    BY <2>1, <2>2, <2>4, <1>8 DEF MeetsMemory
  <2>5. WaitingMeetsMemory'
    BY <2>4, <1>6
  <2>6. AnswersWerePublished'
    BY <1>9, <2>1 DEF CopiesInv, AnswersWerePublished
  <2>7. QED
    BY <1>7, <2>1, <2>3, <2>5, <2>6 DEF CopiesInv
<1>10. ASSUME RepublishRememberedStatus(h), NEW i \in 1..Len(remembered),
              PublishStatus(h, remembered[i].state)
       PROVE  CopiesInv' /\ (stage' = "received" => answers[current'] = {})
  <2>1. stage = "idle" /\ stage' = "idle" /\ remembered' = remembered
    BY <1>10 DEF RepublishRememberedStatus
  <2>2. answers' = answers
    <3>1. PICK k \in 1..Len(remembered) :
            /\ remembered[k].transfer = h
            /\ answers' = [answers EXCEPT ![h] = @ \cup {remembered[k].state}]
      BY <1>10 DEF RepublishRememberedStatus
    <3>2. remembered[k].state \in answers[h]
      BY <3>1 DEF MemoryIsSound
    <3>3. QED
      BY <3>1, <3>2 DEF TypeOK
  <2>3. InWork' = InWork
    BY <2>1 DEF InWork
  <2>4. ASSUME NEW t, NEW n \in Nat, MeetsMemory(t, n + 1)
        PROVE  MeetsMemory(t, n)'
    <3>1. MeetsMemory(t, n)
      <4>1. n + 1 \in Nat /\ n \in 0..(n + 1)
        OBVIOUS
      <4>2. QED
        BY <4>1, <2>4, EarlierIsEasier
    <3>2. QED
      BY <3>1, <2>1, <2>2, <2>3, SameMemory
  <2>5. WaitingMeetsMemory'
    BY <2>4, <1>6
  <2>6. AnswersWerePublished'
    <3>1. remembered[i].state \in FinalStates
      <4>1. remembered[i] \in FinalStatus
        BY <1>8
      <4>2. QED
        BY <4>1 DEF FinalStatus
    <3>2. published' = [published EXCEPT ![h] = @ \cup {remembered[i].state}]
      BY <1>10 DEF PublishStatus
    <3>3. QED
      BY <3>1, <3>2, <2>2, <1>2 DEF CopiesInv, AnswersWerePublished
  <2>7. QED
    BY <1>7, <2>1, <2>5, <2>6 DEF CopiesInv
<1>11. QED
  BY <1>9, <1>10 DEF TakeMessage, h

\* Its answer is published and remembered.
LEMMA AnswerMessageKeepsCopiesInv ==
  ASSUME TypeOK, MemoryIsSound, QueuesHoldTransfers, CopiesInv, AnswerMessage,
         MaximumQueuedMessages + MaximumInTransit <= MaximumRememberedDeployments
  PROVE  CopiesInv' /\ stage # "idle"
<1> USE DeliveryConstants
<1>1. /\ stage \in {"received", "validated"} /\ stage' \in {"idle", "accepted"}
      /\ UNCHANGED <<queue, toDevice>>
  BY DEF AnswerMessage, RejectMessage, FailInstallation, InstallAndAccept, OthersUnchanged
<1>2. PICK state \in FinalStates : PublishAndRemember(current, state) /\ PublishStatus(current, state)
  BY DEF AnswerMessage, RejectMessage, FailInstallation, InstallAndAccept, FinalStates
<1>3. current \in TransferIds
  BY <1>1 DEF TypeOK
<1>4. /\ queue \in Seq(TransferIds) /\ toDevice \in Seq(TransferIds)
      /\ Len(queue) \in Nat /\ Len(toDevice) \in Nat
      /\ Len(queue) <= MaximumQueuedMessages /\ Len(toDevice) <= MaximumInTransit
  BY LenProperties DEF QueuesHoldTransfers, CopiesInv
<1>5. InWork' = 0
  BY <1>1 DEF InWork
<1>6. ASSUME NEW t \in TransferIds, NEW n \in Nat, 1 <= n, n <= MaximumRememberedDeployments,
             MeetsMemory(t, n)
      PROVE  MeetsMemory(t, n)'
  BY <1>1, <1>2, <1>5, <1>6, PushMeetsMemory
<1>7. WaitingMeetsMemory'
  <2>1. ASSUME NEW j \in 1..Len(queue'), NEW t, t = queue'[j]
        PROVE  MeetsMemory(t, j)'
    <3>1. MeetsMemory(t, j) /\ t \in TransferIds
      BY <2>1, <1>1, <1>4 DEF CopiesInv, WaitingMeetsMemory
    <3>2. j \in Nat /\ 1 <= j /\ j <= MaximumRememberedDeployments
      BY <1>1, <1>4
    <3>3. QED
      BY <3>1, <3>2, <1>6
  <2>2. ASSUME NEW j \in 1..Len(toDevice'), NEW t, NEW n, t = toDevice'[j], n = Len(queue') + j
        PROVE  MeetsMemory(t, n)'
    <3>1. MeetsMemory(t, n) /\ t \in TransferIds
      BY <2>2, <1>1, <1>4, SMTT(30) DEF CopiesInv, WaitingMeetsMemory
    <3>2. n \in Nat /\ 1 <= n /\ n <= MaximumRememberedDeployments
      BY <2>2, <1>1, <1>4
    <3>3. QED
      BY <3>1, <3>2, <1>6
  <2>3. QED
    BY <2>1, <2>2, EachWaitingMessage
<1>8. AnswersWerePublished'
  <2>1. published' = [published EXCEPT ![current] = @ \cup {state}]
    BY <1>2 DEF PublishStatus
  <2>2. \A u \in TransferIds : u # current => answers'[u] = answers[u]
    BY <1>2, <1>3, PushType
  <2>3. QED
    BY <2>1, <2>2, <1>3 DEF CopiesInv, AnswersWerePublished
<1>9. QED
  BY <1>1, <1>4, <1>7, <1>8 DEF CopiesInv

LEMMA StepKeepsCopiesInv ==
  ASSUME TypeOK, MemoryIsSound, QueuesHoldTransfers, CopiesInv, [DeliveryNext]_allVars,
         PromptCopies, MaximumQueuedMessages + MaximumInTransit <= MaximumRememberedDeployments
  PROVE  CopiesInv' /\ BeginsFresh
<1>1. ASSUME UNCHANGED <<vars, published>>,
             \/ UNCHANGED <<queue, toDevice>>
             \/ \E t \in TransferIds : PublishReachesBroker(t)
             \/ DeviceDisconnects
             \/ ReceiveMessage
      PROVE  CopiesInv' /\ BeginsFresh
  <2>1. stage' = stage
    BY <1>1 DEF vars
  <2>2. CopiesInv'
    BY <1>1, NetworkKeepsCopiesInv
  <2>3. QED
    BY <2>1, <2>2 DEF BeginsFresh
<1>2. ASSUME NEW t \in TransferIds, StartSender(t) \/ SenderMoves(t)
      PROVE  CopiesInv' /\ BeginsFresh
  <2>1. UNCHANGED <<vars, published, queue, toDevice>>
    BY <1>2 DEF StartSender, SenderMoves, SenderSubscribed, BrokerAcknowledges, SenderConcludes,
                SenderGivesUp, SenderGoes
  <2>2. QED
    BY <2>1, <1>1
<1>3. ASSUME NEW t \in TransferIds, PublishReachesBroker(t)
      PROVE  CopiesInv' /\ BeginsFresh
  <2>1. UNCHANGED <<vars, published>>
    BY <1>3 DEF PublishReachesBroker
  <2>2. QED
    BY <2>1, <1>1, <1>3
<1>4. CASE DeviceConnects \/ DeviceDisconnects \/ ReceiveMessage \/ UNCHANGED allVars
  <2>1. UNCHANGED <<vars, published>>
        /\ (DeviceDisconnects \/ ReceiveMessage \/ UNCHANGED <<queue, toDevice>>)
    BY <1>4 DEF DeviceConnects, DeviceDisconnects, ReceiveMessage, allVars, deliveryVars
  <2>2. QED
    BY <2>1, <1>1
<1>5. CASE TakeMessage
  BY <1>5, TakeMessageKeepsCopiesInv DEF BeginsFresh
<1>6. CASE AnswerMessage
  BY <1>6, AnswerMessageKeepsCopiesInv DEF BeginsFresh
<1>7. CASE ContinueProcessing \/ ApplicationFails
  <2>1. /\ UNCHANGED <<queue, toDevice, published, remembered, answers>> /\ InWork' = InWork
        /\ (stage = "idle" => stage' = "idle")
    BY <1>7 DEF ContinueProcessing, ApplicationFails, deliveryVars, InWork, ValidateMessage,
                ActivateApplication, FailActivation, StopAfterCallbackFailure
  <2>2. \A t, n : MeetsMemory(t, n) => MeetsMemory(t, n)'
    BY <2>1, SameMemory
  <2>3. WaitingMeetsMemory'
    BY <2>1, <2>2, EachWaitingMessage DEF CopiesInv, WaitingMeetsMemory
  <2>4. AnswersWerePublished'
    BY <2>1 DEF CopiesInv, AnswersWerePublished
  <2>5. QED
    BY <2>1, <2>3, <2>4 DEF CopiesInv, BeginsFresh
<1>8. CASE RestartProcess
  <2>1. /\ queue' = << >> /\ toDevice' = << >> /\ published' = published /\ stage' = "idle"
        /\ Len(queue') = 0 /\ Len(toDevice') = 0
        /\ \A t \in TransferIds : answers'[t] = {}
    BY <1>8 DEF RestartProcess, Restart
  <2>2. WaitingMeetsMemory'
    BY <2>1, EachWaitingMessage
  <2>3. AnswersWerePublished'
    BY <2>1 DEF CopiesInv, AnswersWerePublished
  <2>4. QED
    BY <2>1, <2>2, <2>3, DeliveryConstants DEF CopiesInv, BeginsFresh
<1>9. QED
  BY <1>2, <1>3, <1>4, <1>5, <1>6, <1>7, <1>8 DEF DeliveryNext, MainThread

LEMMA InitCopiesInv == DeliveryInit => CopiesInv
<1> SUFFICES ASSUME DeliveryInit PROVE CopiesInv
  OBVIOUS
<1>1. /\ queue = << >> /\ toDevice = << >> /\ Len(queue) = 0 /\ Len(toDevice) = 0
      /\ published = [t \in TransferIds |-> {}] /\ answers = [t \in TransferIds |-> {}]
  BY DEF DeliveryInit, Init
<1>2. WaitingMeetsMemory
  BY <1>1 DEF WaitingMeetsMemory
<1>3. QED
  BY <1>1, <1>2, DeliveryConstants DEF CopiesInv, AnswersWerePublished

\* Whatever the senders and the network do, and however often the process starts again:
\* when copies come only while their original is unanswered, and no more messages wait in
\* the broker and the queue than the memory holds, the controller works on no transfer
\* twice.
THEOREM CopiesStayRecognised ==
  ASSUME PromptCopies, MaximumQueuedMessages + MaximumInTransit <= MaximumRememberedDeployments
  PROVE  DeliverySpec => CopiesAreRecognised
<1>1. /\ TypeOK /\ MemoryIsSound /\ QueuesHoldTransfers /\ CopiesInv /\ [DeliveryNext]_allVars
      => CopiesInv'
  BY StepKeepsCopiesInv
<1>2. /\ TypeOK /\ MemoryIsSound /\ QueuesHoldTransfers /\ CopiesInv /\ [DeliveryNext]_allVars
      => [stage = "idle" /\ stage' = "received" => answers[current'] = {}]_allVars
  BY StepKeepsCopiesInv DEF BeginsFresh
<1>3. QED
  BY <1>1, <1>2, InitCopiesInv, QueuesInvariant, DeliveryKeepsDeployment, TypeCorrect, MemorySoundness,
     PTL DEF DeliverySpec, CopiesAreRecognised

LEMMA DeliveredFresh ==
  ASSUME PromptCopies, MaximumQueuedMessages + MaximumInTransit <= MaximumRememberedDeployments
  PROVE  DeliverySpec => []FreshInv
<1>1. DeliveryInit => FreshInv
  BY DEF DeliveryInit, Init, FreshInv, AnswerIsFinal, ActiveDirectoryIsIntact
<1>2. /\ TypeOK /\ MemoryIsSound /\ QueuesHoldTransfers /\ CopiesInv /\ [DeliveryNext]_allVars
      => CopiesInv'
  BY StepKeepsCopiesInv
<1>3. /\ TypeOK /\ IInv /\ MemoryIsSound /\ QueuesHoldTransfers /\ CopiesInv /\ FreshInv
      /\ [DeliveryNext]_allVars /\ [Next]_vars
      => FreshInv'
  BY StepKeepsCopiesInv, StepKeepsFreshInv
<1>4. QED
  BY <1>1, <1>2, <1>3, InitCopiesInv, QueuesInvariant, DeliveryKeepsDeployment, TypeCorrect,
     MemorySoundness, InductiveInvariant, PTL DEF DeliverySpec, Spec

\* With the queue before it, the controller therefore keeps the directory of the running
\* application complete and answers no transfer in two ways: what ApplicationDeployment
\* assumes of its environment follows from the lengths of the queue and of the memory.
THEOREM DeliveredApplicationStaysIntact ==
  ASSUME PromptCopies, MaximumQueuedMessages + MaximumInTransit <= MaximumRememberedDeployments
  PROVE  DeliverySpec => [](ActiveDirectoryIsIntact /\ AnswerIsFinal)
<1>1. FreshInv => ActiveDirectoryIsIntact /\ AnswerIsFinal
  BY DEF FreshInv
<1>2. QED
  BY <1>1, DeliveredFresh, PTL

\* Under the same condition sender, broker, queue and controller together implement the
\* contract: one answer per transfer, and one start per accepted transfer before the next.
THEOREM DeliveryImplementsContract ==
  ASSUME PromptCopies, MaximumQueuedMessages + MaximumInTransit <= MaximumRememberedDeployments
  PROVE  DeliverySpec => ImplementsContract
<1>1. DeliveryInit => Contract!Init
  BY DeploymentAssumption DEF DeliveryInit, Init, Contract!Init
<1>2. TypeOK /\ IInv /\ FreshInv /\ [Next]_vars => [Contract!Next]_Contract!contractVars
  BY StepKeepsContract
<1>3. QED
  BY <1>1, <1>2, DeliveredFresh, DeliveryKeepsDeployment, TypeCorrect, InductiveInvariant,
     PTL DEF DeliverySpec, Spec, ImplementsContract, Contract!Spec
===============================================================================
