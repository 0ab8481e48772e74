-------------------------- MODULE ScreenManagerProofs --------------------------
(***************************************************************************)
(* Theorems about ScreenManager, for every number of widgets, length of    *)
(* the queue, size of a batch and limit of filled areas.                   *)
(***************************************************************************)
EXTENDS ScreenManager, FiniteSetTheorems, SequenceTheorems, TLAPS

-----------------------------------------------------------------------------
(***************************************************************************)
(* The inductive invariant.                                                *)
(***************************************************************************)

NothingDrawn == /\ shown = NoWidgets /\ filledAreas = 0
                /\ background = FALSE /\ errorShown = FALSE /\ open = FALSE

\* Which of the two threads waits for the other, and what is empty meanwhile.
ThreadsAgree ==
  /\ caller = "playing" => thread = "absent"
  /\ caller \in {"starting", "stopping", "releasing"} => thread # "absent"
  /\ thread = "initializing" => caller = "starting" /\ started = "no"
  /\ thread \in {"absent", "initializing"} =>
       ids = NoWidgets /\ filledAreaCount = 0 /\ pending = << >>
  /\ thread \in {"absent", "initializing", "finished"} => NothingDrawn
  /\ thread \notin {"drawing", "failing", "closing"} => inFlight = << >>
  /\ thread = "failing" => inFlight # << >>

\* clear() and showErrorScreen() leave nothing in front of them.
WipesAreFirst == \A i \in 1..Len(pending) : pending[i].op \in Wipes => i = 1

\* A command for a widget finds it when its turn comes.
WorkFindsWidgets ==
  \A n \in 1..Len(Work) :
    Work[n].op \in {"change", "delete"} => Exists(Work[n].kind, Work[n].id, n)

\* IDs grow, so a creation makes a widget there is not.
CreationsAreNew ==
  /\ \A k \in Kinds : \A w \in shown[k] : w < nextWidgetId
  /\ \A n \in 1..Len(Work) :
       /\ Work[n].id < nextWidgetId
       /\ Work[n].op = "create" => /\ Work[n].id \notin shown[Work[n].kind]
                                   /\ \A i \in 1..(n - 1) : Work[i] # Work[n]

\* Also the filled area that is just being drawn stays within the limit, whatever wipe
\* has been queued behind it.
FilledAreasFit ==
  filledAreas + (IF inFlight # << >> /\ inFlight[1].op = "fill" THEN 1 ELSE 0)
    <= MaximumFilledAreas

ScreenIsSound ==
  /\ WipesAreFirst /\ WorkFindsWidgets /\ CreationsAreNew /\ FilledAreasFit
  /\ ids = PromisedWidgets
  /\ filledAreaCount = PromisedFilledAreas

IInv ==
  /\ TypeOK
  /\ ThreadsAgree
  /\ Rendering => ScreenIsSound
  /\ thread = "failing" => Accepts(inFlight[1])
  /\ BackendKnowsEveryWidget

-----------------------------------------------------------------------------
(***************************************************************************)
(* The accepted work as a sequence.                                        *)
(***************************************************************************)

LEMMA WorkIsSequence ==
  ASSUME TypeOK
  PROVE  /\ Work \in Seq(Command)
         /\ Len(Work) = Len(inFlight) + Len(pending)
         /\ \A i \in 1..Len(Work) : Work[i] \in Command
         /\ inFlight = << >> => Work = pending
         /\ inFlight # << >> => /\ Len(Work) = 1 + Len(pending) /\ Work[1] = inFlight[1]
                                /\ \A i \in 1..Len(pending) : Work[i + 1] = pending[i]
<1>0. inFlight \in Seq(Command) /\ pending \in Seq(Command) /\ Len(inFlight) <= 1
  BY DEF TypeOK
<1>1. /\ Work \in Seq(Command)
      /\ Len(Work) = Len(inFlight) + Len(pending)
      /\ \A i \in 1..(Len(inFlight) + Len(pending)) :
           Work[i] = IF i <= Len(inFlight) THEN inFlight[i] ELSE pending[i - Len(inFlight)]
  BY <1>0, ConcatProperties DEF Work
<1>2. \A i \in 1..Len(Work) : Work[i] \in Command
  BY <1>1, ElementOfSeq
<1>3. inFlight = << >> => Work = pending
  BY <1>0, ConcatEmptySeq DEF Work
<1>4. ASSUME inFlight # << >>
      PROVE  /\ Len(Work) = 1 + Len(pending) /\ Work[1] = inFlight[1]
             /\ \A i \in 1..Len(pending) : Work[i + 1] = pending[i]
  <2>1. Len(inFlight) = 1
    BY <1>0, <1>4, EmptySeq
  <2>2. Len(pending) \in Nat
    BY <1>0, LenProperties
  <2>3. QED
    BY <2>1, <2>2, <1>1
<1>5. QED
  BY <1>1, <1>2, <1>3, <1>4

\* An accepted call adds its command at the end of the work.
LEMMA EnqueueAppends ==
  ASSUME TypeOK, NEW command \in Command, Enqueue(command), UNCHANGED inFlight
  PROVE  /\ Len(Work') = Len(Work) + 1
         /\ \A i \in 1..Len(Work) : Work'[i] = Work[i]
         /\ Work'[Len(Work) + 1] = command
<1>1. Work' = inFlight \o Append(pending, command)
  BY DEF Work, Enqueue
<1>2. inFlight \in Seq(Command) /\ pending \in Seq(Command)
  BY DEF TypeOK
<1>3. Append(pending, command) = pending \o <<command>> /\ <<command>> \in Seq(Command)
  BY <1>2, AppendIsConcat
<1>4. Work' = Work \o <<command>>
  BY <1>1, <1>2, <1>3, ConcatAssociative DEF Work
<1>5. Work \in Seq(Command)
  BY WorkIsSequence
<1>6. QED
  BY <1>3, <1>4, <1>5, ConcatProperties

\* Taking a command out of the queue leaves the work as it is.
LEMMA TakeKeepsWork ==
  ASSUME TypeOK, TakeCommand
  PROVE  Work' = Work
<1>1. pending \in Seq(Command) /\ pending # << >> /\ inFlight = << >>
  BY DEF TypeOK, TakeCommand
<1>2. Work' = <<Head(pending)>> \o Tail(pending) /\ Work = pending
  BY <1>1, WorkIsSequence DEF TakeCommand, Work
<1>3. <<Head(pending)>> \o Tail(pending) = pending
  BY <1>1
<1>4. QED
  BY <1>2, <1>3

\* A command that has been run is gone from the front of the work.
LEMMA ExecuteTakesFirst ==
  ASSUME TypeOK, ExecuteCommand
  PROVE  /\ Len(Work) \in Nat \ {0} /\ Work[1] = inFlight[1] /\ Work[1] \in Command
         /\ Len(Work') = Len(Work) - 1
         /\ \A i \in 1..Len(Work') : Work'[i] = Work[i + 1]
<1>1. inFlight # << >> /\ inFlight' = << >> /\ pending' = pending /\ pending \in Seq(Command)
  BY DEF TypeOK, ExecuteCommand
<1>2. Work' = pending
  BY <1>1, ConcatEmptySeq DEF Work
<1>3. Len(pending) \in Nat
  BY <1>1, LenProperties
<1>4. Len(Work) = 1 + Len(pending) /\ Work[1] = inFlight[1]
        /\ \A i \in 1..Len(pending) : Work[i + 1] = pending[i]
  BY <1>1, WorkIsSequence
<1>5. Work[1] \in Command
  BY <1>3, <1>4, WorkIsSequence
<1>6. QED
  BY <1>2, <1>3, <1>4, <1>5

-----------------------------------------------------------------------------
(***************************************************************************)
(* What a sequence W of commands makes of a screen that shows S.           *)
(***************************************************************************)

\* Exists, for any work and screen.
ExistsIn(S, W, k, w, n) ==
  \/ /\ w \in S[k]
     /\ \A j \in 1..(n - 1) : ~Erases(W[j], k, w)
  \/ \E i \in 1..(n - 1) :
        /\ W[i] = For("create", k, w)
        /\ \A j \in (i + 1)..(n - 1) : ~Erases(W[j], k, w)

LEMMA ExistsIsExistsIn ==
  /\ \A k, w, n : Exists(k, w, n) <=> ExistsIn(shown, Work, k, w, n)
  /\ \A k, w, n : Exists(k, w, n)' <=> ExistsIn(shown', Work', k, w, n)
BY DEF Exists, ExistsIn, Erases

\* V is W with a command added at its end.
IsExtended(V, W, command) == /\ Len(W) \in Nat
                             /\ Len(V) = Len(W) + 1
                             /\ \A i \in 1..Len(W) : V[i] = W[i]
                             /\ V[Len(W) + 1] = command

\* V is W without its first command.
IsAdvanced(V, W) == /\ Len(W) \in Nat \ {0}
                    /\ Len(V) = Len(W) - 1
                    /\ \A i \in 1..Len(V) : V[i] = W[i + 1]

\* An added command changes what exists in the end by what it does itself.
LEMMA AddedCommandActs ==
  ASSUME NEW S, NEW V, NEW W, NEW command, IsExtended(V, W, command), NEW k, NEW w
  PROVE  /\ \A n \in 1..(Len(W) + 1) : ExistsIn(S, V, k, w, n) <=> ExistsIn(S, W, k, w, n)
         /\ ExistsIn(S, V, k, w, Len(V) + 1) <=>
              \/ ExistsIn(S, W, k, w, Len(W) + 1) /\ ~Erases(command, k, w)
              \/ command = For("create", k, w)
<1> DEFINE L == Len(W)
<1>0. /\ Len(V) = L + 1 /\ L \in Nat
      /\ \A i \in 1..L : V[i] = W[i]
      /\ V[L + 1] = command
  BY DEF IsExtended
<1> HIDE DEF L
<1>1. ASSUME NEW n \in 1..(L + 1)
      PROVE  ExistsIn(S, V, k, w, n) <=> ExistsIn(S, W, k, w, n)
  <2>1. \A i \in 1..(n - 1) : V[i] = W[i]
    BY <1>0
  <2>2. \A i \in 1..(n - 1) : \A j \in (i + 1)..(n - 1) : j \in 1..(n - 1)
    BY <1>0
  <2>3. QED
    BY <1>0, <2>1, <2>2 DEF ExistsIn
<1>2. ExistsIn(S, V, k, w, L + 2) <=> \/ ExistsIn(S, W, k, w, L + 1) /\ ~Erases(command, k, w)
                                      \/ command = For("create", k, w)
  <2>1. 1..((L + 2) - 1) = 1..L \cup {L + 1} /\ 1..((L + 1) - 1) = 1..L
    BY <1>0
  <2>2. \A i \in 1..L : /\ (i + 1)..((L + 2) - 1) = (i + 1)..((L + 1) - 1) \cup {L + 1}
                        /\ (i + 1)..((L + 1) - 1) \subseteq 1..L
    BY <1>0
  <2>3. ((L + 1) + 1)..((L + 2) - 1) = {}
    BY <1>0
  <2>4. QED
    BY <1>0, <2>1, <2>2, <2>3 DEF ExistsIn
<1>3. (L + 1) + 1 = L + 2
  BY <1>0
<1>4. QED
  BY <1>0, <1>1, <1>2, <1>3 DEF L

LEMMA IntervalShifts ==
  ASSUME NEW a \in Int, NEW b \in Int
  PROVE  (a + 1)..(b + 1) = {j + 1 : j \in a..b}
<1>1. ASSUME NEW i \in (a + 1)..(b + 1)
      PROVE  i \in {j + 1 : j \in a..b}
  <2>1. i - 1 \in a..b /\ i = (i - 1) + 1
    OBVIOUS
  <2>2. QED
    BY <2>1
<1>2. ASSUME NEW j \in a..b
      PROVE  j + 1 \in (a + 1)..(b + 1)
  OBVIOUS
<1>3. QED
  BY <1>1, <1>2

\* Running the first command moves what it does from the work to the screen.
LEMMA RunCommandActs ==
  ASSUME NEW S, NEW T, NEW V, NEW W, IsAdvanced(V, W), NEW k, NEW w,
         w \in T[k] <=> \/ w \in S[k] /\ ~Erases(W[1], k, w)
                        \/ W[1] = For("create", k, w),
         NEW n \in 1..Len(W)
  PROVE  ExistsIn(T, V, k, w, n) <=> ExistsIn(S, W, k, w, n + 1)
<1>0. /\ n \in Nat /\ n >= 1 /\ (n + 1) - 1 = n
      /\ \A i \in 1..(n - 1) : V[i] = W[i + 1]
  BY DEF IsAdvanced
<1>1. 2..n = {j + 1 : j \in 1..(n - 1)}
  <2>1. 1 \in Int /\ n - 1 \in Int
    BY <1>0
  <2>2. (1 + 1)..((n - 1) + 1) = {j + 1 : j \in 1..(n - 1)}
    BY <2>1, IntervalShifts, Zenon
  <2>3. (1 + 1)..((n - 1) + 1) = 2..n
    BY <1>0
  <2>4. QED
    BY <2>2, <2>3
<1>2. 1..n = {1} \cup 2..n
  BY <1>0
<1>3. (\A j \in 2..n : ~Erases(W[j], k, w)) <=> \A j \in 1..(n - 1) : ~Erases(V[j], k, w)
  BY <1>0, <1>1
<1>4. ASSUME NEW i \in 1..(n - 1)
      PROVE  (\A j \in (i + 2)..n : ~Erases(W[j], k, w)) <=>
                \A j \in (i + 1)..(n - 1) : ~Erases(V[j], k, w)
  <2>1. (i + 2)..n = {j + 1 : j \in (i + 1)..(n - 1)}
    <3>1. i + 1 \in Int /\ n - 1 \in Int
      BY <1>0
    <3>2. ((i + 1) + 1)..((n - 1) + 1) = {j + 1 : j \in (i + 1)..(n - 1)}
      BY <3>1, IntervalShifts, Zenon
    <3>3. ((i + 1) + 1)..((n - 1) + 1) = (i + 2)..n
      BY <1>0
    <3>4. QED
      BY <3>2, <3>3
  <2>2. \A j \in (i + 1)..(n - 1) : V[j] = W[j + 1]
    BY <1>0
  <2>3. QED
    BY <2>1, <2>2
<1>5. ExistsIn(T, V, k, w, n) <=>
        \/ w \in T[k] /\ \A j \in 1..(n - 1) : ~Erases(V[j], k, w)
        \/ \E i \in 1..(n - 1) : /\ W[i + 1] = For("create", k, w)
                                 /\ \A j \in (i + 2)..n : ~Erases(W[j], k, w)
  BY <1>0, <1>4 DEF ExistsIn
<1>6. ExistsIn(S, W, k, w, n + 1) <=>
        \/ w \in T[k] /\ \A j \in 2..n : ~Erases(W[j], k, w)
        \/ \E i \in 2..n : /\ W[i] = For("create", k, w)
                           /\ \A j \in (i + 1)..n : ~Erases(W[j], k, w)
  BY <1>0, <1>2 DEF ExistsIn
<1>7. (\E i \in 2..n : /\ W[i] = For("create", k, w)
                       /\ \A j \in (i + 1)..n : ~Erases(W[j], k, w))
        <=> \E i \in 1..(n - 1) : /\ W[i + 1] = For("create", k, w)
                                  /\ \A j \in (i + 2)..n : ~Erases(W[j], k, w)
  <2>1. \A i \in 1..(n - 1) : (i + 1) + 1 = i + 2
    BY <1>0
  <2>2. QED
    BY <1>1, <2>1
<1>8. QED
  BY <1>3, <1>5, <1>6, <1>7

\* A command does to the widgets of the backend what Erases says of it.
LEMMA DrawingActs ==
  ASSUME shown \in [Kinds -> SUBSET WidgetIds], NEW command \in Command, DrawOnBackend(command),
         NEW k \in Kinds, NEW w
  PROVE  w \in shown'[k] <=> \/ w \in shown[k] /\ ~Erases(command, k, w)
                             \/ command = For("create", k, w)
<1> USE DEF DrawOnBackend, Erases, For, Wipes
<1>1. ASSUME NEW kind \in Kinds, NEW id \in WidgetIds, NEW op \in WidgetOps,
             command = [op |-> op, kind |-> kind, id |-> id]
      PROVE  w \in shown'[k] <=> \/ w \in shown[k] /\ ~Erases(command, k, w)
                                 \/ command = For("create", k, w)
  <2>1. CASE op = "create"
    BY <1>1, <2>1
  <2>2. CASE op = "delete"
    BY <1>1, <2>2
  <2>3. CASE op = "change"
    BY <1>1, <2>3
  <2>4. QED
    BY <2>1, <2>2, <2>3 DEF WidgetOps
<1>2. ASSUME NEW op \in ScreenOps, command = [op |-> op, kind |-> "screen", id |-> 0]
      PROVE  w \in shown'[k] <=> \/ w \in shown[k] /\ ~Erases(command, k, w)
                                 \/ command = For("create", k, w)
  <2>1. CASE op \in Wipes
    BY <1>2, <2>1 DEF NoWidgets
  <2>2. CASE op \in {"fill", "setBackground", "clearBackground"}
    BY <1>2, <2>2
  <2>3. QED
    BY <2>1, <2>2 DEF ScreenOps
<1>3. QED
  BY <1>1, <1>2 DEF Command

-----------------------------------------------------------------------------
(***************************************************************************)
(* Filled areas.                                                           *)
(***************************************************************************)

\* LastPart, the fills in it, and PromisedFilledAreas, for any work.
LastPartOf(W) == {i \in 1..Len(W) : \A j \in i..Len(W) : W[j].op \notin Wipes}
FillsOf(W)    == {i \in LastPartOf(W) : W[i].op = "fill"}
FilledIn(areas, W) ==
  Cardinality(FillsOf(W)) + (IF LastPartOf(W) = 1..Len(W) THEN areas ELSE 0)

LEMMA PromisedIsFilledIn ==
  /\ PromisedFilledAreas = FilledIn(filledAreas, Work)
  /\ PromisedFilledAreas' = FilledIn(filledAreas', Work')
BY DEF PromisedFilledAreas, FilledIn, FillsOf, LastPart, LastPartOf

LEMMA FillsAreFinite ==
  ASSUME NEW W, Len(W) \in Nat
  PROVE  IsFiniteSet(FillsOf(W)) /\ Cardinality(FillsOf(W)) \in Nat
<1>1. IsFiniteSet(1..Len(W))
  BY FS_Interval
<1>2. FillsOf(W) \subseteq 1..Len(W)
  BY DEF FillsOf, LastPartOf
<1>3. QED
  BY <1>1, <1>2, FS_Subset, FS_CardinalityType

\* An added command that does not wipe the screen counts if it is a fill.
LEMMA AddedFillCounts ==
  ASSUME NEW V, NEW W, NEW command, IsExtended(V, W, command), command.op \notin Wipes,
         NEW areas \in Nat
  PROVE  FilledIn(areas, V) = FilledIn(areas, W) + (IF command.op = "fill" THEN 1 ELSE 0)
<1> DEFINE L == Len(W)
<1>0. /\ Len(V) = L + 1 /\ L \in Nat
      /\ \A i \in 1..L : V[i] = W[i]
      /\ V[L + 1] = command
  BY DEF IsExtended
<1> HIDE DEF L
<1>1. \A i \in 1..L : i..(L + 1) = i..L \cup {L + 1} /\ i..L \subseteq 1..L
  BY <1>0
<1>2. 1..(L + 1) = 1..L \cup {L + 1} /\ (L + 1)..(L + 1) = {L + 1} /\ L + 1 \notin 1..L
  BY <1>0
<1>3. LastPartOf(V) = LastPartOf(W) \cup {L + 1}
  BY <1>0, <1>1, <1>2 DEF LastPartOf, L
<1>4. LastPartOf(V) = 1..Len(V) <=> LastPartOf(W) = 1..Len(W)
  BY <1>0, <1>2, <1>3 DEF LastPartOf, L
<1>5. LastPartOf(W) \subseteq 1..L
  BY DEF LastPartOf, L
<1>6. Cardinality(FillsOf(V)) = Cardinality(FillsOf(W)) + (IF command.op = "fill" THEN 1 ELSE 0)
  <2>1. IsFiniteSet(FillsOf(W)) /\ Cardinality(FillsOf(W)) \in Nat
    BY <1>0, FillsAreFinite DEF L
  <2>2. CASE command.op = "fill"
    <3>1. FillsOf(V) = FillsOf(W) \cup {L + 1} /\ L + 1 \notin FillsOf(W)
      BY <1>0, <1>2, <1>3, <1>5, <2>2 DEF FillsOf
    <3>2. QED
      BY <2>1, <2>2, <3>1, FS_AddElement
  <2>3. CASE command.op # "fill"
    <3>1. FillsOf(V) = FillsOf(W)
      BY <1>0, <1>2, <1>3, <1>5, <2>3 DEF FillsOf
    <3>2. QED
      BY <2>1, <2>3, <3>1
  <2>4. QED
    BY <2>2, <2>3
<1>7. Cardinality(FillsOf(W)) \in Nat
  BY <1>0, FillsAreFinite DEF L
<1>8. QED
  BY <1>4, <1>6, <1>7 DEF FilledIn

\* A wipe at the end leaves no filled areas.
LEMMA WipeLeavesNoFills ==
  ASSUME NEW V, NEW areas, Len(V) \in Nat \ {0}, V[Len(V)].op \in Wipes
  PROVE  FilledIn(areas, V) = 0
<1>1. \A i \in 1..Len(V) : Len(V) \in i..Len(V)
  OBVIOUS
<1>2. LastPartOf(V) = {} /\ 1 \in 1..Len(V)
  BY <1>1 DEF LastPartOf
<1>3. FillsOf(V) = {}
  BY <1>2 DEF FillsOf
<1>4. QED
  BY <1>2, <1>3, FS_EmptySet DEF FilledIn

LEMMA NoWorkKeepsFills ==
  ASSUME NEW V, NEW areas \in Nat, Len(V) = 0
  PROVE  FilledIn(areas, V) = areas
<1>1. LastPartOf(V) = {} /\ 1..Len(V) = {}
  BY DEF LastPartOf
<1>2. FillsOf(V) = {}
  BY <1>1 DEF FillsOf
<1>3. QED
  BY <1>1, <1>2, FS_EmptySet DEF FilledIn

\* Running the first command moves what it fills or wipes from the work to the screen.
LEMMA RunCommandFills ==
  ASSUME NEW V, NEW W, IsAdvanced(V, W), NEW before \in Nat, NEW after \in Nat,
         after = IF W[1].op \in Wipes THEN 0
                 ELSE IF W[1].op = "fill" THEN before + 1 ELSE before
  PROVE  FilledIn(after, V) = FilledIn(before, W)
<1> DEFINE L == Len(W)
<1>0. /\ L \in Nat \ {0} /\ Len(V) = L - 1
      /\ \A i \in 1..(L - 1) : V[i] = W[i + 1]
  BY DEF IsAdvanced
<1> HIDE DEF L
<1>1. \A i \in 1..(L - 1) : i \in LastPartOf(V) <=> i + 1 \in LastPartOf(W)
  <2> TAKE i \in 1..(L - 1)
  <2>1. i + 1 \in 1..L
    BY <1>0
  <2>2. (\A j \in i..(L - 1) : V[j].op \notin Wipes) <=> \A j \in (i + 1)..L : W[j].op \notin Wipes
    <3>1. (i + 1)..L = {j + 1 : j \in i..(L - 1)}
      <4>1. i \in Int /\ L - 1 \in Int /\ (L - 1) + 1 = L
        BY <1>0
      <4>2. (i + 1)..((L - 1) + 1) = {j + 1 : j \in i..(L - 1)}
        BY <4>1, IntervalShifts, Zenon
      <4>3. QED
        BY <4>1, <4>2
    <3>2. \A j \in i..(L - 1) : V[j] = W[j + 1]
      BY <1>0
    <3>3. QED
      BY <3>1, <3>2
  <2>3. QED
    BY <1>0, <2>1, <2>2 DEF LastPartOf, L
<1>2. \A i \in 1..(L - 1) : i \in FillsOf(V) <=> i + 1 \in FillsOf(W)
  BY <1>0, <1>1 DEF FillsOf
<1>3. FillsOf(V) \subseteq 1..(L - 1) /\ FillsOf(W) \subseteq 1..L
  BY <1>0 DEF FillsOf, LastPartOf, L
<1>4. Cardinality(FillsOf(W) \ {1}) = Cardinality(FillsOf(V))
  <2> DEFINE f == [i \in FillsOf(V) |-> i + 1]
  <2>1. \A i \in FillsOf(V) : i + 1 \in FillsOf(W) \ {1}
    BY <1>0, <1>2, <1>3
  <2>2. f \in Injection(FillsOf(V), FillsOf(W) \ {1})
    BY <1>3, <2>1 DEF Injection, IsInjective
  <2>3. \A j \in FillsOf(W) \ {1} : j - 1 \in FillsOf(V) /\ f[j - 1] = j
    <3> TAKE j \in FillsOf(W) \ {1}
    <3>1. j - 1 \in 1..(L - 1) /\ (j - 1) + 1 = j
      BY <1>0, <1>3
    <3>2. j - 1 \in FillsOf(V)
      BY <1>2, <3>1
    <3>3. QED
      BY <3>1, <3>2
  <2>4. f \in Surjection(FillsOf(V), FillsOf(W) \ {1})
    BY <2>1, <2>3 DEF Surjection
  <2>5. ExistsBijection(FillsOf(V), FillsOf(W) \ {1})
    BY <2>2, <2>4 DEF ExistsBijection, Bijection
  <2>6. IsFiniteSet(FillsOf(V))
    BY <1>0, FillsAreFinite
  <2>7. QED
    BY <2>5, <2>6, FS_Bijection
<1>5. IsFiniteSet(FillsOf(W)) /\ Cardinality(FillsOf(W)) \in Nat
  BY <1>0, FillsAreFinite DEF L
<1>6. Cardinality(FillsOf(V)) = Cardinality(FillsOf(W)) - (IF 1 \in FillsOf(W) THEN 1 ELSE 0)
  <2>1. Cardinality(FillsOf(W) \ {1}) =
          IF 1 \in FillsOf(W) THEN Cardinality(FillsOf(W)) - 1 ELSE Cardinality(FillsOf(W))
    BY <1>5, FS_RemoveElement
  <2>2. QED
    BY <1>4, <1>5, <2>1
<1>7. /\ LastPartOf(W) = 1..L <=> 1 \in LastPartOf(W)
      /\ 1 \in LastPartOf(W) => LastPartOf(V) = 1..(L - 1) /\ W[1].op \notin Wipes
      /\ 1 \notin LastPartOf(W) /\ LastPartOf(V) = 1..(L - 1) => W[1].op \in Wipes
  <2>1. \A i \in 1..L : i..L \subseteq 1..L /\ 1 \in 1..L
    BY <1>0
  <2>2. LastPartOf(W) = {i \in 1..L : \A j \in i..L : W[j].op \notin Wipes}
    BY DEF LastPartOf, L
  <2>3. 1 \in LastPartOf(W) => LastPartOf(W) = 1..L /\ W[1].op \notin Wipes
    BY <2>1, <2>2
  <2>4. LastPartOf(V) \subseteq 1..(L - 1)
    BY <1>0 DEF LastPartOf
  <2>5. 1 \in LastPartOf(W) => LastPartOf(V) = 1..(L - 1)
    <3>1. \A i \in 1..(L - 1) : i + 1 \in 1..L
      BY <1>0
    <3>2. QED
      BY <1>1, <2>3, <2>4, <3>1
  <2>6. ASSUME LastPartOf(V) = 1..(L - 1), W[1].op \notin Wipes
        PROVE  1 \in LastPartOf(W)
    <3>1. \A j \in 2..L : W[j].op \notin Wipes
      <4> TAKE j \in 2..L
      <4>1. j - 1 \in 1..(L - 1) /\ (j - 1) + 1 = j /\ j \in j..L
        BY <1>0
      <4>2. j \in LastPartOf(W)
        BY <1>1, <2>6, <4>1
      <4>3. QED
        BY <2>2, <4>1, <4>2
    <3>2. 1..L = {1} \cup 2..L /\ 1 \in 1..L
      BY <1>0
    <3>3. QED
      BY <2>2, <2>6, <3>1, <3>2
  <2>7. QED
    BY <1>0, <2>1, <2>3, <2>5, <2>6
<1>8. 1 \in FillsOf(W) <=> 1 \in LastPartOf(W) /\ W[1].op = "fill"
  BY DEF FillsOf
<1>9. /\ FilledIn(before, W) = Cardinality(FillsOf(W)) + (IF LastPartOf(W) = 1..L THEN before ELSE 0)
      /\ FilledIn(after, V) = Cardinality(FillsOf(V)) + (IF LastPartOf(V) = 1..(L - 1) THEN after ELSE 0)
  BY <1>0 DEF FilledIn, L
<1>10. CASE 1 \in LastPartOf(W)
  BY <1>5, <1>6, <1>7, <1>8, <1>9, <1>10
<1>11. CASE 1 \notin LastPartOf(W)
  BY <1>5, <1>6, <1>7, <1>8, <1>9, <1>11
<1>12. QED
  BY <1>10, <1>11

-----------------------------------------------------------------------------
(***************************************************************************)
(* Background and emergency screen.                                        *)
(***************************************************************************)

\* Last, for any work.
LastIn(W, ops, op, otherwise) ==
  \/ \E i \in 1..Len(W) : W[i].op = op /\ \A j \in (i + 1)..Len(W) : W[j].op \notin ops
  \/ otherwise /\ \A i \in 1..Len(W) : W[i].op \notin ops

BackgroundOps == Wipes \cup {"setBackground", "clearBackground"}

LEMMA PromisedIsLastIn ==
  /\ PromisedBackground <=> LastIn(Work, BackgroundOps, "setBackground", background)
  /\ PromisedBackground' <=> LastIn(Work', BackgroundOps, "setBackground", background')
  /\ PromisedErrorShown <=> LastIn(Work, Wipes, "error", errorShown)
  /\ PromisedErrorShown' <=> LastIn(Work', Wipes, "error", errorShown')
BY DEF PromisedBackground, PromisedErrorShown, Last, LastIn, BackgroundOps, Wipes

\* A command at the end that is one of ops decides.
LEMMA LastDecides ==
  ASSUME NEW V, Len(V) \in Nat \ {0}, NEW ops, V[Len(V)].op \in ops, NEW op \in ops, NEW otherwise
  PROVE  LastIn(V, ops, op, otherwise) <=> V[Len(V)].op = op
<1> DEFINE L == Len(V)
<1>1. L \in 1..L /\ (L + 1)..L = {} /\ \A i \in 1..L : i = L \/ L \in (i + 1)..L
  OBVIOUS
<1>2. QED
  BY <1>1 DEF LastIn

\* An added command that is none of ops decides nothing.
LEMMA AddedOtherDecidesNothing ==
  ASSUME NEW V, NEW W, NEW command, IsExtended(V, W, command),
         NEW ops, command.op \notin ops, NEW op \in ops, NEW otherwise
  PROVE  LastIn(V, ops, op, otherwise) <=> LastIn(W, ops, op, otherwise)
<1> DEFINE L == Len(W)
<1>0. /\ Len(V) = L + 1 /\ L \in Nat
      /\ \A i \in 1..L : V[i] = W[i]
      /\ V[L + 1] = command
  BY DEF IsExtended
<1> HIDE DEF L
<1>1. 1..(L + 1) = 1..L \cup {L + 1}
  BY <1>0
<1>2. \A i \in 1..L : (i + 1)..(L + 1) = (i + 1)..L \cup {L + 1} /\ (i + 1)..L \subseteq 1..L
  BY <1>0
<1>3. ASSUME NEW i \in 1..L
      PROVE  (\A j \in (i + 1)..(L + 1) : V[j].op \notin ops) <=>
                \A j \in (i + 1)..L : W[j].op \notin ops
  BY <1>0, <1>2
<1>4. (\A i \in 1..(L + 1) : V[i].op \notin ops) <=> \A i \in 1..L : W[i].op \notin ops
  BY <1>0, <1>1
<1>5. (\E i \in 1..(L + 1) : V[i].op = op /\ \A j \in (i + 1)..(L + 1) : V[j].op \notin ops)
        <=> \E i \in 1..L : W[i].op = op /\ \A j \in (i + 1)..L : W[j].op \notin ops
  BY <1>0, <1>1, <1>3
<1>6. QED
  BY <1>0, <1>4, <1>5 DEF LastIn, L

LEMMA NoWorkDecidesNothing ==
  ASSUME NEW V, Len(V) = 0, NEW ops, NEW op, NEW otherwise
  PROVE  LastIn(V, ops, op, otherwise) <=> otherwise
BY DEF LastIn

\* Running the first command lets the screen decide as the command did.
LEMMA RunCommandDecides ==
  ASSUME NEW V, NEW W, IsAdvanced(V, W), NEW ops, NEW op \in ops,
         NEW before \in BOOLEAN, NEW after \in BOOLEAN,
         after <=> \/ W[1].op = op
                   \/ before /\ W[1].op \notin ops
  PROVE  LastIn(V, ops, op, after) <=> LastIn(W, ops, op, before)
<1> DEFINE L == Len(W)
<1>0. /\ L \in Nat \ {0} /\ Len(V) = L - 1
      /\ \A i \in 1..(L - 1) : V[i] = W[i + 1]
  BY DEF IsAdvanced
<1> HIDE DEF L
<1>1. 2..L = {j + 1 : j \in 1..(L - 1)}
  <2>1. 1 \in Int /\ L - 1 \in Int /\ (L - 1) + 1 = L /\ 1 + 1 = 2
    BY <1>0
  <2>2. (1 + 1)..((L - 1) + 1) = {j + 1 : j \in 1..(L - 1)}
    BY <2>1, IntervalShifts, Zenon
  <2>3. QED
    BY <2>1, <2>2
<1>2. 1..L = {1} \cup 2..L
  BY <1>0
<1>3. (\A j \in 2..L : W[j].op \notin ops) <=> \A j \in 1..(L - 1) : V[j].op \notin ops
  BY <1>0, <1>1
<1>4. ASSUME NEW i \in 1..(L - 1)
      PROVE  (\A j \in (i + 2)..L : W[j].op \notin ops) <=>
                \A j \in (i + 1)..(L - 1) : V[j].op \notin ops
  <2>1. (i + 2)..L = {j + 1 : j \in (i + 1)..(L - 1)}
    <3>1. i + 1 \in Int /\ L - 1 \in Int /\ (i + 1) + 1 = i + 2 /\ (L - 1) + 1 = L
      BY <1>0
    <3>2. ((i + 1) + 1)..((L - 1) + 1) = {j + 1 : j \in (i + 1)..(L - 1)}
      BY <3>1, IntervalShifts, Zenon
    <3>3. QED
      BY <3>1, <3>2
  <2>2. \A j \in (i + 1)..(L - 1) : V[j] = W[j + 1]
    BY <1>0
  <2>3. QED
    BY <2>1, <2>2
<1>5. LastIn(V, ops, op, after) <=>
        \/ \E i \in 1..(L - 1) : W[i + 1].op = op /\ \A j \in (i + 2)..L : W[j].op \notin ops
        \/ after /\ \A j \in 2..L : W[j].op \notin ops
  BY <1>0, <1>3, <1>4 DEF LastIn
<1>6. LastIn(W, ops, op, before) <=>
        \/ \E i \in 2..L : W[i].op = op /\ \A j \in (i + 1)..L : W[j].op \notin ops
        \/ after /\ \A j \in 2..L : W[j].op \notin ops
  BY <1>0, <1>2, SMTT(30) DEF LastIn, L
<1>7. (\E i \in 2..L : W[i].op = op /\ \A j \in (i + 1)..L : W[j].op \notin ops)
        <=> \E i \in 1..(L - 1) : W[i + 1].op = op /\ \A j \in (i + 2)..L : W[j].op \notin ops
  <2>1. \A i \in 1..(L - 1) : (i + 1) + 1 = i + 2
    BY <1>0
  <2>2. QED
    BY <1>1, <2>1
<1>8. QED
  BY <1>5, <1>6, <1>7

-----------------------------------------------------------------------------
(***************************************************************************)
(* The parts of the invariant, for any work and screen.                    *)
(***************************************************************************)

FindsIn(S, W) ==
  \A n \in 1..Len(W) :
    W[n].op \in {"change", "delete"} => ExistsIn(S, W, W[n].kind, W[n].id, n)

AreNewIn(S, W, next) ==
  /\ \A k \in Kinds : \A w \in S[k] : w < next
  /\ \A n \in 1..Len(W) :
       /\ W[n].id < next
       /\ W[n].op = "create" => /\ W[n].id \notin S[W[n].kind]
                                /\ \A i \in 1..(n - 1) : W[i] # W[n]

PromisedIn(S, W) == [k \in Kinds |-> {w \in WidgetIds : ExistsIn(S, W, k, w, Len(W) + 1)}]

LEMMA PartsOfInvariant ==
  /\ WorkFindsWidgets <=> FindsIn(shown, Work)
  /\ WorkFindsWidgets' <=> FindsIn(shown', Work')
  /\ CreationsAreNew <=> AreNewIn(shown, Work, nextWidgetId)
  /\ CreationsAreNew' <=> AreNewIn(shown', Work', nextWidgetId')
  /\ PromisedWidgets = PromisedIn(shown, Work)
  /\ PromisedWidgets' = PromisedIn(shown', Work')
<1>1. WorkFindsWidgets <=> FindsIn(shown, Work)
  BY DEF WorkFindsWidgets, FindsIn, Exists, ExistsIn
<1>2. WorkFindsWidgets' <=> FindsIn(shown', Work')
  BY DEF WorkFindsWidgets, FindsIn, Exists, ExistsIn, Erases
<1>3. (CreationsAreNew <=> AreNewIn(shown, Work, nextWidgetId))
        /\ (CreationsAreNew' <=> AreNewIn(shown', Work', nextWidgetId'))
  BY DEF CreationsAreNew, AreNewIn
<1>4. PromisedWidgets = PromisedIn(shown, Work)
  BY DEF PromisedWidgets, PromisedIn, Exists, ExistsIn
<1>5. PromisedWidgets' = PromisedIn(shown', Work')
  BY DEF PromisedWidgets, PromisedIn, Exists, ExistsIn, Erases
<1>6. QED
  BY <1>1, <1>2, <1>3, <1>4, <1>5

LEMMA AddKeepsFinding ==
  ASSUME NEW S, NEW V, NEW W, NEW command, IsExtended(V, W, command), FindsIn(S, W),
         command.op \in {"change", "delete"} =>
           ExistsIn(S, W, command.kind, command.id, Len(W) + 1)
  PROVE  FindsIn(S, V)
<1>0. /\ Len(W) \in Nat /\ Len(V) = Len(W) + 1
      /\ \A n \in 1..Len(W) : V[n] = W[n]
      /\ V[Len(W) + 1] = command
      /\ Len(W) + 1 \in 1..(Len(W) + 1)
  BY DEF IsExtended
<1>1. ASSUME NEW n \in 1..Len(W), V[n].op \in {"change", "delete"}
      PROVE  ExistsIn(S, V, V[n].kind, V[n].id, n)
  <2>1. ExistsIn(S, W, V[n].kind, V[n].id, n) /\ n \in 1..(Len(W) + 1)
    BY <1>0, <1>1 DEF FindsIn
  <2>2. QED
    BY <2>1, AddedCommandActs
<1>2. command.op \in {"change", "delete"} => ExistsIn(S, V, command.kind, command.id, Len(W) + 1)
  BY <1>0, AddedCommandActs
<1>3. 1..Len(V) = 1..Len(W) \cup {Len(W) + 1}
  BY <1>0
<1>4. QED
  BY <1>0, <1>1, <1>2, <1>3 DEF FindsIn

LEMMA AddKeepsNew ==
  ASSUME NEW S, NEW V, NEW W, NEW command, IsExtended(V, W, command),
         NEW next \in Nat, NEW after \in {next, next + 1}, AreNewIn(S, W, next),
         S \in [Kinds -> SUBSET WidgetIds],
         command \in Command, \A n \in 1..Len(W) : W[n] \in Command,
         command.id < after, command.op = "create" => command.id = next
  PROVE  AreNewIn(S, V, after)
<1>0. /\ Len(W) \in Nat /\ Len(V) = Len(W) + 1
      /\ \A n \in 1..Len(W) : V[n] = W[n]
      /\ V[Len(W) + 1] = command
      /\ 1..Len(V) = 1..Len(W) \cup {Len(W) + 1}
  BY DEF IsExtended
<1>1. \A k \in Kinds : \A w \in S[k] : w < after /\ w # next
  BY ScreenAssumption DEF AreNewIn, WidgetIds
<1>2. \A n \in 1..Len(W) : W[n].id \in Nat /\ W[n].id < next /\ W[n].id < after
  <2>1. \A n \in 1..Len(W) : W[n].id \in Nat
    BY ScreenAssumption DEF Command, WidgetIds
  <2>2. QED
    BY <2>1 DEF AreNewIn
<1>3. ASSUME NEW n \in 1..Len(W), V[n].op = "create"
      PROVE  V[n].id \notin S[V[n].kind] /\ \A i \in 1..(n - 1) : V[i] # V[n]
  BY <1>0, <1>3 DEF AreNewIn
<1>4. ASSUME command.op = "create"
      PROVE  command.id \notin S[command.kind] /\ \A i \in 1..((Len(W) + 1) - 1) : V[i] # command
  <2>1. command.kind \in Kinds
    BY <1>4 DEF Command, ScreenOps, Wipes
  <2>2. command.id \notin S[command.kind]
    BY <1>1, <1>4, <2>1
  <2>3. \A i \in 1..Len(W) : V[i].id # command.id
    BY <1>0, <1>2, <1>4
  <2>4. (Len(W) + 1) - 1 = Len(W)
    BY <1>0
  <2>5. QED
    BY <2>2, <2>3, <2>4
<1>5. QED
  BY <1>0, <1>1, <1>2, <1>3, <1>4 DEF AreNewIn

\* The IDs after a creation, a deletion, or any other call but a wipe.
Registered(I, command) ==
  IF command.op = "create" THEN [I EXCEPT ![command.kind] = @ \cup {command.id}]
  ELSE IF command.op = "delete" THEN [I EXCEPT ![command.kind] = @ \ {command.id}]
  ELSE I

LEMMA AddedCommandPromises ==
  ASSUME NEW S, NEW V, NEW W, NEW command \in Command, IsExtended(V, W, command),
         command.op \notin Wipes
  PROVE  PromisedIn(S, V) = Registered(PromisedIn(S, W), command)
<1>1. ASSUME NEW k \in Kinds
      PROVE  PromisedIn(S, V)[k] =
               {w \in WidgetIds : \/ w \in PromisedIn(S, W)[k] /\ ~Erases(command, k, w)
                                  \/ command = For("create", k, w)}
  BY AddedCommandActs DEF PromisedIn
<1>2. \A k \in Kinds : PromisedIn(S, W)[k] \subseteq WidgetIds
  BY DEF PromisedIn
<1>3. PromisedIn(S, W) = [k \in Kinds |-> PromisedIn(S, W)[k]]
        /\ PromisedIn(S, V) = [k \in Kinds |-> PromisedIn(S, V)[k]]
  BY DEF PromisedIn
<1> DEFINE P == PromisedIn(S, W)
           Q == PromisedIn(S, V)
<1> HIDE DEF P, Q
<1>4. CASE command.op = "create"
  <2>1. command.kind \in Kinds /\ command.id \in WidgetIds
          /\ command = [op |-> "create", kind |-> command.kind, id |-> command.id]
    BY <1>4 DEF Command, ScreenOps, Wipes
  <2>2. \A k \in Kinds, w \in WidgetIds :
          /\ ~Erases(command, k, w)
          /\ command = For("create", k, w) <=> k = command.kind /\ w = command.id
    BY <1>4, <2>1 DEF Erases, For, Wipes
  <2>3. \A k \in Kinds : Q[k] = P[k] \cup (IF k = command.kind THEN {command.id} ELSE {})
    BY <1>1, <1>2, <2>1, <2>2 DEF P, Q
  <2>4. Q = [P EXCEPT ![command.kind] = @ \cup {command.id}]
    BY <1>3, <2>1, <2>3 DEF P, Q
  <2>5. QED
    BY <1>4, <2>4 DEF P, Q, Registered
<1>5. CASE command.op = "delete"
  <2>1. command.kind \in Kinds /\ command.id \in WidgetIds
          /\ command = [op |-> "delete", kind |-> command.kind, id |-> command.id]
    BY <1>5 DEF Command, ScreenOps, Wipes
  <2>2. \A k \in Kinds, w \in WidgetIds :
          /\ Erases(command, k, w) <=> k = command.kind /\ w = command.id
          /\ command # For("create", k, w)
    BY <1>5, <2>1 DEF Erases, For, Wipes
  <2>3. \A k \in Kinds : \A w : w \in Q[k] <=> w \in P[k] /\ ~(k = command.kind /\ w = command.id)
    <3>1. ASSUME NEW k \in Kinds, NEW w \in WidgetIds
          PROVE  w \in Q[k] <=> w \in P[k] /\ ~(k = command.kind /\ w = command.id)
      BY <1>1, <2>2 DEF P, Q
    <3>2. \A k \in Kinds : Q[k] \subseteq WidgetIds
      BY DEF Q, PromisedIn
    <3>3. QED
      BY <1>2, <3>1, <3>2 DEF P
  <2>4. Q = [P EXCEPT ![command.kind] = @ \ {command.id}]
    BY <1>3, <2>1, <2>3 DEF P, Q
  <2>5. QED
    BY <1>5, <2>4 DEF P, Q, Registered
<1>6. CASE command.op \notin {"create", "delete"}
  <2>1. \A k \in Kinds, w \in WidgetIds : ~Erases(command, k, w) /\ command # For("create", k, w)
    BY <1>6 DEF Erases, For
  <2>2. \A k \in Kinds : Q[k] = P[k]
    BY <1>1, <1>2, <2>1 DEF P, Q
  <2>3. Q = P
    BY <1>3, <2>2 DEF P, Q
  <2>4. QED
    BY <1>6, <2>3 DEF P, Q, Registered
<1>7. QED
  BY <1>4, <1>5, <1>6

\* T shows what S does after the command.
IsDrawn(T, S, command) ==
  \A k \in Kinds : \A w : w \in T[k] <=> \/ w \in S[k] /\ ~Erases(command, k, w)
                                         \/ command = For("create", k, w)

LEMMA RunKeepsPromise ==
  ASSUME NEW S, NEW T, NEW V, NEW W, IsAdvanced(V, W), IsDrawn(T, S, W[1])
  PROVE  PromisedIn(T, V) = PromisedIn(S, W)
<1>1. Len(V) + 1 = Len(W) /\ Len(W) \in 1..Len(W) /\ Len(W) \in Nat
  BY DEF IsAdvanced
<1>2. ASSUME NEW k \in Kinds, NEW w \in WidgetIds
      PROVE  ExistsIn(T, V, k, w, Len(V) + 1) <=> ExistsIn(S, W, k, w, Len(W) + 1)
  BY <1>1, RunCommandActs, SMTT(30) DEF IsDrawn
<1>3. QED
  BY <1>2 DEF PromisedIn

LEMMA RunKeepsFinding ==
  ASSUME NEW S, NEW T, NEW V, NEW W, IsAdvanced(V, W), IsDrawn(T, S, W[1]),
         \A n \in 1..Len(W) : W[n] \in Command, FindsIn(S, W)
  PROVE  FindsIn(T, V)
<1>1. ASSUME NEW n \in 1..Len(V), V[n].op \in {"change", "delete"}
      PROVE  ExistsIn(T, V, V[n].kind, V[n].id, n)
  <2>1. n \in 1..Len(W) /\ n + 1 \in 1..Len(W) /\ V[n] = W[n + 1]
    BY DEF IsAdvanced
  <2>2. V[n].kind \in Kinds
    BY <1>1, <2>1 DEF Command, ScreenOps, Wipes
  <2>3. ExistsIn(S, W, V[n].kind, V[n].id, n + 1)
    BY <1>1, <2>1 DEF FindsIn
  <2>4. V[n].id \in T[V[n].kind] <=>
          \/ V[n].id \in S[V[n].kind] /\ ~Erases(W[1], V[n].kind, V[n].id)
          \/ W[1] = For("create", V[n].kind, V[n].id)
    BY <2>2 DEF IsDrawn
  <2>5. QED
    BY <2>1, <2>3, <2>4, RunCommandActs
<1>2. QED
  BY <1>1 DEF FindsIn

LEMMA RunKeepsNew ==
  ASSUME NEW S, NEW T, NEW V, NEW W, IsAdvanced(V, W), IsDrawn(T, S, W[1]),
         \A n \in 1..Len(W) : W[n] \in Command, NEW next, AreNewIn(S, W, next)
  PROVE  AreNewIn(T, V, next)
<1>0. 1 \in 1..Len(W) /\ \A n \in 1..Len(V) : n + 1 \in 1..Len(W) /\ V[n] = W[n + 1]
  BY DEF IsAdvanced
<1>1. \A k \in Kinds : \A w \in T[k] : w < next
  <2>1. W[1].id < next
    BY <1>0 DEF AreNewIn
  <2>2. \A k, w : W[1] = For("create", k, w) => w = W[1].id
    BY DEF For
  <2>3. \A k \in Kinds : \A w \in S[k] : w < next
    BY DEF AreNewIn
  <2>4. QED
    BY <2>1, <2>2, <2>3 DEF IsDrawn
<1>2. \A n \in 1..Len(V) : V[n].id < next
  BY <1>0 DEF AreNewIn
<1>3. ASSUME NEW n \in 1..Len(V), V[n].op = "create"
      PROVE  V[n].id \notin T[V[n].kind] /\ \A i \in 1..(n - 1) : V[i] # V[n]
  <2>1. /\ V[n].id \notin S[V[n].kind]
        /\ \A i \in 1..((n + 1) - 1) : W[i] # V[n]
    BY <1>0, <1>3 DEF AreNewIn
  <2>2. V[n].kind \in Kinds /\ V[n] = For("create", V[n].kind, V[n].id)
    BY <1>0, <1>3, SMTT(30) DEF Command, ScreenOps, Wipes, For
  <2>3. 1 \in 1..((n + 1) - 1) /\ \A i \in 1..(n - 1) : i + 1 \in 1..((n + 1) - 1) /\ V[i] = W[i + 1]
    BY DEF IsAdvanced
  <2>4. QED
    BY <2>1, <2>2, <2>3 DEF IsDrawn
<1>4. QED
  BY <1>1, <1>2, <1>3 DEF AreNewIn

\* V is what a wipe leaves of W: the command being run, if any, and the wipe.
IsReplaced(V, W, command) ==
  /\ Len(V) \in {1, 2} /\ V[Len(V)] = command /\ command.op \in Wipes
  /\ Len(V) = 2 => Len(W) \in Nat \ {0} /\ V[1] = W[1]

LEMMA WipeKeepsParts ==
  ASSUME NEW S, NEW V, NEW W, NEW command \in Command, IsReplaced(V, W, command), NEW next \in Nat \ {0},
         FindsIn(S, W), AreNewIn(S, W, next)
  PROVE  FindsIn(S, V) /\ AreNewIn(S, V, next) /\ PromisedIn(S, V) = NoWidgets
<1>1. command.id = 0 /\ command.op \notin WidgetOps
  BY DEF IsReplaced, Command, Wipes, WidgetOps
<1>2. FindsIn(S, V)
  <2>1. ASSUME NEW n \in 1..Len(V), V[n].op \in {"change", "delete"}
        PROVE  ExistsIn(S, V, V[n].kind, V[n].id, n)
    <3>1. n = 1 /\ Len(V) = 2 /\ V[1] = W[1] /\ 1 \in 1..Len(W)
      BY <1>1, <2>1 DEF IsReplaced, WidgetOps
    <3>2. ExistsIn(S, W, W[1].kind, W[1].id, 1)
      BY <2>1, <3>1 DEF FindsIn
    <3>3. QED
      BY <3>1, <3>2 DEF ExistsIn
  <2>2. QED
    BY <2>1 DEF FindsIn
<1>3. AreNewIn(S, V, next)
  <2>1. \A n \in 1..Len(V) : n = Len(V) \/ (n = 1 /\ V[1] = W[1] /\ 1 \in 1..Len(W))
    BY DEF IsReplaced
  <2>2. \A i \in 1..(1 - 1) : FALSE
    OBVIOUS
  <2>3. QED
    BY <1>1, <2>1, <2>2 DEF AreNewIn, IsReplaced, WidgetOps
<1>4. \A k \in Kinds, w \in WidgetIds : ~ExistsIn(S, V, k, w, Len(V) + 1)
  <2>1. Len(V) \in 1..((Len(V) + 1) - 1) /\ Len(V) \in Nat
    <3>1. Len(V) = 1 \/ Len(V) = 2
      BY DEF IsReplaced
    <3>2. QED
      BY <3>1
  <2>2. \A k, w : Erases(V[Len(V)], k, w)
    BY DEF IsReplaced, Erases
  <2>3. \A i \in 1..((Len(V) + 1) - 1) : i = Len(V) \/ Len(V) \in (i + 1)..((Len(V) + 1) - 1)
    BY <2>1
  <2>4. \A k, w : V[Len(V)] # For("create", k, w)
    BY <1>1 DEF IsReplaced, For, WidgetOps
  <2>5. QED
    BY <2>1, <2>2, <2>3, <2>4 DEF ExistsIn
<1>5. PromisedIn(S, V) = NoWidgets
  BY <1>4 DEF PromisedIn, NoWidgets
<1>6. QED
  BY <1>2, <1>3, <1>5

LEMMA NoWorkKeepsScreen ==
  ASSUME NEW V, Len(V) = 0, NEW S \in [Kinds -> SUBSET WidgetIds]
  PROVE  PromisedIn(S, V) = S /\ FindsIn(S, V)
<1>1. \A k \in Kinds, w \in WidgetIds : ExistsIn(S, V, k, w, Len(V) + 1) <=> w \in S[k]
  BY DEF ExistsIn
<1>2. PromisedIn(S, V) = S
  BY <1>1 DEF PromisedIn
<1>3. QED
  BY <1>2 DEF FindsIn

-----------------------------------------------------------------------------
(***************************************************************************)
(* Types.                                                                  *)
(***************************************************************************)

LEMMA CommandsAreCommands ==
  /\ \A op \in WidgetOps, k \in Kinds, w \in WidgetIds : For(op, k, w) \in Command
  /\ \A op \in ScreenOps : Screen(op) \in Command
BY DEF Command, For, Screen

\* A call that is accepted leaves the queue within its limit.
LEMMA EnqueueKeepsType ==
  ASSUME TypeOK, NEW command \in Command, Enqueue(command)
  PROVE  pending' \in Seq(Command) /\ Len(pending') <= MaximumPendingCommands
<1>1. pending \in Seq(Command) /\ Len(pending) < MaximumPendingCommands /\ Len(pending) \in Nat
  BY LenProperties DEF TypeOK, Enqueue, CanEnqueue
<1>2. pending' \in Seq(Command) /\ Len(pending') = Len(pending) + 1
  BY <1>1, AppendProperties DEF Enqueue
<1>3. QED
  BY <1>1, <1>2, ScreenAssumption

LEMMA StepKeepsTypes ==
  ASSUME TypeOK, Rendering => FilledAreasFit, [Next]_vars
  PROVE  TypeOK'
<1> USE ScreenAssumption
<1>0. 1 \in 1..(MaximumWidgetId + 1) /\ 0 \in 0..MaximumFilledAreas /\ 0 \in 0..MaximumBatch
        /\ NoWidgets \in [Kinds -> SUBSET WidgetIds] /\ << >> \in Seq(Command) /\ Len(<< >>) = 0
        /\ {"textBox", "image"} = Kinds
  BY DEF NoWidgets, Kinds
<1>1. ASSUME NEW k \in Kinds, DrawWidget(k)
      PROVE  TypeOK'
  <2>1. nextWidgetId \in WidgetIds /\ nextWidgetId' \in 1..(MaximumWidgetId + 1)
    BY <1>1 DEF DrawWidget, WidgetIds
  <2>2. ids' \in [Kinds -> SUBSET WidgetIds]
    BY <1>1, <2>1 DEF DrawWidget, TypeOK
  <2>3. pending' \in Seq(Command) /\ Len(pending') <= MaximumPendingCommands
    <3>1. For("create", k, nextWidgetId) \in Command
      BY <2>1, CommandsAreCommands DEF WidgetOps
    <3>2. QED
      BY <1>1, <3>1, EnqueueKeepsType DEF DrawWidget, TypeOK
  <2>4. QED
    BY <1>1, <2>1, <2>2, <2>3 DEF DrawWidget, TypeOK, Undisturbed, threadVars, backendVars
<1>2. ASSUME NEW k \in Kinds, NEW w \in WidgetIds, ChangeWidget(k, w)
      PROVE  TypeOK'
  <2>1. For("change", k, w) \in Command
    BY CommandsAreCommands DEF WidgetOps
  <2>2. pending' \in Seq(Command) /\ Len(pending') <= MaximumPendingCommands
    BY <1>2, <2>1, EnqueueKeepsType DEF ChangeWidget
  <2>3. QED
    BY <1>2, <2>2 DEF ChangeWidget, TypeOK, Undisturbed, mainVars, threadVars, backendVars
<1>3. ASSUME NEW k \in Kinds, NEW w \in WidgetIds, DeleteWidget(k, w)
      PROVE  TypeOK'
  <2>1. For("delete", k, w) \in Command
    BY CommandsAreCommands DEF WidgetOps
  <2>2. pending' \in Seq(Command) /\ Len(pending') <= MaximumPendingCommands
    BY <1>3, <2>1, EnqueueKeepsType DEF DeleteWidget
  <2>3. ids' \in [Kinds -> SUBSET WidgetIds]
    BY <1>3 DEF DeleteWidget, TypeOK
  <2>4. QED
    BY <1>3, <2>2, <2>3 DEF DeleteWidget, TypeOK, Undisturbed, threadVars, backendVars
<1>4. CASE FillArea
  <2>1. Screen("fill") \in Command
    BY CommandsAreCommands DEF ScreenOps
  <2>2. pending' \in Seq(Command) /\ Len(pending') <= MaximumPendingCommands
    BY <1>4, <2>1, EnqueueKeepsType DEF FillArea
  <2>3. filledAreaCount' \in 0..MaximumFilledAreas
    BY <1>4 DEF FillArea, TypeOK
  <2>4. QED
    BY <1>4, <2>2, <2>3 DEF FillArea, TypeOK, Undisturbed, threadVars, backendVars
<1>5. ASSUME NEW op \in {"setBackground", "clearBackground"}, ChangeBackground(op)
      PROVE  TypeOK'
  <2>1. Screen(op) \in Command
    BY CommandsAreCommands DEF ScreenOps
  <2>2. pending' \in Seq(Command) /\ Len(pending') <= MaximumPendingCommands
    BY <1>5, <2>1, EnqueueKeepsType DEF ChangeBackground
  <2>3. QED
    BY <1>5, <2>2 DEF ChangeBackground, TypeOK, Undisturbed, mainVars, threadVars, backendVars
<1>6. ASSUME NEW op \in Wipes, WipeScreen(op)
      PROVE  TypeOK'
  <2>1. Screen(op) \in Command
    BY CommandsAreCommands DEF ScreenOps
  <2>2. pending' \in Seq(Command) /\ Len(pending') = 1
    BY <1>6, <2>1 DEF WipeScreen
  <2>3. QED
    BY <1>0, <1>6, <2>2 DEF WipeScreen, ForgetApplication, TypeOK, Undisturbed, threadVars, backendVars
<1>7. CASE Start \/ VideoEnds
  BY <1>7 DEF Start, VideoEnds, LaunchRenderThread, TypeOK, mainVars, backendVars, Callers, Threads, Failures
<1>8. CASE Stop \/ StartFails \/ ReleaseDisplayForVideo
  BY <1>8 DEF Stop, StartFails, ReleaseDisplayForVideo, RequestStop, TypeOK, mainVars, threadVars,
              backendVars, Callers
<1>9. CASE StartReturns
  BY <1>9 DEF StartReturns, TypeOK, mainVars, sharedVars, threadVars, backendVars, Callers
<1>10. CASE JoinRenderThread
  BY <1>0, <1>10 DEF JoinRenderThread, ForgetApplication, TypeOK, backendVars, Callers, Threads
<1>11. CASE InitializeBackend \/ InitializeFails
  BY <1>0, <1>11 DEF InitializeBackend, InitializeFails, MainUndisturbed, TypeOK, mainVars, backendVars,
               Threads, Failures
<1>12. CASE TakeCommand
  <2>1. pending \in Seq(Command) /\ pending # << >> /\ Len(pending) \in Nat
    BY <1>12, LenProperties DEF TypeOK, TakeCommand
  <2>2. /\ inFlight' \in Seq(Command) /\ Len(inFlight') = 1
        /\ pending' \in Seq(Command) /\ Len(pending') = Len(pending) - 1
    BY <1>12, <2>1, HeadTailProperties DEF TakeCommand
  <2>3. processed' \in 0..MaximumBatch
    BY <1>12 DEF TakeCommand, TypeOK
  <2>4. QED
    BY <1>12, <2>1, <2>2, <2>3 DEF TakeCommand, MainUndisturbed, TypeOK, mainVars, backendVars
<1>13. CASE ExecuteCommand
  <2>1. Work[1] \in Command /\ Work[1] = inFlight[1] /\ DrawOnBackend(inFlight[1])
    BY <1>13, ExecuteTakesFirst DEF ExecuteCommand
  <2>2. shown' \in [Kinds -> SUBSET WidgetIds]
    <3>1. inFlight[1].op \in {"create", "delete"} =>
            inFlight[1].kind \in Kinds /\ inFlight[1].id \in WidgetIds
      BY <2>1 DEF Command, ScreenOps, Wipes
    <3>2. shown \in [Kinds -> SUBSET WidgetIds]
      BY DEF TypeOK
    <3>3. shown' \in {[shown EXCEPT ![inFlight[1].kind] = @ \cup {inFlight[1].id}],
                      [shown EXCEPT ![inFlight[1].kind] = @ \ {inFlight[1].id}], NoWidgets, shown}
      BY <2>1 DEF DrawOnBackend
    <3>4. inFlight[1].op \notin {"create", "delete"} => shown' \in {NoWidgets, shown}
      BY <2>1 DEF DrawOnBackend
    <3>5. QED
      BY <1>0, <3>1, <3>2, <3>3, <3>4
  <2>3. filledAreas' \in 0..MaximumFilledAreas
    BY <1>13, <2>1 DEF ExecuteCommand, DrawOnBackend, FilledAreasFit, Rendering, TypeOK
  <2>4. background' \in BOOLEAN /\ errorShown' \in BOOLEAN
    BY <2>1 DEF DrawOnBackend
  <2>5. QED
    BY <1>0, <1>13, <2>2, <2>3, <2>4 DEF ExecuteCommand, MainUndisturbed, TypeOK, mainVars
<1>14. CASE CommandThrows \/ StoreFailure \/ EndBatch \/ RefreshDisplay
  BY <1>14 DEF CommandThrows, StoreFailure, EndBatch, RefreshDisplay, MainUndisturbed, TypeOK,
               mainVars, backendVars, Threads, Failures
<1>15. CASE WakeUp
  BY <1>0, <1>15 DEF WakeUp, MainUndisturbed, TypeOK, mainVars, backendVars, Threads
<1>16. CASE ShutDownBackend
  <2>1. inFlight' \in Seq(Command) /\ Len(inFlight') <= 1 /\ shown' \in [Kinds -> SUBSET WidgetIds]
          /\ filledAreas' \in 0..MaximumFilledAreas
    BY <1>0, <1>16 DEF ShutDownBackend
  <2>2. QED
    BY <1>16, <2>1 DEF ShutDownBackend, MainUndisturbed, TypeOK, mainVars, Threads
<1>17. CASE UNCHANGED vars
  BY <1>17 DEF vars, TypeOK, mainVars, sharedVars, threadVars, backendVars
<1>18. QED
  BY <1>1, <1>2, <1>3, <1>4, <1>5, <1>6, <1>7, <1>8, <1>9, <1>10, <1>11, <1>12, <1>13, <1>14,
     <1>15, <1>16, <1>17 DEF Next, Draw, MainContinues, RenderThread

-----------------------------------------------------------------------------
(***************************************************************************)
(* The two threads.                                                        *)
(***************************************************************************)

LEMMA StepKeepsThreads ==
  ASSUME TypeOK, ThreadsAgree, [Next]_vars
  PROVE  ThreadsAgree'
<1> USE DEF ThreadsAgree, NothingDrawn
<1>1. CASE Draw
  <2>1. \/ caller = "idle" /\ thread \notin {"absent", "initializing"}
        \/ UNCHANGED <<ids, filledAreaCount, pending>>
    BY <1>1 DEF Draw, DrawWidget, ChangeWidget, DeleteWidget, FillArea, ChangeBackground, WipeScreen,
                CanEnqueue, Enqueue, Available
  <2>2. UNCHANGED <<caller, stopping, failure, threadVars, backendVars>>
    BY <1>1 DEF Draw, DrawWidget, ChangeWidget, DeleteWidget, FillArea, ChangeBackground, WipeScreen,
                Undisturbed
  <2>3. QED
    BY <2>1, <2>2 DEF threadVars, backendVars
<1>2. CASE Start \/ VideoEnds
  BY <1>2 DEF Start, VideoEnds, LaunchRenderThread, mainVars, backendVars
<1>3. CASE Stop \/ StartFails \/ ReleaseDisplayForVideo
  BY <1>3 DEF Stop, StartFails, ReleaseDisplayForVideo, RequestStop, mainVars, threadVars, backendVars
<1>4. CASE StartReturns \/ JoinRenderThread
  BY <1>4 DEF StartReturns, JoinRenderThread, ForgetApplication, mainVars, sharedVars, threadVars, backendVars
<1>5. CASE InitializeBackend \/ InitializeFails
  BY <1>5 DEF InitializeBackend, InitializeFails, MainUndisturbed, mainVars, backendVars
<1>6. CASE TakeCommand \/ ExecuteCommand \/ CommandThrows
  BY <1>6 DEF TakeCommand, ExecuteCommand, CommandThrows, MainUndisturbed, mainVars, backendVars
<1>7. CASE StoreFailure \/ EndBatch \/ RefreshDisplay \/ WakeUp \/ ShutDownBackend
  BY <1>7 DEF StoreFailure, EndBatch, RefreshDisplay, WakeUp, ShutDownBackend, MainUndisturbed, mainVars,
              backendVars
<1>8. CASE UNCHANGED vars
  BY <1>8 DEF vars, mainVars, sharedVars, threadVars, backendVars
<1>9. QED
  BY <1>1, <1>2, <1>3, <1>4, <1>5, <1>6, <1>7, <1>8 DEF Next, MainContinues, RenderThread

-----------------------------------------------------------------------------
(***************************************************************************)
(* The screen.                                                             *)
(***************************************************************************)

\* An ID the application still has is one that was given out.
LEMMA PromisedIdsAreUsed ==
  ASSUME NEW S \in [Kinds -> SUBSET WidgetIds], NEW W, Len(W) \in Nat,
         NEW next, AreNewIn(S, W, next), NEW k \in Kinds, NEW w \in PromisedIn(S, W)[k]
  PROVE  w < next
<1>1. ExistsIn(S, W, k, w, Len(W) + 1) /\ (Len(W) + 1) - 1 = Len(W)
  BY DEF PromisedIn
<1>2. w \in S[k] \/ \E i \in 1..Len(W) : W[i] = For("create", k, w)
  BY <1>1 DEF ExistsIn
<1>3. \A i \in 1..Len(W) : W[i] = For("create", k, w) => W[i].id = w
  BY DEF For
<1>4. QED
  BY <1>2, <1>3 DEF AreNewIn

\* An accepted call that does not wipe the screen.
LEMMA AcceptedCallKeepsScreen ==
  ASSUME TypeOK, ScreenIsSound, NEW command \in Command, command.op \notin Wipes,
         Enqueue(command), UNCHANGED <<inFlight, backendVars>>,
         nextWidgetId' \in {nextWidgetId, nextWidgetId + 1}, command.id < nextWidgetId',
         command.op = "create" => command.id = nextWidgetId,
         command.op \in {"change", "delete"} => command.id \in ids[command.kind],
         ids' = IF command.op = "create" THEN [ids EXCEPT ![command.kind] = @ \cup {command.id}]
                ELSE IF command.op = "delete" THEN [ids EXCEPT ![command.kind] = @ \ {command.id}]
                ELSE ids,
         filledAreaCount' = filledAreaCount + (IF command.op = "fill" THEN 1 ELSE 0)
  PROVE  ScreenIsSound'
<1>1. IsExtended(Work', Work, command) /\ Len(Work) \in Nat /\ \A n \in 1..Len(Work) : Work[n] \in Command
  <2>1. Work \in Seq(Command) /\ \A n \in 1..Len(Work) : Work[n] \in Command
    BY WorkIsSequence
  <2>2. QED
    BY <2>1, EnqueueAppends, LenProperties DEF IsExtended
<1>2. UNCHANGED <<inFlight, shown, filledAreas>>
  BY DEF backendVars
<1>3. FindsIn(shown, Work) /\ AreNewIn(shown, Work, nextWidgetId)
        /\ ids = PromisedIn(shown, Work) /\ filledAreaCount = FilledIn(filledAreas, Work)
  BY PartsOfInvariant, PromisedIsFilledIn DEF ScreenIsSound
<1>4. FindsIn(shown, Work')
  <2>1. command.op \in {"change", "delete"} =>
          ExistsIn(shown, Work, command.kind, command.id, Len(Work) + 1)
    <3>1. command.op \in {"change", "delete"} => command.kind \in Kinds
      BY DEF Command, ScreenOps, Wipes
    <3>2. QED
      BY <1>3, <3>1 DEF PromisedIn
  <2>2. QED
    BY <1>1, <1>3, <2>1, AddKeepsFinding
<1>5. AreNewIn(shown, Work', nextWidgetId')
  <2>1. nextWidgetId \in Nat /\ shown \in [Kinds -> SUBSET WidgetIds]
    BY ScreenAssumption DEF TypeOK
  <2>2. QED
    BY <1>1, <1>3, <2>1, AddKeepsNew
<1>6. ids' = PromisedIn(shown, Work')
  <2>1. PromisedIn(shown, Work') = Registered(PromisedIn(shown, Work), command)
    BY <1>1, AddedCommandPromises
  <2>2. ids' = Registered(ids, command)
    BY DEF Registered
  <2>3. QED
    BY <1>3, <2>1, <2>2
<1>7. filledAreaCount' = FilledIn(filledAreas, Work')
  <2>1. filledAreas \in Nat
    BY DEF TypeOK
  <2>2. QED
    BY <1>1, <1>3, <2>1, AddedFillCounts
<1>8. WipesAreFirst'
  <2>1. pending \in Seq(Command) /\ pending' = Append(pending, command)
    BY DEF TypeOK, Enqueue
  <2>2. /\ Len(pending') = Len(pending) + 1 /\ Len(pending) \in Nat
        /\ \A i \in 1..Len(pending) : pending'[i] = pending[i]
        /\ pending'[Len(pending) + 1] = command
    BY <2>1, AppendProperties, LenProperties
  <2>3. QED
    BY <2>2 DEF ScreenIsSound, WipesAreFirst, Wipes
<1>9. FilledAreasFit'
  BY <1>2 DEF ScreenIsSound, FilledAreasFit
<1>10. QED
  BY <1>2, <1>4, <1>5, <1>6, <1>7, <1>8, <1>9, PartsOfInvariant, PromisedIsFilledIn DEF ScreenIsSound

\* A drawing call, accepted or refused.
LEMMA DrawKeepsScreen ==
  ASSUME TypeOK, ScreenIsSound, Draw
  PROVE  ScreenIsSound'
<1> USE ScreenAssumption
<1>0. UNCHANGED <<inFlight, backendVars>>
  BY DEF Draw, DrawWidget, ChangeWidget, DeleteWidget, FillArea, ChangeBackground, WipeScreen,
         Undisturbed, threadVars
<1>1. ASSUME NEW k \in Kinds, DrawWidget(k)
      PROVE  ScreenIsSound'
  <2>1. /\ nextWidgetId \in WidgetIds /\ nextWidgetId' = nextWidgetId + 1 /\ filledAreaCount' = filledAreaCount
        /\ filledAreaCount \in Nat /\ nextWidgetId < nextWidgetId + 1
    BY <1>1 DEF DrawWidget, WidgetIds, TypeOK
  <2>2. CASE UNCHANGED <<pending, ids>>
    <3>1. Work' = Work
      BY <1>0, <2>2 DEF Work
    <3>2. AreNewIn(shown, Work, nextWidgetId')
      <4>1. \A k2 \in Kinds : \A w \in shown[k2] : w < nextWidgetId'
        BY <2>1 DEF ScreenIsSound, CreationsAreNew, TypeOK, WidgetIds
      <4>2. \A n \in 1..Len(Work) : Work[n].id \in Nat /\ Work[n].id < nextWidgetId
        BY WorkIsSequence DEF ScreenIsSound, CreationsAreNew, Command, WidgetIds
      <4>3. \A n \in 1..Len(Work) : Work[n].id < nextWidgetId'
        BY <2>1, <4>2 DEF WidgetIds
      <4>4. QED
        BY <4>1, <4>3 DEF ScreenIsSound, CreationsAreNew, AreNewIn
    <3>3. UNCHANGED <<shown, filledAreas, background, errorShown>>
      BY <1>0 DEF backendVars
    <3>4. WorkFindsWidgets' /\ CreationsAreNew' /\ ids' = PromisedWidgets'
      BY <2>2, <3>1, <3>2, <3>3, PartsOfInvariant DEF ScreenIsSound
    <3>5. filledAreaCount' = PromisedFilledAreas'
      BY <2>1, <3>1, <3>3, PromisedIsFilledIn DEF ScreenIsSound
    <3>6. WipesAreFirst' /\ FilledAreasFit'
      BY <1>0, <2>2, <3>3 DEF ScreenIsSound, WipesAreFirst, FilledAreasFit
    <3>7. QED
      BY <3>4, <3>5, <3>6 DEF ScreenIsSound
  <2>3. CASE /\ Enqueue(For("create", k, nextWidgetId))
             /\ ids' = [ids EXCEPT ![k] = @ \cup {nextWidgetId}]
    <3> DEFINE c == For("create", k, nextWidgetId)
    <3>1. c \in Command /\ c.op = "create" /\ c.kind = k /\ c.id = nextWidgetId
      BY <2>1, CommandsAreCommands DEF For, WidgetOps
    <3> HIDE DEF c
    <3>2. Enqueue(c)
      BY <2>3 DEF c
    <3>3. /\ ids' = IF c.op = "create" THEN [ids EXCEPT ![c.kind] = @ \cup {c.id}]
                    ELSE IF c.op = "delete" THEN [ids EXCEPT ![c.kind] = @ \ {c.id}] ELSE ids
          /\ filledAreaCount' = filledAreaCount + (IF c.op = "fill" THEN 1 ELSE 0)
          /\ c.op \notin Wipes /\ c.op \notin {"change", "delete"} /\ c.id < nextWidgetId'
      BY <2>1, <2>3, <3>1 DEF Wipes
    <3>4. QED
      BY <1>0, <2>1, <3>1, <3>2, <3>3, AcceptedCallKeepsScreen
  <2>4. QED
    BY <1>1, <2>2, <2>3 DEF DrawWidget
<1>2. ASSUME NEW k \in Kinds, NEW w \in WidgetIds, NEW op \in {"change", "delete"},
             w \in ids[k], Enqueue(For(op, k, w)), UNCHANGED <<nextWidgetId, filledAreaCount>>,
             ids' = IF op = "delete" THEN [ids EXCEPT ![k] = @ \ {w}] ELSE ids
      PROVE  ScreenIsSound'
  <2> DEFINE c == For(op, k, w)
  <2>1. c \in Command /\ c.op = op /\ c.kind = k /\ c.id = w
    BY CommandsAreCommands DEF For, WidgetOps
  <2>2. w < nextWidgetId
    <3>1. Len(Work) \in Nat
      BY WorkIsSequence, LenProperties
    <3>2. w \in PromisedIn(shown, Work)[k] /\ AreNewIn(shown, Work, nextWidgetId)
      BY <1>2, PartsOfInvariant DEF ScreenIsSound
    <3>3. shown \in [Kinds -> SUBSET WidgetIds]
      BY DEF TypeOK
    <3>4. QED
      BY <3>1, <3>2, <3>3, PromisedIdsAreUsed
  <2>3. filledAreaCount \in Nat
    BY DEF TypeOK
  <2> HIDE DEF c
  <2>4. Enqueue(c)
    BY <1>2 DEF c
  <2>5. /\ ids' = IF c.op = "create" THEN [ids EXCEPT ![c.kind] = @ \cup {c.id}]
                  ELSE IF c.op = "delete" THEN [ids EXCEPT ![c.kind] = @ \ {c.id}] ELSE ids
        /\ filledAreaCount' = filledAreaCount + (IF c.op = "fill" THEN 1 ELSE 0)
        /\ c.op \notin Wipes /\ c.op # "create" /\ c.id \in ids[c.kind]
        /\ c.id < nextWidgetId' /\ nextWidgetId' = nextWidgetId
    BY <1>2, <2>1, <2>2, <2>3 DEF Wipes
  <2>6. QED
    BY <1>0, <2>1, <2>4, <2>5, AcceptedCallKeepsScreen
<1>3. ASSUME NEW op \in {"fill", "setBackground", "clearBackground"}, Enqueue(Screen(op)),
             UNCHANGED <<ids, nextWidgetId>>,
             filledAreaCount' = filledAreaCount + (IF op = "fill" THEN 1 ELSE 0)
      PROVE  ScreenIsSound'
  <2> DEFINE c == Screen(op)
  <2>1. c \in Command /\ c.op = op /\ c.id = 0
    BY CommandsAreCommands DEF Screen, ScreenOps
  <2>2. nextWidgetId \in Nat /\ 0 < nextWidgetId
    BY DEF TypeOK
  <2> HIDE DEF c
  <2>3. Enqueue(c)
    BY <1>3 DEF c
  <2>4. QED
    BY <1>0, <1>3, <2>1, <2>2, <2>3, AcceptedCallKeepsScreen DEF Wipes
<1>4. ASSUME NEW op \in Wipes, WipeScreen(op)
      PROVE  ScreenIsSound'
  <2>1. Screen(op) \in Command /\ Screen(op).op = op
    BY CommandsAreCommands DEF ScreenOps, Screen
  <2>2. IsReplaced(Work', Work, Screen(op)) /\ Len(Work') \in Nat \ {0}
    <3>1. Work' = inFlight \o <<Screen(op)>>
      BY <1>0, <1>4 DEF WipeScreen, Work
    <3>2. inFlight \in Seq(Command) /\ Len(inFlight) \in Nat /\ Len(inFlight) <= 1 /\ pending \in Seq(Command)
      BY LenProperties DEF TypeOK
    <3>3. /\ Len(Work') = Len(inFlight) + 1
          /\ \A i \in 1..Len(Work') : Work'[i] = IF i <= Len(inFlight) THEN inFlight[i] ELSE Screen(op)
      BY <2>1, <3>1, <3>2
    <3>4. ASSUME Len(inFlight) = 0
          PROVE  IsReplaced(Work', Work, Screen(op))
      BY <2>1, <3>3, <3>4 DEF IsReplaced
    <3>5. ASSUME Len(inFlight) = 1
          PROVE  IsReplaced(Work', Work, Screen(op))
      <4>1. inFlight # << >>
        BY <3>5
      <4>2. Len(Work) \in Nat \ {0} /\ Work[1] = inFlight[1]
        BY <3>2, <4>1, WorkIsSequence, LenProperties
      <4>3. QED
        BY <2>1, <3>3, <3>5, <4>2 DEF IsReplaced
    <3>6. Len(inFlight) = 0 \/ Len(inFlight) = 1
      <4>1. \A m \in Nat : m <= 1 => m = 0 \/ m = 1
        OBVIOUS
      <4>2. Len(inFlight) \in Nat /\ Len(inFlight) <= 1
        BY <3>2
      <4>3. QED
        BY <4>1, <4>2, Zenon
    <3>7. Len(Work') \in Nat \ {0}
      BY <3>2, <3>3
    <3>8. QED
      BY <3>4, <3>5, <3>6, <3>7
  <2>3. FindsIn(shown, Work') /\ AreNewIn(shown, Work', nextWidgetId)
          /\ PromisedIn(shown, Work') = NoWidgets
    <3>1. FindsIn(shown, Work) /\ AreNewIn(shown, Work, nextWidgetId) /\ nextWidgetId \in Nat \ {0}
      BY PartsOfInvariant DEF ScreenIsSound, TypeOK
    <3>2. QED
      BY <2>1, <2>2, <3>1, WipeKeepsParts
  <2>4. FilledIn(filledAreas, Work') = 0
    BY <2>1, <2>2, WipeLeavesNoFills DEF IsReplaced
  <2>5. /\ ids' = NoWidgets /\ filledAreaCount' = 0 /\ nextWidgetId' = nextWidgetId
        /\ pending' = <<Screen(op)>>
        /\ UNCHANGED <<shown, filledAreas, inFlight>>
    BY <1>0, <1>4 DEF WipeScreen, ForgetApplication, backendVars
  <2>6. WipesAreFirst' /\ FilledAreasFit'
    BY <2>5 DEF ScreenIsSound, WipesAreFirst, FilledAreasFit
  <2>7. QED
    BY <2>3, <2>4, <2>5, <2>6, PartsOfInvariant, PromisedIsFilledIn DEF ScreenIsSound
<1>5. ASSUME NEW k \in Kinds, NEW w \in WidgetIds, ChangeWidget(k, w) \/ DeleteWidget(k, w)
      PROVE  ScreenIsSound'
  BY <1>2, <1>5 DEF ChangeWidget, DeleteWidget, mainVars
<1>6. CASE FillArea \/ \E op \in {"setBackground", "clearBackground"} : ChangeBackground(op)
  <2>1. filledAreaCount \in Nat
    BY DEF TypeOK
  <2>2. QED
    BY <1>3, <1>6, <2>1 DEF FillArea, ChangeBackground, mainVars
<1>7. QED
  BY <1>1, <1>4, <1>5, <1>6 DEF Draw

LEMMA TakeKeepsScreen ==
  ASSUME TypeOK, ScreenIsSound, TakeCommand
  PROVE  ScreenIsSound'
<1>1. Work' = Work /\ UNCHANGED <<ids, nextWidgetId, filledAreaCount, shown, filledAreas>>
  BY TakeKeepsWork DEF TakeCommand, MainUndisturbed, mainVars, backendVars
<1>2. /\ pending \in Seq(Command) /\ pending # << >> /\ inFlight = << >> /\ Work = pending
      /\ Len(pending) \in Nat \ {0} /\ pending[1] \in Command
      /\ inFlight' = <<pending[1]>>
      /\ Len(pending') = Len(pending) - 1
      /\ \A i \in 1..Len(pending') : pending'[i] = pending[i + 1]
  <2>1. pending \in Seq(Command) /\ pending # << >> /\ inFlight = << >> /\ Work = pending
    BY WorkIsSequence DEF TypeOK, TakeCommand
  <2>2. Len(pending) \in Nat \ {0}
    BY <2>1, EmptySeq
  <2>3. pending[1] \in Command /\ Head(pending) = pending[1]
    BY <2>1, <2>2, ElementOfSeq
  <2>4. Len(Tail(pending)) = Len(pending) - 1 /\ \A i \in 1..Len(Tail(pending)) : Tail(pending)[i] = pending[i + 1]
    BY <2>1, HeadTailProperties
  <2>5. QED
    BY <2>1, <2>2, <2>3, <2>4 DEF TakeCommand
<1>3. WipesAreFirst'
  <2>1. \A i \in 1..Len(pending') : i + 1 \in 1..Len(pending) /\ i + 1 # 1
    BY <1>2
  <2>2. QED
    BY <1>2, <2>1 DEF ScreenIsSound, WipesAreFirst, Wipes
<1>4. FilledAreasFit'
  <2>1. CASE pending[1].op = "fill"
    <3>1. \A j \in 1..Len(Work) : Work[j].op \notin Wipes
      BY <1>2, <2>1 DEF ScreenIsSound, WipesAreFirst, Wipes
    <3>2. LastPartOf(Work) = 1..Len(Work) /\ 1 \in 1..Len(Work)
      BY <1>2, <3>1 DEF LastPartOf
    <3>3. 1 \in FillsOf(Work)
      BY <1>2, <2>1, <3>2 DEF FillsOf
    <3>4. Cardinality(FillsOf(Work)) \in Nat \ {0}
      <4>1. Len(Work) \in Nat
        BY <1>2
      <4>2. IsFiniteSet(FillsOf(Work)) /\ Cardinality(FillsOf(Work)) \in Nat
        BY <4>1, FillsAreFinite
      <4>3. QED
        BY <3>3, <4>2, FS_EmptySet
    <3>5. filledAreaCount = Cardinality(FillsOf(Work)) + filledAreas
      BY <3>2, PromisedIsFilledIn DEF ScreenIsSound, FilledIn
    <3>6. filledAreaCount \in 0..MaximumFilledAreas /\ filledAreas \in Nat
      BY DEF TypeOK
    <3>7. filledAreas + 1 <= MaximumFilledAreas
      BY <3>4, <3>5, <3>6, ScreenAssumption
    <3>8. QED
      BY <1>1, <1>2, <2>1, <3>7 DEF FilledAreasFit
  <2>2. CASE pending[1].op # "fill"
    <3>1. inFlight'[1].op # "fill"
      BY <1>2, <2>2
    <3>2. filledAreas' + 0 <= MaximumFilledAreas
      BY <1>1, ScreenAssumption DEF TypeOK
    <3>3. QED
      BY <3>1, <3>2 DEF FilledAreasFit
  <2>3. QED
    BY <2>1, <2>2
<1>5. WorkFindsWidgets' /\ CreationsAreNew' /\ ids' = PromisedWidgets'
  BY <1>1, PartsOfInvariant DEF ScreenIsSound
<1>6. filledAreaCount' = PromisedFilledAreas'
  BY <1>1, PromisedIsFilledIn DEF ScreenIsSound
<1>7. QED
  BY <1>3, <1>4, <1>5, <1>6 DEF ScreenIsSound

\* What running the first command means for work and screen.
LEMMA ExecuteAdvances ==
  ASSUME TypeOK, ExecuteCommand
  PROVE  /\ IsAdvanced(Work', Work)
         /\ IsDrawn(shown', shown, Work[1])
         /\ Work[1] = inFlight[1] /\ \A n \in 1..Len(Work) : Work[n] \in Command
<1>1. IsAdvanced(Work', Work) /\ Work[1] = inFlight[1] /\ Work[1] \in Command
  BY ExecuteTakesFirst DEF IsAdvanced
<1>2. DrawOnBackend(Work[1]) /\ shown \in [Kinds -> SUBSET WidgetIds]
  BY <1>1 DEF ExecuteCommand, TypeOK
<1>3. IsDrawn(shown', shown, Work[1])
  BY <1>1, <1>2, DrawingActs DEF IsDrawn
<1>4. QED
  BY <1>1, <1>3, WorkIsSequence

LEMMA ExecuteKeepsScreen ==
  ASSUME TypeOK, ScreenIsSound, ExecuteCommand
  PROVE  ScreenIsSound'
<1>1. /\ IsAdvanced(Work', Work) /\ IsDrawn(shown', shown, Work[1])
      /\ Work[1] = inFlight[1] /\ \A n \in 1..Len(Work) : Work[n] \in Command
  BY ExecuteAdvances
<1>2. UNCHANGED <<ids, nextWidgetId, filledAreaCount, pending>> /\ inFlight' = << >>
  BY DEF ExecuteCommand, MainUndisturbed, mainVars
<1>3. WorkFindsWidgets' /\ CreationsAreNew' /\ ids' = PromisedWidgets'
  <2>1. FindsIn(shown, Work) /\ AreNewIn(shown, Work, nextWidgetId) /\ ids = PromisedIn(shown, Work)
    BY PartsOfInvariant DEF ScreenIsSound
  <2>2. FindsIn(shown', Work')
    BY <1>1, <2>1, RunKeepsFinding
  <2>3. AreNewIn(shown', Work', nextWidgetId)
    BY <1>1, <2>1, RunKeepsNew
  <2>4. PromisedIn(shown', Work') = PromisedIn(shown, Work)
    BY <1>1, RunKeepsPromise
  <2>5. QED
    BY <1>2, <2>1, <2>2, <2>3, <2>4, PartsOfInvariant
<1>4. filledAreas \in Nat /\ filledAreas' \in Nat
        /\ filledAreas' = IF Work[1].op \in Wipes THEN 0
                          ELSE IF Work[1].op = "fill" THEN filledAreas + 1 ELSE filledAreas
  BY <1>1 DEF ExecuteCommand, DrawOnBackend, TypeOK
<1>5. filledAreaCount' = PromisedFilledAreas'
  <2>1. FilledIn(filledAreas', Work') = FilledIn(filledAreas, Work)
    BY <1>1, <1>4, RunCommandFills
  <2>2. QED
    BY <1>2, <2>1, PromisedIsFilledIn DEF ScreenIsSound
<1>6. WipesAreFirst'
  BY <1>2 DEF ScreenIsSound, WipesAreFirst
<1>7. FilledAreasFit'
  <2>1. filledAreas' <= MaximumFilledAreas
    BY <1>1, <1>4, ScreenAssumption DEF ScreenIsSound, FilledAreasFit, ExecuteCommand, TypeOK
  <2>2. QED
    BY <1>2, <1>4, <2>1 DEF FilledAreasFit
<1>8. QED
  BY <1>3, <1>5, <1>6, <1>7 DEF ScreenIsSound

\* A new render thread begins with an empty screen and no work.
LEMMA InitializeMakesSound ==
  ASSUME TypeOK, ThreadsAgree, InitializeBackend
  PROVE  ScreenIsSound'
<1>1. /\ inFlight' = << >> /\ pending' = << >> /\ shown' = NoWidgets /\ filledAreas' = 0
      /\ ids' = NoWidgets /\ filledAreaCount' = 0
  BY DEF InitializeBackend, MainUndisturbed, mainVars, ThreadsAgree, NothingDrawn
<1>2. Work' = << >> /\ Len(Work') = 0
  BY <1>1 DEF Work
<1>3. NoWidgets \in [Kinds -> SUBSET WidgetIds]
  BY DEF NoWidgets
<1>4. WorkFindsWidgets' /\ ids' = PromisedWidgets'
  BY <1>1, <1>2, <1>3, NoWorkKeepsScreen, PartsOfInvariant
<1>5. CreationsAreNew'
  BY <1>1, <1>2, PartsOfInvariant DEF AreNewIn, NoWidgets
<1>6. filledAreaCount' = PromisedFilledAreas'
  BY <1>1, <1>2, NoWorkKeepsFills, PromisedIsFilledIn
<1>7. WipesAreFirst' /\ FilledAreasFit'
  BY <1>1, ScreenAssumption DEF WipesAreFirst, FilledAreasFit
<1>8. QED
  BY <1>4, <1>5, <1>6, <1>7 DEF ScreenIsSound

\* While it renders, every step keeps the screen sound.
LEMMA StepKeepsScreen ==
  ASSUME TypeOK, ThreadsAgree, Rendering => ScreenIsSound, [Next]_vars, Rendering'
  PROVE  ScreenIsSound'
<1>1. CASE Draw
  <2>1. Rendering
    BY <1>1 DEF Draw, DrawWidget, ChangeWidget, DeleteWidget, FillArea, ChangeBackground, WipeScreen,
                Undisturbed, threadVars, Rendering
  <2>2. QED
    BY <1>1, <2>1, DrawKeepsScreen
<1>2. CASE InitializeBackend
  BY <1>2, InitializeMakesSound
<1>3. CASE TakeCommand
  BY <1>3, TakeKeepsScreen DEF TakeCommand, Rendering
<1>4. CASE ExecuteCommand
  BY <1>4, ExecuteKeepsScreen DEF ExecuteCommand, Rendering
<1>5. CASE \/ Stop \/ StartFails \/ ReleaseDisplayForVideo \/ StartReturns
           \/ EndBatch \/ RefreshDisplay \/ WakeUp \/ UNCHANGED vars
  <2>1. Rendering
    BY <1>5 DEF Stop, StartFails, ReleaseDisplayForVideo, RequestStop, StartReturns, EndBatch, RefreshDisplay,
                WakeUp, vars, threadVars, Rendering
  <2>2. UNCHANGED <<ids, nextWidgetId, filledAreaCount, pending, inFlight, shown, filledAreas>>
    BY <1>5 DEF Stop, StartFails, ReleaseDisplayForVideo, RequestStop, StartReturns, EndBatch, RefreshDisplay,
                WakeUp, MainUndisturbed, vars, mainVars, sharedVars, threadVars, backendVars
  <2>3. Work' = Work
    BY <2>2 DEF Work
  <2>4. WorkFindsWidgets' /\ CreationsAreNew' /\ ids' = PromisedWidgets'
    BY <2>1, <2>2, <2>3, PartsOfInvariant DEF ScreenIsSound
  <2>5. filledAreaCount' = PromisedFilledAreas'
    BY <2>1, <2>2, <2>3, PromisedIsFilledIn DEF ScreenIsSound
  <2>6. WipesAreFirst' /\ FilledAreasFit'
    BY <2>1, <2>2 DEF ScreenIsSound, WipesAreFirst, FilledAreasFit
  <2>7. QED
    BY <2>4, <2>5, <2>6 DEF ScreenIsSound
<1>6. CASE Start \/ VideoEnds \/ JoinRenderThread \/ InitializeFails \/ CommandThrows \/ StoreFailure
           \/ ShutDownBackend
  BY <1>6 DEF Start, VideoEnds, LaunchRenderThread, JoinRenderThread, InitializeFails, CommandThrows,
              StoreFailure, ShutDownBackend, Rendering
<1>7. QED
  BY <1>1, <1>2, <1>3, <1>4, <1>5, <1>6 DEF Next, MainContinues, RenderThread

\* The command being run finds its widget, and a creation finds none.
LEMMA CommandIsAccepted ==
  ASSUME TypeOK, ScreenIsSound, inFlight # << >>
  PROVE  Accepts(inFlight[1])
<1>1. Work[1] = inFlight[1] /\ 1 \in 1..Len(Work) /\ Work[1] \in Command
  <2>1. Len(pending) \in Nat
    BY LenProperties DEF TypeOK
  <2>2. QED
    BY <2>1, WorkIsSequence
<1>2. ASSUME inFlight[1].op \in {"change", "delete"}
      PROVE  inFlight[1].id \in shown[inFlight[1].kind]
  <2>1. ExistsIn(shown, Work, inFlight[1].kind, inFlight[1].id, 1)
    BY <1>1, <1>2, PartsOfInvariant DEF ScreenIsSound, FindsIn
  <2>2. QED
    BY <2>1 DEF ExistsIn
<1>3. ASSUME inFlight[1].op = "create"
      PROVE  inFlight[1].kind = "image" => inFlight[1].id \notin shown["image"]
  BY <1>1, <1>3 DEF ScreenIsSound, CreationsAreNew
<1>4. QED
  BY <1>2, <1>3 DEF Accepts

LEMMA StepKeepsIInv == IInv /\ [Next]_vars => IInv'
<1> SUFFICES ASSUME IInv, [Next]_vars
             PROVE  IInv'
  OBVIOUS
<1>1. TypeOK'
  BY StepKeepsTypes DEF IInv, ScreenIsSound
<1>2. ThreadsAgree'
  BY StepKeepsThreads DEF IInv
<1>3. Rendering' => ScreenIsSound'
  BY StepKeepsScreen DEF IInv
<1>4. (thread = "failing" => Accepts(inFlight[1]))'
  <2>1. CASE CommandThrows
    <3>1. Accepts(inFlight[1]) /\ UNCHANGED <<inFlight, shown>>
      BY <2>1, CommandIsAccepted DEF IInv, CommandThrows, Rendering, backendVars
    <3>2. QED
      BY <3>1 DEF Accepts
  <2>2. CASE ~CommandThrows
    <3>1. ASSUME thread' = "failing"
          PROVE  thread = "failing" /\ UNCHANGED <<inFlight, shown>>
      BY <2>2, <3>1 DEF Next, Draw, DrawWidget, ChangeWidget, DeleteWidget, FillArea, ChangeBackground,
           WipeScreen, Undisturbed, Start, VideoEnds, LaunchRenderThread, Stop, StartFails,
           ReleaseDisplayForVideo, RequestStop, MainContinues, StartReturns, JoinRenderThread, RenderThread,
           InitializeBackend, InitializeFails, TakeCommand, ExecuteCommand, StoreFailure, EndBatch,
           RefreshDisplay, WakeUp, ShutDownBackend, vars, threadVars, backendVars
    <3>2. QED
      BY <3>1 DEF IInv, Accepts
  <2>3. QED
    BY <2>1, <2>2
<1>5. BackendKnowsEveryWidget'
  <2>1. CASE StoreFailure
    BY <2>1 DEF IInv, StoreFailure, BackendKnowsEveryWidget
  <2>2. CASE ~StoreFailure
    <3>1. failure' \in {failure, "none", "backend"}
      BY <2>2 DEF Next, Draw, DrawWidget, ChangeWidget, DeleteWidget, FillArea, ChangeBackground,
           WipeScreen, Undisturbed, Start, VideoEnds, LaunchRenderThread, Stop, StartFails,
           ReleaseDisplayForVideo, RequestStop, MainContinues, StartReturns, JoinRenderThread, RenderThread,
           InitializeBackend, InitializeFails, TakeCommand, ExecuteCommand, CommandThrows, EndBatch,
           RefreshDisplay, WakeUp, ShutDownBackend, vars, sharedVars
    <3>2. QED
      BY <3>1 DEF IInv, BackendKnowsEveryWidget
  <2>3. QED
    BY <2>1, <2>2
<1>6. QED
  BY <1>1, <1>2, <1>3, <1>4, <1>5 DEF IInv

LEMMA InitHasIInv == Init => IInv
<1> SUFFICES ASSUME Init
             PROVE  IInv
  OBVIOUS
<1>1. NoWidgets \in [Kinds -> SUBSET WidgetIds] /\ << >> \in Seq(Command) /\ Len(<< >>) = 0
  BY DEF NoWidgets
<1>2. TypeOK
  <2>1. pending \in Seq(Command) /\ Len(pending) <= MaximumPendingCommands
        /\ inFlight \in Seq(Command) /\ Len(inFlight) <= 1
    BY <1>1, ScreenAssumption DEF Init
  <2>2. nextWidgetId \in 1..(MaximumWidgetId + 1) /\ filledAreaCount \in 0..MaximumFilledAreas
        /\ processed \in 0..MaximumBatch /\ filledAreas \in 0..MaximumFilledAreas
    BY ScreenAssumption DEF Init
  <2>3. /\ caller \in Callers /\ failure \in Failures /\ thread \in Threads
        /\ stopping \in BOOLEAN /\ started \in {"no", "yes", "failed"}
        /\ open \in BOOLEAN /\ background \in BOOLEAN /\ errorShown \in BOOLEAN
    BY DEF Init, Callers, Failures, Threads
  <2>4. ids \in [Kinds -> SUBSET WidgetIds] /\ shown \in [Kinds -> SUBSET WidgetIds]
    BY <1>1 DEF Init
  <2>5. QED
    BY <2>1, <2>2, <2>3, <2>4 DEF TypeOK
<1>3. ThreadsAgree /\ BackendKnowsEveryWidget /\ ~Rendering
  BY DEF Init, ThreadsAgree, NothingDrawn, BackendKnowsEveryWidget, Rendering
<1>4. QED
  BY <1>2, <1>3 DEF IInv, Init

LEMMA InvariantHolds == Spec => []IInv
  BY InitHasIInv, StepKeepsIInv, PTL DEF Spec

-----------------------------------------------------------------------------
(***************************************************************************)
(* What is drawn and not there yet.                                        *)
(***************************************************************************)

\* What erases a widget waits in the queue: its deletion, or a wipe, as the next command.
IsUndone(k, w) ==
  \/ \E i \in 1..Len(pending) : pending[i] = For("delete", k, w)
  \/ pending # << >> /\ Head(pending).op \in Wipes

\* What a command makes appear has an ID, or what erases it is queued behind the command.
LEMMA DrawnIsWanted ==
  ASSUME IInv, ExecuteCommand, NEW k \in Kinds, NEW w \in shown'[k], w \notin shown[k]
  PROVE  w \in ids[k] \/ IsUndone(k, w)
<1>1. TypeOK /\ Rendering /\ inFlight # << >> /\ ids = PromisedIn(shown, Work)
  BY PartsOfInvariant DEF IInv, ExecuteCommand, Rendering, ScreenIsSound
<1>2. Work[1] = For("create", k, w) /\ Work[1] \in Command
  <2>1. IsDrawn(shown', shown, Work[1]) /\ Len(Work) \in Nat \ {0} /\ Work[1] \in Command
    BY <1>1, ExecuteAdvances, ExecuteTakesFirst
  <2>2. QED
    BY <2>1 DEF IsDrawn
<1>3. w \in WidgetIds
  BY <1>2 DEF Command, For, ScreenOps, Wipes
<1>4. /\ Len(Work) = 1 + Len(pending) /\ Len(pending) \in Nat
      /\ \A i \in 1..Len(pending) : Work[i + 1] = pending[i]
  BY <1>1, WorkIsSequence, LenProperties DEF TypeOK
<1>5. CASE \A j \in 2..Len(Work) : ~Erases(Work[j], k, w)
  <2>1. 1 \in 1..((Len(Work) + 1) - 1) /\ 1 + 1 = 2 /\ (Len(Work) + 1) - 1 = Len(Work)
    BY <1>4
  <2>2. ExistsIn(shown, Work, k, w, Len(Work) + 1)
    BY <2>1, <1>2, <1>5 DEF ExistsIn
  <2>3. QED
    BY <2>2, <1>1, <1>3 DEF PromisedIn
<1>6. CASE \E j \in 2..Len(Work) : Erases(Work[j], k, w)
  <2>1. PICK j \in 2..Len(Work) : Erases(Work[j], k, w)
    BY <1>6
  <2>2. j - 1 \in 1..Len(pending) /\ (j - 1) + 1 = j
    BY <1>4
  <2>3. Work[j] = pending[j - 1]
    BY <2>2, <1>4
  <2>4. CASE pending[j - 1] = For("delete", k, w)
    BY <2>2, <2>4 DEF IsUndone
  <2>5. CASE pending[j - 1].op \in Wipes
    <3>1. WipesAreFirst
      BY <1>1 DEF IInv, ScreenIsSound
    <3>2. j - 1 = 1
      BY <2>2, <2>5, <3>1 DEF WipesAreFirst
    <3>3. pending \in Seq(Command) /\ pending # << >>
      BY <1>1, <2>2, <3>2, LenProperties DEF TypeOK
    <3>4. Head(pending) = pending[1]
      BY <3>3
    <3>5. QED
      BY <2>5, <3>2, <3>3, <3>4 DEF IsUndone
  <2>6. QED
    BY <2>1, <2>3, <2>4, <2>5 DEF Erases
<1>7. QED
  BY <1>5, <1>6

\* No other step makes a widget appear.
LEMMA StepDrawsWanted ==
  ASSUME IInv, [Next]_vars, NEW k \in Kinds, NEW w \in shown'[k], w \notin shown[k]
  PROVE  w \in ids[k] \/ IsUndone(k, w)
<1>1. CASE ExecuteCommand
  BY <1>1, DrawnIsWanted
<1>2. CASE ~ExecuteCommand
  <2>1. shown' = shown \/ shown' = NoWidgets
    BY <1>2 DEF Next, Draw, DrawWidget, ChangeWidget, DeleteWidget, FillArea, ChangeBackground,
         WipeScreen, Undisturbed, Start, VideoEnds, LaunchRenderThread, Stop, StartFails,
         ReleaseDisplayForVideo, RequestStop, MainContinues, StartReturns, JoinRenderThread, RenderThread,
         InitializeBackend, InitializeFails, TakeCommand, CommandThrows, StoreFailure, EndBatch,
         RefreshDisplay, WakeUp, ShutDownBackend, vars, backendVars
  <2>2. QED
    BY <2>1 DEF NoWidgets
<1>3. QED
  BY <1>1, <1>2

-----------------------------------------------------------------------------
(***************************************************************************)
(* Steps of the abstract screen.                                           *)
(***************************************************************************)

LEMMA PromisesAreBoolean ==
  /\ PromisedBackground \in BOOLEAN /\ PromisedErrorShown \in BOOLEAN
  /\ PromisedBackground' \in BOOLEAN /\ PromisedErrorShown' \in BOOLEAN
BY DEF PromisedBackground, PromisedErrorShown, Last

\* What an accepted call says about the background it says at once.
LEMMA AcceptedCallDecides ==
  ASSUME TypeOK, NEW command \in Command, command.op \notin Wipes,
         Enqueue(command), UNCHANGED <<inFlight, backendVars>>
  PROVE  /\ PromisedErrorShown' = PromisedErrorShown
         /\ PromisedBackground' = IF command.op \in BackgroundOps THEN command.op = "setBackground"
                                  ELSE PromisedBackground
<1>1. IsExtended(Work', Work, command)
  BY EnqueueAppends, WorkIsSequence, LenProperties DEF IsExtended
<1>2. background' = background /\ errorShown' = errorShown
  BY DEF backendVars
<1>3. PromisedErrorShown' <=> PromisedErrorShown
  <2>1. "error" \in Wipes
    BY DEF Wipes
  <2>2. LastIn(Work', Wipes, "error", errorShown) <=> LastIn(Work, Wipes, "error", errorShown)
    BY <1>1, <2>1, AddedOtherDecidesNothing
  <2>3. QED
    BY <1>2, <2>2, PromisedIsLastIn
<1>4. "setBackground" \in BackgroundOps
  BY DEF BackgroundOps
<1>5. ASSUME command.op \in BackgroundOps
      PROVE  PromisedBackground' <=> command.op = "setBackground"
  <2>1. Len(Work') \in Nat \ {0} /\ Work'[Len(Work')] = command
    BY <1>1 DEF IsExtended
  <2>2. LastIn(Work', BackgroundOps, "setBackground", background') <=> command.op = "setBackground"
    BY <2>1, <1>4, <1>5, LastDecides
  <2>3. QED
    BY <2>2, PromisedIsLastIn
<1>6. ASSUME command.op \notin BackgroundOps
      PROVE  PromisedBackground' <=> PromisedBackground
  <2>1. LastIn(Work', BackgroundOps, "setBackground", background)
          <=> LastIn(Work, BackgroundOps, "setBackground", background)
    BY <1>1, <1>4, <1>6, AddedOtherDecidesNothing
  <2>2. QED
    BY <1>2, <2>1, PromisedIsLastIn
<1>7. QED
  BY <1>3, <1>5, <1>6, PromisesAreBoolean

\* So does a replacement of the whole screen.
LEMMA WipeDecides ==
  ASSUME TypeOK, NEW op \in Wipes, WipeScreen(op)
  PROVE  (PromisedErrorShown' <=> op = "error") /\ ~PromisedBackground'
<1>1. Len(Work') \in Nat \ {0} /\ Work'[Len(Work')] = Screen(op)
  <2>1. Work' = inFlight \o <<Screen(op)>> /\ inFlight \in Seq(Command) /\ <<Screen(op)>> \in Seq(Command)
    BY CommandsAreCommands DEF WipeScreen, Undisturbed, threadVars, Work, TypeOK, ScreenOps
  <2>2. Len(inFlight) \in Nat /\ Len(<<Screen(op)>>) = 1 /\ <<Screen(op)>>[1] = Screen(op)
    BY <2>1, LenProperties
  <2>3. QED
    BY <2>1, <2>2, ConcatProperties
<1>2. Screen(op).op = op
  BY DEF Screen
<1>3. op \in BackgroundOps /\ "setBackground" \in BackgroundOps /\ "error" \in Wipes
      /\ op # "setBackground"
  BY DEF BackgroundOps, Wipes
<1>4. LastIn(Work', BackgroundOps, "setBackground", background') <=> op = "setBackground"
  BY <1>1, <1>2, <1>3, LastDecides
<1>5. LastIn(Work', Wipes, "error", errorShown') <=> op = "error"
  BY <1>1, <1>2, <1>3, LastDecides
<1>6. QED
  BY <1>3, <1>4, <1>5, PromisedIsLastIn

\* Running a command does what was promised and nothing else.
LEMMA ExecuteDecidesNothing ==
  ASSUME TypeOK, ExecuteCommand
  PROVE  PromisedErrorShown' = PromisedErrorShown /\ PromisedBackground' = PromisedBackground
<1>1. /\ IsAdvanced(Work', Work) /\ Work[1] = inFlight[1]
      /\ background \in BOOLEAN /\ errorShown \in BOOLEAN
  BY ExecuteAdvances DEF TypeOK
<1>2. /\ background' = (Work[1].op = "setBackground"
                         \/ (background /\ Work[1].op \notin Wipes \cup {"clearBackground"}))
      /\ errorShown' = (Work[1].op = "error" \/ (errorShown /\ Work[1].op # "clear"))
  BY <1>1 DEF ExecuteCommand, DrawOnBackend
<1>3. background' \in BOOLEAN /\ errorShown' \in BOOLEAN
  BY <1>2
<1>4. background' <=> Work[1].op = "setBackground" \/ (background /\ Work[1].op \notin BackgroundOps)
  BY <1>2 DEF BackgroundOps
<1>5. errorShown' <=> Work[1].op = "error" \/ (errorShown /\ Work[1].op \notin Wipes)
  BY <1>2 DEF Wipes
<1>6. "setBackground" \in BackgroundOps /\ "error" \in Wipes
  BY DEF BackgroundOps, Wipes
<1>7. LastIn(Work', BackgroundOps, "setBackground", background')
        <=> LastIn(Work, BackgroundOps, "setBackground", background)
  BY <1>1, <1>3, <1>4, <1>6, RunCommandDecides
<1>8. LastIn(Work', Wipes, "error", errorShown') <=> LastIn(Work, Wipes, "error", errorShown)
  BY <1>1, <1>3, <1>5, <1>6, RunCommandDecides
<1>9. QED
  BY <1>7, <1>8, PromisedIsLastIn, PromisesAreBoolean

\* A fresh backend with no work shows nothing.
LEMMA InitializeShowsNothing ==
  ASSUME TypeOK, ThreadsAgree, InitializeBackend
  PROVE  ~PromisedErrorShown' /\ ~PromisedBackground'
<1>1. Len(Work') = 0 /\ ~background' /\ ~errorShown'
  <2>1. pending' = << >> /\ inFlight' = << >> /\ ~background' /\ ~errorShown'
    BY DEF InitializeBackend, ThreadsAgree, NothingDrawn, MainUndisturbed
  <2>2. QED
    BY <2>1 DEF Work
<1>2. QED
  BY <1>1, NoWorkDecidesNothing, PromisedIsLastIn

\* The IDs used up are those below the next one.
LEMMA NextIdIsUnused ==
  ASSUME TypeOK
  PROVE  /\ nextWidgetId \notin 1..(nextWidgetId - 1)
         /\ 1..((nextWidgetId + 1) - 1) = (1..(nextWidgetId - 1)) \cup {nextWidgetId}
BY ScreenAssumption DEF TypeOK

\* Only drawing calls use up IDs, one each.
LEMMA IdsAreUsedByDrawing ==
  ASSUME [Next]_vars, nextWidgetId' # nextWidgetId
  PROVE  \E k \in Kinds : DrawWidget(k)
BY DEF Next, Draw, ChangeWidget, DeleteWidget, FillArea, ChangeBackground, WipeScreen,
     ForgetApplication, Start, VideoEnds, LaunchRenderThread, Stop, StartFails,
     ReleaseDisplayForVideo, RequestStop, MainContinues, StartReturns, JoinRenderThread, RenderThread,
     InitializeBackend, InitializeFails, TakeCommand, ExecuteCommand, CommandThrows, StoreFailure,
     EndBatch, RefreshDisplay, WakeUp, ShutDownBackend, MainUndisturbed, vars, mainVars

\* While nothing is rendered, all that can be seen is that IDs are used up.
LEMMA DarkStep ==
  ASSUME IInv, [Next]_vars, ~Rendering, ~Rendering'
  PROVE  [PromisedScreen!Next]_(PromisedScreen!vars)
<1>1. UNCHANGED <<Rendering,
                  IF Rendering THEN PromisedWidgets ELSE NoWidgets,
                  IF Rendering THEN PromisedFilledAreas ELSE 0,
                  Rendering /\ PromisedBackground,
                  Rendering /\ PromisedErrorShown>>
  <2>1. Rendering' = Rendering
    BY DEF Rendering
  <2>2. QED
    BY <2>1 DEF NoWidgets
<1>2. CASE nextWidgetId' = nextWidgetId
  BY <1>1, <1>2 DEF PromisedScreen!vars
<1>3. CASE nextWidgetId' # nextWidgetId
  <2>1. PICK k \in Kinds : DrawWidget(k)
    BY <1>3, IdsAreUsedByDrawing
  <2>2. nextWidgetId \in WidgetIds /\ nextWidgetId' = nextWidgetId + 1
    BY <2>1 DEF DrawWidget
  <2>3. PICK w \in WidgetIds : w = nextWidgetId
    BY <2>2
  <2>4. PromisedScreen!Refuse(w)
    BY <1>1, <2>2, <2>3, NextIdIsUnused DEF IInv, PromisedScreen!Refuse
  <2>5. QED
    BY <2>4 DEF PromisedScreen!Next
<1>4. QED
  BY <1>2, <1>3

\* Rendering starts with an empty screen and ends with one.
LEMMA SwitchStep ==
  ASSUME IInv, [Next]_vars, Rendering # Rendering'
  PROVE  PromisedScreen!Switch
<1>1. nextWidgetId' = nextWidgetId
  <2>1. (\E k \in Kinds : DrawWidget(k)) => Rendering' = Rendering
    BY DEF DrawWidget, Undisturbed, threadVars, Rendering
  <2>2. QED
    BY <2>1, IdsAreUsedByDrawing
<1>2. CASE Rendering /\ ~Rendering'
  <2>1. Rendering' = ~Rendering
    BY <1>2 DEF Rendering
  <2>2. PromisedScreen!Empty /\ (Rendering /\ PromisedErrorShown)' = FALSE
    BY <1>2 DEF PromisedScreen!Empty, NoWidgets
  <2>3. QED
    BY <1>1, <2>1, <2>2 DEF PromisedScreen!Switch
<1>3. CASE ~Rendering /\ Rendering'
  <2>1. InitializeBackend
    BY <1>3 DEF Next, Draw, DrawWidget, ChangeWidget, DeleteWidget, FillArea, ChangeBackground,
         WipeScreen, Undisturbed, Start, VideoEnds, LaunchRenderThread, Stop, StartFails,
         ReleaseDisplayForVideo, RequestStop, MainContinues, StartReturns, JoinRenderThread, RenderThread,
         InitializeFails, TakeCommand, ExecuteCommand, CommandThrows, StoreFailure, EndBatch,
         RefreshDisplay, WakeUp, ShutDownBackend, vars, threadVars, Rendering
  <2>2. ids' = NoWidgets /\ filledAreaCount' = 0
    BY <2>1 DEF IInv, ThreadsAgree, InitializeBackend, MainUndisturbed, mainVars
  <2>3. PromisedWidgets' = NoWidgets /\ PromisedFilledAreas' = 0
    BY <2>1, <2>2, InitializeMakesSound DEF IInv, ScreenIsSound
  <2>4. ~PromisedErrorShown' /\ ~PromisedBackground'
    BY <2>1, InitializeShowsNothing DEF IInv
  <2>5. Rendering' = ~Rendering
    BY <1>3 DEF Rendering
  <2>6. PromisedScreen!Empty /\ (Rendering /\ PromisedErrorShown)' = FALSE
    BY <1>3, <2>3, <2>4 DEF PromisedScreen!Empty, NoWidgets
  <2>7. QED
    BY <1>1, <2>5, <2>6 DEF PromisedScreen!Switch
<1>4. QED
  BY <1>2, <1>3 DEF Rendering

\* While the screen is rendered, the application sees what the main thread keeps of it.
LEMMA LitScreen ==
  ASSUME IInv, [Next]_vars, Rendering, Rendering'
  PROVE  /\ Rendering' = Rendering
         /\ (IF Rendering THEN PromisedWidgets ELSE NoWidgets) = ids
         /\ (IF Rendering THEN PromisedWidgets ELSE NoWidgets)' = ids'
         /\ (IF Rendering THEN PromisedFilledAreas ELSE 0) = filledAreaCount
         /\ (IF Rendering THEN PromisedFilledAreas ELSE 0)' = filledAreaCount'
         /\ (Rendering /\ PromisedBackground) = PromisedBackground
         /\ (Rendering /\ PromisedBackground)' = PromisedBackground'
         /\ (Rendering /\ PromisedErrorShown) = PromisedErrorShown
         /\ (Rendering /\ PromisedErrorShown)' = PromisedErrorShown'
<1>1. /\ PromisedWidgets = ids /\ PromisedWidgets' = ids'
      /\ PromisedFilledAreas = filledAreaCount /\ PromisedFilledAreas' = filledAreaCount'
  BY StepKeepsIInv DEF IInv, ScreenIsSound
<1>2. Rendering' = Rendering
  BY DEF Rendering
<1>3. QED
  BY <1>1, <1>2, PromisesAreBoolean

\* A step that leaves IDs, counts and promises alone cannot be seen.
LEMMA UnseenStep ==
  ASSUME IInv, [Next]_vars, Rendering, Rendering', UNCHANGED mainVars,
         PromisedBackground' = PromisedBackground, PromisedErrorShown' = PromisedErrorShown
  PROVE  UNCHANGED PromisedScreen!vars
BY LitScreen DEF PromisedScreen!vars, mainVars

\* Each call that is accepted is one step of the abstract screen.
LEMMA LitCall ==
  ASSUME IInv, Next, Draw, Rendering, Rendering'
  PROVE  [PromisedScreen!Next]_(PromisedScreen!vars)
<1>0. TypeOK /\ [Next]_vars
  BY DEF IInv
<1>1. ASSUME UNCHANGED <<pending, inFlight, background, errorShown>>
      PROVE  PromisedBackground' = PromisedBackground /\ PromisedErrorShown' = PromisedErrorShown
  BY <1>1 DEF PromisedBackground, PromisedErrorShown, Last, Work
<1>2. ASSUME NEW k \in Kinds, DrawWidget(k)
      PROVE  PromisedScreen!Next
  <2>1. PICK w \in WidgetIds : w = nextWidgetId /\ nextWidgetId' = nextWidgetId + 1
    BY <1>2 DEF DrawWidget
  <2>2. /\ w \notin 1..(nextWidgetId - 1)
        /\ 1..(nextWidgetId' - 1) = (1..(nextWidgetId - 1)) \cup {w}
    BY <1>0, <2>1, NextIdIsUnused
  <2>3. UNCHANGED <<filledAreaCount, inFlight, backendVars>>
    BY <1>2 DEF DrawWidget, Undisturbed, threadVars
  <2>4. CASE Enqueue(For("create", k, nextWidgetId)) /\ ids' = [ids EXCEPT ![k] = @ \cup {nextWidgetId}]
    <3>1. For("create", k, w) \in Command /\ For("create", k, w).op = "create"
          /\ "create" \notin BackgroundOps /\ Enqueue(For("create", k, w))
      BY <2>1, <2>4, CommandsAreCommands DEF For, WidgetOps, BackgroundOps, Wipes
    <3>2. For("create", k, w).op \notin Wipes
      BY <3>1 DEF BackgroundOps
    <3>3. PromisedBackground' = PromisedBackground /\ PromisedErrorShown' = PromisedErrorShown
      BY <1>0, <2>3, <3>1, <3>2, AcceptedCallDecides
    <3>4. PromisedScreen!Draw(k, w)
      BY <1>0, <2>1, <2>2, <2>3, <2>4, <3>3, LitScreen DEF PromisedScreen!Draw
    <3>5. QED
      BY <3>4 DEF PromisedScreen!Next
  <2>5. CASE UNCHANGED <<pending, ids>>
    <3>1. PromisedBackground' = PromisedBackground /\ PromisedErrorShown' = PromisedErrorShown
      BY <1>1, <2>3, <2>5 DEF backendVars
    <3>2. PromisedScreen!Refuse(w)
      BY <1>0, <2>2, <2>3, <2>5, <3>1, LitScreen DEF PromisedScreen!Refuse
    <3>3. QED
      BY <3>2 DEF PromisedScreen!Next
  <2>6. QED
    BY <1>2, <2>4, <2>5 DEF DrawWidget
<1>3. ASSUME NEW k \in Kinds, NEW w \in WidgetIds, ChangeWidget(k, w)
      PROVE  UNCHANGED PromisedScreen!vars
  <2>1. For("change", k, w) \in Command /\ For("change", k, w).op = "change"
        /\ "change" \notin BackgroundOps /\ "change" \notin Wipes
    BY CommandsAreCommands DEF For, WidgetOps, BackgroundOps, Wipes
  <2>2. Enqueue(For("change", k, w)) /\ UNCHANGED <<inFlight, backendVars>> /\ UNCHANGED mainVars
    BY <1>3 DEF ChangeWidget, Undisturbed, threadVars
  <2>3. PromisedBackground' = PromisedBackground /\ PromisedErrorShown' = PromisedErrorShown
    BY <1>0, <2>1, <2>2, AcceptedCallDecides
  <2>4. QED
    BY <1>0, <2>2, <2>3, UnseenStep
<1>4. ASSUME NEW k \in Kinds, NEW w \in WidgetIds, DeleteWidget(k, w)
      PROVE  PromisedScreen!Next
  <2>1. For("delete", k, w) \in Command /\ For("delete", k, w).op = "delete"
        /\ "delete" \notin BackgroundOps /\ "delete" \notin Wipes
    BY CommandsAreCommands DEF For, WidgetOps, BackgroundOps, Wipes
  <2>2. /\ Enqueue(For("delete", k, w)) /\ UNCHANGED <<inFlight, backendVars>>
        /\ w \in ids[k] /\ ids' = [ids EXCEPT ![k] = @ \ {w}]
        /\ UNCHANGED <<nextWidgetId, filledAreaCount>>
    BY <1>4 DEF DeleteWidget, Undisturbed, threadVars
  <2>3. PromisedBackground' = PromisedBackground /\ PromisedErrorShown' = PromisedErrorShown
    BY <1>0, <2>1, <2>2, AcceptedCallDecides
  <2>4. PromisedScreen!Delete(k, w)
    BY <1>0, <2>2, <2>3, LitScreen DEF PromisedScreen!Delete
  <2>5. QED
    BY <2>4 DEF PromisedScreen!Next
<1>5. ASSUME FillArea
      PROVE  PromisedScreen!Next
  <2>1. Screen("fill") \in Command /\ Screen("fill").op = "fill"
        /\ "fill" \notin BackgroundOps /\ "fill" \notin Wipes
    BY CommandsAreCommands DEF Screen, ScreenOps, BackgroundOps, Wipes
  <2>2. /\ Enqueue(Screen("fill")) /\ UNCHANGED <<inFlight, backendVars>>
        /\ filledAreaCount < MaximumFilledAreas /\ filledAreaCount' = filledAreaCount + 1
        /\ UNCHANGED <<ids, nextWidgetId>>
    BY <1>5 DEF FillArea, Undisturbed, threadVars
  <2>3. PromisedBackground' = PromisedBackground /\ PromisedErrorShown' = PromisedErrorShown
    BY <1>0, <2>1, <2>2, AcceptedCallDecides
  <2>4. PromisedScreen!Fill
    BY <1>0, <2>2, <2>3, LitScreen DEF PromisedScreen!Fill
  <2>5. QED
    BY <2>4 DEF PromisedScreen!Next
<1>6. ASSUME NEW op \in {"setBackground", "clearBackground"}, ChangeBackground(op)
      PROVE  [PromisedScreen!Next]_(PromisedScreen!vars)
  <2>1. Screen(op) \in Command /\ Screen(op).op = op /\ op \in BackgroundOps /\ op \notin Wipes
    BY CommandsAreCommands DEF Screen, ScreenOps, BackgroundOps, Wipes
  <2>2. Enqueue(Screen(op)) /\ UNCHANGED <<inFlight, backendVars>> /\ UNCHANGED mainVars
    BY <1>6 DEF ChangeBackground, Undisturbed, threadVars
  <2>3. PromisedErrorShown' = PromisedErrorShown
    BY <1>0, <2>1, <2>2, AcceptedCallDecides
  <2>4. CASE PromisedBackground' = PromisedBackground
    BY <1>0, <2>2, <2>3, <2>4, UnseenStep
  <2>5. CASE PromisedBackground' # PromisedBackground
    <3>1. PromisedBackground' = ~PromisedBackground
      BY <2>5, PromisesAreBoolean
    <3>2. PromisedScreen!ChangeBackground
      BY <1>0, <2>2, <2>3, <3>1, LitScreen DEF PromisedScreen!ChangeBackground, mainVars
    <3>3. QED
      BY <3>2 DEF PromisedScreen!Next
  <2>6. QED
    BY <2>4, <2>5
<1>7. ASSUME NEW op \in Wipes, WipeScreen(op)
      PROVE  PromisedScreen!Next
  <2>1. ids' = NoWidgets /\ filledAreaCount' = 0 /\ nextWidgetId' = nextWidgetId
    BY <1>7 DEF WipeScreen, ForgetApplication
  <2>2. (PromisedErrorShown' <=> op = "error") /\ ~PromisedBackground'
    BY <1>0, <1>7, WipeDecides
  <2>3. PICK isError \in BOOLEAN : isError <=> op = "error"
    OBVIOUS
  <2>4. PromisedErrorShown' = isError /\ PromisedBackground' = FALSE
    BY <2>2, <2>3, PromisesAreBoolean
  <2>5. PromisedScreen!Wipe(isError)
    BY <1>0, <2>1, <2>4, LitScreen DEF PromisedScreen!Wipe, PromisedScreen!Empty, NoWidgets
  <2>6. QED
    BY <2>5 DEF PromisedScreen!Next
<1>8. QED
  BY <1>2, <1>3, <1>4, <1>5, <1>6, <1>7 DEF Draw

\* Every other step while the screen is rendered is unseen.
LEMMA LitStep ==
  ASSUME IInv, [Next]_vars, Rendering, Rendering'
  PROVE  [PromisedScreen!Next]_(PromisedScreen!vars)
<1>1. CASE Draw
  <2>1. Next
    BY <1>1 DEF Next
  <2>2. QED
    BY <1>1, <2>1, LitCall
<1>2. CASE ~Draw
  <2>1. UNCHANGED mainVars
    BY <1>2 DEF Next, Start, VideoEnds, LaunchRenderThread, Stop, StartFails,
         ReleaseDisplayForVideo, RequestStop, MainContinues, StartReturns, JoinRenderThread, RenderThread,
         InitializeBackend, InitializeFails, TakeCommand, ExecuteCommand, CommandThrows, StoreFailure,
         EndBatch, RefreshDisplay, WakeUp, ShutDownBackend, MainUndisturbed, vars, Rendering
  <2>2. \/ ExecuteCommand \/ TakeCommand
        \/ UNCHANGED <<pending, inFlight, background, errorShown>>
    BY <1>2 DEF Next, Start, VideoEnds, LaunchRenderThread, Stop, StartFails, IInv, ThreadsAgree,
         ReleaseDisplayForVideo, RequestStop, MainContinues, StartReturns, JoinRenderThread, RenderThread,
         InitializeBackend, InitializeFails, CommandThrows, StoreFailure, EndBatch, RefreshDisplay,
         WakeUp, ShutDownBackend, vars, sharedVars, threadVars, backendVars, Rendering
  <2>3. PromisedBackground' = PromisedBackground /\ PromisedErrorShown' = PromisedErrorShown
    <3>1. CASE ExecuteCommand
      BY <3>1, ExecuteDecidesNothing DEF IInv
    <3>2. CASE TakeCommand
      <4>1. Work' = Work /\ UNCHANGED <<background, errorShown>>
        BY <3>2, TakeKeepsWork DEF IInv, TakeCommand, backendVars
      <4>2. QED
        BY <4>1 DEF PromisedBackground, PromisedErrorShown, Last
    <3>3. CASE UNCHANGED <<pending, inFlight, background, errorShown>>
      BY <3>3 DEF PromisedBackground, PromisedErrorShown, Last, Work
    <3>4. QED
      BY <2>2, <3>1, <3>2, <3>3
  <2>4. QED
    BY <2>1, <2>3, UnseenStep
<1>3. QED
  BY <1>1, <1>2

-----------------------------------------------------------------------------
(***************************************************************************)
(* Theorems.                                                               *)
(***************************************************************************)

\* Every variable keeps its type and the queue its limit.
THEOREM TypeCorrect == Spec => []TypeOK
<1>1. IInv => TypeOK
  BY DEF IInv
<1>2. QED
  BY <1>1, InvariantHolds, PTL

\* A command the main thread queued never meets a widget that is missing or that there
\* is already, however the render thread lags behind.
THEOREM BackendFindsWidgets == Spec => []BackendKnowsEveryWidget
<1>1. IInv => BackendKnowsEveryWidget
  BY DEF IInv
<1>2. QED
  BY <1>1, InvariantHolds, PTL

\* IDs and counts of the main thread are those of the screen that the accepted work
\* makes, and the backend never holds more filled areas than allowed.
THEOREM IdsMatchScreen == Spec => []IdsMatchPromisedScreen
<1>1. IInv => IdsMatchPromisedScreen
  BY ScreenAssumption DEF IInv, ScreenIsSound, IdsMatchPromisedScreen, TypeOK
<1>2. QED
  BY <1>1, InvariantHolds, PTL

\* During a video there is no render thread, no open framebuffer, no ID and no work.
THEOREM VideoHasTheDisplay == Spec => []VideoOwnsTheDisplay
<1>1. IInv => VideoOwnsTheDisplay
  BY DEF IInv, ThreadsAgree, NothingDrawn, VideoOwnsTheDisplay
<1>2. QED
  BY <1>1, InvariantHolds, PTL

\* A widget whose ID is forgotten already is drawn only if its deletion still waits in the
\* queue, or if the wipe that forgot it is the next command.
THEOREM LateDrawingIsAlwaysUndone == Spec => LateDrawingIsUndone
<1>1. IInv /\ [Next]_vars =>
        [\A k \in Kinds : \A w \in shown'[k] \ shown[k] : w \in ids[k] \/ IsUndone(k, w)]_vars
  BY StepDrawsWanted
<1>2. IInv /\ [Next]_vars =>
        [\A k \in Kinds : \A w \in shown'[k] \ shown[k] :
           \/ w \in ids[k]
           \/ \E i \in 1..Len(pending) : pending[i] = For("delete", k, w)
           \/ pending # << >> /\ Head(pending).op \in Wipes]_vars
  BY <1>1 DEF IsUndone
<1>3. QED
  BY <1>2, InvariantHolds, PTL DEF Spec, LateDrawingIsUndone

\* The queue and the render thread cannot be told from one screen that every accepted
\* call changes at once.
THEOREM ScreenKeepsItsPromise == Spec => ImplementsApplicationScreen
<1>1. Init => PromisedScreen!Init
  <2>1. ASSUME Init
        PROVE  Rendering = FALSE /\ 1..(nextWidgetId - 1) = {}
    BY <2>1 DEF Init, Rendering
  <2>2. QED
    BY <2>1 DEF PromisedScreen!Init, NoWidgets
<1>2. IInv /\ [Next]_vars => [PromisedScreen!Next]_(PromisedScreen!vars)
  <2> SUFFICES ASSUME IInv, [Next]_vars
               PROVE  [PromisedScreen!Next]_(PromisedScreen!vars)
    OBVIOUS
  <2>1. CASE Rendering /\ Rendering'
    BY <2>1, LitStep
  <2>2. CASE ~Rendering /\ ~Rendering'
    BY <2>2, DarkStep
  <2>3. CASE Rendering # Rendering'
    BY <2>3, SwitchStep DEF PromisedScreen!Next
  <2>4. QED
    BY <2>1, <2>2, <2>3 DEF Rendering
<1>3. QED
  BY <1>1, <1>2, InvariantHolds, PTL DEF Spec, ImplementsApplicationScreen, PromisedScreen!Spec
=============================================================================
