--------------------------- MODULE ApplicationScreen ---------------------------
(***************************************************************************)
(* What the screen manager promises to the application that draws: one     *)
(* screen that every accepted call changes at once, and that every refused *)
(* call leaves alone.  There is no queue and no second thread here; the    *)
(* screen can only be lost as a whole, with everything on it.              *)
(***************************************************************************)
EXTENDS Naturals

CONSTANTS
  Kinds,              \* kinds of widgets
  WidgetIds,          \* the IDs a widget can get
  MaximumFilledAreas  \* filled areas a screen can hold

VARIABLES
  lit,          \* the screen is being rendered
  widgets,      \* widgets of each kind on the screen
  filledAreas,  \* number of filled areas on it
  background,   \* it has a background image
  errorShown,   \* the emergency screen covers it
  used          \* IDs given out since the process started

vars == <<lit, widgets, filledAreas, background, errorShown, used>>

Empty == /\ widgets' = [k \in Kinds |-> {}]
         /\ filledAreas' = 0
         /\ background' = FALSE

Init == /\ lit = FALSE
        /\ widgets = [k \in Kinds |-> {}]
        /\ filledAreas = 0
        /\ background = FALSE
        /\ errorShown = FALSE
        /\ used = {}

\* A new widget gets an ID no widget had before.
Draw(k, w) == /\ lit /\ w \notin used
              /\ widgets' = [widgets EXCEPT ![k] = @ \cup {w}]
              /\ used' = used \cup {w}
              /\ UNCHANGED <<lit, filledAreas, background, errorShown>>

\* A refused drawing call may use up its ID.
Refuse(w) == /\ w \notin used
             /\ used' = used \cup {w}
             /\ UNCHANGED <<lit, widgets, filledAreas, background, errorShown>>

Delete(k, w) == /\ lit /\ w \in widgets[k]
                /\ widgets' = [widgets EXCEPT ![k] = @ \ {w}]
                /\ UNCHANGED <<lit, filledAreas, background, errorShown, used>>

Fill == /\ lit /\ filledAreas < MaximumFilledAreas
        /\ filledAreas' = filledAreas + 1
        /\ UNCHANGED <<lit, widgets, background, errorShown, used>>

ChangeBackground == /\ lit
                    /\ background' = ~background
                    /\ UNCHANGED <<lit, widgets, filledAreas, errorShown, used>>

\* clear() and showErrorScreen().
Wipe(isError) == /\ lit
                 /\ Empty /\ errorShown' = isError
                 /\ UNCHANGED <<lit, used>>

\* The renderer stops, fails, or starts again: nothing survives.
Switch == /\ lit' = ~lit
          /\ Empty /\ errorShown' = FALSE
          /\ UNCHANGED used

Next == \/ \E k \in Kinds, w \in WidgetIds : Draw(k, w) \/ Delete(k, w)
        \/ \E w \in WidgetIds : Refuse(w)
        \/ Fill \/ ChangeBackground \/ Switch
        \/ \E isError \in BOOLEAN : Wipe(isError)

Spec == Init /\ [][Next]_vars
=============================================================================
