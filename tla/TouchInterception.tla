--------------------------- MODULE TouchInterception ---------------------------
(***************************************************************************)
(* Touches of clients' windows.  From the begin of its touch a window      *)
(* filters the events of the compositor's window: the moves of all fingers *)
(* go to the client of the window that was last to install its filter,     *)
(* presses and releases go through Qt, to the window that each finger was  *)
(* put on.  A window that is hidden or disabled in the middle of a touch   *)
(* cancels it at the client, if the touch was the last that was handled.   *)
(***************************************************************************)
EXTENDS Naturals

CONSTANTS
  TouchWindows,  \* the windows of clients, each of a client of its own
  Fingers,       \* the fingers
  MaxTouch       \* bound on the changes of windows

VARIABLES
  touchable,     \* windows that are visible and enabled
  surfaced,      \* windows that have a surface
  filters,       \* windows installed as event filters of the compositor's window
  later,         \* pairs of them, the first one of which was installed later
  intercepting,  \* windows with m_interceptingTouch
  mouseFocus,    \* the seat's mouse focus, which a touch sets
  grabber,       \* fingers on the screen -> the window that Qt gives them to
  seen,          \* windows and fingers whose client has seen the finger go down and not up
  touchChanges,
  (* Histories that nothing depends on. *)
  stray,         \* a client was told of a finger that it had not seen go down
  mixed,         \* a finger was put on another place than one that was down
  left           \* windows and fingers that Qt took away from the window when mixed

touchVars == <<touchable, surfaced, filters, later, intercepting, mouseFocus, grabber,
               seen, touchChanges, stray, mixed, left>>

None == 0

Given == {<<grabber[f], f>> : f \in DOMAIN grabber}
GivenTo(w) == {f \in DOMAIN grabber : grabber[f] = w}

(* The windows with a client that may be given a part of an event by Qt.   *)
Receivers == {grabber[f] : f \in DOMAIN grabber} \cap surfaced

(* The filter that is asked first is the one that was installed last.      *)
InstallFilter(w) ==
    /\ filters' = filters \cup {w}
    /\ later' = {p \in later : w \notin {p[1], p[2]}} \cup {w} \X (filters \ {w})

RemoveFilters(windows) ==
    /\ filters' = filters \ windows
    /\ later' = {p \in later : p[1] \notin windows /\ p[2] \notin windows}

Foremost(w) ==
    /\ w \in filters \cap intercepting
    /\ \A v \in (filters \cap intercepting) \ {w} : <<w, v>> \in later

-----------------------------------------------------------------------------

(* Mutation: an interception that is cancelled leaves its filter.          *)
HandleTouchCancelKeepsFilter(w) ==
    /\ IF w \in surfaced /\ mouseFocus = w /\ w \notin touchable'
       THEN mouseFocus' = None /\ seen' = {s \in seen : s[1] # w}
       ELSE UNCHANGED <<mouseFocus, seen>>
    /\ UNCHANGED <<filters, later, intercepting>>

(* handleTouchCancel(), whenever the window is shown, hidden, enabled or   *)
(* disabled.                                                               *)
HandleTouchCancel(w) ==
    IF w \notin surfaced THEN UNCHANGED <<mouseFocus, seen, filters, later, intercepting>>
    ELSE /\ IF mouseFocus = w /\ w \notin touchable'
            THEN mouseFocus' = None /\ seen' = {s \in seen : s[1] # w}
            ELSE UNCHANGED <<mouseFocus, seen>>
         /\ RemoveFilters({w})
         /\ intercepting' = intercepting \ {w}

(* A finger goes down, on a client's window or elsewhere.  touchEvent() of *)
(* the window: where it is not to be touched Qt gives the finger to nobody *)
(* else.  The begin of a touch, the first finger on the window, installs   *)
(* the filter.  Windows with other fingers may be told of these again.     *)
Press(f, w, inRegion) ==
    /\ touchChanges < MaxTouch
    /\ f \notin DOMAIN grabber
    /\ LET accepted == w \in touchable \cap surfaced /\ inRegion
           place == IF accepted THEN w ELSE None
       IN  /\ grabber' = [g \in DOMAIN grabber \cup {f} |-> IF g = f THEN place ELSE grabber[g]]
           /\ IF accepted
              THEN mouseFocus' \in Receivers \cup {w} /\ seen' = seen \cup {<<w, f>>}
              ELSE mouseFocus' \in Receivers \cup {mouseFocus} /\ UNCHANGED seen
           /\ IF accepted /\ GivenTo(w) = {} /\ w \notin intercepting
              THEN InstallFilter(w) /\ intercepting' = intercepting \cup {w}
              ELSE UNCHANGED <<filters, later, intercepting>>
           /\ mixed' = IF DOMAIN grabber = {} THEN FALSE
                       ELSE mixed \/ GivenTo(place) # DOMAIN grabber
           /\ stray' = (stray /\ DOMAIN grabber # {})
    /\ UNCHANGED <<touchable, surfaced, touchChanges, left>>

(* Fingers are lifted.  eventFilter() lets this through to Qt, which tells *)
(* each window of its own; the last of a touch takes all filters away.     *)
TouchEnd ==
    /\ RemoveFilters(intercepting)
    /\ intercepting' = intercepting \ filters

Release(lifted) ==
    /\ lifted # {} /\ lifted \subseteq DOMAIN grabber
    /\ grabber' = [f \in DOMAIN grabber \ lifted |-> grabber[f]]
    /\ LET told == {grabber[f] : f \in lifted} \cap surfaced
       IN  /\ mouseFocus' \in Receivers \cup (IF told = {} THEN {mouseFocus} ELSE {})
           /\ seen' = {s \in seen : ~(s[1] \in told /\ s[2] \in lifted /\ s \in Given)}
           /\ stray' = (stray \/ \E f \in lifted : grabber[f] \in told /\ <<grabber[f], f>> \notin seen)
    /\ IF lifted = DOMAIN grabber THEN TouchEnd ELSE UNCHANGED <<filters, later, intercepting>>
    /\ UNCHANGED <<touchable, surfaced, touchChanges, mixed, left>>

(* handleTouchEvent(): a client is told that these fingers moved.          *)
HandleTouchEvent(w, moved) ==
    IF w \notin surfaced THEN UNCHANGED <<mouseFocus, stray>>
    ELSE /\ mouseFocus' = w
         /\ stray' = (stray \/ \E f \in moved : <<w, f>> \notin seen)

(* Fingers move: the first filter takes the event, with all the fingers    *)
(* there are, or Qt delivers it.                                           *)
Move ==
    /\ DOMAIN grabber # {}
    /\ IF filters \cap intercepting # {}
       THEN \E w \in filters : Foremost(w) /\ HandleTouchEvent(w, DOMAIN grabber)
       ELSE IF Receivers = {} THEN UNCHANGED <<mouseFocus, stray>>
       ELSE \E w \in Receivers : HandleTouchEvent(w, GivenTo(w))
    /\ UNCHANGED <<touchable, surfaced, filters, later, intercepting, grabber, seen, touchChanges,
                   mixed, left>>

(* Qt cancels the touch: filters go, and each window with a finger is      *)
(* told, which cancels what its client has seen.                           *)
Cancel ==
    /\ DOMAIN grabber # {}
    /\ grabber' = [f \in {} |-> None]
    /\ mouseFocus' \in IF Receivers = {} THEN {mouseFocus} ELSE Receivers
    /\ seen' = {s \in seen : s[1] \notin Receivers}
    /\ TouchEnd
    /\ UNCHANGED <<touchable, surfaced, touchChanges, stray, mixed, left>>

-----------------------------------------------------------------------------

(* Qt takes the fingers from a window.                                     *)
Ungrab(w) ==
    /\ grabber' = [f \in DOMAIN grabber |-> IF grabber[f] = w THEN None ELSE grabber[f]]
    /\ left' = IF mixed THEN left \cup {w} \X GivenTo(w) ELSE left

(* A window is hidden or shown, enabled or disabled.                       *)
TouchableChanged(w) ==
    /\ touchChanges < MaxTouch /\ touchChanges' = touchChanges + 1
    /\ touchable' = IF w \in touchable THEN touchable \ {w} ELSE touchable \cup {w}
    /\ IF w \in touchable THEN Ungrab(w) ELSE UNCHANGED <<grabber, left>>
    /\ HandleTouchCancel(w)
    /\ UNCHANGED <<surfaced, stray, mixed>>

(* The client goes: it will not see an end, nor miss one.                  *)
TouchSurfaceDestroyed(w) ==
    /\ touchChanges < MaxTouch /\ touchChanges' = touchChanges + 1
    /\ w \in surfaced /\ surfaced' = surfaced \ {w}
    /\ seen' = {s \in seen : s[1] # w}
    /\ mouseFocus' = IF mouseFocus = w THEN None ELSE mouseFocus
    /\ UNCHANGED <<touchable, filters, later, intercepting, grabber, stray, mixed, left>>

(* The window of a client that is gone is deleted.                         *)
TouchWindowDestroyed(w) ==
    /\ w \in (touchable \cup filters) \ surfaced
    /\ touchable' = touchable \ {w}
    /\ RemoveFilters({w}) /\ intercepting' = intercepting \ {w}
    /\ Ungrab(w)
    /\ UNCHANGED <<surfaced, mouseFocus, seen, touchChanges, stray, mixed>>

-----------------------------------------------------------------------------

Init ==
    /\ touchable = TouchWindows /\ surfaced = TouchWindows
    /\ filters = {} /\ later = {} /\ intercepting = {} /\ seen = {} /\ left = {}
    /\ mouseFocus = None /\ grabber = [f \in {} |-> None]
    /\ stray = FALSE /\ mixed = FALSE /\ touchChanges = 0

Next ==
    \/ \E f \in Fingers, w \in TouchWindows, inRegion \in BOOLEAN : Press(f, w, inRegion)
    \/ \E lifted \in SUBSET Fingers : Release(lifted)
    \/ Move \/ Cancel
    \/ \E w \in TouchWindows :
          TouchableChanged(w) \/ TouchSurfaceDestroyed(w) \/ TouchWindowDestroyed(w)

-----------------------------------------------------------------------------
(* Properties *)

(* An interception ends with the touch it began with, even if its finger   *)
(* was lifted before the others, or the window was hidden or lost its      *)
(* surface in the meantime.                                                *)
InterceptionEnds == DOMAIN grabber = {} => filters = {} /\ intercepting = {}

(* Every finger that a client saw go down goes up, or is cancelled, unless *)
(* its window was hidden or disabled while fingers were on other places;   *)
(* every finger that will be lifted from its window is one it saw; and     *)
(* unless fingers were put on different places it is told of no other.     *)
TouchesWhole ==
    /\ seen \subseteq Given \cup left
    /\ \A f \in DOMAIN grabber : grabber[f] \in surfaced => <<grabber[f], f>> \in seen
    /\ stray => mixed
=============================================================================
