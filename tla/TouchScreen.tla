----------------------------- MODULE TouchScreen -----------------------------
(***************************************************************************)
(* The touch screen and the display state monitor under it: what MCE, the  *)
(* mode control entity, says of the display and of the input policy, and   *)
(* the filter for the events of the user's finger.                         *)
(*                                                                         *)
(* Everything MCE sends (signals, answers and method calls) reaches the    *)
(* home screen's main thread in order, in the queue "events"; MCE itself   *)
(* is external.  Nothing under src/ installs the event filter: it is       *)
(* modelled for whoever does.                                              *)
(***************************************************************************)
EXTENDS Naturals, Sequences

CONSTANTS
  MaxMce,    \* bound on the changes MCE makes of its own
  MaxTouches \* bound on the user's touches

VARIABLES
  mceRunning,   \* MCE answers calls
  mceDisplay,   \* the display's state, as MCE has it
  mceInput,     \* MCE lets input through
  mceChanges,   \* changes of MCE so far
  calls,        \* calls on their way to MCE
  events,       \* events of the main thread, oldest first
  currentDisplayState, eatEvents, waitForTouchBegin, inputEnabled,
  touchBlockedState,
  unblockTimer, \* touchUnblockingDelayTimer runs
  finger,       \* "up", "begun", "eaten" (the event eater took the begin of its touch), or
                \* "missed" (its touch began, or went on, while touch was blocked)
  touches       \* touches so far

mceVars == <<mceRunning, mceDisplay, mceInput, mceChanges>>
touchVars == <<currentDisplayState, eatEvents, waitForTouchBegin, inputEnabled,
               touchBlockedState, unblockTimer, finger, touches>>
screenVars == <<mceVars, calls, events, touchVars>>

Event(kind, value) == [kind |-> kind, value |-> value]
Post(kind, value) == events' = Append(events, Event(kind, value))

-----------------------------------------------------------------------------
(* What MCE reports *)

(* handleDisplayStateChange(): eating is for the dimmed display only.      *)
DisplayStateChanged(state) ==
    /\ currentDisplayState' = state
    /\ eatEvents' = (eatEvents /\ (state = currentDisplayState \/ state = "dim"))
    /\ UNCHANGED <<waitForTouchBegin, inputEnabled, touchBlockedState, unblockTimer, finger, touches>>

(* Mutation: a touch that is under way goes on after input was disabled.   *)
InputPolicyMidTouch(enabled) ==
    /\ inputEnabled' = enabled
    /\ unblockTimer' = (enabled /\ (unblockTimer \/ ~inputEnabled))
    /\ touchBlockedState' = (~enabled \/ unblockTimer')
    /\ finger' = IF finger # "up" /\ ~enabled THEN "missed" ELSE finger
    /\ UNCHANGED <<waitForTouchBegin, currentDisplayState, eatEvents, touches>>

(* handleInputPolicyChange(): touch is unblocked 100 ms after the input.   *)
InputPolicyChanged(enabled) ==
    /\ inputEnabled' = enabled
    /\ unblockTimer' = (enabled /\ (unblockTimer \/ ~inputEnabled))
    /\ waitForTouchBegin' = (waitForTouchBegin \/ (inputEnabled /\ ~enabled))
    /\ touchBlockedState' = (~enabled \/ unblockTimer')
    /\ finger' = IF finger # "up" /\ ~enabled THEN "missed" ELSE finger
    /\ UNCHANGED <<currentDisplayState, eatEvents, touches>>

(* timerEvent()                                                            *)
Unblock ==
    /\ unblockTimer
    /\ unblockTimer' = FALSE
    /\ touchBlockedState' = ~inputEnabled
    /\ UNCHANGED <<mceVars, calls, events, currentDisplayState, eatEvents,
                   waitForTouchBegin, inputEnabled, finger, touches>>

SetEnabled(enabled) ==
    /\ eatEvents' = ~enabled
    /\ UNCHANGED <<currentDisplayState, waitForTouchBegin, inputEnabled,
                   touchBlockedState, unblockTimer, finger, touches>>

SetDisplayOff ==
    /\ mceRunning /\ touches < MaxTouches
    /\ touches' = touches + 1
    /\ calls' = Append(calls, "displayOff")
    /\ UNCHANGED <<mceVars, events, currentDisplayState, eatEvents, waitForTouchBegin,
                   inputEnabled, touchBlockedState, unblockTimer, finger>>

-----------------------------------------------------------------------------
(* The event filter *)

(* An event of the user that must not go on: touch is blocked, or it does  *)
(* not begin a touch after input was disabled.                             *)
Filtered(event) == touchBlockedState \/ (waitForTouchBegin /\ event # "begin")

(* The finger touches, moves on, or leaves the screen.  An event that is   *)
(* not filtered may still be eaten, which wakes a dimmed display; the next *)
(* one goes on to a window then, whatever it is.                           *)
TouchEvent(event) ==
    /\ (event = "begin") <=> (finger = "up")
    /\ touches' = IF event = "begin" THEN touches + 1 ELSE touches
    /\ touches' <= MaxTouches
    /\ finger' = CASE event = "end" -> "up"
                   [] event = "move" -> finger
                   [] event = "begin" -> CASE Filtered(event) -> "missed"
                                           [] ~Filtered(event) /\ eatEvents -> "eaten"
                                           [] OTHER -> "begun"
    /\ IF Filtered(event)
       THEN UNCHANGED <<waitForTouchBegin, eatEvents>>
       ELSE waitForTouchBegin' = FALSE /\ eatEvents' = FALSE
    /\ UNCHANGED <<mceVars, calls, events, currentDisplayState, inputEnabled,
                   touchBlockedState, unblockTimer>>

-----------------------------------------------------------------------------
(* MCE *)

MceChange ==
    /\ mceRunning /\ mceChanges < MaxMce
    /\ mceChanges' = mceChanges + 1
    /\ UNCHANGED <<mceRunning, touchVars>>

MceDisplay(state) ==
    /\ MceChange
    /\ state # mceDisplay
    /\ mceDisplay' = state
    /\ Post("display", state)
    /\ UNCHANGED <<mceInput, calls>>

MceInput ==
    /\ MceChange
    /\ mceInput' = ~mceInput
    /\ Post("input", IF mceInput' THEN "enabled" ELSE "disabled")
    /\ UNCHANGED <<mceDisplay, calls>>

MceStarts ==
    /\ ~mceRunning
    /\ mceRunning' = TRUE
    /\ UNCHANGED <<mceDisplay, mceInput, mceChanges, calls, events, touchVars>>

(* Without MCE both queries fail: the input policy is then taken to be     *)
(* enabled, and the state of the display stays unknown.                    *)
Answer(call) ==
    /\ \/ /\ call = "getDisplay"
          /\ IF mceRunning THEN Post("display", mceDisplay) ELSE UNCHANGED events
          /\ UNCHANGED mceDisplay
       \/ /\ call = "getInput"
          /\ Post("input", IF mceInput \/ ~mceRunning THEN "enabled" ELSE "disabled")
          /\ UNCHANGED mceDisplay
       \/ /\ call = "displayOff"
          /\ mceDisplay' = "off"
          /\ IF mceDisplay # "off" THEN Post("display", "off") ELSE UNCHANGED events
    /\ UNCHANGED <<mceRunning, mceInput, mceChanges, touchVars>>

-----------------------------------------------------------------------------

(* The first connection to the monitor's signal makes it ask MCE for the   *)
(* display's state; TouchScreen itself asks for the input policy.          *)
Queries == <<"getDisplay", "getInput">>

TouchInit ==
    /\ mceRunning \in BOOLEAN /\ mceDisplay \in {"off", "on"}
    /\ mceInput \in BOOLEAN /\ (~mceRunning => mceInput)
    /\ mceChanges = 0
    /\ calls = Queries
    /\ events = <<>>
    /\ currentDisplayState = "unknown"
    /\ eatEvents = FALSE /\ waitForTouchBegin = TRUE /\ inputEnabled = TRUE
    /\ touchBlockedState = FALSE /\ unblockTimer = FALSE
    /\ finger = "up" /\ touches = 0
=============================================================================
