------------------------------ MODULE ScreenLock ------------------------------
(***************************************************************************)
(* The screen lock, over the touch screen.  MCE opens and closes it with   *)
(* method calls that must be answered at once, so that their effect is     *)
(* posted to the event queue; the user locks and unlocks in the meantime.  *)
(***************************************************************************)
EXTENDS TouchScreen

CONSTANTS
  Modes,      \* modes in which MCE shows the lock; all have one effect
  MaxRequests \* bound on the requests of the user interface

VARIABLES
  mceLocked,           \* MCE has the touch screen locked
  lockscreenVisible,   \* m_lockscreenVisible
  callback,            \* m_callbackMethod is set
  requests

lockVars == <<mceLocked, lockscreenVisible, callback>>

-----------------------------------------------------------------------------
(* The calls of MCE *)

(* tklock_open(): the effect is posted, behind what is queued already.     *)
TklockOpen(mode) ==
    /\ callback' = TRUE
    /\ events' = Append(Tail(events), Event("slot", IF mode = "oneInput" THEN "showEventEater"
                                                    ELSE "showScreenLock"))
    /\ UNCHANGED <<touchVars, lockscreenVisible>>

(* Mutation: the lock is hidden at once.                                   *)
TklockCloseAtOnce ==
    /\ lockscreenVisible' = FALSE
    /\ events' = Tail(events)
    /\ UNCHANGED <<touchVars, callback>>

TklockClose ==
    /\ events' = Append(Tail(events), Event("slot", "hideScreenLock"))
    /\ UNCHANGED <<touchVars, lockscreenVisible, callback>>

(* showScreenLock(), showLowPowerMode() and setDisplayOffMode() are alike. *)
RunSlot(slot) ==
    /\ \/ slot = "showScreenLock" /\ lockscreenVisible' = TRUE /\ SetEnabled(TRUE)
       \/ slot = "hideScreenLock" /\ lockscreenVisible' = FALSE /\ UNCHANGED touchVars
       \/ slot = "showEventEater" /\ SetEnabled(FALSE) /\ UNCHANGED lockscreenVisible
    /\ events' = Tail(events)
    /\ UNCHANGED <<callback>>

(* A signal of MCE, or its answer: the display or the input policy.        *)
Signal(event) ==
    /\ \/ event.kind = "display" /\ DisplayStateChanged(event.value)
       \/ event.kind = "input" /\ InputPolicyChanged(event.value = "enabled")
    /\ events' = Tail(events)
    /\ UNCHANGED <<lockscreenVisible, callback>>

(* The main thread handles the oldest event.                               *)
HandleEvent ==
    /\ events # <<>>
    /\ LET event == Head(events)
       IN  \/ Signal(event)
           \/ event.kind = "open" /\ TklockOpen(event.value)
           \/ event.kind = "close" /\ TklockClose
           \/ event.kind = "slot" /\ RunSlot(event.value)
    /\ UNCHANGED <<mceVars, calls, mceLocked, requests>>

-----------------------------------------------------------------------------
(* Requests of the user interface *)

Request ==
    /\ requests < MaxRequests
    /\ requests' = requests + 1
    /\ UNCHANGED <<mceVars, events, mceLocked, callback>>

LockScreen ==
    /\ Request /\ mceRunning
    /\ calls' = Append(calls, "lock")
    /\ lockscreenVisible' = TRUE
    /\ SetEnabled(TRUE)

UnlockScreen ==
    /\ Request /\ mceRunning
    /\ lockscreenVisible' = FALSE
    /\ SetEnabled(TRUE)
    /\ calls' = IF callback THEN Append(calls, "unlock") ELSE calls

-----------------------------------------------------------------------------
(* MCE *)

(* The power key, or a time without activity.                              *)
MceLock(mode) ==
    /\ MceChange
    /\ ~mceLocked /\ mceLocked' = TRUE
    /\ Post("open", mode)
    /\ UNCHANGED <<mceDisplay, mceInput, calls>>

MceUnlock ==
    /\ MceChange
    /\ mceLocked /\ mceLocked' = FALSE
    /\ Post("close", "")
    /\ UNCHANGED <<mceDisplay, mceInput, calls>>

(* The next touch of the dimmed screen only brings it back.                *)
MceEater ==
    /\ MceChange
    /\ mceDisplay = "dim" /\ ~mceLocked
    /\ Post("open", "oneInput")
    /\ UNCHANGED <<mceDisplay, mceInput, mceLocked, calls>>

(* MCE handles a call; it sends nothing when the lock is as asked.         *)
MceHandles ==
    /\ calls # <<>>
    /\ calls' = Tail(calls)
    /\ \/ Answer(Head(calls)) /\ UNCHANGED mceLocked
       \/ /\ Head(calls) \in {"lock", "unlock"}
          /\ mceLocked' = (Head(calls) = "lock")
          /\ IF mceLocked' = mceLocked THEN UNCHANGED events
             ELSE IF mceLocked' THEN Post("open", "visual") ELSE Post("close", "")
          /\ UNCHANGED <<mceVars, touchVars>>
    /\ UNCHANGED <<lockscreenVisible, callback, requests>>

-----------------------------------------------------------------------------

Init ==
    /\ TouchInit
    /\ mceLocked = FALSE
    /\ lockscreenVisible = FALSE /\ callback = FALSE
    /\ requests = 0

Next ==
    \/ HandleEvent
    \/ MceHandles
    \/ LockScreen
    \/ UnlockScreen
    \/ (\/ SetDisplayOff \/ Unblock \/ MceInput \/ MceStarts
        \/ \E event \in {"begin", "move", "end"} : TouchEvent(event)
        \/ \E state \in {"off", "dim", "on"} : MceDisplay(state))
       /\ UNCHANGED <<lockVars, requests>>
    \/ (\/ MceUnlock \/ MceEater
        \/ \E mode \in Modes : MceLock(mode))
       /\ UNCHANGED <<lockscreenVisible, callback, requests>>

-----------------------------------------------------------------------------
(* Properties *)

Slots == {"showScreenLock", "hideScreenLock", "showEventEater"}

Events ==
    [kind : {"display"}, value : {"off", "dim", "on"}]
    \cup [kind : {"input"}, value : {"enabled", "disabled"}]
    \cup [kind : {"open"}, value : Modes \cup {"visual", "oneInput"}]
    \cup [kind : {"close"}, value : {""}]
    \cup [kind : {"slot"}, value : Slots]

(* The types of the state of the touch screen and of the screen lock.      *)
TypeOK ==
    /\ mceRunning \in BOOLEAN /\ mceDisplay \in {"off", "dim", "on"} /\ mceInput \in BOOLEAN
    /\ mceChanges \in 0 .. MaxMce /\ touches \in 0 .. MaxTouches /\ requests \in 0 .. MaxRequests
    /\ calls \in Seq({"getDisplay", "getInput", "displayOff", "lock", "unlock"})
    /\ events \in Seq(Events)
    /\ currentDisplayState \in {"unknown", "off", "dim", "on"}
    /\ eatEvents \in BOOLEAN /\ waitForTouchBegin \in BOOLEAN /\ inputEnabled \in BOOLEAN
    /\ touchBlockedState \in BOOLEAN /\ unblockTimer \in BOOLEAN
    /\ finger \in {"up", "missed", "eaten", "begun"}
    /\ mceLocked \in BOOLEAN /\ lockscreenVisible \in BOOLEAN /\ callback \in BOOLEAN

Quiet == events = <<>> /\ calls = <<>>

(* When nothing is under way, the lock screen is up exactly when MCE has   *)
(* locked the screen: whatever the user and MCE asked for at one time, and *)
(* however the posted effects of tklock_open and tklock_close interleave.  *)
LockAgrees == Quiet => lockscreenVisible = mceLocked

(* When nothing is under way, the touch screen has MCE's input policy and  *)
(* display state, though both were asked for while they could change.      *)
TouchAgrees ==
    Quiet => /\ inputEnabled = mceInput
             /\ currentDisplayState \in {mceDisplay, "unknown"}

(* The rest of a touch that began, or went on, while touch was blocked is  *)
(* not let through, also when input is enabled again before it ends.       *)
NoStrayTouch == finger = "missed" => Filtered("move") /\ Filtered("end")

(* Touch comes back once MCE lets input through for long enough.           *)
EventuallyUnblocked == mceInput ~> (~mceInput \/ ~touchBlockedState)
=============================================================================
