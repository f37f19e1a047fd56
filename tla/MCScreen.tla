------------------------------- MODULE MCScreen -------------------------------
(* The parts of the home screen around its display, each in behaviours of  *)
(* its own: the screen lock with the touch screen, what it tells of the    *)
(* interaction expected, the shutdown screen, the start of the home screen *)
(* and the USB mode selector.                                              *)
EXTENDS Naturals, Sequences

CONSTANTS LockModes, MaxMce, MaxTouches, MaxRequests, MaxValues,
          ShutdownModes, MaxIndications, MaxStartup,
          FinalModes, PlainModes, MaxUsb

VARIABLES mceRunning, mceDisplay, mceInput, mceChanges, calls, events,
          currentDisplayState, eatEvents, waitForTouchBegin, inputEnabled,
          touchBlockedState, unblockTimer, finger, touches,
          mceLocked, lockscreenVisible, callback, requests,
          expected, told, idleTimer, values,
          userManager, noticed, shutdownMode, shutdownWindow, shownMode,
          hideTimers, switching, indications,
          compositorPath, compositor, qmlPath, mainWindow, surfaceId, scene,
          sceneIn, connections, homeReadySent, readySignals, startup,
          usbMode, targetMode, lockedDevice, dialog, preparing, notified,
          started, requestStands, usbChanges,
          part

lockVars == <<mceRunning, mceDisplay, mceInput, mceChanges, calls, events,
              currentDisplayState, eatEvents, waitForTouchBegin, inputEnabled,
              touchBlockedState, unblockTimer, finger, touches,
              mceLocked, lockscreenVisible, callback, requests>>
expectedVars == <<expected, told, idleTimer, values>>
shutdownVars == <<userManager, noticed, shutdownMode, shutdownWindow, shownMode,
                  hideTimers, switching, indications>>
homeVars == <<compositorPath, compositor, qmlPath, mainWindow, surfaceId, scene,
              sceneIn, connections, homeReadySent, readySignals, startup>>
usbVars == <<usbMode, targetMode, lockedDevice, dialog, preparing, notified,
             started, requestStands, usbChanges>>
vars == <<lockVars, expectedVars, shutdownVars, homeVars, usbVars, part>>

Lock == INSTANCE ScreenLock WITH Modes <- LockModes
Expected == INSTANCE InteractionExpected
Screen == INSTANCE ShutdownScreen
Home == INSTANCE HomeApplication
Usb == INSTANCE USBModeSelector

ASSUME ScreenAssumption ==
    /\ {MaxMce, MaxTouches, MaxRequests, MaxValues, MaxIndications, MaxStartup, MaxUsb} \subseteq Nat
    /\ "oneInput" \notin LockModes
    /\ PlainModes \subseteq FinalModes /\ FinalModes \cap Usb!Waiting = {}

Init ==
    /\ part \in {"lock", "expected", "shutdown", "home", "usb"}
    /\ Lock!Init /\ Expected!Init /\ Screen!Init /\ Home!Init /\ Usb!Init
    /\ part # "lock" => mceRunning /\ mceDisplay = "on" /\ mceInput
    /\ part # "shutdown" => userManager
    /\ part # "usb" => usbMode = "undefined" /\ targetMode = "undefined" /\ ~lockedDevice

Next ==
    /\ UNCHANGED part
    /\ \/ /\ part = "lock" /\ Lock!Next
          /\ UNCHANGED <<expectedVars, shutdownVars, homeVars, usbVars>>
       \/ /\ part = "expected" /\ Expected!Next
          /\ UNCHANGED <<lockVars, shutdownVars, homeVars, usbVars>>
       \/ /\ part = "shutdown" /\ Screen!Next
          /\ UNCHANGED <<lockVars, expectedVars, homeVars, usbVars>>
       \/ /\ part = "home" /\ Home!Next
          /\ UNCHANGED <<lockVars, expectedVars, shutdownVars, usbVars>>
       \/ /\ part = "usb" /\ Usb!Next
          /\ UNCHANGED <<lockVars, expectedVars, shutdownVars, homeVars>>

(* The main thread handles its events, timers fire, and the window shown   *)
(* renders frames.                                                         *)
Fairness ==
    /\ WF_lockVars(Lock!HandleEvent)
    /\ WF_unblockTimer(unblockTimer /\ unblockTimer' = FALSE)
    /\ WF_hideTimers(hideTimers > 0 /\ hideTimers' = hideTimers - 1)
    /\ WF_homeVars(Home!FrameSwapped)

Spec == Init /\ [][Next]_vars /\ Fairness

-----------------------------------------------------------------------------

(* With nothing under way the lock is shown exactly when MCE is locked; and *)
(* the idle timer runs exactly while a value is due that MCE was not told. *)
LockAgrees == Lock!TypeOK /\ Lock!LockAgrees /\ Expected!ToldWhatIsExpected

(* The touch screen agrees with MCE once nothing is under way; the rest of *)
(* a touch that went on while touch was blocked is not let through; and    *)
(* touch comes back once MCE lets input through for long enough.           *)
TouchFollows == [](Lock!TouchAgrees /\ Lock!NoStrayTouch) /\ Lock!EventuallyUnblocked

(* A shutdown screen that appears shows what it is for, and after a failed *)
(* switch of users the user gets the device back.                          *)
ShutdownShown == [][Screen!AppearsWithMode]_shutdownVars /\ Screen!FailureEnds

(* Home is announced once it has been shown, and once only; and a visible  *)
(* window shows the scene loaded last.                                     *)
HomeAnnounced == [](Home!ReadyOnce /\ Home!SceneShown) /\ Home!ReadyInTheEnd

(* A mode is shown as being prepared exactly while usb_moded is busy, and  *)
(* a mode that is ready has the dialog only for a request that came later. *)
ModeShown == Usb!PreparingShown /\ Usb!DialogEnds
=============================================================================
