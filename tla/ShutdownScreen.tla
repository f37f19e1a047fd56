---------------------------- MODULE ShutdownScreen ----------------------------
(***************************************************************************)
(* The screen shown while the device shuts down or the user is switched.   *)
(* DSME and the user manager, which indicate it over D-Bus, are external;  *)
(* DeviceState hears the user manager only while it follows its service.   *)
(*                                                                         *)
(* Two orders are taken from these services: the device is indicated to    *)
(* shut down before it is to reboot, and a switch fails only after it was  *)
(* announced.  In any other order the code uses a window it has not made.  *)
(***************************************************************************)
EXTENDS Naturals

CONSTANTS
  ShutdownModes, \* modes set over D-Bus, "reboot" or others
  MaxIndications \* bound on what DSME, the user manager and clients indicate

VARIABLES
  userManager, \* the user manager's service: is on the bus
  noticed,     \* and was so when the home screen last heard of it
  shutdownMode,  \* m_shutdownMode; "" is none
  shutdownWindow, \* m_window: "none", "hidden" or "visible"
  shownMode,   \* the mode in the window's context
  hideTimers,  \* single shots started and not fired
  switching,   \* the user manager is switching users
  indications  \* indications so far

managerVars == <<userManager, noticed>>
shutdownVars == <<shutdownMode, shutdownWindow, shownMode, hideTimers>>

-----------------------------------------------------------------------------
(* The window *)

(* Mutation: the mode is set when the window is made, not when shown.      *)
ShowAsCreated(mode) ==
    /\ shutdownWindow' = "visible"
    /\ shownMode' = IF shutdownWindow = "none" THEN mode ELSE shownMode

(* setWindowVisible(true): a window that is visible keeps its mode.        *)
Show(mode) ==
    /\ shutdownWindow' = "visible"
    /\ shownMode' = IF shutdownWindow = "visible" THEN shownMode ELSE mode

(* setWindowVisible(false)                                                 *)
Hide == shutdownWindow' = IF shutdownWindow = "visible" THEN "hidden" ELSE shutdownWindow

-----------------------------------------------------------------------------
(* applySystemState(), for each indication *)

Indicated ==
    /\ indications < MaxIndications
    /\ indications' = indications + 1
    /\ UNCHANGED userManager

Shutdown ==
    /\ Indicated
    /\ Show(shutdownMode)
    /\ UNCHANGED <<shutdownMode, hideTimers, switching, noticed>>

(* A mode that was set before is kept.                                     *)
Reboot ==
    /\ Indicated /\ shutdownWindow # "none"
    /\ shutdownMode = ""
    /\ shutdownMode' = "reboot"
    /\ shownMode' = "reboot"
    /\ UNCHANGED <<shutdownWindow, hideTimers, switching, noticed>>

UserSwitching ==
    /\ Indicated /\ userManager /\ ~switching
    /\ switching' = TRUE
    /\ IF noticed
       THEN shutdownMode' = "userswitch" /\ Show("userswitch")
       ELSE UNCHANGED <<shutdownMode, shutdownWindow, shownMode>>
    /\ UNCHANGED <<hideTimers, noticed>>

UserSwitchingFailed ==
    /\ Indicated /\ userManager /\ switching
    /\ switching' = FALSE
    /\ IF noticed /\ shutdownWindow # "none"
       THEN /\ shutdownMode' = "userswitchFailed" /\ shownMode' = "userswitchFailed"
            /\ hideTimers' = hideTimers + 1
       ELSE UNCHANGED <<shutdownMode, shownMode, hideTimers>>
    /\ UNCHANGED <<shutdownWindow, noticed>>

(* Only a privileged process may set the mode.                             *)
SetShutdownMode(mode, isPrivileged) ==
    /\ Indicated
    /\ isPrivileged
    /\ shutdownMode' = mode
    /\ Show(mode)
    /\ UNCHANGED <<hideTimers, switching, noticed>>

(* Ten seconds after a switch failed.                                      *)
HideTimeout ==
    /\ hideTimers > 0
    /\ hideTimers' = hideTimers - 1
    /\ Hide
    /\ shutdownMode' = ""
    /\ UNCHANGED <<shownMode, managerVars, switching, indications>>

-----------------------------------------------------------------------------
(* The user manager comes and goes; connectUserManager() follows later.    *)

UserManagerChanges ==
    /\ indications < MaxIndications
    /\ indications' = indications + 1
    /\ userManager' = ~userManager
    /\ switching' = FALSE
    /\ UNCHANGED <<noticed, shutdownVars>>

NoticeUserManager ==
    /\ noticed # userManager
    /\ noticed' = userManager
    /\ UNCHANGED <<userManager, shutdownVars, switching, indications>>

Init ==
    /\ userManager \in BOOLEAN /\ noticed = userManager
    /\ shutdownMode = "" /\ shutdownWindow = "none" /\ shownMode = ""
    /\ hideTimers = 0 /\ switching = FALSE /\ indications = 0

Next ==
    \/ Shutdown \/ Reboot \/ UserSwitching \/ UserSwitchingFailed
    \/ \E mode \in ShutdownModes, isPrivileged \in BOOLEAN : SetShutdownMode(mode, isPrivileged)
    \/ HideTimeout \/ UserManagerChanges \/ NoticeUserManager

-----------------------------------------------------------------------------
(* Properties *)

(* A screen that appears shows what it is for, also when the window was    *)
(* made for something else and hidden since.                               *)
AppearsWithMode ==
    shutdownWindow # "visible" /\ shutdownWindow' = "visible" => shownMode' = shutdownMode'

(* After a failed switch of users the user gets the device back.           *)
FailureEnds == shownMode = "userswitchFailed" ~> shutdownWindow = "hidden"
=============================================================================
