--------------------------- MODULE USBModeSelector ---------------------------
(***************************************************************************)
(* The selector of USB modes: the dialog that asks for a mode, and the     *)
(* mode that is being prepared.  usb_moded, which chooses modes and sends  *)
(* events, is external; its client library stores a mode and emits its     *)
(* change in one step of the main thread.                                  *)
(***************************************************************************)
EXTENDS Naturals

CONSTANTS
  FinalModes,   \* modes that are ready for use
  PlainModes,   \* those without data: charging, a charger, or "undefined"
  MaxUsb        \* bound on changes and events

VARIABLES
  usbMode,       \* currentMode() of QUsbModed
  targetMode,    \* targetMode() of QUsbModed
  lockedDevice,  \* the device lock is locked
  dialog,        \* m_windowVisible
  preparing,     \* m_preparingMode; "" is none
  notified,      \* the last mode notified
  started,       \* the first look at the state, 500 ms after the start, is done
  requestStands, \* history: a request came that neither a look at the mode nor
                 \* the end of the dialog has dealt with
  usbChanges

Waiting == {"ask", "busy", "charging_fallback"}
Modes == FinalModes \cup Waiting

-----------------------------------------------------------------------------

(* Mutation: preparing ends only with the next mode that needs it.         *)
PreparingKept(mode, target) ==
    IF mode = "busy" /\ target \in FinalModes \ PlainModes THEN target ELSE preparing

(* updateModePreparing(), with modeRequiresInitialisation()                *)
Preparing(mode, target) ==
    IF mode = "busy" /\ target \in FinalModes \ PlainModes THEN target ELSE ""

(* handleUSBState(): a final mode closes the dialog and is notified.       *)
HandleState(mode) ==
    /\ dialog' = CASE mode = "ask" -> TRUE
                   [] mode \in FinalModes -> FALSE
                   [] OTHER -> dialog
    /\ notified' = IF mode \in FinalModes \ PlainModes THEN mode ELSE notified

UsbChange == usbChanges < MaxUsb /\ usbChanges' = usbChanges + 1

CurrentModeChanged(mode) ==
    /\ UsbChange
    /\ mode # usbMode /\ usbMode' = mode
    /\ preparing' = Preparing(mode, targetMode)
    /\ HandleState(mode) /\ requestStands' = FALSE
    /\ UNCHANGED <<targetMode, lockedDevice, started>>

TargetModeChanged(mode) ==
    /\ UsbChange
    /\ mode # targetMode /\ targetMode' = mode
    /\ preparing' = Preparing(usbMode, mode)
    /\ UNCHANGED <<usbMode, lockedDevice, dialog, notified, started, requestStands>>

(* The constructor's single shot                                           *)
FirstLook ==
    /\ ~started /\ started' = TRUE
    /\ preparing' = Preparing(usbMode, targetMode)
    /\ HandleState(usbMode) /\ requestStands' = FALSE
    /\ UNCHANGED <<usbMode, targetMode, lockedDevice, usbChanges>>

(* handleUSBEvent(), whatever the mode is by the time the event is seen    *)
HandleEvent(event) ==
    /\ UsbChange
    /\ \/ /\ event = "connected" /\ lockedDevice
          /\ notified' = "locked" /\ UNCHANGED <<dialog, requestStands>>
       \/ /\ event = "mode_requested"
          /\ dialog' = TRUE /\ requestStands' = TRUE /\ UNCHANGED notified
       \/ /\ event = "charger_connected"
          /\ dialog' = FALSE /\ requestStands' = FALSE /\ UNCHANGED notified
    /\ UNCHANGED <<usbMode, targetMode, lockedDevice, preparing, started>>

(* The user interface closes the dialog.                                   *)
CloseDialog ==
    /\ dialog /\ dialog' = FALSE /\ requestStands' = FALSE
    /\ UNCHANGED <<usbMode, targetMode, lockedDevice, preparing, notified, started, usbChanges>>

Init ==
    /\ usbMode \in Modes /\ targetMode \in FinalModes
    /\ lockedDevice \in BOOLEAN
    /\ dialog = FALSE /\ preparing = "" /\ notified = "none"
    /\ started = FALSE /\ requestStands = FALSE /\ usbChanges = 0

Next ==
    \/ \E mode \in Modes : CurrentModeChanged(mode)
    \/ \E mode \in FinalModes : TargetModeChanged(mode)
    \/ \E event \in {"connected", "mode_requested", "charger_connected"} : HandleEvent(event)
    \/ FirstLook
    \/ CloseDialog

-----------------------------------------------------------------------------
(* Properties *)

(* After the first look, a mode is shown as being prepared exactly while   *)
(* usb_moded is busy with it, whichever of the two it reports first.       *)
PreparingShown ==
    started => preparing = IF usbMode = "busy" /\ targetMode \notin PlainModes THEN targetMode ELSE ""

(* The dialog does not outlive the question: a mode that is ready has it   *)
(* exactly while a request stands that came after that mode.               *)
DialogEnds == usbMode \in FinalModes => (dialog <=> requestStands)
=============================================================================
