---------------------------- MODULE BatteryNotifier ----------------------------
(***************************************************************************)
(* The notifications about charging, the battery and power save mode.      *)
(* What MCE and usb-moded report is collected for 100 ms and then          *)
(* compared, as a whole, with what was collected before.                   *)
(*                                                                         *)
(* Of the previous state only the conditions that held in it are kept.     *)
(* Display, lock and calls are one field: the device is in active use.     *)
(***************************************************************************)
EXTENDS Integers

CONSTANTS
  MaxLevel,          \* the highest battery level
  MaxReports         \* bound on the changes reported

VARIABLES
  current,           \* m_currentState
  previous,          \* the types whose condition holds in m_previousState
  evaluation,        \* m_evaluateStateTimer is active
  failureTimer,      \* m_chargingFailureTimer is active
  repeating,         \* m_lowBatteryRepeatActivity is waiting (otherwise stopped)
  repeatLevel,       \* m_lowBatteryRepeatLevel
  batteryShown,      \* the types of m_notifications: sending purges its type first
  reports            \* changes reported so far

batteryVars == <<current, previous, evaluation, failureTimer, repeating, repeatLevel,
                 batteryShown, reports>>

Types == {"Charging", "ChargingComplete", "RemoveCharger", "ChargingNotStarted",
          "RechargeBattery", "EnteringPSM", "ExitingPSM", "LowBattery", "NotEnoughPower"}

Suppressed(s) == s.usbMode # "builtin"

Holding(s) ==
  {t \in Types :
     \/ t = "Charging" /\ s.charging /\ s.status # "full" /\ ~s.suppressCharging
     \/ t = "ChargingComplete" /\ s.status = "full" /\ ~s.suppressCharging
     \/ t = "RechargeBattery" /\ s.status = "empty"
     \/ t = "LowBattery" /\ s.status = "low"
     \/ t = "RemoveCharger" /\ s.charger = "wall"
     \/ t = "ChargingNotStarted" /\ s.charger # "none" /\ ~s.charging
     \/ t = "EnteringPSM" /\ s.powerSave
     \/ t = "ExitingPSM" /\ ~s.powerSave
     \/ t = "NotEnoughPower" /\ s.level >= 0 /\ s.level < s.minimum}

TriggeringEdge(t) == t # "RemoveCharger"

(* The level below which a battery that is charged should not fall, and    *)
(* whether usb mode selection notifies of the charger instead.             *)
UpdateDerivedProperties(s) ==
  [s EXCEPT !.minimum = IF ~s.charging \/ s.status = "full" \/ s.disabled \/ s.level > s.minimum
                        THEN s.level - 1 ELSE s.minimum,
            !.suppressCharging = Suppressed(s)]

-----------------------------------------------------------------------------
(* Mutation: a change of the battery's status alone is not evaluated. *)
ScheduleUnlessStatus(s) == evaluation' = (evaluation \/ s.status = current.status)

ScheduleStateEvaluation(s) == evaluation' = TRUE

(* A change of one of the values that MCE and usb-moded report. *)
Reported(s) ==
  /\ reports < MaxReports /\ reports' = reports + 1
  /\ s # current
  /\ current' = s
  /\ ScheduleStateEvaluation(s)
  /\ UNCHANGED <<previous, failureTimer, repeating, repeatLevel, batteryShown>>

Report ==
  \/ \E v \in {"none", "wall", "usb"} : Reported([current EXCEPT !.charger = v])
  \/ \E v \in BOOLEAN : \/ Reported([current EXCEPT !.charging = v])
                        \/ Reported([current EXCEPT !.disabled = v])
                        \/ Reported([current EXCEPT !.powerSave = v])
                        \/ Reported([current EXCEPT !.inUse = v])
  \/ \E v \in {"ok", "low", "empty", "full"} : Reported([current EXCEPT !.status = v])
  \/ \E v \in -1 .. MaxLevel : Reported([current EXCEPT !.level = v])
  \/ \E v \in {"builtin", "dynamic"} : Reported([current EXCEPT !.usbMode = v])

-----------------------------------------------------------------------------
(* A notification takes the place of an older one of its type. *)
SendNotifications(shown, types) == shown \cup types

RemoveNotifications(shown, types) == shown \ types

(* onBatteryLowTimeout, run at once or when the wait is over. *)
WarnAndWait(s) == repeating' = TRUE /\ repeatLevel' = s.level - 2

FarBelow(s, warnedAt) == s.level >= 0 /\ s.level <= warnedAt

(* Mutation: a charger that fails is not timed. *)
TimeFailureNever(holds, held) ==
  failureTimer' = (failureTimer /\ "ChargingNotStarted" \in holds)

(* The charger is given 3 seconds to start charging. *)
TimeFailure(holds, held) ==
  failureTimer' = IF "ChargingNotStarted" \in holds
                    THEN failureTimer \/ "ChargingNotStarted" \notin held
                    ELSE FALSE

(* Warned before, and since then the level fell by 2 while the device is   *)
(* in use: the next warning is not waited for.                             *)
UpdateLowBatteryNotifier(s, waiting) == waiting /\ s.inUse /\ FarBelow(s, repeatLevel)

(* Conditions that changed send or remove their notifications; the one of  *)
(* a low battery starts or stops its warnings.                             *)
EvaluateState ==
  /\ evaluation
  /\ evaluation' = FALSE
  /\ LET now == UpdateDerivedProperties(current)
         holds == Holding(now)
         changed == (holds \cup previous) \ (holds \cap previous)
         sent == {t \in changed : (t \in holds) = TriggeringEdge(t)}
         removed == (changed \ sent)
                      \cup (IF "Charging" \in sent THEN {"RemoveCharger"} ELSE {})
         warned == "LowBattery" \in sent
         stopped == "LowBattery" \in changed \ sent
         again == UpdateLowBatteryNotifier(now, repeating /\ ~stopped)
         warnings(due) == IF due THEN {"LowBattery"} ELSE {}
     IN /\ current' = now
        /\ previous' = holds
        /\ TimeFailure(holds, previous)
        /\ IF warned \/ again
             THEN WarnAndWait(now)
             ELSE repeating' = (repeating /\ ~stopped) /\ UNCHANGED repeatLevel
        /\ batteryShown' =
             SendNotifications(
               RemoveNotifications(SendNotifications(batteryShown, warnings(warned)), removed),
               (sent \ {"ChargingNotStarted"}) \cup warnings(again))
  /\ UNCHANGED reports

(* The wait of half an hour is over. *)
OnBatteryLowTimeout ==
  /\ repeating
  /\ batteryShown' = SendNotifications(batteryShown, {"LowBattery"})
  /\ WarnAndWait(current)
  /\ UNCHANGED <<current, previous, evaluation, failureTimer, reports>>

OnChargingFailureTimeout ==
  /\ failureTimer
  /\ failureTimer' = FALSE
  /\ batteryShown' = SendNotifications(batteryShown, {"ChargingNotStarted"})
  /\ UNCHANGED <<current, previous, evaluation, repeating, repeatLevel, reports>>

(* The user or its expiration closes a notification. *)
OnNotificationClosed(t) ==
  /\ t \in batteryShown
  /\ batteryShown' = batteryShown \ {t}
  /\ UNCHANGED <<current, previous, evaluation, failureTimer, repeating, repeatLevel, reports>>

Init ==
  /\ current = [charger |-> "none", charging |-> FALSE, disabled |-> FALSE, status |-> "ok",
                level |-> -1, minimum |-> -1, powerSave |-> FALSE, inUse |-> TRUE,
                usbMode |-> "", suppressCharging |-> FALSE]
  /\ previous = Holding(current)
  /\ evaluation = TRUE
  /\ failureTimer = FALSE /\ repeating = FALSE /\ repeatLevel = 0
  /\ batteryShown = {} /\ reports = 0

Next ==
  \/ Report \/ EvaluateState \/ OnBatteryLowTimeout \/ OnChargingFailureTimeout
  \/ \E t \in Types : OnNotificationClosed(t)

-----------------------------------------------------------------------------
(* Whatever changed within one evaluation or across several, timers that     *)
(* fired in between included, what is shown is true once it is evaluated.    *)
ShownIsTrue ==
  ~evaluation => \A t \in batteryShown : (t \in Holding(current)) = TriggeringEdge(t)

(* The warnings of a low battery go on exactly as long as it is low.         *)
LowIsWatched == ~evaluation => (repeating <=> current.status = "low")

(* In active use, no fall of the level by 2 or more goes without a warning.  *)
NoUnwarnedFall ==
  ~evaluation /\ repeating /\ current.inUse /\ current.level >= 0 => current.level > repeatLevel

(* The power is never complained about while the battery is not meant to be  *)
(* charged: without charger, full, or by policy.                             *)
PowerExpected ==
  ~evaluation /\ "NotEnoughPower" \in batteryShown =>
    current.charging /\ ~current.disabled /\ current.status # "full"

(* A charger that does not start to charge is reported, unless it starts or  *)
(* goes after all, whatever else is evaluated meanwhile.                     *)
FailureReported ==
  ("ChargingNotStarted" \in Holding(current) \ previous)
    ~> ("ChargingNotStarted" \in batteryShown \/ "ChargingNotStarted" \notin Holding(current))
=============================================================================
