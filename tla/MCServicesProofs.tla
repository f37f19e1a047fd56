--------------------------- MODULE MCServicesProofs ---------------------------
(* Proofs about the smaller parts of the compositor and of the services      *)
(* around it, for all windows, clients, levels and bounds.                   *)
EXTENDS MCServices, SequenceTheorems, TLAPS

-----------------------------------------------------------------------------
(* The interception of touches *)

(* With all fingers on one place only the window there filters, and has the  *)
(* seat's focus: so hiding it cancels the touch.                             *)
OnePlace ==
  /\ \A f, g \in DOMAIN grabber : grabber[f] = grabber[g]
  /\ \A w \in filters \cap surfaced, f \in DOMAIN grabber : grabber[f] = w
  /\ \A f \in DOMAIN grabber : grabber[f] \in surfaced => mouseFocus = grabber[f]

(* What filters intercepts, and no longer than there is a finger.  What a    *)
(* client has seen is on its window, or was taken from it, and it has seen   *)
(* all that is on it.                                                        *)
TouchInv ==
  /\ filters = intercepting /\ filters \subseteq TouchWindows /\ surfaced \subseteq TouchWindows
  /\ DOMAIN grabber = {} => filters = {}
  /\ \A s \in seen : s[1] \in surfaced
  /\ seen \subseteq Touch!Given \cup left
  /\ \A f \in DOMAIN grabber : grabber[f] \in surfaced => <<grabber[f], f>> \in seen
  /\ stray => mixed
  /\ ~mixed => OnePlace

LEMMA InitTouch == Touch!Init => TouchInv
<1>. SUFFICES ASSUME Touch!Init PROVE TouchInv
  OBVIOUS
<1>1. DOMAIN grabber = {}
  BY DEF Touch!Init
<1>. QED BY <1>1 DEF Touch!Init, TouchInv, OnePlace

LEMMA TouchKept == TouchInv /\ UNCHANGED touchVars => TouchInv'
BY DEF TouchInv, OnePlace, touchVars, Touch!Given

LEMMA PressTouch ==
  ASSUME TouchInv, NEW f, NEW w \in TouchWindows, NEW inRegion, Touch!Press(f, w, inRegion)
  PROVE  TouchInv'
<1>. DEFINE accepted == w \in touchable \cap surfaced /\ inRegion
            place == IF accepted THEN w ELSE 0
<1>0. 0 \notin TouchWindows
  BY ServicesAssumption
<1>1. /\ f \notin DOMAIN grabber
      /\ grabber' = [g \in DOMAIN grabber \cup {f} |-> IF g = f THEN place ELSE grabber[g]]
      /\ UNCHANGED <<touchable, surfaced, touchChanges, left>>
      /\ mixed' = IF DOMAIN grabber = {} THEN FALSE
                  ELSE mixed \/ Touch!GivenTo(place) # DOMAIN grabber
      /\ stray' = (stray /\ DOMAIN grabber # {})
  BY DEF Touch!Press, Touch!None
<1>2. /\ DOMAIN grabber' = DOMAIN grabber \cup {f} /\ grabber'[f] = place
      /\ \A g \in DOMAIN grabber : grabber'[g] = grabber[g] /\ g # f
  BY <1>1
<1>3. seen' = IF accepted THEN seen \cup {<<w, f>>} ELSE seen
  BY DEF Touch!Press
<1>4. /\ filters' = intercepting' /\ filters' \subseteq filters \cup {w}
      /\ filters' # filters => accepted
      /\ DOMAIN grabber # {} /\ Touch!GivenTo(w) = DOMAIN grabber => filters' = filters
  BY DEF Touch!Press, Touch!InstallFilter, TouchInv
<1>5. \A s \in seen' : s[1] \in surfaced'
  BY <1>1, <1>3 DEF TouchInv
<1>6. seen' \subseteq (Touch!Given \cup left)'
  <2>1. Touch!Given \subseteq Touch!Given'
    BY <1>2 DEF Touch!Given
  <2>2. accepted => <<w, f>> \in Touch!Given'
    BY <1>2 DEF Touch!Given
  <2>. QED BY <1>1, <1>3, <2>1, <2>2 DEF TouchInv
<1>7. \A g \in DOMAIN grabber' : grabber'[g] \in surfaced' => <<grabber'[g], g>> \in seen'
  BY <1>0, <1>1, <1>2, <1>3 DEF TouchInv
<1>8. ASSUME ~mixed' PROVE OnePlace'
  <2>1. CASE DOMAIN grabber = {}
    <3>1. Touch!Receivers = {} /\ filters = {}
      BY <2>1 DEF Touch!Receivers, TouchInv
    <3>2. DOMAIN grabber' = {f}
      BY <1>2, <2>1
    <3>3. accepted => mouseFocus' = w
      BY <3>1 DEF Touch!Press
    <3>4. filters' \subseteq {w} /\ (~accepted => filters' = {})
      BY <1>4, <3>1
    <3>. QED BY <1>0, <1>1, <1>2, <3>2, <3>3, <3>4 DEF OnePlace, TouchInv
  <2>2. CASE DOMAIN grabber # {}
    <3>1. ~mixed /\ \A g \in DOMAIN grabber : grabber[g] = place
      BY <1>1, <1>8, <2>2 DEF Touch!GivenTo
    <3>2. OnePlace
      BY <3>1 DEF TouchInv
    <3>3. \A g \in DOMAIN grabber' : grabber'[g] = place
      BY <1>2, <3>1
    <3>4. \A v \in filters \cap surfaced : v = place
      BY <2>2, <3>1, <3>2 DEF OnePlace
    <3>5. filters' = filters
      <4>1. CASE accepted
        BY <1>4, <2>2, <3>1, <4>1 DEF Touch!GivenTo
      <4>2. CASE ~accepted
        BY <1>4, <4>2
      <4>. QED BY <4>1, <4>2
    <3>6. place \in surfaced => mouseFocus' = place
      <4>1. Touch!Receivers \subseteq {place}
        BY <3>1 DEF Touch!Receivers
      <4>2. place \in surfaced => accepted
        BY <1>0 DEF TouchInv
      <4>. QED BY <4>1, <4>2 DEF Touch!Press
    <3>. QED BY <1>1, <3>3, <3>4, <3>5, <3>6 DEF OnePlace
  <2>. QED BY <2>1, <2>2
<1>9. stray' => mixed'
  BY <1>1 DEF TouchInv
<1>. QED BY <1>1, <1>2, <1>4, <1>5, <1>6, <1>7, <1>8, <1>9 DEF TouchInv

LEMMA ReleaseTouch ==
  ASSUME TouchInv, NEW lifted, Touch!Release(lifted)
  PROVE  TouchInv'
<1>. DEFINE told == {grabber[f] : f \in lifted} \cap surfaced
<1>1. /\ lifted \subseteq DOMAIN grabber
      /\ grabber' = [f \in DOMAIN grabber \ lifted |-> grabber[f]]
      /\ mouseFocus' \in Touch!Receivers \cup (IF told = {} THEN {mouseFocus} ELSE {})
      /\ seen' = {s \in seen : ~(s[1] \in told /\ s[2] \in lifted /\ s \in Touch!Given)}
      /\ stray' = (stray \/ \E f \in lifted : grabber[f] \in told /\ <<grabber[f], f>> \notin seen)
      /\ UNCHANGED <<touchable, surfaced, touchChanges, mixed, left>>
  BY DEF Touch!Release
<1>2. DOMAIN grabber' = DOMAIN grabber \ lifted /\ \A f \in DOMAIN grabber' : grabber'[f] = grabber[f]
  BY <1>1
<1>3. filters' = intercepting' /\ filters' \subseteq filters /\ (DOMAIN grabber' = {} => filters' = {})
  <2>1. CASE lifted = DOMAIN grabber
    BY <2>1 DEF Touch!Release, Touch!TouchEnd, Touch!RemoveFilters, TouchInv
  <2>2. CASE lifted # DOMAIN grabber
    BY <1>1, <1>2, <2>2 DEF Touch!Release, TouchInv
  <2>. QED BY <2>1, <2>2
<1>4. \A s \in seen' : s[1] \in surfaced'
  BY <1>1 DEF TouchInv
<1>5. seen' \subseteq (Touch!Given \cup left)'
  <2>. SUFFICES ASSUME NEW s \in seen', s \notin left PROVE s \in Touch!Given'
    BY <1>1
  <2>1. s \in seen /\ s \in Touch!Given /\ s[1] \in surfaced
    BY <1>1 DEF TouchInv
  <2>2. PICK f \in DOMAIN grabber : s = <<grabber[f], f>>
    BY <2>1 DEF Touch!Given
  <2>3. f \notin lifted
    BY <1>1, <2>1, <2>2
  <2>. QED BY <1>2, <2>2, <2>3 DEF Touch!Given
<1>6. \A f \in DOMAIN grabber' : grabber'[f] \in surfaced' => <<grabber'[f], f>> \in seen'
  BY <1>1, <1>2 DEF TouchInv
<1>7. stray' => mixed'
  BY <1>1 DEF TouchInv
<1>8. ASSUME ~mixed' PROVE OnePlace'
  <2>1. OnePlace
    BY <1>1, <1>8 DEF TouchInv
  <2>2. ASSUME NEW f \in DOMAIN grabber', grabber'[f] \in surfaced' PROVE mouseFocus' = grabber'[f]
    <3>1. Touch!Receivers \subseteq {grabber[f]} /\ mouseFocus = grabber[f]
      BY <1>1, <1>2, <2>1, <2>2 DEF Touch!Receivers, OnePlace
    <3>. QED BY <1>1, <1>2, <2>2, <3>1
  <2>3. \A f, g \in DOMAIN grabber' : grabber'[f] = grabber'[g]
    BY <1>2, <2>1 DEF OnePlace
  <2>4. \A w \in filters' \cap surfaced', f \in DOMAIN grabber' : grabber'[f] = w
    BY <1>1, <1>2, <1>3, <2>1 DEF OnePlace
  <2>. QED BY <2>2, <2>3, <2>4 DEF OnePlace
<1>. QED BY <1>1, <1>3, <1>4, <1>5, <1>6, <1>7, <1>8 DEF TouchInv

LEMMA MoveTouch ==
  ASSUME TouchInv, Touch!Move
  PROVE  TouchInv'
<1>1. UNCHANGED <<touchable, surfaced, filters, later, intercepting, grabber, seen, touchChanges,
                  mixed, left>>
  BY DEF Touch!Move
<1>2. (stray' => stray \/ mixed) /\ (~mixed => OnePlace')
  <2>1. CASE UNCHANGED <<mouseFocus, stray>>
    BY <1>1, <2>1 DEF TouchInv, OnePlace
  <2>2. ASSUME NEW w \in filters, w \in surfaced, Touch!HandleTouchEvent(w, DOMAIN grabber)
        PROVE  (stray' => stray \/ mixed) /\ (~mixed => OnePlace')
    <3>1. /\ mouseFocus' = w
          /\ stray' = (stray \/ \E f \in DOMAIN grabber : <<w, f>> \notin seen)
      BY <2>2 DEF Touch!HandleTouchEvent
    <3>2. ~mixed => \A f \in DOMAIN grabber : grabber[f] = w
      BY <2>2 DEF TouchInv, OnePlace
    <3>. QED BY <1>1, <2>2, <3>1, <3>2 DEF TouchInv, OnePlace
  <2>3. ASSUME NEW w \in Touch!Receivers, Touch!HandleTouchEvent(w, Touch!GivenTo(w))
        PROVE  (stray' => stray \/ mixed) /\ (~mixed => OnePlace')
    <3>1. /\ mouseFocus' = w /\ w \in surfaced
          /\ stray' = (stray \/ \E f \in Touch!GivenTo(w) : <<w, f>> \notin seen)
      BY <2>3 DEF Touch!HandleTouchEvent, Touch!Receivers
    <3>2. ~mixed => \A f \in DOMAIN grabber : grabber[f] = w
      BY <2>3 DEF TouchInv, OnePlace, Touch!Receivers
    <3>. QED BY <1>1, <3>1, <3>2 DEF TouchInv, OnePlace, Touch!GivenTo
  <2>. QED BY <2>1, <2>2, <2>3 DEF Touch!Move, Touch!HandleTouchEvent
<1>. QED BY <1>1, <1>2 DEF TouchInv, Touch!Given

LEMMA CancelTouch ==
  ASSUME TouchInv, Touch!Cancel
  PROVE  TouchInv'
<1>1. /\ DOMAIN grabber' = {} /\ filters' = {} /\ intercepting' = {}
      /\ seen' = {s \in seen : s[1] \notin Touch!Receivers}
      /\ UNCHANGED <<touchable, surfaced, touchChanges, stray, mixed, left>>
  BY DEF Touch!Cancel, Touch!TouchEnd, Touch!RemoveFilters, TouchInv
<1>2. seen' \subseteq left
  <2>. SUFFICES ASSUME NEW s \in seen, s \notin left PROVE s[1] \in Touch!Receivers
    BY <1>1
  <2>1. PICK f \in DOMAIN grabber : s = <<grabber[f], f>>
    BY DEF TouchInv, Touch!Given
  <2>. QED BY <2>1 DEF TouchInv, Touch!Receivers
<1>. QED BY <1>1, <1>2 DEF TouchInv, OnePlace

(* Fingers are taken from a window whose client is told, or is gone, or from *)
(* one that shares them with another place.                                  *)
LEMMA UngrabTouch ==
  ASSUME TouchInv, NEW w \in TouchWindows, Touch!Ungrab(w), UNCHANGED <<surfaced, stray, mixed>>,
         filters' = intercepting', filters' \subseteq filters, w \in surfaced => w \notin filters',
         \/ seen' = {s \in seen : s[1] # w} /\ mouseFocus = w /\ w \in surfaced
         \/ seen' = seen /\ (mouseFocus # w \/ w \notin surfaced) /\ mouseFocus' = mouseFocus
  PROVE  TouchInv'
<1>0. 0 \notin TouchWindows
  BY ServicesAssumption
<1>1. /\ DOMAIN grabber' = DOMAIN grabber
      /\ \A f \in DOMAIN grabber : grabber'[f] = IF grabber[f] = w THEN 0 ELSE grabber[f]
      /\ left' = IF mixed THEN left \cup {w} \X Touch!GivenTo(w) ELSE left
  BY DEF Touch!Ungrab, Touch!None
<1>2. seen' \subseteq seen /\ \A s \in seen : s[1] # w => s \in seen'
  OBVIOUS
<1>3. \A s \in seen' : s[1] \in surfaced'
  BY <1>2 DEF TouchInv
<1>4. seen' \subseteq (Touch!Given \cup left)'
  <2>. SUFFICES ASSUME NEW s \in seen', s \notin left PROVE s \in Touch!Given' \/ s \in left'
    BY <1>1
  <2>1. s[1] \in surfaced
    BY <1>2 DEF TouchInv
  <2>2. PICK f \in DOMAIN grabber : s = <<grabber[f], f>>
    BY <1>2 DEF TouchInv, Touch!Given
  <2>3. CASE grabber[f] # w
    BY <1>1, <2>2, <2>3 DEF Touch!Given
  <2>4. CASE grabber[f] = w
    <3>1. mouseFocus # w /\ w \in surfaced
      BY <2>1, <2>2, <2>4
    <3>2. mixed
      BY <2>4, <3>1 DEF TouchInv, OnePlace
    <3>. QED BY <1>1, <2>2, <2>4, <3>2 DEF Touch!GivenTo
  <2>. QED BY <2>3, <2>4
<1>5. \A f \in DOMAIN grabber' : grabber'[f] \in surfaced' => <<grabber'[f], f>> \in seen'
  BY <1>0, <1>1, <1>2 DEF TouchInv
<1>6. ASSUME ~mixed' PROVE OnePlace'
  <2>1. OnePlace
    BY <1>6 DEF TouchInv
  <2>2. \A f, g \in DOMAIN grabber' : grabber'[f] = grabber'[g]
    BY <1>1, <2>1 DEF OnePlace
  <2>3. \A v \in filters' \cap surfaced', f \in DOMAIN grabber' : grabber'[f] = v
    BY <1>1, <2>1 DEF OnePlace
  <2>4. \A f \in DOMAIN grabber' : grabber'[f] \in surfaced' => mouseFocus' = grabber'[f]
    BY <1>0, <1>1, <2>1 DEF OnePlace, TouchInv
  <2>. QED BY <2>2, <2>3, <2>4 DEF OnePlace
<1>. QED BY <1>1, <1>3, <1>4, <1>5, <1>6 DEF TouchInv

LEMMA NextTouch == TouchInv /\ Touch!Next => TouchInv'
<1>. SUFFICES ASSUME TouchInv, Touch!Next PROVE TouchInv'
  OBVIOUS
<1>1. ASSUME NEW w \in TouchWindows, Touch!TouchableChanged(w) PROVE TouchInv'
  <2>0. /\ touchable' = IF w \in touchable THEN touchable \ {w} ELSE touchable \cup {w}
        /\ Touch!HandleTouchCancel(w) /\ UNCHANGED <<surfaced, stray, mixed>>
    BY <1>1 DEF Touch!TouchableChanged
  <2>1. /\ filters' = intercepting' /\ filters' \subseteq filters
        /\ w \in surfaced => w \notin filters'
    BY <2>0 DEF Touch!HandleTouchCancel, Touch!RemoveFilters, TouchInv
  <2>2. CASE w \in touchable
    <3>1. \/ seen' = {s \in seen : s[1] # w} /\ mouseFocus = w /\ w \in surfaced
          \/ seen' = seen /\ (mouseFocus # w \/ w \notin surfaced) /\ mouseFocus' = mouseFocus
      BY <2>0, <2>2 DEF Touch!HandleTouchCancel
    <3>2. Touch!Ungrab(w)
      BY <1>1, <2>2 DEF Touch!TouchableChanged
    <3>. QED BY <2>0, <2>1, <3>1, <3>2, UngrabTouch
  <2>3. CASE w \notin touchable
    <3>1. UNCHANGED <<seen, mouseFocus, grabber, left>>
      BY <1>1, <2>0, <2>3 DEF Touch!TouchableChanged, Touch!HandleTouchCancel
    <3>. QED BY <2>0, <2>1, <3>1 DEF TouchInv, OnePlace, Touch!Given
  <2>. QED BY <2>2, <2>3
<1>2. ASSUME NEW w \in TouchWindows, Touch!TouchSurfaceDestroyed(w) PROVE TouchInv'
  <2>1. /\ surfaced' = surfaced \ {w} /\ seen' = {s \in seen : s[1] # w}
        /\ mouseFocus' = IF mouseFocus = w THEN 0 ELSE mouseFocus
        /\ UNCHANGED <<touchable, filters, later, intercepting, grabber, stray, mixed, left>>
    BY <1>2 DEF Touch!TouchSurfaceDestroyed, Touch!None
  <2>2. ~mixed' => OnePlace'
    BY <2>1 DEF TouchInv, OnePlace
  <2>. QED BY <2>1, <2>2 DEF TouchInv, Touch!Given
<1>3. ASSUME NEW w \in TouchWindows, Touch!TouchWindowDestroyed(w) PROVE TouchInv'
  <2>1. /\ w \notin surfaced /\ Touch!Ungrab(w) /\ UNCHANGED <<surfaced, mouseFocus, seen, stray, mixed>>
        /\ filters' = filters \ {w} /\ intercepting' = intercepting \ {w}
    BY <1>3 DEF Touch!TouchWindowDestroyed, Touch!RemoveFilters
  <2>2. filters' = intercepting' /\ filters' \subseteq filters
    BY <2>1 DEF TouchInv
  <2>. QED BY <2>1, <2>2, UngrabTouch
<1>. QED BY <1>1, <1>2, <1>3, PressTouch, ReleaseTouch, MoveTouch, CancelTouch DEF Touch!Next

(* For all windows and fingers: an interception ends with the touch it began *)
(* with; a client sees the whole of each finger on its window or that it was *)
(* cancelled, unless the window was hidden with fingers on other places; and *)
(* of no other finger, unless fingers were put on different places.          *)
THEOREM TouchesAreWhole == Spec => []TouchesWhole
<1>1. Init => TouchInv
  BY InitTouch DEF Init
<1>2. TouchInv /\ [Next]_vars => TouchInv'
  BY NextTouch, TouchKept DEF Next, vars
<1>3. TouchInv => TouchesWhole
  BY DEF TouchInv, TouchesWhole, Touch!TouchesWhole, Touch!InterceptionEnds
<1>. QED BY <1>1, <1>2, <1>3, PTL DEF Spec

-----------------------------------------------------------------------------
(* The notifications about the battery *)

BatteryStates ==
  [charger: {"none", "wall", "usb"}, charging: BOOLEAN, disabled: BOOLEAN,
   status: {"ok", "low", "empty", "full"}, level: Int, minimum: Int, powerSave: BOOLEAN,
   inUse: BOOLEAN, usbMode: {"", "builtin", "dynamic"}, suppressCharging: BOOLEAN]

(* What is shown agrees with the conditions that were evaluated last, which  *)
(* are the present ones unless an evaluation is due; both timers run only    *)
(* for a condition that was found to hold.                                   *)
BatteryInv ==
  /\ current \in BatteryStates /\ repeatLevel \in Int /\ repeating \in BOOLEAN
  /\ previous \subseteq Battery!Types /\ batteryShown \subseteq Battery!Types
  /\ \A t \in batteryShown : (t \in previous) = Battery!TriggeringEdge(t)
  /\ repeating <=> "LowBattery" \in previous
  /\ failureTimer => "ChargingNotStarted" \in previous
  /\ ~evaluation =>
       /\ previous = Battery!Holding(current)
       /\ repeating /\ current.inUse /\ current.level >= 0 => current.level > repeatLevel
       /\ current.level < current.minimum =>
            current.charging /\ ~current.disabled /\ current.status # "full"

LEMMA HoldingFacts ==
  ASSUME NEW s
  PROVE  /\ Battery!Holding(s) \subseteq Battery!Types
         /\ "LowBattery" \in Battery!Holding(s) <=> s.status = "low"
         /\ "NotEnoughPower" \in Battery!Holding(s) <=> s.level >= 0 /\ s.level < s.minimum
BY DEF Battery!Holding, Battery!Types

(* What the properties say follows from the invariant.                       *)
LEMMA BatterySuffices == BatteryInv => BatteryShown
<1>. SUFFICES ASSUME BatteryInv PROVE BatteryShown
  OBVIOUS
<1>1. Battery!ShownIsTrue
  BY DEF BatteryInv, Battery!ShownIsTrue
<1>2. Battery!LowIsWatched
  BY HoldingFacts DEF BatteryInv, Battery!LowIsWatched
<1>3. Battery!NoUnwarnedFall
  BY DEF BatteryInv, Battery!NoUnwarnedFall
<1>4. Battery!PowerExpected
  <2>. SUFFICES ASSUME ~evaluation, "NotEnoughPower" \in batteryShown
                PROVE  current.charging /\ ~current.disabled /\ current.status # "full"
    BY DEF Battery!PowerExpected
  <2>1. "NotEnoughPower" \in Battery!Holding(current)
    BY DEF BatteryInv, Battery!TriggeringEdge
  <2>. QED BY <2>1, HoldingFacts DEF BatteryInv
<1>. QED BY <1>1, <1>2, <1>3, <1>4 DEF BatteryShown

LEMMA BatteryKept == BatteryInv /\ UNCHANGED batteryVars => BatteryInv'
<1>. SUFFICES ASSUME BatteryInv, UNCHANGED batteryVars PROVE BatteryInv'
  OBVIOUS
<1>1. UNCHANGED <<current, previous, evaluation, failureTimer, repeating, repeatLevel, batteryShown>>
  BY DEF batteryVars
<1>2. (current \in BatteryStates)'
  BY <1>1 DEF BatteryInv, BatteryStates
<1>3. (previous \subseteq Battery!Types /\ batteryShown \subseteq Battery!Types)'
  BY <1>1 DEF BatteryInv, Battery!Types
<1>4. (\A t \in batteryShown : (t \in previous) = Battery!TriggeringEdge(t))'
  BY <1>1 DEF BatteryInv, Battery!TriggeringEdge
<1>5. Battery!Holding(current)' = Battery!Holding(current)
  BY <1>1 DEF Battery!Holding, Battery!Types
<1>. QED BY <1>1, <1>2, <1>3, <1>4, <1>5 DEF BatteryInv

(* What MCE and usb-moded report waits for an evaluation.                    *)
LEMMA ReportedKeeps ==
  ASSUME BatteryInv, NEW s \in BatteryStates, Battery!Reported(s)
  PROVE  BatteryInv'
<1>1. /\ current' = s /\ evaluation' = TRUE
      /\ UNCHANGED <<previous, failureTimer, repeating, repeatLevel, batteryShown>>
  BY DEF Battery!Reported, Battery!ScheduleStateEvaluation
<1>2. (current \in BatteryStates)'
  BY <1>1 DEF BatteryStates
<1>3. (previous \subseteq Battery!Types /\ batteryShown \subseteq Battery!Types)'
  BY <1>1 DEF BatteryInv, Battery!Types
<1>4. (\A t \in batteryShown : (t \in previous) = Battery!TriggeringEdge(t))'
  BY <1>1 DEF BatteryInv, Battery!TriggeringEdge
<1>. QED BY <1>1, <1>2, <1>3, <1>4 DEF BatteryInv

LEMMA ReportKeeps == ASSUME BatteryInv, Battery!Report, MaxLevel \in Nat PROVE BatteryInv'
<1>0. current \in BatteryStates
  BY DEF BatteryInv
<1>1. PICK s \in BatteryStates : Battery!Reported(s)
  <2>1. \A v \in {"none", "wall", "usb"} : [current EXCEPT !.charger = v] \in BatteryStates
    BY <1>0 DEF BatteryStates
  <2>2. \A v \in BOOLEAN : /\ [current EXCEPT !.charging = v] \in BatteryStates
                           /\ [current EXCEPT !.disabled = v] \in BatteryStates
                           /\ [current EXCEPT !.powerSave = v] \in BatteryStates
                           /\ [current EXCEPT !.inUse = v] \in BatteryStates
    BY <1>0 DEF BatteryStates
  <2>3. \A v \in {"ok", "low", "empty", "full"} : [current EXCEPT !.status = v] \in BatteryStates
    BY <1>0 DEF BatteryStates
  <2>4. \A v \in -1 .. MaxLevel : [current EXCEPT !.level = v] \in BatteryStates
    <3>1. \A v \in Int : [current EXCEPT !.level = v] \in BatteryStates
      BY <1>0 DEF BatteryStates
    <3>. QED BY <3>1
  <2>5. \A v \in {"builtin", "dynamic"} : [current EXCEPT !.usbMode = v] \in BatteryStates
    BY <1>0 DEF BatteryStates
  <2>. QED BY <2>1, <2>2, <2>3, <2>4, <2>5 DEF Battery!Report
<1>. QED BY <1>1, ReportedKeeps

(* The level a battery should not fall below.                                *)
LEMMA DerivedFacts ==
  ASSUME NEW s \in BatteryStates
  PROVE  LET now == Battery!UpdateDerivedProperties(s)
         IN  /\ now \in BatteryStates
             /\ now.level < now.minimum => now.charging /\ ~now.disabled /\ now.status # "full"
<1>. DEFINE now == Battery!UpdateDerivedProperties(s)
            minimum == IF ~s.charging \/ s.status = "full" \/ s.disabled \/ s.level > s.minimum
                         THEN s.level - 1 ELSE s.minimum
            suppressed == Battery!Suppressed(s)
<1>0. s.level \in Int /\ s.minimum \in Int /\ s.charging \in BOOLEAN /\ s.disabled \in BOOLEAN
  BY DEF BatteryStates
<1>1. minimum \in Int /\ suppressed \in BOOLEAN
  BY <1>0 DEF Battery!Suppressed
<1>2. now = [[s EXCEPT !.minimum = minimum] EXCEPT !.suppressCharging = suppressed]
  BY DEF Battery!UpdateDerivedProperties
<1>3. \A m \in Int, b \in BOOLEAN :
         LET n == [[s EXCEPT !.minimum = m] EXCEPT !.suppressCharging = b]
         IN  /\ n \in BatteryStates /\ n.minimum = m /\ n.level = s.level
             /\ n.charging = s.charging /\ n.disabled = s.disabled /\ n.status = s.status
  BY DEF BatteryStates
<1>6. s.level < minimum => s.charging /\ ~s.disabled /\ s.status # "full"
  BY <1>0
<1>. HIDE DEF now, suppressed, minimum
<1>4. /\ now \in BatteryStates /\ now.minimum = minimum /\ now.level = s.level
      /\ now.charging = s.charging /\ now.disabled = s.disabled /\ now.status = s.status
  BY <1>1, <1>2, <1>3
<1>5. now.level < now.minimum => now.charging /\ ~now.disabled /\ now.status # "full"
  BY <1>4, <1>6
<1>. QED BY <1>4, <1>5 DEF now

(* Sending and removing what changed leaves nothing shown that does not     *)
(* hold; a level far below the last warning is warned about again.           *)
LEMMA EvaluateKeeps == ASSUME BatteryInv, Battery!EvaluateState PROVE BatteryInv'
<1>. DEFINE now == Battery!UpdateDerivedProperties(current)
            holds == Battery!Holding(now)
            changed == (holds \cup previous) \ (holds \cap previous)
            raised == {t \in changed : (t \in holds) = Battery!TriggeringEdge(t)}
            removed == (changed \ raised)
                         \cup (IF "Charging" \in raised THEN {"RemoveCharger"} ELSE {})
            warned == "LowBattery" \in raised
            stopped == "LowBattery" \in changed \ raised
            again == Battery!UpdateLowBatteryNotifier(now, repeating /\ ~stopped)
            first == IF warned THEN {"LowBattery"} ELSE {}
            second == IF again THEN {"LowBattery"} ELSE {}
            shown == ((batteryShown \cup first) \ removed)
                        \cup ((raised \ {"ChargingNotStarted"}) \cup second)
<1>1. /\ current' = now /\ previous' = holds /\ evaluation' = FALSE
      /\ Battery!TimeFailure(holds, previous)
      /\ batteryShown' = shown
  BY DEF Battery!EvaluateState, Battery!SendNotifications, Battery!RemoveNotifications
<1>2. IF warned \/ again
        THEN Battery!WarnAndWait(now)
        ELSE repeating' = (repeating /\ ~stopped) /\ UNCHANGED repeatLevel
  BY DEF Battery!EvaluateState
<1>3. /\ now \in BatteryStates
      /\ now.level < now.minimum => now.charging /\ ~now.disabled /\ now.status # "full"
  BY DerivedFacts DEF BatteryInv
<1>4. holds \subseteq Battery!Types
  BY HoldingFacts
<1>5. /\ previous \subseteq Battery!Types /\ batteryShown \subseteq Battery!Types
      /\ \A t \in batteryShown : (t \in previous) = Battery!TriggeringEdge(t)
      /\ repeating \in BOOLEAN /\ repeatLevel \in Int
      /\ repeating <=> "LowBattery" \in previous
      /\ failureTimer => "ChargingNotStarted" \in previous
  BY DEF BatteryInv
<1>. HIDE DEF now, holds
<1>6. /\ warned <=> "LowBattery" \in holds /\ "LowBattery" \notin previous
      /\ stopped <=> "LowBattery" \notin holds /\ "LowBattery" \in previous
  BY DEF Battery!TriggeringEdge
<1>7. again \in BOOLEAN /\ (again => repeating /\ ~stopped)
      /\ (repeating /\ ~stopped /\ now.inUse /\ now.level >= 0 /\ ~again => ~(now.level <= repeatLevel))
  BY <1>3, <1>5 DEF Battery!UpdateLowBatteryNotifier, Battery!FarBelow, BatteryStates
<1>. HIDE DEF again
<1>17. /\ warned \in BOOLEAN /\ again \in BOOLEAN
       /\ warned => "LowBattery" \in holds
       /\ again => "LowBattery" \in holds
  BY <1>5, <1>6, <1>7
<1>18. shown = ((batteryShown \cup first) \ removed) \cup ((raised \ {"ChargingNotStarted"}) \cup second)
  OBVIOUS
<1>19. /\ changed = (holds \cup previous) \ (holds \cap previous)
       /\ raised = {t \in changed : (t \in holds) = Battery!TriggeringEdge(t)}
       /\ removed = (changed \ raised) \cup (IF "Charging" \in raised THEN {"RemoveCharger"} ELSE {})
       /\ first = (IF warned THEN {"LowBattery"} ELSE {})
       /\ second = (IF again THEN {"LowBattery"} ELSE {})
  OBVIOUS
<1>. HIDE DEF warned, stopped, changed, raised, removed, first, second, shown
<1>8. shown \subseteq Battery!Types /\ \A t \in shown : (t \in holds) = Battery!TriggeringEdge(t)
  <2>1. "LowBattery" \in Battery!Types /\ Battery!TriggeringEdge("LowBattery") = TRUE
    BY DEF Battery!Types, Battery!TriggeringEdge
  <2>2. raised \subseteq Battery!Types
    BY <1>4, <1>5, <1>19
  <2>3. shown \subseteq Battery!Types
    BY <1>5, <1>18, <1>19, <2>1, <2>2
  <2>4. ASSUME NEW t \in shown PROVE (t \in holds) = Battery!TriggeringEdge(t)
    <3>1. CASE t \in raised
      BY <1>19, <3>1
    <3>2. CASE t \in first \cup second
      BY <1>17, <1>19, <2>1, <3>2
    <3>3. CASE t \in batteryShown /\ t \notin removed /\ t \notin raised
      <4>1. t \notin changed /\ (t \in previous) = Battery!TriggeringEdge(t)
        BY <1>5, <1>19, <3>3
      <4>2. t \in holds <=> t \in previous
        BY <1>19, <4>1
      <4>. QED BY <4>1, <4>2
    <3>. QED BY <1>18, <2>4, <3>1, <3>2, <3>3
  <2>. QED BY <2>3, <2>4
<1>9. failureTimer' => "ChargingNotStarted" \in holds
  BY <1>1 DEF Battery!TimeFailure
<1>10. now.level \in Int
  BY <1>3 DEF BatteryStates
<1>11. repeating' \in BOOLEAN /\ repeatLevel' \in Int /\ (repeating' <=> "LowBattery" \in holds)
  <2>1. CASE warned \/ again
    <3>1. repeating' = TRUE /\ repeatLevel' = now.level - 2
      BY <1>2, <2>1 DEF Battery!WarnAndWait
    <3>. QED BY <1>10, <1>17, <2>1, <3>1
  <2>2. CASE ~(warned \/ again)
    <3>1. repeating' = (repeating /\ ~stopped) /\ repeatLevel' = repeatLevel
      BY <1>2, <2>2
    <3>. QED BY <1>5, <1>6, <2>2, <3>1
  <2>. QED BY <2>1, <2>2
<1>12. repeating' /\ now.inUse /\ now.level >= 0 => now.level > repeatLevel'
  <2>1. CASE warned \/ again
    <3>1. repeatLevel' = now.level - 2
      BY <1>2, <2>1 DEF Battery!WarnAndWait
    <3>. QED BY <1>10, <3>1
  <2>2. CASE ~(warned \/ again)
    <3>1. repeating' = (repeating /\ ~stopped) /\ repeatLevel' = repeatLevel
      BY <1>2, <2>2
    <3>. QED BY <1>5, <1>7, <1>10, <2>2, <3>1
  <2>. QED BY <2>1, <2>2
<1>13. (current \in BatteryStates)'
  BY <1>1, <1>3 DEF BatteryStates
<1>14. (previous \subseteq Battery!Types /\ batteryShown \subseteq Battery!Types)'
  BY <1>1, <1>4, <1>8 DEF Battery!Types
<1>15. (\A t \in batteryShown : (t \in previous) = Battery!TriggeringEdge(t))'
  BY <1>1, <1>8 DEF Battery!TriggeringEdge
<1>16. (previous = Battery!Holding(current))'
  BY <1>1 DEF holds, Battery!Holding, Battery!Types
<1>. QED BY <1>1, <1>3, <1>9, <1>11, <1>12, <1>13, <1>14, <1>15, <1>16 DEF BatteryInv

(* The timers run for conditions that were evaluated to hold.                *)
LEMMA BatteryUpdated ==
  ASSUME BatteryInv, current' = current, previous' = previous, evaluation' = evaluation,
         repeating' = repeating, failureTimer' => failureTimer,
         repeatLevel' = repeatLevel \/ repeatLevel' = current.level - 2,
         batteryShown' \subseteq Battery!Types,
         \A t \in batteryShown' : (t \in previous) = Battery!TriggeringEdge(t)
  PROVE  BatteryInv'
<1>1. (current \in BatteryStates)'
  BY DEF BatteryInv, BatteryStates
<1>2. (previous \subseteq Battery!Types /\ batteryShown \subseteq Battery!Types)'
  BY DEF BatteryInv, Battery!Types
<1>3. (\A t \in batteryShown : (t \in previous) = Battery!TriggeringEdge(t))'
  BY DEF BatteryInv, Battery!TriggeringEdge
<1>4. Battery!Holding(current)' = Battery!Holding(current)
  BY DEF Battery!Holding, Battery!Types
<1>5. current.level \in Int /\ repeatLevel \in Int
  BY DEF BatteryInv, BatteryStates
<1>6. repeatLevel' \in Int
  BY <1>5
<1>7. ~evaluation /\ repeating /\ current.inUse /\ current.level >= 0 => current.level > repeatLevel'
  BY <1>5 DEF BatteryInv
<1>. QED BY <1>1, <1>2, <1>3, <1>4, <1>6, <1>7 DEF BatteryInv

LEMMA NextBattery == BatteryInv /\ Battery!Next => BatteryInv'
<1>. SUFFICES ASSUME BatteryInv, Battery!Next PROVE BatteryInv'
  OBVIOUS
<1>1. CASE Battery!Report
  BY <1>1, ReportKeeps, ServicesAssumption
<1>2. CASE Battery!EvaluateState
  BY <1>2, EvaluateKeeps
<1>4. CASE Battery!OnBatteryLowTimeout
  <2>1. /\ UNCHANGED <<current, previous, evaluation, failureTimer>>
        /\ repeating' = repeating /\ repeatLevel' = current.level - 2
    BY <1>4 DEF Battery!OnBatteryLowTimeout, Battery!WarnAndWait, BatteryInv
  <2>2. "LowBattery" \in Battery!Types /\ Battery!TriggeringEdge("LowBattery") = TRUE
    BY DEF Battery!Types, Battery!TriggeringEdge
  <2>3. "LowBattery" \in previous
    BY <1>4 DEF Battery!OnBatteryLowTimeout, BatteryInv
  <2>4. batteryShown' = batteryShown \cup {"LowBattery"}
    BY <1>4 DEF Battery!OnBatteryLowTimeout, Battery!SendNotifications
  <2>5. /\ batteryShown' \subseteq Battery!Types
        /\ \A u \in batteryShown' : (u \in previous) = Battery!TriggeringEdge(u)
    BY <2>2, <2>3, <2>4 DEF BatteryInv
  <2>. QED BY <2>1, <2>5, BatteryUpdated
<1>5. CASE Battery!OnChargingFailureTimeout
  <2>1. /\ UNCHANGED <<current, previous, evaluation, repeating, repeatLevel>>
        /\ failureTimer' => failureTimer
    BY <1>5 DEF Battery!OnChargingFailureTimeout
  <2>2. "ChargingNotStarted" \in Battery!Types /\ Battery!TriggeringEdge("ChargingNotStarted") = TRUE
    BY DEF Battery!Types, Battery!TriggeringEdge
  <2>3. "ChargingNotStarted" \in previous
    BY <1>5 DEF Battery!OnChargingFailureTimeout, BatteryInv
  <2>4. batteryShown' = batteryShown \cup {"ChargingNotStarted"}
    BY <1>5 DEF Battery!OnChargingFailureTimeout, Battery!SendNotifications
  <2>5. /\ batteryShown' \subseteq Battery!Types
        /\ \A u \in batteryShown' : (u \in previous) = Battery!TriggeringEdge(u)
    BY <2>2, <2>3, <2>4 DEF BatteryInv
  <2>. QED BY <2>1, <2>5, BatteryUpdated
<1>6. ASSUME NEW t \in Battery!Types, Battery!OnNotificationClosed(t) PROVE BatteryInv'
  <2>1. /\ UNCHANGED <<current, previous, evaluation, failureTimer, repeating, repeatLevel>>
        /\ batteryShown' \subseteq batteryShown
    BY <1>6 DEF Battery!OnNotificationClosed
  <2>5. /\ batteryShown' \subseteq Battery!Types
        /\ \A u \in batteryShown' : (u \in previous) = Battery!TriggeringEdge(u)
    BY <2>1 DEF BatteryInv
  <2>. QED BY <2>1, <2>5, BatteryUpdated
<1>. QED BY <1>1, <1>2, <1>4, <1>5, <1>6 DEF Battery!Next

LEMMA InitBattery == Battery!Init => BatteryInv
<1>. SUFFICES ASSUME Battery!Init PROVE BatteryInv
  OBVIOUS
<1>1. current \in BatteryStates
  <2>1. \A n \in Int :
          [charger |-> "none", charging |-> FALSE, disabled |-> FALSE, status |-> "ok",
           level |-> n, minimum |-> n, powerSave |-> FALSE, inUse |-> TRUE,
           usbMode |-> "", suppressCharging |-> FALSE] \in BatteryStates
    BY DEF BatteryStates
  <2>2. -1 \in Int
    OBVIOUS
  <2>. QED BY <2>1, <2>2 DEF Battery!Init
<1>2. current.status = "ok" /\ current.level = -1 /\ current.minimum = -1
  BY DEF Battery!Init
<1>4. previous \subseteq Battery!Types /\ "LowBattery" \notin previous
  BY <1>2, HoldingFacts DEF Battery!Init
<1>3. previous = Battery!Holding(current) /\ evaluation = TRUE /\ batteryShown = {}
      /\ failureTimer = FALSE /\ repeating = FALSE /\ repeatLevel = 0
  BY DEF Battery!Init
<1>5. ~(current.level < current.minimum)
  BY <1>2
<1>6. repeatLevel \in Int
  BY <1>3
<1>7. repeating \in BOOLEAN
  BY <1>3
<1>8. batteryShown \subseteq Battery!Types
  BY <1>3
<1>. QED BY <1>1, <1>3, <1>4, <1>5, <1>6, <1>7, <1>8 DEF BatteryInv

(* For all levels: what the notifications about the battery say is true once *)
(* it is evaluated, a battery that is low is warned about without end, no    *)
(* fall of the level goes without a warning in active use, and the power is  *)
(* complained about only while the battery is meant to be charged.           *)
THEOREM BatteryIsShown == Spec => []BatteryShown
<1>1. Init => BatteryInv
  BY InitBattery DEF Init
<1>2. BatteryInv /\ [Next]_vars => BatteryInv'
  BY NextBattery, BatteryKept DEF Next, vars
<1>. QED BY <1>1, <1>2, BatterySuffices, PTL DEF Spec

-----------------------------------------------------------------------------
(* The file service *)

(* A call that waits for its answer is queued under an id whose timer runs,  *)
(* and no other call is queued under that id while it does.                  *)
FilesInv ==
  /\ fileCalls \in Nat /\ answers \in [1 .. MaxFiles -> {0, 1}]
  /\ DOMAIN queued \subseteq timers
  /\ \A id \in DOMAIN queued : /\ queued[id] \in 1 .. MaxFiles /\ queued[id] <= fileCalls
                               /\ answers[queued[id]] = 0
  /\ \A i, j \in DOMAIN queued : queued[i] = queued[j] => i = j
  /\ \A call \in 1 .. MaxFiles :
        /\ call > fileCalls => answers[call] = 0
        /\ call <= fileCalls /\ answers[call] = 0 => \E id \in DOMAIN queued : queued[id] = call

LEMMA InitFiles == Files!Init => FilesInv
<1>. SUFFICES ASSUME Files!Init PROVE FilesInv
  OBVIOUS
<1>1. /\ queued = [id \in {} |-> 0] /\ timers = {} /\ fileCalls = 0
      /\ answers = [call \in 1 .. MaxFiles |-> 0]
  BY DEF Files!Init
<1>. QED BY <1>1 DEF FilesInv

LEMMA FilesKept == FilesInv /\ UNCHANGED fileVars => FilesInv'
BY DEF FilesInv, fileVars

(* An id that is answered leaves the queue, whoever answers it.              *)
LEMMA AnswerKeeps ==
  ASSUME FilesInv, NEW id, Files!RespondSupportCheck(id), fileCalls' = fileCalls,
         timers' = timers \/ timers' = timers \ {id}
  PROVE  FilesInv'
<1>1. CASE id \notin DOMAIN queued
  <2>1. queued' = queued /\ answers' = answers /\ DOMAIN queued \subseteq timers'
    BY <1>1 DEF Files!RespondSupportCheck, FilesInv
  <2>. QED BY <2>1 DEF FilesInv
<1>2. CASE id \in DOMAIN queued
  <2>. DEFINE call == queued[id]
  <2>1. /\ answers' = [answers EXCEPT ![call] = @ + 1]
        /\ queued' = [i \in DOMAIN queued \ {id} |-> queued[i]]
    BY <1>2 DEF Files!RespondSupportCheck, Files!Answered
  <2>2. call \in 1 .. MaxFiles /\ call <= fileCalls /\ answers[call] = 0
    BY <1>2 DEF FilesInv
  <2>3. /\ DOMAIN queued' = DOMAIN queued \ {id}
        /\ \A i \in DOMAIN queued' : queued'[i] = queued[i]
    BY <2>1
  <2>4. /\ answers' \in [1 .. MaxFiles -> {0, 1}]
        /\ answers'[call] = 1 /\ \A c \in 1 .. MaxFiles : c # call => answers'[c] = answers[c]
    BY <2>1, <2>2 DEF FilesInv
  <2>. HIDE DEF call
  <2>5. \A i \in DOMAIN queued : i # id => queued[i] # call
    BY <1>2 DEF FilesInv, call
  <2>6. DOMAIN queued' \subseteq timers'
    BY <2>1, <2>3 DEF FilesInv
  <2>7. \A i \in DOMAIN queued' : /\ queued'[i] \in 1 .. MaxFiles /\ queued'[i] <= fileCalls'
                                  /\ answers'[queued'[i]] = 0
    BY <2>3, <2>4, <2>5 DEF FilesInv
  <2>8. \A i, j \in DOMAIN queued' : queued'[i] = queued'[j] => i = j
    BY <2>3 DEF FilesInv
  <2>9. ASSUME NEW c \in 1 .. MaxFiles
        PROVE  /\ c > fileCalls' => answers'[c] = 0
               /\ c <= fileCalls' /\ answers'[c] = 0 => \E i \in DOMAIN queued' : queued'[i] = c
    <3>1. CASE c = call
      BY <2>2, <2>4, <3>1 DEF FilesInv
    <3>2. CASE c # call
      <4>1. answers'[c] = answers[c] /\ queued[id] # c
        BY <2>4, <3>2 DEF call
      <4>. QED BY <2>3, <4>1 DEF FilesInv
    <3>. QED BY <3>1, <3>2
  <2>. QED BY <2>4, <2>6, <2>7, <2>8, <2>9 DEF FilesInv
<1>. QED BY <1>1, <1>2

LEMMA CheckKeeps == FilesInv /\ Files!CheckSupported => FilesInv'
<1>. SUFFICES ASSUME FilesInv, Files!CheckSupported PROVE FilesInv'
  OBVIOUS
<1>. DEFINE call == fileCalls + 1
<1>1. /\ fileCalls' = call /\ call \in 1 .. MaxFiles /\ nextCallId \notin timers
      /\ fileCalls \in Nat /\ MaxFiles \in Nat
  <2>1. fileCalls \in Nat /\ MaxFiles \in Nat
    BY ServicesAssumption DEF FilesInv
  <2>. QED BY <2>1 DEF Files!CheckSupported, Files!Room
<1>2. answers[call] = 0 /\ \A i \in DOMAIN queued : queued[i] # call
  BY <1>1 DEF FilesInv
<1>. HIDE DEF call
<1>3. CASE connected
  <2>1. /\ DOMAIN queued' = DOMAIN queued \cup {nextCallId}
        /\ \A i \in DOMAIN queued' : queued'[i] = IF i = nextCallId THEN call ELSE queued[i]
        /\ timers' = timers \cup {nextCallId} /\ answers' = answers
    BY <1>1, <1>3 DEF Files!CheckSupported
  <2>2. nextCallId \notin DOMAIN queued
    BY <1>1 DEF FilesInv
  <2>3. DOMAIN queued' \subseteq timers'
    BY <2>1 DEF FilesInv
  <2>4. \A i \in DOMAIN queued' : /\ queued'[i] \in 1 .. MaxFiles /\ queued'[i] <= fileCalls'
                                  /\ answers'[queued'[i]] = 0
    BY <1>1, <1>2, <2>1 DEF FilesInv, call
  <2>5. \A i, j \in DOMAIN queued' : queued'[i] = queued'[j] => i = j
    BY <1>2, <2>1, <2>2 DEF FilesInv
  <2>6. ASSUME NEW c \in 1 .. MaxFiles
        PROVE  /\ c > fileCalls' => answers'[c] = 0
               /\ c <= fileCalls' /\ answers'[c] = 0 => \E i \in DOMAIN queued' : queued'[i] = c
    <3>1. CASE c = call
      BY <1>1, <1>2, <2>1, <3>1 DEF call
    <3>2. CASE c # call
      <4>1. (c > fileCalls' => c > fileCalls) /\ (c <= fileCalls' => c <= fileCalls)
        BY <1>1, <3>2 DEF call
      <4>. QED BY <2>1, <2>2, <4>1 DEF FilesInv
    <3>. QED BY <3>1, <3>2
  <2>7. fileCalls' \in Nat
    BY <1>1
  <2>. QED BY <2>1, <2>3, <2>4, <2>5, <2>6, <2>7 DEF FilesInv
<1>4. CASE ~connected
  <2>1. /\ answers' = [answers EXCEPT ![call] = @ + 1] /\ queued' = queued /\ timers' = timers
    BY <1>1, <1>4 DEF Files!CheckSupported, Files!Answered
  <2>2. /\ answers' \in [1 .. MaxFiles -> {0, 1}]
        /\ answers'[call] = 1 /\ \A c \in 1 .. MaxFiles : c # call => answers'[c] = answers[c]
    BY <1>1, <1>2, <2>1 DEF FilesInv
  <2>3. \A i \in DOMAIN queued' : /\ queued'[i] \in 1 .. MaxFiles /\ queued'[i] <= fileCalls'
                                  /\ answers'[queued'[i]] = 0
    BY <1>1, <1>2, <2>1, <2>2 DEF FilesInv, call
  <2>4. ASSUME NEW c \in 1 .. MaxFiles
        PROVE  /\ c > fileCalls' => answers'[c] = 0
               /\ c <= fileCalls' /\ answers'[c] = 0 => \E i \in DOMAIN queued' : queued'[i] = c
    <3>1. CASE c = call
      BY <1>1, <2>2, <3>1 DEF call
    <3>2. CASE c # call
      <4>1. (c > fileCalls' => c > fileCalls) /\ (c <= fileCalls' => c <= fileCalls)
        BY <1>1, <3>2 DEF call
      <4>. QED BY <2>1, <2>2, <3>2, <4>1 DEF FilesInv
    <3>. QED BY <3>1, <3>2
  <2>5. fileCalls' \in Nat
    BY <1>1
  <2>. QED BY <2>1, <2>2, <2>3, <2>4, <2>5 DEF FilesInv
<1>. QED BY <1>3, <1>4

LEMMA NextFiles == FilesInv /\ Files!Next => FilesInv'
<1>. SUFFICES ASSUME FilesInv, Files!Next PROVE FilesInv'
  OBVIOUS
<1>1. CASE Files!CheckSupported
  BY <1>1, CheckKeeps
<1>2. CASE Files!SceneConnects
  BY <1>2 DEF Files!SceneConnects, FilesInv
<1>3. ASSUME NEW id \in 0 .. Ids - 1, Files!SceneAnswers(id) PROVE FilesInv'
  BY <1>3, AnswerKeeps DEF Files!SceneAnswers
<1>4. ASSUME NEW id \in 0 .. Ids - 1, Files!Timeout(id) PROVE FilesInv'
  BY <1>4, AnswerKeeps DEF Files!Timeout
<1>. QED BY <1>1, <1>2, <1>3, <1>4 DEF Files!Next

(* For any number of ids and calls: a caller of the file service gets one    *)
(* answer at most, whoever is first and whichever ids are used again, and a  *)
(* call without an answer has a timer that will give it one: the safety part *)
(* of RequestsAnswered.                                                      *)
THEOREM CallersAnsweredOnce == Spec => [](part = "files" => Files!AnsweredOnce)
<1>1. Init => FilesInv
  BY InitFiles DEF Init
<1>2. FilesInv /\ [Next]_vars => FilesInv'
  BY NextFiles, FilesKept DEF Next, vars
<1>3. FilesInv => Files!AnsweredOnce
  BY DEF FilesInv, Files!AnsweredOnce
<1>. QED BY <1>1, <1>2, <1>3, PTL DEF Spec

-----------------------------------------------------------------------------
(* Screenshots *)

ShotTypes ==
  /\ results \in [Shots!Shots -> {"none", "Writing", "Finished", "Error", "gone"}]
  /\ eventFd \in [Shots!Shots -> {"empty", "Finished", "Error"}]
  /\ writer \in [Shots!Shots -> {"none", "queued", "saved", "failed"}]
  /\ finished \in [Shots!Shots -> {0, 1}]

(* The status is on its way from the writer to the result exactly while the  *)
(* result is "Writing": with the writer first, then in the descriptor; and   *)
(* a notifier is about to be activated for a status that is still there.     *)
ShotInv(i) ==
  /\ writer[i] = "none" <=> results[i] = "none"
  /\ writer[i] = "queued" <=> results[i] = "Writing" /\ eventFd[i] = "empty"
  /\ eventFd[i] # "empty" => results[i] = "Writing"
  /\ eventFd[i] = "Finished" \/ results[i] = "Finished" => writer[i] = "saved"
  /\ eventFd[i] = "Error" \/ results[i] = "Error" => writer[i] = "failed"
  /\ finished[i] = 1 => results[i] \notin {"none", "Writing"}
  /\ i \in deleting => results[i] \in {"Finished", "Error"}
  /\ i \in activated /\ results[i] = "Writing" => eventFd[i] # "empty"
  /\ i \in activated => results[i] # "none"

ShotsInv ==
  /\ ShotTypes
  /\ \A i \in Shots!Shots : ShotInv(i)
  /\ waitingFor \in Shots!Shots \cup {0}
  /\ waitingFor # 0 => results[waitingFor] = "Writing"

LEMMA InitShots == Shots!Init => ShotsInv
<1>. SUFFICES ASSUME Shots!Init PROVE ShotsInv
  OBVIOUS
<1>. USE DEF Shots!Init, Shots!None
<1>1. ShotTypes
  BY DEF ShotTypes
<1>2. \A i \in Shots!Shots : ShotInv(i)
  BY DEF ShotInv
<1>. QED BY <1>1, <1>2 DEF ShotsInv

LEMMA ShotsKept == ShotsInv /\ UNCHANGED shotVars => ShotsInv'
<1>. SUFFICES ASSUME ShotsInv, UNCHANGED shotVars PROVE ShotsInv'
  OBVIOUS
<1>. USE DEF shotVars, Shots!Shots
<1>1. ShotTypes'
  BY DEF ShotTypes, ShotsInv
<1>2. (\A i \in Shots!Shots : ShotInv(i))'
  BY DEF ShotInv, ShotsInv
<1>. QED BY <1>1, <1>2 DEF ShotsInv

(* A step that concerns one result.                                          *)
LEMMA OneShot ==
  ASSUME ShotsInv, NEW i \in Shots!Shots, ShotTypes', ShotInv(i)',
         \A j \in Shots!Shots : j # i =>
            /\ results'[j] = results[j] /\ eventFd'[j] = eventFd[j] /\ writer'[j] = writer[j]
            /\ finished'[j] = finished[j]
            /\ (j \in deleting' => j \in deleting) /\ (j \in activated' => j \in activated),
         waitingFor' \in {0, waitingFor, i}, waitingFor' = i => results'[i] = "Writing"
  PROVE  ShotsInv'
<1>1. \A j \in Shots!Shots : j # i => ShotInv(j)'
  BY DEF ShotInv, ShotsInv
<1>2. (\A j \in Shots!Shots : ShotInv(j))'
  BY <1>1 DEF Shots!Shots
<1>3. (waitingFor \in Shots!Shots \cup {0} /\ (waitingFor # 0 => results[waitingFor] = "Writing"))'
  BY DEF ShotsInv, Shots!Shots
<1>. QED BY <1>2, <1>3 DEF ShotsInv

(* Reading the status of a result that is written.                           *)
LEMMA ReadKeeps ==
  ASSUME ShotsInv, NEW i \in Shots!Shots, results[i] = "Writing", Shots!ReadStatus(i),
         writer' = writer, activated' = activated \/ activated' = activated \ {i},
         \/ finished' = finished
         \/ finished' = [finished EXCEPT ![i] = @ + 1] /\ eventFd[i] # "empty"
  PROVE  ShotsInv'
<1>0. ShotTypes /\ ShotInv(i)
  BY DEF ShotsInv
<1>1. finished[i] = 0
  BY <1>0 DEF ShotInv, ShotTypes
<1>2. CASE eventFd[i] = "empty"
  <2>1. waitingFor' = i /\ results' = results /\ deleting' = deleting /\ eventFd' = eventFd
        /\ finished' = finished
    BY <1>2 DEF Shots!ReadStatus
  <2>2. ShotTypes'
    BY <1>0, <2>1 DEF ShotTypes, Shots!Shots
  <2>3. ShotInv(i)'
    BY <1>0, <2>1 DEF ShotInv
  <2>. QED BY <2>1, <2>2, <2>3, OneShot
<1>3. CASE eventFd[i] # "empty"
  <2>1. /\ results' = [results EXCEPT ![i] = eventFd[i]]
        /\ eventFd' = [eventFd EXCEPT ![i] = "empty"]
        /\ deleting' = deleting \cup {i} /\ waitingFor' = 0
    BY <1>3 DEF Shots!ReadStatus, Shots!None
  <2>2. eventFd[i] \in {"Finished", "Error"}
    BY <1>0, <1>3 DEF ShotTypes
  <2>3. /\ results'[i] = eventFd[i] /\ eventFd'[i] = "empty" /\ finished'[i] \in {0, 1}
        /\ \A j \in Shots!Shots : j # i =>
              results'[j] = results[j] /\ eventFd'[j] = eventFd[j] /\ finished'[j] = finished[j]
    BY <1>0, <1>1, <2>1 DEF ShotTypes
  <2>4. ShotTypes'
    <3>1. /\ results' \in [Shots!Shots -> {"none", "Writing", "Finished", "Error", "gone"}]
          /\ eventFd' \in [Shots!Shots -> {"empty", "Finished", "Error"}]
          /\ writer' \in [Shots!Shots -> {"none", "queued", "saved", "failed"}]
          /\ finished' \in [Shots!Shots -> {0, 1}]
      BY <1>0, <1>1, <2>1, <2>2 DEF ShotTypes
    <3>. QED BY <3>1 DEF ShotTypes, Shots!Shots
  <2>5. ShotInv(i)'
    BY <1>0, <2>1, <2>2, <2>3 DEF ShotInv
  <2>6. \A j \in Shots!Shots : j # i =>
            (j \in deleting' => j \in deleting) /\ (j \in activated' => j \in activated)
    BY <2>1
  <2>7. waitingFor' # i
    BY <2>1 DEF Shots!Shots
  <2>. QED BY <2>1, <2>3, <2>4, <2>5, <2>6, <2>7, OneShot
<1>. QED BY <1>2, <1>3

LEMMA NextShots == ShotsInv /\ Shots!Next => ShotsInv'
<1>. SUFFICES ASSUME ShotsInv, Shots!Next PROVE ShotsInv'
  OBVIOUS
<1>0. ShotTypes /\ \A i \in Shots!Shots : ShotInv(i)
  BY DEF ShotsInv
<1>1. CASE Shots!Woken
  <2>1. waitingFor \in Shots!Shots /\ results[waitingFor] = "Writing"
    BY <1>1 DEF Shots!Woken, Shots!None, ShotsInv
  <2>. QED BY <1>1, <2>1, ReadKeeps DEF Shots!Woken
<1>2. ASSUME NEW i \in Shots!Shots, Shots!WaitForFinished(i) PROVE ShotsInv'
  <2>1. /\ results[i] = "Writing" /\ Shots!ReadStatus(i)
        /\ writer' = writer /\ activated' = activated /\ finished' = finished
    BY <1>2 DEF Shots!WaitForFinished
  <2>. QED BY <2>1, ReadKeeps
<1>3. ASSUME NEW i \in Shots!Shots, Shots!NotifierActivated(i) PROVE ShotsInv'
  <2>1. CASE results[i] = "Writing"
    <3>1. Shots!Made(i)
      BY <2>1 DEF Shots!Made
    <3>2. eventFd[i] # "empty"
      BY <1>0, <1>3, <2>1 DEF Shots!NotifierActivated, ShotInv
    <3>3. /\ Shots!ReadStatus(i) /\ finished' = [finished EXCEPT ![i] = @ + 1]
          /\ writer' = writer /\ activated' = activated \ {i}
      BY <1>3, <2>1, <3>1 DEF Shots!NotifierActivated
    <3>. QED BY <2>1, <3>2, <3>3, ReadKeeps
  <2>2. CASE results[i] # "Writing"
    <3>1. /\ UNCHANGED <<results, deleting, eventFd, finished, waitingFor, writer>>
          /\ activated' \subseteq activated
      BY <1>3, <2>2 DEF Shots!NotifierActivated
    <3>2. ShotTypes'
      BY <1>0, <3>1 DEF ShotTypes, Shots!Shots
    <3>3. (\A j \in Shots!Shots : ShotInv(j))'
      BY <1>0, <3>1 DEF ShotInv, Shots!Shots
    <3>4. (waitingFor \in Shots!Shots \cup {0} /\ (waitingFor # 0 => results[waitingFor] = "Writing"))'
      BY <3>1 DEF ShotsInv, Shots!Shots
    <3>. QED BY <3>2, <3>3, <3>4 DEF ShotsInv
  <2>. QED BY <2>1, <2>2
<1>4. ASSUME NEW i \in Shots!Shots, Shots!Poll(i) PROVE ShotsInv'
  <2>1. /\ UNCHANGED <<results, deleting, eventFd, finished, waitingFor, writer>>
        /\ activated' = activated \cup {i} /\ eventFd[i] # "empty" /\ results[i] # "none"
    BY <1>4 DEF Shots!Poll, Shots!Made
  <2>2. ShotTypes'
    BY <1>0, <2>1 DEF ShotTypes, Shots!Shots
  <2>3. (\A j \in Shots!Shots : ShotInv(j))'
    BY <1>0, <2>1 DEF ShotInv, Shots!Shots
  <2>4. (waitingFor \in Shots!Shots \cup {0} /\ (waitingFor # 0 => results[waitingFor] = "Writing"))'
    BY <2>1 DEF ShotsInv, Shots!Shots
  <2>. QED BY <2>2, <2>3, <2>4 DEF ShotsInv
<1>5. ASSUME NEW i \in Shots!Shots, NEW hasPath \in BOOLEAN, Shots!SaveScreenshot(i, hasPath)
      PROVE  ShotsInv'
  <2>. DEFINE status == IF hasPath THEN "empty" ELSE "Error"
              did == IF hasPath THEN "queued" ELSE "failed"
  <2>1. /\ results[i] = "none"
        /\ results' = [results EXCEPT ![i] = "Writing"]
        /\ eventFd' = [eventFd EXCEPT ![i] = status]
        /\ writer' = [writer EXCEPT ![i] = did]
        /\ UNCHANGED <<deleting, activated, finished, waitingFor>>
    BY <1>5 DEF Shots!SaveScreenshot
  <2>2. /\ results'[i] = "Writing" /\ eventFd'[i] = status /\ writer'[i] = did
        /\ \A j \in Shots!Shots : j # i =>
              results'[j] = results[j] /\ eventFd'[j] = eventFd[j] /\ writer'[j] = writer[j]
    BY <1>0, <2>1 DEF ShotTypes
  <2>3. ShotTypes'
    <3>1. /\ results' \in [Shots!Shots -> {"none", "Writing", "Finished", "Error", "gone"}]
          /\ eventFd' \in [Shots!Shots -> {"empty", "Finished", "Error"}]
          /\ writer' \in [Shots!Shots -> {"none", "queued", "saved", "failed"}]
          /\ finished' \in [Shots!Shots -> {0, 1}]
      BY <1>0, <2>1 DEF ShotTypes
    <3>. QED BY <3>1 DEF ShotTypes, Shots!Shots
  <2>4. ShotInv(i) /\ finished'[i] = finished[i] /\ finished[i] \in {0, 1}
    BY <1>0, <2>1 DEF ShotTypes
  <2>5. ShotInv(i)'
    <3>1. i \notin activated' /\ i \notin deleting' /\ finished'[i] = 0
      BY <2>1, <2>4 DEF ShotInv
    <3>. QED BY <2>2, <3>1 DEF ShotInv
  <2>. QED BY <2>1, <2>2, <2>3, <2>5, OneShot
<1>6. ASSUME NEW i \in Shots!Shots, Shots!Run(i) PROVE ShotsInv'
  <2>1. PICK outcome \in {"saved", "failed"} : writer' = [writer EXCEPT ![i] = outcome]
    BY <1>6 DEF Shots!Run
  <2>2. writer'[i] = outcome /\ \A j \in Shots!Shots : j # i => writer'[j] = writer[j]
    BY <1>0, <2>1 DEF ShotTypes
  <2>3. /\ writer[i] = "queued"
        /\ eventFd' = [eventFd EXCEPT ![i] = IF outcome = "saved" THEN "Finished" ELSE "Error"]
        /\ UNCHANGED <<results, deleting, activated, finished, waitingFor>>
    BY <1>6, <2>2 DEF Shots!Run
  <2>4. /\ eventFd'[i] = IF outcome = "saved" THEN "Finished" ELSE "Error"
        /\ \A j \in Shots!Shots : j # i => eventFd'[j] = eventFd[j]
    BY <1>0, <2>3 DEF ShotTypes
  <2>5. ShotTypes'
    <3>1. /\ results' \in [Shots!Shots -> {"none", "Writing", "Finished", "Error", "gone"}]
          /\ eventFd' \in [Shots!Shots -> {"empty", "Finished", "Error"}]
          /\ writer' \in [Shots!Shots -> {"none", "queued", "saved", "failed"}]
          /\ finished' \in [Shots!Shots -> {0, 1}]
      BY <1>0, <2>1, <2>3 DEF ShotTypes
    <3>. QED BY <3>1 DEF ShotTypes, Shots!Shots
  <2>6. ShotInv(i)'
    BY <1>0, <2>2, <2>3, <2>4 DEF ShotInv
  <2>7. waitingFor' = i => results'[i] = "Writing"
    BY <1>0, <2>3 DEF ShotInv
  <2>. QED BY <2>2, <2>3, <2>4, <2>5, <2>6, <2>7, OneShot
<1>7. ASSUME NEW i \in Shots!Shots, Shots!Deleted(i) PROVE ShotsInv'
  <2>1. /\ i \in deleting /\ deleting' = deleting \ {i} /\ activated' = activated \ {i}
        /\ results' = [results EXCEPT ![i] = "gone"]
        /\ UNCHANGED <<eventFd, writer, finished, waitingFor>> /\ waitingFor = 0
    BY <1>7 DEF Shots!Deleted, Shots!MainThread, Shots!None
  <2>2. results'[i] = "gone" /\ \A j \in Shots!Shots : j # i => results'[j] = results[j]
    BY <1>0, <2>1 DEF ShotTypes
  <2>3. ShotTypes'
    <3>1. results' \in [Shots!Shots -> {"none", "Writing", "Finished", "Error", "gone"}]
      BY <1>0, <2>1 DEF ShotTypes
    <3>. QED BY <1>0, <2>1, <3>1 DEF ShotTypes, Shots!Shots
  <2>4. ShotInv(i)'
    BY <1>0, <2>1, <2>2 DEF ShotInv
  <2>5. waitingFor' # i
    BY <2>1 DEF Shots!Shots
  <2>. QED BY <2>1, <2>2, <2>3, <2>4, <2>5, OneShot
<1>. QED BY <1>1, <1>2, <1>3, <1>4, <1>5, <1>6, <1>7 DEF Shots!Next

(* For any number of screenshots, in every order of the threads of the pool, *)
(* the event loop and those that wait: a result reports what its own writer  *)
(* did, and once; and the main thread never blocks on a descriptor that      *)
(* nobody will write: the safety part of ShotsReported.                      *)
THEOREM ShotsAreTrue == Spec => [](Shots!StatusOfWriter /\ Shots!WriterComes)
<1>1. Init => ShotsInv
  BY InitShots DEF Init
<1>2. ShotsInv /\ [Next]_vars => ShotsInv'
  BY NextShots, ShotsKept DEF Next, vars
<1>3. ShotsInv => Shots!StatusOfWriter /\ Shots!WriterComes
  <2>. SUFFICES ASSUME ShotsInv PROVE Shots!StatusOfWriter /\ Shots!WriterComes
    OBVIOUS
  <2>1. Shots!StatusOfWriter
    BY DEF ShotsInv, ShotTypes, ShotInv, Shots!StatusOfWriter
  <2>2. Shots!WriterComes
    BY DEF ShotsInv, ShotInv, Shots!WriterComes, Shots!None
  <2>. QED BY <2>1, <2>2
<1>. QED BY <1>1, <1>2, <1>3, PTL DEF Spec

-----------------------------------------------------------------------------
(* The recorder *)

Answers == [kind : {"frame", "failed"}, buffer : Buffers]

Nothing(r) == requests[r] = 0 /\ recording[r] = 0 /\ events[r] = <<>>
Idle(r) == Nothing(r) /\ bufferResource[r] = 0 /\ r \notin asking
Given(r) == bufferResource[r] \in Buffers \ destroyed /\ shmBuffer[r] = bufferResource[r]
Asked(r) == Nothing(r) /\ Given(r) /\ r \in asking
Requested(r) ==
  /\ Given(r) /\ r \notin asking /\ events[r] = <<>>
  /\ requests[r] = 1 /\ recording[r] \in {0, 1}
Rendered(r) ==
  /\ bufferResource[r] # 0 /\ r \notin asking /\ requests[r] = 0 /\ recording[r] = 0
  /\ events[r] = <<Recorder!Event("frame", bufferResource[r])>>

RecorderType(r) ==
  /\ shmBuffer[r] \in Buffers \cup {0}
  /\ requests[r] \in Nat /\ recording[r] \in Nat /\ events[r] \in Seq(Answers)

(* A recorder that does not exist is in nothing; one whose client waits for  *)
(* each answer is asked for nothing, about to enter the requests, in them    *)
(* once, or about to be told of its only frame.                              *)
RecorderIs(r) ==
  /\ RecorderType(r)
  /\ r \notin recorders => Idle(r) /\ r \notin loose
  /\ r \in recorders \ loose => Idle(r) \/ Asked(r) \/ Requested(r) \/ Rendered(r)

RecorderInv ==
  /\ DOMAIN bufferResource = Recorders /\ DOMAIN shmBuffer = Recorders
  /\ DOMAIN requests = Recorders /\ DOMAIN recording = Recorders /\ DOMAIN events = Recorders
  /\ \A q, r \in asking : q = r
  /\ \A r \in Recorders : RecorderIs(r)

LEMMA InitRecorder == Recorder!Init => RecorderInv
BY DEF Recorder!Init, Recorder!None, RecorderInv, RecorderIs, RecorderType, Idle, Nothing

LEMMA RecorderKept == RecorderInv /\ UNCHANGED recorderVars => RecorderInv'
BY DEF RecorderInv, RecorderIs, RecorderType, Idle, Nothing, Given, Asked, Requested, Rendered,
       Recorder!Event, recorderVars

Domains ==
  /\ DOMAIN bufferResource = Recorders /\ DOMAIN shmBuffer = Recorders
  /\ DOMAIN requests = Recorders /\ DOMAIN recording = Recorders /\ DOMAIN events = Recorders

SameRecorder(q) ==
  /\ bufferResource'[q] = bufferResource[q] /\ shmBuffer'[q] = shmBuffer[q]
  /\ requests'[q] = requests[q] /\ recording'[q] = recording[q] /\ events'[q] = events[q]
  /\ (q \in asking') <=> (q \in asking)
  /\ (q \in recorders') <=> (q \in recorders)
  /\ (q \in loose') <=> (q \in loose)

LEMMA OtherRecorder ==
  ASSUME NEW q, RecorderIs(q), SameRecorder(q), destroyed' = destroyed
  PROVE  RecorderIs(q)'
BY DEF SameRecorder, RecorderIs, RecorderType, Idle, Nothing, Given, Asked, Requested, Rendered,
       Recorder!Event

(* A step that concerns one recorder.                                        *)
LEMMA OneRecorder ==
  ASSUME RecorderInv, NEW r \in Recorders, RecorderIs(r)', Domains',
         \A q \in asking' : q = r \/ asking' = asking, destroyed' = destroyed,
         \A q \in Recorders : q # r => SameRecorder(q)
  PROVE  RecorderInv'
<1>1. \A q \in Recorders : q # r => RecorderIs(q)'
  BY OtherRecorder DEF RecorderInv
<1>2. \A p, q \in asking' : p = q
  BY DEF RecorderInv
<1>. QED BY <1>1, <1>2 DEF RecorderInv, Domains

LEMMA RecordKeeps ==
  ASSUME RecorderInv, NEW r \in Recorders, Recorder!RecordFrame(r)
  PROVE  RecorderInv'
<1>1. /\ recording[r] > 0 /\ recording' = [recording EXCEPT ![r] = @ - 1]
      /\ UNCHANGED <<recorders, bufferResource, shmBuffer, asking, destroyed>>
  BY DEF Recorder!RecordFrame
<1>2. RecorderIs(r) /\ Domains
  BY DEF RecorderInv, Domains
<1>3. recording'[r] \in Nat /\ recording'[r] = recording[r] - 1 /\ r \in recorders
  BY <1>1, <1>2 DEF RecorderIs, RecorderType, Idle, Nothing, Domains
<1>4. r \in loose \/ (Requested(r) /\ recording[r] = 1)
  BY <1>1, <1>2, <1>3 DEF RecorderIs, Idle, Nothing, Asked, Requested, Rendered
<1>5. CASE shmBuffer[r] = 0
  <2>1. UNCHANGED <<requests, events, loose>>
    BY <1>5 DEF Recorder!RecordFrame, Recorder!None
  <2>2. r \in loose
    BY <1>4, <1>5, ServicesAssumption DEF Requested, Given
  <2>3. RecorderIs(r)'
    BY <1>1, <1>2, <1>3, <2>1, <2>2 DEF RecorderIs, RecorderType
  <2>4. \A q \in Recorders : q # r => SameRecorder(q)
    BY <1>1, <2>1 DEF SameRecorder
  <2>. QED BY <1>1, <1>2, <2>1, <2>3, <2>4, OneRecorder DEF Domains
<1>6. CASE shmBuffer[r] # 0
  <2>1. PICK kind \in Recorder!Outcomes(shmBuffer[r]) :
           /\ events' = [events EXCEPT ![r] = Append(@, Recorder!Event(kind, shmBuffer[r]))]
           /\ IF kind = "frame"
              THEN requests' = [requests EXCEPT ![r] = 0] /\ UNCHANGED loose
              ELSE loose' = loose \cup {r} /\ UNCHANGED requests
    BY <1>6 DEF Recorder!RecordFrame, Recorder!None, Recorder!RemoveRequests
  <2>2. Recorder!Event(kind, shmBuffer[r]) \in Answers
    BY <1>2, <1>6, <2>1 DEF Recorder!Outcomes, Recorder!Event, Answers, RecorderIs, RecorderType
  <2>3. events'[r] = Append(events[r], Recorder!Event(kind, shmBuffer[r]))
    BY <1>2, <2>1 DEF Domains
  <2>4. events'[r] \in Seq(Answers) /\ requests'[r] \in Nat
    BY <1>2, <2>1, <2>2, <2>3 DEF RecorderIs, RecorderType, Domains
  <2>5. RecorderType(r)'
    BY <1>1, <1>2, <1>3, <2>4 DEF RecorderIs, RecorderType
  <2>6. ASSUME r \notin loose' PROVE Rendered(r)'
    <3>1. kind = "frame" /\ r \notin loose
      BY <2>1, <2>6
    <3>2. Requested(r) /\ recording[r] = 1
      BY <1>4, <3>1
    <3>3. requests'[r] = 0 /\ recording'[r] = 0
      BY <1>2, <1>3, <2>1, <3>1, <3>2 DEF Domains
    <3>4. events'[r] = <<Recorder!Event("frame", bufferResource[r])>>
      BY <2>3, <3>1, <3>2 DEF Requested, Given
    <3>5. bufferResource[r] # 0 /\ r \notin asking
      BY <3>2, <1>6 DEF Requested, Given
    <3>. QED BY <1>1, <3>3, <3>4, <3>5 DEF Rendered, Recorder!Event
  <2>7. RecorderIs(r)'
    BY <1>1, <1>3, <2>5, <2>6 DEF RecorderIs
  <2>8. ASSUME NEW q \in Recorders, q # r PROVE SameRecorder(q)
    <3>1. events'[q] = events[q] /\ recording'[q] = recording[q]
      BY <1>1, <1>2, <2>1, <2>8 DEF Domains
    <3>2. requests'[q] = requests[q] /\ (q \in loose' <=> q \in loose)
      BY <1>2, <2>1, <2>8 DEF Domains
    <3>. QED BY <1>1, <3>1, <3>2 DEF SameRecorder
  <2>. QED BY <1>1, <1>2, <2>1, <2>7, <2>8, OneRecorder DEF Domains
<1>. QED BY <1>5, <1>6

LEMMA RequestKeeps ==
  ASSUME RecorderInv, NEW r \in Recorders, NEW buffer \in Buffers,
         Recorder!RecordFrameRequest(r, buffer)
  PROVE  RecorderInv'
<1>0. 0 \notin Buffers
  BY ServicesAssumption
<1>1. /\ asking = {} /\ r \in recorders /\ buffer \notin destroyed
      /\ loose' = IF bufferResource[r] # 0 THEN loose \cup {r} ELSE loose
      /\ UNCHANGED <<recorders, requests, recording, events, destroyed>>
  BY DEF Recorder!RecordFrameRequest, Recorder!None
<1>2. RecorderIs(r) /\ Domains
  BY DEF RecorderInv, Domains
<1>3. r \notin loose' => Idle(r)
  BY <1>0, <1>1, <1>2 DEF RecorderIs, Asked, Requested, Given, Rendered
<1>4. CASE buffer \in OtherBuffers
  <2>1. /\ bufferResource' = [bufferResource EXCEPT ![r] = 0]
        /\ shmBuffer' = [shmBuffer EXCEPT ![r] = 0] /\ asking' = asking
    BY <1>4 DEF Recorder!RecordFrameRequest, Recorder!None
  <2>2. RecorderIs(r)'
    BY <1>1, <1>2, <1>3, <2>1 DEF RecorderIs, RecorderType, Idle, Nothing, Domains
  <2>3. \A q \in Recorders : q # r => SameRecorder(q)
    BY <1>1, <2>1 DEF SameRecorder
  <2>. QED BY <1>1, <1>2, <2>1, <2>2, <2>3, OneRecorder DEF Domains
<1>5. CASE buffer \notin OtherBuffers
  <2>1. /\ bufferResource' = [bufferResource EXCEPT ![r] = buffer]
        /\ shmBuffer' = [shmBuffer EXCEPT ![r] = buffer] /\ asking' = {r}
    BY <1>5 DEF Recorder!RecordFrameRequest
  <2>2. r \notin loose' => Asked(r)'
    BY <1>0, <1>1, <1>2, <1>3, <2>1 DEF Idle, Asked, Given, Nothing, Domains
  <2>3. RecorderIs(r)'
    BY <1>1, <1>2, <2>1, <2>2 DEF RecorderIs, RecorderType, Domains
  <2>4. \A q \in Recorders : q # r => SameRecorder(q)
    BY <1>1, <2>1 DEF SameRecorder
  <2>. QED BY <1>1, <1>2, <2>1, <2>3, <2>4, OneRecorder DEF Domains
<1>. QED BY <1>4, <1>5

LEMMA HandleKeeps ==
  ASSUME RecorderInv, NEW r \in Recorders, Recorder!HandleEvent(r)
  PROVE  RecorderInv'
<1>1. /\ asking = {} /\ events[r] # <<>> /\ events' = [events EXCEPT ![r] = Tail(@)]
      /\ bufferResource' = [bufferResource EXCEPT ![r] = 0]
      /\ loose' = IF Len(events[r]) = 1 /\ requests[r] = 0 /\ recording[r] = 0
                  THEN loose \ {r} ELSE loose
      /\ UNCHANGED <<recorders, shmBuffer, asking, requests, recording, destroyed>>
  BY DEF Recorder!HandleEvent, Recorder!None, Recorder!frameVars
<1>2. RecorderIs(r) /\ Domains
  BY DEF RecorderInv, Domains
<1>3. events'[r] = Tail(events[r]) /\ events[r] \in Seq(Answers) /\ bufferResource'[r] = 0
  BY <1>1, <1>2 DEF RecorderIs, RecorderType, Domains
<1>4. events'[r] \in Seq(Answers) /\ (Len(events[r]) = 1 => events'[r] = <<>>)
  <2>1. PICK s : s = events[r]
    OBVIOUS
  <2>2. s \in Seq(Answers) /\ s # <<>>
    BY <1>1, <1>3, <2>1
  <2>3. Tail(s) \in Seq(Answers) /\ Len(Tail(s)) = Len(s) - 1
    BY <2>2
  <2>4. Len(s) = 1 => Tail(s) = <<>>
    <3>1. PICK t : t = Tail(s)
      OBVIOUS
    <3>2. t \in Seq(Answers) /\ (Len(s) = 1 => Len(t) = 0)
      BY <2>3, <3>1
    <3>3. t # <<>> => Len(t) \in Nat \ {0}
      BY <3>2, EmptySeq
    <3>. QED BY <3>1, <3>2, <3>3
  <2>. QED BY <1>3, <2>1, <2>3, <2>4
<1>5. ASSUME r \in recorders, r \notin loose' PROVE Idle(r)'
  <2>1. requests[r] = 0 /\ recording[r] = 0 /\ Len(events[r]) = 1
    BY <1>1, <1>2, <1>5 DEF RecorderIs, Idle, Nothing, Asked, Requested, Rendered
  <2>. QED BY <1>1, <1>3, <1>4, <2>1 DEF Idle, Nothing
<1>6. r \in recorders
  BY <1>1, <1>2 DEF RecorderIs, Idle, Nothing
<1>7. RecorderIs(r)'
  BY <1>1, <1>2, <1>4, <1>5, <1>6 DEF RecorderIs, RecorderType
<1>8. \A q \in Recorders : q # r => SameRecorder(q)
  BY <1>1 DEF SameRecorder
<1>. QED BY <1>1, <1>2, <1>7, <1>8, OneRecorder DEF Domains

LEMMA NextRecorder == ASSUME RecorderInv, Recorder!Next PROVE RecorderInv'
<1>0. 0 \notin Buffers
  BY ServicesAssumption
<1>1. CASE Recorder!Render
  <2>1. /\ \A r \in Recorders : ~(recording[r] > 0)
        /\ recording' = requests
        /\ UNCHANGED <<recorders, bufferResource, shmBuffer, asking, requests, events, destroyed,
                       loose>>
    BY <1>1 DEF Recorder!Render, Recorder!Locked
  <2>2. ASSUME NEW r \in Recorders PROVE RecorderIs(r)'
    <3>1. RecorderIs(r) /\ recording'[r] = requests[r]
      BY <2>1 DEF RecorderInv
    <3>2. RecorderType(r)'
      BY <2>1, <3>1 DEF RecorderIs, RecorderType
    <3>. QED BY <2>1, <3>1, <3>2 DEF RecorderIs, Idle, Nothing, Given, Asked, Requested, Rendered,
                Recorder!Event
  <2>. QED BY <2>1, <2>2 DEF RecorderInv
<1>2. CASE Recorder!Expose
  BY <1>2 DEF Recorder!Expose, Recorder!frameVars, RecorderInv, RecorderIs, RecorderType, Idle,
     Nothing, Given, Asked, Requested, Rendered, Recorder!Event
<1>3. ASSUME NEW r \in Recorders, Recorder!CreateRecorder(r) PROVE RecorderInv'
  <2>1. /\ r \notin recorders /\ recorders' = recorders \cup {r}
        /\ UNCHANGED <<bufferResource, shmBuffer, asking, requests, recording, events, destroyed,
                       loose>>
    BY <1>3 DEF Recorder!CreateRecorder, Recorder!frameVars
  <2>2. RecorderIs(r) /\ Domains
    BY DEF RecorderInv, Domains
  <2>3. RecorderIs(r)'
    BY <2>1, <2>2 DEF RecorderIs, RecorderType, Idle, Nothing
  <2>4. \A q \in Recorders : q # r => SameRecorder(q)
    BY <2>1 DEF SameRecorder
  <2>. QED BY <2>1, <2>2, <2>3, <2>4, OneRecorder DEF Domains
<1>4. ASSUME NEW r \in Recorders, Recorder!Destroy(r) PROVE RecorderInv'
  <2>1. /\ recorders' = recorders \ {r} /\ loose' = loose \ {r} /\ asking = {}
        /\ ~(recording[r] > 0)
        /\ events' = [events EXCEPT ![r] = <<>>] /\ requests' = [requests EXCEPT ![r] = 0]
        /\ bufferResource' = [bufferResource EXCEPT ![r] = 0]
        /\ shmBuffer' = [shmBuffer EXCEPT ![r] = 0]
        /\ UNCHANGED <<asking, recording, destroyed>>
    BY <1>4 DEF Recorder!Destroy, Recorder!Forget, Recorder!None, Recorder!Locked
  <2>2. RecorderIs(r) /\ Domains
    BY DEF RecorderInv, Domains
  <2>3. /\ recording'[r] = 0 /\ requests'[r] = 0 /\ events'[r] = <<>>
        /\ bufferResource'[r] = 0 /\ shmBuffer'[r] = 0
    BY <2>1, <2>2 DEF RecorderIs, RecorderType, Domains
  <2>4. RecorderIs(r)'
    <3>1. RecorderType(r)'
      BY <2>3 DEF RecorderType
    <3>2. Idle(r)' /\ r \notin recorders' /\ r \notin loose'
      BY <2>1, <2>3 DEF Idle, Nothing
    <3>. QED BY <3>1, <3>2 DEF RecorderIs
  <2>5. \A q \in Recorders : q # r => SameRecorder(q)
    BY <2>1 DEF SameRecorder
  <2>. QED BY <2>1, <2>2, <2>4, <2>5, OneRecorder DEF Domains
<1>5. ASSUME NEW r \in Recorders, Recorder!RequestFrame(r) PROVE RecorderInv'
  <2>1. /\ r \in asking /\ asking' = {} /\ ~(recording[r] > 0)
        /\ requests' = [requests EXCEPT ![r] = @ + 1]
        /\ UNCHANGED <<recorders, bufferResource, shmBuffer, recording, events, destroyed, loose>>
    BY <1>5 DEF Recorder!RequestFrame, Recorder!Locked
  <2>2. RecorderIs(r) /\ Domains /\ \A q \in asking : q = r
    BY <2>1 DEF RecorderInv, Domains
  <2>3. recording[r] = 0 /\ requests[r] \in Nat /\ requests'[r] = requests[r] + 1
    BY <2>1, <2>2 DEF RecorderIs, RecorderType, Domains
  <2>4. RecorderIs(r)'
    BY <2>1, <2>2, <2>3 DEF RecorderIs, RecorderType, Idle, Nothing, Given, Asked, Requested,
       Rendered
  <2>5. \A q \in Recorders : q # r => SameRecorder(q)
    BY <2>1, <2>2 DEF SameRecorder
  <2>. QED BY <2>1, <2>2, <2>4, <2>5, OneRecorder DEF Domains
<1>6. ASSUME NEW r \in Recorders, Recorder!Repaint(r) PROVE RecorderInv'
  BY <1>6 DEF Recorder!Repaint, Recorder!frameVars, RecorderInv, RecorderIs, RecorderType, Idle,
     Nothing, Given, Asked, Requested, Rendered, Recorder!Event
<1>7. ASSUME NEW buffer \in Buffers, Recorder!DestroyBuffer(buffer) PROVE RecorderInv'
  <2>1. /\ destroyed' = destroyed \cup {buffer}
        /\ loose' = loose \cup {r \in Recorders : /\ shmBuffer[r] = buffer
                                                  /\ requests[r] > 0 \/ bufferResource[r] # 0}
        /\ UNCHANGED <<recorders, bufferResource, shmBuffer, asking, requests, recording, events>>
    BY <1>7 DEF Recorder!DestroyBuffer, Recorder!frameVars, Recorder!None
  <2>2. ASSUME NEW r \in Recorders PROVE RecorderIs(r)'
    <3>1. RecorderIs(r)
      BY DEF RecorderInv
    <3>2. RecorderType(r)' /\ (r \notin recorders => Idle(r)' /\ r \notin loose')
      BY <2>1, <3>1 DEF RecorderIs, RecorderType, Idle, Nothing
    <3>3. ASSUME r \in recorders, r \notin loose'
          PROVE  (Idle(r) \/ Asked(r) \/ Requested(r) \/ Rendered(r))'
      BY <1>0, <2>1, <3>1, <3>3 DEF RecorderIs, Idle, Nothing, Given, Asked, Requested, Rendered,
         Recorder!Event
    <3>. QED BY <2>1, <3>2, <3>3 DEF RecorderIs
  <2>. QED BY <2>1, <2>2 DEF RecorderInv
<1>. QED BY <1>1, <1>2, <1>3, <1>4, <1>5, <1>6, <1>7, RecordKeeps, RequestKeeps, HandleKeeps
     DEF Recorder!Next

(* A client that waits for each answer is told of a frame once and with the  *)
(* buffer that the frame is in, and the render thread only meets recorders   *)
(* that exist, and with them buffers that exist, in every order of the two   *)
(* threads, whatever the other clients do: the safety part of FramesArrive.  *)
THEOREM FramesAreTrue == Spec => [](Recorder!FrameInBuffer /\ Recorder!RequestsLive)
<1>1. Init => RecorderInv
  BY InitRecorder DEF Init
<1>2. RecorderInv /\ [Next]_vars => RecorderInv'
  BY NextRecorder, RecorderKept DEF Next, vars
<1>3. RecorderInv => Recorder!FrameInBuffer /\ Recorder!RequestsLive
  <2>. SUFFICES ASSUME RecorderInv PROVE Recorder!FrameInBuffer /\ Recorder!RequestsLive
    OBVIOUS
  <2>1. ASSUME NEW r \in Recorders \ loose, events[r] # <<>>
        PROVE  events[r] = <<Recorder!Event("frame", bufferResource[r])>>
    BY <2>1 DEF RecorderInv, RecorderIs, Idle, Nothing, Asked, Requested, Rendered
  <2>2. ASSUME NEW r \in Recorders, requests[r] + recording[r] > 0
        PROVE  r \in recorders /\ (r \notin loose => shmBuffer[r] \notin destroyed \cup {0})
    <3>1. RecorderIs(r)
      BY DEF RecorderInv
    <3>2. r \in recorders
      BY <2>2, <3>1 DEF RecorderIs, Idle, Nothing
    <3>3. r \notin loose => Requested(r)
      BY <2>2, <3>1, <3>2 DEF RecorderIs, Idle, Nothing, Asked, Rendered
    <3>. QED BY <3>2, <3>3, ServicesAssumption DEF Requested, Given
  <2>. QED BY <2>1, <2>2 DEF Recorder!FrameInBuffer, Recorder!RequestsLive, Recorder!None
<1>. QED BY <1>1, <1>2, <1>3, PTL DEF Spec
=============================================================================
