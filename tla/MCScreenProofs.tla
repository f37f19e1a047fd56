---------------------------- MODULE MCScreenProofs ----------------------------
(* Proofs about the parts of the home screen around its display, for all    *)
(* modes and bounds.                                                        *)
EXTENDS MCScreen, TLAPS

-----------------------------------------------------------------------------
(* The USB mode selector *)

UsbInv ==
  /\ usbMode \in Usb!Modes /\ targetMode \in FinalModes /\ dialog \in BOOLEAN /\ started \in BOOLEAN /\ requestStands \in BOOLEAN
  /\ Usb!PreparingShown /\ Usb!DialogEnds

LEMMA InitUsb == Usb!Init => UsbInv
BY DEF Usb!Init, UsbInv, Usb!PreparingShown, Usb!DialogEnds

LEMMA UsbKept == UsbInv /\ UNCHANGED usbVars => UsbInv'
<1>. SUFFICES ASSUME UsbInv, UNCHANGED usbVars PROVE UsbInv'
  OBVIOUS
<1>. USE DEF UsbInv, usbVars
<1>1. (usbMode \in Usb!Modes)'
  BY DEF Usb!Modes, Usb!Waiting
<1>2. (targetMode \in FinalModes /\ dialog \in BOOLEAN /\ started \in BOOLEAN /\ requestStands \in BOOLEAN)'
  OBVIOUS
<1>3. Usb!PreparingShown'
  BY DEF Usb!PreparingShown
<1>4. Usb!DialogEnds'
  BY DEF Usb!DialogEnds
<1>. QED BY <1>1, <1>2, <1>3, <1>4

(* A step that gives the selector its mode and its target anew.            *)
LEMMA UsbUpdated ==
  ASSUME UsbInv, usbMode' \in Usb!Modes, targetMode' \in FinalModes, started' \in BOOLEAN,
         started' => preparing' = Usb!Preparing(usbMode', targetMode'),
         dialog' \in BOOLEAN, requestStands' \in BOOLEAN, usbMode' \in FinalModes => dialog' = requestStands'
  PROVE  UsbInv'
<1>1. (usbMode \in Usb!Modes)'
  BY DEF Usb!Modes, Usb!Waiting
<1>2. Usb!PreparingShown'
  BY DEF Usb!PreparingShown, Usb!Preparing
<1>3. Usb!DialogEnds'
  BY DEF Usb!DialogEnds
<1>. QED BY <1>1, <1>2, <1>3 DEF UsbInv

(* handleUSBState(): the dialog of a mode that is ready is closed.         *)
LEMMA StateHandled ==
  ASSUME UsbInv, NEW mode, Usb!HandleState(mode)
  PROVE  dialog' \in BOOLEAN /\ (mode \in FinalModes => dialog' = FALSE)
<1>1. mode \in FinalModes => mode # "ask"
  BY ScreenAssumption DEF Usb!Waiting
<1>. QED BY <1>1 DEF Usb!HandleState, UsbInv

LEMMA NextUsb == UsbInv /\ Usb!Next => UsbInv'
<1>. SUFFICES ASSUME UsbInv, Usb!Next PROVE UsbInv'
  OBVIOUS
<1>0. /\ usbMode \in Usb!Modes /\ targetMode \in FinalModes
      /\ dialog \in BOOLEAN /\ started \in BOOLEAN /\ requestStands \in BOOLEAN
      /\ started => preparing = Usb!Preparing(usbMode, targetMode)
      /\ usbMode \in FinalModes => dialog = requestStands
  <2>1. started => preparing = Usb!Preparing(usbMode, targetMode)
    BY DEF UsbInv, Usb!PreparingShown, Usb!Preparing
  <2>2. usbMode \in FinalModes => dialog = requestStands
    BY DEF UsbInv, Usb!DialogEnds
  <2>. QED BY <2>1, <2>2 DEF UsbInv
<1>1. ASSUME NEW mode \in Usb!Modes, Usb!CurrentModeChanged(mode) PROVE UsbInv'
  BY <1>0, <1>1, StateHandled, UsbUpdated DEF Usb!CurrentModeChanged
<1>2. ASSUME NEW mode \in FinalModes, Usb!TargetModeChanged(mode) PROVE UsbInv'
  BY <1>0, <1>2, UsbUpdated DEF Usb!TargetModeChanged
<1>3. ASSUME NEW event \in {"connected", "mode_requested", "charger_connected"}, Usb!HandleEvent(event)
      PROVE  UsbInv'
  <2>1. \/ dialog' = dialog /\ requestStands' = requestStands
        \/ dialog' \in BOOLEAN /\ requestStands' = dialog'
    BY <1>3 DEF Usb!HandleEvent
  <2>. QED BY <1>0, <1>3, <2>1, UsbUpdated DEF Usb!HandleEvent
<1>4. CASE Usb!FirstLook
  BY <1>0, <1>4, StateHandled, UsbUpdated DEF Usb!FirstLook
<1>5. CASE Usb!CloseDialog
  BY <1>0, <1>5, UsbUpdated DEF Usb!CloseDialog
<1>. QED BY <1>1, <1>2, <1>3, <1>4, <1>5 DEF Usb!Next

(* For every set of modes: a mode is shown as being prepared exactly while   *)
(* usb_moded is busy with it, and a mode that is ready has the dialog        *)
(* exactly while a request stands that came after that mode.                 *)
THEOREM UsbModeIsShown == Spec => []ModeShown
<1>1. Init => UsbInv
  BY InitUsb DEF Init
<1>2. UsbInv /\ [Next]_vars => UsbInv'
  BY NextUsb, UsbKept DEF Next, vars
<1>3. UsbInv => ModeShown
  BY DEF UsbInv, ModeShown
<1>. QED BY <1>1, <1>2, <1>3, PTL DEF Spec

-----------------------------------------------------------------------------
(* The screen lock: facts about queues *)

LEMMA EmptySequence == \A S : <<>> \in Seq(S) /\ Len(<<>>) = 0
OBVIOUS

LEMMA SequenceFacts ==
  ASSUME NEW S, NEW s \in Seq(S)
  PROVE  /\ Len(s) \in Nat /\ (s = <<>> <=> Len(s) = 0)
         /\ \A i \in 1 .. Len(s) : s[i] \in S
         /\ \A e \in S : /\ Append(s, e) \in Seq(S) /\ Len(Append(s, e)) = Len(s) + 1
                         /\ \A i \in 1 .. Len(s) : Append(s, e)[i] = s[i]
                         /\ Append(s, e)[Len(s) + 1] = e
         /\ s # <<>> => /\ Head(s) = s[1] /\ Tail(s) \in Seq(S) /\ Len(Tail(s)) = Len(s) - 1
                        /\ \A i \in 1 .. Len(s) - 1 : Tail(s)[i] = s[i + 1]
OBVIOUS

LastIn(i, S) == i \in S /\ \A j \in S : j <= i

(* The last event of this kind has this value.                              *)
KindAt(s, kind) == {i \in 1 .. Len(s) : s[i].kind = kind}
Reports(s, kind, value) == \A i : LastIn(i, KindAt(s, kind)) => s[i].value = value

LEMMA TailReports ==
  ASSUME NEW S, NEW s \in Seq(S), s # <<>>, NEW kind, NEW value, Reports(s, kind, value)
  PROVE  /\ Reports(Tail(s), kind, value)
         /\ Head(s).kind # kind => (KindAt(Tail(s), kind) = {} => KindAt(s, kind) = {})
         /\ Head(s).kind = kind /\ KindAt(Tail(s), kind) = {} => Head(s).value = value
<1>. DEFINE t == Tail(s)
<1>1. /\ Head(s) = s[1] /\ Len(s) \in Nat \ {0} /\ Len(t) = Len(s) - 1
      /\ \A i \in 1 .. Len(s) - 1 : t[i] = s[i + 1]
  BY SequenceFacts
<1>. HIDE DEF t
<1>2. \A i \in KindAt(t, kind) : i + 1 \in KindAt(s, kind)
  BY <1>1 DEF KindAt
<1>3. \A i \in KindAt(s, kind) : i # 1 => i - 1 \in KindAt(t, kind)
  BY <1>1 DEF KindAt
<1>4. Reports(t, kind, value)
  <2>1. SUFFICES ASSUME NEW i, LastIn(i, KindAt(t, kind)) PROVE t[i].value = value
    BY DEF Reports
  <2>2. LastIn(i + 1, KindAt(s, kind))
    BY <1>1, <1>2, <1>3, <2>1 DEF LastIn, KindAt
  <2>3. s[i + 1].value = value /\ t[i] = s[i + 1]
    BY <1>1, <2>1, <2>2 DEF Reports, LastIn, KindAt
  <2>. QED BY <2>3
<1>5. ASSUME Head(s).kind # kind, KindAt(t, kind) = {} PROVE KindAt(s, kind) = {}
  BY <1>1, <1>3, <1>5 DEF KindAt
<1>6. ASSUME Head(s).kind = kind, KindAt(t, kind) = {} PROVE Head(s).value = value
  <2>1. LastIn(1, KindAt(s, kind))
    BY <1>1, <1>3, <1>6 DEF LastIn, KindAt
  <2>. QED BY <1>1, <2>1 DEF Reports
<1>. QED BY <1>4, <1>5, <1>6 DEF t

LEMMA AppendReports ==
  ASSUME NEW S, NEW s \in Seq(S), NEW e \in S, NEW kind, NEW value,
         IF e.kind = kind THEN e.value = value ELSE Reports(s, kind, value)
  PROVE  /\ Reports(Append(s, e), kind, value)
         /\ KindAt(Append(s, e), kind) = {} <=> e.kind # kind /\ KindAt(s, kind) = {}
<1>. DEFINE t == Append(s, e)
<1>1. /\ Len(s) \in Nat /\ Len(t) = Len(s) + 1 /\ t[Len(s) + 1] = e
      /\ \A i \in 1 .. Len(s) : t[i] = s[i]
  BY SequenceFacts
<1>. HIDE DEF t
<1>2. \A i \in KindAt(t, kind) : i = Len(t) \/ i \in KindAt(s, kind)
  BY <1>1 DEF KindAt
<1>3. \A i \in KindAt(s, kind) : i \in KindAt(t, kind)
  BY <1>1 DEF KindAt
<1>4. Len(t) \in KindAt(t, kind) <=> e.kind = kind
  BY <1>1 DEF KindAt
<1>5. SUFFICES ASSUME NEW i, LastIn(i, KindAt(t, kind)) PROVE t[i].value = value
  BY <1>2, <1>3, <1>4 DEF Reports, t
<1>6. CASE e.kind = kind
  <2>1. i = Len(t)
    BY <1>1, <1>4, <1>5, <1>6 DEF LastIn, KindAt
  <2>. QED BY <1>1, <1>6, <2>1
<1>7. CASE e.kind # kind
  <2>1. LastIn(i, KindAt(s, kind))
    BY <1>2, <1>3, <1>4, <1>5, <1>7 DEF LastIn
  <2>. QED BY <1>1, <1>7, <2>1 DEF Reports, LastIn, KindAt
<1>. QED BY <1>6, <1>7

-----------------------------------------------------------------------------
(* The screen lock: the effects under way.  An effect that is posted runs   *)
(* after all that are posted already, and before all that are asked for.    *)

Asks(e) == e.kind = "close" \/ (e.kind = "open" /\ e.value # "oneInput")
Shows(e) == e.kind = "slot" /\ e.value # "showEventEater"
Locks(e) == e.kind = "open" \/ e.value = "showScreenLock"

AskedAt(s) == {i \in 1 .. Len(s) : Asks(s[i])}
ShownAt(s) == {i \in 1 .. Len(s) : Shows(s[i])}
NoEffect(s) == AskedAt(s) = {} /\ ShownAt(s) = {}

(* The last effect leaves the lock as this says.                            *)
EffectsLeave(s, locked) ==
  /\ \A i : LastIn(i, AskedAt(s)) => (Locks(s[i]) <=> locked)
  /\ AskedAt(s) = {} => \A i : LastIn(i, ShownAt(s)) => (Locks(s[i]) <=> locked)

LEMMA AppendEffects ==
  ASSUME NEW S, NEW s \in Seq(S), NEW e \in S, NEW locked, EffectsLeave(s, locked),
         ~Shows(e), Asks(e) => (Locks(e) <=> locked)
  PROVE  /\ EffectsLeave(Append(s, e), locked)
         /\ AskedAt(Append(s, e)) = {} <=> ~Asks(e) /\ AskedAt(s) = {}
         /\ NoEffect(Append(s, e)) <=> ~Asks(e) /\ NoEffect(s)
<1>. DEFINE t == Append(s, e)
<1>1. /\ Len(s) \in Nat /\ Len(t) = Len(s) + 1 /\ t[Len(s) + 1] = e
      /\ \A i \in 1 .. Len(s) : t[i] = s[i]
  BY SequenceFacts
<1>. HIDE DEF t
<1>2. AskedAt(t) = AskedAt(s) \cup (IF Asks(e) THEN {Len(t)} ELSE {})
  BY <1>1 DEF AskedAt
<1>3. ShownAt(t) = ShownAt(s)
  BY <1>1 DEF ShownAt
<1>4. \A i \in AskedAt(s) \cup ShownAt(s) : i \in 1 .. Len(s)
  BY DEF AskedAt, ShownAt
<1>5. ASSUME NEW i, LastIn(i, AskedAt(t)) PROVE Locks(t[i]) <=> locked
  <2>1. CASE Asks(e)
    <3>1. i = Len(t)
      BY <1>1, <1>2, <1>4, <1>5, <2>1 DEF LastIn
    <3>. QED BY <1>1, <2>1, <3>1
  <2>2. CASE ~Asks(e)
    <3>1. AskedAt(t) = AskedAt(s)
      BY <1>2, <2>2
    <3>2. LastIn(i, AskedAt(s)) /\ t[i] = s[i]
      BY <1>1, <1>4, <1>5, <3>1 DEF LastIn
    <3>. QED BY <3>2 DEF EffectsLeave
  <2>. QED BY <2>1, <2>2
<1>6. ASSUME AskedAt(t) = {}, NEW i, LastIn(i, ShownAt(t)) PROVE Locks(t[i]) <=> locked
  <2>1. AskedAt(s) = {} /\ LastIn(i, ShownAt(s)) /\ t[i] = s[i]
    BY <1>1, <1>2, <1>3, <1>4, <1>6 DEF LastIn
  <2>. QED BY <2>1 DEF EffectsLeave
<1>. QED BY <1>2, <1>3, <1>5, <1>6 DEF EffectsLeave, NoEffect, t

LEMMA TailFacts ==
  ASSUME NEW S, NEW s \in Seq(S), s # <<>>, NEW t, t = Tail(s)
  PROVE  /\ t \in Seq(S) /\ Len(t) \in Nat /\ Len(s) = Len(t) + 1 /\ Head(s) = s[1]
         /\ \A i \in 1 .. Len(t) : t[i] = s[i + 1]
         /\ \A i \in AskedAt(t) : i + 1 \in AskedAt(s)
         /\ \A i \in ShownAt(t) : i + 1 \in ShownAt(s)
         /\ \A i \in AskedAt(s) : i # 1 => i - 1 \in AskedAt(t)
         /\ \A i \in ShownAt(s) : i # 1 => i - 1 \in ShownAt(t)
         /\ 1 \in AskedAt(s) <=> Asks(Head(s))
         /\ 1 \in ShownAt(s) <=> Shows(Head(s))
         /\ \A i \in AskedAt(t) \cup ShownAt(t) : i \in 1 .. Len(t)
         /\ \A i \in AskedAt(s) \cup ShownAt(s) : i \in 1 .. Len(s)
<1>1. /\ Head(s) = s[1] /\ Len(s) \in Nat \ {0} /\ t \in Seq(S) /\ Len(t) = Len(s) - 1
      /\ \A i \in 1 .. Len(t) : t[i] = s[i + 1]
  BY SequenceFacts
<1>2. /\ \A i \in AskedAt(t) : i + 1 \in AskedAt(s)
      /\ \A i \in AskedAt(s) : i # 1 => i - 1 \in AskedAt(t)
      /\ 1 \in AskedAt(s) <=> Asks(Head(s))
  BY <1>1 DEF AskedAt
<1>3. /\ \A i \in ShownAt(t) : i + 1 \in ShownAt(s)
      /\ \A i \in ShownAt(s) : i # 1 => i - 1 \in ShownAt(t)
      /\ 1 \in ShownAt(s) <=> Shows(Head(s))
  BY <1>1 DEF ShownAt
<1>4. /\ \A i \in AskedAt(t) \cup ShownAt(t) : i \in 1 .. Len(t)
      /\ \A i \in AskedAt(s) \cup ShownAt(s) : i \in 1 .. Len(s)
  BY DEF AskedAt, ShownAt
<1>. QED BY <1>1, <1>2, <1>3, <1>4

(* An event that asks for nothing is handled.                               *)
LEMMA TailEffects ==
  ASSUME NEW S, NEW s \in Seq(S), s # <<>>, NEW locked, EffectsLeave(s, locked), ~Asks(Head(s))
  PROVE  /\ EffectsLeave(Tail(s), locked)
         /\ AskedAt(Tail(s)) = {} <=> AskedAt(s) = {}
         /\ NoEffect(Tail(s)) => NoEffect(s) \/ (Shows(Head(s)) /\ (Locks(Head(s)) <=> locked))
<1>. DEFINE t == Tail(s)
<1>. HIDE DEF t
<1>1. /\ t \in Seq(S) /\ Len(t) \in Nat /\ Len(s) = Len(t) + 1 /\ Head(s) = s[1]
      /\ \A i \in 1 .. Len(t) : t[i] = s[i + 1]
      /\ \A i \in AskedAt(t) : i + 1 \in AskedAt(s)
      /\ \A i \in ShownAt(t) : i + 1 \in ShownAt(s)
      /\ \A i \in AskedAt(s) : i # 1 => i - 1 \in AskedAt(t)
      /\ \A i \in ShownAt(s) : i # 1 => i - 1 \in ShownAt(t)
      /\ 1 \in AskedAt(s) <=> Asks(Head(s))
      /\ 1 \in ShownAt(s) <=> Shows(Head(s))
      /\ \A i \in AskedAt(t) \cup ShownAt(t) : i \in 1 .. Len(t)
      /\ \A i \in AskedAt(s) \cup ShownAt(s) : i \in 1 .. Len(s)
  BY TailFacts DEF t
<1>2. AskedAt(t) = {} <=> AskedAt(s) = {}
  BY <1>1
<1>3. ASSUME NEW i, LastIn(i, AskedAt(t)) PROVE Locks(t[i]) <=> locked
  <2>1. LastIn(i + 1, AskedAt(s)) /\ t[i] = s[i + 1]
    BY <1>1, <1>3 DEF LastIn
  <2>. QED BY <2>1 DEF EffectsLeave
<1>4. ASSUME AskedAt(t) = {}, NEW i, LastIn(i, ShownAt(t)) PROVE Locks(t[i]) <=> locked
  <2>1. LastIn(i + 1, ShownAt(s)) /\ t[i] = s[i + 1]
    BY <1>1, <1>4 DEF LastIn
  <2>. QED BY <1>2, <1>4, <2>1 DEF EffectsLeave
<1>5. ASSUME NoEffect(t) PROVE NoEffect(s) \/ (Shows(Head(s)) /\ (Locks(Head(s)) <=> locked))
  <2>1. SUFFICES ASSUME ShownAt(s) # {} PROVE Shows(Head(s)) /\ (Locks(Head(s)) <=> locked)
    BY <1>2, <1>5 DEF NoEffect
  <2>2. Shows(Head(s)) /\ LastIn(1, ShownAt(s))
    BY <1>1, <1>5, <2>1 DEF NoEffect, LastIn
  <2>. QED BY <1>1, <1>2, <1>5, <2>2 DEF EffectsLeave, NoEffect
<1>. QED BY <1>2, <1>3, <1>4, <1>5 DEF EffectsLeave, t

(* What is asked for is posted, behind everything that is under way.        *)
LEMMA PostEffect ==
  ASSUME NEW S, NEW s \in Seq(S), s # <<>>, NEW e \in S, NEW locked, EffectsLeave(s, locked),
         Asks(Head(s)), Shows(e), ~Asks(e), Locks(e) <=> Locks(Head(s))
  PROVE  /\ EffectsLeave(Append(Tail(s), e), locked)
         /\ ~NoEffect(Append(Tail(s), e))
         /\ AskedAt(Append(Tail(s), e)) = {} => (Locks(e) <=> locked)
<1>. DEFINE t == Tail(s)
            u == Append(t, e)
<1>. HIDE DEF t
<1>1. /\ t \in Seq(S) /\ Len(t) \in Nat /\ Len(s) = Len(t) + 1 /\ Head(s) = s[1]
      /\ \A i \in 1 .. Len(t) : t[i] = s[i + 1]
      /\ \A i \in AskedAt(t) : i + 1 \in AskedAt(s)
      /\ \A i \in ShownAt(t) : i + 1 \in ShownAt(s)
      /\ \A i \in AskedAt(s) : i # 1 => i - 1 \in AskedAt(t)
      /\ \A i \in ShownAt(s) : i # 1 => i - 1 \in ShownAt(t)
      /\ 1 \in AskedAt(s) <=> Asks(Head(s))
      /\ 1 \in ShownAt(s) <=> Shows(Head(s))
      /\ \A i \in AskedAt(t) \cup ShownAt(t) : i \in 1 .. Len(t)
      /\ \A i \in AskedAt(s) \cup ShownAt(s) : i \in 1 .. Len(s)
  BY TailFacts DEF t
<1>2. /\ Len(u) = Len(t) + 1 /\ u[Len(t) + 1] = e
      /\ \A i \in 1 .. Len(t) : u[i] = t[i]
  BY <1>1, SequenceFacts
<1>. HIDE DEF u
<1>3. AskedAt(u) = AskedAt(t)
  BY <1>1, <1>2 DEF AskedAt
<1>4. ShownAt(u) = ShownAt(t) \cup {Len(u)}
  BY <1>1, <1>2 DEF ShownAt
<1>5. ASSUME NEW i, LastIn(i, AskedAt(u)) PROVE Locks(u[i]) <=> locked
  <2>1. LastIn(i + 1, AskedAt(s)) /\ u[i] = s[i + 1]
    BY <1>1, <1>2, <1>3, <1>5 DEF LastIn
  <2>. QED BY <2>1 DEF EffectsLeave
<1>6. ASSUME AskedAt(u) = {} PROVE Locks(e) <=> locked
  <2>1. LastIn(1, AskedAt(s))
    BY <1>1, <1>3, <1>6 DEF LastIn
  <2>. QED BY <1>1, <2>1 DEF EffectsLeave
<1>7. ASSUME AskedAt(u) = {}, NEW i, LastIn(i, ShownAt(u)) PROVE Locks(u[i]) <=> locked
  <2>1. i = Len(u)
    BY <1>1, <1>2, <1>4, <1>7 DEF LastIn
  <2>. QED BY <1>2, <1>6, <1>7, <2>1
<1>. QED BY <1>4, <1>5, <1>6, <1>7 DEF EffectsLeave, NoEffect, t, u

(* The last call of the user interface that reaches MCE.                    *)
LockCallAt(s) == {i \in 1 .. Len(s) : s[i] \in {"lock", "unlock"}}
CallsLeave(s, locked) == \E i : LastIn(i, LockCallAt(s)) /\ (s[i] = "lock" <=> locked)

LEMMA AppendCall ==
  ASSUME NEW S, NEW s \in Seq(S), NEW c \in S, NEW locked,
         IF c \in {"lock", "unlock"} THEN c = "lock" <=> locked ELSE CallsLeave(s, locked)
  PROVE  CallsLeave(Append(s, c), locked)
<1>. DEFINE t == Append(s, c)
<1>1. /\ Len(s) \in Nat /\ Len(t) = Len(s) + 1 /\ t[Len(s) + 1] = c
      /\ \A i \in 1 .. Len(s) : t[i] = s[i]
  BY SequenceFacts
<1>. HIDE DEF t
<1>2. LockCallAt(t) = LockCallAt(s) \cup (IF c \in {"lock", "unlock"} THEN {Len(t)} ELSE {})
  BY <1>1 DEF LockCallAt
<1>3. \A i \in LockCallAt(s) : i \in 1 .. Len(s)
  BY DEF LockCallAt
<1>4. CASE c \in {"lock", "unlock"}
  <2>1. LastIn(Len(t), LockCallAt(t))
    BY <1>1, <1>2, <1>3, <1>4 DEF LastIn
  <2>. QED BY <1>1, <1>4, <2>1 DEF CallsLeave, t
<1>5. CASE c \notin {"lock", "unlock"}
  <2>1. PICK i : LastIn(i, LockCallAt(s)) /\ (s[i] = "lock" <=> locked)
    BY <1>5 DEF CallsLeave
  <2>2. LockCallAt(t) = LockCallAt(s)
    BY <1>2, <1>5
  <2>3. LastIn(i, LockCallAt(t)) /\ t[i] = s[i]
    BY <1>1, <1>3, <2>1, <2>2 DEF LastIn
  <2>. QED BY <2>1, <2>3 DEF CallsLeave, t
<1>. QED BY <1>4, <1>5

LEMMA TailCall ==
  ASSUME NEW S, NEW s \in Seq(S), s # <<>>, NEW locked, CallsLeave(s, locked)
  PROVE  \/ CallsLeave(Tail(s), locked)
         \/ Head(s) \in {"lock", "unlock"} /\ (Head(s) = "lock" <=> locked)
<1>. DEFINE t == Tail(s)
<1>1. /\ Head(s) = s[1] /\ Len(s) \in Nat \ {0} /\ Len(t) = Len(s) - 1
      /\ \A i \in 1 .. Len(s) - 1 : t[i] = s[i + 1]
  BY SequenceFacts
<1>. HIDE DEF t
<1>2. PICK i : LastIn(i, LockCallAt(s)) /\ (s[i] = "lock" <=> locked)
  BY DEF CallsLeave
<1>3. i \in 1 .. Len(s) /\ s[i] \in {"lock", "unlock"}
  BY <1>2 DEF LastIn, LockCallAt
<1>4. CASE i = 1
  BY <1>1, <1>2, <1>3, <1>4
<1>5. CASE i # 1
  <2>1. i - 1 \in LockCallAt(t) /\ t[i - 1] = s[i]
    BY <1>1, <1>3, <1>5 DEF LockCallAt
  <2>2. \A j \in LockCallAt(t) : j + 1 \in LockCallAt(s) /\ j \in Nat
    BY <1>1 DEF LockCallAt
  <2>3. LastIn(i - 1, LockCallAt(t))
    BY <1>2, <1>3, <2>1, <2>2 DEF LastIn
  <2>. QED BY <1>2, <2>1, <2>3 DEF CallsLeave, t
<1>. QED BY <1>4, <1>5

-----------------------------------------------------------------------------
(* The screen lock: the invariant                                           *)

Input == IF mceInput THEN "enabled" ELSE "disabled"

EffectInv ==
  /\ EffectsLeave(events, mceLocked)
  /\ mceLocked => callback \/ AskedAt(events) # {}
  /\ NoEffect(events) => lockscreenVisible = mceLocked \/ CallsLeave(calls, lockscreenVisible)

ReportInv ==
  /\ ~mceRunning => mceInput
  /\ Reports(events, "display", mceDisplay)
  /\ KindAt(events, "display") = {} => currentDisplayState \in {mceDisplay, "unknown"}
  /\ Reports(events, "input", Input)
  /\ KindAt(events, "input") = {} =>
       inputEnabled = mceInput \/ \E i \in 1 .. Len(calls) : calls[i] = "getInput"

TouchInv ==
  /\ touchBlockedState = (~inputEnabled \/ unblockTimer)
  /\ touchBlockedState \/ finger = "missed" => waitForTouchBegin

LockInv == Lock!TypeOK /\ EffectInv /\ ReportInv /\ TouchInv

LEMMA InitLock == Lock!Init => LockInv
<1>. SUFFICES ASSUME Lock!Init PROVE LockInv
  OBVIOUS
<1>. USE DEF Lock!Init, Lock!TouchInit, Lock!Queries
<1>1. calls \in Seq({"getDisplay", "getInput", "displayOff", "lock", "unlock"}) /\ Len(calls) = 2 /\ calls[2] = "getInput"
  OBVIOUS
<1>2. events \in Seq(Lock!Events)
  BY EmptySequence
<1>3. mceChanges \in 0 .. MaxMce /\ touches \in 0 .. MaxTouches /\ requests \in 0 .. MaxRequests
  BY ScreenAssumption
<1>4. Lock!TypeOK
  BY <1>1, <1>2, <1>3 DEF Lock!TypeOK
<1>5. KindAt(events, "display") = {} /\ KindAt(events, "input") = {} /\ AskedAt(events) = {} /\ ShownAt(events) = {}
  BY DEF KindAt, AskedAt, ShownAt
<1>6. EffectInv
  BY <1>5 DEF EffectInv, EffectsLeave, LastIn
<1>7. ReportInv
  <2>1. Reports(events, "display", mceDisplay) /\ Reports(events, "input", Input)
    BY <1>5 DEF Reports, LastIn
  <2>2. \E i \in 1 .. Len(calls) : calls[i] = "getInput"
    BY <1>1
  <2>. QED BY <2>1, <2>2 DEF ReportInv
<1>8. TouchInv
  BY DEF TouchInv
<1>. QED BY <1>4, <1>6, <1>7, <1>8 DEF LockInv

LEMMA LockSuffices == LockInv => Lock!TypeOK /\ Lock!LockAgrees /\ Lock!TouchAgrees /\ Lock!NoStrayTouch
<1>. SUFFICES ASSUME LockInv PROVE Lock!LockAgrees /\ Lock!TouchAgrees /\ Lock!NoStrayTouch
  BY DEF LockInv
<1>1. ASSUME Lock!Quiet PROVE lockscreenVisible = mceLocked /\ inputEnabled = mceInput /\ currentDisplayState \in {mceDisplay, "unknown"}
  <2>1. KindAt(events, "display") = {} /\ KindAt(events, "input") = {} /\ NoEffect(events) /\ LockCallAt(calls) = {}
    BY <1>1 DEF Lock!Quiet, KindAt, AskedAt, ShownAt, NoEffect, LockCallAt
  <2>2. lockscreenVisible = mceLocked
    BY <2>1 DEF LockInv, EffectInv, CallsLeave, LastIn
  <2>3. inputEnabled = mceInput /\ currentDisplayState \in {mceDisplay, "unknown"}
    BY <1>1, <2>1 DEF LockInv, ReportInv, Lock!Quiet
  <2>. QED BY <2>2, <2>3
<1>2. Lock!NoStrayTouch
  BY DEF LockInv, TouchInv, Lock!NoStrayTouch, Lock!Filtered
<1>. QED BY <1>1, <1>2 DEF Lock!LockAgrees, Lock!TouchAgrees

LEMMA LockKept == LockInv /\ UNCHANGED lockVars => LockInv'
<1>. SUFFICES ASSUME LockInv, UNCHANGED lockVars PROVE LockInv'
  OBVIOUS
<1>. USE DEF lockVars, LockInv
<1>1. Lock!TypeOK'
  <2>1. (events \in Seq(Lock!Events))'
    BY DEF Lock!TypeOK, Lock!Events, Lock!Slots
  <2>. QED BY <2>1 DEF Lock!TypeOK
<1>2. EffectInv'
  BY DEF EffectInv, EffectsLeave, NoEffect, CallsLeave, AskedAt, ShownAt, LockCallAt, Asks, Shows, Locks, LastIn
<1>3. ReportInv'
  BY DEF ReportInv, Reports, KindAt, Input, LastIn
<1>4. TouchInv'
  BY DEF TouchInv
<1>. QED BY <1>1, <1>2, <1>3, <1>4

-----------------------------------------------------------------------------
(* The screen lock: types                                                   *)

LEMMA EventTypes ==
  /\ \A state \in {"off", "dim", "on"} : Lock!Event("display", state) \in Lock!Events
  /\ \A policy \in {"enabled", "disabled"} : Lock!Event("input", policy) \in Lock!Events
  /\ \A mode \in LockModes \cup {"visual", "oneInput"} : Lock!Event("open", mode) \in Lock!Events
  /\ Lock!Event("close", "") \in Lock!Events
  /\ \A slot \in Lock!Slots : Lock!Event("slot", slot) \in Lock!Events
  /\ \A kind, value : Lock!Event(kind, value).kind = kind /\ Lock!Event(kind, value).value = value
BY DEF Lock!Event, Lock!Events

LEMMA EventFields ==
  ASSUME NEW event \in Lock!Events
  PROVE  /\ event.kind \in {"display", "input", "open", "close", "slot"}
         /\ event.kind = "display" => event.value \in {"off", "dim", "on"}
         /\ event.kind = "input" => event.value \in {"enabled", "disabled"}
         /\ event.kind = "close" => event.value = ""
         /\ event.kind = "slot" => event.value \in {"showScreenLock", "hideScreenLock", "showEventEater"}
BY DEF Lock!Events, Lock!Slots

Calls == {"getDisplay", "getInput", "displayOff", "lock", "unlock"}

(* The queues of a typed state, as sequences. *)
LEMMA QueueTypes ==
  ASSUME Lock!TypeOK
  PROVE  /\ calls \in Seq(Calls) /\ events \in Seq(Lock!Events)
         /\ events # <<>> => Head(events) \in Lock!Events /\ Tail(events) \in Seq(Lock!Events)
         /\ calls # <<>> => Head(calls) \in Calls /\ Tail(calls) \in Seq(Calls)
         /\ \A e \in Lock!Events : Append(events, e) \in Seq(Lock!Events)
         /\ events # <<>> => \A e \in Lock!Events : Append(Tail(events), e) \in Seq(Lock!Events)
         /\ \A c \in Calls : Append(calls, c) \in Seq(Calls)
<1>1. calls \in Seq(Calls) /\ events \in Seq(Lock!Events)
  BY DEF Lock!TypeOK, Calls
<1>2. events # <<>> => Head(events) \in Lock!Events /\ Tail(events) \in Seq(Lock!Events)
  BY <1>1, SequenceFacts
<1>3. calls # <<>> => Head(calls) \in Calls /\ Tail(calls) \in Seq(Calls)
  BY <1>1, SequenceFacts
<1>. QED BY <1>1, <1>2, <1>3, SequenceFacts

LEMMA TypesUpdated ==
  ASSUME events' \in Seq(Lock!Events), calls' \in Seq(Calls),
         mceRunning' \in BOOLEAN, mceDisplay' \in {"off", "dim", "on"}, mceInput' \in BOOLEAN,
         mceChanges' \in 0 .. MaxMce, touches' \in 0 .. MaxTouches, requests' \in 0 .. MaxRequests,
         currentDisplayState' \in {"unknown", "off", "dim", "on"},
         eatEvents' \in BOOLEAN, waitForTouchBegin' \in BOOLEAN, inputEnabled' \in BOOLEAN,
         touchBlockedState' \in BOOLEAN, unblockTimer' \in BOOLEAN,
         finger' \in {"up", "missed", "eaten", "begun"},
         mceLocked' \in BOOLEAN, lockscreenVisible' \in BOOLEAN, callback' \in BOOLEAN
  PROVE  Lock!TypeOK'
<1>1. (events \in Seq(Lock!Events))'
  BY DEF Lock!Events, Lock!Slots
<1>. QED BY <1>1 DEF Lock!TypeOK, Calls

LEMMA HandleEventTypes == Lock!TypeOK /\ Lock!HandleEvent => Lock!TypeOK'
<1>. SUFFICES ASSUME Lock!TypeOK, Lock!HandleEvent PROVE Lock!TypeOK'
  OBVIOUS
<1>. DEFINE event == Head(events)
<1>1. event \in Lock!Events /\ Tail(events) \in Seq(Lock!Events) /\ calls \in Seq(Calls)
      /\ \A e \in Lock!Events : Append(Tail(events), e) \in Seq(Lock!Events)
  BY QueueTypes DEF Lock!HandleEvent
<1>. USE DEF Lock!HandleEvent, Lock!mceVars, Lock!touchVars
<1>2. CASE event.kind = "display" /\ Lock!DisplayStateChanged(event.value) /\ Lock!Signal(event)
  <2>1. event.value \in {"off", "dim", "on"}
    BY <1>1, <1>2, EventFields
  <2>. QED BY <1>1, <1>2, <2>1, TypesUpdated DEF Lock!Signal, Lock!DisplayStateChanged, Lock!TypeOK
<1>3. CASE event.kind = "input" /\ Lock!InputPolicyChanged(event.value = "enabled") /\ Lock!Signal(event)
  BY <1>1, <1>3, TypesUpdated DEF Lock!Signal, Lock!InputPolicyChanged, Lock!TypeOK
<1>4. CASE event.kind = "open" /\ Lock!TklockOpen(event.value)
  <2>1. events' \in Seq(Lock!Events)
    BY <1>1, <1>4, EventTypes DEF Lock!TklockOpen, Lock!Slots
  <2>. QED BY <1>1, <1>4, <2>1, TypesUpdated DEF Lock!TklockOpen, Lock!TypeOK
<1>5. CASE event.kind = "close" /\ Lock!TklockClose
  <2>1. events' \in Seq(Lock!Events)
    BY <1>1, <1>5, EventTypes DEF Lock!TklockClose, Lock!Slots
  <2>. QED BY <1>1, <1>5, <2>1, TypesUpdated DEF Lock!TklockClose, Lock!TypeOK
<1>6. CASE event.kind = "slot" /\ Lock!RunSlot(event.value)
  <2>1. UNCHANGED <<currentDisplayState, waitForTouchBegin, inputEnabled, touchBlockedState,
                    unblockTimer, finger, touches>>
    BY <1>6 DEF Lock!RunSlot, Lock!SetEnabled
  <2>2. eatEvents' \in BOOLEAN /\ lockscreenVisible' \in BOOLEAN
    BY <1>6 DEF Lock!RunSlot, Lock!SetEnabled, Lock!TypeOK
  <2>. QED BY <1>1, <1>6, <2>1, <2>2, TypesUpdated DEF Lock!RunSlot, Lock!TypeOK
<1>. QED BY <1>2, <1>3, <1>4, <1>5, <1>6 DEF Lock!Signal

LEMMA MceHandlesTypes == Lock!TypeOK /\ Lock!MceHandles => Lock!TypeOK'
<1>. SUFFICES ASSUME Lock!TypeOK, Lock!MceHandles PROVE Lock!TypeOK'
  OBVIOUS
<1>1. /\ events \in Seq(Lock!Events) /\ Tail(calls) \in Seq(Calls)
      /\ \A e \in Lock!Events : Append(events, e) \in Seq(Lock!Events)
  BY QueueTypes DEF Lock!MceHandles
<1>. USE DEF Lock!MceHandles, Lock!mceVars, Lock!touchVars
<1>2. CASE Lock!Answer(Head(calls)) /\ UNCHANGED mceLocked
  <2>1. events' \in Seq(Lock!Events)
    BY <1>1, <1>2, EventTypes DEF Lock!Answer, Lock!Post, Lock!TypeOK
  <2>. QED BY <1>1, <1>2, <2>1, TypesUpdated DEF Lock!Answer, Lock!TypeOK
<1>3. CASE /\ mceLocked' = (Head(calls) = "lock")
           /\ events' = events \/ Lock!Post("open", "visual") \/ Lock!Post("close", "")
           /\ UNCHANGED <<Lock!mceVars, Lock!touchVars>>
  <2>1. events' \in Seq(Lock!Events)
    BY <1>1, <1>3, EventTypes DEF Lock!Post
  <2>2. mceLocked' \in BOOLEAN
    BY <1>3
  <2>3. UNCHANGED <<mceRunning, mceDisplay, mceInput, mceChanges, touches, requests, currentDisplayState>>
    BY <1>3
  <2>4. UNCHANGED <<eatEvents, waitForTouchBegin, inputEnabled, touchBlockedState, unblockTimer, finger,
                    lockscreenVisible, callback>> /\ calls' = Tail(calls)
    BY <1>3
  <2>5. calls' \in Seq(Calls)
    BY <1>1, <2>4
  <2>6. /\ mceRunning' \in BOOLEAN /\ mceDisplay' \in {"off", "dim", "on"} /\ mceInput' \in BOOLEAN
        /\ mceChanges' \in 0 .. MaxMce /\ touches' \in 0 .. MaxTouches /\ requests' \in 0 .. MaxRequests
        /\ currentDisplayState' \in {"unknown", "off", "dim", "on"}
    BY <2>3 DEF Lock!TypeOK
  <2>7. /\ eatEvents' \in BOOLEAN /\ waitForTouchBegin' \in BOOLEAN /\ inputEnabled' \in BOOLEAN
        /\ touchBlockedState' \in BOOLEAN /\ unblockTimer' \in BOOLEAN
        /\ finger' \in {"up", "missed", "eaten", "begun"}
        /\ lockscreenVisible' \in BOOLEAN /\ callback' \in BOOLEAN
    BY <2>4 DEF Lock!TypeOK
  <2>. QED BY <2>1, <2>2, <2>5, <2>6, <2>7, TypesUpdated
<1>. QED BY <1>2, <1>3

LEMMA UserTypes ==
  ASSUME Lock!TypeOK, Lock!LockScreen \/ Lock!UnlockScreen
  PROVE  Lock!TypeOK'
<1>. USE DEF Lock!Request, Lock!mceVars, Lock!SetEnabled, Lock!TypeOK
<1>1. requests' \in 0 .. MaxRequests
  BY ScreenAssumption DEF Lock!LockScreen, Lock!UnlockScreen
<1>2. calls' \in Seq(Calls) /\ events' \in Seq(Lock!Events)
  BY QueueTypes DEF Lock!LockScreen, Lock!UnlockScreen, Calls
<1>3. CASE Lock!LockScreen
  BY <1>1, <1>2, <1>3, TypesUpdated DEF Lock!LockScreen
<1>4. CASE Lock!UnlockScreen
  <2>1. eatEvents' \in BOOLEAN /\ lockscreenVisible' \in BOOLEAN
    BY <1>4 DEF Lock!UnlockScreen
  <2>. QED BY <1>1, <1>2, <1>4, <2>1, TypesUpdated DEF Lock!UnlockScreen
<1>. QED BY <1>3, <1>4

LEMMA TouchTypes ==
  ASSUME Lock!TypeOK, Lock!SetDisplayOff \/ Lock!Unblock \/ Lock!MceStarts
                      \/ \E event \in {"begin", "move", "end"} : Lock!TouchEvent(event),
         UNCHANGED <<Lock!lockVars, requests>>
  PROVE  Lock!TypeOK'
<1>. USE DEF Lock!lockVars, Lock!mceVars, Lock!touchVars, Lock!TypeOK
<1>0. calls \in Seq(Calls) /\ events \in Seq(Lock!Events)
  BY QueueTypes
<1>1. CASE Lock!SetDisplayOff
  <2>1. touches' \in 0 .. MaxTouches
    BY <1>1, ScreenAssumption DEF Lock!SetDisplayOff
  <2>2. calls' \in Seq(Calls)
    BY <1>1, QueueTypes DEF Lock!SetDisplayOff, Calls
  <2>. QED BY <1>0, <1>1, <2>1, <2>2, TypesUpdated DEF Lock!SetDisplayOff
<1>2. CASE Lock!Unblock
  <2>1. touchBlockedState' \in BOOLEAN /\ unblockTimer' \in BOOLEAN
    BY <1>2 DEF Lock!Unblock
  <2>. QED BY <1>0, <1>2, <2>1, TypesUpdated DEF Lock!Unblock
<1>3. CASE Lock!MceStarts
  BY <1>0, <1>3, TypesUpdated DEF Lock!MceStarts
<1>4. ASSUME NEW event \in {"begin", "move", "end"}, Lock!TouchEvent(event) PROVE Lock!TypeOK'
  <2>1. touches' \in 0 .. MaxTouches
    BY <1>4, ScreenAssumption DEF Lock!TouchEvent
  <2>2. finger' \in {"up", "missed", "eaten", "begun"}
    BY <1>4 DEF Lock!TouchEvent
  <2>3. waitForTouchBegin' \in BOOLEAN /\ eatEvents' \in BOOLEAN
    BY <1>4 DEF Lock!TouchEvent
  <2>. QED BY <1>0, <1>4, <2>1, <2>2, <2>3, TypesUpdated DEF Lock!TouchEvent
<1>. QED BY <1>1, <1>2, <1>3, <1>4

LEMMA MceTypes ==
  ASSUME Lock!TypeOK, UNCHANGED requests,
         \/ /\ Lock!MceInput \/ \E state \in {"off", "dim", "on"} : Lock!MceDisplay(state)
            /\ UNCHANGED Lock!lockVars
         \/ /\ Lock!MceUnlock \/ Lock!MceEater \/ \E mode \in LockModes : Lock!MceLock(mode)
            /\ UNCHANGED <<lockscreenVisible, callback>>
  PROVE  Lock!TypeOK'
<1>. USE DEF Lock!lockVars, Lock!touchVars, Lock!TypeOK, Lock!MceChange, Lock!Post
<1>0. /\ calls \in Seq(Calls) /\ \A e \in Lock!Events : Append(events, e) \in Seq(Lock!Events)
  BY QueueTypes
<1>1. mceChanges < MaxMce => mceChanges + 1 \in 0 .. MaxMce
  BY ScreenAssumption
<1>2. CASE Lock!MceInput /\ UNCHANGED Lock!lockVars
  <2>1. events' \in Seq(Lock!Events)
    BY <1>0, <1>2, EventTypes DEF Lock!MceInput
  <2>. QED BY <1>0, <1>1, <1>2, <2>1, TypesUpdated DEF Lock!MceInput
<1>3. ASSUME NEW state \in {"off", "dim", "on"}, Lock!MceDisplay(state), UNCHANGED Lock!lockVars
      PROVE  Lock!TypeOK'
  <2>1. events' \in Seq(Lock!Events)
    BY <1>0, <1>3, EventTypes DEF Lock!MceDisplay
  <2>. QED BY <1>0, <1>1, <1>3, <2>1, TypesUpdated DEF Lock!MceDisplay
<1>4. CASE Lock!MceUnlock /\ UNCHANGED <<lockscreenVisible, callback>>
  <2>1. events' \in Seq(Lock!Events)
    BY <1>0, <1>4, EventTypes DEF Lock!MceUnlock
  <2>2. mceLocked' \in BOOLEAN /\ mceChanges' \in 0 .. MaxMce
    BY <1>1, <1>4 DEF Lock!MceUnlock
  <2>3. UNCHANGED <<mceRunning, mceDisplay, mceInput, calls, lockscreenVisible, callback>>
    BY <1>4 DEF Lock!MceUnlock
  <2>4. UNCHANGED <<currentDisplayState, eatEvents, waitForTouchBegin, inputEnabled,
                    touchBlockedState, unblockTimer, finger, touches>>
    BY <1>4 DEF Lock!MceUnlock
  <2>. QED BY <1>0, <2>1, <2>2, <2>3, <2>4, TypesUpdated
<1>5. CASE Lock!MceEater /\ UNCHANGED <<lockscreenVisible, callback>>
  <2>1. events' \in Seq(Lock!Events)
    BY <1>0, <1>5, EventTypes DEF Lock!MceEater
  <2>. QED BY <1>0, <1>1, <1>5, <2>1, TypesUpdated DEF Lock!MceEater
<1>6. ASSUME NEW mode \in LockModes, Lock!MceLock(mode), UNCHANGED <<lockscreenVisible, callback>>
      PROVE  Lock!TypeOK'
  <2>1. events' \in Seq(Lock!Events)
    BY <1>0, <1>6, EventTypes DEF Lock!MceLock
  <2>. QED BY <1>0, <1>1, <1>6, <2>1, TypesUpdated DEF Lock!MceLock
<1>. QED BY <1>2, <1>3, <1>4, <1>5, <1>6

LEMMA NextTypes == Lock!TypeOK /\ Lock!Next => Lock!TypeOK'
BY HandleEventTypes, MceHandlesTypes, UserTypes, TouchTypes, MceTypes DEF Lock!Next

-----------------------------------------------------------------------------
(* The screen lock: touches                                                 *)

LEMMA NextTouch == Lock!TypeOK /\ TouchInv /\ Lock!Next => TouchInv'
<1>. SUFFICES ASSUME Lock!TypeOK, TouchInv, Lock!Next PROVE TouchInv'
  OBVIOUS
<1>. DEFINE touch == <<inputEnabled, unblockTimer, touchBlockedState, waitForTouchBegin, finger>>
<1>1. CASE UNCHANGED touch
  BY <1>1 DEF TouchInv
<1>2. ASSUME NEW policy \in BOOLEAN, Lock!InputPolicyChanged(policy) PROVE TouchInv'
  BY <1>2 DEF TouchInv, Lock!InputPolicyChanged, Lock!TypeOK
<1>3. CASE Lock!HandleEvent
  <2>1. CASE Lock!InputPolicyChanged(Head(events).value = "enabled")
    BY <1>2, <2>1
  <2>2. CASE UNCHANGED touch
    BY <1>1, <2>2
  <2>. QED BY <1>3, <2>1, <2>2 DEF Lock!HandleEvent, Lock!Signal, Lock!DisplayStateChanged, Lock!TklockOpen,
         Lock!TklockClose, Lock!RunSlot, Lock!SetEnabled, Lock!touchVars
<1>4. CASE Lock!Unblock
  BY <1>4 DEF TouchInv, Lock!Unblock, Lock!TypeOK
<1>5. ASSUME NEW event \in {"begin", "move", "end"}, Lock!TouchEvent(event) PROVE TouchInv'
  <2>1. CASE Lock!Filtered(event)
    BY <1>5, <2>1 DEF TouchInv, Lock!TouchEvent, Lock!Filtered
  <2>2. CASE ~Lock!Filtered(event)
    BY <1>5, <2>2 DEF TouchInv, Lock!TouchEvent, Lock!Filtered
  <2>. QED BY <2>1, <2>2
<1>6. CASE Lock!MceHandles \/ Lock!LockScreen \/ Lock!UnlockScreen \/ Lock!SetDisplayOff
  BY <1>1, <1>6 DEF Lock!MceHandles, Lock!Answer, Lock!LockScreen, Lock!UnlockScreen, Lock!SetEnabled,
       Lock!SetDisplayOff, Lock!touchVars
<1>7. ASSUME UNCHANGED Lock!touchVars PROVE TouchInv'
  BY <1>1, <1>7 DEF Lock!touchVars
<1>. QED BY <1>3, <1>4, <1>5, <1>6, <1>7 DEF Lock!Next, Lock!MceInput, Lock!MceStarts, Lock!MceDisplay,
       Lock!MceUnlock, Lock!MceEater, Lock!MceLock, Lock!MceChange

-----------------------------------------------------------------------------
(* The screen lock: reports of the display and of the input policy          *)

(* What is on its way to inputEnabled, or asked for.                        *)
InputAsked == \E i \in 1 .. Len(calls) : calls[i] = "getInput"

LEMMA ReportsUpdated ==
  ASSUME mceRunning' \/ mceInput',
         Reports(events', "display", mceDisplay'), Reports(events', "input", Input'),
         KindAt(events', "display") = {} => currentDisplayState' \in {mceDisplay', "unknown"},
         KindAt(events', "input") = {} => inputEnabled' = mceInput' \/ InputAsked'
  PROVE  ReportInv'
BY DEF ReportInv, InputAsked

(* MCE sends an event; if it is a report, of its state as it is then.       *)
LEMMA ReportSent ==
  ASSUME Lock!TypeOK, ReportInv, NEW e \in Lock!Events, events' = Append(events, e),
         e.kind = "display" => e.value = mceDisplay', e.kind # "display" => mceDisplay' = mceDisplay,
         e.kind = "input" => e.value = Input', e.kind # "input" => mceInput' = mceInput,
         mceRunning' \/ mceInput', UNCHANGED <<currentDisplayState, inputEnabled>>,
         e.kind = "input" \/ (InputAsked => InputAsked')
  PROVE  ReportInv'
<1>1. events \in Seq(Lock!Events)
  BY QueueTypes
<1>2. e.kind # "input" => Input' = Input
  BY DEF Input
<1>3. IF e.kind = "display" THEN e.value = mceDisplay' ELSE Reports(events, "display", mceDisplay')
  BY DEF ReportInv
<1>4. IF e.kind = "input" THEN e.value = Input' ELSE Reports(events, "input", Input')
  BY <1>2 DEF ReportInv
<1>5. /\ Reports(events', "display", mceDisplay')
      /\ KindAt(events', "display") = {} <=> e.kind # "display" /\ KindAt(events, "display") = {}
  BY <1>1, <1>3, AppendReports
<1>6. /\ Reports(events', "input", Input')
      /\ KindAt(events', "input") = {} <=> e.kind # "input" /\ KindAt(events, "input") = {}
  BY <1>1, <1>4, AppendReports
<1>7. KindAt(events', "display") = {} => currentDisplayState' \in {mceDisplay', "unknown"}
  BY <1>5 DEF ReportInv
<1>8. KindAt(events', "input") = {} => inputEnabled' = mceInput' \/ InputAsked'
  BY <1>6 DEF ReportInv, InputAsked
<1>. QED BY <1>5, <1>6, <1>7, <1>8, ReportsUpdated

(* No event is added, and nothing that is reported changes.                 *)
LEMMA ReportKept ==
  ASSUME ReportInv, UNCHANGED <<events, mceDisplay, mceInput, currentDisplayState, inputEnabled>>,
         mceRunning' \/ mceInput', InputAsked => InputAsked'
  PROVE  ReportInv'
<1>1. Input' = Input
  BY DEF Input
<1>2. Reports(events', "display", mceDisplay') /\ Reports(events', "input", Input')
  BY <1>1 DEF ReportInv
<1>3. /\ KindAt(events', "display") = {} => currentDisplayState' \in {mceDisplay', "unknown"}
      /\ KindAt(events', "input") = {} => inputEnabled' = mceInput' \/ InputAsked'
  BY DEF ReportInv, InputAsked
<1>. QED BY <1>2, <1>3, ReportsUpdated

LEMMA HandleEventReports == Lock!TypeOK /\ ReportInv /\ Lock!HandleEvent => ReportInv'
<1>. SUFFICES ASSUME Lock!TypeOK, ReportInv, Lock!HandleEvent PROVE ReportInv'
  OBVIOUS
<1>. DEFINE rest == Tail(events)
            first == Head(events)
<1>1. /\ events # <<>> /\ events \in Seq(Lock!Events) /\ rest \in Seq(Lock!Events)
      /\ first \in Lock!Events
      /\ UNCHANGED <<mceRunning, mceDisplay, mceInput, calls>>
  BY QueueTypes DEF Lock!HandleEvent, Lock!mceVars
<1>2. (Input' = Input) /\ (InputAsked' <=> InputAsked) /\ (mceRunning' \/ mceInput')
  BY <1>1 DEF Input, InputAsked, ReportInv
<1>3. /\ Reports(rest, "display", mceDisplay)
      /\ first.kind # "display" => (KindAt(rest, "display") = {} => KindAt(events, "display") = {})
      /\ first.kind = "display" /\ KindAt(rest, "display") = {} => first.value = mceDisplay
  BY <1>1, TailReports DEF ReportInv
<1>4. /\ Reports(rest, "input", Input)
      /\ first.kind # "input" => (KindAt(rest, "input") = {} => KindAt(events, "input") = {})
      /\ first.kind = "input" /\ KindAt(rest, "input") = {} => first.value = Input
  BY <1>1, TailReports DEF ReportInv
<1>5. ASSUME NEW kind \in {"display", "input"}, NEW value, Reports(rest, kind, value)
      PROVE  Reports(events', kind, value) /\ (KindAt(events', kind) = {} => KindAt(rest, kind) = {})
  <2>. HIDE DEF rest
  <2>1. ASSUME NEW slot \in Lock!Slots, events' = Append(rest, Lock!Event("slot", slot))
        PROVE  Reports(events', kind, value) /\ (KindAt(events', kind) = {} => KindAt(rest, kind) = {})
    <3>. DEFINE e == Lock!Event("slot", slot)
    <3>1. e \in Lock!Events /\ e.kind # kind
      <4>1. e.kind = "slot"
        BY DEF Lock!Event
      <4>. QED BY <4>1, EventTypes
    <3>. HIDE DEF e
    <3>2. events' = Append(rest, e)
      BY <2>1 DEF e
    <3>. QED BY <1>1, <1>5, <3>1, <3>2, AppendReports
  <2>2. CASE events' = rest
    BY <1>5, <2>2
  <2>. QED BY <2>1, <2>2 DEF Lock!HandleEvent, Lock!Signal, Lock!TklockOpen, Lock!TklockClose, Lock!RunSlot,
                Lock!Slots, rest
<1>6. Reports(events', "display", mceDisplay') /\ Reports(events', "input", Input')
  BY <1>1, <1>2, <1>3, <1>4, <1>5
<1>7. KindAt(events', "display") = {} => currentDisplayState' \in {mceDisplay', "unknown"}
  <2>1. SUFFICES ASSUME KindAt(events', "display") = {} PROVE currentDisplayState' \in {mceDisplay', "unknown"}
    OBVIOUS
  <2>2. KindAt(rest, "display") = {}
    BY <1>3, <1>5, <2>1
  <2>3. CASE first.kind = "display"
    <3>1. currentDisplayState' = first.value
      BY <2>3 DEF Lock!HandleEvent, Lock!Signal, Lock!DisplayStateChanged
    <3>. QED BY <1>1, <1>3, <2>2, <2>3, <3>1
  <2>4. CASE first.kind # "display"
    <3>1. currentDisplayState' = currentDisplayState
      BY <2>4 DEF Lock!HandleEvent, Lock!Signal, Lock!InputPolicyChanged, Lock!TklockOpen, Lock!TklockClose,
           Lock!RunSlot, Lock!SetEnabled, Lock!touchVars
    <3>. QED BY <1>1, <1>3, <2>2, <2>4, <3>1 DEF ReportInv
  <2>. QED BY <2>3, <2>4
<1>8. KindAt(events', "input") = {} => inputEnabled' = mceInput' \/ InputAsked'
  <2>1. SUFFICES ASSUME KindAt(events', "input") = {} PROVE inputEnabled' = mceInput' \/ InputAsked'
    OBVIOUS
  <2>2. KindAt(rest, "input") = {}
    BY <1>4, <1>5, <2>1
  <2>3. CASE first.kind = "input"
    <3>1. inputEnabled' = (first.value = "enabled")
      BY <2>3 DEF Lock!HandleEvent, Lock!Signal, Lock!InputPolicyChanged
    <3>. QED BY <1>1, <1>4, <2>2, <2>3, <3>1 DEF Input, Lock!TypeOK
  <2>4. CASE first.kind # "input"
    <3>1. inputEnabled' = inputEnabled
      BY <2>4 DEF Lock!HandleEvent, Lock!Signal, Lock!DisplayStateChanged, Lock!TklockOpen, Lock!TklockClose,
           Lock!RunSlot, Lock!SetEnabled, Lock!touchVars
    <3>2. inputEnabled = mceInput \/ InputAsked
      BY <1>4, <2>2, <2>4 DEF ReportInv, InputAsked
    <3>. QED BY <1>1, <1>2, <3>1, <3>2
  <2>. QED BY <2>3, <2>4
<1>. QED BY <1>2, <1>6, <1>7, <1>8, ReportsUpdated

LEMMA SentIsNew ==
  ASSUME Lock!TypeOK, NEW e \in Lock!Events
  PROVE  Append(events, e) # events
<1>1. Len(Append(events, e)) = Len(events) + 1 /\ Len(events) \in Nat
  BY QueueTypes, SequenceFacts
<1>. QED BY <1>1

LEMMA MceHandlesReports == Lock!TypeOK /\ ReportInv /\ Lock!MceHandles => ReportInv'
<1>. SUFFICES ASSUME Lock!TypeOK, ReportInv, Lock!MceHandles PROVE ReportInv'
  OBVIOUS
<1>. DEFINE first == Head(calls)
<1>1. calls # <<>> /\ calls \in Seq(Calls) /\ calls' = Tail(calls)
  BY QueueTypes DEF Lock!MceHandles
<1>2. first # "getInput" => (InputAsked => InputAsked')
  <2>1. SUFFICES ASSUME first # "getInput", NEW i \in 1 .. Len(calls), calls[i] = "getInput" PROVE InputAsked'
    BY DEF InputAsked
  <2>2. /\ first = calls[1] /\ Len(calls) \in Nat \ {0} /\ Len(calls') = Len(calls) - 1
        /\ \A j \in 1 .. Len(calls) - 1 : calls'[j] = calls[j + 1]
    BY <1>1, SequenceFacts
  <2>3. i - 1 \in 1 .. Len(calls') /\ calls'[i - 1] = "getInput"
    BY <2>1, <2>2
  <2>. QED BY <2>3 DEF InputAsked
<1>3. UNCHANGED <<currentDisplayState, inputEnabled, mceRunning, mceInput>>
  BY DEF Lock!MceHandles, Lock!Answer, Lock!mceVars, Lock!touchVars
<1>4. mceRunning' \/ mceInput'
  BY <1>3 DEF ReportInv, Lock!TypeOK
<1>5. CASE events' = events
  <2>1. mceDisplay' = mceDisplay /\ first # "getInput"
    <3>1. first # "getInput"
      <4>1. SUFFICES ASSUME first = "getInput" PROVE FALSE
        OBVIOUS
      <4>2. PICK policy \in {"enabled", "disabled"} : events' = Append(events, Lock!Event("input", policy))
        BY <4>1 DEF Lock!MceHandles, Lock!Answer, Lock!Post
      <4>3. Lock!Event("input", policy) \in Lock!Events
        BY EventTypes
      <4>. QED BY <1>5, <4>2, <4>3, SentIsNew
    <3>2. mceDisplay' = mceDisplay
      <4>1. SUFFICES ASSUME mceDisplay' # mceDisplay PROVE FALSE
        OBVIOUS
      <4>2. events' = Append(events, Lock!Event("display", "off"))
        BY <4>1 DEF Lock!MceHandles, Lock!Answer, Lock!Post, Lock!mceVars
      <4>3. Lock!Event("display", "off") \in Lock!Events
        BY EventTypes
      <4>. QED BY <1>5, <4>2, <4>3, SentIsNew
    <3>. QED BY <3>1, <3>2
  <2>. QED BY <1>2, <1>3, <1>4, <1>5, <2>1, ReportKept
<1>6. CASE first = "getDisplay" /\ mceRunning
  <2>. DEFINE e == Lock!Event("display", mceDisplay)
  <2>1. events' = Append(events, e) /\ mceDisplay' = mceDisplay
    BY <1>6 DEF Lock!MceHandles, Lock!Answer, Lock!Post
  <2>2. e \in Lock!Events /\ e.kind = "display" /\ e.value = mceDisplay
    BY EventTypes DEF Lock!TypeOK
  <2>. HIDE DEF e
  <2>. QED BY <1>2, <1>3, <1>4, <1>6, <2>1, <2>2, ReportSent
<1>7. CASE first = "getInput"
  <2>. DEFINE e == Lock!Event("input", Input)
  <2>1. events' = Append(events, e) /\ mceDisplay' = mceDisplay
    BY <1>7 DEF Lock!MceHandles, Lock!Answer, Lock!Post, ReportInv, Input
  <2>2. e \in Lock!Events /\ e.kind = "input" /\ e.value = Input
    BY EventTypes DEF Input
  <2>3. Input' = Input
    BY <1>3 DEF Input
  <2>. HIDE DEF e
  <2>. QED BY <1>3, <1>4, <2>1, <2>2, <2>3, ReportSent
<1>8. CASE first = "displayOff" /\ mceDisplay # "off"
  <2>. DEFINE e == Lock!Event("display", "off")
  <2>1. events' = Append(events, e) /\ mceDisplay' = "off"
    BY <1>8 DEF Lock!MceHandles, Lock!Answer, Lock!Post
  <2>2. e \in Lock!Events /\ e.kind = "display" /\ e.value = "off"
    BY EventTypes
  <2>. HIDE DEF e
  <2>. QED BY <1>2, <1>3, <1>4, <1>8, <2>1, <2>2, ReportSent
<1>9. CASE first \in {"lock", "unlock"} /\ events' # events
  <2>1. PICK e \in {Lock!Event("open", "visual"), Lock!Event("close", "")} : events' = Append(events, e)
    BY <1>9 DEF Lock!MceHandles, Lock!Answer, Lock!Post
  <2>2. e \in Lock!Events /\ e.kind \notin {"display", "input"}
    <3>1. Lock!Event("open", "visual").kind = "open" /\ Lock!Event("close", "").kind = "close"
      BY DEF Lock!Event
    <3>. QED BY <3>1, EventTypes
  <2>3. mceDisplay' = mceDisplay
    BY <1>9 DEF Lock!MceHandles, Lock!Answer, Lock!mceVars
  <2>. QED BY <1>2, <1>3, <1>4, <1>9, <2>1, <2>2, <2>3, ReportSent
<1>. QED BY <1>5, <1>6, <1>7, <1>8, <1>9 DEF Lock!MceHandles, Lock!Answer

LEMMA NextReports == Lock!TypeOK /\ ReportInv /\ Lock!Next => ReportInv'
<1>. SUFFICES ASSUME Lock!TypeOK, ReportInv, Lock!Next PROVE ReportInv'
  OBVIOUS
<1>0. mceRunning \/ mceInput
  BY DEF ReportInv
<1>1. CASE Lock!LockScreen \/ Lock!UnlockScreen \/ Lock!SetDisplayOff
  <2>1. calls' = calls \/ \E c \in Calls : calls' = Append(calls, c)
    BY <1>1 DEF Lock!LockScreen, Lock!UnlockScreen, Lock!SetDisplayOff, Calls
  <2>2. InputAsked => InputAsked'
    <3>1. SUFFICES ASSUME NEW c \in Calls, calls' = Append(calls, c), InputAsked PROVE InputAsked'
      BY <2>1 DEF InputAsked
    <3>2. /\ Len(calls) \in Nat /\ Len(calls') = Len(calls) + 1
          /\ \A i \in 1 .. Len(calls) : calls'[i] = calls[i]
      BY <3>1, QueueTypes, SequenceFacts
    <3>. QED BY <3>1, <3>2 DEF InputAsked
  <2>3. UNCHANGED <<events, mceDisplay, mceInput, mceRunning, currentDisplayState, inputEnabled>>
    BY <1>1 DEF Lock!LockScreen, Lock!UnlockScreen, Lock!SetDisplayOff, Lock!Request, Lock!SetEnabled, Lock!mceVars
  <2>. QED BY <1>0, <2>2, <2>3, ReportKept
<1>2. CASE Lock!Unblock \/ Lock!MceStarts \/ \E event \in {"begin", "move", "end"} : Lock!TouchEvent(event)
  <2>1. UNCHANGED <<events, calls, mceDisplay, mceInput, currentDisplayState, inputEnabled>>
    BY <1>2 DEF Lock!Unblock, Lock!MceStarts, Lock!TouchEvent, Lock!mceVars, Lock!touchVars
  <2>2. mceRunning' \/ mceInput'
    BY <1>0, <1>2, <2>1 DEF Lock!Unblock, Lock!MceStarts, Lock!TouchEvent, Lock!mceVars
  <2>3. InputAsked' <=> InputAsked
    BY <2>1 DEF InputAsked
  <2>. QED BY <2>1, <2>2, <2>3, ReportKept
<1>3. ASSUME Lock!MceChange, NEW e \in Lock!Events, events' = Append(events, e), calls' = calls,
             e.kind = "display" => e.value = mceDisplay', e.kind # "display" => mceDisplay' = mceDisplay,
             e.kind = "input" => e.value = Input', e.kind # "input" => mceInput' = mceInput
      PROVE  ReportInv'
  <2>1. mceRunning' /\ UNCHANGED <<currentDisplayState, inputEnabled>>
    BY <1>3 DEF Lock!MceChange, Lock!touchVars
  <2>2. InputAsked' <=> InputAsked
    BY <1>3 DEF InputAsked
  <2>. QED BY <1>3, <2>1, <2>2, ReportSent
<1>4. CASE Lock!MceInput
  <2>. DEFINE e == Lock!Event("input", Input')
  <2>1. Lock!MceChange /\ events' = Append(events, e) /\ UNCHANGED <<mceDisplay, calls>>
    BY <1>4 DEF Lock!MceInput, Lock!Post, Input
  <2>2. e \in Lock!Events /\ e.kind = "input" /\ e.value = Input'
    BY EventTypes DEF Input
  <2>. HIDE DEF e
  <2>. QED BY <1>3, <2>1, <2>2
<1>5. ASSUME NEW state \in {"off", "dim", "on"}, Lock!MceDisplay(state) PROVE ReportInv'
  <2>. DEFINE e == Lock!Event("display", state)
  <2>1. Lock!MceChange /\ events' = Append(events, e) /\ mceDisplay' = state /\ UNCHANGED <<mceInput, calls>>
    BY <1>5 DEF Lock!MceDisplay, Lock!Post
  <2>2. e \in Lock!Events /\ e.kind = "display" /\ e.value = state
    BY EventTypes
  <2>. HIDE DEF e
  <2>. QED BY <1>3, <2>1, <2>2
<1>6. CASE Lock!MceUnlock \/ Lock!MceEater \/ \E mode \in LockModes : Lock!MceLock(mode)
  <2>. DEFINE asked == {Lock!Event("close", "")} \cup {Lock!Event("open", mode) : mode \in LockModes \cup {"oneInput"}}
  <2>1. PICK e \in asked : events' = Append(events, e)
    BY <1>6 DEF Lock!MceUnlock, Lock!MceEater, Lock!MceLock, Lock!Post
  <2>2. e \in Lock!Events /\ e.kind \notin {"display", "input"}
    <3>1. e \in Lock!Events
      BY EventTypes
    <3>2. Lock!Event("close", "").kind = "close" /\ \A mode : Lock!Event("open", mode).kind = "open"
      BY DEF Lock!Event
    <3>3. e.kind \in {"open", "close"}
      BY <3>2
    <3>. QED BY <3>1, <3>3
  <2>3. Lock!MceChange /\ UNCHANGED <<mceDisplay, mceInput, calls>>
    BY <1>6 DEF Lock!MceUnlock, Lock!MceEater, Lock!MceLock
  <2>. QED BY <1>3, <2>1, <2>2, <2>3
<1>. QED BY <1>1, <1>2, <1>4, <1>5, <1>6, HandleEventReports, MceHandlesReports DEF Lock!Next

-----------------------------------------------------------------------------
(* The screen lock: the effects of the calls of MCE and of the user         *)

LEMMA EffectsUpdated ==
  ASSUME EffectsLeave(events', mceLocked'),
         mceLocked' => callback' \/ AskedAt(events') # {},
         NoEffect(events') => lockscreenVisible' = mceLocked' \/ CallsLeave(calls', lockscreenVisible')
  PROVE  EffectInv'
BY DEF EffectInv

(* An event that has no effect on the lock is added.                        *)
LEMMA OtherSent ==
  ASSUME Lock!TypeOK, EffectInv, NEW e \in Lock!Events, events' = Append(events, e),
         ~Asks(e), ~Shows(e), UNCHANGED <<mceLocked, callback, lockscreenVisible>>,
         CallsLeave(calls, lockscreenVisible) => CallsLeave(calls', lockscreenVisible)
  PROVE  EffectInv'
<1>1. /\ EffectsLeave(events', mceLocked)
      /\ AskedAt(events') = {} <=> AskedAt(events) = {}
      /\ NoEffect(events') <=> NoEffect(events)
  BY QueueTypes, AppendEffects DEF EffectInv
<1>. QED BY <1>1, EffectsUpdated DEF EffectInv

(* MCE asks for what it has done.                                           *)
LEMMA LockSent ==
  ASSUME Lock!TypeOK, EffectInv, NEW e \in Lock!Events, events' = Append(events, e),
         Asks(e), ~Shows(e), mceLocked' = ~mceLocked, Locks(e) <=> mceLocked'
  PROVE  EffectInv'
<1>. DEFINE t == Append(events, e)
<1>1. /\ Len(events) \in Nat /\ Len(t) = Len(events) + 1 /\ t[Len(events) + 1] = e
      /\ \A i \in 1 .. Len(events) : t[i] = events[i]
  BY QueueTypes, SequenceFacts
<1>. HIDE DEF t
<1>2. Len(t) \in AskedAt(t) /\ \A i \in AskedAt(t) : i \in Nat /\ i <= Len(t)
  BY <1>1 DEF AskedAt
<1>3. \A i : LastIn(i, AskedAt(t)) => i = Len(t)
  BY <1>1, <1>2 DEF LastIn
<1>4. EffectsLeave(t, mceLocked') /\ ~NoEffect(t)
  BY <1>1, <1>2, <1>3 DEF EffectsLeave, NoEffect
<1>. QED BY <1>2, <1>4, EffectsUpdated DEF t

(* No event is added; the calls and the lock may be those of the user.      *)
LEMMA UserEffect ==
  ASSUME EffectInv, UNCHANGED <<events, mceLocked, callback>>,
         NoEffect(events) => lockscreenVisible' = mceLocked \/ CallsLeave(calls', lockscreenVisible')
  PROVE  EffectInv'
BY EffectsUpdated DEF EffectInv

LEMMA HandleEventEffects == Lock!TypeOK /\ EffectInv /\ Lock!HandleEvent => EffectInv'
<1>. SUFFICES ASSUME Lock!TypeOK, EffectInv, Lock!HandleEvent PROVE EffectInv'
  OBVIOUS
<1>. DEFINE first == Head(events)
            rest == Tail(events)
<1>1. events # <<>> /\ events \in Seq(Lock!Events) /\ first \in Lock!Events
  BY QueueTypes DEF Lock!HandleEvent
<1>2. EffectsLeave(events, mceLocked) /\ UNCHANGED <<mceLocked, calls>>
  BY DEF EffectInv, Lock!HandleEvent
<1>3. lockscreenVisible' \in BOOLEAN /\ mceLocked \in BOOLEAN
  BY HandleEventTypes DEF Lock!TypeOK
<1>4. ASSUME first.kind \in {"open", "close"}, Asks(first), NEW e \in Lock!Events, events' = Append(rest, e),
             Shows(e), ~Asks(e), Locks(e) <=> Locks(first), callback' = (callback \/ first.kind = "open")
      PROVE  EffectInv'
  <2>1. /\ EffectsLeave(events', mceLocked) /\ ~NoEffect(events')
        /\ AskedAt(events') = {} => (Locks(e) <=> mceLocked)
    BY <1>1, <1>2, <1>4, PostEffect
  <2>2. first.kind = "close" => ~Locks(first)
    BY <1>1, EventFields DEF Locks
  <2>. QED BY <1>2, <1>4, <2>1, <2>2, EffectsUpdated
<1>5. ASSUME ~Asks(first), NEW e \in Lock!Events, events' = rest \/ (events' = Append(rest, e) /\ ~Asks(e) /\ ~Shows(e)),
             callback => callback', ~Shows(first) => lockscreenVisible' = lockscreenVisible,
             Shows(first) => (lockscreenVisible' <=> Locks(first))
      PROVE  EffectInv'
  <2>1. /\ EffectsLeave(rest, mceLocked)
        /\ AskedAt(rest) = {} <=> AskedAt(events) = {}
        /\ NoEffect(rest) => NoEffect(events) \/ (Shows(first) /\ (Locks(first) <=> mceLocked))
    BY <1>1, <1>2, <1>5, TailEffects
  <2>2. /\ EffectsLeave(events', mceLocked)
        /\ AskedAt(events') = {} <=> AskedAt(rest) = {}
        /\ NoEffect(events') <=> NoEffect(rest)
    <3>1. rest \in Seq(Lock!Events)
      BY <1>1, SequenceFacts
    <3>. HIDE DEF rest
    <3>. QED BY <1>5, <2>1, <3>1, AppendEffects
  <2>3. NoEffect(events) => ~Shows(first)
    BY <1>1, TailFacts DEF NoEffect
  <2>4. mceLocked' => callback' \/ AskedAt(events') # {}
    BY <1>2, <1>5, <2>1, <2>2 DEF EffectInv
  <2>5. ASSUME NoEffect(events') PROVE lockscreenVisible' = mceLocked' \/ CallsLeave(calls', lockscreenVisible')
    <3>1. CASE NoEffect(events)
      BY <1>2, <1>5, <2>3, <3>1 DEF EffectInv
    <3>2. CASE Shows(first) /\ (Locks(first) <=> mceLocked)
      BY <1>2, <1>3, <1>5, <3>2
    <3>. QED BY <2>1, <2>2, <2>5, <3>1, <3>2
  <2>. QED BY <1>2, <2>2, <2>4, <2>5, EffectsUpdated
<1>. HIDE DEF rest
<1>6. CASE first.kind = "open" /\ Lock!TklockOpen(first.value)
  <2>. DEFINE e == Lock!Event("slot", IF first.value = "oneInput" THEN "showEventEater" ELSE "showScreenLock")
  <2>1. /\ e \in Lock!Events /\ e.kind = "slot"
        /\ e.value = IF first.value = "oneInput" THEN "showEventEater" ELSE "showScreenLock"
    BY EventTypes DEF Lock!Slots
  <2>2. events' = Append(rest, e) /\ callback' = TRUE /\ lockscreenVisible' = lockscreenVisible
    BY <1>6 DEF Lock!TklockOpen, rest
  <2>. HIDE DEF e
  <2>3. CASE first.value = "oneInput"
    BY <1>5, <1>6, <2>1, <2>2, <2>3 DEF Asks, Shows
  <2>4. CASE first.value # "oneInput"
    <3>1. Asks(first) /\ Shows(e) /\ ~Asks(e) /\ Locks(e) /\ Locks(first)
      BY <1>6, <2>1, <2>4 DEF Asks, Shows, Locks
    <3>2. callback' = (callback \/ first.kind = "open")
      BY <1>6, <2>2
    <3>. QED BY <1>4, <1>6, <2>1, <2>2, <3>1, <3>2
  <2>. QED BY <2>3, <2>4
<1>7. CASE first.kind = "close" /\ Lock!TklockClose
  <2>. DEFINE e == Lock!Event("slot", "hideScreenLock")
  <2>1. e \in Lock!Events /\ e.kind = "slot" /\ e.value = "hideScreenLock"
    BY EventTypes DEF Lock!Slots
  <2>2. events' = Append(rest, e) /\ callback' = callback
    BY <1>7 DEF Lock!TklockClose, rest
  <2>. HIDE DEF e
  <2>3. Asks(first) /\ Shows(e) /\ ~Asks(e) /\ ~Locks(e) /\ ~Locks(first)
    BY <1>1, <1>7, <2>1, EventFields DEF Asks, Shows, Locks
  <2>4. callback' = (callback \/ first.kind = "open")
    BY <1>7, <2>2 DEF Lock!TypeOK
  <2>. QED BY <1>4, <1>7, <2>1, <2>2, <2>3, <2>4
<1>8. CASE first.kind = "slot" /\ Lock!RunSlot(first.value)
  <2>1. events' = rest /\ callback' = callback /\ ~Asks(first)
    BY <1>8 DEF Lock!RunSlot, rest, Asks
  <2>2. ~Shows(first) => lockscreenVisible' = lockscreenVisible
    BY <1>1, <1>8, EventFields DEF Lock!RunSlot, Shows
  <2>3. Shows(first) => (lockscreenVisible' <=> Locks(first))
    BY <1>1, <1>8, EventFields DEF Lock!RunSlot, Shows, Locks
  <2>. QED BY <1>1, <1>5, <2>1, <2>2, <2>3
<1>9. CASE first.kind \in {"display", "input"} /\ Lock!Signal(first)
  <2>1. events' = rest /\ UNCHANGED <<lockscreenVisible, callback>>
    BY <1>9 DEF Lock!Signal, rest
  <2>2. ~Asks(first) /\ ~Shows(first)
    BY <1>9 DEF Asks, Shows
  <2>. QED BY <1>1, <1>5, <2>1, <2>2
<1>. QED BY <1>6, <1>7, <1>8, <1>9 DEF Lock!HandleEvent, Lock!Signal

LEMMA MceHandlesEffects == Lock!TypeOK /\ EffectInv /\ Lock!MceHandles => EffectInv'
<1>. SUFFICES ASSUME Lock!TypeOK, EffectInv, Lock!MceHandles PROVE EffectInv'
  OBVIOUS
<1>. DEFINE first == Head(calls)
<1>1. /\ calls # <<>> /\ calls \in Seq(Calls) /\ calls' = Tail(calls)
      /\ UNCHANGED <<lockscreenVisible, callback>>
      /\ lockscreenVisible \in BOOLEAN /\ mceLocked \in BOOLEAN
  BY QueueTypes DEF Lock!MceHandles, Lock!TypeOK
<1>2. CallsLeave(calls, lockscreenVisible) =>
        \/ CallsLeave(calls', lockscreenVisible)
        \/ first \in {"lock", "unlock"} /\ (first = "lock" <=> lockscreenVisible)
  BY <1>1, TailCall
<1>3. CASE Lock!Answer(first) /\ UNCHANGED mceLocked
  <2>1. first \notin {"lock", "unlock"}
    BY <1>3 DEF Lock!Answer
  <2>2. CASE events' = events
    BY <1>1, <1>2, <1>3, <2>1, <2>2, UserEffect DEF EffectInv
  <2>3. CASE events' # events
    <3>. DEFINE reports == {Lock!Event("display", state) : state \in {"off", "dim", "on"}}
                           \cup {Lock!Event("input", policy) : policy \in {"enabled", "disabled"}}
    <3>1. PICK e \in reports : events' = Append(events, e)
      BY <1>3, <2>3 DEF Lock!Answer, Lock!Post, Lock!TypeOK
    <3>2. e \in Lock!Events
      BY EventTypes
    <3>3. /\ \A state : Lock!Event("display", state).kind = "display"
          /\ \A policy : Lock!Event("input", policy).kind = "input"
      BY DEF Lock!Event
    <3>4. e.kind \in {"display", "input"}
      BY <3>3
    <3>. QED BY <1>1, <1>2, <1>3, <2>1, <3>1, <3>2, <3>4, OtherSent DEF Asks, Shows
  <2>. QED BY <2>2, <2>3
<1>4. CASE /\ first \in {"lock", "unlock"} /\ mceLocked' = (first = "lock")
           /\ IF mceLocked' = mceLocked THEN UNCHANGED events
              ELSE IF mceLocked' THEN Lock!Post("open", "visual") ELSE Lock!Post("close", "")
  <2>1. CASE mceLocked' = mceLocked
    <3>1. lockscreenVisible = mceLocked \/ CallsLeave(calls, lockscreenVisible)
            => lockscreenVisible = mceLocked \/ CallsLeave(calls', lockscreenVisible)
      BY <1>1, <1>2, <1>4, <2>1
    <3>. QED BY <1>1, <1>4, <2>1, <3>1, UserEffect DEF EffectInv
  <2>2. CASE mceLocked' # mceLocked /\ mceLocked'
    <3>. DEFINE e == Lock!Event("open", "visual")
    <3>1. e \in Lock!Events /\ e.kind = "open" /\ e.value = "visual"
      BY EventTypes
    <3>2. events' = Append(events, e) /\ mceLocked' = ~mceLocked
      BY <1>1, <1>4, <2>2 DEF Lock!Post
    <3>. HIDE DEF e
    <3>3. Asks(e) /\ ~Shows(e) /\ Locks(e)
      BY <3>1 DEF Asks, Shows, Locks
    <3>. QED BY <2>2, <3>1, <3>2, <3>3, LockSent
  <2>3. CASE mceLocked' # mceLocked /\ ~mceLocked'
    <3>. DEFINE e == Lock!Event("close", "")
    <3>1. e \in Lock!Events /\ e.kind = "close" /\ e.value = ""
      BY EventTypes
    <3>2. events' = Append(events, e) /\ mceLocked' = ~mceLocked
      BY <1>1, <1>4, <2>3 DEF Lock!Post
    <3>. HIDE DEF e
    <3>3. Asks(e) /\ ~Shows(e) /\ ~Locks(e)
      BY <3>1 DEF Asks, Shows, Locks
    <3>. QED BY <2>3, <3>1, <3>2, <3>3, LockSent
  <2>. QED BY <2>1, <2>2, <2>3
<1>. QED BY <1>3, <1>4 DEF Lock!MceHandles

LEMMA NextEffects == Lock!TypeOK /\ EffectInv /\ Lock!Next => EffectInv'
<1>. SUFFICES ASSUME Lock!TypeOK, EffectInv, Lock!Next PROVE EffectInv'
  OBVIOUS
<1>0. /\ calls \in Seq(Calls)
      /\ mceLocked \in BOOLEAN
  BY QueueTypes DEF Lock!TypeOK
<1>1. CASE Lock!LockScreen
  <2>1. lockscreenVisible' = TRUE /\ calls' = Append(calls, "lock") /\ UNCHANGED <<events, mceLocked, callback>>
    BY <1>1 DEF Lock!LockScreen, Lock!Request
  <2>2. CallsLeave(calls', lockscreenVisible')
    <3>1. "lock" \in Calls /\ ("lock" = "lock" <=> lockscreenVisible')
      BY <2>1 DEF Calls
    <3>. QED BY <1>0, <2>1, <3>1, AppendCall
  <2>. QED BY <2>1, <2>2, UserEffect
<1>2. CASE Lock!UnlockScreen
  <2>1. lockscreenVisible' = FALSE /\ UNCHANGED <<events, mceLocked, callback>>
    BY <1>2 DEF Lock!UnlockScreen, Lock!Request
  <2>2. CASE callback
    <3>1. calls' = Append(calls, "unlock")
      BY <1>2, <2>2 DEF Lock!UnlockScreen
    <3>2. CallsLeave(calls', lockscreenVisible')
      <4>1. "unlock" \in Calls /\ ("unlock" = "lock" <=> lockscreenVisible')
        BY <2>1 DEF Calls
      <4>. QED BY <1>0, <3>1, <4>1, AppendCall
    <3>. QED BY <2>1, <3>2, UserEffect
  <2>3. CASE ~callback
    <3>1. NoEffect(events) => mceLocked = FALSE
      BY <1>0, <2>3 DEF EffectInv, NoEffect
    <3>. QED BY <2>1, <3>1, UserEffect
  <2>. QED BY <2>2, <2>3
<1>3. CASE Lock!SetDisplayOff /\ UNCHANGED <<Lock!lockVars, requests>>
  <2>1. calls' = Append(calls, "displayOff") /\ UNCHANGED <<events, lockscreenVisible, mceLocked, callback>>
    BY <1>3 DEF Lock!SetDisplayOff, Lock!lockVars
  <2>2. CallsLeave(calls, lockscreenVisible) => CallsLeave(calls', lockscreenVisible)
    BY <1>0, <2>1, AppendCall DEF Calls
  <2>. QED BY <2>1, <2>2, UserEffect DEF EffectInv
<1>4. CASE /\ Lock!Unblock \/ Lock!MceStarts \/ \E event \in {"begin", "move", "end"} : Lock!TouchEvent(event)
           /\ UNCHANGED <<Lock!lockVars, requests>>
  <2>1. UNCHANGED <<events, calls, mceLocked, lockscreenVisible, callback>>
    BY <1>4 DEF Lock!Unblock, Lock!MceStarts, Lock!TouchEvent, Lock!lockVars
  <2>. QED BY <2>1, UserEffect DEF EffectInv
<1>5. CASE /\ Lock!MceInput \/ \E state \in {"off", "dim", "on"} : Lock!MceDisplay(state)
           /\ UNCHANGED <<Lock!lockVars, requests>>
  <2>. DEFINE reports == {Lock!Event("display", state) : state \in {"off", "dim", "on"}}
                         \cup {Lock!Event("input", policy) : policy \in {"enabled", "disabled"}}
  <2>1. PICK e \in reports : events' = Append(events, e)
    BY <1>5 DEF Lock!MceInput, Lock!MceDisplay, Lock!Post
  <2>2. e \in Lock!Events
    BY EventTypes
  <2>3. /\ \A state : Lock!Event("display", state).kind = "display"
        /\ \A policy : Lock!Event("input", policy).kind = "input"
    BY DEF Lock!Event
  <2>4. e.kind \in {"display", "input"}
    BY <2>3
  <2>5. UNCHANGED <<calls, mceLocked, lockscreenVisible, callback>>
    BY <1>5 DEF Lock!MceInput, Lock!MceDisplay, Lock!lockVars
  <2>. QED BY <2>1, <2>2, <2>4, <2>5, OtherSent DEF Asks, Shows
<1>6. CASE Lock!MceEater /\ UNCHANGED <<lockscreenVisible, callback, requests>>
  <2>. DEFINE e == Lock!Event("open", "oneInput")
  <2>1. e \in Lock!Events /\ e.kind = "open" /\ e.value = "oneInput"
    BY EventTypes
  <2>2. events' = Append(events, e) /\ UNCHANGED <<calls, mceLocked>>
    BY <1>6 DEF Lock!MceEater, Lock!Post
  <2>. HIDE DEF e
  <2>. QED BY <1>6, <2>1, <2>2, OtherSent DEF Asks, Shows
<1>7. ASSUME NEW mode \in LockModes, Lock!MceLock(mode), UNCHANGED <<lockscreenVisible, callback, requests>>
      PROVE  EffectInv'
  <2>. DEFINE e == Lock!Event("open", mode)
  <2>1. e \in Lock!Events /\ e.kind = "open" /\ e.value # "oneInput"
    BY EventTypes, ScreenAssumption
  <2>2. events' = Append(events, e) /\ mceLocked' = TRUE /\ ~mceLocked
    BY <1>7 DEF Lock!MceLock, Lock!Post
  <2>. HIDE DEF e
  <2>3. Asks(e) /\ ~Shows(e) /\ Locks(e)
    BY <2>1 DEF Asks, Shows, Locks
  <2>. QED BY <2>1, <2>2, <2>3, LockSent
<1>8. CASE Lock!MceUnlock /\ UNCHANGED <<lockscreenVisible, callback, requests>>
  <2>. DEFINE e == Lock!Event("close", "")
  <2>1. e \in Lock!Events /\ e.kind = "close" /\ e.value = ""
    BY EventTypes
  <2>2. events' = Append(events, e) /\ mceLocked' = FALSE /\ mceLocked
    BY <1>8 DEF Lock!MceUnlock, Lock!Post
  <2>. HIDE DEF e
  <2>3. Asks(e) /\ ~Shows(e) /\ ~Locks(e)
    BY <2>1 DEF Asks, Shows, Locks
  <2>4. mceLocked' = ~mceLocked
    BY <1>0, <2>2
  <2>. QED BY <2>1, <2>2, <2>3, <2>4, LockSent
<1>. QED BY <1>1, <1>2, <1>3, <1>4, <1>5, <1>6, <1>7, <1>8, HandleEventEffects, MceHandlesEffects
     DEF Lock!Next

LEMMA NextLock == LockInv /\ Lock!Next => LockInv'
BY NextTypes, NextTouch, NextReports, NextEffects DEF LockInv

-----------------------------------------------------------------------------
(* The interaction expected *)

ExpectedInv == Expected!ToldWhatIsExpected /\ (values = 0 => ~idleTimer) /\ values \in Nat /\ idleTimer \in BOOLEAN

LEMMA NextExpected == ExpectedInv /\ (Expected!Next \/ UNCHANGED expectedVars) => ExpectedInv'
<1>1. CASE Expected!InteractionExpectedBroadcast
  BY <1>1 DEF ExpectedInv, Expected!ToldWhatIsExpected, Expected!InteractionExpectedBroadcast
<1>2. ASSUME NEW value \in {"yes", "no"}, Expected!SetInteractionExpected(value), ExpectedInv PROVE ExpectedInv'
  <2>1. values' \in Nat \ {0} /\ idleTimer' \in BOOLEAN
    BY <1>2 DEF ExpectedInv, Expected!SetInteractionExpected
  <2>2. idleTimer' <=> told' # expected'
    BY <1>2 DEF Expected!SetInteractionExpected
  <2>. QED BY <2>1, <2>2 DEF ExpectedInv, Expected!ToldWhatIsExpected
<1>3. CASE UNCHANGED expectedVars
  BY <1>3 DEF ExpectedInv, Expected!ToldWhatIsExpected, expectedVars
<1>. QED BY <1>1, <1>2, <1>3 DEF Expected!Next

(* For all modes, bounds and numbers of events under way: the lock is shown  *)
(* exactly when MCE is locked once nothing is under way, and the idle timer  *)
(* runs exactly while a value is due that MCE was not told.                  *)
THEOREM LockScreenAgrees == Spec => []LockAgrees
<1>1. Init => LockInv /\ ExpectedInv
  <2>1. Expected!Init => ExpectedInv
    <3>. SUFFICES ASSUME Expected!Init PROVE ExpectedInv
      OBVIOUS
    <3>1. values \in Nat /\ idleTimer \in BOOLEAN /\ ~idleTimer
      BY DEF Expected!Init
    <3>2. Expected!ToldWhatIsExpected
      BY DEF Expected!Init, Expected!ToldWhatIsExpected
    <3>. QED BY <3>1, <3>2 DEF ExpectedInv
  <2>. QED BY <2>1, InitLock DEF Init
<1>2. LockInv /\ ExpectedInv /\ [Next]_vars => LockInv' /\ ExpectedInv'
  <2>1. LockInv /\ [Next]_vars => LockInv'
    BY NextLock, LockKept DEF Next, vars
  <2>2. ExpectedInv /\ [Next]_vars => ExpectedInv'
    BY NextExpected DEF Next, vars
  <2>. QED BY <2>1, <2>2
<1>3. LockInv /\ ExpectedInv => LockAgrees
  BY LockSuffices DEF LockAgrees, ExpectedInv
<1>. QED BY <1>1, <1>2, <1>3, PTL DEF Spec

(* The touch screen agrees with MCE once nothing is under way, and the rest  *)
(* of a touch that began, or went on, while touch was blocked is not let     *)
(* through: the safety part of TouchFollows.                                 *)
THEOREM TouchIsSafe == Spec => [](Lock!TouchAgrees /\ Lock!NoStrayTouch)
<1>1. Init => LockInv
  BY InitLock DEF Init
<1>2. LockInv /\ [Next]_vars => LockInv'
  BY NextLock, LockKept DEF Next, vars
<1>. QED BY <1>1, <1>2, LockSuffices, PTL DEF Spec

-----------------------------------------------------------------------------
(* The shutdown screen *)

(* A shutdown screen that appears shows what it is for, whatever the modes   *)
(* and however often its window was shown and hidden: the part of            *)
(* ShutdownShown that is about steps.                                        *)
THEOREM AppearsAsMeant == Spec => [][Screen!AppearsWithMode]_shutdownVars
<1>1. Screen!Next => Screen!AppearsWithMode
  <2>. SUFFICES ASSUME Screen!Next, shutdownWindow # "visible", shutdownWindow' = "visible"
                PROVE  shownMode' = shutdownMode'
    BY DEF Screen!AppearsWithMode
  <2>1. CASE Screen!Shutdown
    BY <2>1 DEF Screen!Shutdown, Screen!Show
  <2>2. CASE Screen!Reboot
    BY <2>2 DEF Screen!Reboot
  <2>3. CASE Screen!UserSwitching
    BY <2>3 DEF Screen!UserSwitching, Screen!Show
  <2>4. CASE Screen!UserSwitchingFailed
    BY <2>4 DEF Screen!UserSwitchingFailed
  <2>5. ASSUME NEW mode \in ShutdownModes, NEW isPrivileged \in BOOLEAN,
               Screen!SetShutdownMode(mode, isPrivileged)
        PROVE  shownMode' = shutdownMode'
    BY <2>5 DEF Screen!SetShutdownMode, Screen!Show
  <2>6. CASE Screen!HideTimeout
    BY <2>6 DEF Screen!HideTimeout, Screen!Hide
  <2>7. CASE Screen!UserManagerChanges \/ Screen!NoticeUserManager
    BY <2>7 DEF Screen!UserManagerChanges, Screen!NoticeUserManager, Screen!shutdownVars
  <2>. QED BY <2>1, <2>2, <2>3, <2>4, <2>5, <2>6, <2>7 DEF Screen!Next
<1>2. [Next]_vars => [Screen!AppearsWithMode]_shutdownVars
  BY <1>1 DEF Next, vars, shutdownVars
<1>. QED BY <1>2, PTL DEF Spec

-----------------------------------------------------------------------------
(* The start of the home screen *)

(* Every window shown before home is announced adds a connection, and they   *)
(* stay; only the flag keeps home from being announced again.                *)
HomeInv ==
  /\ homeReadySent \in BOOLEAN /\ connections \in Nat
  /\ Home!ReadyOnce /\ Home!SceneShown

LEMMA NextHome == HomeInv /\ Home!Next => HomeInv'
<1>. SUFFICES ASSUME HomeInv, Home!Next PROVE HomeInv'
  OBVIOUS
<1>. USE DEF HomeInv, Home!ReadyOnce, Home!SceneShown, Home!Call, Home!SetSource, Home!windowVars, Home!readyVars
<1>1. ASSUME NEW loads \in BOOLEAN, Home!SetCompositorPath(loads) PROVE HomeInv'
  BY <1>1 DEF Home!SetCompositorPath
<1>2. ASSUME NEW loads \in BOOLEAN, Home!SetQmlPath(loads) PROVE HomeInv'
  BY <1>2 DEF Home!SetQmlPath
<1>3. ASSUME NEW loads \in BOOLEAN, Home!MainWindowInstance(loads) PROVE HomeInv'
  BY <1>3 DEF Home!MainWindowInstance
<1>4. CASE Home!ShowWindow
  BY <1>4 DEF Home!ShowWindow, Home!ConnectFrameSwapped
<1>5. CASE Home!HideWindow
  BY <1>5 DEF Home!HideWindow
<1>6. CASE Home!FrameSwapped
  BY <1>6 DEF Home!FrameSwapped, Home!SendHomeReady
<1>. QED BY <1>1, <1>2, <1>3, <1>4, <1>5, <1>6 DEF Home!Next

(* Home is announced once at most, somebody listens to a window on show as   *)
(* long as it is not, and a visible window shows the scene loaded last: the  *)
(* safety part of HomeAnnounced.                                             *)
THEOREM HomeIsAnnouncedOnce == Spec => [](Home!ReadyOnce /\ Home!SceneShown)
<1>1. Init => HomeInv
  <2>. SUFFICES ASSUME Home!Init PROVE HomeInv
    BY DEF Init
  <2>1. homeReadySent = FALSE /\ connections = 0 /\ readySignals = 0 /\ mainWindow = "none"
    BY DEF Home!Init
  <2>. QED BY <2>1 DEF HomeInv, Home!ReadyOnce, Home!SceneShown
<1>2. HomeInv /\ [Next]_vars => HomeInv'
  <2>1. HomeInv /\ UNCHANGED homeVars => HomeInv'
    BY DEF HomeInv, Home!ReadyOnce, Home!SceneShown, homeVars
  <2>. QED BY <2>1, NextHome DEF Next, vars
<1>3. HomeInv => Home!ReadyOnce /\ Home!SceneShown
  BY DEF HomeInv
<1>. QED BY <1>1, <1>2, <1>3, PTL DEF Spec
=============================================================================
