--------------------------- MODULE CompositorUpdates ---------------------------
(***************************************************************************)
(* The compositor switched on and off by MCE.  A call is queued until it   *)
(* is known who MCE is on the bus, and refused if it came from anyone      *)
(* else.  When updates end the topmost window loses the keyboard focus,    *)
(* and gets it back when they begin.                                       *)
(***************************************************************************)
EXTENDS Naturals, Sequences, SequencesExt

CONSTANTS
  Windows,     \* ids of the windows of the compositor
  MaxRestarts, \* bound on the instances of MCE
  MaxUpdates   \* bound on what the scene, the user and timed do, and on calls
               \* on the bus, which count twice

VARIABLES
  mce,           \* the running instance of MCE, 0 for none
  instances,     \* how many there have been
  bus,           \* what the bus delivers next to the home screen, in order
  asked,         \* the owner of MCE's name has been asked for
  nameOwner, ownerValid,   \* what QMceNameOwner knows
  queue,         \* m_queuedSetUpdatesEnabledCalls
  processing,    \* a queued processQueuedSetUpdatesEnabledCalls()
  lastCall,      \* the last call that the running MCE has got through
  updatesEnabled, shown,   \* m_updatesEnabled, m_window is visible
  unfocusedId,   \* m_onUpdatesDisabledUnfocusedWindowId
  focus, topmost, existing, lockVisible,
  ambient,       \* m_ambientModeEnabled
  wakeups,       \* events of timed that will wake the device
  updates

mceVars == <<mce, instances, lastCall>>
ownerVars == <<asked, nameOwner, ownerValid>>
busVars == <<mceVars, bus, ownerVars, queue, processing>>
enabledVars == <<updatesEnabled, shown, unfocusedId, focus, wakeups>>
sceneVars == <<topmost, existing, lockVisible, ambient, updates>>

None == 0

-----------------------------------------------------------------------------
(* Updates *)

(* scheduleAmbientUpdate(): all wakeups of timed but one are cancelled and *)
(* that one is replaced; without any, one is added.  timed may not answer. *)
ScheduleAmbientUpdate == wakeups' \in (IF ambient THEN {1, wakeups} ELSE {wakeups})

Disable ==
    /\ unfocusedId' = IF topmost \in existing /\ focus = topmost THEN topmost ELSE unfocusedId
    /\ focus' = IF topmost \in existing /\ focus = topmost THEN None ELSE focus
    /\ shown' = FALSE
    /\ ScheduleAmbientUpdate

(* Mutation: what had the focus is remembered until it is given back.      *)
EnableRemembering ==
    /\ shown' = TRUE
    /\ IF unfocusedId # None /\ ~lockVisible /\ topmost = unfocusedId /\ topmost \in existing
       THEN focus' = topmost /\ unfocusedId' = None
       ELSE UNCHANGED <<focus, unfocusedId>>
    /\ UNCHANGED wakeups

(* The focus goes back to the window that lost it, but not to one that is  *)
(* gone, or covered by another one or by the lock screen.                  *)
Enable ==
    /\ shown' = TRUE
    /\ focus' = IF unfocusedId # None /\ ~lockVisible /\ topmost = unfocusedId
                   /\ topmost \in existing THEN topmost ELSE focus
    /\ unfocusedId' = None
    /\ UNCHANGED wakeups

SetUpdatesEnabledNow(enabled, inAmbientMode) ==
    IF updatesEnabled = enabled /\ ~inAmbientMode THEN UNCHANGED enabledVars
    ELSE /\ updatesEnabled' = IF inAmbientMode THEN updatesEnabled ELSE enabled
         /\ IF enabled THEN Enable ELSE Disable

-----------------------------------------------------------------------------
(* Calls on the bus *)

(* Mutation: calls of anybody are accepted.                                *)
AcceptedFromAll(q) == q.sender = q.sender

Accepted(q) == q.sender = nameOwner

(* The oldest call of the queue takes effect or is refused.                *)
ProcessOne ==
    LET q == Head(queue)
    IN  /\ queue' = Tail(queue)
        /\ IF Accepted(q) THEN SetUpdatesEnabledNow(q.enabled, FALSE)
           ELSE UNCHANGED enabledVars

(* processQueuedSetUpdatesEnabledCalls() empties the queue without the     *)
(* event loop: nothing else happens until it is empty.                     *)
Processing == processing /\ ownerValid /\ queue # <<>>

ProcessQueued ==
    /\ processing
    /\ IF ownerValid /\ queue # <<>> THEN ProcessOne /\ UNCHANGED processing
       ELSE processing' = FALSE /\ UNCHANGED <<queue, enabledVars>>
    /\ UNCHANGED <<mceVars, bus, ownerVars, sceneVars>>

(* QMceNameOwner learns who MCE is, or that it is gone: the queue is       *)
(* processed.                                                              *)
OwnerChanged(owner) ==
    /\ nameOwner' = owner
    /\ IF owner = None THEN ownerValid' \in {FALSE, ownerValid} ELSE ownerValid' = TRUE
    /\ processing' = TRUE
    /\ UNCHANGED <<queue, lastCall>>

(* setUpdatesEnabled() from the bus, or setAmbientUpdatesEnabled(), whose  *)
(* mode is not queued with it.  The latter returns early when no ambient   *)
(* update is due: without the ambient mode or while the display is on.     *)
CallArrives(event) ==
    /\ \/ event.ambient /\ UNCHANGED <<queue, processing, lastCall>>
       \/ /\ event.ambient => ambient
          /\ queue' = Append(queue, [sender |-> event.sender, enabled |-> event.enabled])
          /\ processing' = TRUE
          /\ lastCall' = IF event.sender = mce THEN <<event.enabled>> ELSE lastCall
    /\ UNCHANGED <<nameOwner, ownerValid>>

Deliver ==
    /\ ~Processing
    /\ bus # <<>> /\ bus' = Tail(bus)
    /\ LET event == Head(bus)
       IN  IF event.kind = "owner" THEN OwnerChanged(event.sender) ELSE CallArrives(event)
    /\ UNCHANGED <<mce, instances, asked, enabledVars, sceneVars>>

-----------------------------------------------------------------------------
(* MCE and others on the bus *)

Event(kind, sender, enabled, inAmbient) ==
    [kind |-> kind, sender |-> sender, enabled |-> enabled, ambient |-> inAmbient]

(* The bus answers who owns the name of MCE.                               *)
AnswerOwner ==
    /\ asked /\ asked' = FALSE
    /\ bus' = Append(bus, Event("owner", mce, FALSE, FALSE))
    /\ UNCHANGED <<mceVars, nameOwner, ownerValid, queue, processing, enabledVars, sceneVars>>

MceStops ==
    /\ mce # None /\ mce' = None
    /\ lastCall' = <<>>
    /\ bus' = Append(bus, Event("owner", None, FALSE, FALSE))
    /\ UNCHANGED <<instances, ownerVars, queue, processing, enabledVars, sceneVars>>

MceStarts ==
    /\ mce = None /\ instances < MaxRestarts
    /\ instances' = instances + 1 /\ mce' = instances'
    /\ lastCall' = <<>>
    /\ bus' = Append(bus, Event("owner", mce', FALSE, FALSE))
    /\ UNCHANGED <<ownerVars, queue, processing, enabledVars, sceneVars>>

(* MCE calls, or a client that is not allowed to.                          *)
Stranger == MaxRestarts + 1

Call(sender, enabled, inAmbient) ==
    /\ updates + 2 <= MaxUpdates /\ updates' = updates + 2
    /\ sender # None
    /\ bus' = Append(bus, Event("call", sender, enabled, inAmbient))
    /\ UNCHANGED <<mceVars, ownerVars, queue, processing, enabledVars,
                   topmost, existing, lockVisible, ambient>>

-----------------------------------------------------------------------------
(* The scene, the user and timed *)

SceneStep ==
    /\ ~Processing
    /\ updates < MaxUpdates /\ updates' = updates + 1
    /\ UNCHANGED busVars

SceneSetsAmbientUpdates(enabled) ==
    /\ SceneStep /\ (enabled => ambient)
    /\ SetUpdatesEnabledNow(enabled, TRUE)
    /\ UNCHANGED <<topmost, existing, lockVisible, ambient>>

(* The scene brings a window to the top, and may give it the focus.        *)
Raise(w, takesFocus) ==
    /\ SceneStep
    /\ w \in existing /\ topmost' = w
    /\ focus' = IF takesFocus THEN w ELSE focus
    /\ UNCHANGED <<updatesEnabled, shown, unfocusedId, wakeups, existing, lockVisible, ambient>>

WindowGone(w) ==
    /\ SceneStep
    /\ w \in existing /\ existing' = existing \ {w}
    /\ focus' = IF focus = w THEN None ELSE focus
    /\ UNCHANGED <<updatesEnabled, shown, unfocusedId, wakeups, topmost, lockVisible,
                   ambient>>

Switch ==
    /\ SceneStep
    /\ \/ lockVisible' = ~lockVisible /\ UNCHANGED ambient
       \/ ambient' = ~ambient /\ UNCHANGED lockVisible
    /\ UNCHANGED <<enabledVars, topmost, existing>>

(* timed wakes the device and forgets the wakeup.                          *)
Wakeup ==
    /\ SceneStep
    /\ wakeups > 0 /\ wakeups' = wakeups - 1
    /\ UNCHANGED <<updatesEnabled, shown, unfocusedId, focus, topmost, existing, lockVisible, ambient>>

-----------------------------------------------------------------------------

(* The constructor disables updates; m_ambientModeEnabled, which it reads  *)
(* by that, is not initialised.                                            *)
Init ==
    /\ mce \in {None, 1} /\ instances = 1
    /\ bus = <<>> /\ asked = TRUE /\ nameOwner = None /\ ownerValid = FALSE
    /\ queue = <<>> /\ processing = FALSE /\ lastCall = <<>>
    /\ updatesEnabled = FALSE /\ shown = FALSE /\ unfocusedId = None /\ focus = None
    /\ topmost = None /\ existing = Windows /\ lockVisible = FALSE
    /\ ambient \in BOOLEAN 
    /\ wakeups = IF ambient THEN 1 ELSE 0
    /\ updates = 0

Next ==
    \/ ProcessQueued \/ Deliver \/ AnswerOwner
    \/ MceStops \/ MceStarts
    \/ \E sender \in {mce, Stranger}, enabled \in BOOLEAN : \E inAmbient \in {FALSE, enabled} :
          Call(sender, enabled, inAmbient)
    \/ \E enabled \in BOOLEAN : SceneSetsAmbientUpdates(enabled)
    \/ \E w \in Windows : Raise(w, TRUE) \/ Raise(w, FALSE) \/ WindowGone(w)
    \/ Switch \/ Wakeup

-----------------------------------------------------------------------------
(* Properties *)

(* With nothing under way, the compositor does what the running MCE asked  *)
(* for last: not what a stranger or an earlier instance of MCE asked for,  *)
(* and no matter what came before it was known who MCE is.                 *)
UpdatesFollowMce ==
    bus = <<>> /\ queue = <<>> /\ ~asked /\ lastCall # <<>> => updatesEnabled = Last(lastCall)

(* A window that lost the focus with the display gets it back when the     *)
(* display comes back, or not at all: no later update moves the focus.     *)
NoLateFocus == unfocusedId # None => ~shown

(* However often updates end, one wakeup is due at most.                   *)
OneWakeup == wakeups <= 1

(* A call that waits in the queue is waiting for MCE to become known, or   *)
(* about to be processed: none is forgotten, however the events mix.       *)
QueueServed == queue # <<>> => processing \/ ~ownerValid
=============================================================================
