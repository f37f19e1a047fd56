--------------------- MODULE NotificationPreviewPresenter ---------------------
(***************************************************************************)
(* The preview banners: notifications that arrive are queued, shown one at *)
(* a time in the notification window while the lock state allows it, or    *)
(* only sound their feedback for a timeslot.  The window's user interface  *)
(* asks for the next one when a banner is over.  Showing a notification    *)
(* and then leaving it marks it as displayed, which closes a transient one *)
(* from within the presenter's own call.                                   *)
(***************************************************************************)
EXTENDS Integers, Sequences, SequencesExt

CONSTANTS
  Ids,            \* ids of notifications
  Contents,       \* the contents a notification may have (records of Content)
  Situations,     \* the lock and window states the user may be in
  MaxRetries,     \* bound on the repeated attempts before the compositor exists
  NoNotification  \* no current notification

Modes == {"all", "applicationsDisabled", "systemDisabled", "allDisabled"}

Content == [restored : BOOLEAN, transient : BOOLEAN, urgency : 0 .. 2, preview : BOOLEAN,
            progress : BOOLEAN, displayOn : BOOLEAN, public : BOOLEAN,
            feedback : {"none", "event", "vibra"}]

Situation == [screenLocked : BOOLEAN, deviceLock : {"unlocked", "locked", "managerLockout"},
              showNotifications : BOOLEAN, doNotDisturb : BOOLEAN, mode : Modes]

ASSUME PreviewAssumption ==
  /\ Contents \subseteq Content /\ Situations \subseteq Situation /\ Situations # {}
  /\ MaxRetries \in Nat /\ NoNotification \notin Ids

VARIABLES
  notifications, \* the notifications of the manager, id -> content
  queue,         \* m_notificationQueue
  current,       \* m_currentNotification
  inBackground,  \* m_currentInBackground
  timer,         \* m_backgroundNotificationTimer is active
  windowVisible, \* m_window->isVisible()
  sounding,      \* keys of the feedback player's m_idToEventId
  compositor,    \* LipstickCompositor::instance() exists
  retries,       \* pending single shots of showNextNotification
  situation      \* lock state, do-not-disturb, and mode of the topmost window

presenterVars == <<queue, current, inBackground, timer, windowVisible, sounding, retries>>
vars == <<notifications, presenterVars, compositor, situation>>

-----------------------------------------------------------------------------
(* What is shown and what is heard *)

Without(f, S) == [x \in DOMAIN f \ S |-> f[x]]
Critical(content) == content.urgency = 2 \/ content.displayOn

(* notificationShouldBeShown *)
LocksAllow(content) ==
  \/ content.public
  \/ IF situation.deviceLock # "unlocked"
       THEN Critical(content) /\ situation.showNotifications
       ELSE situation.screenLocked => Critical(content)

ShouldBeShown(content) ==
  /\ ~content.restored /\ ~content.progress /\ content.preview
  /\ content.urgency = 0 => content.transient
  /\ LocksAllow(content)
  /\ \/ situation.mode = "all"
     \/ situation.mode = "applicationsDisabled" /\ Critical(content)
     \/ situation.mode = "systemDisabled" /\ ~Critical(content)

(* NotificationFeedbackPlayer::isEnabled and the result of addNotification. *)
FeedbackEnabled(content) ==
  /\ ~content.restored
  /\ \/ situation.mode = "all"
     \/ situation.mode = "applicationsDisabled" /\ Critical(content)
     \/ situation.mode = "systemDisabled" /\ content.urgency < 2

Plays(content) ==
  /\ ~content.progress /\ FeedbackEnabled(content)
  /\ \/ content.feedback = "event"
     \/ content.feedback = "vibra" /\ ~situation.doNotDisturb

(* A notification that is not shown sounds unless the device is locked out. *)
OnlySounds(content) ==
  ~ShouldBeShown(content) /\ situation.deviceLock # "managerLockout" /\ Plays(content)

-----------------------------------------------------------------------------
(* The presenter *)

(* Mutation: only the ones that were not on screen are marked. *)
LeftUnseen(store) ==
  {id \in {current} \ {NoNotification} : inBackground /\ store[id].transient}

(* The notification that leaving the current one closes: it was on screen, *)
(* so it is marked as displayed, and it is transient.  (The manager then   *)
(* calls removeNotification, which finds it as the current one.)           *)
LeftTransient(store) ==
  {id \in {current} \ {NoNotification} : ~inBackground /\ store[id].transient}

(* showNextNotification, with the recursion over the notifications that    *)
(* are neither shown nor heard unrolled: the first n of pending.  Whoever   *)
(* is passed to the feedback player has its earlier feedback stopped.      *)
ShowNext(store, pending, running) ==
  LET presented(id) == ShouldBeShown(store[id]) \/ OnlySounds(store[id])
      closed == LeftTransient(store)
      unheard(ids) ==
        {id \in ids : situation.deviceLock # "managerLockout" /\ ~store[id].progress}
  IN \E n \in 0 .. Len(pending) :
       LET skipped == {pending[i] : i \in 1 .. n} IN
       /\ \A id \in skipped : ~presented(id)
       /\ notifications' = Without(store, closed)
       /\ \/ /\ n = Len(pending)
             /\ queue' = <<>> /\ current' = NoNotification
             /\ inBackground' = (inBackground /\ current = NoNotification)
             /\ windowVisible' = FALSE
             /\ sounding' = sounding \ (closed \cup unheard(skipped))
             /\ timer' = running
          \/ /\ n < Len(pending)
             /\ LET next == pending[n + 1]
                    shown == ShouldBeShown(store[next])
                IN /\ presented(next)
                   /\ queue' = SubSeq(pending, n + 2, Len(pending))
                   /\ current' = next
                   /\ inBackground' = ~shown
                   /\ windowVisible' = (windowVisible \/ shown)
                   /\ timer' = (running \/ ~shown)
                   /\ sounding' = (sounding \ (closed \cup unheard(skipped) \cup {next}))
                                    \cup {id \in {next} : Plays(store[id])}

(* Without a compositor the attempt is repeated from the event loop. *)
TryShowNext(store, pending, waiting) ==
  IF ~compositor /\ pending # <<>>
    THEN /\ queue' = pending /\ notifications' = store /\ retries' = waiting + 1
         /\ UNCHANGED <<current, inBackground, timer, windowVisible, sounding>>
    ELSE /\ ShowNext(store, pending, timer)
         /\ retries' = waiting

(* The manager adds or modifies a notification: updateNotification. *)
Publish(id, content) ==
  LET store == [x \in DOMAIN notifications \cup {id} |->
                  IF x = id THEN content ELSE notifications[x]]
  IN /\ compositor \/ retries < MaxRetries
     /\ IF id = current \/ id \in ToSet(queue)
          THEN notifications' = store /\ UNCHANGED presenterVars
          ELSE IF current = NoNotification
            THEN TryShowNext(store, Append(queue, id), retries)
            ELSE /\ notifications' = store
                 /\ queue' = Append(queue, id)
                 /\ UNCHANGED <<current, inBackground, timer, windowVisible, sounding, retries>>
     /\ UNCHANGED <<compositor, situation>>

(* A notification is queued once: updateNotification looks for it first.   *)
RemovedFromQueue(id) ==
  \/ id \notin ToSet(queue) /\ UNCHANGED queue
  \/ \E i \in DOMAIN queue : queue[i] = id /\ queue' = RemoveAt(queue, i)

(* Mutation: removing the current notification also stops its timeslot. *)
RemoveAndStop(id) ==
  /\ id \in DOMAIN notifications
  /\ notifications' = Without(notifications, {id})
  /\ RemovedFromQueue(id)
  /\ current' = IF current = id THEN NoNotification ELSE current
  /\ timer' = (timer /\ current # id)
  /\ sounding' = sounding \ {id}
  /\ UNCHANGED <<inBackground, windowVisible, retries, compositor, situation>>

(* The manager closes a notification: the feedback player stops it and     *)
(* removeNotification forgets it; the timer and the window are left alone. *)
RemoveNotification(id) ==
  /\ id \in DOMAIN notifications
  /\ notifications' = Without(notifications, {id})
  /\ RemovedFromQueue(id)
  /\ current' = IF current = id THEN NoNotification ELSE current
  /\ sounding' = sounding \ {id}
  /\ UNCHANGED <<inBackground, timer, windowVisible, retries, compositor, situation>>

(* The timeslot of a notification that is only heard is over.  (Clearing   *)
(* the current notification first changes nothing of what showing the next *)
(* one does.)                                                              *)
BackgroundTimeout ==
  /\ timer
  /\ ShowNext(notifications, queue, FALSE)
  /\ UNCHANGED <<retries, compositor, situation>>

(* The user interface in the window has hidden its banner. *)
BannerHidden ==
  /\ windowVisible
  /\ TryShowNext(notifications, queue, retries)
  /\ UNCHANGED <<compositor, situation>>

(* A single shot of showNextNotification. *)
Retry ==
  /\ retries > 0
  /\ TryShowNext(notifications, queue, retries - 1)
  /\ UNCHANGED <<compositor, situation>>

(* The compositor is created once. *)
CreateCompositor ==
  /\ ~compositor
  /\ compositor' = TRUE
  /\ UNCHANGED <<notifications, presenterVars, situation>>

ChangeSituation ==
  /\ situation' \in Situations
  /\ UNCHANGED <<notifications, presenterVars, compositor>>

-----------------------------------------------------------------------------
Init ==
  /\ notifications = [x \in {} |-> x]
  /\ queue = <<>> /\ current = NoNotification /\ inBackground = FALSE
  /\ timer = FALSE /\ windowVisible = FALSE /\ sounding = {}
  /\ compositor = FALSE /\ retries = 0
  /\ situation \in Situations

Next ==
  \/ \E id \in Ids, content \in Contents : Publish(id, content)
  \/ \E id \in Ids : RemoveNotification(id)
  \/ BackgroundTimeout
  \/ BannerHidden
  \/ Retry
  \/ CreateCompositor
  \/ ChangeSituation

Spec == Init /\ [][Next]_vars

(* The timers fire, the home screen creates its compositor, and the user   *)
(* interface hides each banner in the end.                                 *)
FairSpec ==
  /\ Spec
  /\ WF_vars(BackgroundTimeout) /\ WF_vars(BannerHidden)
  /\ WF_vars(Retry) /\ WF_vars(CreateCompositor)
-----------------------------------------------------------------------------
(* Correctness *)

(* Every variable has its type. *)
TypeOK ==
  /\ DOMAIN notifications \subseteq Ids /\ notifications \in [DOMAIN notifications -> Contents]
  /\ queue \in Seq(Ids) /\ current \in Ids \cup {NoNotification}
  /\ {inBackground, timer, windowVisible, compositor} \subseteq BOOLEAN
  /\ sounding \subseteq Ids /\ retries \in Nat /\ situation \in Situations

(* The presenter and the feedback player hold pointers to notifications of   *)
(* the manager only, also when showing one closes another; and none is both  *)
(* queued and current, or queued twice.                                      *)
NoDangling ==
  /\ ToSet(queue) \cup ({current} \ {NoNotification}) \subseteq DOMAIN notifications
  /\ sounding \subseteq DOMAIN notifications
  /\ IsInjective(queue) /\ current \notin ToSet(queue)

(* While there is a notification to present, the timer, the window's banner  *)
(* or a repeated attempt will ask for the next one.                          *)
SomeoneAsks ==
  queue # <<>> \/ current # NoNotification => timer \/ windowVisible \/ retries > 0

(* The queue can be worked off: its notifications exist, and someone asks    *)
(* for the next one.                                                         *)
QueueAlive == TypeOK /\ NoDangling /\ SomeoneAsks

(* A transient notification that was current in the foreground is closed in  *)
(* the step that leaves it, whatever ends its banner.                        *)
TransientClosed ==
  [][\A id \in Ids :
       current = id /\ ~inBackground /\ notifications[id].transient /\ current' # id
         => id \notin DOMAIN notifications']_vars

(* Every queued notification is presented, passed over or removed. *)
QueueServed == \A id \in Ids : (id \in ToSet(queue)) ~> (id \notin ToSet(queue))
=============================================================================
