------------------------- MODULE NotificationManager -------------------------
(***************************************************************************)
(* The notification server of the home screen: the store of notifications, *)
(* the D-Bus calls whose sender is identified asynchronously, the SQLite   *)
(* database written in one transaction that is committed after a quiet     *)
(* period, the expiration of displayed notifications, the objects that     *)
(* wait to be destroyed, and crashes and restarts of the process.          *)
(*                                                                         *)
(* A notification is abstracted to the record Content: the hints the       *)
(* manager itself decides on.  Texts, icons and actions are left out.      *)
(***************************************************************************)
EXTENDS Integers, FiniteSets, Functions

CONSTANTS
  Clients,          \* D-Bus connections; a client waits for its reply before it calls again
  Privileged,       \* the clients whose process is owned by root or in group "privileged"
  Contents,         \* the contents a notification may have (records of Content)
  MaxId,            \* largest value of the unsigned id counter, which wraps to 0
  MaxRestore,       \* MaxNotificationRestoreCount
  Gestures,         \* the queued user actions that are enabled: "invoke", "remove"
  DatabaseOutcomes, \* what opening the database may give: "intact", "recreated", "closed"
  CategoryEvents,   \* whether category definition files may change
  MaxTime,          \* bound of the wall clock
  MaxRestarts,      \* bound on the number of times the process ends
  NoCall            \* no call outstanding

Ids == 1 .. MaxId
Time == 0 .. MaxTime

(* What the manager reads of a notification: x-nemo-user-removable,        *)
(* transient, expireTimeout (0: never), priority, category, and whether    *)
(* invoking an action leaves it in place (resident or in progress).        *)
Content == [removable : BOOLEAN, transient : BOOLEAN, timeout : Nat,
            priority : Nat, category : STRING, resident : BOOLEAN]

Call == [op : {"Notify"}, id : Ids \cup {0}, content : Contents]
          \cup [op : {"CloseNotification"}, id : Ids]

ASSUME IdsAssumption == MaxId \in Nat \ {0} /\ MaxRestore \in Nat
ASSUME BoundsAssumption == MaxTime \in Nat /\ MaxRestarts \in Nat
ASSUME ContentsAssumption == Contents \subseteq Content
ASSUME ClientsAssumption == Privileged \subseteq Clients /\ NoCall \notin Call
ASSUME ChoicesAssumption == /\ Gestures \subseteq {"invoke", "remove"}
                            /\ DatabaseOutcomes \subseteq {"intact", "recreated", "closed"}
                            /\ CategoryEvents \in BOOLEAN

VARIABLES
  running,           \* the process is up
  notifications,     \* m_notifications: id -> [content, restored]
  removed,           \* m_removedNotifications, by id
  previousId,        \* m_previousNotificationID
  dbOpen,            \* m_database->isOpen()
  rows,              \* table notifications with its hints, as the connection sees it
  expiration,        \* table expiration, as the connection sees it
  durable,           \* both tables as they are on disk
  committed,         \* m_committed
  commitTimer,       \* m_databaseCommitTimer is active
  nextExpiration,    \* m_nextExpirationTime
  expirationTimer,   \* m_expirationTimer is active
  modified,          \* m_modifiedIds
  modificationTimer, \* m_modificationTimer is active
  calls,             \* client -> its call that waits for identification, or NoCall
  gestures,          \* queued actionInvoked and removeRequested signals: <<id, kind>>
  now,               \* the wall clock
  restarts,          \* how many times the process has ended
  displayed          \* history: displayed with a timeout and neither closed nor replaced since

storeVars == <<notifications, removed, displayed>>
dbVars == <<rows, expiration, committed, commitTimer>>
expiryVars == <<nextExpiration, expirationTimer>>
reportVars == <<modified, modificationTimer>>
processVars == <<running, dbOpen, durable, restarts>>
vars == <<storeVars, previousId, dbVars, expiryVars, reportVars, processVars,
          calls, gestures, now>>

-----------------------------------------------------------------------------
(* Functions on the partial maps that stand for hashes and tables. *)

EmptyMap == [x \in {} |-> x]
Drop(f, S) == Restrict(f, DOMAIN f \ S)
Overlay(f, g) == [x \in DOMAIN f \cup DOMAIN g |-> IF x \in DOMAIN g THEN g[x] ELSE f[x]]

(* INSERT: a row whose primary key is taken is refused and the error ignored. *)
Insert(table, new) == Overlay(new, table)

Tables == [rows |-> rows, expiration |-> expiration]
NoTables == [rows |-> EmptyMap, expiration |-> EmptyMap]

ContentOf(store) == [id \in DOMAIN store |-> store[id].content]
UserRemovable == {id \in DOMAIN notifications : notifications[id].content.removable}
InCategory(category) ==
  {id \in DOMAIN notifications : notifications[id].content.category = category}

EveryId == Ids  \* mutation of FreeIds: an id in use may be given out again

(* id is what nextAvailableNotificationID returns: the first free id after *)
(* the previous one, wrapping past 0.  With no free id the code loops for  *)
(* ever; no id then satisfies this.                                        *)
FreeIds == Ids \ DOMAIN notifications
StepsFromPrevious(id) == (id - previousId - 1) % (MaxId + 1)
IsNextAvailable(id) ==
  /\ id \in FreeIds
  /\ \A other \in FreeIds : StepsFromPrevious(id) <= StepsFromPrevious(other)

-----------------------------------------------------------------------------
(* Effects shared by the handlers. *)

(* Mutation: the commit timer is left as it is. *)
ExecSQLUntimed(newRows, newExpiration) ==
  IF dbOpen
    THEN /\ rows' = newRows
         /\ expiration' = newExpiration
         /\ committed' = FALSE
         /\ UNCHANGED commitTimer
    ELSE UNCHANGED dbVars

(* Any execSQL opens a transaction and restarts the commit timer; with the *)
(* database closed it returns at once, before it touches the timer.        *)
ExecSQL(newRows, newExpiration) ==
  IF dbOpen
    THEN /\ rows' = newRows
         /\ expiration' = newExpiration
         /\ committed' = FALSE
         /\ commitTimer' = TRUE
    ELSE UNCHANGED dbVars

(* Mutation: the expiration table is not cleaned. *)
CloseKeepingExpiration(ids) ==
  LET gone == ids \cap DOMAIN notifications IN
  /\ notifications' = Drop(notifications, gone)
  /\ removed' = removed \cup gone
  /\ displayed' = displayed \ gone
  /\ gestures' = {g \in gestures : g[1] \notin gone}
  /\ IF gone = {} THEN UNCHANGED dbVars ELSE ExecSQL(Drop(rows, gone), expiration)

(* Close every listed notification that exists. *)
CloseNotifications(ids) ==
  LET gone == ids \cap DOMAIN notifications IN
  /\ notifications' = Drop(notifications, gone)
  /\ removed' = removed \cup gone
  /\ displayed' = displayed \ gone
  /\ gestures' = {g \in gestures : g[1] \notin gone}  \* their sender is no longer in the hash
  /\ IF gone = {}
       THEN UNCHANGED dbVars
       ELSE ExecSQL(Drop(rows, gone), Drop(expiration, gone))

(* Mutation: the rows of the replaced notifications are not deleted first. *)
PublishOverRows(batch, replaced) ==
  /\ notifications' = Overlay(notifications, batch)
  /\ ExecSQL(Insert(rows, ContentOf(batch)), Drop(expiration, replaced))
  /\ modified' = modified \cup DOMAIN batch
  /\ modificationTimer' = (modificationTimer \/ batch # EmptyMap)

(* Put the entries of batch in the store, replacing those that exist, and  *)
(* announce them: the rows of the replaced ones are deleted first.         *)
Publish(batch, replaced) ==
  /\ notifications' = Overlay(notifications, batch)
  /\ ExecSQL(Insert(Drop(rows, replaced), ContentOf(batch)), Drop(expiration, replaced))
  /\ modified' = modified \cup DOMAIN batch
  /\ modificationTimer' = (modificationTimer \/ batch # EmptyMap)

Entry(id, content, restored) == [x \in {id} |-> [content |-> content, restored |-> restored]]

-----------------------------------------------------------------------------
(* Notify and CloseNotification *)

(* Mutation: only the new content decides. *)
DeniedByContent(privileged, replacesId, content) == ~privileged /\ ~content.removable

(* A client without privileges neither creates nor replaces a persistent   *)
(* notification.                                                           *)
Denied(privileged, replacesId, content) ==
  /\ ~privileged
  /\ \/ ~content.removable
     \/ replacesId \in DOMAIN notifications /\ ~notifications[replacesId].content.removable

(* replacesId is forgotten when no such notification exists; an id is      *)
(* taken from the counter before the privileges are looked at.             *)
HandleNotify(privileged, replacesId, content) ==
  LET replaces == replacesId \in DOMAIN notifications IN
  \E id \in Ids :
    /\ IF replaces THEN id = replacesId ELSE IsNextAvailable(id)
    /\ previousId' = IF replaces THEN previousId ELSE id
    /\ IF Denied(privileged, replacesId, content)
         THEN UNCHANGED <<storeVars, dbVars, reportVars>>
         ELSE /\ Publish(Entry(id, content, FALSE), IF replaces THEN {id} ELSE {})
              /\ displayed' = displayed \ {id}
              /\ UNCHANGED removed
    /\ UNCHANGED gestures

HandleCloseNotification(privileged, id) ==
  IF id \in DOMAIN notifications /\ (privileged \/ notifications[id].content.removable)
    THEN CloseNotifications({id})
    ELSE UNCHANGED <<storeVars, dbVars, gestures>>

(* A client calls over D-Bus; its process is then looked up asynchronously. *)
SendCall(c) ==
  /\ running
  /\ calls[c] = NoCall
  /\ \E call \in Call : calls' = [calls EXCEPT ![c] = call]
  /\ UNCHANGED <<storeVars, previousId, dbVars, expiryVars, reportVars, processVars,
                 gestures, now>>

(* The sender has been identified, in whatever order the lookups of the    *)
(* clients end.  A lookup that fails leaves pid -1 or the proxy's pid.     *)
IdentifiedCall(c) ==
  /\ running
  /\ calls[c] # NoCall
  /\ calls' = [calls EXCEPT ![c] = NoCall]
  /\ \E privileged \in BOOLEAN :
       /\ privileged => c \in Privileged
       /\ \/ /\ calls[c].op = "Notify"
             /\ HandleNotify(privileged, calls[c].id, calls[c].content)
          \/ /\ calls[c].op = "CloseNotification"
             /\ HandleCloseNotification(privileged, calls[c].id)
             /\ UNCHANGED <<previousId, reportVars>>
  /\ UNCHANGED <<expiryVars, processVars, now>>

(* The home screen's own components call directly and are privileged. *)
InternalNotify ==
  /\ running
  /\ \E replacesId \in Ids \cup {0}, content \in Contents :
       HandleNotify(TRUE, replacesId, content)
  /\ UNCHANGED <<expiryVars, processVars, calls, now>>

InternalCloseNotification ==
  /\ running
  /\ \E id \in DOMAIN notifications : CloseNotifications({id})
  /\ UNCHANGED <<previousId, expiryVars, reportVars, processVars, calls, now>>

-----------------------------------------------------------------------------
(* Display and expiration *)

(* Mutation: the timer is only set when none is pending. *)
EarliestOnly(expireAt) ==
  IF nextExpiration = 0
    THEN nextExpiration' = expireAt /\ expirationTimer' = TRUE
    ELSE UNCHANGED expiryVars

(* The timer is set for the next notification to expire. *)
Advance(expireAt) ==
  IF nextExpiration = 0 \/ expireAt < nextExpiration
    THEN nextExpiration' = expireAt /\ expirationTimer' = TRUE
    ELSE UNCHANGED expiryVars

(* A transient notification is closed once displayed; one with a timeout   *)
(* expires that long after it was first displayed.  The bound MaxTime      *)
(* keeps expiration times on the model's clock.                            *)
MarkNotificationDisplayed(id) ==
  /\ running
  /\ id \in DOMAIN notifications
  /\ LET content == notifications[id].content
         expireAt == now + content.timeout
     IN \/ /\ content.transient
           /\ CloseNotifications({id})
           /\ UNCHANGED expiryVars
        \/ /\ ~content.transient
           /\ content.timeout > 0
           /\ expireAt <= MaxTime
           /\ ExecSQL(rows, Insert(expiration, [x \in {id} |-> expireAt]))
           /\ displayed' = displayed \cup {id}
           /\ Advance(expireAt)
           /\ UNCHANGED <<notifications, removed, gestures>>
  /\ UNCHANGED <<previousId, reportVars, processVars, calls, now>>

(* Mutation: the initial maximum is taken for a time when none remains. *)
ScheduleMaximum(times) ==
  IF times = {}
    THEN expirationTimer' = TRUE /\ nextExpiration' = MaxTime + 1
    ELSE /\ expirationTimer' = TRUE
         /\ nextExpiration' \in times /\ \A t \in times : nextExpiration' <= t

(* m_nextExpirationTime and its timer, given the times still to come. *)
ScheduleExpiration(times) ==
  IF times = {}
    THEN expirationTimer' = FALSE /\ nextExpiration' = 0
    ELSE /\ expirationTimer' = TRUE
         /\ nextExpiration' \in times /\ \A t \in times : nextExpiration' <= t

(* Mutation: the timer is not started again for the times still to come. *)
ExpireOnce ==
  /\ running
  /\ expirationTimer
  /\ CloseNotifications({id \in DOMAIN expiration : expiration[id] <= now})
  /\ nextExpiration' = 0 /\ expirationTimer' = FALSE
  /\ UNCHANGED <<previousId, reportVars, processVars, calls, now>>

(* The timer is a coarse one whose interval is clamped to an int: it may   *)
(* fire before the time it was set for.                                    *)
Expire ==
  /\ running
  /\ expirationTimer
  /\ CloseNotifications({id \in DOMAIN expiration : expiration[id] <= now})
  /\ ScheduleExpiration({expiration[id] : id \in {x \in DOMAIN expiration : expiration[x] > now}})
  /\ UNCHANGED <<previousId, reportVars, processVars, calls, now>>

-----------------------------------------------------------------------------
(* Timers, user gestures and category definitions *)

(* Mutation: the removed notifications are not destroyed. *)
CommitKeepingRemoved ==
  /\ running /\ commitTimer
  /\ commitTimer' = FALSE /\ committed' = TRUE
  /\ durable' = IF committed THEN durable ELSE Tables
  /\ UNCHANGED <<storeVars, previousId, rows, expiration, expiryVars, reportVars,
                 running, dbOpen, restarts, calls, gestures, now>>

(* The transaction is written and the removed notifications are destroyed. *)
Commit ==
  /\ running
  /\ commitTimer
  /\ commitTimer' = FALSE
  /\ durable' = IF committed THEN durable ELSE Tables
  /\ committed' = TRUE
  /\ removed' = {}
  /\ UNCHANGED <<notifications, displayed, previousId, rows, expiration, expiryVars, reportVars,
                 running, dbOpen, restarts, calls, gestures, now>>

ReportModifications ==
  /\ running
  /\ modificationTimer
  /\ modificationTimer' = FALSE
  /\ modified' = {}
  /\ UNCHANGED <<storeVars, previousId, dbVars, expiryVars, processVars, calls, gestures, now>>

(* actionInvoked and removeRequested reach the manager through the event queue. *)
UserGesture(id, kind) ==
  /\ running
  /\ id \in DOMAIN notifications
  /\ gestures' = gestures \cup {<<id, kind>>}
  /\ UNCHANGED <<storeVars, previousId, dbVars, expiryVars, reportVars, processVars, calls, now>>

(* What a queued gesture does depends on the content at this time. *)
HandleGesture(id, kind) ==
  /\ running
  /\ <<id, kind>> \in gestures
  /\ IF /\ notifications[id].content.removable
        /\ kind = "invoke" => ~notifications[id].content.resident
       THEN CloseNotifications({id})
       ELSE /\ gestures' = gestures \ {<<id, kind>>}
            /\ UNCHANGED <<storeVars, dbVars>>
  /\ UNCHANGED <<previousId, expiryVars, reportVars, processVars, calls, now>>

RemoveUserRemovableNotifications ==
  /\ running
  /\ CloseNotifications(UserRemovable)
  /\ UNCHANGED <<previousId, expiryVars, reportVars, processVars, calls, now>>

RemoveNotificationsWithCategory(category) ==
  /\ running
  /\ CloseNotifications(InCategory(category))
  /\ UNCHANGED <<previousId, expiryVars, reportVars, processVars, calls, now>>

(* A category definition only fills in hints that the notification does not set. *)
Reapplied(content) ==
  {c \in Contents : /\ c.category = content.category
                    /\ content.transient => c.transient
                    /\ ~content.removable => ~c.removable
                    /\ content.timeout > 0 => c.timeout = content.timeout}

UpdateNotificationsWithCategory(category) ==
  /\ running
  /\ LET ids == InCategory(category) IN
     \E contents \in [ids -> Contents] :
       /\ \A id \in ids : contents[id] \in Reapplied(notifications[id].content)
       /\ Publish([id \in ids |-> [content |-> contents[id], restored |-> TRUE]], ids)
  /\ UNCHANGED <<removed, displayed, previousId, expiryVars, processVars, calls, gestures, now>>

-----------------------------------------------------------------------------
(* Start, exit, crash *)

(* Mutation: persistent notifications are culled too. *)
CulledAnyOf(active, stored) ==
  LET excess == Cardinality(active) - MaxRestore
  IN {cull \in SUBSET active :
        /\ Cardinality(cull) = IF excess <= 0 THEN 0 ELSE excess
        /\ \A id \in cull, kept \in active \ cull : stored[id].priority <= stored[kept].priority}

(* The sets of notifications that restoring culls: as many as exceed the   *)
(* maximum, of those the user may remove, the least relevant ones.  Equal  *)
(* priorities are ordered by time stamps, which are left out.              *)
Culled(active, stored) ==
  LET candidates == {id \in active : stored[id].removable}
      excess == Cardinality(active) - MaxRestore
  IN {cull \in SUBSET candidates :
        /\ Cardinality(cull) =
             IF excess <= 0 THEN 0
             ELSE IF excess < Cardinality(candidates) THEN excess ELSE Cardinality(candidates)
        /\ \A id \in cull, kept \in candidates \ cull : stored[id].priority <= stored[kept].priority}

(* The highest restored id, or 0. *)
IsHighest(id, ids) == IF ids = {} THEN id = 0 ELSE id \in ids /\ \A other \in ids : other <= id

(* Restore from the tables found: transient notifications are deleted,     *)
(* expired and culled ones closed.                                         *)
Restore(stored) ==
  LET transient == {id \in DOMAIN stored.rows : stored.rows[id].transient}
      found == DOMAIN stored.rows \ transient
      timed == found \cap DOMAIN stored.expiration
      expired == {id \in timed : stored.expiration[id] <= now}
  IN \E cull \in Culled(found \ expired, stored.rows) :
       LET closed == expired \cup cull IN
       /\ notifications' = [id \in found \ closed |-> [content |-> stored.rows[id], restored |-> TRUE]]
       /\ removed' = closed
       /\ previousId' \in Ids \cup {0} /\ IsHighest(previousId', found)
       /\ rows' = Drop(stored.rows, transient \cup closed)
       /\ expiration' = Drop(stored.expiration, transient \cup closed)
       /\ committed' = (transient \cup closed = {})
       /\ commitTimer' = ~committed'
       /\ ScheduleExpiration({stored.expiration[id] : id \in timed \ expired})
       /\ displayed' = (found \ closed) \cap DOMAIN stored.expiration

(* The database opens as it was left, or is recreated empty because the    *)
(* file cannot be read or its schema is obsolete, or stays closed (disk    *)
(* full, table creation failed).                                           *)
Start ==
  /\ ~running
  /\ running' = TRUE
  /\ \E outcome \in DatabaseOutcomes :
       /\ dbOpen' = (outcome # "closed")
       /\ durable' = IF outcome = "recreated" THEN NoTables ELSE durable
       /\ Restore(IF outcome = "intact" THEN durable ELSE NoTables)
  /\ UNCHANGED <<reportVars, restarts, calls, gestures, now>>

(* Everything the process keeps in memory is gone. *)
Stop ==
  /\ running
  /\ restarts < MaxRestarts
  /\ restarts' = restarts + 1
  /\ running' = FALSE /\ dbOpen' = FALSE
  /\ notifications' = EmptyMap /\ removed' = {} /\ displayed' = {} /\ previousId' = 0
  /\ rows' = EmptyMap /\ expiration' = EmptyMap
  /\ committed' = TRUE /\ commitTimer' = FALSE
  /\ nextExpiration' = 0 /\ expirationTimer' = FALSE
  /\ modified' = {} /\ modificationTimer' = FALSE
  /\ calls' = [c \in Clients |-> NoCall]
  /\ gestures' = {}
  /\ UNCHANGED now

(* The destructor commits; a crash loses the open transaction. *)
Quit == Stop /\ durable' = IF dbOpen THEN Tables ELSE durable
Crash == Stop /\ UNCHANGED durable

Tick ==
  /\ now < MaxTime
  /\ now' = now + 1
  /\ UNCHANGED <<storeVars, previousId, dbVars, expiryVars, reportVars, processVars, calls, gestures>>

-----------------------------------------------------------------------------
Init ==
  /\ running = FALSE /\ dbOpen = FALSE
  /\ notifications = EmptyMap /\ removed = {} /\ displayed = {} /\ previousId = 0
  /\ rows = EmptyMap /\ expiration = EmptyMap /\ durable = NoTables
  /\ committed = TRUE /\ commitTimer = FALSE
  /\ nextExpiration = 0 /\ expirationTimer = FALSE
  /\ modified = {} /\ modificationTimer = FALSE
  /\ calls = [c \in Clients |-> NoCall]
  /\ gestures = {} /\ now = 0 /\ restarts = 0

Environment ==
  \/ \E c \in Clients : SendCall(c)
  \/ InternalNotify
  \/ InternalCloseNotification
  \/ \E id \in DOMAIN notifications : MarkNotificationDisplayed(id)
  \/ \E id \in DOMAIN notifications, kind \in Gestures : UserGesture(id, kind)
  \/ RemoveUserRemovableNotifications
  \/ /\ CategoryEvents
     /\ \E category \in {c.category : c \in Contents} :
          RemoveNotificationsWithCategory(category) \/ UpdateNotificationsWithCategory(category)
  \/ Quit
  \/ Crash

System ==
  \/ \E c \in Clients : IdentifiedCall(c)
  \/ \E id \in DOMAIN notifications, kind \in Gestures : HandleGesture(id, kind)
  \/ Expire
  \/ Commit
  \/ ReportModifications
  \/ Start
  \/ Tick

Next == Environment \/ System

Spec == Init /\ [][Next]_vars

(* Timers that are active fire, the clock advances, the service is started *)
(* again: what the event loop and systemd provide.                         *)
Fairness == WF_vars(Tick) /\ WF_vars(Expire) /\ WF_vars(Commit)
              /\ WF_vars(ReportModifications) /\ WF_vars(Start)

FairSpec == Spec /\ Fairness
-----------------------------------------------------------------------------
(* Correctness *)

Entries == [content : Contents, restored : BOOLEAN]
IsMap(f, D, R) == DOMAIN f \subseteq D /\ f \in [DOMAIN f -> R]

StoreTypeOK ==
  /\ IsMap(notifications, Ids, Entries)
  /\ removed \subseteq Ids /\ displayed \subseteq Ids
  /\ gestures \subseteq (DOMAIN notifications) \X Gestures

DatabaseTypeOK ==
  /\ {dbOpen, committed, commitTimer} \subseteq BOOLEAN
  /\ IsMap(rows, Ids, Contents) /\ IsMap(expiration, Ids, Time)
  /\ IsMap(durable.rows, Ids, Contents) /\ IsMap(durable.expiration, Ids, Time)
  /\ durable = [rows |-> durable.rows, expiration |-> durable.expiration]

ServerTypeOK ==
  /\ {running, expirationTimer, modificationTimer} \subseteq BOOLEAN
  /\ modified \subseteq Ids
  /\ previousId \in Ids \cup {0}
  /\ nextExpiration \in Time /\ now \in Time /\ restarts \in 0 .. MaxRestarts
  /\ calls \in [Clients -> Call \cup {NoCall}]

(* Every variable has its type: the store maps ids to notifications, the     *)
(* tables map ids to contents and times, gestures are queued only for        *)
(* notifications of the store.                                               *)
TypeOK == StoreTypeOK /\ DatabaseTypeOK /\ ServerTypeOK

(* Whatever the order of publications, replacements, closes and expirations, *)
(* the open database holds exactly the notifications of the store with       *)
(* their current content: restoring after the next commit loses nothing.     *)
StoreMirrored == rows = IF dbOpen THEN ContentOf(notifications) ELSE EmptyMap

(* No expiration time outlives its notification, neither in the tables nor   *)
(* on disk: a reused id never inherits the deadline of an earlier one.       *)
ExpirationsOwned ==
  /\ DOMAIN expiration \subseteq DOMAIN rows
  /\ DOMAIN durable.expiration \subseteq DOMAIN durable.rows

(* The expiration timer runs exactly while a next expiration time is set:    *)
(* the comparison in markNotificationDisplayed never skips a stopped timer.  *)
TimerMatchesNext == expirationTimer <=> nextExpiration # 0

(* While an expiration time is stored the timer runs, set for that time or   *)
(* an earlier one: no displayed notification can miss its expiration.        *)
ExpirationArmed ==
  \A id \in DOMAIN expiration :
    expirationTimer /\ nextExpiration > 0 /\ nextExpiration <= expiration[id]

(* Either the disk is up to date or a commit is scheduled. *)
CommitScheduled ==
  IF committed THEN dbOpen => Tables = durable ELSE dbOpen /\ commitTimer

(* The call of c is handled in this step. *)
Handled(c) == running' /\ calls[c] # NoCall /\ calls'[c] = NoCall
Persistent(store) == {<<id, store[id]>> : id \in {x \in DOMAIN store : ~store[x].content.removable}}

(* A call from a client without privileges neither creates, alters nor       *)
(* closes a persistent notification, however it interleaves with the calls   *)
(* that made the notification persistent while the client was looked up.     *)
PersistentProtected ==
  [][\A c \in Clients \ Privileged :
       Handled(c) => Persistent(notifications') = Persistent(notifications)]_vars

(* A call changes no notification but the one it names: the id of a new one  *)
(* is never in use, also after the counter wrapped or a restart reset it.    *)
OthersUntouched ==
  [][\A c \in Clients : Handled(c) =>
       \A id \in DOMAIN notifications \ {calls[c].id} :
         id \in DOMAIN notifications' /\ notifications'[id] = notifications[id]]_vars

(* A notification displayed with a timeout is closed (or replaced) in the    *)
(* end, as Notify's expireTimeout says, across restarts too.                 *)
DisplayedEventuallyCloses == \A id \in Ids : (id \in displayed) ~> (id \notin displayed)

(* Every publication is reported in a batch by notificationsModified. *)
ModificationsReported == \A id \in Ids : (id \in modified) ~> (id \notin modified)

(* Once notifications stop changing, what the database holds reaches the     *)
(* disk.  (The commit timer restarts with each modification, so nothing is   *)
(* promised while they go on.)                                               *)
QuietThenDurable ==
  <>[][UNCHANGED <<notifications, rows, expiration>>]_vars => <>[](dbOpen => durable = Tables)

(* Once notifications stop changing, the removed ones are destroyed. *)
QuietThenDestroyed == <>[][UNCHANGED notifications]_vars => <>[](removed = {})

(* The report, the commit and the destruction that were put off with a       *)
(* timer happen, whatever comes between.                                     *)
PutOffWorkDone == ModificationsReported /\ QuietThenDurable /\ QuietThenDestroyed

-----------------------------------------------------------------------------
(* The server as a store that survives the end of its process. *)
Durable == INSTANCE DurableStore
  WITH Keys <- Ids, Values <- Contents, Times <- Time,
       Lasting <- {c \in Contents : ~c.removable /\ ~c.transient},
       up <- running, saving <- dbOpen,
       store <- [rows |-> ContentOf(notifications), expiration |-> expiration],
       disk <- durable

(* The server with its transactions, timers and crashes implements the       *)
(* durable store: a commit never writes half of a change, deadlines are      *)
(* restored with their notifications, and a restart loses no persistent      *)
(* notification that was committed.                                          *)
ImplementsDurableStore == Durable!Spec
=============================================================================
