---------------------- MODULE NotificationManagerProofs ----------------------
(* Proofs that the invariants of NotificationManager hold for every number *)
(* of ids, clients and contents, and for every bound.                      *)
EXTENDS NotificationManager, TLAPS

LEMMA EmptyMapFacts ==
  ASSUME NEW D, NEW R
  PROVE  IsMap(EmptyMap, D, R) /\ DOMAIN EmptyMap = {}
BY DEF EmptyMap, IsMap

(* Two maps with one domain and the same values are equal. *)
LEMMA MapEquality ==
  ASSUME NEW f, NEW g, NEW D, NEW R, NEW E, NEW Q, IsMap(f, D, R), IsMap(g, E, Q),
         DOMAIN f = DOMAIN g, \A x \in DOMAIN f : f[x] = g[x]
  PROVE  f = g
BY DEF IsMap

LEMMA ContentOfFacts ==
  ASSUME NEW store, IsMap(store, Ids, Entries)
  PROVE  /\ IsMap(ContentOf(store), Ids, Contents)
         /\ DOMAIN ContentOf(store) = DOMAIN store
         /\ \A id \in DOMAIN store : ContentOf(store)[id] = store[id].content
BY DEF ContentOf, Entries, IsMap

-----------------------------------------------------------------------------
(* The part of the inductive invariant on the store and its database. *)
DbInv == StoreTypeOK /\ DatabaseTypeOK /\ StoreMirrored /\ ExpirationsOwned /\ CommitScheduled

(* No expiration time is added or changed in this step. *)
ExpirationsShrink ==
  /\ DOMAIN expiration' \subseteq DOMAIN expiration
  /\ \A id \in DOMAIN expiration' : expiration'[id] = expiration[id]

LEMMA ExecSQLPreserves ==
  ASSUME DatabaseTypeOK, ExpirationsOwned, CommitScheduled,
         NEW newRows, IsMap(newRows, Ids, Contents),
         NEW newExpiration, IsMap(newExpiration, Ids, Time),
         DOMAIN newExpiration \subseteq DOMAIN newRows,
         ExecSQL(newRows, newExpiration), UNCHANGED <<dbOpen, durable>>
  PROVE  /\ DatabaseTypeOK' /\ ExpirationsOwned' /\ CommitScheduled'
         /\ IF dbOpen THEN rows' = newRows /\ expiration' = newExpiration
                      ELSE UNCHANGED <<rows, expiration>>
<1>1. CASE dbOpen
  BY <1>1 DEF ExecSQL, DatabaseTypeOK, ExpirationsOwned, CommitScheduled
<1>2. CASE ~dbOpen
  BY <1>2 DEF ExecSQL, dbVars, DatabaseTypeOK, ExpirationsOwned, CommitScheduled, Tables
<1>3. QED BY <1>1, <1>2

LEMMA ClosePreserves ==
  ASSUME DbInv, NEW ids, CloseNotifications(ids), UNCHANGED <<dbOpen, durable>>
  PROVE  DbInv' /\ ExpirationsShrink
<1> DEFINE gone == ids \cap DOMAIN notifications
<1> USE DEF DbInv
<1>1. /\ IsMap(Drop(notifications, gone), Ids, Entries)
      /\ DOMAIN Drop(notifications, gone) = DOMAIN notifications \ gone
      /\ \A id \in DOMAIN notifications \ gone : Drop(notifications, gone)[id] = notifications[id]
  BY DEF StoreTypeOK, Drop, Restrict, IsMap
<1>2. /\ notifications' = Drop(notifications, gone)
      /\ removed' = removed \cup gone
      /\ displayed' = displayed \ gone
      /\ gestures' = {g \in gestures : g[1] \notin gone}
  BY DEF CloseNotifications
<1>3. StoreTypeOK'
  <2>1. gestures' \subseteq (DOMAIN notifications') \X Gestures
    BY <1>1, <1>2 DEF StoreTypeOK
  <2>2. removed' \subseteq Ids /\ displayed' \subseteq Ids
    BY <1>2 DEF StoreTypeOK, IsMap
  <2>3. IsMap(notifications', Ids, Entries)
    BY <1>1, <1>2 DEF IsMap
  <2>4. QED BY <2>1, <2>2, <2>3 DEF StoreTypeOK
<1>4. CASE gone = {}
  <2>1. UNCHANGED dbVars
    BY <1>4 DEF CloseNotifications
  <2>2. notifications' = notifications
    BY <1>1, <1>2, <1>4, MapEquality DEF StoreTypeOK
  <2>3. DatabaseTypeOK' /\ StoreMirrored' /\ ExpirationsOwned' /\ CommitScheduled'
    BY <2>1, <2>2 DEF dbVars, DatabaseTypeOK, StoreMirrored, ExpirationsOwned, CommitScheduled,
                      ContentOf, Tables
  <2>4. QED BY <1>3, <2>1, <2>3 DEF ExpirationsShrink, dbVars
<1>5. CASE gone # {}
  <2>1. /\ IsMap(Drop(rows, gone), Ids, Contents)
        /\ DOMAIN Drop(rows, gone) = DOMAIN rows \ gone
        /\ \A id \in DOMAIN rows \ gone : Drop(rows, gone)[id] = rows[id]
    BY DEF DatabaseTypeOK, Drop, Restrict, IsMap
  <2>2. /\ IsMap(Drop(expiration, gone), Ids, Time)
        /\ DOMAIN Drop(expiration, gone) = DOMAIN expiration \ gone
        /\ \A id \in DOMAIN expiration \ gone : Drop(expiration, gone)[id] = expiration[id]
    BY DEF DatabaseTypeOK, Drop, Restrict, IsMap
  <2>3. ExecSQL(Drop(rows, gone), Drop(expiration, gone))
    BY <1>5 DEF CloseNotifications
  <2>4. DOMAIN Drop(expiration, gone) \subseteq DOMAIN Drop(rows, gone)
    BY <2>1, <2>2 DEF ExpirationsOwned
  <2>5. /\ DatabaseTypeOK' /\ ExpirationsOwned' /\ CommitScheduled'
        /\ IF dbOpen THEN rows' = Drop(rows, gone) /\ expiration' = Drop(expiration, gone)
                     ELSE UNCHANGED <<rows, expiration>>
    BY <2>1, <2>2, <2>3, <2>4, ExecSQLPreserves
  <2>6. StoreMirrored'
    <3>1. CASE dbOpen
      <4>1. /\ IsMap(ContentOf(notifications'), Ids, Contents)
            /\ DOMAIN ContentOf(notifications') = DOMAIN notifications'
            /\ \A id \in DOMAIN notifications' :
                 ContentOf(notifications')[id] = notifications'[id].content
        BY <1>1, <1>2, ContentOfFacts
      <4>2. /\ DOMAIN rows = DOMAIN notifications
            /\ \A id \in DOMAIN notifications : rows[id] = notifications[id].content
        BY <3>1, ContentOfFacts DEF StoreMirrored, StoreTypeOK
      <4> DEFINE left == Drop(rows, gone)
      <4>3. /\ IsMap(left, Ids, Contents)
            /\ DOMAIN left = DOMAIN notifications'
            /\ \A id \in DOMAIN left : left[id] = notifications'[id].content
        BY <1>1, <1>2, <2>1, <4>2
      <4>4. rows' = left
        BY <2>5, <3>1
      <4> HIDE DEF left
      <4>5. left = ContentOf(notifications')
        BY <4>1, <4>3, MapEquality
      <4>6. QED BY <3>1, <4>4, <4>5 DEF StoreMirrored
    <3>2. CASE ~dbOpen
      BY <2>5, <3>2 DEF StoreMirrored
    <3>3. QED BY <3>1, <3>2
  <2>7. ExpirationsShrink
    BY <2>2, <2>5 DEF ExpirationsShrink
  <2>8. QED BY <1>3, <2>5, <2>6, <2>7
<1>6. QED BY <1>4, <1>5

LEMMA PublishPreserves ==
  ASSUME DbInv, NEW batch, NEW replaced, IsMap(batch, Ids, Entries),
         replaced \subseteq DOMAIN batch, DOMAIN batch \cap DOMAIN notifications \subseteq replaced,
         Publish(batch, replaced), removed' \subseteq Ids, displayed' \subseteq Ids,
         UNCHANGED <<gestures, dbOpen, durable>>
  PROVE  DbInv' /\ ExpirationsShrink
<1> USE DEF DbInv
<1>1. /\ IsMap(Overlay(notifications, batch), Ids, Entries)
      /\ DOMAIN Overlay(notifications, batch) = DOMAIN notifications \cup DOMAIN batch
      /\ \A id \in DOMAIN batch : Overlay(notifications, batch)[id] = batch[id]
      /\ \A id \in DOMAIN notifications \ DOMAIN batch :
           Overlay(notifications, batch)[id] = notifications[id]
  BY DEF StoreTypeOK, Overlay, IsMap
<1>2. notifications' = Overlay(notifications, batch)
  BY DEF Publish
<1>3. StoreTypeOK'
  BY <1>1, <1>2 DEF StoreTypeOK
<1> DEFINE kept == Drop(rows, replaced)
           newRows == Insert(kept, ContentOf(batch))
           newExpiration == Drop(expiration, replaced)
<1>4. /\ IsMap(kept, Ids, Contents)
      /\ DOMAIN kept = DOMAIN rows \ replaced
      /\ \A id \in DOMAIN rows \ replaced : kept[id] = rows[id]
  BY DEF DatabaseTypeOK, Drop, Restrict, IsMap
<1>5. /\ IsMap(ContentOf(batch), Ids, Contents)
      /\ DOMAIN ContentOf(batch) = DOMAIN batch
      /\ \A id \in DOMAIN batch : ContentOf(batch)[id] = batch[id].content
  BY ContentOfFacts
<1>6. /\ IsMap(newRows, Ids, Contents)
      /\ DOMAIN newRows = DOMAIN batch \cup DOMAIN kept
      /\ \A id \in DOMAIN kept : newRows[id] = kept[id]
      /\ \A id \in DOMAIN batch \ DOMAIN kept : newRows[id] = batch[id].content
  <2> HIDE DEF kept
  <2> QED BY <1>4, <1>5 DEF Insert, Overlay, IsMap
<1>7. /\ IsMap(newExpiration, Ids, Time)
      /\ DOMAIN newExpiration = DOMAIN expiration \ replaced
      /\ \A id \in DOMAIN expiration \ replaced : newExpiration[id] = expiration[id]
  BY DEF DatabaseTypeOK, Drop, Restrict, IsMap
<1>8. ExecSQL(newRows, newExpiration)
  BY DEF Publish
<1> HIDE DEF kept, newRows, newExpiration
<1>9. DOMAIN newExpiration \subseteq DOMAIN newRows
  BY <1>4, <1>6, <1>7 DEF ExpirationsOwned
<1>10. /\ DatabaseTypeOK' /\ ExpirationsOwned' /\ CommitScheduled'
       /\ IF dbOpen THEN rows' = newRows /\ expiration' = newExpiration
                    ELSE UNCHANGED <<rows, expiration>>
  BY <1>6, <1>7, <1>8, <1>9, ExecSQLPreserves
<1>11. StoreMirrored'
  <2>1. CASE dbOpen
    <3>1. /\ IsMap(ContentOf(notifications'), Ids, Contents)
          /\ DOMAIN ContentOf(notifications') = DOMAIN notifications'
          /\ \A id \in DOMAIN notifications' :
               ContentOf(notifications')[id] = notifications'[id].content
      BY <1>1, <1>2, ContentOfFacts
    <3>2. /\ DOMAIN rows = DOMAIN notifications
          /\ \A id \in DOMAIN notifications : rows[id] = notifications[id].content
      BY <2>1, ContentOfFacts DEF StoreMirrored, StoreTypeOK
    <3>3. DOMAIN newRows = DOMAIN notifications'
      BY <1>1, <1>2, <1>4, <1>6, <3>2
    <3>4. \A id \in DOMAIN newRows : newRows[id] = notifications'[id].content
      BY <1>1, <1>2, <1>4, <1>6, <3>2
    <3>5. newRows = ContentOf(notifications')
      BY <1>6, <3>1, <3>3, <3>4, MapEquality
    <3>6. QED BY <1>10, <2>1, <3>5 DEF StoreMirrored
  <2>2. CASE ~dbOpen
    BY <1>10, <2>2 DEF StoreMirrored
  <2>3. QED BY <2>1, <2>2
<1>12. ExpirationsShrink
  BY <1>7, <1>10 DEF ExpirationsShrink
<1>13. QED BY <1>3, <1>10, <1>11, <1>12

-----------------------------------------------------------------------------
(* A process that is not running has no gesture queued. *)
StoppedIsQuiet == ~running => gestures = {}

TimerInv == ExpirationArmed /\ TimerMatchesNext

(* The inductive invariant: what the runs check, and the two facts that the *)
(* expiration and the restart need of the state they find.                  *)
IInv == DbInv /\ ServerTypeOK /\ TimerInv /\ StoppedIsQuiet

(* Fewer expiration times and the same timer leave the timer armed. *)
LEMMA TimerKept ==
  ASSUME TimerInv, ExpirationsShrink, UNCHANGED expiryVars
  PROVE  TimerInv'
BY DEF TimerInv, ExpirationArmed, TimerMatchesNext, ExpirationsShrink, expiryVars

LEMMA NotifyPreserves ==
  ASSUME DbInv, ServerTypeOK, NEW privileged, NEW replacesId, NEW content \in Contents,
         HandleNotify(privileged, replacesId, content), UNCHANGED <<dbOpen, durable>>
  PROVE  /\ DbInv' /\ ExpirationsShrink
         /\ previousId' \in Ids \cup {0} /\ modified' \subseteq Ids
         /\ modificationTimer' \in BOOLEAN /\ UNCHANGED gestures
<1> DEFINE replaces == replacesId \in DOMAIN notifications
<1>1. PICK id \in Ids :
        /\ IF replaces THEN id = replacesId ELSE IsNextAvailable(id)
        /\ previousId' = IF replaces THEN previousId ELSE id
        /\ IF Denied(privileged, replacesId, content)
             THEN UNCHANGED <<storeVars, dbVars, reportVars>>
             ELSE /\ Publish(Entry(id, content, FALSE), IF replaces THEN {id} ELSE {})
                  /\ displayed' = displayed \ {id}
                  /\ UNCHANGED removed
        /\ UNCHANGED gestures
  BY DEF HandleNotify
<1>2. previousId' \in Ids \cup {0}
  BY <1>1 DEF ServerTypeOK
<1>3. CASE Denied(privileged, replacesId, content)
  <2>1. UNCHANGED <<storeVars, dbVars, reportVars, gestures>>
    BY <1>1, <1>3
  <2>2. DbInv' /\ ExpirationsShrink
    BY <2>1 DEF storeVars, dbVars, DbInv, StoreTypeOK, DatabaseTypeOK, StoreMirrored,
                ExpirationsOwned, CommitScheduled, ExpirationsShrink, Tables, ContentOf
  <2>3. QED BY <1>1, <1>2, <2>1, <2>2 DEF reportVars, ServerTypeOK
<1>4. CASE ~Denied(privileged, replacesId, content)
  <2> DEFINE batch == Entry(id, content, FALSE)
             replaced == IF replaces THEN {id} ELSE {}
  <2>1. Publish(batch, replaced) /\ displayed' = displayed \ {id} /\ UNCHANGED <<removed, gestures>>
    BY <1>1, <1>4
  <2>2. IsMap(batch, Ids, Entries) /\ DOMAIN batch = {id}
    BY DEF Entry, Entries, IsMap
  <2>3. replaced \subseteq DOMAIN batch /\ DOMAIN batch \cap DOMAIN notifications \subseteq replaced
    BY <1>1, <2>2 DEF IsNextAvailable, FreeIds
  <2>4. removed' \subseteq Ids /\ displayed' \subseteq Ids
    BY <2>1 DEF DbInv, StoreTypeOK
  <2> HIDE DEF batch, replaced
  <2>5. DbInv' /\ ExpirationsShrink
    BY <2>1, <2>2, <2>3, <2>4, PublishPreserves
  <2>6. modified' \subseteq Ids /\ modificationTimer' \in BOOLEAN
    BY <2>1, <2>2 DEF Publish, ServerTypeOK
  <2>7. QED BY <1>1, <1>2, <2>5, <2>6
<1>5. QED BY <1>3, <1>4

(* The steps that change neither the store nor the database. *)
LEMMA DbKept ==
  ASSUME DbInv, UNCHANGED <<storeVars, dbVars, dbOpen, durable>>,
         gestures' \subseteq (DOMAIN notifications) \X Gestures
  PROVE  DbInv' /\ ExpirationsShrink
BY DEF storeVars, dbVars, DbInv, StoreTypeOK, DatabaseTypeOK, StoreMirrored,
       ExpirationsOwned, CommitScheduled, ExpirationsShrink, Tables, ContentOf

(* The steps that leave the server's own variables in their types. *)
LEMMA ServerKept ==
  ASSUME ServerTypeOK, UNCHANGED <<running, restarts, now, expiryVars>>,
         modified' \subseteq Ids, modificationTimer' \in BOOLEAN,
         previousId' \in Ids \cup {0}, calls' \in [Clients -> Call \cup {NoCall}]
  PROVE  ServerTypeOK'
BY DEF ServerTypeOK, expiryVars

(* A step that closes notifications and does nothing else but in the calls. *)
LEMMA CloseStep ==
  ASSUME IInv, running, NEW ids, CloseNotifications(ids),
         UNCHANGED <<previousId, expiryVars, reportVars, processVars, now>>,
         calls' \in [Clients -> Call \cup {NoCall}]
  PROVE  IInv'
<1>1. DbInv' /\ ExpirationsShrink
  BY ClosePreserves DEF IInv, processVars
<1>2. TimerInv'
  BY <1>1, TimerKept DEF IInv
<1>3. ServerTypeOK'
  BY ServerKept DEF IInv, processVars, reportVars, ServerTypeOK
<1>4. StoppedIsQuiet'
  BY DEF processVars, StoppedIsQuiet
<1>5. QED BY <1>1, <1>2, <1>3, <1>4 DEF IInv

-----------------------------------------------------------------------------
(* One lemma per action: it preserves the inductive invariant. *)

LEMMA SendCallStep ==
  ASSUME IInv, NEW c \in Clients, SendCall(c)
  PROVE  IInv'
<1>1. DbInv' /\ ExpirationsShrink
  BY DbKept DEF IInv, DbInv, StoreTypeOK, SendCall, processVars
<1>2. TimerInv'
  BY <1>1, TimerKept DEF IInv, SendCall
<1>3. calls' \in [Clients -> Call \cup {NoCall}]
  BY DEF IInv, ServerTypeOK, SendCall
<1>4. ServerTypeOK'
  BY <1>3, ServerKept DEF IInv, SendCall, processVars, reportVars, ServerTypeOK
<1>5. QED BY <1>1, <1>2, <1>4 DEF IInv, StoppedIsQuiet, SendCall, processVars

LEMMA IdentifiedCallStep ==
  ASSUME IInv, NEW c \in Clients, IdentifiedCall(c)
  PROVE  IInv'
<1>1. /\ running
      /\ calls' \in [Clients -> Call \cup {NoCall}]
      /\ UNCHANGED <<expiryVars, processVars, now>>
      /\ calls[c] \in Call
  BY DEF IdentifiedCall, IInv, ServerTypeOK
<1>2. PICK privileged \in BOOLEAN :
        \/ /\ calls[c].op = "Notify"
           /\ HandleNotify(privileged, calls[c].id, calls[c].content)
        \/ /\ HandleCloseNotification(privileged, calls[c].id)
           /\ UNCHANGED <<previousId, reportVars>>
  BY DEF IdentifiedCall
<1>3. CASE calls[c].op = "Notify" /\ HandleNotify(privileged, calls[c].id, calls[c].content)
  <2>1. calls[c].content \in Contents
    BY <1>1, <1>3 DEF Call
  <2>2. /\ DbInv' /\ ExpirationsShrink
        /\ previousId' \in Ids \cup {0} /\ modified' \subseteq Ids
        /\ modificationTimer' \in BOOLEAN /\ UNCHANGED gestures
    BY <1>1, <1>3, <2>1, NotifyPreserves DEF IInv, processVars
  <2>3. TimerInv'
    BY <1>1, <2>2, TimerKept DEF IInv
  <2>4. ServerTypeOK'
    BY <1>1, <2>2, ServerKept DEF IInv, processVars
  <2>5. QED BY <1>1, <2>2, <2>3, <2>4 DEF IInv, StoppedIsQuiet, processVars
<1>4. CASE /\ HandleCloseNotification(privileged, calls[c].id)
           /\ UNCHANGED <<previousId, reportVars>>
  <2>1. CASE CloseNotifications({calls[c].id})
    BY <1>1, <1>4, <2>1, CloseStep
  <2>2. CASE UNCHANGED <<storeVars, dbVars, gestures>>
    <3>1. DbInv' /\ ExpirationsShrink
      BY <1>1, <2>2, DbKept DEF IInv, DbInv, StoreTypeOK, processVars
    <3>2. TimerInv'
      BY <1>1, <3>1, TimerKept DEF IInv
    <3>3. ServerTypeOK'
      BY <1>1, <1>4, ServerKept DEF IInv, processVars, reportVars, ServerTypeOK
    <3>4. QED BY <1>1, <2>2, <3>1, <3>2, <3>3 DEF IInv, StoppedIsQuiet, processVars
  <2>3. QED BY <1>4, <2>1, <2>2 DEF HandleCloseNotification
<1>5. QED BY <1>2, <1>3, <1>4

LEMMA InternalNotifyStep ==
  ASSUME IInv, InternalNotify
  PROVE  IInv'
<1>1. PICK replacesId \in Ids \cup {0}, content \in Contents :
        HandleNotify(TRUE, replacesId, content)
  BY DEF InternalNotify
<1>2. running /\ UNCHANGED <<expiryVars, processVars, calls, now>>
  BY DEF InternalNotify
<1>3. /\ DbInv' /\ ExpirationsShrink
      /\ previousId' \in Ids \cup {0} /\ modified' \subseteq Ids
      /\ modificationTimer' \in BOOLEAN /\ UNCHANGED gestures
  BY <1>1, <1>2, NotifyPreserves DEF IInv, processVars
<1>4. TimerInv'
  BY <1>2, <1>3, TimerKept DEF IInv
<1>5. ServerTypeOK'
  BY <1>2, <1>3, ServerKept DEF IInv, processVars, ServerTypeOK
<1>6. QED BY <1>2, <1>3, <1>4, <1>5 DEF IInv, StoppedIsQuiet, processVars

LEMMA ClosingSteps ==
  ASSUME IInv,
         \/ InternalCloseNotification
         \/ RemoveUserRemovableNotifications
         \/ \E category \in STRING : RemoveNotificationsWithCategory(category)
  PROVE  IInv'
<1>1. /\ running
      /\ \E ids : CloseNotifications(ids)
      /\ UNCHANGED <<previousId, expiryVars, reportVars, processVars, calls, now>>
  BY DEF InternalCloseNotification, RemoveUserRemovableNotifications,
         RemoveNotificationsWithCategory
<1>2. QED BY <1>1, CloseStep DEF IInv, ServerTypeOK

LEMMA HandleGestureStep ==
  ASSUME IInv, NEW id, NEW kind, HandleGesture(id, kind)
  PROVE  IInv'
<1>1. /\ running
      /\ UNCHANGED <<previousId, expiryVars, reportVars, processVars, calls, now>>
  BY DEF HandleGesture
<1>2. CASE CloseNotifications({id})
  BY <1>1, <1>2, CloseStep DEF IInv, ServerTypeOK
<1>3. CASE gestures' = gestures \ {<<id, kind>>} /\ UNCHANGED <<storeVars, dbVars>>
  <2>1. DbInv' /\ ExpirationsShrink
    BY <1>1, <1>3, DbKept DEF IInv, DbInv, StoreTypeOK, processVars
  <2>2. TimerInv'
    BY <1>1, <2>1, TimerKept DEF IInv
  <2>3. ServerTypeOK'
    BY <1>1, ServerKept DEF IInv, processVars, reportVars, ServerTypeOK
  <2>4. QED BY <1>1, <2>1, <2>2, <2>3 DEF IInv, StoppedIsQuiet, processVars
<1>4. QED BY <1>2, <1>3 DEF HandleGesture

LEMMA UserGestureStep ==
  ASSUME IInv, NEW id, NEW kind \in Gestures, UserGesture(id, kind)
  PROVE  IInv'
<1>1. /\ running /\ id \in DOMAIN notifications
      /\ gestures' = gestures \cup {<<id, kind>>}
      /\ UNCHANGED <<storeVars, previousId, dbVars, expiryVars, reportVars, processVars, calls, now>>
  BY DEF UserGesture
<1>2. DbInv' /\ ExpirationsShrink
  BY <1>1, DbKept DEF IInv, DbInv, StoreTypeOK, processVars
<1>3. TimerInv'
  BY <1>1, <1>2, TimerKept DEF IInv
<1>4. ServerTypeOK'
  BY <1>1, ServerKept DEF IInv, processVars, reportVars, ServerTypeOK
<1>5. QED BY <1>1, <1>2, <1>3, <1>4 DEF IInv, StoppedIsQuiet, processVars

LEMMA ReportModificationsStep ==
  ASSUME IInv, ReportModifications
  PROVE  IInv'
<1>1. DbInv' /\ ExpirationsShrink
  BY DbKept DEF IInv, DbInv, StoreTypeOK, ReportModifications, processVars
<1>2. TimerInv'
  BY <1>1, TimerKept DEF IInv, ReportModifications
<1>3. ServerTypeOK'
  BY ServerKept DEF IInv, ReportModifications, processVars, ServerTypeOK
<1>4. QED BY <1>1, <1>2, <1>3 DEF IInv, StoppedIsQuiet, ReportModifications, processVars

LEMMA TickStep ==
  ASSUME IInv, Tick
  PROVE  IInv'
<1>1. DbInv' /\ ExpirationsShrink
  BY DbKept DEF IInv, DbInv, StoreTypeOK, Tick, processVars
<1>2. TimerInv'
  BY <1>1, TimerKept DEF IInv, Tick
<1>3. ServerTypeOK'
  BY BoundsAssumption DEF IInv, Tick, Time, processVars, reportVars, expiryVars, ServerTypeOK
<1>4. QED BY <1>1, <1>2, <1>3 DEF IInv, StoppedIsQuiet, Tick, processVars

LEMMA CommitStep ==
  ASSUME IInv, Commit
  PROVE  IInv'
<1>1. /\ running /\ commitTimer' = FALSE /\ committed' = TRUE /\ removed' = {}
      /\ durable' = IF committed THEN durable ELSE Tables
      /\ UNCHANGED <<notifications, displayed, previousId, rows, expiration, expiryVars, reportVars,
                     running, dbOpen, restarts, calls, gestures, now>>
  BY DEF Commit
<1>2. StoreTypeOK' /\ StoreMirrored'
  BY <1>1 DEF IInv, DbInv, StoreTypeOK, StoreMirrored, ContentOf
<1>3. DatabaseTypeOK' /\ ExpirationsOwned' /\ CommitScheduled'
  <2>1. CASE committed
    BY <1>1, <2>1 DEF IInv, DbInv, DatabaseTypeOK, ExpirationsOwned, CommitScheduled, Tables
  <2>2. CASE ~committed
    BY <1>1, <2>2 DEF IInv, DbInv, DatabaseTypeOK, ExpirationsOwned, CommitScheduled, Tables
  <2>3. QED BY <2>1, <2>2
<1>4. TimerInv'
  BY <1>1, TimerKept DEF IInv, ExpirationsShrink
<1>5. ServerTypeOK'
  BY <1>1, ServerKept DEF IInv, reportVars, ServerTypeOK
<1>6. QED BY <1>1, <1>2, <1>3, <1>4, <1>5 DEF IInv, DbInv, StoppedIsQuiet

LEMMA UpdateCategoryStep ==
  ASSUME IInv, NEW category, UpdateNotificationsWithCategory(category)
  PROVE  IInv'
<1> DEFINE ids == InCategory(category)
<1>1. PICK contents \in [ids -> Contents] :
        Publish([id \in ids |-> [content |-> contents[id], restored |-> TRUE]], ids)
  BY DEF UpdateNotificationsWithCategory
<1>2. /\ running
      /\ UNCHANGED <<removed, displayed, previousId, expiryVars, processVars, calls, gestures, now>>
  BY DEF UpdateNotificationsWithCategory
<1> DEFINE batch == [id \in ids |-> [content |-> contents[id], restored |-> TRUE]]
<1>3. ids \subseteq DOMAIN notifications
  BY DEF InCategory
<1>4. IsMap(batch, Ids, Entries) /\ DOMAIN batch = ids
  BY <1>3 DEF IInv, DbInv, StoreTypeOK, IsMap, Entries
<1>5. removed' \subseteq Ids /\ displayed' \subseteq Ids
  BY <1>2 DEF IInv, DbInv, StoreTypeOK
<1> HIDE DEF ids, batch
<1>6. DbInv' /\ ExpirationsShrink
  BY <1>1, <1>2, <1>3, <1>4, <1>5, PublishPreserves DEF IInv, processVars, batch
<1>7. TimerInv'
  BY <1>2, <1>6, TimerKept DEF IInv
<1>8. modified' \subseteq Ids /\ modificationTimer' \in BOOLEAN
  BY <1>1, <1>4 DEF Publish, IInv, ServerTypeOK, IsMap, batch
<1>9. ServerTypeOK'
  BY <1>2, <1>8, ServerKept DEF IInv, processVars, ServerTypeOK
<1>10. QED BY <1>2, <1>6, <1>7, <1>9 DEF IInv, StoppedIsQuiet, processVars

LEMMA MarkDisplayedStep ==
  ASSUME IInv, NEW id, MarkNotificationDisplayed(id)
  PROVE  IInv'
<1> DEFINE content == notifications[id].content
           expireAt == now + content.timeout
<1>1. /\ running /\ id \in DOMAIN notifications
      /\ UNCHANGED <<previousId, reportVars, processVars, calls, now>>
  BY DEF MarkNotificationDisplayed
<1>2. CASE CloseNotifications({id}) /\ UNCHANGED expiryVars
  BY <1>1, <1>2, CloseStep DEF IInv, ServerTypeOK
<1>3. CASE /\ content.timeout > 0 /\ expireAt <= MaxTime
           /\ ExecSQL(rows, Insert(expiration, [x \in {id} |-> expireAt]))
           /\ displayed' = displayed \cup {id}
           /\ Advance(expireAt)
           /\ UNCHANGED <<notifications, removed, gestures>>
  <2> DEFINE newExpiration == Insert(expiration, [x \in {id} |-> expireAt])
  <2>1. id \in Ids /\ content \in Contents
    BY <1>1 DEF IInv, DbInv, StoreTypeOK, IsMap, Entries
  <2>2. expireAt \in Time /\ expireAt > 0
    BY <1>3, <2>1, ContentsAssumption, BoundsAssumption
    DEF Content, IInv, ServerTypeOK, Time
  <2> HIDE DEF content, expireAt
  <2>3. /\ IsMap(newExpiration, Ids, Time)
        /\ DOMAIN newExpiration = DOMAIN expiration \cup {id}
        /\ \A x \in DOMAIN expiration : newExpiration[x] = expiration[x]
        /\ id \notin DOMAIN expiration => newExpiration[id] = expireAt
    BY <2>1, <2>2 DEF IInv, DbInv, DatabaseTypeOK, Insert, Overlay, IsMap
  <2>4. ExecSQL(rows, newExpiration) /\ UNCHANGED <<dbOpen, durable>>
    BY <1>1, <1>3 DEF processVars
  <2> HIDE DEF newExpiration
  <2>5. CASE dbOpen
    <3>1. DOMAIN rows = DOMAIN notifications
      BY <2>5 DEF IInv, DbInv, StoreMirrored, ContentOf
    <3>2. /\ DatabaseTypeOK' /\ ExpirationsOwned' /\ CommitScheduled'
          /\ rows' = rows /\ expiration' = newExpiration
      <4>1. DOMAIN newExpiration \subseteq DOMAIN rows
        BY <1>1, <2>3, <3>1 DEF IInv, DbInv, ExpirationsOwned
      <4>2. IsMap(rows, Ids, Contents)
        BY DEF IInv, DbInv, DatabaseTypeOK
      <4>3. QED BY <2>3, <2>4, <2>5, <4>1, <4>2, ExecSQLPreserves DEF IInv, DbInv
    <3>3. StoreMirrored'
      BY <1>3, <2>4, <3>2 DEF IInv, DbInv, StoreMirrored, ContentOf
    <3>4. TimerInv'
      <4>1. CASE nextExpiration = 0 \/ expireAt < nextExpiration
        <5>1. nextExpiration' = expireAt /\ expirationTimer' = TRUE
          BY <1>3, <4>1 DEF Advance
        <5>2. ExpirationArmed'
          <6> SUFFICES ASSUME NEW x \in DOMAIN newExpiration
                       PROVE  expireAt <= newExpiration[x]
            BY <2>2, <3>2, <5>1 DEF ExpirationArmed
          <6>1. CASE x \notin DOMAIN expiration
            BY <2>2, <2>3, <6>1 DEF Time
          <6>2. CASE x \in DOMAIN expiration
            <7>1. nextExpiration > 0 /\ nextExpiration <= expiration[x]
              BY <6>2 DEF IInv, TimerInv, ExpirationArmed
            <7>2. expiration[x] \in Nat /\ nextExpiration \in Nat /\ expireAt \in Nat
              BY <2>2, <6>2 DEF IInv, DbInv, DatabaseTypeOK, ServerTypeOK, IsMap, Time
            <7>3. newExpiration[x] = expiration[x]
              BY <2>3, <6>2
            <7>4. QED BY <4>1, <7>1, <7>2, <7>3
          <6>3. QED BY <6>1, <6>2
        <5>3. QED BY <2>2, <5>1, <5>2 DEF TimerInv, TimerMatchesNext, Time
      <4>2. CASE ~(nextExpiration = 0 \/ expireAt < nextExpiration)
        <5>1. UNCHANGED expiryVars
          BY <1>3, <4>2 DEF Advance
        <5>2. ExpirationArmed'
          <6>1. nextExpiration > 0 /\ nextExpiration <= expireAt /\ expirationTimer
            BY <2>2, <4>2 DEF IInv, ServerTypeOK, TimerInv, TimerMatchesNext, Time
          <6>2. \A x \in DOMAIN newExpiration : nextExpiration <= newExpiration[x]
            BY <2>3, <6>1 DEF IInv, TimerInv, ExpirationArmed
          <6>3. QED BY <3>2, <5>1, <6>1, <6>2 DEF ExpirationArmed, expiryVars
        <5>3. QED BY <5>1, <5>2 DEF IInv, TimerInv, TimerMatchesNext, expiryVars
      <4>3. QED BY <4>1, <4>2
    <3>5. StoreTypeOK'
      BY <1>3, <2>1 DEF IInv, DbInv, StoreTypeOK
    <3>6. ServerTypeOK'
      BY <1>1, <1>3, <2>2 DEF IInv, ServerTypeOK, processVars, reportVars, expiryVars, Advance
    <3>7. QED BY <1>1, <1>3, <3>2, <3>3, <3>4, <3>5, <3>6 DEF IInv, DbInv, StoppedIsQuiet, processVars
  <2>6. CASE ~dbOpen
    <3>1. UNCHANGED dbVars
      BY <2>4, <2>6 DEF ExecSQL
    <3>2. DOMAIN expiration = {}
      BY <2>6, EmptyMapFacts DEF IInv, DbInv, StoreMirrored, ExpirationsOwned
    <3>3. DbInv'
      BY <1>1, <1>3, <2>1, <3>1 DEF IInv, DbInv, StoreTypeOK, DatabaseTypeOK, StoreMirrored,
         ExpirationsOwned, CommitScheduled, Tables, ContentOf, dbVars, processVars
    <3>4. ExpirationArmed'
      BY <3>1, <3>2 DEF ExpirationArmed, dbVars
    <3>5. TimerMatchesNext'
      BY <1>3, <2>2 DEF Advance, IInv, TimerInv, TimerMatchesNext, expiryVars, Time
    <3>6. ServerTypeOK'
      BY <1>1, <1>3, <2>2 DEF IInv, ServerTypeOK, processVars, reportVars, expiryVars, Advance
    <3>7. QED BY <1>1, <1>3, <3>3, <3>4, <3>5, <3>6 DEF IInv, TimerInv, StoppedIsQuiet, processVars
  <2>7. QED BY <2>5, <2>6 DEF IInv, DbInv, DatabaseTypeOK
<1>4. QED BY <1>2, <1>3 DEF MarkNotificationDisplayed

(* The earliest of the times still to come is after now, hence not 0. *)
LEMMA ScheduleArms ==
  ASSUME NEW times, times \subseteq Time, \A t \in times : t > 0, ScheduleExpiration(times)
  PROVE  /\ TimerMatchesNext' /\ nextExpiration' \in Time /\ expirationTimer' \in BOOLEAN
         /\ \A t \in times : expirationTimer' /\ nextExpiration' > 0 /\ nextExpiration' <= t
<1>1. CASE times = {}
  <2>1. expirationTimer' = FALSE /\ nextExpiration' = 0
    BY <1>1 DEF ScheduleExpiration
  <2>2. 0 \in Time
    BY BoundsAssumption DEF Time
  <2>3. QED BY <1>1, <2>1, <2>2 DEF TimerMatchesNext
<1>2. CASE times # {}
  <2>1. /\ expirationTimer' = TRUE
        /\ nextExpiration' \in times /\ \A t \in times : nextExpiration' <= t
    BY <1>2 DEF ScheduleExpiration
  <2>2. nextExpiration' \in Time /\ nextExpiration' > 0 /\ nextExpiration' # 0
    BY <2>1 DEF Time
  <2>3. QED BY <2>1, <2>2 DEF TimerMatchesNext
<1>3. QED BY <1>1, <1>2

LEMMA ExpireStep ==
  ASSUME IInv, Expire
  PROVE  IInv'
<1> DEFINE due == {id \in DOMAIN expiration : expiration[id] <= now}
           later == {id \in DOMAIN expiration : expiration[id] > now}
           times == {expiration[id] : id \in later}
<1>1. /\ running /\ CloseNotifications(due) /\ ScheduleExpiration(times)
      /\ UNCHANGED <<previousId, reportVars, processVars, calls, now>>
  BY DEF Expire
<1>2. DbInv' /\ ExpirationsShrink
  BY <1>1, ClosePreserves DEF IInv, processVars
<1>3. times \subseteq Time /\ \A t \in times : t > 0
  BY BoundsAssumption DEF IInv, DbInv, DatabaseTypeOK, ServerTypeOK, IsMap, Time
<1>4. /\ TimerMatchesNext' /\ nextExpiration' \in Time /\ expirationTimer' \in BOOLEAN
      /\ \A t \in times : expirationTimer' /\ nextExpiration' > 0 /\ nextExpiration' <= t
  BY <1>1, <1>3, ScheduleArms
<1>5. DOMAIN expiration' \subseteq later
  <2>1. CASE dbOpen
    <3>1. DOMAIN expiration \subseteq DOMAIN notifications
      BY <2>1 DEF IInv, DbInv, StoreMirrored, ExpirationsOwned, ContentOf
    <3>2. due \cap DOMAIN notifications = due
      BY <3>1
    <3>3. CASE due = {}
      <4>1. later = DOMAIN expiration
        BY <3>3, BoundsAssumption DEF IInv, DbInv, DatabaseTypeOK, ServerTypeOK, IsMap, Time
      <4>2. QED BY <1>2, <4>1 DEF ExpirationsShrink
    <3>4. CASE due # {}
      <4>1. expiration' = Drop(expiration, due)
        BY <1>1, <2>1, <3>2, <3>4 DEF CloseNotifications, ExecSQL
      <4>2. DOMAIN expiration' = DOMAIN expiration \ due
        BY <4>1 DEF Drop, Restrict
      <4>3. QED
        BY <4>2, BoundsAssumption DEF IInv, DbInv, DatabaseTypeOK, ServerTypeOK, IsMap, Time
    <3>5. QED BY <3>3, <3>4
  <2>2. CASE ~dbOpen
    <3>1. DOMAIN expiration = {}
      BY <2>2, EmptyMapFacts DEF IInv, DbInv, StoreMirrored, ExpirationsOwned
    <3>2. QED BY <1>2, <3>1 DEF ExpirationsShrink
  <2>3. QED BY <2>1, <2>2 DEF IInv, DbInv, DatabaseTypeOK
<1>6. ExpirationArmed'
  <2> SUFFICES ASSUME NEW id \in DOMAIN expiration'
               PROVE  expirationTimer' /\ nextExpiration' > 0 /\ nextExpiration' <= expiration'[id]
    BY DEF ExpirationArmed
  <2>1. expiration'[id] = expiration[id] /\ id \in later
    BY <1>2, <1>5 DEF ExpirationsShrink
  <2>2. QED BY <1>4, <2>1
<1>7. ServerTypeOK'
  BY <1>1, <1>4 DEF IInv, ServerTypeOK, processVars, reportVars
<1>8. QED BY <1>1, <1>2, <1>4, <1>6, <1>7 DEF IInv, TimerInv, StoppedIsQuiet, processVars

(* The state of a process that has just started from the tables found. *)
LEMMA RestorePreserves ==
  ASSUME NEW stored, IsMap(stored.rows, Ids, Contents), IsMap(stored.expiration, Ids, Time),
         DOMAIN stored.expiration \subseteq DOMAIN stored.rows,
         stored = [rows |-> stored.rows, expiration |-> stored.expiration],
         now \in Time, gestures = {}, UNCHANGED gestures, dbOpen' \in BOOLEAN,
         durable' \in {stored, durable}, dbOpen' => durable' = stored,
         ~dbOpen' => stored = NoTables,
         IsMap(durable.rows, Ids, Contents), IsMap(durable.expiration, Ids, Time),
         DOMAIN durable.expiration \subseteq DOMAIN durable.rows,
         durable = [rows |-> durable.rows, expiration |-> durable.expiration],
         Restore(stored)
  PROVE  DbInv' /\ TimerInv' /\ previousId' \in Ids \cup {0} /\ nextExpiration' \in Time
         /\ expirationTimer' \in BOOLEAN
<1> DEFINE transient == {id \in DOMAIN stored.rows : stored.rows[id].transient}
           found == DOMAIN stored.rows \ transient
           timed == found \cap DOMAIN stored.expiration
           expired == {id \in timed : stored.expiration[id] <= now}
           times == {stored.expiration[id] : id \in timed \ expired}
<1>1. PICK cull \in Culled(found \ expired, stored.rows) :
        LET closed == expired \cup cull IN
        /\ notifications' = [id \in found \ closed |-> [content |-> stored.rows[id], restored |-> TRUE]]
        /\ removed' = closed
        /\ previousId' \in Ids \cup {0} /\ IsHighest(previousId', found)
        /\ rows' = Drop(stored.rows, transient \cup closed)
        /\ expiration' = Drop(stored.expiration, transient \cup closed)
        /\ committed' = (transient \cup closed = {})
        /\ commitTimer' = ~committed'
        /\ ScheduleExpiration(times)
        /\ displayed' = (found \ closed) \cap DOMAIN stored.expiration
  BY DEF Restore
<1> DEFINE closed == expired \cup cull
           gone == transient \cup closed
<1>2. cull \subseteq found
  BY DEF Culled
<1>3. gone \subseteq DOMAIN stored.rows /\ DOMAIN stored.rows \ gone = found \ closed
  BY <1>2
<1>4. /\ IsMap(rows', Ids, Contents)
      /\ DOMAIN rows' = DOMAIN stored.rows \ gone
      /\ \A id \in DOMAIN stored.rows \ gone : rows'[id] = stored.rows[id]
  BY <1>1 DEF Drop, Restrict, IsMap
<1>5. /\ IsMap(expiration', Ids, Time)
      /\ DOMAIN expiration' = DOMAIN stored.expiration \ gone
      /\ \A id \in DOMAIN stored.expiration \ gone : expiration'[id] = stored.expiration[id]
  BY <1>1 DEF Drop, Restrict, IsMap
<1>6. /\ IsMap(notifications', Ids, Entries)
      /\ DOMAIN notifications' = DOMAIN stored.rows \ gone
      /\ \A id \in DOMAIN notifications' : notifications'[id].content = stored.rows[id]
  BY <1>1, <1>3 DEF IsMap, Entries
<1>7. removed' \subseteq Ids /\ displayed' \subseteq Ids
  BY <1>1, <1>2 DEF IsMap
<1>8. /\ committed' \in BOOLEAN /\ commitTimer' \in BOOLEAN
      /\ committed' => gone = {}
      /\ ~committed' => gone # {} /\ commitTimer'
  BY <1>1
<1>9. StoreTypeOK'
  BY <1>6, <1>7 DEF StoreTypeOK
<1>10. rows' = ContentOf(notifications')
  <2>1. /\ IsMap(ContentOf(notifications'), Ids, Contents)
        /\ DOMAIN ContentOf(notifications') = DOMAIN notifications'
        /\ \A id \in DOMAIN notifications' :
             ContentOf(notifications')[id] = notifications'[id].content
    BY <1>6, ContentOfFacts
  <2>2. QED BY <1>4, <1>6, <2>1, MapEquality
<1>11. StoreMirrored'
  <2>1. CASE dbOpen'
    BY <1>10, <2>1 DEF StoreMirrored
  <2>2. CASE ~dbOpen'
    <3>1. DOMAIN rows' = {} /\ DOMAIN EmptyMap = {}
      BY <1>4, <2>2, EmptyMapFacts DEF NoTables
    <3>2. rows' = EmptyMap
      BY <1>4, <3>1, EmptyMapFacts, MapEquality
    <3>3. QED BY <2>2, <3>2 DEF StoreMirrored
  <2>3. QED BY <2>1, <2>2
<1>12. DatabaseTypeOK'
  BY <1>4, <1>5, <1>8 DEF DatabaseTypeOK
<1>13. ExpirationsOwned'
  BY <1>4, <1>5 DEF ExpirationsOwned
<1>14. CommitScheduled'
  <2>1. CASE committed'
    <3>1. gone = {}
      BY <1>8, <2>1
    <3>2. rows' = stored.rows
      BY <1>4, <3>1, MapEquality
    <3>3. expiration' = stored.expiration
      BY <1>5, <3>1, MapEquality
    <3>4. QED BY <2>1, <3>2, <3>3 DEF CommitScheduled, Tables
  <2>2. CASE ~committed'
    <3>1. DOMAIN stored.rows # {}
      BY <1>3, <1>8, <2>2
    <3>2. dbOpen'
      BY <3>1, EmptyMapFacts DEF NoTables
    <3>3. QED BY <1>8, <2>2, <3>2 DEF CommitScheduled
  <2>3. QED BY <1>8, <2>1, <2>2
<1>15. times \subseteq Time /\ \A t \in times : t > 0
  BY BoundsAssumption DEF IsMap, Time
<1>16. /\ TimerMatchesNext' /\ nextExpiration' \in Time /\ expirationTimer' \in BOOLEAN
       /\ \A t \in times : expirationTimer' /\ nextExpiration' > 0 /\ nextExpiration' <= t
  BY <1>1, <1>15, ScheduleArms
<1>17. ExpirationArmed'
  <2> SUFFICES ASSUME NEW id \in DOMAIN expiration'
               PROVE  expirationTimer' /\ nextExpiration' > 0 /\ nextExpiration' <= expiration'[id]
    BY DEF ExpirationArmed
  <2>1. expiration'[id] = stored.expiration[id] /\ id \in timed \ expired
    BY <1>3, <1>5
  <2>2. QED BY <1>16, <2>1
<1>18. previousId' \in Ids \cup {0}
  BY <1>1
<1>19. QED
  BY <1>9, <1>11, <1>12, <1>13, <1>14, <1>16, <1>17, <1>18 DEF DbInv, TimerInv

LEMMA NoTablesFacts ==
  /\ IsMap(NoTables.rows, Ids, Contents) /\ IsMap(NoTables.expiration, Ids, Time)
  /\ DOMAIN NoTables.rows = {} /\ DOMAIN NoTables.expiration = {}
  /\ NoTables = [rows |-> NoTables.rows, expiration |-> NoTables.expiration]
BY EmptyMapFacts DEF NoTables

LEMMA StartStep ==
  ASSUME IInv, Start
  PROVE  IInv'
<1>1. PICK outcome \in DatabaseOutcomes :
        /\ dbOpen' = (outcome # "closed")
        /\ durable' = IF outcome = "recreated" THEN NoTables ELSE durable
        /\ Restore(IF outcome = "intact" THEN durable ELSE NoTables)
  BY DEF Start
<1>2. /\ ~running /\ running' = TRUE
      /\ UNCHANGED <<reportVars, restarts, calls, gestures, now>>
  BY DEF Start
<1> DEFINE stored == IF outcome = "intact" THEN durable ELSE NoTables
<1>3. /\ IsMap(durable.rows, Ids, Contents) /\ IsMap(durable.expiration, Ids, Time)
      /\ DOMAIN durable.expiration \subseteq DOMAIN durable.rows
      /\ durable = [rows |-> durable.rows, expiration |-> durable.expiration]
  BY DEF IInv, DbInv, DatabaseTypeOK, ExpirationsOwned
<1>4. /\ IsMap(stored.rows, Ids, Contents) /\ IsMap(stored.expiration, Ids, Time)
      /\ DOMAIN stored.expiration \subseteq DOMAIN stored.rows
      /\ stored = [rows |-> stored.rows, expiration |-> stored.expiration]
  <2>1. CASE outcome = "intact"
    BY <1>3, <2>1
  <2>2. CASE outcome # "intact"
    BY <2>2, NoTablesFacts
  <2>3. QED BY <2>1, <2>2
<1>5. outcome \in {"intact", "recreated", "closed"}
  BY ChoicesAssumption
<1>6. /\ durable' \in {stored, durable}
      /\ dbOpen' => durable' = stored
      /\ ~dbOpen' => stored = NoTables
      /\ dbOpen' \in BOOLEAN
  <2>1. CASE outcome = "intact"
    BY <1>1, <2>1
  <2>2. CASE outcome = "recreated"
    BY <1>1, <2>2
  <2>3. CASE outcome = "closed"
    BY <1>1, <2>3
  <2>4. QED BY <1>5, <2>1, <2>2, <2>3
<1>7. now \in Time /\ gestures = {} /\ UNCHANGED gestures
  BY <1>2 DEF IInv, ServerTypeOK, StoppedIsQuiet
<1>8. Restore(stored)
  BY <1>1
<1> HIDE DEF stored
<1>9. /\ DbInv' /\ TimerInv' /\ previousId' \in Ids \cup {0} /\ nextExpiration' \in Time
      /\ expirationTimer' \in BOOLEAN
  BY <1>3, <1>4, <1>6, <1>7, <1>8, RestorePreserves
<1>10. ServerTypeOK'
  BY <1>2, <1>9 DEF IInv, ServerTypeOK, reportVars
<1>11. QED BY <1>2, <1>9, <1>10 DEF IInv, StoppedIsQuiet

LEMMA StopStep ==
  ASSUME IInv, Quit \/ Crash
  PROVE  IInv'
<1>1. Stop /\ durable' \in {durable, Tables}
  BY DEF Quit, Crash
<1>2. /\ IsMap(rows', Ids, Contents) /\ IsMap(expiration', Ids, Time)
      /\ DOMAIN rows' = {} /\ DOMAIN expiration' = {}
      /\ IsMap(notifications', Ids, Entries) /\ DOMAIN notifications' = {}
  BY <1>1, EmptyMapFacts DEF Stop
<1>3. StoreTypeOK'
  BY <1>1, <1>2 DEF Stop, StoreTypeOK
<1>4. DatabaseTypeOK' /\ ExpirationsOwned'
  <2>1. CASE durable' = durable
    BY <1>1, <1>2, <2>1 DEF Stop, IInv, DbInv, DatabaseTypeOK, ExpirationsOwned
  <2>2. CASE durable' = Tables
    BY <1>1, <1>2, <2>2 DEF Stop, IInv, DbInv, DatabaseTypeOK, ExpirationsOwned, Tables
  <2>3. QED BY <1>1, <2>1, <2>2
<1>5. StoreMirrored' /\ CommitScheduled' /\ TimerInv' /\ StoppedIsQuiet'
  BY <1>1, <1>2 DEF Stop, StoreMirrored, CommitScheduled, TimerInv, ExpirationArmed,
                    TimerMatchesNext, StoppedIsQuiet
<1>6. ServerTypeOK'
  <2>1. {running', expirationTimer', modificationTimer'} \subseteq BOOLEAN
    BY <1>1 DEF Stop
  <2>2. modified' \subseteq Ids /\ previousId' \in Ids \cup {0}
    BY <1>1 DEF Stop
  <2>3. nextExpiration' \in Time /\ now' \in Time /\ restarts' \in 0 .. MaxRestarts
    BY <1>1, BoundsAssumption DEF Stop, IInv, ServerTypeOK, Time
  <2>4. calls' \in [Clients -> Call \cup {NoCall}]
    BY <1>1 DEF Stop
  <2>5. QED BY <2>1, <2>2, <2>3, <2>4 DEF ServerTypeOK
<1>7. QED BY <1>3, <1>4, <1>5, <1>6 DEF IInv, DbInv

LEMMA InitInvariant == Init => IInv
<1> SUFFICES ASSUME Init PROVE IInv
  OBVIOUS
<1>1. /\ IsMap(rows, Ids, Contents) /\ IsMap(expiration, Ids, Time)
      /\ IsMap(notifications, Ids, Entries)
      /\ DOMAIN rows = {} /\ DOMAIN expiration = {} /\ DOMAIN notifications = {}
  BY EmptyMapFacts DEF Init
<1>2. DbInv
  BY <1>1, NoTablesFacts DEF Init, DbInv, StoreTypeOK, DatabaseTypeOK, StoreMirrored,
                             ExpirationsOwned, CommitScheduled
<1>3. ServerTypeOK
  <2>1. {running, expirationTimer, modificationTimer} \subseteq BOOLEAN
    BY DEF Init
  <2>2. modified \subseteq Ids /\ previousId \in Ids \cup {0}
    BY DEF Init
  <2>3. nextExpiration \in Time /\ now \in Time /\ restarts \in 0 .. MaxRestarts
    BY BoundsAssumption DEF Init, Time
  <2>4. calls \in [Clients -> Call \cup {NoCall}]
    BY DEF Init
  <2>5. QED BY <2>1, <2>2, <2>3, <2>4 DEF ServerTypeOK
<1>4. TimerInv /\ StoppedIsQuiet
  BY <1>1 DEF Init, TimerInv, ExpirationArmed, TimerMatchesNext, StoppedIsQuiet
<1>5. QED BY <1>2, <1>3, <1>4 DEF IInv

LEMMA NextInvariant == IInv /\ [Next]_vars => IInv'
<1> SUFFICES ASSUME IInv, [Next]_vars PROVE IInv'
  OBVIOUS
<1>1. CASE Environment
  <2>1. \A c \in Contents : c.category \in STRING
    BY ContentsAssumption DEF Content
  <2>2. CASE \E c \in Clients : SendCall(c)
    BY <2>2, SendCallStep
  <2>3. CASE InternalNotify
    BY <2>3, InternalNotifyStep
  <2>4. CASE \E id \in DOMAIN notifications : MarkNotificationDisplayed(id)
    BY <2>4, MarkDisplayedStep
  <2>5. CASE \E id \in DOMAIN notifications, kind \in Gestures : UserGesture(id, kind)
    BY <2>5, UserGestureStep
  <2>6. CASE InternalCloseNotification \/ RemoveUserRemovableNotifications
    BY <2>6, ClosingSteps
  <2>7. CASE \E c \in Contents : \/ RemoveNotificationsWithCategory(c.category)
                                 \/ UpdateNotificationsWithCategory(c.category)
    BY <2>1, <2>7, ClosingSteps, UpdateCategoryStep
  <2>8. CASE Quit \/ Crash
    BY <2>8, StopStep
  <2>9. QED BY <1>1, <2>2, <2>3, <2>4, <2>5, <2>6, <2>7, <2>8 DEF Environment
<1>2. CASE System
  BY <1>2, IdentifiedCallStep, HandleGestureStep, ExpireStep, CommitStep, ReportModificationsStep,
     StartStep, TickStep DEF System
<1>3. CASE UNCHANGED vars
  <2>1. DbInv' /\ ExpirationsShrink
    BY <1>3, DbKept DEF IInv, DbInv, StoreTypeOK, vars, processVars
  <2>2. TimerInv'
    BY <1>3, <2>1, TimerKept DEF IInv, vars
  <2>3. ServerTypeOK'
    BY <1>3 DEF IInv, ServerTypeOK, vars, processVars, reportVars, expiryVars
  <2>4. QED BY <1>3, <2>1, <2>2, <2>3 DEF IInv, StoppedIsQuiet, vars, processVars
<1>4. QED BY <1>1, <1>2, <1>3 DEF Next

(* The inductive invariant holds in every reachable state. *)
THEOREM InvariantHolds == Spec => []IInv
BY InitInvariant, NextInvariant, PTL DEF Spec
-----------------------------------------------------------------------------
(* Every variable keeps its type. *)
THEOREM TypeCorrect == Spec => []TypeOK
<1>1. IInv => TypeOK
  BY DEF IInv, DbInv, TypeOK
<1>2. QED BY <1>1, InvariantHolds, PTL

(* The open database always holds exactly the store's notifications. *)
THEOREM StoreIsMirrored == Spec => []StoreMirrored
<1>1. IInv => StoreMirrored
  BY DEF IInv, DbInv
<1>2. QED BY <1>1, InvariantHolds, PTL

(* No expiration time outlives its notification. *)
THEOREM ExpirationsAreOwned == Spec => []ExpirationsOwned
<1>1. IInv => ExpirationsOwned
  BY DEF IInv, DbInv
<1>2. QED BY <1>1, InvariantHolds, PTL

(* While an expiration time is stored, the timer runs early enough for it. *)
THEOREM ExpirationIsArmed == Spec => []ExpirationArmed
<1>1. IInv => ExpirationArmed
  BY DEF IInv, TimerInv
<1>2. QED BY <1>1, InvariantHolds, PTL

(* Either the disk is up to date or a commit is scheduled. *)
THEOREM CommitIsScheduled == Spec => []CommitScheduled
<1>1. IInv => CommitScheduled
  BY DEF IInv, DbInv
<1>2. QED BY <1>1, InvariantHolds, PTL
-----------------------------------------------------------------------------
(* The properties of the calls: only the step that identifies a client's   *)
(* process takes its call.                                                 *)

LEMMA OnlyIdentifiedCallHandles ==
  ASSUME IInv, [Next]_vars, NEW c \in Clients, Handled(c)
  PROVE  IdentifiedCall(c)
<1>1. calls[c] # NoCall /\ calls'[c] = NoCall /\ running' /\ calls' # calls
  BY DEF Handled
<1>2. calls \in [Clients -> Call \cup {NoCall}]
  BY DEF IInv, ServerTypeOK
<1>3. ASSUME NEW d \in Clients, SendCall(d) PROVE FALSE
  BY <1>1, <1>2, <1>3, ClientsAssumption DEF SendCall
<1>4. ASSUME NEW d \in Clients, IdentifiedCall(d) PROVE d = c
  BY <1>1, <1>2, <1>4 DEF IdentifiedCall
<1>5. CASE Environment
  BY <1>1, <1>3, <1>5 DEF Environment, InternalNotify, InternalCloseNotification,
     MarkNotificationDisplayed, UserGesture, RemoveUserRemovableNotifications,
     RemoveNotificationsWithCategory, UpdateNotificationsWithCategory, Quit, Crash, Stop
<1>6. CASE System
  BY <1>1, <1>4, <1>6 DEF System, HandleGesture, Expire, Commit, ReportModifications, Start, Tick
<1>7. CASE UNCHANGED vars
  BY <1>1, <1>7 DEF vars
<1>8. QED BY <1>5, <1>6, <1>7 DEF Next

(* The notifications a call may touch, and those it leaves alone. *)
LEMMA NotifyEffect ==
  ASSUME IInv, NEW privileged \in BOOLEAN, NEW replacesId, NEW content \in Contents,
         HandleNotify(privileged, replacesId, content)
  PROVE  \/ UNCHANGED notifications
         \/ \E id \in Ids :
              /\ id \in DOMAIN notifications => id = replacesId
              /\ ~Denied(privileged, replacesId, content)
              /\ notifications' = Overlay(notifications, Entry(id, content, FALSE))
<1>1. PICK id \in Ids :
        /\ IF replacesId \in DOMAIN notifications THEN id = replacesId ELSE IsNextAvailable(id)
        /\ IF Denied(privileged, replacesId, content)
             THEN UNCHANGED <<storeVars, dbVars, reportVars>>
             ELSE Publish(Entry(id, content, FALSE),
                          IF replacesId \in DOMAIN notifications THEN {id} ELSE {})
  BY DEF HandleNotify
<1>2. CASE Denied(privileged, replacesId, content)
  BY <1>1, <1>2 DEF storeVars
<1>3. CASE ~Denied(privileged, replacesId, content)
  <2>1. id \in DOMAIN notifications => id = replacesId
    BY <1>1 DEF IsNextAvailable, FreeIds
  <2>2. notifications' = Overlay(notifications, Entry(id, content, FALSE))
    BY <1>1, <1>3 DEF Publish
  <2>3. QED BY <1>3, <2>1, <2>2
<1>4. QED BY <1>2, <1>3

LEMMA CloseEffect ==
  ASSUME NEW privileged \in BOOLEAN, NEW id, HandleCloseNotification(privileged, id)
  PROVE  \/ UNCHANGED notifications
         \/ /\ id \in DOMAIN notifications
            /\ privileged \/ notifications[id].content.removable
            /\ notifications' = Drop(notifications, {id})
<1>1. CASE id \in DOMAIN notifications /\ (privileged \/ notifications[id].content.removable)
  <2>1. {id} \cap DOMAIN notifications = {id}
    BY <1>1
  <2>2. QED BY <1>1, <2>1 DEF HandleCloseNotification, CloseNotifications
<1>2. CASE ~(id \in DOMAIN notifications /\ (privileged \/ notifications[id].content.removable))
  BY <1>2 DEF HandleCloseNotification, storeVars
<1>3. QED BY <1>1, <1>2

(* What a handled call does to the store. *)
LEMMA CallEffect ==
  ASSUME IInv, NEW c \in Clients, IdentifiedCall(c)
  PROVE  \E privileged \in BOOLEAN :
           /\ privileged => c \in Privileged
           /\ \/ UNCHANGED notifications
              \/ \E id \in Ids, content \in Contents :
                   /\ id \in DOMAIN notifications => id = calls[c].id
                   /\ ~Denied(privileged, calls[c].id, content)
                   /\ notifications' = Overlay(notifications, Entry(id, content, FALSE))
              \/ /\ calls[c].id \in DOMAIN notifications
                 /\ privileged \/ notifications[calls[c].id].content.removable
                 /\ notifications' = Drop(notifications, {calls[c].id})
<1>1. PICK privileged \in BOOLEAN :
        /\ privileged => c \in Privileged
        /\ \/ /\ calls[c].op = "Notify"
              /\ HandleNotify(privileged, calls[c].id, calls[c].content)
           \/ HandleCloseNotification(privileged, calls[c].id)
  BY DEF IdentifiedCall
<1>2. calls[c] \in Call
  BY DEF IdentifiedCall, IInv, ServerTypeOK
<1>3. CASE calls[c].op = "Notify" /\ HandleNotify(privileged, calls[c].id, calls[c].content)
  <2>1. calls[c].content \in Contents
    BY <1>2, <1>3 DEF Call
  <2>2. \/ UNCHANGED notifications
        \/ \E id \in Ids :
             /\ id \in DOMAIN notifications => id = calls[c].id
             /\ ~Denied(privileged, calls[c].id, calls[c].content)
             /\ notifications' = Overlay(notifications, Entry(id, calls[c].content, FALSE))
    BY <1>3, <2>1, NotifyEffect
  <2>3. QED BY <1>1, <2>1, <2>2
<1>4. CASE HandleCloseNotification(privileged, calls[c].id)
  BY <1>1, <1>4, CloseEffect
<1>5. QED BY <1>1, <1>3, <1>4

LEMMA UnprivilegedCallKeepsPersistent ==
  ASSUME IInv, NEW c \in Clients \ Privileged, IdentifiedCall(c)
  PROVE  Persistent(notifications') = Persistent(notifications)
<1>1. CASE UNCHANGED notifications
  BY <1>1
<1>2. CASE \E id \in Ids, content \in Contents :
             /\ id \in DOMAIN notifications => id = calls[c].id
             /\ ~Denied(FALSE, calls[c].id, content)
             /\ notifications' = Overlay(notifications, Entry(id, content, FALSE))
  <2>1. PICK id \in Ids, content \in Contents :
             /\ id \in DOMAIN notifications => id = calls[c].id
             /\ ~Denied(FALSE, calls[c].id, content)
             /\ notifications' = Overlay(notifications, Entry(id, content, FALSE))
    BY <1>2
  <2>2. /\ content.removable
        /\ id \in DOMAIN notifications => notifications[id].content.removable
    BY <2>1 DEF Denied
  <2>3. /\ DOMAIN notifications' = DOMAIN notifications \cup {id}
        /\ notifications'[id].content = content
        /\ \A x \in DOMAIN notifications : x # id => notifications'[x] = notifications[x]
    BY <2>1 DEF Overlay, Entry
  <2>4. {x \in DOMAIN notifications' : ~notifications'[x].content.removable}
          = {x \in DOMAIN notifications : ~notifications[x].content.removable}
    BY <2>2, <2>3
  <2>5. QED BY <2>2, <2>3, <2>4 DEF Persistent
<1>3. CASE /\ calls[c].id \in DOMAIN notifications
           /\ notifications[calls[c].id].content.removable
           /\ notifications' = Drop(notifications, {calls[c].id})
  <2>1. /\ DOMAIN notifications' = DOMAIN notifications \ {calls[c].id}
        /\ \A x \in DOMAIN notifications' : notifications'[x] = notifications[x]
    BY <1>3 DEF Drop, Restrict
  <2>2. {x \in DOMAIN notifications' : ~notifications'[x].content.removable}
          = {x \in DOMAIN notifications : ~notifications[x].content.removable}
    BY <1>3, <2>1
  <2>3. QED BY <2>1, <2>2 DEF Persistent
<1>4. QED BY <1>1, <1>2, <1>3, CallEffect

LEMMA CallKeepsOthers ==
  ASSUME IInv, NEW c \in Clients, IdentifiedCall(c), NEW id \in DOMAIN notifications \ {calls[c].id}
  PROVE  id \in DOMAIN notifications' /\ notifications'[id] = notifications[id]
<1>1. CASE UNCHANGED notifications
  BY <1>1
<1>2. CASE \E new \in Ids, content \in Contents :
             /\ new \in DOMAIN notifications => new = calls[c].id
             /\ notifications' = Overlay(notifications, Entry(new, content, FALSE))
  BY <1>2 DEF Overlay, Entry
<1>3. CASE notifications' = Drop(notifications, {calls[c].id})
  BY <1>3 DEF Drop, Restrict
<1>4. QED BY <1>1, <1>2, <1>3, CallEffect

(* A client without privileges cannot create, alter or close a persistent  *)
(* notification, whatever happens while its process is looked up.          *)
THEOREM PersistentIsProtected == Spec => PersistentProtected
<1> DEFINE Protected == \A c \in Clients \ Privileged :
                          Handled(c) => Persistent(notifications') = Persistent(notifications)
<1>1. IInv /\ [Next]_vars => [Protected]_vars
  BY OnlyIdentifiedCallHandles, UnprivilegedCallKeepsPersistent
<1>2. QED BY <1>1, InvariantHolds, PTL DEF Spec, PersistentProtected

(* A call changes no notification but the one it names. *)
THEOREM OthersAreUntouched == Spec => OthersUntouched
<1> DEFINE Untouched == \A c \in Clients : Handled(c) =>
                          \A id \in DOMAIN notifications \ {calls[c].id} :
                            id \in DOMAIN notifications' /\ notifications'[id] = notifications[id]
<1>1. IInv /\ [Next]_vars => [Untouched]_vars
  BY OnlyIdentifiedCallHandles, CallKeepsOthers
<1>2. QED BY <1>1, InvariantHolds, PTL DEF Spec, OthersUntouched

-----------------------------------------------------------------------------
(* The refinement of the durable store. *)

StoreBar == [rows |-> ContentOf(notifications), expiration |-> expiration]

LEMMA StoreBarIsSnapshot ==
  ASSUME IInv
  PROVE  Durable!IsSnapshot(StoreBar)
<1>1. IsMap(ContentOf(notifications), Ids, Contents)
  BY ContentOfFacts DEF IInv, DbInv, StoreTypeOK
<1>2. IsMap(expiration, Ids, Time)
  BY DEF IInv, DbInv, DatabaseTypeOK
<1>3. QED
  BY <1>1, <1>2 DEF StoreBar, IsMap, Durable!IsSnapshot, Durable!IsPartialMap

(* With the database open, what is written is what the server holds. *)
LEMMA TablesAreStore ==
  ASSUME IInv, dbOpen
  PROVE  Tables = StoreBar
BY DEF IInv, DbInv, StoreMirrored, Tables, StoreBar

LEMMA ChangeRefined ==
  ASSUME IInv, IInv', running, UNCHANGED processVars
  PROVE  Durable!Change
<1>1. Durable!IsSnapshot(StoreBar)'
  BY StoreBarIsSnapshot, PTL
<1>2. QED
  BY <1>1 DEF processVars, Durable!Change, StoreBar

LEMMA CommitRefined ==
  ASSUME IInv, Commit
  PROVE  Durable!Save \/ UNCHANGED Durable!vars
<1>1. UNCHANGED <<running, dbOpen, notifications, expiration>>
  BY DEF Commit, storeVars
<1>2. CASE committed
  BY <1>1, <1>2 DEF Commit, Durable!vars, ContentOf
<1>3. CASE ~committed
  <2>1. dbOpen
    BY <1>3 DEF IInv, DbInv, CommitScheduled
  <2>2. durable' = StoreBar
    BY <1>3, <2>1, TablesAreStore DEF Commit
  <2>3. UNCHANGED StoreBar
    BY <1>1 DEF StoreBar, ContentOf
  <2>4. QED BY <1>1, <2>1, <2>2, <2>3 DEF Commit, Durable!Save, StoreBar
<1>4. QED BY <1>2, <1>3

LEMMA EmptyStoreIsNothing ==
  ASSUME NEW s, NEW e, IsMap(s, Ids, Entries), IsMap(e, Ids, Time), DOMAIN s = {}, DOMAIN e = {}
  PROVE  [rows |-> ContentOf(s), expiration |-> e] = Durable!Nothing
BY DEF ContentOf, IsMap, Durable!Nothing

LEMMA StopRefined ==
  ASSUME IInv, IInv', Quit \/ Crash
  PROVE  Durable!End
<1>1. running /\ running' = FALSE /\ dbOpen' = FALSE
  BY DEF Quit, Crash, Stop
<1>2. StoreBar' = Durable!Nothing
  BY EmptyMapFacts DEF Quit, Crash, Stop, StoreBar, ContentOf, EmptyMap, Durable!Nothing
<1>3. durable' = durable \/ (dbOpen /\ durable' = StoreBar)
  BY TablesAreStore DEF Quit, Crash
<1>4. QED BY <1>1, <1>2, <1>3 DEF Durable!End, StoreBar

(* What a start finds in the tables it keeps, except for what expires, is    *)
(* transient or exceeds the maximum; persistent notifications never do.      *)
LEMMA RestoreRefined ==
  ASSUME NEW stored, IsMap(stored.rows, Ids, Contents), IsMap(stored.expiration, Ids, Time),
         DOMAIN stored.expiration \subseteq DOMAIN stored.rows,
         Restore(stored)
  PROVE  /\ Durable!IsPart(ContentOf(notifications'), stored.rows)
         /\ Durable!IsPart(expiration', stored.expiration)
         /\ DOMAIN expiration' = DOMAIN stored.expiration \cap DOMAIN ContentOf(notifications')
         /\ \A id \in Ids : Durable!MustLast(id, stored) => id \in DOMAIN ContentOf(notifications')
<1> DEFINE transient == {id \in DOMAIN stored.rows : stored.rows[id].transient}
           found == DOMAIN stored.rows \ transient
           timed == found \cap DOMAIN stored.expiration
           expired == {id \in timed : stored.expiration[id] <= now}
<1>1. PICK cull \in Culled(found \ expired, stored.rows) :
        LET closed == expired \cup cull IN
        /\ notifications' = [id \in found \ closed |-> [content |-> stored.rows[id], restored |-> TRUE]]
        /\ expiration' = Drop(stored.expiration, transient \cup closed)
  BY DEF Restore
<1> DEFINE closed == expired \cup cull
           gone == transient \cup closed
<1>2. cull \subseteq found /\ \A id \in cull : stored.rows[id].removable
  BY DEF Culled
<1>3. gone \subseteq DOMAIN stored.rows /\ DOMAIN stored.rows \ gone = found \ closed
  BY <1>2
<1>4. /\ DOMAIN ContentOf(notifications') = DOMAIN stored.rows \ gone
      /\ \A id \in DOMAIN stored.rows \ gone : ContentOf(notifications')[id] = stored.rows[id]
  BY <1>1, <1>3 DEF ContentOf
<1>5. /\ DOMAIN expiration' = DOMAIN stored.expiration \ gone
      /\ \A id \in DOMAIN stored.expiration \ gone : expiration'[id] = stored.expiration[id]
  BY <1>1 DEF Drop, Restrict
<1>6. \A id \in Ids : Durable!MustLast(id, stored) => id \in DOMAIN stored.rows \ gone
  <2> SUFFICES ASSUME NEW id \in Ids, Durable!MustLast(id, stored)
               PROVE  id \in DOMAIN stored.rows \ gone
    OBVIOUS
  <2>1. /\ id \in DOMAIN stored.rows /\ id \notin DOMAIN stored.expiration
        /\ ~stored.rows[id].removable /\ ~stored.rows[id].transient
    BY DEF Durable!MustLast
  <2>2. QED BY <1>2, <2>1
<1>7. QED
  BY <1>3, <1>4, <1>5, <1>6 DEF Durable!IsPart

LEMMA StartRefined ==
  ASSUME IInv, IInv', Start
  PROVE  Durable!Recover \/ Durable!BeginAnew
<1>1. PICK outcome \in DatabaseOutcomes :
        /\ dbOpen' = (outcome # "closed")
        /\ durable' = IF outcome = "recreated" THEN NoTables ELSE durable
        /\ Restore(IF outcome = "intact" THEN durable ELSE NoTables)
  BY DEF Start
<1>2. ~running /\ running' = TRUE
  BY DEF Start
<1>3. CASE outcome = "intact"
  <2>1. Restore(durable) /\ dbOpen' = TRUE /\ durable' = durable
    BY <1>1, <1>3
  <2>2. /\ IsMap(durable.rows, Ids, Contents) /\ IsMap(durable.expiration, Ids, Time)
        /\ DOMAIN durable.expiration \subseteq DOMAIN durable.rows
    BY DEF IInv, DbInv, DatabaseTypeOK, ExpirationsOwned
  <2>3. /\ Durable!IsPart(ContentOf(notifications'), durable.rows)
        /\ Durable!IsPart(expiration', durable.expiration)
        /\ DOMAIN expiration' = DOMAIN durable.expiration \cap DOMAIN ContentOf(notifications')
        /\ \A id \in Ids : Durable!MustLast(id, durable) => id \in DOMAIN ContentOf(notifications')
    BY <2>1, <2>2, RestoreRefined
  <2>4. Durable!IsSnapshot(StoreBar)'
    BY StoreBarIsSnapshot, PTL
  <2>5. QED BY <1>2, <2>1, <2>3, <2>4 DEF Durable!Recover, StoreBar
<1>4. CASE outcome # "intact"
  <2>1. Restore(NoTables)
    BY <1>1, <1>4
  <2>2. /\ Durable!IsPart(ContentOf(notifications'), NoTables.rows)
        /\ Durable!IsPart(expiration', NoTables.expiration)
    BY <2>1, NoTablesFacts, RestoreRefined
  <2>3. DOMAIN notifications' = {} /\ DOMAIN expiration' = {}
    BY <2>2, NoTablesFacts DEF Durable!IsPart, ContentOf
  <2>4. IsMap(notifications', Ids, Entries) /\ IsMap(expiration', Ids, Time)
    BY DEF IInv, DbInv, StoreTypeOK, DatabaseTypeOK
  <2>5. StoreBar' = Durable!Nothing
    BY <2>3, <2>4, EmptyStoreIsNothing DEF StoreBar
  <2>6. \/ dbOpen' = TRUE /\ durable' = Durable!Nothing
        \/ dbOpen' = FALSE /\ durable' = durable
    <3>1. NoTables = Durable!Nothing
      BY DEF NoTables, EmptyMap, Durable!Nothing
    <3>2. outcome = "recreated" \/ outcome = "closed"
      BY <1>4, ChoicesAssumption
    <3>3. QED BY <1>1, <3>1, <3>2
  <2>7. QED BY <1>2, <2>5, <2>6 DEF Durable!BeginAnew, StoreBar
<1>5. QED BY <1>3, <1>4

LEMMA InitRefined ==
  ASSUME Init
  PROVE  Durable!Init
BY DEF Init, Durable!Init, ContentOf, EmptyMap, NoTables, Durable!Nothing

LEMMA NextRefined ==
  ASSUME IInv, IInv', [Next]_vars
  PROVE  [Durable!Next]_(Durable!vars)
<1>1. CASE UNCHANGED vars
  BY <1>1 DEF vars, storeVars, dbVars, processVars, Durable!vars, ContentOf
<1>2. CASE \E c \in Clients : SendCall(c) \/ IdentifiedCall(c)
  <2>1. running /\ UNCHANGED processVars
    BY <1>2 DEF SendCall, IdentifiedCall
  <2>2. QED BY <2>1, ChangeRefined DEF Durable!Next
<1>3. CASE \E id \in Ids, kind \in Gestures : UserGesture(id, kind) \/ HandleGesture(id, kind)
  <2>1. running /\ UNCHANGED processVars
    BY <1>3 DEF UserGesture, HandleGesture
  <2>2. QED BY <2>1, ChangeRefined DEF Durable!Next
<1>4. CASE \/ InternalNotify \/ InternalCloseNotification
           \/ \E id \in Ids : MarkNotificationDisplayed(id)
           \/ RemoveUserRemovableNotifications \/ Expire \/ ReportModifications
  <2>1. running /\ UNCHANGED processVars
    BY <1>4 DEF InternalNotify, InternalCloseNotification, MarkNotificationDisplayed,
                RemoveUserRemovableNotifications, Expire, ReportModifications
  <2>2. QED BY <2>1, ChangeRefined DEF Durable!Next
<1>5. CASE \E category : \/ RemoveNotificationsWithCategory(category)
                         \/ UpdateNotificationsWithCategory(category)
  <2>1. running /\ UNCHANGED processVars
    BY <1>5 DEF RemoveNotificationsWithCategory, UpdateNotificationsWithCategory
  <2>2. QED BY <2>1, ChangeRefined DEF Durable!Next
<1>6. CASE Commit
  BY <1>6, CommitRefined DEF Durable!Next
<1>7. CASE Quit \/ Crash
  BY <1>7, StopRefined DEF Durable!Next
<1>8. CASE Start
  BY <1>8, StartRefined DEF Durable!Next
<1>9. CASE Tick
  BY <1>9 DEF Tick, storeVars, dbVars, processVars, Durable!vars, ContentOf
<1>10. DOMAIN notifications \subseteq Ids
  BY DEF IInv, DbInv, StoreTypeOK, IsMap
<1>11. QED
  BY <1>1, <1>2, <1>3, <1>4, <1>5, <1>6, <1>7, <1>8, <1>9, <1>10 DEF Next, Environment, System

(* The notification server implements the durable store: what is on disk is  *)
(* the whole of what the server held at one moment, whatever timers, calls   *)
(* and crashes come in between.                                              *)
THEOREM DurableStoreIsImplemented == Spec => ImplementsDurableStore
<1>1. Init => Durable!Init
  BY InitRefined
<1>2. IInv /\ IInv' /\ [Next]_vars => [Durable!Next]_(Durable!vars)
  BY NextRefined
<1>3. QED
  BY <1>1, <1>2, InvariantHolds, PTL DEF Spec, Durable!Spec, ImplementsDurableStore
=============================================================================
