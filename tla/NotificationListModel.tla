------------------------ MODULE NotificationListModel ------------------------
(***************************************************************************)
(* The list of notifications that the events view shows.  It follows the   *)
(* notification manager through two channels: what is published reaches it *)
(* in batches, when the manager's modification timer reports them, while   *)
(* what is closed is taken out at once.  The items are the manager's own   *)
(* objects, so a republished notification changes its place in the order   *)
(* as soon as it is published and its place in the list only in the next   *)
(* report.                                                                 *)
(***************************************************************************)
EXTENDS Naturals, Sequences, FiniteSets, SequencesExt

CONSTANTS
  Ids,        \* notification ids, numbers
  MaxRank,    \* bound on the ranks
  MaxPublished  \* bound on the notifications published after the model was constructed

(* The rank stands for a notification's priority and internal timestamp;   *)
(* shown is notificationShouldBeShown: not transient, with a text.         *)
Content == [rank : 0 .. MaxRank, shown : BOOLEAN]

VARIABLES
  notifications, \* the notifications of the manager, id -> content
  modified,      \* the manager's m_modifiedIds
  items,         \* the items of the model, as ids
  populated,     \* m_populated
  published,     \* their number
  (* Histories that nothing depends on. *)
  fallen,        \* those in the list whose rank fell since they were placed
  misplaced,     \* those whose place was found among others out of place
  doubled        \* those that were in the list when it was populated

vars == <<notifications, modified, items, populated, published, fallen,
          misplaced, doubled>>

-----------------------------------------------------------------------------
(* The order and the places *)

(* operator<: the higher priority, the later timestamp, then the higher id. *)
Precedes(a, b) ==
  \/ notifications[a].rank > notifications[b].rank
  \/ notifications[a].rank = notifications[b].rank /\ a > b

(* Mutation: a notification that is already in the list stays in its place. *)
PlacedOnce(list, id) ==
  LET later == SelectInSeq(list, LAMBDA other : other # id /\ Precedes(id, other))
  IN IF Contains(list, id) THEN list
     ELSE InsertAt(list, IF later = 0 THEN Len(list) + 1 ELSE later, id)

(* indexFor and the insertion or move that follows: the notification goes   *)
(* before the first other one that it precedes, or to the end.              *)
Placed(list, id) ==
  LET rest == RemoveFirst(list, id)
      later == SelectInSeq(rest, LAMBDA other : other # id /\ Precedes(id, other))
  IN InsertAt(rest, IF later = 0 THEN Len(rest) + 1 ELSE later, id)

(* updateNotification *)
Updated(list, id) ==
  IF id \notin DOMAIN notifications THEN list
  ELSE IF notifications[id].shown THEN Placed(list, id) ELSE RemoveFirst(list, id)

(* The list after these notifications were updated, or removed, in turn. *)
UpdatedInTurn(order) ==
  LET after[n \in 0 .. Len(order)] ==
        IF n = 0 THEN items ELSE Updated(after[n - 1], order[n])
  IN after[Len(order)]

RemovedInTurn(list, order) ==
  LET after[n \in 0 .. Len(order)] ==
        IF n = 0 THEN list ELSE RemoveFirst(after[n - 1], order[n])
  IN after[Len(order)]

(* A place is looked for from the front, so it is found only if the others  *)
(* are in order: all of them are updated, or none but the first to be       *)
(* updated is out of place.  A notification listed twice always is.         *)
Disturbed(order) ==
  \/ doubled # {}
  \/ ~(ToSet(items) \subseteq ToSet(order)) /\ ~(misplaced \cup fallen \subseteq {order[1]})

(* These notifications are updated, in some order. *)
Update(ids) ==
  \E order \in SetToSeqs(ids) :
    /\ items' = UpdatedInTurn(order)
    /\ misplaced' = IF populated /\ Disturbed(order)
                      THEN (misplaced \cup ids) \cap ToSet(items') ELSE {}

-----------------------------------------------------------------------------
(* The manager publishes a notification: a new one, or new content for one. *)
Publish(id, content) ==
  /\ published < MaxPublished /\ published' = published + 1
  /\ notifications' = [x \in DOMAIN notifications \cup {id} |->
                         IF x = id THEN content ELSE notifications[x]]
  /\ modified' = modified \cup {id}
  /\ fallen' = IF populated /\ id \in ToSet(items) /\ content.rank < notifications[id].rank
                 THEN fallen \cup {id} ELSE fallen
  /\ UNCHANGED <<items, populated, misplaced, doubled>>

(* The manager's modification timer: updateNotifications. *)
ReportModifications ==
  /\ modified # {}
  /\ Update(modified)
  /\ modified' = {}
  /\ fallen' = {}
  /\ UNCHANGED <<notifications, populated, published, doubled>>

(* The manager closes notifications.  It announces them twice while they    *)
(* are still its own: removeNotifications for all of them, then             *)
(* removeNotification for each; both remove one occurrence.                 *)
Close(ids) ==
  LET order == SetToSeq(ids) IN
  /\ ids # {} /\ ids \subseteq DOMAIN notifications
  /\ items' = RemovedInTurn(RemovedInTurn(items, order), order)
  /\ notifications' = [x \in DOMAIN notifications \ ids |-> notifications[x]]
  /\ fallen' = fallen \ ids /\ misplaced' = misplaced \ ids /\ doubled' = doubled \ ids
  /\ UNCHANGED <<modified, populated, published>>

(* init, which a single shot of the constructor calls, and refreshModel,     *)
(* before it or later and any number of times.  The first time the shown     *)
(* notifications are sorted and appended, to what a report before has put    *)
(* into the list; afterwards each notification is updated.                   *)
Populate ==
  /\ IF populated
       THEN Update(DOMAIN notifications) /\ UNCHANGED doubled
       ELSE LET shown == {id \in DOMAIN notifications : notifications[id].shown}
            IN /\ items' \in {items \o sorted :
                               sorted \in {s \in SetToSeqs(shown) : IsSorted(s, Precedes)}}
               /\ misplaced' = ToSet(items)
               /\ doubled' = ToSet(items) \cap shown
  /\ populated' = TRUE
  /\ fallen' = {}
  /\ UNCHANGED <<notifications, modified, published>>

-----------------------------------------------------------------------------
(* A model is constructed whatever the manager holds at that time. *)
Init ==
  /\ notifications \in UNION {[ids -> Content] : ids \in SUBSET Ids}
  /\ modified \in SUBSET Ids
  /\ items = <<>> /\ populated = FALSE /\ published = 0
  /\ fallen = {} /\ misplaced = {} /\ doubled = {}

Next ==
  \/ \E id \in Ids, content \in Content : Publish(id, content)
  \/ ReportModifications
  \/ \E ids \in SUBSET Ids : Close(ids)
  \/ Populate

Spec == Init /\ [][Next]_vars

-----------------------------------------------------------------------------
(* Correctness *)

Occurrences(id) == Cardinality({i \in DOMAIN items : items[i] = id})

(* Every variable has its type; the items are notifications that the manager *)
(* still holds, never ones that the next commit destroys.                    *)
TypeOK ==
  /\ DOMAIN notifications \subseteq Ids /\ notifications \in [DOMAIN notifications -> Content]
  /\ modified \subseteq Ids /\ populated \in BOOLEAN
  /\ items \in Seq(DOMAIN notifications)
  /\ {fallen, misplaced, doubled} \subseteq SUBSET DOMAIN notifications

(* But for what the next report will bring, a populated list has each        *)
(* notification to be shown exactly once and no other.  Only one that a      *)
(* report had listed before the list was populated may be there more often.  *)
UpToDate ==
  populated => \A id \in DOMAIN notifications \ modified :
                 IF id \in doubled THEN notifications[id].shown => id \in ToSet(items)
                 ELSE Occurrences(id) = IF notifications[id].shown THEN 1 ELSE 0

(* Once everything modified has been reported, the list is in the order of   *)
(* the notifications, whichever order they were updated in, but for those    *)
(* placed while another was out of place: one that had fallen and was still  *)
(* to be updated, or one listed twice.                                       *)
Ordered ==
  populated /\ modified = {} =>
    \A i, j \in DOMAIN items :
      i < j /\ {items[i], items[j]} \cap misplaced = {}
        => ~Precedes(items[j], items[i])
=============================================================================
