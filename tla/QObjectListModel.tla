--------------------------- MODULE QObjectListModel ---------------------------
(***************************************************************************)
(* The list of objects under the launchers', the windows' and the          *)
(* notifications' models: a view follows it by the rows it announces, and  *)
(* its owner by the items it says were added and removed.  synchronizeList *)
(* turns it into another list, which may become known piece by piece.      *)
(***************************************************************************)
EXTENDS Naturals, Sequences, FiniteSets, SequencesExt

CONSTANTS
  Objects,
  Lists,             \* the lists of objects that callers pass, without repetitions
  MaxOperations      \* bound on the calls

VARIABLES
  list,              \* _list
  view,              \* the rows of a view that follows the announcements
  told,              \* the items it has said were added, and not removed
  connectedTo,       \* the items whose destruction it hears of
  reference,         \* the list to become
  available,         \* how much of it is known
  phase,             \* of a synchronisation: "idle", "scan" or "returned"
  place,             \* cacheIndex and referenceIndex
  inserted,          \* _inserted
  removed,           \* _removed
  operations

listVars == <<list, view, told, connectedTo, reference, available, phase, place,
              inserted, removed, operations>>

(* What a view does with beginInsertRows, beginRemoveRows, beginMoveRows.  *)
RowsInserted(rows, index, items) ==
  SubSeq(rows, 1, index) \o items \o SubSeq(rows, index + 1, Len(rows))
RowsRemoved(rows, run) ==
  SubSeq(rows, 1, run[1] - 1) \o SubSeq(rows, run[2] + 1, Len(rows))
RowMoved(rows, row, before) ==
  InsertAt(RemoveAt(rows, row), IF before > row THEN before - 1 ELSE before, rows[row])

-----------------------------------------------------------------------------
(* Calls *)

Called == phase = "idle" /\ operations < MaxOperations /\ operations' = operations + 1

AddItems(index, items) ==
  /\ Called
  /\ ToSet(items) \cap ToSet(list) = {}
  /\ list' = SubSeq(list, 1, index) \o items \o SubSeq(list, index + 1, Len(list))
  /\ view' = RowsInserted(view, index, items)
  /\ connectedTo' = connectedTo \cup ToSet(items)
  /\ told' = told \cup ToSet(items)
  /\ UNCHANGED <<reference, available, phase, place, inserted, removed>>

(* The runs of neighbouring rows, the last one first (the only sequence of *)
(* the set), and the view when they went one after the other.              *)
Runs(rows) ==
  LET runs == {run \in rows \X rows :
                 /\ run[1] .. run[2] \subseteq rows /\ run[1] <= run[2]
                 /\ run[1] - 1 \notin rows /\ run[2] + 1 \notin rows}
  IN {s \in [1 .. Cardinality(runs) -> runs] : \A m, n \in DOMAIN s : m < n => s[m][1] > s[n][1]}

ViewWithout(runs) ==
  LET after[n \in 0 .. Len(runs)] ==
        IF n = 0 THEN view ELSE RowsRemoved(after[n - 1], runs[n])
  IN after[Len(runs)]

(* The list without some items (the only sequence of the set): the rows      *)
(* that are left, in their order.                                            *)
Without(items) ==
  LET left == {i \in DOMAIN list : list[i] \notin items}
  IN {[n \in DOMAIN rows |-> list[rows[n]]] :
        rows \in {r \in [1 .. Cardinality(left) -> left] : \A m, n \in DOMAIN r : m < n => r[m] < r[n]}}

Removed(items) ==
  /\ list' \in Without(items)
  /\ \E runs \in Runs({i \in DOMAIN list : list[i] \in items}) : view' = ViewWithout(runs)
  /\ connectedTo' = connectedTo \ items
  /\ told' = told \ items
  /\ UNCHANGED <<reference, available, phase, place, inserted, removed>>

RemoveItems(items) == Called /\ items \cap ToSet(list) # {} /\ Removed(items)

(* An item is destroyed that the model is connected to. *)
RemoveDestroyedItem(item) == Called /\ item \in connectedTo /\ Removed({item})

(* The row in front of which the moved one is announced to go. *)
Destination(oldRow, newRow) == IF newRow > oldRow THEN newRow + 1 ELSE newRow

Move(oldRow, newRow) ==
  /\ Called
  /\ {oldRow, newRow} \subseteq DOMAIN list /\ oldRow # newRow
  /\ list' = InsertAt(RemoveAt(list, oldRow), newRow, list[oldRow])
  /\ view' = RowMoved(view, oldRow, Destination(oldRow, newRow))
  /\ UNCHANGED <<told, connectedTo, reference, available, phase, place, inserted, removed>>

-----------------------------------------------------------------------------
(* synchronizeList *)

(* removeRange and insertRange: i items of the list give way to j of the   *)
(* reference.  What is taken out here and put in there has only moved.     *)
Exchanged(i, j) ==
  LET c == place[1]
      out == SubSeq(list, c + 1, c + i)
      in == SubSeq(reference, place[2] + 1, place[2] + j)
      left == removed \cup (ToSet(out) \ inserted)
  IN [list |-> SubSeq(list, 1, c) \o in \o SubSeq(list, c + i + 1, Len(list)),
      view |-> RowsInserted(RowsRemoved(view, <<c + 1, c + i>>), c, in),
      inserted |-> (inserted \ ToSet(out)) \cup (ToSet(in) \ left),
      removed |-> left \ ToSet(in)]

Exchange(i, j) ==
  /\ list' = Exchanged(i, j).list /\ view' = Exchanged(i, j).view
  /\ inserted' = Exchanged(i, j).inserted /\ removed' = Exchanged(i, j).removed

(* The order in which pairs of an item of the list and one of the          *)
(* reference, i and j places ahead, are compared.                          *)
ComparedBefore(p, q) ==
  LET far(x) == IF x[1] > x[2] THEN x[1] ELSE x[2]
      near(x) == IF x[1] > x[2] THEN x[2] ELSE x[1]
  IN \/ far(p) < far(q)
     \/ far(p) = far(q) /\ near(p) < near(q)
     \/ far(p) = far(q) /\ near(p) = near(q) /\ p[2] > q[2]

Matches ==
  {p \in (0 .. Len(list) - place[1] - 1) \X (0 .. available - place[2] - 1) :
     list[place[1] + p[1] + 1] = reference[place[2] + p[2] + 1]}

(* Mutation: the items that were put in are compared again. *)
PassShort(j) == <<place[1], place[2] + j + 1>>

Pass(j) == <<place[1] + j + 1, place[2] + j + 1>>

(* The items known of another list are passed, one part after the other. *)
Synchronize(wanted, known) ==
  /\ Called
  /\ reference' = wanted /\ available' = known
  /\ phase' = "scan" /\ place' = <<0, 0>>
  /\ UNCHANGED <<list, view, told, connectedTo, inserted, removed>>

(* One round of the loop: the differences up to the first match are        *)
(* resolved; without a match the call returns.                             *)
Scan ==
  /\ phase = "scan" /\ place[1] < Len(list) /\ place[2] < available
  /\ \/ /\ Matches = {}
        /\ phase' = "returned"
        /\ UNCHANGED <<list, view, place, inserted, removed>>
     \/ \E p \in Matches :
          /\ \A q \in Matches \ {p} : ComparedBefore(p, q)
          /\ Exchange(p[1], p[2])
          /\ place' = Pass(p[2])
          /\ UNCHANGED phase
  /\ UNCHANGED <<told, connectedTo, reference, available, operations>>

(* After the loop the rest of the reference goes to the end of a list that *)
(* was passed.                                                             *)
ScanEnds ==
  /\ phase = "scan" /\ (place[1] = Len(list) \/ place[2] = available)
  /\ phase' = "returned"
  /\ IF place[1] = Len(list)
       THEN LET rest == available - place[2] IN
            Exchange(0, rest) /\ place' = <<place[1] + rest, available>>
       ELSE UNCHANGED <<list, view, place, inserted, removed>>
  /\ UNCHANGED <<told, connectedTo, reference, available, operations>>

(* More of the reference is known, and passed with the same indexes. *)
ScanOn(known) ==
  /\ phase = "returned" /\ known > available
  /\ available' = known /\ phase' = "scan"
  /\ UNCHANGED <<list, view, told, connectedTo, reference, place, inserted, removed, operations>>

(* What is left of the list gives way to what is left of the reference. *)
CompleteSynchronizeList == Exchanged(Len(list) - place[1], available - place[2])

(* The end of the call, and what the model says of it.  The items that     *)
(* are put in are not connected, those taken out not disconnected.         *)
Complete ==
  /\ phase = "returned" /\ available = Len(reference)
  /\ LET done == CompleteSynchronizeList IN
     /\ list' = done.list /\ view' = done.view
     /\ told' = (told \cup done.inserted) \ done.removed
  /\ inserted' = {} /\ removed' = {} /\ phase' = "idle" /\ place' = <<0, 0>>
  /\ reference' = <<>> /\ available' = 0
  /\ UNCHANGED <<connectedTo, operations>>

Init ==
  /\ list = <<>> /\ view = <<>> /\ told = {} /\ connectedTo = {}
  /\ reference = <<>> /\ available = 0 /\ phase = "idle" /\ place = <<0, 0>>
  /\ inserted = {} /\ removed = {} /\ operations = 0

Next ==
  \/ \E items \in Lists \ {<<>>} :
       \/ AddItems(Len(list), items)
       \/ \E index \in 0 .. Len(list) : Len(items) = 1 /\ AddItems(index, items)
  \/ \E items \in SUBSET Objects : RemoveItems(items)
  \/ \E item \in Objects : RemoveDestroyedItem(item)
  \/ \E oldRow, newRow \in DOMAIN list : Move(oldRow, newRow)
  \/ \E wanted \in Lists, known \in 0 .. Cardinality(Objects) :
       known <= Len(wanted) /\ Synchronize(wanted, known)
  \/ Scan \/ ScanEnds
  \/ \E known \in DOMAIN reference : ScanOn(known)
  \/ Complete

-----------------------------------------------------------------------------
(* A view that only hears of rows has the model's rows after every range     *)
(* that is announced.                                                        *)
ViewFollows == view = list

(* The items that were said to be added and not removed are those of the     *)
(* list, each said once, also when a synchronisation takes out and puts in.  *)
ToldAgrees == phase = "idle" => told = ToSet(list)

(* However the other list became known, the model has become it in the end.  *)
Synchronized == phase = "returned" /\ phase' = "idle" => list' = reference
=============================================================================
