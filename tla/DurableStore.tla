----------------------------- MODULE DurableStore -----------------------------
(***************************************************************************)
(* What a server that keeps its entries in a database promises of them:    *)
(* what is on disk is always the whole of what it held at one moment, an   *)
(* end of the process loses at most what came after that moment, and a     *)
(* start brings back what is on disk, without what need not last.          *)
(*                                                                         *)
(* Entries and their deadlines are one snapshot.  Calls, timers, ids in    *)
(* use, transactions and identification of clients are not visible here.   *)
(***************************************************************************)
CONSTANTS
  Keys, Values, Times,
  Lasting            \* the values that a start must not drop, unless they have a deadline

VARIABLES
  up,                \* the server runs
  saving,            \* its database is open
  store,             \* what it holds: [rows, expiration]
  disk               \* what is on disk: [rows, expiration]

vars == <<up, saving, store, disk>>

IsPartialMap(f, D, R) == DOMAIN f \subseteq D /\ f \in [DOMAIN f -> R]
IsSnapshot(s) ==
  /\ s = [rows |-> s.rows, expiration |-> s.expiration]
  /\ IsPartialMap(s.rows, Keys, Values) /\ IsPartialMap(s.expiration, Keys, Times)

Nothing == [rows |-> [k \in {} |-> k], expiration |-> [k \in {} |-> k]]

(* f is g without some of its keys. *)
IsPart(f, g) == DOMAIN f \subseteq DOMAIN g /\ \A k \in DOMAIN f : f[k] = g[k]

MustLast(k, s) == k \in DOMAIN s.rows /\ s.rows[k] \in Lasting /\ k \notin DOMAIN s.expiration

(* Entries are added, replaced, closed, or given a deadline. *)
Change ==
  /\ up
  /\ IsSnapshot(store')
  /\ UNCHANGED <<up, saving, disk>>

(* Everything is written at once. *)
Save ==
  /\ up /\ saving
  /\ disk' = store
  /\ UNCHANGED <<up, saving, store>>

(* The server ends, with or without saving what it holds. *)
End ==
  /\ up
  /\ up' = FALSE /\ saving' = FALSE
  /\ store' = Nothing
  /\ disk' = disk \/ (saving /\ disk' = store)

(* It starts and finds the disk as it was left. *)
Recover ==
  /\ ~up
  /\ up' = TRUE /\ saving' = TRUE
  /\ disk' = disk
  /\ IsSnapshot(store')
  /\ IsPart(store'.rows, disk.rows) /\ IsPart(store'.expiration, disk.expiration)
  /\ DOMAIN store'.expiration = DOMAIN disk.expiration \cap DOMAIN store'.rows
  /\ \A k \in Keys : MustLast(k, disk) => k \in DOMAIN store'.rows

(* It starts over an unusable disk: with a new one, or without any. *)
BeginAnew ==
  /\ ~up
  /\ up' = TRUE
  /\ store' = Nothing
  /\ \/ saving' = TRUE /\ disk' = Nothing
     \/ saving' = FALSE /\ disk' = disk

Init == up = FALSE /\ saving = FALSE /\ store = Nothing /\ disk = Nothing

Next == Change \/ Save \/ End \/ Recover \/ BeginAnew

Spec == Init /\ [][Next]_vars
=============================================================================
