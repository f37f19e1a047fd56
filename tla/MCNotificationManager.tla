------------------------ MODULE MCNotificationManager ------------------------
(* Small instances of NotificationManager for model checking. *)
EXTENDS NotificationManager

Plain == [removable |-> TRUE, transient |-> FALSE, timeout |-> 0, priority |-> 0,
          category |-> "im", resident |-> FALSE]
Pinned == [Plain EXCEPT !.removable = FALSE]
Resident == [Plain EXCEPT !.resident = TRUE]
Timed == [Plain EXCEPT !.timeout = 1]
LatePinned == [Pinned EXCEPT !.timeout = 2, !.priority = 1]
Transient == [Plain EXCEPT !.transient = TRUE]

StoreContents == {Timed, LatePinned}
ClientContents == {Plain, Pinned}
TimedContents == {Timed, Resident, Transient}
=============================================================================
