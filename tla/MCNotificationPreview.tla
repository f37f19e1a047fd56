------------------------ MODULE MCNotificationPreview ------------------------
(* Small instances of NotificationPreviewPresenter for model checking. *)
EXTENDS NotificationPreviewPresenter

Message == [restored |-> FALSE, transient |-> FALSE, urgency |-> 1, preview |-> TRUE,
            progress |-> FALSE, displayOn |-> FALSE, public |-> FALSE, feedback |-> "event"]
Toast == [Message EXCEPT !.transient = TRUE, !.urgency = 0]

InUse == [screenLocked |-> FALSE, deviceLock |-> "unlocked", showNotifications |-> TRUE,
          doNotDisturb |-> FALSE, mode |-> "all"]
Locked == [InUse EXCEPT !.screenLocked = TRUE, !.deviceLock = "locked"]
LockedOut == [Locked EXCEPT !.deviceLock = "managerLockout", !.doNotDisturb = TRUE]

BannerContents == {Message, Toast}
LockStates == {InUse, Locked, LockedOut}
=============================================================================
