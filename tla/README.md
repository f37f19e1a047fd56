# A TLA+ verification of lipstick

lipstick is the home screen of a mobile Linux system: a Wayland compositor that
is also the notification server, the launcher, the lock screen's model and the
agent of several system services, all in one Qt process with one event loop
(the exceptions are PulseAudio's thread, the compositor's render thread and the
thread that saves a screenshot).  These modules model its core logic for TLC
and prove the most important safety properties with TLAPS.

The source paths below are relative to `src/src/`.

## Inventory

Almost everything runs in the GUI thread, so an operation (a slot, a D-Bus
method, a timer's handler) is atomic.  What is hard is the order in which the
event loop delivers operations of different origin: timers against signals,
asynchronous answers against notifications, queued single shots against the
calls that made them obsolete, and what a crash leaves behind.

| Component | State | Operations | Interacts with | What makes it correct |
|---|---|---|---|---|
| NotificationManager | hash of notifications, removed ones, id counter, SQLite transaction, three timers | Notify, CloseNotification, display, expire, commit, report, category updates, restore | D-Bus clients identified asynchronously, database, category files, views | the database mirrors the store; deadlines and commits are never lost; clients cannot touch persistent notifications |
| NotificationPreviewPresenter, NotificationFeedbackPlayer | queue, current notification, background timer, window | a notification is added, modified, removed; next one; timeslot over | manager (also re-entrantly), locks, compositor, the QML window, ngf | no stale pointer; the queue never stalls; a transient notification is closed when left |
| NotificationListModel | list of items, populated flag | initialisation, batch update, removal, refresh | manager, QML view | the list agrees with the store and is in order |
| LipstickNotification | hints and texts, progress timer | setHints with change signals, actions | manager, views | signals are emitted exactly for what changed |
| CategoryDefinitionStore, AndroidPriorityStore | parsed definitions in order of use, watched directory and files | directory or file changes, lookup | manager | a definition in memory is that of its file |
| BatteryNotifier, ThermalNotifier | battery, charger and device state, notifications sent, four timers | property changes, evaluation, failed charging, repeated warning | MCE and usb-moded properties, manager | what is shown is true; a low battery is warned about |
| LauncherMonitor | added, modified and removed files, holdback timer | directory and file changes | LauncherModel | no change of a file is lost |
| LauncherModel, LauncherItem, LauncherDBus | items with positions, hidden files, temporary launchers, services, launch timers | files updated, update progress over D-Bus, reorder, category, launch | monitor, D-Bus, configuration file | every file is listed once; temporary launchers go; the order survives |
| LauncherFolderModel | tree of rows, blacklist, save timer, menu file | folders, moves, blacklist, save and load | LauncherModel, file system | every launcher is in one place; the layout survives a restart |
| LauncherWatcherModel | paths, items, watched directories | set paths, directory changes | file system | the rows are the valid files in the given order |
| LipstickCompositor, windows, WindowModel, ProcWindow, PixmapItem | surfaces, windows, topmost window, focus, updates, session, file requests, touches intercepted | surface created, mapped, destroyed; window deleted; calls of MCE, timers, touches | Wayland clients, MCE, logind, scene | model, windows and surfaces agree; updates follow MCE; a request gets one answer; a client sees whole touches |
| LipstickRecorder | recorders with buffers, requests shared with the render thread | record, repaint, render, destroy | render thread and GUI thread (mutex) | a client is told of a frame with the buffer it is in |
| Viewporter, FractionalScale | per-surface objects | create, set, destroy | Wayland clients | no use of a destroyed surface |
| DeviceState, DisplayState, IPC interface | connection counts, last state | connect, get, signals | MCE, DSME, user manager | the latest state wins |
| ScreenLock | lock state, callback, interaction expected | tklock open and close, lock and unlock, idle timer | MCE, touch screen, bindings of the user interface | the lock agrees with MCE once nothing is under way |
| TouchScreen | display state, input policy, blocking timer, event eater | display states, input policy, touch events | MCE | no stray touch; touch is not blocked for ever |
| VolumeControl, PulseAudioControl, PulseAudioPrivateLoop | volume, limits, key states, connection | volume set by user, keys and server; reconnection | PulseAudio (a second thread), MCE, policy | the volume stays within its limits and agrees with the server; a lost connection is restored |
| Bluetooth agents, VpnAgent | pending requests, registrations | requests, answers, adapter changes | BlueZ, ConnMan | each request is answered once |
| USBModeSelector | mode, preparing mode, dialog, notifications | mode, target, event and lock changes | usb-moded, device lock | the dialog and the preparing mode follow usb-moded |
| ShutdownScreen | window, shutdown mode, single shots | system state changes, failed user switch | DSME, user manager | it shows what it is for; after a failure the device comes back |
| HomeApplication, HomeWindow | home ready flag, source, windows, surfaces | set source and compositor, show, hide, frame swapped | compositor, systemd | home is announced once, when shown; a window shows the scene loaded last |
| ScreenshotService | results, writer threads, event descriptors | capture, save, notify, wait | worker threads, QML | each result is reported once; the main thread never blocks for ever |
| ConnectivityMonitor | proxies, active services | answers and signals of ConnMan | ConnMan | the active services are ConnMan's |
| QObjectListModel, synchronizeList | list of objects, a synchronisation's place | insert, remove, move, synchronise | list models, views | the list becomes the other one by the steps announced |

Settings wrappers, logging, the QML plugin, tools, translations and tests keep
no state that changes in steps.

## Modules

### NotificationManager

The state corresponds to the members of the class (`notifications/notificationmanager.h:489-522`):
`notifications`, `removed`, `previousId`, `committed`, `commitTimer`,
`nextExpiration`, `expirationTimer`, `modified`, `modificationTimer`.  A timer is
a Boolean (active or not) and fires at any time once active; the expiration
timer is a coarse one whose interval is clamped to an `int`, so it may fire
early, and `expire` copes with that.  The database is three things: `rows` and
`expiration`, the tables as the connection sees them inside its transaction, and
`durable`, the tables on disk.  `Crash` throws the former away, `Quit` commits
them as the destructor does.

A notification is the record `Content`: the hints the manager decides on.  The
time-out 0 stands for both -1 and 0.  Texts, icons and the D-Bus types of hints
are left out, so are the per-notification action and hint tables, which are
written and deleted together with the row they belong to.

| Action | Code (`notifications/notificationmanager.cpp`) |
|---|---|
| `SendCall`, `IdentifiedCall` | `Notify` and `CloseNotification` over D-Bus: the `ClientIdentifier` asks for the sender's process and the handlers run when the answer arrives, in any order between clients; a failed lookup leaves the client without privileges |
| `InternalNotify`, `InternalCloseNotification` | the same methods called within the process, which need no identification |
| `MarkNotificationDisplayed`, `Expire` | `markNotificationDisplayed`, `expire` |
| `Commit`, `ReportModifications` | the handlers of the commit and the modification timer |
| `UserGesture`, `HandleGesture` | `actionInvoked` and `removeRequested`, connected with `Qt::QueuedConnection`, and `invokeAction`, `removeNotificationIfUserRemovable` |
| `RemoveUserRemovableNotifications`, `RemoveNotificationsWithCategory`, `UpdateNotificationsWithCategory` | the slots of the same names |
| `Start`, `Quit`, `Crash` | constructor with `restoreNotifications`/`fetchData`, destructor, and the process being killed |
| `Tick` | the wall clock, which only advances here |

`CloseNotifications`, `Publish`, `ExecSQL` and `ScheduleExpiration` are the
helpers of the code that several handlers share.  `ExecSQL` returns at once when
the database is closed, before it touches the commit timer, as the code does.
`displayed` is a history variable for the liveness property only.

Not modelled: a schema whose tables are recreated one by one (the model has all
tables intact, recreated or closed), the reader instance that `lipstickapi`
creates with `owner = false`, and a wall clock that is set back.

### NotificationPreviewPresenter

The queue, the current notification, whether it only sounds, the timer of its
timeslot, the window's visibility, the keys of the feedback player's hash and
the number of single shots of `showNextNotification` that are pending because
there is no compositor.  `ShowNext` is `showNextNotification` with its recursion
over notifications that are neither shown nor heard unrolled; it contains the
re-entrant call chain `setCurrentNotification` -> `markNotificationDisplayed` ->
`removeNotification` for a transient notification (`LeftTransient`).
`Publish` and `RemoveNotification` are the manager's signals.  `BannerHidden`
(the QML of the window), `CreateCompositor` and `ChangeSituation` (locks,
do-not-disturb, notification mode of the topmost window) are the environment.

### DurableStore

The abstract specification of what the manager promises of its entries: what is
on disk is always one whole snapshot of what was held at one moment; an end of
the process loses at most what came after it; a start brings back what is on
disk, and may drop only what need not last (transient notifications, and those
culled because there are too many) or what has a deadline.  `ImplementsDurableStore` in
`NotificationManager` is its specification under the refinement mapping
`store <- [rows |-> ContentOf(notifications), expiration |-> expiration]`,
`disk <- durable`: transactions, timers, ids in use, calls and identification
are hidden.  It is checked as a property of run NotificationStore and proved
(`DurableStoreIsImplemented`).

### NotificationListModel

The list as a sequence of ids and the manager's pending batch `modified`.  The
position of a notification is derived from `rank` (priority and internal
timestamp) and its id as `operator<` does; a notification published again may get
any rank.  A batch is applied in every order, since it comes from a `QSet`;
`UpdatedInTurn` is the list after one of them.  `Populate` is `init`, which a
single shot of the constructor calls, and `refreshModel`; reports may be handled
before it.  Three history variables hold the notifications that the code gets
wrong: `fallen` ones lost rank since they were placed, `misplaced` ones were given
a place while others were out of place, `doubled` ones had been listed by a
report before the list was populated, and are in it twice.

### CategoryDefinitionStore

`files` is the directory, each file a version and whether it can be used;
`listChanged` and `fileChanged` are what the `QFileSystemWatcher` has noticed,
`watched`, `knownFiles`, `definitions` and `usage` the members of the class.
`WriteFile` and `DeleteFile` are the environment,
`UpdateCategoryDefinitionFileList` and `UpdateCategoryDefinitionFile` the two slots of
the watcher's signals, `Ask` a lookup with the load and the maximum.  A file that
is removed loses its watch, but the watcher lists it until it has told of that
(`ended`), so that it cannot be added again before.  `overlooked` is a history
variable: definitions whose file changed while nothing watched it.

### LauncherMonitor and LauncherModel

`LauncherMonitor` is the directory with `QFileSystemWatcher`, whose two signals
are merged while they are on their way, and the monitor's `known`, `added`,
`modified`, `removed` and holdback timer.  `LauncherModel` extends it:
`HoldbackTimeout` hands the burst over and contains all of
`onFilesUpdated` (removed, added and modified files, the search for temporary
launchers, and the reordering and saving at its end).  An item is a record of
its path, the content that was read (`seen`), and the flags of `LauncherItem`;
`temps` holds the items `m_temporaryLaunchers` points to, `hidden` the hidden
launchers (a list, so counted), `saved` the configured positions and
`savedWatched`/`savedPending` the watcher of their file.  `UpdatingStarted`,
`UpdatingProgress` and `UpdatingFinished` are the D-Bus methods of
`LauncherDBus`; `ServiceVanishes` is the D-Bus watcher; `removals` counts the
single shots of `removeTemporaryLaunchers`.  `LaunchApplication`,
`NotifyLaunching` and `LaunchingTimeout` are the launching state with its
failsafe timer.  `Restart` builds everything anew from the directory and the
saved positions.

A path is a number, in listing order; `Guesses` are paths that are only derived
from a package's name.  `missed` is a history variable: files whose change the
watcher cannot see (see Departures), among them those that are gone from the
listing without a removal that is reported; `claimed` marks files known already
when an installation claimed them.  `PackageAssumption` says what installations
are like: a package is announced with one desktop file, which is no other
package's, and the file that is guessed from its name is that one or does not
exist.  A file that two packages claim would have two names for one launcher.

### LauncherFolderModel

`tree` is the rows (launchers and folders, one level of folders), `blacklist`
the launchers held back with the position each had, `saveTimer` the delayed
save, and `disk` the menu file.  `AppAdded`, `AppInstalled` and `AppRemoved` are
the signals of the launchers' model, `BlacklistChanges` is `setBlacklistedApplications` with
everything it moves, `Save` and `Restart` write and load the menu, `EndsWhileSaving`
is a process that ends within the write.  `undo` is a history variable: the tree
before the last blacklisting, as long as nothing else changed.

### LauncherWatcherModel

`filePaths` and `items` are the members, `watched` the watched directories,
`ended` those that were removed but are still listed by the watcher, and
`pending` those with a `directoryChanged` on its way.  `setFilePaths` is two
steps, `SetFilePaths` up to the list and `WatchDirectories` from there, since
installers change files while it runs; the event loop does not (`listing`).
`SetFilePaths` and `DirectoryChanged` both run `UpdateItems`, one pass over the
paths that moves, inserts and drops rows.  `FileChanges` and `FolderChanges` are
the file system: a directory that does not exist is not watched, and one that
is removed is not watched any more.  `overlooked` is a history variable: files
that came or went unwatched since the list was made last.  `Requests` are the
lists of paths that are set; `Directory` and `Invalid` say where a path is and
whether a launcher can be made of it.

### TouchScreen, ScreenLock and InteractionExpected

MCE is external: `mceRunning`, `mceDisplay`, `mceInput`, `mceLocked`.  What it
sends (signals, answers, method calls) reaches the main thread in order in
`events`, calls go to it in `calls`.  `TouchScreen` has `currentDisplayState`,
`inputEnabled`, `touchBlockedState` with its 100 ms timer and the flags of the
event eater; `finger` says what became of the begin of the touch that is under
way: let through, eaten, or missed because touch was blocked.  `ScreenLock` extends it with `tklock_open`, `tklock_close`
(which only post their effect behind what is queued), the user's `lockScreen`
and `unlockScreen`, and the callback.  `InteractionExpected` is the property of
the same name with its idle timer.

### ShutdownScreen, HomeApplication and USBModeSelector

`ShutdownScreen`: window and mode, the number of 10 second single shots pending
(`hideTimers`), and the user manager, which `DeviceState` hears only while it
follows its service.  Two orders are taken from the services: shutdown is
indicated before reboot, and a switch fails after it was announced.
`HomeApplication`: source and compositor path, the main window with its surface
and scene, the `frameSwapped` connections, which are never taken back, and the home
ready signal, which a flag keeps from being sent again.
`USBModeSelector`: usb-moded's mode and target, the dialog, the preparing mode,
the notification and the first look at the state 500 ms after the start.  Its
events act on the dialog whatever the mode is; `requestStands` is a history
variable: a mode was requested, and neither a look at the mode nor the end of
the dialog has come since.

### LipstickCompositor

Surfaces and windows by id: a surface that is created gets a window, and its role
when the client gives it one (`SetCursor`, `OnPopupCreated`); mapping lists the
window and emits, unmapping and destruction take it out; a window is deleted by
the event loop after `deleteLater()` (`WindowDestroyed`), at any time.  A surface
made a popup takes the window it has, also one that is about to be deleted.
`PopupDestroyed` is the lambda of `onPopupCreated`, which runs when the popup
ends, maybe after its surface and its window: the call then goes to freed memory,
that is to no window or to one that was made later.  Also the window model with its filter
(`listed`, `complete`), the topmost window with its process, and a
`WindowPixmapItem` (`pixmap`, `watched`).  `MapProcWindow` and `Hide` are windows
of the process itself.

### CompositorUpdates

`setUpdatesEnabled` and `setAmbientUpdatesEnabled` over D-Bus: `bus` is what the
bus delivers in order (calls, the answer about the owner of MCE's name, changes
of owner), `queue` the calls kept until the owner is known, `processing` the
queued invocation that works them off.  `Enable` and `Disable` are the effects on
the home window's visibility and the focus, `Switch` and `Wakeup` the
timed ends of ambient updates, `Raise` and `WindowGone` what the scene does to
the windows.  `SceneSetsAmbientUpdates` is the call within the process.

### LogindSession, FileService and TouchInterception

`LogindSession`: the activation of the session with its tries and its timer.
`FileService`: the D-Bus calls queued under an id, the answer of the scene and
the timeout, whichever comes first; ids wrap.  `TouchInterception`: several
fingers (`grabber`, where Qt sends each) on several windows of clients.  A window
installs itself as a filter when a touch begins on it, in front of those before
(`later`).  `Move` goes to the foremost filter with all fingers there are;
`Press`, `Release` and `Cancel` go to the windows that the fingers are on, as Qt
distributes them; a window that is hidden or disabled (`TouchableChanged`) gives
up its filter and cancels the touch at its client.  `seen` is what the clients
know of: the fingers each saw go down and not up.  The histories `stray`, `mixed`
and `left` name what the code gets wrong once fingers are on different places.
Each window has a client of its own; two windows of one client, which are one
touch to it, are not modelled, nor are mouse events, `touchEventsEnabled`, a window
that changes its scene, and `LIPSTICK_NO_TOUCH_INTERCEPTION`.

### LipstickRecorder

`requests` is `m_requests`, which main and render thread share under a mutex.
`record_frame` is two steps of the main thread, `RecordFrameRequest`, which sets
the buffers without the lock, and `RequestFrame`, which waits for the lock
(`asking`) and adds the request.  `Render` takes the lock with all requests
there are (`recording`), and `RecordFrame` is one recorder of the loop of
`recordFrame()`, so that the main thread can change a recorder's buffer between
two of them.  `HandleEvent` is an event posted to a recorder.  A window that is
hidden (`exposed`) is not rendered.  Clients may ask again before an answer,
destroy a buffer, or give one that is too small or not in shared memory; `loose` is
a history variable: recorders with such requests, until nothing is left of them.

### ScreenshotService

Each result with its writer thread, the event descriptor the writer leaves its
status in, and the notifier, which the event loop polls (`Poll`) and activates
later (`NotifierActivated`); `WaitForFinished` blocks the main thread until the
descriptor is readable (`Woken`).

### BatteryNotifier

`current` is the collected state, `previous` the conditions that held at the
last evaluation.  `Report` is any change of a property with the handler's own
derivations, `EvaluateState` the comparison of conditions, each an edge that
sends, removes or replaces notifications; `OnChargingFailureTimeout` and
`OnBatteryLowTimeout` are the two timers, `OnNotificationClosed` the user.

### ConnectivityMonitor

`messages` is what ConnMan has sent and the monitor not yet handled, in order:
the answer to `GetServices`, services that appear and go, changes of a
service's state, which reach the monitor only once it has a proxy.  `missed` is
a history variable for changes that nobody was subscribed to.

### QObjectListModel

`list` with `view`, a view that follows the announced rows, and `told`, the
items said to be added and not removed.  `Synchronize`, `Scan` (one
item), `ScanOn` and `CompleteSynchronizeList` are `synchronizeList`, which may be
called again with more of the reference (`available`) and keeps its place.

### PulseAudioPrivateLoop and VolumeControl

`PulseAudioPrivateLoop` is the object of the same name, which runs in a thread of
its own: its context (null, connecting, ready or failed), the attempt to connect
again, the subscription and the last volume.  Requests and answers travel in
order over one connection, which an outage of the server empties.  The server
reports a volume on its cubic scale while `setVolume` gives it a linear factor:
`Loudness` is that conversion, with both ends fixed.  `VolumeControl` extends it
with the main thread's side: `SetVolume` (the user interface), `VolumeChanged`
(the queued signal) and the hardware keys, which act only while the resource
policy and MCE both permit it.  Since `setVolume` of the loop is called by the
main thread without a lock, it is two steps, `StoreVolume` and `SendVolume`.

`highVolume`, `longListeningTime` and `callActiveChanged` of `PulseAudioControl`
are declared and connected but never emitted; the safe volume is therefore
always 0, and what depends on it is not modelled.  Neither are stream roles,
mute, and the window.

### MC modules

`MCNotificationManager`, `MCNotificationPreview`, `MCVolume` and `MCLauncher`
extend the component's module with the sets of contents and situations.
`MCScreen`, `MCCompositor`, `MCModels` and `MCServices` put components that share
no state side by side: each behaviour is a behaviour of one `part`, the others stay
in their initial state.  One run then checks several components; nothing is said
of their interleaving, of which the code has none.  Components that do interact
are composed in their modules: `LauncherModel` extends `LauncherMonitor`, `ScreenLock`
extends `TouchScreen`, `VolumeControl` extends `PulseAudioPrivateLoop`.

## Runs

| Run | Checks | Result |
|---|---|---|
| NotificationStore | `TypeOK`, `StoreMirrored`, `ExpirationsOwned`, `ExpirationArmed`, `CommitScheduled`, `ImplementsDurableStore`: store, database and timers through every outcome of opening the database, crashes and restarts | hold |
| NotificationClients | `PersistentProtected`, `OthersUntouched`: what a D-Bus call may change | hold |
| NotificationLiveness | `DisplayedEventuallyCloses`, `PutOffWorkDone`: the timers do their work | hold |
| NotificationPreview | `QueueAlive`, `TransientClosed`, `QueueServed`: no stale pointer, no stalled queue | hold |
| Volume | `LoopConsistent`, `KeysReleased`, `Restored`: volumes crossing each other, two outages | hold |
| VolumeLimits | `VolumeWithinLimits` | violated |
| Launcher | `ListConsistent`, `SettledIsCurrent`, `OrderSurvives`, `BusyEnds`: file changes against installations | hold |
| Models | `LayoutKept`, `InStep`, `ListedInOrder`, `Synchronized`, `DefinitionsFresh`, `FollowsConnMan`: one for each model or list | hold |
| Screen | `LockAgrees`, `TouchFollows`, `ShutdownShown`, `HomeAnnounced`, `ModeShown`: the parts around the display | hold |
| Compositor | `WindowsAgree`, `UpdatesFollowMce`, `NoLateFocus`: windows; updates | hold |
| Services | `RequestsAnswered`, `FramesArrive`, `ShotsReported`, `TouchesWhole`, `BatteryShown`, `FailureReported`: smaller parts | hold |
| RecorderCancelled | `CancelledOldBuffer` | violated |

A property named in a run is often the conjunction of named parts that a
component needs together; each part has a comment of its own in its module.

Deadlock is not checked: with the bounds on time, restarts, retries, calls and
changes the models come to an end where the program would go on waiting.

### Bounds

*Store*: two ids, so that the id counter wraps, one id can be reused while the
other is in use, and culling (`MaxRestore = 1`) has a choice; contents that differ
in every hint used by the handlers enabled in the run; the clock reaches 2, so
that two deadlines of different length can overtake each other; one restart,
after which every table content of the first life has been found by the second.
The invariants are proved for all values.  *Clients*: one privileged and one
unprivileged client with one outstanding call each, so that any two calls and a
category update interleave.  *Liveness*: one id, since the properties speak of
one notification at a time, with the identity of the id reused.  *Preview*:
three notifications (one current, two queued) of two kinds, an unlocked, a
locked and a locked out device, two pending single shots.  *Volume*: four levels
(both ends, which read back unchanged, a level that reads back as another one,
and that one), two changes, which can cross in both directions, and two outages,
the second of which finds a connection that has been restored once.
*Launcher*: two files and a guessed path, two packages of one service, one of
which is announced with or without its desktop file; two changes of the directory
within or across a burst and two calls.  The hazards are about
pairs of them: two changes of one file, a change and an installation, two installations.  *Models*: three launchers, one folder and five
steps (move, blacklist two, take one away, save, restart); four paths in two
directories which come and go, and five changes; three notifications of two ranks, and three
publications, the smallest case in which one can
be placed next to another one that is out of place; all lists of up to three
objects; three categories of which two may be stored, and two files written, so
that one can change before and after its watch is lost; three services of two
types.  *Screen*: two changes of MCE and two requests of the user, so that each
can be under way when the other is made; five indications of DSME and the user
manager; eight steps of the start; four changes of USB.  *Compositor*: two
surfaces, three windows ever made (a popup's, which is deleted, the one its
surface gets instead, and another surface's or the process's, which the late call
of a popup can hit), two instances of MCE and five steps.  *Services*: three
ids of file requests, of which two can be in use and the counter wraps; ten tries of the
session, as in the code; two recorders with two requests, of one recorder or of
two, and three buffers, one of them too small and one not in shared memory
(RecorderCancelled: two buffers, four requests and three events); three
screenshots; two windows, two fingers, so that both can be on one window or on two,
and four changes of the windows; four battery levels and four reports.

### Fairness

Weak fairness is assumed of what the program's own event loop, its threads and
timers do: timers' handlers (`Expire`, `Commit`, `ReportModifications`,
`BackgroundTimeout`, `Retry`, `Reconnect`, the holdback, removal and launching
timers, the timers of the touch screen, shutdown screen, session, file service
and battery), queued events (`HandleEvent`, `VolumeChanged`, `Deliver`, `Woken`,
`NotifierActivated`, `Deleted`), the PulseAudio, render and writer threads.  Of
the environment: time passes (`Tick`); the service is started again (`Start`);
the audio server is started again (`ServerStarts`) and answers; logind answers;
a window shown renders frames; the home screen comes up and its user
interface hides a banner after a while.  Nothing is assumed of clients, users,
files, MCE, DSME, installers or ConnMan.  In the composed modules a timer's
fairness is stated over its variable (`WF_unblockTimer(unblockTimer /\
unblockTimer' = FALSE)`): the only steps of that form are the timer's own
handler and those that stop it.

The commit timer is restarted by each statement, so a commit is promised only
once notifications stop changing: `QuietThenDurable` and `QuietThenDestroyed` say
exactly that.

## Departures

Where the program departs from its own documentation:

* Run VolumeLimits: `setVolume` compares the bounded volume but stores and sends
  the unbounded one.
* Run RecorderCancelled: when a frame is requested before the last was recorded,
  the cancelled event carries the new buffer; the protocol says the old one.

Others were met while modelling.  Where a history variable is named, the runs
meet the case, and the variable marks what the property then says nothing of.
Where a constant is named, the case is within reach of the modules.  A guard
excludes the others from the runs, and is named here or commented in its module.

*Notifications.*  A category update deletes the expiration time of a
notification that was displayed, and it is never given one again
(`CategoryEvents` with `DisplayedEventuallyCloses`).  The timer of a notification that only sounds is not
stopped when it is removed, and ends the next banner.  Each publication before the compositor exists leaves a single shot, and
the second one ends the banner the first has shown.  A place in the list is
looked for from the front, among items of which some may be out of place:
notifications whose rank falls leave others of the same batch misplaced
(`misplaced`); a report handled before the list model's queued `init` lists
notifications twice (`doubled`).  With a closed
database (`DatabaseOutcomes = {"closed"}`) `execSQL` returns before it starts the
commit timer: removed notifications are never destroyed, displayed ones never
expire.  `LipstickNotification::restartProgressTimer` emits `userRemovableChanged` on an
inverted condition (`lipsticknotification.cpp:485`).  Category definitions: loading without
access exceeds the maximum; a file that is rewritten and unusable keeps its old
definition; a file that is loaded and changes before it is watched, or that is
removed and created again and changes while its watch is lost, keeps its old
definition (`overlooked`).

*Volume.*  A lost connection to PulseAudio is never restored once a repeated
attempt has failed; a report queued before the user's own change overwrites it in the view.

*Launcher.*  A file that is removed and created again within the holdback, or written
after its watch ended, is missed (`missed`).  A hidden application that an
installation makes visible is removed with the temporary launcher.  The
search for a temporary launcher to replace can label an unrelated application.  A
package announced with and without its desktop file within three seconds leaves
a temporary launcher behind (guard in `UpdatingStarted`).
`setCategories` right after the start duplicates hidden launchers, and
right after the unreported deletion of a file it forgets that deletion, so that
its launcher stays (`missed`).  A launcher that is permanent and was being
updated when the process ended is shown as updating for ever if only progress is
reported after the restart; `SomeoneUpdates` speaks of temporary ones.  A report of progress alone can show a finished
temporary launcher, found by the guess from the package's name, as being updated;
nobody is known then to end that (`SomeoneUpdates`).  *Folders.*
A blacklisted application that is reinstalled is shown, and saved twice
(`Reinstalls`); a folder without `.directory` file while applications are
blacklisted confuses positions (`PlainFolders`); taking only some
applications from the blacklist, or restarting while several are on it, loses their
positions; a crash while the menu is saved truncates it (`EndsWhileSaving`).

*Launchers of given files.*  A file that is created between the listing and the
watch of its directory (`components/launcherwatchermodel.cpp:46`, `:54`), or in a
directory that did not exist then, is not shown until another change
(`overlooked`).

*Screen.*  The event eater that `tklock_open` posts may be set after the display
is on again; nobody under `src/` installs the touch screen's event filter.  The
event eater takes one event: when that begins a touch, the window gets the rest of
it (`touchscreen/touchscreen.cpp:212-220`).  Home is announced once by its flag
alone: the connection made by name (`homeapplication.cpp:413`) is not undone by the
`disconnect` with a member pointer (`:270`).  USB events open and close the
dialog in any mode.
`Reboot` and a failed user switch dereference a window that may not exist
(guards); a visible shutdown window keeps its old mode; a 10 second single shot can hide a
shutdown that was shown meanwhile.  A compositor path that fails cannot be set again;
the home ready flag is set before the compositor is asked for.

*Compositor.*  A surface that is unmapped and mapped again is not listed again;
`m_windowClosed` is never set, so windows of the process are never deleted;
a surface that is made a popup again before its old window is deleted takes that
window, and loses it (`doomed`); the end of a popup calls `deleteLater()` on a
window that may be gone, if the surface ended first
(`compositor/lipstickcompositor.cpp:268`), and that call may reach another
popup's window; a surface that was mapped before it became a cursor stays mapped
without content; a pixmap item is cleared by the end of a window that
it showed earlier.  `setAmbientUpdatesEnabled` loses its ambient flag in the queue;
after an ambient update within the process a plain disable does not hide the
window; `m_ambientModeEnabled` is read before it is initialised
(`CompositorUpdates` starts with either value).  *Touches.*  With fingers on different windows, the moves of all of them go to the
client of the window touched last, which has not seen the others go down, and to
no other (`stray`, `mixed`); a window that is hidden then does not cancel its
touch at its client, unless the last event was for it (`left`).  *Recorder.*
A request for a buffer that is too small is kept and
fails again with each frame; a second request before the
answer writes the buffer without the lock (`compositor/lipstickrecorder.cpp:194-222`),
so that the frame of the first can be in the old buffer and be told with the new
one, and the second gets an event with a null buffer; a buffer
that its client destroys is written all the same (`loose`).  *Screenshots.*  `waitForFinished()` after the status was read blocks
for ever (guard in `WaitForFinished`), and emits no signal.

*Battery.*  A wall charger swapped for a PC within one evaluation shows both
"disconnect charger" and "charging", despite the comment at
`notifications/batterynotifier.cpp:383`; an unknown USB mode suppresses charging
notifications.  *Connectivity.*  A service that changes between ConnMan's answer
and the subscription is missed (`missed`); an error is never retried, a restart of ConnMan not noticed.
*Lists.*  A synchronised insertion is not connected to the object's
destruction; a move to the same row would announce an invalid move (guard in `Move`).

## Proofs

The theorems hold for all values of the constants that satisfy the `ASSUME` of
the module; what a theorem assumes beyond that stands in its own `ASSUME` and
below.  `MC...Proofs` modules extend the MC module, so that a theorem is about
the specification that its run checks.

| Theorem | Module | Statement |
|---|---|---|
| `InvariantHolds` | NotificationManagerProofs | `Spec => []IInv` |
| `TypeCorrect`, `StoreIsMirrored`, `ExpirationsAreOwned`, `ExpirationIsArmed`, `CommitIsScheduled` | | the invariants of run NotificationStore |
| `PersistentIsProtected`, `OthersAreUntouched` | | the step properties of NotificationClients |
| `DurableStoreIsImplemented` | | `Spec => ImplementsDurableStore` |
| `QueueIsAlive`, `LeftTransientIsClosed` | NotificationPreviewProofs | `QueueAlive`, `TransientClosed` |
| `KeysAreReleased`, `LoopIsConsistent` | VolumeControlProofs | `KeysReleased`; `LoopConsistent` if `UserVolumes \subseteq Levels` |
| `LockScreenAgrees`, `UsbModeIsShown` | MCScreenProofs | `LockAgrees`, `ModeShown` |
| `TouchIsSafe`, `AppearsAsMeant`, `HomeIsAnnouncedOnce` | | the safety parts of `TouchFollows`, `ShutdownShown`, `HomeAnnounced` |
| `WindowsKeepAgreeing`, `UpdatesAreMces`, `FocusComesBackAtOnce` | MCCompositorProofs | `WindowsAgree`, `UpdatesFollowMce`, `NoLateFocus` |
| `RowsAreInStep`, `ConnManIsFollowed` | MCModelsProofs | `InStep`, `FollowsConnMan` |
| `DefinitionsAreFresh`, `NotificationsAreListed` | | `DefinitionsFresh`, `ListedInOrder` |
| `ListIsSynchronized` | | `Synchronized`, of `ListBecomesReference` (its step part), `OwnerKnowsItems` and `ViewHasTheRows` |
| `ListStaysConsistent`, `SettledListIsCurrent`, `OrderOutlivesTheProcess` | LauncherProofs | `ListConsistent`, `SettledIsCurrent`, `OrderSurvives` |
| `TouchesAreWhole`, `BatteryIsShown` | MCServicesProofs | `TouchesWhole`, `BatteryShown` |
| `CallersAnsweredOnce`, `FramesAreTrue`, `ShotsAreTrue` | | the safety parts of `RequestsAnswered`, `FramesArrive`, `ShotsReported` |

Two assumptions are about data: the lists given to a model of objects hold each
object once (`ModelsAssumption`), as the code takes for granted, which finds an
item by the first place it is at; and a file that is not there is no desktop
entry (`ValidAssumption`).

The hypothesis `UserVolumes \subseteq Levels` excludes something that the code
does let happen and that the property does not survive: run VolumeLimits shows it.
What the other properties do not survive happens in the runs and in the theorems'
behaviours; a history variable exempts the items it concerns (`loose`, `misplaced`,
`doubled`, `overlooked`, `doomed`, `mixed`, `missed`, `claimed`), so a
theorem says that nothing else goes wrong.  `SettledListIsCurrent` is therefore
silent about the files in `missed` and `claimed`, which are some of those that are
removed and created again, or written, while nobody watches, and those that an
installation took over.

### The notification manager

The properties are not inductive by themselves.  `StoreMirrored` and
`ExpirationsOwned` need each other (the rows and the expiration times of exactly
the notifications in the store are deleted), a restart needs both of what is on
disk, which `CommitScheduled` carries over from the last commit, and all need the
tables to be maps of the right type.  The inductive invariant is

    IInv == DbInv /\ ServerTypeOK /\ TimerInv /\ StoppedIsQuiet

with `DbInv` (`StoreTypeOK`, `DatabaseTypeOK`, `StoreMirrored`,
`ExpirationsOwned`, `CommitScheduled`), `TimerInv` (`ExpirationArmed` and
`TimerMatchesNext`: the timer runs exactly while a next time is set, without
which the comparison in `markNotificationDisplayed` could skip a stopped timer)
and `StoppedIsQuiet` (no gesture is queued while the process is down, so that
those found after a restart are for notifications of the new store).
The proof is one lemma per action and conjunct.  `OthersUntouched` rests on
`IsNextAvailable` choosing a free id, whatever the counter's value.

The refinement rests on the same invariant: a step of the manager is a step of
`DurableStore` because the mapped store is a snapshot (types and
`ExpirationsOwned`), what a commit or a quit writes is the whole store
(`StoreMirrored`), and what a restart culls is not lasting.

### Two sides and what is on its way

Where two processes or threads must agree once nothing is under way, the
invariant says what each message under way will do:

* *Volume* (`LoopInv`): the last answer under way is the server's volume or says
  that it has changed (`LastAnswer`); with no answer and no question under way the
  volumes agree, or the last one is on its way to the server (`QuietAgrees`).
* *Screen lock* (`LockInv`): the last effective event under way, or the deferred
  slot, leaves the lock as MCE has it (`EffectInv`); for the display and the input
  policy the last report or the answer to a query does (`ReportInv`), and touch is
  blocked exactly while input is disabled or the timer runs (`TouchInv`).
* *Updates* (`UpdatesInv`): what is on the bus makes MCE's owner known, and the
  last of its calls on the bus or in the queue, or else the state itself, is what
  the running MCE asked for last (`MceFollowed`).
* *ConnMan* (`Planned`): there is a plan, one pair of sets (proxied, active) before
  each message under way, that begins with what is, ends with what ConnMan has,
  and that handling the next message follows.
* *Categories* (`StoreInv`): a definition in memory that is out of date has a
  signal under way, or was overlooked.
* *Recorder* (`Idle`, `Asked`, `Requested`, `Rendered`), *screenshots* (`ShotInv`):
  which combinations of the two threads' states there are; a recorder that is
  loose has the right types only.
* *Touches* (`OnePlace`): as long as fingers are not on different places, only the
  window they are on filters, and it has the seat's focus, so that hiding it
  cancels the touch.

### Lists

* *Banners*: `QueueAlive` is inductive as it stands; a lemma on taking out of the
  queue carries the re-entrant removal.
* *Windows* (`WindowInv`): types, views that show living surfaces and each only
  once (`ViewsInv`), the model that lists the mapped windows once (`ListInv`), the
  topmost window and the pixmap (`SceneInv`).
* *Watcher* (`WatcherInv`): the pass over the paths keeps `Through`: after *n*
  paths the rows in place are the valid ones among them in order, and no row
  behind them is invalid.  With no change on its way the rows are those for the files that
  were `Seen`: what there is, but for what was overlooked.
* *synchronizeList* (`ListInv`): before both indexes the lists are the same.
* *What its owner was told* (`ToldInv`): in the middle of a synchronisation an item
  `Stands` in one of three ways: put in, and only known to the owner if its old
  place is still to come; taken out, and still known; or neither, and known
  exactly if it is in the list once.  That decides for each item what
  `insertRange` and `removeRange` do with `_inserted` and `_removed`, and at the
  end, when no old place is to come, what is announced.
* *Its view* (`ViewInv`): what is left of a list is `Listed` when an increasing
  enumeration of the rows that stay leads to it (`Counts`); there is only one
  (`OneOrder`), so that taking out run by run from the end and filtering the list
  give the same.  Moves and exchanges of ranges are compared place by place.
* *Notifications* (`EventsInv`): the list is `Settled` for every notification that
  is not modified: it has it exactly if it is to be shown, and all that leads it
  in the list is above it.  Nothing is said of modified and misplaced ones, which may be
  anywhere, so that the invariant survives publication; updating an id adds it to
  the settled ones (`UpdatedSettles`), in any order, if the whole list is updated
  or nothing but the first of the batch is out of place.

### The launcher

`ListConsistent` is not inductive: an installation picks the launcher it changes
by its file, its guessed file, its package or its being temporary, and that this
is one and the same launcher has to be known.  The invariant is

    LauncherInv == TypeOK /\ Core(list, temps, services, removals)

where `Core` says of a list: ids and paths differ (`Differ`), the temporary
launchers are those in `temps`; `Owned`: a temporary launcher is at a path of one
package and bears that package's name or none, a package has one temporary
launcher at its paths at most, its name is borne by another launcher only
when that one is permanent and the temporary one nameless at a guess without
file, and permanent launchers have files that can exist; `Served`: a temporary
launcher with a name has a service, one without is shown as updating only at a
guess; `Due`: a removal is under way for those that have finished.

* *Batches of files.*  What a batch leaves `Stems` from the list before: each
  launcher is one of it, perhaps permanent now, or is new and permanent, with the
  path of a file (`From`).  `Owned`, `Served` and `Due` survive that
  (`CoreStems`), so that the three passes only have to keep `Good`.
* *Reordering.*  `Placed` makes moves, each of which is a permutation
  (`MovePermutes`), and `Core` does not speak of places (`CorePermuted`).  That
  the place it looks for exists is what distinct ids are needed for.
* *Installations.*  `updatingStarted` adds a launcher, claims a temporary one,
  names a permanent one, or does that and removes the temporary one it
  supersedes (`StartedAnew`, `StartedClaimed`, `StartedNamed`,
  `StartedSuperseding`); `LeftAtGuess` says where a nameless one may remain.
* *A service that vanishes* ends its installations in any order; after each of
  them no temporary launcher bears the name of a package whose end was
  fabricated (`AllFinishedKeeps`), so that their services can be
  forgotten (`UnservedKeeps`).

`SettledIsCurrent` needs to know of every file what became of it (`CurrentInv`).

* *The monitor* (`Tracked`): what it watches, has collected and told the model.  A
  file that is collected as removed is collected as nothing else, and what
  the model was told of is known, collected as removed, or among those that went
  while the monitor could not see it (`missed`).
* *The list* (`Followed`): a file the model was told of has no temporary launcher,
  another no permanent one, and one without news under way shows what it says;
  but for files that an installation claimed.
* Each operation on the list is described by what it leaves at one path
  (`Follows`), so that a batch is three passes of which each concerns the files
  of its own list.

`OrderSurvives` is about a restart only, but what it compares with was saved
before.  `InSavedOrder` says that, while the file of the order is watched, the
permanent launchers with a saved position are in the order of these, but for
those that an installation took over.  An operation either is `Steady`, so that
two permanent launchers were permanent before and in the same order, or leaves
the order it saves.  A restart lists the files anew, and `ReorderItems`
gives one place after the other to the launcher planned for it (`Placed`): those
with a position come first, in its order, and one whose position nobody else
claims is among those planned, at its place (`ReorderOrders`).

A pass over a sequence is a recursive function on `0 .. n`.  The provers cannot
instantiate the library's induction theorems, so induction is done with sets: a
set of naturals has a least element (`LeastOf`), so a set that has 0 and with each
number the next is everything (`CountedUp`), and a function that follows its
recursion exists (`Iterated`).

### Model-checked only

Liveness: `QueueServed`, `DisplayedEventuallyCloses`, `PutOffWorkDone`, `Restored`,
`BusyEnds`, and the liveness in `TouchFollows`, `ShutdownShown`, `HomeAnnounced`,
`RequestsAnswered`, `FramesArrive`, `ShotsReported` and `FailureReported`; the proof
system does not handle fairness here.  Of the safety properties it is the
folders' `LayoutKept` alone, whose operators select, sort and fold over trees of
rows.

## Not modelled

* Texts, icons, translations, formats, and the look of windows: no property is
  about them.
* The scene graph, buffers, frame callbacks, orientation, synthesis of keys and
  the clipboard: Qt's private classes hold their state.  Killing of processes:
  which process has an id is outside of the program.
* Viewporter and fractional scale: requests set values of a surface,
  independently of one another.
* Bluetooth agents: the order of registration and pairing is that of pending
  calls of BluezQt, a library outside of the repository.  Read, but not checked:
  the registration is not repeated after bluetoothd restarts; a failed
  `requestDefaultAgent` still marks the agent as registered; connections of
  `requestConfirmation` are not disconnected.
* VpnAgent: the code that would add pending requests is commented out.
  ThermalNotifier keeps no state but the last report.
* The safe volume, the listening time warning and the call state: the signals
  they depend on are never emitted.  Roles of streams and mute.
* Low power mode and blanking policy of the screen lock, which are passed on.
* `setList` and `reset` of QObjectListModel, the reader instance that
  `lipstickapi` creates, the launcher model's own blacklist and its scopes.
* Settings wrappers, logging, the QML plugin, tools, translations and tests.

## Plan

What is left, in the order of what it would add:

1. A proof about the folders' layout (`LayoutKept`), for which its operators on
   trees would have to be written without folds.
2. An abstract list that is always the sorted store, implemented by
   `NotificationListModel` after each report, and the directory as the abstract
   specification of the launcher once it is quiet.
3. Composition of the manager with the presenter and the list model, whose
   signals they now receive from an environment of their own.
