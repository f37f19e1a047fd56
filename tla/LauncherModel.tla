---------------------------- MODULE LauncherModel ----------------------------
(***************************************************************************)
(* The launcher's model of applications (components/launchermodel.cpp,     *)
(* launcheritem.cpp, launcherdbus.cpp) on top of its file monitor: the     *)
(* list of launchers and its saved order, the launchers that are hidden,   *)
(* and the temporary launchers of packages being installed, which another  *)
(* process announces over D-Bus.                                           *)
(***************************************************************************)
EXTENDS LauncherMonitor

CONSTANTS Guesses,      \* paths of desktop files that are only guessed
          Valid,        \* contents that are desktop entries
          Displayable,  \* those without NoDisplay or NotShowIn
          InCategory,   \* category -> contents that belong to it
          FirstCategory,
          Title,        \* path -> its title, a number
          Vendor,       \* path -> position in the vendor's configuration
          Packages, Services,
          Guess,        \* package -> desktopFileFromPackageName
          Announced,    \* package -> desktop files it is announced with
          NoPath, NoPosition, NoPackage, NoService,
          MaxCalls      \* bound on the calls of users and other processes

Paths == Files \cup Guesses

PathsOf(p) == {Guess[p]} \cup (Announced[p] \ {NoPath})

(* A package is announced with one desktop file, which is no other's; the  *)
(* guess from its name is that file or one that does not exist.            *)
ASSUME PackageAssumption ==
    /\ \A p \in Packages : \E d \in Files :
          Announced[p] \subseteq {d, NoPath} /\ Guess[p] \in {d} \cup Guesses
    /\ \A p, q \in Packages : p # q => PathsOf(p) \cap PathsOf(q) = {}
    /\ IsFiniteSet(Packages)
    /\ NoPackage \notin Packages /\ NoService \notin Services

ASSUME PathsAssumption ==
    /\ Files \cap Guesses = {} /\ NoPath \notin Paths
    /\ Title \in [Paths -> Nat] /\ Vendor \in [Paths -> Nat \cup {NoPosition}]

(* A file that is not there is no desktop entry. *)
ASSUME ValidAssumption == Valid \subseteq Contents

ASSUME CallsAssumption == FirstCategory \in DOMAIN InCategory /\ MaxCalls \in Nat

VARIABLES list,        \* the launchers, in their order
          temps,       \* m_temporaryLaunchers, as the items' identities
          hidden,      \* m_hiddenLaunchers: path -> number of them
          category,
          saved,       \* the saved order: path -> position
          savedWatched, savedPending,  \* the watch on that file
          services,    \* m_packageNameToDBusService
          removals,    \* pending single shots of removeTemporaryLaunchers
          installing,  \* the services' side: package -> who is installing it
          claimed,     \* history: files known when an installation takes them
          calls

modelVars == <<list, temps, hidden, category, saved, savedWatched, savedPending,
               services, removals, installing, claimed, calls>>
vars == <<monitorVars, modelVars>>

ContentOf(path) == IF path \in Files THEN files[path] ELSE Absent

Find(items, path) == SelectInSeq(items, LAMBDA i : i.path = path)

(* packageInModel: the last one of that package, or the guessed file.      *)
FindPackage(items, p) ==
    LET named == SelectLastInSeq(items, LAMBDA i : i.pkg = p)
    IN IF named # 0 THEN named ELSE Find(items, Guess[p])

(* The first number that is not in use. *)
NewId(m) ==
    LET used == m.temps \cup {i.id : i \in Range(m.list)}
    IN CHOOSE id \in 1..(Cardinality(used) + 1) :
           id \notin used /\ 1..(id - 1) \subseteq used

NewItem(m, path) ==
    [id |-> NewId(m), path |-> path, seen |-> ContentOf(path), temp |-> FALSE,
     updating |-> FALSE, pkg |-> NoPackage, launching |-> FALSE, timer |-> FALSE]

(* shouldDisplay && displayCategory of an entry.                           *)
Displays(content, cat) ==
    (content \in Valid => content \in Displayable) /\ content \in InCategory[cat]

-----------------------------------------------------------------------------
(* Steps of onFilesUpdated on m, the model's state under way.              *)

(* Mutation: the list of temporary launchers is forgotten. *)
DropAtOnly(m, k) == [m EXCEPT !.list = RemoveAt(@, k)]

DropAt(m, k) == [m EXCEPT !.list = RemoveAt(@, k), !.temps = @ \ {m.list[k].id}]

UnsetTemporary(m, k) == [m EXCEPT !.list[k].temp = FALSE, !.temps = @ \ {m.list[k].id}]

TakeHidden(m, f) == [m EXCEPT !.hidden[f] = IF @ > 0 THEN @ - 1 ELSE 0]

RemoveFile(m, f) ==
    LET k == Find(m.list, f)
    IN IF k # 0 THEN DropAt(m, k) ELSE TakeHidden(m, f)

AddItemIfValid(m, f) ==
    IF files[f] \notin Valid THEN m
    ELSE IF Displays(files[f], category)
         THEN [m EXCEPT !.list = Append(@, NewItem(m, f))]
         ELSE [m EXCEPT !.hidden[f] = @ + 1]

(* temporaryItemToReplace: the only temporary launcher, or the only one    *)
(* that has finished; as its index, 0 for none.                            *)
TemporaryToReplace(m) ==
    LET at(S)    == SelectInSeq(m.list, LAMBDA i : i.id \in S)
        finished == {t \in m.temps : \E i \in Range(m.list) : i.id = t /\ ~ i.updating}
    IN IF Cardinality(m.temps) = 1 THEN at(m.temps)
       ELSE IF Cardinality(finished) = 1 THEN at(finished) ELSE 0

AddFile(m, f) ==
    LET k       == Find(m.list, f)
        t       == TemporaryToReplace(m)
        Arrived(n, i) == [UnsetTemporary(n, i) EXCEPT !.refresh = @ \cup {f}]
    IN IF k # 0 THEN Arrived(m, k)
       ELSE IF t # 0 /\ files[f] \in Displayable
            THEN Arrived([m EXCEPT !.list[t].path = f, !.list[t].seen = files[f]], t)
            ELSE AddItemIfValid(m, f)

(* Mutation: the file is not read again. *)
RefreshStale(m, f) ==
    LET k == Find(m.list, f)
    IN IF k = 0 THEN AddItemIfValid(TakeHidden(m, f), f)
       ELSE IF Displays(m.list[k].seen, category) THEN m ELSE DropAt(m, k)

RefreshFile(m, f) ==
    LET k    == Find(m.list, f)
        item == m.list[k]
        seen == IF item.temp THEN item.seen ELSE files[f]
    IN IF k = 0 THEN AddItemIfValid(TakeHidden(m, f), f)
       ELSE IF (item.temp \/ seen \in Valid) /\ Displays(seen, category)
            THEN [m EXCEPT !.list[k].seen = seen]
            ELSE DropAt(m, k)

AllRemoved(m, gone) ==
    LET after[n \in 0..Len(gone)] ==
            IF n = 0 THEN m ELSE RemoveFile(after[n - 1], gone[n])
    IN after[Len(gone)]

AllAdded(m, fresh) ==
    LET after[n \in 0..Len(fresh)] ==
            IF n = 0 THEN m ELSE AddFile(after[n - 1], fresh[n])
    IN after[Len(fresh)]

AllRefreshed(m, changed) ==
    LET after[n \in 0..Len(changed)] ==
            IF n = 0 THEN m ELSE RefreshFile(after[n - 1], changed[n])
    IN after[Len(changed)]

FilesUpdated(m, fresh, changed, gone) ==
    LET removedOnes == AllRemoved(m, InOrder(gone))
        addedOnes   == AllAdded([removedOnes EXCEPT !.refresh = changed], fresh)
    IN AllRefreshed(addedOnes, InOrder(addedOnes.refresh))

-----------------------------------------------------------------------------
(* The order of the list.                                                  *)

Position(order, path) ==
    IF order[path] # NoPosition THEN order[path] ELSE Vendor[path]

(* The item at from goes to to, and those between move up or down.         *)
MoveItem(items, from, to) ==
    [k \in DOMAIN items |->
        IF k = to THEN items[from]
        ELSE IF k \in from..(to - 1) THEN items[k + 1]
        ELSE IF k \in (to + 1)..from THEN items[k - 1]
        ELSE items[k]]

(* The places in S whose key is in use, one per key: a QMap keeps the last.*)
OnePerKey(S, keys) ==
    Ranked({k \in S : \A n \in S : n > k => keys[n] # keys[k]}, keys)

(* One place after the other gets the item that is planned for it.         *)
Placed(items, planned) ==
    LET at(l, k) == CHOOSE n \in DOMAIN l : l[n].id = items[planned[k]].id
        after[k \in 0..Len(planned)] ==
            IF k = 0 THEN items ELSE MoveItem(after[k - 1], at(after[k - 1], k), k)
    IN after[Len(planned)]

(* Mutation: the saved positions are not used. *)
ReorderByTitle(items, order) ==
    Placed(items, OnePerKey(DOMAIN items, [k \in DOMAIN items |-> Title[items[k].path]]))

(* reorderItems: those with a position first, the others by their title;   *)
(* an item whose key another one has taken stays where the moves leave it. *)
ReorderItems(items, order) ==
    LET positions  == [k \in DOMAIN items |-> Position(order, items[k].path)]
        titles     == [k \in DOMAIN items |-> Title[items[k].path]]
        positioned == {k \in DOMAIN items : positions[k] # NoPosition}
    IN Placed(items, OnePerKey(positioned, positions)
                       \o OnePerKey(DOMAIN items \ positioned, titles))

PositionsIn(items) ==
    [p \in Paths |-> IF Find(items, p) = 0 THEN NoPosition ELSE Find(items, p) - 1]

(* savePositions stops watching the file while it writes it.               *)
SavePositions(items) ==
    /\ saved' = PositionsIn(items)
    /\ savedWatched' = TRUE
    /\ savedPending' = FALSE

Adopt(m) ==
    /\ list' = ReorderItems(m.list, saved)
    /\ temps' = m.temps
    /\ hidden' = m.hidden
    /\ SavePositions(ReorderItems(m.list, saved))

Model == [list |-> list, temps |-> temps, hidden |-> hidden, refresh |-> {}]

NoFiles == [list |-> <<>>, temps |-> {}, hidden |-> [f \in Files |-> 0], refresh |-> {}]

-----------------------------------------------------------------------------
(* onHoldbackTimerTimeout, with onFilesUpdated called from it.             *)
HoldbackTimeout ==
    /\ HandOver
    /\ IF NothingToUpdate
       THEN UNCHANGED <<list, temps, hidden, saved, savedWatched, savedPending>>
       ELSE Adopt(FilesUpdated(Model, added, OnlyModified, removed))
    /\ UNCHANGED <<category, services, removals, installing, claimed, calls>>

Called == calls < MaxCalls /\ calls' = calls + 1

(* Another process writes the order: two launchers change places.          *)
OrderChangedOutside(p, q) ==
    /\ Called
    /\ saved[p] # NoPosition /\ saved[q] # NoPosition /\ p < q
    /\ saved' = [saved EXCEPT ![p] = saved[q], ![q] = saved[p]]
    /\ savedPending' = savedWatched
    /\ savedWatched' = FALSE
    /\ UNCHANGED <<monitorVars, list, temps, hidden, category, services, removals, installing, claimed>>

(* monitoredFileChanged and loadPositions; moves are saved (rowsMoved).    *)
LoadPositions ==
    /\ savedPending
    /\ list' = ReorderItems(list, saved)
    /\ IF list' # list
       THEN SavePositions(ReorderItems(list, saved))
       ELSE savedPending' = FALSE /\ UNCHANGED <<saved, savedWatched>>
    /\ UNCHANGED <<monitorVars, temps, hidden, category, services, removals, installing, claimed, calls>>

(* The user moves a launcher.                                              *)
Move(from, to) ==
    /\ Called
    /\ from # to
    /\ list' = MoveItem(list, from, to)
    /\ SavePositions(MoveItem(list, from, to))
    /\ UNCHANGED <<monitorVars, temps, hidden, category, services, removals, installing, claimed>>

SetCategories(cat) ==
    /\ Called
    /\ cat # category
    /\ category' = cat
    /\ Rescan
    /\ UNCHANGED <<list, temps, hidden, saved, savedWatched, savedPending, services, removals, installing, claimed>>

-----------------------------------------------------------------------------
(* Installations, announced over D-Bus by a service.                       *)

StartUpdate(m, k, p) == [m EXCEPT !.list[k].updating = TRUE, !.list[k].pkg = p]

(* A temporary launcher takes the announced file, and is permanent at once *)
(* when that file exists.                                                  *)
Claim(m, k, path) ==
    LET taken == [m EXCEPT !.list[k].path = path, !.list[k].seen = ContentOf(path)]
    IN IF ContentOf(path) = Absent THEN taken ELSE UnsetTemporary(taken, k)

Install(m, path) ==
    LET item == [NewItem(m, path) EXCEPT !.temp = TRUE]
    IN [m EXCEPT !.list = Append(@, item), !.temps = @ \cup {item.id}]

(* A service leaves out the desktop file only while it has no launcher:    *)
(* announced once with it and once without, a package gets two.            *)
UpdatingStarted(p, service, desktopFile) ==
    LET path == IF desktopFile = NoPath THEN Guess[p] ELSE desktopFile
        k    == IF Find(list, path) # 0 THEN Find(list, path) ELSE FindPackage(list, p)
        superseded == SelectInSeq(list, LAMBDA i : i.id \in temps /\ i.pkg = p)
        m    == IF k = 0
                THEN StartUpdate(Install(Model, path), Len(list) + 1, p)
                ELSE IF list[k].temp
                THEN StartUpdate(Claim(Model, k, path), k, p)
                ELSE IF superseded # 0
                THEN DropAt(StartUpdate(Model, k, p), superseded)
                ELSE StartUpdate(Model, k, p)
    IN /\ Called
       /\ desktopFile = NoPath => \A d \in Announced[p] : Find(list, d) = 0
       /\ services' = [services EXCEPT ![p] = service]
       /\ list' = m.list
       /\ temps' = m.temps
       /\ installing' = [installing EXCEPT ![p] = service]
       /\ claimed' = IF k = 0 \/ list[k].temp
                     THEN claimed \cup ({path} \cap (told \cup Present)) ELSE claimed
       /\ UNCHANGED <<monitorVars, hidden, category, saved, savedWatched, savedPending, removals>>

UpdatingProgress(p) ==
    /\ Called
    /\ installing[p] # NoService
    /\ FindPackage(list, p) # 0
    /\ list' = [list EXCEPT ![FindPackage(list, p)].updating = TRUE]
    /\ UNCHANGED <<monitorVars, temps, hidden, category, saved, savedWatched, savedPending,
                   services, removals, installing, claimed>>

(* Mutation: nothing removes the temporary launcher. *)
FinishUpdateQuietly(m, k) ==
    IF k = 0 THEN m
    ELSE [m EXCEPT !.list[k].updating = FALSE, !.list[k].pkg = NoPackage]

(* A finished temporary launcher gets a single shot that removes it.       *)
FinishUpdate(m, k) ==
    IF k = 0 THEN m
    ELSE [list |-> [m.list EXCEPT ![k].updating = FALSE, ![k].pkg = NoPackage],
          removals |-> IF m.list[k].temp THEN m.removals + 1 ELSE m.removals]

Updates == [list |-> list, removals |-> removals]

UpdatingFinished(p) ==
    LET finished == FinishUpdate(Updates, FindPackage(list, p))
    IN /\ Called
       /\ installing[p] # NoService
       /\ installing' = [installing EXCEPT ![p] = NoService]
       /\ services' = [services EXCEPT ![p] = NoService]
       /\ list' = finished.list
       /\ removals' = finished.removals
       /\ UNCHANGED <<monitorVars, temps, hidden, category, saved, savedWatched, savedPending,
                      claimed>>

AllFinished(order) ==
    LET after[n \in 0..Len(order)] ==
            IF n = 0 THEN Updates
            ELSE FinishUpdate(after[n - 1], FindPackage(after[n - 1].list, order[n]))
    IN after[Len(order)]

(* A service leaves the bus.  onServiceUnregistered, of a service that is  *)
(* watched, finishes its packages: updatingFinished for each of them.      *)
ServiceVanishes(service) ==
    LET Without(f) == [p \in Packages |-> IF f[p] = service THEN NoService ELSE f[p]]
    IN /\ service \in Range(installing)
       /\ installing' = Without(installing)
       /\ services' = Without(services)
       /\ \E order \in SetToSeqs({p \in Packages : services[p] = service}) :
             /\ list' = AllFinished(order).list
             /\ removals' = AllFinished(order).removals
       /\ UNCHANGED <<monitorVars, temps, hidden, category, saved, savedWatched,
                      savedPending, claimed, calls>>

RemoveTemporaryLaunchers ==
    /\ removals > 0
    /\ removals' = removals - 1
    /\ list' = OnlyAt(list, {k \in DOMAIN list : list[k].id \notin temps \/ list[k].updating})
    /\ temps' = {i.id : i \in {j \in Range(list') : j.id \in temps}}
    /\ UNCHANGED <<monitorVars, hidden, category, saved, savedWatched, savedPending,
                   services, installing, claimed, calls>>

-----------------------------------------------------------------------------
(* Launching.  An application being updated is not launched: the service   *)
(* that updates it is asked to show its progress.                          *)

SetIsLaunching(k, isLaunching) ==
    list' = [list EXCEPT ![k].launching = isLaunching, ![k].timer = isLaunching]

LaunchingUnchanged ==
    UNCHANGED <<monitorVars, temps, hidden, category, saved, savedWatched, savedPending,
                services, removals, installing, claimed>>

LaunchApplication(k) ==
    /\ Called
    /\ ~ list[k].updating
    /\ SetIsLaunching(k, TRUE)
    /\ LaunchingUnchanged

NotifyLaunching(path, isLaunching) ==
    /\ Called
    /\ Find(list, path) # 0
    /\ SetIsLaunching(Find(list, path), isLaunching)
    /\ LaunchingUnchanged

LaunchingTimeout(k) ==
    /\ list[k].timer
    /\ SetIsLaunching(k, FALSE)
    /\ UNCHANGED calls
    /\ LaunchingUnchanged

-----------------------------------------------------------------------------
(* The process ends at any time and is started again: what is left is the  *)
(* directory and the saved order.  The categories are set by the user      *)
(* interface, and are the same.                                            *)

Started == FilesUpdated(NoFiles, InOrder(Present), {}, {})

Restart ==
    /\ Called
    /\ MonitorStarted
    /\ IF Present = {}
       THEN list' = <<>> /\ temps' = {} /\ hidden' = NoFiles.hidden
            /\ savedWatched' = TRUE /\ savedPending' = FALSE /\ UNCHANGED saved
       ELSE Adopt(Started)
    /\ services' = [p \in Packages |-> NoService]
    /\ removals' = 0
    /\ claimed' = {}
    /\ UNCHANGED <<category, installing>>

Init ==
    /\ MonitorInit
    /\ category = FirstCategory
    /\ list = ReorderItems(Started.list, [p \in Paths |-> NoPosition])
    /\ temps = {}
    /\ hidden = Started.hidden
    /\ saved = PositionsIn(list)
    /\ savedWatched = TRUE
    /\ savedPending = FALSE
    /\ services = [p \in Packages |-> NoService]
    /\ removals = 0
    /\ installing = [p \in Packages |-> NoService]
    /\ claimed = {}
    /\ calls = 0

Next ==
    \/ DirectoryChanges /\ UNCHANGED modelVars
    \/ Deliver /\ UNCHANGED modelVars
    \/ HoldbackTimeout
    \/ \E p, q \in Paths : OrderChangedOutside(p, q)
    \/ LoadPositions
    \/ \E from, to \in DOMAIN list : Move(from, to)
    \/ \E cat \in DOMAIN InCategory : SetCategories(cat)
    \/ \E p \in Packages :
          \/ \E s \in Services : \E d \in Announced[p] : UpdatingStarted(p, s, d)
          \/ UpdatingProgress(p)
          \/ UpdatingFinished(p)
    \/ \E s \in Services : ServiceVanishes(s)
    \/ RemoveTemporaryLaunchers
    \/ \E k \in DOMAIN list : LaunchApplication(k) \/ LaunchingTimeout(k)
    \/ \E path \in Paths : \E isLaunching \in BOOLEAN : NotifyLaunching(path, isLaunching)
    \/ Restart

(* Events that are pending are delivered and timers that run fire.  Each   *)
(* is stated by what the handler takes from the queue or the timer.        *)
Fairness ==
    /\ WF_<<dirPending, filePending>>(dirPending' = FALSE /\ filePending' = {})
    /\ WF_holdback(holdback' = FALSE)
    /\ WF_savedPending(savedPending' = FALSE)
    /\ WF_removals(removals > 0 /\ removals' = removals - 1)
    /\ WF_list(\E k \in DOMAIN list : list[k].timer /\ SetIsLaunching(k, FALSE))

Spec == Init /\ [][Next]_vars /\ Fairness

-----------------------------------------------------------------------------
Item == [id : Nat, path : Paths, seen : Contents \cup {Absent}, temp : BOOLEAN,
         updating : BOOLEAN, pkg : Packages \cup {NoPackage},
         launching : BOOLEAN, timer : BOOLEAN]

(* The types of the monitor's and the model's state.                       *)
TypeOK ==
    /\ MonitorTypeOK
    /\ list \in Seq(Item)
    /\ temps \subseteq Nat
    /\ hidden \in [Files -> Nat]
    /\ category \in DOMAIN InCategory
    /\ saved \in [Paths -> Nat \cup {NoPosition}]
    /\ savedWatched \in BOOLEAN
    /\ savedPending \in BOOLEAN
    /\ services \in [Packages -> Services \cup {NoService}]
    /\ removals \in Nat
    /\ installing \in [Packages -> Services \cup {NoService}]
    /\ claimed \subseteq Files
    /\ calls \in 0..MaxCalls

(* No desktop file has two launchers, although installations, the monitor  *)
(* and the guesses about packages add and rename launchers independently.  *)
ListedOnce == \A i, j \in DOMAIN list : list[i].path = list[j].path => i = j

(* m_temporaryLaunchers points to the launchers that say they are          *)
(* temporary, all of them in the list, and so to none that is deleted.     *)
TemporariesListed == temps = {i.id : i \in {j \in Range(list) : j.temp}}

(* The permanent launchers are those of the displayable files, with their  *)
(* content, but for the changes the monitor cannot see, and for files that *)
(* were known when an installation made a temporary launcher of them: a    *)
(* hidden file that the installation makes visible stays temporary, and is *)
(* removed.                                                                *)
IsCurrent ==
    \A f \in Files \ (missed \cup claimed) :
        LET shown == {i \in Range(list) : i.path = f /\ ~ i.temp}
        IN IF files[f] \in Valid /\ Displays(files[f], category)
           THEN \E i \in shown : i.seen = files[f]
           ELSE shown = {}

(* Once the events are delivered and the holdback is over, the launchers   *)
(* are current, whatever was collected, cancelled and merged on the way.   *)
SettledIsCurrent == Settled => IsCurrent

(* A temporary launcher that shows a package being installed has a service *)
(* that answers for it, whose end or whose vanishing frees the launcher.   *)
(* Only one whose file was guessed can be without a package, when it is    *)
(* shown again by a report of progress alone.                              *)
SomeoneUpdates ==
    \A i \in Range(list) : i.temp =>
        IF i.pkg = NoPackage THEN i.updating => i.path \in {Guess[p] : p \in Packages}
                             ELSE services[i.pkg] # NoService

(* A temporary launcher whose installation has finished is on its way out. *)
RemovalPending == \A i \in Range(list) : i.temp /\ ~ i.updating => removals > 0

(* The list and the temporary launchers in it agree with one another, with *)
(* the services that install, and with the removals that are due.          *)
ListConsistent ==
    TypeOK /\ ListedOnce /\ TemporariesListed /\ SomeoneUpdates /\ RemovalPending

Claimed(items, order, path) ==
    Cardinality({i \in Range(items) : Position(order, i.path) = Position(order, path)}) = 1

(* Two permanent launchers that nobody else claims the place of are in the *)
(* same order after a restart, whenever it happens; launchers that came    *)
(* with an installation are placed only when the monitor reports them.     *)
OrderSurvives ==
    [][Restart => \A i, j \in DOMAIN list : \A k, l \in DOMAIN list' :
          /\ i < j
          /\ list'[k].path = list[i].path /\ list'[l].path = list[j].path
          /\ \A n \in {i, j} :
                /\ ~ list[n].temp /\ list[n].path \notin claimed
                /\ saved[list[n].path] # NoPosition
                /\ Claimed(list', saved, list[n].path)
          /\ ~ savedPending /\ savedWatched
          => k < l]_vars

(* The monitor reports every burst of changes in the end, and the model    *)
(* follows.                                                                *)
EventuallyCurrent == []<>IsCurrent

(* The launchers of finished installations go away, or become permanent,   *)
(* or are updated again.                                                   *)
FinishedTemporariesGo ==
    []<>(\A i \in Range(list) : i.temp => i.updating)

(* The failsafe: an application whose window never appears can be launched *)
(* again.                                                                  *)
LaunchingEnds == []<>(\A i \in Range(list) : ~ i.launching)

(* What files, installations and launches begin in the list comes to an    *)
(* end, whatever interrupts it.                                            *)
BusyEnds == EventuallyCurrent /\ FinishedTemporariesGo /\ LaunchingEnds
=============================================================================
