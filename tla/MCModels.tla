------------------------------- MODULE MCModels -------------------------------
(* The models that lists, menus and status icons are made of, each in      *)
(* behaviours of its own: folders of launchers, files that are watched,    *)
(* notifications, objects in general, notification categories and          *)
(* connections.                                                            *)
EXTENDS Naturals, FiniteSets, Sequences, SequencesExt

CONSTANTS Apps, Directories, NoDirectory, Reinstalls, PlainFolders, MaxFolders, MaxSteps,
          Paths, Invalid, Directory, Requests, MaxEvents,
          Ids, MaxRank, MaxPublished,
          Objects, Lists, MaxOperations,
          Categories, MaxStored, MaxVersions,
          Services, MaxServiceSteps

ASSUME ModelsAssumption ==
    /\ Requests \subseteq Seq(Paths)
    /\ Lists \subseteq Seq(Objects) /\ \A l \in Lists : IsInjective(l)
    /\ Ids \subseteq Nat /\ IsFiniteSet(Ids)
    /\ {MaxRank, MaxPublished, MaxOperations, MaxStored, MaxVersions, MaxServiceSteps} \subseteq Nat

VARIABLES part,
          apps, temporary, listed, tree, blacklist, saveTimer, disk, undo, steps,
          existing, present, filePaths, items, listing, watched, ended, pending, overlooked, events,
          notifications, modified, shownItems, populated, published, fallen, misplaced, doubled,
          list, view, told, connectedTo, reference, available, phase, place,
          inserted, removed, operations,
          files, written, listChanged, fileChanged, watchedFiles, endedFiles, knownFiles,
          definitions, usage, stale,
          services, asked, messages, proxied, activeServices, announced, missed,
          serviceSteps

folderVars == <<apps, temporary, listed, tree, blacklist, saveTimer, disk, undo, steps>>
watcherVars == <<existing, present, filePaths, items, listing, watched, ended, pending,
                 overlooked, events>>
notificationVars == <<notifications, modified, shownItems, populated, published, fallen,
                      misplaced, doubled>>
objectVars == <<list, view, told, connectedTo, reference, available, phase, place,
                inserted, removed, operations>>
categoryVars == <<files, written, listChanged, fileChanged, watchedFiles, endedFiles, knownFiles,
                  definitions, usage, stale>>
serviceVars == <<services, asked, messages, proxied, activeServices, announced, missed,
                 serviceSteps>>

Blacklists == {{}, {1}, {1, 2}}
Menus == {<<[folder |-> FALSE, dir |-> NoDirectory, apps |-> <<3>>],
            [folder |-> TRUE, dir |-> "d", apps |-> <<1, 2>>]>>}

MCDirectory == [p \in Paths |-> IF p = "b" THEN "y" ELSE "x"]
MCRequests == {<<"a", "b">>, <<"b", "a", "b", "c">>, <<"c", "d", "a">>}

ShortLists == {s \in UNION {[1 .. n -> Objects] : n \in 0 .. Cardinality(Objects)} : IsInjective(s)}

ServiceType == [s \in Services |-> IF s = "mobile" THEN "cellular" ELSE "wifi"]

Folders == INSTANCE LauncherFolderModel
Watcher == INSTANCE LauncherWatcherModel
Events == INSTANCE NotificationListModel WITH items <- shownItems
Model == INSTANCE QObjectListModel
Store == INSTANCE CategoryDefinitionStore
           WITH watched <- watchedFiles, ended <- endedFiles, overlooked <- stale
Monitor == INSTANCE ConnectivityMonitor
             WITH TypeOf <- ServiceType, MaxSteps <- MaxServiceSteps,
                  present <- services, steps <- serviceSteps

Nothing == [x \in {} |-> x]

Init ==
    /\ part \in {"folders", "watcher", "notifications", "objects", "categories", "services"}
    /\ part # "folders" => disk = Folders!NoMenu
    /\ part # "watcher" => existing = {}
    /\ part # "notifications" => notifications = Nothing /\ modified = {}
    /\ part # "categories" => files = Nothing
    /\ part # "services" => services = Nothing
    /\ Folders!Init /\ Watcher!Init /\ Events!Init /\ Model!Init /\ Store!Init /\ Monitor!Init

Next ==
    /\ UNCHANGED part
    /\ \/ /\ part = "folders" /\ Folders!Next
          /\ UNCHANGED <<watcherVars, notificationVars, objectVars, categoryVars, serviceVars>>
       \/ /\ part = "watcher" /\ Watcher!Next
          /\ UNCHANGED <<folderVars, notificationVars, objectVars, categoryVars, serviceVars>>
       \/ /\ part = "notifications" /\ Events!Next
          /\ UNCHANGED <<folderVars, watcherVars, objectVars, categoryVars, serviceVars>>
       \/ /\ part = "objects" /\ Model!Next
          /\ UNCHANGED <<folderVars, watcherVars, notificationVars, categoryVars, serviceVars>>
       \/ /\ part = "categories" /\ Store!Next
          /\ UNCHANGED <<folderVars, watcherVars, notificationVars, objectVars, serviceVars>>
       \/ /\ part = "services" /\ Monitor!Next
          /\ UNCHANGED <<folderVars, watcherVars, notificationVars, objectVars, categoryVars>>

Spec == Init /\ [][Next]_<<folderVars, watcherVars, notificationVars, objectVars, categoryVars,
                           serviceVars, part>>

-----------------------------------------------------------------------------

(* Every launcher is in one place or held back by the blacklist; with no   *)
(* save scheduled the menu file has the rows as they are; and what is      *)
(* blacklisted and put back at once is where it was.                       *)
LayoutKept ==
    /\ [](Folders!TypeOK /\ Folders!PlacedOnce /\ Folders!LayoutSurvives)
    /\ Folders!BlacklistUndone

(* The watcher's rows are the valid files there are, in the given order,   *)
(* but for those that changed where nobody watched.                        *)
InStep == Watcher!InStep

(* But for the next report, notifications are listed once or not at all,   *)
(* and in order, whatever the order of their updates, unless they were     *)
(* listed before the list was populated or placed among others that are    *)
(* out of place.                                                           *)
ListedInOrder == Events!TypeOK /\ Events!UpToDate /\ Events!Ordered

(* However the other list became known, the model becomes it, a view that  *)
(* only hears of rows has the rows of the model, and the items said to be  *)
(* added and not removed are those in the list.                            *)
Synchronized == [](Model!ViewFollows /\ Model!ToldAgrees) /\ [][Model!Synchronized]_objectVars

(* Once its events are handled a definition in memory is that of its file, *)
(* unless the file changed unwatched.                                      *)
DefinitionsFresh == Store!DefinitionsFresh

(* Once ConnMan's messages are handled, the services active are its own,   *)
(* and the home screen was last told their types.                          *)
FollowsConnMan == Monitor!FollowsConnMan /\ Monitor!AnnouncedIsActive
=============================================================================
