------------------------ MODULE LauncherFolderModel ------------------------
(***************************************************************************)
(* The folders of the launcher (components/launcherfoldermodel.cpp): the   *)
(* launchers of LauncherModel arranged by the user in one level of         *)
(* folders, the menu file the arrangement is saved to a second after each  *)
(* change, and the blacklist, which takes launchers out of it and puts     *)
(* them back where they were.                                              *)
(*                                                                         *)
(* A launcher is a number, in the order of LauncherModel.  A folder is     *)
(* known by its .directory file, once it has one.                          *)
(***************************************************************************)
EXTENDS Naturals, FiniteSets, Sequences, SequencesExt, Functions

CONSTANTS Apps,        \* launchers that may be installed
          Blacklists,  \* sets of launchers the user interface blacklists
          Directories, \* names for .directory files
          NoDirectory,
          Menus,       \* menu files that earlier sessions left
          Reinstalls,  \* may a launcher go and come back while blacklisted?
          PlainFolders, \* may a folder have no .directory file meanwhile?
          MaxFolders, MaxSteps

VARIABLES apps,       \* the launchers of LauncherModel
          temporary,  \* those of packages being installed
          listed,     \* LauncherModel's m_blacklistedApplications
          tree,       \* the rows: launchers and folders
          blacklist,  \* m_blacklistedApplications: launcher -> position
          saveTimer,
          disk,       \* what the menu file says
          undo,       \* history: the rows before the blacklist, if it applies
          steps

vars == <<apps, temporary, listed, tree, blacklist, saveTimer, disk, undo, steps>>

Launcher(a) == [folder |-> FALSE, dir |-> NoDirectory, apps |-> <<a>>]
Folder(dir, items) == [folder |-> TRUE, dir |-> dir, apps |-> items]

NoMenu == [written |-> FALSE, rows |-> <<>>]
NoUndo == [valid |-> FALSE, rows |-> <<>>]

-----------------------------------------------------------------------------
(* A row, or a row of a folder, is found by its place: the folder's row,   *)
(* 0 for the top level, and the position in it.                            *)

Places(rows) ==
    {<<0, k>> : k \in {n \in DOMAIN rows : ~ rows[n].folder}} \cup
    UNION {{<<f, k>> : k \in DOMAIN rows[f].apps} : f \in {n \in DOMAIN rows : rows[n].folder}}

AppAt(rows, place) ==
    IF place[1] = 0 THEN rows[place[2]].apps[1] ELSE rows[place[1]].apps[place[2]]

(* findContainer and the place in it.                                      *)
PlacesOf(rows, a) == {p \in Places(rows) : AppAt(rows, p) = a}

RemoveAtPlace(rows, place) ==
    IF place[1] = 0 THEN RemoveAt(rows, place[2])
    ELSE [rows EXCEPT ![place[1]].apps = RemoveAt(@, place[2])]

RemoveApps(rows, S) ==
    LET others(items) == SelectSeq(items, LAMBDA a : a \notin S)
        kept == [n \in DOMAIN rows |-> [rows[n] EXCEPT !.apps = others(@)]]
    IN SelectSeq(kept, LAMBDA r : r.folder \/ r.apps # <<>>)

(* QList::insert appends when the index is beyond the end.                 *)
Insert(items, index, item) ==
    IF index <= Len(items) THEN InsertAt(items, index + 1, item) ELSE Append(items, item)

InsertIn(rows, f, index, a) ==
    IF f = 0 THEN Insert(rows, index, Launcher(a))
    ELSE [rows EXCEPT ![f].apps = Insert(@, index, a)]

(* findContainerFolder, as its row; 0 is the top level.                    *)
FolderRow(rows, dir) ==
    IF dir = NoDirectory THEN 0
    ELSE SelectInSeq(rows, LAMBDA r : r.folder /\ r.dir = dir)

-----------------------------------------------------------------------------
(* The blacklist.  A position is the directory of the folder, if any, and  *)
(* the index in it at the time.                                            *)

Position(rows, place) ==
    [dir |-> IF place[1] = 0 THEN NoDirectory ELSE rows[place[1]].dir,
     index |-> place[2] - 1]

(* Mutation: the launchers are put back as the map has them. *)
PutBackUnsorted(rows, positions) ==
    FoldLeft(LAMBDA r, a : InsertIn(r, FolderRow(r, positions[a].dir), positions[a].index, a),
             rows, Reverse(SetToSortSeq(DOMAIN positions, LAMBDA a, b : a < b)))

(* removeAppsFromBlacklist inserts those whose index is lowest first, so   *)
(* that the ones after them fit.                                           *)
PutBack(rows, positions) ==
    FoldLeft(LAMBDA r, a : InsertIn(r, FolderRow(r, positions[a].dir), positions[a].index, a),
             rows,
             SetToSortSeq(DOMAIN positions,
                 LAMBDA a, b : \/ positions[a].index < positions[b].index
                               \/ positions[a].index = positions[b].index /\ a > b))

(* updateblacklistedApplications.                                          *)
SetBlacklistedApplications(S) ==
    LET installed == {a \in DOMAIN blacklist : a \in apps}
        freed     == {a \in installed : a \notin S}
        rows      == PutBack(tree, Restrict(blacklist, freed))
        taken     == {p \in Places(rows) : AppAt(rows, p) \in S}
        takenApps == {AppAt(rows, p) : p \in taken}
        placeOf(a) == CHOOSE p \in taken : AppAt(rows, p) = a
    IN /\ listed' = S
       /\ blacklist' = [a \in takenApps \cup (installed \ freed) |->
                           IF a \in takenApps THEN Position(rows, placeOf(a)) ELSE blacklist[a]]
       /\ tree' = RemoveApps(rows, DOMAIN blacklist')
       /\ saveTimer' = (saveTimer \/ tree' # tree)

(* updateAppsInBlacklistedFolders: a position in a folder that is gone is  *)
(* one of the top level.                                                   *)
Rehomed(positions) ==
    [a \in DOMAIN positions |->
        IF FolderRow(tree, positions[a].dir) = 0
        THEN [positions[a] EXCEPT !.dir = NoDirectory] ELSE positions[a]]

-----------------------------------------------------------------------------
(* The menu file.                                                          *)

ByPath(S) == SetToSortSeq(S, LAMBDA a, b : a < b)

(* What saveFolder writes for the row n of count rows in a folder: before  *)
(* it the blacklisted launchers of its position; in a folder with a        *)
(* directory, before the last row those beyond the end.                    *)
Withheld(positions, dir, n, count) ==
    LET here   == {a \in DOMAIN positions \cap apps : positions[a] = [dir |-> dir, index |-> n - 1]}
        beyond == {a \in DOMAIN positions \cap apps :
                      positions[a].dir = dir /\ positions[a].index >= n - 1}
        some   == \E a \in DOMAIN positions : positions[a] = [dir |-> dir, index |-> n - 1]
    IN IF some THEN ByPath(here)
       ELSE IF dir # NoDirectory /\ n = count THEN ByPath(beyond) ELSE <<>>

Lasting(items) == SelectSeq(items, LAMBDA a : a \notin temporary)

SavedFolder(positions, row) ==
    Folder(row.dir,
           FlattenSeq([n \in DOMAIN row.apps |->
               Withheld(positions, row.dir, n, Len(row.apps)) \o Lasting(<<row.apps[n]>>)]))

SavedRow(positions, rows, n) ==
    LET before == Withheld(positions, NoDirectory, n, Len(rows))
        itself == IF rows[n].folder THEN <<SavedFolder(positions, rows[n])>>
                  ELSE [k \in DOMAIN Lasting(rows[n].apps) |-> rows[n]]
    IN [k \in DOMAIN before |-> Launcher(before[k])] \o itself

SavedMenu(positions) == FlattenSeq([n \in DOMAIN tree |-> SavedRow(positions, tree, n)])

-----------------------------------------------------------------------------
(* load: the launchers of the file that exist, and then those it does not  *)
(* list.  None is marked as blacklisted when the process starts.           *)
AppsIn(rows) == {AppAt(rows, p) : p \in Places(rows)}

Load(menu, installed) ==
    LET present(items) == SelectSeq(items, LAMBDA a : a \in installed)
        known   == SelectSeq([n \in DOMAIN menu |-> [menu[n] EXCEPT !.apps = present(@)]],
                             LAMBDA r : r.folder \/ r.apps # <<>>)
        unknown == ByPath(installed \ AppsIn(menu))
    IN known \o [n \in DOMAIN unknown |-> Launcher(unknown[n])]

-----------------------------------------------------------------------------
(* The user and the packages.                                              *)

Step == steps < MaxSteps /\ steps' = steps + 1

Changed == saveTimer' = TRUE /\ undo' = NoUndo

(* appAdded: a new launcher comes last, blacklisted or not.                *)
AppAdded(a, isTemporary) ==
    /\ Step
    /\ a \in Apps \ apps
    /\ a \in DOMAIN blacklist => Reinstalls
    /\ apps' = apps \cup {a}
    /\ temporary' = IF isTemporary THEN temporary \cup {a} ELSE temporary
    /\ tree' = Append(tree, Launcher(a))
    /\ Changed
    /\ UNCHANGED <<listed, blacklist, disk>>

(* isTemporaryChanged, connected while the launcher is in a folder.        *)
AppInstalled(a) ==
    /\ Step
    /\ a \in temporary
    /\ temporary' = temporary \ {a}
    /\ saveTimer' = (saveTimer \/ a \in AppsIn(tree))
    /\ undo' = NoUndo
    /\ UNCHANGED <<apps, listed, tree, blacklist, disk>>

(* appRemoved.  The position of a blacklisted launcher stays in the map.   *)
AppRemoved(a) ==
    /\ Step
    /\ a \in apps
    /\ apps' = apps \ {a}
    /\ temporary' = temporary \ {a}
    /\ tree' = RemoveApps(tree, {a})
    /\ saveTimer' = (saveTimer \/ tree' # tree)
    /\ undo' = NoUndo
    /\ UNCHANGED <<listed, blacklist, disk>>

Folders == {n \in DOMAIN tree : tree[n].folder}

BlacklistChanges(S) ==
    /\ Step
    /\ S # listed
    /\ PlainFolders \/ \A n \in Folders : tree[n].dir # NoDirectory
    /\ SetBlacklistedApplications(S)
    /\ undo' = IF listed = {} /\ blacklist = <<>>
               THEN [valid |-> TRUE, rows |-> tree]
               ELSE NoUndo
    /\ UNCHANGED <<apps, temporary, disk>>

(* createFolder puts the launcher of the row into it.                      *)
CreateFolder(n) ==
    /\ Step
    /\ PlainFolders \/ blacklist = <<>>
    /\ ~ tree[n].folder /\ Cardinality(Folders) < MaxFolders
    /\ tree' = [tree EXCEPT ![n] = Folder(NoDirectory, tree[n].apps)]
    /\ Changed
    /\ UNCHANGED <<apps, temporary, listed, blacklist, disk>>

(* The user interface destroys folders that are empty.                     *)
DestroyFolder(n) ==
    /\ Step
    /\ n \in Folders /\ tree[n].apps = <<>>
    /\ tree' = RemoveAt(tree, n)
    /\ Changed
    /\ UNCHANGED <<apps, temporary, listed, blacklist, disk>>

(* saveDirectoryFile makes a file of a name not in use.                    *)
IsFresh(dir) ==
    /\ \A k \in DOMAIN tree : tree[k].dir # dir
    /\ \A k \in DOMAIN disk.rows : disk.rows[k].dir # dir
    /\ \A a \in DOMAIN blacklist : blacklist[a].dir # dir

(* setIconId, the first time for this folder.                              *)
SetIconId(n, dir) ==
    /\ Step
    /\ n \in Folders /\ tree[n].dir = NoDirectory
    /\ IsFresh(dir)
    /\ tree' = [tree EXCEPT ![n].dir = dir]
    /\ Changed
    /\ UNCHANGED <<apps, temporary, listed, blacklist, disk>>

(* moveToFolder, into the folder of row f or the top level.                *)
MoveToFolder(place, f, index) ==
    /\ Step
    /\ tree' = LET a       == AppAt(tree, place)
                   removed == RemoveAtPlace(tree, place)
                   row     == IF place[1] = 0 /\ place[2] < f THEN f - 1 ELSE f
               IN InsertIn(removed, row, index, a)
    /\ Changed
    /\ UNCHANGED <<apps, temporary, listed, blacklist, disk>>

Save ==
    /\ saveTimer
    /\ saveTimer' = FALSE
    /\ blacklist' = Rehomed(blacklist)
    /\ disk' = [written |-> TRUE, rows |-> SavedMenu(blacklist')]
    /\ UNCHANGED <<apps, temporary, listed, tree, undo, steps>>

(* The process ends and is started again: temporary launchers are gone.    *)
(* The user interface sets the blacklist before the rows are loaded, where *)
(* it meets no rows.                                                       *)
Restart ==
    /\ Step
    /\ apps' = apps \ temporary
    /\ temporary' = {}
    /\ tree' = Load(disk.rows, apps')
    /\ blacklist' = <<>>
    /\ saveTimer' = FALSE
    /\ undo' = NoUndo
    /\ UNCHANGED <<listed, disk>>

(* save writes in place: ending meanwhile leaves a file without rows.      *)
EndsWhileSaving ==
    /\ Step
    /\ saveTimer
    /\ disk' = [written |-> TRUE, rows |-> <<>>]
    /\ apps' = apps \ temporary
    /\ temporary' = {}
    /\ tree' = Load(<<>>, apps')
    /\ blacklist' = <<>>
    /\ saveTimer' = FALSE
    /\ undo' = NoUndo
    /\ UNCHANGED listed

Init ==
    /\ apps = Apps
    /\ temporary = {}
    /\ listed = {}
    /\ disk \in {NoMenu} \cup [written : {TRUE}, rows : Menus]
    /\ tree = Load(disk.rows, apps)
    /\ blacklist = <<>>
    /\ saveTimer = FALSE
    /\ undo = NoUndo
    /\ steps = 0

Next ==
    \/ \E a \in Apps : \/ \E isTemporary \in BOOLEAN : AppAdded(a, isTemporary)
                       \/ AppInstalled(a) \/ AppRemoved(a)
    \/ \E S \in Blacklists : BlacklistChanges(S)
    \/ \E n \in DOMAIN tree :
          \/ CreateFolder(n)
          \/ DestroyFolder(n)
          \/ \E dir \in Directories : SetIconId(n, dir)
    \/ \E place \in Places(tree) : \E f \in {0} \cup Folders :
          \E index \in 0..Len(IF f = 0 THEN tree ELSE tree[f].apps) : MoveToFolder(place, f, index)
    \/ Save
    \/ Restart
    \/ EndsWhileSaving

Spec == Init /\ [][Next]_vars

-----------------------------------------------------------------------------
(* A row is a folder or has one launcher.                                  *)
AreRows(rows) ==
    /\ rows \in Seq([folder : BOOLEAN, dir : Directories \cup {NoDirectory}, apps : Seq(Apps)])
    /\ \A n \in DOMAIN rows : rows[n].folder \/ Len(rows[n].apps) = 1

(* The types of the model's state.                                         *)
TypeOK ==
    /\ apps \subseteq Apps
    /\ temporary \subseteq apps
    /\ listed \in Blacklists
    /\ AreRows(tree)
    /\ DOMAIN blacklist \subseteq Apps
    /\ saveTimer \in BOOLEAN
    /\ disk.written \in BOOLEAN /\ AreRows(disk.rows)
    /\ undo.valid \in BOOLEAN /\ AreRows(undo.rows)
    /\ steps \in 0..MaxSteps

(* Every launcher is in one place, or held back by the blacklist, and no   *)
(* row is left of one that is gone.                                        *)
PlacedOnce ==
    /\ AppsIn(tree) \subseteq apps
    /\ \A a \in apps \ DOMAIN blacklist : Cardinality(PlacesOf(tree, a)) = 1
    /\ \A a \in apps \cap DOMAIN blacklist : Cardinality(PlacesOf(tree, a)) <= 1

(* When no save is scheduled, loading the menu file would bring back the   *)
(* rows as they are, but for launchers not yet installed.                  *)
LayoutSurvives ==
    ~ saveTimer /\ temporary = {} /\ blacklist = <<>> => Load(disk.rows, apps) = tree

(* Taking launchers out by the blacklist and putting them back at once     *)
(* leaves the rows as they were, several launchers, from folders or not,   *)
(* saved meanwhile or not.                                                 *)
BlacklistUndone ==
    [][undo.valid /\ listed # {} /\ listed' = {} => tree' = undo.rows]_vars
=============================================================================
