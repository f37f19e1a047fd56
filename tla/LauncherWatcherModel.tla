------------------------ MODULE LauncherWatcherModel ------------------------
(***************************************************************************)
(* A list of launchers for given desktop files                             *)
(* (components/launcherwatchermodel.cpp).  Its directories are watched, as *)
(* far as they are there; each change brings the rows in step with the     *)
(* files there are.                                                        *)
(***************************************************************************)
EXTENDS Naturals, FiniteSets, Sequences, SequencesExt

CONSTANTS Paths,
          Invalid,    \* those whose files are not desktop entries
          Directory,  \* path -> its directory
          Requests,   \* lists of paths that are set
          MaxEvents

VARIABLES existing,   \* the directories there are
          present,    \* the files there are
          filePaths, items,
          listing,    \* setFilePaths has made its rows, but does not watch yet
          watched,    \* directories QFileSystemWatcher watches
          ended,      \* those it lists although they have been removed since
          pending,    \* directories with a directoryChanged on its way
          overlooked, \* history: files that came or went unwatched since the last look
          events

vars == <<existing, present, filePaths, items, listing, watched, ended, pending, overlooked,
          events>>

Folders == {Directory[path] : path \in Paths}
DirectoriesOf(paths) == {Directory[paths[n]] : n \in DOMAIN paths}

Toggled(x, S) == IF x \in S THEN S \ {x} ELSE S \cup {x}

IsFirst(paths, n) == \A k \in 1..(n - 1) : paths[k] # paths[n]

-----------------------------------------------------------------------------
(* updateItems goes through the paths with the number of rows that are in  *)
(* place.  A path that is among the rows behind it is moved there.         *)

Place(m, path) ==
    LET behind == {k \in (m.index + 1)..Len(m.rows) : m.rows[k] = path}
        k      == CHOOSE n \in behind : \A l \in behind : n <= l
        InPlace(rows) == [rows |-> rows, index |-> m.index + 1]
    IN IF path \notin present \/ (behind = {} /\ path \in Invalid) THEN m
       ELSE IF behind = {} THEN InPlace(InsertAt(m.rows, m.index + 1, path))
       ELSE InPlace(InsertAt(RemoveAt(m.rows, k), m.index + 1, path))

(* Each path in turn; one that was there before is done only once. *)
PlacedAll(rows, paths) ==
    LET placed[n \in 0 .. Len(paths)] ==
          IF n = 0 THEN [rows |-> rows, index |-> 0]
          ELSE IF IsFirst(paths, n) THEN Place(placed[n - 1], paths[n]) ELSE placed[n - 1]
    IN placed[Len(paths)]

(* Mutation: the rows that are left over stay. *)
UpdateItemsOnly(rows, paths) == PlacedAll(rows, paths).rows

UpdateItems(rows, paths) ==
    LET placed == PlacedAll(rows, paths)
    IN SubSeq(placed.rows, 1, placed.index)

(* setFilePaths is one call, but files come and go while it runs: what     *)
(* changes after the list is made and before its directory is watched is   *)
(* not told.                                                               *)
SetFilePaths(paths) ==
    /\ events < MaxEvents
    /\ events' = events + 1
    /\ ~listing
    /\ paths # filePaths
    /\ filePaths' = paths
    /\ items' = UpdateItems(items, paths)
    /\ listing' = TRUE
    /\ overlooked' = {}
    /\ UNCHANGED <<existing, present, watched, ended, pending>>

(* A directory that does not exist cannot be added, and one that is still  *)
(* listed is not added again; with a directory its reports are dropped.    *)
WatchDirectories ==
    LET directories == DirectoriesOf(filePaths)
    IN /\ listing
       /\ listing' = FALSE
       /\ watched' = (directories \cap existing) \ ended
       /\ ended' = ended \cap directories
       /\ pending' = pending \cap directories
       /\ UNCHANGED <<existing, present, filePaths, items, overlooked, events>>

(* QFileSystemWatcher forgets a directory as it tells of its removal.      *)
DirectoryChanged(dir) ==
    /\ ~listing
    /\ dir \in pending
    /\ pending' = pending \ {dir}
    /\ ended' = ended \ {dir}
    /\ items' = UpdateItems(items, filePaths)
    /\ overlooked' = {}
    /\ UNCHANGED <<existing, present, filePaths, listing, watched, events>>

(* A desktop file is installed or removed.                                 *)
FileChanges(path) ==
    /\ events < MaxEvents
    /\ events' = events + 1
    /\ Directory[path] \in existing
    /\ present' = Toggled(path, present)
    /\ IF Directory[path] \in watched
       THEN pending' = pending \cup {Directory[path]} /\ UNCHANGED overlooked
       ELSE overlooked' = Toggled(path, overlooked) /\ UNCHANGED pending
    /\ UNCHANGED <<existing, filePaths, items, listing, watched, ended>>

(* A directory comes, or goes when it is empty, and with it its watch.     *)
FolderChanges(dir) ==
    /\ events < MaxEvents
    /\ events' = events + 1
    /\ \A path \in present : Directory[path] # dir
    /\ existing' = Toggled(dir, existing)
    /\ watched' = watched \ {dir}
    /\ ended' = ended \cup ({dir} \cap watched)
    /\ pending' = pending \cup ({dir} \cap watched)
    /\ UNCHANGED <<present, filePaths, items, listing, overlooked>>

Init ==
    /\ existing \in SUBSET Folders
    /\ present \in SUBSET {path \in Paths : Directory[path] \in existing}
    /\ filePaths = <<>>
    /\ items = <<>>
    /\ listing = FALSE
    /\ watched = {}
    /\ ended = {}
    /\ pending = {}
    /\ overlooked = {}
    /\ events = 0

Next ==
    \/ \E paths \in Requests : SetFilePaths(paths)
    \/ WatchDirectories
    \/ \E dir \in pending : DirectoryChanged(dir)
    \/ \E path \in Paths : FileChanges(path)
    \/ \E dir \in Folders : FolderChanges(dir)

Spec == Init /\ [][Next]_vars

-----------------------------------------------------------------------------
(* What the rows should be: the valid ones of the files, each once, in the *)
(* order of the paths.                                                     *)
Expected(rows, paths, there) ==
    LET shown == {n \in DOMAIN paths : IsFirst(paths, n) /\ paths[n] \in there \ Invalid}
    IN \E place \in [DOMAIN rows -> shown] :
          /\ \A k, l \in DOMAIN rows : k < l => place[k] < place[l]
          /\ \A n \in shown : \E k \in DOMAIN rows : place[k] = n
          /\ \A k \in DOMAIN rows : rows[k] = paths[place[k]]

(* When no directory change is on its way, moving, inserting and dropping  *)
(* rows has produced the list one would build from nothing, for the files  *)
(* there are.  Only of a file that came or went while its directory was    *)
(* not watched, as it did not exist or had just been asked for, the rows   *)
(* show what was there at the last look.                                   *)
InStep ==
    pending = {} => Expected(items, filePaths, (present \ overlooked) \cup (overlooked \ present))
=============================================================================
