--------------------------- MODULE LauncherMonitor ---------------------------
(***************************************************************************)
(* The file monitor of the launcher (components/launchermonitor.cpp): it   *)
(* collects what QFileSystemWatcher reports of a directory of desktop      *)
(* files, and hands over the changes in one batch when the directory has   *)
(* been quiet for the holdback time.                                       *)
(*                                                                         *)
(* A path is a number, in the order of the directory's listing.            *)
(***************************************************************************)
EXTENDS Integers, FiniteSets, Sequences, SequencesExt

CONSTANTS Files,      \* the paths of desktop files that may exist
          Contents,   \* what may be written into one of them
          Absent,     \* the content of a path without a file
          MaxChanges  \* bound on the changes of the directory

ASSUME FilesAssumption == Files \subseteq Nat /\ IsFiniteSet(Files)
ASSUME AbsentAssumption == Absent \notin Contents
ASSUME ChangesAssumption == MaxChanges \in Nat

VARIABLES files,        \* the directory: path -> content
          changes,      \* number of changes so far, bounded by MaxChanges
          watched,      \* files QFileSystemWatcher has a watch on
          dirPending,   \* a directoryChanged is on its way
          filePending,  \* files with a fileChanged on its way
          known, added, modified, removed, holdback,
          told,         \* history: files the model was told of
          missed        \* history: files with a change the monitor cannot see

monitorVars == <<files, changes, watched, dirPending, filePending,
                 known, added, modified, removed, holdback, told, missed>>

Present == {f \in Files : files[f] # Absent}

(* S by growing keys, which differ; a set of numbers in its own order; the *)
(* elements of a sequence at the places in S.                              *)
Ranked(S, key) ==
    [n \in 1..Cardinality(S) |->
        CHOOSE x \in S : Cardinality({y \in S : key[y] < key[x]}) = n - 1]

InOrder(S) == Ranked(S, [x \in S |-> x])

OnlyAt(seq, S) == [n \in 1..Cardinality(S) |-> seq[InOrder(S)[n]]]

-----------------------------------------------------------------------------
(* The directory and QFileSystemWatcher.  Its watch follows the file, not  *)
(* the name: it ends when the file is deleted or another is renamed over it.*)

Change(f, content) ==
    /\ changes < MaxChanges
    /\ changes' = changes + 1
    /\ files' = [files EXCEPT ![f] = content]

Noticed(f) == filePending' = IF f \in watched THEN filePending \cup {f} ELSE filePending

Write(f, content) ==
    /\ f \in Present /\ content \in Contents /\ content # files[f]
    /\ Change(f, content)
    /\ Noticed(f)
    /\ missed' = IF f \in known \ watched THEN missed \cup {f} ELSE missed
    /\ UNCHANGED <<watched, dirPending, known, added, modified, removed, holdback, told>>

Replace(f, content) ==
    /\ f \in Present /\ content \in Contents /\ content # files[f]
    /\ Change(f, content)
    /\ Noticed(f)
    /\ watched' = watched \ {f}
    /\ dirPending' = TRUE
    /\ missed' = IF f \in known \ watched THEN missed \cup {f} ELSE missed
    /\ UNCHANGED <<known, added, modified, removed, holdback, told>>

Delete(f) ==
    /\ f \in Present
    /\ Change(f, Absent)
    /\ Noticed(f)
    /\ watched' = watched \ {f}
    /\ dirPending' = TRUE
    /\ UNCHANGED <<known, added, modified, removed, holdback, told, missed>>

(* A file that comes back before its deletion was handled looks like one   *)
(* that never went away; its change is seen only with the pending event.   *)
Create(f, content) ==
    /\ f \in Files \ Present /\ content \in Contents
    /\ Change(f, content)
    /\ dirPending' = TRUE
    /\ missed' = IF f \in known \ filePending THEN missed \cup {f} ELSE missed
    /\ UNCHANGED <<watched, filePending, known, added, modified, removed, holdback, told>>

-----------------------------------------------------------------------------

(* onDirectoryChanged compares the listing with the last one, knowing, and *)
(* cancels an addition against a removal that is not yet handed over.      *)
Scan(knowing, changed) ==
    LET gone      == knowing \ Present
        fresh     == Present \ knowing
        cancelled == gone \cap Range(added)
    IN /\ watched' = (watched \ gone) \cup fresh
       /\ modified' = changed \ (gone \cup fresh)
       /\ added' = OnlyAt(added, {n \in DOMAIN added : added[n] \notin gone})
                      \o InOrder(fresh \ removed)
       /\ removed' = (removed \cup (gone \ cancelled)) \ fresh
       /\ missed' = (missed \ gone) \cup (cancelled \cap told) \cup (fresh \cap removed)
                        \cup (known \ (knowing \cup Present))
       /\ known' = Present

(* The events that QFileSystemWatcher reads at once: onFileChanged for     *)
(* each file, and onDirectoryChanged; their order does not matter.         *)
Deliver ==
    /\ dirPending \/ filePending # {}
    /\ dirPending' = FALSE
    /\ filePending' = {}
    /\ holdback' = TRUE
    /\ IF dirPending
       THEN Scan(known, modified \cup filePending)
       ELSE /\ modified' = modified \cup filePending
            /\ UNCHANGED <<watched, known, added, removed, missed>>
    /\ UNCHANGED <<files, changes, told>>

(* What onHoldbackTimerTimeout hands over as modified.                     *)
OnlyModified == modified \ (Range(added) \cup removed)

NothingToUpdate == added = <<>> /\ OnlyModified = {} /\ removed = {}

(* The part of onHoldbackTimerTimeout that is the monitor's.  The model    *)
(* reads the files it is told of; what happened to a file stays unseen     *)
(* when the last listing does not have it: no scan finds it gone.          *)
HandOver ==
    /\ holdback
    /\ holdback' = FALSE
    /\ added' = <<>>
    /\ modified' = {}
    /\ removed' = {}
    /\ missed' = missed \ (((Range(added) \cup OnlyModified) \cap known) \cup removed)
    /\ told' = (told \ removed) \cup Range(added)
    /\ UNCHANGED <<files, changes, watched, dirPending, filePending, known>>

(* reset, as setCategories uses it: forget the listing and scan again.     *)
Rescan ==
    /\ Scan({}, modified)
    /\ holdback' = TRUE
    /\ UNCHANGED <<files, changes, dirPending, filePending, told>>

(* The constructor's scan and start, which hands it over at once.          *)
MonitorStarted ==
    /\ watched' = Present
    /\ dirPending' = FALSE
    /\ filePending' = {}
    /\ known' = Present
    /\ added' = <<>>
    /\ modified' = {}
    /\ removed' = {}
    /\ holdback' = FALSE
    /\ told' = Present
    /\ missed' = {}
    /\ UNCHANGED <<files, changes>>

MonitorInit ==
    /\ files \in [Files -> Contents \cup {Absent}]
    /\ changes = 0
    /\ watched = Present
    /\ dirPending = FALSE
    /\ filePending = {}
    /\ known = Present
    /\ added = <<>>
    /\ modified = {}
    /\ removed = {}
    /\ holdback = FALSE
    /\ told = Present
    /\ missed = {}

DirectoryChanges ==
    \E f \in Files :
        \/ \E content \in Contents : Write(f, content) \/ Replace(f, content) \/ Create(f, content)
        \/ Delete(f)

MonitorTypeOK ==
    /\ files \in [Files -> Contents \cup {Absent}]
    /\ changes \in 0..MaxChanges
    /\ watched \subseteq Present
    /\ dirPending \in BOOLEAN
    /\ filePending \subseteq Files
    /\ known \subseteq Files
    /\ added \in Seq(Files)
    /\ modified \subseteq Files
    /\ removed \subseteq Files
    /\ holdback \in BOOLEAN
    /\ told \subseteq Files
    /\ missed \subseteq Files

Delivered == dirPending = FALSE /\ filePending = {}

Settled == Delivered /\ ~ holdback
=============================================================================
