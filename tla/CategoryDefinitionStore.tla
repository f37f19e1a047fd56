------------------------ MODULE CategoryDefinitionStore ------------------------
(***************************************************************************)
(* The definitions of notification categories: files that are read when    *)
(* first needed, kept in memory up to a maximum, and watched for changes.  *)
(*                                                                         *)
(* A file is abstracted to its version and to whether it can be used (not  *)
(* empty, not too large, well-formed).                                     *)
(***************************************************************************)
EXTENDS Naturals, Sequences

CONSTANTS
  Categories,
  MaxStored,         \* m_maxStoredCategoryDefinitions
  MaxVersions        \* bound on the times a file is written

VARIABLES
  files,             \* the directory: category -> [version, usable], a partial function
  written,           \* how often a file was written
  listChanged,       \* the watcher has noticed a change of the directory
  fileChanged,       \* the files it has noticed a change of
  watched,           \* the files it watches
  ended,             \* those it still lists although they have been removed
  knownFiles,        \* m_categoryDefinitionFiles
  definitions,       \* m_categoryDefinitions: category -> version, a partial function
  usage,             \* m_categoryDefinitionUsage
  overlooked         \* history: those in memory whose file changed unwatched since it was read

categoryVars == <<files, written, listChanged, fileChanged, watched, ended, knownFiles,
                  definitions, usage, overlooked>>

Put(f, c, v) == [d \in DOMAIN f \cup {c} |-> IF d = c THEN v ELSE f[d]]
Without(f, S) == [d \in DOMAIN f \ S |-> f[d]]

-----------------------------------------------------------------------------
(* Packages install, rewrite and remove files; the watcher notices. *)

WriteFile(c, usable) ==
  /\ written < MaxVersions /\ written' = written + 1
  /\ files' = Put(files, c, [version |-> written', usable |-> usable])
  /\ listChanged' = (listChanged \/ c \notin DOMAIN files)
  /\ fileChanged' = fileChanged \cup ({c} \cap watched)
  /\ overlooked' = overlooked \cup (({c} \cap DOMAIN definitions) \ watched)
  /\ UNCHANGED <<watched, ended, knownFiles, definitions, usage>>

(* The watch of a file goes with it.  That it is gone shows in the list of   *)
(* files, unless the store did not know of it yet.                           *)
DeleteFile(c) ==
  /\ c \in DOMAIN files
  /\ files' = Without(files, {c})
  /\ listChanged' = TRUE
  /\ fileChanged' = fileChanged \cup ({c} \cap watched)
  /\ watched' = watched \ {c}
  /\ ended' = ended \cup ({c} \cap watched)
  /\ overlooked' = overlooked \cup (({c} \cap DOMAIN definitions) \ knownFiles)
  /\ UNCHANGED <<written, knownFiles, definitions, usage>>

-----------------------------------------------------------------------------
(* The store *)

(* Mutation: a definition in memory is not read again. *)
LoadSettingsOnce(c) ==
  IF c \in DOMAIN files \ DOMAIN definitions /\ files[c].usable
    THEN Put(definitions, c, files[c].version) ELSE definitions

(* A file that cannot be used leaves what is in memory as it is. *)
LoadSettings(c) ==
  IF c \in DOMAIN files /\ files[c].usable THEN Put(definitions, c, files[c].version) ELSE definitions

(* Definitions of removed files are forgotten and with them what the watcher *)
(* still has to tell of the files; new files are watched, unless the watcher *)
(* still lists a file of that name.                                          *)
UpdateCategoryDefinitionFileList ==
  LET removedFiles == knownFiles \ DOMAIN files
  IN /\ listChanged
     /\ listChanged' = FALSE
     /\ knownFiles' = DOMAIN files
     /\ definitions' = Without(definitions, removedFiles)
     /\ watched' = DOMAIN files \ ended
     /\ ended' = ended \ removedFiles
     /\ fileChanged' = fileChanged \ removedFiles
     /\ overlooked' = overlooked \cap DOMAIN definitions'
     /\ UNCHANGED <<files, written, usage>>

(* The watcher forgets a file as it tells of its removal. *)
UpdateCategoryDefinitionFile(c) ==
  /\ c \in fileChanged
  /\ fileChanged' = fileChanged \ {c}
  /\ ended' = ended \ {c}
  /\ definitions' = IF c \in DOMAIN files THEN LoadSettings(c) ELSE definitions
  /\ overlooked' = IF c \in DOMAIN files /\ files[c].usable THEN overlooked \ {c} ELSE overlooked
  /\ UNCHANGED <<files, written, listChanged, watched, knownFiles, usage>>

(* A definition that is not in memory is loaded when it is asked for. *)
CategoryDefinitionExists(c) == IF c \in DOMAIN definitions THEN definitions ELSE LoadSettings(c)

(* It becomes the one used last; what exceeds the maximum is dropped. *)
CategoryDefinitionAccessed(c, loaded) ==
  LET used == <<c>> \o SelectSeq(usage, LAMBDA d : d # c) IN
  /\ usage' = SubSeq(used, 1, IF Len(used) < MaxStored THEN Len(used) ELSE MaxStored)
  /\ definitions' = Without(loaded, {used[i] : i \in MaxStored + 1 .. Len(used)})

(* allKeys(), contains(), value() or categoryParameters() is called. *)
Ask(c) ==
  /\ LET loaded == CategoryDefinitionExists(c) IN
     IF c \in DOMAIN loaded THEN CategoryDefinitionAccessed(c, loaded)
                            ELSE UNCHANGED <<usage, definitions>>
  /\ overlooked' = overlooked \cap DOMAIN definitions'
  /\ UNCHANGED <<files, written, listChanged, fileChanged, watched, ended, knownFiles>>

Init ==
  /\ \E D \in SUBSET Categories :
       /\ files = [c \in D |-> [version |-> 0, usable |-> TRUE]]
       /\ watched = D /\ knownFiles = D
  /\ written = 0 /\ listChanged = FALSE /\ fileChanged = {} /\ ended = {}
  /\ definitions = [c \in {} |-> 0] /\ usage = <<>> /\ overlooked = {}

Next ==
  \/ UpdateCategoryDefinitionFileList
  \/ \E c \in Categories :
       \/ \E usable \in BOOLEAN : WriteFile(c, usable)
       \/ DeleteFile(c)
       \/ UpdateCategoryDefinitionFile(c)
       \/ Ask(c)

-----------------------------------------------------------------------------
(* Once the watcher's signals are handled, in whatever order, a definition   *)
(* in memory is that of its file, unless the file cannot be used any more,   *)
(* or has changed since it was read while nothing watched it.                *)
DefinitionsFresh ==
  ~listChanged /\ fileChanged = {} =>
    \A c \in DOMAIN definitions \ overlooked :
      c \in DOMAIN files /\ (files[c].usable => definitions[c] = files[c].version)
=============================================================================
