--------------------------- MODULE LipstickCompositor ---------------------------
(***************************************************************************)
(* The windows of the compositor: surfaces of clients come and go and get  *)
(* windows, which are deleted later, by the event loop; windows of the     *)
(* process itself have no surface.  A window model lists the windows that  *)
(* have been mapped, and a pixmap item shows the surface of one of them.   *)
(***************************************************************************)
EXTENDS Integers, Sequences, SequencesExt

CONSTANTS
  Processes,    \* the processes of the clients
  MaxSurfaces,  \* bound on the surfaces created
  MaxWindows,   \* bound on the windows ever made
  MaxSelected   \* bound on what is asked of the compositor by the scene

VARIABLES
  surfaces,        \* every surface ever created, the destroyed ones as well
  windows,         \* m_windows: what the window of an id is
  mappedSurfaces,  \* the ids in m_mappedSurfaces
  nextWindowId,    \* m_nextWindowId
  deleted,         \* windows with a pending deleteLater()
  listed,          \* m_items of the window model
  complete,        \* m_complete of the window model
  topmostWindowId, topmostProcessId,
  pixmap,          \* m_id and the surface of the pixmap item
  watched,         \* windows whose destruction the pixmap item hears of
  selected

windowVars == <<windows, mappedSurfaces, nextWindowId, listed>>
sceneVars == <<complete, topmostWindowId, topmostProcessId, selected>>
pixmapVars == <<pixmap, watched>>

None == 0

-----------------------------------------------------------------------------
(* Windows *)

IsInProcess(id) == windows[id].surface = None /\ windows[id].process = None

WindowsOf(s) == {id \in DOMAIN windows : windows[id].surface = s}

(* WindowModel::approveWindow(); clients' windows have no category.        *)
Approved(id) == id \in DOMAIN windows /\ ~IsInProcess(id)

(* WindowModel::addItem() and remItem(); windows in process are not added. *)
AddItem(id) == listed' = IF complete THEN Append(listed, id) ELSE listed
RemItem(id) ==
    \/ id \notin ToSet(listed) /\ UNCHANGED listed
    \/ \E i \in DOMAIN listed :
          /\ listed[i] = id /\ \A j \in 1 .. i - 1 : listed[j] # id
          /\ listed' = RemoveAt(listed, i)

(* The window is no longer mapped, and leaves the model if that is alive.  *)
SurfaceUnmapped(id) ==
    /\ mappedSurfaces' = mappedSurfaces \ {id}
    /\ RemItem(id)

(* A window with the next id.                                              *)
WithWindow(w) ==
    [id \in DOMAIN windows \cup {nextWindowId} |-> IF id = nextWindowId THEN w ELSE windows[id]]

(* createView(): a window for a surface, not mapped yet.                   *)
WithView(s) ==
    WithWindow([surface |-> s, process |-> surfaces'[s].process, mapped |-> FALSE])

CreateView(s) ==
    /\ nextWindowId <= MaxWindows
    /\ windows' = WithView(s)
    /\ nextWindowId' = nextWindowId + 1

(* The window with this id among ws is mapped, but for the first time only. *)
SurfaceMapped(id, ws) ==
    IF ws[id].mapped THEN windows' = ws /\ UNCHANGED <<mappedSurfaces, listed>>
    ELSE /\ windows' = [ws EXCEPT ![id].mapped = TRUE]
         /\ mappedSurfaces' = mappedSurfaces \cup {id}
         /\ AddItem(id)

-----------------------------------------------------------------------------
(* What clients do *)

(* "popup" is the window that the surface's popup was made with, also when *)
(* the window or the surface is gone; "doomed" (history) says that it was  *)
(* to be deleted already, or that the end of another popup deletes it.     *)
OnSurfaceCreated(p) ==
    /\ Len(surfaces) < MaxSurfaces
    /\ surfaces' = Append(surfaces, [process |-> p, alive |-> TRUE, content |-> FALSE,
                                     role |-> "none", popup |-> None, doomed |-> FALSE])
    /\ CreateView(Len(surfaces'))
    /\ UNCHANGED <<mappedSurfaces, listed, deleted, sceneVars, pixmapVars>>

Living == {s \in DOMAIN surfaces : surfaces[s].alive}

(* The client makes the surface its cursor; a role is for good.            *)
SetCursor(s) ==
    /\ s \in Living /\ surfaces[s].role = "none"
    /\ surfaces' = [surfaces EXCEPT ![s].role = "cursor"]
    /\ UNCHANGED <<windowVars, deleted, sceneVars, pixmapVars>>

(* The surface gets or loses its buffer.  A surface can have outlived the  *)
(* window that it had as a popup, and gets another one then.               *)
OnHasContentChanged(s) ==
    /\ s \in Living
    /\ surfaces' = [surfaces EXCEPT ![s].content = ~@]
    /\ IF surfaces[s].role = "cursor" THEN UNCHANGED windowVars
       ELSE IF surfaces'[s].content
       THEN IF WindowsOf(s) # {}
            THEN \E id \in WindowsOf(s) : SurfaceMapped(id, windows) /\ UNCHANGED nextWindowId
            ELSE /\ nextWindowId <= MaxWindows /\ nextWindowId' = nextWindowId + 1
                 /\ SurfaceMapped(nextWindowId, WithView(s))
       ELSE /\ UNCHANGED <<windows, nextWindowId>>
            /\ IF WindowsOf(s) = {} THEN UNCHANGED <<mappedSurfaces, listed>>
               ELSE \E id \in WindowsOf(s) : SurfaceUnmapped(id)
    /\ UNCHANGED <<deleted, sceneVars, pixmapVars>>

(* The surface becomes a popup, maybe again, on the window it has: that of *)
(* its last popup, if the event loop has not deleted it yet.               *)
MakePopup(s, window, isDoomed) ==
    surfaces' = [surfaces EXCEPT ![s].role = "popup", ![s].popup = window, ![s].doomed = isDoomed]

OnPopupCreated(s) ==
    /\ s \in Living /\ surfaces[s].role # "cursor" /\ surfaces[s].popup = None
    /\ \/ WindowsOf(s) = {} /\ MakePopup(s, nextWindowId, FALSE) /\ CreateView(s)
       \/ \E id \in WindowsOf(s) : MakePopup(s, id, id \in deleted) /\ UNCHANGED <<windows, nextWindowId>>
    /\ UNCHANGED <<mappedSurfaces, listed, deleted, sceneVars, pixmapVars>>

(* The popup ends, maybe after its surface, and deleteLater() is called on *)
(* its window.  If that is gone the call goes wherever its memory went: to *)
(* no window, or to one that was made later.                               *)
PopupDestroyed(s) ==
    /\ surfaces[s].popup # None
    /\ LET window == surfaces[s].popup
           hits == IF window \in DOMAIN windows THEN {window}
                   ELSE {None} \cup {id \in DOMAIN windows : id > window}
       IN  \E hit \in hits :
              /\ deleted' = deleted \cup ({hit} \ {None})
              /\ surfaces' = [t \in DOMAIN surfaces |->
                   IF t = s THEN [surfaces[t] EXCEPT !.popup = None, !.doomed = FALSE]
                   ELSE [surfaces[t] EXCEPT !.doomed = @ \/ (hit # None /\ surfaces[t].popup = hit)]]
    /\ UNCHANGED <<windowVars, sceneVars, pixmapVars>>

(* surfaceDestroyed(): Qt takes the surface from its views, the window and *)
(* the pixmap item; the window will be deleted.  Its popup ends later, and *)
(* is all that is left of it.                                              *)
SurfaceDestroyed(s) ==
    /\ s \in Living
    /\ surfaces' = [surfaces EXCEPT ![s].alive = FALSE, ![s].content = FALSE, ![s].role = "none"]
    /\ windows' = [id \in DOMAIN windows |->
                     IF windows[id].surface = s THEN [windows[id] EXCEPT !.surface = None]
                     ELSE windows[id]]
    /\ deleted' = deleted \cup WindowsOf(s)
    /\ pixmap' = IF pixmap.surface = s THEN [pixmap EXCEPT !.surface = None] ELSE pixmap
    /\ UNCHANGED <<mappedSurfaces, nextWindowId, listed, sceneVars, watched>>

(* Mutation: nobody tells the pixmap item.                                 *)
WindowDestroyedSilently(id) ==
    /\ id \in deleted /\ deleted' = deleted \ {id}
    /\ windows' = [i \in DOMAIN windows \ {id} |-> windows[i]]
    /\ SurfaceUnmapped(id)
    /\ UNCHANGED <<surfaces, nextWindowId, sceneVars, pixmapVars>>

(* The event loop deletes a window: windowDestroyed(), and the pixmap item *)
(* is emptied if it ever showed the window.                                *)
WindowDestroyed(id) ==
    /\ id \in deleted /\ deleted' = deleted \ {id}
    /\ windows' = [i \in DOMAIN windows \ {id} |-> windows[i]]
    /\ SurfaceUnmapped(id)
    /\ pixmap' = IF id \in watched THEN [id |-> None, surface |-> None] ELSE pixmap
    /\ watched' = watched \ {id}
    /\ UNCHANGED <<surfaces, nextWindowId, sceneVars>>

-----------------------------------------------------------------------------
(* What the home screen does *)

Proc == {id \in DOMAIN windows : IsInProcess(id)}

(* A dead client's window has no surface either, but keeps its process.    *)
MapProcWindow ==
    /\ nextWindowId <= MaxWindows
    /\ windows' = WithWindow([surface |-> None, process |-> None, mapped |-> FALSE])
    /\ mappedSurfaces' = mappedSurfaces \cup {nextWindowId}
    /\ nextWindowId' = nextWindowId + 1
    /\ UNCHANGED <<surfaces, deleted, listed, sceneVars, pixmapVars>>

Hide(id) ==
    /\ id \in Proc \cap mappedSurfaces
    /\ UNCHANGED <<surfaces, windows, nextWindowId, deleted, sceneVars, pixmapVars>>
    /\ SurfaceUnmapped(id)

(* The model starts with what is mapped, in the order of a hash table.     *)
ComponentComplete ==
    /\ ~complete /\ complete' = TRUE
    /\ listed' \in SetToSeqs({id \in mappedSurfaces : Approved(id)})
    /\ UNCHANGED <<surfaces, windows, mappedSurfaces, nextWindowId, deleted,
                   topmostWindowId, topmostProcessId, selected, pixmapVars>>

SetTopmostWindowId(id) ==
    /\ selected < MaxSelected /\ selected' = selected + 1
    /\ topmostWindowId' = id /\ topmostWindowId # id
    /\ topmostProcessId' = IF id \in DOMAIN windows THEN windows[id].process ELSE -1
    /\ UNCHANGED <<surfaces, windowVars, deleted, complete, pixmapVars>>

(* WindowPixmapItem::setWindowId(); destruction is heard of from then on.  *)
SetWindowId(id) ==
    /\ selected < MaxSelected /\ selected' = selected + 1
    /\ pixmap.id # id
    /\ LET surface == IF id = None THEN None ELSE windows[id].surface
       IN  /\ pixmap' = [id |-> id, surface |-> surface]
           /\ watched' = IF surface = None THEN watched ELSE watched \cup {id}
    /\ UNCHANGED <<surfaces, windowVars, deleted, complete, topmostWindowId, topmostProcessId>>

-----------------------------------------------------------------------------

Init ==
    /\ surfaces = <<>> /\ windows = <<>>
    /\ mappedSurfaces = {} /\ deleted = {} /\ nextWindowId = 1
    /\ listed = <<>> /\ complete = FALSE
    /\ topmostWindowId = None /\ topmostProcessId = 0
    /\ pixmap = [id |-> None, surface |-> None] /\ watched = {}
    /\ selected = 0

Next ==
    \/ \E p \in Processes : OnSurfaceCreated(p)
    \/ \E s \in DOMAIN surfaces :
          \/ OnHasContentChanged(s) \/ SetCursor(s) \/ OnPopupCreated(s)
          \/ PopupDestroyed(s) \/ SurfaceDestroyed(s)
    \/ \E id \in deleted : WindowDestroyed(id)
    \/ MapProcWindow
    \/ \E id \in Proc : Hide(id)
    \/ ComponentComplete
    \/ \E id \in DOMAIN windows \cup {None} : SetTopmostWindowId(id) \/ SetWindowId(id)

-----------------------------------------------------------------------------
(* Properties *)

(* The window model lists the mapped windows of clients, each once and     *)
(* none that is deleted, whenever it was completed, however the windows of *)
(* popups come and go, and whichever way a window ends.                    *)
ModelAgrees ==
    /\ complete => ToSet(listed) = {id \in mappedSurfaces : Approved(id)}
    /\ IsInjective(listed)
    /\ mappedSurfaces \subseteq DOMAIN windows

(* A surface never has two windows; a popup keeps the window it was made   *)
(* with for as long as its surface lives, unless that window was to be     *)
(* deleted already; and a mapped window of a living surface has content,   *)
(* or the surface has become a cursor.                                     *)
SurfaceHasView ==
    /\ \A s \in Living : Cardinality(WindowsOf(s)) <= 1
    /\ \A s \in Living : surfaces[s].popup # None /\ ~surfaces[s].doomed =>
          WindowsOf(s) = {surfaces[s].popup}
    /\ \A id \in mappedSurfaces : windows[id].surface # None =>
          surfaces[windows[id].surface].content \/ surfaces[windows[id].surface].role = "cursor"

(* The process announced for the topmost window is its process for as long *)
(* as the window exists, mapped or not.                                    *)
TopmostProcess ==
    topmostWindowId \in DOMAIN windows => topmostProcessId = windows[topmostWindowId].process

(* The pixmap item never shows a surface whose window has been deleted.    *)
NoDeadPixmap ==
    pixmap.surface # None =>
        pixmap.id \in DOMAIN windows /\ windows[pixmap.id].surface = pixmap.surface
=============================================================================
