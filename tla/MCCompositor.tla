------------------------------ MODULE MCCompositor ------------------------------
(* The windows of the compositor, and the updates that MCE allows it, each *)
(* in behaviours of its own.                                               *)
EXTENDS Naturals, Sequences

CONSTANTS Processes, MaxSurfaces, MaxWindows, MaxSelected,
          Windows, MaxRestarts, MaxUpdates

VARIABLES surfaces, windows, mappedSurfaces, nextWindowId, deleted, listed, complete,
          topmostWindowId, topmostProcessId, pixmap, watched, selected,
          mce, instances, bus, asked, nameOwner, ownerValid, queue, processing, lastCall,
          updatesEnabled, shown, unfocusedId, focus, topmost, existing, lockVisible,
          ambient, wakeups, updates,
          part

ASSUME CompositorAssumption ==
    /\ Processes \cup Windows \subseteq Nat \ {0}
    /\ {MaxSurfaces, MaxWindows, MaxSelected, MaxRestarts, MaxUpdates} \subseteq Nat

windowVars == <<surfaces, windows, mappedSurfaces, nextWindowId, deleted, listed, complete,
                topmostWindowId, topmostProcessId, pixmap, watched, selected>>
updateVars == <<mce, instances, bus, asked, nameOwner, ownerValid, queue, processing, lastCall,
                updatesEnabled, shown, unfocusedId, focus, topmost, existing, lockVisible,
                ambient, wakeups, updates>>
vars == <<windowVars, updateVars, part>>

Views == INSTANCE LipstickCompositor
Updates == INSTANCE CompositorUpdates

Init ==
    /\ part \in {"windows", "updates"}
    /\ Views!Init /\ Updates!Init
    /\ part # "updates" => mce = 1 /\ ~ambient

Next ==
    /\ UNCHANGED part
    /\ \/ part = "windows" /\ Views!Next /\ UNCHANGED updateVars
       \/ part = "updates" /\ Updates!Next /\ UNCHANGED windowVars

Spec == Init /\ [][Next]_vars

-----------------------------------------------------------------------------

(* The model lists what is mapped; a surface has one window at most, and a *)
(* popup keeps the one it was made with unless that was to be deleted; the *)
(* process announced for the topmost window is that window's; and the      *)
(* pixmap item shows no surface whose window is deleted.                   *)
WindowsAgree ==
    /\ Views!ModelAgrees /\ Views!SurfaceHasView
    /\ Views!TopmostProcess /\ Views!NoDeadPixmap

(* With nothing under way the compositor does what MCE asked for last: no  *)
(* call is forgotten in the queue, and one wakeup is due at most.          *)
UpdatesFollowMce == Updates!UpdatesFollowMce /\ Updates!OneWakeup /\ Updates!QueueServed

(* No update but the next one gives the focus back that the last took.     *)
NoLateFocus == Updates!NoLateFocus
=============================================================================
