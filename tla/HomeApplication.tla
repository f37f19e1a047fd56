---------------------------- MODULE HomeApplication ----------------------------
(***************************************************************************)
(* The start of the home screen: its compositor, its main window with the  *)
(* QML scene in it, and the signal that tells the system that home is      *)
(* ready.  A window is a surface of the compositor's own process; every    *)
(* time it is shown it gets a new one, and takes its scene along.          *)
(*                                                                         *)
(* The program creates the compositor before its windows; the mode without *)
(* a compositor, for debugging, is left out.                               *)
(***************************************************************************)
EXTENDS Naturals

CONSTANT MaxStartup \* bound on the calls of the program

VARIABLES
  compositorPath, \* m_compositorPath is set
  compositor,     \* LipstickCompositor::instance() exists
  qmlPath,        \* m_qmlPath is set
  mainWindow,     \* m_mainWindowInstance: "none", "hidden" or "visible"
  surfaceId,      \* d->compositorWindow; 0 is none
  scene,          \* d->root: the number of the scene loaded; 0 is none
  sceneIn,        \* the surface that is the parent item of the scene
  connections,    \* connections of frameSwapped to the signal's sender
  homeReadySent,  \* m_homeReadySent
  readySignals,   \* times that homeReady was emitted
  startup         \* calls so far, which also number surfaces and scenes

windowVars == <<mainWindow, surfaceId, scene, sceneIn>>
readyVars == <<connections, homeReadySent, readySignals>>

-----------------------------------------------------------------------------
(* The window *)

Call == startup < MaxStartup /\ startup' = startup + 1

(* HomeWindow::setSource(): the old scene goes even if the new one fails.  *)
SetSource(loads) ==
    /\ scene' = IF loads THEN startup' ELSE 0
    /\ sceneIn' = IF loads THEN surfaceId ELSE 0

(* Mutation: a window without a scene is not listened to.                  *)
ConnectWithScene ==
    connections' = IF homeReadySent \/ scene = 0 THEN connections ELSE connections + 1

(* connectFrameSwappedSignal()                                             *)
ConnectFrameSwapped ==
    connections' = IF homeReadySent THEN connections ELSE connections + 1

(* HomeWindow::show() and showFullScreen()                                 *)
ShowWindow ==
    /\ Call
    /\ mainWindow = "hidden" /\ mainWindow' = "visible"
    /\ surfaceId' = startup'
    /\ sceneIn' = IF scene # 0 THEN surfaceId' ELSE sceneIn
    /\ ConnectFrameSwapped
    /\ UNCHANGED <<compositorPath, compositor, qmlPath, scene, homeReadySent, readySignals>>

(* HomeWindow::hide(): the surface is left to the compositor.              *)
HideWindow ==
    /\ Call
    /\ mainWindow = "visible" /\ mainWindow' = "hidden"
    /\ surfaceId' = 0
    /\ UNCHANGED <<compositorPath, compositor, qmlPath, scene, sceneIn, readyVars>>

-----------------------------------------------------------------------------
(* The application *)

(* A second path is refused, also when the first could not be loaded.      *)
SetCompositorPath(loads) ==
    /\ Call
    /\ ~compositorPath
    /\ compositorPath' = TRUE
    /\ compositor' = loads
    /\ UNCHANGED <<qmlPath, windowVars, readyVars>>

SetQmlPath(loads) ==
    /\ Call
    /\ qmlPath' = TRUE
    /\ IF mainWindow # "none" THEN SetSource(loads) ELSE UNCHANGED <<scene, sceneIn>>
    /\ UNCHANGED <<compositorPath, compositor, mainWindow, surfaceId, readyVars>>

MainWindowInstance(loads) ==
    /\ Call
    /\ compositor
    /\ mainWindow = "none" /\ mainWindow' = "hidden"
    /\ IF qmlPath THEN SetSource(loads) ELSE UNCHANGED <<scene, sceneIn>>
    /\ UNCHANGED <<compositorPath, compositor, qmlPath, surfaceId, readyVars>>

(* sendHomeReadySignalIfNotAlreadySent(): its disconnect, by member        *)
(* pointer, leaves the connections alone, which were made by name.         *)
SendHomeReady ==
    /\ ~homeReadySent /\ homeReadySent' = TRUE
    /\ readySignals' = readySignals + 1
    /\ UNCHANGED connections

FrameSwapped ==
    /\ connections > 0
    /\ SendHomeReady
    /\ UNCHANGED <<compositorPath, compositor, qmlPath, windowVars, startup>>

Init ==
    /\ compositorPath = FALSE /\ compositor = FALSE /\ qmlPath = FALSE
    /\ mainWindow = "none" /\ surfaceId = 0 /\ scene = 0 /\ sceneIn = 0
    /\ connections = 0 /\ homeReadySent = FALSE /\ readySignals = 0
    /\ startup = 0

Next ==
    \/ \E loads \in BOOLEAN : SetCompositorPath(loads) \/ SetQmlPath(loads) \/ MainWindowInstance(loads)
    \/ ShowWindow \/ HideWindow \/ FrameSwapped

-----------------------------------------------------------------------------
(* Properties *)

(* Home is announced once, however often its window is hidden and shown    *)
(* before the first frame and after; and until it is announced somebody    *)
(* listens to the frames of a window on show.                              *)
ReadyOnce ==
    /\ readySignals = IF homeReadySent THEN 1 ELSE 0
    /\ mainWindow = "visible" => homeReadySent \/ connections > 0

(* What a visible window shows is the scene that was loaded last, also if  *)
(* it was loaded while the window was hidden, or shown on another surface. *)
SceneShown == mainWindow = "visible" /\ scene # 0 => sceneIn = surfaceId

(* A home screen that has been shown is announced.                         *)
ReadyInTheEnd == mainWindow = "visible" ~> readySignals = 1
=============================================================================
