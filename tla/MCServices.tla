------------------------------ MODULE MCServices ------------------------------
(* Smaller parts of the compositor and of the services around it, each in  *)
(* behaviours of its own: the activation of the session, the file service, *)
(* the recorder, screenshots, the interception of touches, and the         *)
(* notifications about the battery.                                        *)
EXTENDS Integers, Sequences

CONSTANTS MaxTries, Ids, MaxFiles,
          Recorders, Buffers, SmallBuffers, OtherBuffers, MaxFrames, MaxEvents,
          MaxShots, TouchWindows, Fingers, MaxTouch,
          MaxLevel, MaxReports,
          Parts  \* the parts that are checked

VARIABLES logind, known, sessionActive, tries, activation,
          connected, nextCallId, queued, timers, fileCalls, answers,
          recorders, bufferResource, shmBuffer, asking, requests, recording, events,
          exposed, updating, destroyed, sent, frameRequests, loose,
          results, deleting, eventFd, writer, activated, finished, waitingFor,
          touchable, surfaced, filters, later, intercepting, mouseFocus, grabber, seen,
          touchChanges, stray, mixed, left,
          current, previous, evaluation, failureTimer, repeating, repeatLevel,
          batteryShown, reports,
          part

ASSUME ServicesAssumption ==
    /\ {MaxTries, MaxFiles, MaxFrames, MaxEvents, MaxShots, MaxTouch, MaxLevel, MaxReports}
          \subseteq Nat
    /\ Ids \in Nat \ {0, 1}
    /\ Buffers \cup TouchWindows \subseteq Nat \ {0}
    /\ SmallBuffers \cup OtherBuffers \subseteq Buffers

sessionVars == <<logind, known, sessionActive, tries, activation>>
fileVars == <<connected, nextCallId, queued, timers, fileCalls, answers>>
recorderVars == <<recorders, bufferResource, shmBuffer, asking, requests, recording, events,
                  exposed, updating, destroyed, sent, frameRequests, loose>>
shotVars == <<results, deleting, eventFd, writer, activated, finished, waitingFor>>
touchVars == <<touchable, surfaced, filters, later, intercepting, mouseFocus, grabber, seen,
               touchChanges, stray, mixed, left>>
batteryVars == <<current, previous, evaluation, failureTimer, repeating, repeatLevel,
                 batteryShown, reports>>
vars == <<sessionVars, fileVars, recorderVars, shotVars, touchVars, batteryVars, part>>

Session == INSTANCE LogindSession
Files == INSTANCE FileService
Recorder == INSTANCE LipstickRecorder
Shots == INSTANCE ScreenshotService
Touch == INSTANCE TouchInterception
Battery == INSTANCE BatteryNotifier

Init ==
    /\ part \in Parts
    /\ Session!Init /\ Files!Init /\ Recorder!Init /\ Shots!Init /\ Touch!Init /\ Battery!Init
    /\ part # "session" => logind
    /\ part # "files" => connected

Next ==
    /\ UNCHANGED part
    /\ \/ /\ part = "session" /\ Session!Next
          /\ UNCHANGED <<fileVars, recorderVars, shotVars, touchVars, batteryVars>>
       \/ /\ part = "files" /\ Files!Next
          /\ UNCHANGED <<sessionVars, recorderVars, shotVars, touchVars, batteryVars>>
       \/ /\ part = "recorder" /\ Recorder!Next
          /\ UNCHANGED <<sessionVars, fileVars, shotVars, touchVars, batteryVars>>
       \/ /\ part = "shots" /\ Shots!Next
          /\ UNCHANGED <<sessionVars, fileVars, recorderVars, touchVars, batteryVars>>
       \/ /\ part = "touch" /\ Touch!Next
          /\ UNCHANGED <<sessionVars, fileVars, recorderVars, shotVars, batteryVars>>
       \/ /\ part = "battery" /\ Battery!Next
          /\ UNCHANGED <<sessionVars, fileVars, recorderVars, shotVars, touchVars>>

(* The main thread handles events and timers fire, logind answers, a       *)
(* window that is to be rendered is, and the threads of the pool run.      *)
Fairness ==
    /\ WF_sessionVars(part = "session" /\ Session!ActivateLogindSession)
    /\ WF_sessionVars(part = "session" /\ Session!ActivateSessionFinished)
    /\ \A id \in 1 .. Ids - 1 : WF_fileVars(part = "files" /\ Files!Timeout(id))
    /\ WF_recorderVars(part = "recorder" /\ updating /\ Recorder!Render)
    /\ \A r \in Recorders :
          /\ WF_recorderVars(part = "recorder" /\ Recorder!RequestFrame(r))
          /\ WF_recorderVars(part = "recorder" /\ Recorder!RecordFrame(r))
          /\ WF_recorderVars(part = "recorder" /\ Recorder!HandleEvent(r))
    /\ WF_shotVars(part = "shots" /\ Shots!Woken)
    /\ \A i \in 1 .. MaxShots :
          /\ WF_shotVars(part = "shots" /\ (Shots!Run(i) \/ Shots!Deleted(i)))
          /\ WF_shotVars(part = "shots" /\ (Shots!Poll(i) \/ Shots!NotifierActivated(i)))
    /\ WF_evaluation(part = "battery" /\ evaluation /\ evaluation' = FALSE)
    /\ WF_failureTimer(part = "battery" /\ failureTimer /\ failureTimer' = FALSE)

Spec == Init /\ [][Next]_vars /\ Fairness

-----------------------------------------------------------------------------

(* The activation of the session ends, and not too early; and every caller *)
(* of the file service gets one answer.                                    *)
RequestsAnswered ==
    /\ part = "session" => Session!ActivationEnds
    /\ part = "files" => Files!EveryCallAnswered
    /\ [](part = "files" => Files!AnsweredOnce)

(* A client that waits for each answer is told of a frame once and with    *)
(* the buffer that the frame is in; the render thread only meets recorders *)
(* that exist; and a client that asked to repaint after its request is     *)
(* answered, also if it asked again.                                       *)
FramesArrive == [](Recorder!FrameInBuffer /\ Recorder!RequestsLive) /\ Recorder!RepaintRecords

(* A cancelled event carries the old buffer, as the protocol says.         *)
CancelledOldBuffer == [][Recorder!CancelledOldBuffer]_recorderVars

(* A result reports what its own writer did, once; the main thread never   *)
(* blocks on a descriptor that nobody will write; and every result is      *)
(* reported and deleted.                                                   *)
ShotsReported == [](Shots!StatusOfWriter /\ Shots!WriterComes) /\ Shots!ResultsEnd

(* A client sees the whole of what its window is given of a touch or that  *)
(* it was cancelled, and nothing else, unless fingers are on several       *)
(* places; and an interception ends with the touch it began with.          *)
TouchesWhole == Touch!TouchesWhole /\ Touch!InterceptionEnds

(* What the notifications about the battery say is true, and a battery     *)
(* that is low goes on being warned about.                                 *)
BatteryShown ==
    /\ Battery!ShownIsTrue /\ Battery!LowIsWatched
    /\ Battery!NoUnwarnedFall /\ Battery!PowerExpected

(* A charger that does not start to charge is reported.                    *)
FailureReported == part = "battery" => Battery!FailureReported
=============================================================================
