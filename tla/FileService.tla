------------------------------- MODULE FileService -------------------------------
(***************************************************************************)
(* The file service asks the scene whether it can open a MIME type or URL: *)
(* each call on the bus is queued under an id, which the scene answers, or *)
(* a timer does.  Ids are reused when the counter has wrapped around.      *)
(***************************************************************************)
EXTENDS Naturals, FiniteSets

CONSTANTS
  Ids,       \* the number of ids: 2^32 in the code
  MaxFiles   \* bound on the calls

VARIABLES
  connected,     \* a slot of the scene is connected to the request's signal
  nextCallId,    \* m_nextFileServiceCallId
  queued,        \* m_queuedFileServiceCalls: the call queued under an id
  timers,        \* the ids of the single shots that are running
  fileCalls, answers   \* calls made, and how often each was answered

fileVars == <<connected, nextCallId, queued, timers, fileCalls, answers>>

(* The counter wraps around, and skips 0.                                  *)
NextId(id) == IF (id + 1) % Ids = 0 THEN 1 ELSE (id + 1) % Ids

(* More than all ids are never in use in 30 seconds.                       *)
Room == Cardinality(timers) < Ids - 1 /\ nextCallId \notin timers

Answered(call) == [answers EXCEPT ![call] = @ + 1]

(* checkMimeSupported() and checkUrlSupported().                           *)
CheckSupported ==
    /\ fileCalls < MaxFiles /\ fileCalls' = fileCalls + 1
    /\ Room
    /\ IF connected
       THEN /\ nextCallId' = NextId(nextCallId)
            /\ queued' = [id \in DOMAIN queued \cup {nextCallId} |->
                            IF id = nextCallId THEN fileCalls' ELSE queued[id]]
            /\ timers' = timers \cup {nextCallId}
            /\ UNCHANGED answers
       ELSE answers' = Answered(fileCalls') /\ UNCHANGED <<nextCallId, queued, timers>>
    /\ UNCHANGED connected

(* Mutation: an answered call stays in the queue.                          *)
RespondAndKeep(id) ==
    IF id \in DOMAIN queued THEN answers' = Answered(queued[id]) /\ UNCHANGED queued
    ELSE UNCHANGED <<queued, answers>>

(* respondSupportCheck(): an id that is not queued was answered already.   *)
RespondSupportCheck(id) ==
    IF id \in DOMAIN queued
    THEN /\ answers' = Answered(queued[id])
         /\ queued' = [i \in DOMAIN queued \ {id} |-> queued[i]]
    ELSE UNCHANGED <<queued, answers>>

(* The scene answers, perhaps after the timer has, or once more.           *)
SceneAnswers(id) ==
    /\ RespondSupportCheck(id)
    /\ UNCHANGED <<connected, nextCallId, timers, fileCalls>>

Timeout(id) ==
    /\ id \in timers /\ timers' = timers \ {id}
    /\ RespondSupportCheck(id)
    /\ UNCHANGED <<connected, nextCallId, fileCalls>>

SceneConnects ==
    /\ connected' = ~connected
    /\ UNCHANGED <<nextCallId, queued, timers, fileCalls, answers>>

Init ==
    /\ connected \in BOOLEAN /\ nextCallId = 1
    /\ queued = [id \in {} |-> 0] /\ timers = {}
    /\ fileCalls = 0 /\ answers = [call \in 1 .. MaxFiles |-> 0]

Next ==
    \/ CheckSupported \/ SceneConnects
    \/ \E id \in 0 .. Ids - 1 : SceneAnswers(id) \/ Timeout(id)

(* A caller gets one answer, whoever is first and however late the other,  *)
(* and every call that is not answered has a timer that will answer it.    *)
AnsweredOnce ==
    \A call \in 1 .. MaxFiles :
        /\ answers[call] <= 1
        /\ call <= fileCalls /\ answers[call] = 0 =>
              \E id \in timers \cap DOMAIN queued : queued[id] = call

(* Every caller is answered in the end.                                    *)
EveryCallAnswered ==
    \A call \in 1 .. MaxFiles : (fileCalls >= call) ~> (answers[call] > 0)
=============================================================================
