----------------------------- MODULE LipstickRecorder -----------------------------
(***************************************************************************)
(* The recorder protocol: clients ask for the next frame in a buffer, the  *)
(* render thread fills the buffers of all requests and posts events to the *)
(* main thread, which tells the clients.  The lock of the requests is held *)
(* for the whole of recordFrame(); what the recorders keep has none.       *)
(***************************************************************************)
EXTENDS Naturals, Sequences

CONSTANTS
  Recorders,   \* one for each client
  Buffers,     \* the clients' buffers
  SmallBuffers, OtherBuffers,  \* buffers too small, and not in shared memory
  MaxFrames,   \* bound on the requests
  MaxEvents    \* bound on the events posted to a recorder and not handled

VARIABLES
  recorders,       \* the recorders that exist
  bufferResource,  \* m_bufferResource of each
  shmBuffer,       \* m_buffer of each, which the render thread reads
  asking,          \* the recorder in record_frame that waits for the lock
  requests,        \* m_requests: how often it holds each recorder
  recording,       \* what recordFrame() still has to record, under the lock
  events,          \* what the render thread has posted to each
  exposed,         \* the window is on the screen
  updating,        \* the window is to be rendered
  destroyed,       \* the buffers that the clients destroyed
  sent,            \* what a client was told last
  frameRequests,
  loose            \* history: recorders that were asked again before the answer,
                   \* whose buffer was destroyed before it, or was too small, until
                   \* nothing is left of their requests

frameVars == <<asking, requests, recording>>
windowVars == <<exposed, updating>>
recorderVars == <<recorders, bufferResource, shmBuffer, frameVars, events, windowVars,
                  destroyed, sent, frameRequests, loose>>

None == 0

Locked == \E r \in Recorders : recording[r] > 0

Told(r, kind, buffer) == sent' = [sent EXCEPT ![r] = [kind |-> kind, buffer |-> buffer]]

-----------------------------------------------------------------------------
(* Clients, in the main thread *)

CreateRecorder(r) ==
    /\ asking = {}
    /\ r \notin recorders /\ recorders' = recorders \cup {r}
    /\ UNCHANGED <<bufferResource, shmBuffer, frameVars, events, windowVars, destroyed, sent,
                   frameRequests, loose>>

(* ~LipstickRecorder(): Qt drops what is posted to it as well.             *)
Forget(r) ==
    /\ ~Locked /\ requests' = [requests EXCEPT ![r] = 0]
    /\ events' = [events EXCEPT ![r] = <<>>]

Destroy(r) ==
    /\ asking = {}
    /\ r \in recorders /\ recorders' = recorders \ {r}
    /\ Forget(r)
    /\ bufferResource' = [bufferResource EXCEPT ![r] = None]
    /\ shmBuffer' = [shmBuffer EXCEPT ![r] = None]
    /\ sent' = [sent EXCEPT ![r] = [kind |-> "none", buffer |-> None]]
    /\ loose' = loose \ {r}
    /\ UNCHANGED <<asking, recording, windowVars, destroyed, frameRequests>>

(* record_frame, up to the lock.  A client that was not answered yet is    *)
(* told first that its request is cancelled.                               *)
RecordFrameRequest(r, buffer) ==
    /\ asking = {} /\ frameRequests < MaxFrames /\ frameRequests' = frameRequests + 1
    /\ r \in recorders /\ buffer \notin destroyed
    /\ loose' = IF bufferResource[r] # None THEN loose \cup {r} ELSE loose
    /\ IF buffer \in OtherBuffers
       THEN /\ bufferResource' = [bufferResource EXCEPT ![r] = None]
            /\ shmBuffer' = [shmBuffer EXCEPT ![r] = None]
            /\ Told(r, "failed", buffer)
            /\ UNCHANGED asking
       ELSE /\ bufferResource' = [bufferResource EXCEPT ![r] = buffer]
            /\ shmBuffer' = [shmBuffer EXCEPT ![r] = buffer]
            /\ asking' = {r}
            /\ IF bufferResource[r] # None THEN Told(r, "cancelled", buffer) ELSE UNCHANGED sent
    /\ UNCHANGED <<recorders, requests, recording, events, windowVars, destroyed>>

(* requestFrame(): the rest of record_frame, under the lock.               *)
RequestFrame(r) ==
    /\ r \in asking /\ asking' = {}
    /\ ~Locked /\ requests' = [requests EXCEPT ![r] = @ + 1]
    /\ UNCHANGED <<recorders, bufferResource, shmBuffer, recording, events, windowVars, destroyed,
                   sent, frameRequests, loose>>

Repaint(r) ==
    /\ asking = {}
    /\ r \in recorders /\ bufferResource[r] # None
    /\ updating' = TRUE
    /\ UNCHANGED <<recorders, bufferResource, shmBuffer, frameVars, events, exposed, destroyed,
                   sent, frameRequests, loose>>

(* A client destroys a buffer: no recorder learns of that.                 *)
DestroyBuffer(buffer) ==
    /\ asking = {} /\ buffer \notin destroyed /\ destroyed' = destroyed \cup {buffer}
    /\ loose' = loose \cup {r \in Recorders : /\ shmBuffer[r] = buffer
                                              /\ requests[r] > 0 \/ bufferResource[r] # None}
    /\ UNCHANGED <<recorders, bufferResource, shmBuffer, frameVars, events, windowVars, sent,
                   frameRequests>>

-----------------------------------------------------------------------------
(* The window, and the render thread *)

(* A window that appears is rendered, one that is hidden is not.           *)
Expose ==
    /\ asking = {} /\ exposed' = ~exposed
    /\ updating' \in IF exposed THEN {updating} ELSE {TRUE}
    /\ UNCHANGED <<recorders, bufferResource, shmBuffer, frameVars, events, destroyed, sent,
                   frameRequests, loose>>

(* The window is rendered, because it is to be or for a reason of its own, *)
(* and recordFrame() takes the lock and the recorders that are in the      *)
(* requests, each as often as it is.                                       *)
Render ==
    /\ exposed /\ ~Locked
    /\ updating \/ \E r \in Recorders : requests[r] > 0
    /\ \A r \in Recorders : requests[r] > 0 => Len(events[r]) + requests[r] <= MaxEvents
    /\ updating' = FALSE
    /\ recording' = requests
    /\ UNCHANGED <<recorders, bufferResource, shmBuffer, asking, requests, events, exposed,
                   destroyed, sent, frameRequests, loose>>

Event(kind, buffer) == [kind |-> kind, buffer |-> buffer]

(* What is read of a buffer that was destroyed is anything.                *)
Outcomes(buffer) ==
    CASE buffer \in destroyed    -> {"frame", "failed"}
      [] buffer \in SmallBuffers -> {"failed"}
      [] OTHER                   -> {"frame"}

(* Mutation: a request stays after its frame.                              *)
RemoveNoRequest(r) == UNCHANGED requests

(* m_requests.remove(), which removes all that are equal.                  *)
RemoveRequests(r) == requests' = [requests EXCEPT ![r] = 0]

(* One recorder of the loop of recordFrame().  A request that fails is     *)
(* posted and stays.                                                       *)
RecordFrame(r) ==
    /\ recording[r] > 0 /\ recording' = [recording EXCEPT ![r] = @ - 1]
    /\ \/ /\ shmBuffer[r] = None
          /\ UNCHANGED <<requests, events, loose>>
       \/ /\ shmBuffer[r] # None
          /\ \E kind \in Outcomes(shmBuffer[r]) :
                /\ events' = [events EXCEPT ![r] = Append(@, Event(kind, shmBuffer[r]))]
                /\ IF kind = "frame"
                   THEN RemoveRequests(r) /\ UNCHANGED loose
                   ELSE loose' = loose \cup {r} /\ UNCHANGED requests
    /\ UNCHANGED <<recorders, bufferResource, shmBuffer, asking, windowVars, destroyed, sent,
                   frameRequests>>

(* LipstickRecorder::event() in the main thread.                           *)
HandleEvent(r) ==
    /\ asking = {}
    /\ events[r] # <<>> /\ events' = [events EXCEPT ![r] = Tail(@)]
    /\ Told(r, Head(events[r]).kind, bufferResource[r])
    /\ bufferResource' = [bufferResource EXCEPT ![r] = None]
    /\ loose' = IF Len(events[r]) = 1 /\ requests[r] = 0 /\ recording[r] = 0
                THEN loose \ {r} ELSE loose
    /\ UNCHANGED <<recorders, shmBuffer, frameVars, windowVars, destroyed, frameRequests>>

-----------------------------------------------------------------------------

Init ==
    /\ recorders = {} /\ asking = {} /\ destroyed = {} /\ loose = {} /\ frameRequests = 0
    /\ exposed = TRUE /\ updating = FALSE
    /\ bufferResource = [r \in Recorders |-> None] /\ shmBuffer = [r \in Recorders |-> None]
    /\ requests = [r \in Recorders |-> 0] /\ recording = [r \in Recorders |-> 0]
    /\ events = [r \in Recorders |-> <<>>]
    /\ sent = [r \in Recorders |-> [kind |-> "none", buffer |-> None]]

Next ==
    \/ Expose \/ Render
    \/ \E r \in Recorders :
          \/ CreateRecorder(r) \/ Destroy(r) \/ RequestFrame(r) \/ Repaint(r)
          \/ RecordFrame(r) \/ HandleEvent(r)
    \/ \E buffer \in Buffers \ OtherBuffers : DestroyBuffer(buffer)
    \/ \E r \in Recorders, buffer \in Buffers : RecordFrameRequest(r, buffer)

-----------------------------------------------------------------------------
(* Properties *)

(* The render thread only meets recorders that exist; and only buffers     *)
(* that exist, except of a recorder that is loose.                         *)
RequestsLive ==
    \A r \in Recorders : requests[r] + recording[r] > 0 =>
        r \in recorders /\ (r \notin loose => shmBuffer[r] \notin destroyed \cup {None})

(* A client that waits for each answer is told of a frame once, and with   *)
(* the buffer that the frame is in.                                        *)
FrameInBuffer ==
    \A r \in Recorders \ loose :
        events[r] # <<>> => events[r] = <<Event("frame", bufferResource[r])>>

(* A client that asked to repaint after its request is answered, also if   *)
(* it asked again, unless the window is hidden meanwhile.                  *)
RepaintRecords ==
    \A r \in Recorders :
        (r \in recorders \ asking /\ bufferResource[r] # None /\ updating)
            ~> (r \notin recorders \/ bufferResource[r] = None \/ ~exposed)

(* protocol/lipstick-recorder.xml:128: a cancelled event carries the old   *)
(* buffer, and the frame is recorded in the newest one.                    *)
CancelledOldBuffer ==
    \A r \in Recorders : sent'[r] # sent[r] /\ sent'[r].kind = "cancelled" =>
        sent'[r].buffer = bufferResource[r]
=============================================================================
