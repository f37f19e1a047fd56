------------------------ MODULE PulseAudioPrivateLoop ------------------------
(***************************************************************************)
(* The thread that talks to the PulseAudio server: its context and the     *)
(* attempts to connect it again, the subscription to changes of the        *)
(* default sink, and the last volume it knows of.  Requests and answers    *)
(* travel in order over the connection's socket; the server and the other  *)
(* clients that change its volume are external.                            *)
(*                                                                         *)
(* The home screen's main thread sets the volume through this object       *)
(* without a lock, so that its call is two steps here: the last volume is  *)
(* stored first, and the context used afterwards.                          *)
(***************************************************************************)
EXTENDS Integers, Sequences

CONSTANTS
  Full,       \* the maximum volume (100 percent)
  Loudness,   \* percentage asked for -> percentage that the server then reports
  MaxChanges, \* bound on the changes of volume, by anyone
  MaxOutages, \* bound on the number of times the server goes away
  NoVolume    \* no volume is being sent

Levels == 0 .. Full

(* A volume is set as a linear factor and read back on the server's cubic  *)
(* scale: both ends stay, everything between is read back louder.          *)
ASSUME LevelsAssumption == Full \in Nat \ {0} /\ NoVolume \notin Levels
ASSUME LoudnessAssumption ==
  /\ Loudness \in [Levels -> Levels]
  /\ Loudness[0] = 0 /\ \A v \in Levels : Loudness[v] >= v
ASSUME ChangesAssumption == MaxChanges \in Nat /\ MaxOutages \in Nat

VARIABLES
  serverUp,     \* the PulseAudio server runs
  serverVolume, \* the volume of its default sink
  linked,       \* the context's connection exists
  subscribed,   \* the server reports changes to the context
  requests,     \* requests on their way to the server
  answers,      \* answers and events on their way back
  context,      \* m_context: "none" (null), "connecting", "ready" or "failed"
  reconnecting, \* m_reconnecting
  retryTimer,   \* the time event of reconnect() is pending
  lastVolume,   \* m_lastVolume
  emitted,      \* queued volumeChanged signals
  sending,      \* volume stored by setVolume whose request is not sent yet
  changes,      \* changes of volume so far
  outages       \* outages so far

serverVars == <<serverUp, serverVolume, outages>>
linkVars == <<linked, subscribed, requests, answers>>
contextVars == <<context, reconnecting, retryTimer>>
loopVars == <<serverVars, linkVars, contextVars, lastVolume, emitted, sending, changes>>

-----------------------------------------------------------------------------
(* The context *)

Subscribe == [op |-> "subscribe", volume |-> 0]
Get == [op |-> "get", volume |-> 0]
Changed == [op |-> "changed", volume |-> 0]
Volume(v) == [op |-> "volume", volume |-> v]  \* a request to set it, or the answer to Get

(* Requests that an unconnected context is given are dropped. *)
Send(messages) == requests' = IF context = "ready" /\ linked THEN requests \o messages ELSE requests

(* PA_CONTEXT_READY: subscribe and ask for the volume. *)
ContextReady ==
  /\ context = "connecting" /\ serverUp
  /\ context' = "ready" /\ reconnecting' = FALSE
  /\ linked' = TRUE /\ subscribed' = FALSE
  /\ requests' = <<Subscribe, Get>> /\ answers' = <<>>
  /\ UNCHANGED <<serverVars, retryTimer, lastVolume, emitted, sending, changes>>

(* Mutation: the context is dropped without a timer. *)
ContextFailedUntimed ==
  /\ \/ context = "ready" /\ ~linked
     \/ context = "connecting" /\ ~serverUp
  /\ IF reconnecting
       THEN context' = "failed" /\ UNCHANGED <<reconnecting, lastVolume>>
       ELSE context' = "none" /\ lastVolume' = -1 /\ reconnecting' = TRUE
  /\ UNCHANGED <<serverVars, linkVars, retryTimer, emitted, sending, changes>>

(* PA_CONTEXT_FAILED: the context is dropped and a new one made after half *)
(* a second, unless such an attempt is what failed.                        *)
ContextFailed ==
  /\ \/ context = "ready" /\ ~linked
     \/ context = "connecting" /\ ~serverUp
  /\ IF reconnecting
       THEN context' = "failed" /\ UNCHANGED <<reconnecting, retryTimer, lastVolume>>
       ELSE /\ context' = "none" /\ lastVolume' = -1
            /\ reconnecting' = TRUE /\ retryTimer' = TRUE
  /\ UNCHANGED <<serverVars, linkVars, emitted, sending, changes>>

Reconnect ==
  /\ retryTimer
  /\ retryTimer' = FALSE /\ context' = "connecting"
  /\ UNCHANGED <<serverVars, linkVars, reconnecting, lastVolume, emitted, sending, changes>>

(* Mutation: the volume is not remembered. *)
ReceiveForgetful ==
  /\ linked /\ answers # <<>>
  /\ answers' = Tail(answers)
  /\ IF Head(answers) = Changed
       THEN Send(<<Get>>) /\ UNCHANGED <<lastVolume, emitted>>
       ELSE /\ emitted' = IF Head(answers).volume = lastVolume THEN emitted
                          ELSE Append(emitted, Head(answers).volume)
            /\ UNCHANGED <<requests, lastVolume>>
  /\ UNCHANGED <<serverVars, linked, subscribed, contextVars, sending, changes>>

(* An event of the subscription asks for the volume; its answer is passed   *)
(* on to the main thread if it differs from the last one.                   *)
Receive ==
  /\ linked /\ answers # <<>>
  /\ answers' = Tail(answers)
  /\ IF Head(answers) = Changed
       THEN Send(<<Get>>) /\ UNCHANGED <<lastVolume, emitted>>
       ELSE /\ lastVolume' = Head(answers).volume
            /\ emitted' = IF Head(answers).volume = lastVolume THEN emitted
                          ELSE Append(emitted, Head(answers).volume)
            /\ UNCHANGED requests
  /\ UNCHANGED <<serverVars, linked, subscribed, contextVars, sending, changes>>

(* setVolume, called by the main thread: nothing without a context. *)
StoreVolume(v) ==
  IF context = "none"
    THEN UNCHANGED <<lastVolume, sending>>
    ELSE lastVolume' = v /\ sending' = v

(* Its request, sent on whatever context there is by then. *)
SendVolume ==
  /\ sending # NoVolume
  /\ sending' = NoVolume
  /\ Send(<<Volume(sending)>>)
  /\ UNCHANGED <<serverVars, linked, subscribed, answers, contextVars, lastVolume, emitted, changes>>

-----------------------------------------------------------------------------
(* The server *)

(* The sink gets a volume; a change is reported to subscribers. *)
SinkVolume(v) ==
  /\ serverVolume' = v
  /\ answers' = IF subscribed /\ v # serverVolume THEN Append(answers, Changed) ELSE answers

ServerHandles ==
  /\ linked /\ requests # <<>>
  /\ requests' = Tail(requests)
  /\ \/ /\ Head(requests) = Subscribe
        /\ subscribed' = TRUE /\ UNCHANGED <<serverVolume, answers>>
     \/ /\ Head(requests) = Get
        /\ answers' = Append(answers, Volume(serverVolume))
        /\ UNCHANGED <<serverVolume, subscribed>>
     \/ /\ Head(requests).op = "volume"
        /\ SinkVolume(Loudness[Head(requests).volume])
        /\ UNCHANGED subscribed
  /\ UNCHANGED <<serverUp, outages, linked, contextVars, lastVolume, emitted, sending, changes>>

OtherClientSets(v) ==
  /\ serverUp /\ changes < MaxChanges
  /\ changes' = changes + 1
  /\ SinkVolume(v)
  /\ UNCHANGED <<serverUp, outages, linked, subscribed, requests, contextVars, lastVolume,
                 emitted, sending>>

ServerStops ==
  /\ serverUp /\ outages < MaxOutages
  /\ serverUp' = FALSE /\ outages' = outages + 1
  /\ linked' = FALSE /\ subscribed' = FALSE /\ requests' = <<>> /\ answers' = <<>>
  /\ UNCHANGED <<serverVolume, contextVars, lastVolume, emitted, sending, changes>>

ServerStarts ==
  /\ ~serverUp
  /\ serverUp' = TRUE
  /\ UNCHANGED <<serverVolume, outages, linkVars, contextVars, lastVolume, emitted, sending, changes>>

-----------------------------------------------------------------------------
LoopInit ==
  /\ serverUp \in BOOLEAN /\ serverVolume \in Levels /\ outages = 0
  /\ linked = FALSE /\ subscribed = FALSE /\ requests = <<>> /\ answers = <<>>
  /\ context = "connecting" /\ reconnecting = FALSE /\ retryTimer = FALSE
  /\ lastVolume = -1 /\ emitted = <<>> /\ sending = NoVolume /\ changes = 0

LoopNext ==
  \/ ContextReady \/ ContextFailed \/ Reconnect \/ Receive \/ SendVolume
  \/ ServerHandles \/ ServerStops \/ ServerStarts
  \/ \E v \in Levels : OtherClientSets(v)

LoopFairness ==
  /\ WF_loopVars(ContextReady) /\ WF_loopVars(ContextFailed) /\ WF_loopVars(Reconnect)
  /\ WF_loopVars(Receive) /\ WF_loopVars(SendVolume)
  /\ WF_loopVars(ServerHandles) /\ WF_loopVars(ServerStarts)
=============================================================================
