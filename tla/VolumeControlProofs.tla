-------------------------- MODULE VolumeControlProofs --------------------------
(* Proofs about the volume keys of VolumeControl. *)
EXTENDS VolumeControl, TLAPS

(* The audio server and its thread have no part in the keys. *)
LEMMA LoopLeavesKeys ==
  ASSUME KeysReleased, UNCHANGED keyVars
  PROVE  KeysReleased'
BY DEF KeysReleased, keyVars

(* A change of either permission keeps the keys released without both. *)
LEMMA EvaluationReleases ==
  ASSUME KeysReleased, NEW isAcquired, NEW isEnabled, EvaluateKeys(isAcquired, isEnabled)
  PROVE  KeysReleased'
<1>1. active' <=> acquired' /\ enabled'
  BY DEF EvaluateKeys
<1>2. ASSUME ~active' PROVE pressed' = {}
  <2>1. CASE active
    BY <1>2, <2>1 DEF EvaluateKeys
  <2>2. CASE ~active
    BY <1>2, <2>2 DEF EvaluateKeys, KeysReleased
  <2>. QED BY <2>1, <2>2
<1>. QED BY <1>1, <1>2 DEF KeysReleased

(* For every set of user volumes and every behaviour of the audio server:    *)
(* the volume keys are down only while the resource policy and MCE both      *)
(* permit them.                                                              *)
THEOREM KeysAreReleased == Spec => []KeysReleased
<1>1. Init => KeysReleased
  BY DEF Init, KeysReleased
<1>2. KeysReleased /\ [Next]_vars => KeysReleased'
  <2>. SUFFICES ASSUME KeysReleased, [Next]_vars
                PROVE  KeysReleased'
    OBVIOUS
  <2>1. CASE LoopNext /\ UNCHANGED <<volumeVars, keyVars>>
    BY <2>1, LoopLeavesKeys
  <2>2. ASSUME NEW v \in UserVolumes, SetVolume(v) PROVE KeysReleased'
    BY <2>2, LoopLeavesKeys DEF SetVolume
  <2>3. CASE VolumeChanged
    BY <2>3, LoopLeavesKeys DEF VolumeChanged
  <2>4. ASSUME NEW granted \in BOOLEAN, HwKeyResource(granted) PROVE KeysReleased'
    BY <2>4, EvaluationReleases DEF HwKeyResource
  <2>5. ASSUME NEW status \in BOOLEAN, InputPolicyChanged(status) \/ InputPolicyReply(status)
        PROVE  KeysReleased'
    BY <2>5, EvaluationReleases DEF InputPolicyChanged, InputPolicyReply
  <2>6. ASSUME NEW key \in Keys, NEW down \in BOOLEAN, KeyEvent(key, down) PROVE KeysReleased'
    BY <2>6 DEF KeyEvent, KeysReleased
  <2>7. CASE UNCHANGED vars
    BY <2>7, LoopLeavesKeys DEF vars
  <2>. QED BY <2>1, <2>2, <2>3, <2>4, <2>5, <2>6, <2>7 DEF Next
<1>. QED BY <1>1, <1>2, PTL DEF Spec

-----------------------------------------------------------------------------
(* The last volume of the thread, and what is under way to it. *)

HasGet == \E i \in 1 .. Len(requests) : requests[i] = Get

(* The last volume is the server's, or is reported as it. *)
Agrees == lastVolume = serverVolume \/ (lastVolume \in Levels /\ Loudness[lastVolume] = serverVolume)

(* The last volume is the last one that the server is told. *)
BeingSet ==
  \/ sending # NoVolume /\ sending = lastVolume
  \/ sending = NoVolume /\ requests # <<>> /\ requests[Len(requests)] = Volume(lastVolume)

(* Only a ready context is linked, and the server answers nobody before it   *)
(* has subscribed, which the connection asks before anything else.           *)
LinkInv ==
  /\ (linked => context = "ready") /\ (retryTimer => context = "none")
  /\ ~subscribed => answers = <<>>
  /\ linked /\ ~subscribed => Len(requests) >= 2 /\ requests[1] = Subscribe /\ requests[2] = Get

(* The last answer is the volume that the server has, or says that it has    *)
(* changed.                                                                  *)
LastAnswer ==
  answers # <<>> => answers[Len(answers)] \in {Changed, Volume(serverVolume)}

(* Where no answer and no question is under way, the volumes agree unless    *)
(* the last one is still on its way to the server.                           *)
QuietAgrees == linked /\ answers = <<>> /\ ~HasGet => Agrees \/ BeingSet

LoopInv == TypeOK /\ LinkInv /\ LastAnswer /\ QuietAgrees

LEMMA LoopInvSuffices == LoopInv => LoopConsistent
<1>. SUFFICES ASSUME LoopInv, context = "ready", linked, requests = <<>>, answers = <<>>,
                     sending = NoVolume
              PROVE  Agrees
  BY DEF LoopInv, LoopConsistent, LoopAgrees, Agrees
<1>1. ~HasGet
  BY DEF HasGet
<1>2. ~BeingSet
  BY DEF BeingSet
<1>. QED BY <1>1, <1>2 DEF LoopInv, QuietAgrees

LEMMA MessageTypes ==
  /\ Subscribe \in Message /\ Get \in Message /\ Changed \in Message
  /\ \A v \in Levels : Volume(v) \in Message
  /\ \A m \in Message : m.volume \in Levels /\ m = [op |-> m.op, volume |-> m.volume]
  /\ Get # Subscribe /\ Get # Changed
  /\ \A v \in Levels : Volume(v) \notin {Get, Subscribe, Changed}
BY LevelsAssumption DEF Subscribe, Get, Changed, Volume, Message, Levels

LEMMA EmptySequence == \A S : <<>> \in Seq(S) /\ Len(<<>>) = 0
OBVIOUS

LEMMA SequenceFacts ==
  ASSUME NEW S, NEW s \in Seq(S)
  PROVE  /\ Len(s) \in Nat /\ (s = <<>> <=> Len(s) = 0)
         /\ \A i \in 1 .. Len(s) : s[i] \in S
         /\ \A e \in S : /\ s \o <<e>> = Append(s, e)
                         /\ Append(s, e) \in Seq(S) /\ Len(Append(s, e)) = Len(s) + 1
                         /\ \A i \in 1 .. Len(s) : Append(s, e)[i] = s[i]
                         /\ Append(s, e)[Len(s) + 1] = e
         /\ s # <<>> => /\ Head(s) = s[1] /\ Tail(s) \in Seq(S) /\ Len(Tail(s)) = Len(s) - 1
                        /\ \A i \in 1 .. Len(s) - 1 : Tail(s)[i] = s[i + 1]
OBVIOUS

LEMMA SendFacts ==
  ASSUME requests \in Seq(Message), NEW m \in Message, Send(<<m>>)
  PROVE  requests' = IF context = "ready" /\ linked THEN Append(requests, m) ELSE requests
<1>1. requests \o <<m>> = Append(requests, m)
  BY SequenceFacts
<1>. QED BY <1>1 DEF Send

(* A step that changes nothing of the loop but its bounds. *)
LEMMA LoopKept ==
  ASSUME LoopInv, TypeOK',
         UNCHANGED <<linkVars, contextVars, lastVolume, sending, serverVolume>>
  PROVE  LoopInv'
<1>. USE DEF linkVars, contextVars
<1>1. (HasGet' <=> HasGet) /\ (Agrees' <=> Agrees) /\ (BeingSet' <=> BeingSet)
  BY DEF HasGet, Agrees, BeingSet
<1>2. LinkInv'
  BY DEF LoopInv, LinkInv
<1>3. LastAnswer'
  BY DEF LoopInv, LastAnswer
<1>. QED BY <1>1, <1>2, <1>3 DEF LoopInv, QuietAgrees

LEMMA InitLoop == Init => LoopInv
<1>. SUFFICES ASSUME Init PROVE LoopInv
  OBVIOUS
<1>. USE DEF Init, LoopInit
<1>1. TypeOK
  <2>1. serverVolume \in Levels /\ volume \in 0 .. Full /\ maximum \in {0, Full}
        /\ changes \in 0 .. MaxChanges /\ outages \in 0 .. MaxOutages
    BY LevelsAssumption, ChangesAssumption DEF Levels
  <2>2. emitted \in Seq(Levels) /\ requests \in Seq(Message) /\ answers \in Seq(Message)
    BY EmptySequence
  <2>. QED BY <2>1, <2>2 DEF TypeOK
<1>. QED BY <1>1 DEF LoopInv, LinkInv, LastAnswer, QuietAgrees

LEMMA ContextReadyStep == LoopInv /\ ContextReady /\ UNCHANGED <<volumeVars, keyVars>> => LoopInv'
<1>. SUFFICES ASSUME LoopInv, ContextReady, UNCHANGED <<volumeVars, keyVars>> PROVE LoopInv'
  OBVIOUS
<1>. USE DEF ContextReady, serverVars, linkVars, contextVars, volumeVars, keyVars
<1>1. requests' \in Seq(Message) /\ Len(requests') = 2 /\ requests'[1] = Subscribe /\ requests'[2] = Get
  BY MessageTypes
<1>2. TypeOK'
  BY <1>1, EmptySequence DEF LoopInv, TypeOK
<1>3. HasGet'
  BY <1>1 DEF HasGet
<1>. QED BY <1>1, <1>2, <1>3 DEF LoopInv, LinkInv, LastAnswer, QuietAgrees

LEMMA ContextFailedStep == LoopInv /\ ContextFailed /\ UNCHANGED <<volumeVars, keyVars>> => LoopInv'
<1>. SUFFICES ASSUME LoopInv, ContextFailed, UNCHANGED <<volumeVars, keyVars>> PROVE LoopInv'
  OBVIOUS
<1>. USE DEF ContextFailed, serverVars, linkVars, contextVars, volumeVars, keyVars
<1>1. TypeOK'
  BY DEF LoopInv, TypeOK
<1>2. ~linked'
  BY DEF LoopInv, LinkInv
<1>. QED BY <1>1, <1>2 DEF LoopInv, LinkInv, LastAnswer, QuietAgrees

LEMMA ReconnectStep == LoopInv /\ Reconnect /\ UNCHANGED <<volumeVars, keyVars>> => LoopInv'
<1>. SUFFICES ASSUME LoopInv, Reconnect, UNCHANGED <<volumeVars, keyVars>> PROVE LoopInv'
  OBVIOUS
<1>. USE DEF Reconnect, serverVars, linkVars, contextVars, volumeVars, keyVars
<1>1. TypeOK'
  BY DEF LoopInv, TypeOK
<1>. QED BY <1>1 DEF LoopInv, LinkInv, LastAnswer, QuietAgrees

(* A question keeps the volumes in agreement whatever the last one is. *)
LEMMA AskedIsQuiet ==
  ASSUME TypeOK', LinkInv', LastAnswer', HasGet'
  PROVE  LoopInv'
BY DEF LoopInv, QuietAgrees

LEMMA ReceiveStep == LoopInv /\ Receive /\ UNCHANGED <<volumeVars, keyVars>> => LoopInv'
<1>. SUFFICES ASSUME LoopInv, Receive, UNCHANGED <<volumeVars, keyVars>> PROVE LoopInv'
  OBVIOUS
<1>. USE DEF Receive, serverVars, contextVars, volumeVars, keyVars
<1>1. /\ answers \in Seq(Message) /\ requests \in Seq(Message) /\ emitted \in Seq(Levels)
      /\ serverVolume \in Levels
  BY DEF LoopInv, TypeOK
<1>2. /\ answers' = Tail(answers) /\ answers' \in Seq(Message) /\ Head(answers) = answers[1]
      /\ Len(answers) \in Nat \ {0} /\ Len(answers') = Len(answers) - 1
      /\ \A i \in 1 .. Len(answers) - 1 : answers'[i] = answers[i + 1]
      /\ Head(answers) \in Message
  BY <1>1, SequenceFacts
<1>3. LastAnswer'
  BY <1>1, <1>2, SequenceFacts DEF LoopInv, LastAnswer
<1>4. CASE Head(answers) = Changed
  <2>1. requests' = Append(requests, Get)
    BY <1>1, <1>4, SendFacts, MessageTypes DEF LoopInv, LinkInv
  <2>2. /\ requests' \in Seq(Message) /\ Len(requests') = Len(requests) + 1
        /\ \A i \in 1 .. Len(requests) : requests'[i] = requests[i]
        /\ requests'[Len(requests) + 1] = Get /\ Len(requests) \in Nat
    BY <1>1, <2>1, SequenceFacts, MessageTypes
  <2>3. TypeOK'
    BY <1>2, <1>4, <2>2 DEF LoopInv, TypeOK
  <2>4. HasGet'
    BY <2>2 DEF HasGet
  <2>5. LinkInv'
    BY <1>4, <2>2 DEF LoopInv, LinkInv
  <2>. QED BY <1>3, <2>3, <2>4, <2>5, AskedIsQuiet
<1>5. CASE Head(answers) # Changed
  <2>1. Head(answers).volume \in Levels
    BY <1>2, MessageTypes
  <2>2. emitted' \in Seq(Levels)
    BY <1>1, <1>5, <2>1, SequenceFacts
  <2>3. TypeOK'
    BY <1>2, <1>5, <2>1, <2>2 DEF LoopInv, TypeOK
  <2>4. LinkInv'
    BY <1>5 DEF LoopInv, LinkInv
  <2>5. CASE answers' = <<>>
    <3>1. Len(answers) = 1
      <4>1. Len(answers') = 0
        BY <1>2, <2>5, SequenceFacts
      <4>. QED BY <1>2, <4>1
    <3>2. Head(answers) = Volume(serverVolume)
      BY <1>2, <1>5, <3>1 DEF LoopInv, LastAnswer
    <3>3. lastVolume' = serverVolume'
      BY <1>5, <3>2 DEF Volume
    <3>. QED BY <1>3, <2>3, <2>4, <3>3 DEF LoopInv, QuietAgrees, Agrees
  <2>. QED BY <1>3, <2>3, <2>4, <2>5 DEF LoopInv, QuietAgrees
<1>. QED BY <1>4, <1>5

LEMMA SendVolumeStep == LoopInv /\ SendVolume /\ UNCHANGED <<volumeVars, keyVars>> => LoopInv'
<1>. SUFFICES ASSUME LoopInv, SendVolume, UNCHANGED <<volumeVars, keyVars>> PROVE LoopInv'
  OBVIOUS
<1>. USE DEF SendVolume, serverVars, contextVars, volumeVars, keyVars
<1>1. /\ requests \in Seq(Message) /\ sending \in Levels /\ Volume(sending) \in Message
      /\ Volume(sending) # Get /\ Len(requests) \in Nat
  BY MessageTypes, SequenceFacts DEF LoopInv, TypeOK
<1>2. requests' = IF context = "ready" /\ linked THEN Append(requests, Volume(sending)) ELSE requests
  BY <1>1, SendFacts
<1>3. requests' \in Seq(Message)
  BY <1>1, <1>2, SequenceFacts
<1>4. TypeOK'
  BY <1>3 DEF LoopInv, TypeOK
<1>5. LastAnswer'
  BY DEF LoopInv, LastAnswer
<1>6. CASE ~linked
  BY <1>4, <1>5, <1>6 DEF LoopInv, LinkInv, QuietAgrees
<1>7. CASE linked
  <2>1. /\ Len(requests') = Len(requests) + 1
        /\ \A i \in 1 .. Len(requests) : requests'[i] = requests[i]
        /\ requests'[Len(requests) + 1] = Volume(sending)
    BY <1>1, <1>2, <1>7, SequenceFacts DEF LoopInv, LinkInv
  <2>2. LinkInv'
    BY <1>1, <2>1 DEF LoopInv, LinkInv
  <2>3. ASSUME answers' = <<>>, ~HasGet' PROVE Agrees' \/ BeingSet'
    <3>1. ~HasGet
      BY <1>1, <2>1, <2>3 DEF HasGet
    <3>2. Agrees \/ sending = lastVolume
      BY <1>7, <2>3, <3>1 DEF LoopInv, QuietAgrees, BeingSet
    <3>3. requests' # <<>>
      BY <1>1, <1>3, <2>1, SequenceFacts
    <3>. QED BY <2>1, <3>2, <3>3 DEF Agrees, BeingSet
  <2>. QED BY <1>4, <1>5, <2>2, <2>3 DEF LoopInv, QuietAgrees
<1>. QED BY <1>6, <1>7

(* The sink: its type, and what is reported of a change. *)
LEMMA SinkFacts ==
  ASSUME TypeOK, LastAnswer, NEW v \in Levels, SinkVolume(v)
  PROVE  /\ serverVolume' \in Levels /\ answers' \in Seq(Message)
         /\ subscribed \/ answers = <<>> => LastAnswer'
         /\ ~subscribed => answers' = answers
         /\ subscribed /\ answers' = <<>> => answers = <<>> /\ serverVolume' = serverVolume /\ v = serverVolume
<1>. USE DEF SinkVolume
<1>1. answers \in Seq(Message) /\ Changed \in Message
  BY MessageTypes DEF TypeOK
<1>2. CASE subscribed /\ v # serverVolume
  <2>1. answers' = Append(answers, Changed)
    BY <1>2
  <2>2. answers' # <<>> /\ answers'[Len(answers')] = Changed /\ answers' \in Seq(Message)
    BY <1>1, <2>1, SequenceFacts
  <2>. QED BY <1>2, <2>2 DEF LastAnswer
<1>3. CASE ~(subscribed /\ v # serverVolume)
  BY <1>1, <1>3 DEF LastAnswer
<1>. QED BY <1>2, <1>3

LEMMA OtherClientStep ==
  ASSUME LoopInv, NEW v \in Levels, OtherClientSets(v), UNCHANGED <<volumeVars, keyVars>>
  PROVE  LoopInv'
<1>. USE DEF OtherClientSets, contextVars, volumeVars, keyVars
<1>1. /\ serverVolume' \in Levels /\ answers' \in Seq(Message) /\ LastAnswer'
      /\ ~subscribed => answers' = answers
      /\ subscribed /\ answers' = <<>> => answers = <<>> /\ serverVolume' = serverVolume
  BY SinkFacts DEF LoopInv, LinkInv
<1>2. TypeOK'
  BY <1>1, ChangesAssumption DEF LoopInv, TypeOK
<1>3. LinkInv'
  BY <1>1 DEF LoopInv, LinkInv
<1>4. ASSUME linked', answers' = <<>>, ~HasGet' PROVE Agrees' \/ BeingSet'
  <2>1. subscribed
    <3>1. SUFFICES ASSUME ~subscribed PROVE FALSE
      OBVIOUS
    <3>2. Len(requests) \in Nat
      BY SequenceFacts DEF LoopInv, TypeOK
    <3>. QED BY <1>4, <3>1, <3>2 DEF LoopInv, LinkInv, HasGet
  <2>. QED BY <1>1, <1>4, <2>1 DEF LoopInv, QuietAgrees, HasGet, Agrees, BeingSet
<1>. QED BY <1>1, <1>2, <1>3, <1>4 DEF LoopInv, QuietAgrees

LEMMA ServerStopsStep == LoopInv /\ ServerStops /\ UNCHANGED <<volumeVars, keyVars>> => LoopInv'
<1>. SUFFICES ASSUME LoopInv, ServerStops, UNCHANGED <<volumeVars, keyVars>> PROVE LoopInv'
  OBVIOUS
<1>. USE DEF ServerStops, contextVars, volumeVars, keyVars
<1>1. requests' \in Seq(Message) /\ answers' \in Seq(Message)
  BY EmptySequence
<1>2. outages' \in 0 .. MaxOutages
  BY ChangesAssumption DEF LoopInv, TypeOK
<1>3. TypeOK'
  BY <1>1, <1>2 DEF LoopInv, TypeOK
<1>. QED BY <1>3 DEF LoopInv, LinkInv, LastAnswer, QuietAgrees

LEMMA ServerStartsStep == LoopInv /\ ServerStarts /\ UNCHANGED <<volumeVars, keyVars>> => LoopInv'
<1>. SUFFICES ASSUME LoopInv, ServerStarts, UNCHANGED <<volumeVars, keyVars>> PROVE LoopInv'
  OBVIOUS
<1>1. TypeOK'
  BY DEF ServerStarts, linkVars, contextVars, volumeVars, keyVars, LoopInv, TypeOK
<1>. QED BY <1>1, LoopKept DEF ServerStarts

LEMMA ServerHandlesStep == LoopInv /\ ServerHandles /\ UNCHANGED <<volumeVars, keyVars>> => LoopInv'
<1>. SUFFICES ASSUME LoopInv, ServerHandles, UNCHANGED <<volumeVars, keyVars>> PROVE LoopInv'
  OBVIOUS
<1>. USE DEF ServerHandles, contextVars, volumeVars, keyVars
<1>1. /\ answers \in Seq(Message) /\ requests \in Seq(Message) /\ serverVolume \in Levels
  BY DEF LoopInv, TypeOK
<1>2. /\ requests' = Tail(requests) /\ requests' \in Seq(Message) /\ Head(requests) = requests[1]
      /\ Len(requests) \in Nat \ {0} /\ Len(requests') = Len(requests) - 1
      /\ \A i \in 1 .. Len(requests) - 1 : requests'[i] = requests[i + 1]
      /\ Head(requests) \in Message
  BY <1>1, SequenceFacts
<1>3. CASE Head(requests) = Get
  <2>1. answers' = Append(answers, Volume(serverVolume)) /\ serverVolume' = serverVolume
    BY <1>3, MessageTypes DEF Get, Volume, Subscribe
  <2>2. subscribed /\ subscribed'
    BY <1>2, <1>3, MessageTypes DEF LoopInv, LinkInv, Get, Subscribe
  <2>3. /\ answers' \in Seq(Message) /\ answers' # <<>>
        /\ answers'[Len(answers')] = Volume(serverVolume)
    <3>1. Volume(serverVolume) \in Message
      BY <1>1, MessageTypes
    <3>. QED BY <1>1, <2>1, <3>1, SequenceFacts
  <2>4. TypeOK'
    BY <1>2, <2>1, <2>2, <2>3 DEF LoopInv, TypeOK
  <2>. QED BY <2>1, <2>2, <2>3, <2>4 DEF LoopInv, LinkInv, LastAnswer, QuietAgrees
<1>4. CASE Head(requests) = Subscribe
  <2>1. subscribed' /\ UNCHANGED <<serverVolume, answers>>
    BY <1>4, MessageTypes DEF Get, Subscribe
  <2>2. subscribed' \in BOOLEAN
    BY <1>4, MessageTypes DEF LoopInv, TypeOK, Get, Subscribe
  <2>3. TypeOK'
    BY <1>2, <2>1, <2>2 DEF LoopInv, TypeOK
  <2>4. LastAnswer'
    BY <2>1 DEF LoopInv, LastAnswer
  <2>5. ASSUME answers' = <<>>, ~HasGet' PROVE Agrees' \/ BeingSet'
    <3>1. ~HasGet
      <4>1. SUFFICES ASSUME NEW i \in 1 .. Len(requests), requests[i] = Get PROVE FALSE
        BY DEF HasGet
      <4>2. i # 1
        BY <1>2, <1>4, <4>1, MessageTypes
      <4>3. i - 1 \in 1 .. Len(requests') /\ requests'[i - 1] = Get
        BY <1>2, <4>1, <4>2
      <4>. QED BY <2>5, <4>3 DEF HasGet
    <3>2. Agrees \/ BeingSet
      BY <2>1, <2>5, <3>1 DEF LoopInv, QuietAgrees
    <3>3. ASSUME BeingSet, sending = NoVolume PROVE BeingSet'
      <4>1. requests[Len(requests)] = Volume(lastVolume) /\ Len(requests) # 1
        BY <1>2, <1>4, <3>3 DEF BeingSet, Volume, Subscribe
      <4>2. Len(requests') # 0 /\ requests'[Len(requests')] = Volume(lastVolume)
        BY <1>2, <4>1
      <4>3. requests' # <<>>
        BY <1>2, <4>2, SequenceFacts
      <4>. QED BY <3>3, <4>2, <4>3 DEF BeingSet
    <3>. QED BY <2>1, <3>2, <3>3 DEF Agrees, BeingSet
  <2>6. LinkInv'
    BY <2>1 DEF LoopInv, LinkInv
  <2>. QED BY <2>3, <2>4, <2>5, <2>6 DEF LoopInv, QuietAgrees
<1>5. CASE Head(requests).op = "volume"
  <2>. DEFINE v == Loudness[Head(requests).volume]
  <2>1. v \in Levels
    BY <1>2, MessageTypes, LoudnessAssumption
  <2>2. SinkVolume(v) /\ UNCHANGED subscribed
    BY <1>5 DEF Get, Subscribe
  <2>3. subscribed
    BY <1>2, <1>5, MessageTypes DEF LoopInv, LinkInv, Subscribe
  <2>. HIDE DEF v
  <2>4. /\ serverVolume' \in Levels /\ answers' \in Seq(Message) /\ LastAnswer'
        /\ answers' = <<>> => answers = <<>> /\ serverVolume' = serverVolume /\ v = serverVolume
    BY <2>1, <2>2, <2>3, SinkFacts DEF LoopInv
  <2>5. TypeOK'
    BY <1>2, <2>2, <2>4 DEF LoopInv, TypeOK
  <2>6. LinkInv'
    BY <2>2, <2>3 DEF LoopInv, LinkInv
  <2>7. ASSUME answers' = <<>>, ~HasGet' PROVE Agrees' \/ BeingSet'
    <3>1. ~HasGet
      <4>1. SUFFICES ASSUME NEW i \in 1 .. Len(requests), requests[i] = Get PROVE FALSE
        BY DEF HasGet
      <4>2. i # 1
        BY <1>2, <1>5, <4>1 DEF Get
      <4>3. i - 1 \in 1 .. Len(requests') /\ requests'[i - 1] = Get
        BY <1>2, <4>1, <4>2
      <4>. QED BY <2>7, <4>3 DEF HasGet
    <3>2. Agrees \/ BeingSet
      BY <2>4, <2>7, <3>1 DEF LoopInv, QuietAgrees
    <3>3. CASE Agrees \/ sending # NoVolume
      BY <2>4, <2>7, <3>2, <3>3 DEF Agrees, BeingSet
    <3>4. CASE BeingSet /\ sending = NoVolume /\ Len(requests) = 1
      <4>1. Head(requests) = Volume(lastVolume)
        BY <1>2, <3>4 DEF BeingSet
      <4>2. lastVolume \in Levels /\ v = Loudness[lastVolume]
        BY <1>2, <4>1, MessageTypes DEF Volume, v
      <4>. QED BY <2>4, <2>7, <4>2 DEF Agrees
    <3>5. CASE BeingSet /\ sending = NoVolume /\ Len(requests) # 1
      <4>1. Len(requests') # 0 /\ requests'[Len(requests')] = Volume(lastVolume)
        BY <1>2, <3>5 DEF BeingSet
      <4>2. requests' # <<>>
        BY <1>2, <4>1, SequenceFacts
      <4>. QED BY <3>5, <4>1, <4>2 DEF BeingSet
    <3>. QED BY <3>2, <3>3, <3>4, <3>5
  <2>. QED BY <2>4, <2>5, <2>6, <2>7 DEF LoopInv, QuietAgrees
<1>. QED BY <1>3, <1>4, <1>5

LEMMA SetVolumeStep ==
  ASSUME LoopInv, NEW v \in Levels, SetVolume(v)
  PROVE  LoopInv'
<1>. USE DEF SetVolume, StoreVolume, serverVars, linkVars, contextVars, keyVars
<1>1. v \in 0 .. Full /\ v # NoVolume /\ changes' \in 0 .. MaxChanges
  BY LevelsAssumption, ChangesAssumption DEF Levels, LoopInv, TypeOK
<1>2. TypeOK'
  BY <1>1 DEF LoopInv, TypeOK
<1>3. CASE UNCHANGED <<lastVolume, sending>>
  BY <1>2, <1>3, LoopKept
<1>4. CASE lastVolume' = v /\ sending' = v
  <2>1. BeingSet'
    BY <1>1, <1>4 DEF BeingSet
  <2>. QED BY <1>2, <2>1 DEF LoopInv, LinkInv, LastAnswer, QuietAgrees
<1>. QED BY <1>3, <1>4

LEMMA VolumeChangedStep == LoopInv /\ VolumeChanged => LoopInv'
<1>. SUFFICES ASSUME LoopInv, VolumeChanged PROVE LoopInv'
  OBVIOUS
<1>1. emitted' \in Seq(Levels) /\ volume' \in Levels /\ maximum' = Full
  BY SequenceFacts DEF VolumeChanged, LoopInv, TypeOK
<1>2. TypeOK'
  BY <1>1 DEF VolumeChanged, serverVars, linkVars, contextVars, keyVars, LoopInv, TypeOK, Levels
<1>. QED BY <1>2, LoopKept DEF VolumeChanged, serverVars

(* The permissions and keys have no part in the volume. *)
LEMMA KeyStep ==
  ASSUME LoopInv, UNCHANGED <<loopVars, volumeVars>>, acquired' \in BOOLEAN, enabled' \in BOOLEAN,
         active' \in BOOLEAN, policyAsked' \in BOOLEAN, pressed' \subseteq Keys
  PROVE  LoopInv'
<1>. USE DEF loopVars, serverVars, linkVars, contextVars, volumeVars
<1>1. TypeOK'
  BY DEF LoopInv, TypeOK
<1>. QED BY <1>1, LoopKept

LEMMA NextLoop ==
  ASSUME UserVolumes \subseteq Levels
  PROVE  LoopInv /\ [Next]_vars => LoopInv'
<1>. SUFFICES ASSUME LoopInv, [Next]_vars PROVE LoopInv'
  OBVIOUS
<1>1. CASE LoopNext /\ UNCHANGED <<volumeVars, keyVars>>
  BY <1>1, ContextReadyStep, ContextFailedStep, ReconnectStep, ReceiveStep, SendVolumeStep,
     ServerHandlesStep, ServerStopsStep, ServerStartsStep, OtherClientStep DEF LoopNext
<1>2. ASSUME NEW v \in UserVolumes, SetVolume(v) PROVE LoopInv'
  BY <1>2, SetVolumeStep
<1>3. CASE VolumeChanged
  BY <1>3, VolumeChangedStep
<1>4. ASSUME NEW isAcquired \in BOOLEAN, NEW isEnabled \in BOOLEAN,
             EvaluateKeys(isAcquired, isEnabled), policyAsked' \in BOOLEAN
      PROVE  LoopInv'
  BY <1>4, KeyStep DEF EvaluateKeys, LoopInv, TypeOK
<1>5. ASSUME NEW granted \in BOOLEAN, HwKeyResource(granted) PROVE LoopInv'
  BY <1>4, <1>5 DEF HwKeyResource, LoopInv, TypeOK
<1>6. ASSUME NEW status \in BOOLEAN, InputPolicyChanged(status) \/ InputPolicyReply(status)
      PROVE  LoopInv'
  BY <1>4, <1>6 DEF InputPolicyChanged, InputPolicyReply, LoopInv, TypeOK
<1>7. ASSUME NEW key \in Keys, NEW down \in BOOLEAN, KeyEvent(key, down) PROVE LoopInv'
  BY <1>7, KeyStep DEF KeyEvent, LoopInv, TypeOK
<1>8. CASE UNCHANGED vars
  BY <1>8, KeyStep DEF vars, keyVars, LoopInv, TypeOK
<1>. QED BY <1>1, <1>2, <1>3, <1>5, <1>6, <1>7, <1>8 DEF Next

(* However the server, its other clients, outages and the main thread        *)
(* interleave with the thread of PulseAudioPrivateLoop, as long as what the  *)
(* user sets is a volume: when nothing is under way the last volume of the   *)
(* thread is the server's, and every volume on its way is one.               *)
THEOREM LoopIsConsistent ==
  ASSUME UserVolumes \subseteq Levels
  PROVE  Spec => []LoopConsistent
<1>. QED BY InitLoop, NextLoop, LoopInvSuffices, PTL DEF Spec
=============================================================================
