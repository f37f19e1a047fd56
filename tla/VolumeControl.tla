---------------------------- MODULE VolumeControl ----------------------------
(***************************************************************************)
(* The volume control of the home screen: the volume it shows, which the   *)
(* user changes and the audio server reports, and the hardware volume keys *)
(* with the two permissions they need, the resource policy's and MCE's.    *)
(*                                                                         *)
(* No code of the repository emits the signals highVolume,                 *)
(* longListeningTime and callActiveChanged of PulseAudioControl, so the    *)
(* safe volume stays 0 and the branches that it guards are left out.       *)
(***************************************************************************)
EXTENDS PulseAudioPrivateLoop

CONSTANT UserVolumes  \* what the user interface sets

ASSUME UserAssumption == UserVolumes \subseteq Nat

VARIABLES
  volume,      \* m_volume
  maximum,     \* m_maximumVolume
  acquired,    \* m_hwKeysAcquired
  enabled,     \* m_hwKeysEnabled
  active,      \* m_hwKeysActive
  pressed,     \* the keys of m_upPressed and m_downPressed
  policyAsked  \* the answer of MCE to the first query of its policy is due

Keys == {"up", "down"}

volumeVars == <<volume, maximum>>
keyVars == <<acquired, enabled, active, pressed, policyAsked>>
vars == <<loopVars, volumeVars, keyVars>>

-----------------------------------------------------------------------------
(* The volume *)

Bounded(v, limit) == IF v < limit THEN v ELSE limit

(* setVolume(int): what is compared is bounded, what is stored is not.      *)
SetVolume(v) ==
  /\ sending = NoVolume /\ changes < MaxChanges
  /\ changes' = changes + 1
  /\ IF Bounded(v, maximum) = volume
       THEN UNCHANGED <<volume, lastVolume, sending>>
       ELSE volume' = v /\ StoreVolume(v)
  /\ UNCHANGED <<serverVars, linkVars, contextVars, emitted, maximum, keyVars>>

(* setVolume(int, int), from the queue of signals of the other thread. *)
VolumeChanged ==
  /\ emitted # <<>> /\ sending = NoVolume
  /\ emitted' = Tail(emitted)
  /\ volume' = Head(emitted) /\ maximum' = Full
  /\ UNCHANGED <<serverVars, linkVars, contextVars, lastVolume, sending, changes, keyVars>>

-----------------------------------------------------------------------------
(* The volume keys *)

(* Mutation: keys that are down stay down. *)
EvaluateKeysKept(isAcquired, isEnabled) ==
  /\ acquired' = isAcquired /\ enabled' = isEnabled
  /\ active' = (isAcquired /\ isEnabled)
  /\ UNCHANGED <<pressed, loopVars, volumeVars>>

(* evaluateKeyState: keys that are down are released with the permission. *)
EvaluateKeys(isAcquired, isEnabled) ==
  /\ acquired' = isAcquired /\ enabled' = isEnabled
  /\ active' = (isAcquired /\ isEnabled)
  /\ pressed' = IF active /\ ~active' THEN {} ELSE pressed
  /\ UNCHANGED <<loopVars, volumeVars>>

(* The resource policy grants or takes the keys. *)
HwKeyResource(granted) == EvaluateKeys(granted, enabled) /\ UNCHANGED policyAsked

(* MCE's policy changes, or is the answer to the query (an error enables). *)
InputPolicyChanged(status) == EvaluateKeys(acquired, status) /\ UNCHANGED policyAsked
InputPolicyReply(status) ==
  /\ policyAsked
  /\ policyAsked' = FALSE
  /\ EvaluateKeys(acquired, status)

(* eventFilter *)
KeyEvent(key, down) ==
  /\ active
  /\ pressed' = IF down THEN pressed \cup {key} ELSE pressed \ {key}
  /\ UNCHANGED <<loopVars, volumeVars, acquired, enabled, active, policyAsked>>

-----------------------------------------------------------------------------
Init ==
  /\ LoopInit
  /\ volume = 0 /\ maximum = 0
  /\ acquired = FALSE /\ enabled = TRUE /\ active = FALSE /\ pressed = {} /\ policyAsked = TRUE

Next ==
  \/ LoopNext /\ UNCHANGED <<volumeVars, keyVars>>
  \/ \E v \in UserVolumes : SetVolume(v)
  \/ VolumeChanged
  \/ \E granted \in BOOLEAN : HwKeyResource(granted)
  \/ \E status \in BOOLEAN : InputPolicyChanged(status) \/ InputPolicyReply(status)
  \/ \E key \in Keys, down \in BOOLEAN : KeyEvent(key, down)

Spec == Init /\ [][Next]_vars
FairSpec == Spec /\ LoopFairness /\ WF_vars(VolumeChanged)

-----------------------------------------------------------------------------
(* Correctness *)

Message == [op : {"subscribe", "get", "changed", "volume"}, volume : Levels]

(* Every variable has its type. *)
TypeOK ==
  /\ serverUp \in BOOLEAN /\ linked \in BOOLEAN /\ subscribed \in BOOLEAN
  /\ reconnecting \in BOOLEAN /\ retryTimer \in BOOLEAN
  /\ acquired \in BOOLEAN /\ enabled \in BOOLEAN /\ active \in BOOLEAN /\ policyAsked \in BOOLEAN
  /\ serverVolume \in Levels /\ lastVolume \in Levels \cup {-1}
  /\ sending \in Levels \cup {NoVolume} /\ emitted \in Seq(Levels)
  /\ requests \in Seq(Message) /\ answers \in Seq(Message)
  /\ context \in {"none", "connecting", "ready", "failed"}
  /\ volume \in 0 .. Full /\ maximum \in {0, Full} /\ pressed \subseteq Keys
  /\ changes \in 0 .. MaxChanges /\ outages \in 0 .. MaxOutages

(* When nothing is under way between the thread and the server, the last     *)
(* volume is the server's, or one that the server reports as its own: no     *)
(* change is missed, whatever crossed it on the way, across reconnections.   *)
LoopAgrees ==
  context = "ready" /\ linked /\ subscribed /\ requests = <<>> /\ answers = <<>> /\ sending = NoVolume
    => lastVolume = serverVolume \/ (lastVolume \in Levels /\ Loudness[lastVolume] = serverVolume)

(* Volumes on their way have their type, and none is lost.                   *)
LoopConsistent == TypeOK /\ LoopAgrees

(* The volume keys are down only while both permissions are there: a key     *)
(* held when a permission is lost does not go on changing the volume.        *)
KeysReleased == (active <=> acquired /\ enabled) /\ (pressed # {} => active)

(* As long as no repeated attempt to connect fails, a lost connection is     *)
(* restored, however often it is lost.                                       *)
Restored == [](context # "failed") => (context # "ready" ~> context = "ready")

(* The volume shown is within its limits, whatever is set and reported.      *)
VolumeWithinLimits == volume <= maximum
=============================================================================
