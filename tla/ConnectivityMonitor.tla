-------------------------- MODULE ConnectivityMonitor --------------------------
(***************************************************************************)
(* Which types of connection ConnMan has online, followed over D-Bus: the  *)
(* answer to GetServices, the signals of the manager, and those of each    *)
(* service, which only reach the monitor once it has a proxy for it.       *)
(*                                                                         *)
(* Messages of ConnMan are handled in the order they are sent.             *)
(***************************************************************************)
EXTENDS Naturals, Sequences, FiniteSets

CONSTANTS
  Services,          \* service paths
  TypeOf,            \* [Services -> STRING]
  MaxSteps           \* bound on what happens to the services

VARIABLES
  present,           \* ConnMan's services: path -> online, a partial function
  asked,             \* ConnMan has not yet answered GetServices
  messages,          \* on the way from ConnMan
  proxied,           \* connmanServices_
  activeServices,    \* activeServices_, by path: each path has one type
  announced,         \* the types of the last connectivityChanged
  missed,            \* history: services that changed while nobody listened to them
  steps              \* what has happened to the services

monitorVars == <<present, asked, messages, proxied, activeServices, announced, missed, steps>>

(* The monitor only looks at mobile networks and wlan. *)
Watched == {s \in Services : TypeOf[s] \in {"cellular", "wifi"}}
ActiveConnectionTypes(paths) == {TypeOf[s] : s \in paths}
Online(services) == {s \in DOMAIN services : services[s]}

-----------------------------------------------------------------------------
(* ConnMan *)

Happens == steps < MaxSteps /\ steps' = steps + 1

Answer ==
  /\ asked
  /\ asked' = FALSE
  /\ messages' = Append(messages, [kind |-> "services", services |-> present])
  /\ UNCHANGED <<present, proxied, activeServices, announced, missed, steps>>

AnswerError ==
  /\ asked
  /\ asked' = FALSE
  /\ present = [s \in {} |-> TRUE]  \* ConnMan is not running yet
  /\ UNCHANGED <<present, messages, proxied, activeServices, announced, missed, steps>>

(* A new service is announced with all of its properties. *)
ServiceAppears(s, online) ==
  /\ Happens
  /\ s \notin DOMAIN present
  /\ present' = [t \in DOMAIN present \cup {s} |-> IF t = s THEN online ELSE present[t]]
  /\ messages' = Append(messages, [kind |-> "changed", services |-> [t \in {s} |-> online],
                                   removed |-> {}])
  /\ UNCHANGED <<asked, proxied, activeServices, announced, missed>>

ServiceGoes(s) ==
  /\ Happens
  /\ s \in DOMAIN present
  /\ present' = [t \in DOMAIN present \ {s} |-> present[t]]
  /\ messages' = Append(messages, [kind |-> "changed", services |-> [t \in {} |-> TRUE],
                                   removed |-> {s}])
  /\ missed' = missed \ {s}
  /\ UNCHANGED <<asked, proxied, activeServices, announced>>

(* The bus delivers the signal of a service only to those who asked for it. *)
StateChanges(s) ==
  /\ Happens
  /\ s \in DOMAIN present
  /\ present' = [present EXCEPT ![s] = ~@]
  /\ IF s \in proxied
       THEN messages' = Append(messages, [kind |-> "state", path |-> s, online |-> present'[s]])
            /\ missed' = missed \ {s}
       ELSE missed' = missed \cup {s} /\ UNCHANGED messages
  /\ UNCHANGED <<asked, proxied, activeServices, announced>>

-----------------------------------------------------------------------------
(* The monitor *)

Announce(paths) ==
  announced' = IF ActiveConnectionTypes(paths) # ActiveConnectionTypes(activeServices)
                 THEN ActiveConnectionTypes(paths) ELSE announced

AnnounceFound(paths) ==
  announced' = IF paths # {} THEN ActiveConnectionTypes(paths) ELSE announced

ServiceActive(paths, S) == paths \cup S
ServiceInactive(paths, S) == paths \ S

(* monitorService and forgetService: a proxy for each service. *)
MonitorServices(S, removed) == proxied' = (proxied \ removed) \cup S

(* The answer lists all services. *)
ServiceList(services) ==
  LET paths == ServiceActive(activeServices, Online(services) \cap Watched) IN
  /\ activeServices' = paths
  /\ MonitorServices(DOMAIN services \cap Watched, {})
  /\ AnnounceFound(paths)

(* Mutation: a service that is removed stays active. *)
ServicesChangedKeeping(services, removed) ==
  LET listed == DOMAIN services \cap Watched
      paths == ServiceActive(ServiceInactive(activeServices, listed), Online(services) \cap Watched)
  IN /\ activeServices' = paths
     /\ MonitorServices(listed, removed)
     /\ Announce(paths)

ServicesChanged(services, removed) ==
  LET listed == DOMAIN services \cap Watched
      paths == ServiceActive(ServiceInactive(activeServices, removed \cup listed),
                             Online(services) \cap Watched)
  IN /\ activeServices' = paths
     /\ MonitorServices(listed, removed)
     /\ Announce(paths)

(* A signal for a proxy that was deleted meanwhile reaches nobody, or the  *)
(* proxy that replaced it.                                                 *)
PropertyChanged(path, online) ==
  IF path \in proxied
    THEN LET paths == IF online THEN ServiceActive(activeServices, {path})
                                ELSE ServiceInactive(activeServices, {path}) IN
         activeServices' = paths /\ Announce(paths) /\ UNCHANGED proxied
    ELSE UNCHANGED <<activeServices, announced, proxied>>

Receive ==
  /\ messages # <<>>
  /\ messages' = Tail(messages)
  /\ LET m == Head(messages) IN
     \/ m.kind = "services" /\ ServiceList(m.services)
     \/ m.kind = "changed" /\ ServicesChanged(m.services, m.removed)
     \/ m.kind = "state" /\ PropertyChanged(m.path, m.online)
  /\ UNCHANGED <<present, asked, missed, steps>>

Init ==
  /\ present \in UNION {[D -> BOOLEAN] : D \in SUBSET Services}
  /\ asked = TRUE
  /\ messages = <<>>
  /\ proxied = {} /\ activeServices = {} /\ announced = {} /\ missed = {}
  /\ steps = 0

Next ==
  \/ Answer \/ AnswerError \/ Receive
  \/ \E s \in Services : \/ \E online \in BOOLEAN : ServiceAppears(s, online)
                         \/ ServiceGoes(s) \/ StateChanges(s)

-----------------------------------------------------------------------------
(* When all of ConnMan's messages are handled, the active services are those *)
(* that are online, however the answer came between the signals and proxies  *)
(* came and went: all but the services whose change no proxy listened for.   *)
FollowsConnMan ==
  ~asked /\ messages = <<>> =>
    activeServices \ missed = (Online(present) \cap Watched) \ missed

(* The home screen was last told the types that are active. *)
AnnouncedIsActive == announced = ActiveConnectionTypes(activeServices)
=============================================================================
