------------------------------ MODULE LogindSession ------------------------------
(***************************************************************************)
(* The compositor activates its session at logind when it starts.  The     *)
(* call may be refused, and a switch of terminals can fail without notice, *)
(* so that the state of the session is looked at again a while later.      *)
(***************************************************************************)
EXTENDS Naturals

CONSTANT MaxTries  \* the number of tries after which it gives up

VARIABLES
  logind,         \* whether the session is active at logind
  known,          \* m_logindSession has been found
  sessionActive,  \* m_sessionActive
  tries,          \* m_sessionActivationTries
  activation      \* "due", "calling", "waiting", "done", "refused" or "given up"

sessionVars == <<logind, known, sessionActive, tries, activation>>

(* activateLogindSession(), first from initialize() and then from a timer. *)
(* No session of this user on the seat is the end of it.                   *)
ActivateLogindSession ==
    /\ activation \in {"due", "waiting"}
    /\ tries' = tries + 1
    /\ known' \in {TRUE, known}
    /\ \/ /\ ~known' /\ activation' = "refused"
          /\ UNCHANGED sessionActive
       \/ /\ known' /\ logind
          /\ sessionActive' = TRUE /\ activation' = "done"
       \/ /\ known' /\ ~logind
          /\ activation' = IF tries' > MaxTries THEN "given up" ELSE "calling"
          /\ UNCHANGED sessionActive
    /\ UNCHANGED logind

(* logind answers ActivateSession: after an error nothing is tried again.  *)
ActivateSessionFinished ==
    /\ activation = "calling"
    /\ activation' \in {"waiting", "refused"}
    /\ UNCHANGED <<logind, known, sessionActive, tries>>

(* The session becomes active, or another one does.                        *)
SessionSwitches ==
    /\ logind' = ~logind
    /\ UNCHANGED <<known, sessionActive, tries, activation>>

Init ==
    /\ logind \in BOOLEAN /\ known = FALSE /\ sessionActive = FALSE
    /\ tries = 0 /\ activation = "due"

Next == ActivateLogindSession \/ ActivateSessionFinished \/ SessionSwitches

(* The activation comes to an end, and not while it would have to go on:   *)
(* a session that was found inactive ends it only by an error or after the *)
(* last try, and one announced active was seen so.                         *)
ActivationEnds ==
    <>(/\ activation \in {"done", "refused", "given up"}
       /\ (activation = "done") = sessionActive
       /\ activation = "given up" => tries = MaxTries + 1)
=============================================================================
