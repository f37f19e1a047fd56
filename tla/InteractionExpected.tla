------------------------- MODULE InteractionExpected -------------------------
(***************************************************************************)
(* How the screen lock tells MCE that the user is expected to interact:    *)
(* the bindings of the user interface evaluate to several values in a row, *)
(* of which an idle timer broadcasts the one that is left.                 *)
(***************************************************************************)
EXTENDS Naturals

CONSTANT MaxValues \* bound on the values set

VARIABLES
  expected,  \* m_interactionExpectedCurrent
  told,      \* m_interactionExpectedEmitted; "never" is its -1
  idleTimer, \* m_interactionExpectedTimer runs
  values     \* values set so far

(* setInteractionExpected(): the timer is stopped for the value last told. *)
SetInteractionExpected(value) ==
    /\ values < MaxValues
    /\ values' = values + 1
    /\ expected' = value
    /\ idleTimer' = (told # value)
    /\ UNCHANGED told

InteractionExpectedBroadcast ==
    /\ idleTimer
    /\ idleTimer' = FALSE
    /\ told' = expected
    /\ UNCHANGED <<expected, values>>

Init ==
    /\ expected = "no" /\ told = "never" /\ idleTimer = FALSE /\ values = 0

Next ==
    \/ \E value \in {"yes", "no"} : SetInteractionExpected(value)
    \/ InteractionExpectedBroadcast

-----------------------------------------------------------------------------

(* The timer runs exactly while what MCE was told differs from what is     *)
(* expected: nothing is told twice, and no change is forgotten.            *)
ToldWhatIsExpected ==
    values > 0 => (idleTimer <=> told # expected)
=============================================================================
