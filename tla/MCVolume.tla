------------------------------- MODULE MCVolume -------------------------------
(* Small instances of VolumeControl for model checking. *)
EXTENDS VolumeControl

(* Levels 0 .. 3: both ends are fixed, what is between is read back louder. *)
CubicLoudness == [v \in 0 .. 3 |-> IF v = 1 THEN 2 ELSE v]
Within == {0, 1, 3}
Beyond == {1, 4}
=============================================================================
