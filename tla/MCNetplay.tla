------------------------------ MODULE MCNetplay ------------------------------
(* Small instances of Netplay for TLC.                                     *)
EXTENDS Netplay

(* Any controls once the opening frame, where both players rest, is over.  *)
AnyControls ==
    [f \in 0..(MaxFrame - 1) |-> IF f = 0 THEN {Neutral} ELSE Inputs]

(* Controls that tell a frame from the one a lap of the ring away, with    *)
(* the players already busy at the opening frame ...                       *)
LapControls == [f \in 0..(MaxFrame - 1) |-> {(f + 1) % 3}]
(* ... or at rest there.                                                   *)
RestedLapControls == [f \in 0..(MaxFrame - 1) |-> {f % 3}]
=============================================================================
