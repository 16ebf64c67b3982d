-------------------------------- MODULE MCLobby --------------------------------
(* Small instances of MultiplayerLobby for TLC.                            *)
EXTENDS MultiplayerLobby

(* Both libraries hold every game.                                         *)
SameLibrary == <<Games, Games>>

(* Application 2 may start anew; either of the two may have the lower nonce. *)
Restarts == << {2}, {1, 3} >>
=============================================================================
