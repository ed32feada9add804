------------------------- MODULE MCSessionManager -------------------------
(* Small instances of SessionManager for TLC: see the .cfg files.          *)
EXTENDS SessionManager

(* The sessionIds of the instances. *)
OneId    == {1}
TwoIds   == {1, 2}
WithZero == {0, 1}
=============================================================================
