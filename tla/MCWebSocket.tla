---------------------------- MODULE MCWebSocket ----------------------------
(* Two threads of the client write beside its heartbeat, its read loop and the
   thread that closes: one sends a message in two frames, one in one. *)
EXTENDS WebSocket
TwoWriters == {<<"pump", "client">>, <<"control", "client">>}
TwoAndOne == [w \in TwoWriters |-> IF w[1] = "pump" THEN <<2>> ELSE <<1>>]
=============================================================================
