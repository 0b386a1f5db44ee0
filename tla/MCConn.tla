------------------------------- MODULE MCConn --------------------------------
(* An instance of Conn for TLC: without an app, the stream "a/s" has the   *)
(* key of the app "/a" and the stream "s".                                 *)
EXTENDS Conn

MCApps == {<<"a">>, <<"/", "a">>}
MCStreams == {<<"s">>, <<"a", "/", "s">>}
=============================================================================
