---------------------------- MODULE MCStreamConn ----------------------------
(***************************************************************************)
(* StreamConn for TLC: every kind of Conn, two goroutines that close.      *)
(***************************************************************************)
EXTENDS StreamConn

\* One closer is handleTCP's or splice's deferred Close, the other the SSH
\* server's.
TwoClosers == {"first", "second"}
=============================================================================
