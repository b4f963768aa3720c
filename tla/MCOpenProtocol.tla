--------------------------- MODULE MCOpenProtocol ---------------------------
(***************************************************************************)
(* OpenProtocol for TLC: the shell, an endpoint that is up, one that is    *)
(* allowed and down, and a name that is not on the allowlist.              *)
(***************************************************************************)
EXTENDS OpenProtocol

Names == {"@shell", "web", "down", "typo"}
OnAllowlist == {"@shell", "web", "down"}
Reachable == {"@shell", "web", "typo"}
=============================================================================
