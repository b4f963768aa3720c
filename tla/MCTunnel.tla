------------------------------ MODULE MCTunnel ------------------------------
(***************************************************************************)
(* Instances of Tunnel: the cfg files choose the transport, the kind of    *)
(* client and the bounds.  For the liveness runs this module says how the  *)
(* applications at the two ends behave.                                    *)
(***************************************************************************)
EXTENDS Tunnel

\* Applications that read what they are sent and hang up after the other side
\* has; they write, shut and close earlier only if they like.
FinishedReading(d) == fin[Opp[d]] # "open" /\ out[Opp[d]] = <<>>

CourteousSpec ==
    /\ FairSpec
    /\ \A d \in Dir : WF_vars(AppRead(d))
    /\ \A d \in Dir : WF_vars(FinishedReading(d) /\ AppClose(d))
=============================================================================
