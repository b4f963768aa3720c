----------------------------- MODULE DuplexPipe -----------------------------
(***************************************************************************)
(* What a tunnel promises the two applications at its ends, whatever       *)
(* carries it.  Each direction is a pipe: what arrives is what was         *)
(* written, in order and without a gap, and a clean end of input means     *)
(* that the writer ended its stream and all of it has arrived, unless the  *)
(* direction was broken.  A direction is broken by an error, by a reader   *)
(* that goes away, by the loss of a WebSocket whose end its reader cannot  *)
(* tell from an end of input, and, as the handler's return and Proxy's end *)
(* the stream in both directions, upstream by the end of the service's     *)
(* stream.                                                                 *)
(***************************************************************************)
EXTENDS Naturals, Sequences

CONSTANTS Dir, Opp, MaxSent

VARIABLES
    sent,     \* sent[d]: chunks written so far
    shut,     \* shut[d]: the writer has ended its stream
    arrived,  \* arrived[d]: the chunks that reached the reader's socket
    ended,    \* ended[d]: "open", "fin" (a clean end of input) or "reset"
    broken    \* broken[d]: the direction may be cut short

vars == <<sent, shut, arrived, ended, broken>>

Init ==
    /\ sent = [d \in Dir |-> 0]
    /\ shut = [d \in Dir |-> FALSE]
    /\ arrived = [d \in Dir |-> <<>>]
    /\ ended = [d \in Dir |-> "open"]
    /\ broken = [d \in Dir |-> FALSE]

Write(d) ==
    /\ ~shut[d] /\ sent[d] < MaxSent[d]
    /\ sent' = [sent EXCEPT ![d] = @ + 1]
    /\ UNCHANGED <<shut, arrived, ended, broken>>

Shut(d) ==
    /\ ~shut[d]
    /\ shut' = [shut EXCEPT ![d] = TRUE]
    /\ UNCHANGED <<sent, arrived, ended, broken>>

\* An application that goes away ends its stream and stops reading the other.
Leave(d) ==
    /\ shut' = [shut EXCEPT ![d] = TRUE]
    /\ broken' = [broken EXCEPT ![Opp[d]] = TRUE]
    /\ UNCHANGED <<sent, arrived, ended>>

Carry(d) ==
    /\ ended[d] = "open" /\ Len(arrived[d]) < sent[d]
    /\ arrived' = [arrived EXCEPT ![d] = Append(@, Len(@) + 1)]
    /\ UNCHANGED <<sent, shut, ended, broken>>

\* One fault may break both directions.
Break(S) ==
    /\ broken' = [d \in Dir |-> broken[d] \/ d \in S]
    /\ UNCHANGED <<sent, shut, arrived, ended>>

End(d) ==
    /\ ended[d] = "open"
    /\ ended' = [ended EXCEPT ![d] = "fin"]
    /\ \/ shut[d] /\ Len(arrived[d]) = sent[d] /\ UNCHANGED broken
       \/ broken' = [broken EXCEPT ![d] = TRUE]
    /\ UNCHANGED <<sent, shut, arrived>>

Reset(d) ==
    /\ ended' = [ended EXCEPT ![d] = "reset"]
    /\ broken' = [broken EXCEPT ![d] = TRUE]
    /\ UNCHANGED <<sent, shut, arrived>>

Next ==
    \/ \E d \in Dir : \/ Write(d) \/ Shut(d) \/ Leave(d) \/ Carry(d)
                      \/ End(d) \/ Reset(d)
    \/ \E S \in SUBSET Dir : Break(S)

Spec == Init /\ [][Next]_vars
=============================================================================
