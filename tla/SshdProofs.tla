------------------------------ MODULE SshdProofs ------------------------------
(***************************************************************************)
(* Proofs about Sshd, for any number of chunks and any size of the pipes.  *)
(***************************************************************************)
EXTENDS Sshd, TLAPS

-----------------------------------------------------------------------------
(* The invariant behind OutputComplete says where each chunk is that the   *)
(* child has written, until the copy of the output ends, and why it ends.  *)

Types ==
    /\ kind \in {"pty", "exec", "none"}
    /\ main \in {"start", "wait", "drain", "exit", "close", "over"}
    /\ child \in {"none", "runs", "exited"}
    /\ out \in {"none", "read", "write", "done"}
    /\ channel \in {"open", "closed"}
    /\ client \in {"open", "eof", "closed", "gone"}
    /\ {made, buffered, sent} \subseteq Nat
    /\ expired \in BOOLEAN /\ ptyOpen \in BOOLEAN

\* A session that has not started a child has no output.
Started ==
    /\ child = "none" <=> out = "none"
    /\ child = "none" => main \in {"start", "over"} /\ made = 0 /\ buffered = 0 /\ sent = 0
    /\ main = "start" => child = "none" /\ channel = "open"

\* While the copy runs, what the child has written has been sent, is in the
\* copy's buffer, or is still to be read.
Located ==
    /\ out = "read" => sent + buffered = made
    /\ out = "write" => sent + buffered + 1 = made

\* Unless the grace period ran out, the handler gives an exit status behind
\* the end of the copy, and the pty is open until then.
Ordered ==
    /\ channel = "closed" => main \in {"close", "over"}
    /\ client = "closed" => channel = "closed"
    /\ main \in {"start", "wait", "drain"} => ~expired
    /\ main \in {"exit", "close", "over"} /\ child # "none" => expired \/ out = "done"
    /\ kind = "pty" /\ main \in {"wait", "drain", "exit", "close"} => ptyOpen

\* A copy that has ended for any reason but a lost client or the grace period
\* has sent all of what the child will ever write.
Complete ==
    out = "done" /\ client # "gone" /\ ~expired
    => sent = made /\ buffered = 0 /\ child = "exited"

OutInv == Types /\ Started /\ Located /\ Ordered /\ Complete

-----------------------------------------------------------------------------

LEMMA OutInit == Init => OutInv
<1> SUFFICES ASSUME Init PROVE OutInv
  OBVIOUS
<1>1. Types
  <2>1. expired \in BOOLEAN /\ ptyOpen \in BOOLEAN
    BY Zenon DEF Init
  <2> QED  BY <2>1 DEF Init, Types
<1>2. Started /\ Located /\ Ordered /\ Complete
  BY DEF Init, Started, Located, Ordered, Complete
<1> QED  BY <1>1, <1>2 DEF OutInv

LEMMA HandlerStep ==
    ASSUME OutInv, Handler
    PROVE  OutInv'
<1> USE DEF OutInv, Types, Started, Located, Ordered, Complete, request, childVars,
            outVars, inVars, clientVars
<1>1. CASE Fail
  BY <1>1 DEF Fail, SendExit
<1>2. CASE Start
  <2>1. ptyOpen' \in BOOLEAN /\ (ptyOpen' <=> kind = "pty")
    BY <1>2, Zenon DEF Start
  <2> QED  BY <1>2, <2>1 DEF Start
<1>3. CASE Wait
  BY <1>3 DEF Wait
<1>4. CASE Drain
  <2>1. expired' \in BOOLEAN /\ (expired' <=> out # "done")
    BY <1>4, Zenon DEF Drain
  <2>2. main = "drain" /\ main' = "exit"
        /\ UNCHANGED <<request, ptyOpen, channel, childVars, outVars, clientVars>>
    BY <1>4, Zenon DEF Drain
  <2> QED  BY <2>1, <2>2
<1>5. CASE Exit
  BY <1>5 DEF Exit, SendExit
<1>6. CASE Return
  BY <1>6 DEF Return
<1> QED  BY <1>1, <1>2, <1>3, <1>4, <1>5, <1>6 DEF Handler

\* The copy of the output finds the pty closed, or the client gone or closed,
\* only where Complete excuses it.
LEMMA CopyOutStep ==
    ASSUME OutInv, CopyOut
    PROVE  OutInv'
<1> USE DEF OutInv, Types, Started, Located, Ordered, Complete, request, handlerVars,
            inVars, clientVars
<1>1. CASE CopyOutReads
  <2>1. CASE PtyClosed /\ out' = "done" /\ UNCHANGED buffered
    BY <1>1, <2>1 DEF CopyOutReads, PtyClosed
  <2>2. CASE OutputEnds /\ out' = "done" /\ UNCHANGED buffered
    BY <1>1, <2>2 DEF CopyOutReads, OutputEnds
  <2>3. CASE buffered > 0 /\ out' = "write" /\ buffered' = buffered - 1
    BY <1>1, <2>3 DEF CopyOutReads
  <2> QED  BY <1>1, <2>1, <2>2, <2>3 DEF CopyOutReads
<1>2. CASE CopyOutWrites
  BY <1>2 DEF CopyOutWrites, ClientLeft, childVars
<1> QED  BY <1>1, <1>2 DEF CopyOut

LEMMA CopyInStep ==
    ASSUME OutInv, CopyIn
    PROVE  OutInv'
<1>1. UNCHANGED <<request, handlerVars, childVars, outVars, clientVars>>
  BY DEF CopyIn, CopyInReads, CopyInWrites
<1> QED
  BY <1>1 DEF OutInv, Types, Started, Located, Ordered, Complete, request, handlerVars,
     childVars, outVars, clientVars

LEMMA ChildStep ==
    ASSUME OutInv, Child
    PROVE  OutInv'
<1> USE DEF OutInv, Types, Started, Located, Ordered, Complete, request, handlerVars,
            outVars, inVars, clientVars
<1>1. CASE ChildWrites
  BY <1>1 DEF ChildWrites
<1>2. CASE ChildReads
  BY <1>2 DEF ChildReads, childVars
<1>3. CASE ChildExits
  BY <1>3 DEF ChildExits
<1>4. CASE HeirEnds
  BY <1>4 DEF HeirEnds
<1> QED  BY <1>1, <1>2, <1>3, <1>4 DEF Child

LEMMA ClientStep ==
    ASSUME OutInv, Client
    PROVE  OutInv'
<1> USE DEF OutInv, Types, Started, Located, Ordered, Complete, request, handlerVars,
            childVars, outVars, ClientLeft
<1>1. CASE ClientSends
  BY <1>1 DEF ClientSends
<1>2. CASE ClientStalls
  BY <1>2 DEF ClientStalls
<1>3. CASE ClientAnswersClose
  BY <1>3 DEF ClientAnswersClose
<1>4. CASE ConnectionDrops
  BY <1>4 DEF ConnectionDrops
<1> QED  BY <1>1, <1>2, <1>3, <1>4 DEF Client

LEMMA OutNext == OutInv /\ [Next]_vars => OutInv'
<1> SUFFICES ASSUME OutInv, [Next]_vars PROVE OutInv'
  OBVIOUS
<1>1. CASE Next
  BY <1>1, HandlerStep, CopyOutStep, CopyInStep, ChildStep, ClientStep DEF Next
<1>2. CASE UNCHANGED vars
  BY <1>2 DEF vars, OutInv, Types, Started, Located, Ordered, Complete, request,
     handlerVars, childVars, outVars, clientVars
<1> QED  BY <1>1, <1>2

LEMMA OutAlways == Spec => []OutInv
BY OutInit, OutNext, PTL DEF Spec

\* An exit status means that the client has all of the output, unless the
\* grace period of a shell ran out first (sshd.go:155 and 167).
THEOREM OutputIsComplete == Spec => []OutputComplete
<1>1. OutInv => OutputComplete
  BY DEF OutInv, Types, Started, Ordered, Complete, OutputComplete
<1> QED  BY <1>1, OutAlways, PTL

=============================================================================
