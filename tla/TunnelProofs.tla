---------------------------- MODULE TunnelProofs ----------------------------
(***************************************************************************)
(* Proofs about Tunnel, for every transport, client, capacity and number   *)
(* of chunks, with and without faults.                                     *)
(***************************************************************************)
EXTENDS Tunnel, TLAPS

(***************************************************************************)
(* The inductive invariant.  InOrder alone is not inductive: it says       *)
(* nothing of the chunks that are still on their way.  While the second    *)
(* loop of a direction copies, what it holds and what is on the wire       *)
(* continue what has arrived; while the first loop copies too, what it     *)
(* holds and what waits in its socket continue that, up to the last chunk  *)
(* sent.  Once the first loop has ended cleanly nothing is left behind it. *)
(***************************************************************************)
Flowing(d) == pc[Second[d]] = "copy" /\ gone[Opp[d]] # "reset"

AtSecond(d) == Arrived(d) + Len(hold[Second[d]])
OnWire(d) == AtSecond(d) + Len(wire[d])
AtFirst(d) == OnWire(d) + Len(hold[First[d]])

WireInOrder(d) ==
    Flowing(d) =>
        /\ Run(hold[Second[d]], Arrived(d))
        /\ Run(wire[d], AtSecond(d))
        /\ OnWire(d) <= sent[d]

SockInOrder(d) ==
    Flowing(d) /\ link /\ pc[First[d]] = "copy" =>
        /\ Run(hold[First[d]], OnWire(d)) /\ AtFirst(d) <= sent[d]
        /\ Run(sock[d], AtFirst(d))
        /\ ~Torn(d) => AtFirst(d) + Len(sock[d]) = sent[d]

FirstClean(d) == pc[First[d]] # "copy" /\ ~err[First[d]]

\* io.Copy returned nil, and not because of a bare FIN.
SecondNil(d) == pc[Second[d]] # "copy" /\ ~err[Second[d]]
SecondClean(d) == SecondNil(d) /\ d \notin bare

CleanOnWire(d) ==
    FirstClean(d) /\ Flowing(d) /\ link => shut[d] /\ OnWire(d) = sent[d]

CleanArrived(d) ==
    FirstClean(d) /\ SecondClean(d) /\ gone[Opp[d]] # "reset"
        => shut[d] /\ Arrived(d) = sent[d]

\* An end of stream is put on the wire, and seen behind it, only when the
\* first loop will send no more.
FirstStopped(d) == pc[First[d]] # "copy" \/ ~Attached(d)
MarkIsLast(d) == (mark[d] => link) /\ (mark[d] \/ SecondClean(d) => FirstStopped(d))

\* Only a connection that is gone was ended by a bare FIN.
BareIsCut(d) == d \in bare => ~link

\* A reset socket holds nothing more to read; a pipe is never half gone.
WriterGone(d) == (Torn(d) => sock[d] = <<>>) /\ (IsPipe(d) => gone[d] # "closed")

Ends ==
    /\ agent # "open" => pc["agentDown"] # "copy"
    /\ fin["down"] # "open" /\ client = "open"
         => fin["down"] = "fin" /\ SecondNil("down")

ArrivedInOrder(d) ==
    Run(got[d], 0) /\ Run(out[d], Len(got[d])) /\ Arrived(d) <= sent[d]

Lane(d) ==
    /\ ArrivedInOrder(d) /\ WireInOrder(d) /\ SockInOrder(d)
    /\ CleanOnWire(d) /\ CleanArrived(d)
    /\ MarkIsLast(d) /\ BareIsCut(d) /\ WriterGone(d)

IInv == TypeOK /\ (\A d \in Dir : Lane(d)) /\ Ends

-----------------------------------------------------------------------------
(* Lemmas about runs of chunks. *)

\* An empty buffer carries nothing.
LEMMA RunEmpty == \A n : Run(<<>>, n) /\ Len(<<>>) = 0
  BY DEF Run

\* A buffer of one chunk carries that chunk.
LEMMA RunOne ==
  ASSUME NEW n \in Nat
  PROVE  Run(<<n + 1>>, n) /\ Len(<<n + 1>>) = 1 /\ <<n + 1>> \in Seq(Nat)
  BY DEF Run

\* Writing the next chunk to a buffer extends its run.
LEMMA RunAppend ==
  ASSUME NEW s \in Seq(Nat), NEW n \in Nat, Run(s, n), NEW x, x = n + Len(s) + 1
  PROVE  Run(Append(s, x), n) /\ Len(Append(s, x)) = Len(s) + 1 /\ Append(s, x) \in Seq(Nat)
  BY DEF Run

\* Reading a chunk from a buffer takes the first of its run.
LEMMA RunTail ==
  ASSUME NEW s \in Seq(Nat), s # <<>>, NEW n \in Nat, Run(s, n)
  PROVE  /\ Head(s) = n + 1
         /\ Run(Tail(s), n + 1)
         /\ Len(Tail(s)) = Len(s) - 1 /\ Len(s) > 0 /\ Tail(s) \in Seq(Nat)
<1>1. Len(s) \in Nat /\ Len(s) > 0 /\ Len(Tail(s)) = Len(s) - 1 /\ Tail(s) \in Seq(Nat)
  OBVIOUS
<1>2. Head(s) = n + 1
  BY <1>1 DEF Run
<1>3. \A i \in 1 .. Len(Tail(s)) : Tail(s)[i] = s[i + 1] /\ i + 1 \in 1 .. Len(s)
  BY <1>1
<1>4. Run(Tail(s), n + 1)
  BY <1>1, <1>3 DEF Run
<1>5. QED
  BY <1>1, <1>2, <1>4

\* The four loops are distinct, two to a direction.
LEMMA LoopNames ==
  \A d, e \in Dir :
    /\ First[d] \in Loop /\ Second[d] \in Loop /\ First[d] # Second[e]
    /\ First[d] = First[e] => d = e
    /\ Second[d] = Second[e] => d = e
    /\ Opp[d] \in Dir /\ Opp[d] # d /\ Opp[Opp[d]] = d
  BY DEF First, Second, Opp, Dir, Loop

\* The types and lengths of what the buffer operations return.
LEMMA SeqFacts ==
  /\ <<>> \in Seq(Nat) /\ Len(<<>>) = 0
  /\ \A x \in Nat : <<x>> \in Seq(Nat) /\ Len(<<x>>) = 1
  /\ \A s \in Seq(Nat) : Len(s) \in Nat
  /\ \A s \in Seq(Nat) : s # <<>> =>
        /\ Head(s) \in Nat /\ Tail(s) \in Seq(Nat)
        /\ Len(Tail(s)) = Len(s) - 1 /\ Len(s) > 0
  /\ \A s \in Seq(Nat), x \in Nat :
        Append(s, x) \in Seq(Nat) /\ Len(Append(s, x)) = Len(s) + 1
  OBVIOUS

\* What losing the link does to the wire.
LEMMA DropLinkTypes ==
  ASSUME TypeOK, NEW S \in SUBSET Dir, DropLink(S)
  PROVE  /\ wire' \in [Dir -> Seq(Nat)] /\ mark' \in [Dir -> BOOLEAN] /\ link' = FALSE
         /\ bare' \subseteq Dir
         /\ \A d \in Dir : /\ wire'[d] = <<>> \/ wire'[d] = wire[d]
                           /\ Len(wire'[d]) <= Cap /\ mark'[d] = FALSE
<1>1. bare' \subseteq Dir
  BY DEF DropLink
<1>2. wire \in [Dir -> Seq(Nat)] /\ \A d \in Dir : Len(wire[d]) <= Cap
  BY DEF TypeOK, Typed, Bounded
<1>3. wire' = [d \in Dir |-> IF d \in bare' THEN wire[d] ELSE <<>>]
  BY DEF DropLink
<1>4. \A d \in Dir : wire'[d] = <<>> \/ wire'[d] = wire[d]
  BY <1>3
<1>5. wire' \in [Dir -> Seq(Nat)] /\ \A d \in Dir : Len(wire'[d]) <= Cap
  BY <1>2, <1>3, <1>4, SeqFacts, BoundAssumption
<1>6. mark' \in [Dir -> BOOLEAN]
  BY ZenonT(10) DEF DropLink
<1>7. link' = FALSE /\ \A d \in Dir : mark'[d] = FALSE
  BY DEF DropLink
<1>8. QED
  BY <1>1, <1>4, <1>5, <1>6, <1>7

\* Four actions drop the link and do nothing else.
LEMMA Drops ==
  ASSUME HangUp \/ ProxyExits \/ KeepaliveKill \/ LinkLost
  PROVE  /\ link /\ \E S \in SUBSET Dir : DropLink(S)
         /\ UNCHANGED <<appVars, sockVars, loopVars, client, agent>>
<1>1. {} \in SUBSET Dir /\ {"up"} \in SUBSET Dir /\ {"down"} \in SUBSET Dir
  BY DEF Dir
<1>2. CASE HangUp
  BY <1>1, <1>2 DEF HangUp
<1>3. CASE ProxyExits
  BY <1>1, <1>3 DEF ProxyExits
<1>4. CASE KeepaliveKill
  BY <1>1, <1>4 DEF KeepaliveKill
<1>5. CASE LinkLost
  <2>1. PICK S \in SUBSET (IF Transport = "ws" THEN Dir ELSE {}) : DropLink(S)
    BY <1>5 DEF LinkLost
  <2>2. S \in SUBSET Dir
    BY <2>1
  <2>3. QED
    BY <1>5, <2>1, <2>2 DEF LinkLost
<1>6. QED
  BY <1>2, <1>3, <1>4, <1>5

-----------------------------------------------------------------------------
(* Types: each action keeps them. *)

\* The bounds on what is sent are numbers.
LEMMA MaxSentNat == \A d \in Dir : MaxSent[d] \in Nat
  BY BoundAssumption DEF MaxSent, Dir

\* AppWrite keeps every variable's type and every buffer within its bound.
LEMMA AppWriteTypes ==
  ASSUME TypeOK, NEW d \in Dir, AppWrite(d)
  PROVE  TypeOK'
<1> USE LoopNames, SeqFacts DEF TypeOK, Typed
<1>1. UNCHANGED <<shut, gone, got, out, fin, pc, hold, err, client, agent, wire, mark, link, bare>>
  BY DEF AppWrite, appVars, sockVars, loopVars, wireVars
<1>2. sent' \in [Dir -> Nat]
  BY DEF AppWrite
<1>3. sock' \in [Dir -> Seq(Nat)]
  BY DEF AppWrite
<1>4. Bounded'
  BY SMTT(30), BoundAssumption, MaxSentNat DEF Bounded, AppWrite, appVars, sockVars, loopVars, wireVars
<1>5. QED
  BY <1>1, <1>2, <1>3, <1>4

\* AppShut keeps every variable's type and every buffer within its bound.
LEMMA AppShutTypes ==
  ASSUME TypeOK, NEW d \in Dir, AppShut(d)
  PROVE  TypeOK'
<1> USE LoopNames, SeqFacts DEF TypeOK, Typed
<1>1. UNCHANGED <<sent, gone, got, sock, out, fin, pc, hold, err, client, agent, wire, mark, link, bare>>
  BY DEF AppShut, appVars, sockVars, loopVars, wireVars
<1>2. shut' \in [Dir -> BOOLEAN]
  BY DEF AppShut
<1>3. Bounded'
  BY BoundAssumption DEF Bounded, AppShut, appVars, sockVars, loopVars, wireVars
<1>4. QED
  BY <1>1, <1>2, <1>3

\* AppRead keeps every variable's type and every buffer within its bound.
LEMMA AppReadTypes ==
  ASSUME TypeOK, NEW d \in Dir, AppRead(d)
  PROVE  TypeOK'
<1> USE LoopNames, SeqFacts DEF TypeOK, Typed
<1>1. UNCHANGED <<sent, shut, gone, sock, fin, pc, hold, err, client, agent, wire, mark, link, bare>>
  BY DEF AppRead, appVars, sockVars, loopVars, wireVars
<1>2. got' \in [Dir -> Seq(Nat)]
  BY DEF AppRead
<1>3. out' \in [Dir -> Seq(Nat)]
  BY DEF AppRead
<1>4. Bounded'
  BY BoundAssumption DEF Bounded, AppRead, appVars, sockVars, loopVars, wireVars
<1>5. QED
  BY <1>1, <1>2, <1>3, <1>4

\* AppClose keeps every variable's type and every buffer within its bound.
LEMMA AppCloseTypes ==
  ASSUME TypeOK, NEW d \in Dir, AppClose(d)
  PROVE  TypeOK'
<1> USE LoopNames, SeqFacts DEF TypeOK, Typed
<1>1. UNCHANGED <<sent, got, out, fin, pc, hold, err, client, agent, wire, mark, link, bare>>
  BY DEF AppClose, appVars, sockVars, loopVars, wireVars
<1>2. gone' \in [Dir -> {"no", "closed", "reset"}]
  BY DEF AppClose
<1>3. shut' \in [Dir -> BOOLEAN]
  BY DEF AppClose
<1>4. sock' \in [Dir -> Seq(Nat)]
  BY DEF AppClose
<1>5. Bounded'
  BY BoundAssumption DEF Bounded, AppClose, appVars, sockVars, loopVars, wireVars
<1>6. QED
  BY <1>1, <1>2, <1>3, <1>4, <1>5

\* CopyIn keeps every variable's type and every buffer within its bound.
LEMMA CopyInTypes ==
  ASSUME TypeOK, NEW d \in Dir, CopyIn(d)
  PROVE  TypeOK'
<1> USE LoopNames, SeqFacts DEF TypeOK, Typed
<1>1. UNCHANGED <<sent, shut, gone, got, out, fin, pc, err, client, agent, wire, mark, link, bare>>
  BY DEF CopyIn, appVars, sockVars, loopVars, wireVars
<1>2. hold' \in [Loop -> Seq(Nat)]
  BY DEF CopyIn
<1>3. sock' \in [Dir -> Seq(Nat)]
  BY DEF CopyIn
<1>4. Bounded'
  BY BoundAssumption, SMTT(30) DEF Bounded, CopyIn, appVars, sockVars, loopVars, wireVars
<1>5. QED
  BY <1>1, <1>2, <1>3, <1>4

\* Send keeps every variable's type and every buffer within its bound.
LEMMA SendTypes ==
  ASSUME TypeOK, NEW d \in Dir, Send(d)
  PROVE  TypeOK'
<1> USE LoopNames, SeqFacts DEF TypeOK, Typed
<1>1. UNCHANGED <<sent, shut, gone, got, sock, out, fin, pc, err, client, agent, mark, link, bare>>
  BY DEF Send, appVars, sockVars, loopVars, wireVars
<1>2. wire' \in [Dir -> Seq(Nat)]
  BY DEF Send, HasRoom
<1>3. hold' \in [Loop -> Seq(Nat)]
  BY DEF Send, HasRoom
<1>4. Bounded'
  BY BoundAssumption, SMTT(30) DEF Bounded, Send, appVars, sockVars, loopVars, wireVars, HasRoom
<1>5. QED
  BY <1>1, <1>2, <1>3, <1>4

\* CopyEnd keeps every variable's type and every buffer within its bound.
LEMMA CopyEndTypes ==
  ASSUME TypeOK, NEW d \in Dir, CopyEnd(d)
  PROVE  TypeOK'
<1> USE LoopNames, SeqFacts DEF TypeOK, Typed
<1>1. UNCHANGED <<sent, shut, gone, got, sock, out, fin, client, agent, wire, mark, link, bare>>
  BY DEF CopyEnd, appVars, sockVars, loopVars, wireVars
<1>2. err' \in [Loop -> BOOLEAN]
  BY ZenonT(40) DEF CopyEnd, Torn
<1>3. pc' \in [Loop -> {"copy", "ended", "done"}]
  BY DEF CopyEnd, Torn
<1>4. hold' \in [Loop -> Seq(Nat)]
  BY DEF CopyEnd, Torn
<1>5. Bounded'
  BY BoundAssumption DEF Bounded, CopyEnd, appVars, sockVars, loopVars, wireVars, Torn
<1>6. QED
  BY <1>1, <1>2, <1>3, <1>4, <1>5

\* Receive keeps every variable's type and every buffer within its bound.
LEMMA ReceiveTypes ==
  ASSUME TypeOK, NEW d \in Dir, Receive(d)
  PROVE  TypeOK'
<1> USE LoopNames, SeqFacts DEF TypeOK, Typed
<1>1. UNCHANGED <<sent, shut, gone, got, sock, out, fin, pc, err, client, agent, mark, link, bare>>
  BY DEF Receive, appVars, sockVars, loopVars, wireVars
<1>2. hold' \in [Loop -> Seq(Nat)]
  BY DEF Receive
<1>3. wire' \in [Dir -> Seq(Nat)]
  BY DEF Receive
<1>4. Bounded'
  BY BoundAssumption, SMTT(30) DEF Bounded, Receive, appVars, sockVars, loopVars, wireVars
<1>5. QED
  BY <1>1, <1>2, <1>3, <1>4

\* Deliver keeps every variable's type and every buffer within its bound.
LEMMA DeliverTypes ==
  ASSUME TypeOK, NEW d \in Dir, Deliver(d)
  PROVE  TypeOK'
<1> USE LoopNames, SeqFacts DEF TypeOK, Typed
<1>1. UNCHANGED <<sent, shut, got, fin, pc, err, client, agent, wire, mark, link, bare>>
  BY DEF Deliver, appVars, sockVars, loopVars, wireVars
<1>2. hold' \in [Loop -> Seq(Nat)] /\ \A l \in Loop : Len(hold'[l]) <= 1
  BY SMTT(30) DEF Deliver, Bounded
<1>3. CASE gone[Opp[d]] = "no"
  <2>1. out' = [out EXCEPT ![d] = Append(@, Head(hold[Second[d]]))] /\ UNCHANGED <<gone, sock>>
    BY <1>3 DEF Deliver
  <2>2. Head(hold[Second[d]]) \in Nat /\ Len(out[d]) + 1 <= Cap
    <3>1. hold[Second[d]] \in Seq(Nat) /\ hold[Second[d]] # <<>>
      BY DEF Deliver
    <3>2. Len(out[d]) \in Nat /\ Len(out[d]) < Cap /\ Cap \in Nat
      BY BoundAssumption DEF Deliver
    <3>3. QED
      BY <3>1, <3>2
  <2>3. out' \in [Dir -> Seq(Nat)]
    BY <2>1, <2>2
  <2>4. \A e \in Dir : Len(out'[e]) <= Cap
    BY <2>1, <2>2 DEF Bounded
  <2>5. QED
    BY <1>1, <1>2, <2>1, <2>3, <2>4 DEF Bounded
<1>4. CASE gone[Opp[d]] # "no"
  <2>1. /\ gone' = [gone EXCEPT ![Opp[d]] = "reset"]
        /\ sock' = [sock EXCEPT ![Opp[d]] = <<>>]
        /\ UNCHANGED out
    BY <1>4 DEF Deliver
  <2>2. sock' \in [Dir -> Seq(Nat)] /\ \A e \in Dir : Len(sock'[e]) <= Cap
    BY <2>1, BoundAssumption DEF Bounded
  <2>3. gone' \in [Dir -> {"no", "closed", "reset"}]
    BY <2>1
  <2>4. QED
    BY <1>1, <1>2, <2>1, <2>2, <2>3 DEF Bounded
<1>5. QED
  BY <1>3, <1>4

\* RecvEnd keeps every variable's type and every buffer within its bound.
LEMMA RecvEndTypes ==
  ASSUME TypeOK, NEW d \in Dir, RecvEnd(d)
  PROVE  TypeOK'
<1> USE LoopNames, SeqFacts DEF TypeOK, Typed
<1>1. UNCHANGED <<sent, shut, gone, got, sock, out, fin, client, agent>>
  BY DEF RecvEnd, appVars, sockVars, loopVars, wireVars
<1>2. err' \in [Loop -> BOOLEAN]
  BY DEF RecvEnd
<1>3. pc' \in [Loop -> {"copy", "ended", "done"}]
  BY DEF RecvEnd
<1>4. hold' \in [Loop -> Seq(Nat)]
  BY DEF RecvEnd
<1>5. /\ wire' \in [Dir -> Seq(Nat)] /\ mark' \in [Dir -> BOOLEAN] /\ link' \in BOOLEAN
      /\ bare' \subseteq Dir /\ \A e \in Dir : Len(wire'[e]) <= Cap
  <2>1. UNCHANGED wireVars \/ DropLink({})
    BY DEF RecvEnd
  <2>2. CASE UNCHANGED wireVars
    BY <2>2 DEF wireVars, Bounded
  <2>3. CASE DropLink({})
    <3>1. {} \in SUBSET Dir
      OBVIOUS
    <3> HIDE DEF TypeOK
    <3>2. QED
      BY <2>3, <3>1, DropLinkTypes
  <2>4. QED
    BY <2>1, <2>2, <2>3
<1>8. Bounded'
  <2>1. \A e \in Dir : Len(wire'[e]) <= Cap
    BY <1>5
  <2>2. \A l \in Loop : Len(hold'[l]) <= 1
    BY DEF Bounded, RecvEnd
  <2>3. QED
    BY <1>1, <2>1, <2>2 DEF Bounded
<1>9. QED
  BY <1>1, <1>2, <1>3, <1>4, <1>5, <1>8

\* ClientCloseWrite keeps every variable's type and every buffer within its bound.
LEMMA ClientCloseWriteTypes ==
  ASSUME TypeOK, ClientCloseWrite
  PROVE  TypeOK'
<1> USE LoopNames, SeqFacts DEF TypeOK, Typed
<1>1. UNCHANGED <<sent, shut, gone, got, sock, out, fin, hold, err, client, agent, wire, link, bare>>
  BY DEF ClientCloseWrite, appVars, sockVars, loopVars, wireVars
<1>2. mark' \in [Dir -> BOOLEAN]
  <2>1. mark \in [Dir -> BOOLEAN] /\ "up" \in Dir
    BY DEF Dir
  <2>2. mark' = mark \/ mark' = [mark EXCEPT !["up"] = TRUE]
    BY DEF ClientCloseWrite
  <2>3. QED
    BY <2>1, <2>2
<1>3. pc' \in [Loop -> {"copy", "ended", "done"}]
  BY DEF ClientCloseWrite, Dir, Loop
<1>4. Bounded'
  BY BoundAssumption DEF Bounded, ClientCloseWrite, appVars, sockVars, loopVars, wireVars, Dir, Loop
<1>5. QED
  BY <1>1, <1>2, <1>3, <1>4

\* AgentCloseWrite keeps every variable's type and every buffer within its bound.
LEMMA AgentCloseWriteTypes ==
  ASSUME TypeOK, AgentCloseWrite
  PROVE  TypeOK'
<1> USE LoopNames, SeqFacts DEF TypeOK, Typed
<1>1. UNCHANGED <<sent, shut, gone, got, sock, out, hold, err, client, agent, wire, mark, link, bare>>
  BY DEF AgentCloseWrite, appVars, sockVars, loopVars, wireVars
<1>2. pc' \in [Loop -> {"copy", "ended", "done"}]
  BY DEF AgentCloseWrite, Dir, Loop
<1>3. fin' \in [Dir -> {"open", "fin", "reset"}]
  BY DEF AgentCloseWrite, Dir, Loop
<1>4. Bounded'
  BY BoundAssumption DEF Bounded, AgentCloseWrite, appVars, sockVars, loopVars, wireVars, Dir, Loop
<1>5. QED
  BY <1>1, <1>2, <1>3, <1>4

\* ClientHalfClose keeps every variable's type and every buffer within its bound.
LEMMA ClientHalfCloseTypes ==
  ASSUME TypeOK, ClientHalfClose
  PROVE  TypeOK'
<1> USE LoopNames, SeqFacts DEF TypeOK, Typed
<1>1. UNCHANGED <<sent, shut, gone, got, sock, out, hold, err, client, agent, wire, mark, link, bare>>
  BY DEF ClientHalfClose, appVars, sockVars, loopVars, wireVars
<1>2. pc' \in [Loop -> {"copy", "ended", "done"}]
  BY DEF ClientHalfClose, Dir, Loop
<1>3. fin' \in [Dir -> {"open", "fin", "reset"}]
  BY DEF ClientHalfClose, Dir, Loop
<1>4. Bounded'
  BY BoundAssumption DEF Bounded, ClientHalfClose, appVars, sockVars, loopVars, wireVars, Dir, Loop
<1>5. QED
  BY <1>1, <1>2, <1>3, <1>4

\* ClientClose keeps every variable's type and every buffer within its bound.
LEMMA ClientCloseTypes ==
  ASSUME TypeOK, ClientClose
  PROVE  TypeOK'
<1> USE LoopNames, SeqFacts DEF TypeOK, Typed
<1>1. UNCHANGED <<sent, shut, gone, got, sock, out, pc, hold, err, agent, wire, link, bare>>
  BY DEF ClientClose, appVars, sockVars, loopVars, wireVars
<1>2. mark' \in [Dir -> BOOLEAN]
  BY ZenonT(40) DEF ClientClose, Closed, Dir
<1>3. client' \in {"open", "closed"}
  BY DEF ClientClose, Closed, Dir
<1>4. fin' \in [Dir -> {"open", "fin", "reset"}]
  BY DEF ClientClose, Closed, Dir
<1>5. Bounded'
  BY BoundAssumption DEF Bounded, ClientClose, appVars, sockVars, loopVars, wireVars, Closed, Dir
<1>6. QED
  BY <1>1, <1>2, <1>3, <1>4, <1>5

\* AgentReturn keeps every variable's type and every buffer within its bound.
LEMMA AgentReturnTypes ==
  ASSUME TypeOK, AgentReturn
  PROVE  TypeOK'
<1> USE LoopNames, SeqFacts DEF TypeOK, Typed
<1>1. UNCHANGED <<sent, shut, gone, got, sock, out, hold, err, client, wire, mark, link, bare>>
  BY DEF AgentReturn, appVars, sockVars, loopVars, wireVars
<1>2. pc' \in [Loop -> {"copy", "ended", "done"}]
  BY DEF AgentReturn, Closed, Dir, Loop
<1>3. agent' \in {"open", "returning", "returned"}
  BY DEF AgentReturn, Closed, Dir, Loop
<1>4. fin' \in [Dir -> {"open", "fin", "reset"}]
  BY DEF AgentReturn, Closed, Dir, Loop
<1>5. Bounded'
  BY BoundAssumption, SMTT(30) DEF Bounded, AgentReturn, appVars, sockVars, loopVars, wireVars, Closed, Dir, Loop
<1>6. QED
  BY <1>1, <1>2, <1>3, <1>4, <1>5

\* EndResponse keeps every variable's type and every buffer within its bound.
LEMMA EndResponseTypes ==
  ASSUME TypeOK, EndResponse
  PROVE  TypeOK'
<1> USE LoopNames, SeqFacts DEF TypeOK, Typed
<1>1. UNCHANGED <<sent, shut, gone, got, sock, out, fin, pc, hold, err, client, wire, link, bare>>
  BY DEF EndResponse, appVars, sockVars, loopVars, wireVars
<1>2. mark' \in [Dir -> BOOLEAN]
  <2>1. mark \in [Dir -> BOOLEAN] /\ "down" \in Dir
    BY DEF Dir
  <2>2. mark' = mark \/ mark' = [mark EXCEPT !["down"] = TRUE]
    BY DEF EndResponse
  <2>3. QED
    BY <2>1, <2>2, ZenonT(40)
<1>3. agent' \in {"open", "returning", "returned"}
  BY DEF EndResponse, Dir
<1>4. Bounded'
  BY BoundAssumption, SMTT(30) DEF Bounded, EndResponse, appVars, sockVars, loopVars, wireVars, Dir
<1>5. QED
  BY <1>1, <1>2, <1>3, <1>4

\* A link that drops keeps every variable's type and every buffer within its bound.
LEMMA DropTypes ==
  ASSUME TypeOK, HangUp \/ ProxyExits \/ KeepaliveKill \/ LinkLost
  PROVE  TypeOK'
<1>1. PICK S \in SUBSET Dir : DropLink(S)
  BY Drops
<1>2. UNCHANGED <<sent, shut, gone, got, sock, out, fin, pc, hold, err, client, agent>>
  BY Drops DEF appVars, sockVars, loopVars
<1>3. /\ wire' \in [Dir -> Seq(Nat)] /\ mark' \in [Dir -> BOOLEAN] /\ link' = FALSE
      /\ bare' \subseteq Dir /\ \A d \in Dir : Len(wire'[d]) <= Cap
  BY <1>1, DropLinkTypes
<1>4. QED
  BY <1>2, <1>3 DEF TypeOK, Typed, Bounded

\* One step keeps the types.
LEMMA TypeStep == TypeOK /\ [Next]_vars => TypeOK'
<1> SUFFICES ASSUME TypeOK, [Next]_vars PROVE TypeOK'
  OBVIOUS
<1>1. CASE UNCHANGED vars
  BY <1>1 DEF vars, appVars, sockVars, loopVars, wireVars, TypeOK, Typed, Bounded
<1>2. ASSUME NEW d \in Dir, App(d) PROVE TypeOK'
  BY <1>2, AppWriteTypes, AppShutTypes, AppReadTypes, AppCloseTypes DEF App
<1>3. ASSUME NEW d \in Dir, Copy(d) PROVE TypeOK'
  BY <1>3, CopyInTypes, SendTypes, CopyEndTypes, ReceiveTypes, DeliverTypes, RecvEndTypes
     DEF Copy
<1>4. CASE Finish \/ KeepaliveKill \/ LinkLost
  BY <1>4, ClientCloseWriteTypes, AgentCloseWriteTypes, ClientHalfCloseTypes,
     ClientCloseTypes, AgentReturnTypes, EndResponseTypes, DropTypes DEF Finish
<1>5. QED
  BY <1>1, <1>2, <1>3, <1>4 DEF Next

\* Every reachable state is well typed, and no buffer, window or copy loop
\* holds more than it may, whatever the bounds.
THEOREM TypeCorrect == Spec => []TypeOK
<1>1. Init => TypeOK
  BY SeqFacts, BoundAssumption DEF Init, TypeOK, Typed, Bounded, Dir, Loop, MaxSent
<1>2. QED
  BY <1>1, TypeStep, PTL DEF Spec

-----------------------------------------------------------------------------
(* Steps that move no chunk of a direction. *)

Kept(d) ==
    /\ sent'[d] = sent[d] /\ got'[d] = got[d] /\ out'[d] = out[d]
    /\ shut[d] => shut'[d]
    /\ \A l \in {First[d], Second[d]} :
         hold'[l] = hold[l] /\ err'[l] = err[l] /\ (pc'[l] = "copy" <=> pc[l] = "copy")
    /\ gone[Opp[d]] = "reset" => gone'[Opp[d]] = "reset"
    /\ gone[d] = "reset" => gone'[d] = "reset"
    /\ IF Torn(d)' THEN sock'[d] = <<>> ELSE sock'[d] = sock[d]
    /\ IsPipe(d) => gone'[d] # "closed"
    /\ Attached(d)' => Attached(d)
    /\ \/ /\ link' = link /\ wire'[d] = wire[d]
          /\ mark'[d] => mark[d] \/ (link /\ ~Attached(d)') \/ (link /\ pc'[First[d]] # "copy")
       \/ ~link' /\ (wire'[d] = <<>> \/ wire'[d] = wire[d]) /\ ~mark'[d]
    /\ (d \in bare => d \in bare') /\ (d \in bare' => d \in bare \/ ~link')

\* The lengths that locate a chunk are numbers.
LEMMA LaneLengths ==
  ASSUME TypeOK, NEW d \in Dir
  PROVE  /\ Len(got[d]) \in Nat /\ Len(out[d]) \in Nat /\ Arrived(d) \in Nat
         /\ AtSecond(d) \in Nat /\ OnWire(d) \in Nat /\ AtFirst(d) \in Nat
<1>1. /\ Len(got[d]) \in Nat /\ Len(out[d]) \in Nat /\ Len(wire[d]) \in Nat
      /\ Len(hold[Second[d]]) \in Nat /\ Len(hold[First[d]]) \in Nat
  BY SeqFacts, LoopNames DEF TypeOK, Typed
<1>2. Arrived(d) \in Nat
  <2>1. \A m, n \in Nat : m + n \in Nat
    OBVIOUS
  <2>2. QED
    BY <1>1, <2>1, Zenon DEF Arrived
<1>3. AtSecond(d) \in Nat
  BY <1>1, <1>2 DEF AtSecond
<1>4. OnWire(d) \in Nat
  BY <1>1, <1>3 DEF OnWire
<1>5. AtFirst(d) \in Nat
  BY <1>1, <1>4 DEF AtFirst
<1>6. QED
  BY <1>1, <1>2, <1>3, <1>4, <1>5

\* Such a step keeps what is known of the direction.
LEMMA KeptLane ==
  ASSUME NEW d \in Dir, TypeOK, TypeOK', Lane(d), Kept(d)
  PROVE  Lane(d)'
<1> USE LoopNames DEF Lane, Kept
<1>1. ArrivedInOrder(d)' /\ Arrived(d)' = Arrived(d) /\ AtSecond(d)' = AtSecond(d)
  BY DEF ArrivedInOrder, Arrived, AtSecond
<1>2. Flowing(d)' => Flowing(d)
  BY DEF Flowing
<1>3. FirstClean(d)' => FirstClean(d)
  BY DEF FirstClean
<1>4. SecondClean(d)' => SecondClean(d)
  BY DEF SecondClean, SecondNil
<1>5. FirstStopped(d) => FirstStopped(d)'
  BY DEF FirstStopped
<1>6. ASSUME link' = link, wire'[d] = wire[d]
      PROVE  WireInOrder(d)' /\ SockInOrder(d)' /\ CleanOnWire(d)'
  <2>1. OnWire(d)' = OnWire(d) /\ AtFirst(d)' = AtFirst(d)
    BY <1>1, <1>6 DEF OnWire, AtFirst
  <2>2. WireInOrder(d)'
    BY <1>1, <1>2, <1>6, <2>1 DEF WireInOrder
  <2>3. SockInOrder(d)'
    <3>1. ASSUME Flowing(d)', link', pc'[First[d]] = "copy"
          PROVE  /\ Run(hold[First[d]], OnWire(d)) /\ AtFirst(d) <= sent[d]
                 /\ Run(sock[d], AtFirst(d))
                 /\ ~Torn(d) => AtFirst(d) + Len(sock[d]) = sent[d]
      BY <3>1, <1>2, <1>6 DEF SockInOrder
    <3>2. Run(sock'[d], AtFirst(d)) \/ ~(Flowing(d)' /\ link' /\ pc'[First[d]] = "copy")
      BY <3>1, RunEmpty
    <3>3. ~Torn(d)' => ~Torn(d) /\ sock'[d] = sock[d]
      BY DEF Torn
    <3>4. QED
      BY <3>1, <3>2, <3>3, <2>1 DEF SockInOrder
  <2>4. CleanOnWire(d)'
    BY <1>2, <1>3, <1>6, <2>1 DEF CleanOnWire
  <2>5. QED
    BY <2>2, <2>3, <2>4
<1>7. ASSUME ~link', wire'[d] = <<>> \/ wire'[d] = wire[d]
      PROVE  WireInOrder(d)' /\ SockInOrder(d)' /\ CleanOnWire(d)'
  <2>1. WireInOrder(d)'
    <3>1. CASE wire'[d] = <<>>
      <4>1. Len(wire[d]) \in Nat /\ Len(wire'[d]) = 0 /\ Run(wire'[d], AtSecond(d)')
        BY <3>1, RunEmpty, SeqFacts DEF TypeOK, Typed
      <4>2. AtSecond(d) \in Nat /\ sent[d] \in Nat
        BY LaneLengths DEF TypeOK, Typed
      <4>3. Flowing(d) => OnWire(d)' <= sent'[d]
        BY <1>1, <4>1, <4>2 DEF WireInOrder, OnWire
      <4>4. QED
        BY <1>1, <1>2, <4>1, <4>3 DEF WireInOrder
    <3>2. CASE wire'[d] = wire[d]
      <4>1. OnWire(d)' = OnWire(d)
        BY <1>1, <3>2 DEF OnWire
      <4>2. QED
        BY <1>1, <1>2, <3>2, <4>1 DEF WireInOrder
    <3>3. QED
      BY <1>7, <3>1, <3>2
  <2>2. SockInOrder(d)' /\ CleanOnWire(d)'
    BY <1>7 DEF SockInOrder, CleanOnWire
  <2>3. QED
    BY <2>1, <2>2
<1>8. WireInOrder(d)' /\ SockInOrder(d)' /\ CleanOnWire(d)'
  BY <1>6, <1>7
<1>9. CleanArrived(d)'
  BY <1>1, <1>3, <1>4 DEF CleanArrived
<1>10. MarkIsLast(d)'
  BY <1>4, <1>5 DEF MarkIsLast, FirstStopped
<1>11. WriterGone(d)' /\ BareIsCut(d)'
  BY DEF WriterGone, IsPipe, BareIsCut
<1>12. QED
  BY <1>1, <1>8, <1>9, <1>10, <1>11

\* What the end of a copy or of a side leaves alone: it can only put the mark
\* of a direction that no longer sends on the wire.
LEMMA KeptByEnd ==
  ASSUME NEW e \in Dir, Lane(e),
         UNCHANGED <<sent, shut, gone, got, sock, out, hold, err, wire, link, bare>>,
         \A l \in Loop : pc'[l] = "copy" <=> pc[l] = "copy",
         Attached(e)' => Attached(e),
         mark'[e] => mark[e] \/ (link /\ ~Attached(e)') \/ (link /\ pc'[First[e]] # "copy")
  PROVE  Kept(e)
<1>1. IsPipe(e) => gone[e] # "closed"
  BY DEF Lane, WriterGone
<1>2. Torn(e) => sock[e] = <<>>
  BY DEF Lane, WriterGone
<1>3. Torn(e)' <=> Torn(e)
  BY DEF Torn, IsPipe
<1>4. First[e] \in Loop /\ Second[e] \in Loop
  BY LoopNames
<1>5. QED
  BY <1>1, <1>2, <1>3, <1>4 DEF Kept

\* A link that drops loses what is on it and nothing else.
LEMMA KeptByDrop ==
  ASSUME TypeOK, NEW e \in Dir, Lane(e), link, NEW S \in SUBSET Dir, DropLink(S),
         UNCHANGED <<appVars, sockVars, loopVars, client, agent>>
  PROVE  Kept(e)
<1>1. IsPipe(e) => gone[e] # "closed"
  BY DEF Lane, WriterGone
<1>2. Torn(e) => sock[e] = <<>>
  BY DEF Lane, WriterGone
<1>3. UNCHANGED <<sent, shut, gone, got, sock, out, pc, hold, err, client, agent>>
  BY DEF appVars, sockVars, loopVars
<1>4. (Torn(e)' <=> Torn(e)) /\ (Attached(e)' <=> Attached(e))
  BY <1>3 DEF Torn, IsPipe, Attached
<1>5. ~link' /\ (wire'[e] = <<>> \/ wire'[e] = wire[e]) /\ ~mark'[e]
  BY DropLinkTypes
<1>6. e \notin bare
  BY DEF Lane, BareIsCut
<1>7. QED
  BY <1>1, <1>2, <1>3, <1>4, <1>5, <1>6 DEF Kept

-----------------------------------------------------------------------------
(* Every action keeps both directions. *)

\* Ending a stream moves nothing.
LEMMA AppShutLanes ==
  ASSUME TypeOK, TypeOK', \A e \in Dir : Lane(e), NEW d \in Dir, AppShut(d)
  PROVE  \A e \in Dir : Lane(e)'
<1> USE LoopNames DEF TypeOK, Typed
<1>1. \A e \in Dir : Kept(e)
  BY DEF Kept, AppShut, Torn, Attached, appVars, sockVars, loopVars, wireVars, Lane, WriterGone
<1>2. QED
  BY <1>1, KeptLane

\* An application that leaves drops at most its own unread bytes.
LEMMA AppCloseLanes ==
  ASSUME TypeOK, TypeOK', \A e \in Dir : Lane(e), NEW d \in Dir, AppClose(d)
  PROVE  \A e \in Dir : Lane(e)'
<1> USE LoopNames DEF TypeOK, Typed
<1>1. /\ gone[d] = "no" /\ gone' \in [Dir -> {"no", "closed", "reset"}]
      /\ gone' = [gone EXCEPT ![d] = IF out[Opp[d]] # <<>> \/ IsPipe(d) THEN "reset" ELSE "closed"]
      /\ shut' = [shut EXCEPT ![d] = TRUE]
      /\ sock' = [sock EXCEPT ![d] = IF out[Opp[d]] # <<>> /\ ~IsPipe(d) THEN <<>> ELSE @]
      /\ UNCHANGED <<sent, got, out, pc, hold, err, client, agent, wire, mark, link, bare>>
  BY DEF AppClose, loopVars, wireVars
<1>2. \A e \in Dir : e # d => gone'[e] = gone[e] /\ sock'[e] = sock[e] /\ shut'[e] = shut[e]
  BY <1>1
<1>3. \A e \in Dir : e # d => Kept(e)
  <2>1. \A e \in Dir : (IsPipe(e) => gone[e] # "closed") /\ (Torn(e) => sock[e] = <<>>)
    BY DEF Lane, WriterGone
  <2>2. QED
    BY <1>1, <1>2, <2>1, SMTT(30) DEF Kept, Torn, Attached, IsPipe
<1>4. /\ IsPipe(d) => gone'[d] = "reset" /\ sock'[d] = sock[d]
      /\ Torn(d)' => sock'[d] = <<>>
      /\ ~Torn(d)' => sock'[d] = sock[d]
  BY <1>1 DEF Torn, IsPipe
<1>5. Kept(d)
  BY <1>1, <1>2, <1>4 DEF Kept, Attached
<1>6. \A e \in Dir : Kept(e)
  BY <1>3, <1>5
<1>7. QED
  BY <1>6, KeptLane

\* ClientCloseWrite keeps both directions in order: it moves no chunk that still counts.
LEMMA ClientCloseWriteLanes ==
  ASSUME TypeOK, TypeOK', \A e \in Dir : Lane(e), Ends, ClientCloseWrite
  PROVE  \A e \in Dir : Lane(e)'
<1>1. UNCHANGED <<sent, shut, gone, got, sock, out, hold, err, wire, link, bare>>
  BY DEF ClientCloseWrite, appVars, sockVars, loopVars, wireVars
<1>2. \A l \in Loop : pc'[l] = "copy" <=> pc[l] = "copy"
  BY DEF ClientCloseWrite, TypeOK, Typed
<1>3. ASSUME NEW e \in Dir PROVE Attached(e)' => Attached(e)
  BY DEF ClientCloseWrite, Attached
<1>4. ASSUME NEW e \in Dir
      PROVE  mark'[e] => mark[e] \/ (link /\ ~Attached(e)') \/ (link /\ pc'[First[e]] # "copy")
  <2>1. pc'[First["up"]] # "copy"
    BY DEF ClientCloseWrite, TypeOK, Typed, Loop, First, Dir
  <2>2. mark'[e] => mark[e] \/ (link /\ e = "up")
    BY DEF ClientCloseWrite, TypeOK, Typed
  <2>3. QED
    BY <2>1, <2>2
<1>5. \A e \in Dir : Kept(e)
  BY <1>1, <1>2, <1>3, <1>4, KeptByEnd
<1>6. QED
  BY <1>5, KeptLane

\* AgentCloseWrite keeps both directions in order: it moves no chunk that still counts.
LEMMA AgentCloseWriteLanes ==
  ASSUME TypeOK, TypeOK', \A e \in Dir : Lane(e), Ends, AgentCloseWrite
  PROVE  \A e \in Dir : Lane(e)'
<1>1. UNCHANGED <<sent, shut, gone, got, sock, out, hold, err, wire, link, bare>>
  BY DEF AgentCloseWrite, appVars, sockVars, loopVars, wireVars
<1>2. \A l \in Loop : pc'[l] = "copy" <=> pc[l] = "copy"
  BY DEF AgentCloseWrite, TypeOK, Typed
<1>3. ASSUME NEW e \in Dir PROVE Attached(e)' => Attached(e)
  BY DEF AgentCloseWrite, Attached
<1>4. ASSUME NEW e \in Dir
      PROVE  mark'[e] => mark[e] \/ (link /\ ~Attached(e)') \/ (link /\ pc'[First[e]] # "copy")
  BY DEF AgentCloseWrite, wireVars
<1>5. \A e \in Dir : Kept(e)
  BY <1>1, <1>2, <1>3, <1>4, KeptByEnd
<1>6. QED
  BY <1>5, KeptLane

\* ClientHalfClose keeps both directions in order: it moves no chunk that still counts.
LEMMA ClientHalfCloseLanes ==
  ASSUME TypeOK, TypeOK', \A e \in Dir : Lane(e), Ends, ClientHalfClose
  PROVE  \A e \in Dir : Lane(e)'
<1>1. UNCHANGED <<sent, shut, gone, got, sock, out, hold, err, wire, link, bare>>
  BY DEF ClientHalfClose, appVars, sockVars, loopVars, wireVars
<1>2. \A l \in Loop : pc'[l] = "copy" <=> pc[l] = "copy"
  BY DEF ClientHalfClose, TypeOK, Typed
<1>3. ASSUME NEW e \in Dir PROVE Attached(e)' => Attached(e)
  BY DEF ClientHalfClose, Attached
<1>4. ASSUME NEW e \in Dir
      PROVE  mark'[e] => mark[e] \/ (link /\ ~Attached(e)') \/ (link /\ pc'[First[e]] # "copy")
  BY DEF ClientHalfClose, wireVars
<1>5. \A e \in Dir : Kept(e)
  BY <1>1, <1>2, <1>3, <1>4, KeptByEnd
<1>6. QED
  BY <1>5, KeptLane

\* ClientClose keeps both directions in order: it moves no chunk that still counts.
LEMMA ClientCloseLanes ==
  ASSUME TypeOK, TypeOK', \A e \in Dir : Lane(e), Ends, ClientClose
  PROVE  \A e \in Dir : Lane(e)'
<1>1. UNCHANGED <<sent, shut, gone, got, sock, out, hold, err, wire, link, bare>>
  BY DEF ClientClose, appVars, sockVars, loopVars, wireVars
<1>2. \A l \in Loop : pc'[l] = "copy" <=> pc[l] = "copy"
  BY DEF ClientClose, loopVars
<1>3. ASSUME NEW e \in Dir PROVE Attached(e)' => Attached(e)
  BY DEF ClientClose, Attached
<1>4. ASSUME NEW e \in Dir
      PROVE  mark'[e] => mark[e] \/ (link /\ ~Attached(e)') \/ (link /\ pc'[First[e]] # "copy")
  BY DEF ClientClose, Attached, TypeOK, Typed, Dir
<1>5. \A e \in Dir : Kept(e)
  BY <1>1, <1>2, <1>3, <1>4, KeptByEnd
<1>6. QED
  BY <1>5, KeptLane

\* AgentReturn keeps both directions in order: it moves no chunk that still counts.
LEMMA AgentReturnLanes ==
  ASSUME TypeOK, TypeOK', \A e \in Dir : Lane(e), Ends, AgentReturn
  PROVE  \A e \in Dir : Lane(e)'
<1>1. UNCHANGED <<sent, shut, gone, got, sock, out, hold, err, wire, link, bare>>
  BY DEF AgentReturn, appVars, sockVars, loopVars, wireVars
<1>2. \A l \in Loop : pc'[l] = "copy" <=> pc[l] = "copy"
  BY DEF AgentReturn, TypeOK, Typed
<1>3. ASSUME NEW e \in Dir PROVE Attached(e)' => Attached(e)
  BY DEF AgentReturn, Attached
<1>4. ASSUME NEW e \in Dir
      PROVE  mark'[e] => mark[e] \/ (link /\ ~Attached(e)') \/ (link /\ pc'[First[e]] # "copy")
  BY DEF AgentReturn, wireVars
<1>5. \A e \in Dir : Kept(e)
  BY <1>1, <1>2, <1>3, <1>4, KeptByEnd
<1>6. QED
  BY <1>5, KeptLane

\* EndResponse keeps both directions in order: it moves no chunk that still counts.
LEMMA EndResponseLanes ==
  ASSUME TypeOK, TypeOK', \A e \in Dir : Lane(e), Ends, EndResponse
  PROVE  \A e \in Dir : Lane(e)'
<1>1. UNCHANGED <<sent, shut, gone, got, sock, out, hold, err, wire, link, bare>>
  BY DEF EndResponse, appVars, sockVars, loopVars, wireVars
<1>2. \A l \in Loop : pc'[l] = "copy" <=> pc[l] = "copy"
  BY DEF EndResponse, loopVars
<1>3. ASSUME NEW e \in Dir PROVE Attached(e)' => Attached(e)
  BY DEF EndResponse, Attached
<1>4. ASSUME NEW e \in Dir
      PROVE  mark'[e] => mark[e] \/ (link /\ ~Attached(e)') \/ (link /\ pc'[First[e]] # "copy")
  BY DEF EndResponse, Attached, TypeOK, Typed, Dir
<1>5. \A e \in Dir : Kept(e)
  BY <1>1, <1>2, <1>3, <1>4, KeptByEnd
<1>6. QED
  BY <1>5, KeptLane

\* A link that drops keeps both directions in order.
LEMMA DropLanes ==
  ASSUME TypeOK, TypeOK', \A e \in Dir : Lane(e),
         HangUp \/ ProxyExits \/ KeepaliveKill \/ LinkLost
  PROVE  \A e \in Dir : Lane(e)'
<1>1. PICK S \in SUBSET Dir : DropLink(S)
  BY Drops
<1>2. link /\ UNCHANGED <<appVars, sockVars, loopVars, client, agent>>
  BY Drops
<1>3. \A e \in Dir : Kept(e)
  BY <1>1, <1>2, KeptByDrop
<1>4. QED
  BY <1>3, KeptLane

\* The chunk an application writes is the next one behind its socket.
LEMMA AppWriteLanes ==
  ASSUME TypeOK, TypeOK', \A e \in Dir : Lane(e), NEW d \in Dir, AppWrite(d)
  PROVE  \A e \in Dir : Lane(e)'
<1> USE LoopNames, SeqFacts
<1>1. \A e \in Dir : e # d => Kept(e)
  BY DEF Kept, AppWrite, Torn, Attached, IsPipe, Lane, WriterGone, TypeOK, Typed,
         appVars, sockVars, loopVars, wireVars, DropLink
<1> USE LaneLengths DEF Lane
<1>2. /\ sent'[d] = sent[d] + 1 /\ sent[d] \in Nat /\ ~shut[d] /\ ~Torn(d)
      /\ sock'[d] = Append(sock[d], sent[d] + 1) /\ sock[d] \in Seq(Nat)
      /\ UNCHANGED <<shut, gone, got, out, loopVars, client, agent, wireVars>>
  BY DEF AppWrite, TypeOK, Typed, Torn
<1>3. /\ Arrived(d)' = Arrived(d) /\ AtSecond(d)' = AtSecond(d)
      /\ OnWire(d)' = OnWire(d) /\ AtFirst(d)' = AtFirst(d)
  BY <1>2 DEF Arrived, AtSecond, OnWire, AtFirst, loopVars, wireVars
<1>4. ArrivedInOrder(d)' /\ WireInOrder(d)'
  BY <1>2, <1>3 DEF ArrivedInOrder, WireInOrder, Flowing, loopVars, wireVars
<1>5. SockInOrder(d)'
  <2>1. ASSUME Flowing(d), link, pc[First[d]] = "copy"
        PROVE  /\ Run(sock'[d], AtFirst(d)) /\ AtFirst(d) <= sent'[d]
               /\ AtFirst(d) + Len(sock'[d]) = sent'[d]
    <3>1. Run(sock[d], AtFirst(d)) /\ AtFirst(d) + Len(sock[d]) = sent[d]
      BY <1>2, <2>1 DEF SockInOrder
    <3>2. sock'[d] = Append(sock[d], AtFirst(d) + Len(sock[d]) + 1)
      BY <1>2, <3>1
    <3>3. Run(sock'[d], AtFirst(d)) /\ Len(sock'[d]) = Len(sock[d]) + 1
      BY <1>2, <3>1, <3>2, RunAppend
    <3>4. QED
      BY <1>2, <3>1, <3>3, SMTT(30)
  <2>2. QED
    BY <1>2, <1>3, <2>1 DEF SockInOrder, Flowing, Torn, loopVars, wireVars
<1>6. CleanOnWire(d)' /\ CleanArrived(d)'
  BY <1>2, <1>3 DEF CleanOnWire, CleanArrived, FirstClean, SecondClean, SecondNil, Flowing, loopVars, wireVars
<1>7. MarkIsLast(d)' /\ BareIsCut(d)' /\ WriterGone(d)'
  BY <1>2 DEF MarkIsLast, FirstStopped, SecondClean, SecondNil, BareIsCut, Attached, WriterGone, Torn, loopVars, wireVars
<1>14. Lane(d)'
  BY <1>4, <1>5, <1>6, <1>7
<1>15. QED
  BY <1>1, <1>14, KeptLane

\* The chunk an application reads is the next one after those it has.
LEMMA AppReadLanes ==
  ASSUME TypeOK, TypeOK', \A e \in Dir : Lane(e), NEW d \in Dir, AppRead(d)
  PROVE  \A e \in Dir : Lane(e)'
<1> USE LoopNames, SeqFacts
<1>1. \A e \in Dir : e # d => Kept(e)
  <2>1. UNCHANGED <<sent, shut, gone, sock, pc, hold, err, client, agent, wire, mark, link, bare>>
    BY DEF AppRead, loopVars, wireVars
  <2>2. \A e \in Dir : e # d => got'[e] = got[e] /\ out'[e] = out[e]
    BY DEF AppRead, TypeOK, Typed
  <2>3. \A e \in Dir : (IsPipe(e) => gone[e] # "closed") /\ (Torn(e) => sock[e] = <<>>)
    BY DEF Lane, WriterGone
  <2>4. QED
    BY <2>1, <2>2, <2>3 DEF Kept, Torn, Attached, IsPipe
<1> USE LaneLengths DEF Lane
<1>2. /\ got'[d] = Append(got[d], Head(out[d])) /\ out'[d] = Tail(out[d]) /\ out[d] # <<>>
      /\ got[d] \in Seq(Nat) /\ out[d] \in Seq(Nat)
      /\ UNCHANGED <<sent, shut, gone, sock, loopVars, client, agent, wireVars>>
  BY DEF AppRead, TypeOK, Typed
<1>3. /\ Run(got[d], 0) /\ Run(out[d], Len(got[d])) /\ Arrived(d) <= sent[d]
      /\ Len(got[d]) \in Nat /\ Len(out[d]) \in Nat
  BY LaneLengths DEF ArrivedInOrder
<1>4. /\ Head(out[d]) = Len(got[d]) + 1 /\ Run(out'[d], Len(got[d]) + 1)
      /\ Len(out'[d]) = Len(out[d]) - 1
  <2> DEFINE s == out[d]
             n == Len(got[d])
  <2>1. s \in Seq(Nat) /\ s # <<>> /\ n \in Nat /\ Run(s, n)
    BY <1>2, <1>3
  <2> HIDE DEF s, n
  <2>2. Head(s) = n + 1 /\ Run(Tail(s), n + 1) /\ Len(Tail(s)) = Len(s) - 1
    BY <2>1, RunTail
  <2>3. QED
    BY <1>2, <2>2 DEF s, n
<1>5. Run(got'[d], 0) /\ Len(got'[d]) = Len(got[d]) + 1
  <2> DEFINE s == got[d]
             x == Head(out[d])
  <2>1. s \in Seq(Nat) /\ Run(s, 0) /\ 0 \in Nat /\ x = 0 + Len(s) + 1
    BY <1>2, <1>3, <1>4
  <2> HIDE DEF s, x
  <2>2. Run(Append(s, x), 0) /\ Len(Append(s, x)) = Len(s) + 1
    BY <2>1, RunAppend
  <2>3. QED
    BY <1>2, <2>2 DEF s, x
<1>6. Arrived(d)' = Arrived(d)
  <2>1. \A m, n \in Nat : (m + 1) + (n - 1) = m + n
    OBVIOUS
  <2>2. Arrived(d) = Len(got[d]) + Len(out[d]) /\ Arrived(d)' = Len(got'[d]) + Len(out'[d])
    BY DEF Arrived
  <2>3. Len(got'[d]) + Len(out'[d]) = (Len(got[d]) + 1) + (Len(out[d]) - 1)
    BY <1>4, <1>5
  <2>4. (Len(got[d]) + 1) + (Len(out[d]) - 1) = Len(got[d]) + Len(out[d])
    <3>1. Len(got[d]) \in Nat /\ Len(out[d]) \in Nat
      BY <1>3
    <3>2. QED
      BY <2>1, <3>1, Zenon
  <2>5. QED
    BY <2>2, <2>3, <2>4, Zenon
<1>7. AtSecond(d)' = AtSecond(d) /\ OnWire(d)' = OnWire(d) /\ AtFirst(d)' = AtFirst(d)
  BY <1>2, <1>6 DEF AtSecond, OnWire, AtFirst, loopVars, wireVars
<1>8. ArrivedInOrder(d)' /\ WireInOrder(d)' /\ SockInOrder(d)'
  BY <1>2, <1>3, <1>4, <1>5, <1>6, <1>7
     DEF ArrivedInOrder, WireInOrder, SockInOrder, Flowing, Torn, loopVars, wireVars
<1>9. CleanOnWire(d)' /\ CleanArrived(d)'
  BY <1>2, <1>6, <1>7 DEF CleanOnWire, CleanArrived, FirstClean, SecondClean, SecondNil, Flowing, loopVars, wireVars
<1>10. MarkIsLast(d)' /\ BareIsCut(d)' /\ WriterGone(d)'
  BY <1>2 DEF MarkIsLast, FirstStopped, SecondClean, SecondNil, BareIsCut, Attached, WriterGone, Torn, loopVars, wireVars
<1>14. Lane(d)'
  BY <1>8, <1>9, <1>10
<1>15. QED
  BY <1>1, <1>14, KeptLane

\* io.Copy reads the chunk that follows what it has sent.
LEMMA CopyInLanes ==
  ASSUME TypeOK, TypeOK', \A e \in Dir : Lane(e), NEW d \in Dir, CopyIn(d)
  PROVE  \A e \in Dir : Lane(e)'
<1> USE LoopNames, SeqFacts
<1>1. \A e \in Dir : e # d => Kept(e)
  <2>1. UNCHANGED <<sent, shut, gone, got, out, pc, err, client, agent, mark, link, bare>>
    BY DEF CopyIn, appVars, sockVars, wireVars
  <2>2. \A e \in Dir : e # d => sock'[e] = sock[e] /\ wire'[e] = wire[e]
    BY DEF CopyIn, appVars, sockVars, wireVars, TypeOK, Typed
  <2>3. \A l \in Loop : l # First[d] => hold'[l] = hold[l]
    BY DEF CopyIn, TypeOK, Typed
  <2>4. \A e \in Dir : e # d => /\ First[e] # First[d] /\ Second[e] # First[d]
                                /\ First[e] \in Loop /\ Second[e] \in Loop
    BY LoopNames
  <2>5. \A e \in Dir : e # d => hold'[First[e]] = hold[First[e]] /\ hold'[Second[e]] = hold[Second[e]]
    BY <2>3, <2>4
  <2>6. QED
    BY <2>1, <2>2, <2>5 DEF Kept, Torn, Attached, IsPipe, Lane, WriterGone
<1> USE LaneLengths DEF Lane
<1>2. /\ hold[First[d]] = <<>> /\ hold'[First[d]] = <<Head(sock[d])>>
      /\ hold'[Second[d]] = hold[Second[d]] /\ pc[First[d]] = "copy"
      /\ sock'[d] = Tail(sock[d]) /\ sock[d] # <<>> /\ sock[d] \in Seq(Nat)
      /\ UNCHANGED <<sent, shut, gone, got, out, pc, err, client, agent, wireVars>>
  <2>1. hold \in [Loop -> Seq(Nat)] /\ sock \in [Dir -> Seq(Nat)]
    BY DEF TypeOK, Typed
  <2>2. QED
    BY <2>1 DEF CopyIn, appVars
<1>3. Arrived(d)' = Arrived(d) /\ AtSecond(d)' = AtSecond(d) /\ OnWire(d)' = OnWire(d)
  BY <1>2 DEF Arrived, AtSecond, OnWire, wireVars
<1>4. AtFirst(d) = OnWire(d)
  BY <1>2 DEF AtFirst
<1>5. AtFirst(d)' = AtFirst(d) + 1
  BY <1>2, <1>3, <1>4 DEF AtFirst, TypeOK, Typed
<1>6. ~Torn(d)
  BY <1>2 DEF WriterGone
<1>7. SockInOrder(d)'
  <2>1. ASSUME Flowing(d), link
        PROVE  /\ Run(hold'[First[d]], OnWire(d)) /\ Run(sock'[d], AtFirst(d) + 1)
               /\ AtFirst(d) + 1 <= sent[d]
               /\ AtFirst(d) + 1 + Len(sock'[d]) = sent[d]
    <3>1. Run(sock[d], AtFirst(d)) /\ AtFirst(d) + Len(sock[d]) = sent[d]
      BY <1>2, <1>6, <2>1 DEF SockInOrder
    <3>2. /\ Head(sock[d]) = AtFirst(d) + 1 /\ Run(sock'[d], AtFirst(d) + 1)
          /\ Len(sock'[d]) = Len(sock[d]) - 1 /\ Len(sock'[d]) \in Nat /\ Len(sock[d]) \in Nat
      BY <1>2, <3>1, RunTail
    <3>3. Run(hold'[First[d]], OnWire(d))
      BY <1>2, <1>4, <3>2, RunOne
    <3>4. QED
      BY <3>1, <3>2, <3>3
  <2>2. QED
    BY <1>2, <1>3, <1>5, <2>1 DEF SockInOrder, Flowing, wireVars
<1>8. ArrivedInOrder(d)' /\ WireInOrder(d)' /\ CleanOnWire(d)' /\ CleanArrived(d)'
  BY <1>2, <1>3 DEF ArrivedInOrder, WireInOrder, CleanOnWire, CleanArrived,
                    FirstClean, SecondClean, SecondNil, Flowing, wireVars
<1>9. MarkIsLast(d)' /\ BareIsCut(d)' /\ WriterGone(d)'
  BY <1>2, <1>6 DEF MarkIsLast, FirstStopped, SecondClean, SecondNil, BareIsCut, Attached, WriterGone, Torn, wireVars
<1>14. Lane(d)'
  BY <1>7, <1>8, <1>9
<1>15. QED
  BY <1>1, <1>14, KeptLane

\* The chunk put on the wire follows those that are there.
LEMMA SendLanes ==
  ASSUME TypeOK, TypeOK', \A e \in Dir : Lane(e), NEW d \in Dir, Send(d)
  PROVE  \A e \in Dir : Lane(e)'
<1> USE LoopNames, SeqFacts
<1>1. \A e \in Dir : e # d => Kept(e)
  <2>1. UNCHANGED <<sent, shut, gone, got, out, pc, err, client, agent, mark, link, bare>>
    BY DEF Send, appVars, sockVars, wireVars
  <2>2. \A e \in Dir : e # d => sock'[e] = sock[e] /\ wire'[e] = wire[e]
    BY DEF Send, appVars, sockVars, wireVars, TypeOK, Typed
  <2>3. \A l \in Loop : l # First[d] => hold'[l] = hold[l]
    BY DEF Send, TypeOK, Typed
  <2>4. \A e \in Dir : e # d => /\ First[e] # First[d] /\ Second[e] # First[d]
                                /\ First[e] \in Loop /\ Second[e] \in Loop
    BY LoopNames
  <2>5. \A e \in Dir : e # d => hold'[First[e]] = hold[First[e]] /\ hold'[Second[e]] = hold[Second[e]]
    BY <2>3, <2>4
  <2>6. QED
    BY <2>1, <2>2, <2>5 DEF Kept, Torn, Attached, IsPipe, Lane, WriterGone
<1> USE LaneLengths DEF Lane
<1>2. /\ hold[First[d]] # <<>> /\ hold[First[d]] \in Seq(Nat) /\ Len(hold[First[d]]) = 1
      /\ hold'[First[d]] = <<>> /\ hold'[Second[d]] = hold[Second[d]]
      /\ wire'[d] = Append(wire[d], Head(hold[First[d]])) /\ wire[d] \in Seq(Nat)
      /\ pc[First[d]] = "copy" /\ link /\ Attached(d)
      /\ UNCHANGED <<sent, shut, gone, got, sock, out, pc, err, client, agent, mark, link, bare>>
  <2>1. /\ hold \in [Loop -> Seq(Nat)] /\ wire \in [Dir -> Seq(Nat)]
        /\ \A l \in Loop : Len(hold[l]) <= 1
    BY DEF TypeOK, Typed, Bounded
  <2>2. hold[First[d]] # <<>> /\ hold[First[d]] \in Seq(Nat) /\ Len(hold[First[d]]) = 1
    <3>1. hold[First[d]] # <<>> /\ hold[First[d]] \in Seq(Nat) /\ Len(hold[First[d]]) <= 1
      BY <2>1 DEF Send
    <3>2. Len(hold[First[d]]) \in Nat /\ Len(hold[First[d]]) > 0
      BY <3>1
    <3>3. \A n \in Nat : n > 0 /\ n <= 1 => n = 1
      OBVIOUS
    <3>4. QED
      BY <3>1, <3>2, <3>3, Zenon
  <2>3. QED
    BY <2>1, <2>2 DEF Send, appVars, sockVars
<1>3. Arrived(d)' = Arrived(d) /\ AtSecond(d)' = AtSecond(d)
  BY <1>2 DEF Arrived, AtSecond
<1>4. OnWire(d)' = OnWire(d) + 1
  <2>1. Len(wire'[d]) = Len(wire[d]) + 1 /\ Len(wire[d]) \in Nat
    BY <1>2
  <2>2. QED
    BY <1>3, <2>1 DEF OnWire
<1>5. AtFirst(d)' = AtFirst(d) /\ AtFirst(d) = OnWire(d) + 1
  BY <1>2, <1>4 DEF AtFirst
<1>6. WireInOrder(d)' /\ SockInOrder(d)'
  <2>1. ASSUME Flowing(d)
        PROVE  /\ Run(hold[Second[d]], Arrived(d)) /\ Run(wire'[d], AtSecond(d))
               /\ AtFirst(d) <= sent[d] /\ Run(hold'[First[d]], OnWire(d)')
               /\ Run(sock[d], AtFirst(d))
               /\ ~Torn(d) => AtFirst(d) + Len(sock[d]) = sent[d]
    <3>1. /\ Run(hold[Second[d]], Arrived(d)) /\ Run(wire[d], AtSecond(d))
          /\ Run(hold[First[d]], OnWire(d)) /\ AtFirst(d) <= sent[d]
          /\ Run(sock[d], AtFirst(d))
          /\ ~Torn(d) => AtFirst(d) + Len(sock[d]) = sent[d]
      BY <1>2, <2>1 DEF SockInOrder, WireInOrder
    <3>2. Head(hold[First[d]]) = AtSecond(d) + Len(wire[d]) + 1
      BY <1>2, <3>1, RunTail DEF OnWire
    <3>3. Run(wire'[d], AtSecond(d))
      BY <1>2, <3>1, <3>2, RunAppend, SMTT(30)
    <3>4. QED
      BY <1>2, <3>1, <3>3, RunEmpty
  <2>2. QED
    BY <1>2, <1>3, <1>4, <1>5, <2>1 DEF WireInOrder, SockInOrder, Flowing, Torn
<1>7. ArrivedInOrder(d)' /\ CleanOnWire(d)' /\ CleanArrived(d)'
  BY <1>2, <1>3 DEF ArrivedInOrder, CleanOnWire, CleanArrived, FirstClean
<1>8. MarkIsLast(d)' /\ BareIsCut(d)' /\ WriterGone(d)'
  BY <1>2 DEF MarkIsLast, FirstStopped, SecondClean, SecondNil, BareIsCut, Attached, WriterGone, Torn
<1>14. Lane(d)'
  BY <1>6, <1>7, <1>8
<1>15. QED
  BY <1>1, <1>14, KeptLane

\* io.Copy returns nil only at the end of the stream it read.
LEMMA CopyEndLanes ==
  ASSUME TypeOK, TypeOK', \A e \in Dir : Lane(e), NEW d \in Dir, CopyEnd(d)
  PROVE  \A e \in Dir : Lane(e)'
<1> USE LoopNames, SeqFacts
<1>1. \A e \in Dir : e # d => Kept(e)
  <2>1. UNCHANGED <<sent, shut, gone, got, sock, out, client, agent, wire, mark, link, bare>>
    BY DEF CopyEnd, appVars, sockVars, loopVars, wireVars
  <2>2. \A l \in Loop : l # First[d] => hold'[l] = hold[l] /\ err'[l] = err[l] /\ pc'[l] = pc[l]
    BY DEF CopyEnd, TypeOK, Typed
  <2>3. \A e \in Dir : e # d => /\ First[e] # First[d] /\ Second[e] # First[d]
                                /\ First[e] \in Loop /\ Second[e] \in Loop
    BY LoopNames
  <2>4. QED
    BY <2>1, <2>2, <2>3 DEF Kept, Torn, Attached, IsPipe, Lane, WriterGone
<1> USE LaneLengths DEF Lane
<1>2. /\ pc[First[d]] = "copy" /\ pc'[First[d]] = "ended" /\ pc'[Second[d]] = pc[Second[d]]
      /\ err'[Second[d]] = err[Second[d]] /\ hold'[Second[d]] = hold[Second[d]] /\ Attached(d)
      /\ UNCHANGED <<sent, shut, gone, got, sock, out, client, agent, wire, mark, link, bare>>
  BY DEF CopyEnd, appVars, sockVars, wireVars, TypeOK, Typed
<1>3. ~err'[First[d]] => hold[First[d]] = <<>> /\ sock[d] = <<>> /\ shut[d] /\ ~Torn(d)
  BY DEF CopyEnd, TypeOK, Typed
<1>4. Arrived(d)' = Arrived(d) /\ AtSecond(d)' = AtSecond(d) /\ OnWire(d)' = OnWire(d)
  BY <1>2 DEF Arrived, AtSecond, OnWire
<1>5. ArrivedInOrder(d)' /\ WireInOrder(d)' /\ SockInOrder(d)'
  BY <1>2, <1>4 DEF ArrivedInOrder, WireInOrder, SockInOrder, Flowing
<1>6. CleanOnWire(d)'
  <2>1. ASSUME ~err'[First[d]], Flowing(d), link PROVE shut[d] /\ OnWire(d) = sent[d]
    <3>1. AtFirst(d) + Len(sock[d]) = sent[d] /\ Len(sock[d]) = 0
      BY <1>2, <1>3, <2>1 DEF SockInOrder
    <3>2. AtFirst(d) = OnWire(d)
      BY <1>3, <2>1 DEF AtFirst
    <3>3. QED
      BY <1>3, <2>1, <3>1, <3>2
  <2>2. QED
    BY <1>2, <1>4, <2>1 DEF CleanOnWire, FirstClean, Flowing
<1>7. ~SecondClean(d)
  BY <1>2 DEF MarkIsLast, FirstStopped
<1>8. CleanArrived(d)' /\ MarkIsLast(d)' /\ BareIsCut(d)' /\ WriterGone(d)'
  BY <1>2, <1>7 DEF CleanArrived, SecondClean, SecondNil, BareIsCut, MarkIsLast, FirstStopped, WriterGone, Torn
<1>14. Lane(d)'
  BY <1>5, <1>6, <1>8
<1>15. QED
  BY <1>1, <1>14, KeptLane

\* The chunk taken off the wire follows those that have arrived.
LEMMA ReceiveLanes ==
  ASSUME TypeOK, TypeOK', \A e \in Dir : Lane(e), NEW d \in Dir, Receive(d)
  PROVE  \A e \in Dir : Lane(e)'
<1> USE LoopNames, SeqFacts
<1>1. \A e \in Dir : e # d => Kept(e)
  <2>1. UNCHANGED <<sent, shut, gone, got, sock, out, pc, err, client, agent, mark, link, bare>>
    BY DEF Receive, appVars, sockVars, loopVars, wireVars
  <2>2. \A l \in Loop : l # Second[d] => hold'[l] = hold[l]
    BY DEF Receive, TypeOK, Typed
  <2>3. \A e \in Dir : e # d => /\ First[e] # Second[d] /\ Second[e] # Second[d]
                                /\ First[e] \in Loop /\ Second[e] \in Loop
    BY LoopNames
  <2>4. \A e \in Dir : e # d => wire'[e] = wire[e]
    BY DEF Receive, TypeOK, Typed
  <2>5. QED
    BY <2>1, <2>2, <2>3, <2>4 DEF Kept, Torn, Attached, IsPipe, Lane, WriterGone
<1> USE LaneLengths DEF Lane
<1>2. /\ hold[Second[d]] = <<>> /\ hold'[Second[d]] = <<Head(wire[d])>>
      /\ hold'[First[d]] = hold[First[d]]
      /\ wire'[d] = Tail(wire[d]) /\ wire[d] # <<>> /\ wire[d] \in Seq(Nat)
      /\ UNCHANGED <<sent, shut, gone, got, sock, out, pc, err, client, agent, mark, link, bare>>
  <2>1. hold \in [Loop -> Seq(Nat)] /\ wire \in [Dir -> Seq(Nat)]
    BY DEF TypeOK, Typed
  <2>2. QED
    BY <2>1 DEF Receive, appVars, sockVars
<1>3. Arrived(d)' = Arrived(d) /\ AtSecond(d) = Arrived(d)
  BY <1>2 DEF Arrived, AtSecond
<1>4. Head(wire[d]) \in Nat /\ AtSecond(d)' = AtSecond(d) + 1
  BY <1>2, <1>3 DEF AtSecond
<1>5. Len(wire'[d]) = Len(wire[d]) - 1 /\ Len(wire[d]) \in Nat
  BY <1>2
<1>6. OnWire(d)' = OnWire(d)
  <2>1. \A m, n \in Nat : (m + 1) + (n - 1) = m + n
    OBVIOUS
  <2>2. (AtSecond(d) + 1) + (Len(wire[d]) - 1) = AtSecond(d) + Len(wire[d])
    BY <1>5, <2>1, Zenon
  <2>3. QED
    BY <1>4, <1>5, <2>2, Zenon DEF OnWire
<1>7. AtFirst(d)' = AtFirst(d)
  BY <1>2, <1>6 DEF AtFirst
<1>8. WireInOrder(d)'
  <2>1. ASSUME Flowing(d)
        PROVE  /\ Run(hold'[Second[d]], Arrived(d)) /\ Run(wire'[d], AtSecond(d) + 1)
               /\ OnWire(d) <= sent[d]
    <3>1. Run(wire[d], AtSecond(d)) /\ OnWire(d) <= sent[d]
      BY <2>1 DEF WireInOrder
    <3>2. Head(wire[d]) = Arrived(d) + 1 /\ Run(wire'[d], AtSecond(d) + 1)
      BY <1>2, <1>3, <3>1, RunTail
    <3>3. QED
      BY <1>2, <3>1, <3>2, RunOne
  <2>2. QED
    BY <1>2, <1>3, <1>4, <1>6, <2>1 DEF WireInOrder, Flowing
<1>9. ArrivedInOrder(d)' /\ SockInOrder(d)' /\ CleanOnWire(d)' /\ CleanArrived(d)'
  BY <1>2, <1>3, <1>6, <1>7 DEF ArrivedInOrder, SockInOrder, CleanOnWire, CleanArrived,
                    FirstClean, SecondClean, SecondNil, Flowing, Torn
<1>10. MarkIsLast(d)' /\ BareIsCut(d)' /\ WriterGone(d)'
  BY <1>2 DEF MarkIsLast, FirstStopped, SecondClean, SecondNil, BareIsCut, Attached, WriterGone, Torn
<1>14. Lane(d)'
  BY <1>8, <1>9, <1>10
<1>15. QED
  BY <1>1, <1>14, KeptLane

\* io.Copy returns nil only behind the end of stream on the wire or a bare FIN.
LEMMA RecvEndLanes ==
  ASSUME TypeOK, TypeOK', \A e \in Dir : Lane(e), NEW d \in Dir, RecvEnd(d)
  PROVE  \A e \in Dir : Lane(e)'
<1> USE LoopNames, SeqFacts
<1>1. \A e \in Dir : e # d => Kept(e)
  <2>1. UNCHANGED <<sent, shut, gone, got, sock, out, client, agent>>
    BY DEF RecvEnd, appVars, sockVars, loopVars, wireVars
  <2>2. \A l \in Loop : l # Second[d] => hold'[l] = hold[l] /\ err'[l] = err[l] /\ pc'[l] = pc[l]
    BY DEF RecvEnd, TypeOK, Typed
  <2>3. \A e \in Dir : e # d => /\ First[e] # Second[d] /\ Second[e] # Second[d]
                                /\ First[e] \in Loop /\ Second[e] \in Loop
    BY LoopNames
  <2>4. UNCHANGED wireVars \/ (link /\ DropLink({}))
    BY DEF RecvEnd
  <2>5. \A e \in Dir :
           /\ \/ link' = link /\ wire'[e] = wire[e] /\ mark'[e] = mark[e]
              \/ ~link' /\ (wire'[e] = <<>> \/ wire'[e] = wire[e]) /\ ~mark'[e]
           /\ (e \in bare => e \in bare') /\ (e \in bare' => e \in bare \/ ~link')
    <3>1. CASE UNCHANGED wireVars
      <4>1. wire' = wire /\ mark' = mark /\ link' = link /\ bare' = bare
        BY <3>1 DEF wireVars
      <4>2. QED
        BY <4>1
    <3>2. CASE link /\ DropLink({})
      <4>1. {} \in SUBSET Dir
        OBVIOUS
      <4>2. \A e \in Dir : e \notin bare
        BY <3>2 DEF Lane, BareIsCut
      <4>3. QED
        BY <3>2, <4>1, <4>2, DropLinkTypes
    <3>3. QED
      BY <2>4, <3>1, <3>2
  <2>6. QED
    BY <2>1, <2>2, <2>3, <2>5 DEF Kept, Torn, Attached, IsPipe, Lane, WriterGone
<1> USE LaneLengths DEF Lane
<1>2. /\ pc[Second[d]] = "copy" /\ pc'[Second[d]] = "ended" /\ pc'[First[d]] = pc[First[d]]
      /\ err'[First[d]] = err[First[d]]
      /\ UNCHANGED <<sent, shut, gone, got, sock, out, client, agent>>
  BY DEF RecvEnd, appVars, sockVars, TypeOK, Typed
<1>3. ~err'[Second[d]] =>
        /\ hold[Second[d]] = <<>> /\ wire[d] = <<>>
        /\ mark[d] \/ (~link /\ d \in bare)
  BY DEF RecvEnd, ReadsEOF, AtEOF, BareFin, TypeOK, Typed
<1>4. /\ (mark'[d] => mark[d]) /\ (mark'[d] /\ link => link')
      /\ (d \in bare => ~link') /\ (d \in bare /\ ~link => d \in bare')
      /\ (d \in bare' => d \in bare)
  <2>1. CASE UNCHANGED wireVars
    BY <2>1 DEF wireVars, BareIsCut
  <2>2. CASE link /\ DropLink({})
    BY <2>2 DEF DropLink
  <2>3. QED
    BY <2>1, <2>2 DEF RecvEnd
<1>5. ArrivedInOrder(d)' /\ Arrived(d)' = Arrived(d)
  BY <1>2 DEF ArrivedInOrder, Arrived
<1>6. WireInOrder(d)' /\ SockInOrder(d)' /\ CleanOnWire(d)' /\ WriterGone(d)'
  BY <1>2 DEF WireInOrder, SockInOrder, CleanOnWire, WriterGone, Flowing, Torn
<1>7. CleanArrived(d)'
  <2>1. ASSUME ~err'[Second[d]], d \notin bare', FirstClean(d), gone[Opp[d]] # "reset"
        PROVE  shut[d] /\ Arrived(d) = sent[d]
    <3>0. mark[d]
      BY <1>3, <1>4, <2>1
    <3>1. shut[d] /\ OnWire(d) = sent[d]
      BY <1>2, <2>1, <3>0 DEF CleanOnWire, Flowing, MarkIsLast
    <3>2. AtSecond(d) = Arrived(d)
      BY <1>3, <2>1 DEF AtSecond
    <3>3. OnWire(d) = AtSecond(d)
      BY <1>3, <2>1 DEF OnWire
    <3>4. QED
      BY <3>1, <3>2, <3>3
  <2>2. QED
    BY <1>2, <1>5, <2>1 DEF CleanArrived, FirstClean, SecondClean, SecondNil
<1>8. MarkIsLast(d)' /\ BareIsCut(d)'
  BY <1>2, <1>3, <1>4 DEF MarkIsLast, FirstStopped, SecondClean, SecondNil, BareIsCut, Attached
<1>14. Lane(d)'
  BY <1>5, <1>6, <1>7, <1>8
<1>15. QED
  BY <1>1, <1>14, KeptLane

\* The chunk written to the far socket is the next one; a write that the kernel
\* takes for an application that has closed is the last.
LEMMA DeliverLanes ==
  ASSUME TypeOK, TypeOK', \A e \in Dir : Lane(e), NEW d \in Dir, Deliver(d)
  PROVE  \A e \in Dir : Lane(e)'
<1> USE LoopNames, SeqFacts
<1>1. /\ pc[Second[d]] = "copy" /\ hold[Second[d]] # <<>> /\ hold[Second[d]] \in Seq(Nat)
      /\ fin[d] = "open" /\ gone[Opp[d]] # "reset" /\ hold'[Second[d]] = <<>>
      /\ UNCHANGED <<sent, shut, got, fin, pc, err, client, agent, wire, mark, link, bare>>
  BY DEF Deliver, WriteFails, wireVars, TypeOK, Typed
<1>2. \A l \in Loop : l # Second[d] => hold'[l] = hold[l]
  BY DEF Deliver, TypeOK, Typed
<1>3. \A e \in Dir : e # d => /\ First[e] # Second[d] /\ Second[e] # Second[d]
                              /\ First[e] \in Loop /\ Second[e] \in Loop
  BY LoopNames
<1>4. CASE gone[Opp[d]] = "no"
  <2>1. /\ out' = [out EXCEPT ![d] = Append(@, Head(hold[Second[d]]))]
        /\ UNCHANGED <<gone, sock>>
    BY <1>4 DEF Deliver
  <2>2. /\ out'[d] = Append(out[d], Head(hold[Second[d]])) /\ out[d] \in Seq(Nat)
        /\ \A e \in Dir : e # d => out'[e] = out[e]
    BY <2>1 DEF TypeOK, Typed
  <2>3. \A e \in Dir : e # d => Kept(e)
    BY <1>1, <1>2, <1>3, <2>1, <2>2 DEF Kept, Torn, Attached, IsPipe, Lane, WriterGone
  <2> USE LaneLengths DEF Lane
  <2>4. Flowing(d) /\ Run(out[d], Len(got[d])) /\ Run(hold[Second[d]], Arrived(d))
    BY <1>1 DEF Flowing, ArrivedInOrder, WireInOrder
  <2>5. Len(hold[Second[d]]) = 1
    <3>1. Len(hold[Second[d]]) \in Nat /\ Len(hold[Second[d]]) > 0 /\ Len(hold[Second[d]]) <= 1
      BY <1>1 DEF TypeOK, Bounded
    <3>2. \A n \in Nat : n > 0 /\ n <= 1 => n = 1
      OBVIOUS
    <3>3. QED
      BY <3>1, <3>2, Zenon
  <2>6. Head(hold[Second[d]]) = Arrived(d) + 1
    BY <1>1, <2>4, RunTail
  <2>7. /\ Run(out'[d], Len(got[d])) /\ Len(out'[d]) = Len(out[d]) + 1
    <3>1. Len(got[d]) \in Nat /\ Head(hold[Second[d]]) = Len(got[d]) + Len(out[d]) + 1
      BY <2>6 DEF Arrived
    <3>2. /\ Run(Append(out[d], Head(hold[Second[d]])), Len(got[d]))
          /\ Len(Append(out[d], Head(hold[Second[d]]))) = Len(out[d]) + 1
      <4> DEFINE s == out[d]
                 n == Len(got[d])
                 x == Head(hold[Second[d]])
      <4>1. s \in Seq(Nat) /\ n \in Nat /\ Run(s, n) /\ x = n + Len(s) + 1
        BY <2>2, <2>4, <3>1
      <4> HIDE DEF s, n, x
      <4>2. Run(Append(s, x), n) /\ Len(Append(s, x)) = Len(s) + 1
        BY <4>1, RunAppend
      <4>3. QED
        BY <4>2 DEF s, n, x
    <3>3. QED
      BY <2>2, <3>2, Zenon
  <2>8. Arrived(d)' = Arrived(d) + 1
    <3>1. \A m, n \in Nat : m + (n + 1) = (m + n) + 1
      OBVIOUS
    <3>2. Len(got[d]) + (Len(out[d]) + 1) = (Len(got[d]) + Len(out[d])) + 1
      BY <3>1, LaneLengths, ZenonT(30)
    <3>3. QED
      BY <1>1, <2>7, <3>2, Zenon DEF Arrived
  <2>9. AtSecond(d) = Arrived(d) + 1 /\ AtSecond(d)' = AtSecond(d)
    BY <1>1, <2>5, <2>8 DEF AtSecond
  <2>10. OnWire(d)' = OnWire(d) /\ AtFirst(d)' = AtFirst(d) /\ hold'[First[d]] = hold[First[d]]
    BY <1>1, <1>2, <2>9 DEF OnWire, AtFirst
  <2>11. OnWire(d) <= sent[d] /\ AtSecond(d) <= OnWire(d)
    <3>1. Len(wire[d]) \in Nat
      BY DEF TypeOK, Typed
    <3>2. QED
      BY <2>4, <3>1 DEF WireInOrder, OnWire
  <2>12. ArrivedInOrder(d)'
    <3>1. Arrived(d)' <= sent[d]
      BY <2>8, <2>9, <2>11, SMTT(30) DEF TypeOK, Typed
    <3>2. QED
      BY <1>1, <2>7, <3>1 DEF ArrivedInOrder
  <2>13. WireInOrder(d)'
    BY <1>1, <2>4, <2>9, <2>10, <2>11, RunEmpty DEF WireInOrder
  <2>14. SockInOrder(d)' /\ CleanOnWire(d)' /\ CleanArrived(d)'
    BY <1>1, <2>1, <2>10 DEF SockInOrder, CleanOnWire, CleanArrived, FirstClean,
                             SecondClean, SecondNil, Flowing, Torn
  <2>15. MarkIsLast(d)' /\ BareIsCut(d)' /\ WriterGone(d)'
    BY <1>1, <2>1 DEF MarkIsLast, FirstStopped, SecondClean, SecondNil, BareIsCut, Attached, WriterGone, Torn
  <2>16. Lane(d)'
    BY <2>12, <2>13, <2>14, <2>15
  <2>17. QED
    BY <2>3, <2>16, KeptLane
<1>5. CASE gone[Opp[d]] # "no"
  <2>1. /\ gone' = [gone EXCEPT ![Opp[d]] = "reset"]
        /\ sock' = [sock EXCEPT ![Opp[d]] = <<>>]
        /\ UNCHANGED out
    BY <1>5 DEF Deliver
  <2>2. gone[Opp[d]] = "closed" /\ gone'[Opp[d]] = "reset" /\ sock'[Opp[d]] = <<>>
    BY <1>1, <1>5, <2>1 DEF TypeOK, Typed
  <2>3. gone'[d] = gone[d] /\ sock'[d] = sock[d]
    BY <2>1 DEF TypeOK, Typed
  <2>4. \A e \in Dir : e # d => e = Opp[d]
    BY DEF Dir, Opp
  <2>5. ~IsPipe(Opp[d])
    BY <2>2 DEF Lane, WriterGone
  <2>6. \A e \in Dir : e # d => Kept(e)
    BY <1>1, <1>2, <1>3, <2>1, <2>2, <2>3, <2>4, <2>5
       DEF Kept, Torn, Attached, IsPipe
  <2>7. ~Flowing(d)'
    BY <2>2 DEF Flowing
  <2>8. ArrivedInOrder(d)'
    BY <1>1, <2>1 DEF Lane, ArrivedInOrder, Arrived
  <2>9. WireInOrder(d)' /\ SockInOrder(d)' /\ CleanOnWire(d)' /\ CleanArrived(d)'
    BY <2>2, <2>7 DEF WireInOrder, SockInOrder, CleanOnWire, CleanArrived
  <2>10. MarkIsLast(d)' /\ BareIsCut(d)' /\ WriterGone(d)'
    BY <1>1, <2>3 DEF Lane, MarkIsLast, FirstStopped, SecondClean, SecondNil, BareIsCut, Attached, WriterGone, Torn, IsPipe
  <2>11. QED
    BY <2>6, <2>8, <2>9, <2>10, KeptLane DEF Lane
<1>6. QED
  BY <1>4, <1>5

-----------------------------------------------------------------------------
(* The invariant holds, and what follows from it. *)

\* The agent's handler returns after its downstream copy, and the local app
\* is half-closed only after a clean one.
LEMMA EndsStep ==
  ASSUME TypeOK, Ends, [Next]_vars
  PROVE  Ends'
<1> USE DEF TypeOK, Typed, Ends, SecondNil, Second, Dir, Loop
<1>1. CASE UNCHANGED <<pc, err, fin, client, agent>>
  BY <1>1
<1>2. ASSUME NEW d \in Dir, App(d) PROVE Ends'
  BY <1>1, <1>2 DEF App, AppWrite, AppShut, AppRead, AppClose, sockVars, loopVars
<1>3. ASSUME NEW d \in Dir, Copy(d) PROVE Ends'
  <2>1. CASE CopyIn(d) \/ Send(d) \/ Receive(d) \/ Deliver(d)
    BY <1>1, <2>1 DEF CopyIn, Send, Receive, Deliver, sockVars
  <2>2. CASE CopyEnd(d)
    BY <2>2 DEF CopyEnd, First, sockVars
  <2>3. CASE RecvEnd(d)
    BY <2>3 DEF RecvEnd, sockVars
  <2>4. QED
    BY <1>3, <2>1, <2>2, <2>3 DEF Copy
<1>4. CASE ClientCloseWrite
  BY <1>4 DEF ClientCloseWrite, sockVars
<1>5. CASE AgentCloseWrite
  BY <1>5 DEF AgentCloseWrite
<1>6. CASE ClientHalfClose
  BY <1>6 DEF ClientHalfClose
<1>7. CASE ClientClose
  BY <1>7 DEF ClientClose, loopVars
<1>8. CASE AgentReturn
  BY <1>8 DEF AgentReturn
<1>9. CASE EndResponse
  BY <1>9 DEF EndResponse, sockVars, loopVars
<1>10. CASE HangUp \/ ProxyExits \/ KeepaliveKill \/ LinkLost
  BY <1>1, <1>10, Drops DEF sockVars, loopVars
<1>11. CASE UNCHANGED vars
  BY <1>1, <1>11 DEF vars, sockVars, loopVars
<1>12. QED
  BY <1>2, <1>3, <1>4, <1>5, <1>6, <1>7, <1>8, <1>9, <1>10, <1>11 DEF Next, Finish

\* A new tunnel, with every buffer empty, satisfies the invariant.
LEMMA IInvInit == Init => IInv
<1> SUFFICES ASSUME Init PROVE IInv
  OBVIOUS
<1>1. TypeOK
  BY SeqFacts, BoundAssumption DEF Init, TypeOK, Typed, Bounded, Dir, Loop, MaxSent
<1>2. Ends
  BY DEF Ends, Init, Dir, Loop
<1>3. ASSUME NEW d \in Dir PROVE Lane(d)
  <2>1. /\ sent[d] = 0 /\ got[d] = <<>> /\ out[d] = <<>> /\ sock[d] = <<>> /\ wire[d] = <<>>
        /\ hold[First[d]] = <<>> /\ hold[Second[d]] = <<>>
        /\ pc[First[d]] = "copy" /\ pc[Second[d]] = "copy" /\ gone[d] = "no" /\ mark[d] = FALSE
        /\ d \notin bare
    BY LoopNames DEF Init
  <2>2. /\ Arrived(d) = 0 /\ AtSecond(d) = 0 /\ OnWire(d) = 0 /\ AtFirst(d) = 0
        /\ Len(got[d]) = 0 /\ Len(sock[d]) = 0
    BY <2>1, RunEmpty DEF Arrived, AtSecond, OnWire, AtFirst
  <2>3. ArrivedInOrder(d) /\ WireInOrder(d) /\ SockInOrder(d)
    BY <2>1, <2>2, RunEmpty DEF ArrivedInOrder, WireInOrder, SockInOrder
  <2>4. CleanOnWire(d) /\ CleanArrived(d) /\ MarkIsLast(d) /\ BareIsCut(d) /\ WriterGone(d)
    BY <2>1 DEF CleanOnWire, CleanArrived, MarkIsLast, BareIsCut, WriterGone, FirstClean,
                SecondClean, SecondNil, Torn
  <2>5. QED
    BY <2>3, <2>4 DEF Lane
<1>4. QED
  BY <1>1, <1>2, <1>3 DEF IInv

\* Every step of a loop, an application, a half-close or the link keeps it.
LEMMA IInvStep == IInv /\ [Next]_vars => IInv'
<1> SUFFICES ASSUME IInv, [Next]_vars PROVE IInv'
  OBVIOUS
<1>1. TypeOK /\ TypeOK' /\ Ends /\ Ends' /\ \A e \in Dir : Lane(e)
  BY TypeStep, EndsStep DEF IInv
<1>2. ASSUME NEW d \in Dir, App(d) PROVE \A e \in Dir : Lane(e)'
  BY <1>1, <1>2, AppWriteLanes, AppShutLanes, AppReadLanes, AppCloseLanes DEF App
<1>3. ASSUME NEW d \in Dir, Copy(d) PROVE \A e \in Dir : Lane(e)'
  BY <1>1, <1>3, CopyInLanes, SendLanes, CopyEndLanes, ReceiveLanes, DeliverLanes, RecvEndLanes
     DEF Copy
<1>4. ASSUME Finish \/ KeepaliveKill \/ LinkLost PROVE \A e \in Dir : Lane(e)'
  BY <1>1, <1>4, ClientCloseWriteLanes, AgentCloseWriteLanes, ClientHalfCloseLanes,
     ClientCloseLanes, AgentReturnLanes, EndResponseLanes, DropLanes DEF Finish
<1>5. ASSUME UNCHANGED vars PROVE \A e \in Dir : Lane(e)'
  <2>1. \A e \in Dir : Kept(e)
    BY <1>1, <1>5 DEF vars, appVars, sockVars, loopVars, wireVars, Kept, Lane, WriterGone, Torn, Attached
  <2>2. QED
    BY <1>1, <2>1, KeptLane
<1>6. QED
  BY <1>1, <1>2, <1>3, <1>4, <1>5 DEF Next, IInv

\* The inductive invariant holds in every reachable state of every tunnel.
THEOREM InvariantHolds == Spec => []IInv
  BY IInvInit, IInvStep, PTL DEF Spec

\* For every transport, client, capacity and schedule of faults: what an
\* application reads is an unbroken prefix of what the other one wrote.
THEOREM OrderPreserved == Spec => []InOrder
<1>1. IInv => InOrder
  BY DEF IInv, Lane, ArrivedInOrder, InOrder
<1>2. QED
  BY <1>1, InvariantHolds, PTL

\* A direction whose two copies both returned nil, the second one not at a bare
\* FIN, has delivered everything.
THEOREM CleanCopies == Spec => []CleanCopyIsComplete
<1>1. IInv => CleanCopyIsComplete
  <2> SUFFICES ASSUME IInv, NEW d \in Dir \ bare, gone[Opp[d]] = "no",
                      \A l \in {First[d], Second[d]} : pc[l] # "copy" /\ ~err[l]
               PROVE  shut[d] /\ Arrived(d) = sent[d]
    BY DEF CleanCopyIsComplete
  <2>1. FirstClean(d) /\ SecondClean(d)
    BY DEF FirstClean, SecondClean, SecondNil
  <2>2. QED
    BY <2>1 DEF IInv, Lane, CleanArrived
<1>2. QED
  BY <1>1, InvariantHolds, PTL

\* The end of input that splice gives the local app is the service's, unless the
\* client's reader found a bare FIN.
THEOREM FaithfulFin == Spec => []FinIsFaithful
<1>1. IInv => FinIsFaithful
  <2> SUFFICES ASSUME IInv, fin["down"] = "fin", client = "open",
                      ~err["agentDown"], gone["up"] = "no", "down" \notin bare
               PROVE  shut["down"] /\ Arrived("down") = sent["down"]
    BY DEF FinIsFaithful, HalfClosed, DownloadWhole
  <2>1. "down" \in Dir /\ First["down"] = "agentDown" /\ Opp["down"] = "up"
    BY DEF Dir, First, Opp
  <2>2. SecondClean("down") /\ (agent # "open" => pc["agentDown"] # "copy")
    BY DEF IInv, Ends, SecondClean
  <2>3. FirstStopped("down")
    BY <2>1, <2>2 DEF IInv, Lane, MarkIsLast
  <2>4. FirstClean("down")
    BY <2>1, <2>2, <2>3 DEF FirstStopped, Attached, FirstClean
  <2>5. QED
    BY <2>1, <2>2, <2>4 DEF IInv, Lane, CleanArrived
<1>2. QED
  BY <1>1, InvariantHolds, PTL

\* Over Connect a connection never ends with a bare FIN.
NeverBare == Transport = "connect" => bare = {}

\* What cuts a Connect stream is an error to both of its readers.
LEMMA NeverBareAlways == Spec => []NeverBare
<1>1. Init => NeverBare
  BY DEF Init, NeverBare
<1>2. NeverBare /\ [Next]_vars => NeverBare'
  <2> SUFFICES ASSUME Transport = "connect", bare = {}, [Next]_vars PROVE bare' = {}
    BY DEF NeverBare
  <2>1. CASE UNCHANGED wireVars
    BY <2>1 DEF wireVars
  <2>2. ASSUME NEW d \in Dir, App(d) PROVE UNCHANGED wireVars
    BY <2>2 DEF App, AppWrite, AppShut, AppRead, AppClose
  <2>3. ASSUME NEW d \in Dir, Copy(d) PROVE bare' = {}
    <3>1. CASE CopyIn(d) \/ CopyEnd(d) \/ Deliver(d) \/ RecvEnd(d)
      BY <2>1, <3>1 DEF CopyIn, CopyEnd, Deliver, RecvEnd
    <3>2. CASE Send(d) \/ Receive(d)
      BY <3>2 DEF Send, Receive
    <3>3. QED
      BY <2>3, <3>1, <3>2 DEF Copy
  <2>4. CASE ClientCloseWrite \/ AgentCloseWrite \/ ClientHalfClose \/ ClientClose
             \/ AgentReturn \/ EndResponse
    BY <2>1, <2>4 DEF ClientCloseWrite, AgentCloseWrite, ClientHalfClose, ClientClose,
                      AgentReturn, EndResponse
  <2>5. CASE HangUp \/ ProxyExits \/ KeepaliveKill
    BY <2>5 DEF HangUp, ProxyExits, KeepaliveKill, DropLink
  <2>6. CASE LinkLost
    <3>1. \E S \in SUBSET {} : DropLink(S)
      BY <2>6 DEF LinkLost
    <3>2. QED
      BY <3>1 DEF DropLink
  <2>7. CASE UNCHANGED vars
    BY <2>1, <2>7 DEF vars
  <2>8. QED
    BY <2>1, <2>2, <2>3, <2>4, <2>5, <2>6, <2>7 DEF Next, Finish
<1>3. QED
  BY <1>1, <1>2, PTL DEF Spec

\* Over Connect the end of input that splice gives the local app is the
\* service's whatever is cut: nothing is excepted but what the agent's read of
\* the service got wrong.
THEOREM ConnectCutIsNotAnEnd == Spec => [](Transport = "connect" => CutIsNotAnEnd)
<1>1. NeverBare /\ FinIsFaithful => (Transport = "connect" => CutIsNotAnEnd)
  BY DEF NeverBare, FinIsFaithful, CutIsNotAnEnd
<1>2. QED
  BY <1>1, NeverBareAlways, FaithfulFin, PTL
=============================================================================
