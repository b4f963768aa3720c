----------------------------- MODULE PipeProofs -----------------------------
(***************************************************************************)
(* Tunnel implements DuplexPipe: the initial state of a tunnel is that of  *)
(* a pair of pipes, and each step of an application, a loop, a half-close  *)
(* or the link is a step of the pipes or leaves them as they were.  The    *)
(* invariant of TunnelProofs says why a chunk that is delivered is the     *)
(* next one and why an end of input that nothing excuses is complete.      *)
(***************************************************************************)
EXTENDS TunnelProofs, SequenceTheorems

-----------------------------------------------------------------------------
(* The pipes as functions of the tunnel's state. *)

Carried == [d \in Dir |-> got[d] \o out[d]]

MayBeCut(d) ==
    \/ err[First[d]] \/ err[Second[d]] \/ d \in bare \/ gone[Opp[d]] # "no"
    \/ d = "down" /\ client # "open"
    \/ d = "up" /\ (agent # "open" \/ (Mode = "proxy" /\ pc["clientDown"] = "done"))

Broken == [d \in Dir |-> MayBeCut(d)]

\* A loop returns an error when it ends, not before; and the client closes
\* after the loops it waits for.
Late ==
    /\ \A l \in Loop : pc[l] = "copy" => ~err[l]
    /\ client = "closed" =>
          /\ pc["clientDown"] = "done"
          /\ Mode = "splice" => pc["clientUp"] = "done"

-----------------------------------------------------------------------------
(* What changes in the pipes. *)

\* While what may cut a direction stays, it is broken or whole as before.
LEMMA BrokenSame ==
    ASSUME \A d \in Dir : MayBeCut(d)' <=> MayBeCut(d)
    PROVE  Broken' = Broken
<1>1. \A d \in Dir : MayBeCut(d)' = MayBeCut(d)
  BY Zenon DEF MayBeCut
<1> QED  BY <1>1 DEF Broken

LEMMA BrokenNow ==
    ASSUME NEW d \in Dir, MayBeCut(d)', \A e \in Dir : e # d => (MayBeCut(e)' <=> MayBeCut(e))
    PROVE  Broken' = [Broken EXCEPT ![d] = TRUE]
<1>1. MayBeCut(d)' = TRUE
  BY Zenon DEF MayBeCut
<1>2. \A e \in Dir : e # d => MayBeCut(e)' = MayBeCut(e)
  BY Zenon DEF MayBeCut
<1> QED  BY <1>1, <1>2 DEF Broken

\* The tunnel's steps are the pipes' steps, written out.
LEMMA PipeWrite ==
    ASSUME NEW d \in Dir, ~shut[d], sent[d] < MaxSent[d],
           sent' = [sent EXCEPT ![d] = sent[d] + 1],
           UNCHANGED <<shut, Carried, fin, Broken>>
    PROVE  Pipe!Next
BY DEF Pipe!Next, Pipe!Write, Carried, Broken, MayBeCut

LEMMA PipeShut ==
    ASSUME NEW d \in Dir, ~shut[d], shut' = [shut EXCEPT ![d] = TRUE],
           UNCHANGED <<sent, Carried, fin, Broken>>
    PROVE  Pipe!Next
BY DEF Pipe!Next, Pipe!Shut, Carried, Broken, MayBeCut

LEMMA PipeLeave ==
    ASSUME NEW d \in Dir, shut' = [shut EXCEPT ![d] = TRUE],
           Broken' = [Broken EXCEPT ![Opp[d]] = TRUE],
           UNCHANGED <<sent, Carried, fin>>
    PROVE  Pipe!Next
BY DEF Pipe!Next, Pipe!Leave, Carried, Broken, MayBeCut

LEMMA PipeCarry ==
    ASSUME NEW d \in Dir, fin[d] = "open", Len(Carried[d]) < sent[d],
           Carried' = [Carried EXCEPT ![d] = Append(Carried[d], Len(Carried[d]) + 1)],
           UNCHANGED <<sent, shut, fin, Broken>>
    PROVE  Pipe!Next
BY DEF Pipe!Next, Pipe!Carry, Carried, Broken, MayBeCut

LEMMA PipeBreak ==
    ASSUME NEW S \in SUBSET Dir, \A e \in Dir : MayBeCut(e)' <=> MayBeCut(e) \/ e \in S,
           UNCHANGED <<sent, shut, Carried, fin>>
    PROVE  Pipe!Next
<1>1. \A e \in Dir : MayBeCut(e)' = (Broken[e] \/ e \in S)
  <2>1. \A e \in Dir : Broken[e] = MayBeCut(e)
    BY DEF Broken
  <2> QED  BY <2>1, Zenon DEF MayBeCut
<1>2. Broken' = [e \in Dir |-> Broken[e] \/ e \in S]
  BY <1>1, Zenon DEF Broken
<1> QED  BY <1>2 DEF Pipe!Next, Pipe!Break, Carried, Broken, MayBeCut

LEMMA PipeEnd ==
    ASSUME NEW d \in Dir, fin[d] = "open", fin' = [fin EXCEPT ![d] = "fin"],
           \/ shut[d] /\ Len(Carried[d]) = sent[d] /\ UNCHANGED Broken
           \/ Broken' = [Broken EXCEPT ![d] = TRUE],
           UNCHANGED <<sent, shut, Carried>>
    PROVE  Pipe!Next
BY DEF Pipe!Next, Pipe!End, Carried, Broken, MayBeCut

LEMMA PipeReset ==
    ASSUME NEW d \in Dir, fin' = [fin EXCEPT ![d] = "reset"],
           Broken' = [Broken EXCEPT ![d] = TRUE],
           UNCHANGED <<sent, shut, Carried>>
    PROVE  Pipe!Next
BY DEF Pipe!Next, Pipe!Reset, Carried, Broken, MayBeCut

LEMMA PipeStutters ==
    ASSUME UNCHANGED <<sent, shut, Carried, fin, Broken>>
    PROVE  UNCHANGED Pipe!vars
BY DEF Pipe!vars, Carried, Broken, MayBeCut

-----------------------------------------------------------------------------
(* Late is invariant. *)

\* Late is inductive.
LEMMA LateInit == Init => Late
BY LoopNames DEF Init, Late

LEMMA LateStep == TypeOK /\ Late /\ [Next]_vars => Late'
<1> SUFFICES ASSUME TypeOK, Late, [Next]_vars PROVE Late'
  OBVIOUS
<1> USE DEF TypeOK, Typed
<1>1. CASE UNCHANGED <<pc, err, client>>
  BY <1>1 DEF Late
<1>2. ASSUME NEW d \in Dir, App(d) PROVE Late'
  BY <1>1, <1>2 DEF App, AppWrite, AppShut, AppRead, AppClose, loopVars
<1>3. ASSUME NEW d \in Dir, Copy(d) PROVE Late'
  <2>1. CASE CopyIn(d) \/ Send(d) \/ Receive(d) \/ Deliver(d)
    BY <1>1, <2>1 DEF CopyIn, Send, Receive, Deliver, sockVars
  <2>2. ASSUME NEW l \in Loop, pc[l] = "copy", pc' = [pc EXCEPT ![l] = "ended"],
               \A k \in Loop : k # l => err'[k] = err[k], client' = client,
               client = "closed" /\ Mode = "splice" => l # "clientUp"
        PROVE  Late'
    <3>1. \A k \in Loop : pc'[k] = "copy" => ~err'[k]
      BY <2>2 DEF Late
    <3>2. client = "closed" => pc["clientDown"] # "copy" /\ l # "clientDown"
      BY <2>2 DEF Late
    <3>3. client' = "closed" => pc'["clientDown"] = "done"
      BY <2>2, <3>2 DEF Late, Loop
    <3>4. client' = "closed" /\ Mode = "splice" => pc'["clientUp"] = "done"
      BY <2>2 DEF Late, Loop
    <3> QED  BY <3>1, <3>3, <3>4 DEF Late
  <2>3. CASE CopyEnd(d)
    <3>1. /\ pc[First[d]] = "copy" /\ pc' = [pc EXCEPT ![First[d]] = "ended"]
          /\ \A k \in Loop : k # First[d] => err'[k] = err[k]
          /\ client' = client /\ First[d] \in Loop
      BY <2>3, LoopNames DEF CopyEnd
    <3>2. client = "closed" /\ Mode = "splice" => First[d] # "clientUp"
      BY <3>1 DEF Late
    <3> QED  BY <2>2, <3>1, <3>2
  <2>4. CASE RecvEnd(d)
    <3>1. /\ pc[Second[d]] = "copy" /\ pc' = [pc EXCEPT ![Second[d]] = "ended"]
          /\ \A k \in Loop : k # Second[d] => err'[k] = err[k]
          /\ client' = client /\ Second[d] \in Loop /\ Second[d] # "clientUp"
      BY <2>4, LoopNames DEF RecvEnd, Second, Dir
    <3> QED  BY <2>2, <3>1
  <2> QED  BY <1>3, <2>1, <2>3, <2>4 DEF Copy
<1>4. ASSUME NEW l \in Loop, pc' = [pc EXCEPT ![l] = "done"], UNCHANGED <<err, client>>
      PROVE  Late'
  BY <1>4 DEF Late
<1>5. CASE ClientCloseWrite \/ AgentCloseWrite \/ ClientHalfClose \/ AgentReturn
  BY <1>4, <1>5 DEF ClientCloseWrite, AgentCloseWrite, ClientHalfClose, AgentReturn, Loop
<1>6. CASE ClientClose
  BY <1>6 DEF ClientClose, loopVars, Late
<1>7. CASE EndResponse \/ UNCHANGED vars
  BY <1>1, <1>7 DEF EndResponse, loopVars, vars
<1>8. CASE HangUp \/ ProxyExits \/ KeepaliveKill \/ LinkLost
  BY <1>1, <1>8, Drops DEF loopVars
<1> QED  BY <1>2, <1>3, <1>5, <1>6, <1>7, <1>8 DEF Next, Finish

-----------------------------------------------------------------------------
(* The chunks in the pipes. *)

\* What is carried is what the application has read and what waits in its
\* socket.
LEMMA CarriedLength ==
    ASSUME TypeOK, NEW d \in Dir
    PROVE  /\ Carried[d] = got[d] \o out[d] /\ Len(Carried[d]) = Arrived(d)
           /\ got[d] \in Seq(Nat) /\ out[d] \in Seq(Nat) /\ Arrived(d) \in Nat
<1>1. got[d] \in Seq(Nat) /\ out[d] \in Seq(Nat)
  BY DEF TypeOK, Typed
<1>2. Len(got[d] \o out[d]) = Len(got[d]) + Len(out[d])
  BY <1>1, ConcatProperties
<1>3. Len(got[d]) \in Nat /\ Len(out[d]) \in Nat
  BY <1>1, LenProperties
<1>4. Carried[d] = got[d] \o out[d]
  BY DEF Carried
<1>5. Len(got[d]) + Len(out[d]) \in Nat
  <2>1. \A m, n \in Nat : m + n \in Nat
    OBVIOUS
  <2> QED  BY <1>3, <2>1, Zenon
<1> QED  BY <1>1, <1>2, <1>4, <1>5, Zenon DEF Arrived

\* What has been carried changes only by a delivery.
LEMMA CarriedSame == UNCHANGED <<got, out>> => Carried' = Carried
BY DEF Carried

\* Reading moves a chunk from the socket to the application.
LEMMA ReadMoves ==
    ASSUME NEW s \in Seq(Nat), NEW t \in Seq(Nat), t # <<>>
    PROVE  Append(s, Head(t)) \o Tail(t) = s \o t
<1>1. Head(t) \in Nat /\ Tail(t) \in Seq(Nat) /\ Len(Tail(t)) = Len(t) - 1
      /\ \A i \in 1 .. Len(Tail(t)) : Tail(t)[i] = t[i + 1]
  BY HeadTailProperties
<1>2. Append(s, Head(t)) = s \o <<Head(t)>> /\ <<Head(t)>> \in Seq(Nat)
  BY <1>1, AppendIsConcat
<1>3. <<Head(t)>> \o Tail(t) = t
  <2>1. Len(t) \in Nat /\ Len(t) > 0
    OBVIOUS
  <2>2. <<Head(t)>> \o Tail(t) \in Seq(Nat) /\ Len(<<Head(t)>> \o Tail(t)) = Len(t)
    BY <1>1, <1>2, <2>1, ConcatProperties
  <2>3. \A i \in 1 .. Len(t) : (<<Head(t)>> \o Tail(t))[i] = t[i]
    BY <1>1, <2>1
  <2> QED  BY <2>2, <2>3, SeqEqual
<1>4. (s \o <<Head(t)>>) \o Tail(t) = s \o (<<Head(t)>> \o Tail(t))
  BY <1>1, <1>2, ConcatAssociative, SMTT(30)
<1> QED  BY <1>2, <1>3, <1>4, Zenon

\* Appending to the socket appends to what is carried.
LEMMA AppendMoves ==
    ASSUME NEW s \in Seq(Nat), NEW t \in Seq(Nat), NEW x \in Nat
    PROVE  s \o Append(t, x) = Append(s \o t, x)
<1>1. Append(t, x) = t \o <<x>> /\ <<x>> \in Seq(Nat)
  BY AppendIsConcat
<1>2. s \o t \in Seq(Nat)
  BY ConcatProperties
<1>3. Append(s \o t, x) = (s \o t) \o <<x>>
  BY <1>2, AppendIsConcat
<1> QED  BY <1>1, <1>3, ConcatAssociative

-----------------------------------------------------------------------------
(* Each step of the tunnel as a step of the pipes. *)

PipeStep == Pipe!Next \/ UNCHANGED Pipe!vars

\* What MayBeCut(d) looks at does not change.
LEMMA CutSame ==
    ASSUME UNCHANGED <<err, gone, client, agent, pc, bare>>
    PROVE  Broken' = Broken
BY BrokenSame DEF MayBeCut

LEMMA AppWriteMaps ==
    ASSUME TypeOK, NEW d \in Dir, AppWrite(d)
    PROVE  PipeStep
<1>1. /\ ~shut[d] /\ sent[d] < MaxSent[d]
      /\ sent' = [sent EXCEPT ![d] = sent[d] + 1]
      /\ UNCHANGED <<shut, got, out, fin, err, gone, client, agent, pc, bare>>
  BY DEF AppWrite, loopVars, wireVars
<1>2. Carried' = Carried /\ Broken' = Broken
  BY <1>1, CarriedSame, CutSame
<1> QED  BY <1>1, <1>2, PipeWrite DEF PipeStep

LEMMA AppShutMaps ==
    ASSUME TypeOK, NEW d \in Dir, AppShut(d)
    PROVE  PipeStep
<1>1. /\ ~shut[d] /\ shut' = [shut EXCEPT ![d] = TRUE]
      /\ UNCHANGED <<sent, got, out, fin, err, gone, client, agent, pc, bare>>
  BY DEF AppShut, sockVars, loopVars, wireVars
<1>2. Carried' = Carried /\ Broken' = Broken
  BY <1>1, CarriedSame, CutSame
<1> QED  BY <1>1, <1>2, PipeShut DEF PipeStep

\* The application's own read moves no chunk through the pipe.
LEMMA AppReadMaps ==
    ASSUME TypeOK, NEW d \in Dir, AppRead(d)
    PROVE  PipeStep
<1>1. /\ out[d] # <<>>
      /\ got' = [got EXCEPT ![d] = Append(got[d], Head(out[d]))]
      /\ out' = [out EXCEPT ![d] = Tail(out[d])]
      /\ UNCHANGED <<sent, shut, fin, err, gone, client, agent, pc, bare>>
  BY DEF AppRead, loopVars, wireVars
<1>2. got \in [Dir -> Seq(Nat)] /\ out \in [Dir -> Seq(Nat)]
  BY DEF TypeOK, Typed
<1>3. ASSUME NEW e \in Dir PROVE got'[e] \o out'[e] = got[e] \o out[e]
  <2>1. CASE e = d
    <3>1. got'[e] = Append(got[d], Head(out[d])) /\ out'[e] = Tail(out[d])
      BY <1>1, <1>2, <2>1
    <3>2. Append(got[d], Head(out[d])) \o Tail(out[d]) = got[d] \o out[d]
      BY <1>1, <1>2, ReadMoves
    <3> QED  BY <2>1, <3>1, <3>2
  <2>2. CASE e # d
    BY <1>1, <1>2, <2>2
  <2> QED  BY <2>1, <2>2
<1>4. Carried' = Carried
  BY <1>3 DEF Carried
<1>5. Broken' = Broken
  BY <1>1, CutSame
<1> QED  BY <1>1, <1>4, <1>5, PipeStutters DEF PipeStep

LEMMA AppCloseMaps ==
    ASSUME TypeOK, NEW d \in Dir, AppClose(d)
    PROVE  PipeStep
<1>1. /\ gone[d] = "no" /\ shut' = [shut EXCEPT ![d] = TRUE]
      /\ gone'[d] # "no" /\ \A e \in Dir : e # d => gone'[e] = gone[e]
      /\ UNCHANGED <<sent, got, out, fin, err, client, agent, pc, bare>>
  BY DEF AppClose, loopVars, wireVars, TypeOK, Typed
<1>2. Carried' = Carried
  BY <1>1, CarriedSame
<1>3. Opp[d] \in Dir /\ Opp[Opp[d]] = d /\ \A e \in Dir : e # Opp[d] => Opp[e] \in Dir /\ Opp[e] # d
  BY LoopNames DEF Opp, Dir
<1>4. MayBeCut(Opp[d])'
  BY <1>1, <1>3 DEF MayBeCut
<1>5. \A e \in Dir : e # Opp[d] => (MayBeCut(e)' <=> MayBeCut(e))
  BY <1>1, <1>3 DEF MayBeCut
<1>6. Broken' = [Broken EXCEPT ![Opp[d]] = TRUE]
  BY <1>3, <1>4, <1>5, BrokenNow
<1> QED  BY <1>1, <1>2, <1>6, PipeLeave DEF PipeStep

\* A chunk between the sockets is nothing to the pipe.
LEMMA CopyMaps ==
    ASSUME NEW d \in Dir, CopyIn(d) \/ Send(d) \/ Receive(d)
    PROVE  PipeStep
<1>1. UNCHANGED <<sent, shut, got, out, fin, err, gone, client, agent, pc, bare>>
  BY DEF CopyIn, Send, Receive, appVars, sockVars, wireVars
<1>2. Carried' = Carried /\ Broken' = Broken
  BY <1>1, CarriedSame, CutSame
<1> QED  BY <1>1, <1>2, PipeStutters DEF PipeStep

\* A loop that ends with an error breaks its direction; without one it
\* changes nothing there.
LEMMA LoopEnds ==
    ASSUME TypeOK, Late, NEW d \in Dir, NEW l \in {First[d], Second[d]},
           pc[l] = "copy", pc' = [pc EXCEPT ![l] = "ended"],
           \A k \in Loop : k # l => err'[k] = err[k],
           UNCHANGED <<sent, shut, got, out, fin, gone, client, agent, bare>>
    PROVE  PipeStep
<1>1. l \in Loop /\ ~err[l]
  BY LoopNames DEF Late
<1>2. Carried' = Carried
  BY CarriedSame
<1>3. pc'["clientDown"] = "done" <=> pc["clientDown"] = "done"
  BY <1>1 DEF TypeOK, Typed, Loop
<1>4. ASSUME NEW e \in Dir, e # d PROVE MayBeCut(e)' <=> MayBeCut(e)
  <2>1. First[e] # l /\ Second[e] # l /\ First[e] \in Loop /\ Second[e] \in Loop
    BY <1>4, LoopNames
  <2>2. err'[First[e]] = err[First[e]] /\ err'[Second[e]] = err[Second[e]]
    BY <2>1
  <2> QED  BY <2>2, <1>3 DEF MayBeCut
<1>5. CASE MayBeCut(d)'
  <2>1. {d} \in SUBSET Dir /\ \A e \in Dir : MayBeCut(e)' <=> MayBeCut(e) \/ e \in {d}
    BY <1>4, <1>5
  <2> QED  BY <1>2, <2>1, PipeBreak DEF PipeStep
<1>6. CASE ~MayBeCut(d)'
  <2>1. ~MayBeCut(d)
    <3>1. \A k \in {First[d], Second[d]} : err[k] => err'[k]
      BY <1>1, LoopNames
    <3> QED  BY <1>3, <1>6, <3>1 DEF MayBeCut
  <2>2. Broken' = Broken
    BY <1>4, <1>6, <2>1, BrokenSame
  <2> QED  BY <1>2, <2>2, PipeStutters DEF PipeStep
<1> QED  BY <1>5, <1>6

LEMMA CopyEndMaps ==
    ASSUME TypeOK, Late, NEW d \in Dir, CopyEnd(d)
    PROVE  PipeStep
<1>1. /\ pc[First[d]] = "copy" /\ pc' = [pc EXCEPT ![First[d]] = "ended"]
      /\ \A k \in Loop : k # First[d] => err'[k] = err[k]
      /\ UNCHANGED <<sent, shut, got, out, fin, gone, client, agent, bare>>
  BY DEF CopyEnd, appVars, sockVars, wireVars, TypeOK, Typed
<1> QED  BY <1>1, LoopEnds

LEMMA RecvEndMaps ==
    ASSUME TypeOK, Late, \A e \in Dir : Lane(e), NEW d \in Dir, RecvEnd(d)
    PROVE  PipeStep
<1>1. /\ pc[Second[d]] = "copy" /\ pc' = [pc EXCEPT ![Second[d]] = "ended"]
      /\ \A k \in Loop : k # Second[d] => err'[k] = err[k]
      /\ UNCHANGED <<sent, shut, got, out, fin, gone, client, agent>>
  BY DEF RecvEnd, appVars, sockVars, TypeOK, Typed
<1>2. bare' = bare
  <2>1. CASE UNCHANGED wireVars
    BY <2>1 DEF wireVars
  <2>2. CASE link /\ DropLink({})
    <3>1. bare' = {}
      BY <2>2 DEF DropLink
    <3>2. bare = {}
      BY <2>2 DEF Lane, BareIsCut, TypeOK, Typed
    <3> QED  BY <3>1, <3>2
  <2> QED  BY <2>1, <2>2 DEF RecvEnd
<1> QED  BY <1>1, <1>2, LoopEnds

\* What is written to the far socket is the next chunk the pipe carries: by
\* the invariant the second loop holds the chunk after those that arrived.
LEMMA DeliverMaps ==
    ASSUME TypeOK, NEW d \in Dir, Lane(d), Deliver(d)
    PROVE  PipeStep
<1>1. /\ pc[Second[d]] = "copy" /\ hold[Second[d]] # <<>>
      /\ fin[d] = "open" /\ gone[Opp[d]] # "reset"
      /\ UNCHANGED <<sent, shut, got, fin, err, client, agent, pc, bare>>
  BY DEF Deliver, WriteFails, wireVars
<1>2. CASE gone[Opp[d]] = "no"
  <2>1. /\ out' = [out EXCEPT ![d] = Append(out[d], Head(hold[Second[d]]))]
        /\ UNCHANGED gone
    BY <1>2 DEF Deliver
  <2>2. Broken' = Broken
    BY <1>1, <2>1, CutSame
  <2>3. /\ hold[Second[d]] \in Seq(Nat) /\ Len(wire[d]) \in Nat /\ sent[d] \in Nat
        /\ got \in [Dir -> Seq(Nat)] /\ out \in [Dir -> Seq(Nat)]
    BY LoopNames DEF TypeOK, Typed
  <2>4. Run(hold[Second[d]], Arrived(d)) /\ OnWire(d) <= sent[d]
    BY <1>1 DEF Lane, WireInOrder, Flowing
  <2>5. /\ Len(Carried[d]) = Arrived(d) /\ Arrived(d) \in Nat
        /\ Carried[d] = got[d] \o out[d] /\ got[d] \in Seq(Nat) /\ out[d] \in Seq(Nat)
    BY CarriedLength
  <2>6. Head(hold[Second[d]]) = Arrived(d) + 1 /\ Len(hold[Second[d]]) > 0
    BY <1>1, <2>3, <2>4, <2>5, RunTail
  <2>7. Arrived(d) < sent[d]
    <3>1. Len(hold[Second[d]]) \in Nat
      BY <2>3
    <3>2. \A a, h, w, n \in Nat : h > 0 /\ (a + h) + w <= n => a < n
      OBVIOUS
    <3>3. (Arrived(d) + Len(hold[Second[d]])) + Len(wire[d]) <= sent[d]
      BY <2>4 DEF OnWire, AtSecond
    <3> QED  BY <2>3, <2>5, <2>6, <3>1, <3>2, <3>3
  <2>8. Carried' = [Carried EXCEPT ![d] = Append(Carried[d], Len(Carried[d]) + 1)]
    <3>1. got'[d] \o out'[d] = Append(Carried[d], Len(Carried[d]) + 1)
      <4>1. out'[d] = Append(out[d], Arrived(d) + 1) /\ got'[d] = got[d]
        BY <1>1, <2>1, <2>3, <2>6
      <4>2. Arrived(d) + 1 \in Nat
        BY <2>5
      <4>3. got[d] \o Append(out[d], Arrived(d) + 1) = Append(got[d] \o out[d], Arrived(d) + 1)
        BY <2>5, <4>2, AppendMoves
      <4> QED  BY <2>5, <4>1, <4>3, Zenon
    <3>2. \A e \in Dir : e # d => got'[e] \o out'[e] = got[e] \o out[e]
      BY <1>1, <2>1, <2>3
    <3> HIDE DEF Run
    <3> QED  BY <3>1, <3>2 DEF Carried
  <2>9. Len(Carried[d]) < sent[d]
    BY <2>5, <2>7
  <2> QED  BY <1>1, <2>2, <2>8, <2>9, PipeCarry DEF PipeStep
<1>3. CASE gone[Opp[d]] # "no"
  <2>1. gone' = [gone EXCEPT ![Opp[d]] = "reset"] /\ UNCHANGED out
    BY <1>3 DEF Deliver
  <2>2. \A e \in Dir : gone'[e] # "no" <=> gone[e] # "no"
    BY <1>3, <2>1 DEF TypeOK, Typed
  <2>3. \A e \in Dir : MayBeCut(e)' <=> MayBeCut(e)
    BY <1>1, <2>2, LoopNames DEF MayBeCut
  <2>4. Broken' = Broken /\ Carried' = Carried
    BY <1>1, <2>1, <2>3, BrokenSame, CarriedSame
  <2> QED  BY <1>1, <2>4, PipeStutters DEF PipeStep
<1> QED  BY <1>2, <1>3

-----------------------------------------------------------------------------
(* The half-closes and the ends of the two sides. *)

\* A loop that is done and the end of the response leave both pipes alone.
LEMMA FinishStutters ==
    ASSUME TypeOK, ClientCloseWrite \/ EndResponse
    PROVE  PipeStep
<1>1. UNCHANGED <<sent, shut, got, out, fin, gone, err, client, bare>>
  BY DEF ClientCloseWrite, EndResponse, appVars, sockVars, loopVars
<1>2. agent' # "open" <=> agent # "open"
  BY DEF ClientCloseWrite, EndResponse
<1>3. pc'["clientDown"] = pc["clientDown"]
  BY DEF ClientCloseWrite, EndResponse, loopVars, TypeOK, Typed, Loop
<1>4. \A d \in Dir : MayBeCut(d)' <=> MayBeCut(d)
  BY <1>1, <1>2, <1>3 DEF MayBeCut
<1>5. Carried' = Carried /\ Broken' = Broken
  BY <1>1, <1>4, CarriedSame, BrokenSame
<1> QED  BY <1>1, <1>5, PipeStutters DEF PipeStep

\* A connection that goes breaks the directions it ended with a bare FIN.
LEMMA DropMaps ==
    ASSUME TypeOK, \A e \in Dir : Lane(e),
           HangUp \/ ProxyExits \/ KeepaliveKill \/ LinkLost
    PROVE  PipeStep
<1>1. link /\ UNCHANGED <<sent, shut, got, out, fin, gone, err, client, agent, pc>>
  BY Drops DEF appVars, sockVars, loopVars
<1>2. \A e \in Dir : e \notin bare
  BY <1>1 DEF Lane, BareIsCut
<1>3. bare' \in SUBSET Dir
  <2>1. PICK S \in SUBSET Dir : DropLink(S)
    BY Drops
  <2> QED  BY <2>1 DEF DropLink
<1>4. \A e \in Dir : MayBeCut(e)' <=> MayBeCut(e) \/ e \in bare'
  BY <1>1, <1>2 DEF MayBeCut
<1>5. Carried' = Carried
  BY <1>1, CarriedSame
<1> QED  BY <1>1, <1>3, <1>4, <1>5, PipeBreak DEF PipeStep

\* An end of input that nothing excuses comes after everything that was sent.
LEMMA CleanEnd ==
    ASSUME TypeOK, NEW d \in Dir, Lane(d), Ends, Late, ~MayBeCut(d), pc[Second[d]] # "copy"
    PROVE  shut[d] /\ Len(Carried[d]) = sent[d]
<1>1. ~err[First[d]] /\ SecondClean(d) /\ gone[Opp[d]] # "reset"
  BY DEF MayBeCut, SecondClean, SecondNil
<1>2. FirstStopped(d)
  BY <1>1 DEF Lane, MarkIsLast
<1>3. pc[First[d]] # "copy"
  <2>1. CASE d = "up"
    <3>1. CASE client = "open"
      BY <1>2, <2>1, <3>1 DEF FirstStopped, Attached
    <3>2. CASE client # "open"
      <4>1. client = "closed" /\ First[d] = "clientUp"
        BY <2>1, <3>2 DEF TypeOK, Typed, First
      <4>2. Mode = "splice"
        BY <2>1, <4>1, ModeAssumption DEF MayBeCut, Late
      <4> QED  BY <4>1, <4>2 DEF Late
    <3> QED  BY <3>1, <3>2
  <2>2. CASE d = "down"
    BY <1>2, <2>2 DEF FirstStopped, Attached, Ends, First
  <2> QED  BY <2>1, <2>2 DEF Dir
<1>4. shut[d] /\ Arrived(d) = sent[d]
  BY <1>1, <1>3 DEF Lane, CleanArrived, FirstClean
<1> QED  BY <1>4, CarriedLength

\* The agent's half-close ends the upstream pipe.
LEMMA AgentCloseWriteMaps ==
    ASSUME TypeOK, Lane("up"), Ends, Late, AgentCloseWrite
    PROVE  PipeStep
<1>1. /\ pc["agentUp"] = "ended" /\ pc' = [pc EXCEPT !["agentUp"] = "done"]
      /\ UNCHANGED <<sent, shut, got, out, err, gone, client, agent, bare>>
  BY DEF AgentCloseWrite, appVars, wireVars
<1>2. pc'["clientDown"] = pc["clientDown"]
  BY <1>1 DEF TypeOK, Typed, Loop
<1>3. Broken' = Broken /\ Carried' = Carried
  <2>1. \A d \in Dir : MayBeCut(d)' <=> MayBeCut(d)
    BY <1>1, <1>2 DEF MayBeCut
  <2> QED  BY <1>1, <2>1, BrokenSame, CarriedSame
<1>4. "up" \in Dir /\ Second["up"] = "agentUp"
  BY DEF Dir, Second
<1>5. CASE fin["up"] = "open"
  <2>1. fin' = [fin EXCEPT !["up"] = "fin"]
    BY <1>5 DEF AgentCloseWrite, TypeOK, Typed
  <2>2. CASE MayBeCut("up")
    <3>1. Broken' = [Broken EXCEPT !["up"] = TRUE]
      <4>1. MayBeCut("up")' /\ \A e \in Dir : MayBeCut(e)' <=> MayBeCut(e)
        BY <1>1, <1>2, <2>2 DEF MayBeCut
      <4> QED  BY <1>4, <4>1, BrokenNow
    <3> QED  BY <1>1, <1>3, <1>4, <1>5, <2>1, <3>1, PipeEnd DEF PipeStep
  <2>3. CASE ~MayBeCut("up")
    <3>1. shut["up"] /\ Len(Carried["up"]) = sent["up"]
      BY <1>1, <1>4, <2>3, CleanEnd
    <3> QED  BY <1>1, <1>3, <1>4, <1>5, <2>1, <3>1, PipeEnd DEF PipeStep
  <2> QED  BY <2>2, <2>3
<1>6. CASE fin["up"] # "open"
  <2>1. fin' = fin
    BY <1>4, <1>6 DEF AgentCloseWrite, TypeOK, Typed
  <2> QED  BY <1>1, <1>3, <2>1, PipeStutters DEF PipeStep
<1> QED  BY <1>5, <1>6

\* splice's half-close ends the downstream pipe if the copy was clean; Proxy's
\* return breaks the upstream one.
LEMMA ClientHalfCloseMaps ==
    ASSUME TypeOK, Lane("down"), Ends, Late, ClientHalfClose
    PROVE  PipeStep
<1>1. /\ pc["clientDown"] = "ended" /\ pc' = [pc EXCEPT !["clientDown"] = "done"]
      /\ fin' = [fin EXCEPT !["down"] = IF Mode = "splice" /\ ~err["clientDown"]
                                       THEN "fin" ELSE fin["down"]]
      /\ UNCHANGED <<sent, shut, got, out, err, gone, client, agent, bare>>
  BY DEF ClientHalfClose, appVars, wireVars
<1>2. pc'["clientDown"] = "done" /\ client = "open" /\ Carried' = Carried
  BY <1>1, CarriedSame DEF TypeOK, Typed, Loop, Late
<1>3. "up" \in Dir /\ "down" \in Dir /\ Second["down"] = "clientDown"
      /\ \A e \in Dir : e # "up" => e = "down"
  BY DEF Dir, Second
<1>4. MayBeCut("down")' <=> MayBeCut("down")
  BY <1>1 DEF MayBeCut
<1>5. CASE Mode = "splice"
  <2>1. Broken' = Broken
    <3>1. \A e \in Dir : MayBeCut(e)' <=> MayBeCut(e)
      BY <1>1, <1>5 DEF MayBeCut
    <3> QED  BY <3>1, BrokenSame
  <2>2. CASE ~err["clientDown"] /\ fin["down"] = "open"
    <3>1. fin' = [fin EXCEPT !["down"] = "fin"]
      BY <1>1, <1>5, <2>2
    <3>2. CASE MayBeCut("down")
      <4>1. Broken' = [Broken EXCEPT !["down"] = TRUE]
        <5>1. \A e \in Dir : MayBeCut(e)' <=> MayBeCut(e)
          BY <1>1, <1>5 DEF MayBeCut
        <5> QED  BY <1>3, <1>4, <3>2, <5>1, BrokenNow
      <4> QED  BY <1>1, <1>2, <1>3, <2>2, <3>1, <4>1, PipeEnd DEF PipeStep
    <3>3. CASE ~MayBeCut("down")
      <4>1. shut["down"] /\ Len(Carried["down"]) = sent["down"]
        BY <1>1, <1>3, <3>3, CleanEnd
      <4> QED  BY <1>1, <1>2, <1>3, <2>1, <2>2, <3>1, <4>1, PipeEnd DEF PipeStep
    <3> QED  BY <3>2, <3>3
  <2>3. CASE err["clientDown"] \/ fin["down"] # "open"
    <3>1. fin' = fin
      <4>1. CASE err["clientDown"]
        BY <1>1, <1>3, <4>1 DEF TypeOK, Typed
      <4>2. CASE fin["down"] # "open"
        <5>1. fin["down"] = "fin"
          BY <1>2, <4>2 DEF Ends
        <5> QED  BY <1>1, <1>3, <5>1 DEF TypeOK, Typed
      <4> QED  BY <2>3, <4>1, <4>2
    <3> QED  BY <1>1, <1>2, <2>1, <3>1, PipeStutters DEF PipeStep
  <2> QED  BY <2>2, <2>3
<1>6. CASE Mode # "splice"
  <2>1. fin' = fin
    BY <1>1, <1>3, <1>6 DEF TypeOK, Typed
  <2>2. MayBeCut("up")'
    <3>1. Mode = "proxy"
      BY <1>6, ModeAssumption
    <3> QED  BY <1>2, <3>1 DEF MayBeCut
  <2>3. {"up"} \in SUBSET Dir /\ \A e \in Dir : MayBeCut(e)' <=> MayBeCut(e) \/ e \in {"up"}
    BY <1>3, <1>4, <2>2
  <2> QED  BY <1>1, <1>2, <2>1, <2>3, PipeBreak DEF PipeStep
<1> QED  BY <1>5, <1>6

\* A side that closes its socket ends what it wrote there, with FIN or RST,
\* and that direction counts as broken from then on.
LEMMA CloseMaps ==
    ASSUME TypeOK, NEW d \in Dir, MayBeCut(d)',
           \A e \in Dir : e # d => (MayBeCut(e)' <=> MayBeCut(e)),
           fin' = [fin EXCEPT ![d] = Closed(d)],
           UNCHANGED <<sent, shut, got, out>>
    PROVE  PipeStep
<1>1. Broken' = [Broken EXCEPT ![d] = TRUE] /\ Carried' = Carried
  BY BrokenNow, CarriedSame
<1>2. fin \in [Dir -> {"open", "fin", "reset"}]
  BY DEF TypeOK, Typed
<1>3. CASE Closed(d) = "reset"
  BY <1>1, <1>3, PipeReset DEF PipeStep
<1>4. CASE Closed(d) = "fin" /\ fin[d] = "open"
  BY <1>1, <1>4, PipeEnd DEF PipeStep
<1>5. CASE Closed(d) = fin[d]
  <2>1. fin' = fin
    BY <1>2, <1>5
  <2>2. {d} \in SUBSET Dir /\ \A e \in Dir : MayBeCut(e)' <=> MayBeCut(e) \/ e \in {d}
    OBVIOUS
  <2> QED  BY <1>1, <2>1, <2>2, PipeBreak DEF PipeStep
<1> QED  BY <1>2, <1>3, <1>4, <1>5 DEF Closed

LEMMA ClientCloseMaps == TypeOK /\ ClientClose => PipeStep
<1> SUFFICES ASSUME TypeOK, ClientClose PROVE PipeStep
  OBVIOUS
<1>1. /\ client' = "closed" /\ fin' = [fin EXCEPT !["down"] = Closed("down")]
      /\ UNCHANGED <<sent, shut, got, out, gone, pc, err, agent, bare>>
  BY DEF ClientClose, appVars, loopVars
<1>2. "down" \in Dir /\ MayBeCut("down")'
  BY <1>1 DEF MayBeCut, Dir
<1>3. \A e \in Dir : e # "down" => (MayBeCut(e)' <=> MayBeCut(e))
  BY <1>1 DEF MayBeCut
<1> QED  BY <1>1, <1>2, <1>3, CloseMaps

LEMMA AgentReturnMaps == TypeOK /\ AgentReturn => PipeStep
<1> SUFFICES ASSUME TypeOK, AgentReturn PROVE PipeStep
  OBVIOUS
<1>1. /\ agent' = "returning" /\ fin' = [fin EXCEPT !["up"] = Closed("up")]
      /\ UNCHANGED <<sent, shut, got, out, gone, err, client, bare>>
  BY DEF AgentReturn, appVars, wireVars
<1>2. "up" \in Dir /\ MayBeCut("up")'
  BY <1>1 DEF MayBeCut, Dir
<1>3. \A e \in Dir : e # "up" => (MayBeCut(e)' <=> MayBeCut(e))
  BY <1>1 DEF MayBeCut
<1> QED  BY <1>1, <1>2, <1>3, CloseMaps

-----------------------------------------------------------------------------

\* Every step of a tunnel is a step of the pipes or leaves them alone.
LEMMA NextMaps == IInv /\ Late /\ [Next]_vars => PipeStep
<1> SUFFICES ASSUME IInv, Late, [Next]_vars PROVE PipeStep
  OBVIOUS
<1>1. TypeOK /\ Ends /\ (\A d \in Dir : Lane(d)) /\ "up" \in Dir /\ "down" \in Dir
  BY DEF IInv, Dir
<1>2. ASSUME NEW d \in Dir, App(d) PROVE PipeStep
  BY <1>1, <1>2, AppWriteMaps, AppShutMaps, AppReadMaps, AppCloseMaps DEF App
<1>3. ASSUME NEW d \in Dir, Copy(d) PROVE PipeStep
  BY <1>1, <1>3, CopyMaps, CopyEndMaps, DeliverMaps, RecvEndMaps DEF Copy
<1>4. CASE Finish \/ KeepaliveKill \/ LinkLost
  BY <1>1, <1>4, FinishStutters, DropMaps, AgentCloseWriteMaps, ClientHalfCloseMaps,
     ClientCloseMaps, AgentReturnMaps DEF Finish
<1>5. CASE UNCHANGED vars
  <2>1. UNCHANGED <<sent, shut, got, out, fin, err, gone, client, agent, pc, bare>>
    BY <1>5 DEF vars, appVars, sockVars, loopVars, wireVars
  <2>2. Carried' = Carried /\ Broken' = Broken
    BY <2>1, CarriedSame, CutSame
  <2> QED  BY <2>1, <2>2, PipeStutters DEF PipeStep
<1> QED  BY <1>2, <1>3, <1>4, <1>5 DEF Next

\* A tunnel starts as a pair of pipes does.
LEMMA InitMaps == Init => Pipe!Init
<1> SUFFICES ASSUME Init PROVE Pipe!Init
  OBVIOUS
<1>1. Carried = [d \in Dir |-> <<>>]
  <2>1. \A d \in Dir : got[d] = <<>> /\ out[d] = <<>>
    BY DEF Init
  <2>2. <<>> \o <<>> = <<>>
    BY ConcatEmptySeq
  <2> QED  BY <2>1, <2>2 DEF Carried
<1>2. Broken = [d \in Dir |-> FALSE]
  <2>1. ASSUME NEW d \in Dir PROVE ~MayBeCut(d)
    BY LoopNames DEF Init, MayBeCut, Loop
  <2>2. \A d \in Dir : MayBeCut(d) = FALSE
    BY <2>1, Zenon DEF MayBeCut
  <2> QED  BY <2>2 DEF Broken
<1> QED  BY <1>1, <1>2 DEF Init, Pipe!Init, Carried, Broken, MayBeCut

\* Whatever the transport, the client, the capacity, the faults and what the
\* two applications do, they see what a pair of pipes would show them, where a
\* bare FIN breaks the pipe of a WebSocket.
THEOREM TunnelImplementsPipe == Spec => ImplementsPipe
<1>1. IInv => TypeOK
  BY DEF IInv
<1>2. IInv /\ Late /\ [Next]_vars => [Pipe!Next]_(Pipe!vars)
  BY NextMaps DEF PipeStep
<1> QED
  BY <1>1, <1>2, InitMaps, LateInit, LateStep, InvariantHolds, PTL
  DEF Spec, ImplementsPipe, Pipe!Spec

=============================================================================
