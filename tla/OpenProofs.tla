---------------------------- MODULE OpenProofs ----------------------------
(***************************************************************************)
(* Proofs about OpenProtocol, for every set of names, every allowlist and  *)
(* every set of endpoints that are up.                                     *)
(***************************************************************************)
EXTENDS OpenProtocol, TLAPS

(***************************************************************************)
(* The inductive invariant.  The properties are about what the client has  *)
(* been told, which is what an agent sent that had got as far as it could  *)
(* with this call.  So the invariant follows the call: what the agent must *)
(* have checked to be where it is, then what each answer on its way says   *)
(* of that, then what the client has made of it.                           *)
(***************************************************************************)
Inside == {"handler", "dial", "ack", "serve"}

\* How far the agent can have got.  It is past the door only with a token and
\* a path it can use, and past the dial only with an endpoint that is up.
AgentSound ==
    /\ agent # "none" => call.cert
    /\ agent \in Inside => call.token /\ (Connect => call.path = "direct")
    /\ agent = "dial" => Opening /\ call.name \in Allowed
    /\ agent = "ack" => Connect /\ Opening
    /\ agent \in {"ack", "serve"} /\ Opening => call.name \in Allowed \cap Up
    /\ upstream => agent \in {"ack", "serve"}
    /\ agent \in {"ack", "serve"} /\ Opening /\ Connect /\ call.name # "@shell" => upstream

\* What the agent can have sent.  A refusal that can still arrive is the
\* verdict; a welcome is sent only where there is nothing to refuse.
ReplySound ==
    /\ reply \in Refusal /\ link => reply = Verdict
    /\ reply \in {"opened", "101", "pong"} => Verdict = "ok"
    /\ reply = "opened" => Opening /\ Connect /\ agent \in {"serve", "ended"}
    /\ reply = "101" => ~Connect
    /\ reply = "pong" => ~Opening
    /\ closing = "clean" /\ Opening => call.name \in Up

\* What the client has made of it.  Until its first message is sent the agent
\* of a Connect call cannot have got to the endpoint.
ClientSound ==
    /\ client = "dial" => agent = "none"
    /\ Opening /\ Connect /\ client \in {"dial", "send"} =>
          /\ inbox = 0 /\ agent \in {"none", "door", "handler", "ended"}
          /\ reply \in {"none", "proto", "token"}
    /\ TruthfulAnswer
    /\ result = "ok" /\ Opening /\ Connect => agent \in {"serve", "ended"}
    /\ session # "none" => Opening
    /\ FailedDialIsSeen

Sound == AgentSound /\ ReplySound /\ ClientSound

Reply == {"none", "opened", "101", "pong"} \cup Refusal
Calls == [transport : {"connect", "ws"}, op : {"open", "check"},
          cert : BOOLEAN, token : BOOLEAN, name : Name, path : Path]

Switches == upstream \in BOOLEAN /\ link \in BOOLEAN

TypeOK ==
    /\ call \in Calls /\ Switches
    /\ client \in {"dial", "send", "wait", "done"}
    /\ result \in {"none", "ok", "pin", "eof", "broken"} \cup Refusal
    /\ round \in 1..Rounds
    /\ session \in {"none", "open", "clean", "failed", "cut"}
    /\ agent \in {"none", "door", "ended"} \cup Inside
    /\ inbox \in Nat
    /\ reply \in Reply
    /\ closing \in {"none", "clean", "failed"}

IInv == TypeOK /\ Sound

-----------------------------------------------------------------------------
\* No step changes the call, so none changes what it should be answered.
LEMMA CallIsFixed ==
  ASSUME [Next]_vars
  PROVE  call' = call /\ Verdict' = Verdict /\ Connect' = Connect /\ Opening' = Opening
<1>1. call' = call
  BY DEF Next, vars, Client, Agent, Dial, ClientSend, ClientReceive,
           SessionEnds, Lost, Cut, GiveUp, Door, Forward, Upgrade, PingUpgrade, Ping,
           DialUpstream, Ack, HandlerReturns
<1>2. QED
  BY <1>1 DEF Verdict, Connect, Opening

\* Every action of the client and of the agent keeps the types of the state.
LEMMA TypeStep == TypeOK /\ [Next]_vars => TypeOK'
<1> SUFFICES ASSUME TypeOK, [Next]_vars PROVE TypeOK'
  OBVIOUS
<1>1. Switches'
  BY Zenon DEF TypeOK, Switches, vars, agentVars, wireVars, Next, Client,
           Agent, Refuse, Dial, ClientSend, ClientReceive, SessionEnds,
           Lost, Cut, GiveUp, Door, Forward, Upgrade, PingUpgrade, Ping, DialUpstream,
           Ack, HandlerReturns
<1>2. CASE Dial
  BY <1>1, <1>2 DEF TypeOK, Dial, Finish, agentVars, wireVars
<1>3. CASE ClientSend
  BY <1>1, <1>3 DEF TypeOK, ClientSend, Finish, agentVars
<1>4. CASE ClientReceive
  BY <1>1, <1>4 DEF TypeOK, Reply, Rounds, ClientReceive, Finish, agentVars
<1>5. CASE SessionEnds
  BY <1>1, <1>5 DEF TypeOK, SessionEnds, agentVars, wireVars
<1>6. CASE Cut \/ GiveUp
  BY <1>1, <1>6 DEF TypeOK, Lost, Cut, GiveUp, Finish, agentVars
<1>7. CASE Door
  BY <1>1, <1>7 DEF TypeOK, Inside, Reply, Refusal, Door, Refuse, clientVars
<1>8. CASE Forward
  BY <1>1, <1>8 DEF TypeOK, Inside, Reply, Refusal, Forward, Refuse, Serve,
           clientVars
<1>9. CASE Upgrade
  BY <1>1, <1>9 DEF TypeOK, Inside, Reply, Refusal, Upgrade, Refuse, Serve,
           clientVars
<1>10. CASE PingUpgrade
  BY <1>1, <1>10 DEF TypeOK, Inside, Reply, PingUpgrade, clientVars
<1>11. CASE Ping
  BY <1>1, <1>11 DEF TypeOK, Reply, Ping, clientVars, agentVars
<1>12. CASE DialUpstream
  BY <1>1, <1>12 DEF TypeOK, Inside, Reply, Refusal, DialUpstream, clientVars
<1>13. CASE Ack
  BY <1>1, <1>13 DEF TypeOK, Inside, Reply, Ack, clientVars
<1>14. CASE HandlerReturns
  BY <1>1, <1>14 DEF TypeOK, HandlerReturns, clientVars
<1>15. CASE UNCHANGED vars
  BY <1>1, <1>15 DEF TypeOK, vars, clientVars, agentVars, wireVars
<1>16. QED
  BY <1>2, <1>3, <1>4, <1>5, <1>6, <1>7, <1>8, <1>9, <1>10, <1>11, <1>12,
           <1>13, <1>14, <1>15 DEF Next, Client, Agent

\* The handshake: nothing has been sent, and the agent is at its door.
LEMMA DialSound ==
  ASSUME TypeOK, Sound, [Next]_vars, Dial
  PROVE  Sound'
<1> USE CallIsFixed DEF Sound
<1>1. AgentSound'
  BY DEF Inside, AgentSound, ClientSound, Dial, agentVars
<1>2. ReplySound'
  BY DEF ReplySound, ClientSound, Dial, wireVars
<1>3. ClientSound'
  BY DEF ClientSound, Verdict, TruthfulAnswer, FailedDialIsSeen, Dial, Finish,
           wireVars
<1>4. QED
  BY <1>1, <1>2, <1>3

\* The first message, or the EOF of a refusal that overtook it.
LEMMA ClientSendSound ==
  ASSUME TypeOK, Sound, [Next]_vars, ClientSend
  PROVE  Sound'
<1> USE CallIsFixed DEF Sound
<1>1. AgentSound'
  BY DEF AgentSound, ClientSend, agentVars
<1>2. ReplySound'
  BY DEF ReplySound, ClientSound, ClientSend
<1>3. ClientSound'
  BY DEF ReplySound, ClientSound, Refusal, Verdict, TruthfulAnswer,
           FailedDialIsSeen, ClientSend, Finish, agentVars
<1>4. QED
  BY <1>1, <1>2, <1>3

\* The answer arrives while the link works, so it is the verdict.
LEMMA ClientReceiveSound ==
  ASSUME TypeOK, Sound, [Next]_vars, ClientReceive
  PROVE  Sound'
<1> USE CallIsFixed DEF Sound
<1>1. AgentSound'
  BY DEF AgentSound, ClientReceive, agentVars
<1>2. ReplySound'
  BY DEF ReplySound, Refusal, ClientReceive
<1>3. ClientSound'
  BY DEF ReplySound, ClientSound, Refusal, TruthfulAnswer, FailedDialIsSeen,
           ClientReceive, Finish, agentVars
<1>4. QED
  BY <1>1, <1>2, <1>3

\* The client reads the agent's last word.
LEMMA SessionEndsSound ==
  ASSUME TypeOK, Sound, [Next]_vars, SessionEnds
  PROVE  Sound'
<1> USE CallIsFixed DEF Sound
<1>1. AgentSound'
  BY DEF AgentSound, Connect, SessionEnds, agentVars
<1>2. ReplySound'
  BY DEF ReplySound, Connect, SessionEnds, agentVars, wireVars
<1>3. ClientSound'
  BY DEF ReplySound, ClientSound, Opening, TruthfulAnswer, FailedDialIsSeen,
           SessionEnds, agentVars, wireVars
<1>4. QED
  BY <1>1, <1>2, <1>3

\* What is on its way can no longer arrive, and what the reader of a WebSocket
\* makes of that is not the agent's word.
LEMMA LostSound ==
  ASSUME TypeOK, Sound, [Next]_vars, Cut \/ GiveUp
  PROVE  Sound'
<1> USE CallIsFixed DEF Sound
<1>1. /\ link' = FALSE /\ (IF client = "done" THEN UNCHANGED <<client, result>> ELSE Finish("broken"))
      /\ session' = session \/ (session = "open" /\ session' \in {"failed", "cut"})
      /\ UNCHANGED <<call, round, agentVars, inbox, reply, closing>>
  BY DEF Lost, Cut, GiveUp
<1>2. AgentSound'
  BY <1>1 DEF AgentSound, agentVars
<1>3. ReplySound'
  BY <1>1 DEF ReplySound, agentVars
<1>4. ClientSound'
  BY <1>1 DEF ClientSound, TruthfulAnswer, FailedDialIsSeen, Finish, agentVars
<1>5. QED
  BY <1>2, <1>3, <1>4

\* The two checks of the door are those of the verdict, in its order.
LEMMA DoorSound ==
  ASSUME TypeOK, Sound, [Next]_vars, Door
  PROVE  Sound'
<1> USE CallIsFixed DEF Sound
<1>1. AgentSound'
  BY DEF Inside, AgentSound, Door, Refuse
<1>2. ReplySound'
  BY DEF AgentSound, ReplySound, Verdict, Door, Refuse
<1>3. ClientSound'
  BY DEF ClientSound, TruthfulAnswer, FailedDialIsSeen, Door, Refuse,
           clientVars
<1>4. QED
  BY <1>1, <1>2, <1>3

\* Forward has read `open`, so the client has sent it.
LEMMA ForwardSound ==
  ASSUME TypeOK, Sound, [Next]_vars, Forward
  PROVE  Sound'
<1> USE CallIsFixed DEF Sound
<1>1. AgentSound'
  BY NameAssumption DEF TypeOK, AgentSound, Forward, Refuse, Serve
<1>2. ReplySound'
  BY DEF TypeOK, AgentSound, ReplySound, Verdict, Forward, Refuse, Serve
<1>3. ClientSound'
  BY DEF ClientSound, Connect, Opening, TruthfulAnswer, FailedDialIsSeen,
           Forward, clientVars
<1>4. QED
  BY <1>1, <1>2, <1>3

\* The 101 follows the allowlist, which is the verdict of a WebSocket.
LEMMA UpgradeSound ==
  ASSUME TypeOK, Sound, [Next]_vars, Upgrade
  PROVE  Sound'
<1> USE CallIsFixed DEF Sound
<1>1. AgentSound'
  BY NameAssumption DEF TypeOK, AgentSound, Connect, Upgrade, Refuse, Serve
<1>2. ReplySound'
  BY DEF TypeOK, AgentSound, ReplySound, Refusal, Verdict, Connect, Upgrade,
           Refuse
<1>3. ClientSound'
  BY DEF ClientSound, Connect, TruthfulAnswer, FailedDialIsSeen, Upgrade,
           clientVars
<1>4. QED
  BY <1>1, <1>2, <1>3

\* Behind the door a probe over a WebSocket has nothing left to fail.
LEMMA PingUpgradeSound ==
  ASSUME TypeOK, Sound, [Next]_vars, PingUpgrade
  PROVE  Sound'
<1> USE CallIsFixed DEF Sound
<1>1. AgentSound'
  BY DEF TypeOK, AgentSound, PingUpgrade
<1>2. ReplySound'
  BY DEF TypeOK, AgentSound, ReplySound, Refusal, Verdict, PingUpgrade
<1>3. ClientSound'
  BY DEF ClientSound, TruthfulAnswer, FailedDialIsSeen, PingUpgrade,
           clientVars
<1>4. QED
  BY <1>1, <1>2, <1>3

\* Nor has one over Connect.
LEMMA PingSound ==
  ASSUME TypeOK, Sound, [Next]_vars, Ping
  PROVE  Sound'
<1> USE CallIsFixed DEF Sound
<1>1. AgentSound'
  BY DEF AgentSound, Ping, agentVars
<1>2. ReplySound'
  BY DEF TypeOK, AgentSound, ReplySound, Refusal, Verdict, Ping
<1>3. ClientSound'
  BY DEF ClientSound, TruthfulAnswer, FailedDialIsSeen, Ping, clientVars
<1>4. QED
  BY <1>1, <1>2, <1>3

\* The dial succeeds only for a name that is up.
LEMMA DialUpstreamSound ==
  ASSUME TypeOK, Sound, [Next]_vars, DialUpstream
  PROVE  Sound'
<1> USE CallIsFixed DEF Sound
<1>1. AgentSound'
  BY DEF TypeOK, AgentSound, Opening, DialUpstream
<1>2. ReplySound'
  BY DEF TypeOK, AgentSound, ReplySound, Verdict, Connect, DialUpstream
<1>3. ClientSound'
  BY DEF ClientSound, Connect, TruthfulAnswer, FailedDialIsSeen, DialUpstream,
           clientVars
<1>4. QED
  BY <1>1, <1>2, <1>3

\* `opened` follows the dial; a handler that cannot send it lets go.
LEMMA AckSound ==
  ASSUME TypeOK, Sound, [Next]_vars, Ack
  PROVE  Sound'
<1> USE CallIsFixed DEF Sound
<1>1. AgentSound'
  BY DEF TypeOK, AgentSound, Ack
<1>2. ReplySound'
  BY DEF TypeOK, AgentSound, ReplySound, Refusal, Verdict, Ack
<1>3. ClientSound'
  BY DEF ClientSound, TruthfulAnswer, FailedDialIsSeen, Ack, clientVars
<1>4. QED
  BY <1>1, <1>2, <1>3

\* A handler that returns has let go of the endpoint.
LEMMA HandlerReturnsSound ==
  ASSUME TypeOK, Sound, [Next]_vars, HandlerReturns
  PROVE  Sound'
<1> USE CallIsFixed DEF Sound
<1>1. AgentSound'
  BY DEF TypeOK, AgentSound, HandlerReturns
<1>2. ReplySound'
  BY DEF AgentSound, ReplySound, HandlerReturns
<1>3. ClientSound'
  BY DEF ClientSound, TruthfulAnswer, FailedDialIsSeen, HandlerReturns,
           clientVars
<1>4. QED
  BY <1>1, <1>2, <1>3

\* Nothing has been asked, checked or sent at the start.
LEMMA IInvInit == Init => IInv
<1> SUFFICES ASSUME Init PROVE IInv
  OBVIOUS
<1>1. Switches
  BY Zenon DEF Init, Switches
<1>2. TypeOK
  BY <1>1 DEF Init, TypeOK, Calls, Reply, Rounds
<1>3. Sound
  BY DEF Init, Sound, AgentSound, ReplySound, ClientSound, TruthfulAnswer,
           FailedDialIsSeen, Inside, Refusal
<1>4. QED
  BY <1>2, <1>3 DEF IInv

\* Every step of the client, the agent and the link keeps the invariant.
LEMMA IInvStep == IInv /\ [Next]_vars => IInv'
<1> SUFFICES ASSUME TypeOK, Sound, [Next]_vars PROVE Sound'
  BY TypeStep DEF IInv
<1>1. CASE Client
  BY <1>1, DialSound, ClientSendSound, ClientReceiveSound, SessionEndsSound
           DEF Client
<1>2. CASE Agent
  BY <1>2, DoorSound, ForwardSound, UpgradeSound, PingUpgradeSound, PingSound,
           DialUpstreamSound, AckSound, HandlerReturnsSound DEF Agent
<1>3. CASE Cut \/ GiveUp
  BY <1>3, LostSound
<1>4. CASE UNCHANGED vars
  BY <1>4, CallIsFixed DEF vars, clientVars, agentVars, wireVars, Sound,
           AgentSound, ReplySound, ClientSound, TruthfulAnswer,
           FailedDialIsSeen
<1>5. QED
  BY <1>1, <1>2, <1>3, <1>4 DEF Next

\* The invariant holds throughout a call.
THEOREM InvariantHolds == Spec => []IInv
<1>1. QED
  BY IInvInit, IInvStep, PTL DEF Spec

\* The client is told exactly what stood in its way, or that the connection
\* broke; only a refusal at the door that overtakes `open` is reported as EOF.
THEOREM Answers == Spec => []TruthfulAnswer
<1>1. IInv => TruthfulAnswer
  BY DEF IInv, Sound, ClientSound
<1>2. QED
  BY <1>1, InvariantHolds, PTL

\* Open returns a tunnel over Connect only when the token was right, the name
\* allowed, and its endpoint connected.
THEOREM OpenConnects == Spec => []OpenMeansConnected
<1>1. IInv => OpenMeansConnected
  BY DEF IInv, OpenMeansConnected, Sound, ClientSound, AgentSound,
           TruthfulAnswer, Verdict
<1>2. QED
  BY <1>1, InvariantHolds, PTL

\* The agent never ends a WebSocket whose endpoint could not be dialled with the
\* close frame of a session that was served.
THEOREM FailedDials == Spec => []FailedDialIsSeen
<1>1. IInv => FailedDialIsSeen
  BY DEF IInv, Sound, ClientSound
<1>2. QED
  BY <1>1, InvariantHolds, PTL

\* A handler that has ended, however it ended, holds no connection upstream.
THEOREM NoLeak == Spec => []NoUpstreamLeak
<1>1. IInv => NoUpstreamLeak
  BY DEF IInv, NoUpstreamLeak, Sound, AgentSound
<1>2. QED
  BY <1>1, InvariantHolds, PTL

\* A check succeeds only with a certificate, a token and a path that would do
\* for Open as well.
THEOREM HonestChecks == Spec => []CheckIsHonest
<1>1. IInv => CheckIsHonest
  BY DEF IInv, CheckIsHonest, Sound, ClientSound, TruthfulAnswer, Verdict
<1>2. QED
  BY <1>1, InvariantHolds, PTL
=============================================================================
