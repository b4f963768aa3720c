------------------------------- MODULE Tunnel -------------------------------
(***************************************************************************)
(* One tunnelled TCP connection, end to end.                               *)
(*                                                                         *)
(*   local app --sock.up--> clientUp ==wire.up==> agentUp --out.up--> service *)
(*   local app <-out.down-- clientDown <=wire.down= agentDown <-sock.down-- service *)
(*                                                                         *)
(* The four io.Copy loops are the goroutines of client.Proxy or of         *)
(* client.splice on one side, and of Service.handleTCP on the other.  Each *)
(* loop holds at most one chunk between its Read and its Write.  The wire  *)
(* is a Connect stream over HTTP/2 or a WebSocket; the tunnel is open      *)
(* (OpenProtocol models how it gets there).  Payload is the number of the  *)
(* chunk, so a lost, duplicated or reordered chunk shows.                  *)
(***************************************************************************)
EXTENDS Naturals, Sequences

CONSTANTS
    Transport,  \* "connect" or "ws"
    Mode,       \* "splice" (client connect) or "proxy" (ssh ProxyCommand)
    Cap,        \* chunks a socket buffer or a flow-control window holds
    MaxUp,      \* bound: chunks the local app writes
    MaxDown,    \* bound: chunks the service writes
    CanFail     \* whether the network may cut the link

ASSUME TransportAssumption == Transport \in {"connect", "ws"}
ASSUME ModeAssumption == Mode \in {"splice", "proxy"}
ASSUME BoundAssumption == Cap \in Nat \ {0} /\ MaxUp \in Nat /\ MaxDown \in Nat
ASSUME CanFailAssumption == CanFail \in BOOLEAN

Dir == {"up", "down"}
Loop == {"clientUp", "agentUp", "agentDown", "clientDown"}
First == [up |-> "clientUp", down |-> "agentDown"]
Second == [up |-> "agentUp", down |-> "clientDown"]
Opp == [up |-> "down", down |-> "up"]
MaxSent == [up |-> MaxUp, down |-> MaxDown]

VARIABLES
    \* the two applications; app d is the one that writes direction d
    sent,    \* sent[d]: chunks app d has written so far
    shut,    \* shut[d]: app d has ended its writing side
    gone,    \* gone[d]: "no", "closed", or "reset" once its socket answers RST
    got,     \* got[d]: the chunks the receiver of d has read
    \* the sockets between applications and loops
    sock,    \* sock[d]: written by app d, not yet read by First[d]
    out,     \* out[d]: written by Second[d], not yet read by the app
    fin,     \* fin[d]: "open", "fin" or "reset": what follows out[d]
    \* the loops
    pc,      \* "copy", then "ended" (io.Copy returned), then "done"
    hold,    \* the chunk between a loop's Read and its Write, at most one
    err,     \* io.Copy returned an error
    client,  \* "open", then "closed": the tunnel and the local socket are
    agent,   \* "open", "returning" (tcp closed), "returned"
    \* the wire
    wire,    \* wire[d]: on its way to Second[d]
    mark,    \* mark[d]: followed by the end of the stream
    link,    \* the connection that carries both directions is there
    bare     \* the directions in which it ended with a FIN and no close frame

appVars == <<sent, shut, gone, got>>
sockVars == <<sock, out, fin>>
loopVars == <<pc, hold, err>>
wireVars == <<wire, mark, link, bare>>
vars == <<appVars, sockVars, loopVars, client, agent, wireVars>>

-----------------------------------------------------------------------------
\* A proxy reads stdin and writes stdout: pipes, which have no RST to drop
\* what the writer left unread.
IsPipe(d) == Mode = "proxy" /\ d = "up"
Torn(d) == gone[d] = "reset" /\ ~IsPipe(d)

\* Who still holds the socket that app d writes to.
Attached(d) == IF d = "up" THEN client = "open" ELSE agent = "open"

\* variant: one chunk too many
HasRoomOffByOne(d) == Len(wire[d]) <= Cap
HasRoom(d) == Len(wire[d]) < Cap

\* The end of direction d, once it is on the wire.  On Connect it is
\* END_STREAM, which flow control does not hold back; on WebSocket it is one
\* more frame behind the data.
CanMark(d) == Transport = "ws" => HasRoom(d)

\* The connection goes.  A reader in S finds a bare FIN behind what was sent to
\* it, unless it has stopped or the end of its stream was sent before; any
\* other finds an error at once.
DropLink(S) ==
    /\ link' = FALSE
    /\ bare' = {d \in S : pc[Second[d]] = "copy" /\ ~mark[d]}
    /\ wire' = [d \in Dir |-> IF d \in bare' THEN wire[d] ELSE <<>>]
    /\ mark' = [d \in Dir |-> FALSE]

Init ==
    /\ sent = [d \in Dir |-> 0]
    /\ shut = [d \in Dir |-> FALSE]
    /\ gone = [d \in Dir |-> "no"]
    /\ got = [d \in Dir |-> <<>>]
    /\ sock = [d \in Dir |-> <<>>]
    /\ out = [d \in Dir |-> <<>>]
    /\ fin = [d \in Dir |-> "open"]
    /\ pc = [l \in Loop |-> "copy"]
    /\ hold = [l \in Loop |-> <<>>]
    /\ err = [l \in Loop |-> FALSE]
    /\ client = "open"
    /\ agent = "open"
    /\ wire = [d \in Dir |-> <<>>]
    /\ mark = [d \in Dir |-> FALSE]
    /\ link = TRUE
    /\ bare = {}

-----------------------------------------------------------------------------
(* The applications: outside the program, and free to do anything. *)

AppWrite(d) ==
    /\ gone[d] = "no" /\ ~shut[d] /\ Attached(d)
    /\ sent[d] < MaxSent[d] /\ Len(sock[d]) < Cap
    /\ sent' = [sent EXCEPT ![d] = @ + 1]
    /\ sock' = [sock EXCEPT ![d] = Append(@, sent[d] + 1)]
    /\ UNCHANGED <<shut, gone, got, out, fin, loopVars, client, agent, wireVars>>

AppShut(d) ==
    /\ gone[d] = "no" /\ ~shut[d]
    /\ shut' = [shut EXCEPT ![d] = TRUE]
    /\ UNCHANGED <<sent, gone, got, sockVars, loopVars, client, agent, wireVars>>

AppRead(d) ==
    /\ gone[Opp[d]] = "no" /\ out[d] # <<>>
    /\ got' = [got EXCEPT ![d] = Append(@, Head(out[d]))]
    /\ out' = [out EXCEPT ![d] = Tail(@)]
    /\ UNCHANGED <<sent, shut, gone, sock, fin, loopVars, client, agent, wireVars>>

\* Closing a socket with unread data resets it, and the peer loses what it
\* had not read; writing to a closed pipe fails at once.
AppClose(d) ==
    LET reset == out[Opp[d]] # <<>>
    IN  /\ gone[d] = "no"
        /\ gone' = [gone EXCEPT ![d] = IF reset \/ IsPipe(d) THEN "reset" ELSE "closed"]
        /\ shut' = [shut EXCEPT ![d] = TRUE]
        /\ sock' = [sock EXCEPT ![d] = IF reset /\ ~IsPipe(d) THEN <<>> ELSE @]
        /\ UNCHANGED <<sent, got, out, fin, loopVars, client, agent, wireVars>>

-----------------------------------------------------------------------------
(* A loop that fills the wire: clientUp and agentDown. *)

CopyIn(d) ==
    LET l == First[d]
    IN  /\ pc[l] = "copy" /\ hold[l] = <<>> /\ Attached(d)
        /\ sock[d] # <<>>
        /\ hold' = [hold EXCEPT ![l] = <<Head(sock[d])>>]
        /\ sock' = [sock EXCEPT ![d] = Tail(@)]
        /\ UNCHANGED <<appVars, out, fin, pc, err, client, agent, wireVars>>

\* variant: a write that would block drops the chunk
SendOrDrop(d) ==
    LET l == First[d]
    IN  /\ pc[l] = "copy" /\ hold[l] # <<>> /\ Attached(d) /\ link
        /\ wire' = IF HasRoom(d) THEN [wire EXCEPT ![d] = Append(@, Head(hold[l]))] ELSE wire
        /\ hold' = [hold EXCEPT ![l] = <<>>]
        /\ UNCHANGED <<appVars, sockVars, pc, err, client, agent, mark, link, bare>>

Send(d) ==
    LET l == First[d]
    IN  /\ pc[l] = "copy" /\ hold[l] # <<>> /\ Attached(d)
        /\ link /\ HasRoom(d)
        /\ wire' = [wire EXCEPT ![d] = Append(@, Head(hold[l]))]
        /\ hold' = [hold EXCEPT ![l] = <<>>]
        /\ UNCHANGED <<appVars, sockVars, pc, err, client, agent, mark, link, bare>>

\* A write to the tunnel fails once the link is cut or, upstream, once the
\* agent's handler has returned: its return ends the stream both ways.
SendFails(d) == ~link \/ (d = "up" /\ agent = "returned")

\* variant: a failed write counts as an end of input
CopyEndSwallowsError(d) ==
    LET l == First[d]
    IN  /\ pc[l] = "copy" /\ Attached(d)
        /\ \/ hold[l] = <<>> /\ sock[d] = <<>> /\ shut[d]
           \/ hold[l] # <<>> /\ SendFails(d)
        /\ err' = [err EXCEPT ![l] = FALSE]
        /\ pc' = [pc EXCEPT ![l] = "ended"]
        /\ hold' = [hold EXCEPT ![l] = <<>>]
        /\ UNCHANGED <<appVars, sockVars, client, agent, wireVars>>

CopyEnd(d) ==
    LET l == First[d]
    IN  /\ pc[l] = "copy" /\ Attached(d)
        /\ \/ /\ hold[l] = <<>> /\ sock[d] = <<>> /\ shut[d]
              /\ err' = [err EXCEPT ![l] = Torn(d)]
           \/ /\ hold[l] # <<>> /\ SendFails(d)
              /\ err' = [err EXCEPT ![l] = TRUE]
        /\ pc' = [pc EXCEPT ![l] = "ended"]
        /\ hold' = [hold EXCEPT ![l] = <<>>]
        /\ UNCHANGED <<appVars, sockVars, client, agent, wireVars>>

-----------------------------------------------------------------------------
(* A loop that drains the wire: agentUp and clientDown. *)

\* The agent's side of a stream is unusable once its handler has returned.
Readable(d) == d = "up" => agent = "open"

Receive(d) ==
    LET l == Second[d]
    IN  /\ pc[l] = "copy" /\ hold[l] = <<>> /\ Readable(d)
        /\ wire[d] # <<>>
        /\ hold' = [hold EXCEPT ![l] = <<Head(wire[d])>>]
        /\ wire' = [wire EXCEPT ![d] = Tail(@)]
        /\ UNCHANGED <<appVars, sockVars, pc, err, client, agent, mark, link, bare>>

\* The kernel refuses a write to a socket that has been shut or reset.
WriteFails(d) == fin[d] # "open" \/ gone[Opp[d]] = "reset"

\* The kernel accepts one write to an application that has closed, answers it
\* with RST and drops what the application had sent.
Deliver(d) ==
    LET l == Second[d]
        a == Opp[d]
    IN  /\ pc[l] = "copy" /\ hold[l] # <<>>
        /\ ~WriteFails(d) /\ Len(out[d]) < Cap
        /\ IF gone[a] = "no"
           THEN /\ out' = [out EXCEPT ![d] = Append(@, Head(hold[l]))]
                /\ UNCHANGED <<gone, sock>>
           ELSE /\ gone' = [gone EXCEPT ![a] = "reset"]
                /\ sock' = [sock EXCEPT ![a] = <<>>]
                /\ UNCHANGED out
        /\ hold' = [hold EXCEPT ![l] = <<>>]
        /\ UNCHANGED <<sent, shut, got, fin, pc, err, client, agent, wireVars>>

\* The end of the stream as the peer sends it: END_STREAM, a close-write
\* frame, or a close frame that normalizeClose turns into io.EOF.
AtEOF(d) == wire[d] = <<>> /\ mark[d]

\* A WebSocket whose TCP connection ends without a close frame fails with an
\* error that wraps io.EOF.
BareFin(d) == ~link /\ wire[d] = <<>> /\ d \in bare

\* variant: any read that fails counts as an end of input
EveryFailureIsEOF(d) == AtEOF(d) \/ (~link /\ wire[d] = <<>>)

\* normalize makes one io.EOF of all that wraps it: io.Copy cannot tell a
\* stream that was ended from a WebSocket that was cut.
ReadsEOF(d) == AtEOF(d) \/ BareFin(d)

ReadFails(d) == ~Readable(d) \/ (~link /\ wire[d] = <<>> /\ ~ReadsEOF(d))

\* io.Copy returns nil behind io.EOF and an error behind any other.  On a
\* WebSocket the agent's end of stream is the close frame: reading it closes
\* the connection under the other direction too.
RecvEnd(d) ==
    LET l == Second[d]
        eof == hold[l] = <<>> /\ Readable(d) /\ ReadsEOF(d)
    IN  /\ pc[l] = "copy"
        /\ \/ eof
           \/ hold[l] = <<>> /\ ReadFails(d)
           \/ hold[l] # <<>> /\ WriteFails(d)
        /\ err' = [err EXCEPT ![l] = ~eof]
        /\ pc' = [pc EXCEPT ![l] = "ended"]
        /\ hold' = [hold EXCEPT ![l] = <<>>]
        /\ IF eof /\ link /\ d = "down" /\ Transport = "ws"
           THEN DropLink({}) ELSE UNCHANGED wireVars
        /\ UNCHANGED <<appVars, sockVars, client, agent>>

-----------------------------------------------------------------------------
(* What each loop does after its io.Copy, and how the two sides end. *)

\* variant: the shutdown of the local app is swallowed
ClientNoCloseWrite ==
    /\ pc["clientUp"] = "ended" /\ client = "open"
    /\ pc' = [pc EXCEPT !["clientUp"] = "done"]
    /\ UNCHANGED <<appVars, sockVars, hold, err, client, agent, wireVars>>

\* The end of clientUp sends the half-close, whatever made it end.
ClientCloseWrite ==
    /\ pc["clientUp"] = "ended" /\ client = "open"
    /\ \/ ~link /\ UNCHANGED mark
       \/ link /\ CanMark("up") /\ mark' = [mark EXCEPT !["up"] = TRUE]
    /\ pc' = [pc EXCEPT !["clientUp"] = "done"]
    /\ UNCHANGED <<appVars, sockVars, hold, err, client, agent, wire, link, bare>>

\* variant: the FIN is forwarded only when the copy was clean
AgentCloseWriteIfClean ==
    /\ pc["agentUp"] = "ended"
    /\ pc' = [pc EXCEPT !["agentUp"] = "done"]
    /\ fin' = [fin EXCEPT !["up"] = IF @ = "open" /\ ~err["agentUp"] THEN "fin" ELSE @]
    /\ UNCHANGED <<appVars, sock, out, hold, err, client, agent, wireVars>>

\* agentUp forwards the FIN to the service; the io.Copy error is discarded.
AgentCloseWrite ==
    /\ pc["agentUp"] = "ended"
    /\ pc' = [pc EXCEPT !["agentUp"] = "done"]
    /\ fin' = [fin EXCEPT !["up"] = IF @ = "open" THEN "fin" ELSE @]
    /\ UNCHANGED <<appVars, sock, out, hold, err, client, agent, wireVars>>

\* variants: the FIN is forwarded whatever ended the copy, or never
ClientHalfCloseAlways ==
    /\ pc["clientDown"] = "ended"
    /\ pc' = [pc EXCEPT !["clientDown"] = "done"]
    /\ fin' = [fin EXCEPT !["down"] = IF Mode = "splice" THEN "fin" ELSE @]
    /\ UNCHANGED <<appVars, sock, out, hold, err, client, agent, wireVars>>

ClientNoHalfClose ==
    /\ pc["clientDown"] = "ended"
    /\ pc' = [pc EXCEPT !["clientDown"] = "done"]
    /\ UNCHANGED <<appVars, sockVars, hold, err, client, agent, wireVars>>

\* splice forwards the FIN to the local app only if the copy was clean.
ClientHalfClose ==
    /\ pc["clientDown"] = "ended"
    /\ pc' = [pc EXCEPT !["clientDown"] = "done"]
    /\ fin' = [fin EXCEPT !["down"] =
                 IF Mode = "splice" /\ ~err["clientDown"] THEN "fin" ELSE @]
    /\ UNCHANGED <<appVars, sock, out, hold, err, client, agent, wireVars>>

\* Closing a TCP socket sends FIN, or RST when it holds unread bytes.
Closed(d) == IF sock[Opp[d]] # <<>> /\ ~IsPipe(Opp[d]) THEN "reset"
             ELSE IF fin[d] = "open" THEN "fin" ELSE fin[d]

\* variant: Proxy waits for its upstream loop too
ClientCloseAfterBoth ==
    /\ client = "open" /\ pc["clientDown"] = "done" /\ pc["clientUp"] = "done"
    /\ client' = "closed"
    /\ fin' = [fin EXCEPT !["down"] = Closed("down")]
    /\ UNCHANGED <<appVars, sock, out, loopVars, agent, wireVars>>

\* splice waits for both loops; Proxy returns with the downstream one and
\* ends the process.  Conn.Close half-closes first; a link that is gone, or a
\* WebSocket that cannot take the frame, makes that fail or wait.
ClientClose ==
    /\ client = "open" /\ pc["clientDown"] = "done"
    /\ Mode = "splice" => pc["clientUp"] = "done"
    /\ \/ (~link \/ mark["up"]) /\ UNCHANGED mark
       \/ link /\ CanMark("up") /\ mark' = [mark EXCEPT !["up"] = TRUE]
    /\ client' = "closed"
    /\ fin' = [fin EXCEPT !["down"] = Closed("down")]
    /\ UNCHANGED <<appVars, sock, out, loopVars, agent, wire, link, bare>>

\* Conn.Close releases the socket of a WebSocket, behind the half-close; on
\* Connect, CloseRequest is all that splice's Close does.
HangUp ==
    /\ client = "closed" /\ link /\ Transport = "ws"
    /\ DropLink({})
    /\ UNCHANGED <<appVars, sockVars, loopVars, client, agent>>

\* variant: a client that has closed keeps its connection
NeverExits == FALSE /\ UNCHANGED vars

\* The process of a ProxyCommand ends with Proxy, and its connection with it.
\* (That of a WebSocket has hung up by then.)
ProxyExits ==
    /\ client = "closed" /\ link /\ Transport = "connect" /\ Mode = "proxy"
    /\ DropLink({})
    /\ UNCHANGED <<appVars, sockVars, loopVars, client, agent>>

\* handleTCP returns with the downstream copy, closing its socket.
AgentReturn ==
    /\ pc["agentDown"] = "ended"
    /\ pc' = [pc EXCEPT !["agentDown"] = "done"]
    /\ agent' = "returning"
    /\ fin' = [fin EXCEPT !["up"] = Closed("up")]
    /\ UNCHANGED <<appVars, sock, out, hold, err, client, wireVars>>

\* The handler's return ends the response stream (END_STREAM, or wsHandler's
\* close frame), cleanly even when the downstream copy failed.
EndResponse ==
    /\ agent = "returning"
    /\ \/ ~link /\ UNCHANGED mark
       \/ link /\ CanMark("down") /\ mark' = [mark EXCEPT !["down"] = TRUE]
    /\ agent' = "returned"
    /\ UNCHANGED <<appVars, sockVars, loopVars, client, wire, link, bare>>

-----------------------------------------------------------------------------
(* The link. *)

\* Pings are answered and pongs taken by whoever reads the WebSocket, so one
\* end whose reader has stopped, or is stuck writing what it read, lets the
\* pings of both ends time out.
NoReader(d) ==
    LET l == Second[d]
    IN  pc[l] # "copy" \/ (hold[l] # <<>> /\ ~WriteFails(d) /\ Len(out[d]) = Cap)

\* Either end's Keepalive may be the first to close the connection; its own
\* reader fails, the other's finds a FIN or, over unread bytes, an RST.  (The 5s
\* limit of the close handshake does the same to a reader that is stuck.)
KeepaliveKill ==
    /\ Transport = "ws" /\ link
    /\ NoReader("down") \/ (agent = "open" /\ NoReader("up"))
    /\ \E S \in {{}, {"up"}, {"down"}} : DropLink(S)
    /\ UNCHANGED <<appVars, sockVars, loopVars, client, agent>>

\* A cut that both ends come to notice, at any moment: an RST, or, as when the
\* other process or a proxy between them is killed, a FIN.  An HTTP/2 stream
\* that loses its connection fails in either case.
LinkLost ==
    /\ CanFail /\ link
    /\ \E S \in SUBSET (IF Transport = "ws" THEN Dir ELSE {}) : DropLink(S)
    /\ UNCHANGED <<appVars, sockVars, loopVars, client, agent>>

-----------------------------------------------------------------------------
App(d) == AppWrite(d) \/ AppShut(d) \/ AppRead(d) \/ AppClose(d)
Copy(d) == CopyIn(d) \/ Send(d) \/ CopyEnd(d) \/ Receive(d) \/ Deliver(d) \/ RecvEnd(d)
Finish == \/ ClientCloseWrite \/ AgentCloseWrite \/ ClientHalfClose
          \/ ClientClose \/ HangUp \/ ProxyExits \/ AgentReturn \/ EndResponse

Next ==
    \/ \E d \in Dir : App(d) \/ Copy(d)
    \/ Finish
    \/ KeepaliveKill
    \/ LinkLost

Spec == Init /\ [][Next]_vars

\* The goroutines run, and a timer that keeps expiring fires.
LoopFairness ==
    /\ \A d \in Dir :
        /\ WF_vars(CopyIn(d) \/ Send(d) \/ CopyEnd(d))
        /\ WF_vars(Receive(d) \/ Deliver(d) \/ RecvEnd(d))
    /\ WF_vars(ClientCloseWrite) /\ WF_vars(AgentCloseWrite)
    /\ WF_vars(ClientHalfClose) /\ WF_vars(ClientClose)
    /\ WF_vars(HangUp) /\ WF_vars(ProxyExits)
    /\ WF_vars(AgentReturn) /\ WF_vars(EndResponse)
    /\ WF_vars(KeepaliveKill)

FairSpec == Spec /\ LoopFairness

-----------------------------------------------------------------------------
(* Properties. *)

\* s carries the chunks that follow chunk n.
Run(s, n) == \A i \in 1 .. Len(s) : s[i] = n + i

\* What has reached the far application or its socket.
Arrived(d) == Len(got[d]) + Len(out[d])

\* Every variable has its type and no buffer exceeds its bound (io.Copy never
\* holds more than the one chunk it has read).
Typed ==
    /\ sent \in [Dir -> Nat]
    /\ shut \in [Dir -> BOOLEAN]
    /\ gone \in [Dir -> {"no", "closed", "reset"}]
    /\ got \in [Dir -> Seq(Nat)]
    /\ sock \in [Dir -> Seq(Nat)]
    /\ out \in [Dir -> Seq(Nat)]
    /\ fin \in [Dir -> {"open", "fin", "reset"}]
    /\ pc \in [Loop -> {"copy", "ended", "done"}]
    /\ hold \in [Loop -> Seq(Nat)]
    /\ err \in [Loop -> BOOLEAN]
    /\ client \in {"open", "closed"}
    /\ agent \in {"open", "returning", "returned"}
    /\ wire \in [Dir -> Seq(Nat)]
    /\ mark \in [Dir -> BOOLEAN]
    /\ link \in BOOLEAN
    /\ bare \subseteq Dir

Bounded ==
    /\ \A d \in Dir : /\ sent[d] <= MaxSent[d]
                      /\ Len(sock[d]) <= Cap /\ Len(wire[d]) <= Cap /\ Len(out[d]) <= Cap
    /\ \A l \in Loop : Len(hold[l]) <= 1

TypeOK == Typed /\ Bounded

\* Whatever fails and whenever, what an application gets is an unbroken prefix
\* of what the other one wrote: after a chunk is lost in a cut, a failed write
\* or a closed socket, nothing later may arrive.
InOrder ==
    \A d \in Dir : /\ Run(got[d], 0) /\ Run(out[d], Len(got[d]))
                   /\ Arrived(d) <= sent[d]

\* When both io.Copy calls of a direction have returned nil, the sender had
\* ended its stream and all of it has arrived.  (Not if the receiving
\* application closed: the kernel takes one more write for it.  Nor if the
\* second copy ended at a bare FIN, which only a WebSocket can do.)
CleanCopyIsComplete ==
    \A d \in Dir \ bare :
        /\ \A l \in {First[d], Second[d]} : pc[l] # "copy" /\ ~err[l]
        /\ gone[Opp[d]] = "no"
        => shut[d] /\ Arrived(d) = sent[d]

\* The local application is sent an end of input before both loops of splice
\* are done.
HalfClosed == fin["down"] = "fin" /\ client = "open"

\* The service's whole stream has been written to the local application.
DownloadWhole == shut["down"] /\ Arrived("down") = sent["down"]

\* splice half-closes the local socket only behind the service's whole stream
\* or a bare FIN: no other cut, and no copy that failed, looks like an end of
\* input.  (The agent turns a failed read of the service into a clean end of
\* stream, which is why err["agentDown"] is excepted.)
FinIsFaithful ==
    HalfClosed /\ ~err["agentDown"] /\ gone["up"] = "no" /\ "down" \notin bare
        => DownloadWhole

\* The same without the exception: a connection that Keepalive, a killed agent
\* or a proxy has cut surfaces as an error and not as the end of the download.
CutIsNotAnEnd ==
    HalfClosed /\ ~err["agentDown"] /\ gone["up"] = "no" => DownloadWhole

\* A client application that shuts its writing side, or goes away, is seen by
\* the service, which is what splice and handleTCP half-close for.
HalfCloseCrosses == shut["up"] ~> fin["up"] # "open"

\* The service's end of stream reaches the local app, with all the service had
\* sent, unless the local app goes first, the service resets its socket or the
\* link is cut.
DownloadCompletes ==
    shut["down"] ~> \/ gone["up"] # "no" \/ ~link
                    \/ /\ fin["down"] # "open"
                       /\ gone["down"] # "reset" => got["down"] = [i \in 1 .. sent["down"] |-> i]

\* When the local app has gone, both sides let go of the tunnel.
SessionEnds == gone["up"] # "no" ~> (client = "closed" /\ agent = "returned")

\* When the link is cut, the client lets go of the tunnel, so that the user's
\* ssh or TCP client sees the session end.
CutEndsClient == ~link ~> client = "closed"

\* When the link is cut, the agent lets go of the service.
CutEndsAgent == ~link ~> agent = "returned"

\* Once the client side has closed the tunnel, the agent is not left waiting
\* to send: its handler gets on, and ends when the service does.
CloseReleases ==
    client = "closed" /\ hold["agentDown"] # <<>> ~> hold["agentDown"] = <<>>

\* A tunnel implements a pair of pipes.  The end of either side's process or
\* handler may cut what still comes to it and what it was still sending: of
\* the agent's handler after its downstream copy, and of Proxy after its own.
\* A WebSocket that is lost without a close frame breaks what it carried,
\* although both copies may then return nil.
Pipe == INSTANCE DuplexPipe WITH
    arrived <- [d \in Dir |-> got[d] \o out[d]],
    ended <- fin,
    broken <- [d \in Dir |->
        \/ err[First[d]] \/ err[Second[d]] \/ d \in bare \/ gone[Opp[d]] # "no"
        \/ d = "down" /\ client # "open"
        \/ d = "up" /\ (agent # "open" \/ (Mode = "proxy" /\ pc["clientDown"] = "done"))]

\* Under every cut and failure the applications see what DuplexPipe allows:
\* InOrder and the meaning of a clean end of input, as steps of the pipe.
ImplementsPipe == Pipe!Spec

\* No byte is lost while no fault has happened and both applications stay.
NoLossWithoutFault ==
    \A d \in Dir :
        /\ pc[First[d]] # "copy" /\ pc[Second[d]] # "copy"
        /\ gone["up"] = "no" /\ gone["down"] = "no"
        => Arrived(d) = sent[d]

\* While a tunnel is open at both ends, a loop reads it at both ends.
HasReader ==
    Transport = "ws" /\ link /\ client = "open" /\ agent = "open"
        => pc["clientDown"] = "copy" /\ pc["agentUp"] = "copy"
=============================================================================
