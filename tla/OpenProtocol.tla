---------------------------- MODULE OpenProtocol ----------------------------
(***************************************************************************)
(* How a tunnel is opened, and how `san_tunnels check` probes the way.     *)
(*                                                                         *)
(*   client -- certificate -- proxy? -- HTTP/2? -- token -- name -- dial   *)
(*                                                                         *)
(* One call of client.Open or client.Check against one agent, over Connect *)
(* or a WebSocket: the checks it passes in turn, the answer that comes     *)
(* back, and the client that gives up, or the link that breaks, meanwhile. *)
(* What the agent then serves is Tunnel.                                   *)
(***************************************************************************)
EXTENDS Naturals

CONSTANTS
    Name,     \* the endpoint names a client may ask for, "@shell" among them
    Allowed,  \* those on the agent's allowlist
    Up        \* those whose address accepts a connection

ASSUME NameAssumption == "@shell" \in Allowed \cap Up /\ Allowed \subseteq Name

\* A path either carries HTTP/2 to the agent, or has a proxy that talks
\* HTTP/1.1 to it: one that passes a request on as it comes, or one that first
\* waits for the end of its body.  An upgrade gets through all of them.
Path == {"direct", "downgrades", "buffers"}
Refusal == {"proto", "token", "notfound", "unavailable"}
Rounds == 2

VARIABLES
    call,      \* what is asked, of whom and over what: fixed
    client,    \* "dial", "send", "wait" or "done"
    result,    \* of Open or Check
    round,     \* Check: the ping it is at
    session,   \* of a WebSocket: "none", "open", or what ended it: the agent's
               \* close frame, "clean" or "failed"; or the loss of the connection,
               \* "failed", or "cut" if its reader took it for an end of input
    agent,     \* "none", "door", "handler", "dial", "ack", "serve", "ended"
    upstream,  \* the agent holds a connection to the endpoint
    inbox,     \* client messages the agent has not read
    reply,     \* what is on its way to the client, or "none"
    closing,   \* the agent's last word on a WebSocket: "none", "clean", "failed"
    link       \* the connection works and the client has not given up

clientVars == <<client, result, round, session>>
agentVars == <<agent, upstream>>
wireVars == <<inbox, reply, closing, link>>
vars == <<call, clientVars, agentVars, wireVars>>

Connect == call.transport = "connect"
Opening == call.op = "open"

Init ==
    /\ call \in [transport : {"connect", "ws"}, op : {"open", "check"},
                 cert : BOOLEAN, token : BOOLEAN, name : Name, path : Path]
    /\ client = "dial" /\ result = "none" /\ round = 1 /\ session = "none"
    /\ agent = "none" /\ upstream = FALSE
    /\ inbox = 0 /\ reply = "none" /\ closing = "none" /\ link = TRUE

Finish(r) == client' = "done" /\ result' = r

-----------------------------------------------------------------------------
(* The client. *)

\* The certificate is checked in the handshake, before a byte is sent; what
\* the transport makes of the failure is replaced by the verifier's error.
Dial ==
    /\ client = "dial" /\ link
    /\ \/ ~call.cert /\ Finish("pin") /\ UNCHANGED agentVars
       \/ /\ call.cert
          /\ client' = IF Connect THEN "send" ELSE "wait"
          /\ agent' = IF Connect /\ call.path = "buffers" THEN "none" ELSE "door"
          /\ UNCHANGED <<result, upstream>>
    /\ UNCHANGED <<call, round, session, wireVars>>

\* `open`, or a ping.  A refusal that has come back already makes Send fail
\* with EOF, and openConnect and Check return that.
ClientSend ==
    /\ client = "send" /\ link
    /\ \/ inbox' = inbox + 1 /\ client' = "wait" /\ UNCHANGED result
       \/ Connect /\ reply \in Refusal /\ Finish("eof") /\ UNCHANGED inbox
    /\ UNCHANGED <<call, round, session, agentVars, reply, closing, link>>

\* Open returns with `opened` or the 101; Check after its last pong.
ClientReceive ==
    /\ client = "wait" /\ link /\ reply # "none"
    /\ \/ reply \in Refusal /\ Finish(reply) /\ UNCHANGED <<round, session>>
       \/ reply = "opened" /\ Finish("ok") /\ UNCHANGED <<round, session>>
       \/ /\ reply = "101"
          /\ IF Opening THEN Finish("ok") /\ session' = "open"
                        ELSE client' = "send" /\ UNCHANGED <<result, session>>
          /\ UNCHANGED round
       \/ /\ reply = "pong"
          /\ IF round = Rounds THEN Finish("ok") /\ UNCHANGED round
                               ELSE client' = "send" /\ round' = round + 1 /\ UNCHANGED result
          /\ UNCHANGED session
    /\ reply' = "none"
    /\ UNCHANGED <<call, agentVars, inbox, closing, link>>

\* The first read on an open WebSocket whose agent has ended it.
SessionEnds ==
    /\ session = "open" /\ link /\ closing # "none"
    /\ session' = closing
    /\ UNCHANGED <<call, client, result, round, agentVars, wireVars>>

\* The connection is gone, for whatever reason.
Lost(sessions) ==
    /\ link /\ link' = FALSE
    /\ IF client = "done" THEN UNCHANGED <<client, result>> ELSE Finish("broken")
    /\ session' \in (IF session = "open" THEN sessions ELSE {session})
    /\ UNCHANGED <<call, round, agentVars, inbox, reply, closing>>

\* A cut that both ends come to notice.  An RST fails the client's read.  A FIN
\* with no close frame before it (the agent is killed, or its Keepalive or a
\* proxy lets go) is an io.EOF to normalize, like a session that has ended.
Cut == Lost({"failed"} \cup (IF closing = "none" THEN {"cut"} ELSE {}))

\* variant: Check has no timeout
GiveUpOpening == Opening /\ Lost({"failed"})

\* A Ctrl-C or, for Check, its timeout.
GiveUp == Lost({"failed"})

-----------------------------------------------------------------------------
(* The agent. *)

\* The reply of a handler that refuses, which is the end of it.
Refuse(r) ==
    /\ agent' = "ended" /\ reply' = r /\ upstream' = FALSE
    /\ UNCHANGED closing

\* variant: the token check outside the protocol check
DoorTokenFirst ==
    /\ agent = "door"
    /\ IF ~call.token THEN Refuse("token")
       ELSE IF Connect /\ call.path # "direct" THEN Refuse("proto")
       ELSE agent' = "handler" /\ UNCHANGED <<upstream, reply, closing>>
    /\ UNCHANGED <<call, clientVars, inbox, link>>

\* The middleware, before the body is read.  The /ws paths may come over
\* HTTP/1.1; the token guards both doors.
Door ==
    /\ agent = "door"
    /\ IF Connect /\ call.path # "direct" THEN Refuse("proto")
       ELSE IF ~call.token THEN Refuse("token")
       ELSE agent' = "handler" /\ UNCHANGED <<upstream, reply, closing>>
    /\ UNCHANGED <<call, clientVars, inbox, link>>

\* Past Resolve a shell is served as it is and any other name is dialled.
Serve(ack) ==
    agent' = IF call.name # "@shell" THEN "dial" ELSE IF ack THEN "ack" ELSE "serve"

\* variant: the acknowledgement goes out before the dial
ForwardAcksFirst ==
    /\ agent = "handler" /\ Connect /\ Opening /\ inbox > 0
    /\ IF call.name \notin Allowed THEN Refuse("notfound")
       ELSE Serve(FALSE) /\ reply' = "opened" /\ UNCHANGED <<upstream, closing>>
    /\ inbox' = inbox - 1
    /\ UNCHANGED <<call, clientVars, link>>

\* Forward reads `open`, and Handle resolves its name.
Forward ==
    /\ agent = "handler" /\ Connect /\ Opening /\ inbox > 0
    /\ IF call.name \notin Allowed THEN Refuse("notfound")
       ELSE Serve(TRUE) /\ UNCHANGED <<upstream, reply, closing>>
    /\ inbox' = inbox - 1
    /\ UNCHANGED <<call, clientVars, link>>

\* wsHandler resolves the name before it upgrades: the 101 is the answer.
Upgrade ==
    /\ agent = "handler" /\ ~Connect /\ Opening
    /\ IF call.name \notin Allowed THEN Refuse("notfound")
       ELSE Serve(FALSE) /\ reply' = "101" /\ UNCHANGED <<upstream, closing>>
    /\ UNCHANGED <<call, clientVars, inbox, link>>

\* The Ping RPC, and wsPingHandler behind its 101, echo while they can read.
PingUpgrade ==
    /\ agent = "handler" /\ ~Connect /\ ~Opening
    /\ agent' = "serve" /\ reply' = "101"
    /\ UNCHANGED <<call, clientVars, upstream, inbox, closing, link>>

Ping ==
    /\ ~Opening /\ inbox > 0 /\ link
    /\ agent = IF Connect THEN "handler" ELSE "serve"
    /\ inbox' = inbox - 1 /\ reply' = "pong"
    /\ UNCHANGED <<call, clientVars, agentVars, closing, link>>

\* variant: a failed dial ends a WebSocket as a finished session does
DialEndsClean ==
    /\ agent = "dial"
    /\ \/ /\ call.name \in Up
          /\ upstream' = TRUE /\ agent' = IF Connect THEN "ack" ELSE "serve"
          /\ UNCHANGED <<reply, closing>>
       \/ /\ call.name \notin Up \/ (Connect /\ ~link)
          /\ agent' = "ended"
          /\ closing' = IF Connect THEN closing ELSE "clean"
          /\ reply' = IF Connect THEN "unavailable" ELSE reply
          /\ UNCHANGED upstream
    /\ UNCHANGED <<call, clientVars, inbox, link>>

\* handleTCP dials, within dialTimeout.  The context of a Connect handler ends
\* with its client; that of an upgraded connection does not.
DialUpstream ==
    /\ agent = "dial"
    /\ \/ /\ call.name \in Up
          /\ upstream' = TRUE /\ agent' = IF Connect THEN "ack" ELSE "serve"
          /\ UNCHANGED <<reply, closing>>
       \/ /\ call.name \notin Up \/ (Connect /\ ~link)
          /\ agent' = "ended"
          /\ closing' = IF Connect THEN closing ELSE "failed"
          /\ reply' = IF Connect THEN "unavailable" ELSE reply
          /\ UNCHANGED upstream
    /\ UNCHANGED <<call, clientVars, inbox, link>>

\* variant: the deferred Close comes after the acknowledgement
AckLeaks ==
    /\ agent = "ack"
    /\ \/ agent' = "serve" /\ reply' = "opened" /\ UNCHANGED upstream
       \/ ~link /\ agent' = "ended" /\ UNCHANGED <<reply, upstream>>
    /\ UNCHANGED <<call, clientVars, inbox, closing, link>>

\* Opened is sent once the endpoint is connected; if it cannot be sent the
\* handler returns, and its deferred Close drops the endpoint.
Ack ==
    /\ agent = "ack"
    /\ \/ agent' = "serve" /\ reply' = "opened" /\ UNCHANGED upstream
       \/ ~link /\ agent' = "ended" /\ upstream' = FALSE /\ UNCHANGED reply
    /\ UNCHANGED <<call, clientVars, inbox, closing, link>>

\* variant: a handler that waits for its first message outlives the client
OnlyServedReturns ==
    /\ agent = "serve" /\ (Opening \/ ~link \/ client = "done")
    /\ agent' = "ended" /\ upstream' = FALSE
    /\ closing' = IF Connect THEN closing ELSE "clean"
    /\ UNCHANGED <<call, clientVars, inbox, reply, link>>

\* The session comes to its end, which may be never (Tunnel), the probe closes
\* its request, or a handler that reads from its client loses it.
HandlerReturns ==
    /\ \/ agent = "serve" /\ (Opening \/ ~link \/ client = "done")
       \/ agent = "handler" /\ (~link \/ (~Opening /\ client = "done"))
    /\ agent' = "ended" /\ upstream' = FALSE
    /\ closing' = IF Connect \/ agent = "handler" THEN closing ELSE "clean"
    /\ UNCHANGED <<call, clientVars, inbox, reply, link>>

-----------------------------------------------------------------------------
Client == Dial \/ ClientSend \/ ClientReceive \/ SessionEnds
Agent == \/ Door \/ Forward \/ Upgrade \/ PingUpgrade \/ Ping
         \/ DialUpstream \/ Ack \/ HandlerReturns
Next == Client \/ Agent \/ Cut \/ GiveUp

Spec == Init /\ [][Next]_vars

\* Both programs go on, and Check has a timeout.  Nothing is assumed of a tunnel
\* that is served, not even that it ends once its client is gone: handleTCP
\* waits for the endpoint to end it (Tunnel).
FairSpec ==
    /\ Spec
    /\ WF_vars(Client)
    /\ WF_vars(Agent /\ (Opening => agent # "serve"))
    /\ WF_vars(GiveUp /\ ~Opening)

-----------------------------------------------------------------------------
(* Properties. *)

\* What the client should be told: the first thing wrong on the way.
Verdict ==
    IF ~call.cert THEN "pin"
    ELSE IF Connect /\ call.path # "direct" THEN "proto"
    ELSE IF ~call.token THEN "token"
    ELSE IF Opening /\ call.name \notin Allowed THEN "notfound"
    ELSE IF Opening /\ Connect /\ call.name \notin Up THEN "unavailable"
    ELSE "ok"

\* Unless the connection breaks, the client is told exactly what stood in its
\* way, by either door and whatever order the two sides run in; only a refusal
\* that overtakes the first message is reported as EOF, and that is never one
\* about the endpoint.
TruthfulAnswer ==
    \/ result \in {"none", "broken", Verdict}
    \/ result = "eof" /\ Verdict \in {"proto", "token"}

\* Over Connect, Open returns a tunnel only when the agent has the endpoint at
\* the other end of it: no session starts and then finds nobody there.
OpenMeansConnected ==
    result = "ok" /\ Opening /\ Connect =>
        /\ call.token /\ call.name \in Allowed \cap Up
        /\ agent \in {"serve", "ended"}
        /\ agent = "serve" /\ call.name # "@shell" => upstream

\* A WebSocket is acknowledged before the dial.  If the dial fails, the agent's
\* close frame says so, and the client's first read fails: it does not look
\* like a session that ended by itself.  (Only a connection that is cut during
\* the dial does: "cut".)
FailedDialIsSeen == session = "clean" => call.name \in Up

\* A handler that has returned, for whatever reason, has let go of the endpoint.
NoUpstreamLeak == agent = "ended" => ~upstream

\* A check that succeeds means that an Open of a name that is allowed and up
\* would: certificate, token and, over Connect, a path that is full-duplex.
CheckIsHonest ==
    result = "ok" /\ ~Opening =>
        call.cert /\ call.token /\ (Connect => call.path = "direct")

\* Open and Check return, on every path that lets a request through before its
\* end; Check also on one that does not.
CallReturns ==
    client = "dial" /\ (Opening /\ Connect => call.path # "buffers") ~> client = "done"

\* When the client is gone, or its probe is over, no handler stays behind at the
\* door, in a dial, before its acknowledgement or in a probe: it ends, unless it
\* has come to serve a tunnel, which ends with its endpoint (Tunnel).
ClientGoneIsNoticed ==
    (~link \/ (~Opening /\ client = "done")) /\ agent # "none"
        ~> agent = "ended" \/ (Opening /\ agent = "serve")
=============================================================================
