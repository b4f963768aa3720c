------------------------------ MODULE Sessions ------------------------------
(***************************************************************************)
(* The two programs around the tunnels: the local listener of client       *)
(* connect, which gives each connection it accepts a goroutine and a       *)
(* tunnel of its own, and the agent's server, which ends while some of     *)
(* these are in use.                                                       *)
(*                                                                         *)
(*   application -> backlog -> Accept -> Open -> splice   ...   handler    *)
(*                                                                         *)
(* What goes through a tunnel is Tunnel's matter, and how one is opened is *)
(* OpenProtocol's: here a splice is its two copies, either running or not. *)
(***************************************************************************)
EXTENDS Integers, FiniteSets

CONSTANT Conn   \* the connections that local applications make

ASSUME SessionsAssumption == IsFiniteSet(Conn)

VARIABLES
    main,       \* where Listen is: "accept", "wait", "close", "returned"
    listening,  \* the listener is open
    cancelled,  \* Ctrl-C: the context of the command is done
    failed,     \* an Accept has failed although the listener was open
    group,      \* the counter of the WaitGroup
    conn,       \* "none", "backlog", "opening", "spliced" or "closed"
    app,        \* its application: "live", "shut" (sends no more) or "left"
    tunnel,     \* "none", "up" or "dead"
    up, down,   \* the copies that run
    agent,      \* "serving", "draining" (Shutdown) or "exited"
    tracked,    \* the server knows of its tunnels (HTTP/2 over TLS), or they
                \* are hijacked (h2c, WebSocket)
    handler     \* the agent's side: "none", "serving" or "ended"

listenVars == <<main, listening, cancelled, failed, group>>
spliceVars == <<tunnel, up, down>>
agentVars == <<agent, tracked, handler>>
vars == <<listenVars, conn, app, spliceVars, agentVars>>

Init ==
    /\ main = "accept" /\ listening = TRUE /\ cancelled = FALSE /\ failed = FALSE
    /\ group = 0
    /\ conn = [c \in Conn |-> "none"] /\ app = [c \in Conn |-> "live"]
    /\ tunnel = [c \in Conn |-> "none"]
    /\ up = {} /\ down = {}
    /\ agent = "serving" /\ tracked \in BOOLEAN
    /\ handler = [c \in Conn |-> "none"]

\* The listener closes: the system resets what nobody has accepted.
CloseListener ==
    /\ listening' = FALSE
    /\ conn' = [c \in Conn |-> IF conn[c] = "backlog" THEN "closed" ELSE conn[c]]

-----------------------------------------------------------------------------
(* Listen. *)

\* variant: the goroutine is started and not counted.
AcceptUncounted(c) ==
    /\ main = "accept" /\ listening /\ conn[c] = "backlog"
    /\ conn' = [conn EXCEPT ![c] = "opening"]
    /\ UNCHANGED <<listenVars, app, spliceVars, agentVars>>

\* variant: the tunnel is opened before the next connection is accepted.
AcceptSerial(c) ==
    /\ main = "accept" /\ listening /\ conn[c] = "backlog"
    /\ \A d \in Conn : conn[d] # "opening"
    /\ conn' = [conn EXCEPT ![c] = "opening"]
    /\ group' = group + 1
    /\ UNCHANGED <<main, listening, cancelled, failed, app, spliceVars, agentVars>>

Accept(c) ==
    /\ main = "accept" /\ listening /\ conn[c] = "backlog"
    /\ conn' = [conn EXCEPT ![c] = "opening"]
    /\ group' = group + 1
    /\ UNCHANGED <<main, listening, cancelled, failed, app, spliceVars, agentVars>>
\* The loop ends with its listener, or with any other error of Accept.  The
\* deferred calls run in reverse: wg.Wait comes before ln.Close.
AcceptFails ==
    /\ main = "accept"
    /\ main' = "wait"
    /\ failed' = (failed \/ listening)
    /\ UNCHANGED <<listening, cancelled, group, conn, app, spliceVars, agentVars>>
WaitGroup ==
    /\ main = "wait" /\ group = 0
    /\ main' = "close"
    /\ UNCHANGED <<listening, cancelled, failed, group, conn, app, spliceVars, agentVars>>
Return ==
    /\ main = "close"
    /\ CloseListener /\ main' = "returned"
    /\ UNCHANGED <<cancelled, failed, group, app, spliceVars, agentVars>>

\* variant: the listener is left to the deferred ln.Close.
CloserAfterLoop ==
    /\ cancelled /\ listening /\ main # "accept"
    /\ CloseListener
    /\ UNCHANGED <<main, cancelled, failed, group, app, spliceVars, agentVars>>

\* The goroutine that closes the listener when the context is done.
Closer ==
    /\ cancelled /\ listening
    /\ CloseListener
    /\ UNCHANGED <<main, cancelled, failed, group, app, spliceVars, agentVars>>

-----------------------------------------------------------------------------
(* One connection. *)

Done(c) == group' = group - 1 /\ conn' = [conn EXCEPT ![c] = "closed"]

OpenSucceeds(c) ==
    /\ conn[c] = "opening" /\ agent = "serving" /\ ~cancelled
    /\ conn' = [conn EXCEPT ![c] = "spliced"]
    /\ tunnel' = [tunnel EXCEPT ![c] = "up"]
    /\ up' = up \cup {c} /\ down' = down \cup {c}
    /\ handler' = [handler EXCEPT ![c] = "serving"]
    /\ UNCHANGED <<listenVars, app, agent, tracked>>
OpenFails(c) ==
    /\ conn[c] = "opening"
    /\ Done(c)
    /\ UNCHANGED <<main, listening, cancelled, failed, app, spliceVars, agentVars>>

\* The stream is reset by the context, the end of the agent, or the network.
TunnelDies(c) ==
    /\ tunnel[c] = "up"
    /\ tunnel' = [tunnel EXCEPT ![c] = "dead"]
    /\ UNCHANGED <<listenVars, conn, app, up, down, agentVars>>

\* The copy from the application ends with what it sends, or when a write to
\* the tunnel fails: it must read something first.
UpEnds(c) ==
    /\ c \in up
    /\ app[c] # "live" \/ tunnel[c] = "dead"
    /\ up' = up \ {c}
    /\ UNCHANGED <<listenVars, conn, app, tunnel, down, agentVars>>
\* The copy to it ends with the tunnel, with the agent's handler, or when a
\* write to an application that has left fails.
DownEnds(c) ==
    /\ c \in down
    /\ tunnel[c] = "dead" \/ handler[c] = "ended" \/ app[c] = "left"
    /\ down' = down \ {c}
    /\ UNCHANGED <<listenVars, conn, app, tunnel, up, agentVars>>
SpliceReturns(c) ==
    /\ conn[c] = "spliced" /\ c \notin up \cup down
    /\ Done(c)
    /\ tunnel' = [tunnel EXCEPT ![c] = "dead"]
    /\ UNCHANGED <<main, listening, cancelled, failed, app, up, down, agentVars>>

-----------------------------------------------------------------------------
(* The agent. *)

\* A handler returns when its endpoint is done, or when it finds its tunnel
\* dead or its input at an end (Tunnel's SessionEnds and CutEndsAgent).
HandlerEnds(c) ==
    /\ handler[c] = "serving"
    /\ handler' = [handler EXCEPT ![c] = "ended"]
    /\ UNCHANGED <<listenVars, conn, app, spliceVars, agent, tracked>>

Stop ==
    /\ agent = "serving"
    /\ agent' = "draining"
    /\ UNCHANGED <<listenVars, conn, app, spliceVars, tracked, handler>>
\* Shutdown returns when no connection it knows of is in use, or after five
\* seconds; then Serve returns, and the process ends with all it still serves.
Exits ==
    /\ agent' = "exited"
    /\ handler' = [c \in Conn |-> IF handler[c] = "serving" THEN "ended" ELSE handler[c]]
    /\ tunnel' = [c \in Conn |-> IF handler[c] = "serving" THEN "dead" ELSE tunnel[c]]
    /\ UNCHANGED <<listenVars, conn, app, up, down, tracked>>
InUse == tracked /\ \E c \in Conn : handler[c] = "serving"
ShutdownDone == agent = "draining" /\ ~InUse /\ Exits
ShutdownExpires == agent = "draining" /\ InUse /\ Exits
Crash == agent = "serving" /\ Exits
Restart ==
    /\ agent = "exited"
    /\ agent' = "serving"
    /\ UNCHANGED <<listenVars, conn, app, spliceVars, tracked, handler>>

-----------------------------------------------------------------------------
(* Those who use them. *)

AppConnects(c) ==
    /\ conn[c] = "none" /\ listening
    /\ conn' = [conn EXCEPT ![c] = "backlog"]
    /\ UNCHANGED <<listenVars, app, spliceVars, agentVars>>
AppEnds(c) ==
    /\ conn[c] # "none" /\ app[c] # "left"
    /\ \E to \in {"shut", "left"} \ {app[c]} : app' = [app EXCEPT ![c] = to]
    /\ UNCHANGED <<listenVars, conn, spliceVars, agentVars>>
Cancel ==
    /\ ~cancelled /\ cancelled' = TRUE
    /\ UNCHANGED <<main, listening, failed, group, conn, app, spliceVars, agentVars>>

-----------------------------------------------------------------------------

Listen == AcceptFails \/ WaitGroup \/ Return \/ Closer \/ \E c \in Conn : Accept(c)
Session(c) == OpenSucceeds(c) \/ OpenFails(c) \/ TunnelDies(c)
              \/ UpEnds(c) \/ DownEnds(c) \/ SpliceReturns(c) \/ HandlerEnds(c)
Agent == Stop \/ ShutdownDone \/ ShutdownExpires \/ Crash \/ Restart
Users == Cancel \/ \E c \in Conn : AppConnects(c) \/ AppEnds(c)

Next == Listen \/ Agent \/ Users \/ \E c \in Conn : Session(c)

\* A goroutine goes on unless it waits for another party: Open for the agent,
\* a copy for its application, a handler for its endpoint.  A context that is
\* done ends the first and the tunnels; nobody has to cancel, send or leave.
SessionFairness(c) ==
    /\ WF_vars(Accept(c)) /\ WF_vars(cancelled /\ OpenFails(c))
    /\ WF_vars(cancelled /\ TunnelDies(c))
    /\ WF_vars(app[c] # "live" /\ UpEnds(c))
    /\ WF_vars((tunnel[c] = "dead" \/ handler[c] = "ended") /\ DownEnds(c))
    /\ WF_vars(SpliceReturns(c))
    /\ WF_vars(tunnel[c] = "dead" /\ HandlerEnds(c))
Spec ==
    /\ Init /\ [][Next]_vars
    /\ WF_vars(Closer) /\ WF_vars(~listening /\ AcceptFails)
    /\ WF_vars(WaitGroup) /\ WF_vars(Return)
    /\ WF_vars(ShutdownDone) /\ WF_vars(ShutdownExpires)
    /\ \A c \in Conn : SessionFairness(c)

-----------------------------------------------------------------------------
(* What the two programs promise. *)

\* When Listen returns nothing of it is left: no local connection, no
\* goroutine, no tunnel, whatever the agent, the applications and a Ctrl-C do
\* meanwhile (connect.go:102 and 116, the deferred calls).
ReturnedMeansReleased ==
    main = "returned" =>
        /\ ~listening /\ up \cup down = {}
        /\ \A c \in Conn : conn[c] \in {"none", "closed"} /\ tunnel[c] # "up"

\* A local connection is accepted, or reset, however long the agent takes to
\* open the tunnels of others, and although it stops, dies and comes back
\* (connect.go:118, "one tunnel per local connection"); unless an Accept has
\* failed, when those in the backlog wait for the last session to end.
ConnectionsAreAnswered ==
    \A c \in Conn : conn[c] = "backlog" ~> conn[c] # "backlog" \/ failed

\* After a Ctrl-C, Listen returns once every application has shut or left its
\* connection (connect.go:94); and an agent that is stopped ends, although the
\* tunnels it serves are in use (http.go:214).
StopsEnd ==
    /\ <>[](cancelled /\ \A c \in Conn : conn[c] # "none" => app[c] # "live")
       => <>(main = "returned")
    /\ agent = "draining" ~> agent # "draining"

\* "Ctrl-C to close." (main.go:662)
CtrlCEnds == cancelled ~> main = "returned"

=============================================================================
