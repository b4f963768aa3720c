-------------------------------- MODULE Sshd --------------------------------
(***************************************************************************)
(* A session of the SSH server that is embedded in the agent.              *)
(*                                                                         *)
(*   client <--> channel <--- copy out <--- the pty, or a pipe <--- child  *)
(*                       ---> copy in  ---> the pty, or a pipe --->        *)
(*                                                                         *)
(* The handler starts the child, starts a goroutine for each direction,    *)
(* waits for the child, and sends its exit status.  A shell has a pty, and *)
(* its output gets a grace period to drain; a command has pipes, and       *)
(* cmd.Wait waits for its output itself.  Standard output and standard     *)
(* error of a command, which are copied alike, are one stream here.  A     *)
(* chunk is told from another by its number.                               *)
(***************************************************************************)
EXTENDS Naturals

CONSTANTS
    MaxOut,   \* chunks a child writes
    MaxIn,    \* chunks a client sends
    Buffer    \* chunks a pipe or a pty holds in one direction

ASSUME SshdAssumption == {MaxOut, MaxIn} \subseteq Nat /\ Buffer \in Nat \ {0}

VARIABLES
    kind,       \* what was asked for: "pty", "exec", or "none" of both
    signalsEnd, \* the pty reports when the last writer is gone (ConPTY never does)
    main,       \* where the handler is: "start", "wait", "drain", "exit", "close", "over"
    child,      \* "none", "runs" or "exited"
    heir,       \* a process the child left behind holds its output open
    made,       \* chunks that the child has written
    buffered,   \* those that nobody has read yet
    out,        \* the copy of the output: "none", "read", "write" or "done"
    sent,       \* chunks that it has sent to the client
    expired,    \* the grace period was over before the output had been drained
    ptyOpen,    \* the agent's end of the pty
    pending,    \* chunks of the client's that nobody has read yet
    in,         \* the copy of the input
    input,      \* chunks the child can read
    inputEnds,  \* ... after which it reads the end of its input
    channel,    \* "open" until the handler has sent an exit status
    client,     \* "open", "eof" (sends no more), "closed" or "gone"
    stalled     \* the client's window is full

request == <<kind, signalsEnd>>
handlerVars == <<main, expired, ptyOpen, channel>>
childVars == <<child, heir, made, buffered>>
outVars == <<out, sent>>
inVars == <<pending, in, input, inputEnds>>
clientVars == <<client, stalled>>
vars == <<request, handlerVars, childVars, outVars, inVars, clientVars>>

Init ==
    /\ kind \in {"pty", "exec", "none"} /\ signalsEnd \in BOOLEAN
    /\ main = "start"
    /\ child = "none" /\ heir = FALSE /\ made = 0 /\ buffered = 0
    /\ out = "none" /\ sent = 0 /\ expired = FALSE /\ ptyOpen = FALSE
    /\ pending = 0 /\ in = "none" /\ input = 0 /\ inputEnds = FALSE
    /\ channel = "open" /\ client = "open" /\ stalled = FALSE

\* sess.Exit: the status is sent and the channel closed.
SendExit == channel' = "closed"

-----------------------------------------------------------------------------
(* The handler. *)

\* Neither a pty nor a command, or a pty or a child that cannot be had: exit
\* status 1.  The input copy of a command may have been started by then; its
\* pipe is closed by the start that failed.
Fail ==
    /\ main = "start"
    /\ SendExit
    /\ main' = "over"
    /\ \/ UNCHANGED inVars
       \/ kind = "exec" /\ in' = "read" /\ inputEnds' = TRUE /\ UNCHANGED <<pending, input>>
    /\ UNCHANGED <<request, expired, ptyOpen, childVars, outVars, clientVars>>

Start ==
    /\ main = "start" /\ kind # "none"
    /\ child' = "runs" /\ out' = "read" /\ in' = "read"
    /\ ptyOpen' = (kind = "pty")
    /\ main' = "wait"
    /\ UNCHANGED <<request, expired, channel, heir, made, buffered, sent, pending,
                   input, inputEnds, clientVars>>

\* variant: the exit status of a shell is sent as soon as it has ended.
WaitOnly ==
    /\ main = "wait" /\ child = "exited"
    /\ kind = "exec" => out = "done"
    /\ main' = "exit"
    /\ inputEnds' = (kind = "exec" \/ inputEnds)
    /\ UNCHANGED <<request, expired, ptyOpen, channel, childVars, outVars, pending,
                   in, input, clientVars>>

\* cmd.Wait.  That of a command also waits for the copy of its output, and
\* closes its input.
Wait ==
    /\ main = "wait" /\ child = "exited"
    /\ IF kind = "pty"
         THEN main' = "drain" /\ UNCHANGED inputEnds
         ELSE out = "done" /\ main' = "exit" /\ inputEnds' = TRUE
    /\ UNCHANGED <<request, expired, ptyOpen, channel, childVars, outVars, pending,
                   in, input, clientVars>>

\* variant: the handler waits for the output, however long it takes.
DrainUnbounded ==
    /\ main = "drain" /\ out = "done"
    /\ main' = "exit" /\ expired' = FALSE
    /\ UNCHANGED <<request, ptyOpen, channel, childVars, outVars, inVars, clientVars>>

\* The output has been drained, or drainGrace is over.
Drain ==
    /\ main = "drain"
    /\ expired' = (out # "done")
    /\ main' = "exit"
    /\ UNCHANGED <<request, ptyOpen, channel, childVars, outVars, inVars, clientVars>>

Exit ==
    /\ main = "exit"
    /\ SendExit
    /\ main' = "close"
    /\ UNCHANGED <<request, expired, ptyOpen, childVars, outVars, inVars, clientVars>>

\* variant: the pty is left to the garbage collector.
ReturnOnly ==
    /\ main = "close"
    /\ main' = "over"
    /\ UNCHANGED <<request, expired, ptyOpen, channel, childVars, outVars, inVars,
                   clientVars>>

\* The deferred ptmx.Close.
Return ==
    /\ main = "close"
    /\ ptyOpen' = FALSE
    /\ main' = "over"
    /\ UNCHANGED <<request, expired, channel, childVars, outVars, inVars, clientVars>>

-----------------------------------------------------------------------------
(* The two copies. *)

\* Nobody can write to the output any more, and the agent is told so.
OutputEnds ==
    /\ buffered = 0 /\ child = "exited" /\ ~heir
    /\ kind = "pty" => signalsEnd
PtyClosed == kind = "pty" /\ ~ptyOpen
ClientLeft == client \in {"closed", "gone"}

CopyOutReads ==
    /\ out = "read"
    /\ \/ PtyClosed /\ out' = "done" /\ UNCHANGED buffered
       \/ OutputEnds /\ out' = "done" /\ UNCHANGED buffered
       \/ ~PtyClosed /\ buffered > 0 /\ out' = "write" /\ buffered' = buffered - 1
    /\ UNCHANGED <<request, handlerVars, child, heir, made, sent, inVars, clientVars>>
\* A write to the channel waits for the client's window, or for the client to
\* leave, and fails once the channel is closed or the connection gone.
CopyOutWrites ==
    /\ out = "write" /\ ~stalled
    /\ IF channel = "closed" \/ ClientLeft
         THEN out' = "done" /\ UNCHANGED sent
         ELSE out' = "read" /\ sent' = sent + 1
    /\ UNCHANGED <<request, handlerVars, childVars, inVars, clientVars>>

\* variant: the input of a command is not closed when the client's ends.
CopyInNeverCloses ==
    /\ in = "read"
    /\ \/ pending > 0 /\ pending' = pending - 1 /\ in' = "write"
       \/ pending = 0 /\ client # "open" /\ in' = "done" /\ UNCHANGED pending
    /\ UNCHANGED <<request, handlerVars, childVars, outVars, input, inputEnds,
                   clientVars>>

\* What the client has sent is read first, then its end; that of a command
\* then has its pipe closed (the deferred stdin.Close), a pty has not.
CopyInReads ==
    /\ in = "read"
    /\ \/ pending > 0 /\ pending' = pending - 1 /\ in' = "write" /\ UNCHANGED inputEnds
       \/ /\ pending = 0 /\ client # "open"
          /\ in' = "done" /\ inputEnds' = (kind = "exec" \/ inputEnds)
          /\ UNCHANGED pending
    /\ UNCHANGED <<request, handlerVars, childVars, outVars, input, clientVars>>
CopyInWrites ==
    /\ in = "write"
    /\ \/ /\ PtyClosed \/ (kind = "exec" /\ (inputEnds \/ child = "exited"))
          /\ in' = "done" /\ inputEnds' = (kind = "exec" \/ inputEnds)
          /\ UNCHANGED input
       \/ /\ ~inputEnds /\ ~PtyClosed /\ input < Buffer
          /\ in' = "read" /\ input' = input + 1 /\ UNCHANGED inputEnds
    /\ UNCHANGED <<request, handlerVars, childVars, outVars, pending, clientVars>>

-----------------------------------------------------------------------------
(* The child and the client, who do what they like. *)

\* A command that writes where nobody reads any more is killed for it.
ChildWrites ==
    /\ child = "runs" /\ made < MaxOut
    /\ IF kind = "exec" /\ out = "done"
         THEN child' = "exited" /\ UNCHANGED <<made, buffered>>
         ELSE /\ buffered < Buffer
              /\ made' = made + 1 /\ buffered' = buffered + 1 /\ UNCHANGED child
    /\ UNCHANGED <<request, handlerVars, heir, outVars, inVars, clientVars>>
ChildReads ==
    /\ child = "runs" /\ input > 0
    /\ input' = input - 1
    /\ UNCHANGED <<request, handlerVars, childVars, outVars, pending, in, inputEnds,
                   clientVars>>
ChildExits ==
    /\ child = "runs"
    /\ child' = "exited" /\ heir' \in BOOLEAN
    /\ UNCHANGED <<request, handlerVars, made, buffered, outVars, inVars, clientVars>>
HeirEnds ==
    /\ heir /\ heir' = FALSE
    /\ UNCHANGED <<request, handlerVars, child, made, buffered, outVars, inVars,
                   clientVars>>

ClientSends ==
    /\ client = "open"
    /\ \/ pending < MaxIn /\ pending' = pending + 1 /\ UNCHANGED client
       \/ client' = "eof" /\ UNCHANGED pending
    /\ UNCHANGED <<request, handlerVars, childVars, outVars, in, input, inputEnds,
                   stalled>>
ClientStalls ==
    /\ ~ClientLeft /\ stalled' = ~stalled
    /\ UNCHANGED <<request, handlerVars, childVars, outVars, inVars, client>>
ClientAnswersClose ==
    /\ channel = "closed" /\ ~ClientLeft
    /\ client' = "closed" /\ stalled' = FALSE
    /\ UNCHANGED <<request, handlerVars, childVars, outVars, inVars>>
\* The connection is dropped: HandleConn returns and closes it, and this
\* handler and its child are not told.
ConnectionDrops ==
    /\ ~ClientLeft
    /\ client' = "gone" /\ stalled' = FALSE
    /\ UNCHANGED <<request, handlerVars, childVars, outVars, inVars>>

-----------------------------------------------------------------------------

Handler == Fail \/ Start \/ Wait \/ Drain \/ Exit \/ Return
CopyOut == CopyOutReads \/ CopyOutWrites
CopyIn == CopyInReads \/ CopyInWrites
Child == ChildWrites \/ ChildReads \/ ChildExits \/ HeirEnds
Client == ClientSends \/ ClientStalls \/ ClientAnswersClose \/ ConnectionDrops

Next == Handler \/ CopyOut \/ CopyIn \/ Child \/ Client

\* The agent's goroutines and its timer go on; of the others only a client
\* that is told of the end of a channel is taken to answer.
Spec ==
    /\ Init /\ [][Next]_vars
    /\ WF_vars(Handler) /\ WF_vars(CopyOut) /\ WF_vars(CopyIn)
    /\ WF_vars(ClientAnswersClose)

-----------------------------------------------------------------------------
(* What a session promises. *)

\* An exit status means that the client has all of the output, unless the
\* grace period of a shell ran out first (sshd.go:155, "drain what the shell
\* wrote on its way out"): no interleaving of the two copies with the end of
\* the child, of a process it left behind or of the input loses a chunk.
OutputComplete ==
    channel = "closed" /\ client # "gone" /\ ~expired => sent = made

\* A shell's session ends when the shell does, although its output may never
\* end, a process it left behind may hold it open and the client may have
\* stopped reading (sshd.go:20, "this cannot be an unbounded wait").  That of
\* a command does once nothing holds its output and the client reads; that it
\* still has its input open does not matter (sshd.go:197, "cannot hold the
\* command open").
SessionEndsWithChild ==
    /\ (kind = "pty" /\ child = "exited") ~> main = "over"
    /\ <>[](child = "exited" /\ ~heir /\ ~stalled) => <>(main = "over")

\* No copy outlives its session (sshd.go:156, "the deferred ptmx.Close
\* unblocks it afterwards either way").
CopiesEnd ==
    main = "over" ~> {in, out} \subseteq {"none", "done"}

\* A command that reads its input learns that its client sends no more, or is
\* gone (sshd.go:205, the pipe is closed when the copy ends).
InputEnd ==
    []<>(input < Buffer)
    => (kind = "exec" /\ main = "wait" /\ client # "open" ~> inputEnds)

\* "A dropped connection kills the session" (docs/readme.md:485).
DroppedConnectionKills == client = "gone" ~> child # "runs"

=============================================================================
