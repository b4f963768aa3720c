# A TLA+ model of san_tunnels

san_tunnels carries SSH sessions and TCP connections from an entry host to an
agent, over Connect RPC on HTTP/2 or over a WebSocket. This directory holds TLA+
modules that model the program, TLC configurations that check them on small
instances, and TLAPS proofs for every value of the constants. `PROJECT.json`
lists the parts, the runs, the lines each definition translates, the hazards the
properties were written for, and what was found.

To check everything by hand:

    tlc -config TunnelConnect.cfg MCTunnel     # and each other run of PROJECT.json
    tlapm TunnelProofs.tla                      # and the other Proofs modules

Five further configurations are kept for a reader to run: each is a counterexample
that a finding tells of (see "What was found").

## The system

| Part | Source | State it keeps | Operations |
|---|---|---|---|
| Tunnel data path | `client/connect.go` (splice), `client/proxy.go` (Proxy), `agent/service.go` (handleTCP), `agent/ws.go` | four io.Copy loops, two sockets, one stream | copy, half-close, close, return |
| Stream connection | `streamconn/streamconn.go` | unread rest of a message, sticky errors, two mutexes, closeOnce | Read, Write, CloseWrite, Close |
| WebSocket adapter | `wsconn/` | once for close-write, keepalive goroutine | Recv, Send, CloseSend, Close, Keepalive |
| Opening | `client/client.go`, `client/ws.go`, `client/proxy.go` (Check) | one call | Open, Check |
| Agent handlers | `agent/http.go`, `agent/service.go`, `agent/ws.go` | one handler per stream, the allowlist | middleware, Forward, Ping, upgrade, Handle |
| Agent files and commands | `agent/keys.go`, `agent/tlskey.go`, `cmd/san_tunnels/main.go` | host_key, tls_cert.pem, tls_key.pem, token, authorized_keys | init, server, invite, fingerprint, hostkey, authorize |
| Client trust and configuration | `client/trust.go`, `client/config.go`, `client/probe.go` | config.json and its temporary name, known_agents.json, the copy of each in a process | add, resolve, verify, trust on first use |
| Listener | `client/connect.go` (Listen) | the listener, a WaitGroup of connections | accept, open, cancel, return |
| Server | `agent/http.go` (Serve) | the connections it tracks | shut down with a deadline |
| SSH server | `agent/sshd.go` | per session a pty or pipes, a child, two copies | session, exec, drain, exit |
| Invite, aliases, command line | `invite/`, `HostAlias`, `main.go` | none | encode, decode, print |

How they interact: `Listen` accepts a local socket, `Open` dials the agent, the
agent's middleware lets the request through, the handler resolves the endpoint's
name and dials it, and from then on the two sides each run two io.Copy loops
between a socket and a `streamconn.Conn`. Nothing but these streams connects the
two programs. Inside one side, the loops share the `Conn` and the socket, and
whichever loop ends may close both under the other one. The commands of an
agent share nothing but files, and so do those of a client.

What makes each part correct, and what is hard about it:

- **Data path.** No byte is lost in the middle, repeated or reordered; an end of
  input is passed on only if it is one; every session ends at both sides. Hard:
  four goroutines and two applications that may stop, close or reset in any
  order, a link that may be cut, buffers that fill, and two transports whose
  ends of stream differ (END_STREAM is not held back by flow control, a
  close-write frame queues behind the data, a close frame ends both
  directions, and a WebSocket that is cut without one looks ended).
- **Stream connection.** A message stream behaves as a `net.Conn` although
  messages and reads do not fit together, and Close may be called by several
  goroutines while others read and write. Hard: Close must not wait for a lock
  that a blocked Write holds.
- **Opening.** The caller learns what stood in its way, and what it may rely on
  afterwards differs by transport. Hard: a refusal may overtake the request, the
  client may give up between any two steps, and the WebSocket's answer comes
  before the dial.
- **The agent's files.** Identities persist: what clients pinned stays true.
  Hard: commands run at once without a lock, and `os.WriteFile` is two steps.
- **The client's files.** A certificate that was pinned is the only one accepted,
  and an agent that was added stays. Hard: each process works on its own copy of
  a file it read once, writes all of it back, and may end in between; several
  connections of one process share a copy.
- **Listener and server.** Every local connection gets an answer; when either
  program returns, nothing of it is left, and it does return. Hard: a Ctrl-C or
  a stop at any point of any connection, and two kinds of tunnels of which the
  server knows only one.
- **SSH server.** A session ends with its child, with all of its output and its
  exit status. Hard: the ends of the child, of its output, of its input and of
  the connection come in any order, and some of them never.

## The modules

| Module | Models | Lines |
|---|---|---|
| `Tunnel` | one open tunnel end to end: the applications, their sockets, the four loops, the link | `splice`, `Proxy`, `handleTCP`, `wsHandler`, `Keepalive` |
| `DuplexPipe` | what a tunnel promises: two pipes that may break | the specification `Tunnel` implements |
| `MCTunnel` | how the applications behave in liveness runs | |
| `TunnelProofs` | the inductive invariant of `Tunnel` and the theorems | |
| `PipeProofs` | that every step of `Tunnel` is one of `DuplexPipe` | |
| `StreamConn`, `MCStreamConn` | one `streamconn.Conn` of each of the four kinds the program builds | `streamconn.go`, the callbacks of `clientConn`, `serverConn`, `wsconn.New`, `wsconn.NewServer` |
| `StreamConnProofs` | the inductive invariant of `StreamConn` and the theorems | |
| `OpenProtocol`, `MCOpenProtocol` | one call of `Open` or `Check` | `client.go`, `ws.go`, `proxy.go`, the agent's handlers |
| `OpenProofs` | the inductive invariant of `OpenProtocol` and the theorems | |
| `AgentFiles`, `MCAgentFiles` | the agent's files and the commands on them | `keys.go`, `tlskey.go`, the `run...` functions of `main.go` |
| `AgentFilesProofs` | the inductive invariant of `AgentFiles` and the theorems | |
| `ClientFiles`, `MCClientFiles` | the client's two files, `client add` and every other command | `config.go`, `trust.go`, `runAdd`, `resolveTarget` |
| `ClientFilesProofs` | the inductive invariants behind `InvitedIsPinned`, `ConfigIsWhatWasAdded` and `TrustHolds`, and the theorems | |
| `Sessions` | the programs around the tunnels: `client connect` and its listener, the agent that stops | `Listen`, `Serve`, `main` |
| `SessionsProofs` | the count behind `ReturnedMeansReleased` | |
| `Sshd` | one session of the embedded SSH server | `handleSession`, `handleExec` |
| `SshdProofs` | where each chunk of output is, behind `OutputComplete` | |

The layers fit on each other: `OpenProtocol` ends in the state in which
`Tunnel` starts; a `Conn` is a loop's `Send` and `Receive` in `Tunnel`, whose
atomicity `StreamConn` looks into; `AgentFiles` says where the certificate and
the token that `OpenProtocol` takes as given come from, and `ClientFiles` what
the certificate is compared with. `Sessions` has many tunnels, each reduced to
whether its two client copies run and its handler serves; that a dead tunnel
ends them is what `Tunnel` is about. `Sshd` is what `handleShell` does with a
tunnel where `Tunnel` has `handleTCP`.

### Tunnel

Direction `up` runs from the local application through `clientUp` and `agentUp`
to the service, `down` the other way. `sock[d]` is what the writing application
has put in its socket, `hold[l]` the chunk that loop `l` has read and not yet
written, `wire[d]` what is on the stream, `out[d]` what has been written to the
receiving socket, `got[d]` what its application has read, `fin[d]` what follows
`out[d]`. `mark[d]` is the end of the stream on the wire. `link` is the
connection, and `bare` the directions in which it ended with a FIN and no close
frame while their reader still read.

| Action | Code |
|---|---|
| `CopyIn`, `Send`, `CopyEnd` | the read and the write of the first io.Copy of a direction, and its return |
| `Receive`, `Deliver`, `RecvEnd` | the same for the second one |
| `ClientCloseWrite` | `tunnel.CloseWrite()` after the upstream copy, whatever ended it |
| `AgentCloseWrite` | `t.CloseWrite()` after the agent's upstream copy, whatever ended it |
| `ClientHalfClose` | `tc.CloseWrite()` if the downstream copy was clean |
| `ClientClose` | splice after `wg.Wait`, or Proxy after its downstream copy; then the deferred closes |
| `HangUp` | what releases the connection after that: a WebSocket's Close |
| `ProxyExits` | `runProxy` and `main` return: the process of a ProxyCommand over Connect ends |
| `AgentReturn`, `EndResponse` | `handleTCP`'s return with its deferred Close, then the end of the response |
| `KeepaliveKill` | a ping that nobody's read could answer, and CloseNow, at either end first |
| `LinkLost` | a cut that both ends come to notice, by a reset or by a FIN |
| `AppWrite`, `AppShut`, `AppRead`, `AppClose` | the applications (not part of the program) |

A chunk is its number, so loss, repetition and reordering show. A close with
unread bytes is a reset, as TCP has it; a proxy's upstream socket is a pipe,
which has none.

How a lost connection reads depends on the transport. Over Connect a stream that
loses it fails. A WebSocket fails too, but if the connection ended with a FIN (or
a TLS close) and no close frame, as it does at the other end of a `CloseNow`, the
error wraps `io.EOF`: `normalizeClose` passes it on, and `streamconn`'s
`normalize` makes plain `io.EOF` of it. `DropLink` chooses which readers find
that, behind what was sent to them (`BareFin`), and `ReadsEOF` is `normalize`:
for io.Copy there is no difference.

io.Copy's errors are kept in `err` although the code discards
them, because the properties tell a clean copy from a failed one.

### StreamConn

One goroutine reads, one writes and half-closes, and two call Close. Each step
holds the mutex the code holds there: `Close` runs `closeSend` and `closeAll`
without `writeMu` and takes it afterwards. The kinds differ in which callbacks
exist and in what wakes a goroutine that is blocked in one.

### OpenProtocol

`call` ranges over every combination of transport, operation, certificate,
token, endpoint and path (one that carries HTTP/2, one that downgrades it, one
that waits for the end of the body). The agent's steps follow its middleware
(`Door`), its handlers (`Forward`, `Upgrade`, `PingUpgrade`, `Ping`),
`handleTCP`'s dial and the acknowledgement, and each may find the client gone.
`GiveUp` is the client's own end, `Cut` one of the network or the agent's
process; the reader of an open WebSocket may take a `Cut` for an end of input
(`session = "cut"`, by the same `normalize`). A tunnel that is served lasts as
long as `Tunnel` says, which is not bounded by its client.

### AgentFiles

A command is a list of steps (`runInit`, `runServer`, ...): read a file, create
it if it is missing, append to it. Creating takes two steps, the one that
truncates and the one that writes, and `Dies` may end the command before either:
a crash, a full disk. `guided` says whether the operator follows `docs/readme.md`
(init first, and not two at once); the properties that need this say so.

### ClientFiles

`config` and `tmp` are names, `inode` what is in the file that a name stands
for: `Rename` moves a name, and an add that has a file open goes on writing it
under whatever name it has by then. An add is `LoadConfig`, `Set`, `OpenTmp`,
`WriteTmp`, `Rename` and `Remove`, and `AdderEnds` before any of them. Another
command reads its entry (`ResolveTarget`) and then the pins
(`LoadKnownAgents`, which drops an error as the code does); each of its
connections takes a pin (`TlsConfigFor`), sees a certificate (`Verify`), and
with nothing to compare it with records it (`Add`, `WriteKnown`), under the
mutex of the process and with the file truncated in between. `AddFails`,
`WriteKnownFails` and `UserEnds` are the failures. What an entry says besides
the fingerprint, the token and the flags are left out.

Four ghosts serve the properties: `added` (the entries of the adds that have
succeeded), `overlapped` (two adds ran at once), `trusted` (what a user has been
told is trusted), and `tidy` with `behind` (no recording was interrupted, made
by a connection that had missed another one, or read while it was made). They
name exactly the cases in which the code breaks the promise; see "What was
found".

### Sessions

A local connection waits in the backlog, is accepted and counted (`Accept`),
opens its tunnel, is spliced by two copies (`up`, `down`) and released
(`SpliceReturns`, with the deferred calls). `AcceptFails`, `WaitGroup` and
`Return` are the end of `Listen`, whose deferred calls run in reverse. The agent
may be stopped (`Stop`, then `ShutdownDone` or `ShutdownExpires`), crash and
come back. Whether the server tracks its tunnels is chosen at the start: over
TLS and HTTP/2 it does, WebSockets and h2c are hijacked connections.

### Sshd

`kind` is what was asked for, a shell on a pty or a command on pipes. `main`
is the handler, `out` and `in` the two copies, `child` the process, and `heir`
one it leaves behind with its output open. The pty or the pipes hold `Buffer`
chunks each way. On Windows a pty never reports the end of its output
(`signalsEnd`). Standard output and standard error of a command, which are
copied alike, are one stream; changes of the window size are left out.

## What the runs check

| Run | What it shows | Bounds |
|---|---|---|
| `TunnelConnect` | a splice over Connect under all faults: order, completeness, no cut that looks like an end, half-closes that cross, and whole downloads while the link lasts | 1 chunk up, 3 down, buffers of 1 |
| `TunnelWS` | that a splice over a WebSocket implements `DuplexPipe`, keepalive and bare FINs included, half-closes behind the whole download or a bare FIN only, and ends at both sides after a cut or when the local application leaves | 0 up, 4 down |
| `TunnelProxy` | the ssh ProxyCommand over Connect: that it implements `DuplexPipe` too, a cut ends it, and its exit releases the agent | 1 up, 3 down |
| `TunnelLosesUpload` | **violated**: without any fault, a service that half-closes first loses the upload | 1, 1 |
| `TunnelBareFin` | **violated**: over a WebSocket, without a fault of the network, a download that the agent's Keepalive cuts ends like a whole one | 1, 1 |
| `StreamConn` | bytes once and in order, sticky errors, one end of stream, and a Close that returns and wakes the others | 2 closers, 2 writes, 3 bytes, messages and reads of up to 2 |
| `OpenProtocol` | truthful answers, no leak, and calls that return | 4 names, all 192 calls |
| `AgentFiles` | whole pairs, invites and restarts that agree, authorized keys that stay | 3 commands at once on new or existing files |
| `ClientFiles` | pins from invites hold always, adds in turn lose nothing, trust on first use holds where it can | 2 adds and a command, or 2 commands, of 2 connections each; 3 agents, 3 certificates |
| `Sessions` | `Listen` leaves nothing behind, holds nobody up, and both programs end | 2 local connections |
| `Sshd` | output is complete, sessions and copies end, commands learn of the end of their input | 2 chunks each way, buffers of 1 |
| `SshdDropped` | **violated**: an idle shell outlives its connection | 1 each way |

**Why the bounds are enough.** A buffer of one chunk is full and empty within
two steps, so every blocking and every race over a full buffer occurs. Three
chunks down fill the agent's socket, its loop and the wire at the same time,
which is where a direction can be stuck; the leak over Connect needs a fourth,
held in the loop, and the run over a WebSocket has it. One chunk up is enough
for every order of an upload against the end of the download. For how sessions
end over a WebSocket none is needed: the local application's end of stream goes
the same way; that the upload too is a pipe there is the theorem
`TunnelImplementsPipe`. `StreamConn` splits a message of two bytes over reads of
one and two, which are all the ways a rest can be kept; two closers are needed
for one to find `closeOnce` running. `OpenProtocol` is finite as it is: four
names cover allowed and not, reachable and not. Three commands let an init
fail, a second one follow it and a server start, or an init, an invite and a
server overlap; every command's files may also exist from before. In
`ClientFiles` two adds are enough for one to truncate, rename or remove what the
other has written, with a command that reads in between; two commands of two
connections each give every order of two recordings within a process and
between processes. One agent is added from its invite, two by hand, so that
entries of different adds can be lost; one certificate has a system root, one is
the invite's, one is neither; the files are there at first or not. Two local
connections in `Sessions` let one hold up the other, in the backlog, in `Open`
or in the WaitGroup. In `Sshd` a buffer of one and two chunks leave output both
in the buffer and with the copy when the child ends.

**Fairness.** `Tunnel!LoopFairness` is weak fairness of each goroutine: a loop
that can step does. The keepalive is a timer that keeps expiring while it is
armed. Nothing is assumed of the link, which may be cut or not. The liveness
runs also assume of the applications what `CourteousSpec` says: they read what
they are sent and hang up some time after the other end has; they need not
write, shut or close before, and as fairness leaves the reachable states alone,
the invariants of those runs hold of any application. `StreamConn` needs strong fairness for a send
that waits for room, because a peer that stalls and reads again and again must
let it through at some time, and for the steps of Close, whose `writeMu` is free
again and again but not always; Go's mutex hands itself to a waiter that starves.
`OpenProtocol` assumes that both programs go on and that Check's timeout
expires; a tunnel that is served may last for ever, even when its client is
gone: nothing tells the downstream copy that `handleTCP` waits for
(`agent/service.go:142`), which ends when the endpoint answers the FIN it was
sent or sends something more. That it then ends is `Tunnel`'s `CutEndsAgent`, under `CourteousSpec`. `Sessions` assumes that goroutines go on
which wait for no other party: an `Open` whose context is not done may take for
ever, an application need not write or leave, an endpoint need not end, and the
five seconds of a shutdown pass. `Sshd` assumes that the handler, its timer and
the copies go on, and that a client which is told of the end of a channel
answers; the child, what it leaves behind and the client otherwise do as they
like. `ClientFiles` and `AgentFiles` have only safety properties.

**Deadlock** is not checked: a session that is over, a call that has returned
and a command that has ended stop for good, as they should.

## What is proved

`TunnelProofs` proves for every transport, mode, capacity, number of chunks and
with or without faults:

| Theorem | Statement |
|---|---|
| `TypeCorrect` | `Spec => []TypeOK`: types, and every buffer within its capacity |
| `OrderPreserved` | `Spec => []InOrder` |
| `CleanCopies` | `Spec => []CleanCopyIsComplete` |
| `FaithfulFin` | `Spec => []FinIsFaithful` |
| `ConnectCutIsNotAnEnd` | `Spec => [](Transport = "connect" => CutIsNotAnEnd)` |

`CleanCopies` and `FaithfulFin` except the directions in `bare`, in which the
reader of a WebSocket takes a cut for an end. Over Connect there are none
(`NeverBareAlways`), which is what `ConnectCutIsNotAnEnd` adds; over a WebSocket
`CutIsNotAnEnd` is false (`TunnelBareFin`).

They rest on `InvariantHolds`: `Spec => []IInv`. `InOrder` is not inductive: it
speaks of what has arrived, and the next chunk to arrive is still in a buffer.
`IInv` says where every chunk is: for each direction (`Lane`), what has arrived,
what the second loop holds, the wire, what the first loop holds and its socket
continue one another up to the last chunk sent, as long as the loops between
them copy; once the first loop has ended cleanly, nothing is left behind it; an
end-of-stream mark is on the wire only when the first loop sends no more; a
reset socket is empty. `Ends` relates the sides' states to their loops. Each
action has a lemma. Those that move no chunk of a direction are shown to leave
it as `Kept` describes, and `KeptLane` proves once that this preserves `Lane`;
those that do move one (`CopyIn`, `Send`, `Receive`, `Deliver`, `AppRead`, ...)
use the lemmas on runs of chunks (`RunTail`, `RunAppend`).

The assumptions are those `Tunnel` states of its constants: two transports, two
modes, a capacity that is not zero, natural bounds.

`PipeProofs` proves `TunnelImplementsPipe`: `Spec => ImplementsPipe`, so that
for every transport and mode what the two applications see is what a pair of
pipes would show them. The mapping forgets the four loops and the stream: what a
pipe has carried is `got[d] \o out[d]`. One lemma per action says which step of
the pipes it is: `Deliver` carries the next chunk (`Lane` says that the chunk the
loop holds is the next one), a half-close or a handler's return ends a
direction, either behind everything its writer sent or while the direction is
broken, and a connection that goes breaks the directions it ended with a bare
FIN (`DropMaps`), since nothing in the loop that reads one says so. That a loop returns an error only when it ends, and that the client
closes after the loops it waits for, is `Late`. The proof needs one clause that
the mapping at first did not have: with `Proxy` the upload is broken as soon as
the downstream copy has ended, because Proxy then returns, whether or not its
upstream copy has sent everything, and the service reads a clean end of input
behind what did arrive. TLC finds a counterexample to the mapping without the
clause (`TunnelProxy`); `splice` waits for both copies and does not need it.

`StreamConnProofs` proves `EveryByteOnce`, `WritesStop`, `ClosedIsUnusable`,
`OneEndOfStream` and `CloseAlwaysReleases` for any number of goroutines that
call Close, any kind of `Conn` and any sizes of messages and buffers. They rest
on `ConnInv`: what Read has returned and what is buffered are what has arrived,
and `recv` is called only with nothing buffered (`Bytes`); a Write that failed
has set the sticky error, and a send that is under way began without it
(`Stopped`); at most one goroutine is inside the Once of Close (`OneBody`);
behind it the connection is released and then marked (`Closed`); and an end of
stream that was sent has left its trace in a flag (`Ended`). The assumptions are
natural bounds and closers that are not the writer.

`OpenProofs` proves the safety properties of `OpenProtocol` for every set of
names, every allowlist and every set of reachable endpoints: `Answers`
(`TruthfulAnswer`), `OpenConnects` (`OpenMeansConnected`), `FailedDials`
(`FailedDialIsSeen`: what the agent's close frame says of a dial, however the
connection may be cut), `NoLeak` (`NoUpstreamLeak`) and `HonestChecks`
(`CheckIsHonest`). None of these is inductive: they are about what the client
has been told, and the answer is made elsewhere and earlier. `IInv` adds to the
types the invariant `Sound`, which follows the call: what the agent must have
checked to be where it is (`AgentSound`), what each answer on its way says of
that (`ReplySound`: a refusal that can still arrive is the verdict), and what
the client has made of it (`ClientSound`: until its first message is out, the
agent of a Connect call cannot have refused anything but at the door, which is
why an EOF hides no other refusal). The assumption is `NameAssumption`: the
allowlist is a set of names, the shell is on it and can always be served.

`ClientFilesProofs` proves `InvitedIsPinnedAlways`: `Spec => []InvitedIsPinned`,
for any agents, certificates, adds, commands and connections, and any files to
begin with that agree with the invites. The property is about a certificate that
was accepted; `PinInv` follows the invite's fingerprint to it. Whatever parses
among the files under either name agrees with the invites (`FilesOK`), however
adds overlap, because a write that meets another one leaves what does not parse;
so does what an add has loaded and set (`AddersTyped`), what a command has read
(`UserOK`) and the pin its connections took (`ConnOK`). A connection to an
invited agent therefore has a pin, and never records. The assumptions are that
an agent of `Invite` is only added from it, and that a truncated or half-written
file does not parse.

`ConfigIsWhatWasAddedAlways` is `Spec => []ConfigIsWhatWasAdded`. `SaveInv`
holds until two adds overlap: one add runs at a time; what it has loaded agrees
with what was added but for its own entry; what it has open is the temporary
file, truncated before the write and whole behind it; and neither that file nor
the one it would create is the configuration (`Apart`), so that an add may end
anywhere. Its types come from `PinInv`.

`TrustHoldsAlways` is `Spec => []TrustHolds`, for any numbers of commands and of
connections. The property speaks of moments at which nobody records;
`TrustInv` says why recordings do not lose one another. While `tidy`, one
recording is made at a time, by a command that knows of every earlier one
(`Records`), and the file does not parse while it is made (`FileHolds`). A
connection that may still record either is `behind`, or nobody is recording and
its command knows all that is trusted, which is nothing about its own agent
(`MayRecord`): so a recording that starts makes every other such connection
`behind`, and what it writes back contains what the file held. `Keeps` follows
the certificate a user was told of to every pin the command's connections have
taken. No assumption but those of the module is used.

`AgentFilesProofs` proves `AuthorizedIsKept`, `ServedPairIsWhole`,
`RestartKeepsIdentity` and `InviteIsHonoured`, for any set of commands that run
at once and end anywhere. Each is about what commands hold when they are done,
while what matters happens between two steps of one and a step of another.
`AgentInv` therefore says where every command is in its plan. `KeptInv`: an
authorize that goes on has its append still ahead or its key in the file, and
`PairInv`: of a server, what is left of its plan says which of its certificate
and key it holds and that they belong together; no file needs to be known for
that, since it makes a new pair when the two it read do not match. The other two
hold for an operator who follows the docs, and there (`GuidedInv`) one of two
things is true. Either the first init runs alone, and what is left of its plan
says which files are whole (`Fresh`); or the files are whole, no command has a
step left that replaces the host key, the certificate or its key, nor the token
without `init --force`, and what a command has read, or will, is what is in them
(`Settled`). That a plan changes only at its head is `HeadReplaced`; `Outcomes`
lists what the step a plan names can do. The assumption is `ProcAssumption`: the
values that stand for files without content are not names of makers.

`SshdProofs` proves `OutputIsComplete`: `Spec => []OutputComplete`. Of each chunk
the child has written `OutInv` says that it is sent, in the copy's buffer or
still to be read while the copy runs (`Located`); that the handler is past its
wait only behind the end of the copy or the grace period, with the pty open
until then (`Ordered`); and so that a copy which ends otherwise has sent
everything (`Complete`). The assumption is that a pipe holds a chunk.

`SessionsProofs` proves `ReturnedIsReleased`: `Spec => []ReturnedMeansReleased`
for any finite number of connections. `CountInv` says that the WaitGroup's
counter is the number of connections that have been accepted and not released;
only a spliced one has copies or a tunnel; and a closed listener has no backlog.

With that every safety property the passing runs check and the refinement are
theorems. They need no induction over
data: where a plan or a buffer is taken apart, the facts of the library about
sequences are enough, and no module declares a recursive operator.

**Only model-checked:** liveness, that is `SessionEnds`, `CutEndsAgent`,
`CutEndsClient`, `CloseReleases`, `HalfCloseCrosses`, `DownloadCompletes`,
`CloseReturns`, `CloseWakesReader`, `CallReturns`, `ClientGoneIsNoticed`,
`ConnectionsAreAnswered`, `StopsEnd`, `SessionEndsWithChild`, `CopiesEnd` and
`InputEnd`. Each rests on fairness, and TLAPS here has neither ENABLED nor the
rules for it. The runs that are violated, and the configurations a reader may run
by hand, are counterexamples and need no proof.

## What was found

`PROJECT.json` quotes the code and the comments for each of these.

Shown by a run that is **violated**: an upload is lost when the service ends its
own stream first (`TunnelLosesUpload`); a WebSocket that is cut with a FIN and no
close frame passes a truncated download on as a whole one (`TunnelBareFin`); a
shell that is idle outlives its connection, with its handler (`SshdDropped`).

Shown by a configuration to be run by hand, each of which violates its one
property:

| Configuration | Module | What it shows |
|---|---|---|
| `TunnelCutHangs.cfg` | `MCTunnel` | a cut does not end a splice whose local application is idle |
| `TunnelCloseLeaks.cfg` | `MCTunnel` | over Connect, Close leaves the agent blocked in Send |
| `TunnelNoReader.cfg` | `MCTunnel` | after a half-close nobody reads the agent's WebSocket |
| `AgentEmptyToken.cfg` | `MCAgentFiles` | an init that failed half-way leaves an agent without a token |
| `SessionsCtrlC.cfg` | `Sessions` | a Ctrl-C does not end `client connect` while a local application is idle |

Shown by taking the premise from a property: two adds that overlap can leave an
empty `config.json`, or lose an entry (`ConfigIsWhatWasAdded` without
`~overlapped`); a `known_agents.json` that is read while it is truncated is
ignored, and another certificate accepted for an agent whose user was told that
it would be refused, as it is by two first connections at once (`TrustHolds`
without `tidy`).

In the model as it is: a certificate whose key is missing is replaced and not
reported; `Reload` is not called by a running server; a key appended to an
unfinished line is lost; an agent that is stopped takes its WebSocket tunnels
with it.

Properties that hold carry the exceptions the code needs, next to their
definitions: the agent's FIN after a failed copy (`FinIsFaithful` and
`CutIsNotAnEnd` are about the client), a WebSocket's bare FIN
(`CleanCopyIsComplete`, `FinIsFaithful`, and `DuplexPipe`, whose direction it
breaks), a cut during the dial (`FailedDialIsSeen` is about the agent's word), a
tunnel that is served when its client is gone (`ClientGoneIsNoticed`), Close on the agent's side of a Connect stream (`CloseReturns`), Open
behind a proxy that buffers (`CallReturns`), operators who do not run init first
(`InviteIsHonoured`), an Accept that failed (`ConnectionsAreAnswered`), an
application that never leaves (`StopsEnd`), output that takes longer than the
grace period (`OutputComplete`).

## What is not modelled

- The contents of TLS, SSH, HTTP/2 and WebSocket frames: libraries.
- Key authentication in `sshd.go`, which asks `AuthorizedKeys` once per
  connection; the list is read when the server starts (`AgentFiles`).
- Changes of the window size of a shell, the environment and the exit code of a
  child: an exit status is sent or it is not.
- The invite's encoding, `HostAlias`, name listing, flag parsing, prompts and
  output: no state. `HostAlias` maps `a.b` and `a-b` to one alias, which is
  listed as a hazard.
- `--insecure`, `--token`, `--tls-fingerprint`, `--tls-cert` and `--h2c`, which
  leave files out; generated code.
- The loss of what was written but not synced in a power failure: a crash here
  is one of a process.

Time is not counted: a timer may expire whenever it is armed.

## Plan

1. Done: `Tunnel`, `DuplexPipe`, `TunnelProofs`, `PipeProofs`, `StreamConn`,
   `StreamConnProofs`, `OpenProtocol`, `OpenProofs`, `AgentFiles`,
   `AgentFilesProofs`, `ClientFiles`, `ClientFilesProofs`, `Sessions`,
   `SessionsProofs`, `Sshd`, `SshdProofs`.
2. The safety counterpart of a finding: that `InitMeansToken` holds as long as no
   init ends between creating the token file and writing it.
3. `Enrolment`, which would compose `AgentFiles` with `ClientFiles`: invite,
   add, connect. Until then the certificate of an invite is the meeting point:
   `InviteIsHonoured` says that the agent presents it, `InvitedIsPinned` that
   the client accepts nothing else.
