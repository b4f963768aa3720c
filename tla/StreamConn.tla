----------------------------- MODULE StreamConn -----------------------------
(***************************************************************************)
(* streamconn.Conn: a message stream made a net.Conn.                      *)
(*                                                                         *)
(* One goroutine reads, one writes and half-closes, and any of Closers     *)
(* calls Close, at the same time (Proxy and the SSH server do).  The four  *)
(* kinds are the four ways the program builds a Conn: they differ in which *)
(* callbacks there are and in what wakes one that blocks.  Bytes and       *)
(* written chunks are numbered.                                            *)
(***************************************************************************)
EXTENDS Naturals, Sequences

CONSTANTS
    Closers,   \* the goroutines that call Close
    MaxWrite,  \* bound: calls of Write
    MaxByte,   \* bound: bytes received
    MaxChunk,  \* bound: bytes in one message
    MaxRead    \* bound: the buffer given to Read

ASSUME ConnAssumption ==
    /\ MaxWrite \in Nat /\ MaxByte \in Nat /\ MaxChunk \in Nat /\ MaxRead \in Nat
    /\ "writer" \notin Closers /\ "free" \notin Closers

Kind == {"clientConnect", "serverConnect", "clientWS", "serverWS"}

VARIABLES
    kind,
    rest, readErr,   \* what Read has buffered, and its sticky error
    rd,              \* the reader: "idle", or "recv" inside c.recv()
    reads, arrived,  \* the bytes Read has returned; how many recv has
    writeMu,         \* who holds it, or "free"
    writeErr,        \* the sticky error of Write
    wr,              \* the writer: "idle", "send", "half" or "done"
    results,         \* of each Write that has returned: did it succeed
    late,            \* the current Write began after a Close had returned
    closer,          \* closer[c]: where in Close c is
    closeOnce,       \* "new", "running" or "done"
    halfOnce,        \* wsconn's once has run
    \* the transport underneath
    marks,           \* ends of stream sent
    sendShut,        \* CloseRequest has been called
    released,        \* closeAll has been called
    room,            \* the peer takes what is sent
    up               \* the transport works

readVars == <<rest, readErr, rd, reads, arrived>>
writeVars == <<writeErr, wr, results, late>>
closeVars == <<closer, closeOnce>>
streamVars == <<halfOnce, marks, sendShut, released, room, up>>
vars == <<kind, readVars, writeMu, writeVars, closeVars, streamVars>>

Init ==
    /\ kind \in Kind
    /\ rest = <<>> /\ readErr = FALSE /\ rd = "idle" /\ reads = <<>> /\ arrived = 0
    /\ writeMu = "free"
    /\ writeErr = FALSE /\ wr = "idle" /\ results = <<>> /\ late = FALSE
    /\ closer = [c \in Closers |-> "idle"] /\ closeOnce = "new"
    /\ halfOnce = FALSE /\ marks = 0 /\ sendShut = FALSE /\ released = FALSE
    /\ room = TRUE /\ up = TRUE

IsWS == kind \in {"clientWS", "serverWS"}
HasCloseSend == kind \in {"clientConnect", "clientWS"}
Returned == \E c \in Closers : closer[c] = "returned"

-----------------------------------------------------------------------------
(* Read *)

\* variant: what did not fit is forgotten
ReadDropsRest(k) ==
    LET n == IF k < Len(rest) THEN k ELSE Len(rest)
    IN  /\ rd = "idle" /\ rest # <<>>
        /\ reads' = reads \o SubSeq(rest, 1, n)
        /\ rest' = <<>>
        /\ UNCHANGED <<kind, readErr, rd, arrived, writeMu, writeVars, closeVars, streamVars>>

\* Read copies what is buffered, as much as fits in a buffer of k bytes.
ReadBuffered(k) ==
    LET n == IF k < Len(rest) THEN k ELSE Len(rest)
    IN  /\ rd = "idle" /\ rest # <<>>
        /\ reads' = reads \o SubSeq(rest, 1, n)
        /\ rest' = SubSeq(rest, n + 1, Len(rest))
        /\ UNCHANGED <<kind, readErr, rd, arrived, writeMu, writeVars, closeVars, streamVars>>

\* With nothing buffered it waits in recv, unless recv has failed before.
ReadRecv ==
    /\ rd = "idle" /\ rest = <<>> /\ ~readErr
    /\ rd' = "recv"
    /\ UNCHANGED <<kind, rest, readErr, reads, arrived, writeMu, writeVars, closeVars, streamVars>>

\* A message of n bytes; an empty one only goes round Read's loop.
RecvChunk(n) ==
    /\ rd = "recv" /\ up /\ ~released /\ arrived + n <= MaxByte
    /\ rest' = [i \in 1 .. n |-> arrived + i]
    /\ arrived' = arrived + n
    /\ rd' = IF n = 0 THEN "recv" ELSE "idle"
    /\ UNCHANGED <<kind, readErr, reads, writeMu, writeVars, closeVars, streamVars>>

\* The peer ends its stream, or the transport fails under recv.
RecvFails ==
    /\ rd = "recv"
    /\ readErr' = TRUE /\ rd' = "idle"
    /\ UNCHANGED <<kind, rest, reads, arrived, writeMu, writeVars, closeVars, streamVars>>

-----------------------------------------------------------------------------
(* Write and CloseWrite *)

WriteBegin ==
    /\ wr = "idle" /\ writeMu = "free" /\ Len(results) < MaxWrite
    /\ IF writeErr
       THEN results' = Append(results, FALSE) /\ UNCHANGED <<writeMu, wr, late>>
       ELSE writeMu' = "writer" /\ wr' = "send" /\ late' = Returned /\ UNCHANGED results
    /\ UNCHANGED <<kind, readVars, writeErr, closeVars, streamVars>>

\* A send that cannot succeed any more returns, even if it was blocked:
\* CloseRequest and the end of the transport wake it.
SendRefused == ~up \/ released \/ sendShut

SendOK ==
    /\ wr = "send" /\ room /\ ~SendRefused
    /\ results' = Append(results, TRUE)
    /\ writeMu' = "free" /\ wr' = "idle"
    /\ UNCHANGED <<kind, readVars, writeErr, late, closeVars, streamVars>>

\* variant: the error is returned and not kept
SendFailsOnce ==
    /\ wr = "send"
    /\ results' = Append(results, FALSE)
    /\ writeMu' = "free" /\ wr' = "idle"
    /\ UNCHANGED <<kind, readVars, writeErr, late, closeVars, streamVars>>

\* A send may also fail for its own chunk, on a transport that works.
SendFails ==
    /\ wr = "send"
    /\ results' = Append(results, FALSE)
    /\ writeErr' = TRUE
    /\ writeMu' = "free" /\ wr' = "idle"
    /\ UNCHANGED <<kind, readVars, late, closeVars, streamVars>>

\* variant: no once around the control frame
CloseSendTwice ==
    \/ /\ kind = "clientConnect"
       /\ sendShut' = TRUE
       /\ marks' = IF up /\ ~sendShut THEN marks + 1 ELSE marks
       /\ UNCHANGED halfOnce
    \/ /\ kind = "clientWS"
       /\ \/ room /\ ~SendRefused /\ marks' = marks + 1
          \/ SendRefused /\ UNCHANGED marks
       /\ UNCHANGED <<halfOnce, sendShut>>

\* The closeSend callback.  CloseRequest does not wait.  On a WebSocket the
\* control frame waits for room as data does; the once counts a failed try.
CloseSend ==
    \/ /\ kind = "clientConnect"
       /\ sendShut' = TRUE
       /\ marks' = IF up /\ ~sendShut THEN marks + 1 ELSE marks
       /\ UNCHANGED halfOnce
    \/ /\ kind = "clientWS"
       /\ \/ halfOnce /\ UNCHANGED marks
          \/ ~halfOnce /\ room /\ ~SendRefused /\ marks' = marks + 1
          \/ ~halfOnce /\ SendRefused /\ UNCHANGED marks
       /\ halfOnce' = TRUE
       /\ UNCHANGED sendShut

\* CloseWrite, by the goroutine that writes.
CloseWriteBegin ==
    /\ wr = "idle" /\ writeMu = "free"
    /\ IF HasCloseSend THEN wr' = "half" /\ writeMu' = "writer"
                       ELSE wr' = "done" /\ UNCHANGED writeMu
    /\ UNCHANGED <<kind, readVars, writeErr, results, late, closeVars, streamVars>>

CloseWriteEnd ==
    /\ wr = "half" /\ CloseSend
    /\ wr' = "done" /\ writeMu' = "free"
    /\ UNCHANGED <<kind, readVars, writeErr, results, late, closeVars, released, room, up>>

-----------------------------------------------------------------------------
(* Close *)

CloseCall(c) ==
    /\ closer[c] = "idle"
    /\ closer' = [closer EXCEPT ![c] = "once"]
    /\ UNCHANGED <<kind, readVars, writeMu, writeVars, closeOnce, streamVars>>

\* variant: a flag, so that a second Close does not wait for the first
CloseFlag(c) ==
    /\ closer[c] = "once"
    /\ closer' = [closer EXCEPT ![c] = IF closeOnce = "new" THEN "half" ELSE "returned"]
    /\ closeOnce' = IF closeOnce = "new" THEN "running" ELSE closeOnce
    /\ UNCHANGED <<kind, readVars, writeMu, writeVars, streamVars>>

\* sync.Once: the first caller runs the body, the others wait for its end.
CloseEnter(c) ==
    /\ closer[c] = "once"
    /\ \/ /\ closeOnce = "new" /\ closeOnce' = "running"
          /\ closer' = [closer EXCEPT ![c] = "half"]
       \/ /\ closeOnce = "done" /\ UNCHANGED closeOnce
          /\ closer' = [closer EXCEPT ![c] = "returned"]
    /\ UNCHANGED <<kind, readVars, writeMu, writeVars, streamVars>>

\* variant: Close takes writeMu first, as CloseWrite does
CloseHalfLocked(c) ==
    /\ closer[c] = "half" /\ writeMu = "free"
    /\ IF HasCloseSend THEN CloseSend ELSE UNCHANGED <<halfOnce, marks, sendShut>>
    /\ closer' = [closer EXCEPT ![c] = "release"]
    /\ UNCHANGED <<kind, readVars, writeMu, writeVars, closeOnce, released, room, up>>

CloseHalf(c) ==
    /\ closer[c] = "half"
    /\ IF HasCloseSend THEN CloseSend ELSE UNCHANGED <<halfOnce, marks, sendShut>>
    /\ closer' = [closer EXCEPT ![c] = "release"]
    /\ UNCHANGED <<kind, readVars, writeMu, writeVars, closeOnce, released, room, up>>

\* variant: a half-close that failed skips the release
CloseReleaseIfSent(c) ==
    /\ closer[c] = "release"
    /\ released' = (IsWS /\ (HasCloseSend => marks > 0))
    /\ closer' = [closer EXCEPT ![c] = "mark"]
    /\ UNCHANGED <<kind, readVars, writeMu, writeVars, closeOnce, halfOnce, marks, sendShut, room, up>>

\* variant: NewServer passes no Close
CloseReleaseClient(c) ==
    /\ closer[c] = "release"
    /\ released' = (kind = "clientWS")
    /\ closer' = [closer EXCEPT ![c] = "mark"]
    /\ UNCHANGED <<kind, readVars, writeMu, writeVars, closeOnce, halfOnce, marks, sendShut, room, up>>

\* A WebSocket has a closeAll, which cancels what is in flight.
CloseRelease(c) ==
    /\ closer[c] = "release"
    /\ released' = IsWS
    /\ closer' = [closer EXCEPT ![c] = "mark"]
    /\ UNCHANGED <<kind, readVars, writeMu, writeVars, closeOnce, halfOnce, marks, sendShut, room, up>>

CloseMark(c) ==
    /\ closer[c] = "mark" /\ writeMu = "free"
    /\ writeErr' = TRUE
    /\ closeOnce' = "done"
    /\ closer' = [closer EXCEPT ![c] = "returned"]
    /\ UNCHANGED <<kind, readVars, writeMu, wr, results, late, streamVars>>

-----------------------------------------------------------------------------
(* The peer, the network, and the keepalive of a WebSocket. *)

PeerStalls ==
    /\ room' = FALSE
    /\ UNCHANGED <<kind, readVars, writeMu, writeVars, closeVars, halfOnce, marks, sendShut, released, up>>

PeerReads ==
    /\ room' = TRUE
    /\ UNCHANGED <<kind, readVars, writeMu, writeVars, closeVars, halfOnce, marks, sendShut, released, up>>

Cut ==
    /\ up' = FALSE
    /\ UNCHANGED <<kind, readVars, writeMu, writeVars, closeVars, halfOnce, marks, sendShut, released, room>>

\* A ping cannot pass a peer that has stopped reading.
KeepaliveCloses ==
    /\ IsWS /\ ~room /\ ~released /\ Cut

-----------------------------------------------------------------------------
Read == \/ \E k \in 1 .. MaxRead : ReadBuffered(k)
        \/ ReadRecv \/ RecvFails
        \/ \E n \in 0 .. MaxChunk : RecvChunk(n)
Write == WriteBegin \/ SendOK \/ SendFails \/ CloseWriteBegin \/ CloseWriteEnd
CloseStep(c) == CloseEnter(c) \/ CloseHalf(c) \/ CloseRelease(c) \/ CloseMark(c)
Close == \E c \in Closers : CloseCall(c) \/ CloseStep(c)
Transport == PeerStalls \/ PeerReads \/ Cut \/ KeepaliveCloses

Next == Read \/ Write \/ Close \/ Transport

Spec == Init /\ [][Next]_vars

\* Goroutines run, a call whose transport is gone returns, a peer that stays
\* stalled is found out by the keepalive, and one that makes room again and
\* again lets what waits for room through (strong fairness).
FairSpec ==
    /\ Spec
    /\ WF_vars(RecvFails /\ (~up \/ released))
    /\ SF_vars(SendOK \/ (SendFails /\ SendRefused))
    /\ SF_vars(CloseWriteEnd)
    /\ \A c \in Closers : SF_vars(CloseStep(c))
    /\ WF_vars(KeepaliveCloses)

-----------------------------------------------------------------------------
(* Properties. *)

\* The lock is held exactly by a writer inside send or closeSend; the rest is
\* typing.
TypeOK ==
    /\ kind \in Kind
    /\ rest \in Seq(Nat) /\ reads \in Seq(Nat) /\ arrived \in 0 .. MaxByte
    /\ readErr \in BOOLEAN /\ rd \in {"idle", "recv"}
    /\ wr \in {"idle", "send", "half", "done"}
    /\ writeMu = IF wr \in {"send", "half"} THEN "writer" ELSE "free"
    /\ writeErr \in BOOLEAN /\ results \in Seq(BOOLEAN) /\ late \in BOOLEAN
    /\ closer \in [Closers -> {"idle", "once", "half", "release", "mark", "returned"}]
    /\ closeOnce \in {"new", "running", "done"}
    /\ halfOnce \in BOOLEAN /\ marks \in Nat /\ sendShut \in BOOLEAN
    /\ released \in BOOLEAN /\ room \in BOOLEAN /\ up \in BOOLEAN

\* However messages are cut into reads, every byte received is returned once
\* and in order, and the bytes before an error are returned before the error.
EveryByteOnce == reads \o rest = [i \in 1 .. arrived |-> i]

\* After a failed Write no later one succeeds: the stream never has a gap.
WritesStop ==
    \A i, j \in 1 .. Len(results) : i < j /\ results[j] => results[i]

\* A Write that begins after any Close has returned sends nothing, also when
\* two goroutines close at once.
ClosedIsUnusable == wr = "send" => ~late

\* CloseWrite and Close together end the stream once.
OneEndOfStream == marks <= 1

\* When Close has returned, a WebSocket's socket has been released, whatever
\* became of the half-close.
CloseAlwaysReleases == Returned /\ IsWS => released

\* Close returns, even with a Write blocked on a peer that does not read: its
\* own half-close or release wakes that Write.  The agent's side of a Connect
\* stream has neither, and there Close waits for the peer.
CloseReturns ==
    \A c \in Closers :
        closer[c] = "once" /\ kind # "serverConnect" ~> closer[c] = "returned"

\* On a WebSocket, Close also wakes the goroutine that waits in Read.
CloseWakesReader == Returned /\ IsWS ~> rd = "idle"
=============================================================================
