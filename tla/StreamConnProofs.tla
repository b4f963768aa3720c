--------------------------- MODULE StreamConnProofs ---------------------------
(***************************************************************************)
(* Proofs about StreamConn, for any number of goroutines that call Close   *)
(* and any bounds: what Read returns, what a failed Write and a returned   *)
(* Close forbid, and that the half-close and the release happen once and   *)
(* in every case.                                                          *)
(***************************************************************************)
EXTENDS StreamConn, SequenceTheorems, TLAPS

-----------------------------------------------------------------------------
(* The invariant.  Bytes: what has been read and what is buffered are what *)
(* has arrived, and recv is only called with nothing buffered.  Stopped:   *)
(* an error a Write has returned is kept, and a send that is under way     *)
(* began without one.  OneBody: at most one goroutine is inside the Once   *)
(* of Close.  Closed: what is true once that body has gone so far.  Ended: *)
(* an end of stream has left its trace.                                    *)

Bytes ==
    /\ EveryByteOnce
    /\ rd = "recv" => rest = <<>>

Stopped ==
    /\ \A i \in 1 .. Len(results) : ~results[i] => writeErr
    /\ wr = "send" => ~writeErr
    /\ WritesStop

InBody(c) == closer[c] \in {"half", "release", "mark"}

OneBody ==
    /\ \A c \in Closers : InBody(c) => closeOnce = "running"
    /\ \A c, d \in Closers : InBody(c) /\ InBody(d) => c = d

Closed ==
    /\ \A c \in Closers : closer[c] = "returned" => closeOnce = "done"
    /\ closeOnce = "done" => writeErr /\ (IsWS => released)
    /\ \A c \in Closers : closer[c] = "mark" => (IsWS => released)
    /\ ClosedIsUnusable

Ended ==
    /\ OneEndOfStream
    /\ kind = "clientConnect" /\ ~sendShut => marks = 0
    /\ kind = "clientWS" /\ ~halfOnce => marks = 0

ConnInv == TypeOK /\ Bytes /\ Stopped /\ OneBody /\ Closed /\ Ended

-----------------------------------------------------------------------------
(* Sequences. *)

\* Taking the first n elements off a buffer and putting them behind what has
\* been taken before leaves the two together as they were.
LEMMA TakeFromBuffer ==
    ASSUME NEW S, NEW taken \in Seq(S), NEW buffer \in Seq(S), NEW n \in 0 .. Len(buffer)
    PROVE  /\ SubSeq(buffer, 1, n) \in Seq(S)
           /\ SubSeq(buffer, n + 1, Len(buffer)) \in Seq(S)
           /\ (taken \o SubSeq(buffer, 1, n)) \o SubSeq(buffer, n + 1, Len(buffer)) = taken \o buffer
<1> DEFINE front == SubSeq(buffer, 1, n)
           back == SubSeq(buffer, n + 1, Len(buffer))
<1>1. Len(buffer) \in Nat /\ \A i \in 1 .. Len(buffer) : buffer[i] \in S
  BY LenProperties, ElementOfSeq
<1>2. front \in Seq(S)
  <2>1. \A i \in 1 .. n : buffer[i] \in S
    BY <1>1
  <2> QED  BY <2>1, <1>1, SubSeqProperties
<1>3. back \in Seq(S)
  <2>1. \A i \in n + 1 .. Len(buffer) : buffer[i] \in S
    BY <1>1
  <2> QED  BY <2>1, <1>1, SubSeqProperties
<1>4. front \o back = buffer
  <2>1. SubSeq(buffer, 1, n) \o SubSeq(buffer, n + 1, Len(buffer)) = SubSeq(buffer, 1, Len(buffer))
    <3>1. 1 \in 1 .. Len(buffer) + 1 /\ n \in 1 - 1 .. Len(buffer) /\ Len(buffer) \in n .. Len(buffer)
      BY <1>1
    <3> QED  BY <3>1, ConcatAdjacentSubSeq
  <2> QED  BY <2>1, SubSeqFull
<1>5. (taken \o front) \o back = taken \o (front \o back)
  <2> HIDE DEF front, back
  <2> QED  BY <1>2, <1>3, ConcatAssociative
<1> QED  BY <1>2, <1>3, <1>4, <1>5

\* The n bytes that follow the first m are numbered from m + 1.
LEMMA CountOn ==
    ASSUME NEW m \in Nat, NEW n \in Nat
    PROVE  /\ [i \in 1 .. n |-> m + i] \in Seq(Nat)
           /\ [i \in 1 .. m |-> i] \o [i \in 1 .. n |-> m + i] = [i \in 1 .. m + n |-> i]
<1> DEFINE old == [i \in 1 .. m |-> i]
           new == [i \in 1 .. n |-> m + i]
           all == [i \in 1 .. m + n |-> i]
<1>1. old \in Seq(Nat) /\ Len(old) = m
  OBVIOUS
<1>2. new \in Seq(Nat) /\ Len(new) = n
  OBVIOUS
<1>3. all \in Seq(Nat) /\ Len(all) = m + n
  OBVIOUS
<1>4. old \o new \in Seq(Nat) /\ Len(old \o new) = m + n
  BY <1>1, <1>2, ConcatProperties
<1>5. ASSUME NEW i \in 1 .. m + n PROVE (old \o new)[i] = all[i]
  <2>1. (old \o new)[i] = IF i <= m THEN old[i] ELSE new[i - m]
    BY <1>1, <1>2, ConcatProperties
  <2> QED  BY <2>1
<1>6. old \o new = all
  <2> HIDE DEF old, new, all
  <2> QED  BY <1>3, <1>4, <1>5, SeqEqual
<1> QED  BY <1>2, <1>6

-----------------------------------------------------------------------------
(* Each conjunct is about a few variables: a step that leaves those alone  *)
(* keeps it.                                                               *)

LEMMA BytesKept ==
    ASSUME Bytes, UNCHANGED <<rest, rd, reads, arrived>>
    PROVE  Bytes'
BY DEF Bytes, EveryByteOnce

LEMMA StoppedKept ==
    ASSUME Stopped, UNCHANGED <<writeErr, wr, results>>
    PROVE  Stopped'
BY DEF Stopped, WritesStop

LEMMA OneBodyKept ==
    ASSUME OneBody, UNCHANGED closeVars
    PROVE  OneBody'
BY DEF OneBody, InBody, closeVars

LEMMA ClosedKept ==
    ASSUME Closed, UNCHANGED <<kind, closeVars, writeErr, released, wr, late>>
    PROVE  Closed'
BY DEF Closed, ClosedIsUnusable, IsWS, closeVars

LEMMA EndedKept ==
    ASSUME Ended, UNCHANGED <<kind, sendShut, halfOnce, marks>>
    PROVE  Ended'
BY DEF Ended, OneEndOfStream

LEMMA ConnInit == Init => ConnInv
<1> SUFFICES ASSUME Init PROVE ConnInv
  OBVIOUS
<1>1. TypeOK
  <2>1. arrived \in 0 .. MaxByte /\ marks \in Nat
    BY ConnAssumption DEF Init
  <2>2. closer \in [Closers -> {"idle", "once", "half", "release", "mark", "returned"}]
    BY DEF Init
  <2>3. rest \in Seq(Nat) /\ reads \in Seq(Nat) /\ results \in Seq(BOOLEAN)
    BY DEF Init
  <2>4. writeMu = IF wr \in {"send", "half"} THEN "writer" ELSE "free"
    BY DEF Init
  <2> QED  BY <2>1, <2>2, <2>3, <2>4, Zenon DEF Init, TypeOK
<1>2. Bytes
  <2>1. [i \in 1 .. 0 |-> i] = <<>>
    OBVIOUS
  <2>2. <<>> \o <<>> = <<>>
    OBVIOUS
  <2> QED  BY <2>1, <2>2 DEF Init, Bytes, EveryByteOnce
<1>3. Stopped
  BY DEF Init, Stopped, WritesStop
<1>4. OneBody /\ Closed /\ Ended
  BY DEF Init, OneBody, InBody, Closed, ClosedIsUnusable, Ended, OneEndOfStream
<1> QED  BY <1>1, <1>2, <1>3, <1>4 DEF ConnInv

-----------------------------------------------------------------------------
(* Read. *)

LEMMA ReadBufferedStep ==
    ASSUME ConnInv, NEW k \in 1 .. MaxRead, ReadBuffered(k)
    PROVE  ConnInv'
<1> DEFINE n == IF k < Len(rest) THEN k ELSE Len(rest)
<1>1. rest \in Seq(Nat) /\ reads \in Seq(Nat) /\ n \in 0 .. Len(rest)
  BY DEF ConnInv, TypeOK
<1>2. /\ reads' = reads \o SubSeq(rest, 1, n)
      /\ rest' = SubSeq(rest, n + 1, Len(rest))
      /\ SubSeq(rest, 1, n) \in Seq(Nat)
      /\ rest' \in Seq(Nat)
      /\ reads' \o rest' = reads \o rest
  <2> HIDE DEF n
  <2>1. reads' = reads \o SubSeq(rest, 1, n) /\ rest' = SubSeq(rest, n + 1, Len(rest))
    BY DEF ReadBuffered, n
  <2> QED  BY <2>1, <1>1, TakeFromBuffer, ZenonT(30)
<1>3. reads' \in Seq(Nat)
  <2> HIDE DEF n
  <2> QED  BY <1>1, <1>2, ConcatProperties
<1>4. /\ rd = "idle"
      /\ UNCHANGED <<kind, readErr, rd, arrived, writeMu, writeVars, closeVars, streamVars>>
  BY DEF ReadBuffered
<1> HIDE DEF n
<1>5. TypeOK'
  BY <1>2, <1>3, <1>4, ZenonT(30) DEF ConnInv, TypeOK, writeVars, closeVars, streamVars
<1>6. Bytes'
  BY <1>2, <1>4 DEF ConnInv, Bytes, EveryByteOnce
<1>7. Stopped' /\ OneBody' /\ Closed' /\ Ended'
  BY <1>4, StoppedKept, OneBodyKept, ClosedKept, EndedKept
  DEF ConnInv, writeVars, closeVars, streamVars
<1> QED  BY <1>5, <1>6, <1>7 DEF ConnInv

LEMMA ReadRecvStep == ConnInv /\ (ReadRecv \/ RecvFails) => ConnInv'
<1> SUFFICES ASSUME ConnInv, ReadRecv \/ RecvFails PROVE ConnInv'
  OBVIOUS
<1>1. UNCHANGED <<kind, rest, reads, arrived, writeMu, writeVars, closeVars, streamVars>>
  BY DEF ReadRecv, RecvFails
<1>2. rd' \in {"idle", "recv"} /\ readErr' \in BOOLEAN /\ (rd' = "recv" => rest = <<>>)
  BY DEF ReadRecv, RecvFails, ConnInv, TypeOK
<1>3. TypeOK'
  BY <1>1, <1>2 DEF ConnInv, TypeOK, writeVars, closeVars, streamVars
<1>4. Bytes'
  BY <1>1, <1>2 DEF ConnInv, Bytes, EveryByteOnce
<1>5. Stopped' /\ OneBody' /\ Closed' /\ Ended'
  BY <1>1, StoppedKept, OneBodyKept, ClosedKept, EndedKept
  DEF ConnInv, writeVars, closeVars, streamVars
<1> QED  BY <1>3, <1>4, <1>5 DEF ConnInv

LEMMA RecvChunkStep ==
    ASSUME ConnInv, NEW n \in 0 .. MaxChunk, RecvChunk(n)
    PROVE  ConnInv'
<1>1. /\ rd = "recv" /\ arrived + n <= MaxByte
      /\ rest' = [i \in 1 .. n |-> arrived + i]
      /\ arrived' = arrived + n
      /\ rd' = IF n = 0 THEN "recv" ELSE "idle"
      /\ UNCHANGED <<kind, readErr, reads, writeMu, writeVars, closeVars, streamVars>>
  BY DEF RecvChunk
<1>2. arrived \in Nat /\ n \in Nat /\ reads \in Seq(Nat) /\ arrived' \in 0 .. MaxByte
  BY <1>1, ConnAssumption DEF ConnInv, TypeOK
<1>3. reads = [i \in 1 .. arrived |-> i]
  <2>1. reads \o <<>> = reads
    BY <1>2, ConcatEmptySeq
  <2> QED  BY <2>1, <1>1 DEF ConnInv, Bytes, EveryByteOnce
<1>4. rest' \in Seq(Nat) /\ reads' \o rest' = [i \in 1 .. arrived' |-> i]
  BY <1>1, <1>2, <1>3, CountOn
<1>5. rd' = "recv" => rest' = <<>>
  BY <1>1
<1>6. TypeOK'
  BY <1>1, <1>2, <1>4 DEF ConnInv, TypeOK, writeVars, closeVars, streamVars
<1>7. Bytes'
  BY <1>4, <1>5 DEF Bytes, EveryByteOnce
<1>8. Stopped' /\ OneBody' /\ Closed' /\ Ended'
  BY <1>1, StoppedKept, OneBodyKept, ClosedKept, EndedKept
  DEF ConnInv, writeVars, closeVars, streamVars
<1> QED  BY <1>6, <1>7, <1>8 DEF ConnInv

-----------------------------------------------------------------------------
(* Write and CloseWrite. *)

\* A result that is appended must not follow a failed one, unless it is a
\* failure itself.
LEMMA ResultAppended ==
    ASSUME TypeOK, Stopped, NEW ok \in BOOLEAN, results' = Append(results, ok),
           ok => ~writeErr, writeErr => writeErr', ok \/ writeErr', wr' # "send"
    PROVE  Stopped'
<1>1. /\ results \in Seq(BOOLEAN) /\ Len(results) \in Nat
      /\ Len(results') = Len(results) + 1
      /\ \A i \in 1 .. Len(results) : results'[i] = results[i]
      /\ results'[Len(results) + 1] = ok
  <2>1. results \in Seq(BOOLEAN)
    BY DEF TypeOK
  <2> QED  BY <2>1, AppendProperties, LenProperties
<1>2. ASSUME NEW i \in 1 .. Len(results'), ~results'[i] PROVE writeErr'
  <2>1. CASE i \in 1 .. Len(results)
    <3>1. ~results[i]
      BY <1>1, <1>2, <2>1
    <3> QED  BY <2>1, <3>1 DEF Stopped
  <2>2. CASE i = Len(results) + 1
    <3>1. ~ok
      BY <1>1, <1>2, <2>2
    <3> QED  BY <3>1
  <2> QED  BY <2>1, <2>2, <1>1
<1>3. ASSUME NEW i \in 1 .. Len(results'), NEW j \in 1 .. Len(results'),
             i < j, results'[j]
      PROVE  results'[i]
  <2>1. i \in 1 .. Len(results) /\ results'[i] = results[i]
    BY <1>1, <1>3
  <2>2. CASE j \in 1 .. Len(results)
    <3>1. results[j]
      BY <1>1, <1>3, <2>2
    <3> QED  BY <2>1, <2>2, <3>1, <1>3 DEF Stopped, WritesStop
  <2>3. CASE j = Len(results) + 1
    <3>1. ok
      BY <1>1, <1>3, <2>3
    <3>2. results[i]
      BY <3>1, <2>1 DEF Stopped
    <3> QED  BY <3>2, <2>1
  <2> QED  BY <2>2, <2>3, <1>1
<1> QED  BY <1>2, <1>3 DEF Stopped, WritesStop

LEMMA WriteBeginStep == ConnInv /\ WriteBegin => ConnInv'
<1> SUFFICES ASSUME ConnInv, WriteBegin PROVE ConnInv'
  OBVIOUS
<1>1. /\ wr = "idle" /\ writeMu = "free"
      /\ UNCHANGED <<kind, readVars, writeErr, closeVars, streamVars>>
  BY DEF WriteBegin
<1>2. Bytes' /\ OneBody' /\ Ended'
  BY <1>1, BytesKept, OneBodyKept, EndedKept DEF ConnInv, readVars, streamVars
<1>3. CASE writeErr
  <2>1. results' = Append(results, FALSE) /\ UNCHANGED <<writeMu, wr, late>>
    BY <1>3 DEF WriteBegin
  <2>2. results' \in Seq(BOOLEAN)
    BY <2>1, AppendProperties DEF ConnInv, TypeOK
  <2>3. TypeOK'
    BY <1>1, <2>1, <2>2 DEF ConnInv, TypeOK, readVars, closeVars, streamVars
  <2>4. Stopped'
    BY <1>1, <1>3, <2>1, ResultAppended DEF ConnInv
  <2>5. Closed'
    BY <1>1, <2>1, ClosedKept DEF ConnInv, streamVars
  <2> QED  BY <1>2, <2>3, <2>4, <2>5 DEF ConnInv
<1>4. CASE ~writeErr
  <2>1. writeMu' = "writer" /\ wr' = "send" /\ UNCHANGED results
    BY <1>4 DEF WriteBegin
  <2>2. ~Returned
    BY <1>4 DEF ConnInv, Closed, Returned
  <2>3. late' = FALSE
    BY <1>4, <2>2 DEF WriteBegin
  <2>4. TypeOK'
    BY <1>1, <2>1, <2>3 DEF ConnInv, TypeOK, readVars, closeVars, streamVars
  <2>5. Stopped'
    BY <1>1, <1>4, <2>1 DEF ConnInv, Stopped, WritesStop
  <2>6. Closed'
    BY <1>1, <2>1, <2>3 DEF ConnInv, Closed, ClosedIsUnusable, IsWS, closeVars, streamVars
  <2> QED  BY <1>2, <2>4, <2>5, <2>6 DEF ConnInv
<1> QED  BY <1>3, <1>4

LEMMA SendStep == ConnInv /\ (SendOK \/ SendFails) => ConnInv'
<1> SUFFICES ASSUME ConnInv, SendOK \/ SendFails PROVE ConnInv'
  OBVIOUS
<1>1. /\ wr = "send" /\ writeMu' = "free" /\ wr' = "idle"
      /\ UNCHANGED <<kind, readVars, late, closeVars, streamVars>>
  BY DEF SendOK, SendFails
<1>2. ~writeErr
  BY <1>1 DEF ConnInv, Stopped
<1>3. Bytes' /\ OneBody' /\ Ended'
  BY <1>1, BytesKept, OneBodyKept, EndedKept DEF ConnInv, readVars, streamVars
<1>4. /\ writeErr' \in BOOLEAN
      /\ \E ok \in BOOLEAN : /\ results' = Append(results, ok)
                             /\ ok \/ writeErr'
  <2>1. CASE SendOK
    BY <2>1 DEF SendOK, ConnInv, TypeOK
  <2>2. CASE SendFails
    BY <2>2 DEF SendFails
  <2> QED  BY <2>1, <2>2
<1>5. PICK ok \in BOOLEAN : results' = Append(results, ok) /\ (ok \/ writeErr')
  BY <1>4
<1>6. Stopped'
  BY <1>1, <1>2, <1>5, ResultAppended DEF ConnInv
<1>7. results' \in Seq(BOOLEAN)
  BY <1>5, AppendProperties DEF ConnInv, TypeOK
<1>8. TypeOK'
  BY <1>1, <1>4, <1>7 DEF ConnInv, TypeOK, readVars, closeVars, streamVars
<1>9. Closed'
  BY <1>1, <1>2 DEF ConnInv, Closed, ClosedIsUnusable, IsWS, closeVars, streamVars
<1> QED  BY <1>3, <1>6, <1>8, <1>9 DEF ConnInv

\* The end of stream is sent once, by whichever of CloseWrite and Close calls
\* closeSend first.
LEMMA CloseSendOnce ==
    ASSUME TypeOK, Ended, CloseSend, UNCHANGED kind
    PROVE  Ended' /\ marks' \in Nat /\ sendShut' \in BOOLEAN /\ halfOnce' \in BOOLEAN
<1>1. marks \in Nat /\ sendShut \in BOOLEAN /\ halfOnce \in BOOLEAN
  BY DEF TypeOK
<1>2. CASE kind = "clientConnect" /\ sendShut' = TRUE /\ UNCHANGED halfOnce
           /\ marks' = IF up /\ ~sendShut THEN marks + 1 ELSE marks
  BY <1>1, <1>2 DEF Ended, OneEndOfStream
<1>3. CASE /\ kind = "clientWS" /\ halfOnce' = TRUE /\ UNCHANGED sendShut
           /\ \/ UNCHANGED marks
              \/ ~halfOnce /\ marks' = marks + 1
  BY <1>1, <1>3 DEF Ended, OneEndOfStream
<1> QED  BY <1>2, <1>3 DEF CloseSend

LEMMA CloseWriteStep == ConnInv /\ (CloseWriteBegin \/ CloseWriteEnd) => ConnInv'
<1> SUFFICES ASSUME ConnInv, CloseWriteBegin \/ CloseWriteEnd PROVE ConnInv'
  OBVIOUS
<1>1. /\ wr \in {"idle", "half"} /\ wr' \in {"half", "done"}
      /\ writeMu' = IF wr' \in {"send", "half"} THEN "writer" ELSE "free"
      /\ UNCHANGED <<kind, readVars, writeErr, results, late, closeVars, released, room, up>>
  BY DEF CloseWriteBegin, CloseWriteEnd, streamVars, ConnInv, TypeOK
<1>2. Ended' /\ marks' \in Nat /\ sendShut' \in BOOLEAN /\ halfOnce' \in BOOLEAN
  <2>1. CASE CloseWriteBegin
    <3>1. UNCHANGED <<kind, streamVars>>
      BY <2>1 DEF CloseWriteBegin
    <3> QED  BY <3>1, EndedKept DEF ConnInv, TypeOK, streamVars
  <2>2. CASE CloseWriteEnd
    BY <2>2, CloseSendOnce DEF CloseWriteEnd, ConnInv
  <2> QED  BY <2>1, <2>2
<1>3. TypeOK'
  BY <1>1, <1>2 DEF ConnInv, TypeOK, readVars, closeVars
<1>4. Bytes' /\ OneBody'
  BY <1>1, BytesKept, OneBodyKept DEF ConnInv, readVars
<1>5. Stopped' /\ Closed'
  BY <1>1 DEF ConnInv, Stopped, WritesStop, Closed, ClosedIsUnusable, IsWS, closeVars
<1> QED  BY <1>2, <1>3, <1>4, <1>5 DEF ConnInv

-----------------------------------------------------------------------------
(* Close. *)

LEMMA CloseEnterStep ==
    ASSUME ConnInv, NEW c \in Closers, CloseCall(c) \/ CloseEnter(c)
    PROVE  ConnInv'
<1>1. UNCHANGED <<kind, readVars, writeMu, writeVars, streamVars>>
  BY DEF CloseCall, CloseEnter
<1>2. PICK at \in {"once", "half", "returned"} :
        /\ closer' = [closer EXCEPT ![c] = at]
        /\ closer[c] \in {"idle", "once"}
        /\ \/ at = "once" /\ closeOnce' = closeOnce
           \/ at = "half" /\ closeOnce = "new" /\ closeOnce' = "running"
           \/ at = "returned" /\ closeOnce = "done" /\ closeOnce' = closeOnce
  BY DEF CloseCall, CloseEnter
<1>3. /\ closer'[c] = at
      /\ \A d \in Closers : d # c => closer'[d] = closer[d]
  BY <1>2 DEF ConnInv, TypeOK
<1>4. TypeOK'
  <2>1. closer' \in [Closers -> {"idle", "once", "half", "release", "mark", "returned"}]
    BY <1>2 DEF ConnInv, TypeOK
  <2>2. closeOnce' \in {"new", "running", "done"}
    BY <1>2 DEF ConnInv, TypeOK
  <2> QED  BY <1>1, <2>1, <2>2 DEF ConnInv, TypeOK, readVars, writeVars, streamVars
<1>5. OneBody'
  BY <1>2, <1>3 DEF ConnInv, OneBody, InBody
<1>6. Closed'
  BY <1>1, <1>2, <1>3 DEF ConnInv, Closed, ClosedIsUnusable, IsWS, writeVars, streamVars
<1>7. Bytes' /\ Stopped' /\ Ended'
  BY <1>1, BytesKept, StoppedKept, EndedKept DEF ConnInv, readVars, writeVars, streamVars
<1> QED  BY <1>4, <1>5, <1>6, <1>7 DEF ConnInv

LEMMA CloseHalfStep ==
    ASSUME ConnInv, NEW c \in Closers, CloseHalf(c)
    PROVE  ConnInv'
<1>1. /\ closer[c] = "half" /\ closer' = [closer EXCEPT ![c] = "release"]
      /\ UNCHANGED <<kind, readVars, writeMu, writeVars, closeOnce, released, room, up>>
  BY DEF CloseHalf
<1>2. /\ closer'[c] = "release"
      /\ \A d \in Closers : d # c => closer'[d] = closer[d]
  BY <1>1 DEF ConnInv, TypeOK
<1>3. Ended' /\ marks' \in Nat /\ sendShut' \in BOOLEAN /\ halfOnce' \in BOOLEAN
  <2>1. CASE HasCloseSend
    BY <2>1, <1>1, CloseSendOnce DEF CloseHalf, ConnInv
  <2>2. CASE ~HasCloseSend
    BY <2>2, <1>1, EndedKept DEF CloseHalf, ConnInv, TypeOK
  <2> QED  BY <2>1, <2>2
<1>4. TypeOK'
  <2>1. closer' \in [Closers -> {"idle", "once", "half", "release", "mark", "returned"}]
    BY <1>1 DEF ConnInv, TypeOK
  <2> QED  BY <1>1, <1>3, <2>1 DEF ConnInv, TypeOK, readVars, writeVars
<1>5. OneBody'
  BY <1>1, <1>2 DEF ConnInv, OneBody, InBody
<1>6. Closed'
  BY <1>1, <1>2 DEF ConnInv, Closed, ClosedIsUnusable, IsWS, writeVars
<1>7. Bytes' /\ Stopped'
  BY <1>1, BytesKept, StoppedKept DEF ConnInv, readVars, writeVars
<1> QED  BY <1>3, <1>4, <1>5, <1>6, <1>7 DEF ConnInv

LEMMA CloseReleaseStep ==
    ASSUME ConnInv, NEW c \in Closers, CloseRelease(c)
    PROVE  ConnInv'
<1>1. /\ closer[c] = "release" /\ closer' = [closer EXCEPT ![c] = "mark"]
      /\ UNCHANGED <<kind, readVars, writeMu, writeVars, closeOnce, halfOnce, marks, sendShut, room, up>>
  BY DEF CloseRelease
<1>2. released' = IsWS
  BY DEF CloseRelease
<1>3. /\ closer'[c] = "mark"
      /\ \A d \in Closers : d # c => closer'[d] = closer[d]
  BY <1>1 DEF ConnInv, TypeOK
<1>4. released' \in BOOLEAN /\ (IsWS' => released')
  <2>1. IsWS \in BOOLEAN
    BY DEF IsWS
  <2>2. IsWS' => IsWS
    BY <1>1 DEF IsWS
  <2> HIDE DEF IsWS
  <2> QED  BY <1>2, <2>1, <2>2, Zenon
<1>5. TypeOK'
  <2>1. closer' \in [Closers -> {"idle", "once", "half", "release", "mark", "returned"}]
    BY <1>1 DEF ConnInv, TypeOK
  <2> QED  BY <1>1, <1>4, <2>1 DEF ConnInv, TypeOK, readVars, writeVars
<1>6. OneBody'
  BY <1>1, <1>3 DEF ConnInv, OneBody, InBody
<1>7. Closed'
  BY <1>1, <1>3, <1>4 DEF ConnInv, Closed, ClosedIsUnusable, writeVars
<1>8. Bytes' /\ Stopped' /\ Ended'
  BY <1>1, BytesKept, StoppedKept, EndedKept DEF ConnInv, readVars, writeVars
<1> QED  BY <1>5, <1>6, <1>7, <1>8 DEF ConnInv

\* The only goroutine in the body leaves it, and no send is under way, for
\* that would hold the lock.
LEMMA CloseMarkStep ==
    ASSUME ConnInv, NEW c \in Closers, CloseMark(c)
    PROVE  ConnInv'
<1>1. /\ closer[c] = "mark" /\ writeMu = "free"
      /\ writeErr' = TRUE /\ closeOnce' = "done"
      /\ closer' = [closer EXCEPT ![c] = "returned"]
      /\ UNCHANGED <<kind, readVars, writeMu, wr, results, late, streamVars>>
  BY DEF CloseMark
<1>2. /\ closer'[c] = "returned"
      /\ \A d \in Closers : d # c => closer'[d] = closer[d]
  BY <1>1 DEF ConnInv, TypeOK
<1>3. wr # "send"
  BY <1>1 DEF ConnInv, TypeOK
<1>4. IsWS' => released'
  BY <1>1 DEF ConnInv, Closed, IsWS, streamVars
<1>5. \A d \in Closers : d # c => ~InBody(d)
  BY <1>1 DEF ConnInv, OneBody, InBody
<1>6. TypeOK'
  <2>1. closer' \in [Closers -> {"idle", "once", "half", "release", "mark", "returned"}]
    BY <1>1 DEF ConnInv, TypeOK
  <2> QED  BY <1>1, <2>1 DEF ConnInv, TypeOK, readVars, streamVars
<1>7. OneBody'
  BY <1>2, <1>5 DEF OneBody, InBody
<1>8. Closed'
  BY <1>1, <1>2, <1>3, <1>4 DEF Closed, ClosedIsUnusable
<1>9. Stopped'
  BY <1>1, <1>3 DEF ConnInv, Stopped, WritesStop
<1>10. Bytes' /\ Ended'
  BY <1>1, BytesKept, EndedKept DEF ConnInv, readVars, streamVars
<1> QED  BY <1>6, <1>7, <1>8, <1>9, <1>10 DEF ConnInv

-----------------------------------------------------------------------------

LEMMA TransportStep == ConnInv /\ Transport => ConnInv'
<1> SUFFICES ASSUME ConnInv, Transport PROVE ConnInv'
  OBVIOUS
<1>1. /\ room' \in BOOLEAN /\ up' \in BOOLEAN
      /\ UNCHANGED <<kind, readVars, writeMu, writeVars, closeVars, halfOnce, marks, sendShut, released>>
  BY DEF Transport, PeerStalls, PeerReads, Cut, KeepaliveCloses, ConnInv, TypeOK
<1>2. TypeOK'
  BY <1>1 DEF ConnInv, TypeOK, readVars, writeVars, closeVars
<1>3. Bytes' /\ Stopped' /\ OneBody' /\ Closed' /\ Ended'
  BY <1>1, BytesKept, StoppedKept, OneBodyKept, ClosedKept, EndedKept
  DEF ConnInv, readVars, writeVars
<1> QED  BY <1>2, <1>3 DEF ConnInv

LEMMA ConnUnchanged == ConnInv /\ UNCHANGED vars => ConnInv'
<1> SUFFICES ASSUME ConnInv, UNCHANGED vars PROVE ConnInv'
  OBVIOUS
<1>1. TypeOK'
  BY DEF ConnInv, TypeOK, vars, readVars, writeVars, closeVars, streamVars
<1>2. Bytes' /\ Stopped' /\ OneBody' /\ Closed' /\ Ended'
  BY BytesKept, StoppedKept, OneBodyKept, ClosedKept, EndedKept
  DEF ConnInv, vars, readVars, writeVars, streamVars
<1> QED  BY <1>1, <1>2 DEF ConnInv

LEMMA ConnNext == ConnInv /\ [Next]_vars => ConnInv'
<1> SUFFICES ASSUME ConnInv, [Next]_vars PROVE ConnInv'
  OBVIOUS
<1>1. CASE Read
  BY <1>1, ReadBufferedStep, ReadRecvStep, RecvChunkStep DEF Read
<1>2. CASE Write
  BY <1>2, WriteBeginStep, SendStep, CloseWriteStep DEF Write
<1>3. ASSUME NEW c \in Closers, CloseCall(c) \/ CloseStep(c) PROVE ConnInv'
  BY <1>3, CloseEnterStep, CloseHalfStep, CloseReleaseStep, CloseMarkStep DEF CloseStep
<1>4. CASE Transport
  BY <1>4, TransportStep
<1>5. CASE UNCHANGED vars
  BY <1>5, ConnUnchanged
<1> QED  BY <1>1, <1>2, <1>3, <1>4, <1>5 DEF Next, Close

\* The invariant of streamconn.Conn, of every kind, holds in every state.
THEOREM ConnInvAlways == Spec => []ConnInv
BY ConnInit, ConnNext, PTL DEF Spec

-----------------------------------------------------------------------------

\* Types: streamconn.go's fields hold what they are declared to hold, and
\* writeMu is held exactly while the writer is in send or in closeSend.
THEOREM TypeOKAlways == Spec => []TypeOK
<1>1. ConnInv => TypeOK
  BY DEF ConnInv
<1> QED  BY <1>1, ConnInvAlways, PTL

\* Read (streamconn.go) hands out every byte that has arrived, once and in
\* order, whatever the messages' and the buffers' sizes.
THEOREM EveryByteOnceAlways == Spec => []EveryByteOnce
<1>1. ConnInv => EveryByteOnce
  BY DEF ConnInv, Bytes
<1> QED  BY <1>1, ConnInvAlways, PTL

\* Write keeps its first error: no Write after a failed one succeeds.
THEOREM WritesStopAlways == Spec => []WritesStop
<1>1. ConnInv => WritesStop
  BY DEF ConnInv, Stopped
<1> QED  BY <1>1, ConnInvAlways, PTL

\* A Write that begins after a Close has returned, any of them, sends nothing.
THEOREM ClosedIsUnusableAlways == Spec => []ClosedIsUnusable
<1>1. ConnInv => ClosedIsUnusable
  BY DEF ConnInv, Closed
<1> QED  BY <1>1, ConnInvAlways, PTL

\* CloseWrite and any number of Closes send one end of stream between them.
THEOREM OneEndOfStreamAlways == Spec => []OneEndOfStream
<1>1. ConnInv => OneEndOfStream
  BY DEF ConnInv, Ended
<1> QED  BY <1>1, ConnInvAlways, PTL

\* Once any Close has returned, a WebSocket's socket has been released,
\* whether or not the half-close before it got through.
THEOREM CloseReleasesAlways == Spec => []CloseAlwaysReleases
<1>1. ConnInv => CloseAlwaysReleases
  BY DEF ConnInv, Closed, CloseAlwaysReleases, Returned
<1> QED  BY <1>1, ConnInvAlways, PTL

=============================================================================
