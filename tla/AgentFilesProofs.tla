-------------------------- MODULE AgentFilesProofs --------------------------
(***************************************************************************)
(* Proofs about AgentFiles, for any set of invocations of any commands, at *)
(* the same time and each ending at any step.                              *)
(*                                                                         *)
(* AgentInv has four parts.  Typed says what a plan is made of.  KeptInv:  *)
(* a key that an authorize reported is in the file, or glued to a line, so *)
(* an appended line is never truncated away.  PairInv: where a server is   *)
(* in its plan says which of the certificate and its key it has, and that  *)
(* those belong together.  GuidedInv: while the operator does as the docs  *)
(* say, either no init has finished and nobody else runs (Fresh), or the   *)
(* files are whole, and what every other command has read, or will, is     *)
(* what is in them (Settled).                                              *)
(***************************************************************************)
EXTENDS AgentFiles, SequenceTheorems, TLAPS

-----------------------------------------------------------------------------
(* Plans.  A command's remaining steps change in one way only: the first   *)
(* one goes and others may come in its place.                              *)

Verb == {"load", "ensure", "wanted", "trust", "append", "open", "write"}
Op == Verb \X (Files \cup {"keys"})
Elems(s) == {s[i] : i \in 1 .. Len(s)}

\* A step replaces the head of a plan; nothing else leaves it, and nothing
\* comes in but what the step put there.
LEMMA HeadReplaced ==
    ASSUME NEW s \in Seq(Op), s # <<>>, NEW first \in Seq(Op)
    PROVE  /\ first \o Tail(s) \in Seq(Op)
           /\ Head(s) \in Elems(s)
           /\ Elems(first \o Tail(s)) \subseteq Elems(first) \cup Elems(s)
           /\ Elems(s) \subseteq {Head(s)} \cup Elems(first \o Tail(s))
           /\ Elems(first) \subseteq Elems(first \o Tail(s))
<1> DEFINE new == first \o Tail(s)
<1>1. /\ Tail(s) \in Seq(Op) /\ Len(Tail(s)) = Len(s) - 1 /\ Len(s) \in Nat /\ Len(s) > 0
      /\ \A i \in 1 .. Len(Tail(s)) : Tail(s)[i] = s[i + 1]
      /\ Head(s) = s[1]
  BY HeadTailProperties, LenProperties
<1>2. /\ new \in Seq(Op) /\ Len(new) = Len(first) + Len(Tail(s)) /\ Len(first) \in Nat
      /\ \A i \in 1 .. Len(first) + Len(Tail(s)) :
            new[i] = IF i <= Len(first) THEN first[i] ELSE Tail(s)[i - Len(first)]
  BY <1>1, ConcatProperties, LenProperties
<1> HIDE DEF new
<1>3. Head(s) \in Elems(s)
  BY <1>1 DEF Elems
<1>4. Elems(new) \subseteq Elems(first) \cup Elems(s)
  <2> SUFFICES ASSUME NEW i \in 1 .. Len(new) PROVE new[i] \in Elems(first) \cup Elems(s)
    BY DEF Elems
  <2>1. CASE i <= Len(first)
    BY <1>2, <2>1 DEF Elems
  <2>2. CASE ~(i <= Len(first))
    <3>1. i - Len(first) \in 1 .. Len(Tail(s)) /\ (i - Len(first)) + 1 \in 1 .. Len(s)
      BY <1>1, <1>2, <2>2
    <3>2. new[i] = s[(i - Len(first)) + 1]
      BY <1>1, <1>2, <2>2, <3>1
    <3> QED  BY <3>1, <3>2 DEF Elems
  <2> QED  BY <2>1, <2>2
<1>5. Elems(s) \subseteq {Head(s)} \cup Elems(new)
  <2> SUFFICES ASSUME NEW i \in 1 .. Len(s) PROVE s[i] \in {Head(s)} \cup Elems(new)
    BY DEF Elems
  <2>1. CASE i = 1
    BY <1>1, <2>1
  <2>2. CASE i # 1
    <3>1. i - 1 \in 1 .. Len(Tail(s)) /\ Tail(s)[i - 1] = s[i]
      BY <1>1, <2>2
    <3>2. Len(first) + (i - 1) \in 1 .. Len(new) /\ ~(Len(first) + (i - 1) <= Len(first))
      BY <1>2, <3>1
    <3>3. new[Len(first) + (i - 1)] = Tail(s)[i - 1]
      BY <1>1, <1>2, <3>1, <3>2
    <3> QED  BY <3>1, <3>2, <3>3 DEF Elems
  <2> QED  BY <2>1, <2>2
<1>6. Elems(first) \subseteq Elems(new)
  <2> SUFFICES ASSUME NEW i \in 1 .. Len(first) PROVE first[i] \in Elems(new)
    BY DEF Elems
  <2>1. i \in 1 .. Len(new) /\ new[i] = first[i]
    BY <1>1, <1>2
  <2> QED  BY <2>1 DEF Elems
<1> QED  BY <1>2, <1>3, <1>4, <1>5, <1>6 DEF new

\* What the short sequences of the model hold.
LEMMA ShortSeqs ==
    /\ <<>> \in Seq(Op) /\ Elems(<<>>) = {}
    /\ \A a \in Op : <<a>> \in Seq(Op) /\ Elems(<<a>>) = {a} /\ <<a>> # <<>>
    /\ \A a, b \in Op : <<a, b>> \in Seq(Op) /\ Elems(<<a, b>>) = {a, b} /\ <<a, b>> # <<>>
    /\ \A a, b, c \in Op :
          <<a, b, c>> \in Seq(Op) /\ Elems(<<a, b, c>>) = {a, b, c} /\ <<a, b, c>> # <<>>
    /\ \A a, b, c, d \in Op :
          /\ <<a, b, c, d>> \in Seq(Op) /\ Elems(<<a, b, c, d>>) = {a, b, c, d}
          /\ <<a, b, c, d>> # <<>>
<1>1. <<>> \in Seq(Op) /\ Elems(<<>>) = {}
  BY DEF Elems
<1>2. \A a \in Op : <<a>> \in Seq(Op) /\ Elems(<<a>>) = {a} /\ <<a>> # <<>>
  BY DEF Elems
<1>3. \A a, b \in Op : <<a, b>> \in Seq(Op) /\ Elems(<<a, b>>) = {a, b} /\ <<a, b>> # <<>>
  BY DEF Elems
<1>4. \A a, b, c \in Op :
        <<a, b, c>> \in Seq(Op) /\ Elems(<<a, b, c>>) = {a, b, c} /\ <<a, b, c>> # <<>>
  BY DEF Elems
<1>5. \A a, b, c, d \in Op :
        /\ <<a, b, c, d>> \in Seq(Op) /\ Elems(<<a, b, c, d>>) = {a, b, c, d}
        /\ <<a, b, c, d>> # <<>>
  BY DEF Elems
<1> QED  BY <1>1, <1>2, <1>3, <1>4, <1>5

\* A plan of two steps followed by another of two.
LEMMA TwoAndTwo ==
    ASSUME NEW S, NEW a \in S, NEW b \in S, NEW c \in S, NEW d \in S
    PROVE  <<a, b>> \o <<c, d>> = <<a, b, c, d>>
<1>1. <<a, b>> \in Seq(S) /\ <<c, d>> \in Seq(S) /\ <<a, b, c, d>> \in Seq(S)
  OBVIOUS
<1>2. Len(<<a, b>>) = 2 /\ Len(<<c, d>>) = 2 /\ Len(<<a, b, c, d>>) = 4
  OBVIOUS
<1>3. \A i \in 1 .. 4 : (<<a, b>> \o <<c, d>>)[i] = <<a, b, c, d>>[i]
  <2>1. \A i \in 1 .. 4 : (<<a, b>> \o <<c, d>>)[i] = IF i <= 2 THEN <<a, b>>[i] ELSE <<c, d>>[i - 2]
    BY <1>1, <1>2, ConcatProperties
  <2>2. \A i \in 1 .. 4 : i = 1 \/ i = 2 \/ i = 3 \/ i = 4
    OBVIOUS
  <2> QED  BY <2>1, <2>2
<1>4. <<a, b>> \o <<c, d>> \in Seq(S) /\ Len(<<a, b>> \o <<c, d>>) = 4
  BY <1>1, <1>2, ConcatProperties
<1> QED  BY <1>1, <1>2, <1>3, <1>4, SeqEqual

\* The plans of the model with their first step done, and with others in its place.
LEMMA Tails ==
    ASSUME NEW a \in Op, NEW b \in Op, NEW c \in Op, NEW d \in Op, NEW e \in Op
    PROVE  /\ Tail(<<a>>) = <<>> /\ Tail(<<a, b>>) = <<b>> /\ Tail(<<a, b, c>>) = <<b, c>>
           /\ Tail(<<a, b, c, d>>) = <<b, c, d>> /\ Tail(<<a, b, c, d, e>>) = <<b, c, d, e>>
<1> HIDE DEF Op
<1>1. Tail(<<a>>) = <<>>
  <2>1. <<a>> \in Seq(Op) /\ <<a>> # <<>> /\ Len(<<a>>) = 1
    OBVIOUS
  <2>2. Tail(<<a>>) \in Seq(Op) /\ Len(Tail(<<a>>)) = 0
    BY <2>1, HeadTailProperties
  <2> QED  BY <2>2, EmptySeq
<1>2. Tail(<<a, b>>) = <<b>>
  OBVIOUS
<1>3. Tail(<<a, b, c>>) = <<b, c>>
  OBVIOUS
<1>4. Tail(<<a, b, c, d>>) = <<b, c, d>>
  OBVIOUS
<1>5. Tail(<<a, b, c, d, e>>) = <<b, c, d, e>>
  OBVIOUS
<1> QED  BY <1>1, <1>2, <1>3, <1>4, <1>5

\* Plans of the model put in front of others.
LEMMA Concats ==
    /\ \A t \in Seq(Op) : <<>> \o t = t /\ t \o <<>> = t
    /\ \A a, b \in Op : <<a>> \o <<b>> = <<a, b>>
    /\ \A a, b, c, d \in Op : <<a, b>> \o <<c, d>> = <<a, b, c, d>>
    /\ \A a, b, c, d, e \in Op : <<a, b, c, d>> \o <<e>> = <<a, b, c, d, e>>
<1> HIDE DEF Op
<1>1. \A t \in Seq(Op) : <<>> \o t = t /\ t \o <<>> = t
  BY ConcatEmptySeq
<1>2. ASSUME NEW a \in Op, NEW b \in Op PROVE <<a>> \o <<b>> = <<a, b>>
  <2>1. /\ <<a>> \in Seq(Op) /\ <<b>> \in Seq(Op) /\ <<a, b>> \in Seq(Op)
        /\ Len(<<a>>) = 1 /\ Len(<<b>>) = 1 /\ Len(<<a, b>>) = 2
    OBVIOUS
  <2>2. /\ <<a>> \o <<b>> \in Seq(Op) /\ Len(<<a>> \o <<b>>) = 2
        /\ \A i \in 1 .. 2 : (<<a>> \o <<b>>)[i] = IF i <= 1 THEN <<a>>[i] ELSE <<b>>[i - 1]
    BY <2>1, ConcatProperties
  <2>3. \A i \in 1 .. 2 : i = 1 \/ i = 2
    OBVIOUS
  <2>4. \A i \in 1 .. 2 : (<<a>> \o <<b>>)[i] = <<a, b>>[i]
    BY <2>2, <2>3
  <2> QED  BY <2>1, <2>2, <2>4, SeqEqual
<1>3. \A a, b, c, d \in Op : <<a, b>> \o <<c, d>> = <<a, b, c, d>>
  BY TwoAndTwo
<1>4. ASSUME NEW a \in Op, NEW b \in Op, NEW c \in Op, NEW d \in Op, NEW e \in Op
      PROVE  <<a, b, c, d>> \o <<e>> = <<a, b, c, d, e>>
  <2>1. /\ <<a, b, c, d>> \in Seq(Op) /\ <<e>> \in Seq(Op) /\ <<a, b, c, d, e>> \in Seq(Op)
        /\ Len(<<a, b, c, d>>) = 4 /\ Len(<<e>>) = 1 /\ Len(<<a, b, c, d, e>>) = 5
    OBVIOUS
  <2>2. /\ <<a, b, c, d>> \o <<e>> \in Seq(Op) /\ Len(<<a, b, c, d>> \o <<e>>) = 5
        /\ \A i \in 1 .. 5 : (<<a, b, c, d>> \o <<e>>)[i]
                               = IF i <= 4 THEN <<a, b, c, d>>[i] ELSE <<e>>[i - 4]
    BY <2>1, ConcatProperties
  <2>3. \A i \in 1 .. 5 : i = 1 \/ i = 2 \/ i = 3 \/ i = 4 \/ i = 5
    OBVIOUS
  <2>4. \A i \in 1 .. 5 : (<<a, b, c, d>> \o <<e>>)[i] = <<a, b, c, d, e>>[i]
    BY <2>2, <2>3
  <2> QED  BY <2>1, <2>2, <2>4, SeqEqual
<1> QED  BY <1>1, <1>2, <1>3, <1>4

-----------------------------------------------------------------------------
(* Types. *)

Content == Maker \cup {Absent, Empty}
Held == [Files \cup {"keys"} -> Content \cup {None} \cup SUBSET Proc]

Typed ==
    /\ file \in [Files -> Content]
    /\ keys \subseteq Proc /\ glued \subseteq Proc
    /\ cmd \in [Proc -> Commands]
    /\ status \in [Proc -> {"idle", "started", "failed"}]
    /\ \A p \in Proc : status[p] = "idle" => cmd[p] = "init"
    /\ todo \in [Proc -> Seq(Op)]
    /\ has \in [Proc -> Held]

\* Every verb with every name is a step.
LEMMA OpNames == \A verb \in Verb, what \in Files \cup {"keys"} : <<verb, what>> \in Op
BY DEF Op

\* The plan of each command.
LEMMA Plans ==
    /\ Commands = {"init", "force", "server", "invite", "fingerprint", "hostkey", "authorize"}
    /\ Plan["init"] = runInit /\ Plan["force"] = runForcedInit /\ Plan["server"] = runServer
    /\ Plan["invite"] = runInvite /\ Plan["fingerprint"] = runFingerprint
    /\ Plan["hostkey"] = runHostKey /\ Plan["authorize"] = runAuthorize
    /\ \A c \in Commands : Plan[c] \in Seq(Op) /\ Plan[c] # <<>>
<1>1. /\ Commands = {"init", "force", "server", "invite", "fingerprint", "hostkey", "authorize"}
      /\ Plan["init"] = runInit /\ Plan["force"] = runForcedInit /\ Plan["server"] = runServer
      /\ Plan["invite"] = runInvite /\ Plan["fingerprint"] = runFingerprint
      /\ Plan["hostkey"] = runHostKey /\ Plan["authorize"] = runAuthorize
  BY DEF Commands, Plan
<1>2. /\ runInit \in Seq(Op) /\ runForcedInit \in Seq(Op) /\ runServer \in Seq(Op)
      /\ runInvite \in Seq(Op) /\ runFingerprint \in Seq(Op) /\ runHostKey \in Seq(Op)
      /\ runAuthorize \in Seq(Op)
  <2> HIDE DEF Op
  <2> USE ShortSeqs, OpNames DEF Verb, Files
  <2>1. runInit \in Seq(Op)
    BY DEF runInit
  <2>2. runForcedInit \in Seq(Op)
    BY DEF runForcedInit
  <2>3. runServer \in Seq(Op)
    BY DEF runServer
  <2>4. runInvite \in Seq(Op)
    BY DEF runInvite
  <2>5. runFingerprint \in Seq(Op) /\ runHostKey \in Seq(Op) /\ runAuthorize \in Seq(Op)
    BY DEF runFingerprint, runHostKey, runAuthorize
  <2> QED  BY <2>1, <2>2, <2>3, <2>4, <2>5
<1>3. /\ runInit # <<>> /\ runForcedInit # <<>> /\ runServer # <<>> /\ runInvite # <<>>
      /\ runFingerprint # <<>> /\ runHostKey # <<>> /\ runAuthorize # <<>>
  BY DEF runInit, runForcedInit, runServer, runInvite, runFingerprint, runHostKey, runAuthorize
<1> QED  BY <1>1, <1>2, <1>3

\* What a step puts in the place of the one it does.
Expansions == {<<>>, << <<"load", "key">> >>, CreatePair}
                \cup {Create(f) : f \in {"hostkey", "token"}}

\* What takes the place of a step is a plan of steps of the right kind.
LEMMA ExpansionTypes ==
    /\ \A first \in Expansions : first \in Seq(Op)
    /\ CreatePair = << <<"open", "cert">>, <<"write", "cert">>, <<"open", "key">>, <<"write", "key">> >>
    /\ Create("token") = << <<"open", "token">>, <<"write", "token">> >>
    /\ Create("hostkey") = << <<"open", "hostkey">>, <<"write", "hostkey">> >>
<1>1. CreatePair = << <<"open", "cert">>, <<"write", "cert">>, <<"open", "key">>, <<"write", "key">> >>
  <2>1. /\ <<"open", "cert">> \in Op /\ <<"write", "cert">> \in Op
        /\ <<"open", "key">> \in Op /\ <<"write", "key">> \in Op
    BY OpNames DEF Verb, Files
  <2>2. \A a, b, c, d \in Op : <<a, b>> \o <<c, d>> = <<a, b, c, d>>
    BY TwoAndTwo
  <2>3. CreatePair = << <<"open", "cert">>, <<"write", "cert">> >>
                       \o << <<"open", "key">>, <<"write", "key">> >>
    BY DEF CreatePair, Create
  <2> QED  BY <2>1, <2>2, <2>3
<1>2. CreatePair \in Seq(Op) /\ << <<"load", "key">> >> \in Seq(Op)
  BY <1>1, ShortSeqs, OpNames DEF Verb, Files
<1>3. \A f \in Files : Create(f) \in Seq(Op)
  BY ShortSeqs, OpNames DEF Create, Verb
<1> QED  BY <1>1, <1>2, <1>3, ShortSeqs DEF Expansions, Create, Files

\* One step of command p that does `op` and succeeds or fails.
Advances(p, first) ==
    /\ status[p] = "started" /\ todo[p] # <<>>
    /\ todo' = [todo EXCEPT ![p] = first \o Tail(todo[p])]
    /\ UNCHANGED <<guided, cmd, status>>
Fails(p) ==
    /\ status[p] = "started" /\ todo[p] # <<>>
    /\ status' = [status EXCEPT ![p] = "failed"]
    /\ todo' = [todo EXCEPT ![p] = <<>>]
    /\ has' = [has EXCEPT ![p] = Nothing]
    /\ UNCHANGED <<guided, cmd>>
Learns(p, f, value) == has' = [has EXCEPT ![p] = [has[p] EXCEPT ![f] = value]]

\* The shapes a step can have.
LEMMA StepShape ==
    ASSUME NEW p \in Proc, Step(p)
    PROVE  \/ Fails(p) /\ UNCHANGED <<file, keys, glued>>
           \/ \E first \in Expansions : Advances(p, first)
<1> USE DEF Expansions, Advances, Fails, At, Proceed, Fail, Take, diskVars
<1>1. CASE LoadHostKey(p)
  BY <1>1 DEF LoadHostKey
<1>2. CASE LoadCert(p)
  BY <1>2 DEF LoadCert
<1>3. CASE LoadKey(p)
  BY <1>3 DEF LoadKey
<1>4. CASE OpenFile(p) \/ WriteFile(p)
  BY <1>4 DEF OpenFile, WriteFile
<1>5. CASE EnsureToken(p)
  BY <1>5 DEF EnsureToken
<1>6. CASE LoadToken(p) \/ LookForToken(p) \/ LoadAuthorizedKeys(p)
  BY <1>6 DEF LoadToken, LookForToken, LoadAuthorizedKeys
<1>7. CASE AppendKey(p) \/ AppendFails(p) \/ Dies(p)
  BY <1>7 DEF AppendKey, AppendFails, Dies
<1> QED  BY <1>1, <1>2, <1>3, <1>4, <1>5, <1>6, <1>7 DEF Step

\* What taking something changes.
LEMMA Takes ==
    ASSUME has \in [Proc -> Held], NEW p \in Proc, NEW f \in Files \cup {"keys"},
           NEW value \in Content \cup {None} \cup SUBSET Proc, Take(p, f, value)
    PROVE  /\ has' \in [Proc -> Held] /\ has'[p][f] = value
           /\ \A g \in Files \cup {"keys"} : g # f => has'[p][g] = has[p][g]
           /\ \A q \in Proc : q # p => has'[q] = has[q]
<1>1. has' = [has EXCEPT ![p] = [has[p] EXCEPT ![f] = value]]
  BY DEF Take
<1>2. has[p] \in Held
  OBVIOUS
<1>3. [has[p] EXCEPT ![f] = value] \in Held
  BY <1>2 DEF Held
<1> HIDE DEF Held
<1>4. /\ has' \in [Proc -> Held] /\ has'[p] = [has[p] EXCEPT ![f] = value]
      /\ \A q \in Proc : q # p => has'[q] = has[q]
  BY <1>1, <1>3
<1> QED  BY <1>2, <1>4 DEF Held

\* A step changes nothing of another command, and what it leaves is well formed.
LEMMA StepTypes ==
    ASSUME Typed, NEW p \in Proc, Step(p)
    PROVE  /\ Typed' /\ UNCHANGED <<guided, cmd>>
           /\ \A q \in Proc \ {p} :
                 has'[q] = has[q] /\ todo'[q] = todo[q] /\ status'[q] = status[q]
           /\ status'[p] # "idle" /\ status[p] = "started" /\ todo[p] # <<>>
           /\ \/ status'[p] = "failed"
              \/ status'[p] = "started"
<1>1. /\ todo' \in [Proc -> Seq(Op)] /\ status' \in [Proc -> {"idle", "started", "failed"}]
      /\ UNCHANGED <<guided, cmd>>
      /\ \A q \in Proc \ {p} : todo'[q] = todo[q] /\ status'[q] = status[q]
      /\ status[p] = "started" /\ todo[p] # <<>>
      /\ status'[p] = "failed" \/ status'[p] = "started"
  <2>1. CASE Fails(p)
    BY <2>1, ShortSeqs DEF Typed, Fails
  <2>2. CASE \E first \in Expansions : Advances(p, first)
    <3>1. PICK first \in Expansions : Advances(p, first)
      BY <2>2
    <3>2. first \o Tail(todo[p]) \in Seq(Op)
      BY <3>1, ExpansionTypes, HeadReplaced DEF Typed, Advances
    <3> QED  BY <3>1, <3>2 DEF Typed, Advances
  <2> QED  BY <2>1, <2>2, StepShape
<1>2. /\ file' \in [Files -> Content] /\ keys' \subseteq Proc /\ glued' \subseteq Proc
      /\ has' \in [Proc -> Held] /\ \A q \in Proc \ {p} : has'[q] = has[q]
  <2> USE DEF At, Proceed, diskVars
  <2>0. /\ file \in [Files -> Content] /\ keys \subseteq Proc /\ glued \subseteq Proc
        /\ has \in [Proc -> Held]
        /\ p \in Content /\ Empty \in Content /\ None \notin Content
    BY ProcAssumption DEF Typed, Content, Maker
  <2>1. \A f \in Files : file[f] \in Content
    BY <2>0
  <2>2. Nothing \in Held
    BY DEF Nothing, Held
  <2>3. ASSUME Fail(p) PROVE has' \in [Proc -> Held] /\ \A q \in Proc \ {p} : has'[q] = has[q]
    BY <2>0, <2>2, <2>3 DEF Fail
  <2>4. ASSUME NEW f \in Files \cup {"keys"}, NEW value \in Content \cup {None} \cup SUBSET Proc,
               Take(p, f, value)
        PROVE  has' \in [Proc -> Held] /\ \A q \in Proc \ {p} : has'[q] = has[q]
    BY <2>0, <2>4, Takes
  <2>5. CASE LoadHostKey(p) \/ LoadCert(p) \/ LoadKey(p)
    BY <2>0, <2>1, <2>3, <2>4, <2>5 DEF LoadHostKey, LoadCert, LoadKey, Files
  <2>6. CASE OpenFile(p)
    BY <2>0, <2>6 DEF OpenFile
  <2>7. CASE WriteFile(p)
    BY <2>0, <2>4, <2>7 DEF WriteFile
  <2>8. CASE EnsureToken(p)
    BY <2>0, <2>8 DEF EnsureToken
  <2>9. CASE LoadToken(p) \/ LookForToken(p)
    BY <2>0, <2>1, <2>3, <2>4, <2>9 DEF LoadToken, LookForToken, Files
  <2>10. CASE LoadAuthorizedKeys(p)
    BY <2>0, <2>4, <2>10 DEF LoadAuthorizedKeys
  <2>11. CASE AppendKey(p)
    BY <2>0, <2>11 DEF AppendKey
  <2>12. CASE AppendFails(p) \/ Dies(p)
    BY <2>0, <2>3, <2>12 DEF AppendFails, Dies
  <2> QED  BY <2>5, <2>6, <2>7, <2>8, <2>9, <2>10, <2>11, <2>12 DEF Step
<1> QED  BY <1>1, <1>2 DEF Typed

\* The first state, and the three kinds of steps, keep Typed.
LEMMA TypedInit == Init => Typed
<1> SUFFICES ASSUME Init PROVE Typed
  OBVIOUS
<1>1. Nothing \in Held
  BY DEF Nothing, Held
<1>2. Earlier \in Content /\ Absent \in Content
  BY DEF Content, Maker
<1>3. "init" \in Commands /\ <<>> \in Seq(Op)
  BY Plans, ShortSeqs
<1> QED  BY <1>1, <1>2, <1>3 DEF Init, Typed

LEMMA TypedStart ==
    ASSUME Typed, NEW p \in Proc, NEW c \in Commands, Start(p, c)
    PROVE  Typed'
BY Plans DEF Typed, Start, diskVars

LEMMA TypedStutter ==
    ASSUME Typed, UNCHANGED vars
    PROVE  Typed'
BY DEF Typed, vars, diskVars

-----------------------------------------------------------------------------
(* The invariants. *)

\* What authorize was to append, it still has to append or has appended.
KeptInv ==
    \A p \in Proc : cmd[p] = "authorize" /\ status[p] = "started" =>
        <<"append", "keys">> \in Elems(todo[p]) \/ p \in keys \/ p \in glued

\* The steps a command has left, by what comes first.
Load(f) == <<"load", f>>
Open(f) == <<"open", f>>
Write(f) == <<"write", f>>
Trust == <<"trust", "keys">>
Ensure == <<"ensure", "token">>

\* What a server has left to do, and what it holds of its pair by then.  Its
\* certificate is only believed once a key that matches it has been read, and
\* a pair it made is the one it serves, whatever the files hold by then.
ServerAt(p) ==
    \/ todo[p] \in { << Load("token"), Load("hostkey"), Trust, Load("cert") >>,
                     << Load("hostkey"), Trust, Load("cert") >>,
                     << Open("hostkey"), Write("hostkey"), Trust, Load("cert") >>,
                     << Write("hostkey"), Trust, Load("cert") >>,
                     << Trust, Load("cert") >>,
                     << Load("cert") >>,
                     << Load("key") >>,
                     << Open("cert"), Write("cert"), Open("key"), Write("key") >>,
                     << Write("cert"), Open("key"), Write("key") >> }
    \/ /\ todo[p] \in { << Open("key"), Write("key") >>, << Write("key") >> }
       /\ has[p]["cert"] = p
    \/ /\ todo[p] = <<>>
       /\ has[p]["cert"] \in Maker /\ has[p]["key"] = has[p]["cert"]
PairInv ==
    \A p \in Proc : cmd[p] = "server" /\ status[p] = "started" => ServerAt(p)

\* What the init that runs alone has left to do, and what the files hold by then.
InitAt(p) ==
    \/ todo[p] \in { << Load("hostkey"), Load("cert"), Ensure >>,
                     << Open("hostkey"), Write("hostkey"), Load("cert"), Ensure >>,
                     << Write("hostkey"), Load("cert"), Ensure >> }
    \/ /\ file["hostkey"] \in Maker
       /\ \/ todo[p] \in { << Load("cert"), Ensure >>,
                           << Open("cert"), Write("cert"), Open("key"), Write("key"), Ensure >>,
                           << Write("cert"), Open("key"), Write("key"), Ensure >> }
          \/ /\ todo[p] = << Load("key"), Ensure >>
             /\ has[p]["cert"] = file["cert"] /\ file["cert"] # Absent
          \/ /\ todo[p] \in { << Open("key"), Write("key"), Ensure >>, << Write("key"), Ensure >> }
             /\ file["cert"] = p
          \/ /\ file["cert"] \in Maker /\ file["key"] = file["cert"]
             /\ \/ todo[p] \in { << Ensure >>, << Open("token"), Write("token") >> }
                \/ todo[p] = << Write("token") >> /\ file["token"] # Absent
Fresh ==
    /\ file["hostkey"] # Earlier
    /\ \A p \in Proc : status[p] = "started" =>
          /\ cmd[p] = "init" /\ InitAt(p)
          /\ \A q \in Proc : status[q] = "started" => q = p

\* What the files hold once an init has succeeded.
Whole ==
    /\ file["hostkey"] \in Maker /\ file["cert"] \in Maker /\ file["key"] = file["cert"]
    /\ file["token"] # Absent

\* Once an init has succeeded the host key and the pair stay as they are: no
\* command has a step left that would replace them, and what a command has
\* loaded is what the files hold.  The token does so until init --force.
Believes(p) ==
    /\ Load("hostkey") \notin Elems(todo[p]) => has[p]["hostkey"] = file["hostkey"]
    /\ Load("cert") \notin Elems(todo[p]) => has[p]["cert"] = file["cert"]
TokenStep(c) == IF c = "server" THEN Load("token") ELSE <<"wanted", "token">>
Settled ==
    /\ Whole
    /\ \A p \in Proc : status[p] = "started" =>
          /\ \A f \in {"hostkey", "cert", "key"} :
                Open(f) \notin Elems(todo[p]) /\ Write(f) \notin Elems(todo[p])
          /\ cmd[p] \in {"server", "invite", "fingerprint"} => Believes(p)
          /\ ~Forced =>
                /\ Open("token") \notin Elems(todo[p]) /\ Write("token") \notin Elems(todo[p])
                /\ cmd[p] \in {"server", "invite"} /\ TokenStep(cmd[p]) \notin Elems(todo[p])
                      => has[p]["token"] = file["token"]
GuidedInv == guided => Fresh \/ Settled

AgentInv == Typed /\ KeptInv /\ PairInv /\ GuidedInv

-----------------------------------------------------------------------------
(* What a step does, by what the plan says comes first. *)

\* Only a step of the kind the plan names next is taken, or the command ends.
LEMMA StepKinds ==
    ASSUME NEW p \in Proc, Step(p)
    PROVE  /\ todo[p] # <<>>
           /\ \/ Head(todo[p]) = Load("hostkey") /\ LoadHostKey(p)
              \/ Head(todo[p]) = Load("cert") /\ LoadCert(p)
              \/ Head(todo[p]) = Load("key") /\ LoadKey(p)
              \/ \E f \in Files : Head(todo[p]) = Open(f) /\ OpenFile(p)
              \/ \E f \in Files : Head(todo[p]) = Write(f) /\ WriteFile(p)
              \/ Head(todo[p]) = Ensure /\ EnsureToken(p)
              \/ Head(todo[p]) = Load("token") /\ LoadToken(p)
              \/ Head(todo[p]) = <<"wanted", "token">> /\ LookForToken(p)
              \/ Head(todo[p]) = Trust /\ LoadAuthorizedKeys(p)
              \/ Head(todo[p]) = <<"append", "keys">> /\ (AppendKey(p) \/ AppendFails(p))
              \/ Dies(p)
BY DEF Step, LoadHostKey, LoadCert, LoadKey, OpenFile, WriteFile, EnsureToken, LoadToken,
       LookForToken, LoadAuthorizedKeys, AppendKey, AppendFails, Dies, At,
       Load, Open, Write, Ensure, Trust

\* The keys of the file, and those glued to a line, stay.
LEMMA KeysStay ==
    ASSUME NEW p \in Proc, Step(p)
    PROVE  keys \subseteq keys' /\ glued \subseteq glued'
BY DEF Step, LoadHostKey, LoadCert, LoadKey, OpenFile, WriteFile, EnsureToken, LoadToken,
       LookForToken, LoadAuthorizedKeys, AppendKey, AppendFails, Dies, diskVars

\* A step that does not fail removes no more than the head of the plan.
LEMMA RestStays ==
    ASSUME Typed, NEW p \in Proc, Step(p), status'[p] = "started"
    PROVE  /\ Elems(todo[p]) \subseteq {Head(todo[p])} \cup Elems(todo'[p])
           /\ \E first \in Expansions :
                 /\ todo'[p] = first \o Tail(todo[p])
                 /\ Elems(todo'[p]) \subseteq Elems(first) \cup Elems(todo[p])
<1>1. ~Fails(p)
  BY DEF Fails, Typed
<1>2. PICK first \in Expansions : Advances(p, first)
  BY <1>1, StepShape
<1>3. todo[p] \in Seq(Op) /\ todo[p] # <<>> /\ first \in Seq(Op)
      /\ todo'[p] = first \o Tail(todo[p])
  BY <1>2, ExpansionTypes DEF Typed, Advances
<1> QED  BY <1>3, HeadReplaced

\* What the step the plan names does, when it does not fail.
Learned(p, f, value) ==
    /\ has'[p][f] = value
    /\ \A g \in Files \cup {"keys"} : g # f => has'[p][g] = has[p][g]
Outcome(p, head, rest) ==
    /\ head = Load("hostkey") =>
         /\ file' = file
         /\ \/ /\ file["hostkey"] = Absent /\ has' = has
               /\ todo'[p] = << Open("hostkey"), Write("hostkey") >> \o rest
            \/ /\ file["hostkey"] \in Maker /\ Learned(p, "hostkey", file["hostkey"])
               /\ todo'[p] = rest
    /\ head = Load("cert") =>
         /\ file' = file
         /\ \/ /\ file["cert"] = Absent /\ has' = has
               /\ todo'[p] = << Open("cert"), Write("cert"), Open("key"), Write("key") >> \o rest
            \/ /\ file["cert"] # Absent /\ Learned(p, "cert", file["cert"])
               /\ todo'[p] = << Load("key") >> \o rest
    /\ head = Load("key") =>
         /\ file' = file
         /\ \/ /\ file["key"] = Absent /\ has' = has
               /\ todo'[p] = << Open("cert"), Write("cert"), Open("key"), Write("key") >> \o rest
            \/ /\ file["key"] \in Maker /\ file["key"] = has[p]["cert"]
               /\ Learned(p, "key", file["key"]) /\ todo'[p] = rest
    /\ \A f \in Files : head = Open(f) =>
         file' = [file EXCEPT ![f] = Empty] /\ has' = has /\ todo'[p] = rest
    /\ \A f \in Files : head = Write(f) =>
         file' = [file EXCEPT ![f] = p] /\ Learned(p, f, p) /\ todo'[p] = rest
    /\ head = Ensure =>
         /\ file' = file /\ has' = has
         /\ \/ /\ file["token"] = Absent
               /\ todo'[p] = << Open("token"), Write("token") >> \o rest
            \/ file["token"] # Absent /\ todo'[p] = rest
    /\ head = Load("token") =>
         /\ file' = file /\ file["token"] # Absent
         /\ Learned(p, "token", file["token"]) /\ todo'[p] = rest
    /\ head = <<"wanted", "token">> =>
         /\ file' = file /\ todo'[p] = rest
         /\ Learned(p, "token", IF file["token"] = Absent THEN Empty ELSE file["token"])
    /\ head = Trust =>
         file' = file /\ Learned(p, "keys", keys) /\ todo'[p] = rest
    /\ head = <<"append", "keys">> => file' = file /\ has' = has /\ todo'[p] = rest

\* Those outcomes are all that a step which does not fail can have.
LEMMA Outcomes ==
    ASSUME Typed, NEW p \in Proc, Step(p), status'[p] = "started"
    PROVE  Outcome(p, Head(todo[p]), Tail(todo[p]))
<1> DEFINE head == Head(todo[p])
           rest == Tail(todo[p])
<1>1. ~Fail(p) /\ ~Dies(p) /\ ~AppendFails(p)
  BY DEF Fail, Dies, AppendFails, Typed
<1>2. /\ file \in [Files -> Content] /\ keys \subseteq Proc /\ has \in [Proc -> Held]
      /\ todo \in [Proc -> Seq(Op)] /\ todo[p] # <<>> /\ todo[p] \in Seq(Op)
      /\ p \in Content /\ Empty \in Content
      /\ \A f \in Files : file[f] \in Content
  BY StepTypes, ProcAssumption DEF Typed, Content, Maker
<1>3. rest \in Seq(Op) /\ <<>> \o rest = rest
  BY <1>2, HeadTailProperties, ConcatEmptySeq
<1>4. ASSUME NEW first, Proceed(p, first) PROVE todo'[p] = first \o rest
  BY <1>2, <1>4 DEF Proceed
<1>5. ASSUME Proceed(p, <<>>) PROVE todo'[p] = rest
  BY <1>3, <1>4, <1>5
<1>6. ASSUME NEW f \in Files \cup {"keys"}, NEW value \in Content \cup {None} \cup SUBSET Proc,
             Take(p, f, value)
      PROVE  Learned(p, f, value)
  BY <1>2, <1>6, Takes DEF Learned
<1> HIDE DEF Op, Held
<1>10. ASSUME head = Load("hostkey")
       PROVE  /\ file' = file
              /\ \/ /\ file["hostkey"] = Absent /\ has' = has
                    /\ todo'[p] = << Open("hostkey"), Write("hostkey") >> \o rest
                 \/ /\ file["hostkey"] \in Maker /\ Learned(p, "hostkey", file["hostkey"])
                    /\ todo'[p] = rest
  <2>1. LoadHostKey(p)
    BY <1>1, <1>10, StepKinds DEF Load, Open, Write, Ensure, Trust
  <2> QED  BY <1>1, <1>2, <1>4, <1>5, <1>6, <2>1
           DEF LoadHostKey, Create, Open, Write, diskVars, Files, Content
<1>11. ASSUME head = Load("cert")
       PROVE  /\ file' = file
              /\ \/ /\ file["cert"] = Absent /\ has' = has
                    /\ todo'[p] = << Open("cert"), Write("cert"), Open("key"), Write("key") >> \o rest
                 \/ /\ file["cert"] # Absent /\ Learned(p, "cert", file["cert"])
                    /\ todo'[p] = << Load("key") >> \o rest
  <2>1. LoadCert(p)
    BY <1>1, <1>11, StepKinds DEF Load, Open, Write, Ensure, Trust
  <2>2. CreatePair = << Open("cert"), Write("cert"), Open("key"), Write("key") >>
    BY ExpansionTypes DEF Open, Write
  <2> QED  BY <1>2, <1>4, <1>6, <2>1, <2>2 DEF LoadCert, Load, diskVars, Files
<1>12. ASSUME head = Load("key")
       PROVE  /\ file' = file
              /\ \/ /\ file["key"] = Absent /\ has' = has
                    /\ todo'[p] = << Open("cert"), Write("cert"), Open("key"), Write("key") >> \o rest
                 \/ /\ file["key"] \in Maker /\ file["key"] = has[p]["cert"]
                    /\ Learned(p, "key", file["key"]) /\ todo'[p] = rest
  <2>1. LoadKey(p)
    BY <1>1, <1>12, StepKinds DEF Load, Open, Write, Ensure, Trust
  <2>2. CreatePair = << Open("cert"), Write("cert"), Open("key"), Write("key") >>
    BY ExpansionTypes DEF Open, Write
  <2> QED  BY <1>1, <1>2, <1>4, <1>5, <1>6, <2>1, <2>2 DEF LoadKey, diskVars, Files, Content
<1>13. ASSUME NEW f \in Files, head = Open(f)
       PROVE  file' = [file EXCEPT ![f] = Empty] /\ has' = has /\ todo'[p] = rest
  <2>1. OpenFile(p)
    BY <1>1, <1>13, StepKinds DEF Load, Open, Write, Ensure, Trust
  <2>2. PICK g \in Files : /\ At(p, <<"open", g>>) /\ file' = [file EXCEPT ![g] = Empty]
                           /\ Proceed(p, <<>>) /\ UNCHANGED <<keys, torn, glued, has>>
    BY <2>1 DEF OpenFile
  <2>3. g = f
    BY <1>13, <2>2 DEF At, Open
  <2> QED  BY <1>5, <2>2, <2>3
<1>14. ASSUME NEW f \in Files, head = Write(f)
       PROVE  file' = [file EXCEPT ![f] = p] /\ Learned(p, f, p) /\ todo'[p] = rest
  <2>1. WriteFile(p)
    BY <1>1, <1>14, StepKinds DEF Load, Open, Write, Ensure, Trust
  <2>2. PICK g \in Files : /\ At(p, <<"write", g>>) /\ file' = [file EXCEPT ![g] = p]
                           /\ Take(p, g, p) /\ Proceed(p, <<>>) /\ UNCHANGED <<keys, torn, glued>>
    BY <2>1 DEF WriteFile
  <2>3. g = f
    BY <1>14, <2>2 DEF At, Write
  <2> QED  BY <1>2, <1>5, <1>6, <2>2, <2>3
<1>15. ASSUME head = Ensure
       PROVE  /\ file' = file /\ has' = has
              /\ \/ /\ file["token"] = Absent
                    /\ todo'[p] = << Open("token"), Write("token") >> \o rest
                 \/ file["token"] # Absent /\ todo'[p] = rest
  <2>1. EnsureToken(p)
    BY <1>1, <1>15, StepKinds DEF Load, Open, Write, Ensure, Trust
  <2> QED  BY <1>4, <1>5, <2>1 DEF EnsureToken, Create, Open, Write, diskVars
<1>16. ASSUME head = Load("token")
       PROVE  /\ file' = file /\ file["token"] # Absent
              /\ Learned(p, "token", file["token"]) /\ todo'[p] = rest
  <2>1. LoadToken(p)
    BY <1>1, <1>16, StepKinds DEF Load, Open, Write, Ensure, Trust
  <2> QED  BY <1>1, <1>2, <1>5, <1>6, <2>1 DEF LoadToken, diskVars, Files
<1>17. ASSUME head = <<"wanted", "token">>
       PROVE  /\ file' = file /\ todo'[p] = rest
              /\ Learned(p, "token", IF file["token"] = Absent THEN Empty ELSE file["token"])
  <2>1. LookForToken(p)
    BY <1>1, <1>17, StepKinds DEF Load, Open, Write, Ensure, Trust
  <2> QED  BY <1>2, <1>5, <1>6, <2>1 DEF LookForToken, diskVars, Files
<1>18. ASSUME head = Trust
       PROVE  file' = file /\ Learned(p, "keys", keys) /\ todo'[p] = rest
  <2>1. LoadAuthorizedKeys(p)
    BY <1>1, <1>18, StepKinds DEF Load, Open, Write, Ensure, Trust
  <2> QED  BY <1>2, <1>5, <1>6, <2>1 DEF LoadAuthorizedKeys, diskVars
<1>19. ASSUME head = <<"append", "keys">>
       PROVE  file' = file /\ has' = has /\ todo'[p] = rest
  <2>1. AppendKey(p)
    BY <1>1, <1>19, StepKinds DEF Load, Open, Write, Ensure, Trust
  <2> QED  BY <1>5, <2>1 DEF AppendKey
<1> HIDE DEF head, rest
<1>20. Outcome(p, head, rest)
  BY <1>10, <1>11, <1>12, <1>13, <1>14, <1>15, <1>16, <1>17, <1>18, <1>19 DEF Outcome
<1> QED  BY <1>20 DEF head, rest

-----------------------------------------------------------------------------
(* What authorize has added. *)

\* A command that starts has reported nothing.
LEMMA KeptStart ==
    ASSUME Typed, KeptInv, NEW p \in Proc, NEW c \in Commands, Start(p, c)
    PROVE  KeptInv'
<1>1. <<"trust", "keys">> \in Op /\ <<"append", "keys">> \in Op
  BY OpNames DEF Verb
<1>2. <<"append", "keys">> \in Elems(Plan["authorize"])
  <2>1. Elems(<< <<"trust", "keys">>, <<"append", "keys">> >>)
            = {<<"trust", "keys">>, <<"append", "keys">>}
    BY <1>1, ShortSeqs
  <2> QED  BY <2>1, Plans DEF runAuthorize
<1> QED  BY <1>2 DEF KeptInv, Start, Typed, diskVars

\* A step keeps the keys reported: only authorize reports one, after its append.
LEMMA KeptStep ==
    ASSUME Typed, KeptInv, NEW p \in Proc, Step(p)
    PROVE  KeptInv'
<1> SUFFICES ASSUME NEW q \in Proc, cmd'[q] = "authorize", status'[q] = "started"
             PROVE  <<"append", "keys">> \in Elems(todo'[q]) \/ q \in keys' \/ q \in glued'
  BY DEF KeptInv
<1>1. keys \subseteq keys' /\ glued \subseteq glued'
  BY KeysStay
<1>2. CASE q # p
  BY <1>1, <1>2, StepTypes DEF KeptInv
<1>3. CASE q = p
  <2>1. <<"append", "keys">> \in Elems(todo[p]) \/ p \in keys \/ p \in glued
    BY <1>3, StepTypes DEF KeptInv
  <2>2. Elems(todo[p]) \subseteq {Head(todo[p])} \cup Elems(todo'[p])
    BY <1>3, RestStays
  <2>3. ASSUME Head(todo[p]) = <<"append", "keys">> PROVE p \in keys' \/ p \in glued'
    <3>1. ~Fail(p)
      BY <1>3, StepTypes DEF Fail, Typed
    <3>2. ~AppendFails(p) /\ ~Dies(p)
      BY <3>1 DEF AppendFails, Dies
    <3>3. AppendKey(p)
      BY <2>3, <3>2, StepKinds DEF Load, Open, Write, Ensure, Trust
    <3> QED  BY <3>3 DEF AppendKey
  <2> QED  BY <1>1, <1>3, <2>1, <2>2, <2>3
<1> QED  BY <1>2, <1>3

-----------------------------------------------------------------------------
(* The pair a server serves. *)

\* The steps that have names are steps.
LEMMA OpMembers ==
    /\ \A f \in Files : Load(f) \in Op /\ Open(f) \in Op /\ Write(f) \in Op
    /\ Trust \in Op /\ Ensure \in Op
    /\ <<"wanted", "token">> \in Op /\ <<"append", "keys">> \in Op
BY OpNames DEF Verb, Load, Open, Write, Trust, Ensure, Files

\* What comes first in a plan, and what then comes next.
LEMMA HeadTail ==
    ASSUME NEW a \in Op, NEW b \in Op, NEW c \in Op, NEW d \in Op, NEW e \in Op
    PROVE  /\ Head(<<a>>) = a /\ Tail(<<a>>) = <<>>
           /\ Head(<<a, b>>) = a /\ Tail(<<a, b>>) = <<b>>
           /\ Head(<<a, b, c>>) = a /\ Tail(<<a, b, c>>) = <<b, c>>
           /\ Head(<<a, b, c, d>>) = a /\ Tail(<<a, b, c, d>>) = <<b, c, d>>
           /\ Head(<<a, b, c, d, e>>) = a /\ Tail(<<a, b, c, d, e>>) = <<b, c, d, e>>
BY Tails

\* A server's step leads from one of the places of its plan to the next.
LEMMA ServerStep ==
    ASSUME Typed, NEW p \in Proc, ServerAt(p), Step(p), status'[p] = "started"
    PROVE  ServerAt(p)'
<1> DEFINE s == todo[p]
<1>0. s # <<>> /\ has[p] \in Held /\ p \in Maker /\ Outcome(p, Head(s), Tail(s))
  BY StepTypes, Outcomes DEF Typed, Maker
<1>1. CASE s = << Load("token"), Load("hostkey"), Trust, Load("cert") >>
  <2>1. Head(s) = Load("token") /\ Tail(s) = << Load("hostkey"), Trust, Load("cert") >>
    BY <1>1, HeadTail, OpMembers DEF Files
  <2>2. todo'[p] = << Load("hostkey"), Trust, Load("cert") >>
    BY <1>0, <2>1 DEF Outcome
  <2> QED  BY <2>2 DEF ServerAt
<1>2. CASE s = << Load("hostkey"), Trust, Load("cert") >>
  <2>1. Head(s) = Load("hostkey") /\ Tail(s) = << Trust, Load("cert") >>
    BY <1>2, HeadTail, OpMembers DEF Files
  <2>2. \/ todo'[p] = << Open("hostkey"), Write("hostkey") >> \o << Trust, Load("cert") >>
        \/ todo'[p] = << Trust, Load("cert") >>
    BY <1>0, <2>1 DEF Outcome
  <2>3. << Open("hostkey"), Write("hostkey") >> \o << Trust, Load("cert") >>
            = << Open("hostkey"), Write("hostkey"), Trust, Load("cert") >>
    BY Concats, OpMembers DEF Files
  <2> QED  BY <2>2, <2>3 DEF ServerAt
<1>3. CASE s = << Open("hostkey"), Write("hostkey"), Trust, Load("cert") >>
  <2>1. Head(s) = Open("hostkey") /\ Tail(s) = << Write("hostkey"), Trust, Load("cert") >>
    BY <1>3, HeadTail, OpMembers DEF Files
  <2>2. todo'[p] = << Write("hostkey"), Trust, Load("cert") >>
    BY <1>0, <2>1 DEF Outcome, Files
  <2> QED  BY <2>2 DEF ServerAt
<1>4. CASE s = << Write("hostkey"), Trust, Load("cert") >>
  <2>1. Head(s) = Write("hostkey") /\ Tail(s) = << Trust, Load("cert") >>
    BY <1>4, HeadTail, OpMembers DEF Files
  <2>2. todo'[p] = << Trust, Load("cert") >>
    BY <1>0, <2>1 DEF Outcome, Files
  <2> QED  BY <2>2 DEF ServerAt
<1>5. CASE s = << Trust, Load("cert") >>
  <2>1. Head(s) = Trust /\ Tail(s) = << Load("cert") >>
    BY <1>5, HeadTail, OpMembers DEF Files
  <2>2. todo'[p] = << Load("cert") >>
    BY <1>0, <2>1 DEF Outcome
  <2> QED  BY <2>2 DEF ServerAt
<1>6. CASE s = << Load("cert") >>
  <2>1. Head(s) = Load("cert") /\ Tail(s) = <<>>
    BY <1>6, HeadTail, OpMembers DEF Files
  <2>2. \/ todo'[p] = << Open("cert"), Write("cert"), Open("key"), Write("key") >> \o <<>>
        \/ todo'[p] = << Load("key") >> \o <<>>
    BY <1>0, <2>1 DEF Outcome
  <2>3. \/ todo'[p] = << Open("cert"), Write("cert"), Open("key"), Write("key") >>
        \/ todo'[p] = << Load("key") >>
    <3>1. \A t \in Seq(Op) : t \o <<>> = t
      BY Concats
    <3>2. /\ << Open("cert"), Write("cert"), Open("key"), Write("key") >> \in Seq(Op)
          /\ << Load("key") >> \in Seq(Op)
      BY ShortSeqs, OpMembers DEF Files
    <3> QED  BY <2>2, <3>1, <3>2, Zenon
  <2> QED  BY <2>3 DEF ServerAt
<1>7. CASE s = << Load("key") >>
  <2>1. Head(s) = Load("key") /\ Tail(s) = <<>>
    BY <1>7, HeadTail, OpMembers DEF Files
  <2>2. \/ todo'[p] = << Open("cert"), Write("cert"), Open("key"), Write("key") >> \o <<>>
        \/ /\ file["key"] \in Maker /\ file["key"] = has[p]["cert"]
           /\ Learned(p, "key", file["key"]) /\ todo'[p] = <<>>
    BY <1>0, <2>1 DEF Outcome
  <2>3. << Open("cert"), Write("cert"), Open("key"), Write("key") >> \o <<>>
            = << Open("cert"), Write("cert"), Open("key"), Write("key") >>
    BY Concats, ShortSeqs, OpMembers DEF Files
  <2> QED  BY <2>2, <2>3 DEF ServerAt, Learned, Files
<1>8. CASE s = << Open("cert"), Write("cert"), Open("key"), Write("key") >>
  <2>1. Head(s) = Open("cert") /\ Tail(s) = << Write("cert"), Open("key"), Write("key") >>
    BY <1>8, HeadTail, OpMembers DEF Files
  <2>2. todo'[p] = << Write("cert"), Open("key"), Write("key") >>
    BY <1>0, <2>1 DEF Outcome, Files
  <2> QED  BY <2>2 DEF ServerAt
<1>9. CASE s = << Write("cert"), Open("key"), Write("key") >>
  <2>1. Head(s) = Write("cert") /\ Tail(s) = << Open("key"), Write("key") >>
    BY <1>9, HeadTail, OpMembers DEF Files
  <2>2. todo'[p] = << Open("key"), Write("key") >> /\ Learned(p, "cert", p)
    BY <1>0, <2>1 DEF Outcome, Files
  <2> QED  BY <2>2 DEF ServerAt, Learned
<1>10. CASE s = << Open("key"), Write("key") >> /\ has[p]["cert"] = p
  <2>1. Head(s) = Open("key") /\ Tail(s) = << Write("key") >>
    BY <1>10, HeadTail, OpMembers DEF Files
  <2>2. todo'[p] = << Write("key") >> /\ has' = has
    BY <1>0, <2>1 DEF Outcome, Files
  <2> QED  BY <1>10, <2>2 DEF ServerAt
<1>11. CASE s = << Write("key") >> /\ has[p]["cert"] = p
  <2>1. Head(s) = Write("key") /\ Tail(s) = <<>>
    BY <1>11, HeadTail, OpMembers DEF Files
  <2>2. todo'[p] = <<>> /\ Learned(p, "key", p)
    BY <1>0, <2>1 DEF Outcome, Files
  <2> QED  BY <1>0, <1>11, <2>2 DEF ServerAt, Learned, Files
<1> QED  BY <1>0, <1>1, <1>2, <1>3, <1>4, <1>5, <1>6, <1>7, <1>8, <1>9, <1>10, <1>11 DEF ServerAt

\* A server has its pair by its own steps, and no other command's.
LEMMA PairStep ==
    ASSUME Typed, PairInv, NEW p \in Proc, Step(p)
    PROVE  PairInv'
<1> SUFFICES ASSUME NEW q \in Proc, cmd'[q] = "server", status'[q] = "started"
             PROVE  ServerAt(q)'
  BY DEF PairInv
<1>1. CASE q # p
  BY <1>1, StepTypes DEF PairInv, ServerAt
<1>2. CASE q = p
  BY <1>2, StepTypes, ServerStep DEF PairInv
<1> QED  BY <1>1, <1>2

\* A server starts with nothing read and the whole of its plan ahead.
LEMMA PairStart ==
    ASSUME Typed, PairInv, NEW p \in Proc, NEW c \in Commands, Start(p, c)
    PROVE  PairInv'
<1> SUFFICES ASSUME NEW q \in Proc, cmd'[q] = "server", status'[q] = "started"
             PROVE  ServerAt(q)'
  BY DEF PairInv
<1>1. CASE q # p
  BY <1>1 DEF PairInv, ServerAt, Start, Typed
<1>2. CASE q = p
  <2>1. todo'[p] = runServer
    BY <1>2, Plans DEF Start, Typed
  <2>2. runServer = << Load("token"), Load("hostkey"), Trust, Load("cert") >>
    BY DEF runServer, Load, Trust
  <2> QED  BY <1>2, <2>1, <2>2 DEF ServerAt
<1> QED  BY <1>1, <1>2

-----------------------------------------------------------------------------
(* The first init. *)

\* An init that runs alone goes on or leaves whole files behind.
LEMMA InitStep ==
    ASSUME Typed, NEW p \in Proc, InitAt(p), file["hostkey"] # Earlier,
           Step(p), status'[p] = "started"
    PROVE  /\ file'["hostkey"] # Earlier
           /\ InitAt(p)' \/ (todo'[p] = <<>> /\ Whole')
<1> DEFINE s == todo[p]
<1>0. /\ s # <<>> /\ has[p] \in Held /\ p \in Maker /\ Outcome(p, Head(s), Tail(s))
      /\ file \in [Files -> Content] /\ file["cert"] \in Content
      /\ p # Earlier /\ p # Absent /\ Empty # Earlier /\ Empty # Absent
      /\ Content = Maker \cup {Absent, Empty}
  BY StepTypes, Outcomes, ProcAssumption DEF Typed, Maker, Content, Files
<1> USE DEF Files
<1>1. CASE s = << Load("hostkey"), Load("cert"), Ensure >>
  <2>1. Head(s) = Load("hostkey") /\ Tail(s) = << Load("cert"), Ensure >>
    BY <1>1, HeadTail, OpMembers
  <2>2. /\ file' = file
        /\ \/ todo'[p] = << Open("hostkey"), Write("hostkey") >> \o << Load("cert"), Ensure >>
           \/ file["hostkey"] \in Maker /\ todo'[p] = << Load("cert"), Ensure >>
    BY <1>0, <2>1 DEF Outcome
  <2>3. << Open("hostkey"), Write("hostkey") >> \o << Load("cert"), Ensure >>
            = << Open("hostkey"), Write("hostkey"), Load("cert"), Ensure >>
    BY Concats, OpMembers
  <2> QED  BY <2>2, <2>3 DEF InitAt
<1>2. CASE s = << Open("hostkey"), Write("hostkey"), Load("cert"), Ensure >>
  <2>1. Head(s) = Open("hostkey") /\ Tail(s) = << Write("hostkey"), Load("cert"), Ensure >>
    BY <1>2, HeadTail, OpMembers
  <2>2. /\ todo'[p] = << Write("hostkey"), Load("cert"), Ensure >>
        /\ file' = [file EXCEPT !["hostkey"] = Empty]
    BY <1>0, <2>1 DEF Outcome
  <2> QED  BY <1>0, <2>2 DEF InitAt
<1>3. CASE s = << Write("hostkey"), Load("cert"), Ensure >>
  <2>1. Head(s) = Write("hostkey") /\ Tail(s) = << Load("cert"), Ensure >>
    BY <1>3, HeadTail, OpMembers
  <2>2. todo'[p] = << Load("cert"), Ensure >> /\ file' = [file EXCEPT !["hostkey"] = p]
    BY <1>0, <2>1 DEF Outcome
  <2> QED  BY <1>0, <2>2 DEF InitAt
<1>4. CASE s = << Load("cert"), Ensure >> /\ file["hostkey"] \in Maker
  <2>1. Head(s) = Load("cert") /\ Tail(s) = << Ensure >>
    BY <1>4, HeadTail, OpMembers
  <2>2. /\ file' = file
        /\ \/ todo'[p] = << Open("cert"), Write("cert"), Open("key"), Write("key") >> \o << Ensure >>
           \/ /\ file["cert"] # Absent /\ Learned(p, "cert", file["cert"])
              /\ todo'[p] = << Load("key") >> \o << Ensure >>
    BY <1>0, <2>1 DEF Outcome
  <2>3. /\ << Open("cert"), Write("cert"), Open("key"), Write("key") >> \o << Ensure >>
              = << Open("cert"), Write("cert"), Open("key"), Write("key"), Ensure >>
        /\ << Load("key") >> \o << Ensure >> = << Load("key"), Ensure >>
    BY Concats, OpMembers
  <2> QED  BY <1>4, <2>2, <2>3 DEF InitAt, Learned
<1>5. CASE /\ s = << Load("key"), Ensure >> /\ file["hostkey"] \in Maker
           /\ has[p]["cert"] = file["cert"] /\ file["cert"] # Absent
  <2>1. Head(s) = Load("key") /\ Tail(s) = << Ensure >>
    BY <1>5, HeadTail, OpMembers
  <2>2. /\ file' = file
        /\ \/ todo'[p] = << Open("cert"), Write("cert"), Open("key"), Write("key") >> \o << Ensure >>
           \/ /\ file["key"] \in Maker /\ file["key"] = has[p]["cert"]
              /\ todo'[p] = << Ensure >>
    BY <1>0, <2>1 DEF Outcome
  <2>3. << Open("cert"), Write("cert"), Open("key"), Write("key") >> \o << Ensure >>
            = << Open("cert"), Write("cert"), Open("key"), Write("key"), Ensure >>
    BY Concats, OpMembers
  <2> QED  BY <1>5, <2>2, <2>3 DEF InitAt
<1>6. CASE /\ s = << Open("cert"), Write("cert"), Open("key"), Write("key"), Ensure >>
           /\ file["hostkey"] \in Maker
  <2>1. /\ Head(s) = Open("cert")
        /\ Tail(s) = << Write("cert"), Open("key"), Write("key"), Ensure >>
    BY <1>6, HeadTail, OpMembers
  <2>2. /\ todo'[p] = << Write("cert"), Open("key"), Write("key"), Ensure >>
        /\ file' = [file EXCEPT !["cert"] = Empty]
    BY <1>0, <2>1 DEF Outcome
  <2> QED  BY <1>0, <1>6, <2>2 DEF InitAt
<1>7. CASE s = << Write("cert"), Open("key"), Write("key"), Ensure >> /\ file["hostkey"] \in Maker
  <2>1. Head(s) = Write("cert") /\ Tail(s) = << Open("key"), Write("key"), Ensure >>
    BY <1>7, HeadTail, OpMembers
  <2>2. /\ todo'[p] = << Open("key"), Write("key"), Ensure >>
        /\ file' = [file EXCEPT !["cert"] = p]
    BY <1>0, <2>1 DEF Outcome
  <2> QED  BY <1>0, <1>7, <2>2 DEF InitAt
<1>8. CASE /\ s = << Open("key"), Write("key"), Ensure >>
           /\ file["hostkey"] \in Maker /\ file["cert"] = p
  <2>1. Head(s) = Open("key") /\ Tail(s) = << Write("key"), Ensure >>
    BY <1>8, HeadTail, OpMembers
  <2>2. todo'[p] = << Write("key"), Ensure >> /\ file' = [file EXCEPT !["key"] = Empty]
    BY <1>0, <2>1 DEF Outcome
  <2> QED  BY <1>0, <1>8, <2>2 DEF InitAt
<1>9. CASE s = << Write("key"), Ensure >> /\ file["hostkey"] \in Maker /\ file["cert"] = p
  <2>1. Head(s) = Write("key") /\ Tail(s) = << Ensure >>
    BY <1>9, HeadTail, OpMembers
  <2>2. todo'[p] = << Ensure >> /\ file' = [file EXCEPT !["key"] = p]
    BY <1>0, <2>1 DEF Outcome
  <2> QED  BY <1>0, <1>9, <2>2 DEF InitAt
<1>10. CASE /\ s = << Ensure >> /\ file["hostkey"] \in Maker
            /\ file["cert"] \in Maker /\ file["key"] = file["cert"]
  <2>1. Head(s) = Ensure /\ Tail(s) = <<>>
    BY <1>10, HeadTail, OpMembers
  <2>2. /\ file' = file
        /\ \/ todo'[p] = << Open("token"), Write("token") >> \o <<>>
           \/ file["token"] # Absent /\ todo'[p] = <<>>
    BY <1>0, <2>1 DEF Outcome
  <2>3. << Open("token"), Write("token") >> \o <<>> = << Open("token"), Write("token") >>
    BY Concats, ShortSeqs, OpMembers
  <2> QED  BY <1>10, <2>2, <2>3 DEF InitAt, Whole
<1>11. CASE /\ s = << Open("token"), Write("token") >> /\ file["hostkey"] \in Maker
            /\ file["cert"] \in Maker /\ file["key"] = file["cert"]
  <2>1. Head(s) = Open("token") /\ Tail(s) = << Write("token") >>
    BY <1>11, HeadTail, OpMembers
  <2>2. todo'[p] = << Write("token") >> /\ file' = [file EXCEPT !["token"] = Empty]
    BY <1>0, <2>1 DEF Outcome
  <2> QED  BY <1>0, <1>11, <2>2 DEF InitAt
<1>12. CASE /\ s = << Write("token") >> /\ file["hostkey"] \in Maker
            /\ file["cert"] \in Maker /\ file["key"] = file["cert"]
  <2>1. Head(s) = Write("token") /\ Tail(s) = <<>>
    BY <1>12, HeadTail, OpMembers
  <2>2. todo'[p] = <<>> /\ file' = [file EXCEPT !["token"] = p]
    BY <1>0, <2>1 DEF Outcome
  <2> QED  BY <1>0, <1>12, <2>2 DEF Whole
<1> QED  BY <1>1, <1>2, <1>3, <1>4, <1>5, <1>6, <1>7, <1>8, <1>9, <1>10, <1>11, <1>12 DEF InitAt

-----------------------------------------------------------------------------
(* After the first init. *)

\* Among whole files a step of a command with no file to create leaves the host
\* key and the pair alone, loads what the files hold, and adds no such step.
Harmless(p) ==
    \A f \in {"hostkey", "cert", "key"} :
        Open(f) \notin Elems(todo[p]) /\ Write(f) \notin Elems(todo[p])
Keeps(p, head) ==
    /\ Whole' /\ \A f \in {"hostkey", "cert", "key"} : file'[f] = file[f]
    /\ Elems(todo'[p]) \subseteq {Load("key")} \cup Elems(todo[p])
    /\ Elems(todo[p]) \subseteq {head} \cup Elems(todo'[p])
    /\ has'[p]["hostkey"] = IF head = Load("hostkey") THEN file["hostkey"] ELSE has[p]["hostkey"]
    /\ has'[p]["cert"] = IF head = Load("cert") THEN file["cert"] ELSE has[p]["cert"]
    /\ head \notin {Open("token"), Write("token")} =>
          /\ file' = file
          /\ has'[p]["token"] = IF head \in {Load("token"), <<"wanted", "token">>}
                                  THEN file["token"] ELSE has[p]["token"]

\* On whole files every step finds what it looks for and makes nothing.
LEMMA WholeStep ==
    ASSUME Typed, Whole, NEW p \in Proc, Harmless(p), Step(p), status'[p] = "started"
    PROVE  Keeps(p, Head(todo[p])) /\ Head(todo[p]) \in Elems(todo[p])
<1> DEFINE head == Head(todo[p])
           rest == Tail(todo[p])
<1>1. /\ todo[p] \in Seq(Op) /\ todo[p] # <<>> /\ has[p] \in Held /\ p \in Maker
      /\ file \in [Files -> Content] /\ Absent \notin Maker /\ Empty # Absent
      /\ Outcome(p, head, rest)
  BY StepTypes, Outcomes, ProcAssumption DEF Typed, Maker
<1>2. head \in Elems(todo[p]) /\ rest \in Seq(Op)
  BY <1>1, ShortSeqs, HeadReplaced, HeadTailProperties
<1>3. \A f \in {"hostkey", "cert", "key"} : head # Open(f) /\ head # Write(f) /\ f \in Files
  BY <1>2 DEF Harmless, Files
<1>4. /\ <<>> \o rest = rest /\ << Load("key") >> \in Seq(Op) /\ <<>> \in Seq(Op)
      /\ Elems(<<>>) = {} /\ Elems(<< Load("key") >>) = {Load("key")}
  BY <1>2, Concats, ShortSeqs, OpMembers DEF Files
<1>5. ASSUME todo'[p] = rest \/ todo'[p] = << Load("key") >> \o rest
      PROVE  /\ Elems(todo'[p]) \subseteq {Load("key")} \cup Elems(todo[p])
             /\ Elems(todo[p]) \subseteq {head} \cup Elems(todo'[p])
  BY <1>1, <1>4, <1>5, HeadReplaced
<1>6. \/ head = Load("hostkey") \/ head = Load("cert") \/ head = Load("key")
      \/ head = Open("token") \/ head = Write("token")
      \/ head = Ensure \/ head = Load("token") \/ head = <<"wanted", "token">>
      \/ head = Trust \/ head = <<"append", "keys">>
  <2>1. ~Dies(p)
    BY DEF Dies, Fail, Typed
  <2> QED  BY <1>3, <2>1, StepKinds DEF Files
<1> HIDE DEF head, rest
<1>7. /\ file["hostkey"] # Absent /\ file["cert"] # Absent /\ file["key"] # Absent
      /\ file["token"] # Absent
  BY <1>1 DEF Whole
<1>8. todo'[p] = rest \/ todo'[p] = << Load("key") >> \o rest
  BY <1>1, <1>6, <1>7 DEF Outcome, Files
<1>9. \/ file' = file
      \/ /\ head \in {Open("token"), Write("token")}
         /\ \E value \in Maker \cup {Empty} : file' = [file EXCEPT !["token"] = value]
  BY <1>1, <1>6 DEF Outcome, Files
<1>10. Whole' /\ \A f \in {"hostkey", "cert", "key"} : file'[f] = file[f]
  BY <1>1, <1>9 DEF Whole, Files
<1>11. has'[p]["hostkey"] = IF head = Load("hostkey") THEN file["hostkey"] ELSE has[p]["hostkey"]
  BY <1>1, <1>6, <1>7 DEF Outcome, Files, Learned, Load, Open, Write, Ensure, Trust
<1>12. has'[p]["cert"] = IF head = Load("cert") THEN file["cert"] ELSE has[p]["cert"]
  BY <1>1, <1>6, <1>7 DEF Outcome, Files, Learned, Load, Open, Write, Ensure, Trust
<1>13. head \notin {Open("token"), Write("token")} =>
          has'[p]["token"] = IF head \in {Load("token"), <<"wanted", "token">>}
                               THEN file["token"] ELSE has[p]["token"]
  BY <1>1, <1>6, <1>7 DEF Outcome, Files, Learned, Load, Open, Write, Ensure, Trust
<1>14. Keeps(p, head)
  BY <1>5, <1>8, <1>9, <1>10, <1>11, <1>12, <1>13 DEF Keeps
<1> QED  BY <1>2, <1>14 DEF head

\* Whole files stay so, and so does what was believed of them.
LEMMA SettledStep ==
    ASSUME Typed, Settled, NEW p \in Proc, Step(p)
    PROVE  Settled'
<1>1. /\ UNCHANGED cmd /\ (Forced' <=> Forced) /\ status[p] = "started"
      /\ \A q \in Proc \ {p} :
            has'[q] = has[q] /\ todo'[q] = todo[q] /\ status'[q] = status[q]
      /\ status'[p] = "failed" \/ status'[p] = "started"
  BY StepTypes DEF Forced
<1>2. CASE status'[p] = "failed"
  <2>1. file' = file
    BY <1>1, <1>2, StepShape DEF Fails, Advances
  <2> QED  BY <1>1, <1>2, <2>1 DEF Settled, Whole, Believes
<1>3. CASE status'[p] = "started"
  <2> DEFINE head == Head(todo[p])
  <2>1. Harmless(p)
    BY <1>1 DEF Settled, Harmless
  <2>2. Keeps(p, head) /\ head \in Elems(todo[p])
    BY <1>3, <2>1, WholeStep DEF Settled
  <2> HIDE DEF head
  <2>3. ~Forced => head \notin {Open("token"), Write("token")}
    BY <1>1, <2>2 DEF Settled
  <2>4. \A f \in {"hostkey", "cert", "key", "token"} :
           Open(f) # Load("key") /\ Write(f) # Load("key")
    BY DEF Open, Write, Load
  <2>5. ASSUME NEW q \in Proc, status'[q] = "started"
        PROVE  /\ \A f \in {"hostkey", "cert", "key"} :
                     Open(f) \notin Elems(todo'[q]) /\ Write(f) \notin Elems(todo'[q])
               /\ cmd'[q] \in {"server", "invite", "fingerprint"} => Believes(q)'
               /\ ~Forced' =>
                     /\ Open("token") \notin Elems(todo'[q]) /\ Write("token") \notin Elems(todo'[q])
                     /\ cmd'[q] \in {"server", "invite"} /\ TokenStep(cmd'[q]) \notin Elems(todo'[q])
                           => has'[q]["token"] = file'["token"]
    <3>1. CASE q # p
      BY <1>1, <2>2, <2>3, <2>5, <3>1 DEF Settled, Keeps, Believes
    <3>2. CASE q = p
      <4>1. \A f \in {"hostkey", "cert", "key"} :
               Open(f) \notin Elems(todo'[p]) /\ Write(f) \notin Elems(todo'[p])
        BY <2>1, <2>2, <2>4 DEF Keeps, Harmless
      <4>2. ASSUME cmd[p] \in {"server", "invite", "fingerprint"} PROVE Believes(p)'
        BY <1>1, <2>2, <4>2 DEF Settled, Keeps, Believes
      <4>3. ASSUME ~Forced
            PROVE  Open("token") \notin Elems(todo'[p]) /\ Write("token") \notin Elems(todo'[p])
        BY <1>1, <2>2, <2>4, <4>3 DEF Settled, Keeps
      <4>4. ASSUME ~Forced, cmd[p] \in {"server", "invite"}, TokenStep(cmd[p]) \notin Elems(todo'[p])
            PROVE  has'[p]["token"] = file'["token"]
        <5>1. TokenStep(cmd[p]) \in {Load("token"), <<"wanted", "token">>}
          BY DEF TokenStep
        <5> QED  BY <1>1, <2>2, <2>3, <4>4, <5>1 DEF Settled, Keeps
      <4> QED  BY <1>1, <3>2, <4>1, <4>2, <4>3, <4>4
    <3> QED  BY <3>1, <3>2
  <2>6. Whole'
    BY <2>2 DEF Keeps
  <2> QED  BY <2>5, <2>6 DEF Settled
<1> QED  BY <1>1, <1>2, <1>3

\* Before the first init is done, its steps are the only ones.
LEMMA FreshStep ==
    ASSUME Typed, Fresh, NEW p \in Proc, Step(p)
    PROVE  Fresh' \/ Settled'
<1>1. /\ UNCHANGED cmd /\ status[p] = "started"
      /\ \A q \in Proc \ {p} :
            has'[q] = has[q] /\ todo'[q] = todo[q] /\ status'[q] = status[q]
      /\ status'[p] = "failed" \/ status'[p] = "started"
  BY StepTypes
<1>2. /\ file["hostkey"] # Earlier /\ cmd[p] = "init" /\ InitAt(p)
      /\ \A q \in Proc : status[q] = "started" => q = p
  BY <1>1 DEF Fresh
<1>3. CASE status'[p] = "failed"
  <2>1. file' = file
    BY <1>1, <1>3, StepShape DEF Fails, Advances
  <2> QED  BY <1>1, <1>2, <1>3, <2>1 DEF Fresh
<1>4. CASE status'[p] = "started"
  <2>1. file'["hostkey"] # Earlier /\ (InitAt(p)' \/ (todo'[p] = <<>> /\ Whole'))
    BY <1>2, <1>4, InitStep
  <2>2. \A q \in Proc : status'[q] = "started" => q = p /\ cmd'[q] = "init"
    BY <1>1, <1>2
  <2>3. CASE InitAt(p)'
    BY <2>1, <2>2, <2>3 DEF Fresh
  <2>4. CASE todo'[p] = <<>> /\ Whole'
    BY <2>2, <2>4, ShortSeqs DEF Settled
  <2> QED  BY <2>1, <2>3, <2>4
<1> QED  BY <1>1, <1>3, <1>4

\* A step keeps the files as the docs promise them.
LEMMA GuidedStep ==
    ASSUME Typed, GuidedInv, NEW p \in Proc, Step(p)
    PROVE  GuidedInv'
BY StepTypes, FreshStep, SettledStep DEF GuidedInv

\* A plan makes no file, other than the token that init --force replaces, and
\* has still to read what it uses.
LEMMA PlanElems ==
    ASSUME NEW c \in Commands
    PROVE  /\ \A f \in {"hostkey", "cert", "key"} :
                 Open(f) \notin Elems(Plan[c]) /\ Write(f) \notin Elems(Plan[c])
           /\ c # "force" => Open("token") \notin Elems(Plan[c]) /\ Write("token") \notin Elems(Plan[c])
           /\ c \in {"server", "invite", "fingerprint"} =>
                 Load("hostkey") \in Elems(Plan[c]) /\ Load("cert") \in Elems(Plan[c])
           /\ c \in {"server", "invite"} => TokenStep(c) \in Elems(Plan[c])
<1>1. Elems(runInit) = {Load("hostkey"), Load("cert"), Ensure}
  <2>1. runInit = << Load("hostkey"), Load("cert"), Ensure >>
    BY DEF runInit, Load, Ensure
  <2> QED  BY <2>1, ShortSeqs, OpMembers DEF Files
<1>2. Elems(runForcedInit) = {Load("hostkey"), Load("cert"), Open("token"), Write("token")}
  <2>1. runForcedInit = << Load("hostkey"), Load("cert"), Open("token"), Write("token") >>
    BY DEF runForcedInit, Load, Open, Write
  <2> QED  BY <2>1, ShortSeqs, OpMembers DEF Files
<1>3. Elems(runServer) = {Load("token"), Load("hostkey"), Trust, Load("cert")}
  <2>1. runServer = << Load("token"), Load("hostkey"), Trust, Load("cert") >>
    BY DEF runServer, Load, Trust
  <2> QED  BY <2>1, ShortSeqs, OpMembers DEF Files
<1>4. Elems(runInvite) = {Load("hostkey"), <<"wanted", "token">>, Load("cert")}
  <2> DEFINE wanted == <<"wanted", "token">>
  <2>1. runInvite = << Load("hostkey"), wanted, Load("cert") >>
    BY DEF runInvite, Load
  <2>2. Load("hostkey") \in Op /\ wanted \in Op /\ Load("cert") \in Op
    BY OpMembers DEF Files
  <2> HIDE DEF wanted
  <2>3. Elems(runInvite) = {Load("hostkey"), wanted, Load("cert")}
    BY <2>1, <2>2, ShortSeqs
  <2> QED  BY <2>3 DEF wanted
<1>5. Elems(runFingerprint) = {Load("hostkey"), Load("cert")} /\ Elems(runHostKey) = {Load("hostkey")}
  <2>1. /\ runFingerprint = << Load("hostkey"), Load("cert") >>
        /\ runHostKey = << Load("hostkey") >>
    BY DEF runFingerprint, runHostKey, Load
  <2> QED  BY <2>1, ShortSeqs, OpMembers DEF Files
<1>6. Elems(runAuthorize) = {Trust, <<"append", "keys">>}
  <2>1. runAuthorize = << Trust, <<"append", "keys">> >>
    BY DEF runAuthorize, Trust
  <2> QED  BY <2>1, ShortSeqs, OpMembers
<1>7. Elems(Plan[c]) \subseteq {Load(f) : f \in Files} \cup {Ensure, Trust}
                        \cup {<<"wanted", "token">>, <<"append", "keys">>}
                        \cup (IF c = "force" THEN {Open("token"), Write("token")} ELSE {})
  BY <1>1, <1>2, <1>3, <1>4, <1>5, <1>6, Plans DEF Files
<1>8. /\ \A f \in Files : \A op \in {Load(g) : g \in Files} \cup {Ensure, Trust}
                        \cup {<<"wanted", "token">>, <<"append", "keys">>} :
           Open(f) # op /\ Write(f) # op
      /\ \A f \in {"hostkey", "cert", "key"} : \A op \in {Open("token"), Write("token")} :
           Open(f) # op /\ Write(f) # op
  BY DEF Load, Open, Write, Ensure, Trust
<1>9. /\ \A f \in {"hostkey", "cert", "key"} :
            Open(f) \notin Elems(Plan[c]) /\ Write(f) \notin Elems(Plan[c])
      /\ c # "force" => Open("token") \notin Elems(Plan[c]) /\ Write("token") \notin Elems(Plan[c])
  BY <1>7, <1>8 DEF Files
<1>10. /\ c \in {"server", "invite", "fingerprint"} =>
             Load("hostkey") \in Elems(Plan[c]) /\ Load("cert") \in Elems(Plan[c])
       /\ c \in {"server", "invite"} => TokenStep(c) \in Elems(Plan[c])
  BY <1>3, <1>4, <1>5, Plans DEF TokenStep
<1> QED  BY <1>9, <1>10

\* So does the start of a command: a guided one starts on whole files, or is
\* the init that makes them.
LEMMA GuidedStart ==
    ASSUME Typed, GuidedInv, NEW p \in Proc, NEW c \in Commands, Start(p, c)
    PROVE  GuidedInv'
<1> SUFFICES ASSUME guided PROVE Fresh' \/ Settled'
  BY DEF GuidedInv, Start
<1>1. /\ UNCHANGED <<file, has>> /\ status[p] = "idle" /\ cmd[p] = "init"
      /\ status'[p] = "started" /\ cmd'[p] = c /\ todo'[p] = Plan[c]
      /\ \A q \in Proc \ {p} : cmd'[q] = cmd[q] /\ todo'[q] = todo[q] /\ status'[q] = status[q]
  BY DEF Typed, Start, diskVars
<1>2. CASE Fresh
  <2>1. ASSUME NEW q \in Proc, status[q] = "started"
        PROVE  cmd[q] = "init" /\ todo[q] # <<>>
    <3>1. cmd[q] = "init" /\ InitAt(q)
      BY <1>2, <2>1 DEF Fresh
    <3>2. \A v, w, x, y, z :
             /\ <<v>> # <<>> /\ <<v, w>> # <<>> /\ <<v, w, x>> # <<>>
             /\ <<v, w, x, y>> # <<>> /\ <<v, w, x, y, z>> # <<>>
      OBVIOUS
    <3> QED  BY <3>1, <3>2, Zenon DEF InitAt
  <2>2. ~Initialized
    BY <1>2, <2>1 DEF Fresh, Initialized, Ran
  <2>3. c = "init" /\ \A q \in Proc : status[q] # "started"
    BY <2>1, <2>2 DEF Start, Initializing, Running
  <2>4. todo'[p] = << Load("hostkey"), Load("cert"), Ensure >>
    BY <1>1, <2>3, Plans DEF runInit, Load, Ensure
  <2> QED  BY <1>1, <1>2, <2>3, <2>4 DEF Fresh, InitAt
<1>3. CASE Settled
  <2>1. ~Forced' => ~Forced /\ c # "force"
    BY <1>1 DEF Forced
  <2>2. Whole'
    BY <1>1, <1>3 DEF Settled, Whole
  <2>3. ASSUME NEW q \in Proc, status'[q] = "started"
        PROVE  /\ \A f \in {"hostkey", "cert", "key"} :
                     Open(f) \notin Elems(todo'[q]) /\ Write(f) \notin Elems(todo'[q])
               /\ cmd'[q] \in {"server", "invite", "fingerprint"} => Believes(q)'
               /\ ~Forced' =>
                     /\ Open("token") \notin Elems(todo'[q]) /\ Write("token") \notin Elems(todo'[q])
                     /\ cmd'[q] \in {"server", "invite"} /\ TokenStep(cmd'[q]) \notin Elems(todo'[q])
                           => has'[q]["token"] = file'["token"]
    <3>1. CASE q # p
      BY <1>1, <1>3, <2>1, <2>3, <3>1 DEF Settled, Believes
    <3>2. CASE q = p
      BY <1>1, <2>1, <3>2, PlanElems DEF Believes
    <3> QED  BY <3>1, <3>2
  <2> QED  BY <2>2, <2>3 DEF Settled
<1> QED  BY <1>2, <1>3 DEF GuidedInv

-----------------------------------------------------------------------------
(* The invariant, and what it means. *)

\* AgentInv is inductive.
LEMMA AgentInvInit == Init => AgentInv
<1> SUFFICES ASSUME Init PROVE AgentInv
  OBVIOUS
<1>1. \A p \in Proc : status[p] # "started"
  BY DEF Init
<1>2. Fresh \/ Settled
  <2>1. \/ file = [f \in Files |-> Absent]
        \/ file = [f \in Files |-> Earlier]
    BY DEF Init
  <2>2. CASE file = [f \in Files |-> Absent]
    BY <1>1, <2>2, ProcAssumption DEF Fresh, Files, Maker
  <2>3. CASE file = [f \in Files |-> Earlier]
    BY <1>1, <2>3, ProcAssumption DEF Settled, Whole, Files, Maker
  <2> QED  BY <2>1, <2>2, <2>3
<1> QED  BY <1>1, <1>2, TypedInit DEF AgentInv, KeptInv, PairInv, GuidedInv

LEMMA AgentInvNext == AgentInv /\ [Next]_vars => AgentInv'
<1> SUFFICES ASSUME AgentInv, [Next]_vars PROVE AgentInv'
  OBVIOUS
<1>1. CASE UNCHANGED vars
  BY <1>1 DEF AgentInv, Typed, KeptInv, PairInv, ServerAt, GuidedInv, Fresh, InitAt,
              Settled, Whole, Believes, Forced, vars, diskVars
<1>2. ASSUME NEW p \in Proc, Step(p) PROVE AgentInv'
  BY <1>2, StepTypes, KeptStep, PairStep, GuidedStep DEF AgentInv
<1>3. ASSUME NEW p \in Proc, NEW c \in Commands, Start(p, c) PROVE AgentInv'
  BY <1>3, TypedStart, KeptStart, PairStart, GuidedStart DEF AgentInv
<1> QED  BY <1>1, <1>2, <1>3 DEF Next

\* The invariant holds of every behaviour of any number of commands.
THEOREM AgentInvAlways == Spec => []AgentInv
BY AgentInvInit, AgentInvNext, PTL DEF Spec

\* A key that authorize reported is in the file, or glued to a torn line
\* (runAuthorize's O_APPEND write is its last step).
THEOREM AuthorizedIsKeptAlways == Spec => []AuthorizedIsKept
<1>1. AgentInv => AuthorizedIsKept
  BY ShortSeqs DEF AgentInv, KeptInv, AuthorizedIsKept, Ran
<1> QED  BY <1>1, AgentInvAlways, PTL

\* A server presents a certificate with its own key, whatever else runs
\* (loadOrCreateCert reads both files or makes both).
THEOREM ServedPairIsWholeAlways == Spec => []ServedPairIsWhole
<1>1. AgentInv => ServedPairIsWhole
  BY DEF AgentInv, PairInv, ServerAt, ServedPairIsWhole, Ran
<1> QED  BY <1>1, AgentInvAlways, PTL

\* After a first init every server and every fingerprint shown is the same agent.
THEOREM RestartKeepsIdentityAlways == Spec => []RestartKeepsIdentity
<1>1. ASSUME AgentInv PROVE RestartKeepsIdentity
  <2> SUFFICES ASSUME guided, NEW p \in Proc, NEW s \in Proc, Ran(s, "server"),
                      Ran(p, "server") \/ Ran(p, "fingerprint")
               PROVE  has[p]["hostkey"] = has[s]["hostkey"] /\ has[p]["cert"] = has[s]["cert"]
    BY DEF RestartKeepsIdentity
  <2>1. Settled
    BY <1>1 DEF AgentInv, GuidedInv, Fresh, Ran
  <2> QED  BY <2>1, ShortSeqs DEF Settled, Believes, Ran
<1> QED  BY <1>1, AgentInvAlways, PTL

\* After a first init an invite carries the host key, the certificate and,
\* unless an init --force ran, the token of every server.
THEOREM InviteIsHonouredAlways == Spec => []InviteIsHonoured
<1>1. ASSUME AgentInv PROVE InviteIsHonoured
  <2> SUFFICES ASSUME guided, NEW i \in Proc, NEW s \in Proc, Ran(i, "invite"), Ran(s, "server")
               PROVE  /\ has[i]["hostkey"] = has[s]["hostkey"]
                      /\ has[i]["cert"] = has[s]["cert"]
                      /\ Forced \/ has[i]["token"] = has[s]["token"]
    BY DEF InviteIsHonoured
  <2>1. Settled
    BY <1>1 DEF AgentInv, GuidedInv, Fresh, Ran
  <2> QED  BY <2>1, ShortSeqs DEF Settled, Believes, Ran
<1> QED  BY <1>1, AgentInvAlways, PTL

=============================================================================
