-------------------------- MODULE ClientFilesProofs --------------------------
(***************************************************************************)
(* Proofs about ClientFiles, for any agents, certificates, adds, commands  *)
(* and connections, and for any files to begin with.                       *)
(***************************************************************************)
EXTENDS ClientFiles, TLAPS

(***************************************************************************)
(* The invariant behind InvitedIsPinned follows a fingerprint from the     *)
(* invite to the handshake: whatever parses agrees with the invites, and   *)
(* so does whatever was read from it, an entry and then a pin.             *)
(***************************************************************************)
Honest == {m \in Entries : FromInvites(m)}
Place == Adder \cup {Old}

AdderRec == [at : {"start", "loaded", "set", "opened", "written", "remove", "added",
    "failed"},
             name : Name \cup {None}, edit : Honest, fd : Place]
UserRec == [at : {"start", "resolved", "ready", "ended"}, name : Name \cup {None},
            pin : Cert \cup {Unpinned, None}, known : Pins \cup {None},
            lock : Conn \cup {None}, told : SUBSET Cert]
ConnRec == [at : {"idle", "dialling", "recording", "accepted", "refused"},
            pin : Cert \cup {None}, cert : Cert \cup {None}]

FilesOK ==
    /\ inode \in [Place -> Honest \cup {Empty, Torn}]
    /\ config \in Place \cup {None} /\ tmp \in Place \cup {None}

AddersTyped == adder \in [Adder -> AdderRec]
AddersOK == \A a \in Adder : adder[a].at = "loaded" => adder[a].name \in Name

UsersTyped == user \in [User -> UserRec]
UserOK(u) == user[u].at \in {"resolved", "ready"} =>
    /\ user[u].name \in Name
    /\ user[u].name \in Invited => user[u].pin = Invite[user[u].name]
UsersOK == \A u \in User : UserOK(u)

\* A connection has a pin, or a certificate, only while its command runs.  One
\* to an invited agent is never without a pin, so it never records.
ConnsTyped == conn \in [User \X Conn -> ConnRec]
ConnOK(u, k) == conn[<<u, k>>].at # "idle" =>
    /\ user[u].at = "ready"
    /\ user[u].name \in Invited =>
          /\ conn[<<u, k>>].at = "dialling" => conn[<<u, k>>].pin = Invite[user[u].name]
          /\ conn[<<u, k>>].at # "recording"
          /\ conn[<<u, k>>].at = "accepted" => conn[<<u, k>>].cert = Invite[user[u].name]
ConnsOK == \A u \in User, k \in Conn : ConnOK(u, k)

PinInv ==
    /\ FilesOK /\ AddersTyped /\ AddersOK
    /\ UsersTyped /\ UsersOK /\ ConnsTyped /\ ConnsOK

LEMMA NoEntriesHonest == NoEntries \in Honest
BY ClientFilesAssumption DEF Honest, Entries, NoEntries, FromInvites, Invited

LEMMA NoPinsArePins == NoPins \in Pins
BY DEF NoPins, NoEntries, Pins

\* What does not parse is not a configuration, and no entries agree with any
\* invite.
LEMMA ContentsHonest ==
    FilesOK /\ Contents \in Entries => Contents \in Honest
BY ContentAssumption, NoEntriesHonest DEF FilesOK, Contents

LEMMA PinInit == Init => PinInv
<1> SUFFICES ASSUME Init PROVE PinInv
  OBVIOUS
<1>1. FilesOK
  BY BeforeAssumption, NoEntriesHonest DEF Init, FilesOK, Honest, Place
<1>2. AddersTyped /\ AddersOK
  BY NoEntriesHonest DEF Init, AddersTyped, AddersOK, AdderRec, NotRunning, Place
<1>3. UsersTyped /\ UsersOK
  BY DEF Init, UsersTyped, UsersOK, UserOK, UserRec, NoTarget
<1>4. ConnsTyped /\ ConnsOK
  BY DEF Init, ConnsTyped, ConnsOK, ConnOK, ConnRec, NoConn
<1> QED  BY <1>1, <1>2, <1>3, <1>4 DEF PinInv

\* An add that sets an entry keeps to the invite for it.
LEMMA SetHonest ==
    ASSUME NEW m \in Honest, NEW n \in Name, NEW pin \in Cert \cup {Unpinned},
           n \in Invited => pin = Invite[n]
    PROVE  [m EXCEPT ![n] = pin] \in Honest
BY ClientFilesAssumption DEF Honest, Entries, FromInvites

LEMMA AdderStepPins ==
    ASSUME PinInv, NEW a \in Adder, AdderStep(a)
    PROVE  PinInv'
<1> USE DEF PinInv
<1>0. UsersTyped' /\ UsersOK' /\ ConnsTyped' /\ ConnsOK'
  <2>1. UNCHANGED <<user, conn>>
    BY DEF AdderStep, LoadConfig, Set, OpenTmp, WriteTmp, Rename, Remove, AdderEnds,
       trustVars
  <2> QED  BY <2>1 DEF UsersTyped, UsersOK, UserOK, ConnsTyped, ConnsOK, ConnOK
<1> DEFINE Kept == FilesOK' /\ AddersTyped' /\ AddersOK'
<1>1. ASSUME NEW n \in Name, LoadConfig(a, n) PROVE Kept
  <2>1. FilesOK'
    BY <1>1 DEF LoadConfig, FilesOK
  <2>2. AddersTyped'
    BY <1>1, ContentsHonest, NoEntriesHonest
       DEF LoadConfig, AddersTyped, AdderRec, Ends, NotRunning, Place
  <2>3. AddersOK'
    BY <1>1 DEF LoadConfig, AddersTyped, AddersOK, Ends, NotRunning
  <2> QED  BY <2>1, <2>2, <2>3
<1>2. ASSUME NEW pin \in Cert \cup {Unpinned}, Set(a, pin) PROVE Kept
  <2>1. adder[a].name \in Name /\ adder[a] \in AdderRec
    BY <1>2 DEF Set, AddersTyped, AddersOK
  <2>2. [adder[a].edit EXCEPT ![adder[a].name] = pin] \in Honest
    BY <1>2, <2>1, SetHonest DEF Set, AdderRec
  <2>3. FilesOK'
    BY <1>2 DEF Set, FilesOK
  <2> DEFINE r == [adder[a] EXCEPT !.at = "set",
                                   !.edit = [adder[a].edit EXCEPT ![adder[a].name] = pin]]
  <2>a. r \in AdderRec
    BY <2>1, <2>2 DEF AdderRec
  <2>b. adder' = [adder EXCEPT ![a] = r]
    BY <1>2 DEF Set
  <2> HIDE DEF r
  <2>4. AddersTyped'
    BY <2>a, <2>b DEF AddersTyped
  <2>5. AddersOK'
    BY <1>2, <2>1 DEF Set, AddersTyped, AddersOK, AdderRec
  <2> QED  BY <2>3, <2>4, <2>5
<1>3. ASSUME OpenTmp(a) PROVE Kept
  <2>0. adder[a] \in AdderRec
    BY DEF AddersTyped
  <2>1. FilesOK'
    BY <1>3, <2>0 DEF OpenTmp, FilesOK, AdderRec, Place
  <2>2. AddersTyped'
    BY <1>3, <2>0, NoEntriesHonest DEF OpenTmp, AddersTyped, AdderRec, FilesOK, Place
  <2>3. AddersOK'
    BY <1>3, <2>0 DEF OpenTmp, AddersTyped, AddersOK, AdderRec
  <2> QED  BY <2>1, <2>2, <2>3
<1>4. ASSUME WriteTmp(a) PROVE Kept
  <2>0. adder[a] \in AdderRec
    BY DEF AddersTyped
  <2>1. FilesOK'
    BY <1>4, <2>0 DEF WriteTmp, FilesOK, AdderRec, Place
  <2>2. AddersTyped'
    BY <1>4, <2>0, NoEntriesHonest
       DEF WriteTmp, AddersTyped, AdderRec, FilesOK, Place, Moves
  <2>3. AddersOK'
    BY <1>4, <2>0 DEF WriteTmp, AddersTyped, AddersOK, AdderRec, Moves
  <2> QED  BY <2>1, <2>2, <2>3
<1>5. ASSUME Rename(a) PROVE Kept
  <2>0. adder[a] \in AdderRec
    BY DEF AddersTyped
  <2>1. FilesOK'
    BY <1>5, <2>0 DEF Rename, FilesOK, AdderRec, Place
  <2>2. AddersTyped'
    BY <1>5, <2>0, NoEntriesHonest
       DEF Rename, AddersTyped, AdderRec, FilesOK, Place, Moves, Ends, NotRunning
  <2>3. AddersOK'
    BY <1>5, <2>0 DEF Rename, AddersTyped, AddersOK, AdderRec, Moves, Ends, NotRunning
  <2> QED  BY <2>1, <2>2, <2>3
<1>6. ASSUME Remove(a) PROVE Kept
  <2>0. adder[a] \in AdderRec
    BY DEF AddersTyped
  <2>1. FilesOK'
    BY <1>6, <2>0 DEF Remove, FilesOK, AdderRec, Place
  <2>2. AddersTyped'
    BY <1>6, <2>0, NoEntriesHonest
       DEF Remove, AddersTyped, AdderRec, FilesOK, Place, Ends, NotRunning
  <2>3. AddersOK'
    BY <1>6, <2>0 DEF Remove, AddersTyped, AddersOK, AdderRec, Ends, NotRunning
  <2> QED  BY <2>1, <2>2, <2>3
<1>7. ASSUME AdderEnds(a) PROVE Kept
  <2>0. adder[a] \in AdderRec
    BY DEF AddersTyped
  <2>1. FilesOK'
    BY <1>7, <2>0 DEF AdderEnds, FilesOK, AdderRec, Place
  <2>2. AddersTyped'
    BY <1>7, <2>0, NoEntriesHonest
       DEF AdderEnds, AddersTyped, AdderRec, FilesOK, Place, Ends, NotRunning
  <2>3. AddersOK'
    BY <1>7, <2>0 DEF AdderEnds, AddersTyped, AddersOK, AdderRec, Ends, NotRunning
  <2> QED  BY <2>1, <2>2, <2>3
<1> QED  BY <1>0, <1>1, <1>2, <1>3, <1>4, <1>5, <1>6, <1>7 DEF AdderStep

LEMMA ConnStepPins ==
    ASSUME PinInv, NEW u \in User, NEW k \in Conn, ConnStep(u, k)
    PROVE  UsersTyped' /\ UsersOK' /\ ConnsTyped' /\ ConnsOK'
<1> USE DEF PinInv
<1> DEFINE Kept == UsersTyped' /\ UsersOK' /\ ConnsTyped' /\ ConnsOK'
<1>0. conn[<<u, k>>] \in ConnRec /\ user[u] \in UserRec /\ UserOK(u) /\ ConnOK(u, k)
  BY DEF UsersTyped, UsersOK, ConnsTyped, ConnsOK
<1>1. ASSUME TlsConfigFor(u, k) PROVE Kept
  <2> DEFINE pin == IF Pinned(u) THEN user[u].pin ELSE KnownPin(u)
  <2>a. user[u].name \in Name /\ user[u].at = "ready"
    BY <1>0, <1>1 DEF TlsConfigFor, UserOK
  <2>b. pin \in Cert \cup {None}
    BY <1>0, <2>a DEF Pinned, KnownPin, Pins, UserRec
  <2>c. user[u].name \in Invited => pin = Invite[user[u].name]
    <3>1. user[u].name \in Invited => Pinned(u) /\ user[u].pin = Invite[user[u].name]
      BY <1>0, <2>a, ClientFilesAssumption DEF Pinned, UserOK
    <3>2. Pinned(u) => pin = user[u].pin
      OBVIOUS
    <3> QED  BY <3>1, <3>2
  <2>d. /\ conn' = [conn EXCEPT ![<<u, k>>] = [@ EXCEPT !.at = "dialling", !.pin = pin]]
        /\ user' = user
    BY <1>1 DEF TlsConfigFor
  <2> HIDE DEF pin
  <2>1. UsersTyped' /\ UsersOK'
    BY <2>d DEF UsersTyped, UsersOK, UserOK
  <2>2. ConnsTyped'
    BY <1>0, <2>b, <2>d DEF ConnsTyped, ConnRec
  <2>3. ASSUME NEW v \in User, NEW j \in Conn PROVE ConnOK(v, j)'
    BY <1>0, <2>a, <2>c, <2>d DEF ConnsTyped, ConnsOK, ConnOK, ConnRec
  <2> QED  BY <2>1, <2>2, <2>3 DEF ConnsOK
<1>2. ASSUME WriteKnown(u, k) PROVE Kept
  <2>1. UsersTyped'
    BY <1>2, <1>0, ClientFilesAssumption DEF WriteKnown, UsersTyped, UserRec, UserOK, Pins
  <2>2. ASSUME NEW v \in User PROVE UserOK(v)'
    BY <1>2, <1>0 DEF WriteKnown, UsersTyped, UsersOK, UserOK, UserRec
  <2>3. ConnsTyped'
    BY <1>2, <1>0 DEF WriteKnown, ConnsTyped, ConnRec
  <2>4. ASSUME NEW v \in User, NEW j \in Conn PROVE ConnOK(v, j)'
    BY <1>2, <1>0, ClientFilesAssumption
       DEF WriteKnown, UsersTyped, ConnsTyped, ConnsOK, UserOK, ConnOK, UserRec, ConnRec
  <2> QED  BY <2>1, <2>2, <2>3, <2>4 DEF UsersOK, ConnsOK
<1>3. ASSUME WriteKnownFails(u, k) PROVE Kept
  <2>1. UsersTyped'
    BY <1>3, <1>0, ClientFilesAssumption
       DEF WriteKnownFails, UsersTyped, UserRec, UserOK, Pins
  <2>2. ASSUME NEW v \in User PROVE UserOK(v)'
    BY <1>3, <1>0 DEF WriteKnownFails, UsersTyped, UsersOK, UserOK, UserRec
  <2>3. ConnsTyped'
    BY <1>3, <1>0 DEF WriteKnownFails, ConnsTyped, ConnRec
  <2>4. ASSUME NEW v \in User, NEW j \in Conn PROVE ConnOK(v, j)'
    BY <1>3, <1>0, ClientFilesAssumption
       DEF WriteKnownFails, UsersTyped, ConnsTyped, ConnsOK, UserOK, ConnOK, UserRec, ConnRec
  <2> QED  BY <2>1, <2>2, <2>3, <2>4 DEF UsersOK, ConnsOK
<1>4. ASSUME NEW c \in Cert, Verify(u, k, c) PROVE Kept
  <2>1. UsersTyped' /\ UsersOK'
    BY <1>4 DEF Verify, UsersTyped, UsersOK, UserOK
  <2>2. /\ user' = user /\ user[u].at = "ready" /\ conn[<<u, k>>].at = "dialling"
        /\ \E v \in {"accepted", "refused"} :
             /\ Verified(u, k, c, v)
             /\ v = "accepted" /\ conn[<<u, k>>].pin # None => c = conn[<<u, k>>].pin
    BY <1>4 DEF Verify
  <2>3. PICK v \in {"accepted", "refused"} :
             /\ conn' = [conn EXCEPT ![<<u, k>>] = [at |-> v, pin |-> None, cert |-> c]]
             /\ v = "accepted" /\ conn[<<u, k>>].pin # None => c = conn[<<u, k>>].pin
    BY <2>2 DEF Verified
  <2>4. ConnsTyped'
    BY <2>3 DEF ConnsTyped, ConnRec
  <2>5. ASSUME NEW w \in User, NEW j \in Conn PROVE ConnOK(w, j)'
    BY <1>0, <2>2, <2>3, ClientFilesAssumption
       DEF ConnsTyped, ConnsOK, ConnOK, ConnRec, UserOK
  <2> QED  BY <2>1, <2>4, <2>5 DEF ConnsOK
<1>5. ASSUME NEW c \in Cert, Add(u, k, c) PROVE Kept
  <2>a. user[u].known \in Pins /\ WithPin(u, c) \in Pins
    BY <1>5, <1>0 DEF Add, Unknown, UserRec, Pins, WithPin
  <2>1. UsersTyped'
    <3> DEFINE r == [user[u] EXCEPT !.lock = k, !.known = WithPin(u, c)]
    <3>1. user' = [user EXCEPT ![u] = r]
      BY <1>5 DEF Add
    <3>2. r \in UserRec
      BY <1>0, <2>a DEF UserRec
    <3> HIDE DEF r
    <3> QED  BY <3>1, <3>2 DEF UsersTyped
  <2>2. ASSUME NEW v \in User PROVE UserOK(v)'
    BY <1>5, <1>0 DEF Add, UsersTyped, UsersOK, UserOK, UserRec, Unknown, Verified
  <2>3. ConnsTyped'
    BY <1>5, <1>0 DEF Add, ConnsTyped, ConnRec, Unknown, Verified
  <2>4. ASSUME NEW v \in User, NEW j \in Conn PROVE ConnOK(v, j)'
    BY <1>5, <1>0, ClientFilesAssumption
       DEF Add, UsersTyped, ConnsTyped, ConnsOK, UserOK, ConnOK, UserRec, ConnRec, Unknown, Verified
  <2> QED  BY <2>1, <2>2, <2>3, <2>4 DEF UsersOK, ConnsOK
<1>6. ASSUME NEW c \in Cert, AddFails(u, k, c) PROVE Kept
  <2>1. UsersTyped'
    BY <1>6, <1>0, ClientFilesAssumption
       DEF AddFails, UsersTyped, UserRec, UserOK, Pins, WithPin, Unknown, Verified
  <2>2. ASSUME NEW v \in User PROVE UserOK(v)'
    BY <1>6, <1>0 DEF AddFails, UsersTyped, UsersOK, UserOK, UserRec, Unknown, Verified
  <2>3. ConnsTyped'
    BY <1>6, <1>0 DEF AddFails, ConnsTyped, ConnRec, Unknown, Verified
  <2>4. ASSUME NEW v \in User, NEW j \in Conn PROVE ConnOK(v, j)'
    BY <1>6, <1>0, ClientFilesAssumption
       DEF AddFails, UsersTyped, ConnsTyped, ConnsOK, UserOK, ConnOK, UserRec, ConnRec, Unknown, Verified
  <2> QED  BY <2>1, <2>2, <2>3, <2>4 DEF UsersOK, ConnsOK
<1> QED  BY <1>1, <1>2, <1>3, <1>4, <1>5, <1>6 DEF ConnStep

LEMMA UserStepPins ==
    ASSUME PinInv, NEW u \in User, UserStep(u)
    PROVE  PinInv'
<1> USE DEF PinInv
<1> DEFINE Kept == UsersTyped' /\ UsersOK' /\ ConnsTyped' /\ ConnsOK'
<1>0. FilesOK' /\ AddersTyped' /\ AddersOK'
  <2>1. UNCHANGED addVars
    BY DEF UserStep, ConnStep, ResolveTarget, LoadKnownAgents, UserEnds, TlsConfigFor,
       WriteKnown, WriteKnownFails, Verify, Add, AddFails
  <2> QED  BY <2>1 DEF addVars, FilesOK, AddersTyped, AddersOK
<1>1. user[u] \in UserRec /\ UserOK(u)
  BY DEF UsersTyped, UsersOK
<1>2. ASSUME NEW n \in Name, ResolveTarget(u, n) PROVE Kept

       <2>0. Contents \in Entries => Contents \in Honest /\ Contents[n] \in Cert \cup {Unpinned, None}
    BY ContentsHonest DEF Honest, Entries
  <2>1. UsersTyped'
    <3>1. user' = [user EXCEPT ![u] = NoTarget("ended")] => UsersTyped'
      BY DEF UsersTyped, UserRec, NoTarget
    <3>2. CASE Contents \in Entries /\ Contents[n] # None
      <4> DEFINE r == [user[u] EXCEPT !.at = "resolved", !.name = n, !.pin = Contents[n]]
      <4>1. user' = [user EXCEPT ![u] = r]
        BY <1>2, <3>2 DEF ResolveTarget
      <4>2. r \in UserRec
        BY <1>1, <2>0, <3>2 DEF UserRec
      <4> QED  BY <4>1, <4>2 DEF UsersTyped
    <3> QED  BY <1>2, <3>1, <3>2 DEF ResolveTarget
  <2>2. ASSUME NEW v \in User PROVE UserOK(v)'
    <3>1. CASE Contents \in Entries /\ Contents[n] # None
      <4>1. user' = [user EXCEPT ![u] = [user[u] EXCEPT !.at = "resolved", !.name = n,
                                                          !.pin = Contents[n]]]
        BY <1>2, <3>1 DEF ResolveTarget
      <4>2. n \in Invited => Contents[n] = Invite[n]
        BY <2>0, <3>1 DEF Honest, FromInvites
      <4> QED  BY <1>1, <4>1, <4>2 DEF UsersTyped, UsersOK, UserOK, UserRec
    <3>2. CASE ~(Contents \in Entries /\ Contents[n] # None)
      <4>1. user' = [user EXCEPT ![u] = NoTarget("ended")]
        BY <1>2, <3>2 DEF ResolveTarget
      <4> QED  BY <4>1 DEF UsersTyped, UsersOK, UserOK, NoTarget
    <3> QED  BY <3>1, <3>2
  <2>3. ConnsTyped'
    BY <1>2 DEF ResolveTarget, ConnsTyped, ConnRec, NoTarget
  <2>4. ASSUME NEW v \in User, NEW j \in Conn PROVE ConnOK(v, j)'
    BY <1>2, <1>1
       DEF ResolveTarget, UsersTyped, ConnsTyped, ConnsOK, ConnOK, UserRec, ConnRec,
           NoTarget
  <2> QED  BY <2>1, <2>2, <2>3, <2>4 DEF UsersOK, ConnsOK
<1>3. ASSUME LoadKnownAgents(u) PROVE Kept
  <2>1. UsersTyped'
    BY <1>3, <1>1 DEF LoadKnownAgents, UsersTyped, UserRec
  <2>2. ASSUME NEW v \in User PROVE UserOK(v)'
    BY <1>3, <1>1 DEF LoadKnownAgents, UsersTyped, UsersOK, UserOK, UserRec
  <2>3. ConnsTyped'
    BY <1>3 DEF LoadKnownAgents, ConnsTyped, ConnRec
  <2>4. ASSUME NEW v \in User, NEW j \in Conn PROVE ConnOK(v, j)'
    BY <1>3, <1>1
       DEF LoadKnownAgents, UsersTyped, ConnsTyped, ConnsOK, ConnOK, UserRec, ConnRec
  <2> QED  BY <2>1, <2>2, <2>3, <2>4 DEF UsersOK, ConnsOK
<1>4. ASSUME UserEnds(u) PROVE Kept
  <2>1. UsersTyped'
    BY <1>4, <1>1 DEF UserEnds, UsersTyped, UserRec, NoTarget, NoConn
  <2>2. ASSUME NEW v \in User PROVE UserOK(v)'
    BY <1>4, <1>1 DEF UserEnds, UsersTyped, UsersOK, UserOK, UserRec, NoTarget, NoConn
  <2>3. ConnsTyped'
    BY <1>4 DEF UserEnds, ConnsTyped, ConnRec, NoTarget, NoConn
  <2>4. ASSUME NEW v \in User, NEW j \in Conn PROVE ConnOK(v, j)'
    BY <1>4, <1>1
       DEF UserEnds, UsersTyped, ConnsTyped, ConnsOK, ConnOK, UserRec, ConnRec,
           NoTarget, NoConn
  <2> QED  BY <2>1, <2>2, <2>3, <2>4 DEF UsersOK, ConnsOK
<1>5. ASSUME NEW k \in Conn, ConnStep(u, k) PROVE Kept
  BY <1>5, ConnStepPins
<1> QED  BY <1>0, <1>2, <1>3, <1>4, <1>5 DEF UserStep

LEMMA PinNext == PinInv /\ [Next]_vars => PinInv'
<1> SUFFICES ASSUME PinInv, [Next]_vars PROVE PinInv'
  OBVIOUS
<1>1. CASE UNCHANGED vars
  BY <1>1 DEF PinInv, vars, addVars, trustVars, FilesOK, AddersTyped, AddersOK,
     UsersTyped, UsersOK, UserOK, ConnsTyped, ConnsOK, ConnOK
<1>2. CASE Next
  BY <1>2, AdderStepPins, UserStepPins DEF Next
<1> QED  BY <1>1, <1>2

\* An agent that is only added from its invite is only spoken to with the
\* certificate of the invite, whatever becomes of the two files (trust.go:26).
THEOREM InvitedIsPinnedAlways == Spec => []InvitedIsPinned
<1>1. PinInv => InvitedIsPinned
  BY DEF PinInv, ConnsOK, ConnOK, InvitedIsPinned
<1> QED  BY <1>1, PinInit, PinNext, PTL DEF Spec

-----------------------------------------------------------------------------
(* The invariant behind ConfigIsWhatWasAdded follows the one add that runs *)
(* at a time: what it has loaded, except for its own entry, is what was    *)
(* added; what it has opened is the temporary file; and the file that has  *)
(* that name, or that it will create, is not the configuration.            *)

Alone == \A a, b \in Adder : Running(a) /\ Running(b) => a = b
Apart ==
    /\ tmp # None => tmp # config
    /\ \A a \in Adder : adder[a].at \in {"start", "loaded", "set"} => a \notin {config, tmp}
Loaded(a) ==
    adder[a].at \in {"loaded", "set", "opened", "written"} =>
        /\ adder[a].name \in Name
        /\ \A n \in Name \ {adder[a].name} : adder[a].edit[n] = added[n]
Opened(a) ==
    /\ adder[a].at \in {"opened", "written"} => tmp # None /\ adder[a].fd = tmp
    /\ adder[a].at = "opened" => inode[tmp] = Empty
    /\ adder[a].at = "written" => inode[tmp] = adder[a].edit
    /\ adder[a].at # "remove"

Saving ==
    /\ added \in Entries /\ Contents = added
    /\ Alone /\ Apart /\ \A a \in Adder : Loaded(a) /\ Opened(a)
SaveInv == ~overlapped => Saving

LEMMA SaveInit == Init => SaveInv
<1> SUFFICES ASSUME Init PROVE Saving
  BY DEF SaveInv
<1>1. added \in Entries
  BY BeforeAssumption DEF Init
<1>2. Contents = added
  BY ClientFilesAssumption DEF Init, Contents
<1>3. Alone /\ Apart
  BY ClientFilesAssumption DEF Init, Alone, Apart, Running, NotRunning
<1>4. \A a \in Adder : Loaded(a) /\ Opened(a)
  BY DEF Init, Loaded, Opened, NotRunning
<1> QED  BY <1>1, <1>2, <1>3, <1>4 DEF Saving

\* Entries that agree everywhere are the same.
LEMMA SameEntries ==
    ASSUME NEW e \in Entries, NEW m \in Entries, \A n \in Name : e[n] = m[n]
    PROVE  e = m
BY DEF Entries

LEMMA LoadSaves ==
    ASSUME PinInv, SaveInv, NEW a \in Adder, NEW n \in Name, LoadConfig(a, n)
    PROVE  SaveInv'
<1> SUFFICES ASSUME ~overlapped' PROVE Saving'
  BY DEF SaveInv
<1>0. Saving
  BY DEF LoadConfig, SaveInv
<1> USE <1>0 DEF Saving
<1>1. added' \in Entries /\ Contents' = added'
  BY DEF LoadConfig, Contents
<1>2. CASE /\ Contents \in Entries
           /\ adder' = [adder EXCEPT ![a] = [at |-> "loaded", name |-> n,
                                             edit |-> Contents, fd |-> Old]]
           /\ overlapped' = (overlapped \/ \E b \in Adder : Running(b))
  <2>1. ~ \E b \in Adder : Running(b)
    BY <1>2
  <2>2. Alone' /\ Apart'
    BY <1>2, <2>1 DEF LoadConfig, PinInv, AddersTyped, Alone, Apart, Running
  <2>3. ASSUME NEW b \in Adder PROVE Loaded(b)' /\ Opened(b)'
    BY <1>2, <2>1 DEF LoadConfig, PinInv, AddersTyped, Loaded, Opened, Running
  <2> QED  BY <1>1, <2>2, <2>3
<1>3. CASE adder' = [adder EXCEPT ![a] = NotRunning("failed")]
  <2>2. Alone' /\ Apart'
    BY <1>3 DEF LoadConfig, PinInv, AddersTyped, Alone, Apart, Running, NotRunning
  <2>3. ASSUME NEW b \in Adder PROVE Loaded(b)' /\ Opened(b)'
    BY <1>3 DEF LoadConfig, PinInv, AddersTyped, Loaded, Opened, NotRunning
  <2> QED  BY <1>1, <2>2, <2>3
<1> QED  BY <1>2, <1>3 DEF LoadConfig, Ends

LEMMA SetSaves ==
    ASSUME PinInv, SaveInv, NEW a \in Adder, NEW pin \in Cert \cup {Unpinned}, Set(a, pin)
    PROVE  SaveInv'
<1> SUFFICES ASSUME ~overlapped' PROVE Saving'
  BY DEF SaveInv
<1>0. Saving /\ adder[a] \in AdderRec
  BY DEF Set, SaveInv, PinInv, AddersTyped
<1> USE <1>0 DEF Saving
<1> DEFINE e == [adder[a].edit EXCEPT ![adder[a].name] = pin]
           r == [adder[a] EXCEPT !.at = "set", !.edit = e]
<1>1. adder' = [adder EXCEPT ![a] = r] /\ adder[a].at = "loaded"
  BY DEF Set
<1>2. r.at = "set" /\ r.name = adder[a].name /\ r.edit = e
  BY DEF AdderRec
<1>3. \A m \in Name \ {adder[a].name} : e[m] = adder[a].edit[m]
  BY DEF AdderRec, Honest, Entries
<1> HIDE DEF e, r
<1>4. added' \in Entries /\ Contents' = added'
  BY DEF Set, Contents
<1>5. Alone' /\ Apart'
  BY <1>1, <1>2 DEF Set, PinInv, AddersTyped, Alone, Apart, Running
<1>6. ASSUME NEW b \in Adder PROVE Loaded(b)' /\ Opened(b)'
  BY <1>1, <1>2, <1>3 DEF Set, PinInv, AddersTyped, Loaded, Opened
<1> QED  BY <1>4, <1>5, <1>6

LEMMA OpenSaves ==
    ASSUME PinInv, SaveInv, NEW a \in Adder, OpenTmp(a)
    PROVE  SaveInv'
<1> SUFFICES ASSUME ~overlapped' PROVE Saving'
  BY DEF SaveInv
<1>0. Saving /\ adder[a] \in AdderRec /\ adder[a].at = "set"
  BY DEF OpenTmp, SaveInv, PinInv, AddersTyped
<1> USE <1>0 DEF Saving
<1> DEFINE f == IF tmp # None THEN tmp ELSE a
           r == [adder[a] EXCEPT !.at = "opened", !.fd = f]
<1>1. /\ adder' = [adder EXCEPT ![a] = r]
      /\ inode' = [inode EXCEPT ![f] = Empty] /\ tmp' = f
      /\ UNCHANGED <<config, added, overlapped>>
  BY DEF OpenTmp
<1>2. r.at = "opened" /\ r.name = adder[a].name /\ r.edit = adder[a].edit /\ r.fd = f
  BY DEF AdderRec
<1>3. f # config /\ f # None /\ f \in Place
  BY ClientFilesAssumption DEF Apart, PinInv, FilesOK, Place
<1>4. inode'[f] = Empty /\ \A g \in Place \ {f} : inode'[g] = inode[g]
  BY <1>1, <1>3 DEF PinInv, FilesOK
<1>5. \A b \in Adder \ {a} : adder[b].at \in {"start", "added", "failed"}
  BY DEF Alone, Running
<1>6. ASSUME NEW b \in Adder, adder[b].at = "start" PROVE b # f
  BY <1>6 DEF Apart
<1> HIDE DEF f, r
<1>7. added' \in Entries /\ Contents' = added'
  BY <1>1, <1>3, <1>4 DEF Contents, PinInv, FilesOK
<1>8. Alone' /\ Apart'
  BY <1>1, <1>2, <1>3, <1>5, <1>6 DEF PinInv, AddersTyped, Alone, Apart, Running
<1>9. ASSUME NEW b \in Adder PROVE Loaded(b)' /\ Opened(b)'
  BY <1>1, <1>2, <1>3, <1>4, <1>5 DEF PinInv, AddersTyped, Loaded, Opened
<1> QED  BY <1>7, <1>8, <1>9

LEMMA WriteSaves ==
    ASSUME PinInv, SaveInv, NEW a \in Adder, WriteTmp(a)
    PROVE  SaveInv'
<1> SUFFICES ASSUME ~overlapped' PROVE Saving'
  BY DEF SaveInv
<1>0. Saving /\ adder[a] \in AdderRec /\ adder[a].at = "opened"
  BY DEF WriteTmp, SaveInv, PinInv, AddersTyped
<1> USE <1>0 DEF Saving
<1>1. /\ inode' = [inode EXCEPT ![tmp] = adder[a].edit]
      /\ adder' = [adder EXCEPT ![a] = [@ EXCEPT !.at = "written"]]
      /\ UNCHANGED <<config, tmp, added, overlapped>>
  BY DEF WriteTmp, Opened, Moves
<1>2. tmp # config /\ tmp # None /\ tmp \in Place
  BY DEF Opened, Apart, PinInv, FilesOK
<1>3. inode'[tmp] = adder[a].edit /\ \A g \in Place \ {tmp} : inode'[g] = inode[g]
  BY <1>1, <1>2 DEF PinInv, FilesOK
<1>4. \A b \in Adder \ {a} : adder[b].at \in {"start", "added", "failed"}
  BY DEF Alone, Running
<1>5. added' \in Entries /\ Contents' = added'
  BY <1>1, <1>2, <1>3 DEF Contents, PinInv, FilesOK
<1>6. Alone' /\ Apart'
  BY <1>1, <1>4 DEF PinInv, AddersTyped, AdderRec, Alone, Apart, Running
<1>7. ASSUME NEW b \in Adder PROVE Loaded(b)' /\ Opened(b)'
  BY <1>1, <1>2, <1>3, <1>4 DEF PinInv, AddersTyped, AdderRec, Loaded, Opened
<1> QED  BY <1>5, <1>6, <1>7

LEMMA RenameSaves ==
    ASSUME PinInv, SaveInv, NEW a \in Adder, Rename(a)
    PROVE  SaveInv'
<1> SUFFICES ASSUME ~overlapped' PROVE Saving'
  BY DEF SaveInv
<1>0. Saving /\ adder[a] \in AdderRec /\ adder[a].at = "written"
  BY DEF Rename, SaveInv, PinInv, AddersTyped
<1> USE <1>0 DEF Saving
<1>1. tmp # None /\ inode[tmp] = adder[a].edit /\ adder[a].name \in Name
  BY DEF Opened, Loaded
<1>2. /\ config' = tmp /\ tmp' = None
      /\ added' = [added EXCEPT ![adder[a].name] = adder[a].edit[adder[a].name]]
      /\ adder' = [adder EXCEPT ![a] = NotRunning("added")]
      /\ UNCHANGED <<inode, overlapped>>
  BY <1>1 DEF Rename, Ends
<1>3. adder[a].edit \in Entries /\ added' \in Entries
  BY <1>1, <1>2 DEF AdderRec, Honest, Entries
<1>4. Contents' = added'
  <2>1. \A n \in Name : adder[a].edit[n] = added'[n]
    BY <1>1, <1>2 DEF Loaded, Entries
  <2>2. adder[a].edit = added'
    BY <1>3, <2>1, SameEntries
  <2>3. Contents' = inode[tmp]
    BY <1>1, <1>2 DEF Contents
  <2> QED  BY <1>1, <2>2, <2>3
<1>5. \A b \in Adder \ {a} : adder[b].at \in {"start", "added", "failed"}
  BY DEF Alone, Running
<1>6. Alone' /\ Apart'
  BY <1>1, <1>2, <1>5, ClientFilesAssumption
     DEF PinInv, AddersTyped, Alone, Apart, Running, NotRunning
<1>7. ASSUME NEW b \in Adder PROVE Loaded(b)' /\ Opened(b)'
  BY <1>2, <1>5 DEF PinInv, AddersTyped, Loaded, Opened, NotRunning
<1> QED  BY <1>3, <1>4, <1>6, <1>7

LEMMA EndSaves ==
    ASSUME PinInv, SaveInv, NEW a \in Adder, AdderEnds(a)
    PROVE  SaveInv'
<1> SUFFICES ASSUME ~overlapped' PROVE Saving'
  BY DEF SaveInv
<1>0. Saving
  BY DEF AdderEnds, SaveInv
<1> USE <1>0 DEF Saving
<1>1. /\ adder' = [adder EXCEPT ![a] = NotRunning("failed")]
      /\ UNCHANGED <<config, tmp, added, overlapped>>
  BY DEF AdderEnds, Ends
<1>2. Contents' = Contents
  <2>1. CASE inode' = inode
    BY <1>1, <2>1 DEF Contents
  <2>2. CASE adder[a].at = "opened" /\ inode' = [inode EXCEPT ![adder[a].fd] = Torn]
    <3>1. adder[a].fd # config
      BY <2>2 DEF Opened, Apart
    <3> QED  BY <1>1, <2>2, <3>1 DEF Contents, PinInv, FilesOK
  <2> QED  BY <2>1, <2>2 DEF AdderEnds
<1>3. \A b \in Adder \ {a} : adder[b].at \in {"start", "added", "failed"}
  BY DEF AdderEnds, Alone, Running
<1>4. Alone' /\ Apart'
  BY <1>1, <1>3 DEF PinInv, AddersTyped, Alone, Apart, Running, NotRunning
<1>5. ASSUME NEW b \in Adder PROVE Loaded(b)' /\ Opened(b)'
  BY <1>1, <1>3 DEF PinInv, AddersTyped, Loaded, Opened, NotRunning
<1> QED  BY <1>1, <1>2, <1>4, <1>5

\* No add comes to remove the temporary file: its own rename finds it.
LEMMA SaveNext == PinInv /\ SaveInv /\ [Next]_vars => SaveInv'
<1> SUFFICES ASSUME PinInv, SaveInv, [Next]_vars PROVE SaveInv'
  OBVIOUS
<1>1. ASSUME NEW a \in Adder, AdderStep(a) PROVE SaveInv'
  <2>1. ASSUME Remove(a) PROVE SaveInv'
    BY <2>1 DEF Remove, SaveInv, Saving, Opened
  <2> QED
    BY <1>1, <2>1, LoadSaves, SetSaves, OpenSaves, WriteSaves, RenameSaves, EndSaves
       DEF AdderStep
<1>2. ASSUME UNCHANGED addVars PROVE SaveInv'
  BY <1>2 DEF addVars, SaveInv, Saving, Contents, Alone, Apart, Loaded, Opened, Running
<1>3. ASSUME NEW u \in User, UserStep(u) PROVE UNCHANGED addVars
  BY <1>3 DEF UserStep, ConnStep, ResolveTarget, LoadKnownAgents, UserEnds, TlsConfigFor,
     WriteKnown, WriteKnownFails, Verify, Add, AddFails
<1> QED  BY <1>1, <1>2, <1>3 DEF Next, vars

\* Adds that run one after another lose nothing, wherever each of them ends
\* (config.go:79): the configuration is what the successful ones have added.
THEOREM ConfigIsWhatWasAddedAlways == Spec => []ConfigIsWhatWasAdded
<1>1. SaveInv => ConfigIsWhatWasAdded
  BY DEF SaveInv, Saving, ConfigIsWhatWasAdded
<1> QED  BY <1>1, PinInit, PinNext, SaveInit, SaveNext, PTL DEF Spec

-----------------------------------------------------------------------------
(* The invariant behind TrustHolds.  One recording is made at a time, by a *)
(* command that knows of every earlier one: a command that does not has    *)
(* missed one, and is behind.  While one is made the file does not parse.  *)

Recording(u) == user[u].lock # None
LockOK(u) ==
    /\ Recording(u) => /\ user[u].at = "ready" /\ user[u].known # None
                       /\ conn[<<u, user[u].lock>>].at = "recording"
    /\ \A k \in Conn : conn[<<u, k>>].at = "recording" =>
          user[u].lock = k /\ conn[<<u, k>>].cert \in Cert
TrustTyped ==
    /\ known \in Pins \cup {Empty, Torn} /\ trusted \subseteq Name \X Cert
    /\ \A u \in User : LockOK(u)

\* Pins that hold every certificate that is trusted.
Agrees(m) == \A t \in trusted : m[t[1]] = t[2]
FileHolds ==
    /\ known \in Pins => Agrees(known)
    /\ (\A u \in User : ~Recording(u)) => known \in Pins
Records(u) == Recording(u) =>
    /\ known = Empty /\ \A v \in User : Recording(v) => v = u
    /\ Agrees(user[u].known) /\ KnownPin(u) = conn[<<u, user[u].lock>>].cert

\* A connection that may yet find its agent unknown, and is not behind: nobody
\* is recording, and the command knows all that is trusted, which is nothing
\* for this agent.
Asks(u, k) ==
    /\ user[u].at = "ready" /\ user[u].known # None /\ <<u, k>> \notin behind
    /\ \/ conn[<<u, k>>].at = "idle" /\ KnownPin(u) = None
       \/ conn[<<u, k>>].at = "dialling" /\ conn[<<u, k>>].pin = None
MayRecord(u, k) == Asks(u, k) =>
    /\ \A v \in User : ~Recording(v)
    /\ Agrees(user[u].known) /\ \A t \in trusted : t[1] # user[u].name

\* A command that was told whom to trust keeps to it.
Keeps(u) == user[u].at = "ready" /\ ~Pinned(u) /\ user[u].told # {} =>
    /\ user[u].known # None /\ KnownPin(u) \in user[u].told
    /\ \A k \in Conn :
         /\ conn[<<u, k>>].at = "dialling" => conn[<<u, k>>].pin = KnownPin(u)
         /\ conn[<<u, k>>].at # "recording"
         /\ conn[<<u, k>>].at = "accepted" => conn[<<u, k>>].cert \in user[u].told

Trusting ==
    /\ FileHolds
    /\ \A u \in User : Records(u) /\ Keeps(u)
    /\ \A u \in User, k \in Conn : MayRecord(u, k)
TrustInv == TrustTyped /\ (tidy => Trusting)

\* At first nothing is trusted.
LEMMA TrustInit == Init => TrustInv
<1> SUFFICES ASSUME Init PROVE TrustInv
  OBVIOUS
<1>1. /\ trusted = {} /\ known \in Pins
      /\ \A u \in User : user[u].at # "ready" /\ user[u].lock = None
      /\ \A u \in User, k \in Conn : conn[<<u, k>>].at = "idle"
  BY BeforeAssumption DEF Init, NoTarget, NoConn
<1>2. TrustTyped
  BY <1>1 DEF TrustTyped, LockOK, Recording
<1>3. Trusting
  BY <1>1 DEF Trusting, FileHolds, Agrees, Records, Recording, Keeps, MayRecord, Asks
<1> QED  BY <1>2, <1>3 DEF TrustInv

\* A step of an add has nothing to do with trust.
LEMMA TrustStutter ==
    ASSUME TrustInv, UNCHANGED trustVars
    PROVE  TrustInv'
BY DEF TrustInv, trustVars, TrustTyped, LockOK, Recording, Trusting, FileHolds, Agrees,
       Records, Keeps, MayRecord, Asks, Pinned, KnownPin

\* The types every step starts from.
LEMMA UserTypes ==
    ASSUME PinInv, NEW u \in User
    PROVE  /\ user[u] \in UserRec /\ user \in [User -> UserRec]
           /\ conn \in [User \X Conn -> ConnRec]
           /\ user[u].at \in {"resolved", "ready"} => user[u].name \in Name
           /\ \A k \in Conn : /\ conn[<<u, k>>] \in ConnRec
                              /\ conn[<<u, k>>].at # "idle" => user[u].at = "ready"
           /\ None \notin Cert /\ None \notin Conn /\ None \notin Pins
           /\ Empty \notin Pins /\ Torn \notin Pins /\ Empty # Torn
BY ClientFilesAssumption, ContentAssumption
   DEF PinInv, UsersTyped, UsersOK, UserOK, ConnsTyped, ConnsOK, ConnOK

\* A command that has no part in the trust before and after a step.
LEMMA NotReadyTrusts ==
    ASSUME PinInv, TrustInv, NEW u \in User,
           user[u].lock = None, user'[u].lock = None, user'[u].at # "ready",
           \A v \in User \ {u} : user'[v] = user[v],
           \A k \in Conn : conn'[<<u, k>>].at = "idle",
           \A v \in User \ {u}, k \in Conn :
               conn'[<<v, k>>] = conn[<<v, k>>] /\ (<<v, k>> \in behind' <=> <<v, k>> \in behind),
           UNCHANGED <<known, trusted, tidy>>
    PROVE  TrustInv'
<1>1. \A v \in User : Recording(v)' <=> Recording(v)
  BY DEF Recording
<1>2. ASSUME NEW v \in User PROVE LockOK(v)'
  BY ClientFilesAssumption DEF TrustInv, TrustTyped, LockOK, Recording, PinInv, UsersTyped, UserRec
<1>3. TrustTyped'
  BY <1>2 DEF TrustInv, TrustTyped
<1>4. ASSUME Trusting PROVE Trusting'
  <2>1. FileHolds'
    BY <1>1, <1>4 DEF Trusting, FileHolds, Agrees
  <2>2. ASSUME NEW v \in User PROVE Records(v)' /\ Keeps(v)'
    <3>1. CASE v = u
      BY <3>1 DEF Records, Keeps, Recording
    <3>2. CASE v # u
      <4>1. Records(v)'
        <5>1. ASSUME Recording(v) PROVE conn'[<<v, user[v].lock>>] = conn[<<v, user[v].lock>>]
          BY <3>2, <5>1 DEF Recording, PinInv, UsersTyped, UserRec
        <5> QED  BY <1>1, <1>4, <3>2, <5>1 DEF Trusting, Records, Agrees, KnownPin
      <4>2. Keeps(v)'
        BY <1>4, <3>2 DEF Trusting, Keeps, Pinned, KnownPin
      <4> QED  BY <4>1, <4>2
    <3> QED  BY <3>1, <3>2
  <2>3. ASSUME NEW v \in User, NEW k \in Conn PROVE MayRecord(v, k)'
    <3>1. CASE v = u
      BY <3>1 DEF MayRecord, Asks
    <3>2. CASE v # u
      BY <1>1, <1>4, <3>2 DEF Trusting, MayRecord, Asks, Agrees, KnownPin
    <3> QED  BY <3>1, <3>2
  <2> QED  BY <2>1, <2>2, <2>3 DEF Trusting
<1> QED  BY <1>3, <1>4 DEF TrustInv

\* A command that has its entry knows no pins yet.
LEMMA ResolveTrusts ==
    ASSUME PinInv, TrustInv, NEW u \in User, NEW n \in Name, ResolveTarget(u, n)
    PROVE  TrustInv'
<1>0. /\ user[u].at = "start" /\ user \in [User -> UserRec] /\ user[u] \in UserRec
      /\ \A k \in Conn : conn[<<u, k>>].at = "idle"
  BY UserTypes DEF ResolveTarget
<1>1. /\ user[u].lock = None /\ user'[u].at # "ready" /\ user'[u].lock = None
      /\ \A v \in User \ {u} : user'[v] = user[v]
      /\ UNCHANGED <<known, conn, trusted, behind, tidy>>
  <2>1. user[u].lock = None
    BY <1>0 DEF TrustInv, TrustTyped, LockOK, Recording
  <2>2. CASE user' = [user EXCEPT ![u] = NoTarget("ended")]
    BY <1>0, <2>1, <2>2 DEF ResolveTarget, NoTarget
  <2>3. CASE user' = [user EXCEPT ![u] = [user[u] EXCEPT !.at = "resolved", !.name = n,
                                                          !.pin = Contents[n]]]
    <3> DEFINE r == [user[u] EXCEPT !.at = "resolved", !.name = n, !.pin = Contents[n]]
    <3>1. r.at = "resolved" /\ r.lock = user[u].lock
      BY <1>0 DEF UserRec
    <3>2. user' = [user EXCEPT ![u] = r]
      BY <2>3
    <3> HIDE DEF r
    <3> QED  BY <1>0, <2>1, <3>1, <3>2 DEF ResolveTarget
  <2> QED  BY <2>2, <2>3 DEF ResolveTarget
<1> QED  BY <1>0, <1>1, NotReadyTrusts

\* A command that starts from a file that parses knows all that is trusted.
LEMMA LoadTrusts ==
    ASSUME PinInv, TrustInv, NEW u \in User, LoadKnownAgents(u)
    PROVE  TrustInv'
<1> DEFINE pins == IF known \in Pins THEN known ELSE None
           told == {c \in Cert : <<user[u].name, c>> \in trusted}
           r == [user[u] EXCEPT !.at = "ready", !.known = pins, !.told = told]
<1>0. /\ user[u].at = "resolved" /\ user \in [User -> UserRec] /\ user[u] \in UserRec
      /\ user[u].name \in Name /\ user[u].lock = None /\ None \notin Pins /\ Empty \notin Pins
      /\ \A k \in Conn : conn[<<u, k>>].at = "idle"
  BY UserTypes DEF LoadKnownAgents, TrustInv, TrustTyped, LockOK, Recording
<1>1. /\ user' = [user EXCEPT ![u] = r] /\ (tidy' <=> tidy /\ known \in Pins)
      /\ UNCHANGED <<known, conn, trusted, behind>>
  BY DEF LoadKnownAgents
<1>2. /\ r.at = "ready" /\ r.known = pins /\ r.told = told
      /\ r.name = user[u].name /\ r.pin = user[u].pin /\ r.lock = None
  BY <1>0 DEF UserRec
<1>3. user'[u] = r /\ \A v \in User \ {u} : user'[v] = user[v]
  BY <1>0, <1>1
<1>a. known \in Pins => pins = known
  OBVIOUS
<1>b. \A c \in told : <<user[u].name, c>> \in trusted
  OBVIOUS
<1> HIDE DEF r, pins, told
<1>4. \A v \in User : Recording(v)' <=> Recording(v)
  BY <1>0, <1>2, <1>3 DEF Recording
<1>5. ASSUME NEW v \in User PROVE LockOK(v)'
  BY <1>0, <1>1, <1>2, <1>3 DEF TrustInv, TrustTyped, LockOK, Recording
<1>6. TrustTyped'
  BY <1>1, <1>5 DEF TrustInv, TrustTyped
<1>7. ASSUME tidy' PROVE Trusting'
  <2>1. Trusting /\ known \in Pins /\ pins = known
    BY <1>1, <1>7, <1>a DEF TrustInv
  <2>2. Agrees(known) /\ \A v \in User : ~Recording(v)
    BY <1>0, <2>1 DEF Trusting, FileHolds, Records
  <2>3. FileHolds'
    BY <1>1, <2>1, <2>2 DEF FileHolds, Agrees
  <2>4. ASSUME NEW v \in User PROVE Records(v)' /\ Keeps(v)'
    <3>1. Records(v)'
      BY <1>4, <2>2 DEF Records
    <3>2. ASSUME v # u PROVE Keeps(v)'
      <4>1. user'[v] = user[v] /\ conn' = conn /\ Keeps(v)
        BY <1>1, <1>3, <2>1, <3>2 DEF Trusting
      <4> QED  BY <4>1 DEF Keeps, Pinned, KnownPin
    <3>3. ASSUME v = u PROVE Keeps(v)'
      <4>1. ASSUME NEW c \in told PROVE known[user[u].name] = c
        BY <1>b, <2>2 DEF Agrees
      <4>2. user'[u].known = known /\ user'[u].name = user[u].name
        BY <1>0, <1>2, <1>3, <2>1
      <4>3. told # {} => known[user[u].name] \in told
        BY <4>1
      <4>4. \A k \in Conn : conn'[<<u, k>>].at = "idle"
        BY <1>0, <1>1
      <4>5. user'[u].told = told /\ user'[u].known # None
        BY <1>0, <1>2, <1>3, <2>1
      <4> QED  BY <3>3, <4>2, <4>3, <4>4, <4>5 DEF Keeps, KnownPin
    <3> QED  BY <3>1, <3>2, <3>3
  <2>5. ASSUME NEW v \in User, NEW k \in Conn PROVE MayRecord(v, k)'
    <3>1. CASE v # u
      BY <1>1, <1>3, <1>4, <2>1, <3>1 DEF Trusting, MayRecord, Asks, Agrees, KnownPin
    <3>2. CASE v = u
      <4>1. KnownPin(u)' = known[user[u].name]
        BY <1>0, <1>2, <1>3, <2>1 DEF KnownPin
      <4>2. known[user[u].name] = None => \A t \in trusted : t[1] # user[u].name
        <5>1. \A t \in trusted : t[2] \in Cert /\ None \notin Cert
          BY UserTypes DEF TrustInv, TrustTyped
        <5> QED  BY <2>2, <5>1 DEF Agrees
      <4>3. Agrees(user[u].known)'
        BY <1>3, <1>1, <1>2, <2>1, <2>2 DEF Agrees
      <4> QED  BY <1>0, <1>1, <1>2, <1>3, <1>4, <2>1, <2>2, <3>2, <4>1, <4>2 DEF MayRecord, Asks, Agrees
    <3> QED  BY <3>1, <3>2
  <2> QED  BY <2>3, <2>4, <2>5 DEF Trusting
<1> QED  BY <1>6, <1>7 DEF TrustInv

\* A connection takes its pin from what the command knows.
LEMMA DialTrusts ==
    ASSUME PinInv, TrustInv, NEW u \in User, NEW k \in Conn, TlsConfigFor(u, k)
    PROVE  TrustInv'
<1> DEFINE pin == IF Pinned(u) THEN user[u].pin ELSE KnownPin(u)
           q == [conn[<<u, k>>] EXCEPT !.at = "dialling", !.pin = pin]
<1>0. /\ user[u].at = "ready" /\ conn[<<u, k>>].at = "idle"
      /\ conn \in [User \X Conn -> ConnRec] /\ conn[<<u, k>>] \in ConnRec /\ None \notin Cert
  BY UserTypes DEF TlsConfigFor
<1>1. conn' = [conn EXCEPT ![<<u, k>>] = q] /\ UNCHANGED <<known, user, trusted, behind, tidy>>
  BY DEF TlsConfigFor
<1>2. q.at = "dialling" /\ q.pin = pin
  BY <1>0 DEF ConnRec
<1>3. /\ conn'[<<u, k>>] = q
      /\ \A v \in User, j \in Conn : <<v, j>> # <<u, k>> => conn'[<<v, j>>] = conn[<<v, j>>]
  BY <1>0, <1>1
<1>4. pin = None => KnownPin(u) = None
  BY <1>0 DEF Pinned
<1>5. ~Pinned(u) => pin = KnownPin(u)
  OBVIOUS
<1> HIDE DEF q, pin
<1>6. ASSUME NEW v \in User PROVE LockOK(v)' /\ (Recording(v)' <=> Recording(v))
  <2>1. LockOK(v) /\ user[v] \in UserRec
    BY UserTypes DEF TrustInv, TrustTyped
  <2>2. Recording(v) => user[v].lock \in Conn /\ <<v, user[v].lock>> # <<u, k>>
    BY <1>0, <2>1 DEF LockOK, Recording, UserRec
  <2>3. \A j \in Conn : conn'[<<v, j>>].at = "recording" => conn'[<<v, j>>] = conn[<<v, j>>]
    BY <1>2, <1>3
  <2> QED  BY <1>1, <1>3, <2>1, <2>2, <2>3 DEF LockOK, Recording
<1>7. TrustTyped'
  BY <1>1, <1>6 DEF TrustInv, TrustTyped
<1>8. ASSUME tidy' PROVE Trusting'
  <2>1. Trusting
    BY <1>1, <1>8 DEF TrustInv
  <2>2. FileHolds'
    BY <1>1, <1>6, <2>1 DEF Trusting, FileHolds, Agrees
  <2>3. ASSUME NEW v \in User PROVE Records(v)'
    <3>1. Recording(v) => conn'[<<v, user[v].lock>>] = conn[<<v, user[v].lock>>]
      <4>1. Recording(v) => user[v].lock \in Conn /\ conn[<<v, user[v].lock>>].at = "recording"
        BY UserTypes DEF TrustInv, TrustTyped, LockOK, Recording, UserRec
      <4> QED  BY <1>0, <1>3, <4>1
    <3> QED  BY <1>1, <1>6, <2>1, <3>1 DEF Trusting, Records, Agrees, KnownPin
  <2>4. ASSUME NEW v \in User PROVE Keeps(v)'
    BY <1>1, <1>2, <1>3, <1>5, <2>1 DEF Trusting, Keeps, Pinned, KnownPin
  <2>5. ASSUME NEW v \in User, NEW j \in Conn PROVE MayRecord(v, j)'
    <3>1. Asks(v, j)' => Asks(v, j)
      BY <1>0, <1>1, <1>2, <1>3, <1>4 DEF Asks, KnownPin
    <3> QED  BY <1>1, <1>6, <2>1, <3>1 DEF Trusting, MayRecord, Agrees
  <2> QED  BY <2>2, <2>3, <2>4, <2>5 DEF Trusting
<1> QED  BY <1>7, <1>8 DEF TrustInv

\* A pin that is there is what the certificate is compared with.
LEMMA VerifyTrusts ==
    ASSUME PinInv, TrustInv, NEW u \in User, NEW k \in Conn, NEW c \in Cert, Verify(u, k, c)
    PROVE  TrustInv'
<1>0. /\ user[u].at = "ready" /\ conn[<<u, k>>].at = "dialling"
      /\ conn \in [User \X Conn -> ConnRec] /\ conn[<<u, k>>] \in ConnRec /\ None \notin Cert
      /\ UNCHANGED <<known, user, trusted, behind, tidy>>
  BY UserTypes DEF Verify
<1>1. PICK verdict \in {"accepted", "refused"} :
         /\ conn' = [conn EXCEPT ![<<u, k>>] = [at |-> verdict, pin |-> None, cert |-> c]]
         /\ verdict = "accepted" /\ conn[<<u, k>>].pin # None => c = conn[<<u, k>>].pin
  BY DEF Verify, Verified
<1>2. /\ conn'[<<u, k>>].at = verdict /\ conn'[<<u, k>>].cert = c
      /\ \A v \in User, j \in Conn : <<v, j>> # <<u, k>> => conn'[<<v, j>>] = conn[<<v, j>>]
  BY <1>0, <1>1
<1>3. ASSUME NEW v \in User
      PROVE  /\ LockOK(v)' /\ (Recording(v)' <=> Recording(v))
             /\ Recording(v) => conn'[<<v, user[v].lock>>] = conn[<<v, user[v].lock>>]
  <2>1. LockOK(v) /\ user[v] \in UserRec
    BY UserTypes DEF TrustInv, TrustTyped
  <2>2. Recording(v) => user[v].lock \in Conn /\ <<v, user[v].lock>> # <<u, k>>
    BY <1>0, <2>1 DEF LockOK, Recording, UserRec
  <2>3. \A j \in Conn : conn'[<<v, j>>].at = "recording" => conn[<<v, j>>].at = "recording"
    BY <1>1, <1>2
  <2> QED  BY <1>0, <1>2, <2>1, <2>2, <2>3 DEF LockOK, Recording
<1>4. TrustTyped'
  BY <1>0, <1>3 DEF TrustInv, TrustTyped
<1>5. ASSUME tidy' PROVE Trusting'
  <2>1. Trusting
    BY <1>0, <1>5 DEF TrustInv
  <2>2. FileHolds'
    BY <1>0, <1>3, <2>1 DEF Trusting, FileHolds, Agrees
  <2>3. ASSUME NEW v \in User PROVE Records(v)'
    <3> SUFFICES ASSUME Recording(v)
                 PROVE  /\ known' = Empty /\ \A w \in User : Recording(w)' => w = v
                        /\ Agrees(user[v].known)'
                        /\ KnownPin(v)' = conn'[<<v, user'[v].lock>>].cert
      BY <1>0, <1>3 DEF Records, Recording
    <3>1. /\ known = Empty /\ \A w \in User : Recording(w) => w = v
          /\ Agrees(user[v].known) /\ KnownPin(v) = conn[<<v, user[v].lock>>].cert
      BY <2>1 DEF Trusting, Records
    <3>2. Agrees(user[v].known)' /\ KnownPin(v)' = KnownPin(v)
      BY <1>0, <3>1 DEF Agrees, KnownPin
    <3> QED  BY <1>0, <1>3, <3>1, <3>2
  <2>4. ASSUME NEW v \in User PROVE Keeps(v)'
    <3> SUFFICES ASSUME user[v].at = "ready", ~Pinned(v), user[v].told # {}
                 PROVE  /\ user[v].known # None /\ KnownPin(v) \in user[v].told
                        /\ \A j \in Conn :
                             /\ conn'[<<v, j>>].at = "dialling" => conn'[<<v, j>>].pin = KnownPin(v)
                             /\ conn'[<<v, j>>].at # "recording"
                             /\ conn'[<<v, j>>].at = "accepted" => conn'[<<v, j>>].cert \in user[v].told
      BY <1>0 DEF Keeps, Pinned, KnownPin
    <3>1. Keeps(v) /\ user[v] \in UserRec
      BY <2>1, UserTypes DEF Trusting
    <3>2. KnownPin(v) \in Cert
      BY <3>1 DEF Keeps, UserRec
    <3> QED  BY <1>0, <1>1, <1>2, <3>1, <3>2 DEF Keeps
  <2>5. ASSUME NEW v \in User, NEW j \in Conn PROVE MayRecord(v, j)'
    <3>1. Asks(v, j)' => Asks(v, j)
      BY <1>0, <1>1, <1>2 DEF Asks, KnownPin
    <3> QED  BY <1>0, <1>3, <2>1, <3>1 DEF Trusting, MayRecord, Agrees
  <2> QED  BY <2>2, <2>3, <2>4, <2>5 DEF Trusting
<1> QED  BY <1>4, <1>5 DEF TrustInv

\* A recording starts by a command that knows all that is trusted; every other
\* connection that could record is behind from then on.
LEMMA AddTrusts ==
    ASSUME PinInv, TrustInv, NEW u \in User, NEW k \in Conn, NEW c \in Cert, Add(u, k, c)
    PROVE  TrustInv'
<1> DEFINE r == [user[u] EXCEPT !.lock = k, !.known = WithPin(u, c)]
<1>0. /\ user[u].at = "ready" /\ conn[<<u, k>>].at = "dialling" /\ conn[<<u, k>>].pin = None
      /\ user[u].known \in Pins /\ user[u].lock = None /\ user[u].name \in Name
      /\ conn \in [User \X Conn -> ConnRec] /\ user \in [User -> UserRec] /\ user[u] \in UserRec
      /\ None \notin Cert /\ None \notin Conn /\ None \notin Pins /\ Empty \notin Pins
  BY UserTypes DEF Add, Unknown, UserRec
<1>1. /\ user' = [user EXCEPT ![u] = r] /\ known' = Empty /\ trusted' = trusted
      /\ conn' = [conn EXCEPT ![<<u, k>>] = [at |-> "recording", pin |-> None, cert |-> c]]
      /\ behind' = behind \cup Elsewhere(u) \cup Beside(u, k)
      /\ (tidy' <=> tidy /\ <<u, k>> \notin behind)
  BY DEF Add, Verified
<1>2. /\ r.lock = k /\ r.known = WithPin(u, c) /\ r.at = "ready"
      /\ r.name = user[u].name /\ r.pin = user[u].pin /\ r.told = user[u].told
  BY <1>0 DEF UserRec
<1>3. /\ user'[u] = r /\ \A v \in User \ {u} : user'[v] = user[v]
      /\ conn'[<<u, k>>].at = "recording" /\ conn'[<<u, k>>].cert = c
      /\ \A v \in User, j \in Conn : <<v, j>> # <<u, k>> => conn'[<<v, j>>] = conn[<<v, j>>]
  BY <1>0, <1>1
<1>4. /\ WithPin(u, c) \in Pins /\ WithPin(u, c)[user[u].name] = c
      /\ \A n \in Name : n # user[u].name => WithPin(u, c)[n] = user[u].known[n]
  BY <1>0 DEF WithPin, Pins
<1> HIDE DEF r
<1>5. ASSUME NEW v \in User PROVE LockOK(v)'
  <2>1. LockOK(v) /\ user[v] \in UserRec
    BY UserTypes DEF TrustInv, TrustTyped
  <2>2. CASE v = u
    <3>1. \A j \in Conn : conn[<<u, j>>].at # "recording"
      BY <1>0, <2>1, <2>2 DEF LockOK
    <3>2. /\ user'[v].lock = k /\ user'[v].at = "ready" /\ user'[v].known # None
          /\ conn'[<<v, user'[v].lock>>].at = "recording"
      BY <1>0, <1>2, <1>3, <1>4, <2>2
    <3>3. ASSUME NEW j \in Conn, conn'[<<v, j>>].at = "recording"
          PROVE  user'[v].lock = j /\ conn'[<<v, j>>].cert \in Cert
      <4>1. CASE j = k
        BY <1>3, <2>2, <3>2, <4>1
      <4>2. CASE j # k
        BY <1>3, <2>2, <3>1, <3>3, <4>2
      <4> QED  BY <4>1, <4>2
    <3> QED  BY <3>2, <3>3 DEF LockOK, Recording
  <2>3. CASE v # u
    BY <1>3, <2>1, <2>3 DEF LockOK, Recording, UserRec
  <2> QED  BY <2>2, <2>3
<1>6. TrustTyped'
  BY <1>1, <1>5 DEF TrustInv, TrustTyped
<1>7. ASSUME tidy' PROVE Trusting'
  <2>1. Trusting /\ <<u, k>> \notin behind
    BY <1>1, <1>7 DEF TrustInv
  <2>2. /\ \A v \in User : ~Recording(v)
        /\ Agrees(user[u].known) /\ \A t \in trusted : t[1] # user[u].name
    BY <1>0, <2>1 DEF Trusting, MayRecord, Asks
  <2>3. Recording(u)' /\ \A v \in User : Recording(v)' => v = u
    BY <1>0, <1>2, <1>3, <2>2 DEF Recording
  <2>4. FileHolds'
    BY <1>0, <1>1, <2>3 DEF FileHolds, Recording
  <2>5. ASSUME NEW v \in User PROVE Records(v)'
    <3>1. CASE v # u
      BY <2>3, <3>1 DEF Records
    <3>2. CASE v = u
      <4>1. \A t \in trusted : WithPin(u, c)[t[1]] = t[2]
        <5>1. \A t \in trusted : t[1] \in Name
          BY DEF TrustInv, TrustTyped
        <5> QED  BY <1>4, <2>2, <5>1 DEF Agrees
      <4> QED  BY <1>0, <1>1, <1>2, <1>3, <1>4, <2>3, <3>2, <4>1
               DEF Records, Agrees, KnownPin, Recording
    <3> QED  BY <3>1, <3>2
  <2>6. ASSUME NEW v \in User PROVE Keeps(v)'
    <3>1. CASE v # u
      <4>1. /\ Keeps(v) /\ user'[v] = user[v]
            /\ \A j \in Conn : conn'[<<v, j>>] = conn[<<v, j>>]
        BY <1>3, <2>1, <3>1 DEF Trusting
      <4> QED  BY <4>1 DEF Keeps, Pinned, KnownPin
    <3>2. CASE v = u
      <4>1. Pinned(u) \/ user[u].told = {}
        <5>1. ASSUME ~Pinned(u), user[u].told # {} PROVE FALSE
          <6>1. KnownPin(u) \in user[u].told /\ conn[<<u, k>>].pin = KnownPin(u)
            BY <1>0, <2>1, <5>1 DEF Trusting, Keeps
          <6> QED  BY <1>0, <6>1 DEF UserRec
        <5> QED  BY <5>1
      <4> QED  BY <1>2, <1>3, <3>2, <4>1 DEF Keeps, Pinned
    <3> QED  BY <3>1, <3>2
  <2>7. ASSUME NEW v \in User, NEW j \in Conn PROVE ~Asks(v, j)'
    <3>1. CASE v # u
      <4>1. user[v].at = "ready" => <<v, j>> \in behind'
        BY <1>1, <3>1 DEF Elsewhere
      <4> QED  BY <1>3, <3>1, <4>1 DEF Asks
    <3>2. CASE v = u /\ j = k
      BY <1>3, <3>2 DEF Asks
    <3>3. CASE v = u /\ j # k
      <4>1. conn[<<u, j>>].at = "dialling" => <<u, j>> \in behind'
        BY <1>1, <3>3 DEF Beside
      <4>2. conn'[<<u, j>>] = conn[<<u, j>>]
        BY <1>3, <3>3
      <4> QED  BY <1>0, <1>2, <1>3, <1>4, <3>3, <4>1, <4>2 DEF Asks, KnownPin
    <3> QED  BY <3>1, <3>2, <3>3
  <2> QED  BY <2>4, <2>5, <2>6, <2>7 DEF Trusting, MayRecord
<1> QED  BY <1>6, <1>7 DEF TrustInv

\* A recording that fails at once leaves a pin in memory only, for an agent
\* that nobody has trusted.
LEMMA AddFailsTrusts ==
    ASSUME PinInv, TrustInv, NEW u \in User, NEW k \in Conn, NEW c \in Cert, AddFails(u, k, c)
    PROVE  TrustInv'
<1> DEFINE r == [user[u] EXCEPT !.known = WithPin(u, c)]
<1>0. /\ user[u].at = "ready" /\ conn[<<u, k>>].at = "dialling" /\ conn[<<u, k>>].pin = None
      /\ user[u].known \in Pins /\ user[u].lock = None /\ user[u].name \in Name
      /\ conn \in [User \X Conn -> ConnRec] /\ user \in [User -> UserRec] /\ user[u] \in UserRec
      /\ None \notin Cert /\ None \notin Conn /\ None \notin Pins /\ Empty \notin Pins
  BY UserTypes DEF AddFails, Unknown, UserRec
<1>1. /\ user' = [user EXCEPT ![u] = r] /\ UNCHANGED <<known, trusted, behind, tidy>>
      /\ conn' = [conn EXCEPT ![<<u, k>>] = [at |-> "refused", pin |-> None, cert |-> c]]
  BY DEF AddFails, Verified
<1>2. /\ r.lock = None /\ r.known = WithPin(u, c) /\ r.at = "ready"
      /\ r.name = user[u].name /\ r.pin = user[u].pin /\ r.told = user[u].told
  BY <1>0 DEF UserRec
<1>3. /\ user'[u] = r /\ \A v \in User \ {u} : user'[v] = user[v]
      /\ conn'[<<u, k>>].at = "refused"
      /\ \A v \in User, j \in Conn : <<v, j>> # <<u, k>> => conn'[<<v, j>>] = conn[<<v, j>>]
  BY <1>0, <1>1
<1>4. /\ WithPin(u, c) \in Pins /\ WithPin(u, c)[user[u].name] = c
      /\ \A n \in Name : n # user[u].name => WithPin(u, c)[n] = user[u].known[n]
  BY <1>0 DEF WithPin, Pins
<1> HIDE DEF r
<1>5. \A v \in User : Recording(v)' <=> Recording(v)
  BY <1>0, <1>2, <1>3 DEF Recording
<1>6. ASSUME NEW v \in User PROVE LockOK(v)'
  <2>1. LockOK(v) /\ user[v] \in UserRec
    BY UserTypes DEF TrustInv, TrustTyped
  <2>2. CASE v = u
    <3>1. \A j \in Conn : conn[<<u, j>>].at # "recording"
      BY <1>0, <2>1, <2>2 DEF LockOK
    <3> QED  BY <1>0, <1>2, <1>3, <1>4, <2>2, <3>1 DEF LockOK, Recording
  <2>3. CASE v # u
    BY <1>3, <2>1, <2>3 DEF LockOK, Recording, UserRec
  <2> QED  BY <2>2, <2>3
<1>7. TrustTyped'
  BY <1>1, <1>6 DEF TrustInv, TrustTyped
<1>8. ASSUME tidy' PROVE Trusting'
  <2>1. Trusting
    BY <1>1, <1>8 DEF TrustInv
  <2>2. FileHolds'
    BY <1>1, <1>5, <2>1 DEF Trusting, FileHolds, Agrees
  <2>3. ASSUME NEW v \in User PROVE Records(v)'
    <3>1. CASE v = u
      BY <1>2, <1>3, <3>1 DEF Records, Recording
    <3>2. CASE v # u
      <4>1. /\ Records(v) /\ user'[v] = user[v] /\ user[v] \in UserRec
            /\ \A j \in Conn : conn'[<<v, j>>] = conn[<<v, j>>]
        BY <1>3, <2>1, <3>2, UserTypes DEF Trusting
      <4>2. Recording(v) => user[v].lock \in Conn
        BY <4>1 DEF Recording, UserRec
      <4> QED  BY <1>1, <1>5, <4>1, <4>2 DEF Records, Agrees, KnownPin
    <3> QED  BY <3>1, <3>2
  <2>4. ASSUME NEW v \in User PROVE Keeps(v)'
    <3>1. CASE v # u
      <4>1. /\ Keeps(v) /\ user'[v] = user[v]
            /\ \A j \in Conn : conn'[<<v, j>>] = conn[<<v, j>>]
        BY <1>3, <2>1, <3>1 DEF Trusting
      <4> QED  BY <4>1 DEF Keeps, Pinned, KnownPin
    <3>2. CASE v = u
      <4>1. Pinned(u) \/ user[u].told = {}
        <5>1. ASSUME ~Pinned(u), user[u].told # {} PROVE FALSE
          <6>1. KnownPin(u) \in user[u].told /\ conn[<<u, k>>].pin = KnownPin(u)
            BY <1>0, <2>1, <5>1 DEF Trusting, Keeps
          <6> QED  BY <1>0, <6>1 DEF UserRec
        <5> QED  BY <5>1
      <4> QED  BY <1>2, <1>3, <3>2, <4>1 DEF Keeps, Pinned
    <3> QED  BY <3>1, <3>2
  <2>5. ASSUME NEW v \in User, NEW j \in Conn, Asks(v, j)'
        PROVE  /\ \A w \in User : ~Recording(w)'
               /\ Agrees(user[v].known)' /\ \A t \in trusted' : t[1] # user'[v].name
    <3>1. CASE v # u
      <4>1. /\ MayRecord(v, j) /\ user'[v] = user[v] /\ conn'[<<v, j>>] = conn[<<v, j>>]
        BY <1>3, <2>1, <3>1 DEF Trusting
      <4>2. Asks(v, j)
        BY <1>1, <2>5, <4>1 DEF Asks, KnownPin
      <4> QED  BY <1>1, <1>5, <4>1, <4>2 DEF MayRecord, Agrees
    <3>2. CASE v = u
      <4>1. j # k /\ conn'[<<u, j>>] = conn[<<u, j>>]
        BY <1>3, <2>5, <3>2 DEF Asks
      <4>2. Asks(u, j)
        BY <1>0, <1>1, <1>2, <1>3, <1>4, <2>5, <3>2, <4>1 DEF Asks, KnownPin
      <4>3. /\ \A w \in User : ~Recording(w)
            /\ Agrees(user[u].known) /\ \A t \in trusted : t[1] # user[u].name
        BY <2>1, <4>2 DEF Trusting, MayRecord
      <4>4. \A t \in trusted : WithPin(u, c)[t[1]] = t[2]
        <5>1. \A t \in trusted : t[1] \in Name
          BY DEF TrustInv, TrustTyped
        <5> QED  BY <1>4, <4>3, <5>1 DEF Agrees
      <4> QED  BY <1>1, <1>2, <1>3, <1>5, <3>2, <4>3, <4>4 DEF Agrees
    <3> QED  BY <3>1, <3>2
  <2>6. \A v \in User, j \in Conn : MayRecord(v, j)'
    BY <2>5 DEF MayRecord
  <2> QED  BY <2>2, <2>3, <2>4, <2>6 DEF Trusting
<1> QED  BY <1>7, <1>8 DEF TrustInv

\* The one recording ends: the file holds what is trusted, and the certificate
\* that is trusted now.  No connection is left that could record and is not behind.
LEMMA WriteTrusts ==
    ASSUME PinInv, TrustInv, NEW u \in User, NEW k \in Conn, WriteKnown(u, k)
    PROVE  TrustInv'
<1> DEFINE r == [user[u] EXCEPT !.lock = None]
           q == [conn[<<u, k>>] EXCEPT !.at = "accepted"]
           t0 == <<user[u].name, conn[<<u, k>>].cert>>
<1>0. /\ user[u].at = "ready" /\ conn[<<u, k>>].at = "recording"
      /\ user[u].known \in Pins /\ user[u].lock = k /\ user[u].name \in Name
      /\ conn \in [User \X Conn -> ConnRec] /\ user \in [User -> UserRec] /\ user[u] \in UserRec
      /\ conn[<<u, k>>] \in ConnRec /\ None \notin Cert /\ None \notin Conn /\ None \notin Pins
      /\ Empty \notin Pins
  <2>1. user[u].at = "ready" /\ conn[<<u, k>>].at = "recording" /\ LockOK(u)
    BY DEF WriteKnown, TrustInv, TrustTyped
  <2>2. user[u].lock = k /\ user[u].lock # None /\ user[u].known # None
    BY <2>1, UserTypes DEF LockOK, Recording
  <2> QED  BY <2>1, <2>2, UserTypes DEF UserRec
<1>1. /\ user' = [user EXCEPT ![u] = r] /\ conn' = [conn EXCEPT ![<<u, k>>] = q]
      /\ trusted' = trusted \cup {t0} /\ UNCHANGED <<behind, tidy>>
      /\ known' = user[u].known \/ (known # Empty /\ known' = Torn)
  BY DEF WriteKnown
<1>2. /\ r.lock = None /\ r.known = user[u].known /\ r.at = "ready"
      /\ r.name = user[u].name /\ r.pin = user[u].pin /\ r.told = user[u].told
      /\ q.at = "accepted" /\ q.cert = conn[<<u, k>>].cert
  BY <1>0 DEF UserRec, ConnRec
<1>3. /\ user'[u] = r /\ \A v \in User \ {u} : user'[v] = user[v]
      /\ conn'[<<u, k>>] = q
      /\ \A v \in User, j \in Conn : <<v, j>> # <<u, k>> => conn'[<<v, j>>] = conn[<<v, j>>]
  BY <1>0, <1>1
<1> HIDE DEF r, q
<1>4. ASSUME NEW v \in User PROVE LockOK(v)'
  <2>1. LockOK(v) /\ user[v] \in UserRec
    BY UserTypes DEF TrustInv, TrustTyped
  <2>2. CASE v = u
    <3>1. \A j \in Conn : conn'[<<u, j>>].at # "recording"
      <4>1. \A j \in Conn : conn[<<u, j>>].at = "recording" => j = k
        BY <1>0, <2>1, <2>2 DEF LockOK
      <4> QED  BY <1>2, <1>3, <4>1
    <3> QED  BY <1>2, <1>3, <2>2, <3>1 DEF LockOK, Recording
  <2>3. CASE v # u
    BY <1>3, <2>1, <2>3 DEF LockOK, Recording, UserRec
  <2> QED  BY <2>2, <2>3
<1>5. conn[<<u, k>>].cert \in Cert
  BY <1>0 DEF TrustInv, TrustTyped, LockOK
<1>6. TrustTyped'
  BY <1>0, <1>1, <1>4, <1>5 DEF TrustInv, TrustTyped
<1>7. ASSUME tidy' PROVE Trusting'
  <2>1. Trusting /\ Recording(u)
    BY <1>0, <1>1, <1>7 DEF TrustInv, Recording
  <2>2. /\ known = Empty /\ \A v \in User : Recording(v) => v = u
        /\ Agrees(user[u].known) /\ user[u].known[user[u].name] = conn[<<u, k>>].cert
    BY <1>0, <2>1 DEF Trusting, Records, KnownPin
  <2>3. known' = user[u].known /\ Agrees(known)'
    BY <1>1, <2>2 DEF Agrees
  <2>4. \A v \in User : ~Recording(v)'
    BY <1>2, <1>3, <2>2 DEF Recording
  <2>5. FileHolds'
    BY <1>0, <2>3 DEF FileHolds
  <2>6. ASSUME NEW v \in User PROVE Records(v)'
    BY <2>4 DEF Records
  <2>7. ASSUME NEW v \in User PROVE Keeps(v)'
    <3>1. CASE v # u
      <4>1. /\ Keeps(v) /\ user'[v] = user[v]
            /\ \A j \in Conn : conn'[<<v, j>>] = conn[<<v, j>>]
        BY <1>3, <2>1, <3>1 DEF Trusting
      <4> QED  BY <4>1 DEF Keeps, Pinned, KnownPin
    <3>2. CASE v = u
      <4>1. Pinned(u) \/ user[u].told = {}
        BY <1>0, <2>1 DEF Trusting, Keeps
      <4> QED  BY <1>2, <1>3, <3>2, <4>1 DEF Keeps, Pinned
    <3> QED  BY <3>1, <3>2
  <2>8. ASSUME NEW v \in User, NEW j \in Conn PROVE ~Asks(v, j)'
    <3>1. ~Asks(v, j)
      BY <2>1 DEF Trusting, MayRecord
    <3>2. user'[v].at = user[v].at /\ user'[v].known = user[v].known /\ user'[v].name = user[v].name
      BY <1>0, <1>2, <1>3
    <3>3. CASE <<v, j>> = <<u, k>>
      BY <1>2, <1>3, <3>3 DEF Asks
    <3>4. CASE <<v, j>> # <<u, k>>
      BY <1>1, <1>3, <3>1, <3>2, <3>4 DEF Asks, KnownPin
    <3> QED  BY <3>3, <3>4
  <2> QED  BY <2>5, <2>6, <2>7, <2>8 DEF Trusting, MayRecord
<1> QED  BY <1>6, <1>7 DEF TrustInv

\* A recording that is cut short leaves nothing tidy.
LEMMA WriteFailsTrusts ==
    ASSUME PinInv, TrustInv, NEW u \in User, NEW k \in Conn, WriteKnownFails(u, k)
    PROVE  TrustInv'
<1> DEFINE r == [user[u] EXCEPT !.lock = None]
           q == [conn[<<u, k>>] EXCEPT !.at = "refused"]
<1>0. /\ user[u].lock = k /\ None \notin Conn
      /\ conn \in [User \X Conn -> ConnRec] /\ user \in [User -> UserRec] /\ user[u] \in UserRec
      /\ conn[<<u, k>>] \in ConnRec
  BY UserTypes DEF WriteKnownFails, TrustInv, TrustTyped, LockOK, Recording
<1>1. /\ user' = [user EXCEPT ![u] = r] /\ conn' = [conn EXCEPT ![<<u, k>>] = q]
      /\ known' \in {Empty, Torn} /\ trusted' = trusted /\ tidy' = FALSE
  BY DEF WriteKnownFails
<1>2. r.lock = None /\ q.at = "refused"
  BY <1>0 DEF UserRec, ConnRec
<1>3. /\ user'[u] = r /\ \A v \in User \ {u} : user'[v] = user[v]
      /\ conn'[<<u, k>>] = q
      /\ \A v \in User, j \in Conn : <<v, j>> # <<u, k>> => conn'[<<v, j>>] = conn[<<v, j>>]
  BY <1>0, <1>1
<1> HIDE DEF r, q
<1>4. ASSUME NEW v \in User PROVE LockOK(v)'
  <2>1. LockOK(v) /\ user[v] \in UserRec
    BY UserTypes DEF TrustInv, TrustTyped
  <2>2. CASE v = u
    <3>1. \A j \in Conn : conn'[<<u, j>>].at # "recording"
      BY <1>0, <1>2, <1>3, <2>1, <2>2 DEF LockOK
    <3> QED  BY <1>2, <1>3, <2>2, <3>1 DEF LockOK, Recording
  <2>3. CASE v # u
    BY <1>3, <2>1, <2>3 DEF LockOK, Recording, UserRec
  <2> QED  BY <2>2, <2>3
<1> QED  BY <1>1, <1>4 DEF TrustInv, TrustTyped

\* A command that ends while it records leaves nothing tidy.
LEMMA EndTrusts ==
    ASSUME PinInv, TrustInv, NEW u \in User, UserEnds(u)
    PROVE  TrustInv'
<1>0. /\ user \in [User -> UserRec] /\ conn \in [User \X Conn -> ConnRec]
      /\ known \in Pins \cup {Empty, Torn}
  BY UserTypes DEF TrustInv, TrustTyped
<1>1. /\ user' = [user EXCEPT ![u] = NoTarget("ended")] /\ trusted' = trusted
      /\ conn' = [p \in User \X Conn |-> IF p[1] = u THEN NoConn ELSE conn[p]]
      /\ behind' = {p \in behind : p[1] # u}
  BY DEF UserEnds
<1>2. /\ user'[u].at # "ready" /\ user'[u].lock = None
      /\ \A v \in User \ {u} : user'[v] = user[v]
      /\ \A k \in Conn : conn'[<<u, k>>].at = "idle"
      /\ \A v \in User \ {u}, k \in Conn :
            conn'[<<v, k>>] = conn[<<v, k>>] /\ (<<v, k>> \in behind' <=> <<v, k>> \in behind)
  BY <1>0, <1>1 DEF NoTarget, NoConn
<1>3. CASE user[u].lock = None
  BY <1>1, <1>2, <1>3, NotReadyTrusts DEF UserEnds
<1>4. CASE user[u].lock # None
  <2>1. known' \in {known, Torn} /\ tidy' = FALSE
    BY <1>4 DEF UserEnds
  <2>2. ASSUME NEW v \in User PROVE LockOK(v)'
    <3>1. LockOK(v) /\ user[v] \in UserRec
      BY <1>0 DEF TrustInv, TrustTyped
    <3> QED  BY <1>2, <3>1 DEF LockOK, Recording, UserRec
  <2> QED  BY <1>0, <1>1, <2>1, <2>2 DEF TrustInv, TrustTyped
<1> QED  BY <1>3, <1>4

\* TrustInv is inductive, with the types of PinInv.
LEMMA TrustNext == PinInv /\ TrustInv /\ [Next]_vars => TrustInv'
<1> SUFFICES ASSUME PinInv, TrustInv, [Next]_vars PROVE TrustInv'
  OBVIOUS
<1>1. CASE UNCHANGED vars
  BY <1>1, TrustStutter DEF vars
<1>2. ASSUME NEW a \in Adder, AdderStep(a) PROVE TrustInv'
  <2>1. UNCHANGED trustVars
    BY <1>2 DEF AdderStep, LoadConfig, Set, OpenTmp, WriteTmp, Rename, Remove, AdderEnds
  <2> QED  BY <2>1, TrustStutter
<1>3. ASSUME NEW u \in User, UserStep(u) PROVE TrustInv'
  BY <1>3, ResolveTrusts, LoadTrusts, EndTrusts, DialTrusts, WriteTrusts, WriteFailsTrusts,
     VerifyTrusts, AddTrusts, AddFailsTrusts
     DEF UserStep, ConnStep
<1> QED  BY <1>1, <1>2, <1>3 DEF Next

\* What a command has said it trusts stays recorded, and is the only certificate
\* that later commands accept for the agent (main.go:973), unless a recording
\* was interrupted, made by a connection that was behind, or read half done.
THEOREM TrustHoldsAlways == Spec => []TrustHolds
<1>1. ASSUME PinInv, TrustInv PROVE TrustHolds
  <2> SUFFICES ASSUME tidy PROVE TrustHolds
    BY DEF TrustHolds
  <2>1. Trusting
    BY <1>1 DEF TrustInv
  <2>2. \A u \in User : user[u].lock # None => user[u].at = "ready"
    BY <1>1 DEF TrustInv, TrustTyped, LockOK, Recording
  <2>3. (\A u \in User : user[u].at = "ready" => user[u].lock = None)
           => \A t \in trusted : known \in Pins /\ known[t[1]] = t[2]
    BY <2>1, <2>2 DEF Trusting, FileHolds, Recording, Agrees
  <2>4. ASSUME NEW u \in User, NEW k \in Conn,
               conn[<<u, k>>].at = "accepted", ~Pinned(u), user[u].told # {}
        PROVE  conn[<<u, k>>].cert \in user[u].told
    <3>1. user[u].at = "ready"
      BY <1>1, <2>4, UserTypes
    <3> QED  BY <2>1, <2>4, <3>1 DEF Trusting, Keeps
  <2> QED  BY <2>3, <2>4 DEF TrustHolds
<1> QED  BY <1>1, PinInit, PinNext, TrustInit, TrustNext, PTL DEF Spec

=============================================================================
