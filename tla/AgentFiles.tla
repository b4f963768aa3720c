----------------------------- MODULE AgentFiles -----------------------------
(***************************************************************************)
(* The files of an agent and the commands that create and read them.       *)
(*                                                                         *)
(*   init, server, invite, fingerprint, hostkey, authorize                 *)
(*      -> host_key  tls_cert.pem  tls_key.pem  token  authorized_keys     *)
(*                                                                         *)
(* Every command is a process of its own.  It reads a file with one call   *)
(* and writes one with two (os.WriteFile truncates, then writes), without  *)
(* a lock and without a rename, and it may end between any two of them.    *)
(* What a command generates is told apart by the command that did.         *)
(***************************************************************************)
EXTENDS Naturals, Sequences

CONSTANTS
    Proc,             \* the invocations of a command; each also names the
                      \* keys, the certificate, the token it would make
    Earlier,          \* an init that was done before the first of them
    Absent, Empty,    \* a file that is not there, one with nothing in it
    None              \* not loaded yet

Maker == Proc \cup {Earlier}

ASSUME ProcAssumption ==
    /\ Earlier \notin Proc /\ {Absent, Empty, None} \cap Maker = {}
    /\ Absent # Empty /\ None \notin {Absent, Empty}

Files == {"hostkey", "cert", "key", "token"}

\* What each command does, in order.  A token that is "wanted" is read if it
\* is there; "ensure" makes one that is not, and "trust" reads the keys.
runInit == << <<"load", "hostkey">>, <<"load", "cert">>, <<"ensure", "token">> >>
runForcedInit == << <<"load", "hostkey">>, <<"load", "cert">>, <<"open", "token">>, <<"write", "token">> >>
runServer == << <<"load", "token">>, <<"load", "hostkey">>, <<"trust", "keys">>, <<"load", "cert">> >>
runInvite == << <<"load", "hostkey">>, <<"wanted", "token">>, <<"load", "cert">> >>
runFingerprint == << <<"load", "hostkey">>, <<"load", "cert">> >>
runHostKey == << <<"load", "hostkey">> >>
runAuthorize == << <<"trust", "keys">>, <<"append", "keys">> >>
Plan == [init |-> runInit, force |-> runForcedInit, server |-> runServer,
         invite |-> runInvite, fingerprint |-> runFingerprint,
         hostkey |-> runHostKey, authorize |-> runAuthorize]
Commands == DOMAIN Plan

VARIABLES
    guided,    \* the operator follows docs/readme.md: init first, and alone
    file,      \* what is in each of Files
    keys,      \* the keys authorized_keys holds, each on a line of its own
    torn,      \* authorized_keys ends in the middle of a line
    glued,     \* keys appended to such a line
    cmd,       \* the command a process runs
    status,    \* "idle", "started" or "failed"
    todo,      \* what is left of its plan: nothing once it has succeeded
    has        \* what it has loaded or generated

diskVars == <<file, keys, torn, glued>>
vars == <<guided, diskVars, cmd, status, todo, has>>

Nothing == [f \in Files \cup {"keys"} |-> None]

Init ==
    /\ guided \in BOOLEAN
    /\ \E content \in {Absent, Earlier} : file = [f \in Files |-> content]
    /\ keys = {} /\ torn = FALSE /\ glued = {}
    /\ cmd = [p \in Proc |-> "init"]
    /\ status = [p \in Proc |-> "idle"]
    /\ todo = [p \in Proc |-> <<>>]
    /\ has = [p \in Proc |-> Nothing]

\* A command that has succeeded; a server that has goes on to serve.
Ran(p, c) == cmd[p] = c /\ status[p] = "started" /\ todo[p] = <<>>
Running(p, c) == cmd[p] = c /\ status[p] = "started" /\ todo[p] # <<>>
Initialized == file["hostkey"] = Earlier \/ \E p \in Proc : Ran(p, "init") \/ Ran(p, "force")
Initializing == \E p \in Proc : Running(p, "init") \/ Running(p, "force")

Start(p, c) ==
    /\ status[p] = "idle"
    /\ guided => \/ Initialized /\ ~(c \in {"init", "force"} /\ Initializing)
                 \/ c = "init" /\ ~Initializing
    /\ status' = [status EXCEPT ![p] = "started"]
    /\ cmd' = [cmd EXCEPT ![p] = c]
    /\ todo' = [todo EXCEPT ![p] = Plan[c]]
    /\ UNCHANGED <<guided, diskVars, has>>

-----------------------------------------------------------------------------
(* One step of a command. *)

At(p, op) == status[p] = "started" /\ todo[p] # <<>> /\ Head(todo[p]) = op

\* The step is done, and `first` comes before the rest of the plan.
Proceed(p, first) ==
    /\ todo' = [todo EXCEPT ![p] = first \o Tail(@)]
    /\ UNCHANGED <<guided, cmd, status>>
Fail(p) ==
    /\ status' = [status EXCEPT ![p] = "failed"]
    /\ todo' = [todo EXCEPT ![p] = <<>>]
    /\ has' = [has EXCEPT ![p] = Nothing]
    /\ UNCHANGED <<guided, cmd>>
Take(p, f, value) == has' = [has EXCEPT ![p][f] = value]

Create(f) == << <<"open", f>>, <<"write", f>> >>
CreatePair == Create("cert") \o Create("key")

\* variant: a host key that was not there is made, used, and never written.
LoadHostKeyOnly(p) ==
    /\ At(p, <<"load", "hostkey">>)
    /\ Take(p, "hostkey", IF file["hostkey"] = Absent THEN p ELSE file["hostkey"])
    /\ Proceed(p, <<>>) /\ UNCHANGED diskVars

\* A host key that is not there is made, one that does not parse is an error.
LoadHostKey(p) ==
    /\ At(p, <<"load", "hostkey">>)
    /\ \/ /\ file["hostkey"] = Absent
          /\ Proceed(p, Create("hostkey")) /\ UNCHANGED has
       \/ file["hostkey"] = Empty /\ Fail(p)
       \/ /\ file["hostkey"] \notin {Absent, Empty}
          /\ Take(p, "hostkey", file["hostkey"]) /\ Proceed(p, <<>>)
    /\ UNCHANGED diskVars

\* tls.LoadX509KeyPair reads the certificate and then the key.  If either is
\* not there a new pair is made, whatever the other file holds.
LoadCert(p) ==
    /\ At(p, <<"load", "cert">>)
    /\ IF file["cert"] = Absent
         THEN Proceed(p, CreatePair) /\ UNCHANGED has
         ELSE Take(p, "cert", file["cert"]) /\ Proceed(p, << <<"load", "key">> >>)
    /\ UNCHANGED diskVars

\* variant: the pair is served as the files hold it, without looking whether they match.
LoadKeyUnchecked(p) ==
    /\ At(p, <<"load", "key">>)
    /\ IF file["key"] = Absent
         THEN Proceed(p, CreatePair) /\ UNCHANGED has
         ELSE Take(p, "key", file["key"]) /\ Proceed(p, <<>>)
    /\ UNCHANGED diskVars

\* Two files that are there must be a certificate and its key.
LoadKey(p) ==
    /\ At(p, <<"load", "key">>)
    /\ LET matches == file["key"] = has[p]["cert"] /\ file["key"] # Empty
       IN  \/ /\ file["key"] = Absent
              /\ Proceed(p, CreatePair) /\ UNCHANGED has
           \/ /\ file["key"] # Absent /\ matches
              /\ Take(p, "key", file["key"]) /\ Proceed(p, <<>>)
           \/ file["key"] # Absent /\ ~matches /\ Fail(p)
    /\ UNCHANGED diskVars

\* os.WriteFile: opened with O_TRUNC, then written.  The command goes on with
\* what it generated, not with what the file then holds.
OpenFile(p) ==
    \E f \in Files :
        /\ At(p, <<"open", f>>)
        /\ file' = [file EXCEPT ![f] = Empty]
        /\ Proceed(p, <<>>) /\ UNCHANGED <<keys, torn, glued, has>>
WriteFile(p) ==
    \E f \in Files :
        /\ At(p, <<"write", f>>)
        /\ file' = [file EXCEPT ![f] = p]
        /\ Take(p, f, p)
        /\ Proceed(p, <<>>) /\ UNCHANGED <<keys, torn, glued>>

\* variant: init makes a new token each time.
EnsureNewToken(p) ==
    /\ At(p, <<"ensure", "token">>)
    /\ Proceed(p, Create("token"))
    /\ UNCHANGED <<has, diskVars>>

\* init keeps a token that is there, whatever is in it.
EnsureToken(p) ==
    /\ At(p, <<"ensure", "token">>)
    /\ Proceed(p, IF file["token"] = Absent THEN Create("token") ELSE <<>>)
    /\ UNCHANGED <<has, diskVars>>

\* A server is told of its token file and needs it, an invite looks for one.
LoadToken(p) ==
    /\ At(p, <<"load", "token">>)
    /\ IF file["token"] = Absent
         THEN Fail(p) /\ UNCHANGED diskVars
         ELSE Take(p, "token", file["token"]) /\ Proceed(p, <<>>) /\ UNCHANGED diskVars
LookForToken(p) ==
    /\ At(p, <<"wanted", "token">>)
    /\ Take(p, "token", IF file["token"] = Absent THEN Empty ELSE file["token"])
    /\ Proceed(p, <<>>) /\ UNCHANGED diskVars

\* authorized_keys is read once, and a line that does not parse is passed over.
LoadAuthorizedKeys(p) ==
    /\ At(p, <<"trust", "keys">>)
    /\ Take(p, "keys", keys)
    /\ Proceed(p, <<>>) /\ UNCHANGED diskVars

\* variant: the whole file is written back, with the key added to what was read.
AppendRewrites(p) ==
    /\ At(p, <<"append", "keys">>)
    /\ keys' = has[p]["keys"] \cup {p} /\ torn' = FALSE /\ UNCHANGED glued
    /\ Proceed(p, <<>>) /\ UNCHANGED <<file, has>>

\* One write at the end of the file, as it is then (O_APPEND).
AppendKey(p) ==
    /\ At(p, <<"append", "keys">>)
    /\ IF torn THEN glued' = glued \cup {p} /\ UNCHANGED keys
               ELSE keys' = keys \cup {p} /\ UNCHANGED glued
    /\ torn' = FALSE
    /\ Proceed(p, <<>>) /\ UNCHANGED <<file, has>>
\* ... of which only a part fits on the disk.
AppendFails(p) ==
    /\ At(p, <<"append", "keys">>)
    /\ torn' = TRUE
    /\ Fail(p) /\ UNCHANGED <<file, keys, glued>>

\* A call that fails ends the command, and so does a crash; what it had
\* truncated stays so.
Dies(p) ==
    /\ status[p] = "started" /\ todo[p] # <<>>
    /\ Fail(p) /\ UNCHANGED diskVars

Step(p) ==
    \/ LoadHostKey(p) \/ LoadCert(p) \/ LoadKey(p) \/ OpenFile(p) \/ WriteFile(p)
    \/ EnsureToken(p) \/ LoadToken(p) \/ LookForToken(p)
    \/ LoadAuthorizedKeys(p) \/ AppendKey(p) \/ AppendFails(p) \/ Dies(p)

Next == \E p \in Proc : Step(p) \/ \E c \in Commands : Start(p, c)

Spec == Init /\ [][Next]_vars

-----------------------------------------------------------------------------
(* What the commands promise one another. *)

Forced == \E p \in Proc : cmd[p] = "force"

\* A server presents a certificate with the key it was made with, although
\* other commands truncate and rewrite both files while it starts
\* (http.go:190, "so startup cannot race a concurrent regeneration").
ServedPairIsWhole ==
    \A s \in Proc : Ran(s, "server") =>
        has[s]["cert"] \in Maker /\ has[s]["key"] = has[s]["cert"]

\* If init came first, what an invite tells an entry host to expect is what
\* every server has, one that started before it or one that starts later,
\* whichever commands ran at the same time and wherever some of them ended;
\* only init --force makes a token that an invite carries useless
\* (main.go:355, "would lock out every client already holding it").
InviteIsHonoured ==
    guided => \A i, s \in Proc : Ran(i, "invite") /\ Ran(s, "server") =>
        /\ has[i]["hostkey"] = has[s]["hostkey"]
        /\ has[i]["cert"] = has[s]["cert"]
        /\ Forced \/ has[i]["token"] = has[s]["token"]

\* An agent that is restarted is the agent its clients have pinned: no two
\* servers, and no fingerprint an operator was shown, differ (keys.go:22,
\* "It must persist: clients pin this key in known_hosts").
RestartKeepsIdentity ==
    guided => \A p, s \in Proc :
        Ran(s, "server") /\ (Ran(p, "server") \/ Ran(p, "fingerprint"))
        => has[p]["hostkey"] = has[s]["hostkey"] /\ has[p]["cert"] = has[s]["cert"]

\* A key that authorize has said it added is in the file, although others
\* were added at the same time, unless an earlier append broke off in the
\* middle of a line.
AuthorizedIsKept ==
    \A p \in Proc : Ran(p, "authorize") => p \in keys \/ p \in glued

\* Once init has succeeded, a server that is given its token file asks for a
\* token (main.go:286, "you now have to take the token away on purpose").
InitMeansToken ==
    guided /\ ~Forced => \A s \in Proc : Ran(s, "server") => has[s]["token"] \in Maker

=============================================================================
