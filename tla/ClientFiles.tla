---------------------------- MODULE ClientFiles ----------------------------
(***************************************************************************)
(* The two files of a client and the commands that share them.             *)
(*                                                                         *)
(*   client add       loads config.json, sets one entry, saves it all by   *)
(*                    way of config.json.tmp, a name every add uses        *)
(*   any other client reads its entry and known_agents.json once, and      *)
(*   command          verifies the certificate of each of its connections  *)
(*                    against the pin it then has, or records it           *)
(*                                                                         *)
(* Each command is a process of its own: there is no lock between them,    *)
(* and each may end between any two of its calls.                          *)
(***************************************************************************)
EXTENDS FiniteSets

CONSTANTS
    Name,            \* the names of agents
    Cert,            \* the certificates that an agent, or another, presents
    Rooted,          \* those that chain to one of the system's roots
    Invite,          \* the certificate in the invite for a name, if there is one
    Adder,           \* runs of client add; each names the file it creates
    User,            \* runs of client proxy, connect, forward, check, ...
    Conn,            \* the connections of one of them
    Old,             \* the config.json that is there at first,
    Before,          \* and the entries that it may have
    KnownBefore,     \* the pins that known_agents.json may have at first
    Casts,           \* which of the adds and commands are run
    Empty, Torn,     \* what a file holds that does not parse
    Unpinned, None   \* an entry without a fingerprint; nothing

Invited == DOMAIN Invite

ASSUME ClientFilesAssumption ==
    /\ Invited \subseteq Name /\ \A n \in Invited : Invite[n] \in Cert
    /\ Rooted \subseteq Cert
    /\ Unpinned # None /\ {Unpinned, None} \cap Cert = {}
    /\ Old \notin Adder /\ None \notin Adder \cup {Old} /\ None \notin Conn

Entries == [Name -> Cert \cup {Unpinned, None}]
Pins == [Name -> Cert \cup {None}]

ASSUME ContentAssumption ==
    /\ Empty # Torn /\ {Empty, Torn} \cap (Entries \cup Pins) = {}
    /\ None \notin Pins \cup {Empty, Torn}

NoEntries == [n \in Name |-> None]
NoPins == NoEntries

\* The agents of Invited are added from their invites and in no other way.
FromInvites(m) == \A n \in Invited : m[n] \in {None, Invite[n]}
ASSUME BeforeAssumption ==
    Before \subseteq {m \in Entries : FromInvites(m)} /\ KnownBefore \subseteq Pins

VARIABLES
    config, tmp,   \* the file that each of the two names stands for, if any
    inode,         \* what is in a file
    adder,         \* per client add: where it is, its agent, entries, open file
    known,         \* what is in known_agents.json; no pins if it is not there
    user,          \* per command: where it is, its target, pins and mutex
    conn,          \* per connection: where it is, its pin and its certificate
    added,         \* the entries of every add that has succeeded
    overlapped,    \* two adds have run at the same time
    trusted,       \* the <<name, certificate>> that a command has said it trusts
    behind,        \* connections that have missed a recording since they looked
    tidy           \* no recording has been interrupted, behind or read half done

addVars == <<config, tmp, inode, adder, added, overlapped>>
trustVars == <<known, user, conn, trusted, behind, tidy>>
vars == <<addVars, trustVars>>

NotRunning(at) == [at |-> at, name |-> None, edit |-> NoEntries, fd |-> Old]
NoTarget(at) == [at |-> at, name |-> None, pin |-> None, known |-> None,
                 lock |-> None, told |-> {}]
NoConn == [at |-> "idle", pin |-> None, cert |-> None]

Init ==
    /\ added \in Before
    /\ inode = [i \in Adder \cup {Old} |-> IF i = Old THEN added ELSE Empty]
    /\ config = IF added = NoEntries THEN None ELSE Old
    /\ tmp = None
    /\ \E cast \in Casts :
         /\ adder = [a \in Adder |-> NotRunning(IF a \in cast THEN "start" ELSE "failed")]
         /\ user = [u \in User |-> NoTarget(IF u \in cast THEN "start" ELSE "ended")]
    /\ conn = [p \in User \X Conn |-> NoConn]
    /\ known \in KnownBefore
    /\ overlapped = FALSE /\ trusted = {} /\ behind = {} /\ tidy = TRUE

-----------------------------------------------------------------------------
(* client add *)

Running(a) == adder[a].at \notin {"start", "added", "failed"}
Moves(a, to) == adder' = [adder EXCEPT ![a].at = to]
Ends(a, as) == adder' = [adder EXCEPT ![a] = NotRunning(as)]

\* What the file of that name holds.  A file that is not there has no entries.
Contents == IF config = None THEN NoEntries ELSE inode[config]

\* The configuration is loaded.  An entry that is there is only replaced with
\* --force.
LoadConfig(a, n) ==
    /\ adder[a].at = "start"
    /\ \/ /\ Contents \in Entries
          /\ adder' = [adder EXCEPT ![a] = [at |-> "loaded", name |-> n,
                                            edit |-> Contents, fd |-> Old]]
          /\ overlapped' = (overlapped \/ \E b \in Adder : Running(b))
       \/ /\ Contents \in Entries => Contents[n] # None
          /\ Ends(a, "failed") /\ UNCHANGED overlapped
    /\ UNCHANGED <<config, tmp, inode, added, trustVars>>

\* The fingerprint for the entry: the one in the invite, or one the operator
\* gives, or the one of whatever answers the probe, or none if nothing does.
Set(a, pin) ==
    /\ adder[a].at = "loaded"
    /\ LET n == adder[a].name IN
         /\ IF n \in Invited THEN pin = Invite[n] ELSE pin \in Cert \cup {Unpinned}
         /\ adder' = [adder EXCEPT ![a] = [@ EXCEPT !.at = "set", !.edit = [adder[a].edit EXCEPT ![n] = pin]]]
    /\ UNCHANGED <<config, tmp, inode, added, overlapped, trustVars>>

\* variant: the configuration itself is truncated and written.
OpenInPlace(a) ==
    /\ adder[a].at = "set"
    /\ LET f == IF config # None THEN config ELSE a IN
         /\ inode' = [inode EXCEPT ![f] = Empty]
         /\ config' = f /\ tmp' = f
         /\ adder' = [adder EXCEPT ![a] = [@ EXCEPT !.at = "opened", !.fd = f]]
    /\ UNCHANGED <<added, overlapped, trustVars>>

\* os.WriteFile of config.json.tmp: the file that has the name is truncated, a
\* new one made if there is none; then what is open is written, from its start
\* and in one call.  Where another add has written meanwhile, its end may stay.
OpenTmp(a) ==
    /\ adder[a].at = "set"
    /\ LET f == IF tmp # None THEN tmp ELSE a IN
         /\ inode' = [inode EXCEPT ![f] = Empty]
         /\ tmp' = f
         /\ adder' = [adder EXCEPT ![a] = [@ EXCEPT !.at = "opened", !.fd = f]]
    /\ UNCHANGED <<config, added, overlapped, trustVars>>
WriteTmp(a) ==
    /\ adder[a].at = "opened"
    /\ LET f == adder[a].fd IN
         \/ inode' = [inode EXCEPT ![f] = adder[a].edit]
         \/ inode[f] # Empty /\ inode' = [inode EXCEPT ![f] = Torn]
    /\ Moves(a, "written")
    /\ UNCHANGED <<config, tmp, added, overlapped, trustVars>>

\* The file that has the temporary name by now becomes the configuration.  If
\* there is none the add fails, and removes the name once more.
Rename(a) ==
    /\ adder[a].at = "written"
    /\ IF tmp = None
         THEN Moves(a, "remove") /\ UNCHANGED <<config, tmp, added>>
         ELSE /\ config' = tmp /\ tmp' = None
              /\ added' = [added EXCEPT ![adder[a].name] = adder[a].edit[adder[a].name]]
              /\ Ends(a, "added")
    /\ UNCHANGED <<inode, overlapped, trustVars>>
Remove(a) ==
    /\ adder[a].at = "remove"
    /\ tmp' = None /\ Ends(a, "failed")
    /\ UNCHANGED <<config, inode, added, overlapped, trustVars>>

\* A call that fails, or a crash.  What is open may be written in part.
AdderEnds(a) ==
    /\ Running(a)
    /\ \/ UNCHANGED inode
       \/ adder[a].at = "opened" /\ inode' = [inode EXCEPT ![adder[a].fd] = Torn]
    /\ Ends(a, "failed")
    /\ UNCHANGED <<config, tmp, added, overlapped, trustVars>>

-----------------------------------------------------------------------------
(* Every other command of the client. *)

Pinned(u) == user[u].pin \in Cert
KnownPin(u) == IF user[u].known = None THEN None ELSE user[u].known[user[u].name]
WithPin(u, c) == [user[u].known EXCEPT ![user[u].name] = c]
\* The connections of other commands that have read the file already.
Elsewhere(u) == {p \in User \X Conn : p[1] # u /\ user[p[1]].at = "ready"}
\* Those of this command that have taken the pin already.
Beside(u, k) == {p \in {u} \X (Conn \ {k}) : conn[p].at = "dialling"}

\* The entry of the target is read.  No entry, or no configuration that
\* parses, ends the command.
ResolveTarget(u, n) ==
    /\ user[u].at = "start"
    /\ IF Contents \in Entries /\ Contents[n] # None
         THEN user' = [user EXCEPT ![u] = [@ EXCEPT !.at = "resolved", !.name = n,
                                                !.pin = Contents[n]]]
         ELSE user' = [user EXCEPT ![u] = NoTarget("ended")]
    /\ UNCHANGED <<addVars, known, conn, trusted, behind, tidy>>

\* Then known_agents.json.  One that does not parse is an error nobody looks
\* at: the command goes on without pins and records none.
LoadKnownAgents(u) ==
    /\ user[u].at = "resolved"
    /\ user' = [user EXCEPT ![u] = [@ EXCEPT
           !.at = "ready",
           !.known = IF known \in Pins THEN known ELSE None,
           !.told = {c \in Cert : <<user[u].name, c>> \in trusted}]]
    /\ tidy' = (tidy /\ known \in Pins)
    /\ UNCHANGED <<addVars, known, conn, trusted, behind>>

\* variant: what was trusted on first use comes before the fingerprint in the entry.
KnownBeforeEntry(u, k) ==
    /\ user[u].at = "ready" /\ user[u].lock = None
    /\ conn[<<u, k>>].at = "idle"
    /\ LET pin == IF KnownPin(u) = None /\ Pinned(u) THEN user[u].pin ELSE KnownPin(u)
       IN  conn' = [conn EXCEPT ![<<u, k>>] = [@ EXCEPT !.at = "dialling", !.pin = pin]]
    /\ UNCHANGED <<addVars, known, user, trusted, behind, tidy>>

\* A connection takes its pin: the fingerprint in the entry, or the one known
\* to this command, for which it waits for the mutex.
TlsConfigFor(u, k) ==
    /\ user[u].at = "ready" /\ conn[<<u, k>>].at = "idle"
    /\ LET pin == IF Pinned(u) THEN user[u].pin ELSE KnownPin(u)
       IN  /\ Pinned(u) \/ user[u].lock = None
           /\ conn' = [conn EXCEPT ![<<u, k>>] = [@ EXCEPT !.at = "dialling", !.pin = pin]]
    /\ UNCHANGED <<addVars, known, user, trusted, behind, tidy>>

Verified(u, k, c, verdict) ==
    conn' = [conn EXCEPT ![<<u, k>>] = [at |-> verdict, pin |-> None, cert |-> c]]

\* The certificate is compared with the pin, if there is one.  If not, one
\* from the system's roots will do, and so will any where nothing is recorded.
Verify(u, k, c) ==
    /\ user[u].at = "ready" /\ conn[<<u, k>>].at = "dialling"
    /\ LET pin == conn[<<u, k>>].pin IN
         IF pin # None
           THEN Verified(u, k, c, IF c = pin THEN "accepted" ELSE "refused")
           ELSE (c \in Rooted \/ user[u].known = None) /\ Verified(u, k, c, "accepted")
    /\ UNCHANGED <<addVars, known, user, trusted, behind, tidy>>

\* Otherwise it is added under the mutex, in memory first.  The file is
\* truncated and then written; if it cannot be opened the connection fails,
\* and memory keeps what was added.
Unknown(u, k, c) ==
    /\ user[u].at = "ready" /\ conn[<<u, k>>].at = "dialling"
    /\ conn[<<u, k>>].pin = None /\ c \notin Rooted /\ user[u].known # None
    /\ user[u].lock = None
Add(u, k, c) ==
    /\ Unknown(u, k, c)
    /\ user' = [user EXCEPT ![u] = [@ EXCEPT !.lock = k, !.known = WithPin(u, c)]]
    /\ known' = Empty
    /\ Verified(u, k, c, "recording")
    /\ behind' = behind \cup Elsewhere(u) \cup Beside(u, k)
    /\ tidy' = (tidy /\ <<u, k>> \notin behind)
    /\ UNCHANGED <<addVars, trusted>>
AddFails(u, k, c) ==
    /\ Unknown(u, k, c)
    /\ user' = [user EXCEPT ![u].known = WithPin(u, c)]
    /\ Verified(u, k, c, "refused")
    /\ UNCHANGED <<addVars, known, trusted, behind, tidy>>

\* variant: only the new entry is written to the file.
WriteOneKnown(u, k) ==
    /\ user[u].at = "ready" /\ conn[<<u, k>>].at = "recording"
    /\ known' = [NoPins EXCEPT ![user[u].name] = user[u].known[user[u].name]]
    /\ user' = [user EXCEPT ![u].lock = None]
    /\ conn' = [conn EXCEPT ![<<u, k>>].at = "accepted"]
    /\ trusted' = trusted \cup {<<user[u].name, conn[<<u, k>>].cert>>}
    /\ UNCHANGED <<addVars, behind, tidy>>

\* All that this command knows is written, as config.json.tmp is, and the user
\* is told that the certificate is trusted from now on.
WriteKnown(u, k) ==
    /\ user[u].at = "ready" /\ conn[<<u, k>>].at = "recording"
    /\ \/ known' = user[u].known
       \/ known # Empty /\ known' = Torn
    /\ user' = [user EXCEPT ![u].lock = None]
    /\ conn' = [conn EXCEPT ![<<u, k>>].at = "accepted"]
    /\ trusted' = trusted \cup {<<user[u].name, conn[<<u, k>>].cert>>}
    /\ UNCHANGED <<addVars, behind, tidy>>
WriteKnownFails(u, k) ==
    /\ user[u].at = "ready" /\ conn[<<u, k>>].at = "recording"
    /\ known' \in {Empty, Torn}
    /\ user' = [user EXCEPT ![u].lock = None]
    /\ conn' = [conn EXCEPT ![<<u, k>>].at = "refused"]
    /\ tidy' = FALSE
    /\ UNCHANGED <<addVars, trusted, behind>>

\* The command ends or crashes.  What it had open may be written in part.
UserEnds(u) ==
    /\ user[u].at \in {"resolved", "ready"}
    /\ user' = [user EXCEPT ![u] = NoTarget("ended")]
    /\ conn' = [p \in User \X Conn |-> IF p[1] = u THEN NoConn ELSE conn[p]]
    /\ behind' = {p \in behind : p[1] # u}
    /\ IF user[u].lock = None THEN UNCHANGED <<known, tidy>>
                              ELSE known' \in {known, Torn} /\ tidy' = FALSE
    /\ UNCHANGED <<addVars, trusted>>

-----------------------------------------------------------------------------

AdderStep(a) ==
    \/ \E n \in Name : LoadConfig(a, n)
    \/ \E pin \in Cert \cup {Unpinned} : Set(a, pin)
    \/ OpenTmp(a) \/ WriteTmp(a) \/ Rename(a) \/ Remove(a) \/ AdderEnds(a)
ConnStep(u, k) ==
    \/ TlsConfigFor(u, k) \/ WriteKnown(u, k) \/ WriteKnownFails(u, k)
    \/ \E c \in Cert : Verify(u, k, c) \/ Add(u, k, c) \/ AddFails(u, k, c)
UserStep(u) ==
    \/ \E n \in Name : ResolveTarget(u, n)
    \/ LoadKnownAgents(u) \/ UserEnds(u)
    \/ \E k \in Conn : ConnStep(u, k)

Next == (\E a \in Adder : AdderStep(a)) \/ (\E u \in User : UserStep(u))

Spec == Init /\ [][Next]_vars

-----------------------------------------------------------------------------
(* What the files promise their users. *)

\* An agent that is only ever added from its invite is never spoken to with
\* another certificate than the invite's, whatever adds overlap, whichever
\* command ends where, and whatever has become of either file: what does not
\* parse stops the command, and what was trusted on first use does not count
\* (trust.go:26, "a fingerprint in the config always wins when one is set").
InvitedIsPinned ==
    \A u \in User, k \in Conn :
        conn[<<u, k>>].at = "accepted" /\ user[u].name \in Invited
        => conn[<<u, k>>].cert = Invite[user[u].name]

\* Adds that run one after another lose nothing, wherever each of them ends:
\* the configuration parses, and is what the successful ones have added
\* (config.go:79, "an interrupted save cannot leave a half-written config").
ConfigIsWhatWasAdded == ~overlapped => Contents = added

\* A certificate a command has said it trusts is the only one the commands
\* started after it accept for that agent, unless its entry has a fingerprint
\* (main.go:973, "a different certificate will be refused from now on"), and
\* no recording loses it; provided no recording was interrupted, made by a
\* connection that had missed another one, or read while it was being made.
TrustHolds ==
    tidy =>
    /\ (\A u \in User : user[u].at = "ready" => user[u].lock = None)
       => \A t \in trusted : known \in Pins /\ known[t[1]] = t[2]
    /\ \A u \in User, k \in Conn :
         conn[<<u, k>>].at = "accepted" /\ ~Pinned(u) /\ user[u].told # {}
         => conn[<<u, k>>].cert \in user[u].told

=============================================================================
