---------------------------- MODULE SessionsProofs ----------------------------
(***************************************************************************)
(* Proofs about Sessions, for any finite number of local connections.      *)
(***************************************************************************)
EXTENDS Sessions, FiniteSetTheorems, TLAPS

-----------------------------------------------------------------------------
(* The invariant behind ReturnedMeansReleased: the WaitGroup counts the    *)
(* connections that have been accepted and not released, only a connection *)
(* that is spliced has a tunnel and copies, and what is closed has no      *)
(* backlog.                                                                *)

Live == {c \in Conn : conn[c] \in {"opening", "spliced"}}

Types ==
    /\ main \in {"accept", "wait", "close", "returned"}
    /\ listening \in BOOLEAN
    /\ conn \in [Conn -> {"none", "backlog", "opening", "spliced", "closed"}]
    /\ tunnel \in [Conn -> {"none", "up", "dead"}]
    /\ up \subseteq Conn /\ down \subseteq Conn

Counted == group = Cardinality(Live)
Waited ==
    /\ main \in {"close", "returned"} => group = 0
    /\ main = "returned" => ~listening
Spliced == \A c \in Conn : conn[c] # "spliced" => c \notin up \cup down /\ tunnel[c] # "up"
NoBacklog == ~listening => \A c \in Conn : conn[c] # "backlog"

CountInv == Types /\ Counted /\ Waited /\ Spliced /\ NoBacklog

-----------------------------------------------------------------------------

LEMMA LiveFinite == IsFiniteSet(Live) /\ Cardinality(Live) \in Nat
<1>1. Live \subseteq Conn
  BY DEF Live
<1> QED  BY <1>1, SessionsAssumption, FS_Subset, FS_CardinalityType

LEMMA NothingLive == Cardinality(Live) = 0 => Live = {}
BY LiveFinite, FS_EmptySet

LEMMA CountInit == Init => CountInv
<1> SUFFICES ASSUME Init PROVE CountInv
  OBVIOUS
<1>1. Types
  BY Zenon DEF Init, Types
<1>2. Counted
  <2>1. Live = {}
    BY DEF Init, Live
  <2> QED  BY <2>1, FS_EmptySet DEF Init, Counted
<1>3. Waited /\ Spliced /\ NoBacklog
  BY DEF Init, Waited, Spliced, NoBacklog
<1> QED  BY <1>1, <1>2, <1>3 DEF CountInv

\* A step that accepts nothing and releases nothing leaves the count alone.
LEMMA CountKept ==
    ASSUME Counted, Live' = Live, group' = group
    PROVE  Counted'
BY DEF Counted

LEMMA Accepts ==
    ASSUME CountInv, NEW c \in Conn, Accept(c)
    PROVE  CountInv'
<1> USE DEF CountInv
<1>1. Live' = Live \cup {c} /\ c \notin Live
  BY DEF Accept, Live, Types
<1>2. Counted'
  <2>1. Cardinality(Live \cup {c}) = Cardinality(Live) + 1
    BY <1>1, LiveFinite, FS_AddElement
  <2> QED  BY <1>1, <2>1 DEF Accept, Counted
<1>3. Types'
  BY DEF Accept, Types, spliceVars
<1>4. Waited' /\ Spliced' /\ NoBacklog'
  BY DEF Accept, Types, Waited, Spliced, NoBacklog, spliceVars
<1> QED  BY <1>2, <1>3, <1>4

\* A connection is released once, by the goroutine that was counted for it.
LEMMA Releases ==
    ASSUME CountInv, NEW c \in Conn, c \in Live, Done(c)
    PROVE  Counted' /\ (Waited /\ main' = main /\ listening' = listening => Waited')
<1> USE DEF CountInv
<1>1. Live' = Live \ {c}
  BY DEF Done, Live, Types
<1>2. Cardinality(Live \ {c}) = Cardinality(Live) - 1
  BY LiveFinite, FS_RemoveElement
<1>3. Counted'
  BY <1>1, <1>2 DEF Done, Counted
<1>4. group # 0
  BY NothingLive DEF Counted
<1> QED  BY <1>3, <1>4 DEF Waited

LEMMA SpliceReleases ==
    ASSUME CountInv, NEW c \in Conn, SpliceReturns(c)
    PROVE  CountInv'
<1> USE DEF CountInv
<1>1. c \in Live /\ Done(c) /\ main' = main /\ listening' = listening
  BY DEF SpliceReturns, Live
<1>2. Counted' /\ Waited'
  BY <1>1, Releases
<1>3. Types'
  BY DEF SpliceReturns, Done, Types
<1>4. Spliced' /\ NoBacklog'
  BY DEF SpliceReturns, Done, Types, Spliced, NoBacklog
<1> QED  BY <1>2, <1>3, <1>4

LEMMA OpenReleases ==
    ASSUME CountInv, NEW c \in Conn, OpenFails(c)
    PROVE  CountInv'
<1> USE DEF CountInv
<1>1. c \in Live /\ Done(c) /\ main' = main /\ listening' = listening
  BY DEF OpenFails, Live
<1>2. Counted' /\ Waited'
  BY <1>1, Releases
<1>3. Types'
  BY DEF OpenFails, Done, Types, spliceVars
<1>4. Spliced' /\ NoBacklog'
  BY DEF OpenFails, Done, Types, Spliced, NoBacklog, spliceVars
<1> QED  BY <1>2, <1>3, <1>4

\* The listener closes: what nobody has accepted is not counted.
LEMMA Closes ==
    ASSUME CountInv, CloseListener
    PROVE  /\ Live' = Live /\ NoBacklog'
           /\ conn' \in [Conn -> {"none", "backlog", "opening", "spliced", "closed"}]
           /\ \A c \in Conn : conn[c] = "spliced" => conn'[c] = "spliced"
BY DEF CountInv, CloseListener, Types, Live, NoBacklog

LEMMA ListenStep ==
    ASSUME CountInv, Listen
    PROVE  CountInv'
<1> USE DEF CountInv
<1>1. CASE \E c \in Conn : Accept(c)
  BY <1>1, Accepts
<1>2. CASE AcceptFails
  BY <1>2, CountKept DEF AcceptFails, Types, Waited, Spliced, NoBacklog, Live, spliceVars
<1>3. CASE WaitGroup
  BY <1>3, CountKept DEF WaitGroup, Types, Waited, Spliced, NoBacklog, Live, spliceVars
<1>4. CASE Return
  <2>1. Counted' /\ NoBacklog'
    BY <1>4, Closes, CountKept DEF Return
  <2>2. Types' /\ Spliced'
    BY <1>4, Closes DEF Return, CloseListener, Types, Spliced, spliceVars
  <2>3. Waited'
    BY <1>4 DEF Return, CloseListener, Waited
  <2> QED  BY <2>1, <2>2, <2>3
<1>5. CASE Closer
  <2>1. Counted' /\ NoBacklog'
    BY <1>5, Closes, CountKept DEF Closer
  <2>2. Types' /\ Spliced'
    BY <1>5, Closes DEF Closer, CloseListener, Types, Spliced, spliceVars
  <2>3. Waited'
    BY <1>5 DEF Closer, CloseListener, Waited
  <2> QED  BY <2>1, <2>2, <2>3
<1> QED  BY <1>1, <1>2, <1>3, <1>4, <1>5 DEF Listen

LEMMA SessionStep ==
    ASSUME CountInv, NEW c \in Conn, Session(c)
    PROVE  CountInv'
<1> USE DEF CountInv, listenVars
<1>1. CASE OpenSucceeds(c)
  <2>1. Live' = Live
    BY <1>1 DEF OpenSucceeds, Live, Types
  <2>2. Types'
    BY <1>1 DEF OpenSucceeds, Types
  <2>3. Waited' /\ Spliced' /\ NoBacklog'
    BY <1>1 DEF OpenSucceeds, Types, Waited, Spliced, NoBacklog
  <2> QED  BY <1>1, <2>1, <2>2, <2>3, CountKept DEF OpenSucceeds
<1>2. CASE OpenFails(c)
  BY <1>2, OpenReleases
<1>3. CASE TunnelDies(c)
  BY <1>3, CountKept DEF TunnelDies, Types, Waited, Spliced, NoBacklog, Live
<1>4. CASE UpEnds(c)
  BY <1>4, CountKept DEF UpEnds, Types, Waited, Spliced, NoBacklog, Live
<1>5. CASE DownEnds(c)
  BY <1>5, CountKept DEF DownEnds, Types, Waited, Spliced, NoBacklog, Live
<1>6. CASE SpliceReturns(c)
  BY <1>6, SpliceReleases
<1>7. CASE HandlerEnds(c)
  BY <1>7, CountKept DEF HandlerEnds, Types, Waited, Spliced, NoBacklog, Live, spliceVars
<1> QED  BY <1>1, <1>2, <1>3, <1>4, <1>5, <1>6, <1>7 DEF Session

LEMMA AgentStep ==
    ASSUME CountInv, Agent
    PROVE  CountInv'
<1> USE DEF CountInv, listenVars, spliceVars
<1>1. CASE Exits
  <2>1. Types'
    BY <1>1 DEF Exits, Types
  <2>2. Counted' /\ Waited' /\ Spliced' /\ NoBacklog'
    BY <1>1, CountKept DEF Exits, Types, Waited, Spliced, NoBacklog, Live
  <2> QED  BY <2>1, <2>2
<1>2. CASE Stop \/ Restart
  BY <1>2, CountKept DEF Stop, Restart, Types, Waited, Spliced, NoBacklog, Live
<1> QED  BY <1>1, <1>2 DEF Agent, ShutdownDone, ShutdownExpires, Crash

LEMMA UsersStep ==
    ASSUME CountInv, Users
    PROVE  CountInv'
<1> USE DEF CountInv, listenVars, spliceVars
<1>1. CASE Cancel
  BY <1>1, CountKept DEF Cancel, Types, Waited, Spliced, NoBacklog, Live
<1>2. ASSUME NEW c \in Conn, AppConnects(c) PROVE CountInv'
  BY <1>2, CountKept DEF AppConnects, Types, Waited, Spliced, NoBacklog, Live
<1>3. ASSUME NEW c \in Conn, AppEnds(c) PROVE CountInv'
  BY <1>3, CountKept DEF AppEnds, Types, Waited, Spliced, NoBacklog, Live
<1> QED  BY <1>1, <1>2, <1>3 DEF Users

LEMMA CountNext == CountInv /\ [Next]_vars => CountInv'
<1> SUFFICES ASSUME CountInv, [Next]_vars PROVE CountInv'
  OBVIOUS
<1>1. CASE Next
  BY <1>1, ListenStep, AgentStep, UsersStep, SessionStep DEF Next
<1>2. CASE UNCHANGED vars
  BY <1>2, CountKept DEF vars, listenVars, spliceVars, CountInv, Types, Waited, Spliced,
     NoBacklog, Live
<1> QED  BY <1>1, <1>2

\* When Listen returns nothing of it is left, whatever the agent, the
\* applications and a Ctrl-C do meanwhile (connect.go:102 and 116).
THEOREM ReturnedIsReleased == Spec => []ReturnedMeansReleased
<1>1. CountInv => ReturnedMeansReleased
  <2> SUFFICES ASSUME CountInv, main = "returned" PROVE ReturnedMeansReleased
    BY DEF ReturnedMeansReleased
  <2>1. Live = {} /\ ~listening
    BY NothingLive DEF CountInv, Counted, Waited
  <2>2. \A c \in Conn : conn[c] \in {"none", "closed"}
    BY <2>1 DEF CountInv, Types, NoBacklog, Live
  <2> QED  BY <2>1, <2>2 DEF CountInv, Types, Spliced, ReturnedMeansReleased
<1> QED  BY <1>1, CountInit, CountNext, PTL DEF Spec

=============================================================================
