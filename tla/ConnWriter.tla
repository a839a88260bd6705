------------------------------ MODULE ConnWriter ------------------------------
(***************************************************************************)
(* How stream.go writes to its WebSockets.  Goroutines of three kinds run   *)
(* for a connection: the read loop with the handler it is in, the ping     *)
(* ticker, and the set-up and callbacks of pion's peer connection.  Every  *)
(* write goes through sendJSON or writeControl, which look a mutex up in   *)
(* the global map connMutexes; many are made while the room's RWMutex is   *)
(* held, for reading by a broadcast and for writing by the permission      *)
(* handlers.  handleDisconnect deletes the map's entry and closes the      *)
(* socket.                                                                 *)
(*                                                                         *)
(* A call is a sequence of phases; a phase may need the room's lock, and   *)
(* may write to several connections, one after another.  Who is host and   *)
(* who plays is Room.tla's: here any member may be.  A connection may join *)
(* again and have several peers in the room: each is written to, and any   *)
(* of them may be the one that a handleDisconnect for the connection finds. *)
(***************************************************************************)
EXTENDS Naturals, FiniteSets, Sequences

CONSTANTS Conns,       \* the WebSocket connections
          Threads,     \* the goroutines: their kind and connection
          MayStall,    \* the connections whose clients may stop reading
          MaxJoins,    \* bound on the joins of each connection
          MaxMutexes   \* bound on the mutexes made for one connection

ASSUME ConnWriterAssumption ==
    /\ Threads \subseteq {"reader", "ping", "pion"} \X Conns
    /\ {"reader"} \X Conns \subseteq Threads
    /\ MayStall \subseteq Conns
    /\ MaxJoins \in [Conns -> Nat]
    /\ MaxMutexes \in Nat \ {0}

Kind(t) == t[1]
Own(t) == t[2]

\* A peer is its connection and which of the connection's joins made it.
Peers == UNION {{c} \X (1 .. MaxJoins[c]) : c \in Conns}
ConnOf(p) == p[1]

Phases == {"add", "reply", "others", "announce", "permit", "remove", "forget", "close", "ping"}

\* The calls, as the phases they go through.
Calls == [
    join    |-> <<"add", "reply", "others">>,        \* handleJoin
    answer  |-> <<"reply">>,                         \* any sendJSON to the own socket
    tell    |-> <<"announce">>,                      \* broadcastAll
    permit  |-> <<"permit">>,                        \* handleSetGuestKeyboard, ...Mouse
    leave   |-> <<"remove", "forget", "close", "announce">>,  \* handleDisconnect
    ping    |-> <<"ping">>]                          \* writeControl
None == <<>>

VARIABLES
    members,   \* the peers in the room
    joins,     \* connection -> how many peers it has made
    closed,    \* the sockets the server has closed
    broken,    \* the connections a ping timed out on: their writes fail
    stalled,   \* the clients that have stopped reading
    entry,     \* connMutexes: connection -> number of its mutex, 0 if absent
    made,      \* connection -> mutexes made for it so far
    todo,      \* thread -> the phases left of its call
    holds,     \* thread -> how it holds the room's lock
    rest,      \* thread -> the connections it has still to write to
    grip,      \* thread -> the write it is in: to whom, mutex, locked or not
    gone       \* the threads that have ended

vars == <<members, joins, closed, broken, stalled, entry, made, todo, holds, rest, grip, gone>>
socketVars == <<members, joins, closed, broken, stalled>>

\* A write is to a peer of the room, or to the goroutine's own connection.
Self(t) == <<Own(t), 0>>
NoGrip == [on |-> "none"]
Grips ==
    {NoGrip} \cup [on : {"wanted", "locked"}, to : Peers \cup (Conns \X {0}),
                  mutex : 1 .. MaxMutexes]

TypeOK ==
    /\ members \subseteq Peers /\ joins \in [Conns -> Nat]
    /\ \A c \in Conns : joins[c] <= MaxJoins[c]
    /\ closed \subseteq Conns /\ broken \subseteq stalled /\ stalled \subseteq Conns
    /\ entry \in [Conns -> 0 .. MaxMutexes]
    /\ made \in [Conns -> 0 .. MaxMutexes]
    /\ \A t \in Threads : \A i \in DOMAIN todo[t] : todo[t][i] \in Phases
    /\ holds \in [Threads -> {"none", "read", "write"}]
    /\ rest \in [Threads -> SUBSET Peers]
    /\ grip \in [Threads -> Grips]
    /\ gone \subseteq Threads
    /\ \A c \in Conns : entry[c] <= made[c]

Init ==
    /\ members = {} /\ joins = [c \in Conns |-> 0] /\ closed = {} /\ broken = {} /\ stalled = {}
    /\ entry = [c \in Conns |-> 0]
    /\ made = [c \in Conns |-> 0]
    /\ todo = [t \in Threads |-> None]
    /\ holds = [t \in Threads |-> "none"]
    /\ rest = [t \in Threads |-> {}]
    /\ grip = [t \in Threads |-> NoGrip]
    /\ gone = {}

-----------------------------------------------------------------------------
\* The room's RWMutex.  A goroutine at a phase that locks for writing is in
\* Lock(); while one waits there for readers to leave, sync.RWMutex lets no
\* new reader in, but after a writer it lets the waiting readers in.
Locking == {"add", "permit", "remove"}
At(t, phase) == todo[t] # None /\ Head(todo[t]) = phase
WriterWaits == \E t \in Threads : todo[t] # None /\ Head(todo[t]) \in Locking /\ holds[t] = "none"
ReadersIgnored == \A t \in Threads : holds[t] # "write"     \* fault: not exclusive
Unlocked == \A t \in Threads : holds[t] = "none"
ReadFree ==
    \/ Unlocked
    \/ ~WriterWaits /\ \A t \in Threads : holds[t] # "write"

Advance(t) == todo' = [todo EXCEPT ![t] = Tail(@)]

\* A goroutine that is idle enters a call.
Start(t, call) ==
    /\ t \in Threads
    /\ t \notin gone
    /\ todo[t] = None
    /\ todo' = [todo EXCEPT ![t] = Calls[call]]

Quiet == UNCHANGED <<entry, made, holds, rest, grip>>

-----------------------------------------------------------------------------
\* findPeerByConn finds one of these.
PeersOf(c) == {p \in members : ConnOf(p) = c}

\* HandleWebSocket's read loop: a message of a client that still talks, or one
\* that was read off the socket before it was closed.
Receive(c, call) ==
    /\ c \notin stalled
    /\ IF call = "join" THEN joins[c] < MaxJoins[c] ELSE PeersOf(c) # {}
    /\ Start(<<"reader", c>>, call)
    /\ UNCHANGED <<socketVars, gone>> /\ Quiet

\* Its read fails: the socket is closed, or the client is gone, or nothing
\* came before the read deadline.  A peer in the room is disconnected, and
\* the loop ends.
ReadError(c) ==
    LET t == <<"reader", c>>
    IN  /\ gone' = gone \cup {t}
        /\ IF PeersOf(c) # {}
           THEN Start(t, "leave")
           ELSE t \notin gone /\ todo[t] = None /\ UNCHANGED todo
        /\ UNCHANGED socketVars /\ Quiet

\* The ping ticker fires; its goroutine ends when the read loop has returned.
Tick(c) ==
    /\ <<"reader", c>> \notin gone \/ todo[<<"reader", c>>] # None
    /\ Start(<<"ping", c>>, "ping")
    /\ UNCHANGED <<socketVars, gone>> /\ Quiet

\* A callback of a peer connection, maybe of a peer that was removed: there is
\* a candidate to send, or it failed or closed, and a peer is disconnected.
Callback(c, call) ==
    /\ joins[c] > 0
    /\ Start(<<"pion", c>>, call)
    /\ UNCHANGED <<socketVars, gone>> /\ Quiet

\* A client stops reading its socket, and says nothing any more.
Stall(c) ==
    /\ c \in MayStall /\ PeersOf(c) # {}
    /\ stalled' = stalled \cup {c}
    /\ UNCHANGED <<members, joins, closed, broken, todo, gone>> /\ Quiet

-----------------------------------------------------------------------------
\* The locked parts of handleJoin and handleDisconnect; nothing blocks in them.
ReusedNumber(c) == joins[c]          \* fault: the peer gets its number too early
NextNumber(c) == joins[c] + 1

AddMember(t) ==
    /\ At(t, "add")
    /\ Unlocked
    /\ members' = members \cup {<<Own(t), NextNumber(Own(t))>>}
    /\ joins' = [joins EXCEPT ![Own(t)] = @ + 1]
    /\ Advance(t)
    /\ UNCHANGED <<closed, broken, stalled, gone>> /\ Quiet

\* A disconnect that finds no peer any more returns at once.
RemoveMember(t) ==
    /\ At(t, "remove")
    /\ Unlocked
    /\ \/ /\ \E p \in PeersOf(Own(t)) : members' = members \ {p}
          /\ Advance(t)
       \/ /\ PeersOf(Own(t)) = {}
          /\ todo' = [todo EXCEPT ![t] = None]
          /\ UNCHANGED members
    /\ UNCHANGED <<joins, closed, broken, stalled, gone>> /\ Quiet

\* connMutexes.Delete(conn).
Forget(t) ==
    /\ At(t, "forget")
    /\ entry' = [entry EXCEPT ![Own(t)] = 0]
    /\ Advance(t)
    /\ UNCHANGED <<socketVars, made, holds, rest, grip, gone>>

\* conn.Close().
CloseSocket(t) ==
    /\ At(t, "close")
    /\ closed' = closed \cup {Own(t)}
    /\ Advance(t)
    /\ UNCHANGED <<members, joins, broken, stalled, gone>> /\ Quiet

-----------------------------------------------------------------------------
\* A phase that writes starts: a broadcast takes the lock for reading, a
\* permission handler for writing, and both write to members of the room.
\* broadcastExcept leaves out the peer that has just joined, and no other peer
\* of its connection.
NewPeer(t) == <<Own(t), joins[Own(t)]>>

BeginAnnounce(t) ==
    /\ At(t, "announce") \/ At(t, "others")
    /\ holds[t] = "none"
    /\ ReadFree
    /\ holds' = [holds EXCEPT ![t] = "read"]
    /\ rest' = [rest EXCEPT ![t] = IF At(t, "others") THEN members \ {NewPeer(t)}
                                    ELSE members]
    /\ UNCHANGED <<socketVars, entry, made, todo, grip, gone>>

BeginPermit(t) ==
    /\ At(t, "permit") /\ holds[t] = "none"
    /\ Unlocked
    /\ holds' = [holds EXCEPT ![t] = "write"]
    /\ \E targets \in SUBSET members : rest' = [rest EXCEPT ![t] = targets]
    /\ UNCHANGED <<socketVars, entry, made, todo, grip, gone>>

\* The phase is over once nothing is left to write, and the lock is released.
LockKept(t) == holds                 \* fault: a return without its unlock
LockReleased(t) == [holds EXCEPT ![t] = "none"]

EndBroadcast(t) ==
    /\ todo[t] # None /\ holds[t] # "none"
    /\ rest[t] = {} /\ grip[t] = NoGrip
    /\ holds' = LockReleased(t)
    /\ Advance(t)
    /\ UNCHANGED <<socketVars, entry, made, rest, grip, gone>>

-----------------------------------------------------------------------------
\* One write: getConnMu, then Lock, then WriteMessage and Unlock.
Targets(t) == IF At(t, "reply") \/ At(t, "ping") THEN {Self(t)} ELSE rest[t]

MissStores(c) == made[c] + 1         \* fault: stores a mutex over the one there is
LoadOrStore(c) == IF entry[c] # 0 THEN entry[c] ELSE made[c] + 1

GetConnMu(t) ==
    /\ grip[t] = NoGrip
    /\ \E p \in Targets(t) :
         LET c == ConnOf(p)
             m == LoadOrStore(c)
         IN  /\ m <= MaxMutexes
             /\ entry' = [entry EXCEPT ![c] = m]
             /\ made' = [made EXCEPT ![c] = IF m > @ THEN m ELSE @]
             /\ grip' = [grip EXCEPT ![t] = [on |-> "wanted", to |-> p, mutex |-> m]]
    /\ UNCHANGED <<socketVars, todo, holds, rest, gone>>

Locked(c, m) ==
    \E u \in Threads : grip[u].on = "locked" /\ ConnOf(grip[u].to) = c /\ grip[u].mutex = m

LockConnMu(t) ==
    /\ grip[t].on = "wanted"
    /\ ~Locked(ConnOf(grip[t].to), grip[t].mutex)
    /\ grip' = [grip EXCEPT ![t].on = "locked"]
    /\ UNCHANGED <<socketVars, entry, made, todo, holds, rest, gone>>

\* WriteMessage has no deadline: into a full socket it returns only when the
\* socket is closed, or fails at once after a write that failed.  WriteControl
\* has a deadline, and the goroutine of the ping ticker ends on an error.
WriteReturns(t) == ConnOf(grip[t].to) \notin stalled \ (closed \cup broken) \/ Kind(t) = "ping"

Write(t) ==
    /\ grip[t].on = "locked"
    /\ WriteReturns(t)
    /\ grip' = [grip EXCEPT ![t] = NoGrip]
    /\ IF holds[t] = "none"
       THEN Advance(t) /\ UNCHANGED rest
       ELSE rest' = [rest EXCEPT ![t] = @ \ {grip[t].to}] /\ UNCHANGED todo
    /\ IF Kind(t) = "ping" /\ Own(t) \in closed \cup stalled
       THEN gone' = gone \cup {t} /\ broken' = broken \cup ({Own(t)} \cap stalled)
       ELSE UNCHANGED <<gone, broken>>
    /\ UNCHANGED <<members, joins, closed, stalled, entry, made, holds>>

-----------------------------------------------------------------------------
\* A call under way takes its next step.
Step(t) ==
    \/ AddMember(t)
    \/ RemoveMember(t)
    \/ Forget(t)
    \/ CloseSocket(t)
    \/ BeginAnnounce(t)
    \/ BeginPermit(t)
    \/ EndBroadcast(t)
    \/ GetConnMu(t)
    \/ LockConnMu(t)
    \/ Write(t)

Next ==
    \/ \E c \in Conns, call \in {"join", "tell", "permit", "leave"} : Receive(c, call)
    \/ \E c \in Conns : ReadError(c) \/ Stall(c) \/ Tick(c)
    \/ \E c \in Conns, call \in {"answer", "leave"} : Callback(c, call)
    \/ \E t \in Threads : Step(t)

Spec == Init /\ [][Next]_vars

\* The Go scheduler runs every goroutine, sync.Mutex hands over to a starving
\* waiter and sync.RWMutex lets no later reader pass a waiting writer, so a
\* step that is possible again and again is taken.  A read of a closed or
\* silent socket fails in the end: that is what the read deadline is for.
Fairness ==
    /\ \A t \in Threads : SF_vars(Step(t))
    /\ \A c \in Conns : WF_vars(c \in closed \cup stalled /\ ReadError(c))

FairSpec == Spec /\ Fairness

-----------------------------------------------------------------------------
Writers(c) == {t \in Threads : grip[t].on = "locked" /\ ConnOf(grip[t].to) = c}

\* Its socket is closed, or handleDisconnect is about to close it.
Ending(c) == c \in closed \/ \E t \in Threads : Own(t) = c /\ At(t, "close")

\* Two goroutines never write to a connection at once, whichever of them
\* looked its mutex up first, unless the socket is closed or a goroutine is
\* just about to close it, having deleted the mutex while the other peer of
\* the connection, or its own goroutines, still write (stream.go, 548: gorilla
\* forbids it, and the comment at 965 says that connMutexes prevents it).
OverlapOnlyAtTheEnd == \A c \in Conns : Cardinality(Writers(c)) > 1 => Ending(c)

\* A broadcast writes to members of the room only: nobody leaves while it
\* iterates, because the lock is held over the writes.
BroadcastToMembers == \A t \in Threads : holds[t] # "none" => rest[t] \subseteq members

\* While clients read, every handler returns: no read loop waits for ever for
\* the room's lock, for a connection's mutex or both, unless an open socket
\* whose client has stopped reading is what it waits for.
HandlersReturn ==
    \A c \in Conns :
        todo[<<"reader", c>>] # None
            ~> todo[<<"reader", c>>] = None \/ stalled \ closed # {}

\* A client that has gone silent is disconnected ("send pings every 5s,
\* timeout after 20s", stream.go:175).
SilentClientDropped == \A c \in Conns : c \in stalled ~> c \in closed
=============================================================================
