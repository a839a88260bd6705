--------------------------- MODULE ConnWriterProofs ---------------------------
(***************************************************************************)
(* Proofs about ConnWriter: for any connections, goroutines and numbers of *)
(* joins, a connection is written to by one goroutine at a time until it is *)
(* about to be closed, and broadcasts go to members.                       *)
(***************************************************************************)
EXTENDS ConnWriter, FiniteSetTheorems, SequenceTheorems, TLAPS

\* What a call has left to do.
Remainders ==
    {None, <<"reply">>, <<"others">>, <<"announce">>, <<"permit">>, <<"ping">>,
     <<"reply", "others">>, <<"add", "reply", "others">>,
     <<"close", "announce">>, <<"forget", "close", "announce">>,
     <<"remove", "forget", "close", "announce">>}

\* The parts of TypeOK, with the exact calls.
Types ==
    /\ members \subseteq Peers
    /\ joins \in [Conns -> Nat] /\ (\A c \in Conns : joins[c] <= MaxJoins[c])
    /\ closed \subseteq Conns /\ broken \subseteq stalled /\ stalled \subseteq Conns
    /\ entry \in [Conns -> 0 .. MaxMutexes]
    /\ made \in [Conns -> 0 .. MaxMutexes]
    /\ todo \in [Threads -> Remainders]
    /\ holds \in [Threads -> {"none", "read", "write"}]
    /\ rest \in [Threads -> SUBSET Peers]
    /\ grip \in [Threads -> Grips]
    /\ gone \subseteq Threads

\* A connection is joined by its own read loop, within the bound.
PhaseInv ==
    \A t \in Threads :
        At(t, "add") => Kind(t) = "reader" /\ joins[Own(t)] < MaxJoins[Own(t)]

\* The mutexes: one that is wanted or locked has been made; until it is about
\* to be closed, a connection has one at most, and the map has it.
MutexInv ==
    /\ \A c \in Conns : entry[c] <= made[c]
    /\ \A c \in Conns : ~Ending(c) => entry[c] = made[c] /\ made[c] <= 1
    /\ \A t \in Threads : grip[t] # NoGrip => grip[t].mutex <= made[ConnOf(grip[t].to)]

\* A mutex is locked by one goroutine at a time.
Exclusive ==
    \A t, u \in Threads :
        /\ grip[t].on = "locked" /\ grip[u].on = "locked"
        /\ ConnOf(grip[t].to) = ConnOf(grip[u].to) /\ grip[t].mutex = grip[u].mutex
        => t = u

\* A call that holds the room's lock is in a phase that broadcasts; one that
\* is in a write and holds no lock writes to its own connection.
LockInv ==
    \A t \in Threads :
        /\ holds[t] = "none" => rest[t] = {}
        /\ holds[t] # "none" => At(t, "others") \/ At(t, "announce") \/ At(t, "permit")
        /\ grip[t] # NoGrip /\ holds[t] = "none" => At(t, "reply") \/ At(t, "ping")

IInv == Types /\ PhaseInv /\ LockInv /\ MutexInv /\ Exclusive /\ BroadcastToMembers

-----------------------------------------------------------------------------
\* The goroutines' kinds and connections.
LEMMA ThreadTypes ==
    /\ \A t \in Threads : Own(t) \in Conns
    /\ \A t, u \in Threads : Kind(t) = Kind(u) /\ Own(t) = Own(u) => t = u
    /\ \A c \in Conns : /\ <<"reader", c>> \in Threads
                        /\ Kind(<<"reader", c>>) = "reader" /\ Own(<<"reader", c>>) = c
BY ConnWriterAssumption DEF Kind, Own

\* Whoever is written to has a connection.
Receivers == Peers \cup (Conns \X {0})

LEMMA ReceiverTypes ==
    /\ \A p \in Receivers : ConnOf(p) \in Conns
    /\ \A c \in Conns, n \in Nat \ {0} : n <= MaxJoins[c] => <<c, n>> \in Peers
    /\ \A t \in Threads : Self(t) \in Receivers
    /\ Grips = {NoGrip} \cup [on : {"wanted", "locked"}, to : Receivers,
                             mutex : 1 .. MaxMutexes]
<1>1. \A p \in Conns \X Nat : ConnOf(p) \in Conns
  BY DEF ConnOf
<1>2. Peers \subseteq Conns \X Nat /\ Conns \X {0} \subseteq Conns \X Nat
  BY DEF Peers
<1>3. ASSUME NEW c \in Conns, NEW n \in Nat \ {0}, n <= MaxJoins[c] PROVE <<c, n>> \in Peers
  BY <1>3, ConnWriterAssumption DEF Peers
<1>4. \A t \in Threads : Self(t) \in Receivers
  BY ThreadTypes DEF Self, Receivers
<1>. QED BY <1>1, <1>2, <1>3, <1>4 DEF Receivers, Grips

\* A connection that is ending stays so: the goroutine at its closing closes it.
LEMMA EndingStays ==
    ASSUME closed \subseteq closed', \A u \in Threads : At(u, "close") => At(u, "close")'
    PROVE  \A c \in Conns : Ending(c) => Ending(c)'
BY DEF Ending

\* So a step that leaves the mutexes alone keeps what is known of them.
LEMMA MutexStays ==
    ASSUME MutexInv, UNCHANGED <<entry, made, grip>>, closed \subseteq closed',
           \A u \in Threads : At(u, "close") => At(u, "close")'
    PROVE  MutexInv'
BY EndingStays DEF MutexInv

\* The tail of a sequence of one.
LEMMA TailOfOne == ASSUME NEW S, NEW x \in S PROVE Tail(<<x>>) = <<>>
<1>1. <<x>> \in Seq(S) /\ Len(<<x>>) = 1 /\ <<x>> # <<>>
  OBVIOUS
<1>2. Tail(<<x>>) \in Seq(S) /\ Len(Tail(<<x>>)) = 0
  BY <1>1, HeadTailProperties
<1>. QED BY <1>2, EmptySeq

\* What follows a phase in a call.
LEMMA Following ==
    ASSUME NEW r \in Remainders, r # None
    PROVE  /\ Tail(r) \in Remainders
           /\ Tail(r) # None =>
                /\ Head(Tail(r)) \notin {"add", "remove"}
                /\ Head(Tail(r)) = "forget" => Head(r) = "remove"
                /\ Head(Tail(r)) = "close" => Head(r) = "forget"
           /\ Head(r) = "forget" => Tail(r) # None /\ Head(Tail(r)) = "close"
<1>1. CASE r \in {<<"reply">>, <<"others">>, <<"announce">>, <<"permit">>, <<"ping">>}
  <2>1. PICK phase \in {"reply", "others", "announce", "permit", "ping"} : r = <<phase>>
    BY <1>1
  <2>2. Tail(r) = <<>>
    BY <2>1, TailOfOne
  <2>3. Head(r) # "forget"
    BY <2>1
  <2>. QED BY <2>2, <2>3 DEF Remainders, None
<1>2. CASE r = <<"reply", "others">>
  <2>1. Tail(r) = <<"others">> /\ Head(Tail(r)) = "others"
    BY <1>2
  <2>. QED BY <2>1 DEF Remainders
<1>3. CASE r = <<"add", "reply", "others">>
  <2>1. Tail(r) = <<"reply", "others">> /\ Head(Tail(r)) = "reply"
    BY <1>3
  <2>. QED BY <2>1 DEF Remainders
<1>4. CASE r = <<"close", "announce">>
  <2>1. Tail(r) = <<"announce">> /\ Head(Tail(r)) = "announce"
    BY <1>4
  <2>. QED BY <2>1 DEF Remainders
<1>5. CASE r = <<"forget", "close", "announce">>
  <2>1. Tail(r) = <<"close", "announce">> /\ Head(Tail(r)) = "close" /\ Head(r) = "forget"
    BY <1>5
  <2>2. Tail(r) # None
    BY <2>1 DEF None
  <2>. QED BY <2>1, <2>2 DEF Remainders
<1>6. CASE r = <<"remove", "forget", "close", "announce">>
  <2>1. /\ Tail(r) = <<"forget", "close", "announce">>
        /\ Head(Tail(r)) = "forget" /\ Head(r) = "remove"
    BY <1>6
  <2>. QED BY <2>1 DEF Remainders
<1>. QED BY <1>1, <1>2, <1>3, <1>4, <1>5, <1>6 DEF Remainders, None

\* What a call starts with.
LEMMA Starting ==
    ASSUME NEW call \in DOMAIN Calls
    PROVE  /\ Calls[call] \in Remainders /\ Calls[call] # None
           /\ Head(Calls[call]) = "add" => call = "join"
BY DEF Calls, Remainders, None

LEMMA Calling == DOMAIN Calls = {"join", "answer", "tell", "permit", "leave", "ping"}
BY DEF Calls

LEMMA InitInv == Init => IInv
BY ConnWriterAssumption
   DEF Init, IInv, Types, PhaseInv, LockInv, MutexInv, Exclusive, BroadcastToMembers,
       Remainders, Grips, NoGrip, At

-----------------------------------------------------------------------------
\* Steps that begin a call, or take one on, leave the other goroutines' calls
\* as they are.
LEMMA StartNext ==
    ASSUME IInv, NEW t \in Threads, NEW call \in DOMAIN Calls, Start(t, call),
           UNCHANGED socketVars, Quiet, gone' \subseteq Threads,
           call = "join" => Kind(t) = "reader" /\ joins[Own(t)] < MaxJoins[Own(t)]
    PROVE  IInv'
<1>. USE DEF IInv
<1>1. /\ todo[t] = None /\ todo' = [todo EXCEPT ![t] = Calls[call]]
      /\ Calls[call] \in Remainders /\ Calls[call] # None
      /\ Head(Calls[call]) = "add" => call = "join"
  BY Starting DEF Start
<1>2. /\ UNCHANGED <<members, joins, closed, broken, stalled>>
      /\ UNCHANGED <<entry, made, holds, rest, grip>>
  BY DEF Quiet, socketVars
<1>3. Types'
  BY <1>1, <1>2 DEF Types
<1>4. PhaseInv'
  BY <1>1, <1>2 DEF PhaseInv, At, Types
<1>5. LockInv'
  BY <1>1, <1>2 DEF LockInv, At, Types
<1>6. \A u \in Threads : At(u, "close") => At(u, "close")'
  BY <1>1 DEF At, Types
<1>7. MutexInv' /\ Exclusive' /\ BroadcastToMembers'
  BY <1>2, <1>6, MutexStays DEF Exclusive, BroadcastToMembers
<1>. QED BY <1>3, <1>4, <1>5, <1>7

LEMMA ReceiveNext ==
    ASSUME IInv, NEW c \in Conns, NEW call \in {"join", "tell", "permit", "leave"},
           Receive(c, call)
    PROVE  IInv'
<1>1. call \in DOMAIN Calls
  BY Calling
<1>. QED BY <1>1, StartNext, ThreadTypes DEF Receive, IInv, Types

LEMMA CallbackNext ==
    ASSUME IInv, NEW c \in Conns, NEW call \in {"answer", "leave"}, Callback(c, call)
    PROVE  IInv'
<1>1. call \in DOMAIN Calls
  BY Calling
<1>2. <<"pion", c>> \in Threads
  BY DEF Callback, Start
<1>. QED BY <1>1, <1>2, StartNext DEF Callback, IInv, Types

LEMMA TickNext ==
    ASSUME IInv, NEW c \in Conns, Tick(c)
    PROVE  IInv'
<1>1. "ping" \in DOMAIN Calls
  BY Calling
<1>2. <<"ping", c>> \in Threads
  BY DEF Tick, Start
<1>. QED BY <1>1, <1>2, StartNext DEF Tick, IInv, Types

\* Only `gone` and `stalled` change, or a call begins.
LEMMA ReadErrorNext ==
    ASSUME IInv, NEW c \in Conns, ReadError(c)
    PROVE  IInv'
<1>1. gone' \subseteq Threads
  BY ThreadTypes DEF ReadError, IInv, Types
<1>2. CASE PeersOf(c) # {}
  <2>1. "leave" \in DOMAIN Calls
    BY Calling
  <2>. QED BY <1>1, <1>2, <2>1, StartNext, ThreadTypes DEF ReadError
<1>3. CASE PeersOf(c) = {}
  BY <1>1, <1>3
     DEF ReadError, socketVars, Quiet, IInv, Types, PhaseInv, LockInv, MutexInv, Exclusive,
         BroadcastToMembers, At, Ending
<1>. QED BY <1>2, <1>3

LEMMA StallNext ==
    ASSUME IInv, NEW c \in Conns, Stall(c)
    PROVE  IInv'
BY DEF Stall, Quiet, IInv, Types, PhaseInv, LockInv, MutexInv, Exclusive, BroadcastToMembers,
       At, Ending

-----------------------------------------------------------------------------
\* Each step of a call under way keeps the invariant.

\* Going on to the next phase.
LEMMA AdvanceTypes ==
    ASSUME Types, NEW t \in Threads, todo[t] # None, Advance(t)
    PROVE  /\ todo' \in [Threads -> Remainders]
           /\ \A u \in Threads : \A phase : u # t => (At(u, phase)' <=> At(u, phase))
           /\ ~At(t, "add")' /\ ~At(t, "remove")'
           /\ At(t, "forget") => At(t, "close")'
<1>1. todo[t] \in Remainders /\ todo' = [todo EXCEPT ![t] = Tail(todo[t])]
  BY DEF Types, Advance
<1>2. Tail(todo[t]) \in Remainders
  BY <1>1, Following
<1>3. todo' \in [Threads -> Remainders] /\ todo'[t] = Tail(todo[t])
      /\ \A u \in Threads : u # t => todo'[u] = todo[u]
  BY <1>1, <1>2 DEF Types
<1>4. \A u \in Threads : \A phase : u # t => (At(u, phase)' <=> At(u, phase))
  BY <1>3 DEF At
<1>5. /\ ~At(t, "add")' /\ ~At(t, "remove")'
      /\ At(t, "forget") => At(t, "close")'
  BY <1>1, <1>3, Following DEF At
<1>. QED BY <1>3, <1>4, <1>5

LEMMA AddMemberNext ==
    ASSUME IInv, NEW t \in Threads, AddMember(t)
    PROVE  IInv'
<1>. USE DEF IInv
<1>. DEFINE c == Own(t)
<1>1. /\ UNCHANGED <<closed, broken, stalled, gone, entry, made, holds, rest, grip>>
      /\ members' = members \cup {<<c, joins[c] + 1>>} /\ joins' = [joins EXCEPT ![c] = @ + 1]
      /\ At(t, "add") /\ Unlocked /\ Advance(t)
  BY DEF AddMember, Quiet, NextNumber
<1>2. todo[t] # None /\ ~At(t, "close")
  BY <1>1 DEF At
<1>3. /\ c \in Conns /\ Kind(t) = "reader"
      /\ joins[c] \in Nat /\ joins[c] < MaxJoins[c] /\ MaxJoins[c] \in Nat
  BY <1>1, ThreadTypes, ConnWriterAssumption DEF PhaseInv, Types
<1>4. Types'
  <2>1. members' \subseteq Peers
    <3>1. joins[c] + 1 \in Nat \ {0} /\ joins[c] + 1 <= MaxJoins[c]
      BY <1>3
    <3>2. <<c, joins[c] + 1>> \in Peers
      BY <1>3, <3>1, ReceiverTypes
    <3>. QED BY <1>1, <3>2 DEF Types
  <2>2. joins' \in [Conns -> Nat] /\ (\A d \in Conns : joins'[d] <= MaxJoins[d])
    BY <1>1, <1>3 DEF Types
  <2>. QED BY <1>1, <1>2, <2>1, <2>2, AdvanceTypes DEF Types
<1>5. PhaseInv'
  <2>1. ASSUME NEW u \in Threads, At(u, "add")'
        PROVE  Kind(u) = "reader" /\ joins'[Own(u)] < MaxJoins[Own(u)]
    <3>1. u # t
      BY <1>1, <1>2, <2>1, AdvanceTypes
    <3>2. At(u, "add") /\ Kind(u) = "reader" /\ joins[Own(u)] < MaxJoins[Own(u)]
      BY <1>1, <1>2, <2>1, <3>1, AdvanceTypes DEF PhaseInv
    <3>3. Own(u) # c /\ Own(u) \in Conns
      BY <1>3, <3>1, <3>2, ThreadTypes
    <3>. QED BY <1>1, <3>2, <3>3 DEF Types
  <2>. QED BY <2>1 DEF PhaseInv, At
<1>6. LockInv'
  BY <1>1, <1>2, AdvanceTypes, SMTT(30) DEF LockInv, Unlocked, At
<1>7. \A u \in Threads : At(u, "close") => At(u, "close")'
  BY <1>1, <1>2, AdvanceTypes
<1>8. MutexInv' /\ Exclusive' /\ BroadcastToMembers'
  BY <1>1, <1>7, MutexStays DEF Exclusive, BroadcastToMembers
<1>. QED BY <1>4, <1>5, <1>6, <1>8

LEMMA RemoveMemberNext ==
    ASSUME IInv, NEW t \in Threads, RemoveMember(t)
    PROVE  IInv'
<1>. USE DEF IInv
<1>1. /\ UNCHANGED <<joins, closed, broken, stalled, gone, entry, made, holds, rest, grip>>
      /\ At(t, "remove") /\ todo[t] # None /\ Unlocked
      /\ ~At(t, "close") /\ ~At(t, "add")
  BY DEF RemoveMember, Quiet, At
<1>2. CASE Advance(t) /\ members' \subseteq members
  <2>1. Types'
    BY <1>1, <1>2, AdvanceTypes DEF Types
  <2>2. PhaseInv'
    BY <1>1, <1>2, AdvanceTypes DEF PhaseInv, At
  <2>3. LockInv'
    <3>1. \A u \in Threads : holds'[u] = "none" /\ rest'[u] = {}
      BY <1>1 DEF LockInv, Unlocked
    <3>2. ASSUME NEW u \in Threads, grip'[u] # NoGrip
          PROVE  At(u, "reply")' \/ At(u, "ping")'
      <4>1. At(u, "reply") \/ At(u, "ping")
        BY <1>1, <3>2 DEF LockInv, Unlocked
      <4>2. u # t
        BY <1>1, <4>1 DEF At
      <4>. QED BY <1>1, <1>2, <4>1, <4>2, AdvanceTypes
    <3>. QED BY <3>1, <3>2 DEF LockInv, At
  <2>4. \A u \in Threads : At(u, "close") => At(u, "close")'
    BY <1>1, <1>2, AdvanceTypes
  <2>5. MutexInv' /\ Exclusive' /\ BroadcastToMembers'
    BY <1>1, <1>2, <2>4, MutexStays DEF Exclusive, BroadcastToMembers, Unlocked
  <2>. QED BY <2>1, <2>2, <2>3, <2>5
<1>3. CASE todo' = [todo EXCEPT ![t] = None] /\ members' = members
  <2>1. Types'
    BY <1>1, <1>3 DEF Types, Remainders
  <2>2. PhaseInv'
    BY <1>1, <1>3 DEF PhaseInv, At, Types
  <2>3. LockInv'
    BY <1>1, <1>3 DEF LockInv, Unlocked, At, Types
  <2>4. \A u \in Threads : At(u, "close") => At(u, "close")'
    BY <1>1, <1>3 DEF At, Types
  <2>5. MutexInv' /\ Exclusive' /\ BroadcastToMembers'
    BY <1>1, <1>3, <2>4, MutexStays DEF Exclusive, BroadcastToMembers
  <2>. QED BY <2>1, <2>2, <2>3, <2>5
<1>4. \/ Advance(t) /\ members' \subseteq members
      \/ todo' = [todo EXCEPT ![t] = None] /\ members' = members
  BY DEF RemoveMember
<1>. QED BY <1>2, <1>3, <1>4

\* A connection that is forgotten is closed next.
LEMMA ForgetNext ==
    ASSUME IInv, NEW t \in Threads, Forget(t)
    PROVE  IInv'
<1>. USE DEF IInv
<1>1. /\ UNCHANGED <<members, joins, closed, broken, stalled, made, holds, rest, grip, gone>>
      /\ entry' = [entry EXCEPT ![Own(t)] = 0]
      /\ At(t, "forget") /\ todo[t] # None /\ ~At(t, "close") /\ Advance(t)
  BY DEF Forget, socketVars, At
<1>2. Own(t) \in Conns
  BY ThreadTypes
<1>3. Types'
  BY <1>1, <1>2, AdvanceTypes, ConnWriterAssumption DEF Types
<1>4. PhaseInv'
  BY <1>1, <1>2, AdvanceTypes DEF PhaseInv, At
<1>5. LockInv'
  BY <1>1, AdvanceTypes, ZenonT(30) DEF LockInv, At
<1>6. MutexInv'
  <2>1. \A u \in Threads : At(u, "close") => At(u, "close")'
    BY <1>1, AdvanceTypes
  <2>2. \A c \in Conns : Ending(c) => Ending(c)'
    BY <1>1, <2>1, EndingStays
  <2>3. Ending(Own(t))'
    <3>1. At(t, "close")'
      BY <1>1, AdvanceTypes
    <3>. QED BY <3>1 DEF Ending
  <2>4. \A c \in Conns : c # Own(t) => entry'[c] = entry[c]
    BY <1>1 DEF Types
  <2>5. \A c \in Conns : entry'[c] <= made'[c]
    BY <1>1, <1>2, <2>4 DEF MutexInv, Types
  <2>6. ASSUME NEW c \in Conns, ~Ending(c)' PROVE entry'[c] = made'[c] /\ made'[c] <= 1
    BY <1>1, <2>2, <2>3, <2>4, <2>6 DEF MutexInv
  <2>. QED BY <1>1, <2>5, <2>6 DEF MutexInv
<1>7. Exclusive' /\ BroadcastToMembers'
  BY <1>1 DEF Exclusive, BroadcastToMembers
<1>. QED BY <1>3, <1>4, <1>5, <1>6, <1>7

LEMMA CloseSocketNext ==
    ASSUME IInv, NEW t \in Threads, CloseSocket(t)
    PROVE  IInv'
<1>. USE DEF IInv
<1>1. /\ UNCHANGED <<members, joins, broken, stalled, gone, entry, made, holds, rest, grip>>
      /\ closed' = closed \cup {Own(t)}
      /\ At(t, "close") /\ todo[t] # None /\ Advance(t)
  BY DEF CloseSocket, Quiet, At
<1>2. Own(t) \in Conns
  BY ThreadTypes
<1>3. Types'
  BY <1>1, <1>2, AdvanceTypes DEF Types
<1>4. PhaseInv'
  BY <1>1, AdvanceTypes DEF PhaseInv, At
<1>5. LockInv'
  BY <1>1, AdvanceTypes, ZenonT(30) DEF LockInv, At
<1>6. \A c \in Conns : Ending(c) => Ending(c)'
  <2>1. \A u \in Threads : u # t => (At(u, "close") => At(u, "close")')
    BY <1>1, AdvanceTypes
  <2>. QED BY <1>1, <2>1 DEF Ending
<1>7. MutexInv' /\ Exclusive' /\ BroadcastToMembers'
  BY <1>1, <1>6 DEF MutexInv, Exclusive, BroadcastToMembers
<1>. QED BY <1>3, <1>4, <1>5, <1>7

\* The lock is taken with members of the room to write to.
LEMMA BeginNext ==
    ASSUME IInv, NEW t \in Threads, BeginAnnounce(t) \/ BeginPermit(t)
    PROVE  IInv'
<1>. USE DEF IInv
<1>1. /\ UNCHANGED <<members, joins, closed, broken, stalled, entry, made, todo, grip, gone>>
      /\ At(t, "others") \/ At(t, "announce") \/ At(t, "permit")
  BY DEF BeginAnnounce, BeginPermit, socketVars
<1>2. PICK targets \in SUBSET members : rest' = [rest EXCEPT ![t] = targets]
  <2>1. CASE BeginAnnounce(t)
    BY <2>1 DEF BeginAnnounce
  <2>2. CASE BeginPermit(t)
    BY <2>2 DEF BeginPermit
  <2>. QED BY <2>1, <2>2
<1>3. PICK how \in {"read", "write"} : holds' = [holds EXCEPT ![t] = how]
  BY DEF BeginAnnounce, BeginPermit
<1>4. Types'
  BY <1>1, <1>2, <1>3 DEF Types
<1>5. PhaseInv'
  BY <1>1 DEF PhaseInv, At
<1>6. LockInv'
  BY <1>1, <1>2, <1>3 DEF LockInv, At, Types
<1>7. MutexInv' /\ Exclusive'
  BY <1>1, MutexStays DEF Exclusive, At
<1>8. BroadcastToMembers'
  BY <1>1, <1>2, <1>3 DEF BroadcastToMembers, Types
<1>. QED BY <1>4, <1>5, <1>6, <1>7, <1>8

LEMMA EndBroadcastNext ==
    ASSUME IInv, NEW t \in Threads, EndBroadcast(t)
    PROVE  IInv'
<1>. USE DEF IInv
<1>1. /\ UNCHANGED <<members, joins, closed, broken, stalled, entry, made, rest, grip, gone>>
      /\ todo[t] # None /\ holds[t] # "none" /\ rest[t] = {} /\ grip[t] = NoGrip
      /\ holds' = [holds EXCEPT ![t] = "none"] /\ Advance(t)
  BY DEF EndBroadcast, LockReleased, socketVars
<1>2. ~At(t, "close")
  BY <1>1 DEF LockInv, At
<1>3. Types'
  BY <1>1, AdvanceTypes DEF Types
<1>4. PhaseInv'
  BY <1>1, <1>2, AdvanceTypes DEF PhaseInv, At
<1>5. LockInv'
  <2>1. /\ holds'[t] = "none" /\ rest'[t] = {} /\ grip'[t] = NoGrip
        /\ \A u \in Threads : u # t => holds'[u] = holds[u]
    BY <1>1 DEF Types
  <2>2. ASSUME NEW u \in Threads, u # t
        PROVE  /\ holds'[u] # "none" => At(u, "others")' \/ At(u, "announce")' \/ At(u, "permit")'
               /\ grip'[u] # NoGrip /\ holds'[u] = "none" => At(u, "reply")' \/ At(u, "ping")'
    BY <1>1, <2>1, <2>2, AdvanceTypes DEF LockInv
  <2>3. \A u \in Threads : holds'[u] = "none" => rest'[u] = {}
    BY <1>1, <2>1 DEF LockInv
  <2>. QED BY <2>1, <2>2, <2>3 DEF LockInv, At
<1>6. MutexInv' /\ Exclusive'
  <2>1. \A u \in Threads : At(u, "close") => At(u, "close")'
    BY <1>1, <1>2, AdvanceTypes
  <2>. QED BY <1>1, <2>1, MutexStays DEF Exclusive
<1>7. BroadcastToMembers'
  BY <1>1 DEF BroadcastToMembers, Types
<1>. QED BY <1>3, <1>4, <1>5, <1>6, <1>7

\* A mutex that is looked up is the connection's first, until the connection
\* is about to be closed.
LEMMA GetConnMuNext ==
    ASSUME IInv, NEW t \in Threads, GetConnMu(t)
    PROVE  IInv'
<1>. USE DEF IInv
<1>1. /\ UNCHANGED <<members, joins, closed, broken, stalled, todo, holds, rest, gone>>
      /\ grip[t] = NoGrip
  BY DEF GetConnMu, socketVars
<1>. DEFINE Looks(c, to) ==
              /\ LoadOrStore(c) <= MaxMutexes
              /\ entry' = [entry EXCEPT ![c] = LoadOrStore(c)]
              /\ made' = [made EXCEPT ![c] = IF LoadOrStore(c) > @ THEN LoadOrStore(c) ELSE @]
              /\ grip' = [grip EXCEPT ![t] =
                            [on |-> "wanted", to |-> to, mutex |-> LoadOrStore(c)]]
<1>2. PICK p \in Targets(t) : \E c : c = ConnOf(p) /\ Looks(c, p)
  BY DEF GetConnMu
<1>2a. PICK c : c = ConnOf(p) /\ Looks(c, p)
  BY <1>2
<1>. DEFINE m == LoadOrStore(c)
<1>3. /\ p \in Receivers /\ ConnOf(p) = c /\ c \in Conns
      /\ holds[t] = "none" => At(t, "reply") \/ At(t, "ping")
  <2>1. p \in Receivers
    BY ReceiverTypes DEF Targets, Types, Receivers
  <2>2. holds[t] = "none" => At(t, "reply") \/ At(t, "ping")
    BY DEF Targets, LockInv
  <2>. QED BY <1>2a, <2>1, <2>2, ReceiverTypes
<1>4. /\ m \in 1 .. MaxMutexes
      /\ made[c] \in 0 .. MaxMutexes /\ entry[c] \in 0 .. MaxMutexes
      /\ made'[c] >= m /\ made'[c] \in {m, made[c]} /\ entry'[c] = m
      /\ made'[c] >= made[c]
      /\ ~Ending(c) => m = 1 /\ made'[c] = 1
  <2>1. /\ made[c] \in 0 .. MaxMutexes /\ entry[c] \in 0 .. MaxMutexes
        /\ entry[c] <= made[c]
        /\ ~Ending(c) => entry[c] = made[c] /\ made[c] <= 1
    BY <1>3 DEF Types, MutexInv
  <2>2. MaxMutexes \in Nat /\ m <= MaxMutexes
    BY <1>2a, ConnWriterAssumption
  <2>3. CASE entry[c] # 0
    <3>1. m = entry[c]
      BY <2>3 DEF LoadOrStore
    <3>. HIDE DEF m
    <3>2. m \in 1 .. MaxMutexes /\ m <= made[c] /\ (~Ending(c) => m = 1 /\ made[c] = 1)
      BY <2>1, <2>2, <2>3, <3>1
    <3>3. entry'[c] = m /\ made'[c] = made[c]
      BY <1>2a, <1>3, <2>1, <3>1, <3>2 DEF Types, LoadOrStore
    <3>. QED BY <2>1, <2>2, <3>2, <3>3
  <2>4. CASE entry[c] = 0
    <3>1. m = made[c] + 1
      BY <2>4 DEF LoadOrStore
    <3>. HIDE DEF m
    <3>2. m \in 1 .. MaxMutexes /\ m > made[c] /\ (~Ending(c) => m = 1)
      BY <2>1, <2>2, <2>4, <3>1
    <3>3. entry'[c] = m /\ made'[c] = m
      BY <1>2a, <1>3, <2>1, <2>4, <3>1, <3>2 DEF Types, LoadOrStore
    <3>. QED BY <2>1, <2>2, <3>2, <3>3
  <2>. QED BY <2>3, <2>4
<1>5. /\ \A d \in Conns : d # c => made'[d] = made[d] /\ entry'[d] = entry[d]
      /\ \A u \in Threads : u # t => grip'[u] = grip[u]
      /\ grip'[t] = [on |-> "wanted", to |-> p, mutex |-> m]
  BY <1>2a DEF Types
<1>. HIDE DEF m
<1>6. Types'
  <2>1. grip'[t] \in Grips /\ made'[c] \in 0 .. MaxMutexes
    BY <1>3, <1>4, <1>5, ReceiverTypes
  <2>2. grip' \in [Threads -> Grips]
    BY <1>2a, <2>1, <1>5 DEF Types
  <2>3. made' \in [Conns -> 0 .. MaxMutexes] /\ entry' \in [Conns -> 0 .. MaxMutexes]
    BY <1>2a, <1>3, <1>4, <1>5, <2>1 DEF Types
  <2>. QED BY <1>1, <2>2, <2>3 DEF Types
<1>7. PhaseInv'
  BY <1>1 DEF PhaseInv, At
<1>8. LockInv'
  BY <1>1, <1>3, <1>5 DEF LockInv, At
<1>9. MutexInv'
  <2>1. \A d \in Conns : entry'[d] <= made'[d]
    BY <1>4, <1>5 DEF MutexInv
  <2>2. \A d \in Conns : Ending(d) => Ending(d)'
    BY <1>1, EndingStays DEF At
  <2>3. \A d \in Conns : ~Ending(d)' => entry'[d] = made'[d] /\ made'[d] <= 1
    BY <1>4, <1>5, <2>2 DEF MutexInv
  <2>4. ASSUME NEW u \in Threads, grip'[u] # NoGrip
        PROVE  grip'[u].mutex <= made'[ConnOf(grip'[u].to)]
    <3>1. CASE u = t
      BY <1>3, <1>4, <1>5, <3>1
    <3>2. CASE u # t
      <4>1. grip[u] # NoGrip /\ grip'[u] = grip[u]
        BY <1>5, <2>4, <3>2
      <4>2. /\ ConnOf(grip[u].to) \in Conns /\ grip[u].mutex \in 1 .. MaxMutexes
            /\ grip[u].mutex <= made[ConnOf(grip[u].to)] /\ made[ConnOf(grip[u].to)] \in 0 .. MaxMutexes
        BY <4>1, ReceiverTypes DEF Types, MutexInv
      <4>3. CASE ConnOf(grip[u].to) = c
        BY <1>4, <4>1, <4>2, <4>3, ConnWriterAssumption
      <4>4. CASE ConnOf(grip[u].to) # c
        BY <1>5, <4>1, <4>2, <4>4
      <4>. QED BY <4>3, <4>4
    <3>. QED BY <3>1, <3>2
  <2>. QED BY <2>1, <2>3, <2>4 DEF MutexInv
<1>10. Exclusive'
  BY <1>5 DEF Exclusive
<1>11. BroadcastToMembers'
  BY <1>1 DEF BroadcastToMembers
<1>. QED BY <1>6, <1>7, <1>8, <1>9, <1>10, <1>11

LEMMA LockConnMuNext ==
    ASSUME IInv, NEW t \in Threads, LockConnMu(t)
    PROVE  IInv'
<1>. USE DEF IInv
<1>1. /\ UNCHANGED <<members, joins, closed, broken, stalled, entry, made, todo, holds, rest,
                     gone>>
      /\ grip[t].on = "wanted" /\ grip' = [grip EXCEPT ![t].on = "locked"]
      /\ ~Locked(ConnOf(grip[t].to), grip[t].mutex)
  BY DEF LockConnMu, socketVars
<1>2. /\ grip[t] \in [on : {"wanted", "locked"}, to : Receivers, mutex : 1 .. MaxMutexes]
      /\ grip[t] # NoGrip
  BY <1>1, ReceiverTypes DEF Types, NoGrip
<1>3. /\ grip'[t] = [on |-> "locked", to |-> grip[t].to, mutex |-> grip[t].mutex]
      /\ \A u \in Threads : u # t => grip'[u] = grip[u]
  BY <1>1, <1>2 DEF Types
<1>4. Types'
  <2>1. grip'[t] \in Grips
    BY <1>2, <1>3, ReceiverTypes
  <2>2. grip' \in [Threads -> Grips]
    BY <1>1, <1>3, <2>1 DEF Types
  <2>. QED BY <1>1, <2>2 DEF Types
<1>5. PhaseInv' /\ LockInv' /\ BroadcastToMembers'
  BY <1>1, <1>2, <1>3 DEF PhaseInv, LockInv, BroadcastToMembers, At
<1>6. MutexInv'
  <2>1. \A d \in Conns : Ending(d) => Ending(d)'
    BY <1>1, EndingStays DEF At
  <2>. QED BY <1>1, <1>2, <1>3, <2>1 DEF MutexInv
<1>7. Exclusive'
  BY <1>1, <1>3 DEF Exclusive, Locked
<1>. QED BY <1>4, <1>5, <1>6, <1>7

LEMMA WriteNext ==
    ASSUME IInv, NEW t \in Threads, Write(t)
    PROVE  IInv'
<1>. USE DEF IInv
<1>1. /\ UNCHANGED <<members, joins, closed, stalled, entry, made, holds>>
      /\ grip[t] # NoGrip /\ grip' = [grip EXCEPT ![t] = NoGrip]
      /\ gone' \subseteq gone \cup {t}
      /\ broken' \subseteq broken \cup stalled
  BY DEF Write, NoGrip
<1>2. /\ \A u \in Threads : grip'[u] = IF u = t THEN NoGrip ELSE grip[u]
      /\ Exclusive'
  BY <1>1 DEF Exclusive, Types, NoGrip
<1>2a. ASSUME \A u \in Threads : At(u, "close") => At(u, "close")' PROVE MutexInv'
  BY <1>1, <1>2, <1>2a, EndingStays DEF MutexInv
<1>3. CASE holds[t] = "none"
  <2>1. Advance(t) /\ rest' = rest
    BY <1>3 DEF Write
  <2>2. (At(t, "reply") \/ At(t, "ping")) /\ todo[t] # None
    BY <1>1, <1>3 DEF LockInv, At
  <2>3. \A u \in Threads : At(u, "close") => At(u, "close")'
    <3>1. ~At(t, "close")
      BY <2>2 DEF At
    <3>. QED BY <2>1, <2>2, <3>1, AdvanceTypes
  <2>4. Types'
    BY <1>1, <1>2, <2>1, <2>2, AdvanceTypes, ReceiverTypes DEF Types
  <2>5. PhaseInv'
    BY <1>1, <2>1, <2>2, <2>3, AdvanceTypes DEF PhaseInv, At
  <2>6. LockInv'
    <3>1. grip'[t] = NoGrip /\ \A u \in Threads : u # t => grip'[u] = grip[u]
      BY <1>1 DEF Types
    <3>2. \A u \in Threads : holds'[u] = "none" => rest'[u] = {}
      BY <1>1, <2>1 DEF LockInv
    <3>3. ASSUME NEW u \in Threads, u # t
          PROVE  /\ holds'[u] # "none" => At(u, "others")' \/ At(u, "announce")' \/ At(u, "permit")'
                 /\ grip'[u] # NoGrip /\ holds'[u] = "none" => At(u, "reply")' \/ At(u, "ping")'
      BY <1>1, <2>1, <2>2, <3>1, <3>3, AdvanceTypes DEF LockInv
    <3>. QED BY <1>1, <1>3, <3>1, <3>2, <3>3 DEF LockInv, At
  <2>7. BroadcastToMembers'
    BY <1>1, <2>1 DEF BroadcastToMembers
  <2>. QED BY <1>2, <1>2a, <2>3, <2>4, <2>5, <2>6, <2>7
<1>4. CASE holds[t] # "none"
  <2>1. todo' = todo /\ rest' = [rest EXCEPT ![t] = @ \ {grip[t].to}]
    BY <1>4 DEF Write
  <2>2. Types'
    BY <1>1, <1>2, <2>1, ReceiverTypes DEF Types
  <2>3. PhaseInv'
    BY <1>1, <2>1 DEF PhaseInv, At
  <2>4. LockInv'
    BY <1>1, <1>4, <2>1 DEF LockInv, At, Types
  <2>5. BroadcastToMembers'
    BY <1>1, <2>1 DEF BroadcastToMembers, Types
  <2>6. MutexInv'
    BY <1>2a, <2>1 DEF At
  <2>. QED BY <1>2, <2>2, <2>3, <2>4, <2>5, <2>6
<1>. QED BY <1>3, <1>4

-----------------------------------------------------------------------------
LEMMA NextInv == IInv /\ [Next]_vars => IInv'
<1>. SUFFICES ASSUME IInv, [Next]_vars PROVE IInv'
  OBVIOUS
<1>1. ASSUME NEW t \in Threads, Step(t) PROVE IInv'
  BY <1>1, AddMemberNext, RemoveMemberNext, ForgetNext, CloseSocketNext, BeginNext,
     EndBroadcastNext, GetConnMuNext, LockConnMuNext, WriteNext DEF Step
<1>2. CASE UNCHANGED vars
  BY <1>2 DEF vars, IInv, Types, PhaseInv, LockInv, MutexInv, Exclusive, BroadcastToMembers, At, Ending
<1>. QED
  BY <1>1, <1>2, ReceiveNext, CallbackNext, TickNext, ReadErrorNext, StallNext DEF Next

THEOREM WriterInvariance == Spec => []IInv
BY InitInv, NextInv, PTL DEF Spec

\* A broadcast writes to members of the room only: whoever takes a peer out of
\* it waits for the lock that is held over the writes (handleDisconnect,
\* broadcastExcept, broadcastAll).
THEOREM MembersAreWrittenTo == Spec => []BroadcastToMembers
<1>1. IInv => BroadcastToMembers
  BY DEF IInv
<1>. QED BY <1>1, WriterInvariance, PTL

\* Two goroutines never write to a connection at once before one is about to
\* close it: until handleDisconnect deletes it, the connection has one mutex,
\* however many peers it has made, and every write needs it (getConnMu,
\* sendJSON).
THEOREM WritesAreSerialized == Spec => []OverlapOnlyAtTheEnd
<1>1. ASSUME IInv, NEW c \in Conns, ~Ending(c)
      PROVE  Cardinality(Writers(c)) \in {0, 1}
  <2>1. made[c] \in 0 .. MaxMutexes /\ made[c] <= 1
    BY <1>1 DEF IInv, Types, MutexInv
  <2>2. ASSUME NEW t \in Writers(c)
        PROVE  t \in Threads /\ grip[t].on = "locked" /\ ConnOf(grip[t].to) = c
               /\ grip[t].mutex = 1
    <3>1. t \in Threads /\ grip[t].on = "locked" /\ ConnOf(grip[t].to) = c
      BY DEF Writers
    <3>2. /\ grip[t] \in [on : {"wanted", "locked"}, to : Receivers, mutex : 1 .. MaxMutexes]
          /\ grip[t] # NoGrip
      BY <1>1, <3>1, ReceiverTypes DEF IInv, Types, NoGrip
    <3>3. grip[t].mutex <= made[c]
      BY <1>1, <3>1, <3>2 DEF IInv, MutexInv
    <3>4. grip[t].mutex = 1
      BY <2>1, <3>2, <3>3, ConnWriterAssumption
    <3>. QED BY <3>1, <3>4
  <2>3. \A t, u \in Writers(c) : t = u
    BY <1>1, <2>2 DEF IInv, Exclusive
  <2>4. CASE Writers(c) = {}
    BY <2>4, FS_EmptySet
  <2>5. ASSUME NEW t \in Writers(c) PROVE Cardinality(Writers(c)) \in {0, 1}
    <3>1. Writers(c) = {t}
      BY <2>3
    <3>. QED BY <3>1, FS_Singleton
  <2>. QED BY <2>4, <2>5
<1>2. IInv => OverlapOnlyAtTheEnd
  BY <1>1 DEF OverlapOnlyAtTheEnd
<1>. QED BY <1>2, WriterInvariance, PTL

\* All goroutines, sockets, mutexes and locks keep their types, for any
\* numbers of connections and goroutines.
THEOREM WriterTypes == Spec => []TypeOK
<1>1. ASSUME NEW r \in Remainders, NEW i \in DOMAIN r PROVE r[i] \in Phases
  BY DEF Remainders, Phases, None
<1>2. IInv => TypeOK
  BY <1>1 DEF IInv, Types, PhaseInv, MutexInv, TypeOK
<1>. QED BY <1>2, WriterInvariance, PTL
=============================================================================
