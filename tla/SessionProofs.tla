---------------------------- MODULE SessionProofs ----------------------------
(***************************************************************************)
(* Proofs about Session, for any numbers of sessions, reconnects, restarts *)
(* and retries: the tab makes no second peer connection but after a late   *)
(* freeze, and only a race leaves an open peer connection on the server.   *)
(***************************************************************************)
EXTENDS Session, FiniteSetTheorems, FunctionTheorems, SequenceTheorems, TLAPS

\* The parts of TypeOK, but for the bound on the set-ups.
TabTypes ==
    /\ ui \in {"overlay", "stream"} /\ loading \in BOOLEAN
    /\ ws \in Sessions \cup {none}
    /\ sock \in [Sessions -> {"none", "connecting", "open", "closing", "closed"}]
    /\ pc \in BOOLEAN /\ described \in PCs \cup {none} /\ ice \in BOOLEAN
    /\ ops \in Seq([offer : PCs, queued : BOOLEAN])
    /\ pending \in Seq(PCs) /\ cursor \in 0 .. Len(pending)
    /\ timer \in BOOLEAN /\ poll \in BOOLEAN /\ stray \in BOOLEAN /\ late \in BOOLEAN
    /\ retries \in 0 .. MaxRetries /\ reconnects \in 0 .. MaxReconnects
    /\ restarts \in 0 .. MaxRestarts

MessageTypes == up \in [Sessions -> Seq(Up)] /\ down \in [Sessions -> Seq(Down)]

ServerTypes ==
    /\ conn \in [Sessions -> {"none", "open", "closed"}]
    /\ loop \in [Sessions -> {"none", "reading", "reconnecting", "closed", "dropped", "reply",
                              "gone"}]
    /\ member \subseteq Sessions /\ tearing \subseteq Sessions
    /\ starting \in [Sessions -> Nat]
    /\ peerPC \in [Sessions -> PCs \cup {none}]
    /\ owner \in [PCs -> Sessions \cup {none}]
    /\ stage \in [PCs -> Stages]
    /\ open \subseteq PCs /\ callback \subseteq PCs /\ offering \subseteq PCs
    /\ remote \in [PCs -> PCs \cup {none}]
    /\ raced \subseteq Sessions

Types == TabTypes /\ MessageTypes /\ ServerTypes

\* Which session the tab is in, and what it shows.
TabInv ==
    /\ \A s \in Sessions : sock[s] \in {"connecting", "open"} => ws = s
    /\ \A s \in Sessions : sock[s] = "connecting" => ui = "overlay"
    /\ ws # none => loading \/ ui = "stream"
    /\ pc \/ poll => ui = "stream"

\* A session whose socket has not opened has nothing on the server.
Unopened(s) ==
    /\ conn[s] = "none" /\ loop[s] = "none" /\ s \notin member \cup tearing
    /\ up[s] = <<>> /\ down[s] = <<>> /\ starting[s] = 0
    /\ \A g \in PCs : owner[g] # s
FreshInv == \A s \in Sessions : sock[s] \in {"none", "connecting"} => Unopened(s)

\* A session joins once, with its first message.
JoinInv ==
    \A s \in Sessions :
        /\ \A i \in 1 .. Len(up[s]) :
             up[s][i] = Plain("join") => i = 1 /\ s \notin member \cup tearing
        /\ s \in member => s \notin tearing /\ loop[s] \notin {"none", "gone"}

\* A peer connection that is open, or has a callback to run, has been made for
\* a session.
PCInv ==
    \A g \in PCs :
        /\ g \in open => stage[g] # "unused"
        /\ g \in open \cup callback => owner[g] \in Sessions

\* What goes on for a session that no race has met.
Undisturbed(s) ==
    /\ starting[s] <= 1
    /\ starting[s] > 0 => s \in member /\ \A g \in open : owner[g] # s
    /\ loop[s] \in {"closed", "dropped"} => \A g \in open : owner[g] # s
    /\ Reconnecting(s) => s \in member /\ ~SettingUp(s)
    /\ \A g \in open : owner[g] = s => g = peerPC[s] /\ s \in member \cup tearing
RaceInv == \A s \in Sessions \ raced : Undisturbed(s)

ServerInv == FreshInv /\ JoinInv /\ PCInv /\ RaceInv

\* What makes the tab a new peer connection: a join or a "reconnect" on its way
\* up, a reconnect the server is at, a welcome or a "reconnected" on its way
\* down.
Asking == {"join", "reconnect", "welcome", "reconnected"}
Again == {"reconnect", "reconnected"}
Has(q, types) == \E i \in 1 .. Len(q) : q[i][1] \in types
Once(q) == \A i, j \in 1 .. Len(q) : q[i][1] \in Asking /\ q[j][1] \in Asking => i = j
Busy(s) == Reconnecting(s) \/ loop[s] = "reply"

AgainInv ==
    \A s \in Sessions :
        s = ws /\ (Has(up[s], Again) \/ Busy(s) \/ Has(down[s], Again)) => ui = "stream"

\* Unless a freeze showed late, there is one of these at a time, and none
\* while the tab has a peer connection.
AskInv ==
    /\ ~stray
    /\ \A s \in Sessions : s = ws =>
         /\ Once(up[s]) /\ Once(down[s])
         /\ Busy(s) => ~Has(up[s], Asking) /\ ~Has(down[s], Asking)
         /\ ~(Has(up[s], Asking) /\ Has(down[s], Asking))
         /\ pc => ~Busy(s) /\ ~Has(up[s], Asking) /\ ~Has(down[s], Asking)
OnceInv == late \/ AskInv

\* No more set-ups are started than were asked for.
Asked(q) == {i \in 1 .. Len(q) : q[i][1] \in Asking}
CountInv ==
    \A s \in Sessions :
        starting[s] + Cardinality(Asked(up[s])) + (IF Reconnecting(s) THEN 1 ELSE 0)
            <= 1 + reconnects

IInv == Types /\ TabInv /\ ServerInv /\ AgainInv /\ OnceInv /\ CountInv
-----------------------------------------------------------------------------
(* The operators of the model.                                             *)

\* No session and no peer connection is none.
LEMMA Numbers == none \notin Sessions /\ none \notin PCs
BY SessionAssumption DEF Sessions, PCs, none

\* The messages, and which of them ask for a peer connection.
LEMMA Messages ==
    /\ \A t \in {"join", "leave", "reconnect", "restart"} : Plain(t) \in Up
    /\ \A t \in {"welcome", "reconnected"} : Plain(t) \in Down
    /\ \A g \in PCs : SDP(g) \in Up /\ SDP(g) \in Down
    /\ \A t : Plain(t)[1] = t
    /\ \A g : SDP(g)[1] = "sdp" /\ SDP(g) # Plain("join")
    /\ \A t : Plain(t) = Plain("join") => t = "join"
    /\ \A m \in Up : m[1] = "join" => m = Plain("join")
BY DEF Up, Down, Plain, SDP, SDPs, none

\* A queue after a message has been appended.
LEMMA QueueAppend ==
    ASSUME NEW S, NEW q \in Seq(S), NEW m \in S
    PROVE  /\ Append(q, m) \in Seq(S)
           /\ \A types : Has(Append(q, m), types) <=> Has(q, types) \/ m[1] \in types
           /\ Once(q) /\ (m[1] \notin Asking \/ ~Has(q, Asking)) => Once(Append(q, m))
<1>1. /\ Append(q, m) \in Seq(S) /\ Len(q) \in Nat
      /\ Len(Append(q, m)) = Len(q) + 1
      /\ \A i \in 1 .. Len(q) : Append(q, m)[i] = q[i]
      /\ Append(q, m)[Len(q) + 1] = m
  BY AppendProperties, LenProperties
<1>2. ASSUME NEW types
      PROVE  Has(Append(q, m), types) <=> Has(q, types) \/ m[1] \in types
  <2>1. CASE m[1] \in types
    <3>1. Len(q) + 1 \in 1 .. Len(Append(q, m))
      BY <1>1
    <3>. QED BY <1>1, <2>1, <3>1 DEF Has
  <2>2. CASE m[1] \notin types
    <3>1. ASSUME NEW i \in 1 .. Len(Append(q, m)), Append(q, m)[i][1] \in types
          PROVE  Has(q, types)
      <4>1. i # Len(q) + 1
        BY <1>1, <2>2, <3>1
      <4>2. i \in 1 .. Len(q)
        BY <1>1, <4>1
      <4>. QED BY <1>1, <3>1, <4>2 DEF Has
    <3>2. ASSUME NEW i \in 1 .. Len(q), q[i][1] \in types
          PROVE  Has(Append(q, m), types)
      <4>1. i \in 1 .. Len(Append(q, m)) /\ Append(q, m)[i] = q[i]
        BY <1>1
      <4>. QED BY <3>2, <4>1 DEF Has
    <3>. QED BY <2>2, <3>1, <3>2 DEF Has
  <2>. QED BY <2>1, <2>2
<1>3. ASSUME Once(q), m[1] \notin Asking \/ ~Has(q, Asking) PROVE Once(Append(q, m))
  <2>1. ASSUME NEW i \in 1 .. Len(Append(q, m)), NEW j \in 1 .. Len(Append(q, m)),
               Append(q, m)[i][1] \in Asking, Append(q, m)[j][1] \in Asking
        PROVE  i = j
    <3>1. CASE i \in 1 .. Len(q) /\ j \in 1 .. Len(q)
      BY <1>1, <1>3, <2>1, <3>1 DEF Once
    <3>2. CASE i = Len(q) + 1 /\ j = Len(q) + 1
      BY <3>2
    <3>3. CASE i = Len(q) + 1 /\ j \in 1 .. Len(q)
      BY <1>1, <1>3, <2>1, <3>3 DEF Has
    <3>4. CASE i \in 1 .. Len(q) /\ j = Len(q) + 1
      BY <1>1, <1>3, <2>1, <3>4 DEF Has
    <3>5. /\ i \in 1 .. Len(q) \/ i = Len(q) + 1
          /\ j \in 1 .. Len(q) \/ j = Len(q) + 1
      BY <1>1
    <3>. QED BY <3>1, <3>2, <3>3, <3>4, <3>5
  <2>. QED BY <2>1 DEF Once
<1>. QED BY <1>1, <1>2, <1>3

\* A queue after its head has been taken.
LEMMA QueueTail ==
    ASSUME NEW S, NEW q \in Seq(S), q # <<>>
    PROVE  /\ Tail(q) \in Seq(S) /\ Head(q) \in S
           /\ \A types : Has(Tail(q), types) => Has(q, types)
           /\ \A types : Head(q)[1] \in types => Has(q, types)
           /\ Once(q) => Once(Tail(q))
           /\ Once(q) /\ Head(q)[1] \in Asking => ~Has(Tail(q), Asking)
<1>1. /\ Tail(q) \in Seq(S) /\ Head(q) \in S /\ Head(q) = q[1]
      /\ Len(q) \in Nat \ {0} /\ Len(Tail(q)) = Len(q) - 1
      /\ \A i \in 1 .. Len(Tail(q)) : Tail(q)[i] = q[i + 1]
  BY HeadTailProperties, LenProperties, EmptySeq
<1>2. \A i \in 1 .. Len(Tail(q)) : i + 1 \in 1 .. Len(q) /\ i + 1 # 1
  BY <1>1
<1>3. 1 \in 1 .. Len(q)
  BY <1>1
<1>4. \A types : Has(Tail(q), types) => Has(q, types)
  BY <1>1, <1>2 DEF Has
<1>5. \A types : Head(q)[1] \in types => Has(q, types)
  BY <1>1, <1>3 DEF Has
<1>6. ASSUME Once(q) PROVE Once(Tail(q))
  <2>1. ASSUME NEW i \in 1 .. Len(Tail(q)), NEW j \in 1 .. Len(Tail(q)),
               Tail(q)[i][1] \in Asking, Tail(q)[j][1] \in Asking
        PROVE  i = j
    <3>1. i + 1 = j + 1
      BY <1>1, <1>2, <1>6, <2>1 DEF Once
    <3>. QED BY <1>1, <3>1
  <2>. QED BY <2>1 DEF Once
<1>7. ASSUME Once(q), Head(q)[1] \in Asking PROVE ~Has(Tail(q), Asking)
  BY <1>1, <1>2, <1>3, <1>7 DEF Once, Has
<1>. QED BY <1>1, <1>4, <1>5, <1>6, <1>7

\* Few messages ask for nothing.
LEMMA QueueShort ==
    /\ \A types : ~Has(<<>>, types)
    /\ Once(<<>>)
    /\ \A m : Once(<<m>>)
    /\ \A m, types : Has(<<m>>, types) <=> m[1] \in types
BY DEF Has, Once

\* How many requests there are.
LEMMA AskedFinite ==
    ASSUME NEW S, NEW q \in Seq(S)
    PROVE  IsFiniteSet(Asked(q)) /\ Cardinality(Asked(q)) \in Nat
<1>1. IsFiniteSet(1 .. Len(q))
  BY FS_Interval, LenProperties
<1>2. IsFiniteSet(Asked(q))
  BY <1>1, FS_Subset DEF Asked
<1>. QED BY <1>2, FS_CardinalityType

LEMMA AskedAppend ==
    ASSUME NEW S, NEW q \in Seq(S), NEW m \in S
    PROVE  Cardinality(Asked(Append(q, m)))
             = Cardinality(Asked(q)) + (IF m[1] \in Asking THEN 1 ELSE 0)
<1>1. /\ Len(q) \in Nat
      /\ Len(Append(q, m)) = Len(q) + 1
      /\ \A i \in 1 .. Len(q) : Append(q, m)[i] = q[i]
      /\ Append(q, m)[Len(q) + 1] = m
  BY AppendProperties, LenProperties
<1>2. 1 .. Len(Append(q, m)) = (1 .. Len(q)) \cup {Len(q) + 1}
  BY <1>1
<1>3. CASE m[1] \in Asking
  <2>1. Asked(Append(q, m)) = Asked(q) \cup {Len(q) + 1}
    BY <1>1, <1>2, <1>3 DEF Asked
  <2>2. Len(q) + 1 \notin Asked(q)
    BY <1>1 DEF Asked
  <2>. QED BY <1>3, <2>1, <2>2, AskedFinite, FS_AddElement
<1>4. CASE m[1] \notin Asking
  <2>1. Asked(Append(q, m)) = Asked(q)
    BY <1>1, <1>2, <1>4 DEF Asked
  <2>. QED BY <1>4, <2>1, AskedFinite
<1>. QED BY <1>3, <1>4

LEMMA AskedTail ==
    ASSUME NEW S, NEW q \in Seq(S), q # <<>>
    PROVE  Cardinality(Asked(q))
             = Cardinality(Asked(Tail(q))) + (IF Head(q)[1] \in Asking THEN 1 ELSE 0)
<1>1. /\ Tail(q) \in Seq(S) /\ Head(q) = q[1]
      /\ Len(q) \in Nat \ {0} /\ Len(Tail(q)) = Len(q) - 1
      /\ \A i \in 1 .. Len(Tail(q)) : Tail(q)[i] = q[i + 1]
  BY HeadTailProperties, LenProperties, EmptySeq
<1>. DEFINE rest == Asked(q) \ {1}
            shift == [i \in Asked(Tail(q)) |-> i + 1]
<1>2. /\ IsFiniteSet(rest) /\ IsFiniteSet(Asked(Tail(q)))
      /\ Cardinality(rest) \in Nat /\ Cardinality(Asked(Tail(q))) \in Nat
  BY <1>1, AskedFinite, FS_Subset, FS_CardinalityType
<1>3. shift \in Bijection(Asked(Tail(q)), rest)
  <2>1. \A i \in Asked(Tail(q)) : i \in Nat /\ i + 1 \in rest
    BY <1>1 DEF Asked
  <2>2. ASSUME NEW j \in rest PROVE \E i \in Asked(Tail(q)) : shift[i] = j
    <3>1. j - 1 \in Asked(Tail(q)) /\ (j - 1) + 1 = j
      BY <1>1 DEF Asked
    <3>. QED BY <3>1
  <2>3. shift \in [Asked(Tail(q)) -> rest]
    BY <2>1
  <2>4. \A i, j \in Asked(Tail(q)) : shift[i] = shift[j] => i = j
    BY <2>1
  <2>5. shift \in Surjection(Asked(Tail(q)), rest)
    BY <2>2, <2>3, Fun_IsSurj
  <2>6. shift \in Injection(Asked(Tail(q)), rest)
    BY <2>3, <2>4, Fun_IsInj
  <2>. QED BY <2>5, <2>6 DEF Bijection
<1>4. Cardinality(rest) = Cardinality(Asked(Tail(q)))
  BY <1>2, <1>3, FS_Bijection DEF ExistsBijection
<1>5. 1 \in Asked(q) <=> Head(q)[1] \in Asking
  BY <1>1 DEF Asked
<1>6. CASE 1 \in Asked(q)
  <2>1. Cardinality(rest) = Cardinality(Asked(q)) - 1
    BY <1>6, AskedFinite, FS_RemoveElement
  <2>. QED BY <1>2, <1>4, <1>5, <1>6, <2>1, AskedFinite
<1>7. CASE 1 \notin Asked(q)
  <2>1. Cardinality(rest) = Cardinality(Asked(q))
    <3>1. rest = Asked(q)
      BY <1>7
    <3>. QED BY <3>1
  <2>2. Head(q)[1] \notin Asking
    BY <1>5, <1>7
  <2>. HIDE DEF rest
  <2>. QED BY <1>2, <1>4, <2>1, <2>2
<1>. QED BY <1>6, <1>7

LEMMA AskedShort ==
    /\ Cardinality(Asked(<<>>)) = 0
    /\ \A m : Cardinality(Asked(<<m>>)) <= 1
<1>1. Asked(<<>>) = {}
  BY DEF Asked
<1>2. ASSUME NEW m PROVE Cardinality(Asked(<<m>>)) <= 1
  <2>1. Asked(<<m>>) \subseteq {1}
    BY DEF Asked
  <2>2. Cardinality({1}) = 1 /\ IsFiniteSet({1})
    BY FS_Singleton
  <2>3. Cardinality(Asked(<<m>>)) <= Cardinality({1})
    BY <2>1, <2>2, FS_Subset
  <2>. QED BY <2>2, <2>3
<1>. QED BY <1>1, <1>2, FS_EmptySet
-----------------------------------------------------------------------------
(* Type correctness.                                                       *)

\* A message has been put into a queue to the server or to the tab, or taken
\* out of one.
LEMMA SendTypes ==
    ASSUME TabTypes, MessageTypes, NEW m \in Up, Send(m)
    PROVE  /\ up' \in [Sessions -> Seq(Up)]
           /\ \A s \in Sessions :
                \/ up'[s] = up[s]
                \/ s = ws /\ sock[s] = "open" /\ up'[s] = Append(up[s], m)
<1>1. CASE ws # none /\ sock[ws] = "open"
  <2>1. ws \in Sessions /\ up' = [up EXCEPT ![ws] = Append(up[ws], m)]
    BY <1>1 DEF Send, TabTypes
  <2>2. Append(up[ws], m) \in Seq(Up)
    BY <2>1, AppendProperties DEF MessageTypes
  <2>. QED BY <1>1, <2>1, <2>2 DEF MessageTypes
<1>2. CASE ~(ws # none /\ sock[ws] = "open")
  <2>1. up' = up
    BY <1>2 DEF Send
  <2>. QED BY <2>1 DEF MessageTypes
<1>. QED BY <1>1, <1>2

LEMMA SendDownTypes ==
    ASSUME MessageTypes, NEW t, NEW m \in Down, SendDown(t, m)
    PROVE  /\ down' \in [Sessions -> Seq(Down)]
           /\ \A s \in Sessions :
                \/ down'[s] = down[s]
                \/ s = t /\ conn[s] = "open" /\ down'[s] = Append(down[s], m)
<1>1. CASE t \in Sessions /\ conn[t] = "open"
  <2>1. down' = [down EXCEPT ![t] = Append(down[t], m)]
    BY <1>1 DEF SendDown
  <2>2. Append(down[t], m) \in Seq(Down)
    BY <1>1, AppendProperties DEF MessageTypes
  <2>. QED BY <1>1, <2>1, <2>2 DEF MessageTypes
<1>2. CASE ~(t \in Sessions /\ conn[t] = "open")
  <2>1. down' = down
    BY <1>2 DEF SendDown, MessageTypes
  <2>. QED BY <2>1 DEF MessageTypes
<1>. QED BY <1>1, <1>2

LEMMA ReceivedTypes ==
    ASSUME MessageTypes, NEW s \in Sessions, NEW m, Received(s, m)
    PROVE  /\ down' \in [Sessions -> Seq(Down)]
           /\ \A r \in Sessions : r # s => down'[r] = down[r]
           /\ down[s] # <<>> /\ Head(down[s]) = m /\ down'[s] = Tail(down[s])
<1>1. down[s] \in Seq(Down) /\ down[s] # <<>> /\ down' = [down EXCEPT ![s] = Tail(down[s])]
  BY DEF MessageTypes, Received
<1>2. Tail(down[s]) \in Seq(Down)
  BY <1>1, HeadTailProperties
<1>. QED BY <1>1, <1>2 DEF MessageTypes, Received

LEMMA ReadsTypes ==
    ASSUME MessageTypes, NEW s \in Sessions, NEW m, Reads(s, m)
    PROVE  /\ up' \in [Sessions -> Seq(Up)]
           /\ \A r \in Sessions : r # s => up'[r] = up[r]
           /\ up[s] # <<>> /\ Head(up[s]) = m /\ up'[s] = Tail(up[s])
<1>1. up[s] \in Seq(Up) /\ up[s] # <<>> /\ up' = [up EXCEPT ![s] = Tail(up[s])]
  BY DEF MessageTypes, Reads
<1>2. Tail(up[s]) \in Seq(Up)
  BY <1>1, HeadTailProperties
<1>. QED BY <1>1, <1>2 DEF MessageTypes, Reads

\* An operation of the chain that waited.
LEMMA QueuedTypes ==
    ASSUME TabTypes, NEW n \in 1 .. Len(pending)
    PROVE  Queued(n) \in [offer : PCs, queued : BOOLEAN]
<1>1. pending[n] \in PCs
  BY ElementOfSeq DEF TabTypes
<1>. QED BY <1>1 DEF Queued

LEMMA OfferTypes == ASSUME TabTypes, ops # <<>> PROVE Head(ops).offer \in PCs
<1>1. Head(ops) \in [offer : PCs, queued : BOOLEAN]
  BY HeadTailProperties DEF TabTypes
<1>. QED BY <1>1

\* What the parts of the tab's actions leave the tab in.
LEMMA CleanupTypes ==
    ASSUME TabTypes, NEW socks, Cleanup(socks), loading' \in BOOLEAN,
           socks \in [Sessions -> {"none", "connecting", "open", "closing", "closed"}]
    PROVE  TabTypes'
<1>1. /\ pc' = FALSE /\ described' = none /\ ice' = FALSE /\ ops' = <<>> /\ cursor' = 0
      /\ timer' = FALSE /\ ws' = none /\ ui' = "overlay" /\ poll' = FALSE
      /\ UNCHANGED <<stray, pending, retries, reconnects, restarts, late>>
  BY DEF Cleanup, ClosePC, tries
<1>2. sock' \in [Sessions -> {"none", "connecting", "open", "closing", "closed"}]
  BY DEF Cleanup
<1>3. cursor' \in 0 .. Len(pending')
  BY <1>1, LenProperties DEF TabTypes
<1>4. ops' \in Seq([offer : PCs, queued : BOOLEAN])
  BY <1>1, EmptySeq
<1>. QED BY <1>1, <1>2, <1>3, <1>4 DEF TabTypes

LEMMA InitPCTypes ==
    ASSUME TabTypes, InitPeerConnection, UNCHANGED <<pending, ws, sock, tries, poll, late>>,
           ui' \in {"overlay", "stream"}, loading' \in BOOLEAN
    PROVE  TabTypes'
<1>1. /\ pc' = TRUE /\ described' = none /\ ice' = FALSE /\ timer' = TRUE
      /\ stray' = (stray \/ pc)
      /\ UNCHANGED <<pending, ws, sock, retries, reconnects, restarts, poll, late>>
  BY DEF InitPeerConnection, tries
<1>2. ops' \in Seq([offer : PCs, queued : BOOLEAN]) /\ cursor' \in 0 .. Len(pending)
  <2>1. CASE pending = <<>>
    BY <2>1, EmptySeq, LenProperties DEF InitPeerConnection, TabTypes
  <2>2. CASE pending # <<>>
    <3>1. 1 \in 1 .. Len(pending) /\ 1 \in 0 .. Len(pending)
      BY <2>2, EmptySeq, LenProperties DEF TabTypes
    <3>2. Queued(1) \in [offer : PCs, queued : BOOLEAN]
      BY <3>1, QueuedTypes
    <3>3. ops' = <<Queued(1)>> /\ cursor' = 1
      BY <2>2 DEF InitPeerConnection
    <3>. QED BY <3>1, <3>2, <3>3
  <2>. QED BY <2>1, <2>2
<1>. QED BY <1>1, <1>2 DEF TabTypes

LEMMA NextQueuedTypes ==
    ASSUME TabTypes, ops # <<>>, NextQueued
    PROVE  /\ ops' \in Seq([offer : PCs, queued : BOOLEAN])
           /\ pending' \in Seq(PCs) /\ cursor' \in 0 .. Len(pending')
<1>1. Tail(ops) \in Seq([offer : PCs, queued : BOOLEAN])
  BY HeadTailProperties DEF TabTypes
<1>2. CASE ~Head(ops).queued
  BY <1>1, <1>2 DEF NextQueued, TabTypes
<1>3. CASE Head(ops).queued /\ cursor < Len(pending)
  <2>1. cursor + 1 \in 1 .. Len(pending) /\ cursor + 1 \in 0 .. Len(pending)
    BY <1>3, LenProperties DEF TabTypes
  <2>2. Queued(cursor + 1) \in [offer : PCs, queued : BOOLEAN]
    BY <2>1, QueuedTypes
  <2>3. /\ ops' = Append(Tail(ops), Queued(cursor + 1))
        /\ cursor' = cursor + 1 /\ pending' = pending
    BY <1>3 DEF NextQueued
  <2>4. ops' \in Seq([offer : PCs, queued : BOOLEAN])
    BY <1>1, <2>2, <2>3, AppendProperties
  <2>. QED BY <2>1, <2>3, <2>4 DEF TabTypes
<1>4. CASE Head(ops).queued /\ ~(cursor < Len(pending))
  BY <1>1, <1>4, EmptySeq DEF NextQueued
<1>. QED BY <1>2, <1>3, <1>4
\* The server's steps.
Server ==
    \/ Setup
    \/ \E s \in Sessions : ReadLoop(s) \/ ReadError(s) \/ Teardown(s)
    \/ \E g \in PCs : Callback(g) \/ PCFails(g)

LEMMA ServerKeepsTab == Server => UNCHANGED tabVars
BY DEF Server, Setup, CreatePC, CreateFails, SetupFails, Watch, Describe, Offer, ReadLoop,
       ReadJoin, ReadLeave, ReadAnswer, ReadRestart, ReadReconnect, CloseOld, DropOld, StartSetup, Reply, ReadError, Teardown,
       Callback, PCFails

LEMMA TabTypesNext == Types /\ [Next]_vars => TabTypes'
<1>. SUFFICES ASSUME Types, [Next]_vars PROVE TabTypes'
  OBVIOUS
<1>. USE DEF Types
<1>1. CASE UNCHANGED tabVars
  BY <1>1 DEF tabVars, page, pcVars, health, tries, TabTypes
<1>2. ASSUME NEW s \in Sessions, Connect(s) PROVE TabTypes'
  BY <1>2 DEF Connect, pcVars, health, tries, TabTypes
<1>3. ASSUME NEW s \in Sessions, Opened(s) PROVE TabTypes'
  BY <1>3 DEF Opened, pcVars, health, tries, TabTypes
<1>4. ASSUME NEW s \in Sessions, OpenFails(s) PROVE TabTypes'
  BY <1>4, CleanupTypes DEF OpenFails, TabTypes
<1>5. ASSUME NEW s \in Sessions, CloseEvent(s) PROVE TabTypes'
  BY <1>5, CleanupTypes DEF CloseEvent, TabTypes
<1>6. ASSUME NEW s \in Sessions, ReceiveWelcome(s) PROVE TabTypes'
  BY <1>6, InitPCTypes DEF ReceiveWelcome
<1>7. ASSUME NEW s \in Sessions, ReceiveReconnected(s) PROVE TabTypes'
  BY <1>7, InitPCTypes DEF ReceiveReconnected, page, TabTypes
<1>8. ASSUME NEW s \in Sessions, ReceiveOffer(s) PROVE TabTypes'
  <2>1. PICK g \in PCs :
          /\ IF pc
             THEN /\ ops' = Append(ops, [offer |-> g, queued |-> FALSE])
                  /\ UNCHANGED pending
             ELSE /\ pending' = Append(pending, g)
                  /\ UNCHANGED ops
          /\ UNCHANGED <<page, pc, described, ice, cursor, stray, health>>
    BY <1>8 DEF ReceiveOffer
  <2>2. [offer |-> g, queued |-> FALSE] \in [offer : PCs, queued : BOOLEAN]
    OBVIOUS
  <2>3. ops' \in Seq([offer : PCs, queued : BOOLEAN])
    <3>1. Append(ops, [offer |-> g, queued |-> FALSE]) \in Seq([offer : PCs, queued : BOOLEAN])
      BY <2>2, AppendProperties DEF TabTypes
    <3>. QED BY <2>1, <3>1 DEF TabTypes
  <2>4. pending' \in Seq(PCs) /\ Len(pending') >= Len(pending)
    BY <2>1, AppendProperties, LenProperties, SMTT(30) DEF TabTypes
  <2>5. cursor' \in 0 .. Len(pending')
    BY <2>1, <2>4, LenProperties DEF TabTypes
  <2>. QED BY <2>1, <2>3, <2>4, <2>5 DEF page, health, tries, TabTypes
<1>9. CASE Leave
  BY <1>9, CleanupTypes DEF Leave, TabTypes
<1>10. CASE Answer
  <2>1. Head(ops).offer \in PCs
    BY <1>10, OfferTypes DEF Answer
  <2>2. ice' \in BOOLEAN /\ described' \in PCs
    BY <1>10, <2>1 DEF Answer
  <2>. QED BY <1>10, <2>2, NextQueuedTypes DEF Answer, page, health, tries, TabTypes
<1>11. CASE AnswerFails
  BY <1>11, NextQueuedTypes DEF AnswerFails, page, health, tries, TabTypes
<1>12. CASE IceConnects
  <2>1. /\ ice' = TRUE /\ timer' = FALSE /\ retries' = 0
        /\ UNCHANGED <<ui, loading, ws, sock, pc, described, ops, cursor, stray, pending,
                       reconnects, restarts, poll, late>>
    BY <1>12 DEF IceConnects, page
  <2>2. retries' \in 0 .. MaxRetries
    BY <2>1, SessionAssumption
  <2>. QED BY <2>1, <2>2 DEF TabTypes
<1>13. CASE IceFails
  <2>1. CASE retries = MaxRetries
    BY <1>13, <2>1 DEF IceFails, page, pcVars, TabTypes
  <2>2. CASE retries # MaxRetries
    <3>1. /\ pc' = FALSE /\ described' = none /\ ice' = FALSE /\ ops' = <<>> /\ cursor' = 0
          /\ timer' = FALSE
          /\ reconnects < MaxReconnects /\ reconnects' = reconnects + 1 /\ retries' = retries + 1
          /\ UNCHANGED <<stray, ui, loading, ws, sock, pending, restarts, poll, late>>
      BY <1>13, <2>2 DEF IceFails, FailurePC, ClosePC, page
    <3>2. /\ reconnects' \in 0 .. MaxReconnects /\ retries' \in 0 .. MaxRetries
          /\ cursor' \in 0 .. Len(pending)
      BY <2>2, <3>1, SessionAssumption, LenProperties DEF TabTypes
    <3>3. ops' \in Seq([offer : PCs, queued : BOOLEAN])
      BY <3>1, EmptySeq
    <3>. QED BY <3>1, <3>2, <3>3 DEF TabTypes
  <2>. QED BY <2>1, <2>2
<1>14. CASE PollStats
  BY <1>14 DEF PollStats, page, pcVars, tries, TabTypes
<1>15. CASE VideoFreezes
  <2>1. /\ pc' = FALSE /\ described' = none /\ ice' = FALSE /\ ops' = <<>> /\ cursor' = 0
        /\ poll' = FALSE /\ late' = (late \/ ~pc)
        /\ reconnects < MaxReconnects /\ reconnects' = reconnects + 1
        /\ UNCHANGED <<stray, ui, loading, ws, sock, pending, restarts, timer, retries>>
    BY <1>15 DEF VideoFreezes, ClosePC, page
  <2>2. reconnects' \in 0 .. MaxReconnects /\ cursor' \in 0 .. Len(pending)
    BY <2>1, SessionAssumption, LenProperties DEF TabTypes
  <2>3. ops' \in Seq([offer : PCs, queued : BOOLEAN])
    BY <2>1, EmptySeq
  <2>. QED BY <2>1, <2>2, <2>3 DEF TabTypes
<1>16. CASE PathRegresses
  BY <1>16, SessionAssumption DEF PathRegresses, page, pcVars, TabTypes
<1>17. CASE Tab
  BY <1>2, <1>3, <1>4, <1>5, <1>6, <1>7, <1>8, <1>9, <1>10, <1>11, <1>12, <1>13, <1>14, <1>15,
     <1>16, <1>17 DEF Tab
<1>. QED BY <1>1, <1>17, ServerKeepsTab DEF Next, Server, vars

LEMMA MessageTypesNext == Types /\ [Next]_vars => MessageTypes'
<1>. SUFFICES ASSUME Types, [Next]_vars PROVE MessageTypes'
  OBVIOUS
<1>. USE DEF Types
<1>1. CASE UNCHANGED messages
  BY <1>1 DEF messages, MessageTypes
<1>2. ASSUME NEW s \in Sessions, Connect(s) PROVE MessageTypes'
  BY <1>2, EmptySeq DEF Connect, Forget, MessageTypes
<1>3. ASSUME NEW s \in Sessions, Opened(s) PROVE MessageTypes'
  <2>1. <<Plain("join")>> \in Seq(Up)
    BY Messages
  <2>. QED BY <1>3, <2>1 DEF Opened, MessageTypes
<1>4. ASSUME NEW m \in Up, Send(m), UNCHANGED down PROVE MessageTypes'
  BY <1>4, SendTypes DEF MessageTypes
<1>5. ASSUME NEW s \in Sessions, NEW m, Received(s, m), UNCHANGED up PROVE MessageTypes'
  BY <1>5, ReceivedTypes DEF MessageTypes
<1>6. CASE Tab
  <2>1. ASSUME NEW s \in Sessions, ReceiveWelcome(s) \/ ReceiveReconnected(s) \/ ReceiveOffer(s)
        PROVE  MessageTypes'
    BY <1>5, <2>1 DEF ReceiveWelcome, ReceiveReconnected, ReceiveOffer
  <2>2. ASSUME Leave \/ IceFails \/ VideoFreezes \/ PathRegresses PROVE MessageTypes'
    BY <1>1, <1>4, <2>2, Messages
       DEF Leave, IceFails, VideoFreezes, PathRegresses, messages
  <2>3. CASE Answer
    <3>1. Head(ops).offer \in PCs
      BY <2>3, OfferTypes DEF Answer
    <3>. QED BY <1>4, <2>3, <3>1, Messages DEF Answer
  <2>4. ASSUME NEW s \in Sessions, OpenFails(s) \/ CloseEvent(s) PROVE UNCHANGED messages
    BY <2>4 DEF OpenFails, CloseEvent
  <2>5. ASSUME AnswerFails \/ IceConnects \/ PollStats PROVE UNCHANGED messages
    BY <2>5 DEF AnswerFails, IceConnects, PollStats
  <2>. QED BY <1>1, <1>2, <1>3, <1>6, <2>1, <2>2, <2>3, <2>4, <2>5 DEF Tab
<1>7. CASE Server
  <2>1. ASSUME NEW s \in Sessions, NEW m, Reads(s, m), UNCHANGED down PROVE MessageTypes'
    BY <2>1, ReadsTypes DEF MessageTypes
  <2>2. ASSUME NEW t, NEW m \in Down, SendDown(t, m), UNCHANGED up PROVE MessageTypes'
    BY <2>2, SendDownTypes DEF MessageTypes
  <2>3. ASSUME NEW s \in Sessions, NEW r, Reads(s, r), NEW t, NEW m \in Down, SendDown(t, m)
        PROVE  MessageTypes'
    BY <2>3, ReadsTypes, SendDownTypes DEF MessageTypes
  <2>4. ASSUME NEW s \in Sessions, ReadError(s) PROVE MessageTypes'
    BY <2>4, EmptySeq DEF ReadError, MessageTypes
  <2>5. ASSUME NEW s \in Sessions, ReadJoin(s) PROVE MessageTypes'
    BY <2>3, <2>5, Messages DEF ReadJoin
  <2>6. ASSUME NEW s \in Sessions, ReadLeave(s) \/ ReadAnswer(s) \/ ReadReconnect(s)
        PROVE  MessageTypes'
    BY <2>1, <2>6 DEF ReadLeave, ReadAnswer, ReadReconnect
  <2>7. ASSUME NEW s \in Sessions, ReadRestart(s) PROVE MessageTypes'
    <3>1. CASE s \in member /\ peerPC[s] \in open \ offering
      <4>1. SDP(peerPC[s]) \in Down /\ SendDown(s, SDP(peerPC[s]))
        BY <2>7, <3>1, Messages DEF ReadRestart, ServerTypes
      <4>. QED BY <2>3, <2>7, <4>1 DEF ReadRestart
    <3>2. CASE ~(s \in member /\ peerPC[s] \in open \ offering)
      BY <2>1, <2>7, <3>2 DEF ReadRestart
    <3>. QED BY <3>1, <3>2
  <2>8. ASSUME NEW s \in Sessions, Reply(s) PROVE MessageTypes'
    BY <2>2, <2>8, Messages DEF Reply, SendReply
  <2>9. ASSUME NEW g \in PCs, Offer(g) PROVE MessageTypes'
    BY <2>2, <2>9, Messages DEF Offer
  <2>10. ASSUME NEW s \in Sessions,
                \/ CreatePC(s) \/ CreateFails(s)
                \/ CloseOld(s) \/ DropOld(s) \/ StartSetup(s) \/ Teardown(s)
         PROVE  UNCHANGED messages
    BY <2>10 DEF CreatePC, CreateFails, CloseOld, DropOld, StartSetup, Teardown
  <2>11. ASSUME NEW g \in PCs,
                Watch(g) \/ Describe(g) \/ SetupFails(g) \/ Callback(g) \/ PCFails(g)
         PROVE  UNCHANGED messages
    BY <2>11 DEF Watch, Describe, SetupFails, Callback, PCFails
  <2>. QED BY <1>1, <1>7, <2>4, <2>5, <2>6, <2>7, <2>8, <2>9, <2>10, <2>11
           DEF Server, Setup, ReadLoop
<1>. QED BY <1>1, <1>6, <1>7 DEF Next, Server, vars

LEMMA ServerTypesNext == Types /\ [Next]_vars => ServerTypes'
<1>. SUFFICES ASSUME Types, [Next]_vars PROVE ServerTypes'
  OBVIOUS
<1>. USE DEF Types
<1>1. CASE UNCHANGED serverVars
  BY <1>1 DEF serverVars, roomVars, roster, setups, pion, ServerTypes
<1>2. ASSUME NEW s \in Sessions, Connect(s) PROVE ServerTypes'
  BY <1>2 DEF Connect, Forget, roomVars, roster, Stages, ServerTypes
<1>3. ASSUME NEW s \in Sessions, Opened(s) PROVE ServerTypes'
  BY <1>3 DEF Opened, roster, setups, pion, ServerTypes
<1>4. CASE Tab
  <2>1. ASSUME NEW s \in Sessions,
               \/ OpenFails(s) \/ CloseEvent(s)
               \/ ReceiveWelcome(s) \/ ReceiveReconnected(s) \/ ReceiveOffer(s)
        PROVE  UNCHANGED serverVars
    BY <2>1 DEF OpenFails, CloseEvent, ReceiveWelcome, ReceiveReconnected, ReceiveOffer
  <2>2. ASSUME \/ Leave \/ Answer \/ AnswerFails
               \/ IceConnects \/ IceFails \/ PollStats \/ VideoFreezes \/ PathRegresses
        PROVE  UNCHANGED serverVars
    BY <2>2 DEF Leave, Answer, AnswerFails, IceConnects, IceFails, PollStats, VideoFreezes,
                PathRegresses
  <2>. QED BY <1>1, <1>2, <1>3, <1>4, <2>1, <2>2 DEF Tab
<1>5. ASSUME NEW s \in Sessions, CreatePC(s) PROVE ServerTypes'
  BY <1>5 DEF CreatePC, roomVars, roster, Stages, ServerTypes
<1>6. ASSUME NEW g \in PCs, Watch(g) PROVE ServerTypes'
  BY <1>6 DEF Watch, Advance, roomVars, roster, pion, Stages, ServerTypes
<1>7. ASSUME NEW g \in PCs, Describe(g) PROVE ServerTypes'
  BY <1>7 DEF Describe, Advance, roomVars, roster, Stages, ServerTypes
<1>8. ASSUME NEW g \in PCs, Offer(g) PROVE ServerTypes'
  BY <1>8 DEF Offer, roomVars, roster, pion, Stages, ServerTypes
<1>9. ASSUME NEW s \in Sessions, ReadJoin(s) PROVE ServerTypes'
  BY <1>9 DEF ReadJoin, pion, ServerTypes
<1>10. ASSUME NEW s \in Sessions, ReadLeave(s) PROVE ServerTypes'
  BY <1>10 DEF ReadLeave, Remove, setups, pion, ServerTypes
<1>11. ASSUME NEW s \in Sessions, ReadAnswer(s) PROVE ServerTypes'
  BY <1>11 DEF ReadAnswer, roomVars, roster, setups, ServerTypes
<1>12. ASSUME NEW s \in Sessions, ReadRestart(s) PROVE ServerTypes'
  BY <1>12 DEF ReadRestart, roomVars, roster, setups, ServerTypes
<1>13. ASSUME NEW s \in Sessions, ReadReconnect(s) PROVE ServerTypes'
  BY <1>13 DEF ReadReconnect, roster, setups, pion, ServerTypes
<1>14. ASSUME NEW s \in Sessions, CloseOld(s) PROVE ServerTypes'
  BY <1>14 DEF CloseOld, Close, roster, setups, ServerTypes
<1>15. ASSUME NEW s \in Sessions, DropOld(s) PROVE ServerTypes'
  BY <1>15 DEF DropOld, roster, pion, ServerTypes
<1>16. ASSUME NEW s \in Sessions, StartSetup(s) PROVE ServerTypes'
  BY <1>16 DEF StartSetup, roster, pion, ServerTypes
<1>17. ASSUME NEW s \in Sessions, Reply(s) PROVE ServerTypes'
  BY <1>17 DEF Reply, roster, setups, pion, ServerTypes
<1>18. ASSUME NEW s \in Sessions, ReadError(s) PROVE ServerTypes'
  BY <1>18 DEF ReadError, Remove, setups, pion, ServerTypes
<1>19. ASSUME NEW s \in Sessions, Teardown(s) PROVE ServerTypes'
  BY <1>19 DEF Teardown, SocketClose, Close, setups, ServerTypes
<1>20. ASSUME NEW g \in PCs, Callback(g) PROVE ServerTypes'
  BY <1>20 DEF Callback, Remove, setups, ServerTypes
<1>21. ASSUME NEW g \in PCs, PCFails(g) PROVE ServerTypes'
  BY <1>21 DEF PCFails, roomVars, roster, setups, ServerTypes
<1>22. ASSUME NEW s \in Sessions, CreateFails(s) PROVE ServerTypes'
  BY <1>22 DEF CreateFails, roomVars, roster, pion, ServerTypes
<1>23. ASSUME NEW g \in PCs, SetupFails(g) PROVE ServerTypes'
  BY <1>23 DEF SetupFails, roomVars, roster, pion, Stages, ServerTypes
<1>24. CASE Server
  BY <1>5, <1>6, <1>7, <1>8, <1>9, <1>10, <1>11, <1>12, <1>13, <1>14, <1>15, <1>16, <1>17, <1>18,
     <1>19, <1>20, <1>21, <1>22, <1>23, <1>24 DEF Server, Setup, ReadLoop
<1>. QED BY <1>1, <1>4, <1>24 DEF Next, Server, vars
-----------------------------------------------------------------------------
(* The tab's state, and what its steps change of the rest.                 *)

\* After a clean-up no session is the tab's, and none is opened any more.
LEMMA CleanupEffect ==
    ASSUME TabTypes, TabInv, NEW socks, Cleanup(socks),
           socks \in [Sessions -> {"none", "connecting", "open", "closing", "closed"}],
           \A s \in Sessions : socks[s] = sock[s] \/ socks[s] = "closed"
    PROVE  /\ TabInv' /\ ws' = none /\ pc' = FALSE
           /\ UNCHANGED <<stray, late, reconnects>>
           /\ \A s \in Sessions :
                sock'[s] # "connecting" /\ (sock'[s] = "none" => sock[s] = "none")
<1>1. /\ pc' = FALSE /\ ws' = none /\ ui' = "overlay" /\ poll' = FALSE
      /\ sock' = IF ws # none /\ socks[ws] \in {"connecting", "open"}
                 THEN [socks EXCEPT ![ws] = "closing"] ELSE socks
      /\ UNCHANGED <<stray, late, reconnects>>
  BY DEF Cleanup, ClosePC, tries
<1>2. ASSUME NEW s \in Sessions
      PROVE  /\ sock'[s] \notin {"connecting", "open"}
             /\ sock'[s] = "none" => sock[s] = "none"
  <2>1. CASE socks[s] \in {"connecting", "open"}
    <3>1. ws = s /\ s # none
      BY <2>1, Numbers DEF TabInv
    <3>. QED BY <1>1, <2>1, <3>1
  <2>2. CASE socks[s] \notin {"connecting", "open"}
    BY <1>1, <2>2
  <2>. QED BY <2>1, <2>2
<1>. QED BY <1>1, <1>2 DEF TabInv

\* A step of the tab that neither makes nor opens a socket leaves the server
\* alone, sends no join, and takes at most one message of the tab's session.
TabOnly ==
    /\ UNCHANGED <<conn, loop, member, tearing, starting, peerPC, owner, stage, open, callback,
                   offering, remote, raced>>
    /\ up' = up \/ \E m \in Up : m # Plain("join") /\ Send(m)
    /\ down' = down \/ \E s \in Sessions, m \in Down : Received(s, m)
    /\ \A s \in Sessions : sock'[s] \in {"none", "connecting"} => sock[s] = sock'[s]

LEMMA TabFrame ==
    ASSUME Types, TabInv, Tab,
           ~\E s \in Sessions : Connect(s) \/ Opened(s)
    PROVE  TabOnly
<1>. USE DEF Types
<1>1. ASSUME UNCHANGED serverVars
      PROVE  UNCHANGED <<conn, loop, member, tearing, starting, peerPC, owner, stage, open,
                         callback, offering, remote, raced>>
  BY <1>1 DEF serverVars, roomVars, roster, setups, pion
<1>2. ASSUME NEW s \in Sessions, OpenFails(s) \/ CloseEvent(s) PROVE TabOnly
  <2>1. Cleanup([sock EXCEPT ![s] = "closed"]) /\ UNCHANGED <<up, down, serverVars>>
    BY <1>2 DEF OpenFails, CloseEvent, messages
  <2>2. \A r \in Sessions : sock'[r] \in {"none", "connecting"} => sock[r] = sock'[r]
    BY <2>1, CleanupEffect DEF TabTypes
  <2>. QED BY <1>1, <2>1, <2>2 DEF TabOnly
<1>3. CASE Leave
  <2>1. /\ Cleanup(sock) /\ Send(Plain("leave")) /\ UNCHANGED <<down, serverVars>>
        /\ Plain("leave") # Plain("join")
    BY <1>3, Messages DEF Leave
  <2>2. \A r \in Sessions : sock'[r] \in {"none", "connecting"} => sock[r] = sock'[r]
    BY <2>1, CleanupEffect DEF TabTypes
  <2>. QED BY <1>1, <2>1, <2>2, Messages DEF TabOnly
<1>4. ASSUME NEW s \in Sessions, ReceiveWelcome(s) \/ ReceiveReconnected(s) \/ ReceiveOffer(s)
      PROVE  TabOnly
  BY <1>1, <1>4, Messages DEF ReceiveWelcome, ReceiveReconnected, ReceiveOffer, TabOnly, page
<1>5. CASE Answer
  <2>1. /\ Send(SDP(Head(ops).offer)) /\ UNCHANGED <<page, down, serverVars>>
        /\ SDP(Head(ops).offer) \in Up /\ SDP(Head(ops).offer) # Plain("join")
    BY <1>5, OfferTypes, Messages DEF Answer
  <2>. QED BY <1>1, <2>1 DEF TabOnly, page
<1>6. CASE AnswerFails \/ IceConnects \/ PollStats
  BY <1>1, <1>6 DEF AnswerFails, IceConnects, PollStats, TabOnly, page, messages
<1>7. CASE IceFails \/ VideoFreezes \/ PathRegresses
  <2>1. /\ \/ up' = up
           \/ Send(Plain("reconnect"))
           \/ Send(Plain("restart"))
        /\ UNCHANGED <<page, down, serverVars>>
    BY <1>7 DEF IceFails, VideoFreezes, PathRegresses
  <2>2. /\ Plain("reconnect") \in Up /\ Plain("reconnect") # Plain("join")
        /\ Plain("restart") \in Up /\ Plain("restart") # Plain("join")
    BY Messages
  <2>. QED BY <1>1, <2>1, <2>2 DEF TabOnly, page
<1>. QED BY <1>2, <1>3, <1>4, <1>5, <1>6, <1>7 DEF Tab

LEMMA TabInvNext == Types /\ TabInv /\ AgainInv /\ [Next]_vars => TabInv'
<1>. SUFFICES ASSUME Types, TabInv, AgainInv, [Next]_vars PROVE TabInv'
  OBVIOUS
<1>. USE DEF Types
<1>1. CASE UNCHANGED tabVars
  BY <1>1 DEF tabVars, page, pcVars, health, TabInv
<1>2. ASSUME NEW s \in Sessions, Connect(s) PROVE TabInv'
  <2>1. /\ ui = "overlay" /\ ~loading /\ ws' = s /\ loading' = TRUE
        /\ sock' = [sock EXCEPT ![s] = "connecting"]
        /\ UNCHANGED <<ui, pc, poll>>
    BY <1>2 DEF Connect, pcVars, health
  <2>2. ws = none
    BY <2>1 DEF TabInv
  <2>3. \A r \in Sessions : sock[r] \notin {"connecting", "open"}
    BY <2>2, Numbers DEF TabInv
  <2>. QED BY <2>1, <2>3 DEF TabInv, TabTypes
<1>3. ASSUME NEW s \in Sessions, Opened(s) PROVE TabInv'
  BY <1>3 DEF Opened, pcVars, health, TabInv, TabTypes
<1>4. ASSUME NEW s \in Sessions, OpenFails(s) \/ CloseEvent(s) PROVE TabInv'
  BY <1>4, CleanupEffect DEF OpenFails, CloseEvent, TabTypes
<1>5. CASE Leave
  BY <1>5, CleanupEffect DEF Leave, TabTypes
<1>6. ASSUME NEW s \in Sessions, ReceiveWelcome(s) PROVE TabInv'
  <2>1. /\ sock[s] = "open" /\ ui' = "stream" /\ UNCHANGED <<ws, sock>>
    BY <1>6 DEF ReceiveWelcome, Received
  <2>. QED BY <2>1 DEF TabInv
<1>7. ASSUME NEW s \in Sessions, ReceiveReconnected(s) PROVE TabInv'
  <2>1. /\ sock[s] = "open" /\ down[s] # <<>> /\ Head(down[s]) = Plain("reconnected")
        /\ UNCHANGED <<ui, loading, ws, sock>>
    BY <1>7 DEF ReceiveReconnected, Received, page
  <2>2. Has(down[s], Again)
    <3>1. Head(down[s])[1] \in Again
      BY <2>1, Messages DEF Again
    <3>. QED BY <2>1, <3>1, QueueTail DEF MessageTypes
  <2>3. ui = "stream"
    BY <2>1, <2>2 DEF TabInv, AgainInv
  <2>. QED BY <2>1, <2>3 DEF TabInv
<1>8. ASSUME NEW s \in Sessions, ReceiveOffer(s) PROVE TabInv'
  BY <1>8 DEF ReceiveOffer, page, health, TabInv
<1>9. CASE Answer \/ AnswerFails \/ IceConnects \/ PathRegresses \/ PollStats
  BY <1>9 DEF Answer, AnswerFails, IceConnects, PathRegresses, PollStats, page, pcVars, health, TabInv
<1>10. CASE IceFails \/ VideoFreezes
  BY <1>10 DEF IceFails, VideoFreezes, FailurePC, ClosePC, page, pcVars, TabInv
<1>. QED BY <1>1, <1>2, <1>3, <1>4, <1>5, <1>6, <1>7, <1>8, <1>9, <1>10, ServerKeepsTab
         DEF Next, Tab, Server, vars
-----------------------------------------------------------------------------
(* The server's state.                                                     *)

\* When the tab makes a socket, the server has done with all earlier ones, and
\* has seen none of the later ones.
LEMMA ConnectEffect ==
    ASSUME Types, TabInv, ServerInv, NEW s \in Sessions, Connect(s)
    PROVE  /\ ws' = s /\ sock' = [sock EXCEPT ![s] = "connecting"] /\ sock[s] = "none"
           /\ Unopened(s) /\ Unopened(s)'
           /\ UNCHANGED <<pc, stray, late, reconnects, conn, loop, member, tearing, starting,
                          callback>>
           /\ pc = FALSE
           /\ \A r \in Sessions : up'[r] = <<>> /\ down'[r] = <<>>
           /\ \A g \in PCs : owner'[g] = none
           /\ \A g \in PCs : stage'[g] = "unused" <=> stage[g] = "unused"
           /\ open' = {} /\ raced' = {} /\ callback = {}
           /\ \A r \in Sessions : /\ loop[r] \in {"none", "gone"} /\ starting[r] = 0
                                  /\ r \notin member \cup tearing
           /\ \A g \in PCs : stage'[g] \notin {"created", "watched", "described"}
<1>. USE DEF Types, ServerInv
<1>1. /\ ui = "overlay"
      /\ \A r \in Sessions : (sock[r] = "none") <=> r >= s
      /\ \A r \in 1 .. s - 1 : Quiet(r)
      /\ ws' = s /\ sock' = [sock EXCEPT ![s] = "connecting"]
      /\ UNCHANGED <<pc, stray, late, reconnects, conn, loop, member, tearing, starting, callback>>
      /\ up' = [r \in Sessions |-> <<>>] /\ down' = [r \in Sessions |-> <<>>]
      /\ owner' = [g \in PCs |-> none]
      /\ stage' = [g \in PCs |-> IF stage[g] = "unused" THEN "unused" ELSE "aborted"]
      /\ open' = {} /\ raced' = {}
  BY DEF Connect, Forget, pcVars, health, tries, roomVars, roster
<1>2. s >= s /\ sock[s] = "none"
  BY <1>1, SessionAssumption DEF Sessions
<1>3. Unopened(s)
  BY <1>2 DEF FreshInv
<1>4. Unopened(s)'
  BY <1>1, <1>3, Numbers DEF Unopened
<1>5. pc = FALSE
  BY <1>1 DEF TabInv, TabTypes
<1>6. ASSUME NEW r \in Sessions
      PROVE  /\ loop[r] \in {"none", "gone"} /\ starting[r] = 0 /\ r \notin member \cup tearing
             /\ \A g \in PCs : owner[g] = r => g \notin callback
  <2>1. CASE r >= s
    BY <1>1, <2>1 DEF FreshInv, Unopened
  <2>2. CASE ~(r >= s)
    <3>1. r \in 1 .. s - 1
      BY <2>2, SessionAssumption DEF Sessions
    <3>. QED BY <1>1, <3>1 DEF Quiet, JoinInv
  <2>. QED BY <2>1, <2>2
<1>7. callback = {}
  BY <1>6 DEF PCInv, ServerTypes
<1>8. /\ \A g \in PCs : stage'[g] \notin {"created", "watched", "described"}
      /\ \A g \in PCs : stage'[g] = "unused" <=> stage[g] = "unused"
  BY <1>1
<1>. QED BY <1>1, <1>2, <1>3, <1>4, <1>5, <1>6, <1>7, <1>8

LEMMA OpenedEffect ==
    ASSUME Types, FreshInv, NEW s \in Sessions, Opened(s)
    PROVE  /\ sock[s] = "connecting" /\ sock' = [sock EXCEPT ![s] = "open"]
           /\ conn' = [conn EXCEPT ![s] = "open"] /\ loop' = [loop EXCEPT ![s] = "reading"]
           /\ up' = [up EXCEPT ![s] = <<Plain("join")>>] /\ down' = down
           /\ Unopened(s)
           /\ UNCHANGED <<ui, ws, pc, stray, late, reconnects, member, tearing, starting, peerPC,
                          owner, stage, open, callback, raced>>
BY DEF Opened, FreshInv, pcVars, health, tries, roster, setups, pion

\* What a step of the server does to the messages: nothing, or it takes the
\* first one of the session that it works for, or sends that one a message.
LEMMA ServerMessages ==
    ASSUME Types, Server, NEW s \in Sessions, loop[s] = "none" \/ conn[s] = "none"
    PROVE  /\ loop[s] = "none" => up'[s] = up[s]
           /\ conn[s] = "none" => down'[s] = down[s]
<1>. USE DEF Types
<1>1. \A r \in Sessions : \A m : Reads(r, m) /\ loop[s] = "none" => up'[s] = up[s]
  BY ReadsTypes DEF Reads
<1>2. ASSUME NEW t, NEW m \in Down, SendDown(t, m), conn[s] = "none" PROVE down'[s] = down[s]
  BY <1>2, SendDownTypes
<1>3. ASSUME NEW r \in Sessions, ReadLoop(r) PROVE loop[s] = "none" => up'[s] = up[s]
  BY <1>1, <1>3 DEF ReadLoop, ReadJoin, ReadLeave, ReadAnswer, ReadRestart, ReadReconnect,
                    CloseOld, DropOld, StartSetup, Reply, messages
<1>4. ASSUME NEW r \in Sessions, ReadLoop(r) PROVE conn[s] = "none" => down'[s] = down[s]
  <2>1. CASE ReadRestart(r)
    <3>1. peerPC[r] \in open => SDP(peerPC[r]) \in Down
      BY Messages DEF ServerTypes
    <3>. QED BY <1>2, <2>1, <3>1 DEF ReadRestart
  <2>2. CASE ReadJoin(r) \/ Reply(r)
    BY <1>2, <2>2, Messages DEF ReadJoin, Reply, SendReply
  <2>. QED BY <1>4, <2>1, <2>2 DEF ReadLoop, ReadLeave, ReadAnswer, ReadReconnect,
                                   CloseOld, DropOld, StartSetup, messages
<1>5. ASSUME NEW r \in Sessions, ReadError(r) \/ Teardown(r)
      PROVE  down' = down /\ (loop[s] = "none" => up'[s] = up[s])
  BY <1>5 DEF ReadError, Teardown, messages, MessageTypes, ServerTypes
<1>6. ASSUME NEW g \in PCs, Offer(g)
      PROVE  up' = up /\ (conn[s] = "none" => down'[s] = down[s])
  BY <1>2, <1>6, Messages DEF Offer
<1>7. ASSUME NEW g \in PCs,
             Watch(g) \/ Describe(g) \/ SetupFails(g) \/ Callback(g) \/ PCFails(g)
      PROVE  UNCHANGED messages
  BY <1>7 DEF Watch, Describe, SetupFails, Callback, PCFails
<1>8. ASSUME NEW r \in Sessions, CreatePC(r) \/ CreateFails(r) PROVE UNCHANGED messages
  BY <1>8 DEF CreatePC, CreateFails
<1>. QED BY <1>3, <1>4, <1>5, <1>6, <1>7, <1>8 DEF Server, Setup, messages
\* Nothing happens on the server to a session whose socket has not opened.
LEMMA FreshServer ==
    ASSUME Types, Server, PCInv, NEW s \in Sessions, Unopened(s)
    PROVE  Unopened(s)'
<1>. USE DEF Types
<1>1. up'[s] = <<>> /\ down'[s] = <<>>
  BY ServerMessages DEF Unopened
<1>2. /\ conn[s] = "none" /\ loop[s] = "none" /\ s \notin member \cup tearing /\ starting[s] = 0
      /\ \A g \in PCs : owner[g] # s
  BY DEF Unopened
<1>3. ASSUME NEW r \in Sessions, ReadLoop(r)
      PROVE  /\ conn'[s] = "none" /\ loop'[s] = "none" /\ s \notin member' \cup tearing'
             /\ starting'[s] = 0 /\ owner' = owner
  <2>1. r # s
    BY <1>2, <1>3 DEF ReadLoop, ReadJoin, ReadLeave, ReadAnswer, ReadRestart, ReadReconnect,
                      CloseOld, DropOld, StartSetup, Reply, Reads
  <2>2. CASE ReadJoin(r) \/ ReadLeave(r)
    BY <1>2, <2>1, <2>2 DEF ReadJoin, ReadLeave, Remove, setups, ServerTypes
  <2>3. CASE ReadAnswer(r) \/ ReadRestart(r) \/ ReadReconnect(r)
    BY <1>2, <2>1, <2>3 DEF ReadAnswer, ReadRestart, ReadReconnect, roomVars, roster, setups,
                            ServerTypes
  <2>4. CASE CloseOld(r) \/ DropOld(r) \/ StartSetup(r) \/ Reply(r)
    BY <1>2, <2>1, <2>4 DEF CloseOld, DropOld, StartSetup, Reply, roster, setups, ServerTypes
  <2>. QED BY <1>3, <2>2, <2>3, <2>4 DEF ReadLoop
<1>4. ASSUME NEW r \in Sessions, ReadError(r) \/ Teardown(r)
      PROVE  /\ conn'[s] = "none" /\ loop'[s] = "none" /\ s \notin member' \cup tearing'
             /\ starting'[s] = 0 /\ owner' = owner
  <2>1. CASE ReadError(r)
    BY <1>2, <2>1 DEF ReadError, Remove, setups, ServerTypes
  <2>2. CASE Teardown(r)
    BY <1>2, <2>2 DEF Teardown, SocketClose, setups, ServerTypes
  <2>. QED BY <1>4, <2>1, <2>2
<1>5. ASSUME NEW r \in Sessions, CreatePC(r)
      PROVE  /\ UNCHANGED <<conn, loop, member, tearing>> /\ starting'[s] = 0
             /\ \A g \in PCs : owner'[g] # s
  BY <1>2, <1>5 DEF CreatePC, roomVars, roster, ServerTypes
<1>6. ASSUME NEW g \in PCs,
             Watch(g) \/ Describe(g) \/ Offer(g) \/ SetupFails(g) \/ PCFails(g)
      PROVE  UNCHANGED <<conn, loop, member, tearing, starting, owner>>
  BY <1>6 DEF Watch, Describe, Offer, SetupFails, PCFails, roomVars, roster, setups
<1>7. ASSUME NEW g \in PCs, Callback(g)
      PROVE  UNCHANGED <<conn, loop, starting, owner>> /\ s \notin member' \cup tearing'
  BY <1>2, <1>7 DEF Callback, Remove, setups
<1>8. ASSUME NEW r \in Sessions, CreateFails(r)
      PROVE  UNCHANGED <<conn, loop, member, tearing, owner>> /\ starting'[s] = 0
  BY <1>2, <1>8 DEF CreateFails, roomVars, roster, ServerTypes
<1>. QED BY <1>1, <1>2, <1>3, <1>4, <1>5, <1>6, <1>7, <1>8 DEF Server, Setup, Unopened

LEMMA FreshNext == Types /\ TabInv /\ ServerInv /\ [Next]_vars => FreshInv'
<1>. SUFFICES ASSUME Types, TabInv, ServerInv, [Next]_vars PROVE FreshInv'
  OBVIOUS
<1>. USE DEF Types, ServerInv
<1>1. ASSUME NEW s \in Sessions, Connect(s) PROVE FreshInv'
  <2>1. ASSUME NEW r \in Sessions, sock'[r] \in {"none", "connecting"}, r # s PROVE Unopened(r)'
    <3>1. sock[r] = sock'[r]
      BY <1>1, <2>1, ConnectEffect DEF TabTypes
    <3>2. Unopened(r)
      BY <2>1, <3>1 DEF FreshInv
    <3>3. /\ UNCHANGED <<conn, loop, member, tearing, starting>>
          /\ up'[r] = <<>> /\ down'[r] = <<>> /\ \A g \in PCs : owner'[g] = none
      BY <1>1, ConnectEffect
    <3>. QED BY <3>2, <3>3, Numbers DEF Unopened
  <2>. QED BY <1>1, <2>1, ConnectEffect DEF FreshInv
<1>2. ASSUME NEW s \in Sessions, Opened(s) PROVE FreshInv'
  <2>1. ASSUME NEW r \in Sessions, sock'[r] \in {"none", "connecting"} PROVE Unopened(r)'
    <3>1. r # s /\ sock[r] = sock'[r]
      BY <1>2, <2>1, OpenedEffect DEF TabTypes
    <3>2. Unopened(r)
      BY <2>1, <3>1 DEF FreshInv
    <3>. QED BY <1>2, <3>1, <3>2, OpenedEffect DEF Unopened, ServerTypes, MessageTypes
  <2>. QED BY <2>1 DEF FreshInv
<1>3. CASE TabOnly
  <2>1. ASSUME NEW s \in Sessions, sock'[s] \in {"none", "connecting"} PROVE Unopened(s)'
    <3>1. sock[s] = sock'[s] /\ Unopened(s)
      BY <1>3, <2>1 DEF TabOnly, FreshInv
    <3>2. up'[s] = up[s]
      BY <1>3, <2>1, <3>1, SendTypes DEF TabOnly
    <3>3. down'[s] = down[s]
      BY <1>3, <2>1, <3>1, ReceivedTypes DEF TabOnly, Received
    <3>. QED BY <1>3, <3>1, <3>2, <3>3 DEF TabOnly, Unopened
  <2>. QED BY <2>1 DEF FreshInv
<1>4. CASE Server
  BY <1>4, FreshServer, ServerKeepsTab DEF FreshInv, tabVars, page
<1>5. CASE UNCHANGED vars
  BY <1>5 DEF vars, tabVars, page, messages, serverVars, roomVars, roster, setups, FreshInv, Unopened
<1>. QED BY <1>1, <1>2, <1>3, <1>4, <1>5, TabFrame DEF Next, Server

\* A queue in which only the first message may be a join.
JoinFirst(q) == \A i \in 1 .. Len(q) : q[i] = Plain("join") => i = 1
NoJoin(q) == \A i \in 1 .. Len(q) : q[i] # Plain("join")

LEMMA JoinQueue ==
    ASSUME NEW q \in Seq(Up)
    PROVE  /\ q # <<>> /\ JoinFirst(q) => NoJoin(Tail(q))
           /\ q # <<>> /\ NoJoin(q) => Head(q) # Plain("join")
           /\ NoJoin(<<>>) /\ (NoJoin(q) => JoinFirst(q))
           /\ \A m \in Up : m # Plain("join") =>
                /\ JoinFirst(q) => JoinFirst(Append(q, m))
                /\ NoJoin(q) => NoJoin(Append(q, m))
<1>1. ASSUME q # <<>>
      PROVE  /\ JoinFirst(q) => NoJoin(Tail(q))
             /\ NoJoin(q) => Head(q) # Plain("join")
  <2>1. /\ Head(q) = q[1]
        /\ Len(q) \in Nat \ {0} /\ Len(Tail(q)) = Len(q) - 1
        /\ \A i \in 1 .. Len(Tail(q)) : Tail(q)[i] = q[i + 1]
    BY <1>1, HeadTailProperties, LenProperties, EmptySeq
  <2>2. 1 \in 1 .. Len(q) /\ \A i \in 1 .. Len(Tail(q)) : i + 1 \in 1 .. Len(q) /\ i + 1 # 1
    BY <2>1
  <2>. QED BY <2>1, <2>2 DEF JoinFirst, NoJoin
<1>2. NoJoin(<<>>) /\ (NoJoin(q) => JoinFirst(q))
  BY DEF NoJoin, JoinFirst
<1>3. ASSUME NEW m \in Up, m # Plain("join")
      PROVE  /\ JoinFirst(q) => JoinFirst(Append(q, m))
             /\ NoJoin(q) => NoJoin(Append(q, m))
  <2>1. /\ Len(q) \in Nat /\ Len(Append(q, m)) = Len(q) + 1
        /\ \A i \in 1 .. Len(q) : Append(q, m)[i] = q[i]
        /\ Append(q, m)[Len(q) + 1] = m
    BY AppendProperties, LenProperties
  <2>2. \A i \in 1 .. Len(Append(q, m)) : i \in 1 .. Len(q) \/ i = Len(q) + 1
    BY <2>1
  <2>. QED BY <1>3, <2>1, <2>2 DEF JoinFirst, NoJoin
<1>. QED BY <1>1, <1>2, <1>3

\* JoinInv for one session.
Joins(s) ==
    /\ JoinFirst(up[s]) /\ (s \in member \cup tearing => NoJoin(up[s]))
    /\ s \in member => s \notin tearing /\ loop[s] \notin {"none", "gone"}

LEMMA JoinEach == JoinInv <=> \A s \in Sessions : Joins(s)
BY DEF JoinInv, Joins, JoinFirst, NoJoin

LEMMA JoinServer ==
    ASSUME Types, Server, NEW s \in Sessions, Joins(s)
    PROVE  Joins(s)'
<1>. USE DEF Types
<1>1. up[s] \in Seq(Up)
  BY DEF MessageTypes
<1>2. ASSUME NEW r \in Sessions, NEW m, Reads(r, m)
      PROVE  /\ JoinFirst(up'[s]) /\ (NoJoin(up[s]) => NoJoin(up'[s]))
             /\ r = s => NoJoin(up'[s]) /\ loop[s] = "reading"
             /\ r = s /\ m = Plain("join") => s \notin member \cup tearing
  <2>1. CASE r = s
    <3>1. up[s] # <<>> /\ Head(up[s]) = m /\ up'[s] = Tail(up[s]) /\ loop[s] = "reading"
      BY <1>2, <2>1, ReadsTypes DEF Reads
    <3>2. NoJoin(up'[s]) /\ (NoJoin(up[s]) => Head(up[s]) # Plain("join"))
      BY <1>1, <3>1, JoinQueue DEF Joins
    <3>3. Tail(up[s]) \in Seq(Up)
      BY <1>1, <3>1, HeadTailProperties
    <3>4. JoinFirst(up'[s])
      BY <3>1, <3>2, <3>3, JoinQueue
    <3>. QED BY <2>1, <3>1, <3>2, <3>4 DEF Joins
  <2>2. CASE r # s
    BY <1>2, <2>2, ReadsTypes DEF Joins
  <2>. QED BY <2>1, <2>2
<1>3. ASSUME NEW r, Remove(r)
      PROVE  /\ s \in member' \cup tearing' => s \in member \cup tearing
             /\ s \in member' => s \in member /\ s # r
             /\ s \notin tearing => s \notin tearing' \/ s = r
  BY <1>3 DEF Remove
<1>4. ASSUME NEW r \in Sessions, ReadJoin(r) PROVE Joins(s)'
  <2>1. Reads(r, Plain("join")) /\ member' = member \cup {r} /\ UNCHANGED <<loop, tearing>>
    BY <1>4 DEF ReadJoin
  <2>. QED BY <1>2, <2>1 DEF Joins
<1>5. ASSUME NEW r \in Sessions, ReadLeave(r) PROVE Joins(s)'
  <2>1. Reads(r, Plain("leave")) /\ Remove(r) /\ loop' = loop
    BY <1>5 DEF ReadLeave
  <2>. QED BY <1>2, <1>3, <2>1 DEF Joins
<1>6. ASSUME NEW r \in Sessions, ReadError(r) PROVE Joins(s)'
  <2>1. /\ Remove(r) /\ loop' = [loop EXCEPT ![r] = "gone"] /\ up' = [up EXCEPT ![r] = <<>>]
    BY <1>6 DEF ReadError
  <2>2. JoinFirst(up'[s]) /\ (NoJoin(up[s]) => NoJoin(up'[s]))
    BY <1>1, <2>1, JoinQueue, EmptySeq DEF Joins, MessageTypes, JoinFirst, NoJoin
  <2>. QED BY <1>3, <2>1, <2>2 DEF Joins, ServerTypes
<1>7. ASSUME NEW r \in Sessions, ReadAnswer(r) \/ ReadRestart(r) \/ ReadReconnect(r)
      PROVE  Joins(s)'
  <2>1. /\ UNCHANGED <<member, tearing>> /\ \E m : Reads(r, m)
        /\ \/ loop' = loop
           \/ \E l \in {"reading", "reconnecting"} : loop' = [loop EXCEPT ![r] = l]
    BY <1>7 DEF ReadAnswer, ReadRestart, ReadReconnect, roomVars, roster
  <2>. QED BY <1>2, <2>1 DEF Joins, ServerTypes
<1>8. ASSUME NEW r \in Sessions, CloseOld(r) \/ DropOld(r) \/ StartSetup(r) \/ Reply(r)
      PROVE  Joins(s)'
  <2>1. /\ UNCHANGED <<member, tearing, up>>
        /\ \E l \in {"reading", "closed", "dropped", "reply"} : loop' = [loop EXCEPT ![r] = l]
    BY <1>8 DEF CloseOld, DropOld, StartSetup, Reply, roster, messages
  <2>. QED BY <2>1 DEF Joins, ServerTypes
<1>9. ASSUME NEW r \in Sessions, Teardown(r) PROVE Joins(s)'
  BY <1>9 DEF Teardown, messages, Joins
<1>10. ASSUME NEW g \in PCs, Callback(g) PROVE Joins(s)'
  <2>1. Remove(owner[g]) /\ UNCHANGED <<up, loop>>
    BY <1>10 DEF Callback, messages
  <2>. QED BY <1>3, <2>1 DEF Joins
<1>11. ASSUME NEW g \in PCs,
              Watch(g) \/ Describe(g) \/ Offer(g) \/ SetupFails(g) \/ PCFails(g)
       PROVE  UNCHANGED <<up, loop, member, tearing>>
  BY <1>11 DEF Watch, Describe, Offer, SetupFails, PCFails, messages, roomVars, roster
<1>12. ASSUME NEW r \in Sessions, CreatePC(r) \/ CreateFails(r)
       PROVE  UNCHANGED <<up, loop, member, tearing>>
  BY <1>12 DEF CreatePC, CreateFails, messages, roomVars, roster
<1>13. CASE UNCHANGED <<up, loop, member, tearing>>
  BY <1>13 DEF Joins
<1>. QED BY <1>4, <1>5, <1>6, <1>7, <1>8, <1>9, <1>10, <1>11, <1>12, <1>13
         DEF Server, Setup, ReadLoop

LEMMA JoinNext == Types /\ TabInv /\ ServerInv /\ [Next]_vars => JoinInv'
<1>. SUFFICES ASSUME Types, TabInv, ServerInv, [Next]_vars, NEW s \in Sessions PROVE Joins(s)'
  BY JoinEach DEF JoinInv, Joins, JoinFirst, NoJoin
<1>. USE DEF Types, ServerInv
<1>1. Joins(s) /\ up[s] \in Seq(Up)
  BY JoinEach DEF MessageTypes
<1>2. ASSUME NEW r \in Sessions, Connect(r) PROVE Joins(s)'
  <2>1. /\ UNCHANGED <<loop, member, tearing>> /\ up'[s] = <<>>
    BY <1>2, ConnectEffect
  <2>2. NoJoin(<<>>) /\ JoinFirst(<<>>)
    BY DEF NoJoin, JoinFirst
  <2>. QED BY <1>1, <2>1, <2>2 DEF Joins
<1>3. ASSUME NEW r \in Sessions, Opened(r) PROVE Joins(s)'
  <2>1. JoinFirst(<<Plain("join")>>)
    BY DEF JoinFirst
  <2>2. /\ up' = [up EXCEPT ![r] = <<Plain("join")>>] /\ loop' = [loop EXCEPT ![r] = "reading"]
        /\ UNCHANGED <<member, tearing>> /\ r \notin member \cup tearing
    BY <1>3, OpenedEffect DEF Unopened
  <2>. QED BY <1>1, <2>1, <2>2 DEF Joins, MessageTypes, ServerTypes
<1>4. CASE TabOnly
  <2>1. JoinFirst(up'[s]) /\ (NoJoin(up[s]) => NoJoin(up'[s]))
    <3>1. CASE up' = up
      BY <1>1, <3>1 DEF Joins
    <3>2. ASSUME NEW m \in Up, m # Plain("join"), Send(m)
          PROVE  JoinFirst(up'[s]) /\ (NoJoin(up[s]) => NoJoin(up'[s]))
      <4>1. up'[s] = up[s] \/ up'[s] = Append(up[s], m)
        BY <3>2, SendTypes
      <4>. QED BY <1>1, <3>2, <4>1, JoinQueue DEF Joins
    <3>. QED BY <1>4, <3>1, <3>2 DEF TabOnly
  <2>. QED BY <1>1, <1>4, <2>1 DEF Joins, TabOnly
<1>5. CASE Server
  BY <1>1, <1>5, JoinServer
<1>6. CASE UNCHANGED vars
  BY <1>1, <1>6 DEF vars, messages, serverVars, roomVars, roster, Joins
<1>. QED BY <1>2, <1>3, <1>4, <1>5, <1>6, TabFrame DEF Next, Server
LEMMA PCNext == Types /\ TabInv /\ ServerInv /\ [Next]_vars => PCInv'
<1>. SUFFICES ASSUME Types, TabInv, ServerInv, [Next]_vars PROVE PCInv'
  OBVIOUS
<1>. USE DEF Types, ServerInv
<1>1. ASSUME UNCHANGED <<open, callback, stage, owner>> PROVE PCInv'
  BY <1>1 DEF PCInv
<1>2. ASSUME NEW s \in Sessions, Connect(s) PROVE PCInv'
  <2>1. open' = {} /\ callback' = {}
    BY <1>2, ConnectEffect
  <2>. QED BY <2>1 DEF PCInv
<1>3. ASSUME NEW s \in Sessions, Opened(s) PROVE PCInv'
  BY <1>1, <1>3, OpenedEffect
<1>4. CASE TabOnly
  BY <1>1, <1>4 DEF TabOnly
<1>5. CASE UNCHANGED vars
  BY <1>1, <1>5 DEF vars, serverVars, setups, pion
<1>6. ASSUME NEW s \in Sessions, CreatePC(s) PROVE PCInv'
  <2>1. PICK g \in PCs : /\ stage' = [stage EXCEPT ![g] = "created"]
                         /\ owner' = [owner EXCEPT ![g] = s]
                         /\ open' = open \cup {g} /\ callback' = callback
    BY <1>6 DEF CreatePC
  <2>. QED BY <2>1 DEF PCInv, ServerTypes
<1>7. ASSUME NEW g \in PCs, Watch(g) PROVE PCInv'
  BY <1>7 DEF Watch, Advance, pion, PCInv, ServerTypes
<1>8. ASSUME NEW g \in PCs, Describe(g) PROVE PCInv'
  BY <1>8 DEF Describe, Advance, PCInv, ServerTypes
<1>9. ASSUME NEW g \in PCs, Offer(g) PROVE PCInv'
  BY <1>9 DEF Offer, pion, PCInv, ServerTypes
<1>10. ASSUME NEW s \in Sessions, ReadLoop(s) PROVE PCInv'
  <2>1. ASSUME ReadJoin(s) \/ ReadLeave(s) \/ ReadAnswer(s) \/ ReadRestart(s) \/ ReadReconnect(s)
        PROVE  UNCHANGED <<open, callback, stage>> /\ owner' = owner
    BY <2>1 DEF ReadJoin, ReadLeave, ReadAnswer, ReadRestart, ReadReconnect, setups, pion
  <2>2. ASSUME CloseOld(s) PROVE PCInv'
    BY <2>2 DEF CloseOld, Close, setups, PCInv
  <2>3. ASSUME DropOld(s) \/ StartSetup(s) \/ Reply(s)
        PROVE  UNCHANGED <<open, callback, stage, owner>>
    BY <2>3 DEF DropOld, StartSetup, Reply, setups, pion
  <2>. QED BY <1>1, <1>10, <2>1, <2>2, <2>3 DEF ReadLoop
<1>11. ASSUME NEW s \in Sessions, ReadError(s) PROVE PCInv'
  BY <1>1, <1>11 DEF ReadError, setups, pion
<1>12. ASSUME NEW s \in Sessions, Teardown(s) PROVE PCInv'
  BY <1>12 DEF Teardown, Close, setups, PCInv
<1>13. ASSUME NEW g \in PCs, Callback(g) PROVE PCInv'
  BY <1>13 DEF Callback, setups, PCInv
<1>14. ASSUME NEW g \in PCs, PCFails(g) PROVE PCInv'
  BY <1>14 DEF PCFails, setups, PCInv
<1>15. ASSUME NEW s \in Sessions, CreateFails(s) PROVE PCInv'
  BY <1>1, <1>15 DEF CreateFails, pion
<1>16. ASSUME NEW g \in PCs, SetupFails(g) PROVE PCInv'
  BY <1>16 DEF SetupFails, pion, PCInv, ServerTypes
<1>. QED BY <1>2, <1>3, <1>4, <1>5, <1>6, <1>7, <1>8, <1>9, <1>10, <1>11, <1>12, <1>13, <1>14,
            <1>15, <1>16, TabFrame DEF Next, Setup

\* A departure leaves alone what is undisturbed: one that meets a set-up or a
\* reconnect is a race.
LEMMA RemoveRace ==
    ASSUME ServerTypes, JoinInv, RaceInv, NEW r, Remove(r),
           open' = open, UNCHANGED <<starting, peerPC, owner, stage>>, NEW s \in Sessions,
           s \notin raced', loop'[s] = loop[s] \/ loop'[s] = "gone"
    PROVE  Undisturbed(s)'
<1>1. s \notin raced /\ Undisturbed(s)
  BY DEF Remove, RaceInv
<1>2. /\ s \in member => s \in member' \/ s \in tearing'
      /\ s \in tearing => s \in tearing'
  BY DEF Remove
<1>3. SettingUp(s)' <=> SettingUp(s)
  BY DEF SettingUp
<1>4. Reconnecting(s)' => Reconnecting(s)
  BY DEF Reconnecting
<1>5. SettingUp(s) \/ Reconnecting(s) => (s \in member => s \in member')
  BY DEF Remove
<1>6. starting[s] > 0 => SettingUp(s)
  BY DEF SettingUp
<1>7. /\ starting'[s] <= 1
      /\ starting'[s] > 0 => s \in member' /\ \A g \in open' : owner'[g] # s
  BY <1>1, <1>5, <1>6 DEF Undisturbed
<1>8. loop'[s] \in {"closed", "dropped"} => \A g \in open' : owner'[g] # s
  BY <1>1 DEF Undisturbed
<1>9. Reconnecting(s)' => s \in member' /\ ~SettingUp(s)'
  BY <1>1, <1>3, <1>4, <1>5 DEF Undisturbed
<1>10. \A g \in open' : owner'[g] = s => g = peerPC'[s] /\ s \in member' \cup tearing'
  BY <1>1, <1>2 DEF Undisturbed
<1>. QED BY <1>7, <1>8, <1>9, <1>10 DEF Undisturbed, Reconnecting, SettingUp

\* What matters of a step that keeps a session undisturbed.
LEMMA RaceKept ==
    ASSUME ServerTypes, RaceInv, NEW s \in Sessions, s \notin raced,
           starting'[s] = starting[s], loop'[s] = loop[s],
           open' \subseteq open, peerPC'[s] = peerPC[s], owner' = owner,
           s \in member => s \in member', s \in tearing => s \in tearing',
           \A g \in PCs : owner[g] = s /\ stage'[g] \in {"created", "watched", "described"}
                             => stage[g] \in {"created", "watched", "described"}
    PROVE  Undisturbed(s)'
<1>1. Undisturbed(s)
  BY DEF RaceInv
<1>2. SettingUp(s)' => SettingUp(s)
  BY DEF SettingUp
<1>3. /\ starting'[s] <= 1
      /\ starting'[s] > 0 => s \in member' /\ \A g \in open' : owner'[g] # s
      /\ loop'[s] \in {"closed", "dropped"} => \A g \in open' : owner'[g] # s
  BY <1>1 DEF Undisturbed
<1>4. Reconnecting(s)' => s \in member' /\ ~SettingUp(s)'
  BY <1>1, <1>2 DEF Undisturbed, Reconnecting
<1>5. \A g \in open' : owner'[g] = s => g = peerPC'[s] /\ s \in member' \cup tearing'
  BY <1>1 DEF Undisturbed
<1>. QED BY <1>3, <1>4, <1>5 DEF Undisturbed, Reconnecting, SettingUp
LEMMA RaceReadLoop ==
    ASSUME Types, ServerInv, NEW r \in Sessions, ReadLoop(r), NEW s \in Sessions, s \notin raced'
    PROVE  Undisturbed(s)'
<1>. USE DEF Types, ServerInv
<1>1. ASSUME s \notin raced PROVE Undisturbed(s)
  BY <1>1 DEF RaceInv
<1>2. CASE ReadJoin(r)
  <2>1. /\ Reads(r, Plain("join")) /\ member' = member \cup {r}
        /\ starting' = [starting EXCEPT ![r] = @ + 1]
        /\ UNCHANGED <<loop, tearing, peerPC, owner, stage, open, raced>>
    BY <1>2 DEF ReadJoin, pion
  <2>2. CASE s # r
    BY <2>1, <2>2, RaceKept DEF ServerTypes
  <2>3. CASE s = r
    <3>1. up[r] # <<>> /\ Head(up[r]) = Plain("join") /\ loop[r] = "reading"
      BY <2>1, ReadsTypes DEF Reads
    <3>2. r \notin member \cup tearing
      <4>1. Joins(r) /\ up[r] \in Seq(Up)
        BY JoinEach DEF MessageTypes
      <4>. QED BY <3>1, <4>1, JoinQueue DEF Joins
    <3>3. starting[r] = 0 /\ \A g \in open : owner[g] # r
      BY <1>1, <2>1, <2>3, <3>2 DEF Undisturbed, ServerTypes
    <3>4. starting'[r] = 1 /\ loop'[r] = "reading" /\ r \in member'
      BY <2>1, <3>1, <3>3 DEF ServerTypes
    <3>. QED BY <2>1, <2>3, <3>3, <3>4 DEF Undisturbed, Reconnecting
  <2>. QED BY <2>2, <2>3
<1>3. CASE ReadLeave(r)
  BY <1>3, RemoveRace DEF ReadLeave, setups, pion
<1>4. CASE ReadAnswer(r) \/ ReadRestart(r)
  <2>1. /\ UNCHANGED <<loop, member, tearing, starting, peerPC, owner>> /\ stage' = stage
        /\ open' = open /\ raced' = raced
    BY <1>4 DEF ReadAnswer, ReadRestart, roomVars, roster, setups
  <2>. QED BY <2>1, RaceKept DEF ServerTypes
<1>5. CASE ReadReconnect(r)
  <2>1. /\ loop[r] = "reading"
        /\ loop' = [loop EXCEPT ![r] = IF r \in member THEN "reconnecting" ELSE "reading"]
        /\ raced' = IF r \in member /\ SettingUp(r) THEN raced \cup {r} ELSE raced
        /\ UNCHANGED <<member, tearing, starting, peerPC, owner, stage, open>>
    BY <1>5 DEF ReadReconnect, Reads, roster, setups, pion
  <2>2. CASE s # r
    BY <2>1, <2>2, RaceKept DEF ServerTypes
  <2>3. CASE s = r
    <3>1. s \notin raced /\ (s \in member => ~SettingUp(s)) /\ (SettingUp(s)' <=> SettingUp(s))
      BY <2>1, <2>3 DEF SettingUp
    <3>2. loop'[s] = IF s \in member THEN "reconnecting" ELSE "reading"
      BY <2>1, <2>3 DEF ServerTypes
    <3>3. Reconnecting(s)' => s \in member' /\ ~SettingUp(s)'
      BY <2>1, <3>1, <3>2 DEF Reconnecting
    <3>. QED BY <1>1, <2>1, <3>1, <3>2, <3>3 DEF Undisturbed, Reconnecting, SettingUp
  <2>. QED BY <2>2, <2>3
<1>6. CASE CloseOld(r)
  <2>1. /\ loop[r] = "reconnecting"
        /\ IF peerPC[r] = none
           THEN loop' = [loop EXCEPT ![r] = "dropped"] /\ open' = open
           ELSE loop' = [loop EXCEPT ![r] = "closed"] /\ open' = open \ {peerPC[r]}
        /\ UNCHANGED <<member, tearing, starting, peerPC, owner, stage, raced>>
    BY <1>6 DEF CloseOld, Close, roster, setups
  <2>2. CASE s # r
    BY <2>1, <2>2, RaceKept DEF ServerTypes
  <2>3. CASE s = r
    <3>1. /\ s \in member /\ ~SettingUp(s) /\ starting[s] <= 1
          /\ \A g \in open : owner[g] = s => g = peerPC[s]
      BY <1>1, <2>1, <2>3 DEF Undisturbed, Reconnecting
    <3>2. \A g \in open' : owner'[g] # s
      BY <2>1, <2>3, <3>1, Numbers DEF ServerTypes
    <3>3. ~SettingUp(s)' /\ starting'[s] <= 1 /\ s \in member'
      BY <2>1, <3>1 DEF SettingUp
    <3>. QED BY <3>2, <3>3 DEF Undisturbed, SettingUp, Reconnecting
  <2>. QED BY <2>2, <2>3
<1>7. CASE DropOld(r)
  <2>1. /\ loop[r] = "closed" /\ loop' = [loop EXCEPT ![r] = "dropped"]
        /\ peerPC' = [peerPC EXCEPT ![r] = none]
        /\ UNCHANGED <<member, tearing, starting, owner, stage, open, raced>>
    BY <1>7 DEF DropOld, roster, pion
  <2>2. CASE s # r
    BY <2>1, <2>2, RaceKept DEF ServerTypes
  <2>3. CASE s = r
    <3>1. /\ s \in member /\ ~SettingUp(s) /\ starting[s] <= 1
          /\ \A g \in open : owner[g] # s
      BY <1>1, <2>1, <2>3 DEF Undisturbed, Reconnecting
    <3>2. ~SettingUp(s)' /\ starting'[s] <= 1 /\ s \in member' /\ \A g \in open' : owner'[g] # s
      BY <2>1, <3>1 DEF SettingUp
    <3>. QED BY <3>2 DEF Undisturbed, SettingUp, Reconnecting
  <2>. QED BY <2>2, <2>3
<1>8. CASE StartSetup(r)
  <2>1. /\ loop[r] = "dropped" /\ loop' = [loop EXCEPT ![r] = "reply"]
        /\ starting' = [starting EXCEPT ![r] = @ + 1]
        /\ UNCHANGED <<member, tearing, peerPC, owner, stage, open, raced>>
    BY <1>8 DEF StartSetup, roster, pion
  <2>2. CASE s # r
    BY <2>1, <2>2, RaceKept DEF ServerTypes
  <2>3. CASE s = r
    <3>1. s \in member /\ ~SettingUp(s) /\ \A g \in open : owner[g] # s
      BY <1>1, <2>1, <2>3 DEF Undisturbed, Reconnecting
    <3>2. starting[s] = 0
      BY <3>1 DEF SettingUp, ServerTypes
    <3>3. /\ starting'[s] = 1 /\ s \in member' /\ \A g \in open' : owner'[g] # s
          /\ loop'[s] = "reply"
      BY <2>1, <2>3, <3>1, <3>2 DEF ServerTypes
    <3>. QED BY <3>3 DEF Undisturbed, Reconnecting
  <2>. QED BY <2>2, <2>3
<1>9. CASE Reply(r)
  <2>1. /\ loop[r] = "reply" /\ loop' = [loop EXCEPT ![r] = "reading"]
        /\ UNCHANGED <<member, tearing, starting, peerPC, owner, stage, open, raced>>
    BY <1>9 DEF Reply, roster, setups, pion
  <2>2. CASE s # r
    BY <2>1, <2>2, RaceKept DEF ServerTypes
  <2>3. CASE s = r
    <3>1. loop'[s] = "reading"
      BY <2>1, <2>3 DEF ServerTypes
    <3>. QED BY <1>1, <2>1, <3>1 DEF Undisturbed, Reconnecting
  <2>. QED BY <2>2, <2>3
<1>. QED BY <1>2, <1>3, <1>4, <1>5, <1>6, <1>7, <1>8, <1>9 DEF ReadLoop

LEMMA RaceNext == Types /\ TabInv /\ ServerInv /\ [Next]_vars => RaceInv'
<1>. SUFFICES ASSUME Types, TabInv, ServerInv, [Next]_vars, NEW s \in Sessions, s \notin raced'
              PROVE  Undisturbed(s)'
  BY DEF RaceInv, Undisturbed, Reconnecting, SettingUp
<1>. USE DEF Types, ServerInv
<1>1. ASSUME s \notin raced PROVE Undisturbed(s)
  BY <1>1 DEF RaceInv
<1>2. ASSUME NEW r \in Sessions, Connect(r) PROVE Undisturbed(s)'
  <2>1. /\ open' = {} /\ starting'[s] = 0 /\ loop'[s] \in {"none", "gone"}
    BY <1>2, ConnectEffect
  <2>. QED BY <2>1 DEF Undisturbed, Reconnecting
<1>3. ASSUME NEW r \in Sessions, Opened(r) PROVE Undisturbed(s)'
  <2>1. /\ loop' = [loop EXCEPT ![r] = "reading"] /\ Unopened(r)
        /\ UNCHANGED <<member, tearing, starting, peerPC, owner, stage, open, raced>>
    BY <1>3, OpenedEffect
  <2>2. CASE s # r
    BY <2>1, <2>2, RaceKept DEF ServerTypes
  <2>3. CASE s = r
    <3>1. /\ starting'[s] = 0 /\ loop'[s] = "reading" /\ \A g \in open' : owner'[g] # s
      BY <2>1, <2>3 DEF Unopened, ServerTypes
    <3>. QED BY <3>1 DEF Undisturbed, Reconnecting
  <2>. QED BY <2>2, <2>3
<1>4. CASE TabOnly
  <2>1. UNCHANGED <<loop, member, tearing, starting, peerPC, owner, stage, open, raced>>
    BY <1>4 DEF TabOnly
  <2>. QED BY <2>1, RaceKept
<1>5. CASE UNCHANGED vars
  <2>1. UNCHANGED <<loop, member, tearing, starting, peerPC, owner, stage, open, raced>>
    BY <1>5 DEF vars, serverVars, roomVars, roster, setups, pion
  <2>. QED BY <2>1, RaceKept
<1>6. ASSUME NEW r \in Sessions, CreatePC(r) PROVE Undisturbed(s)'
  <2>1. PICK g \in PCs :
          /\ starting[r] > 0 /\ \A h \in PCs : (stage[h] = "unused") <=> h >= g
          /\ starting' = [starting EXCEPT ![r] = @ - 1]
          /\ peerPC' = [peerPC EXCEPT ![r] = g]
          /\ owner' = [owner EXCEPT ![g] = r]
          /\ stage' = [stage EXCEPT ![g] = "created"]
          /\ open' = open \cup {g}
          /\ UNCHANGED <<loop, member, tearing, raced>>
    BY <1>6 DEF CreatePC, roomVars, roster
  <2>2. g \notin open
    <3>1. g >= g
      BY SessionAssumption DEF PCs
    <3>. QED BY <2>1, <3>1 DEF PCInv
  <2>3. Undisturbed(s)
    BY <1>1, <2>1
  <2>4. CASE s # r
    <3>1. /\ starting'[s] = starting[s] /\ peerPC'[s] = peerPC[s]
          /\ \A h \in open' : owner'[h] = s => h \in open /\ owner[h] = s
      BY <2>1, <2>4 DEF ServerTypes
    <3>2. SettingUp(s)' => SettingUp(s)
      BY <2>1, <2>4, <3>1 DEF SettingUp, ServerTypes
    <3>3. Reconnecting(s)' => s \in member' /\ ~SettingUp(s)'
      BY <2>1, <2>3, <3>2 DEF Undisturbed, Reconnecting
    <3>. QED BY <2>1, <2>3, <3>1, <3>3 DEF Undisturbed, Reconnecting, SettingUp
  <2>5. CASE s = r
    <3>1. /\ starting[s] = 1 /\ s \in member /\ ~Reconnecting(s)
          /\ \A h \in open : owner[h] # s
      BY <2>1, <2>3, <2>5 DEF Undisturbed, SettingUp, ServerTypes
    <3>2. /\ starting'[s] = 0 /\ ~Reconnecting(s)' /\ s \in member'
          /\ \A h \in open' : owner'[h] = s => h = peerPC'[s]
      BY <2>1, <2>2, <2>5, <3>1 DEF Reconnecting, ServerTypes
    <3>. QED BY <3>2 DEF Undisturbed, Reconnecting
  <2>. QED BY <2>4, <2>5
<1>7. ASSUME NEW g \in PCs, Watch(g) \/ Describe(g) \/ Offer(g) \/ SetupFails(g)
      PROVE  Undisturbed(s)'
  <2>1. /\ UNCHANGED <<loop, member, tearing, starting, peerPC, owner, open, raced>>
        /\ stage[g] \in {"created", "watched", "described"}
        /\ \A h \in PCs : h # g => stage'[h] = stage[h]
    BY <1>7 DEF Watch, Describe, Offer, SetupFails, Advance, roomVars, roster, pion, ServerTypes
  <2>. QED BY <2>1, RaceKept
<1>8. ASSUME NEW r \in Sessions, ReadError(r) PROVE Undisturbed(s)'
  <2>1. Remove(r) /\ UNCHANGED <<starting, peerPC, owner, stage, open>>
        /\ (loop'[s] = loop[s] \/ loop'[s] = "gone")
    BY <1>8 DEF ReadError, setups, pion, ServerTypes
  <2>. QED BY <2>1, RemoveRace
<1>9. ASSUME NEW g \in PCs, Callback(g) PROVE Undisturbed(s)'
  BY <1>9, RemoveRace DEF Callback, setups
<1>10. ASSUME NEW g \in PCs, PCFails(g) PROVE Undisturbed(s)'
  <2>1. UNCHANGED <<loop, member, tearing, starting, peerPC, owner, stage, open, raced>>
    BY <1>10 DEF PCFails, roomVars, roster, setups
  <2>. QED BY <2>1, RaceKept
<1>11. ASSUME NEW r \in Sessions, Teardown(r) PROVE Undisturbed(s)'
  <2>1. /\ r \in tearing /\ tearing' = tearing \ {r}
        /\ open' = IF peerPC[r] = none THEN open ELSE open \ {peerPC[r]}
        /\ UNCHANGED <<loop, member, starting, peerPC, owner, stage, raced>>
    BY <1>11 DEF Teardown, Close, setups
  <2>2. CASE s # r
    BY <2>1, <2>2, RaceKept
  <2>3. CASE s = r
    <3>1. s \notin member
      BY <2>1, <2>3 DEF JoinInv
    <3>2. /\ starting[s] = 0 /\ ~Reconnecting(s)
          /\ \A g \in open : owner[g] = s => g = peerPC[s]
      BY <1>1, <2>1, <3>1 DEF Undisturbed, ServerTypes
    <3>3. starting'[s] = 0 /\ ~Reconnecting(s)' /\ \A g \in open' : owner'[g] # s
      BY <2>1, <2>3, <3>2, Numbers DEF Reconnecting, ServerTypes
    <3>. QED BY <3>3 DEF Undisturbed, Reconnecting
  <2>. QED BY <2>2, <2>3
<1>12. ASSUME NEW r \in Sessions, CreateFails(r) PROVE Undisturbed(s)'
  <2>1. /\ starting[r] > 0 /\ starting' = [starting EXCEPT ![r] = @ - 1]
        /\ UNCHANGED <<loop, member, tearing, peerPC, owner, stage, open, raced>>
    BY <1>12 DEF CreateFails, roomVars, roster, pion
  <2>2. CASE s # r
    BY <2>1, <2>2, RaceKept DEF ServerTypes
  <2>3. CASE s = r
    <3>1. starting[s] = 1 /\ s \in member /\ ~Reconnecting(s) /\ \A h \in open : owner[h] # s
      BY <1>1, <2>1, <2>3 DEF Undisturbed, SettingUp, ServerTypes
    <3>2. /\ starting'[s] = 0 /\ ~Reconnecting(s)' /\ s \in member'
          /\ \A h \in open' : owner'[h] # s
      BY <2>1, <2>3, <3>1 DEF Reconnecting, ServerTypes
    <3>. QED BY <3>2 DEF Undisturbed, Reconnecting
  <2>. QED BY <2>2, <2>3
<1>. QED BY <1>2, <1>3, <1>4, <1>5, <1>6, <1>7, <1>8, <1>9, <1>10, <1>11, <1>12, RaceReadLoop,
            TabFrame
         DEF Next, Setup
-----------------------------------------------------------------------------
(* Requests for a peer connection.                                         *)

\* What AskInv and AgainInv say of one session.
Alone(s) ==
    /\ Once(up[s]) /\ Once(down[s])
    /\ Busy(s) => ~Has(up[s], Asking) /\ ~Has(down[s], Asking)
    /\ ~(Has(up[s], Asking) /\ Has(down[s], Asking))
Idle(s) == ~Busy(s) /\ ~Has(up[s], Asking) /\ ~Has(down[s], Asking)
Calm(s) == ~Has(up[s], Again) /\ ~Busy(s) /\ ~Has(down[s], Again)
Load(s) == starting[s] + Cardinality(Asked(up[s])) + (IF Reconnecting(s) THEN 1 ELSE 0)

LEMMA Parts ==
    /\ AgainInv <=> \A s \in Sessions : s = ws => Calm(s) \/ ui = "stream"
    /\ AskInv <=> /\ ~stray
                  /\ \A s \in Sessions : s = ws => Alone(s) /\ (pc => Idle(s))
    /\ CountInv <=> \A s \in Sessions : Load(s) <= 1 + reconnects
BY DEF AgainInv, AskInv, CountInv, Alone, Idle, Calm, Load

\* Keeping the requests of a session as they are, or fewer.
Kept(s) ==
    /\ Alone(s) => Alone(s)'
    /\ Idle(s) => Idle(s)'
    /\ Calm(s) => Calm(s)'
    /\ Load(s)' <= Load(s)

LEMMA LoadType ==
    ASSUME ServerTypes, MessageTypes, NEW s \in Sessions
    PROVE  Load(s) \in Nat /\ Cardinality(Asked(up[s])) \in Nat /\ starting[s] \in Nat
<1>1. Cardinality(Asked(up[s])) \in Nat /\ starting[s] \in Nat
  BY AskedFinite DEF MessageTypes, ServerTypes
<1>. QED BY <1>1 DEF Load

LEMMA LoadTypeNext ==
    ASSUME Types, [Next]_vars, NEW s \in Sessions
    PROVE  Load(s)' \in Nat
<1>1. ServerTypes' /\ MessageTypes'
  BY ServerTypesNext, MessageTypesNext
<1>2. Cardinality(Asked(up'[s])) \in Nat /\ starting'[s] \in Nat
  BY <1>1, AskedFinite DEF MessageTypes, ServerTypes
<1>. QED BY <1>2 DEF Load

\* The queue to the tab is shorter, or has one more message that asks for
\* nothing, and what matters of the rest is as it was.
LEMMA KeptDown ==
    ASSUME ServerTypes, MessageTypes, NEW s \in Sessions,
           up'[s] = up[s], starting'[s] = starting[s], loop'[s] = loop[s],
           \/ down'[s] = down[s]
           \/ down[s] # <<>> /\ down'[s] = Tail(down[s])
           \/ \E m \in Down : m[1] \notin Asking /\ down'[s] = Append(down[s], m)
    PROVE  Kept(s)
<1>1. Load(s)' = Load(s) /\ (Busy(s)' <=> Busy(s))
  BY DEF Load, Reconnecting, Busy
<1>2. down[s] \in Seq(Down)
  BY DEF MessageTypes
<1>3. /\ \A types \in {Asking, Again} : Has(down'[s], types) => Has(down[s], types)
      /\ Once(down[s]) => Once(down'[s])
  <2>1. CASE down'[s] = down[s]
    BY <2>1
  <2>2. CASE down[s] # <<>> /\ down'[s] = Tail(down[s])
    BY <1>2, <2>2, QueueTail
  <2>3. ASSUME NEW m \in Down, m[1] \notin Asking, down'[s] = Append(down[s], m)
        PROVE  /\ \A types \in {Asking, Again} : Has(down'[s], types) => Has(down[s], types)
               /\ Once(down[s]) => Once(down'[s])
    BY <1>2, <2>3, QueueAppend DEF Asking, Again
  <2>. QED BY <2>1, <2>2, <2>3
<1>4. Load(s)' <= Load(s)
  BY <1>1, LoadType
<1>. QED BY <1>1, <1>3, <1>4 DEF Kept, Alone, Idle, Calm, Busy, Reconnecting

\* A message that asks for nothing is sent to the server, or read by it.
LEMMA KeptUp ==
    ASSUME ServerTypes, MessageTypes, NEW s \in Sessions,
           starting'[s] = starting[s], loop'[s] = loop[s],
           \/ up'[s] = up[s]
           \/ up[s] # <<>> /\ up'[s] = Tail(up[s])
           \/ \E m \in Up : m[1] \notin Asking /\ up'[s] = Append(up[s], m),
           \/ down'[s] = down[s]
           \/ \E m \in Down : m[1] \notin Asking /\ down'[s] = Append(down[s], m)
    PROVE  Kept(s)
<1>1. (Reconnecting(s)' <=> Reconnecting(s)) /\ (Busy(s)' <=> Busy(s))
  BY DEF Reconnecting, Busy
<1>2. down[s] \in Seq(Down) /\ up[s] \in Seq(Up)
  BY DEF MessageTypes
<1>3. /\ \A types \in {Asking, Again} : Has(down'[s], types) => Has(down[s], types)
      /\ Once(down[s]) => Once(down'[s])
  <2>1. ASSUME NEW m \in Down, m[1] \notin Asking, down'[s] = Append(down[s], m)
        PROVE  /\ \A types \in {Asking, Again} : Has(down'[s], types) => Has(down[s], types)
               /\ Once(down[s]) => Once(down'[s])
    BY <1>2, <2>1, QueueAppend DEF Asking, Again
  <2>. QED BY <2>1
<1>4. /\ \A types \in {Asking, Again} : Has(up'[s], types) => Has(up[s], types)
      /\ Once(up[s]) => Once(up'[s])
      /\ Cardinality(Asked(up'[s])) \in Nat
      /\ Cardinality(Asked(up'[s])) <= Cardinality(Asked(up[s]))
  <2>1. CASE up'[s] = up[s]
    BY <2>1, LoadType
  <2>2. CASE up[s] # <<>> /\ up'[s] = Tail(up[s])
    <3>1. Tail(up[s]) \in Seq(Up)
      BY <1>2, <2>2, HeadTailProperties
    <3>2. Cardinality(Asked(Tail(up[s]))) \in Nat /\ Cardinality(Asked(up[s])) \in Nat
      BY <1>2, <3>1, AskedFinite
    <3>3. Cardinality(Asked(Tail(up[s]))) <= Cardinality(Asked(up[s]))
      BY <1>2, <2>2, <3>2, AskedTail
    <3>4. /\ \A types \in {Asking, Again} : Has(Tail(up[s]), types) => Has(up[s], types)
          /\ Once(up[s]) => Once(Tail(up[s]))
      BY <1>2, <2>2, QueueTail
    <3>. QED BY <2>2, <3>2, <3>3, <3>4
  <2>3. ASSUME NEW m \in Up, m[1] \notin Asking, up'[s] = Append(up[s], m)
        PROVE  /\ \A types \in {Asking, Again} : Has(up'[s], types) => Has(up[s], types)
               /\ Once(up[s]) => Once(up'[s])
               /\ Cardinality(Asked(up'[s])) \in Nat
               /\ Cardinality(Asked(up'[s])) <= Cardinality(Asked(up[s]))
    <3>1. Cardinality(Asked(Append(up[s], m))) = Cardinality(Asked(up[s]))
      BY <1>2, <2>3, AskedAppend, AskedFinite
    <3>2. /\ \A types \in {Asking, Again} : Has(Append(up[s], m), types) => Has(up[s], types)
          /\ Once(up[s]) => Once(Append(up[s], m))
      BY <1>2, <2>3, QueueAppend DEF Asking, Again
    <3>. QED BY <2>3, <3>1, <3>2, LoadType
  <2>. QED BY <2>1, <2>2, <2>3
<1>5. Load(s)' <= Load(s)
  BY <1>1, <1>4, LoadType DEF Load
<1>. QED BY <1>1, <1>3, <1>4, <1>5 DEF Kept, Alone, Idle, Calm

\* The server never makes more of a request than there was.
LEMMA AskServer ==
    ASSUME Types, Server, NEW s \in Sessions
    PROVE  Kept(s)
<1>. USE DEF Types
<1>1. /\ up[s] \in Seq(Up) /\ down[s] \in Seq(Down)
      /\ Load(s) \in Nat /\ Cardinality(Asked(up[s])) \in Nat /\ starting[s] \in Nat
  BY LoadType DEF MessageTypes
<1>2. ASSUME NEW m, Reads(s, m)
      PROVE  /\ up[s] # <<>> /\ Head(up[s]) = m /\ up'[s] = Tail(up[s])
             /\ loop[s] = "reading" /\ ~Busy(s) /\ ~Reconnecting(s)
             /\ \A types \in {Asking, Again} : Has(up'[s], types) => Has(up[s], types)
             /\ Once(up[s]) => Once(up'[s])
             /\ m[1] \in Asking => /\ Has(up[s], Asking)
                                   /\ Once(up[s]) => ~Has(up'[s], Asking)
             /\ m[1] \in Again => Has(up[s], Again)
             /\ Cardinality(Asked(up'[s])) \in Nat
             /\ Cardinality(Asked(up[s]))
                  = Cardinality(Asked(up'[s])) + (IF m[1] \in Asking THEN 1 ELSE 0)
  <2>1. /\ up[s] # <<>> /\ Head(up[s]) = m /\ up'[s] = Tail(up[s]) /\ loop[s] = "reading"
    BY <1>2, ReadsTypes DEF Reads
  <2>2. Tail(up[s]) \in Seq(Up)
    BY <1>1, <2>1, HeadTailProperties
  <2>3. /\ Cardinality(Asked(Tail(up[s]))) \in Nat
        /\ Cardinality(Asked(up[s]))
             = Cardinality(Asked(Tail(up[s]))) + (IF m[1] \in Asking THEN 1 ELSE 0)
    BY <1>1, <2>1, <2>2, AskedFinite, AskedTail
  <2>4. /\ \A types : Has(Tail(up[s]), types) => Has(up[s], types)
        /\ \A types : m[1] \in types => Has(up[s], types)
        /\ Once(up[s]) => Once(Tail(up[s]))
        /\ Once(up[s]) /\ m[1] \in Asking => ~Has(Tail(up[s]), Asking)
    BY <1>1, <2>1, QueueTail
  <2>5. ~Busy(s) /\ ~Reconnecting(s)
    BY <2>1 DEF Busy, Reconnecting
  <2>. QED BY <2>1, <2>3, <2>4, <2>5
<1>3. ASSUME NEW m \in Down, SendDown(s, m)
      PROVE  down'[s] = down[s] \/ down'[s] = Append(down[s], m)
  BY <1>3, SendDownTypes
<1>4. ASSUME NEW r \in Sessions, r # s, ReadLoop(r) PROVE Kept(s)
  <2>1. /\ up'[s] = up[s] /\ starting'[s] = starting[s] /\ loop'[s] = loop[s]
    <3>1. ASSUME ReadJoin(r) \/ ReadLeave(r) \/ ReadAnswer(r)
          PROVE  up'[s] = up[s] /\ starting'[s] = starting[s] /\ loop'[s] = loop[s]
      BY <1>4, <3>1, ReadsTypes
         DEF ReadJoin, ReadLeave, ReadAnswer, setups, roomVars, ServerTypes
    <3>2. ASSUME ReadRestart(r) \/ ReadReconnect(r)
          PROVE  up'[s] = up[s] /\ starting'[s] = starting[s] /\ loop'[s] = loop[s]
      BY <1>4, <3>2, ReadsTypes DEF ReadRestart, ReadReconnect, setups, roomVars, ServerTypes
    <3>3. ASSUME CloseOld(r) \/ DropOld(r) \/ StartSetup(r) \/ Reply(r)
          PROVE  up'[s] = up[s] /\ starting'[s] = starting[s] /\ loop'[s] = loop[s]
      BY <1>4, <3>3 DEF CloseOld, DropOld, StartSetup, Reply, setups, messages, ServerTypes
    <3>. QED BY <1>4, <3>1, <3>2, <3>3 DEF ReadLoop
  <2>2. down'[s] = down[s]
    <3>1. ASSUME NEW m \in Down, SendDown(r, m) PROVE down'[s] = down[s]
      BY <1>4, <3>1, SendDownTypes
    <3>2. peerPC[r] \in open => SDP(peerPC[r]) \in Down
      BY Messages DEF ServerTypes
    <3>3. ASSUME ReadJoin(r) \/ ReadRestart(r) \/ Reply(r) PROVE down'[s] = down[s]
      BY <3>1, <3>2, <3>3, Messages DEF ReadJoin, ReadRestart, Reply, SendReply
    <3>. QED BY <1>4, <3>3 DEF ReadLoop, ReadLeave, ReadAnswer, ReadReconnect, CloseOld, DropOld,
                               StartSetup, messages
  <2>. QED BY <2>1, <2>2, KeptDown
<1>5. CASE ReadJoin(s)
  <2>1. Reads(s, Plain("join")) /\ Plain("join")[1] = "join" /\ "join" \in Asking
    BY <1>5, Messages DEF ReadJoin, Asking
  <2>2. /\ starting'[s] = starting[s] + 1 /\ loop'[s] = loop[s]
    BY <1>5 DEF ReadJoin, ServerTypes
  <2>3. down'[s] = down[s] \/ down'[s] = Append(down[s], Plain("welcome"))
    BY <1>3, <1>5, Messages DEF ReadJoin
  <2>4. /\ \A types : Has(Append(down[s], Plain("welcome")), types)
                        <=> Has(down[s], types) \/ "welcome" \in types
        /\ Once(down[s]) /\ ~Has(down[s], Asking) => Once(Append(down[s], Plain("welcome")))
    BY <1>1, QueueAppend, Messages
  <2>5. ~Busy(s)' /\ ~Reconnecting(s)'
    BY <1>2, <2>1, <2>2 DEF Busy, Reconnecting
  <2>6. Load(s)' <= Load(s)
    BY <1>1, <1>2, <2>1, <2>2, <2>5 DEF Load
  <2>. QED BY <1>2, <2>1, <2>3, <2>4, <2>5, <2>6 DEF Kept, Alone, Idle, Calm, Again
<1>6. CASE ReadLeave(s) \/ ReadAnswer(s) \/ ReadRestart(s)
  <2>1. /\ \E m : Reads(s, m)
        /\ starting' = starting /\ loop' = loop
    BY <1>6 DEF ReadLeave, ReadAnswer, ReadRestart, setups, roomVars
  <2>2. peerPC[s] \in open => SDP(peerPC[s]) \in Down /\ SDP(peerPC[s])[1] \notin Asking
    BY Messages DEF ServerTypes, Asking
  <2>3. \/ down'[s] = down[s]
        \/ \E m \in Down : m[1] \notin Asking /\ down'[s] = Append(down[s], m)
    BY <1>3, <1>6, <2>2 DEF ReadLeave, ReadAnswer, ReadRestart
  <2>. QED BY <1>2, <2>1, <2>3, KeptUp
<1>7. CASE ReadReconnect(s)
  <2>1. /\ Reads(s, Plain("reconnect")) /\ Plain("reconnect")[1] = "reconnect"
        /\ "reconnect" \in Asking /\ "reconnect" \in Again
    BY <1>7, Messages DEF ReadReconnect, Asking, Again
  <2>2. /\ starting'[s] = starting[s] /\ loop'[s] \in {"reading", "reconnecting"}
        /\ down'[s] = down[s]
    BY <1>7 DEF ReadReconnect, setups, ServerTypes
  <2>3. Load(s)' <= Load(s)
    BY <1>1, <1>2, <2>1, <2>2 DEF Load, Reconnecting
  <2>. QED BY <1>2, <2>1, <2>2, <2>3 DEF Kept, Alone, Idle, Calm
<1>8. CASE CloseOld(s) \/ DropOld(s) \/ StartSetup(s)
  <2>1. /\ UNCHANGED <<up, down>> /\ Reconnecting(s)
        /\ \/ starting'[s] = starting[s] /\ loop'[s] \in {"closed", "dropped"}
           \/ starting'[s] = starting[s] + 1 /\ loop'[s] = "reply"
    BY <1>8 DEF CloseOld, DropOld, StartSetup, messages, setups, Reconnecting, ServerTypes
  <2>2. Load(s)' <= Load(s)
    BY <1>1, <2>1 DEF Load, Reconnecting
  <2>3. Busy(s) /\ Busy(s)'
    BY <2>1 DEF Busy, Reconnecting
  <2>. QED BY <2>1, <2>2, <2>3 DEF Kept, Alone, Idle, Calm
<1>9. CASE Reply(s)
  <2>1. /\ up' = up /\ Busy(s) /\ ~Reconnecting(s)
        /\ starting'[s] = starting[s] /\ loop'[s] = "reading"
    BY <1>9 DEF Reply, setups, Busy, Reconnecting, ServerTypes
  <2>2. down'[s] = down[s] \/ down'[s] = Append(down[s], Plain("reconnected"))
    BY <1>3, <1>9, Messages DEF Reply, SendReply
  <2>3. Once(down[s]) /\ ~Has(down[s], Asking) => Once(Append(down[s], Plain("reconnected")))
    BY <1>1, QueueAppend, Messages
  <2>4. Load(s)' <= Load(s)
    BY <1>1, <2>1 DEF Load, Reconnecting
  <2>5. ~Busy(s)'
    BY <2>1 DEF Busy, Reconnecting
  <2>. QED BY <2>1, <2>2, <2>3, <2>4, <2>5 DEF Kept, Alone, Idle, Calm
<1>10. ASSUME NEW r \in Sessions, ReadError(r) PROVE Kept(s)
  <2>1. /\ loop[r] = "reading" /\ loop' = [loop EXCEPT ![r] = "gone"]
        /\ up' = [up EXCEPT ![r] = <<>>] /\ UNCHANGED <<down, starting>>
    BY <1>10 DEF ReadError, setups
  <2>2. CASE r # s
    BY <2>1, <2>2, KeptDown DEF ServerTypes, MessageTypes
  <2>3. CASE r = s
    <3>1. /\ up'[s] = <<>> /\ loop'[s] = "gone" /\ ~Busy(s)' /\ ~Reconnecting(s)'
          /\ ~Reconnecting(s)
      BY <2>1, <2>3 DEF ServerTypes, MessageTypes, Busy, Reconnecting
    <3>2. Load(s)' <= Load(s)
      BY <1>1, <2>1, <3>1, AskedShort DEF Load
    <3>. QED BY <2>1, <3>1, <3>2, QueueShort DEF Kept, Alone, Idle, Calm
  <2>. QED BY <2>2, <2>3
<1>11. ASSUME NEW r \in Sessions, CreatePC(r) \/ CreateFails(r) PROVE Kept(s)
  <2>1. /\ UNCHANGED <<up, down, loop>> /\ starting[r] > 0
        /\ starting' = [starting EXCEPT ![r] = @ - 1]
    BY <1>11 DEF CreatePC, CreateFails, messages, roomVars
  <2>2. starting'[s] \in Nat /\ starting'[s] <= starting[s]
    BY <2>1 DEF ServerTypes
  <2>3. (Busy(s)' <=> Busy(s)) /\ (Reconnecting(s)' <=> Reconnecting(s))
    BY <2>1 DEF Busy, Reconnecting
  <2>4. Load(s)' <= Load(s)
    BY <1>1, <2>1, <2>2, <2>3 DEF Load
  <2>. QED BY <2>1, <2>3, <2>4 DEF Kept, Alone, Idle, Calm
<1>12. ASSUME NEW g \in PCs, Offer(g) PROVE Kept(s)
  <2>1. /\ UNCHANGED <<up, loop, starting>> /\ SendDown(owner[g], SDP(g))
        /\ SDP(g) \in Down /\ SDP(g)[1] \notin Asking
    BY <1>12, Messages DEF Offer, roomVars, Asking
  <2>2. down'[s] = down[s] \/ down'[s] = Append(down[s], SDP(g))
    BY <2>1, SendDownTypes
  <2>. QED BY <2>1, <2>2, KeptUp
<1>13. ASSUME NEW g \in PCs,
              Watch(g) \/ Describe(g) \/ SetupFails(g) \/ Callback(g) \/ PCFails(g)
       PROVE  Kept(s)
  <2>1. UNCHANGED <<up, down, loop, starting>>
    BY <1>13 DEF Watch, Describe, SetupFails, Callback, PCFails, messages, roomVars, setups
  <2>. QED BY <2>1, KeptDown
<1>14. ASSUME NEW r \in Sessions, Teardown(r) PROVE Kept(s)
  <2>1. UNCHANGED <<up, down, loop, starting>>
    BY <1>14 DEF Teardown, messages, setups
  <2>. QED BY <2>1, KeptDown
<1>. QED BY <1>4, <1>5, <1>6, <1>7, <1>8, <1>9, <1>10, <1>11, <1>12, <1>13, <1>14
         DEF Server, Setup, ReadLoop
\* A new session has no request yet, and an opened one has its join.
LEMMA OpenRequests ==
    ASSUME Types, TabInv, ServerInv, NEW r \in Sessions, Connect(r) \/ Opened(r)
    PROVE  /\ ws' = r /\ pc' = FALSE /\ UNCHANGED <<stray, late, reconnects>>
           /\ Alone(r)' /\ Calm(r)'
           /\ \A s \in Sessions : Load(s)' <= 1 \/ Load(s)' <= Load(s)
<1>. USE DEF Types, ServerInv
<1>1. CASE Connect(r)
  <2>1. /\ ws' = r /\ pc = FALSE /\ UNCHANGED <<pc, stray, late, reconnects, loop, starting>>
        /\ \A s \in Sessions : /\ up'[s] = <<>> /\ down'[s] = <<>>
                               /\ loop[s] \in {"none", "gone"} /\ starting[s] = 0
    BY <1>1, ConnectEffect
  <2>2. \A s \in Sessions : ~Busy(s)' /\ ~Reconnecting(s)'
    BY <2>1 DEF Busy, Reconnecting
  <2>3. \A s \in Sessions : Load(s)' <= 1
    BY <2>1, <2>2, AskedShort DEF Load
  <2>. QED BY <2>1, <2>2, <2>3, QueueShort DEF Alone, Calm
<1>2. CASE Opened(r)
  <2>1. /\ sock[r] = "connecting" /\ loop' = [loop EXCEPT ![r] = "reading"]
        /\ up' = [up EXCEPT ![r] = <<Plain("join")>>] /\ down' = down
        /\ Unopened(r)
        /\ UNCHANGED <<ui, ws, pc, stray, late, reconnects, starting>>
    BY <1>2, OpenedEffect
  <2>2. ws' = r /\ pc' = FALSE
    BY <2>1 DEF TabInv, TabTypes
  <2>3. /\ up'[r] = <<Plain("join")>> /\ down'[r] = <<>> /\ loop'[r] = "reading"
        /\ starting'[r] = 0 /\ ~Busy(r)' /\ ~Reconnecting(r)'
    BY <2>1 DEF Unopened, Busy, Reconnecting, MessageTypes, ServerTypes
  <2>4. \A s \in Sessions : s # r => Load(s)' = Load(s) /\ Load(s) \in Nat
    BY <2>1, LoadType DEF Load, Reconnecting, MessageTypes, ServerTypes
  <2>5. Load(r)' <= 1
    <3>1. /\ Cardinality(Asked(<<Plain("join")>>)) <= 1
          /\ Cardinality(Asked(<<Plain("join")>>)) \in Nat
      <4>1. <<Plain("join")>> \in Seq(Up)
        BY Messages
      <4>. QED BY <4>1, AskedShort, AskedFinite
    <3>. QED BY <2>3, <3>1 DEF Load
  <2>6. \A s \in Sessions : Load(s)' <= 1 \/ Load(s)' <= Load(s)
    BY <2>4, <2>5
  <2>7. Alone(r)' /\ Calm(r)'
    BY <2>3, QueueShort, Messages DEF Alone, Calm, Again
  <2>. QED BY <2>1, <2>2, <2>6, <2>7
<1>. QED BY <1>1, <1>2

\* The tab reads a message.
LEMMA ReceivedKept ==
    ASSUME Types, NEW r \in Sessions, NEW m, Received(r, m), up' = up,
           UNCHANGED <<starting, loop>>, NEW s \in Sessions
    PROVE  Kept(s)
<1>1. down'[s] = down[s] \/ (down[s] # <<>> /\ down'[s] = Tail(down[s]))
  BY ReceivedTypes DEF Types
<1>. QED BY <1>1, KeptDown DEF Types

\* The tab sends a message that asks for nothing, or none.
LEMMA SentKept ==
    ASSUME Types, NEW m \in Up, m[1] \notin Asking, Send(m) \/ up' = up,
           UNCHANGED <<down, starting, loop>>, NEW s \in Sessions
    PROVE  Kept(s)
<1>1. up'[s] = up[s] \/ up'[s] = Append(up[s], m)
  BY SendTypes DEF Types
<1>. QED BY <1>1, KeptUp DEF Types

\* A step of the tab that asks for a new peer connection closes the old one.
LEMMA RequestNext ==
    ASSUME Types, TabInv, NEW s \in Sessions, Send(Plain("reconnect")), reconnects \in Nat,
           reconnects' = reconnects + 1, UNCHANGED <<down, starting, loop>>
    PROVE  /\ s = ws /\ Idle(s) => Alone(s)'
           /\ Load(s) <= 1 + reconnects => Load(s)' <= 1 + reconnects'
<1>. USE DEF Types
<1>1. /\ Plain("reconnect") \in Up /\ Plain("reconnect")[1] = "reconnect" /\ "reconnect" \in Asking
      /\ up[s] \in Seq(Up) /\ down[s] \in Seq(Down)
      /\ Load(s) \in Nat /\ Cardinality(Asked(up[s])) \in Nat /\ starting[s] \in Nat
  BY Messages, LoadType DEF Asking, MessageTypes
<1>2. up'[s] = up[s] \/ up'[s] = Append(up[s], Plain("reconnect"))
  BY <1>1, SendTypes
<1>3. (Busy(s)' <=> Busy(s)) /\ (Reconnecting(s)' <=> Reconnecting(s))
  BY DEF Busy, Reconnecting
<1>4. ASSUME Idle(s) PROVE Alone(s)'
  <2>1. ~Has(up[s], Asking) => Once(up[s]) /\ Once(Append(up[s], Plain("reconnect")))
    <3>1. ~Has(up[s], Asking) => Once(up[s])
      BY DEF Has, Once
    <3>. QED BY <1>1, <3>1, QueueAppend
  <2>2. ~Has(down[s], Asking) => Once(down[s])
    BY DEF Has, Once
  <2>. QED BY <1>2, <1>3, <1>4, <2>1, <2>2 DEF Idle, Alone
<1>5. ASSUME Load(s) <= 1 + reconnects PROVE Load(s)' <= 1 + reconnects'
  <2>1. Cardinality(Asked(Append(up[s], Plain("reconnect")))) = Cardinality(Asked(up[s])) + 1
    BY <1>1, AskedAppend
  <2>2. CASE up'[s] = up[s]
    <3>1. Load(s)' = Load(s)
      BY <1>3, <2>2 DEF Load
    <3>. QED BY <1>1, <1>5, <3>1
  <2>3. CASE up'[s] = Append(up[s], Plain("reconnect"))
    <3>1. Load(s)' = Load(s) + 1
      <4>1. Cardinality(Asked(up'[s])) = Cardinality(Asked(up[s])) + 1 /\ starting'[s] = starting[s]
        BY <2>1, <2>3
      <4>. QED BY <1>1, <1>3, <4>1 DEF Load
    <3>. QED BY <1>1, <1>5, <3>1
  <2>. QED BY <1>2, <2>2, <2>3
<1>. QED BY <1>4, <1>5

LEMMA RequestsNext ==
    Types /\ TabInv /\ ServerInv /\ AgainInv /\ OnceInv /\ CountInv /\ [Next]_vars
        => AgainInv' /\ OnceInv' /\ CountInv'
<1>. SUFFICES ASSUME Types, TabInv, ServerInv, AgainInv, OnceInv, CountInv, [Next]_vars
              PROVE  AgainInv' /\ OnceInv' /\ CountInv'
  OBVIOUS
<1>. USE DEF Types
<1>1. /\ \A s \in Sessions : s = ws => Calm(s) \/ ui = "stream"
      /\ ~late => ~stray /\ \A s \in Sessions : s = ws => Alone(s) /\ (pc => Idle(s))
      /\ \A s \in Sessions : Load(s) <= 1 + reconnects
      /\ reconnects \in Nat
      /\ \A s \in Sessions : Load(s) \in Nat
      /\ none \notin Sessions
      /\ pc \in BOOLEAN /\ stray \in BOOLEAN /\ late \in BOOLEAN
  BY Parts, LoadType, Numbers DEF OnceInv, TabTypes
<1>2. ASSUME /\ \A s \in Sessions : s = ws' => Calm(s)' \/ ui' = "stream"
             /\ late' \/ (~stray' /\ \A s \in Sessions : s = ws' => Alone(s)' /\ (pc' => Idle(s)'))
             /\ \A s \in Sessions : Load(s)' <= 1 + reconnects'
      PROVE  AgainInv' /\ OnceInv' /\ CountInv'
  BY <1>2 DEF AgainInv, OnceInv, AskInv, CountInv, Alone, Idle, Calm, Load, Busy, Reconnecting
<1>3. ASSUME \A s \in Sessions : Kept(s), UNCHANGED <<ui, ws, stray, late, reconnects>>,
             pc' => pc
      PROVE  AgainInv' /\ OnceInv' /\ CountInv'
  <2>1. \A s \in Sessions : Load(s)' <= Load(s) /\ Load(s)' \in Nat
    BY <1>3, LoadTypeNext DEF Kept
  <2>. QED BY <1>1, <1>2, <1>3, <2>1 DEF Kept
<1>4. ASSUME NEW r \in Sessions, Connect(r) \/ Opened(r)
      PROVE  AgainInv' /\ OnceInv' /\ CountInv'
  <2>1. /\ ws' = r /\ pc' = FALSE /\ UNCHANGED <<stray, late, reconnects>>
        /\ Alone(r)' /\ Calm(r)'
        /\ \A s \in Sessions : Load(s)' <= 1 \/ Load(s)' <= Load(s)
    BY <1>4, OpenRequests
  <2>2. \A s \in Sessions : Load(s)' \in Nat
    BY LoadTypeNext
  <2>3. \A s \in Sessions : Load(s)' <= 1 + reconnects'
    BY <1>1, <2>1, <2>2
  <2>. QED BY <1>1, <1>2, <2>1, <2>3
<1>5. ASSUME NEW socks, Cleanup(socks),
             socks \in [Sessions -> {"none", "connecting", "open", "closing", "closed"}],
             \A s \in Sessions : socks[s] = sock[s] \/ socks[s] = "closed",
             Send(Plain("leave")) \/ up' = up, UNCHANGED <<down, serverVars>>
      PROVE  AgainInv' /\ OnceInv' /\ CountInv'
  <2>1. ws' = none /\ pc' = FALSE /\ UNCHANGED <<stray, late, reconnects>>
    BY <1>5, CleanupEffect
  <2>2. Plain("leave") \in Up /\ Plain("leave")[1] \notin Asking
    BY Messages DEF Asking
  <2>3. \A s \in Sessions : Load(s)' <= Load(s) /\ Load(s)' \in Nat
    BY <1>5, <2>2, SentKept, LoadTypeNext DEF Kept, serverVars, roomVars, setups
  <2>. QED BY <1>1, <1>2, <2>1, <2>3
<1>6. ASSUME NEW r \in Sessions, OpenFails(r) \/ CloseEvent(r)
      PROVE  AgainInv' /\ OnceInv' /\ CountInv'
  <2>1. Cleanup([sock EXCEPT ![r] = "closed"]) /\ up' = up /\ UNCHANGED <<down, serverVars>>
    BY <1>6 DEF OpenFails, CloseEvent, messages
  <2>. QED BY <1>5, <2>1 DEF TabTypes
<1>7. CASE Leave
  BY <1>5, <1>7 DEF Leave, TabTypes
<1>8. ASSUME NEW r \in Sessions, NEW m, Received(r, m), m[1] \in Asking, InitPeerConnection,
             UNCHANGED <<ws, late, reconnects, up, serverVars>>,
             ui' = "stream" \/ ui' = ui
      PROVE  AgainInv' /\ OnceInv' /\ CountInv'
  <2>1. /\ r = ws /\ down[r] # <<>> /\ Head(down[r]) = m /\ down'[r] = Tail(down[r])
        /\ pc' = TRUE /\ stray' = (stray \/ pc)
    BY <1>8, ReceivedTypes DEF Received, TabInv, InitPeerConnection
  <2>2. UNCHANGED <<starting, loop>>
    BY <1>8 DEF serverVars, roomVars, setups
  <2>3. \A s \in Sessions : Kept(s)
    BY <1>8, <2>2, ReceivedKept
  <2>4. \A s \in Sessions : Load(s)' <= 1 + reconnects'
    <3>1. \A s \in Sessions : Load(s)' <= Load(s) /\ Load(s)' \in Nat
      BY <2>3, LoadTypeNext DEF Kept
    <3>. QED BY <1>1, <1>8, <3>1
  <2>5. ASSUME ~late PROVE ~stray' /\ Alone(r)' /\ Idle(r)'
    <3>1. Alone(r) /\ (pc => Idle(r)) /\ ~stray
      BY <1>1, <2>1, <2>5
    <3>2. /\ Has(down[r], Asking)
          /\ Once(down[r]) => ~Has(Tail(down[r]), Asking)
      BY <1>8, <2>1, QueueTail DEF MessageTypes
    <3>3. ~stray' /\ ~Busy(r) /\ ~Has(up[r], Asking) /\ ~Has(down'[r], Asking)
      BY <2>1, <3>1, <3>2 DEF Alone, Idle
    <3>4. Idle(r)'
      BY <1>8, <2>2, <3>3 DEF Idle, Busy, Reconnecting
    <3>. QED BY <2>3, <3>1, <3>3, <3>4 DEF Kept
  <2>. QED BY <1>1, <1>2, <1>8, <2>1, <2>3, <2>4, <2>5 DEF Kept
<1>9. ASSUME NEW r \in Sessions, ReceiveWelcome(r)
      PROVE  AgainInv' /\ OnceInv' /\ CountInv'
  <2>1. Plain("welcome")[1] \in Asking
    BY Messages DEF Asking
  <2>. QED BY <1>8, <1>9, <2>1 DEF ReceiveWelcome, tries
<1>10. ASSUME NEW r \in Sessions, ReceiveReconnected(r)
       PROVE  AgainInv' /\ OnceInv' /\ CountInv'
  <2>1. Plain("reconnected")[1] \in Asking
    BY Messages DEF Asking
  <2>. QED BY <1>8, <1>10, <2>1 DEF ReceiveReconnected, page, tries
<1>11. ASSUME NEW r \in Sessions, ReceiveOffer(r)
       PROVE  AgainInv' /\ OnceInv' /\ CountInv'
  <2>1. /\ \E m : Received(r, m)
        /\ UNCHANGED <<ui, ws, pc, stray, late, reconnects, up, starting, loop>>
    BY <1>11 DEF ReceiveOffer, page, health, tries, serverVars, roomVars, setups
  <2>. QED BY <1>3, <2>1, ReceivedKept
<1>12. CASE Answer
  <2>1. /\ Send(SDP(Head(ops).offer))
        /\ UNCHANGED <<ui, ws, pc, stray, late, reconnects, down, starting, loop>>
    BY <1>12 DEF Answer, page, health, tries, serverVars, roomVars, setups
  <2>2. SDP(Head(ops).offer) \in Up /\ SDP(Head(ops).offer)[1] \notin Asking
    BY <1>12, OfferTypes, Messages DEF Answer, Asking
  <2>. QED BY <1>3, <2>1, <2>2, SentKept
<1>13. CASE AnswerFails \/ IceConnects \/ PollStats
  <2>1. UNCHANGED <<ui, ws, pc, stray, late, reconnects, up, down, starting, loop>>
    <3>1. CASE AnswerFails
      BY <3>1 DEF AnswerFails, page, health, tries, messages, serverVars, roomVars, setups
    <3>2. CASE IceConnects
      BY <3>2 DEF IceConnects, page, messages, serverVars, roomVars, setups
    <3>3. CASE PollStats
      BY <3>3 DEF PollStats, page, pcVars, tries, messages, serverVars, roomVars, setups
    <3>. QED BY <1>13, <3>1, <3>2, <3>3
  <2>. QED BY <1>3, <2>1, KeptDown
<1>14. CASE PathRegresses
  <2>1. /\ Send(Plain("restart"))
        /\ UNCHANGED <<ui, ws, pc, stray, late, reconnects, down, starting, loop>>
    BY <1>14 DEF PathRegresses, page, pcVars, serverVars, roomVars, setups
  <2>2. Plain("restart") \in Up /\ Plain("restart")[1] \notin Asking
    BY Messages DEF Asking
  <2>. QED BY <1>3, <2>1, <2>2, SentKept
<1>15. ASSUME Send(Plain("reconnect")), reconnects' = reconnects + 1, pc' = FALSE,
              ui = "stream", late' \/ (pc /\ ~late),
              UNCHANGED <<ui, ws, stray, down, starting, loop>>
       PROVE  AgainInv' /\ OnceInv' /\ CountInv'
  <2>1. \A s \in Sessions : /\ s = ws /\ Idle(s) => Alone(s)'
                            /\ Load(s)' <= 1 + reconnects'
    BY <1>1, <1>15, RequestNext
  <2>. QED BY <1>1, <1>2, <1>15, <2>1
<1>16. CASE IceFails
  <2>1. CASE retries = MaxRetries
    <3>1. UNCHANGED <<ui, ws, pc, stray, late, reconnects, up, down, starting, loop>>
      BY <1>16, <2>1 DEF IceFails, page, pcVars, serverVars, roomVars, setups
    <3>. QED BY <1>3, <3>1, KeptDown
  <2>2. CASE retries # MaxRetries
    <3>1. /\ pc /\ Send(Plain("reconnect")) /\ reconnects' = reconnects + 1 /\ pc' = FALSE
          /\ UNCHANGED <<ui, ws, stray, late, down, starting, loop>>
      BY <1>16, <2>2 DEF IceFails, FailurePC, ClosePC, page, serverVars, roomVars, setups
    <3>2. ui = "stream"
      BY <3>1 DEF TabInv
    <3>. QED BY <1>1, <1>15, <3>1, <3>2
  <2>. QED BY <2>1, <2>2
<1>17. CASE VideoFreezes
  <2>1. /\ poll /\ Send(Plain("reconnect")) /\ reconnects' = reconnects + 1 /\ pc' = FALSE
        /\ late' = (late \/ ~pc)
        /\ UNCHANGED <<ui, ws, stray, down, starting, loop>>
    BY <1>17 DEF VideoFreezes, ClosePC, page, serverVars, roomVars, setups
  <2>2. ui = "stream"
    BY <2>1 DEF TabInv
  <2>. QED BY <1>1, <1>15, <2>1, <2>2
<1>18. CASE Server
  <2>1. UNCHANGED <<ui, ws, pc, stray, late, reconnects>>
    BY <1>18, ServerKeepsTab DEF tabVars, page, pcVars, health, tries
  <2>. QED BY <1>3, <1>18, <2>1, AskServer
<1>19. CASE UNCHANGED vars
  <2>1. UNCHANGED <<ui, ws, pc, stray, late, reconnects, up, down, starting, loop>>
    BY <1>19 DEF vars, tabVars, page, pcVars, health, tries, messages, serverVars, roomVars, setups
  <2>. QED BY <1>3, <2>1, KeptDown
<1>. QED BY <1>4, <1>6, <1>7, <1>9, <1>10, <1>11, <1>12, <1>13, <1>14, <1>16, <1>17, <1>18, <1>19
         DEF Next, Tab, Server

-----------------------------------------------------------------------------
LEMMA InitInv == Init => IInv
<1>. SUFFICES ASSUME Init PROVE IInv
  OBVIOUS
<1>1. Types
  <2>1. /\ <<>> \in Seq([offer : PCs, queued : BOOLEAN]) /\ <<>> \in Seq(PCs) /\ Len(<<>>) = 0
        /\ <<>> \in Seq(Up) /\ <<>> \in Seq(Down)
    BY EmptySeq
  <2>2. TabTypes
    <3>1. /\ ops \in Seq([offer : PCs, queued : BOOLEAN]) /\ pending \in Seq(PCs)
          /\ cursor \in 0 .. Len(pending)
      BY <2>1 DEF Init, AtRest
    <3>2. /\ retries \in 0 .. MaxRetries /\ reconnects \in 0 .. MaxReconnects
          /\ restarts \in 0 .. MaxRestarts
      BY SessionAssumption DEF Init, AtRest
    <3>. QED BY <3>1, <3>2 DEF Init, AtRest, TabTypes
  <2>3. MessageTypes
    BY <2>1 DEF Init, AtRest, MessageTypes
  <2>4. ServerTypes
    BY DEF Init, AtRest, ServerTypes, Stages
  <2>. QED BY <2>2, <2>3, <2>4 DEF Types
<1>2. TabInv /\ FreshInv
  BY Numbers DEF Init, AtRest, TabInv, FreshInv, Unopened
<1>3. JoinInv /\ PCInv /\ RaceInv
  <2>1. \A s \in Sessions : up[s] = <<>> /\ Len(up[s]) = 0
    BY DEF Init, AtRest
  <2>. QED BY <2>1, Numbers
           DEF Init, AtRest, JoinInv, PCInv, RaceInv, Undisturbed, Reconnecting, SettingUp
<1>4. AgainInv /\ OnceInv
  BY Numbers DEF Init, AtRest, AgainInv, OnceInv, AskInv
<1>5. CountInv
  BY AskedShort DEF Init, AtRest, CountInv, Reconnecting
<1>. QED BY <1>1, <1>2, <1>3, <1>4, <1>5 DEF IInv, ServerInv

LEMMA NextInv == IInv /\ [Next]_vars => IInv'
BY TabTypesNext, MessageTypesNext, ServerTypesNext, TabInvNext, FreshNext, JoinNext, PCNext,
   RaceNext, RequestsNext DEF IInv, Types, ServerInv

THEOREM SessionInvariance == Spec => []IInv
BY InitInv, NextInv, PTL DEF Spec

\* The tab makes no second peer connection while it has one, unless a freeze
\* showed in the statistics of one that was gone (initPeerConnection,
\* handleIceConnectionFailure, checkForFreeze in play.js).
THEOREM OneAtATime == Spec => []OneConnectionInTab
<1>1. IInv => OneConnectionInTab
  BY DEF IInv, Types, TabTypes, OnceInv, AskInv, OneConnectionInTab
<1>. QED BY <1>1, SessionInvariance, PTL

\* A peer connection of the server that nobody will close is left by a race
\* only: a departure or a reconnect that overtook a set-up, or a departure
\* that overtook a reconnect (setupPeerConnection, handleReconnect,
\* handleDisconnect in stream.go).
THEOREM LeaksAreRaces == Spec => []OnlyRacesLeak
<1>1. ASSUME IInv, NEW g \in open
      PROVE  owner[g] \in raced \/ (g = peerPC[owner[g]] /\ owner[g] \in member \cup tearing)
  <2>1. g \in PCs /\ owner[g] \in Sessions
    BY <1>1 DEF IInv, Types, ServerTypes, ServerInv, PCInv
  <2>. QED BY <1>1, <2>1 DEF IInv, ServerInv, RaceInv, Undisturbed
<1>2. IInv => OnlyRacesLeak
  BY <1>1 DEF OnlyRacesLeak
<1>. QED BY <1>2, SessionInvariance, PTL

\* Both ends keep their types, for any numbers of sessions, reconnects,
\* restarts and retries; no more set-ups wait than were asked for.
THEOREM SessionTypes == Spec => []TypeOK
<1>1. ASSUME IInv, NEW s \in Sessions PROVE starting[s] \in 0 .. 1 + MaxReconnects
  <2>1. /\ Load(s) \in Nat /\ Cardinality(Asked(up[s])) \in Nat /\ starting[s] \in Nat
    BY <1>1, LoadType DEF IInv, Types
  <2>2. Load(s) <= 1 + reconnects /\ reconnects \in 0 .. MaxReconnects
    BY <1>1, Parts DEF IInv, Types, TabTypes
  <2>. QED BY <2>1, <2>2, SessionAssumption DEF Load
<1>2. IInv => TypeOK
  <2>. SUFFICES ASSUME IInv PROVE TypeOK
    OBVIOUS
  <2>1. starting \in [Sessions -> 0 .. 1 + MaxReconnects]
    BY <1>1 DEF IInv, Types, ServerTypes
  <2>. QED BY <2>1 DEF IInv, Types, TabTypes, MessageTypes, ServerTypes, TypeOK
<1>. QED BY <1>2, SessionInvariance, PTL
=============================================================================
