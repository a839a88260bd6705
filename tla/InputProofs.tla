----------------------------- MODULE InputProofs -----------------------------
(***************************************************************************)
(* Theorems about Input, for every set of connections, devices and         *)
(* gamepads and every bound.  A step of Input is a step of Room or leaves  *)
(* the room alone, so that what RoomProofs shows of the room holds here    *)
(* too; on top of it InputInv says what a read loop may be working on and  *)
(* that a connection stands for one peer.  What the tabs know of their     *)
(* pads and of their role is in TabProofs.                                 *)
(***************************************************************************)
EXTENDS Input, RoomProofs, FiniteSetTheorems, SequenceTheorems

\* The two queues of a connection are sequences of what may be sent on them.
Queues ==
    /\ sent \in [Conns -> Seq(PadRequests)]
    /\ replies \in [Conns -> Seq(Messages)]

\* A peer in the room has a connection, no other peer ever had it, and an id
\* that is not handed out has none.
OnePeer ==
    /\ \A p \in PeerIds : p > nextPeerID => conn[p] = nil
    /\ \A p \in peers : conn[p] \in Conns
    /\ \A p, q \in PeerIds : conn[p] \in Conns /\ conn[p] = conn[q] => p = q

\* What a read loop owes fits what it is doing, and is a claim or the end of a
\* release exactly while the room's handler of it is under way.
LoopFits(op, work) ==
    /\ op = "claim" <=> work.kind = "claim"
    /\ op = "release" => work.kind = "released"
    /\ op \notin {"read", "claim", "release"} => work = Idle
    /\ work.kind \notin {"release", "permission"}
LoopWork == \A c \in Conns : LoopFits(task[c].op, owes[c])

Joined(c) == \E p \in PeerIds : conn[p] = c

\* Nothing has been sent on a connection that has not joined.
Unjoined ==
    \A c \in Conns : ~Joined(c) =>
        /\ owes[c] = Idle
        /\ sent[c] = <<>> /\ replies[c] = <<>>
        /\ tab[c] = FreshTab

\* A message past its tests uses a right that its peer has not used on that
\* channel since it lost it, and only players ever used one.
GateInv ==
    \A ch \in Channels :
        /\ \A p \in PeerIds : /\ late[ch][p] \cap RightsOf(p) = {}
                              /\ late[ch][p] # {} => slot[p] > 0
        /\ gate[ch] # NoMessage => gate[ch].right \notin late[ch][gate[ch].peer]

\* The inductive invariant of the tabs, the loops and the wires.
InputInv ==
    /\ IInv
    /\ InputTypeOK
    /\ Queues
    /\ OnePeer
    /\ LoopWork
    /\ Unjoined

-----------------------------------------------------------------------------
\* What the two queues and the read loops carry, by kind.
LEMMA MessageShape ==
    ASSUME NEW m \in Messages
    PROVE  /\ m.kind \in {"role", "permission", "claimed", "released"}
           /\ m.kind = "role" => m.slot \in PlayerSlots /\ m.enabled \in SUBSET Devices
           /\ m.kind = "permission" => m.device \in Devices /\ m.on \in BOOLEAN
           /\ m.kind = "claimed" => m.gamepad \in Gamepads /\ m.pad \in PadSlots
           /\ m.kind = "released" => m.pad \in PadSlots
BY DEF Messages, Role, Permission, Claimed, Released

LEMMA RequestShape ==
    ASSUME NEW m \in PadRequests
    PROVE  /\ m.kind \in {"claim", "release"}
           /\ m.kind = "claim" => m.gamepad \in Gamepads /\ m = Claim(m.gamepad)
           /\ m.kind = "release" => m.pad \in PadSlots /\ m = Release(m.pad)
BY DEF PadRequests, Claim, Release

LEMMA WorkShape ==
    ASSUME NEW w \in Work
    PROVE  /\ w.kind \in {"role", "permission", "claimed", "released", "claim", "release",
                           "idle", "welcome", "promoted", "reconnected", "partly", "ensure"}
           /\ w.kind \in {"role", "permission", "claimed", "released"} <=> w \in Messages
           /\ w.kind = "idle" => w = Idle
           /\ w.kind = "welcome" => w.slot \in {0, 1}
           /\ w.kind = "partly" => /\ w.slot \in PlayerSlots
                                   /\ w.enabled \in SUBSET Devices /\ w.unread \in SUBSET Devices
           /\ w.kind = "claim" => w.gamepad \in Gamepads
           /\ w.kind = "ensure" => w.gamepad \in Gamepads /\ w.pad \in PadSlots
           /\ w.kind = "claimed" => w.gamepad \in Gamepads /\ w.pad \in PadSlots
           /\ w.kind = "released" => w.pad \in PadSlots
<1>1. CASE w \in Messages
  BY <1>1, MessageShape
<1>2. CASE w \in PadRequests
  <2>1. w \notin Messages
    BY <1>2, MessageShape, RequestShape
  <2>. QED BY <1>2, <2>1, RequestShape
<1>3. CASE w = Idle
  BY <1>3, MessageShape DEF Idle
<1>4. ASSUME NEW k \in {"welcome", "promoted", "reconnected"}, NEW n \in {0, 1}, w = ToBuild(k, n)
      PROVE  /\ w.kind = k /\ w.slot = n
             /\ w \notin Messages
  BY <1>4, MessageShape DEF ToBuild
<1>5. ASSUME NEW b \in Gamepads, NEW s \in PadSlots, w = Ensure(b, s)
      PROVE  /\ w.kind = "ensure" /\ w.gamepad = b /\ w.pad = s
             /\ w \notin Messages
  BY <1>5, MessageShape DEF Ensure
<1>6. ASSUME NEW n \in PlayerSlots, NEW e \in SUBSET Devices, NEW u \in SUBSET Devices,
             w = Partly(n, e, u)
      PROVE  /\ w.kind = "partly" /\ w.slot = n /\ w.enabled = e /\ w.unread = u
             /\ w \notin Messages
  BY <1>6, MessageShape DEF Partly
<1>. QED BY <1>1, <1>2, <1>3, <1>4, <1>5, <1>6 DEF Work

\* Nothing a loop works on stands for another thing.
LEMMA WorkKinds ==
    /\ Idle \in Work /\ Idle.kind = "idle"
    /\ \A k \in {"welcome", "promoted", "reconnected"}, n \in {0, 1} :
         ToBuild(k, n) \in Work /\ ToBuild(k, n).kind = k /\ ToBuild(k, n).slot = n
    /\ \A b \in Gamepads :
         Claim(b) \in PadRequests /\ Claim(b) \in Work
         /\ Claim(b).kind = "claim" /\ Claim(b).gamepad = b
    /\ \A s \in PadSlots :
         Release(s) \in PadRequests /\ Release(s).kind = "release" /\ Release(s).pad = s
    /\ \A b \in Gamepads, s \in PadSlots :
         /\ Ensure(b, s) \in Work /\ Ensure(b, s).kind = "ensure"
         /\ Ensure(b, s).gamepad = b /\ Ensure(b, s).pad = s
         /\ Claimed(b, s) \in Messages /\ Claimed(b, s).kind = "claimed"
         /\ Claimed(b, s).gamepad = b /\ Claimed(b, s).pad = s
    /\ \A s \in PadSlots :
         Released(s) \in Messages /\ Released(s).kind = "released" /\ Released(s).pad = s
    /\ \A n \in PlayerSlots, e \in SUBSET Devices :
         /\ Role(n, e) \in Messages /\ Role(n, e).kind = "role"
         /\ Role(n, e).slot = n /\ Role(n, e).enabled = e
    /\ \A d \in Devices, on \in BOOLEAN :
         /\ Permission(d, on) \in Messages /\ Permission(d, on).kind = "permission"
         /\ Permission(d, on).device = d /\ Permission(d, on).on = on
    /\ Messages \subseteq Work
<1>1. Messages \subseteq Work /\ Idle \in Work /\ PadRequests \subseteq Work
  BY DEF Work
<1>2. \A k \in {"welcome", "promoted", "reconnected"}, n \in {0, 1} : ToBuild(k, n) \in Work
  BY DEF Work
<1>3. \A b \in Gamepads, s \in PadSlots : Ensure(b, s) \in Work
  BY DEF Work
<1>4. /\ \A b \in Gamepads : Claim(b) \in PadRequests
      /\ \A s \in PadSlots : Release(s) \in PadRequests
  BY DEF PadRequests
<1>5. /\ \A b \in Gamepads, s \in PadSlots : Claimed(b, s) \in Messages
      /\ \A s \in PadSlots : Released(s) \in Messages
      /\ \A n \in PlayerSlots, e \in SUBSET Devices : Role(n, e) \in Messages
      /\ \A d \in Devices, on \in BOOLEAN : Permission(d, on) \in Messages
  BY DEF Messages
<1>. QED
  BY <1>1, <1>2, <1>3, <1>4, <1>5
  DEF Idle, ToBuild, Claim, Release, Ensure, Claimed, Released, Role, Permission

\* An answer with permissions to read, or with none left.
LEMMA AnswerShape ==
    ASSUME NEW n \in PlayerSlots, NEW e \in SUBSET Devices, NEW u \in SUBSET Devices
    PROVE  /\ Answer(n, e, u) \in Work
           /\ Answer(n, e, u).slot = n /\ Answer(n, e, u).enabled = e
           /\ \/ u = {} /\ Answer(n, e, u).kind = "role"
              \/ /\ u # {} /\ Answer(n, e, u).kind = "partly"
                 /\ Answer(n, e, u).unread = u
<1>1. CASE u = {}
  BY <1>1, WorkKinds DEF Answer
<1>2. CASE u # {}
  <2>1. Partly(n, e, u) \in Work
    BY DEF Work
  <2>. QED BY <1>2, <2>1 DEF Answer, Partly
<1>. QED BY <1>1, <1>2

\* A queue after its first message was taken, and after one was added.
LEMMA Taken ==
    ASSUME NEW S, NEW q \in Seq(S), q # <<>>
    PROVE  /\ Tail(q) \in Seq(S) /\ Head(q) \in S /\ Head(q) = q[1]
           /\ 1 \in DOMAIN q /\ DOMAIN q = 1 .. Len(q) /\ DOMAIN Tail(q) = 1 .. Len(q) - 1
           /\ Len(q) \in Nat \ {0}
           /\ \A i \in 1 .. Len(q) - 1 : Tail(q)[i] = q[i + 1]
BY HeadTailProperties, EmptySeq, LenProperties, ElementOfSeq

LEMMA Added ==
    ASSUME NEW S, NEW q \in Seq(S), NEW m \in S
    PROVE  /\ Append(q, m) \in Seq(S)
           /\ Len(q) \in Nat /\ DOMAIN q = 1 .. Len(q) /\ DOMAIN Append(q, m) = 1 .. Len(q) + 1
           /\ Append(q, m)[Len(q) + 1] = m
           /\ \A i \in 1 .. Len(q) : Append(q, m)[i] = q[i]
BY AppendProperties, LenProperties

-----------------------------------------------------------------------------
\* A connection that joined has one peer, its PeerOf.
LEMMA PeerOfJoined ==
    ASSUME NEW c \in Conns, Joined(c)
    PROVE  PeerOf(c) \in PeerIds /\ conn[PeerOf(c)] = c
BY DEF Joined, PeerOf

LEMMA PeerOfPeer ==
    ASSUME InputInv, NEW p \in peers
    PROVE  /\ p \in PeerIds /\ conn[p] \in Conns /\ Joined(conn[p]) /\ InRoom(conn[p])
           /\ PeerOf(conn[p]) = p
<1>1. p \in PeerIds /\ conn[p] \in Conns /\ Joined(conn[p]) /\ InRoom(conn[p])
  BY DEF InputInv, OnePeer, Joined, InRoom, IInv, TypeOK
<1>2. conn[PeerOf(conn[p])] = conn[p] /\ PeerOf(conn[p]) \in PeerIds
  BY <1>1, PeerOfJoined
<1>. QED BY <1>1, <1>2 DEF InputInv, OnePeer

\* A read loop builds an answer, field by field.
Answering(c) == BuildAnswer(c) \/ \E d \in Devices : ReadPermission(c, d)

\* A read loop with anything to do has joined.
LEMMA WorkersJoined ==
    ASSUME InputInv, NEW c \in Conns,
           owes[c] # Idle \/ task[c].op \notin {"read", "gone"} \/ InRoom(c)
    PROVE  Joined(c)
BY DEF InputInv, IInv, TypeOK, Unjoined, TaskRoles, Joined, InRoom

\* What it then owes is told apart by its kind, and all else stays.
LEMMA AnswerSteps ==
    ASSUME InputInv, NEW c \in Conns, Answering(c)
    PROVE  /\ owes[c].kind \in {"welcome", "promoted", "reconnected", "partly"}
           /\ \E w \in Work : /\ w.kind \in {"idle", "partly", "role"}
                              /\ owes' = [owes EXCEPT ![c] = w]
           /\ UNCHANGED <<vars, announce, gamepads, wireVars, gate>>
<1> DEFINE p == PeerOf(c)
<1>0. owes[c] \in Work
  BY DEF InputInv, InputTypeOK
<1>1. owes[c] # Idle
  BY WorkKinds DEF Answering, BuildAnswer, ReadPermission
<1>2. slot[p] \in PlayerSlots /\ enabled[p] \in SUBSET Devices
  <2>1. p \in PeerIds
    BY <1>1, WorkersJoined, PeerOfJoined
  <2>. QED BY <2>1 DEF InputInv, IInv, TypeOK
<1> HIDE DEF p
<1>3. CASE BuildAnswer(c)
  <2> DEFINE n == IF owes[c].kind = "welcome" THEN owes[c].slot ELSE slot[p]
             w == IF owes[c].kind = "promoted" /\ n = 0 THEN Idle ELSE Answer(n, {}, Devices)
  <2>1. n \in PlayerSlots
    BY <1>0, <1>2, WorkShape, RoomAssumption DEF PlayerSlots
  <2>2. Answer(n, {}, Devices) \in Work /\ Answer(n, {}, Devices).kind \in {"partly", "role"}
    BY <2>1, AnswerShape
  <2>3. w \in Work /\ w.kind \in {"idle", "partly", "role"}
    BY <2>2, WorkKinds
  <2>4. /\ owes' = [owes EXCEPT ![c] = w]
        /\ owes[c].kind \in {"welcome", "promoted", "reconnected"}
        /\ UNCHANGED <<vars, announce, gamepads, wireVars, gate>>
    BY <1>3 DEF BuildAnswer, Works, p
  <2> HIDE DEF w
  <2>. QED BY <2>3, <2>4
<1>4. ASSUME NEW d \in Devices, ReadPermission(c, d)
      PROVE  /\ owes[c].kind = "partly"
             /\ \E w \in Work : /\ w.kind \in {"partly", "role"}
                                /\ owes' = [owes EXCEPT ![c] = w]
             /\ UNCHANGED <<vars, announce, gamepads, wireVars, gate>>
  <2> DEFINE known == owes[c].enabled \cup (enabled[p] \cap {d})
             w == Answer(owes[c].slot, known, owes[c].unread \ {d})
  <2>1. /\ owes[c].kind = "partly"
        /\ owes' = [owes EXCEPT ![c] = w]
        /\ UNCHANGED <<vars, announce, gamepads, wireVars, gate>>
    BY <1>4 DEF ReadPermission, Works, p
  <2>2. /\ owes[c].slot \in PlayerSlots
        /\ known \in SUBSET Devices /\ (owes[c].unread \ {d}) \in SUBSET Devices
    BY <1>0, <1>2, <2>1, WorkShape
  <2>3. w \in Work /\ w.kind \in {"partly", "role"}
    BY <2>2, AnswerShape
  <2> HIDE DEF w
  <2>. QED BY <2>1, <2>3
<1>. QED BY <1>3, <1>4 DEF Answering

-----------------------------------------------------------------------------
\* A step of Input is a step of the room, or leaves it alone.
LEMMA RoomStep ==
    ASSUME InputInv, InputNext
    PROVE  [Next]_vars
<1>1. ASSUME NEW c \in Conns, ReadLoop(c) PROVE [Next]_vars
  <2>1. CASE ReleaseAndAnswer(c)
    <3>1. owes[c] \in Work /\ owes[c].kind = "released"
      BY <2>1 DEF ReleaseAndAnswer, InputInv, InputTypeOK, LoopWork, LoopFits
    <3>2. owes[c].pad \in PadSlots
      BY <3>1, WorkShape
    <3>. QED BY <2>1, <3>2 DEF ReleaseAndAnswer, Next, Handler
  <2>2. CASE ReadReconnect(c) \/ Answering(c) \/ SendAnswer(c) \/ EnsureGamepad(c)
    BY <2>2 DEF ReadReconnect, Answering, BuildAnswer, ReadPermission, SendAnswer, EnsureGamepad
  <2>3. CASE \/ JoinAndAnswer(c) \/ ReadJoinAsPlayer(c) \/ JoinAsPlayerAndAnswer(c)
            \/ ReadSetGuest(c) \/ Depart(c) \/ ReadClaim(c) \/ ClaimAndAnswer(c)
            \/ ReadRelease(c)
    BY <2>3 DEF JoinAndAnswer, ReadJoinAsPlayer, JoinAsPlayerAndAnswer, ReadSetGuest, Depart,
                ReadClaim, ClaimAndAnswer, ReadRelease, Next, Handler
  <2>4. CASE \E d \in Devices, on \in BOOLEAN, target \in PeerIds \cup {nil} :
               SetGuestAndTell(c, d, on, target)
    BY <2>4 DEF SetGuestAndTell, Next, Handler
  <2>. QED BY <1>1, <2>1, <2>2, <2>3, <2>4 DEF ReadLoop, Answering
<1>2. ASSUME NEW c \in Conns, Tab(c) PROVE UNCHANGED vars
  BY <1>2 DEF Tab, PollClaims, Unplug, Learn
<1>3. ASSUME NEW p \in PeerIds, LosePeerConnection(p) \/ TellSuccessor(p)
      PROVE  [Next]_vars
  BY <1>3 DEF LosePeerConnection, TellSuccessor, Next
<1>4. ASSUME NEW ch \in Channels, DataChannel(ch) PROVE UNCHANGED vars
  BY <1>4 DEF DataChannel, TestPermission, TestOwner, Pass, Finish
<1>. QED BY <1>1, <1>2, <1>3, <1>4 DEF InputNext

\* The room's invariant, and so its types, carry over.
LEMMA RoomNext ==
    ASSUME InputInv, [InputNext]_allVars
    PROVE  IInv' /\ TypeOK'
<1>1. [Next]_vars
  BY RoomStep DEF allVars
<1>. QED BY <1>1, NextInv DEF InputInv, IInv
-----------------------------------------------------------------------------
\* The histories keep their types.
LEMMA HistoryTypes ==
    ASSUME InputTypeOK, Histories
    PROVE  crossed' \subseteq PeerIds /\ late' \in [Channels -> [PeerIds -> SUBSET Rights]]
BY DEF Histories, InputTypeOK, TypeOK

\* Closing sockets keeps the types, and what is on the other sockets.
LEMMA CloseTypes ==
    ASSUME InputInv, NEW leavers \in SUBSET PeerIds, Close(leavers)
    PROVE  /\ Queues'
           /\ tab' \in [Conns -> [slot : PlayerSlots, enabled : SUBSET Devices,
                                  gamepads : [Gamepads -> PadSlots \cup {none}]]]
           /\ announce' \subseteq PeerIds
           /\ owes' = owes /\ gamepads' = gamepads /\ doubled' = doubled /\ gate' = gate
<1>1. /\ <<>> \in Seq(PadRequests)
      /\ <<>> \in Seq(Messages)
  BY EmptySeq
<1>2. FreshTab \in [slot : PlayerSlots, enabled : SUBSET Devices,
                     gamepads : [Gamepads -> PadSlots \cup {none}]]
  BY RoomAssumption DEF FreshTab, PlayerSlots
<1>. QED BY <1>1, <1>2 DEF InputInv, InputTypeOK, Queues, Close

\* The queues of a tab hold what may be on them.
LEMMA QueueContents ==
    ASSUME NEW f \in [Conns -> Seq(PadRequests)], NEW g \in [Conns -> Seq(Messages)],
           NEW c \in Conns
    PROVE  /\ \A i \in DOMAIN f[c] : f[c][i] \in PadRequests
           /\ \A i \in DOMAIN g[c] : g[c][i] \in Messages
BY ElementOfSeq, LenProperties

\* A step that leaves a tab's queues as they are but for a message taken or
\* added keeps their types.
LEMMA QueueTypes ==
    ASSUME Queues
    PROVE  /\ \A c \in Conns, m \in PadRequests :
                [sent EXCEPT ![c] = Append(@, m)] \in [Conns -> Seq(PadRequests)]
           /\ \A c \in Conns : sent[c] # <<>> =>
                /\ [sent EXCEPT ![c] = Tail(@)] \in [Conns -> Seq(PadRequests)]
                /\ Head(sent[c]) \in PadRequests
           /\ \A c \in Conns, m \in Messages :
                [replies EXCEPT ![c] = Append(@, m)] \in [Conns -> Seq(Messages)]
           /\ \A told, m \in Messages :
                [t \in Conns |-> IF t \in told THEN Append(replies[t], m) ELSE replies[t]]
                  \in [Conns -> Seq(Messages)]
           /\ \A c \in Conns : replies[c] # <<>> =>
                /\ [replies EXCEPT ![c] = Tail(@)] \in [Conns -> Seq(Messages)]
                /\ Head(replies[c]) \in Messages
<1>1. \A c \in Conns : sent[c] \in Seq(PadRequests) /\ replies[c] \in Seq(Messages)
  BY DEF Queues
<1>2. \A c \in Conns, m \in PadRequests : Append(sent[c], m) \in Seq(PadRequests)
  BY <1>1, AppendProperties
<1>3. \A c \in Conns, m \in Messages : Append(replies[c], m) \in Seq(Messages)
  BY <1>1, AppendProperties
<1>4. \A c \in Conns : sent[c] # <<>> => Tail(sent[c]) \in Seq(PadRequests) /\ Head(sent[c]) \in PadRequests
  BY <1>1, HeadTailProperties
<1>5. \A c \in Conns : replies[c] # <<>> => Tail(replies[c]) \in Seq(Messages) /\ Head(replies[c]) \in Messages
  BY <1>1, HeadTailProperties
<1>. QED BY <1>1, <1>2, <1>3, <1>4, <1>5 DEF Queues

\* The types of Input's own variables, and of its queues as sequences.
OwnTypes ==
    /\ owes \in [Conns -> Work]
    /\ announce \subseteq PeerIds
    /\ Queues
    /\ tab \in [Conns -> [slot : PlayerSlots, enabled : SUBSET Devices,
                          gamepads : [Gamepads -> PadSlots \cup {none}]]]
    /\ gamepads \subseteq PadSlots
    /\ gate \in [Channels -> [peer : PeerIds, right : Rights] \cup {NoMessage}]
    /\ doubled \subseteq Conns

\* A read loop keeps the types.
LEMMA ReadLoopTypes ==
    ASSUME InputInv, NEW c \in Conns, ReadLoop(c)
    PROVE  OwnTypes'
<1> USE DEF OwnTypes, wireVars, serverVars
<1>0. OwnTypes /\ owes[c] \in Work
  BY DEF InputInv, InputTypeOK
<1>1. CASE JoinAndAnswer(c)
  BY <1>0, <1>1, WorkKinds DEF JoinAndAnswer, Works, Queues
<1>2. CASE ReadJoinAsPlayer(c) \/ ReadSetGuest(c)
  BY <1>0, <1>2 DEF ReadJoinAsPlayer, ReadSetGuest, Queues
<1>3. CASE JoinAsPlayerAndAnswer(c) \/ ReadReconnect(c)
  <2>1. ToBuild("promoted", 0) \in Work /\ ToBuild("reconnected", 0) \in Work
    BY WorkKinds
  <2>2. /\ owes' \in [Conns -> Work]
        /\ UNCHANGED <<announce, sent, replies, tab, gamepads, gate, doubled>>
    BY <1>0, <1>3, <2>1 DEF JoinAsPlayerAndAnswer, ReadReconnect, Works
  <2>. QED BY <1>0, <2>2 DEF Queues
<1>4. CASE Answering(c)
  BY <1>0, <1>4, AnswerSteps DEF Queues
<1>5. CASE SendAnswer(c)
  <2>1. replies' \in [Conns -> Seq(Messages)]
    <3>1. owes[c] \in Messages
      BY <1>5 DEF SendAnswer
    <3>2. [replies EXCEPT ![c] = Append(@, owes[c])] \in [Conns -> Seq(Messages)]
      BY <1>0, <3>1, QueueTypes
    <3>3. replies' = replies \/ replies' = [replies EXCEPT ![c] = Append(@, owes[c])]
      BY <1>5 DEF SendAnswer
    <3>. QED BY <1>0, <3>2, <3>3 DEF Queues
  <2>. QED BY <1>0, <1>5, <2>1, WorkKinds DEF SendAnswer, Works, Queues
<1>6. CASE Depart(c)
  <2>1. (peers \ peers') \in SUBSET PeerIds
    BY DEF InputInv, IInv, TypeOK
  <2>. QED BY <1>0, <1>6, <2>1, CloseTypes DEF Depart
<1>7. CASE ReadClaim(c)
  <2>1. /\ sent' \in [Conns -> Seq(PadRequests)]
        /\ Head(sent[c]) \in Work
    BY <1>0, <1>7, QueueTypes DEF ReadClaim, Work
  <2>. QED BY <1>0, <1>7, <2>1 DEF ReadClaim, Works, Queues
<1>8. CASE ReadRelease(c)
  <2>1. /\ sent' \in [Conns -> Seq(PadRequests)]
        /\ Head(sent[c]) \in PadRequests
    BY <1>0, <1>8, QueueTypes DEF ReadRelease
  <2>2. Released(Head(sent[c]).pad) \in Work
    BY <1>8, <2>1, RequestShape, WorkKinds DEF ReadRelease
  <2>. QED BY <1>0, <1>8, <2>1, <2>2 DEF ReadRelease, Works, Queues
<1>9. CASE ClaimAndAnswer(c)
  <2>1. owes[c].gamepad \in Gamepads
    BY <1>0, <1>9, WorkShape DEF ClaimAndAnswer, ClaimGamepad, InputInv, LoopWork, LoopFits
  <2>2. owes' \in [Conns -> Work]
    BY <1>0, <1>9, <2>1, WorkKinds DEF ClaimAndAnswer, Works, FreePads
  <2>. QED BY <1>0, <1>9, <2>2 DEF ClaimAndAnswer, Queues
<1>10. CASE EnsureGamepad(c)
  <2>1. owes[c].gamepad \in Gamepads /\ owes[c].pad \in PadSlots
    BY <1>0, <1>10, WorkShape DEF EnsureGamepad
  <2>2. Claimed(owes[c].gamepad, owes[c].pad) \in Work
    BY <2>1, WorkKinds
  <2>. QED BY <1>0, <1>10, <2>1, <2>2 DEF EnsureGamepad, Works, Queues
<1>11. CASE ReleaseAndAnswer(c)
  BY <1>0, <1>11 DEF ReleaseAndAnswer, Queues
<1>12. ASSUME NEW d \in Devices, NEW on \in BOOLEAN, NEW target \in PeerIds \cup {nil},
              SetGuestAndTell(c, d, on, target)
       PROVE  OwnTypes'
  <2>1. replies' \in [Conns -> Seq(Messages)]
    BY <1>0, <1>12, QueueTypes, WorkKinds DEF SetGuestAndTell
  <2>. QED BY <1>0, <1>12, <2>1 DEF SetGuestAndTell, Queues
<1>. QED BY <1>1, <1>2, <1>3, <1>4, <1>5, <1>6, <1>7, <1>8, <1>9, <1>10, <1>11, <1>12 
     DEF ReadLoop, Answering

\* So does a tab,
LEMMA TabTypes ==
    ASSUME InputInv, NEW c \in Conns, Tab(c)
    PROVE  OwnTypes'
<1> USE DEF OwnTypes, wireVars, serverVars
<1>0. OwnTypes /\ tab[c] \in [slot : PlayerSlots, enabled : SUBSET Devices,
                              gamepads : [Gamepads -> PadSlots \cup {none}]]
  BY DEF InputInv, InputTypeOK
<1>1. ASSUME NEW b \in Gamepads, PollClaims(c, b) PROVE OwnTypes'
  <2>1. sent' \in [Conns -> Seq(PadRequests)]
    BY <1>0, <1>1, QueueTypes, WorkKinds DEF PollClaims
  <2>. QED BY <1>0, <1>1, <2>1 DEF PollClaims, Queues
<1>2. ASSUME NEW b \in Gamepads, Unplug(c, b) PROVE OwnTypes'
  <2>1. tab[c].gamepads[b] \in PadSlots
    BY <1>0, <1>2 DEF Unplug
  <2>2. sent' \in [Conns -> Seq(PadRequests)]
    BY <1>0, <1>2, <2>1, QueueTypes, WorkKinds DEF Unplug
  <2>3. [tab[c] EXCEPT !.gamepads[b] = none]
          \in [slot : PlayerSlots, enabled : SUBSET Devices,
               gamepads : [Gamepads -> PadSlots \cup {none}]]
    BY <1>0
  <2>4. tab' = [tab EXCEPT ![c] = [tab[c] EXCEPT !.gamepads[b] = none]]
    BY <1>2 DEF Unplug
  <2>. QED BY <1>0, <1>2, <2>2, <2>3, <2>4 DEF Unplug, Queues
<1>3. CASE Learn(c)
  <2> DEFINE m == Head(replies[c])
             t == tab[c]
             TabType == [slot : PlayerSlots, enabled : SUBSET Devices,
                         gamepads : [Gamepads -> PadSlots \cup {none}]]
  <2>1. replies' \in [Conns -> Seq(Messages)] /\ m \in Messages
    BY <1>0, <1>3, QueueTypes DEF Learn
  <2>2. m.kind = "role" => [t EXCEPT !.slot = m.slot, !.enabled = m.enabled] \in TabType
    BY <1>0, <2>1, MessageShape
  <2>3. m.kind = "permission" => [t EXCEPT !.enabled = Permit(@, m.device, m.on)] \in TabType
    BY <1>0, <2>1, MessageShape DEF Permit
  <2>4. m.kind = "claimed" => [t EXCEPT !.gamepads[m.gamepad] = m.pad] \in TabType
    BY <1>0, <2>1, MessageShape
  <2>5. [t EXCEPT !.gamepads = [b \in Gamepads |-> IF @[b] = m.pad THEN none ELSE @[b]]] \in TabType
    BY <1>0
  <2>6. tab' = [tab EXCEPT ![c] = tab'[c]] /\ tab'[c] \in TabType
    BY <1>0, <1>3, <2>1, <2>2, <2>3, <2>4, <2>5, MessageShape DEF Learn
  <2>. QED BY <1>0, <1>3, <2>1, <2>6 DEF Learn, Queues
<1>. QED BY <1>1, <1>2, <1>3 DEF Tab

\* and so does everything else.
LEMMA OtherTypes ==
    ASSUME InputInv,
           \/ \E p \in PeerIds : LosePeerConnection(p) \/ TellSuccessor(p)
           \/ \E ch \in Channels : DataChannel(ch)
           \/ UNCHANGED allVars
    PROVE  OwnTypes'
<1> USE DEF OwnTypes, wireVars, serverVars
<1>0. OwnTypes
  BY DEF InputInv, InputTypeOK
<1>1. ASSUME NEW p \in PeerIds, LosePeerConnection(p) PROVE OwnTypes'
  <2>1. (peers \ peers') \in SUBSET PeerIds
    BY DEF InputInv, IInv, TypeOK
  <2>. QED BY <1>0, <1>1, <2>1, CloseTypes DEF LosePeerConnection
<1>2. ASSUME NEW p \in PeerIds, TellSuccessor(p) PROVE OwnTypes'
  <2>1. Role(1, Devices) \in Messages
    BY WorkKinds, RoomAssumption DEF PlayerSlots
  <2>2. replies' \in [Conns -> Seq(Messages)]
    BY <1>0, <1>2, <2>1, QueueTypes DEF TellSuccessor
  <2>. QED BY <1>0, <1>2, <2>2 DEF TellSuccessor, Queues
<1>3. ASSUME NEW ch \in Channels, NEW p \in PeerIds, NEW right \in Rights, Pass(ch, p, right)
      PROVE  OwnTypes'
  BY <1>0, <1>3 DEF Pass, Queues
<1>4. ASSUME NEW ch \in Channels, DataChannel(ch) PROVE OwnTypes'
  BY <1>0, <1>3, <1>4 DEF DataChannel, TestPermission, TestOwner, Finish, Rights, Queues
<1>5. CASE UNCHANGED allVars
  BY <1>0, <1>5 DEF allVars, Queues
<1>. QED BY <1>1, <1>2, <1>3, <1>4, <1>5

LEMMA InputTypeNext ==
    ASSUME InputInv, [InputNext]_allVars
    PROVE  InputTypeOK' /\ Queues'
<1>1. OwnTypes'
  BY ReadLoopTypes, TabTypes, OtherTypes DEF InputNext
<1>2. TypeOK'
  BY RoomNext
<1>3. crossed' \subseteq PeerIds /\ late' \in [Channels -> [PeerIds -> SUBSET Rights]]
  BY HistoryTypes DEF InputNext, InputInv, InputTypeOK, allVars
<1>4. \A c \in Conns : /\ \A i \in DOMAIN sent'[c] : sent'[c][i] \in PadRequests
                       /\ \A i \in DOMAIN replies'[c] : replies'[c][i] \in Messages
  BY <1>1, QueueContents DEF OwnTypes, Queues
<1>. QED BY <1>1, <1>2, <1>3, <1>4 DEF OwnTypes, InputTypeOK

-----------------------------------------------------------------------------
\* Only a join changes whose connection a peer has; peers only leave otherwise.
LEMMA ConnSteps ==
    ASSUME [Next]_vars
    PROVE  \/ conn' = conn /\ nextPeerID' = nextPeerID /\ peers' \subseteq peers
           \/ \E c \in Conns : Join(c)
<1> USE DEF vars, roomVars, peerVars
<1>1. ASSUME NEW c \in Conns, Handler(c), ~Join(c)
      PROVE  conn' = conn /\ nextPeerID' = nextPeerID /\ peers' \subseteq peers
  <2>1. CASE LeaveRoom(c) \/ ReadError(c)
    BY <2>1 DEF LeaveRoom, ReadError, RemovePeer
  <2>2. CASE \/ BeginJoinAsPlayer(c) \/ BeginClaimGamepad(c) \/ BeginReleaseGamepad(c)
            \/ BeginSetQuality(c) \/ BeginSetGuest(c)
    BY <2>2 DEF BeginJoinAsPlayer, BeginClaimGamepad, BeginReleaseGamepad, BeginSetQuality,
                BeginSetGuest, Begin
  <2>3. CASE \/ JoinAsPlayer(c) \/ ClaimGamepad(c) \/ ReadSettings(c) \/ RestartVideo(c)
            \/ (\E s \in PadSlots : ReleaseGamepad(c, s))
            \/ (\E v \in Requests : SetQuality(c, v))
            \/ (\E d \in Devices, on \in BOOLEAN, target \in PeerIds \cup {nil} :
                 SetGuest(c, d, on, target))
    BY <2>3 DEF JoinAsPlayer, ClaimGamepad, ReadSettings, RestartVideo, ReleaseGamepad, SetQuality,
                SetGuest
  <2>. QED BY <1>1, <2>1, <2>2, <2>3 DEF Handler
<1>2. ASSUME NEW q \in PeerIds, PeerConnectionLost(q)
      PROVE  conn' = conn /\ nextPeerID' = nextPeerID /\ peers' \subseteq peers
  BY <1>2 DEF PeerConnectionLost, RemovePeer
<1>. QED BY <1>1, <1>2 DEF Next

LEMMA OnePeerNext ==
    ASSUME InputInv, [InputNext]_allVars
    PROVE  OnePeer'
<1>0. [Next]_vars /\ OnePeer /\ TypeOK
  BY RoomStep DEF allVars, InputInv, IInv
<1>1. CASE conn' = conn /\ nextPeerID' = nextPeerID /\ peers' \subseteq peers
  BY <1>0, <1>1 DEF OnePeer
<1>2. ASSUME NEW c \in Conns, Join(c) PROVE OnePeer'
  <2> DEFINE new == nextPeerID + 1
  <2>1. /\ peers' = peers \cup {new} /\ conn' = [conn EXCEPT ![new] = c]
        /\ nextPeerID' = new /\ \A q \in PeerIds : q > new => q > nextPeerID
        /\ \A q \in PeerIds : conn[q] # c
        /\ new \in PeerIds
    BY <1>0, <1>2, InputAssumption, RoomAssumption DEF Join, TypeOK, PeerIds
  <2>0. \A q \in PeerIds : q > new => q # new
    BY <2>1 DEF PeerIds
  <2> HIDE DEF new
  <2>2. \A q \in PeerIds : conn'[q] = IF q = new THEN c ELSE conn[q]
    BY <1>0, <2>1 DEF TypeOK
  <2>3. \A q \in PeerIds : q > new => conn'[q] = nil
    BY <1>0, <2>0, <2>1, <2>2 DEF OnePeer
  <2>4. \A p \in peers' : conn'[p] \in Conns
    BY <1>0, <2>1, <2>2 DEF OnePeer, TypeOK
  <2>5. \A p, q \in PeerIds : conn'[p] \in Conns /\ conn'[p] = conn'[q] => p = q
    BY <1>0, <2>1, <2>2 DEF OnePeer
  <2>. QED BY <2>1, <2>3, <2>4, <2>5 DEF OnePeer
<1>. QED BY <1>0, <1>1, <1>2, ConnSteps

\* A read loop's step is its own: it leaves the others where they are, and
\* works on what fits its task.
LEMMA LoopStep ==
    ASSUME InputInv, NEW c \in Conns, ReadLoop(c)
    PROVE  /\ \A b \in Conns \ {c} : task'[b] = task[b] /\ owes'[b] = owes[b]
           /\ LoopFits(task'[c].op, owes'[c])
<1>0. /\ owes \in [Conns -> Work] /\ owes[c] \in Work
      /\ task \in [Conns -> [op : Ops, peer : PeerIds \cup {nil}, arg : Qualities]]
      /\ LoopFits(task[c].op, owes[c])
  BY DEF InputInv, InputTypeOK, IInv, TypeOK, LoopWork
<1> USE <1>0 DEF wireVars, serverVars, vars, roomVars, peerVars
<1>1. CASE JoinAndAnswer(c)
  <2>1. /\ task' = task /\ task[c] = Reading
        /\ \E n \in {0, 1} : owes' = [owes EXCEPT ![c] = ToBuild("welcome", n)]
    BY <1>1 DEF JoinAndAnswer, Join, Works
  <2>. QED BY <2>1, WorkKinds DEF LoopFits, Reading
<1>2. CASE ReadJoinAsPlayer(c) \/ ReadSetGuest(c)
  <2>1. /\ owes' = owes /\ owes[c] = Idle
        /\ \E op \in {"joinAsPlayer", "guest"}, p \in peers :
             task' = [task EXCEPT ![c] = [op |-> op, peer |-> p, arg |-> DefaultQuality]]
    BY <1>2 DEF ReadJoinAsPlayer, ReadSetGuest, BeginJoinAsPlayer, BeginSetGuest, Begin, FindPeer
  <2>. QED BY <2>1, WorkKinds DEF LoopFits
<1>3. CASE JoinAsPlayerAndAnswer(c)
  <2>1. task' = [task EXCEPT ![c] = Reading] /\ owes' = [owes EXCEPT ![c] = ToBuild("promoted", 0)]
    BY <1>3 DEF JoinAsPlayerAndAnswer, JoinAsPlayer, Done, Works
  <2>. QED BY <2>1, WorkKinds DEF LoopFits, Reading
<1>4. CASE ReadReconnect(c)
  <2>1. /\ task' = task /\ task[c] = Reading
        /\ owes' = [owes EXCEPT ![c] = ToBuild("reconnected", 0)]
    BY <1>4 DEF ReadReconnect, Works
  <2>. QED BY <2>1, WorkKinds DEF LoopFits, Reading
<1>5. CASE Answering(c)
  <2>1. /\ task' = task
        /\ owes[c].kind \in {"welcome", "promoted", "reconnected", "partly"}
        /\ \E w \in Work : /\ w.kind \in {"idle", "partly", "role"}
                           /\ owes' = [owes EXCEPT ![c] = w]
    BY <1>5, AnswerSteps
  <2>2. task[c].op = "read"
    BY <2>1, WorkKinds DEF LoopFits
  <2>. QED BY <2>1, <2>2 DEF LoopFits
<1>6. CASE SendAnswer(c)
  <2>1. task' = task /\ task[c] = Reading /\ owes' = [owes EXCEPT ![c] = Idle]
    BY <1>6 DEF SendAnswer, Works
  <2>. QED BY <2>1, WorkKinds DEF LoopFits, Reading
<1>7. CASE Depart(c)
  <2>1. owes' = owes /\ owes[c] = Idle /\ (task' = task \/ task' = [task EXCEPT ![c] = Gone])
    BY <1>7 DEF Depart, Close, LeaveRoom, ReadError
  <2>. QED BY <2>1, WorkKinds DEF LoopFits, Gone
<1>8. CASE ReadClaim(c)
  <2>1. owes' = [owes EXCEPT ![c] = Head(sent[c])] /\ Head(sent[c]).kind = "claim"
    BY <1>8 DEF ReadClaim, Works
  <2>2. \E p \in peers : task' = [task EXCEPT ![c] = [op |-> "claim", peer |-> p, arg |-> DefaultQuality]]
    BY <1>8 DEF ReadClaim, BeginClaimGamepad, Begin, FindPeer
  <2>. QED BY <2>1, <2>2 DEF LoopFits
<1>9. CASE ReadRelease(c)
  <2>1. owes' = [owes EXCEPT ![c] = Released(Head(sent[c]).pad)]
    BY <1>9 DEF ReadRelease, Works
  <2>2. \E p \in peers : task' = [task EXCEPT ![c] = [op |-> "release", peer |-> p, arg |-> DefaultQuality]]
    BY <1>9 DEF ReadRelease, BeginReleaseGamepad, Begin, FindPeer
  <2>. QED BY <2>1, <2>2 DEF LoopFits, Released
<1>10. CASE ClaimAndAnswer(c)
  <2>1. task' = [task EXCEPT ![c] = Reading]
    BY <1>10 DEF ClaimAndAnswer, ClaimGamepad, Done
  <2>2. \E w : owes' = [owes EXCEPT ![c] = w] /\ w.kind \in {"idle", "ensure"}
    BY <1>10, WorkKinds DEF ClaimAndAnswer, Works, Ensure
  <2>. QED BY <2>1, <2>2 DEF LoopFits, Reading
<1>11. CASE EnsureGamepad(c)
  <2>1. /\ task' = task /\ owes[c].kind = "ensure"
        /\ owes' = [owes EXCEPT ![c] = Claimed(owes[c].gamepad, owes[c].pad)]
    BY <1>11 DEF EnsureGamepad, Works
  <2>2. task[c].op = "read"
    BY <2>1, WorkKinds DEF LoopFits
  <2>. QED BY <2>1, <2>2 DEF LoopFits, Claimed
<1>12. CASE ReleaseAndAnswer(c)
  <2>1. /\ task' = [task EXCEPT ![c] = Reading] /\ owes' = owes /\ task[c].op = "release"
    BY <1>12 DEF ReleaseAndAnswer, ReleaseGamepad, Done
  <2>. QED BY <2>1 DEF LoopFits, Reading
<1>13. ASSUME NEW d \in Devices, NEW on \in BOOLEAN, NEW target \in PeerIds \cup {nil},
              SetGuestAndTell(c, d, on, target)
       PROVE  /\ \A b \in Conns \ {c} : task'[b] = task[b] /\ owes'[b] = owes[b]
              /\ LoopFits(task'[c].op, owes'[c])
  <2>1. /\ task' = [task EXCEPT ![c] = Reading] /\ owes' = owes /\ task[c].op = "guest"
    BY <1>13 DEF SetGuestAndTell, SetGuest, Done
  <2>. QED BY <2>1, WorkKinds DEF LoopFits, Reading
<1>. QED BY <1>1, <1>2, <1>3, <1>4, <1>5, <1>6, <1>7, <1>8, <1>9, <1>10, <1>11, <1>12, <1>13
     DEF ReadLoop, Answering

\* Nothing else moves a read loop.
LEMMA LoopsAlone ==
    ASSUME \/ \E c \in Conns : Tab(c)
           \/ \E p \in PeerIds : LosePeerConnection(p) \/ TellSuccessor(p)
           \/ \E ch \in Channels : DataChannel(ch)
           \/ UNCHANGED allVars
    PROVE  task' = task /\ owes' = owes
<1> USE DEF wireVars, serverVars, vars, roomVars, peerVars
<1>1. ASSUME NEW c \in Conns, Tab(c) PROVE task' = task /\ owes' = owes
  BY <1>1 DEF Tab, PollClaims, Unplug, Learn
<1>2. ASSUME NEW p \in PeerIds, LosePeerConnection(p) \/ TellSuccessor(p)
      PROVE  task' = task /\ owes' = owes
  BY <1>2 DEF LosePeerConnection, PeerConnectionLost, Close, TellSuccessor
<1>3. ASSUME NEW ch \in Channels, DataChannel(ch) PROVE task' = task /\ owes' = owes
  BY <1>3 DEF DataChannel, TestPermission, TestOwner, Pass, Finish
<1>. QED BY <1>1, <1>2, <1>3 DEF allVars

LEMMA LoopWorkNext ==
    ASSUME InputInv, [InputNext]_allVars
    PROVE  LoopWork'
<1>1. ASSUME NEW c \in Conns, ReadLoop(c) PROVE LoopWork'
  BY <1>1, LoopStep DEF LoopWork, InputInv
<1>2. CASE task' = task /\ owes' = owes
  BY <1>2 DEF LoopWork, InputInv
<1>. QED BY <1>1, <1>2, LoopsAlone DEF InputNext

-----------------------------------------------------------------------------
\* A join gives a connection to an id that had none.
LEMMA JoinConn ==
    ASSUME InputInv, NEW c \in Conns, Join(c)
    PROVE  /\ nextPeerID + 1 \in PeerIds /\ conn[nextPeerID + 1] = nil
           /\ conn' = [conn EXCEPT ![nextPeerID + 1] = c]
           /\ peers' = peers \cup {nextPeerID + 1}
           /\ ~Joined(c)
<1>1. nextPeerID + 1 \in PeerIds /\ nextPeerID + 1 > nextPeerID
  BY RoomAssumption DEF Join, InputInv, IInv, TypeOK, PeerIds
<1>. QED BY <1>1, InputAssumption DEF InputInv, OnePeer, Join, Joined

\* Whoever has joined stays joined.
LEMMA StaysJoined ==
    ASSUME InputInv, [InputNext]_allVars, NEW b \in Conns, Joined(b)
    PROVE  Joined(b)'
<1>1. CASE conn' = conn
  BY <1>1 DEF Joined
<1>2. ASSUME NEW c \in Conns, Join(c) PROVE Joined(b)'
  <2>1. PICK p \in PeerIds : conn[p] = b
    BY DEF Joined
  <2>2. p # nextPeerID + 1
    BY <1>2, <2>1, JoinConn, InputAssumption
  <2>3. conn'[p] = b
    BY <1>2, <2>1, <2>2, JoinConn DEF InputInv, IInv, TypeOK
  <2>. QED BY <2>3 DEF Joined
<1>. QED BY <1>1, <1>2, ConnSteps, RoomStep DEF allVars

\* Who leaves in a departure: the peer of the connection, or nobody.
LEMMA Leavers ==
    ASSUME InputInv, NEW c \in Conns, LeaveRoom(c) \/ ReadError(c)
    PROVE  /\ \A p \in peers \ peers' : p \in PeerIds /\ conn[p] = c
           /\ conn' = conn
BY DEF LeaveRoom, ReadError, RemovePeer, FindPeer, InputInv, IInv, TypeOK, roomVars, peerVars

\* To the other connections a read loop does nothing, except that the host's
\* tells peers in the room of their permissions.
LEMMA OtherWires ==
    ASSUME InputInv, NEW c \in Conns, ReadLoop(c), NEW b \in Conns, b # c
    PROVE  /\ sent'[b] = sent[b] /\ tab'[b] = tab[b]
           /\ \/ replies'[b] = replies[b]
              \/ /\ InRoom(b)
                 /\ \E m \in Messages : m.kind = "permission" /\ replies'[b] = Append(replies[b], m)
<1> USE DEF wireVars, serverVars
<1>0. OwnTypes
  BY DEF InputInv, InputTypeOK, OwnTypes
<1>1. CASE Depart(c)
  BY <1>1, Leavers DEF Depart, Close
<1>2. ASSUME NEW d \in Devices, NEW on \in BOOLEAN, NEW target \in PeerIds \cup {nil},
             SetGuestAndTell(c, d, on, target)
      PROVE  /\ sent' = sent /\ tab' = tab
             /\ \/ replies'[b] = replies[b]
                \/ /\ InRoom(b)
                   /\ \E m \in Messages : m.kind = "permission" /\ replies'[b] = Append(replies[b], m)
  BY <1>2, WorkKinds DEF SetGuestAndTell, Addressed, InRoom
<1>3. CASE SendAnswer(c)
  BY <1>0, <1>3 DEF SendAnswer, OwnTypes, Queues
<1>4. CASE \/ JoinAndAnswer(c) \/ ReadJoinAsPlayer(c) \/ JoinAsPlayerAndAnswer(c)
          \/ ReadReconnect(c) \/ Answering(c) \/ ReadSetGuest(c) \/ ClaimAndAnswer(c)
          \/ EnsureGamepad(c) \/ ReleaseAndAnswer(c)
  BY <1>4 DEF JoinAndAnswer, ReadJoinAsPlayer, JoinAsPlayerAndAnswer, ReadReconnect, Answering,
              BuildAnswer, ReadPermission, ReadSetGuest, ClaimAndAnswer, EnsureGamepad, ReleaseAndAnswer
<1>5. CASE ReadClaim(c) \/ ReadRelease(c)
  BY <1>0, <1>5 DEF ReadClaim, ReadRelease, OwnTypes, Queues
<1>. QED BY <1>1, <1>2, <1>3, <1>4, <1>5 DEF ReadLoop, Answering

\* A connection that has not joined only reads; no step of its own read loop
\* but its joining changes what it owes and what is on its way.
LEMMA UnjoinedLoop ==
    ASSUME InputInv, NEW c \in Conns, ReadLoop(c), ~Joined(c)
    PROVE  \/ Join(c)
           \/ /\ owes'[c] = Idle
              /\ sent'[c] = <<>> /\ replies'[c] = <<>> /\ tab'[c] = FreshTab
<1> USE DEF wireVars, serverVars
<1>0. /\ OwnTypes
      /\ owes[c] = Idle /\ task[c].op \in {"read", "gone"} /\ ~InRoom(c)
      /\ sent[c] = <<>> /\ replies[c] = <<>> /\ tab[c] = FreshTab
  BY WorkersJoined DEF InputInv, InputTypeOK, OwnTypes, Unjoined
<1>1. CASE Depart(c)
  BY <1>0, <1>1 DEF Depart, Close
<1>2. ASSUME NEW d \in Devices, NEW on \in BOOLEAN, NEW target \in PeerIds \cup {nil},
             SetGuestAndTell(c, d, on, target)
      PROVE  FALSE
  BY <1>0, <1>2 DEF SetGuestAndTell, SetGuest
<1>3. ~SendAnswer(c) /\ ~Answering(c) /\ ~EnsureGamepad(c)
  BY <1>0, AnswerSteps, WorkKinds, MessageShape DEF SendAnswer, EnsureGamepad
<1>4. ~JoinAsPlayerAndAnswer(c) /\ ~ClaimAndAnswer(c) /\ ~ReleaseAndAnswer(c)
  BY <1>0 DEF JoinAsPlayerAndAnswer, JoinAsPlayer, ClaimAndAnswer, ClaimGamepad, ReleaseAndAnswer
<1>5. ~ReadReconnect(c) /\ ~ReadClaim(c) /\ ~ReadRelease(c)
  BY <1>0 DEF ReadReconnect, ReadClaim, ReadRelease
<1>6. CASE ReadJoinAsPlayer(c) \/ ReadSetGuest(c)
  BY <1>0, <1>6 DEF ReadJoinAsPlayer, ReadSetGuest
<1>. QED BY <1>1, <1>2, <1>3, <1>4, <1>5, <1>6 DEF ReadLoop, JoinAndAnswer, Answering

\* Nothing is sent on a connection before it joins.
LEMMA UnjoinedNext ==
    ASSUME InputInv, [InputNext]_allVars
    PROVE  Unjoined'
<1> USE DEF wireVars, serverVars
<1>1. SUFFICES ASSUME NEW b \in Conns, ~Joined(b)'
               PROVE  /\ owes'[b] = Idle
                      /\ sent'[b] = <<>> /\ replies'[b] = <<>>
                      /\ tab'[b] = FreshTab
  BY DEF Unjoined
<1>2. /\ ~Joined(b) /\ ~InRoom(b)
      /\ owes[b] = Idle
      /\ sent[b] = <<>> /\ replies[b] = <<>>
      /\ tab[b] = FreshTab
      /\ OwnTypes
  BY <1>1, StaysJoined, WorkersJoined DEF InputInv, Unjoined, InputTypeOK, OwnTypes
<1>3. ASSUME NEW c \in Conns, ReadLoop(c), c # b
      PROVE  /\ owes'[b] = Idle
             /\ sent'[b] = <<>> /\ replies'[b] = <<>> /\ tab'[b] = FreshTab
  BY <1>2, <1>3, LoopStep, OtherWires
<1>4. CASE ReadLoop(b)
  <2>1. ~Join(b)
    BY <1>1, JoinConn DEF Joined, InputInv, IInv, TypeOK
  <2>. QED BY <1>2, <1>4, <2>1, UnjoinedLoop
<1>5. ASSUME NEW c \in Conns, Tab(c)
      PROVE  /\ owes'[b] = Idle
             /\ sent'[b] = <<>> /\ replies'[b] = <<>> /\ tab'[b] = FreshTab
  <2>1. c # b
    BY <1>2, <1>5 DEF Tab, PollClaims, Unplug, Learn, FreshTab
  <2>. QED BY <1>2, <1>5, <2>1 DEF Tab, PollClaims, Unplug, Learn, OwnTypes, Queues
<1>6. ASSUME NEW p \in PeerIds, LosePeerConnection(p) \/ TellSuccessor(p)
      PROVE  /\ owes'[b] = Idle
             /\ sent'[b] = <<>> /\ replies'[b] = <<>> /\ tab'[b] = FreshTab
  BY <1>2, <1>6 DEF LosePeerConnection, Close, TellSuccessor, InRoom
<1>7. ASSUME (\E ch \in Channels : DataChannel(ch)) \/ UNCHANGED allVars
      PROVE  /\ owes'[b] = Idle
             /\ sent'[b] = <<>> /\ replies'[b] = <<>> /\ tab'[b] = FreshTab
  BY <1>2, <1>7 DEF DataChannel, TestPermission, TestOwner, Pass, Finish, allVars
<1>. QED BY <1>3, <1>4, <1>5, <1>6, <1>7 DEF InputNext

-----------------------------------------------------------------------------
\* The invariant holds at the start and after every step.
LEMMA InputInitInv == InputInit => InputInv
<1> SUFFICES ASSUME InputInit PROVE InputInv
  OBVIOUS
<1>1. IInv /\ TypeOK
  BY InitInv DEF InputInit, IInv
<1>2. FreshTab \in [slot : PlayerSlots, enabled : SUBSET Devices,
                     gamepads : [Gamepads -> PadSlots \cup {none}]]
  BY RoomAssumption DEF FreshTab, PlayerSlots
<1>3. Queues
  BY EmptySeq DEF InputInit, Queues
<1>4. InputTypeOK
  BY <1>1, <1>2, <1>3, WorkKinds, QueueContents DEF InputInit, InputTypeOK, Queues
<1>5. OnePeer
  BY InputAssumption DEF InputInit, Init, OnePeer
<1>6. LoopWork
  BY WorkKinds DEF InputInit, Init, LoopWork, LoopFits, Reading
<1>7. Unjoined
  BY DEF InputInit, Unjoined
<1>. QED BY <1>1, <1>3, <1>4, <1>5, <1>6, <1>7 DEF InputInv

LEMMA InputNextInv == InputInv /\ [InputNext]_allVars => InputInv'
BY RoomNext, InputTypeNext, OnePeerNext, LoopWorkNext, UnjoinedNext DEF InputInv

\* What the tabs, the read loops and the wires between them can be in.
THEOREM InputInvariance == InputSpec => []InputInv
BY InputInitInv, InputNextInv, PTL DEF InputSpec

\* The tabs, the queues, the gate and the histories always have their types.
THEOREM InputTypes == InputSpec => []InputTypeOK
<1>1. InputInv => InputTypeOK
  BY DEF InputInv
<1>. QED BY <1>1, InputInvariance, PTL

\* The room under its tabs and data channels is the room of Room: whatever
\* they send, it goes through the steps of Room alone, so that all that is
\* proved of Room's behaviours holds here.
THEOREM InputImplementsRoom == InputSpec => Spec
<1>1. InputInit => Init
  BY DEF InputInit
<1>2. InputInv /\ [InputNext]_allVars => [Next]_vars
  BY RoomStep DEF allVars
<1>. QED BY <1>1, <1>2, InputInvariance, PTL DEF InputSpec, Spec

-----------------------------------------------------------------------------
\* A player stays a player, in the room and after.
LEMMA PlayersStay ==
    ASSUME IInv, [Next]_vars, NEW p \in PeerIds, slot[p] > 0
    PROVE  slot'[p] > 0
<1> USE DEF vars, roomVars, peerVars
<1>0. slot \in [PeerIds -> PlayerSlots] /\ slot[p] \in Int
  BY DEF IInv, TypeOK, PlayerSlots
<1>1. ASSUME NEW c \in Conns, Join(c) PROVE slot'[p] > 0
  <2>1. nextPeerID + 1 \in PeerIds /\ nextPeerID + 1 > nextPeerID
    BY <1>1, RoomAssumption DEF Join, IInv, TypeOK, PeerIds
  <2>2. slot[nextPeerID + 1] = 0
    BY <2>1 DEF IInv, FreshIds
  <2>3. p # nextPeerID + 1
    BY <2>2
  <2>. QED BY <1>0, <1>1, <2>3 DEF Join
<1>2. ASSUME NEW l \in peers, RemovePeer(l) PROVE slot'[p] > 0
  BY <1>0, <1>2 DEF RemovePeer
<1>3. ASSUME NEW c \in Conns, JoinAsPlayer(c) PROVE slot'[p] > 0
  BY <1>0, <1>3 DEF JoinAsPlayer, TakePlayerSlot, FreePlayerSlots
<1>4. ASSUME NEW c \in Conns, Handler(c), ~Join(c), ~JoinAsPlayer(c), ~LeaveRoom(c), ~ReadError(c)
      PROVE  slot' = slot
  <2>1. CASE \/ BeginJoinAsPlayer(c) \/ BeginClaimGamepad(c) \/ BeginReleaseGamepad(c)
            \/ BeginSetQuality(c) \/ BeginSetGuest(c)
    BY <2>1 DEF BeginJoinAsPlayer, BeginClaimGamepad, BeginReleaseGamepad, BeginSetQuality,
                BeginSetGuest, Begin
  <2>2. CASE \/ ClaimGamepad(c) \/ ReadSettings(c) \/ RestartVideo(c)
            \/ (\E s \in PadSlots : ReleaseGamepad(c, s))
            \/ (\E v \in Requests : SetQuality(c, v))
            \/ (\E d \in Devices, on \in BOOLEAN, target \in PeerIds \cup {nil} :
                 SetGuest(c, d, on, target))
    BY <2>2 DEF ClaimGamepad, ReadSettings, RestartVideo, ReleaseGamepad, SetQuality, SetGuest
  <2>. QED BY <1>4, <2>1, <2>2 DEF Handler
<1>. QED
  BY <1>1, <1>2, <1>3, <1>4 DEF Next, Handler, LeaveRoom, ReadError, PeerConnectionLost, FindPeer

\* The gate changes only where a data channel handles its messages.
LEMMA GateSteps ==
    ASSUME [InputNext]_allVars
    PROVE  \/ gate' = gate
           \/ \E ch \in Channels : DataChannel(ch)
<1> USE DEF wireVars, serverVars
<1>1. ASSUME NEW c \in Conns, ReadLoop(c) PROVE gate' = gate
  BY <1>1 DEF ReadLoop, JoinAndAnswer, ReadJoinAsPlayer, JoinAsPlayerAndAnswer, ReadReconnect,
              BuildAnswer, ReadPermission, SendAnswer, ReadSetGuest, SetGuestAndTell, Depart,
              Close, ReadClaim, ClaimAndAnswer, EnsureGamepad, ReadRelease, ReleaseAndAnswer
<1>2. ASSUME NEW c \in Conns, Tab(c) PROVE gate' = gate
  BY <1>2 DEF Tab, PollClaims, Unplug, Learn
<1>3. ASSUME NEW p \in PeerIds, LosePeerConnection(p) \/ TellSuccessor(p) PROVE gate' = gate
  BY <1>3 DEF LosePeerConnection, Close, TellSuccessor
<1>. QED BY <1>1, <1>2, <1>3 DEF InputNext, allVars

LEMMA GateNext ==
    ASSUME InputInv, GateInv, [InputNext]_allVars
    PROVE  GateInv'
<1>0. /\ late \in [Channels -> [PeerIds -> SUBSET Rights]]
      /\ gate \in [Channels -> [peer : PeerIds, right : Rights] \cup {NoMessage}]
      /\ IInv /\ [Next]_vars
  BY RoomStep DEF InputInv, InputTypeOK, allVars
<1>1. CASE UNCHANGED allVars
  BY <1>1 DEF allVars, vars, roomVars, peerVars, GateInv, RightsOf
<1>2. ASSUME InputNext, NEW ch \in Channels
      PROVE  /\ \A p \in PeerIds : /\ late'[ch][p] \cap RightsOf(p)' = {}
                                   /\ late'[ch][p] # {} => slot'[p] > 0
             /\ gate'[ch] # NoMessage => gate'[ch].right \notin late'[ch][gate'[ch].peer]
  <2>0. /\ \A p \in PeerIds : late[ch][p] # {} => slot[p] > 0
        /\ \A p \in PeerIds : late[ch][p] \cap RightsOf(p) = {}
        /\ gate[ch] # NoMessage => gate[ch].right \notin late[ch][gate[ch].peer]
    BY DEF GateInv
  <2>1. \A p \in PeerIds :
          late'[ch][p] = (late[ch][p] \cup {r \in Rights : Uses(ch, p, r)}) \ RightsOf(p)'
    BY <1>2 DEF InputNext, Histories
  <2>2. \A p \in PeerIds : late'[ch][p] \cap RightsOf(p)' = {}
    BY <2>1
  <2>3. ASSUME NEW p \in PeerIds, late'[ch][p] # {} PROVE slot'[p] > 0
    <3>1. slot[p] > 0
      BY <2>0, <2>1, <2>3 DEF Uses
    <3>. QED BY <1>0, <3>1, PlayersStay
  <2>4. ASSUME gate'[ch] # NoMessage PROVE gate'[ch].right \notin late'[ch][gate'[ch].peer]
    <3>1. \A p \in PeerIds : late'[ch][p] \subseteq late[ch][p]
      BY <2>1, <2>4 DEF Uses
    <3>2. CASE gate'[ch] = gate[ch]
      <4>1. gate[ch].peer \in PeerIds /\ gate[ch].right \notin late[ch][gate[ch].peer]
        BY <1>0, <2>0, <2>4, <3>2
      <4>. QED BY <3>1, <3>2, <4>1
    <3>3. ASSUME NEW p \in PeerIds, NEW d \in Devices, TestPermission(ch, p, d)
          PROVE  gate'[ch].right \notin late'[ch][gate'[ch].peer]
      <4>1. gate'[ch] = [peer |-> p, right |-> d] /\ d \in enabled[p]
        BY <1>0, <3>3 DEF TestPermission, Pass
      <4>2. slot[p] > 0 => d \in RightsOf(p)
        BY <4>1 DEF RightsOf
      <4>3. d \notin late[ch][p]
        BY <2>0, <4>2
      <4>. QED BY <3>1, <4>1, <4>3
    <3>4. ASSUME NEW p \in PeerIds, NEW s \in PadSlots, TestOwner(ch, p, s)
          PROVE  gate'[ch].right \notin late'[ch][gate'[ch].peer]
      <4>1. gate'[ch] = [peer |-> p, right |-> s] /\ gamepadSlots[s] = p
        BY <1>0, <3>4 DEF TestOwner, Pass
      <4>2. s \in RightsOf(p)
        BY <4>1 DEF RightsOf
      <4>3. s \notin late[ch][p]
        BY <2>0, <4>2
      <4>. QED BY <3>1, <4>1, <4>3
    <3>5. ~Finish(ch)
      BY <1>0, <2>4 DEF Finish
    <3>6. ASSUME NEW b \in Channels \ {ch}, DataChannel(b) PROVE gate'[ch] = gate[ch]
      BY <1>0, <3>6 DEF DataChannel, TestPermission, TestOwner, Pass, Finish
    <3>. QED BY <1>2, <3>2, <3>3, <3>4, <3>5, <3>6, GateSteps DEF DataChannel
  <2>. QED BY <2>2, <2>3, <2>4
<1>. QED BY <1>1, <1>2 DEF GateInv

\* Rights end when they are lost: a permission taken back, or a pad given back
\* or lost by leaving, is used on each data channel at most by the one message
\* whose tests were over (handleInputMessage tests with no lock held and then
\* injects), however many channels a peer has.
THEOREM RightsEnd == InputSpec => LostRightsEnd
<1>1. InputInit => GateInv
  BY DEF InputInit, GateInv
<1>2. InputInv /\ GateInv /\ [InputNext]_allVars => GateInv'
  BY GateNext
<1>3. InputInv /\ GateInv =>
        \A ch \in Channels, p \in PeerIds, r \in Rights :
            Uses(ch, p, r) /\ r \notin RightsOf(p) => r \notin late[ch][p]
  <2> SUFFICES ASSUME GateInv, NEW ch \in Channels, NEW p \in PeerIds, NEW r \in Rights,
                      Uses(ch, p, r)
               PROVE  r \notin late[ch][p]
    OBVIOUS
  <2>1. gate[ch] = [peer |-> p, right |-> r] /\ gate[ch] # NoMessage
    BY DEF Uses, NoMessage, nil, PeerIds
  <2>. QED BY <2>1 DEF GateInv
<1>. QED BY <1>1, <1>2, <1>3, InputInvariance, PTL DEF InputSpec, LostRightsEnd

-----------------------------------------------------------------------------
\* Every key of vkMap is one the keyboard declares.
LEMMA KeyCodes == \A vk \in DOMAIN vkMap : vkMap[vk] \in 1 .. 255
<1>1. \A n \in 1 .. 26 : Letters[n] \in 1 .. 255
  BY DEF Letters
<1>2. \A n \in 1 .. 12 : FunctionKeys[n] \in 1 .. 255
  BY DEF FunctionKeys
<1>3. \A k \in OtherKeys : k[2] \in 1 .. 255
  BY DEF OtherKeys
<1>4. ASSUME NEW vk \in DOMAIN vkMap, vk \notin (\h31 .. \h39) \cup (\h41 .. \h5A) \cup (\h70 .. \h7B)
      PROVE  vkMap[vk] \in 1 .. 255
  <2>1. \E k \in OtherKeys : k[1] = vk
    BY <1>4 DEF vkMap
  <2>2. vkMap[vk] = (CHOOSE k \in OtherKeys : k[1] = vk)[2]
    BY <1>4 DEF vkMap
  <2>3. (CHOOSE k \in OtherKeys : k[1] = vk) \in OtherKeys
    BY <2>1
  <2>. QED BY <1>3, <2>2, <2>3
<1>5. ASSUME NEW vk \in \h31 .. \h39 PROVE vkMap[vk] \in 1 .. 255
  <2>1. vkMap[vk] = vk - \h2F
    BY <1>5 DEF vkMap
  <2>. QED BY <1>5, <2>1
<1>6. ASSUME NEW vk \in \h41 .. \h5A PROVE vkMap[vk] \in 1 .. 255
  <2>1. vkMap[vk] = Letters[vk - \h40] /\ vk - \h40 \in 1 .. 26
    BY <1>6 DEF vkMap
  <2>. QED BY <1>1, <2>1
<1>7. ASSUME NEW vk \in \h70 .. \h7B PROVE vkMap[vk] \in 1 .. 255
  <2>1. vkMap[vk] = FunctionKeys[vk - \h6F] /\ vk - \h6F \in 1 .. 12
    BY <1>7 DEF vkMap
  <2>. QED BY <1>2, <2>1
<1>. QED BY <1>4, <1>5, <1>6, <1>7, SMTT(30)

\* What the handlers write is declared, whatever the fields of the message are.
LEMMA KeyDeclared ==
    ASSUME NEW vk \in Int, NEW pressed \in BOOLEAN
    PROVE  Declared({HandleKeyboard(vk, pressed)})
<1> DEFINE w == HandleKeyboard(vk, pressed)
<1>1. CASE vkToLinux(vk) = 0
  BY <1>1 DEF HandleKeyboard, Nothing, Declared
<1>2. CASE vkToLinux(vk) # 0
  <2>1. vkToLinux(vk) \in 1 .. 255
    BY <1>2, KeyCodes DEF vkToLinux
  <2>2. /\ w.device = "keyboard"
        /\ w.events = {Event(EV_KEY, vkToLinux(vk), Pressed(pressed))}
    BY <1>2 DEF HandleKeyboard, Write
  <2>3. Device("keyboard") = createKeyboard
    BY DEF Device
  <2>4. Declares(createKeyboard, Event(EV_KEY, vkToLinux(vk), Pressed(pressed)))
    BY <2>1 DEF Declares, createKeyboard, Event, Pressed
  <2>. QED BY <2>2, <2>3, <2>4 DEF Declared
<1>. QED BY <1>1, <1>2

\* The bounds of a 16-bit field, and of what int16 makes of it.
LEMMA WordBounds ==
    /\ MaxUint16 \in Int /\ MinInt16 \in Int /\ MaxInt16 \in Int
    /\ MaxUint16 <= 65535 /\ MinInt16 <= -32768 /\ 32767 <= MaxInt16
BY DEF MaxUint16, MinInt16, MaxInt16

LEMMA Int16Bounds == \A x \in 0 .. MaxUint16 : int16(x) \in MinInt16 .. MaxInt16
BY WordBounds, SMT DEF int16

LEMMA MouseMoveDeclared ==
    ASSUME NEW absolute \in BOOLEAN, NEW x \in 0 .. MaxUint16, NEW y \in 0 .. MaxUint16
    PROVE  Declared({HandleMouseMove(absolute, x, y)})
<1> DEFINE w == HandleMouseMove(absolute, x, y)
<1>1. CASE absolute
  <2>1. /\ w.device = "pointer"
        /\ w.events = {Event(EV_ABS, ABS_X, x), Event(EV_ABS, ABS_Y, y)}
    BY <1>1 DEF HandleMouseMove, Write
  <2>2. Device("pointer") = createAbsPointer
    BY DEF Device
  <2>3. /\ Declares(createAbsPointer, Event(EV_ABS, ABS_X, x))
        /\ Declares(createAbsPointer, Event(EV_ABS, ABS_Y, y))
    BY DEF Declares, createAbsPointer, Event, ABS_X, ABS_Y, EV_ABS
  <2>. QED BY <2>1, <2>2, <2>3 DEF Declared
<1>2. CASE ~absolute
  <2>1. /\ w.device = "scroll"
        /\ w.events = {Event(EV_REL, REL_X, int16(x)), Event(EV_REL, REL_Y, int16(y))}
    BY <1>2 DEF HandleMouseMove, Write
  <2>2. Device("scroll") = createScrollDevice
    BY DEF Device
  <2>3. \A v : /\ Declares(createScrollDevice, Event(EV_REL, REL_X, v))
               /\ Declares(createScrollDevice, Event(EV_REL, REL_Y, v))
    BY DEF Declares, createScrollDevice, Event
  <2>. QED BY <2>1, <2>2, <2>3 DEF Declared
<1>. QED BY <1>1, <1>2

LEMMA MouseButtonDeclared ==
    ASSUME NEW button \in Nat, NEW pressed \in BOOLEAN
    PROVE  Declared({HandleMouseButton(button, pressed)})
<1> DEFINE w == HandleMouseButton(button, pressed)
<1>1. CASE button + 1 \notin DOMAIN MouseButtons
  BY <1>1 DEF HandleMouseButton, Nothing, Declared
<1>2. CASE button + 1 \in DOMAIN MouseButtons
  <2>1. MouseButtons[button + 1] \in {BTN_LEFT, BTN_MIDDLE, BTN_RIGHT, BTN_SIDE, BTN_EXTRA}
    BY <1>2 DEF MouseButtons
  <2>2. /\ w.device = "pointer"
        /\ w.events = {Event(EV_KEY, MouseButtons[button + 1], Pressed(pressed))}
    BY <1>2 DEF HandleMouseButton, Write
  <2>3. Device("pointer") = createAbsPointer
    BY DEF Device
  <2>4. Declares(createAbsPointer, Event(EV_KEY, MouseButtons[button + 1], Pressed(pressed)))
    BY <2>1 DEF Declares, createAbsPointer, Event, Pressed
  <2>. QED BY <2>2, <2>3, <2>4 DEF Declared
<1>. QED BY <1>1, <1>2

LEMMA MouseScrollDeclared ==
    ASSUME NEW dx, NEW dy
    PROVE  Declared({HandleMouseScroll(dx, dy)})
<1> DEFINE w == HandleMouseScroll(dx, dy)
<1>1. /\ w.device = "scroll"
      /\ \A e \in w.events : \/ e = Event(EV_REL, REL_WHEEL, Sign(int16(dy)))
                             \/ e = Event(EV_REL, REL_HWHEEL, Sign(int16(dx)))
  BY DEF HandleMouseScroll, Write
<1>2. Device("scroll") = createScrollDevice
  BY DEF Device
<1>3. \A v : /\ Declares(createScrollDevice, Event(EV_REL, REL_WHEEL, v))
             /\ Declares(createScrollDevice, Event(EV_REL, REL_HWHEEL, v))
  BY DEF Declares, createScrollDevice, Event
<1>. QED BY <1>1, <1>2, <1>3 DEF Declared

LEMMA PadDeclared ==
    ASSUME NEW buttons, NEW sticks, NEW triggers,
           \A i \in 1 .. 4 : sticks[i] \in 0 .. MaxUint16,
           \A i \in 1 .. 2 : triggers[i] \in 0 .. 255
    PROVE  Declared({HandleGamepad(buttons, sticks, triggers)})
<1> DEFINE w == HandleGamepad(buttons, sticks, triggers)
           axes == {ABS_X, ABS_Y, ABS_RX, ABS_RY}
<1>1. Device("gamepad") = createGamepad /\ w.device = "gamepad"
  BY DEF Device, HandleGamepad, Write
<1>2. \A b \in DOMAIN btnMaps : btnMaps[b] \in GamepadButtons
  BY DEF btnMaps, GamepadButtons
<1>3. \A b \in DOMAIN btnMaps : Declares(createGamepad, Event(EV_KEY, btnMaps[b], Pressed(b \in buttons)))
  BY <1>2 DEF Declares, createGamepad, Event, Pressed
<1>4. /\ \A a \in axes : createGamepad.abs[a] = MinInt16 .. MaxInt16
      /\ \A a \in {ABS_Z, ABS_RZ} : createGamepad.abs[a] = 0 .. 255
      /\ \A a \in {ABS_HAT0X, ABS_HAT0Y} : createGamepad.abs[a] = -1 .. 1
      /\ DOMAIN createGamepad.abs = axes \cup {ABS_Z, ABS_RZ, ABS_HAT0X, ABS_HAT0Y}
  BY DEF createGamepad, ABS_X, ABS_Y, ABS_RX, ABS_RY, ABS_Z, ABS_RZ, ABS_HAT0X, ABS_HAT0Y
<1>5. \A a, v : a \in DOMAIN createGamepad.abs /\ v \in createGamepad.abs[a]
                  => Declares(createGamepad, Event(EV_ABS, a, v))
  BY DEF Declares, Event
<1>6. ASSUME NEW a \in axes, NEW i \in 1 .. 4
      PROVE  Declares(createGamepad, Event(EV_ABS, a, int16(sticks[i])))
  <2>1. int16(sticks[i]) \in MinInt16 .. MaxInt16
    BY Int16Bounds
  <2>2. a \in DOMAIN createGamepad.abs /\ createGamepad.abs[a] = MinInt16 .. MaxInt16
    BY <1>4
  <2>. QED BY <1>5, <2>1, <2>2
<1>7. ASSUME NEW a \in {ABS_Z, ABS_RZ}, NEW i \in 1 .. 2
      PROVE  Declares(createGamepad, Event(EV_ABS, a, triggers[i]))
  <2>1. a \in DOMAIN createGamepad.abs /\ createGamepad.abs[a] = 0 .. 255
    BY <1>4
  <2>. QED BY <1>5, <2>1
<1>8. /\ Hat(14 \in buttons, 15 \in buttons) \in -1 .. 1
      /\ Hat(12 \in buttons, 13 \in buttons) \in -1 .. 1
  BY DEF Hat
<1>9. /\ Declares(createGamepad, Event(EV_ABS, ABS_X, int16(sticks[1])))
       /\ Declares(createGamepad, Event(EV_ABS, ABS_Y, int16(sticks[2])))
       /\ Declares(createGamepad, Event(EV_ABS, ABS_RX, int16(sticks[3])))
       /\ Declares(createGamepad, Event(EV_ABS, ABS_RY, int16(sticks[4])))
       /\ Declares(createGamepad, Event(EV_ABS, ABS_Z, triggers[1]))
       /\ Declares(createGamepad, Event(EV_ABS, ABS_RZ, triggers[2]))
       /\ Declares(createGamepad, Event(EV_ABS, ABS_HAT0X, Hat(14 \in buttons, 15 \in buttons)))
       /\ Declares(createGamepad, Event(EV_ABS, ABS_HAT0Y, Hat(12 \in buttons, 13 \in buttons)))
  BY <1>4, <1>5, <1>6, <1>7, <1>8
<1>10. w.events =
         {Event(EV_ABS, ABS_X, int16(sticks[1])), Event(EV_ABS, ABS_Y, int16(sticks[2])),
          Event(EV_ABS, ABS_RX, int16(sticks[3])), Event(EV_ABS, ABS_RY, int16(sticks[4])),
          Event(EV_ABS, ABS_Z, triggers[1]), Event(EV_ABS, ABS_RZ, triggers[2]),
          Event(EV_ABS, ABS_HAT0X, Hat(14 \in buttons, 15 \in buttons)),
          Event(EV_ABS, ABS_HAT0Y, Hat(12 \in buttons, 13 \in buttons))}
         \cup {Event(EV_KEY, btnMaps[b], Pressed(b \in buttons)) : b \in DOMAIN btnMaps}
  BY DEF HandleGamepad, Write
<1>11. \A e \in w.events : Declares(createGamepad, e)
  BY <1>3, <1>9, <1>10
<1>. QED BY <1>1, <1>11 DEF Declared

\* Every event a handler writes is of a type and a code that its device declared,
\* with a value in the declared range: for every key, every button and every
\* value of the 16-bit and 8-bit fields of a message, not only at their bounds.
THEOREM WritesDeclared ==
    /\ \A vk \in 0 .. 255, pressed \in BOOLEAN : Declared({HandleKeyboard(vk, pressed)})
    /\ \A absolute \in BOOLEAN, x, y \in 0 .. MaxUint16 : Declared({HandleMouseMove(absolute, x, y)})
    /\ \A button \in 0 .. 255, pressed \in BOOLEAN : Declared({HandleMouseButton(button, pressed)})
    /\ \A dx, dy \in 0 .. MaxUint16 : Declared({HandleMouseScroll(dx, dy)})
    /\ \A buttons \in SUBSET (0 .. 15),
          x1, y1, x2, y2 \in 0 .. MaxUint16, lt, rt \in 0 .. 255 :
            Declared({HandleGamepad(buttons, <<x1, y1, x2, y2>>, <<lt, rt>>)})
<1>1. \A vk \in 0 .. 255, pressed \in BOOLEAN : Declared({HandleKeyboard(vk, pressed)})
  BY KeyDeclared
<1>2. \A absolute \in BOOLEAN, x, y \in 0 .. MaxUint16 : Declared({HandleMouseMove(absolute, x, y)})
  BY MouseMoveDeclared
<1>3. \A button \in 0 .. 255, pressed \in BOOLEAN : Declared({HandleMouseButton(button, pressed)})
  BY MouseButtonDeclared
<1>4. \A dx, dy \in 0 .. MaxUint16 : Declared({HandleMouseScroll(dx, dy)})
  BY MouseScrollDeclared
<1>5. ASSUME NEW buttons \in SUBSET (0 .. 15),
             NEW x1 \in 0 .. MaxUint16, NEW y1 \in 0 .. MaxUint16,
             NEW x2 \in 0 .. MaxUint16, NEW y2 \in 0 .. MaxUint16,
             NEW lt \in 0 .. 255, NEW rt \in 0 .. 255
      PROVE  Declared({HandleGamepad(buttons, <<x1, y1, x2, y2>>, <<lt, rt>>)})
  <2> DEFINE sticks == <<x1, y1, x2, y2>>
             triggers == <<lt, rt>>
  <2>1. \A i \in 1 .. 4 : sticks[i] \in 0 .. MaxUint16
    OBVIOUS
  <2>2. \A i \in 1 .. 2 : triggers[i] \in 0 .. 255
    OBVIOUS
  <2> HIDE DEF sticks, triggers
  <2>3. Declared({HandleGamepad(buttons, sticks, triggers)})
    BY <2>1, <2>2, PadDeclared
  <2>. QED BY <2>3 DEF sticks, triggers
<1>. QED BY <1>1, <1>2, <1>3, <1>4, <1>5

\* Whatever is injected is taken by the device it is written to.
THEOREM InjectionsTaken == InputSpec => []InjectionsDeclared
<1>1. \A n \in Words : n \in 0 .. MaxUint16
  <2>1. MaxUint16 \in Int /\ 65535 <= MaxUint16
    BY DEF MaxUint16
  <2>. QED BY <2>1 DEF Words
<1>2. \A n \in Bytes : n \in 0 .. 255
  BY DEF Bytes
<1>3. ASSUME NEW w \in KeyWrites PROVE Declared({w})
  <2> DEFINE Codes == 0 .. 255
  <2>1. KeyWrites = {HandleKeyboard(vk, b) : vk \in Codes, b \in BOOLEAN}
    BY DEF KeyWrites
  <2>2. \A vk \in Codes, pressed \in BOOLEAN : Declared({HandleKeyboard(vk, pressed)})
    BY WritesDeclared, Zenon
  <2> HIDE DEF Codes
  <2>3. PICK vk \in Codes, pressed \in BOOLEAN : w = HandleKeyboard(vk, pressed)
    BY <2>1
  <2>. QED BY <2>2, <2>3
<1>4. ASSUME NEW w \in MouseWrites PROVE Declared({w})
  <2>1. CASE \E absolute \in BOOLEAN, x, y \in Words : w = HandleMouseMove(absolute, x, y)
    BY <1>1, <2>1, WritesDeclared
  <2>2. CASE \E button \in Bytes, pressed \in BOOLEAN : w = HandleMouseButton(button, pressed)
    BY <1>2, <2>2, WritesDeclared
  <2>3. CASE \E dx, dy \in Words : w = HandleMouseScroll(dx, dy)
    BY <1>1, <2>3, WritesDeclared
  <2>. QED BY <2>1, <2>2, <2>3 DEF MouseWrites
<1>5. ASSUME NEW w \in PadWrites PROVE Declared({w})
  <2> DEFINE Pressing(bs, x, y, t, u) == HandleGamepad(bs, <<x, y, y, x>>, <<t, u>>)
  <2>1. \A bs \in Held : bs \in SUBSET (0 .. 15)
    BY DEF Held
  <2>2. PadWrites = {Pressing(bs, x, y, t, u) :
                       bs \in Held, x \in Words, y \in Words, t \in Bytes, u \in Bytes}
    BY DEF PadWrites
  <2> HIDE DEF Pressing
  <2>3. PICK bs \in Held, x \in Words, y \in Words, t \in Bytes, u \in Bytes :
          w = Pressing(bs, x, y, t, u)
    BY <2>2
  <2>. QED BY <1>1, <1>2, <2>1, <2>3, WritesDeclared, ZenonT(30) DEF Pressing
<1>6. InjectionsDeclared
  BY <1>3, <1>4, <1>5 DEF InjectionsDeclared, DesktopWritesDeclared, PadWritesDeclared, Declared
<1>. QED BY <1>6, PTL

-----------------------------------------------------------------------------
\* The codes of letters, of function keys and of the other keys, apart.
LetterCodes == (16 .. 25) \cup (30 .. 38) \cup (44 .. 50)
FunctionCodes == (59 .. 68) \cup (87 .. 88)

LEMMA KeyGroups ==
    /\ \A m, n \in 1 .. 26 : Letters[m] = Letters[n] => m = n
    /\ \A n \in 1 .. 26 : Letters[n] \in LetterCodes
    /\ \A m, n \in 1 .. 12 : FunctionKeys[m] = FunctionKeys[n] => m = n
    /\ \A n \in 1 .. 12 : FunctionKeys[n] \in FunctionCodes
    /\ \A k, l \in OtherKeys : k[1] = l[1] \/ k[2] = l[2] => k = l
    /\ \A k \in OtherKeys : k[2] \notin (2 .. 10) \cup LetterCodes \cup FunctionCodes
<1>1. /\ \A m, n \in 1 .. 26 : Letters[m] = Letters[n] => m = n
      /\ \A n \in 1 .. 26 : Letters[n] \in LetterCodes
  BY DEF Letters, LetterCodes
<1>2. /\ \A m, n \in 1 .. 12 : FunctionKeys[m] = FunctionKeys[n] => m = n
      /\ \A n \in 1 .. 12 : FunctionKeys[n] \in FunctionCodes
  BY DEF FunctionKeys, FunctionCodes
<1>3. \A k, l \in OtherKeys : k[1] = l[1] => k = l
  BY DEF OtherKeys
<1>4. \A k, l \in OtherKeys : k[2] = l[2] => k = l
  BY DEF OtherKeys
<1>5. \A k \in OtherKeys : k[2] \notin (2 .. 10) \cup LetterCodes \cup FunctionCodes
  BY DEF OtherKeys, LetterCodes, FunctionCodes
<1>. QED BY <1>1, <1>2, <1>3, <1>4, <1>5

\* Two virtual keys have two codes.
LEMMA KeysDiffer == \A a, b \in DOMAIN vkMap : vkMap[a] = vkMap[b] => a = b
<1> DEFINE Digit(vk) == vk \in \h31 .. \h39
           Letter(vk) == vk \in \h41 .. \h5A
           Function(vk) == vk \in \h70 .. \h7B
           Other(vk) == \E k \in OtherKeys : k[1] = vk /\ vkMap[vk] = k[2]
<1>1. ASSUME NEW vk \in DOMAIN vkMap PROVE Digit(vk) \/ Letter(vk) \/ Function(vk) \/ Other(vk)
  <2> SUFFICES ASSUME ~Digit(vk), ~Letter(vk), ~Function(vk) PROVE Other(vk)
    OBVIOUS
  <2>1. /\ \E k \in OtherKeys : k[1] = vk
        /\ vkMap[vk] = (CHOOSE k \in OtherKeys : k[1] = vk)[2]
    BY DEF vkMap
  <2>. QED BY <2>1
<1>2. ASSUME NEW vk, Digit(vk) PROVE vkMap[vk] = vk - \h2F /\ vkMap[vk] \in 2 .. 10
  BY <1>2 DEF vkMap
<1>3. ASSUME NEW vk, Letter(vk)
      PROVE  /\ vkMap[vk] = Letters[vk - \h40] /\ vk - \h40 \in 1 .. 26
             /\ vkMap[vk] \in LetterCodes
  <2>1. vkMap[vk] = Letters[vk - \h40] /\ vk - \h40 \in 1 .. 26
    BY <1>3 DEF vkMap
  <2>. QED BY <2>1, KeyGroups
<1>4. ASSUME NEW vk, Function(vk)
      PROVE  /\ vkMap[vk] = FunctionKeys[vk - \h6F] /\ vk - \h6F \in 1 .. 12
             /\ vkMap[vk] \in FunctionCodes
  <2>1. vkMap[vk] = FunctionKeys[vk - \h6F] /\ vk - \h6F \in 1 .. 12
    BY <1>4 DEF vkMap
  <2>. QED BY <2>1, KeyGroups
<1>5. ASSUME NEW vk, Other(vk)
      PROVE  vkMap[vk] \notin (2 .. 10) \cup LetterCodes \cup FunctionCodes
  BY <1>5, KeyGroups
<1>6. (2 .. 10) \cap LetterCodes = {} /\ (2 .. 10) \cap FunctionCodes = {}
      /\ LetterCodes \cap FunctionCodes = {}
  BY DEF LetterCodes, FunctionCodes
<1> SUFFICES ASSUME NEW a \in DOMAIN vkMap, NEW b \in DOMAIN vkMap, vkMap[a] = vkMap[b]
             PROVE  a = b
  OBVIOUS
<1>7. CASE Digit(a) /\ Digit(b)
  BY <1>2, <1>7
<1>8. ASSUME Letter(a), Letter(b) PROVE a = b
  <2>1. a - \h40 = b - \h40
    BY <1>3, <1>8, KeyGroups
  <2>. QED BY <1>8, <2>1
<1>9. ASSUME Function(a), Function(b) PROVE a = b
  <2>1. a - \h6F = b - \h6F
    BY <1>4, <1>9, KeyGroups
  <2>. QED BY <1>9, <2>1
<1>10. ASSUME Other(a), Other(b) PROVE a = b
  BY <1>10, KeyGroups
<1> HIDE DEF Digit, Letter, Function, Other
<1>. QED BY <1>1, <1>2, <1>3, <1>4, <1>5, <1>6, <1>7, <1>8, <1>9, <1>10

\* Each key the client knows reaches the host, as a key of its own.
THEOREM KeysReach == InputSpec => []KeysReachTheHost
<1>1. keyCodeToVK \subseteq DOMAIN vkMap
  <2>1. \A k \in OtherKeys : k[1] \in DOMAIN vkMap
    BY DEF vkMap
  <2>2. {\h08, \h09, \h0D, \h1B, \h20, \h14, \h90, \h91} \subseteq {k[1] : k \in OtherKeys}
    BY DEF OtherKeys
  <2>3. (\h21 .. \h28) \cup {\h2D, \h2E} \cup {\h30} \subseteq {k[1] : k \in OtherKeys}
    BY DEF OtherKeys
  <2>4. (\hBA .. \hC0) \cup (\hDB .. \hDE) \subseteq {k[1] : k \in OtherKeys}
    BY DEF OtherKeys
  <2>5. (\hA0 .. \hA5) \cup {\h5B, \h5C} \cup {\h2C, \h13} \subseteq {k[1] : k \in OtherKeys}
    BY DEF OtherKeys
  <2>6. (\h41 .. \h5A) \cup (\h31 .. \h39) \cup (\h70 .. \h7B) \subseteq DOMAIN vkMap
    BY DEF vkMap
  <2>7. \h30 .. \h39 = {\h30} \cup (\h31 .. \h39)
    OBVIOUS
  <2>. QED BY <2>1, <2>2, <2>3, <2>4, <2>5, <2>6, <2>7 DEF keyCodeToVK
<1>2. \A vk \in keyCodeToVK : vkMap[vk] \in createKeyboard.key
  BY <1>1, KeyCodes DEF createKeyboard
<1>3. Cardinality({vkMap[vk] : vk \in keyCodeToVK}) = Cardinality(keyCodeToVK)
  <2> DEFINE Codes == {vkMap[vk] : vk \in keyCodeToVK}
             f == [vk \in keyCodeToVK |-> vkMap[vk]]
  <2>1. IsFiniteSet(keyCodeToVK)
    <3> DEFINE last == 255
    <3>1. keyCodeToVK \subseteq 0 .. last
      BY DEF keyCodeToVK
    <3>2. last \in Int
      OBVIOUS
    <3> HIDE DEF last
    <3>3. IsFiniteSet(0 .. last)
      BY <3>2, FS_Interval
    <3>. QED BY <3>1, <3>3, FS_Subset
  <2>2. f \in Surjection(keyCodeToVK, Codes)
    BY DEF Surjection
  <2>3. f \in Injection(keyCodeToVK, Codes)
    BY <1>1, KeysDiffer DEF Injection, IsInjective
  <2>. QED BY <2>1, <2>2, <2>3, FS_Surjection
<1>4. KeysReachTheHost
  BY <1>1, <1>2, <1>3 DEF KeysReachTheHost, KeyTablesAgree
<1>. QED BY <1>4, PTL
=============================================================================
