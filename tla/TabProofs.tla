------------------------------ MODULE TabProofs ------------------------------
(***************************************************************************)
(* Theorems about what the tabs of Input know: of their pads, and of the   *)
(* role and the permissions of their peers.                                *)
(*                                                                         *)
(* A pad that is given to a tab's gamepad and given back goes through five *)
(* places: the read loop's answer, the answer on its way, the tab, the     *)
(* release on its way, and the read loop again.  The invariant says that   *)
(* it is in one of them at a time, once, and owned by the tab's peer all   *)
(* the while.  What a tab will believe of its role is what the last        *)
(* message on its way says of each device, or what it believes already.    *)
(***************************************************************************)
EXTENDS InputProofs

-----------------------------------------------------------------------------
\* Messages of a queue to a tab that grant the pad s, answer gamepad b's claim
\* or tell that s was released.
Grants(m, s) == m.kind = "claimed" /\ m.pad = s
Answers(m, b) == m.kind = "claimed" /\ m.gamepad = b
Frees(m, s) == m.kind = "released" /\ m.pad = s

GrantIn(q, s) == \E i \in DOMAIN q : Grants(q[i], s)
AnswerIn(q, b) == \E i \in DOMAIN q : Answers(q[i], b)
FreeIn(q, s) == \E i \in DOMAIN q : Frees(q[i], s)
GrantOnce(q, s) == \A i, j \in DOMAIN q : Grants(q[i], s) /\ Grants(q[j], s) => i = j
AnswerOnce(q, b) == \A i, j \in DOMAIN q : Answers(q[i], b) /\ Answers(q[j], b) => i = j
FreeFirst(q, s) == \A i, j \in DOMAIN q : Frees(q[i], s) /\ Grants(q[j], s) => i < j

\* A request in a queue from a tab.
In(q, m) == \E i \in DOMAIN q : q[i] = m
Once(q, m) == \A i, j \in DOMAIN q : q[i] = m /\ q[j] = m => i = j

-----------------------------------------------------------------------------
\* The places of a pad.
Owed(c, s) == owes[c].kind \in {"ensure", "claimed"} /\ owes[c].pad = s
Coming(c, s) == GrantIn(replies[c], s)
Known(c, s) == \E b \in Gamepads : tab[c].gamepads[b] = s
KnownOnce(c, s) ==
    \A a, b \in Gamepads : tab[c].gamepads[a] = s /\ tab[c].gamepads[b] = s => a = b
Leaving(c, s) == In(sent[c], Release(s))
Freeing(c, s) == task[c].op = "release" /\ owes[c].pad = s

\* A pad in one of these places is its tab's peer's, and has a device, unless
\* making it failed, once the read loop is through with the claim.
HeldPad(p, c, s) ==
    /\ Owed(c, s) \/ Coming(c, s) \/ Known(c, s) \/ Leaving(c, s) \/ Freeing(c, s)
         => gamepadSlots[s] = p
    /\ Coming(c, s) \/ Known(c, s) \/ (owes[c].kind = "claimed" /\ owes[c].pad = s)
         => (InputAvailable => s \in gamepads \cup Unmakeable)

\* It is in one of them at a time, and there once.
OnePlace(c, s) ==
    /\ Owed(c, s) => ~Coming(c, s) /\ ~Known(c, s) /\ ~Leaving(c, s)
    /\ Coming(c, s) => ~Known(c, s) /\ ~Leaving(c, s) /\ ~Freeing(c, s)
    /\ Known(c, s) => ~Leaving(c, s) /\ ~Freeing(c, s)
    /\ Leaving(c, s) => ~Freeing(c, s)
    /\ GrantOnce(replies[c], s)
    /\ KnownOnce(c, s)
    /\ Once(sent[c], Release(s))

\* The word that a pad was released comes to the tab before a new grant of it:
\* it never takes away a pad that the tab holds.
FreedBefore(p, c, s) ==
    /\ owes[c].kind = "released" /\ owes[c].pad = s /\ task[c].op # "release"
         => gamepadSlots[s] # p
    /\ FreeIn(replies[c], s) => ~Known(c, s)
    /\ FreeFirst(replies[c], s)

InPlace(p, c, s) == HeldPad(p, c, s) /\ OnePlace(c, s) /\ FreedBefore(p, c, s)
PadsInPlace == \A p \in peers, c \in Conns, s \in PadSlots : conn[p] = c => InPlace(p, c, s)

\* The places of a claim, and of the pad it got.
Asked(c, b) == In(sent[c], Claim(b))
Worked(c, b) == owes[c].kind \in {"claim", "ensure", "claimed"} /\ owes[c].gamepad = b
Answered(c, b) == AnswerIn(replies[c], b)
Has(c, b) == tab[c].gamepads[b] # none

\* A tab that never claimed again before an answer has one claim, or one pad,
\* for each of its gamepads.
OneClaim(c, b) ==
    /\ Asked(c, b) => ~Worked(c, b) /\ ~Answered(c, b) /\ ~Has(c, b)
    /\ Worked(c, b) => ~Answered(c, b) /\ ~Has(c, b)
    /\ Answered(c, b) => ~Has(c, b)
    /\ AnswerOnce(replies[c], b)
    /\ Once(sent[c], Claim(b))

ClaimsInPlace ==
    \A p \in peers, c \in Conns, b \in Gamepads :
        conn[p] = c /\ c \notin doubled => OneClaim(c, b)

\* Where a pad of the peer is found again.
Found(c, s) ==
    \/ Known(c, s) \/ Coming(c, s) \/ Leaving(c, s)
    \/ owes[c].kind \in {"ensure", "claimed", "released"} /\ owes[c].pad = s

NoneStranded ==
    \A p \in peers, c \in Conns, s \in PadSlots :
        conn[p] = c /\ c \notin doubled /\ gamepadSlots[s] = p => Found(c, s)

PadInv == PadsInPlace /\ ClaimsInPlace /\ NoneStranded

-----------------------------------------------------------------------------
\* A message added to a queue to a tab is its last.
LEMMA AddedReply ==
    ASSUME NEW q \in Seq(Messages), NEW m \in Messages
    PROVE  /\ \A s : GrantIn(Append(q, m), s) <=> GrantIn(q, s) \/ Grants(m, s)
           /\ \A b : AnswerIn(Append(q, m), b) <=> AnswerIn(q, b) \/ Answers(m, b)
           /\ \A s : FreeIn(Append(q, m), s) <=> FreeIn(q, s) \/ Frees(m, s)
           /\ \A s : GrantOnce(q, s) /\ ~(GrantIn(q, s) /\ Grants(m, s)) => GrantOnce(Append(q, m), s)
           /\ \A b : AnswerOnce(q, b) /\ ~(AnswerIn(q, b) /\ Answers(m, b))
                       => AnswerOnce(Append(q, m), b)
           /\ \A s : FreeFirst(q, s) /\ ~(GrantIn(q, s) /\ Frees(m, s)) => FreeFirst(Append(q, m), s)
<1>1. /\ Len(q) \in Nat /\ DOMAIN q = 1 .. Len(q) /\ DOMAIN Append(q, m) = 1 .. Len(q) + 1
      /\ Append(q, m)[Len(q) + 1] = m
      /\ \A i \in 1 .. Len(q) : Append(q, m)[i] = q[i]
  BY Added
<1>2. \A i \in 1 .. Len(q) + 1 : i \in 1 .. Len(q) \/ i = Len(q) + 1
  BY <1>1
<1>3. Len(q) + 1 \in 1 .. Len(q) + 1 /\ 1 .. Len(q) \subseteq 1 .. Len(q) + 1
  BY <1>1
<1>4. \A s : ~(Grants(m, s) /\ Frees(m, s))
  BY DEF Grants, Frees
<1>5. \A i \in 1 .. Len(q) : i < Len(q) + 1
  BY <1>1
<1> DEFINE r == Append(q, m)
           n == Len(q)
<1>6. \A s : GrantIn(r, s) <=> GrantIn(q, s) \/ Grants(m, s)
  BY <1>1, <1>2, <1>3 DEF GrantIn
<1>7. \A b : AnswerIn(r, b) <=> AnswerIn(q, b) \/ Answers(m, b)
  BY <1>1, <1>2, <1>3 DEF AnswerIn
<1>8. \A s : FreeIn(r, s) <=> FreeIn(q, s) \/ Frees(m, s)
  BY <1>1, <1>2, <1>3 DEF FreeIn
<1>9. ASSUME NEW s, GrantOnce(q, s), ~(GrantIn(q, s) /\ Grants(m, s)) PROVE GrantOnce(r, s)
  BY <1>1, <1>2, <1>9 DEF GrantOnce, GrantIn
<1>10. ASSUME NEW b, AnswerOnce(q, b), ~(AnswerIn(q, b) /\ Answers(m, b)) PROVE AnswerOnce(r, b)
  BY <1>1, <1>2, <1>10 DEF AnswerOnce, AnswerIn
<1>11. ASSUME NEW s, FreeFirst(q, s), ~(GrantIn(q, s) /\ Frees(m, s)) PROVE FreeFirst(r, s)
  BY <1>1, <1>2, <1>4, <1>5, <1>11 DEF FreeFirst, GrantIn
<1>. QED BY <1>6, <1>7, <1>8, <1>9, <1>10, <1>11

\* A message taken from a queue to a tab was its first.
LEMMA TakenReply ==
    ASSUME NEW q \in Seq(Messages), q # <<>>
    PROVE  /\ \A s : GrantIn(q, s) <=> GrantIn(Tail(q), s) \/ Grants(Head(q), s)
           /\ \A b : AnswerIn(q, b) <=> AnswerIn(Tail(q), b) \/ Answers(Head(q), b)
           /\ \A s : FreeIn(q, s) <=> FreeIn(Tail(q), s) \/ Frees(Head(q), s)
           /\ \A s : GrantOnce(q, s) => /\ GrantOnce(Tail(q), s)
                                        /\ ~(GrantIn(Tail(q), s) /\ Grants(Head(q), s))
           /\ \A b : AnswerOnce(q, b) => /\ AnswerOnce(Tail(q), b)
                                         /\ ~(AnswerIn(Tail(q), b) /\ Answers(Head(q), b))
           /\ \A s : FreeFirst(q, s) => /\ FreeFirst(Tail(q), s)
                                        /\ ~(FreeIn(Tail(q), s) /\ Grants(Head(q), s))
<1>1. /\ 1 \in DOMAIN q /\ DOMAIN q = 1 .. Len(q) /\ DOMAIN Tail(q) = 1 .. Len(q) - 1
      /\ Len(q) \in Nat \ {0} /\ Head(q) = q[1]
      /\ \A i \in 1 .. Len(q) - 1 : Tail(q)[i] = q[i + 1]
  BY Taken
<1>2. \A i \in 1 .. Len(q) : i = 1 \/ (i - 1 \in 1 .. Len(q) - 1 /\ q[i] = Tail(q)[i - 1])
  BY <1>1
<1>3. \A i \in 1 .. Len(q) - 1 : i + 1 \in 1 .. Len(q) /\ i + 1 # 1 /\ ~(i + 1 < 1)
  BY <1>1
<1>4. \A i, j \in 1 .. Len(q) - 1 : (i + 1 = j + 1 => i = j) /\ (i + 1 < j + 1 => i < j)
  OBVIOUS
<1> DEFINE r == Tail(q)
           h == Head(q)
<1>6. \A s : GrantIn(q, s) <=> GrantIn(r, s) \/ Grants(h, s)
  BY <1>1, <1>2, <1>3 DEF GrantIn
<1>7. \A b : AnswerIn(q, b) <=> AnswerIn(r, b) \/ Answers(h, b)
  BY <1>1, <1>2, <1>3 DEF AnswerIn
<1>8. \A s : FreeIn(q, s) <=> FreeIn(r, s) \/ Frees(h, s)
  BY <1>1, <1>2, <1>3 DEF FreeIn
<1>9. ASSUME NEW s, GrantOnce(q, s) PROVE GrantOnce(r, s) /\ ~(GrantIn(r, s) /\ Grants(h, s))
  BY <1>1, <1>3, <1>4, <1>9 DEF GrantOnce, GrantIn
<1>10. ASSUME NEW b, AnswerOnce(q, b) PROVE AnswerOnce(r, b) /\ ~(AnswerIn(r, b) /\ Answers(h, b))
  BY <1>1, <1>3, <1>4, <1>10 DEF AnswerOnce, AnswerIn
<1>11. ASSUME NEW s, FreeFirst(q, s) PROVE FreeFirst(r, s) /\ ~(FreeIn(r, s) /\ Grants(h, s))
  BY <1>1, <1>3, <1>4, <1>11 DEF FreeFirst, FreeIn
<1>. QED BY <1>6, <1>7, <1>8, <1>9, <1>10, <1>11

\* The same for the requests of a tab.
LEMMA AddedRequest ==
    ASSUME NEW q \in Seq(PadRequests), NEW x \in PadRequests
    PROVE  /\ \A m : In(Append(q, x), m) <=> In(q, m) \/ x = m
           /\ \A m : Once(q, m) /\ ~(In(q, m) /\ x = m) => Once(Append(q, x), m)
<1>1. /\ Len(q) \in Nat /\ DOMAIN q = 1 .. Len(q) /\ DOMAIN Append(q, x) = 1 .. Len(q) + 1
      /\ Append(q, x)[Len(q) + 1] = x
      /\ \A i \in 1 .. Len(q) : Append(q, x)[i] = q[i]
  BY Added
<1>2. \A i \in 1 .. Len(q) + 1 : i \in 1 .. Len(q) \/ i = Len(q) + 1
  BY <1>1
<1>3. Len(q) + 1 \in 1 .. Len(q) + 1 /\ 1 .. Len(q) \subseteq 1 .. Len(q) + 1
  BY <1>1
<1>4. \A m : In(Append(q, x), m) <=> In(q, m) \/ x = m
  BY <1>1, <1>2, <1>3 DEF In
<1>5. ASSUME NEW m, Once(q, m), ~(In(q, m) /\ x = m) PROVE Once(Append(q, x), m)
  BY <1>1, <1>2, <1>5 DEF Once, In
<1>. QED BY <1>4, <1>5

LEMMA TakenRequest ==
    ASSUME NEW q \in Seq(PadRequests), q # <<>>
    PROVE  /\ \A m : In(q, m) <=> In(Tail(q), m) \/ Head(q) = m
           /\ \A m : Once(q, m) => Once(Tail(q), m) /\ ~(In(Tail(q), m) /\ Head(q) = m)
<1>1. /\ 1 \in DOMAIN q /\ DOMAIN q = 1 .. Len(q) /\ DOMAIN Tail(q) = 1 .. Len(q) - 1
      /\ Len(q) \in Nat \ {0} /\ Head(q) = q[1]
      /\ \A i \in 1 .. Len(q) - 1 : Tail(q)[i] = q[i + 1]
  BY Taken
<1>2. \A i \in 1 .. Len(q) : i = 1 \/ (i - 1 \in 1 .. Len(q) - 1 /\ q[i] = Tail(q)[i - 1])
  BY <1>1
<1>3. \A i \in 1 .. Len(q) - 1 : i + 1 \in 1 .. Len(q) /\ i + 1 # 1
  BY <1>1
<1>4. \A i, j \in 1 .. Len(q) - 1 : i + 1 = j + 1 => i = j
  OBVIOUS
<1>5. \A m : In(q, m) <=> In(Tail(q), m) \/ Head(q) = m
  BY <1>1, <1>2, <1>3 DEF In
<1>6. ASSUME NEW m, Once(q, m) PROVE Once(Tail(q), m) /\ ~(In(Tail(q), m) /\ Head(q) = m)
  BY <1>1, <1>3, <1>4, <1>6 DEF Once, In
<1>. QED BY <1>5, <1>6

-----------------------------------------------------------------------------
\* A step that has nothing to do with the pads of connection c.
Elsewhere(c) ==
    /\ sent'[c] = sent[c] /\ tab'[c].gamepads = tab[c].gamepads
    /\ c \in doubled' <=> c \in doubled
    /\ \/ replies'[c] = replies[c]
       \/ \E m \in Messages : m.kind \in {"role", "permission"} /\ replies'[c] = Append(replies[c], m)
    /\ \/ owes'[c] = owes[c] /\ task'[c].op = task[c].op
       \/ /\ {owes[c].kind, owes'[c].kind} \cap {"claim", "ensure", "claimed", "released"} = {}
          /\ {task[c].op, task'[c].op} \cap {"claim", "release"} = {}

\* The steps that have.
PadMove(c) ==
    \/ SendAnswer(c) /\ owes[c].kind \in {"claimed", "released"}
    \/ ReadClaim(c) \/ ClaimAndAnswer(c) \/ EnsureGamepad(c)
    \/ ReadRelease(c) \/ ReleaseAndAnswer(c)
    \/ Learn(c)
    \/ \E b \in Gamepads : PollClaims(c, b) \/ Unplug(c, b)

\* A read loop's step for a peer that stays is one or the other for it.
LEMMA LoopElsewhere ==
    ASSUME InputInv, NEW p \in peers, p \in peers', ReadLoop(conn[p])
    PROVE  Elsewhere(conn[p]) \/ PadMove(conn[p])
<1> DEFINE c == conn[p]
<1> USE DEF wireVars, serverVars
<1>0. /\ c \in Conns /\ Joined(c) /\ InRoom(c) /\ OwnTypes
      /\ owes[c] \in Work /\ LoopFits(task[c].op, owes[c])
      /\ owes' \in [Conns -> Work]
      /\ LoopFits(task'[c].op, owes'[c])
      /\ tab[c].gamepads = tab[c].gamepads
  BY PeerOfPeer, LoopStep, ReadLoopTypes DEF InputInv, InputTypeOK, OwnTypes, LoopWork
<1> HIDE DEF c
<1>1. ~JoinAndAnswer(c)
  BY <1>0, JoinConn DEF JoinAndAnswer
<1>2. CASE ReadJoinAsPlayer(c) \/ ReadSetGuest(c)
  <2>1. /\ UNCHANGED <<sent, replies, tab, doubled, owes>> /\ owes[c] = Idle
        /\ task[c] = Reading /\ task'[c].op \notin {"claim", "release"}
    <3>1. \E op \in {"joinAsPlayer", "guest"}, q \in peers :
            task' = [task EXCEPT ![c] = [op |-> op, peer |-> q, arg |-> DefaultQuality]]
      BY <1>2 DEF ReadJoinAsPlayer, ReadSetGuest, BeginJoinAsPlayer, BeginSetGuest, Begin, FindPeer
    <3>2. task \in [Conns -> [op : Ops, peer : PeerIds \cup {nil}, arg : Qualities]]
      BY DEF InputInv, IInv, TypeOK
    <3>. QED BY <1>0, <1>2, <3>1, <3>2
         DEF ReadJoinAsPlayer, ReadSetGuest, BeginJoinAsPlayer, BeginSetGuest, Begin
  <2>2. Elsewhere(c)
    BY <2>1, WorkKinds DEF Elsewhere, Reading
  <2>. QED BY <2>2 DEF c
<1>3. CASE JoinAsPlayerAndAnswer(c) \/ ReadReconnect(c) \/ Answering(c)
  <2>1. /\ UNCHANGED <<sent, replies, tab, doubled>>
        /\ owes'[c].kind \in {"promoted", "reconnected", "partly", "role", "idle"}
    BY <1>0, <1>3, WorkKinds, AnswerSteps
    DEF JoinAsPlayerAndAnswer, ReadReconnect, Works, OwnTypes
  <2>2. owes[c].kind \notin {"claim", "ensure", "claimed", "released"}
    BY <1>0, <1>3, WorkKinds, AnswerSteps
    DEF JoinAsPlayerAndAnswer, JoinAsPlayer, ReadReconnect, LoopFits
  <2>3. {task[c].op, task'[c].op} \cap {"claim", "release"} = {}
    BY <1>0, <2>1, <2>2 DEF LoopFits
  <2>4. Elsewhere(c)
    BY <2>1, <2>2, <2>3 DEF Elsewhere
  <2>. QED BY <2>4 DEF c
<1>4. CASE SendAnswer(c) /\ owes[c].kind \notin {"claimed", "released"}
  <2>1. owes[c] \in Messages /\ owes[c].kind \in {"role", "permission"} /\ task[c] = Reading
    BY <1>4, MessageShape DEF SendAnswer
  <2>2. owes'[c] = Idle /\ task' = task /\ UNCHANGED <<sent, tab, doubled>>
    BY <1>0, <1>4 DEF SendAnswer, Works, OwnTypes, vars
  <2>3. replies'[c] = Append(replies[c], owes[c])
    BY <1>0, <1>4 DEF SendAnswer, OwnTypes, Queues
  <2>4. Elsewhere(c)
    BY <2>1, <2>2, <2>3, WorkKinds DEF Elsewhere, Reading
  <2>. QED BY <2>4 DEF c
<1>5. ~Depart(c)
  <2>1. \A q \in FindPeer(c) : q = p
    BY DEF FindPeer, InputInv, OnePeer, c, IInv, TypeOK
  <2>2. p \in FindPeer(c)
    BY DEF FindPeer, c
  <2>. QED BY <2>1, <2>2 DEF Depart, LeaveRoom, ReadError, RemovePeer
<1>6. ASSUME NEW d \in Devices, NEW on \in BOOLEAN, NEW target \in PeerIds \cup {nil},
             SetGuestAndTell(c, d, on, target)
      PROVE  Elsewhere(c)
  <2>1. task[c].op = "guest" /\ owes' = owes /\ UNCHANGED <<sent, tab, doubled>>
    BY <1>6 DEF SetGuestAndTell, SetGuest
  <2>2. \/ replies'[c] = replies[c]
        \/ replies'[c] = Append(replies[c], Permission(d, on))
    BY <1>0, <1>6 DEF SetGuestAndTell
  <2>3. Permission(d, on) \in Messages /\ Permission(d, on).kind = "permission"
    BY WorkKinds
  <2>4. owes[c].kind = "idle"
    BY <1>0, <2>1, WorkKinds DEF LoopFits
  <2>5. {task[c].op, task'[c].op} \cap {"claim", "release"} = {}
    BY <1>0, <2>1, <2>4 DEF LoopFits
  <2>. QED BY <2>1, <2>2, <2>3, <2>4, <2>5 DEF Elsewhere
<1>. QED BY <1>1, <1>2, <1>3, <1>4, <1>5, <1>6 DEF ReadLoop, Answering, PadMove, c

\* Any step is one or the other for a peer that stays.
LEMMA PadStep ==
    ASSUME InputInv, InputNext, NEW p \in peers, p \in peers'
    PROVE  /\ conn'[p] = conn[p]
           /\ Elsewhere(conn[p]) \/ PadMove(conn[p])
<1> DEFINE c == conn[p]
<1> USE DEF wireVars, serverVars
<1>0. c \in Conns /\ InRoom(c) /\ p \in PeerIds /\ OwnTypes
  BY PeerOfPeer DEF InputInv, InputTypeOK, OwnTypes
<1>1. conn'[p] = conn[p]
  <2>1. ASSUME NEW b \in Conns, Join(b) PROVE conn'[p] = conn[p]
    <3>1. p # nextPeerID + 1
      BY <1>0, <2>1, JoinConn, InputAssumption
    <3>. QED BY <1>0, <2>1, <3>1, JoinConn DEF InputInv, IInv, TypeOK
  <2>. QED BY <2>1, ConnSteps, RoomStep
<1> HIDE DEF c
<1>2. ASSUME NEW b \in Conns, ReadLoop(b), b # c PROVE Elsewhere(c)
  <2>1. task'[c] = task[c] /\ owes'[c] = owes[c]
    BY <1>0, <1>2, LoopStep
  <2>2. doubled' = doubled
    BY <1>2 DEF ReadLoop, JoinAndAnswer, ReadJoinAsPlayer, JoinAsPlayerAndAnswer, ReadReconnect,
                BuildAnswer, ReadPermission, SendAnswer, ReadSetGuest, SetGuestAndTell, Depart,
                Close, ReadClaim, ClaimAndAnswer, EnsureGamepad, ReadRelease, ReleaseAndAnswer
  <2>3. /\ sent'[c] = sent[c] /\ tab'[c] = tab[c]
        /\ \/ replies'[c] = replies[c]
           \/ \E m \in Messages : m.kind = "permission" /\ replies'[c] = Append(replies[c], m)
    BY <1>0, <1>2, OtherWires
  <2>. QED BY <2>1, <2>2, <2>3 DEF Elsewhere
<1>3. ASSUME NEW b \in Conns, Tab(b), b # c PROVE Elsewhere(c)
  <2>1. task' = task /\ owes' = owes
    BY <1>3, LoopsAlone
  <2>2. sent'[c] = sent[c] /\ replies'[c] = replies[c] /\ tab'[c] = tab[c]
    BY <1>0, <1>3 DEF Tab, PollClaims, Unplug, Learn, OwnTypes, Queues
  <2>3. c \in doubled' <=> c \in doubled
    BY <1>3 DEF Tab, PollClaims, Unplug, Learn
  <2>. QED BY <2>1, <2>2, <2>3 DEF Elsewhere
<1>4. ASSUME Tab(c) PROVE PadMove(c)
  BY <1>4 DEF Tab, PadMove
<1>5. ASSUME NEW q \in PeerIds, LosePeerConnection(q) PROVE Elsewhere(c)
  <2>1. task' = task /\ owes' = owes
    BY <1>5, LoopsAlone
  <2>2. \A l \in peers \ peers' : conn[l] # c
    BY <1>0 DEF c, InputInv, OnePeer, IInv, TypeOK
  <2>3. /\ sent'[c] = sent[c] /\ replies'[c] = replies[c] /\ tab'[c] = tab[c]
        /\ doubled' = doubled
    BY <1>0, <1>5, <2>2 DEF LosePeerConnection, Close
  <2>. QED BY <2>1, <2>3 DEF Elsewhere
<1>6. ASSUME NEW q \in PeerIds, TellSuccessor(q) PROVE Elsewhere(c)
  <2>1. task' = task /\ owes' = owes
    BY <1>6, LoopsAlone
  <2>2. Role(1, Devices) \in Messages /\ Role(1, Devices).kind = "role"
    BY WorkKinds, RoomAssumption DEF PlayerSlots
  <2>3. /\ sent' = sent /\ tab' = tab /\ doubled' = doubled
        /\ replies'[c] = replies[c] \/ replies'[c] = Append(replies[c], Role(1, Devices))
    BY <1>0, <1>6 DEF TellSuccessor
  <2>. QED BY <2>1, <2>2, <2>3 DEF Elsewhere
<1>7. ASSUME NEW ch \in Channels, DataChannel(ch) PROVE Elsewhere(c)
  BY <1>7 DEF Finish, DataChannel, TestPermission, TestOwner, Pass, vars, Elsewhere
<1>8. ReadLoop(c) => Elsewhere(c) \/ PadMove(c)
  BY LoopElsewhere DEF c
<1>9. Elsewhere(c) \/ PadMove(c)
  BY <1>2, <1>3, <1>4, <1>5, <1>6, <1>7, <1>8 DEF InputNext
<1>. QED BY <1>1, <1>9 DEF c

-----------------------------------------------------------------------------
\* A pad changes hands for a peer that stays only in its own claim and its own
\* release.
LEMMA PadOwner ==
    ASSUME InputInv, InputNext, NEW p \in peers, p \in peers', NEW s \in PadSlots,
           ~ClaimAndAnswer(conn[p]), ~ReleaseAndAnswer(conn[p])
    PROVE  gamepadSlots'[s] = p <=> gamepadSlots[s] = p
<1> USE DEF wireVars, serverVars, vars, roomVars, peerVars
<1>0. /\ TypeOK /\ PadAgreement /\ TaskRoles /\ p \in PeerIds /\ p # nil
      /\ conn[p] \in Conns
  BY PeerOfPeer DEF InputInv, IInv, TypeOK, PeerIds, nil
<1>1. ASSUME NEW b \in Conns, ClaimAndAnswer(b) PROVE gamepadSlots'[s] = p <=> gamepadSlots[s] = p
  <2>1. ClaimGamepad(b) /\ task[b].op = "claim"
    BY <1>1 DEF ClaimAndAnswer, ClaimGamepad
  <2>2. conn[task[b].peer] = b
    BY <2>1 DEF InputInv, IInv, TaskRoles
  <2>3. task[b].peer # p
    BY <1>1, <2>2
  <2>. QED BY <1>0, <2>1, <2>3 DEF ClaimGamepad, FreePads, TypeOK
<1>2. ASSUME NEW b \in Conns, ReleaseAndAnswer(b) PROVE gamepadSlots'[s] = p <=> gamepadSlots[s] = p
  <2>1. ReleaseGamepad(b, owes[b].pad) /\ task[b].op = "release"
    BY <1>2 DEF ReleaseAndAnswer
  <2>2. conn[task[b].peer] = b
    BY <2>1 DEF InputInv, IInv, TaskRoles
  <2>3. task[b].peer # p
    BY <1>2, <2>2
  <2>. QED BY <1>0, <2>1, <2>3 DEF ReleaseGamepad, OwnsPad, TypeOK
<1>3. ASSUME NEW l \in peers, RemovePeer(l) PROVE gamepadSlots'[s] = p <=> gamepadSlots[s] = p
  <2>1. l # p
    BY <1>3 DEF RemovePeer
  <2>2. s \in pads[l] <=> gamepadSlots[s] = l
    BY DEF InputInv, IInv, PadAgreement
  <2>. QED BY <1>0, <1>3, <2>1, <2>2 DEF RemovePeer
<1>4. ASSUME NEW b \in Conns, Depart(b) PROVE gamepadSlots'[s] = p <=> gamepadSlots[s] = p
  BY <1>3, <1>4 DEF Depart, LeaveRoom, ReadError, FindPeer
<1>5. ASSUME NEW q \in PeerIds, LosePeerConnection(q)
      PROVE  gamepadSlots'[s] = p <=> gamepadSlots[s] = p
  BY <1>3, <1>5 DEF LosePeerConnection, PeerConnectionLost
<1>6. ASSUME NEW b \in Conns,
             \/ JoinAndAnswer(b) \/ ReadJoinAsPlayer(b) \/ JoinAsPlayerAndAnswer(b)
             \/ ReadReconnect(b) \/ Answering(b) \/ SendAnswer(b) \/ ReadSetGuest(b)
             \/ ReadClaim(b) \/ EnsureGamepad(b) \/ ReadRelease(b)
             \/ \E d \in Devices, on \in BOOLEAN, target \in PeerIds \cup {nil} :
                  SetGuestAndTell(b, d, on, target)
      PROVE  gamepadSlots' = gamepadSlots
  BY <1>6
  DEF JoinAndAnswer, Join, ReadJoinAsPlayer, BeginJoinAsPlayer, JoinAsPlayerAndAnswer, JoinAsPlayer,
      ReadReconnect, Answering, BuildAnswer, ReadPermission, SendAnswer, ReadSetGuest, BeginSetGuest, ReadClaim,
      BeginClaimGamepad, EnsureGamepad, ReadRelease, BeginReleaseGamepad, SetGuestAndTell, SetGuest,
      Begin
<1>7. ASSUME \/ \E b \in Conns : Tab(b)
             \/ \E q \in PeerIds : TellSuccessor(q)
             \/ \E ch \in Channels : DataChannel(ch)
      PROVE  gamepadSlots' = gamepadSlots
  BY <1>7 DEF Tab, PollClaims, Unplug, Learn, TellSuccessor, DataChannel, TestPermission, TestOwner,
              Pass, Finish
<1>. QED BY <1>1, <1>2, <1>4, <1>5, <1>6, <1>7 DEF InputNext, ReadLoop, Answering

\* A device that was made stays.
LEMMA DevicesStay ==
    ASSUME InputNext
    PROVE  gamepads \subseteq gamepads'
BY ZenonT(30) DEF InputNext, ReadLoop, JoinAndAnswer, ReadJoinAsPlayer, JoinAsPlayerAndAnswer, ReadReconnect,
       BuildAnswer, ReadPermission, SendAnswer, ReadSetGuest, SetGuestAndTell, Depart, Close,
       ReadClaim, ClaimAndAnswer, EnsureGamepad, ReadRelease, ReleaseAndAnswer, Tab, PollClaims, Unplug, Learn,
       LosePeerConnection, TellSuccessor, DataChannel, TestPermission, TestOwner, Pass, Finish,
       wireVars, serverVars

-----------------------------------------------------------------------------
\* What is known of a peer's connection before a step.
LEMMA PeerTypes ==
    ASSUME InputInv, NEW p \in peers
    PROVE  /\ conn[p] \in Conns /\ p \in PeerIds /\ p # nil
           /\ owes[conn[p]] \in Work /\ LoopFits(task[conn[p]].op, owes[conn[p]])
           /\ owes \in [Conns -> Work]
           /\ sent \in [Conns -> Seq(PadRequests)] /\ sent[conn[p]] \in Seq(PadRequests)
           /\ replies \in [Conns -> Seq(Messages)] /\ replies[conn[p]] \in Seq(Messages)
           /\ tab \in [Conns -> [slot : PlayerSlots, enabled : SUBSET Devices,
                                 gamepads : [Gamepads -> PadSlots \cup {none}]]]
           /\ tab[conn[p]].gamepads \in [Gamepads -> PadSlots \cup {none}]
           /\ task \in [Conns -> [op : Ops, peer : PeerIds \cup {nil}, arg : Qualities]]
           /\ gamepadSlots \in [PadSlots -> PeerIds \cup {nil}]
BY PeerOfPeer DEF InputInv, InputTypeOK, Queues, IInv, TypeOK, LoopWork, PeerIds, nil

\* A step after which a pad's places are the same, or fewer, keeps it in place
\* as long as what the peer owns and what was released to it stay too.
LEMMA SamePlaces ==
    ASSUME NEW p, NEW c, NEW s, InPlace(p, c, s),
           gamepadSlots'[s] = p <=> gamepadSlots[s] = p, gamepads \subseteq gamepads',
           Owed(c, s)' => Owed(c, s), Coming(c, s)' => Coming(c, s), Known(c, s)' => Known(c, s),
           Leaving(c, s)' => Leaving(c, s), Freeing(c, s)' => Freeing(c, s),
           owes'[c].kind = "claimed" /\ owes'[c].pad = s => owes[c].kind = "claimed" /\ owes[c].pad = s,
           owes'[c].kind = "released" /\ owes'[c].pad = s /\ task'[c].op # "release"
             => owes[c].kind = "released" /\ owes[c].pad = s /\ task[c].op # "release",
           FreeIn(replies[c], s)' => FreeIn(replies[c], s),
           GrantOnce(replies[c], s)', KnownOnce(c, s)', Once(sent[c], Release(s))',
           FreeFirst(replies[c], s)'
    PROVE  InPlace(p, c, s)'
BY DEF InPlace, HeldPad, OnePlace, FreedBefore

\* Elsewhere, everything stays in its place.
LEMMA ElsewherePlaces ==
    ASSUME InputInv, NEW p \in peers, NEW c, c = conn[p], NEW s \in PadSlots, InPlace(p, c, s),
           Elsewhere(c), gamepadSlots'[s] = p <=> gamepadSlots[s] = p, gamepads \subseteq gamepads'
    PROVE  InPlace(p, c, s)'
<1>1. replies[c] \in Seq(Messages)
  BY PeerTypes
<1>2. Owed(c, s)' <=> Owed(c, s)
  BY DEF Elsewhere, Owed
<1>3. Freeing(c, s)' <=> Freeing(c, s)
  BY DEF Elsewhere, Freeing
<1>4. (Known(c, s)' <=> Known(c, s)) /\ (KnownOnce(c, s)' <=> KnownOnce(c, s))
  BY DEF Elsewhere, Known, KnownOnce
<1>5. (Leaving(c, s)' <=> Leaving(c, s)) /\ (Once(sent[c], Release(s))' <=> Once(sent[c], Release(s)))
  BY DEF Elsewhere, Leaving
<1>6. /\ GrantIn(replies'[c], s) <=> GrantIn(replies[c], s)
      /\ FreeIn(replies'[c], s) <=> FreeIn(replies[c], s)
      /\ GrantOnce(replies[c], s) => GrantOnce(replies'[c], s)
      /\ FreeFirst(replies[c], s) => FreeFirst(replies'[c], s)
  <2>1. CASE replies'[c] = replies[c]
    BY <2>1
  <2>2. ASSUME NEW m \in Messages, m.kind \in {"role", "permission"}, replies'[c] = Append(replies[c], m)
        PROVE  /\ GrantIn(replies'[c], s) <=> GrantIn(replies[c], s)
               /\ FreeIn(replies'[c], s) <=> FreeIn(replies[c], s)
               /\ GrantOnce(replies[c], s) => GrantOnce(replies'[c], s)
               /\ FreeFirst(replies[c], s) => FreeFirst(replies'[c], s)
    <3>1. ~Grants(m, s) /\ ~Frees(m, s)
      BY <2>2 DEF Grants, Frees
    <3>. QED BY <1>1, <2>2, <3>1, AddedReply
  <2>. QED BY <2>1, <2>2 DEF Elsewhere
<1>7. /\ owes'[c].kind = "claimed" /\ owes'[c].pad = s => owes[c].kind = "claimed" /\ owes[c].pad = s
      /\ owes'[c].kind = "released" /\ owes'[c].pad = s /\ task'[c].op # "release"
           => owes[c].kind = "released" /\ owes[c].pad = s /\ task[c].op # "release"
  BY DEF Elsewhere
<1>8. GrantOnce(replies[c], s) /\ KnownOnce(c, s) /\ Once(sent[c], Release(s)) /\ FreeFirst(replies[c], s)
  BY DEF InPlace, OnePlace, FreedBefore
<1>. QED BY <1>2, <1>3, <1>4, <1>5, <1>6, <1>7, <1>8, SamePlaces DEF Coming

\* An answer that is sent goes from the read loop to the wire.
LEMMA SendPlaces ==
    ASSUME InputInv, NEW p \in peers, NEW c, c = conn[p], NEW s \in PadSlots, InPlace(p, c, s),
           SendAnswer(c), owes[c].kind \in {"claimed", "released"},
           gamepadSlots'[s] = p <=> gamepadSlots[s] = p
    PROVE  InPlace(p, c, s)'
<1>1. /\ replies[c] \in Seq(Messages) /\ owes[c] \in Messages
      /\ owes'[c] = Idle /\ replies'[c] = Append(replies[c], owes[c])
      /\ UNCHANGED <<task, sent, tab, gamepads>> /\ task[c] = Reading
  BY PeerTypes, PeerOfPeer DEF SendAnswer, Works, vars, serverVars
<1>2. ~Owed(c, s)' /\ ~Freeing(c, s)' /\ ~Freeing(c, s)
  BY <1>1, WorkKinds DEF Owed, Freeing, Reading
<1>3. /\ GrantIn(replies'[c], s) <=> GrantIn(replies[c], s) \/ Grants(owes[c], s)
      /\ FreeIn(replies'[c], s) <=> FreeIn(replies[c], s) \/ Frees(owes[c], s)
      /\ GrantOnce(replies[c], s) /\ ~(GrantIn(replies[c], s) /\ Grants(owes[c], s))
           => GrantOnce(replies'[c], s)
      /\ FreeFirst(replies[c], s) /\ ~(GrantIn(replies[c], s) /\ Frees(owes[c], s))
           => FreeFirst(replies'[c], s)
  BY <1>1, AddedReply
<1>4. /\ Known(c, s)' <=> Known(c, s)
      /\ KnownOnce(c, s)' <=> KnownOnce(c, s)
      /\ Leaving(c, s)' <=> Leaving(c, s)
      /\ Once(sent[c], Release(s))' <=> Once(sent[c], Release(s))
  BY <1>1 DEF Known, KnownOnce, Leaving
<1>5. Grants(owes[c], s) => Owed(c, s) /\ owes[c].kind = "claimed" /\ owes[c].pad = s
  BY DEF Grants, Owed
<1>6. Frees(owes[c], s) => gamepadSlots[s] # p
  BY <1>1 DEF Frees, InPlace, FreedBefore, Reading
<1>7. owes'[c].kind = "idle"
  BY <1>1, WorkKinds
<1>8. HeldPad(p, c, s)'
  BY <1>1, <1>2, <1>3, <1>4, <1>5, <1>7 DEF InPlace, HeldPad, Coming
<1>9. OnePlace(c, s)'
  BY <1>2, <1>3, <1>4, <1>5 DEF InPlace, OnePlace, Coming
<1>10. FreedBefore(p, c, s)'
  BY <1>3, <1>4, <1>6, <1>7 DEF InPlace, HeldPad, FreedBefore, Coming
<1>. QED BY <1>8, <1>9, <1>10 DEF InPlace

\* A claim that is read is no pad yet.
LEMMA ReadClaimPlaces ==
    ASSUME InputInv, NEW p \in peers, NEW c, c = conn[p], NEW s \in PadSlots, InPlace(p, c, s),
           ReadClaim(c), gamepadSlots'[s] = p <=> gamepadSlots[s] = p
    PROVE  InPlace(p, c, s)'
<1>1. /\ sent[c] \in Seq(PadRequests) /\ sent[c] # <<>> /\ Head(sent[c]).kind = "claim"
      /\ owes'[c] = Head(sent[c]) /\ sent'[c] = Tail(sent[c])
      /\ UNCHANGED <<replies, tab, gamepads>>
  BY PeerTypes DEF ReadClaim, Works
<1>2. task'[c].op = "claim"
  BY PeerTypes DEF ReadClaim, BeginClaimGamepad, Begin
<1>3. ~Owed(c, s)' /\ ~Freeing(c, s)'
  BY <1>1, <1>2 DEF Owed, Freeing
<1>4. Head(sent[c]) # Release(s)
  BY <1>1, WorkKinds
<1>5. /\ In(sent'[c], Release(s)) <=> In(sent[c], Release(s))
      /\ Once(sent[c], Release(s)) => Once(sent'[c], Release(s))
  BY <1>1, <1>4, TakenRequest
<1>6. /\ Known(c, s)' <=> Known(c, s)
      /\ KnownOnce(c, s)' <=> KnownOnce(c, s)
      /\ Coming(c, s)' <=> Coming(c, s)
  BY <1>1 DEF Known, KnownOnce, Coming
<1>7. GrantOnce(replies[c], s) /\ KnownOnce(c, s) /\ Once(sent[c], Release(s)) /\ FreeFirst(replies[c], s)
  BY DEF InPlace, OnePlace, FreedBefore
<1>. QED BY <1>1, <1>3, <1>5, <1>6, <1>7, SamePlaces DEF Leaving

\* A release that is read goes from the wire to the read loop.
LEMMA ReadReleasePlaces ==
    ASSUME InputInv, NEW p \in peers, NEW c, c = conn[p], NEW s \in PadSlots, InPlace(p, c, s),
           ReadRelease(c), gamepadSlots'[s] = p <=> gamepadSlots[s] = p
    PROVE  InPlace(p, c, s)'
<1> DEFINE h == Head(sent[c])
<1>1. /\ sent[c] \in Seq(PadRequests) /\ sent[c] # <<>> /\ h.kind = "release"
      /\ owes'[c] = Released(h.pad) /\ sent'[c] = Tail(sent[c])
      /\ UNCHANGED <<replies, tab, gamepads>>
      /\ owes[c] = Idle
  BY PeerTypes DEF ReadRelease, Works
<1>2. task'[c].op = "release"
  BY PeerTypes DEF ReadRelease, BeginReleaseGamepad, Begin
<1>3. h \in PadRequests /\ h = Release(h.pad) /\ h.pad \in PadSlots
  BY <1>1, Taken, RequestShape
<1>4. /\ In(sent[c], Release(s)) <=> In(sent'[c], Release(s)) \/ h = Release(s)
      /\ Once(sent[c], Release(s)) => /\ Once(sent'[c], Release(s))
                                      /\ ~(In(sent'[c], Release(s)) /\ h = Release(s))
  BY <1>1, TakenRequest
<1>5. h = Release(s) <=> h.pad = s
  BY <1>3, WorkKinds
<1>6. ~Owed(c, s)' /\ ~Owed(c, s) /\ (Freeing(c, s)' <=> h.pad = s) /\ owes'[c].kind = "released"
  BY <1>1, <1>2, <1>3, WorkKinds DEF Owed, Freeing
<1>7. /\ Known(c, s)' <=> Known(c, s)
      /\ KnownOnce(c, s)' <=> KnownOnce(c, s)
      /\ Coming(c, s)' <=> Coming(c, s)
  BY <1>1 DEF Known, KnownOnce, Coming
<1> HIDE DEF h
<1>8. HeldPad(p, c, s)'
  BY <1>1, <1>4, <1>5, <1>6, <1>7 DEF InPlace, HeldPad, Leaving
<1>9. OnePlace(c, s)'
  BY <1>1, <1>4, <1>5, <1>6, <1>7 DEF InPlace, OnePlace, Leaving
<1>10. FreedBefore(p, c, s)'
  BY <1>1, <1>2, <1>7 DEF InPlace, FreedBefore
<1>. QED BY <1>8, <1>9, <1>10 DEF InPlace

\* What a claim and a release do to the peer's pads.
LEMMA OwnClaim ==
    ASSUME InputInv, NEW p \in peers, NEW c, c = conn[p], ClaimAndAnswer(c)
    PROVE  /\ owes[c].kind = "claim" /\ task[c].op = "claim" /\ task'[c] = Reading
           /\ UNCHANGED <<sent, replies, tab, gamepads, doubled>>
           /\ \/ owes'[c] = Idle /\ gamepadSlots' = gamepadSlots
              \/ \E t \in PadSlots :
                   /\ owes'[c] = Ensure(owes[c].gamepad, t) /\ gamepadSlots[t] = nil
                   /\ gamepadSlots' = [gamepadSlots EXCEPT ![t] = p]
<1>1. /\ ClaimGamepad(c) /\ task[c].op = "claim"
      /\ UNCHANGED <<sent, replies, tab, gamepads, doubled>>
      /\ c \in Conns /\ owes \in [Conns -> Work]
  BY PeerTypes DEF ClaimAndAnswer, ClaimGamepad, wireVars
<1>2. owes[c].kind = "claim" /\ task'[c] = Reading
  BY <1>1, PeerTypes DEF ClaimGamepad, Done, LoopFits
<1>3. task[c].peer = p
  <2>1. task[c].peer \in PeerIds /\ conn[task[c].peer] = c
    BY <1>1 DEF InputInv, IInv, TaskRoles
  <2>. QED BY <1>1, <2>1, PeerTypes DEF InputInv, OnePeer
<1>4. CASE FreePads = {}
  BY <1>1, <1>2, <1>4 DEF ClaimAndAnswer, ClaimGamepad, Works
<1>5. CASE FreePads # {}
  <2>1. PICK t \in FreePads : gamepadSlots' = [gamepadSlots EXCEPT ![t] = p]
    BY <1>1, <1>3, <1>5 DEF ClaimGamepad
  <2>2. PICK u \in FreePads : gamepadSlots'[u] # nil /\ Works(c, Ensure(owes[c].gamepad, u))
    BY <1>5 DEF ClaimAndAnswer
  <2>3. u = t
    BY <2>1, <2>2, PeerTypes DEF FreePads
  <2>4. owes'[c] = Ensure(owes[c].gamepad, t)
    BY <1>1, <2>2, <2>3 DEF Works
  <2>. QED BY <1>1, <1>2, <2>1, <2>4 DEF FreePads
<1>. QED BY <1>4, <1>5

LEMMA OwnRelease ==
    ASSUME InputInv, NEW p \in peers, NEW c, c = conn[p], ReleaseAndAnswer(c)
    PROVE  /\ owes[c].kind = "released" /\ task[c].op = "release" /\ task'[c] = Reading
           /\ owes[c].pad \in PadSlots
           /\ UNCHANGED <<owes, sent, replies, tab, gamepads, doubled>>
           /\ \/ gamepadSlots[owes[c].pad] # p /\ gamepadSlots' = gamepadSlots
              \/ /\ gamepadSlots[owes[c].pad] = p
                 /\ gamepadSlots' = [gamepadSlots EXCEPT ![owes[c].pad] = nil]
<1>1. /\ ReleaseGamepad(c, owes[c].pad) /\ task[c].op = "release"
      /\ UNCHANGED <<owes, sent, replies, tab, gamepads, doubled>>
      /\ c \in Conns
  BY PeerTypes DEF ReleaseAndAnswer, wireVars, serverVars
<1>2. owes[c].kind = "released" /\ owes[c] \in Work /\ task'[c] = Reading
  BY <1>1, PeerTypes DEF ReleaseGamepad, Done, LoopFits
<1>3. task[c].peer = p
  <2>1. task[c].peer \in PeerIds /\ conn[task[c].peer] = c
    BY <1>1 DEF InputInv, IInv, TaskRoles
  <2>. QED BY <1>1, <2>1, PeerTypes DEF InputInv, OnePeer
<1>. QED BY <1>1, <1>2, <1>3, WorkShape DEF ReleaseGamepad, OwnsPad

\* A pad that is claimed was nobody's, and is in the read loop's answer.
LEMMA ClaimPlaces ==
    ASSUME InputInv, NEW p \in peers, NEW c, c = conn[p], NEW s \in PadSlots, InPlace(p, c, s),
           ClaimAndAnswer(c)
    PROVE  InPlace(p, c, s)'
<1>0. /\ p # nil /\ gamepadSlots \in [PadSlots -> PeerIds \cup {nil}]
      /\ owes[c].gamepad \in Gamepads
  BY PeerTypes, OwnClaim, WorkShape
<1>1. /\ owes[c].kind = "claim" /\ task[c].op = "claim" /\ task'[c].op = "read"
      /\ UNCHANGED <<sent, replies, tab, gamepads>>
  BY OwnClaim DEF Reading
<1>2. /\ Known(c, s)' <=> Known(c, s)
      /\ KnownOnce(c, s)' <=> KnownOnce(c, s)
      /\ Coming(c, s)' <=> Coming(c, s)
      /\ Leaving(c, s)' <=> Leaving(c, s)
  BY <1>1 DEF Known, KnownOnce, Coming, Leaving
<1>3. ~Owed(c, s) /\ ~Freeing(c, s) /\ ~Freeing(c, s)'
  BY <1>1 DEF Owed, Freeing
<1>4. GrantOnce(replies[c], s) /\ KnownOnce(c, s) /\ Once(sent[c], Release(s)) /\ FreeFirst(replies[c], s)
  BY DEF InPlace, OnePlace, FreedBefore
<1>5. CASE owes'[c] = Idle /\ gamepadSlots' = gamepadSlots
  <2>1. ~Owed(c, s)' /\ owes'[c].kind = "idle"
    BY <1>5, WorkKinds DEF Owed
  <2>. QED BY <1>1, <1>2, <1>3, <1>4, <1>5, <2>1, SamePlaces
<1>6. ASSUME NEW t \in PadSlots, owes'[c] = Ensure(owes[c].gamepad, t), gamepadSlots[t] = nil,
             gamepadSlots' = [gamepadSlots EXCEPT ![t] = p]
      PROVE  InPlace(p, c, s)'
  <2>1. owes'[c].kind = "ensure" /\ owes'[c].pad = t
    BY <1>0, <1>6, WorkKinds
  <2>2. CASE s = t
    <3>1. ~Coming(c, s) /\ ~Known(c, s) /\ ~Leaving(c, s) /\ gamepadSlots'[s] = p
      BY <1>0, <1>6, <2>2 DEF InPlace, HeldPad
    <3>2. HeldPad(p, c, s)'
      BY <1>2, <1>3, <2>1, <3>1 DEF HeldPad
    <3>3. OnePlace(c, s)'
      BY <1>1, <1>2, <1>3, <1>4, <3>1 DEF OnePlace
    <3>4. FreedBefore(p, c, s)'
      BY <1>1, <1>2, <1>4, <2>1, <3>1 DEF FreedBefore
    <3>. QED BY <3>2, <3>3, <3>4 DEF InPlace
  <2>3. CASE s # t
    <3>1. gamepadSlots'[s] = gamepadSlots[s] /\ ~Owed(c, s)'
      BY <1>0, <1>6, <2>1, <2>3 DEF Owed
    <3>. QED BY <1>1, <1>2, <1>3, <1>4, <2>1, <3>1, SamePlaces
  <2>. QED BY <2>2, <2>3
<1>. QED BY <1>5, <1>6, OwnClaim

\* The device is made, or cannot be, before the answer is ready.
LEMMA EnsurePlaces ==
    ASSUME InputInv, NEW p \in peers, NEW c, c = conn[p], NEW s \in PadSlots, InPlace(p, c, s),
           EnsureGamepad(c), gamepadSlots'[s] = p <=> gamepadSlots[s] = p, gamepads \subseteq gamepads'
    PROVE  InPlace(p, c, s)'
<1>1. /\ owes[c].kind = "ensure" /\ owes'[c] = Claimed(owes[c].gamepad, owes[c].pad)
      /\ UNCHANGED <<task, sent, replies, tab>>
      /\ owes[c].gamepad \in Gamepads /\ owes[c].pad \in PadSlots
  BY PeerTypes, WorkShape DEF EnsureGamepad, Works, vars, wireVars
<1>2. owes'[c].kind = "claimed" /\ owes'[c].pad = owes[c].pad
  BY <1>1, WorkKinds
<1>3. owes[c].pad = s => (InputAvailable => s \in gamepads' \cup Unmakeable)
  BY DEF EnsureGamepad
<1>4. /\ Owed(c, s)' <=> Owed(c, s)
      /\ Known(c, s)' <=> Known(c, s)
      /\ KnownOnce(c, s)' <=> KnownOnce(c, s)
      /\ Coming(c, s)' <=> Coming(c, s)
      /\ Leaving(c, s)' <=> Leaving(c, s)
      /\ Freeing(c, s)' <=> Freeing(c, s)
  BY <1>1, <1>2 DEF Owed, Known, KnownOnce, Coming, Leaving, Freeing
<1>5. HeldPad(p, c, s)'
  BY <1>2, <1>3, <1>4 DEF InPlace, HeldPad
<1>6. OnePlace(c, s)'
  BY <1>1, <1>4 DEF InPlace, OnePlace
<1>7. FreedBefore(p, c, s)'
  BY <1>1, <1>2, <1>4 DEF InPlace, FreedBefore
<1>. QED BY <1>5, <1>6, <1>7 DEF InPlace

\* A pad that is released was in this place alone, and is in none.
LEMMA ReleasePlaces ==
    ASSUME InputInv, NEW p \in peers, NEW c, c = conn[p], NEW s \in PadSlots, InPlace(p, c, s),
           ReleaseAndAnswer(c)
    PROVE  InPlace(p, c, s)'
<1>1. /\ owes[c].kind = "released" /\ task[c].op = "release" /\ task'[c].op = "read"
      /\ owes[c].pad \in PadSlots
      /\ UNCHANGED <<owes, sent, replies, tab, gamepads>>
  BY OwnRelease DEF Reading
<1>2. /\ Known(c, s)' <=> Known(c, s)
      /\ KnownOnce(c, s)' <=> KnownOnce(c, s)
      /\ Coming(c, s)' <=> Coming(c, s)
      /\ Leaving(c, s)' <=> Leaving(c, s)
  BY <1>1 DEF Known, KnownOnce, Coming, Leaving
<1>3. ~Owed(c, s) /\ ~Owed(c, s)' /\ ~Freeing(c, s)'
  BY <1>1 DEF Owed, Freeing
<1>4. GrantOnce(replies[c], s) /\ KnownOnce(c, s) /\ Once(sent[c], Release(s)) /\ FreeFirst(replies[c], s)
  BY DEF InPlace, OnePlace, FreedBefore
<1>5. p # nil /\ gamepadSlots \in [PadSlots -> PeerIds \cup {nil}]
  BY PeerTypes
<1>6. CASE owes[c].pad = s
  <2>1. Freeing(c, s) /\ gamepadSlots[s] = p
    BY <1>1, <1>6 DEF Freeing, InPlace, HeldPad
  <2>2. ~Coming(c, s) /\ ~Known(c, s) /\ ~Leaving(c, s)
    BY <2>1 DEF InPlace, OnePlace
  <2>3. gamepadSlots'[s] # p
    BY <1>5, <1>6, <2>1, OwnRelease
  <2>4. HeldPad(p, c, s)'
    BY <1>1, <1>2, <1>3, <2>2 DEF HeldPad
  <2>5. OnePlace(c, s)'
    BY <1>1, <1>2, <1>3, <1>4, <2>2 DEF OnePlace
  <2>6. FreedBefore(p, c, s)'
    BY <1>1, <1>2, <1>4, <2>2, <2>3 DEF FreedBefore
  <2>. QED BY <2>4, <2>5, <2>6 DEF InPlace
<1>7. CASE owes[c].pad # s
  <2>1. gamepadSlots'[s] = gamepadSlots[s]
    BY <1>5, <1>7, OwnRelease
  <2>. QED BY <1>1, <1>2, <1>3, <1>4, <1>7, <2>1, SamePlaces
<1>. QED BY <1>6, <1>7

\* What a tab does with its gamepads when it handles a message.
LEMMA LearnPads ==
    ASSUME InputInv, NEW p \in peers, NEW c, c = conn[p], Learn(c)
    PROVE  /\ replies[c] \in Seq(Messages) /\ replies[c] # <<>> /\ replies'[c] = Tail(replies[c])
           /\ Head(replies[c]) \in Messages
           /\ UNCHANGED <<owes, task, sent, gamepadSlots, gamepads, doubled>>
           /\ \/ /\ Head(replies[c]).kind \in {"role", "permission"}
                 /\ tab'[c].gamepads = tab[c].gamepads
              \/ /\ Head(replies[c]).kind = "claimed"
                 /\ tab'[c].gamepads =
                      [tab[c].gamepads EXCEPT ![Head(replies[c]).gamepad] = Head(replies[c]).pad]
              \/ /\ Head(replies[c]).kind = "released"
                 /\ \A b \in Gamepads :
                      tab'[c].gamepads[b] = IF tab[c].gamepads[b] = Head(replies[c]).pad THEN none
                                            ELSE tab[c].gamepads[b]
<1> DEFINE m == Head(replies[c])
           t == tab[c]
<1>1. /\ replies[c] \in Seq(Messages) /\ replies[c] # <<>> /\ replies'[c] = Tail(replies[c])
      /\ m \in Messages /\ c \in Conns
      /\ UNCHANGED <<owes, task, sent, gamepadSlots, gamepads, doubled>>
  BY PeerTypes, Taken DEF Learn, vars, roomVars, serverVars
<1>2. /\ t \in [slot : PlayerSlots, enabled : SUBSET Devices,
                gamepads : [Gamepads -> PadSlots \cup {none}]]
      /\ tab \in [Conns -> [slot : PlayerSlots, enabled : SUBSET Devices,
                            gamepads : [Gamepads -> PadSlots \cup {none}]]]
  BY <1>1, PeerTypes
<1>3. m.kind \in {"role", "permission", "claimed", "released"}
  BY <1>1, MessageShape
<1>4. CASE m.kind = "role"
  <2>1. tab'[c] = [t EXCEPT !.slot = m.slot, !.enabled = m.enabled]
    BY <1>1, <1>2, <1>4 DEF Learn
  <2>. QED BY <1>1, <1>2, <1>4, <2>1
<1>5. CASE m.kind = "permission"
  <2>1. tab'[c] = [t EXCEPT !.enabled = Permit(@, m.device, m.on)]
    BY <1>1, <1>2, <1>5 DEF Learn
  <2>. QED BY <1>1, <1>2, <1>5, <2>1
<1>6. CASE m.kind = "claimed"
  <2>1. tab'[c] = [t EXCEPT !.gamepads[m.gamepad] = m.pad]
    BY <1>1, <1>2, <1>6 DEF Learn
  <2>. QED BY <1>1, <1>2, <1>6, <2>1
<1>7. CASE m.kind = "released"
  <2>1. tab'[c] = [t EXCEPT !.gamepads = [b \in Gamepads |-> IF @[b] = m.pad THEN none ELSE @[b]]]
    BY <1>1, <1>2, <1>7 DEF Learn
  <2>2. tab'[c].gamepads
          = [b \in Gamepads |-> IF t.gamepads[b] = m.pad THEN none ELSE t.gamepads[b]]
    BY <1>2, <2>1
  <2>3. \A b \in Gamepads :
          tab'[c].gamepads[b] = IF t.gamepads[b] = m.pad THEN none ELSE t.gamepads[b]
    BY <2>2
  <2>. QED BY <1>1, <1>7, <2>3
<1>. QED BY <1>3, <1>4, <1>5, <1>6, <1>7

\* A grant that the tab handles goes from the wire to the tab; the word of a
\* release takes nothing away that it holds.
LEMMA LearnPlaces ==
    ASSUME InputInv, NEW p \in peers, NEW c, c = conn[p], NEW s \in PadSlots, InPlace(p, c, s),
           Learn(c)
    PROVE  InPlace(p, c, s)'
<1> DEFINE m == Head(replies[c])
<1>1. /\ replies[c] \in Seq(Messages) /\ replies[c] # <<>> /\ replies'[c] = Tail(replies[c])
      /\ m \in Messages
      /\ UNCHANGED <<owes, task, sent, gamepadSlots, gamepads, doubled>>
  BY LearnPads
<1>2. tab[c].gamepads \in [Gamepads -> PadSlots \cup {none}] /\ s # none
  BY PeerTypes, RoomAssumption DEF none, PadSlots
<1>3. /\ GrantIn(replies[c], s) <=> GrantIn(replies'[c], s) \/ Grants(m, s)
      /\ FreeIn(replies[c], s) <=> FreeIn(replies'[c], s) \/ Frees(m, s)
      /\ GrantOnce(replies[c], s) => /\ GrantOnce(replies'[c], s)
                                     /\ ~(GrantIn(replies'[c], s) /\ Grants(m, s))
      /\ FreeFirst(replies[c], s) => /\ FreeFirst(replies'[c], s)
                                     /\ ~(FreeIn(replies'[c], s) /\ Grants(m, s))
  BY <1>1, TakenReply
<1>4. /\ Leaving(c, s)' <=> Leaving(c, s)
      /\ Once(sent[c], Release(s))' <=> Once(sent[c], Release(s))
      /\ Owed(c, s)' <=> Owed(c, s)
      /\ Freeing(c, s)' <=> Freeing(c, s)
  BY <1>1 DEF Leaving, Owed, Freeing
<1>5. GrantOnce(replies[c], s) /\ KnownOnce(c, s) /\ Once(sent[c], Release(s)) /\ FreeFirst(replies[c], s)
  BY DEF InPlace, OnePlace, FreedBefore
<1>6. ASSUME Known(c, s)' => Known(c, s), KnownOnce(c, s)' PROVE InPlace(p, c, s)'
  BY <1>1, <1>3, <1>4, <1>5, <1>6, SamePlaces DEF Coming
<1>7. CASE m.kind \in {"role", "permission"}
  <2>1. tab'[c].gamepads = tab[c].gamepads
    BY <1>7, LearnPads
  <2>2. (Known(c, s)' <=> Known(c, s)) /\ (KnownOnce(c, s)' <=> KnownOnce(c, s))
    BY <2>1 DEF Known, KnownOnce
  <2>. QED BY <1>5, <1>6, <2>2
<1>8. CASE m.kind = "released"
  <2>1. \A b \in Gamepads :
          tab'[c].gamepads[b] = IF tab[c].gamepads[b] = m.pad THEN none ELSE tab[c].gamepads[b]
    BY <1>8, LearnPads
  <2>2. \A b \in Gamepads : tab'[c].gamepads[b] = s => tab[c].gamepads[b] = s
    BY <1>2, <2>1
  <2>3. Known(c, s)' => Known(c, s)
    BY <2>2 DEF Known
  <2>4. KnownOnce(c, s)'
    BY <1>5, <2>2 DEF KnownOnce
  <2>. QED BY <1>6, <2>3, <2>4
<1>9. CASE m.kind = "claimed"
  <2>1. /\ m.gamepad \in Gamepads /\ m.pad \in PadSlots
        /\ tab'[c].gamepads = [tab[c].gamepads EXCEPT ![m.gamepad] = m.pad]
    BY <1>1, <1>9, LearnPads, MessageShape
  <2>2. CASE m.pad # s
    <3>1. \A b \in Gamepads : tab'[c].gamepads[b] = s => tab[c].gamepads[b] = s
      BY <1>2, <2>1, <2>2
    <3>2. Known(c, s)' => Known(c, s)
      BY <3>1 DEF Known
    <3>3. KnownOnce(c, s)'
      BY <1>5, <3>1 DEF KnownOnce
    <3>. QED BY <1>6, <3>2, <3>3
  <2>3. CASE m.pad = s
    <3>1. Grants(m, s) /\ Coming(c, s) /\ ~Coming(c, s)'
      BY <1>3, <1>5, <1>9, <2>3 DEF Grants, Coming
    <3>2. ~Known(c, s) /\ ~Owed(c, s) /\ ~Leaving(c, s) /\ ~Freeing(c, s) /\ gamepadSlots[s] = p
          /\ (InputAvailable => s \in gamepads \cup Unmakeable)
      BY <3>1 DEF InPlace, HeldPad, OnePlace
    <3>3. KnownOnce(c, s)'
      BY <1>2, <2>1, <3>2 DEF Known, KnownOnce
    <3>4. HeldPad(p, c, s)'
      BY <1>1, <3>2 DEF HeldPad
    <3>5. OnePlace(c, s)'
      BY <1>3, <1>4, <1>5, <3>1, <3>2, <3>3 DEF OnePlace
    <3>6. FreedBefore(p, c, s)'
      <4>1. ~FreeIn(replies'[c], s) /\ FreeFirst(replies'[c], s)
        BY <1>3, <1>5, <3>1
      <4>. QED BY <1>1, <4>1 DEF InPlace, FreedBefore
    <3>. QED BY <3>4, <3>5, <3>6 DEF InPlace
  <2>. QED BY <2>2, <2>3
<1>. QED BY <1>1, <1>7, <1>8, <1>9, MessageShape

\* A new claim is no pad yet.
LEMMA PollPlaces ==
    ASSUME InputInv, NEW p \in peers, NEW c, c = conn[p], NEW s \in PadSlots, InPlace(p, c, s),
           NEW b \in Gamepads, PollClaims(c, b)
    PROVE  InPlace(p, c, s)'
<1>1. /\ sent[c] \in Seq(PadRequests) /\ sent'[c] = Append(sent[c], Claim(b))
      /\ UNCHANGED <<owes, task, replies, tab, gamepadSlots, gamepads>>
  BY PeerTypes DEF PollClaims, vars, roomVars, serverVars
<1>2. Claim(b) \in PadRequests /\ Claim(b) # Release(s)
  BY WorkKinds
<1>3. /\ In(sent'[c], Release(s)) <=> In(sent[c], Release(s))
      /\ Once(sent[c], Release(s)) => Once(sent'[c], Release(s))
  BY <1>1, <1>2, AddedRequest
<1>4. /\ Owed(c, s)' <=> Owed(c, s)
      /\ Known(c, s)' <=> Known(c, s)
      /\ KnownOnce(c, s)' <=> KnownOnce(c, s)
      /\ Coming(c, s)' <=> Coming(c, s)
      /\ Freeing(c, s)' <=> Freeing(c, s)
  BY <1>1 DEF Owed, Known, KnownOnce, Coming, Freeing
<1>5. GrantOnce(replies[c], s) /\ KnownOnce(c, s) /\ Once(sent[c], Release(s)) /\ FreeFirst(replies[c], s)
  BY DEF InPlace, OnePlace, FreedBefore
<1>. QED BY <1>1, <1>3, <1>4, <1>5, SamePlaces DEF Leaving

\* What unplugging does to the tab's table.
LEMMA UnplugPads ==
    ASSUME InputInv, NEW p \in peers, NEW c, c = conn[p], NEW b \in Gamepads, Unplug(c, b)
    PROVE  /\ tab[c].gamepads \in [Gamepads -> PadSlots \cup {none}]
           /\ tab[c].gamepads[b] \in PadSlots
           /\ tab'[c].gamepads = [tab[c].gamepads EXCEPT ![b] = none]
           /\ sent[c] \in Seq(PadRequests) /\ sent'[c] = Append(sent[c], Release(tab[c].gamepads[b]))
           /\ UNCHANGED <<owes, task, replies, gamepadSlots, gamepads, doubled>>
<1>1. /\ tab[c].gamepads \in [Gamepads -> PadSlots \cup {none}] /\ c \in Conns
      /\ sent[c] \in Seq(PadRequests) /\ sent'[c] = Append(sent[c], Release(tab[c].gamepads[b]))
      /\ UNCHANGED <<owes, task, replies, gamepadSlots, gamepads, doubled>>
  BY PeerTypes DEF Unplug, vars, roomVars, serverVars
<1>2. /\ tab \in [Conns -> [slot : PlayerSlots, enabled : SUBSET Devices,
                            gamepads : [Gamepads -> PadSlots \cup {none}]]]
  BY PeerTypes
<1>3. tab'[c] = [tab[c] EXCEPT !.gamepads[b] = none]
  BY <1>1, <1>2 DEF Unplug
<1>4. tab[c] \in [slot : PlayerSlots, enabled : SUBSET Devices,
                  gamepads : [Gamepads -> PadSlots \cup {none}]]
  BY <1>1, <1>2
<1>. QED BY <1>1, <1>3, <1>4 DEF Unplug

\* The pad of an unplugged gamepad goes from the tab to the wire.
LEMMA UnplugPlaces ==
    ASSUME InputInv, NEW p \in peers, NEW c, c = conn[p], NEW s \in PadSlots, InPlace(p, c, s),
           NEW b \in Gamepads, Unplug(c, b)
    PROVE  InPlace(p, c, s)'
<1> DEFINE t == tab[c].gamepads[b]
<1>1. /\ tab[c].gamepads \in [Gamepads -> PadSlots \cup {none}] /\ t \in PadSlots
      /\ tab'[c].gamepads = [tab[c].gamepads EXCEPT ![b] = none]
      /\ sent[c] \in Seq(PadRequests) /\ sent'[c] = Append(sent[c], Release(t))
      /\ UNCHANGED <<owes, task, replies, gamepadSlots, gamepads, doubled>>
  BY UnplugPads
<1>2. s # none
  BY RoomAssumption DEF none, PadSlots
<1>3. Release(t) \in PadRequests /\ (Release(t) = Release(s) <=> t = s)
  BY <1>1, WorkKinds
<1>4. /\ In(sent'[c], Release(s)) <=> In(sent[c], Release(s)) \/ t = s
      /\ Once(sent[c], Release(s)) /\ ~(In(sent[c], Release(s)) /\ t = s) => Once(sent'[c], Release(s))
  BY <1>1, <1>3, AddedRequest
<1>5. /\ Owed(c, s)' <=> Owed(c, s)
      /\ Coming(c, s)' <=> Coming(c, s)
      /\ Freeing(c, s)' <=> Freeing(c, s)
  BY <1>1 DEF Owed, Coming, Freeing
<1>6. GrantOnce(replies[c], s) /\ KnownOnce(c, s) /\ Once(sent[c], Release(s)) /\ FreeFirst(replies[c], s)
  BY DEF InPlace, OnePlace, FreedBefore
<1>7. \A a \in Gamepads : tab'[c].gamepads[a] = s => tab[c].gamepads[a] = s /\ a # b
  BY <1>1, <1>2
<1>8. (Known(c, s)' => Known(c, s)) /\ KnownOnce(c, s)'
  BY <1>6, <1>7 DEF Known, KnownOnce
<1>9. CASE t = s
  <2>1. Known(c, s) /\ ~Known(c, s)'
    BY <1>6, <1>7, <1>9 DEF Known, KnownOnce
  <2>2. ~Leaving(c, s) /\ ~Freeing(c, s) /\ ~Owed(c, s) /\ ~Coming(c, s) /\ gamepadSlots[s] = p
    BY <2>1 DEF InPlace, OnePlace, HeldPad
  <2>3. HeldPad(p, c, s)'
    BY <1>1, <1>5, <2>1, <2>2 DEF HeldPad, InPlace
  <2>4. OnePlace(c, s)'
    BY <1>1, <1>4, <1>5, <1>6, <1>8, <2>1, <2>2 DEF OnePlace, Leaving
  <2>5. FreedBefore(p, c, s)'
    BY <1>1, <2>1 DEF InPlace, FreedBefore
  <2>. QED BY <2>3, <2>4, <2>5 DEF InPlace
<1>10. CASE t # s
  BY <1>1, <1>4, <1>5, <1>6, <1>8, <1>10, SamePlaces DEF Leaving
<1>. QED BY <1>9, <1>10

-----------------------------------------------------------------------------
\* A peer that has just joined holds nothing and has asked for nothing.
LEMMA Joining ==
    ASSUME InputInv, InputNext, NEW p \in peers', p \notin peers
    PROVE  /\ p \in PeerIds /\ conn'[p] \in Conns /\ p = nextPeerID + 1
           /\ sent'[conn'[p]] = <<>> /\ replies'[conn'[p]] = <<>> /\ tab'[conn'[p]] = FreshTab
           /\ task'[conn'[p]] = Reading
           /\ owes'[conn'[p]] = ToBuild("welcome", IF host = nil THEN 1 ELSE 0)
           /\ Join(conn'[p]) /\ announce' = announce
           /\ \A s \in PadSlots : gamepadSlots'[s] # p
<1>1. PICK c \in Conns : Join(c)
  BY ConnSteps, RoomStep
<1>2. /\ p = nextPeerID + 1 /\ p \in PeerIds /\ ~Joined(c) /\ ~InRoom(c)
      /\ conn' = [conn EXCEPT ![p] = c]
  BY <1>1, JoinConn DEF Joined, InRoom, InputInv, IInv, TypeOK
<1>3. conn'[p] = c
  BY <1>2 DEF InputInv, IInv, TypeOK
<1>4. JoinAndAnswer(c)
  <2>1. /\ task' = task /\ task[c] = Reading
        /\ nextPeerID' # nextPeerID
    BY <1>1 DEF Join, InputInv, IInv, TypeOK
  <2>2. ASSUME NEW b \in Conns, ReadLoop(b), ~JoinAndAnswer(b) PROVE FALSE
    BY <2>1, <2>2
    DEF ReadLoop, ReadJoinAsPlayer, JoinAsPlayerAndAnswer, ReadReconnect, BuildAnswer,
        ReadPermission, SendAnswer, ReadSetGuest, SetGuestAndTell, Depart, ReadClaim, ClaimAndAnswer, EnsureGamepad, ReadRelease,
        ReleaseAndAnswer, BeginJoinAsPlayer, JoinAsPlayer, BeginSetGuest, SetGuest, LeaveRoom,
        ReadError, RemovePeer, BeginClaimGamepad, ClaimGamepad, BeginReleaseGamepad, ReleaseGamepad,
        Begin, vars, roomVars
  <2>3. ASSUME \/ \E b \in Conns : Tab(b)
               \/ \E q \in PeerIds : LosePeerConnection(q) \/ TellSuccessor(q)
               \/ \E ch \in Channels : DataChannel(ch)
        PROVE  FALSE
    BY <2>1, <2>3
    DEF Tab, PollClaims, Unplug, Learn, LosePeerConnection, PeerConnectionLost, RemovePeer,
        TellSuccessor, DataChannel, TestPermission, TestOwner, Pass, Finish, vars, roomVars
  <2>4. PICK b \in Conns : JoinAndAnswer(b)
    BY <2>2, <2>3 DEF InputNext
  <2>5. conn' = [conn EXCEPT ![p] = b]
    BY <1>2, <2>4 DEF JoinAndAnswer, Join
  <2>6. b = c
    BY <1>2, <1>3, <2>5 DEF InputInv, IInv, TypeOK
  <2>. QED BY <2>4, <2>6
<1>5. /\ task'[c] = Reading /\ UNCHANGED <<announce, sent, replies, tab, gamepadSlots>>
      /\ owes'[c] = ToBuild("welcome", IF host = nil THEN 1 ELSE 0)
  BY <1>4 DEF JoinAndAnswer, Join, Works, wireVars, InputInv, InputTypeOK
<1>6. sent[c] = <<>> /\ replies[c] = <<>> /\ tab[c] = FreshTab
  BY <1>2 DEF InputInv, Unjoined
<1>7. \A s \in PadSlots : gamepadSlots[s] # p
  <2>1. p > nextPeerID
    BY <1>2 DEF InputInv, IInv, TypeOK
  <2>. QED BY <1>2, <2>1 DEF InputInv, IInv, FreshIds
<1>. QED BY <1>1, <1>2, <1>3, <1>5, <1>6, <1>7

\* A pad of a peer that stays is in place after any step.
LEMMA StayingPlaces ==
    ASSUME InputInv, InputNext, NEW p \in peers, p \in peers', NEW c, c = conn[p],
           NEW s \in PadSlots, InPlace(p, c, s)
    PROVE  InPlace(p, c, s)'
<1>1. Elsewhere(c) \/ PadMove(c)
  BY PadStep
<1>2. gamepads \subseteq gamepads'
  BY DevicesStay
<1>3. ~ClaimAndAnswer(c) /\ ~ReleaseAndAnswer(c) => (gamepadSlots'[s] = p <=> gamepadSlots[s] = p)
  BY PadOwner
<1>4. CASE ClaimAndAnswer(c)
  BY <1>4, ClaimPlaces
<1>5. CASE ReleaseAndAnswer(c)
  BY <1>5, ReleasePlaces
<1>6. CASE Elsewhere(c) /\ ~ClaimAndAnswer(c) /\ ~ReleaseAndAnswer(c)
  BY <1>2, <1>3, <1>6, ElsewherePlaces
<1>7. CASE PadMove(c) /\ ~ClaimAndAnswer(c) /\ ~ReleaseAndAnswer(c)
  BY <1>2, <1>3, <1>7, SendPlaces, ReadClaimPlaces, EnsurePlaces, ReadReleasePlaces, LearnPlaces,
     PollPlaces, UnplugPlaces
  DEF PadMove
<1>. QED BY <1>1, <1>4, <1>5, <1>6, <1>7

LEMMA PlacesNext ==
    ASSUME InputInv, PadsInPlace, InputNext
    PROVE  PadsInPlace'
<1> SUFFICES ASSUME NEW p \in peers', NEW c \in Conns, NEW s \in PadSlots, conn'[p] = c
             PROVE  InPlace(p, c, s)'
  BY DEF PadsInPlace
<1>1. CASE p \in peers
  <2>1. c = conn[p]
    BY <1>1, PadStep
  <2>. QED BY <1>1, <2>1, StayingPlaces DEF PadsInPlace
<1>2. CASE p \notin peers
  <2>1. /\ sent'[c] = <<>> /\ replies'[c] = <<>> /\ tab'[c] = FreshTab /\ task'[c].op = "read"
        /\ owes'[c].kind = "welcome"
    BY <1>2, Joining, WorkKinds DEF Reading
  <2>2. s # none
    BY RoomAssumption DEF none, PadSlots
  <2>3. DOMAIN sent'[c] = {} /\ DOMAIN replies'[c] = {}
    BY <2>1
  <2>4. ~Owed(c, s)' /\ ~Coming(c, s)' /\ ~Known(c, s)' /\ ~Leaving(c, s)' /\ ~Freeing(c, s)'
    BY <2>1, <2>2, <2>3 DEF Owed, Coming, GrantIn, Known, FreshTab, Leaving, In, Freeing
  <2>5. GrantOnce(replies'[c], s) /\ FreeFirst(replies'[c], s) /\ Once(sent'[c], Release(s))
    BY <2>3 DEF GrantOnce, FreeFirst, Once
  <2>6. KnownOnce(c, s)'
    BY <2>4 DEF Known, KnownOnce
  <2>. QED BY <2>1, <2>4, <2>5, <2>6 DEF InPlace, HeldPad, OnePlace, FreedBefore
<1>. QED BY <1>1, <1>2

-----------------------------------------------------------------------------
\* A step after which a gamepad has the same claims, or fewer, keeps them one.
LEMMA SameClaims ==
    ASSUME NEW c, NEW b, OneClaim(c, b),
           Asked(c, b)' => Asked(c, b), Worked(c, b)' => Worked(c, b),
           Answered(c, b)' => Answered(c, b), Has(c, b)' => Has(c, b),
           AnswerOnce(replies[c], b)', Once(sent[c], Claim(b))'
    PROVE  OneClaim(c, b)'
BY DEF OneClaim

\* A message on the way to a tab, and a tab's request, for one gamepad.
LEMMA ElsewhereClaims ==
    ASSUME InputInv, NEW p \in peers, NEW c, c = conn[p], NEW b \in Gamepads, OneClaim(c, b),
           Elsewhere(c)
    PROVE  OneClaim(c, b)'
<1>1. replies[c] \in Seq(Messages)
  BY PeerTypes
<1>2. /\ Asked(c, b)' <=> Asked(c, b)
      /\ Once(sent[c], Claim(b))' <=> Once(sent[c], Claim(b))
      /\ Worked(c, b)' <=> Worked(c, b)
      /\ Has(c, b)' <=> Has(c, b)
  BY DEF Elsewhere, Asked, Worked, Has
<1>3. /\ AnswerIn(replies'[c], b) <=> AnswerIn(replies[c], b)
      /\ AnswerOnce(replies[c], b) => AnswerOnce(replies'[c], b)
  <2>1. ASSUME NEW m \in Messages, m.kind \in {"role", "permission"}, replies'[c] = Append(replies[c], m)
        PROVE  /\ AnswerIn(replies'[c], b) <=> AnswerIn(replies[c], b)
               /\ AnswerOnce(replies[c], b) => AnswerOnce(replies'[c], b)
    <3>1. ~Answers(m, b)
      BY <2>1 DEF Answers
    <3>. QED BY <1>1, <2>1, <3>1, AddedReply
  <2>. QED BY <2>1 DEF Elsewhere
<1>4. AnswerOnce(replies[c], b) /\ Once(sent[c], Claim(b))
  BY DEF OneClaim
<1>. QED BY <1>2, <1>3, <1>4, SameClaims DEF Answered

\* The claim goes from the tab to the wire, the read loop, its answer, the wire
\* and the tab; the table of the tab's gamepads loses what is unplugged or
\* released.
LEMMA MoveClaims ==
    ASSUME InputInv, NEW p \in peers, NEW c, c = conn[p], NEW b \in Gamepads, OneClaim(c, b),
           PadMove(c), c \notin doubled'
    PROVE  OneClaim(c, b)'
<1> USE DEF wireVars, serverVars, vars
<1>0. /\ owes[c] \in Work /\ owes \in [Conns -> Work] /\ c \in Conns
      /\ sent[c] \in Seq(PadRequests) /\ sent \in [Conns -> Seq(PadRequests)]
      /\ replies[c] \in Seq(Messages) /\ replies \in [Conns -> Seq(Messages)]
  BY PeerTypes
<1>1. AnswerOnce(replies[c], b) /\ Once(sent[c], Claim(b))
  BY DEF OneClaim
<1>2. ASSUME SendAnswer(c), owes[c].kind \in {"claimed", "released"} PROVE OneClaim(c, b)'
  <2>1. /\ owes[c] \in Messages /\ owes'[c].kind = "idle"
        /\ replies'[c] = Append(replies[c], owes[c])
        /\ UNCHANGED <<sent, tab>>
    BY <1>0, <1>2, PeerOfPeer, WorkKinds DEF SendAnswer, Works
  <2>2. /\ AnswerIn(replies'[c], b) <=> AnswerIn(replies[c], b) \/ Answers(owes[c], b)
        /\ AnswerOnce(replies[c], b) /\ ~(AnswerIn(replies[c], b) /\ Answers(owes[c], b))
             => AnswerOnce(replies'[c], b)
    BY <1>0, <2>1, AddedReply
  <2>3. Answers(owes[c], b) => Worked(c, b)
    BY DEF Answers, Worked
  <2>4. /\ ~Worked(c, b)'
        /\ Asked(c, b)' <=> Asked(c, b)
        /\ Has(c, b)' <=> Has(c, b)
        /\ Once(sent[c], Claim(b))' <=> Once(sent[c], Claim(b))
    BY <2>1 DEF Worked, Asked, Has
  <2>. QED BY <2>2, <2>3, <2>4 DEF OneClaim, Answered
<1>3. ASSUME ReadClaim(c) \/ ReadRelease(c) PROVE OneClaim(c, b)'
  <2> DEFINE h == Head(sent[c])
  <2>1. /\ sent[c] # <<>> /\ sent'[c] = Tail(sent[c]) /\ UNCHANGED <<replies, tab>>
        /\ owes[c].kind = "idle"
        /\ owes'[c] = h \/ owes'[c].kind = "released"
        /\ h.kind = "claim" => owes'[c] = h
    <3>1. sent[c] # <<>> /\ Head(sent[c]) \in PadRequests
      BY <1>0, <1>3, Taken DEF ReadClaim, ReadRelease
    <3>2. h.kind = "release" => h.pad \in PadSlots
      BY <3>1, RequestShape
    <3>. QED BY <1>0, <1>3, <3>1, <3>2, WorkKinds DEF ReadClaim, ReadRelease, Works
  <2>2. h \in PadRequests
    BY <1>0, <2>1, Taken
  <2>3. /\ In(sent[c], Claim(b)) <=> In(sent'[c], Claim(b)) \/ h = Claim(b)
        /\ Once(sent[c], Claim(b)) => /\ Once(sent'[c], Claim(b))
                                      /\ ~(In(sent'[c], Claim(b)) /\ h = Claim(b))
    BY <1>0, <2>1, TakenRequest
  <2>4. Worked(c, b)' <=> h = Claim(b)
    BY <2>1, <2>2, RequestShape, WorkKinds DEF Worked
  <2>5. /\ ~Worked(c, b)
        /\ Answered(c, b)' <=> Answered(c, b)
        /\ AnswerOnce(replies[c], b)' <=> AnswerOnce(replies[c], b)
        /\ Has(c, b)' <=> Has(c, b)
    BY <2>1 DEF Worked, Answered, Has
  <2> HIDE DEF h
  <2>. QED BY <2>3, <2>4, <2>5 DEF OneClaim, Asked
<1>4. ASSUME ClaimAndAnswer(c) \/ EnsureGamepad(c) \/ ReleaseAndAnswer(c) PROVE OneClaim(c, b)'
  <2>1. UNCHANGED <<sent, replies, tab>>
    BY <1>4 DEF ClaimAndAnswer, EnsureGamepad, ReleaseAndAnswer
  <2>2. Worked(c, b)' => Worked(c, b)
    <3>1. CASE ClaimAndAnswer(c)
      <4>1. owes[c].kind = "claim" /\ owes[c].gamepad \in Gamepads
        BY <1>0, <3>1, OwnClaim, WorkShape
      <4>2. \/ owes'[c].kind = "idle"
            \/ owes'[c].gamepad = owes[c].gamepad
        BY <3>1, <4>1, OwnClaim, WorkKinds
      <4>. QED BY <4>1, <4>2 DEF Worked
    <3>2. CASE EnsureGamepad(c)
      <4>1. owes[c].gamepad \in Gamepads /\ owes[c].pad \in PadSlots /\ owes[c].kind = "ensure"
        BY <1>0, <3>2, WorkShape DEF EnsureGamepad
      <4>2. owes'[c].gamepad = owes[c].gamepad
        BY <1>0, <3>2, <4>1, WorkKinds DEF EnsureGamepad, Works
      <4>. QED BY <4>1, <4>2 DEF Worked
    <3>3. CASE ReleaseAndAnswer(c)
      BY <3>3 DEF ReleaseAndAnswer, Worked
    <3>. QED BY <1>4, <3>1, <3>2, <3>3
  <2>3. /\ Asked(c, b)' <=> Asked(c, b)
        /\ Answered(c, b)' <=> Answered(c, b)
        /\ Has(c, b)' <=> Has(c, b)
        /\ AnswerOnce(replies[c], b)' <=> AnswerOnce(replies[c], b)
        /\ Once(sent[c], Claim(b))' <=> Once(sent[c], Claim(b))
    BY <2>1 DEF Asked, Answered, Has
  <2>. QED BY <1>1, <2>2, <2>3, SameClaims
<1>5. ASSUME Learn(c) PROVE OneClaim(c, b)'
  <2> DEFINE m == Head(replies[c])
  <2>1. /\ replies[c] # <<>> /\ replies'[c] = Tail(replies[c]) /\ m \in Messages
        /\ UNCHANGED <<owes, sent>>
    BY <1>5, LearnPads
  <2>2. /\ AnswerIn(replies[c], b) <=> AnswerIn(replies'[c], b) \/ Answers(m, b)
        /\ AnswerOnce(replies[c], b) => /\ AnswerOnce(replies'[c], b)
                                        /\ ~(AnswerIn(replies'[c], b) /\ Answers(m, b))
    BY <1>0, <2>1, TakenReply
  <2>3. Has(c, b)' => Has(c, b) \/ Answers(m, b)
    <3>1. tab[c].gamepads \in [Gamepads -> PadSlots \cup {none}]
      BY PeerTypes
    <3>2. CASE tab'[c].gamepads = tab[c].gamepads
      BY <3>2 DEF Has
    <3>3. CASE m.kind = "claimed" /\ tab'[c].gamepads = [tab[c].gamepads EXCEPT ![m.gamepad] = m.pad]
      BY <3>1, <3>3 DEF Has, Answers
    <3>4. CASE \A a \in Gamepads : tab'[c].gamepads[a] = IF tab[c].gamepads[a] = m.pad THEN none
                                                          ELSE tab[c].gamepads[a]
      BY <3>4 DEF Has
    <3>. QED BY <1>5, <3>2, <3>3, <3>4, LearnPads
  <2>4. /\ Worked(c, b)' <=> Worked(c, b)
        /\ Asked(c, b)' <=> Asked(c, b)
        /\ Once(sent[c], Claim(b))' <=> Once(sent[c], Claim(b))
    BY <2>1 DEF Worked, Asked
  <2> HIDE DEF m
  <2>. QED BY <2>2, <2>3, <2>4 DEF OneClaim, Answered
<1>6. ASSUME NEW a \in Gamepads, PollClaims(c, a) PROVE OneClaim(c, b)'
  <2>1. /\ sent'[c] = Append(sent[c], Claim(a)) /\ UNCHANGED <<owes, replies, tab>>
        /\ tab[c].gamepads[a] = none /\ ~Outstanding(c, a)
    BY <1>0, <1>6 DEF PollClaims
  <2>2. Claim(a) \in PadRequests /\ (Claim(a) = Claim(b) <=> a = b)
    BY WorkKinds
  <2>3. /\ In(sent'[c], Claim(b)) <=> In(sent[c], Claim(b)) \/ a = b
        /\ Once(sent[c], Claim(b)) /\ ~(In(sent[c], Claim(b)) /\ a = b) => Once(sent'[c], Claim(b))
    BY <1>0, <2>1, <2>2, AddedRequest
  <2>4. a = b => ~Asked(c, b) /\ ~Worked(c, b) /\ ~Answered(c, b) /\ ~Has(c, b)
    BY <2>1 DEF Outstanding, Asked, In, Worked, Answered, AnswerIn, Answers, Has
  <2>5. /\ Worked(c, b)' <=> Worked(c, b)
        /\ Answered(c, b)' <=> Answered(c, b)
        /\ AnswerOnce(replies[c], b)' <=> AnswerOnce(replies[c], b)
        /\ Has(c, b)' <=> Has(c, b)
    BY <2>1 DEF Worked, Answered, Has
  <2>. QED BY <2>3, <2>4, <2>5 DEF OneClaim, Asked
<1>7. ASSUME NEW a \in Gamepads, Unplug(c, a) PROVE OneClaim(c, b)'
  <2> DEFINE t == tab[c].gamepads[a]
  <2>1. /\ sent'[c] = Append(sent[c], Release(t)) /\ UNCHANGED <<owes, replies>>
        /\ tab[c].gamepads \in [Gamepads -> PadSlots \cup {none}] /\ t \in PadSlots
        /\ tab'[c].gamepads = [tab[c].gamepads EXCEPT ![a] = none]
    BY <1>7, UnplugPads
  <2>2. Release(t) \in PadRequests /\ Release(t) # Claim(b)
    BY <2>1, WorkKinds
  <2>3. /\ In(sent'[c], Claim(b)) <=> In(sent[c], Claim(b))
        /\ Once(sent[c], Claim(b)) => Once(sent'[c], Claim(b))
    BY <1>0, <2>1, <2>2, AddedRequest
  <2>4. Has(c, b)' => Has(c, b)
    BY <2>1 DEF Has
  <2>5. /\ Worked(c, b)' <=> Worked(c, b)
        /\ Answered(c, b)' <=> Answered(c, b)
        /\ AnswerOnce(replies[c], b)' <=> AnswerOnce(replies[c], b)
    BY <2>1 DEF Worked, Answered
  <2>. QED BY <1>1, <2>3, <2>4, <2>5, SameClaims DEF Asked
<1>. QED BY <1>2, <1>3, <1>4, <1>5, <1>6, <1>7 DEF PadMove

\* A tab that claims again before an answer is remembered.
LEMMA DoubledStays ==
    ASSUME InputNext
    PROVE  doubled \subseteq doubled'
BY ZenonT(30) DEF InputNext, ReadLoop, JoinAndAnswer, ReadJoinAsPlayer, JoinAsPlayerAndAnswer, ReadReconnect,
       BuildAnswer, ReadPermission, SendAnswer, ReadSetGuest, SetGuestAndTell, Depart, Close,
       ReadClaim, ClaimAndAnswer, EnsureGamepad, ReadRelease, ReleaseAndAnswer, Tab, PollClaims, Unplug, Learn,
       LosePeerConnection, TellSuccessor, DataChannel, TestPermission, TestOwner, Pass, Finish,
       wireVars, serverVars

LEMMA ClaimsNext ==
    ASSUME InputInv, ClaimsInPlace, InputNext
    PROVE  ClaimsInPlace'
<1> SUFFICES ASSUME NEW p \in peers', NEW c \in Conns, NEW b \in Gamepads, conn'[p] = c,
                    c \notin doubled'
             PROVE  OneClaim(c, b)'
  BY DEF ClaimsInPlace
<1>1. CASE p \in peers
  <2>1. c = conn[p] /\ (Elsewhere(c) \/ PadMove(c))
    BY <1>1, PadStep
  <2>2. OneClaim(c, b)
    BY <1>1, <2>1, DoubledStays DEF ClaimsInPlace
  <2>. QED BY <1>1, <2>1, <2>2, ElsewhereClaims, MoveClaims
<1>2. CASE p \notin peers
  <2>1. /\ sent'[c] = <<>> /\ replies'[c] = <<>> /\ tab'[c] = FreshTab /\ owes'[c].kind = "welcome"
    BY <1>2, Joining, WorkKinds
  <2>2. DOMAIN sent'[c] = {} /\ DOMAIN replies'[c] = {}
    BY <2>1
  <2>3. ~Asked(c, b)' /\ ~Worked(c, b)' /\ ~Answered(c, b)' /\ ~Has(c, b)'
    BY <2>1, <2>2 DEF Asked, In, Worked, Answered, AnswerIn, Has, FreshTab
  <2>4. AnswerOnce(replies'[c], b) /\ Once(sent'[c], Claim(b))
    BY <2>2 DEF AnswerOnce, Once
  <2>. QED BY <2>3, <2>4 DEF OneClaim
<1>. QED BY <1>1, <1>2

-----------------------------------------------------------------------------
\* Elsewhere, a pad stays where it is found.
LEMMA ElsewhereFound ==
    ASSUME InputInv, NEW p \in peers, NEW c, c = conn[p], NEW s \in PadSlots, Elsewhere(c),
           Found(c, s)
    PROVE  Found(c, s)'
<1>1. replies[c] \in Seq(Messages)
  BY PeerTypes
<1>2. Known(c, s)' <=> Known(c, s)
  BY DEF Elsewhere, Known
<1>3. Leaving(c, s)' <=> Leaving(c, s)
  BY DEF Elsewhere, Leaving
<1>4. Coming(c, s) => Coming(c, s)'
  BY <1>1, AddedReply DEF Elsewhere, Coming
<1>5. owes[c].kind \in {"ensure", "claimed", "released"} => owes'[c] = owes[c]
  BY DEF Elsewhere
<1>. QED BY <1>2, <1>3, <1>4, <1>5 DEF Found

\* A pad of the peer's is found where it went, unless a second claim's answer
\* took its place in the tab.
LEMMA MoveFound ==
    ASSUME InputInv, NEW p \in peers, NEW c, c = conn[p], NEW s \in PadSlots, InPlace(p, c, s),
           \A b \in Gamepads : OneClaim(c, b), PadMove(c),
           gamepadSlots[s] = p => Found(c, s),
           ~ClaimAndAnswer(c) /\ ~ReleaseAndAnswer(c) => (gamepadSlots'[s] = p <=> gamepadSlots[s] = p),
           gamepadSlots'[s] = p
    PROVE  Found(c, s)'
<1> USE DEF wireVars, serverVars, vars
<1>0. /\ owes[c] \in Work /\ owes \in [Conns -> Work] /\ c \in Conns
      /\ sent[c] \in Seq(PadRequests) /\ sent \in [Conns -> Seq(PadRequests)]
      /\ replies[c] \in Seq(Messages) /\ replies \in [Conns -> Seq(Messages)]
      /\ tab[c].gamepads \in [Gamepads -> PadSlots \cup {none}]
      /\ gamepadSlots \in [PadSlots -> PeerIds \cup {nil}] /\ p # nil
  BY PeerTypes
<1>1. s # none
  BY RoomAssumption DEF none, PadSlots
<1>2. ASSUME SendAnswer(c), owes[c].kind \in {"claimed", "released"}, Found(c, s), gamepadSlots[s] = p
      PROVE  Found(c, s)'
  <2>1. /\ owes[c] \in Messages /\ replies'[c] = Append(replies[c], owes[c])
        /\ UNCHANGED <<sent, tab>> /\ task[c] = Reading
    BY <1>0, <1>2, PeerOfPeer DEF SendAnswer, Works
  <2>2. GrantIn(replies'[c], s) <=> GrantIn(replies[c], s) \/ Grants(owes[c], s)
    BY <1>0, <2>1, AddedReply
  <2>3. ~(owes[c].kind = "released" /\ owes[c].pad = s)
    BY <1>2, <2>1 DEF InPlace, FreedBefore, Reading
  <2>4. (Known(c, s)' <=> Known(c, s)) /\ (Leaving(c, s)' <=> Leaving(c, s))
    BY <2>1 DEF Known, Leaving
  <2>. QED BY <1>2, <2>2, <2>3, <2>4 DEF Found, Coming, Grants
<1>3. ASSUME ReadClaim(c) \/ ReadRelease(c), Found(c, s) PROVE Found(c, s)'
  <2> DEFINE h == Head(sent[c])
  <2>1. /\ sent[c] # <<>> /\ sent'[c] = Tail(sent[c]) /\ UNCHANGED <<replies, tab>>
        /\ owes[c].kind = "idle" /\ h \in PadRequests
    BY <1>0, <1>3, Taken, WorkKinds DEF ReadClaim, ReadRelease, Works
  <2>2. In(sent[c], Release(s)) <=> In(sent'[c], Release(s)) \/ h = Release(s)
    BY <1>0, <2>1, TakenRequest
  <2>3. h = Release(s) => owes'[c] = Released(s)
    BY <1>0, <1>3, WorkKinds DEF ReadClaim, ReadRelease, Works
  <2>4. Released(s).kind = "released" /\ Released(s).pad = s
    BY WorkKinds
  <2>5. (Known(c, s)' <=> Known(c, s)) /\ (Coming(c, s)' <=> Coming(c, s))
    BY <2>1 DEF Known, Coming
  <2> HIDE DEF h
  <2>. QED BY <1>3, <2>1, <2>2, <2>3, <2>4, <2>5 DEF Found, Leaving
<1>4. ASSUME ClaimAndAnswer(c) PROVE Found(c, s)'
  <2>1. owes[c].kind = "claim" /\ UNCHANGED <<sent, replies, tab>> /\ owes[c].gamepad \in Gamepads
    BY <1>0, <1>4, OwnClaim, WorkShape
  <2>2. /\ Known(c, s)' <=> Known(c, s)
        /\ Coming(c, s)' <=> Coming(c, s)
        /\ Leaving(c, s)' <=> Leaving(c, s)
    BY <2>1 DEF Known, Coming, Leaving
  <2>3. CASE gamepadSlots[s] = p
    BY <2>1, <2>2, <2>3 DEF Found
  <2>4. CASE gamepadSlots[s] # p
    <3>1. PICK t \in PadSlots : /\ owes'[c] = Ensure(owes[c].gamepad, t)
                                /\ gamepadSlots' = [gamepadSlots EXCEPT ![t] = p]
      BY <1>4, <2>4, OwnClaim
    <3>2. t = s
      BY <1>0, <2>4, <3>1
    <3>3. owes'[c].kind = "ensure" /\ owes'[c].pad = s
      BY <2>1, <3>1, <3>2, WorkKinds
    <3>. QED BY <3>3 DEF Found
  <2>. QED BY <2>3, <2>4
<1>5. ASSUME EnsureGamepad(c), Found(c, s) PROVE Found(c, s)'
  <2>1. owes[c].gamepad \in Gamepads /\ owes[c].pad \in PadSlots /\ owes[c].kind = "ensure"
    BY <1>0, <1>5, WorkShape DEF EnsureGamepad
  <2>2. owes'[c].kind = "claimed" /\ owes'[c].pad = owes[c].pad /\ UNCHANGED <<sent, replies, tab>>
    BY <1>0, <1>5, <2>1, WorkKinds DEF EnsureGamepad, Works
  <2>3. /\ Known(c, s)' <=> Known(c, s)
        /\ Coming(c, s)' <=> Coming(c, s)
        /\ Leaving(c, s)' <=> Leaving(c, s)
    BY <2>2 DEF Known, Coming, Leaving
  <2>. QED BY <1>5, <2>2, <2>3 DEF Found
<1>6. ASSUME ReleaseAndAnswer(c) PROVE Found(c, s)'
  <2>1. UNCHANGED <<owes, sent, replies, tab>> /\ owes[c].pad \in PadSlots
    BY <1>6, OwnRelease
  <2>2. \/ gamepadSlots' = gamepadSlots
        \/ gamepadSlots' = [gamepadSlots EXCEPT ![owes[c].pad] = nil]
    BY <1>6, OwnRelease
  <2>3. gamepadSlots[s] = p
    BY <1>0, <2>1, <2>2
  <2>. QED BY <2>1, <2>3 DEF Found, Known, Coming, Leaving
<1>7. ASSUME Learn(c), Found(c, s) PROVE Found(c, s)'
  <2> DEFINE m == Head(replies[c])
  <2>1. /\ replies[c] # <<>> /\ replies'[c] = Tail(replies[c]) /\ m \in Messages
        /\ UNCHANGED <<owes, sent>>
    BY <1>7, LearnPads
  <2>2. /\ GrantIn(replies[c], s) <=> GrantIn(replies'[c], s) \/ Grants(m, s)
        /\ FreeIn(replies[c], s) <=> FreeIn(replies'[c], s) \/ Frees(m, s)
        /\ \A b : AnswerIn(replies[c], b) <=> AnswerIn(replies'[c], b) \/ Answers(m, b)
    BY <1>0, <2>1, TakenReply
  <2>3. Grants(m, s) => Known(c, s)'
    <3>1. ASSUME Grants(m, s) PROVE Known(c, s)'
      <4>1. m.kind = "claimed" /\ m.pad = s /\ m.gamepad \in Gamepads
        BY <2>1, <3>1, MessageShape DEF Grants
      <4>2. tab'[c].gamepads[m.gamepad] = s
        BY <1>0, <1>7, <4>1, LearnPads
      <4>. QED BY <4>1, <4>2 DEF Known
    <3>. QED BY <3>1
  <2>4. ASSUME NEW b \in Gamepads, tab[c].gamepads[b] = s PROVE tab'[c].gamepads[b] = s
    <3>1. ~Answers(m, b)
      BY <1>1, <2>2, <2>4 DEF OneClaim, Has, Answered
    <3>2. ~Frees(m, s)
      BY <2>2, <2>4 DEF InPlace, FreedBefore, Known
    <3>3. CASE tab'[c].gamepads = tab[c].gamepads
      BY <2>4, <3>3
    <3>4. CASE m.kind = "claimed" /\ tab'[c].gamepads = [tab[c].gamepads EXCEPT ![m.gamepad] = m.pad]
      BY <1>0, <2>4, <3>1, <3>4 DEF Answers
    <3>5. CASE /\ m.kind = "released"
               /\ \A a \in Gamepads : tab'[c].gamepads[a] = IF tab[c].gamepads[a] = m.pad THEN none
                                                            ELSE tab[c].gamepads[a]
      BY <2>4, <3>2, <3>5 DEF Frees
    <3>. QED BY <1>7, <3>3, <3>4, <3>5, LearnPads
  <2>5. Known(c, s) => Known(c, s)'
    BY <2>4 DEF Known
  <2>6. Leaving(c, s)' <=> Leaving(c, s)
    BY <2>1 DEF Leaving
  <2> HIDE DEF m
  <2>. QED BY <1>7, <2>1, <2>2, <2>3, <2>5, <2>6 DEF Found, Coming
<1>8. ASSUME NEW a \in Gamepads, PollClaims(c, a), Found(c, s) PROVE Found(c, s)'
  <2>1. /\ sent'[c] = Append(sent[c], Claim(a)) /\ UNCHANGED <<owes, replies, tab>>
        /\ Claim(a) \in PadRequests
    BY <1>0, <1>8, WorkKinds DEF PollClaims
  <2>2. In(sent[c], Release(s)) => In(sent'[c], Release(s))
    BY <1>0, <2>1, AddedRequest
  <2>3. (Known(c, s)' <=> Known(c, s)) /\ (Coming(c, s)' <=> Coming(c, s))
    BY <2>1 DEF Known, Coming
  <2>. QED BY <1>8, <2>1, <2>2, <2>3 DEF Found, Leaving
<1>9. ASSUME NEW a \in Gamepads, Unplug(c, a), Found(c, s) PROVE Found(c, s)'
  <2> DEFINE t == tab[c].gamepads[a]
  <2>1. /\ sent'[c] = Append(sent[c], Release(t)) /\ UNCHANGED <<owes, replies>>
        /\ t \in PadSlots
        /\ tab'[c].gamepads = [tab[c].gamepads EXCEPT ![a] = none]
    BY <1>9, UnplugPads
  <2>2. In(sent'[c], Release(s)) <=> In(sent[c], Release(s)) \/ Release(t) = Release(s)
    <3>1. Release(t) \in PadRequests
      BY <2>1, WorkKinds
    <3>. QED BY <1>0, <2>1, <3>1, AddedRequest
  <2>3. Known(c, s) => Known(c, s)' \/ t = s
    BY <1>0, <2>1 DEF Known
  <2>4. Coming(c, s)' <=> Coming(c, s)
    BY <2>1 DEF Coming
  <2> HIDE DEF t
  <2>. QED BY <1>9, <2>1, <2>2, <2>3, <2>4 DEF Found, Leaving
<1>10. ~ClaimAndAnswer(c) /\ ~ReleaseAndAnswer(c) => Found(c, s) /\ gamepadSlots[s] = p
  OBVIOUS
<1>. QED BY <1>2, <1>3, <1>4, <1>5, <1>6, <1>7, <1>8, <1>9, <1>10 DEF PadMove

LEMMA FoundNext ==
    ASSUME InputInv, PadInv, InputNext
    PROVE  NoneStranded'
<1> SUFFICES ASSUME NEW p \in peers', NEW c \in Conns, NEW s \in PadSlots, conn'[p] = c,
                    c \notin doubled', gamepadSlots'[s] = p
             PROVE  Found(c, s)'
  BY DEF NoneStranded
<1>1. CASE p \in peers
  <2>1. c = conn[p] /\ (Elsewhere(c) \/ PadMove(c))
    BY <1>1, PadStep
  <2>2. /\ InPlace(p, c, s) /\ \A b \in Gamepads : OneClaim(c, b)
        /\ gamepadSlots[s] = p => Found(c, s)
    BY <1>1, <2>1, DoubledStays DEF PadInv, PadsInPlace, ClaimsInPlace, NoneStranded
  <2>3. ~ClaimAndAnswer(c) /\ ~ReleaseAndAnswer(c) => (gamepadSlots'[s] = p <=> gamepadSlots[s] = p)
    BY <1>1, <2>1, PadOwner
  <2>4. CASE PadMove(c)
    BY <1>1, <2>1, <2>2, <2>3, <2>4, MoveFound
  <2>5. CASE ~PadMove(c)
    <3>1. ~ClaimAndAnswer(c) /\ ~ReleaseAndAnswer(c)
      BY <2>5 DEF PadMove
    <3>. QED BY <1>1, <2>1, <2>2, <2>3, <2>5, <3>1, ElsewhereFound
  <2>. QED BY <2>4, <2>5
<1>2. CASE p \notin peers
  BY <1>2, Joining
<1>. QED BY <1>1, <1>2

-----------------------------------------------------------------------------
LEMMA PadInit == InputInit => PadInv
BY DEF InputInit, Init, PadInv, PadsInPlace, ClaimsInPlace, NoneStranded

LEMMA PadNext == InputInv /\ PadInv /\ [InputNext]_allVars => PadInv'
<1> SUFFICES ASSUME InputInv, PadInv, [InputNext]_allVars PROVE PadInv'
  OBVIOUS
<1>1. CASE InputNext
  BY <1>1, PlacesNext, ClaimsNext, FoundNext DEF PadInv
<1>2. CASE UNCHANGED allVars
  <2>1. /\ UNCHANGED <<peers, conn, task, gamepadSlots, owes, gamepads, sent, replies, tab, doubled>>
    BY <1>2 DEF allVars, vars, roomVars, peerVars, serverVars, wireVars
  <2>2. PadsInPlace'
    BY <2>1 DEF PadInv, PadsInPlace, InPlace, HeldPad, OnePlace, FreedBefore, Owed, Coming, Known,
                KnownOnce, Leaving, Freeing
  <2>3. ClaimsInPlace'
    BY <2>1 DEF PadInv, ClaimsInPlace, OneClaim, Asked, Worked, Answered, Has
  <2>4. NoneStranded'
    BY <2>1 DEF PadInv, NoneStranded, Found, Coming, Known, Leaving
  <2>. QED BY <2>2, <2>3, <2>4 DEF PadInv
<1>. QED BY <1>1, <1>2

\* Of a peer in the room, each pad is in one of its five places at a time, and
\* each claim that no poll doubled in one of its own.
THEOREM PadInvariance == InputSpec => []PadInv
BY InputInvariance, PadInit, PadNext, PTL DEF InputSpec

\* What a tab takes for the pad of one of its gamepads belongs to its peer in
\* the room's table and has a device, unless making it failed.
THEOREM TabsOwn == InputSpec => []TabsOwnTheirPads
<1>1. InputInv /\ PadInv => TabsOwnTheirPads
  <2> SUFFICES ASSUME InputInv, PadInv, NEW p \in peers, NEW b \in Gamepads,
                      NEW s, s = tab[conn[p]].gamepads[b], s # none
               PROVE  gamepadSlots[s] = p /\ (InputAvailable => s \in gamepads \cup Unmakeable)
    BY DEF TabsOwnTheirPads
  <2>1. conn[p] \in Conns /\ s \in PadSlots
    BY PeerTypes
  <2>2. Known(conn[p], s) /\ HeldPad(p, conn[p], s)
    BY <2>1 DEF Known, PadInv, PadsInPlace, InPlace
  <2>. QED BY <2>2 DEF HeldPad
<1>. QED BY <1>1, InputInvariance, PadInvariance, PTL

\* A pad of a peer in the room is stranded only where a poll claimed again for
\* a gamepad before the first answer was there.
THEOREM StrandedByDoubles == InputSpec => []OnlyDoubleClaimsStrand
<1>1. InputInv /\ PadInv => OnlyDoubleClaimsStrand
  <2> SUFFICES ASSUME InputInv, PadInv, NEW p \in peers, NEW s \in PadSlots, NEW c, c = conn[p],
                      gamepadSlots[s] = p, c \notin doubled
               PROVE  \/ \E b \in Gamepads : tab[c].gamepads[b] = s
                      \/ \E i \in DOMAIN replies[c] :
                           replies[c][i].kind = "claimed" /\ replies[c][i].pad = s
                      \/ owes[c].kind \in {"ensure", "claimed", "released"} /\ owes[c].pad = s
                      \/ \E i \in DOMAIN sent[c] : sent[c][i] = Release(s)
    BY DEF OnlyDoubleClaimsStrand
  <2>1. Found(c, s)
    BY PeerTypes DEF PadInv, NoneStranded
  <2>. QED BY <2>1 DEF Found, Known, Coming, GrantIn, Grants, Leaving, In
<1>. QED BY <1>1, InputInvariance, PadInvariance, PTL

-----------------------------------------------------------------------------
\* The messages that tell a tab of its slot, of slot n, of a device and that
\* the device is its peer's to use.
RoleMessages == {m \in Messages : m.kind = "role"}
Placing(n) == {m \in RoleMessages : m.slot = n}
Telling(d) == {m \in Messages : m.kind = "role" \/ (m.kind = "permission" /\ m.device = d)}
Allowing(d) ==
    {m \in Telling(d) : \/ m.kind = "role" /\ d \in m.enabled
                        \/ m.kind = "permission" /\ m.on}

\* A tab that takes x for one of X, or not, and handles the queue q ends up as
\* if x were one of Z: the last message of T decides, which tells of x, and
\* that it is, if the message is one of Y.
Ends(q, T, Y, x, X, Z) ==
    /\ \A i \in DOMAIN q :
         q[i] \in T /\ (\A j \in DOMAIN q : q[j] \in T => j <= i) => (q[i] \in Y <=> x \in Z)
    /\ (\A i \in DOMAIN q : q[i] \notin T) => (x \in X <=> x \in Z)

WillPlay(c, n) == Ends(replies[c], RoleMessages, Placing(n), n, {tab[c].slot}, {n})
WillUse(c, d, allowed) ==
    Ends(replies[c], Telling(d), Allowing(d), d, tab[c].enabled, allowed)

\* The news that a peer's tab is bound to get, from its read loop or as host.
Awaits(p, c) ==
    \/ owes[c].kind \in {"welcome", "reconnected", "partly", "role"}
    \/ owes[c].kind = "promoted" /\ slot[p] # 0
    \/ announce # {} /\ isHost[p]

\* Unless a change crossed it, the news is true, and what a tab with none to
\* come will believe is true.
Informed(p, c) ==
    /\ owes[c].kind = "role" => owes[c].slot = slot[p] /\ owes[c].enabled = enabled[p]
    /\ owes[c].kind = "partly" => /\ owes[c].slot = slot[p]
                                  /\ owes[c].enabled = enabled[p] \ owes[c].unread
    /\ owes[c].kind = "welcome" => owes[c].slot = slot[p]
    /\ announce # {} /\ isHost[p] => slot[p] = 1 /\ enabled[p] = Devices
    /\ \/ Awaits(p, c)
       \/ WillPlay(c, slot[p]) /\ \A d \in Devices : WillUse(c, d, enabled[p])

NewsInv == \A p \in peers, c \in Conns : conn[p] = c /\ p \notin crossed => Informed(p, c)

-----------------------------------------------------------------------------
\* A message added to a queue decides, if it tells of the fact.
LEMMA EndsAdded ==
    ASSUME NEW q \in Seq(Messages), NEW m \in Messages, NEW T, NEW Y,
           NEW x, NEW X, NEW Z
    PROVE  /\ m \in T /\ (m \in Y <=> x \in Z) => Ends(Append(q, m), T, Y, x, X, Z)
           /\ m \notin T /\ Ends(q, T, Y, x, X, Z) => Ends(Append(q, m), T, Y, x, X, Z)
<1> DEFINE r == Append(q, m)
           n == Len(q)
<1>1. /\ n \in Nat /\ DOMAIN q = 1 .. n /\ DOMAIN r = 1 .. n + 1
      /\ r[n + 1] = m
      /\ \A i \in 1 .. n : r[i] = q[i]
  BY Added
<1>2. \A i \in 1 .. n + 1 : i \in 1 .. n \/ i = n + 1
  BY <1>1
<1>3. n + 1 \in 1 .. n + 1 /\ 1 .. n \subseteq 1 .. n + 1 /\ \A i \in 1 .. n : ~(n + 1 <= i)
  BY <1>1
<1> HIDE DEF r, n
<1>4. ASSUME m \in T, m \in Y <=> x \in Z PROVE Ends(r, T, Y, x, X, Z)
  <2>1. ASSUME NEW i \in DOMAIN r, \A j \in DOMAIN r : r[j] \in T => j <= i
        PROVE  r[i] \in Y <=> x \in Z
    BY <1>1, <1>2, <1>3, <1>4, <2>1
  <2>2. ~\A i \in DOMAIN r : r[i] \notin T
    BY <1>1, <1>3, <1>4
  <2>. QED BY <2>1, <2>2 DEF Ends
<1>5. ASSUME m \notin T, Ends(q, T, Y, x, X, Z) PROVE Ends(r, T, Y, x, X, Z)
  <2>1. ASSUME NEW i \in DOMAIN r, r[i] \in T, \A j \in DOMAIN r : r[j] \in T => j <= i
        PROVE  r[i] \in Y <=> x \in Z
    <3>1. i \in DOMAIN q /\ q[i] = r[i]
      BY <1>1, <1>2, <1>5, <2>1
    <3>2. \A j \in DOMAIN q : q[j] \in T => j <= i
      BY <1>1, <1>3, <2>1
    <3>. QED BY <1>5, <2>1, <3>1, <3>2 DEF Ends
  <2>2. ASSUME \A i \in DOMAIN r : r[i] \notin T PROVE x \in X <=> x \in Z
    <3>1. \A i \in DOMAIN q : q[i] \notin T
      BY <1>1, <1>3, <2>2
    <3>. QED BY <1>5, <3>1 DEF Ends
  <2>. QED BY <2>1, <2>2 DEF Ends
<1>. QED BY <1>4, <1>5 DEF r

\* A message taken from a queue leaves the tab with what it says, if it tells
\* of the fact.
LEMMA EndsTaken ==
    ASSUME NEW q \in Seq(Messages), q # <<>>, NEW T, NEW Y,
           NEW x, NEW X, NEW Now, NEW Z,
           Ends(q, T, Y, x, X, Z),
           x \in Now <=> IF Head(q) \in T THEN Head(q) \in Y ELSE x \in X
    PROVE  Ends(Tail(q), T, Y, x, Now, Z)
<1> DEFINE r == Tail(q)
           n == Len(q)
<1>1. /\ 1 \in DOMAIN q /\ DOMAIN q = 1 .. n /\ DOMAIN r = 1 .. n - 1
      /\ n \in Nat \ {0} /\ Head(q) = q[1]
      /\ \A i \in 1 .. n - 1 : r[i] = q[i + 1]
  BY Taken
<1>2. \A i \in 1 .. n : i = 1 \/ (i - 1 \in 1 .. n - 1 /\ q[i] = r[i - 1])
  BY <1>1
<1>3. \A i \in 1 .. n - 1 : i + 1 \in 1 .. n /\ 1 <= i + 1
  BY <1>1
<1> HIDE DEF r, n
<1>4. ASSUME NEW i \in DOMAIN r, r[i] \in T, \A j \in DOMAIN r : r[j] \in T => j <= i
      PROVE  r[i] \in Y <=> x \in Z
  <2>1. i \in 1 .. n - 1 /\ i + 1 \in DOMAIN q /\ q[i + 1] = r[i]
    BY <1>1, <1>3, <1>4
  <2>2. ASSUME NEW j \in DOMAIN q, q[j] \in T PROVE j <= i + 1
    <3>1. CASE j = 1
      BY <1>3, <2>1, <3>1
    <3>2. CASE j - 1 \in 1 .. n - 1 /\ q[j] = r[j - 1]
      <4>1. j - 1 <= i
        BY <1>1, <1>4, <2>2, <3>2
      <4>. QED BY <1>1, <2>1, <4>1
    <3>. QED BY <1>1, <1>2, <3>1, <3>2
  <2>. QED BY <1>4, <2>1, <2>2 DEF Ends
<1>5. ASSUME \A i \in DOMAIN r : r[i] \notin T PROVE x \in Now <=> x \in Z
  <2>1. \A i \in DOMAIN q : q[i] \in T => i = 1
    BY <1>1, <1>2, <1>5
  <2>2. CASE Head(q) \in T
    <3>1. \A j \in DOMAIN q : q[j] \in T => j <= 1
      BY <2>1
    <3>2. q[1] \in Y <=> x \in Z
      BY <1>1, <2>2, <3>1 DEF Ends
    <3>. QED BY <1>1, <2>2, <3>2
  <2>3. CASE Head(q) \notin T
    BY <1>1, <2>1, <2>3 DEF Ends
  <2>. QED BY <2>2, <2>3
<1>. QED BY <1>4, <1>5 DEF Ends, r

-----------------------------------------------------------------------------
\* A step that neither changes peer p's role nor brings news of it nearer to
\* its tab.
NoNews(p, c) ==
    /\ slot'[p] = slot[p] /\ enabled'[p] = enabled[p]
    /\ tab'[c].slot = tab[c].slot /\ tab'[c].enabled = tab[c].enabled
    /\ (announce # {} /\ isHost[p])' <=> (announce # {} /\ isHost[p])
    /\ \/ owes'[c] = owes[c]
       \/ {owes[c].kind, owes'[c].kind}
            \cap {"welcome", "reconnected", "partly", "role", "promoted"} = {}
    /\ \/ replies'[c] = replies[c]
       \/ \E m \in Messages : m.kind \in {"claimed", "released"} /\ replies'[c] = Append(replies[c], m)

\* The step that makes p the host.
Promoted(p, c) ==
    /\ slot'[p] = 1 /\ enabled'[p] = Devices /\ isHost'[p] /\ announce' # {}
    /\ owes'[c] = owes[c]

\* The steps that matter.
NewsMove(p, c) ==
    \/ Promoted(p, c)
    \/ JoinAsPlayerAndAnswer(c) \/ ReadReconnect(c) \/ Answering(c)
    \/ SendAnswer(c) /\ owes[c].kind = "role"
    \/ \E b \in Conns, d \in Devices, on \in BOOLEAN, target \in PeerIds \cup {nil} :
         SetGuestAndTell(b, d, on, target) /\ p \in Addressed(target)
    \/ \E l \in PeerIds : TellSuccessor(l) /\ isHost[p]
    \/ Learn(c)

\* Removing another peer promotes p, or has nothing to do with it.
LEMMA RemovalNews ==
    ASSUME InputInv, NEW p \in peers, p \in peers', NEW c, c = conn[p],
           NEW l \in peers, RemovePeer(l), Close(peers \ peers')
    PROVE  NoNews(p, c) \/ Promoted(p, c)
<1>0. /\ p \in PeerIds /\ c \in Conns /\ p # l /\ l \in PeerIds
      /\ slot \in [PeerIds -> PlayerSlots] /\ isHost \in [PeerIds -> BOOLEAN]
      /\ enabled \in [PeerIds -> SUBSET Devices]
      /\ \A q \in peers : isHost[q] <=> q = host
      /\ \A q \in PeerIds : conn[q] \in Conns /\ conn[p] = conn[q] => p = q
  BY PeerTypes DEF RemovePeer, InputInv, IInv, TypeOK, HostInv, OnePeer
<1>1. peers \ peers' = {l}
  BY <1>0 DEF RemovePeer
<1>2. /\ owes' = owes /\ tab'[c] = tab[c] /\ replies'[c] = replies[c]
      /\ announce' = announce \cup {q \in {l} : isHost[q] /\ peers' # {}}
  BY <1>0, <1>1 DEF Close
<1>3. CASE ~isHost[l]
  <2>1. UNCHANGED <<isHost, slot, enabled>>
    BY <1>3 DEF RemovePeer
  <2>2. announce' = announce
    BY <1>2, <1>3
  <2>. QED BY <1>2, <2>1, <2>2 DEF NoNews
<1>4. CASE isHost[l]
  <2>1. ~isHost[p]
    BY <1>0, <1>4
  <2>2. l \in announce'
    BY <1>2, <1>4
  <2>3. PICK q \in Successors(l) : /\ isHost' = [isHost EXCEPT ![q] = TRUE]
                                   /\ slot' = [slot EXCEPT ![q] = 1]
                                   /\ enabled' = [enabled EXCEPT ![q] = Devices]
    BY <1>0, <1>4 DEF RemovePeer, Successors
  <2>4. CASE q = p
    BY <1>0, <1>2, <2>2, <2>3, <2>4 DEF Promoted
  <2>5. CASE q # p
    <3>1. slot'[p] = slot[p] /\ enabled'[p] = enabled[p] /\ isHost'[p] = isHost[p]
      BY <1>0, <2>3, <2>5
    <3>. QED BY <1>2, <2>1, <3>1 DEF NoNews
  <2>. QED BY <2>4, <2>5
<1>. QED BY <1>3, <1>4

\* Any step is one or the other for a peer that stays.
LEMMA NewsStep ==
    ASSUME InputInv, InputNext, NEW p \in peers, p \in peers', NEW c, c = conn[p]
    PROVE  NoNews(p, c) \/ NewsMove(p, c)
<1> USE DEF wireVars, serverVars, vars, roomVars, peerVars
<1>0. /\ p \in PeerIds /\ c \in Conns /\ Joined(c) /\ InRoom(c) /\ p <= nextPeerID
      /\ nextPeerID \in Nat
      /\ owes \in [Conns -> Work] /\ owes[c] \in Work /\ LoopFits(task[c].op, owes[c])
      /\ replies \in [Conns -> Seq(Messages)]
      /\ slot \in [PeerIds -> PlayerSlots] /\ isHost \in [PeerIds -> BOOLEAN]
      /\ enabled \in [PeerIds -> SUBSET Devices]
      /\ tab \in [Conns -> [slot : PlayerSlots, enabled : SUBSET Devices,
                            gamepads : [Gamepads -> PadSlots \cup {none}]]]
      /\ \A q \in PeerIds : conn[q] = c => q = p
  BY PeerTypes, PeerOfPeer, SMTT(30) DEF InputInv, IInv, TypeOK, OnePeer, FreshIds, PeerIds
<1>1. ASSUME NEW b \in Conns, JoinAndAnswer(b) PROVE NoNews(p, c)
  <2>1. b # c /\ nextPeerID + 1 # p /\ nextPeerID + 1 \in PeerIds
    BY <1>0, <1>1, JoinConn DEF JoinAndAnswer
  <2>2. /\ owes'[c] = owes[c] /\ UNCHANGED <<announce, replies, tab>>
    BY <1>0, <1>1, <2>1 DEF JoinAndAnswer, Works
  <2>3. slot'[p] = slot[p] /\ enabled'[p] = enabled[p] /\ isHost'[p] = isHost[p]
    BY <1>0, <1>1, <2>1 DEF JoinAndAnswer, Join
  <2>. QED BY <2>2, <2>3 DEF NoNews
<1>2. ASSUME NEW b \in Conns, ReadJoinAsPlayer(b) \/ ReadSetGuest(b) PROVE NoNews(p, c)
  BY <1>2 DEF ReadJoinAsPlayer, ReadSetGuest, BeginJoinAsPlayer, BeginSetGuest, Begin, NoNews
<1>3. ASSUME NEW b \in Conns, b # c, JoinAsPlayerAndAnswer(b) PROVE NoNews(p, c)
  <2>1. task[b].peer \in PeerIds /\ task[b].peer # p
    BY <1>3 DEF JoinAsPlayerAndAnswer, JoinAsPlayer, InputInv, IInv, TaskRoles
  <2>2. slot'[p] = slot[p] /\ enabled'[p] = enabled[p] /\ isHost' = isHost
    BY <1>0, <1>3, <2>1 DEF JoinAsPlayerAndAnswer, JoinAsPlayer, TakePlayerSlot
  <2>3. owes'[c] = owes[c] /\ UNCHANGED <<announce, replies, tab>>
    BY <1>0, <1>3 DEF JoinAsPlayerAndAnswer, Works
  <2>. QED BY <2>2, <2>3 DEF NoNews
<1>4. ASSUME NEW b \in Conns, b # c, ReadReconnect(b) \/ Answering(b) PROVE NoNews(p, c)
  BY <1>0, <1>4 DEF ReadReconnect, Answering, BuildAnswer, ReadPermission, Works, NoNews
<1>5. ASSUME NEW b \in Conns, b # c, SendAnswer(b) PROVE NoNews(p, c)
  BY <1>0, <1>5 DEF SendAnswer, Works, NoNews
<1>6. ASSUME SendAnswer(c), owes[c].kind # "role" PROVE NoNews(p, c)
  <2>1. owes[c] \in Messages /\ owes[c].kind \in {"claimed", "released"}
    BY <1>0, <1>6, MessageShape DEF SendAnswer, LoopFits
  <2>2. owes'[c].kind = "idle" /\ replies'[c] = Append(replies[c], owes[c])
    BY <1>0, <1>6, WorkKinds DEF SendAnswer, Works
  <2>3. UNCHANGED <<slot, enabled, isHost, announce, tab>>
    BY <1>6 DEF SendAnswer
  <2>. QED BY <2>1, <2>2, <2>3 DEF NoNews
<1>7. ASSUME NEW b \in Conns, NEW d \in Devices, NEW on \in BOOLEAN,
             NEW target \in PeerIds \cup {nil}, SetGuestAndTell(b, d, on, target),
             p \notin Addressed(target)
      PROVE  NoNews(p, c)
  <2>1. \A q \in Addressed(target) : q \in PeerIds /\ conn[q] # c
    BY <1>0, <1>7 DEF Addressed, InputInv, IInv, TypeOK
  <2>2. replies'[c] = replies[c] /\ UNCHANGED <<owes, announce, tab>>
    BY <1>0, <1>7, <2>1 DEF SetGuestAndTell
  <2>3. slot' = slot /\ enabled'[p] = enabled[p] /\ isHost' = isHost
    BY <1>0, <1>7 DEF SetGuestAndTell, SetGuest
  <2>. QED BY <2>2, <2>3 DEF NoNews
<1>8. ASSUME NEW b \in Conns,
             \/ ReadClaim(b) \/ ClaimAndAnswer(b) \/ EnsureGamepad(b) \/ ReadRelease(b)
             \/ ReleaseAndAnswer(b)
      PROVE  NoNews(p, c)
  <2>1. UNCHANGED <<slot, enabled, isHost, announce, replies, tab>>
    BY <1>8
    DEF ReadClaim, BeginClaimGamepad, ClaimAndAnswer, ClaimGamepad, EnsureGamepad, ReadRelease,
        BeginReleaseGamepad, ReleaseAndAnswer, ReleaseGamepad, Begin
  <2>2. CASE b # c
    <3>1. owes'[c] = owes[c]
      BY <1>0, <1>8, <2>2 DEF ReadClaim, ClaimAndAnswer, EnsureGamepad, ReadRelease,
                              ReleaseAndAnswer, Works
    <3>. QED BY <2>1, <3>1 DEF NoNews
  <2>3. CASE b = c
    <3>1. CASE ReadClaim(c)
      BY <1>0, <2>1, <3>1, WorkKinds DEF ReadClaim, Works, NoNews
    <3>2. CASE ReadRelease(c)
      <4>1. sent[c] \in Seq(PadRequests) /\ Head(sent[c]) \in PadRequests
        BY <1>0, <3>2, PeerTypes, Taken DEF ReadRelease
      <4>2. Head(sent[c]).pad \in PadSlots
        BY <3>2, <4>1, RequestShape DEF ReadRelease
      <4>3. owes'[c].kind = "released" /\ owes[c].kind = "idle"
        BY <1>0, <3>2, <4>2, WorkKinds DEF ReadRelease, Works
      <4>. QED BY <2>1, <4>3 DEF NoNews
    <3>3. CASE ClaimAndAnswer(c)
      <4>1. owes[c].kind = "claim" /\ owes[c].gamepad \in Gamepads
        BY <1>0, <3>3, OwnClaim, WorkShape
      <4>2. owes'[c].kind \in {"idle", "ensure"}
        BY <3>3, <4>1, OwnClaim, WorkKinds
      <4>. QED BY <2>1, <4>1, <4>2 DEF NoNews
    <3>4. CASE EnsureGamepad(c)
      <4>1. owes[c].gamepad \in Gamepads /\ owes[c].pad \in PadSlots /\ owes[c].kind = "ensure"
        BY <1>0, <3>4, WorkShape DEF EnsureGamepad
      <4>2. owes'[c].kind = "claimed"
        BY <1>0, <3>4, <4>1, WorkKinds DEF EnsureGamepad, Works
      <4>. QED BY <2>1, <4>1, <4>2 DEF NoNews
    <3>5. CASE ReleaseAndAnswer(c)
      BY <2>1, <3>5 DEF ReleaseAndAnswer, NoNews
    <3>. QED BY <1>8, <2>3, <3>1, <3>2, <3>3, <3>4, <3>5
  <2>. QED BY <2>2, <2>3
<1>9. ASSUME NEW b \in Conns, Tab(b), ~(b = c /\ Learn(c)) PROVE NoNews(p, c)
  <2>1. UNCHANGED <<slot, enabled, isHost, announce, owes>>
    BY <1>9 DEF Tab, PollClaims, Unplug, Learn
  <2>2. replies'[c] = replies[c]
    <3>1. CASE \E g \in Gamepads : PollClaims(b, g) \/ Unplug(b, g)
      BY <3>1 DEF PollClaims, Unplug
    <3>2. CASE Learn(b) /\ b # c
      BY <1>0, <3>2 DEF Learn
    <3>. QED BY <1>9, <3>1, <3>2 DEF Tab
  <2>3. tab'[c].slot = tab[c].slot /\ tab'[c].enabled = tab[c].enabled
    <3>1. CASE tab' = tab
      BY <3>1
    <3>2. ASSUME NEW g \in Gamepads, Unplug(b, g)
          PROVE  tab'[c].slot = tab[c].slot /\ tab'[c].enabled = tab[c].enabled
      <4>1. CASE b # c
        BY <1>0, <3>2, <4>1 DEF Unplug
      <4>2. CASE b = c
        <5>1. tab'[c] = [tab[c] EXCEPT !.gamepads[g] = none]
          BY <1>0, <3>2, <4>2 DEF Unplug
        <5>2. tab[c] \in [slot : PlayerSlots, enabled : SUBSET Devices,
                          gamepads : [Gamepads -> PadSlots \cup {none}]]
          BY <1>0
        <5>. QED BY <5>1, <5>2
      <4>. QED BY <4>1, <4>2
    <3>3. CASE Learn(b) /\ b # c
      BY <1>0, <3>3 DEF Learn
    <3>. QED BY <1>9, <3>1, <3>2, <3>3 DEF Tab, PollClaims
  <2>. QED BY <2>1, <2>2, <2>3 DEF NoNews
<1>10. ASSUME NEW l \in PeerIds, TellSuccessor(l), ~isHost[p] PROVE NoNews(p, c)
  <2>1. \A q \in peers : isHost[q] => conn[q] # c
    BY <1>0, <1>10 DEF InputInv, IInv, TypeOK
  <2>2. replies'[c] = replies[c] /\ UNCHANGED <<slot, enabled, isHost, owes, tab>>
    BY <1>0, <1>10, <2>1 DEF TellSuccessor
  <2>. QED BY <1>10, <2>2 DEF NoNews
<1>11. ASSUME NEW ch \in Channels, DataChannel(ch) PROVE NoNews(p, c)
  BY <1>11 DEF Finish, DataChannel, TestPermission, TestOwner, Pass, NoNews
<1>12. ASSUME NEW b \in Conns, Depart(b) PROVE NoNews(p, c) \/ Promoted(p, c)
  <2>1. CASE \E l \in FindPeer(b) : RemovePeer(l)
    BY <1>12, <2>1, RemovalNews DEF Depart, FindPeer
  <2>2. CASE UNCHANGED <<roomVars, peerVars>>
    <3>1. peers \ peers' = {} /\ UNCHANGED <<slot, enabled, isHost>>
      BY <2>2
    <3>2. UNCHANGED <<owes, announce>> /\ replies'[c] = replies[c] /\ tab'[c] = tab[c]
      BY <1>0, <1>12, <3>1 DEF Depart, Close
    <3>. QED BY <3>1, <3>2 DEF NoNews
  <2>. QED BY <1>12, <2>1, <2>2 DEF Depart, LeaveRoom, ReadError
<1>13. ASSUME NEW q \in PeerIds, LosePeerConnection(q) PROVE NoNews(p, c) \/ Promoted(p, c)
  BY <1>13, RemovalNews DEF LosePeerConnection, PeerConnectionLost
<1>14. ASSUME NEW b \in Conns, ReadLoop(b) PROVE NoNews(p, c) \/ NewsMove(p, c)
  BY <1>1, <1>2, <1>3, <1>4, <1>5, <1>6, <1>7, <1>8, <1>12, <1>14
  DEF ReadLoop, Answering, NewsMove
<1>15. ASSUME NEW b \in Conns, Tab(b) PROVE NoNews(p, c) \/ NewsMove(p, c)
  BY <1>9, <1>15 DEF NewsMove
<1>16. ASSUME NEW q \in PeerIds, TellSuccessor(q) PROVE NoNews(p, c) \/ NewsMove(p, c)
  BY <1>10, <1>16 DEF NewsMove
<1>. QED BY <1>11, <1>13, <1>14, <1>15, <1>16 DEF InputNext, NewsMove

-----------------------------------------------------------------------------
\* A tab whose queue gets a message that tells it the truth ends up with it;
\* one that tells of another fact changes nothing.
LEMMA ToldRole ==
    ASSUME NEW q \in Seq(Messages), NEW n, NEW e, NEW m \in Messages,
           m.kind = "role", m.slot = n, m.enabled = e
    PROVE  /\ \A X : Ends(Append(q, m), RoleMessages, Placing(n), n, X, {n})
           /\ \A d \in Devices : \A X : Ends(Append(q, m), Telling(d), Allowing(d), d, X, e)
<1>1. m \in RoleMessages /\ m \in Placing(n)
  BY DEF RoleMessages, Placing
<1>2. \A d \in Devices : m \in Telling(d) /\ (m \in Allowing(d) <=> d \in e)
  BY DEF Telling, Allowing
<1>3. ASSUME NEW X PROVE Ends(Append(q, m), RoleMessages, Placing(n), n, X, {n})
  BY <1>1, EndsAdded
<1>4. ASSUME NEW d \in Devices, NEW X
      PROVE  Ends(Append(q, m), Telling(d), Allowing(d), d, X, e)
  BY <1>2, EndsAdded
<1>. QED BY <1>3, <1>4

LEMMA ToldNothing ==
    ASSUME NEW q \in Seq(Messages), NEW m \in Messages, m.kind \in {"claimed", "released"}
    PROVE  /\ \A n : \A X :
                Ends(q, RoleMessages, Placing(n), n, X, {n})
                  => Ends(Append(q, m), RoleMessages, Placing(n), n, X, {n})
           /\ \A d \in Devices : \A X, Z :
                Ends(q, Telling(d), Allowing(d), d, X, Z)
                  => Ends(Append(q, m), Telling(d), Allowing(d), d, X, Z)
<1>1. m \notin RoleMessages /\ \A d \in Devices : m \notin Telling(d)
  BY DEF RoleMessages, Telling
<1>2. ASSUME NEW n, NEW X, Ends(q, RoleMessages, Placing(n), n, X, {n})
      PROVE  Ends(Append(q, m), RoleMessages, Placing(n), n, X, {n})
  BY <1>1, <1>2, EndsAdded
<1>3. ASSUME NEW d \in Devices, NEW X, NEW Z, Ends(q, Telling(d), Allowing(d), d, X, Z)
      PROVE  Ends(Append(q, m), Telling(d), Allowing(d), d, X, Z)
  BY <1>1, <1>3, EndsAdded
<1>. QED BY <1>2, <1>3

\* Without news, nothing changes.
LEMMA NoNewsInformed ==
    ASSUME InputInv, NEW p \in peers, NEW c, c = conn[p], Informed(p, c), NoNews(p, c)
    PROVE  Informed(p, c)'
<1>1. /\ owes'[c].kind = "role" => owes'[c].slot = slot'[p] /\ owes'[c].enabled = enabled'[p]
      /\ owes'[c].kind = "partly" => /\ owes'[c].slot = slot'[p]
                                     /\ owes'[c].enabled = enabled'[p] \ owes'[c].unread
      /\ owes'[c].kind = "welcome" => owes'[c].slot = slot'[p]
      /\ announce' # {} /\ isHost'[p] => slot'[p] = 1 /\ enabled'[p] = Devices
  BY DEF NoNews, Informed
<1>2. Awaits(p, c) => Awaits(p, c)'
  BY DEF NoNews, Awaits
<1>3. ASSUME WillPlay(c, slot[p]), \A d \in Devices : WillUse(c, d, enabled[p])
      PROVE  (WillPlay(c, slot[p]) /\ \A d \in Devices : WillUse(c, d, enabled[p]))'
  <2>1. replies[c] \in Seq(Messages)
    BY PeerTypes
  <2>2. CASE replies'[c] = replies[c]
    BY <1>3, <2>2 DEF NoNews, WillPlay, WillUse
  <2>3. ASSUME NEW m \in Messages, m.kind \in {"claimed", "released"},
               replies'[c] = Append(replies[c], m)
        PROVE  (WillPlay(c, slot[p]) /\ \A d \in Devices : WillUse(c, d, enabled[p]))'
    <3>1. WillPlay(c, slot[p])'
      BY <1>3, <2>1, <2>3, ToldNothing DEF NoNews, WillPlay
    <3>2. ASSUME NEW d \in Devices PROVE WillUse(c, d, enabled[p])'
      BY <1>3, <2>1, <2>3, ToldNothing DEF NoNews, WillUse
    <3>. QED BY <3>1, <3>2
  <2>. QED BY <2>2, <2>3 DEF NoNews
<1>. QED BY <1>1, <1>2, <1>3 DEF Informed

\* An answer that has the peer's slot, and its permissions but those still to be
\* read, is true, and the tab is bound to get it.
LEMMA AnswerInformed ==
    ASSUME NEW p \in PeerIds, NEW c \in Conns, NEW u \in SUBSET Devices, Informed(p, c),
           slot[p] \in PlayerSlots, enabled[p] \in SUBSET Devices,
           owes'[c] = Answer(slot[p], enabled[p] \ u, u),
           UNCHANGED <<announce, isHost, slot, enabled>>
    PROVE  Informed(p, c)'
<1>1. /\ owes'[c].slot = slot[p] /\ owes'[c].enabled = enabled[p] \ u
      /\ \/ u = {} /\ owes'[c].kind = "role"
         \/ owes'[c].kind = "partly" /\ owes'[c].unread = u
  BY AnswerShape
<1>2. Awaits(p, c)'
  BY <1>1 DEF Awaits
<1>. QED BY <1>1, <1>2 DEF Informed

\* The read loop's own news.
LEMMA LoopInformed ==
    ASSUME InputInv, NEW p \in peers, NEW c, c = conn[p], Informed(p, c),
           \/ JoinAsPlayerAndAnswer(c) \/ ReadReconnect(c) \/ Answering(c)
           \/ SendAnswer(c) /\ owes[c].kind = "role",
           NewsOnItsWay(p) => slot'[p] = slot[p] /\ enabled'[p] = enabled[p]
    PROVE  Informed(p, c)'
<1> USE DEF wireVars, serverVars, vars, roomVars, peerVars
<1>0. /\ p \in PeerIds /\ c \in Conns /\ InRoom(c) /\ PeerOf(c) = p
      /\ owes \in [Conns -> Work] /\ owes[c] \in Work /\ LoopFits(task[c].op, owes[c])
      /\ replies \in [Conns -> Seq(Messages)] /\ replies[c] \in Seq(Messages)
      /\ slot \in [PeerIds -> PlayerSlots] /\ enabled \in [PeerIds -> SUBSET Devices]
      /\ \A q \in PeerIds : conn[q] = c => q = p
  BY PeerTypes, PeerOfPeer DEF InputInv, IInv, TypeOK, OnePeer
<1>1. CASE JoinAsPlayerAndAnswer(c)
  <2>1. /\ owes[c].kind = "idle" /\ owes'[c].kind = "promoted"
        /\ UNCHANGED <<announce, isHost, replies, tab>>
    BY <1>0, <1>1, WorkKinds DEF JoinAsPlayerAndAnswer, JoinAsPlayer, LoopFits, Works
  <2>2. task[c].peer = p
    BY <1>0, <1>1 DEF JoinAsPlayerAndAnswer, JoinAsPlayer, InputInv, IInv, TaskRoles
  <2>3. slot'[p] # 0 \/ (slot' = slot /\ enabled' = enabled)
    BY <1>0, <1>1, <2>2 DEF JoinAsPlayerAndAnswer, JoinAsPlayer, TakePlayerSlot, FreePlayerSlots
  <2>4. announce # {} /\ isHost[p] => NewsOnItsWay(p)
    BY DEF NewsOnItsWay
  <2>5. announce' # {} /\ isHost'[p] => slot'[p] = 1 /\ enabled'[p] = Devices
    BY <2>1, <2>4 DEF Informed
  <2>6. CASE slot'[p] # 0
    BY <2>1, <2>5, <2>6 DEF Informed, Awaits
  <2>7. CASE slot' = slot /\ enabled' = enabled /\ slot'[p] = 0
    <3>1. (WillPlay(c, slot[p]))' <=> WillPlay(c, slot[p])
      BY <2>1, <2>7 DEF WillPlay
    <3>2. \A d \in Devices : (WillUse(c, d, enabled[p]))' <=> WillUse(c, d, enabled[p])
      BY <2>1, <2>7 DEF WillUse
    <3>. QED BY <2>1, <2>5, <2>7, <3>1, <3>2 DEF Informed, Awaits
  <2>. QED BY <2>3, <2>6, <2>7
<1>2. CASE ReadReconnect(c)
  <2>1. owes'[c].kind = "reconnected" /\ UNCHANGED <<announce, isHost, slot, enabled>>
    BY <1>0, <1>2, WorkKinds DEF ReadReconnect, Works
  <2>. QED BY <2>1 DEF Informed, Awaits
<1>3. CASE BuildAnswer(c)
  <2>1. /\ UNCHANGED <<announce, isHost, slot, enabled, replies, tab>>
        /\ owes[c].kind \in {"welcome", "promoted", "reconnected"}
    BY <1>3 DEF BuildAnswer
  <2>2. CASE owes[c].kind = "promoted" /\ slot[p] = 0
    <3>1. owes'[c].kind = "idle"
      BY <1>0, <1>3, <2>2, WorkKinds DEF BuildAnswer, Works
    <3>2. (WillPlay(c, slot[p]))' <=> WillPlay(c, slot[p])
      BY <2>1 DEF WillPlay
    <3>3. \A d \in Devices : (WillUse(c, d, enabled[p]))' <=> WillUse(c, d, enabled[p])
      BY <2>1 DEF WillUse
    <3>. QED BY <2>1, <2>2, <3>1, <3>2, <3>3 DEF Informed, Awaits
  <2>3. CASE ~(owes[c].kind = "promoted" /\ slot[p] = 0)
    <3>1. owes'[c] = Answer(slot[p], {}, Devices)
      BY <1>0, <1>3, <2>3 DEF BuildAnswer, Works, Informed
    <3>2. {} = enabled[p] \ Devices
      BY <1>0
    <3>. QED BY <1>0, <2>1, <3>1, <3>2, AnswerInformed
  <2>. QED BY <2>2, <2>3
<1>5. ASSUME NEW d \in Devices, ReadPermission(c, d) PROVE Informed(p, c)'
  <2> DEFINE known == owes[c].enabled \cup (enabled[p] \cap {d})
             left == owes[c].unread \ {d}
  <2>1. /\ UNCHANGED <<announce, isHost, slot, enabled>>
        /\ owes[c].kind = "partly" /\ d \in owes[c].unread
        /\ owes'[c] = Answer(owes[c].slot, known, left)
    BY <1>0, <1>5 DEF ReadPermission, Works
  <2>2. owes[c].slot = slot[p] /\ owes[c].enabled = enabled[p] \ owes[c].unread
    BY <2>1 DEF Informed
  <2>3. left \in SUBSET Devices /\ known = enabled[p] \ left
    BY <1>0, <2>1, <2>2, WorkShape
  <2> HIDE DEF known, left
  <2>. QED BY <1>0, <2>1, <2>2, <2>3, AnswerInformed
<1>4. CASE SendAnswer(c) /\ owes[c].kind = "role"
  <2>1. /\ owes[c] \in Messages /\ owes'[c].kind = "idle"
        /\ replies'[c] = Append(replies[c], owes[c])
        /\ UNCHANGED <<announce, isHost, slot, enabled, tab>>
    BY <1>0, <1>4, WorkKinds DEF SendAnswer, Works
  <2>2. owes[c].slot = slot[p] /\ owes[c].enabled = enabled[p]
    BY <1>4 DEF Informed
  <2>3. /\ \A X : Ends(replies'[c], RoleMessages, Placing(slot[p]), slot[p], X, {slot[p]})
        /\ \A d \in Devices : \A X :
             Ends(replies'[c], Telling(d), Allowing(d), d, X, enabled[p])
    BY <1>0, <1>4, <2>1, <2>2, ToldRole
  <2>4. (WillPlay(c, slot[p]))' /\ \A d \in Devices : (WillUse(c, d, enabled[p]))'
    BY <2>1, <2>3 DEF WillPlay, WillUse
  <2>. QED BY <2>1, <2>4 DEF Informed
<1>. QED BY <1>1, <1>2, <1>3, <1>4, <1>5 DEF Answering

\* A permission reaches the tabs of the peers it changes, and no news that was
\* read before is still to be sent, or the peer was crossed.
LEMMA GuestInformed ==
    ASSUME InputInv, NEW p \in peers, NEW c, c = conn[p], Informed(p, c),
           NEW b \in Conns, NEW d \in Devices, NEW on \in BOOLEAN,
           NEW target \in PeerIds \cup {nil}, SetGuestAndTell(b, d, on, target),
           p \in Addressed(target),
           NewsOnItsWay(p) => slot'[p] = slot[p] /\ enabled'[p] = enabled[p]
    PROVE  Informed(p, c)'
<1> USE DEF wireVars, serverVars
<1> DEFINE m == Permission(d, on)
<1>0. /\ p \in PeerIds /\ c \in Conns /\ replies[c] \in Seq(Messages)
      /\ enabled \in [PeerIds -> SUBSET Devices] /\ m \in Messages
      /\ m.kind = "permission" /\ m.device = d /\ m.on = on
  BY PeerTypes, WorkKinds DEF InputInv, IInv, TypeOK, Permission
<1>1. /\ replies'[c] = Append(replies[c], m)
      /\ UNCHANGED <<slot, isHost, owes, announce, tab>>
      /\ enabled'[p] = Permit(enabled[p], d, on)
  BY <1>0 DEF SetGuestAndTell, SetGuest
<1> HIDE DEF m
<1>2. /\ owes[c].kind \in {"partly", "role"} => NewsOnItsWay(p)
      /\ announce # {} /\ isHost[p] => NewsOnItsWay(p)
  BY DEF NewsOnItsWay
<1>3. /\ owes'[c].kind = "role" => owes'[c].slot = slot'[p] /\ owes'[c].enabled = enabled'[p]
      /\ owes'[c].kind = "partly" => /\ owes'[c].slot = slot'[p]
                                     /\ owes'[c].enabled = enabled'[p] \ owes'[c].unread
      /\ owes'[c].kind = "welcome" => owes'[c].slot = slot'[p]
      /\ announce' # {} /\ isHost'[p] => slot'[p] = 1 /\ enabled'[p] = Devices
  BY <1>1, <1>2 DEF Informed
<1>4. Awaits(p, c)' <=> Awaits(p, c)
  BY <1>1 DEF Awaits
<1>5. ASSUME WillPlay(c, slot[p]) PROVE WillPlay(c, slot[p])'
  <2>1. m \notin RoleMessages
    BY <1>0 DEF RoleMessages
  <2>. QED BY <1>0, <1>1, <1>5, <2>1, EndsAdded DEF WillPlay
<1>6. ASSUME NEW a \in Devices, WillUse(c, a, enabled[p]) PROVE WillUse(c, a, enabled[p])'
  <2>1. CASE a = d
    <3>1. m \in Telling(a) /\ (m \in Allowing(a) <=> a \in enabled'[p])
      BY <1>0, <1>1, <2>1 DEF Telling, Allowing, Permit
    <3>. QED BY <1>0, <1>1, <3>1, EndsAdded DEF WillUse
  <2>2. CASE a # d
    <3>1. m \notin Telling(a) /\ (a \in enabled'[p] <=> a \in enabled[p])
      BY <1>0, <1>1, <2>2 DEF Telling, Permit
    <3>2. Ends(replies'[c], Telling(a), Allowing(a), a, tab[c].enabled, enabled[p])
      BY <1>0, <1>1, <1>6, <3>1, EndsAdded DEF WillUse
    <3>3. Ends(replies'[c], Telling(a), Allowing(a), a, tab[c].enabled, enabled'[p])
      BY <3>1, <3>2 DEF Ends
    <3>. QED BY <1>1, <3>3 DEF WillUse
  <2>. QED BY <2>1, <2>2
<1>. QED BY <1>1, <1>3, <1>4, <1>5, <1>6 DEF Informed

\* A new host is told what is true of any host that nothing crossed.
LEMMA HostInformed ==
    ASSUME InputInv, NEW p \in peers, NEW c, c = conn[p], Informed(p, c),
           NEW l \in PeerIds, TellSuccessor(l), isHost[p]
    PROVE  Informed(p, c)'
<1> USE DEF wireVars, serverVars, vars, roomVars, peerVars
<1> DEFINE m == Role(1, Devices)
<1>0. /\ c \in Conns /\ replies[c] \in Seq(Messages)
      /\ m \in Messages /\ m.kind = "role" /\ m.slot = 1 /\ m.enabled = Devices
  <2>1. m \in Messages
    BY WorkKinds, RoomAssumption DEF PlayerSlots
  <2>. QED BY <2>1, PeerTypes DEF Role
<1>1. /\ replies'[c] = Append(replies[c], m) /\ announce # {}
      /\ UNCHANGED <<slot, enabled, isHost, owes, tab>>
  BY <1>0 DEF TellSuccessor
<1> HIDE DEF m
<1>2. slot[p] = 1 /\ enabled[p] = Devices
  BY <1>1 DEF Informed
<1>3. /\ \A X : Ends(replies'[c], RoleMessages, Placing(slot[p]), slot[p], X, {slot[p]})
      /\ \A d \in Devices : \A X :
           Ends(replies'[c], Telling(d), Allowing(d), d, X, enabled[p])
  <2>1. /\ \A X : Ends(Append(replies[c], m), RoleMessages, Placing(1), 1, X, {1})
        /\ \A d \in Devices : \A X :
             Ends(Append(replies[c], m), Telling(d), Allowing(d), d, X, Devices)
    BY <1>0, ToldRole
  <2>. QED BY <1>1, <1>2, <2>1
<1>4. (WillPlay(c, slot[p]))' /\ \A d \in Devices : (WillUse(c, d, enabled[p]))'
  BY <1>1, <1>3 DEF WillPlay, WillUse
<1>. QED BY <1>1, <1>2, <1>4 DEF Informed

\* A promotion announces itself.
LEMMA PromotedInformed ==
    ASSUME NEW p, NEW c, c = conn[p], Informed(p, c), Promoted(p, c),
           NewsOnItsWay(p) => slot'[p] = slot[p] /\ enabled'[p] = enabled[p]
    PROVE  Informed(p, c)'
BY DEF Informed, Promoted, NewsOnItsWay, Awaits

\* A message that the tab handles leaves it with what the queue said before.
LEMMA LearnInformed ==
    ASSUME InputInv, NEW p \in peers, NEW c, c = conn[p], Informed(p, c), Learn(c)
    PROVE  Informed(p, c)'
<1> USE DEF wireVars, serverVars, vars, roomVars, peerVars
<1> DEFINE m == Head(replies[c])
           t == tab[c]
<1>1. /\ replies[c] \in Seq(Messages) /\ replies[c] # <<>> /\ replies'[c] = Tail(replies[c])
      /\ m \in Messages /\ c \in Conns
      /\ UNCHANGED <<slot, enabled, isHost, owes, announce>>
  <2>1. /\ replies[c] # <<>> /\ replies'[c] = Tail(replies[c]) /\ m \in Messages
    BY LearnPads
  <2>2. UNCHANGED <<slot, enabled, isHost, owes, announce>>
    BY DEF Learn
  <2>. QED BY <2>1, <2>2, PeerTypes
<1>2. /\ t \in [slot : PlayerSlots, enabled : SUBSET Devices,
                gamepads : [Gamepads -> PadSlots \cup {none}]]
      /\ tab \in [Conns -> [slot : PlayerSlots, enabled : SUBSET Devices,
                            gamepads : [Gamepads -> PadSlots \cup {none}]]]
  BY <1>1, PeerTypes
<1>3. m.kind \in {"role", "permission", "claimed", "released"}
  BY <1>1, MessageShape
<1>4. /\ tab'[c].slot = IF m.kind = "role" THEN m.slot ELSE t.slot
      /\ tab'[c].enabled = IF m.kind = "role" THEN m.enabled
                           ELSE IF m.kind = "permission" THEN Permit(t.enabled, m.device, m.on)
                           ELSE t.enabled
  <2>1. CASE m.kind = "role"
    <3>1. tab'[c] = [t EXCEPT !.slot = m.slot, !.enabled = m.enabled]
      BY <1>1, <1>2, <2>1 DEF Learn
    <3>. QED BY <1>2, <2>1, <3>1
  <2>2. CASE m.kind = "permission"
    <3>1. tab'[c] = [t EXCEPT !.enabled = Permit(@, m.device, m.on)]
      BY <1>1, <1>2, <2>2 DEF Learn
    <3>. QED BY <1>2, <2>2, <3>1
  <2>3. CASE m.kind = "claimed"
    <3>1. tab'[c] = [t EXCEPT !.gamepads[m.gamepad] = m.pad]
      BY <1>1, <1>2, <2>3 DEF Learn
    <3>. QED BY <1>2, <2>3, <3>1
  <2>4. CASE m.kind = "released"
    <3>1. tab'[c] = [t EXCEPT !.gamepads = [b \in Gamepads |-> IF @[b] = m.pad THEN none ELSE @[b]]]
      BY <1>1, <1>2, <2>4 DEF Learn
    <3>. QED BY <1>2, <2>4, <3>1
  <2>. QED BY <1>3, <2>1, <2>2, <2>3, <2>4
<1> HIDE DEF m, t
<1>5. ASSUME NEW n, WillPlay(c, n) PROVE WillPlay(c, n)'
  <2>1. n \in {tab'[c].slot} <=> IF m \in RoleMessages THEN m \in Placing(n) ELSE n \in {t.slot}
    BY <1>1, <1>4 DEF RoleMessages, Placing
  <2>2. Ends(replies[c], RoleMessages, Placing(n), n, {t.slot}, {n})
    BY <1>5 DEF WillPlay, t
  <2>3. Ends(Tail(replies[c]), RoleMessages, Placing(n), n, {tab'[c].slot}, {n})
    BY <1>1, <2>1, <2>2, EndsTaken DEF m
  <2>. QED BY <1>1, <2>3 DEF WillPlay
<1>6. ASSUME NEW d \in Devices, NEW e, WillUse(c, d, e)
      PROVE  Ends(replies'[c], Telling(d), Allowing(d), d, tab'[c].enabled, e)
  <2>1. d \in tab'[c].enabled
          <=> IF m \in Telling(d) THEN m \in Allowing(d) ELSE d \in t.enabled
    BY <1>1, <1>3, <1>4, MessageShape DEF Telling, Allowing, Permit
  <2>2. Ends(replies[c], Telling(d), Allowing(d), d, t.enabled, e)
    BY <1>6 DEF WillUse, t
  <2>3. Ends(Tail(replies[c]), Telling(d), Allowing(d), d, tab'[c].enabled, e)
    BY <1>1, <2>1, <2>2, EndsTaken DEF m
  <2>. QED BY <1>1, <2>3
<1>7. Awaits(p, c)' <=> Awaits(p, c)
  BY <1>1 DEF Awaits
<1>8. WillPlay(c, slot[p]) => WillPlay(c, slot[p])'
  <2>1. WillPlay(c, slot[p]) => Ends(replies'[c], RoleMessages, Placing(slot[p]), slot[p],
                                     {tab'[c].slot}, {slot[p]})
    BY <1>5 DEF WillPlay
  <2>. QED BY <1>1, <2>1 DEF WillPlay
<1>9. \A d \in Devices : WillUse(c, d, enabled[p]) => WillUse(c, d, enabled[p])'
  BY <1>1, <1>6 DEF WillUse
<1>. QED BY <1>1, <1>7, <1>8, <1>9 DEF Informed

-----------------------------------------------------------------------------
LEMMA NewsNext ==
    ASSUME InputInv, NewsInv, InputNext
    PROVE  NewsInv'
<1> SUFFICES ASSUME NEW p \in peers', NEW c \in Conns, conn'[p] = c, p \notin crossed'
             PROVE  Informed(p, c)'
  BY DEF NewsInv
<1>1. CASE p \in peers
  <2>1. c = conn[p]
    BY <1>1, PadStep
  <2>2. /\ p \notin crossed
        /\ NewsOnItsWay(p) => slot'[p] = slot[p] /\ enabled'[p] = enabled[p]
    BY <1>1 DEF InputNext, Histories
  <2>3. Informed(p, c)
    BY <1>1, <2>1, <2>2 DEF NewsInv
  <2>4. NoNews(p, c) \/ NewsMove(p, c)
    BY <1>1, <2>1, NewsStep
  <2>. QED BY <1>1, <2>1, <2>2, <2>3, <2>4, NoNewsInformed, LoopInformed, GuestInformed,
              HostInformed, PromotedInformed, LearnInformed
       DEF NewsMove
<1>2. CASE p \notin peers
  <2>1. /\ owes'[c] = ToBuild("welcome", IF host = nil THEN 1 ELSE 0)
        /\ Join(c) /\ announce' = announce /\ p = nextPeerID + 1 /\ p \in PeerIds
    BY <1>2, Joining
  <2>2. owes'[c].kind = "welcome" /\ owes'[c].slot = IF host = nil THEN 1 ELSE 0
    BY <2>1, WorkKinds
  <2>3. /\ slot'[p] = IF host = nil THEN 1 ELSE 0
        /\ isHost'[p] => slot'[p] = 1 /\ enabled'[p] = Devices
    BY <2>1 DEF Join, InputInv, IInv, TypeOK
  <2>. QED BY <2>2, <2>3 DEF Informed, Awaits
<1>. QED BY <1>1, <1>2

\* The news of a peer's role that is under way is true, and what the tab will
\* believe when it has handled all of it is true, unless a change crossed it.
THEOREM NewsInvariance == InputSpec => []NewsInv
<1>1. InputInit => NewsInv
  BY DEF InputInit, Init, NewsInv
<1>2. InputInv /\ NewsInv /\ [InputNext]_allVars => NewsInv'
  <2> SUFFICES ASSUME InputInv, NewsInv, UNCHANGED allVars PROVE NewsInv'
    BY NewsNext
  <2>1. UNCHANGED <<peers, conn, slot, isHost, enabled, owes, announce, replies, tab, crossed>>
    BY DEF allVars, vars, roomVars, peerVars, serverVars, wireVars
  <2>. QED BY <2>1, ZenonT(30) DEF NewsInv, Informed, Awaits, WillPlay, WillUse
<1>. QED BY <1>1, <1>2, InputInvariance, PTL DEF InputSpec

\* A tab that has handled all that was sent, and whose peer nothing crossed,
\* believes what the room says of its peer's slot and devices.
THEOREM UncrossedNewsInforms == InputSpec => []OnlyCrossedNewsMisleads
<1>1. InputInv /\ NewsInv => OnlyCrossedNewsMisleads
  <2> SUFFICES ASSUME InputInv, NewsInv, NEW p \in peers \ crossed, NEW c, c = conn[p],
                      owes[c] = Idle, replies[c] = <<>>, announce = {}
               PROVE  tab[c].slot = slot[p] /\ tab[c].enabled = enabled[p]
    BY DEF OnlyCrossedNewsMisleads
  <2>1. c \in Conns /\ tab[c].enabled \subseteq Devices /\ enabled[p] \subseteq Devices
    BY PeerTypes DEF InputInv, IInv, TypeOK
  <2>2. WillPlay(c, slot[p]) /\ \A d \in Devices : WillUse(c, d, enabled[p])
    BY <2>1, WorkKinds DEF NewsInv, Informed, Awaits
  <2>3. DOMAIN replies[c] = {}
    BY EmptySeq
  <2>4. tab[c].slot = slot[p]
    BY <2>2, <2>3 DEF WillPlay, Ends
  <2>5. \A d \in Devices : d \in tab[c].enabled <=> d \in enabled[p]
    BY <2>2, <2>3 DEF WillUse, Ends
  <2>. QED BY <2>1, <2>4, <2>5
<1>. QED BY <1>1, InputInvariance, NewsInvariance, PTL
=============================================================================
