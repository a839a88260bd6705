----------------------------- MODULE RoomProofs -----------------------------
(***************************************************************************)
(* Theorems about Room, for every set of connections and devices and every *)
(* bound.  IInv is the inductive invariant: besides the properties of Room *)
(* it says what nobody can see of ids not handed out yet, that slot 1 is   *)
(* the host's, and what a read loop between its test and the write lock    *)
(* still knows about its peer.                                             *)
(***************************************************************************)
EXTENDS Room, TLAPS

\* An id not handed out yet has left no trace.
FreshIds ==
    \A p \in PeerIds : p > nextPeerID =>
        /\ p \notin peers
        /\ ~isHost[p]
        /\ slot[p] = 0
        /\ pads[p] = {}
        /\ \A s \in PadSlots : gamepadSlots[s] # p

\* Among the peers of the room slot 1 is never a guest's.
SlotOneIsHosts == \A p \in peers : slot[p] = 1 => isHost[p]

HostOps == {"quality", "settings", "restart", "guest"}

\* A read loop between its test and the lock acts for a peer that joined on
\* its own connection and still has the role it was tested for.
TaskRoles ==
    \A c \in Conns :
        task[c].op \notin {"read", "gone"} =>
            /\ task[c].peer \in PeerIds /\ task[c].peer <= nextPeerID
            /\ conn[task[c].peer] = c
            /\ task[c].op = "claim" => slot[task[c].peer] > 0
            /\ task[c].op \in HostOps => isHost[task[c].peer]

IInv ==
    /\ TypeOK
    /\ HostInv
    /\ SlotsUnique
    /\ PadAgreement
    /\ PadOwnersPlay
    /\ FreshIds
    /\ SlotOneIsHosts
    /\ TaskRoles

-----------------------------------------------------------------------------
\* Init and the bounds of the constants give the types.
LEMMA InitType == Init => TypeOK
<1> SUFFICES ASSUME Init PROVE TypeOK
  OBVIOUS
<1>1. /\ peers \subseteq PeerIds /\ host \in PeerIds \cup {nil} /\ nextPeerID \in 0 .. MaxPeers
      /\ gamepadSlots \in [PadSlots -> PeerIds \cup {nil}]
      /\ guestAllowed \subseteq Devices /\ quality \in Qualities
  BY RoomAssumption DEF Init, Qualities, nil
<1>2. /\ conn \in [PeerIds -> Conns \cup {nil}] /\ slot \in [PeerIds -> PlayerSlots]
      /\ isHost \in [PeerIds -> BOOLEAN] /\ enabled \in [PeerIds -> SUBSET Devices]
      /\ pads \in [PeerIds -> SUBSET PadSlots]
  BY RoomAssumption DEF Init, PlayerSlots
<1>3. task \in [Conns -> [op : Ops, peer : PeerIds \cup {nil}, arg : Qualities]]
  BY RoomAssumption DEF Init, Reading, Ops, Qualities
<1>4. captured \in Qualities \cup Flags /\ alone \in BOOLEAN
  BY DEF Init
<1>. QED BY <1>1, <1>2, <1>3, <1>4 DEF TypeOK

\* clampInt stays within its bounds.
LEMMA ClampInBounds ==
    ASSUME NEW v \in Int
    PROVE  clampInt(v) \in Qualities
BY RoomAssumption DEF clampInt, Qualities

\* Removing a peer keeps the types.
LEMMA RemoveType ==
    ASSUME TypeOK, NEW p \in peers, RemovePeer(p)
    PROVE  /\ peers' \subseteq PeerIds
           /\ host' \in PeerIds \cup {nil}
           /\ nextPeerID' \in 0 .. MaxPeers
           /\ gamepadSlots' \in [PadSlots -> PeerIds \cup {nil}]
           /\ guestAllowed' \subseteq Devices
           /\ quality' \in Qualities
           /\ conn' \in [PeerIds -> Conns \cup {nil}]
           /\ slot' \in [PeerIds -> PlayerSlots]
           /\ isHost' \in [PeerIds -> BOOLEAN]
           /\ enabled' \in [PeerIds -> SUBSET Devices]
           /\ pads' \in [PeerIds -> SUBSET PadSlots]
           /\ captured' \in Qualities \cup Flags
           /\ alone' \in BOOLEAN
<1>1. 1 \in PlayerSlots
  BY RoomAssumption DEF PlayerSlots
<1>2. CASE ~isHost[p]
  BY <1>2 DEF TypeOK, RemovePeer
<1>3. CASE isHost[p]
  BY <1>1, <1>3 DEF TypeOK, RemovePeer, Successors
<1>. QED BY <1>2, <1>3

\* Every step keeps the types.
LEMMA NextType == TypeOK /\ [Next]_vars => TypeOK'
<1> SUFFICES ASSUME TypeOK, [Next]_vars PROVE TypeOK'
  OBVIOUS
<1>1. ASSUME NEW c \in Conns, Join(c) PROVE TypeOK'
  BY <1>1, RoomAssumption DEF TypeOK, Join, PeerIds, PlayerSlots, nil
<1>2. ASSUME NEW c \in Conns, LeaveRoom(c) PROVE TypeOK'
  BY <1>2, RemoveType DEF TypeOK, LeaveRoom, FindPeer
<1>3. ASSUME NEW c \in Conns, ReadError(c) PROVE TypeOK'
  <2>1. Gone \in [op : Ops, peer : PeerIds \cup {nil}, arg : Qualities]
    BY RoomAssumption DEF Gone, Ops, Qualities
  <2>2. task' \in [Conns -> [op : Ops, peer : PeerIds \cup {nil}, arg : Qualities]]
    BY <1>3, <2>1 DEF ReadError, TypeOK
  <2>3. CASE \E p \in FindPeer(c) : RemovePeer(p)
    BY <2>2, <2>3, RemoveType DEF TypeOK, FindPeer
  <2>4. CASE UNCHANGED <<roomVars, peerVars, captured, alone>>
    BY <2>2, <2>4 DEF TypeOK, roomVars, peerVars
  <2>. QED BY <1>3, <2>3, <2>4 DEF ReadError
<1>4. ASSUME NEW q \in PeerIds, PeerConnectionLost(q) PROVE TypeOK'
  BY <1>4, RemoveType DEF TypeOK, PeerConnectionLost
<1>5. ASSUME NEW c \in Conns, NEW op \in Ops, NEW senders \in SUBSET peers, Begin(c, op, senders)
      PROVE  TypeOK'
  BY <1>5, RoomAssumption DEF TypeOK, Begin, roomVars, peerVars, Qualities
<1>6. ASSUME NEW c \in Conns, JoinAsPlayer(c) PROVE TypeOK'
  BY <1>6, RoomAssumption
  DEF TypeOK, JoinAsPlayer, TakePlayerSlot, FreePlayerSlots, Done, Reading, roomVars,
      Ops, Qualities, PlayerSlots
<1>7. ASSUME NEW c \in Conns, ClaimGamepad(c) PROVE TypeOK'
  <2>1. task' \in [Conns -> [op : Ops, peer : PeerIds \cup {nil}, arg : Qualities]]
    BY <1>7, RoomAssumption DEF TypeOK, ClaimGamepad, Done, Reading, Ops, Qualities
  <2>2. task[c].peer \in PeerIds \cup {nil}
    BY DEF TypeOK
  <2>3. CASE FreePads = {}
    BY <1>7, <2>1, <2>3 DEF TypeOK, ClaimGamepad
  <2>4. ASSUME NEW s \in PadSlots,
               gamepadSlots' = [gamepadSlots EXCEPT ![s] = task[c].peer],
               pads' = [pads EXCEPT ![task[c].peer] = @ \cup {s}]
        PROVE  TypeOK'
    BY <1>7, <2>1, <2>2, <2>4 DEF TypeOK, ClaimGamepad
  <2>. QED BY <1>7, <2>3, <2>4 DEF ClaimGamepad, FreePads
<1>8. ASSUME NEW c \in Conns, NEW s \in PadSlots, ReleaseGamepad(c, s) PROVE TypeOK'
  <2>1. task' \in [Conns -> [op : Ops, peer : PeerIds \cup {nil}, arg : Qualities]]
    BY <1>8, RoomAssumption DEF TypeOK, ReleaseGamepad, Done, Reading, Ops, Qualities
  <2>2. CASE ~OwnsPad(task[c].peer, s)
    BY <1>8, <2>1, <2>2 DEF TypeOK, ReleaseGamepad
  <2>3. CASE OwnsPad(task[c].peer, s)
    <3>1. gamepadSlots' = [gamepadSlots EXCEPT ![s] = nil]
      BY <1>8, <2>3 DEF ReleaseGamepad
    <3>2. pads' = [pads EXCEPT ![task[c].peer] = @ \ {s}]
      BY <1>8, <2>3 DEF ReleaseGamepad
    <3>3. gamepadSlots' \in [PadSlots -> PeerIds \cup {nil}]
      BY <3>1 DEF TypeOK
    <3>4. pads' \in [PeerIds -> SUBSET PadSlots]
      BY <3>2 DEF TypeOK
    <3>. QED BY <1>8, <2>1, <3>3, <3>4 DEF TypeOK, ReleaseGamepad
  <2>. QED BY <2>2, <2>3
<1>9. ASSUME NEW c \in Conns, NEW v \in Requests, SetQuality(c, v) PROVE TypeOK'
  BY <1>9, ClampInBounds, RoomAssumption DEF TypeOK, SetQuality, peerVars, Ops
<1>10. ASSUME NEW c \in Conns, ReadSettings(c) PROVE TypeOK'
  BY <1>10 DEF TypeOK, ReadSettings, roomVars, peerVars, Ops
<1>11. ASSUME NEW c \in Conns, RestartVideo(c) PROVE TypeOK'
  BY <1>11, RoomAssumption
  DEF TypeOK, RestartVideo, Done, Reading, roomVars, peerVars, Ops, Qualities
<1>12. ASSUME NEW c \in Conns, NEW d \in Devices, NEW on \in BOOLEAN,
              NEW target \in PeerIds \cup {nil}, SetGuest(c, d, on, target)
       PROVE TypeOK'
  BY <1>12, RoomAssumption
  DEF TypeOK, SetGuest, Permit, Done, Reading, Ops, Qualities
<1>13. CASE UNCHANGED vars
  BY <1>13 DEF TypeOK, vars, roomVars, peerVars
<1>14. ASSUME NEW c \in Conns,
              \/ BeginJoinAsPlayer(c) \/ BeginClaimGamepad(c) \/ BeginReleaseGamepad(c)
              \/ BeginSetQuality(c) \/ BeginSetGuest(c)
       PROVE TypeOK'
  <2>1. \E op \in Ops, senders \in SUBSET peers : Begin(c, op, senders)
    BY <1>14 DEF BeginJoinAsPlayer, BeginClaimGamepad, BeginReleaseGamepad,
                BeginSetQuality, BeginSetGuest, FindPeer, Ops
  <2>. QED BY <1>5, <2>1
<1>. QED
  BY <1>1, <1>2, <1>3, <1>4, <1>6, <1>7, <1>8, <1>9, <1>10, <1>11, <1>12, <1>13, <1>14
  DEF Next, Handler

\* Peers, host, slots, pads and read loops always have their types.
THEOREM TypeCorrect == Spec => []TypeOK
<1>1. Init => TypeOK
  BY InitType
<1>2. TypeOK /\ [Next]_vars => TypeOK'
  BY NextType
<1>. QED BY <1>1, <1>2, PTL DEF Spec

-----------------------------------------------------------------------------
\* The empty room satisfies the inductive invariant.
LEMMA InitInv == Init => IInv
<1> SUFFICES ASSUME Init PROVE IInv
  OBVIOUS
<1>1. TypeOK
  BY InitType
<1>2. HostInv /\ SlotsUnique /\ PadAgreement /\ PadOwnersPlay /\ SlotOneIsHosts
  BY DEF Init, HostInv, SlotsUnique, PadAgreement, PadOwnersPlay, SlotOneIsHosts, nil
<1>3. FreshIds
  BY DEF Init, FreshIds, PeerIds, nil
<1>4. TaskRoles
  BY DEF Init, TaskRoles, Reading
<1>. QED BY <1>1, <1>2, <1>3, <1>4 DEF IInv

\* Removing a peer, by whichever goroutine, keeps the invariant as long as
\* the read loops stay where they are or end.
LEMMA RemoveInv ==
    ASSUME IInv, TypeOK', NEW p \in peers, RemovePeer(p),
           \A c \in Conns : task'[c] = task[c] \/ task'[c] = Gone
    PROVE  IInv'
<1> USE DEF IInv
<1>1. TypeOK /\ p \in PeerIds /\ p # nil
  BY DEF TypeOK, PeerIds, nil
<1>2. /\ peers' = peers \ {p}
      /\ pads' = pads /\ nextPeerID' = nextPeerID /\ conn' = conn
      /\ gamepadSlots' = [s \in PadSlots |-> IF s \in pads[p] THEN nil ELSE gamepadSlots[s]]
  BY DEF RemovePeer
<1>3. \/ /\ ~isHost[p]
         /\ host' = host /\ isHost' = isHost /\ slot' = slot
      \/ /\ isHost[p] /\ peers' = {} /\ host' = nil
         /\ isHost' = isHost /\ slot' = slot
      \/ /\ isHost[p]
         /\ \E q \in peers' : /\ host' = q
                              /\ isHost' = [isHost EXCEPT ![q] = TRUE]
                              /\ slot' = [slot EXCEPT ![q] = 1]
  BY <1>2 DEF RemovePeer, Successors
<1>4. HostInv'
  <2>1. host \in peers /\ (\A q \in peers : isHost[q] <=> q = host) /\ peers \subseteq PeerIds
    BY <1>1 DEF HostInv, TypeOK
  <2>2. nil \notin PeerIds
    BY DEF nil, PeerIds
  <2>3. CASE ~isHost[p]
    <3>1. host' = host /\ isHost' = isHost /\ p # host
      BY <1>3, <2>1, <2>3
    <3>. QED BY <1>2, <2>1, <2>2, <3>1 DEF HostInv
  <2>4. CASE peers' = {} /\ host' = nil
    BY <2>4 DEF HostInv
  <2>5. ASSUME NEW q \in peers', isHost[p], host' = q, isHost' = [isHost EXCEPT ![q] = TRUE]
        PROVE  HostInv'
    <3>1. p = host
      BY <2>1, <2>5
    <3>2. \A r \in peers' : isHost'[r] <=> r = q
      BY <1>1, <1>2, <2>1, <2>5, <3>1 DEF TypeOK
    <3>3. q # nil
      BY <1>2, <2>1, <2>2
    <3>. QED BY <2>5, <3>2, <3>3 DEF HostInv
  <2>. QED BY <1>3, <2>3, <2>4, <2>5
<1>5. SlotsUnique' /\ SlotOneIsHosts'
  <2>1. CASE slot' = slot
    BY <1>1, <1>2, <1>3, <2>1 DEF SlotsUnique, SlotOneIsHosts, HostInv, TypeOK
  <2>2. ASSUME NEW q \in peers', isHost[p],
               isHost' = [isHost EXCEPT ![q] = TRUE], slot' = [slot EXCEPT ![q] = 1]
        PROVE  SlotsUnique' /\ SlotOneIsHosts'
    <3>1. \A r \in peers' : r \in PeerIds /\ r \in peers /\ slot[r] # 1
      BY <1>1, <1>2, <2>2 DEF SlotOneIsHosts, HostInv, TypeOK
    <3>2. \A r \in peers' : slot'[r] = IF r = q THEN 1 ELSE slot[r]
      BY <1>1, <2>2, <3>1 DEF TypeOK
    <3>3. SlotsUnique'
      BY <3>1, <3>2 DEF SlotsUnique
    <3>4. SlotOneIsHosts'
      BY <1>1, <2>2, <3>1, <3>2 DEF SlotOneIsHosts, TypeOK
    <3>. QED BY <3>3, <3>4
  <2>. QED BY <1>3, <2>1, <2>2
<1>6. PadAgreement'
  <2> SUFFICES ASSUME NEW q \in peers', NEW s \in PadSlots
               PROVE  s \in pads'[q] <=> gamepadSlots'[s] = q
    BY DEF PadAgreement
  <2>1. q \in peers /\ q # p /\ q # nil
    BY <1>2 DEF TypeOK, PeerIds, nil
  <2>2. /\ s \in pads[q] <=> gamepadSlots[s] = q
        /\ s \in pads[p] <=> gamepadSlots[s] = p
    BY <2>1 DEF PadAgreement
  <2>. QED BY <1>2, <2>1, <2>2
<1>7. \A q \in PeerIds : /\ isHost[q] => isHost'[q]
                         /\ slot[q] > 0 => slot'[q] > 0
                         /\ q \notin peers => isHost'[q] = isHost[q] /\ slot'[q] = slot[q]
  BY <1>1, <1>2, <1>3 DEF TypeOK
<1>8. PadOwnersPlay'
  <2> SUFFICES ASSUME NEW s \in PadSlots, gamepadSlots'[s] # nil
               PROVE  slot'[gamepadSlots'[s]] > 0
    BY DEF PadOwnersPlay
  <2>1. gamepadSlots'[s] = gamepadSlots[s]
    BY <1>2
  <2>2. gamepadSlots[s] \in PeerIds /\ slot[gamepadSlots[s]] > 0
    BY <2>1 DEF PadOwnersPlay, TypeOK
  <2>. QED BY <1>7, <2>1, <2>2
<1>9. FreshIds'
  BY <1>1, <1>2, <1>7 DEF FreshIds, nil, PeerIds
<1>10. TaskRoles'
  <2> SUFFICES ASSUME NEW c \in Conns, task'[c].op \notin {"read", "gone"}
               PROVE  /\ task'[c].peer \in PeerIds /\ task'[c].peer <= nextPeerID'
                      /\ conn'[task'[c].peer] = c
                      /\ task'[c].op = "claim" => slot'[task'[c].peer] > 0
                      /\ task'[c].op \in HostOps => isHost'[task'[c].peer]
    BY DEF TaskRoles
  <2>1. task'[c] = task[c]
    BY DEF Gone
  <2>. QED BY <1>2, <1>7, <2>1 DEF TaskRoles
<1>. QED BY <1>4, <1>5, <1>6, <1>8, <1>9, <1>10

\* A step that changes read loops and settings only keeps the invariant as
\* long as the loops' roles still hold.
LEMMA LoopStepInv ==
    ASSUME IInv, TypeOK', TaskRoles',
           UNCHANGED <<peers, host, nextPeerID, gamepadSlots, conn, slot, isHost, pads>>
    PROVE  IInv'
BY DEF IInv, HostInv, SlotsUnique, PadAgreement, PadOwnersPlay, FreshIds, SlotOneIsHosts

\* A read loop that returns to reading, the roles of the peers growing at
\* most, keeps the roles of the others.
LEMMA DoneRoles ==
    ASSUME IInv, NEW c \in Conns, Done(c),
           nextPeerID' = nextPeerID, conn' = conn,
           \A q \in PeerIds : isHost[q] => isHost'[q],
           \A q \in PeerIds : slot[q] > 0 => slot'[q] > 0
    PROVE  TaskRoles'
<1> SUFFICES ASSUME NEW b \in Conns, task'[b].op \notin {"read", "gone"}
             PROVE  /\ task'[b].peer \in PeerIds /\ task'[b].peer <= nextPeerID'
                    /\ conn'[task'[b].peer] = b
                    /\ task'[b].op = "claim" => slot'[task'[b].peer] > 0
                    /\ task'[b].op \in HostOps => isHost'[task'[b].peer]
  BY DEF TaskRoles
<1>1. task'[b] = task[b]
  BY DEF Done, Reading, IInv, TypeOK
<1>2. /\ task[b].peer \in PeerIds /\ task[b].peer <= nextPeerID
      /\ conn[task[b].peer] = b
      /\ task[b].op = "claim" => slot[task[b].peer] > 0
      /\ task[b].op \in HostOps => isHost[task[b].peer]
  BY <1>1 DEF IInv, TaskRoles
<1>. QED BY <1>1, <1>2

-----------------------------------------------------------------------------
\* Joining keeps the invariant: a fresh id takes the role only if it is free.
LEMMA JoinInv ==
    ASSUME IInv, TypeOK', NEW c \in Conns, Join(c)
    PROVE  IInv'
<1> DEFINE new == nextPeerID + 1
           first == host = nil
<1>1. /\ TypeOK /\ nextPeerID < MaxPeers
      /\ nextPeerID' = new /\ peers' = peers \cup {new}
      /\ host' = IF first THEN new ELSE host
      /\ conn' = [conn EXCEPT ![new] = c]
      /\ slot' = [slot EXCEPT ![new] = IF first THEN 1 ELSE 0]
      /\ isHost' = [isHost EXCEPT ![new] = first]
      /\ pads' = pads /\ gamepadSlots' = gamepadSlots /\ task' = task
  BY DEF IInv, Join
<1>2. /\ new \in PeerIds /\ new # nil /\ new > nextPeerID
      /\ nextPeerID \in Nat /\ \A q \in PeerIds : q \in Int
  BY <1>1, RoomAssumption DEF TypeOK, PeerIds, nil
<1>3. /\ new \notin peers /\ ~isHost[new] /\ pads[new] = {}
      /\ \A s \in PadSlots : gamepadSlots[s] # new
  BY <1>2 DEF IInv, FreshIds
<1>4. /\ \A q \in PeerIds : q # new => isHost'[q] = isHost[q] /\ slot'[q] = slot[q]
      /\ isHost'[new] <=> first
      /\ slot'[new] = IF first THEN 1 ELSE 0
  BY <1>1, <1>2 DEF TypeOK
<1>5. peers \subseteq PeerIds /\ nil \notin PeerIds /\ (first <=> peers = {})
  BY <1>1 DEF IInv, HostInv, TypeOK, PeerIds, nil
<1>6. HostInv'
  <2>1. CASE first
    <3>1. peers' = {new} /\ host' = new
      BY <1>1, <1>5, <2>1
    <3>. QED BY <1>2, <1>4, <2>1, <3>1 DEF HostInv
  <2>2. CASE ~first
    <3>1. host' = host /\ host \in peers /\ \A q \in peers : isHost[q] <=> q = host
      BY <1>1, <2>2 DEF IInv, HostInv
    <3>2. \A q \in peers' : isHost'[q] <=> q = host
      BY <1>1, <1>3, <1>4, <1>5, <2>2, <3>1
    <3>. QED BY <1>1, <1>5, <2>2, <3>1, <3>2 DEF HostInv
  <2>. QED BY <2>1, <2>2
<1>7. SlotsUnique' /\ SlotOneIsHosts'
  <2>1. \A q \in peers' : q = new \/ (q \in peers /\ q # new /\ q \in PeerIds)
    BY <1>1, <1>3, <1>5
  <2>2. first => \A q \in peers' : q = new
    BY <1>5, <2>1
  <2>3. ASSUME NEW q \in peers', slot'[q] = 1 PROVE isHost'[q]
    <3>1. CASE q = new
      BY <1>4, <2>3, <3>1
    <3>2. CASE q # new
      <4>1. q \in peers /\ isHost'[q] = isHost[q] /\ slot'[q] = slot[q]
        BY <1>4, <2>1, <3>2
      <4>. QED BY <2>3, <4>1 DEF IInv, SlotOneIsHosts
    <3>. QED BY <3>1, <3>2
  <2>4. SlotsUnique'
    <3> SUFFICES ASSUME NEW q \in peers', NEW r \in peers', q # r, slot'[q] # 0
                 PROVE  slot'[q] # slot'[r]
      BY DEF SlotsUnique
    <3>1. ~first
      BY <2>2
    <3>2. q # new
      BY <1>4, <3>1
    <3>3. slot'[q] = slot[q] /\ q \in peers
      BY <1>4, <2>1, <3>2
    <3>4. CASE r = new
      BY <1>4, <3>1, <3>4
    <3>5. CASE r # new
      BY <1>4, <2>1, <3>3, <3>5 DEF IInv, SlotsUnique
    <3>. QED BY <3>4, <3>5
  <2>. QED BY <2>3, <2>4 DEF SlotOneIsHosts
<1>8. PadAgreement'
  BY <1>1, <1>3 DEF IInv, PadAgreement
<1>9. PadOwnersPlay'
  BY <1>1, <1>3, <1>4 DEF IInv, PadOwnersPlay, TypeOK
<1>10. FreshIds'
  <2>1. \A q \in PeerIds : q > new => q > nextPeerID /\ q # new
    BY <1>2
  <2>. QED BY <1>1, <1>4, <2>1 DEF IInv, FreshIds
<1>11. TaskRoles'
  <2> SUFFICES ASSUME NEW b \in Conns, task[b].op \notin {"read", "gone"}
               PROVE  /\ task[b].peer \in PeerIds /\ task[b].peer <= new
                      /\ conn'[task[b].peer] = b
                      /\ task[b].op = "claim" => slot'[task[b].peer] > 0
                      /\ task[b].op \in HostOps => isHost'[task[b].peer]
    BY <1>1 DEF TaskRoles
  <2>1. /\ task[b].peer \in PeerIds /\ task[b].peer <= nextPeerID
        /\ conn[task[b].peer] = b
        /\ task[b].op = "claim" => slot[task[b].peer] > 0
        /\ task[b].op \in HostOps => isHost[task[b].peer]
    BY DEF IInv, TaskRoles
  <2>2. task[b].peer # new /\ task[b].peer <= new
    BY <1>2, <2>1
  <2>3. conn'[task[b].peer] = conn[task[b].peer]
    BY <1>1, <2>1, <2>2 DEF TypeOK
  <2>. QED BY <1>4, <2>1, <2>2, <2>3
<1>. QED BY <1>6, <1>7, <1>8, <1>9, <1>10, <1>11 DEF IInv

\* Starting a handler changes no room state, and the peer it found has the
\* role that was tested.
LEMMA BeginInv ==
    ASSUME IInv, TypeOK', NEW c \in Conns, NEW op \in Ops, NEW senders \in SUBSET FindPeer(c),
           op = "claim" => \A p \in senders : slot[p] > 0,
           op \in HostOps => \A p \in senders : isHost[p],
           Begin(c, op, senders)
    PROVE  IInv'
<1>1. PICK p \in senders :
        task' = [task EXCEPT ![c] = [op |-> op, peer |-> p, arg |-> DefaultQuality]]
  BY DEF Begin
<1>2. p \in peers /\ p \in PeerIds /\ conn[p] = c /\ p <= nextPeerID
  <2>1. p \in peers /\ p \in PeerIds /\ conn[p] = c
    BY DEF FindPeer, IInv, TypeOK
  <2>. QED BY <2>1 DEF IInv, FreshIds, TypeOK, PeerIds
<1>3. UNCHANGED <<peers, host, nextPeerID, gamepadSlots, conn, slot, isHost, pads>>
  BY DEF Begin, roomVars, peerVars
<1>4. TaskRoles'
  <2> SUFFICES ASSUME NEW b \in Conns, task'[b].op \notin {"read", "gone"}
               PROVE  /\ task'[b].peer \in PeerIds /\ task'[b].peer <= nextPeerID
                      /\ conn[task'[b].peer] = b
                      /\ task'[b].op = "claim" => slot[task'[b].peer] > 0
                      /\ task'[b].op \in HostOps => isHost[task'[b].peer]
    BY <1>3 DEF TaskRoles
  <2>1. CASE b = c
    <3>1. task'[b].op = op /\ task'[b].peer = p
      BY <1>1, <2>1 DEF IInv, TypeOK
    <3>. QED BY <1>2, <2>1, <3>1
  <2>2. CASE b # c
    <3>1. task'[b] = task[b]
      BY <1>1, <2>2 DEF IInv, TypeOK
    <3>. QED BY <3>1 DEF IInv, TaskRoles
  <2>. QED BY <2>1, <2>2
<1>. QED BY <1>3, <1>4, LoopStepInv

\* Taking a player slot keeps the invariant: the slot is free, or none is taken.
LEMMA JoinAsPlayerInv ==
    ASSUME IInv, TypeOK', NEW c \in Conns, JoinAsPlayer(c)
    PROVE  IInv'
<1> DEFINE p == task[c].peer
<1>1. /\ p \in PeerIds /\ p <= nextPeerID /\ nextPeerID \in Int
      /\ UNCHANGED <<peers, host, nextPeerID, gamepadSlots, conn, isHost, pads>>
      /\ Done(c)
  BY DEF IInv, TaskRoles, JoinAsPlayer, roomVars, TypeOK
<1>2. CASE slot' = slot
  <2>1. TaskRoles'
    BY <1>1, <1>2, DoneRoles
  <2>. QED BY <1>1, <1>2, <2>1, LoopStepInv
<1>3. ASSUME NEW n \in FreePlayerSlots, slot' = [slot EXCEPT ![p] = n]
      PROVE  IInv'
  <2>1. n \in Int /\ n >= 2 /\ \A q \in peers : slot[q] # n
    BY RoomAssumption DEF FreePlayerSlots
  <2>2. \A q \in PeerIds : slot'[q] = IF q = p THEN n ELSE slot[q]
    BY <1>1, <1>3 DEF IInv, TypeOK
  <2>3. peers \subseteq PeerIds /\ \A q \in PeerIds : q \in Int
    BY DEF IInv, TypeOK, PeerIds
  <2>4. SlotsUnique' /\ SlotOneIsHosts'
    BY <1>1, <2>1, <2>2, <2>3 DEF IInv, SlotsUnique, SlotOneIsHosts
  <2>5. \A q \in PeerIds : slot[q] > 0 => slot'[q] > 0
    BY <2>1, <2>2
  <2>6. PadOwnersPlay'
    BY <1>1, <2>5 DEF IInv, PadOwnersPlay, TypeOK
  <2>7. FreshIds'
    BY <1>1, <2>2, <2>3 DEF IInv, FreshIds
  <2>8. TaskRoles'
    BY <1>1, <2>5, DoneRoles
  <2>. QED BY <1>1, <2>4, <2>6, <2>7, <2>8 DEF IInv, HostInv, PadAgreement
<1>. QED BY <1>2, <1>3 DEF JoinAsPlayer, TakePlayerSlot

\* Claiming a pad keeps the invariant, even for a peer already removed.
LEMMA ClaimInv ==
    ASSUME IInv, TypeOK', NEW c \in Conns, ClaimGamepad(c)
    PROVE  IInv'
<1> DEFINE p == task[c].peer
<1>1. /\ p \in PeerIds /\ p # nil /\ p <= nextPeerID /\ slot[p] > 0
      /\ nextPeerID \in Int
      /\ UNCHANGED <<peers, host, nextPeerID, conn, slot, isHost>>
      /\ Done(c)
  BY DEF IInv, TaskRoles, ClaimGamepad, TypeOK, PeerIds, nil
<1>2. TaskRoles'
  BY <1>1, DoneRoles
<1>3. CASE UNCHANGED <<gamepadSlots, pads>>
  BY <1>1, <1>2, <1>3, LoopStepInv
<1>4. ASSUME NEW s \in PadSlots, gamepadSlots[s] = nil,
             gamepadSlots' = [gamepadSlots EXCEPT ![s] = p],
             pads' = [pads EXCEPT ![p] = @ \cup {s}]
      PROVE  IInv'
  <2>1. /\ \A t \in PadSlots : gamepadSlots'[t] = IF t = s THEN p ELSE gamepadSlots[t]
        /\ \A q \in PeerIds : pads'[q] = IF q = p THEN pads[p] \cup {s} ELSE pads[q]
    BY <1>1, <1>4 DEF IInv, TypeOK
  <2>2. PadAgreement'
    <3> SUFFICES ASSUME NEW q \in peers, NEW t \in PadSlots
                 PROVE  t \in pads'[q] <=> gamepadSlots'[t] = q
      BY <1>1 DEF PadAgreement
    <3>1. q \in PeerIds /\ q # nil /\ (t \in pads[q] <=> gamepadSlots[t] = q)
      BY DEF IInv, TypeOK, PadAgreement, PeerIds, nil
    <3>. QED BY <1>4, <2>1, <3>1
  <2>3. PadOwnersPlay'
    BY <1>1, <2>1 DEF IInv, PadOwnersPlay
  <2>4. FreshIds'
    BY <1>1, <2>1 DEF IInv, FreshIds, PeerIds
  <2>. QED BY <1>1, <1>2, <2>2, <2>3, <2>4 DEF IInv, HostInv, SlotsUnique, SlotOneIsHosts
<1>. QED BY <1>3, <1>4 DEF ClaimGamepad, FreePads

\* Releasing a pad keeps the invariant: only the owner passes the test.
LEMMA ReleaseInv ==
    ASSUME IInv, TypeOK', NEW c \in Conns, NEW s \in PadSlots, ReleaseGamepad(c, s)
    PROVE  IInv'
<1> DEFINE p == task[c].peer
<1>1. /\ p \in PeerIds /\ p # nil /\ p <= nextPeerID
      /\ nextPeerID \in Int
      /\ UNCHANGED <<peers, host, nextPeerID, conn, slot, isHost>>
      /\ Done(c)
  BY DEF IInv, TaskRoles, ReleaseGamepad, TypeOK, PeerIds, nil
<1>2. TaskRoles'
  BY <1>1, DoneRoles
<1>3. CASE UNCHANGED <<gamepadSlots, pads>>
  BY <1>1, <1>2, <1>3, LoopStepInv
<1>4. ASSUME gamepadSlots[s] = p,
             gamepadSlots' = [gamepadSlots EXCEPT ![s] = nil],
             pads' = [pads EXCEPT ![p] = @ \ {s}]
      PROVE  IInv'
  <2>1. /\ \A t \in PadSlots : gamepadSlots'[t] = IF t = s THEN nil ELSE gamepadSlots[t]
        /\ \A q \in PeerIds : pads'[q] = IF q = p THEN pads[p] \ {s} ELSE pads[q]
    BY <1>1, <1>4 DEF IInv, TypeOK
  <2>2. PadAgreement'
    <3> SUFFICES ASSUME NEW q \in peers, NEW t \in PadSlots
                 PROVE  t \in pads'[q] <=> gamepadSlots'[t] = q
      BY <1>1 DEF PadAgreement
    <3>1. q \in PeerIds /\ q # nil /\ (t \in pads[q] <=> gamepadSlots[t] = q)
      BY DEF IInv, TypeOK, PadAgreement, PeerIds, nil
    <3>. QED BY <1>4, <2>1, <3>1
  <2>3. PadOwnersPlay'
    BY <1>1, <2>1 DEF IInv, PadOwnersPlay
  <2>4. FreshIds'
    BY <1>1, <2>1 DEF IInv, FreshIds, PeerIds, nil
  <2>. QED BY <1>1, <1>2, <2>2, <2>3, <2>4 DEF IInv, HostInv, SlotsUnique, SlotOneIsHosts
<1>. QED BY <1>3, <1>4 DEF ReleaseGamepad, OwnsPad

\* The steps of set_quality and the two permission handlers: roles, slots and
\* pads are not theirs to change.
LEMMA HostStepsInv ==
    ASSUME IInv, TypeOK', NEW c \in Conns,
           \/ \E v \in Requests : SetQuality(c, v)
           \/ ReadSettings(c)
           \/ RestartVideo(c)
           \/ \E d \in Devices, on \in BOOLEAN, target \in PeerIds \cup {nil} :
                 SetGuest(c, d, on, target)
    PROVE  IInv'
<1>1. UNCHANGED <<peers, host, nextPeerID, gamepadSlots, conn, slot, isHost, pads>>
  BY DEF SetQuality, ReadSettings, RestartVideo, SetGuest, roomVars, peerVars
<1>2. CASE Done(c)
  BY <1>1, <1>2, DoneRoles, LoopStepInv
<1>3. ASSUME task[c].op \in {"quality", "settings"}, NEW op \in {"settings", "restart"},
             NEW arg,
             \/ task' = [task EXCEPT ![c].op = op]
             \/ task' = [task EXCEPT ![c].op = op, ![c].arg = arg]
      PROVE  IInv'
  <2>1. /\ task'[c].op = op /\ task'[c].peer = task[c].peer
        /\ \A b \in Conns : b # c => task'[b] = task[b]
    BY <1>3 DEF IInv, TypeOK
  <2>2. TaskRoles'
    BY <1>1, <1>3, <2>1 DEF IInv, TaskRoles, HostOps
  <2>. QED BY <1>1, <2>2, LoopStepInv
<1>. QED
  BY <1>2, <1>3 DEF SetQuality, ReadSettings, RestartVideo, SetGuest

\* Every step of every handler and callback keeps the invariant.
LEMMA NextInv == IInv /\ [Next]_vars => IInv'
<1> SUFFICES ASSUME IInv, [Next]_vars PROVE IInv'
  OBVIOUS
<1>1. TypeOK'
  BY NextType DEF IInv
<1>2. ASSUME NEW c \in Conns, LeaveRoom(c) PROVE IInv'
  BY <1>1, <1>2, RemoveInv DEF LeaveRoom, FindPeer
<1>3. ASSUME NEW c \in Conns, ReadError(c) PROVE IInv'
  <2>1. \A b \in Conns : task'[b] = task[b] \/ task'[b] = Gone
    BY <1>3 DEF ReadError, IInv, TypeOK
  <2>2. CASE \E p \in FindPeer(c) : RemovePeer(p)
    BY <1>1, <2>1, <2>2, RemoveInv DEF FindPeer
  <2>3. CASE UNCHANGED <<roomVars, peerVars, captured, alone>>
    <3>1. UNCHANGED <<peers, host, nextPeerID, gamepadSlots, conn, slot, isHost, pads>>
      BY <2>3 DEF roomVars, peerVars
    <3>2. TaskRoles'
      BY <2>1, <3>1 DEF IInv, TaskRoles, Gone
    <3>. QED BY <1>1, <3>1, <3>2, LoopStepInv
  <2>. QED BY <1>3, <2>2, <2>3 DEF ReadError
<1>4. ASSUME NEW q \in PeerIds, PeerConnectionLost(q) PROVE IInv'
  BY <1>1, <1>4, RemoveInv DEF PeerConnectionLost
<1>5. ASSUME NEW c \in Conns,
             \/ BeginJoinAsPlayer(c) \/ BeginClaimGamepad(c) \/ BeginReleaseGamepad(c)
             \/ BeginSetQuality(c) \/ BeginSetGuest(c)
      PROVE IInv'
  <2>1. CASE BeginJoinAsPlayer(c)
    BY <1>1, <2>1, BeginInv DEF BeginJoinAsPlayer, Ops, HostOps
  <2>2. CASE BeginClaimGamepad(c)
    BY <1>1, <2>2, BeginInv DEF BeginClaimGamepad, Ops, HostOps
  <2>3. CASE BeginReleaseGamepad(c)
    BY <1>1, <2>3, BeginInv DEF BeginReleaseGamepad, Ops, HostOps
  <2>4. CASE BeginSetQuality(c)
    BY <1>1, <2>4, BeginInv DEF BeginSetQuality, Ops, HostOps
  <2>5. CASE BeginSetGuest(c)
    BY <1>1, <2>5, BeginInv DEF BeginSetGuest, Ops, HostOps
  <2>. QED BY <1>5, <2>1, <2>2, <2>3, <2>4, <2>5
<1>6. CASE UNCHANGED vars
  <2>1. TaskRoles'
    BY <1>6 DEF IInv, TaskRoles, vars, roomVars, peerVars
  <2>. QED BY <1>1, <1>6, <2>1, LoopStepInv DEF vars, roomVars, peerVars
<1>. QED
  BY <1>1, <1>2, <1>3, <1>4, <1>5, <1>6, JoinInv, JoinAsPlayerInv, ClaimInv, ReleaseInv, HostStepsInv
  DEF Next, Handler

-----------------------------------------------------------------------------
\* The inductive invariant holds throughout.
THEOREM Invariance == Spec => []IInv
<1>1. Init => IInv
  BY InitInv
<1>2. IInv /\ [Next]_vars => IInv'
  BY NextInv
<1>. QED BY <1>1, <1>2, PTL DEF Spec

\* However handlers and callbacks interleave, the room has exactly one host
\* while it has peers, and none otherwise.
THEOREM OneHost == Spec => []HostInv
<1>1. IInv => HostInv
  BY DEF IInv
<1>. QED BY <1>1, Invariance, PTL

\* No two peers of the room share a player slot.
THEOREM SlotsAreUnique == Spec => []SlotsUnique
<1>1. IInv => SlotsUnique
  BY DEF IInv
<1>. QED BY <1>1, Invariance, PTL

\* The room's pad table and the maps of its peers agree.
THEOREM PadsAgree == Spec => []PadAgreement
<1>1. IInv => PadAgreement
  BY DEF IInv
<1>. QED BY <1>1, Invariance, PTL

\* Pads are held by players only.
THEOREM PadsArePlayers == Spec => []PadOwnersPlay
<1>1. IInv => PadOwnersPlay
  BY DEF IInv
<1>. QED BY <1>1, Invariance, PTL

-----------------------------------------------------------------------------
\* What a step does to the pads: nothing, or it takes a free one, or it is
\* the owner's release, or it frees exactly those of a peer it removes.
LEMMA PadSteps ==
    ASSUME IInv, Next, NEW s \in PadSlots, NEW p \in peers,
           gamepadSlots[s] = p, gamepadSlots'[s] # p
    PROVE  /\ gamepadSlots'[s] = nil
           /\ p \in peers' => task[conn[p]].op = "release"
<1>1. p \in PeerIds /\ p # nil
  BY DEF IInv, TypeOK, PeerIds, nil
<1>2. ASSUME NEW q \in peers, RemovePeer(q)
      PROVE  gamepadSlots'[s] = nil /\ p \notin peers'
  <2>1. s \in pads[q] /\ gamepadSlots'[s] = nil
    BY <1>2 DEF RemovePeer
  <2>2. gamepadSlots[s] = q
    BY <2>1 DEF IInv, PadAgreement
  <2>. QED BY <1>2, <2>1, <2>2 DEF RemovePeer
<1>3. ASSUME NEW c \in Conns, ClaimGamepad(c) PROVE FALSE
  <2>1. CASE UNCHANGED gamepadSlots
    BY <2>1
  <2>2. ASSUME NEW t \in FreePads, gamepadSlots' = [gamepadSlots EXCEPT ![t] = task[c].peer]
        PROVE  FALSE
    BY <1>1, <2>2 DEF IInv, TypeOK, FreePads
  <2>. QED BY <1>3, <2>1, <2>2 DEF ClaimGamepad
<1>4. ASSUME NEW c \in Conns, NEW t \in PadSlots, ReleaseGamepad(c, t)
      PROVE  gamepadSlots'[s] = nil /\ task[conn[p]].op = "release"
  <2>1. /\ task[c].op = "release"
        /\ gamepadSlots[t] = task[c].peer
        /\ gamepadSlots' = [gamepadSlots EXCEPT ![t] = nil]
    BY <1>4 DEF ReleaseGamepad, OwnsPad
  <2>2. s = t /\ gamepadSlots'[s] = nil
    BY <2>1 DEF IInv, TypeOK
  <2>3. conn[task[c].peer] = c
    BY <2>1 DEF IInv, TaskRoles
  <2>. QED BY <2>1, <2>2, <2>3
<1>5. CASE UNCHANGED gamepadSlots
  BY <1>5
<1>. QED
  BY <1>2, <1>3, <1>4, <1>5
  DEF Next, Handler, Join, LeaveRoom, ReadError, PeerConnectionLost, BeginJoinAsPlayer,
      BeginClaimGamepad, BeginReleaseGamepad, BeginSetQuality, BeginSetGuest, Begin,
      JoinAsPlayer, SetQuality, ReadSettings, RestartVideo, SetGuest, FindPeer, roomVars

\* A peer that stays keeps its pads until it releases them itself.
THEOREM PadsAreKept == Spec => PadsStayWithOwner
<1>1. IInv /\ [Next]_vars =>
        [\A s \in PadSlots :
           LET p == gamepadSlots[s]
           IN  p \in peers /\ p \in peers' /\ gamepadSlots'[s] # p
                 => task[conn[p]].op = "release" /\ gamepadSlots'[s] = nil]_vars
  <2> SUFFICES ASSUME IInv, Next, NEW s \in PadSlots,
                      gamepadSlots[s] \in peers, gamepadSlots[s] \in peers',
                      gamepadSlots'[s] # gamepadSlots[s]
               PROVE  task[conn[gamepadSlots[s]]].op = "release" /\ gamepadSlots'[s] = nil
    OBVIOUS
  <2>. QED BY PadSteps
<1>. QED BY <1>1, Invariance, PTL DEF Spec, PadsStayWithOwner

\* Settings and permissions change only in a handler of a peer that is the
\* host, or was the host when it left.
THEOREM HostsDecide == Spec => OnlyHostsDecide
<1>1. IInv /\ [Next]_vars =>
        [<<quality, guestAllowed>>' # <<quality, guestAllowed>>
           => \E c \in Conns : task'[c] # task[c] /\ isHost[task[c].peer]]_vars
  <2> SUFFICES ASSUME IInv, Next, <<quality, guestAllowed>>' # <<quality, guestAllowed>>
               PROVE  \E c \in Conns : task'[c] # task[c] /\ isHost[task[c].peer]
    OBVIOUS
  <2>1. ASSUME NEW c \in Conns, NEW v \in Requests, SetQuality(c, v)
        PROVE  task'[c] # task[c] /\ isHost[task[c].peer]
    BY <2>1 DEF SetQuality, IInv, TypeOK, TaskRoles, HostOps
  <2>2. ASSUME NEW c \in Conns, NEW d \in Devices, NEW on \in BOOLEAN,
               NEW target \in PeerIds \cup {nil}, SetGuest(c, d, on, target)
        PROVE  task'[c] # task[c] /\ isHost[task[c].peer]
    BY <2>2 DEF SetGuest, Done, Reading, IInv, TypeOK, TaskRoles, HostOps
  <2>3. ASSUME NEW q, RemovePeer(q) PROVE UNCHANGED <<quality, guestAllowed>>
    BY <2>3 DEF RemovePeer
  <2>. QED
    BY <2>1, <2>2, <2>3
    DEF Next, Handler, Join, LeaveRoom, ReadError, PeerConnectionLost, BeginJoinAsPlayer,
        BeginClaimGamepad, BeginReleaseGamepad, BeginSetQuality, BeginSetGuest, Begin,
        JoinAsPlayer, ClaimGamepad, ReleaseGamepad, ReadSettings, RestartVideo, roomVars
<1>. QED BY <1>1, Invariance, PTL DEF Spec, OnlyHostsDecide

-----------------------------------------------------------------------------
\* Removing a peer is a Leave of the lease.
LEMMA RemoveIsLeave ==
    ASSUME IInv, NEW p \in peers, RemovePeer(p)
    PROVE  Lease!Next
<1>1. p \in PeerIds /\ (isHost[p] <=> p = host)
  BY DEF IInv, TypeOK, HostInv
<1>2. Lease!Leave(p)
  BY <1>1 DEF Lease!Leave, RemovePeer, Successors
<1>. QED BY <1>1, <1>2 DEF Lease!Next

\* The room implements the host lease: it starts empty and every step enters
\* a member, takes one out with the role passed on, or leaves both alone.
THEOREM RoomImplementsLease == Spec => ImplementsLease
<1>1. Init => Lease!Init
  BY DEF Init, Lease!Init
<1>2. IInv /\ [Next]_vars => [Lease!Next]_(Lease!leaseVars)
  <2> SUFFICES ASSUME IInv, [Next]_vars, ~ UNCHANGED <<peers, host>>
               PROVE  Lease!Next
    BY DEF Lease!leaseVars
  <2>1. ASSUME NEW c \in Conns, Join(c) PROVE Lease!Next
    <3>1. nextPeerID + 1 \in PeerIds /\ nextPeerID + 1 \notin peers
      BY <2>1, RoomAssumption DEF Join, IInv, TypeOK, FreshIds, PeerIds
    <3>2. Lease!Enter(nextPeerID + 1)
      BY <2>1, <3>1 DEF Join, Lease!Enter
    <3>. QED BY <3>1, <3>2 DEF Lease!Next
  <2>2. ASSUME NEW p \in peers, RemovePeer(p) PROVE Lease!Next
    BY <2>2, RemoveIsLeave
  <2>. QED
    BY <2>1, <2>2
    DEF Next, Handler, LeaveRoom, ReadError, PeerConnectionLost, BeginJoinAsPlayer,
        BeginClaimGamepad, BeginReleaseGamepad, BeginSetQuality, BeginSetGuest, Begin,
        JoinAsPlayer, ClaimGamepad, ReleaseGamepad, SetQuality, ReadSettings, RestartVideo,
        SetGuest, FindPeer, vars, roomVars
<1>. QED BY <1>1, <1>2, Invariance, PTL DEF Spec, ImplementsLease, Lease!Spec

-----------------------------------------------------------------------------
\* What holds while the last set_quality to be stored was alone: there is at
\* most one under way, the settings it is about to restart the capture with are
\* the room's, and with none under way the capture has them.
SettingsInv ==
    alone =>
        /\ \A b, c \in Conns : InSetQuality(b) /\ InSetQuality(c) => b = c
        /\ \A c \in Conns : task[c].op = "restart" => task[c].arg = quality
        /\ (\A c \in Conns : ~InSetQuality(c)) => captured = quality

\* Nothing has been stored yet.
LEMMA InitSettings == Init => SettingsInv
BY DEF Init, SettingsInv

\* A step that leaves the settings alone, and in which no read loop enters or
\* leaves the part between the store and the restart.
LEMMA SettingsFrame ==
    ASSUME SettingsInv, UNCHANGED <<quality, captured, alone>>,
           \A c \in Conns : task'[c] = task[c]
                             \/ (~InSetQuality(c) /\ task'[c].op \notin {"settings", "restart"})
    PROVE  SettingsInv'
BY DEF SettingsInv, InSetQuality

\* Every step keeps the settings invariant.
LEMMA NextSettings == TypeOK /\ SettingsInv /\ [Next]_vars => SettingsInv'
<1> SUFFICES ASSUME TypeOK, SettingsInv, [Next]_vars PROVE SettingsInv'
  OBVIOUS
<1>1. ASSUME NEW c \in Conns, NEW v \in Requests, SetQuality(c, v) PROVE SettingsInv'
  <2>1. /\ task[c].op = "quality" /\ task'[c].op = "settings"
        /\ \A b \in Conns : b # c => task'[b] = task[b]
        /\ alone' = (\A d \in Conns : ~InSetQuality(d))
    BY <1>1 DEF SetQuality, TypeOK
  <2>2. alone' => \A b \in Conns : b # c => task'[b].op \notin {"settings", "restart"}
    BY <2>1 DEF InSetQuality
  <2>. QED BY <2>1, <2>2 DEF SettingsInv, InSetQuality
<1>2. ASSUME NEW c \in Conns, ReadSettings(c) PROVE SettingsInv'
  <2>1. /\ UNCHANGED <<quality, captured, alone>>
        /\ task[c].op = "settings" /\ task'[c].op = "restart" /\ task'[c].arg = quality
        /\ \A b \in Conns : b # c => task'[b] = task[b]
    BY <1>2 DEF ReadSettings, roomVars, peerVars, TypeOK
  <2>. QED BY <2>1 DEF SettingsInv, InSetQuality
<1>3. ASSUME NEW c \in Conns, RestartVideo(c) PROVE SettingsInv'
  <2>1. /\ UNCHANGED <<quality, alone>>
        /\ task[c].op = "restart" /\ captured' = task[c].arg /\ task'[c].op = "read"
        /\ \A b \in Conns : b # c => task'[b] = task[b]
    BY <1>3 DEF RestartVideo, Done, Reading, roomVars, peerVars, TypeOK
  <2>. QED BY <2>1 DEF SettingsInv, InSetQuality
<1>4. ASSUME NEW c \in Conns, NEW op \in Ops \ {"settings", "restart"}, NEW senders,
             Begin(c, op, senders)
      PROVE  SettingsInv'
  <2>1. PICK p \in senders :
          task' = [task EXCEPT ![c] = [op |-> op, peer |-> p, arg |-> DefaultQuality]]
    BY <1>4 DEF Begin
  <2>2. task[c] = Reading /\ UNCHANGED <<quality, captured, alone>>
    BY <1>4 DEF Begin, roomVars, peerVars
  <2>3. \A b \in Conns : task'[b] = task[b] \/ (task[b] = Reading /\ task'[b].op = op)
    BY <2>1, <2>2 DEF TypeOK
  <2>. QED BY <2>2, <2>3, SettingsFrame DEF InSetQuality, Reading
<1>5. ASSUME NEW c \in Conns,
             \/ BeginJoinAsPlayer(c) \/ BeginClaimGamepad(c) \/ BeginReleaseGamepad(c)
             \/ BeginSetQuality(c) \/ BeginSetGuest(c)
      PROVE  SettingsInv'
  <2>1. \E op \in Ops \ {"settings", "restart"}, senders \in SUBSET peers : Begin(c, op, senders)
    BY <1>5 DEF BeginJoinAsPlayer, BeginClaimGamepad, BeginReleaseGamepad,
                BeginSetQuality, BeginSetGuest, FindPeer, Ops
  <2>. QED BY <1>4, <2>1
<1>6. ASSUME NEW c \in Conns,
             \/ JoinAsPlayer(c) \/ ClaimGamepad(c)
             \/ \E s \in PadSlots : ReleaseGamepad(c, s)
             \/ \E d \in Devices, on \in BOOLEAN, target \in PeerIds \cup {nil} :
                  SetGuest(c, d, on, target)
      PROVE  SettingsInv'
  <2>1. /\ Done(c) /\ task[c].op \notin {"settings", "restart"}
        /\ UNCHANGED <<quality, captured, alone>>
    BY <1>6 DEF JoinAsPlayer, ClaimGamepad, ReleaseGamepad, SetGuest, roomVars
  <2>2. \A b \in Conns : task'[b] = task[b] \/ (b = c /\ task'[b] = Reading)
    BY <2>1 DEF Done, TypeOK
  <2>. QED BY <2>1, <2>2, SettingsFrame DEF InSetQuality, Reading
<1>7. ASSUME NEW c \in Conns, Join(c) \/ LeaveRoom(c) PROVE SettingsInv'
  BY <1>7, SettingsFrame DEF Join, LeaveRoom, RemovePeer, FindPeer
<1>8. ASSUME NEW q \in PeerIds, PeerConnectionLost(q) PROVE SettingsInv'
  BY <1>8, SettingsFrame DEF PeerConnectionLost, RemovePeer
<1>9. ASSUME NEW c \in Conns, ReadError(c) PROVE SettingsInv'
  <2>1. \A b \in Conns : task'[b] = task[b] \/ (task[b] = Reading /\ task'[b] = Gone)
    BY <1>9 DEF ReadError, TypeOK
  <2>2. UNCHANGED <<quality, captured, alone>>
    BY <1>9 DEF ReadError, RemovePeer, FindPeer, roomVars, peerVars
  <2>. QED BY <2>1, <2>2, SettingsFrame DEF InSetQuality, Reading, Gone
<1>10. CASE UNCHANGED vars
  BY <1>10, SettingsFrame DEF vars, roomVars
<1>. QED
  BY <1>1, <1>2, <1>3, <1>5, <1>6, <1>7, <1>8, <1>9, <1>10 DEF Next, Handler

\* Unless two set_quality crossed between store and restart, the capture runs
\* with the room's settings as soon as none is under way.
THEOREM SettingsReachCapture == Spec => []SettingsApply
<1>1. Init => SettingsInv
  BY InitSettings
<1>2. IInv /\ SettingsInv /\ [Next]_vars => SettingsInv'
  BY NextSettings DEF IInv
<1>3. SettingsInv => SettingsApply
  BY DEF SettingsInv, SettingsApply
<1>. QED BY <1>1, <1>2, <1>3, Invariance, PTL DEF Spec
=============================================================================
