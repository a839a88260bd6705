--------------------------------- MODULE Room ---------------------------------
(***************************************************************************)
(* The streaming room of stream.go: its peers, its host, the gamepad slots *)
(* and the permissions, changed by one goroutine per WebSocket (the read   *)
(* loop of HandleWebSocket, which runs the handlers one after another) and *)
(* by the connection-state callbacks of pion, which call handleDisconnect  *)
(* on goroutines of their own.                                             *)
(*                                                                         *)
(* Every handler but join looks its peer up under a read lock, tests the   *)
(* peer's role with no lock held, and only then takes the write lock: two  *)
(* steps here, with any other goroutine's steps in between.  The look-up   *)
(* and the test are one step, because a peer in the room never loses a     *)
(* role and a removed peer's fields are frozen, so a test made later than  *)
(* its look-up succeeds only where the combined step could have.           *)
(*                                                                         *)
(* A peer outlives its removal from the map: goroutines keep pointers to   *)
(* it.  So the peer fields are functions on every id ever handed out, and  *)
(* `peers` is the set of ids that are in the map.                          *)
(*                                                                         *)
(* What the handlers send, and the closing of sockets and of pion's peer   *)
(* connections, is no state of the room: ConnWriter.tla has the sending    *)
(* and the sockets.  A socket that closes shows here as a read error and a *)
(* peer connection that closes or fails as a callback, each possible at    *)
(* any time.                                                               *)
(***************************************************************************)
EXTENDS Integers, FiniteSets

CONSTANTS Conns,          \* the WebSocket connections
          MaxPeers,       \* bound on nextPeerID
          Rejoin,         \* may a connection send "join" more than once?
          LastPlayer,     \* the last player slot (4 in the code)
          NumPads,        \* how many virtual gamepads there are (4 in the code)
          Devices,        \* the input devices with a guest permission
          Requests,       \* quality values a host may send, 0 for an absent one
          QualityMin,     \* the bounds a quality value is clamped to; one number
          QualityMax,     \*   stands for bitrate, framerate, width and height
          DefaultQuality, \* what the room starts with
          Flags           \* what the command line may start the capture with

ASSUME RoomAssumption ==
    /\ MaxPeers \in Nat
    /\ Rejoin \in BOOLEAN
    /\ LastPlayer \in Nat /\ LastPlayer >= 1
    /\ NumPads \in Nat
    /\ Requests \subseteq Int
    /\ QualityMin \in Int /\ QualityMax \in Int
    /\ DefaultQuality \in QualityMin .. QualityMax
    /\ Flags \subseteq Int

\* Peer ids are numbers from 1 on (peerIDFromInt), so 0 is free to be nil.
nil == 0
PeerIds == 1 .. MaxPeers
PadSlots == 0 .. NumPads - 1
PlayerSlots == 0 .. LastPlayer      \* 0 is a spectator
Qualities == QualityMin .. QualityMax

VARIABLES
    peers,         \* ids in the map Room.peers
    host,          \* Room.host, or nil
    nextPeerID,
    gamepadSlots,  \* the owner of each virtual gamepad, or nil
    guestAllowed,  \* guestKeyboard and guestMouse: the devices new guests get
    quality,       \* bitrate, framerate, width and height
    conn,          \* peer -> its connection, or nil before it joins
    slot,          \* peer -> Peer.Slot
    isHost,        \* peer -> Peer.IsHost
    enabled,       \* peer -> the devices it may use
    pads,          \* peer -> keys of its GamepadSlots map
    task,          \* connection -> where its read loop is, and for which peer
    captured,      \* the settings the capture was last started with
    alone          \* history: no other set_quality was between its store and its
                   \*   restart when the last one stored its settings

peerVars == <<conn, slot, isHost, enabled, pads>>
roomVars == <<peers, host, nextPeerID, gamepadSlots, guestAllowed, quality>>
vars == <<roomVars, peerVars, task, captured, alone>>

Ops == {"read", "joinAsPlayer", "claim", "release", "quality", "settings",
        "restart", "guest", "gone"}
Reading == [op |-> "read", peer |-> nil, arg |-> DefaultQuality]
Gone == [op |-> "gone", peer |-> nil, arg |-> DefaultQuality]

TypeOK ==
    /\ peers \subseteq PeerIds
    /\ host \in PeerIds \cup {nil}
    /\ nextPeerID \in 0 .. MaxPeers
    /\ gamepadSlots \in [PadSlots -> PeerIds \cup {nil}]
    /\ guestAllowed \subseteq Devices
    /\ quality \in Qualities
    /\ conn \in [PeerIds -> Conns \cup {nil}]
    /\ slot \in [PeerIds -> PlayerSlots]
    /\ isHost \in [PeerIds -> BOOLEAN]
    /\ enabled \in [PeerIds -> SUBSET Devices]
    /\ pads \in [PeerIds -> SUBSET PadSlots]
    /\ task \in [Conns -> [op : Ops, peer : PeerIds \cup {nil}, arg : Qualities]]
    /\ captured \in Qualities \cup Flags
    /\ alone \in BOOLEAN

\* main makes the room, whose settings NewRoom fixes, and starts the capture
\* with those of the command line, which nothing compares or clamps.
Init ==
    /\ peers = {}
    /\ host = nil
    /\ nextPeerID = 0
    /\ gamepadSlots = [s \in PadSlots |-> nil]
    /\ guestAllowed = Devices
    /\ quality = DefaultQuality
    /\ conn = [p \in PeerIds |-> nil]
    /\ slot = [p \in PeerIds |-> 0]
    /\ isHost = [p \in PeerIds |-> FALSE]
    /\ enabled = [p \in PeerIds |-> {}]
    /\ pads = [p \in PeerIds |-> {}]
    /\ task = [c \in Conns |-> Reading]
    /\ captured \in Flags
    /\ alone = FALSE

-----------------------------------------------------------------------------
\* findPeerByConn: any peer of the map with this connection.  A connection
\* that joined twice has two, and the map's iteration order decides.
FindPeer(c) == {p \in peers : conn[p] = c}

\* The read loop takes a message and finds a sender that passes the test;
\* what comes next happens under the write lock, later.
Begin(c, op, senders) ==
    /\ task[c] = Reading
    /\ \E p \in senders :
         task' = [task EXCEPT ![c] = [op |-> op, peer |-> p, arg |-> DefaultQuality]]
    /\ UNCHANGED <<roomVars, peerVars, captured, alone>>

Done(c) == task' = [task EXCEPT ![c] = Reading]

-----------------------------------------------------------------------------
\* handleJoin.  The first peer of an empty room is its host and player 1,
\* anyone else a spectator with the guests' default permissions.
Join(c) ==
    LET p == nextPeerID + 1
        first == host = nil
    IN  /\ task[c] = Reading
        /\ nextPeerID < MaxPeers
        /\ Rejoin \/ \A q \in PeerIds : conn[q] # c
        /\ nextPeerID' = p
        /\ peers' = peers \cup {p}
        /\ host' = IF first THEN p ELSE host
        /\ conn' = [conn EXCEPT ![p] = c]
        /\ slot' = [slot EXCEPT ![p] = IF first THEN 1 ELSE 0]
        /\ isHost' = [isHost EXCEPT ![p] = first]
        /\ enabled' = [enabled EXCEPT ![p] = IF first THEN Devices ELSE guestAllowed]
        /\ UNCHANGED <<pads, gamepadSlots, guestAllowed, quality, task, captured, alone>>

-----------------------------------------------------------------------------
\* handleDisconnect promotes one of the peers left in the map, if any.
SuccessorsWithLeaver(p) == peers      \* fault: promotes before it deletes
NoSuccessors(p) == {}                 \* fault: never promotes
Successors(p) == peers \ {p}

\* The part of handleDisconnect under the write lock, for a peer it found:
\* its pads are freed, it leaves the map, and if it was the host any
\* remaining peer is promoted.
RemovePeer(p) ==
    /\ peers' = peers \ {p}
    /\ gamepadSlots' = [s \in PadSlots |-> IF s \in pads[p] THEN nil ELSE gamepadSlots[s]]
    /\ \/ /\ ~isHost[p]
          /\ UNCHANGED <<host, isHost, slot, enabled>>
       \/ /\ isHost[p]
          /\ Successors(p) = {}
          /\ host' = nil
          /\ UNCHANGED <<isHost, slot, enabled>>
       \/ /\ isHost[p]
          /\ \E q \in Successors(p) :
               /\ host' = q
               /\ isHost' = [isHost EXCEPT ![q] = TRUE]
               /\ slot' = [slot EXCEPT ![q] = 1]
               /\ enabled' = [enabled EXCEPT ![q] = Devices]
    /\ UNCHANGED <<nextPeerID, guestAllowed, quality, conn, pads, captured, alone>>

\* leave_room: the read loop itself disconnects the peer, and reads on.
LeaveRoom(c) ==
    /\ task[c] = Reading
    /\ \E p \in FindPeer(c) : RemovePeer(p)
    /\ UNCHANGED task

\* A read fails: the socket was closed from either side, or its read deadline
\* passed.  handleDisconnect removes one peer, and the read loop returns.
ReadError(c) ==
    /\ task[c] = Reading
    /\ task' = [task EXCEPT ![c] = Gone]
    /\ \/ \E p \in FindPeer(c) : RemovePeer(p)
       \/ /\ FindPeer(c) = {}
          /\ UNCHANGED <<roomVars, peerVars, captured, alone>>

\* A peer connection, maybe one already replaced or of a peer already gone,
\* reports Failed or Closed; the callback disconnects whoever has its socket.
PeerConnectionLost(q) ==
    /\ \E p \in peers : conn[p] = conn[q] /\ RemovePeer(p)
    /\ UNCHANGED task

-----------------------------------------------------------------------------
\* handleJoinAsPlayer: a spectator gets the first free slot from 2 on.
BeginJoinAsPlayer(c) == Begin(c, "joinAsPlayer", {p \in FindPeer(c) : slot[p] = 0})

EveryPlayerSlot == 2 .. LastPlayer    \* fault: taken slots count as free
FreePlayerSlots == {n \in 2 .. LastPlayer : \A p \in peers : slot[p] # n}

TakePlayerSlot(p) ==
    IF FreePlayerSlots = {}
    THEN UNCHANGED <<slot, enabled>>
    ELSE \E n \in FreePlayerSlots :
           /\ \A m \in FreePlayerSlots : n <= m
           /\ slot' = [slot EXCEPT ![p] = n]
           /\ enabled' = [enabled EXCEPT ![p] = guestAllowed]

JoinAsPlayer(c) ==
    /\ task[c].op = "joinAsPlayer"
    /\ TakePlayerSlot(task[c].peer)
    /\ Done(c)
    /\ UNCHANGED <<roomVars, conn, isHost, pads, captured, alone>>

-----------------------------------------------------------------------------
\* handleClaimGamepad: a player gets the first free virtual gamepad.
BeginClaimBySpectator(c) == Begin(c, "claim", FindPeer(c))    \* fault: no role test
BeginClaimGamepad(c) == Begin(c, "claim", {p \in FindPeer(c) : slot[p] > 0})

EveryPad == PadSlots                  \* fault: claims over another owner
FreePads == {s \in PadSlots : gamepadSlots[s] = nil}

ClaimGamepad(c) ==
    LET p == task[c].peer
    IN  /\ task[c].op = "claim"
        /\ IF FreePads = {}
           THEN UNCHANGED <<gamepadSlots, pads>>
           ELSE \E s \in FreePads :
                  /\ \A t \in FreePads : s <= t
                  /\ gamepadSlots' = [gamepadSlots EXCEPT ![s] = p]
                  /\ pads' = [pads EXCEPT ![p] = @ \cup {s}]
        /\ Done(c)
        /\ UNCHANGED <<peers, host, nextPeerID, guestAllowed, quality,
                       conn, slot, isHost, enabled, captured, alone>>

\* handleReleaseGamepad: ownership is tested under the write lock.
BeginReleaseGamepad(c) == Begin(c, "release", FindPeer(c))

NoOwnerTest(p, s) == TRUE             \* fault: releases anybody's pad
OwnsPad(p, s) == gamepadSlots[s] = p

ReleaseGamepad(c, s) ==
    LET p == task[c].peer
    IN  /\ task[c].op = "release"
        /\ IF OwnsPad(p, s)
           THEN /\ gamepadSlots' = [gamepadSlots EXCEPT ![s] = nil]
                /\ pads' = [pads EXCEPT ![p] = @ \ {s}]
           ELSE UNCHANGED <<gamepadSlots, pads>>
        /\ Done(c)
        /\ UNCHANGED <<peers, host, nextPeerID, guestAllowed, quality,
                       conn, slot, isHost, enabled, captured, alone>>

-----------------------------------------------------------------------------
\* handleSetQuality.  The settings are stored under the lock; after the
\* broadcasts they are read again with no lock, and passed to RestartVideo.
InSetQuality(c) == task[c].op \in {"settings", "restart"}

BeginSetQualityByGuest(c) == Begin(c, "quality", FindPeer(c)) \* fault: no role test
BeginSetQuality(c) == Begin(c, "quality", {p \in FindPeer(c) : isHost[p]})

NoCeiling(v) == IF v < QualityMin THEN QualityMin ELSE v      \* fault: half a clamp
clampInt(v) ==
    IF v < QualityMin THEN QualityMin ELSE IF v > QualityMax THEN QualityMax ELSE v

SetQuality(c, v) ==
    /\ task[c].op = "quality"
    /\ quality' = IF v > 0 THEN clampInt(v) ELSE quality
    /\ task' = [task EXCEPT ![c].op = "settings"]
    /\ alone' = (\A d \in Conns : ~InSetQuality(d))
    /\ UNCHANGED <<peers, host, nextPeerID, gamepadSlots, guestAllowed, peerVars, captured>>

ReadNoSettings(c) ==                  \* fault: restarts with what it started from
    /\ task[c].op = "settings"
    /\ task' = [task EXCEPT ![c].op = "restart", ![c].arg = captured]
    /\ UNCHANGED <<roomVars, peerVars, captured, alone>>
ReadSettings(c) ==
    /\ task[c].op = "settings"
    /\ task' = [task EXCEPT ![c].op = "restart", ![c].arg = quality]
    /\ UNCHANGED <<roomVars, peerVars, captured, alone>>

RestartVideo(c) ==
    /\ task[c].op = "restart"
    /\ captured' = task[c].arg
    /\ Done(c)
    /\ UNCHANGED <<roomVars, peerVars, alone>>

-----------------------------------------------------------------------------
\* handleSetGuestKeyboard and handleSetGuestMouse.  The default changes
\* whatever the target is; an absent or unknown target is told apart.
BeginSetGuest(c) == Begin(c, "guest", {p \in FindPeer(c) : isHost[p]})

\* The peers a permission message changes: the named one, unless it is the
\* host or not in the room, or with no name every guest who plays.
Addressed(target) ==
    IF target = nil
    THEN {p \in peers : ~isHost[p] /\ slot[p] > 0}
    ELSE {p \in peers : p = target /\ ~isHost[p]}

Permit(devices, d, on) == IF on THEN devices \cup {d} ELSE devices \ {d}

SetGuest(c, d, on, target) ==
    /\ task[c].op = "guest"
    /\ guestAllowed' = Permit(guestAllowed, d, on)
    /\ enabled' = [p \in PeerIds |->
                     IF p \in Addressed(target) THEN Permit(enabled[p], d, on) ELSE enabled[p]]
    /\ Done(c)
    /\ UNCHANGED <<peers, host, nextPeerID, gamepadSlots, quality,
                   conn, slot, isHost, pads, captured, alone>>

-----------------------------------------------------------------------------
Handler(c) ==
    \/ Join(c)
    \/ LeaveRoom(c)
    \/ ReadError(c)
    \/ BeginJoinAsPlayer(c)
    \/ JoinAsPlayer(c)
    \/ BeginClaimGamepad(c)
    \/ ClaimGamepad(c)
    \/ BeginReleaseGamepad(c)
    \/ \E s \in PadSlots : ReleaseGamepad(c, s)
    \/ BeginSetQuality(c)
    \/ \E v \in Requests : SetQuality(c, v)
    \/ ReadSettings(c)
    \/ RestartVideo(c)
    \/ BeginSetGuest(c)
    \/ \E d \in Devices, on \in BOOLEAN, target \in PeerIds \cup {nil} :
         SetGuest(c, d, on, target)

Next ==
    \/ \E c \in Conns : Handler(c)
    \/ \E q \in PeerIds : PeerConnectionLost(q)

Spec == Init /\ [][Next]_vars
-----------------------------------------------------------------------------
\* The room has a host exactly while it has peers, the host is one of them,
\* and nobody else in it believes to be host (handleJoin and the promotion in
\* handleDisconnect, from any two goroutines, in any order).
HostInv ==
    /\ (host = nil) <=> (peers = {})
    /\ host # nil => host \in peers
    /\ \A p \in peers : isHost[p] <=> p = host

\* Two peers of the room never play in one slot, whichever of joining,
\* joining as a player and being promoted gave it to them.
SlotsUnique ==
    \A p, q \in peers : p # q /\ slot[p] # 0 => slot[p] # slot[q]

\* The room's table of gamepad slots and the peers' own maps agree, so a
\* leaving peer frees what it holds and nothing of anybody else.
PadAgreement ==
    \A p \in peers, s \in PadSlots : s \in pads[p] <=> gamepadSlots[s] = p

\* Only a player ever holds a virtual gamepad: a spectator's input is never
\* accepted, and its pad would be lost to the players.
PadOwnersPlay == \A s \in PadSlots : gamepadSlots[s] # nil => slot[gamepadSlots[s]] > 0

\* Once no set_quality is under way, the capture runs with the settings the
\* room shows, which the last one to be stored left there, whatever it was
\* started with and whoever was host before: unless that one was stored while
\* another, of a host that has left or of a second join of the same tab, was
\* still between its store and its restart (stream.go, 727, with no lock).
SettingsApply ==
    alone /\ (\A c \in Conns : ~InSetQuality(c)) => captured = quality

\* A peer that stays in the room loses a gamepad only by releasing it: no
\* claim, disconnect or release of another connection takes it away.
PadsStayWithOwner ==
    [][\A s \in PadSlots :
         LET p == gamepadSlots[s]
         IN  p \in peers /\ p \in peers' /\ gamepadSlots'[s] # p
               => task[conn[p]].op = "release" /\ gamepadSlots'[s] = nil]_vars

\* A guest never acts with the host's rights: settings and permissions change
\* only in a step of a handler whose peer is, or was when it left, the host.
\* (The comments of stream.go, lines 55 and 61, promise the host alone.)
OnlyHostsDecide ==
    [][<<quality, guestAllowed>>' # <<quality, guestAllowed>>
         => \E c \in Conns : task'[c] # task[c] /\ isHost[task[c].peer]]_vars

\* What the room promises about its host, step by step.
Lease == INSTANCE HostLease WITH Members <- PeerIds, None <- nil, members <- peers
ImplementsLease == Lease!Spec

-----------------------------------------------------------------------------
\* The host always plays in slot 1 ("Host is always Player 1", stream.go:275).
HostIsPlayerOne == host # nil => slot[host] = 1

\* A peer that disconnects gives its gamepads back ("Release gamepad slots",
\* stream.go:519): no slot belongs to a peer that is not in the room.
DisconnectReleasesPads == \A s \in PadSlots : gamepadSlots[s] \in peers \cup {nil}
=============================================================================
