--------------------------------- MODULE Input ---------------------------------
(***************************************************************************)
(* The room of Room.tla together with what hangs on it: the browser tabs,  *)
(* which learn their role, their permissions and their gamepad slots from  *)
(* messages on the way, and the input their data channels deliver, which   *)
(* handleInputMessage of stream.go tests with no lock held and hands to    *)
(* the virtual devices of InputDevices.tla.                                *)
(*                                                                         *)
(* A tab is the other end of one WebSocket: one session of play.js.  What  *)
(* it and the server have sent each other and the other has not yet        *)
(* handled is two queues; a socket that closes loses both.  The messages   *)
(* for the gamepads and those that carry the tab's role and permissions    *)
(* are in the queues; the other requests need no queue, since the tab may  *)
(* make them at any time.  Session.tla has the rest of the signaling.      *)
(*                                                                         *)
(* A read loop builds an answer from the peer's fields after it unlocked   *)
(* the room, and sends it later, while permission messages are sent under  *)
(* the lock and the news of a promotion by the goroutine that removed the  *)
(* host: one tab's messages may overtake each other.                       *)
(*                                                                         *)
(* The quality handlers of Room touch nothing that this module reads and   *)
(* are left out of its next-state relation; a connection joins once.       *)
(***************************************************************************)
EXTENDS Room, InputDevices

CONSTANTS Gamepads,        \* the gamepads of a tab, by their browser index
          InputAvailable,  \* did NewInput succeed?
          Unmakeable,      \* the pads that createGamepad fails for
          Channels,        \* the data channels that are open at once
          MaxSent,         \* bound on a tab's unread gamepad messages
          MaxReplies       \* bound on a tab's unhandled messages

ASSUME InputAssumption ==
    /\ ~Rejoin
    /\ nil \notin Conns
    /\ InputAvailable \in BOOLEAN
    /\ Unmakeable \subseteq PadSlots
    /\ MaxSent \in Nat
    /\ MaxReplies \in Nat

VARIABLES
    owes,      \* connection -> the answer its read loop is working on
    announce,  \* hosts that left, and whose successor is yet to be told
    sent,      \* connection -> gamepad messages the server has not read
    replies,   \* connection -> messages the tab has not handled
    tab,       \* connection -> what the tab believes
    gamepads,  \* virtual gamepads that have a device (Input.gamepads)
    gate,      \* data channel -> the message that has passed its tests
    doubled,   \* history: tabs that claimed again before an answer
    crossed,   \* history: peers changed while news of them was on its way
    late       \* history: channel, peer -> rights used on it since they were lost

serverVars == <<owes, announce, gamepads>>
wireVars == <<sent, replies, tab, doubled>>
allVars == <<vars, serverVars, wireVars, gate, crossed, late>>

none == -1
NoMessage == [peer |-> nil, right |-> none]
Rights == Devices \cup PadSlots

\* What a read loop works on: nothing, an answer that is to be built from the
\* peer's fields, one with some of them still to read, a claim, a pad with
\* maybe no device yet, or a message.
Idle == [kind |-> "idle"]
ToBuild(kind, n) == [kind |-> kind, slot |-> n]
Partly(n, devices, unread) ==
    [kind |-> "partly", slot |-> n, enabled |-> devices, unread |-> unread]
Claim(b) == [kind |-> "claim", gamepad |-> b]
Ensure(b, s) == [kind |-> "ensure", gamepad |-> b, pad |-> s]
Release(s) == [kind |-> "release", pad |-> s]

\* The messages a tab handles here.  room_created, room_joined, reconnected and
\* promoted_to_player all carry the role and the permissions.
Role(n, devices) == [kind |-> "role", slot |-> n, enabled |-> devices]
Permission(d, on) == [kind |-> "permission", device |-> d, on |-> on]
Claimed(b, s) == [kind |-> "claimed", gamepad |-> b, pad |-> s]
Released(s) == [kind |-> "released", pad |-> s]

Messages ==
    {Role(n, e) : n \in PlayerSlots, e \in SUBSET Devices}
    \cup {Permission(d, on) : d \in Devices, on \in BOOLEAN}
    \cup {Claimed(b, s) : b \in Gamepads, s \in PadSlots}
    \cup {Released(s) : s \in PadSlots}
PadRequests == {Claim(b) : b \in Gamepads} \cup {Release(s) : s \in PadSlots}
Work ==
    Messages \cup PadRequests \cup {Idle}
    \cup {ToBuild(k, n) : k \in {"welcome", "promoted", "reconnected"}, n \in {0, 1}}
    \cup {Partly(n, e, u) : n \in PlayerSlots, e \in SUBSET Devices, u \in SUBSET Devices}
    \cup {Ensure(b, s) : b \in Gamepads, s \in PadSlots}

InputTypeOK ==
    /\ TypeOK
    /\ owes \in [Conns -> Work]
    /\ announce \subseteq PeerIds
    /\ \A c \in Conns :
         /\ \A i \in DOMAIN sent[c] : sent[c][i] \in PadRequests
         /\ \A i \in DOMAIN replies[c] : replies[c][i] \in Messages
    /\ tab \in [Conns -> [slot : PlayerSlots, enabled : SUBSET Devices,
                          gamepads : [Gamepads -> PadSlots \cup {none}]]]
    /\ gamepads \subseteq PadSlots
    /\ gate \in [Channels -> [peer : PeerIds, right : Rights] \cup {NoMessage}]
    /\ doubled \subseteq Conns /\ crossed \subseteq PeerIds
    /\ late \in [Channels -> [PeerIds -> SUBSET Rights]]

FreshTab == [slot |-> 0, enabled |-> {}, gamepads |-> [b \in Gamepads |-> none]]

InputInit ==
    /\ Init
    /\ owes = [c \in Conns |-> Idle]
    /\ announce = {}
    /\ sent = [c \in Conns |-> <<>>]
    /\ replies = [c \in Conns |-> <<>>]
    /\ tab = [c \in Conns |-> FreshTab]
    /\ gamepads = {}
    /\ gate = [ch \in Channels |-> NoMessage]
    /\ doubled = {} /\ crossed = {}
    /\ late = [ch \in Channels |-> [p \in PeerIds |-> {}]]

\* The peer of a connection that joined; it may have left the room.
PeerOf(c) == CHOOSE p \in PeerIds : conn[p] = c
InRoom(c) == \E p \in peers : conn[p] = c

Works(c, work) == owes' = [owes EXCEPT ![c] = work]
HasSpace(c) == Len(replies[c]) < MaxReplies

-----------------------------------------------------------------------------
\* The read loop and the room.  Only a loop with no answer to send reads on.

JoinAndAnswer(c) ==
    /\ owes[c] = Idle
    /\ Join(c)
    /\ Works(c, ToBuild("welcome", IF host = nil THEN 1 ELSE 0))
    /\ UNCHANGED <<announce, gamepads, wireVars, gate>>

ReadJoinAsPlayer(c) ==
    /\ owes[c] = Idle
    /\ BeginJoinAsPlayer(c)
    /\ UNCHANGED <<serverVars, wireVars, gate>>

JoinAsPlayerAndAnswer(c) ==
    /\ JoinAsPlayer(c)
    /\ Works(c, ToBuild("promoted", 0))
    /\ UNCHANGED <<announce, gamepads, wireVars, gate>>

\* handleReconnect, as far as it answers: the new peer connection is set up
\* by another goroutine, and closing the old one may cost the peer its place
\* (PeerConnectionLost).
ReadReconnect(c) ==
    /\ owes[c] = Idle
    /\ task[c] = Reading
    /\ InRoom(c)
    /\ Works(c, ToBuild("reconnected", 0))
    /\ UNCHANGED <<vars, announce, gamepads, wireVars, gate>>

\* The answer takes the peer's fields as they are, one after the other and with
\* no lock: first the slot, which only the welcome has from the join, then the
\* permissions.  A spectator who got no slot is told so instead.
Answer(n, devices, unread) ==
    IF unread = {} THEN Role(n, devices) ELSE Partly(n, devices, unread)

BuildAnswer(c) ==
    LET n == IF owes[c].kind = "welcome" THEN owes[c].slot ELSE slot[PeerOf(c)]
    IN  /\ owes[c].kind \in {"welcome", "promoted", "reconnected"}
        /\ Works(c, IF owes[c].kind = "promoted" /\ n = 0 THEN Idle ELSE Answer(n, {}, Devices))
        /\ UNCHANGED <<vars, announce, gamepads, wireVars, gate>>

ReadPermission(c, d) ==
    LET known == owes[c].enabled \cup (enabled[PeerOf(c)] \cap {d})
    IN  /\ owes[c].kind = "partly" /\ d \in owes[c].unread
        /\ Works(c, Answer(owes[c].slot, known, owes[c].unread \ {d}))
        /\ UNCHANGED <<vars, announce, gamepads, wireVars, gate>>

\* sendJSON of what the loop owes.  A connection whose peer was removed is
\* closed, or about to be, and takes nothing.
SendAnswer(c) ==
    /\ task[c] = Reading
    /\ owes[c] \in Messages
    /\ Works(c, Idle)
    /\ IF InRoom(c)
       THEN HasSpace(c) /\ replies' = [replies EXCEPT ![c] = Append(@, owes[c])]
       ELSE UNCHANGED replies
    /\ UNCHANGED <<vars, announce, gamepads, sent, tab, doubled, gate>>

\* handleSetGuestKeyboard and handleSetGuestMouse tell each peer they change
\* while they hold the lock.
ReadSetGuest(c) ==
    /\ owes[c] = Idle
    /\ BeginSetGuest(c)
    /\ UNCHANGED <<serverVars, wireVars, gate>>

SetGuestAndTell(c, d, on, target) ==
    LET told == {conn[p] : p \in Addressed(target)}
    IN  /\ SetGuest(c, d, on, target)
        /\ \A t \in told : HasSpace(t)
        /\ replies' = [t \in Conns |-> IF t \in told THEN Append(replies[t], Permission(d, on))
                                       ELSE replies[t]]
        /\ UNCHANGED <<serverVars, sent, tab, doubled, gate>>

-----------------------------------------------------------------------------
\* A peer leaves, whoever noticed: its socket is closed, and what was under
\* way on it is lost; its tab ends the session and starts from nothing.  The
\* goroutine that promoted a successor has yet to tell it.
Close(leavers) ==
    LET Cut(f, fresh) == [c \in Conns |-> IF \E p \in leavers : conn[p] = c THEN fresh ELSE f[c]]
    IN  /\ sent' = Cut(sent, <<>>)
        /\ replies' = Cut(replies, <<>>)
        /\ tab' = Cut(tab, FreshTab)
        /\ announce' = announce \cup {p \in leavers : isHost[p] /\ peers' # {}}
        /\ UNCHANGED <<owes, gamepads, doubled, gate>>

Depart(c) ==
    /\ owes[c] = Idle
    /\ LeaveRoom(c) \/ ReadError(c)
    /\ Close(peers \ peers')

LosePeerConnection(q) ==
    /\ PeerConnectionLost(q)
    /\ Close(peers \ peers')

\* The last part of handleDisconnect, under a read lock: if the leaver was
\* host, whoever is host now is told that it plays in slot 1 and may do all.
TellNobody(l) ==                      \* fault: the promotion is not told
    /\ l \in announce
    /\ announce' = announce \ {l}
    /\ UNCHANGED <<vars, owes, gamepads, wireVars, gate>>
TellSuccessor(l) ==
    LET told == {conn[p] : p \in {q \in peers : isHost[q]}}
    IN  /\ l \in announce
        /\ announce' = announce \ {l}
        /\ \A t \in told : HasSpace(t)
        /\ replies' = [t \in Conns |-> IF t \in told THEN Append(replies[t], Role(1, Devices))
                                       ELSE replies[t]]
        /\ UNCHANGED <<vars, owes, gamepads, sent, tab, doubled, gate>>

-----------------------------------------------------------------------------
\* Virtual gamepads: the claim and the release of one.

\* The loop reads the next gamepad message of its tab.
ReadClaim(c) ==
    /\ owes[c] = Idle
    /\ sent[c] # <<>> /\ Head(sent[c]).kind = "claim"
    /\ BeginClaimGamepad(c)
    /\ Works(c, Head(sent[c]))
    /\ sent' = [sent EXCEPT ![c] = Tail(@)]
    /\ UNCHANGED <<announce, gamepads, replies, tab, doubled, gate>>

ReadRelease(c) ==
    /\ owes[c] = Idle
    /\ sent[c] # <<>> /\ Head(sent[c]).kind = "release"
    /\ BeginReleaseGamepad(c)
    /\ Works(c, Released(Head(sent[c]).pad))
    /\ sent' = [sent EXCEPT ![c] = Tail(@)]
    /\ UNCHANGED <<announce, gamepads, replies, tab, doubled, gate>>

\* With every pad taken the tab gets an error, which it only shows.
ClaimAndAnswer(c) ==
    /\ ClaimGamepad(c)
    /\ IF FreePads = {} THEN Works(c, Idle)
       ELSE \E s \in FreePads :
              /\ gamepadSlots'[s] # nil
              /\ Works(c, Ensure(owes[c].gamepad, s))
    /\ UNCHANGED <<announce, gamepads, wireVars, gate>>

ReleaseAndAnswer(c) ==
    /\ task[c].op = "release"
    /\ ReleaseGamepad(c, owes[c].pad)
    /\ UNCHANGED <<serverVars, wireVars, gate>>

\* EnsureGamepad: the device is made once and stays; where making it fails
\* the tab is answered all the same.
EnsureGamepad(c) ==
    LET s == owes[c].pad
    IN  /\ owes[c].kind = "ensure"
        /\ Works(c, Claimed(owes[c].gamepad, s))
        /\ gamepads' = IF InputAvailable /\ s \notin Unmakeable THEN gamepads \cup {s}
                       ELSE gamepads
        /\ UNCHANGED <<vars, announce, wireVars, gate>>

\* The tab polls its gamepads: one that has no pad is claimed for, at each
\* poll until the answer is there.
Outstanding(c, b) ==
    \/ owes[c].kind \in {"claim", "ensure", "claimed"} /\ owes[c].gamepad = b
    \/ \E i \in DOMAIN sent[c] : sent[c][i] = Claim(b)
    \/ \E i \in DOMAIN replies[c] : replies[c][i].kind = "claimed" /\ replies[c][i].gamepad = b

PollClaims(c, b) ==
    /\ InRoom(c)
    /\ tab[c].slot > 0
    /\ tab[c].gamepads[b] = none
    /\ Len(sent[c]) < MaxSent
    /\ sent' = [sent EXCEPT ![c] = Append(@, Claim(b))]
    /\ doubled' = IF Outstanding(c, b) THEN doubled \cup {c} ELSE doubled
    /\ UNCHANGED <<vars, serverVars, replies, tab, gate>>

\* A gamepad is unplugged: its pad is released, and forgotten at once.
ForgetFirst(c, b) ==                  \* fault: forgets the pad, then releases it
    /\ tab[c].gamepads[b] # none
    /\ Len(sent[c]) < MaxSent
    /\ tab' = [tab EXCEPT ![c].gamepads[b] = none]
    /\ sent' = [sent EXCEPT ![c] = Append(@, Release(tab'[c].gamepads[b]))]
    /\ UNCHANGED <<vars, serverVars, replies, doubled, gate>>
ForgetSilently(c, b) ==               \* fault: forgets the pad, and never releases it
    /\ tab[c].gamepads[b] # none
    /\ tab' = [tab EXCEPT ![c].gamepads[b] = none]
    /\ UNCHANGED <<vars, serverVars, sent, replies, doubled, gate>>
Unplug(c, b) ==
    /\ tab[c].gamepads[b] # none
    /\ Len(sent[c]) < MaxSent
    /\ sent' = [sent EXCEPT ![c] = Append(@, Release(tab[c].gamepads[b]))]
    /\ tab' = [tab EXCEPT ![c].gamepads[b] = none]
    /\ UNCHANGED <<vars, serverVars, replies, doubled, gate>>

\* The tab handles a message: handleSignalingMessage.
Learn(c) ==
    LET m == Head(replies[c])
        t == tab[c]
    IN  /\ replies[c] # <<>>
        /\ replies' = [replies EXCEPT ![c] = Tail(@)]
        /\ tab' = [tab EXCEPT ![c] =
             CASE m.kind = "role" -> [t EXCEPT !.slot = m.slot, !.enabled = m.enabled]
               [] m.kind = "permission" -> [t EXCEPT !.enabled = Permit(@, m.device, m.on)]
               [] m.kind = "claimed" -> [t EXCEPT !.gamepads[m.gamepad] = m.pad]
               [] m.kind = "released" ->
                    [t EXCEPT !.gamepads = [b \in Gamepads |-> IF @[b] = m.pad THEN none ELSE @[b]]]]
        /\ UNCHANGED <<vars, serverVars, sent, doubled, gate>>

-----------------------------------------------------------------------------
\* handleInputMessage, on the goroutine of a data channel, which handles one
\* message after another: first the tests, then the injection.  Both read the
\* peer's fields with no lock.  A peer may have several channels open, those
\* of the peer connections that an earlier set-up left behind among them; the
\* tests do not look at the channel, so each may carry any peer's messages.
\* Nothing here asks whether the peer is still in the room.

Pass(ch, p, right) ==
    /\ InputAvailable /\ gate[ch] = NoMessage /\ conn[p] # nil
    /\ gate' = [gate EXCEPT ![ch] = [peer |-> p, right |-> right]]
    /\ UNCHANGED <<vars, serverVars, wireVars>>

\* Keyboard and mouse: the permission, then the role.
NoPermissionTest(ch, p, d) == Pass(ch, p, d)  \* fault: any player may use the device
TestPermission(ch, p, d) == d \in enabled[p] /\ Pass(ch, p, d)

\* Gamepad: the role, then the owner of the pad, under a read lock.
TestOwner(ch, p, s) == slot[p] > 0 /\ gamepadSlots[s] = p /\ Pass(ch, p, s)

\* The message is injected, or dropped: a spectator's, and a pad's that has
\* no device.  (A role is never lost, so the test of the role may as well be
\* here.)
Finish(ch) ==
    /\ gate[ch] # NoMessage
    /\ gate' = [gate EXCEPT ![ch] = NoMessage]
    /\ UNCHANGED <<vars, serverVars, wireVars>>

\* In this step p uses the right r on the channel.
Uses(ch, p, r) ==
    /\ gate[ch] = [peer |-> p, right |-> r] /\ gate'[ch] = NoMessage
    /\ slot[p] > 0
    /\ r \in PadSlots => r \in gamepads

-----------------------------------------------------------------------------
\* The histories of a step.

\* What p may do, as handleInputMessage reads it: as a player, use the devices
\* it has the permission for; and use the pads it owns.  A peer that leaves the
\* room loses its pads; its role and its permissions nobody takes back, and
\* what ends them is that its channels close.
RightsOf(p) ==
    (IF slot[p] > 0 THEN enabled[p] ELSE {}) \cup {s \in PadSlots : gamepadSlots[s] = p}

\* There is news of p's role that was read, or promised, and not yet sent.
NewsOnItsWay(p) ==
    \/ owes[conn[p]].kind \in {"welcome", "partly", "role"}
    \/ isHost[p] /\ announce # {}

Histories ==
    /\ crossed' = crossed \cup {p \in peers : NewsOnItsWay(p)
                                  /\ <<slot[p], enabled[p]>>' # <<slot[p], enabled[p]>>}
    /\ late' = [ch \in Channels |-> [p \in PeerIds |->
                  (late[ch][p] \cup {r \in Rights : Uses(ch, p, r)}) \ RightsOf(p)']]

ReadLoop(c) ==
    \/ JoinAndAnswer(c)
    \/ ReadJoinAsPlayer(c)
    \/ JoinAsPlayerAndAnswer(c)
    \/ ReadReconnect(c)
    \/ BuildAnswer(c)
    \/ \E d \in Devices : ReadPermission(c, d)
    \/ SendAnswer(c)
    \/ ReadSetGuest(c)
    \/ \E d \in Devices, on \in BOOLEAN, target \in PeerIds \cup {nil} :
         SetGuestAndTell(c, d, on, target)
    \/ Depart(c)
    \/ ReadClaim(c)
    \/ ClaimAndAnswer(c)
    \/ EnsureGamepad(c)
    \/ ReadRelease(c)
    \/ ReleaseAndAnswer(c)

Tab(c) ==
    \/ \E b \in Gamepads : PollClaims(c, b) \/ Unplug(c, b)
    \/ Learn(c)

DataChannel(ch) ==
    \/ \E p \in PeerIds : \/ \E d \in Devices : TestPermission(ch, p, d)
                         \/ \E s \in PadSlots : TestOwner(ch, p, s)
    \/ Finish(ch)

InputNext ==
    /\ \/ \E c \in Conns : ReadLoop(c) \/ Tab(c)
       \/ \E p \in PeerIds : LosePeerConnection(p) \/ TellSuccessor(p)
       \/ \E ch \in Channels : DataChannel(ch)
    /\ Histories

InputSpec == InputInit /\ [][InputNext]_allVars
-----------------------------------------------------------------------------
\* While its tab thinks a gamepad has a pad, the pad is that peer's in the
\* room's table and has a device, unless making it failed: the tab never
\* drives a pad of someone else, and its input is not dropped, whatever
\* claims, releases and departures cross on the way.
TabsOwnTheirPads ==
    \A p \in peers, b \in Gamepads :
        LET s == tab[conn[p]].gamepads[b]
        IN  s # none => gamepadSlots[s] = p /\ (InputAvailable => s \in gamepads \cup Unmakeable)

\* A pad that belongs to a peer in the room is one its tab knows of, or will
\* when it has handled its messages, or is releasing; but a tab whose poll
\* claimed for one gamepad twice before the first answer came may be given a
\* pad that nobody uses and only its leaving frees (play.js, 922 to 932).
OnlyDoubleClaimsStrand ==
    \A p \in peers, s \in PadSlots :
        LET c == conn[p]
        IN  gamepadSlots[s] = p /\ c \notin doubled =>
              \/ \E b \in Gamepads : tab[c].gamepads[b] = s
              \/ \E i \in DOMAIN replies[c] :
                   replies[c][i].kind = "claimed" /\ replies[c][i].pad = s
              \/ owes[c].kind \in {"ensure", "claimed", "released"} /\ owes[c].pad = s
              \/ \E i \in DOMAIN sent[c] : sent[c][i] = Release(s)

\* When all that was sent has been handled, a tab believes what the room says
\* of its peer: a player's tab sends input, a spectator's offers to join, and
\* neither sends what is refused.  It fails only where a change of the peer
\* crossed news of it on its way: read from the peer, or owed to a new host,
\* and not yet sent (stream.go, 313, 558 and 609, which send with no lock).
OnlyCrossedNewsMisleads ==
    \A p \in peers \ crossed :
        LET c == conn[p]
        IN  owes[c] = Idle /\ replies[c] = <<>> /\ announce = {}
              => tab[c].slot = slot[p] /\ tab[c].enabled = enabled[p]

\* A right that a peer lost is used at most once more on each data channel, by
\* the message there that had passed the tests: a permission the host takes
\* back, a pad released or lost by leaving, and a guest's default on becoming a
\* player all bite at once, whichever of the peer's channels the input comes
\* by.  Leaving takes away the pads alone (see RightsOf).
LostRightsEnd ==
    [][\A ch \in Channels, p \in PeerIds, r \in Rights :
         Uses(ch, p, r) /\ r \notin RightsOf(p) => r \notin late[ch][p]]_allVars

\* Whatever is injected, by a guest's keyboard or mouse or on a pad, is taken
\* by the device it is written to: every event has a type and a code that the
\* device declared when it was created, and a value in the declared range.
\* The kernel drops any other without a word (input_linux.go, the create
\* functions against the handlers).
InjectionsDeclared ==
    \A ch \in Channels :
        /\ gate[ch].right \in Devices => DesktopWritesDeclared
        /\ gate[ch].right \in PadSlots => PadWritesDeclared

\* Each physical key the client knows reaches the host as a key of its own:
\* the client's table, vkMap and the keyboard's range of codes agree.  Two
\* keys of one code would release each other, and the host could not tell
\* them apart.
KeysReachTheHost ==
    \A ch \in Channels : gate[ch].right \in Devices => KeyTablesAgree
=============================================================================
