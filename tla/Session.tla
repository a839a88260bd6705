------------------------------- MODULE Session -------------------------------
(***************************************************************************)
(* One browser tab and the server: the signaling socket, the peer it joins *)
(* the room with, and the peer connections both ends make for it.          *)
(*                                                                         *)
(* A session is one WebSocket.  The tab (web/play.js) is one thread: an    *)
(* action is one event it handles.  On the server (stream.go) a session    *)
(* has a read loop, its peer's set-ups of peer connections run on          *)
(* goroutines of their own, and so do the connection-state callbacks of    *)
(* pion, which call handleDisconnect: when a peer connection fails, and    *)
(* after anybody has closed it.                                            *)
(*                                                                         *)
(* Peer connections of the server are numbered; an offer and its answer    *)
(* are tagged with that number, which the messages themselves do not       *)
(* carry.  Candidates are left out: they are applied to whatever peer      *)
(* connection there is, as answers are.  Of the room a session needs only  *)
(* whether its peer is in it (Room.tla has the rest).                      *)
(*                                                                         *)
(* The button Connect is the one way to connect.  (The Enter key in the    *)
(* name field connects a second time while the first is under way.)        *)
(***************************************************************************)
EXTENDS Naturals, Sequences

CONSTANTS MaxSessions,    \* bound on the sessions of the tab
          MaxReconnects,  \* bound on the "reconnect" messages of the tab
          MaxRestarts,    \* bound on its "request_ice_restart" messages
          MaxRetries      \* MAX_ICE_RETRIES (10 in the code)

ASSUME SessionAssumption ==
    /\ MaxSessions \in Nat \ {0} /\ MaxReconnects \in Nat
    /\ MaxRestarts \in Nat /\ MaxRetries \in Nat

Sessions == 1 .. MaxSessions
PCs == 1 .. MaxSessions + MaxReconnects     \* one per join and per reconnect
none == 0

VARIABLES
    \* the tab
    ui,         \* the start overlay or the stream
    loading,    \* is the button disabled?
    ws,         \* this.ws
    sock,       \* session -> readyState; "none" before, "closed" once its event came
    pc,         \* is there a this.pc?
    described,  \* the offer it has answered last, or none
    ice,        \* has it connected?
    ops,        \* the offers in its operations chain
    cursor,     \* where processPendingMessages is, or 0
    pending,    \* this.pendingMessages: the offers
    timer,      \* is the iceConnectionTimer armed?
    retries,    \* iceRetryCount
    reconnects, \* how many "reconnect" it has sent
    restarts,   \* how many "request_ice_restart"
    poll,       \* has it asked for statistics that will show a freeze?
    stray,      \* (history) was a this.pc replaced that was not closed?
    late,       \* (history) did a freeze show when there was no this.pc?
    \* the messages under way
    up, down,
    \* the server
    conn,       \* session -> the server's end of the socket
    loop,       \* session -> where its read loop is
    member,     \* the sessions whose peer is in the room
    tearing,    \* those whose handleDisconnect has yet to close things
    starting,   \* session -> set-ups with no peer connection yet
    peerPC,     \* session -> Peer.pc
    owner,      \* peer connection -> its session
    stage,      \* peer connection -> how far its set-up is
    open,       \* the peer connections that are not closed
    callback,   \* those with a Failed or Closed callback to run
    offering,   \* those in have-local-offer
    remote,     \* peer connection -> the offer its answer is for
    raced       \* (history) the sessions with a reconnect or a departure
                \*   during a set-up, or a departure during a reconnect

page == <<ui, loading, ws, sock>>
pcVars == <<pc, described, ice, ops, cursor, stray>>
tries == <<retries, reconnects, restarts>>
health == <<timer, tries, poll, late>>
tabVars == <<page, pcVars, pending, health>>
messages == <<up, down>>
roster == <<member, tearing>>
roomVars == <<conn, loop, roster>>
setups == <<starting, peerPC, owner, stage>>
pion == <<open, callback, offering, remote>>
serverVars == <<roomVars, setups, pion, raced>>
vars == <<tabVars, messages, serverVars>>

Stages == {"unused", "created", "watched", "described", "offered", "aborted", "unwatched"}
Ended == {"offered", "aborted", "unwatched"}    \* the set-up has returned
\* A message; an "sdp" is an offer down and an answer up.
Plain(type) == <<type, none>>
SDP(g) == <<"sdp", g>>
SDPs == {"sdp"} \X PCs
Up == {Plain(t) : t \in {"join", "leave", "reconnect", "restart"}} \cup SDPs
Down == {Plain(t) : t \in {"welcome", "reconnected"}} \cup SDPs

TypeOK ==
    /\ ui \in {"overlay", "stream"} /\ loading \in BOOLEAN
    /\ ws \in Sessions \cup {none}
    /\ sock \in [Sessions -> {"none", "connecting", "open", "closing", "closed"}]
    /\ pc \in BOOLEAN /\ described \in PCs \cup {none} /\ ice \in BOOLEAN
    /\ ops \in Seq([offer : PCs, queued : BOOLEAN])
    /\ cursor \in 0 .. Len(pending) /\ pending \in Seq(PCs)
    /\ timer \in BOOLEAN /\ poll \in BOOLEAN /\ stray \in BOOLEAN /\ late \in BOOLEAN
    /\ retries \in 0 .. MaxRetries /\ reconnects \in 0 .. MaxReconnects
    /\ restarts \in 0 .. MaxRestarts
    /\ up \in [Sessions -> Seq(Up)] /\ down \in [Sessions -> Seq(Down)]
    /\ conn \in [Sessions -> {"none", "open", "closed"}]
    /\ loop \in [Sessions -> {"none", "reading", "reconnecting", "closed", "dropped", "reply",
                              "gone"}]
    /\ member \subseteq Sessions /\ tearing \subseteq Sessions
    /\ starting \in [Sessions -> 0 .. 1 + MaxReconnects]
    /\ peerPC \in [Sessions -> PCs \cup {none}]
    /\ owner \in [PCs -> Sessions \cup {none}]
    /\ stage \in [PCs -> Stages]
    /\ open \subseteq PCs /\ callback \subseteq PCs /\ offering \subseteq PCs
    /\ remote \in [PCs -> PCs \cup {none}]
    /\ raced \subseteq Sessions

\* The page shows its overlay, and the server has nobody in the room.
AtRest ==
    /\ ui = "overlay" /\ loading = FALSE /\ ws = none
    /\ pc = FALSE /\ described = none /\ ice = FALSE /\ ops = <<>> /\ cursor = 0
    /\ pending = <<>> /\ timer = FALSE /\ poll = FALSE /\ stray = FALSE /\ late = FALSE
    /\ up = [s \in Sessions |-> <<>>] /\ down = [s \in Sessions |-> <<>>]
    /\ conn = [s \in Sessions |-> "none"] /\ loop = [s \in Sessions |-> "none"]
    /\ member = {} /\ tearing = {}
    /\ starting = [s \in Sessions |-> 0] /\ peerPC = [s \in Sessions |-> none]
    /\ owner = [g \in PCs |-> none] /\ stage = [g \in PCs |-> "unused"]
    /\ open = {} /\ callback = {} /\ offering = {}
    /\ remote = [g \in PCs |-> none] /\ raced = {}

Init ==
    /\ AtRest
    /\ sock = [s \in Sessions |-> "none"]
    /\ retries = 0 /\ reconnects = 0 /\ restarts = 0

-----------------------------------------------------------------------------
(* The tab.                                                                *)

\* sendSignaling: to this.ws if it is open, else nothing is sent.
Send(m) ==
    up' = IF ws # none /\ sock[ws] = "open" THEN [up EXCEPT ![ws] = Append(@, m)] ELSE up

\* this.pc.close(); this.pc = null.  What was in its operations chain never
\* completes, nor does a processPendingMessages that waits for it.
ClosePC ==
    /\ pc' = FALSE /\ described' = none /\ ice' = FALSE
    /\ ops' = <<>> /\ cursor' = 0
    /\ UNCHANGED stray

\* cleanup, after an event that leaves the sockets as in `socks`: everything
\* goes but the messages that wait and the count of retries.
Cleanup(socks) ==
    /\ ClosePC
    /\ timer' = FALSE
    /\ sock' = IF ws # none /\ socks[ws] \in {"connecting", "open"}
               THEN [socks EXCEPT ![ws] = "closing"] ELSE socks
    /\ ws' = none
    /\ ui' = "overlay"
    /\ poll' = FALSE
    /\ UNCHANGED <<pending, tries, late>>

\* The server has done with a session.  Sessions share nothing on the server
\* but the room, so the next one is begun only then, and what is left of this
\* one on the server is forgotten.
Quiet(r) ==
    /\ loop[r] \in {"none", "gone"} /\ r \notin tearing /\ starting[r] = 0
    /\ \A g \in PCs : owner[g] = r => g \notin callback /\ stage[g] \in Ended

Forget ==
    /\ up' = [s \in Sessions |-> <<>>] /\ down' = [s \in Sessions |-> <<>>]
    /\ peerPC' = [s \in Sessions |-> none]
    /\ owner' = [g \in PCs |-> none] /\ remote' = [g \in PCs |-> none]
    /\ stage' = [g \in PCs |-> IF stage[g] = "unused" THEN "unused" ELSE "aborted"]
    /\ open' = {} /\ offering' = {} /\ raced' = {}

\* connect, up to the opening of the socket, which sends join.
Connect(s) ==
    /\ ui = "overlay" /\ ~loading
    /\ \A r \in Sessions : (sock[r] = "none") <=> r >= s
    /\ \A r \in 1 .. s - 1 : Quiet(r)
    /\ Forget
    /\ ws' = s
    /\ sock' = [sock EXCEPT ![s] = "connecting"]
    /\ loading' = TRUE
    /\ UNCHANGED <<ui, pcVars, pending, health, roomVars, starting, callback>>

Opened(s) ==
    /\ sock[s] = "connecting"
    /\ sock' = [sock EXCEPT ![s] = "open"]
    /\ conn' = [conn EXCEPT ![s] = "open"]
    /\ loop' = [loop EXCEPT ![s] = "reading"]
    /\ up' = [up EXCEPT ![s] = <<Plain("join")>>]
    /\ UNCHANGED <<ui, loading, ws, pcVars, pending, health, down, roster, setups, pion, raced>>

\* The socket cannot be opened, or was closed before it was: the error
\* event enables the button, the close event cleans up.
OpenFails(s) ==
    /\ \/ sock[s] = "connecting"
       \/ sock[s] = "closing" /\ conn[s] = "none"
    /\ Cleanup([sock EXCEPT ![s] = "closed"])
    /\ loading' = FALSE
    /\ UNCHANGED <<messages, serverVars>>

\* onclose and handleSignalingDisconnect: whichever socket it was, all of
\* the tab's state goes, that of a later session too.
CloseEvent(s) ==
    /\ sock[s] \in {"open", "closing"} /\ conn[s] # "none"
    /\ Cleanup([sock EXCEPT ![s] = "closed"])
    /\ UNCHANGED <<loading, messages, serverVars>>

\* disconnect, by the button Leave.
Leave ==
    /\ ui = "stream"
    /\ Send(Plain("leave"))
    /\ Cleanup(sock)
    /\ UNCHANGED <<loading, down, serverVars>>

-----------------------------------------------------------------------------
Queued(n) == [offer |-> pending[n], queued |-> TRUE]

\* initPeerConnection: a new this.pc.  What waited is processed first, one
\* message after another; later ones join its chain in between.
InitPeerConnection ==
    /\ pc' = TRUE /\ described' = none /\ ice' = FALSE
    /\ stray' = (stray \/ pc)
    /\ timer' = TRUE
    /\ IF pending = <<>>
       THEN ops' = <<>> /\ cursor' = 0
       ELSE ops' = <<Queued(1)>> /\ cursor' = 1

Received(s, m) ==
    /\ sock[s] = "open"
    /\ down[s] # <<>> /\ Head(down[s]) = m
    /\ down' = [down EXCEPT ![s] = Tail(@)]

\* handleRoomCreated and handleRoomJoined.
ReceiveWelcome(s) ==
    /\ Received(s, Plain("welcome"))
    /\ loading' = FALSE
    /\ ui' = "stream"
    /\ InitPeerConnection
    /\ UNCHANGED <<ws, sock, pending, tries, poll, late, up, serverVars>>

ReceiveReconnected(s) ==
    /\ Received(s, Plain("reconnected"))
    /\ InitPeerConnection
    /\ UNCHANGED <<page, pending, tries, poll, late, up, serverVars>>

\* handleRemoteSDP, up to its first await.
ReceiveOffer(s) ==
    \E g \in PCs :
        /\ Received(s, SDP(g))
        /\ IF pc
           THEN /\ ops' = Append(ops, [offer |-> g, queued |-> FALSE])
                /\ UNCHANGED pending
           ELSE /\ pending' = Append(pending, g)
                /\ UNCHANGED ops
        /\ UNCHANGED <<page, pc, described, ice, cursor, stray, health, up, serverVars>>

\* The first operation of the chain completes, and goes on: the answer is
\* sent, and processPendingMessages takes its next message, or forgets them.
NextQueued ==
    IF ~Head(ops).queued
    THEN ops' = Tail(ops) /\ UNCHANGED <<cursor, pending>>
    ELSE IF cursor < Len(pending)
         THEN /\ ops' = Append(Tail(ops), Queued(cursor + 1))
              /\ cursor' = cursor + 1
              /\ UNCHANGED pending
         ELSE /\ ops' = Tail(ops)
              /\ cursor' = 0 /\ pending' = <<>>

Answer ==
    /\ ops # <<>>
    /\ described' = Head(ops).offer
    /\ ice' = (ice /\ Head(ops).offer = described)
    /\ Send(SDP(Head(ops).offer))
    /\ NextQueued
    /\ UNCHANGED <<page, pc, stray, health, down, serverVars>>

\* An offer of another peer connection than the one it has answered may be
\* refused; the error is only logged.
AnswerFails ==
    /\ ops # <<>>
    /\ described \notin {none, Head(ops).offer}
    /\ NextQueued
    /\ UNCHANGED <<page, pc, described, ice, stray, health, messages, serverVars>>

\* Both ends have each other's description: ICE connects.
IceConnects ==
    /\ pc /\ ~ice
    /\ described \in open /\ remote[described] = described
    /\ ice' = TRUE
    /\ timer' = FALSE /\ retries' = 0
    /\ UNCHANGED <<page, pc, described, ops, cursor, stray, pending, reconnects,
                   restarts, poll, late, messages, serverVars>>

\* handleIceConnectionFailure: ICE has failed or lost its peer, or the timer
\* fires and it has not connected.
ForgetfulFailure ==                   \* fault: this.pc is not set to null
    /\ pc' = pc /\ UNCHANGED <<described, ice, ops, cursor, stray>>
FailurePC == ClosePC

IceFails ==
    /\ pc
    /\ \/ timer /\ ~ice
       \/ described # none
    /\ timer' = FALSE
    /\ IF retries = MaxRetries
       THEN UNCHANGED <<pcVars, retries, reconnects, up>>
       ELSE /\ reconnects < MaxReconnects
            /\ reconnects' = reconnects + 1
            /\ retries' = retries + 1
            /\ FailurePC
            /\ Send(Plain("reconnect"))
    /\ UNCHANGED <<page, pending, restarts, poll, late, down, serverVars>>

\* updateStats asks for statistics of whatever this.pc there is, connected or
\* not; when they come, checkForFreeze has seen no frame for two seconds.  By
\* then this.pc may be another, or none.
PollStats ==
    /\ pc /\ ~poll
    /\ poll' = TRUE
    /\ UNCHANGED <<page, pcVars, pending, timer, tries, late, messages, serverVars>>

VideoFreezes ==
    /\ poll
    /\ reconnects < MaxReconnects
    /\ poll' = FALSE
    /\ reconnects' = reconnects + 1
    /\ late' = (late \/ ~pc)
    /\ ClosePC
    /\ Send(Plain("reconnect"))
    /\ UNCHANGED <<page, pending, timer, retries, restarts, down, serverVars>>

\* checkPathQuality: the path is bad, and the last restart was long ago.  Its
\* round-trip time may be left from a connection before.
PathRegresses ==
    /\ pc
    /\ restarts < MaxRestarts
    /\ restarts' = restarts + 1
    /\ Send(Plain("restart"))
    /\ UNCHANGED <<page, pcVars, pending, timer, retries, reconnects, poll, late,
                   down, serverVars>>

-----------------------------------------------------------------------------
(* The server.                                                             *)

SendDown(s, m) ==
    down' = IF conn[s] = "open" THEN [down EXCEPT ![s] = Append(@, m)] ELSE down

\* pc.Close: pion makes the state Closed, and runs the callback, if one is
\* registered by then, on a goroutine of its own.
Watched(g) == stage[g] \notin {"unused", "created", "unwatched"}

NotClosed(g) == UNCHANGED <<open, callback>>     \* fault: it is only forgotten
Close(g) ==
    /\ open' = open \ {g}
    /\ callback' = IF g \in open /\ Watched(g) THEN callback \cup {g} ELSE callback

\* Is a set-up for the session under way, or a reconnect?
SettingUp(s) ==
    \/ starting[s] > 0
    \/ \E g \in PCs : owner[g] = s /\ stage[g] \in {"created", "watched", "described"}
Reconnecting(s) == loop[s] \in {"reconnecting", "closed", "dropped"}

\* handleDisconnect under the lock; the rest of it is Teardown.
Remove(s) ==
    /\ member' = member \ {s}
    /\ tearing' = IF s \in member THEN tearing \cup {s} ELSE tearing
    /\ raced' = IF s \in member /\ (SettingUp(s) \/ Reconnecting(s))
                THEN raced \cup {s} ELSE raced

\* handleDisconnect goes on: the peer's connection and its socket are closed.
NoSocketClose(s) == UNCHANGED conn    \* fault: the socket stays open
SocketClose(s) == conn' = [conn EXCEPT ![s] = "closed"]

Teardown(s) ==
    /\ s \in tearing
    /\ tearing' = tearing \ {s}
    /\ IF peerPC[s] = none THEN UNCHANGED <<open, callback>> ELSE Close(peerPC[s])
    /\ SocketClose(s)
    /\ UNCHANGED <<tabVars, messages, loop, member, setups, offering, remote, raced>>

\* OnConnectionStateChange with Failed or Closed: handleDisconnect for the
\* peer's socket, whichever peer connection it was.
Callback(g) ==
    /\ g \in callback
    /\ callback' = callback \ {g}
    /\ Remove(owner[g])
    /\ UNCHANGED <<tabVars, messages, conn, loop, setups, open, offering, remote>>

\* The other end is out of reach, or has closed.
PCFails(g) ==
    /\ g \in open \ callback /\ Watched(g) /\ remote[g] # none
    /\ owner[g] \in member
    /\ callback' = callback \cup {g}
    /\ UNCHANGED <<tabVars, messages, roomVars, setups, open, offering, remote, raced>>

-----------------------------------------------------------------------------
\* setupPeerConnection, on a goroutine: makes the peer connection, and puts it
\* where the peer's last one was; watches it; describes it; sends the offer.
\* An operation on a peer connection that is closed fails, and ends it.
CreatePC(s) ==
    \E g \in PCs :
        /\ starting[s] > 0
        /\ \A h \in PCs : (stage[h] = "unused") <=> h >= g
        /\ starting' = [starting EXCEPT ![s] = @ - 1]
        /\ peerPC' = [peerPC EXCEPT ![s] = g]
        /\ owner' = [owner EXCEPT ![g] = s]
        /\ stage' = [stage EXCEPT ![g] = "created"]
        /\ open' = open \cup {g}
        /\ UNCHANGED <<tabVars, messages, roomVars, callback, offering, remote, raced>>

\* There is no peer connection to be had: the peer keeps what it had.
CreateFails(s) ==
    /\ starting[s] > 0
    /\ starting' = [starting EXCEPT ![s] = @ - 1]
    /\ UNCHANGED <<tabVars, messages, roomVars, peerPC, owner, stage, pion, raced>>

\* A later call fails though nobody has closed it: it stays open, the peer's.
SetupFails(g) ==
    /\ g \in open
    /\ \/ stage[g] = "created" /\ stage' = [stage EXCEPT ![g] = "unwatched"]
       \/ stage[g] = "watched" /\ stage' = [stage EXCEPT ![g] = "aborted"]
    /\ UNCHANGED <<tabVars, messages, roomVars, starting, peerPC, owner, pion, raced>>

Advance(g, from, to) ==
    /\ stage[g] = from
    /\ stage' = [stage EXCEPT ![g] = IF g \in open THEN to ELSE "aborted"]

Watch(g) ==
    /\ Advance(g, "created", "watched")
    /\ UNCHANGED <<tabVars, messages, roomVars, starting, peerPC, owner, pion, raced>>

Describe(g) ==
    /\ Advance(g, "watched", "described")
    /\ offering' = IF g \in open THEN offering \cup {g} ELSE offering
    /\ UNCHANGED <<tabVars, messages, roomVars, starting, peerPC, owner, open,
                   callback, remote, raced>>

Offer(g) ==
    /\ stage[g] = "described"
    /\ stage' = [stage EXCEPT ![g] = "offered"]
    /\ SendDown(owner[g], SDP(g))
    /\ UNCHANGED <<tabVars, up, roomVars, starting, peerPC, owner, pion, raced>>

-----------------------------------------------------------------------------
Reads(s, m) ==
    /\ loop[s] = "reading"
    /\ up[s] # <<>> /\ Head(up[s]) = m
    /\ up' = [up EXCEPT ![s] = Tail(@)]

\* handleJoin: of the room only that the peer is in it.
ReadJoin(s) ==
    /\ Reads(s, Plain("join"))
    /\ member' = member \cup {s}
    /\ SendDown(s, Plain("welcome"))
    /\ starting' = [starting EXCEPT ![s] = @ + 1]
    /\ UNCHANGED <<tabVars, conn, loop, tearing, peerPC, owner, stage, pion, raced>>

ReadLeave(s) ==
    /\ Reads(s, Plain("leave"))
    /\ Remove(s)
    /\ UNCHANGED <<tabVars, down, conn, loop, setups, pion>>

\* handleSDP: SetRemoteDescription on whatever peer connection there is,
\* which fails unless that has an offer out.
ReadAnswer(s) ==
    LET g == peerPC[s]
    IN  \E a \in PCs :
          /\ Reads(s, SDP(a))
          /\ IF s \in member /\ g \in open \cap offering
             THEN /\ remote' = [remote EXCEPT ![g] = a]
                  /\ offering' = offering \ {g}
             ELSE UNCHANGED <<remote, offering>>
          /\ UNCHANGED <<tabVars, down, roomVars, setups, open, callback, raced>>

\* handleICERestart: the offer is refused while another one is out.
ReadRestart(s) ==
    LET g == peerPC[s]
    IN  /\ Reads(s, Plain("restart"))
        /\ IF s \in member /\ g \in open \ offering
           THEN offering' = offering \cup {g} /\ SendDown(s, SDP(g))
           ELSE UNCHANGED <<offering, down>>
        /\ UNCHANGED <<tabVars, roomVars, setups, open, callback, remote, raced>>

\* handleReconnect: the look-up, the closing of the old peer connection, its
\* removal from the peer, the start of the set-up, the reply.
ReadReconnect(s) ==
    /\ Reads(s, Plain("reconnect"))
    /\ loop' = [loop EXCEPT ![s] = IF s \in member THEN "reconnecting" ELSE "reading"]
    /\ raced' = IF s \in member /\ SettingUp(s) THEN raced \cup {s} ELSE raced
    /\ UNCHANGED <<tabVars, down, conn, roster, setups, pion>>

CloseOld(s) ==
    /\ loop[s] = "reconnecting"
    /\ IF peerPC[s] = none
       THEN loop' = [loop EXCEPT ![s] = "dropped"] /\ UNCHANGED <<open, callback>>
       ELSE loop' = [loop EXCEPT ![s] = "closed"] /\ Close(peerPC[s])
    /\ UNCHANGED <<tabVars, messages, conn, roster, setups, offering, remote, raced>>

DropOld(s) ==
    /\ loop[s] = "closed"
    /\ loop' = [loop EXCEPT ![s] = "dropped"]
    /\ peerPC' = [peerPC EXCEPT ![s] = none]
    /\ UNCHANGED <<tabVars, messages, conn, roster, starting, owner, stage, pion,
                   raced>>

StartSetup(s) ==
    /\ loop[s] = "dropped"
    /\ loop' = [loop EXCEPT ![s] = "reply"]
    /\ starting' = [starting EXCEPT ![s] = @ + 1]
    /\ UNCHANGED <<tabVars, messages, conn, roster, peerPC, owner, stage, pion, raced>>

NoReply(s) == UNCHANGED down                          \* fault: the client is not told
EchoReply(s) == SendDown(s, Plain("reconnect"))       \* fault: of the request's type
SendReply(s) == SendDown(s, Plain("reconnected"))

Reply(s) ==
    /\ loop[s] = "reply"
    /\ loop' = [loop EXCEPT ![s] = "reading"]
    /\ SendReply(s)
    /\ UNCHANGED <<tabVars, up, conn, roster, setups, pion, raced>>

\* A read fails: an end has closed the socket, or the network has, or the
\* read deadline has passed.
Unread(s) == FALSE                    \* fault: no read deadline
SocketEnded(s) == conn[s] = "closed" \/ sock[s] \in {"closing", "closed"}

ReadError(s) ==
    /\ loop[s] = "reading"
    /\ loop' = [loop EXCEPT ![s] = "gone"]
    /\ up' = [up EXCEPT ![s] = <<>>]
    /\ Remove(s)
    /\ UNCHANGED <<tabVars, down, conn, setups, pion>>

-----------------------------------------------------------------------------
Tab ==
    \/ \E s \in Sessions :
         \/ Connect(s) \/ Opened(s) \/ OpenFails(s) \/ CloseEvent(s)
         \/ ReceiveWelcome(s) \/ ReceiveReconnected(s) \/ ReceiveOffer(s)
    \/ Leave
    \/ Answer \/ AnswerFails
    \/ IceConnects \/ IceFails \/ PollStats \/ VideoFreezes \/ PathRegresses

Setup ==
    \/ \E s \in Sessions : CreatePC(s) \/ CreateFails(s)
    \/ \E g \in PCs : Watch(g) \/ Describe(g) \/ Offer(g) \/ SetupFails(g)

ReadLoop(s) ==
    \/ ReadJoin(s) \/ ReadLeave(s) \/ ReadAnswer(s) \/ ReadRestart(s) \/ ReadReconnect(s)
    \/ CloseOld(s) \/ DropOld(s) \/ StartSetup(s) \/ Reply(s)

Next ==
    \/ Tab
    \/ Setup
    \/ \E s \in Sessions : ReadLoop(s) \/ ReadError(s) \/ Teardown(s)
    \/ \E g \in PCs : Callback(g) \/ PCFails(g)

-----------------------------------------------------------------------------
(* Fairness: goroutines run; the browser handles what has happened; a      *)
(* socket that was closed is closed at the other end too, or its read      *)
(* deadline passes; an ICE agent that cannot connect fails, or the timer   *)
(* fires.  Nothing makes anybody leave, freeze, fail or answer in time.    *)
(* The bounds leave no infinite run, so that fairness to the server and to *)
(* the browser is fairness to each goroutine and each event.               *)
FairServer ==
    \/ Setup
    \/ \E s \in Sessions : ReadLoop(s) \/ (SocketEnded(s) /\ ReadError(s)) \/ Teardown(s)
    \/ \E g \in PCs : Callback(g)

FairTab ==
    \/ \E s \in Sessions :
         \/ Opened(s) \/ OpenFails(s)
         \/ (conn[s] = "closed" \/ sock[s] = "closing") /\ CloseEvent(s)
         \/ ReceiveWelcome(s) \/ ReceiveReconnected(s) \/ ReceiveOffer(s)
    \/ Answer \/ AnswerFails
    \/ ~ice /\ IceFails

Fairness == WF_vars(FairServer) /\ WF_vars(FairTab)

Spec == Init /\ [][Next]_vars /\ Fairness

-----------------------------------------------------------------------------
(* Properties.                                                             *)

\* The tab closes a peer connection before it makes the next, whatever the
\* order of failures, reconnects and sessions; only a freeze seen in the
\* statistics of one that is gone can ask for two.
OneConnectionInTab == stray => late

\* Every open peer connection of the server is the one its peer has, and the
\* peer is in the room or being torn down, unless a departure or another
\* request overtook a set-up: only then is one left that nobody closes.
OnlyRacesLeak ==
    \A g \in open :
        LET s == owner[g]
        IN  s \in raced \/ (g = peerPC[s] /\ s \in member \cup tearing)

\* A tab that shows the stream is not shut out of the room for good: if its
\* peer is removed, its socket is closed, and it finds out.
EvictedClientLearns == []<>(ui = "stream" => ws \in member)

\* A peer whose client has gone, or has begun another session, does not stay
\* in the room.
GhostsLeave == []<>(member \subseteq {ws})

\* A stream is not left unconnected for good: it connects, it ends, or it is
\* tried again with a new peer connection until the code's retries are used
\* up; no lost, late or crossed answer leaves it waiting.  (Where another try
\* is due that only the bound forbids, nothing is claimed.)
TryDue == pc /\ ~ice /\ (timer \/ described # none)
StreamSettles ==
    []<>(ui = "stream" => \/ ice
                          \/ pc /\ retries = MaxRetries
                          \/ TryDue /\ reconnects = MaxReconnects)

\* A peer connection that has been closed to make way for another does not
\* cost the peer its place: its callback disconnects the peer only while it
\* is the peer's.
ReconnectKeepsPeer ==
    [][\A g \in PCs : Callback(g) /\ owner[g] \in member => peerPC[owner[g]] = g]_vars
=============================================================================
