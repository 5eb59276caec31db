------------------------------ MODULE Network ------------------------------
(***************************************************************************)
(* The connection manager (connmgr/connmanager.go) composed with the       *)
(* server's registry of peers (server.go).                                 *)
(*                                                                         *)
(* Goroutines: the connection handler, which owns the map of established   *)
(* connection requests; one short-lived goroutine per connection attempt;  *)
(* one negotiation and one done goroutine per peer; the peer handler,      *)
(* which owns the registry; and the block handler, seen here only for the  *)
(* inventory it relays through the peer handler.                           *)
(*                                                                         *)
(* A request that fails and is replaced by NewConnReq keeps its slot, so   *)
(* Reqs bounds the requests alive at once and not those ever made.  A host *)
(* is identified with its network group.  The connection handler is always *)
(* ready to receive from its unbuffered channel, so a send to it and its   *)
(* handling are one step.                                                  *)
(***************************************************************************)
EXTENDS Integers, Sequences, FiniteSets, Functions

CONSTANTS
    Reqs,               \* slots for connection requests
    Permanent,          \* the slots of the configured (--addpeer) requests
    Peers,              \* slots for peers
    Groups,             \* network groups
    Whitelisted,        \* the groups whose inbound peers are whitelisted
    Loopback,           \* the groups of local addresses
    AutoConnect,        \* GetNewAddress is set: neither --connect nor simnet
    TargetOutbound,     \* connections the manager maintains
    MaxPeers,           \* --maxpeers, also the size of the server's channels
    MaxSameIP,          \* --maxsameip, 0 when unlimited
    MaxFailedAttempts,  \* failures in a row after which attempts are delayed
    MaxRelay,           \* inventory vectors one block makes the node relay
    MaxEvents           \* bound on what users and remote nodes do

ASSUME NetworkAssumption ==
    /\ Permanent \subseteq Reqs /\ Whitelisted \subseteq Groups
    /\ Loopback \subseteq Groups /\ AutoConnect \in BOOLEAN
    /\ {TargetOutbound, MaxPeers, MaxFailedAttempts} \subseteq Nat \ {0}
    /\ {MaxSameIP, MaxRelay, MaxEvents} \subseteq Nat
    /\ IsFiniteSet(Reqs) /\ IsFiniteSet(Peers) /\ "none" \notin Reqs

VARIABLES
    req,             \* the connection requests
    conns,           \* connHandler: the requests that are established
    failedAttempts,  \* failed attempts in a row
    cm,              \* the manager: "created", "started", "stopped", "exited"
    peer,            \* the peers
    newPeers, donePeers, banPeers,  \* the channels of the peer handler
    relayInv,        \* the number of vectors in the relay channel
    inboundPeers, outboundPeers, persistentPeers,
    outboundGroups,  \* registered outbound peers, counted by group
    banned,          \* groups with a ban entry
    server,          \* peerHandler: "run", "stopping", "waiting", "done"
    shutdown,        \* server.Stop was called
    relaying,        \* vectors the block handler has yet to relay
    blockDone,       \* the block handler has exited
    oneShots,        \* history: non-permanent connections asked for by a user
    events           \* events so far

connVars == <<req, conns, failedAttempts, cm>>
registry == <<inboundPeers, outboundPeers, persistentPeers, outboundGroups, banned>>
channels == <<newPeers, donePeers, banPeers, relayInv>>
stopVars == <<server, shutdown, relaying, blockDone>>
vars == <<connVars, peer, channels, registry, stopVars, oneShots, events>>

None == "none"
ReqStates == {None, "new", "address", "dial", "failed", "connected", "established",
              "timer"}
Request == [at : ReqStates, perm : BOOLEAN, group : Groups \cup {None}]
Peer == [at : {"free", "negotiating", "version", "told", "rejected"},
         connected : BOOLEAN, inbound : BOOLEAN, persistent : BOOLEAN,
         req : Reqs \cup {None}, group : Groups \cup {None}, done : {"no", "sent", "handled"}]
NoReq == [at |-> None, perm |-> FALSE, group |-> None]
NoPeer == [at |-> "free", connected |-> FALSE, inbound |-> FALSE, persistent |-> FALSE,
           req |-> None, group |-> None, done |-> "no"]

\* Types of the connection requests, the peers, the registry and the channels, whose
\* sizes are those the server makes them with.
TypeOK ==
    /\ req \in [Reqs -> Request]
    /\ conns \subseteq Reqs
    /\ failedAttempts \in 0..MaxFailedAttempts
    /\ cm \in {"created", "started", "stopped", "exited"}
    /\ peer \in [Peers -> Peer]
    /\ newPeers \in Seq(Peers) /\ Len(newPeers) <= MaxPeers
    /\ donePeers \in Seq(Peers) /\ Len(donePeers) <= MaxPeers
    /\ banPeers \in Seq(Groups) /\ Len(banPeers) <= MaxPeers
    /\ relayInv \in 0..MaxPeers
    /\ inboundPeers \subseteq Peers /\ outboundPeers \subseteq Peers
    /\ persistentPeers \subseteq Peers
    /\ outboundGroups \in [Groups -> Nat]
    /\ banned \subseteq Groups
    /\ server \in {"run", "stopping", "waiting", "done"}
    /\ shutdown \in BOOLEAN
    /\ relaying \in 0..MaxRelay /\ blockDone \in BOOLEAN
    /\ oneShots \in Nat /\ events \in 0..MaxEvents

Event == events < MaxEvents /\ events' = events + 1

(***************************************************************************)
(* The connection manager.                                                 *)
(***************************************************************************)

\* newServer starts one goroutine per configured peer; none has run yet.
Init ==
    /\ req = [r \in Reqs |-> IF r \in Permanent
                             THEN [NoReq EXCEPT !.at = "new", !.perm = TRUE] ELSE NoReq]
    /\ conns = {} /\ failedAttempts = 0 /\ cm = "created"
    /\ peer = [p \in Peers |-> NoPeer]
    /\ newPeers = <<>> /\ donePeers = <<>> /\ banPeers = <<>> /\ relayInv = 0
    /\ inboundPeers = {} /\ outboundPeers = {} /\ persistentPeers = {}
    /\ outboundGroups = [g \in Groups |-> 0]
    /\ banned = {}
    /\ server = "run" /\ shutdown = FALSE /\ relaying = 0 /\ blockDone = FALSE
    /\ oneShots = 0 /\ events = 0

Stopped == cm \in {"stopped", "exited"}

\* ConnManager.Start: one NewConnReq for every id from connReqCount to the
\* target, connReqCount being the number of Connect calls that already ran.
\* NewConnReq returns at once when there is no GetNewAddress.
Start ==
    /\ cm = "created" /\ server = "run"
    /\ LET n == TargetOutbound - Cardinality({r \in Reqs : req[r].at \notin {None, "new"}})
       IN  \E S \in SUBSET {r \in Reqs : req[r].at = None} :
              /\ Cardinality(S) = IF n < 0 \/ ~AutoConnect THEN 0 ELSE n
              /\ req' = [r \in Reqs |-> IF r \in S THEN [NoReq EXCEPT !.at = "address"]
                                        ELSE req[r]]
    /\ cm' = "started"
    /\ UNCHANGED <<conns, failedAttempts, peer, channels, registry, stopVars, oneShots,
                   events>>

\* NewConnReq or Connect gives up when the manager was stopped.
Abandon(r) ==
    /\ Stopped
    /\ req[r].at \in {"new", "address", "timer"}
    /\ req' = [req EXCEPT ![r] = NoReq]
    /\ UNCHANGED <<conns, failedAttempts, cm, peer, channels, registry, stopVars, oneShots,
                   events>>

\* The first Connect of a configured peer.
ConnectConfigured(r, g) ==
    /\ ~Stopped
    /\ req[r].at = "new"
    /\ req' = [req EXCEPT ![r].at = "dial", ![r].group = g]
    /\ UNCHANGED <<conns, failedAttempts, cm, peer, channels, registry, stopVars, oneShots,
                   events>>

\* NewConnReq's GetNewAddress: an address of a group that no registered
\* outbound peer belongs to (a query the peer handler answers), or an error.
GetNewAddress(r) ==
    /\ req[r].at = "address" /\ ~Stopped
    /\ server = "run"
    /\ \/ \E g \in Groups :
             /\ outboundGroups[g] = 0
             /\ req' = [req EXCEPT ![r].at = "dial", ![r].group = g]
       \/ req' = [req EXCEPT ![r].at = "failed"]
    /\ UNCHANGED <<conns, failedAttempts, cm, peer, channels, registry, stopVars, oneShots,
                   events>>

\* Connect: the dial succeeds or fails; the goroutine then sends the outcome.
Dial(r) ==
    /\ req[r].at = "dial"
    /\ \E outcome \in {"connected", "failed"} : req' = [req EXCEPT ![r].at = outcome]
    /\ UNCHANGED <<conns, failedAttempts, cm, peer, channels, registry, stopVars, oneShots,
                   events>>

\* A retry timer fires.
Retry(r) ==
    /\ req[r].at = "timer" /\ ~Stopped
    /\ req' = [req EXCEPT ![r].at = IF req[r].perm THEN "dial" ELSE "address"]
    /\ UNCHANGED <<conns, failedAttempts, cm, peer, channels, registry, stopVars, oneShots,
                   events>>

\* handleFailedConn: what becomes of a request that failed or was dropped.  It
\* is replaced only while the manager runs and by a source of new addresses.
GivenUp(r) == Stopped \/ ~(req[r].perm \/ AutoConnect)

HandleFailedConn(r) ==
    IF GivenUp(r)
    THEN /\ req' = [req EXCEPT ![r] = NoReq]
         /\ UNCHANGED failedAttempts
    ELSE IF req[r].perm
    THEN /\ req' = [req EXCEPT ![r].at = "timer"]
         /\ UNCHANGED failedAttempts
    ELSE LET n == failedAttempts + 1
         IN /\ failedAttempts' = IF n > MaxFailedAttempts THEN MaxFailedAttempts ELSE n
            /\ req' = [req EXCEPT ![r] =
                         [NoReq EXCEPT !.at = IF n >= MaxFailedAttempts THEN "timer"
                                              ELSE "address"]]

\* connHandler receives handleFailed.
ConnFailed(r) ==
    /\ cm \in {"started", "stopped"}
    /\ req[r].at = "failed"
    /\ HandleFailedConn(r)
    /\ UNCHANGED <<conns, cm, peer, channels, registry, stopVars, oneShots, events>>

\* connHandler receives handleConnected and starts OnConnection, the server's
\* outboundPeerConnected, which makes the peer of the connection.  NewOutboundPeer
\* does not fail: every address is the IP and port addrStringToNetAddr made, and
\* it was just dialled.
ConnConnected(r) ==
    /\ cm \in {"started", "stopped"}
    /\ req[r].at = "connected"
    /\ conns' = conns \cup {r}
    /\ failedAttempts' = 0
    /\ req' = [req EXCEPT ![r].at = "established"]
    /\ \E p \in Peers :
          /\ peer[p].at = "free"
          /\ peer' = [peer EXCEPT ![p] =
                        [NoPeer EXCEPT !.at = "negotiating", !.connected = TRUE,
                                       !.persistent = req[r].perm, !.req = r,
                                       !.group = req[r].group]]
    /\ UNCHANGED <<cm, channels, registry, stopVars, oneShots, events>>

\* connHandler exits once quit is closed.
ConnQuit ==
    /\ cm = "stopped"
    /\ cm' = "exited"
    /\ UNCHANGED <<req, conns, failedAttempts, peer, channels, registry, stopVars, oneShots,
                   events>>

\* Mutant: the connections are counted before the removal.
MutDisconnect(id) ==
    IF Stopped \/ id \notin conns
    THEN UNCHANGED <<req, conns, failedAttempts>>
    ELSE /\ conns' = conns \ {id}
         /\ IF Cardinality(conns) < TargetOutbound THEN HandleFailedConn(id)
            ELSE req' = [req EXCEPT ![id] = NoReq] /\ UNCHANGED failedAttempts

\* ConnManager.Disconnect(id), with connHandler's handleDisconnected: the
\* connection is closed and, below the target, the request is retried.
Disconnect(id) ==
    IF Stopped \/ id \notin conns
    THEN UNCHANGED <<req, conns, failedAttempts>>
    ELSE /\ conns' = conns \ {id}
         /\ IF Cardinality(conns') < TargetOutbound THEN HandleFailedConn(id)
            ELSE req' = [req EXCEPT ![id] = NoReq] /\ UNCHANGED failedAttempts

(***************************************************************************)
(* Peers.                                                                  *)
(***************************************************************************)

\* inboundPeerConnected, called by listenHandler for an accepted connection.
InboundPeerConnected(p, g) ==
    /\ Event
    /\ cm = "started"
    /\ peer[p].at = "free"
    /\ peer' = [peer EXCEPT ![p] = [NoPeer EXCEPT !.at = "negotiating", !.connected = TRUE,
                                                  !.inbound = TRUE, !.group = g]]
    /\ UNCHANGED <<connVars, channels, registry, stopVars, oneShots>>

\* The version message arrived, and OnVersion accepts the peer or refuses it.
ReadVersion(p) ==
    /\ peer[p].at = "negotiating" /\ peer[p].connected
    /\ \/ peer' = [peer EXCEPT ![p].at = "version"]
       \/ peer' = [peer EXCEPT ![p].at = "rejected", ![p].connected = FALSE]
    /\ UNCHANGED <<connVars, channels, registry, stopVars, oneShots, events>>

\* The end of OnVersion: AddPeer, whether or not the peer is still connected.
AddPeer(p) ==
    /\ peer[p].at = "version"
    /\ Len(newPeers) < MaxPeers
    /\ newPeers' = Append(newPeers, p)
    /\ peer' = [peer EXCEPT ![p].at = "told"]
    /\ UNCHANGED <<connVars, donePeers, banPeers, relayInv, registry, stopVars, oneShots,
                   events>>

\* The connection is lost, or the negotiation times out.
PeerDisconnect(p) ==
    /\ Event
    /\ peer[p].connected
    /\ peer' = [peer EXCEPT ![p].connected = FALSE]
    /\ UNCHANGED <<connVars, channels, registry, stopVars, oneShots>>

\* addBanScore passes the threshold: BanPeer, then Disconnect.
BanPeer(p) ==
    /\ Event
    /\ peer[p].connected /\ peer[p].at = "told"
    /\ ~(peer[p].inbound /\ peer[p].group \in Whitelisted)
    /\ Len(banPeers) < MaxPeers
    /\ banPeers' = Append(banPeers, peer[p].group)
    /\ peer' = [peer EXCEPT ![p].connected = FALSE]
    /\ UNCHANGED <<connVars, newPeers, donePeers, relayInv, registry, stopVars, oneShots>>

\* Mutant: the end is reported without waiting for the disconnect.
MutPeerDone(p) ==
    /\ peer[p].at \in {"told", "rejected"} /\ peer[p].done = "no"
    /\ Len(donePeers) < MaxPeers
    /\ donePeers' = Append(donePeers, p)
    /\ peer' = [peer EXCEPT ![p].done = "sent"]
    /\ UNCHANGED <<connVars, newPeers, banPeers, relayInv, registry, stopVars, oneShots,
                   events>>

\* peerDoneHandler, once the peer is disconnected.
PeerDone(p) ==
    /\ peer[p].at # "free" /\ ~peer[p].connected /\ peer[p].done = "no"
    /\ Len(donePeers) < MaxPeers
    /\ donePeers' = Append(donePeers, p)
    /\ peer' = [peer EXCEPT ![p].done = "sent"]
    /\ UNCHANGED <<connVars, newPeers, banPeers, relayInv, registry, stopVars, oneShots,
                   events>>

(***************************************************************************)
(* The peer handler.                                                       *)
(***************************************************************************)

Registered == inboundPeers \cup outboundPeers \cup persistentPeers

\* peerState.Count and ConnectionsWithIP.
Count == Cardinality(Registered)
ConnectionsWithIP(g) == Cardinality({p \in Registered : peer[p].group = g})

\* The refusals of handleAddPeerMsg, given the bans in force.  SplitHostPort does
\* not fail on an address that was dialled or accepted.
Refused(p, inForce) ==
    LET white == peer[p].inbound /\ peer[p].group \in Whitelisted
    IN  \/ shutdown
        \/ peer[p].group \in inForce
        \/ /\ MaxSameIP > 0 /\ ~white /\ peer[p].group \notin Loopback
           /\ ConnectionsWithIP(peer[p].group) + 1 > MaxSameIP
        \/ Count + 1 > MaxPeers /\ ~white

\* handleAddPeerMsg.  A ban entry that has expired is deleted.  A peer whose
\* done message was already handled is not looked at differently.
HandleAddPeerMsg ==
    /\ server = "run" /\ newPeers # <<>>
    /\ LET p == Head(newPeers)  g == peer[p].group
       IN \E expired \in SUBSET (banned \cap {g}) :
          /\ banned' = IF shutdown THEN banned ELSE banned \ expired
          /\ IF Refused(p, banned \ expired)
             THEN /\ peer' = [peer EXCEPT ![p] = IF @.done = "handled" THEN NoPeer
                                                 ELSE [@ EXCEPT !.connected = FALSE]]
                  /\ UNCHANGED <<inboundPeers, outboundPeers, persistentPeers,
                                 outboundGroups>>
             ELSE /\ UNCHANGED peer
                  /\ inboundPeers' = inboundPeers \cup {q \in {p} : peer[q].inbound}
                  /\ persistentPeers' = persistentPeers \cup
                        {q \in {p} : ~peer[q].inbound /\ peer[q].persistent}
                  /\ outboundPeers' = outboundPeers \cup
                        {q \in {p} : ~peer[q].inbound /\ ~peer[q].persistent}
                  /\ outboundGroups' = IF peer[p].inbound THEN outboundGroups
                                       ELSE [outboundGroups EXCEPT ![g] = @ + 1]
    /\ newPeers' = Tail(newPeers)
    /\ UNCHANGED <<connVars, donePeers, banPeers, relayInv, stopVars, oneShots, events>>

\* Mutant: the group is counted down also for a peer that is not registered.
MutHandleDonePeerMsg ==
    /\ server = "run" /\ donePeers # <<>>
    /\ LET p == Head(donePeers)
       IN /\ outboundGroups' = IF ~peer[p].inbound
                               THEN [outboundGroups EXCEPT ![peer[p].group] = @ - 1]
                               ELSE outboundGroups
          /\ inboundPeers' = inboundPeers \ {p}
          /\ outboundPeers' = outboundPeers \ {p}
          /\ persistentPeers' = persistentPeers \ {p}
          /\ IF peer[p].inbound THEN UNCHANGED <<req, conns, failedAttempts>>
             ELSE Disconnect(peer[p].req)
          /\ peer' = [peer EXCEPT ![p] =
                        IF @.at = "version" \/ p \in Range(newPeers)
                        THEN [@ EXCEPT !.done = "handled"] ELSE NoPeer]
    /\ donePeers' = Tail(donePeers)
    /\ UNCHANGED <<cm, newPeers, banPeers, relayInv, banned, stopVars, oneShots, events>>

\* Mutant: only a registered peer gives its connection back.
MutHandleDoneKeeps ==
    /\ server = "run" /\ donePeers # <<>>
    /\ LET p == Head(donePeers)
           known == p \in Registered
       IN /\ outboundGroups' = IF known /\ ~peer[p].inbound
                               THEN [outboundGroups EXCEPT ![peer[p].group] = @ - 1]
                               ELSE outboundGroups
          /\ inboundPeers' = inboundPeers \ {p}
          /\ outboundPeers' = outboundPeers \ {p}
          /\ persistentPeers' = persistentPeers \ {p}
          /\ IF peer[p].inbound \/ ~known THEN UNCHANGED <<req, conns, failedAttempts>>
             ELSE Disconnect(peer[p].req)
          /\ peer' = [peer EXCEPT ![p] =
                        IF @.at = "version" \/ p \in Range(newPeers)
                        THEN [@ EXCEPT !.done = "handled"] ELSE NoPeer]
    /\ donePeers' = Tail(donePeers)
    /\ UNCHANGED <<cm, newPeers, banPeers, relayInv, banned, stopVars, oneShots, events>>

\* handleDonePeerMsg.  The slot of the peer is free again unless its add
\* message is still to come.
HandleDonePeerMsg ==
    /\ server = "run" /\ donePeers # <<>>
    /\ LET p == Head(donePeers)
           known == p \in Registered
       IN /\ outboundGroups' = IF known /\ ~peer[p].inbound
                               THEN [outboundGroups EXCEPT ![peer[p].group] = @ - 1]
                               ELSE outboundGroups
          /\ inboundPeers' = inboundPeers \ {p}
          /\ outboundPeers' = outboundPeers \ {p}
          /\ persistentPeers' = persistentPeers \ {p}
          /\ IF peer[p].inbound THEN UNCHANGED <<req, conns, failedAttempts>>
             ELSE Disconnect(peer[p].req)
          /\ peer' = [peer EXCEPT ![p] =
                        IF @.at = "version" \/ p \in Range(newPeers)
                        THEN [@ EXCEPT !.done = "handled"] ELSE NoPeer]
    /\ donePeers' = Tail(donePeers)
    /\ UNCHANGED <<cm, newPeers, banPeers, relayInv, banned, stopVars, oneShots, events>>

\* handleBanPeerMsg.
HandleBanPeerMsg ==
    /\ server = "run" /\ banPeers # <<>>
    /\ banned' = banned \cup {Head(banPeers)}
    /\ banPeers' = Tail(banPeers)
    /\ UNCHANGED <<connVars, peer, newPeers, donePeers, relayInv, inboundPeers,
                   outboundPeers, persistentPeers, outboundGroups, stopVars, oneShots,
                   events>>

\* handleRelayInvMsg takes one vector off the relay channel.
HandleRelayInvMsg ==
    /\ server = "run" /\ relayInv > 0
    /\ relayInv' = relayInv - 1
    /\ UNCHANGED <<connVars, peer, newPeers, donePeers, banPeers, registry, stopVars,
                   oneShots, events>>

\* handleQuery, connectNodeMsg: refused at the limit or for a persistent peer.
ConnectNode(g, permanent) ==
    /\ Event
    /\ server = "run"
    /\ Count < MaxPeers
    /\ \A p \in persistentPeers : peer[p].group # g
    /\ \E r \in Reqs :
          /\ req[r] = NoReq
          /\ req' = [req EXCEPT ![r] = [at |-> "dial", perm |-> permanent, group |-> g]]
    /\ oneShots' = IF permanent THEN oneShots ELSE oneShots + 1
    /\ UNCHANGED <<conns, failedAttempts, cm, peer, channels, registry, stopVars>>

\* disconnectPeer for every peer of S, with the group counts kept.
DisconnectPeers(S) ==
    /\ outboundGroups' = [g \in Groups |->
          outboundGroups[g] - Cardinality({p \in S : ~peer[p].inbound /\ peer[p].group = g})]
    /\ peer' = [p \in Peers |-> IF p \in S THEN [peer[p] EXCEPT !.connected = FALSE]
                                ELSE peer[p]]
    /\ inboundPeers' = inboundPeers \ S
    /\ outboundPeers' = outboundPeers \ S
    /\ persistentPeers' = persistentPeers \ S
    /\ UNCHANGED <<connVars, channels, banned, stopVars, oneShots>>

\* handleQuery, removeNodeMsg: one persistent peer of the address.
RemoveNode(g) ==
    /\ Event
    /\ server = "run"
    /\ \E p \in persistentPeers : peer[p].group = g /\ DisconnectPeers({p})

\* handleQuery, disconnectNodeMsg: one inbound peer of the address or, when
\* there is none, every outbound one.
DisconnectNode(g) ==
    /\ Event
    /\ server = "run"
    /\ \/ \E p \in inboundPeers : peer[p].group = g /\ DisconnectPeers({p})
       \/ /\ \A p \in inboundPeers : peer[p].group # g
          /\ LET S == {p \in outboundPeers : peer[p].group = g}
             IN  S # {} /\ DisconnectPeers(S)

(***************************************************************************)
(* Relaying and shutdown.                                                  *)
(***************************************************************************)

\* The block handler processes a message that makes it relay inventory.
BlockMsg ==
    /\ Event
    /\ relaying = 0 /\ ~blockDone
    /\ \E n \in 1..MaxRelay : relaying' = n
    /\ UNCHANGED <<connVars, peer, channels, registry, server, shutdown, blockDone, oneShots>>

\* RelayInventory: a send that blocks while the relay channel is full.
RelayInventory ==
    /\ relaying > 0
    /\ relayInv < MaxPeers
    /\ relayInv' = relayInv + 1
    /\ relaying' = relaying - 1
    /\ UNCHANGED <<connVars, peer, newPeers, donePeers, banPeers, registry, server, shutdown,
                   blockDone, oneShots, events>>

\* The block handler exits when its quit channel is closed.
BlockQuit ==
    /\ server = "waiting"
    /\ relaying = 0 /\ ~blockDone
    /\ blockDone' = TRUE
    /\ UNCHANGED <<connVars, peer, channels, registry, server, shutdown, relaying, oneShots,
                   events>>

\* server.Stop.
Stop ==
    /\ Event
    /\ ~shutdown
    /\ shutdown' = TRUE
    /\ UNCHANGED <<connVars, peer, channels, registry, server, relaying, blockDone, oneShots>>

\* peerHandler leaves its loop: every registered peer is disconnected.
PeerHandlerQuit ==
    /\ shutdown /\ server = "run"
    /\ peer' = [p \in Peers |-> IF p \in Registered THEN [peer[p] EXCEPT !.connected = FALSE]
                                ELSE peer[p]]
    /\ server' = "stopping"
    /\ UNCHANGED <<connVars, channels, registry, shutdown, relaying, blockDone,
                   oneShots, events>>

\* connManager.Stop and the call of blockManager.Stop, which then waits.
StopManagers ==
    /\ server = "stopping"
    /\ cm' = "stopped"
    /\ server' = "waiting"
    /\ UNCHANGED <<req, conns, failedAttempts, peer, channels, registry, shutdown, relaying,
                   blockDone, oneShots, events>>

\* The block handler is gone; the channels are drained.
Cleanup ==
    /\ server = "waiting" /\ blockDone
    /\ newPeers' = <<>> /\ donePeers' = <<>> /\ relayInv' = 0
    /\ server' = "done"
    /\ UNCHANGED <<connVars, peer, banPeers, registry, shutdown, relaying, blockDone,
                   oneShots, events>>

ReqStep(r) ==
    \/ Abandon(r) \/ GetNewAddress(r) \/ Dial(r) \/ Retry(r) \/ ConnFailed(r)
    \/ ConnConnected(r) \/ \E g \in Groups : ConnectConfigured(r, g)

Next ==
    \/ Start \/ ConnQuit
    \/ \E r \in Reqs : ReqStep(r)
    \/ \E p \in Peers, g \in Groups : InboundPeerConnected(p, g)
    \/ \E p \in Peers : ReadVersion(p) \/ AddPeer(p) \/ PeerDisconnect(p) \/ BanPeer(p)
                        \/ PeerDone(p)
    \/ HandleAddPeerMsg \/ HandleDonePeerMsg \/ HandleBanPeerMsg \/ HandleRelayInvMsg
    \/ \E g \in Groups : RemoveNode(g) \/ DisconnectNode(g)
                         \/ \E permanent \in BOOLEAN : ConnectNode(g, permanent)
    \/ BlockMsg \/ RelayInventory \/ BlockQuit
    \/ Stop \/ PeerHandlerQuit \/ StopManagers \/ Cleanup

\* Every goroutine that can take a step eventually takes one.  The peer
\* handler's select is random, so a case that is ready again and again is
\* eventually chosen.
DoneFairness ==
    /\ \A p \in Peers : WF_vars(PeerDone(p))
    /\ SF_vars(HandleDonePeerMsg)

StopFairness ==
    /\ SF_vars(HandleRelayInvMsg) /\ SF_vars(RelayInventory) /\ WF_vars(BlockQuit)
    /\ SF_vars(PeerHandlerQuit) /\ WF_vars(StopManagers) /\ WF_vars(Cleanup)

Spec == Init /\ [][Next]_vars
FairSpec == Spec /\ DoneFairness
FairStopSpec == Spec /\ StopFairness

(***************************************************************************)
(* Properties.                                                             *)
(***************************************************************************)

\* The per-group counts that GetNewAddress relies on are exact, whichever way
\* a peer leaves the registry: handleDonePeerMsg, removeNodeMsg or
\* disconnectNodeMsg, before or after its done message.
GroupCounts ==
    \A g \in Groups :
        outboundGroups[g] =
            Cardinality({p \in outboundPeers \cup persistentPeers : peer[p].group = g})

Live == {r \in Reqs : req[r].at # None}

\* connHandler "makes sure that we maintain a pool of active outbound
\* connections": while the manager runs and has a source of addresses, the
\* attempts and the connections together never drop below the target.  No failure is retried twice: the
\* non-permanent ones exceed the target by at most those a user asked for.
PoolSize ==
    /\ AutoConnect /\ cm = "started" => Cardinality(Live) >= TargetOutbound
    /\ Cardinality({r \in Live : ~req[r].perm}) <= TargetOutbound + oneShots

\* A connection request never has two connected peers: a permanent request is
\* dialled again only after Disconnect closed its previous connection, although
\* the done message that asks for it travels through the peer handler.
OneConnection ==
    \A p, q \in Peers :
        p # q /\ peer[p].req # None /\ peer[p].req = peer[q].req
            => ~(peer[p].connected /\ peer[q].connected)

\* The connections of the manager are the requests it established, and each
\* belongs to a peer that has still to report its end: none is forgotten.
ConnsOwned ==
    /\ conns = {r \in Reqs : req[r].at = "established"}
    /\ ~Stopped => \A r \in conns : \E p \in Peers : peer[p].req = r /\ peer[p].done # "handled"

\* A request that connHandler holds as established belongs to one live connection
\* at most and to a peer whose end will be reported.
ConnsSound == OneConnection /\ ConnsOwned

\* --maxpeers bounds the peers in the registry, not counting whitelisted
\* inbound ones, however many are negotiating at once.
MaxPeersHeld ==
    Cardinality({p \in Registered : ~(peer[p].inbound /\ peer[p].group \in Whitelisted)})
        <= MaxPeers

\* A connection whose peer is gone does not occupy the pool for ever: its done
\* message reaches the manager through the peer handler, also for a peer that
\* was never registered or that a query removed, unless the server stops.
DeadConnectionLeaves ==
    \A r \in Reqs :
        (r \in conns /\ \A p \in Peers : peer[p].req = r => ~peer[p].connected)
            ~> (r \notin conns \/ shutdown)

\* Stop "gracefully shuts down the block manager by stopping all asynchronous
\* handlers and waiting for them to finish": the peer handler finishes.
ShutdownCompletes == shutdown ~> server = "done"

=============================================================================
