--------------------------- MODULE NetworkProofs ---------------------------
(***************************************************************************)
(* Proofs about Network for any finite sets of requests and peers: the     *)
(* registry of the peer handler, the counts by group, the connections of   *)
(* the manager and the size of its pool.                                   *)
(***************************************************************************)
EXTENDS Network, TLAPS, FiniteSetTheorems

(***************************************************************************)
(* The inductive invariant.                                                *)
(***************************************************************************)
\* The types but for the counts by group, which are natural numbers because they
\* are exact.
ConnTypes ==
    /\ req \in [Reqs -> Request] /\ conns \subseteq Reqs
    /\ failedAttempts \in 0..MaxFailedAttempts
    /\ cm \in {"created", "started", "stopped", "exited"}

PeerTypes == peer \in [Peers -> Peer]

ChanTypes ==
    /\ newPeers \in Seq(Peers) /\ Len(newPeers) <= MaxPeers
    /\ donePeers \in Seq(Peers) /\ Len(donePeers) <= MaxPeers
    /\ banPeers \in Seq(Groups) /\ Len(banPeers) <= MaxPeers
    /\ relayInv \in 0..MaxPeers

RegistryTypes ==
    /\ inboundPeers \subseteq Peers /\ outboundPeers \subseteq Peers
    /\ persistentPeers \subseteq Peers
    /\ outboundGroups \in [Groups -> Int]
    /\ banned \subseteq Groups

StopTypes ==
    /\ server \in {"run", "stopping", "waiting", "done"}
    /\ shutdown \in BOOLEAN
    /\ relaying \in 0..MaxRelay /\ blockDone \in BOOLEAN
    /\ oneShots \in Nat /\ events \in 0..MaxEvents

TypeInv == ConnTypes /\ PeerTypes /\ ChanTypes /\ RegistryTypes /\ StopTypes

\* A request that was or will be dialled has an address, and only a request that
\* is not permanent asks for one.
ReqOk(x) ==
    /\ x.at \in {"dial", "connected", "established"} => x.group \in Groups
    /\ x.at \in {"failed", "timer"} /\ x.perm => x.group \in Groups
    /\ x.at = "address" => ~x.perm

ReqInv == \A r \in Reqs : ReqOk(req[r])

\* A slot that is not in use is clear; an inbound peer has no request and every
\* other one has; the end of a peer is reported after its disconnect.
PeerOk(x) ==
    /\ x.at = "free" => x = NoPeer
    /\ x.at # "free" => x.group \in Groups /\ (x.inbound <=> x.req = None)
    /\ x.connected => x.done = "no"

\* The registered peers are in the map of their kind, and their slot in use.
RegistryInv ==
    /\ \A p \in inboundPeers : peer[p].at = "told" /\ peer[p].inbound
    /\ \A p \in outboundPeers :
          peer[p].at = "told" /\ ~peer[p].inbound /\ ~peer[p].persistent
    /\ \A p \in persistentPeers :
          peer[p].at = "told" /\ ~peer[p].inbound /\ peer[p].persistent

Distinct(s) == \A i, j \in DOMAIN s : s[i] = s[j] => i = j

\* The messages to the peer handler: one add and one done message per peer at
\* most, no add message for a registered peer.
MessageInv ==
    /\ Distinct(newPeers) /\ Distinct(donePeers)
    /\ \A p \in Range(newPeers) : peer[p].at = "told" /\ p \notin Registered
    /\ \A p \in Range(donePeers) : peer[p].done = "sent"

PeersInv == (\A p \in Peers : PeerOk(peer[p])) /\ RegistryInv /\ MessageInv

\* The request of a peer whose end is not handled yet is established, and it has
\* no other such peer.
Owns(p, r) == peer[p].req = r /\ peer[p].done # "handled"

ConnInv ==
    /\ conns = {r \in Reqs : req[r].at = "established"}
    /\ \A p \in Peers : \A r \in Reqs : Owns(p, r) => req[r].at = "established"
    /\ \A p, q \in Peers : \A r \in Reqs : Owns(p, r) /\ Owns(q, r) => p = q
    /\ ~Stopped => \A r \in conns : \E p \in Peers : Owns(p, r)

\* Before Start the only requests that are not permanent are the users'.
OneShot == {r \in Live : ~req[r].perm}

PoolInv ==
    /\ PoolSize
    /\ cm = "created" => Cardinality(OneShot) <= oneShots

NetworkInv ==
    TypeInv /\ ReqInv /\ PeersInv /\ GroupCounts /\ ConnInv /\ PoolInv /\ MaxPeersHeld

-----------------------------------------------------------------------------
(***************************************************************************)
(* Types.                                                                  *)
(***************************************************************************)
\* The constants the code counts with.
LEMMA ConstTypes ==
    /\ TargetOutbound \in Nat /\ TargetOutbound > 0 /\ MaxPeers \in Nat /\ MaxPeers > 0
    /\ MaxFailedAttempts \in Nat /\ MaxFailedAttempts > 0
    /\ MaxSameIP \in Nat /\ MaxRelay \in Nat /\ MaxEvents \in Nat
    BY NetworkAssumption

\* The updates of a peer's record.
LEMMA PeerFields ==
    /\ NoPeer \in Peer
    /\ \A x \in Peer :
          /\ [x EXCEPT !.connected = FALSE] \in Peer
          /\ \A a \in {"version", "told", "rejected"} : [x EXCEPT !.at = a] \in Peer
          /\ [x EXCEPT !.at = "rejected", !.connected = FALSE] \in Peer
          /\ \A d \in {"sent", "handled"} : [x EXCEPT !.done = d] \in Peer
<1>1. NoPeer \in Peer
    BY Zenon DEF NoPeer, Peer
<1>2. \A x \in Peer : [x EXCEPT !.connected = FALSE] \in Peer
    BY Zenon DEF Peer
<1>3. \A x \in Peer : \A a \in {"version", "told", "rejected"} : [x EXCEPT !.at = a] \in Peer
    BY Zenon DEF Peer
<1>4. \A x \in Peer : [x EXCEPT !.at = "rejected", !.connected = FALSE] \in Peer
    BY Zenon DEF Peer
<1>5. \A x \in Peer : \A d \in {"sent", "handled"} : [x EXCEPT !.done = d] \in Peer
    BY Zenon DEF Peer
<1> QED
    BY <1>1, <1>2, <1>3, <1>4, <1>5, Zenon

\* An update of one peer keeps the types of the others.
LEMMA PeerUpdate ==
    ASSUME PeerTypes, NEW STATE p, NEW x \in Peer, peer' = [peer EXCEPT ![p] = x]
    PROVE  PeerTypes'
    BY Zenon DEF PeerTypes

\* handleFailedConn keeps the types of the requests.
LEMMA HandleFailedTypes ==
    ASSUME ConnTypes, NEW STATE r, HandleFailedConn(r)
    PROVE  req' \in [Reqs -> Request] /\ failedAttempts' \in 0..MaxFailedAttempts
<1> USE NetworkAssumption
<1>1. NoReq \in Request
    BY Zenon DEF NoReq, Request, ReqStates
<1>2. \A a \in {"timer", "address"} : [NoReq EXCEPT !.at = a] \in Request
    BY Zenon DEF NoReq, Request, ReqStates
<1>3. \A x \in Request : [x EXCEPT !.at = "timer"] \in Request
    BY Zenon DEF Request, ReqStates
<1>4. CASE GivenUp(r)
    BY <1>1, <1>4, Zenon DEF HandleFailedConn, ConnTypes
<1>5. CASE ~GivenUp(r) /\ req[r].perm
    BY <1>3, <1>5 DEF HandleFailedConn, ConnTypes
<1>6. CASE ~GivenUp(r) /\ ~req[r].perm
  <2>1. failedAttempts' \in 0..MaxFailedAttempts
      BY <1>6 DEF HandleFailedConn, ConnTypes
  <2>2. \E a \in {"timer", "address"} : req' = [req EXCEPT ![r] = [NoReq EXCEPT !.at = a]]
      BY <1>6, Zenon DEF HandleFailedConn
  <2> QED
      BY <1>2, <2>1, <2>2, Zenon DEF ConnTypes
<1> QED
    BY <1>4, <1>5, <1>6, Zenon

\* ConnManager.Disconnect keeps them too.
LEMMA DisconnectTypes ==
    ASSUME ConnTypes, NEW STATE id, Disconnect(id), UNCHANGED cm
    PROVE  ConnTypes'
<1>1. CASE UNCHANGED <<req, conns, failedAttempts>>
    BY <1>1, Zenon DEF ConnTypes
<1>2. CASE conns' = conns \ {id} /\ HandleFailedConn(id)
    BY <1>2, HandleFailedTypes, Zenon DEF ConnTypes
<1>3. CASE conns' = conns \ {id} /\ req' = [req EXCEPT ![id] = NoReq] /\ UNCHANGED failedAttempts
  <2>1. NoReq \in Request
      BY Zenon DEF NoReq, Request, ReqStates
  <2> QED
      BY <1>3, <2>1, Zenon DEF ConnTypes
<1> QED
    BY <1>1, <1>2, <1>3, Zenon DEF Disconnect

\* A peer that loses its connection is a peer.
LEMMA DisconnectPeersTypes ==
    ASSUME TypeInv, NEW S \in SUBSET Peers, DisconnectPeers(S), Event
    PROVE  TypeInv'
<1> USE NetworkAssumption
<1>1. \A g \in Groups : Cardinality({p \in S : ~peer[p].inbound /\ peer[p].group = g}) \in Nat
  <2> SUFFICES ASSUME NEW g \in Groups
               PROVE  IsFiniteSet({p \in S : ~peer[p].inbound /\ peer[p].group = g})
      BY FS_CardinalityType, Zenon
  <2> QED
      BY FS_Subset, Zenon
<1>2. \A x \in Peer : [x EXCEPT !.connected = FALSE] \in Peer
    BY Zenon DEF Peer
<1>3. PeerTypes'
    BY <1>2, Zenon DEF DisconnectPeers, TypeInv, PeerTypes
<1>4. RegistryTypes'
    BY <1>1 DEF DisconnectPeers, TypeInv, RegistryTypes
<1>5. ConnTypes' /\ ChanTypes'
    BY Zenon DEF DisconnectPeers, TypeInv, ConnTypes, ChanTypes, connVars, channels
<1>6. StopTypes'
    BY DEF DisconnectPeers, Event, TypeInv, StopTypes, stopVars
<1> QED
    BY <1>3, <1>4, <1>5, <1>6, Zenon DEF TypeInv

\* Every step keeps the types.
LEMMA TypeStep == TypeInv /\ PeersInv /\ [Next]_vars => TypeInv'
<1> SUFFICES ASSUME TypeInv, PeersInv, [Next]_vars
             PROVE  TypeInv'
    BY Zenon
<1> USE ConstTypes DEF TypeInv
<1>1. CASE Start
  <2>1. ConnTypes'
    <3>1. PICK S \in SUBSET Reqs :
             req' = [r \in Reqs |-> IF r \in S THEN [NoReq EXCEPT !.at = "address"] ELSE req[r]]
        BY <1>1, Zenon DEF Start
    <3>2. [NoReq EXCEPT !.at = "address"] \in Request
        BY Zenon DEF NoReq, Request, ReqStates
    <3>3. req' \in [Reqs -> Request]
        BY <3>1, <3>2, Zenon DEF ConnTypes
    <3> QED
        BY <1>1, <3>3, Zenon DEF Start, ConnTypes
  <2>2. UNCHANGED <<peer, newPeers, donePeers, banPeers, relayInv, inboundPeers,
                   outboundPeers, persistentPeers, outboundGroups, banned, server,
                   shutdown, relaying, blockDone, oneShots, events>>
      BY <1>1, Zenon DEF Start, connVars, registry, channels, stopVars
  <2> QED
      BY <2>1, <2>2, Zenon DEF PeerTypes, ChanTypes, RegistryTypes, StopTypes
<1>2. CASE ConnQuit
  <2>1. ConnTypes'
      BY <1>2, Zenon DEF ConnQuit, connVars, registry, channels, stopVars, ConnTypes,
         Request, NoReq, ReqStates
  <2>2. UNCHANGED <<peer, newPeers, donePeers, banPeers, relayInv, inboundPeers,
                   outboundPeers, persistentPeers, outboundGroups, banned, server,
                   shutdown, relaying, blockDone, oneShots, events>>
      BY <1>2, Zenon DEF ConnQuit, connVars, registry, channels, stopVars
  <2> QED
      BY <2>1, <2>2, Zenon DEF PeerTypes, ChanTypes, RegistryTypes, StopTypes
<1>3. ASSUME NEW r \in Reqs, Abandon(r)
      PROVE  TypeInv'
  <2>1. ConnTypes'
      BY <1>3, Zenon DEF Abandon, connVars, registry, channels, stopVars, ConnTypes, Request,
         NoReq, ReqStates
  <2>2. UNCHANGED <<peer, newPeers, donePeers, banPeers, relayInv, inboundPeers,
                   outboundPeers, persistentPeers, outboundGroups, banned, server,
                   shutdown, relaying, blockDone, oneShots, events>>
      BY <1>3, Zenon DEF Abandon, connVars, registry, channels, stopVars
  <2> QED
      BY <2>1, <2>2, Zenon DEF PeerTypes, ChanTypes, RegistryTypes, StopTypes
<1>4. ASSUME NEW r \in Reqs, GetNewAddress(r)
      PROVE  TypeInv'
  <2>1. ConnTypes'
      BY <1>4 DEF GetNewAddress, connVars, registry, channels, stopVars, ConnTypes,
         Request, NoReq, ReqStates
  <2>2. UNCHANGED <<peer, newPeers, donePeers, banPeers, relayInv, inboundPeers,
                   outboundPeers, persistentPeers, outboundGroups, banned, server,
                   shutdown, relaying, blockDone, oneShots, events>>
      BY <1>4, Zenon DEF GetNewAddress, connVars, registry, channels, stopVars
  <2> QED
      BY <2>1, <2>2, Zenon DEF PeerTypes, ChanTypes, RegistryTypes, StopTypes
<1>5. ASSUME NEW r \in Reqs, Dial(r)
      PROVE  TypeInv'
  <2>1. ConnTypes'
      BY <1>5 DEF Dial, connVars, registry, channels, stopVars, ConnTypes, Request,
         NoReq, ReqStates
  <2>2. UNCHANGED <<peer, newPeers, donePeers, banPeers, relayInv, inboundPeers,
                   outboundPeers, persistentPeers, outboundGroups, banned, server,
                   shutdown, relaying, blockDone, oneShots, events>>
      BY <1>5, Zenon DEF Dial, connVars, registry, channels, stopVars
  <2> QED
      BY <2>1, <2>2, Zenon DEF PeerTypes, ChanTypes, RegistryTypes, StopTypes
<1>6. ASSUME NEW r \in Reqs, Retry(r)
      PROVE  TypeInv'
  <2>1. ConnTypes'
      BY <1>6 DEF Retry, connVars, registry, channels, stopVars, ConnTypes, Request,
         NoReq, ReqStates
  <2>2. UNCHANGED <<peer, newPeers, donePeers, banPeers, relayInv, inboundPeers,
                   outboundPeers, persistentPeers, outboundGroups, banned, server,
                   shutdown, relaying, blockDone, oneShots, events>>
      BY <1>6, Zenon DEF Retry, connVars, registry, channels, stopVars
  <2> QED
      BY <2>1, <2>2, Zenon DEF PeerTypes, ChanTypes, RegistryTypes, StopTypes
<1>7. ASSUME NEW r \in Reqs, ConnFailed(r)
      PROVE  TypeInv'
  <2>1. ConnTypes'
    <3>1. UNCHANGED <<conns, cm>> /\ HandleFailedConn(r)
        BY <1>7, Zenon DEF ConnFailed
    <3> QED
        BY <3>1, HandleFailedTypes, Zenon DEF ConnTypes
  <2>2. UNCHANGED <<peer, newPeers, donePeers, banPeers, relayInv, inboundPeers,
                   outboundPeers, persistentPeers, outboundGroups, banned, server,
                   shutdown, relaying, blockDone, oneShots, events>>
      BY <1>7, Zenon DEF ConnFailed, connVars, registry, channels, stopVars
  <2> QED
      BY <2>1, <2>2, Zenon DEF PeerTypes, ChanTypes, RegistryTypes, StopTypes
<1>8. ASSUME NEW r \in Reqs, ConnConnected(r)
      PROVE  TypeInv'
  <2>1. ConnTypes'
      BY <1>8 DEF ConnConnected, connVars, registry, channels, stopVars, ConnTypes,
         Request, NoReq, ReqStates
  <2>2. PeerTypes'
    <3>1. req[r].perm \in BOOLEAN /\ req[r].group \in Groups \cup {None}
        BY Zenon DEF ConnTypes, Request
    <3>2. [NoPeer EXCEPT !.at = "negotiating", !.connected = TRUE, !.persistent = req[r].perm,
                         !.req = r, !.group = req[r].group] \in Peer
        BY <3>1, Zenon DEF Peer, NoPeer
    <3>3. \E p \in Peers : peer' = [peer EXCEPT ![p] =
             [NoPeer EXCEPT !.at = "negotiating", !.connected = TRUE,
                            !.persistent = req[r].perm, !.req = r, !.group = req[r].group]]
        BY <1>8, Zenon DEF ConnConnected
    <3> QED
        BY <3>2, <3>3, PeerUpdate, Zenon
  <2>3. UNCHANGED <<newPeers, donePeers, banPeers, relayInv, inboundPeers,
                   outboundPeers, persistentPeers, outboundGroups, banned, server,
                   shutdown, relaying, blockDone, oneShots, events>>
      BY <1>8, Zenon DEF ConnConnected, connVars, registry, channels, stopVars
  <2> QED
      BY <2>1, <2>2, <2>3, Zenon DEF ChanTypes, RegistryTypes, StopTypes
<1>9. ASSUME NEW r \in Reqs, NEW g \in Groups, ConnectConfigured(r, g)
      PROVE  TypeInv'
  <2>1. ConnTypes'
      BY <1>9, Zenon DEF ConnectConfigured, connVars, registry, channels, stopVars,
         ConnTypes, Request, NoReq, ReqStates
  <2>2. UNCHANGED <<peer, newPeers, donePeers, banPeers, relayInv, inboundPeers,
                   outboundPeers, persistentPeers, outboundGroups, banned, server,
                   shutdown, relaying, blockDone, oneShots, events>>
      BY <1>9, Zenon DEF ConnectConfigured, connVars, registry, channels, stopVars
  <2> QED
      BY <2>1, <2>2, Zenon DEF PeerTypes, ChanTypes, RegistryTypes, StopTypes
<1>10. ASSUME NEW p \in Peers, NEW g \in Groups, InboundPeerConnected(p, g)
      PROVE  TypeInv'
  <2>1. PeerTypes'
      BY <1>10, Zenon DEF InboundPeerConnected, Event, connVars, registry, channels,
         stopVars, PeerTypes, Peer, NoPeer
  <2>2. StopTypes'
      BY <1>10 DEF InboundPeerConnected, Event, connVars, registry, channels,
         stopVars, StopTypes
  <2>3. UNCHANGED <<req, conns, failedAttempts, cm, newPeers, donePeers, banPeers,
                   relayInv, inboundPeers, outboundPeers, persistentPeers,
                   outboundGroups, banned>>
      BY <1>10, Zenon DEF InboundPeerConnected, Event, connVars, registry, channels, stopVars
  <2> QED
      BY <2>1, <2>2, <2>3, Zenon DEF ConnTypes, ChanTypes, RegistryTypes
<1>11. ASSUME NEW p \in Peers, ReadVersion(p)
      PROVE  TypeInv'
  <2>1. PeerTypes'
    <3>1. /\ [peer[p] EXCEPT !.at = "version"] \in Peer
          /\ [peer[p] EXCEPT !.at = "rejected", !.connected = FALSE] \in Peer
        BY PeerFields, Zenon DEF PeerTypes
    <3>2. \/ peer' = [peer EXCEPT ![p] = [peer[p] EXCEPT !.at = "version"]]
          \/ peer' = [peer EXCEPT ![p] =
                         [peer[p] EXCEPT !.at = "rejected", !.connected = FALSE]]
        BY <1>11, ZenonT(30) DEF ReadVersion
    <3> QED
        BY <3>1, <3>2, PeerUpdate, Zenon
  <2>2. UNCHANGED <<req, conns, failedAttempts, cm, newPeers, donePeers, banPeers,
                   relayInv, inboundPeers, outboundPeers, persistentPeers,
                   outboundGroups, banned, server, shutdown, relaying, blockDone,
                   oneShots, events>>
      BY <1>11, Zenon DEF ReadVersion, connVars, registry, channels, stopVars
  <2> QED
      BY <2>1, <2>2, Zenon DEF ConnTypes, ChanTypes, RegistryTypes, StopTypes
<1>12. ASSUME NEW p \in Peers, AddPeer(p)
      PROVE  TypeInv'
  <2>1. PeerTypes'
    <3>1. [peer[p] EXCEPT !.at = "told"] \in Peer
        BY PeerFields, Zenon DEF PeerTypes
    <3>2. peer' = [peer EXCEPT ![p] = [peer[p] EXCEPT !.at = "told"]]
        BY <1>12, Zenon DEF AddPeer
    <3> QED
        BY <3>1, <3>2, PeerUpdate, Zenon
  <2>2. ChanTypes'
      BY <1>12 DEF AddPeer, connVars, registry, channels, stopVars, ChanTypes
  <2>3. UNCHANGED <<req, conns, failedAttempts, cm, inboundPeers, outboundPeers,
                   persistentPeers, outboundGroups, banned, server, shutdown,
                   relaying, blockDone, oneShots, events>>
      BY <1>12, Zenon DEF AddPeer, connVars, registry, channels, stopVars
  <2> QED
      BY <2>1, <2>2, <2>3, Zenon DEF ConnTypes, RegistryTypes, StopTypes
<1>13. ASSUME NEW p \in Peers, PeerDisconnect(p)
      PROVE  TypeInv'
  <2>1. PeerTypes'
    <3>1. [peer[p] EXCEPT !.connected = FALSE] \in Peer
        BY PeerFields, Zenon DEF PeerTypes
    <3>2. peer' = [peer EXCEPT ![p] = [peer[p] EXCEPT !.connected = FALSE]]
        BY <1>13, Zenon DEF PeerDisconnect
    <3> QED
        BY <3>1, <3>2, PeerUpdate, Zenon
  <2>2. StopTypes'
      BY <1>13 DEF PeerDisconnect, Event, connVars, registry, channels, stopVars,
         StopTypes
  <2>3. UNCHANGED <<req, conns, failedAttempts, cm, newPeers, donePeers, banPeers,
                   relayInv, inboundPeers, outboundPeers, persistentPeers,
                   outboundGroups, banned>>
      BY <1>13, Zenon DEF PeerDisconnect, Event, connVars, registry, channels, stopVars
  <2> QED
      BY <2>1, <2>2, <2>3, Zenon DEF ConnTypes, ChanTypes, RegistryTypes
<1>14. ASSUME NEW p \in Peers, BanPeer(p)
      PROVE  TypeInv'
  <2>1. PeerTypes'
    <3>1. [peer[p] EXCEPT !.connected = FALSE] \in Peer
        BY PeerFields, Zenon DEF PeerTypes
    <3>2. peer' = [peer EXCEPT ![p] = [peer[p] EXCEPT !.connected = FALSE]]
        BY <1>14, Zenon DEF BanPeer
    <3> QED
        BY <3>1, <3>2, PeerUpdate, Zenon
  <2>2. ChanTypes'
    <3>1. peer[p].group \in Groups
        BY <1>14, Zenon DEF BanPeer, PeersInv, PeerOk
    <3> QED
        BY <1>14, <3>1 DEF BanPeer, ChanTypes
  <2>3. StopTypes'
      BY <1>14 DEF BanPeer, Event, connVars, registry, channels, stopVars, StopTypes
  <2>4. UNCHANGED <<req, conns, failedAttempts, cm, inboundPeers, outboundPeers,
                   persistentPeers, outboundGroups, banned>>
      BY <1>14, Zenon DEF BanPeer, Event, connVars, registry, channels, stopVars
  <2> QED
      BY <2>1, <2>2, <2>3, <2>4, Zenon DEF ConnTypes, RegistryTypes
<1>15. ASSUME NEW p \in Peers, PeerDone(p)
      PROVE  TypeInv'
  <2>1. PeerTypes'
    <3>1. [peer[p] EXCEPT !.done = "sent"] \in Peer
        BY PeerFields, Zenon DEF PeerTypes
    <3>2. peer' = [peer EXCEPT ![p] = [peer[p] EXCEPT !.done = "sent"]]
        BY <1>15, Zenon DEF PeerDone
    <3> QED
        BY <3>1, <3>2, PeerUpdate, Zenon
  <2>2. ChanTypes'
      BY <1>15 DEF PeerDone, connVars, registry, channels, stopVars, ChanTypes
  <2>3. UNCHANGED <<req, conns, failedAttempts, cm, inboundPeers, outboundPeers,
                   persistentPeers, outboundGroups, banned, server, shutdown,
                   relaying, blockDone, oneShots, events>>
      BY <1>15, Zenon DEF PeerDone, connVars, registry, channels, stopVars
  <2> QED
      BY <2>1, <2>2, <2>3, Zenon DEF ConnTypes, RegistryTypes, StopTypes
<1>16. CASE HandleAddPeerMsg
  <2>1. PeerTypes'
    <3>1. Head(newPeers) \in Peers
        BY <1>16 DEF HandleAddPeerMsg, ChanTypes
    <3>2. /\ NoPeer \in Peer
          /\ [peer[Head(newPeers)] EXCEPT !.connected = FALSE] \in Peer
        BY <3>1, PeerFields, Zenon DEF PeerTypes
    <3>3. peer' = peer \/ \E x \in Peer : peer' = [peer EXCEPT ![Head(newPeers)] = x]
        BY <1>16, <3>2, Zenon DEF HandleAddPeerMsg
    <3> QED
        BY <3>1, <3>3, PeerUpdate, Zenon DEF PeerTypes
  <2>2. ChanTypes'
      BY <1>16 DEF HandleAddPeerMsg, ChanTypes
  <2>3. RegistryTypes'
    <3>1. Head(newPeers) \in Peers
        BY <1>16 DEF HandleAddPeerMsg, ChanTypes
    <3>2. \/ UNCHANGED <<inboundPeers, outboundPeers, persistentPeers, outboundGroups>>
          \/ /\ inboundPeers' \subseteq inboundPeers \cup {Head(newPeers)}
             /\ outboundPeers' \subseteq outboundPeers \cup {Head(newPeers)}
             /\ persistentPeers' \subseteq persistentPeers \cup {Head(newPeers)}
             /\ outboundGroups' \in [Groups -> Int]
        BY <1>16 DEF HandleAddPeerMsg, RegistryTypes
    <3>3. banned' \subseteq banned
        BY <1>16, Zenon DEF HandleAddPeerMsg
    <3> QED
        BY <3>1, <3>2, <3>3, Zenon DEF RegistryTypes
  <2>4. UNCHANGED <<req, conns, failedAttempts, cm, server, shutdown, relaying,
                   blockDone, oneShots, events>>
      BY <1>16, Zenon DEF HandleAddPeerMsg, connVars, registry, channels, stopVars
  <2> QED
      BY <2>1, <2>2, <2>3, <2>4, Zenon DEF ConnTypes, StopTypes
<1>17. CASE HandleDonePeerMsg
  <2>1. ConnTypes'
    <3>1. \/ UNCHANGED <<req, conns, failedAttempts>>
          \/ Disconnect(peer[Head(donePeers)].req)
        BY <1>17, Zenon DEF HandleDonePeerMsg
    <3>2. cm' = cm
        BY <1>17, Zenon DEF HandleDonePeerMsg
    <3> QED
        BY <3>1, <3>2, DisconnectTypes, Zenon DEF ConnTypes
  <2>2. PeerTypes'
    <3>1. Head(donePeers) \in Peers
        BY <1>17 DEF HandleDonePeerMsg, ChanTypes
    <3>2. /\ NoPeer \in Peer
          /\ [peer[Head(donePeers)] EXCEPT !.done = "handled"] \in Peer
        BY <3>1, PeerFields, Zenon DEF PeerTypes
    <3>3. \E x \in Peer : peer' = [peer EXCEPT ![Head(donePeers)] = x]
        BY <1>17, <3>2, Zenon DEF HandleDonePeerMsg
    <3> QED
        BY <3>1, <3>3, PeerUpdate, Zenon
  <2>3. ChanTypes'
      BY <1>17 DEF HandleDonePeerMsg, ChanTypes
  <2>4. RegistryTypes'
    <3>1. ASSUME NEW g
          PROVE  [outboundGroups EXCEPT ![g] = @ - 1] \in [Groups -> Int]
      <4>1. CASE g \in Groups
          BY <4>1 DEF RegistryTypes
      <4>2. CASE g \notin Groups
          BY <4>2, Zenon DEF RegistryTypes
      <4> QED
          BY <4>1, <4>2, Zenon
    <3>2. \/ outboundGroups' = outboundGroups
          \/ \E g : outboundGroups' = [outboundGroups EXCEPT ![g] = @ - 1]
        BY <1>17, Zenon DEF HandleDonePeerMsg
    <3>3. /\ inboundPeers' \subseteq inboundPeers /\ outboundPeers' \subseteq outboundPeers
          /\ persistentPeers' \subseteq persistentPeers /\ banned' = banned
        BY <1>17, Zenon DEF HandleDonePeerMsg
    <3> QED
        BY <3>1, <3>2, <3>3 DEF RegistryTypes
  <2>5. UNCHANGED <<server, shutdown, relaying, blockDone, oneShots, events>>
      BY <1>17, Zenon DEF HandleDonePeerMsg, connVars, registry, channels, stopVars
  <2> QED
      BY <2>1, <2>2, <2>3, <2>4, <2>5, Zenon DEF StopTypes
<1>18. CASE HandleBanPeerMsg
  <2>1. ChanTypes'
      BY <1>18 DEF HandleBanPeerMsg, connVars, registry, channels, stopVars, ChanTypes
  <2>2. RegistryTypes'
    <3>1. Head(banPeers) \in Groups
        BY <1>18 DEF HandleBanPeerMsg, ChanTypes
    <3> QED
        BY <1>18, <3>1, Zenon DEF HandleBanPeerMsg, RegistryTypes
  <2>3. UNCHANGED <<req, conns, failedAttempts, cm, peer, server, shutdown, relaying,
                   blockDone, oneShots, events>>
      BY <1>18, Zenon DEF HandleBanPeerMsg, connVars, registry, channels, stopVars
  <2> QED
      BY <2>1, <2>2, <2>3, Zenon DEF ConnTypes, PeerTypes, StopTypes
<1>19. CASE HandleRelayInvMsg
  <2>1. ChanTypes'
      BY <1>19 DEF HandleRelayInvMsg, connVars, registry, channels, stopVars,
         ChanTypes
  <2>2. UNCHANGED <<req, conns, failedAttempts, cm, peer, inboundPeers, outboundPeers,
                   persistentPeers, outboundGroups, banned, server, shutdown,
                   relaying, blockDone, oneShots, events>>
      BY <1>19, Zenon DEF HandleRelayInvMsg, connVars, registry, channels, stopVars
  <2> QED
      BY <2>1, <2>2, Zenon DEF ConnTypes, PeerTypes, RegistryTypes, StopTypes
<1>20. ASSUME NEW g \in Groups, RemoveNode(g)
      PROVE  TypeInv'
  <2>1. PICK p \in persistentPeers : DisconnectPeers({p})
      BY <1>20, Zenon DEF RemoveNode
  <2>2. {p} \subseteq Peers
      BY Zenon DEF RegistryTypes
  <2> QED
      BY <1>20, <2>1, <2>2, DisconnectPeersTypes, Zenon DEF RemoveNode
<1>21. ASSUME NEW g \in Groups, DisconnectNode(g)
      PROVE  TypeInv'
  <2>1. PICK S \in SUBSET Peers : DisconnectPeers(S)
      BY <1>21, Zenon DEF DisconnectNode, RegistryTypes
  <2> QED
      BY <1>21, <2>1, DisconnectPeersTypes, Zenon DEF DisconnectNode
<1>22. ASSUME NEW g \in Groups, NEW permanent \in BOOLEAN, ConnectNode(g, permanent)
      PROVE  TypeInv'
  <2>1. ConnTypes'
      BY <1>22 DEF ConnectNode, Event, connVars, registry, channels, stopVars,
         ConnTypes, Request, NoReq, ReqStates
  <2>2. StopTypes'
      BY <1>22 DEF ConnectNode, Event, connVars, registry, channels, stopVars,
         StopTypes
  <2>3. UNCHANGED <<peer, newPeers, donePeers, banPeers, relayInv, inboundPeers,
                   outboundPeers, persistentPeers, outboundGroups, banned>>
      BY <1>22, Zenon DEF ConnectNode, Event, connVars, registry, channels, stopVars
  <2> QED
      BY <2>1, <2>2, <2>3, Zenon DEF PeerTypes, ChanTypes, RegistryTypes
<1>23. CASE BlockMsg
  <2>1. StopTypes'
      BY <1>23 DEF BlockMsg, Event, connVars, registry, channels, stopVars, StopTypes
  <2>2. UNCHANGED <<req, conns, failedAttempts, cm, peer, newPeers, donePeers,
                   banPeers, relayInv, inboundPeers, outboundPeers, persistentPeers,
                   outboundGroups, banned>>
      BY <1>23, Zenon DEF BlockMsg, Event, connVars, registry, channels, stopVars
  <2> QED
      BY <2>1, <2>2, Zenon DEF ConnTypes, PeerTypes, ChanTypes, RegistryTypes
<1>24. CASE RelayInventory
  <2>1. ChanTypes'
      BY <1>24 DEF RelayInventory, connVars, registry, channels, stopVars, ChanTypes
  <2>2. StopTypes'
      BY <1>24 DEF RelayInventory, connVars, registry, channels, stopVars, StopTypes
  <2>3. UNCHANGED <<req, conns, failedAttempts, cm, peer, inboundPeers, outboundPeers,
                   persistentPeers, outboundGroups, banned>>
      BY <1>24, Zenon DEF RelayInventory, connVars, registry, channels, stopVars
  <2> QED
      BY <2>1, <2>2, <2>3, Zenon DEF ConnTypes, PeerTypes, RegistryTypes
<1>25. CASE BlockQuit
  <2>1. StopTypes'
      BY <1>25, Zenon DEF BlockQuit, connVars, registry, channels, stopVars, StopTypes
  <2>2. UNCHANGED <<req, conns, failedAttempts, cm, peer, newPeers, donePeers,
                   banPeers, relayInv, inboundPeers, outboundPeers, persistentPeers,
                   outboundGroups, banned>>
      BY <1>25, Zenon DEF BlockQuit, connVars, registry, channels, stopVars
  <2> QED
      BY <2>1, <2>2, Zenon DEF ConnTypes, PeerTypes, ChanTypes, RegistryTypes
<1>26. CASE Stop
  <2>1. StopTypes'
      BY <1>26 DEF Stop, Event, connVars, registry, channels, stopVars, StopTypes
  <2>2. UNCHANGED <<req, conns, failedAttempts, cm, peer, newPeers, donePeers,
                   banPeers, relayInv, inboundPeers, outboundPeers, persistentPeers,
                   outboundGroups, banned>>
      BY <1>26, Zenon DEF Stop, Event, connVars, registry, channels, stopVars
  <2> QED
      BY <2>1, <2>2, Zenon DEF ConnTypes, PeerTypes, ChanTypes, RegistryTypes
<1>27. CASE PeerHandlerQuit
  <2>1. PeerTypes'
      BY <1>27, PeerFields, Zenon DEF PeerHandlerQuit, PeerTypes
  <2>2. StopTypes'
      BY <1>27, Zenon DEF PeerHandlerQuit, connVars, registry, channels, stopVars, StopTypes
  <2>3. UNCHANGED <<req, conns, failedAttempts, cm, newPeers, donePeers, banPeers,
                   relayInv, inboundPeers, outboundPeers, persistentPeers,
                   outboundGroups, banned>>
      BY <1>27, Zenon DEF PeerHandlerQuit, connVars, registry, channels, stopVars
  <2> QED
      BY <2>1, <2>2, <2>3, Zenon DEF ConnTypes, ChanTypes, RegistryTypes
<1>28. CASE StopManagers
  <2>1. ConnTypes'
      BY <1>28, Zenon DEF StopManagers, connVars, registry, channels, stopVars, ConnTypes,
         Request, NoReq, ReqStates
  <2>2. StopTypes'
      BY <1>28, Zenon DEF StopManagers, connVars, registry, channels, stopVars, StopTypes
  <2>3. UNCHANGED <<peer, newPeers, donePeers, banPeers, relayInv, inboundPeers,
                   outboundPeers, persistentPeers, outboundGroups, banned>>
      BY <1>28, Zenon DEF StopManagers, connVars, registry, channels, stopVars
  <2> QED
      BY <2>1, <2>2, <2>3, Zenon DEF PeerTypes, ChanTypes, RegistryTypes
<1>29. CASE Cleanup
  <2>1. ChanTypes'
      BY <1>29 DEF Cleanup, connVars, registry, channels, stopVars, ChanTypes
  <2>2. StopTypes'
      BY <1>29, Zenon DEF Cleanup, connVars, registry, channels, stopVars, StopTypes
  <2>3. UNCHANGED <<req, conns, failedAttempts, cm, peer, inboundPeers, outboundPeers,
                   persistentPeers, outboundGroups, banned>>
      BY <1>29, Zenon DEF Cleanup, connVars, registry, channels, stopVars
  <2> QED
      BY <2>1, <2>2, <2>3, Zenon DEF ConnTypes, PeerTypes, RegistryTypes
<1>30. CASE UNCHANGED vars
    BY <1>30, Zenon DEF vars, connVars, registry, channels, stopVars, ConnTypes, PeerTypes, ChanTypes, RegistryTypes, StopTypes
<1> QED
    BY <1>1, <1>2, <1>3, <1>4, <1>5, <1>6, <1>7, <1>8, <1>9, <1>10, <1>11, <1>12,
       <1>13, <1>14, <1>15, <1>16, <1>17, <1>18, <1>19, <1>20, <1>21, <1>22, <1>23,
       <1>24, <1>25, <1>26, <1>27, <1>28, <1>29, <1>30, Zenon DEF Next, ReqStep

-----------------------------------------------------------------------------
(***************************************************************************)
(* The peers, the registry and the messages to the peer handler.           *)
(***************************************************************************)
\* Sending on a channel.
LEMMA AppendRange ==
    ASSUME NEW S, NEW s \in Seq(S), NEW x \in S
    PROVE  /\ Range(Append(s, x)) = Range(s) \cup {x}
           /\ Distinct(s) /\ x \notin Range(s) => Distinct(Append(s, x))
<1>1. /\ DOMAIN Append(s, x) = DOMAIN s \cup {Len(s) + 1} /\ Append(s, x)[Len(s) + 1] = x
      /\ \A i \in DOMAIN s : Append(s, x)[i] = s[i] /\ i # Len(s) + 1
    OBVIOUS
<1> QED
    BY <1>1, Zenon DEF Range, Distinct

\* Receiving from a channel.
LEMMA TailRange ==
    ASSUME NEW S, NEW s \in Seq(S), s # <<>>, Distinct(s)
    PROVE  /\ Head(s) \in Range(s) /\ Head(s) \in S
           /\ Range(Tail(s)) = Range(s) \ {Head(s)} /\ Distinct(Tail(s))
<1>1. /\ Head(s) = s[1] /\ 1 \in DOMAIN s /\ Len(s) \in Nat /\ DOMAIN s = 1..Len(s)
      /\ Tail(s) \in Seq(S) /\ DOMAIN Tail(s) = 1..(Len(s) - 1)
      /\ \A i \in 1..(Len(s) - 1) : Tail(s)[i] = s[i + 1] /\ i + 1 \in DOMAIN s
    OBVIOUS
<1>2. Head(s) \in Range(s) /\ Head(s) \in S
    BY <1>1 DEF Range
<1>3. Range(Tail(s)) \subseteq Range(s) \ {Head(s)}
    BY <1>1 DEF Range, Distinct
<1>4. ASSUME NEW x \in Range(s), x # Head(s)
      PROVE  x \in Range(Tail(s))
  <2>1. PICK i \in DOMAIN s : s[i] = x
      BY <1>4, Zenon DEF Range
  <2>2. i - 1 \in 1..(Len(s) - 1) /\ Tail(s)[i - 1] = s[i]
      BY <1>1, <1>4, <2>1
  <2> QED
      BY <1>1, <2>1, <2>2, Zenon DEF Range
<1>5. Distinct(Tail(s))
    BY <1>1 DEF Distinct
<1> QED
    BY <1>2, <1>3, <1>4, <1>5, Zenon

\* What a step that changes one peer has to respect.
LEMMA SlotUpdate ==
    ASSUME TypeInv, PeersInv, NEW p \in Peers, NEW x \in Peer, PeerOk(x),
           peer' = [peer EXCEPT ![p] = x],
           inboundPeers' \subseteq inboundPeers, outboundPeers' \subseteq outboundPeers,
           persistentPeers' \subseteq persistentPeers,
           p \in Registered' => /\ x.at = "told" /\ x.inbound = peer[p].inbound
                                /\ x.persistent = peer[p].persistent,
           Distinct(newPeers'), Range(newPeers') \subseteq Range(newPeers) \cup {p},
           p \in Range(newPeers') => x.at = "told" /\ p \notin Registered',
           Distinct(donePeers'), Range(donePeers') \subseteq Range(donePeers) \cup {p},
           p \in Range(donePeers') => x.done = "sent",
           newPeers' \in Seq(Peers), donePeers' \in Seq(Peers)
    PROVE  PeersInv'
<1>1. /\ peer'[p] = x
      /\ \A q \in Peers : q # p => peer'[q] = peer[q]
    BY Zenon DEF TypeInv, PeerTypes
<1>2. \A q \in Peers : PeerOk(peer'[q])
    BY <1>1, Zenon DEF PeersInv
<1>3. RegistryInv'
  <2>1. inboundPeers \subseteq Peers /\ outboundPeers \subseteq Peers /\ persistentPeers \subseteq Peers
      BY Zenon DEF TypeInv, RegistryTypes
  <2>2. \A q \in Registered' :
           peer'[q].at = "told" /\ peer'[q].inbound = peer[q].inbound
           /\ peer'[q].persistent = peer[q].persistent
    <3> SUFFICES ASSUME NEW q \in Registered'
                 PROVE  peer'[q].at = "told" /\ peer'[q].inbound = peer[q].inbound
                        /\ peer'[q].persistent = peer[q].persistent
        BY Zenon
    <3>1. q \in Peers
        BY <2>1, Zenon DEF Registered
    <3>2. q # p => peer[q].at = "told"
        BY Zenon DEF PeersInv, RegistryInv, Registered
    <3> QED
        BY <1>1, <3>1, <3>2, Zenon
  <2>3. \A q \in inboundPeers' : peer'[q].at = "told" /\ peer'[q].inbound
      BY <2>2, Zenon DEF PeersInv, RegistryInv, Registered
  <2>4. \A q \in outboundPeers' :
           peer'[q].at = "told" /\ ~peer'[q].inbound /\ ~peer'[q].persistent
      BY <2>2, Zenon DEF PeersInv, RegistryInv, Registered
  <2>5. \A q \in persistentPeers' :
           peer'[q].at = "told" /\ ~peer'[q].inbound /\ peer'[q].persistent
      BY <2>2, Zenon DEF PeersInv, RegistryInv, Registered
  <2> QED
      BY <2>3, <2>4, <2>5, Zenon DEF RegistryInv
<1>4. MessageInv'
  <2>1. Range(newPeers') \subseteq Peers /\ Range(donePeers') \subseteq Peers
      BY DEF Range
  <2>2. \A q \in Range(newPeers') : peer'[q].at = "told" /\ q \notin Registered'
      BY <1>1, <2>1, Zenon DEF PeersInv, MessageInv, Registered
  <2>3. \A q \in Range(donePeers') : peer'[q].done = "sent"
      BY <1>1, <2>1, Zenon DEF PeersInv, MessageInv
  <2> QED
      BY <2>2, <2>3, Zenon DEF MessageInv
<1> QED
    BY <1>2, <1>3, <1>4, Zenon DEF PeersInv

\* Closing the connection of an empty slot changes nothing.
LEMMA NoPeerClosed == [NoPeer EXCEPT !.connected = FALSE] = NoPeer
<1>1. NoPeer.connected = FALSE
    BY Zenon DEF NoPeer
<1>2. NoPeer = [x \in DOMAIN NoPeer |-> NoPeer[x]]
    BY Zenon DEF NoPeer
<1> QED
    BY <1>1, <1>2, Zenon

\* A step that only loses connections and only takes peers out of the registry.
LEMMA PeersFrame ==
    ASSUME TypeInv, PeersInv,
           \A p \in Peers : \/ peer'[p] = peer[p]
                            \/ peer'[p] = [peer[p] EXCEPT !.connected = FALSE],
           inboundPeers' \subseteq inboundPeers, outboundPeers' \subseteq outboundPeers,
           persistentPeers' \subseteq persistentPeers,
           newPeers' \in {newPeers, <<>>}, donePeers' \in {donePeers, <<>>}
    PROVE  PeersInv'
<1>1. ASSUME NEW p \in Peers
      PROVE  /\ peer'[p].at = peer[p].at /\ peer'[p].inbound = peer[p].inbound
             /\ peer'[p].persistent = peer[p].persistent /\ peer'[p].done = peer[p].done
             /\ PeerOk(peer'[p])
  <2>1. PeerOk(peer[p]) /\ peer[p] \in Peer
      BY Zenon DEF PeersInv, TypeInv, PeerTypes
  <2> DEFINE y == [peer[p] EXCEPT !.connected = FALSE]
  <2>2. /\ y.at = peer[p].at /\ y.inbound = peer[p].inbound /\ y.done = peer[p].done
        /\ y.persistent = peer[p].persistent /\ y.req = peer[p].req
        /\ y.group = peer[p].group /\ y.connected = FALSE
      BY <2>1, Zenon DEF Peer
  <2>3. peer[p] = NoPeer => y = NoPeer
      BY NoPeerClosed, Zenon
  <2> HIDE DEF y
  <2>4. PeerOk(y)
    <3>1. y.at = "free" => y = NoPeer
        BY <2>1, <2>2, <2>3, Zenon DEF PeerOk
    <3>2. y.at # "free" => y.group \in Groups /\ (y.inbound <=> y.req = None)
        BY <2>1, <2>2, Zenon DEF PeerOk
    <3> QED
        BY <2>2, <3>1, <3>2, Zenon DEF PeerOk
  <2>5. peer'[p] = peer[p] \/ peer'[p] = y
      BY Zenon DEF y
  <2> QED
      BY <2>1, <2>2, <2>4, <2>5, Zenon
<1>2. RegistryInv'
  <2>1. inboundPeers \subseteq Peers /\ outboundPeers \subseteq Peers /\ persistentPeers \subseteq Peers
      BY Zenon DEF TypeInv, RegistryTypes
  <2> QED
      BY <1>1, <2>1, Zenon DEF PeersInv, RegistryInv
<1>3. MessageInv'
  <2>1. Range(newPeers) \subseteq Peers /\ Range(donePeers) \subseteq Peers
      BY DEF Range, TypeInv, ChanTypes
  <2>2. Range(<<>>) = {} /\ Distinct(<<>>)
      BY DEF Range, Distinct
  <2>3. Distinct(newPeers') /\ Range(newPeers') \subseteq Range(newPeers)
      BY <2>2, Zenon DEF PeersInv, MessageInv
  <2>4. Distinct(donePeers') /\ Range(donePeers') \subseteq Range(donePeers)
      BY <2>2, Zenon DEF PeersInv, MessageInv
  <2>5. Registered' \subseteq Registered
      BY Zenon DEF Registered
  <2>6. \A q \in Range(newPeers') : peer'[q].at = "told" /\ q \notin Registered'
      BY <1>1, <2>1, <2>3, <2>5, Zenon DEF PeersInv, MessageInv
  <2>7. \A q \in Range(donePeers') : peer'[q].done = "sent"
      BY <1>1, <2>1, <2>4, Zenon DEF PeersInv, MessageInv
  <2> QED
      BY <2>3, <2>4, <2>6, <2>7, Zenon DEF MessageInv
<1> QED
    BY <1>1, <1>2, <1>3, Zenon DEF PeersInv

\* The updates of a peer that is in use.
LEMMA PeerEdits ==
    ASSUME NEW x \in Peer, PeerOk(x), x.at # "free"
    PROVE  /\ \A a \in {"version", "told", "rejected"} : PeerOk([x EXCEPT !.at = a])
           /\ PeerOk([x EXCEPT !.connected = FALSE])
           /\ PeerOk([x EXCEPT !.at = "rejected", !.connected = FALSE])
           /\ ~x.connected => \A d \in {"sent", "handled"} : PeerOk([x EXCEPT !.done = d])
<1>1. \A a \in {"version", "told", "rejected"} : PeerOk([x EXCEPT !.at = a])
    BY Zenon DEF PeerOk, Peer
<1>2. PeerOk([x EXCEPT !.connected = FALSE])
    BY Zenon DEF PeerOk, Peer
<1>3. PeerOk([x EXCEPT !.at = "rejected", !.connected = FALSE])
    BY Zenon DEF PeerOk, Peer
<1>4. ~x.connected => \A d \in {"sent", "handled"} : PeerOk([x EXCEPT !.done = d])
    BY Zenon DEF PeerOk, Peer
<1> QED
    BY <1>1, <1>2, <1>3, <1>4, Zenon

\* A step that changes one peer that nothing refers to.
LEMMA SlotSame ==
    ASSUME TypeInv, PeersInv, NEW p \in Peers, NEW x \in Peer, PeerOk(x),
           peer' = [peer EXCEPT ![p] = x],
           UNCHANGED <<newPeers, donePeers, inboundPeers, outboundPeers, persistentPeers>>,
           p \notin Registered, p \notin Range(newPeers), p \notin Range(donePeers)
    PROVE  PeersInv'
<1>1. newPeers' \in Seq(Peers) /\ donePeers' \in Seq(Peers)
    BY Zenon DEF TypeInv, ChanTypes
<1>2. /\ Distinct(newPeers') /\ Distinct(donePeers')
      /\ p \notin Registered' /\ p \notin Range(newPeers') /\ p \notin Range(donePeers')
    BY Zenon DEF PeersInv, MessageInv, Registered
<1> QED
    BY <1>1, <1>2, SlotUpdate, Zenon

\* Nothing refers to a slot that is not in use.
LEMMA FreeSlot ==
    ASSUME PeersInv, NEW p \in Peers, peer[p].at = "free"
    PROVE  p \notin Registered /\ p \notin Range(newPeers) /\ p \notin Range(donePeers)
<1>1. p \notin Registered /\ p \notin Range(newPeers)
    BY Zenon DEF PeersInv, RegistryInv, MessageInv, Registered
<1>2. peer[p] = NoPeer
    BY Zenon DEF PeersInv, PeerOk
<1>3. peer[p].done = "no"
    BY <1>2 DEF NoPeer
<1> QED
    BY <1>1, <1>3, Zenon DEF PeersInv, MessageInv

\* disconnectPeer takes peers out of the registry and closes their connections.
LEMMA DisconnectPeersFrame ==
    ASSUME TypeInv, PeersInv, NEW S, DisconnectPeers(S)
    PROVE  PeersInv'
<1>1. \A p \in Peers : \/ peer'[p] = peer[p]
                       \/ peer'[p] = [peer[p] EXCEPT !.connected = FALSE]
    BY Zenon DEF DisconnectPeers
<1>2. /\ inboundPeers' \subseteq inboundPeers /\ outboundPeers' \subseteq outboundPeers
      /\ persistentPeers' \subseteq persistentPeers
      /\ UNCHANGED <<newPeers, donePeers>>
    BY Zenon DEF DisconnectPeers, channels
<1> QED
    BY <1>1, <1>2, PeersFrame, Zenon

\* Every step keeps the peers, the registry and the channels consistent.
LEMMA PeersStep == TypeInv /\ ReqInv /\ PeersInv /\ [Next]_vars => PeersInv'
<1> SUFFICES ASSUME TypeInv, ReqInv, PeersInv, [Next]_vars
             PROVE  PeersInv'
    BY Zenon
<1>1. CASE Start
  <2>1. UNCHANGED <<peer, newPeers, donePeers, inboundPeers, outboundPeers,
                   persistentPeers>>
      BY <1>1, Zenon DEF Start, channels, registry
  <2> QED
      BY <2>1, PeersFrame, Zenon
<1>2. CASE ConnQuit
  <2>1. UNCHANGED <<peer, newPeers, donePeers, inboundPeers, outboundPeers,
                   persistentPeers>>
      BY <1>2, Zenon DEF ConnQuit, channels, registry
  <2> QED
      BY <2>1, PeersFrame, Zenon
<1>3. ASSUME NEW r \in Reqs, Abandon(r)
      PROVE  PeersInv'
  <2>1. UNCHANGED <<peer, newPeers, donePeers, inboundPeers, outboundPeers,
                   persistentPeers>>
      BY <1>3, Zenon DEF Abandon, channels, registry
  <2> QED
      BY <2>1, PeersFrame, Zenon
<1>4. ASSUME NEW r \in Reqs, GetNewAddress(r)
      PROVE  PeersInv'
  <2>1. UNCHANGED <<peer, newPeers, donePeers, inboundPeers, outboundPeers,
                   persistentPeers>>
      BY <1>4, Zenon DEF GetNewAddress, channels, registry
  <2> QED
      BY <2>1, PeersFrame, Zenon
<1>5. ASSUME NEW r \in Reqs, Dial(r)
      PROVE  PeersInv'
  <2>1. UNCHANGED <<peer, newPeers, donePeers, inboundPeers, outboundPeers,
                   persistentPeers>>
      BY <1>5, Zenon DEF Dial, channels, registry
  <2> QED
      BY <2>1, PeersFrame, Zenon
<1>6. ASSUME NEW r \in Reqs, Retry(r)
      PROVE  PeersInv'
  <2>1. UNCHANGED <<peer, newPeers, donePeers, inboundPeers, outboundPeers,
                   persistentPeers>>
      BY <1>6, Zenon DEF Retry, channels, registry
  <2> QED
      BY <2>1, PeersFrame, Zenon
<1>7. ASSUME NEW r \in Reqs, ConnFailed(r)
      PROVE  PeersInv'
  <2>1. UNCHANGED <<peer, newPeers, donePeers, inboundPeers, outboundPeers,
                   persistentPeers>>
      BY <1>7, Zenon DEF ConnFailed, channels, registry
  <2> QED
      BY <2>1, PeersFrame, Zenon
<1>8. ASSUME NEW r \in Reqs, ConnConnected(r)
      PROVE  PeersInv'
  <2>0. PICK p \in Peers :
           /\ peer[p].at = "free"
           /\ peer' = [peer EXCEPT ![p] =
                        [NoPeer EXCEPT !.at = "negotiating", !.connected = TRUE,
                                       !.persistent = req[r].perm, !.req = r,
                                       !.group = req[r].group]]
      BY <1>8, Zenon DEF ConnConnected
  <2>1. peer[p].at = "free"
      BY <2>0, Zenon
  <2>2. p \notin Registered /\ p \notin Range(newPeers) /\ p \notin Range(donePeers)
      BY <2>1, FreeSlot, Zenon
  <2> DEFINE x == [NoPeer EXCEPT !.at = "negotiating", !.connected = TRUE,
                                 !.persistent = req[r].perm, !.req = r,
                                 !.group = req[r].group]
  <2>3. req[r].perm \in BOOLEAN /\ req[r].group \in Groups
    <3>1. req[r] \in Request /\ req[r].at = "connected" /\ ReqOk(req[r])
        BY <1>8, Zenon DEF ConnConnected, TypeInv, ConnTypes, ReqInv
    <3> QED
        BY <3>1, Zenon DEF Request, ReqOk
  <2>4. x \in Peer /\ x.at = "negotiating" /\ x.done = "no" /\ x.group \in Groups
        /\ x.inbound = FALSE /\ x.req = r
      BY <2>3, Zenon DEF NoPeer, Peer
  <2>5. peer' = [peer EXCEPT ![p] = x]
      BY <2>0, Zenon
  <2> HIDE DEF x
  <2>6. PeerOk(x)
      BY <2>4, NetworkAssumption, Zenon DEF PeerOk, None
  <2>7. UNCHANGED <<newPeers, donePeers, inboundPeers, outboundPeers, persistentPeers>>
      BY <1>8, Zenon DEF ConnConnected, channels, registry
  <2> QED
      BY <2>2, <2>4, <2>5, <2>6, <2>7, SlotSame, Zenon
<1>9. ASSUME NEW r \in Reqs, NEW g \in Groups, ConnectConfigured(r, g)
      PROVE  PeersInv'
  <2>1. UNCHANGED <<peer, newPeers, donePeers, inboundPeers, outboundPeers,
                   persistentPeers>>
      BY <1>9, Zenon DEF ConnectConfigured, channels, registry
  <2> QED
      BY <2>1, PeersFrame, Zenon
<1>10. ASSUME NEW p \in Peers, NEW g \in Groups, InboundPeerConnected(p, g)
      PROVE  PeersInv'
  <2>1. peer[p].at = "free"
      BY <1>10, Zenon DEF InboundPeerConnected
  <2>2. p \notin Registered /\ p \notin Range(newPeers) /\ p \notin Range(donePeers)
      BY <2>1, FreeSlot, Zenon
  <2> DEFINE x == [NoPeer EXCEPT !.at = "negotiating", !.connected = TRUE,
                                 !.inbound = TRUE, !.group = g]
  <2>3. x \in Peer /\ x.at = "negotiating" /\ x.done = "no" /\ x.group = g /\ x.inbound /\ x.req = None
      BY Zenon DEF NoPeer, Peer
  <2>4. peer' = [peer EXCEPT ![p] = x]
      BY <1>10, Zenon DEF InboundPeerConnected
  <2> HIDE DEF x
  <2>5. PeerOk(x)
      BY <2>3, Zenon DEF PeerOk
  <2>6. UNCHANGED <<newPeers, donePeers, inboundPeers, outboundPeers, persistentPeers>>
      BY <1>10, Zenon DEF InboundPeerConnected, channels, registry
  <2> QED
      BY <2>2, <2>3, <2>4, <2>5, <2>6, SlotSame, Zenon
<1>11. ASSUME NEW p \in Peers, ReadVersion(p)
      PROVE  PeersInv'
  <2>1. peer[p] \in Peer /\ PeerOk(peer[p]) /\ peer[p].at = "negotiating" /\ peer[p].connected
      BY <1>11, Zenon DEF ReadVersion, TypeInv, PeerTypes, PeersInv
  <2>2. p \notin Registered /\ p \notin Range(newPeers) /\ p \notin Range(donePeers)
      BY <2>1, Zenon DEF PeersInv, RegistryInv, MessageInv, Registered, PeerOk
  <2>3. UNCHANGED <<newPeers, donePeers, inboundPeers, outboundPeers, persistentPeers>>
      BY <1>11, Zenon DEF ReadVersion, channels, registry
  <2>4. \/ peer' = [peer EXCEPT ![p] = [peer[p] EXCEPT !.at = "version"]]
        \/ peer' = [peer EXCEPT ![p] = [peer[p] EXCEPT !.at = "rejected", !.connected = FALSE]]
      BY <1>11, ZenonT(30) DEF ReadVersion
  <2>5. \E x \in Peer : PeerOk(x) /\ peer' = [peer EXCEPT ![p] = x]
      BY <2>1, <2>4, PeerFields, PeerEdits, Zenon
  <2> QED
      BY <2>2, <2>3, <2>5, SlotSame, Zenon
<1>12. ASSUME NEW p \in Peers, AddPeer(p)
      PROVE  PeersInv'
  <2>1. peer[p] \in Peer /\ PeerOk(peer[p]) /\ peer[p].at = "version"
      BY <1>12, Zenon DEF AddPeer, TypeInv, PeerTypes, PeersInv
  <2>2. p \notin Registered /\ p \notin Range(newPeers)
      BY <2>1, Zenon DEF PeersInv, RegistryInv, MessageInv, Registered
  <2>3. UNCHANGED <<donePeers, inboundPeers, outboundPeers, persistentPeers>>
      BY <1>12, Zenon DEF AddPeer, registry
  <2> DEFINE x == [peer[p] EXCEPT !.at = "told"]
  <2>4. x \in Peer /\ PeerOk(x) /\ x.at = "told" /\ x.done = peer[p].done
    <3>0. peer[p].at # "free"
        BY <2>1, Zenon
    <3>1. x \in Peer /\ PeerOk(x)
        BY <2>1, <3>0, PeerFields, PeerEdits, Zenon
    <3> QED
        BY <2>1, <3>1, Zenon DEF Peer
  <2>5. peer' = [peer EXCEPT ![p] = x] /\ newPeers' = Append(newPeers, p)
      BY <1>12, Zenon DEF AddPeer
  <2> HIDE DEF x
  <2>6. newPeers \in Seq(Peers) /\ newPeers' \in Seq(Peers) /\ donePeers \in Seq(Peers)
      BY <2>5 DEF TypeInv, ChanTypes
  <2>7. Range(newPeers') = Range(newPeers) \cup {p} /\ Distinct(newPeers')
      BY <2>2, <2>5, <2>6, AppendRange DEF PeersInv, MessageInv
  <2>8. Distinct(donePeers') /\ (p \in Range(donePeers') => x.done = "sent")
      BY <2>3, <2>4, Zenon DEF PeersInv, MessageInv
  <2>9. p \notin Registered'
      BY <2>2, <2>3, Zenon DEF Registered
  <2> QED
      BY <2>3, <2>4, <2>5, <2>6, <2>7, <2>8, <2>9, SlotUpdate, Zenon
<1>13. ASSUME NEW p \in Peers, PeerDisconnect(p)
      PROVE  PeersInv'
  <2>1. peer' = [peer EXCEPT ![p] = [peer[p] EXCEPT !.connected = FALSE]]
      BY <1>13, Zenon DEF PeerDisconnect
  <2>2. \A q \in Peers : \/ peer'[q] = peer[q]
                         \/ peer'[q] = [peer[q] EXCEPT !.connected = FALSE]
      BY <2>1, Zenon DEF TypeInv, PeerTypes
  <2>3. UNCHANGED <<newPeers, donePeers, inboundPeers, outboundPeers, persistentPeers>>
      BY <1>13, Zenon DEF PeerDisconnect, channels, registry
  <2> QED
      BY <2>2, <2>3, PeersFrame, Zenon
<1>14. ASSUME NEW p \in Peers, BanPeer(p)
      PROVE  PeersInv'
  <2>1. peer' = [peer EXCEPT ![p] = [peer[p] EXCEPT !.connected = FALSE]]
      BY <1>14, Zenon DEF BanPeer
  <2>2. \A q \in Peers : \/ peer'[q] = peer[q]
                         \/ peer'[q] = [peer[q] EXCEPT !.connected = FALSE]
      BY <2>1, Zenon DEF TypeInv, PeerTypes
  <2>3. UNCHANGED <<newPeers, donePeers, inboundPeers, outboundPeers, persistentPeers>>
      BY <1>14, Zenon DEF BanPeer, channels, registry
  <2> QED
      BY <2>2, <2>3, PeersFrame, Zenon
<1>15. ASSUME NEW p \in Peers, PeerDone(p)
      PROVE  PeersInv'
  <2>1. /\ peer[p] \in Peer /\ PeerOk(peer[p]) /\ peer[p].at # "free"
        /\ ~peer[p].connected /\ peer[p].done = "no"
      BY <1>15, Zenon DEF PeerDone, TypeInv, PeerTypes, PeersInv
  <2>2. p \notin Range(donePeers)
      BY <2>1, Zenon DEF PeersInv, MessageInv
  <2>3. UNCHANGED <<newPeers, inboundPeers, outboundPeers, persistentPeers>>
      BY <1>15, Zenon DEF PeerDone, registry
  <2> DEFINE x == [peer[p] EXCEPT !.done = "sent"]
  <2>4. /\ x \in Peer /\ PeerOk(x) /\ x.done = "sent" /\ x.at = peer[p].at
        /\ x.inbound = peer[p].inbound /\ x.persistent = peer[p].persistent
    <3>0. peer[p].at # "free"
        BY <2>1, Zenon
    <3>1. x \in Peer /\ PeerOk(x)
        BY <2>1, <3>0, PeerFields, PeerEdits, Zenon
    <3> QED
        BY <2>1, <3>1, Zenon DEF Peer
  <2>5. peer' = [peer EXCEPT ![p] = x] /\ donePeers' = Append(donePeers, p)
      BY <1>15, Zenon DEF PeerDone
  <2> HIDE DEF x
  <2>6. newPeers \in Seq(Peers) /\ donePeers \in Seq(Peers) /\ donePeers' \in Seq(Peers)
      BY <2>5 DEF TypeInv, ChanTypes
  <2>7. Range(donePeers') = Range(donePeers) \cup {p} /\ Distinct(donePeers')
      BY <2>2, <2>5, <2>6, AppendRange DEF PeersInv, MessageInv
  <2>8. /\ Registered' = Registered
        /\ p \in Registered' => x.at = "told"
        /\ p \in Range(newPeers') => x.at = "told" /\ p \notin Registered'
        /\ Distinct(newPeers')
      BY <2>3, <2>4, Zenon DEF PeersInv, RegistryInv, MessageInv, Registered
  <2> QED
      BY <2>3, <2>4, <2>5, <2>6, <2>7, <2>8, SlotUpdate, Zenon
<1>16. CASE HandleAddPeerMsg
  <2> DEFINE p == Head(newPeers)
  <2>1. /\ newPeers \in Seq(Peers) /\ newPeers # <<>> /\ newPeers' = Tail(newPeers)
        /\ Distinct(newPeers) /\ donePeers \in Seq(Peers) /\ donePeers' = donePeers
      BY <1>16, Zenon DEF HandleAddPeerMsg, TypeInv, ChanTypes, PeersInv, MessageInv
  <2>2. /\ p \in Peers /\ p \in Range(newPeers) /\ Distinct(newPeers')
        /\ Range(newPeers') = Range(newPeers) \ {p} /\ newPeers' \in Seq(Peers)
      BY <2>1, TailRange
  <2>3. \/ /\ \/ /\ peer[p].done = "handled" /\ peer' = [peer EXCEPT ![p] = NoPeer]
              \/ peer' = [peer EXCEPT ![p] = [peer[p] EXCEPT !.connected = FALSE]]
           /\ UNCHANGED <<inboundPeers, outboundPeers, persistentPeers>>
        \/ /\ UNCHANGED peer
           /\ inboundPeers' = inboundPeers \cup {q \in {p} : peer[q].inbound}
           /\ persistentPeers' = persistentPeers \cup
                 {q \in {p} : ~peer[q].inbound /\ peer[q].persistent}
           /\ outboundPeers' = outboundPeers \cup
                 {q \in {p} : ~peer[q].inbound /\ ~peer[q].persistent}
      BY <1>16, ZenonT(30) DEF HandleAddPeerMsg
  <2> HIDE DEF p
  <2>4. /\ peer[p] \in Peer /\ PeerOk(peer[p]) /\ peer[p].at = "told" /\ p \notin Registered
        /\ p \in Range(donePeers) => peer[p].done = "sent"
      BY <2>2, Zenon DEF TypeInv, PeerTypes, PeersInv, MessageInv
  <2>5. CASE /\ peer[p].done = "handled" /\ peer' = [peer EXCEPT ![p] = NoPeer]
             /\ UNCHANGED <<inboundPeers, outboundPeers, persistentPeers>>
    <3>1. NoPeer \in Peer /\ PeerOk(NoPeer)
        BY PeerFields, Zenon DEF PeerOk, NoPeer
    <3>2. p \notin Registered' /\ p \notin Range(donePeers') /\ Distinct(donePeers')
        BY <2>1, <2>4, <2>5, Zenon DEF Registered, PeersInv, MessageInv
    <3> QED
        BY <2>1, <2>2, <2>5, <3>1, <3>2, SlotUpdate, Zenon
  <2>6. CASE /\ peer' = [peer EXCEPT ![p] = [peer[p] EXCEPT !.connected = FALSE]]
             /\ UNCHANGED <<inboundPeers, outboundPeers, persistentPeers>>
    <3> DEFINE x == [peer[p] EXCEPT !.connected = FALSE]
    <3>1. x \in Peer /\ PeerOk(x) /\ x.done = peer[p].done
      <4>1. x \in Peer /\ PeerOk(x)
        <5>1. peer[p].at # "free"
            BY <2>4, Zenon
        <5> QED
            BY <2>4, <5>1, PeerFields, PeerEdits, Zenon
      <4> QED
          BY <2>4, <4>1, Zenon DEF Peer
    <3> HIDE DEF x
    <3>2. peer' = [peer EXCEPT ![p] = x]
        BY <2>6, Zenon DEF x
    <3>3. p \notin Registered' /\ Distinct(donePeers') /\ (p \in Range(donePeers') => x.done = "sent")
        BY <2>1, <2>4, <2>6, <3>1, Zenon DEF Registered, PeersInv, MessageInv
    <3> QED
        BY <2>1, <2>2, <2>6, <3>1, <3>2, <3>3, SlotUpdate, Zenon
  <2>7. CASE /\ UNCHANGED peer
             /\ inboundPeers' = inboundPeers \cup {q \in {p} : peer[q].inbound}
             /\ persistentPeers' = persistentPeers \cup
                   {q \in {p} : ~peer[q].inbound /\ peer[q].persistent}
             /\ outboundPeers' = outboundPeers \cup
                   {q \in {p} : ~peer[q].inbound /\ ~peer[q].persistent}
    <3>1. RegistryInv'
        BY <2>4, <2>7, Zenon DEF PeersInv, RegistryInv
    <3>2. Registered' \subseteq Registered \cup {p}
        BY <2>7, Zenon DEF Registered
    <3>3. MessageInv'
        BY <2>1, <2>2, <2>7, <3>2, Zenon DEF PeersInv, MessageInv
    <3> QED
        BY <2>7, <3>1, <3>3, Zenon DEF PeersInv
  <2> QED
      BY <2>3, <2>5, <2>6, <2>7, Zenon
<1>17. CASE HandleDonePeerMsg
  <2> DEFINE p == Head(donePeers)
  <2>1. /\ donePeers \in Seq(Peers) /\ donePeers # <<>> /\ donePeers' = Tail(donePeers)
        /\ Distinct(donePeers) /\ newPeers \in Seq(Peers) /\ newPeers' = newPeers
      BY <1>17, Zenon DEF HandleDonePeerMsg, TypeInv, ChanTypes, PeersInv, MessageInv
  <2>2. /\ p \in Peers /\ p \in Range(donePeers) /\ Distinct(donePeers')
        /\ Range(donePeers') = Range(donePeers) \ {p} /\ donePeers' \in Seq(Peers)
      BY <2>1, TailRange
  <2>3. /\ inboundPeers' = inboundPeers \ {p} /\ outboundPeers' = outboundPeers \ {p}
        /\ persistentPeers' = persistentPeers \ {p}
        /\ peer' = [peer EXCEPT ![p] = IF peer[p].at = "version" \/ p \in Range(newPeers)
                                       THEN [peer[p] EXCEPT !.done = "handled"] ELSE NoPeer]
      BY <1>17, Zenon DEF HandleDonePeerMsg
  <2> HIDE DEF p
  <2>4. /\ peer[p] \in Peer /\ PeerOk(peer[p]) /\ peer[p].done = "sent"
        /\ p \in Range(newPeers) => peer[p].at = "told"
      BY <2>2, Zenon DEF TypeInv, PeerTypes, PeersInv, MessageInv
  <2>5. peer[p].at # "free" /\ ~peer[p].connected
      BY <2>4 DEF PeerOk, NoPeer
  <2>6. p \notin Registered' /\ Distinct(newPeers')
      BY <2>1, <2>3, Zenon DEF Registered, PeersInv, MessageInv
  <2>7. CASE peer[p].at = "version" \/ p \in Range(newPeers)
    <3> DEFINE x == [peer[p] EXCEPT !.done = "handled"]
    <3>1. x \in Peer /\ PeerOk(x) /\ x.at = peer[p].at
      <4>1. x \in Peer /\ PeerOk(x)
          BY <2>4, <2>5, PeerFields, PeerEdits, Zenon
      <4> QED
          BY <2>4, <4>1, Zenon DEF Peer
    <3> HIDE DEF x
    <3>2. peer' = [peer EXCEPT ![p] = x]
        BY <2>3, <2>7, Zenon DEF x
    <3>3. p \in Range(newPeers') => x.at = "told"
        BY <2>1, <2>4, <3>1, Zenon
    <3> QED
        BY <2>1, <2>2, <2>3, <2>6, <3>1, <3>2, <3>3, SlotUpdate, Zenon
  <2>8. CASE ~(peer[p].at = "version" \/ p \in Range(newPeers))
    <3>1. NoPeer \in Peer /\ PeerOk(NoPeer)
        BY PeerFields, Zenon DEF PeerOk, NoPeer
    <3>2. peer' = [peer EXCEPT ![p] = NoPeer] /\ p \notin Range(newPeers')
        BY <2>1, <2>3, <2>8, Zenon
    <3> QED
        BY <2>1, <2>2, <2>3, <2>6, <3>1, <3>2, SlotUpdate, Zenon
  <2> QED
      BY <2>7, <2>8, Zenon
<1>18. CASE HandleBanPeerMsg
  <2>1. UNCHANGED <<peer, newPeers, donePeers, inboundPeers, outboundPeers,
                   persistentPeers>>
      BY <1>18, Zenon DEF HandleBanPeerMsg, channels, registry
  <2> QED
      BY <2>1, PeersFrame, Zenon
<1>19. CASE HandleRelayInvMsg
  <2>1. UNCHANGED <<peer, newPeers, donePeers, inboundPeers, outboundPeers,
                   persistentPeers>>
      BY <1>19, Zenon DEF HandleRelayInvMsg, channels, registry
  <2> QED
      BY <2>1, PeersFrame, Zenon
<1>20. ASSUME NEW g \in Groups, RemoveNode(g)
      PROVE  PeersInv'
  <2>1. PICK S : DisconnectPeers(S)
      BY <1>20, Zenon DEF RemoveNode
  <2> QED
      BY <2>1, DisconnectPeersFrame, Zenon
<1>21. ASSUME NEW g \in Groups, DisconnectNode(g)
      PROVE  PeersInv'
  <2>1. PICK S : DisconnectPeers(S)
      BY <1>21, Zenon DEF DisconnectNode
  <2> QED
      BY <2>1, DisconnectPeersFrame, Zenon
<1>22. ASSUME NEW g \in Groups, NEW permanent \in BOOLEAN, ConnectNode(g, permanent)
      PROVE  PeersInv'
  <2>1. UNCHANGED <<peer, newPeers, donePeers, inboundPeers, outboundPeers,
                   persistentPeers>>
      BY <1>22, Zenon DEF ConnectNode, channels, registry
  <2> QED
      BY <2>1, PeersFrame, Zenon
<1>23. CASE BlockMsg
  <2>1. UNCHANGED <<peer, newPeers, donePeers, inboundPeers, outboundPeers,
                   persistentPeers>>
      BY <1>23, Zenon DEF BlockMsg, channels, registry
  <2> QED
      BY <2>1, PeersFrame, Zenon
<1>24. CASE RelayInventory
  <2>1. UNCHANGED <<peer, newPeers, donePeers, inboundPeers, outboundPeers,
                   persistentPeers>>
      BY <1>24, Zenon DEF RelayInventory, channels, registry
  <2> QED
      BY <2>1, PeersFrame, Zenon
<1>25. CASE BlockQuit
  <2>1. UNCHANGED <<peer, newPeers, donePeers, inboundPeers, outboundPeers,
                   persistentPeers>>
      BY <1>25, Zenon DEF BlockQuit, channels, registry
  <2> QED
      BY <2>1, PeersFrame, Zenon
<1>26. CASE Stop
  <2>1. UNCHANGED <<peer, newPeers, donePeers, inboundPeers, outboundPeers,
                   persistentPeers>>
      BY <1>26, Zenon DEF Stop, channels, registry
  <2> QED
      BY <2>1, PeersFrame, Zenon
<1>27. CASE PeerHandlerQuit
  <2>1. \A q \in Peers : \/ peer'[q] = peer[q]
                         \/ peer'[q] = [peer[q] EXCEPT !.connected = FALSE]
      BY <1>27, Zenon DEF PeerHandlerQuit
  <2>2. UNCHANGED <<newPeers, donePeers, inboundPeers, outboundPeers, persistentPeers>>
      BY <1>27, Zenon DEF PeerHandlerQuit, channels, registry
  <2> QED
      BY <2>1, <2>2, PeersFrame, Zenon
<1>28. CASE StopManagers
  <2>1. UNCHANGED <<peer, newPeers, donePeers, inboundPeers, outboundPeers,
                   persistentPeers>>
      BY <1>28, Zenon DEF StopManagers, channels, registry
  <2> QED
      BY <2>1, PeersFrame, Zenon
<1>29. CASE Cleanup
  <2>1. UNCHANGED <<peer, inboundPeers, outboundPeers, persistentPeers>>
      BY <1>29, Zenon DEF Cleanup, registry
  <2>2. newPeers' = <<>> /\ donePeers' = <<>>
      BY <1>29, Zenon DEF Cleanup
  <2> QED
      BY <2>1, <2>2, PeersFrame, Zenon
<1>30. CASE UNCHANGED vars
  <2>1. UNCHANGED <<peer, newPeers, donePeers, inboundPeers, outboundPeers,
                   persistentPeers>>
      BY <1>30, Zenon DEF vars, channels, registry
  <2> QED
      BY <2>1, PeersFrame, Zenon
<1> QED
    BY <1>1, <1>2, <1>3, <1>4, <1>5, <1>6, <1>7, <1>8, <1>9, <1>10, <1>11, <1>12,
       <1>13, <1>14, <1>15, <1>16, <1>17, <1>18, <1>19, <1>20, <1>21, <1>22, <1>23,
       <1>24, <1>25, <1>26, <1>27, <1>28, <1>29, <1>30 DEF Next, ReqStep

-----------------------------------------------------------------------------
(***************************************************************************)
(* The connection requests.                                                *)
(***************************************************************************)
\* The request of slot r goes on as x: it stays in use, permanent or not.
Moves(r, x) ==
    /\ req' = [req EXCEPT ![r] = x]
    /\ x \in Request /\ ReqOk(x)
    /\ req[r].at # None /\ x.at # None /\ x.perm = req[r].perm

\* The updates of a request's record.
LEMMA StateField ==
    ASSUME NEW x \in Request, NEW a \in ReqStates
    PROVE  /\ [x EXCEPT !.at = a] \in Request /\ [x EXCEPT !.at = a].at = a
           /\ [x EXCEPT !.at = a].perm = x.perm /\ [x EXCEPT !.at = a].group = x.group
    BY Zenon DEF Request

\* The states of a request are those of ReqStates.
LEMMA StateNames ==
    /\ None = "none" /\ NoReq.at = None /\ NoReq.perm = FALSE /\ NoReq \in Request
    /\ ReqOk(NoReq)
    /\ {"dial", "failed", "connected", "established", "timer", "address"} \subseteq ReqStates
<1>1. NoReq \in Request
    BY Zenon DEF NoReq, Request, ReqStates
<1>2. NoReq.at = None /\ NoReq.perm = FALSE
    BY Zenon DEF NoReq
<1> QED
    BY <1>1, <1>2, Zenon DEF ReqStates, None, ReqOk

\* An attempt, whatever its outcome, moves the request on.
LEMMA AttemptMoves ==
    ASSUME TypeInv, ReqInv, NEW r \in Reqs,
           \/ \E g \in Groups : ConnectConfigured(r, g)
           \/ GetNewAddress(r) \/ Dial(r) \/ Retry(r)
    PROVE  \E x : Moves(r, x) /\ x.at # "established" /\ req[r].at # "established"
<1>1. req[r] \in Request /\ ReqOk(req[r])
    BY Zenon DEF TypeInv, ConnTypes, ReqInv
<1>2. ASSUME NEW g \in Groups, req[r].at # None, req[r].at # "established",
             req' = [req EXCEPT ![r].at = "dial", ![r].group = g]
      PROVE  \E x : Moves(r, x) /\ x.at # "established" /\ req[r].at # "established"
  <2> DEFINE x == [req[r] EXCEPT !.at = "dial", !.group = g]
  <2>1. req' = [req EXCEPT ![r] = x]
      BY <1>2, ZenonT(30)
  <2>2. x \in Request /\ x.at = "dial" /\ x.perm = req[r].perm /\ x.group = g
    <3> HIDE DEF x
    <3>1. x = [req[r] EXCEPT !.at = "dial", !.group = g]
        BY Zenon DEF x
    <3> QED
        BY <1>1, <3>1, Zenon DEF Request, ReqStates
  <2> HIDE DEF x
  <2>3. ReqOk(x)
      BY <2>2, Zenon DEF ReqOk
  <2>4. Moves(r, x)
      BY <1>2, <2>1, <2>2, <2>3, Zenon DEF Moves, None
  <2> QED
      BY <1>2, <2>2, <2>4, Zenon
<1>3. ASSUME NEW a \in {"dial", "failed", "connected", "address"},
             req[r].at \in {"dial", "address", "timer"},
             req' = [req EXCEPT ![r].at = a], a = "address" => ~req[r].perm,
             a \in {"dial", "connected"} => req[r].group \in Groups,
             a = "failed" /\ req[r].perm => req[r].group \in Groups
      PROVE  \E x : Moves(r, x) /\ x.at # "established" /\ req[r].at # "established"
  <2> DEFINE x == [req[r] EXCEPT !.at = a]
  <2>1. req' = [req EXCEPT ![r] = x]
      BY <1>3, Zenon
  <2>2. a \in ReqStates
      BY Zenon DEF ReqStates
  <2>3. x \in Request /\ x.at = a /\ x.perm = req[r].perm /\ x.group = req[r].group
      BY <1>1, <2>2, StateField, Zenon
  <2> HIDE DEF x
  <2>4. ReqOk(x)
      BY <1>3, <2>3, Zenon DEF ReqOk
  <2>5. Moves(r, x)
      BY <1>3, <2>1, <2>3, <2>4, Zenon DEF Moves, None
  <2> QED
      BY <1>3, <2>3, <2>5, Zenon
<1>4. CASE \E g \in Groups : ConnectConfigured(r, g)
  <2>1. PICK g \in Groups : ConnectConfigured(r, g)
      BY <1>4, Zenon
  <2>2. /\ req[r].at # None /\ req[r].at # "established"
        /\ req' = [req EXCEPT ![r].at = "dial", ![r].group = g]
      BY <2>1, Zenon DEF ConnectConfigured, None
  <2> QED
      BY <1>2, <2>2, Zenon
<1>5. CASE GetNewAddress(r)
  <2>1. req[r].at = "address" /\ ~req[r].perm
      BY <1>1, <1>5, Zenon DEF GetNewAddress, ReqOk
  <2>2. \/ \E g \in Groups : req' = [req EXCEPT ![r].at = "dial", ![r].group = g]
        \/ req' = [req EXCEPT ![r].at = "failed"]
      BY <1>5, Zenon DEF GetNewAddress
  <2>3. CASE \E g \in Groups : req' = [req EXCEPT ![r].at = "dial", ![r].group = g]
      BY <1>2, <2>1, <2>3, Zenon DEF None
  <2>4. CASE req' = [req EXCEPT ![r].at = "failed"]
      BY <1>3, <2>1, <2>4, Zenon
  <2> QED
      BY <2>2, <2>3, <2>4, Zenon
<1>6. CASE Dial(r)
  <2>1. req[r].at = "dial" /\ req[r].group \in Groups
      BY <1>1, <1>6, Zenon DEF Dial, ReqOk
  <2>2. PICK a \in {"connected", "failed"} : req' = [req EXCEPT ![r].at = a]
      BY <1>6, Zenon DEF Dial
  <2> QED
      BY <1>3, <2>1, <2>2, Zenon
<1>7. CASE Retry(r)
  <2>1. req[r].at = "timer" /\ (req[r].perm => req[r].group \in Groups)
      BY <1>1, <1>7, Zenon DEF Retry, ReqOk
  <2>2. CASE req[r].perm
    <3>1. req' = [req EXCEPT ![r].at = "dial"]
        BY <1>7, <2>2, Zenon DEF Retry
    <3> QED
        BY <1>3, <2>1, <2>2, <3>1, Zenon
  <2>3. CASE ~req[r].perm
    <3>1. req' = [req EXCEPT ![r].at = "address"]
        BY <1>7, <2>3, Zenon DEF Retry
    <3> QED
        BY <1>3, <2>1, <2>3, <3>1, Zenon
  <2> QED
      BY <2>2, <2>3, Zenon
<1> QED
    BY <1>4, <1>5, <1>6, <1>7, Zenon

\* handleFailedConn moves the request on too, unless it gives it up.
LEMMA FailedMoves ==
    ASSUME TypeInv, ReqInv, NEW r \in Reqs, HandleFailedConn(r), ~GivenUp(r),
           req[r].at \in {"failed", "established"}
    PROVE  \E x : Moves(r, x) /\ x.at \in {"timer", "address"}
<1>1. req[r] \in Request /\ ReqOk(req[r])
    BY Zenon DEF TypeInv, ConnTypes, ReqInv
<1>2. CASE req[r].perm
  <2> DEFINE x == [req[r] EXCEPT !.at = "timer"]
  <2>1. req' = [req EXCEPT ![r] = x]
      BY <1>2, Zenon DEF HandleFailedConn
  <2>2. x \in Request /\ x.at = "timer" /\ x.perm = req[r].perm /\ x.group = req[r].group
    <3>1. "timer" \in ReqStates
        BY Zenon DEF ReqStates
    <3> QED
        BY <1>1, <3>1, StateField, Zenon
  <2> HIDE DEF x
  <2>3. ReqOk(x)
      BY <1>1, <1>2, <2>2, Zenon DEF ReqOk
  <2>4. Moves(r, x)
      BY <1>1, <2>1, <2>2, <2>3, Zenon DEF Moves, None
  <2> QED
      BY <2>2, <2>4, Zenon
<1>3. CASE ~req[r].perm
  <2>1. PICK a \in {"timer", "address"} : req' = [req EXCEPT ![r] = [NoReq EXCEPT !.at = a]]
      BY <1>3, Zenon DEF HandleFailedConn
  <2> DEFINE x == [NoReq EXCEPT !.at = a]
  <2>2. x \in Request /\ x.at = a /\ x.perm = FALSE
    <3>1. a \in ReqStates
        BY Zenon DEF ReqStates
    <3> QED
        BY <3>1, StateNames, StateField, Zenon
  <2> HIDE DEF x
  <2>3. ReqOk(x)
      BY <2>2, Zenon DEF ReqOk
  <2>4. req[r].perm = FALSE
      BY <1>1, <1>3, Zenon DEF Request
  <2>5. Moves(r, x)
      BY <1>1, <2>1, <2>2, <2>3, <2>4, Zenon DEF Moves, None, x
  <2> QED
      BY <2>2, <2>5, Zenon
<1> QED
    BY <1>2, <1>3, Zenon

\* A request that moves on keeps its obligations.
LEMMA ReqUpdate ==
    ASSUME TypeInv, ReqInv, NEW r, NEW x, req' = [req EXCEPT ![r] = x], ReqOk(x)
    PROVE  ReqInv'
<1>1. \A s \in Reqs : req'[s] = IF s = r THEN x ELSE req[s]
    BY Zenon DEF TypeInv, ConnTypes
<1> QED
    BY <1>1, Zenon DEF ReqInv

\* Disconnect: the established request is retried or dropped, dropped only at
\* the target or when nothing gives new addresses.
LEMMA DisconnectCases ==
    ASSUME TypeInv, ReqInv, ConnInv, NEW r \in Reqs, Disconnect(r)
    PROVE  \/ /\ Stopped \/ r \notin conns
              /\ UNCHANGED <<req, conns>>
           \/ /\ ~Stopped /\ r \in conns /\ conns' = conns \ {r}
              /\ \E x : Moves(r, x) /\ x.at \in {"timer", "address"}
           \/ /\ ~Stopped /\ r \in conns /\ conns' = conns \ {r}
              /\ Cardinality(conns') >= TargetOutbound \/ ~AutoConnect
              /\ req' = [req EXCEPT ![r] = NoReq]
<1>1. CASE Stopped \/ r \notin conns
    BY <1>1, Zenon DEF Disconnect
<1>2. CASE ~Stopped /\ r \in conns /\ Cardinality(conns') < TargetOutbound
  <2>1. conns' = conns \ {r} /\ HandleFailedConn(r)
      BY <1>2, Zenon DEF Disconnect
  <2>2. req[r].at = "established"
      BY <1>2, Zenon DEF ConnInv
  <2>3. CASE GivenUp(r)
    <3>1. ~AutoConnect
        BY <1>2, <2>3, Zenon DEF GivenUp
    <3>2. req' = [req EXCEPT ![r] = NoReq]
        BY <2>1, <2>3, Zenon DEF HandleFailedConn
    <3> QED
        BY <1>2, <2>1, <3>1, <3>2, Zenon
  <2>4. CASE ~GivenUp(r)
      BY <1>2, <2>1, <2>2, <2>4, FailedMoves, Zenon
  <2> QED
      BY <2>3, <2>4, Zenon
<1>3. CASE ~Stopped /\ r \in conns /\ ~(Cardinality(conns') < TargetOutbound)
  <2>1. conns' = conns \ {r} /\ req' = [req EXCEPT ![r] = NoReq]
      BY <1>3, Zenon DEF Disconnect
  <2>2. Cardinality(conns') \in Nat
      BY <2>1, FS_Subset, FS_CardinalityType, NetworkAssumption, Zenon DEF TypeInv, ConnTypes
  <2>3. Cardinality(conns') >= TargetOutbound
      BY <1>3, <2>2, ConstTypes
  <2> QED
      BY <1>3, <2>1, <2>3, Zenon
<1> QED
    BY <1>1, <1>2, <1>3, Zenon

\* What handleDonePeerMsg does to the requests.
LEMMA HandleDoneReq ==
    ASSUME TypeInv, PeersInv, ReqInv, ConnInv, HandleDonePeerMsg, NEW p, p = Head(donePeers)
    PROVE  /\ p \in Peers /\ peer[p].done = "sent" /\ cm' = cm
           /\ \A q \in Peers : q # p => peer'[q] = peer[q]
           /\ \A r \in Reqs : ~(peer'[p].req = r /\ peer'[p].done # "handled")
           /\ \/ peer[p].req = None /\ UNCHANGED <<req, conns>>
              \/ peer[p].req \in Reqs /\ Disconnect(peer[p].req)
<1>1. /\ donePeers \in Seq(Peers) /\ donePeers # <<>> /\ Distinct(donePeers)
      /\ cm' = cm
    BY Zenon DEF HandleDonePeerMsg, TypeInv, ChanTypes, PeersInv, MessageInv
<1>2. p \in Peers /\ p \in Range(donePeers)
    BY <1>1, TailRange, Zenon
<1>3. peer[p].done = "sent" /\ PeerOk(peer[p]) /\ peer[p] \in Peer
    BY <1>2, Zenon DEF PeersInv, MessageInv, TypeInv, PeerTypes
<1>4. peer[p].at # "free"
    BY <1>3 DEF PeerOk, NoPeer
<1>5. /\ peer' = [peer EXCEPT ![p] = IF peer[p].at = "version" \/ p \in Range(newPeers)
                                     THEN [peer[p] EXCEPT !.done = "handled"] ELSE NoPeer]
      /\ IF peer[p].inbound THEN UNCHANGED <<req, conns, failedAttempts>>
         ELSE Disconnect(peer[p].req)
    BY Zenon DEF HandleDonePeerMsg
<1>6. /\ \A q \in Peers : q # p => peer'[q] = peer[q]
      /\ peer'[p] = [peer[p] EXCEPT !.done = "handled"] \/ peer'[p] = NoPeer
    BY <1>2, <1>5, Zenon DEF TypeInv, PeerTypes
<1>7. \A r \in Reqs : ~(peer'[p].req = r /\ peer'[p].done # "handled")
  <2>1. [peer[p] EXCEPT !.done = "handled"].done = "handled"
      BY <1>3, Zenon DEF Peer
  <2>2. NoPeer.req = None /\ None \notin Reqs
      BY NetworkAssumption, Zenon DEF NoPeer, None
  <2> QED
      BY <1>6, <2>1, <2>2, Zenon
<1>8. CASE peer[p].inbound
    BY <1>1, <1>2, <1>3, <1>4, <1>5, <1>6, <1>7, <1>8, Zenon DEF PeerOk
<1>9. CASE ~peer[p].inbound
  <2>1. peer[p].req \in Reqs
      BY <1>3, <1>4, <1>9, Zenon DEF PeerOk, Peer
  <2> QED
      BY <1>1, <1>2, <1>3, <1>5, <1>6, <1>7, <1>9, <2>1, Zenon
<1> QED
    BY <1>8, <1>9, Zenon

\* connHandler makes a connected request established.
LEMMA ConnectedMoves ==
    ASSUME TypeInv, ReqInv, NEW r \in Reqs, ConnConnected(r)
    PROVE  \E x : Moves(r, x) /\ x.at = "established"
<1>1. req[r] \in Request /\ ReqOk(req[r]) /\ req[r].at = "connected"
    BY Zenon DEF TypeInv, ConnTypes, ReqInv, ConnConnected
<1> DEFINE x == [req[r] EXCEPT !.at = "established"]
<1>2. req' = [req EXCEPT ![r] = x]
    BY Zenon DEF ConnConnected
<1>3. "established" \in ReqStates
    BY Zenon DEF ReqStates
<1>4. x \in Request /\ x.at = "established" /\ x.perm = req[r].perm /\ x.group = req[r].group
    BY <1>1, <1>3, StateField, Zenon
<1> HIDE DEF x
<1>5. ReqOk(x)
    BY <1>1, <1>4, Zenon DEF ReqOk
<1>6. Moves(r, x)
    BY <1>1, <1>2, <1>4, <1>5, Zenon DEF Moves, None
<1> QED
    BY <1>4, <1>6, Zenon

\* Every step keeps the requests in order.
LEMMA RequestStep == TypeInv /\ ReqInv /\ PeersInv /\ ConnInv /\ [Next]_vars => ReqInv'
<1> SUFFICES ASSUME TypeInv, ReqInv, PeersInv, ConnInv, [Next]_vars
             PROVE  ReqInv'
    BY Zenon
<1>0. req' = req => ReqInv'
    BY Zenon DEF ReqInv
<1>1. CASE Start
  <2>1. PICK S \in SUBSET Reqs :
           req' = [r \in Reqs |-> IF r \in S THEN [NoReq EXCEPT !.at = "address"] ELSE req[r]]
      BY <1>1, Zenon DEF Start
  <2>2. ReqOk([NoReq EXCEPT !.at = "address"])
      BY Zenon DEF NoReq, ReqOk
  <2> QED
      BY <2>1, <2>2, Zenon DEF ReqInv
<1>2. CASE ConnQuit
    BY <1>0, <1>2, Zenon DEF ConnQuit, connVars
<1>3. ASSUME NEW r \in Reqs, Abandon(r)
      PROVE  ReqInv'
  <2>1. req' = [req EXCEPT ![r] = NoReq]
      BY <1>3, Zenon DEF Abandon
  <2> QED
      BY <2>1, ReqUpdate, StateNames, Zenon
<1>4. ASSUME NEW r \in Reqs, GetNewAddress(r)
      PROVE  ReqInv'
  <2>1. \E x : Moves(r, x)
      BY <1>4, AttemptMoves, Zenon
  <2> QED
      BY <2>1, ReqUpdate, Zenon DEF Moves
<1>5. ASSUME NEW r \in Reqs, Dial(r)
      PROVE  ReqInv'
  <2>1. \E x : Moves(r, x)
      BY <1>5, AttemptMoves, Zenon
  <2> QED
      BY <2>1, ReqUpdate, Zenon DEF Moves
<1>6. ASSUME NEW r \in Reqs, Retry(r)
      PROVE  ReqInv'
  <2>1. \E x : Moves(r, x)
      BY <1>6, AttemptMoves, Zenon
  <2> QED
      BY <2>1, ReqUpdate, Zenon DEF Moves
<1>7. ASSUME NEW r \in Reqs, ConnFailed(r)
      PROVE  ReqInv'
  <2>1. HandleFailedConn(r) /\ req[r].at = "failed"
      BY <1>7, Zenon DEF ConnFailed
  <2>2. CASE GivenUp(r)
    <3>1. req' = [req EXCEPT ![r] = NoReq]
        BY <2>1, <2>2, Zenon DEF HandleFailedConn
    <3> QED
        BY <3>1, ReqUpdate, StateNames, Zenon
  <2>3. CASE ~GivenUp(r)
    <3>1. \E x : Moves(r, x)
        BY <2>1, <2>3, FailedMoves, Zenon
    <3> QED
        BY <3>1, ReqUpdate, Zenon DEF Moves
  <2> QED
      BY <2>2, <2>3, Zenon
<1>8. ASSUME NEW r \in Reqs, ConnConnected(r)
      PROVE  ReqInv'
  <2>1. \E x : Moves(r, x)
      BY <1>8, ConnectedMoves, Zenon
  <2> QED
      BY <2>1, ReqUpdate, Zenon DEF Moves
<1>9. ASSUME NEW r \in Reqs, NEW g \in Groups, ConnectConfigured(r, g)
      PROVE  ReqInv'
  <2>1. \E x : Moves(r, x)
      BY <1>9, AttemptMoves, Zenon
  <2> QED
      BY <2>1, ReqUpdate, Zenon DEF Moves
<1>10. ASSUME NEW p \in Peers, NEW g \in Groups, InboundPeerConnected(p, g)
      PROVE  ReqInv'
    BY <1>0, <1>10, Zenon DEF InboundPeerConnected, connVars
<1>11. ASSUME NEW p \in Peers, ReadVersion(p)
      PROVE  ReqInv'
    BY <1>0, <1>11, Zenon DEF ReadVersion, connVars
<1>12. ASSUME NEW p \in Peers, AddPeer(p)
      PROVE  ReqInv'
    BY <1>0, <1>12, Zenon DEF AddPeer, connVars
<1>13. ASSUME NEW p \in Peers, PeerDisconnect(p)
      PROVE  ReqInv'
    BY <1>0, <1>13, Zenon DEF PeerDisconnect, connVars
<1>14. ASSUME NEW p \in Peers, BanPeer(p)
      PROVE  ReqInv'
    BY <1>0, <1>14, Zenon DEF BanPeer, connVars
<1>15. ASSUME NEW p \in Peers, PeerDone(p)
      PROVE  ReqInv'
    BY <1>0, <1>15, Zenon DEF PeerDone, connVars
<1>16. CASE HandleAddPeerMsg
    BY <1>0, <1>16, Zenon DEF HandleAddPeerMsg, connVars
<1>17. CASE HandleDonePeerMsg
  <2>1. \/ UNCHANGED <<req, conns>>
        \/ \E r \in Reqs : Disconnect(r)
      BY <1>17, HandleDoneReq, Zenon
  <2>2. CASE UNCHANGED <<req, conns>>
      BY <2>2, Zenon DEF ReqInv
  <2>3. CASE \E r \in Reqs : Disconnect(r)
    <3>1. PICK r \in Reqs : Disconnect(r)
        BY <2>3, Zenon
    <3>2. \/ req' = req
          \/ \E x : Moves(r, x)
          \/ req' = [req EXCEPT ![r] = NoReq]
        BY <3>1, DisconnectCases, Zenon
    <3>3. req' = req \/ \E x : ReqOk(x) /\ req' = [req EXCEPT ![r] = x]
        BY <3>2, StateNames, Zenon DEF Moves
    <3>4. req' = req => ReqInv'
        BY Zenon DEF ReqInv
    <3> QED
        BY <3>3, <3>4, ReqUpdate, Zenon
  <2> QED
      BY <2>1, <2>2, <2>3, Zenon
<1>18. CASE HandleBanPeerMsg
    BY <1>0, <1>18, Zenon DEF HandleBanPeerMsg, connVars
<1>19. CASE HandleRelayInvMsg
    BY <1>0, <1>19, Zenon DEF HandleRelayInvMsg, connVars
<1>20. ASSUME NEW g \in Groups, RemoveNode(g)
      PROVE  ReqInv'
    BY <1>0, <1>20, Zenon DEF RemoveNode, connVars, DisconnectPeers
<1>21. ASSUME NEW g \in Groups, DisconnectNode(g)
      PROVE  ReqInv'
    BY <1>0, <1>21, Zenon DEF DisconnectNode, connVars, DisconnectPeers
<1>22. ASSUME NEW g \in Groups, NEW permanent \in BOOLEAN, ConnectNode(g, permanent)
      PROVE  ReqInv'
  <2>1. PICK r \in Reqs :
           req' = [req EXCEPT ![r] = [at |-> "dial", perm |-> permanent, group |-> g]]
      BY <1>22, Zenon DEF ConnectNode
  <2>2. ReqOk([at |-> "dial", perm |-> permanent, group |-> g])
      BY Zenon DEF ReqOk
  <2> QED
      BY <2>1, <2>2, ReqUpdate, Zenon
<1>23. CASE BlockMsg
    BY <1>0, <1>23, Zenon DEF BlockMsg, connVars
<1>24. CASE RelayInventory
    BY <1>0, <1>24, Zenon DEF RelayInventory, connVars
<1>25. CASE BlockQuit
    BY <1>0, <1>25, Zenon DEF BlockQuit, connVars
<1>26. CASE Stop
    BY <1>0, <1>26, Zenon DEF Stop, connVars
<1>27. CASE PeerHandlerQuit
    BY <1>0, <1>27, Zenon DEF PeerHandlerQuit, connVars
<1>28. CASE StopManagers
    BY <1>0, <1>28, Zenon DEF StopManagers, connVars
<1>29. CASE Cleanup
    BY <1>0, <1>29, Zenon DEF Cleanup, connVars
<1>30. CASE UNCHANGED vars
    BY <1>0, <1>30, Zenon DEF vars, connVars
<1> QED
    BY <1>1, <1>2, <1>3, <1>4, <1>5, <1>6, <1>7, <1>8, <1>9, <1>10, <1>11, <1>12,
       <1>13, <1>14, <1>15, <1>16, <1>17, <1>18, <1>19, <1>20, <1>21, <1>22, <1>23,
       <1>24, <1>25, <1>26, <1>27, <1>28, <1>29, <1>30 DEF Next, ReqStep

-----------------------------------------------------------------------------
(***************************************************************************)
(* The connections of the manager and the peers that own them.             *)
(***************************************************************************)
\* The step leaves every peer in charge of what it was in charge of.
SameOwners == \A p \in Peers : \A r \in Reqs : Owns(p, r)' <=> Owns(p, r)

\* A peer whose request and end are as before.
LEMMA OwnersSlot ==
    ASSUME TypeInv, NEW p, NEW x, peer' = [peer EXCEPT ![p] = x],
           x.req = peer[p].req, x.done = "handled" <=> peer[p].done = "handled"
    PROVE  SameOwners
<1>1. \A q \in Peers : peer'[q] = IF q = p THEN x ELSE peer[q]
    BY Zenon DEF TypeInv, PeerTypes
<1> QED
    BY <1>1, Zenon DEF SameOwners, Owns

\* Peers that only lose their connections.
LEMMA OwnersDropped ==
    ASSUME TypeInv,
           \A p \in Peers : \/ peer'[p] = peer[p]
                            \/ peer'[p] = [peer[p] EXCEPT !.connected = FALSE]
    PROVE  SameOwners
<1>1. ASSUME NEW p \in Peers
      PROVE  peer'[p].req = peer[p].req /\ peer'[p].done = peer[p].done
  <2>1. peer[p] \in Peer
      BY Zenon DEF TypeInv, PeerTypes
  <2> QED
      BY <2>1, Zenon DEF Peer
<1> QED
    BY <1>1, Zenon DEF SameOwners, Owns

\* A step that moves requests between other states than established.
LEMMA ConnFrame ==
    ASSUME ConnInv, conns' = conns, SameOwners, ~Stopped' => ~Stopped,
           \A r \in Reqs : req'[r].at = "established" <=> req[r].at = "established"
    PROVE  ConnInv'
<1>1. conns' = {r \in Reqs : req'[r].at = "established"}
    BY Zenon DEF ConnInv
<1>2. \A p \in Peers : \A r \in Reqs : Owns(p, r)' => req'[r].at = "established"
    BY Zenon DEF ConnInv, SameOwners
<1>3. \A p, q \in Peers : \A r \in Reqs : Owns(p, r)' /\ Owns(q, r)' => p = q
    BY Zenon DEF ConnInv, SameOwners
<1>4. ~Stopped' => \A r \in conns' : \E p \in Peers : Owns(p, r)'
  <2>1. conns \subseteq Reqs
      BY Zenon DEF ConnInv
  <2> QED
      BY <2>1, Zenon DEF ConnInv, SameOwners
<1> QED
    BY <1>1, <1>2, <1>3, <1>4, Zenon DEF ConnInv

\* One request changes and is not established before or after.
LEMMA ConnMove ==
    ASSUME TypeInv, ConnInv, conns' = conns, SameOwners, ~Stopped' => ~Stopped,
           NEW r \in Reqs, NEW x, req' = [req EXCEPT ![r] = x],
           x.at # "established", req[r].at # "established"
    PROVE  ConnInv'
<1>1. \A s \in Reqs : req'[s] = IF s = r THEN x ELSE req[s]
    BY Zenon DEF TypeInv, ConnTypes
<1>2. \A s \in Reqs : req'[s].at = "established" <=> req[s].at = "established"
    BY <1>1, Zenon
<1> QED
    BY <1>2, ConnFrame, Zenon

\* Every step keeps each connection with the one peer that will report its end.
LEMMA ConnStep == TypeInv /\ ReqInv /\ PeersInv /\ ConnInv /\ [Next]_vars => ConnInv'
<1> SUFFICES ASSUME TypeInv, ReqInv, PeersInv, ConnInv, [Next]_vars
             PROVE  ConnInv'
    BY Zenon
<1>0. req' = req /\ conns' = conns /\ cm' = cm /\ SameOwners => ConnInv'
  <2>1. cm' = cm => (~Stopped' => ~Stopped)
      BY Zenon DEF Stopped
  <2> QED
      BY <2>1, ConnFrame, Zenon
<1>a. peer' = peer => SameOwners
    BY Zenon DEF SameOwners, Owns
<1>1. CASE Start
  <2>1. conns' = conns /\ peer' = peer /\ cm = "created"
      BY <1>1, Zenon DEF Start
  <2>2. SameOwners /\ (~Stopped' => ~Stopped)
      BY <2>1, Zenon DEF SameOwners, Owns, Stopped
  <2>3. PICK S \in SUBSET {r \in Reqs : req[r].at = None} :
           req' = [r \in Reqs |-> IF r \in S THEN [NoReq EXCEPT !.at = "address"] ELSE req[r]]
      BY <1>1, Zenon DEF Start
  <2>4. [NoReq EXCEPT !.at = "address"].at = "address"
      BY Zenon DEF NoReq
  <2>5. \A r \in Reqs : req'[r].at = "established" <=> req[r].at = "established"
    <3> SUFFICES ASSUME NEW r \in Reqs
                 PROVE  req'[r].at = "established" <=> req[r].at = "established"
        BY Zenon
    <3>1. CASE r \in S
        BY <2>3, <2>4, <3>1, Zenon DEF None
    <3>2. CASE r \notin S
        BY <2>3, <3>2, Zenon
    <3> QED
        BY <3>1, <3>2, Zenon
  <2> QED
      BY <2>1, <2>2, <2>5, ConnFrame, Zenon
<1>2. CASE ConnQuit
  <2>1. req' = req /\ conns' = conns /\ peer' = peer /\ cm' = "exited"
      BY <1>2, Zenon DEF ConnQuit
  <2>2. SameOwners /\ (~Stopped' => ~Stopped)
      BY <2>1, Zenon DEF SameOwners, Owns, Stopped
  <2> QED
      BY <2>1, <2>2, ConnFrame, Zenon
<1>3. ASSUME NEW r \in Reqs, Abandon(r)
      PROVE  ConnInv'
  <2>1. conns' = conns /\ cm' = cm /\ peer' = peer
      BY <1>3, Zenon DEF Abandon
  <2>2. SameOwners /\ (~Stopped' => ~Stopped)
      BY <2>1, Zenon DEF SameOwners, Owns, Stopped
  <2>3. req' = [req EXCEPT ![r] = NoReq] /\ req[r].at # "established"
      BY <1>3, Zenon DEF Abandon
  <2>4. NoReq.at # "established"
      BY StateNames, Zenon
  <2> QED
      BY <2>1, <2>2, <2>3, <2>4, ConnMove, Zenon
<1>4. ASSUME NEW r \in Reqs, GetNewAddress(r)
      PROVE  ConnInv'
  <2>1. conns' = conns /\ cm' = cm /\ peer' = peer
      BY <1>4, Zenon DEF GetNewAddress
  <2>2. SameOwners /\ (~Stopped' => ~Stopped)
      BY <2>1, Zenon DEF SameOwners, Owns, Stopped
  <2>3. PICK x : Moves(r, x) /\ x.at # "established" /\ req[r].at # "established"
      BY <1>4, AttemptMoves, Zenon
  <2> QED
      BY <2>1, <2>2, <2>3, ConnMove, Zenon DEF Moves
<1>5. ASSUME NEW r \in Reqs, Dial(r)
      PROVE  ConnInv'
  <2>1. conns' = conns /\ cm' = cm /\ peer' = peer
      BY <1>5, Zenon DEF Dial
  <2>2. SameOwners /\ (~Stopped' => ~Stopped)
      BY <2>1, Zenon DEF SameOwners, Owns, Stopped
  <2>3. PICK x : Moves(r, x) /\ x.at # "established" /\ req[r].at # "established"
      BY <1>5, AttemptMoves, Zenon
  <2> QED
      BY <2>1, <2>2, <2>3, ConnMove, Zenon DEF Moves
<1>6. ASSUME NEW r \in Reqs, Retry(r)
      PROVE  ConnInv'
  <2>1. conns' = conns /\ cm' = cm /\ peer' = peer
      BY <1>6, Zenon DEF Retry
  <2>2. SameOwners /\ (~Stopped' => ~Stopped)
      BY <2>1, Zenon DEF SameOwners, Owns, Stopped
  <2>3. PICK x : Moves(r, x) /\ x.at # "established" /\ req[r].at # "established"
      BY <1>6, AttemptMoves, Zenon
  <2> QED
      BY <2>1, <2>2, <2>3, ConnMove, Zenon DEF Moves
<1>7. ASSUME NEW r \in Reqs, ConnFailed(r)
      PROVE  ConnInv'
  <2>1. conns' = conns /\ cm' = cm /\ peer' = peer
      BY <1>7 DEF ConnFailed
  <2>2. SameOwners /\ (~Stopped' => ~Stopped)
      BY <2>1, Zenon DEF SameOwners, Owns, Stopped
  <2>3. HandleFailedConn(r) /\ req[r].at = "failed"
      BY <1>7, Zenon DEF ConnFailed
  <2>4. CASE GivenUp(r)
    <3>1. req' = [req EXCEPT ![r] = NoReq]
        BY <2>3, <2>4, Zenon DEF HandleFailedConn
    <3>2. NoReq.at # "established" /\ req[r].at # "established"
        BY <2>3, StateNames, Zenon
    <3> QED
        BY <2>1, <2>2, <3>1, <3>2, ConnMove, Zenon
  <2>5. CASE ~GivenUp(r)
    <3>1. PICK x : Moves(r, x) /\ x.at \in {"timer", "address"}
        BY <2>3, <2>5, FailedMoves, Zenon
    <3>2. x.at # "established" /\ req[r].at # "established"
        BY <2>3, <3>1, Zenon
    <3> QED
        BY <2>1, <2>2, <3>1, <3>2, ConnMove, Zenon DEF Moves
  <2> QED
      BY <2>4, <2>5, Zenon
<1>8. ASSUME NEW r \in Reqs, ConnConnected(r)
      PROVE  ConnInv'
  <2>1. PICK p \in Peers :
           /\ peer[p].at = "free"
           /\ peer' = [peer EXCEPT ![p] =
                        [NoPeer EXCEPT !.at = "negotiating", !.connected = TRUE,
                                       !.persistent = req[r].perm, !.req = r,
                                       !.group = req[r].group]]
      BY <1>8, Zenon DEF ConnConnected
  <2> DEFINE y == [NoPeer EXCEPT !.at = "negotiating", !.connected = TRUE,
                                 !.persistent = req[r].perm, !.req = r,
                                 !.group = req[r].group]
  <2>2. y.req = r /\ y.done = "no"
      BY Zenon DEF NoPeer
  <2>3. peer' = [peer EXCEPT ![p] = y]
      BY <2>1, Zenon
  <2> HIDE DEF y
  <2>4. peer'[p] = y /\ \A q \in Peers : q # p => peer'[q] = peer[q]
      BY <2>3, Zenon DEF TypeInv, PeerTypes
  <2>5. \A s \in Reqs : ~Owns(p, s)
    <3>1. peer[p] = NoPeer
        BY <2>1, Zenon DEF PeersInv, PeerOk
    <3>2. NoPeer.req \notin Reqs
        BY NetworkAssumption, Zenon DEF NoPeer, None
    <3> QED
        BY <3>1, <3>2, Zenon DEF Owns
  <2>6. Owns(p, r)' /\ \A s \in Reqs : Owns(p, s)' => s = r
      BY <2>2, <2>4, Zenon DEF Owns
  <2>7. \A q \in Peers : \A s \in Reqs : q # p => (Owns(q, s)' <=> Owns(q, s))
      BY <2>4, Zenon DEF Owns
  <2>8. PICK x : Moves(r, x) /\ x.at = "established"
      BY <1>8, ConnectedMoves, Zenon
  <2>9. req'[r].at = "established" /\ \A s \in Reqs : s # r => req'[s] = req[s]
      BY <2>8, Zenon DEF Moves, TypeInv, ConnTypes
  <2>10. conns' = conns \cup {r} /\ cm' = cm /\ req[r].at = "connected"
      BY <1>8, Zenon DEF ConnConnected
  <2>11. conns' = {s \in Reqs : req'[s].at = "established"}
    <3>1. \A s \in Reqs : s \in conns' <=> req'[s].at = "established"
        BY <2>9, <2>10, Zenon DEF ConnInv
    <3>2. conns' \subseteq Reqs
        BY <2>10, Zenon DEF ConnInv
    <3> QED
        BY <3>1, <3>2, Zenon
  <2>12. \A q \in Peers : ~Owns(q, r)
      BY <2>10, Zenon DEF ConnInv
  <2>13. \A q \in Peers : \A s \in Reqs : Owns(q, s)' => req'[s].at = "established"
      BY <2>6, <2>7, <2>9, Zenon DEF ConnInv
  <2>14. \A q1, q2 \in Peers : \A s \in Reqs : Owns(q1, s)' /\ Owns(q2, s)' => q1 = q2
    <3> SUFFICES ASSUME NEW q1 \in Peers, NEW q2 \in Peers, NEW s \in Reqs,
                        Owns(q1, s)', Owns(q2, s)'
                 PROVE  q1 = q2
        BY Zenon
    <3>1. CASE q1 = p \/ q2 = p
        BY <2>6, <2>7, <2>12, <3>1, Zenon DEF Owns
    <3>2. CASE q1 # p /\ q2 # p
        BY <2>7, <3>2, Zenon DEF ConnInv
    <3> QED
        BY <3>1, <3>2, Zenon
  <2>15. ~Stopped' => \A s \in conns' : \E q \in Peers : Owns(q, s)'
    <3> SUFFICES ASSUME ~Stopped', NEW s \in conns'
                 PROVE  \E q \in Peers : Owns(q, s)'
        BY Zenon
    <3>1. CASE s = r
        BY <2>6, <3>1, Zenon
    <3>2. CASE s # r
      <4>1. s \in conns /\ s \in Reqs /\ ~Stopped
          BY <2>10, <3>2, Zenon DEF Stopped, ConnInv
      <4>2. PICK q \in Peers : Owns(q, s)
          BY <4>1, Zenon DEF ConnInv
      <4>3. q # p
          BY <2>5, <4>1, <4>2, Zenon
      <4> QED
          BY <2>7, <4>1, <4>2, <4>3, Zenon
    <3> QED
        BY <3>1, <3>2, Zenon
  <2> QED
      BY <2>11, <2>13, <2>14, <2>15, Zenon DEF ConnInv
<1>9. ASSUME NEW r \in Reqs, NEW g \in Groups, ConnectConfigured(r, g)
      PROVE  ConnInv'
  <2>1. conns' = conns /\ cm' = cm /\ peer' = peer
      BY <1>9, Zenon DEF ConnectConfigured
  <2>2. SameOwners /\ (~Stopped' => ~Stopped)
      BY <2>1, Zenon DEF SameOwners, Owns, Stopped
  <2>3. PICK x : Moves(r, x) /\ x.at # "established" /\ req[r].at # "established"
      BY <1>9, AttemptMoves, Zenon
  <2> QED
      BY <2>1, <2>2, <2>3, ConnMove, Zenon DEF Moves
<1>10. ASSUME NEW p \in Peers, NEW g \in Groups, InboundPeerConnected(p, g)
      PROVE  ConnInv'
  <2>1. req' = req /\ conns' = conns /\ cm' = cm
      BY <1>10, Zenon DEF InboundPeerConnected, connVars
  <2>2. SameOwners
    <3> DEFINE x == [NoPeer EXCEPT !.at = "negotiating", !.connected = TRUE,
                                   !.inbound = TRUE, !.group = g]
    <3>1. peer' = [peer EXCEPT ![p] = x] /\ peer[p].at = "free"
        BY <1>10, Zenon DEF InboundPeerConnected
    <3>2. peer[p] = NoPeer
        BY <3>1, Zenon DEF PeersInv, PeerOk
    <3>3. x.req = peer[p].req /\ x.done = peer[p].done
        BY <3>2, Zenon DEF NoPeer
    <3> QED
        BY <3>1, <3>3, OwnersSlot, Zenon
  <2> QED
      BY <1>0, <2>1, <2>2, Zenon
<1>11. ASSUME NEW p \in Peers, ReadVersion(p)
      PROVE  ConnInv'
  <2>1. req' = req /\ conns' = conns /\ cm' = cm
      BY <1>11, Zenon DEF ReadVersion, connVars
  <2>2. SameOwners
    <3>1. \/ peer' = [peer EXCEPT ![p] = [peer[p] EXCEPT !.at = "version"]]
          \/ peer' = [peer EXCEPT ![p] =
                         [peer[p] EXCEPT !.at = "rejected", !.connected = FALSE]]
        BY <1>11, ZenonT(30) DEF ReadVersion
    <3>2. peer[p] \in Peer
        BY Zenon DEF TypeInv, PeerTypes
    <3>3. /\ [peer[p] EXCEPT !.at = "version"].req = peer[p].req
          /\ [peer[p] EXCEPT !.at = "version"].done = peer[p].done
        BY <3>2, Zenon DEF Peer
    <3>4. /\ [peer[p] EXCEPT !.at = "rejected", !.connected = FALSE].req = peer[p].req
          /\ [peer[p] EXCEPT !.at = "rejected", !.connected = FALSE].done = peer[p].done
        BY <3>2, Zenon DEF Peer
    <3> QED
        BY <3>1, <3>3, <3>4, OwnersSlot, Zenon
  <2> QED
      BY <1>0, <2>1, <2>2, Zenon
<1>12. ASSUME NEW p \in Peers, AddPeer(p)
      PROVE  ConnInv'
  <2>1. req' = req /\ conns' = conns /\ cm' = cm
      BY <1>12, Zenon DEF AddPeer, connVars
  <2>2. SameOwners
    <3>1. peer' = [peer EXCEPT ![p] = [peer[p] EXCEPT !.at = "told"]]
        BY <1>12, Zenon DEF AddPeer
    <3>2. peer[p] \in Peer
        BY <1>12, Zenon DEF TypeInv, PeerTypes, AddPeer
    <3>3. /\ [peer[p] EXCEPT !.at = "told"].req = peer[p].req
          /\ [peer[p] EXCEPT !.at = "told"].done = "handled" <=> peer[p].done = "handled"
        BY <3>2, Zenon DEF Peer
    <3> QED
        BY <3>1, <3>3, OwnersSlot, Zenon
  <2> QED
      BY <1>0, <2>1, <2>2, Zenon
<1>13. ASSUME NEW p \in Peers, PeerDisconnect(p)
      PROVE  ConnInv'
  <2>1. req' = req /\ conns' = conns /\ cm' = cm
      BY <1>13, Zenon DEF PeerDisconnect, connVars
  <2>2. SameOwners
    <3>1. peer' = [peer EXCEPT ![p] = [peer[p] EXCEPT !.connected = FALSE]]
        BY <1>13, Zenon DEF PeerDisconnect
    <3>2. \A q \in Peers : \/ peer'[q] = peer[q]
                           \/ peer'[q] = [peer[q] EXCEPT !.connected = FALSE]
        BY <3>1, Zenon DEF TypeInv, PeerTypes
    <3> QED
        BY <3>2, OwnersDropped, Zenon
  <2> QED
      BY <1>0, <2>1, <2>2, Zenon
<1>14. ASSUME NEW p \in Peers, BanPeer(p)
      PROVE  ConnInv'
  <2>1. req' = req /\ conns' = conns /\ cm' = cm
      BY <1>14, Zenon DEF BanPeer, connVars
  <2>2. SameOwners
    <3>1. peer' = [peer EXCEPT ![p] = [peer[p] EXCEPT !.connected = FALSE]]
        BY <1>14, Zenon DEF BanPeer
    <3>2. \A q \in Peers : \/ peer'[q] = peer[q]
                           \/ peer'[q] = [peer[q] EXCEPT !.connected = FALSE]
        BY <3>1, Zenon DEF TypeInv, PeerTypes
    <3> QED
        BY <3>2, OwnersDropped, Zenon
  <2> QED
      BY <1>0, <2>1, <2>2, Zenon
<1>15. ASSUME NEW p \in Peers, PeerDone(p)
      PROVE  ConnInv'
  <2>1. req' = req /\ conns' = conns /\ cm' = cm
      BY <1>15, Zenon DEF PeerDone, connVars
  <2>2. SameOwners
    <3>1. peer' = [peer EXCEPT ![p] = [peer[p] EXCEPT !.done = "sent"]]
        BY <1>15, Zenon DEF PeerDone
    <3>2. peer[p] \in Peer /\ peer[p].done = "no"
        BY <1>15, Zenon DEF TypeInv, PeerTypes, PeerDone
    <3>3. /\ [peer[p] EXCEPT !.done = "sent"].req = peer[p].req
          /\ [peer[p] EXCEPT !.done = "sent"].done = "handled" <=> peer[p].done = "handled"
        BY <3>2, Zenon DEF Peer
    <3> QED
        BY <3>1, <3>3, OwnersSlot, Zenon
  <2> QED
      BY <1>0, <2>1, <2>2, Zenon
<1>16. CASE HandleAddPeerMsg
  <2>1. req' = req /\ conns' = conns /\ cm' = cm
      BY <1>16, Zenon DEF HandleAddPeerMsg, connVars
  <2>2. SameOwners
    <3> DEFINE p == Head(newPeers)
    <3>1. p \in Peers
        BY <1>16 DEF HandleAddPeerMsg, TypeInv, ChanTypes
    <3>2. \/ peer' = peer
          \/ peer[p].done = "handled" /\ peer' = [peer EXCEPT ![p] = NoPeer]
          \/ peer' = [peer EXCEPT ![p] = [peer[p] EXCEPT !.connected = FALSE]]
        BY <1>16, ZenonT(30) DEF HandleAddPeerMsg
    <3> HIDE DEF p
    <3>3. CASE peer' = peer
        BY <3>3, Zenon DEF SameOwners, Owns
    <3>4. CASE peer[p].done = "handled" /\ peer' = [peer EXCEPT ![p] = NoPeer]
      <4>1. peer'[p] = NoPeer /\ \A q \in Peers : q # p => peer'[q] = peer[q]
          BY <3>1, <3>4, Zenon DEF TypeInv, PeerTypes
      <4>2. NoPeer.req \notin Reqs
          BY NetworkAssumption, Zenon DEF NoPeer, None
      <4> QED
          BY <3>4, <4>1, <4>2, Zenon DEF SameOwners, Owns
    <3>5. CASE peer' = [peer EXCEPT ![p] = [peer[p] EXCEPT !.connected = FALSE]]
      <4>1. \A q \in Peers : \/ peer'[q] = peer[q]
                             \/ peer'[q] = [peer[q] EXCEPT !.connected = FALSE]
          BY <3>5, Zenon DEF TypeInv, PeerTypes
      <4> QED
          BY <4>1, OwnersDropped, Zenon
    <3> QED
        BY <3>2, <3>3, <3>4, <3>5, Zenon
  <2> QED
      BY <1>0, <2>1, <2>2, Zenon
<1>17. CASE HandleDonePeerMsg
  <2>0. PICK p : p = Head(donePeers)
      BY Zenon
  <2>1. /\ p \in Peers /\ peer[p].done = "sent" /\ cm' = cm
        /\ \A q \in Peers : q # p => peer'[q] = peer[q]
        /\ \A s \in Reqs : ~Owns(p, s)'
        /\ \/ peer[p].req = None /\ UNCHANGED <<req, conns>>
           \/ peer[p].req \in Reqs /\ Disconnect(peer[p].req)
      BY <1>17, <2>0, HandleDoneReq, Zenon DEF Owns
  <2>2. \A q \in Peers : \A s \in Reqs : q # p => (Owns(q, s)' <=> Owns(q, s))
      BY <2>1, Zenon DEF Owns
  <2>3. \A q \in Peers : \A s \in Reqs : Owns(q, s)' => Owns(q, s) /\ q # p
      BY <2>1, Zenon DEF Owns
  <2>4. \A q1, q2 \in Peers : \A s \in Reqs : Owns(q1, s)' /\ Owns(q2, s)' => q1 = q2
      BY <2>3, Zenon DEF ConnInv
  <2>5. Stopped' <=> Stopped
      BY <2>1, Zenon DEF Stopped
  <2>6. CASE peer[p].req = None /\ UNCHANGED <<req, conns>>
    <3>1. SameOwners
      <4>1. None \notin Reqs
          BY NetworkAssumption, Zenon DEF None
      <4>2. \A s \in Reqs : ~Owns(p, s)
          BY <2>6, <4>1, Zenon DEF Owns
      <4> SUFFICES ASSUME NEW q \in Peers, NEW s \in Reqs
                   PROVE  Owns(q, s)' <=> Owns(q, s)
          BY Zenon DEF SameOwners
      <4>3. CASE q = p
          BY <2>1, <4>2, <4>3, Zenon DEF Owns
      <4>4. CASE q # p
          BY <2>2, <4>4, Zenon
      <4> QED
          BY <4>3, <4>4, Zenon
    <3> QED
        BY <2>5, <2>6, <3>1, ConnFrame, Zenon
  <2>7. CASE peer[p].req \in Reqs /\ Disconnect(peer[p].req)
    <3> DEFINE r == peer[p].req
    <3>1. r \in Reqs /\ Disconnect(r) /\ Owns(p, r)
        BY <2>1, <2>7, Zenon DEF Owns
    <3> HIDE DEF r
    <3>2. r \in conns /\ conns = {s \in Reqs : req[s].at = "established"}
        BY <2>1, <3>1, Zenon DEF ConnInv
    <3>3. \A s \in Reqs : s # r => ~Owns(p, s)
        BY <3>1, Zenon DEF Owns
    <3>4. CASE Stopped /\ UNCHANGED <<req, conns>>
        BY <2>3, <2>4, <2>5, <3>4, Zenon DEF ConnInv
    <3>5. CASE ~Stopped /\ conns' = conns \ {r} /\ req'[r].at # "established"
               /\ \A s \in Reqs : s # r => req'[s] = req[s]
      <4>1. conns' = {s \in Reqs : req'[s].at = "established"}
        <5>1. \A s \in Reqs : s \in conns' <=> req'[s].at = "established"
            BY <3>2, <3>5, Zenon
        <5>2. conns' \subseteq Reqs
            BY <3>2, <3>5, Zenon
        <5> QED
            BY <5>1, <5>2, Zenon
      <4>2. \A q \in Peers : \A s \in Reqs : Owns(q, s)' => s # r
        <5> SUFFICES ASSUME NEW q \in Peers, NEW s \in Reqs, Owns(q, s)', s = r
                     PROVE  FALSE
            BY Zenon
        <5>1. Owns(q, r) /\ q # p
            BY <2>3, Zenon
        <5> QED
            BY <2>1, <3>1, <5>1, Zenon DEF ConnInv
      <4>3. \A q \in Peers : \A s \in Reqs : Owns(q, s)' => req'[s].at = "established"
          BY <2>3, <3>5, <4>2, Zenon DEF ConnInv
      <4>4. \A s \in conns' : \E q \in Peers : Owns(q, s)'
        <5> SUFFICES ASSUME NEW s \in conns'
                     PROVE  \E q \in Peers : Owns(q, s)'
            BY Zenon
        <5>1. s \in conns /\ s \in Reqs /\ s # r
            BY <3>2, <3>5, Zenon
        <5>2. PICK q \in Peers : Owns(q, s)
            BY <3>5, <5>1, Zenon DEF ConnInv
        <5> QED
            BY <2>2, <3>3, <5>1, <5>2, Zenon
      <4> QED
          BY <2>4, <4>1, <4>3, <4>4, Zenon DEF ConnInv
    <3>6. \/ Stopped /\ UNCHANGED <<req, conns>>
          \/ /\ ~Stopped /\ conns' = conns \ {r}
             /\ \E x : req' = [req EXCEPT ![r] = x] /\ x.at # "established"
      <4>1. NoReq.at # "established"
          BY StateNames, Zenon
      <4>2. \A x : x.at \in {"timer", "address"} => x.at # "established"
          BY Zenon
      <4> QED
          BY <3>1, <3>2, <4>1, <4>2, DisconnectCases, Zenon DEF Moves
    <3>7. \A x : req' = [req EXCEPT ![r] = x] =>
             req'[r] = x /\ \A s \in Reqs : s # r => req'[s] = req[s]
        BY <3>1, Zenon DEF TypeInv, ConnTypes
    <3> QED
        BY <3>4, <3>5, <3>6, <3>7, Zenon
  <2> QED
      BY <2>1, <2>6, <2>7, Zenon
<1>18. CASE HandleBanPeerMsg
  <2>1. req' = req /\ conns' = conns /\ cm' = cm /\ peer' = peer
      BY <1>18, Zenon DEF HandleBanPeerMsg, connVars
  <2> QED
      BY <1>0, <1>a, <2>1, Zenon
<1>19. CASE HandleRelayInvMsg
  <2>1. req' = req /\ conns' = conns /\ cm' = cm /\ peer' = peer
      BY <1>19, Zenon DEF HandleRelayInvMsg, connVars
  <2> QED
      BY <1>0, <1>a, <2>1, Zenon
<1>20. ASSUME NEW g \in Groups, RemoveNode(g)
      PROVE  ConnInv'
  <2>0. PICK S : DisconnectPeers(S)
      BY <1>20, Zenon DEF RemoveNode
  <2>1. req' = req /\ conns' = conns /\ cm' = cm
      BY <2>0, Zenon DEF DisconnectPeers, connVars
  <2>2. SameOwners
    <3>1. \A q \in Peers : \/ peer'[q] = peer[q]
                           \/ peer'[q] = [peer[q] EXCEPT !.connected = FALSE]
        BY <2>0, Zenon DEF DisconnectPeers
    <3> QED
        BY <3>1, OwnersDropped, Zenon
  <2> QED
      BY <1>0, <2>1, <2>2, Zenon
<1>21. ASSUME NEW g \in Groups, DisconnectNode(g)
      PROVE  ConnInv'
  <2>0. PICK S : DisconnectPeers(S)
      BY <1>21, Zenon DEF DisconnectNode
  <2>1. req' = req /\ conns' = conns /\ cm' = cm
      BY <2>0, Zenon DEF DisconnectPeers, connVars
  <2>2. SameOwners
    <3>1. \A q \in Peers : \/ peer'[q] = peer[q]
                           \/ peer'[q] = [peer[q] EXCEPT !.connected = FALSE]
        BY <2>0, Zenon DEF DisconnectPeers
    <3> QED
        BY <3>1, OwnersDropped, Zenon
  <2> QED
      BY <1>0, <2>1, <2>2, Zenon
<1>22. ASSUME NEW g \in Groups, NEW permanent \in BOOLEAN, ConnectNode(g, permanent)
      PROVE  ConnInv'
  <2>1. conns' = conns /\ cm' = cm /\ peer' = peer
      BY <1>22, Zenon DEF ConnectNode
  <2>2. SameOwners /\ (~Stopped' => ~Stopped)
      BY <2>1, Zenon DEF SameOwners, Owns, Stopped
  <2>3. PICK r \in Reqs :
           /\ req[r] = NoReq
           /\ req' = [req EXCEPT ![r] = [at |-> "dial", perm |-> permanent, group |-> g]]
      BY <1>22, Zenon DEF ConnectNode
  <2>4. [at |-> "dial", perm |-> permanent, group |-> g].at # "established"
        /\ req[r].at # "established"
      BY <2>3, StateNames, Zenon
  <2> QED
      BY <2>1, <2>2, <2>3, <2>4, ConnMove, Zenon
<1>23. CASE BlockMsg
  <2>1. req' = req /\ conns' = conns /\ cm' = cm /\ peer' = peer
      BY <1>23, Zenon DEF BlockMsg, connVars
  <2> QED
      BY <1>0, <1>a, <2>1, Zenon
<1>24. CASE RelayInventory
  <2>1. req' = req /\ conns' = conns /\ cm' = cm /\ peer' = peer
      BY <1>24, Zenon DEF RelayInventory, connVars
  <2> QED
      BY <1>0, <1>a, <2>1, Zenon
<1>25. CASE BlockQuit
  <2>1. req' = req /\ conns' = conns /\ cm' = cm /\ peer' = peer
      BY <1>25, Zenon DEF BlockQuit, connVars
  <2> QED
      BY <1>0, <1>a, <2>1, Zenon
<1>26. CASE Stop
  <2>1. req' = req /\ conns' = conns /\ cm' = cm /\ peer' = peer
      BY <1>26, Zenon DEF Stop, connVars
  <2> QED
      BY <1>0, <1>a, <2>1, Zenon
<1>27. CASE PeerHandlerQuit
  <2>1. req' = req /\ conns' = conns /\ cm' = cm
      BY <1>27, Zenon DEF PeerHandlerQuit, connVars
  <2>2. SameOwners
    <3>1. \A q \in Peers : \/ peer'[q] = peer[q]
                           \/ peer'[q] = [peer[q] EXCEPT !.connected = FALSE]
        BY <1>27, Zenon DEF PeerHandlerQuit
    <3> QED
        BY <3>1, OwnersDropped, Zenon
  <2> QED
      BY <1>0, <2>1, <2>2, Zenon
<1>28. CASE StopManagers
  <2>1. req' = req /\ conns' = conns /\ peer' = peer /\ cm' = "stopped"
      BY <1>28, Zenon DEF StopManagers
  <2>2. SameOwners /\ (~Stopped' => ~Stopped)
      BY <2>1, Zenon DEF SameOwners, Owns, Stopped
  <2> QED
      BY <2>1, <2>2, ConnFrame, Zenon
<1>29. CASE Cleanup
  <2>1. req' = req /\ conns' = conns /\ cm' = cm /\ peer' = peer
      BY <1>29 DEF Cleanup, connVars
  <2> QED
      BY <1>0, <1>a, <2>1, Zenon
<1>30. CASE UNCHANGED vars
  <2>1. req' = req /\ conns' = conns /\ cm' = cm /\ peer' = peer
      BY <1>30, Zenon DEF vars, connVars
  <2> QED
      BY <1>0, <1>a, <2>1, Zenon
<1> QED
    BY <1>1, <1>2, <1>3, <1>4, <1>5, <1>6, <1>7, <1>8, <1>9, <1>10, <1>11, <1>12,
       <1>13, <1>14, <1>15, <1>16, <1>17, <1>18, <1>19, <1>20, <1>21, <1>22, <1>23,
       <1>24, <1>25, <1>26, <1>27, <1>28, <1>29, <1>30 DEF Next, ReqStep

-----------------------------------------------------------------------------
(***************************************************************************)
(* The counts of the registry.                                             *)
(***************************************************************************)
\* The registered outbound peers of a group, and the peers --maxpeers bounds.
OfGroup(g) == {p \in outboundPeers \cup persistentPeers : peer[p].group = g}
Bounded == {p \in Registered : ~(peer[p].inbound /\ peer[p].group \in Whitelisted)}

\* The step leaves the registry and what it knows of its peers alone.
SameRegistry ==
    /\ UNCHANGED <<inboundPeers, outboundPeers, persistentPeers, outboundGroups>>
    /\ \A p \in Registered :
          peer'[p].group = peer[p].group /\ peer'[p].inbound = peer[p].inbound

\* Sets of slots are finite.
LEMMA FiniteSlots ==
    /\ \A S \in SUBSET Peers : IsFiniteSet(S) /\ Cardinality(S) \in Nat
    /\ \A S \in SUBSET Reqs : IsFiniteSet(S) /\ Cardinality(S) \in Nat
<1>1. IsFiniteSet(Peers) /\ IsFiniteSet(Reqs)
    BY NetworkAssumption, Zenon
<1>2. \A S \in SUBSET Peers : IsFiniteSet(S)
    BY <1>1, FS_Subset, Zenon
<1>3. \A S \in SUBSET Reqs : IsFiniteSet(S)
    BY <1>1, FS_Subset, Zenon
<1> QED
    BY <1>2, <1>3, FS_CardinalityType, Zenon

\* A slot that is not registered may change, and so may the parts of a peer that the
\* registry does not look at.
LEMMA RegistrySlot ==
    ASSUME TypeInv, NEW p, NEW x, peer' = [peer EXCEPT ![p] = x],
           \/ p \notin Registered
           \/ x.group = peer[p].group /\ x.inbound = peer[p].inbound,
           UNCHANGED <<inboundPeers, outboundPeers, persistentPeers, outboundGroups>>
    PROVE  SameRegistry
<1>1. \A q \in Peers : peer'[q] = IF q = p THEN x ELSE peer[q]
    BY Zenon DEF TypeInv, PeerTypes
<1>2. Registered \subseteq Peers
    BY Zenon DEF TypeInv, RegistryTypes, Registered
<1> QED
    BY <1>1, <1>2, Zenon DEF SameRegistry

\* Disconnecting peers changes nothing the registry looks at.
LEMMA RegistryDropped ==
    ASSUME TypeInv,
           \A p \in Peers : \/ peer'[p] = peer[p]
                            \/ peer'[p] = [peer[p] EXCEPT !.connected = FALSE]
    PROVE  \A p \in Peers :
              peer'[p].group = peer[p].group /\ peer'[p].inbound = peer[p].inbound
<1> SUFFICES ASSUME NEW p \in Peers
             PROVE  peer'[p].group = peer[p].group /\ peer'[p].inbound = peer[p].inbound
    BY Zenon
<1>1. peer[p] \in Peer
    BY Zenon DEF TypeInv, PeerTypes
<1> QED
    BY <1>1, Zenon DEF Peer

\* Only the peer handler's messages and queries change the registry.
LEMMA RegistryFrame ==
    ASSUME TypeInv, PeersInv, [Next]_vars
    PROVE  \/ SameRegistry \/ HandleAddPeerMsg \/ HandleDonePeerMsg
           \/ \E g \in Groups : RemoveNode(g) \/ DisconnectNode(g)
<1>0. peer' = peer /\ UNCHANGED <<inboundPeers, outboundPeers, persistentPeers, outboundGroups>>
         => SameRegistry
    BY Zenon DEF SameRegistry
<1>1. CASE Start
    BY <1>0, <1>1, Zenon DEF Start, registry
<1>2. CASE ConnQuit
    BY <1>0, <1>2, Zenon DEF ConnQuit, registry
<1>3. ASSUME NEW r \in Reqs, Abandon(r)
      PROVE  SameRegistry
    BY <1>0, <1>3, Zenon DEF Abandon, registry
<1>4. ASSUME NEW r \in Reqs, GetNewAddress(r)
      PROVE  SameRegistry
    BY <1>0, <1>4, Zenon DEF GetNewAddress, registry
<1>5. ASSUME NEW r \in Reqs, Dial(r)
      PROVE  SameRegistry
    BY <1>0, <1>5, Zenon DEF Dial, registry
<1>6. ASSUME NEW r \in Reqs, Retry(r)
      PROVE  SameRegistry
    BY <1>0, <1>6, Zenon DEF Retry, registry
<1>7. ASSUME NEW r \in Reqs, ConnFailed(r)
      PROVE  SameRegistry
    BY <1>0, <1>7, Zenon DEF ConnFailed, registry
<1>8. ASSUME NEW r \in Reqs, ConnConnected(r)
      PROVE  SameRegistry
  <2>1. UNCHANGED <<inboundPeers, outboundPeers, persistentPeers, outboundGroups>>
      BY <1>8, Zenon DEF ConnConnected, registry
  <2>2. \E p \in Peers : peer[p].at = "free" /\ \E x : peer' = [peer EXCEPT ![p] = x]
      BY <1>8, Zenon DEF ConnConnected
  <2> QED
      BY <2>1, <2>2, FreeSlot, RegistrySlot, Zenon
<1>9. ASSUME NEW r \in Reqs, NEW g \in Groups, ConnectConfigured(r, g)
      PROVE  SameRegistry
    BY <1>0, <1>9, Zenon DEF ConnectConfigured, registry
<1>10. ASSUME NEW p \in Peers, NEW g \in Groups, InboundPeerConnected(p, g)
      PROVE  SameRegistry
  <2>1. UNCHANGED <<inboundPeers, outboundPeers, persistentPeers, outboundGroups>>
      BY <1>10, Zenon DEF InboundPeerConnected, registry
  <2>2. peer[p].at = "free" /\ \E x : peer' = [peer EXCEPT ![p] = x]
      BY <1>10, Zenon DEF InboundPeerConnected
  <2> QED
      BY <2>1, <2>2, FreeSlot, RegistrySlot, Zenon
<1>11. ASSUME NEW p \in Peers, ReadVersion(p)
      PROVE  SameRegistry
  <2>1. UNCHANGED <<inboundPeers, outboundPeers, persistentPeers, outboundGroups>>
      BY <1>11, Zenon DEF ReadVersion, registry
  <2>2. \E x : peer' = [peer EXCEPT ![p] = x]
    <3>1. \/ peer' = [peer EXCEPT ![p] = [peer[p] EXCEPT !.at = "version"]]
          \/ peer' = [peer EXCEPT ![p] =
                         [peer[p] EXCEPT !.at = "rejected", !.connected = FALSE]]
        BY <1>11, ZenonT(30) DEF ReadVersion
    <3> QED
        BY <3>1, Zenon
  <2>3. p \notin Registered
      BY <1>11, Zenon DEF ReadVersion, PeersInv, RegistryInv, Registered
  <2> QED
      BY <2>1, <2>2, <2>3, RegistrySlot, Zenon
<1>12. ASSUME NEW p \in Peers, AddPeer(p)
      PROVE  SameRegistry
  <2>1. UNCHANGED <<inboundPeers, outboundPeers, persistentPeers, outboundGroups>>
      BY <1>12, Zenon DEF AddPeer, registry
  <2>2. peer' = [peer EXCEPT ![p] = [peer[p] EXCEPT !.at = "told"]]
      BY <1>12, Zenon DEF AddPeer
  <2>3. peer[p] \in Peer
      BY Zenon DEF TypeInv, PeerTypes
  <2>4. /\ [peer[p] EXCEPT !.at = "told"].group = peer[p].group
        /\ [peer[p] EXCEPT !.at = "told"].inbound = peer[p].inbound
      BY <2>3, Zenon DEF Peer
  <2> QED
      BY <2>1, <2>2, <2>4, RegistrySlot, Zenon
<1>13. ASSUME NEW p \in Peers, PeerDisconnect(p)
      PROVE  SameRegistry
  <2>1. UNCHANGED <<inboundPeers, outboundPeers, persistentPeers, outboundGroups>>
      BY <1>13, Zenon DEF PeerDisconnect, registry
  <2>2. peer' = [peer EXCEPT ![p] = [peer[p] EXCEPT !.connected = FALSE]]
      BY <1>13, Zenon DEF PeerDisconnect
  <2>3. peer[p] \in Peer
      BY Zenon DEF TypeInv, PeerTypes
  <2>4. /\ [peer[p] EXCEPT !.connected = FALSE].group = peer[p].group
        /\ [peer[p] EXCEPT !.connected = FALSE].inbound = peer[p].inbound
      BY <2>3 DEF Peer
  <2> QED
      BY <2>1, <2>2, <2>4, RegistrySlot, Zenon
<1>14. ASSUME NEW p \in Peers, BanPeer(p)
      PROVE  SameRegistry
  <2>1. UNCHANGED <<inboundPeers, outboundPeers, persistentPeers, outboundGroups>>
      BY <1>14, Zenon DEF BanPeer, registry
  <2>2. peer' = [peer EXCEPT ![p] = [peer[p] EXCEPT !.connected = FALSE]]
      BY <1>14, Zenon DEF BanPeer
  <2>3. peer[p] \in Peer
      BY Zenon DEF TypeInv, PeerTypes
  <2>4. /\ [peer[p] EXCEPT !.connected = FALSE].group = peer[p].group
        /\ [peer[p] EXCEPT !.connected = FALSE].inbound = peer[p].inbound
      BY <2>3, Zenon DEF Peer
  <2> QED
      BY <2>1, <2>2, <2>4, RegistrySlot, Zenon
<1>15. ASSUME NEW p \in Peers, PeerDone(p)
      PROVE  SameRegistry
  <2>1. UNCHANGED <<inboundPeers, outboundPeers, persistentPeers, outboundGroups>>
      BY <1>15, Zenon DEF PeerDone, registry
  <2>2. peer' = [peer EXCEPT ![p] = [peer[p] EXCEPT !.done = "sent"]]
      BY <1>15, Zenon DEF PeerDone
  <2>3. peer[p] \in Peer
      BY Zenon DEF TypeInv, PeerTypes
  <2>4. /\ [peer[p] EXCEPT !.done = "sent"].group = peer[p].group
        /\ [peer[p] EXCEPT !.done = "sent"].inbound = peer[p].inbound
      BY <2>3, Zenon DEF Peer
  <2> QED
      BY <2>1, <2>2, <2>4, RegistrySlot, Zenon
<1>16. CASE HandleBanPeerMsg
    BY <1>0, <1>16, Zenon DEF HandleBanPeerMsg, registry
<1>17. CASE HandleRelayInvMsg
    BY <1>0, <1>17, Zenon DEF HandleRelayInvMsg, registry
<1>18. ASSUME NEW g \in Groups, NEW permanent \in BOOLEAN, ConnectNode(g, permanent)
      PROVE  SameRegistry
    BY <1>0, <1>18, Zenon DEF ConnectNode, registry
<1>19. CASE BlockMsg
    BY <1>0, <1>19, Zenon DEF BlockMsg, registry
<1>20. CASE RelayInventory
    BY <1>0, <1>20, Zenon DEF RelayInventory, registry
<1>21. CASE BlockQuit
    BY <1>0, <1>21, Zenon DEF BlockQuit, registry
<1>22. CASE Stop
    BY <1>0, <1>22, Zenon DEF Stop, registry
<1>23. CASE PeerHandlerQuit
  <2>1. UNCHANGED <<inboundPeers, outboundPeers, persistentPeers, outboundGroups>>
      BY <1>23, Zenon DEF PeerHandlerQuit, registry
  <2>2. \A q \in Peers : \/ peer'[q] = peer[q]
                         \/ peer'[q] = [peer[q] EXCEPT !.connected = FALSE]
      BY <1>23, Zenon DEF PeerHandlerQuit
  <2>3. Registered \subseteq Peers
      BY Zenon DEF TypeInv, RegistryTypes, Registered
  <2> QED
      BY <2>1, <2>2, <2>3, RegistryDropped, Zenon DEF SameRegistry
<1>24. CASE StopManagers
    BY <1>0, <1>24, Zenon DEF StopManagers, registry
<1>25. CASE Cleanup
    BY <1>0, <1>25, Zenon DEF Cleanup, registry
<1>26. CASE UNCHANGED vars
    BY <1>0, <1>26, Zenon DEF vars, registry
<1> QED
    BY <1>1, <1>2, <1>3, <1>4, <1>5, <1>6, <1>7, <1>8, <1>9, <1>10, <1>11, <1>12,
       <1>13, <1>14, <1>15, <1>16, <1>17, <1>18, <1>19, <1>20, <1>21, <1>22, <1>23,
       <1>24, <1>25, <1>26, Zenon DEF Next, ReqStep

\* A peer that is registered was not before, and there was room for it.
LEMMA AddRegisters ==
    ASSUME TypeInv, PeersInv, HandleAddPeerMsg
    PROVE  \/ SameRegistry
           \/ \E p \in Peers :
                 /\ p \notin Registered /\ peer' = peer /\ peer[p].group \in Groups
                 /\ \/ peer[p].inbound /\ peer[p].group \in Whitelisted
                    \/ ~(Count + 1 > MaxPeers)
                 /\ Registered' = Registered \cup {p}
                 /\ \/ /\ peer[p].inbound
                       /\ UNCHANGED <<outboundPeers, persistentPeers, outboundGroups>>
                    \/ /\ ~peer[p].inbound
                       /\ outboundPeers' \cup persistentPeers'
                             = (outboundPeers \cup persistentPeers) \cup {p}
                       /\ outboundGroups' =
                             [outboundGroups EXCEPT ![peer[p].group] = @ + 1]
<1> DEFINE p == Head(newPeers)
<1>1. newPeers \in Seq(Peers) /\ newPeers # <<>> /\ Distinct(newPeers)
    BY Zenon DEF HandleAddPeerMsg, TypeInv, ChanTypes, PeersInv, MessageInv
<1>2. p \in Peers /\ p \in Range(newPeers)
    BY <1>1, TailRange, Zenon
<1>3. p \notin Registered /\ peer[p].at = "told" /\ PeerOk(peer[p])
    BY <1>2, Zenon DEF PeersInv, MessageInv
<1>4. peer[p].group \in Groups
    BY <1>3, Zenon DEF PeerOk
<1>5. \/ /\ \E x : peer' = [peer EXCEPT ![p] = x]
         /\ UNCHANGED <<inboundPeers, outboundPeers, persistentPeers, outboundGroups>>
      \/ /\ UNCHANGED peer
         /\ \E B : ~Refused(p, B)
         /\ inboundPeers' = inboundPeers \cup {q \in {p} : peer[q].inbound}
         /\ persistentPeers' = persistentPeers \cup
               {q \in {p} : ~peer[q].inbound /\ peer[q].persistent}
         /\ outboundPeers' = outboundPeers \cup
               {q \in {p} : ~peer[q].inbound /\ ~peer[q].persistent}
         /\ outboundGroups' = IF peer[p].inbound THEN outboundGroups
                              ELSE [outboundGroups EXCEPT ![peer[p].group] = @ + 1]
    BY ZenonT(30) DEF HandleAddPeerMsg
<1> HIDE DEF p
<1>6. CASE /\ \E x : peer' = [peer EXCEPT ![p] = x]
           /\ UNCHANGED <<inboundPeers, outboundPeers, persistentPeers, outboundGroups>>
    BY <1>3, <1>6, RegistrySlot, Zenon
<1>7. CASE /\ UNCHANGED peer
           /\ \E B : ~Refused(p, B)
           /\ inboundPeers' = inboundPeers \cup {q \in {p} : peer[q].inbound}
           /\ persistentPeers' = persistentPeers \cup
                 {q \in {p} : ~peer[q].inbound /\ peer[q].persistent}
           /\ outboundPeers' = outboundPeers \cup
                 {q \in {p} : ~peer[q].inbound /\ ~peer[q].persistent}
           /\ outboundGroups' = IF peer[p].inbound THEN outboundGroups
                                ELSE [outboundGroups EXCEPT ![peer[p].group] = @ + 1]
  <2>1. \/ peer[p].inbound /\ peer[p].group \in Whitelisted
        \/ ~(Count + 1 > MaxPeers)
      BY <1>7, Zenon DEF Refused
  <2>2. Registered' = Registered \cup {p}
      BY <1>7, Zenon DEF Registered
  <2>3. CASE peer[p].inbound
    <3>1. UNCHANGED <<outboundPeers, persistentPeers, outboundGroups>>
        BY <1>7, <2>3, Zenon
    <3> QED
        BY <1>2, <1>3, <1>4, <1>7, <2>1, <2>2, <2>3, <3>1, Zenon
  <2>4. CASE ~peer[p].inbound
    <3>1. outboundPeers' \cup persistentPeers' = (outboundPeers \cup persistentPeers) \cup {p}
        BY <1>7, <2>4, Zenon
    <3>2. outboundGroups' = [outboundGroups EXCEPT ![peer[p].group] = @ + 1]
        BY <1>7, <2>4, Zenon
    <3> QED
        BY <1>2, <1>3, <1>4, <1>7, <2>1, <2>2, <2>4, <3>1, <3>2, Zenon
  <2> QED
      BY <2>3, <2>4, Zenon
<1> QED
    BY <1>5, <1>6, <1>7, Zenon

\* The peer whose end is reported leaves the registry, if it is in it.
LEMMA DoneUnregisters ==
    ASSUME TypeInv, PeersInv, HandleDonePeerMsg
    PROVE  \E p \in Peers :
              /\ \A q \in Peers : q # p => peer'[q] = peer[q]
              /\ Registered' = Registered \ {p}
              /\ outboundPeers' \cup persistentPeers'
                    = (outboundPeers \cup persistentPeers) \ {p}
              /\ outboundGroups' = IF p \in outboundPeers \cup persistentPeers
                                   THEN [outboundGroups EXCEPT ![peer[p].group] = @ - 1]
                                   ELSE outboundGroups
<1> DEFINE p == Head(donePeers)
<1>1. donePeers \in Seq(Peers) /\ donePeers # <<>> /\ Distinct(donePeers)
    BY Zenon DEF HandleDonePeerMsg, TypeInv, ChanTypes, PeersInv, MessageInv
<1>2. p \in Peers
    BY <1>1, TailRange, Zenon
<1>3. /\ outboundGroups' = IF p \in Registered /\ ~peer[p].inbound
                           THEN [outboundGroups EXCEPT ![peer[p].group] = @ - 1]
                           ELSE outboundGroups
      /\ inboundPeers' = inboundPeers \ {p} /\ outboundPeers' = outboundPeers \ {p}
      /\ persistentPeers' = persistentPeers \ {p}
      /\ \E x : peer' = [peer EXCEPT ![p] = x]
    BY Zenon DEF HandleDonePeerMsg
<1> HIDE DEF p
<1>4. \A q \in Peers : q # p => peer'[q] = peer[q]
    BY <1>3, Zenon DEF TypeInv, PeerTypes
<1>5. (p \in Registered /\ ~peer[p].inbound) <=> p \in outboundPeers \cup persistentPeers
    BY Zenon DEF PeersInv, RegistryInv, Registered
<1>6. Registered' = Registered \ {p}
    BY <1>3, Zenon DEF Registered
<1>7. outboundPeers' \cup persistentPeers' = (outboundPeers \cup persistentPeers) \ {p}
    BY <1>3, Zenon
<1>8. outboundGroups' = IF p \in outboundPeers \cup persistentPeers
                        THEN [outboundGroups EXCEPT ![peer[p].group] = @ - 1]
                        ELSE outboundGroups
    BY <1>3, <1>5, Zenon
<1> QED
    BY <1>2, <1>4, <1>6, <1>7, <1>8, Zenon

\* disconnectPeer takes the peers it disconnects out of the counts.
LEMMA DisconnectCounts ==
    ASSUME TypeInv, PeersInv, GroupCounts, NEW S \in SUBSET Registered, DisconnectPeers(S)
    PROVE  GroupCounts'
<1> SUFFICES ASSUME NEW g \in Groups
             PROVE  outboundGroups'[g] = Cardinality(OfGroup(g)')
    BY Zenon DEF GroupCounts, OfGroup
<1> DEFINE D == {p \in S : ~peer[p].inbound /\ peer[p].group = g}
<1>1. Registered \subseteq Peers /\ OfGroup(g) \subseteq Peers
    BY Zenon DEF TypeInv, RegistryTypes, Registered, OfGroup
<1>2. \A p \in Peers : peer'[p].group = peer[p].group
  <2>1. \A p \in Peers : \/ peer'[p] = peer[p]
                         \/ peer'[p] = [peer[p] EXCEPT !.connected = FALSE]
      BY Zenon DEF DisconnectPeers
  <2> QED
      BY <2>1, RegistryDropped, Zenon
<1>3. OfGroup(g) \cap D = D
    BY Zenon DEF PeersInv, RegistryInv, Registered, OfGroup
<1>4. OfGroup(g)' = OfGroup(g) \ D
  <2>1. outboundPeers' = outboundPeers \ S /\ persistentPeers' = persistentPeers \ S
      BY Zenon DEF DisconnectPeers
  <2>2. \A p \in outboundPeers \cup persistentPeers : ~peer[p].inbound /\ p \in Peers
      BY <1>1, Zenon DEF PeersInv, RegistryInv, Registered
  <2>3. \A p \in OfGroup(g)' : p \in OfGroup(g) \ D
      BY <1>2, <2>1, <2>2, Zenon DEF OfGroup
  <2>4. \A p \in OfGroup(g) \ D : p \in OfGroup(g)'
      BY <1>2, <2>1, <2>2, Zenon DEF OfGroup
  <2> QED
      BY <2>3, <2>4, Zenon
<1>5. Cardinality(OfGroup(g) \ D) = Cardinality(OfGroup(g)) - Cardinality(D)
    BY <1>1, <1>3, FiniteSlots, FS_Difference, ZenonT(30)
<1>6. outboundGroups[g] = Cardinality(OfGroup(g))
    BY Zenon DEF GroupCounts, OfGroup
<1>7. outboundGroups'[g] = outboundGroups[g] - Cardinality(D)
    BY Zenon DEF DisconnectPeers
<1> QED
    BY <1>4, <1>5, <1>6, <1>7, Zenon

\* removeNodeMsg and disconnectNodeMsg disconnect registered peers.
LEMMA QueryDisconnects ==
    ASSUME NEW g \in Groups, RemoveNode(g) \/ DisconnectNode(g)
    PROVE  \E S \in SUBSET Registered : DisconnectPeers(S)
<1>1. \A p \in Registered : {p} \in SUBSET Registered
    BY Zenon
<1>2. persistentPeers \subseteq Registered /\ inboundPeers \subseteq Registered
      /\ {p \in outboundPeers : peer[p].group = g} \in SUBSET Registered
    BY Zenon DEF Registered
<1> QED
    BY <1>1, <1>2, Zenon DEF RemoveNode, DisconnectNode

\* Every step keeps the counts by group exact.
LEMMA GroupStep == TypeInv /\ PeersInv /\ GroupCounts /\ [Next]_vars => GroupCounts'
<1> SUFFICES ASSUME TypeInv, PeersInv, GroupCounts, [Next]_vars
             PROVE  GroupCounts'
    BY Zenon
<1>1. outboundPeers \cup persistentPeers \subseteq Registered /\ Registered \subseteq Peers
    BY Zenon DEF TypeInv, RegistryTypes, Registered
<1>2. \A g \in Groups : outboundGroups[g] = Cardinality(OfGroup(g))
    BY Zenon DEF GroupCounts, OfGroup
<1>3. (\A g \in Groups : outboundGroups'[g] = Cardinality(OfGroup(g)')) => GroupCounts'
    BY Zenon DEF GroupCounts, OfGroup
<1>4. CASE SameRegistry
  <2>1. ASSUME NEW g \in Groups
        PROVE  OfGroup(g)' = OfGroup(g)
    <3>1. \A p \in outboundPeers \cup persistentPeers : peer'[p].group = peer[p].group
        BY <1>1, <1>4, Zenon DEF SameRegistry
    <3>2. outboundPeers' = outboundPeers /\ persistentPeers' = persistentPeers
        BY <1>4, Zenon DEF SameRegistry
    <3> QED
        BY <3>1, <3>2, Zenon DEF OfGroup
  <2>2. outboundGroups' = outboundGroups
      BY <1>4, Zenon DEF SameRegistry
  <2> QED
      BY <1>2, <1>3, <2>1, <2>2, Zenon
<1>5. CASE HandleAddPeerMsg
  <2>1. CASE SameRegistry
      BY <1>4, <2>1, Zenon
  <2>2. ASSUME NEW p \in Peers, p \notin Registered, peer' = peer, peer[p].inbound,
               UNCHANGED <<outboundPeers, persistentPeers, outboundGroups>>
        PROVE  GroupCounts'
      BY <2>2, Zenon DEF GroupCounts
  <2>3. ASSUME NEW p \in Peers, p \notin Registered, peer' = peer, ~peer[p].inbound,
               peer[p].group \in Groups,
               outboundPeers' \cup persistentPeers'
                  = (outboundPeers \cup persistentPeers) \cup {p},
               outboundGroups' = [outboundGroups EXCEPT ![peer[p].group] = @ + 1]
        PROVE  GroupCounts'
    <3> SUFFICES ASSUME NEW g \in Groups
                 PROVE  outboundGroups'[g] = Cardinality(OfGroup(g)')
        BY <1>3, Zenon
    <3>1. p \notin OfGroup(g) /\ IsFiniteSet(OfGroup(g)) /\ outboundGroups[g] = Cardinality(OfGroup(g))
        BY <1>1, <1>2, <2>3, FiniteSlots, Zenon DEF OfGroup
    <3>2. CASE g = peer[p].group
      <4>1. OfGroup(g)' = OfGroup(g) \cup {p}
          BY <2>3, <3>2, Zenon DEF OfGroup
      <4>2. Cardinality(OfGroup(g)') = Cardinality(OfGroup(g)) + 1
          BY <3>1, <4>1, FS_AddElement, Zenon
      <4>3. outboundGroups'[g] = outboundGroups[g] + 1
          BY <2>3, <3>2, Zenon DEF TypeInv, RegistryTypes
      <4> QED
          BY <3>1, <4>2, <4>3, Zenon
    <3>3. CASE g # peer[p].group
      <4>1. OfGroup(g)' = OfGroup(g)
          BY <2>3, <3>3, Zenon DEF OfGroup
      <4>2. outboundGroups'[g] = outboundGroups[g]
          BY <2>3, <3>3, Zenon DEF TypeInv, RegistryTypes
      <4> QED
          BY <3>1, <4>1, <4>2, Zenon
    <3> QED
        BY <3>2, <3>3, Zenon
  <2> QED
      BY <1>5, <2>1, <2>2, <2>3, AddRegisters, Zenon
<1>6. CASE HandleDonePeerMsg
  <2>1. PICK p \in Peers :
           /\ \A q \in Peers : q # p => peer'[q] = peer[q]
           /\ outboundPeers' \cup persistentPeers'
                 = (outboundPeers \cup persistentPeers) \ {p}
           /\ outboundGroups' = IF p \in outboundPeers \cup persistentPeers
                                THEN [outboundGroups EXCEPT ![peer[p].group] = @ - 1]
                                ELSE outboundGroups
      BY <1>6, DoneUnregisters, Zenon
  <2> SUFFICES ASSUME NEW g \in Groups
               PROVE  outboundGroups'[g] = Cardinality(OfGroup(g)')
      BY <1>3, Zenon
  <2>2. OfGroup(g)' = OfGroup(g) \ {p}
    <3>1. \A q \in OfGroup(g)' : q \in OfGroup(g) \ {p}
        BY <1>1, <2>1, Zenon DEF OfGroup
    <3>2. \A q \in OfGroup(g) \ {p} : q \in OfGroup(g)'
        BY <1>1, <2>1, Zenon DEF OfGroup
    <3> QED
        BY <3>1, <3>2, Zenon
  <2>3. IsFiniteSet(OfGroup(g)) /\ outboundGroups[g] = Cardinality(OfGroup(g))
      BY <1>1, <1>2, FiniteSlots, Zenon DEF OfGroup
  <2>4. CASE p \in OfGroup(g)
    <3>1. Cardinality(OfGroup(g)') = Cardinality(OfGroup(g)) - 1
        BY <2>2, <2>3, <2>4, FS_RemoveElement, Zenon
    <3>2. p \in outboundPeers \cup persistentPeers /\ peer[p].group = g
        BY <2>4, Zenon DEF OfGroup
    <3>3. outboundGroups'[g] = outboundGroups[g] - 1
        BY <2>1, <3>2, Zenon DEF TypeInv, RegistryTypes
    <3> QED
        BY <2>3, <3>1, <3>3, Zenon
  <2>5. CASE p \notin OfGroup(g)
    <3>1. OfGroup(g)' = OfGroup(g)
        BY <2>2, <2>5, Zenon
    <3>2. p \notin outboundPeers \cup persistentPeers \/ peer[p].group # g
        BY <2>5, Zenon DEF OfGroup
    <3>3. outboundGroups'[g] = outboundGroups[g]
        BY <2>1, <3>2, Zenon DEF TypeInv, RegistryTypes
    <3> QED
        BY <2>3, <3>1, <3>3, Zenon
  <2> QED
      BY <2>4, <2>5, Zenon
<1>7. CASE \E g \in Groups : RemoveNode(g) \/ DisconnectNode(g)
    BY <1>7, QueryDisconnects, DisconnectCounts, Zenon
<1> QED
    BY <1>4, <1>5, <1>6, <1>7, RegistryFrame, Zenon

\* Every step keeps the number of peers within --maxpeers.
LEMMA MaxPeersStep == TypeInv /\ PeersInv /\ MaxPeersHeld /\ [Next]_vars => MaxPeersHeld'
<1> SUFFICES ASSUME TypeInv, PeersInv, MaxPeersHeld, [Next]_vars
             PROVE  MaxPeersHeld'
    BY Zenon
<1>1. Registered \subseteq Peers /\ Bounded \subseteq Registered /\ Bounded \subseteq Peers
    BY Zenon DEF TypeInv, RegistryTypes, Registered, Bounded
<1>2. Cardinality(Bounded) <= MaxPeers
    BY Zenon DEF MaxPeersHeld, Bounded
<1>3. Cardinality(Bounded') <= MaxPeers => MaxPeersHeld'
    BY Zenon DEF MaxPeersHeld, Bounded
<1>4. ASSUME Bounded' \subseteq Bounded
      PROVE  MaxPeersHeld'
  <2>1. Cardinality(Bounded') <= Cardinality(Bounded)
      BY <1>1, <1>4, FiniteSlots, FS_Subset, Zenon
  <2>2. Cardinality(Bounded') \in Nat /\ Cardinality(Bounded) \in Nat
      BY <1>1, <1>4, FiniteSlots, Zenon
  <2> QED
      BY <1>2, <1>3, <2>1, <2>2, ConstTypes
<1>5. ASSUME Registered' \subseteq Registered,
             \A p \in Registered' :
                peer'[p].group = peer[p].group /\ peer'[p].inbound = peer[p].inbound
      PROVE  MaxPeersHeld'
    BY <1>4, <1>5, Zenon DEF Bounded
<1>6. CASE SameRegistry
    BY <1>5, <1>6, Zenon DEF SameRegistry, Registered
<1>7. CASE HandleAddPeerMsg
  <2>1. CASE SameRegistry
      BY <1>6, <2>1, Zenon
  <2>2. ASSUME NEW p \in Peers, p \notin Registered, peer' = peer,
               Registered' = Registered \cup {p},
               peer[p].inbound /\ peer[p].group \in Whitelisted
        PROVE  MaxPeersHeld'
    <3>1. Bounded' \subseteq Bounded
        BY <2>2, Zenon DEF Bounded
    <3> QED
        BY <1>4, <3>1, Zenon
  <2>3. ASSUME NEW p \in Peers, p \notin Registered, peer' = peer,
               Registered' = Registered \cup {p}, ~(Count + 1 > MaxPeers)
        PROVE  MaxPeersHeld'
    <3>1. Cardinality(Registered \cup {p}) = Cardinality(Registered) + 1
        BY <1>1, <2>3, FiniteSlots, FS_AddElement, Zenon
    <3>2. Bounded' \subseteq Registered \cup {p} /\ Registered \cup {p} \subseteq Peers
        BY <1>1, <2>3, Zenon DEF Bounded
    <3>3. Cardinality(Bounded') <= Cardinality(Registered \cup {p})
        BY <3>2, FiniteSlots, FS_Subset, Zenon
    <3>4. Cardinality(Bounded') \in Nat /\ Cardinality(Registered) \in Nat
        BY <1>1, <3>2, FiniteSlots, Zenon
    <3>5. Cardinality(Registered) + 1 <= MaxPeers
        BY <2>3, <3>4, ConstTypes DEF Count
    <3> QED
        BY <1>3, <3>1, <3>3, <3>4, <3>5, ConstTypes
  <2> QED
      BY <1>7, <2>1, <2>2, <2>3, AddRegisters, Zenon
<1>8. CASE HandleDonePeerMsg
  <2>1. PICK p \in Peers : /\ \A q \in Peers : q # p => peer'[q] = peer[q]
                           /\ Registered' = Registered \ {p}
      BY <1>8, DoneUnregisters, Zenon
  <2> QED
      BY <1>1, <1>5, <2>1, Zenon
<1>9. CASE \E g \in Groups : RemoveNode(g) \/ DisconnectNode(g)
  <2>1. PICK S : DisconnectPeers(S)
      BY <1>9, QueryDisconnects, Zenon
  <2>2. \A p \in Peers : \/ peer'[p] = peer[p]
                         \/ peer'[p] = [peer[p] EXCEPT !.connected = FALSE]
      BY <2>1, Zenon DEF DisconnectPeers
  <2>3. Registered' \subseteq Registered
      BY <2>1, Zenon DEF DisconnectPeers, Registered
  <2> QED
      BY <1>1, <1>5, <2>2, <2>3, RegistryDropped, Zenon
<1> QED
    BY <1>6, <1>7, <1>8, <1>9, RegistryFrame, Zenon

-----------------------------------------------------------------------------
(***************************************************************************)
(* The size of the pool.                                                   *)
(***************************************************************************)
\* A request that moves on stays counted.
LEMMA MovesCounted ==
    ASSUME TypeInv, NEW r \in Reqs, NEW x, Moves(r, x)
    PROVE  Live' = Live /\ OneShot' = OneShot
<1>1. \A s \in Reqs : req'[s] = IF s = r THEN x ELSE req[s]
    BY Zenon DEF TypeInv, ConnTypes, Moves
<1>2. \A s \in Reqs : (req'[s].at # None <=> req[s].at # None) /\ req'[s].perm = req[s].perm
    BY <1>1, Zenon DEF Moves
<1>3. Live' = Live
    BY <1>2, Zenon DEF Live
<1>4. Live \subseteq Reqs
    BY Zenon DEF Live
<1> QED
    BY <1>2, <1>3, <1>4, Zenon DEF OneShot

\* A request that is dropped is not.
LEMMA DroppedUncounted ==
    ASSUME TypeInv, NEW r \in Reqs, req' = [req EXCEPT ![r] = NoReq]
    PROVE  Live' = Live \ {r} /\ OneShot' = OneShot \ {r}
<1>1. \A s \in Reqs : req'[s] = IF s = r THEN NoReq ELSE req[s]
    BY Zenon DEF TypeInv, ConnTypes
<1>2. Live' = Live \ {r}
    BY <1>1, StateNames, Zenon DEF Live
<1>3. Live \subseteq Reqs
    BY Zenon DEF Live
<1> QED
    BY <1>1, <1>2, <1>3, Zenon DEF OneShot

\* Sizes that do not change.
LEMMA PoolFrame ==
    ASSUME TypeInv, PoolInv, Live' = Live, OneShot' = OneShot, oneShots' = oneShots,
           cm' = cm \/ cm' \in {"stopped", "exited"}
    PROVE  PoolInv'
<1>1. (cm' = "started" => cm = "started") /\ (cm' = "created" => cm = "created")
    BY Zenon
<1>2. PoolSize'
    BY <1>1, Zenon DEF PoolInv, PoolSize, OneShot
<1> QED
    BY <1>1, <1>2, Zenon DEF PoolInv

\* The pool of a manager that was stopped or finds no addresses only shrinks.
LEMMA PoolStopped ==
    ASSUME TypeInv, PoolInv, OneShot' \subseteq OneShot, oneShots' = oneShots,
           cm' \in {"stopped", "exited"} \/ (~AutoConnect /\ cm' = cm)
    PROVE  PoolInv'
<1>1. Cardinality(OneShot') <= Cardinality(OneShot) /\ OneShot \subseteq Reqs
  <2>1. OneShot \subseteq Reqs
      BY Zenon DEF OneShot, Live
  <2> QED
      BY <2>1, FiniteSlots, FS_Subset, Zenon
<1>2. Cardinality(OneShot) <= TargetOutbound + oneShots
    BY Zenon DEF PoolInv, PoolSize, OneShot
<1>3. Cardinality(OneShot') \in Nat /\ Cardinality(OneShot) \in Nat
    BY <1>1, FiniteSlots, Zenon
<1>4. Cardinality(OneShot') <= TargetOutbound + oneShots'
    BY <1>1, <1>2, <1>3, ConstTypes DEF TypeInv, StopTypes
<1>5. ~(AutoConnect /\ cm' = "started") /\ (cm' = "created" => cm = "created")
    BY Zenon
<1>6. PoolSize'
    BY <1>4, <1>5, Zenon DEF PoolSize, OneShot
<1>7. cm = "created" => Cardinality(OneShot) <= oneShots
    BY Zenon DEF PoolInv
<1>8. cm' = "created" => Cardinality(OneShot') <= oneShots'
    BY <1>1, <1>3, <1>5, <1>7 DEF TypeInv, StopTypes
<1> QED
    BY <1>6, <1>8, Zenon DEF PoolInv

\* Start fills the pool to the target, if it can: no request is made for the
\* users' own.
LEMMA StartFills ==
    ASSUME TypeInv, PoolInv, Start
    PROVE  PoolInv'
<1> DEFINE K == {r \in Reqs : req[r].at \notin {None, "new"}}
           n == TargetOutbound - Cardinality(K)
<1>1. PICK S \in SUBSET {r \in Reqs : req[r].at = None} :
         /\ Cardinality(S) = IF n < 0 \/ ~AutoConnect THEN 0 ELSE n
         /\ req' = [r \in Reqs |-> IF r \in S THEN [NoReq EXCEPT !.at = "address"] ELSE req[r]]
    BY Zenon DEF Start
<1>2. /\ [NoReq EXCEPT !.at = "address"].at # None
      /\ [NoReq EXCEPT !.at = "address"].perm = FALSE
    BY Zenon DEF NoReq, None
<1>3. S \subseteq Reqs /\ K \subseteq Reqs /\ Live \subseteq Reqs /\ OneShot \subseteq Reqs
      /\ K \subseteq Live /\ Live \cap S = {} /\ OneShot \cap S = {}
    BY <1>1, Zenon DEF Live, OneShot, None
<1>4. Live' = Live \cup S
    BY <1>1, <1>2, Zenon DEF Live
<1>5. OneShot' = OneShot \cup S
  <2>1. \A r \in Reqs : r \in OneShot' <=> r \in Live' /\ ~req'[r].perm
      BY Zenon DEF OneShot, Live
  <2>2. \A r \in Reqs : r \in OneShot <=> r \in Live /\ ~req[r].perm
      BY Zenon DEF OneShot, Live
  <2>3. \A r \in S : ~req'[r].perm
      BY <1>1, <1>2, <1>3, Zenon
  <2>4. \A r \in Reqs \ S : req'[r] = req[r]
      BY <1>1, Zenon
  <2>5. OneShot' \subseteq Reqs
      BY Zenon DEF OneShot, Live
  <2> QED
      BY <1>3, <1>4, <2>1, <2>2, <2>3, <2>4, <2>5, Zenon
<1>6. /\ Cardinality(S) \in Nat /\ Cardinality(K) \in Nat /\ Cardinality(Live) \in Nat
      /\ Cardinality(OneShot) \in Nat
    BY <1>3, FiniteSlots, Zenon
<1>7. IsFiniteSet(S) /\ IsFiniteSet(K) /\ IsFiniteSet(Live) /\ IsFiniteSet(OneShot)
    BY <1>3, FiniteSlots, Zenon
<1>8. Cardinality(K) <= Cardinality(Live)
    BY <1>3, <1>7, FS_Subset, Zenon
<1>9. /\ Cardinality(Live') = Cardinality(Live) + Cardinality(S)
      /\ Cardinality(OneShot') = Cardinality(OneShot) + Cardinality(S)
  <2>1. /\ Cardinality(Live \cup S) = Cardinality(Live) + Cardinality(S) - Cardinality(Live \cap S)
        /\ Cardinality(OneShot \cup S)
              = Cardinality(OneShot) + Cardinality(S) - Cardinality(OneShot \cap S)
      BY <1>7, FS_Union, Zenon
  <2>2. Cardinality(Live \cap S) = 0 /\ Cardinality(OneShot \cap S) = 0
      BY <1>3, FS_EmptySet, Zenon
  <2> QED
      BY <1>4, <1>5, <1>6, <2>1, <2>2
<1>10. Cardinality(OneShot) <= oneShots /\ oneShots' = oneShots /\ cm' = "started"
    BY Zenon DEF Start, PoolInv
<1> HIDE DEF K
<1>11. /\ AutoConnect => Cardinality(Live') >= TargetOutbound
       /\ Cardinality(OneShot') <= TargetOutbound + oneShots'
    BY <1>1, <1>6, <1>8, <1>9, <1>10, ConstTypes DEF TypeInv, StopTypes
<1>12. PoolSize'
    BY <1>11, Zenon DEF PoolSize, OneShot
<1> QED
    BY <1>10, <1>12, Zenon DEF PoolInv

\* A request a user asks for is counted with the users'.
LEMMA ConnectCounted ==
    ASSUME TypeInv, PoolInv, NEW g \in Groups, NEW permanent \in BOOLEAN,
           ConnectNode(g, permanent)
    PROVE  PoolInv'
<1>1. PICK r \in Reqs :
         /\ req[r] = NoReq
         /\ req' = [req EXCEPT ![r] = [at |-> "dial", perm |-> permanent, group |-> g]]
    BY Zenon DEF ConnectNode
<1>2. /\ req[r].at = None /\ req'[r].at # None /\ req'[r].perm = permanent
      /\ \A s \in Reqs : s # r => req'[s] = req[s]
    BY <1>1, StateNames, Zenon DEF TypeInv, ConnTypes
<1>3. cm' = cm /\ oneShots' = IF permanent THEN oneShots ELSE oneShots + 1
    BY Zenon DEF ConnectNode
<1>4. Live \subseteq Reqs /\ OneShot \subseteq Reqs /\ r \notin Live /\ r \notin OneShot
    BY <1>2, Zenon DEF Live, OneShot
<1>5. Live' = Live \cup {r}
    BY <1>2, Zenon DEF Live
<1>6. OneShot' = IF permanent THEN OneShot ELSE OneShot \cup {r}
  <2>1. \A s \in Reqs : s \in OneShot' <=> s \in Live' /\ ~req'[s].perm
      BY Zenon DEF OneShot, Live
  <2>2. \A s \in Reqs : s \in OneShot <=> s \in Live /\ ~req[s].perm
      BY Zenon DEF OneShot, Live
  <2>3. OneShot' \subseteq Reqs
      BY Zenon DEF OneShot, Live
  <2>4. CASE permanent
      BY <1>2, <1>4, <1>5, <2>1, <2>2, <2>3, <2>4, Zenon
  <2>5. CASE ~permanent
      BY <1>2, <1>4, <1>5, <2>1, <2>2, <2>3, <2>5, Zenon
  <2> QED
      BY <2>4, <2>5, Zenon
<1>7. Cardinality(Live) \in Nat /\ Cardinality(OneShot) \in Nat
      /\ IsFiniteSet(Live) /\ IsFiniteSet(OneShot)
    BY <1>4, FiniteSlots, Zenon
<1>8. Cardinality(Live') = Cardinality(Live) + 1
    BY <1>4, <1>5, <1>7, FS_AddElement, Zenon
<1>9. Cardinality(OneShot') - oneShots' = Cardinality(OneShot) - oneShots
  <2>1. CASE permanent
      BY <1>3, <1>6, <2>1, Zenon
  <2>2. CASE ~permanent
    <3>1. Cardinality(OneShot') = Cardinality(OneShot) + 1
        BY <1>4, <1>6, <1>7, <2>2, FS_AddElement, Zenon
    <3> QED
        BY <1>3, <1>7, <2>2, <3>1 DEF TypeInv, StopTypes
  <2> QED
      BY <2>1, <2>2, Zenon
<1>10. oneShots \in Nat /\ oneShots' \in Nat
    BY <1>3 DEF TypeInv, StopTypes
<1>11. /\ AutoConnect /\ cm = "started" => Cardinality(Live) >= TargetOutbound
       /\ Cardinality(OneShot) <= TargetOutbound + oneShots
       /\ cm = "created" => Cardinality(OneShot) <= oneShots
    BY Zenon DEF PoolInv, PoolSize, OneShot
<1>12. Cardinality(OneShot') \in Nat
  <2>1. OneShot' \subseteq Reqs
      BY Zenon DEF OneShot, Live
  <2> QED
      BY <2>1, FiniteSlots, Zenon
<1>13. Cardinality(OneShot') <= TargetOutbound + oneShots'
    BY <1>7, <1>9, <1>10, <1>11, <1>12, ConstTypes
<1>14. cm' = "created" => Cardinality(OneShot') <= oneShots'
    BY <1>3, <1>7, <1>9, <1>10, <1>11, <1>12
<1>15. AutoConnect /\ cm' = "started" => Cardinality(Live') >= TargetOutbound
    BY <1>3, <1>7, <1>8, <1>11, ConstTypes
<1>16. PoolSize'
    BY <1>13, <1>15, Zenon DEF PoolSize, OneShot
<1> QED
    BY <1>14, <1>16, Zenon DEF PoolInv

\* Disconnect drops a request only when the connections left reach the target
\* or nothing gives new addresses.
LEMMA DonePool ==
    ASSUME TypeInv, ReqInv, PeersInv, ConnInv, PoolInv, HandleDonePeerMsg
    PROVE  PoolInv'
<1>1. cm' = cm /\ oneShots' = oneShots
    BY Zenon DEF HandleDonePeerMsg
<1>2. \/ UNCHANGED <<req, conns>>
      \/ \E r \in Reqs : Disconnect(r)
    BY HandleDoneReq, Zenon
<1>3. CASE req' = req
    BY <1>1, <1>3, PoolFrame, Zenon DEF Live, OneShot
<1>4. ASSUME NEW r \in Reqs, NEW x, Moves(r, x)
      PROVE  PoolInv'
    BY <1>1, <1>4, MovesCounted, PoolFrame, Zenon
<1>5. ASSUME NEW r \in Reqs, r \in conns, conns' = conns \ {r},
             Cardinality(conns') >= TargetOutbound, req' = [req EXCEPT ![r] = NoReq]
      PROVE  PoolInv'
  <2>1. Live' = Live \ {r} /\ OneShot' = OneShot \ {r}
      BY <1>5, DroppedUncounted, Zenon
  <2>2. Live \subseteq Reqs /\ OneShot \subseteq Reqs /\ conns' \subseteq Live'
      BY <1>5, <2>1, Zenon DEF Live, OneShot, ConnInv, None
  <2>3. Cardinality(conns') <= Cardinality(Live') /\ Cardinality(OneShot') <= Cardinality(OneShot)
    <3>1. Live' \subseteq Reqs /\ OneShot' \subseteq OneShot
        BY <2>1, <2>2, Zenon
    <3> QED
        BY <2>2, <3>1, FiniteSlots, FS_Subset, Zenon
  <2>4. /\ Cardinality(conns') \in Nat /\ Cardinality(Live') \in Nat
        /\ Cardinality(OneShot') \in Nat /\ Cardinality(OneShot) \in Nat
      BY <2>1, <2>2, FiniteSlots, Zenon
  <2>5. /\ Cardinality(OneShot) <= TargetOutbound + oneShots
        /\ cm = "created" => Cardinality(OneShot) <= oneShots
      BY Zenon DEF PoolInv, PoolSize, OneShot
  <2>6. oneShots \in Nat
      BY Zenon DEF TypeInv, StopTypes
  <2>7. Cardinality(Live') >= TargetOutbound
      BY <1>5, <2>3, <2>4, ConstTypes
  <2>8. Cardinality(OneShot') <= TargetOutbound + oneShots'
      BY <1>1, <2>3, <2>4, <2>5, <2>6, ConstTypes
  <2>9. cm' = "created" => Cardinality(OneShot') <= oneShots'
      BY <1>1, <2>3, <2>4, <2>5, <2>6
  <2>10. PoolSize'
      BY <2>7, <2>8, Zenon DEF PoolSize, OneShot
  <2> QED
      BY <2>9, <2>10, Zenon DEF PoolInv
<1>6. ASSUME NEW r \in Reqs, ~AutoConnect, req' = [req EXCEPT ![r] = NoReq]
      PROVE  PoolInv'
  <2>1. OneShot' \subseteq OneShot
      BY <1>6, DroppedUncounted, Zenon
  <2> QED
      BY <1>1, <1>6, <2>1, PoolStopped, Zenon
<1> QED
    BY <1>2, <1>3, <1>4, <1>5, <1>6, DisconnectCases, Zenon

\* Every step keeps the size of the pool.
LEMMA PoolStep ==
    TypeInv /\ ReqInv /\ PeersInv /\ ConnInv /\ PoolInv /\ [Next]_vars => PoolInv'
<1> SUFFICES ASSUME TypeInv, ReqInv, PeersInv, ConnInv, PoolInv, [Next]_vars
             PROVE  PoolInv'
    BY Zenon
<1>0. ASSUME req' = req, oneShots' = oneShots, cm' = cm \/ cm' \in {"stopped", "exited"}
      PROVE  PoolInv'
  <2>1. Live' = Live
      BY <1>0, Zenon DEF Live
  <2>2. OneShot' = OneShot
      BY <1>0, <2>1, Zenon DEF OneShot
  <2> QED
      BY <1>0, <2>1, <2>2, PoolFrame, Zenon
<1>1. CASE Start
    BY <1>1, StartFills, Zenon
<1>2. CASE ConnQuit
    BY <1>0, <1>2, Zenon DEF ConnQuit, connVars
<1>3. ASSUME NEW r \in Reqs, Abandon(r)
      PROVE  PoolInv'
  <2>1. cm' \in {"stopped", "exited"} /\ oneShots' = oneShots /\ req' = [req EXCEPT ![r] = NoReq]
      BY <1>3, Zenon DEF Abandon, Stopped
  <2>2. OneShot' \subseteq OneShot
      BY <2>1, DroppedUncounted, Zenon
  <2> QED
      BY <2>1, <2>2, PoolStopped, Zenon
<1>4. ASSUME NEW r \in Reqs, GetNewAddress(r)
      PROVE  PoolInv'
  <2>1. cm' = cm /\ oneShots' = oneShots
      BY <1>4, Zenon DEF GetNewAddress
  <2>2. \E x : Moves(r, x)
      BY <1>4, AttemptMoves, Zenon
  <2> QED
      BY <2>1, <2>2, MovesCounted, PoolFrame, Zenon
<1>5. ASSUME NEW r \in Reqs, Dial(r)
      PROVE  PoolInv'
  <2>1. cm' = cm /\ oneShots' = oneShots
      BY <1>5 DEF Dial
  <2>2. \E x : Moves(r, x)
      BY <1>5, AttemptMoves, Zenon
  <2> QED
      BY <2>1, <2>2, MovesCounted, PoolFrame, Zenon
<1>6. ASSUME NEW r \in Reqs, Retry(r)
      PROVE  PoolInv'
  <2>1. cm' = cm /\ oneShots' = oneShots
      BY <1>6, Zenon DEF Retry
  <2>2. \E x : Moves(r, x)
      BY <1>6, AttemptMoves, Zenon
  <2> QED
      BY <2>1, <2>2, MovesCounted, PoolFrame, Zenon
<1>7. ASSUME NEW r \in Reqs, ConnFailed(r)
      PROVE  PoolInv'
  <2>1. HandleFailedConn(r) /\ req[r].at = "failed" /\ cm' = cm /\ oneShots' = oneShots
      BY <1>7, Zenon DEF ConnFailed
  <2>2. CASE GivenUp(r)
    <3>1. req' = [req EXCEPT ![r] = NoReq]
        BY <2>1, <2>2, Zenon DEF HandleFailedConn
    <3>2. OneShot' \subseteq OneShot
        BY <3>1, DroppedUncounted, Zenon
    <3>3. cm' \in {"stopped", "exited"} \/ (~AutoConnect /\ cm' = cm)
        BY <2>1, <2>2, Zenon DEF GivenUp, Stopped
    <3> QED
        BY <2>1, <3>2, <3>3, PoolStopped, Zenon
  <2>3. CASE ~GivenUp(r)
    <3>1. \E x : Moves(r, x)
        BY <2>1, <2>3, FailedMoves, Zenon
    <3> QED
        BY <2>1, <3>1, MovesCounted, PoolFrame, Zenon
  <2> QED
      BY <2>2, <2>3, Zenon
<1>8. ASSUME NEW r \in Reqs, ConnConnected(r)
      PROVE  PoolInv'
  <2>1. cm' = cm /\ oneShots' = oneShots
      BY <1>8, Zenon DEF ConnConnected
  <2>2. \E x : Moves(r, x)
      BY <1>8, ConnectedMoves, Zenon
  <2> QED
      BY <2>1, <2>2, MovesCounted, PoolFrame, Zenon
<1>9. ASSUME NEW r \in Reqs, NEW g \in Groups, ConnectConfigured(r, g)
      PROVE  PoolInv'
  <2>1. cm' = cm /\ oneShots' = oneShots
      BY <1>9, Zenon DEF ConnectConfigured
  <2>2. \E x : Moves(r, x)
      BY <1>9, AttemptMoves, Zenon
  <2> QED
      BY <2>1, <2>2, MovesCounted, PoolFrame, Zenon
<1>10. ASSUME NEW p \in Peers, NEW g \in Groups, InboundPeerConnected(p, g)
      PROVE  PoolInv'
    BY <1>0, <1>10, Zenon DEF InboundPeerConnected, connVars
<1>11. ASSUME NEW p \in Peers, ReadVersion(p)
      PROVE  PoolInv'
    BY <1>0, <1>11, Zenon DEF ReadVersion, connVars
<1>12. ASSUME NEW p \in Peers, AddPeer(p)
      PROVE  PoolInv'
    BY <1>0, <1>12, Zenon DEF AddPeer, connVars
<1>13. ASSUME NEW p \in Peers, PeerDisconnect(p)
      PROVE  PoolInv'
    BY <1>0, <1>13, Zenon DEF PeerDisconnect, connVars
<1>14. ASSUME NEW p \in Peers, BanPeer(p)
      PROVE  PoolInv'
    BY <1>0, <1>14, Zenon DEF BanPeer, connVars
<1>15. ASSUME NEW p \in Peers, PeerDone(p)
      PROVE  PoolInv'
    BY <1>0, <1>15, Zenon DEF PeerDone, connVars
<1>16. CASE HandleAddPeerMsg
    BY <1>0, <1>16, Zenon DEF HandleAddPeerMsg, connVars
<1>17. CASE HandleDonePeerMsg
    BY <1>17, DonePool, Zenon
<1>18. CASE HandleBanPeerMsg
    BY <1>0, <1>18, Zenon DEF HandleBanPeerMsg, connVars
<1>19. CASE HandleRelayInvMsg
    BY <1>0, <1>19, Zenon DEF HandleRelayInvMsg, connVars
<1>20. ASSUME NEW g \in Groups, RemoveNode(g)
      PROVE  PoolInv'
    BY <1>0, <1>20, Zenon DEF RemoveNode, connVars, DisconnectPeers
<1>21. ASSUME NEW g \in Groups, DisconnectNode(g)
      PROVE  PoolInv'
    BY <1>0, <1>21, Zenon DEF DisconnectNode, connVars, DisconnectPeers
<1>22. ASSUME NEW g \in Groups, NEW permanent \in BOOLEAN, ConnectNode(g, permanent)
      PROVE  PoolInv'
    BY <1>22, ConnectCounted, Zenon
<1>23. CASE BlockMsg
    BY <1>0, <1>23, Zenon DEF BlockMsg, connVars
<1>24. CASE RelayInventory
    BY <1>0, <1>24, Zenon DEF RelayInventory, connVars
<1>25. CASE BlockQuit
    BY <1>0, <1>25, Zenon DEF BlockQuit, connVars
<1>26. CASE Stop
    BY <1>0, <1>26, Zenon DEF Stop, connVars
<1>27. CASE PeerHandlerQuit
    BY <1>0, <1>27, Zenon DEF PeerHandlerQuit, connVars
<1>28. CASE StopManagers
    BY <1>0, <1>28, Zenon DEF StopManagers, connVars
<1>29. CASE Cleanup
    BY <1>0, <1>29, Zenon DEF Cleanup, connVars
<1>30. CASE UNCHANGED vars
    BY <1>0, <1>30, Zenon DEF vars, connVars
<1> QED
    BY <1>1, <1>2, <1>3, <1>4, <1>5, <1>6, <1>7, <1>8, <1>9, <1>10, <1>11, <1>12,
       <1>13, <1>14, <1>15, <1>16, <1>17, <1>18, <1>19, <1>20, <1>21, <1>22, <1>23,
       <1>24, <1>25, <1>26, <1>27, <1>28, <1>29, <1>30 DEF Next, ReqStep

-----------------------------------------------------------------------------
(***************************************************************************)
(* The theorems.                                                           *)
(***************************************************************************)
\* newServer's state satisfies the invariant.
LEMMA InitInv == Init => NetworkInv
<1> SUFFICES ASSUME Init
             PROVE  NetworkInv
    BY Zenon
<1>1. \A r \in Reqs : /\ req[r] \in Request /\ ReqOk(req[r])
                      /\ req[r].at \in {None, "new"} /\ (req[r].at # None => req[r].perm)
  <2> SUFFICES ASSUME NEW r \in Reqs
               PROVE  /\ req[r] \in Request /\ ReqOk(req[r])
                      /\ req[r].at \in {None, "new"} /\ (req[r].at # None => req[r].perm)
      BY Zenon
  <2>1. req[r] = NoReq \/ req[r] = [NoReq EXCEPT !.at = "new", !.perm = TRUE]
      BY Zenon DEF Init
  <2>2. CASE req[r] = NoReq
      BY <2>2, StateNames, Zenon
  <2>3. CASE req[r] = [NoReq EXCEPT !.at = "new", !.perm = TRUE]
    <3>1. req[r] = [at |-> "new", perm |-> TRUE, group |-> None]
        BY <2>3, Zenon DEF NoReq
    <3>2. req[r].at = "new" /\ req[r].perm
        BY <3>1
    <3>3. req[r] \in Request
        BY <3>1 DEF Request, ReqStates
    <3> QED
        BY <3>2, <3>3, Zenon DEF ReqOk, None
  <2> QED
      BY <2>1, <2>2, <2>3, Zenon
<1>2. TypeInv
  <2>1. ConnTypes
      BY <1>1, ConstTypes DEF Init, ConnTypes
  <2>2. PeerTypes
      BY PeerFields, Zenon DEF Init, PeerTypes
  <2>3. <<>> \in Seq(Peers) /\ <<>> \in Seq(Groups) /\ Len(<<>>) = 0
      OBVIOUS
  <2>4. ChanTypes
      BY <2>3, ConstTypes DEF Init, ChanTypes
  <2>5. RegistryTypes
    <3>1. /\ inboundPeers = {} /\ outboundPeers = {} /\ persistentPeers = {} /\ banned = {}
          /\ outboundGroups = [g \in Groups |-> 0]
        BY Zenon DEF Init
    <3> QED
        BY <3>1 DEF RegistryTypes
  <2>6. StopTypes
    <3>1. /\ server = "run" /\ shutdown = FALSE /\ relaying = 0 /\ blockDone = FALSE
          /\ oneShots = 0 /\ events = 0
        BY Zenon DEF Init
    <3>2. shutdown \in BOOLEAN /\ blockDone \in BOOLEAN
        BY <3>1, Zenon
    <3>3. relaying \in 0..MaxRelay /\ oneShots \in Nat /\ events \in 0..MaxEvents
        BY <3>1, ConstTypes
    <3> QED
        BY <3>1, <3>2, <3>3, Zenon DEF StopTypes
  <2> QED
      BY <2>1, <2>2, <2>4, <2>5, <2>6, Zenon DEF TypeInv
<1>3. ReqInv
    BY <1>1, Zenon DEF ReqInv
<1>4. PeersInv
  <2>1. PeerOk(NoPeer)
      BY Zenon DEF PeerOk, NoPeer
  <2>2. \A p \in Peers : PeerOk(peer[p])
      BY <2>1, Zenon DEF Init
  <2>3. RegistryInv
      BY Zenon DEF Init, RegistryInv
  <2>4. Range(<<>>) = {} /\ Distinct(<<>>)
      BY DEF Range, Distinct
  <2>5. MessageInv
      BY <2>4, Zenon DEF Init, MessageInv
  <2> QED
      BY <2>2, <2>3, <2>5, Zenon DEF PeersInv
<1>5. GroupCounts
  <2>1. \A g \in Groups : {p \in outboundPeers \cup persistentPeers : peer[p].group = g} = {}
      BY Zenon DEF Init
  <2>2. \A g \in Groups : outboundGroups[g] = 0
      BY Zenon DEF Init
  <2> QED
      BY <2>1, <2>2, FS_EmptySet, Zenon DEF GroupCounts
<1>6. ConnInv
  <2>1. \A r \in Reqs : req[r].at # "established"
      BY <1>1, Zenon DEF None
  <2>2. \A p \in Peers : \A r \in Reqs : ~Owns(p, r)
    <3>1. NoPeer.req \notin Reqs
        BY NetworkAssumption, Zenon DEF NoPeer, None
    <3>2. \A p \in Peers : peer[p] = NoPeer
        BY Zenon DEF Init
    <3> QED
        BY <3>1, <3>2, Zenon DEF Owns
  <2>3. conns = {}
      BY Zenon DEF Init
  <2>4. conns = {r \in Reqs : req[r].at = "established"}
      BY <2>1, <2>3, Zenon
  <2> QED
      BY <2>2, <2>3, <2>4, Zenon DEF ConnInv
<1>7. PoolInv
  <2>1. OneShot = {}
      BY <1>1, Zenon DEF OneShot, Live
  <2>2. Cardinality(OneShot) = 0
      BY <2>1, FS_EmptySet, Zenon
  <2>3. cm = "created" /\ oneShots = 0
      BY Zenon DEF Init
  <2>4. Cardinality(OneShot) <= TargetOutbound + oneShots /\ Cardinality(OneShot) <= oneShots
      BY <2>2, <2>3, ConstTypes
  <2>5. cm # "started"
      BY <2>3, Zenon
  <2>6. PoolSize
      BY <2>4, <2>5, Zenon DEF PoolSize, OneShot
  <2> QED
      BY <2>4, <2>6, Zenon DEF PoolInv
<1>8. MaxPeersHeld
  <2>1. Registered = {}
      BY Zenon DEF Init, Registered
  <2>2. Bounded = {}
      BY <2>1, Zenon DEF Bounded
  <2>3. Cardinality(Bounded) <= MaxPeers
      BY <2>2, FS_EmptySet, ConstTypes
  <2> QED
      BY <2>3, Zenon DEF MaxPeersHeld, Bounded
<1> QED
    BY <1>2, <1>3, <1>4, <1>5, <1>6, <1>7, <1>8, Zenon DEF NetworkInv

\* The inductive invariant holds in every reachable state of the connection manager
\* and the peer registry, for any finite sets of requests and peers.
THEOREM NetworkInvariant == Spec => []NetworkInv
<1>1. NetworkInv /\ [Next]_vars => NetworkInv'
    BY TypeStep, RequestStep, PeersStep, GroupStep, ConnStep, PoolStep, MaxPeersStep, Zenon
       DEF NetworkInv
<1> QED
    BY <1>1, InitInv, PTL DEF Spec

\* Requests, peers, channels and registry have their types; the channels never hold
\* more than the server made them for, and no count by group is negative.
THEOREM TypeCorrect == Spec => []TypeOK
<1>1. NetworkInv => TypeOK
  <2> SUFFICES ASSUME NetworkInv
               PROVE  TypeOK
      BY Zenon
  <2>1. outboundGroups \in [Groups -> Nat]
    <3>1. \A g \in Groups : Cardinality(OfGroup(g)) \in Nat
      <4>1. \A g \in Groups : OfGroup(g) \in SUBSET Peers
          BY Zenon DEF OfGroup, NetworkInv, TypeInv, RegistryTypes
      <4> QED
          BY <4>1, FiniteSlots, Zenon
    <3>2. \A g \in Groups : outboundGroups[g] = Cardinality(OfGroup(g))
        BY Zenon DEF NetworkInv, GroupCounts, OfGroup
    <3> QED
        BY <3>1, <3>2, Zenon DEF NetworkInv, TypeInv, RegistryTypes
  <2>2. ConnTypes /\ PeerTypes /\ ChanTypes /\ RegistryTypes /\ StopTypes
      BY Zenon DEF NetworkInv, TypeInv
  <2> QED
      BY <2>1, <2>2, Zenon
         DEF TypeOK, ConnTypes, PeerTypes, ChanTypes, RegistryTypes, StopTypes
<1> QED
    BY <1>1, NetworkInvariant, PTL

\* The counts that GetNewAddress asks the peer handler for are exact, whichever way
\* peers come and go.
THEOREM GroupCountsAlways == Spec => []GroupCounts
<1>1. NetworkInv => GroupCounts
    BY Zenon DEF NetworkInv
<1> QED
    BY <1>1, NetworkInvariant, PTL

\* While the connection manager runs it never holds fewer attempts and connections
\* than the target, and it exceeds it by no more than the users asked for.
THEOREM PoolSizeAlways == Spec => []PoolSize
<1>1. NetworkInv => PoolSize
    BY Zenon DEF NetworkInv, PoolInv
<1> QED
    BY <1>1, NetworkInvariant, PTL

\* connHandler's map holds the established requests, each owned by one peer whose
\* end is still to be reported and connected to one peer at most.
THEOREM ConnsSoundAlways == Spec => []ConnsSound
<1>1. NetworkInv => ConnsSound
  <2> SUFFICES ASSUME NetworkInv
               PROVE  OneConnection /\ ConnsOwned
      BY Zenon DEF ConnsSound
  <2>1. ConnInv /\ PeersInv /\ TypeInv
      BY Zenon DEF NetworkInv
  <2>2. OneConnection
    <3> SUFFICES ASSUME NEW p \in Peers, NEW q \in Peers, p # q, peer[p].req # None,
                        peer[p].req = peer[q].req, peer[p].connected, peer[q].connected
                 PROVE  FALSE
        BY Zenon DEF OneConnection
    <3>1. peer[p].done = "no" /\ peer[q].done = "no"
        BY <2>1, Zenon DEF PeersInv, PeerOk
    <3>2. peer[p] \in Peer
        BY <2>1, Zenon DEF TypeInv, PeerTypes
    <3>3. peer[p].req \in Reqs
        BY <3>2, Zenon DEF Peer
    <3>4. Owns(p, peer[p].req) /\ Owns(q, peer[p].req)
        BY <3>1, Zenon DEF Owns
    <3> QED
        BY <2>1, <3>3, <3>4, Zenon DEF ConnInv
  <2>3. ConnsOwned
      BY <2>1, Zenon DEF ConnsOwned, ConnInv, Owns
  <2> QED
      BY <2>2, <2>3, Zenon
<1> QED
    BY <1>1, NetworkInvariant, PTL

\* handleAddPeerMsg never registers more peers than --maxpeers allows, whitelisted
\* inbound ones aside, however many negotiate at once.
THEOREM MaxPeersAlways == Spec => []MaxPeersHeld
<1>1. NetworkInv => MaxPeersHeld
    BY Zenon DEF NetworkInv
<1> QED
    BY <1>1, NetworkInvariant, PTL

=============================================================================
