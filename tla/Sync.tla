------------------------------- MODULE Sync -------------------------------
(***************************************************************************)
(* The block manager's synchronisation with its peers (blockmanager.go):   *)
(* the choice of the sync peer, headers-first download between             *)
(* checkpoints, download by inventory afterwards, and the tracking of      *)
(* requested blocks.  A remote peer answers getheaders, getblocks and      *)
(* getdata as this server does (server.go).                                *)
(*                                                                         *)
(* blockHandler handles one message at a time.  A message of a peer and    *)
(* its handling are one step; what is in transit is what the peer was      *)
(* asked and has not answered.  When a connection is lost its input        *)
(* handler may still hold one message, and nothing orders that message, or *)
(* the NewPeer of a peer lost while it negotiates, before the DonePeer     *)
(* sent by another goroutine.  The history variable strays records this    *)
(* and the other things that blockHandler handles out of turn: a block     *)
(* submitted locally, one named by a miningstate message, one sent again.  *)
(*                                                                         *)
(* The block chain is seen through ProcessBlock and HaveBlock only.        *)
(***************************************************************************)
EXTENDS Naturals, Sequences, FiniteSets, FiniteSetsExt

CONSTANTS
    Peers,
    Block, Genesis, None,
    Parent,          \* Block \ {Genesis} -> Block
    Anc,             \* Block -> SUBSET Block: the block and its ancestors
    Height,          \* Block -> Nat
    RemoteChain,     \* Peers -> Seq(Block): the best chain of a peer
    Checkpoints,     \* Seq(Block), oldest first
    CurrentHeight,   \* the height from which the chain believes it is current
    MaxHeaders,      \* wire.MaxBlockHeadersPerMsg
    MaxBlocks,       \* wire.MaxBlocksPerMsg
    MaxInv,          \* wire.MaxInvPerMsg, the most blocks asked for at once
    MaxRequested,    \* maxRequestedBlocks
    MinInFlight,     \* minInFlightBlocks
    MaxResend,       \* maxResendLimit
    MaxEvents        \* bound on lost connections, announcements and submissions

ASSUME SyncAssumption ==
    /\ Genesis \in Block /\ None \notin Block \cup Peers
    /\ Parent \in [Block \ {Genesis} -> Block]
    /\ Anc \in [Block -> SUBSET Block] /\ Anc[Genesis] = {Genesis}
    /\ Height \in [Block -> Nat] /\ Height[Genesis] = 0
    /\ \A b \in Block \ {Genesis} :
          Anc[b] = {b} \cup Anc[Parent[b]] /\ Height[b] = Height[Parent[b]] + 1
    /\ \A b \in Block : \A a \in Anc[b] : Anc[a] \subseteq Anc[b] /\ Height[a] <= Height[b]
    /\ \E top \in Block : \A b \in Block : Height[b] <= Height[top]
    /\ RemoteChain \in [Peers -> Seq(Block \ {Genesis})]
    /\ \A p \in Peers : \A i \in DOMAIN RemoteChain[p] : Height[RemoteChain[p][i]] = i
    /\ Checkpoints \in Seq(Block \ {Genesis})
    /\ {MaxHeaders, MaxBlocks, MaxInv, MaxRequested, MinInFlight, MaxResend} \subseteq Nat \ {0}
    /\ MaxEvents \in Nat

VARIABLES
    chain,      \* [have, best, orphans]: the block index, the tip, the orphan pool
    bm,         \* the fields of blockManager; ever[b] is one more than the number
                \* of unexpected copies of a block ever requested, and else 0;
                \* heights are the updatePeerHeightsMsgs on their way
    sp,         \* the server peers: their fields, and what they were asked
    fastAdded,  \* history: the blocks accepted with BFFastAdd
    strays,     \* history: the kinds of things handled out of turn (Stray)
    events

vars == <<chain, bm, sp, fastAdded, strays, events>>

Stray == {"late", "submitted", "mining", "resent"}

NoCheckpoint == 0
NextCheckpoint(s) == Checkpoints[s.bm.nextCheckpoint]

\* The last element of a sequence.
Last(seq) == seq[Len(seq)]

\* What a peer has: the blocks of its best chain, and the last of them.
ToSetG(p) == Range(RemoteChain[p]) \cup {Genesis}
Tip(p) == IF RemoteChain[p] = <<>> THEN Genesis ELSE Last(RemoteChain[p])

\* The elements of seq that are in S, in their order.
Only(seq, S) ==
    LET kept[i \in Nat] == IF i = 0 THEN <<>>
                           ELSE IF seq[i] \in S THEN Append(kept[i - 1], seq[i]) ELSE kept[i - 1]
    IN  kept[Len(seq)]

\* The first position of x in seq, or 0.
FirstAt(seq, x) == LET at == {i \in DOMAIN seq : seq[i] = x} IN IF at = {} THEN 0 ELSE Min(at)

\* findNextHeaderCheckpoint, as an index into Checkpoints.
FindNextHeaderCheckpoint(height) ==
    LET later == {i \in DOMAIN Checkpoints : Height[Checkpoints[i]] > height}
    IN  IF later = {} THEN NoCheckpoint ELSE Min(later)

NewPeer == [conn |-> "new", newPending |-> FALSE, last |-> FALSE, requested |-> {},
            asked |-> <<>>, lastBlock |-> 0, announced |-> None, getBlocks |-> None,
            getHeaders |-> None, continue |-> None]

Init ==
    /\ chain = [have |-> {Genesis}, best |-> Genesis, orphans |-> {}]
    /\ bm = [syncPeer |-> None, candidates |-> <<>>, requested |-> {},
             ever |-> [b \in Block |-> 0], heights |-> {},
             headersFirst |-> FALSE, startHeader |-> None,
             headerList |-> IF Checkpoints = <<>> THEN <<>> ELSE <<Genesis>>,
             nextCheckpoint |-> FindNextHeaderCheckpoint(0)]
    /\ sp = [p \in Peers |-> NewPeer]
    /\ fastAdded = {} /\ strays = {} /\ events = 0

Event == events < MaxEvents /\ events' = events + 1

(***************************************************************************)
(* The chain, as the block manager uses it.                                *)
(***************************************************************************)

HaveBlock(c, b) == b \in c.have \cup c.orphans

\* GetOrphanRoot: the highest ancestor whose parent is not an orphan.
GetOrphanRoot(c, b) ==
    CHOOSE a \in Anc[b] \cap c.orphans :
        /\ Parent[a] \notin c.orphans
        /\ \A x \in Anc[b] \ Anc[a] : x \in c.orphans

\* verifyCheckpoint fails: the block is at the height of a checkpoint that it is not.
WrongCheckpoint(b) == \E k \in Range(Checkpoints) : Height[k] = Height[b] /\ k # b

\* checkBlockHeaderPositional refuses a wrong checkpoint and a block below one that
\* the best chain has reached, the one findPreviousCheckpoint returns.
Refused(c, b) ==
    \/ WrongCheckpoint(b)
    \/ \E k \in Range(Checkpoints) : Height[b] < Height[k] /\ Height[k] <= Height[c.best]

\* The chains that accepting the blocks of new may leave.  The first of the
\* highest becomes the tip, and in which order orphans came is not kept.
Accepted(c, new) ==
    LET higher == {t \in new : /\ Height[t] > Height[c.best]
                               /\ \A x \in new : Height[x] <= Height[t]}
    IN  {[have |-> c.have \cup new, best |-> t, orphans |-> c.orphans \ new] :
            t \in IF higher = {} THEN {c.best} ELSE higher}

\* ProcessBlock: the new chain, and whether there was an error, the block is an
\* orphan, is or was the tip, or is on a side chain.  processOrphans goes up from the
\* block until it meets a wrong checkpoint, which leaves the pool; the orphans it did
\* not get to stay there.  Blocks are valid otherwise.
ProcessBlock(c, b) ==
    LET above == {o \in c.orphans : b \in Anc[o] /\ Anc[o] \subseteq c.have \cup c.orphans \cup {b}}
        wrong == {o \in above : WrongCheckpoint(o)}
        first == {w \in wrong : \A o \in wrong : Height[w] <= Height[o]}
        below == {o \in above : \A w \in wrong : Height[o] < Height[w]}
        beside == {o \in above \ wrong : \A w \in first : Height[o] = Height[w]}
        stopped(w) == UNION {{[chain |-> [d EXCEPT !.orphans = @ \ {w}], status |-> "error"] :
                                 d \in Accepted(c, below \cup before \cup {b})} :
                             before \in SUBSET beside}
    IN  IF HaveBlock(c, b) THEN {[chain |-> c, status |-> "error"]}
        ELSE IF Parent[b] \notin c.have
        THEN {[chain |-> [c EXCEPT !.orphans = @ \cup {b}], status |-> "orphan"]}
        ELSE IF Refused(c, b) THEN {[chain |-> c, status |-> "error"]}
        ELSE IF wrong = {}
        THEN {[chain |-> d, status |-> IF Height[b] > Height[c.best] THEN "main" ELSE "side"] :
                 d \in Accepted(c, above \cup {b})}
        ELSE UNION {stopped(w) : w \in first}

\* blockManager.current.
Current(s) ==
    /\ Height[s.chain.best] >= CurrentHeight
    /\ s.bm.syncPeer # None => Height[s.chain.best] >= s.sp[s.bm.syncPeer].lastBlock

(***************************************************************************)
(* Requests to a peer.  A message to a lost peer is dropped.               *)
(***************************************************************************)

Ask(s, p, rs) == IF s.sp[p].conn = "up" THEN [s EXCEPT !.sp[p].asked = @ \o rs] ELSE s

\* PushGetHeadersMsg and PushGetBlocksMsg ignore a repetition of the last one.
PushGetHeaders(s, p, begin, stop) ==
    IF s.sp[p].getHeaders = <<begin, stop>> THEN s
    ELSE [Ask(s, p, <<[kind |-> "headers", from |-> begin, stop |-> stop]>>)
             EXCEPT !.sp[p].getHeaders = <<begin, stop>>]

PushGetBlocks(s, p, begin, stop) ==
    IF s.sp[p].getBlocks = <<begin, stop>> THEN s
    ELSE [Ask(s, p, <<[kind |-> "blocks", from |-> begin, stop |-> stop]>>)
             EXCEPT !.sp[p].getBlocks = <<begin, stop>>]

\* PushGetBlocksMsg for one pair <<begin, stop>> after the other.
PushAllGetBlocks(s, p, pairs) ==
    LET fresh == {i \in DOMAIN pairs : pairs[i] # IF i = 1 THEN s.sp[p].getBlocks ELSE pairs[i - 1]}
        sent == Only([i \in DOMAIN pairs |-> i], fresh)
    IN  IF pairs = <<>> THEN s
        ELSE [Ask(s, p, [i \in DOMAIN sent |-> [kind |-> "blocks", from |-> pairs[sent[i]][1],
                                                stop |-> pairs[sent[i]][2]]])
                 EXCEPT !.sp[p].getBlocks = Last(pairs)]

\* getdata: the peer sends the blocks one after the other.
GetData(s, p, bs) ==
    Ask(s, p, [i \in DOMAIN bs |-> [kind |-> "data", from |-> bs[i], stop |-> None]])

\* Peer.Disconnect, called by a handler.  The next message of the peer may already
\* be queued.
Drop(s, p) ==
    IF s.sp[p].conn = "up"
    THEN [s EXCEPT !.sp[p].conn = "lost", !.sp[p].last = s.sp[p].asked # <<>>] ELSE s

(***************************************************************************)
(* Choosing the sync peer.                                                 *)
(***************************************************************************)

\* resetHeaderState.
ResetHeaderState(s) ==
    [s EXCEPT !.bm.headersFirst = FALSE, !.bm.startHeader = None,
              !.bm.headerList = IF s.bm.nextCheckpoint # NoCheckpoint THEN <<s.chain.best>>
                                ELSE <<>>]

\* The first of the highest peers of a list.
FirstHighest(s, ps) ==
    ps[CHOOSE i \in DOMAIN ps :
          /\ \A j \in DOMAIN ps : s.sp[ps[j]].lastBlock <= s.sp[ps[i]].lastBlock
          /\ \A j \in 1..(i - 1) : s.sp[ps[j]].lastBlock < s.sp[ps[i]].lastBlock]

\* startSync: candidates that fell behind are removed, and the first of the
\* highest is asked for headers up to the next checkpoint, or for blocks.
StartSync(s) ==
    LET height == Height[s.chain.best]
        left == Only(s.bm.candidates, {p \in Peers : s.sp[p].lastBlock >= height})
    IN  IF s.bm.syncPeer # None THEN s
        ELSE IF left = <<>> THEN [s EXCEPT !.bm.candidates = left]
        ELSE LET best == FirstHighest(s, left)
                 t == [s EXCEPT !.bm.candidates = left, !.bm.requested = {},
                                !.bm.syncPeer = best]
             IN  IF s.bm.nextCheckpoint # NoCheckpoint /\ height < Height[NextCheckpoint(s)]
                 THEN [PushGetHeaders(t, best, s.chain.best, NextCheckpoint(s))
                         EXCEPT !.bm.headersFirst = TRUE]
                 ELSE PushGetBlocks(t, best, s.chain.best, None)

\* handleNewPeerMsg, for a full node.
HandleNewPeerMsg(s, p) == StartSync([s EXCEPT !.bm.candidates = Append(@, p)])

\* Mutant: the requests of a lost peer stay in the global map.
MutHandleDonePeerMsg(s, p) ==
    LET t == [s EXCEPT !.bm.candidates = Only(@, Peers \ {p})]
    IN  IF s.bm.syncPeer # p THEN t
        ELSE LET u == [t EXCEPT !.bm.syncPeer = None]
             IN  StartSync(IF u.bm.headersFirst THEN ResetHeaderState(u) ELSE u)

\* Mutant: headers-first mode goes on without a reset.
MutDoneNoReset(s, p) ==
    LET t == [s EXCEPT !.bm.candidates = Only(@, Peers \ {p}),
                       !.bm.requested = @ \ s.sp[p].requested]
    IN  IF s.bm.syncPeer # p THEN t ELSE StartSync([t EXCEPT !.bm.syncPeer = None])

\* Mutant: the last candidate stays the sync peer.
MutDoneNoStart(s, p) ==
    LET t == [s EXCEPT !.bm.candidates = Only(@, Peers \ {p}),
                       !.bm.requested = @ \ s.sp[p].requested]
    IN  IF s.bm.syncPeer # p \/ s.bm.candidates = <<p>> THEN t
        ELSE LET u == [t EXCEPT !.bm.syncPeer = None]
             IN  StartSync(IF u.bm.headersFirst THEN ResetHeaderState(u) ELSE u)

\* handleDonePeerMsg.
HandleDonePeerMsg(s, p) ==
    LET t == [s EXCEPT !.bm.candidates = Only(@, Peers \ {p}),
                       !.bm.requested = @ \ s.sp[p].requested]
    IN  IF s.bm.syncPeer # p THEN t
        ELSE LET u == [t EXCEPT !.bm.syncPeer = None]
             IN  StartSync(IF u.bm.headersFirst THEN ResetHeaderState(u) ELSE u)

(***************************************************************************)
(* Headers-first download.                                                 *)
(***************************************************************************)

\* A request for blocks, in the global map and in the map of the peer.
Request(s, p, bs) ==
    GetData([s EXCEPT !.bm.requested = @ \cup Range(bs),
                      !.bm.ever = [b \in Block |-> IF b \in Range(bs) THEN 1 ELSE @[b]],
                      !.sp[p].requested = @ \cup Range(bs)], p, bs)

\* limitMap: a full map loses one of its entries, whichever.
LimitMap(s) ==
    IF Cardinality(s.bm.requested) + 1 > MaxRequested
    THEN {[s EXCEPT !.bm.requested = @ \ {b}] : b \in s.bm.requested} ELSE {s}

\* The headers from startHeader on.  A start header that was removed from the list has
\* no successor.
HeadersLeft(s) ==
    LET l == s.bm.headerList
        at == FirstAt(l, s.bm.startHeader)
    IN  IF at = 0 THEN <<s.bm.startHeader>> ELSE SubSeq(l, at, Len(l))

\* Those of blocks we do not have, up to the most that are asked for at once.
HeadersWanted(s) ==
    LET missing == Only(HeadersLeft(s), {b \in Block : ~HaveBlock(s.chain, b)})
    IN  SubSeq(missing, 1, IF Len(missing) < MaxInv THEN Len(missing) ELSE MaxInv)


\* fetchHeaderBlocks: ask the sync peer for the next blocks from startHeader on.
FetchHeaderBlocks(s) ==
    LET rest == HeadersLeft(s)
        want == HeadersWanted(s)
        next == IF Len(want) < MaxInv THEN <<>>
                ELSE SubSeq(rest, FirstAt(rest, Last(want)) + 1, Len(rest))
    IN  IF s.bm.startHeader = None THEN s
        ELSE Request([s EXCEPT !.bm.startHeader = IF next = <<>> THEN None ELSE Head(next)],
                     s.bm.syncPeer, want)

\* Mutant: the header at the height of the checkpoint may be another one.
MutHandleHeadersMsg(s, p, hs) ==
    LET l == s.bm.headerList
        linked(i) == IF i = 1 THEN l # <<>> /\ Last(l) = Parent[hs[1]]
                     ELSE hs[i - 1] = Parent[hs[i]]
        stops == {i \in DOMAIN hs : ~linked(i) \/ Height[hs[i]] = Height[NextCheckpoint(s)]}
        stop == Min(stops)
        added == IF stops = {} THEN hs
                 ELSE SubSeq(hs, 1, IF linked(stop) THEN stop ELSE stop - 1)
        t == [s EXCEPT !.bm.headerList = @ \o added,
                       !.bm.startHeader = IF @ = None /\ added # <<>> THEN Head(added) ELSE @]
    IN  IF ~s.bm.headersFirst THEN Drop(s, p)
        ELSE IF hs = <<>> THEN s
        ELSE IF stops = {} THEN PushGetHeaders(t, p, Last(hs), NextCheckpoint(s))
        ELSE IF linked(stop)
        THEN FetchHeaderBlocks([t EXCEPT !.bm.headerList = Tail(@)])
        ELSE Drop(t, p)

\* handleHeadersMsg.  The loop ends at the first header that does not extend the
\* one before it, or at the first at the height of the next checkpoint.
HandleHeadersMsg(s, p, hs) ==
    LET l == s.bm.headerList
        linked(i) == IF i = 1 THEN l # <<>> /\ Last(l) = Parent[hs[1]]
                     ELSE hs[i - 1] = Parent[hs[i]]
        stops == {i \in DOMAIN hs : ~linked(i) \/ Height[hs[i]] = Height[NextCheckpoint(s)]}
        stop == Min(stops)
        added == IF stops = {} THEN hs
                 ELSE SubSeq(hs, 1, IF linked(stop) THEN stop ELSE stop - 1)
        t == [s EXCEPT !.bm.headerList = @ \o added,
                       !.bm.startHeader = IF @ = None /\ added # <<>> THEN Head(added) ELSE @]
    IN  IF ~s.bm.headersFirst THEN Drop(s, p)
        ELSE IF hs = <<>> THEN s
        ELSE IF stops = {} THEN PushGetHeaders(t, p, Last(hs), NextCheckpoint(s))
        ELSE IF linked(stop) /\ hs[stop] = NextCheckpoint(s)
        THEN FetchHeaderBlocks([t EXCEPT !.bm.headerList = Tail(@)])
        ELSE Drop(t, p)

(***************************************************************************)
(* Inventory and blocks.                                                   *)
(***************************************************************************)

\* The blocks handleInvMsg asks for on account of those the chain already has:
\* up to the root of an orphan, and on from the last one.
KnownInv(c, inv) ==
    LET known == Only(inv, c.orphans \cup (c.have \cap {Last(inv)}))
    IN  [i \in DOMAIN known |-> IF known[i] \in c.orphans
                                THEN <<c.best, GetOrphanRoot(c, known[i])>>
                                ELSE <<known[i], None>>]

\* The requests of handleInvMsg, one vector after the other: the states it may leave.
RequestInv(s, p, inv) ==
    LET after[i \in Nat] ==
            IF i = 0 THEN {s}
            ELSE UNION {IF HaveBlock(t.chain, inv[i]) \/ inv[i] \in t.bm.requested THEN {t}
                        ELSE LimitMap(Request(t, p, <<inv[i]>>)) : t \in after[i - 1]}
    IN  after[Len(inv)]

\* handleInvMsg, for a message of blocks: the states it may leave.
HandleInvMsg(s, p, inv) ==
    LET final == Last(inv)
        s1 == IF p # s.bm.syncPeer \/ Current(s)
              THEN [s EXCEPT !.sp[p].announced = final] ELSE s
        s2 == IF Current(s1) /\ final \in Anc[s1.chain.best]
              THEN [s1 EXCEPT !.sp[p].lastBlock = Height[final]]
              ELSE s1
    IN  IF p # s.bm.syncPeer /\ ~Current(s1) THEN {s1}
        ELSE IF s.bm.headersFirst THEN {s2}
        ELSE RequestInv(PushAllGetBlocks(s2, p, KnownInv(s2.chain, inv)), p, inv)

\* requestFromPeer, for the blocks of a miningstate message.
RequestFromPeer(s, p, b) ==
    IF b \in s.sp[p].requested \cup s.bm.requested \/ HaveBlock(s.chain, b) THEN s
    ELSE Request(s, p, <<b>>)

\* Whether a block is eligible for less validation: the first in the list.
FastAdd(s, b) ==
    /\ s.bm.headersFirst
    /\ s.bm.headerList # <<>>
    /\ Head(s.bm.headerList) = b

\* handleBlockMsg once the block was processed: the height it tells of the peer, sent
\* to peerHandler too, and the request for the ancestors of an orphan.
NoteHeight(s, p, b, status) ==
    LET hash == IF status = "orphan" THEN b ELSE s.chain.best
        s1 == IF status = "orphan"
              THEN PushGetBlocks(s, p, s.chain.best, GetOrphanRoot(s.chain, b)) ELSE s
        s2 == [s1 EXCEPT !.sp[p].lastBlock = Height[hash]]
    IN  IF status = "side" THEN s
        ELSE IF status = "orphan" \/ Current(s2)
        THEN [s2 EXCEPT !.bm.heights = @ \cup {<<hash, p>>}] ELSE s2

\* And the next requests.
AfterBlock(s, p, b, status, isCheckpoint) ==
    LET s3 == NoteHeight(s, p, b, status)
        next == FindNextHeaderCheckpoint(Height[b])
        s4 == [s3 EXCEPT !.bm.nextCheckpoint = next]
    IN  IF ~s3.bm.headersFirst THEN s3
        ELSE IF ~isCheckpoint
        THEN IF Cardinality(s3.sp[p].requested) < MinInFlight THEN FetchHeaderBlocks(s3) ELSE s3
        ELSE IF next # NoCheckpoint
        THEN PushGetHeaders(s4, p, b, NextCheckpoint(s4))
        ELSE PushGetBlocks([s4 EXCEPT !.bm.headersFirst = FALSE, !.bm.headerList = <<>>],
                           p, b, None)

\* Whether a block that this peer was not asked for makes it misbehaving: it
\* was never requested, or came too often.
Misbehaving(s, p, b) ==
    b \notin s.sp[p].requested /\ (s.bm.ever[b] = 0 \/ s.bm.ever[b] > MaxResend + 1)

\* handleBlockMsg: the states it may leave.
HandleBlockMsg(s, p, b) ==
    LET fast == FastAdd(s, b)
        isCheckpoint == fast /\ b = NextCheckpoint(s)
        copies == IF b \in s.sp[p].requested THEN s.bm.ever[b] ELSE s.bm.ever[b] + 1
        s1 == [s EXCEPT !.bm.headerList = IF fast /\ ~isCheckpoint THEN Tail(@) ELSE @,
                        !.bm.ever = [@ EXCEPT ![b] = copies],
                        !.bm.requested = @ \ {b},
                        !.sp[p].requested = @ \ {b}]
        after(r) == LET t == [s1 EXCEPT !.chain = r.chain]
                    IN  IF r.status = "error" THEN t ELSE AfterBlock(t, p, b, r.status, isCheckpoint)
    IN  IF Misbehaving(s, p, b) THEN {Drop(s, p)} ELSE {after(r) : r \in ProcessBlock(s.chain, b)}

(***************************************************************************)
(* What a remote peer answers.                                             *)
(***************************************************************************)

\* locateInventory on the chain of the peer.
Locate(p, from, stop, max) ==
    LET c == RemoteChain[p]
        start == Max({Height[b] : b \in Anc[from] \cap ToSetG(p)}) + 1
        end == IF stop \in Range(c) /\ Height[stop] >= start THEN Height[stop] ELSE Len(c)
        n == IF end + 1 > start + max THEN start + max - 1 ELSE end
    IN  SubSeq(c, start, n)

\* The peer's answer to a request, handled by blockHandler: OnGetHeaders,
\* OnGetBlocks, or pushBlockMsg.  "tip" stands for the inventory message that
\* pushBlockMsg adds after the last block of a full batch.
Answered(s, p, r) ==
    LET inv == Locate(p, r.from, r.stop, MaxBlocks)
        full == Len(inv) = MaxBlocks
        t == IF r.kind = "data" /\ s.sp[p].continue = r.from
             THEN [s EXCEPT !.sp[p].continue = None,
                            !.sp[p].asked = <<[kind |-> "tip", from |-> None, stop |-> None]>> \o @]
             ELSE s
    IN  CASE r.kind = "headers" -> {HandleHeadersMsg(s, p, Locate(p, r.from, r.stop, MaxHeaders))}
          [] r.kind = "blocks" /\ inv = <<>> -> {s}
          [] r.kind = "blocks" /\ inv # <<>> ->
                HandleInvMsg(IF full THEN [s EXCEPT !.sp[p].continue = Last(inv)] ELSE s, p, inv)
          [] r.kind = "tip" -> HandleInvMsg(s, p, <<Tip(p)>>)
          [] r.kind = "data" -> HandleBlockMsg(t, p, r.from)

(***************************************************************************)
(* Steps.                                                                  *)
(***************************************************************************)

State == [bm |-> bm, sp |-> sp, chain |-> chain]
Becomes(s) == bm' = s.bm /\ sp' = s.sp /\ chain' = s.chain

Gone(p) == sp[p].conn = "gone"

NoteFastAdd(fast) == fastAdded' = fastAdded \cup IF fast THEN chain'.have \ chain.have ELSE {}

\* The version of a peer is known; OnVersion is about to call NewPeer.
Version(p) ==
    /\ sp[p].conn = "new"
    /\ sp' = [sp EXCEPT ![p].conn = "up", ![p].newPending = TRUE,
                        ![p].lastBlock = Len(RemoteChain[p])]
    /\ UNCHANGED <<chain, bm, fastAdded, strays, events>>

\* blockHandler receives a newPeerMsg.
NewPeerMsg(p) ==
    /\ sp[p].newPending
    /\ Becomes(HandleNewPeerMsg([State EXCEPT !.sp[p].newPending = FALSE], p))
    /\ strays' = strays \cup (IF Gone(p) THEN {"late"} ELSE {})
    /\ UNCHANGED <<fastAdded, events>>

Answering(p) ==
    /\ ~sp[p].newPending /\ sp[p].asked # <<>>
    /\ sp[p].conn = "up" \/ sp[p].last

\* blockHandler receives an answer of the peer: the next one while it is
\* connected, at most one more once it is not.
PeerMsg(p) ==
    /\ Answering(p)
    /\ LET r == Head(sp[p].asked)
           s == [State EXCEPT !.sp[p].asked = IF sp[p].conn = "up" THEN Tail(@) ELSE <<>>,
                              !.sp[p].last = FALSE]
       IN  /\ \E t \in Answered(s, p, r) : Becomes(t)
           /\ NoteFastAdd(r.kind = "data" /\ FastAdd(State, r.from))
    /\ strays' = strays \cup (IF Gone(p) THEN {"late"} ELSE {})
    /\ UNCHANGED events

\* The peer announces its tip.
Announce(p) ==
    /\ Event
    /\ sp[p].conn = "up" /\ ~sp[p].newPending
    /\ \E t \in HandleInvMsg(State, p, <<Tip(p)>>) : Becomes(t)
    /\ UNCHANGED <<fastAdded, strays>>

\* A block the peer was not asked for.
Unsolicited(p, b) ==
    /\ Event
    /\ sp[p].conn = "up" /\ ~sp[p].newPending
    /\ b \in Range(RemoteChain[p]) \ sp[p].requested
    /\ \E t \in HandleBlockMsg(State, p, b) : Becomes(t)
    /\ NoteFastAdd(FastAdd(State, b))
    /\ strays' = strays \cup (IF Misbehaving(State, p, b) THEN {} ELSE {"resent"})

\* The peer sends a miningstate message that names a block.  It was asked for one
\* once the chain was current, but is not refused at any time.
MiningState(p, b) ==
    /\ Event
    /\ sp[p].conn = "up" /\ ~sp[p].newPending
    /\ b \in Range(RemoteChain[p])
    /\ Becomes(RequestFromPeer(State, p, b))
    /\ strays' = strays \cup {"mining"}
    /\ UNCHANGED fastAdded

\* blockHandler receives a processBlockMsg (a mined or submitted block).
SubmitBlock(b) ==
    /\ Event
    /\ \E r \in ProcessBlock(chain, b) : chain' = r.chain
    /\ strays' = strays \cup {"submitted"}
    /\ UNCHANGED <<bm, sp, fastAdded>>

\* peerHandler receives an updatePeerHeightsMsg: the registered peers that announced
\* the block, the one it came from aside, are that high.  A peer enters and leaves the
\* registry by messages of its own.
UpdatePeerHeights(b, p) ==
    /\ <<b, p>> \in bm.heights
    /\ \E told \in SUBSET {q \in Peers \ {p} : sp[q].announced = b} :
           sp' = [q \in Peers |-> IF q \in told
                                  THEN [sp[q] EXCEPT !.lastBlock = Height[b], !.announced = None]
                                  ELSE sp[q]]
    /\ bm' = [bm EXCEPT !.heights = @ \ {<<b, p>>}]
    /\ UNCHANGED <<chain, fastAdded, strays, events>>

\* The connection is lost.
Lose(p) ==
    /\ Event
    /\ sp[p].conn = "up"
    /\ sp' = [sp EXCEPT ![p].conn = "lost", ![p].last = sp[p].asked # <<>>]
    /\ UNCHANGED <<chain, bm, fastAdded, strays>>

\* blockHandler receives a donePeerMsg.
DonePeerMsg(p) ==
    /\ sp[p].conn = "lost"
    /\ Becomes(HandleDonePeerMsg([State EXCEPT !.sp[p].conn = "gone"], p))
    /\ UNCHANGED <<fastAdded, strays, events>>

Next ==
    \/ \E p \in Peers : Version(p) \/ NewPeerMsg(p) \/ PeerMsg(p) \/ Announce(p) \/ Lose(p)
                        \/ DonePeerMsg(p)
                        \/ \E b \in Block : \/ Unsolicited(p, b) \/ MiningState(p, b)
                                            \/ UpdatePeerHeights(b, p)
    \/ \E b \in Block \ {Genesis} : SubmitBlock(b)

\* blockHandler serves its channel in order, so what is sent to it is handled;
\* a connected peer answers, since its stall handler disconnects one that does
\* not.  Each formula is weak fairness with the guard of the action in place of
\* ENABLED.
Fairness ==
    \A p \in Peers :
        /\ []<>(~sp[p].newPending) \/ []<><<NewPeerMsg(p)>>_vars
        /\ []<>(~Answering(p)) \/ []<><<PeerMsg(p)>>_vars
        /\ []<>(sp[p].conn # "lost") \/ []<><<DonePeerMsg(p)>>_vars

Spec == Init /\ [][Next]_vars
FairSpec == Spec /\ Fairness

(***************************************************************************)
(* Properties.                                                             *)
(***************************************************************************)

\* Types of the block manager's fields; a requested block was once asked for, and an
\* orphan has no index entry.
TypeOK ==
    /\ chain.have \subseteq Block /\ chain.orphans \subseteq Block \ chain.have
    /\ chain.best \in chain.have
    /\ bm.syncPeer \in Peers \cup {None}
    /\ bm.candidates \in Seq(Peers)
    /\ \A b \in bm.requested : bm.ever[b] > 0
    /\ bm.headerList \in Seq(Block)
    /\ bm.startHeader \in Block \cup {None}
    /\ bm.nextCheckpoint \in 0..Len(Checkpoints)
    /\ \A p \in Peers : sp[p].requested \subseteq Block

\* startSync: "if we validate all of the received headers link together properly
\* and the checkpoint hashes match, we can be sure the hashes for the blocks in
\* between are accurate", and "perform less validation for them".  The header list is
\* one chain, whatever happens; and every block accepted with BFFastAdd is a checkpoint
\* or an ancestor of one, however many peers give headers, fork or are lost on the way,
\* if what blockHandler handles comes in turn.  Each kind of stray breaks it: a block
\* sent again or late removes the connected front of a list that no checkpoint has
\* ended yet, and an orphan that was submitted, or asked for on account of a
\* miningstate message, is accepted with the flags of its parent.
HeadersVouch ==
    /\ \A i \in 2..Len(bm.headerList) : Parent[bm.headerList[i]] = bm.headerList[i - 1]
    /\ strays = {} => \A b \in fastAdded : \E k \in Range(Checkpoints) : b \in Anc[k]

\* "Remove requested blocks from the global map so that they will be fetched
\* from elsewhere": as long as no message of a lost peer came late, a block in
\* the global map was requested from a peer that has not been handled as done.
RequestedFromSomeone ==
    "late" \notin strays =>
        \A b \in bm.requested : \E p \in Peers : ~Gone(p) /\ b \in sp[p].requested

\* The sync peer and the candidates have not been handled as done, again unless
\* a message came late: a lost sync peer never blocks the choice of another.
CandidatesPresent ==
    "late" \notin strays =>
        \A p \in Range(bm.candidates) \cup ({bm.syncPeer} \ {None}) : ~Gone(p)

\* handleDonePeerMsg leaves nothing behind of a peer: no request that keeps a block
\* from being fetched elsewhere, no candidate and no sync peer.
LostPeersForgotten == RequestedFromSomeone /\ CandidatesPresent


\* In headers-first mode there is a sync peer and a next checkpoint, both of
\* which handleHeadersMsg, handleBlockMsg and fetchHeaderBlocks dereference.
HeadersFirstHasPeer ==
    bm.headersFirst => bm.syncPeer # None /\ bm.nextCheckpoint # NoCheckpoint

\* startSync: "Once we have passed the final checkpoint, [...] use standard inv
\* messages learn about the blocks".
HeadersFirstEnds ==
    bm.headersFirst =>
        Height[chain.best] < Max({Height[Checkpoints[i]] : i \in DOMAIN Checkpoints})

=============================================================================
