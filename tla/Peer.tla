-------------------------------- MODULE Peer --------------------------------
(***************************************************************************)
(* One peer connection (peer/peer.go): the version negotiation that start   *)
(* runs, the four goroutines inHandler, queueHandler, outHandler and        *)
(* stallHandler with the channels between them, the functions other         *)
(* goroutines call (QueueMessage, QueueInventory, QueueInventoryImmediate,  *)
(* PushRejectMsg, Disconnect) and the known inventory cache                 *)
(* (peer/lruinvcache.go).                                                   *)
(*                                                                          *)
(* Every send on a channel, every check of the atomic flags and every       *)
(* receive is a step of its own; a send waits until the channel has room.   *)
(* A message is a record of what the handlers look at: what it is, who      *)
(* queued it, and the channel to signal (NoChan when the caller passed      *)
(* nil).  Done channels have room for one signal, as every caller makes     *)
(* them.                                                                    *)
(***************************************************************************)
EXTENDS Integers, Sequences, Functions

CONSTANTS
    Callers,            \* goroutines that call QueueMessage once
    Waiters,            \* the callers that pass a done channel and wait on it
    Announcers,         \* goroutines that queue inventory vectors, one at a time
    Inv,                \* inventory vectors
    Received,           \* what the remote peer may send
    OutputBufferSize,   \* outputBufferSize
    MaxKnownInventory,  \* maxKnownInventory
    MaxInvTrickleSize,  \* maxInvTrickleSize
    MaxEvents           \* bound on the calls, pings and received messages together

ASSUME PeerAssumption ==
    /\ Waiters \subseteq Callers
    /\ {"none", "reject"} \cap Callers = {}
    /\ Received \subseteq {"block", "notfound", "inv", "ping", "verack", "version",
                        "malformed", "eof"}
    /\ OutputBufferSize \in Nat \ {0}
    /\ MaxKnownInventory \in Nat
    /\ MaxInvTrickleSize \in Nat \ {0}

VARIABLES
    disconnect,     \* p.disconnect # 0, the connection and p.quit closed
    start,          \* start: negotiating the version, then queueing the verack
    outputQueue,    \* channel to queueHandler
    outputInvChan,  \* channel of inventory to queueHandler
    sendQueue,      \* channel from queueHandler to outHandler, size 1
    sendDoneQueue,  \* tokens in the channel back, size 1
    stallControl,   \* channel to stallHandler, size 1
    queue,          \* queueHandler: pc, pendingMsgs, invSendQueue, invMsg, waiting
    out,            \* outHandler: pc and the message it holds
    in,             \* inHandler: pc, the message it handles, verAckReceived
    stall,          \* stallHandler: pc, pendingResponses, handlerActive, ioStopped
    caller,         \* pc of each caller
    announcer,      \* pc of each announcer, its vector, which function it calls
    signalled,      \* tokens ever put in each done channel
    known,          \* knownInventory, most recently used first
    events,         \* calls started, pings queued and messages read so far
    owed            \* history: messages queueHandler took while connected, in
                    \* that order, and outHandler has not written yet

chanVars == <<outputQueue, outputInvChan, sendQueue, sendDoneQueue, stallControl>>
callVars == <<caller, announcer, known>>
histVars == <<events, owed>>
vars == <<disconnect, start, chanVars, queue, out, in, stall, callVars,
          signalled, histVars>>

-----------------------------------------------------------------------------
(***************************************************************************)
(* Messages, responses and the known inventory.                            *)
(***************************************************************************)
NoChan == "none"

Chans == Waiters \cup {"reject"}

Message(kind, from, done) == [kind |-> kind, from |-> from, done |-> done]

\* The command of a caller's message: one that expects a block, tx or notfound.
CallerMessage(c) ==
    Message("getdata", c, IF c \in Waiters THEN c ELSE NoChan)

\* maybeAddDeadline: the responses a sent command arms.
Expected(kind) ==
    CASE kind = "getdata" -> {"block", "tx", "notfound"}
      [] kind \in {"mempool", "getblocks"} -> {"inv"}
      [] kind = "getheaders" -> {"headers"}
      [] kind = "getminingstate" -> {"miningstate"}
      [] OTHER -> {}

\* The responses a received command disarms: one of a group disarms the group.
Disarmed(kind) ==
    IF kind \in Expected("getdata") THEN Expected("getdata") ELSE {kind}

\* lruInventoryCache.Add and Exists.
KnownAdd(lru, iv) ==
    IF MaxKnownInventory = 0 THEN lru
    ELSE LET rest == SelectSeq(lru, LAMBDA o : o # iv)
         IN  <<iv>> \o SubSeq(rest, 1, IF Len(rest) < MaxKnownInventory
                                       THEN Len(rest) ELSE MaxKnownInventory - 1)

KnownExists(lru, iv) == iv \in Range(lru)

Connected == ~disconnect

Signal(chan) ==
    signalled' = IF chan = NoChan THEN signalled
                 ELSE [signalled EXCEPT ![chan] = @ + 1]

\* A call, a ping or a received message, of which the model allows MaxEvents.
Event == events < MaxEvents /\ events' = events + 1

\* An announcer that is not inside QueueInventory or QueueInventoryImmediate.
Idle == [pc |-> "call", iv |-> "none", immediate |-> FALSE]

Init ==
    /\ disconnect = FALSE /\ start = "negotiate"
    /\ outputQueue = <<>> /\ outputInvChan = <<>> /\ sendQueue = <<>>
    /\ sendDoneQueue = 0 /\ stallControl = <<>>
    /\ queue = [pc |-> "off", pending |-> <<>>, invs |-> <<>>, batch |-> <<>>,
                waiting |-> FALSE]
    /\ out = [pc |-> "off", msg |-> <<>>]
    /\ in = [pc |-> "off", msg |-> "eof", verAck |-> FALSE]
    /\ stall = [pc |-> "off", pending |-> {}, active |-> FALSE, ioStopped |-> FALSE,
                unbalanced |-> FALSE]
    /\ caller = [c \in Callers |-> "call"]
    /\ announcer = [a \in Announcers |-> Idle]
    /\ signalled = [c \in Chans |-> 0]
    /\ known = <<>>
    /\ events = 0 /\ owed = <<>>
-----------------------------------------------------------------------------
(***************************************************************************)
(* Disconnect: the first caller sets the flag, closes the connection and    *)
(* closes quit; later callers return at once.  Between the flag and         *)
(* close(quit) the handlers behave as if their select had not picked quit   *)
(* yet, so the three are one step.                                          *)
(***************************************************************************)
Disconnect == disconnect' = TRUE /\ owed' = <<>>

\* The server, an RPC call or the idle timer disconnects the peer.
ExternalDisconnect ==
    /\ ~disconnect
    /\ Disconnect
    /\ UNCHANGED <<start, chanVars, queue, out, in, stall, callVars, signalled, events>>

-----------------------------------------------------------------------------
(***************************************************************************)
(* start: the handlers run once the versions are exchanged; an error or the *)
(* timeout disconnects the peer instead.  With the connection closed the    *)
(* negotiation may still succeed, since writeMessage then reports success.  *)
(***************************************************************************)
StartHandlers ==
    /\ start = "negotiate"
    /\ start' = "verack"
    /\ queue' = [queue EXCEPT !.pc = "run"] /\ out' = [out EXCEPT !.pc = "run"]
    /\ in' = [in EXCEPT !.pc = "read"] /\ stall' = [stall EXCEPT !.pc = "run"]
    /\ UNCHANGED <<disconnect, chanVars, callVars, signalled, histVars>>

StartFails ==
    /\ start = "negotiate"
    /\ start' = "failed"
    /\ Disconnect
    /\ UNCHANGED <<chanVars, queue, out, in, stall, callVars, signalled, events>>

VersionKnown == start \notin {"negotiate", "failed"}

-----------------------------------------------------------------------------
(***************************************************************************)
(* QueueMessage, in the goroutines that call it: the check of Connected and *)
(* the send on outputQueue are two steps.                                   *)
(***************************************************************************)
PutOutput(m) ==
    /\ Len(outputQueue) < OutputBufferSize
    /\ outputQueue' = Append(outputQueue, m)
    /\ UNCHANGED <<outputInvChan, sendQueue, sendDoneQueue, stallControl>>

QueueMessage(c) ==
    /\ caller[c] = "call" /\ Event
    /\ caller' = [caller EXCEPT ![c] = IF Connected THEN "send"
                                       ELSE IF c \in Waiters THEN "wait" ELSE "done"]
    /\ IF Connected THEN UNCHANGED signalled ELSE Signal(CallerMessage(c).done)
    /\ UNCHANGED <<disconnect, start, chanVars, queue, out, in, stall, announcer,
                   known, owed>>

QueueMessageSend(c) ==
    /\ caller[c] = "send"
    /\ PutOutput(CallerMessage(c))
    /\ caller' = [caller EXCEPT ![c] = IF c \in Waiters THEN "wait" ELSE "done"]
    /\ UNCHANGED <<disconnect, start, queue, out, in, stall, announcer, known,
                   signalled, histVars>>

CallerReleased(c) ==
    /\ caller[c] = "wait" /\ signalled[c] > 0
    /\ caller' = [caller EXCEPT ![c] = "done"]
    /\ UNCHANGED <<disconnect, start, chanVars, queue, out, in, stall, announcer,
                   known, signalled, histVars>>

\* The verack start queues once the handlers run.
QueueVerAck ==
    /\ \/ start = "verack" /\ Connected /\ start' = "verackSend" /\ UNCHANGED chanVars
       \/ start = "verack" /\ ~Connected /\ start' = "done" /\ UNCHANGED chanVars
       \/ start = "verackSend" /\ PutOutput(Message("verack", "start", NoChan))
                               /\ start' = "done"
    /\ UNCHANGED <<disconnect, queue, out, in, stall, callVars, signalled, histVars>>

\* QueueInventory and QueueInventoryImmediate: the checks, with the immediate
\* one adding the vector to the cache, and the send.
QueueInventory(a) ==
    /\ announcer[a].pc = "call" /\ Event
    /\ \E iv \in Inv, immediate \in BOOLEAN :
        LET send == ~KnownExists(known, iv) /\ Connected
        IN  /\ announcer' = [announcer EXCEPT ![a] =
                IF send THEN [pc |-> "send", iv |-> iv, immediate |-> immediate]
                ELSE Idle]
            /\ known' = IF send /\ immediate THEN KnownAdd(known, iv) ELSE known
    /\ UNCHANGED <<disconnect, start, chanVars, queue, out, in, stall, caller,
                   signalled, owed>>

QueueInventorySend(a) ==
    /\ announcer[a].pc = "send"
    /\ IF announcer[a].immediate
       THEN PutOutput(Message("inv", <<announcer[a].iv>>, NoChan))
       ELSE /\ Len(outputInvChan) < OutputBufferSize
            /\ outputInvChan' = Append(outputInvChan, announcer[a].iv)
            /\ UNCHANGED <<outputQueue, sendQueue, sendDoneQueue, stallControl>>
    /\ announcer' = [announcer EXCEPT ![a] = Idle]
    /\ UNCHANGED <<disconnect, start, queue, out, in, stall, caller, known, signalled,
                   histVars>>

-----------------------------------------------------------------------------
(***************************************************************************)
(* queueHandler.                                                            *)
(***************************************************************************)
\* Mutant: queuePacket returns the waiting flag it was given.
MutQueuePacket(m, q) ==
    /\ IF queue.waiting
       THEN queue' = [q EXCEPT !.pending = Append(@, m)] /\ UNCHANGED sendQueue
       ELSE /\ Len(sendQueue) < 1
            /\ sendQueue' = Append(sendQueue, m)
            /\ queue' = q
    /\ owed' = IF disconnect THEN owed ELSE Append(owed, m)

\* queuePacket: the message goes to outHandler when none is there, waiting for
\* room in sendQueue, and to pendingMsgs otherwise; q holds the other locals of
\* queueHandler after the step.
QueuePacket(m, q) ==
    /\ IF queue.waiting
       THEN queue' = [q EXCEPT !.pending = Append(@, m)] /\ UNCHANGED sendQueue
       ELSE /\ Len(sendQueue) < 1
            /\ sendQueue' = Append(sendQueue, m)
            /\ queue' = [q EXCEPT !.waiting = TRUE]
    /\ owed' = IF disconnect THEN owed ELSE Append(owed, m)

QueueTakeOutput ==
    /\ queue.pc = "run" /\ outputQueue # <<>>
    /\ outputQueue' = Tail(outputQueue)
    /\ QueuePacket(Head(outputQueue), queue)
    /\ UNCHANGED <<disconnect, start, outputInvChan, sendDoneQueue, stallControl, out, in,
                   stall, callVars, signalled, events>>

\* Mutant: the most recent pending message is sent next.
MutQueueTakeDone ==
    /\ queue.pc = "run" /\ sendDoneQueue > 0
    /\ sendDoneQueue' = sendDoneQueue - 1
    /\ IF queue.pending = <<>>
       THEN queue' = [queue EXCEPT !.waiting = FALSE] /\ UNCHANGED sendQueue
       ELSE /\ Len(sendQueue) < 1
            /\ sendQueue' = Append(sendQueue, queue.pending[Len(queue.pending)])
            /\ queue' = [queue EXCEPT !.pending = SubSeq(@, 1, Len(@) - 1)]
    /\ UNCHANGED <<disconnect, start, outputQueue, outputInvChan, stallControl, out, in,
                   stall, callVars, signalled, histVars>>

QueueTakeDone ==
    /\ queue.pc = "run" /\ sendDoneQueue > 0
    /\ sendDoneQueue' = sendDoneQueue - 1
    /\ IF queue.pending = <<>>
       THEN queue' = [queue EXCEPT !.waiting = FALSE] /\ UNCHANGED sendQueue
       ELSE /\ Len(sendQueue) < 1
            /\ sendQueue' = Append(sendQueue, Head(queue.pending))
            /\ queue' = [queue EXCEPT !.pending = Tail(@)]
    /\ UNCHANGED <<disconnect, start, outputQueue, outputInvChan, stallControl, out, in,
                   stall, callVars, signalled, histVars>>

QueueTakeInv ==
    /\ queue.pc = "run" /\ outputInvChan # <<>>
    /\ outputInvChan' = Tail(outputInvChan)
    /\ queue' = IF VersionKnown THEN [queue EXCEPT !.invs = Append(@, Head(outputInvChan))]
                ELSE queue
    /\ UNCHANGED <<disconnect, start, outputQueue, sendQueue, sendDoneQueue,
                   stallControl, out, in, stall, callVars, signalled, histVars>>

\* The trickle ticker with inventory to send.
QueueTrickle ==
    /\ queue.pc = "run" /\ ~disconnect /\ queue.invs # <<>>
    /\ queue' = [queue EXCEPT !.pc = "trickle"]
    /\ UNCHANGED <<disconnect, start, chanVars, out, in, stall, callVars, signalled,
                   histVars>>

InvMessage(batch) == Message("inv", batch, NoChan)

\* One vector of the trickle is skipped when it is known by now, and otherwise
\* added to the message being built.
TrickleCheck ==
    /\ queue.pc = "trickle" /\ queue.invs # <<>>
    /\ queue' = IF KnownExists(known, Head(queue.invs))
                THEN [queue EXCEPT !.invs = Tail(@)]
                ELSE [queue EXCEPT !.pc = "relay", !.batch = Append(@, Head(queue.invs))]
    /\ UNCHANGED <<disconnect, start, chanVars, out, in, stall, callVars, signalled,
                   histVars>>

\* The message is queued when it is full, and the vector becomes known.
TrickleRelay ==
    /\ queue.pc = "relay"
    /\ LET next == [queue EXCEPT !.pc = "trickle", !.invs = Tail(@)]
       IN  IF Len(queue.batch) >= MaxInvTrickleSize
           THEN QueuePacket(InvMessage(queue.batch), [next EXCEPT !.batch = <<>>])
           ELSE queue' = next /\ UNCHANGED <<sendQueue, owed>>
    /\ known' = KnownAdd(known, Head(queue.invs))
    /\ UNCHANGED <<disconnect, start, outputQueue, outputInvChan, sendDoneQueue,
                   stallControl, out, in, stall, caller, announcer, signalled, events>>

\* The inventory is drained: the last message is queued and the loop goes on.
TrickleEnd ==
    /\ queue.pc = "trickle" /\ queue.invs = <<>>
    /\ LET next == [queue EXCEPT !.pc = "run"]
       IN  IF queue.batch # <<>>
           THEN QueuePacket(InvMessage(queue.batch), [next EXCEPT !.batch = <<>>])
           ELSE queue' = next /\ UNCHANGED <<sendQueue, owed>>
    /\ UNCHANGED <<disconnect, start, outputQueue, outputInvChan, sendDoneQueue,
                   stallControl, out, in, stall, callVars, signalled, events>>

\* Mutant: the loop is left only once no message is with outHandler.
MutQueueQuit ==
    /\ queue.pc = "run" /\ disconnect /\ ~queue.waiting
    /\ queue' = [queue EXCEPT !.pc = "drain"]
    /\ UNCHANGED <<disconnect, start, chanVars, out, in, stall, callVars, signalled,
                   histVars>>

\* The quit case.
QueueQuit ==
    /\ queue.pc = "run" /\ disconnect
    /\ queue' = [queue EXCEPT !.pc = "drain"]
    /\ UNCHANGED <<disconnect, start, chanVars, out, in, stall, callVars, signalled,
                   histVars>>

\* The drain of pendingMsgs.
QueueDrain ==
    /\ queue.pc = "drain"
    /\ \/ /\ queue.pending # <<>>
          /\ Signal(Head(queue.pending).done)
          /\ queue' = [queue EXCEPT !.pending = Tail(@)]
       \/ /\ queue.pending = <<>>
          /\ queue' = [queue EXCEPT !.pc = "cleanup"]
          /\ UNCHANGED signalled
    /\ UNCHANGED <<disconnect, start, chanVars, out, in, stall, callVars, histVars>>

\* One round of the cleanup loop; its default case closes queueQuit.
QueueCleanup ==
    /\ queue.pc = "cleanup"
    /\ \/ /\ outputQueue # <<>>
          /\ Signal(Head(outputQueue).done)
          /\ outputQueue' = Tail(outputQueue)
          /\ UNCHANGED <<outputInvChan, queue>>
       \/ /\ outputInvChan # <<>>
          /\ outputInvChan' = Tail(outputInvChan)
          /\ UNCHANGED <<outputQueue, queue, signalled>>
       \/ /\ outputQueue = <<>> /\ outputInvChan = <<>>
          /\ queue' = [queue EXCEPT !.pc = "exited"]
          /\ UNCHANGED <<outputQueue, outputInvChan, signalled>>
    /\ UNCHANGED <<disconnect, start, sendQueue, sendDoneQueue, stallControl, out, in,
                   stall, callVars, histVars>>

-----------------------------------------------------------------------------
(***************************************************************************)
(* outHandler.                                                              *)
(***************************************************************************)
SendStall(cmd, kind) ==
    /\ Len(stallControl) < 1
    /\ stallControl' = Append(stallControl, [command |-> cmd, kind |-> kind])
    /\ UNCHANGED <<outputQueue, outputInvChan, sendQueue, sendDoneQueue>>

OutTake ==
    /\ out.pc = "run" /\ sendQueue # <<>>
    /\ out' = [pc |-> "stall", msg |-> <<Head(sendQueue)>>]
    /\ sendQueue' = Tail(sendQueue)
    /\ UNCHANGED <<disconnect, start, outputQueue, outputInvChan, sendDoneQueue,
                   stallControl, queue, in, stall, callVars, signalled, histVars>>

OutStall ==
    /\ out.pc = "stall"
    /\ SendStall("send", out.msg[1].kind)
    /\ out' = [out EXCEPT !.pc = "write"]
    /\ UNCHANGED <<disconnect, start, queue, in, stall, callVars, signalled, histVars>>

\* writeMessage writes nothing and reports success while disconnecting.
OutWrite ==
    /\ out.pc = "write"
    /\ out' = [out EXCEPT !.pc = "sent"]
    /\ owed' = IF disconnect THEN owed ELSE Tail(owed)
    /\ UNCHANGED <<disconnect, start, chanVars, queue, in, stall, callVars, signalled,
                   events>>

\* Mutant: a failed write falls through to the code for a successful one.
MutOutWriteFails ==
    /\ out.pc = "write"
    /\ Disconnect
    /\ Signal(out.msg[1].done)
    /\ out' = [out EXCEPT !.pc = "sent"]
    /\ UNCHANGED <<start, chanVars, queue, in, stall, callVars, events>>

\* A failed write disconnects, signals the sender and hands no token back.  A
\* write in progress also fails because another goroutine's Disconnect closed
\* the connection under it.
OutWriteFails ==
    /\ out.pc = "write"
    /\ Disconnect
    /\ Signal(out.msg[1].done)
    /\ out' = [pc |-> "run", msg |-> <<>>]
    /\ UNCHANGED <<start, chanVars, queue, in, stall, callVars, events>>

\* The sender is signalled and queueHandler gets its token back.
OutSent ==
    /\ out.pc = "sent" /\ sendDoneQueue < 1
    /\ Signal(out.msg[1].done)
    /\ sendDoneQueue' = sendDoneQueue + 1
    /\ out' = [pc |-> "run", msg |-> <<>>]
    /\ UNCHANGED <<disconnect, start, outputQueue, outputInvChan, sendQueue,
                   stallControl, queue, in, stall, callVars, histVars>>

\* The ping ticker: QueueMessage from outHandler itself.
OutPing ==
    /\ \/ /\ out.pc = "run" /\ Event /\ Connected
          /\ out' = [out EXCEPT !.pc = "ping"]
          /\ UNCHANGED chanVars
       \/ /\ out.pc = "ping"
          /\ PutOutput(Message("ping", "out", NoChan))
          /\ UNCHANGED events
          /\ out' = [out EXCEPT !.pc = "run"]
    /\ UNCHANGED <<disconnect, start, queue, in, stall, callVars, signalled, owed>>

OutQuit ==
    /\ out.pc = "run" /\ disconnect
    /\ out' = [out EXCEPT !.pc = "queueQuit"]
    /\ UNCHANGED <<disconnect, start, chanVars, queue, in, stall, callVars, signalled,
                   histVars>>

\* Once queueQuit is closed, sendQueue is drained and outQuit closed.
OutCleanup ==
    /\ out.pc = "queueQuit" /\ queue.pc = "exited"
    /\ \/ /\ sendQueue # <<>>
          /\ Signal(Head(sendQueue).done)
          /\ sendQueue' = Tail(sendQueue)
          /\ UNCHANGED out
       \/ /\ sendQueue = <<>>
          /\ out' = [out EXCEPT !.pc = "exited"]
          /\ UNCHANGED <<sendQueue, signalled>>
    /\ UNCHANGED <<disconnect, start, outputQueue, outputInvChan, sendDoneQueue,
                   stallControl, queue, in, stall, callVars, histVars>>

-----------------------------------------------------------------------------
(***************************************************************************)
(* inHandler.                                                               *)
(***************************************************************************)
InGoto(pc) == in' = [in EXCEPT !.pc = pc]

\* The loop test, and readMessage.  A closed connection ends the loop without a
\* reject, a message that cannot be parsed ends it with one.
InRead ==
    /\ in.pc = "read"
    /\ \/ /\ disconnect
          /\ InGoto("exit") /\ UNCHANGED events
       \/ /\ ~disconnect /\ Event
          /\ \E kind \in Received :
                in' = [in EXCEPT !.msg = kind,
                                 !.pc = CASE kind = "eof" -> "exit"
                                          [] kind = "malformed" -> "reject"
                                          [] OTHER -> "receive"]
    /\ UNCHANGED <<disconnect, start, chanVars, queue, out, stall, callVars, signalled,
                   owed>>

\* The three control messages stallHandler gets for each message read.
InStall ==
    /\ \/ in.pc = "receive" /\ SendStall("receive", in.msg) /\ InGoto("start")
       \/ in.pc = "start" /\ SendStall("start", in.msg) /\ InGoto("handle")
       \/ /\ in.pc = "finish" /\ SendStall("done", in.msg)
          /\ in' = [in EXCEPT !.pc = "read", !.msg = "eof"]
    /\ UNCHANGED <<disconnect, start, queue, out, stall, callVars, signalled, histVars>>

\* The switch on the message.  A callback that processes a block also adds it
\* to the known inventory.
InHandle ==
    /\ in.pc = "handle"
    /\ CASE in.msg = "version" -> InGoto("reject") /\ UNCHANGED known
         [] in.msg = "verack" ->
              /\ in' = [in EXCEPT !.pc = IF in.verAck THEN "exit" ELSE "finish",
                                  !.verAck = TRUE]
              /\ UNCHANGED known
         [] in.msg = "ping" ->
              /\ InGoto(IF Connected THEN "pong" ELSE "finish")
              /\ UNCHANGED known
         [] in.msg = "block" ->
              /\ InGoto("finish")
              /\ \E iv \in Inv : known' = KnownAdd(known, iv)
         [] OTHER -> InGoto("finish") /\ UNCHANGED known
    /\ UNCHANGED <<disconnect, start, chanVars, queue, out, stall, caller, announcer,
                   signalled, histVars>>

\* handlePingMsg: the send of QueueMessage.
InPong ==
    /\ in.pc = "pong"
    /\ PutOutput(Message("pong", "in", NoChan))
    /\ InGoto("finish")
    /\ UNCHANGED <<disconnect, start, queue, out, stall, callVars, signalled, histVars>>

\* PushRejectMsg with wait: the check, the send, and the wait.
InReject ==
    /\ \/ /\ in.pc = "reject" /\ Connected
          /\ InGoto("rejectSend") /\ UNCHANGED <<chanVars, signalled>>
       \/ /\ in.pc = "reject" /\ ~Connected
          /\ Signal("reject") /\ InGoto("rejectWait") /\ UNCHANGED chanVars
       \/ /\ in.pc = "rejectSend"
          /\ PutOutput(Message("reject", "in", "reject"))
          /\ InGoto("rejectWait") /\ UNCHANGED signalled
       \/ /\ in.pc = "rejectWait" /\ signalled["reject"] > 0
          /\ InGoto("exit") /\ UNCHANGED <<chanVars, signalled>>
    /\ UNCHANGED <<disconnect, start, queue, out, stall, callVars, histVars>>

\* After the loop: Disconnect and close(inQuit).
InExit ==
    /\ in.pc = "exit"
    /\ Disconnect
    /\ InGoto("exited")
    /\ UNCHANGED <<start, chanVars, queue, out, stall, callVars, signalled, events>>

-----------------------------------------------------------------------------
(***************************************************************************)
(* stallHandler.                                                            *)
(***************************************************************************)
StallControl ==
    /\ stall.pc = "run" /\ stallControl # <<>>
    /\ LET m == Head(stallControl) IN
       stall' = CASE m.command = "send" ->
                       [stall EXCEPT !.pending = @ \cup Expected(m.kind)]
                  [] m.command = "receive" ->
                       [stall EXCEPT !.pending = @ \ Disarmed(m.kind)]
                  [] m.command = "start" ->
                       [stall EXCEPT !.active = TRUE, !.unbalanced = @ \/ stall.active]
                  [] m.command = "done" ->
                       [stall EXCEPT !.active = FALSE, !.unbalanced = @ \/ ~stall.active]
    /\ stallControl' = Tail(stallControl)
    /\ UNCHANGED <<disconnect, start, outputQueue, outputInvChan, sendQueue,
                   sendDoneQueue, queue, out, in, callVars, signalled, histVars>>

\* A tick that finds a response overdue.  Which deadlines have passed is left
\* open; the first one found decides, and miningstate is forgiven.
StallTick ==
    /\ stall.pc = "run" /\ ~disconnect
    /\ \E command \in stall.pending : command # "miningstate"
    /\ Disconnect
    /\ UNCHANGED <<start, chanVars, queue, out, in, stall, callVars, signalled,
                   events>>

InQuit == in.pc = "exited"
OutQuitClosed == out.pc = "exited"

\* A receive from inQuit or outQuit: the second one ends the loop.  A closed
\* channel can be received from any number of times.
StallIoStopped ==
    /\ stall.pc = "run"
    /\ InQuit \/ OutQuitClosed
    /\ stall' = IF stall.ioStopped THEN [stall EXCEPT !.pc = "cleanup"]
                ELSE [stall EXCEPT !.ioStopped = TRUE]
    /\ UNCHANGED <<disconnect, start, chanVars, queue, out, in, callVars, signalled,
                   histVars>>

\* One round of the cleanup loop.
StallCleanup ==
    /\ stall.pc = "cleanup"
    /\ IF stallControl # <<>>
       THEN stallControl' = Tail(stallControl) /\ UNCHANGED stall
       ELSE stall' = [stall EXCEPT !.pc = "exited"] /\ UNCHANGED stallControl
    /\ UNCHANGED <<disconnect, start, outputQueue, outputInvChan, sendQueue,
                   sendDoneQueue, queue, out, in, callVars, signalled, histVars>>

-----------------------------------------------------------------------------
CallerStep ==
    \/ \E c \in Callers : QueueMessage(c) \/ QueueMessageSend(c) \/ CallerReleased(c)
    \/ \E a \in Announcers : QueueInventory(a) \/ QueueInventorySend(a)

StartStep == StartHandlers \/ StartFails \/ QueueVerAck

TrickleStep == TrickleCheck \/ TrickleRelay \/ TrickleEnd

QueueStep == \/ QueueTakeOutput \/ QueueTakeDone \/ QueueTakeInv \/ QueueTrickle
             \/ TrickleStep \/ QueueQuit \/ QueueDrain \/ QueueCleanup

OutStep == \/ OutTake \/ OutStall \/ OutWrite \/ OutWriteFails \/ OutSent \/ OutPing
           \/ OutQuit \/ OutCleanup

InStep == InRead \/ InStall \/ InHandle \/ InPong \/ InReject \/ InExit

StallStep == StallControl \/ StallTick \/ StallIoStopped \/ StallCleanup

Next == \/ ExternalDisconnect \/ CallerStep \/ StartStep \/ QueueStep
        \/ OutStep \/ InStep \/ StallStep

(***************************************************************************)
(* Every goroutine that can take a step takes one eventually, so the loops  *)
(* of the trickle and the drains go on; a select picks among its ready      *)
(* cases at random, so a case that is ready again and again is taken.       *)
(***************************************************************************)
Fairness ==
    SF_vars(QueueQuit) /\ WF_vars(TrickleStep \/ QueueDrain \/ QueueCleanup)

Spec == Init /\ [][Next]_vars
FairSpec == Spec /\ Fairness
-----------------------------------------------------------------------------
(***************************************************************************)
(* Properties.                                                              *)
(***************************************************************************)
\* Every variable holds what the code's types and channel sizes allow.
TypeOK ==
    /\ disconnect \in BOOLEAN
    /\ Len(outputQueue) <= OutputBufferSize /\ Len(outputInvChan) <= OutputBufferSize
    /\ Len(sendQueue) <= 1 /\ sendDoneQueue \in 0..1 /\ Len(stallControl) <= 1
    /\ queue.waiting \in BOOLEAN
    /\ Len(known) <= MaxKnownInventory /\ IsInjective(known)
    /\ \A c \in Chans : signalled[c] \in Nat

InFlight ==
    Len(sendQueue) + sendDoneQueue
      + (IF out.pc \in {"stall", "write", "sent"} THEN 1 ELSE 0)

\* The waiting flag of queueHandler says exactly whether a message is between
\* queueHandler and the write: never two are, and while the peer is connected
\* the flag is set only when one is.  The hand-over runs through three
\* goroutine steps and two channels.
OneInFlight ==
    /\ InFlight <= 1
    /\ InFlight = 1 => queue.waiting
    /\ queue.waiting /\ ~disconnect => InFlight = 1

\* The channels of size 1 between queueHandler and outHandler are the
\* "nonblocking sync" newPeerBase calls them: when queueHandler sends there is
\* room in sendQueue, and when outHandler hands its token back there is room in
\* sendDoneQueue, so QueueMessage keeps being served while a write blocks.
NeverBlocks ==
    /\ ~queue.waiting \/ sendDoneQueue > 0 => sendQueue = <<>>
    /\ out.pc = "sent" => sendDoneQueue = 0

\* What reaches the network is, in order and without gaps, what queueHandler
\* took from its channels and from the trickle: the message about to be written
\* is the oldest one owed, across pendingMsgs, sendQueue and the hand-over.
WrittenInOrder ==
    out.pc = "write" /\ ~disconnect => owed # <<>> /\ Head(owed) = out.msg[1]

Waiting(c) ==
    {i \in DOMAIN outputQueue : outputQueue[i].done = c} \cup
    {i \in DOMAIN queue.pending : queue.pending[i].done = c} \cup
    {i \in DOMAIN sendQueue : sendQueue[i].done = c}

\* A done channel is signalled at most once over all the places that signal
\* (a write, a failed write, the three drains and the refusal of QueueMessage),
\* and never for a message that is still queued.
SignalledOnce ==
    \A c \in Chans : /\ signalled[c] <= 1
                     /\ signalled[c] = 1 => Waiting(c) = {}

\* stallHandler never sees the start of a callback while one is active or the
\* end of one while none is: the warnings about unbalanced signalling are dead.
StallBalanced == ~stall.unbalanced

\* Once the peer disconnects a running queueHandler leaves its loop, drains and
\* exits, however the callers, the trickle and outHandler interleave.
QueueExits == (disconnect /\ queue.pc # "off") ~> (queue.pc = "exited")

\* "so we don't leave something waiting for us": no message with a done channel
\* is left in outputQueue once queueHandler has drained it and gone.
NothingLeftWaiting ==
    queue.pc = "exited" => \A i \in DOMAIN outputQueue : outputQueue[i].done = NoChan

\* "The stall handler can exit once both the input and output handler
\* goroutines are done."
StallExitsLast == stall.pc \in {"cleanup", "exited"} => InQuit /\ OutQuitClosed
=============================================================================
