----------------------------- MODULE PeerProofs -----------------------------
(***************************************************************************)
(* Proofs about Peer, for any number of callers and announcers and any      *)
(* sizes: the inductive invariant, the hand-over between queueHandler and   *)
(* outHandler with the order of the messages written, each done channel     *)
(* signalled once, the callbacks stallHandler sees balanced.                *)
(***************************************************************************)
EXTENDS Peer, TLAPS

(***************************************************************************)
(* The inductive invariant.                                                 *)
(***************************************************************************)
Kinds == {"getdata", "verack", "inv", "ping", "pong", "reject"}

From == Seq(Inv) \cup Callers \cup {"start", "out", "in"}

Msg == [kind : Kinds, from : From, done : Chans \cup {NoChan}]

\* The full types of the channels and flags, of each handler's state, of the
\* callers' and of the signals.
ChanTypes ==
    /\ disconnect \in BOOLEAN
    /\ outputQueue \in Seq(Msg) /\ sendQueue \in Seq(Msg)
    /\ outputInvChan \in Seq(Inv) /\ sendDoneQueue \in Nat

QueueLocals ==
    [pc : {"off", "run", "trickle", "relay", "drain", "cleanup", "exited"},
     pending : Seq(Msg),
     invs : Seq(Inv), batch : Seq(Inv), waiting : BOOLEAN]

QueueTypes ==
    /\ queue \in QueueLocals
    /\ queue.pc = "relay" => queue.invs # <<>>

OutTypes ==
    /\ out \in [pc : {"off", "run", "stall", "write", "sent", "ping", "queueQuit",
                      "exited"}, msg : Seq(Msg)]
    /\ out.pc \in {"stall", "write", "sent"} => Len(out.msg) = 1

InTypes ==
    in \in [pc : {"off", "read", "receive", "start", "handle", "pong", "reject",
                  "rejectSend", "rejectWait", "finish", "exit", "exited"},
            msg : Received \cup {"eof"}, verAck : BOOLEAN]

CallTypes ==
    /\ caller \in [Callers -> {"call", "send", "wait", "done"}]
    /\ announcer \in [Announcers -> [pc : {"call", "send"}, iv : Inv \cup {"none"},
                                     immediate : BOOLEAN]]
    /\ \A a \in Announcers : announcer[a].pc = "send" => announcer[a].iv \in Inv

SignalTypes == signalled \in [Chans -> Nat]

TypeInv ==
    ChanTypes /\ QueueTypes /\ OutTypes /\ InTypes /\ CallTypes /\ SignalTypes

\* The handlers do not run before the versions are exchanged.
StartInv ==
    start \in {"negotiate", "failed"} =>
        queue.pc = "off" /\ out.pc = "off" /\ in.pc = "off" /\ stall.pc = "off"

\* queueHandler drains, and is gone, only after a disconnect.
DrainInv == queue.pc \in {"drain", "cleanup", "exited"} => disconnect

\* outHandler waits for queueQuit, and is gone, only after a disconnect.
QuitInv == out.pc \in {"queueQuit", "exited"} => disconnect

\* The message outHandler has not written yet, or is about to take.
Unwritten == IF out.pc \in {"stall", "write"} THEN out.msg ELSE sendQueue

\* While connected the messages owed are that one and then pendingMsgs, which is
\* empty when no message is on its way.
OwedInv ==
    /\ ~queue.waiting => queue.pending = <<>>
    /\ ~disconnect => owed = Unwritten \o queue.pending

\* What outHandler holds and has not signalled.
Held == IF out.pc \in {"stall", "write", "sent"} THEN out.msg ELSE <<>>

\* A message of msgs is to be signalled on c, and at most one is.
Has(msgs, c) == \E i \in DOMAIN msgs : msgs[i].done = c

Once(msgs, c) ==
    \A i, j \in DOMAIN msgs : msgs[i].done = c /\ msgs[j].done = c => i = j

\* The owner of the done channel c has not yet sent its message.
NotSent(c) ==
    IF c = "reject" THEN in.pc \notin {"rejectWait", "exit", "exited"}
    ELSE caller[c] \in {"call", "send"}

\* At most one message of all the places is to be signalled on c, none once c
\* is signalled or while its owner has not sent it.
SignalInvOf(c) ==
    /\ Once(outputQueue, c) /\ Once(queue.pending, c) /\ Once(sendQueue, c)
    /\ Has(outputQueue, c) => ~Has(queue.pending, c) /\ ~Has(sendQueue, c) /\ ~Has(Held, c)
    /\ Has(queue.pending, c) => ~Has(sendQueue, c) /\ ~Has(Held, c)
    /\ Has(sendQueue, c) => ~Has(Held, c)
    /\ NotSent(c) => ~Has(outputQueue, c) /\ ~Has(queue.pending, c)
                        /\ ~Has(sendQueue, c) /\ ~Has(Held, c)
    /\ signalled[c] \in {0, 1}
    /\ NotSent(c) \/ Has(outputQueue, c) \/ Has(queue.pending, c) \/ Has(sendQueue, c)
         \/ Has(Held, c) => signalled[c] = 0

SignalInv == \A c \in Chans : SignalInvOf(c)

\* inHandler is between the start and the end of a callback.
InCallback ==
    \/ in.pc \in {"handle", "pong", "finish"}
    \/ in.pc \in {"reject", "rejectSend", "rejectWait"} /\ in.msg = "version"

\* The command waiting in stallControl, if any.
StallCommand == IF stallControl = <<>> THEN "none" ELSE stallControl[1].command

StallCommands ==
    [command : {"send", "receive", "start", "done"}, kind : Kinds \cup Received \cup {"eof"}]

Responses == {"block", "tx", "notfound", "inv", "headers", "miningstate"}

StallState ==
    [pc : {"off", "run", "cleanup", "exited"}, pending : SUBSET Responses,
     active : BOOLEAN, ioStopped : BOOLEAN, unbalanced : BOOLEAN]

StallTypes ==
    /\ stallControl \in Seq(StallCommands) /\ Len(stallControl) <= 1
    /\ stall \in StallState

\* What stallHandler knows of the callback, and the command on its way to it,
\* make up where inHandler is.
BalanceInv ==
    /\ StallTypes
    /\ ~stall.unbalanced
    /\ stall.pc \in {"off", "run"} =>
          /\ StallCommand = "start" => ~stall.active
          /\ StallCommand = "done" => stall.active
          /\ in.pc \notin {"exit", "exited"} =>
                \/ StallCommand = "start" /\ InCallback
                \/ StallCommand = "done" /\ ~InCallback
                \/ StallCommand \notin {"start", "done"} /\ (stall.active <=> InCallback)

-----------------------------------------------------------------------------
(***************************************************************************)
(* Types.                                                                   *)
(***************************************************************************)
\* The messages the callers, start, the announcers and the handlers queue.
LEMMA MessageTypes ==
    /\ \A c \in Callers : CallerMessage(c) \in Msg
    /\ Message("verack", "start", NoChan) \in Msg
    /\ \A batch \in Seq(Inv) : Message("inv", batch, NoChan) \in Msg
    /\ Message("ping", "out", NoChan) \in Msg
    /\ Message("pong", "in", NoChan) \in Msg
    /\ Message("reject", "in", "reject") \in Msg
BY Zenon DEF CallerMessage, Message, Msg, Kinds, From, Chans

\* A sequence without its first element, and with one more at the end.
LEMMA SeqTypes ==
    ASSUME NEW S, NEW s \in Seq(S)
    PROVE  /\ s # <<>> => Head(s) \in S /\ Tail(s) \in Seq(S)
           /\ \A x \in S : Append(s, x) \in Seq(S) /\ <<x>> \in Seq(S)
           /\ <<>> \in Seq(S)
OBVIOUS

\* A signal changes nothing but the count of its channel.
LEMMA SignalType ==
    ASSUME NEW chan \in Chans \cup {NoChan}, signalled \in [Chans -> Nat], Signal(chan)
    PROVE  signalled' \in [Chans -> Nat]
BY DEF Signal

\* A send on outputQueue keeps the channel's type.
LEMMA PutOutputType ==
    ASSUME ChanTypes, NEW m \in Msg, PutOutput(m), UNCHANGED disconnect
    PROVE  ChanTypes'
BY SeqTypes, Zenon DEF PutOutput, ChanTypes

\* queuePacket hands a message on and keeps the types.
LEMMA QueuePacketTypes ==
    ASSUME ChanTypes, queue.waiting \in BOOLEAN, NEW m \in Msg, NEW STATE q, q \in QueueLocals,
           QueuePacket(m, q)
    PROVE  queue' \in QueueLocals /\ queue'.pc = q.pc /\ queue'.invs = q.invs
           /\ sendQueue' \in Seq(Msg)
<1>1. Append(q.pending, m) \in Seq(Msg) /\ Append(sendQueue, m) \in Seq(Msg)
    BY SeqTypes, Zenon DEF QueueLocals, ChanTypes
<1>2. CASE queue.waiting
    BY <1>1, <1>2, Zenon DEF QueuePacket, QueueLocals, ChanTypes
<1>3. CASE ~queue.waiting
    BY <1>1, <1>3, Zenon DEF QueuePacket, QueueLocals, ChanTypes
<1> QED
    BY <1>2, <1>3, Zenon

\* What the handlers and their callers do keeps the types, step by step.
LEMMA TypeStep == TypeInv /\ [Next]_vars => TypeInv'
<1> SUFFICES ASSUME TypeInv, [Next]_vars
             PROVE  TypeInv'
    BY Zenon
<1> USE DEF TypeInv
<1>1. CASE ExternalDisconnect
  <2>1. ChanTypes'
      BY <1>1, Zenon
       DEF ExternalDisconnect, Disconnect, chanVars, callVars, histVars, ChanTypes
  <2>2. UNCHANGED <<queue, out, in, caller, announcer, signalled>>
      BY <1>1, Zenon DEF ExternalDisconnect, chanVars, callVars, histVars, Disconnect
  <2> QED
      BY <2>1, <2>2 DEF QueueTypes, OutTypes, InTypes, CallTypes, SignalTypes
<1>2. ASSUME NEW c \in Callers, QueueMessage(c)
       PROVE  TypeInv'
  <2>1. CallTypes'
      BY <1>2, Zenon
       DEF QueueMessage, chanVars, callVars, histVars, CallTypes
  <2>2. SignalTypes'
      BY <1>2, SignalType, MessageTypes, Zenon
       DEF QueueMessage, Msg, chanVars, callVars, histVars, SignalTypes
  <2>3. UNCHANGED <<disconnect, outputQueue, sendQueue, outputInvChan, sendDoneQueue,
                   queue, out, in>>
      BY <1>2, Zenon DEF QueueMessage, chanVars, callVars, histVars
  <2> QED
      BY <2>1, <2>2, <2>3 DEF ChanTypes, QueueTypes, OutTypes, InTypes
<1>3. ASSUME NEW c \in Callers, QueueMessageSend(c)
       PROVE  TypeInv'
  <2>1. ChanTypes'
      BY <1>3, MessageTypes, PutOutputType, Zenon
       DEF QueueMessageSend, chanVars, callVars, histVars, ChanTypes
  <2>2. CallTypes'
      BY <1>3, Zenon
       DEF QueueMessageSend, chanVars, callVars, histVars, CallTypes
  <2>3. UNCHANGED <<queue, out, in, signalled>>
      BY <1>3, Zenon DEF QueueMessageSend, chanVars, callVars, histVars
  <2> QED
      BY <2>1, <2>2, <2>3 DEF QueueTypes, OutTypes, InTypes, SignalTypes
<1>4. ASSUME NEW c \in Callers, CallerReleased(c)
       PROVE  TypeInv'
  <2>1. CallTypes'
      BY <1>4, Zenon
       DEF CallerReleased, chanVars, callVars, histVars, CallTypes
  <2>2. UNCHANGED <<disconnect, outputQueue, sendQueue, outputInvChan, sendDoneQueue,
                   queue, out, in, signalled>>
      BY <1>4, Zenon DEF CallerReleased, chanVars, callVars, histVars
  <2> QED
      BY <2>1, <2>2 DEF ChanTypes, QueueTypes, OutTypes, InTypes, SignalTypes
<1>5. ASSUME NEW a \in Announcers, QueueInventory(a)
       PROVE  TypeInv'
  <2>1. CallTypes'
      BY <1>5
       DEF QueueInventory, Idle, chanVars, callVars, histVars, CallTypes
  <2>2. UNCHANGED <<disconnect, outputQueue, sendQueue, outputInvChan, sendDoneQueue,
                   queue, out, in, signalled>>
      BY <1>5, Zenon DEF QueueInventory, chanVars, callVars, histVars
  <2> QED
      BY <2>1, <2>2 DEF ChanTypes, QueueTypes, OutTypes, InTypes, SignalTypes
<1>6. ASSUME NEW a \in Announcers, QueueInventorySend(a)
       PROVE  TypeInv'
  <2>1. ChanTypes'
    <3>1. announcer[a].iv \in Inv /\ announcer[a].immediate \in BOOLEAN
        BY <1>6, Zenon DEF QueueInventorySend, CallTypes
    <3>2. CASE announcer[a].immediate
      <4>1. Message("inv", <<announcer[a].iv>>, NoChan) \in Msg
        <5>1. <<announcer[a].iv>> \in Seq(Inv)
            BY <3>1
        <5> QED
            BY <5>1, MessageTypes, Zenon
      <4> QED
          BY <1>6, <3>2, <4>1, PutOutputType, Zenon DEF QueueInventorySend
    <3>3. CASE ~announcer[a].immediate
        BY <1>6, <3>1, <3>3, SeqTypes, Zenon DEF QueueInventorySend, ChanTypes
    <3> QED
        BY <3>2, <3>3, Zenon
  <2>2. CallTypes'
      BY <1>6, Zenon
       DEF QueueInventorySend, Idle, chanVars, callVars, histVars, CallTypes
  <2>3. UNCHANGED <<queue, out, in, signalled>>
      BY <1>6, Zenon DEF QueueInventorySend, chanVars, callVars, histVars
  <2> QED
      BY <2>1, <2>2, <2>3 DEF QueueTypes, OutTypes, InTypes, SignalTypes
<1>7. CASE StartHandlers
  <2>1. QueueTypes'
      BY <1>7, SeqTypes, Zenon
       DEF StartHandlers, QueueLocals, chanVars, callVars, histVars, QueueTypes
  <2>2. OutTypes'
      BY <1>7, Zenon
       DEF StartHandlers, chanVars, callVars, histVars, OutTypes
  <2>3. InTypes'
      BY <1>7, Zenon
       DEF StartHandlers, chanVars, callVars, histVars, InTypes
  <2>4. UNCHANGED <<disconnect, outputQueue, sendQueue, outputInvChan, sendDoneQueue,
                   caller, announcer, signalled>>
      BY <1>7, Zenon DEF StartHandlers, chanVars, callVars, histVars
  <2> QED
      BY <2>1, <2>2, <2>3, <2>4, Zenon DEF ChanTypes, CallTypes, SignalTypes
<1>8. CASE StartFails
  <2>1. ChanTypes'
      BY <1>8, Zenon
       DEF StartFails, Disconnect, chanVars, callVars, histVars, ChanTypes
  <2>2. UNCHANGED <<queue, out, in, caller, announcer, signalled>>
      BY <1>8, Zenon DEF StartFails, chanVars, callVars, histVars, Disconnect
  <2> QED
      BY <2>1, <2>2 DEF QueueTypes, OutTypes, InTypes, CallTypes, SignalTypes
<1>9. CASE QueueVerAck
  <2>1. ChanTypes'
      BY <1>9, MessageTypes, PutOutputType, Zenon
       DEF QueueVerAck, chanVars, callVars, histVars, ChanTypes
  <2>2. UNCHANGED <<queue, out, in, caller, announcer, signalled>>
      BY <1>9, Zenon DEF QueueVerAck, chanVars, callVars, histVars
  <2> QED
      BY <2>1, <2>2 DEF QueueTypes, OutTypes, InTypes, CallTypes, SignalTypes
<1>10. CASE QueueTakeOutput
  <2>1. /\ Head(outputQueue) \in Msg /\ QueuePacket(Head(outputQueue), queue)
        /\ outputQueue' = Tail(outputQueue) /\ Tail(outputQueue) \in Seq(Msg)
        /\ queue \in QueueLocals /\ queue.pc = "run"
        /\ UNCHANGED <<disconnect, outputInvChan, sendDoneQueue, out, in, caller, announcer,
                       signalled>>
      BY <1>10, SeqTypes, Zenon DEF QueueTakeOutput, ChanTypes, QueueTypes, callVars
  <2>2. queue' \in QueueLocals /\ queue'.pc = "run" /\ sendQueue' \in Seq(Msg)
      BY <2>1, QueuePacketTypes, Zenon DEF QueueLocals
  <2> QED
      BY <2>1, <2>2 DEF ChanTypes, QueueTypes, OutTypes, InTypes, CallTypes, SignalTypes
<1>11. CASE QueueTakeDone
  <2>1. ChanTypes'
      BY <1>11, SeqTypes
       DEF QueueTakeDone, QueueLocals, chanVars, callVars, histVars, ChanTypes, QueueTypes
  <2>2. QueueTypes'
    <3>1. CASE queue.pending = <<>>
        BY <1>11, <3>1, Zenon DEF QueueTakeDone, QueueTypes, QueueLocals
    <3>2. CASE queue.pending # <<>>
      <4>1. Tail(queue.pending) \in Seq(Msg)
          BY <3>2 DEF QueueTypes, QueueLocals
      <4> QED
          BY <1>11, <3>2, <4>1, Zenon DEF QueueTakeDone, QueueTypes, QueueLocals
    <3> QED
        BY <3>1, <3>2, Zenon
  <2>3. UNCHANGED <<out, in, caller, announcer, signalled>>
      BY <1>11, Zenon DEF QueueTakeDone, chanVars, callVars, histVars
  <2> QED
      BY <2>1, <2>2, <2>3, Zenon DEF OutTypes, InTypes, CallTypes, SignalTypes
<1>12. CASE QueueTakeInv
  <2>1. ChanTypes'
      BY <1>12, SeqTypes, Zenon
       DEF QueueTakeInv, chanVars, callVars, histVars, ChanTypes
  <2>2. QueueTypes'
      BY <1>12, SeqTypes, Zenon
       DEF QueueTakeInv, QueueLocals, chanVars, callVars, histVars, QueueTypes, ChanTypes
  <2>3. UNCHANGED <<out, in, caller, announcer, signalled>>
      BY <1>12, Zenon DEF QueueTakeInv, chanVars, callVars, histVars
  <2> QED
      BY <2>1, <2>2, <2>3, Zenon DEF OutTypes, InTypes, CallTypes, SignalTypes
<1>13. CASE QueueTrickle
  <2>1. QueueTypes'
      BY <1>13, SeqTypes, Zenon
       DEF QueueTrickle, QueueLocals, chanVars, callVars, histVars, QueueTypes
  <2>2. UNCHANGED <<disconnect, outputQueue, sendQueue, outputInvChan, sendDoneQueue,
                   out, in, caller, announcer, signalled>>
      BY <1>13, Zenon DEF QueueTrickle, chanVars, callVars, histVars
  <2> QED
      BY <2>1, <2>2 DEF ChanTypes, OutTypes, InTypes, CallTypes, SignalTypes
<1>14. CASE TrickleCheck
  <2>1. QueueTypes'
      BY <1>14, SeqTypes, Zenon
       DEF TrickleCheck, QueueLocals, chanVars, callVars, histVars, QueueTypes
  <2>2. UNCHANGED <<disconnect, outputQueue, sendQueue, outputInvChan, sendDoneQueue,
                   out, in, caller, announcer, signalled>>
      BY <1>14, Zenon DEF TrickleCheck, chanVars, callVars, histVars
  <2> QED
      BY <2>1, <2>2 DEF ChanTypes, OutTypes, InTypes, CallTypes, SignalTypes
<1>15. CASE TrickleRelay
  <2> DEFINE next == [queue EXCEPT !.pc = "trickle", !.invs = Tail(@)]
             sent == [next EXCEPT !.batch = <<>>]
  <2>1. /\ next \in QueueLocals /\ sent \in QueueLocals
        /\ next.pc = "trickle" /\ sent.pc = "trickle" /\ InvMessage(queue.batch) \in Msg
      BY <1>15, SeqTypes, MessageTypes, Zenon
         DEF TrickleRelay, QueueTypes, QueueLocals, InvMessage
  <2>2. /\ \/ QueuePacket(InvMessage(queue.batch), sent)
           \/ queue' = next /\ UNCHANGED sendQueue
        /\ UNCHANGED <<disconnect, outputQueue, outputInvChan, sendDoneQueue, out, in,
                       caller, announcer, signalled>>
      BY <1>15, Zenon DEF TrickleRelay
  <2> HIDE DEF next, sent
  <2>3. queue' \in QueueLocals /\ queue'.pc = "trickle" /\ sendQueue' \in Seq(Msg)
      BY <2>1, <2>2, QueuePacketTypes, Zenon DEF ChanTypes, QueueTypes, QueueLocals
  <2> QED
      BY <2>2, <2>3 DEF ChanTypes, QueueTypes, OutTypes, InTypes, CallTypes, SignalTypes
<1>16. CASE TrickleEnd
  <2> DEFINE next == [queue EXCEPT !.pc = "run"]
             sent == [next EXCEPT !.batch = <<>>]
  <2>1. /\ next \in QueueLocals /\ sent \in QueueLocals
        /\ next.pc = "run" /\ sent.pc = "run" /\ InvMessage(queue.batch) \in Msg
      BY <1>16, SeqTypes, MessageTypes, Zenon
         DEF TrickleEnd, QueueTypes, QueueLocals, InvMessage
  <2>2. /\ \/ QueuePacket(InvMessage(queue.batch), sent)
           \/ queue' = next /\ UNCHANGED sendQueue
        /\ UNCHANGED <<disconnect, outputQueue, outputInvChan, sendDoneQueue, out, in,
                       caller, announcer, signalled>>
      BY <1>16, Zenon DEF TrickleEnd, callVars
  <2> HIDE DEF next, sent
  <2>3. queue' \in QueueLocals /\ queue'.pc = "run" /\ sendQueue' \in Seq(Msg)
      BY <2>1, <2>2, QueuePacketTypes, Zenon DEF ChanTypes, QueueTypes, QueueLocals
  <2> QED
      BY <2>2, <2>3 DEF ChanTypes, QueueTypes, OutTypes, InTypes, CallTypes, SignalTypes
<1>17. CASE QueueQuit
  <2>1. QueueTypes'
      BY <1>17, Zenon
       DEF QueueQuit, QueueLocals, chanVars, callVars, histVars, QueueTypes
  <2>2. UNCHANGED <<disconnect, outputQueue, sendQueue, outputInvChan, sendDoneQueue,
                   out, in, caller, announcer, signalled>>
      BY <1>17, Zenon DEF QueueQuit, chanVars, callVars, histVars
  <2> QED
      BY <2>1, <2>2 DEF ChanTypes, OutTypes, InTypes, CallTypes, SignalTypes
<1>18. CASE QueueDrain
  <2>1. QueueTypes'
    <3>1. CASE queue.pending = <<>>
        BY <1>18, <3>1, Zenon DEF QueueDrain, QueueTypes, QueueLocals
    <3>2. CASE queue.pending # <<>>
      <4>1. Tail(queue.pending) \in Seq(Msg)
          BY <3>2 DEF QueueTypes, QueueLocals
      <4> QED
          BY <1>18, <3>2, <4>1, Zenon DEF QueueDrain, QueueTypes, QueueLocals
    <3> QED
        BY <3>1, <3>2, Zenon
  <2>2. SignalTypes'
    <3>1. queue.pending # <<>> => Head(queue.pending) \in Msg
        BY SeqTypes, Zenon DEF QueueTypes, QueueLocals
    <3>2. queue.pending # <<>> => Head(queue.pending).done \in Chans \cup {NoChan}
        BY <3>1, Zenon DEF Msg
    <3> QED
        BY <1>18, <3>2, SignalType, Zenon DEF QueueDrain, SignalTypes
  <2>3. UNCHANGED <<disconnect, outputQueue, sendQueue, outputInvChan, sendDoneQueue,
                   out, in, caller, announcer>>
      BY <1>18, Zenon DEF QueueDrain, chanVars, callVars, histVars
  <2> QED
      BY <2>1, <2>2, <2>3 DEF ChanTypes, OutTypes, InTypes, CallTypes
<1>19. CASE QueueCleanup
  <2>1. ChanTypes'
      BY <1>19, SeqTypes, Zenon
       DEF QueueCleanup, chanVars, callVars, histVars, ChanTypes
  <2>2. QueueTypes'
      BY <1>19, Zenon
       DEF QueueCleanup, QueueLocals, chanVars, callVars, histVars, QueueTypes
  <2>3. SignalTypes'
    <3>1. outputQueue # <<>> => Head(outputQueue) \in Msg
        BY SeqTypes, Zenon DEF ChanTypes
    <3>2. outputQueue # <<>> => Head(outputQueue).done \in Chans \cup {NoChan}
        BY <3>1, Zenon DEF Msg
    <3> QED
        BY <1>19, <3>2, SignalType, Zenon DEF QueueCleanup, SignalTypes
  <2>4. UNCHANGED <<out, in, caller, announcer>>
      BY <1>19, Zenon DEF QueueCleanup, chanVars, callVars, histVars
  <2> QED
      BY <2>1, <2>2, <2>3, <2>4, Zenon DEF OutTypes, InTypes, CallTypes
<1>20. CASE OutTake
  <2>1. ChanTypes'
      BY <1>20, SeqTypes, Zenon
       DEF OutTake, chanVars, callVars, histVars, ChanTypes
  <2>2. OutTypes'
      BY <1>20, SeqTypes, Zenon
       DEF OutTake, chanVars, callVars, histVars, OutTypes, ChanTypes
  <2>3. UNCHANGED <<queue, in, caller, announcer, signalled>>
      BY <1>20, Zenon DEF OutTake, chanVars, callVars, histVars
  <2> QED
      BY <2>1, <2>2, <2>3, Zenon DEF QueueTypes, InTypes, CallTypes, SignalTypes
<1>21. CASE OutStall
  <2>1. ChanTypes'
      BY <1>21, Zenon
       DEF OutStall, SendStall, chanVars, callVars, histVars, ChanTypes
  <2>2. OutTypes'
      BY <1>21, Zenon
       DEF OutStall, chanVars, callVars, histVars, OutTypes
  <2>3. UNCHANGED <<queue, in, caller, announcer, signalled>>
      BY <1>21, Zenon DEF OutStall, chanVars, callVars, histVars, SendStall
  <2> QED
      BY <2>1, <2>2, <2>3, Zenon DEF QueueTypes, InTypes, CallTypes, SignalTypes
<1>22. CASE OutWrite
  <2>1. ChanTypes'
      BY <1>22, SeqTypes, Zenon
       DEF OutWrite, chanVars, callVars, histVars, ChanTypes
  <2>2. OutTypes'
      BY <1>22, Zenon
       DEF OutWrite, chanVars, callVars, histVars, OutTypes
  <2>3. UNCHANGED <<queue, in, caller, announcer, signalled>>
      BY <1>22, Zenon DEF OutWrite, chanVars, callVars, histVars
  <2> QED
      BY <2>1, <2>2, <2>3, Zenon DEF QueueTypes, InTypes, CallTypes, SignalTypes
<1>23. CASE OutWriteFails
  <2>1. ChanTypes'
      BY <1>23, Zenon
       DEF OutWriteFails, Disconnect, chanVars, callVars, histVars, ChanTypes
  <2>2. OutTypes'
      BY <1>23
       DEF OutWriteFails, chanVars, callVars, histVars, OutTypes
  <2>3. SignalTypes'
    <3>1. out.msg[1] \in Msg
        BY <1>23 DEF OutWriteFails, OutTypes
    <3>2. out.msg[1].done \in Chans \cup {NoChan}
        BY <3>1, Zenon DEF Msg
    <3> QED
        BY <1>23, <3>2, SignalType, Zenon DEF OutWriteFails, SignalTypes
  <2>4. UNCHANGED <<queue, in, caller, announcer>>
      BY <1>23, Zenon DEF OutWriteFails, chanVars, callVars, histVars, Disconnect
  <2> QED
      BY <2>1, <2>2, <2>3, <2>4, Zenon DEF QueueTypes, InTypes, CallTypes
<1>24. CASE OutSent
  <2>1. ChanTypes'
      BY <1>24
       DEF OutSent, chanVars, callVars, histVars, ChanTypes
  <2>2. OutTypes'
      BY <1>24
       DEF OutSent, chanVars, callVars, histVars, OutTypes
  <2>3. SignalTypes'
    <3>1. out.msg[1] \in Msg
        BY <1>24 DEF OutSent, OutTypes
    <3>2. out.msg[1].done \in Chans \cup {NoChan}
        BY <3>1, Zenon DEF Msg
    <3> QED
        BY <1>24, <3>2, SignalType, Zenon DEF OutSent, SignalTypes
  <2>4. UNCHANGED <<queue, in, caller, announcer>>
      BY <1>24, Zenon DEF OutSent, chanVars, callVars, histVars
  <2> QED
      BY <2>1, <2>2, <2>3, <2>4, Zenon DEF QueueTypes, InTypes, CallTypes
<1>25. CASE OutPing
  <2>1. ChanTypes'
      BY <1>25, MessageTypes, PutOutputType, Zenon
       DEF OutPing, chanVars, callVars, histVars, ChanTypes
  <2>2. OutTypes'
      BY <1>25, Zenon
       DEF OutPing, chanVars, callVars, histVars, OutTypes
  <2>3. UNCHANGED <<queue, in, caller, announcer, signalled>>
      BY <1>25, Zenon DEF OutPing, chanVars, callVars, histVars
  <2> QED
      BY <2>1, <2>2, <2>3, Zenon DEF QueueTypes, InTypes, CallTypes, SignalTypes
<1>26. CASE OutQuit
  <2>1. OutTypes'
      BY <1>26, Zenon
       DEF OutQuit, chanVars, callVars, histVars, OutTypes
  <2>2. UNCHANGED <<disconnect, outputQueue, sendQueue, outputInvChan, sendDoneQueue,
                   queue, in, caller, announcer, signalled>>
      BY <1>26, Zenon DEF OutQuit, chanVars, callVars, histVars
  <2> QED
      BY <2>1, <2>2, Zenon DEF ChanTypes, QueueTypes, InTypes, CallTypes, SignalTypes
<1>27. CASE OutCleanup
  <2>1. ChanTypes'
      BY <1>27, SeqTypes, Zenon
       DEF OutCleanup, chanVars, callVars, histVars, ChanTypes
  <2>2. OutTypes'
      BY <1>27, Zenon
       DEF OutCleanup, chanVars, callVars, histVars, OutTypes
  <2>3. SignalTypes'
    <3>1. sendQueue # <<>> => Head(sendQueue) \in Msg
        BY SeqTypes, Zenon DEF ChanTypes
    <3>2. sendQueue # <<>> => Head(sendQueue).done \in Chans \cup {NoChan}
        BY <3>1, Zenon DEF Msg
    <3> QED
        BY <1>27, <3>2, SignalType, Zenon DEF OutCleanup, SignalTypes
  <2>4. UNCHANGED <<queue, in, caller, announcer>>
      BY <1>27, Zenon DEF OutCleanup, chanVars, callVars, histVars
  <2> QED
      BY <2>1, <2>2, <2>3, <2>4, Zenon DEF QueueTypes, InTypes, CallTypes
<1>28. CASE InRead
  <2>1. InTypes'
      BY <1>28, Zenon
       DEF InRead, InGoto, chanVars, callVars, histVars, InTypes
  <2>2. UNCHANGED <<disconnect, outputQueue, sendQueue, outputInvChan, sendDoneQueue,
                   queue, out, caller, announcer, signalled>>
      BY <1>28, Zenon DEF InRead, chanVars, callVars, histVars, InGoto
  <2> QED
      BY <2>1, <2>2, Zenon DEF ChanTypes, QueueTypes, OutTypes, CallTypes, SignalTypes
<1>29. CASE InStall
  <2>1. ChanTypes'
      BY <1>29, Zenon
       DEF InStall, SendStall, chanVars, callVars, histVars, ChanTypes
  <2>2. InTypes'
      BY <1>29, Zenon
       DEF InStall, InGoto, chanVars, callVars, histVars, InTypes
  <2>3. UNCHANGED <<queue, out, caller, announcer, signalled>>
      BY <1>29, Zenon DEF InStall, chanVars, callVars, histVars, InGoto, SendStall
  <2> QED
      BY <2>1, <2>2, <2>3, Zenon DEF QueueTypes, OutTypes, CallTypes, SignalTypes
<1>30. CASE InHandle
  <2>1. InTypes'
      BY <1>30, Zenon
       DEF InHandle, InGoto, chanVars, callVars, histVars, InTypes
  <2>2. UNCHANGED <<disconnect, outputQueue, sendQueue, outputInvChan, sendDoneQueue,
                   queue, out, caller, announcer, signalled>>
      BY <1>30, Zenon DEF InHandle, chanVars, callVars, histVars, InGoto
  <2> QED
      BY <2>1, <2>2, Zenon DEF ChanTypes, QueueTypes, OutTypes, CallTypes, SignalTypes
<1>31. CASE InPong
  <2>1. ChanTypes'
      BY <1>31, MessageTypes, PutOutputType, Zenon
       DEF InPong, chanVars, callVars, histVars, ChanTypes
  <2>2. InTypes'
      BY <1>31, Zenon
       DEF InPong, InGoto, chanVars, callVars, histVars, InTypes
  <2>3. UNCHANGED <<queue, out, caller, announcer, signalled>>
      BY <1>31, Zenon DEF InPong, chanVars, callVars, histVars, InGoto
  <2> QED
      BY <2>1, <2>2, <2>3, Zenon DEF QueueTypes, OutTypes, CallTypes, SignalTypes
<1>32. CASE InReject
  <2>1. ChanTypes'
      BY <1>32, MessageTypes, PutOutputType, Zenon
       DEF InReject, chanVars, callVars, histVars, ChanTypes
  <2>2. InTypes'
      BY <1>32, Zenon
       DEF InReject, InGoto, chanVars, callVars, histVars, InTypes
  <2>3. SignalTypes'
      BY <1>32, SignalType, Zenon
       DEF InReject, Chans, chanVars, callVars, histVars, SignalTypes
  <2>4. UNCHANGED <<queue, out, caller, announcer>>
      BY <1>32, Zenon DEF InReject, chanVars, callVars, histVars, InGoto
  <2> QED
      BY <2>1, <2>2, <2>3, <2>4, Zenon DEF QueueTypes, OutTypes, CallTypes
<1>33. CASE InExit
  <2>1. ChanTypes'
      BY <1>33, Zenon
       DEF InExit, Disconnect, chanVars, callVars, histVars, ChanTypes
  <2>2. InTypes'
      BY <1>33, Zenon
       DEF InExit, InGoto, chanVars, callVars, histVars, InTypes
  <2>3. UNCHANGED <<queue, out, caller, announcer, signalled>>
      BY <1>33, Zenon DEF InExit, chanVars, callVars, histVars, Disconnect, InGoto
  <2> QED
      BY <2>1, <2>2, <2>3, Zenon DEF QueueTypes, OutTypes, CallTypes, SignalTypes
<1>34. CASE StallControl
    BY <1>34
       DEF StallControl, chanVars, callVars, histVars, ChanTypes, QueueTypes, OutTypes,
           InTypes, CallTypes, SignalTypes
<1>35. CASE StallTick
  <2>1. ChanTypes'
      BY <1>35, Zenon
       DEF StallTick, Disconnect, chanVars, callVars, histVars, ChanTypes
  <2>2. UNCHANGED <<queue, out, in, caller, announcer, signalled>>
      BY <1>35, Zenon DEF StallTick, chanVars, callVars, histVars, Disconnect
  <2> QED
      BY <2>1, <2>2, Zenon DEF QueueTypes, OutTypes, InTypes, CallTypes, SignalTypes
<1>36. CASE StallIoStopped
    BY <1>36
       DEF StallIoStopped, chanVars, callVars, histVars, ChanTypes, QueueTypes,
           OutTypes, InTypes, CallTypes, SignalTypes
<1>37. CASE StallCleanup
    BY <1>37
       DEF StallCleanup, chanVars, callVars, histVars, ChanTypes, QueueTypes, OutTypes,
           InTypes, CallTypes, SignalTypes
<1>38. CASE UNCHANGED vars
    BY <1>38
       DEF vars, chanVars, callVars, histVars, ChanTypes, QueueTypes, OutTypes, InTypes,
           CallTypes, SignalTypes
<1> QED
    BY <1>1, <1>2, <1>3, <1>4, <1>5, <1>6, <1>7, <1>8, <1>9, <1>10, <1>11,
       <1>12, <1>13, <1>14, <1>15, <1>16, <1>17, <1>18, <1>19, <1>20, <1>21,
       <1>22, <1>23, <1>24, <1>25, <1>26, <1>27, <1>28, <1>29, <1>30, <1>31,
       <1>32, <1>33, <1>34, <1>35, <1>36, <1>37, <1>38, Zenon
       DEF Next, CallerStep, StartStep, QueueStep, TrickleStep, OutStep, InStep, StallStep

-----------------------------------------------------------------------------
(***************************************************************************)
(* The hand-over between queueHandler and outHandler.                       *)
(***************************************************************************)
HandoverInv == OneInFlight /\ QuitInv /\ OwedInv

\* How the sequences of OwedInv combine.
LEMMA ConcatAppend ==
    \A u, p \in Seq(Msg) : \A m \in Msg : Append(u \o p, m) = u \o Append(p, m)
OBVIOUS

\* Joining to nothing, and taking and restoring the first element.
LEMMA ConcatHead ==
    ASSUME NEW S, NEW s \in Seq(S)
    PROVE  /\ <<>> \o s = s
           /\ s # <<>> => <<Head(s)>> \o Tail(s) = s
           /\ \A x \in S : /\ Tail(<<x>> \o s) = s
                           /\ Head(<<x>> \o s) = x
                           /\ <<x>> \o s # <<>>
OBVIOUS

\* No handler takes a step before StartHandlers.
LEMMA StartInvStep == StartInv /\ [Next]_vars => StartInv'
<1> SUFFICES ASSUME StartInv, [Next]_vars
             PROVE  StartInv'
    BY Zenon
<1> USE DEF StartInv
<1>1. CASE ExternalDisconnect
    BY <1>1, Zenon DEF ExternalDisconnect
<1>2. CASE CallerStep
  <2>1. UNCHANGED <<start, queue, out, in, stall>>
      BY <1>2, Zenon
         DEF CallerStep, QueueMessage, QueueMessageSend, CallerReleased, QueueInventory,
                  QueueInventorySend
  <2> QED
      BY <2>1, Zenon
<1>3. CASE StartStep
    BY <1>3, Zenon DEF StartStep, StartHandlers, StartFails, QueueVerAck
<1>4. CASE QueueStep
  <2>1. queue.pc # "off" /\ UNCHANGED start
      BY <1>4, Zenon DEF QueueStep, QueueTakeOutput, QueueTakeDone, QueueTakeInv, QueueTrickle,
                  TrickleStep, TrickleCheck, TrickleRelay, TrickleEnd, QueueQuit, QueueDrain,
                  QueueCleanup
  <2> QED
      BY <2>1, Zenon
<1>5. CASE OutStep
  <2>1. out.pc # "off" /\ UNCHANGED start
      BY <1>5, Zenon DEF OutStep, OutTake, OutStall, OutWrite, OutWriteFails, OutSent, OutPing,
                  OutQuit, OutCleanup
  <2> QED
      BY <2>1, Zenon
<1>6. CASE InStep
  <2>1. in.pc # "off" /\ UNCHANGED start
      BY <1>6, Zenon DEF InStep, InRead, InStall, InHandle, InPong, InReject, InExit
  <2> QED
      BY <2>1, Zenon
<1>7. CASE StallStep
  <2>1. stall.pc # "off" /\ UNCHANGED start
      BY <1>7, Zenon DEF StallStep, StallControl, StallTick, StallIoStopped, StallCleanup
  <2> QED
      BY <2>1, Zenon
<1>8. CASE UNCHANGED vars
    BY <1>8, Zenon DEF vars
<1> QED
    BY <1>1, <1>2, <1>3, <1>4, <1>5, <1>6, <1>7, <1>8, Zenon DEF Next

\* A disconnect is final, and queueHandler leaves its loop only after one.
LEMMA DrainInvStep == TypeInv /\ DrainInv /\ [Next]_vars => DrainInv'
<1> SUFFICES ASSUME TypeInv, DrainInv, [Next]_vars
             PROVE  DrainInv'
    BY Zenon
<1>0. queue \in QueueLocals
    BY Zenon DEF TypeInv, QueueTypes
<1>1. CASE ExternalDisconnect
    BY <1>1, Zenon DEF ExternalDisconnect, Disconnect, DrainInv
<1>2. CASE CallerStep
  <2>1. UNCHANGED <<disconnect, queue>>
      BY <1>2, Zenon
         DEF CallerStep, QueueMessage, QueueMessageSend, CallerReleased, QueueInventory,
                  QueueInventorySend
  <2> QED
      BY <2>1, Zenon DEF DrainInv
<1>3. CASE StartStep
    BY <1>0, <1>3, Zenon
       DEF StartStep, StartHandlers, StartFails, QueueVerAck, Disconnect, DrainInv,
                      QueueLocals
<1>4. CASE QueueStep
  <2>0. UNCHANGED disconnect
      BY <1>4, Zenon DEF QueueStep, QueueTakeOutput, QueueTakeDone, QueueTakeInv, QueueTrickle,
                  TrickleStep, TrickleCheck, TrickleRelay, TrickleEnd, QueueQuit, QueueDrain,
                  QueueCleanup
  <2>1. CASE disconnect
      BY <2>0, <2>1, Zenon DEF DrainInv
  <2>2. CASE ~disconnect
    <3>1. queue.pc \notin {"drain", "cleanup", "exited"}
        BY <2>2, Zenon DEF DrainInv
    <3>2. CASE QueueTakeOutput
        BY <1>0, <3>1, <3>2, Zenon DEF QueueTakeOutput, QueuePacket, DrainInv, QueueLocals
    <3>3. CASE TrickleRelay
        BY <1>0, <3>1, <3>3, Zenon DEF TrickleRelay, QueuePacket, DrainInv, QueueLocals
    <3>4. CASE TrickleEnd
        BY <1>0, <3>1, <3>4, Zenon DEF TrickleEnd, QueuePacket, DrainInv, QueueLocals
    <3>5. CASE QueueTakeDone
        BY <1>0, <3>1, <3>5, Zenon DEF QueueTakeDone, DrainInv, QueueLocals
    <3>6. CASE QueueTakeInv \/ QueueTrickle
        BY <1>0, <3>1, <3>6, Zenon DEF QueueTakeInv, QueueTrickle, DrainInv, QueueLocals
    <3>7. CASE TrickleCheck
        BY <1>0, <3>1, <3>7, Zenon DEF TrickleCheck, DrainInv, QueueLocals
    <3> QED
        BY <1>4, <2>2, <3>1, <3>2, <3>3, <3>4, <3>5, <3>6, <3>7, Zenon
           DEF QueueStep, TrickleStep, QueueQuit, QueueDrain, QueueCleanup
  <2> QED
      BY <2>1, <2>2, Zenon
<1>5. CASE OutStep
  <2>1. UNCHANGED queue /\ (disconnect => disconnect')
      BY <1>5 DEF OutStep, OutTake, OutStall, OutWrite, OutWriteFails, OutSent, OutPing,
                  OutQuit, OutCleanup, Disconnect
  <2> QED
      BY <2>1, Zenon DEF DrainInv
<1>6. CASE InStep
  <2>1. UNCHANGED queue
      BY <1>6, Zenon DEF InStep, InRead, InStall, InHandle, InPong, InReject, InExit
  <2>2. disconnect' = disconnect \/ disconnect' = TRUE
      BY <1>6, Zenon
         DEF InStep, InRead, InStall, InHandle, InPong, InReject, InExit, Disconnect
  <2> QED
      BY <2>1, <2>2, Zenon DEF DrainInv
<1>7. CASE StallStep
  <2>1. UNCHANGED queue /\ (disconnect => disconnect')
      BY <1>7
         DEF StallStep, StallControl, StallTick, StallIoStopped, StallCleanup,
             Disconnect
  <2> QED
      BY <2>1, Zenon DEF DrainInv
<1>8. CASE UNCHANGED vars
    BY <1>8, Zenon DEF vars, DrainInv
<1> QED
    BY <1>1, <1>2, <1>3, <1>4, <1>5, <1>6, <1>7, <1>8, Zenon DEF Next

\* One step of any goroutine keeps the hand-over.
LEMMA HandoverStep ==
    TypeInv /\ StartInv /\ DrainInv /\ HandoverInv /\ [Next]_vars => HandoverInv'
<1> SUFFICES ASSUME TypeInv, StartInv, DrainInv, HandoverInv, [Next]_vars
             PROVE  HandoverInv'
    BY Zenon
<1> USE DEF TypeInv
<1>1. ASSUME UNCHANGED <<disconnect, sendQueue, sendDoneQueue, out, owed, queue.pending,
                         queue.waiting>>
      PROVE  HandoverInv'
    BY <1>1, Zenon DEF HandoverInv, OneInFlight, InFlight, QuitInv, OwedInv, Unwritten
<1>2. ASSUME disconnect', UNCHANGED <<sendQueue, sendDoneQueue, out, queue>>
      PROVE  HandoverInv'
    BY <1>2, Zenon DEF HandoverInv, OneInFlight, InFlight, QuitInv, OwedInv
\* A message queued by queueHandler.
<1>3. ASSUME NEW m \in Msg, NEW STATE q, q \in QueueLocals, QueuePacket(m, q),
             q.pending = queue.pending, q.waiting = queue.waiting,
             UNCHANGED <<disconnect, sendDoneQueue, out>>
      PROVE  HandoverInv'
  <2>0. /\ queue.pending \in Seq(Msg) /\ sendQueue \in Seq(Msg) /\ Unwritten \in Seq(Msg)
        /\ queue.waiting \in BOOLEAN /\ sendDoneQueue \in Nat
      BY Zenon DEF ChanTypes, QueueTypes, QueueLocals, OutTypes, Unwritten
  <2>1. CASE queue.waiting
    <3>1. /\ queue'.pending = Append(queue.pending, m) /\ queue'.waiting
          /\ sendQueue' = sendQueue /\ Unwritten' = Unwritten
          /\ ~disconnect => owed' = Append(owed, m)
        BY <1>3, <2>1, Zenon DEF QueuePacket, QueueLocals, Unwritten
    <3>2. Append(Unwritten \o queue.pending, m) = Unwritten \o Append(queue.pending, m)
        BY <2>0, ConcatAppend, Zenon
    <3>3. ~disconnect => owed' = Unwritten' \o queue'.pending
        BY <2>0, <3>1, <3>2, Zenon DEF HandoverInv, OwedInv
    <3> QED
        BY <1>3, <2>1, <3>1, <3>3, Zenon
           DEF HandoverInv, OneInFlight, InFlight, QuitInv, OwedInv
  <2>2. CASE ~queue.waiting
    <3>1. /\ queue.pending = <<>> /\ sendQueue = <<>> /\ sendDoneQueue = 0
          /\ out.pc \notin {"stall", "write", "sent"}
        BY <2>0, <2>2 DEF HandoverInv, OneInFlight, InFlight, OwedInv
    <3>2. /\ queue'.pending = <<>> /\ queue'.waiting /\ sendQueue' = <<m>>
          /\ Unwritten' = <<m>> /\ Unwritten = <<>>
          /\ ~disconnect => owed' = Append(owed, m)
        BY <1>3, <2>2, <3>1 DEF QueuePacket, QueueLocals, Unwritten
    <3>3. ~disconnect => owed' = Unwritten' \o queue'.pending
        BY <2>0, <3>1, <3>2 DEF HandoverInv, OwedInv
    <3>4. Len(sendQueue') = 1
        BY <3>2, Zenon
    <3> QED
        BY <1>3, <3>1, <3>2, <3>3, <3>4
           DEF HandoverInv, OneInFlight, InFlight, QuitInv, OwedInv
  <2> QED
      BY <2>0, <2>1, <2>2, Zenon
<1>4. ASSUME NEW c \in Callers, QueueMessage(c)
      PROVE  HandoverInv'
    BY <1>4, <1>1, Zenon DEF QueueMessage, chanVars, callVars, histVars
<1>5. ASSUME NEW c \in Callers, QueueMessageSend(c)
      PROVE  HandoverInv'
    BY <1>5, <1>1, Zenon DEF QueueMessageSend, PutOutput, chanVars, callVars, histVars
<1>6. ASSUME NEW c \in Callers, CallerReleased(c)
      PROVE  HandoverInv'
    BY <1>6, <1>1, Zenon DEF CallerReleased, chanVars, callVars, histVars
<1>7. ASSUME NEW a \in Announcers, QueueInventory(a)
      PROVE  HandoverInv'
    BY <1>7, <1>1, Zenon DEF QueueInventory, chanVars, callVars, histVars
<1>8. ASSUME NEW a \in Announcers, QueueInventorySend(a)
      PROVE  HandoverInv'
    BY <1>8, <1>1, Zenon DEF QueueInventorySend, PutOutput, chanVars, callVars, histVars
<1>9. CASE QueueVerAck
    BY <1>9, <1>1, Zenon DEF QueueVerAck, PutOutput, chanVars, callVars, histVars
<1>10. CASE QueueTakeInv
    BY <1>10, <1>1, Zenon DEF QueueTakeInv, QueueTypes, QueueLocals, chanVars, callVars, histVars
<1>11. CASE QueueTrickle
    BY <1>11, <1>1, Zenon DEF QueueTrickle, QueueTypes, QueueLocals, chanVars, callVars, histVars
<1>12. CASE TrickleCheck
    BY <1>12, <1>1, Zenon DEF TrickleCheck, QueueTypes, QueueLocals, chanVars, callVars, histVars
<1>13. CASE QueueQuit
    BY <1>13, <1>1, Zenon DEF QueueQuit, QueueTypes, QueueLocals, chanVars, callVars, histVars
<1>14. CASE QueueCleanup
    BY <1>14, <1>1, Zenon DEF QueueCleanup, QueueTypes, QueueLocals, chanVars, callVars, histVars
<1>15. CASE InRead
    BY <1>15, <1>1, Zenon DEF InRead, chanVars, callVars, histVars
<1>16. CASE InStall
    BY <1>16, <1>1, Zenon DEF InStall, SendStall, chanVars, callVars, histVars
<1>17. CASE InHandle
    BY <1>17, <1>1, Zenon DEF InHandle, chanVars, callVars, histVars
<1>18. CASE InPong
    BY <1>18, <1>1, Zenon DEF InPong, PutOutput, chanVars, callVars, histVars
<1>19. CASE InReject
    BY <1>19, <1>1, Zenon DEF InReject, PutOutput, chanVars, callVars, histVars
<1>20. CASE StallControl
    BY <1>20, <1>1, Zenon DEF StallControl, chanVars, callVars, histVars
<1>21. CASE StallIoStopped
    BY <1>21, <1>1, Zenon DEF StallIoStopped, chanVars, callVars, histVars
<1>22. CASE StallCleanup
    BY <1>22, <1>1, Zenon DEF StallCleanup, chanVars, callVars, histVars
<1>23. CASE ExternalDisconnect
    BY <1>23, <1>2, Zenon DEF ExternalDisconnect, Disconnect, chanVars, callVars, histVars
<1>24. CASE StartFails
    BY <1>24, <1>2, Zenon DEF StartFails, Disconnect, chanVars, callVars, histVars
<1>25. CASE InExit
    BY <1>25, <1>2, Zenon DEF InExit, Disconnect, chanVars, callVars, histVars
<1>26. CASE StallTick
    BY <1>26, <1>2, Zenon DEF StallTick, Disconnect, chanVars, callVars, histVars
<1>27. CASE StartHandlers
  <2>1. /\ UNCHANGED <<disconnect, sendQueue, sendDoneQueue, owed>>
        /\ queue'.pending = queue.pending /\ queue'.waiting = queue.waiting
      BY <1>27, Zenon DEF StartHandlers, QueueTypes, QueueLocals, chanVars, callVars, histVars
  <2>2. out'.pc = "run" /\ out'.msg = out.msg
      BY <1>27, Zenon DEF StartHandlers, OutTypes
  <2>3. out.pc = "off"
      BY <1>27, Zenon DEF StartHandlers, StartInv
  <2> QED
      BY <2>1, <2>2, <2>3, Zenon
         DEF HandoverInv, OneInFlight, InFlight, QuitInv, OwedInv, Unwritten
<1>28. CASE QueueTakeOutput
  <2>1. Head(outputQueue) \in Msg
      BY <1>28, SeqTypes, Zenon DEF QueueTakeOutput, ChanTypes
  <2> QED
      BY <1>28, <1>3, <2>1, Zenon DEF QueueTakeOutput, QueueTypes
<1>29. CASE QueueTakeDone
  <2>0. /\ queue.pending \in Seq(Msg) /\ sendQueue \in Seq(Msg) /\ sendDoneQueue \in Nat
        /\ queue.waiting \in BOOLEAN
      BY Zenon DEF ChanTypes, QueueTypes, QueueLocals
  <2>1. /\ sendQueue = <<>> /\ sendDoneQueue = 1 /\ sendDoneQueue' = 0
        /\ out.pc \notin {"stall", "write", "sent"} /\ queue.waiting
        /\ UNCHANGED <<disconnect, out, owed>>
      BY <1>29, <2>0
         DEF QueueTakeDone, HandoverInv, OneInFlight, InFlight, chanVars, callVars,
             histVars
  <2>2. CASE queue.pending = <<>>
    <3>1. /\ queue'.pending = <<>> /\ ~queue'.waiting /\ sendQueue' = <<>>
        BY <1>29, <2>1, <2>2, Zenon DEF QueueTakeDone, QueueTypes, QueueLocals
    <3> QED
        BY <2>1, <2>2, <3>1
           DEF HandoverInv, OneInFlight, InFlight, QuitInv, OwedInv, Unwritten
  <2>3. CASE queue.pending # <<>>
    <3>1. /\ queue'.pending = Tail(queue.pending) /\ queue'.waiting
          /\ sendQueue' = <<Head(queue.pending)>> /\ Len(sendQueue') = 1
        BY <1>29, <2>0, <2>1, <2>3 DEF QueueTakeDone, QueueTypes, QueueLocals
    <3>2. /\ <<>> \o queue.pending = queue.pending
          /\ <<Head(queue.pending)>> \o Tail(queue.pending) = queue.pending
        BY <2>0, <2>3, ConcatHead, Zenon
    <3>3. ~disconnect => owed = queue.pending
        BY <2>1, <3>2, Zenon DEF HandoverInv, OwedInv, Unwritten
    <3>4. ~disconnect' => owed' = Unwritten' \o queue'.pending
        BY <2>1, <3>1, <3>2, <3>3, Zenon DEF Unwritten
    <3> QED
        BY <2>1, <3>1, <3>4 DEF HandoverInv, OneInFlight, InFlight, QuitInv, OwedInv
  <2> QED
      BY <2>2, <2>3, Zenon
<1>30. CASE TrickleRelay
  <2> DEFINE next == [queue EXCEPT !.pc = "trickle", !.invs = Tail(@)]
             sent == [next EXCEPT !.batch = <<>>]
  <2>1. /\ sent \in QueueLocals /\ InvMessage(queue.batch) \in Msg
        /\ sent.pending = queue.pending /\ sent.waiting = queue.waiting
        /\ next.pending = queue.pending /\ next.waiting = queue.waiting
      BY <1>30, SeqTypes, MessageTypes, Zenon
         DEF TrickleRelay, QueueTypes, QueueLocals, InvMessage
  <2>2. /\ \/ QueuePacket(InvMessage(queue.batch), sent)
           \/ queue' = next /\ UNCHANGED <<sendQueue, owed>>
        /\ UNCHANGED <<disconnect, sendDoneQueue, out>>
      BY <1>30, Zenon DEF TrickleRelay
  <2> HIDE DEF next, sent
  <2> QED
      BY <1>1, <1>3, <2>1, <2>2, Zenon
<1>31. CASE TrickleEnd
  <2> DEFINE next == [queue EXCEPT !.pc = "run"]
             sent == [next EXCEPT !.batch = <<>>]
  <2>1. /\ sent \in QueueLocals /\ InvMessage(queue.batch) \in Msg
        /\ sent.pending = queue.pending /\ sent.waiting = queue.waiting
        /\ next.pending = queue.pending /\ next.waiting = queue.waiting
      BY <1>31, SeqTypes, MessageTypes, Zenon
         DEF TrickleEnd, QueueTypes, QueueLocals, InvMessage
  <2>2. /\ \/ QueuePacket(InvMessage(queue.batch), sent)
           \/ queue' = next /\ UNCHANGED <<sendQueue, owed>>
        /\ UNCHANGED <<disconnect, sendDoneQueue, out>>
      BY <1>31, Zenon DEF TrickleEnd
  <2> HIDE DEF next, sent
  <2> QED
      BY <1>1, <1>3, <2>1, <2>2, Zenon
<1>32. CASE QueueDrain
  <2>1. /\ disconnect /\ UNCHANGED <<disconnect, sendQueue, sendDoneQueue, out>>
        /\ queue'.waiting = queue.waiting
        /\ queue.pending = <<>> => queue'.pending = <<>>
      BY <1>32, Zenon DEF QueueDrain, DrainInv, QueueTypes, QueueLocals, chanVars
  <2> QED
      BY <2>1, Zenon DEF HandoverInv, OneInFlight, InFlight, QuitInv, OwedInv
<1>33. CASE OutTake
  <2>1. /\ sendQueue = <<Head(sendQueue)>> /\ Tail(sendQueue) = <<>> /\ sendDoneQueue = 0
        /\ Len(sendQueue) = 1 /\ queue.waiting
      BY <1>33 DEF OutTake, HandoverInv, OneInFlight, InFlight, ChanTypes
  <2>2. /\ out'.pc = "stall" /\ out'.msg = sendQueue /\ sendQueue' = <<>> /\ Len(sendQueue') = 0
        /\ out.pc = "run" /\ UNCHANGED <<disconnect, sendDoneQueue, queue, owed>>
      BY <1>33, <2>1, Zenon DEF OutTake, chanVars, callVars, histVars
  <2> QED
      BY <2>1, <2>2 DEF HandoverInv, OneInFlight, InFlight, QuitInv, OwedInv, Unwritten
<1>34. CASE OutStall
    BY <1>34, Zenon
       DEF OutStall, SendStall, OutTypes, HandoverInv, OneInFlight, InFlight, QuitInv,
           OwedInv, Unwritten, chanVars, callVars, histVars
<1>35. CASE OutWrite
  <2>1. /\ out'.pc = "sent" /\ out.pc = "write"
        /\ ~disconnect => owed' = Tail(owed)
        /\ UNCHANGED <<disconnect, sendQueue, sendDoneQueue, queue>>
      BY <1>35, Zenon DEF OutWrite, OutTypes, chanVars, callVars, histVars
  <2>2. sendQueue = <<>>
      BY <2>1 DEF HandoverInv, OneInFlight, InFlight, ChanTypes
  <2>3. /\ out.msg = <<out.msg[1]>> /\ out.msg[1] \in Msg /\ queue.pending \in Seq(Msg)
      BY <2>1 DEF OutTypes, QueueTypes, QueueLocals
  <2>4. ~disconnect => owed = <<out.msg[1]>> \o queue.pending
      BY <2>1, <2>3, Zenon DEF HandoverInv, OwedInv, Unwritten
  <2>5. /\ Tail(<<out.msg[1]>> \o queue.pending) = queue.pending
        /\ sendQueue \o queue.pending = queue.pending
      BY <2>2, <2>3, ConcatHead, Zenon
  <2>6. ~disconnect => owed' = sendQueue \o queue.pending
      BY <2>1, <2>4, <2>5, Zenon
  <2> QED
      BY <2>1, <2>2, <2>6, Zenon
         DEF HandoverInv, OneInFlight, InFlight, QuitInv, OwedInv, Unwritten
<1>36. CASE OutWriteFails
    BY <1>36 DEF OutWriteFails, Disconnect, OutTypes, ChanTypes, HandoverInv, OneInFlight,
                 InFlight, QuitInv, OwedInv, chanVars, callVars, histVars
<1>37. CASE OutSent
    BY <1>37
       DEF OutSent, OutTypes, ChanTypes, HandoverInv, OneInFlight, InFlight, QuitInv,
           OwedInv, Unwritten, chanVars, callVars, histVars
<1>38. CASE OutPing
    BY <1>38, Zenon
       DEF OutPing, PutOutput, OutTypes, HandoverInv, OneInFlight, InFlight, QuitInv,
           OwedInv, Unwritten, chanVars, callVars, histVars
<1>39. CASE OutQuit
    BY <1>39, Zenon
       DEF OutQuit, OutTypes, HandoverInv, OneInFlight, InFlight, QuitInv, OwedInv,
           Unwritten, chanVars, callVars, histVars
<1>40. CASE OutCleanup
  <2>1. /\ disconnect /\ out.pc = "queueQuit" /\ out'.pc \in {"queueQuit", "exited"}
        /\ UNCHANGED <<disconnect, sendDoneQueue, queue>>
        /\ sendQueue \in Seq(Msg) /\ sendDoneQueue \in Nat /\ queue.waiting \in BOOLEAN
      BY <1>40, Zenon DEF OutCleanup, OutTypes, HandoverInv, QuitInv, ChanTypes, QueueTypes,
                   QueueLocals
  <2>2. sendQueue' = sendQueue \/ (sendQueue # <<>> /\ sendQueue' = Tail(sendQueue))
      BY <1>40, Zenon DEF OutCleanup
  <2>3. Len(sendQueue') \in Nat /\ Len(sendQueue) \in Nat /\ Len(sendQueue') <= Len(sendQueue)
      BY <2>1, <2>2
  <2> QED
      BY <2>1, <2>3 DEF HandoverInv, OneInFlight, InFlight, QuitInv, OwedInv
<1>41. CASE UNCHANGED vars
    BY <1>41, <1>1, Zenon DEF vars, chanVars, callVars, histVars
<1> QED
    BY <1>4, <1>5, <1>6, <1>7, <1>8, <1>9, <1>10, <1>11, <1>12, <1>13, <1>14,
       <1>15, <1>16, <1>17, <1>18, <1>19, <1>20, <1>21, <1>22, <1>23, <1>24,
       <1>25, <1>26, <1>27, <1>28, <1>29, <1>30, <1>31, <1>32, <1>33, <1>34,
       <1>35, <1>36, <1>37, <1>38, <1>39, <1>40, <1>41, Zenon
       DEF Next, CallerStep, StartStep, QueueStep, TrickleStep, OutStep, InStep, StallStep

-----------------------------------------------------------------------------
(***************************************************************************)
(* The signals on the done channels.                                        *)
(***************************************************************************)
\* A message queued adds its own channel.
LEMMA HasAppend ==
    \A s \in Seq(Msg), m \in Msg : \A c \in Chans :
        /\ Has(Append(s, m), c) <=> Has(s, c) \/ m.done = c
        /\ Once(s, c) /\ ~(Has(s, c) /\ m.done = c) => Once(Append(s, m), c)
<1> SUFFICES ASSUME NEW s \in Seq(Msg), NEW m \in Msg, NEW c \in Chans
             PROVE  /\ Has(Append(s, m), c) <=> Has(s, c) \/ m.done = c
                    /\ Once(s, c) /\ ~(Has(s, c) /\ m.done = c) => Once(Append(s, m), c)
    BY Zenon
<1>1. /\ DOMAIN s = 1..Len(s) /\ Len(s) \in Nat
      /\ DOMAIN Append(s, m) = 1..(Len(s) + 1)
      /\ \A i \in 1..Len(s) : Append(s, m)[i] = s[i]
      /\ Append(s, m)[Len(s) + 1] = m
    OBVIOUS
<1> QED
    BY <1>1 DEF Has, Once

\* The oldest message taken takes its channel with it.
LEMMA HasTail ==
    \A s \in Seq(Msg) : \A c \in Chans : s # <<>> =>
        /\ Has(s, c) <=> Head(s).done = c \/ Has(Tail(s), c)
        /\ Once(s, c) => Once(Tail(s), c) /\ ~(Head(s).done = c /\ Has(Tail(s), c))
<1> SUFFICES ASSUME NEW s \in Seq(Msg), NEW c \in Chans, s # <<>>
             PROVE  /\ Has(s, c) <=> Head(s).done = c \/ Has(Tail(s), c)
                    /\ Once(s, c) =>
                          Once(Tail(s), c) /\ ~(Head(s).done = c /\ Has(Tail(s), c))
    BY Zenon
<1>1. /\ DOMAIN s = 1..Len(s) /\ Len(s) \in Nat /\ Len(s) > 0 /\ Head(s) = s[1]
      /\ DOMAIN Tail(s) = 1..(Len(s) - 1)
      /\ \A i \in 1..(Len(s) - 1) : Tail(s)[i] = s[i + 1]
    OBVIOUS
<1>2. Has(s, c) <=> Head(s).done = c \/ Has(Tail(s), c)
  <2>1. ASSUME NEW i \in 1..Len(s), s[i].done = c, i # 1
        PROVE  Has(Tail(s), c)
    <3>1. i - 1 \in 1..(Len(s) - 1) /\ Tail(s)[i - 1] = s[i]
        BY <1>1, <2>1
    <3> QED
        BY <1>1, <2>1, <3>1, Zenon DEF Has
  <2>2. Has(Tail(s), c) => Has(s, c)
      BY <1>1 DEF Has
  <2> QED
      BY <1>1, <2>1, <2>2 DEF Has
<1>3. ASSUME Once(s, c)
      PROVE  Once(Tail(s), c) /\ ~(Head(s).done = c /\ Has(Tail(s), c))
    BY <1>1, <1>3 DEF Has, Once
<1> QED
    BY <1>2, <1>3, Zenon

\* The queues of no and of one message.
LEMMA HasShort ==
    \A c \in Chans : /\ ~Has(<<>>, c) /\ Once(<<>>, c)
                     /\ \A m \in Msg : Has(<<m>>, c) <=> m.done = c
                     /\ \A m \in Msg : Once(<<m>>, c)
BY DEF Has, Once

\* One step of any goroutine keeps the account of each done channel.
LEMMA SignalStep ==
    TypeInv /\ StartInv /\ SignalInv /\ [Next]_vars => SignalInv'
<1> SUFFICES ASSUME TypeInv, StartInv, SignalInv, [Next]_vars, NEW c \in Chans
             PROVE  SignalInvOf(c)'
    BY Zenon DEF SignalInv
<1>0. /\ SignalInvOf(c)
      /\ outputQueue \in Seq(Msg) /\ sendQueue \in Seq(Msg) /\ queue.pending \in Seq(Msg)
      /\ queue \in QueueLocals /\ queue.waiting \in BOOLEAN
      /\ Held \in Seq(Msg) /\ signalled \in [Chans -> Nat] /\ signalled[c] \in Nat
      /\ c # NoChan
    BY PeerAssumption
       DEF SignalInv, TypeInv, ChanTypes, QueueTypes, QueueLocals, OutTypes,
           SignalTypes, Held,
           Chans, NoChan
\* No message and no signal moves.
<1>1. ASSUME UNCHANGED <<outputQueue, queue.pending, sendQueue, Held, signalled>>,
             NotSent(c)' => NotSent(c)
      PROVE  SignalInvOf(c)'
    BY <1>0, <1>1, Zenon DEF SignalInvOf
\* A message is sent to outputQueue: the owner of its channel sends it.
<1>2. ASSUME NEW m \in Msg, outputQueue' = Append(outputQueue, m),
             UNCHANGED <<queue.pending, sendQueue, Held, signalled>>,
             NotSent(c)' => NotSent(c), m.done = c => NotSent(c) /\ ~NotSent(c)'
      PROVE  SignalInvOf(c)'
    BY <1>0, <1>2, HasAppend, Zenon DEF SignalInvOf
\* A refused message is signalled by its owner.
<1>3. ASSUME UNCHANGED <<outputQueue, queue.pending, sendQueue, Held>>,
             NotSent(c) /\ ~NotSent(c)', signalled'[c] = signalled[c] + 1
      PROVE  SignalInvOf(c)'
  <2>1. signalled[c] = 0
      BY <1>0, <1>3, Zenon DEF SignalInvOf
  <2>2. signalled'[c] \in {0, 1}
      BY <1>3, <2>1
  <2> QED
      BY <1>0, <1>3, <2>2, Zenon DEF SignalInvOf
<1>4. ASSUME UNCHANGED <<outputQueue, queue.pending, sendQueue, Held>>,
             NotSent(c)' => NotSent(c), signalled'[c] = signalled[c]
      PROVE  SignalInvOf(c)'
    BY <1>0, <1>4, Zenon DEF SignalInvOf
\* queuePacket moves a message that came from outputQueue or that nobody waits for.
<1>5. ASSUME NEW m \in Msg, NEW STATE q, q \in QueueLocals, QueuePacket(m, q),
             q.pending = queue.pending, UNCHANGED <<out, in, caller, signalled>>,
             \/ m.done = NoChan /\ UNCHANGED outputQueue
             \/ outputQueue # <<>> /\ m = Head(outputQueue) /\ outputQueue' = Tail(outputQueue)
      PROVE  SignalInvOf(c)'
  <2>1. /\ Held' = Held /\ NotSent(c)' = NotSent(c)
      BY <1>5, Zenon DEF Held, NotSent
  <2>2. /\ Has(outputQueue', c) \/ m.done = c <=> Has(outputQueue, c)
        /\ Once(outputQueue, c) => Once(outputQueue', c)
        /\ Once(outputQueue, c) => ~(Has(outputQueue', c) /\ m.done = c)
    <3>1. CASE m.done = NoChan /\ UNCHANGED outputQueue
        BY <1>0, <3>1, Zenon
    <3>2. CASE /\ outputQueue # <<>> /\ m = Head(outputQueue)
               /\ outputQueue' = Tail(outputQueue)
        BY <1>0, <3>2, HasTail, Zenon
    <3> QED
        BY <1>5, <3>1, <3>2, Zenon
  <2>3. \/ sendQueue' = sendQueue /\ queue'.pending = Append(queue.pending, m)
        \/ sendQueue' = Append(sendQueue, m) /\ queue'.pending = queue.pending
      BY <1>0, <1>5, Zenon DEF QueuePacket, QueueLocals
  <2>4. /\ Has(Append(queue.pending, m), c) <=> Has(queue.pending, c) \/ m.done = c
        /\ Has(Append(sendQueue, m), c) <=> Has(sendQueue, c) \/ m.done = c
        /\ Once(queue.pending, c) /\ ~(Has(queue.pending, c) /\ m.done = c) =>
             Once(Append(queue.pending, m), c)
        /\ Once(sendQueue, c) /\ ~(Has(sendQueue, c) /\ m.done = c) =>
             Once(Append(sendQueue, m), c)
      BY <1>0, HasAppend, Zenon
  <2>5. signalled' = signalled
      BY <1>5, Zenon
  <2> QED
      BY <1>0, <2>1, <2>2, <2>3, <2>4, <2>5, Zenon DEF SignalInvOf
<1>6. CASE ExternalDisconnect
    BY <1>6, <1>1, Zenon DEF ExternalDisconnect, Held, NotSent, chanVars, callVars, histVars
<1>7. ASSUME NEW d \in Callers, QueueMessage(d)
      PROVE  SignalInvOf(c)'
  <2>1. /\ UNCHANGED <<outputQueue, queue, sendQueue, out, in>>
        /\ caller[d] = "call" /\ caller \in [Callers -> {"call", "send", "wait", "done"}]
      BY <1>7, Zenon DEF QueueMessage, chanVars, TypeInv, CallTypes
  <2>2. UNCHANGED Held
      BY <2>1, Zenon DEF Held
  <2>3. CASE Connected
    <3>1. signalled' = signalled /\ caller' = [caller EXCEPT ![d] = "send"]
        BY <1>7, <2>3, Zenon DEF QueueMessage
    <3>2. NotSent(c)' = NotSent(c)
        BY <2>1, <3>1 DEF NotSent, Chans
    <3> QED
        BY <1>1, <2>1, <2>2, <3>1, <3>2, Zenon
  <2>4. CASE ~Connected
    <3>1. /\ caller' = [caller EXCEPT ![d] = IF d \in Waiters THEN "wait" ELSE "done"]
          /\ signalled' = IF d \in Waiters THEN [signalled EXCEPT ![d] = @ + 1] ELSE signalled
        BY <1>7, <2>4, PeerAssumption, Zenon
           DEF QueueMessage, Signal, CallerMessage, Message, NoChan
    <3>2. CASE c = d
      <4>1. NotSent(c) /\ ~NotSent(c)' /\ signalled'[c] = signalled[c] + 1
          BY <1>0, <2>1, <3>1, <3>2, PeerAssumption, Zenon DEF NotSent, Chans
      <4> QED
          BY <1>3, <2>1, <2>2, <4>1, Zenon
    <3>3. CASE c # d
      <4>1. NotSent(c)' = NotSent(c) /\ signalled'[c] = signalled[c]
          BY <1>0, <2>1, <3>1, <3>3 DEF NotSent, Chans
      <4> QED
          BY <1>4, <2>1, <2>2, <4>1, Zenon
    <3> QED
        BY <3>2, <3>3, Zenon
  <2> QED
      BY <2>3, <2>4, Zenon
<1>8. ASSUME NEW d \in Callers, QueueMessageSend(d)
      PROVE  SignalInvOf(c)'
  <2>1. /\ outputQueue' = Append(outputQueue, CallerMessage(d))
        /\ UNCHANGED <<queue, sendQueue, out, in, signalled>>
        /\ caller[d] = "send" /\ caller \in [Callers -> {"call", "send", "wait", "done"}]
        /\ caller' = [caller EXCEPT ![d] = IF d \in Waiters THEN "wait" ELSE "done"]
      BY <1>8, Zenon DEF QueueMessageSend, PutOutput, TypeInv, CallTypes
  <2>2. UNCHANGED Held
      BY <2>1, Zenon DEF Held
  <2>3. /\ NotSent(c)' => NotSent(c)
        /\ CallerMessage(d).done = c => NotSent(c) /\ ~NotSent(c)'
      BY <1>0, <2>1, PeerAssumption, Zenon DEF NotSent, Chans, CallerMessage, Message
  <2> QED
      BY <1>2, <2>1, <2>2, <2>3, MessageTypes, Zenon
<1>9. ASSUME NEW d \in Callers, CallerReleased(d)
      PROVE  SignalInvOf(c)'
  <2>1. /\ UNCHANGED <<outputQueue, queue, sendQueue, out, in, signalled>>
        /\ caller[d] = "wait" /\ caller' = [caller EXCEPT ![d] = "done"]
        /\ caller \in [Callers -> {"call", "send", "wait", "done"}]
      BY <1>9, Zenon DEF CallerReleased, chanVars, TypeInv, CallTypes
  <2>2. NotSent(c)' => NotSent(c)
      BY <2>1, PeerAssumption, Zenon DEF NotSent, Chans
  <2> QED
      BY <1>1, <2>1, <2>2, Zenon DEF Held
<1>10. ASSUME NEW a \in Announcers, QueueInventory(a)
      PROVE  SignalInvOf(c)'
    BY <1>10, <1>1, Zenon DEF QueueInventory, Held, NotSent, chanVars, callVars, histVars
<1>11. ASSUME NEW a \in Announcers, QueueInventorySend(a)
      PROVE  SignalInvOf(c)'
  <2>1. /\ UNCHANGED <<queue.pending, sendQueue, Held, signalled>>
        /\ NotSent(c)' = NotSent(c)
      BY <1>11, Zenon DEF QueueInventorySend, PutOutput, Held, NotSent
  <2>2. CASE announcer[a].immediate
    <3>0. announcer[a].iv \in Inv
        BY <1>11, Zenon DEF QueueInventorySend, TypeInv, CallTypes
    <3>1. Message("inv", <<announcer[a].iv>>, NoChan) \in Msg
      <4>1. <<announcer[a].iv>> \in Seq(Inv)
          BY <3>0
      <4> QED
          BY <4>1, MessageTypes, Zenon
    <3>2. outputQueue' = Append(outputQueue, Message("inv", <<announcer[a].iv>>, NoChan))
        BY <1>11, <2>2, Zenon DEF QueueInventorySend, PutOutput
    <3> QED
        BY <1>0, <1>2, <2>1, <3>1, <3>2, Zenon DEF Message
  <2>3. CASE ~announcer[a].immediate
    <3>1. UNCHANGED outputQueue
        BY <1>11, <2>3, Zenon DEF QueueInventorySend
    <3> QED
        BY <1>1, <2>1, <3>1, Zenon
  <2> QED
      BY <2>2, <2>3, Zenon
<1>12. CASE StartHandlers
  <2>1. /\ UNCHANGED <<outputQueue, sendQueue, signalled, caller>>
        /\ queue'.pending = queue.pending
      BY <1>0, <1>12, Zenon DEF StartHandlers, QueueLocals, chanVars, callVars, histVars
  <2>2. Held = <<>> /\ Held' = <<>> /\ (NotSent(c)' => NotSent(c))
      BY <1>12, Zenon
         DEF StartHandlers, StartInv, TypeInv, OutTypes, InTypes, Held, NotSent,
             chanVars, callVars, histVars
  <2> QED
      BY <1>1, <2>1, <2>2, Zenon
<1>13. CASE StartFails
    BY <1>13, <1>1, Zenon DEF StartFails, Held, NotSent, chanVars, callVars, histVars
<1>14. CASE QueueVerAck
  <2>1. /\ UNCHANGED <<queue, sendQueue, signalled, caller>> /\ UNCHANGED Held
        /\ NotSent(c)' = NotSent(c)
      BY <1>14, Zenon DEF QueueVerAck, PutOutput, Held, NotSent, chanVars, callVars, histVars
  <2>2. \/ UNCHANGED outputQueue
        \/ outputQueue' = Append(outputQueue, Message("verack", "start", NoChan))
      BY <1>14, Zenon DEF QueueVerAck, PutOutput, chanVars
  <2> QED
      BY <1>0, <1>1, <1>2, <2>1, <2>2, MessageTypes, Zenon DEF Message
<1>15. CASE QueueTakeOutput
  <2>1. Head(outputQueue) \in Msg
      BY <1>0, <1>15 DEF QueueTakeOutput
  <2> QED
      BY <1>0, <1>5, <1>15, <2>1, Zenon DEF QueueTakeOutput, chanVars, callVars, histVars
<1>16. CASE QueueTakeDone
  <2>1. /\ UNCHANGED <<outputQueue, signalled, Held>> /\ NotSent(c)' = NotSent(c)
      BY <1>16, Zenon DEF QueueTakeDone, Held, NotSent, chanVars, callVars, histVars
  <2>2. CASE queue.pending = <<>>
    <3>1. sendQueue' = sendQueue /\ queue'.pending = queue.pending
        BY <1>0, <1>16, <2>2, Zenon DEF QueueTakeDone, QueueLocals
    <3> QED
        BY <1>1, <2>1, <3>1, Zenon
  <2>3. CASE queue.pending # <<>>
    <3>0. /\ sendQueue = <<>> /\ queue'.pending = Tail(queue.pending)
          /\ sendQueue' = <<Head(queue.pending)>>
        BY <1>0, <1>16, <2>3 DEF QueueTakeDone, QueueLocals
    <3>1. /\ Head(queue.pending) \in Msg
          /\ Has(<<Head(queue.pending)>>, c) <=> Head(queue.pending).done = c
          /\ Once(<<Head(queue.pending)>>, c)
          /\ Has(queue.pending, c) <=> Head(queue.pending).done = c \/ Has(Tail(queue.pending), c)
          /\ Once(queue.pending, c) => /\ Once(Tail(queue.pending), c)
                                       /\ ~(Head(queue.pending).done = c
                                              /\ Has(Tail(queue.pending), c))
        BY <1>0, <2>3, HasTail, HasShort
    <3> QED
        BY <1>0, <2>1, <3>0, <3>1, HasShort, Zenon DEF SignalInvOf
  <2> QED
      BY <2>2, <2>3, Zenon
<1>17. CASE QueueTakeInv
  <2>1. UNCHANGED <<outputQueue, queue.pending, sendQueue, out, in, caller, signalled>>
      BY <1>0, <1>17, Zenon DEF QueueTakeInv, QueueLocals, chanVars, callVars, histVars
  <2> QED
      BY <1>1, <2>1, Zenon DEF Held, NotSent
<1>18. CASE QueueTrickle
  <2>1. UNCHANGED <<outputQueue, queue.pending, sendQueue, out, in, caller, signalled>>
      BY <1>0, <1>18, Zenon DEF QueueTrickle, QueueLocals, chanVars, callVars, histVars
  <2> QED
      BY <1>1, <2>1, Zenon DEF Held, NotSent
<1>19. CASE TrickleCheck
  <2>1. UNCHANGED <<outputQueue, queue.pending, sendQueue, out, in, caller, signalled>>
      BY <1>0, <1>19, Zenon DEF TrickleCheck, QueueLocals, chanVars, callVars, histVars
  <2> QED
      BY <1>1, <2>1, Zenon DEF Held, NotSent
<1>20. CASE QueueQuit
  <2>1. UNCHANGED <<outputQueue, queue.pending, sendQueue, out, in, caller, signalled>>
      BY <1>0, <1>20, Zenon DEF QueueQuit, QueueLocals, chanVars, callVars, histVars
  <2> QED
      BY <1>1, <2>1, Zenon DEF Held, NotSent
<1>21. CASE TrickleRelay
  <2> DEFINE next == [queue EXCEPT !.pc = "trickle", !.invs = Tail(@)]
             sent == [next EXCEPT !.batch = <<>>]
  <2>1. /\ sent \in QueueLocals
        /\ sent.pending = queue.pending /\ next.pending = queue.pending
        /\ InvMessage(queue.batch) \in Msg /\ InvMessage(queue.batch).done = NoChan
    <3>1. /\ queue.batch \in Seq(Inv)
          /\ sent \in QueueLocals
          /\ sent.pending = queue.pending /\ next.pending = queue.pending
        BY <1>0, <1>21, SeqTypes, Zenon DEF TrickleRelay, TypeInv, QueueTypes, QueueLocals
    <3>2. InvMessage(queue.batch) \in Msg
        BY <3>1, MessageTypes, Zenon DEF InvMessage
    <3>3. InvMessage(queue.batch).done = NoChan
        BY Zenon DEF InvMessage, Message
    <3> QED
        BY <3>1, <3>2, <3>3, Zenon
  <2>2. /\ \/ QueuePacket(InvMessage(queue.batch), sent)
           \/ queue' = next /\ UNCHANGED sendQueue
        /\ UNCHANGED <<outputQueue, out, in, caller, signalled>>
      BY <1>21, Zenon DEF TrickleRelay, callVars
  <2> HIDE DEF next, sent
  <2>3. CASE QueuePacket(InvMessage(queue.batch), sent)
      BY <1>5, <2>1, <2>2, <2>3, Zenon
  <2>4. CASE queue' = next /\ UNCHANGED sendQueue
      BY <1>1, <2>1, <2>2, <2>4, Zenon DEF Held, NotSent
  <2> QED
      BY <2>2, <2>3, <2>4, Zenon
<1>22. CASE TrickleEnd
  <2> DEFINE next == [queue EXCEPT !.pc = "run"]
             sent == [next EXCEPT !.batch = <<>>]
  <2>1. /\ sent \in QueueLocals
        /\ sent.pending = queue.pending /\ next.pending = queue.pending
        /\ InvMessage(queue.batch) \in Msg /\ InvMessage(queue.batch).done = NoChan
    <3>1. /\ queue.batch \in Seq(Inv)
          /\ sent \in QueueLocals
          /\ sent.pending = queue.pending /\ next.pending = queue.pending
        BY <1>0, <1>22, SeqTypes, Zenon DEF TrickleEnd, TypeInv, QueueTypes, QueueLocals
    <3>2. InvMessage(queue.batch) \in Msg
        BY <3>1, MessageTypes, Zenon DEF InvMessage
    <3>3. InvMessage(queue.batch).done = NoChan
        BY Zenon DEF InvMessage, Message
    <3> QED
        BY <3>1, <3>2, <3>3, Zenon
  <2>2. /\ \/ QueuePacket(InvMessage(queue.batch), sent)
           \/ queue' = next /\ UNCHANGED sendQueue
        /\ UNCHANGED <<outputQueue, out, in, caller, signalled>>
      BY <1>22, Zenon DEF TrickleEnd, callVars
  <2> HIDE DEF next, sent
  <2>3. CASE QueuePacket(InvMessage(queue.batch), sent)
      BY <1>5, <2>1, <2>2, <2>3, Zenon
  <2>4. CASE queue' = next /\ UNCHANGED sendQueue
      BY <1>1, <2>1, <2>2, <2>4, Zenon DEF Held, NotSent
  <2> QED
      BY <2>2, <2>3, <2>4, Zenon
<1>23. CASE QueueDrain
  <2>1. /\ UNCHANGED <<outputQueue, sendQueue, Held>> /\ NotSent(c)' = NotSent(c)
      BY <1>0, <1>23, Zenon
         DEF QueueDrain, QueueLocals, Held, NotSent, chanVars, callVars, histVars
  <2>2. CASE UNCHANGED <<queue.pending, signalled>>
      BY <1>1, <2>1, <2>2, Zenon
  <2>3. CASE /\ queue.pending # <<>> /\ queue'.pending = Tail(queue.pending)
             /\ Signal(Head(queue.pending).done)
    <3>1. /\ Has(queue.pending, c) <=> Head(queue.pending).done = c \/ Has(queue'.pending, c)
          /\ Once(queue.pending, c) => /\ Once(queue'.pending, c)
                            /\ ~(Head(queue.pending).done = c /\ Has(queue'.pending, c))
        BY <1>0, <2>3, HasTail
    <3>2. CASE Head(queue.pending).done = c
      <4>1. signalled'[c] = signalled[c] + 1
          BY <1>0, <2>3, <3>2, Zenon DEF Signal
      <4>2. signalled[c] = 0
          BY <1>0, <3>1, <3>2, Zenon DEF SignalInvOf
      <4>3. signalled'[c] \in {0, 1}
          BY <4>1, <4>2
      <4> QED
          BY <1>0, <2>1, <3>1, <3>2, <4>3, Zenon DEF SignalInvOf
    <3>3. CASE Head(queue.pending).done # c
      <4>1. signalled'[c] = signalled[c]
          BY <1>0, <2>3, <3>3, Zenon DEF Signal
      <4> QED
          BY <1>0, <2>1, <3>1, <3>3, <4>1, Zenon DEF SignalInvOf
    <3> QED
        BY <3>2, <3>3, Zenon
  <2> QED
      BY <1>0, <1>23, <2>2, <2>3, Zenon DEF QueueDrain, QueueLocals
<1>24. CASE QueueCleanup
  <2>1. /\ UNCHANGED <<queue.pending, sendQueue, Held>> /\ NotSent(c)' = NotSent(c)
      BY <1>0, <1>24, Zenon
         DEF QueueCleanup, QueueLocals, Held, NotSent, chanVars, callVars, histVars
  <2>2. CASE UNCHANGED <<outputQueue, signalled>>
      BY <1>1, <2>1, <2>2, Zenon
  <2>3. CASE /\ outputQueue # <<>> /\ outputQueue' = Tail(outputQueue)
             /\ Signal(Head(outputQueue).done)
    <3>1. /\ Has(outputQueue, c) <=> Head(outputQueue).done = c \/ Has(outputQueue', c)
          /\ Once(outputQueue, c) => /\ Once(outputQueue', c)
                            /\ ~(Head(outputQueue).done = c /\ Has(outputQueue', c))
        BY <1>0, <2>3, HasTail, Zenon
    <3>2. CASE Head(outputQueue).done = c
      <4>1. signalled'[c] = signalled[c] + 1
          BY <1>0, <2>3, <3>2, Zenon DEF Signal
      <4>2. signalled[c] = 0
          BY <1>0, <3>1, <3>2, Zenon DEF SignalInvOf
      <4>3. signalled'[c] \in {0, 1}
          BY <4>1, <4>2
      <4> QED
          BY <1>0, <2>1, <3>1, <3>2, <4>3, Zenon DEF SignalInvOf
    <3>3. CASE Head(outputQueue).done # c
      <4>1. signalled'[c] = signalled[c]
          BY <1>0, <2>3, <3>3, Zenon DEF Signal
      <4> QED
          BY <1>0, <2>1, <3>1, <3>3, <4>1, Zenon DEF SignalInvOf
    <3> QED
        BY <3>2, <3>3, Zenon
  <2> QED
      BY <1>0, <1>24, <2>2, <2>3, Zenon DEF QueueCleanup, QueueLocals
<1>25. CASE OutTake
  <2>1. /\ UNCHANGED <<outputQueue, queue.pending, signalled>> /\ NotSent(c)' = NotSent(c)
        /\ sendQueue # <<>> /\ sendQueue' = Tail(sendQueue)
        /\ Held = <<>> /\ Held' = <<Head(sendQueue)>>
      BY <1>25, Zenon DEF OutTake, Held, NotSent, chanVars, callVars, histVars
  <2>2. /\ Has(sendQueue, c) <=> Head(sendQueue).done = c \/ Has(sendQueue', c)
        /\ Once(sendQueue, c) => /\ Once(sendQueue', c)
                                 /\ ~(Head(sendQueue).done = c /\ Has(sendQueue', c))
        /\ Has(Held', c) <=> Head(sendQueue).done = c
        /\ ~Has(Held, c)
    <3>1. Head(sendQueue) \in Msg
        BY <1>0, <2>1
    <3> QED
        BY <1>0, <2>1, <3>1, HasTail, HasShort, Zenon
  <2> QED
      BY <1>0, <2>1, <2>2, Zenon DEF SignalInvOf
<1>26. CASE OutStall
  <2>1. UNCHANGED <<outputQueue, queue, sendQueue, Held, in, caller, signalled>>
      BY <1>26, Zenon
         DEF OutStall, SendStall, TypeInv, OutTypes, Held, chanVars, callVars, histVars
  <2> QED
      BY <1>1, <2>1, Zenon DEF NotSent
<1>27. CASE OutWrite
  <2>1. UNCHANGED <<outputQueue, queue, sendQueue, Held, in, caller, signalled>>
      BY <1>27, Zenon
         DEF OutWrite, SendStall, TypeInv, OutTypes, Held, chanVars, callVars, histVars
  <2> QED
      BY <1>1, <2>1, Zenon DEF NotSent
<1>28. CASE OutWriteFails
  <2>1. /\ UNCHANGED <<outputQueue, queue.pending, sendQueue>> /\ NotSent(c)' = NotSent(c)
        /\ Held = out.msg /\ Held' = <<>> /\ Signal(out.msg[1].done)
      BY <1>28, Zenon DEF OutWriteFails, Held, NotSent, chanVars, callVars, histVars
  <2>2. PICK m \in Msg : out.msg = <<m>>
      BY <1>28 DEF OutWriteFails, TypeInv, OutTypes
  <2>3. (Has(Held, c) <=> m.done = c) /\ out.msg[1] = m
      BY <2>1, <2>2, HasShort
  <2>4. ~Has(Held', c)
      BY <2>1, HasShort, Zenon
  <2>5. CASE m.done = c
    <3>1. signalled'[c] = signalled[c] + 1
        BY <1>0, <2>1, <2>3, <2>5, Zenon DEF Signal
    <3>2. signalled[c] = 0
        BY <1>0, <2>3, <2>5, Zenon DEF SignalInvOf
    <3>3. signalled'[c] \in {0, 1}
        BY <3>1, <3>2
    <3> QED
        BY <1>0, <2>1, <2>3, <2>4, <2>5, <3>3, Zenon DEF SignalInvOf
  <2>6. CASE m.done # c
    <3>1. signalled'[c] = signalled[c]
        BY <1>0, <2>1, <2>3, <2>6, Zenon DEF Signal
    <3> QED
        BY <1>0, <2>1, <2>3, <2>4, <2>6, <3>1, Zenon DEF SignalInvOf
  <2> QED
      BY <2>5, <2>6, Zenon
<1>29. CASE OutSent
  <2>1. /\ UNCHANGED <<outputQueue, queue.pending, sendQueue>> /\ NotSent(c)' = NotSent(c)
        /\ Held = out.msg /\ Held' = <<>> /\ Signal(out.msg[1].done)
      BY <1>29, Zenon DEF OutSent, Held, NotSent, chanVars, callVars, histVars
  <2>2. PICK m \in Msg : out.msg = <<m>>
      BY <1>29, SMTT(30) DEF OutSent, TypeInv, OutTypes
  <2>3. (Has(Held, c) <=> m.done = c) /\ out.msg[1] = m
      BY <2>1, <2>2, HasShort
  <2>4. ~Has(Held', c)
      BY <2>1, HasShort, Zenon
  <2>5. CASE m.done = c
    <3>1. signalled'[c] = signalled[c] + 1
        BY <1>0, <2>1, <2>3, <2>5, Zenon DEF Signal
    <3>2. signalled[c] = 0
        BY <1>0, <2>3, <2>5, Zenon DEF SignalInvOf
    <3>3. signalled'[c] \in {0, 1}
        BY <3>1, <3>2
    <3> QED
        BY <1>0, <2>1, <2>3, <2>4, <2>5, <3>3, Zenon DEF SignalInvOf
  <2>6. CASE m.done # c
    <3>1. signalled'[c] = signalled[c]
        BY <1>0, <2>1, <2>3, <2>6, Zenon DEF Signal
    <3> QED
        BY <1>0, <2>1, <2>3, <2>4, <2>6, <3>1, Zenon DEF SignalInvOf
  <2> QED
      BY <2>5, <2>6, Zenon
<1>30. CASE OutPing
  <2>1. /\ UNCHANGED <<queue, sendQueue, signalled, caller, in>>
        /\ out.pc \in {"run", "ping"} /\ out'.pc \in {"run", "ping"}
      BY <1>30, Zenon DEF OutPing, PutOutput, TypeInv, OutTypes, chanVars, callVars, histVars
  <2>2. /\ UNCHANGED Held /\ NotSent(c)' = NotSent(c)
      BY <2>1, Zenon DEF Held, NotSent
  <2>3. \/ UNCHANGED outputQueue
        \/ outputQueue' = Append(outputQueue, Message("ping", "out", NoChan))
      BY <1>30, Zenon DEF OutPing, PutOutput, chanVars
  <2> QED
      BY <1>0, <1>1, <1>2, <2>1, <2>2, <2>3, MessageTypes, Zenon DEF Message
<1>31. CASE OutQuit
  <2>1. /\ UNCHANGED <<outputQueue, queue, sendQueue, in, caller, signalled>>
        /\ Held = <<>> /\ Held' = <<>>
      BY <1>31, Zenon DEF OutQuit, TypeInv, OutTypes, Held, chanVars, callVars, histVars
  <2> QED
      BY <1>1, <2>1, Zenon DEF NotSent
<1>32. CASE OutCleanup
  <2>1. /\ UNCHANGED <<outputQueue, queue.pending, Held>> /\ NotSent(c)' = NotSent(c)
      BY <1>0, <1>32, Zenon
         DEF OutCleanup, QueueLocals, TypeInv, OutTypes, Held, NotSent, chanVars,
             callVars, histVars
  <2>2. CASE UNCHANGED <<sendQueue, signalled>>
      BY <1>1, <2>1, <2>2, Zenon
  <2>3. CASE /\ sendQueue # <<>> /\ sendQueue' = Tail(sendQueue)
             /\ Signal(Head(sendQueue).done)
    <3>1. /\ Has(sendQueue, c) <=> Head(sendQueue).done = c \/ Has(sendQueue', c)
          /\ Once(sendQueue, c) => /\ Once(sendQueue', c)
                            /\ ~(Head(sendQueue).done = c /\ Has(sendQueue', c))
        BY <1>0, <2>3, HasTail, Zenon
    <3>2. CASE Head(sendQueue).done = c
      <4>1. signalled'[c] = signalled[c] + 1
          BY <1>0, <2>3, <3>2, Zenon DEF Signal
      <4>2. signalled[c] = 0
          BY <1>0, <3>1, <3>2, Zenon DEF SignalInvOf
      <4>3. signalled'[c] \in {0, 1}
          BY <4>1, <4>2
      <4> QED
          BY <1>0, <2>1, <3>1, <3>2, <4>3, Zenon DEF SignalInvOf
    <3>3. CASE Head(sendQueue).done # c
      <4>1. signalled'[c] = signalled[c]
          BY <1>0, <2>3, <3>3, Zenon DEF Signal
      <4> QED
          BY <1>0, <2>1, <3>1, <3>3, <4>1, Zenon DEF SignalInvOf
    <3> QED
        BY <3>2, <3>3, Zenon
  <2> QED
      BY <1>0, <1>32, <2>2, <2>3, Zenon DEF OutCleanup, QueueLocals
<1>33. CASE InRead
  <2>1. UNCHANGED <<outputQueue, queue, sendQueue, Held, caller, signalled>>
      BY <1>33, Zenon DEF InRead, SendStall, Held, chanVars, callVars, histVars
  <2>2. NotSent(c)' => NotSent(c)
      BY <1>33, Zenon DEF InRead, InGoto, TypeInv, InTypes, NotSent, callVars
  <2> QED
      BY <1>1, <2>1, <2>2, Zenon
<1>34. CASE InStall
  <2>1. UNCHANGED <<outputQueue, queue, sendQueue, Held, caller, signalled>>
      BY <1>34, Zenon DEF InStall, SendStall, Held, chanVars, callVars, histVars
  <2>2. NotSent(c)' => NotSent(c)
      BY <1>34, Zenon DEF InStall, InGoto, TypeInv, InTypes, NotSent, callVars
  <2> QED
      BY <1>1, <2>1, <2>2, Zenon
<1>35. CASE InHandle
  <2>1. UNCHANGED <<outputQueue, queue, sendQueue, Held, caller, signalled>>
      BY <1>35, Zenon DEF InHandle, SendStall, Held, chanVars, callVars, histVars
  <2>2. NotSent(c)' => NotSent(c)
      BY <1>35, Zenon DEF InHandle, InGoto, TypeInv, InTypes, NotSent, callVars
  <2> QED
      BY <1>1, <2>1, <2>2, Zenon
<1>36. CASE InPong
  <2>1. /\ UNCHANGED <<queue, sendQueue, signalled, caller, Held>>
        /\ outputQueue' = Append(outputQueue, Message("pong", "in", NoChan))
      BY <1>36, Zenon DEF InPong, PutOutput, Held, chanVars, callVars, histVars
  <2>2. NotSent(c)' => NotSent(c)
      BY <1>36, Zenon DEF InPong, InGoto, TypeInv, InTypes, NotSent, callVars
  <2> QED
      BY <1>0, <1>2, <2>1, <2>2, MessageTypes, Zenon DEF Message
<1>37. CASE InReject
  <2>1. UNCHANGED <<queue, sendQueue, Held, caller>>
      BY <1>37, Zenon DEF InReject, PutOutput, Held, chanVars, callVars, histVars
  <2>2. CASE in.pc = "reject" /\ Connected
    <3>1. /\ UNCHANGED <<outputQueue, signalled>> /\ (NotSent(c)' => NotSent(c))
        BY <1>37, <2>2, Zenon
           DEF InReject, InGoto, TypeInv, InTypes, NotSent, chanVars, callVars, histVars
    <3> QED
        BY <1>1, <2>1, <3>1, Zenon
  <2>3. CASE in.pc = "reject" /\ ~Connected
    <3>1. /\ UNCHANGED outputQueue /\ Signal("reject") /\ in'.pc = "rejectWait"
        BY <1>37, <2>3, Zenon DEF InReject, InGoto, TypeInv, InTypes, chanVars
    <3>2. CASE c = "reject"
      <4>1. NotSent(c) /\ ~NotSent(c)' /\ signalled'[c] = signalled[c] + 1
          BY <1>0, <2>3, <3>1, <3>2, Zenon DEF NotSent, Signal
      <4> QED
          BY <1>3, <2>1, <3>1, <4>1, Zenon
    <3>3. CASE c # "reject"
      <4>1. NotSent(c)' = NotSent(c) /\ signalled'[c] = signalled[c]
          BY <1>0, <2>1, <3>1, <3>3, Zenon DEF NotSent, Signal
      <4> QED
          BY <1>4, <2>1, <3>1, <4>1, Zenon
    <3> QED
        BY <3>2, <3>3, Zenon
  <2>4. CASE in.pc = "rejectSend"
    <3>1. /\ UNCHANGED signalled /\ in'.pc = "rejectWait"
          /\ outputQueue' = Append(outputQueue, Message("reject", "in", "reject"))
        BY <1>37, <2>4, Zenon DEF InReject, PutOutput, InGoto, TypeInv, InTypes
    <3>2. /\ NotSent(c)' => NotSent(c)
          /\ Message("reject", "in", "reject").done = c => NotSent(c) /\ ~NotSent(c)'
        BY <2>1, <2>4, <3>1, Zenon DEF NotSent, Message
    <3> QED
        BY <1>2, <2>1, <3>1, <3>2, MessageTypes, Zenon
  <2>5. CASE in.pc = "rejectWait"
    <3>1. /\ UNCHANGED <<outputQueue, signalled>> /\ (NotSent(c)' => NotSent(c))
        BY <1>37, <2>5, Zenon
           DEF InReject, InGoto, TypeInv, InTypes, NotSent, chanVars, callVars, histVars
    <3> QED
        BY <1>1, <2>1, <3>1, Zenon
  <2> QED
      BY <1>37, <2>2, <2>3, <2>4, <2>5, Zenon DEF InReject
<1>38. CASE InExit
  <2>1. UNCHANGED <<outputQueue, queue, sendQueue, Held, caller, signalled>>
      BY <1>38, Zenon DEF InExit, SendStall, Held, chanVars, callVars, histVars
  <2>2. NotSent(c)' => NotSent(c)
      BY <1>38, Zenon DEF InExit, InGoto, TypeInv, InTypes, NotSent, callVars
  <2> QED
      BY <1>1, <2>1, <2>2, Zenon
<1>39. CASE StallControl
    BY <1>39, <1>1, Zenon DEF StallControl, Held, NotSent, chanVars, callVars, histVars
<1>40. CASE StallTick
    BY <1>40, <1>1, Zenon DEF StallTick, Held, NotSent, chanVars, callVars, histVars
<1>41. CASE StallIoStopped
    BY <1>41, <1>1, Zenon DEF StallIoStopped, Held, NotSent, chanVars, callVars, histVars
<1>42. CASE StallCleanup
    BY <1>42, <1>1, Zenon DEF StallCleanup, Held, NotSent, chanVars, callVars, histVars
<1>43. CASE UNCHANGED vars
    BY <1>43, <1>1, Zenon DEF vars, Held, NotSent, chanVars, callVars, histVars
<1> QED
    BY <1>6, <1>7, <1>8, <1>9, <1>10, <1>11, <1>12, <1>13, <1>14, <1>15, <1>16,
       <1>17, <1>18, <1>19, <1>20, <1>21, <1>22, <1>23, <1>24, <1>25, <1>26,
       <1>27, <1>28, <1>29, <1>30, <1>31, <1>32, <1>33, <1>34, <1>35, <1>36,
       <1>37, <1>38, <1>39, <1>40, <1>41, <1>42, <1>43, Zenon
       DEF Next, CallerStep, StartStep, QueueStep, TrickleStep, OutStep, InStep, StallStep

-----------------------------------------------------------------------------
(***************************************************************************)
(* The callbacks stallHandler sees.                                         *)
(***************************************************************************)
\* A command sent to stallHandler is the only one in its channel.
LEMMA SendStallCommand ==
    ASSUME StallTypes, NEW cmd \in {"send", "receive", "start", "done"},
           NEW STATE kind, kind \in Kinds \cup Received \cup {"eof"}, SendStall(cmd, kind),
           UNCHANGED stall
    PROVE  StallTypes' /\ StallCommand = "none" /\ StallCommand' = cmd
<1>1. stallControl = <<>>
    BY DEF SendStall, StallTypes
<1>2. stallControl' = <<[command |-> cmd, kind |-> kind]>>
    BY <1>1 DEF SendStall
<1> QED
    BY <1>1, <1>2 DEF StallTypes, StallCommand, StallCommands

\* A sequence of one element.
LEMMA ShortSeq ==
    \A s \in Seq(StallCommands) : s # <<>> /\ Len(s) <= 1 =>
        Len(s) = 1 /\ Tail(s) = <<>> /\ Head(s) = s[1] /\ s[1] \in StallCommands
<1> SUFFICES ASSUME NEW s \in Seq(StallCommands), s # <<>>, Len(s) <= 1
             PROVE  Len(s) = 1 /\ Tail(s) = <<>> /\ Head(s) = s[1] /\ s[1] \in StallCommands
    BY Zenon
<1>0. \A t \in Seq(StallCommands) : t # <<>> => Len(t) \in Nat \ {0}
    OBVIOUS
<1>1. Len(s) = 1
  <2>1. Len(s) \in Nat /\ Len(s) # 0
      BY <1>0, Zenon
  <2> QED
      BY <2>1
<1>2. Tail(s) = <<>>
  <2>1. Tail(s) \in Seq(StallCommands) /\ Len(Tail(s)) = 0
      BY <1>1
  <2> QED
      BY <1>0, <2>1, Zenon
<1>3. Head(s) = s[1] /\ s[1] \in StallCommands
    BY <1>1
<1> QED
    BY <1>1, <1>2, <1>3, Zenon

\* A command taken from the channel leaves it empty.
LEMMA TakeStallCommand ==
    ASSUME StallTypes, stallControl # <<>>, stallControl' = Tail(stallControl)
    PROVE  /\ stallControl' = <<>> /\ StallCommand' = "none"
           /\ StallCommand = Head(stallControl).command
           /\ StallCommand \in {"send", "receive", "start", "done"}
<1>1. /\ Len(stallControl) = 1 /\ Tail(stallControl) = <<>>
      /\ Head(stallControl) = stallControl[1] /\ stallControl[1] \in StallCommands
    BY ShortSeq, Zenon DEF StallTypes
<1>2. stallControl' = <<>>
    BY <1>1, Zenon
<1>3. StallCommand' = "none"
    BY <1>2, Zenon DEF StallCommand
<1>4. StallCommand = stallControl[1].command
    BY Zenon DEF StallCommand
<1>5. stallControl[1].command \in {"send", "receive", "start", "done"}
    BY <1>1, Zenon DEF StallCommands
<1> QED
    BY <1>1, <1>2, <1>3, <1>4, <1>5, Zenon

\* One step of any goroutine keeps the balance.
LEMMA BalanceStep == TypeInv /\ StartInv /\ BalanceInv /\ [Next]_vars => BalanceInv'
<1> SUFFICES ASSUME TypeInv, StartInv, BalanceInv, [Next]_vars
             PROVE  BalanceInv'
    BY Zenon
<1>0. /\ StallTypes /\ stall \in StallState
      /\ in \in [pc : {"off", "read", "receive", "start", "handle", "pong", "reject",
                       "rejectSend", "rejectWait", "finish", "exit", "exited"},
                 msg : Received \cup {"eof"}, verAck : BOOLEAN]
    BY Zenon DEF BalanceInv, StallTypes, TypeInv, InTypes
<1>1. ASSUME UNCHANGED <<stallControl, stall, in>>
      PROVE  BalanceInv'
    BY <1>1, Zenon DEF BalanceInv, StallTypes, StallCommand, InCallback
\* inHandler goes on without entering or leaving the callback.
<1>2. ASSUME UNCHANGED <<stallControl, stall>>,
             in'.pc \in {"exit", "exited"} \/ InCallback' = InCallback,
             in.pc \in {"exit", "exited"} => in'.pc \in {"exit", "exited"}
      PROVE  BalanceInv'
    BY <1>2 DEF BalanceInv, StallTypes, StallCommand
<1>3. CASE ExternalDisconnect
    BY <1>3, <1>1, Zenon DEF ExternalDisconnect, chanVars, callVars, histVars
<1>4. ASSUME NEW c \in Callers, QueueMessage(c)
      PROVE  BalanceInv'
    BY <1>4, <1>1, Zenon DEF QueueMessage, chanVars, callVars, histVars
<1>5. ASSUME NEW c \in Callers, QueueMessageSend(c)
      PROVE  BalanceInv'
    BY <1>5, <1>1, Zenon DEF QueueMessageSend, PutOutput, chanVars, callVars, histVars
<1>6. ASSUME NEW c \in Callers, CallerReleased(c)
      PROVE  BalanceInv'
    BY <1>6, <1>1, Zenon DEF CallerReleased, chanVars, callVars, histVars
<1>7. ASSUME NEW a \in Announcers, QueueInventory(a)
      PROVE  BalanceInv'
    BY <1>7, <1>1, Zenon DEF QueueInventory, chanVars, callVars, histVars
<1>8. ASSUME NEW a \in Announcers, QueueInventorySend(a)
      PROVE  BalanceInv'
    BY <1>8, <1>1, Zenon DEF QueueInventorySend, PutOutput, chanVars, callVars, histVars
<1>9. CASE StartFails
    BY <1>9, <1>1, Zenon DEF StartFails, chanVars, callVars, histVars
<1>10. CASE QueueVerAck
    BY <1>10, <1>1, Zenon DEF QueueVerAck, PutOutput, chanVars, callVars, histVars
<1>11. CASE QueueTakeOutput
    BY <1>11, <1>1, Zenon DEF QueueTakeOutput, chanVars, callVars, histVars
<1>12. CASE QueueTakeDone
    BY <1>12, <1>1, Zenon DEF QueueTakeDone, chanVars, callVars, histVars
<1>13. CASE QueueTakeInv
    BY <1>13, <1>1, Zenon DEF QueueTakeInv, chanVars, callVars, histVars
<1>14. CASE QueueTrickle
    BY <1>14, <1>1, Zenon DEF QueueTrickle, chanVars, callVars, histVars
<1>15. CASE TrickleCheck
    BY <1>15, <1>1, Zenon DEF TrickleCheck, chanVars, callVars, histVars
<1>16. CASE TrickleRelay
    BY <1>16, <1>1, Zenon DEF TrickleRelay, chanVars, callVars, histVars
<1>17. CASE TrickleEnd
    BY <1>17, <1>1, Zenon DEF TrickleEnd, chanVars, callVars, histVars
<1>18. CASE QueueQuit
    BY <1>18, <1>1, Zenon DEF QueueQuit, chanVars, callVars, histVars
<1>19. CASE QueueDrain
    BY <1>19, <1>1, Zenon DEF QueueDrain, chanVars, callVars, histVars
<1>20. CASE QueueCleanup
    BY <1>20, <1>1, Zenon DEF QueueCleanup, chanVars, callVars, histVars
<1>21. CASE OutTake
    BY <1>21, <1>1, Zenon DEF OutTake, chanVars, callVars, histVars
<1>22. CASE OutWrite
    BY <1>22, <1>1, Zenon DEF OutWrite, chanVars, callVars, histVars
<1>23. CASE OutWriteFails
    BY <1>23, <1>1, Zenon DEF OutWriteFails, chanVars, callVars, histVars
<1>24. CASE OutSent
    BY <1>24, <1>1, Zenon DEF OutSent, chanVars, callVars, histVars
<1>25. CASE OutPing
    BY <1>25, <1>1, Zenon DEF OutPing, PutOutput, chanVars, callVars, histVars
<1>26. CASE OutQuit
    BY <1>26, <1>1, Zenon DEF OutQuit, chanVars, callVars, histVars
<1>27. CASE OutCleanup
    BY <1>27, <1>1, Zenon DEF OutCleanup, chanVars, callVars, histVars
<1>28. CASE StallTick
    BY <1>28, <1>1, Zenon DEF StallTick, chanVars, callVars, histVars
<1>29. CASE UNCHANGED vars
    BY <1>29, <1>1, Zenon DEF vars, chanVars, callVars, histVars
<1>30. CASE StartHandlers
  <2>1. /\ UNCHANGED stallControl /\ in.pc = "off" /\ in'.pc = "read"
        /\ stall.pc = "off" /\ stall' = [stall EXCEPT !.pc = "run"]
      BY <1>0, <1>30, Zenon DEF StartHandlers, StartInv, chanVars
  <2>2. /\ stall' \in StallState /\ stall'.pc = "run" /\ stall'.active = stall.active
        /\ stall'.unbalanced = stall.unbalanced
      BY <1>0, <2>1, Zenon DEF StallState
  <2>3. ~InCallback /\ ~InCallback' /\ StallCommand' = StallCommand
      BY <2>1, Zenon DEF InCallback, StallCommand
  <2> QED
      BY <2>1, <2>2, <2>3, Zenon DEF BalanceInv, StallTypes
<1>31. CASE OutStall
  <2>1. out.msg[1].kind \in Kinds \cup Received \cup {"eof"}
    <3>1. out.msg[1] \in Msg
        BY <1>31 DEF OutStall, TypeInv, OutTypes
    <3> QED
        BY <3>1, Zenon DEF Msg
  <2>2. StallTypes' /\ StallCommand = "none" /\ StallCommand' = "send"
      BY <1>0, <1>31, <2>1, SendStallCommand, Zenon DEF OutStall
  <2>3. UNCHANGED <<stall, in>>
      BY <1>31, Zenon DEF OutStall
  <2> QED
      BY <2>2, <2>3, Zenon DEF BalanceInv, InCallback
<1>32. CASE InRead
  <2>1. /\ UNCHANGED <<stallControl, stall>> /\ ~InCallback /\ in.pc = "read"
      BY <1>32, Zenon DEF InRead, InCallback, chanVars
  <2>2. \/ in'.pc = "exit" \/ in'.pc = "receive"
        \/ in'.pc = "reject" /\ in'.msg = "malformed"
    <3>1. CASE disconnect
        BY <1>0, <1>32, <3>1, Zenon DEF InRead, InGoto
    <3>2. CASE ~disconnect
      <4>1. PICK kind \in Received :
                in' = [in EXCEPT !.msg = kind,
                                 !.pc = CASE kind = "eof" -> "exit"
                                          [] kind = "malformed" -> "reject"
                                          [] OTHER -> "receive"]
          BY <1>32, <3>2, Zenon DEF InRead
      <4> QED
          BY <1>0, <4>1, Zenon
    <3> QED
        BY <3>1, <3>2, Zenon
  <2> QED
      BY <1>2, <2>1, <2>2, Zenon DEF InCallback
<1>33. CASE InStall
  <2>0. in.msg \in Kinds \cup Received \cup {"eof"} /\ UNCHANGED stall
      BY <1>0, <1>33, Zenon DEF InStall
  <2>1. CASE in.pc = "receive"
    <3>1. StallTypes' /\ StallCommand = "none" /\ StallCommand' = "receive"
        BY <1>0, <1>33, <2>0, <2>1, SendStallCommand, Zenon DEF InStall
    <3>2. ~InCallback /\ ~InCallback' /\ in'.pc = "start"
        BY <1>0, <1>33, <2>1, Zenon DEF InStall, InGoto, InCallback
    <3> QED
        BY <2>0, <2>1, <3>1, <3>2, Zenon DEF BalanceInv
  <2>2. CASE in.pc = "start"
    <3>1. StallTypes' /\ StallCommand = "none" /\ StallCommand' = "start"
        BY <1>0, <1>33, <2>0, <2>2, SendStallCommand, Zenon DEF InStall
    <3>2. ~InCallback /\ InCallback' /\ in'.pc = "handle"
        BY <1>0, <1>33, <2>2, Zenon DEF InStall, InGoto, InCallback
    <3> QED
        BY <2>0, <2>2, <3>1, <3>2, Zenon DEF BalanceInv
  <2>3. CASE in.pc = "finish"
    <3>1. StallTypes' /\ StallCommand = "none" /\ StallCommand' = "done"
        BY <1>0, <1>33, <2>0, <2>3, SendStallCommand, Zenon DEF InStall
    <3>2. InCallback /\ ~InCallback' /\ in'.pc = "read"
        BY <1>0, <1>33, <2>3, Zenon DEF InStall, InGoto, InCallback
    <3> QED
        BY <2>0, <2>3, <3>1, <3>2, Zenon DEF BalanceInv
  <2> QED
      BY <1>33, <2>1, <2>2, <2>3, Zenon DEF InStall
<1>34. CASE InHandle
  <2>1. /\ UNCHANGED <<stallControl, stall>> /\ InCallback /\ in.pc = "handle"
      BY <1>34, Zenon DEF InHandle, InCallback, chanVars
  <2>2. in'.pc = "exit" \/ InCallback'
      BY <1>0, <1>34, Zenon DEF InHandle, InGoto, InCallback
  <2> QED
      BY <1>2, <2>1, <2>2, Zenon
<1>35. CASE InPong
  <2>1. /\ UNCHANGED <<stallControl, stall>> /\ in.pc = "pong" /\ in'.pc = "finish"
      BY <1>0, <1>35, Zenon DEF InPong, InGoto, PutOutput
  <2> QED
      BY <1>2, <2>1, Zenon DEF InCallback
<1>36. CASE InReject
  <2>1. /\ UNCHANGED <<stallControl, stall>> /\ in'.msg = in.msg
        /\ in.pc \in {"reject", "rejectSend", "rejectWait"}
        /\ in'.pc \in {"reject", "rejectSend", "rejectWait", "exit"}
      BY <1>0, <1>36, Zenon DEF InReject, InGoto, PutOutput, chanVars
  <2> QED
      BY <1>2, <2>1, Zenon DEF InCallback
<1>37. CASE InExit
  <2>1. /\ UNCHANGED <<stallControl, stall>> /\ in'.pc = "exited"
      BY <1>0, <1>37, Zenon DEF InExit, InGoto, chanVars
  <2> QED
      BY <1>2, <2>1, Zenon
<1>38. CASE StallControl
  <2>1. /\ stall.pc = "run" /\ stallControl # <<>> /\ stallControl' = Tail(stallControl)
        /\ UNCHANGED in
      BY <1>38, Zenon DEF StallControl
  <2>2. /\ stallControl' = <<>> /\ StallCommand' = "none"
        /\ StallCommand = Head(stallControl).command
        /\ StallCommand \in {"send", "receive", "start", "done"}
      BY <1>0, <2>1, TakeStallCommand, Zenon
  <2>3. Expected(Head(stallControl).kind) \subseteq Responses
      BY Zenon DEF Expected, Responses
  <2>4. /\ stall' \in StallState /\ stall'.pc = "run"
        /\ stall'.active = (IF StallCommand = "start" THEN TRUE
                            ELSE IF StallCommand = "done" THEN FALSE ELSE stall.active)
        /\ stall'.unbalanced = (\/ stall.unbalanced
                                \/ StallCommand = "start" /\ stall.active
                                \/ StallCommand = "done" /\ ~stall.active)
    <3>1. CASE StallCommand = "send"
        BY <1>0, <1>38, <2>1, <2>2, <2>3, <3>1, Zenon DEF StallControl, StallState
    <3>2. CASE StallCommand = "receive"
        BY <1>0, <1>38, <2>1, <2>2, <3>2, Zenon DEF StallControl, StallState
    <3>3. CASE StallCommand = "start"
        BY <1>0, <1>38, <2>1, <2>2, <3>3, Zenon DEF StallControl, StallState
    <3>4. CASE StallCommand = "done"
        BY <1>0, <1>38, <2>1, <2>2, <3>4, Zenon DEF StallControl, StallState
    <3> QED
        BY <2>2, <3>1, <3>2, <3>3, <3>4, Zenon
  <2>5. InCallback' = InCallback
      BY <2>1, Zenon DEF InCallback
  <2> QED
      BY <2>1, <2>2, <2>4, <2>5 DEF BalanceInv, StallTypes
<1>39. CASE StallIoStopped
  <2>1. /\ UNCHANGED <<stallControl, in>> /\ stall' \in StallState
        /\ stall'.pc \in {"run", "cleanup"} /\ stall'.active = stall.active
        /\ stall'.unbalanced = stall.unbalanced /\ stall.pc = "run"
      BY <1>0, <1>39, Zenon DEF StallIoStopped, StallState, chanVars
  <2> QED
      BY <2>1, Zenon DEF BalanceInv, StallTypes, StallCommand, InCallback
<1>40. CASE StallCleanup
  <2>1. /\ UNCHANGED in /\ stall' \in StallState /\ stall'.pc \in {"cleanup", "exited"}
        /\ stall'.unbalanced = stall.unbalanced
      BY <1>0, <1>40, Zenon DEF StallCleanup, StallState
  <2>2. \/ stallControl' = stallControl
        \/ stallControl # <<>> /\ stallControl' = Tail(stallControl)
      BY <1>40, Zenon DEF StallCleanup
  <2>3. stallControl' = stallControl \/ stallControl' = <<>>
      BY <1>0, <2>2, TakeStallCommand, Zenon
  <2>4. stallControl' \in Seq(StallCommands) /\ Len(stallControl') <= 1
    <3>1. CASE stallControl' = stallControl
        BY <1>0, <3>1, Zenon DEF StallTypes
    <3>2. CASE stallControl' = <<>>
        BY <3>2
    <3> QED
        BY <2>3, <3>1, <3>2, Zenon
  <2>5. StallTypes'
      BY <2>1, <2>4, Zenon DEF StallTypes
  <2> QED
      BY <2>1, <2>5, Zenon DEF BalanceInv
<1> QED
    BY <1>3, <1>4, <1>5, <1>6, <1>7, <1>8, <1>9, <1>10, <1>11, <1>12, <1>13,
       <1>14, <1>15, <1>16, <1>17, <1>18, <1>19, <1>20, <1>21, <1>22, <1>23,
       <1>24, <1>25, <1>26, <1>27, <1>28, <1>29, <1>30, <1>31, <1>32, <1>33,
       <1>34, <1>35, <1>36, <1>37, <1>38, <1>39, <1>40, Zenon
       DEF Next, CallerStep, StartStep, QueueStep, TrickleStep, OutStep, InStep, StallStep

-----------------------------------------------------------------------------
(***************************************************************************)
(* The theorems.                                                            *)
(***************************************************************************)
PeerInv == TypeInv /\ StartInv /\ DrainInv /\ HandoverInv /\ SignalInv /\ BalanceInv

\* What newPeerBase makes satisfies the invariant.
LEMMA InitInv == Init => PeerInv
<1> SUFFICES ASSUME Init
             PROVE  PeerInv
    BY Zenon
<1> USE DEF Init
<1>1. TypeInv
  <2>1. ChanTypes
    <3>1. <<>> \in Seq(Msg) /\ <<>> \in Seq(Inv)
        OBVIOUS
    <3>2. /\ outputQueue = <<>> /\ sendQueue = <<>> /\ outputInvChan = <<>>
          /\ sendDoneQueue = 0 /\ disconnect = FALSE
        BY Zenon
    <3> HIDE DEF Init
    <3> QED
        BY <3>1, <3>2, Zenon DEF ChanTypes
  <2>2. QueueTypes
      BY DEF QueueTypes, QueueLocals
  <2>3. OutTypes
      BY DEF OutTypes
  <2>4. InTypes
      BY Zenon DEF InTypes
  <2>5. CallTypes
      BY Zenon DEF CallTypes, Idle
  <2>6. SignalTypes
      BY Zenon DEF SignalTypes
  <2> QED
      BY <2>1, <2>2, <2>3, <2>4, <2>5, <2>6, Zenon DEF TypeInv
<1>2. StartInv /\ DrainInv
    BY Zenon DEF StartInv, DrainInv
<1>3. HandoverInv
    BY DEF HandoverInv, OneInFlight, InFlight, QuitInv, OwedInv, Unwritten
<1>4. SignalInv
  <2> SUFFICES ASSUME NEW c \in Chans
               PROVE  SignalInvOf(c)
      BY Zenon DEF SignalInv
  <2>1. outputQueue = <<>> /\ queue.pending = <<>> /\ sendQueue = <<>> /\ Held = <<>>
      BY Zenon DEF Held
  <2>2. signalled[c] = 0
      BY Zenon
  <2>3. ~Has(<<>>, c) /\ Once(<<>>, c)
      BY HasShort, Zenon
  <2>4. /\ ~Has(outputQueue, c) /\ ~Has(queue.pending, c) /\ ~Has(sendQueue, c) /\ ~Has(Held, c)
        /\ Once(outputQueue, c) /\ Once(queue.pending, c) /\ Once(sendQueue, c)
      BY <2>1, <2>3, Zenon
  <2> HIDE DEF Init
  <2> QED
      BY <2>2, <2>4, Zenon DEF SignalInvOf
<1>5. BalanceInv
    BY DEF BalanceInv, StallTypes, StallState, StallCommand, InCallback
<1> QED
    BY <1>1, <1>2, <1>3, <1>4, <1>5, Zenon DEF PeerInv

\* The invariant holds in every state of every behaviour of the connection.
THEOREM PeerInvariant == Spec => []PeerInv
<1>1. PeerInv /\ [Next]_vars => PeerInv'
    BY TypeStep, StartInvStep, DrainInvStep, HandoverStep, SignalStep, BalanceStep, Zenon
       DEF PeerInv
<1> QED
    BY InitInv, <1>1, PTL DEF Spec

\* Never are two messages between queueHandler and the write, and while connected
\* queueHandler's waiting flag is set exactly when one is, whatever the sizes of
\* the channels and the number of callers.
THEOREM OneInFlightAlways == Spec => []OneInFlight
<1>1. PeerInv => OneInFlight
    BY Zenon DEF PeerInv, HandoverInv
<1> QED
    BY PeerInvariant, <1>1, PTL

\* The sends of queueHandler on sendQueue and of outHandler on sendDoneQueue always
\* find room.
THEOREM NeverBlocksAlways == Spec => []NeverBlocks
<1>1. PeerInv => NeverBlocks
  <2> SUFFICES ASSUME PeerInv
               PROVE  NeverBlocks
      BY Zenon
  <2>1. /\ sendQueue \in Seq(Msg) /\ Len(sendQueue) \in Nat /\ sendDoneQueue \in Nat
        /\ queue.waiting \in BOOLEAN
      BY DEF PeerInv, TypeInv, ChanTypes, QueueTypes, QueueLocals
  <2>2. /\ InFlight <= 1
        /\ InFlight = 1 => queue.waiting
      BY Zenon DEF PeerInv, HandoverInv, OneInFlight
  <2>3. ~queue.waiting \/ sendDoneQueue > 0 => Len(sendQueue) = 0
      BY <2>1, <2>2 DEF InFlight
  <2>4. out.pc = "sent" => sendDoneQueue = 0
      BY <2>1, <2>2 DEF InFlight
  <2>5. Len(sendQueue) = 0 => sendQueue = <<>>
      BY <2>1
  <2> QED
      BY <2>3, <2>4, <2>5, Zenon DEF NeverBlocks
<1> QED
    BY PeerInvariant, <1>1, PTL

\* The message about to be written is always the oldest one queueHandler took and
\* has not been written.
THEOREM WrittenInOrderAlways == Spec => []WrittenInOrder
<1>1. PeerInv => WrittenInOrder
  <2> SUFFICES ASSUME PeerInv, out.pc = "write", ~disconnect
               PROVE  owed # <<>> /\ Head(owed) = out.msg[1]
      BY Zenon DEF WrittenInOrder
  <2>1. PICK m \in Msg : out.msg = <<m>>
      BY DEF PeerInv, TypeInv, OutTypes
  <2>2. owed = <<m>> \o queue.pending /\ queue.pending \in Seq(Msg)
      BY <2>1, Zenon
         DEF PeerInv, HandoverInv, OwedInv, Unwritten, TypeInv, QueueTypes, QueueLocals
  <2>3. out.msg[1] = m
      BY <2>1
  <2> QED
      BY <2>2, <2>3, ConcatHead, Zenon
<1> QED
    BY PeerInvariant, <1>1, PTL

\* No done channel is signalled twice, and none is signalled while its message is
\* queued, over every path a message can take.
THEOREM SignalledOnceAlways == Spec => []SignalledOnce
<1>1. PeerInv => SignalledOnce
  <2> SUFFICES ASSUME PeerInv, NEW c \in Chans
               PROVE  signalled[c] <= 1 /\ (signalled[c] = 1 => Waiting(c) = {})
      BY Zenon DEF SignalledOnce
  <2>1. SignalInvOf(c)
      BY Zenon DEF PeerInv, SignalInv
  <2>2. signalled[c] = 1 =>
            ~Has(outputQueue, c) /\ ~Has(queue.pending, c) /\ ~Has(sendQueue, c)
      BY <2>1 DEF SignalInvOf
  <2>3. signalled[c] <= 1
      BY <2>1 DEF SignalInvOf
  <2>4. signalled[c] = 1 => Waiting(c) = {}
      BY <2>2, Zenon DEF Waiting, Has
  <2> QED
      BY <2>3, <2>4, Zenon
<1> QED
    BY PeerInvariant, <1>1, PTL

\* The warnings of stallHandler about unbalanced callbacks are never reached.
THEOREM StallBalancedAlways == Spec => []StallBalanced
<1>1. PeerInv => StallBalanced
    BY Zenon DEF PeerInv, BalanceInv, StallBalanced
<1> QED
    BY PeerInvariant, <1>1, PTL
=============================================================================
