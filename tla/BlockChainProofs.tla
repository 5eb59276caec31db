-------------------------- MODULE BlockChainProofs ---------------------------
(***************************************************************************)
(* The theorems about BlockChain.  After the lemmas on the actions of a    *)
(* reorganise, of a flush and of a restart: IInv is inductive, the safety  *)
(* properties follow from it, and BlockChain implements BestChain: seen    *)
(* from outside, the best chain changes in one step, to a chain with more  *)
(* work or to a sibling, and only a restart may take that back.  Last, the *)
(* best chain is the one with the most work.                               *)
(***************************************************************************)
EXTENDS BlockChainSteps

USE DEF BlockOrNone, Phase

-----------------------------------------------------------------------------
(* reorganizeChain *)

(* A block above a known invalid one has a failed ancestor and is not valid. *)
LEMMA AboveInvalid ==
    ASSUME NEW st \in [Block -> SUBSET Flag], NEW idx, StatusOK(st, idx),
           NEW n \in Block, st[n] \cap {"failed", "ancestor"} # {},
           NEW t \in Block, n \in Anc[t], NEW m \in Anc[t], m \notin Anc[n]
    PROVE  "valid" \notin st[m] /\ \E a \in Anc[m] \ {m} : "failed" \in st[a]
<1>1. m \in Block /\ n \in Anc[m] /\ Anc[n] \subseteq Anc[m] /\ n \in Anc[n]
  BY TreeAssumption, AncSelf, Zenon
<1>2. PICK a \in Anc[n] : "failed" \in st[a]
  BY <1>1, SMTT(30) DEF StatusOK, InvalidSound
<1>3. "valid" \notin st[n]
  BY Zenon DEF StatusOK, Exclusive
<1> QED BY <1>1, <1>2, <1>3, Zenon DEF StatusOK, ValidClosed

(* The walk at the start of a reorganise: either the way is clear or the    *)
(* blocks above the first invalid one are marked and nothing else happens.  *)
LEMMA StartReorgStep ==
    ASSUME IInv, NEW t \in index, StartReorg(t), UNCHANGED <<cur, fast>>, pc \in {"idle", "best"}
    PROVE  IInv'
<1>0. TypeOK /\ DataOK /\ AcceptOK /\ OrphansOK
  BY Zenon DEF IInv
<1>1. orig' = tip /\ UNCHANGED <<index, tip, orphans, oldest, db, disk, cur, fast, queue, crashes, dbErrors>>
  BY Zenon DEF StartReorg, poolVars, dbVars, faultVars
<1>2. /\ t \in Block /\ tip \in index /\ Anc[t] \subseteq index /\ (cur # None => cur \in index)
      /\ KnownValid(tip) /\ Anc[tip] \cap MissingInputs = {}
  BY <1>0, TipIndexed, Zenon DEF AcceptOK, DataOK, MemoryMatchesDatabase, DatabaseConsistent, Consistent
<1>3. CASE PathInvalid(t) = {}
  <2>1. target' = t /\ phase' = "fwd" /\ pc' = "reorg" /\ UNCHANGED <<status, modified>>
    BY <1>3, ZenonT(30) DEF StartReorg
  <2>2. TypeOK'
    BY <1>0, <1>1, <1>2, <2>1, ZenonT(30) DEF TypeOK, Step
  <2>3. DataOK'
    BY <1>0, <1>1, <2>1, DataFrame, Zenon DEF memVars, dbVars
  <2>4. AcceptOK'
    BY <1>0, <1>1, <2>1, SMTT(60) DEF AcceptOK
  <2>5. ReorgOK'
    BY <1>1, <1>2, <2>1, Zenon DEF ReorgOK, KnownValid
  <2>6. OrphansOK'
    BY <1>0, <1>1, <2>1, OrphansFrame, Zenon DEF poolVars
  <2> QED BY <2>2, <2>3, <2>4, <2>5, <2>6, Zenon DEF IInv
<1>4. CASE PathInvalid(t) # {}
  <2> DEFINE n == FirstInvalid(t)
             marked == Anc[t] \ Anc[n]
             mod == modified \cup Touched(marked, "ancestor")
  <2>1. /\ target' = tip /\ phase' = "rev" /\ pc' = "settle"
        /\ status' = WithFlag(status, marked, "ancestor") /\ modified' = mod
    BY <1>4, ZenonT(30) DEF StartReorg
  <2>2. n \in Anc[t] /\ KnownInvalid(n) /\ n \in Block
    <3>1. \E x \in PathInvalid(t) : PathInvalid(t) \subseteq Anc[x]
      <4>1. PathInvalid(t) \in (SUBSET Anc[t]) \ {{}}
        BY <1>4, Zenon DEF PathInvalid
      <4> QED BY <1>2, <4>1, BranchAssumption, SMTT(30)
    <3>2. n \in PathInvalid(t)
      BY <3>1, ZenonT(30) DEF FirstInvalid
    <3> QED BY <1>2, <3>2, TreeAssumption, Zenon DEF PathInvalid
  <2> HIDE DEF n
  <2>3. \A m \in marked : "valid" \notin status[m] /\ \E a \in Anc[m] \ {m} : "failed" \in status[a]
    BY <1>0, <1>2, <2>2, AboveInvalid, ZenonT(30) DEF TypeOK, DataOK, KnownInvalid
  <2>4. marked \in SUBSET index
    BY <1>2, ZenonT(30)
  <2> HIDE DEF marked
  <2>5. status' \in [Block -> SUBSET Flag] /\ StatusOK(status', index)
    BY <1>0, <2>1, <2>3, <2>4, MarkAncestor, Zenon DEF TypeOK, DataOK
  <2>6. \A b \in Block : /\ "valid" \in status[b] => "valid" \in status'[b]
                         /\ b \notin Touched(marked, "ancestor") => status'[b] = status[b]
    BY <1>0, <2>1, Zenon DEF WithFlag, Touched, TypeOK
  <2>7. mod \in SUBSET index /\ modified \subseteq mod
    BY <1>0, <2>4, ZenonT(30) DEF Touched, DataOK, TreeOK
  <2>8. "valid" \in status'[tip]
    BY <1>0, <1>2, <2>6, Zenon DEF KnownValid, TypeOK
  <2>9. DataOK' /\ modified' \in SUBSET Block
    <3>1. \A b \in Block \ mod : status'[b] = status[b]
      BY <2>6, Zenon
    <3> HIDE DEF mod
    <3> QED BY <1>0, <1>1, <2>1, <2>5, <2>7, <2>8, <3>1, Remark, Zenon
  <2>10. TypeOK'
    BY <1>0, <1>1, <1>2, <2>1, <2>5, <2>9, ZenonT(30) DEF TypeOK, Step
  <2>11. AcceptOK'
    BY <1>0, <1>1, <2>1, SMTT(60) DEF AcceptOK
  <2>12. ReorgOK'
    BY <1>1, <1>2, <2>1, <2>8, Zenon DEF ReorgOK, KnownValid
  <2>13. OrphansOK'
    BY <1>0, <1>1, <2>1, OrphansFrame, Zenon DEF poolVars
  <2> QED BY <2>9, <2>10, <2>11, <2>12, <2>13, Zenon DEF IInv
<1> QED BY <1>3, <1>4, Zenon

(* A failed attempt to reorganise turns back to origTip or panics. *)
LEMMA ReorgFailsStep ==
    ASSUME IInv, pc = "reorg", NEW st, ReorgFails(st),
           UNCHANGED <<index, orphans, oldest, disk, cur, fast, queue>>, tip' \in Block,
           status' \in [Block -> SUBSET Flag], "valid" \in status'[orig],
           DataOK', db' \in Database, modified' \in SUBSET Block, crashes' \in Nat, dbErrors' \in Nat
    PROVE  IInv'
<1>0. TypeOK /\ AcceptOK /\ ReorgOK /\ OrphansOK
  BY Zenon DEF IInv
<1>1. /\ pc' \in {"reorg", "panic"} /\ orig' = orig
      /\ \/ phase' = "rev" /\ target' = orig
         \/ phase' = phase /\ target' = target
  BY Zenon DEF ReorgFails, reorgVars
<1>2. TypeOK'
  BY <1>0, <1>1, Zenon DEF TypeOK, Step
<1>3. AcceptOK'
  BY <1>0, <1>1, Zenon DEF AcceptOK
<1>4. ReorgOK'
  BY <1>0, <1>1, Zenon DEF ReorgOK, KnownValid
<1>5. OrphansOK'
  BY <1>0, <1>1, OrphansFrame, Zenon DEF poolVars
<1> QED BY <1>2, <1>3, <1>4, <1>5, Zenon DEF IInv

(* disconnectBlock moves the tip to its parent, which is never below genesis. *)
LEMMA DetachBlockStep ==
    ASSUME IInv, DetachBlock
    PROVE  IInv'
<1>0. TypeOK /\ DataOK /\ AcceptOK /\ ReorgOK /\ OrphansOK
  BY Zenon DEF IInv
<1>1. /\ pc = "reorg" /\ tip \notin Anc[target] /\ modified = {} /\ db' = DbDisconnect(db, tip)
      /\ tip' = Parent[tip]
      /\ UNCHANGED <<index, status, modified, orphans, oldest, disk, pc, cur, fast, queue,
                     target, orig, phase, crashes, dbErrors>>
  BY Zenon DEF DetachBlock, poolVars, callVars, reorgVars, faultVars
<1>2. tip # Genesis /\ tip \in Block
  BY <1>0, <1>1, TreeAssumption, SMTT(30) DEF ReorgOK, TypeOK
<1>3. db \in Database /\ Consistent(db) /\ db.tip = tip
  BY <1>0, Zenon DEF TypeOK, DataOK, DatabaseConsistent, MemoryMatchesDatabase
<1>4. db' \in Database /\ Consistent(db')
  BY <1>1, <1>2, <1>3, DisconnectConsistent, Zenon
<1>5. db'.tip = tip' /\ db'.index = db.index /\ db'.status = db.status /\ db'.blocks = db.blocks
  BY <1>1, <1>3, Zenon DEF DbDisconnect, Database
<1>6. DataOK'
  BY <1>0, <1>1, <1>4, <1>5, MoveTip, ZenonT(30)
<1>7. TypeOK'
  BY <1>0, <1>1, <1>2, <1>4, TreeAssumption, SMTT(30) DEF TypeOK
<1>8. AcceptOK' /\ ReorgOK'
  BY <1>0, <1>1, <1>5, Zenon DEF AcceptOK, ReorgOK, KnownValid
<1>9. OrphansOK'
  BY <1>0, <1>1, OrphansFrame, Zenon DEF poolVars
<1> QED BY <1>6, <1>7, <1>8, <1>9, Zenon DEF IInv

(* connectBlock on behalf of a reorganise, with or without its late error. *)
LEMMA AttachBlockStep ==
    ASSUME IInv, NEW n \in Block, AttachBlock(n) \/ AttachBlockLateError(n)
    PROVE  IInv'
<1>0. TypeOK /\ DataOK /\ AcceptOK /\ ReorgOK /\ OrphansOK
  BY Zenon DEF IInv
<1>1. /\ pc = "reorg" /\ n \in Anc[target] \ {Genesis} /\ Parent[n] = tip /\ KnownValid(n)
      /\ n \notin MissingInputs /\ modified = {} /\ db' = DbConnect(db, n) /\ tip' = n
      /\ UNCHANGED <<index, status, modified, orphans, oldest, disk, cur, fast, queue>>
  BY ZenonT(30) DEF AttachBlock, AttachBlockLateError, NextAttach, poolVars, callVars
<1>2. n \in index
  BY <1>0, <1>1, TipIndexed, ZenonT(30) DEF ReorgOK
<1>3. db \in Database /\ Consistent(db) /\ db.tip = tip /\ n \in db.index /\ "valid" \in db.status[n]
  BY <1>0, <1>1, <1>2, ZenonT(30) DEF TypeOK, DataOK, DatabaseConsistent, MemoryMatchesDatabase, KnownValid
<1>4. db' \in Database /\ Consistent(db')
  BY <1>1, <1>3, ConnectConsistent, Zenon
<1>5. db'.tip = tip' /\ db'.index = db.index /\ db'.status = db.status /\ db'.blocks = db.blocks
  BY <1>1, <1>3, Zenon DEF DbConnect, Database
<1>6. DataOK'
  BY <1>0, <1>1, <1>4, <1>5, MoveTip, ZenonT(30)
<1>7. CASE AttachBlock(n)
  <2>1. UNCHANGED <<pc, target, orig, phase, crashes, dbErrors>>
    BY <1>7, Zenon DEF AttachBlock, callVars, reorgVars, faultVars
  <2>2. TypeOK'
    BY <1>0, <1>1, <1>4, <2>1, ZenonT(30) DEF TypeOK
  <2>3. AcceptOK' /\ ReorgOK'
    BY <1>0, <1>1, <1>5, <2>1, ZenonT(30) DEF AcceptOK, ReorgOK, KnownValid
  <2>4. OrphansOK'
    BY <1>0, <1>1, <2>1, OrphansFrame, Zenon DEF poolVars
  <2> QED BY <1>6, <2>2, <2>3, <2>4, Zenon DEF IInv
<1>8. CASE AttachBlockLateError(n)
  <2>1. ReorgFails(status) /\ DbError
    BY <1>8, Zenon DEF AttachBlockLateError
  <2>2. crashes' \in Nat /\ dbErrors' \in Nat
    BY <1>0, <2>1 DEF DbError, TypeOK
  <2>3. "valid" \in status'[orig]
    BY <1>0, <1>1, Zenon DEF ReorgOK, KnownValid
  <2> QED BY <1>0, <1>1, <1>4, <1>6, <2>1, <2>2, <2>3, ReorgFailsStep, Zenon DEF TypeOK
<1> QED BY <1>7, <1>8, Zenon

(* checkConnectBlock passes a block of the new branch. *)
LEMMA AttachCheckPassesStep ==
    ASSUME IInv, NEW n \in Block, AttachCheckPasses(n)
    PROVE  IInv'
<1>0. TypeOK /\ DataOK /\ AcceptOK /\ ReorgOK /\ OrphansOK
  BY Zenon DEF IInv
<1>1. /\ pc = "reorg" /\ n \in Anc[target] \ {Genesis} /\ Parent[n] = tip /\ n \notin Bad
      /\ status' = WithFlag(status, {n}, "valid") /\ modified' = modified \cup {n}
      /\ UNCHANGED <<index, tip, orphans, oldest, db, disk, pc, cur, fast, queue,
                     target, orig, phase, crashes, dbErrors>>
  BY Zenon DEF AttachCheckPasses, NextAttach, poolVars, dbVars, callVars, reorgVars, faultVars
<1>2. n \in index
  BY <1>0, <1>1, TipIndexed, ZenonT(30) DEF ReorgOK
<1>3. "failed" \notin status[n]
  BY <1>0, <1>1, ZenonT(30) DEF DataOK, StatusOK, InvalidSound
<1>4. status' \in [Block -> SUBSET Flag] /\ StatusOK(status', index)
  BY <1>0, <1>1, <1>2, <1>3, MarkValid, ZenonT(30) DEF DataOK, TypeOK, KnownValid
<1>5. \A b \in Block : /\ "valid" \in status[b] => "valid" \in status'[b]
                       /\ b # n => status'[b] = status[b]
  BY <1>1, ZenonT(30) DEF WithFlag
<1>6. DataOK' /\ modified' \in SUBSET Block
  <2> DEFINE mod == modified \cup {n}
  <2>1. /\ mod \in SUBSET index /\ modified \subseteq mod /\ \A b \in Block \ mod : status'[b] = status[b]
        /\ "valid" \in status'[tip] /\ db' = db /\ modified' = mod
    BY <1>0, <1>1, <1>2, <1>5, ZenonT(30) DEF DataOK, TreeOK, KnownValid, TypeOK
  <2> HIDE DEF mod
  <2> QED BY <1>0, <1>1, <1>4, <2>1, Remark, ZenonT(30)
<1>7. TypeOK'
  BY <1>0, <1>1, <1>4, <1>6, ZenonT(30) DEF TypeOK
<1>8. AcceptOK'
  BY <1>0, <1>1, ZenonT(30) DEF AcceptOK
<1>9. ReorgOK'
  BY <1>0, <1>1, <1>5, TipIndexed, ZenonT(30) DEF ReorgOK, KnownValid
<1>10. OrphansOK'
  BY <1>0, <1>1, OrphansFrame, ZenonT(30) DEF poolVars
<1> QED BY <1>6, <1>7, <1>8, <1>9, <1>10, Zenon DEF IInv

(* checkConnectBlock refuses a block of the new branch: it is marked failed  *)
(* and the rest of the branch is marked as having an invalid ancestor.  The  *)
(* branch of origTip is untouched, so the attempt never ends in a panic.     *)
LEMMA AttachCheckFailsStep ==
    ASSUME IInv, NEW n \in Block, AttachCheckFails(n)
    PROVE  IInv' /\ pc' # "panic"
<1>0. TypeOK /\ DataOK /\ AcceptOK /\ ReorgOK /\ OrphansOK
  BY Zenon DEF IInv
<1> DEFINE rest == Anc[target] \ Anc[n]
           st == WithFlag(status, {n}, "failed")
           mod == modified \cup Touched({n}, "failed") \cup Touched(rest, "ancestor")
<1>1. /\ pc = "reorg" /\ n \in Anc[target] \ {Genesis} /\ Parent[n] = tip /\ n \in Bad
      /\ ~KnownValid(n) /\ status' = WithFlag(st, rest, "ancestor") /\ modified' = mod
      /\ ReorgFails(status')
      /\ UNCHANGED <<index, tip, orphans, oldest, db, disk, cur, fast, queue, crashes, dbErrors>>
  BY ZenonT(30) DEF AttachCheckFails, NextAttach, poolVars, dbVars, faultVars
<1>2. /\ n \in index /\ rest \in SUBSET index /\ target \in Block /\ n \in Anc[target]
      /\ orig \in Block /\ KnownValid(orig) /\ (phase = "rev" => target = orig)
  BY <1>0, <1>1, TipIndexed, ZenonT(30) DEF ReorgOK
<1>3. st \in [Block -> SUBSET Flag] /\ StatusOK(st, index)
  BY <1>0, <1>1, <1>2, MarkFailed, ZenonT(30) DEF DataOK, TypeOK, KnownValid
<1>4. "failed" \in st[n] /\ \A b \in Block \ {n} : st[b] = status[b]
  BY Zenon DEF WithFlag
<1>5. \A m \in rest : "valid" \notin st[m] /\ \E a \in Anc[m] \ {m} : "failed" \in st[a]
  BY <1>2, <1>3, <1>4, AboveInvalid, ZenonT(30)
<1>6. \A b \in Block : "valid" \in status[b] => "valid" \in st[b]
  BY Zenon DEF WithFlag
<1> HIDE DEF st
<1>7. status' \in [Block -> SUBSET Flag] /\ StatusOK(status', index)
  <2>1. index \in SUBSET Block
    BY <1>0, Zenon DEF TypeOK
  <2> HIDE DEF rest
  <2> QED BY <1>1, <1>2, <1>3, <1>5, <2>1, MarkAncestor, Zenon
<1>8. \A b \in Block : "valid" \in status[b] => "valid" \in status'[b]
  BY <1>1, <1>3, <1>6, ZenonT(30) DEF WithFlag
<1>9. \A b \in Block \ mod : status'[b] = status[b]
  BY <1>0, <1>1, ZenonT(30) DEF WithFlag, Touched, TypeOK, st
<1>10. mod \in SUBSET index /\ modified \subseteq mod
  BY <1>0, <1>2, Zenon DEF Touched, DataOK, TreeOK
<1>11. "valid" \in status'[tip] /\ "valid" \in status'[orig]
  BY <1>0, <1>2, <1>8, Zenon DEF DataOK, KnownValid, TypeOK
<1>12. DataOK' /\ db' \in Database /\ modified' \in SUBSET Block
  <2> HIDE DEF mod
  <2> QED BY <1>0, <1>1, <1>7, <1>9, <1>10, <1>11, Remark, ZenonT(30)
<1>13. IInv'
  BY <1>0, <1>1, <1>7, <1>11, <1>12, ReorgFailsStep, Zenon DEF TypeOK
<1>14. phase = "fwd"
  <2>1. phase # "rev"
    BY <1>0, <1>1, <1>2, ZenonT(30) DEF KnownValid, DataOK, StatusOK, ValidClosed
  <2> QED BY <1>0, <2>1, Zenon DEF TypeOK
<1>15. \A x \in Anc[orig] : status'[x] \cap {"failed", "ancestor"} = {}
  <2>1. \A x \in Anc[orig] : x \in Block /\ "valid" \in status'[x]
    BY <1>2, <1>7, <1>11, TreeAssumption, Zenon DEF StatusOK, ValidClosed
  <2> QED BY <1>7, <2>1, Zenon DEF StatusOK, Exclusive
<1>16. pc' = pc
  BY <1>1, <1>14, <1>15, Zenon DEF ReorgFails
<1> QED BY <1>1, <1>13, <1>16, ZenonT(30)

(* A valid block whose inputs are missing ends the attempt.  No block of    *)
(* the branch of origTip is one, so the way back is clear.                  *)
LEMMA AttachMissingInputsStep ==
    ASSUME IInv, NEW n \in Block, AttachMissingInputs(n)
    PROVE  IInv' /\ pc' # "panic"
<1>0. TypeOK /\ DataOK /\ ReorgOK
  BY Zenon DEF IInv
<1>1. /\ pc = "reorg" /\ n \in Anc[target] /\ n \in MissingInputs /\ ReorgFails(status)
      /\ UNCHANGED <<index, status, modified, tip, orphans, oldest, db, disk, cur, fast, queue,
                     crashes, dbErrors>>
  BY Zenon DEF AttachMissingInputs, NextAttach, memVars, poolVars, dbVars, faultVars
<1>2. /\ orig \in Block /\ "valid" \in status[orig] /\ Anc[orig] \cap MissingInputs = {}
      /\ (phase = "rev" => target = orig)
  BY <1>0, <1>1, TipIndexed, Zenon DEF ReorgOK, KnownValid
<1>3. DataOK'
  BY <1>0, <1>1, DataFrame, Zenon DEF memVars, dbVars
<1>4. IInv'
  BY <1>0, <1>1, <1>2, <1>3, ReorgFailsStep, ZenonT(30) DEF TypeOK
<1>5. phase = "fwd"
  BY <1>0, <1>1, <1>2, Zenon DEF TypeOK
<1>6. \A x \in Anc[orig] : status[x] \cap {"failed", "ancestor"} = {}
  <2>1. \A x \in Anc[orig] : x \in Block /\ "valid" \in status[x]
    BY <1>0, <1>2, TreeAssumption, ZenonT(30) DEF DataOK, StatusOK, ValidClosed
  <2> QED BY <1>0, <2>1, ZenonT(30) DEF DataOK, StatusOK, Exclusive
<1>7. pc' = pc
  BY <1>1, <1>5, <1>6, ZenonT(30) DEF ReorgFails
<1> QED BY <1>1, <1>4, <1>7, Zenon

(* A database error during a reorganise. *)
LEMMA ReorgDbErrorStep ==
    ASSUME IInv, ReorgDbError
    PROVE  IInv'
<1>0. TypeOK /\ DataOK /\ ReorgOK
  BY Zenon DEF IInv
<1>1. /\ pc = "reorg" /\ ReorgFails(status)
      /\ UNCHANGED <<index, status, modified, tip, orphans, oldest, db, disk, cur, fast, queue>>
      /\ crashes' \in Nat /\ dbErrors' \in Nat
  BY <1>0 DEF ReorgDbError, DbError, memVars, poolVars, dbVars, TypeOK
<1>2. DataOK'
  BY <1>0, <1>1, DataFrame, Zenon DEF memVars, dbVars
<1>3. "valid" \in status'[orig]
  BY <1>0, <1>1, Zenon DEF ReorgOK, KnownValid
<1> QED BY <1>0, <1>1, <1>2, <1>3, ReorgFailsStep, Zenon DEF TypeOK

(* The index is flushed before a block is connected or disconnected. *)
LEMMA FlushBlockIndexStep ==
    ASSUME IInv, FlushBlockIndex
    PROVE  IInv'
<1>0. TypeOK /\ DataOK /\ AcceptOK /\ ReorgOK /\ OrphansOK
  BY Zenon DEF IInv
<1>1. /\ db' = Flushed(db, modified, index, status') /\ modified' = {}
      /\ UNCHANGED <<index, status, tip, orphans, oldest, disk, pc, cur, fast, queue,
                     target, orig, phase, crashes, dbErrors>>
  BY Zenon DEF FlushBlockIndex, poolVars, callVars, reorgVars, faultVars
<1>2. DataOK' /\ db' \in Database /\ db'.blocks = db.blocks
  <2>1. /\ modified \in SUBSET index /\ modified \subseteq modified /\ StatusOK(status', index)
        /\ "valid" \in status'[tip] /\ status' \in [Block -> SUBSET Flag]
        /\ \A b \in Block \ modified : status'[b] = status[b]
    BY <1>0, <1>1, Zenon DEF DataOK, TreeOK, KnownValid, TypeOK
  <2> QED BY <1>0, <1>1, <2>1, Remark, Zenon
<1>3. TypeOK'
  BY <1>0, <1>1, <1>2, Zenon DEF TypeOK
<1>4. AcceptOK' /\ ReorgOK'
  BY <1>0, <1>1, <1>2, Zenon DEF AcceptOK, ReorgOK, KnownValid
<1>5. OrphansOK'
  BY <1>0, <1>1, OrphansFrame, Zenon DEF poolVars
<1> QED BY <1>2, <1>3, <1>4, <1>5, Zenon DEF IInv

(* reorganizeChainInternal reaches its target. *)
LEMMA ReorgDoneStep ==
    ASSUME IInv, ReorgDone
    PROVE  IInv'
<1>0. TypeOK /\ DataOK /\ AcceptOK /\ ReorgOK /\ OrphansOK
  BY Zenon DEF IInv
<1>1. /\ pc = "reorg" /\ pc' = "settle" /\ tip = target
      /\ UNCHANGED <<index, status, modified, tip, orphans, oldest, db, disk, cur, fast, queue,
                     target, orig, phase, crashes, dbErrors>>
  BY Zenon DEF ReorgDone, memVars, poolVars, dbVars, reorgVars, faultVars
<1>2. TypeOK'
  BY <1>0, <1>1, Zenon DEF TypeOK, Step
<1>3. DataOK'
  BY <1>0, <1>1, DataFrame, Zenon DEF memVars, dbVars
<1>4. AcceptOK' /\ ReorgOK'
  BY <1>0, <1>1, Zenon DEF AcceptOK, ReorgOK, KnownValid
<1>5. OrphansOK'
  BY <1>0, <1>1, OrphansFrame, Zenon DEF poolVars
<1> QED BY <1>2, <1>3, <1>4, <1>5 DEF IInv

(* The flush after a reorganise, and the end of the call. *)
LEMMA SettleReorgStep ==
    ASSUME IInv, SettleReorg
    PROVE  IInv'
<1>0. TypeOK /\ DataOK /\ AcceptOK /\ ReorgOK /\ OrphansOK
  BY Zenon DEF IInv
<1>1. /\ pc = "settle" /\ FlushWarnOnly(status', modified)
      /\ IF phase = "fwd" /\ cur # None THEN Accepted ELSE Return
      /\ UNCHANGED <<index, status, tip, orphans, oldest, disk>>
  BY Zenon DEF SettleReorg, poolVars
<1>2. /\ \/ db' = Flushed(db, modified, index, status') /\ modified' = {}
         \/ db' = db /\ modified' = modified
      /\ crashes' \in Nat /\ dbErrors' \in Nat
  BY <1>0, <1>1, FlushCases, Zenon
<1>3. DataOK' /\ db' \in Database /\ modified' \in SUBSET Block
  <2>1. /\ modified \in SUBSET index /\ modified \subseteq modified /\ StatusOK(status', index)
        /\ "valid" \in status'[tip] /\ status' \in [Block -> SUBSET Flag]
        /\ \A b \in Block \ modified : status'[b] = status[b]
    BY <1>0, <1>1, Zenon DEF DataOK, TreeOK, KnownValid, TypeOK
  <2> QED BY <1>0, <1>1, <1>2, <2>1, Remark, Zenon
<1>4. CASE phase = "fwd" /\ cur # None
  <2>1. cur \in index /\ Accepted /\ UNCHANGED poolVars
    BY <1>0, <1>1, <1>4, Zenon DEF ReorgOK, poolVars
  <2> QED BY <1>0, <1>1, <1>2, <1>3, <2>1, AcceptedStep, SMTT(30) DEF TypeOK
<1>5. CASE ~(phase = "fwd" /\ cur # None)
  <2>1. Return
    BY <1>1, <1>5, Zenon
  <2>2. OrphansOK'
    BY <1>0, <1>1, <2>1, OrphansFrame, Zenon DEF poolVars, Return
  <2> QED BY <1>0, <1>1, <1>2, <1>3, <2>1, <2>2, ReturnStep, Zenon DEF TypeOK
<1> QED BY <1>4, <1>5, Zenon

-----------------------------------------------------------------------------
(* Durability *)

(* The ffldb cache reaches the disk as a whole. *)
LEMMA FlushCacheStep ==
    ASSUME IInv, FlushCache
    PROVE  IInv'
<1>0. TypeOK /\ DataOK /\ AcceptOK /\ ReorgOK /\ OrphansOK
  BY Zenon DEF IInv
<1>1. /\ disk' = db
      /\ UNCHANGED <<index, status, modified, tip, orphans, oldest, db, pc, cur, fast, queue,
                     target, orig, phase, crashes, dbErrors>>
  BY Zenon DEF FlushCache, memVars, poolVars, callVars, reorgVars, faultVars
<1>2. TypeOK'
  BY <1>0, <1>1, Zenon DEF TypeOK
<1>3. DataOK'
  BY <1>0, <1>1, ZenonT(30) DEF DataOK, TreeOK, MemoryMatchesDatabase, DatabaseConsistent, KnownValid, StatusOK, Confined
<1>4. AcceptOK' /\ ReorgOK'
  BY <1>0, <1>1 DEF AcceptOK, ReorgOK, KnownValid
<1>5. OrphansOK'
  BY <1>0, <1>1, OrphansFrame, Zenon DEF poolVars
<1> QED BY <1>2, <1>3, <1>4, <1>5, Zenon DEF IInv

(* initChainState finds on disk all it needs. *)
LEMMA RestartStep ==
    ASSUME IInv, Restart
    PROVE  IInv'
<1>0. TypeOK /\ DataOK
  BY Zenon DEF IInv
<1>1. /\ db' = disk /\ index' = disk.index /\ status' = disk.status /\ modified' = {} /\ tip' = disk.tip
      /\ orphans' = <<>> /\ oldest' = None /\ Return /\ disk' = disk /\ crashes' = crashes + 1
      /\ dbErrors' = dbErrors
  BY Zenon DEF Restart
<1>2. disk \in Database /\ Consistent(disk) /\ StatusOK(disk.status, disk.index) /\ disk.tip \in Block
  BY <1>0, Zenon DEF TypeOK, DataOK, DatabaseConsistent, Database
<1>3. DataOK'
  <2>1. "valid" \in disk.status[disk.tip]
    BY <1>2, AncSelf, Zenon DEF Consistent
  <2>2. TreeOK' /\ KnownValid(tip)'
    BY <1>1, <1>2, <2>1, ZenonT(30) DEF TreeOK, Consistent, KnownValid
  <2>3. MemoryMatchesDatabase' /\ DatabaseConsistent'
    BY <1>1, <1>2, Zenon DEF MemoryMatchesDatabase, DatabaseConsistent
  <2>4. StatusOK(status, index)' /\ StatusOK(db.status, db.index)' /\ StatusOK(disk.status, disk.index)'
    BY <1>1, <1>2, Zenon
  <2> QED BY <2>2, <2>3, <2>4, Zenon DEF DataOK
<1>4. OrphansOK'
  <2>1. Len(orphans') = 0 /\ pc' = "idle"
    BY <1>1, Zenon DEF Return
  <2> QED BY <2>1, BoundAssumption DEF OrphansOK, NoSecondNode, OrphanPoolBounded
<1>5. orphans' \in Seq(Block)
  BY <1>1
<1> QED BY <1>0, <1>1, <1>2, <1>3, <1>4, <1>5, ReturnStep DEF TypeOK, Database

-----------------------------------------------------------------------------
(* The theorems *)

(* Every step of the block chain core keeps the inductive invariant. *)
LEMMA NextIInv == IInv /\ [Next]_vars => IInv'
<1> SUFFICES ASSUME IInv, [Next]_vars PROVE IInv'
  BY Zenon
<1>1. CASE \E b \in Block : ProcessOrphanBlock(b)
  BY <1>1, ProcessOrphanBlockStep, Zenon
<1>2. CASE \E b \in Block, f \in BOOLEAN : ProcessBlock(b, f)
  BY <1>2, ProcessBlockStep, Zenon
<1>3. CASE \E b \in Block : ForceHeadReorganization(b)
  BY <1>3, StartReorgStep, Zenon DEF ForceHeadReorganization
<1>4. CASE CallStep
  <2>1. CASE ProcessNextOrphan
    BY <2>1, ProcessNextOrphanStep, Zenon
  <2>2. CASE ProcessOrphansNextHash
    BY <2>2, ProcessOrphansNextHashStep, Zenon
  <2>3. CASE RejectBlock \/ CallDbError \/ FastConnectFails
    BY <2>3, EarlyReturnStep, Zenon
  <2>4. CASE StoreBlock
    BY <2>4, StoreBlockStep, Zenon
  <2>5. CASE IndexBlock \/ IndexBlockFails
    BY <2>5, IndexBlockStep
  <2>6. CASE ExtendInvalid
    BY <2>6, ExtendInvalidStep, Zenon
  <2>7. CASE ExtendValid
    BY <2>7, ExtendValidStep, Zenon
  <2>8. CASE StaySideChain
    BY <2>8, StaySideChainStep, Zenon
  <2>9. CASE ConnectBlock \/ ConnectBlockLateError
    BY <2>9, ConnectBlockStep, Zenon
  <2>10. CASE ReorgToMoreWork
    <3>1. cur \in index
      BY <2>10 DEF ReorgToMoreWork, IInv, AcceptOK
    <3> QED BY <2>10, <3>1, StartReorgStep, Zenon DEF ReorgToMoreWork
  <2>11. CASE DetachBlock
    BY <2>11, DetachBlockStep, Zenon
  <2>12. CASE \E n \in Block : AttachCheckPasses(n)
    BY <2>12, AttachCheckPassesStep, Zenon
  <2>13. CASE \E n \in Block : AttachCheckFails(n)
    BY <2>13, AttachCheckFailsStep, Zenon
  <2>14. CASE \E n \in Block : AttachBlock(n) \/ AttachBlockLateError(n)
    BY <2>14, AttachBlockStep, Zenon
  <2>14a. CASE \E n \in Block : AttachMissingInputs(n)
    BY <2>14a, AttachMissingInputsStep, Zenon
  <2>15. CASE FlushBlockIndex
    BY <2>15, FlushBlockIndexStep, Zenon
  <2>16. CASE ReorgDbError
    BY <2>16, ReorgDbErrorStep, Zenon
  <2>17. CASE ReorgDone
    BY <2>17, ReorgDoneStep, Zenon
  <2>18. CASE SettleReorg
    BY <2>18, SettleReorgStep, Zenon
  <2> QED BY <1>4, <2>1, <2>2, <2>3, <2>4, <2>5, <2>6, <2>7, <2>8, <2>9, <2>10, <2>11, <2>12, <2>13,
             <2>14, <2>15, <2>16, <2>17, <2>18, <2>14a, Zenon DEF CallStep
<1>5. CASE FlushCache
  BY <1>5, FlushCacheStep, Zenon
<1>6. CASE Restart
  BY <1>6, RestartStep, Zenon
<1>7. CASE UNCHANGED vars
  <2>1. TypeOK /\ DataOK /\ AcceptOK /\ ReorgOK /\ OrphansOK
    BY Zenon DEF IInv
  <2>2. UNCHANGED <<memVars, poolVars, dbVars, callVars, reorgVars, faultVars>>
    BY <1>7, Zenon DEF vars
  <2>3. TypeOK'
    BY <2>1, <2>2, Zenon DEF TypeOK, memVars, poolVars, dbVars, callVars, reorgVars, faultVars
  <2>4. DataOK'
    BY <2>1, <2>2, DataFrame, Zenon
  <2>5. AcceptOK' /\ ReorgOK'
    BY <2>1, <2>2 DEF AcceptOK, ReorgOK, KnownValid, memVars, dbVars, callVars, reorgVars
  <2>6. OrphansOK'
    BY <2>1, <2>2, OrphansFrame, Zenon DEF memVars, callVars
  <2> QED BY <2>3, <2>4, <2>5, <2>6, Zenon DEF IInv
<1> QED BY <1>1, <1>2, <1>3, <1>4, <1>5, <1>6, <1>7, Zenon DEF Next

(* The block chain core never leaves its inductive invariant, whatever the  *)
(* block tree, the rules the blocks break, the number of crashes and the    *)
(* number of failed database accesses.                                      *)
THEOREM Invariance == Spec => []IInv
<1>1. Init => IInv
  BY InitIInv, Zenon
<1>2. IInv /\ [Next]_vars => IInv'
  BY NextIInv, Zenon
<1> QED BY <1>1, <1>2, PTL DEF Spec

(* Every variable keeps its type. *)
THEOREM TypeCorrect == Spec => []TypeOK
<1>1. IInv => TypeOK
  BY Zenon DEF IInv
<1> QED BY <1>1, Invariance, PTL

(* MainChainValid: at every step of a reorganise, and after every restart,  *)
(* each block of the best chain is known valid and none is known invalid.   *)
THEOREM MainChainIsValid == Spec => []MainChainValid
<1>1. IInv => MainChainValid
  <2> SUFFICES ASSUME IInv, NEW b \in Anc[tip] PROVE KnownValid(b) /\ ~KnownInvalid(b)
    BY Zenon DEF MainChainValid
  <2>1. b \in Block /\ tip \in Block
    BY TreeAssumption, Zenon DEF IInv, TypeOK
  <2>2. "valid" \in status[b]
    BY <2>1, Zenon DEF IInv, DataOK, StatusOK, ValidClosed, KnownValid
  <2> QED BY <2>1, <2>2, Zenon DEF IInv, DataOK, StatusOK, Exclusive, KnownValid, KnownInvalid
<1> QED BY <1>1, Invariance, PTL

(* DatabaseConsistent: whenever the process stops, the disk holds an index  *)
(* closed under parents, the tip of a valid branch in it, and exactly the   *)
(* utxo set and spend journal of that tip.                                  *)
THEOREM DatabaseIsConsistent == Spec => []DatabaseConsistent
<1>1. IInv => DatabaseConsistent
  BY Zenon DEF IInv, DataOK
<1> QED BY <1>1, Invariance, PTL

(* The status flags mean what blockindex.go says: a valid block has valid   *)
(* ancestors, in memory and on disk.                                        *)
THEOREM ValidFlagsAreClosed == Spec => []ValidMeansAncestorsValid
<1>1. IInv => ValidMeansAncestorsValid
  BY Zenon DEF IInv, DataOK, StatusOK, ValidMeansAncestorsValid
<1> QED BY <1>1, Invariance, PTL

(* A failed block breaks a rule, and a block marked for its ancestors has a *)
(* failed one: no database error or interrupted reorganise condemns a sound *)
(* block.                                                                   *)
THEOREM InvalidFlagsAreSound == Spec => []InvalidMeansRuleBroken
<1>1. IInv => InvalidMeansRuleBroken
  BY Zenon DEF IInv, DataOK, StatusOK, InvalidMeansRuleBroken
<1> QED BY <1>1, Invariance, PTL

(* A block that breaks a rule is valid only below a checkpoint. *)
THEOREM ValidBlocksWereChecked == Spec => []ValidMeansChecked
<1>1. IInv => ValidMeansChecked
  BY Zenon DEF IInv, DataOK, StatusOK, ValidMeansChecked
<1> QED BY <1>1, Invariance, PTL

(* The unwritten part of the index is always in modified, and the tip in    *)
(* memory is the stored one.                                                *)
THEOREM MemoryFollowsDatabase == Spec => []MemoryMatchesDatabase
<1>1. IInv => MemoryMatchesDatabase
  BY Zenon DEF IInv, DataOK
<1> QED BY <1>1, Invariance, PTL

(* addNode is never called for a block that has a node, and the orphan pool *)
(* holds at most one block more than its limit.                             *)
THEOREM OrphanPoolIsSound == Spec => []OrphanPoolSound
<1>1. IInv => OrphanPoolSound
  BY Zenon DEF IInv, OrphansOK, OrphanPoolSound
<1> QED BY <1>1, Invariance, PTL

(* reorganizeChain panics only in the step in which a database access fails *)
(* on the way back to origTip: a rule violation alone never does it.        *)
THEOREM PanicNeedsDbError == Spec => PanicOnlyOnDbError
<1> DEFINE A == pc' = "panic" => pc = "panic" \/ dbErrors' > dbErrors
<1>1. IInv /\ [Next]_vars => [A]_vars
  <2> SUFFICES ASSUME IInv, Next, pc' = "panic" PROVE pc = "panic" \/ dbErrors' > dbErrors
    BY Zenon
  <2>1. CASE \E n \in Block : AttachCheckFails(n)
    BY <2>1, AttachCheckFailsStep, Zenon
  <2>1a. CASE \E n \in Block : AttachMissingInputs(n)
    BY <2>1a, AttachMissingInputsStep, Zenon
  <2>2. CASE ReorgDbError \/ \E n \in Block : AttachBlockLateError(n)
    <3>1. DbError /\ dbErrors \in Nat
      BY <2>2, Zenon DEF ReorgDbError, AttachBlockLateError, IInv, TypeOK
    <3> QED BY <3>1 DEF DbError
  <2>3. CASE pc' = pc
    BY <2>3, Zenon
  <2>4. CASE /\ ~\E n \in Block : AttachCheckFails(n) \/ AttachMissingInputs(n) \/ AttachBlockLateError(n)
             /\ ~ReorgDbError /\ pc' # pc
    BY <2>4, Zenon DEF Next, CallStep, ProcessOrphanBlock, ProcessBlock, ForceHeadReorganization, StartReorg,
       ProcessNextOrphan, ProcessOrphansNextHash, RejectBlock, StoreBlock, IndexBlock, IndexBlockFails,
       ExtendInvalid, ExtendValid, StaySideChain, ConnectBlock, ConnectBlockLateError, FastConnectFails, CallDbError,
       ReorgToMoreWork, DetachBlock,
       AttachCheckPasses, AttachBlock, FlushBlockIndex, ReorgDone, SettleReorg, FlushCache, Restart,
       Return, Accepted, callVars
  <2> QED BY <2>1, <2>2, <2>3, <2>4, <2>1a, Zenon
<1> QED BY <1>1, Invariance, PTL DEF Spec, PanicOnlyOnDbError
-----------------------------------------------------------------------------
(* The refinement *)

(* Steps that leave the best chain alone as far as RefineInv is concerned. *)
Quiet ==
    /\ disk' = disk
    /\ index \subseteq index'
    /\ pc' = "reorg" => pc = "reorg" /\ (phase' = "rev" \/ UNCHANGED reorgVars)

(* RefineInv is inductive relative to IInv. *)
LEMMA NextRefineInv == IInv /\ RefineInv /\ [Next]_vars => RefineInv'
<1> SUFFICES ASSUME IInv, RefineInv, [Next]_vars PROVE RefineInv'
  BY Zenon
<1>0. TypeOK /\ DataOK
  BY Zenon DEF IInv
<1>1. CASE Quiet
  BY <1>1, Zenon DEF Quiet, RefineInv, reorgVars
<1>2. CASE Restart
  BY <1>2, Zenon DEF Restart, Return, RefineInv
<1>3. CASE FlushCache
  <2>1. db.index \subseteq index
    BY <1>0, Zenon DEF TypeOK, DataOK, MemoryMatchesDatabase, TreeOK, Database
  <2> QED BY <1>3, <2>1, Zenon DEF FlushCache, RefineInv, memVars, callVars, reorgVars
<1>4. CASE \E b \in Block : ForceHeadReorganization(b)
  <2>1. PICK b \in Block : ForceHeadReorganization(b)
    BY <1>4, Zenon
  <2>2. b \notin {tip, Genesis} /\ Parent[b] = Parent[tip] /\ StartReorg(b)
    BY <2>1, Zenon DEF ForceHeadReorganization
  <2> QED BY <2>2, Zenon DEF StartReorg, RefineInv, dbVars
<1>5. CASE ReorgToMoreWork
  BY <1>5, Zenon DEF ReorgToMoreWork, StartReorg, RefineInv, dbVars
<1>6. CASE Next /\ ~Restart /\ ~FlushCache /\ ~ReorgToMoreWork /\ ~(\E b \in Block : ForceHeadReorganization(b))
  <2>1. CASE CallStep
    <3>1. CASE ProcessNextOrphan \/ ProcessOrphansNextHash \/ RejectBlock \/ StoreBlock
      BY <1>1, <3>1, Zenon DEF ProcessNextOrphan, ProcessOrphansNextHash, RejectBlock, StoreBlock, Return, memVars, dbVars,
                  Quiet
    <3>2. CASE IndexBlock \/ IndexBlockFails
      BY <1>1, <3>2, Zenon DEF IndexBlock, IndexBlockFails, AddNode, Return, dbVars, Quiet
    <3>3. CASE \/ ExtendInvalid \/ ExtendValid \/ StaySideChain \/ ConnectBlock \/ FastConnectFails
               \/ CallDbError \/ ConnectBlockLateError
      BY <1>1, <3>3, Zenon DEF ExtendInvalid, ExtendValid, StaySideChain, ConnectBlock, ConnectBlockLateError, FastConnectFails, CallDbError,
                  Return, Accepted, memVars, dbVars, Quiet
    <3>4. CASE \/ DetachBlock \/ FlushBlockIndex \/ ReorgDone
               \/ \E n \in Block : AttachCheckPasses(n) \/ AttachBlock(n)
      BY <1>1, <3>4, Zenon DEF DetachBlock, AttachCheckPasses, AttachBlock, FlushBlockIndex, ReorgDone, memVars, dbVars,
                  callVars, Quiet
    <3>5. CASE ReorgDbError \/ \E n \in Block : AttachCheckFails(n) \/ AttachMissingInputs(n) \/ AttachBlockLateError(n)
      BY <1>1, <3>5, Zenon DEF ReorgDbError, AttachBlockLateError, AttachCheckFails, AttachMissingInputs, NextAttach, ReorgFails, memVars, dbVars, Quiet
    <3>6. CASE SettleReorg
      BY <1>1, <3>6, Zenon DEF SettleReorg, Return, Accepted, Quiet
    <3> QED BY <1>1, <1>6, <2>1, <3>1, <3>2, <3>3, <3>4, <3>5, <3>6, Zenon DEF CallStep
  <2>2. CASE (\E b \in Block : ProcessOrphanBlock(b)) \/ (\E b \in Block, f \in BOOLEAN : ProcessBlock(b, f))
    BY <1>1, <2>2, Zenon DEF ProcessOrphanBlock, ProcessBlock, memVars, dbVars, callVars, reorgVars, Quiet
  <2> QED BY <1>6, <2>1, <2>2, Zenon DEF Next
<1>7. CASE UNCHANGED vars
  BY <1>1, <1>7, Zenon DEF Quiet, vars, memVars, dbVars, callVars, reorgVars
<1> QED BY <1>2, <1>3, <1>4, <1>5, <1>6, <1>7, Zenon

(* A tip that is known valid is vetted. *)
LEMMA ValidIsVetted ==
    ASSUME NEW st \in [Block -> SUBSET Flag], NEW idx, StatusOK(st, idx), NEW t \in Block, "valid" \in st[t]
    PROVE  Promise!Vetted(t)
<1>1. \A a \in Anc[t] : a \in Block /\ "valid" \in st[a]
  BY TreeAssumption, Zenon DEF StatusOK, ValidClosed
<1> QED BY <1>1, Zenon DEF Promise!Vetted, StatusOK, Checked, Linked

(* Steps that do not show: neither the index nor the settled tip changes. *)
Hidden ==
    /\ index' = index
    /\ crashes' = crashes
    /\ \/ pc \notin {"reorg", "panic"} /\ pc' \notin {"reorg", "panic"} /\ tip' = tip
       \/ pc \notin {"reorg", "panic"} /\ pc' = "reorg" /\ orig' = tip
       \/ pc \in {"reorg", "panic"} /\ pc' \in {"reorg", "panic"} /\ orig' = orig

(* Every step of BlockChain is a step of BestChain or does not show. *)
LEMMA NextSimulates == IInv /\ IInv' /\ RefineInv /\ [Next]_vars => [Promise!Next]_(Promise!vars)
<1> SUFFICES ASSUME IInv, IInv', RefineInv, [Next]_vars
             PROVE  Promise!Next \/ (index' = index /\ SettledTip' = SettledTip /\ crashes' = crashes)
  BY Zenon DEF Promise!vars
<1>0. TypeOK /\ DataOK /\ AcceptOK /\ ReorgOK /\ TypeOK' /\ DataOK'
  BY Zenon DEF IInv
<1>1. CASE Hidden
  BY <1>1, Zenon DEF Hidden, SettledTip
<1>2. CASE IndexBlock \/ IndexBlockFails
  <2>1. /\ cur \in Block /\ cur \notin index /\ Parent[cur] \in index
        /\ index' = index \cup {cur} /\ SettledTip' = SettledTip /\ crashes' = crashes
    BY <1>0, <1>2, Zenon DEF faultVars, DbError, IndexBlock, IndexBlockFails, AddNode, AcceptOK, Return, SettledTip
  <2> QED BY <2>1, Zenon DEF Promise!Next, Promise!Learn
<1>3. CASE ConnectBlock \/ ConnectBlockLateError
  <2>1. /\ cur \in Block \ {Genesis} /\ cur \in index /\ KnownValid(cur) /\ Parent[cur] = tip
        /\ index' = index /\ SettledTip' = cur /\ SettledTip = tip /\ crashes' = crashes
    BY <1>0, <1>3, Zenon DEF faultVars, DbError, ConnectBlock, ConnectBlockLateError, AcceptOK, Accepted, Return, SettledTip
  <2>2. WorkSum[cur] > WorkSum[tip]
    BY <1>0, <2>1, WorkAssumption, Zenon DEF TypeOK
  <2>3. Promise!Vetted(cur)
    BY <1>0, <2>1, ValidIsVetted, Zenon DEF KnownValid, DataOK, TypeOK
  <2>4. Promise!Advance(cur)
    BY <2>1, <2>2, <2>3, Zenon DEF Promise!Advance
  <2> QED BY <2>1, <2>4, Zenon DEF Promise!Next
<1>4. CASE ReorgDone
  <2>1. /\ index' = index /\ tip' = tip /\ tip = target /\ target \in index /\ tip \in Block
        /\ SettledTip' = target /\ SettledTip = orig /\ crashes' = crashes
        /\ (phase = "rev" => target = orig)
    BY <1>0, <1>4, Zenon DEF ReorgDone, memVars, faultVars, reorgVars, SettledTip, ReorgOK, TypeOK
  <2>2. Promise!Vetted(target)
    BY <1>0, <2>1, ValidIsVetted, Zenon DEF KnownValid, DataOK, TypeOK
  <2>3. CASE phase = "rev"
    BY <2>1, <2>3, Zenon
  <2>4. CASE phase = "fwd" /\ WorkSum[target] > WorkSum[orig]
    BY <2>1, <2>2, <2>4, Zenon DEF Promise!Next, Promise!Advance
  <2>5. CASE phase = "fwd" /\ target \notin {orig, Genesis} /\ Parent[target] = Parent[orig]
    BY <2>1, <2>2, <2>5, Zenon DEF Promise!Next, Promise!SwitchSibling
  <2> QED BY <1>0, <1>4, <2>3, <2>4, <2>5, Zenon DEF RefineInv, ReorgDone, TypeOK, Phase
<1>5. CASE Restart
  <2>1. index' \subseteq index /\ SettledTip' = tip' /\ crashes' = crashes + 1
    BY <1>5, Zenon DEF Restart, Return, RefineInv, SettledTip
  <2>2. tip' \in index' /\ \A b \in index' : Anc[b] \subseteq index'
    BY <1>0, <1>5, Zenon DEF Restart, DataOK, DatabaseConsistent, Consistent, TreeOK
  <2>3. Promise!Vetted(tip')
    <3>1. tip' \in Block /\ status' \in [Block -> SUBSET Flag] /\ "valid" \in status'[tip'] /\ StatusOK(status, index)'
      BY <1>0, Zenon DEF TypeOK, DataOK, KnownValid
    <3>2. \A a \in Anc[tip'] : a \in Block /\ "valid" \in status'[a]
      BY <3>1, TreeAssumption, Zenon DEF StatusOK, ValidClosed
    <3> QED BY <3>1, <3>2, Zenon DEF Promise!Vetted, StatusOK, Checked, Linked
  <2> QED BY <2>1, <2>2, <2>3, Zenon DEF Promise!Next, Promise!Recover
<1>6. CASE Next /\ ~(IndexBlock \/ IndexBlockFails \/ ConnectBlock \/ ConnectBlockLateError \/ ReorgDone \/ Restart)
  <2>1. CASE CallStep
    <3>1. CASE ProcessNextOrphan \/ ProcessOrphansNextHash \/ RejectBlock \/ StoreBlock
      BY <1>1, <3>1, Zenon DEF ProcessNextOrphan, ProcessOrphansNextHash, RejectBlock, StoreBlock, Return, memVars, faultVars,
                  Hidden
    <3>0. ASSUME NEW st, NEW mod, FlushWarnOnly(st, mod) PROVE crashes' = crashes
      BY <3>0, Zenon DEF FlushWarnOnly, DbError, faultVars
    <3>2. CASE ExtendInvalid \/ ExtendValid \/ StaySideChain \/ FastConnectFails \/ CallDbError
      <4>1. crashes' = crashes
        BY <3>0, <3>2, Zenon DEF ExtendInvalid, ExtendValid, StaySideChain, FastConnectFails, CallDbError, DbError, faultVars
      <4> QED BY <1>1, <3>2, <4>1, Zenon DEF ExtendInvalid, ExtendValid, StaySideChain, FastConnectFails, CallDbError, Return,
                  Accepted, memVars, Hidden
    <3>3. CASE ReorgToMoreWork
      BY <1>1, <3>3, Zenon DEF ReorgToMoreWork, StartReorg, faultVars, Hidden
    <3>4. CASE DetachBlock \/ \E n \in Block : AttachCheckPasses(n) \/ AttachBlock(n)
      BY <1>1, <3>4, Zenon DEF DetachBlock, AttachCheckPasses, AttachBlock, NextAttach, callVars, reorgVars, faultVars, Hidden
    <3>5. CASE FlushBlockIndex
      BY <1>0, <1>1, <3>5, Zenon DEF FlushBlockIndex, NextAttach, callVars, reorgVars, faultVars, Hidden, TypeOK, Step
    <3>6. CASE ReorgDbError \/ \E n \in Block : AttachCheckFails(n) \/ AttachMissingInputs(n) \/ AttachBlockLateError(n)
      BY <1>1, <3>6, Zenon DEF ReorgDbError, AttachBlockLateError, AttachCheckFails, AttachMissingInputs, NextAttach, ReorgFails, reorgVars, memVars, faultVars, DbError, Hidden
    <3>7. CASE SettleReorg
      BY <1>1, <3>0, <3>7, Zenon DEF SettleReorg, Return, Accepted, Hidden
    <3> QED BY <1>1, <1>6, <2>1, <3>1, <3>2, <3>3, <3>4, <3>5, <3>6, <3>7, Zenon DEF CallStep
  <2>2. CASE ~CallStep
    <3>1. CASE \E b \in Block : ForceHeadReorganization(b)
      BY <1>1, <3>1, Zenon DEF ForceHeadReorganization, StartReorg, faultVars, Hidden
    <3>2. CASE (\E b \in Block : ProcessOrphanBlock(b)) \/ (\E b \in Block, f \in BOOLEAN : ProcessBlock(b, f))
      BY <1>1, <3>2, Zenon DEF ProcessOrphanBlock, ProcessBlock, memVars, callVars, faultVars, Hidden
    <3>3. CASE FlushCache
      BY <1>1, <3>3, Zenon DEF FlushCache, memVars, callVars, reorgVars, faultVars, SettledTip
    <3> QED BY <1>1, <1>6, <2>2, <3>1, <3>2, <3>3, Zenon DEF Next
  <2> QED BY <2>1, <2>2, Zenon
<1>7. CASE UNCHANGED vars
  BY <1>7, Zenon DEF vars, memVars, callVars, reorgVars, faultVars, SettledTip
<1> QED BY <1>2, <1>3, <1>4, <1>5, <1>6, <1>7, Zenon DEF Next, CallStep

(* The block chain core implements BestChain: a reorganise, however many    *)
(* blocks it detaches and attaches, is one step to a vetted chain with more *)
(* work or to a sibling, and one that fails changes nothing.                *)
THEOREM Refinement == Spec => ImplementsBestChain
<1>1. Init => RefineInv /\ Promise!Init
  BY Zenon DEF Init, FreshDb, RefineInv, Promise!Init, SettledTip
<1>2. IInv /\ RefineInv /\ [Next]_vars => RefineInv'
  BY NextRefineInv, Zenon
<1>3. IInv /\ IInv' /\ RefineInv /\ [Next]_vars => [Promise!Next]_(Promise!vars)
  BY NextSimulates, Zenon
<1> QED BY <1>1, <1>2, <1>3, Invariance, PTL DEF Spec, ImplementsBestChain, Promise!Spec
-----------------------------------------------------------------------------
(* Best chain selection *)

(* A step of a call that moves between the stages at which the best chain   *)
(* is settled, without a new node or another tip.                           *)
Settled ==
    /\ UNCHANGED <<index, tip>>
    /\ pc \in {"idle", "accept", "index", "orphans", "settle"}
    /\ pc' \in {"idle", "accept", "index", "orphans", "settle"}

(* The number of faults never falls back to zero. *)
LEMMA FaultsStay ==
    ASSUME TypeOK, [Next]_vars, crashes' = 0, dbErrors' = 0
    PROVE  crashes = 0 /\ dbErrors = 0
<1>1. ASSUME NEW st, NEW mod, FlushWarnOnly(st, mod)
      PROVE  (UNCHANGED faultVars) \/ DbError
  BY <1>1, Zenon DEF FlushWarnOnly
<1>2. (UNCHANGED faultVars) \/ DbError \/ Restart
  <2>1. CASE CallStep
    BY <1>1, <2>1, ZenonT(30) DEF CallStep, ProcessNextOrphan, ProcessOrphansNextHash, RejectBlock, StoreBlock, IndexBlock,
       IndexBlockFails, ExtendInvalid, ExtendValid, StaySideChain, ConnectBlock, ConnectBlockLateError, FastConnectFails, CallDbError,
       ReorgToMoreWork, StartReorg, DetachBlock, AttachCheckPasses, AttachCheckFails, AttachBlock, AttachBlockLateError,
       AttachMissingInputs, FlushBlockIndex, ReorgDbError, ReorgDone, SettleReorg
  <2> QED BY <2>1, Zenon DEF Next, ProcessOrphanBlock, ProcessBlock, ForceHeadReorganization, StartReorg, FlushCache, vars
<1> QED BY <1>2 DEF faultVars, DbError, Restart, TypeOK

(* A block with a known invalid block or a block with missing inputs on its *)
(* branch breaks a rule there.                                              *)
LEMMA InvalidIsUnsound ==
    ASSUME TypeOK, DataOK, NEW t \in Block, NEW n \in Anc[t], KnownInvalid(n)
    PROVE  Anc[t] \cap Bad # {}
<1>1. n \in Block /\ Anc[n] \subseteq Anc[t] /\ n \in Anc[n]
  BY TreeAssumption, AncSelf, Zenon
<1>2. PICK a \in Anc[n] : "failed" \in status[a]
  BY <1>1, Zenon DEF KnownInvalid, DataOK, StatusOK, InvalidSound
<1>3. a \in Block
  BY <1>1, <1>2, TreeAssumption, Zenon
<1> QED BY <1>1, <1>2, <1>3, Zenon DEF DataOK, StatusOK, InvalidSound

(* A reorganise that starts leaves the one block that may be heavier as its *)
(* target, or has found that it breaks a rule.                              *)
LEMMA StartReorgSelects ==
    ASSUME TypeOK, DataOK, NEW t \in index, StartReorg(t), NoneHeavier(index \ {t}, tip)
    PROVE  /\ pc' = "reorg" => NoneHeavier(IF phase = "fwd" THEN index \ {target} ELSE index, orig)'
           /\ pc' = "settle" => HeaviestSoundTip'
           /\ pc' \in {"reorg", "settle"}
<1>1. orig' = tip /\ UNCHANGED <<index, tip>> /\ t \in Block
  BY Zenon DEF StartReorg, TypeOK
<1>2. CASE PathInvalid(t) = {}
  BY <1>1, <1>2, Zenon DEF StartReorg, NoneHeavier
<1>3. CASE PathInvalid(t) # {}
  <2>1. PICK n \in Anc[t] : KnownInvalid(n)
    BY <1>3, Zenon DEF PathInvalid
  <2>2. Anc[t] \cap Bad # {}
    BY <1>1, <2>1, InvalidIsUnsound, Zenon
  <2>3. NoneHeavier(index, tip)
    BY <2>2, Zenon DEF NoneHeavier
  <2> QED BY <1>1, <1>3, <2>3, Zenon DEF StartReorg, HeaviestSoundTip, NoneHeavier
<1> QED BY <1>2, <1>3, Zenon

(* A reorganise that fails because its target breaks a rule leaves nothing  *)
(* heavier than the chain it goes back to.                                  *)
LEMMA ReorgFailsSelects ==
    ASSUME TypeOK, pc = "reorg", NEW st, ReorgFails(st), index' = index, target \in Block,
           NEW n \in Anc[target] \cap Bad,
           NoneHeavier(IF phase = "fwd" THEN index \ {target} ELSE index, orig)
    PROVE  /\ pc' = "reorg" => NoneHeavier(IF phase = "fwd" THEN index \ {target} ELSE index, orig)'
           /\ pc' \in {"reorg", "panic"}
<1>1. NoneHeavier(index, orig)
  BY Zenon DEF NoneHeavier
<1>2. CASE pc' = "panic"
  BY <1>2, Zenon
<1>3. CASE pc' # "panic"
  <2>1. phase' = "rev" /\ orig' = orig /\ pc' = pc
    BY <1>3, Zenon DEF ReorgFails
  <2> QED BY <1>1, <2>1, Zenon DEF NoneHeavier
<1> QED BY <1>2, <1>3, Zenon

(* SelectionOK is inductive relative to the other two invariants. *)
LEMMA NextSelection ==
    ASSUME SiblingWork, IInv, RefineInv, SelectionOK, [Next]_vars
    PROVE  SelectionOK'
<1> SUFFICES ASSUME crashes' = 0, dbErrors' = 0
             PROVE  /\ pc' \in {"idle", "accept", "index", "orphans", "settle"} => HeaviestSoundTip'
                    /\ pc' \in {"best", "connect"} => NoneHeavier(index \ {cur}, tip)'
                    /\ pc' = "reorg" => NoneHeavier(IF phase = "fwd" THEN index \ {target} ELSE index, orig)'
  BY Zenon DEF SelectionOK
<1>0. TypeOK /\ DataOK /\ AcceptOK /\ ReorgOK
  BY Zenon DEF IInv
<1>1. crashes = 0 /\ dbErrors = 0
  BY <1>0, FaultsStay, Zenon
<1>2. ~DbError /\ ~Restart
  BY <1>0, <1>1 DEF DbError, Restart, TypeOK
<1>3. /\ pc \in {"idle", "accept", "index", "orphans", "settle"} => HeaviestSoundTip
      /\ pc \in {"best", "connect"} => NoneHeavier(index \ {cur}, tip)
      /\ pc = "reorg" => NoneHeavier(IF phase = "fwd" THEN index \ {target} ELSE index, orig)
  BY <1>1, Zenon DEF SelectionOK
<1>4. CASE Settled
  BY <1>3, <1>4, Zenon DEF Settled, HeaviestSoundTip, NoneHeavier
<1>5. CASE CallStep
  <2>1. CASE ProcessNextOrphan \/ ProcessOrphansNextHash \/ RejectBlock \/ StoreBlock
    BY <1>4, <2>1, Zenon DEF ProcessNextOrphan, ProcessOrphansNextHash, RejectBlock, StoreBlock, Return, memVars, Settled
  <2>2. CASE IndexBlock
    <3>1. index' = index \cup {cur} /\ cur' = cur /\ tip' = tip /\ pc = "index" /\ pc' = "best"
      BY <2>2, Zenon DEF IndexBlock, AddNode
    <3> QED BY <1>3, <3>1, Zenon DEF HeaviestSoundTip, NoneHeavier
  <2>3. CASE ExtendInvalid
    <3>1. cur \in Bad /\ pc = "best" /\ pc' = "idle" /\ UNCHANGED <<index, tip>> /\ cur \in Block
      BY <1>0, <2>3, Zenon DEF ExtendInvalid, Return, AcceptOK
    <3>2. NoneHeavier(index, tip)
      BY <1>3, <3>1, AncSelf, Zenon DEF NoneHeavier
    <3> QED BY <3>1, <3>2, Zenon DEF HeaviestSoundTip, NoneHeavier
  <2>4. CASE ExtendValid
    BY <1>3, <2>4, Zenon DEF ExtendValid, NoneHeavier
  <2>5. CASE StaySideChain
    <3>1. WorkSum[cur] <= WorkSum[tip] /\ pc = "best" /\ pc' = "orphans" /\ UNCHANGED <<index, tip>>
      BY <2>5, Zenon DEF StaySideChain, Accepted, memVars
    <3> QED BY <1>3, <3>1, Zenon DEF HeaviestSoundTip, NoneHeavier
  <2>6. CASE ConnectBlock
    <3>1. /\ pc = "connect" /\ pc' = "orphans" /\ index' = index /\ tip' = cur
          /\ cur \in Block \ {Genesis} /\ Parent[cur] = tip /\ tip \in Block /\ index \subseteq Block
      BY <1>0, <2>6, Zenon DEF ConnectBlock, Accepted, AcceptOK, TypeOK
    <3>2. WorkSum[tip] < WorkSum[cur] /\ \A b \in index : WorkSum[b] \in Nat
      BY <3>1, WorkAssumption, Zenon
    <3>3. NoneHeavier(index, cur)
      BY <1>3, <3>1, <3>2, WorkAssumption DEF NoneHeavier
    <3> QED BY <3>1, <3>3, Zenon DEF HeaviestSoundTip, NoneHeavier
  <2>7. CASE FastConnectFails
    <3>1. cur \in Bad /\ pc = "connect" /\ pc' = "idle" /\ UNCHANGED <<index, tip>> /\ cur \in Block
      BY <1>0, <2>7, RuleAssumption, Zenon DEF FastConnectFails, Return, AcceptOK, memVars
    <3>2. NoneHeavier(index, tip)
      BY <1>3, <3>1, AncSelf, Zenon DEF NoneHeavier
    <3> QED BY <3>1, <3>2, Zenon DEF HeaviestSoundTip, NoneHeavier
  <2>8. CASE ReorgToMoreWork
    <3>1. cur \in index /\ pc = "best" /\ StartReorg(cur)
      BY <1>0, <2>8, Zenon DEF ReorgToMoreWork, AcceptOK
    <3> QED BY <1>0, <1>3, <3>1, StartReorgSelects, Zenon
  <2>9. CASE DetachBlock \/ \E n \in Block : AttachCheckPasses(n) \/ AttachBlock(n)
    <3>1. pc = "reorg" /\ pc' = pc /\ UNCHANGED <<index, target, orig, phase>>
      BY <2>9, Zenon DEF DetachBlock, AttachCheckPasses, AttachBlock, NextAttach, callVars, reorgVars
    <3> QED BY <1>3, <3>1, Zenon DEF NoneHeavier
  <2>10. CASE \E n \in Block : AttachCheckFails(n) \/ AttachMissingInputs(n)
    <3>1. PICK n \in Block : AttachCheckFails(n) \/ AttachMissingInputs(n)
      BY <2>10, Zenon
    <3>2. pc = "reorg" /\ n \in Anc[target] \cap Bad /\ index' = index /\ target \in Block
      BY <1>0, <3>1, RuleAssumption, Zenon DEF AttachCheckFails, AttachMissingInputs, NextAttach, memVars, ReorgOK, TypeOK
    <3>3. \E st : ReorgFails(st)
      BY <3>1, Zenon DEF AttachCheckFails, AttachMissingInputs
    <3> QED BY <1>0, <1>3, <3>2, <3>3, ReorgFailsSelects, Zenon
  <2>11. CASE FlushBlockIndex
    <3>1. pc' = pc /\ UNCHANGED <<index, tip, cur, target, orig, phase>>
      BY <2>11, Zenon DEF FlushBlockIndex, callVars, reorgVars
    <3> QED BY <1>3, <3>1, Zenon DEF HeaviestSoundTip, NoneHeavier
  <2>12. CASE ReorgDone
    <3>1. /\ pc = "reorg" /\ pc' = "settle" /\ tip = target /\ UNCHANGED <<index, tip>>
          /\ target \in Block /\ orig \in Block /\ index \subseteq Block
          /\ phase \in Phase /\ (phase = "rev" => target = orig)
      BY <1>0, <2>12, Zenon DEF ReorgDone, memVars, ReorgOK, TypeOK
    <3>2. WorkSum[target] \in Nat /\ WorkSum[orig] \in Nat /\ \A b \in index : WorkSum[b] \in Nat
      BY <3>1, WorkAssumption, Zenon
    <3>3. WorkSum[orig] <= WorkSum[target]
      <4>1. CASE phase = "rev"
        BY <3>1, <3>2, <4>1
      <4>2. CASE phase = "fwd" /\ WorkSum[target] > WorkSum[orig]
        BY <3>2, <4>2
      <4>3. CASE target \notin {orig, Genesis} /\ Parent[target] = Parent[orig]
        <5>1. CASE orig = Genesis
          BY <3>1, <3>2, <4>3, <5>1, TreeAssumption, WorkAssumption, SMTT(30)
        <5>2. CASE orig # Genesis
          BY <3>1, <3>2, <4>3, <5>2, SMTT(30) DEF SiblingWork
        <5> QED BY <5>1, <5>2, Zenon
      <4> QED BY <3>1, <4>1, <4>2, <4>3, Zenon DEF RefineInv
    <3>4. NoneHeavier(index, target)
      BY <1>3, <3>1, <3>2, <3>3, SMTT(30) DEF NoneHeavier
    <3> QED BY <3>1, <3>4, Zenon DEF HeaviestSoundTip, NoneHeavier
  <2>13. CASE SettleReorg
    BY <1>4, <2>13, Zenon DEF SettleReorg, Return, Accepted, Settled
  <2> QED BY <1>2, <1>5, <2>1, <2>2, <2>3, <2>4, <2>5, <2>6, <2>7, <2>8, <2>9, <2>10, <2>11, <2>12, <2>13, ZenonT(30)
          DEF CallStep, IndexBlockFails, CallDbError, ReorgDbError, ConnectBlockLateError, AttachBlockLateError
<1>6. CASE \E b \in Block : ForceHeadReorganization(b)
  <2>1. PICK b \in Block : ForceHeadReorganization(b)
    BY <1>6, Zenon
  <2>2. b \in index /\ StartReorg(b) /\ NoneHeavier(index \ {b}, tip)
    BY <1>3, <2>1, ZenonT(30) DEF ForceHeadReorganization, HeaviestSoundTip, NoneHeavier
  <2> QED BY <1>0, <2>2, StartReorgSelects, Zenon
<1>7. CASE (\E b \in Block : ProcessOrphanBlock(b)) \/ (\E b \in Block, f \in BOOLEAN : ProcessBlock(b, f))
  BY <1>4, <1>7, Zenon DEF ProcessOrphanBlock, ProcessBlock, memVars, callVars, Settled
<1>8. CASE FlushCache \/ UNCHANGED vars
  <2>1. pc' = pc /\ UNCHANGED <<index, tip, cur, target, orig, phase>>
    BY <1>8, Zenon DEF FlushCache, vars, memVars, callVars, reorgVars
  <2> QED BY <1>3, <2>1, Zenon DEF HeaviestSoundTip, NoneHeavier
<1> QED BY <1>2, <1>5, <1>6, <1>7, <1>8, Zenon DEF Next

(* Initially the genesis block is the only one. *)
LEMMA InitSelection == Init => SelectionOK
BY WorkAssumption, TreeAssumption DEF Init, FreshDb, SelectionOK, HeaviestSoundTip, NoneHeavier

(* MostWork: while nothing has failed, connectBestChain leaves the chain    *)
(* with the most work among those that break no rule as the best chain,     *)
(* through side chains, failed reorganises and forced ones, on a network    *)
(* where the required difficulty depends on the parent alone.               *)
THEOREM MostWorkIsBest ==
    ASSUME SiblingWork
    PROVE  Spec => []MostWork
<1>1. Init => RefineInv /\ SelectionOK
  BY InitSelection, Zenon DEF Init, FreshDb, RefineInv
<1>2. IInv /\ RefineInv /\ [Next]_vars => RefineInv'
  BY NextRefineInv, Zenon
<1>3. IInv /\ RefineInv /\ SelectionOK /\ [Next]_vars => SelectionOK'
  BY NextSelection, Zenon
<1>4. SelectionOK => MostWork
  BY Zenon DEF SelectionOK, MostWork
<1> QED BY <1>1, <1>2, <1>3, <1>4, Invariance, PTL DEF Spec
=============================================================================
