--------------------------- MODULE BlockChainSteps ----------------------------
(***************************************************************************)
(* What the theorems about BlockChain rest on: facts about sequences, the  *)
(* block tree, status flags, the utxo set, the database and the orphan     *)
(* pool; that IInv holds initially; and that the actions of the orphan     *)
(* pool and of accepting a block keep it, with one lemma per action that   *)
(* changes the data IInv is about and one for each group of actions that   *)
(* only moves the running call on.                                         *)
(***************************************************************************)
EXTENDS BlockChain, TLAPS

-----------------------------------------------------------------------------
(* What the proofs use about sequences *)

(* The elements of a sequence of blocks are blocks. *)
LEMMA SeqElement ==
    ASSUME NEW S, NEW s \in Seq(S), NEW i \in 1..Len(s)
    PROVE  s[i] \in S
  OBVIOUS

(* A sequence is a function on an initial segment of the naturals. *)
LEMMA SeqLen ==
    ASSUME NEW S, NEW s \in Seq(S)
    PROVE  Len(s) \in Nat /\ s \in [1..Len(s) -> S] /\ DOMAIN s = 1..Len(s)
  OBVIOUS

(* Only the empty sequence has no elements. *)
LEMMA SeqEmpty ==
    ASSUME NEW S
    PROVE  /\ <<>> \in Seq(S) /\ Len(<<>>) = 0
           /\ \A s \in Seq(S) : s # <<>> => Len(s) \in Nat \ {0}
  OBVIOUS

(* Appending leaves the elements before where they are. *)
LEMMA SeqAppend ==
    ASSUME NEW S, NEW s \in Seq(S), NEW e \in S
    PROVE  /\ Append(s, e) \in Seq(S)
           /\ Len(Append(s, e)) = Len(s) + 1
           /\ \A i \in 1..Len(s) : Append(s, e)[i] = s[i]
           /\ Append(s, e)[Len(s) + 1] = e
<1>1. Append(s, e) \in Seq(S) /\ Len(Append(s, e)) = Len(s) + 1
  OBVIOUS
<1>2. \A i \in 1..Len(s) : Append(s, e)[i] = s[i]
  OBVIOUS
<1>3. Append(s, e)[Len(s) + 1] = e
  OBVIOUS
<1> QED BY <1>1, <1>2, <1>3, Zenon

(* A tail is shifted by one. *)
LEMMA SeqTail ==
    ASSUME NEW S, NEW s \in Seq(S), s # <<>>
    PROVE  /\ Head(s) \in S /\ Tail(s) \in Seq(S)
           /\ Len(Tail(s)) = Len(s) - 1
           /\ \A i \in 1..Len(Tail(s)) : Tail(s)[i] = s[i + 1]
  OBVIOUS

(* A window of a sequence is shifted by its start. *)
LEMMA SeqSub ==
    ASSUME NEW S, NEW s, NEW m \in Int, NEW n \in Int, \A i \in m..n : s[i] \in S
    PROVE  /\ SubSeq(s, m, n) \in Seq(S)
           /\ Len(SubSeq(s, m, n)) = IF m <= n THEN n - m + 1 ELSE 0
           /\ \A i \in 1..(n - m + 1) : SubSeq(s, m, n)[i] = s[m + i - 1]
  OBVIOUS

(* Concatenation keeps the first and shifts the second. *)
LEMMA SeqConcat ==
    ASSUME NEW S, NEW s \in Seq(S), NEW t \in Seq(S)
    PROVE  /\ s \o t \in Seq(S)
           /\ Len(s \o t) = Len(s) + Len(t)
           /\ \A i \in 1..(Len(s) + Len(t)) : (s \o t)[i] = IF i <= Len(s) THEN s[i] ELSE t[i - Len(s)]
  OBVIOUS

-----------------------------------------------------------------------------
(* The block tree *)

(* A block is one of its own ancestors. *)
LEMMA AncSelf == \A b \in Block : b \in Anc[b]
  BY TreeAssumption

(* The branch of a block is that of its parent with the block added. *)
LEMMA AncStep ==
    \A n \in Block \ {Genesis} :
        /\ Anc[n] = Anc[Parent[n]] \cup {n}
        /\ n \notin Anc[Parent[n]]
        /\ Parent[n] \in Block
        /\ Parent[n] \in Anc[n]
  BY TreeAssumption, AncSelf

-----------------------------------------------------------------------------
(* How marking blocks preserves the meaning of their status *)

(* Marking a block valid on top of a valid parent, after a check it passed  *)
(* or may skip, keeps every status meaningful.                              *)
LEMMA MarkValid ==
    ASSUME NEW st \in [Block -> SUBSET Flag], NEW idx \in SUBSET Block,
           StatusOK(st, idx),
           NEW n \in idx, n # Genesis,
           "valid" \in st[Parent[n]],
           "failed" \notin st[n],
           n \in Bad => Linked(n)
    PROVE  /\ WithFlag(st, {n}, "valid") \in [Block -> SUBSET Flag]
           /\ StatusOK(WithFlag(st, {n}, "valid"), idx)
<1> DEFINE new == WithFlag(st, {n}, "valid")
<1>1. new \in [Block -> SUBSET Flag] /\ new[n] = st[n] \cup {"valid"} /\ \A b \in Block \ {n} : new[b] = st[b]
  BY Zenon DEF WithFlag, Flag
<1> HIDE DEF new
<1>2. \A a \in Anc[Parent[n]] : st[a] = {"valid"}
  BY AncStep, TreeAssumption, Zenon DEF StatusOK, ValidClosed, Exclusive
<1>3. "ancestor" \notin st[n]
  <2>1. \A a \in Anc[n] \ {n} : "failed" \notin st[a]
    BY <1>2, AncStep
  <2> QED BY <2>1, Zenon DEF StatusOK, InvalidSound
<1>4. new[n] = {"valid"}
  BY <1>1, <1>3, Zenon DEF Flag
<1>5. ValidClosed(new)
  <2> SUFFICES ASSUME NEW b \in Block, "valid" \in new[b], NEW a \in Anc[b]
               PROVE  "valid" \in new[a]
    BY Zenon DEF ValidClosed
  <2>0. a \in Block
    BY TreeAssumption, Zenon
  <2>1. CASE b = n
    BY <2>0, <2>1, <1>1, <1>2, <1>4, AncStep
  <2>2. CASE b # n
    BY <2>0, <2>2, <1>1, Zenon DEF StatusOK, ValidClosed
  <2> QED BY <2>1, <2>2, Zenon
<1>6. InvalidSound(new)
  <2> SUFFICES ASSUME NEW b \in Block
               PROVE  /\ "failed" \in new[b] => b \in Bad
                      /\ "ancestor" \in new[b] => \E a \in Anc[b] \ {b} : "failed" \in new[a]
    BY Zenon DEF InvalidSound
  <2>1. \A a \in Block : "failed" \in st[a] => "failed" \in new[a]
    BY <1>1, Zenon
  <2>2. \A a \in Anc[b] : a \in Block
    BY TreeAssumption, Zenon
  <2> QED BY <1>1, <1>4, <2>1, <2>2 DEF StatusOK, InvalidSound
<1>7. Checked(new)
  BY <1>1, RuleAssumption, Zenon DEF StatusOK, Checked
<1>8. Exclusive(new)
  BY <1>1, <1>4, Zenon DEF StatusOK, Exclusive
<1>9. Confined(new, idx)
  BY <1>1, Zenon DEF StatusOK, Confined
<1> QED BY <1>1, <1>5, <1>6, <1>7, <1>8, <1>9, Zenon DEF StatusOK, new

(* Marking a block that breaks a rule, and is not known valid, as failed    *)
(* keeps every status meaningful.                                           *)
LEMMA MarkFailed ==
    ASSUME NEW st \in [Block -> SUBSET Flag], NEW idx \in SUBSET Block,
           StatusOK(st, idx),
           NEW n \in idx, n \in Bad, "valid" \notin st[n]
    PROVE  /\ WithFlag(st, {n}, "failed") \in [Block -> SUBSET Flag]
           /\ StatusOK(WithFlag(st, {n}, "failed"), idx)
<1> DEFINE new == WithFlag(st, {n}, "failed")
<1>1. new \in [Block -> SUBSET Flag] /\ new[n] = st[n] \cup {"failed"} /\ \A b \in Block \ {n} : new[b] = st[b]
  BY Zenon DEF WithFlag, Flag
<1> HIDE DEF new
<1>2. \A a \in Block : ("valid" \in new[a] <=> "valid" \in st[a]) /\ ("ancestor" \in new[a] <=> "ancestor" \in st[a])
  BY <1>1
<1>3. \A b \in Block : Anc[b] \subseteq Block
  BY TreeAssumption, Zenon
<1>4. ValidClosed(new)
  BY <1>2, <1>3, Zenon DEF StatusOK, ValidClosed
<1>5. InvalidSound(new)
  <2>1. \A a \in Block : "failed" \in st[a] => "failed" \in new[a]
    BY <1>1, Zenon
  <2> QED BY <1>1, <1>2, <1>3, <2>1, Zenon DEF StatusOK, InvalidSound
<1>6. Checked(new) /\ Exclusive(new) /\ Confined(new, idx)
  BY <1>1, <1>2, RuleAssumption DEF StatusOK, Checked, Exclusive, Confined
<1> QED BY <1>1, <1>4, <1>5, <1>6, Zenon DEF StatusOK, new

(* Marking descendants of a failed block as having an invalid ancestor      *)
(* keeps every status meaningful.                                           *)
LEMMA MarkAncestor ==
    ASSUME NEW st \in [Block -> SUBSET Flag], NEW idx \in SUBSET Block,
           StatusOK(st, idx),
           NEW ms \in SUBSET idx,
           \A m \in ms : /\ "valid" \notin st[m]
                         /\ \E a \in Anc[m] \ {m} : "failed" \in st[a]
    PROVE  /\ WithFlag(st, ms, "ancestor") \in [Block -> SUBSET Flag]
           /\ StatusOK(WithFlag(st, ms, "ancestor"), idx)
<1> DEFINE new == WithFlag(st, ms, "ancestor")
<1>1. /\ new \in [Block -> SUBSET Flag]
      /\ \A b \in ms : new[b] = st[b] \cup {"ancestor"}
      /\ \A b \in Block \ ms : new[b] = st[b]
  BY Zenon DEF WithFlag, Flag
<1> HIDE DEF new
<1>2. \A a \in Block : ("valid" \in new[a] <=> "valid" \in st[a]) /\ ("failed" \in new[a] <=> "failed" \in st[a])
  BY <1>1
<1>3. \A b \in Block : Anc[b] \subseteq Block
  BY TreeAssumption, Zenon
<1>4. ValidClosed(new)
  BY <1>2, <1>3, Zenon DEF StatusOK, ValidClosed
<1>5. InvalidSound(new)
  <2> SUFFICES ASSUME NEW b \in Block
               PROVE  /\ "failed" \in new[b] => b \in Bad
                      /\ "ancestor" \in new[b] => \E a \in Anc[b] \ {b} : "failed" \in new[a]
    BY Zenon DEF InvalidSound
  <2>1. CASE b \in ms
    BY <2>1, <1>2, <1>3, Zenon DEF StatusOK, InvalidSound
  <2>2. CASE b \notin ms
    BY <2>2, <1>1, <1>2, <1>3, Zenon DEF StatusOK, InvalidSound
  <2> QED BY <2>1, <2>2, Zenon
<1>6. Checked(new) /\ Exclusive(new) /\ Confined(new, idx)
  BY <1>1, <1>2, RuleAssumption, Zenon DEF StatusOK, Checked, Exclusive, Confined
<1> QED BY <1>1, <1>4, <1>5, <1>6, Zenon DEF StatusOK, new

-----------------------------------------------------------------------------
(* What the database transactions write *)

(* The elements of UtxoTrees are pairs. *)
LEMMA UtxoPair ==
    \A x \in UtxoTrees : \E b \in Block \ {Genesis}, k \in {"regular", "stake"} : x = <<b, k>>
<1> SUFFICES ASSUME NEW x \in UtxoTrees
             PROVE  \E b \in Block \ {Genesis}, k \in {"regular", "stake"} : x = <<b, k>>
  BY Zenon
<1>1. x[1] \in Block \ {Genesis} /\ x[2] \in {"regular", "stake"} /\ x = <<x[1], x[2]>>
  BY DEF UtxoTrees
<1> QED BY <1>1, Zenon

(* Connecting a block to its parent turns the parent's utxo set into its    *)
(* own: the disapproved regular tree is the only one that goes.             *)
LEMMA UtxoConnect ==
    ASSUME NEW n \in Block \ {Genesis}
    PROVE  ConnectUtxos(UtxoOf(Parent[n]), n) = UtxoOf(n)
<1>1. \A c \in Anc[n] \cap Disapproves : Parent[c] # n
  BY TreeAssumption, RuleAssumption, AncStep, AncSelf, Zenon
<1>2. n \in Disapproves => Parent[n] \in Block \ {Genesis}
  BY RuleAssumption, TreeAssumption, Zenon
<1>3. \A x \in UtxoTrees : x \in ConnectUtxos(UtxoOf(Parent[n]), n) <=> x \in UtxoOf(n)
  <2> SUFFICES ASSUME NEW x \in UtxoTrees
               PROVE  x \in ConnectUtxos(UtxoOf(Parent[n]), n) <=> x \in UtxoOf(n)
    BY Zenon
  <2>0. PICK b \in Block \ {Genesis}, k \in {"regular", "stake"} : x = <<b, k>>
    BY UtxoPair, Zenon
  <2>1. <<b, k>> \in UtxoTrees /\ <<b, k>>[1] = b /\ <<b, k>>[2] = k
    BY Zenon DEF UtxoTrees
  <2>2. <<b, k>> \in UtxoOf(n) <=>
            b \in Anc[n] /\ (k = "regular" => \A c \in Anc[n] \cap Disapproves : Parent[c] # b)
    BY <2>1, Zenon DEF UtxoOf
  <2>3. <<b, k>> \in UtxoOf(Parent[n]) <=>
            b \in Anc[Parent[n]] /\ (k = "regular" => \A c \in Anc[Parent[n]] \cap Disapproves : Parent[c] # b)
    BY <2>1, Zenon DEF UtxoOf
  <2>4. <<b, k>> \in ConnectUtxos(UtxoOf(Parent[n]), n) <=>
            \/ b = n
            \/ <<b, k>> \in UtxoOf(Parent[n]) /\ ~(n \in Disapproves /\ b = Parent[n] /\ k = "regular")
    BY Zenon DEF ConnectUtxos, Tree
  <2>5. Anc[n] = Anc[Parent[n]] \cup {n} /\ n \notin Anc[Parent[n]]
    BY AncStep, Zenon
  <2>6. b = n => (<<b, k>> \in ConnectUtxos(UtxoOf(Parent[n]), n) <=> <<b, k>> \in UtxoOf(n))
    BY <2>2, <2>4, <2>5, <1>1, Zenon
  <2>7. b # n => (<<b, k>> \in ConnectUtxos(UtxoOf(Parent[n]), n) <=> <<b, k>> \in UtxoOf(n))
    BY <2>2, <2>3, <2>4, <2>5, Zenon
  <2> QED BY <2>0, <2>6, <2>7, Zenon
<1>4. UtxoOf(n) \subseteq UtxoTrees /\ ConnectUtxos(UtxoOf(Parent[n]), n) \subseteq UtxoTrees
  BY DEF UtxoOf, ConnectUtxos, Tree, UtxoTrees
<1> QED BY <1>3, <1>4, Zenon

(* Disconnecting a block gives its parent's utxo set back. *)
LEMMA UtxoDisconnect ==
    ASSUME NEW n \in Block \ {Genesis}
    PROVE  DisconnectUtxos(UtxoOf(n), n) = UtxoOf(Parent[n])
<1>1. \A c \in Anc[n] \cap Disapproves : Parent[c] # n
  BY TreeAssumption, RuleAssumption, AncStep, AncSelf, Zenon
<1>2. \A c \in Anc[Parent[n]] \cap Disapproves : Parent[c] # Parent[n]
  BY TreeAssumption, RuleAssumption, AncStep, AncSelf, Zenon
<1>3. n \in Disapproves => Parent[n] \in Block \ {Genesis}
  BY RuleAssumption, TreeAssumption, Zenon
<1>4. \A x \in UtxoTrees : x \in DisconnectUtxos(UtxoOf(n), n) <=> x \in UtxoOf(Parent[n])
  <2> SUFFICES ASSUME NEW x \in UtxoTrees
               PROVE  x \in DisconnectUtxos(UtxoOf(n), n) <=> x \in UtxoOf(Parent[n])
    BY Zenon
  <2>0. PICK b \in Block \ {Genesis}, k \in {"regular", "stake"} : x = <<b, k>>
    BY UtxoPair, Zenon
  <2>1. <<b, k>> \in UtxoTrees /\ <<b, k>>[1] = b /\ <<b, k>>[2] = k
    BY Zenon DEF UtxoTrees
  <2>2. <<b, k>> \in UtxoOf(n) <=>
            b \in Anc[n] /\ (k = "regular" => \A c \in Anc[n] \cap Disapproves : Parent[c] # b)
    BY <2>1, Zenon DEF UtxoOf
  <2>3. <<b, k>> \in UtxoOf(Parent[n]) <=>
            b \in Anc[Parent[n]] /\ (k = "regular" => \A c \in Anc[Parent[n]] \cap Disapproves : Parent[c] # b)
    BY <2>1, Zenon DEF UtxoOf
  <2>4. <<b, k>> \in DisconnectUtxos(UtxoOf(n), n) <=>
            \/ <<b, k>> \in UtxoOf(n) /\ b # n
            \/ n \in Disapproves /\ b = Parent[n] /\ k = "regular"
    BY Zenon DEF DisconnectUtxos, Tree
  <2>5. Anc[n] = Anc[Parent[n]] \cup {n} /\ n \notin Anc[Parent[n]] /\ Parent[n] \in Anc[Parent[n]]
    BY AncStep, AncSelf, Zenon
  <2>6. b = n => (<<b, k>> \in DisconnectUtxos(UtxoOf(n), n) <=> <<b, k>> \in UtxoOf(Parent[n]))
    BY <2>2, <2>3, <2>4, <2>5, Zenon
  <2>7. b # n /\ k = "stake" => (<<b, k>> \in DisconnectUtxos(UtxoOf(n), n) <=> <<b, k>> \in UtxoOf(Parent[n]))
    BY <2>2, <2>3, <2>4, <2>5, Zenon
  <2>8. b # n /\ k = "regular" /\ b = Parent[n] => (<<b, k>> \in DisconnectUtxos(UtxoOf(n), n) <=> <<b, k>> \in UtxoOf(Parent[n]))
    BY <2>2, <2>3, <2>4, <2>5, <1>2, Zenon
  <2>9. b # n /\ k = "regular" /\ b # Parent[n] => (<<b, k>> \in DisconnectUtxos(UtxoOf(n), n) <=> <<b, k>> \in UtxoOf(Parent[n]))
    BY <2>2, <2>3, <2>4, <2>5, Zenon
  <2> QED BY <2>0, <2>6, <2>7, <2>8, <2>9, Zenon
<1>5. UtxoOf(Parent[n]) \subseteq UtxoTrees /\ DisconnectUtxos(UtxoOf(n), n) \subseteq UtxoTrees
  BY <1>3 DEF UtxoOf, DisconnectUtxos, Tree, UtxoTrees
<1> QED BY <1>4, <1>5, Zenon

(* The transaction of connectBlock keeps the database consistent when the   *)
(* block extends the stored tip and its valid flag has been written.        *)
LEMMA ConnectConsistent ==
    ASSUME NEW d \in Database, Consistent(d),
           NEW n \in d.index, n # Genesis, Parent[n] = d.tip, "valid" \in d.status[n],
           n \notin MissingInputs
    PROVE  /\ DbConnect(d, n) \in Database
           /\ Consistent(DbConnect(d, n))
<1> DEFINE e == DbConnect(d, n)
<1>0. n \in Block \ {Genesis}
  BY Zenon DEF Database
<1>1. /\ e.tip = n /\ e.utxo = ConnectUtxos(d.utxo, n) /\ e.spend = d.spend \cup {n}
      /\ e.blocks = d.blocks /\ e.index = d.index /\ e.status = d.status
  BY Zenon DEF DbConnect, Database
<1>2. Anc[n] = Anc[d.tip] \cup {n}
  BY <1>0, AncStep, Zenon
<1>3. e.utxo = UtxoOf(n)
  BY <1>0, <1>1, UtxoConnect, Zenon DEF Consistent
<1>4. e \in Database
  <2>1. UtxoOf(n) \subseteq UtxoTrees /\ WorkSum[n] \in Nat
    BY <1>0, WorkAssumption, Zenon DEF UtxoOf
  <2> QED BY <1>0, <1>3, <2>1, Zenon DEF DbConnect, Database
<1>5. Consistent(e)
  BY <1>0, <1>1, <1>2, <1>3 DEF Consistent
<1> QED BY <1>4, <1>5, Zenon

(* So does the transaction of disconnectBlock. *)
LEMMA DisconnectConsistent ==
    ASSUME NEW d \in Database, Consistent(d), d.tip # Genesis
    PROVE  /\ DbDisconnect(d, d.tip) \in Database
           /\ Consistent(DbDisconnect(d, d.tip))
<1> DEFINE n == d.tip
           e == DbDisconnect(d, n)
<1>0. n \in Block \ {Genesis}
  BY Zenon DEF Database
<1>1. /\ e.tip = Parent[n] /\ e.utxo = DisconnectUtxos(d.utxo, n) /\ e.spend = d.spend \ {n}
      /\ e.blocks = d.blocks /\ e.index = d.index /\ e.status = d.status
  BY Zenon DEF DbDisconnect, Database
<1>2. Anc[n] = Anc[Parent[n]] \cup {n} /\ n \notin Anc[Parent[n]] /\ Parent[n] \in Anc[n] /\ Parent[n] \in Block
  BY <1>0, AncStep, Zenon
<1>3. e.utxo = UtxoOf(Parent[n])
  BY <1>0, <1>1, UtxoDisconnect, Zenon DEF Consistent
<1>4. e \in Database
  <2>1. UtxoOf(Parent[n]) \subseteq UtxoTrees /\ WorkSum[n] \in Nat
    BY <1>0, WorkAssumption, Zenon DEF UtxoOf
  <2> QED BY <1>0, <1>2, <1>3, <2>1, Zenon DEF DbDisconnect, Database
<1>5. Consistent(e)
  BY <1>0, <1>1, <1>2, <1>3 DEF Consistent
<1> QED BY <1>4, <1>5, Zenon

(* Writing an index that extends the stored one, and in which the branch of *)
(* the stored tip is valid, keeps the database consistent.                  *)
LEMMA FlushConsistent ==
    ASSUME NEW d \in Database, Consistent(d), NEW idx \in SUBSET d.blocks,
           NEW st \in [Block -> SUBSET Flag],
           d.tip \in idx, "valid" \in st[d.tip], ValidClosed(st),
           \A b \in idx : Anc[b] \subseteq idx
    PROVE  Consistent([d EXCEPT !.index = idx, !.status = st])
<1> DEFINE e == [d EXCEPT !.index = idx, !.status = st]
<1>1. /\ e.index = idx /\ e.status = st /\ e.blocks = d.blocks /\ e.tip = d.tip
      /\ e.utxo = d.utxo /\ e.spend = d.spend
  BY Zenon DEF Database
<1>2. d.tip \in Block
  BY Zenon DEF Database
<1> QED BY <1>1, <1>2, Zenon DEF Consistent, ValidClosed

-----------------------------------------------------------------------------
(* The orphan pool as a sequence *)

Distinct(s) == \A i, j \in 1..Len(s) : s[i] = s[j] => i = j
Within(r, s) == \A j \in 1..Len(r) : \E i \in 1..Len(s) : r[j] = s[i]

(* Taking one entry out of a sequence keeps the others, in order. *)
LEMMA WithoutFacts ==
    ASSUME NEW S, NEW s \in Seq(S), NEW i \in 1..Len(s)
    PROVE  /\ Without(s, i) \in Seq(S)
           /\ Len(Without(s, i)) = Len(s) - 1
           /\ \A j \in 1..(Len(s) - 1) : Without(s, i)[j] = IF j < i THEN s[j] ELSE s[j + 1]
<1> DEFINE p == SubSeq(s, 1, i - 1)
           q == SubSeq(s, i + 1, Len(s))
<1>1. /\ p \in Seq(S) /\ Len(p) = i - 1
      /\ \A j \in 1..(i - 1) : p[j] = s[j]
  BY SeqSub, SeqElement, SeqLen
<1>2. /\ q \in Seq(S) /\ Len(q) = Len(s) - i
      /\ \A j \in 1..(Len(s) - i) : q[j] = s[i + j]
  BY SeqSub, SeqElement, SeqLen
<1> HIDE DEF p, q
<1>3. /\ p \o q \in Seq(S)
      /\ Len(p \o q) = Len(p) + Len(q)
      /\ \A j \in 1..(Len(p) + Len(q)) : (p \o q)[j] = IF j <= Len(p) THEN p[j] ELSE q[j - Len(p)]
  BY <1>1, <1>2, SeqConcat, Zenon
<1>4. Without(s, i) = p \o q
  BY Zenon DEF Without, p, q
<1>5. ASSUME NEW j \in 1..(Len(s) - 1)
      PROVE  (p \o q)[j] = IF j < i THEN s[j] ELSE s[j + 1]
  <2>0. Len(s) \in Nat
    BY SeqLen, Zenon
  <2>1. CASE j < i
    BY <2>0, <2>1, <1>1, <1>2, <1>3
  <2>2. CASE ~(j < i)
    <3>1. j - Len(p) \in 1..(Len(s) - i) /\ i + (j - Len(p)) = j + 1
      BY <2>0, <2>2, <1>1
    <3>2. (p \o q)[j] = q[j - Len(p)]
      BY <2>0, <2>2, <1>1, <1>2, <1>3
    <3>3. q[j - Len(p)] = s[i + (j - Len(p))]
      BY <3>1, <1>2, Zenon
    <3> QED BY <2>2, <3>1, <3>2, <3>3, Zenon
  <2> QED BY <2>1, <2>2, Zenon
<1>6. Len(p) + Len(q) = Len(s) - 1
  <2>1. Len(s) \in Nat
    BY SeqLen, Zenon
  <2> QED BY <1>1, <1>2, <2>1
<1>7. Len(p \o q) = Len(s) - 1
  BY <1>3, <1>6, Zenon
<1> QED BY <1>3, <1>4, <1>5, <1>7, Zenon

(* removeOrphanBlock takes out exactly the named orphan, if it is pooled.   *)
LEMMA RemoveOrphanFacts ==
    ASSUME NEW s \in Seq(Block), Distinct(s), NEW b
    PROVE  LET r == removeOrphanBlock(s, b)
           IN  /\ r \in Seq(Block)
               /\ Distinct(r)
               /\ Within(r, s)
               /\ \A j \in 1..Len(r) : r[j] # b
               /\ Len(r) = IF \E i \in 1..Len(s) : s[i] = b THEN Len(s) - 1 ELSE Len(s)
<1>1. CASE \E i \in 1..Len(s) : s[i] = b
  <2> DEFINE c == CHOOSE i \in 1..Len(s) : s[i] = b
             r == Without(s, c)
  <2>1. c \in 1..Len(s) /\ s[c] = b
    BY <1>1, Zenon
  <2> HIDE DEF c
  <2>2. /\ r \in Seq(Block) /\ Len(r) = Len(s) - 1
        /\ \A j \in 1..(Len(s) - 1) : r[j] = IF j < c THEN s[j] ELSE s[j + 1]
    BY <2>1, WithoutFacts, Zenon
  <2>3. removeOrphanBlock(s, b) = r
    BY <1>1, Zenon DEF removeOrphanBlock, c
  <2> HIDE DEF r
  <2>4. Len(s) \in Nat
    BY SeqLen, Zenon
  <2> DEFINE old(j) == IF j < c THEN j ELSE j + 1
  <2>5. \A j \in 1..(Len(s) - 1) : old(j) \in 1..Len(s) /\ old(j) # c
    BY <2>1, <2>4
  <2>6. \A i, j \in 1..(Len(s) - 1) : old(i) = old(j) => i = j
    BY <2>1, <2>4
  <2>7. \A j \in 1..(Len(s) - 1) : r[j] = s[old(j)]
    BY <2>2, Zenon
  <2> HIDE DEF old
  <2>8. Distinct(r)
    <3>1. ASSUME NEW i \in 1..(Len(s) - 1), NEW j \in 1..(Len(s) - 1), r[i] = r[j]
          PROVE  i = j
      <4>1. s[old(i)] = s[old(j)] /\ old(i) \in 1..Len(s) /\ old(j) \in 1..Len(s)
        BY <2>5, <2>7, <3>1, Zenon
      <4>2. old(i) = old(j)
        BY <4>1, Zenon DEF Distinct
      <4> QED BY <2>6, <4>2, Zenon
    <3> QED BY <2>2, <3>1, Zenon DEF Distinct
  <2>9. Within(r, s)
    BY <2>2, <2>5, <2>7, Zenon DEF Within
  <2>10. \A j \in 1..Len(r) : r[j] # b
    <3>1. \A i \in 1..Len(s) : i # c => s[i] # b
      BY <2>1, Zenon DEF Distinct
    <3> QED BY <2>2, <2>5, <2>7, <3>1, Zenon
  <2> QED BY <1>1, <2>2, <2>3, <2>8, <2>9, <2>10, Zenon
<1>2. CASE ~\E i \in 1..Len(s) : s[i] = b
  BY <1>2, Zenon DEF removeOrphanBlock, Within
<1> QED BY <1>1, <1>2, Zenon

(* Dropping the first k orphans keeps the pool free of duplicates. *)
LEMMA ExpireFacts ==
    ASSUME NEW s \in Seq(Block), Distinct(s), NEW k \in 0..Len(s)
    PROVE  LET r == SubSeq(s, k + 1, Len(s))
           IN  /\ r \in Seq(Block) /\ Distinct(r) /\ Within(r, s) /\ Len(r) = Len(s) - k
<1> DEFINE r == SubSeq(s, k + 1, Len(s))
<1>0. Len(s) \in Nat
  BY SeqLen, Zenon
<1>1. /\ r \in Seq(Block) /\ Len(r) = Len(s) - k
      /\ \A i \in 1..(Len(s) - k) : r[i] = s[k + i]
  <2>1. /\ r \in Seq(Block)
        /\ Len(r) = IF k + 1 <= Len(s) THEN Len(s) - (k + 1) + 1 ELSE 0
        /\ \A i \in 1..(Len(s) - (k + 1) + 1) : r[i] = s[(k + 1) + i - 1]
    <3>1. \A i \in (k + 1)..Len(s) : s[i] \in Block
      BY <1>0, SeqElement
    <3> QED BY <1>0, <3>1, SeqSub
  <2> HIDE DEF r
  <2>2. \A i \in 1..(Len(s) - k) : (k + 1) + i - 1 = k + i /\ i \in 1..(Len(s) - (k + 1) + 1)
    BY <1>0
  <2> QED BY <1>0, <2>1, <2>2
<1> HIDE DEF r
<1>2. Distinct(r)
  BY <1>0, <1>1 DEF Distinct
<1>3. Within(r, s)
  BY <1>0, <1>1 DEF Within
<1> QED BY <1>1, <1>2, <1>3, Zenon DEF r

-----------------------------------------------------------------------------
(* Steps on the data *)

(* A step that changes the index or a status in memory, and writes all of   *)
(* the modified nodes or none.                                              *)
LEMMA WriteBack ==
    ASSUME TypeOK, DataOK,
           index' \in SUBSET db.blocks,
           status' \in [Block -> SUBSET Flag],
           NEW mod \in SUBSET index',
           \A b \in index' : Anc[b] \subseteq index',
           StatusOK(status, index)',
           "valid" \in status'[tip],
           tip \in index',
           \A b \in Block \ mod : status'[b] = db.status[b] /\ (b \in index' <=> b \in db.index),
           tip' = tip, disk' = disk,
           \/ db' = Flushed(db, mod, index', status') /\ modified' = {}
           \/ db' = db /\ modified' = mod
    PROVE  DataOK' /\ db' \in Database /\ db'.blocks = db.blocks /\ modified' \in SUBSET Block
<1>0. db \in Database /\ db.blocks \in SUBSET Block /\ Consistent(db) /\ tip = db.tip
  BY Zenon DEF TypeOK, Database, DataOK, DatabaseConsistent, MemoryMatchesDatabase
<1>1. Consistent(disk) /\ StatusOK(disk.status, disk.index)
  BY Zenon DEF DataOK, DatabaseConsistent
<1>2. CASE db' = Flushed(db, mod, index', status') /\ modified' = {}
  <2>0. index' \in SUBSET Block /\ mod \in SUBSET Block /\ mod \subseteq index'
    BY <1>0, Zenon
  <2>1. db' = [db EXCEPT !.index = index', !.status = status'] /\ db' \in Database
    <3>1. [b \in Block |-> IF b \in mod THEN status'[b] ELSE db.status[b]] = status'
      BY Zenon
    <3>2. db.index \cup (mod \cap index') = index'
      BY <1>0, <2>0, Zenon DEF Database
    <3>3. db' = [db EXCEPT !.index = index', !.status = status']
      BY <1>0, <1>2, <3>1, <3>2, ZenonT(30) DEF Flushed, Database
    <3> QED BY <1>0, <2>0, <3>3, Zenon DEF Database
  <2>2. db'.index = index' /\ db'.status = status' /\ db'.blocks = db.blocks /\ db'.tip = db.tip
    BY <1>0, <2>1, Zenon DEF Database
  <2>3. Consistent(db')
    BY <1>0, <2>1, FlushConsistent, Zenon DEF StatusOK
  <2> QED BY <1>0, <1>1, <1>2, <2>0, <2>1, <2>2, <2>3, Zenon
          DEF DataOK, TreeOK, MemoryMatchesDatabase, DatabaseConsistent, KnownValid, StatusOK
<1>3. CASE db' = db /\ modified' = mod
  BY <1>0, <1>1, <1>3, Zenon DEF DataOK, TreeOK, MemoryMatchesDatabase, DatabaseConsistent, KnownValid, StatusOK
<1> QED BY <1>2, <1>3, Zenon

(* A step that moves the tip in memory and in the database together, with   *)
(* nothing left to write.                                                   *)
LEMMA MoveTip ==
    ASSUME TypeOK, DataOK,
           UNCHANGED <<index, status, modified, disk>>,
           modified = {},
           db' \in Database, Consistent(db'), tip' = db'.tip,
           db'.index = db.index, db'.status = db.status, db'.blocks = db.blocks
    PROVE  DataOK'
<1>1. tip' \in Block /\ status = db.status
  BY DEF Database, TypeOK, DataOK, MemoryMatchesDatabase
<1>2. "valid" \in status[tip']
  BY <1>1, AncSelf, Zenon DEF Consistent
<1> QED BY <1>1, <1>2, Zenon DEF DataOK, TreeOK, MemoryMatchesDatabase, DatabaseConsistent, KnownValid, StatusOK

(* A step that leaves the index, the chain and the database alone. *)
LEMMA DataFrame ==
    ASSUME DataOK, UNCHANGED <<memVars, dbVars>>
    PROVE  DataOK'
  BY Zenon DEF memVars, dbVars, DataOK, TreeOK, MemoryMatchesDatabase, DatabaseConsistent, KnownValid, StatusOK,
         Confined

(* The best chain, the genesis block included, is indexed. *)
LEMMA TipIndexed ==
    ASSUME TypeOK, DataOK
    PROVE  tip \in index /\ Genesis \in index /\ \A b \in index : b \in Block /\ Anc[b] \subseteq index
<1>1. tip = db.tip /\ tip \in db.index /\ tip \in Block
  BY Zenon DEF TypeOK, DataOK, MemoryMatchesDatabase, DatabaseConsistent, Consistent
<1>2. tip \in index
  BY <1>1, Zenon DEF DataOK, MemoryMatchesDatabase, TreeOK
<1> QED BY <1>1, <1>2, TreeAssumption, Zenon DEF DataOK, TreeOK, TypeOK

(* A step that changes the status of nodes, marks those nodes modified and  *)
(* then writes all of the modified ones or none.                            *)
LEMMA Remark ==
    ASSUME TypeOK, DataOK, UNCHANGED <<index, tip, disk>>,
           status' \in [Block -> SUBSET Flag],
           StatusOK(status', index),
           "valid" \in status'[tip],
           NEW mod \in SUBSET index, modified \subseteq mod,
           \A b \in Block \ mod : status'[b] = status[b],
           \/ db' = Flushed(db, mod, index, status') /\ modified' = {}
           \/ db' = db /\ modified' = mod
    PROVE  DataOK' /\ db' \in Database /\ db'.blocks = db.blocks /\ modified' \in SUBSET Block
<1>1. index' \in SUBSET db.blocks /\ mod \in SUBSET index' /\ \A b \in index' : Anc[b] \subseteq index'
  BY Zenon DEF DataOK, TreeOK
<1>2. StatusOK(status, index)' /\ tip \in index'
  BY TipIndexed, Zenon DEF StatusOK, Confined
<1>3. \A b \in Block \ mod : status'[b] = db.status[b] /\ (b \in index' <=> b \in db.index)
  BY Zenon DEF DataOK, MemoryMatchesDatabase
<1>4. \/ db' = Flushed(db, mod, index', status') /\ modified' = {}
      \/ db' = db /\ modified' = mod
  BY Zenon
<1> QED BY <1>1, <1>2, <1>3, <1>4, WriteBack, Zenon

(* The two outcomes of flushBlockIndexWarnOnly. *)
LEMMA FlushCases ==
    ASSUME TypeOK, NEW mod, FlushWarnOnly(status', mod)
    PROVE  /\ \/ db' = Flushed(db, mod, index, status') /\ modified' = {}
              \/ db' = db /\ modified' = mod
           /\ crashes' \in Nat /\ dbErrors' \in Nat
  BY DEF FlushWarnOnly, DbError, TypeOK, faultVars

-----------------------------------------------------------------------------
(* The initial state and block acceptance *)

USE DEF BlockOrNone, Phase

(* The initial state: a database that createChainState has just written. *)
LEMMA InitIInv == Init => IInv
<1> SUFFICES ASSUME Init PROVE IInv
  BY Zenon
<1> DEFINE st == [b \in Block |-> IF b = Genesis THEN {"valid"} ELSE {}]
<1>1. /\ FreshDb.blocks = {Genesis} /\ FreshDb.index = {Genesis} /\ FreshDb.status = st
      /\ FreshDb.tip = Genesis /\ FreshDb.utxo = {} /\ FreshDb.spend = {}
  BY Zenon DEF FreshDb
<1>2. st \in [Block -> SUBSET Flag] /\ st[Genesis] = {"valid"} /\ \A b \in Block \ {Genesis} : st[b] = {}
  BY TreeAssumption, Zenon DEF Flag
<1> HIDE DEF st
<1>3. FreshDb \in Database
  BY <1>1, <1>2, TreeAssumption, WorkAssumption, Zenon DEF FreshDb, Database, st
<1>4. TypeOK
  <2>1. <<>> \in Seq(Block)
    OBVIOUS
  <2> QED BY <1>1, <1>2, <1>3, <2>1, TreeAssumption, Zenon DEF Init, TypeOK, Step
<1>5. StatusOK(st, {Genesis})
  BY <1>2, TreeAssumption, RuleAssumption DEF StatusOK, ValidClosed, InvalidSound, Checked, Exclusive, Confined
<1>6. UtxoOf(Genesis) = {}
  <2>1. \A x \in UtxoTrees : x[1] \notin Anc[Genesis]
    BY TreeAssumption, Zenon DEF UtxoTrees
  <2> QED BY <2>1, Zenon DEF UtxoOf
<1>7. Consistent(FreshDb)
  BY <1>1, <1>2, <1>6, TreeAssumption, RuleAssumption DEF Consistent
<1>8. DataOK
  BY <1>1, <1>2, <1>5, <1>7, TreeAssumption
  DEF Init, DataOK, TreeOK, MemoryMatchesDatabase, DatabaseConsistent, KnownValid
<1>9. AcceptOK /\ ReorgOK
  BY TreeAssumption DEF Init, AcceptOK, ReorgOK
<1>10. OrphansOK
  BY BoundAssumption DEF Init, OrphansOK, NoSecondNode, OrphanPoolBounded
<1> QED BY <1>4, <1>8, <1>9, <1>10, Zenon DEF IInv

-----------------------------------------------------------------------------
(* The orphan pool *)

(* addOrphanBlock keeps the pool bounded and free of known blocks. *)
LEMMA ProcessOrphanBlockStep ==
    ASSUME IInv, NEW b \in Block, ProcessOrphanBlock(b)
    PROVE  IInv'
<1>0. TypeOK /\ DataOK /\ AcceptOK /\ ReorgOK /\ OrphansOK
  BY Zenon DEF IInv
<1>1. orphans \in Seq(Block) /\ Distinct(orphans) /\ Len(orphans) \in Nat /\ Len(orphans) <= MaxOrphans + 1
  BY <1>0, SeqLen, Zenon DEF TypeOK, OrphansOK, NoSecondNode, OrphanPoolBounded, Distinct
<1>2. PICK k \in 0..Len(orphans) :
        LET live   == SubSeq(orphans, k + 1, Len(orphans))
            marked == IF oldest = None /\ live # <<>> THEN Head(live) ELSE oldest
            full   == Len(live) + 1 > MaxOrphans
        IN  /\ orphans' = Append(IF full THEN removeOrphanBlock(live, marked) ELSE live, b)
            /\ oldest' = IF full THEN None ELSE marked
  BY Zenon DEF ProcessOrphanBlock, addOrphanBlock
<1> DEFINE live == SubSeq(orphans, k + 1, Len(orphans))
           marked == IF oldest = None /\ live # <<>> THEN Head(live) ELSE oldest
           full == Len(live) + 1 > MaxOrphans
           rest == IF full THEN removeOrphanBlock(live, marked) ELSE live
<1>3. live \in Seq(Block) /\ Distinct(live) /\ Within(live, orphans) /\ Len(live) = Len(orphans) - k
  BY <1>1, ExpireFacts, Zenon
<1>4. orphans' = Append(rest, b) /\ oldest' = IF full THEN None ELSE marked
  BY <1>2, Zenon
<1> HIDE DEF live
<1>5. live # <<>> => Head(live) = live[1] /\ 1 \in 1..Len(live) /\ Head(live) \in Block
  <2>1. live # <<>> => Len(live) \in Nat /\ Len(live) # 0 /\ Head(live) = live[1]
    BY <1>3, SeqEmpty, SeqLen
  <2> QED BY <1>3, <2>1, SeqElement
<1>6. marked \in BlockOrNone
  BY <1>0, <1>5, Zenon DEF TypeOK
<1>7. /\ rest \in Seq(Block) /\ Distinct(rest) /\ Within(rest, live)
      /\ full => Len(rest) = IF \E i \in 1..Len(live) : live[i] = marked THEN Len(live) - 1 ELSE Len(live)
  <2>1. CASE full
    <3> HIDE DEF marked
    <3>1. LET r == removeOrphanBlock(live, marked)
          IN  /\ r \in Seq(Block) /\ Distinct(r) /\ Within(r, live)
              /\ Len(r) = IF \E i \in 1..Len(live) : live[i] = marked THEN Len(live) - 1 ELSE Len(live)
      BY <1>3, RemoveOrphanFacts, Zenon
    <3> QED BY <2>1, <3>1, Zenon
  <2>2. CASE ~full
    BY <1>3, <2>2, Zenon DEF Within
  <2> QED BY <2>1, <2>2, Zenon
<1>8. /\ Len(rest) <= MaxOrphans
      /\ Len(rest) = MaxOrphans => oldest' = None
  <2>1. CASE ~full
    BY <1>1, <1>3, <2>1, BoundAssumption
  <2>2. CASE full /\ Len(live) = MaxOrphans + 1
    <3>1. oldest = None /\ live # <<>>
      <4>1. Len(orphans) = MaxOrphans + 1
        BY <1>1, <1>3, <2>2, BoundAssumption
      <4>2. live # <<>>
        BY <2>2, BoundAssumption, <1>3, SeqEmpty
      <4> QED BY <4>1, <4>2, <1>0, Zenon DEF OrphansOK
    <3>2. live[1] = marked /\ 1 \in 1..Len(live)
      BY <3>1, <1>5, Zenon
    <3>3. \E i \in 1..Len(live) : live[i] = marked
      BY <3>2, Zenon
    <3> HIDE DEF rest, marked
    <3>4. Len(rest) = Len(live) - 1
      BY <1>7, <2>2, <3>3, Zenon
    <3>5. oldest' = None
      BY <1>4, <2>2, Zenon
    <3> QED BY <2>2, <3>4, <3>5, BoundAssumption
  <2>3. CASE full /\ Len(live) # MaxOrphans + 1
    <3> HIDE DEF rest, marked
    <3>1. Len(rest) \in {Len(live), Len(live) - 1}
      BY <1>7, <2>3, Zenon
    <3>2. Len(live) <= MaxOrphans /\ Len(live) \in Nat
      BY <1>1, <1>3, <2>3, BoundAssumption
    <3>3. oldest' = None
      BY <1>4, <2>3, Zenon
    <3> QED BY <3>1, <3>2, <3>3, BoundAssumption
  <2> QED BY <2>1, <2>2, <2>3, Zenon
<1> HIDE DEF rest
<1>9. /\ orphans' \in Seq(Block) /\ Len(orphans') = Len(rest) + 1 /\ Len(rest) \in Nat
      /\ \A i \in 1..Len(rest) : orphans'[i] = rest[i]
      /\ orphans'[Len(rest) + 1] = b
  BY <1>4, <1>7, SeqAppend, SeqLen
<1>10. \A i \in 1..Len(rest) : rest[i] # b /\ rest[i] \notin index
  <2>1. \A i \in 1..Len(orphans) : orphans[i] # b /\ orphans[i] \notin index
    BY <1>0, Zenon DEF ProcessOrphanBlock, InPool, OrphansOK, NoSecondNode
  <2> TAKE i \in 1..Len(rest)
  <2>2. PICK j \in 1..Len(live) : rest[i] = live[j]
    BY <1>7, Zenon DEF Within
  <2>3. PICK m \in 1..Len(orphans) : live[j] = orphans[m]
    BY <1>3, Zenon DEF Within
  <2> HIDE DEF marked, full
  <2> QED BY <2>1, <2>2, <2>3, Zenon
<1>11. UNCHANGED <<memVars, dbVars, callVars, reorgVars, faultVars>> /\ pc = "idle" /\ b \notin index
  BY Zenon DEF ProcessOrphanBlock
<1>12. OrphansOK'
  <2>1. Distinct(orphans)'
    BY <1>7, <1>9, <1>10 DEF Distinct
  <2>2. \A i \in 1..Len(orphans') : orphans'[i] \notin index'
    BY <1>9, <1>10, <1>11 DEF memVars
  <2>3. NoSecondNode'
    BY <1>11, <2>1, <2>2, Zenon DEF NoSecondNode, Distinct, callVars
  <2>4. Len(orphans') <= MaxOrphans + 1 /\ (Len(orphans') = MaxOrphans + 1 => oldest' = None)
    <3> HIDE DEF full, marked
    <3>1. Len(orphans') = Len(rest) + 1 /\ Len(rest) \in Nat
      BY <1>9, Zenon
    <3> QED BY <1>8, <3>1, BoundAssumption
  <2> QED BY <2>3, <2>4, Zenon DEF OrphansOK, OrphanPoolBounded
<1>13. TypeOK'
  BY <1>0, <1>4, <1>6, <1>9, <1>11, Zenon DEF TypeOK, memVars, dbVars, callVars, reorgVars, faultVars
<1>14. DataOK'
  BY <1>0, <1>11, DataFrame, Zenon
<1>15. AcceptOK' /\ ReorgOK'
  BY <1>0, <1>11, Zenon DEF AcceptOK, ReorgOK, callVars, reorgVars, memVars, dbVars, KnownValid
<1> QED BY <1>12, <1>13, <1>14, <1>15, Zenon DEF IInv

(* A step that leaves the pool and the index alone, and starts no call. *)
LEMMA OrphansFrame ==
    ASSUME OrphansOK, UNCHANGED poolVars, index' = index,
           pc' \in {"accept", "index"} => pc \in {"accept", "index"} /\ cur' = cur
    PROVE  OrphansOK'
  BY Zenon DEF OrphansOK, NoSecondNode, OrphanPoolBounded, InPool, poolVars

(* A call that returns keeps the invariant if what it leaves is sound. *)
LEMMA ReturnStep ==
    ASSUME Return, DataOK', OrphansOK',
           index' \in SUBSET Block, status' \in [Block -> SUBSET Flag], modified' \in SUBSET Block,
           tip' \in Block, orphans' \in Seq(Block), oldest' \in BlockOrNone,
           db' \in Database, disk' \in Database, crashes' \in Nat, dbErrors' \in Nat
    PROVE  IInv'
<1>1. <<>> \in Seq(Block) /\ Len(<<>>) = 0
  OBVIOUS
<1>2. TypeOK'
  BY <1>1, Zenon DEF TypeOK, Return, Step
<1>3. AcceptOK'
  BY <1>1 DEF AcceptOK, Return
<1>4. ReorgOK'
  BY Zenon DEF ReorgOK, Return
<1> QED BY <1>2, <1>3, <1>4, Zenon DEF IInv

(* A block that was accepted is queued for processOrphans. *)
LEMMA AcceptedStep ==
    ASSUME IInv, Accepted, UNCHANGED poolVars, index' = index, DataOK', cur \in index,
           status' \in [Block -> SUBSET Flag], modified' \in SUBSET Block, tip' \in Block,
           db' \in Database, disk' \in Database, crashes' \in Nat, dbErrors' \in Nat
    PROVE  IInv'
<1>1. TypeOK /\ AcceptOK /\ OrphansOK
  BY Zenon DEF IInv
<1>2. /\ queue' \in Seq(Block) /\ Len(queue') = Len(queue) + 1 /\ Len(queue) \in Nat
      /\ \A i \in 1..Len(queue) : queue'[i] = queue[i]
      /\ queue'[Len(queue) + 1] = cur
  BY <1>1, SeqAppend, SeqLen DEF TypeOK, Accepted
<1>3. TypeOK'
  BY <1>1, <1>2, Zenon DEF TypeOK, Accepted, poolVars, Step
<1>4. AcceptOK'
  <2>1. queue' # <<>>
    BY <1>2, SeqEmpty
  <2>2. fast => \A i \in 1..Len(queue') : Linked(queue'[i])
    <3>1. fast => Linked(cur) /\ \A i \in 1..Len(queue) : Linked(queue[i])
      BY <1>1, Zenon DEF AcceptOK, TypeOK
    <3>2. \A i \in 1..Len(queue') : i \in 1..Len(queue) \/ i = Len(queue) + 1
      BY <1>2, SMTT(30)
    <3> QED BY <1>2, <3>1, <3>2, Zenon
  <2>3. \A i \in 1..Len(queue') : queue'[i] \in index'
    BY <1>1, <1>2 DEF AcceptOK
  <2> QED BY <2>1, <2>2, <2>3, TreeAssumption, Zenon DEF AcceptOK, Accepted
<1>5. ReorgOK'
  BY Zenon DEF ReorgOK, Accepted
<1>6. OrphansOK'
  BY <1>1, OrphansFrame, Zenon DEF Accepted
<1> QED BY <1>3, <1>4, <1>5, <1>6, Zenon DEF IInv

(* ProcessBlock starts maybeAcceptBlock on a block that is new. *)
LEMMA ProcessBlockStep ==
    ASSUME IInv, NEW b \in Block, NEW f \in BOOLEAN, ProcessBlock(b, f)
    PROVE  IInv'
<1>0. TypeOK /\ DataOK /\ AcceptOK /\ ReorgOK /\ OrphansOK
  BY Zenon DEF IInv
<1>1. TypeOK'
  BY <1>0, Zenon DEF ProcessBlock, TypeOK, memVars, poolVars, dbVars, reorgVars, faultVars, Step
<1>2. DataOK'
  BY <1>0, DataFrame, Zenon DEF ProcessBlock
<1>3. b # Genesis
  BY <1>0, TipIndexed, Zenon DEF ProcessBlock
<1>4. f => Linked(b)
  BY AncSelf, Zenon DEF ProcessBlock, Linked
<1>5. queue' = <<>> /\ Len(<<>>) = 0
  BY <1>0, Zenon DEF ProcessBlock, AcceptOK
<1>6. AcceptOK'
  BY <1>0, <1>3, <1>4, <1>5, SMTT(30) DEF ProcessBlock, AcceptOK, memVars, dbVars
<1>7. ReorgOK'
  BY Zenon DEF ProcessBlock, ReorgOK
<1>8. OrphansOK'
  BY <1>0 DEF ProcessBlock, OrphansOK, NoSecondNode, OrphanPoolBounded, InPool, poolVars, memVars
<1> QED BY <1>1, <1>2, <1>6, <1>7, <1>8, Zenon DEF IInv

(* processOrphans takes an orphan out of the pool and accepts it. *)
LEMMA ProcessNextOrphanStep ==
    ASSUME IInv, ProcessNextOrphan
    PROVE  IInv'
<1>0. TypeOK /\ DataOK /\ AcceptOK /\ ReorgOK /\ OrphansOK
  BY Zenon DEF IInv
<1>1. PICK i \in 1..Len(orphans) : /\ Parent[orphans[i]] = Head(queue)
                                   /\ orphans' = removeOrphanBlock(orphans, orphans[i])
                                   /\ cur' = orphans[i]
  BY Zenon DEF ProcessNextOrphan
<1>2. orphans \in Seq(Block) /\ Distinct(orphans) /\ Len(orphans) \in Nat
  BY <1>0, SeqLen, Zenon DEF TypeOK, OrphansOK, NoSecondNode, Distinct
<1>3. cur' \in Block \ {Genesis} /\ cur' \notin index
  BY <1>0, <1>1, <1>2, SeqElement, TipIndexed, SMTT(30) DEF OrphansOK, NoSecondNode
<1>4. /\ orphans' \in Seq(Block) /\ Distinct(orphans)' /\ Within(orphans', orphans)
      /\ \A j \in 1..Len(orphans') : orphans'[j] # cur'
      /\ Len(orphans') = Len(orphans) - 1
  BY <1>1, <1>2, RemoveOrphanFacts, SMTT(30) DEF Distinct
<1>5. Head(queue) = queue[1] /\ 1 \in 1..Len(queue) /\ pc = "orphans" /\ pc' = "accept"
  <2>1. queue # <<>> /\ queue \in Seq(Block)
    BY <1>0, Zenon DEF ProcessNextOrphan, AcceptOK, TypeOK
  <2>2. Len(queue) \in Nat /\ Len(queue) # 0
    BY <2>1, SeqEmpty, SeqLen, Zenon
  <2> QED BY <2>1, <2>2, SMTT(30) DEF ProcessNextOrphan
<1>6. Parent[cur'] \in index
  BY <1>0, <1>1, <1>5, Zenon DEF AcceptOK
<1>7. fast => Linked(cur')
  <2>1. fast => Linked(Parent[cur'])
    BY <1>0, <1>1, <1>5, Zenon DEF AcceptOK
  <2> QED BY <2>1, <1>3, AncStep, Zenon DEF Linked
<1>8. UNCHANGED <<memVars, oldest, dbVars, fast, queue, reorgVars, faultVars>>
  BY Zenon DEF ProcessNextOrphan
<1>9. TypeOK'
  BY <1>0, <1>3, <1>4, <1>5, <1>8, Zenon DEF TypeOK, memVars, dbVars, reorgVars, faultVars, Step
<1>10. DataOK'
  BY <1>0, <1>8, DataFrame, Zenon
<1>11. AcceptOK'
  BY <1>0, <1>3, <1>5, <1>6, <1>7, <1>8, Zenon DEF AcceptOK, memVars, dbVars
<1>12. ReorgOK'
  BY <1>5, Zenon DEF ReorgOK
<1>13. OrphansOK'
  <2>1. \A j \in 1..Len(orphans') : orphans'[j] \notin index
    BY <1>0, <1>4, Zenon DEF Within, OrphansOK, NoSecondNode
  <2>2. Len(orphans') <= MaxOrphans
    BY <1>0, <1>2, <1>4, BoundAssumption DEF OrphansOK, OrphanPoolBounded
  <2> QED BY <1>2, <1>3, <1>4, <1>8, <2>1, <2>2, BoundAssumption, SMTT(30)
          DEF OrphansOK, NoSecondNode, OrphanPoolBounded, Distinct, InPool, memVars
<1> QED BY <1>9, <1>10, <1>11, <1>12, <1>13, Zenon DEF IInv

(* processOrphans drops a hash without orphans, and returns after the last. *)
LEMMA ProcessOrphansNextHashStep ==
    ASSUME IInv, ProcessOrphansNextHash
    PROVE  IInv'
<1>0. TypeOK /\ DataOK /\ AcceptOK /\ ReorgOK /\ OrphansOK
  BY Zenon DEF IInv
<1>1. DataOK'
  BY <1>0, DataFrame, Zenon DEF ProcessOrphansNextHash
<1>2. CASE Return
  <2>1. OrphansOK'
    BY <1>0, <1>2, OrphansFrame, Zenon DEF ProcessOrphansNextHash, memVars, Return
  <2> QED BY <1>0, <1>1, <1>2, <2>1, ReturnStep, Zenon
          DEF ProcessOrphansNextHash, TypeOK, memVars, poolVars, dbVars, faultVars
<1>3. CASE Len(queue) # 1 /\ queue' = Tail(queue) /\ UNCHANGED <<pc, cur, fast, reorgVars>>
  <2>1. queue \in Seq(Block) /\ queue # <<>> /\ Len(queue) \in Nat /\ Len(queue) # 0
    BY <1>0, SeqEmpty, SeqLen, Zenon DEF ProcessOrphansNextHash, AcceptOK, TypeOK
  <2>2. /\ queue' \in Seq(Block) /\ Len(queue') = Len(queue) - 1
        /\ \A i \in 1..Len(queue') : queue'[i] = queue[i + 1]
    BY <1>3, <2>1, SeqTail, Zenon
  <2>3. queue' # <<>>
    <3>1. Len(queue') # 0
      BY <1>3, <2>1, <2>2
    <3> QED BY <3>1
  <2>4. /\ \A i \in 1..Len(queue') : queue'[i] \in index
        /\ fast => \A i \in 1..Len(queue') : Linked(queue'[i])
    <3>1. \A i \in 1..Len(queue') : i + 1 \in 1..Len(queue)
      BY <2>1, <2>2
    <3>2. /\ \A i \in 1..Len(queue) : queue[i] \in index
          /\ fast => \A i \in 1..Len(queue) : Linked(queue[i])
      BY <1>0, Zenon DEF AcceptOK
    <3> QED BY <2>2, <3>1, <3>2, Zenon
  <2>5. TypeOK'
    BY <1>0, <1>3, <2>2, Zenon DEF ProcessOrphansNextHash, TypeOK, memVars, poolVars, dbVars, reorgVars, faultVars
  <2>6. AcceptOK' /\ ReorgOK'
    BY <1>0, <1>3, <2>3, <2>4, Zenon DEF ProcessOrphansNextHash, AcceptOK, ReorgOK, memVars, dbVars
  <2>7. OrphansOK'
    BY <1>0, <1>3, OrphansFrame, Zenon DEF ProcessOrphansNextHash, memVars
  <2> QED BY <1>1, <2>5, <2>6, <2>7, Zenon DEF IInv
<1> QED BY <1>2, <1>3, Zenon DEF ProcessOrphansNextHash

-----------------------------------------------------------------------------
(* maybeAcceptBlock and connectBestChain *)

(* The early returns of a call: a rejected block, a failed database access. *)
LEMMA EarlyReturnStep ==
    ASSUME IInv, RejectBlock \/ CallDbError \/ FastConnectFails
    PROVE  IInv'
<1>0. TypeOK /\ DataOK /\ OrphansOK
  BY Zenon DEF IInv
<1>1. Return /\ UNCHANGED <<memVars, poolVars, dbVars>>
  BY Zenon DEF RejectBlock, CallDbError, FastConnectFails
<1>2. DataOK'
  BY <1>0, <1>1, DataFrame, Zenon
<1>3. OrphansOK'
  BY <1>0, <1>1, OrphansFrame, Zenon DEF memVars, Return
<1>4. crashes' \in Nat /\ dbErrors' \in Nat
  BY <1>0 DEF RejectBlock, CallDbError, FastConnectFails, DbError, TypeOK, faultVars
<1> QED BY <1>0, <1>1, <1>2, <1>3, <1>4, ReturnStep, Zenon DEF TypeOK, memVars, poolVars, dbVars

(* The block is stored before its node exists. *)
LEMMA StoreBlockStep ==
    ASSUME IInv, StoreBlock
    PROVE  IInv'
<1>0. TypeOK /\ DataOK /\ AcceptOK /\ ReorgOK /\ OrphansOK
  BY Zenon DEF IInv
<1>1. /\ pc = "accept" /\ pc' = "index"
      /\ UNCHANGED <<index, status, modified, tip, orphans, oldest, disk, cur, fast, queue,
                     target, orig, phase, crashes, dbErrors>>
  BY Zenon DEF StoreBlock, memVars, poolVars, reorgVars, faultVars
<1>2. cur \in Block
  BY <1>0, <1>1, Zenon DEF AcceptOK
<1>3. /\ db' \in Database /\ db'.blocks = db.blocks \cup {cur} /\ db'.index = db.index
      /\ db'.status = db.status /\ db'.tip = db.tip /\ db'.utxo = db.utxo /\ db'.spend = db.spend
  BY <1>0, <1>2, Zenon DEF StoreBlock, TypeOK, Database
<1>4. TypeOK'
  BY <1>0, <1>1, <1>3, Zenon DEF TypeOK, Step
<1>5. Consistent(db')
  BY <1>0, <1>3, Zenon DEF DataOK, DatabaseConsistent, Consistent
<1>6. DataOK'
  <2>1. TreeOK'
    BY <1>0, <1>1, <1>3, Zenon DEF DataOK, TreeOK
  <2>2. MemoryMatchesDatabase' /\ KnownValid(tip)'
    BY <1>0, <1>1, <1>3, Zenon DEF DataOK, MemoryMatchesDatabase, KnownValid
  <2>3. DatabaseConsistent'
    BY <1>0, <1>1, <1>5, Zenon DEF DataOK, DatabaseConsistent
  <2>4. StatusOK(status, index)' /\ StatusOK(disk.status, disk.index)'
    BY <1>0, <1>1, Zenon DEF DataOK
  <2>5. StatusOK(db.status, db.index)'
    BY <1>0, <1>3, Zenon DEF DataOK
  <2> QED BY <2>1, <2>2, <2>3, <2>4, <2>5, Zenon DEF DataOK
<1>7. AcceptOK' /\ ReorgOK'
  BY <1>0, <1>1, <1>3, Zenon DEF AcceptOK, ReorgOK
<1>8. OrphansOK'
  BY <1>0, <1>1, OrphansFrame, Zenon DEF poolVars
<1> QED BY <1>4, <1>6, <1>7, <1>8, Zenon DEF IInv

(* AddNode gives the block a node without status; flushBlockIndex writes it *)
(* with the other modified nodes, or fails and ends the call.               *)
LEMMA IndexBlockStep ==
    ASSUME IInv, IndexBlock \/ IndexBlockFails
    PROVE  IInv'
<1>0. TypeOK /\ DataOK /\ AcceptOK /\ ReorgOK /\ OrphansOK
  BY Zenon DEF IInv
<1>1. /\ pc = "index" /\ AddNode
      /\ UNCHANGED <<tip, orphans, oldest, disk>>
  BY Zenon DEF IndexBlock, IndexBlockFails, poolVars, dbVars
<1>2. cur \in Block \ {Genesis} /\ cur \notin index /\ Parent[cur] \in index /\ cur \in db.blocks
  BY <1>0, <1>1, Zenon DEF AcceptOK
<1>3. status[cur] = {}
  BY <1>0, <1>2, Zenon DEF DataOK, StatusOK, Confined
<1>4. index' = index \cup {cur} /\ status' = status
  BY <1>0, <1>1, <1>2, <1>3, Zenon DEF AddNode, TypeOK
<1> DEFINE mod == modified \cup {cur}
<1>5. /\ DataOK' /\ db' \in Database /\ db'.blocks = db.blocks /\ modified' \in SUBSET Block
  <2>1. index' \in SUBSET db.blocks /\ mod \in SUBSET index'
    BY <1>0, <1>2, <1>4, Zenon DEF DataOK, TreeOK
  <2>2. \A b \in index' : Anc[b] \subseteq index'
    BY <1>0, <1>2, <1>4, AncStep, SMTT(30) DEF DataOK, TreeOK
  <2>3. StatusOK(status, index)'
    BY <1>0, <1>4, Zenon DEF DataOK, StatusOK, Confined
  <2>4. "valid" \in status'[tip] /\ tip \in index' /\ status' \in [Block -> SUBSET Flag]
    BY <1>0, <1>4, TipIndexed, Zenon DEF DataOK, KnownValid, TypeOK
  <2>5. \A b \in Block \ mod : status'[b] = db.status[b] /\ (b \in index' <=> b \in db.index)
    BY <1>0, <1>4, Zenon DEF DataOK, MemoryMatchesDatabase
  <2>6. \/ db' = Flushed(db, mod, index', status') /\ modified' = {}
        \/ db' = db /\ modified' = mod
    BY Zenon DEF IndexBlock, IndexBlockFails, dbVars
  <2> HIDE DEF mod
  <2> QED BY <1>0, <1>1, <2>1, <2>2, <2>3, <2>4, <2>5, <2>6, WriteBack, Zenon
<1>6. pc' \notin {"accept", "index"} => OrphansOK'
  BY <1>0, <1>1, <1>2, <1>4, Zenon DEF OrphansOK, NoSecondNode, OrphanPoolBounded, InPool
<1>7. CASE IndexBlock
  <2>1. pc' = "best" /\ UNCHANGED <<cur, fast, queue, target, orig, phase, crashes, dbErrors>>
    BY <1>7, Zenon DEF IndexBlock, reorgVars, faultVars
  <2>2. TypeOK'
    BY <1>0, <1>1, <1>2, <1>4, <1>5, <2>1, Zenon DEF TypeOK, Step
  <2>3. AcceptOK' /\ ReorgOK'
    BY <1>0, <1>1, <1>2, <1>3, <1>4, <2>1, Zenon DEF AcceptOK, ReorgOK
  <2> QED BY <1>5, <1>6, <2>1, <2>2, <2>3, Zenon DEF IInv
<1>8. CASE IndexBlockFails
  <2>1. Return /\ crashes' \in Nat /\ dbErrors' \in Nat /\ pc' = "idle"
    BY <1>0, <1>8, SMTT(30) DEF IndexBlockFails, DbError, TypeOK, Return
  <2>2. index' \in SUBSET Block /\ status' \in [Block -> SUBSET Flag]
    BY <1>0, <1>2, <1>4, Zenon DEF TypeOK
  <2> QED BY <1>0, <1>1, <1>5, <1>6, <2>1, <2>2, ReturnStep, Zenon DEF TypeOK
<1> QED BY <1>7, <1>8, Zenon

(* The check of a block that extends the best chain: its outcome is marked  *)
(* and the index flushed.                                                   *)
LEMMA ExtendInvalidStep ==
    ASSUME IInv, ExtendInvalid
    PROVE  IInv'
<1>0. TypeOK /\ DataOK /\ AcceptOK /\ OrphansOK
  BY Zenon DEF IInv
<1>1. /\ pc = "best" /\ cur \in Bad /\ ~KnownValid(cur) /\ Return
      /\ status' = WithFlag(status, {cur}, "failed")
      /\ UNCHANGED <<index, tip, orphans, oldest, disk>>
  BY Zenon DEF ExtendInvalid, poolVars
<1>2. cur \in index /\ cur \in Block /\ status[cur] = {}
  BY <1>0, <1>1, Zenon DEF AcceptOK
<1>3. status' \in [Block -> SUBSET Flag] /\ StatusOK(status', index)
  BY <1>0, <1>1, <1>2, MarkFailed, Zenon DEF DataOK, TypeOK, KnownValid
<1>4. \A b \in Block \ {cur} : status'[b] = status[b]
  BY <1>1, Zenon DEF WithFlag
<1>5. "valid" \in status'[tip]
  BY <1>0, <1>1, <1>4, Zenon DEF DataOK, KnownValid, TypeOK
<1>6. Touched({cur}, "failed") = {cur}
  BY <1>2, Zenon DEF Touched
<1>7. /\ \/ db' = Flushed(db, modified \cup {cur}, index, status') /\ modified' = {}
         \/ db' = db /\ modified' = modified \cup {cur}
      /\ crashes' \in Nat /\ dbErrors' \in Nat
  <2>1. FlushWarnOnly(status', modified \cup {cur})
    BY <1>6, Zenon DEF ExtendInvalid
  <2> QED BY <1>0, <2>1, FlushCases, Zenon
<1>8. DataOK' /\ db' \in Database /\ modified' \in SUBSET Block
  <2> DEFINE mod == modified \cup {cur}
  <2>1. mod \in SUBSET index /\ modified \subseteq mod /\ \A b \in Block \ mod : status'[b] = status[b]
    BY <1>0, <1>2, <1>4, Zenon DEF DataOK, TreeOK
  <2>2. \/ db' = Flushed(db, mod, index, status') /\ modified' = {}
        \/ db' = db /\ modified' = mod
    BY <1>7, Zenon
  <2> HIDE DEF mod
  <2> QED BY <1>0, <1>1, <1>3, <1>5, <2>1, <2>2, Remark, ZenonT(30)
<1>9. OrphansOK'
  BY <1>0, <1>1, OrphansFrame, Zenon DEF poolVars, Return
<1> QED BY <1>0, <1>1, <1>3, <1>7, <1>8, <1>9, ReturnStep, ZenonT(30) DEF TypeOK

(* The same for a block that passes, or may skip, the check. *)
LEMMA ExtendValidStep ==
    ASSUME IInv, ExtendValid
    PROVE  IInv'
<1>0. TypeOK /\ DataOK /\ AcceptOK /\ ReorgOK /\ OrphansOK
  BY Zenon DEF IInv
<1>1. /\ pc = "best" /\ Parent[cur] = tip /\ (fast \/ KnownValid(cur) \/ cur \notin Bad)
      /\ status' = WithFlag(status, {cur}, "valid")
      /\ pc' = "connect"
      /\ UNCHANGED <<index, tip, orphans, oldest, disk, cur, fast, queue, target, orig, phase>>
  BY Zenon DEF ExtendValid, poolVars, reorgVars
<1>2. cur \in index /\ cur \in Block \ {Genesis} /\ status[cur] = {}
  BY <1>0, <1>1, Zenon DEF AcceptOK
<1>3. cur \in Bad => Linked(cur)
  BY <1>0, <1>1, <1>2, Zenon DEF AcceptOK, KnownValid
<1>4. status' \in [Block -> SUBSET Flag] /\ StatusOK(status', index)
  BY <1>0, <1>1, <1>2, <1>3, MarkValid, ZenonT(30) DEF DataOK, TypeOK, KnownValid
<1>5. (\A b \in Block \ {cur} : status'[b] = status[b]) /\ "valid" \in status'[cur]
  BY <1>1, <1>2, ZenonT(30) DEF WithFlag
<1>6. "valid" \in status'[tip]
  BY <1>0, <1>1, <1>5, Zenon DEF DataOK, KnownValid, TypeOK
<1>7. Touched({cur}, "valid") = {cur}
  BY <1>2, Zenon DEF Touched
<1>8. /\ \/ db' = Flushed(db, modified \cup {cur}, index, status') /\ modified' = {}
         \/ db' = db /\ modified' = modified \cup {cur}
      /\ crashes' \in Nat /\ dbErrors' \in Nat
  <2>1. FlushWarnOnly(status', modified \cup {cur})
    BY <1>7, Zenon DEF ExtendValid
  <2> QED BY <1>0, <2>1, FlushCases, ZenonT(30)
<1>9. DataOK' /\ db' \in Database /\ modified' \in SUBSET Block
  <2> DEFINE mod == modified \cup {cur}
  <2>1. mod \in SUBSET index /\ modified \subseteq mod /\ \A b \in Block \ mod : status'[b] = status[b]
    BY <1>0, <1>2, <1>5, ZenonT(30) DEF DataOK, TreeOK
  <2>2. \/ db' = Flushed(db, mod, index, status') /\ modified' = {}
        \/ db' = db /\ modified' = mod
    BY <1>8, Zenon
  <2> HIDE DEF mod
  <2> QED BY <1>0, <1>1, <1>4, <1>6, <2>1, <2>2, Remark, Zenon
<1>10. TypeOK'
  BY <1>0, <1>1, <1>4, <1>8, <1>9, ZenonT(30) DEF TypeOK, Step
<1>11. AcceptOK' /\ ReorgOK'
  BY <1>0, <1>1, <1>2, <1>5, Zenon DEF AcceptOK, ReorgOK, KnownValid
<1>12. OrphansOK'
  BY <1>0, <1>1, OrphansFrame, Zenon DEF poolVars
<1> QED BY <1>9, <1>10, <1>11, <1>12, Zenon DEF IInv

(* A side chain block is accepted without a further change. *)
LEMMA StaySideChainStep ==
    ASSUME IInv, StaySideChain
    PROVE  IInv'
<1>0. TypeOK /\ DataOK /\ AcceptOK
  BY Zenon DEF IInv
<1>1. DataOK'
  BY <1>0, DataFrame, Zenon DEF StaySideChain
<1>2. cur \in index /\ Accepted /\ UNCHANGED <<memVars, poolVars, dbVars, faultVars>>
  BY <1>0, Zenon DEF StaySideChain, AcceptOK
<1> QED BY <1>0, <1>1, <1>2, AcceptedStep, Zenon DEF TypeOK, memVars, dbVars, faultVars

(* connectBlock moves the tip to a valid child of it, and then either goes   *)
(* on with the orphans or returns a late error.                             *)
LEMMA ConnectBlockStep ==
    ASSUME IInv, ConnectBlock \/ ConnectBlockLateError
    PROVE  IInv'
<1>0. TypeOK /\ DataOK /\ AcceptOK /\ OrphansOK
  BY Zenon DEF IInv
<1>1. /\ pc = "connect" /\ cur \notin MissingInputs /\ modified = {} /\ db' = DbConnect(db, cur) /\ tip' = cur
      /\ UNCHANGED <<index, status, modified, disk>> /\ UNCHANGED poolVars
  BY Zenon DEF ConnectBlock, ConnectBlockLateError
<1>2. cur \in Block \ {Genesis} /\ cur \in index /\ Parent[cur] = tip /\ KnownValid(cur)
  BY <1>0, <1>1, ZenonT(30) DEF AcceptOK
<1>3. /\ db \in Database /\ Consistent(db) /\ db.tip = tip /\ cur \in db.index
      /\ "valid" \in db.status[cur]
  BY <1>0, <1>1, <1>2, ZenonT(30) DEF TypeOK, DataOK, DatabaseConsistent, MemoryMatchesDatabase, KnownValid
<1>4. db' \in Database /\ Consistent(db')
  BY <1>1, <1>2, <1>3, ConnectConsistent, Zenon
<1>5. db'.tip = cur /\ db'.index = db.index /\ db'.status = db.status /\ db'.blocks = db.blocks
  BY <1>1, <1>3, Zenon DEF DbConnect, Database
<1>6. DataOK'
  BY <1>0, <1>1, <1>4, <1>5, MoveTip, ZenonT(30)
<1>7. CASE ConnectBlock
  <2>1. Accepted /\ UNCHANGED faultVars
    BY <1>7, Zenon DEF ConnectBlock
  <2> QED BY <1>0, <1>1, <1>2, <1>4, <1>6, <2>1, AcceptedStep, Zenon DEF TypeOK, faultVars
<1>8. CASE ConnectBlockLateError
  <2>1. Return /\ DbError
    BY <1>8, Zenon DEF ConnectBlockLateError
  <2>2. crashes' \in Nat /\ dbErrors' \in Nat
    BY <1>0, <2>1 DEF DbError, TypeOK
  <2>3. OrphansOK'
    BY <1>0, <1>1, <2>1, OrphansFrame, Zenon DEF Return
  <2> QED BY <1>0, <1>1, <1>2, <1>4, <1>6, <2>1, <2>2, <2>3, ReturnStep, Zenon DEF TypeOK, poolVars
<1> QED BY <1>7, <1>8, Zenon
=============================================================================
