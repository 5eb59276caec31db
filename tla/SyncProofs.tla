---------------------------- MODULE SyncProofs -----------------------------
(***************************************************************************)
(* Theorems about Sync: in headers-first mode there is a sync peer and a   *)
(* next checkpoint, and a lost peer leaves nothing behind.                 *)
(***************************************************************************)
EXTENDS Sync, NaturalsInduction, WellFoundedInduction, TLAPS

-----------------------------------------------------------------------------
(* Sets of naturals *)

\* A set of naturals that is not empty has a least element.
LEMMA Smallest ==
    ASSUME NEW T \in SUBSET Nat, T # {}
    PROVE  \E x \in T : \A y \in T : x <= y
<1>1. PICK x \in T : \A y \in T : <<y, x>> \notin OpToRel(<, Nat)
  BY NatLessThanWellFounded, WFMin, Zenon
<1>2. \A y \in T : y < x => <<y, x>> \in OpToRel(<, Nat)
  BY Zenon DEF OpToRel
<1>3. \A y \in T : ~(y < x)
  BY <1>1, <1>2, Zenon
<1> QED BY <1>3

\* A bounded one has a greatest element.
LEMMA Largest ==
    ASSUME NEW N \in Nat, NEW T \in SUBSET (0..N), T # {}
    PROVE  \E x \in T : \A y \in T : y <= x
<1> DEFINE D == {d \in Nat : \E x \in T : d = N - x}
<1>1. PICK t \in T : TRUE
  BY Zenon
<1>2. N - t \in D
  OBVIOUS
<1>3. PICK d \in D : \A y \in D : d <= y
  BY <1>2, Smallest, Zenon
<1>4. PICK x \in T : d = N - x
  BY Zenon
<1>5. ASSUME NEW y \in T PROVE y <= x
  <2>1. N - y \in D
    OBVIOUS
  <2> QED BY <2>1, <1>3, <1>4
<1> QED BY <1>5, Zenon

-----------------------------------------------------------------------------
(* The recursive functions of Only and of RequestInv *)

\* One vector of handleInvMsg, from each of the states in T.
InvStep(p, inv, T, i) ==
    UNION {IF HaveBlock(t.chain, inv[i]) \/ inv[i] \in t.bm.requested THEN {t}
           ELSE LimitMap(Request(t, p, <<inv[i]>>)) : t \in T}

\* Where the recursion starts and how it goes on: that of Only, for a sequence a and
\* a set b, or that of RequestInv, for a state a, a peer b and an inventory c.
Start(k, a) == IF k = "only" THEN <<>> ELSE {a}
Step(k, a, b, c, v, i) ==
    IF k = "only" THEN (IF a[i] \in b THEN Append(v, a[i]) ELSE v) ELSE InvStep(b, c, v, i)

\* g computes it up to position n.
Computes(k, a, b, c, g, n) ==
    g[0] = Start(k, a) /\ \A i \in 1..n : g[i] = Step(k, a, b, c, g[i - 1], i)

\* Such functions agree,
LEMMA ComputesOnce ==
    ASSUME NEW k, NEW a, NEW b, NEW c, NEW n \in Nat, NEW m \in Nat, NEW g, NEW h,
           Computes(k, a, b, c, g, n), Computes(k, a, b, c, h, m), NEW z \in Nat, z <= n, z <= m
    PROVE  g[z] = h[z]
<1> SUFFICES ASSUME g[z] # h[z] PROVE FALSE
  BY Zenon
<1> DEFINE T == {i \in 0..z : g[i] # h[i]}
<1>1. PICK i \in T : \A j \in T : i <= j
  <2>1. z \in T /\ T \in SUBSET Nat
    OBVIOUS
  <2> QED BY <2>1, Smallest, Zenon
<1>2. i # 0
  BY <1>1, Zenon DEF Computes
<1>3. i - 1 \in 0..z /\ i - 1 \notin T /\ i \in 1..n /\ i \in 1..m
  BY <1>1, <1>2
<1>4. g[i - 1] = h[i - 1]
  BY <1>3, Zenon
<1> QED BY <1>1, <1>3, <1>4, Zenon DEF Computes

\* and exist for every position.
LEMMA ComputesSome ==
    ASSUME NEW k, NEW a, NEW b, NEW c, NEW n \in Nat
    PROVE  \E g : Computes(k, a, b, c, g, n)
<1> SUFFICES ASSUME ~\E g : Computes(k, a, b, c, g, n) PROVE FALSE
  BY Zenon
<1> DEFINE T == {i \in Nat : ~\E g : Computes(k, a, b, c, g, i)}
<1>1. PICK i \in T : \A j \in T : i <= j
  <2>1. n \in T /\ T \in SUBSET Nat
    BY Zenon
  <2> QED BY <2>1, Smallest, Zenon
<1>2. CASE i = 0
  <2>1. Computes(k, a, b, c, [j \in {0} |-> Start(k, a)], 0)
    BY DEF Computes
  <2> QED BY <1>1, <1>2, <2>1, Zenon
<1>3. CASE i # 0
  <2>1. i \in Nat \ {0} /\ i - 1 \in Nat /\ i - 1 \notin T
    BY <1>1, <1>3
  <2>2. PICK g : Computes(k, a, b, c, g, i - 1)
    BY <2>1, Zenon
  <2> HIDE DEF T
  <2> DEFINE h == [j \in 0..i |-> IF j = i THEN Step(k, a, b, c, g[i - 1], i) ELSE g[j]]
  <2>3. h[0] = Start(k, a) /\ h[i] = Step(k, a, b, c, g[i - 1], i) /\ h[i - 1] = g[i - 1]
    BY <2>1, <2>2 DEF Computes
  <2>4. \A j \in 1..(i - 1) : h[j] = Step(k, a, b, c, h[j - 1], j)
    BY <2>1, <2>2 DEF Computes
  <2>5. Computes(k, a, b, c, h, i)
    <3> HIDE DEF h
    <3> QED BY <2>1, <2>3, <2>4 DEF Computes
  <2> USE DEF T
  <2> QED BY <1>1, <2>5, Zenon
<1> QED BY <1>2, <1>3, Zenon

\* G is what the recursive definition defines.
Solves(k, a, b, c, G) ==
    G = [n \in Nat |-> IF n = 0 THEN Start(k, a) ELSE Step(k, a, b, c, G[n - 1], n)]

\* So the recursive definition has a solution.
LEMMA Recursion ==
    ASSUME NEW k, NEW a, NEW b, NEW c
    PROVE  \E F : Solves(k, a, b, c, F)
<1> DEFINE pick(n) == CHOOSE g : Computes(k, a, b, c, g, n)
           F == [n \in Nat |-> pick(n)[n]]
<1>1. \A n \in Nat : Computes(k, a, b, c, pick(n), n)
  BY ComputesSome, Zenon
<1>2. F[0] = Start(k, a)
  BY <1>1, Zenon DEF Computes
<1>3. ASSUME NEW n \in Nat, n # 0 PROVE F[n] = Step(k, a, b, c, F[n - 1], n)
  <2>1. n - 1 \in Nat /\ n - 1 <= n /\ n \in 1..n
    BY <1>3
  <2>2. pick(n)[n - 1] = pick(n - 1)[n - 1]
    <3> HIDE DEF pick
    <3>1. n - 1 <= n - 1
      BY <2>1
    <3> QED BY <1>1, <2>1, <3>1, ComputesOnce
  <2>3. pick(n)[n] = Step(k, a, b, c, pick(n)[n - 1], n)
    BY <1>1, <2>1, Zenon DEF Computes
  <2> HIDE DEF pick
  <2> QED BY <2>1, <2>2, <2>3, Zenon
<1> HIDE DEF pick
<1>4. \A n \in Nat : F[n] = IF n = 0 THEN Start(k, a) ELSE Step(k, a, b, c, F[n - 1], n)
  BY <1>2, <1>3, Zenon
<1>5. F = [n \in Nat |-> F[n]]
  BY Zenon
<1> HIDE DEF F
<1>6. Solves(k, a, b, c, F)
  BY <1>4, <1>5, Zenon DEF Solves
<1> QED BY <1>6, Zenon

\* A solution computes what the definition says.
LEMMA SolutionComputes ==
    ASSUME NEW k, NEW a, NEW b, NEW c, NEW n \in Nat, NEW G, Solves(k, a, b, c, G)
    PROVE  Computes(k, a, b, c, G, n)
<1>1. \A j \in Nat : G[j] = IF j = 0 THEN Start(k, a) ELSE Step(k, a, b, c, G[j - 1], j)
  BY Zenon DEF Solves
<1>2. G[0] = Start(k, a) /\ \A i \in 1..n : G[i] = Step(k, a, b, c, G[i - 1], i)
  BY <1>1
<1> QED BY <1>2, Zenon DEF Computes

\* The recursive function of Only is what its definition says,
LEMMA OnlyComputes ==
    ASSUME NEW seq, NEW S, Len(seq) \in Nat
    PROVE  \E g : Computes("only", seq, S, 0, g, Len(seq)) /\ Only(seq, S) = g[Len(seq)]
<1> DEFINE Body(f) == [i \in Nat |-> IF i = 0 THEN <<>>
                                     ELSE IF seq[i] \in S THEN Append(f[i - 1], seq[i]) ELSE f[i - 1]]
           General(f) == [i \in Nat |-> IF i = 0 THEN Start("only", seq)
                                        ELSE Step("only", seq, S, 0, f[i - 1], i)]
           G == CHOOSE f : f = Body(f)
<1>1. ASSUME NEW f PROVE General(f) = Body(f)
  <2>1. Start("only", seq) = <<>>
    BY DEF Start
  <2>2. ASSUME NEW i \in Nat
        PROVE  Step("only", seq, S, 0, f[i - 1], i)
                 = IF seq[i] \in S THEN Append(f[i - 1], seq[i]) ELSE f[i - 1]
    BY DEF Step
  <2> DEFINE x == General(f)
             y == Body(f)
  <2>3. x = [i \in Nat |-> x[i]] /\ y = [i \in Nat |-> y[i]]
    BY Zenon
  <2>4. \A i \in Nat : x[i] = y[i]
    BY <2>1, <2>2, Zenon
  <2> HIDE DEF x, y
  <2>5. x = y
    BY <2>3, <2>4, Zenon
  <2> HIDE DEF General, Body
  <2> QED BY <2>5, Zenon DEF x, y
<1>2. \E f : f = General(f)
  <2>1. PICK F : Solves("only", seq, S, 0, F)
    BY Recursion, Zenon
  <2>2. F = General(F)
    BY <2>1, Zenon DEF Solves
  <2> QED BY <2>2, Zenon
<1>3. Only(seq, S) = G[Len(seq)]
  BY Zenon DEF Only
<1> HIDE DEF Body
<1>4. G = Body(G)
  <2> HIDE DEF General
  <2> QED BY <1>1, <1>2, Zenon
<1> HIDE DEF G
<1>5. G = General(G)
  <2> HIDE DEF General
  <2> QED BY <1>1, <1>4, Zenon
<1>6. Computes("only", seq, S, 0, G, Len(seq))
  <2>1. Solves("only", seq, S, 0, G)
    BY <1>5, Zenon DEF Solves
  <2> QED BY <2>1, SolutionComputes, Zenon
<1> QED BY <1>3, <1>6, Zenon

\* and that of RequestInv.
LEMMA RequestInvComputes ==
    ASSUME NEW s, NEW p, NEW inv, Len(inv) \in Nat
    PROVE  \E g : Computes("inv", s, p, inv, g, Len(inv)) /\ RequestInv(s, p, inv) = g[Len(inv)]
<1> DEFINE Body(f) == [i \in Nat |->
                         IF i = 0 THEN {s}
                         ELSE UNION {IF HaveBlock(t.chain, inv[i]) \/ inv[i] \in t.bm.requested THEN {t}
                                     ELSE LimitMap(Request(t, p, <<inv[i]>>)) : t \in f[i - 1]}]
           General(f) == [i \in Nat |-> IF i = 0 THEN Start("inv", s)
                                        ELSE Step("inv", s, p, inv, f[i - 1], i)]
           G == CHOOSE f : f = Body(f)
<1>1. ASSUME NEW f PROVE General(f) = Body(f)
  <2>1. Start("inv", s) = {s}
    BY DEF Start
  <2>2. ASSUME NEW i \in Nat
        PROVE  Step("inv", s, p, inv, f[i - 1], i)
                 = UNION {IF HaveBlock(t.chain, inv[i]) \/ inv[i] \in t.bm.requested THEN {t}
                          ELSE LimitMap(Request(t, p, <<inv[i]>>)) : t \in f[i - 1]}
    <3>1. Step("inv", s, p, inv, f[i - 1], i) = InvStep(p, inv, f[i - 1], i)
      BY DEF Step
    <3> QED BY <3>1, Zenon DEF InvStep
  <2> DEFINE x == General(f)
             y == Body(f)
  <2>3. x = [i \in Nat |-> x[i]] /\ y = [i \in Nat |-> y[i]]
    BY Zenon
  <2>4. \A i \in Nat : x[i] = y[i]
    BY <2>1, <2>2, Zenon
  <2> HIDE DEF x, y
  <2>5. x = y
    BY <2>3, <2>4, Zenon
  <2> HIDE DEF General, Body
  <2> QED BY <2>5, Zenon DEF x, y
<1>2. \E f : f = General(f)
  <2>1. PICK F : Solves("inv", s, p, inv, F)
    BY Recursion, Zenon
  <2>2. F = General(F)
    BY <2>1, Zenon DEF Solves
  <2> QED BY <2>2, Zenon
<1>3. RequestInv(s, p, inv) = G[Len(inv)]
  BY Zenon DEF RequestInv
<1> HIDE DEF Body
<1>4. G = Body(G)
  <2> HIDE DEF General
  <2> QED BY <1>1, <1>2, Zenon
<1> HIDE DEF G
<1>5. G = General(G)
  <2> HIDE DEF General
  <2> QED BY <1>1, <1>4, Zenon
<1>6. Computes("inv", s, p, inv, G, Len(inv))
  <2>1. Solves("inv", s, p, inv, G)
    BY <1>5, Zenon DEF Solves
  <2> QED BY <2>1, SolutionComputes, Zenon
<1> QED BY <1>3, <1>6, Zenon

\* Only leaves a sequence of elements of the set.
LEMMA OnlyFacts ==
    ASSUME NEW T, NEW S, NEW seq \in Seq(T)
    PROVE  Only(seq, S) \in Seq(T \cap S)
<1>1. Len(seq) \in Nat
  OBVIOUS
<1>2. PICK g : Computes("only", seq, S, 0, g, Len(seq)) /\ Only(seq, S) = g[Len(seq)]
  BY <1>1, OnlyComputes, Zenon
<1> SUFFICES ASSUME g[Len(seq)] \notin Seq(T \cap S) PROVE FALSE
  BY <1>2, Zenon
<1> DEFINE W == {i \in 0..Len(seq) : g[i] \notin Seq(T \cap S)}
<1>3. PICK i \in W : \A j \in W : i <= j
  <2>1. W \in SUBSET Nat
    BY <1>1
  <2>2. Len(seq) \in 0..Len(seq)
    BY <1>1
  <2>3. Len(seq) \in W
    BY <2>2, Zenon
  <2> QED BY <2>1, <2>3, Smallest, Zenon
<1>4. i # 0
  <2>1. <<>> \in Seq(T \cap S) /\ g[0] = <<>>
    BY <1>2 DEF Computes, Start
  <2> QED BY <1>3, <2>1, Zenon
<1>5. i - 1 \in 0..Len(seq) /\ i - 1 \notin W /\ i \in 1..Len(seq)
  BY <1>1, <1>3, <1>4
<1>6. g[i - 1] \in Seq(T \cap S) /\ g[i] = Step("only", seq, S, 0, g[i - 1], i) /\ seq[i] \in T
  BY <1>2, <1>5 DEF Computes
<1>7. g[i] \in Seq(T \cap S)
  BY <1>6 DEF Step
<1> QED BY <1>3, <1>7, Zenon

-----------------------------------------------------------------------------
(* Types *)

BlockOrNone == Block \cup {None}
Requests == [kind : {"headers", "blocks", "data"}, from : Block, stop : BlockOrNone]
                \cup [kind : {"tip"}, from : {None}, stop : {None}]
Pairs == (Block \X BlockOrNone) \cup {None}

PeerState ==
    [conn : {"new", "up", "lost", "gone"}, newPending : BOOLEAN, last : BOOLEAN,
     requested : SUBSET Block, asked : Seq(Requests), lastBlock : Nat, announced : BlockOrNone,
     getBlocks : Pairs, getHeaders : Pairs, continue : BlockOrNone]

ManagerState ==
    [syncPeer : Peers \cup {None}, candidates : Seq(Peers), requested : SUBSET Block,
     ever : [Block -> Nat], heights : SUBSET (Block \X Peers), headersFirst : BOOLEAN,
     startHeader : BlockOrNone, headerList : Seq(Block), nextCheckpoint : 0..Len(Checkpoints)]

ChainState == [have : SUBSET Block, best : Block, orphans : SUBSET Block]

States == [bm : ManagerState, sp : [Peers -> PeerState], chain : ChainState]

\* An orphan has no index entry, and the genesis block always has one.
ChainOK(c) ==
    c \in ChainState /\ Genesis \in c.have /\ c.best \in c.have /\ c.orphans \cap c.have = {}

\* A block that is requested was counted as requested.
Counted(s) == \A b \in s.bm.requested : s.bm.ever[b] > 0

\* HeadersFirstHasPeer, of a state that a handler works on.
HasPeer(s) == s.bm.headersFirst => s.bm.syncPeer # None /\ s.bm.nextCheckpoint # NoCheckpoint

\* What every handler may rely on, and keeps.
Sound(s) == s \in States /\ ChainOK(s.chain) /\ Counted(s) /\ HasPeer(s)

\* The peers that were not handled as done.
There(s) == {p \in Peers : s.sp[p].conn # "gone"}

\* LostPeersForgotten, of a state that a handler works on.
Forgotten(s) ==
    /\ \A b \in s.bm.requested : \E p \in There(s) : b \in s.sp[p].requested
    /\ s.bm.candidates \in Seq(There(s))
    /\ s.bm.syncPeer \in There(s) \cup {None}

-----------------------------------------------------------------------------
(* What the handlers compute *)

\* What the proofs use of the assumptions on the blocks.
LEMMA Tree ==
    /\ Genesis \in Block /\ None \notin Block /\ None \notin Peers
    /\ \A b \in Block : Height[b] \in Nat /\ Anc[b] \in SUBSET Block /\ b \in Anc[b]
    /\ \A b \in Block \ {Genesis} : Parent[b] \in Block
<1>1. Genesis \in Block /\ None \notin Block /\ None \notin Peers
  BY SyncAssumption, Zenon
<1>2. \A b \in Block : Height[b] \in Nat /\ Anc[b] \in SUBSET Block
  BY SyncAssumption, Zenon
<1>3. \A b \in Block \ {Genesis} : Parent[b] \in Block /\ b \in Anc[b]
  <2>1. \A b \in Block \ {Genesis} : Parent[b] \in Block /\ Anc[b] = {b} \cup Anc[Parent[b]]
    BY SyncAssumption, Zenon
  <2> QED BY <2>1, Zenon
<1>4. Genesis \in Anc[Genesis]
  BY SyncAssumption, Zenon
<1> QED BY <1>1, <1>2, <1>3, <1>4, Zenon

\* A list of naturals has a first greatest one.
LEMMA FirstGreatest ==
    ASSUME NEW n \in Nat \ {0}, NEW h \in [1..n -> Nat]
    PROVE  \E i \in 1..n : (\A j \in 1..n : h[j] <= h[i]) /\ \A j \in 1..(i - 1) : h[j] < h[i]
<1> DEFINE Top(i, k) == \A j \in 1..k : h[j] <= h[i]
<1>1. \E i \in 1..n : Top(i, n)
  <2> DEFINE W == {k \in 1..n : ~\E i \in 1..k : Top(i, k)}
  <2>0. W \in SUBSET Nat /\ (W = {} => \E i \in 1..n : Top(i, n))
    <3>1. n \in 1..n /\ \A x \in 1..n : x \in Nat
      OBVIOUS
    <3> QED BY <3>1, Zenon
  <2> SUFFICES ASSUME W # {} PROVE FALSE
    BY <2>0, Zenon
  <2>2. PICK k \in W : \A j \in W : k <= j
    BY <2>0, Smallest, Zenon
  <2>3. k \in 1..n /\ ~\E i \in 1..k : Top(i, k)
    BY <2>2, Zenon
  <2>3a. k \in 1..n
    BY <2>3, Zenon
  <2>4. ASSUME NEW j \in 1..n, j < k PROVE \E i \in 1..j : Top(i, j)
    <3>1. j \in W => k <= j
      BY <2>2, Zenon
    <3>2. ~(k <= j)
      BY <2>3a, <2>4
    <3> QED BY <3>1, <3>2, Zenon
  <2> HIDE DEF W
  <2>5. k # 1
    <3>1. 1 \in 1..1 /\ Top(1, 1)
      OBVIOUS
    <3> QED BY <2>3, <3>1, Zenon
  <2>6. k - 1 \in 1..n /\ k - 1 < k
    BY <2>3a, <2>5
  <2>7. PICK i \in 1..(k - 1) : \A j \in 1..(k - 1) : h[j] <= h[i]
    BY <2>4, <2>6, Zenon
  <2>8. i \in 1..k /\ k \in 1..k /\ i \in 1..n
    BY <2>3a, <2>6
  <2>9. \A j \in 1..k : (j = k \/ j \in 1..(k - 1)) /\ j \in 1..n
    BY <2>3a
  <2>10. CASE h[k] <= h[i]
    <3>1. \A j \in 1..k : h[j] <= h[i]
      BY <2>7, <2>9, <2>10, Zenon
    <3> QED BY <2>3, <2>8, <3>1, Zenon
  <2>11. CASE ~(h[k] <= h[i])
    <3>1. ASSUME NEW j \in 1..k PROVE h[j] <= h[k]
      <4>1. h[i] \in Nat /\ h[k] \in Nat /\ h[j] \in Nat
        BY <2>3a, <2>8, <2>9, Zenon
      <4>2. h[j] <= h[i] \/ j = k
        BY <2>7, <2>9, Zenon
      <4> QED BY <2>11, <4>1, <4>2
    <3> QED BY <2>3, <2>8, <3>1, Zenon
  <2> QED BY <2>10, <2>11, Zenon
<1> DEFINE V == {i \in 1..n : Top(i, n)}
<1>2. V \in SUBSET Nat /\ V # {}
  BY <1>1
<1>3. PICK i \in V : \A j \in V : i <= j
  BY <1>2, Smallest, Zenon
<1>4. ASSUME NEW j \in 1..(i - 1) PROVE h[j] < h[i]
  <2>1. j \in 1..n /\ j \notin V
    BY <1>3, <1>4
  <2>2. PICK m \in 1..n : ~(h[m] <= h[j])
    BY <2>1, Zenon
  <2> QED BY <1>3, <2>1, <2>2
<1> QED BY <1>3, <1>4, Zenon

\* The first of the highest peers is one of the list.
LEMMA FirstHighestIn ==
    ASSUME NEW s \in States, NEW T \in SUBSET Peers, NEW ps \in Seq(T), ps # <<>>
    PROVE  FirstHighest(s, ps) \in T
<1> DEFINE h == [i \in 1..Len(ps) |-> s.sp[ps[i]].lastBlock]
<1>1. Len(ps) \in Nat \ {0} /\ DOMAIN ps = 1..Len(ps) /\ \A i \in DOMAIN ps : ps[i] \in T
  OBVIOUS
<1>2. h \in [1..Len(ps) -> Nat]
  BY <1>1, Zenon DEF States, PeerState
<1>3. PICK i \in 1..Len(ps) : (\A j \in 1..Len(ps) : h[j] <= h[i]) /\ \A j \in 1..(i - 1) : h[j] < h[i]
  <2> HIDE DEF h
  <2> QED BY <1>1, <1>2, FirstGreatest, Zenon
<1>4. \A j \in 1..(i - 1) : j \in 1..Len(ps)
  BY <1>1
<1>5. /\ \A j \in DOMAIN ps : s.sp[ps[j]].lastBlock <= s.sp[ps[i]].lastBlock
      /\ \A j \in 1..(i - 1) : s.sp[ps[j]].lastBlock < s.sp[ps[i]].lastBlock
  BY <1>1, <1>3, <1>4, Zenon
<1>6. \E k \in DOMAIN ps : FirstHighest(s, ps) = ps[k]
  BY <1>1, <1>5, Zenon DEF FirstHighest
<1> QED BY <1>1, <1>6, Zenon

\* A chain with an orphan has a root for it.
LEMMA GetOrphanRootIn ==
    ASSUME NEW c, ChainOK(c), NEW b \in c.orphans
    PROVE  GetOrphanRoot(c, b) \in Block
<1> DEFINE Up(a) == a \in Anc[b] \cap c.orphans /\ \A x \in Anc[b] \ Anc[a] : x \in c.orphans
           H == {n \in Nat : \E a \in Block : n = Height[a] /\ Up(a)}
<1>1. b \in Block /\ b \in Anc[b] /\ c.orphans \subseteq Block \ {Genesis}
  BY Tree, Zenon DEF ChainOK, ChainState
<1>2. H \in SUBSET Nat /\ Height[b] \in H
  BY <1>1, Tree, Zenon
<1>3. PICK n \in H : \A m \in H : n <= m
  BY <1>2, Smallest, Zenon
<1>4. PICK a \in Block : n = Height[a] /\ Up(a)
  BY <1>3, Zenon
<1>5. Parent[a] \notin c.orphans
  <2> SUFFICES ASSUME Parent[a] \in c.orphans PROVE FALSE
    BY Zenon
  <2>1. a \in Block \ {Genesis} /\ Anc[a] = {a} \cup Anc[Parent[a]] /\ Height[a] = Height[Parent[a]] + 1
    BY <1>1, <1>4, SyncAssumption, Zenon
  <2>2. Parent[a] \in Block /\ Parent[a] \in Anc[b]
    BY <1>1, <1>4, <2>1, SyncAssumption, Tree, Zenon
  <2>3. \A x \in Anc[b] \ Anc[Parent[a]] : x \in c.orphans
    BY <1>4, <2>1, Zenon
  <2>4. Up(Parent[a]) /\ Height[Parent[a]] \in Nat
    BY <2>2, <2>3, Tree, Zenon
  <2>5. Height[Parent[a]] \in H
    BY <2>2, <2>4, Zenon
  <2> QED BY <1>3, <1>4, <2>1, <2>4, <2>5
<1>6. GetOrphanRoot(c, b) \in Anc[b] \cap c.orphans
  BY <1>4, <1>5, Zenon DEF GetOrphanRoot
<1> QED BY <1>1, <1>6, Zenon

\* The genesis block is an ancestor of every block.
LEMMA GenesisBelow == \A b \in Block : Genesis \in Anc[b]
<1> DEFINE W == {n \in Nat : \E b \in Block : n = Height[b] /\ Genesis \notin Anc[b]}
<1>1. W = {}
  <2> SUFFICES ASSUME W # {} PROVE FALSE
    BY Zenon
  <2>1. W \in SUBSET Nat
    BY Zenon
  <2>2. PICK n \in W : \A m \in W : n <= m
    BY <2>1, Smallest, Zenon
  <2>3. PICK b \in Block : n = Height[b] /\ Genesis \notin Anc[b]
    BY <2>2, Zenon
  <2>4. b \in Block \ {Genesis}
    BY <2>3, Tree, Zenon
  <2>5. Anc[b] = {b} \cup Anc[Parent[b]] /\ Height[b] = Height[Parent[b]] + 1
    BY <2>4, SyncAssumption, Zenon
  <2>6. Parent[b] \in Block /\ Height[Parent[b]] \in Nat
    BY <2>4, Tree, Zenon
  <2>7. Genesis \notin Anc[Parent[b]]
    BY <2>3, <2>5, Zenon
  <2>8. Height[Parent[b]] \in W
    BY <2>6, <2>7, Zenon
  <2>9. n <= Height[Parent[b]]
    BY <2>2, <2>8, Zenon
  <2> HIDE DEF W
  <2> QED BY <2>3, <2>5, <2>6, <2>9
<1>2. \A b \in Block : Height[b] \in Nat
  BY Tree, Zenon
<1> QED BY <1>1, <1>2, Zenon

\* Accepting blocks keeps the index and the orphan pool apart,
LEMMA AcceptedOK ==
    ASSUME NEW c, ChainOK(c), NEW new \in SUBSET Block, NEW d \in Accepted(c, new)
    PROVE  ChainOK(d)
<1>0. /\ c.have \in SUBSET Block /\ c.orphans \in SUBSET Block /\ c.best \in c.have
      /\ Genesis \in c.have /\ c.orphans \cap c.have = {}
  BY Zenon DEF ChainOK, ChainState
<1>1. PICK t \in new \cup {c.best} :
          d = [have |-> c.have \cup new, best |-> t, orphans |-> c.orphans \ new]
  BY Zenon DEF Accepted
<1>2. d \in ChainState
  BY <1>0, <1>1, Zenon DEF ChainState
<1>3. d.have = c.have \cup new /\ d.best = t /\ d.orphans = c.orphans \ new
  BY <1>1, Zenon
<1>4. Genesis \in d.have /\ d.best \in d.have /\ d.orphans \cap d.have = {}
  BY <1>0, <1>3, Zenon
<1> QED BY <1>2, <1>4, Zenon DEF ChainOK

\* as does removing an orphan,
LEMMA WithoutOrphan ==
    ASSUME NEW c, ChainOK(c), NEW w
    PROVE  ChainOK([c EXCEPT !.orphans = @ \ {w}])
<1> DEFINE o == c.orphans \ {w}
           d == [c EXCEPT !.orphans = o]
<1>1. /\ c \in ChainState /\ c.orphans \in SUBSET Block /\ c.best \in c.have
      /\ Genesis \in c.have /\ c.orphans \cap c.have = {}
  BY Zenon DEF ChainOK, ChainState
<1>2. o \in SUBSET Block /\ o \cap c.have = {}
  BY <1>1, Zenon
<1>3. [c EXCEPT !.orphans = @ \ {w}] = d
  BY Zenon
<1> HIDE DEF o
<1>4. d \in ChainState /\ d.have = c.have /\ d.best = c.best /\ d.orphans = o
  BY <1>1, <1>2, Zenon DEF ChainState
<1> HIDE DEF d
<1> QED BY <1>1, <1>2, <1>3, <1>4, Zenon DEF ChainOK

\* and keeping one more.
LEMMA WithOrphan ==
    ASSUME NEW c, ChainOK(c), NEW b \in Block \ c.have
    PROVE  /\ ChainOK([c EXCEPT !.orphans = @ \cup {b}])
           /\ b \in [c EXCEPT !.orphans = @ \cup {b}].orphans
<1> DEFINE o == c.orphans \cup {b}
           d == [c EXCEPT !.orphans = o]
<1>1. /\ c \in ChainState /\ c.orphans \in SUBSET Block /\ c.best \in c.have
      /\ Genesis \in c.have /\ c.orphans \cap c.have = {}
  BY Zenon DEF ChainOK, ChainState
<1>2. o \in SUBSET Block /\ o \cap c.have = {} /\ b \in o
  BY <1>1, Zenon
<1>3. [c EXCEPT !.orphans = @ \cup {b}] = d
  BY Zenon
<1> HIDE DEF o
<1>4. d \in ChainState /\ d.have = c.have /\ d.best = c.best /\ d.orphans = o
  BY <1>1, <1>2, Zenon DEF ChainState
<1> HIDE DEF d
<1> QED BY <1>1, <1>2, <1>3, <1>4, Zenon DEF ChainOK

\* ProcessBlock keeps the index and the orphan pool apart, whatever orphans come
\* along, and an orphan is put into the pool.
LEMMA ProcessBlockOK ==
    ASSUME NEW c, ChainOK(c), NEW b \in Block, NEW r \in ProcessBlock(c, b)
    PROVE  ChainOK(r.chain) /\ (r.status = "orphan" => b \in r.chain.orphans)
<1> DEFINE above == {o \in c.orphans : b \in Anc[o] /\ Anc[o] \subseteq c.have \cup c.orphans \cup {b}}
           wrong == {o \in above : WrongCheckpoint(o)}
           first == {w \in wrong : \A o \in wrong : Height[w] <= Height[o]}
           below == {o \in above : \A w \in wrong : Height[o] < Height[w]}
           beside == {o \in above \ wrong : \A w \in first : Height[o] = Height[w]}
           kept == [c EXCEPT !.orphans = @ \cup {b}]
           tip == IF Height[b] > Height[c.best] THEN "main" ELSE "side"
           all == {[chain |-> d, status |-> tip] : d \in Accepted(c, above \cup {b})}
           some(w, before) == {[chain |-> [d EXCEPT !.orphans = @ \ {w}], status |-> "error"] :
                                  d \in Accepted(c, below \cup before \cup {b})}
           stopped(w) == UNION {some(w, before) : before \in SUBSET beside}
<1>1. ProcessBlock(c, b)
        = IF HaveBlock(c, b) THEN {[chain |-> c, status |-> "error"]}
          ELSE IF Parent[b] \notin c.have THEN {[chain |-> kept, status |-> "orphan"]}
          ELSE IF Refused(c, b) THEN {[chain |-> c, status |-> "error"]}
          ELSE IF wrong = {} THEN all
          ELSE UNION {stopped(w) : w \in first}
  BY Zenon DEF ProcessBlock
<1>2. /\ above \cup {b} \in SUBSET Block
      /\ \A before \in SUBSET beside : below \cup before \cup {b} \in SUBSET Block
  <2>1. c.orphans \in SUBSET Block
    BY Zenon DEF ChainOK, ChainState
  <2> QED BY <2>1, Zenon
<1> HIDE DEF above, wrong, first, below, beside
<1>3. CASE r = [chain |-> c, status |-> "error"]
  BY <1>3, Zenon
<1>4. CASE r = [chain |-> kept, status |-> "orphan"] /\ ~HaveBlock(c, b)
  <2>1. b \in Block \ c.have
    BY <1>4, Zenon DEF HaveBlock
  <2>2. ChainOK(kept) /\ b \in kept.orphans
    BY <2>1, WithOrphan, Zenon
  <2> HIDE DEF kept
  <2> QED BY <1>4, <2>2, Zenon
<1>5. CASE r \in all
  <2>1. PICK d \in Accepted(c, above \cup {b}) : r = [chain |-> d, status |-> tip]
    BY <1>5, Zenon
  <2>2. ChainOK(d)
    BY <1>2, AcceptedOK, Zenon
  <2>3. tip # "orphan"
    BY Zenon
  <2> HIDE DEF tip
  <2> QED BY <2>1, <2>2, <2>3, Zenon
<1>6. CASE r \in UNION {stopped(w) : w \in first}
  <2>0. PICK w \in first : r \in stopped(w)
    BY <1>6, Zenon
  <2>1. PICK before \in SUBSET beside : r \in some(w, before)
    BY <2>0, Zenon
  <2>2. PICK d \in Accepted(c, below \cup before \cup {b}) :
            r = [chain |-> [d EXCEPT !.orphans = @ \ {w}], status |-> "error"]
    BY <2>1, Zenon
  <2>3. ChainOK(d)
    BY <1>2, AcceptedOK, Zenon
  <2> DEFINE e == [d EXCEPT !.orphans = @ \ {w}]
  <2>4. ChainOK(e)
    BY <2>3, WithoutOrphan, Zenon
  <2> HIDE DEF e
  <2> QED BY <2>2, <2>4, Zenon DEF e
<1> HIDE DEF kept, all, some, stopped
<1> QED BY <1>1, <1>3, <1>4, <1>5, <1>6, Zenon

\* The next checkpoint, when there is one, is a block.
LEMMA CheckpointIn ==
    /\ \A h : FindNextHeaderCheckpoint(h) \in 0..Len(Checkpoints)
    /\ \A n \in 0..Len(Checkpoints) : n # NoCheckpoint => Checkpoints[n] \in Block
<1>1. Checkpoints \in Seq(Block) /\ Len(Checkpoints) \in Nat /\ DOMAIN Checkpoints = 1..Len(Checkpoints)
  BY SyncAssumption
<1>2. ASSUME NEW h PROVE FindNextHeaderCheckpoint(h) \in 0..Len(Checkpoints)
  <2> DEFINE later == {i \in DOMAIN Checkpoints : Height[Checkpoints[i]] > h}
  <2>1. later \in SUBSET Nat /\ \A i \in later : i \in 0..Len(Checkpoints)
    BY <1>1
  <2>2. CASE later = {}
    BY <1>1, <2>2 DEF FindNextHeaderCheckpoint, NoCheckpoint
  <2>3. CASE later # {}
    <3>1. FindNextHeaderCheckpoint(h) = Min(later)
      BY <2>3, Zenon DEF FindNextHeaderCheckpoint
    <3> HIDE DEF later
    <3>2. \E x \in later : \A y \in later : x <= y
      BY <2>1, <2>3, Smallest, Zenon
    <3>3. Min(later) \in later
      BY <3>2, Zenon DEF Min
    <3> QED BY <2>1, <3>1, <3>3, Zenon
  <2> QED BY <2>2, <2>3, Zenon
<1>3. ASSUME NEW n \in 0..Len(Checkpoints), n # NoCheckpoint PROVE Checkpoints[n] \in Block
  BY <1>1, <1>3 DEF NoCheckpoint
<1> QED BY <1>2, <1>3, Zenon

\* FirstAt is a position, or 0.
LEMMA FirstAtIn ==
    ASSUME NEW T, NEW seq \in Seq(T), NEW x
    PROVE  FirstAt(seq, x) \in 0..Len(seq)
<1> DEFINE at == {i \in DOMAIN seq : seq[i] = x}
<1>1. at \in SUBSET Nat /\ (\A i \in at : i \in 0..Len(seq)) /\ 0 \in 0..Len(seq)
  OBVIOUS
<1>2. FirstAt(seq, x) = IF at = {} THEN 0 ELSE Min(at)
  BY Zenon DEF FirstAt
<1> HIDE DEF at
<1>3. ASSUME at # {} PROVE Min(at) \in at
  <2>1. \E m \in at : \A y \in at : m <= y
    BY <1>1, <1>3, Smallest, Zenon
  <2> QED BY <2>1, Zenon DEF Min
<1> QED BY <1>1, <1>2, <1>3, Zenon

\* A part of a sequence is a sequence of the same elements.
LEMMA PartIn ==
    ASSUME NEW T, NEW seq \in Seq(T), NEW m \in Nat \ {0}, NEW n \in 0..Len(seq)
    PROVE  SubSeq(seq, m, n) \in Seq(T)
OBVIOUS

\* The blocks that a peer locates are blocks of its chain.
LEMMA LocateIn ==
    ASSUME NEW p \in Peers, NEW from \in Block, NEW stop \in BlockOrNone, NEW max \in Nat
    PROVE  Locate(p, from, stop, max) \in Seq(Block)
<1> DEFINE c == RemoteChain[p]
           hs == {Height[b] : b \in Anc[from] \cap ToSetG(p)}
           start == Max(hs) + 1
           end == IF stop \in Range(c) /\ Height[stop] >= start THEN Height[stop] ELSE Len(c)
           n == IF end + 1 > start + max THEN start + max - 1 ELSE end
<1>1. c \in Seq(Block) /\ Len(c) \in Nat /\ \A i \in 1..Len(c) : Height[c[i]] = i
  BY SyncAssumption
<1>2. Locate(p, from, stop, max) = SubSeq(c, start, n)
  BY Zenon DEF Locate
<1>3. Max(hs) \in Nat
  <2>1. \A b \in Anc[from] : Height[b] \in 0..Height[from]
    <3>1. \A b \in Anc[from] : b \in Block /\ Height[b] <= Height[from]
      BY SyncAssumption, Zenon
    <3> QED BY <3>1, Tree
  <2>2. Genesis \in Anc[from] \cap ToSetG(p)
    BY GenesisBelow, Zenon DEF ToSetG
  <2>3. hs \in SUBSET (0..Height[from]) /\ hs # {} /\ Height[from] \in Nat
    BY <2>1, <2>2, Tree, Zenon
  <2> HIDE DEF hs
  <2>4. \E x \in hs : \A y \in hs : y <= x
    BY <2>3, Largest, Zenon
  <2>4a. \E x \in hs : \A y \in hs : x >= y
    <3>1. \A x, y \in hs : y <= x => x >= y
      BY <2>3, Zenon
    <3> QED BY <2>4, <3>1, Zenon
  <2>5. Max(hs) \in hs
    BY <2>4a, Zenon DEF Max
  <2>6. \A x \in hs : x \in Nat
    BY <2>3
  <2> QED BY <2>5, <2>6, Zenon
<1>4. stop \in Range(c) => Height[stop] \in 0..Len(c)
  BY <1>1 DEF Range
<1> HIDE DEF c, hs
<1>5. start \in Nat \ {0} /\ end \in 0..Len(c)
  BY <1>1, <1>3, <1>4
<1>6. CASE end + 1 > start + max
  <2>1. n \in 0..Len(c)
    BY <1>1, <1>5, <1>6
  <2> QED BY <1>1, <1>2, <1>5, <2>1, PartIn, Zenon
<1>7. CASE ~(end + 1 > start + max)
  <2>1. n \in 0..Len(c)
    BY <1>1, <1>5, <1>7, Zenon
  <2> QED BY <1>1, <1>2, <1>5, <2>1, PartIn, Zenon
<1> QED BY <1>6, <1>7, Zenon

-----------------------------------------------------------------------------
(* What a handler leaves alone *)

\* A step of a handler that changes neither the requests, the candidates and the
\* sync peer nor the mode.
Quiet(s, t) ==
    /\ t \in States /\ ChainOK(t.chain)
    /\ t.bm.requested = s.bm.requested /\ t.bm.ever = s.bm.ever
    /\ t.bm.syncPeer = s.bm.syncPeer /\ t.bm.candidates = s.bm.candidates
    /\ t.bm.headersFirst = s.bm.headersFirst /\ t.bm.nextCheckpoint = s.bm.nextCheckpoint
    /\ \A q \in Peers : /\ t.sp[q].requested = s.sp[q].requested
                        /\ t.sp[q].conn = "gone" <=> s.sp[q].conn = "gone"

\* What every handler of a message of peer p does.
Handled(s, t, p) ==
    /\ Sound(t) /\ There(t) = There(s)
    /\ Forgotten(s) /\ p \in There(s) => Forgotten(t)

\* A quiet step satisfies what is asked of a handler.
LEMMA QuietHandled ==
    ASSUME NEW s, NEW t, NEW p, Sound(s), Quiet(s, t)
    PROVE  Handled(s, t, p)
<1>1. There(t) = There(s)
  BY Zenon DEF Quiet, There
<1>2. Sound(t)
  BY Zenon DEF Sound, Quiet, Counted, HasPeer
<1>3. \A q \in There(s) : q \in Peers
  BY Zenon DEF There
<1>4. Forgotten(s) => Forgotten(t)
  BY <1>1, <1>3, Zenon DEF Quiet, Forgotten
<1> QED BY <1>1, <1>2, <1>4, Zenon DEF Handled

\* Two handlers in a row do what one does,
LEMMA HandledAgain ==
    ASSUME NEW s, NEW t, NEW u, NEW p, Handled(s, t, p), Handled(t, u, p)
    PROVE  Handled(s, u, p)
BY Zenon DEF Handled

\* and two quiet steps are quiet.
LEMMA QuietAgain ==
    ASSUME NEW s, NEW t, NEW u, Quiet(s, t), Quiet(t, u)
    PROVE  Quiet(s, u)
BY Zenon DEF Quiet

\* Doing nothing is quiet.
LEMMA QuietSelf == ASSUME NEW s, Sound(s) PROVE Quiet(s, s)
BY Zenon DEF Quiet, Sound

-----------------------------------------------------------------------------
(* Requests to a peer *)

\* Changing fields of one peer that are not its requests is quiet.
LEMMA SetQuiet ==
    ASSUME NEW s, NEW p \in Peers, NEW v \in PeerState, NEW t, Sound(s),
           t = [s EXCEPT !.sp = [s.sp EXCEPT ![p] = v]],
           v.requested = s.sp[p].requested, v.conn = "gone" <=> s.sp[p].conn = "gone"
    PROVE  Quiet(s, t)
<1>1. s \in States /\ ChainOK(s.chain)
  BY Zenon DEF Sound
<1>2. /\ t \in States /\ t.bm = s.bm /\ t.chain = s.chain
      /\ t.sp[p] = v /\ \A q \in Peers \ {p} : t.sp[q] = s.sp[q]
  BY <1>1, Zenon DEF States
<1>3. ASSUME NEW q \in Peers
      PROVE  t.sp[q].requested = s.sp[q].requested /\ (t.sp[q].conn = "gone" <=> s.sp[q].conn = "gone")
  <2>1. CASE q = p
    BY <1>2, <2>1, Zenon
  <2>2. CASE q # p
    BY <1>2, <2>2, Zenon
  <2> QED BY <2>1, <2>2, Zenon
<1> QED BY <1>1, <1>2, <1>3, Zenon DEF Quiet

\* The record of a peer.
LEMMA PeerOf ==
    ASSUME NEW s, Sound(s), NEW p \in Peers
    PROVE  s.sp[p] \in PeerState
BY Zenon DEF Sound, States

\* Queueing requests to a peer changes only what the peer is asked.
LEMMA AskQuiet ==
    ASSUME NEW s, Sound(s), NEW p \in Peers, NEW rs \in Seq(Requests)
    PROVE  Quiet(s, Ask(s, p, rs))
<1> DEFINE X == s.sp[p].asked \o rs
           v == [s.sp[p] EXCEPT !.asked = X]
           t == [s EXCEPT !.sp = [s.sp EXCEPT ![p] = v]]
<1>1. s.sp[p] \in PeerState
  BY PeerOf, Zenon
<1>2. v \in PeerState /\ v.requested = s.sp[p].requested /\ v.conn = s.sp[p].conn
  <2>1. s.sp[p].asked \in Seq(Requests)
    BY <1>1, Zenon DEF PeerState
  <2>2. X \in Seq(Requests)
    BY <2>1
  <2> HIDE DEF X
  <2> QED BY <1>1, <2>2, Zenon DEF PeerState
<1>3. [s EXCEPT !.sp[p].asked = @ \o rs] = t
  BY Zenon
<1>4. Quiet(s, t)
  <2> HIDE DEF v
  <2> QED BY <1>2, SetQuiet, Zenon
<1> HIDE DEF t
<1> QED BY <1>3, <1>4, QuietSelf, Zenon DEF Ask

\* A request for headers or blocks.
LEMMA RequestType ==
    ASSUME NEW k \in {"headers", "blocks", "data"}, NEW from \in Block, NEW stop \in BlockOrNone
    PROVE  [kind |-> k, from |-> from, stop |-> stop] \in Requests
BY Zenon DEF Requests

\* What begin and stop of the last getblocks or getheaders range over.
LEMMA PairType ==
    ASSUME NEW from \in Block, NEW stop \in BlockOrNone
    PROVE  <<from, stop>> \in Pairs
BY Zenon DEF Pairs

\* PushGetHeadersMsg only queues a message and notes its arguments,
LEMMA PushGetHeadersQuiet ==
    ASSUME NEW s, Sound(s), NEW p \in Peers, NEW begin \in Block, NEW stop \in BlockOrNone
    PROVE  Quiet(s, PushGetHeaders(s, p, begin, stop))
<1> DEFINE r == [kind |-> "headers", from |-> begin, stop |-> stop]
           a == Ask(s, p, <<r>>)
           pair == <<begin, stop>>
           v == [a.sp[p] EXCEPT !.getHeaders = pair]
           t == [a EXCEPT !.sp = [a.sp EXCEPT ![p] = v]]
<1>0. "headers" \in {"headers", "blocks", "data"}
  BY Zenon
<1>1. <<r>> \in Seq(Requests) /\ pair \in Pairs
  <2>1. r \in Requests
    BY <1>0, RequestType, Zenon
  <2>2. pair \in Pairs
    BY PairType, Zenon
  <2> HIDE DEF r, pair
  <2> QED BY <2>1, <2>2
<1>2. PushGetHeaders(s, p, begin, stop)
        = IF s.sp[p].getHeaders = pair THEN s ELSE [a EXCEPT !.sp[p].getHeaders = pair]
  BY Zenon DEF PushGetHeaders
<1> HIDE DEF r, pair
<1>3. Quiet(s, a)
  BY <1>1, AskQuiet, Zenon
<1> HIDE DEF a
<1>4. Sound(a)
  BY <1>3, QuietHandled, Zenon DEF Handled
<1>5. [a EXCEPT !.sp[p].getHeaders = pair] = t
  BY Zenon
<1>6. a.sp[p] \in PeerState
  BY <1>4, PeerOf, Zenon
<1>7. v \in PeerState /\ v.requested = a.sp[p].requested /\ v.conn = a.sp[p].conn
  BY <1>1, <1>6, Zenon DEF PeerState
<1>8. Quiet(a, t)
  <2> HIDE DEF v
  <2> QED BY <1>4, <1>7, SetQuiet, Zenon
<1> HIDE DEF t
<1>9. Quiet(s, t)
  BY <1>3, <1>8, QuietAgain, Zenon
<1> QED BY <1>2, <1>5, <1>9, QuietSelf, Zenon

\* and so does PushGetBlocksMsg.
LEMMA PushGetBlocksQuiet ==
    ASSUME NEW s, Sound(s), NEW p \in Peers, NEW begin \in Block, NEW stop \in BlockOrNone
    PROVE  Quiet(s, PushGetBlocks(s, p, begin, stop))
<1> DEFINE r == [kind |-> "blocks", from |-> begin, stop |-> stop]
           a == Ask(s, p, <<r>>)
           pair == <<begin, stop>>
           v == [a.sp[p] EXCEPT !.getBlocks = pair]
           t == [a EXCEPT !.sp = [a.sp EXCEPT ![p] = v]]
<1>0. "blocks" \in {"headers", "blocks", "data"}
  BY Zenon
<1>1. <<r>> \in Seq(Requests) /\ pair \in Pairs
  <2>1. r \in Requests
    BY <1>0, RequestType, Zenon
  <2>2. pair \in Pairs
    BY PairType, Zenon
  <2> HIDE DEF r, pair
  <2> QED BY <2>1, <2>2
<1>2. PushGetBlocks(s, p, begin, stop)
        = IF s.sp[p].getBlocks = pair THEN s ELSE [a EXCEPT !.sp[p].getBlocks = pair]
  BY Zenon DEF PushGetBlocks
<1> HIDE DEF r, pair
<1>3. Quiet(s, a)
  BY <1>1, AskQuiet, Zenon
<1> HIDE DEF a
<1>4. Sound(a)
  BY <1>3, QuietHandled, Zenon DEF Handled
<1>5. [a EXCEPT !.sp[p].getBlocks = pair] = t
  BY Zenon
<1>6. a.sp[p] \in PeerState
  BY <1>4, PeerOf, Zenon
<1>7. v \in PeerState /\ v.requested = a.sp[p].requested /\ v.conn = a.sp[p].conn
  BY <1>1, <1>6 DEF PeerState
<1>8. Quiet(a, t)
  <2> HIDE DEF v
  <2> QED BY <1>4, <1>7, SetQuiet, Zenon
<1> HIDE DEF t
<1>9. Quiet(s, t)
  BY <1>3, <1>8, QuietAgain, Zenon
<1> QED BY <1>2, <1>5, <1>9, QuietSelf, Zenon

\* Facts about sequences.
LEMMA FunSeq == ASSUME NEW T, NEW n \in Nat, NEW f \in [1..n -> T] PROVE f \in Seq(T)
OBVIOUS

\* A sequence of elements of A is one of elements of any larger set.
LEMMA SubsetSeq == ASSUME NEW A, NEW B, A \subseteq B, NEW seq \in Seq(A) PROVE seq \in Seq(B)
OBVIOUS

\* What the proofs use of the elements of a sequence.
LEMMA SeqFacts ==
    ASSUME NEW T, NEW seq \in Seq(T)
    PROVE  /\ Len(seq) \in Nat /\ DOMAIN seq = 1..Len(seq) /\ \A i \in DOMAIN seq : seq[i] \in T
           /\ seq # <<>> => Last(seq) \in T /\ Head(seq) \in T /\ Tail(seq) \in Seq(T)
BY DEF Last

\* Several getblocks messages in a row.
LEMMA PushAllQuiet ==
    ASSUME NEW s, Sound(s), NEW p \in Peers, NEW pairs \in Seq(Block \X BlockOrNone)
    PROVE  Quiet(s, PushAllGetBlocks(s, p, pairs))
<1> DEFINE prior(i) == IF i = 1 THEN s.sp[p].getBlocks ELSE pairs[i - 1]
           fresh == {i \in DOMAIN pairs : pairs[i] # prior(i)}
           sent == Only([i \in DOMAIN pairs |-> i], fresh)
           rs == [i \in DOMAIN sent |-> [kind |-> "blocks", from |-> pairs[sent[i]][1],
                                         stop |-> pairs[sent[i]][2]]]
           a == Ask(s, p, rs)
           pair == Last(pairs)
           v == [a.sp[p] EXCEPT !.getBlocks = pair]
           t == [a EXCEPT !.sp = [a.sp EXCEPT ![p] = v]]
<1>1. PushAllGetBlocks(s, p, pairs)
        = IF pairs = <<>> THEN s ELSE [a EXCEPT !.sp[p].getBlocks = pair]
  BY Zenon DEF PushAllGetBlocks
<1>2. CASE pairs = <<>>
  BY <1>1, <1>2, QuietSelf, Zenon
<1>3. CASE pairs # <<>>
  <2> HIDE DEF fresh
  <2>1. Len(pairs) \in Nat /\ DOMAIN pairs = 1..Len(pairs) /\ pair \in Block \X BlockOrNone
    BY <1>3, SeqFacts, Zenon
  <2>2. sent \in Seq(DOMAIN pairs)
    <3>1. [i \in DOMAIN pairs |-> i] \in [1..Len(pairs) -> DOMAIN pairs]
      BY <2>1, Zenon
    <3>2. [i \in DOMAIN pairs |-> i] \in Seq(DOMAIN pairs)
      BY <2>1, <3>1, FunSeq, Zenon
    <3>3. sent \in Seq(DOMAIN pairs \cap fresh)
      BY <3>2, OnlyFacts, Zenon
    <3> HIDE DEF sent
    <3> QED BY <3>3, SubsetSeq, Zenon
  <2> HIDE DEF sent
  <2>3. Len(sent) \in Nat /\ DOMAIN sent = 1..Len(sent) /\ \A i \in DOMAIN sent : sent[i] \in DOMAIN pairs
    BY <2>2, SeqFacts, Zenon
  <2>4. rs \in Seq(Requests)
    <3>1. ASSUME NEW i \in DOMAIN sent
          PROVE  [kind |-> "blocks", from |-> pairs[sent[i]][1], stop |-> pairs[sent[i]][2]] \in Requests
      <4>1. pairs[sent[i]] \in Block \X BlockOrNone
        BY <2>3, SeqFacts, Zenon
      <4>2. pairs[sent[i]][1] \in Block /\ pairs[sent[i]][2] \in BlockOrNone
        BY <4>1, Zenon
      <4>3. "blocks" \in {"headers", "blocks", "data"}
        BY Zenon
      <4> QED BY <4>2, <4>3, RequestType, Zenon
    <3>2. rs \in [1..Len(sent) -> Requests]
      BY <2>3, <3>1, Zenon
    <3> HIDE DEF rs
    <3> QED BY <2>3, <3>2, FunSeq, Zenon
  <2>5. pair \in Pairs
    BY <2>1, Zenon DEF Pairs
  <2> HIDE DEF rs, pair
  <2>6. Quiet(s, a)
    BY <2>4, AskQuiet, Zenon
  <2> HIDE DEF a
  <2>7. Sound(a)
    BY <2>6, QuietHandled, Zenon DEF Handled
  <2>8. [a EXCEPT !.sp[p].getBlocks = pair] = t
    BY Zenon
  <2>9. a.sp[p] \in PeerState
    BY <2>7, PeerOf, Zenon
  <2>10. v \in PeerState /\ v.requested = a.sp[p].requested /\ v.conn = a.sp[p].conn
    BY <2>5, <2>9, Zenon DEF PeerState
  <2>11. Quiet(a, t)
    <3> HIDE DEF v
    <3> QED BY <2>7, <2>10, SetQuiet, Zenon
  <2> HIDE DEF t
  <2>12. Quiet(s, t)
    BY <2>6, <2>11, QuietAgain, Zenon
  <2> QED BY <1>1, <1>3, <2>8, <2>12, Zenon
<1> QED BY <1>2, <1>3, Zenon

\* Sending a getdata message changes only what the peer is asked.
LEMMA GetDataQuiet ==
    ASSUME NEW s, Sound(s), NEW p \in Peers, NEW bs \in Seq(Block)
    PROVE  Quiet(s, GetData(s, p, bs))
<1> DEFINE rs == [i \in DOMAIN bs |-> [kind |-> "data", from |-> bs[i], stop |-> None]]
<1>1. Len(bs) \in Nat /\ DOMAIN bs = 1..Len(bs) /\ \A i \in DOMAIN bs : bs[i] \in Block
  BY SeqFacts, Zenon
<1>2. "data" \in {"headers", "blocks", "data"} /\ None \in BlockOrNone
  BY Zenon DEF BlockOrNone
<1>3. \A i \in DOMAIN bs : [kind |-> "data", from |-> bs[i], stop |-> None] \in Requests
  BY <1>1, <1>2, RequestType, Zenon
<1>4. rs \in [1..Len(bs) -> Requests]
  BY <1>1, <1>3, Zenon
<1>5. GetData(s, p, bs) = Ask(s, p, rs)
  BY Zenon DEF GetData
<1> HIDE DEF rs
<1>6. rs \in Seq(Requests)
  BY <1>1, <1>4, FunSeq, Zenon
<1> QED BY <1>5, <1>6, AskQuiet, Zenon

\* Disconnecting a peer loses it, which the manager does not know of yet.
LEMMA DropQuiet ==
    ASSUME NEW s, Sound(s), NEW p \in Peers
    PROVE  Quiet(s, Drop(s, p))
<1> DEFINE w == s.sp[p].asked # <<>>
           v == [s.sp[p] EXCEPT !.conn = "lost", !.last = w]
           t == [s EXCEPT !.sp = [s.sp EXCEPT ![p] = v]]
<1>1. CASE s.sp[p].conn = "up"
  <2>1. s.sp[p] \in PeerState
    BY PeerOf, Zenon
  <2>2. v \in PeerState /\ v.requested = s.sp[p].requested /\ v.conn = "lost"
    <3>1. w \in BOOLEAN /\ "lost" \in {"new", "up", "lost", "gone"}
      BY Zenon
    <3> HIDE DEF w
    <3> QED BY <2>1, <3>1, Zenon DEF PeerState
  <2>3. [s EXCEPT !.sp[p].conn = "lost", !.sp[p].last = s.sp[p].asked # <<>>] = t
    BY Zenon
  <2>4. v.conn # "gone" /\ s.sp[p].conn # "gone"
    <3> HIDE DEF v
    <3> QED BY <1>1, <2>2, Zenon
  <2>5. Quiet(s, t)
    <3> HIDE DEF v
    <3> QED BY <2>2, <2>4, SetQuiet, Zenon
  <2> HIDE DEF t
  <2> QED BY <1>1, <2>3, <2>5, Zenon DEF Drop
<1>2. CASE s.sp[p].conn # "up"
  BY <1>2, QuietSelf, Zenon DEF Drop
<1> QED BY <1>1, <1>2, Zenon

-----------------------------------------------------------------------------
(* Choosing the sync peer *)

\* What startSync and the handlers that do not ask a peer for blocks do.
Keeps(s, t) == Sound(t) /\ There(t) = There(s) /\ (Forgotten(s) => Forgotten(t))

\* A quiet step keeps what a handler has to keep.
LEMMA QuietKeeps ==
    ASSUME NEW s, NEW t, Sound(s), Quiet(s, t)
    PROVE  Keeps(s, t)
<1>1. There(t) = There(s)
  BY Zenon DEF Quiet, There
<1>2. Sound(t)
  BY Zenon DEF Sound, Quiet, Counted, HasPeer
<1>3. \A q \in There(s) : q \in Peers
  BY Zenon DEF There
<1>4. Forgotten(s) => Forgotten(t)
  BY <1>1, <1>3, Zenon DEF Quiet, Forgotten
<1> QED BY <1>1, <1>2, <1>4, Zenon DEF Keeps

\* The fields of the manager.
LEMMA ManagerOf ==
    ASSUME NEW s, Sound(s)
    PROVE  /\ s \in States /\ s.bm \in ManagerState /\ s.bm.syncPeer \in Peers \cup {None}
           /\ s.bm.candidates \in Seq(Peers) /\ s.bm.requested \in SUBSET Block
           /\ s.bm.ever \in [Block -> Nat] /\ s.bm.headersFirst \in BOOLEAN
           /\ s.bm.startHeader \in BlockOrNone /\ s.bm.headerList \in Seq(Block)
           /\ s.bm.nextCheckpoint \in 0..Len(Checkpoints) /\ s.bm.heights \in SUBSET (Block \X Peers)
BY Zenon DEF Sound, States, ManagerState

\* What the block manager knows of the chain.
LEMMA ChainOf ==
    ASSUME NEW s, Sound(s)
    PROVE  /\ ChainOK(s.chain) /\ s.chain.best \in Block /\ s.chain.orphans \in SUBSET Block
           /\ s.chain.have \in SUBSET Block
BY Zenon DEF Sound, ChainOK, ChainState

\* Replacing the record of the manager.
LEMMA SetManager ==
    ASSUME NEW s \in States, NEW m \in ManagerState, NEW t, t = [s EXCEPT !.bm = m]
    PROVE  t \in States /\ t.bm = m /\ t.sp = s.sp /\ t.chain = s.chain /\ There(t) = There(s)
<1>1. t \in States /\ t.bm = m /\ t.sp = s.sp /\ t.chain = s.chain
  BY Zenon DEF States
<1> QED BY <1>1, Zenon DEF There

\* The header list and the start header concern no property here.
LEMMA SetHeadersQuiet ==
    ASSUME NEW s, Sound(s), NEW l \in Seq(Block), NEW x \in BlockOrNone
    PROVE  Quiet(s, [s EXCEPT !.bm = [s.bm EXCEPT !.headerList = l, !.startHeader = x]])
<1> DEFINE m == [s.bm EXCEPT !.headerList = l, !.startHeader = x]
<1>1. s \in States /\ s.bm \in ManagerState
  BY ManagerOf, Zenon
<1>2. /\ m \in ManagerState
      /\ m.requested = s.bm.requested /\ m.ever = s.bm.ever
      /\ m.syncPeer = s.bm.syncPeer /\ m.candidates = s.bm.candidates
      /\ m.headersFirst = s.bm.headersFirst /\ m.nextCheckpoint = s.bm.nextCheckpoint
  BY <1>1, Zenon DEF ManagerState
<1> DEFINE u == [s EXCEPT !.bm = m]
<1>3. [s EXCEPT !.bm = [s.bm EXCEPT !.headerList = l, !.startHeader = x]] = u
  BY Zenon
<1> HIDE DEF m
<1>4. u \in States /\ u.bm = m /\ u.sp = s.sp /\ u.chain = s.chain /\ There(u) = There(s)
  BY <1>1, <1>2, SetManager, Zenon
<1> HIDE DEF u
<1> QED BY <1>2, <1>3, <1>4, ChainOf, Zenon DEF Quiet

\* Neither do the messages on their way to peerHandler.
LEMMA SetHeightsQuiet ==
    ASSUME NEW s, Sound(s), NEW h \in SUBSET (Block \X Peers)
    PROVE  Quiet(s, [s EXCEPT !.bm = [s.bm EXCEPT !.heights = h]])
<1> DEFINE m == [s.bm EXCEPT !.heights = h]
           u == [s EXCEPT !.bm = m]
<1>1. s \in States /\ s.bm \in ManagerState
  BY ManagerOf, Zenon
<1>2. /\ m \in ManagerState
      /\ m.requested = s.bm.requested /\ m.ever = s.bm.ever
      /\ m.syncPeer = s.bm.syncPeer /\ m.candidates = s.bm.candidates
      /\ m.headersFirst = s.bm.headersFirst /\ m.nextCheckpoint = s.bm.nextCheckpoint
  BY <1>1, Zenon DEF ManagerState
<1>3. [s EXCEPT !.bm = [s.bm EXCEPT !.heights = h]] = u
  BY Zenon
<1> HIDE DEF m
<1>4. u \in States /\ u.bm = m /\ u.sp = s.sp /\ u.chain = s.chain /\ There(u) = There(s)
  BY <1>1, <1>2, SetManager, Zenon
<1> HIDE DEF u
<1> QED BY <1>2, <1>3, <1>4, ChainOf, Zenon DEF Quiet

\* startSync chooses a sync peer among the candidates, and enters headers-first
\* mode only when it has chosen one and a checkpoint is ahead.
LEMMA StartSyncKeeps ==
    ASSUME NEW s, Sound(s)
    PROVE  Keeps(s, StartSync(s))
<1> DEFINE height == Height[s.chain.best]
           high == {p \in Peers : s.sp[p].lastBlock >= height}
           left == Only(s.bm.candidates, high)
           best == FirstHighest(s, left)
           m0 == [s.bm EXCEPT !.candidates = left]
           t0 == [s EXCEPT !.bm = m0]
           m == [s.bm EXCEPT !.candidates = left, !.requested = {}, !.syncPeer = best]
           t == [s EXCEPT !.bm = m]
           cp == NextCheckpoint(s)
           pb == PushGetBlocks(t, best, s.chain.best, None)
           ph == PushGetHeaders(t, best, s.chain.best, cp)
           mh == [ph.bm EXCEPT !.headersFirst = TRUE]
           th == [ph EXCEPT !.bm = mh]
<1>1. StartSync(s) = IF s.bm.syncPeer # None THEN s
                     ELSE IF left = <<>> THEN [s EXCEPT !.bm.candidates = left]
                     ELSE IF s.bm.nextCheckpoint # NoCheckpoint /\ height < Height[cp]
                     THEN [PushGetHeaders([s EXCEPT !.bm.candidates = left, !.bm.requested = {},
                                                    !.bm.syncPeer = best], best, s.chain.best, cp)
                             EXCEPT !.bm.headersFirst = TRUE]
                     ELSE PushGetBlocks([s EXCEPT !.bm.candidates = left, !.bm.requested = {},
                                                  !.bm.syncPeer = best], best, s.chain.best, None)
  BY Zenon DEF StartSync
<1>2. [s EXCEPT !.bm.candidates = left] = t0
  BY Zenon
<1>3. [s EXCEPT !.bm.candidates = left, !.bm.requested = {}, !.bm.syncPeer = best] = t
  BY Zenon
<1>4. [ph EXCEPT !.bm.headersFirst = TRUE] = th
  BY Zenon
<1>5. s.bm.candidates \in Seq(Peers) /\ s \in States /\ s.bm \in ManagerState
  BY ManagerOf, Zenon
<1>6. left \in Seq(Peers) /\ (s.bm.candidates \in Seq(There(s)) => left \in Seq(There(s)))
  <2>1. ASSUME NEW T, s.bm.candidates \in Seq(T) PROVE left \in Seq(T)
    <3>1. left \in Seq(T \cap high)
      BY <2>1, OnlyFacts, Zenon
    <3>2. T \cap high \subseteq T
      BY Zenon
    <3> QED BY <3>1, <3>2, SubsetSeq, Zenon
  <2> QED BY <2>1, <1>5, Zenon
<1> HIDE DEF left, cp
<1>7. CASE s.bm.syncPeer # None
  BY <1>1, <1>7, QuietSelf, QuietKeeps, Zenon
<1>8. CASE s.bm.syncPeer = None /\ left = <<>>
  <2>1. /\ m0 \in ManagerState /\ m0.requested = s.bm.requested /\ m0.ever = s.bm.ever
        /\ m0.syncPeer = s.bm.syncPeer /\ m0.candidates = left
        /\ m0.headersFirst = s.bm.headersFirst /\ m0.nextCheckpoint = s.bm.nextCheckpoint
    BY <1>5, <1>6, Zenon DEF ManagerState
  <2> HIDE DEF m0
  <2>2. t0 \in States /\ t0.bm = m0 /\ t0.sp = s.sp /\ t0.chain = s.chain /\ There(t0) = There(s)
    BY <1>5, <2>1, SetManager, Zenon
  <2> HIDE DEF t0
  <2>3. Sound(t0)
    BY <2>1, <2>2, Zenon DEF Sound, Counted, HasPeer
  <2>4. Forgotten(s) => Forgotten(t0)
    BY <1>6, <2>1, <2>2, Zenon DEF Forgotten
  <2> QED BY <1>1, <1>2, <1>8, <2>2, <2>3, <2>4, Zenon DEF Keeps
<1>9. CASE s.bm.syncPeer = None /\ left # <<>>
  <2>1. best \in Peers /\ (Forgotten(s) => best \in There(s))
    <3>1. Peers \in SUBSET Peers /\ There(s) \in SUBSET Peers
      BY Zenon DEF There
    <3> QED BY <1>5, <1>6, <1>9, <3>1, FirstHighestIn, Zenon DEF Forgotten
  <2> HIDE DEF best
  <2>2. /\ m \in ManagerState /\ m.requested = {} /\ m.ever = s.bm.ever
        /\ m.syncPeer = best /\ m.candidates = left
        /\ m.headersFirst = s.bm.headersFirst /\ m.nextCheckpoint = s.bm.nextCheckpoint
    BY <1>5, <1>6, <2>1, Zenon DEF ManagerState
  <2> HIDE DEF m
  <2>3. t \in States /\ t.bm = m /\ t.sp = s.sp /\ t.chain = s.chain /\ There(t) = There(s)
    BY <1>5, <2>2, SetManager, Zenon
  <2> HIDE DEF t
  <2>4. Sound(t)
    BY <1>9, <2>2, <2>3, Zenon DEF Sound, Counted, HasPeer
  <2>5. Forgotten(s) => Forgotten(t)
    BY <1>6, <2>1, <2>2, <2>3, Zenon DEF Forgotten
  <2>6. s.chain.best \in Block /\ None \in BlockOrNone
    BY ChainOf, Zenon DEF BlockOrNone
  <2>7. CASE s.bm.nextCheckpoint # NoCheckpoint /\ height < Height[cp]
    <3>1. cp \in BlockOrNone
      BY <2>7, ManagerOf, CheckpointIn, Zenon DEF cp, NextCheckpoint, BlockOrNone
    <3>2. Quiet(t, ph)
      BY <2>1, <2>4, <2>6, <3>1, PushGetHeadersQuiet, Zenon
    <3>3. Sound(ph) /\ There(ph) = There(t) /\ (Forgotten(t) => Forgotten(ph))
      BY <2>4, <3>2, QuietKeeps, Zenon DEF Keeps
    <3>4. ph.bm.syncPeer = best /\ ph.bm.nextCheckpoint # NoCheckpoint
      BY <2>2, <2>3, <2>7, <3>2, Zenon DEF Quiet
    <3> HIDE DEF ph
    <3>5. ph \in States /\ ph.bm \in ManagerState
      BY <3>3, ManagerOf, Zenon
    <3>6. /\ mh \in ManagerState /\ mh.requested = ph.bm.requested /\ mh.ever = ph.bm.ever
          /\ mh.syncPeer = ph.bm.syncPeer /\ mh.candidates = ph.bm.candidates
          /\ mh.nextCheckpoint = ph.bm.nextCheckpoint
      BY <3>5, Zenon DEF ManagerState
    <3> HIDE DEF mh
    <3>7. th \in States /\ th.bm = mh /\ th.sp = ph.sp /\ th.chain = ph.chain /\ There(th) = There(ph)
      BY <3>5, <3>6, SetManager, Zenon
    <3> HIDE DEF th
    <3>8. best # None
      BY <2>1, Tree, Zenon
    <3>9. Sound(th)
      BY <3>3, <3>4, <3>6, <3>7, <3>8, Zenon DEF Sound, Counted, HasPeer
    <3>10. Forgotten(ph) => Forgotten(th)
      BY <3>6, <3>7, Zenon DEF Forgotten
    <3>11. StartSync(s) = th
      BY <1>1, <1>3, <1>4, <1>9, <2>7, Zenon DEF ph
    <3> QED BY <2>3, <2>5, <3>3, <3>7, <3>9, <3>10, <3>11, Zenon DEF Keeps
  <2>8. CASE ~(s.bm.nextCheckpoint # NoCheckpoint /\ height < Height[cp])
    <3>1. Quiet(t, pb)
      BY <2>1, <2>4, <2>6, PushGetBlocksQuiet, Zenon
    <3>2. StartSync(s) = pb
      BY <1>1, <1>3, <1>9, <2>8, Zenon
    <3> HIDE DEF pb
    <3>3. Keeps(t, pb)
      BY <2>4, <3>1, QuietKeeps, Zenon
    <3> QED BY <2>3, <2>5, <3>2, <3>3, Zenon DEF Keeps
  <2> QED BY <2>7, <2>8, Zenon
<1> QED BY <1>7, <1>8, <1>9, Zenon

\* handleNewPeerMsg adds its own peer to the candidates and no other.
LEMMA HandleNewPeerMsgHandled ==
    ASSUME NEW s, Sound(s), NEW p \in Peers
    PROVE  Handled(s, HandleNewPeerMsg(s, p), p)
<1> DEFINE c == Append(s.bm.candidates, p)
           m == [s.bm EXCEPT !.candidates = c]
           t == [s EXCEPT !.bm = m]
<1>1. s \in States /\ s.bm \in ManagerState /\ s.bm.candidates \in Seq(Peers)
  BY ManagerOf, Zenon
<1>2. c \in Seq(Peers)
  BY <1>1
<1>3. ASSUME s.bm.candidates \in Seq(There(s)), p \in There(s) PROVE c \in Seq(There(s))
  BY <1>3
<1>4. HandleNewPeerMsg(s, p) = StartSync(t)
  BY Zenon DEF HandleNewPeerMsg
<1> HIDE DEF c
<1>5. /\ m \in ManagerState /\ m.requested = s.bm.requested /\ m.ever = s.bm.ever
      /\ m.syncPeer = s.bm.syncPeer /\ m.candidates = c
      /\ m.headersFirst = s.bm.headersFirst /\ m.nextCheckpoint = s.bm.nextCheckpoint
  BY <1>1, <1>2, Zenon DEF ManagerState
<1> HIDE DEF m
<1>6. t \in States /\ t.bm = m /\ t.sp = s.sp /\ t.chain = s.chain /\ There(t) = There(s)
  BY <1>1, <1>5, SetManager, Zenon
<1> HIDE DEF t
<1>7. Sound(t)
  BY <1>5, <1>6, Zenon DEF Sound, Counted, HasPeer
<1>8. Forgotten(s) /\ p \in There(s) => Forgotten(t)
  BY <1>3, <1>5, <1>6, Zenon DEF Forgotten
<1>9. Keeps(t, StartSync(t))
  BY <1>7, StartSyncKeeps, Zenon
<1> QED BY <1>4, <1>6, <1>8, <1>9, Zenon DEF Keeps, Handled

\* Forgotten, but for a peer that is being handled as done.
ForgottenBut(s, p) ==
    /\ \A b \in s.bm.requested : \E q \in There(s) \cup {p} : b \in s.sp[q].requested
    /\ s.bm.candidates \in Seq(There(s) \cup {p})
    /\ s.bm.syncPeer \in There(s) \cup {p, None}

\* resetHeaderState leaves headers-first mode until a sync peer is chosen.
LEMMA ResetHeaderStateKeeps ==
    ASSUME NEW s \in States, ChainOK(s.chain), Counted(s)
    PROVE  Keeps(s, ResetHeaderState(s))
<1> DEFINE l == IF s.bm.nextCheckpoint # NoCheckpoint THEN <<s.chain.best>> ELSE <<>>
           m == [s.bm EXCEPT !.headersFirst = FALSE, !.startHeader = None, !.headerList = l]
           t == [s EXCEPT !.bm = m]
<1>1. s.bm \in ManagerState /\ s.chain.best \in Block
  BY Zenon DEF States, ChainOK, ChainState
<1>2. l \in Seq(Block) /\ None \in BlockOrNone
  BY <1>1 DEF BlockOrNone
<1>3. ResetHeaderState(s) = t
  BY Zenon DEF ResetHeaderState
<1> HIDE DEF l
<1>4. /\ m \in ManagerState /\ m.requested = s.bm.requested /\ m.ever = s.bm.ever
      /\ m.syncPeer = s.bm.syncPeer /\ m.candidates = s.bm.candidates
      /\ m.headersFirst = FALSE /\ m.nextCheckpoint = s.bm.nextCheckpoint
  BY <1>1, <1>2, Zenon DEF ManagerState
<1> HIDE DEF m
<1>5. t \in States /\ t.bm = m /\ t.sp = s.sp /\ t.chain = s.chain /\ There(t) = There(s)
  BY <1>1, <1>4, SetManager, Zenon
<1> HIDE DEF t
<1>6. Sound(t)
  BY <1>4, <1>5, Zenon DEF Sound, Counted, HasPeer
<1>7. Forgotten(s) => Forgotten(t)
  BY <1>4, <1>5, Zenon DEF Forgotten
<1> QED BY <1>3, <1>5, <1>6, <1>7, Zenon DEF Keeps

\* handleDonePeerMsg removes from the manager whatever it kept of the lost peer
\* alone: if only that peer could be left behind, nothing is.
LEMMA HandleDonePeerMsgForgets ==
    ASSUME NEW s, Sound(s), NEW p \in Peers
    PROVE  /\ Sound(HandleDonePeerMsg(s, p))
           /\ ForgottenBut(s, p) => Forgotten(HandleDonePeerMsg(s, p))
<1> DEFINE c == Only(s.bm.candidates, Peers \ {p})
           r == s.bm.requested \ s.sp[p].requested
           m == [s.bm EXCEPT !.candidates = c, !.requested = r]
           t == [s EXCEPT !.bm = m]
           mu == [t.bm EXCEPT !.syncPeer = None]
           u == [t EXCEPT !.bm = mu]
           x == IF u.bm.headersFirst THEN ResetHeaderState(u) ELSE u
<1>1. s \in States /\ s.bm \in ManagerState /\ s.bm.candidates \in Seq(Peers) /\ s.bm.requested \in SUBSET Block
  BY ManagerOf, Zenon
<1>2. c \in Seq(Peers)
  <2>1. c \in Seq(Peers \cap (Peers \ {p}))
    BY <1>1, OnlyFacts, Zenon
  <2>2. Peers \cap (Peers \ {p}) \subseteq Peers
    BY Zenon
  <2> HIDE DEF c
  <2> QED BY <2>1, <2>2, SubsetSeq, Zenon
<1>3. ASSUME s.bm.candidates \in Seq(There(s) \cup {p}) PROVE c \in Seq(There(s))
  <2>1. c \in Seq((There(s) \cup {p}) \cap (Peers \ {p}))
    BY <1>3, OnlyFacts, Zenon
  <2>2. (There(s) \cup {p}) \cap (Peers \ {p}) \subseteq There(s)
    BY Zenon
  <2> HIDE DEF c
  <2> QED BY <2>1, <2>2, SubsetSeq, Zenon
<1>4. /\ r \in SUBSET Block /\ r \subseteq s.bm.requested
      /\ ForgottenBut(s, p) => \A b \in r : \E q \in There(s) : b \in s.sp[q].requested
  BY <1>1, Zenon DEF ForgottenBut
<1>5. HandleDonePeerMsg(s, p) = IF s.bm.syncPeer # p THEN t ELSE StartSync(x)
  <2> DEFINE t1 == [s EXCEPT !.bm.candidates = Only(@, Peers \ {p}),
                            !.bm.requested = @ \ s.sp[p].requested]
             u1 == [t1 EXCEPT !.bm.syncPeer = None]
  <2>1. HandleDonePeerMsg(s, p)
          = IF s.bm.syncPeer # p THEN t1
            ELSE StartSync(IF u1.bm.headersFirst THEN ResetHeaderState(u1) ELSE u1)
    BY Zenon DEF HandleDonePeerMsg
  <2>2. t1 = t
    BY Zenon
  <2> HIDE DEF t1, t
  <2>3. u1 = u
    BY <2>2, Zenon
  <2> HIDE DEF u1, u
  <2> QED BY <2>1, <2>2, <2>3, Zenon
<1> HIDE DEF c, r
<1>6. /\ m \in ManagerState /\ m.requested = r /\ m.ever = s.bm.ever
      /\ m.syncPeer = s.bm.syncPeer /\ m.candidates = c
      /\ m.headersFirst = s.bm.headersFirst /\ m.nextCheckpoint = s.bm.nextCheckpoint
  BY <1>1, <1>2, <1>4, Zenon DEF ManagerState
<1> HIDE DEF m
<1>7. t \in States /\ t.bm = m /\ t.sp = s.sp /\ t.chain = s.chain /\ There(t) = There(s)
  BY <1>1, <1>6, SetManager, Zenon
<1> HIDE DEF t
<1>8. Sound(t)
  BY <1>4, <1>6, <1>7, Zenon DEF Sound, Counted, HasPeer
<1>9. CASE s.bm.syncPeer # p
  <2>1. ForgottenBut(s, p) => Forgotten(t)
    <3> SUFFICES ASSUME ForgottenBut(s, p) PROVE Forgotten(t)
      BY Zenon
    <3>1. t.bm.candidates \in Seq(There(t))
      BY <1>3, <1>6, <1>7, Zenon DEF ForgottenBut
    <3>2. t.bm.syncPeer \in There(t) \cup {None}
      BY <1>6, <1>7, <1>9, Zenon DEF ForgottenBut
    <3>3. \A b \in t.bm.requested : \E q \in There(t) : b \in t.sp[q].requested
      BY <1>4, <1>6, <1>7, Zenon
    <3> QED BY <3>1, <3>2, <3>3, Zenon DEF Forgotten
  <2> QED BY <1>5, <1>8, <1>9, <2>1, Zenon
<1>10. CASE s.bm.syncPeer = p
  <2>1. /\ mu \in ManagerState /\ mu.requested = r /\ mu.ever = s.bm.ever
        /\ mu.syncPeer = None /\ mu.candidates = c
        /\ mu.headersFirst = s.bm.headersFirst /\ mu.nextCheckpoint = s.bm.nextCheckpoint
    <3>1. None \in Peers \cup {None}
      BY Zenon
    <3> QED BY <1>6, <1>7, <3>1, Zenon DEF ManagerState
  <2> HIDE DEF mu
  <2>2. u \in States /\ u.bm = mu /\ u.sp = t.sp /\ u.chain = t.chain /\ There(u) = There(t)
    BY <1>7, <2>1, SetManager, Zenon
  <2> HIDE DEF u
  <2>3. ChainOK(u.chain) /\ Counted(u)
    BY <1>4, <1>7, <2>1, <2>2, Zenon DEF Sound, Counted
  <2>4. ForgottenBut(s, p) => Forgotten(u)
    <3> SUFFICES ASSUME ForgottenBut(s, p) PROVE Forgotten(u)
      BY Zenon
    <3>1. u.bm.candidates \in Seq(There(u))
      BY <1>3, <1>7, <2>1, <2>2, Zenon DEF ForgottenBut
    <3>2. u.bm.syncPeer \in There(u) \cup {None}
      BY <2>1, <2>2, Zenon
    <3>3. \A b \in u.bm.requested : \E q \in There(u) : b \in u.sp[q].requested
      BY <1>4, <1>7, <2>1, <2>2, Zenon
    <3> QED BY <3>1, <3>2, <3>3, Zenon DEF Forgotten
  <2>5. Keeps(u, x)
    <3>1. CASE u.bm.headersFirst
      BY <2>2, <2>3, <3>1, ResetHeaderStateKeeps, Zenon
    <3>2. CASE ~u.bm.headersFirst
      <4>1. Sound(u)
        BY <2>2, <2>3, <3>2, Zenon DEF Sound, HasPeer
      <4> QED BY <3>2, <4>1, Zenon DEF Keeps
    <3> QED BY <3>1, <3>2, Zenon
  <2> HIDE DEF x
  <2>6. Keeps(x, StartSync(x))
    BY <2>5, StartSyncKeeps, Zenon DEF Keeps
  <2> QED BY <1>5, <1>10, <2>4, <2>5, <2>6, Zenon DEF Keeps
<1> QED BY <1>9, <1>10, Zenon

-----------------------------------------------------------------------------
(* Requests for blocks *)

\* A peer stays there when its connection does.
LEMMA SameThere ==
    ASSUME NEW s, NEW t, NEW p \in Peers, t.sp[p].conn = "gone" <=> s.sp[p].conn = "gone",
           \A q \in Peers \ {p} : t.sp[q] = s.sp[q]
    PROVE  There(t) = There(s)
<1>1. \A q \in Peers : t.sp[q].conn = "gone" <=> s.sp[q].conn = "gone"
  BY Zenon
<1> QED BY <1>1, Zenon DEF There

\* Blocks asked of a peer are noted both with the manager and with the peer.
LEMMA RequestHandled ==
    ASSUME NEW s, Sound(s), NEW p \in Peers, NEW bs \in Seq(Block)
    PROVE  Handled(s, Request(s, p, bs), p)
<1> DEFINE B == Range(bs)
           R == s.bm.requested \cup B
           E == [b \in Block |-> IF b \in B THEN 1 ELSE s.bm.ever[b]]
           Q == s.sp[p].requested \cup B
           m == [s.bm EXCEPT !.requested = R, !.ever = E]
           v == [s.sp[p] EXCEPT !.requested = Q]
           t == [s EXCEPT !.bm = m, !.sp = [s.sp EXCEPT ![p] = v]]
<1>1. s \in States /\ s.bm \in ManagerState /\ s.bm.requested \in SUBSET Block /\ s.bm.ever \in [Block -> Nat]
  BY ManagerOf, Zenon
<1>2. s.sp[p] \in PeerState
  BY PeerOf, Zenon
<1>3. s.sp[p].requested \in SUBSET Block
  BY <1>2, Zenon DEF PeerState
<1>4. B \in SUBSET Block
  BY DEF Range
<1>5. Request(s, p, bs) = GetData(t, p, bs)
  <2> DEFINE t1 == [s EXCEPT !.bm.requested = @ \cup Range(bs),
                            !.bm.ever = [b \in Block |-> IF b \in Range(bs) THEN 1 ELSE @[b]],
                            !.sp[p].requested = @ \cup Range(bs)]
  <2>1. Request(s, p, bs) = GetData(t1, p, bs)
    BY Zenon DEF Request
  <2>2. t1 = t
    BY Zenon
  <2> HIDE DEF t1, t
  <2> QED BY <2>1, <2>2, Zenon
<1> HIDE DEF B
<1>6. R \in SUBSET Block /\ Q \in SUBSET Block /\ E \in [Block -> Nat]
  <2>1. R \in SUBSET Block /\ Q \in SUBSET Block
    BY <1>1, <1>3, <1>4, Zenon
  <2>2. E \in [Block -> Nat]
    BY <1>1, Zenon
  <2> QED BY <2>1, <2>2, Zenon
<1>7. \A b \in R : E[b] = IF b \in B THEN 1 ELSE s.bm.ever[b]
  BY <1>6, Zenon
<1> HIDE DEF E
<1>8. /\ m \in ManagerState /\ m.requested = R /\ m.ever = E
      /\ m.syncPeer = s.bm.syncPeer /\ m.candidates = s.bm.candidates
      /\ m.headersFirst = s.bm.headersFirst /\ m.nextCheckpoint = s.bm.nextCheckpoint
  <2> HIDE DEF R
  <2> QED BY <1>1, <1>6, Zenon DEF ManagerState
<1>9. v \in PeerState /\ v.requested = Q /\ v.conn = s.sp[p].conn
  <2> HIDE DEF Q
  <2> QED BY <1>2, <1>6, Zenon DEF PeerState
<1> HIDE DEF m, v
<1>10. /\ t \in States /\ t.bm = m /\ t.chain = s.chain
       /\ t.sp[p] = v /\ \A q \in Peers \ {p} : t.sp[q] = s.sp[q]
  BY <1>1, <1>8, <1>9, Zenon DEF States
<1> HIDE DEF t
<1>11. There(t) = There(s)
  BY <1>9, <1>10, SameThere, Zenon
<1>12. Counted(t)
  <2>1. ASSUME NEW b \in R PROVE E[b] > 0
    <3>1. CASE b \in B
      BY <1>7, <3>1
    <3>2. CASE b \notin B
      BY <1>7, <3>2, Zenon DEF Sound, Counted
    <3> QED BY <3>1, <3>2, Zenon
  <2> QED BY <1>8, <1>10, <2>1, Zenon DEF Counted
<1>13. Sound(t)
  BY <1>8, <1>10, <1>12, Zenon DEF Sound, HasPeer
<1>14. Forgotten(s) /\ p \in There(s) => Forgotten(t)
  <2> SUFFICES ASSUME Forgotten(s), p \in There(s) PROVE Forgotten(t)
    BY Zenon
  <2>1. ASSUME NEW b \in R PROVE \E q \in There(s) : b \in t.sp[q].requested
    <3>1. CASE b \in B
      BY <1>9, <1>10, <3>1, Zenon
    <3>2. CASE b \notin B
      <4>1. PICK q \in There(s) : b \in s.sp[q].requested
        BY <3>2, Zenon DEF Forgotten
      <4>2. q \in Peers
        BY <4>1, Zenon DEF There
      <4>3. CASE q = p
        BY <1>9, <1>10, <4>1, <4>3, Zenon
      <4>4. CASE q # p
        BY <1>10, <4>1, <4>2, <4>4, Zenon
      <4> QED BY <4>3, <4>4, Zenon
    <3> QED BY <3>1, <3>2, Zenon
  <2>2. \A b \in t.bm.requested : \E q \in There(t) : b \in t.sp[q].requested
    BY <1>8, <1>10, <1>11, <2>1, Zenon
  <2>3. t.bm.candidates = s.bm.candidates /\ t.bm.syncPeer = s.bm.syncPeer
    BY <1>8, <1>10, Zenon
  <2> QED BY <1>11, <2>2, <2>3, Zenon DEF Forgotten
<1>15. Keeps(t, GetData(t, p, bs))
  BY <1>13, GetDataQuiet, QuietKeeps, Zenon
<1> QED BY <1>5, <1>11, <1>13, <1>14, <1>15, Zenon DEF Keeps, Handled

\* limitMap only removes from the global map.
LEMMA LimitMapKeeps ==
    ASSUME NEW s, Sound(s), NEW t \in LimitMap(s)
    PROVE  Keeps(s, t)
<1>1. CASE t = s
  BY <1>1, QuietSelf, QuietKeeps, Zenon
<1>2. CASE t # s
  <2>1. PICK b \in s.bm.requested : t = [s EXCEPT !.bm.requested = @ \ {b}]
    BY <1>2, Zenon DEF LimitMap
  <2> DEFINE R == s.bm.requested \ {b}
             m == [s.bm EXCEPT !.requested = R]
             u == [s EXCEPT !.bm = m]
  <2>2. t = u
    BY <2>1, Zenon
  <2>3. s \in States /\ s.bm \in ManagerState /\ s.bm.requested \in SUBSET Block
    BY ManagerOf, Zenon
  <2>4. R \in SUBSET Block /\ R \subseteq s.bm.requested
    BY <2>3, Zenon
  <2> HIDE DEF R
  <2>5. /\ m \in ManagerState /\ m.requested = R /\ m.ever = s.bm.ever
        /\ m.syncPeer = s.bm.syncPeer /\ m.candidates = s.bm.candidates
        /\ m.headersFirst = s.bm.headersFirst /\ m.nextCheckpoint = s.bm.nextCheckpoint
    BY <2>3, <2>4, Zenon DEF ManagerState
  <2> HIDE DEF m
  <2>6. u \in States /\ u.bm = m /\ u.sp = s.sp /\ u.chain = s.chain /\ There(u) = There(s)
    BY <2>3, <2>5, SetManager, Zenon
  <2> HIDE DEF u
  <2>7. Sound(u)
    BY <2>4, <2>5, <2>6, Zenon DEF Sound, Counted, HasPeer
  <2>8. Forgotten(s) => Forgotten(u)
    BY <2>4, <2>5, <2>6, Zenon DEF Forgotten
  <2> QED BY <2>2, <2>6, <2>7, <2>8, Zenon DEF Keeps
<1> QED BY <1>1, <1>2, Zenon

\* The requests of handleInvMsg, one after the other.
LEMMA RequestInvHandled ==
    ASSUME NEW s, Sound(s), NEW p \in Peers, NEW inv \in Seq(Block), NEW t \in RequestInv(s, p, inv)
    PROVE  Handled(s, t, p)
<1>1. Len(inv) \in Nat /\ DOMAIN inv = 1..Len(inv) /\ \A i \in DOMAIN inv : inv[i] \in Block
  BY SeqFacts, Zenon
<1>2. PICK g : Computes("inv", s, p, inv, g, Len(inv)) /\ RequestInv(s, p, inv) = g[Len(inv)]
  BY <1>1, RequestInvComputes, Zenon
<1> DEFINE Good(i) == \A u \in g[i] : Handled(s, u, p)
           W == {i \in 0..Len(inv) : ~Good(i)}
<1>3. Good(Len(inv))
  <2> SUFFICES ASSUME ~Good(Len(inv)) PROVE FALSE
    BY Zenon
  <2>1. W \in SUBSET Nat /\ Len(inv) \in 0..Len(inv)
    BY <1>1
  <2>2. Len(inv) \in W
    BY <2>1, Zenon
  <2>3. PICK i \in W : \A j \in W : i <= j
    BY <2>1, <2>2, Smallest, Zenon
  <2>4. i # 0
    <3>1. g[0] = {s}
      BY <1>2, Zenon DEF Computes, Start
    <3>2. Handled(s, s, p)
      BY QuietSelf, QuietHandled, Zenon
    <3> QED BY <2>3, <3>1, <3>2, Zenon
  <2>5. i - 1 \in 0..Len(inv) /\ i - 1 \notin W /\ i \in 1..Len(inv)
    BY <1>1, <2>3, <2>4
  <2>6. Good(i - 1)
    BY <2>5, Zenon
  <2>7. g[i] = InvStep(p, inv, g[i - 1], i)
    BY <1>2, <2>5, Zenon DEF Computes, Step
  <2>8. <<inv[i]>> \in Seq(Block)
    BY <1>1, <2>5
  <2>9. ASSUME NEW u \in g[i] PROVE Handled(s, u, p)
    <3>1. PICK x \in g[i - 1] : u = x \/ u \in LimitMap(Request(x, p, <<inv[i]>>))
      BY <2>7, Zenon DEF InvStep
    <3>2. Handled(s, x, p) /\ Sound(x)
      BY <2>6, Zenon DEF Handled
    <3>3. Handled(x, Request(x, p, <<inv[i]>>), p)
      BY <2>8, <3>2, RequestHandled, Zenon
    <3>4. ASSUME u \in LimitMap(Request(x, p, <<inv[i]>>)) PROVE Handled(s, u, p)
      <4>1. Keeps(Request(x, p, <<inv[i]>>), u)
        BY <3>3, <3>4, LimitMapKeeps, Zenon DEF Handled
      <4>2. Handled(x, u, p)
        BY <3>3, <4>1, Zenon DEF Handled, Keeps
      <4> QED BY <3>2, <4>2, HandledAgain, Zenon
    <3> QED BY <3>1, <3>2, <3>4, Zenon
  <2> QED BY <2>3, <2>9, Zenon
<1> QED BY <1>2, <1>3, Zenon

\* What is left of the header list is a sequence of blocks,
LEMMA HeadersLeftIn ==
    ASSUME NEW s, s.bm.headerList \in Seq(Block), s.bm.startHeader \in Block
    PROVE  HeadersLeft(s) \in Seq(Block)
<1> DEFINE l == s.bm.headerList
           at == FirstAt(l, s.bm.startHeader)
<1>1. HeadersLeft(s) = IF at = 0 THEN <<s.bm.startHeader>> ELSE SubSeq(l, at, Len(l))
  BY Zenon DEF HeadersLeft
<1>2. at \in 0..Len(l) /\ Len(l) \in Nat
  BY FirstAtIn, SeqFacts, Zenon
<1> HIDE DEF at
<1>3. CASE at = 0
  <2>1. <<s.bm.startHeader>> \in Seq(Block)
    OBVIOUS
  <2> QED BY <1>1, <1>3, <2>1, Zenon
<1>4. CASE at # 0
  <2>1. at \in Nat \ {0} /\ Len(l) \in 0..Len(l)
    BY <1>2, <1>4
  <2>2. SubSeq(l, at, Len(l)) \in Seq(Block)
    BY <2>1, PartIn, Zenon
  <2> QED BY <1>1, <1>4, <2>2, Zenon
<1> QED BY <1>3, <1>4, Zenon

\* and so is what fetchHeaderBlocks asks for.
LEMMA HeadersWantedIn ==
    ASSUME NEW s, HeadersLeft(s) \in Seq(Block)
    PROVE  HeadersWanted(s) \in Seq(Block)
<1> DEFINE unknown == {b \in Block : ~HaveBlock(s.chain, b)}
           missing == Only(HeadersLeft(s), unknown)
           size == IF Len(missing) < MaxInv THEN Len(missing) ELSE MaxInv
<1>1. HeadersWanted(s) = SubSeq(missing, 1, size)
  BY Zenon DEF HeadersWanted
<1>2. missing \in Seq(Block)
  <2>1. missing \in Seq(Block \cap unknown)
    BY OnlyFacts, Zenon
  <2>2. Block \cap unknown \subseteq Block
    BY Zenon
  <2> HIDE DEF missing
  <2> QED BY <2>1, <2>2, SubsetSeq, Zenon
<1> HIDE DEF missing
<1>3. Len(missing) \in Nat
  BY <1>2, SeqFacts, Zenon
<1>4. size \in 0..Len(missing) /\ 1 \in Nat \ {0}
  BY <1>3, SyncAssumption
<1> HIDE DEF size
<1> QED BY <1>1, <1>2, <1>4, PartIn, Zenon

\* fetchHeaderBlocks asks the sync peer only, which is a peer that is there.
LEMMA FetchHeaderBlocksKeeps ==
    ASSUME NEW s, Sound(s), s.bm.headersFirst
    PROVE  Keeps(s, FetchHeaderBlocks(s))
<1> DEFINE l == s.bm.headerList
           rest == HeadersLeft(s)
           want == HeadersWanted(s)
           after == FirstAt(rest, Last(want)) + 1
           next == IF Len(want) < MaxInv THEN <<>> ELSE SubSeq(rest, after, Len(rest))
           x == IF next = <<>> THEN None ELSE Head(next)
           t == [s EXCEPT !.bm = [s.bm EXCEPT !.headerList = l, !.startHeader = x]]
<1>1. FetchHeaderBlocks(s)
        = IF s.bm.startHeader = None THEN s
          ELSE Request([s EXCEPT !.bm.startHeader = x], s.bm.syncPeer, want)
  BY Zenon DEF FetchHeaderBlocks
<1>2. CASE s.bm.startHeader = None
  BY <1>1, <1>2, QuietSelf, QuietKeeps, Zenon
<1>3. CASE s.bm.startHeader # None
  <2>1. /\ l \in Seq(Block) /\ s.bm.startHeader \in Block /\ s.bm.syncPeer \in Peers
        /\ s.bm \in ManagerState /\ s \in States
    BY <1>3, ManagerOf, Zenon DEF BlockOrNone, Sound, HasPeer
  <2>2. rest \in Seq(Block) /\ Len(rest) \in Nat
    BY <2>1, HeadersLeftIn, SeqFacts, Zenon
  <2>4. want \in Seq(Block)
    BY <2>2, HeadersWantedIn, Zenon
  <2> HIDE DEF rest, want
  <2>5. next \in Seq(Block)
    <3>1. after \in Nat \ {0} /\ Len(rest) \in 0..Len(rest)
      <4>1. FirstAt(rest, Last(want)) \in 0..Len(rest)
        BY <2>2, FirstAtIn, Zenon
      <4> QED BY <2>2, <4>1
    <3> HIDE DEF after
    <3>2. SubSeq(rest, after, Len(rest)) \in Seq(Block)
      BY <2>2, <3>1, PartIn, Zenon
    <3>3. <<>> \in Seq(Block)
      OBVIOUS
    <3> QED BY <3>2, <3>3, Zenon
  <2> HIDE DEF next
  <2>6. x \in BlockOrNone
    BY <2>5, SeqFacts, Zenon DEF BlockOrNone
  <2> HIDE DEF x
  <2>7. [s EXCEPT !.bm.startHeader = x] = t
    BY <2>1, Zenon DEF States, ManagerState
  <2>8. Quiet(s, t)
    BY <2>1, <2>6, SetHeadersQuiet, Zenon
  <2> HIDE DEF t
  <2>9. Keeps(s, t)
    BY <2>8, QuietKeeps, Zenon
  <2>10. Handled(t, Request(t, s.bm.syncPeer, want), s.bm.syncPeer)
    BY <2>1, <2>4, <2>9, RequestHandled, Zenon DEF Keeps
  <2>11. Forgotten(s) => s.bm.syncPeer \in There(s)
    BY <2>1, Tree, Zenon DEF Forgotten
  <2>12. Keeps(s, Request(t, s.bm.syncPeer, want))
    BY <2>9, <2>10, <2>11, Zenon DEF Keeps, Handled
  <2> QED BY <1>1, <1>3, <2>7, <2>12, Zenon
<1> QED BY <1>2, <1>3, Zenon

-----------------------------------------------------------------------------
(* The messages of a peer *)

\* handleHeadersMsg may drop the sender, extend the header list or start to fetch
\* the blocks; on each of its paths the mode and the requests stay as they should.
LEMMA HandleHeadersMsgKeeps ==
    ASSUME NEW s, Sound(s), NEW p \in Peers, NEW hs \in Seq(Block)
    PROVE  Keeps(s, HandleHeadersMsg(s, p, hs))
<1> DEFINE l == s.bm.headerList
           linked(i) == IF i = 1 THEN l # <<>> /\ Last(l) = Parent[hs[1]]
                        ELSE hs[i - 1] = Parent[hs[i]]
           cp == NextCheckpoint(s)
           stops == {i \in DOMAIN hs : ~linked(i) \/ Height[hs[i]] = Height[cp]}
           stop == Min(stops)
           k == IF linked(stop) THEN stop ELSE stop - 1
           added == IF stops = {} THEN hs ELSE SubSeq(hs, 1, k)
           nl == l \o added
           x == IF s.bm.startHeader = None /\ added # <<>> THEN Head(added) ELSE s.bm.startHeader
           t == [s EXCEPT !.bm = [s.bm EXCEPT !.headerList = nl, !.startHeader = x]]
           u == [t EXCEPT !.bm = [t.bm EXCEPT !.headerList = Tail(t.bm.headerList),
                                              !.startHeader = t.bm.startHeader]]
<1>1. HandleHeadersMsg(s, p, hs)
        = IF ~s.bm.headersFirst THEN Drop(s, p)
          ELSE IF hs = <<>> THEN s
          ELSE IF stops = {} THEN PushGetHeaders(t, p, Last(hs), cp)
          ELSE IF linked(stop) /\ hs[stop] = cp
          THEN FetchHeaderBlocks([t EXCEPT !.bm.headerList = Tail(@)])
          ELSE Drop(t, p)
  <2> DEFINE t1 == [s EXCEPT !.bm.headerList = @ \o added,
                            !.bm.startHeader = IF @ = None /\ added # <<>> THEN Head(added) ELSE @]
  <2>1. HandleHeadersMsg(s, p, hs)
          = IF ~s.bm.headersFirst THEN Drop(s, p)
            ELSE IF hs = <<>> THEN s
            ELSE IF stops = {} THEN PushGetHeaders(t1, p, Last(hs), cp)
            ELSE IF linked(stop) /\ hs[stop] = cp
            THEN FetchHeaderBlocks([t1 EXCEPT !.bm.headerList = Tail(@)])
            ELSE Drop(t1, p)
    BY Zenon DEF HandleHeadersMsg
  <2> HIDE DEF added, linked, stops, stop, cp
  <2>2. t1 = t
    BY Zenon
  <2> HIDE DEF t1, t
  <2> QED BY <2>1, <2>2, Zenon
<1>2. CASE ~s.bm.headersFirst
  BY <1>1, <1>2, DropQuiet, QuietKeeps, Zenon
<1>3. CASE hs = <<>> /\ s.bm.headersFirst
  BY <1>1, <1>3, QuietSelf, QuietKeeps, Zenon
<1>4. CASE hs # <<>> /\ s.bm.headersFirst
  <2>1. /\ l \in Seq(Block) /\ s.bm.startHeader \in BlockOrNone
        /\ s.bm \in ManagerState /\ s \in States
    BY ManagerOf, Zenon
  <2>2. cp \in BlockOrNone
    BY <1>4, ManagerOf, CheckpointIn, Zenon
       DEF cp, NextCheckpoint, BlockOrNone, Sound, HasPeer
  <2>3. Len(hs) \in Nat /\ Last(hs) \in Block /\ DOMAIN hs = 1..Len(hs)
    BY <1>4, SeqFacts, Zenon
  <2>4. stops # {} => stop \in 1..Len(hs)
    <3>1. stops \in SUBSET Nat /\ stops \subseteq 1..Len(hs)
      BY <2>3
    <3> HIDE DEF stops
    <3>2. ASSUME stops # {} PROVE Min(stops) \in stops
      <4>1. \E m \in stops : \A y \in stops : m <= y
        BY <3>1, <3>2, Smallest, Zenon
      <4> QED BY <4>1, Zenon DEF Min
    <3> QED BY <3>1, <3>2, Zenon
  <2> HIDE DEF linked, cp, stops, stop
  <2>5. stops # {} => k \in 0..Len(hs)
    BY <2>3, <2>4
  <2>6. added \in Seq(Block)
    <3>1. 1 \in Nat \ {0}
      OBVIOUS
    <3> HIDE DEF k
    <3> QED BY <2>5, <3>1, PartIn, Zenon
  <2>7. stops # {} /\ linked(stop) => added # <<>>
    <3> SUFFICES ASSUME stops # {}, linked(stop) PROVE added # <<>>
      BY Zenon
    <3>1. added = SubSeq(hs, 1, stop)
      BY Zenon
    <3>2. SubSeq(hs, 1, stop) # <<>>
      BY <2>3, <2>4
    <3> QED BY <3>1, <3>2, Zenon
  <2> HIDE DEF added
  <2>8. nl \in Seq(Block) /\ (added # <<>> => nl # <<>>)
    BY <2>1, <2>6
  <2>9. x \in BlockOrNone
    BY <2>1, <2>6, SeqFacts, Zenon DEF BlockOrNone
  <2> HIDE DEF nl, x
  <2>10. Quiet(s, t) /\ t.bm.headerList = nl
    <3>1. Quiet(s, t)
      BY <2>8, <2>9, SetHeadersQuiet, Zenon
    <3>2. t.bm.headerList = nl
      BY <2>1, Zenon DEF States, ManagerState
    <3> QED BY <3>1, <3>2, Zenon
  <2>11. [t EXCEPT !.bm.headerList = Tail(@)] = u
    <3>1. t \in States
      BY <2>10, Zenon DEF Quiet
    <3> HIDE DEF t
    <3> QED BY <3>1, Zenon DEF States, ManagerState
  <2> HIDE DEF t
  <2>12. Keeps(s, t)
    BY <2>10, QuietKeeps, Zenon
  <2>13. Sound(t) /\ t.bm.headersFirst
    BY <1>4, <2>10, <2>12, Zenon DEF Keeps, Quiet
  <2>14. CASE stops = {}
    <3>1. Keeps(t, PushGetHeaders(t, p, Last(hs), cp))
      BY <2>2, <2>3, <2>13, PushGetHeadersQuiet, QuietKeeps, Zenon
    <3> QED BY <1>1, <1>4, <2>12, <2>14, <3>1, Zenon DEF Keeps
  <2>15. CASE stops # {} /\ linked(stop) /\ hs[stop] = cp
    <3>1. Tail(t.bm.headerList) \in Seq(Block)
      BY <2>7, <2>8, <2>10, <2>15, SeqFacts, Zenon
    <3>2. t.bm.startHeader \in BlockOrNone
      BY <2>13, ManagerOf, Zenon
    <3>3. Quiet(t, u)
      BY <2>13, <3>1, <3>2, SetHeadersQuiet, Zenon
    <3> HIDE DEF u
    <3>4. Keeps(t, u)
      BY <2>13, <3>3, QuietKeeps, Zenon
    <3>5. Keeps(u, FetchHeaderBlocks(u))
      BY <2>13, <3>3, <3>4, FetchHeaderBlocksKeeps, Zenon DEF Keeps, Quiet
    <3>6. HandleHeadersMsg(s, p, hs) = FetchHeaderBlocks(u)
      BY <1>1, <1>4, <2>11, <2>15, Zenon
    <3> QED BY <2>12, <3>4, <3>5, <3>6, Zenon DEF Keeps
  <2>16. CASE stops # {} /\ ~(linked(stop) /\ hs[stop] = cp)
    <3>1. Keeps(t, Drop(t, p))
      BY <2>13, DropQuiet, QuietKeeps, Zenon
    <3> QED BY <1>1, <1>4, <2>12, <2>16, <3>1, Zenon DEF Keeps
  <2> QED BY <2>14, <2>15, <2>16, Zenon
<1>5. s.bm.headersFirst \in BOOLEAN
  BY ManagerOf, Zenon
<1> QED BY <1>2, <1>3, <1>4, <1>5, Zenon

\* What handleInvMsg asks for on account of the blocks the chain has.
LEMMA KnownInvIn ==
    ASSUME NEW c, ChainOK(c), NEW inv \in Seq(Block)
    PROVE  KnownInv(c, inv) \in Seq(Block \X BlockOrNone)
<1> DEFINE S == c.orphans \cup (c.have \cap {Last(inv)})
           known == Only(inv, S)
           pair(i) == IF known[i] \in c.orphans THEN <<c.best, GetOrphanRoot(c, known[i])>>
                      ELSE <<known[i], None>>
           pairs == [i \in DOMAIN known |-> pair(i)]
<1>1. KnownInv(c, inv) = pairs
  BY Zenon DEF KnownInv
<1>2. known \in Seq(Block)
  <2>1. known \in Seq(Block \cap S)
    BY OnlyFacts, Zenon
  <2>2. Block \cap S \subseteq Block
    BY Zenon
  <2> HIDE DEF known
  <2> QED BY <2>1, <2>2, SubsetSeq, Zenon
<1> HIDE DEF known
<1>3. Len(known) \in Nat /\ DOMAIN known = 1..Len(known) /\ \A i \in DOMAIN known : known[i] \in Block
  BY <1>2, SeqFacts, Zenon
<1>4. c.best \in Block
  BY Zenon DEF ChainOK, ChainState
<1>5. ASSUME NEW i \in DOMAIN known PROVE pair(i) \in Block \X BlockOrNone
  <2>1. CASE known[i] \in c.orphans
    <3>1. GetOrphanRoot(c, known[i]) \in Block
      BY <2>1, GetOrphanRootIn, Zenon
    <3> QED BY <1>4, <2>1, <3>1, Zenon DEF BlockOrNone
  <2>2. CASE known[i] \notin c.orphans
    BY <1>3, <2>2, Zenon DEF BlockOrNone
  <2> QED BY <2>1, <2>2, Zenon
<1>6. pairs \in [1..Len(known) -> Block \X BlockOrNone]
  <2> HIDE DEF pair
  <2> QED BY <1>3, <1>5, Zenon
<1> HIDE DEF pairs
<1> QED BY <1>1, <1>3, <1>6, FunSeq, Zenon

\* Fields of a peer that concern no property here.
LEMMA SetAnnounced ==
    ASSUME NEW s, Sound(s), NEW p \in Peers, NEW b \in BlockOrNone
    PROVE  Quiet(s, [s EXCEPT !.sp[p].announced = b])
<1> DEFINE v == [s.sp[p] EXCEPT !.announced = b]
           t == [s EXCEPT !.sp = [s.sp EXCEPT ![p] = v]]
<1>1. [s EXCEPT !.sp[p].announced = b] = t
  BY Zenon
<1>2. v \in PeerState /\ v.requested = s.sp[p].requested /\ v.conn = s.sp[p].conn
  BY PeerOf, Zenon DEF PeerState
<1>3. Quiet(s, t)
  <2> HIDE DEF v
  <2> QED BY <1>2, SetQuiet, Zenon
<1> HIDE DEF t
<1> QED BY <1>1, <1>3, Zenon

\* The height that a peer is known to have is no request.
LEMMA SetLastBlock ==
    ASSUME NEW s, Sound(s), NEW p \in Peers, NEW n \in Nat
    PROVE  Quiet(s, [s EXCEPT !.sp[p].lastBlock = n])
<1> DEFINE v == [s.sp[p] EXCEPT !.lastBlock = n]
           t == [s EXCEPT !.sp = [s.sp EXCEPT ![p] = v]]
<1>1. [s EXCEPT !.sp[p].lastBlock = n] = t
  BY Zenon
<1>2. v \in PeerState /\ v.requested = s.sp[p].requested /\ v.conn = s.sp[p].conn
  BY PeerOf, Zenon DEF PeerState
<1>3. Quiet(s, t)
  <2> HIDE DEF v
  <2> QED BY <1>2, SetQuiet, Zenon
<1> HIDE DEF t
<1> QED BY <1>1, <1>3, Zenon

\* An updatePeerHeightsMsg on its way to peerHandler.
LEMMA SendHeight ==
    ASSUME NEW s, Sound(s), NEW p \in Peers, NEW b \in Block
    PROVE  Quiet(s, [s EXCEPT !.bm.heights = @ \cup {<<b, p>>}])
<1> DEFINE h == s.bm.heights \cup {<<b, p>>}
           t == [s EXCEPT !.bm = [s.bm EXCEPT !.heights = h]]
<1>1. [s EXCEPT !.bm.heights = @ \cup {<<b, p>>}] = t
  BY Zenon
<1>2. h \in SUBSET (Block \X Peers)
  <2>1. s.bm.heights \in SUBSET (Block \X Peers) /\ <<b, p>> \in Block \X Peers
    BY ManagerOf, Zenon
  <2> QED BY <2>1, Zenon
<1> HIDE DEF h
<1>3. Quiet(s, t)
  BY <1>2, SetHeightsQuiet, Zenon
<1> HIDE DEF t
<1> QED BY <1>1, <1>3, Zenon

\* handleInvMsg asks its sender for blocks, so they are asked of a peer that is there.
LEMMA HandleInvMsgHandled ==
    ASSUME NEW s, Sound(s), NEW p \in Peers, NEW inv \in Seq(Block), inv # <<>>,
           NEW t \in HandleInvMsg(s, p, inv)
    PROVE  Handled(s, t, p)
<1> DEFINE final == Last(inv)
           s1 == IF p # s.bm.syncPeer \/ Current(s)
                 THEN [s EXCEPT !.sp[p].announced = final] ELSE s
           s2 == IF Current(s1) /\ final \in Anc[s1.chain.best]
                 THEN [s1 EXCEPT !.sp[p].lastBlock = Height[final]] ELSE s1
           pairs == KnownInv(s2.chain, inv)
           s3 == PushAllGetBlocks(s2, p, pairs)
<1>1. HandleInvMsg(s, p, inv) = IF p # s.bm.syncPeer /\ ~Current(s1) THEN {s1}
                                ELSE IF s.bm.headersFirst THEN {s2}
                                ELSE RequestInv(s3, p, inv)
  BY Zenon DEF HandleInvMsg
<1>2. final \in Block /\ final \in BlockOrNone /\ Height[final] \in Nat
  BY SeqFacts, Tree, Zenon DEF BlockOrNone
<1> HIDE DEF final
<1>4. Quiet(s, s1)
  BY <1>2, SetAnnounced, QuietSelf, Zenon
<1> HIDE DEF s1
<1>5. Sound(s1)
  BY <1>4, QuietKeeps, Zenon DEF Keeps
<1>6. Quiet(s1, s2)
  BY <1>2, <1>5, SetLastBlock, QuietSelf, Zenon
<1> HIDE DEF s2
<1>7. Sound(s2)
  BY <1>5, <1>6, QuietKeeps, Zenon DEF Keeps
<1>8. pairs \in Seq(Block \X BlockOrNone)
  BY <1>7, KnownInvIn, ChainOf, Zenon
<1> HIDE DEF pairs
<1>9. Quiet(s2, s3)
  BY <1>7, <1>8, PushAllQuiet, Zenon
<1> HIDE DEF s3
<1>10. Quiet(s, s2) /\ Quiet(s, s3)
  BY <1>4, <1>6, <1>9, QuietAgain, Zenon
<1>11. Handled(s, s1, p) /\ Handled(s, s2, p) /\ Handled(s, s3, p)
  BY <1>4, <1>10, QuietHandled, Zenon
<1>12. ASSUME t \in RequestInv(s3, p, inv) PROVE Handled(s3, t, p)
  BY <1>11, <1>12, RequestInvHandled, Zenon DEF Handled
<1>13. ASSUME t \in RequestInv(s3, p, inv) PROVE Handled(s, t, p)
  BY <1>11, <1>12, <1>13, HandledAgain, Zenon
<1> QED BY <1>1, <1>11, <1>13, Zenon

\* So does requestFromPeer, for the blocks that a mining state names.
LEMMA RequestFromPeerHandled ==
    ASSUME NEW s, Sound(s), NEW p \in Peers, NEW b \in Block
    PROVE  Handled(s, RequestFromPeer(s, p, b), p)
<1>1. <<b>> \in Seq(Block)
  OBVIOUS
<1>2. Handled(s, Request(s, p, <<b>>), p) /\ Handled(s, s, p)
  BY <1>1, RequestHandled, QuietSelf, QuietHandled, Zenon
<1> QED BY <1>2, Zenon DEF RequestFromPeer

\* Noting the height of a block changes only heights.
LEMMA NoteHeightQuiet ==
    ASSUME NEW s, Sound(s), NEW p \in Peers, NEW b \in Block, NEW status,
           status = "orphan" => b \in s.chain.orphans
    PROVE  Quiet(s, NoteHeight(s, p, b, status))
<1> DEFINE hash == IF status = "orphan" THEN b ELSE s.chain.best
           s1 == IF status = "orphan"
                 THEN PushGetBlocks(s, p, s.chain.best, GetOrphanRoot(s.chain, b)) ELSE s
           s2 == [s1 EXCEPT !.sp[p].lastBlock = Height[hash]]
           s3 == [s2 EXCEPT !.bm.heights = @ \cup {<<hash, p>>}]
<1>1. NoteHeight(s, p, b, status) = IF status = "side" THEN s
                                    ELSE IF status = "orphan" \/ Current(s2) THEN s3 ELSE s2
  BY Zenon DEF NoteHeight
<1>2. s.chain.best \in Block /\ hash \in Block /\ Height[hash] \in Nat
  BY ChainOf, Tree, Zenon
<1> HIDE DEF hash
<1>3. Quiet(s, s1)
  <2>1. ASSUME status = "orphan" PROVE GetOrphanRoot(s.chain, b) \in BlockOrNone
    BY <2>1, GetOrphanRootIn, ChainOf, Zenon DEF BlockOrNone
  <2> QED BY <1>2, <2>1, PushGetBlocksQuiet, QuietSelf, Zenon
<1> HIDE DEF s1
<1>4. Sound(s1)
  BY <1>3, QuietKeeps, Zenon DEF Keeps
<1>5. Quiet(s1, s2)
  BY <1>2, <1>4, SetLastBlock, Zenon
<1> HIDE DEF s2
<1>6. Sound(s2)
  BY <1>4, <1>5, QuietKeeps, Zenon DEF Keeps
<1>7. Quiet(s2, s3)
  BY <1>2, <1>6, SendHeight, Zenon
<1> HIDE DEF s3
<1>8. Quiet(s, s2) /\ Quiet(s, s3)
  BY <1>3, <1>5, <1>7, QuietAgain, Zenon
<1> QED BY <1>1, <1>8, QuietSelf, Zenon

\* What follows the block in handleBlockMsg: at a checkpoint it asks for the next
\* headers, and after the last one it leaves headers-first mode.
LEMMA AfterBlockKeeps ==
    ASSUME NEW s, Sound(s), NEW p \in Peers, NEW b \in Block, NEW status,
           NEW isCheckpoint, status = "orphan" => b \in s.chain.orphans
    PROVE  Keeps(s, AfterBlock(s, p, b, status, isCheckpoint))
<1> DEFINE s3 == NoteHeight(s, p, b, status)
           next == FindNextHeaderCheckpoint(Height[b])
           m4 == [s3.bm EXCEPT !.nextCheckpoint = next]
           s4 == [s3 EXCEPT !.bm = m4]
           m5 == [s4.bm EXCEPT !.headersFirst = FALSE, !.headerList = <<>>]
           s5 == [s4 EXCEPT !.bm = m5]
<1>1. AfterBlock(s, p, b, status, isCheckpoint)
        = IF ~s3.bm.headersFirst THEN s3
          ELSE IF ~isCheckpoint
          THEN IF Cardinality(s3.sp[p].requested) < MinInFlight THEN FetchHeaderBlocks(s3) ELSE s3
          ELSE IF next # NoCheckpoint THEN PushGetHeaders(s4, p, b, NextCheckpoint(s4))
          ELSE PushGetBlocks(s5, p, b, None)
  <2> DEFINE r4 == [s3 EXCEPT !.bm.nextCheckpoint = next]
             r5 == [r4 EXCEPT !.bm.headersFirst = FALSE, !.bm.headerList = <<>>]
  <2>1. AfterBlock(s, p, b, status, isCheckpoint)
          = IF ~s3.bm.headersFirst THEN s3
            ELSE IF ~isCheckpoint
            THEN IF Cardinality(s3.sp[p].requested) < MinInFlight THEN FetchHeaderBlocks(s3) ELSE s3
            ELSE IF next # NoCheckpoint THEN PushGetHeaders(r4, p, b, NextCheckpoint(r4))
            ELSE PushGetBlocks(r5, p, b, None)
    BY Zenon DEF AfterBlock
  <2> HIDE DEF s3, next
  <2>2. r4 = s4
    BY Zenon
  <2> HIDE DEF r4, s4
  <2>3. r5 = s5
    BY <2>2, Zenon
  <2> HIDE DEF r5, s5
  <2> QED BY <2>1, <2>2, <2>3, Zenon
<1>2. None \in BlockOrNone /\ next \in 0..Len(Checkpoints)
  BY CheckpointIn, Zenon DEF BlockOrNone
<1> HIDE DEF next
<1>3. Quiet(s, s3)
  BY NoteHeightQuiet, Zenon
<1> HIDE DEF s3
<1>4. Keeps(s, s3) /\ Sound(s3)
  BY <1>3, QuietKeeps, Zenon DEF Keeps
<1>5. CASE ~s3.bm.headersFirst
  BY <1>1, <1>4, <1>5, Zenon
<1>6. CASE s3.bm.headersFirst /\ ~isCheckpoint
  <2>1. Keeps(s3, FetchHeaderBlocks(s3))
    BY <1>4, <1>6, FetchHeaderBlocksKeeps, Zenon
  <2>2. Keeps(s, FetchHeaderBlocks(s3))
    BY <1>4, <2>1, Zenon DEF Keeps
  <2> QED BY <1>1, <1>4, <1>6, <2>2, Zenon
<1>7. CASE s3.bm.headersFirst /\ isCheckpoint
  <2>1. s3 \in States /\ s3.bm \in ManagerState
    BY <1>4, ManagerOf, Zenon
  <2>2. /\ m4 \in ManagerState /\ m4.requested = s3.bm.requested /\ m4.ever = s3.bm.ever
        /\ m4.syncPeer = s3.bm.syncPeer /\ m4.candidates = s3.bm.candidates
        /\ m4.headersFirst = s3.bm.headersFirst /\ m4.nextCheckpoint = next
    BY <1>2, <2>1, Zenon DEF ManagerState
  <2> HIDE DEF m4
  <2>3. s4 \in States /\ s4.bm = m4 /\ s4.sp = s3.sp /\ s4.chain = s3.chain /\ There(s4) = There(s3)
    BY <2>1, <2>2, SetManager, Zenon
  <2> HIDE DEF s4
  <2>4. CASE next # NoCheckpoint
    <3>1. Sound(s4)
      BY <1>4, <2>2, <2>3, <2>4, Zenon DEF Sound, Counted, HasPeer
    <3>2. Forgotten(s3) => Forgotten(s4)
      BY <2>2, <2>3, Zenon DEF Forgotten
    <3>3. NextCheckpoint(s4) \in BlockOrNone
      BY <1>2, <2>2, <2>3, <2>4, CheckpointIn, Zenon DEF NextCheckpoint, BlockOrNone
    <3>4. Keeps(s4, PushGetHeaders(s4, p, b, NextCheckpoint(s4)))
      BY <3>1, <3>3, PushGetHeadersQuiet, QuietKeeps, Zenon
    <3> QED BY <1>1, <1>4, <1>7, <2>3, <2>4, <3>2, <3>4, Zenon DEF Keeps
  <2>5. CASE next = NoCheckpoint
    <3>1. <<>> \in Seq(Block)
      OBVIOUS
    <3>2. /\ m5 \in ManagerState /\ m5.requested = m4.requested /\ m5.ever = m4.ever
          /\ m5.syncPeer = m4.syncPeer /\ m5.candidates = m4.candidates
          /\ m5.headersFirst = FALSE
      BY <2>2, <2>3, <3>1, Zenon DEF ManagerState
    <3> HIDE DEF m5
    <3>3. s5 \in States /\ s5.bm = m5 /\ s5.sp = s4.sp /\ s5.chain = s4.chain /\ There(s5) = There(s4)
      BY <2>3, <3>2, SetManager, Zenon
    <3> HIDE DEF s5
    <3>4. Sound(s5)
      BY <1>4, <2>2, <2>3, <3>2, <3>3, Zenon DEF Sound, Counted, HasPeer
    <3>5. Forgotten(s3) => Forgotten(s5)
      BY <2>2, <2>3, <3>2, <3>3, Zenon DEF Forgotten
    <3>6. Keeps(s5, PushGetBlocks(s5, p, b, None))
      BY <1>2, <3>4, PushGetBlocksQuiet, QuietKeeps, Zenon
    <3> QED BY <1>1, <1>4, <1>7, <2>3, <2>5, <3>3, <3>5, <3>6, Zenon DEF Keeps
  <2> QED BY <2>4, <2>5, Zenon
<1> QED BY <1>5, <1>6, <1>7, Zenon

\* A block without a parent is never processed: the genesis block is known.
LEMMA HandleBlockMsgKeeps ==
    ASSUME NEW s, Sound(s), NEW p \in Peers, NEW b \in Block, NEW x \in HandleBlockMsg(s, p, b)
    PROVE  Keeps(s, x)
<1> DEFINE fast == FastAdd(s, b)
           isCheckpoint == fast /\ b = NextCheckpoint(s)
           l == IF fast /\ ~isCheckpoint THEN Tail(s.bm.headerList) ELSE s.bm.headerList
           e == IF b \in s.sp[p].requested THEN s.bm.ever[b] ELSE s.bm.ever[b] + 1
           E == [s.bm.ever EXCEPT ![b] = e]
           R == s.bm.requested \ {b}
           Q == s.sp[p].requested \ {b}
           m == [s.bm EXCEPT !.headerList = l, !.ever = E, !.requested = R]
           v == [s.sp[p] EXCEPT !.requested = Q]
           s1 == [s EXCEPT !.bm = m, !.sp = [s.sp EXCEPT ![p] = v]]
           after(r) == IF r.status = "error" THEN [s1 EXCEPT !.chain = r.chain]
                       ELSE AfterBlock([s1 EXCEPT !.chain = r.chain], p, b, r.status, isCheckpoint)
<1>1. HandleBlockMsg(s, p, b)
        = IF Misbehaving(s, p, b) THEN {Drop(s, p)} ELSE {after(r) : r \in ProcessBlock(s.chain, b)}
  <2> DEFINE r1 == [s EXCEPT !.bm.headerList = IF fast /\ ~isCheckpoint THEN Tail(@) ELSE @,
                            !.bm.ever = [@ EXCEPT ![b] = e],
                            !.bm.requested = @ \ {b},
                            !.sp[p].requested = @ \ {b}]
             then(r) == IF r.status = "error" THEN [r1 EXCEPT !.chain = r.chain]
                        ELSE AfterBlock([r1 EXCEPT !.chain = r.chain], p, b, r.status, isCheckpoint)
  <2>1. HandleBlockMsg(s, p, b)
          = IF Misbehaving(s, p, b) THEN {Drop(s, p)} ELSE {then(r) : r \in ProcessBlock(s.chain, b)}
    BY Zenon DEF HandleBlockMsg
  <2> HIDE DEF isCheckpoint, fast
  <2>2. r1 = s1
    BY Zenon
  <2> HIDE DEF r1, s1
  <2> QED BY <2>1, <2>2, Zenon
<1>2. s \in States /\ s.bm \in ManagerState /\ s.bm.requested \in SUBSET Block /\ s.bm.ever \in [Block -> Nat]
  BY ManagerOf, Zenon
<1>3. s.sp[p] \in PeerState
  BY PeerOf, Zenon
<1>4. s.sp[p].requested \in SUBSET Block
  BY <1>3, Zenon DEF PeerState
<1>5. l \in Seq(Block)
  BY ManagerOf, SeqFacts, Zenon DEF FastAdd
<1>6. R \in SUBSET Block /\ Q \in SUBSET Block /\ e \in Nat
  <2>1. R \in SUBSET Block /\ Q \in SUBSET Block
    BY <1>2, <1>4, Zenon
  <2>2. e \in Nat
    BY <1>2
  <2> QED BY <2>1, <2>2, Zenon
<1> HIDE DEF l, e, isCheckpoint
<1>7. E \in [Block -> Nat] /\ \A a \in R : E[a] = s.bm.ever[a]
  BY <1>2, <1>6, Zenon
<1> HIDE DEF E
<1>8. /\ m \in ManagerState /\ m.requested = R /\ m.ever = E
      /\ m.syncPeer = s.bm.syncPeer /\ m.candidates = s.bm.candidates
      /\ m.headersFirst = s.bm.headersFirst /\ m.nextCheckpoint = s.bm.nextCheckpoint
  <2> HIDE DEF R
  <2> QED BY <1>2, <1>5, <1>6, <1>7, Zenon DEF ManagerState
<1>9. v \in PeerState /\ v.requested = Q /\ v.conn = s.sp[p].conn
  <2> HIDE DEF Q
  <2> QED BY <1>3, <1>6, Zenon DEF PeerState
<1> HIDE DEF m, v
<1>10. /\ s1 \in States /\ s1.bm = m /\ s1.chain = s.chain
       /\ s1.sp[p] = v /\ \A q \in Peers \ {p} : s1.sp[q] = s.sp[q]
  BY <1>2, <1>8, <1>9, Zenon DEF States
<1> HIDE DEF s1
<1>11. There(s1) = There(s)
  BY <1>9, <1>10, SameThere, Zenon
<1>12. Sound(s1)
  <2>1. Counted(s1)
    BY <1>7, <1>8, <1>10, Zenon DEF Sound, Counted
  <2> QED BY <1>8, <1>10, <2>1, Zenon DEF Sound, HasPeer
<1>13. Forgotten(s) => Forgotten(s1)
  <2> SUFFICES ASSUME Forgotten(s) PROVE Forgotten(s1)
    BY Zenon
  <2>1. ASSUME NEW a \in R PROVE \E q \in There(s) : a \in s1.sp[q].requested
    <3>1. PICK q \in There(s) : a \in s.sp[q].requested
      BY <2>1, Zenon DEF Forgotten
    <3>2. q \in Peers
      BY <3>1, Zenon DEF There
    <3>3. CASE q = p
      BY <1>9, <1>10, <2>1, <3>1, <3>3, Zenon
    <3>4. CASE q # p
      BY <1>10, <3>1, <3>2, <3>4, Zenon
    <3> QED BY <3>3, <3>4, Zenon
  <2>2. \A a \in s1.bm.requested : \E q \in There(s1) : a \in s1.sp[q].requested
    BY <1>8, <1>10, <1>11, <2>1, Zenon
  <2>3. s1.bm.candidates = s.bm.candidates /\ s1.bm.syncPeer = s.bm.syncPeer
    BY <1>8, <1>10, Zenon
  <2> QED BY <1>11, <2>2, <2>3, Zenon DEF Forgotten
<1>14. Keeps(s, s1)
  BY <1>11, <1>12, <1>13, Zenon DEF Keeps
<1>15. ASSUME NEW r \in ProcessBlock(s.chain, b) PROVE Keeps(s, after(r))
  <2> DEFINE t == [s1 EXCEPT !.chain = r.chain]
  <2>1. ChainOK(r.chain) /\ (r.status = "orphan" => b \in r.chain.orphans)
    BY ProcessBlockOK, ChainOf, Zenon
  <2>2. t \in States /\ t.bm = s1.bm /\ t.sp = s1.sp /\ t.chain = r.chain
    <3>1. r.chain \in ChainState
      BY <2>1, Zenon DEF ChainOK
    <3> QED BY <1>10, <3>1, Zenon DEF States
  <2> HIDE DEF t
  <2>3. Quiet(s1, t)
    BY <2>1, <2>2, Zenon DEF Quiet
  <2>4. Keeps(s1, t)
    BY <1>12, <2>3, QuietKeeps, Zenon
  <2>5. Keeps(t, AfterBlock(t, p, b, r.status, isCheckpoint))
    <3>1. Sound(t) /\ (r.status = "orphan" => b \in t.chain.orphans)
      BY <2>1, <2>2, <2>4, Zenon DEF Keeps
    <3> QED BY <3>1, AfterBlockKeeps, Zenon
  <2>6. Keeps(s, t) /\ Keeps(s, AfterBlock(t, p, b, r.status, isCheckpoint))
    BY <1>14, <2>4, <2>5, Zenon DEF Keeps
  <2> QED BY <2>6, Zenon DEF t
<1>16. Keeps(s, Drop(s, p))
  BY DropQuiet, QuietKeeps, Zenon
<1> HIDE DEF after
<1> QED BY <1>1, <1>15, <1>16, Zenon

\* The tip of a peer is a block.
LEMMA TipIn == ASSUME NEW p \in Peers PROVE Tip(p) \in Block /\ <<Tip(p)>> \in Seq(Block) /\ <<Tip(p)>> # <<>>
<1>1. RemoteChain[p] \in Seq(Block)
  BY SyncAssumption
<1>2. Tip(p) \in Block
  BY <1>1, SeqFacts, Tree, Zenon DEF Tip
<1> QED BY <1>2

\* Whatever a peer answers, the handler of the answer does what is asked of it.
LEMMA AnsweredHandled ==
    ASSUME NEW s, Sound(s), NEW p \in Peers, NEW r \in Requests, NEW x \in Answered(s, p, r)
    PROVE  Handled(s, x, p)
<1> DEFINE inv == Locate(p, r.from, r.stop, MaxBlocks)
           hs == Locate(p, r.from, r.stop, MaxHeaders)
           full == Len(inv) = MaxBlocks
           tip == [kind |-> "tip", from |-> None, stop |-> None]
           t == IF r.kind = "data" /\ s.sp[p].continue = r.from
                THEN [s EXCEPT !.sp[p].continue = None, !.sp[p].asked = <<tip>> \o @]
                ELSE s
           u == IF full THEN [s EXCEPT !.sp[p].continue = Last(inv)] ELSE s
<1>1. /\ r.kind = "headers" => Answered(s, p, r) = {HandleHeadersMsg(s, p, hs)}
      /\ r.kind = "blocks" /\ inv = <<>> => Answered(s, p, r) = {s}
      /\ r.kind = "blocks" /\ inv # <<>> => Answered(s, p, r) = HandleInvMsg(u, p, inv)
      /\ r.kind = "tip" => Answered(s, p, r) = HandleInvMsg(s, p, <<Tip(p)>>)
      /\ r.kind = "data" => Answered(s, p, r) = HandleBlockMsg(t, p, r.from)
  BY Zenon DEF Answered
<1>2. /\ r.kind \in {"headers", "blocks", "tip", "data"}
      /\ r.kind # "tip" => r.from \in Block /\ r.stop \in BlockOrNone
  BY Zenon DEF Requests
<1>3. s.sp[p] \in PeerState
  BY PeerOf, Zenon
<1>4. CASE r.kind = "headers"
  <2>1. hs \in Seq(Block)
    <3>1. MaxHeaders \in Nat
      BY SyncAssumption, Zenon
    <3>2. r.kind # "tip"
      BY <1>4, Zenon
    <3> QED BY <1>2, <3>1, <3>2, LocateIn, Zenon
  <2> HIDE DEF hs
  <2>2. Keeps(s, HandleHeadersMsg(s, p, hs))
    BY <2>1, HandleHeadersMsgKeeps, Zenon
  <2> QED BY <1>1, <1>4, <2>2, Zenon DEF Keeps, Handled
<1>5. CASE r.kind = "blocks" /\ inv = <<>>
  BY <1>1, <1>5, QuietSelf, QuietHandled, Zenon
<1>6. CASE r.kind = "blocks" /\ inv # <<>>
  <2>1. inv \in Seq(Block)
    <3>1. MaxBlocks \in Nat
      BY SyncAssumption, Zenon
    <3>2. r.kind # "tip"
      BY <1>6, Zenon
    <3> QED BY <1>2, <3>1, <3>2, LocateIn, Zenon
  <2> HIDE DEF inv
  <2>2. Last(inv) \in BlockOrNone
    BY <1>6, <2>1, SeqFacts, Zenon DEF BlockOrNone
  <2> DEFINE v == [s.sp[p] EXCEPT !.continue = Last(inv)]
             w == [s EXCEPT !.sp = [s.sp EXCEPT ![p] = v]]
  <2>3. [s EXCEPT !.sp[p].continue = Last(inv)] = w
    BY Zenon
  <2>4. v \in PeerState /\ v.requested = s.sp[p].requested /\ v.conn = s.sp[p].conn
    BY <1>3, <2>2, Zenon DEF PeerState
  <2>5. Quiet(s, w)
    <3> HIDE DEF v
    <3> QED BY <2>4, SetQuiet, Zenon
  <2> HIDE DEF w
  <2>6. Quiet(s, u)
    BY <2>3, <2>5, QuietSelf, Zenon
  <2> HIDE DEF u
  <2>7. Handled(s, u, p)
    BY <2>6, QuietHandled, Zenon
  <2>8. ASSUME x \in HandleInvMsg(u, p, inv) PROVE Handled(u, x, p)
    BY <1>6, <2>1, <2>7, <2>8, HandleInvMsgHandled, Zenon DEF Handled
  <2> QED BY <1>1, <1>6, <2>7, <2>8, HandledAgain, Zenon
<1>7. CASE r.kind = "tip"
  BY <1>1, <1>7, TipIn, HandleInvMsgHandled, Zenon
<1>8. CASE r.kind = "data"
  <2>0. r.from \in Block
    <3>1. r.kind # "tip"
      BY <1>8, Zenon
    <3> QED BY <1>2, <3>1, Zenon
  <2> DEFINE X == <<tip>> \o s.sp[p].asked
             v == [s.sp[p] EXCEPT !.continue = None, !.asked = X]
             w == [s EXCEPT !.sp = [s.sp EXCEPT ![p] = v]]
  <2>1. X \in Seq(Requests) /\ None \in BlockOrNone
    <3>1. tip \in Requests /\ s.sp[p].asked \in Seq(Requests)
      BY <1>3, Zenon DEF Requests, PeerState
    <3> HIDE DEF tip
    <3> QED BY <3>1 DEF BlockOrNone
  <2>2. [s EXCEPT !.sp[p].continue = None, !.sp[p].asked = <<tip>> \o @] = w
    BY Zenon
  <2> HIDE DEF X
  <2>3. v \in PeerState /\ v.requested = s.sp[p].requested /\ v.conn = s.sp[p].conn
    BY <1>3, <2>1, Zenon DEF PeerState
  <2>4. Quiet(s, w)
    <3> HIDE DEF v
    <3> QED BY <2>3, SetQuiet, Zenon
  <2> HIDE DEF w
  <2>5. Quiet(s, t)
    BY <2>2, <2>4, QuietSelf, Zenon
  <2> HIDE DEF t
  <2>6. Keeps(s, t)
    BY <2>5, QuietKeeps, Zenon
  <2>7. ASSUME x \in HandleBlockMsg(t, p, r.from) PROVE Keeps(t, x)
    BY <2>0, <2>6, <2>7, HandleBlockMsgKeeps, Zenon DEF Keeps
  <2> QED BY <1>1, <1>8, <2>6, <2>7, Zenon DEF Keeps, Handled
<1> QED BY <1>2, <1>4, <1>5, <1>6, <1>7, <1>8, Zenon

-----------------------------------------------------------------------------
(* The steps *)

\* What blockHandler may rely on between two messages.
IInv == Sound(State) /\ ("late" \notin strays => Forgotten(State))

\* The state after a handler.
LEMMA BecomesState ==
    ASSUME NEW t \in States, Becomes(t)
    PROVE  State' = t
BY Zenon DEF Becomes, State, States

\* A step that handles a message of p after a quiet change.
LEMMA HandledStep ==
    ASSUME IInv, NEW p \in Peers, NEW s0, Quiet(State, s0), NEW t, Handled(s0, t, p), Becomes(t),
           "late" \notin strays' => "late" \notin strays /\ p \in There(State)
    PROVE  IInv'
<1>1. Handled(State, s0, p)
  BY QuietHandled, Zenon DEF IInv
<1>2. Handled(State, t, p)
  BY <1>1, HandledAgain, Zenon
<1>3. t \in States
  BY <1>2, Zenon DEF Handled, Sound
<1>4. State' = t
  BY <1>3, BecomesState, Zenon
<1>5. Sound(State')
  BY <1>2, <1>4, Zenon DEF Handled
<1>6. "late" \notin strays' => Forgotten(State')
  BY <1>2, <1>4, Zenon DEF Handled, IInv
<1> QED BY <1>5, <1>6, Zenon DEF IInv

\* A step that changes no more than a quiet one.
LEMMA QuietStep ==
    ASSUME IInv, Quiet(State, State'), "late" \notin strays' => "late" \notin strays
    PROVE  IInv'
<1>1. Keeps(State, State')
  BY QuietKeeps, Zenon DEF IInv
<1> QED BY <1>1, Zenon DEF IInv, Keeps

\* Fields of State.
LEMMA StateFields ==
    ASSUME Sound(State)
    PROVE  /\ State.sp = sp /\ State.bm = bm /\ State.chain = chain
           /\ State \in States /\ \A p \in Peers : sp[p] \in PeerState
<1>1. State.sp = sp /\ State.bm = bm /\ State.chain = chain
  BY Zenon DEF State
<1>2. State \in States
  BY Zenon DEF Sound
<1> QED BY <1>1, <1>2, PeerOf, Zenon

\* The invariant holds before the first peer connects.
LEMMA InitInvariant == Init => IInv
<1> SUFFICES ASSUME Init PROVE IInv
  BY Zenon
<1> USE DEF Init
<1>1. bm \in ManagerState
  <2>1. (IF Checkpoints = <<>> THEN <<>> ELSE <<Genesis>>) \in Seq(Block)
    BY Tree
  <2>2. FindNextHeaderCheckpoint(0) \in 0..Len(Checkpoints)
    BY CheckpointIn, Zenon
  <2>3. [b \in Block |-> 0] \in [Block -> Nat] /\ <<>> \in Seq(Peers) /\ {} \in SUBSET (Block \X Peers)
    OBVIOUS
  <2> QED BY <2>1, <2>2, <2>3, Zenon DEF ManagerState, BlockOrNone
<1>2. \A p \in Peers : sp[p] \in PeerState
  <2>1. NewPeer \in PeerState
    BY DEF NewPeer, PeerState, BlockOrNone, Pairs
  <2> QED BY <2>1, Zenon
<1>3. ChainOK(chain)
  BY Tree, Zenon DEF ChainOK, ChainState
<1>4. State \in States /\ State.bm = bm /\ State.chain = chain /\ State.sp = sp
  <2>1. sp \in [Peers -> PeerState]
    BY <1>2, Zenon
  <2>2. chain \in ChainState
    BY <1>3, Zenon DEF ChainOK
  <2> QED BY <1>1, <2>1, <2>2, Zenon DEF States, State
<1>5. bm.requested = {} /\ bm.headersFirst = FALSE /\ bm.candidates = <<>> /\ bm.syncPeer = None
  BY Zenon
<1>6. Sound(State)
  BY <1>3, <1>4, <1>5, Zenon DEF Sound, Counted, HasPeer
<1>7. Forgotten(State)
  <2>1. <<>> \in Seq(There(State))
    OBVIOUS
  <2> QED BY <1>4, <1>5, <2>1, Zenon DEF Forgotten
<1> QED BY <1>6, <1>7, Zenon DEF IInv

\* A new connection is neither a candidate nor asked for anything yet.
LEMMA VersionStep == ASSUME IInv, NEW p \in Peers, Version(p) PROVE IInv'
<1> DEFINE v == [sp[p] EXCEPT !.conn = "up", !.newPending = TRUE, !.lastBlock = Len(RemoteChain[p])]
           t == [State EXCEPT !.sp = [State.sp EXCEPT ![p] = v]]
<1>1. Sound(State) /\ State.sp = sp /\ State.bm = bm /\ State.chain = chain /\ State \in States /\ sp[p] \in PeerState
  BY StateFields, Zenon DEF IInv
<1>2. sp[p].conn = "new" /\ bm' = bm /\ chain' = chain /\ strays' = strays /\ sp' = [sp EXCEPT ![p] = v]
  BY <1>1, Zenon DEF Version, PeerState
<1>3. Len(RemoteChain[p]) \in Nat
  BY SyncAssumption
<1>4. v \in PeerState /\ v.requested = sp[p].requested /\ v.conn = "up"
  BY <1>1, <1>3, Zenon DEF PeerState
<1>5. v.conn # "gone" /\ sp[p].conn # "gone"
  <2> HIDE DEF v
  <2> QED BY <1>2, <1>4, Zenon
<1> HIDE DEF v
<1>6. Quiet(State, t)
  BY <1>1, <1>4, <1>5, SetQuiet, Zenon
<1>7. State' = t
  BY <1>1, <1>2 DEF State
<1> QED BY <1>2, <1>6, <1>7, QuietStep, Zenon

\* Losing a connection leaves the manager as it is until it hears of it.
LEMMA LoseStep == ASSUME IInv, NEW p \in Peers, Lose(p) PROVE IInv'
<1> DEFINE w == sp[p].asked # <<>>
           v == [sp[p] EXCEPT !.conn = "lost", !.last = w]
           t == [State EXCEPT !.sp = [State.sp EXCEPT ![p] = v]]
<1>1. Sound(State) /\ State.sp = sp /\ State.bm = bm /\ State.chain = chain /\ State \in States /\ sp[p] \in PeerState
  BY StateFields, Zenon DEF IInv
<1>2. sp[p].conn = "up" /\ bm' = bm /\ chain' = chain /\ strays' = strays /\ sp' = [sp EXCEPT ![p] = v]
  BY <1>1, Zenon DEF Lose, PeerState
<1>3. w \in BOOLEAN
  BY Zenon
<1> HIDE DEF w
<1>4. v \in PeerState /\ v.requested = sp[p].requested /\ v.conn = "lost"
  BY <1>1, <1>3, Zenon DEF PeerState
<1>5. v.conn # "gone" /\ sp[p].conn # "gone"
  <2> HIDE DEF v
  <2> QED BY <1>2, <1>4, Zenon
<1> HIDE DEF v
<1>6. Quiet(State, t)
  BY <1>1, <1>4, <1>5, SetQuiet, Zenon
<1>7. State' = t
  BY <1>1, <1>2 DEF State
<1> QED BY <1>2, <1>6, <1>7, QuietStep, Zenon

\* The manager takes the news of a peer off its queue.
LEMMA NewPeerMsgStep == ASSUME IInv, NEW p \in Peers, NewPeerMsg(p) PROVE IInv'
<1> DEFINE v == [sp[p] EXCEPT !.newPending = FALSE]
           t == [State EXCEPT !.sp = [State.sp EXCEPT ![p] = v]]
<1>1. Sound(State) /\ State.sp = sp /\ State \in States /\ sp[p] \in PeerState
  BY StateFields, Zenon DEF IInv
<1>2. v \in PeerState /\ v.requested = sp[p].requested /\ v.conn = sp[p].conn
  BY <1>1, Zenon DEF PeerState
<1>3. [State EXCEPT !.sp[p].newPending = FALSE] = t
  BY <1>1, Zenon
<1> HIDE DEF v
<1>4. Quiet(State, t)
  BY <1>1, <1>2, SetQuiet, Zenon
<1> HIDE DEF t
<1>5. Becomes(HandleNewPeerMsg(t, p)) /\ strays' = strays \cup (IF Gone(p) THEN {"late"} ELSE {})
  BY <1>3, Zenon DEF NewPeerMsg
<1>6. Sound(t)
  BY <1>1, <1>4, QuietKeeps, Zenon DEF Keeps
<1>7. Handled(t, HandleNewPeerMsg(t, p), p)
  BY <1>6, HandleNewPeerMsgHandled, Zenon
<1>8. "late" \notin strays' => "late" \notin strays /\ p \in There(State)
  BY <1>1, <1>5, Zenon DEF Gone, There
<1> QED BY <1>4, <1>5, <1>7, <1>8, HandledStep, Zenon

\* A peer answers what it was asked first.
LEMMA PeerMsgStep == ASSUME IInv, NEW p \in Peers, PeerMsg(p) PROVE IInv'
<1> DEFINE a == IF sp[p].conn = "up" THEN Tail(sp[p].asked) ELSE <<>>
           v == [sp[p] EXCEPT !.asked = a, !.last = FALSE]
           t == [State EXCEPT !.sp = [State.sp EXCEPT ![p] = v]]
           r == Head(sp[p].asked)
<1>1. Sound(State) /\ State.sp = sp /\ State \in States /\ sp[p] \in PeerState
  BY StateFields, Zenon DEF IInv
<1>2. sp[p].asked # <<>> /\ sp[p].asked \in Seq(Requests)
  BY <1>1, Zenon DEF PeerMsg, Answering, PeerState
<1>3. r \in Requests /\ a \in Seq(Requests)
  <2>1. <<>> \in Seq(Requests)
    OBVIOUS
  <2> QED BY <1>2, <2>1, SeqFacts, Zenon
<1>4. [State EXCEPT !.sp[p].asked = IF sp[p].conn = "up" THEN Tail(@) ELSE <<>>, !.sp[p].last = FALSE] = t
  BY <1>1, Zenon
<1> HIDE DEF a, r
<1>5. v \in PeerState /\ v.requested = sp[p].requested /\ v.conn = sp[p].conn
  BY <1>1, <1>3, Zenon DEF PeerState
<1> HIDE DEF v
<1>6. Quiet(State, t)
  BY <1>1, <1>5, SetQuiet, Zenon
<1> HIDE DEF t
<1>7. (\E x \in Answered(t, p, r) : Becomes(x)) /\ strays' = strays \cup (IF Gone(p) THEN {"late"} ELSE {})
  BY <1>4, Zenon DEF PeerMsg, r
<1>8. Sound(t)
  BY <1>1, <1>6, QuietKeeps, Zenon DEF Keeps
<1>9. PICK x \in Answered(t, p, r) : Becomes(x)
  BY <1>7, Zenon
<1>9a. Handled(t, x, p)
  BY <1>3, <1>8, AnsweredHandled, Zenon
<1>10. "late" \notin strays' => "late" \notin strays /\ p \in There(State)
  BY <1>1, <1>7, Zenon DEF Gone, There
<1> QED BY <1>6, <1>9, <1>9a, <1>10, HandledStep, Zenon

\* The messages that a connected peer sends of itself.
LEMMA ConnectedSteps ==
    ASSUME IInv, NEW p \in Peers, NEW b \in Block, Announce(p) \/ Unsolicited(p, b) \/ MiningState(p, b)
    PROVE  IInv'
<1>1. Sound(State) /\ State.sp = sp /\ Quiet(State, State)
  BY StateFields, QuietSelf, Zenon DEF IInv
<1>2. p \in There(State)
  <2>1. sp[p].conn = "up"
    BY Zenon DEF Announce, Unsolicited, MiningState
  <2>2. sp[p].conn # "gone"
    BY <2>1, Zenon
  <2> QED BY <1>1, <2>2, Zenon DEF There
<1>3. CASE Announce(p)
  <2>1. PICK x \in HandleInvMsg(State, p, <<Tip(p)>>) : Becomes(x) /\ strays' = strays
    BY <1>3, Zenon DEF Announce
  <2>2. Handled(State, x, p)
    BY <1>1, TipIn, HandleInvMsgHandled, Zenon
  <2> QED BY <1>1, <1>2, <2>1, <2>2, HandledStep, Zenon
<1>4. CASE Unsolicited(p, b)
  <2>1. PICK x \in HandleBlockMsg(State, p, b) : Becomes(x) /\ strays \subseteq strays'
    BY <1>4, Zenon DEF Unsolicited
  <2>2. Handled(State, x, p)
    BY <1>1, HandleBlockMsgKeeps, Zenon DEF Keeps, Handled
  <2> QED BY <1>1, <1>2, <2>1, <2>2, HandledStep, Zenon
<1>5. CASE MiningState(p, b)
  <2>1. Becomes(RequestFromPeer(State, p, b)) /\ strays \subseteq strays'
    BY <1>5, Zenon DEF MiningState
  <2>2. Handled(State, RequestFromPeer(State, p, b), p)
    BY <1>1, RequestFromPeerHandled, Zenon
  <2> QED BY <1>1, <1>2, <2>1, <2>2, HandledStep, Zenon
<1> QED BY <1>3, <1>4, <1>5, Zenon

\* A block of the RPC server or the miner changes the chain only.
LEMMA SubmitBlockStep == ASSUME IInv, NEW b \in Block, SubmitBlock(b) PROVE IInv'
<1>1. Sound(State) /\ State.sp = sp /\ State.bm = bm /\ State.chain = chain /\ State \in States
  BY StateFields, Zenon DEF IInv
<1>2. bm' = bm /\ sp' = sp /\ strays \subseteq strays'
  BY Zenon DEF SubmitBlock
<1>2a. PICK r \in ProcessBlock(chain, b) : chain' = r.chain
  BY Zenon DEF SubmitBlock
<1>3. ChainOK(chain')
  BY <1>1, <1>2a, ProcessBlockOK, ChainOf, Zenon
<1>4. chain' \in ChainState
  BY <1>3, Zenon DEF ChainOK
<1>5. State' = [bm |-> bm, sp |-> sp, chain |-> chain']
  BY <1>2, Zenon DEF State
<1>6. State' \in States /\ State'.bm = State.bm /\ State'.sp = State.sp /\ State'.chain = chain'
  BY <1>1, <1>4, <1>5, Zenon DEF States, State
<1>7. Quiet(State, State')
  BY <1>3, <1>6, Zenon DEF Quiet
<1> QED BY <1>2, <1>7, QuietStep, Zenon

\* peerHandler changes the heights that other peers are known to have.
LEMMA UpdatePeerHeightsStep ==
    ASSUME IInv, NEW p \in Peers, NEW b \in Block, UpdatePeerHeights(b, p) PROVE IInv'
<1>1. Sound(State) /\ State.sp = sp /\ State.bm = bm /\ State.chain = chain /\ State \in States
  BY StateFields, Zenon DEF IInv
<1>2. PICK told \in SUBSET Peers :
          sp' = [q \in Peers |-> IF q \in told
                                 THEN [sp[q] EXCEPT !.lastBlock = Height[b], !.announced = None]
                                 ELSE sp[q]]
  BY Zenon DEF UpdatePeerHeights
<1>3. bm' = [bm EXCEPT !.heights = @ \ {<<b, p>>}] /\ chain' = chain /\ strays' = strays
  BY Zenon DEF UpdatePeerHeights
<1>4. ASSUME NEW q \in Peers
      PROVE  sp'[q] \in PeerState /\ sp'[q].requested = sp[q].requested /\ sp'[q].conn = sp[q].conn
  <2> DEFINE v == [sp[q] EXCEPT !.lastBlock = Height[b], !.announced = None]
  <2>1. sp[q] \in PeerState /\ None \in BlockOrNone /\ Height[b] \in Nat
    BY <1>1, StateFields, Tree, Zenon DEF BlockOrNone
  <2>2. v \in PeerState /\ v.requested = sp[q].requested /\ v.conn = sp[q].conn
    BY <2>1, Zenon DEF PeerState
  <2>3. sp'[q] = v \/ sp'[q] = sp[q]
    BY <1>2, Zenon
  <2> HIDE DEF v
  <2> QED BY <2>1, <2>2, <2>3, Zenon
<1>5. sp' \in [Peers -> PeerState]
  <2> DEFINE f == [q \in Peers |-> IF q \in told
                                   THEN [sp[q] EXCEPT !.lastBlock = Height[b], !.announced = None]
                                   ELSE sp[q]]
  <2>1. sp' = f /\ f = [q \in Peers |-> f[q]]
    BY <1>2, Zenon
  <2> HIDE DEF f
  <2> QED BY <1>4, <2>1, Zenon
<1> DEFINE h == bm.heights \ {<<b, p>>}
           t == [State EXCEPT !.bm = [State.bm EXCEPT !.heights = h]]
<1>6. bm' = [State.bm EXCEPT !.heights = h]
  BY <1>1, <1>3, Zenon
<1>7. h \in SUBSET (Block \X Peers)
  BY <1>1, ManagerOf, Zenon
<1> HIDE DEF h
<1>8. Quiet(State, t)
  BY <1>1, <1>7, SetHeightsQuiet, Zenon
<1>9. t.bm = bm' /\ t.sp = sp /\ t.chain = chain
  BY <1>1, <1>6, Zenon DEF States
<1> HIDE DEF t
<1>10. State'.bm = t.bm /\ State'.sp = sp' /\ State'.chain = t.chain
  BY <1>3, <1>9, Zenon DEF State
<1>11. State' \in States
  <2>1. t.bm \in ManagerState /\ t.chain \in ChainState
    BY <1>8, Zenon DEF Quiet, States
  <2> QED BY <1>3, <1>5, <1>9, <2>1, Zenon DEF State, States
<1>12. \A q \in Peers : /\ State'.sp[q].requested = State.sp[q].requested
                        /\ State'.sp[q].conn = "gone" <=> State.sp[q].conn = "gone"
  BY <1>1, <1>4, <1>10, Zenon
<1>13. Quiet(State, State')
  <2>1. State'.bm = t.bm /\ State'.chain = t.chain
    BY <1>10, Zenon
  <2> QED BY <1>8, <1>11, <1>12, <2>1, Zenon DEF Quiet
<1> QED BY <1>3, <1>13, QuietStep, Zenon

\* The manager takes the loss of a peer off its queue and forgets it.
LEMMA DonePeerMsgStep == ASSUME IInv, NEW p \in Peers, DonePeerMsg(p) PROVE IInv'
<1> DEFINE v == [sp[p] EXCEPT !.conn = "gone"]
           t == [State EXCEPT !.sp = [State.sp EXCEPT ![p] = v]]
           u == HandleDonePeerMsg(t, p)
<1>1. Sound(State) /\ State.sp = sp /\ State \in States /\ sp[p] \in PeerState
  BY StateFields, Zenon DEF IInv
<1>2. v \in PeerState /\ v.requested = sp[p].requested
  <2>1. "gone" \in {"new", "up", "lost", "gone"}
    BY Zenon
  <2> QED BY <1>1, <2>1, Zenon DEF PeerState
<1>3. [State EXCEPT !.sp[p].conn = "gone"] = t
  BY <1>1, Zenon
<1> HIDE DEF v
<1>4. /\ t \in States /\ t.bm = State.bm /\ t.chain = State.chain
      /\ t.sp[p] = v /\ \A q \in Peers \ {p} : t.sp[q] = State.sp[q]
  BY <1>1, <1>2, Zenon DEF States
<1> HIDE DEF t
<1>5. Sound(t)
  BY <1>1, <1>4, Zenon DEF Sound, Counted, HasPeer
<1>6. /\ There(State) \subseteq There(t) \cup {p}
      /\ \A q \in Peers : t.sp[q].requested = State.sp[q].requested
  BY <1>1, <1>2, <1>4, Zenon DEF There
<1>7. Forgotten(State) => ForgottenBut(t, p)
  <2> SUFFICES ASSUME Forgotten(State) PROVE ForgottenBut(t, p)
    BY Zenon
  <2>1. t.bm.candidates \in Seq(There(t) \cup {p})
    BY <1>4, <1>6, SubsetSeq, Zenon DEF Forgotten
  <2>2. t.bm.syncPeer \in There(t) \cup {p, None}
    BY <1>4, <1>6, Zenon DEF Forgotten
  <2>3. ASSUME NEW b \in t.bm.requested PROVE \E q \in There(t) \cup {p} : b \in t.sp[q].requested
    <3>1. PICK q \in There(State) : b \in State.sp[q].requested
      BY <1>4, <2>3, Zenon DEF Forgotten
    <3>2. q \in Peers
      BY <3>1, Zenon DEF There
    <3> QED BY <1>6, <3>1, <3>2, Zenon
  <2> QED BY <2>1, <2>2, <2>3, Zenon DEF ForgottenBut
<1>8. Sound(u) /\ (ForgottenBut(t, p) => Forgotten(u))
  BY <1>5, HandleDonePeerMsgForgets, Zenon
<1>9. Becomes(u) /\ strays' = strays
  BY <1>3, Zenon DEF DonePeerMsg
<1> HIDE DEF u
<1>10. u \in States
  BY <1>8, Zenon DEF Sound
<1>11. State' = u
  BY <1>9, <1>10, BecomesState, Zenon
<1>12. Sound(State')
  BY <1>8, <1>11, Zenon
<1>13. "late" \notin strays' => Forgotten(State')
  BY <1>7, <1>8, <1>9, <1>11, Zenon DEF IInv
<1> QED BY <1>12, <1>13, Zenon DEF IInv

\* A step that changes none of the variables of the block manager.
LEMMA StutterStep == ASSUME IInv, UNCHANGED vars PROVE IInv'
<1>1. State' = State /\ strays' = strays
  BY Zenon DEF vars, State
<1> QED BY <1>1, Zenon DEF IInv

\* The invariant is inductive.
LEMMA NextInvariant == IInv /\ [Next]_vars => IInv'
<1> SUFFICES ASSUME IInv, [Next]_vars PROVE IInv'
  BY Zenon
<1>1. CASE UNCHANGED vars
  BY <1>1, StutterStep, Zenon
<1>2. ASSUME NEW b \in Block \ {Genesis}, SubmitBlock(b) PROVE IInv'
  BY <1>2, SubmitBlockStep, Zenon
<1>3. ASSUME NEW p \in Peers, NEW b \in Block,
             Unsolicited(p, b) \/ MiningState(p, b) \/ UpdatePeerHeights(b, p)
      PROVE  IInv'
  BY <1>3, ConnectedSteps, UpdatePeerHeightsStep, Zenon
<1>4. ASSUME NEW p \in Peers, Announce(p) PROVE IInv'
  BY <1>4, Tree, ConnectedSteps, Zenon
<1>5. ASSUME NEW p \in Peers, Version(p) \/ NewPeerMsg(p) \/ PeerMsg(p) \/ Lose(p) \/ DonePeerMsg(p)
      PROVE  IInv'
  BY <1>5, VersionStep, NewPeerMsgStep, PeerMsgStep, LoseStep, DonePeerMsgStep, Zenon
<1> QED BY <1>1, <1>2, <1>3, <1>4, <1>5, Zenon DEF Next

\* The inductive invariant: the chain and the records of the manager and of its
\* peers are well formed, a block asked for was asked for at least once, there is a
\* sync peer and a checkpoint ahead in headers-first mode, and while no message of
\* a lost peer is handled late, every block noted as requested is noted with a peer
\* that is still there.
THEOREM SyncInvariant == Spec => []IInv
<1>1. Init => IInv
  BY InitInvariant, Zenon
<1>2. IInv /\ [Next]_vars => IInv'
  BY NextInvariant, Zenon
<1> QED BY <1>1, <1>2, PTL DEF Spec

\* The block manager is in headers-first mode only with a sync peer to fetch from and
\* a checkpoint to fetch up to, through every order of connections, losses, answers
\* and submitted blocks, for any number of peers and any block tree.
THEOREM PeerBehindHeaders == Spec => []HeadersFirstHasPeer
<1>1. IInv => HeadersFirstHasPeer
  <2> SUFFICES ASSUME IInv PROVE HeadersFirstHasPeer
    BY Zenon
  <2>1. Sound(State) /\ State.bm = bm
    BY StateFields, Zenon DEF IInv
  <2> QED BY <2>1, Zenon DEF Sound, HasPeer, HeadersFirstHasPeer
<1> QED BY <1>1, SyncInvariant, PTL

\* handleDonePeerMsg forgets a lost peer entirely: no block stays marked as requested
\* from nobody, and the sync peer and the candidates are peers that are there. This is
\* so unless a message of the lost peer was still queued behind its loss.
THEOREM NothingLeftBehind == Spec => []LostPeersForgotten
<1>1. IInv => LostPeersForgotten
  <2> SUFFICES ASSUME IInv PROVE LostPeersForgotten
    BY Zenon
  <2>1. State.bm = bm /\ State.sp = sp /\ Sound(State)
    BY StateFields, Zenon DEF IInv
  <2>2. There(State) = {p \in Peers : ~Gone(p)}
    BY <2>1, Zenon DEF There, Gone
  <2>3. RequestedFromSomeone
    BY <2>1, <2>2, Zenon DEF IInv, Forgotten, RequestedFromSomeone
  <2>4. CandidatesPresent
    <3> SUFFICES ASSUME "late" \notin strays, NEW p \in Range(bm.candidates) \cup ({bm.syncPeer} \ {None})
                 PROVE  ~Gone(p)
      BY Zenon DEF CandidatesPresent
    <3>1. bm.candidates \in Seq(There(State)) /\ bm.syncPeer \in There(State) \cup {None}
      BY <2>1, Zenon DEF IInv, Forgotten
    <3>2. Range(bm.candidates) \subseteq There(State)
      BY <3>1 DEF Range
    <3> QED BY <2>2, <3>1, <3>2, Zenon
  <2> QED BY <2>3, <2>4, Zenon DEF LostPeersForgotten
<1> QED BY <1>1, SyncInvariant, PTL

\* The type invariant of the block manager and the chain it feeds.
THEOREM SyncTypes == Spec => []TypeOK
<1>1. IInv => TypeOK
  <2> SUFFICES ASSUME IInv PROVE TypeOK
    BY Zenon
  <2>1. /\ State.bm = bm /\ State.sp = sp /\ State.chain = chain /\ Sound(State)
        /\ \A p \in Peers : sp[p] \in PeerState
    BY StateFields, Zenon DEF IInv
  <2>2. /\ chain.have \subseteq Block /\ chain.orphans \subseteq Block \ chain.have
        /\ chain.best \in chain.have
    <3>1. ChainOK(chain)
      BY <2>1, Zenon DEF Sound
    <3> QED BY <3>1, Zenon DEF ChainOK, ChainState
  <2>3. /\ bm.syncPeer \in Peers \cup {None} /\ bm.candidates \in Seq(Peers)
        /\ bm.headerList \in Seq(Block) /\ bm.startHeader \in Block \cup {None}
        /\ bm.nextCheckpoint \in 0..Len(Checkpoints)
    BY <2>1, ManagerOf, Zenon DEF BlockOrNone
  <2>4. \A b \in bm.requested : bm.ever[b] > 0
    BY <2>1, Zenon DEF Sound, Counted
  <2>5. \A p \in Peers : sp[p].requested \subseteq Block
    BY <2>1, Zenon DEF PeerState
  <2> QED BY <2>2, <2>3, <2>4, <2>5, Zenon DEF TypeOK
<1> QED BY <1>1, SyncInvariant, PTL

=============================================================================
