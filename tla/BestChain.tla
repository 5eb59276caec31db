------------------------------- MODULE BestChain -------------------------------
(***************************************************************************)
(* What the block chain core promises to everyone who asks it for the best  *)
(* chain: blocks become known parent first, and the best chain changes in   *)
(* one step, either to a chain with strictly more work, all of whose blocks *)
(* were vetted, or on request to a sibling of the tip.  Only a restart may  *)
(* forget blocks and fall back.                                             *)
(***************************************************************************)
EXTENDS Integers

CONSTANTS Block, Genesis, Parent, Anc, WorkSum, Bad, FastAddable

VARIABLES
    known,      \* the blocks of the block index
    best,       \* the tip of the best chain
    restarts    \* how often the process was restarted

vars == <<known, best, restarts>>

(* Every block of the branch either breaks no rule or descends from a block *)
(* linked to a checkpoint.                                                  *)
Vetted(b) == \A a \in Anc[b] \cap Bad : Anc[a] \cap FastAddable # {}

Init ==
    /\ known = {Genesis}
    /\ best = Genesis
    /\ restarts = 0

Learn(b) ==
    /\ b \notin known
    /\ Parent[b] \in known
    /\ known' = known \cup {b}
    /\ UNCHANGED <<best, restarts>>

Advance(b) ==
    /\ b \in known
    /\ WorkSum[b] > WorkSum[best]
    /\ Vetted(b)
    /\ best' = b
    /\ UNCHANGED <<known, restarts>>

SwitchSibling(b) ==
    /\ b \in known \ {best, Genesis}
    /\ Parent[b] = Parent[best]
    /\ Vetted(b)
    /\ best' = b
    /\ UNCHANGED <<known, restarts>>

Recover ==
    /\ known' \in SUBSET known
    /\ \A b \in known' : Anc[b] \subseteq known'
    /\ best' \in known'
    /\ Vetted(best')
    /\ restarts' = restarts + 1

Next ==
    \/ \E b \in Block : Learn(b) \/ Advance(b) \/ SwitchSibling(b)
    \/ Recover

Spec == Init /\ [][Next]_vars
=============================================================================
