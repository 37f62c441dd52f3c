---------------------------- MODULE FinalizedLog ----------------------------
(***************************************************************************)
(* What zsequencer promises to the applications of one app, and all they   *)
(* may rely on: there is one log of batches, it only grows, and each node  *)
(* has finalized a prefix of it that never shrinks.  Nothing is said about *)
(* sequencers, locks, disputes or messages.                                *)
(***************************************************************************)
EXTENDS Naturals, Sequences

CONSTANTS
    Node,   \* nodes that serve finalized batches
    Batch   \* batch bodies

VARIABLES
    chain,  \* the batches that some node has finalized
    upto    \* upto[n]: how many of them node n has finalized

vars == <<chain, upto>>

Init ==
    /\ chain = << >>
    /\ upto = [n \in Node |-> 0]

(* Node n finalizes up to index k: batches that others have finalized, or  *)
(* new ones, which then extend the log.                                    *)
Finalize(n, k) ==
    /\ k > upto[n]
    /\ upto' = [upto EXCEPT ![n] = k]
    /\ IF k <= Len(chain)
       THEN chain' = chain
       ELSE /\ chain' \in Seq(Batch)
            /\ Len(chain') = k
            /\ SubSeq(chain', 1, Len(chain)) = chain

Next == \E n \in Node : \E k \in {upto'[n]} : Finalize(n, k)

Spec == Init /\ [][Next]_vars
=============================================================================
