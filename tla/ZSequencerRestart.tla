-------------------------- MODULE ZSequencerRestart --------------------------
(***************************************************************************)
(* ZSequencer with nodes that are stopped and started again.  All that a   *)
(* node finds on its disk are snapshot chunks, which hold finalized        *)
(* batches only; its locks, the reports of the other nodes and             *)
(* first_finalized_index are gone.                                         *)
(***************************************************************************)
EXTENDS ZSequencer

CONSTANTS
    Restarting,     \* nodes that may be restarted
    MaxRestarts     \* bound: restarts

VARIABLES
    forgot,     \* the nodes with finalized batches and first_finalized_index None
    restarts    \* restarts so far

restartVars == <<vars, forgot, restarts>>

InitRestart ==
    /\ Init
    /\ forgot = {}
    /\ restarts = 0

(* The finalized signatures that a chunk on n's disk can end with: chunks  *)
(* are written when enough was finalized, or when the node is shut down.   *)
Stored(n) == {SubSeq(certs[n], 1, k) : k \in 0..Len(certs[n])}

(* load_latest_chunks: the batches up to the last stored signature, which  *)
(* are also the locked ones.                                               *)
Kept(n, cs) ==
    [log    |-> Prefix(log[n], LastIndex(cs)),
     locked |-> LastIndex(cs),
     sig    |-> IF Len(lockSig[n].chain) = LastIndex(cs) THEN lockSig[n] ELSE NoSig]

(* init_sequencer: the sequencer that a quorum with n reports and that     *)
(* reports itself; the configured one if there is none or too few answer.  *)
Found(n) ==
    {InitSequencer} \cup
    {c \in Range(Ring) \ {n} :
        /\ sequencer[c] = c
        /\ {m \in Node \ {n} : sequencer[m] = c} \cup {n} \in Quorum}

(* n stops, whatever it is doing, and starts again. *)
Restart(n) ==
    /\ restarts < MaxRestarts
    /\ restarts' = restarts + 1
    /\ \E cs \in Stored(n) :
         LET kept == Kept(n, cs)
         IN  /\ log' = [log EXCEPT ![n] = kept.log]
             /\ locked' = [locked EXCEPT ![n] = kept.locked]
             /\ lockSig' = [lockSig EXCEPT ![n] = kept.sig]
             /\ certs' = [certs EXCEPT ![n] = cs]
             /\ forgot' = IF cs = << >> THEN forgot \ {n} ELSE forgot \cup {n}
    /\ \E c \in Found(n) : sequencer' = [sequencer EXCEPT ![n] = c]
    /\ phase' = [phase EXCEPT ![n] = "run"]
    /\ reply' = [reply EXCEPT ![n] = NoReply]
    /\ task' = [task EXCEPT ![n] = Idle]
    /\ ForgetNodesState(n)
    /\ inbox' = [inbox EXCEPT ![n] = {}]
    /\ UNCHANGED disputed

(* A node that has finalized nothing gets no finalized signature from a    *)
(* sequencer that forgot where they begin.                                 *)
PutForgotten(n, bodies) ==
    /\ sequencer[n] \in forgot
    /\ PutAnswered(n, bodies, FinalizedAfterKnown(certs[sequencer[n]], Finalized(n)))

(* n gets the answer to a PUT. *)
Answered(n) == reply[n] = NoReply /\ reply'[n] # NoReply

(* What the nodes do between restarts. *)
Works ==
    \/ Next /\ \A n \in Node : Answered(n) => sequencer[n] \notin forgot
    \/ \E n \in Node : \E bodies \in Bodies : PutForgotten(n, bodies)

NextRestart ==
    \/ Works /\ UNCHANGED <<forgot, restarts>>
    \/ \E n \in Restarting : Restart(n)

SpecRestart == InitRestart /\ [][NextRestart]_restartVars

=============================================================================
