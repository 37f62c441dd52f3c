----------------------------- MODULE SwitchProofs -----------------------------
(***************************************************************************)
(* A switch is always to another sequencer, and the switch at the end of a *)
(* dispute leaves the sequencer that was disputed, for every network and   *)
(* all times that keep the order in which settings.py has them.            *)
(***************************************************************************)
EXTENDS Switch, SequenceLemmas

Stages ==
    {Idle} \cup [at : {"poll"}, to : Node] \cup [at : {"reset"}, found : SUBSET Node]
    \cup [at : {"dispute"}]
    \cup [at : {"gather"}, old : Node, signers : SUBSET Node, age : Nat]

TypeOK ==
    /\ sequencer \in [Node -> Node]
    /\ stage \in [Node -> Stages]
    /\ switching \in [Node -> {"no", "sync", "sleep"}]
    /\ waiting \in [Node -> Seq(Node)]
    /\ left \in [Node -> [loop : Nat, switch : Nat]]
    /\ heard \in [Node -> [Node -> Nat]]
    /\ received \in [Node -> BOOLEAN]
    /\ requests \subseteq [to : Node, old : Node, age : Int, left : Int]

(* At most one call waits for a switch to end, that of the node's own      *)
(* dispute, and it is to another sequencer than the switch before it.      *)
Waits(n) ==
    waiting[n] # << >> =>
        /\ Paused(n) /\ stage[n] = Idle
        /\ Len(waiting[n]) = 1 /\ waiting[n][1] # sequencer[n]

(* What the other nodes have sent to s will not be missed before the       *)
(* gathering of s is over.                                                 *)
InTouch(s) ==
    /\ received[s] => ~ NotReceiving(s)
    /\ \A m \in Node : heard[s][m] = 0 \/ heard[s][m] > left[s].loop

(* While n gathers confirmations against another node, a switch that it    *)
(* follows does not end, unless n itself is the successor.                 *)
Gathers(n) ==
    stage[n].at = "gather" /\ stage[n].old # n /\ n \notin raised =>
        /\ left[n].loop <= GatherTime
        /\ ~ Paused(n) /\ sequencer[n] # stage[n].old =>
             sequencer[n] = n /\ Successor(stage[n].old) = n /\ InTouch(n)
        /\ switching[n] = "sync" /\ sequencer[n] = n => Successor(stage[n].old) = n
        /\ switching[n] = "sleep" => left[n].switch > left[n].loop

(* The inductive invariant behind both properties. *)
SwitchInv == TypeOK /\ \A n \in Node : Waits(n) /\ Gathers(n)

-----------------------------------------------------------------------------
(************************** Operators of the model *************************)

LEMMA SuccessorIsNode == ASSUME NEW s \in Node PROVE Successor(s) \in Node
<1> DEFINE At == {i \in DOMAIN Ring : Ring[i] = s}
<1>1. Ring \in Seq(Node) /\ Len(Ring) \in Nat \ {0} /\ DOMAIN Ring = 1..Len(Ring)
    BY SwitchAssumption, LenProperties, EmptySeq
<1>2. \A i \in 1..Len(Ring) : Ring[i] \in Node
    BY <1>1, ElementOfSeq
<1>3. CASE At = {}
    BY <1>1, <1>2, <1>3 DEF Successor
<1>4. CASE At # {}
  <2> DEFINE i == CHOOSE j \in At : TRUE
  <2>1. i \in 1..Len(Ring)
    BY <1>1, <1>4
  <2> HIDE DEF i
  <2>2. (i % Len(Ring)) + 1 \in 1..Len(Ring)
    BY <1>1, <2>1
  <2>3. Successor(s) = Ring[(i % Len(Ring)) + 1]
    BY <1>4 DEF Successor, i
  <2> QED
    BY <1>2, <2>2, <2>3
<1> QED
    BY <1>3, <1>4

(* What a call of switch_to_sequencer does to its node.                    *)
Called(n, s) ==
    \/ /\ sequencer'[n] = sequencer[n] /\ switching'[n] = switching[n]
       /\ waiting'[n] = waiting[n] /\ s = sequencer[n]
    \/ /\ s # sequencer[n] /\ Paused(n)
       /\ waiting'[n] = Append(waiting[n], s)
       /\ sequencer'[n] = sequencer[n] /\ switching'[n] = switching[n]
    \/ /\ s # sequencer[n] /\ ~ Paused(n)
       /\ sequencer'[n] = s /\ switching'[n] = "sync" /\ waiting'[n] = waiting[n]

SwitchType ==
    /\ sequencer \in [Node -> Node]
    /\ switching \in [Node -> {"no", "sync", "sleep"}]
    /\ waiting \in [Node -> Seq(Node)]

(* The switches of the others go on as they were. *)
OthersSwitch(n) ==
    \A m \in Node \ {n} : /\ sequencer'[m] = sequencer[m]
                          /\ switching'[m] = switching[m]
                          /\ waiting'[m] = waiting[m]

LEMMA CallEffect ==
    ASSUME SwitchType, NEW n \in Node, NEW s \in Node, SwitchCall(n, s)
    PROVE  SwitchType' /\ Called(n, s) /\ OthersSwitch(n)
<1>1. CASE s = sequencer[n] /\ UNCHANGED switchVars
    BY <1>1 DEF SwitchType, Called, OthersSwitch, switchVars
<1>2. CASE /\ s # sequencer[n] /\ Paused(n)
           /\ waiting' = [waiting EXCEPT ![n] = Append(@, s)]
           /\ UNCHANGED <<sequencer, switching>>
  <2>1. Append(waiting[n], s) \in Seq(Node)
    BY AppendProperties DEF SwitchType
  <2> QED
    BY <1>2, <2>1 DEF SwitchType, Called, OthersSwitch
<1>3. CASE /\ s # sequencer[n] /\ ~ Paused(n)
           /\ Begin(n, s) /\ UNCHANGED waiting
    BY <1>3 DEF SwitchType, Called, OthersSwitch, Begin
<1> QED
    BY <1>1, <1>2, <1>3 DEF SwitchCall

(* What the end of a switch does to its node.                              *)
Released(n) ==
    \/ /\ waiting[n] = << >> /\ waiting'[n] = << >>
       /\ switching'[n] = "no" /\ sequencer'[n] = sequencer[n]
    \/ /\ waiting[n] # << >> /\ waiting'[n] = << >>
       /\ switching'[n] = "sync" /\ sequencer'[n] = waiting[n][1]

LEMMA ReleaseEffect ==
    ASSUME SwitchType, NEW n \in Node, Waits(n), Release(n)
    PROVE  SwitchType' /\ Released(n) /\ OthersSwitch(n)
<1>1. CASE waiting[n] = << >>
    BY <1>1 DEF Release, SwitchType, Released, OthersSwitch
<1>2. CASE waiting[n] # << >>
  <2>1. waiting[n] \in Seq(Node) /\ Len(waiting[n]) = 1
    BY <1>2 DEF SwitchType, Waits
  <2>2. Head(waiting[n]) = waiting[n][1] /\ waiting[n][1] \in Node
    BY <1>2, <2>1, HeadTailProperties, ElementOfSeq
  <2>3. Tail(waiting[n]) \in Seq(Node) /\ Len(Tail(waiting[n])) = 0
    BY <1>2, <2>1, HeadTailProperties
  <2>4. Tail(waiting[n]) = << >>
    BY <2>3, EmptySeq
  <2>5. /\ sequencer' = [sequencer EXCEPT ![n] = waiting[n][1]]
        /\ switching' = [switching EXCEPT ![n] = "sync"]
        /\ waiting' = [waiting EXCEPT ![n] = Tail(waiting[n])]
    BY <1>2, <2>2 DEF Release, Begin, SwitchType
  <2> QED
    BY <1>2, <2>2, <2>4, <2>5 DEF SwitchType, Released, OthersSwitch
<1> QED
    BY <1>1, <1>2

(* What the invariant says of a node depends on its own state.             *)
LEMMA Unmoved ==
    ASSUME NEW n \in Node, Waits(n), Gathers(n), raised \subseteq raised',
           stage'[n] = stage[n], waiting'[n] = waiting[n], sequencer'[n] = sequencer[n],
           switching'[n] = switching[n], left'[n] = left[n], heard'[n] = heard[n],
           received'[n] = received[n]
    PROVE  Waits(n)' /\ Gathers(n)'
    BY DEF Waits, Gathers, Paused, InTouch, NotReceiving

-----------------------------------------------------------------------------
(****************************** The loop ***********************************)

(* A step that moves the loop of k only, and to no gathering, keeps what   *)
(* the invariant says of every node, if no call of k waits.                *)
LEMMA LoopStep ==
    ASSUME SwitchInv, NEW k \in Node, stage[k] # Idle \/ ~ Paused(k),
           NEW next \in Stages, next.at # "gather", stage' = [stage EXCEPT ![k] = next],
           \A n \in Node \ {k} : left'[n] = left[n],
           left' \in [Node -> [loop : Nat, switch : Nat]],
           UNCHANGED <<heardVars, switchVars, requests, raised>>
    PROVE  SwitchInv'
<1>1. TypeOK'
    BY DEF SwitchInv, TypeOK, heardVars, switchVars
<1>2. ASSUME NEW n \in Node
      PROVE  Waits(n)' /\ Gathers(n)'
  <2>1. CASE n # k
    <3>1. stage'[n] = stage[n] /\ left'[n] = left[n]
      BY <2>1 DEF SwitchInv, TypeOK
    <3> QED
      BY <3>1, <1>2, Unmoved DEF SwitchInv, heardVars, switchVars
  <2>2. CASE n = k
    <3>1. stage'[n].at # "gather"
      BY <2>2 DEF SwitchInv, TypeOK
    <3>2. waiting'[n] = << >>
      BY <2>2 DEF SwitchInv, Waits, switchVars
    <3> QED
      BY <3>1, <3>2 DEF Waits, Gathers
  <2> QED
    BY <2>1, <2>2
<1> QED
    BY <1>1, <1>2 DEF SwitchInv

LEMMA PollStep ==
    ASSUME SwitchInv, NEW k \in Node, Poll(k) PROVE SwitchInv'
<1> DEFINE next == [at |-> "poll", to |-> sequencer[k]]
<1>1. next \in Stages /\ next.at # "gather" /\ stage' = [stage EXCEPT ![k] = next]
    BY DEF Poll, Stages, SwitchInv, TypeOK
<1>2. left' \in [Node -> [loop : Nat, switch : Nat]] /\ \A n \in Node \ {k} : left'[n] = left[n]
    BY SwitchAssumption DEF Poll, SwitchInv, TypeOK
<1>3. ~ Paused(k) /\ UNCHANGED <<heardVars, switchVars, requests, raised>>
    BY DEF Poll
<1> HIDE DEF next
<1> QED
    BY <1>1, <1>2, <1>3, LoopStep

(* The steps of the loop that leave the sequencer and what it has heard.   *)
LEMMA PollFailsStep ==
    ASSUME SwitchInv, NEW k \in Node, PollFails(k) \/ NoDispute(k) \/ GatherFails(k)
    PROVE  SwitchInv'
<1> DEFINE next == stage'[k]
<1>1. next \in Stages /\ next.at # "gather" /\ stage' = [stage EXCEPT ![k] = next]
    BY DEF PollFails, NoDispute, GatherFails, Stages, SwitchInv, TypeOK, Idle
<1>2. left' = left /\ left' \in [Node -> [loop : Nat, switch : Nat]]
    BY DEF PollFails, NoDispute, GatherFails, SwitchInv, TypeOK
<1>3. stage[k] # Idle /\ UNCHANGED <<heardVars, switchVars, requests, raised>>
    BY DEF PollFails, NoDispute, GatherFails, Idle
<1> HIDE DEF next
<1> QED
    BY <1>1, <1>2, <1>3, LoopStep

LEMMA SequencersAreNodes == \A n \in Node : NetworkSequencers(n) \subseteq Node
BY SwitchAssumption, ToSetProperties DEF NetworkSequencers

LEMMA PollRejectedStep ==
    ASSUME SwitchInv, NEW k \in Node, PollRejected(k) PROVE SwitchInv'
<1> DEFINE next == [at |-> "reset", found |-> NetworkSequencers(k)]
<1>1. next \in Stages /\ next.at # "gather" /\ stage' = [stage EXCEPT ![k] = next]
    BY SequencersAreNodes DEF PollRejected, Stages
<1>2. left' \in [Node -> [loop : Nat, switch : Nat]] /\ \A n \in Node \ {k} : left'[n] = left[n]
    BY SwitchAssumption DEF PollRejected, SwitchInv, TypeOK
<1>3. stage[k] # Idle /\ UNCHANGED <<heardVars, switchVars, requests, raised>>
    BY DEF PollRejected, Idle
<1> HIDE DEF next
<1> QED
    BY <1>1, <1>2, <1>3, LoopStep

(* A sequencer that hears from m stays in touch.                           *)
LEMMA HeardMore ==
    ASSUME TypeOK, NEW s \in Node, NEW k \in Node, InTouch(s), left[s].loop <= GatherTime,
           heard' = [heard EXCEPT ![s][k] = Inactivity],
           received' = received, left' = left
    PROVE  InTouch(s)'
<1>1. \A m \in Node : heard'[s][m] = IF m = k THEN Inactivity ELSE heard[s][m]
    BY DEF TypeOK
<1>2. Inactivity > left[s].loop /\ left[s].loop \in Nat /\ Inactivity \in Nat /\ Inactivity # 0
  <2>1. left[s] \in [loop : Nat, switch : Nat]
    BY DEF TypeOK
  <2> QED
    BY <2>1, SwitchAssumption, PatienceAssumption
<1>3. \A m \in Node : heard'[s][m] = 0 \/ heard'[s][m] > left'[s].loop
    BY <1>1, <1>2 DEF InTouch
<1>4. NotReceiving(s)' => NotReceiving(s)
  <2>1. {m \in Node \ {s} : heard'[s][m] = 0} \subseteq {m \in Node \ {s} : heard[s][m] = 0}
    BY <1>1, <1>2
  <2> QED
    BY <2>1, PatienceAssumption DEF NotReceiving
<1> QED
    BY <1>3, <1>4 DEF InTouch

LEMMA PollServedStep ==
    ASSUME SwitchInv, NEW k \in Node, PollServed(k) PROVE SwitchInv'
<1> DEFINE s == stage[k].to
<1>1. /\ stage[k] \in [at : {"poll"}, to : Node] /\ s \in Node
      /\ stage' = [stage EXCEPT ![k] = [at |-> "dispute"]]
      /\ heard' = [heard EXCEPT ![s][k] = Inactivity]
      /\ UNCHANGED <<received, switchVars, left, requests, raised>>
      /\ sequencer[s] = s /\ ~ Paused(s)
  <2>1. stage[k] \in Stages /\ stage[k].at = "poll"
    BY DEF SwitchInv, TypeOK, PollServed
  <2>2. stage[k] \in [at : {"poll"}, to : Node]
    BY <2>1 DEF Stages, Idle
  <2> QED
    BY <2>2 DEF PollServed
<1> HIDE DEF s
<1>2. TypeOK'
    BY <1>1, SwitchAssumption DEF SwitchInv, TypeOK, switchVars, Stages
<1>3. ASSUME NEW n \in Node
      PROVE  Waits(n)' /\ Gathers(n)'
  <2>1. CASE n = k
    <3>1. stage'[n].at # "gather" /\ waiting[n] = << >>
      BY <1>1, <2>1 DEF SwitchInv, TypeOK, Waits, Idle
    <3> QED
      BY <1>1, <3>1 DEF Waits, Gathers, switchVars
  <2>2. CASE n # k
    <3>1. stage'[n] = stage[n] /\ left'[n] = left[n]
      BY <1>1, <2>2 DEF SwitchInv, TypeOK
    <3>2. CASE n # s
      <4>1. heard'[n] = heard[n]
        BY <1>1, <3>2 DEF SwitchInv, TypeOK
      <4> QED
        BY <1>1, <1>3, <3>1, <4>1, Unmoved DEF SwitchInv, switchVars
    <3>3. CASE n = s
      <4>1. Waits(n)'
        BY <1>1, <3>1 DEF SwitchInv, Waits, Paused, switchVars
      <4>2. ASSUME stage[n].at = "gather", stage[n].old # n, n \notin raised
            PROVE  Gathers(n)'
        <5>1. left[n].loop <= GatherTime /\ ~ Paused(n) /\ sequencer[n] = n
          BY <1>1, <3>3, <4>2 DEF SwitchInv, Gathers
        <5>2. Successor(stage[n].old) = n /\ InTouch(n)
          BY <4>2, <5>1 DEF SwitchInv, Gathers
        <5>3. InTouch(n)'
          BY <1>1, <3>3, <5>1, <5>2, HeardMore DEF SwitchInv
        <5> QED
          BY <1>1, <3>1, <5>1, <5>2, <5>3 DEF Gathers, Paused, switchVars
      <4>3. CASE ~ (stage[n].at = "gather" /\ stage[n].old # n /\ n \notin raised)
        BY <1>1, <3>1, <4>1, <4>3 DEF Gathers
      <4> QED
        BY <4>1, <4>2, <4>3
    <3> QED
      BY <3>2, <3>3
  <2> QED
    BY <2>1, <2>2
<1> QED
    BY <1>2, <1>3 DEF SwitchInv

(* reset_sequencer changes the sequencer of a node for which nothing waits. *)
LEMMA ResetStep ==
    ASSUME SwitchInv, NEW k \in Node, Reset(k) PROVE SwitchInv'
<1>1. /\ stage[k].at = "reset" /\ stage[k] \in Stages
      /\ stage' = [stage EXCEPT ![k] = [at |-> "dispute"]]
      /\ UNCHANGED <<received, switching, waiting, left, requests, raised>>
    BY DEF Reset, SwitchInv, TypeOK
<1>2. stage[k].found \in SUBSET Node
    BY <1>1 DEF Stages, Idle
<1>3. /\ sequencer' \in [Node -> Node] /\ heard' \in [Node -> [Node -> Nat]]
      /\ \A n \in Node \ {k} : sequencer'[n] = sequencer[n] /\ heard'[n] = heard[n]
  <2>1. CASE UNCHANGED <<sequencer, heard>>
    BY <2>1 DEF SwitchInv, TypeOK
  <2>2. CASE \E c \in stage[k].found :
               /\ sequencer' = [sequencer EXCEPT ![k] = c]
               /\ heard' = [heard EXCEPT ![k] = Nobody]
    <3>1. PICK c \in Node : /\ sequencer' = [sequencer EXCEPT ![k] = c]
                            /\ heard' = [heard EXCEPT ![k] = Nobody]
      BY <1>2, <2>2
    <3> QED
      BY <3>1 DEF SwitchInv, TypeOK, Nobody
  <2> QED
    BY <2>1, <2>2 DEF Reset
<1>4. TypeOK'
    BY <1>1, <1>3 DEF SwitchInv, TypeOK, Stages
<1>5. ASSUME NEW n \in Node
      PROVE  Waits(n)' /\ Gathers(n)'
  <2>1. CASE n = k
    <3>1. stage'[n].at # "gather"
      BY <1>1, <2>1 DEF SwitchInv, TypeOK
    <3>2. waiting[n] = << >>
      BY <1>1, <2>1 DEF SwitchInv, Waits, Idle
    <3> QED
      BY <1>1, <3>1, <3>2 DEF Waits, Gathers
  <2>2. CASE n # k
    <3>1. stage'[n] = stage[n]
      BY <1>1, <2>2 DEF SwitchInv, TypeOK
    <3> QED
      BY <1>1, <1>3, <2>2, <3>1, Unmoved DEF SwitchInv
  <2> QED
    BY <2>1, <2>2
<1> QED
    BY <1>4, <1>5 DEF SwitchInv

LEMMA NotesUpdatesStep ==
    ASSUME SwitchInv, NEW k \in Node, NotesUpdates(k) PROVE SwitchInv'
<1>1. /\ sequencer[k] = k /\ ~ Paused(k) /\ ~ NotReceiving(k)
      /\ received' = [received EXCEPT ![k] = TRUE]
      /\ UNCHANGED <<heard, switchVars, stage, left, requests, raised>>
    BY DEF NotesUpdates, loopVars
<1>2. TypeOK'
    BY <1>1 DEF SwitchInv, TypeOK, switchVars
<1>3. ASSUME NEW n \in Node
      PROVE  Waits(n)' /\ Gathers(n)'
  <2>1. CASE n = k
    <3>1. InTouch(n) => InTouch(n)'
      BY <1>1, <2>1 DEF InTouch, NotReceiving
    <3> QED
      BY <1>1, <3>1 DEF SwitchInv, Waits, Gathers, Paused, switchVars
  <2>2. CASE n # k
    <3>1. received'[n] = received[n]
      BY <1>1, <2>2 DEF SwitchInv, TypeOK
    <3> QED
      BY <1>1, <1>3, <3>1, Unmoved DEF SwitchInv, switchVars
  <2> QED
    BY <2>1, <2>2
<1> QED
    BY <1>2, <1>3 DEF SwitchInv

(* A sequencer that gathers against another is in touch with the nodes, so *)
(* it does not take itself for one that missed a switch.                   *)
LEMMA FailOverStep ==
    ASSUME SwitchInv, NEW k \in Node, FailOver(k) PROVE SwitchInv'
<1>1. /\ sequencer[k] = k /\ ~ Paused(k) /\ NotReceiving(k) /\ received[k]
      /\ UNCHANGED <<received, switching, waiting, stage, left, requests, raised>>
    BY DEF FailOver, loopVars
<1>2. /\ sequencer' \in [Node -> Node] /\ heard' \in [Node -> [Node -> Nat]]
      /\ \A n \in Node \ {k} : sequencer'[n] = sequencer[n] /\ heard'[n] = heard[n]
    BY SequencersAreNodes DEF FailOver, SwitchInv, TypeOK, Nobody
<1>3. TypeOK'
    BY <1>1, <1>2 DEF SwitchInv, TypeOK
<1>4. ASSUME NEW n \in Node
      PROVE  Waits(n)' /\ Gathers(n)'
  <2>1. CASE n = k
    <3>1. Waits(n)'
      BY <1>1, <2>1 DEF SwitchInv, Waits
    <3>2. ~ (stage[n].at = "gather" /\ stage[n].old # n /\ n \notin raised)
      BY <1>1, <2>1 DEF SwitchInv, Gathers, InTouch
    <3> QED
      BY <1>1, <3>1, <3>2 DEF Gathers
  <2>2. CASE n # k
    BY <1>1, <1>2, <1>4, <2>2, Unmoved DEF SwitchInv
  <2> QED
    BY <2>1, <2>2
<1> QED
    BY <1>3, <1>4 DEF SwitchInv

(* The gathering begins in a node that follows what it disputes.           *)
LEMMA ComplainStep ==
    ASSUME SwitchInv, NEW k \in Node, Complain(k) PROVE SwitchInv'
<1> DEFINE next == [at |-> "gather", old |-> sequencer[k], signers |-> {k}, age |-> 0]
<1>1. /\ stage[k] # Idle /\ ~ Paused(k)
      /\ stage' = [stage EXCEPT ![k] = next]
      /\ left' = [left EXCEPT ![k].loop = GatherTime]
      /\ UNCHANGED <<heardVars, switchVars, requests, raised>>
    BY DEF Complain, Idle
<1>2. next \in Stages
    BY DEF Stages, SwitchInv, TypeOK
<1>3. next.at = "gather" /\ next.old = sequencer[k]
    OBVIOUS
<1> HIDE DEF next
<1>4. TypeOK'
    BY <1>1, <1>2, SwitchAssumption DEF SwitchInv, TypeOK, heardVars, switchVars
<1>5. ASSUME NEW n \in Node
      PROVE  Waits(n)' /\ Gathers(n)'
  <2>1. CASE n = k
    <3>1. Waits(n)'
      BY <1>1, <2>1 DEF SwitchInv, Waits, switchVars
    <3>2. stage'[n] = next /\ left'[n].loop = GatherTime
      BY <1>1, <2>1 DEF SwitchInv, TypeOK
    <3>3. switching'[n] = "no" /\ sequencer'[n] = sequencer[n]
      BY <1>1, <2>1 DEF Paused, switchVars
    <3>4. GatherTime <= GatherTime
      BY SwitchAssumption
    <3> QED
      BY <1>3, <2>1, <3>1, <3>2, <3>3, <3>4 DEF Gathers, Paused
  <2>2. CASE n # k
    <3>1. stage'[n] = stage[n] /\ left'[n] = left[n]
      BY <1>1, <2>2 DEF SwitchInv, TypeOK
    <3> QED
      BY <1>1, <1>5, <3>1, Unmoved DEF SwitchInv, heardVars, switchVars
  <2> QED
    BY <2>1, <2>2
<1> QED
    BY <1>4, <1>5 DEF SwitchInv

LEMMA ConfirmStep ==
    ASSUME SwitchInv, NEW k \in Node, NEW j \in Node, Confirm(k, j) PROVE SwitchInv'
<1>1. /\ stage[k].at = "gather" /\ stage[k] \in Stages
      /\ stage' = [stage EXCEPT ![k].signers = @ \cup {j}]
      /\ UNCHANGED <<heardVars, switchVars, left, requests, raised>>
    BY DEF Confirm, SwitchInv, TypeOK
<1>2. stage[k] \in [at : {"gather"}, old : Node, signers : SUBSET Node, age : Nat]
    BY <1>1 DEF Stages, Idle
<1>3. /\ stage'[k] \in Stages
      /\ stage'[k].at = "gather" /\ stage'[k].old = stage[k].old
    BY <1>1, <1>2 DEF SwitchInv, TypeOK, Stages
<1>4. stage' \in [Node -> Stages] /\ \A n \in Node \ {k} : stage'[n] = stage[n]
    BY <1>1, <1>3 DEF SwitchInv, TypeOK
<1>5. TypeOK'
    BY <1>1, <1>4 DEF SwitchInv, TypeOK, heardVars, switchVars
<1>6. ASSUME NEW n \in Node
      PROVE  Waits(n)' /\ Gathers(n)'
  <2>1. CASE n = k
    <3>1. Waits(n)'
      BY <1>1, <2>1 DEF SwitchInv, Waits, Idle, switchVars
    <3>2. InTouch(n) => InTouch(n)'
      BY <1>1 DEF InTouch, NotReceiving, heardVars
    <3> QED
      BY <1>1, <1>3, <2>1, <3>1, <3>2 DEF SwitchInv, Gathers, Paused, switchVars
  <2>2. CASE n # k
    BY <1>1, <1>4, <1>6, <2>2, Unmoved DEF SwitchInv, heardVars, switchVars
  <2> QED
    BY <2>1, <2>2
<1> QED
    BY <1>5, <1>6 DEF SwitchInv

LEMMA GoOfflineStep ==
    ASSUME SwitchInv, UNCHANGED <<heardVars, switchVars, stage, left, requests, raised>>
    PROVE  SwitchInv'
<1>1. TypeOK'
    BY DEF SwitchInv, TypeOK, heardVars, switchVars
<1>2. \A n \in Node : Waits(n)' /\ Gathers(n)'
    BY Unmoved DEF SwitchInv, heardVars, switchVars
<1> QED
    BY <1>1, <1>2 DEF SwitchInv

-----------------------------------------------------------------------------
(****************************** The switch *********************************)

(* What is left of a switch step once its own node is dealt with.          *)
LEMMA SwitchStep ==
    ASSUME SwitchInv, NEW k \in Node, TypeOK', Waits(k)', Gathers(k)', OthersSwitch(k),
           raised \subseteq raised',
           \A n \in Node \ {k} : /\ stage'[n] = stage[n] /\ left'[n] = left[n]
                                 /\ heard'[n] = heard[n] /\ received'[n] = received[n]
    PROVE  SwitchInv'
<1>1. \A n \in Node \ {k} : Waits(n)' /\ Gathers(n)'
    BY Unmoved DEF SwitchInv, OthersSwitch
<1> QED
    BY <1>1 DEF SwitchInv

(* A new sequencer starts, any other node gives it time.                   *)
LEMMA SyncedStep ==
    ASSUME SwitchInv, NEW k \in Node, Synced(k) PROVE SwitchInv'
<1>1. /\ switching[k] = "sync"
      /\ UNCHANGED <<stage, requests, raised>>
    BY DEF Synced, loopVars
<1>2. CASE sequencer[k] = k
  <2>1. /\ Release(k) /\ UNCHANGED left
        /\ received' = [received EXCEPT ![k] = FALSE]
        /\ heard' = [heard EXCEPT ![k] = Nobody]
    BY <1>2 DEF Synced
  <2>2. SwitchType' /\ Released(k) /\ OthersSwitch(k)
    BY <2>1, ReleaseEffect DEF SwitchInv, TypeOK, SwitchType
  <2>3. TypeOK'
    BY <1>1, <2>1, <2>2 DEF SwitchInv, TypeOK, SwitchType, Nobody
  <2>4. Waits(k)'
    BY <2>2 DEF Released, Waits
  <2>5. InTouch(k)'
    BY <2>1 DEF InTouch, SwitchInv, TypeOK, Nobody
  <2>6. ASSUME stage[k].at = "gather", stage[k].old # k, k \notin raised
        PROVE  Gathers(k)'
    <3>1. waiting[k] = << >>
      BY <2>6 DEF SwitchInv, Waits, Idle
    <3>2. switching'[k] = "no" /\ sequencer'[k] = k
      BY <1>2, <2>2, <3>1 DEF Released
    <3>3. Successor(stage[k].old) = k /\ left[k].loop <= GatherTime
      BY <1>1, <1>2, <2>6 DEF SwitchInv, Gathers
    <3> QED
      BY <1>1, <2>1, <2>5, <3>2, <3>3 DEF Gathers
  <2>7. Gathers(k)'
    BY <1>1, <2>6 DEF Gathers
  <2>8. \A n \in Node \ {k} : heard'[n] = heard[n] /\ received'[n] = received[n]
    BY <2>1 DEF SwitchInv, TypeOK
  <2> QED
    BY <1>1, <2>1, <2>2, <2>3, <2>4, <2>7, <2>8, SwitchStep
<1>3. CASE sequencer[k] # k
  <2>1. /\ switching' = [switching EXCEPT ![k] = "sleep"]
        /\ left' = [left EXCEPT ![k].switch = SetupTime]
        /\ UNCHANGED <<heardVars, sequencer, waiting>>
    BY <1>3 DEF Synced
  <2>2. TypeOK'
    BY <1>1, <2>1, SwitchAssumption DEF SwitchInv, TypeOK, heardVars
  <2>3. switching'[k] = "sleep"
    BY <2>1 DEF SwitchInv, TypeOK
  <2>4. Waits(k)'
    BY <1>1, <2>1, <2>3 DEF SwitchInv, Waits, Paused
  <2>5. left'[k].loop = left[k].loop /\ left'[k].switch = SetupTime /\ left[k].loop \in Nat
    BY <2>1 DEF SwitchInv, TypeOK
  <2>6. ASSUME stage[k].at = "gather", stage[k].old # k, k \notin raised
        PROVE  Gathers(k)'
    <3>1. left[k].loop <= GatherTime
      BY <2>6 DEF SwitchInv, Gathers
    <3>2. SetupTime > left[k].loop
      BY <2>5, <3>1, SwitchAssumption, PatienceAssumption
    <3> QED
      BY <1>1, <2>3, <2>5, <3>1, <3>2 DEF Gathers, Paused
  <2>7. Gathers(k)'
    BY <1>1, <2>6 DEF Gathers
  <2>8. OthersSwitch(k)
    BY <2>1 DEF SwitchInv, TypeOK, OthersSwitch
  <2>9. \A n \in Node \ {k} : left'[n] = left[n]
    BY <2>1 DEF SwitchInv, TypeOK
  <2> QED
    BY <1>1, <2>1, <2>2, <2>4, <2>7, <2>8, <2>9, SwitchStep DEF heardVars
<1> QED
    BY <1>2, <1>3

LEMMA SyncRaisesStep ==
    ASSUME SwitchInv, NEW k \in Node, SyncRaises(k) PROVE SwitchInv'
<1>1. /\ Release(k) /\ raised' = raised \cup {k}
      /\ UNCHANGED <<heardVars, stage, left, requests>>
    BY DEF SyncRaises, loopVars
<1>2. SwitchType' /\ Released(k) /\ OthersSwitch(k)
    BY <1>1, ReleaseEffect DEF SwitchInv, TypeOK, SwitchType
<1>3. TypeOK'
    BY <1>1, <1>2 DEF SwitchInv, TypeOK, SwitchType, heardVars
<1>4. Waits(k)' /\ Gathers(k)'
    BY <1>1, <1>2 DEF Released, Waits, Gathers
<1> QED
    BY <1>1, <1>2, <1>3, <1>4, SwitchStep DEF heardVars

(* The wait for a new sequencer outlasts every gathering.                  *)
LEMMA ResumeStep ==
    ASSUME SwitchInv, NEW k \in Node, Resume(k) PROVE SwitchInv'
<1>1. /\ switching[k] = "sleep" /\ left[k].switch = 0 /\ Release(k)
      /\ heard' = [heard EXCEPT ![k] = Nobody]
      /\ UNCHANGED <<received, stage, left, requests, raised>>
    BY DEF Resume, loopVars
<1>2. SwitchType' /\ Released(k) /\ OthersSwitch(k)
    BY <1>1, ReleaseEffect DEF SwitchInv, TypeOK, SwitchType
<1>3. TypeOK'
    BY <1>1, <1>2 DEF SwitchInv, TypeOK, SwitchType, Nobody
<1>4. left[k].loop \in Nat
    BY DEF SwitchInv, TypeOK
<1>5. ~ (stage[k].at = "gather" /\ stage[k].old # k /\ k \notin raised)
    BY <1>1, <1>4 DEF SwitchInv, Gathers
<1>6. Waits(k)' /\ Gathers(k)'
    BY <1>1, <1>2, <1>5 DEF Released, Waits, Gathers
<1>7. \A n \in Node \ {k} : heard'[n] = heard[n]
    BY <1>1 DEF SwitchInv, TypeOK
<1> QED
    BY <1>1, <1>2, <1>3, <1>6, <1>7, SwitchStep

(* The call at the end of a dispute is the first that may wait.            *)
LEMMA GatheredStep ==
    ASSUME SwitchInv, NEW k \in Node, Gathered(k) PROVE SwitchInv'
<1> DEFINE s == Successor(stage[k].old)
<1>1. /\ stage[k].at = "gather" /\ stage[k] \in Stages
      /\ SwitchCall(k, s)
      /\ stage' = [stage EXCEPT ![k] = Idle]
      /\ UNCHANGED <<heardVars, left, raised>>
    BY DEF Gathered, SwitchInv, TypeOK
<1>2. stage[k] \in [at : {"gather"}, old : Node, signers : SUBSET Node, age : Nat]
    BY <1>1 DEF Stages, Idle
<1>3. s \in Node
    BY <1>2, SuccessorIsNode
<1> HIDE DEF s
<1>4. SwitchType' /\ Called(k, s) /\ OthersSwitch(k)
    BY <1>1, <1>3, CallEffect DEF SwitchInv, TypeOK, SwitchType
<1>5. requests' \subseteq [to : Node, old : Node, age : Int, left : Int]
  <2>1. \A m \in Node : Request(k, m) \in [to : Node, old : Node, age : Int, left : Int]
    BY <1>2, SwitchAssumption DEF Request
  <2> QED
    BY <2>1 DEF Gathered, SwitchInv, TypeOK
<1>6. TypeOK'
    BY <1>1, <1>4, <1>5 DEF SwitchInv, TypeOK, SwitchType, heardVars, Stages
<1>7. stage'[k] = Idle /\ waiting[k] = << >>
  <2>1. waiting[k] = << >>
    BY <1>1 DEF SwitchInv, Waits, Idle
  <2> QED
    BY <1>1, <2>1 DEF SwitchInv, TypeOK
<1>8. Waits(k)'
  <2>1. CASE waiting'[k] = waiting[k]
    BY <1>7, <2>1 DEF Waits
  <2>2. CASE /\ s # sequencer[k] /\ Paused(k)
             /\ waiting'[k] = Append(waiting[k], s)
             /\ sequencer'[k] = sequencer[k] /\ switching'[k] = switching[k]
    <3>1. waiting'[k] = <<s>>
      BY <1>7, <2>2
    <3>2. Len(waiting'[k]) = 1 /\ waiting'[k][1] = s
      BY <3>1
    <3> QED
      BY <1>7, <2>2, <3>2 DEF Waits, Paused
  <2> QED
    BY <1>4, <2>1, <2>2 DEF Called
<1>9. Gathers(k)'
    BY <1>7 DEF Gathers, Idle
<1>10. \A n \in Node \ {k} : stage'[n] = stage[n]
    BY <1>1 DEF SwitchInv, TypeOK
<1> QED
    BY <1>1, <1>4, <1>6, <1>8, <1>9, <1>10, SwitchStep DEF heardVars

(* A request to switch finds a node that gathers with the sequencer that   *)
(* it disputes, or as that sequencer's successor.                          *)
LEMMA PostSwitchStep ==
    ASSUME SwitchInv, NEW r \in requests, PostSwitch(r) PROVE SwitchInv'
<1> DEFINE k == r.to
           s == Successor(r.old)
<1>1. k \in Node /\ r.old \in Node /\ s \in Node
    BY SuccessorIsNode DEF SwitchInv, TypeOK
<1>2. UNCHANGED <<heardVars, stage, left, raised>> /\ requests' \subseteq requests
    BY DEF PostSwitch, loopVars
<1>3. CASE UNCHANGED switchVars
  <2>1. TypeOK'
    BY <1>2, <1>3 DEF SwitchInv, TypeOK, heardVars, switchVars
  <2>2. \A n \in Node : Waits(n)' /\ Gathers(n)'
    BY <1>2, <1>3, Unmoved DEF SwitchInv, heardVars, switchVars
  <2> QED
    BY <2>1, <2>2 DEF SwitchInv
<1>4. CASE ~ Paused(k) /\ sequencer[k] = r.old /\ SwitchCall(k, s)
  <2> HIDE DEF k, s
  <2>1. SwitchType' /\ Called(k, s) /\ OthersSwitch(k)
    BY <1>1, <1>4, CallEffect DEF SwitchInv, TypeOK, SwitchType
  <2>2. TypeOK'
    BY <1>2, <2>1 DEF SwitchInv, TypeOK, SwitchType, heardVars
  <2>3. waiting[k] = << >> /\ waiting'[k] = << >>
    BY <1>1, <1>4, <2>1 DEF SwitchInv, Waits, Called
  <2>4. CASE s = sequencer[k] /\ sequencer'[k] = sequencer[k] /\ switching'[k] = switching[k]
    <3>1. Waits(k)' /\ Gathers(k)'
      BY <1>1, <1>2, <2>3, <2>4, Unmoved DEF SwitchInv, heardVars
    <3> QED
      BY <1>1, <1>2, <2>1, <2>2, <3>1, SwitchStep DEF heardVars
  <2>5. CASE s # sequencer[k] /\ sequencer'[k] = s /\ switching'[k] = "sync"
    <3>1. Waits(k)'
      BY <2>3 DEF Waits
    <3>2. ASSUME stage[k].at = "gather", stage[k].old # k, k \notin raised
          PROVE  Gathers(k)'
      <4>1. /\ left[k].loop <= GatherTime
            /\ sequencer[k] # stage[k].old => sequencer[k] = k
        BY <1>1, <1>4, <3>2 DEF SwitchInv, Gathers
      <4>2. s = k => Successor(stage[k].old) = k
        BY <1>4, <2>5, <4>1 DEF s
      <4> QED
        BY <1>2, <2>5, <4>1, <4>2 DEF Gathers, Paused
    <3>3. Gathers(k)'
      BY <1>2, <3>2 DEF Gathers
    <3> QED
      BY <1>1, <1>2, <2>1, <2>2, <3>1, <3>3, SwitchStep DEF heardVars
  <2> QED
    BY <1>4, <2>1, <2>4, <2>5 DEF Called
<1> QED
    BY <1>3, <1>4 DEF PostSwitch

-----------------------------------------------------------------------------
(******************************** Time *************************************)

LEMMA LessProperties ==
    ASSUME NEW k \in Nat
    PROVE  Less(k) \in Nat /\ (k > 0 => Less(k) = k - 1) /\ (k = 0 => Less(k) = 0)
BY DEF Less

(* A unit of time passes for a node that gathers and for its switch alike. *)
LEMMA TickStep == ASSUME SwitchInv, Tick PROVE SwitchInv'
<1>1. /\ left' = [n \in Node |-> [loop |-> Less(left[n].loop), switch |-> Less(left[n].switch)]]
      /\ stage' = [n \in Node |-> IF stage[n].at = "gather"
                                  THEN [stage[n] EXCEPT !.age = @ + 1] ELSE stage[n]]
      /\ heard' = [s \in Node |-> [m \in Node |-> Less(heard[s][m])]]
      /\ \A n \in Node : stage[n].at = "gather" => left[n].loop > 0
      /\ UNCHANGED <<received, switchVars, raised>>
    BY DEF Tick
<1>2. requests' \subseteq [to : Node, old : Node, age : Int, left : Int]
  <2>1. \A q \in requests : [q EXCEPT !.age = @ + 1, !.left = @ - 1] \in
                              [to : Node, old : Node, age : Int, left : Int]
    <3>1. TAKE q \in requests
    <3>2. q \in [to : Node, old : Node, age : Int, left : Int]
      BY DEF SwitchInv, TypeOK
    <3>3. q.age + 1 \in Int /\ q.left - 1 \in Int
      BY <3>2
    <3> QED
      BY <3>2, <3>3
  <2> QED
    BY <2>1 DEF Tick
<1>3. ASSUME NEW n \in Node
      PROVE  /\ stage'[n] \in Stages /\ stage'[n].at = stage[n].at
             /\ stage[n] = Idle => stage'[n] = Idle
             /\ stage[n].at = "gather" => stage'[n].old = stage[n].old
  <2>1. CASE stage[n].at # "gather"
    BY <1>1, <2>1 DEF SwitchInv, TypeOK
  <2>2. CASE stage[n].at = "gather"
    <3>1. stage[n] \in Stages
      BY DEF SwitchInv, TypeOK
    <3>2. stage[n] \in [at : {"gather"}, old : Node, signers : SUBSET Node, age : Nat]
      BY <2>2, <3>1 DEF Stages, Idle
    <3>3. stage'[n] = [stage[n] EXCEPT !.age = @ + 1]
      BY <1>1, <2>2
    <3> QED
      BY <2>2, <3>2, <3>3 DEF Stages, Idle
  <2> QED
    BY <2>1, <2>2
<1>4. ASSUME NEW n \in Node
      PROVE  /\ left[n].loop \in Nat /\ left[n].switch \in Nat
             /\ left'[n] \in [loop : Nat, switch : Nat]
             /\ left'[n].loop = Less(left[n].loop)
             /\ left'[n].switch = Less(left[n].switch)
  <2>1. left[n].loop \in Nat /\ left[n].switch \in Nat
    BY DEF SwitchInv, TypeOK
  <2>2. left'[n] = [loop |-> Less(left[n].loop), switch |-> Less(left[n].switch)]
    BY <1>1
  <2> QED
    BY <2>1, <2>2, LessProperties
<1>5. ASSUME NEW n \in Node, NEW m \in Node
      PROVE  heard[n][m] \in Nat /\ heard'[n][m] = Less(heard[n][m])
    BY <1>1 DEF SwitchInv, TypeOK
<1>6. TypeOK'
  <2>1. stage' \in [Node -> Stages]
    BY <1>1, <1>3
  <2>2. left' \in [Node -> [loop : Nat, switch : Nat]]
    BY <1>1, <1>4
  <2>3. heard' \in [Node -> [Node -> Nat]]
    BY <1>1, <1>5, LessProperties
  <2> QED
    BY <1>1, <1>2, <2>1, <2>2, <2>3 DEF SwitchInv, TypeOK, switchVars
<1>7. ASSUME NEW n \in Node
      PROVE  Waits(n)' /\ Gathers(n)'
  <2>1. Waits(n)'
    BY <1>1, <1>3 DEF SwitchInv, Waits, Paused, switchVars
  <2>2. ASSUME stage[n].at = "gather", stage[n].old # n, n \notin raised
        PROVE  Gathers(n)'
    <3>1. left[n].loop > 0 /\ left'[n].loop = left[n].loop - 1 /\ left[n].loop \in Nat
      BY <1>1, <1>4, <2>2, LessProperties
    <3>2. left'[n].loop <= GatherTime
      BY <2>2, <3>1, SwitchAssumption DEF SwitchInv, Gathers
    <3>3. switching'[n] = "sleep" => left'[n].switch > left'[n].loop
      <4>1. switching'[n] = "sleep" => left[n].switch > left[n].loop
        BY <1>1, <2>2 DEF SwitchInv, Gathers, switchVars
      <4>2. left[n].switch > left[n].loop => left'[n].switch = left[n].switch - 1
        BY <1>4, <3>1, LessProperties
      <4> QED
        BY <1>4, <3>1, <4>1, <4>2
    <3>4. ASSUME InTouch(n)
          PROVE  InTouch(n)'
      <4>1. \A m \in Node : \/ heard[n][m] = 0 /\ heard'[n][m] = 0
                            \/ heard'[n][m] > left'[n].loop /\ heard'[n][m] # 0 /\ heard[n][m] # 0
        <5>1. TAKE m \in Node
        <5>2. heard[n][m] = 0 \/ heard[n][m] > left[n].loop
          BY <3>4 DEF InTouch
        <5>3. CASE heard[n][m] = 0
          BY <1>5, <5>3, LessProperties
        <5>4. CASE heard[n][m] > left[n].loop
          <6>1. heard'[n][m] = heard[n][m] - 1 /\ heard[n][m] \in Nat
            BY <1>5, <3>1, <5>4, LessProperties
          <6> QED
            BY <3>1, <5>4, <6>1
        <5> QED
          BY <5>2, <5>3, <5>4
      <4>2. {m \in Node \ {n} : heard'[n][m] = 0} = {m \in Node \ {n} : heard[n][m] = 0}
        BY <4>1
      <4>3. NotReceiving(n)' <=> NotReceiving(n)
        BY <4>2 DEF NotReceiving
      <4> QED
        BY <1>1, <3>4, <4>1, <4>3 DEF InTouch
    <3>5. stage'[n].old = stage[n].old
      BY <1>3, <2>2
    <3>6. /\ ~ Paused(n) /\ sequencer[n] # stage[n].old =>
               sequencer[n] = n /\ Successor(stage[n].old) = n /\ InTouch(n)
          /\ switching[n] = "sync" /\ sequencer[n] = n => Successor(stage[n].old) = n
      BY <2>2 DEF SwitchInv, Gathers
    <3> QED
      BY <1>1, <3>2, <3>3, <3>4, <3>5, <3>6 DEF Gathers, Paused, switchVars
  <2>3. Gathers(n)'
    BY <1>1, <1>3, <2>2 DEF Gathers
  <2> QED
    BY <2>1, <2>3
<1> QED
    BY <1>6, <1>7 DEF SwitchInv

-----------------------------------------------------------------------------
(****************************** Invariance *********************************)

LEMMA InitSwitchInv == Init => SwitchInv
<1> SUFFICES ASSUME Init PROVE SwitchInv
    OBVIOUS
<1>1. Ring[1] \in Node
    BY SwitchAssumption, LenProperties, EmptySeq, ElementOfSeq
<1>2. << >> \in Seq(Node)
    OBVIOUS
<1>3. TypeOK
    BY <1>1, <1>2, SwitchAssumption DEF Init, TypeOK, Stages
<1>4. \A n \in Node : Waits(n) /\ Gathers(n)
    BY DEF Init, Waits, Gathers, Idle
<1> QED
    BY <1>3, <1>4 DEF SwitchInv

LEMMA NextSwitchInv == SwitchInv /\ [Next]_vars => SwitchInv'
<1> SUFFICES ASSUME SwitchInv, [Next]_vars PROVE SwitchInv'
    OBVIOUS
<1>1. ASSUME NEW n \in Node,
             Poll(n) \/ PollServed(n) \/ PollFails(n) \/ PollRejected(n) \/ Reset(n)
      PROVE  SwitchInv'
    BY <1>1, PollStep, PollServedStep, PollFailsStep, PollRejectedStep, ResetStep
<1>2. ASSUME NEW n \in Node,
             NotesUpdates(n) \/ FailOver(n) \/ Synced(n) \/ SyncRaises(n) \/ Resume(n)
      PROVE  SwitchInv'
    BY <1>2, NotesUpdatesStep, FailOverStep, SyncedStep, SyncRaisesStep, ResumeStep
<1>3. ASSUME NEW n \in Node,
             NoDispute(n) \/ Complain(n) \/ Gathered(n) \/ GatherFails(n)
      PROVE  SwitchInv'
    BY <1>3, PollFailsStep, ComplainStep, GatheredStep
<1>4. ASSUME NEW n \in Node, NEW m \in Node, Confirm(n, m)
      PROVE  SwitchInv'
    BY <1>4, ConfirmStep
<1>5. ASSUME NEW n \in Node, GoOffline(n)
      PROVE  SwitchInv'
    BY <1>5, GoOfflineStep DEF GoOffline, loopVars
<1>6. ASSUME NEW r \in requests, PostSwitch(r)
      PROVE  SwitchInv'
    BY <1>6, PostSwitchStep
<1>7. CASE Tick
    BY <1>7, TickStep
<1>8. CASE UNCHANGED vars
    BY <1>8, GoOfflineStep DEF vars, loopVars
<1> QED
    BY <1>1, <1>2, <1>3, <1>4, <1>5, <1>6, <1>7, <1>8 DEF Next

LEMMA SwitchInvariant == Spec => []SwitchInv
BY InitSwitchInv, NextSwitchInv, PTL DEF Spec

(* A step in which n pauses, or goes on with a switch that waited.         *)
Begins(n) == \/ ~ Paused(n) /\ Paused(n)'
             \/ Len(waiting'[n]) < Len(waiting[n])

LEMMA CallBegins ==
    ASSUME SwitchInv, NEW k \in Node, NEW s \in Node, SwitchCall(k, s)
    PROVE  \A n \in Node : Begins(n) => sequencer'[n] # sequencer[n]
<1>1. Called(k, s) /\ OthersSwitch(k)
    BY CallEffect DEF SwitchInv, TypeOK, SwitchType
<1>2. waiting[k] \in Seq(Node)
    BY DEF SwitchInv, TypeOK
<1>3. Len(Append(waiting[k], s)) = Len(waiting[k]) + 1 /\ Len(waiting[k]) \in Nat
    BY <1>2, AppendProperties, LenProperties
<1>4. \A n \in Node : Len(waiting[n]) \in Nat
    BY LenProperties DEF SwitchInv, TypeOK
<1>5. Begins(k) => sequencer'[k] # sequencer[k]
  <2>1. CASE waiting'[k] = waiting[k]
    BY <1>1, <1>4, <2>1 DEF Called, Begins, Paused
  <2>2. CASE waiting'[k] = Append(waiting[k], s) /\ switching'[k] = switching[k]
    BY <1>3, <2>2 DEF Begins, Paused
  <2> QED
    BY <1>1, <2>1, <2>2 DEF Called
<1>6. \A n \in Node \ {k} : ~ Begins(n)
    BY <1>1, <1>4 DEF OthersSwitch, Begins, Paused
<1> QED
    BY <1>5, <1>6

LEMMA ReleaseBegins ==
    ASSUME SwitchInv, NEW k \in Node, Paused(k), Release(k)
    PROVE  \A n \in Node : Begins(n) => sequencer'[n] # sequencer[n]
<1>1. Released(k) /\ OthersSwitch(k)
    BY ReleaseEffect DEF SwitchInv, TypeOK, SwitchType
<1>2. \A n \in Node : Len(waiting[n]) \in Nat
    BY LenProperties DEF SwitchInv, TypeOK
<1>3. Begins(k) => sequencer'[k] # sequencer[k]
  <2>1. CASE waiting[k] = << >> /\ waiting'[k] = << >>
    BY <1>2, <2>1 DEF Begins
  <2>2. CASE waiting[k] # << >> /\ sequencer'[k] = waiting[k][1]
    BY <2>2 DEF SwitchInv, Waits
  <2> QED
    BY <1>1, <2>1, <2>2 DEF Released
<1>4. \A n \in Node \ {k} : ~ Begins(n)
    BY <1>1, <1>2 DEF OthersSwitch, Begins, Paused
<1> QED
    BY <1>3, <1>4

LEMMA BeginsElsewhere ==
    ASSUME SwitchInv,
           \A n \in Node : waiting'[n] = waiting[n] /\ (Paused(n)' => Paused(n))
    PROVE  \A n \in Node : Begins(n) => sequencer'[n] # sequencer[n]
BY LenProperties DEF SwitchInv, TypeOK, Begins

LEMMA StepBegins ==
    ASSUME SwitchInv, [Next]_vars
    PROVE  \A n \in Node : Begins(n) => sequencer'[n] # sequencer[n]
<1>1. CASE UNCHANGED <<switching, waiting>>
    BY <1>1, BeginsElsewhere DEF Paused
<1>2. ASSUME NEW k \in Node, Synced(k)
      PROVE  \A n \in Node : Begins(n) => sequencer'[n] # sequencer[n]
  <2>1. CASE sequencer[k] = k
    BY <1>2, <2>1, ReleaseBegins DEF Synced, Paused
  <2>2. CASE sequencer[k] # k
    <3>1. \A n \in Node : waiting'[n] = waiting[n] /\ (Paused(n)' => Paused(n))
      BY <1>2, <2>2 DEF Synced, SwitchInv, TypeOK, Paused
    <3> QED
      BY <3>1, BeginsElsewhere
  <2> QED
    BY <2>1, <2>2
<1>3. ASSUME NEW k \in Node, SyncRaises(k) \/ Resume(k)
      PROVE  \A n \in Node : Begins(n) => sequencer'[n] # sequencer[n]
    BY <1>3, ReleaseBegins DEF SyncRaises, Resume, Paused
<1>4. ASSUME NEW k \in Node, Gathered(k)
      PROVE  \A n \in Node : Begins(n) => sequencer'[n] # sequencer[n]
  <2>1. stage[k] \in [at : {"gather"}, old : Node, signers : SUBSET Node, age : Nat]
    BY <1>4 DEF Gathered, SwitchInv, TypeOK, Stages, Idle
  <2> QED
    BY <1>4, <2>1, SuccessorIsNode, CallBegins DEF Gathered
<1>5. ASSUME NEW r \in requests, PostSwitch(r)
      PROVE  \A n \in Node : Begins(n) => sequencer'[n] # sequencer[n]
  <2>1. r.to \in Node /\ Successor(r.old) \in Node
    BY SuccessorIsNode DEF SwitchInv, TypeOK
  <2>2. CASE UNCHANGED switchVars
    BY <1>1, <2>2 DEF switchVars
  <2>3. CASE SwitchCall(r.to, Successor(r.old))
    BY <2>1, <2>3, CallBegins
  <2> QED
    BY <1>5, <2>2, <2>3 DEF PostSwitch
<1>6. ASSUME NEW n \in Node, NEW m \in Node,
             \/ Poll(n) \/ PollServed(n) \/ PollFails(n) \/ PollRejected(n) \/ Reset(n)
             \/ NotesUpdates(n) \/ FailOver(n) \/ NoDispute(n) \/ Complain(n)
             \/ GatherFails(n) \/ Confirm(n, m) \/ GoOffline(n) \/ Tick
      PROVE  UNCHANGED <<switching, waiting>>
    BY <1>6 DEF Poll, PollServed, PollFails, PollRejected, Reset, NotesUpdates, FailOver,
                NoDispute, Complain, GatherFails, Confirm, GoOffline, Tick, switchVars
<1>7. CASE Tick
    BY <1>1, <1>7 DEF Tick, switchVars
<1>8. CASE UNCHANGED vars
    BY <1>1, <1>8 DEF vars, switchVars
<1> QED
    BY <1>1, <1>2, <1>3, <1>4, <1>5, <1>6, <1>7, <1>8 DEF Next

(* A node never pauses and cuts its log for a sequencer that it follows,   *)
(* although the call at the end of a dispute makes its test before it      *)
(* waits for _switch_lock: switch_to_sequencer.                            *)
THEOREM AlwaysAnother == Spec => NoRepeatedSwitch
<1>1. SwitchInv /\ [Next]_vars =>
        [\A n \in Node :
           (\/ ~ Paused(n) /\ Paused(n)'
            \/ Len(waiting'[n]) < Len(waiting[n])) => sequencer'[n] # sequencer[n]]_vars
    BY StepBegins DEF Begins
<1> QED
    BY <1>1, SwitchInvariant, PTL DEF Spec, NoRepeatedSwitch

(* The gathering of n ends with a switch, or with none.                    *)
LEMMA StepLeaves ==
    ASSUME SwitchInv, [Next]_vars, NEW n \in Node \ raised,
           stage[n].at = "gather", stage[n].old # n, stage'[n] = Idle
    PROVE  sequencer'[n] = sequencer[n] \/ sequencer[n] = stage[n].old
<1>1. stage[n] # Idle /\ stage[n] \in [at : {"gather"}, old : Node, signers : SUBSET Node, age : Nat]
    BY DEF SwitchInv, TypeOK, Stages, Idle
<1>2. CASE Gathered(n)
  <2>1. SwitchCall(n, Successor(stage[n].old)) /\ Successor(stage[n].old) \in Node
    BY <1>1, <1>2, SuccessorIsNode DEF Gathered
  <2>2. Called(n, Successor(stage[n].old))
    BY <2>1, CallEffect DEF SwitchInv, TypeOK, SwitchType
  <2>3. CASE Paused(n)
    BY <2>2, <2>3 DEF Called
  <2>4. CASE ~ Paused(n)
    BY <2>2, <2>4 DEF Called, SwitchInv, Gathers
  <2> QED
    BY <2>3, <2>4
<1>3. CASE GatherFails(n)
    BY <1>3 DEF GatherFails, switchVars
<1>4. ASSUME NEW k \in Node,
             \/ Poll(k) \/ PollServed(k) \/ PollFails(k) \/ PollRejected(k) \/ Reset(k)
             \/ NoDispute(k)
      PROVE  stage'[n] # Idle
    BY <1>1, <1>4 DEF SwitchInv, TypeOK, Poll, PollServed, PollFails, PollRejected, Reset,
                      NoDispute, Idle
<1>5. ASSUME NEW k \in Node, Complain(k) \/ (k # n /\ (Gathered(k) \/ GatherFails(k)))
      PROVE  stage'[n] # Idle
    BY <1>1, <1>5 DEF SwitchInv, TypeOK, Complain, Gathered, GatherFails, Idle
<1>6. ASSUME NEW k \in Node, NEW m \in Node, Confirm(k, m)
      PROVE  stage'[n] # Idle
  <2>1. stage'[n].at = stage[n].at
    BY <1>1, <1>6 DEF SwitchInv, TypeOK, Confirm
  <2> QED
    BY <2>1 DEF Idle
<1>7. CASE UNCHANGED stage
    BY <1>1, <1>7
<1>8. CASE Tick
  <2>1. stage'[n] = [stage[n] EXCEPT !.age = @ + 1]
    BY <1>8 DEF Tick
  <2> QED
    BY <1>1, <2>1 DEF Idle
<1>9. ASSUME NEW k \in Node,
             \/ NotesUpdates(k) \/ FailOver(k) \/ Synced(k) \/ SyncRaises(k) \/ Resume(k)
             \/ GoOffline(k)
      PROVE  UNCHANGED stage
    BY <1>9 DEF NotesUpdates, FailOver, Synced, SyncRaises, Resume, GoOffline, loopVars
<1>10. ASSUME NEW r \in requests, PostSwitch(r)
       PROVE  UNCHANGED stage
    BY <1>10 DEF PostSwitch, loopVars
<1>11. CASE UNCHANGED vars
    BY <1>7, <1>11 DEF vars, loopVars
<1>12. CASE \E k \in Node : \/ Poll(k) \/ PollServed(k) \/ PollFails(k) \/ PollRejected(k)
                             \/ Reset(k) \/ NoDispute(k)
    BY <1>4, <1>12
<1>13. CASE \E k \in Node : Complain(k) \/ Gathered(k) \/ GatherFails(k)
  <2>1. PICK k \in Node : Complain(k) \/ Gathered(k) \/ GatherFails(k)
    BY <1>13
  <2>2. CASE Complain(k)
    <3>1. k \in Node /\ stage'[n] # Idle
      BY <1>5, <2>1, <2>2
    <3> QED
      BY <3>1
  <2>3. CASE k # n /\ (Gathered(k) \/ GatherFails(k))
    BY <1>5, <2>1, <2>3
  <2>4. CASE k = n
    BY <1>2, <1>3, <2>1, <2>2, <2>4
  <2> QED
    BY <2>1, <2>2, <2>3, <2>4
<1>14. CASE \E k \in Node : \/ NotesUpdates(k) \/ FailOver(k) \/ Synced(k) \/ SyncRaises(k)
                             \/ Resume(k) \/ GoOffline(k)
    BY <1>7, <1>9, <1>14
<1>15. CASE \E k, m \in Node : Confirm(k, m)
    BY <1>6, <1>15
<1>16. CASE \E r \in requests : PostSwitch(r)
    BY <1>7, <1>10, <1>16
<1> QED
    BY <1>8, <1>11, <1>12, <1>13, <1>14, <1>15, <1>16 DEF Next

(* However polls, confirmations, requests to switch and the end of a wait  *)
(* interleave, the switch at the end of a dispute leaves the sequencer     *)
(* that was disputed: send_dispute_requests, post_switch_sequencer.        *)
THEOREM LeavesTheDisputed == Spec => LeavesDisputed
<1>1. SwitchInv /\ [Next]_vars =>
        [\A n \in Node \ raised :
           stage[n].at = "gather" /\ stage[n].old # n /\ stage'[n] = Idle
             => sequencer'[n] = sequencer[n] \/ sequencer[n] = stage[n].old]_vars
    BY StepLeaves
<1> QED
    BY <1>1, SwitchInvariant, PTL DEF Spec, LeavesDisputed
=============================================================================
