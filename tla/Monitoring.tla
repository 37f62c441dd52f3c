----------------------------- MODULE Monitoring -----------------------------
(***************************************************************************)
(* The verifiable downtime monitoring service of the examples, an          *)
(* application of the finalized log: monitors watch one node, have what    *)
(* they see signed by the others, send it as an event through zellular,    *)
(* and apply the events in the order of the log.  The downtime that they   *)
(* compute from these events on request is left out.                       *)
(*                                                                         *)
(* One action is what a thread of a monitor does between two requests.     *)
(* An event is its address (one node here), state and timestamp; every     *)
(* event that handle_state_change sends carries a proof that verify_event  *)
(* accepts, so the proof is left out.                                      *)
(***************************************************************************)
EXTENDS Integers, Sequences, FiniteSets

CONSTANTS
    Monitor,     \* MONITORING_NODES
    Watchers,    \* those whose own checks are followed; all sign and apply
    Timeout,     \* REQUEST_TIMEOUT
    MaxTime,     \* bound: where the clock stops
    MaxChanges   \* bound: changes of the monitored node

ASSUME TimeAssumption ==
    /\ Watchers \subseteq Monitor
    /\ MaxTime \in Nat /\ Timeout \in Nat /\ MaxChanges \in Nat
(* A monitor alone would be enough of a quorum to make up an event.        *)
ASSUME MonitorAssumption == IsFiniteSet(Monitor) /\ Cardinality(Monitor) > 1

VARIABLES
    now,      \* time.time(), the same at every monitor
    real,     \* the state of the monitored node
    seen,     \* seen[t]: the states it was in at time t
    changes,  \* how often it changed
    events,   \* events[m]: nodes_events of m; nodes_state is the last one's state
    asking,   \* asking[m]: m's handle_state_change under way, or None
    sent,     \* sent[m]: the event of m that the sequencer does not have yet
    queue     \* queue[m]: the events in finalized batches that m has yet to apply

envVars == <<now, real, seen, changes>>
monitoringVars == <<envVars, events, asking, sent, queue>>

States == {"up", "down"}
None == [kind |-> "none"]
Event == [state : States, timestamp : 0..MaxTime]

MonitoringInit ==
    /\ now = 0
    /\ real = "up"
    /\ seen = [t \in 0..MaxTime |-> IF t = 0 THEN {"up"} ELSE {}]
    /\ changes = 0
    /\ events = [m \in Monitor |-> <<[state |-> "up", timestamp |-> 0]>>]
    /\ asking = [m \in Monitor |-> None]
    /\ sent = [m \in Monitor |-> None]
    /\ queue = [m \in Monitor |-> << >>]

-----------------------------------------------------------------------------
(* Time passes, but not beyond the timeout of a request that is under way. *)
Tick ==
    /\ now < MaxTime
    /\ \A m \in Monitor : asking[m] # None => now < asking[m].began + Timeout
    /\ now' = now + 1
    /\ seen' = [seen EXCEPT ![now + 1] = {real}]
    /\ UNCHANGED <<real, changes, events, asking, sent, queue>>

(* The monitored node goes down or comes back. *)
Change ==
    /\ changes < MaxChanges
    /\ real' = CHOOSE s \in States : s # real
    /\ seen' = [seen EXCEPT ![now] = @ \cup {real'}]
    /\ changes' = changes + 1
    /\ UNCHANGED <<now, events, asking, sent, queue>>

(* nodes_state[address] *)
NodeState(m) == events[m][Len(events[m])].state

(* monitor_loop: the check sees another state than the recorded one.       *)
(* Between two checks of a monitor, POLL_INTERVAL_SECONDS apart, its last  *)
(* event was sequenced and applied, and the queue was empty.               *)
Observe(m) ==
    /\ m \in Watchers
    /\ asking[m] = None /\ sent[m] = None /\ queue[m] = << >>
    /\ NodeState(m) # real
    /\ asking' = [asking EXCEPT ![m] =
          [kind |-> "check", state |-> real, began |-> now,
           timestamp |-> now, signers |-> {}]]
    /\ UNCHANGED <<envVars, events, sent, queue>>

(* handle_state_change takes the timestamp and asks the other monitors. *)
Ask(m) ==
    /\ asking[m] # None /\ asking[m].kind = "check"
    /\ asking' = [asking EXCEPT ![m].kind = "ask", ![m].timestamp = now,
                                ![m].began = now]
    /\ UNCHANGED <<envVars, events, sent, queue>>

(* GET /state at k: it checks the node itself and signs what it finds; the *)
(* signature counts if it is the state that m asks for.                    *)
SignState(m, k) ==
    /\ asking[m] # None /\ asking[m].kind = "ask"
    /\ k # m /\ k \notin asking[m].signers
    /\ real = asking[m].state
    /\ asking' = [asking EXCEPT ![m].signers = @ \cup {k}]
    /\ UNCHANGED <<envVars, events, sent, queue>>

(* Mutant of TwoThirds: a third is enough. *)
OneThird(S) == 3 * Cardinality(S) >= Cardinality(Monitor)

(* aggregate_signatures: two thirds of the monitors. *)
TwoThirds(S) == 3 * Cardinality(S) >= 2 * Cardinality(Monitor)

(* The answers are in or have timed out: m adds its own signature and      *)
(* sends the event, or drops it.                                           *)
SendEvent(m) ==
    /\ asking[m] # None /\ asking[m].kind = "ask"
    /\ asking' = [asking EXCEPT ![m] = None]
    /\ sent' = [sent EXCEPT ![m] =
          IF TwoThirds(asking[m].signers \cup {m})
          THEN [kind |-> "event", state |-> asking[m].state,
                timestamp |-> asking[m].timestamp]
          ELSE None]
    /\ UNCHANGED <<envVars, events, queue>>

(* The event is sequenced and finalized: every monitor will get it, in the *)
(* order of the log, whenever it was made.                                 *)
Sequence(m) ==
    /\ sent[m] # None
    /\ sent' = [sent EXCEPT ![m] = None]
    /\ queue' = [k \in Monitor |->
          Append(queue[k], [state |-> sent[m].state, timestamp |-> sent[m].timestamp])]
    /\ UNCHANGED <<envVars, events, asking>>

(* Mutant of Applied: a monitor that was down is reported up by any event. *)
AppliedDownOnly(evs, e) ==
    IF evs[Len(evs)].state = "up" /\ e.state = "down" THEN Append(evs, e) ELSE evs

(* apply_event: a state that is already recorded is ignored. *)
Applied(evs, e) == IF evs[Len(evs)].state # e.state THEN Append(evs, e) ELSE evs

(* process_loop *)
Process(m) ==
    /\ queue[m] # << >>
    /\ events' = [events EXCEPT ![m] = Applied(@, Head(queue[m]))]
    /\ queue' = [queue EXCEPT ![m] = Tail(@)]
    /\ UNCHANGED <<envVars, asking, sent>>

-----------------------------------------------------------------------------
MonitoringNext ==
    \/ Tick
    \/ Change
    \/ \E m \in Monitor : \/ Observe(m)
                          \/ Ask(m)
                          \/ \E k \in Monitor : SignState(m, k)
                          \/ SendEvent(m)
                          \/ Sequence(m)
                          \/ Process(m)

MonitoringSpec == MonitoringInit /\ [][MonitoringNext]_monitoringVars

(* Every loop goes on, the sequencer takes every event, and not every      *)
(* answer of a monitor is lost or late.                                    *)
Fairness ==
    \A m \in Monitor :
        /\ WF_monitoringVars(Observe(m)) /\ WF_monitoringVars(Ask(m))
        /\ WF_monitoringVars(SendEvent(m)) /\ WF_monitoringVars(Sequence(m))
        /\ WF_monitoringVars(Process(m))
        /\ SF_monitoringVars(\E k \in Monitor : SignState(m, k))

FairMonitoringSpec == MonitoringSpec /\ Fairness

-----------------------------------------------------------------------------
(* Every event that any monitor applies is about a state that the node was *)
(* really in at, or within the request timeout after, the timestamp that   *)
(* the event carries: a check of one monitor that is outdated by the time  *)
(* it is signed does not make an event, as some other monitor must have    *)
(* found the same state since.                                             *)
EventsReal ==
    \A m \in Monitor : \A i \in 1..Len(events[m]) :
        LET e == events[m][i]
        IN  \E t \in e.timestamp..(e.timestamp + Timeout) :
                t \in 0..MaxTime /\ e.state \in seen[t]

(* Events that are sequenced late may put a monitor back into a state that *)
(* the node has left, but once the node stays as it is, every monitor ends *)
(* up with that state for good.                                            *)
Converges ==
    <>[][real' = real]_real => <>[](\A m \in Monitor : NodeState(m) = real)
=============================================================================
