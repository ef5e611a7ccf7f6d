----------------------------- MODULE DeviceQueue -----------------------------
(***************************************************************************)
(* The queues in which calls to one device wait for each other, as memory  *)
(* of the API process:                                                     *)
(*   "cli"    withCliLock and pumpCliQueue of the ZTE and Huawei clients:   *)
(*            two queues and a loop that is awaiting a call or about to     *)
(*            take the next;                                               *)
(*   "snmp"   withSnmpLock and pumpSnmp of the SNMP clients: one queue      *)
(*            kept in order of urgency, and a busy mark;                   *)
(*   "router" withDeviceLock of the MikroTik client: a chain of promises.   *)
(* What a call does on its device is left out, but for its end: all the    *)
(* calls end, by an answer or a timeout, and an error ends them alike.     *)
(***************************************************************************)
EXTENDS Naturals, Sequences

CONSTANTS
  Calls,       \* the callers; one call of each at a time
  Devices,
  DeviceOf,    \* the device each of them calls
  Background   \* the callers with priority 'background'

ASSUME DeviceQueueAssumption ==
  /\ DeviceOf \in [Calls -> Devices]
  /\ Background \subseteq Calls

Kinds == {"cli", "snmp", "router"}

VARIABLES
  kind,   \* the kind of queue each device has; it never changes
  pc,     \* idle, waiting, served, or settled: its promise is not resolved yet
  lanes,  \* cli: the interactive and the background queue
  line,   \* snmp: snmpWaiters; router: the calls with a gate in the chain
  busy    \* cli: pumping, "running" a call or "resuming" after one; snmp: snmpBusy

vars == <<kind, pc, lanes, line, busy>>

\* Mutant: the priority is dropped on the way.
AlwaysInteractive(c) == "interactive"

\* The queue a call is pushed to.
Lane(c) == IF c \in Background THEN "background" ELSE "interactive"

Init ==
  /\ kind  \in [Devices -> Kinds]
  /\ pc    = [c \in Calls |-> "idle"]
  /\ lanes = [d \in Devices |-> [interactive |-> <<>>, background |-> <<>>]]
  /\ line  = [d \in Devices |-> <<>>]
  /\ busy  = [d \in Devices |-> "free"]

IsA(c, k) == kind[DeviceOf[c]] = k

-----------------------------------------------------------------------------
(* cli *)

Empty(q) == q.interactive = <<>> /\ q.background = <<>>

\* Mutant: the background queue is taken from first.
BackgroundLaneFirst(q) == IF q.background # <<>> THEN "background" ELSE "interactive"

\* The lane the next call is taken from.
NextLane(q) == IF q.interactive # <<>> THEN "interactive" ELSE "background"

\* The loop takes a call and runs it, or ends.
Pump(d, q, stages) ==
  IF Empty(q)
  THEN /\ busy'  = [busy EXCEPT ![d] = "free"]
       /\ lanes' = [lanes EXCEPT ![d] = q]
       /\ pc'    = stages
  ELSE /\ busy'  = [busy EXCEPT ![d] = "running"]
       /\ lanes' = [lanes EXCEPT ![d] = [q EXCEPT ![NextLane(q)] = Tail(@)]]
       /\ pc'    = [stages EXCEPT ![Head(q[NextLane(q)])] = "served"]

\* withCliLock: the entry is pushed; unless the loop is pumping, it starts.
CliAsk(c) ==
  /\ IsA(c, "cli") /\ pc[c] = "idle"
  /\ LET d      == DeviceOf[c]
         q      == [lanes[d] EXCEPT ![Lane(c)] = Append(@, c)]
         stages == [pc EXCEPT ![c] = "waiting"]
     IN  IF busy[d] = "free" THEN Pump(d, q, stages)
         ELSE /\ lanes' = [lanes EXCEPT ![d] = q]
              /\ pc'    = stages
              /\ UNCHANGED busy
  /\ UNCHANGED <<kind, line>>

\* The entry resolves or rejects the caller's promise and returns to the loop.
CliReturn(c) ==
  /\ IsA(c, "cli") /\ pc[c] = "settled"
  /\ pc'   = [pc EXCEPT ![c] = "idle"]
  /\ busy' = [busy EXCEPT ![DeviceOf[c]] = "resuming"]
  /\ UNCHANGED <<kind, lanes, line>>

\* Mutant: the loop runs one call and ends.
CliResumeEnds(d) ==
  /\ busy[d] = "resuming"
  /\ busy' = [busy EXCEPT ![d] = "free"]
  /\ UNCHANGED <<kind, pc, lanes, line>>

\* The loop's await is over.
CliResume(d) ==
  /\ busy[d] = "resuming"
  /\ Pump(d, lanes[d], pc)
  /\ UNCHANGED <<kind, line>>

-----------------------------------------------------------------------------
(* snmp *)

Without(q, i) == SubSeq(q, 1, i - 1) \o SubSeq(q, i + 1, Len(q))

\* findIndex: the first position of the queue that holds one of these calls, or 0.
FirstOf(q, sought) ==
  LET places == {i \in DOMAIN q : q[i] \in sought}
  IN  IF places = {} THEN 0
      ELSE CHOOSE i \in places : \A j \in places : i <= j

\* Mutant: an interactive call goes to the front.
InsertedInFront(q, c) == IF c \in Background THEN Append(q, c) ELSE <<c>> \o q

\* An interactive call goes before the first background one.
Inserted(q, c) ==
  LET i == FirstOf(q, Background)
  IN  IF c \in Background \/ i = 0 THEN Append(q, c)
      ELSE SubSeq(q, 1, i - 1) \o <<c>> \o SubSeq(q, i, Len(q))

\* pumpSnmp: the first interactive call, or else the first call.
PumpSnmp(d, q, stages) ==
  LET first == FirstOf(q, Calls \ Background)
      i     == IF first # 0 THEN first ELSE 1
  IN  IF q = <<>>
      THEN /\ busy' = [busy EXCEPT ![d] = "free"]
           /\ line' = [line EXCEPT ![d] = q]
           /\ pc'   = stages
      ELSE /\ busy' = [busy EXCEPT ![d] = "running"]
           /\ line' = [line EXCEPT ![d] = Without(q, i)]
           /\ pc'   = [stages EXCEPT ![q[i]] = "served"]

\* withSnmpLock
SnmpAsk(c) ==
  /\ IsA(c, "snmp") /\ pc[c] = "idle"
  /\ LET d      == DeviceOf[c]
         q      == Inserted(line[d], c)
         stages == [pc EXCEPT ![c] = "waiting"]
     IN  IF busy[d] = "free" THEN PumpSnmp(d, q, stages)
         ELSE /\ line' = [line EXCEPT ![d] = q]
              /\ pc'   = stages
              /\ UNCHANGED busy
  /\ UNCHANGED <<kind, lanes>>

\* Mutant: the busy mark is cleared and nobody pumps.
SnmpReturnQuietly(c) ==
  /\ IsA(c, "snmp") /\ pc[c] = "settled"
  /\ pc'   = [pc EXCEPT ![c] = "idle"]
  /\ busy' = [busy EXCEPT ![DeviceOf[c]] = "free"]
  /\ UNCHANGED <<kind, lanes, line>>

\* The waiter resolves the caller's promise; its finally clears the busy mark and
\* pumps.
SnmpReturn(c) ==
  /\ IsA(c, "snmp") /\ pc[c] = "settled"
  /\ PumpSnmp(DeviceOf[c], line[DeviceOf[c]], [pc EXCEPT ![c] = "idle"])
  /\ UNCHANGED <<kind, lanes>>

-----------------------------------------------------------------------------
(* router *)

\* withDeviceLock: the call's gate becomes the end of the chain, even when the
\* chain before it has long been resolved.  There are no priorities.
RouterAsk(c) ==
  /\ IsA(c, "router") /\ pc[c] = "idle" /\ c \notin Background
  /\ line' = [line EXCEPT ![DeviceOf[c]] = Append(@, c)]
  /\ pc'   = [pc EXCEPT ![c] = "waiting"]
  /\ UNCHANGED <<kind, lanes, busy>>

\* The gates before it are open: its await is over.
RouterEnter(c) ==
  /\ IsA(c, "router") /\ pc[c] = "waiting"
  /\ Head(line[DeviceOf[c]]) = c
  /\ pc' = [pc EXCEPT ![c] = "served"]
  /\ UNCHANGED <<kind, lanes, line, busy>>

\* finally opens its gate.
RouterReturn(c) ==
  /\ IsA(c, "router") /\ pc[c] = "settled"
  /\ line' = [line EXCEPT ![DeviceOf[c]] = Tail(@)]
  /\ pc'   = [pc EXCEPT ![c] = "idle"]
  /\ UNCHANGED <<kind, lanes, busy>>

-----------------------------------------------------------------------------
\* The device answers, refuses or times out.
Settle(c) ==
  /\ pc[c] = "served"
  /\ pc' = [pc EXCEPT ![c] = "settled"]
  /\ UNCHANGED <<kind, lanes, line, busy>>

Ask(c)  == CliAsk(c) \/ SnmpAsk(c) \/ RouterAsk(c)
Work(c) == Settle(c) \/ CliReturn(c) \/ SnmpReturn(c) \/ RouterEnter(c) \/ RouterReturn(c)

Next ==
  \/ \E c \in Calls : Ask(c) \/ Work(c)
  \/ \E d \in Devices : CliResume(d)

Spec == Init /\ [][Next]_vars

\* Every call of a device ends (the sessions have timeouts) and the event loop runs
\* every continuation; nobody is obliged to make calls or to stop making them.
Fairness ==
  /\ \A c \in Calls : WF_vars(Work(c))
  /\ \A d \in Devices : WF_vars(CliResume(d))

FairSpec == Spec /\ Fairness

-----------------------------------------------------------------------------
(* Properties *)

\* Types: each lane holds only calls of its own urgency.
TypeOK ==
  /\ kind \in [Devices -> Kinds]
  /\ pc \in [Calls -> {"idle", "waiting", "served", "settled"}]
  /\ lanes \in [Devices -> [interactive: Seq(Calls \ Background), background: Seq(Background)]]
  /\ line \in [Devices -> Seq(Calls)]
  /\ busy \in [Devices -> {"free", "running", "resuming"}]

\* The queue c waits in, and the calls of its urgency that wait there before it.
QueueOf(c) == IF IsA(c, "cli") THEN lanes[DeviceOf[c]][Lane(c)] ELSE line[DeviceOf[c]]

Before(c) ==
  {e \in Calls : /\ pc[c] = "waiting" /\ pc[e] = "waiting"
                 /\ Lane(e) = Lane(c)
                 /\ \E i, j \in DOMAIN QueueOf(c) :
                      i < j /\ QueueOf(c)[i] = e /\ QueueOf(c)[j] = c}

\* A call that waits is in its queue once, and its device is at work or about to
\* continue: no call is forgotten, none is served twice and no wake-up is lost.
WaitingIsQueued ==
  \A c \in Calls : pc[c] = "waiting" =>
    /\ \E i \in DOMAIN QueueOf(c) : \A j \in DOMAIN QueueOf(c) : QueueOf(c)[j] = c <=> j = i
    /\ ~IsA(c, "router") => busy[DeviceOf[c]] # "free"

Turns == INSTANCE DeviceTurns
           WITH stage <- [c \in Calls |-> IF pc[c] = "settled" THEN "idle" ELSE pc[c]],
                ahead <- [c \in Calls |-> Before(c)]

\* The three kinds of queue implement DeviceTurns: one call at a time, urgent ones
\* first, otherwise in the order of the calls.
TakesTurns == Turns!Spec

\* An urgent call is served, however many others keep coming.
UrgentServed ==
  \A c \in Calls \ Background : pc[c] = "waiting" ~> pc[c] = "served"

\* A background call is served unless urgent calls wait for its device over and over.
BackgroundServed ==
  \A c \in Background :
    \/ []<>(\E e \in Calls \ Background : DeviceOf[e] = DeviceOf[c] /\ pc[e] = "waiting")
    \/ pc[c] = "waiting" ~> pc[c] = "served"
=============================================================================
