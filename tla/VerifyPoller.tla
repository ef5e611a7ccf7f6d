---------------------------- MODULE VerifyPoller ----------------------------
(***************************************************************************)
(* The poller of the post-provisioning check                               *)
(* (onu-post-provision-verify-poll.service.ts): ticks that must not        *)
(* overlap, raced against a timeout, each visiting the active tenants and  *)
(* the due ONUs of each with bounded concurrency (mapWithConcurrency).     *)
(*                                                                         *)
(* What a visit does to its ONU is OnuVerify; here a visit waits for the   *)
(* ONU's lock and ends.  A tick that lost its race keeps running: nothing  *)
(* cancels it.                                                             *)
(***************************************************************************)
EXTENDS Naturals, Sequences, FiniteSets

CONSTANTS
  Tenants,    \* the active tenants
  OnusOf,     \* the ONUs of each tenant
  TenantCap,  \* VERIFY_MAX_CONCURRENCY_PER_TENANT
  GlobalCap,  \* VERIFY_MAX_GLOBAL_CONCURRENCY
  MayTimeOut, \* whether a tick may outlast VERIFY_POLL_TICK_TIMEOUT_MS
  Hung,       \* ONUs whose visits never settle
  Ticks,      \* bound: the ticks that may be under way at once
  NoTick

Onus == UNION {OnusOf[n] : n \in Tenants}

ASSUME VerifyPollerAssumption ==
  /\ \A n, m \in Tenants : n # m => OnusOf[n] \cap OnusOf[m] = {}
  /\ TenantCap \in Nat \ {0} /\ GlobalCap \in Nat
  /\ MayTimeOut \in BOOLEAN
  /\ Hung \subseteq Onus
  /\ NoTick \notin Ticks

VARIABLES
  running,  \* the flag that keeps ticks apart
  racing,   \* the tick that tick() awaits
  todo,     \* by tick: the tenants no runner has taken yet
  tenant,   \* by tick and tenant: whether tickSchema is listing or mapping
  due,      \* by tick: the listed ONUs no runner has taken yet
  queue,    \* by ONU: the ticks whose visit holds (head) or awaits its lock
  owed      \* the rows in test whose interval has passed

vars == <<running, racing, todo, tenant, due, queue, owed>>

\* Types: runners take only ONUs and tenants that a tick listed.
TypeOK ==
  /\ running \in BOOLEAN /\ racing \in Ticks \cup {NoTick}
  /\ todo \in [Ticks -> SUBSET Tenants]
  /\ tenant \in [Ticks -> [Tenants -> {"none", "listing", "mapping"}]]
  /\ due \in [Ticks -> SUBSET Onus]
  /\ queue \in [Onus -> Seq(Ticks)]
  /\ owed \subseteq Onus

Init ==
  /\ running = FALSE /\ racing = NoTick
  /\ todo = [k \in Ticks |-> {}]
  /\ tenant = [k \in Ticks |-> [n \in Tenants |-> "none"]]
  /\ due = [k \in Ticks |-> {}]
  /\ queue = [o \in Onus |-> <<>>]
  /\ owed = {}

-----------------------------------------------------------------------------
(* Who is at work *)

Visits(k, o) == \E i \in DOMAIN queue[o] : queue[o][i] = k

\* The runners of a tick at work on a tenant's ONUs, and on tenants.
VisitsOf(k, n)    == {o \in OnusOf[n] : Visits(k, o)}
BusyTenants(k)    == {n \in Tenants : tenant[k][n] # "none"}
UnderWay(k)       == todo[k] # {} \/ BusyTenants(k) # {}

OnuRunnerFree(k, n) == Cardinality(VisitsOf(k, n)) < TenantCap

\* Tenants in parallel: what keeps all their ONUs under the global cap.
TenantRunners == IF GlobalCap < TenantCap THEN 1 ELSE GlobalCap \div TenantCap

-----------------------------------------------------------------------------
(* tick *)

MayTick == ~running

\* The timer fires; a tick with no tenant is over at once.
Tick(k) ==
  /\ MayTick /\ ~UnderWay(k) /\ Tenants # {}
  /\ running' = TRUE /\ racing' = k
  /\ todo' = [todo EXCEPT ![k] = Tenants]
  /\ UNCHANGED <<tenant, due, queue, owed>>

\* Mutant: the flag is cleared only when the tick settles.
FlagStaysOnTimeout(k) == FALSE

\* The timeout wins the race: tick() ends and clears the flag; the tick goes on.
\* Bound: only while another tick can begin.
TimesOut(k) ==
  /\ MayTimeOut /\ racing = k
  /\ \E other \in Ticks : ~UnderWay(other)
  /\ running' = FALSE /\ racing' = NoTick
  /\ UNCHANGED <<todo, tenant, due, queue, owed>>

\* Mutant: a tick that lost its race clears the flag too when it settles.
SettlesAlways(k, tenants) ==
  IF todo[k] = {} /\ \A n \in Tenants : tenants[n] = "none"
  THEN running' = FALSE /\ UNCHANGED racing
  ELSE UNCHANGED <<running, racing>>

\* What the end of a tenant's visits does to the race: the last one ends the tick.
Settles(k, tenants) ==
  IF racing = k /\ todo[k] = {} /\ \A n \in Tenants : tenants[n] = "none"
  THEN running' = FALSE /\ racing' = NoTick
  ELSE UNCHANGED <<running, racing>>

-----------------------------------------------------------------------------
(* runTick and tickSchema *)

TakeTenant(k, n) ==
  /\ n \in todo[k] /\ Cardinality(BusyTenants(k)) < TenantRunners
  /\ todo' = [todo EXCEPT ![k] = @ \ {n}]
  /\ tenant' = [tenant EXCEPT ![k][n] = "listing"]
  /\ UNCHANGED <<running, racing, due, queue, owed>>

\* listDue
ListDue(k, n) ==
  /\ tenant[k][n] = "listing"
  /\ due' = [due EXCEPT ![k] = @ \cup (owed \cap OnusOf[n])]
  /\ tenant' = [tenant EXCEPT ![k][n] = "mapping"]
  /\ UNCHANGED <<running, racing, todo, queue, owed>>

\* Mutant: the rejection is kept with the tenant.
ListFailsForGood(k, n) ==
  /\ tenant[k][n] = "listing"
  /\ tenant' = [tenant EXCEPT ![k][n] = "rejected"]
  /\ UNCHANGED <<running, racing, todo, due, queue, owed>>

\* listDue rejects: the tenant's result is recorded and its runner goes on.
ListFails(k, n) ==
  /\ tenant[k][n] = "listing"
  /\ tenant' = [tenant EXCEPT ![k][n] = "none"]
  /\ Settles(k, tenant'[k])
  /\ UNCHANGED <<todo, due, queue, owed>>

\* Mutant: the index moves on only after the await.
TakeOnuAgain(k, n, o) ==
  /\ o \in due[k] \cap OnusOf[n] /\ OnuRunnerFree(k, n) /\ Len(queue[o]) < 3
  /\ queue' = [queue EXCEPT ![o] = Append(@, k)]
  /\ UNCHANGED <<running, racing, todo, tenant, due, owed>>

\* A runner takes an ONU: its visit joins the ONU's lock chain.
TakeOnu(k, n, o) ==
  /\ o \in due[k] \cap OnusOf[n] /\ OnuRunnerFree(k, n)
  /\ due' = [due EXCEPT ![k] = @ \ {o}]
  /\ queue' = [queue EXCEPT ![o] = Append(@, k)]
  /\ UNCHANGED <<running, racing, todo, tenant, owed>>

\* The visit that holds the lock ends, or rejects; its row is not due for an
\* interval, or is closed.
VisitEnds(o) ==
  /\ queue[o] # <<>> /\ o \notin Hung
  /\ queue' = [queue EXCEPT ![o] = Tail(@)]
  /\ owed' = owed \ {o}
  /\ UNCHANGED <<running, racing, todo, tenant, due>>

TenantEnds(k, n) ==
  /\ tenant[k][n] = "mapping" /\ due[k] \cap OnusOf[n] = {} /\ VisitsOf(k, n) = {}
  /\ tenant' = [tenant EXCEPT ![k][n] = "none"]
  /\ Settles(k, tenant'[k])
  /\ UNCHANGED <<todo, due, queue, owed>>

\* The queue q without the visit of tick k.
Forgets(q, k) ==
  IF \E i \in DOMAIN q : q[i] = k
  THEN LET at == CHOOSE i \in DOMAIN q : q[i] = k
       IN [i \in 1 .. Len(q) - 1 |-> IF i < at THEN q[i] ELSE q[i + 1]]
  ELSE q

\* Bound: a tick that lost its race and has only visits left that will never settle
\* changes nothing any more; its name is used again and its visits leave the queues
\* of the hung ONUs, whose heads stay stuck all the same.
ForgetHungTick(k) ==
  /\ racing # k /\ UnderWay(k) /\ todo[k] = {} /\ due[k] = {}
  /\ \A n \in Tenants : /\ tenant[k][n] # "listing"
                        /\ VisitsOf(k, n) \subseteq Hung
                        /\ tenant[k][n] = "mapping" => VisitsOf(k, n) # {}
  /\ tenant' = [tenant EXCEPT ![k] = [n \in Tenants |-> "none"]]
  /\ queue' = [o \in Onus |-> IF o \in Hung THEN Forgets(queue[o], k) ELSE queue[o]]
  /\ UNCHANGED <<running, racing, todo, due, owed>>

\* A cycle begins or an interval passes.
BecomesDue(o) ==
  /\ o \notin owed
  /\ owed' = owed \cup {o}
  /\ UNCHANGED <<running, racing, todo, tenant, due, queue>>

TickStep(k) ==
  \/ \E n \in Tenants : \/ TakeTenant(k, n) \/ ListDue(k, n) \/ TenantEnds(k, n)
                        \/ \E o \in OnusOf[n] : TakeOnu(k, n, o)
  \/ ForgetHungTick(k)

Next ==
  \/ \E k \in Ticks : Tick(k) \/ TimesOut(k) \/ TickStep(k)
  \/ \E k \in Ticks, n \in Tenants : ListFails(k, n)
  \/ \E o \in Onus : VisitEnds(o) \/ BecomesDue(o)

Spec == Init /\ [][Next]_vars

\* The timer fires, runners take the next item, visits that can settle do, a tick
\* that goes on for ever loses its race, and listDue does not reject every time.
Fairness ==
  /\ WF_vars(\E k \in Ticks : Tick(k))
  /\ \A k \in Ticks : WF_vars(TickStep(k)) /\ WF_vars(TimesOut(k))
  /\ \A o \in Onus : WF_vars(VisitEnds(o))
  /\ \A k \in Ticks, n \in Tenants : SF_vars(ListDue(k, n))

FairSpec == Spec /\ Fairness
-----------------------------------------------------------------------------
(* Properties *)

TicksUnderWay == Cardinality({k \in Ticks : UnderWay(k)})

\* "un techo global de 40": the ONUs being visited, of all tenants, are no more than
\* that for each tick under way (a tick that lost its race keeps its runners).
GlobalCapKept == Cardinality({o \in Onus : queue[o] # <<>>}) <= GlobalCap * TicksUnderWay

\* The flag is up exactly while tick() awaits a tick that is under way: it is never
\* left up with nobody to clear it, nor cleared by a tick that lost its race.
FlagFollowsRace == /\ running = (racing # NoTick)
                   /\ racing # NoTick => UnderWay(racing)

\* A tick visits an ONU once, even when earlier ticks still wait for its lock.
VisitedOncePerTick ==
  \A o \in Onus : \A i, j \in DOMAIN queue[o] : queue[o][i] = queue[o][j] => i = j

\* An ONU whose visits never settle does not keep the others from being visited.
OthersAreVisited == \A o \in Onus \ Hung : o \in owed ~> o \notin owed
=============================================================================
