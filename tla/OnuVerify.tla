------------------------------ MODULE OnuVerify ------------------------------
(***************************************************************************)
(* The silent post-provisioning check of one tenant's ONUs                 *)
(* (onu-post-provision-verify.service.ts).                                  *)
(*                                                                         *)
(* A row of the onus table carries the verify columns.  Several async      *)
(* calls of the API process work on it: the poller, the Check ONU button,  *)
(* the wizard's kick, a forced resync, the start of a cycle -- all behind  *)
(* a per-ONU promise chain -- and, outside that chain, the apply, the CRM  *)
(* plan change, the DBA batch and the migrated recheck.  Every call reads  *)
(* the row, awaits something, and saves the copy it read: a save writes    *)
(* the whole copy, so it also puts back what others changed meanwhile.     *)
(*                                                                         *)
(* Time is kept as ages.  One unit is VERIFY_INTERVAL_MS (3 minutes, also  *)
(* the poller's tick timeout); an age saturates at Window.                 *)
(***************************************************************************)
EXTENDS Naturals, Sequences, FiniteSets

CONSTANTS
  Onus,         \* the ONUs of the tenant; at most VERIFY_MAX_CONCURRENCY_PER_TENANT
  UserTasks,    \* async calls made for HTTP requests
  PollTasks,    \* async calls made by the poller
  Requests,     \* the requests users may make; "restart": the process may restart
  HealMax,      \* VERIFY_HEAL_MAX_ATTEMPTS
  Window,       \* VERIFY_WINDOW_MS, in units of VERIFY_INTERVAL_MS
  NeedsTraffic, \* the ONUs whose driver requires the traffic check
  MayThrow,     \* the calls of which a device or database access may reject
  MaxRequests,  \* bound: requests and restarts in a behaviour
  MaxDied,      \* bound: poller visits rejected after their heal, as died counts them
  Never         \* the null timestamp

LockedKinds   == {"start", "manual", "kick", "force", "auto"}
UnlockedKinds == {"apply", "plan", "dbasync", "recheck"}

ASSUME OnuVerifyAssumption ==
  /\ Onus # {}
  /\ UserTasks \cap PollTasks = {}
  /\ Requests \subseteq ((LockedKinds \cup UnlockedKinds) \ {"auto"}) \cup {"restart"}
  /\ HealMax \in Nat \ {0}
  /\ Window \in Nat \ {0}
  /\ NeedsTraffic \subseteq Onus
  /\ MayThrow \subseteq UserTasks \cup PollTasks
  /\ MaxRequests \in Nat /\ MaxDied \in Nat
  /\ Never \notin Nat

VARIABLES
  db,        \* the verify columns of each ONU's row
  chain,     \* verifyChains: the calls holding (head) or awaiting each ONU's lock
  pc,        \* where each call is
  job,       \* what each call does, to which ONU, and its current round
  copy,      \* the entity each call has in memory
  inner,     \* the entity an onProgress callback has in memory
  look,      \* the local results of executeCheck
  pollAge,   \* how long ago each poller call's tick began, saturating at 1
  cycle,     \* history: verify cycles begun on each ONU
  heals,     \* history: healing poller visits since anyone else wrote the row
  died,      \* history: those of them that never came to their save
  crossed,   \* history: whether the row was saved outside the lock since it was last taken
  requests   \* requests and restarts so far

vars == <<db, chain, pc, job, copy, inner, look, pollAge, cycle, heals, died, crossed, requests>>

Tasks == UserTasks \cup PollTasks

-----------------------------------------------------------------------------
(* Rows, local state *)

Status   == {"idle", "test", "ok", "fail", "check"}
Closed   == {"ok", "fail", "check"}
Age      == (0 .. Window) \cup {Never}
Evidence == {"none", "essentials", "traffic"}

Row == [status: Status, attempt: Nat, started: Age, checked: Age,
        plan: {"none", "matched", "mismatched"}, wan: BOOLEAN]

BlankRow == [status |-> "idle", attempt |-> 0, started |-> Never,
             checked |-> Never, plan |-> "none", wan |-> FALSE]

Job == [kind: LockedKinds \cup UnlockedKinds \cup {"none"},
        onu: Onus, round: 0 .. HealMax + 1]

Look == [attempt: Nat, canHeal: BOOLEAN, plan: {"none", "matched", "mismatched"},
         irrecoverable: BOOLEAN, healed: BOOLEAN, evidence: Evidence,
         next: Status, cycle: Nat]

IdleJob == [kind |-> "none", onu |-> CHOOSE o \in Onus : TRUE, round |-> 0]

BlankLook == [attempt |-> 0, canHeal |-> FALSE, plan |-> "none",
              irrecoverable |-> FALSE, healed |-> FALSE, evidence |-> "none",
              next |-> "idle", cycle |-> 0]

Older(age) == CASE age = Never -> Never
                [] age # Never /\ age < Window -> age + 1
                [] OTHER -> age

OlderRow(row) == [row EXCEPT !.started = Older(@), !.checked = Older(@)]

-----------------------------------------------------------------------------
(* The pure decisions *)

\* shouldRunVerifyTick: in test and not checked within the interval.
Due(row) == row.status = "test" /\ (row.checked = Never \/ row.checked >= 1)

\* isVerifyWindowExpired: a row without a start counts as expired.
WindowExpired(row) == row.started = Never \/ row.started >= Window

\* Mutant: a heal does not hold the window open.
ClosesWindowAfterHeal(kind, row, healed) ==
  kind # "kick" /\ (kind \in {"manual", "force"} \/ WindowExpired(row))

\* The window as this kind of visit sees it: a kick never closes by window, a
\* manual or forced check always does, the poller only after a visit without heal.
ClosesWindow(kind, row, healed) ==
  CASE kind = "kick" -> FALSE
    [] kind \in {"manual", "force"} -> TRUE
    [] OTHER -> WindowExpired(row) /\ ~healed

\* decideVerifyOutcome, preceded by executeCheck's short cut for a bad plan.
Outcome(o, found, windowClosed) ==
  LET essentials == found.evidence # "none"
      enough == \/ o \notin NeedsTraffic
                \/ found.evidence = "traffic"
                \/ windowClosed
  IN  CASE found.plan = "mismatched" -> "check"
        [] found.plan # "mismatched" /\ found.irrecoverable -> "fail"
        [] OTHER -> IF essentials /\ enough THEN "ok"
                    ELSE IF windowClosed THEN "fail" ELSE "test"

\* needsMigratedHealthBackfill of an ONU migrated before the behaviour began.
NeedsBackfill(row) == row.status \notin Closed \/ row.checked = Never

\* needsDbaProfileCheck of an ONU whose service has a speed plan.
NeedsDbaCheck(row) == row.status = "check" \/ row.plan # "matched"

-----------------------------------------------------------------------------
(* withOnuVerifyLock *)

\* Mutant: the call joins the chain and does not await the one before it.
EntersAtOnce(t) == \E i \in DOMAIN chain[job[t].onu] : chain[job[t].onu][i] = t

HasLock(t) == chain[job[t].onu] # <<>> /\ Head(chain[job[t].onu]) = t

\* The call settles: its local state is gone.
Forget(t) ==
  /\ pc'    = [pc EXCEPT ![t] = "idle"]
  /\ job'   = [job EXCEPT ![t] = IdleJob]
  /\ copy'  = [copy EXCEPT ![t] = BlankRow]
  /\ inner' = [inner EXCEPT ![t] = BlankRow]
  /\ look'  = [look EXCEPT ![t] = BlankLook]

Release(t) == /\ chain' = [chain EXCEPT ![job[t].onu] = Tail(@)]
              /\ Forget(t)

-----------------------------------------------------------------------------
(* Histories *)

\* Anyone but the poller saving the row starts a new count of its heals.
Store(t, row) ==
  LET o == job[t].onu IN
  /\ db'    = [db EXCEPT ![o] = row]
  /\ heals' = IF job[t].kind = "auto" THEN heals ELSE [heals EXCEPT ![o] = 0]
  /\ died'  = IF job[t].kind = "auto" THEN died ELSE [died EXCEPT ![o] = 0]

\* An unlocked call saves the row.
StoreAcross(t, row) ==
  /\ Store(t, row)
  /\ crossed' = [crossed EXCEPT ![job[t].onu] = TRUE]

\* A visit writes to a device: the first heal of a poller visit counts it, up to one more
\* than HealBudget allows.
Heals(t, now) ==
  LET o == job[t].onu IN
  /\ now => look[t].canHeal
  /\ heals' = IF /\ now /\ ~look[t].healed /\ job[t].kind = "auto"
                 /\ heals[o] <= HealMax + died[o]
              THEN [heals EXCEPT ![o] = @ + 1] ELSE heals

\* The lock is taken.
Enters(t) == crossed' = [crossed EXCEPT ![job[t].onu] = FALSE]

\* Call t visits o for the poller and has healed.
Healed(t, o) == job[t].onu = o /\ job[t].kind = "auto" /\ look[t].healed

-----------------------------------------------------------------------------
Init ==
  /\ db       \in [Onus -> {[BlankRow EXCEPT !.wan = w] : w \in BOOLEAN}]
  /\ chain    = [o \in Onus |-> <<>>]
  /\ pc       = [t \in Tasks |-> "idle"]
  /\ job      = [t \in Tasks |-> IdleJob]
  /\ copy     = [t \in Tasks |-> BlankRow]
  /\ inner    = [t \in Tasks |-> BlankRow]
  /\ look     = [t \in Tasks |-> BlankLook]
  /\ pollAge  = [t \in PollTasks |-> 0]
  /\ cycle    = [o \in Onus |-> 0]
  /\ heals    = [o \in Onus |-> 0]
  /\ died     = [o \in Onus |-> 0]
  /\ crossed  = [o \in Onus |-> FALSE]
  /\ requests = 0

Goto(t, label) == pc' = [pc EXCEPT ![t] = label]
Read(t)        == copy' = [copy EXCEPT ![t] = db[job[t].onu]]

-----------------------------------------------------------------------------
(* Calls arrive *)

\* A request behind the lock joins the ONU's chain.
RequestLocked(t, o, kind) ==
  /\ pc[t] = "idle" /\ requests < MaxRequests
  /\ kind \in LockedKinds \cap Requests
  /\ requests' = requests + 1
  /\ Goto(t, "queued")
  /\ job' = [job EXCEPT ![t] = [kind |-> kind, onu |-> o, round |-> 1]]
  /\ chain' = [chain EXCEPT ![o] = Append(@, t)]
  /\ UNCHANGED <<db, copy, inner, look, pollAge, cycle, heals, died, crossed>>

\* A request that goes straight to the row.  syncDbaAll lists the ONUs that need
\* it and drops a second batch while one runs; recheckMigrated lists pending ones.
RequestUnlocked(t, o, kind) ==
  /\ pc[t] = "idle" /\ requests < MaxRequests
  /\ kind \in UnlockedKinds \cap Requests
  /\ kind = "dbasync" => /\ NeedsDbaCheck(db[o])
                         /\ \A u \in Tasks : job[u].kind # "dbasync"
  /\ requests' = requests + 1
  /\ Goto(t, IF kind = "apply" THEN "assign" ELSE "device")
  /\ job' = [job EXCEPT ![t] = [kind |-> kind, onu |-> o, round |-> 1]]
  /\ UNCHANGED <<db, chain, copy, inner, look, pollAge, cycle, heals, died, crossed>>

\* A poller tick: only when the calls of the previous one have settled or its
\* race against VERIFY_POLL_TICK_TIMEOUT_MS is lost.
PollTick ==
  /\ \A p \in PollTasks : pc[p] # "idle" => pollAge[p] = 1
  /\ LET due  == {o \in Onus : Due(db[o])}
         free == {p \in PollTasks : pc[p] = "idle"}
     IN  /\ due # {}
         /\ \E visit \in [due -> free] :
              LET called == {visit[o] : o \in due} IN
              /\ \A o, q \in due : visit[o] = visit[q] => o = q
              /\ pc' = [t \in Tasks |-> IF t \in called THEN "queued" ELSE pc[t]]
              /\ job' = [t \in Tasks |->
                           IF t \in called
                           THEN [kind |-> "auto", round |-> 1,
                                 onu |-> CHOOSE o \in due : visit[o] = t]
                           ELSE job[t]]
              /\ chain' = [o \in Onus |-> IF o \in due THEN Append(chain[o], visit[o])
                                          ELSE chain[o]]
              /\ pollAge' = [p \in PollTasks |-> IF p \in called THEN 0 ELSE pollAge[p]]
  /\ UNCHANGED <<db, copy, inner, look, cycle, heals, died, crossed, requests>>

-----------------------------------------------------------------------------
(* start *)

StartRead(t) ==
  /\ pc[t] = "queued" /\ job[t].kind = "start" /\ HasLock(t)
  /\ Enters(t) /\ Read(t) /\ Goto(t, "begin")
  /\ UNCHANGED <<db, chain, job, inner, look, pollAge, cycle, heals, died, requests>>

Fresh(row) == [row EXCEPT !.status = "test", !.started = 0, !.checked = Never,
                          !.attempt = 0, !.plan = "none"]

StartSave(t) ==
  /\ pc[t] = "begin"
  /\ Store(t, Fresh(copy[t]))
  /\ cycle' = [cycle EXCEPT ![job[t].onu] = @ + 1]
  /\ Release(t)
  /\ UNCHANGED <<pollAge, crossed, requests>>

-----------------------------------------------------------------------------
(* runOnuHealthPass: the poller's visit and the forced one *)

\* Mutant: the row is not looked at again once the lock is held.
SkipsNothing(kind, row) == FALSE

\* shouldSkipHealthPass: only a forced pass reopens a closed row.
SkipsHealthPass(kind, row) == kind = "auto" /\ row.status \in Closed

HealthPassRead(t) ==
  /\ pc[t] = "queued" /\ job[t].kind \in {"auto", "force"} /\ HasLock(t)
  /\ LET row == db[job[t].onu] IN
     \/ /\ SkipsHealthPass(job[t].kind, row)
        /\ Release(t)
        /\ UNCHANGED crossed
     \/ /\ ~SkipsHealthPass(job[t].kind, row)
        /\ Enters(t) /\ Read(t)
        /\ Goto(t, IF row.status = "test" THEN "visit" ELSE "retest")
        /\ UNCHANGED <<chain, job, inner, look>>
  /\ UNCHANGED <<db, pollAge, cycle, heals, died, requests>>

HealthPassRetest(t) ==
  /\ pc[t] = "retest"
  /\ Store(t, [copy[t] EXCEPT !.status = "test",
                              !.started = IF @ = Never THEN 0 ELSE @,
                              !.attempt = IF job[t].kind = "force" THEN 0 ELSE @])
  /\ Goto(t, "visit")
  /\ UNCHANGED <<chain, job, copy, inner, look, pollAge, cycle, crossed, requests>>

-----------------------------------------------------------------------------
(* executeCheck *)

Repeats(t) == job[t].kind \in {"manual", "kick"}

AtVisit(t) == \/ pc[t] = "visit"
              \/ pc[t] = "queued" /\ Repeats(t) /\ HasLock(t)

\* Mutant: a poller visit does not count itself.
AttemptStays(t, row) ==
  CASE Repeats(t) -> job[t].round
    [] job[t].kind = "force" -> 1
    [] OTHER -> row.attempt

\* Which attempt this visit is: a loop's round, 1 if forced, else one more than stored.
AttemptOf(t, row) ==
  CASE Repeats(t) -> IF job[t].round <= HealMax THEN job[t].round ELSE HealMax
    [] job[t].kind = "force" -> 1
    [] OTHER -> row.attempt + 1

\* canHeal: the loop's last reading does not heal, nor a fourth attempt, nor an
\* OLT in technician mode.
CheckLoad(t) ==
  /\ AtVisit(t)
  /\ LET attempt == AttemptOf(t, db[job[t].onu]) IN
     \E technicianMode \in BOOLEAN :
       look' = [look EXCEPT ![t] =
                 [BlankLook EXCEPT !.attempt = attempt,
                    !.canHeal = /\ attempt <= HealMax
                                /\ Repeats(t) => job[t].round <= HealMax
                                /\ ~technicianMode,
                    !.cycle = cycle[job[t].onu]]]
  /\ IF pc[t] = "queued" THEN Enters(t) ELSE UNCHANGED crossed
  /\ Read(t) /\ Goto(t, "plan")
  /\ UNCHANGED <<db, chain, job, inner, pollAge, cycle, heals, died, requests>>

\* syncInternetDba (a rejection is caught and counts as a mismatch), then the
\* two cases in which nothing else is probed.
CheckPlan(t) ==
  /\ pc[t] = "plan"
  /\ \E matched, healed \in BOOLEAN :
       /\ Heals(t, healed)
       /\ look' = [look EXCEPT ![t] =
                    [@ EXCEPT !.plan = IF matched THEN "matched" ELSE "mismatched",
                              !.healed = healed,
                              !.irrecoverable = matched /\ ~copy[t].wan]]
       /\ Goto(t, IF matched /\ copy[t].wan THEN "probe" ELSE "decide")
  /\ UNCHANGED <<db, chain, job, copy, inner, pollAge, cycle, died, crossed, requests>>

\* Credentials, ACS and uplink are probed and healed; a failed probe may still
\* ask for the WAN to be pushed again.
CheckProbe(t) ==
  /\ pc[t] = "probe"
  /\ \E evidence \in Evidence, healed, repush \in BOOLEAN :
       /\ repush => look[t].canHeal
       /\ Heals(t, healed)
       /\ look' = [look EXCEPT ![t].evidence = evidence,
                               ![t].healed = @ \/ healed]
       /\ Goto(t, IF repush THEN "repush" ELSE "decide")
  /\ UNCHANGED <<db, chain, job, copy, inner, pollAge, cycle, died, crossed, requests>>

\* repushWanForVerify reads the row once more; without a model heal it is done.
RepushRead(t) ==
  /\ pc[t] = "repush"
  /\ \/ Read(t) /\ \E label \in {"adopt", "heal"} : Goto(t, label)
     \/ Goto(t, "refresh") /\ UNCHANGED copy
  /\ UNCHANGED <<db, chain, job, inner, look, pollAge, cycle, heals, died, crossed, requests>>

\* adoptWanIpIfFree saves the entity repushWanForVerify read, with the address the
\* ACS reports ...
AdoptSave(t) ==
  /\ pc[t] = "adopt"
  /\ Store(t, copy[t]) /\ Goto(t, "reread")
  /\ UNCHANGED <<chain, job, copy, inner, look, pollAge, cycle, crossed, requests>>

\* ... and the entity is read again.
AdoptReread(t) ==
  /\ pc[t] = "reread"
  /\ Read(t) /\ \E label \in {"heal", "refresh"} : Goto(t, label)
  /\ UNCHANGED <<db, chain, job, inner, look, pollAge, cycle, heals, died, crossed, requests>>

\* The model handler reports progress (onProgress): a read and a save of its own.
\* One report stands for many.
ProgressRead(t) ==
  /\ pc[t] = "heal"
  /\ inner' = [inner EXCEPT ![t] = db[job[t].onu]]
  /\ Goto(t, "report")
  /\ UNCHANGED <<db, chain, job, copy, look, pollAge, cycle, heals, died, crossed, requests>>

ProgressSave(t) ==
  /\ pc[t] = "report"
  /\ Store(t, [inner[t] EXCEPT !.status = IF @ = "idle" THEN "test" ELSE @,
                               !.started = IF @ = Never THEN 0 ELSE @])
  /\ Goto(t, "healed")
  /\ UNCHANGED <<chain, job, copy, inner, look, pollAge, cycle, crossed, requests>>

\* The model handler reboots the ONU (rebootOnuWithCap): it too reads the row, waits
\* for the OLT and saves the row it read.
RebootSave(t) ==
  /\ pc[t] = "report"
  /\ Store(t, inner[t])
  /\ Goto(t, "healed")
  /\ UNCHANGED <<chain, job, copy, inner, look, pollAge, cycle, crossed, requests>>

\* The handler returns; when it reports progress, repushWanForVerify saves the
\* entity it read before the heal.
HealReturns(t) ==
  /\ pc[t] \in {"heal", "healed"}
  /\ \E noted, progress \in BOOLEAN :
       /\ Heals(t, noted)
       /\ look' = [look EXCEPT ![t].healed = @ \/ noted]
       /\ db' = IF progress THEN [db EXCEPT ![job[t].onu] = copy[t]] ELSE db
  /\ Goto(t, "refresh")
  /\ UNCHANGED <<chain, job, copy, inner, pollAge, cycle, died, crossed, requests>>

CheckRefresh(t) ==
  /\ pc[t] = "refresh"
  /\ Read(t) /\ Goto(t, "decide")
  /\ UNCHANGED <<db, chain, job, inner, look, pollAge, cycle, heals, died, crossed, requests>>

\* The verdict is taken with the window of the entity in hand; the row is read again.
CheckDecide(t) ==
  /\ pc[t] = "decide"
  /\ look' = [look EXCEPT ![t].next =
                Outcome(job[t].onu, look[t],
                        ClosesWindow(job[t].kind, copy[t], look[t].healed))]
  /\ Read(t) /\ Goto(t, "save")
  /\ UNCHANGED <<db, chain, job, inner, pollAge, cycle, heals, died, crossed, requests>>

\* Mutant: no verdict is sticky.
KeepsNothing(t) == FALSE

\* An ok already in the row is kept (sticky) unless the check is manual or the
\* failure irrecoverable.
KeepsOk(t) == /\ copy[t].status = "ok" /\ look[t].next # "ok"
              /\ ~look[t].irrecoverable
              /\ job[t].kind \notin {"manual", "force"}

\* What the visit leaves in the row.
Concluded(t) ==
  LET noted == [copy[t] EXCEPT !.plan = look[t].plan, !.checked = 0]
  IN  IF KeepsOk(t) THEN noted
      ELSE [noted EXCEPT !.attempt = look[t].attempt, !.status = look[t].next,
                         !.started = IF /\ job[t].kind \in {"manual", "force"}
                                        /\ @ = Never
                                     THEN 0 ELSE @]

\* Mutant: one round too many.
GoesRoundOnceMore(t) ==
  Repeats(t) /\ Concluded(t).status = "test" /\ job[t].round <= HealMax + 1

\* runManual and runKick go round while the row stays in test.
GoesRound(t) ==
  Repeats(t) /\ Concluded(t).status = "test" /\ job[t].round <= HealMax

\* The save ends executeCheck.
CheckSave(t) ==
  /\ pc[t] = "save"
  /\ Store(t, Concluded(t))
  /\ \/ /\ GoesRound(t)
        /\ job' = [job EXCEPT ![t].round = @ + 1]
        /\ Goto(t, "visit")
        /\ UNCHANGED <<chain, copy, inner, look>>
     \/ ~GoesRound(t) /\ Release(t)
  /\ UNCHANGED <<pollAge, cycle, crossed, requests>>

-----------------------------------------------------------------------------
(* Calls outside the chain *)

\* networkVlansAssign reads the row and looks for an address.
ApplyAssign(t) ==
  /\ pc[t] = "assign"
  /\ Read(t) /\ Goto(t, "assigned")
  /\ UNCHANGED <<db, chain, job, inner, look, pollAge, cycle, heals, died, crossed, requests>>

\* assignWanIp or releaseWanIp save that copy with or without a WAN address.
AssignSave(t) ==
  /\ pc[t] = "assigned"
  /\ \E wan \in BOOLEAN : StoreAcross(t, [copy[t] EXCEPT !.wan = wan])
  /\ Goto(t, "device")
  /\ UNCHANGED <<chain, job, copy, inner, look, pollAge, cycle, requests>>

\* The row is read once the device work is done; an apply without a WAN address
\* and a recheck of an ONU that needs none stop here.
UnlockedRead(t) ==
  /\ pc[t] = "device"
  /\ LET row  == db[job[t].onu]
         stop == \/ job[t].kind = "apply" /\ ~row.wan
                 \/ job[t].kind = "recheck" /\ ~NeedsBackfill(row)
     IN  \/ stop /\ Forget(t)
         \/ /\ ~stop /\ Read(t) /\ Goto(t, "amend")
            /\ IF job[t].kind \in {"plan", "dbasync"}
               THEN \E plan \in {"matched", "mismatched"} :
                      look' = [look EXCEPT ![t].plan = plan]
               ELSE UNCHANGED look
            /\ UNCHANGED <<job, inner>>
  /\ UNCHANGED <<db, chain, pollAge, cycle, heals, died, crossed, requests>>

\* markPostProvisionVerify: a new cycle.
MarkSave(t) ==
  /\ pc[t] = "amend" /\ job[t].kind = "apply"
  /\ StoreAcross(t, Fresh(copy[t]))
  /\ cycle' = [cycle EXCEPT ![job[t].onu] = @ + 1]
  /\ Forget(t)
  /\ UNCHANGED <<chain, pollAge, requests>>

\* updateClientService after a change of plan or ONU.
PlanSave(t) ==
  /\ pc[t] = "amend" /\ job[t].kind = "plan"
  /\ StoreAcross(t, [copy[t] EXCEPT
                 !.status = IF look[t].plan = "matched" THEN "idle" ELSE "check",
                 !.attempt = 0])
  /\ Forget(t)
  /\ UNCHANGED <<chain, pollAge, cycle, requests>>

\* persistDbaPlanResult
DbaSave(t) ==
  /\ pc[t] = "amend" /\ job[t].kind = "dbasync"
  /\ LET matched == look[t].plan = "matched" IN
     StoreAcross(t, [copy[t] EXCEPT
                 !.plan = look[t].plan, !.checked = 0,
                 !.status = CASE matched /\ @ = "check" -> "ok"
                              [] ~matched /\ @ = "ok" -> "check"
                              [] OTHER -> @])
  /\ Forget(t)
  /\ UNCHANGED <<chain, pollAge, cycle, requests>>

\* recheckMigrated parks the row in idle and then makes a forced pass.
RecheckSave(t) ==
  /\ pc[t] = "amend" /\ job[t].kind = "recheck"
  /\ StoreAcross(t, [copy[t] EXCEPT !.status = "idle", !.attempt = 0])
  /\ Goto(t, "queued")
  /\ job' = [job EXCEPT ![t].kind = "force"]
  /\ chain' = [chain EXCEPT ![job[t].onu] = Append(@, t)]
  /\ UNCHANGED <<copy, inner, look, pollAge, cycle, requests>>

-----------------------------------------------------------------------------
(* Faults and time *)

Inside == {"begin", "retest", "visit", "plan", "probe", "repush", "adopt", "reread",
           "heal", "report", "healed", "refresh", "decide", "save"}

\* Mutant: the release is not in a finally.
ThrowKeepsLock(t) ==
  /\ t \in MayThrow
  /\ pc[t] \in Inside \cup {"assign", "assigned", "device", "amend"}
  /\ Forget(t)
  /\ UNCHANGED <<db, chain, pollAge, cycle, heals, died, crossed, requests>>

\* A rejected device or database call settles the async call; finally releases.  A visit
\* that has healed leaves nothing of it in the row.
Throw(t) ==
  LET o == job[t].onu IN
  /\ t \in MayThrow
  /\ \/ pc[t] \in Inside /\ Release(t)
     \/ pc[t] \in {"assign", "assigned", "device", "amend"} /\ Forget(t) /\ UNCHANGED chain
  /\ Healed(t, o) => died[o] < MaxDied
  /\ died' = IF Healed(t, o) THEN [died EXCEPT ![o] = @ + 1] ELSE died
  /\ UNCHANGED <<db, pollAge, cycle, heals, crossed, requests>>

\* The process restarts: chains and calls are memory, rows are not.
Restart ==
  /\ "restart" \in Requests /\ requests < MaxRequests
  /\ requests' = requests + 1
  /\ chain' = [o \in Onus |-> <<>>]
  /\ pc'    = [t \in Tasks |-> "idle"]
  /\ job'   = [t \in Tasks |-> IdleJob]
  /\ copy'  = [t \in Tasks |-> BlankRow]
  /\ inner' = [t \in Tasks |-> BlankRow]
  /\ look'  = [t \in Tasks |-> BlankLook]
  /\ died'  = [o \in Onus |-> IF \E t \in Tasks : Healed(t, o) THEN died[o] + 1 ELSE died[o]]
  /\ UNCHANGED <<db, pollAge, cycle, heals, crossed>>

IntervalPasses ==
  /\ db'      = [o \in Onus |-> OlderRow(db[o])]
  /\ copy'    = [t \in Tasks |-> OlderRow(copy[t])]
  /\ inner'   = [t \in Tasks |-> OlderRow(inner[t])]
  /\ pollAge' = [p \in PollTasks |-> 1]
  /\ UNCHANGED <<chain, pc, job, look, cycle, heals, died, crossed, requests>>

-----------------------------------------------------------------------------
VisitStep(t) ==
  \/ CheckLoad(t) \/ CheckPlan(t) \/ CheckProbe(t) \/ RepushRead(t) \/ AdoptSave(t)
  \/ AdoptReread(t) \/ ProgressRead(t) \/ ProgressSave(t) \/ RebootSave(t) \/ HealReturns(t)
  \/ CheckRefresh(t) \/ CheckDecide(t) \/ CheckSave(t)

LockedStep(t) ==
  \/ StartRead(t) \/ StartSave(t) \/ HealthPassRead(t) \/ HealthPassRetest(t)
  \/ VisitStep(t)

UnlockedStep(t) ==
  \/ ApplyAssign(t) \/ AssignSave(t) \/ UnlockedRead(t) \/ MarkSave(t) \/ PlanSave(t)
  \/ DbaSave(t) \/ RecheckSave(t)

Arrive == \E t \in UserTasks, o \in Onus, kind \in Requests :
            RequestLocked(t, o, kind) \/ RequestUnlocked(t, o, kind)

Next ==
  \/ Arrive
  \/ PollTick
  \/ \E t \in Tasks : LockedStep(t) \/ UnlockedStep(t) \/ Throw(t)
  \/ Restart
  \/ IntervalPasses

Spec == Init /\ [][Next]_vars

\* The event loop runs every settled promise's continuation, setInterval fires,
\* and time passes; users and faults are owed nothing.
Fairness ==
  /\ \A t \in Tasks : WF_vars(LockedStep(t)) /\ WF_vars(UnlockedStep(t))
  /\ WF_vars(PollTick)
  /\ WF_vars(IntervalPasses)

FairSpec == Spec /\ Fairness
-----------------------------------------------------------------------------
(* Properties *)

LocalPcs == {"idle", "queued", "assign", "assigned", "device", "amend"} \cup Inside

\* Types: the attempt counts up from 0, a round never passes the final read, a call is
\* always at a place of its kind of work.
TypeOK ==
  /\ db \in [Onus -> Row]
  /\ chain \in [Onus -> Seq(Tasks)]
  /\ pc \in [Tasks -> LocalPcs]
  /\ job \in [Tasks -> Job]
  /\ copy \in [Tasks -> Row] /\ inner \in [Tasks -> Row]
  /\ look \in [Tasks -> Look]
  /\ pollAge \in [PollTasks -> {0, 1}]
  /\ cycle \in [Onus -> Nat] /\ heals \in [Onus -> Nat] /\ died \in [Onus -> Nat]
  /\ crossed \in [Onus -> BOOLEAN] /\ requests \in Nat

\* Two calls are never inside the locked part of the same ONU at once, whatever
\* mixture of poller ticks, requests, rejections and restarts led there.
MutualExclusion ==
  \A t, u \in Tasks :
    pc[t] \in Inside /\ pc[u] \in Inside /\ job[t].onu = job[u].onu => t = u

\* The poller writes to an ONU's devices in at most HealMax visits between two writes of
\* its row by anyone else, and in one more for each visit that healed and was rejected or
\* cut by a restart: the attempt is stored by the save that ends a visit.
HealBudget == \A o \in Onus : heals[o] <= HealMax + died[o]

Saves(t) == pc[t] = "save" /\ pc'[t] # "save" /\ db' # db

\* "Serializa por ONU": a verdict written by a check belongs to the cycle the check looked
\* at.  The code does not keep this: an apply begins a cycle without the lock.
FreshVerdict ==
  [][\A t \in Tasks :
       Saves(t) /\ db'[job[t].onu].status \in Closed
         => look[t].cycle = cycle[job[t].onu]]_vars

\* What it keeps: a check closes a cycle it did not measure only if an unlocked call saved
\* the row while the check had the lock.
FreshUnlessCrossed ==
  [][\A t \in Tasks :
       Saves(t) /\ db'[job[t].onu].status \in Closed
         => look[t].cycle = cycle[job[t].onu] \/ crossed[job[t].onu]]_vars

Moves(t) == pc'[t] # pc[t]

\* An ok is not lost to a poller visit or a kick, whatever they measured, except to an
\* irrecoverable failure or when an unlocked call saved the row behind the visit's back;
\* manual and forced checks, new cycles and the unlocked calls themselves take it away.
OkKept ==
  [][\A o \in Onus :
       db[o].status = "ok" /\ db'[o].status # "ok"
         => \E t \in Tasks : /\ Moves(t) /\ job[t].onu = o
                             /\ \/ job[t].kind \in {"start", "manual", "force"} \cup UnlockedKinds
                                \/ look[t].irrecoverable
                                \/ crossed[o]]_vars

\* The poller never moves a row that somebody else closed while its visit waited; only an
\* unlocked save during the visit makes it do so.
PollerSparesClosed ==
  [][\A o \in Onus :
       db[o].status \in Closed /\ db'[o].status # db[o].status
         => \E t \in Tasks : /\ Moves(t) /\ job[t].onu = o
                             /\ job[t].kind # "auto" \/ crossed[o]]_vars

\* A poller visit that has just healed does not close in fail: there is a later
\* visit that measures whether the heal took.
FailNeedsLaterVisit ==
  [][\A t \in Tasks :
       /\ Saves(t) /\ job[t].kind = "auto" /\ look[t].healed /\ ~look[t].irrecoverable
       => db'[job[t].onu].status # "fail"]_vars

\* Every call that waits for an ONU's lock gets it or settles.
LockGranted == \A t \in Tasks : pc[t] = "queued" ~> pc[t] # "queued"

\* Every verify cycle ends: a row in test leaves test.
TestResolves == \A o \in Onus : db[o].status = "test" ~> db[o].status # "test"

=============================================================================
