-------------------------- MODULE OnuVerifyProofs --------------------------
(***************************************************************************)
(* Theorems about OnuVerify, for any set of ONUs, calls and requests, any  *)
(* heal limit and any window.                                               *)
(***************************************************************************)
EXTENDS OnuVerify, TLAPS

-----------------------------------------------------------------------------
(* Facts about the helpers *)

LEMMA OlderAge == ASSUME NEW age \in Age PROVE Older(age) \in Age
  BY OnuVerifyAssumption, SMT DEF Older, Age

LEMMA OlderRowType == ASSUME NEW row \in Row PROVE OlderRow(row) \in Row
  BY OlderAge DEF OlderRow, Row

LEMMA BlankRowType == BlankRow \in Row
  BY OnuVerifyAssumption DEF BlankRow, Row, Status, Age

LEMMA BlankLookType == BlankLook \in Look
  BY DEF BlankLook, Look, Evidence, Status

LEMMA IdleJobType == IdleJob \in Job
  BY OnuVerifyAssumption DEF IdleJob, Job

LEMMA EdgeAges == 0 \in Age /\ Never \in Age
  BY OnuVerifyAssumption DEF Age

LEMMA FreshType == ASSUME NEW row \in Row PROVE Fresh(row) \in Row
  BY EdgeAges DEF Fresh, Row, Status

LEMMA OutcomeType ==
  ASSUME NEW o, NEW found, NEW closes PROVE Outcome(o, found, closes) \in Status
  BY Zenon DEF Outcome, Status

-----------------------------------------------------------------------------
(* Type correctness *)

LEMMA ForgetType ==
  ASSUME TypeOK, NEW t \in Tasks, Forget(t)
  PROVE  /\ pc' \in [Tasks -> LocalPcs]
         /\ job' \in [Tasks -> Job] /\ copy' \in [Tasks -> Row]
         /\ inner' \in [Tasks -> Row] /\ look' \in [Tasks -> Look]
  BY IdleJobType, BlankRowType, BlankLookType
     DEF TypeOK, Forget, LocalPcs

LEMMA ReleaseType ==
  ASSUME TypeOK, NEW t \in Tasks, HasLock(t), Release(t)
  PROVE  chain' \in [Onus -> Seq(Tasks)]
<1>1. job[t].onu \in Onus
  BY DEF TypeOK, Job
<1>2. Tail(chain[job[t].onu]) \in Seq(Tasks)
  BY <1>1 DEF TypeOK, HasLock
<1> QED
  BY <1>1, <1>2 DEF TypeOK, Release

LEMMA StoreType ==
  ASSUME TypeOK, NEW t \in Tasks, NEW row \in Row, Store(t, row)
  PROVE  db' \in [Onus -> Row] /\ heals' \in [Onus -> Nat] /\ died' \in [Onus -> Nat]
  BY DEF TypeOK, Store

LEMMA StoreAcrossType ==
  ASSUME TypeOK, NEW t \in Tasks, NEW row \in Row, StoreAcross(t, row)
  PROVE  /\ db' \in [Onus -> Row] /\ heals' \in [Onus -> Nat] /\ died' \in [Onus -> Nat]
         /\ crossed' \in [Onus -> BOOLEAN]
  BY StoreType DEF TypeOK, StoreAcross

LEMMA EntersType ==
  ASSUME TypeOK, NEW t \in Tasks, Enters(t) PROVE crossed' \in [Onus -> BOOLEAN]
  BY DEF TypeOK, Enters

LEMMA HealsType ==
  ASSUME TypeOK, NEW t \in Tasks, NEW now \in BOOLEAN, Heals(t, now)
  PROVE  heals' \in [Onus -> Nat]
  BY DEF TypeOK, Heals, Job

LEMMA ReadType ==
  ASSUME TypeOK, NEW t \in Tasks, Read(t) PROVE copy' \in [Tasks -> Row]
  BY DEF TypeOK, Read, Job

LEMMA ConcludedType ==
  ASSUME TypeOK, NEW t \in Tasks PROVE Concluded(t) \in Row
<1> DEFINE noted == [copy[t] EXCEPT !.plan = look[t].plan, !.checked = 0]
           start == IF job[t].kind \in {"manual", "force"} /\ copy[t].started = Never
                    THEN 0 ELSE copy[t].started
<1>1. copy[t] \in Row /\ look[t] \in Look /\ start \in Age
  BY EdgeAges DEF TypeOK, Row
<1>2. noted \in Row
  BY <1>1, EdgeAges DEF Row, Look
<1>3. [noted EXCEPT !.attempt = look[t].attempt, !.status = look[t].next,
                    !.started = start] \in Row
  BY <1>1, <1>2 DEF Row, Look
<1>4. \/ Concluded(t) = noted
      \/ Concluded(t) = [noted EXCEPT !.attempt = look[t].attempt,
                                      !.status = look[t].next, !.started = start]
  BY <1>1 DEF Concluded, Row
<1> QED
  BY <1>2, <1>3, <1>4

\* The calls inside the locked part of an ONU are at the head of its chain.
InsideHoldsLock == \A t \in Tasks : pc[t] \in Inside => HasLock(t)

LEMMA ArriveType == ASSUME TypeOK, Arrive PROVE TypeOK'
<1> USE OnuVerifyAssumption
<1>1. ASSUME NEW t \in UserTasks, NEW o \in Onus, NEW kind \in Requests,
             RequestLocked(t, o, kind)
      PROVE  TypeOK'
  <2>1. Append(chain[o], t) \in Seq(Tasks)
    BY DEF TypeOK, Tasks
  <2>2. [kind |-> kind, onu |-> o, round |-> 1] \in Job
    BY <1>1 DEF RequestLocked, Job
  <2>3. pc' \in [Tasks -> LocalPcs] /\ job' \in [Tasks -> Job]
    BY <1>1, <2>2 DEF RequestLocked, TypeOK, Goto, LocalPcs
  <2>4. chain' \in [Onus -> Seq(Tasks)]
    BY <1>1, <2>1 DEF RequestLocked, TypeOK
  <2> QED
    BY <1>1, <2>3, <2>4 DEF RequestLocked, TypeOK
<1>2. ASSUME NEW t \in UserTasks, NEW o \in Onus, NEW kind \in Requests,
             RequestUnlocked(t, o, kind)
      PROVE  TypeOK'
  <2>1. [kind |-> kind, onu |-> o, round |-> 1] \in Job
    BY <1>2 DEF RequestUnlocked, Job
  <2> QED
    BY <1>2, <2>1 DEF RequestUnlocked, TypeOK, Goto, LocalPcs, Tasks
<1> QED
  BY <1>1, <1>2 DEF Arrive

LEMMA PollTickType == ASSUME TypeOK, PollTick PROVE TypeOK'
<1> DEFINE due  == {o \in Onus : Due(db[o])}
           free == {p \in PollTasks : pc[p] = "idle"}
<1>1. PICK visit \in [due -> free] :
        LET called == {visit[o] : o \in due} IN
        /\ \A o, q \in due : visit[o] = visit[q] => o = q
        /\ pc' = [t \in Tasks |-> IF t \in called THEN "queued" ELSE pc[t]]
        /\ job' = [t \in Tasks |->
                     IF t \in called
                     THEN [kind |-> "auto", round |-> 1,
                           onu |-> CHOOSE o \in due : visit[o] = t]
                     ELSE job[t]]
        /\ chain' = [o \in Onus |-> IF o \in due THEN Append(chain[o], visit[o])
                                    ELSE chain[o]]
        /\ pollAge' = [p \in PollTasks |-> IF p \in called THEN 0 ELSE pollAge[p]]
  BY DEF PollTick
<1> DEFINE called == {visit[o] : o \in due}
<1>2. chain' \in [Onus -> Seq(Tasks)]
  <2>1. \A o \in due : visit[o] \in Tasks
    BY DEF Tasks
  <2> QED
    BY <1>1, <2>1 DEF TypeOK
<1>3. job' \in [Tasks -> Job]
  <2>1. \A t \in called : (CHOOSE o \in due : visit[o] = t) \in Onus
    OBVIOUS
  <2>2. \A t \in called : [kind |-> "auto", round |-> 1,
                           onu |-> CHOOSE o \in due : visit[o] = t] \in Job
    BY <2>1, OnuVerifyAssumption DEF LockedKinds, Job
  <2>3. job \in [Tasks -> Job]
    BY DEF TypeOK
  <2> QED
    BY <1>1, <2>2, <2>3
<1>4. pc' \in [Tasks -> LocalPcs]
  BY <1>1 DEF TypeOK, LocalPcs
<1>5. pollAge' \in [PollTasks -> {0, 1}]
  BY <1>1 DEF TypeOK
<1> QED
  BY <1>2, <1>3, <1>4, <1>5 DEF TypeOK, PollTick

LEMMA RestartType == ASSUME TypeOK, Restart PROVE TypeOK'
<1>1. died' \in [Onus -> Nat]
  BY DEF TypeOK, Restart
<1> QED
  BY <1>1, IdleJobType, BlankRowType, BlankLookType DEF TypeOK, Restart, LocalPcs

LEMMA IntervalType == ASSUME TypeOK, IntervalPasses PROVE TypeOK'
  BY OlderRowType DEF TypeOK, IntervalPasses

\* The steps of executeCheck.
LEMMA VisitType ==
  ASSUME TypeOK, InsideHoldsLock, NEW t \in Tasks, VisitStep(t)
  PROVE  TypeOK'
<1> USE OnuVerifyAssumption
<1>0. job[t].onu \in Onus /\ look[t] \in Look /\ copy[t] \in Row /\ job[t].round \in Nat
  BY DEF TypeOK, Job
<1>1. CASE CheckLoad(t)
  <2>1. AttemptOf(t, db[job[t].onu]) \in Nat
    <3>1. db[job[t].onu].attempt \in Nat
      BY <1>0 DEF TypeOK, Row
    <3>2. HealMax \in Nat /\ job[t].round \in Nat
      BY <1>0, OnuVerifyAssumption
    <3>3. CASE Repeats(t)
      BY <3>2, <3>3 DEF AttemptOf
    <3>4. CASE ~Repeats(t)
      BY <3>1, <3>4 DEF AttemptOf
    <3> QED
      BY <3>3, <3>4
  <2>2. PICK technicianMode \in BOOLEAN :
           look' = [look EXCEPT ![t] =
                     [BlankLook EXCEPT !.attempt = AttemptOf(t, db[job[t].onu]),
                        !.canHeal = /\ AttemptOf(t, db[job[t].onu]) <= HealMax
                                    /\ Repeats(t) => job[t].round <= HealMax
                                    /\ ~technicianMode,
                        !.cycle = cycle[job[t].onu]]]
    BY <1>1 DEF CheckLoad
  <2> DEFINE canHeal == /\ AttemptOf(t, db[job[t].onu]) <= HealMax
                        /\ Repeats(t) => job[t].round <= HealMax
                        /\ ~technicianMode
  <2>3. canHeal \in BOOLEAN
    BY Zenon
  <2>4. cycle[job[t].onu] \in Nat
    BY <1>0 DEF TypeOK
  <2> HIDE DEF canHeal
  <2>5. [BlankLook EXCEPT !.attempt = AttemptOf(t, db[job[t].onu]),
                          !.canHeal = canHeal, !.cycle = cycle[job[t].onu]] \in Look
    BY <2>1, <2>3, <2>4, BlankLookType DEF Look
  <2>6. look' \in [Tasks -> Look]
    BY <2>2, <2>5, Zenon DEF TypeOK, canHeal
  <2> QED
    BY <1>1, <2>6, ReadType, EntersType DEF CheckLoad, TypeOK, Goto, LocalPcs, Inside
<1>2. CASE CheckPlan(t)
  <2>1. PICK matched, healed \in BOOLEAN :
           /\ Heals(t, healed)
           /\ look' = [look EXCEPT ![t] =
                        [@ EXCEPT !.plan = IF matched THEN "matched" ELSE "mismatched",
                                  !.healed = healed,
                                  !.irrecoverable = matched /\ ~copy[t].wan]]
           /\ Goto(t, IF matched /\ copy[t].wan THEN "probe" ELSE "decide")
    BY <1>2 DEF CheckPlan
  <2>2. look' \in [Tasks -> Look]
    BY <1>0, <2>1 DEF TypeOK, Look, Row
  <2>3. heals' \in [Onus -> Nat]
    BY <2>1, HealsType
  <2> QED
    BY <1>2, <2>1, <2>2, <2>3 DEF CheckPlan, TypeOK, Goto, LocalPcs, Inside
<1>3. CASE CheckProbe(t)
  <2>1. PICK evidence \in Evidence, healed, repush \in BOOLEAN :
           /\ Heals(t, healed)
           /\ look' = [look EXCEPT ![t].evidence = evidence,
                                   ![t].healed = @ \/ healed]
           /\ Goto(t, IF repush THEN "repush" ELSE "decide")
    BY <1>3 DEF CheckProbe
  <2>2. look' \in [Tasks -> Look]
    BY <1>0, <2>1 DEF TypeOK, Look
  <2>3. heals' \in [Onus -> Nat]
    BY <2>1, HealsType
  <2> QED
    BY <1>3, <2>1, <2>2, <2>3 DEF CheckProbe, TypeOK, Goto, LocalPcs, Inside
<1>4. CASE RepushRead(t)
  BY <1>4, ReadType DEF RepushRead, TypeOK, Goto, LocalPcs, Inside
<1>5. CASE ProgressRead(t)
  BY <1>0, <1>5 DEF ProgressRead, TypeOK, Goto, LocalPcs, Inside
<1>6. CASE ProgressSave(t)
  <2> DEFINE status == IF inner[t].status = "idle" THEN "test" ELSE inner[t].status
             start  == IF inner[t].started = Never THEN 0 ELSE inner[t].started
             row    == [inner[t] EXCEPT !.status = status, !.started = start]
  <2>0. inner[t] \in Row /\ status \in Status /\ start \in Age
    BY EdgeAges DEF TypeOK, Row, Status
  <2>1. row \in Row
    BY <2>0 DEF Row
  <2>2. Store(t, row)
    BY <1>6, <2>0 DEF ProgressSave, Row
  <2>3. db' \in [Onus -> Row] /\ heals' \in [Onus -> Nat] /\ died' \in [Onus -> Nat]
    BY <2>1, <2>2, StoreType
  <2> QED
    BY <1>6, <2>3 DEF ProgressSave, TypeOK, Goto, LocalPcs, Inside
<1>7. CASE HealReturns(t)
  <2>1. PICK noted, progress \in BOOLEAN :
           /\ Heals(t, noted)
           /\ look' = [look EXCEPT ![t].healed = @ \/ noted]
           /\ db' = IF progress THEN [db EXCEPT ![job[t].onu] = copy[t]] ELSE db
    BY <1>7 DEF HealReturns
  <2>2. look' \in [Tasks -> Look]
    BY <1>0, <2>1 DEF TypeOK, Look
  <2>3. heals' \in [Onus -> Nat] /\ db' \in [Onus -> Row]
    BY <1>0, <2>1, HealsType DEF TypeOK
  <2> QED
    BY <1>7, <2>2, <2>3 DEF HealReturns, TypeOK, Goto, LocalPcs, Inside
<1>8. CASE CheckRefresh(t)
  BY <1>8, ReadType DEF CheckRefresh, TypeOK, Goto, LocalPcs, Inside
<1>9. CASE CheckDecide(t)
  <2>1. look' \in [Tasks -> Look]
    BY <1>0, <1>9, OutcomeType DEF CheckDecide, TypeOK, Look
  <2> QED
    BY <1>9, <2>1, ReadType DEF CheckDecide, TypeOK, Goto, LocalPcs, Inside
<1>10. CASE CheckSave(t)
  <2>1. db' \in [Onus -> Row] /\ heals' \in [Onus -> Nat] /\ died' \in [Onus -> Nat]
    BY <1>10, StoreType, ConcludedType DEF CheckSave
  <2>2. CASE Release(t)
    <3>1. HasLock(t)
      BY <1>10 DEF CheckSave, InsideHoldsLock, Inside
    <3>2. chain' \in [Onus -> Seq(Tasks)]
      BY <2>2, <3>1, ReleaseType
    <3>3. /\ pc' \in [Tasks -> LocalPcs]
          /\ job' \in [Tasks -> Job] /\ copy' \in [Tasks -> Row]
          /\ inner' \in [Tasks -> Row] /\ look' \in [Tasks -> Look]
      BY <2>2, ForgetType DEF Release
    <3> QED
      BY <1>10, <2>1, <3>2, <3>3 DEF CheckSave, TypeOK
  <2>3. CASE /\ GoesRound(t)
             /\ job' = [job EXCEPT ![t].round = @ + 1]
             /\ Goto(t, "visit")
             /\ UNCHANGED <<chain, copy, inner, look>>
    <3>0. job[t] \in Job /\ job[t].round + 1 \in 0 .. HealMax + 1
      BY <1>0, <2>3 DEF GoesRound, TypeOK, Job
    <3>1. [job[t] EXCEPT !.round = @ + 1] \in Job
      BY <3>0 DEF Job
    <3>2. job' \in [Tasks -> Job]
      BY <2>3, <3>1 DEF TypeOK
    <3> QED
      BY <1>10, <2>1, <2>3, <3>2 DEF CheckSave, TypeOK, Goto, LocalPcs, Inside
  <2> QED
    BY <1>10, <2>2, <2>3 DEF CheckSave
<1>11. CASE RebootSave(t)
  <2>1. inner[t] \in Row
    BY DEF TypeOK
  <2>2. db' \in [Onus -> Row] /\ heals' \in [Onus -> Nat] /\ died' \in [Onus -> Nat]
    BY <1>11, <2>1, StoreType DEF RebootSave
  <2> QED
    BY <1>11, <2>2 DEF RebootSave, TypeOK, Goto, LocalPcs, Inside
<1>12. CASE AdoptSave(t)
  <2>1. copy[t] \in Row
    BY DEF TypeOK
  <2> QED
    BY <1>12, <2>1, StoreType DEF AdoptSave, TypeOK, Goto, LocalPcs, Inside
<1>13. CASE AdoptReread(t)
  BY <1>13, ReadType DEF AdoptReread, TypeOK, Goto, LocalPcs, Inside
<1> QED
  BY <1>1, <1>2, <1>3, <1>4, <1>5, <1>6, <1>7, <1>8, <1>9, <1>10, <1>11,
     <1>12, <1>13 DEF VisitStep

\* start and runOnuHealthPass up to the visit.
LEMMA LockedType ==
  ASSUME TypeOK, InsideHoldsLock, NEW t \in Tasks, LockedStep(t)
  PROVE  TypeOK'
<1>1. CASE StartRead(t)
  BY <1>1, ReadType, EntersType DEF StartRead, TypeOK, Goto, LocalPcs, Inside
<1>2. CASE StartSave(t)
  <2>1. db' \in [Onus -> Row] /\ heals' \in [Onus -> Nat] /\ died' \in [Onus -> Nat]
    BY <1>2, StoreType, FreshType DEF StartSave, TypeOK
  <2>2. cycle' \in [Onus -> Nat]
    BY <1>2 DEF StartSave, TypeOK, Job
  <2>3. HasLock(t)
    BY <1>2 DEF StartSave, InsideHoldsLock, Inside
  <2> QED
    BY <1>2, <2>1, <2>2, <2>3, ReleaseType, ForgetType DEF StartSave, Release, TypeOK
<1>3. CASE HealthPassRead(t)
  <2>1. CASE Release(t) /\ UNCHANGED crossed
    BY <1>3, <2>1, ReleaseType, ForgetType DEF HealthPassRead, Release, TypeOK
  <2>2. CASE /\ Enters(t) /\ Read(t)
             /\ Goto(t, IF db[job[t].onu].status = "test" THEN "visit" ELSE "retest")
             /\ UNCHANGED <<chain, job, inner, look>>
    BY <1>3, <2>2, ReadType, EntersType DEF HealthPassRead, TypeOK, Goto, LocalPcs, Inside
  <2> QED
    BY <1>3, <2>1, <2>2 DEF HealthPassRead
<1>4. CASE HealthPassRetest(t)
  <2> DEFINE start   == IF copy[t].started = Never THEN 0 ELSE copy[t].started
             attempt == IF job[t].kind = "force" THEN 0 ELSE copy[t].attempt
             row     == [copy[t] EXCEPT !.status = "test", !.started = start,
                                        !.attempt = attempt]
  <2>0. copy[t] \in Row /\ attempt \in Nat /\ start \in Age
    BY EdgeAges DEF TypeOK, Row
  <2>1. row \in Row
    BY <2>0 DEF Row, Status
  <2>2. Store(t, row)
    BY <1>4, <2>0 DEF HealthPassRetest, Row
  <2>3. db' \in [Onus -> Row] /\ heals' \in [Onus -> Nat] /\ died' \in [Onus -> Nat]
    BY <2>1, <2>2, StoreType
  <2> QED
    BY <1>4, <2>3 DEF HealthPassRetest, TypeOK, Goto, LocalPcs, Inside
<1>5. CASE VisitStep(t)
  BY <1>5, VisitType
<1> QED
  BY <1>1, <1>2, <1>3, <1>4, <1>5 DEF LockedStep

LEMMA UnlockedType ==
  ASSUME TypeOK, NEW t \in Tasks, UnlockedStep(t)
  PROVE  TypeOK'
<1>0. job[t].onu \in Onus /\ look[t] \in Look /\ copy[t] \in Row
  BY DEF TypeOK, Job
<1>1. CASE ApplyAssign(t)
  BY <1>1, ReadType DEF ApplyAssign, TypeOK, Goto, LocalPcs
<1>7. CASE AssignSave(t)
  <2>1. PICK wan \in BOOLEAN : StoreAcross(t, [copy[t] EXCEPT !.wan = wan])
    BY <1>7 DEF AssignSave
  <2>2. [copy[t] EXCEPT !.wan = wan] \in Row
    BY <1>0 DEF Row
  <2>3. /\ db' \in [Onus -> Row] /\ heals' \in [Onus -> Nat] /\ died' \in [Onus -> Nat]
        /\ crossed' \in [Onus -> BOOLEAN]
    BY <2>1, <2>2, StoreAcrossType
  <2> QED
    BY <1>7, <2>3 DEF AssignSave, TypeOK, Goto, LocalPcs
<1>2. CASE UnlockedRead(t)
  <2>1. CASE Forget(t)
    BY <1>2, <2>1, ForgetType DEF UnlockedRead, TypeOK
  <2>2. CASE /\ Read(t) /\ Goto(t, "amend")
             /\ IF job[t].kind \in {"plan", "dbasync"}
                THEN \E plan \in {"matched", "mismatched"} :
                       look' = [look EXCEPT ![t].plan = plan]
                ELSE UNCHANGED look
             /\ UNCHANGED <<job, inner>>
    <3>1. look' \in [Tasks -> Look]
      <4>1. \A plan \in {"matched", "mismatched"} : [look[t] EXCEPT !.plan = plan] \in Look
        BY <1>0 DEF Look
      <4>2. CASE \E plan \in {"matched", "mismatched"} :
                   look' = [look EXCEPT ![t].plan = plan]
        BY <4>1, <4>2 DEF TypeOK
      <4>3. CASE UNCHANGED look
        BY <4>3 DEF TypeOK
      <4> QED
        BY <2>2, <4>2, <4>3
    <3> QED
      BY <1>2, <2>2, <3>1, ReadType DEF UnlockedRead, TypeOK, Goto, LocalPcs
  <2> QED
    BY <1>2, <2>1, <2>2 DEF UnlockedRead
<1>3. CASE MarkSave(t)
  <2>1. /\ db' \in [Onus -> Row] /\ heals' \in [Onus -> Nat] /\ died' \in [Onus -> Nat]
        /\ crossed' \in [Onus -> BOOLEAN]
    BY <1>0, <1>3, StoreAcrossType, FreshType DEF MarkSave
  <2>2. cycle' \in [Onus -> Nat]
    BY <1>0, <1>3 DEF MarkSave, TypeOK
  <2> QED
    BY <1>3, <2>1, <2>2, ForgetType DEF MarkSave, TypeOK
<1>4. CASE PlanSave(t)
  <2>1. [copy[t] EXCEPT !.status = IF look[t].plan = "matched" THEN "idle" ELSE "check",
                        !.attempt = 0] \in Row
    BY <1>0 DEF Row, Status
  <2>2. /\ db' \in [Onus -> Row] /\ heals' \in [Onus -> Nat] /\ died' \in [Onus -> Nat]
        /\ crossed' \in [Onus -> BOOLEAN]
    BY <1>4, <2>1, StoreAcrossType DEF PlanSave
  <2> QED
    BY <1>4, <2>2, ForgetType DEF PlanSave, TypeOK
<1>5. CASE DbaSave(t)
  <2> DEFINE status == CASE look[t].plan = "matched" /\ copy[t].status = "check" -> "ok"
                         [] look[t].plan # "matched" /\ copy[t].status = "ok" -> "check"
                         [] OTHER -> copy[t].status
             row == [copy[t] EXCEPT !.plan = look[t].plan, !.checked = 0,
                                    !.status = status]
  <2>1. status \in Status
    BY <1>0 DEF Row, Status
  <2>2. row \in Row
    BY <1>0, <2>1, EdgeAges DEF Row, Look
  <2>3. StoreAcross(t, row)
    BY <1>0, <1>5 DEF DbaSave, Row
  <2>4. /\ db' \in [Onus -> Row] /\ heals' \in [Onus -> Nat] /\ died' \in [Onus -> Nat]
        /\ crossed' \in [Onus -> BOOLEAN]
    BY <2>2, <2>3, StoreAcrossType
  <2> QED
    BY <1>5, <2>4, ForgetType DEF DbaSave, TypeOK
<1>6. CASE RecheckSave(t)
  <2>1. [copy[t] EXCEPT !.status = "idle", !.attempt = 0] \in Row
    BY <1>0 DEF Row, Status
  <2>2. /\ db' \in [Onus -> Row] /\ heals' \in [Onus -> Nat] /\ died' \in [Onus -> Nat]
        /\ crossed' \in [Onus -> BOOLEAN]
    BY <1>6, <2>1, StoreAcrossType DEF RecheckSave
  <2>3. job' \in [Tasks -> Job]
    BY <1>0, <1>6 DEF RecheckSave, TypeOK, Job, LockedKinds
  <2>4. chain' \in [Onus -> Seq(Tasks)]
    BY <1>0, <1>6 DEF RecheckSave, TypeOK
  <2> QED
    BY <1>6, <2>2, <2>3, <2>4 DEF RecheckSave, TypeOK, Goto, LocalPcs
<1> QED
  BY <1>1, <1>2, <1>3, <1>4, <1>5, <1>6, <1>7 DEF UnlockedStep

LEMMA ThrowType ==
  ASSUME TypeOK, InsideHoldsLock, NEW t \in Tasks, Throw(t)
  PROVE  TypeOK'
<1>0. died' \in [Onus -> Nat]
  <2>1. job[t].onu \in Onus /\ died[job[t].onu] \in Nat
    BY DEF TypeOK, Job
  <2> QED
    BY <2>1 DEF TypeOK, Throw
<1>1. CASE pc[t] \in Inside /\ Release(t)
  <2>1. HasLock(t)
    BY <1>1 DEF InsideHoldsLock
  <2> QED
    BY <1>0, <1>1, <2>1, ReleaseType, ForgetType DEF Throw, Release, TypeOK
<1>2. CASE Forget(t) /\ UNCHANGED chain
  BY <1>0, <1>2, ForgetType DEF Throw, TypeOK
<1> QED
  BY <1>1, <1>2 DEF Throw

\* One step keeps the types, given that who is inside holds the lock.
LEMMA StepType ==
  ASSUME TypeOK, InsideHoldsLock, [Next]_vars PROVE TypeOK'
<1>1. CASE \E t \in Tasks : LockedStep(t) \/ UnlockedStep(t) \/ Throw(t)
  BY <1>1, LockedType, UnlockedType, ThrowType
<1>2. CASE UNCHANGED vars
  BY <1>2 DEF TypeOK, vars
<1> QED
  BY <1>1, <1>2, ArriveType, PollTickType, RestartType, IntervalType DEF Next

-----------------------------------------------------------------------------
(* Mutual exclusion *)

\* A step that leaves the chains and the jobs alone and moves only a call that
\* holds its lock keeps InsideHoldsLock.
LEMMA QuietStep ==
  ASSUME TypeOK, InsideHoldsLock, NEW t \in Tasks,
         HasLock(t), UNCHANGED <<chain, job>>,
         \A u \in Tasks : u # t => pc'[u] = pc[u]
  PROVE  InsideHoldsLock'
  BY DEF InsideHoldsLock, HasLock

\* Releasing moves the head on; nobody else was inside.
LEMMA ReleaseStep ==
  ASSUME TypeOK, InsideHoldsLock, NEW t \in Tasks, HasLock(t), Release(t)
  PROVE  InsideHoldsLock'
<1> SUFFICES ASSUME NEW u \in Tasks, pc'[u] \in Inside PROVE HasLock(u)'
  BY DEF InsideHoldsLock
<1>1. u # t /\ pc'[u] = pc[u] /\ job'[u] = job[u]
  BY DEF Release, Forget, TypeOK, Inside
<1>2. HasLock(u)
  BY <1>1 DEF InsideHoldsLock
<1>3. job[u].onu # job[t].onu
  BY <1>1, <1>2 DEF HasLock
<1>4. chain'[job[u].onu] = chain[job[u].onu]
  BY <1>3 DEF Release, TypeOK, Job
<1> QED
  BY <1>1, <1>2, <1>4 DEF HasLock

\* Forgetting a call that is outside the lock changes nothing for those inside.
LEMMA ForgetStep ==
  ASSUME TypeOK, InsideHoldsLock, NEW t \in Tasks, Forget(t), UNCHANGED chain
  PROVE  InsideHoldsLock'
  BY DEF InsideHoldsLock, HasLock, Forget, TypeOK, Inside

\* Joining a chain at its end leaves its head, if there was one.
LEMMA JoinStep ==
  ASSUME TypeOK, InsideHoldsLock, NEW t \in Tasks, NEW o \in Onus,
         chain' = [chain EXCEPT ![o] = Append(@, t)],
         \A u \in Tasks : pc'[u] \in Inside => pc'[u] = pc[u] /\ job'[u].onu = job[u].onu
  PROVE  InsideHoldsLock'
<1> SUFFICES ASSUME NEW u \in Tasks, pc'[u] \in Inside PROVE HasLock(u)'
  BY DEF InsideHoldsLock
<1>1. HasLock(u) /\ job'[u].onu = job[u].onu /\ job[u].onu \in Onus
  BY DEF InsideHoldsLock, TypeOK, Job
<1>2. chain[job[u].onu] \in Seq(Tasks) /\ chain[o] \in Seq(Tasks)
  BY <1>1 DEF TypeOK
<1>3. chain'[job[u].onu] # <<>> /\ Head(chain'[job[u].onu]) = u
  BY <1>1, <1>2 DEF HasLock, TypeOK
<1> QED
  BY <1>1, <1>3 DEF HasLock

LEMMA VisitLock ==
  ASSUME TypeOK, InsideHoldsLock, NEW t \in Tasks, VisitStep(t)
  PROVE  InsideHoldsLock'
<1>1. HasLock(t)
  BY DEF VisitStep, InsideHoldsLock, Inside, CheckLoad, AtVisit, CheckPlan, CheckProbe,
         RepushRead, AdoptSave, AdoptReread,
         ProgressRead, ProgressSave, RebootSave, HealReturns,
         CheckRefresh,
         CheckDecide, CheckSave
<1>2. CASE CheckSave(t) /\ Release(t)
  BY <1>1, <1>2, ReleaseStep
<1>3. CASE CheckSave(t) /\ ~Release(t)
  <2>1. /\ job' = [job EXCEPT ![t].round = @ + 1]
        /\ Goto(t, "visit")
        /\ UNCHANGED chain
    BY <1>3 DEF CheckSave
  <2>2. \A u \in Tasks : job'[u].onu = job[u].onu
    BY <2>1 DEF TypeOK, Job
  <2> QED
    BY <1>1, <2>1, <2>2 DEF InsideHoldsLock, HasLock, Goto, TypeOK
<1>4. CASE ~CheckSave(t)
  <2>1. UNCHANGED <<chain, job>> /\ \A u \in Tasks : u # t => pc'[u] = pc[u]
    BY <1>4 DEF VisitStep, CheckLoad, CheckPlan, CheckProbe, RepushRead, AdoptSave, AdoptReread,
         ProgressRead,
                ProgressSave, RebootSave, HealReturns, CheckRefresh, CheckDecide,
                Goto, TypeOK
  <2> QED
    BY <1>1, <2>1, QuietStep
<1> QED
  BY <1>2, <1>3, <1>4

LEMMA StepLock ==
  ASSUME TypeOK, InsideHoldsLock, [Next]_vars PROVE InsideHoldsLock'
<1>1. ASSUME NEW t \in Tasks, LockedStep(t) PROVE InsideHoldsLock'
  <2>1. CASE StartRead(t)
    BY <2>1, QuietStep DEF StartRead, Goto, TypeOK
  <2>2. CASE StartSave(t)
    BY <2>2, ReleaseStep DEF StartSave, InsideHoldsLock, Inside
  <2>3. CASE HealthPassRead(t)
    <3>1. HasLock(t)
      BY <2>3 DEF HealthPassRead
    <3>2. \/ Release(t)
          \/ UNCHANGED <<chain, job>> /\ \A u \in Tasks : u # t => pc'[u] = pc[u]
      BY <2>3 DEF HealthPassRead, Goto, TypeOK
    <3> QED
      BY <3>1, <3>2, QuietStep, ReleaseStep
  <2>4. CASE HealthPassRetest(t)
    BY <2>4, QuietStep DEF HealthPassRetest, InsideHoldsLock, Inside, Goto, TypeOK
  <2>5. CASE VisitStep(t)
    BY <2>5, VisitLock
  <2> QED
    BY <1>1, <2>1, <2>2, <2>3, <2>4, <2>5 DEF LockedStep
<1>2. ASSUME NEW t \in Tasks, UnlockedStep(t) PROVE InsideHoldsLock'
  <2>1. CASE ApplyAssign(t) \/ AssignSave(t)
    BY <2>1 DEF ApplyAssign, AssignSave, Goto, InsideHoldsLock, HasLock, TypeOK, Inside
  <2>2. CASE UnlockedRead(t)
    <3>1. CASE Forget(t)
      BY <2>2, <3>1, ForgetStep DEF UnlockedRead
    <3>2. CASE Goto(t, "amend") /\ UNCHANGED <<job, inner>>
      BY <2>2, <3>2 DEF UnlockedRead, Goto, InsideHoldsLock, HasLock, TypeOK, Inside
    <3> QED
      BY <2>2, <3>1, <3>2 DEF UnlockedRead
  <2>3. CASE MarkSave(t) \/ PlanSave(t) \/ DbaSave(t)
    BY <2>3, ForgetStep DEF MarkSave, PlanSave, DbaSave
  <2>4. CASE RecheckSave(t)
    <3>1. job[t].onu \in Onus
      BY DEF TypeOK, Job
    <3>2. \A u \in Tasks :
            pc'[u] \in Inside => pc'[u] = pc[u] /\ job'[u].onu = job[u].onu
      BY <2>4 DEF RecheckSave, Goto, TypeOK, Inside, Job
    <3> QED
      BY <2>4, <3>1, <3>2, JoinStep DEF RecheckSave
  <2> QED
    BY <1>2, <2>1, <2>2, <2>3, <2>4 DEF UnlockedStep
<1>3. ASSUME NEW t \in Tasks, Throw(t) PROVE InsideHoldsLock'
  BY <1>3, ReleaseStep, ForgetStep DEF Throw, InsideHoldsLock
<1>4. CASE Arrive
  <2>1. ASSUME NEW t \in UserTasks, NEW o \in Onus, NEW kind \in Requests,
               RequestLocked(t, o, kind)
        PROVE  InsideHoldsLock'
    <3>1. \A u \in Tasks :
            pc'[u] \in Inside => pc'[u] = pc[u] /\ job'[u].onu = job[u].onu
      BY <2>1 DEF RequestLocked, Goto, TypeOK, Inside
    <3> QED
      BY <2>1, <3>1, JoinStep DEF RequestLocked, Tasks
  <2>2. ASSUME NEW t \in UserTasks, NEW o \in Onus, NEW kind \in Requests,
               RequestUnlocked(t, o, kind)
        PROVE  InsideHoldsLock'
    BY <2>2 DEF RequestUnlocked, Goto, InsideHoldsLock, HasLock, TypeOK, Inside
  <2> QED
    BY <1>4, <2>1, <2>2 DEF Arrive
<1>5. CASE PollTick
  <2> SUFFICES ASSUME NEW u \in Tasks, pc'[u] \in Inside PROVE HasLock(u)'
    BY DEF InsideHoldsLock
  <2>1. pc'[u] = pc[u] /\ job'[u] = job[u]
    BY <1>5 DEF PollTick, TypeOK, Inside
  <2>2. HasLock(u) /\ job[u].onu \in Onus
    BY <2>1 DEF InsideHoldsLock, TypeOK, Job
  <2>3. \/ chain'[job[u].onu] = chain[job[u].onu]
        \/ \E e \in Tasks : chain'[job[u].onu] = Append(chain[job[u].onu], e)
    <3> DEFINE due  == {o \in Onus : Due(db[o])}
               free == {p \in PollTasks : pc[p] = "idle"}
    <3>1. PICK visit \in [due -> free] :
            chain' = [o \in Onus |-> IF o \in due THEN Append(chain[o], visit[o])
                                      ELSE chain[o]]
      BY <1>5 DEF PollTick
    <3>2. \A o \in due : visit[o] \in Tasks
      BY DEF Tasks
    <3> QED
      BY <2>2, <3>1, <3>2
  <2>4. chain[job[u].onu] \in Seq(Tasks)
    BY <2>2 DEF TypeOK
  <2>5. chain'[job[u].onu] # <<>> /\ Head(chain'[job[u].onu]) = u
    BY <2>2, <2>3, <2>4 DEF HasLock
  <2> QED
    BY <2>1, <2>5 DEF HasLock
<1>6. CASE Restart
  BY <1>6 DEF Restart, InsideHoldsLock, Inside
<1>7. CASE IntervalPasses \/ UNCHANGED vars
  BY <1>7 DEF IntervalPasses, vars, InsideHoldsLock, HasLock
<1> QED
  BY <1>1, <1>2, <1>3, <1>4, <1>5, <1>6, <1>7 DEF Next

LEMMA InitHolds == Init => TypeOK /\ InsideHoldsLock
<1> SUFFICES ASSUME Init PROVE TypeOK /\ InsideHoldsLock
  OBVIOUS
<1>1. \A w \in BOOLEAN : [BlankRow EXCEPT !.wan = w] \in Row
  BY BlankRowType DEF Row
<1>2. TypeOK
  BY <1>1, IdleJobType, BlankRowType, BlankLookType, OnuVerifyAssumption
     DEF Init, TypeOK, LocalPcs, Tasks
<1>3. InsideHoldsLock
  BY DEF Init, InsideHoldsLock, Inside
<1> QED
  BY <1>2, <1>3

\* Every variable keeps its type, and whoever is in the locked part of an ONU is
\* the head of its promise chain (withOnuVerifyLock).
THEOREM TypeCorrect == Spec => [](TypeOK /\ InsideHoldsLock)
<1>1. TypeOK /\ InsideHoldsLock /\ [Next]_vars => (TypeOK /\ InsideHoldsLock)'
  BY StepType, StepLock
<1> QED
  BY InitHolds, <1>1, PTL DEF Spec

\* Whatever calls, rejections, restarts and overlapping ticks occur, two calls
\* never run the locked part of one ONU together.
THEOREM MutualExclusionHolds == Spec => []MutualExclusion
<1>1. InsideHoldsLock => MutualExclusion
  BY DEF InsideHoldsLock, MutualExclusion, HasLock
<1> QED
  BY <1>1, TypeCorrect, PTL
-----------------------------------------------------------------------------
(* Who is disturbed by a step outside the lock *)

\* A save outside the lock is known to whoever holds the lock; the other rows, and whoever
\* is inside, stay as they are.
LEMMA AcrossFrame ==
  ASSUME TypeOK, NEW t \in Tasks, UnlockedStep(t)
  PROVE  /\ pc[t] \notin Inside /\ pc'[t] \notin Inside
         /\ \A u \in Tasks : u # t => /\ pc'[u] = pc[u] /\ job'[u] = job[u]
                                      /\ copy'[u] = copy[u] /\ inner'[u] = inner[u]
                                      /\ look'[u] = look[u]
         /\ \A q \in Onus : q # job[t].onu =>
              /\ db'[q] = db[q] /\ heals'[q] = heals[q] /\ died'[q] = died[q]
              /\ crossed'[q] = crossed[q] /\ cycle'[q] = cycle[q]
         /\ \/ UNCHANGED <<db, heals, died, crossed, cycle>>
            \/ crossed'[job[t].onu]
<1>0. job[t].onu \in Onus
  BY DEF TypeOK, Job
<1>1. CASE ApplyAssign(t) \/ UnlockedRead(t)
  BY <1>0, <1>1 DEF ApplyAssign, UnlockedRead, Forget, Goto, Read, TypeOK, Inside
<1>2. CASE AssignSave(t)
  BY <1>0, <1>2 DEF AssignSave, StoreAcross, Store, Goto, TypeOK, Inside
<1>3. CASE MarkSave(t)
  BY <1>0, <1>3 DEF MarkSave, StoreAcross, Store, Forget, TypeOK, Inside
<1>4. CASE PlanSave(t)
  BY <1>0, <1>4 DEF PlanSave, StoreAcross, Store, Forget, TypeOK, Inside
<1>5. CASE DbaSave(t)
  BY <1>0, <1>5 DEF DbaSave, StoreAcross, Store, Forget, TypeOK, Inside
<1>6. CASE RecheckSave(t)
  BY <1>0, <1>6 DEF RecheckSave, StoreAcross, Store, Goto, TypeOK, Inside
<1> QED
  BY <1>1, <1>2, <1>3, <1>4, <1>5, <1>6 DEF UnlockedStep

\* A step behind the lock takes it, and then nothing has crossed yet, or leaves the history
\* of unlocked saves alone.
LEMMA EntersOrStays ==
  ASSUME TypeOK, NEW t \in Tasks, LockedStep(t)
  PROVE  /\ \A q \in Onus : q # job[t].onu => crossed'[q] = crossed[q]
         /\ \/ crossed' = crossed
            \/ pc[t] = "queued" /\ HasLock(t) /\ ~crossed'[job[t].onu]
<1>0. job[t].onu \in Onus
  BY DEF TypeOK, Job
<1>1. CASE StartRead(t)
  BY <1>0, <1>1 DEF StartRead, Enters, TypeOK
<1>2. CASE HealthPassRead(t)
  BY <1>0, <1>2 DEF HealthPassRead, Enters, TypeOK
<1>3. CASE CheckLoad(t)
  BY <1>0, <1>3 DEF CheckLoad, AtVisit, Enters, TypeOK
<1>4. CASE StartSave(t) \/ HealthPassRetest(t) \/ CheckSave(t)
  BY <1>4 DEF StartSave, HealthPassRetest, CheckSave
<1>5. CASE VisitStep(t) /\ ~CheckLoad(t) /\ ~CheckSave(t)
  BY <1>5 DEF VisitStep, CheckPlan, CheckProbe, RepushRead, AdoptSave, AdoptReread, ProgressRead,
              ProgressSave, RebootSave, HealReturns, CheckRefresh, CheckDecide
<1> QED
  BY <1>1, <1>2, <1>3, <1>4, <1>5 DEF LockedStep

\* A step of a call changes that call and the row of its ONU.
LEMMA OwnFrame ==
  ASSUME TypeOK, NEW t \in Tasks, LockedStep(t)
  PROVE  /\ \A u \in Tasks : u # t => /\ pc'[u] = pc[u] /\ job'[u] = job[u]
                                      /\ copy'[u] = copy[u]
                                      /\ inner'[u] = inner[u] /\ look'[u] = look[u]
         /\ \A q \in Onus : q # job[t].onu =>
              db'[q] = db[q] /\ heals'[q] = heals[q] /\ died'[q] = died[q]
<1>1. CASE StartRead(t) \/ StartSave(t) \/ HealthPassRead(t) \/ HealthPassRetest(t)
  BY <1>1 DEF StartRead, StartSave, HealthPassRead, HealthPassRetest, Store, Release,
              Forget, Goto, Read, TypeOK
<1>2. CASE AdoptSave(t) \/ ProgressRead(t)
  BY <1>2 DEF AdoptSave, ProgressRead, Store, Goto, Read, TypeOK
<1>7. CASE CheckLoad(t)
  <2>1. PICK loaded : look' = [look EXCEPT ![t] = loaded]
    BY <1>7 DEF CheckLoad
  <2> QED
    BY <1>7, <2>1 DEF CheckLoad, Goto, Read, TypeOK
<1>6. CASE RepushRead(t) \/ AdoptReread(t)
  <2>1. PICK label \in LocalPcs : Goto(t, label) /\ (Read(t) \/ UNCHANGED copy)
    BY <1>6 DEF RepushRead, AdoptReread, LocalPcs, Inside
  <2> QED
    BY <1>6, <2>1 DEF RepushRead, AdoptReread, Goto, Read, TypeOK
<1>3. CASE CheckPlan(t) \/ CheckProbe(t) \/ HealReturns(t)
  BY <1>3 DEF CheckPlan, CheckProbe, HealReturns, Heals, Goto, TypeOK
<1>4. CASE ProgressSave(t) \/ RebootSave(t) \/ CheckRefresh(t) \/ CheckDecide(t)
  BY <1>4 DEF ProgressSave, RebootSave, CheckRefresh, CheckDecide, Store, Goto, Read, TypeOK
<1>5. CASE CheckSave(t)
  BY <1>5 DEF CheckSave, Store, Release, Forget, Goto, TypeOK
<1> QED
  BY <1>1, <1>2, <1>3, <1>4, <1>5, <1>6, <1>7 DEF LockedStep, VisitStep

\* The call that takes a step has its ONU's lock.
LEMMA LockedHasLock ==
  ASSUME InsideHoldsLock, NEW t \in Tasks, LockedStep(t) PROVE HasLock(t)
<1>1. pc[t] \in Inside \/ HasLock(t)
  BY DEF LockedStep, VisitStep, StartRead, StartSave, HealthPassRead, HealthPassRetest, CheckLoad,
         AtVisit, CheckPlan, CheckProbe, RepushRead, AdoptSave, AdoptReread,
         ProgressRead, ProgressSave,
         RebootSave, HealReturns, CheckRefresh, CheckDecide, CheckSave, Inside
<1> QED
  BY <1>1 DEF InsideHoldsLock

-----------------------------------------------------------------------------
(* Fresh verdicts *)

Measured == {"plan", "probe", "repush", "adopt", "reread", "heal", "report", "healed",
             "refresh", "decide", "save"}

\* What a visit has measured is of the ONU's current cycle, unless somebody saved the row
\* behind its back.
LooksAtCycle ==
  \A t \in Tasks :
    pc[t] \in Measured => look[t].cycle = cycle[job[t].onu] \/ crossed[job[t].onu]

FreshInv == TypeOK /\ InsideHoldsLock /\ LooksAtCycle

\* A visit notes the cycle when it loads the row, and keeps what it noted.
LEMMA VisitLooks ==
  ASSUME TypeOK, LooksAtCycle, NEW t \in Tasks, VisitStep(t)
  PROVE  /\ cycle' = cycle
         /\ pc'[t] \in Measured =>
              /\ job'[t] = job[t]
              /\ look'[t].cycle = cycle[job[t].onu] \/ (crossed[job[t].onu] /\ crossed' = crossed)
<1>1. cycle' = cycle
  BY DEF VisitStep, CheckLoad, CheckPlan, CheckProbe, RepushRead, AdoptSave, AdoptReread,
         ProgressRead, ProgressSave, RebootSave, HealReturns, CheckRefresh, CheckDecide,
         CheckSave
<1>2. look[t] \in Look /\ BlankLook \in Look
  BY BlankLookType DEF TypeOK
<1>3. CASE CheckLoad(t)
  BY <1>1, <1>2, <1>3 DEF CheckLoad, TypeOK, Look
<1>4. CASE CheckSave(t)
  BY <1>1, <1>4 DEF CheckSave, Release, Forget, Goto, Measured, TypeOK
<1>5. CASE ~CheckLoad(t) /\ ~CheckSave(t)
  <2>1. pc[t] \in Measured /\ job' = job /\ crossed' = crossed
    BY <1>5 DEF VisitStep, CheckPlan, CheckProbe, RepushRead, AdoptSave, AdoptReread, ProgressRead,
                ProgressSave, RebootSave, HealReturns, CheckRefresh, CheckDecide, Measured
  <2>2. look'[t].cycle = look[t].cycle
    <3>1. CASE CheckPlan(t)
      <4>1. PICK matched, healed \in BOOLEAN :
              look' = [look EXCEPT ![t] =
                        [@ EXCEPT !.plan = IF matched THEN "matched" ELSE "mismatched",
                                  !.healed = healed,
                                  !.irrecoverable = matched /\ ~copy[t].wan]]
        BY <3>1 DEF CheckPlan
      <4> QED
        BY <1>2, <4>1 DEF Look, TypeOK
    <3>2. CASE CheckProbe(t)
      <4>1. PICK evidence \in Evidence, healed \in BOOLEAN :
              look' = [look EXCEPT ![t].evidence = evidence, ![t].healed = @ \/ healed]
        BY <3>2 DEF CheckProbe
      <4> QED
        BY <1>2, <4>1 DEF Look, TypeOK
    <3>3. CASE HealReturns(t) \/ CheckDecide(t)
      BY <1>2, <3>3 DEF HealReturns, CheckDecide, TypeOK, Look
    <3>4. CASE ~CheckPlan(t) /\ ~CheckProbe(t) /\ ~HealReturns(t) /\ ~CheckDecide(t)
      BY <1>5, <3>4 DEF VisitStep, RepushRead, AdoptSave, AdoptReread, ProgressRead, ProgressSave,
                        RebootSave, CheckRefresh
    <3> QED
      BY <3>1, <3>2, <3>3, <3>4
  <2> QED
    BY <1>1, <2>1, <2>2 DEF LooksAtCycle
<1> QED
  BY <1>3, <1>4, <1>5

LEMMA LooksStep ==
  ASSUME FreshInv, [Next]_vars PROVE LooksAtCycle'
<1> USE DEF FreshInv
<1>0. \A u \in Tasks : job[u].onu \in Onus
  BY DEF TypeOK, Job
<1>1. ASSUME NEW t \in Tasks, LockedStep(t), NEW u \in Tasks, pc'[u] \in Measured
      PROVE  look'[u].cycle = cycle'[job'[u].onu] \/ crossed'[job'[u].onu]
  <2>1. CASE u # t
    <3>1. pc'[u] = pc[u] /\ job'[u] = job[u] /\ look'[u] = look[u]
      BY <1>1, <2>1, OwnFrame
    <3>2. HasLock(t) /\ HasLock(u)
      BY <1>1, <3>1, LockedHasLock DEF InsideHoldsLock, Inside, Measured
    <3>3. job[u].onu # job[t].onu
      BY <2>1, <3>2 DEF HasLock
    <3>4. crossed'[job[u].onu] = crossed[job[u].onu]
      BY <1>0, <1>1, <3>3, EntersOrStays
    <3>5. cycle'[job[u].onu] = cycle[job[u].onu]
      <4>1. CASE VisitStep(t)
        BY <4>1, VisitLooks
      <4>2. CASE ~VisitStep(t)
        BY <1>0, <1>1, <3>3, <4>2 DEF LockedStep, StartRead, StartSave, HealthPassRead,
                                      HealthPassRetest, TypeOK
      <4> QED
        BY <4>1, <4>2
    <3> QED
      BY <1>1, <3>1, <3>4, <3>5 DEF LooksAtCycle
  <2>2. CASE u = t
    <3>1. VisitStep(t)
      BY <1>1, <2>2 DEF LockedStep, StartRead, StartSave, HealthPassRead, HealthPassRetest,
                        Release, Forget, Goto, TypeOK, Measured
    <3> QED
      BY <1>1, <2>2, <3>1, VisitLooks
  <2> QED
    BY <2>1, <2>2
<1>2. ASSUME NEW t \in Tasks, UnlockedStep(t), NEW u \in Tasks, pc'[u] \in Measured
      PROVE  look'[u].cycle = cycle'[job'[u].onu] \/ crossed'[job'[u].onu]
  <2>1. u # t
    BY <1>2, AcrossFrame DEF Inside, Measured
  <2>2. pc'[u] = pc[u] /\ job'[u] = job[u] /\ look'[u] = look[u]
    BY <1>2, <2>1, AcrossFrame
  <2>3. CASE job[u].onu = job[t].onu /\ crossed'[job[t].onu]
    BY <2>2, <2>3
  <2>4. CASE ~(job[u].onu = job[t].onu /\ crossed'[job[t].onu])
    <3>1. /\ crossed'[job[u].onu] = crossed[job[u].onu]
          /\ cycle'[job[u].onu] = cycle[job[u].onu]
      BY <1>0, <1>2, <2>4, AcrossFrame
    <3> QED
      BY <1>2, <2>2, <3>1 DEF LooksAtCycle
  <2> QED
    BY <2>3, <2>4
<1>3. ASSUME NEW t \in Tasks, Throw(t) PROVE LooksAtCycle'
  BY <1>3 DEF Throw, Release, Forget, TypeOK, LooksAtCycle, Measured
<1>4. CASE Arrive
  <2>1. PICK t \in UserTasks, o \in Onus, kind \in Requests :
          RequestLocked(t, o, kind) \/ RequestUnlocked(t, o, kind)
    BY <1>4 DEF Arrive
  <2>2. cycle' = cycle /\ crossed' = crossed /\ look' = look /\ pc'[t] \notin Measured
    BY <2>1 DEF RequestLocked, RequestUnlocked, Goto, TypeOK, Measured, Tasks
  <2>3. \A u \in Tasks : u # t => pc'[u] = pc[u] /\ job'[u] = job[u]
    BY <2>1 DEF RequestLocked, RequestUnlocked, Goto, TypeOK
  <2> QED
    BY <2>2, <2>3 DEF LooksAtCycle
<1>5. CASE PollTick
  BY <1>5 DEF PollTick, LooksAtCycle, Measured, TypeOK
<1>6. CASE Restart
  BY <1>6 DEF Restart, LooksAtCycle, Measured
<1>7. CASE IntervalPasses \/ UNCHANGED vars
  BY <1>7 DEF IntervalPasses, vars, LooksAtCycle
<1> QED
  BY <1>1, <1>2, <1>3, <1>4, <1>5, <1>6, <1>7 DEF Next, LooksAtCycle

\* Whatever requests are made, behind the lock or around it, and whatever throws: a check
\* closes a cycle other than the one it measured only if the row was saved without the lock
\* while the check held it.
THEOREM FreshVerdictHolds == Spec => FreshUnlessCrossed
<1>1. Init => FreshInv
  BY InitHolds DEF FreshInv, Init, LooksAtCycle, Measured
<1>2. FreshInv /\ [Next]_vars => FreshInv'
  BY StepType, StepLock, LooksStep DEF FreshInv
<1>3. FreshInv => \A t \in Tasks :
        pc[t] = "save" => look[t].cycle = cycle[job[t].onu] \/ crossed[job[t].onu]
  BY DEF FreshInv, LooksAtCycle, Measured
<1>4. FreshInv /\ [Next]_vars
        => [\A t \in Tasks :
              Saves(t) /\ db'[job[t].onu].status \in Closed
                => look[t].cycle = cycle[job[t].onu] \/ crossed[job[t].onu]]_vars
  BY <1>3 DEF Saves
<1> QED
  BY <1>1, <1>2, <1>4, PTL DEF Spec, FreshUnlessCrossed
-----------------------------------------------------------------------------
(* Bounded heals *)

\* What a call in the locked part of an ONU has in memory agrees with the row, as long as
\* nobody saves the row without the lock.
Agrees(t) ==
  LET o   == job[t].onu
      row == db[o]
  IN
  /\ pc[t] \in {"retest"} \union Measured =>
       /\ copy[t].attempt = row.attempt
       /\ copy[t].status = row.status \/ heals[o] <= row.attempt + died[o]
  /\ pc[t] = "report" => inner[t].attempt = row.attempt
  /\ job[t].kind = "auto" /\ pc[t] \in {"visit"} \union Measured => row.status = "test"
  /\ job[t].kind = "auto" /\ pc[t] \in Inside /\ ~look[t].healed
       => heals[o] <= row.attempt + died[o]
  /\ job[t].kind = "auto" /\ pc[t] \in Measured =>
       /\ copy[t].status = "test"
       /\ pc[t] = "report" => inner[t].status = "test"
       /\ look[t].attempt = row.attempt + 1

\* A visit of the poller has healed at most once more than was counted when it began, and
\* an unlocked save begins a new count under it.
Visited(t) ==
  LET o == job[t].onu IN
  /\ pc[t] \in {"begin", "assign", "assigned", "device", "amend"} => job[t].kind # "auto"
  /\ look[t].healed =>
       pc[t] \in Measured \ {"plan"} \/ (pc[t] = "visit" /\ job[t].kind # "auto")
  /\ pc[t] \in Measured /\ look[t].canHeal => look[t].attempt <= HealMax
  /\ job[t].kind = "auto" /\ pc[t] \in Measured
       => look[t].attempt >= 1 /\ heals[o] <= look[t].attempt + died[o]
  /\ crossed[o] /\ pc[t] \in Inside
       => heals[o] <= died[o] + (IF Healed(t, o) THEN 1 ELSE 0)
  /\ ~crossed[o] => Agrees(t)

\* The heals of an ONU are counted in its row, unless the row is closed or a visit that has
\* healed is under way.
Counted(o) ==
  /\ heals[o] <= HealMax + died[o]
  /\ \/ heals[o] <= db[o].attempt + died[o]
     \/ db[o].status \in Closed
     \/ \E t \in Tasks : Healed(t, o)

VisitsRight == \A t \in Tasks : Visited(t)
HealsCounted == \A o \in Onus : Counted(o)

HealInv == TypeOK /\ InsideHoldsLock /\ VisitsRight /\ HealsCounted

LEMMA HealTypes ==
  ASSUME TypeOK
  PROVE  /\ \A t \in Tasks : /\ job[t] \in Job /\ job[t].onu \in Onus /\ look[t] \in Look
                            /\ copy[t] \in Row /\ inner[t] \in Row
                            /\ copy[t].attempt \in Nat /\ inner[t].attempt \in Nat
                            /\ look[t].attempt \in Nat /\ look[t].healed \in BOOLEAN
         /\ \A o \in Onus : /\ db[o] \in Row /\ db[o].attempt \in Nat /\ heals[o] \in Nat
                            /\ died[o] \in Nat /\ crossed[o] \in BOOLEAN
         /\ HealMax \in Nat /\ HealMax >= 1
  BY OnuVerifyAssumption DEF TypeOK, Job, Look, Row

\* The call that has the lock of o is the only one that can have healed it.
LEMMA OneHeals ==
  ASSUME HealInv, NEW t \in Tasks, HasLock(t), NEW u \in Tasks, Healed(u, job[t].onu)
  PROVE  u = t
<1>1. pc[u] \in Inside
  BY DEF HealInv, VisitsRight, Visited, Healed, Measured, Inside
<1> QED
  BY <1>1 DEF HealInv, InsideHoldsLock, HasLock, Healed

\* While t has the lock of o and has not healed, the row counts the heals or is closed.
LEMMA Unhealed ==
  ASSUME HealInv, NEW t \in Tasks, HasLock(t), ~Healed(t, job[t].onu)
  PROVE  \/ heals[job[t].onu] <= db[job[t].onu].attempt + died[job[t].onu]
         \/ db[job[t].onu].status \in Closed
<1>1. job[t].onu \in Onus
  BY HealTypes DEF HealInv
<1> QED
  BY <1>1, OneHeals DEF HealInv, HealsCounted, Counted

\* A call that is away from the locked part is right whatever becomes of the row.
LEMMA AwayVisited ==
  ASSUME NEW t \in Tasks, pc[t] \notin Inside, ~look[t].healed,
         pc[t] \in {"assign", "assigned", "device", "amend"} => job[t].kind # "auto"
  PROVE  Visited(t)
  BY DEF Visited, Agrees, Inside, Measured

\* The locked step of a call disturbs no other call.
LEMMA OthersVisited ==
  ASSUME HealInv, NEW t \in Tasks, LockedStep(t), NEW u \in Tasks, u # t PROVE Visited(u)'
<1>1. /\ pc'[u] = pc[u] /\ job'[u] = job[u] /\ copy'[u] = copy[u] /\ inner'[u] = inner[u]
      /\ look'[u] = look[u]
  BY OwnFrame DEF HealInv
<1>2. Visited(u) /\ job[u].onu \in Onus
  BY HealTypes DEF HealInv, VisitsRight
<1>3. CASE pc[u] \notin Inside
  <2>1. pc'[u] \notin Inside /\ (pc[u] = "visit" => pc[u] \in Inside)
    BY <1>1, <1>3 DEF Inside
  <2>2. ~look'[u].healed
    BY <1>1, <1>2, <1>3 DEF Visited, Inside, Measured
  <2>3. pc'[u] \in {"assign", "assigned", "device", "amend"} => job'[u].kind # "auto"
    BY <1>1, <1>2 DEF Visited
  <2> QED
    BY <2>1, <2>2, <2>3 DEF Visited, Agrees, Inside, Measured
<1>4. CASE pc[u] \in Inside
  <2>1. HasLock(t) /\ HasLock(u)
    BY <1>4, LockedHasLock DEF HealInv, InsideHoldsLock
  <2>2. job[u].onu # job[t].onu
    BY <2>1 DEF HasLock
  <2>3. /\ db'[job[u].onu] = db[job[u].onu] /\ heals'[job[u].onu] = heals[job[u].onu]
        /\ died'[job[u].onu] = died[job[u].onu] /\ crossed'[job[u].onu] = crossed[job[u].onu]
    BY <1>2, <2>2, OwnFrame, EntersOrStays DEF HealInv
  <2> QED
    BY <1>1, <1>2, <2>3 DEF Visited, Agrees, Healed
<1> QED
  BY <1>3, <1>4

\* The call goes on with its ONU, and has healed.
StillHealed(t) == job'[t] = job[t] /\ job[t].kind = "auto" /\ look'[t].healed

\* What a step of the call that has the lock must establish.
Settled(t) ==
  LET o == job[t].onu IN
  /\ Visited(t)'
  /\ heals'[o] <= HealMax + died'[o]
  /\ \/ heals'[o] <= db'[o].attempt + died'[o]
     \/ db'[o].status \in Closed
     \/ StillHealed(t)

LEMMA LockedSettles ==
  ASSUME HealInv, NEW t \in Tasks, LockedStep(t), Settled(t)
  PROVE  VisitsRight' /\ HealsCounted'
<1>1. \A u \in Tasks : Visited(u)'
  BY OthersVisited DEF Settled
<1>2. ASSUME NEW q \in Onus, q # job[t].onu PROVE Counted(q)'
  <2>1. db'[q] = db[q] /\ heals'[q] = heals[q] /\ died'[q] = died[q]
    BY <1>2, OwnFrame DEF HealInv
  <2>2. ASSUME NEW u \in Tasks, Healed(u, q) PROVE Healed(u, q)'
    <3>1. u # t
      BY <1>2, <2>2 DEF Healed
    <3> QED
      BY <2>2, <3>1, OwnFrame DEF HealInv, Healed
  <2> QED
    BY <2>1, <2>2 DEF HealInv, HealsCounted, Counted
<1>3. ASSUME NEW q \in Onus, q = job[t].onu PROVE Counted(q)'
  <2>1. StillHealed(t) => Healed(t, q)'
    BY <1>3 DEF StillHealed, Healed
  <2> QED
    BY <1>3, <2>1 DEF Settled, Counted
<1> QED
  BY <1>1, <1>2, <1>3 DEF VisitsRight, HealsCounted

\* What is known of a call that takes a step in the locked part.
LEMMA VisitFacts ==
  ASSUME HealInv, NEW t \in Tasks, NEW o, o = job[t].onu
  PROVE  /\ o \in Onus /\ job[t] \in Job /\ look[t] \in Look /\ db[o] \in Row
         /\ copy[t] \in Row /\ inner[t] \in Row
         /\ copy[t].attempt \in Nat /\ inner[t].attempt \in Nat /\ db[o].attempt \in Nat
         /\ look[t].attempt \in Nat /\ look[t].healed \in BOOLEAN
         /\ heals[o] \in Nat /\ died[o] \in Nat /\ crossed[o] \in BOOLEAN
         /\ HealMax \in Nat /\ HealMax >= 1 /\ heals[o] <= HealMax + died[o]
         /\ pc \in [Tasks -> LocalPcs] /\ job \in [Tasks -> Job] /\ look \in [Tasks -> Look]
         /\ copy \in [Tasks -> Row] /\ inner \in [Tasks -> Row] /\ db \in [Onus -> Row]
         /\ heals \in [Onus -> Nat] /\ died \in [Onus -> Nat] /\ crossed \in [Onus -> BOOLEAN]
         /\ Visited(t)
  BY HealTypes DEF HealInv, TypeOK, HealsCounted, Counted, VisitsRight

\* A call that settles or goes back to its next round is right.
LEMMA ForgotSettled ==
  ASSUME HealInv, NEW t \in Tasks, pc'[t] = "idle", ~look'[t].healed,
         heals'[job[t].onu] <= HealMax + died'[job[t].onu],
         \/ heals'[job[t].onu] <= db'[job[t].onu].attempt + died'[job[t].onu]
         \/ db'[job[t].onu].status \in Closed
  PROVE  Settled(t)
<1>1. Visited(t)'
  BY DEF Visited, Agrees, Inside, Measured
<1> QED
  BY <1>1 DEF Settled

\* Up to the visit: a new cycle starts at 0; the poller's pass opens a row in test.
LEMMA BeginSettled ==
  ASSUME HealInv, NEW t \in Tasks,
         StartRead(t) \/ StartSave(t) \/ HealthPassRead(t) \/ HealthPassRetest(t)
  PROVE  Settled(t)
<1> DEFINE o == job[t].onu
<1>0. /\ o \in Onus /\ copy[t] \in Row /\ db[o] \in Row /\ heals[o] \in Nat /\ died[o] \in Nat
      /\ HealMax \in Nat /\ db[o].attempt \in Nat /\ copy[t].attempt \in Nat
      /\ pc \in [Tasks -> LocalPcs] /\ job \in [Tasks -> Job] /\ copy \in [Tasks -> Row]
      /\ look \in [Tasks -> Look] /\ crossed \in [Onus -> BOOLEAN]
      /\ db \in [Onus -> Row] /\ heals \in [Onus -> Nat] /\ died \in [Onus -> Nat]
      /\ heals[o] <= HealMax + died[o] /\ Visited(t)
  BY VisitFacts
<1>1. HasLock(t) /\ pc[t] \in {"queued", "begin", "retest"}
  BY DEF HealInv, InsideHoldsLock, Inside, StartRead, StartSave, HealthPassRead,
         HealthPassRetest
<1>2. ~look[t].healed
  BY <1>0, <1>1 DEF Visited, Measured
<1>3. heals[o] <= db[o].attempt + died[o] \/ db[o].status \in Closed
  BY <1>1, <1>2, Unhealed DEF Healed
<1>4. CASE StartRead(t)
  <2>1. /\ pc'[t] = "begin" /\ job' = job /\ look' = look /\ db' = db /\ heals' = heals
        /\ died' = died /\ ~crossed'[o] /\ job[t].kind = "start"
    BY <1>0, <1>4 DEF StartRead, Goto, Enters
  <2>2. Visited(t)'
    BY <1>2, <2>1 DEF Visited, Agrees, Measured
  <2> QED
    BY <1>0, <1>3, <2>1, <2>2 DEF Settled
<1>5. CASE StartSave(t)
  <2>1. /\ heals'[o] = 0 /\ died'[o] = 0 /\ db'[o] = Fresh(copy[t]) /\ pc'[t] = "idle"
        /\ ~look'[t].healed
    BY <1>0, <1>5 DEF StartSave, Store, Release, Forget, Visited, BlankLook
  <2>2. db'[o].attempt = 0
    BY <1>0, <2>1 DEF Fresh, Row
  <2> QED
    BY <1>0, <2>1, <2>2, ForgotSettled
<1>6. CASE HealthPassRead(t)
  <2>0. db' = db /\ heals' = heals /\ died' = died
    BY <1>6 DEF HealthPassRead
  <2>1. CASE Release(t)
    <3>1. pc'[t] = "idle" /\ ~look'[t].healed
      BY <1>0, <2>1 DEF Release, Forget, BlankLook
    <3> QED
      BY <1>0, <1>3, <2>0, <3>1, ForgotSettled
  <2>2. CASE /\ ~SkipsHealthPass(job[t].kind, db[o]) /\ Enters(t) /\ Read(t)
             /\ Goto(t, IF db[o].status = "test" THEN "visit" ELSE "retest")
             /\ UNCHANGED <<chain, job, inner, look>>
    <3>1. /\ pc'[t] = (IF db[o].status = "test" THEN "visit" ELSE "retest")
          /\ copy'[t] = db[o] /\ job' = job /\ look' = look /\ ~crossed'[o]
      BY <1>0, <2>2 DEF Read, Goto, Enters
    <3>2. job[t].kind = "auto" => heals[o] <= db[o].attempt + died[o]
      BY <1>3, <2>2 DEF SkipsHealthPass
    <3>3. Visited(t)'
      BY <1>2, <2>0, <3>1, <3>2 DEF Visited, Agrees, Measured
    <3> QED
      BY <1>0, <1>3, <2>0, <3>3 DEF Settled
  <2> QED
    BY <1>6, <2>1, <2>2 DEF HealthPassRead
<1>7. CASE HealthPassRetest(t)
  <2>1. /\ pc[t] = "retest" /\ pc'[t] = "visit" /\ job' = job /\ look' = look
        /\ crossed' = crossed
        /\ db'[o].status = "test"
        /\ db'[o].attempt = IF job[t].kind = "force" THEN 0 ELSE copy[t].attempt
        /\ heals'[o] = IF job[t].kind = "auto" THEN heals[o] ELSE 0
        /\ died'[o] = IF job[t].kind = "auto" THEN died[o] ELSE 0
    BY <1>0, <1>7 DEF HealthPassRetest, Store, Goto, Row
  <2>2. heals'[o] <= db'[o].attempt + died'[o]
    <3>1. CASE job[t].kind # "auto"
      BY <1>0, <2>1, <3>1
    <3>2. CASE job[t].kind = "auto" /\ crossed[o]
      <4>1. heals[o] <= died[o]
        BY <1>0, <1>2, <2>1, <3>2 DEF Visited, Inside, Healed
      <4> QED
        BY <1>0, <2>1, <3>2, <4>1
    <3>3. CASE job[t].kind = "auto" /\ ~crossed[o]
      BY <1>0, <1>2, <2>1, <3>3 DEF Visited, Agrees, Inside
    <3> QED
      BY <1>0, <3>1, <3>2, <3>3
  <2>3. crossed[o] => heals'[o] <= died'[o]
    BY <1>0, <1>2, <2>1 DEF Visited, Inside, Healed
  <2>4. heals'[o] <= HealMax + died'[o]
    BY <1>0, <2>1
  <2>5. Agrees(t)'
    BY <1>2, <2>1, <2>2 DEF Agrees, Measured
  <2>6. crossed'[o] => heals'[o] <= died'[o] + (IF Healed(t, o)' THEN 1 ELSE 0)
    BY <1>0, <1>2, <2>1, <2>3 DEF Healed
  <2>7. Visited(t)'
    BY <1>2, <2>1, <2>5, <2>6 DEF Visited, Measured
  <2> QED
    BY <2>2, <2>4, <2>7 DEF Settled
<1> QED
  BY <1>4, <1>5, <1>6, <1>7

\* The visit's attempt is one more than the row counts, and decides whether it heals.
LEMMA LoadSettled ==
  ASSUME HealInv, NEW t \in Tasks, HasLock(t), CheckLoad(t) PROVE Settled(t)
<1> DEFINE o == job[t].onu
<1>0. /\ o \in Onus /\ db[o].attempt \in Nat /\ heals[o] \in Nat /\ HealMax \in Nat
      /\ died[o] \in Nat /\ heals[o] <= HealMax + died[o] /\ Visited(t)
      /\ pc \in [Tasks -> LocalPcs] /\ copy \in [Tasks -> Row] /\ look \in [Tasks -> Look]
      /\ crossed \in [Onus -> BOOLEAN]
  BY VisitFacts
<1>1. /\ pc'[t] = "plan" /\ copy'[t] = db[o] /\ job' = job /\ db' = db /\ heals' = heals
      /\ died' = died
  BY <1>0 DEF CheckLoad, Goto, Read
<1>2. /\ look'[t].attempt = AttemptOf(t, db[o]) /\ look'[t].healed = FALSE
      /\ look'[t].canHeal => look'[t].attempt <= HealMax
  BY <1>0 DEF CheckLoad, BlankLook
<1>3. job[t].kind = "auto" => /\ pc[t] = "visit" /\ ~look[t].healed /\ crossed' = crossed
                             /\ AttemptOf(t, db[o]) = db[o].attempt + 1
  BY <1>0 DEF CheckLoad, AtVisit, Visited, AttemptOf, Repeats, Measured
<1>4. ~Healed(t, o)
  BY <1>3 DEF Healed
<1>5. heals[o] <= db[o].attempt + died[o] \/ db[o].status \in Closed
  BY <1>4, Unhealed
<1>6. crossed'[o] => crossed[o] /\ pc[t] \in Inside
  BY <1>0 DEF CheckLoad, AtVisit, Enters, Inside
<1>7. crossed'[o] => heals[o] <= died[o]
  BY <1>0, <1>4, <1>6 DEF Visited
<1>8. job[t].kind = "auto" /\ ~crossed[o] =>
        db[o].status = "test" /\ heals[o] <= db[o].attempt + died[o]
  BY <1>0, <1>3 DEF Visited, Agrees, Inside
<1>9. job[t].kind = "auto" =>
        look'[t].attempt >= 1 /\ heals[o] <= look'[t].attempt + died[o]
  <2>1. CASE crossed[o]
    BY <1>0, <1>2, <1>3, <1>7, <2>1
  <2>2. CASE ~crossed[o]
    BY <1>0, <1>2, <1>3, <1>8, <2>2
  <2> QED
    BY <2>1, <2>2
<1>10. ~crossed'[o] => Agrees(t)'
  BY <1>1, <1>2, <1>3, <1>8 DEF Agrees, Measured
<1>11. crossed'[o] => heals'[o] <= died'[o] + (IF Healed(t, o)' THEN 1 ELSE 0)
  BY <1>0, <1>1, <1>2, <1>7 DEF Healed
<1>12. Visited(t)'
  BY <1>1, <1>2, <1>9, <1>10, <1>11 DEF Visited, Measured
<1> QED
  BY <1>0, <1>1, <1>5, <1>12 DEF Settled

\* A heal of the poller's visit stays within the limit and within the visit's attempt.
LEMMA HealsBudget ==
  ASSUME HealInv, NEW t \in Tasks, pc[t] \in Measured, NEW now \in BOOLEAN, Heals(t, now),
         NEW o \in Onus, o = job[t].onu
  PROVE  /\ heals'[o] \in Nat /\ heals'[o] <= HealMax + died[o]
         /\ job[t].kind # "auto" => heals'[o] = heals[o]
         /\ job[t].kind = "auto" => heals'[o] <= look[t].attempt + died[o]
         /\ ~now => heals'[o] = heals[o]
         /\ crossed[o] /\ job[t].kind = "auto" => heals'[o] <= died[o] + 1
<1>1. /\ heals \in [Onus -> Nat] /\ heals[o] \in Nat /\ heals[o] <= HealMax + died[o]
      /\ died[o] \in Nat /\ HealMax \in Nat /\ HealMax >= 1
      /\ db[o].attempt \in Nat /\ look[t].attempt \in Nat /\ Visited(t) /\ pc[t] \in Inside
  BY VisitFacts DEF Measured, Inside
<1>2. CASE now /\ ~look[t].healed /\ job[t].kind = "auto"
  <2>1. heals'[o] = heals[o] + 1 /\ look[t].canHeal
    BY <1>1, <1>2 DEF Heals
  <2>2. look[t].attempt <= HealMax /\ look[t].attempt >= 1
    BY <1>1, <1>2, <2>1 DEF Visited
  <2>3. CASE crossed[o]
    <3>1. heals[o] <= died[o]
      BY <1>1, <1>2, <2>3 DEF Visited, Healed
    <3> QED
      BY <1>1, <1>2, <2>1, <2>2, <3>1
  <2>4. CASE ~crossed[o]
    <3>1. heals[o] <= db[o].attempt + died[o] /\ look[t].attempt = db[o].attempt + 1
      BY <1>1, <1>2, <2>4 DEF Visited, Agrees
    <3> QED
      BY <1>1, <1>2, <2>1, <2>2, <2>4, <3>1
  <2> QED
    BY <2>3, <2>4
<1>3. CASE ~(now /\ ~look[t].healed /\ job[t].kind = "auto")
  <2>1. heals' = heals
    BY <1>3 DEF Heals
  <2>2. crossed[o] => heals[o] <= died[o] + 1
    BY <1>1 DEF Visited
  <2>3. job[t].kind = "auto" => heals[o] <= look[t].attempt + died[o]
    BY <1>1 DEF Visited
  <2> QED
    BY <1>1, <1>3, <2>1, <2>2, <2>3
<1> QED
  BY <1>2, <1>3

\* The steps that write to the devices.
LEMMA HealSettled ==
  ASSUME HealInv, NEW t \in Tasks, CheckPlan(t) \/ CheckProbe(t) \/ HealReturns(t)
  PROVE  Settled(t)
<1> DEFINE o == job[t].onu
<1>0. /\ o \in Onus /\ db[o].attempt \in Nat /\ heals[o] \in Nat /\ HealMax \in Nat
      /\ died[o] \in Nat /\ look[t].attempt \in Nat /\ look[t].healed \in BOOLEAN
      /\ Visited(t) /\ look[t] \in Look /\ crossed[o] \in BOOLEAN
      /\ pc \in [Tasks -> LocalPcs] /\ look \in [Tasks -> Look] /\ db \in [Onus -> Row]
  BY VisitFacts
<1>1. pc[t] \in Measured \ {"report"} /\ pc[t] \in Inside
  BY DEF CheckPlan, CheckProbe, HealReturns, Measured, Inside
<1>2. HasLock(t)
  BY <1>1 DEF HealInv, InsideHoldsLock
<1>3. PICK now \in BOOLEAN :
        /\ Heals(t, now)
        /\ look'[t].healed = (look[t].healed \/ now)
        /\ look'[t].canHeal = look[t].canHeal /\ look'[t].attempt = look[t].attempt
  <2>1. CASE CheckPlan(t)
    <3>1. PICK matched, healed \in BOOLEAN :
             /\ Heals(t, healed)
             /\ look' = [look EXCEPT ![t] =
                          [@ EXCEPT !.plan = IF matched THEN "matched" ELSE "mismatched",
                                    !.healed = healed,
                                    !.irrecoverable = matched /\ ~copy[t].wan]]
      BY <2>1 DEF CheckPlan
    <3>2. ~look[t].healed
      BY <1>0, <2>1 DEF CheckPlan, Visited, Measured
    <3> QED
      BY <1>0, <3>1, <3>2 DEF Look
  <2>2. CASE CheckProbe(t)
    <3>1. PICK evidence \in Evidence, healed \in BOOLEAN :
             /\ Heals(t, healed)
             /\ look' = [look EXCEPT ![t].evidence = evidence,
                                     ![t].healed = @ \/ healed]
      BY <2>2 DEF CheckProbe
    <3> QED
      BY <1>0, <3>1 DEF Look
  <2>3. CASE HealReturns(t)
    BY <1>0, <2>3 DEF HealReturns, Look
  <2> QED
    BY <2>1, <2>2, <2>3
<1>4. /\ job' = job /\ copy' = copy /\ died' = died /\ crossed' = crossed
      /\ pc'[t] \in Measured \ {"plan", "report"}
      /\ db'[o] = db[o] \/ db'[o] = copy[t]
  <2>1. CASE CheckPlan(t)
    <3>1. PICK label \in {"probe", "decide"} : Goto(t, label)
      BY <2>1 DEF CheckPlan
    <3> QED
      BY <1>0, <2>1, <3>1 DEF CheckPlan, Goto, Measured
  <2>2. CASE CheckProbe(t)
    <3>1. PICK label \in {"repush", "decide"} : Goto(t, label)
      BY <2>2 DEF CheckProbe
    <3> QED
      BY <1>0, <2>2, <3>1 DEF CheckProbe, Goto, Measured
  <2>3. CASE HealReturns(t)
    BY <1>0, <2>3 DEF HealReturns, Goto, Measured
  <2> QED
    BY <2>1, <2>2, <2>3
<1>5. /\ heals'[o] \in Nat /\ heals'[o] <= HealMax + died[o]
      /\ job[t].kind # "auto" => heals'[o] = heals[o]
      /\ job[t].kind = "auto" => heals'[o] <= look[t].attempt + died[o]
      /\ ~now => heals'[o] = heals[o]
      /\ crossed[o] /\ job[t].kind = "auto" => heals'[o] <= died[o] + 1
  BY <1>0, <1>1, <1>3, HealsBudget
<1>6. CASE crossed[o]
  <2>1. heals[o] <= died[o] + (IF Healed(t, o) THEN 1 ELSE 0)
    BY <1>0, <1>1, <1>6 DEF Visited
  <2>2. job[t].kind = "auto" => look[t].attempt >= 1
    BY <1>0, <1>1 DEF Visited
  <2>3. heals'[o] <= died[o] + (IF job[t].kind = "auto" /\ look'[t].healed THEN 1 ELSE 0)
    <3>1. CASE job[t].kind = "auto" /\ look'[t].healed
      BY <1>5, <1>6, <3>1
    <3>2. CASE ~(job[t].kind = "auto" /\ look'[t].healed)
      <4>1. ~Healed(t, o) /\ heals'[o] = heals[o]
        BY <1>3, <1>5, <3>2 DEF Healed
      <4> QED
        BY <2>1, <3>2, <4>1
    <3> QED
      BY <3>1, <3>2
  <2>4. Visited(t)'
    <3>1. crossed'[o] /\ Healed(t, o)' = (job[t].kind = "auto" /\ look'[t].healed)
      BY <1>4, <1>6 DEF Healed
    <3>2. /\ look'[t].canHeal => look'[t].attempt <= HealMax
          /\ job'[t].kind = "auto"
               => look'[t].attempt >= 1 /\ heals'[o] <= look'[t].attempt + died'[o]
      BY <1>0, <1>1, <1>3, <1>4, <1>5, <2>2 DEF Visited
    <3> QED
      BY <1>4, <2>3, <3>1, <3>2 DEF Visited, Measured
  <2>5. heals'[o] <= db'[o].attempt + died'[o] \/ StillHealed(t)
    <3>1. db'[o].attempt \in Nat
      BY <1>0, <1>4, VisitFacts
    <3>2. CASE job[t].kind = "auto" /\ look'[t].healed
      BY <1>4, <3>2 DEF StillHealed
    <3>3. CASE ~(job[t].kind = "auto" /\ look'[t].healed)
      BY <1>0, <1>4, <1>5, <2>3, <3>1, <3>3
    <3> QED
      BY <3>2, <3>3
  <2> QED
    BY <1>4, <1>5, <2>4, <2>5 DEF Settled
<1>7. CASE ~crossed[o]
  <2>1. /\ copy[t].attempt = db[o].attempt
        /\ copy[t].status = db[o].status \/ heals[o] <= db[o].attempt + died[o]
        /\ job[t].kind = "auto" => /\ copy[t].status = "test" /\ db[o].status = "test"
                                  /\ look[t].attempt = db[o].attempt + 1
        /\ job[t].kind = "auto" /\ ~look[t].healed => heals[o] <= db[o].attempt + died[o]
    BY <1>0, <1>1, <1>7 DEF Visited, Agrees
  <2>2. /\ db'[o].attempt = db[o].attempt /\ (job[t].kind = "auto" => db'[o].status = "test")
        /\ copy[t].status = db'[o].status \/ heals[o] <= db[o].attempt + died[o]
    BY <1>4, <2>1
  <2>3. job[t].kind = "auto" /\ ~look'[t].healed => heals'[o] <= db'[o].attempt + died'[o]
    BY <1>3, <1>4, <1>5, <2>1, <2>2
  <2>4. job[t].kind # "auto" =>
          copy[t].status = db'[o].status \/ heals'[o] <= db'[o].attempt + died'[o]
    BY <1>4, <1>5, <2>2
  <2>5. Agrees(t)'
    BY <1>3, <1>4, <2>1, <2>2, <2>3, <2>4 DEF Agrees, Measured
  <2>6. Visited(t)'
    <3>1. /\ look'[t].canHeal => look'[t].attempt <= HealMax
          /\ job'[t].kind = "auto"
               => look'[t].attempt >= 1 /\ heals'[o] <= look'[t].attempt + died'[o]
      BY <1>0, <1>1, <1>3, <1>4, <1>5 DEF Visited
    <3> QED
      BY <1>4, <1>7, <2>5, <3>1 DEF Visited, Measured
  <2>7. \/ heals'[o] <= db'[o].attempt + died'[o]
        \/ db'[o].status \in Closed
        \/ StillHealed(t)
    <3>1. CASE job[t].kind = "auto"
      BY <1>4, <2>3, <3>1 DEF StillHealed
    <3>2. CASE job[t].kind # "auto"
      <4>1. heals[o] <= db[o].attempt + died[o] \/ db[o].status \in Closed
        BY <1>2, <3>2, Unhealed DEF Healed
      <4> QED
        BY <1>4, <1>5, <2>1, <2>2, <3>2, <4>1
    <3> QED
      BY <3>1, <3>2
  <2> QED
    BY <1>4, <1>5, <2>6, <2>7 DEF Settled
<1> QED
  BY <1>0, <1>6, <1>7

\* The reads of a visit.
LEMMA ReadSettled ==
  ASSUME HealInv, NEW t \in Tasks,
         \/ RepushRead(t) \/ AdoptReread(t) \/ ProgressRead(t) \/ CheckRefresh(t)
         \/ CheckDecide(t)
  PROVE  Settled(t)
<1> DEFINE o == job[t].onu
<1>0. /\ o \in Onus /\ Visited(t) /\ look[t] \in Look /\ heals[o] <= HealMax + died[o]
      /\ pc \in [Tasks -> LocalPcs] /\ look \in [Tasks -> Look]
      /\ copy \in [Tasks -> Row] /\ inner \in [Tasks -> Row]
  BY VisitFacts
<1>1. pc[t] \in Measured \ {"plan"} /\ pc[t] \in Inside
  BY DEF RepushRead, AdoptReread, ProgressRead, CheckRefresh, CheckDecide, Measured, Inside
<1>2. job' = job /\ db' = db /\ heals' = heals /\ died' = died /\ crossed' = crossed
  BY DEF RepushRead, AdoptReread, ProgressRead, CheckRefresh, CheckDecide
<1>3. /\ look'[t].healed = look[t].healed /\ look'[t].canHeal = look[t].canHeal
      /\ look'[t].attempt = look[t].attempt
  BY <1>0 DEF RepushRead, AdoptReread, ProgressRead, CheckRefresh, CheckDecide, Look
<1>4. /\ pc'[t] \in Measured \ {"plan"} /\ copy'[t] \in {copy[t], db[o]}
      /\ pc'[t] = "report" => inner'[t] = db[o]
  <2>1. CASE RepushRead(t) \/ AdoptReread(t)
    <3>1. PICK label \in {"adopt", "heal", "refresh"} : Goto(t, label)
      BY <2>1 DEF RepushRead, AdoptReread
    <3> QED
      BY <1>0, <2>1, <3>1 DEF RepushRead, AdoptReread, Goto, Read, Measured
  <2>2. CASE ProgressRead(t) \/ CheckRefresh(t) \/ CheckDecide(t)
    BY <1>0, <2>2 DEF ProgressRead, CheckRefresh, CheckDecide, Goto, Read, Measured
  <2> QED
    BY <2>1, <2>2
<1>5. ~crossed[o] => Agrees(t)'
  <2>1. ~crossed[o] => Agrees(t)
    BY <1>0 DEF Visited
  <2> QED
    BY <1>1, <1>2, <1>3, <1>4, <2>1 DEF Agrees, Measured, Inside
<1>6. Visited(t)'
  BY <1>0, <1>1, <1>2, <1>3, <1>4, <1>5 DEF Visited, Healed, Measured
<1>7. \/ heals[o] <= db[o].attempt + died[o]
      \/ db[o].status \in Closed
      \/ StillHealed(t)
  <2>1. CASE Healed(t, o)
    BY <1>2, <1>3, <2>1 DEF Healed, StillHealed
  <2>2. CASE ~Healed(t, o)
    BY <1>1, <2>2, Unhealed DEF HealInv, InsideHoldsLock
  <2> QED
    BY <2>1, <2>2
<1> QED
  BY <1>0, <1>2, <1>6, <1>7 DEF Settled

\* The saves of a heal: the row takes the attempt it already has, unless somebody saved it
\* without the lock.
LEMMA StoreSettled ==
  ASSUME HealInv, NEW t \in Tasks, AdoptSave(t) \/ ProgressSave(t) \/ RebootSave(t)
  PROVE  Settled(t)
<1> DEFINE o == job[t].onu
<1>0. /\ o \in Onus /\ Visited(t) /\ heals[o] \in Nat /\ died[o] \in Nat /\ HealMax \in Nat
      /\ heals[o] <= HealMax + died[o] /\ copy[t] \in Row /\ inner[t] \in Row
      /\ copy[t].attempt \in Nat /\ inner[t].attempt \in Nat /\ look[t].attempt \in Nat
      /\ pc \in [Tasks -> LocalPcs] /\ db \in [Onus -> Row] /\ heals \in [Onus -> Nat]
      /\ died \in [Onus -> Nat]
  BY VisitFacts
<1>1. pc[t] \in {"adopt", "report"}
  BY DEF AdoptSave, ProgressSave, RebootSave
<1>2. /\ job' = job /\ copy' = copy /\ inner' = inner /\ look' = look /\ crossed' = crossed
      /\ pc'[t] \in {"reread", "healed"}
      /\ heals'[o] = IF job[t].kind = "auto" THEN heals[o] ELSE 0
      /\ died'[o] = IF job[t].kind = "auto" THEN died[o] ELSE 0
  BY <1>0 DEF AdoptSave, ProgressSave, RebootSave, Store, Goto
<1>3. /\ db'[o].attempt \in {copy[t].attempt, inner[t].attempt}
      /\ pc[t] # "report" => db'[o].attempt = copy[t].attempt /\ db'[o].status = copy[t].status
      /\ pc[t] = "report" => /\ db'[o].attempt = inner[t].attempt
                             /\ inner[t].status = "test" => db'[o].status = "test"
  <2>1. CASE AdoptSave(t)
    BY <1>0, <2>1 DEF AdoptSave, Store
  <2>2. CASE ProgressSave(t)
    <3>1. PICK status, started :
            /\ db'[o] = [inner[t] EXCEPT !.status = status, !.started = started]
            /\ status = IF inner[t].status = "idle" THEN "test" ELSE inner[t].status
      BY <1>0, <2>2 DEF ProgressSave, Store, Row
    <3> QED
      BY <1>0, <2>2, <3>1 DEF ProgressSave, Row
  <2>3. CASE RebootSave(t)
    BY <1>0, <2>3 DEF RebootSave, Store
  <2> QED
    BY <2>1, <2>2, <2>3
<1>4. db'[o].attempt \in Nat
  BY <1>0, <1>3
<1>5. ~crossed[o] =>
        /\ db'[o].attempt = db[o].attempt /\ copy[t].attempt = db[o].attempt
        /\ job[t].kind = "auto" => /\ db'[o].status = "test" /\ copy[t].status = "test"
                                   /\ look[t].attempt = db[o].attempt + 1
        /\ job[t].kind = "auto" /\ ~look[t].healed => heals[o] <= db[o].attempt + died[o]
  BY <1>0, <1>1, <1>3 DEF Visited, Agrees, Measured, Inside
<1>6. crossed[o] => heals'[o] <= died'[o] + (IF Healed(t, o) THEN 1 ELSE 0)
  BY <1>0, <1>1, <1>2 DEF Visited, Inside
<1>7. ~crossed[o] => Agrees(t)'
  <2>1. job[t].kind # "auto" => heals'[o] <= db'[o].attempt + died'[o]
    BY <1>2, <1>4
  <2> QED
    BY <1>2, <1>5, <2>1 DEF Agrees, Measured
<1>8. Visited(t)'
  <2>1. job[t].kind = "auto"
          => look[t].attempt >= 1 /\ heals'[o] <= look[t].attempt + died'[o]
    BY <1>0, <1>1, <1>2 DEF Visited, Measured
  <2>2. look[t].canHeal => look[t].attempt <= HealMax
    BY <1>0, <1>1 DEF Visited, Measured
  <2>3. Healed(t, o)' = Healed(t, o)
    BY <1>2 DEF Healed
  <2> QED
    BY <1>2, <1>6, <1>7, <2>1, <2>2, <2>3 DEF Visited, Measured
<1>9. heals'[o] <= db'[o].attempt + died'[o] \/ StillHealed(t)
  <2>1. CASE Healed(t, o)
    BY <1>2, <2>1 DEF Healed, StillHealed
  <2>2. CASE ~Healed(t, o) /\ crossed[o]
    BY <1>0, <1>2, <1>4, <1>6, <2>2
  <2>3. CASE ~Healed(t, o) /\ ~crossed[o] /\ job[t].kind = "auto"
    BY <1>2, <1>5, <2>3 DEF Healed
  <2>4. CASE job[t].kind # "auto"
    BY <1>2, <1>4, <2>4
  <2> QED
    BY <2>1, <2>2, <2>3, <2>4
<1> QED
  BY <1>0, <1>2, <1>8, <1>9 DEF Settled

\* The last save puts the visit's attempt, which covers its heal, into the row.
LEMMA SaveSettled ==
  ASSUME HealInv, NEW t \in Tasks, CheckSave(t) PROVE Settled(t)
<1> DEFINE o == job[t].onu
<1>0. /\ o \in Onus /\ heals[o] \in Nat /\ died[o] \in Nat /\ HealMax \in Nat
      /\ look[t].attempt \in Nat /\ heals[o] <= HealMax + died[o]
      /\ Visited(t) /\ copy[t] \in Row /\ look[t] \in Look /\ job[t] \in Job
      /\ pc \in [Tasks -> LocalPcs] /\ job \in [Tasks -> Job] /\ look \in [Tasks -> Look]
      /\ db \in [Onus -> Row] /\ heals \in [Onus -> Nat] /\ died \in [Onus -> Nat]
  BY VisitFacts
<1>1. Concluded(t) \in Row /\ Concluded(t).attempt \in Nat
  BY ConcludedType DEF HealInv, Row
<1>2. /\ db'[o] = Concluded(t) /\ crossed' = crossed
      /\ heals'[o] = IF job[t].kind = "auto" THEN heals[o] ELSE 0
      /\ died'[o] = IF job[t].kind = "auto" THEN died[o] ELSE 0
  BY <1>0 DEF CheckSave, Store
<1>3. heals'[o] <= db'[o].attempt + died'[o] \/ db'[o].status \in Closed
  <2>1. CASE job[t].kind # "auto"
    BY <1>1, <1>2, <2>1
  <2>2. CASE job[t].kind = "auto" /\ KeepsOk(t)
    <3>1. Concluded(t).status = "ok"
      BY <1>0, <2>2 DEF Concluded, KeepsOk, Row
    <3> QED
      BY <1>2, <3>1 DEF Closed
  <2>3. CASE job[t].kind = "auto" /\ ~KeepsOk(t)
    <3>1. Concluded(t).attempt = look[t].attempt
      BY <1>0, <2>3 DEF Concluded, Row
    <3>2. heals[o] <= look[t].attempt + died[o]
      BY <1>0, <2>3 DEF CheckSave, Visited, Measured
    <3> QED
      BY <1>2, <2>3, <3>1, <3>2
  <2> QED
    BY <2>1, <2>2, <2>3
<1>4. heals'[o] <= HealMax + died'[o]
  BY <1>0, <1>2
<1>5. CASE Release(t)
  <2>1. pc'[t] = "idle" /\ ~look'[t].healed
    BY <1>0, <1>5 DEF Release, Forget, BlankLook
  <2> QED
    BY <1>3, <1>4, <2>1, ForgotSettled
<1>6. CASE GoesRound(t) /\ job' = [job EXCEPT ![t].round = @ + 1] /\ Goto(t, "visit")
  <2>1. /\ pc'[t] = "visit" /\ job'[t].kind = job[t].kind /\ job'[t].onu = o
        /\ job[t].kind # "auto"
    BY <1>0, <1>6 DEF GoesRound, Repeats, Goto, Job
  <2>2. heals'[o] = 0 /\ died'[o] = 0
    BY <1>2, <2>1
  <2>3. Agrees(t)'
    BY <2>1 DEF Agrees, Measured
  <2>4. Visited(t)'
    BY <2>1, <2>2, <2>3 DEF Visited, Measured
  <2> QED
    BY <1>3, <1>4, <2>4 DEF Settled
<1> QED
  BY <1>5, <1>6 DEF CheckSave

\* A save outside the lock begins a new count; the calls of that ONU know of it.
LEMMA AcrossHeals ==
  ASSUME HealInv, NEW t \in Tasks, UnlockedStep(t) PROVE VisitsRight' /\ HealsCounted'
<1> DEFINE o == job[t].onu
<1>0. o \in Onus /\ look[t] \in Look /\ Visited(t) /\ look \in [Tasks -> Look]
  BY VisitFacts
<1>1. /\ pc[t] \in {"assign", "assigned", "device", "amend"} /\ job[t].kind # "auto"
      /\ ~look[t].healed
  BY <1>0 DEF UnlockedStep, ApplyAssign, AssignSave, UnlockedRead, MarkSave, PlanSave, DbaSave,
     RecheckSave, Visited, Measured
<1>2. UNCHANGED <<db, heals, died, crossed>> \/ (crossed'[o] /\ heals'[o] = 0 /\ died'[o] = 0)
  <2>1. CASE ApplyAssign(t) \/ UnlockedRead(t)
    BY <2>1 DEF ApplyAssign, UnlockedRead
  <2>2. ASSUME NEW row, StoreAcross(t, row)
        PROVE  crossed'[o] /\ heals'[o] = 0 /\ died'[o] = 0
    BY <1>0, <1>1, <2>2 DEF StoreAcross, Store, HealInv, TypeOK
  <2>3. CASE AssignSave(t) \/ MarkSave(t) \/ PlanSave(t) \/ DbaSave(t) \/ RecheckSave(t)
    BY <2>2, <2>3 DEF AssignSave, MarkSave, PlanSave, DbaSave, RecheckSave
  <2> QED
    BY <2>1, <2>3 DEF UnlockedStep
<1>3. /\ ~look'[t].healed
      /\ pc'[t] \in {"assigned", "device", "amend"} => job'[t].kind # "auto"
  <2>1. CASE ApplyAssign(t) \/ AssignSave(t) \/ RecheckSave(t)
    BY <1>0, <1>1, <2>1 DEF ApplyAssign, AssignSave, RecheckSave, Goto, HealInv, TypeOK
  <2>2. CASE UnlockedRead(t)
    <3>1. CASE Forget(t)
      BY <1>0, <3>1 DEF Forget, BlankLook, HealInv, TypeOK
    <3>2. CASE UNCHANGED <<job, inner>>
      BY <1>0, <1>1, <2>2, <3>2 DEF UnlockedRead, Forget, BlankLook, Look, HealInv, TypeOK
    <3> QED
      BY <2>2, <3>1, <3>2 DEF UnlockedRead
  <2>3. CASE MarkSave(t) \/ PlanSave(t) \/ DbaSave(t)
    BY <1>0, <2>3 DEF MarkSave, PlanSave, DbaSave, Forget, BlankLook, HealInv, TypeOK
  <2> QED
    BY <2>1, <2>2, <2>3 DEF UnlockedStep
<1>4. Visited(t)'
  <2>1. pc'[t] \notin Inside
    BY AcrossFrame DEF HealInv
  <2>2. pc'[t] # "assign"
    BY <1>0 DEF UnlockedStep, ApplyAssign, AssignSave, UnlockedRead, MarkSave, PlanSave, DbaSave,
       RecheckSave, Goto, Forget, HealInv, TypeOK
  <2> QED
    BY <1>3, <2>1, <2>2 DEF Visited, Agrees, Inside, Measured
<1>5. ASSUME NEW u \in Tasks, u # t PROVE Visited(u)'
  <2>1. /\ pc'[u] = pc[u] /\ job'[u] = job[u] /\ copy'[u] = copy[u] /\ inner'[u] = inner[u]
        /\ look'[u] = look[u]
    BY <1>5, AcrossFrame DEF HealInv
  <2>2. Visited(u) /\ job[u].onu \in Onus /\ look[u].attempt \in Nat
    BY HealTypes DEF HealInv, VisitsRight
  <2>3. CASE /\ db'[job[u].onu] = db[job[u].onu] /\ heals'[job[u].onu] = heals[job[u].onu]
             /\ died'[job[u].onu] = died[job[u].onu]
             /\ crossed'[job[u].onu] = crossed[job[u].onu]
    BY <2>1, <2>2, <2>3 DEF Visited, Agrees, Healed
  <2>4. CASE job[u].onu = o /\ crossed'[o] /\ heals'[o] = 0 /\ died'[o] = 0
    BY <2>1, <2>2, <2>4 DEF Visited, Healed
  <2> QED
    BY <1>2, <2>2, <2>3, <2>4, AcrossFrame DEF HealInv
<1>6. ASSUME NEW q \in Onus PROVE Counted(q)'
  <2>1. ASSUME NEW u \in Tasks, Healed(u, q) PROVE Healed(u, q)'
    <3>1. u # t
      BY <1>1, <2>1 DEF Healed
    <3> QED
      BY <2>1, <3>1, AcrossFrame DEF HealInv, Healed
  <2>2. CASE db'[q] = db[q] /\ heals'[q] = heals[q] /\ died'[q] = died[q]
    BY <2>1, <2>2 DEF HealInv, HealsCounted, Counted
  <2>3. CASE q = o /\ heals'[o] = 0 /\ died'[o] = 0
    <3>1. db'[q].attempt \in Nat /\ HealMax \in Nat
      <4>1. TypeOK'
        BY UnlockedType DEF HealInv
      <4> QED
        BY <4>1, OnuVerifyAssumption DEF TypeOK, Row
    <3> QED
      BY <2>3, <3>1 DEF Counted
  <2> QED
    BY <1>2, <2>2, <2>3, AcrossFrame DEF HealInv
<1> QED
  BY <1>4, <1>5, <1>6 DEF VisitsRight, HealsCounted

\* A visit that has healed and dies is counted as dead: its heal is one more than the row
\* knows of.
LEMMA DeadCounted ==
  ASSUME HealInv, NEW t \in Tasks, NEW o \in Onus, Healed(t, o)
  PROVE  heals[o] <= db[o].attempt + died[o] + 1
<1>0. /\ db[o].attempt \in Nat /\ heals[o] \in Nat /\ died[o] \in Nat /\ Visited(t)
      /\ crossed[o] \in BOOLEAN
  BY HealTypes DEF HealInv, VisitsRight
<1>1. job[t].onu = o /\ pc[t] \in Measured /\ pc[t] \in Inside /\ job[t].kind = "auto"
  BY <1>0 DEF Visited, Healed, Measured, Inside
<1>2. CASE crossed[o]
  BY <1>0, <1>1, <1>2 DEF Visited
<1>3. CASE ~crossed[o]
  BY <1>0, <1>1, <1>3 DEF Visited, Agrees
<1> QED
  BY <1>0, <1>2, <1>3

\* The calls that are away, or as they were on rows that are as they were.
LEMMA QuietVisits ==
  ASSUME HealInv, heals' = heals, crossed' = crossed, NEW u \in Tasks,
         \/ /\ pc'[u] \notin Inside /\ ~look'[u].healed
            /\ pc'[u] \in {"assign", "assigned", "device", "amend"} => job'[u].kind # "auto"
         \/ /\ died'[job[u].onu] = died[job[u].onu]
            /\ db'[job[u].onu].attempt = db[job[u].onu].attempt
            /\ db'[job[u].onu].status = db[job[u].onu].status
            /\ pc'[u] = pc[u] /\ job'[u] = job[u] /\ look'[u] = look[u]
            /\ copy'[u].attempt = copy[u].attempt /\ copy'[u].status = copy[u].status
            /\ inner'[u].attempt = inner[u].attempt /\ inner'[u].status = inner[u].status
  PROVE  Visited(u)'
<1>1. CASE /\ pc'[u] \notin Inside /\ ~look'[u].healed
           /\ pc'[u] \in {"assign", "assigned", "device", "amend"} => job'[u].kind # "auto"
  BY <1>1 DEF Visited, Agrees, Inside, Measured
<1>2. CASE /\ died'[job[u].onu] = died[job[u].onu]
           /\ db'[job[u].onu].attempt = db[job[u].onu].attempt
           /\ db'[job[u].onu].status = db[job[u].onu].status
           /\ pc'[u] = pc[u] /\ job'[u] = job[u] /\ look'[u] = look[u]
           /\ copy'[u].attempt = copy[u].attempt /\ copy'[u].status = copy[u].status
           /\ inner'[u].attempt = inner[u].attempt /\ inner'[u].status = inner[u].status
  <2>1. Visited(u) /\ job[u].onu \in Onus
    BY HealTypes DEF HealInv, VisitsRight
  <2> QED
    BY <1>2, <2>1 DEF Visited, Agrees, Healed
<1> QED
  BY <1>1, <1>2

LEMMA QuietCounted ==
  ASSUME HealInv, heals' = heals, died' = died, NEW q \in Onus,
         db'[q].attempt = db[q].attempt /\ db'[q].status = db[q].status,
         \A u \in Tasks : Healed(u, q) => Healed(u, q)'
  PROVE  Counted(q)'
BY DEF HealInv, HealsCounted, Counted

LEMMA ThrowHeals ==
  ASSUME HealInv, NEW t \in Tasks, Throw(t) PROVE VisitsRight' /\ HealsCounted'
<1> DEFINE o == job[t].onu
<1>0. o \in Onus /\ died \in [Onus -> Nat] /\ TypeOK
  BY HealTypes DEF HealInv, TypeOK
<1>1. /\ db' = db /\ heals' = heals /\ crossed' = crossed /\ pc'[t] = "idle"
      /\ ~look'[t].healed
      /\ died' = IF Healed(t, o) THEN [died EXCEPT ![o] = @ + 1] ELSE died
  BY <1>0 DEF Throw, Release, Forget, BlankLook, TypeOK
<1>2. \A u \in Tasks : u # t => /\ pc'[u] = pc[u] /\ job'[u] = job[u] /\ copy'[u] = copy[u]
                                /\ inner'[u] = inner[u] /\ look'[u] = look[u]
  BY <1>0 DEF Throw, Release, Forget, TypeOK
<1>3. ASSUME NEW u \in Tasks PROVE Visited(u)'
  <2>1. CASE u = t
    BY <1>1, <2>1, QuietVisits DEF Inside
  <2>2. CASE u # t /\ pc[u] \notin Inside
    <3>1. Visited(u)
      BY DEF HealInv, VisitsRight
    <3>2. /\ ~look[u].healed
          /\ pc[u] \in {"assign", "assigned", "device", "amend"} => job[u].kind # "auto"
      BY <2>2, <3>1 DEF Visited, Measured, Inside
    <3> QED
      BY <1>1, <1>2, <2>2, <3>2, QuietVisits
  <2>3. CASE u # t /\ pc[u] \in Inside
    <3>1. HasLock(u) /\ job[u].onu \in Onus
      BY <2>3, HealTypes DEF HealInv, InsideHoldsLock
    <3>2. Healed(t, o) => o # job[u].onu
      BY <2>3, <3>1, OneHeals
    <3>3. died'[job[u].onu] = died[job[u].onu]
      BY <1>0, <1>1, <3>1, <3>2
    <3> QED
      BY <1>1, <1>2, <2>3, <3>3, QuietVisits
  <2> QED
    BY <2>1, <2>2, <2>3
<1>4. ASSUME NEW q \in Onus PROVE Counted(q)'
  <2>0. heals[q] \in Nat /\ died[q] \in Nat /\ HealMax \in Nat /\ db[q].attempt \in Nat
        /\ Counted(q)
    BY HealTypes DEF HealInv, HealsCounted
  <2>1. CASE Healed(t, q)
    <3>1. q = o /\ died'[q] = died[q] + 1
      BY <1>0, <1>1, <2>1 DEF Healed
    <3>2. heals[q] <= db[q].attempt + died[q] + 1
      BY <2>1, DeadCounted
    <3>3. heals[q] <= HealMax + died[q]
      BY <2>0 DEF Counted
    <3> QED
      BY <1>1, <2>0, <3>1, <3>2, <3>3 DEF Counted
  <2>2. CASE ~Healed(t, q)
    <3>1. \A u \in Tasks : Healed(u, q) => Healed(u, q)'
      BY <1>2, <2>2 DEF Healed
    <3>2. died'[q] = died[q]
      BY <1>0, <1>1, <2>2 DEF Healed
    <3> QED
      BY <1>1, <2>0, <3>1, <3>2 DEF Counted
  <2> QED
    BY <2>1, <2>2
<1> QED
  BY <1>3, <1>4 DEF VisitsRight, HealsCounted

LEMMA RestartHeals ==
  ASSUME HealInv, Restart PROVE VisitsRight' /\ HealsCounted'
<1>1. ASSUME NEW u \in Tasks PROVE Visited(u)'
  <2>1. pc'[u] = "idle" /\ ~look'[u].healed /\ heals' = heals /\ crossed' = crossed
    BY DEF Restart, BlankLook
  <2> QED
    BY <2>1, QuietVisits DEF Inside
<1>2. ASSUME NEW q \in Onus PROVE Counted(q)'
  <2>0. heals[q] \in Nat /\ died[q] \in Nat /\ HealMax \in Nat /\ db[q].attempt \in Nat
        /\ Counted(q)
    BY HealTypes DEF HealInv, HealsCounted
  <2>1. /\ db' = db /\ heals' = heals
        /\ died'[q] = IF \E t \in Tasks : Healed(t, q) THEN died[q] + 1 ELSE died[q]
    BY DEF Restart
  <2>2. CASE \E t \in Tasks : Healed(t, q)
    <3>1. heals[q] <= db[q].attempt + died[q] + 1
      BY <2>2, DeadCounted
    <3>2. heals[q] <= HealMax + died[q]
      BY <2>0 DEF Counted
    <3> QED
      BY <2>0, <2>1, <2>2, <3>1, <3>2 DEF Counted
  <2>3. CASE ~\E t \in Tasks : Healed(t, q)
    BY <2>0, <2>1, <2>3 DEF Counted
  <2> QED
    BY <2>2, <2>3
<1> QED
  BY <1>1, <1>2 DEF VisitsRight, HealsCounted

\* Calls arrive: a call that was idle has healed nothing.
LEMMA ArriveHeals ==
  ASSUME HealInv, heals' = heals, died' = died, crossed' = crossed, db' = db, look' = look,
         copy' = copy, inner' = inner,
         \A u \in Tasks :
           \/ pc'[u] = pc[u] /\ job'[u] = job[u]
           \/ /\ pc[u] = "idle" /\ pc'[u] \in {"queued", "assign", "device"}
              /\ pc'[u] # "queued" => job'[u].kind # "auto"
  PROVE  VisitsRight' /\ HealsCounted'
<1>1. ASSUME NEW u \in Tasks, pc[u] = "idle" PROVE ~look[u].healed
  BY <1>1 DEF HealInv, VisitsRight, Visited, Measured
<1>2. ASSUME NEW u \in Tasks PROVE Visited(u)'
  BY <1>1, QuietVisits DEF Inside
<1>3. ASSUME NEW q \in Onus PROVE Counted(q)'
  <2>1. \A u \in Tasks : Healed(u, q) => Healed(u, q)'
    BY <1>1 DEF Healed
  <2> QED
    BY <2>1, QuietCounted
<1> QED
  BY <1>2, <1>3 DEF VisitsRight, HealsCounted

LEMMA HealsStep ==
  ASSUME HealInv, [Next]_vars PROVE VisitsRight' /\ HealsCounted'
<1>1. ASSUME NEW t \in Tasks, LockedStep(t) PROVE VisitsRight' /\ HealsCounted'
  <2>1. HasLock(t)
    BY <1>1, LockedHasLock DEF HealInv
  <2>2. Settled(t)
    BY <1>1, <2>1, BeginSettled, LoadSettled, HealSettled, ReadSettled, StoreSettled, SaveSettled
       DEF LockedStep, VisitStep
  <2> QED
    BY <1>1, <2>2, LockedSettles
<1>2. ASSUME NEW t \in Tasks, UnlockedStep(t) \/ Throw(t) PROVE VisitsRight' /\ HealsCounted'
  BY <1>2, AcrossHeals, ThrowHeals
<1>3. CASE Arrive
  <2>1. PICK t \in UserTasks, o \in Onus, kind \in Requests :
          RequestLocked(t, o, kind) \/ RequestUnlocked(t, o, kind)
    BY <1>3 DEF Arrive
  <2>2. /\ pc[t] = "idle" /\ pc'[t] \in {"queued", "assign", "device"}
        /\ pc'[t] # "queued" => job'[t].kind # "auto"
    <3>1. pc \in [Tasks -> LocalPcs] /\ job \in [Tasks -> Job] /\ t \in Tasks
      BY DEF HealInv, TypeOK, Tasks
    <3>2. kind \in UnlockedKinds => kind # "auto"
      BY DEF UnlockedKinds
    <3> QED
      BY <2>1, <3>1, <3>2 DEF RequestLocked, RequestUnlocked, Goto
  <2>3. \A u \in Tasks : u # t => pc'[u] = pc[u] /\ job'[u] = job[u]
    BY <2>1 DEF RequestLocked, RequestUnlocked, Goto, HealInv, TypeOK
  <2> QED
    BY <2>1, <2>2, <2>3, ArriveHeals DEF RequestLocked, RequestUnlocked
<1>4. CASE PollTick
  <2>1. PICK called : /\ called \subseteq {p \in PollTasks : pc[p] = "idle"}
                      /\ pc' = [t \in Tasks |-> IF t \in called THEN "queued" ELSE pc[t]]
                      /\ \A t \in Tasks : t \notin called => job'[t] = job[t]
    <3> DEFINE due  == {o \in Onus : Due(db[o])}
               free == {p \in PollTasks : pc[p] = "idle"}
    <3>1. PICK visit \in [due -> free] :
            /\ pc' = [t \in Tasks |-> IF t \in {visit[o] : o \in due} THEN "queued" ELSE pc[t]]
            /\ job' = [t \in Tasks |->
                         IF t \in {visit[o] : o \in due}
                         THEN [kind |-> "auto", round |-> 1,
                               onu |-> CHOOSE o \in due : visit[o] = t]
                         ELSE job[t]]
      BY <1>4 DEF PollTick
    <3>2. {visit[o] : o \in due} \subseteq free
      OBVIOUS
    <3> QED
      BY <3>1, <3>2
  <2> QED
    BY <1>4, <2>1, ArriveHeals DEF PollTick
<1>5. CASE Restart
  BY <1>5, RestartHeals
<1>6. CASE IntervalPasses
  <2>1. \A row \in Row : /\ OlderRow(row).attempt = row.attempt
                        /\ OlderRow(row).status = row.status
    BY DEF OlderRow, Row
  <2>2. /\ \A o \in Onus : db[o] \in Row /\ db'[o] = OlderRow(db[o])
        /\ \A u \in Tasks : /\ copy[u] \in Row /\ copy'[u] = OlderRow(copy[u])
                            /\ inner[u] \in Row /\ inner'[u] = OlderRow(inner[u])
                            /\ job[u].onu \in Onus
        /\ heals' = heals /\ died' = died /\ crossed' = crossed /\ pc' = pc /\ job' = job
        /\ look' = look
    BY <1>6, HealTypes DEF IntervalPasses, HealInv
  <2>3. \A u \in Tasks : Visited(u)'
    BY <2>1, <2>2, QuietVisits
  <2>4. \A q \in Onus : Counted(q)'
    BY <2>1, <2>2, QuietCounted DEF Healed
  <2> QED
    BY <2>3, <2>4 DEF VisitsRight, HealsCounted
<1>7. CASE UNCHANGED vars
  BY <1>7, ArriveHeals DEF vars
<1> QED
  BY <1>1, <1>2, <1>3, <1>4, <1>5, <1>6, <1>7 DEF Next

\* Whatever is requested and whatever throws, the poller heals an ONU in at most HealMax
\* visits between two writes of its row by anyone else, and in one more for each visit that
\* healed and came to no save: the attempt that a visit counts is stored by its last save.
THEOREM HealBudgetHolds == Spec => []HealBudget
<1>1. Init => HealInv
  <2> SUFFICES ASSUME Init PROVE HealInv
    OBVIOUS
  <2>1. VisitsRight
    BY DEF Init, VisitsRight, Visited, Agrees, Measured, Inside, BlankLook
  <2>2. HealsCounted
    <3>1. \A o \in Onus : /\ heals[o] = 0 /\ died[o] = 0 /\ db[o].attempt = 0
      BY DEF Init, BlankRow
    <3> QED
      BY <3>1, OnuVerifyAssumption DEF HealsCounted, Counted
  <2> QED
    BY <2>1, <2>2, InitHolds DEF HealInv
<1>2. HealInv /\ [Next]_vars => HealInv'
  BY StepType, StepLock, HealsStep DEF HealInv
<1>3. HealInv => HealBudget
  BY DEF HealInv, HealsCounted, Counted, HealBudget
<1> QED
  BY <1>1, <1>2, <1>3, PTL DEF Spec

-----------------------------------------------------------------------------
(* What a visit may do to a closed row *)

\* A visit at a place, of a kind, to a row with status now: the poller is only in open
\* rows; the entities about to be saved have the status of the row, but that a progress
\* report may have opened a row that was idle.
Looking(place, kind, now, mine, theirs) ==
  /\ place = "begin" => kind = "start"
  /\ place = "retest" => kind \in {"auto", "force"}
  /\ place \in Inside /\ kind = "auto" => now \notin Closed
  /\ place \in {"retest", "adopt", "heal", "report", "save"} => mine = now
  /\ place = "report" => theirs = now
  /\ place = "healed" => mine = now \/ (mine = "idle" /\ now = "test")

Sees(t) ==
  Looking(pc[t], job[t].kind, db[job[t].onu].status, copy[t].status, inner[t].status)

\* A visit sees its row as it is, unless somebody saved it without the lock.
LooksAt(t) == crossed[job[t].onu] \/ Sees(t)

\* The calls outside the lock know what they are.
Knows(t) == pc[t] \in {"assign", "assigned"} => job[t].kind \in UnlockedKinds

StatusKept == \A t \in Tasks : LooksAt(t) /\ Knows(t)

StatusInv == TypeOK /\ InsideHoldsLock /\ StatusKept

\* A visit changes the status of its row only where it may.
MayChange(t) ==
  db'[job[t].onu].status # db[job[t].onu].status =>
    /\ pc[t] \in Inside
    /\ job[t].kind = "auto" => db[job[t].onu].status \notin Closed
    /\ db[job[t].onu].status = "ok" =>
         job[t].kind \in {"start", "manual", "force"} \/ look[t].irrecoverable

LEMMA AwaySees ==
  ASSUME NEW kind, NEW now, NEW mine, NEW theirs,
         NEW place \in {"idle", "queued", "assign", "assigned", "device", "amend"}
  PROVE  Looking(place, kind, now, mine, theirs)
  BY DEF Looking, Inside

\* Where nothing is saved next, only an open row matters.
LEMMA OpenSees ==
  ASSUME NEW kind, NEW now, NEW mine, NEW theirs, kind = "auto" => now \notin Closed,
         NEW place \in {"visit", "plan", "probe", "repush", "reread", "refresh", "decide"}
  PROVE  Looking(place, kind, now, mine, theirs)
  BY DEF Looking

LEMMA StatusTypes ==
  ASSUME TypeOK, NEW t \in Tasks
  PROVE  /\ job[t] \in Job /\ job[t].onu \in Onus /\ db[job[t].onu] \in Row
         /\ copy[t] \in Row /\ inner[t] \in Row /\ look[t] \in Look
  BY DEF TypeOK, Job

\* A call that ends its visit, or waits, has nothing to save.
LEMMA ReleaseSees ==
  ASSUME TypeOK, NEW t \in Tasks, Release(t) \/ Forget(t) PROVE Sees(t)'
<1>1. pc'[t] = "idle"
  BY DEF TypeOK, Release, Forget
<1> QED
  BY <1>1, AwaySees DEF Sees

\* Before the visit.
LEMMA BeginSees ==
  ASSUME TypeOK, NEW t \in Tasks, Sees(t),
         StartRead(t) \/ StartSave(t) \/ HealthPassRead(t) \/ HealthPassRetest(t)
  PROVE  Sees(t)' /\ MayChange(t)
<1> DEFINE o == job[t].onu
<1>0. /\ o \in Onus /\ db[o] \in Row /\ copy[t] \in Row
  BY StatusTypes
<1>1. CASE StartRead(t)
  <2>1. pc'[t] = "begin" /\ job' = job /\ db' = db /\ job[t].kind = "start"
    BY <1>0, <1>1 DEF StartRead, Goto, TypeOK
  <2> QED
    BY <2>1 DEF Sees, Looking, MayChange
<1>2. CASE StartSave(t)
  <2>1. pc[t] = "begin" /\ job[t].kind = "start" /\ pc[t] \in Inside
    BY <1>0, <1>2 DEF StartSave, Sees, Looking, Inside
  <2>2. Sees(t)'
    BY <1>0, <1>2, ReleaseSees DEF StartSave
  <2> QED
    BY <2>1, <2>2 DEF MayChange
<1>3. CASE HealthPassRead(t)
  <2>1. db' = db /\ job[t].kind \in {"auto", "force"}
    BY <1>3 DEF HealthPassRead
  <2>2. CASE Release(t)
    BY <1>0, <2>1, <2>2, ReleaseSees DEF MayChange
  <2>3. CASE /\ ~SkipsHealthPass(job[t].kind, db[o]) /\ Read(t) /\ job' = job
             /\ Goto(t, IF db[o].status = "test" THEN "visit" ELSE "retest")
    <3>1. /\ copy'[t] = db[o] /\ pc'[t] \in {"visit", "retest"}
          /\ job[t].kind = "auto" => db[o].status \notin Closed
      BY <1>0, <2>3 DEF Read, Goto, TypeOK, SkipsHealthPass
    <3> QED
      BY <2>1, <2>3, <3>1 DEF Sees, Looking, MayChange
  <2> QED
    BY <1>3, <2>2, <2>3 DEF HealthPassRead
<1>4. CASE HealthPassRetest(t)
  <2>1. /\ pc[t] = "retest" /\ pc'[t] = "visit" /\ job' = job /\ pc[t] \in Inside
        /\ job[t].kind \in {"auto", "force"}
        /\ job[t].kind = "auto" => db[o].status \notin Closed
    BY <1>0, <1>4 DEF HealthPassRetest, Goto, TypeOK, Sees, Looking, Inside
  <2>2. PICK started, attempt :
          Store(t, [copy[t] EXCEPT !.status = "test", !.started = started, !.attempt = attempt])
    BY <1>4 DEF HealthPassRetest
  <2>3. db'[o].status = "test"
    BY <1>0, <2>2 DEF Store, TypeOK, Row
  <2>4. Sees(t)'
    BY <2>1, <2>3, OpenSees DEF Sees, Closed
  <2> QED
    BY <2>1, <2>4 DEF MayChange, Closed
<1> QED
  BY <1>1, <1>2, <1>3, <1>4

\* A visit reads, measures and decides; it saves nothing.
LEMMA MeasureSees ==
  ASSUME TypeOK, NEW t \in Tasks, Sees(t),
         \/ CheckLoad(t) \/ CheckPlan(t) \/ CheckProbe(t) \/ RepushRead(t) \/ AdoptReread(t)
         \/ ProgressRead(t) \/ CheckRefresh(t) \/ CheckDecide(t)
  PROVE  Sees(t)' /\ MayChange(t)
<1> DEFINE o == job[t].onu
<1>0. /\ o \in Onus /\ db[o] \in Row /\ copy[t] \in Row
  BY StatusTypes
<1>1. db' = db /\ job' = job
  BY DEF CheckLoad, CheckPlan, CheckProbe, RepushRead, AdoptReread, ProgressRead, CheckRefresh,
     CheckDecide
<1>2. job[t].kind = "auto" => db[o].status \notin Closed
  <2>1. pc[t] \in Inside \/ job[t].kind \in {"manual", "kick"}
    BY DEF CheckLoad, CheckPlan, CheckProbe, RepushRead, AdoptReread, ProgressRead, CheckRefresh,
     CheckDecide,
           AtVisit, Repeats, Inside
  <2> QED
    BY <1>0, <2>1 DEF Sees, Looking
<1>3. CASE CheckLoad(t) \/ CheckPlan(t) \/ CheckProbe(t) \/ CheckRefresh(t)
  <2>1. pc'[t] \in {"plan", "probe", "repush", "decide"}
    BY <1>0, <1>3 DEF CheckLoad, CheckPlan, CheckProbe, CheckRefresh, Goto, TypeOK
  <2> QED
    BY <1>1, <1>2, <2>1, OpenSees DEF Sees, MayChange
<1>4. CASE RepushRead(t) \/ AdoptReread(t) \/ CheckDecide(t)
  <2>1. \/ pc'[t] = "refresh"
        \/ pc'[t] \in {"adopt", "heal", "save"} /\ copy'[t] = db[o]
    BY <1>0, <1>4 DEF RepushRead, AdoptReread, CheckDecide, Goto, Read, TypeOK
  <2> QED
    BY <1>1, <1>2, <2>1, OpenSees DEF Sees, Looking, MayChange
<1>5. CASE ProgressRead(t)
  <2>1. pc[t] = "heal" /\ pc'[t] = "report" /\ inner'[t] = db[o] /\ copy' = copy
    BY <1>0, <1>5 DEF ProgressRead, Goto, TypeOK
  <2> QED
    BY <1>0, <1>1, <1>2, <2>1 DEF Sees, Looking, MayChange
<1> QED
  BY <1>3, <1>4, <1>5

\* A heal saves what it read, or opens an idle row.
LEMMA HealSees ==
  ASSUME TypeOK, NEW t \in Tasks, Sees(t),
         AdoptSave(t) \/ ProgressSave(t) \/ RebootSave(t) \/ HealReturns(t)
  PROVE  Sees(t)' /\ MayChange(t)
<1> DEFINE o == job[t].onu
<1>0. /\ o \in Onus /\ db[o] \in Row /\ copy[t] \in Row /\ inner[t] \in Row
      /\ pc[t] \in {"adopt", "heal", "report", "healed"} /\ pc[t] \in Inside
      /\ job' = job /\ copy' = copy /\ inner' = inner /\ db \in [Onus -> Row]
      /\ pc \in [Tasks -> LocalPcs]
  BY StatusTypes
  DEF TypeOK, AdoptSave, ProgressSave, RebootSave, HealReturns, Inside
<1>1. /\ job[t].kind = "auto" => db[o].status \notin Closed
      /\ pc[t] \in {"adopt", "heal", "report"} => copy[t].status = db[o].status
      /\ pc[t] = "report" => inner[t].status = db[o].status
      /\ pc[t] = "healed" =>
           copy[t].status = db[o].status \/ (copy[t].status = "idle" /\ db[o].status = "test")
  BY <1>0 DEF Sees, Looking
<1>2. CASE AdoptSave(t)
  <2>1. db'[o] = copy[t] /\ pc'[t] = "reread" /\ pc[t] = "adopt"
    BY <1>0, <1>2 DEF AdoptSave, Store, Goto
  <2> QED
    BY <1>0, <1>1, <2>1, OpenSees DEF Sees, MayChange
<1>3. CASE ProgressSave(t)
  <2>1. pc'[t] = "healed" /\ pc[t] = "report"
    BY <1>0, <1>3 DEF ProgressSave, Goto
  <2>2. db'[o].status = IF inner[t].status = "idle" THEN "test" ELSE inner[t].status
    BY <1>0, <1>3 DEF ProgressSave, Store, Row
  <2> QED
    BY <1>0, <1>1, <2>1, <2>2 DEF Sees, Looking, MayChange, Closed
<1>4. CASE RebootSave(t)
  <2>1. pc'[t] = "healed" /\ pc[t] = "report" /\ db'[o] = inner[t]
    BY <1>0, <1>4 DEF RebootSave, Goto, Store
  <2> QED
    BY <1>0, <1>1, <2>1 DEF Sees, Looking, MayChange
<1>5. CASE HealReturns(t)
  <2>1. pc'[t] = "refresh" /\ pc[t] \in {"heal", "healed"} /\ db'[o] \in {db[o], copy[t]}
    BY <1>0, <1>5 DEF HealReturns, Goto
  <2>2. job[t].kind = "auto" => db'[o].status \notin Closed
    BY <1>1, <2>1 DEF Closed
  <2>3. Sees(t)'
    BY <1>0, <2>1, <2>2, OpenSees DEF Sees
  <2> QED
    BY <1>0, <1>1, <2>1, <2>3 DEF MayChange
<1> QED
  BY <1>2, <1>3, <1>4, <1>5

\* The verdict: an ok stays, but for the kinds of visits and the failure that take it.
LEMMA SaveSees ==
  ASSUME TypeOK, NEW t \in Tasks, Sees(t), CheckSave(t) PROVE Sees(t)' /\ MayChange(t)
<1> DEFINE o == job[t].onu
<1>0. /\ o \in Onus /\ db[o] \in Row /\ copy[t] \in Row
      /\ db \in [Onus -> Row] /\ pc[t] = "save" /\ pc[t] \in Inside /\ job[t] \in Job
      /\ look[t] \in Look
  BY StatusTypes DEF TypeOK, CheckSave, Inside
<1>1. /\ job[t].kind = "auto" => db[o].status \notin Closed
      /\ copy[t].status = db[o].status
  BY <1>0 DEF Sees, Looking
<1>2. Sees(t)'
  <2>1. CASE Release(t)
    BY <1>0, <2>1, ReleaseSees
  <2>2. CASE GoesRound(t) /\ job' = [job EXCEPT ![t].round = @ + 1] /\ Goto(t, "visit")
    <3>1. /\ pc'[t] = "visit" /\ job'[t].kind = job[t].kind
          /\ job[t].kind \in {"manual", "kick"}
      BY <1>0, <2>2 DEF Goto, TypeOK, GoesRound, Repeats, Job
    <3> QED
      BY <3>1, OpenSees DEF Sees
  <2> QED
    BY <2>1, <2>2 DEF CheckSave
<1>3. db'[o] = Concluded(t)
  BY <1>0 DEF CheckSave, Store
<1>4. ASSUME db[o].status = "ok", db'[o].status # "ok"
      PROVE  job[t].kind \in {"start", "manual", "force"} \/ look[t].irrecoverable
  <2>1. CASE KeepsOk(t)
    <3>1. Concluded(t).status = copy[t].status
      BY <1>0, <2>1 DEF Concluded, Row
    <3> QED
      BY <1>1, <1>3, <1>4, <3>1
  <2>2. CASE ~KeepsOk(t)
    <3>1. Concluded(t).status = look[t].next
      BY <1>0, <2>2 DEF Concluded, Row
    <3> QED
      BY <1>1, <1>3, <1>4, <2>2, <3>1 DEF KeepsOk
  <2> QED
    BY <2>1, <2>2
<1> QED
  BY <1>0, <1>1, <1>2, <1>4 DEF MayChange

\* Somebody outside the locked part has nothing that could be wrong.
LEMMA OutsideSees ==
  ASSUME TypeOK, NEW t \in Tasks, pc[t] \notin Inside PROVE Sees(t)
<1>1. pc[t] \in LocalPcs
  BY DEF TypeOK
<1>2. pc[t] \in {"idle", "queued", "assign", "assigned", "device", "amend"}
  BY <1>1 DEF LocalPcs
<1> QED
  BY <1>2, AwaySees DEF Sees

\* The same after a step.
LEMMA LeftSees ==
  ASSUME TypeOK', NEW t \in Tasks, pc'[t] \notin Inside PROVE LooksAt(t)'
<1>1. pc'[t] \in LocalPcs
  BY DEF TypeOK
<1>2. pc'[t] \in {"idle", "queued", "assign", "assigned", "device", "amend"}
  BY <1>1 DEF LocalPcs
<1> QED
  BY <1>2, AwaySees DEF Sees, LooksAt

\* A call that stays in the locked part stays with its ONU; every step of it moves it.
LEMMA LockedMoves ==
  ASSUME TypeOK, NEW t \in Tasks, LockedStep(t)
  PROVE  /\ Moves(t) /\ pc'[t] \notin {"assign", "assigned"}
         /\ pc'[t] \in Inside => job'[t].onu = job[t].onu
<1>0. pc \in [Tasks -> LocalPcs] /\ job \in [Tasks -> Job] /\ job[t] \in Job
  BY DEF TypeOK
<1>1. CASE StartRead(t) \/ StartSave(t) \/ HealthPassRead(t) \/ HealthPassRetest(t)
  BY <1>0, <1>1 DEF StartRead, StartSave, HealthPassRead, HealthPassRetest, Release, Forget,
                    Goto, Moves, Inside
<1>2. CASE CheckLoad(t) \/ AdoptSave(t) \/ ProgressRead(t) \/ ProgressSave(t) \/ RebootSave(t)
  BY <1>0, <1>2 DEF CheckLoad, AtVisit, AdoptSave, ProgressRead, ProgressSave, RebootSave, Goto,
                    Moves
<1>3. CASE HealReturns(t) \/ CheckRefresh(t) \/ CheckDecide(t)
  BY <1>0, <1>3 DEF HealReturns, CheckRefresh, CheckDecide, Goto, Moves
<1>4. CASE CheckPlan(t) \/ CheckProbe(t)
  <2>1. PICK label \in {"probe", "repush", "decide"} : Goto(t, label) /\ label # pc[t]
    BY <1>4 DEF CheckPlan, CheckProbe
  <2> QED
    BY <1>0, <1>4, <2>1 DEF CheckPlan, CheckProbe, Goto, Moves
<1>5. CASE RepushRead(t) \/ AdoptReread(t)
  <2>1. PICK label \in {"adopt", "heal", "refresh"} : Goto(t, label)
    BY <1>5 DEF RepushRead, AdoptReread
  <2> QED
    BY <1>0, <1>5, <2>1 DEF RepushRead, AdoptReread, Goto, Moves
<1>6. CASE CheckSave(t)
  BY <1>0, <1>6 DEF CheckSave, Release, Forget, Goto, Moves, Inside, Job
<1> QED
  BY <1>1, <1>2, <1>3, <1>4, <1>5, <1>6 DEF LockedStep, VisitStep

LEMMA LockedLooks ==
  ASSUME StatusInv, TypeOK', NEW t \in Tasks, LockedStep(t)
  PROVE  LooksAt(t)' /\ (crossed[job[t].onu] \/ MayChange(t))
<1>1. CASE Sees(t)
  <2>1. Sees(t)' /\ MayChange(t)
    BY <1>1, BeginSees, MeasureSees, HealSees, SaveSees DEF LockedStep, VisitStep, StatusInv
  <2> QED
    BY <2>1 DEF LooksAt
<1>2. CASE ~Sees(t)
  <2>1. crossed[job[t].onu] /\ pc[t] \in Inside
    BY <1>2, OutsideSees DEF StatusInv, StatusKept, LooksAt
  <2>2. crossed' = crossed
    BY <2>1, EntersOrStays DEF StatusInv, Inside
  <2>3. LooksAt(t)'
    <3>1. CASE pc'[t] \in Inside
      BY <2>1, <2>2, <3>1, LockedMoves DEF StatusInv, LooksAt
    <3>2. CASE pc'[t] \notin Inside
      BY <3>2, LeftSees
    <3> QED
      BY <3>1, <3>2
  <2> QED
    BY <2>1, <2>3
<1> QED
  BY <1>1, <1>2

\* The others are as before when no row of theirs changes its status.
LEMMA SameLooks ==
  ASSUME TypeOK', NEW t \in Tasks, LooksAt(t),
         pc'[t] \in Inside => /\ pc'[t] = pc[t] /\ job'[t] = job[t]
                              /\ copy'[t].status = copy[t].status
                              /\ inner'[t].status = inner[t].status
                              /\ db'[job[t].onu].status = db[job[t].onu].status
                              /\ crossed'[job[t].onu] = crossed[job[t].onu]
  PROVE  LooksAt(t)'
<1>1. CASE pc'[t] \in Inside
  BY <1>1 DEF LooksAt, Sees
<1>2. CASE pc'[t] \notin Inside
  BY <1>2, LeftSees
<1> QED
  BY <1>1, <1>2

LEMMA OlderStatus == ASSUME NEW row \in Row PROVE OlderRow(row).status = row.status
  BY DEF OlderRow, Row

LEMMA StatusStep ==
  ASSUME StatusInv, TypeOK', [Next]_vars, NEW u \in Tasks PROVE LooksAt(u)'
<1> USE DEF StatusInv, StatusKept
<1>0. job[u].onu \in Onus
  BY StatusTypes
<1>1. ASSUME NEW t \in Tasks, LockedStep(t) PROVE LooksAt(u)'
  <2>1. CASE u = t
    BY <1>1, <2>1, LockedLooks
  <2>2. CASE u # t
    <3>1. /\ pc'[u] = pc[u] /\ job'[u] = job[u] /\ copy'[u] = copy[u] /\ inner'[u] = inner[u]
          /\ \A q \in Onus : q # job[t].onu => db'[q] = db[q]
      BY <1>1, <2>2, OwnFrame
    <3>2. pc[u] \in Inside => job[u].onu # job[t].onu
      BY <1>1, <2>2, LockedHasLock DEF InsideHoldsLock, HasLock
    <3>3. pc[u] \in Inside => crossed'[job[u].onu] = crossed[job[u].onu]
      BY <1>0, <1>1, <3>2, EntersOrStays
    <3> QED
      BY <1>0, <3>1, <3>2, <3>3, SameLooks
  <2> QED
    BY <2>1, <2>2
<1>2. ASSUME NEW t \in Tasks, UnlockedStep(t) PROVE LooksAt(u)'
  <2>1. CASE u = t
    BY <1>2, <2>1, AcrossFrame, LeftSees
  <2>2. CASE u # t
    <3>1. /\ pc'[u] = pc[u] /\ job'[u] = job[u] /\ copy'[u] = copy[u] /\ inner'[u] = inner[u]
      BY <1>2, <2>2, AcrossFrame
    <3>2. CASE crossed'[job[u].onu]
      BY <3>1, <3>2 DEF LooksAt
    <3>3. CASE ~crossed'[job[u].onu]
      <4>1. db'[job[u].onu] = db[job[u].onu] /\ crossed'[job[u].onu] = crossed[job[u].onu]
        BY <1>0, <1>2, <3>3, AcrossFrame
      <4> QED
        BY <3>1, <4>1, SameLooks
    <3> QED
      BY <3>2, <3>3
  <2> QED
    BY <2>1, <2>2
<1>3. ASSUME NEW t \in Tasks, Throw(t) PROVE LooksAt(u)'
  <2>1. /\ db' = db /\ crossed' = crossed /\ pc'[t] \notin Inside
        /\ u # t => /\ pc'[u] = pc[u] /\ job'[u] = job[u]
                    /\ copy'[u] = copy[u] /\ inner'[u] = inner[u]
    BY <1>3 DEF Throw, Release, Forget, TypeOK, Inside
  <2> QED
    BY <2>1, SameLooks
<1>4. ASSUME Arrive PROVE LooksAt(u)'
  <2>1. PICK t \in UserTasks, o \in Onus, kind \in Requests :
          RequestLocked(t, o, kind) \/ RequestUnlocked(t, o, kind)
    BY <1>4 DEF Arrive
  <2>2. /\ db' = db /\ copy' = copy /\ inner' = inner /\ crossed' = crossed
        /\ pc'[t] \notin Inside
        /\ u # t => pc'[u] = pc[u] /\ job'[u] = job[u]
    BY <2>1 DEF RequestLocked, RequestUnlocked, Goto, TypeOK, Inside, Tasks
  <2> QED
    BY <2>2, SameLooks
<1>5. ASSUME PollTick PROVE LooksAt(u)'
  <2>1. /\ db' = db /\ copy' = copy /\ inner' = inner /\ crossed' = crossed
        /\ pc'[u] \in Inside => pc'[u] = pc[u] /\ job'[u] = job[u]
    BY <1>5 DEF PollTick, TypeOK, Inside
  <2> QED
    BY <2>1, SameLooks
<1>6. ASSUME Restart PROVE LooksAt(u)'
  <2>1. pc'[u] = "idle"
    BY <1>6 DEF Restart
  <2> QED
    BY <2>1, LeftSees DEF Inside
<1>7. ASSUME IntervalPasses PROVE LooksAt(u)'
  <2>1. /\ db[job[u].onu] \in Row /\ copy[u] \in Row /\ inner[u] \in Row
    BY StatusTypes
  <2>2. /\ pc' = pc /\ job' = job /\ crossed' = crossed /\ copy'[u] = OlderRow(copy[u])
        /\ inner'[u] = OlderRow(inner[u]) /\ db'[job[u].onu] = OlderRow(db[job[u].onu])
    BY <1>0, <1>7 DEF IntervalPasses
  <2> QED
    BY <2>1, <2>2, OlderStatus, SameLooks
<1>8. ASSUME UNCHANGED vars PROVE LooksAt(u)'
  BY <1>8 DEF vars, LooksAt, Sees
<1> QED
  BY <1>1, <1>2, <1>3, <1>4, <1>5, <1>6, <1>7, <1>8 DEF Next

LEMMA KnowsStep ==
  ASSUME StatusInv, [Next]_vars, NEW u \in Tasks PROVE Knows(u)'
<1> USE DEF StatusInv, StatusKept
<1>0. pc \in [Tasks -> LocalPcs] /\ job \in [Tasks -> Job] /\ Knows(u)
  BY DEF TypeOK
<1>1. ASSUME pc'[u] \in {"assign", "assigned"} => pc'[u] = pc[u] /\ job'[u] = job[u]
      PROVE  Knows(u)'
  BY <1>0, <1>1 DEF Knows
<1>2. ASSUME NEW t \in Tasks, LockedStep(t) PROVE Knows(u)'
  BY <1>1, <1>2, OwnFrame, LockedMoves
<1>3. ASSUME NEW t \in Tasks, UnlockedStep(t) PROVE Knows(u)'
  <2>1. CASE u # t
    BY <1>1, <1>3, <2>1, AcrossFrame
  <2>2. CASE u = t /\ ApplyAssign(t)
    BY <1>0, <2>2 DEF ApplyAssign, Goto, Knows
  <2>3. CASE u = t /\ (AssignSave(t) \/ UnlockedRead(t))
    BY <1>0, <1>1, <2>3 DEF AssignSave, UnlockedRead, Goto, Forget
  <2>4. CASE u = t /\ (MarkSave(t) \/ PlanSave(t) \/ DbaSave(t) \/ RecheckSave(t))
    BY <1>0, <1>1, <2>4 DEF MarkSave, PlanSave, DbaSave, RecheckSave, Goto, Forget
  <2> QED
    BY <1>3, <2>1, <2>2, <2>3, <2>4 DEF UnlockedStep
<1>4. ASSUME NEW t \in Tasks, Throw(t) PROVE Knows(u)'
  BY <1>0, <1>1, <1>4 DEF Throw, Release, Forget
<1>5. CASE Arrive
  <2>1. PICK t \in UserTasks, o \in Onus, kind \in Requests :
          RequestLocked(t, o, kind) \/ RequestUnlocked(t, o, kind)
    BY <1>5 DEF Arrive
  <2>2. CASE u # t
    BY <1>0, <1>1, <2>1, <2>2 DEF RequestLocked, RequestUnlocked, Goto
  <2>3. CASE u = t /\ RequestLocked(t, o, kind)
    BY <1>0, <1>1, <2>3 DEF RequestLocked, Goto
  <2>4. CASE u = t /\ RequestUnlocked(t, o, kind)
    BY <1>0, <2>4 DEF RequestUnlocked, Knows
  <2> QED
    BY <2>1, <2>2, <2>3, <2>4
<1>6. CASE PollTick
  BY <1>0, <1>1, <1>6 DEF PollTick
<1>7. CASE Restart
  BY <1>1, <1>7 DEF Restart
<1>8. CASE IntervalPasses \/ UNCHANGED vars
  BY <1>1, <1>8 DEF IntervalPasses, vars
<1> QED
  BY <1>2, <1>3, <1>4, <1>5, <1>6, <1>7, <1>8 DEF Next

\* Whoever changes the status of a row is a call of its ONU: one outside the lock, or a
\* visit that may, or whose row was saved behind its back.
LEMMA ChangeStep ==
  ASSUME StatusInv, TypeOK', [Next]_vars, NEW o \in Onus, db'[o].status # db[o].status
  PROVE  \E t \in Tasks :
           /\ Moves(t) /\ job[t].onu = o
           /\ \/ job[t].kind \in UnlockedKinds
              \/ crossed[o]
              \/ /\ job[t].kind = "auto" => db[o].status \notin Closed
                 /\ db[o].status = "ok" =>
                      job[t].kind \in {"start", "manual", "force"} \/ look[t].irrecoverable
<1> USE DEF StatusInv
<1>1. ASSUME NEW t \in Tasks, LockedStep(t)
      PROVE  job[t].onu = o /\ Moves(t) /\ (crossed[o] \/ MayChange(t))
  <2>1. \A q \in Onus : q # job[t].onu => db'[q] = db[q]
    BY <1>1, OwnFrame
  <2> QED
    BY <1>1, <2>1, LockedLooks, LockedMoves
<1>2. ASSUME NEW t \in Tasks, UnlockedStep(t)
      PROVE  job[t].onu = o /\ Moves(t) /\ job[t].kind \in UnlockedKinds
  <2>1. job[t].onu = o
    BY <1>2, AcrossFrame
  <2>2. AssignSave(t) \/ MarkSave(t) \/ PlanSave(t) \/ DbaSave(t) \/ RecheckSave(t)
    BY <1>2 DEF UnlockedStep, ApplyAssign, UnlockedRead
  <2>3. Knows(t) /\ pc \in [Tasks -> LocalPcs]
    BY DEF StatusKept, TypeOK
  <2> QED
    BY <2>1, <2>2, <2>3 DEF AssignSave, MarkSave, PlanSave, DbaSave, RecheckSave, Forget, Goto,
                            Moves, Knows, UnlockedKinds
<1>3. ~IntervalPasses
  <2>1. ASSUME IntervalPasses PROVE db'[o].status = db[o].status
    <3>1. db[o] \in Row /\ db'[o] = OlderRow(db[o])
      BY <2>1 DEF TypeOK, IntervalPasses
    <3> QED
      BY <3>1, OlderStatus
  <2> QED
    BY <2>1
<1>4. ~Arrive /\ ~PollTick /\ ~Restart /\ ~UNCHANGED vars /\ \A t \in Tasks : ~Throw(t)
  BY DEF Arrive, RequestLocked, RequestUnlocked, PollTick, Restart, vars, Throw
<1>5. PICK t \in Tasks : LockedStep(t) \/ UnlockedStep(t)
  BY <1>3, <1>4 DEF Next
<1> QED
  BY <1>1, <1>2, <1>5 DEF MayChange

LEMMA StatusInvariant == Spec => []StatusInv
<1>1. Init => StatusInv
  <2> SUFFICES ASSUME Init PROVE StatusInv
    OBVIOUS
  <2>1. TypeOK /\ InsideHoldsLock
    BY InitHolds
  <2>2. \A t \in Tasks : pc[t] = "idle"
    BY DEF Init
  <2>3. StatusKept
    BY <2>1, <2>2, OutsideSees DEF StatusKept, Inside, LooksAt, Knows
  <2> QED
    BY <2>1, <2>3 DEF StatusInv
<1>2. StatusInv /\ [Next]_vars => StatusInv'
  <2> SUFFICES ASSUME StatusInv, [Next]_vars PROVE StatusInv'
    OBVIOUS
  <2>1. TypeOK' /\ InsideHoldsLock'
    BY StepType, StepLock DEF StatusInv
  <2> QED
    BY <2>1, StatusStep, KnowsStep DEF StatusInv, StatusKept
<1> QED
  BY <1>1, <1>2, PTL DEF Spec

\* Whatever calls there are, behind the lock or around it, an ok is taken away only by a
\* manual or forced check, a new cycle, an irrecoverable failure or an unlocked call -- or
\* by a poller visit or a kick whose row an unlocked call saved while it had the lock; one
\* that measured something older does not (the sticky ok of executeCheck).
THEOREM OkKeptHolds == Spec => OkKept
<1>1. StatusInv /\ TypeOK' /\ [Next]_vars
        => [\A o \in Onus :
              db[o].status = "ok" /\ db'[o].status # "ok"
                => \E t \in Tasks :
                     /\ Moves(t) /\ job[t].onu = o
                     /\ \/ job[t].kind \in {"start", "manual", "force"} \cup UnlockedKinds
                        \/ look[t].irrecoverable
                        \/ crossed[o]]_vars
  <2> SUFFICES ASSUME StatusInv, TypeOK', [Next]_vars, NEW o \in Onus,
                      db[o].status = "ok", db'[o].status # "ok"
               PROVE  \E t \in Tasks :
                        /\ Moves(t) /\ job[t].onu = o
                        /\ \/ job[t].kind \in {"start", "manual", "force"} \cup UnlockedKinds
                           \/ look[t].irrecoverable
                           \/ crossed[o]
    OBVIOUS
  <2> QED
    BY ChangeStep
<1>2. StatusInv => TypeOK
  BY DEF StatusInv
<1> QED
  BY <1>1, <1>2, StatusInvariant, PTL DEF Spec, OkKept

\* Whatever calls there are, the poller moves a closed row only if an unlocked call saved
\* it during the visit: it looks at the row once it has the lock (shouldSkipHealthPass), and
\* nobody behind the lock closes it meanwhile.
THEOREM PollerSparesClosedHolds == Spec => PollerSparesClosed
<1>1. StatusInv /\ TypeOK' /\ [Next]_vars
        => [\A o \in Onus :
              db[o].status \in Closed /\ db'[o].status # db[o].status
                => \E t \in Tasks :
                     /\ Moves(t) /\ job[t].onu = o
                     /\ job[t].kind # "auto" \/ crossed[o]]_vars
  <2> SUFFICES ASSUME StatusInv, TypeOK', [Next]_vars, NEW o \in Onus,
                      db[o].status \in Closed, db'[o].status # db[o].status
               PROVE  \E t \in Tasks : /\ Moves(t) /\ job[t].onu = o
                                       /\ job[t].kind # "auto" \/ crossed[o]
    OBVIOUS
  <2>1. "auto" \notin UnlockedKinds
    BY DEF UnlockedKinds
  <2> QED
    BY <2>1, ChangeStep
<1>2. StatusInv => TypeOK
  BY DEF StatusInv
<1> QED
  BY <1>1, <1>2, StatusInvariant, PTL DEF Spec, PollerSparesClosed

-----------------------------------------------------------------------------
(* A heal is measured by a later visit *)

\* The verdict of a poller visit that has healed is not fail, whoever else writes the row.
Verdict(t) ==
  pc[t] = "save" /\ job[t].kind = "auto" /\ look[t].healed /\ ~look[t].irrecoverable
    => look[t].next # "fail"

VerdictInv == TypeOK /\ InsideHoldsLock /\ \A t \in Tasks : Verdict(t)

LEMMA DecideVerdict ==
  ASSUME TypeOK, NEW t \in Tasks, CheckDecide(t) PROVE Verdict(t)'
<1> DEFINE closes == ClosesWindow(job[t].kind, copy[t], look[t].healed)
           next == Outcome(job[t].onu, look[t], closes)
<1>1. look[t] \in Look /\ job' = job
  BY DEF TypeOK, CheckDecide
<1>2. look' = [look EXCEPT ![t].next = next]
  BY DEF CheckDecide
<1>3. job[t].kind = "auto" /\ look[t].healed /\ ~look[t].irrecoverable => next # "fail"
  <2>1. job[t].kind = "auto" /\ look[t].healed => ~closes
    BY DEF ClosesWindow
  <2> HIDE DEF closes
  <2> QED
    BY <2>1 DEF Outcome
<1> HIDE DEF next
<1>4. /\ look'[t].next = next /\ look'[t].healed = look[t].healed
      /\ look'[t].irrecoverable = look[t].irrecoverable
  BY <1>1, <1>2 DEF TypeOK, Look
<1> QED
  BY <1>1, <1>3, <1>4 DEF Verdict

LEMMA VerdictStep ==
  ASSUME VerdictInv, [Next]_vars, NEW u \in Tasks PROVE Verdict(u)'
<1> USE DEF VerdictInv
<1>1. ASSUME pc'[u] = "save" => pc[u] = "save" /\ job'[u] = job[u] /\ look'[u] = look[u]
      PROVE  Verdict(u)'
  BY <1>1 DEF Verdict
<1>2. ASSUME NEW t \in Tasks, LockedStep(t) PROVE Verdict(u)'
  <2>1. CASE u # t
    BY <1>1, <1>2, <2>1, OwnFrame
  <2>2. CASE u = t /\ CheckDecide(t)
    BY <2>2, DecideVerdict
  <2>3. CASE u = t /\ ~CheckDecide(t)
    <3>1. CASE StartRead(t) \/ StartSave(t) \/ HealthPassRead(t) \/ HealthPassRetest(t)
      <4>1. pc'[t] # "save"
        BY <3>1 DEF StartRead, StartSave, HealthPassRead, HealthPassRetest, Release, Forget,
                    Goto, TypeOK
      <4> QED
        BY <1>1, <2>3, <4>1
    <3>2. CASE \/ CheckLoad(t) \/ CheckPlan(t) \/ CheckProbe(t) \/ RepushRead(t)
               \/ AdoptSave(t) \/ AdoptReread(t)
      <4>1. pc'[t] # "save"
        BY <3>2 DEF CheckLoad, CheckPlan, CheckProbe, RepushRead, AdoptSave, AdoptReread, Goto,
                    TypeOK
      <4> QED
        BY <1>1, <2>3, <4>1
    <3>3. CASE \/ ProgressRead(t) \/ ProgressSave(t) \/ RebootSave(t) \/ HealReturns(t)
               \/ CheckRefresh(t)
      <4>1. pc'[t] # "save"
        BY <3>3 DEF ProgressRead, ProgressSave, RebootSave, HealReturns, CheckRefresh, Goto, TypeOK
      <4> QED
        BY <1>1, <2>3, <4>1
    <3>4. CASE CheckSave(t)
      <4>1. pc'[t] # "save"
        BY <3>4 DEF CheckSave, Release, Forget, Goto, TypeOK
      <4> QED
        BY <1>1, <2>3, <4>1
    <3> QED
      BY <1>2, <2>3, <3>1, <3>2, <3>3, <3>4 DEF LockedStep, VisitStep
  <2> QED
    BY <2>1, <2>2, <2>3
<1>3. ASSUME NEW t \in Tasks, UnlockedStep(t) PROVE Verdict(u)'
  <2>1. CASE ApplyAssign(t) \/ AssignSave(t) \/ UnlockedRead(t)
    BY <1>1, <2>1 DEF ApplyAssign, AssignSave, UnlockedRead, Forget, Goto, TypeOK
  <2>2. CASE MarkSave(t) \/ PlanSave(t) \/ DbaSave(t) \/ RecheckSave(t)
    BY <1>1, <2>2 DEF MarkSave, PlanSave, DbaSave, RecheckSave, Forget, Goto, TypeOK
  <2> QED
    BY <1>3, <2>1, <2>2 DEF UnlockedStep
<1>4. ASSUME NEW t \in Tasks, Throw(t) PROVE Verdict(u)'
  BY <1>1, <1>4 DEF Throw, Release, Forget, TypeOK
<1>5. CASE Arrive
  BY <1>1, <1>5 DEF Arrive, RequestLocked, RequestUnlocked, Goto, TypeOK, Tasks
<1>6. CASE PollTick
  BY <1>1, <1>6 DEF PollTick, TypeOK
<1>7. CASE Restart
  BY <1>1, <1>7 DEF Restart
<1>8. CASE IntervalPasses \/ UNCHANGED vars
  BY <1>1, <1>8 DEF IntervalPasses, vars
<1> QED
  BY <1>2, <1>3, <1>4, <1>5, <1>6, <1>7, <1>8 DEF Next

\* Only the save of a check is a save in the sense of the properties.
LEMMA SavesOnly ==
  ASSUME TypeOK, [Next]_vars, NEW t \in Tasks, Saves(t) PROVE CheckSave(t)
<1>1. ASSUME NEW u \in Tasks, LockedStep(u) PROVE u = t
  BY <1>1, OwnFrame DEF Saves
<1>2. ASSUME NEW u \in Tasks, UnlockedStep(u) PROVE FALSE
  <2>1. u # t
    BY <1>2 DEF UnlockedStep, ApplyAssign, AssignSave, UnlockedRead, MarkSave, PlanSave, DbaSave,
                RecheckSave, Saves
  <2>2. pc'[t] = pc[t]
    BY <1>2, <2>1 DEF UnlockedStep, ApplyAssign, AssignSave, UnlockedRead, MarkSave, PlanSave,
                      DbaSave, RecheckSave, Forget, Goto, TypeOK
  <2> QED
    BY <2>2 DEF Saves
<1>3. ~Arrive /\ ~PollTick /\ ~Restart /\ ~IntervalPasses /\ ~UNCHANGED vars
      /\ \A u \in Tasks : ~Throw(u)
  BY DEF Saves, Arrive, RequestLocked, RequestUnlocked, PollTick, Restart, IntervalPasses, vars,
         Throw
<1>4. LockedStep(t)
  BY <1>1, <1>2, <1>3 DEF Next
<1> QED
  BY <1>4 DEF Saves, LockedStep, VisitStep, StartRead, StartSave, HealthPassRead,
              HealthPassRetest, CheckLoad, AtVisit, CheckPlan, CheckProbe, RepushRead, AdoptSave,
              AdoptReread,
         ProgressRead, ProgressSave, RebootSave, HealReturns, CheckRefresh, CheckDecide

LEMMA SavedVerdict ==
  ASSUME VerdictInv, NEW t \in Tasks, CheckSave(t), job[t].kind = "auto", look[t].healed,
         ~look[t].irrecoverable
  PROVE  db'[job[t].onu].status # "fail"
<1>1. /\ job[t].onu \in Onus /\ copy[t] \in Row /\ look[t] \in Look /\ look[t].next # "fail"
      /\ db \in [Onus -> Row]
  BY StatusTypes DEF VerdictInv, Verdict, CheckSave, TypeOK
<1>2. db'[job[t].onu] = Concluded(t)
  BY <1>1 DEF CheckSave, Store
<1>3. CASE KeepsOk(t)
  <2>1. Concluded(t).status = copy[t].status
    BY <1>1, <1>3 DEF Concluded, Row
  <2> QED
    BY <1>2, <1>3, <2>1 DEF KeepsOk
<1>4. CASE ~KeepsOk(t)
  <2>1. Concluded(t).status = look[t].next
    BY <1>1, <1>4 DEF Concluded, Row
  <2> QED
    BY <1>1, <1>2, <2>1
<1> QED
  BY <1>3, <1>4

\* A poller visit that has just healed does not close in fail, whatever requests are made,
\* behind the lock or around it: decideVerifyOutcome is told that the window is open, and
\* the verdict of a visit is its own.
THEOREM FailNeedsLaterVisitHolds == Spec => FailNeedsLaterVisit
<1>1. Init => VerdictInv
  BY InitHolds DEF Init, VerdictInv, Verdict
<1>2. VerdictInv /\ [Next]_vars => VerdictInv'
  BY StepType, StepLock, VerdictStep DEF VerdictInv
<1>3. VerdictInv /\ [Next]_vars
        => [\A t \in Tasks :
              /\ Saves(t) /\ job[t].kind = "auto" /\ look[t].healed /\ ~look[t].irrecoverable
              => db'[job[t].onu].status # "fail"]_vars
  BY SavesOnly, SavedVerdict DEF VerdictInv
<1> QED
  BY <1>1, <1>2, <1>3, PTL DEF Spec, FailNeedsLaterVisit
=============================================================================
