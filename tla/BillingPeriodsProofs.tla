------------------------ MODULE BillingPeriodsProofs ------------------------
(***************************************************************************)
(* Theorems about BillingPeriods, for any services, clients, requests and  *)
(* bounds: what the jobs, retries, crashes, suspensions and stale saves    *)
(* cannot do to the periods.                                               *)
(***************************************************************************)
EXTENDS BillingPeriods, SequenceTheorems, TLAPS

-----------------------------------------------------------------------------
(* The invariants *)

Counted(s, p) == billed[s][p] > 0 \/ p \in maintained[s]

\* A row of s, stored or on its way: its date belongs to its period, and the periods
\* before that one are accounted for.
RowRight(s, row) ==
  /\ row.next = NextBilling(row.period)
  /\ \A p \in Periods : p < row.period => Counted(s, p)

RowsRight ==
  /\ \A s \in Services : RowRight(s, db[s]) /\ RowRight(s, copy[s])
  /\ \A e \in Edits : edit[e] # NoEdit => RowRight(edit[e].service, edit[e].row)

\* What the worker holds is what its job selects: rows whose period is over, rows that
\* are due, and rows just invoiced.
LoopRight ==
  /\ pc # "free" => job \in Jobs
  /\ pc = "free" => held = {}
  /\ pc = "periods" => \A s \in todo : PeriodOver(copy[s])
  /\ pc = "generate" => \A s \in todo \cup held : copy[s].next <= today
  /\ pc = "generate" => todo \cap held = {}
  /\ pc = "generate" => \A s \in held : billed[s][copy[s].period] > 0

Inv == TypeOK /\ RowsRight /\ LoopRight

\* A row someone still holds is ahead of the stored one only over periods that are
\* noted as made current again.
HeldAhead(s, row) ==
  \A p \in Periods : db[s].period <= p /\ p < row.period => p \in redone[s]

Ahead ==
  \A e \in Edits : edit[e] # NoEdit => HeldAhead(edit[e].service, edit[e].row)

\* The worker is about to invoice, or has invoiced, the period the service is in.
AtCurrent ==
  pc = "generate" =>
    \A s \in todo : \/ copy[s].period \in redone[s]
                    \/ db[s].period <= copy[s].period

\* An invoiced period is behind the service, or the worker is about to leave it.
InvoicedIsBehind ==
  \A s \in Services, p \in Periods :
    billed[s][p] > 0 /\ p \notin redone[s] =>
      \/ p < db[s].period
      \/ pc = "generate" /\ s \in held /\ copy[s].period = p

TwiceInv == Inv /\ Ahead /\ AtCurrent /\ InvoicedIsBehind /\ TwiceOnlyIfRedone

-----------------------------------------------------------------------------
(* Facts about rows *)

LEMMA Dates ==
  ASSUME TypeOK
  PROVE  /\ settings.regime \in {"from_install", "calendar_month"}
         /\ settings.cycleDay \in {0, 1}
         /\ today \in Nat
         /\ \A row \in Row : row.period \in Periods /\ row.period \in Nat /\ row.next \in Nat
         /\ \A p \in Periods : p \in 0 .. LastDate /\ NextBilling(p) = 2 * (p + 1) + settings.cycleDay
  BY BillingPeriodsAssumption DEF TypeOK, Regimes, Row, Periods, NextBilling

LEMMA FirstRowRight ==
  ASSUME TypeOK
  PROVE  FirstRow \in Row /\ \A s \in Services : RowRight(s, FirstRow)
<1>1. 0 \in Periods /\ NextBilling(0) \in Nat
  BY BillingPeriodsAssumption, Dates DEF Periods
<1>2. FirstRow \in Row
  BY <1>1 DEF FirstRow, Row, Status
<1>3. \A p \in Periods : ~(p < 0)
  BY BillingPeriodsAssumption DEF Periods
<1> QED
  BY <1>2, <1>3 DEF FirstRow, RowRight

LEMMA RolledType ==
  ASSUME TypeOK, NEW s \in Services, NEW row \in Row, RowRight(s, row),
         PeriodOver(row) \/ row.next <= today
  PROVE  /\ Rolled(row) \in Row
         /\ Rolled(row).period = row.period + 1
         /\ Rolled(row).next = NextBilling(row.period + 1)
<1>1. row.period + 1 \in Periods
  <2>1. row.period \in Nat /\ row.period \in Periods /\ row.next \in Nat /\ today \in Nat
    BY Dates
  <2>2. row.next = 2 * (row.period + 1) + settings.cycleDay
    BY <2>1, Dates DEF RowRight
  <2>3. 2 * (row.period + 1) <= today
    BY <2>1, <2>2, Dates DEF PeriodOver
  <2>4. today <= LastDate /\ LastDate \in Nat
    BY BillingPeriodsAssumption DEF TypeOK
  <2> QED
    BY <2>1, <2>3, <2>4 DEF Periods
<1>2. NextBilling(row.period + 1) \in Nat
  BY <1>1, Dates
<1> DEFINE next == NextBilling(row.period + 1)
<1> HIDE DEF next
<1>3. Rolled(row) = [row EXCEPT !.period = row.period + 1, !.next = next]
  BY DEF Rolled, next
<1> DEFINE moved == [row EXCEPT !.period = row.period + 1, !.next = next]
<1>4. moved \in Row /\ moved.period = row.period + 1 /\ moved.next = next
  BY <1>1, <1>2 DEF Row, next
<1> QED
  BY <1>3, <1>4 DEF next

LEMMA StatusRight ==
  ASSUME NEW s \in Services, NEW row \in Row, NEW status \in Status, RowRight(s, row)
  PROVE  /\ [row EXCEPT !.status = status] \in Row
         /\ RowRight(s, [row EXCEPT !.status = status])
         /\ [row EXCEPT !.status = status].period = row.period
  BY DEF Row, RowRight

LEMMA SaveType ==
  ASSUME TypeOK, NEW s \in Services, NEW row \in Row, Save(s, row)
  PROVE  /\ db' \in [Services -> Row] /\ redone' \in [Services -> SUBSET Periods]
         /\ db'[s] = row
         /\ redone'[s] = redone[s] \cup {p \in Periods : row.period <= p /\ p < db[s].period}
         /\ \A u \in Services : u # s => db'[u] = db[u] /\ redone'[u] = redone[u]
  BY DEF TypeOK, Save

\* What is counted stays counted, so a row that is right stays right.
LEMMA RightStays ==
  ASSUME settings' = settings,
         NEW s \in Services, NEW row, RowRight(s, row),
         \A p \in Periods : Counted(s, p) => Counted(s, p)'
  PROVE  RowRight(s, row)'
  BY DEF RowRight, NextBilling

\* Moving a row on from a period that is counted leaves a row that is right.
LEMMA RolledRight ==
  ASSUME TypeOK, NEW s \in Services, NEW row \in Row, RowRight(s, row),
         PeriodOver(row) \/ row.next <= today,
         settings' = settings, Counted(s, row.period)',
         \A p \in Periods : Counted(s, p) => Counted(s, p)',
         NEW rolled, rolled = Rolled(row)
  PROVE  RowRight(s, rolled)'
<1>1. rolled.period = row.period + 1 /\ rolled.next = NextBilling(row.period + 1)
  BY RolledType
<1>2. \A p \in Periods : p < row.period + 1 => p < row.period \/ p = row.period
  BY Dates
<1>3. \A p \in Periods : p < rolled.period => Counted(s, p)'
  BY <1>1, <1>2 DEF RowRight
<1> QED
  BY <1>1, <1>3 DEF RowRight, NextBilling

LEMMA RowsStay ==
  ASSUME TypeOK, RowsRight, UNCHANGED <<settings, db, billed, maintained>>,
         \A s \in Services : copy'[s] \in {copy[s], db[s], FirstRow},
         \A e \in Edits : edit'[e] \in {edit[e], NoEdit}
  PROVE  RowsRight'
<1>1. \A s \in Services, p \in Periods : Counted(s, p) => Counted(s, p)'
  BY DEF Counted
<1>2. ASSUME NEW s \in Services PROVE RowRight(s, db[s])' /\ RowRight(s, copy[s])'
  <2>1. RowRight(s, db[s]) /\ RowRight(s, copy[s]) /\ RowRight(s, FirstRow)
    BY FirstRowRight DEF RowsRight
  <2>2. RowRight(s, copy'[s])
    BY <2>1
  <2> QED
    BY <1>1, <2>1, <2>2 DEF RowRight, NextBilling
<1>3. ASSUME NEW e \in Edits, edit'[e] # NoEdit
      PROVE  RowRight(edit[e].service, edit[e].row)'
  <2>1. edit'[e] = edit[e] /\ edit[e] # NoEdit /\ edit[e].service \in Services
    BY <1>3 DEF TypeOK
  <2> QED
    BY <1>1, <2>1 DEF RowsRight, RowRight, NextBilling
<1> QED
  BY <1>2, <1>3 DEF RowsRight

LEMMA RowsSaved ==
  ASSUME TypeOK, RowsRight, settings' = settings, copy' = copy,
         NEW s \in Services, NEW row \in Row, Save(s, row), RowRight(s, row)',
         \A u \in Services, p \in Periods : Counted(u, p) => Counted(u, p)',
         \A e \in Edits : edit'[e] \in {edit[e], NoEdit}
  PROVE  RowsRight'
<1>1. ASSUME NEW u \in Services PROVE RowRight(u, db[u])' /\ RowRight(u, copy[u])'
  <2>1. RowRight(u, copy[u])'
    BY DEF RowsRight, RowRight, NextBilling
  <2>2. CASE u = s
    BY <2>1, <2>2, SaveType
  <2>3. CASE u # s
    BY <2>1, <2>3, SaveType DEF RowsRight, RowRight, NextBilling
  <2> QED
    BY <2>2, <2>3
<1>2. ASSUME NEW e \in Edits, edit'[e] # NoEdit
      PROVE  RowRight(edit[e].service, edit[e].row)'
  <2>1. edit'[e] = edit[e] /\ edit[e] # NoEdit /\ edit[e].service \in Services
    BY <1>2 DEF TypeOK
  <2> QED
    BY <2>1 DEF RowsRight, RowRight, NextBilling
<1> QED
  BY <1>1, <1>2 DEF RowsRight

-----------------------------------------------------------------------------
(* Inv, step by step: the queue and its worker *)

LEMMA InitInv == Init => Inv
<1> SUFFICES ASSUME Init PROVE Inv
  OBVIOUS
<1>1. 0 \in Periods /\ NextBilling(0) \in Nat
  BY BillingPeriodsAssumption DEF Init, Regimes, Periods, NextBilling
<1>2. FirstRow \in Row
  BY <1>1 DEF FirstRow, Row, Status
<1>3. TypeOK
  BY <1>2, BillingPeriodsAssumption DEF Init, TypeOK, NoDebt, Jobs
<1>4. RowsRight
  BY <1>3, FirstRowRight DEF Init, RowsRight
<1> QED
  BY <1>3, <1>4 DEF Init, Inv, LoopRight

LEMMA EnqueueType ==
  ASSUME TypeOK, NEW name \in {"periods", "generate"}, NEW attempts \in {1, 2},
         Enqueue(name, attempts)
  PROVE  queue' \in Seq(Jobs)
<1>1. [name |-> name, tries |-> 1, attempts |-> attempts, stalled |-> FALSE] \in Jobs
  BY DEF Jobs
<1> QED
  BY <1>1 DEF Enqueue, TypeOK

LEMMA EnqueueInv ==
  ASSUME Inv, NEW name \in {"periods", "generate"}, Schedule(name) \/ RunNow(name)
  PROVE  Inv'
<1>1. queue' \in Seq(Jobs)
  BY EnqueueType DEF Inv, Schedule, RunNow
<1>2. edits' \in 0 .. MaxEdits
  BY BillingPeriodsAssumption DEF Inv, TypeOK, Schedule, RunNow
<1>3. UNCHANGED <<settings, db, today, loop, edit, past, faults>>
  BY DEF Schedule, RunNow
<1>4. TypeOK'
  BY <1>1, <1>2, <1>3 DEF Inv, TypeOK, loop, past
<1>5. RowsRight'
  BY <1>3, RowsStay DEF Inv, loop, past
<1> QED
  BY <1>3, <1>4, <1>5 DEF Inv, LoopRight, PeriodOver, loop, past

LEMMA TakeJobInv == ASSUME Inv, TakeJob PROVE Inv'
<1>1. Head(queue) \in Jobs /\ Tail(queue) \in Seq(Jobs)
  BY DEF Inv, TypeOK, TakeJob
<1>2. Head(queue).name \in {"periods", "generate"}
  BY <1>1 DEF Jobs
<1>3. TypeOK'
  BY <1>1, <1>2 DEF Inv, TypeOK, TakeJob, past
<1>4. RowsRight'
  BY RowsStay DEF Inv, TypeOK, TakeJob, past
<1>5. LoopRight'
  <2>1. held' = {} /\ job' \in Jobs /\ pc' = Head(queue).name /\ copy' = db /\ today' = today
    BY <1>1 DEF Inv, LoopRight, TakeJob
  <2>2. pc' = "periods" => \A s \in todo' : PeriodOver(db[s])
    BY DEF TakeJob
  <2>3. pc' = "generate" => \A s \in todo' : db[s].next <= today
    BY DEF TakeJob, Due
  <2> QED
    BY <1>2, <2>1, <2>2, <2>3 DEF LoopRight, PeriodOver
<1> QED
  BY <1>3, <1>4, <1>5 DEF Inv

LEMMA IdleTypes ==
  ASSUME TypeOK, Idle
  PROVE  /\ job' = NoJob /\ pc' = "free" /\ todo' = {} /\ held' = {}
         /\ owing' \in [Clients -> 0 .. MaxOverdue]
         /\ copy' = [s \in Services |-> FirstRow] /\ copy' \in [Services -> Row]
  BY FirstRowRight, BillingPeriodsAssumption DEF Idle, NoDebt

LEMMA JobEndsInv == ASSUME Inv, JobEnds PROVE Inv'
<1>1. TypeOK'
  BY IdleTypes DEF Inv, TypeOK, JobEnds, past
<1>2. RowsRight'
  BY RowsStay, IdleTypes DEF Inv, JobEnds, past
<1> QED
  BY <1>1, <1>2, IdleTypes DEF Inv, LoopRight, JobEnds

LEMMA RedoType == ASSUME TypeOK, Redo PROVE redone' \in [Services -> SUBSET Periods]
<1>1. \A s \in Services : copy[s].period \in Periods
  BY DEF TypeOK, Row
<1> QED
  BY <1>1 DEF TypeOK, Redo

LEMMA JobThrowsInv == ASSUME Inv, JobThrows PROVE Inv'
<1>1. queue' \in Seq(Jobs)
  <2>1. job \in Jobs
    BY DEF Inv, LoopRight, JobThrows
  <2>2. CASE job.tries < job.attempts
    <3>1. job.tries + 1 \in {1, 2}
      BY <2>1, <2>2 DEF Jobs
    <3>2. [job EXCEPT !.tries = @ + 1] \in Jobs
      BY <2>1, <3>1 DEF Jobs
    <3> QED
      BY <2>2, <3>2 DEF Inv, TypeOK, JobThrows
  <2> QED
    BY <2>2 DEF Inv, TypeOK, JobThrows
<1>2. faults' \in 0 .. MaxFaults
  BY BillingPeriodsAssumption DEF Inv, TypeOK, JobThrows
<1>3. TypeOK'
  BY <1>1, <1>2, IdleTypes, RedoType DEF Inv, TypeOK, JobThrows
<1>4. RowsRight'
  BY RowsStay, IdleTypes DEF Inv, JobThrows
<1> QED
  BY <1>3, <1>4, IdleTypes DEF Inv, LoopRight, JobThrows

LEMMA CrashInv == ASSUME Inv, Crash PROVE Inv'
<1>1. queue' \in Seq(Jobs)
  <2>1. CASE job # NoJob
    <3>1. job \in Jobs
      BY <2>1 DEF Inv, TypeOK
    <3>2. [job EXCEPT !.stalled = TRUE] \in Jobs
      BY <3>1 DEF Jobs
    <3>3. <<[job EXCEPT !.stalled = TRUE]>> \o queue \in Seq(Jobs)
      BY <3>2, ConcatProperties DEF Inv, TypeOK
    <3> QED
      BY <3>3 DEF Inv, TypeOK, Crash
  <2> QED
    BY <2>1 DEF Inv, TypeOK, Crash
<1>2. faults' \in 0 .. MaxFaults
  BY BillingPeriodsAssumption DEF Inv, TypeOK, Crash
<1>3. edit' = [e \in Edits |-> NoEdit]
  BY DEF Crash
<1>4. TypeOK'
  BY <1>1, <1>2, <1>3, IdleTypes, RedoType DEF Inv, TypeOK, Crash
<1>5. RowsRight'
  BY <1>3, RowsStay, IdleTypes DEF Inv, Crash
<1> QED
  BY <1>4, <1>5, IdleTypes DEF Inv, LoopRight, Crash

-----------------------------------------------------------------------------
(* Inv, step by step: the jobs *)

LEMMA MaintainSaveInv ==
  ASSUME Inv, NEW s \in Services, MaintainSave(s) PROVE Inv'
<1>1. copy[s] \in Row /\ RowRight(s, copy[s]) /\ PeriodOver(copy[s])
  BY DEF Inv, TypeOK, RowsRight, LoopRight, MaintainSave
<1>2. PICK row \in Row : row = Rolled(copy[s]) /\ Save(s, row)
  BY <1>1, RolledType DEF Inv, MaintainSave
<1>3. copy[s].period \in Periods
  BY <1>1, Dates DEF Inv
<1>4. /\ settings' = settings /\ copy' = copy /\ edit' = edit /\ billed' = billed
      /\ maintained' = [maintained EXCEPT ![s] = @ \cup {copy[s].period}]
  BY DEF MaintainSave
<1>5. /\ \A u \in Services, p \in Periods : Counted(u, p) => Counted(u, p)'
      /\ Counted(s, copy[s].period)'
  BY <1>4 DEF Inv, TypeOK, Counted
<1>6. RowRight(s, row)'
  BY <1>1, <1>2, <1>4, <1>5, RolledRight DEF Inv
<1>7. RowsRight'
  BY <1>2, <1>4, <1>5, <1>6, RowsSaved DEF Inv
<1>8. TypeOK'
  <2>1. db' \in [Services -> Row] /\ redone' \in [Services -> SUBSET Periods]
    BY <1>2, SaveType DEF Inv
  <2> QED
    BY <2>1, <1>3 DEF Inv, TypeOK, MaintainSave
<1> QED
  BY <1>7, <1>8 DEF Inv, LoopRight, MaintainSave, PeriodOver

LEMMA CreateInvoiceInv ==
  ASSUME Inv, NEW c \in Clients, CreateInvoice(c) PROVE Inv'
<1>1. /\ held = {} /\ held' \subseteq todo /\ todo' = todo \ held' /\ pc = "generate"
      /\ UNCHANGED <<settings, db, today, queue, job, pc, owing, copy, edit, maintained,
                     redone, edits, faults>>
  BY DEF CreateInvoice
<1>2. \A s \in Services : copy[s] \in Row /\ copy[s].period \in Periods
  BY Dates DEF Inv, TypeOK
<1>3. ASSUME NEW s \in Services
      PROVE  /\ billed'[s] \in [Periods -> 0 .. MaxCount]
             /\ \A p \in Periods : billed[s][p] > 0 => billed'[s][p] > 0
             /\ s \in held' => billed'[s][copy[s].period] > 0
  <2> DEFINE p == copy[s].period
  <2>1. /\ billed[s] \in [Periods -> 0 .. MaxCount] /\ p \in Periods
        /\ MaxCount \in Nat /\ MaxCount > 1
    BY <1>2, BillingPeriodsAssumption DEF Inv, TypeOK
  <2>2. billed'[s] = IF s \in held' /\ billed[s][p] < MaxCount
                     THEN [billed[s] EXCEPT ![p] = @ + 1] ELSE billed[s]
    BY DEF CreateInvoice
  <2> HIDE DEF p
  <2>3. CASE s \in held' /\ billed[s][p] < MaxCount
    <3>1. billed'[s] = [billed[s] EXCEPT ![p] = billed[s][p] + 1]
      BY <2>2, <2>3
    <3> QED
      BY <2>1, <2>3, <3>1 DEF p
  <2>4. CASE ~(s \in held' /\ billed[s][p] < MaxCount)
    BY <2>1, <2>2, <2>4 DEF p
  <2> QED
    BY <2>3, <2>4
<1>4. billed' \in [Services -> [Periods -> 0 .. MaxCount]]
  <2>1. billed' = [s \in Services |-> billed'[s]]
    BY DEF CreateInvoice
  <2> QED
    BY <2>1, <1>3
<1>5. TypeOK'
  BY <1>1, <1>4 DEF Inv, TypeOK
<1>6. \A s \in Services, p \in Periods : Counted(s, p) => Counted(s, p)'
  BY <1>1, <1>3 DEF Counted
<1>7. RowsRight'
  <2>1. \A s \in Services : RowRight(s, db[s])' /\ RowRight(s, copy[s])'
    BY <1>1, <1>6 DEF Inv, RowsRight, RowRight, NextBilling
  <2>2. ASSUME NEW e \in Edits, edit[e] # NoEdit
        PROVE  RowRight(edit[e].service, edit[e].row)'
    <3>1. edit[e].service \in Services
      BY <2>2 DEF Inv, TypeOK
    <3> QED
      BY <1>1, <1>6, <2>2, <3>1 DEF Inv, RowsRight, RowRight, NextBilling
  <2> QED
    BY <1>1, <2>1, <2>2 DEF RowsRight
<1>8. LoopRight'
  <2>1. held' \subseteq Services
    BY <1>1 DEF Inv, TypeOK
  <2> QED
    BY <1>1, <1>3, <2>1 DEF Inv, LoopRight
<1> QED
  BY <1>5, <1>7, <1>8 DEF Inv

LEMMA RollSaveInv ==
  ASSUME Inv, NEW s \in Services, RollSave(s) PROVE Inv'
<1>1. copy[s] \in Row /\ RowRight(s, copy[s]) /\ copy[s].next <= today
  BY DEF Inv, TypeOK, RowsRight, LoopRight, RollSave
<1>2. PICK row \in Row : row = Rolled(copy[s]) /\ Save(s, row)
  BY <1>1, RolledType DEF Inv, RollSave
<1>3. UNCHANGED <<settings, copy, edit, billed, maintained>>
  BY DEF RollSave
<1>4. /\ \A u \in Services, p \in Periods : Counted(u, p) => Counted(u, p)'
      /\ Counted(s, copy[s].period)'
  BY <1>3 DEF Inv, LoopRight, RollSave, Counted
<1>5. RowRight(s, row)'
  BY <1>1, <1>2, <1>3, <1>4, RolledRight DEF Inv
<1>6. RowsRight'
  BY <1>2, <1>3, <1>4, <1>5, RowsSaved DEF Inv
<1>7. TypeOK'
  <2>1. db' \in [Services -> Row] /\ redone' \in [Services -> SUBSET Periods]
    BY <1>2, SaveType DEF Inv
  <2> QED
    BY <2>1 DEF Inv, TypeOK, RollSave
<1> QED
  BY <1>6, <1>7 DEF Inv, LoopRight, RollSave

LEMMA CutoffBeginsInv == ASSUME Inv, CutoffBegins PROVE Inv'
<1>1. TypeOK'
  BY DEF Inv, TypeOK, CutoffBegins, past
<1>2. RowsRight'
  BY RowsStay DEF Inv, CutoffBegins, past
<1> QED
  BY <1>1, <1>2 DEF Inv, LoopRight, CutoffBegins

LEMMA CutClientInv ==
  ASSUME Inv, NEW c \in Clients, CutClient(c) PROVE Inv'
<1>1. owing' \in [Clients -> 0 .. MaxOverdue]
  <2>1. owing[c] - 1 \in 0 .. MaxOverdue
    BY BillingPeriodsAssumption DEF Inv, TypeOK, CutClient
  <2> QED
    BY <2>1 DEF Inv, TypeOK, CutClient
<1>2. TypeOK'
  BY <1>1 DEF Inv, TypeOK, CutClient, past
<1>3. RowsRight'
  BY RowsStay DEF Inv, CutClient, past
<1> QED
  BY <1>2, <1>3 DEF Inv, LoopRight, CutClient

LEMMA CutReadInv ==
  ASSUME Inv, NEW s \in Services, CutRead(s) PROVE Inv'
<1>1. TypeOK'
  BY DEF Inv, TypeOK, CutRead, past
<1>2. \A u \in Services : copy'[u] \in {copy[u], db[u], FirstRow}
  BY DEF Inv, TypeOK, CutRead
<1>3. RowsRight'
  BY <1>2, RowsStay DEF Inv, CutRead, past
<1> QED
  BY <1>1, <1>3 DEF Inv, LoopRight, CutRead

LEMMA CutSaveInv ==
  ASSUME Inv, NEW s \in Services, CutSave(s) PROVE Inv'
<1>1. copy[s] \in Row /\ RowRight(s, copy[s]) /\ "suspended" \in Status
  BY DEF Inv, TypeOK, RowsRight, Status
<1>2. PICK row \in Row : row = [copy[s] EXCEPT !.status = "suspended"] /\ Save(s, row)
                           /\ RowRight(s, row)
  BY <1>1, StatusRight DEF CutSave
<1>3. UNCHANGED <<settings, copy, edit, billed, maintained>>
  BY DEF CutSave
<1>4. \A u \in Services, p \in Periods : Counted(u, p) => Counted(u, p)'
  BY <1>3 DEF Counted
<1>5. RowRight(s, row)'
  BY <1>2, <1>3, <1>4, RightStays
<1>6. RowsRight'
  BY <1>2, <1>3, <1>4, <1>5, RowsSaved DEF Inv
<1>7. TypeOK'
  <2>1. db' \in [Services -> Row] /\ redone' \in [Services -> SUBSET Periods]
    BY <1>2, SaveType DEF Inv
  <2>2. owing' \in [Clients -> 0 .. MaxOverdue]
    <3>1. 0 \in 0 .. MaxOverdue
      BY BillingPeriodsAssumption
    <3> QED
      BY <3>1 DEF Inv, TypeOK, CutSave
  <2> QED
    BY <2>1, <2>2 DEF Inv, TypeOK, CutSave
<1> QED
  BY <1>6, <1>7 DEF Inv, LoopRight, CutSave

-----------------------------------------------------------------------------
(* Inv, step by step: requests and time *)

LEMMA EditReadInv ==
  ASSUME Inv, NEW e \in Edits, NEW s \in Services, EditRead(e, s) PROVE Inv'
<1>1. edits' \in 0 .. MaxEdits
  BY BillingPeriodsAssumption DEF Inv, TypeOK, EditRead
<1>2. [service |-> s, row |-> db[s]] \in [service: Services, row: Row]
  BY DEF Inv, TypeOK
<1>3. TypeOK'
  BY <1>1, <1>2 DEF Inv, TypeOK, EditRead, loop, past
<1>4. UNCHANGED <<settings, db, copy, billed, maintained>>
  BY DEF EditRead, loop, past
<1>5. \A u \in Services, p \in Periods : Counted(u, p) => Counted(u, p)'
  BY <1>4 DEF Counted
<1>6. \A u \in Services : RowRight(u, db[u])' /\ RowRight(u, copy[u])'
  BY <1>4, <1>5 DEF Inv, RowsRight, RowRight, NextBilling
<1>7. ASSUME NEW f \in Edits, edit'[f] # NoEdit
      PROVE  RowRight(edit[f].service, edit[f].row)'
  <2>1. CASE f = e
    <3>1. edit'[f].service = s /\ edit'[f].row = db[s]
      BY <2>1 DEF Inv, TypeOK, EditRead
    <3> QED
      BY <3>1, <1>4, <1>5 DEF Inv, RowsRight, RowRight, NextBilling
  <2>2. CASE f # e
    <3>1. edit'[f] = edit[f] /\ edit[f] # NoEdit /\ edit[f].service \in Services
      BY <1>7, <2>2 DEF Inv, TypeOK, EditRead
    <3> QED
      BY <3>1, <1>4, <1>5 DEF Inv, RowsRight, RowRight, NextBilling
  <2> QED
    BY <2>1, <2>2
<1>8. RowsRight'
  BY <1>6, <1>7 DEF RowsRight
<1> QED
  BY <1>3, <1>8 DEF Inv, LoopRight, EditRead, PeriodOver, loop, past

LEMMA EditSaveInv ==
  ASSUME Inv, NEW e \in Edits, EditSave(e) PROVE Inv'
<1> DEFINE s == edit[e].service
<1>1. s \in Services /\ edit[e].row \in Row /\ RowRight(s, edit[e].row)
  BY DEF Inv, TypeOK, RowsRight, EditSave
<1>2. /\ UNCHANGED <<settings, today, queue, loop, billed, maintained, edits, faults>>
      /\ edit' = [edit EXCEPT ![e] = NoEdit]
  BY DEF EditSave
<1>3. \A u \in Services, p \in Periods : Counted(u, p) => Counted(u, p)'
  BY <1>2 DEF Counted
<1>4. \A f \in Edits : edit'[f] \in {edit[f], NoEdit}
  BY <1>2 DEF Inv, TypeOK
<1>5. CASE \E status \in Status : Save(s, [edit[e].row EXCEPT !.status = status])
  <2>1. PICK row \in Row : Save(s, row) /\ RowRight(s, row)
    BY <1>1, <1>5, StatusRight
  <2>2. PICK u \in Services : u = s
    BY <1>1
  <2>3. RowRight(u, row)'
    BY <1>2, <1>3, <2>1, <2>2, RightStays
  <2>4. RowsRight'
    BY <1>2, <1>3, <1>4, <2>1, <2>2, <2>3, RowsSaved DEF Inv, loop
  <2>5. db' \in [Services -> Row] /\ redone' \in [Services -> SUBSET Periods]
    BY <2>1, <2>2, SaveType DEF Inv
  <2>6. TypeOK'
    BY <1>2, <2>5 DEF Inv, TypeOK, loop
  <2> QED
    BY <1>2, <2>4, <2>6 DEF Inv, LoopRight, PeriodOver, loop
<1>6. CASE UNCHANGED <<db, redone>>
  <2>1. RowsRight'
    BY <1>2, <1>4, <1>6, RowsStay DEF Inv, loop
  <2>2. TypeOK'
    BY <1>2, <1>6 DEF Inv, TypeOK, loop
  <2> QED
    BY <1>2, <2>1, <2>2 DEF Inv, LoopRight, PeriodOver, loop
<1> QED
  BY <1>5, <1>6 DEF EditSave

LEMMA DayPassesInv == ASSUME Inv, DayPasses PROVE Inv'
<1>1. TypeOK'
  BY BillingPeriodsAssumption DEF Inv, TypeOK, DayPasses, loop, past
<1>2. RowsRight'
  BY RowsStay DEF Inv, DayPasses, loop, past
<1>3. LoopRight'
  <2>1. \A s \in Services : copy[s].period \in Nat /\ copy[s].next \in Nat
    BY Dates DEF Inv, TypeOK
  <2>2. today' = today + 1 /\ today \in Nat
    BY Dates DEF Inv, DayPasses
  <2>3. \A s \in Services : /\ PeriodOver(copy[s]) => 2 * (copy[s].period + 1) <= today'
                            /\ copy[s].next <= today => copy[s].next <= today'
    BY <2>1, <2>2 DEF PeriodOver
  <2>4. /\ UNCHANGED <<job, pc, todo, held, copy, billed>>
        /\ todo \subseteq Services /\ held \subseteq Services
    BY DEF Inv, TypeOK, DayPasses, loop, past
  <2> QED
    BY <2>3, <2>4 DEF Inv, LoopRight, PeriodOver
<1> QED
  BY <1>1, <1>2, <1>3 DEF Inv

LEMMA StepInv == Inv /\ [Next]_vars => Inv'
<1> SUFFICES ASSUME Inv, [Next]_vars PROVE Inv'
  OBVIOUS
<1>1. CASE JobStep
  BY <1>1, TakeJobInv, JobEndsInv, CutoffBeginsInv, MaintainSaveInv, RollSaveInv, CutReadInv,
     CutSaveInv, CreateInvoiceInv, CutClientInv DEF JobStep
<1>2. CASE JobThrows \/ Crash
  BY <1>2, JobThrowsInv, CrashInv
<1>3. CASE \E name \in {"periods", "generate"} : Schedule(name) \/ RunNow(name)
  BY <1>3, EnqueueInv
<1>4. CASE \E e \in Edits : EditSave(e) \/ \E s \in Services : EditRead(e, s)
  BY <1>4, EditSaveInv, EditReadInv
<1>5. CASE DayPasses
  BY <1>5, DayPassesInv
<1>6. CASE UNCHANGED vars
  <2>1. TypeOK'
    BY <1>6 DEF vars, Inv, TypeOK
  <2>2. RowsRight'
    BY <1>6, RowsStay DEF vars, Inv
  <2> QED
    BY <1>6, <2>1, <2>2 DEF vars, Inv, LoopRight, PeriodOver
<1> QED
  BY <1>1, <1>2, <1>3, <1>4, <1>5, <1>6 DEF Next

LEMMA InvHolds == Spec => []Inv
  BY InitInv, StepInv, PTL DEF Spec

\* Every variable keeps its type: the jobs never index a period past the calendar, nor
\* put back a job that was never taken.
THEOREM TypeCorrect == Spec => []TypeOK
<1>1. Inv => TypeOK
  BY DEF Inv
<1> QED
  BY <1>1, InvHolds, PTL

\* runGenerateInvoices never moves a service past a period without an invoice, and no
\* retry, crash, suspension or stale save does: only runMaintainPeriods can.
THEOREM SkippedOnlyByMaintenanceHolds == Spec => []SkippedOnlyByMaintenance
<1>1. Inv => SkippedOnlyByMaintenance
  BY DEF Inv, RowsRight, RowRight, Counted, SkippedOnlyByMaintenance, Passed
<1> QED
  BY <1>1, InvHolds, PTL

-----------------------------------------------------------------------------
(* Invoicing a period twice *)

LEMMA PeriodTypes ==
  ASSUME TypeOK
  PROVE  /\ \A s \in Services : /\ db[s].period \in Periods /\ copy[s].period \in Periods
                                /\ redone[s] \subseteq Periods
         /\ \A e \in Edits : edit[e] # NoEdit =>
               edit[e].service \in Services /\ edit[e].row \in Row
               /\ edit[e].row.period \in Periods
         /\ Periods \subseteq Nat
  BY Dates DEF TypeOK, Periods

\* A step that leaves rows, history and invoices alone, and the worker too, or takes
\* it out of runGenerateInvoices with nothing in its hands.
LEMMA Quiet ==
  ASSUME TwiceInv, UNCHANGED <<db, redone, billed>>,
         \A e \in Edits : edit'[e] \in {edit[e], NoEdit},
         \/ UNCHANGED <<pc, todo, held, copy>>
         \/ pc' # "generate" /\ (pc = "generate" => held = {})
  PROVE  (Ahead /\ AtCurrent /\ InvoicedIsBehind /\ TwiceOnlyIfRedone)'
<1>1. Ahead'
  BY DEF TwiceInv, Ahead, HeldAhead
<1>2. AtCurrent'
  BY DEF TwiceInv, AtCurrent
<1>3. InvoicedIsBehind'
  BY DEF TwiceInv, InvoicedIsBehind
<1>4. TwiceOnlyIfRedone'
  BY DEF TwiceInv, TwiceOnlyIfRedone
<1> QED
  BY <1>1, <1>2, <1>3, <1>4

\* A rejected or lost job leaves its invoiced services to be invoiced again, and notes it.
LEMMA RedoNotes ==
  ASSUME TwiceInv, Redo, pc' = "free", UNCHANGED <<db, billed>>,
         \A e \in Edits : edit'[e] \in {edit[e], NoEdit}
  PROVE  (Ahead /\ AtCurrent /\ InvoicedIsBehind /\ TwiceOnlyIfRedone)'
<1>1. \A s \in Services : /\ redone[s] \subseteq redone'[s]
                          /\ pc = "generate" /\ s \in held => copy[s].period \in redone'[s]
  BY DEF Redo
<1>2. Ahead'
  <2>1. ASSUME NEW e \in Edits, edit'[e] # NoEdit
        PROVE  HeldAhead(edit[e].service, edit[e].row)'
    <3>1. edit'[e] = edit[e] /\ edit[e] # NoEdit /\ edit[e].service \in Services
      BY <2>1, PeriodTypes DEF TwiceInv, Inv
    <3> QED
      BY <1>1, <3>1 DEF TwiceInv, Ahead, HeldAhead
  <2> QED
    BY <2>1 DEF Ahead
<1>3. InvoicedIsBehind'
  BY <1>1 DEF TwiceInv, InvoicedIsBehind
<1>4. TwiceOnlyIfRedone'
  BY <1>1 DEF TwiceInv, TwiceOnlyIfRedone
<1> QED
  BY <1>2, <1>3, <1>4 DEF AtCurrent

\* A save notes every period it makes current again.
LEMMA SaveNotes ==
  ASSUME TwiceInv, NEW s \in Services, NEW row \in Row, Save(s, row),
         UNCHANGED <<billed, copy, pc>>, todo' \subseteq todo,
         \A e \in Edits : edit'[e] \in {edit[e], NoEdit},
         pc = "generate" => \A u \in held : u # s => u \in held',
         pc = "generate" /\ s \in held =>
           s \in held' \/ copy[s].period < row.period,
         pc = "generate" /\ s \in todo' =>
           copy[s].period \in redone[s] \/ row.period <= copy[s].period
  PROVE  (Ahead /\ AtCurrent /\ InvoicedIsBehind /\ TwiceOnlyIfRedone)'
<1>1. /\ db'[s] = row /\ row.period \in Periods
      /\ redone'[s] = redone[s] \cup {p \in Periods : row.period <= p /\ p < db[s].period}
      /\ \A u \in Services : u # s => db'[u] = db[u] /\ redone'[u] = redone[u]
      /\ \A u \in Services : redone[u] \subseteq redone'[u]
  BY SaveType, Dates DEF TwiceInv, Inv
<1>2. /\ \A u \in Services : db[u].period \in Nat /\ copy[u].period \in Periods
      /\ Periods \subseteq Nat /\ todo \subseteq Services
  BY PeriodTypes DEF TwiceInv, Inv, TypeOK
<1>3. Ahead'
  <2>1. ASSUME NEW e \in Edits, edit'[e] # NoEdit, NEW p \in Periods,
               db'[edit[e].service].period <= p, p < edit[e].row.period
        PROVE  p \in redone'[edit[e].service]
    <3>1. /\ edit[e] # NoEdit /\ edit[e].service \in Services
          /\ edit[e].row.period \in Nat /\ HeldAhead(edit[e].service, edit[e].row)
      BY <1>2, <2>1, PeriodTypes DEF TwiceInv, Inv, Ahead
    <3>2. CASE edit[e].service = s
      <4>1. CASE db[s].period <= p
        BY <1>1, <2>1, <3>1, <3>2, <4>1 DEF HeldAhead
      <4>2. CASE p < db[s].period
        BY <1>1, <2>1, <3>2, <4>2
      <4> QED
        BY <1>2, <4>1, <4>2
    <3>3. CASE edit[e].service # s
      BY <1>1, <2>1, <3>1, <3>3 DEF HeldAhead
    <3> QED
      BY <3>2, <3>3
  <2>2. \A e \in Edits : edit'[e] # NoEdit => edit'[e] = edit[e]
    OBVIOUS
  <2> QED
    BY <2>1, <2>2 DEF Ahead, HeldAhead
<1>4. AtCurrent'
  <2>1. ASSUME NEW u \in todo', pc = "generate"
        PROVE  copy[u].period \in redone'[u] \/ db'[u].period <= copy[u].period
    <3>1. CASE u = s
      BY <1>1, <2>1, <3>1
    <3>2. CASE u # s
      BY <1>1, <1>2, <2>1, <3>2 DEF TwiceInv, AtCurrent
    <3> QED
      BY <3>1, <3>2
  <2> QED
    BY <2>1 DEF AtCurrent
<1>5. InvoicedIsBehind'
  <2>1. ASSUME NEW u \in Services, NEW p \in Periods, billed[u][p] > 0, p \notin redone'[u]
        PROVE  \/ p < db'[u].period
               \/ pc = "generate" /\ u \in held' /\ copy[u].period = p
    <3>1. \/ p < db[u].period
          \/ pc = "generate" /\ u \in held /\ copy[u].period = p
      BY <1>1, <2>1 DEF TwiceInv, InvoicedIsBehind
    <3>2. CASE u = s
      <4>1. CASE p < db[s].period
        <5>1. p \notin redone'[s]
          BY <2>1, <3>2
        <5>2. ~(row.period <= p)
          BY <1>1, <4>1, <5>1
        <5>3. p \in Nat /\ row.period \in Nat
          BY <1>1, <1>2
        <5> QED
          BY <1>1, <3>2, <5>2, <5>3
      <4>2. CASE pc = "generate" /\ s \in held /\ copy[s].period = p
        BY <1>1, <3>2, <4>2
      <4> QED
        BY <3>1, <3>2, <4>1, <4>2
    <3>3. CASE u # s
      BY <1>1, <3>1, <3>3
    <3> QED
      BY <3>2, <3>3
  <2> QED
    BY <2>1 DEF InvoicedIsBehind
<1>6. TwiceOnlyIfRedone'
  BY <1>1 DEF TwiceInv, TwiceOnlyIfRedone
<1> QED
  BY <1>3, <1>4, <1>5, <1>6

LEMMA CreateInvoiceOnce ==
  ASSUME TwiceInv, NEW c \in Clients, CreateInvoice(c)
  PROVE  (Ahead /\ AtCurrent /\ InvoicedIsBehind /\ TwiceOnlyIfRedone)'
<1>1. /\ held = {} /\ held' \subseteq todo /\ todo' \subseteq todo /\ pc = "generate"
      /\ UNCHANGED <<db, pc, copy, edit, redone>>
      /\ todo \subseteq Services
  BY DEF CreateInvoice, TwiceInv, Inv, TypeOK
<1>2. ASSUME NEW s \in Services, NEW p \in Periods, billed'[s][p] # billed[s][p]
      PROVE  s \in held' /\ p = copy[s].period /\ billed'[s][p] = billed[s][p] + 1
  <2> DEFINE q == copy[s].period
  <2>1. billed[s] \in [Periods -> 0 .. MaxCount] /\ q \in Periods
    BY PeriodTypes DEF TwiceInv, Inv, TypeOK
  <2>2. billed'[s] = IF s \in held' /\ billed[s][q] < MaxCount
                     THEN [billed[s] EXCEPT ![q] = billed[s][q] + 1] ELSE billed[s]
    BY DEF CreateInvoice
  <2> HIDE DEF q
  <2>3. s \in held' /\ billed'[s] = [billed[s] EXCEPT ![q] = billed[s][q] + 1]
    BY <1>2, <2>2
  <2> QED
    BY <1>2, <2>1, <2>3 DEF q
<1>3. Ahead'
  BY <1>1 DEF TwiceInv, Ahead, HeldAhead
<1>4. AtCurrent'
  BY <1>1 DEF TwiceInv, AtCurrent
<1>5. InvoicedIsBehind'
  <2>1. ASSUME NEW s \in Services, NEW p \in Periods, billed'[s][p] > 0, p \notin redone[s]
        PROVE  p < db[s].period \/ (s \in held' /\ copy[s].period = p)
    BY <1>1, <1>2, <2>1 DEF TwiceInv, InvoicedIsBehind
  <2> QED
    BY <1>1, <2>1 DEF InvoicedIsBehind
<1>6. TwiceOnlyIfRedone'
  <2>1. ASSUME NEW s \in Services, NEW p \in Periods, billed'[s][p] > 1, p \notin redone[s]
        PROVE  FALSE
    <3>1. billed[s][p] <= 1 /\ billed[s][p] \in Nat
      BY <2>1, BillingPeriodsAssumption DEF TwiceInv, Inv, TypeOK, TwiceOnlyIfRedone
    <3>2. s \in todo /\ p = copy[s].period /\ billed[s][p] > 0
      BY <1>1, <1>2, <2>1, <3>1
    <3>3. p < db[s].period
      BY <1>1, <2>1, <3>2 DEF TwiceInv, InvoicedIsBehind
    <3>4. db[s].period <= p
      BY <1>1, <2>1, <3>2 DEF TwiceInv, AtCurrent
    <3> QED
      BY <3>3, <3>4, PeriodTypes DEF TwiceInv, Inv
  <2> QED
    BY <1>1, <2>1 DEF TwiceOnlyIfRedone
<1> QED
  BY <1>3, <1>4, <1>5, <1>6

LEMMA TakeJobOnce ==
  ASSUME TwiceInv, TakeJob
  PROVE  (Ahead /\ AtCurrent /\ InvoicedIsBehind /\ TwiceOnlyIfRedone)'
<1>1. /\ UNCHANGED <<db, edit, billed, redone>> /\ copy' = db /\ todo' \subseteq Services
      /\ pc = "free"
  BY DEF TakeJob, past
<1>2. \A s \in Services : db[s].period <= db[s].period
  BY PeriodTypes DEF TwiceInv, Inv
<1>3. AtCurrent'
  BY <1>1, <1>2 DEF AtCurrent
<1>4. InvoicedIsBehind'
  BY <1>1 DEF TwiceInv, InvoicedIsBehind
<1> QED
  BY <1>1, <1>3, <1>4 DEF TwiceInv, Ahead, HeldAhead, TwiceOnlyIfRedone

LEMMA EditReadOnce ==
  ASSUME TwiceInv, NEW e \in Edits, NEW s \in Services, EditRead(e, s)
  PROVE  (Ahead /\ AtCurrent /\ InvoicedIsBehind /\ TwiceOnlyIfRedone)'
<1>1. /\ UNCHANGED <<db, pc, todo, held, copy, billed, redone>>
      /\ edit' = [edit EXCEPT ![e] = [service |-> s, row |-> db[s]]]
  BY DEF EditRead, loop, past
<1>2. ASSUME NEW f \in Edits, edit'[f] # NoEdit, NEW p \in Periods,
             db[edit'[f].service].period <= p, p < edit'[f].row.period
      PROVE  p \in redone[edit'[f].service]
  <2>1. CASE f = e
    <3>1. edit'[f].service = s /\ edit'[f].row = db[s]
      BY <1>1, <2>1 DEF TwiceInv, Inv, TypeOK
    <3>2. db[s].period \in Nat /\ p \in Nat
      BY PeriodTypes DEF TwiceInv, Inv
    <3> QED
      BY <1>2, <3>1, <3>2
  <2>2. CASE f # e
    BY <1>1, <1>2, <2>2 DEF TwiceInv, Inv, TypeOK, Ahead, HeldAhead
  <2> QED
    BY <2>1, <2>2
<1>3. Ahead'
  BY <1>1, <1>2 DEF Ahead, HeldAhead
<1> QED
  BY <1>1, <1>3 DEF TwiceInv, AtCurrent, InvoicedIsBehind, TwiceOnlyIfRedone

LEMMA JobStepOnce ==
  ASSUME TwiceInv, JobStep
  PROVE  (Ahead /\ AtCurrent /\ InvoicedIsBehind /\ TwiceOnlyIfRedone)'
<1>1. CASE TakeJob
  BY <1>1, TakeJobOnce
<1>2. CASE JobEnds
  BY <1>2, Quiet DEF JobEnds, Idle, past
<1>3. CASE CutoffBegins
  BY <1>3, Quiet DEF CutoffBegins, past
<1>4. ASSUME NEW s \in Services, MaintainSave(s)
      PROVE  (Ahead /\ AtCurrent /\ InvoicedIsBehind /\ TwiceOnlyIfRedone)'
  <2>1. PICK row \in Row : Save(s, row)
    BY <1>4, RolledType DEF MaintainSave, TwiceInv, Inv, TypeOK, RowsRight, LoopRight
  <2> QED
    BY <1>4, <2>1, SaveNotes DEF MaintainSave
<1>5. ASSUME NEW s \in Services, RollSave(s)
      PROVE  (Ahead /\ AtCurrent /\ InvoicedIsBehind /\ TwiceOnlyIfRedone)'
  <2>1. copy[s] \in Row /\ RowRight(s, copy[s]) /\ copy[s].next <= today /\ s \notin todo
    BY <1>5 DEF RollSave, TwiceInv, Inv, TypeOK, RowsRight, LoopRight
  <2>2. PICK row \in Row : Save(s, row) /\ row.period = copy[s].period + 1
    BY <1>5, <2>1, RolledType DEF RollSave, TwiceInv, Inv
  <2>3. copy[s].period < row.period
    BY <2>2, PeriodTypes DEF TwiceInv, Inv
  <2> QED
    BY <1>5, <2>1, <2>2, <2>3, SaveNotes DEF RollSave
<1>6. ASSUME NEW s \in Services, CutRead(s)
      PROVE  (Ahead /\ AtCurrent /\ InvoicedIsBehind /\ TwiceOnlyIfRedone)'
  BY <1>6, Quiet DEF CutRead, past
<1>7. ASSUME NEW s \in Services, CutSave(s)
      PROVE  (Ahead /\ AtCurrent /\ InvoicedIsBehind /\ TwiceOnlyIfRedone)'
  <2>1. [copy[s] EXCEPT !.status = "suspended"] \in Row
    BY DEF TwiceInv, Inv, TypeOK, Row, Status
  <2>2. PICK row \in Row : Save(s, row)
    BY <1>7, <2>1 DEF CutSave
  <2> QED
    BY <1>7, <2>2, SaveNotes DEF CutSave
<1>8. ASSUME NEW c \in Clients, CreateInvoice(c)
      PROVE  (Ahead /\ AtCurrent /\ InvoicedIsBehind /\ TwiceOnlyIfRedone)'
  BY <1>8, CreateInvoiceOnce
<1>9. ASSUME NEW c \in Clients, CutClient(c)
      PROVE  (Ahead /\ AtCurrent /\ InvoicedIsBehind /\ TwiceOnlyIfRedone)'
  BY <1>9, Quiet DEF CutClient, past
<1> QED
  BY <1>1, <1>2, <1>3, <1>4, <1>5, <1>6, <1>7, <1>8, <1>9 DEF JobStep

LEMMA EditSaveOnce ==
  ASSUME TwiceInv, NEW e \in Edits, EditSave(e)
  PROVE  (Ahead /\ AtCurrent /\ InvoicedIsBehind /\ TwiceOnlyIfRedone)'
<1> DEFINE s == edit[e].service
<1>1. /\ s \in Services /\ edit[e].row \in Row /\ edit[e].row.period \in Periods
      /\ HeldAhead(s, edit[e].row)
  BY PeriodTypes DEF EditSave, TwiceInv, Inv, Ahead
<1>2. /\ UNCHANGED <<pc, todo, held, copy, billed>>
      /\ edit' = [edit EXCEPT ![e] = NoEdit]
      /\ \A f \in Edits : edit'[f] \in {edit[f], NoEdit}
  BY DEF EditSave, loop, TwiceInv, Inv, TypeOK
<1>3. CASE UNCHANGED <<db, redone>>
  BY <1>2, <1>3, Quiet
<1>4. CASE \E status \in Status : Save(s, [edit[e].row EXCEPT !.status = status])
  <2>1. PICK status \in Status : Save(s, [edit[e].row EXCEPT !.status = status])
    BY <1>4
  <2>2. PICK row \in Row : Save(s, row) /\ row.period = edit[e].row.period
    BY <1>1, <2>1 DEF Row
  <2>3. ASSUME pc = "generate", s \in todo
        PROVE  copy[s].period \in redone[s] \/ row.period <= copy[s].period
    <3>1. /\ copy[s].period \in Periods /\ copy[s].period \in Nat
          /\ row.period \in Nat
      BY <1>1, <2>2, PeriodTypes DEF TwiceInv, Inv
    <3>2. CASE copy[s].period < row.period
      <4>1. copy[s].period \in redone[s] \/ db[s].period <= copy[s].period
        BY <2>3 DEF TwiceInv, AtCurrent
      <4> QED
        BY <1>1, <2>2, <3>1, <3>2, <4>1 DEF HeldAhead
    <3> QED
      BY <3>1, <3>2
  <2>4. PICK u \in Services : u = s
    BY <1>1
  <2>5. /\ Save(u, row)
        /\ pc = "generate" /\ u \in todo' =>
             copy[u].period \in redone[u] \/ row.period <= copy[u].period
    BY <1>2, <2>2, <2>3, <2>4
  <2> QED
    BY <1>2, <2>5, SaveNotes
<1> QED
  BY <1>3, <1>4 DEF EditSave

LEMMA StepTwice == TwiceInv /\ [Next]_vars => TwiceInv'
<1> SUFFICES ASSUME TwiceInv, [Next]_vars PROVE TwiceInv'
  OBVIOUS
<1>1. Inv'
  BY StepInv DEF TwiceInv
<1>2. (Ahead /\ AtCurrent /\ InvoicedIsBehind /\ TwiceOnlyIfRedone)'
  <2>1. CASE JobStep
    BY <2>1, JobStepOnce
  <2>2. CASE JobThrows
    BY <2>2, RedoNotes DEF JobThrows, Idle
  <2>3. CASE Crash
    <3>1. \A e \in Edits : edit'[e] = NoEdit
      BY <2>3 DEF Crash
    <3> QED
      BY <2>3, <3>1, RedoNotes DEF Crash, Idle
  <2>4. CASE \E name \in {"periods", "generate"} : Schedule(name) \/ RunNow(name)
    BY <2>4, Quiet DEF Schedule, RunNow, loop, past
  <2>5. CASE \E e \in Edits : EditSave(e) \/ \E s \in Services : EditRead(e, s)
    BY <2>5, EditSaveOnce, EditReadOnce
  <2>6. CASE DayPasses
    BY <2>6, Quiet DEF DayPasses, loop, past
  <2>7. CASE UNCHANGED vars
    BY <2>7, Quiet DEF vars
  <2> QED
    BY <2>1, <2>2, <2>3, <2>4, <2>5, <2>6, <2>7 DEF Next
<1> QED
  BY <1>1, <1>2 DEF TwiceInv

\* runGenerateInvoices invoices a period again only after a fault between its invoice and
\* the save of the service, or after a stale row put the service back.
THEOREM TwiceOnlyIfRedoneHolds == Spec => []TwiceOnlyIfRedone
<1>1. Init => TwiceInv
  <2> SUFFICES ASSUME Init PROVE TwiceInv
    OBVIOUS
  <2>1. Inv
    BY InitInv
  <2> QED
    BY <2>1 DEF Init, TwiceInv, Ahead, AtCurrent, InvoicedIsBehind, TwiceOnlyIfRedone
<1>2. TwiceInv => TwiceOnlyIfRedone
  BY DEF TwiceInv
<1> QED
  BY <1>1, <1>2, StepTwice, PTL DEF Spec
=============================================================================
