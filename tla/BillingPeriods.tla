--------------------------- MODULE BillingPeriods ---------------------------
(***************************************************************************)
(* The billing periods of one tenant's services (billing.service.ts): two  *)
(* jobs move a service from one period to the next, one of them after      *)
(* invoicing it, and requests rewrite the same rows meanwhile.  The jobs    *)
(* run one after another in the queue's worker; each loads its services    *)
(* once and saves those copies, as requests save the copy they read before *)
(* they waited for the network.                                            *)
(*                                                                         *)
(* Dates count half months, so that a month has a first day and a later    *)
(* one.  Period p of a service is month p; it begins at date 2p.           *)
(***************************************************************************)
EXTENDS Naturals, Sequences, FiniteSets

CONSTANTS
  Services,
  ClientOf,     \* the client each service belongs to
  Edits,        \* requests that save a service (updateClientService)
  LastDate,     \* bound: the clock stops there; jobs still run
  MaxEdits,     \* bound: edits and jobs started by hand in a behaviour
  MaxFaults,    \* bound: rejected saves and crashes in a behaviour
  MaxQueue,     \* bound: jobs waiting in the queue
  MaxOverdue,   \* bound: invoices of a client past the days of grace
  MaxCount      \* bound: invoices of one period of a service that are counted

ASSUME BillingPeriodsAssumption ==
  /\ Services # {}
  /\ DOMAIN ClientOf = Services
  /\ LastDate \in Nat /\ MaxEdits \in Nat /\ MaxFaults \in Nat
  /\ MaxQueue \in Nat \ {0} /\ MaxCount \in Nat \ {0, 1}
  /\ MaxOverdue \in Nat \ {0}

VARIABLES
  settings,   \* billingRegime and billingCycleDay; they do not change
  db,         \* the service rows
  today,
  queue,      \* the billing queue
  job,        \* the job the worker runs
  pc,         \* what the worker is doing
  todo,       \* the services its loop has not come to
  held,       \* the services it is about to save
  owing,      \* how many invoices may still make it cut off each client
  copy,       \* the rows it loaded
  edit,       \* each request: the service it saves, and the row it read
  billed,     \* history: how often each period of each service was invoiced
  maintained, \* history: the periods the periods job moved each service out of
  redone,     \* history: the periods a fault or a stale row made current again
  edits,
  faults

vars == <<settings, db, today, queue, job, pc, todo, held, owing, copy, edit,
          billed, maintained, redone, edits, faults>>
loop == <<job, pc, todo, held, owing, copy>>
past == <<billed, maintained, redone>>

Status  == {"active", "suspended", "ended"}
Regimes == {[regime |-> "from_install", cycleDay |-> 0],
            [regime |-> "calendar_month", cycleDay |-> 0],
            [regime |-> "calendar_month", cycleDay |-> 1]}
Clients == {ClientOf[s] : s \in Services}
Periods == 0 .. LastDate
Row     == [status: Status, period: Periods, next: Nat]
Jobs    == [name: {"periods", "generate"}, tries: {1, 2}, attempts: {1, 2},
            stalled: BOOLEAN]
NoJob   == [name |-> "none"]
NoEdit  == [service |-> "none"]
NoDebt  == [c \in Clients |-> 0]

\* nextBillingOnCycleDay: a day of the month that follows the period; in the
\* installation regime, the day after it.
NextBilling(p) == 2 * (p + 1) + settings.cycleDay

\* Mutant: only the next date moves.
RolledDateOnly(row) == [row EXCEPT !.next = NextBilling(row.period + 1)]

\* rollPeriod
Rolled(row) == [row EXCEPT !.period = @ + 1, !.next = NextBilling(row.period + 1)]

\* periodEnd is before today.
PeriodOver(row) == 2 * (row.period + 1) <= today

\* Mutant: what falls due on this day, not what did before.
DueToday(row) == row.status = "active" /\ row.next = today

\* The query of runGenerateInvoices.
Due(row) == row.status = "active" /\ row.next <= today

\* initServicePeriods
FirstRow == [status |-> "active", period |-> 0, next |-> NextBilling(0)]

Init ==
  /\ settings \in Regimes
  /\ db = [s \in Services |-> FirstRow]
  /\ today = 0
  /\ queue = <<>> /\ job = NoJob /\ pc = "free"
  /\ todo = {} /\ held = {} /\ owing = NoDebt /\ copy = db
  /\ edit = [e \in Edits |-> NoEdit]
  /\ billed = [s \in Services |-> [p \in Periods |-> 0]]
  /\ maintained = [s \in Services |-> {}] /\ redone = [s \in Services |-> {}]
  /\ edits = 0 /\ faults = 0

\* A row is saved whole: one that puts a service back to an earlier period makes the
\* periods from there current again.
Save(s, row) ==
  /\ db' = [db EXCEPT ![s] = row]
  /\ redone' = [redone EXCEPT ![s] =
                  @ \cup {p \in Periods : row.period <= p /\ p < db[s].period}]

-----------------------------------------------------------------------------
(* The queue and its worker *)

Enqueue(name, attempts) ==
  /\ Len(queue) < MaxQueue
  /\ queue' = Append(queue, [name |-> name, tries |-> 1, attempts |-> attempts,
                             stalled |-> FALSE])

\* tickTenant, in the minute of the job; one that still waits stands for two.
Schedule(name) ==
  /\ name = "periods" => settings.regime # "from_install"
  /\ \A i \in DOMAIN queue : queue[i].name # name
  /\ Enqueue(name, 2)
  /\ UNCHANGED <<settings, db, today, loop, edit, past, edits, faults>>

\* enqueueManual
RunNow(name) ==
  /\ edits < MaxEdits /\ edits' = edits + 1
  /\ Enqueue(name, 1)
  /\ UNCHANGED <<settings, db, today, loop, edit, past, faults>>

\* The worker takes the next job, which loads its services; in the installation
\* regime runMaintainPeriods has none.
TakeJob ==
  /\ pc = "free" /\ queue # <<>>
  /\ queue' = Tail(queue) /\ job' = Head(queue) /\ pc' = Head(queue).name
  /\ copy' = db
  /\ todo' = IF Head(queue).name = "periods"
             THEN {s \in Services : /\ settings.regime # "from_install"
                                    /\ db[s].status # "ended" /\ PeriodOver(db[s])}
             ELSE {s \in Services : Due(db[s])}
  /\ UNCHANGED <<settings, db, today, held, owing, edit, past, edits, faults>>

\* The job's variables are gone.
Idle == /\ job' = NoJob /\ pc' = "free"
        /\ todo' = {} /\ held' = {} /\ owing' = NoDebt
        /\ copy' = [s \in Services |-> FirstRow]

JobEnds ==
  /\ \/ pc = "periods" /\ todo = {}
     \/ pc = "cutoff" /\ todo = {} /\ held = {} /\ owing = NoDebt
  /\ Idle
  /\ UNCHANGED <<settings, db, today, queue, edit, past, edits, faults>>

\* The services on an invoice whose rows are not saved yet will be due again.
Redo == redone' = [s \in Services |-> IF pc = "generate" /\ s \in held
                                      THEN redone[s] \cup {copy[s].period} ELSE redone[s]]

\* Mutant: the last attempt is followed by another.
JobThrowsOnceMore ==
  /\ pc # "free"
  /\ faults < MaxFaults /\ faults' = faults + 1
  /\ Idle /\ Redo
  /\ queue' = IF job.tries <= job.attempts THEN Append(queue, [job EXCEPT !.tries = @ + 1])
              ELSE queue
  /\ UNCHANGED <<settings, db, today, edit, billed, maintained, edits>>

\* A rejected query or save ends the job; it is retried while it has attempts left.
JobThrows ==
  /\ pc # "free"
  /\ faults < MaxFaults /\ faults' = faults + 1
  /\ Idle /\ Redo
  /\ queue' = IF job.tries < job.attempts THEN Append(queue, [job EXCEPT !.tries = @ + 1])
              ELSE queue
  /\ UNCHANGED <<settings, db, today, edit, billed, maintained, edits>>

\* The process dies: the queue is kept elsewhere, requests are lost, and the job it
\* was running is given out again, once.
Crash ==
  /\ faults < MaxFaults /\ faults' = faults + 1
  /\ Idle /\ Redo
  /\ edit' = [e \in Edits |-> NoEdit]
  /\ queue' = IF job = NoJob \/ job.stalled THEN queue
              ELSE <<[job EXCEPT !.stalled = TRUE]>> \o queue
  /\ UNCHANGED <<settings, db, today, billed, maintained, edits>>

-----------------------------------------------------------------------------
(* runMaintainPeriods *)

MaintainSave(s) ==
  /\ pc = "periods" /\ s \in todo
  /\ todo' = todo \ {s}
  /\ Save(s, Rolled(copy[s]))
  /\ maintained' = [maintained EXCEPT ![s] = @ \cup {copy[s].period}]
  /\ UNCHANGED <<settings, today, queue, job, pc, held, owing, copy, edit, billed, edits, faults>>

-----------------------------------------------------------------------------
(* runGenerateInvoices *)

\* Mutant: an invoice that is rejected is noted and the rows are saved all the same.
CreateInvoiceOrNot(c) ==
  /\ pc = "generate" /\ held = {}
  /\ held' = {s \in todo : ClientOf[s] = c} /\ held' # {}
  /\ todo' = todo \ held'
  /\ billed' \in {billed, [s \in Services |->
                             IF s \in held' THEN [billed[s] EXCEPT ![copy[s].period] = 1]
                             ELSE billed[s]]}
  /\ UNCHANGED <<settings, db, today, queue, job, pc, owing, copy, edit, maintained, redone,
                 edits, faults>>

\* One invoice for all the due services of a client; their rows are saved next.
CreateInvoice(c) ==
  /\ pc = "generate" /\ held = {}
  /\ held' = {s \in todo : ClientOf[s] = c} /\ held' # {}
  /\ todo' = todo \ held'
  /\ billed' = [s \in Services |->
                  IF s \in held' /\ billed[s][copy[s].period] < MaxCount
                  THEN [billed[s] EXCEPT ![copy[s].period] = @ + 1] ELSE billed[s]]
  /\ UNCHANGED <<settings, db, today, queue, job, pc, owing, copy, edit, maintained, redone,
                 edits, faults>>

RollSave(s) ==
  /\ pc = "generate" /\ s \in held
  /\ held' = held \ {s}
  /\ Save(s, Rolled(copy[s]))
  /\ UNCHANGED <<settings, today, queue, job, pc, todo, owing, copy, edit, billed, maintained,
                 edits, faults>>

-----------------------------------------------------------------------------
(* runOverdueCutoff, autoSuspendClientForOverdue *)

\* Invoices sent out or not, the job goes on to the clients whose invoices are overdue.
CutoffBegins ==
  /\ pc = "generate" /\ todo = {} /\ held = {}
  /\ pc' = "cutoff"
  /\ owing' \in [Clients -> 0 .. MaxOverdue]
  /\ UNCHANGED <<settings, db, today, queue, job, todo, held, copy, edit, past, edits, faults>>

\* An overdue invoice: setClientServicesStatus lists the client's services.
CutClient(c) ==
  /\ pc = "cutoff" /\ todo = {} /\ held = {}
  /\ owing[c] > 0 /\ owing' = [owing EXCEPT ![c] = @ - 1]
  /\ todo' = {s \in Services : ClientOf[s] = c /\ db[s].status = "active"}
  /\ UNCHANGED <<settings, db, today, queue, job, pc, held, copy, edit, past, edits, faults>>

\* updateClientService reads the row and waits for the network; an error there is
\* noted and the next service is tried.
CutRead(s) ==
  /\ pc = "cutoff" /\ held = {} /\ s \in todo
  /\ todo' = todo \ {s}
  /\ copy' = [copy EXCEPT ![s] = db[s]]
  /\ held' \in {{}, {s}}
  /\ UNCHANGED <<settings, db, today, queue, job, pc, owing, edit, past, edits, faults>>

\* One service suspended, and the client's other invoices are passed over (clientsCut).
CutSave(s) ==
  /\ pc = "cutoff" /\ s \in held
  /\ held' = {}
  /\ owing' = [owing EXCEPT ![ClientOf[s]] = 0]
  /\ Save(s, [copy[s] EXCEPT !.status = "suspended"])
  /\ UNCHANGED <<settings, today, queue, job, pc, todo, copy, edit, billed, maintained,
                 edits, faults>>

-----------------------------------------------------------------------------
(* updateClientService, and time *)

EditRead(e, s) ==
  /\ edit[e] = NoEdit
  /\ edits < MaxEdits /\ edits' = edits + 1
  /\ edit' = [edit EXCEPT ![e] = [service |-> s, row |-> db[s]]]
  /\ UNCHANGED <<settings, db, today, queue, loop, past, faults>>

\* After the network has been told, or rejected it.
EditSave(e) ==
  /\ edit[e] # NoEdit
  /\ edit' = [edit EXCEPT ![e] = NoEdit]
  /\ \/ \E status \in Status : Save(edit[e].service, [edit[e].row EXCEPT !.status = status])
     \/ UNCHANGED <<db, redone>>
  /\ UNCHANGED <<settings, today, queue, loop, billed, maintained, edits, faults>>

DayPasses ==
  /\ today < LastDate
  /\ today' = today + 1
  /\ UNCHANGED <<settings, db, queue, loop, edit, past, edits, faults>>

-----------------------------------------------------------------------------
JobStep ==
  \/ TakeJob \/ JobEnds \/ CutoffBegins
  \/ \E s \in Services : MaintainSave(s) \/ RollSave(s) \/ CutRead(s) \/ CutSave(s)
  \/ \E c \in Clients : CreateInvoice(c) \/ CutClient(c)

Next ==
  \/ JobStep \/ JobThrows \/ Crash
  \/ \E name \in {"periods", "generate"} : Schedule(name) \/ RunNow(name)
  \/ \E e \in Edits : EditSave(e) \/ \E s \in Services : EditRead(e, s)
  \/ DayPasses

Spec == Init /\ [][Next]_vars

\* The worker goes on and the scheduler ticks; nobody has to press buttons.
Fairness == WF_vars(JobStep) /\ WF_vars(Schedule("generate"))

FairSpec == Spec /\ Fairness

-----------------------------------------------------------------------------
(* Properties *)

\* Types: no service moves past the calendar, no job has more tries than attempts.
TypeOK ==
  /\ settings \in Regimes
  /\ db \in [Services -> Row] /\ copy \in [Services -> Row]
  /\ today \in 0 .. LastDate
  /\ queue \in Seq(Jobs) /\ job \in Jobs \cup {NoJob}
  /\ pc \in {"free", "periods", "generate", "cutoff"}
  /\ todo \subseteq Services /\ held \subseteq Services /\ owing \in [Clients -> 0 .. MaxOverdue]
  /\ edit \in [Edits -> [service: Services, row: Row] \cup {NoEdit}]
  /\ billed \in [Services -> [Periods -> 0 .. MaxCount]]
  /\ maintained \in [Services -> SUBSET Periods] /\ redone \in [Services -> SUBSET Periods]
  /\ edits \in 0 .. MaxEdits /\ faults \in 0 .. MaxFaults

Passed(s) == {p \in Periods : p < db[s].period}

\* No mixture of faults, retries, stale rows and suspensions moves a service past a
\* period that was not invoiced, except the periods job.
SkippedOnlyByMaintenance ==
  \A s \in Services : \A p \in Passed(s) : billed[s][p] > 0 \/ p \in maintained[s]

\* A period is invoiced a second time only if a fault came between the invoice and the
\* save of the service, or a stale row put the service back.
TwiceOnlyIfRedone ==
  \A s \in Services, p \in Periods : billed[s][p] > 1 => p \in redone[s]

\* Whatever was missed is made up for: no active service stays due.
CatchesUp == \A s \in Services : <>[](db[s].status = "active" => db[s].next > today)

-----------------------------------------------------------------------------
(* What the settings page says *)

\* "Crea las facturas mensuales (y prorrateos) cuando llega la fecha de cobro": a
\* service moves past a period only with an invoice for it.
EveryPeriodInvoiced == \A s \in Services : \A p \in Passed(s) : billed[s][p] > 0
=============================================================================
