# Verification of isp-control

TLA+ modules, TLC configurations and TLAPS proofs about `apps/api`, the NestJS
server of isp-control: a panel with which internet providers run their OLTs,
ONUs, routers, clients and invoices. One API process serves all tenants, each
with a PostgreSQL schema of its own; BullMQ queues in Redis carry the billing
jobs. Paths below are under `src/apps/api/src/` unless they say otherwise.

Nearly every hazard of this program has one shape. A handler reads a row with
TypeORM, awaits a device, a mail server or another query, changes some columns
of the entity in memory and saves the *whole* entity. Meanwhile another handler,
a poller, a scheduler or a job did the same. The models keep exactly that: reads
and saves are separate actions, and a save writes the whole copy.

## Inventory

| Component | State | Operations | What makes it correct |
|---|---|---|---|
| Post-provisioning check (`topology/onus/onu-post-provision-verify.*`) | verify columns of `onus`; `verifyChains` | start, poller health pass, Check ONU (manual), kick, forced resync, apply, DBA batch, migrated recheck | one check per ONU at a time; a verdict is about the cycle it closes; bounded heals; every cycle ends |
| Its poller (`onu-post-provision-verify-poll.service.ts`) | `running`; the runners of each tick | tick, race with the timeout, tenant and ONU runners | a global cap per tick; one visit of an ONU per tick; no starvation; the flag never sticks |
| Cap on model reboots (`drivers/onu/infra/reboot-cap.util.ts`) | `verify_detail.modelPrep` | `decideModelPrepReboot`, `rebootOnuWithCap`, every save around it | a customer's ONU is rebooted at most twice per cycle, and not in quick succession |
| Command queues (`drivers/olt/*`, `topology/routers/mikrotik.client.ts`) | queue and busy mark per device | ask, serve, return | one session at a time; urgent first; first come first served; no lost wake-up |
| Periods of services (`billing/billing-*.ts`, `billing.service.ts`) | `client_services` rows; the `billing` queue | scheduler, manual runs, `runMaintainPeriods`, `runGenerateInvoices`, cut-off, retries | every period invoiced, once |
| Invoices and payments (`billing.service.ts`, `client-portal/`) | `invoices`, the counter in `billing_settings` | create, send, mark overdue, cut off, pay (webhook) | a payment is not overwritten; numbers are unique; one mail per job run; only debtors are cut off |
| CRM, suspension (`crm/crm.service.ts`) | `client_services`, ONU and portal state | suspend, reactivate, reconcile with the OLT, change plan | the network agrees with the contract in the end |
| IP pools (`topology/routers/ip-pool.service.ts`) | `ip_pools`, `ip_pool_allocations` with two unique indexes; the address columns of `onus` | assign, adopt, release (WAN and management), resize, remove | an address belongs to one ONU; table and row agree |
| Connected ONUs (`topology/onus/onu-connected.service.ts`) | `onus`; `recentlyDeletedUntil`; the OLT's own configuration | authorise, import, synchronise, poll, refresh, edit, disable, enable, delete | the table shows what the OLT has; a deleted ONU does not come back; a suspension stays |
| TR-069 configuration (`onu-tr069-config.service.ts`, `drivers/onu/`) | the ONU row; the ACS and the OLT outside | apply, repush, heal | only what it writes to the row is in reach |
| Platform subscription (`platform/`) | contracts, charges, modules of a tenant | contract, renew, pay, expire | a paid module stays on; an expired one goes off, once |
| Tenants, authentication, modules, assistant, inventory, support, calendar, TV, web panel | | | CRUD, single statements, text or user interface |

How they interact: the CRM and the cut-off suspend services and call the ONU
services; the apply and the wizard start verify cycles; the poller visits the
ONUs in test and may heal through the TR-069 service, which may reboot through
the cap; all of them reach the devices through the command queues. They share
rows, promise chains in memory, and the job queue; nothing else orders them.

What is hard: two calls of different origin on one row (interleaving, stale
saves); ticks that outlive their timeout; OLT answers after the 60 s race; a
process restart, which empties every chain in memory but no row; jobs that are
retried after half their saves; the order in which two jobs of one night run.
`PROJECT.json` lists each hazard at its line.

## Modules

| Module | Models | Kind |
|---|---|---|
| `OnuVerify` | the check of a tenant's ONUs, its lock and all writers of the verify columns | component |
| `OnuVerifyProofs` | theorems about it | proofs |
| `VerifyPoller` | ticks, timeout, bounded concurrency | component |
| `VerifyPollerProofs` | theorems about it | proofs |
| `RebootCap` | the cap and the saves that lose its count | component |
| `RebootCapProofs` | theorems about it | proofs |
| `DeviceTurns` | what a command queue promises | abstract specification |
| `DeviceQueue` | the CLI, SNMP and router queues; implements `DeviceTurns` | component |
| `DeviceQueueProofs` | theorems about it, the refinement among them | proofs |
| `BillingPeriods` | the jobs and the requests that move or save a service | component |
| `BillingPeriodsProofs` | theorems about it | proofs |
| `Invoices` | numbers, mails, overdue marks, cut-off and payment of invoices | component |
| `InvoicesProofs` | theorems about it | proofs |
| `IpPool` | allocations of addresses, and the ONU rows that repeat them | component |
| `IpPoolProofs` | theorems about it | proofs |
| `OnuRegistry` | the ONUs an OLT has, and the rows that show them | component |
| `OnuRegistryProofs` | theorems about it | proofs |
| `*MC` | constants and symmetry for TLC | |

### OnuVerify

State. `db` is the verify columns of each ONU (`verifyStatus`, `verifyAttempt`,
`verifyStartedAt`, `verifyCheckedAt`, the noted plan, whether there is a WAN
address); `chain[o]` is the promise chain of `withOnuVerifyLock`: its head holds the
lock; `pc`, `job`, `copy`, `inner` and `look` are the locals of each async call, `copy`
being the entity it has in memory and `look` what `executeCheck` measured. History:
`cycle` counts the cycles begun, `heals` the poller visits that healed since anyone
else wrote the row, `died` those of them that never came to their save, and `crossed`
says whether a call outside the lock saved the row since the lock was last taken.
Timestamps are ages in units of three minutes, the poller's
interval, and stop at the window.

Actions. A call arrives (`RequestLocked`, `RequestUnlocked`, `PollTick`), waits for
the head of the chain, and runs in the pieces between two awaits: `StartRead`,
`StartSave`; `HealthPassRead`, `HealthPassRetest`; and the check, `CheckLoad`,
`CheckPlan`, `CheckProbe`, `RepushRead`, `AdoptSave` and `AdoptReread` (the ACS reports
another address), `ProgressRead`, `ProgressSave`, `RebootSave`, `HealReturns`, `CheckRefresh`, `CheckDecide`, `CheckSave`. Manual rounds and kicks come
back by `GoesRound`. The calls outside the lock are `ApplyAssign`, `AssignSave`,
`UnlockedRead`, `MarkSave`, `PlanSave`, `DbaSave`, `RecheckSave`. `Throw` is
a rejected query or device call, `Restart` a restart of the process. What a probe
finds is a free choice; `Outcome` is `decideVerifyOutcome` branch by branch.

### VerifyPoller

The flag `running`, the tick `tick()` awaits (`racing`), and for each tick the tenants
and ONUs its runners have not taken. A tick that loses the race clears the flag but
goes on. A visit is reduced to waiting for the ONU's lock and ending; `Hung` ONUs
never end. `TenantRunners` is `GlobalCap \div TenantCap`, as in `runTick`.

### RebootCap

One ONU: `modelPrep` in its row, and the copies of the row that others hold. `Check` is
the one check the lock admits, of the poller, a kick or a button; it holds two entities:
`repushWanForVerify` reads one before the heal (`HealReads`), saves and reads it again if
it adopts an address (`AdoptSaves`, `HealReadsAgain`), and saves it after the heal if
there is progress to note (`HealReturns`); `executeCheck` reads one for its verdict
(`VerdictRead`, `VerdictSave`). Whether a check heals is left open, so `HealMax` bounds
nothing here. `rebootOnuWithCap` is `Asks` and then `Reboots`, `RebootsUnnoted` (the OLT
answered after the 60 s race, or the save failed) or `RebootFails`. Applies do not take
the lock, and begin a cycle (`ApplyMarks`) or not (`ApplyMarksNothing`: manual mode, no
WAN address). `Savers` are all others that read the row and save it later: DBA, CRM,
edits, `onProgress`, the apply's own saves. Any call may die anywhere (`Dies`). History:
`rebooted` and `sincePoll` are the reboots checks ordered in the cycle and the age of the
last; `late` counts those that were not noted; each row and copy says how many notes it
lacks (`missed`) and whether the last is among them (`stale`), and `undone` adds up the
notes that were missing in what was saved.

The cap of `reboot-cap.util.ts:4-5` is not kept by the code, and `CapBound` says by how
much: `rebooted <= MaxReboots + late + undone`. One way over it needs no fault and no other
call. The heal of a Tenda HG9 whose agent is dead reboots the ONU with `force: false` and
returns progress (`drivers/onu/models/tenda-hg9/verify.ts:133-149`); the reboot is noted
in the row, and `repushWanForVerify` then saves the entity it read before
(`onu-tr069-config.service.ts:2946`, 3044), which has no note. So the next visit finds an
empty `modelPrep`, and reboots again whatever `MODEL_PREP_MIN_GAP_MS` is; with three visits
that heal there are three reboots in a cycle. In the model each of these saves adds one to
`undone`, and the check of the next visit is `stale`, which `GapKept` names as its
condition: a check that read a row with the last reboot in it keeps the gap.

### DeviceTurns and DeviceQueue

`DeviceTurns` says: one call of a device at a time, urgent before background, equals
in the order they were made. `DeviceQueue` has the three implementations, chosen per
device by `kind`, which never changes. In a CLI queue the loop takes the next call
when the former has returned, which is two steps (`CliReturn`, `CliResume`), and a call
may be pushed between them. In an SNMP queue the end of a call clears the busy mark
and pumps at once. A router has a chain of gates. The refinement maps a call that is
settled but not yet resolved to `idle`, and `ahead` to the equals before it in its
queue: `TakesTurns == Turns!Spec`.

### BillingPeriods

A date is half a month: period `p` begins at `2p` and the next billing date is the
first day of the following month, or a later day of it (`billingCycleDay`). A row is
`status`, `period`, `next`. `queue` is BullMQ's queue, `job`, `pc`, `todo`, `held`,
`owing`, `copy` the worker's locals: the rows of `copy` are loaded once by `TakeJob`
and saved one by one. `MaintainSave` is an iteration of `runMaintainPeriods`;
`CreateInvoice` makes one invoice for the due services of a client and `RollSave`
saves each of them; `CutoffBegins`, `CutClient`, `CutRead`, `CutSave` are the cut-off,
through `updateClientService`; `EditRead` and `EditSave` are that same function called
by a request. `JobThrows` and `Crash` may come anywhere. `billed`, `maintained` and
`redone` are history: how often a period was invoiced, which periods the periods job
passed, and which were made current again, by a save that put a row back or by a
fault between an invoice and its saves.

### Invoices

`status` and `number` are the rows of `invoices`, `counter` is `nextInvoiceNumber` in
the one row of settings, `age` says how far an invoice is past its due date. `call[c]`
holds the locals of a request or job: the invoice at hand (`inv`), the status it read
(`copy`), the number or counter it read (`num`), what it listed (`have`, `todo`) and
the ages when it listed (`seen`). `NumberRead` and `NumberSave` are the two halves of
`nextNumber`; `SettingsSave` is any other save of the settings; `Insert` meets the
unique index. `ReadInvoice`, `SendMail` or `MailFails`, and `SaveInvoice` are a mailing,
by a job through `sendIssuedInvoice` (which re-reads the invoice but never looks at
its status), by a request through `sendInvoice`. `CutList`, `CutMark`, `CutSuspend`,
`CutEnds` are `runOverdueCutoff`, `Portal` and `PortalSave` the client's `listInvoices`,
`Pay` the webhook. TypeORM compares an entity with the database row when it saves, so
a stale status is written back. History: `mails`, `slips` (a mail went out and was not
noted), `cut`, and in each call `late`, the invoices it knew as unpaid when their payment
came. For the numbers, `top` is the highest given out, `again` counts how often one was
given out that was given out before, `missed` is, in each call that has read the settings,
how many numbers were given out since, and `forgotten` adds these up when such a copy is
saved, by `nextNumber` or anything else. `NumbersAgain` (`again <= forgotten`) so counts
the race of two `nextNumber` against the numbers it costs.

### IpPool

`hosts` has the range of each pool or none, `alloc` is `ip_pool_allocations`, `row`
the WAN and management address of each ONU. A call goes through `setOnuTr069`, the
wizard or the assignment in the order of the code: it looks for an allocation it may
keep (`FindKeep`), reads the pools (`ListPools`) and then the allocations of the ONU
(`FindOthers`), drops the superfluous ones and those of other pools (`Drop`, `Dropped`),
tries the wanted address (`FindTaken`, `Unkeep`, `InsertWanted`)
or the lowest free one up to five times (`Choose`, `Insert`), and saves the row
(`SaveRow`, `SaveAgain`). `ChangeMgmt` is `assignMgmtIpForVlan`: it drops every management
allocation before it looks for the pool of the VLAN (`FindPool`), and where there is none
it is rejected with the row still showing the address. `Accepts` is what the unique indexes and foreign keys of the
schema allow. `PurgeAllocs` and `PurgeRow` delete an ONU, `CheckRange` and `ResizeRow`
resize a pool, `CountAllocs` and `RemoveRow` remove one, which cascades. `reclaim`
finds nothing, since foreign keys cascade, and is left out. The history `open` names
the ONUs and purposes whose books are not closed: a call is between the allocation and
the row, or stopped there (a fault, a rejected insert, a VLAN without pool), or two calls
had the ONU at once. A later call that is alone and settles them closes them again.
`BooksAgree` and `AddressOfOne` are about closed books; what happens to open ones is noted
below.

### OnuRegistry

`olt` is what the OLT has at each interface, `row` the row that shows it, `mark` the
memory of recent deletions, `pending` the commands whose call gave up. A
synchronisation is `SyncList` (one instant, by SNMP without the admin state or by
CLI), `SyncLoad`, then `SyncCheck` and `SyncSave` for each listed ONU, then `SyncPurge`
for each row not seen; a poll is `PollList` and `PollUpdate`; `AuthoriseOlt`,
`ImportRead`, `ImportSave` are an authorisation, `DeleteOlt`, `MarkDeleted`, `DeletePurge`
a deletion, `AdminOlt`, `AdminRead` and `WriteCopy` a suspension or its end; `WriteCopy`
also ends edits and refreshes. Each command of these calls may outlast its timeout
(`CommandTimesOut`) and be carried out later (`LateCommand`); only a deletion then looks
(`GoneCheck`). A save of a row that is gone inserts it again, unless the unique index of
OLT and interface objects (`Conflict`). `ByHand` is somebody at the console.

History: `strange` and `unshown` are the interfaces whose row differs from the OLT for a
reason the step that made the difference had (`Explains`). The reasons are listed, and
numbered, in the comments of `ShownAsOnOlt` and `SuspensionShown`; each is something the
code does and a reader of the table should know, and everything else that makes row and
OLT differ violates the property. `excuse` holds, for each call, the interfaces of which
it knows something that is no longer so, or that it skipped. `quiet` is a call during
which no other call starts or is under way and the OLT does nothing unexpected;
`SyncReconciles` is about such synchronisations and leaves out only what they skipped
(`Skipped`), which `PurgedAreGone` then is about.

## Runs

| Run | Shows | Bounds |
|---|---|---|
| `verify_locked` | with every kind of request, rejections and a restart: mutual exclusion; heals bounded but for visits that heal and die; verdicts about their own cycle, `ok` kept and closed rows spared unless an unlocked call saves the row during the visit; no `fail` straight after a heal | 1 ONU, 2 requests, 2 poller calls, 2 heals, window 1, 1 rejection after a heal |
| `verify_live` | every waiting call gets the lock and every cycle ends, with every kind of request, rejected user calls and a restart | 1 request caller, 1 poller call, 2 requests |
| `verify_stale` | **finding**: an apply begins a cycle outside the lock, and the check in flight closes it | 2 requests |
| `poller_hung` | with ticks that time out and go on, the flag is up exactly while a tick is awaited, a tick visits an ONU once, and an ONU that never ends does not keep the others from being visited | 2 tenants, 3 ONUs (1 hung), 2 ticks |
| `reboot_bound` | by how much the cap may be exceeded, and who keeps the gap, whatever is lost, whoever dies | a check, 1 apply, 1 other saver, cap 2, gap 2, 4 reboots |
| `device_turns` | each kind of queue implements turn taking, loses no call, and serves all that priorities allow | 5 callers of one device, 1 of another |
| `billing_kept` | invoicing skips no period, repeats one only after a fault or a stale save, and catches up | 2 services of a client, 2 months, 1 edit or manual run, 2 faults |
| `billing_skipped` | **finding**: the periods job moves a service past its period on the day it falls due | no fault, no edit |
| `ip_pool` | table and rows agree where the books are closed, no address then belongs to two ONUs, and a failed try is another call's success | 2 ONUs, 2 calls, 2 WAN pools and a management pool of at most 2 addresses, 2 tries, 3 requests, 1 fault |
| `onu_registry` | the table contradicts the OLT only for the listed reasons, and a synchronisation nothing disturbs reconciles all but what it skips | 2 interfaces, 2 calls, 4 requests, 2 faults |
| `onu_skipped` | **finding**: a synchronisation purges the row of an ONU that was deleted and authorised again within two minutes | 1 interface, 1 call, 4 requests |
| `invoices` | a payment is lost only to a late save, jobs mail once, a number comes again only as often as a saved copy missed one, only debtors are cut off | 2 invoices, 2 calls, 3 requests, 3 numbers, 1 fault |

Why the bounds are enough. The properties of `OnuVerify` are per ONU and ONUs share
nothing but the poller, so one ONU with two callers of each sort reaches every
interleaving of a pair; a third would only wait. Heals and windows are small but
larger than one, so that a postponed verdict, a second heal and the final read
occur. In `verify_locked` the window is one interval, so that it has expired at the second
visit. Two ticks are all that can differ: each later one meets the same runners. In
`RebootCap` the cap is the code's; two reboots within it and two beyond show both ways of
losing a note and that a gap is due before the cap is reached, and a gap of two units that
an apply's guard is shorter than the poller's. Its `VIEW` leaves out the copies of the row
that nobody will save: their holders read the row before they do anything else. The
queue instance has two calls of each urgency waiting behind a third, the least in
which order and overtaking can go wrong. In `BillingPeriods` two services on one
invoice make a half-saved invoice possible, and two faults a retry that fails again;
two months let a stale row skip or repeat a period. `MaxCount`, `MaxClicks`,
`MaxOrders`, `MaxRequests`, `MaxEdits`, `MaxFaults`, `MaxDied`, `MaxNumber`, `MaxQueue`,
`MaxOverdue`, `LastDate` and `Ticks` are bounds of the models, not of the code; each is a
guard on what may *start* (`MaxDied`: on the rejection of a visit that has healed).
Ages saturate where the code's comparisons no longer tell values apart. In `IpPool`
two ONUs compete for the last address of a pool and another pool is there to move to.
In `OnuRegistry` two calls overlap and four requests let a history (an authorisation,
a suspension) come before the two that race; two faults are a deletion that gives up
and an error of the check after it, or two commands that come late. In `Invoices` three requests are two that race
and a third that made the invoice.

Each property of a passing run has a mutant in `PROJECT.json`: a plausible bug in a
modelled definition that makes TLC refute it.

What some of them do not say: `CatchesUp` is also satisfied when the periods job moves the
service past the period (that is `billing_skipped`), and presumes that a job can be put in
the queue. `SkippedOnlyByMaintenance` and `TwiceOnlyIfRedone` name the faults that excuse
a period; what they rule out is everything else, a retry that invoices again what was
completed above all. `PaidLostOnlyByLateSave` excuses the late saves themselves: it says
that nothing but them loses a payment, so the status check of `sendInvoice` and the
filters of the lists are what is tested. `CutOnlyDebtors` is about the filter at listing
time and the first cut of an invoice.

## Fairness

* The event loop runs every continuation: weak fairness of the steps of calls that
  are inside the code (`LockedStep`, `UnlockedStep`, `Work`, `CliResume`, `TickStep`).
  Device calls have timeouts (TR-069 and OLT sessions, mail), so a call under way
  ends; the exception, a heal that never settles, is `Hung` in `VerifyPoller`.
* `setInterval` keeps ticking: weak fairness of `PollTick`, `Tick` and `Schedule`; time
  passes: `IntervalPasses`. In `BillingPeriods` the clock may stop, since catching up
  is about what has already fallen due.
* A tenant's listing succeeds sometimes if it is tried over and over: strong fairness
  of `ListDue`.
* Users owe nothing: no request, click, edit or manual run is fair, nor is a fault.

## Proofs

The eight `*Proofs` modules are checked by TLAPS (SMT, Zenon and LS4) for every value of
the constants, under the assumptions named in the modules: the bounds are numbers, the
values that stand for "nothing" (`None`) are no value of the type they are absent from,
an apply is not the poller's visit. Each module states its inductive invariant as named
parts, has a lemma per action, and ends with the theorems.

* `OnuVerify`: `TypeCorrect`; `MutualExclusionHolds` from the invariant that a call in
  the locked part is the head of its ONU's chain (`InsideHoldsLock`): the type
  invariant alone does not exclude two calls that both believe they hold it.
  None of the theorems assumes anything about who makes requests or what may throw.
  `FreshVerdictHolds` adds that a check past its final read saw the current cycle or was
  crossed by an unlocked save (`LooksAtCycle`); that the excuse is needed is what
  `verify_stale` shows. For `HealBudgetHolds`, as long as nobody crosses, what the call that
  holds the lock has in memory agrees with the attempt in the row (`Agrees`); crossed, a
  visit can add one heal to a count that has just begun (`Visited`); and the heals of an
  ONU are counted in its row, unless it is closed or a visit that has healed is under way
  (`Counted`). `OkKeptHolds` and `PollerSparesClosedHolds` follow from one invariant: a
  visit that nobody crossed sees its row as it is (`Sees`, `LooksAt`), what it is about to
  save has the status of the row, and a poller visit past `shouldSkipHealthPass` is in an
  open row. `FailNeedsLaterVisitHolds` needs no such excuse: that a visit has just healed is
  in its own memory (`Verdict`), which no writer reaches.
* `VerifyPoller`: `TypeCorrect` and `FlagHolds` are inductive together.
  `VisitedOnceHolds` needs that a tick holds ONUs only of tenants it maps
  (`IdleTenants`), that tenants it has not taken have none (`TodoIdle`), and that an ONU
  it has still to visit is not in any queue for it (`DueOnce`): a listing could
  otherwise bring back an ONU the tick is visiting. `GlobalCapHolds` counts: a tick has
  at most `TenantCap` ONUs of a tenant in hand (`OnusCapped`) and at most `TenantRunners`
  tenants (`TenantsCapped`), and their product is within `GlobalCap` if a tenant's cap
  is. The source has 5 and 40, and its tests pin both
  (`onu-post-provision-verify.util.spec.ts:353-354`); with a tenant's cap above the
  global one the property would be false, since one tenant is always visited. This
  property is proved only: an instance in which two ticks do not reach every ONU anyway is
  beyond what TLC finishes with the liveness of `poller_hung`.
* `RebootCap`: the stored count and those in memory are bounded by the cap and the applies
  made (`CountsBounded`), which the types need. For `CapHolds`, the count in the row, and in
  every copy somebody may still save, accounts for the reboots of the cycle together with
  the notes it lacks and those lost before (`Accounts`); a check that is at the OLT lacks
  none, since it read the row just before. For `GapHolds`, a row or copy that is not stale
  knows of the last reboot (`Aware`).
* `DeviceQueue`: for each device (`Right`), its queue holds exactly its waiting calls,
  each once; nothing waits at a device that is free, at most one call is served, and
  only while the device is busy. The SNMP queue is `Sorted`: no urgent call stands
  behind a background one, which is why insertion and removal, two mechanisms, agree.
  A router's call keeps its place until it returns, so its head is the one served.
  `WaitingIsQueuedHolds` follows. For `TakesTurnsHolds` the order of a queue is the
  relation `Precedes`; lemmas say what appending, inserting and taking do to it, and
  each action is then a step or a stutter of `DeviceTurns`, by two lemmas on how a call
  enters (`AskStep`) and leaves (`ServeStep`) the order.
* `Invoices`: `TypeCorrect` needs what a call holds where (`LocalsRight`).
  `PaidLostHolds`: a call that will save an unpaid status over a paid one is marked late
  (`LateIsKnown`), and one working on a new invoice knows it (`Made`).
  `NumbersAgainHolds`: a counter, stored or in a copy, that is behind the highest number has
  by how much in what was forgotten or in what it misses (`Known`, `NumbersKnown`). `JobMailsOnceHolds`: one worker (`OneJob`), which is about to mail
  only invoices that no job has mailed, but for slips (`JobsRight`, `NewUnmailed`).
* `OnuRegistry`: `SuspensionShownHolds` is inductive with the types, since
  `ApplySnapshot` keeps a suspension in the copy whatever the listing says; that the copy
  may be older than the row is reason 3 of the property.
  `ShownAsOnOltHolds` needs what each call knows (`KnowledgeRight`): for every interface
  it listed and has not reached, the listing is still true, or something has changed
  the OLT since and is noted, or the deletion is about to be remembered (`Marking`) or is;
  and what it neither has to do nor saw, the OLT lacks, or it was skipped and is noted.
  `SyncReconcilesHolds` follows a synchronisation that is alone slot by slot (`Follows`):
  what it listed is what the OLT has, each interface is still to do or seen but not both,
  what was seen has a row, and every other row is the one it loaded. That it stays alone
  is part of the invariant (`Undisturbed`): requests, late commands and changes by hand
  take the mark away.
* `IpPool`: one invariant, `BooksInv`, for `BooksAgreeHolds`; `AddressOfOneHolds` follows
  from it and the unique index. The copy a call will save is the row, for a purpose
  whose books are closed (`Copied`); of two calls for one ONU neither is alone and its
  books are open (`Together`); and a call whose purpose nobody disturbed knows, at each
  place, the allocations its ONU has: those to drop and the one to keep are all there
  are (`Works`). Deleting by identity deletes one row because identities in the table
  and in memory are of one allocation (`TablesRight`). A step of a call disturbs only
  its own ONU (`OwnStep`), but for the removal of a pool, which robs several. Since the
  pools are read before the allocations, a call knows that it drops all there are only
  because no allocation is in a pool that does not exist (`PoolsRight`).
  `LostTriesHolds` adds `TryInv`: while a call alone with its ONU allocates, the ONU
  has a row and, once the call has nothing to keep, no address in the pool; the one it chose is free unless it was beaten since. The property is about one try, for over
  all tries it is false: a pool that is removed and saved again by a resize that had read
  it before makes a call lose one try to the removal and the next to nobody.
* `BillingPeriods`: `TypeCorrect` and `SkippedOnlyByMaintenanceHolds` from `Inv`: every
  row, stored or in the memory of the worker or of a request, has the billing date of
  its period, and the periods before it are accounted for (`RowsRight`); the worker
  holds only rows that are over, due, or just invoiced (`LoopRight`). The types need
  both: that a period stays in the calendar follows from its date being due.
  `TwiceOnlyIfRedoneHolds` needs three more facts. A row in memory is ahead of the
  stored one only over periods that are noted (`Ahead`); the worker is about to invoice
  the current period of a service, or a noted one (`AtCurrent`); an invoiced period
  is behind the service, noted, or about to be left (`InvoicedIsBehind`). Without
  `Ahead`, a request that read a row before another put it back could lift the
  service over the period the worker is about to invoice.

TLC checked each inductive invariant on the instance of its run before it was proved.

Only model-checked: liveness (`LockGranted`, `TestResolves`, `OthersAreVisited`,
`UrgentServed`, `BackgroundServed`, `CatchesUp`), which is out of this prover's reach, as
is `ENABLED`. Every other property of a passing run is a theorem; `PurgedAreGone`, `FreshVerdict` and
`EveryPeriodInvoiced` are refuted. No module declares a
RECURSIVE operator.

## Findings

1. `markPostProvisionVerify` starts a cycle without the lock (`verify_stale`).
2. By the default schedules (periods at 00:05, invoices at 06:00, cycle day 1) the
   periods job moves `nextBillingDate` before `runGenerateInvoices` looks for it, and
   no monthly invoice is made (`billing_skipped`). With the periods job disabled, in
   the regime `from_install`, or with the jobs the other way round on day 1, they are.
3. A synchronisation skips an ONU whose deletion it remembers, does not note it as seen, and
   purges its row as "Absent from OLT inventory" (`onu-connected.service.ts:1977`), although
   the ONU was authorised again and is in the inventory (`onu_skipped`); `authorize` never
   clears the memory. The addresses of the row and its link to the service go with it.

Noted without a run:

* A manual check closes its window even when it has just healed
  (`onu-post-provision-verify.service.ts:730`), so the second look that 298-300
  promises is not taken.
* A tick that timed out clears the flag and goes on
  (`onu-post-provision-verify-poll.service.ts:82`): its runners come on top of the next
  tick's, against "Un tick no se solapa con el siguiente" (26-28). `GlobalCapKept`
  counts them, 40 for each tick under way.
* `repushWanForVerify` saves the entity it read before the heal
  (`onu-tr069-config.service.ts:3044`), whose `verifyDetail` lacks the reboot counted
  meanwhile, so a Tenda HG9 may be rebooted by each of three visits; `reboot-cap.util.ts:4-5`
  promises a maximum and a gap. `CapBound` says how far it is exceeded (see `RebootCap`
  above).
* `sendIssuedInvoice` reads the invoice again but does not look at its status: a job
  mails an invoice that was paid after its listing and sets it to `sent`
  (`billing.service.ts:1225`, 1259). `PaidLostOnlyByLateSave` counts such calls as late.
* The webhook answers 200 when the gateway's API gives an error, and the gateway does
  not report again (`client-portal.service.ts:774`). An invoice whose items fail to
  save keeps its number and total without them.
* A visit that heals and is then rejected or cut by a restart stores no attempt
  (`onu-post-provision-verify.service.ts:767`), and the next one heals as if it had not
  been: `HealBudget` allows one more for each.
* `nextNumber` may give a number twice, and the scheduler and the settings page save the
  row of settings they read before, which puts the counter back; the index on the number
  then rejects the invoices until the counter has caught up (`NumbersAgain`).
* A pool removed between count and removal takes later allocations with it
  (`ip-pool.service.ts:590-612`); a resize checks allocations before it saves (482); a
  preferred address is inserted after the kept one was deleted, and if that is
  rejected the row shows an address others may get (1038-1048); a second allocation of
  the same ONU meets the index on pool and ONU and uses up its five tries. A change to a
  management VLAN without a pool is rejected after the allocation was deleted (1180), and
  the row shows the address on.
* A synchronisation that listed the OLT before an ONU was authorised purges its row
  (`onu-connected.service.ts:1979-1983`), and with it addresses and link to the
  service. Late saves of older copies insert a deleted row again. The memory of deletions lasts
  120 s, a CLI listing up to 180 s. A failed gone-check counts as gone (3178).
* A row that is inserted from an SNMP listing shows an ONU as enabled that the OLT has
  disabled (`SuspensionShown`, reason 2), and a poll, a synchronisation, an edit or a
  refresh that loaded the row before a suspension saves it without (reason 3).
* The commands of disable, enable and authorise may be carried out after the caller was
  told that they failed (3018, 1575); nothing looks.
* A row that shows a suspension is not purged when its ONU left the OLT, and an ONU
  authorised anew there stays shown as suspended.
* The lock map of the check never deletes an entry (it compares two different
  promises); `cli.ts:125` says that the CLI is serialised per OLT, but probes, card
  listings and card reboots open sessions outside the queue.

## What is not modelled

* In `OnuVerify`: ONUs in manual provision mode; `startAfterApply`, which has no caller;
  the many other saves of an ONU row (synchronisation, edits of its name or place),
  which carry the verify columns they read and can put back old ones, like the
  modelled ones; a migrated check's text and evidence.
* In `VerifyPoller`: a poller visit within three minutes of the last one through two
  overlapping ticks; if as many ONUs hang as a tenant has runners, the others of
  that tenant do wait (`Hung` has fewer).
* In `RebootCap`: when a check heals and how often (the attempt is in `OnuVerify`); the
  progress and evidence in `verify_detail` beside `modelPrep`; time passes in units of two
  minutes, the guard of explicit applies, and stops at the gap.
* In `DeviceQueue`: what a call does, and the calls that bypass the queue.
* In `BillingPeriods`: the fees on an invoice; creation of services, the bulk start of
  imported ones and a change of regime or cycle day; `billing.send`, which touches no
  service; other tenants, which share the worker but no row.
* In `Invoices`: amounts, items, templates, PDF, WhatsApp; the statuses `draft` and
  `void`, which nothing sets; two invoices of one client in one cut-off (`clientsCut`);
  what a suspension does.
* In `IpPool`: the gateway address on the router, VLAN names, statistics.
* In `OnuRegistry`: the list of denied serial numbers, metrics and traffic, the SNMP
  poll (it does not touch the admin state), ONUs moved to another port (rows found by
  serial number), drivers other than the one the OLT has.
* CRM beyond services in billing (reconciling a suspension with the OLT) and the
  platform subscription: see the plan.
* Drivers, parsers, CLI dialects, text, layout, the web panel, the TV agent.

## Plan

1. `Subscription`: contract, renewal, payment and expiry of modules.
2. Suspension: `autoSuspendClientForOverdue` through the CRM to the OLT, and its
   reconciliation, composed with `OnuRegistry` and `Invoices`.
3. Theorems about what liveness rests on: places in the chain of a lock and in a
   lane only move forward, and whoever waits waits for somebody who can go on.
