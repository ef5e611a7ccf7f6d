------------------------------ MODULE Invoices ------------------------------
(***************************************************************************)
(* The life of an invoice (billing/billing.service.ts and                  *)
(* client-portal/client-portal.service.ts).                                *)
(*                                                                         *)
(* Invoices are made by requests and by the job billing.generate, with a   *)
(* number from a counter in the row of settings, which the scheduler and   *)
(* the settings page save whole as well.  They are mailed by requests and  *)
(* by jobs, fall overdue by the cut-off and by the client's own look at    *)
(* the portal, and are paid by a webhook of the payment gateway.  Each of  *)
(* these reads the invoice, waits for something and saves what it read.    *)
(***************************************************************************)
EXTENDS Integers, FiniteSets

CONSTANTS
    Invs,         \* identities of invoices
    Calls,        \* asynchronous calls that may be under way at once
    None,         \* no invoice, no status
    MaxNumber,    \* bound of the model: largest number
    MaxRequests,  \* bound of the model: calls made in all
    MaxFaults     \* bound of the model: failures and restarts

ASSUME InvoiceBounds ==
    /\ IsFiniteSet(Calls)
    /\ MaxNumber \in Nat \ {0}
    /\ MaxRequests \in Nat
    /\ MaxFaults \in Nat

VARIABLES
    status,    \* status of each invoice in the database, None if it was not made
    number,    \* its number, 0 if it was not made
    age,       \* 0: not due yet, 1: past its due date, 2: past the days of grace too
    counter,   \* nextInvoiceNumber in the row of settings
    call,      \* locals of each call
    mails,     \* history: mails the jobs sent of each invoice
    slips,     \* history: how often a job failed between a mail and the save after it
    cut,       \* history: invoices a client was suspended for
    top,       \* history: the highest number given out
    again,     \* history: how often a number was given out that was given out before
    forgotten, \* history: numbers given out since the settings that were saved had been read
    requests,  \* calls made so far
    faults     \* faults so far

invoices == <<status, number, age>>
history == <<mails, slips, cut>>
numbering == <<top, again, forgotten>>
vars == <<status, number, age, counter, call, mails, slips, cut, top, again, forgotten,
          requests, faults>>

Payable == {"issued", "sent", "overdue"}
Status == Payable \union {"paid"}
ASSUME NoneAssumption == None \notin Invs /\ None \notin Status
Numbers == 1 .. MaxNumber
Jobs == {"generate", "send"}
Ops == Jobs \union {"create", "resend", "settings", "schedule", "portal", "webhook"}
Pcs == {"idle", "number", "numbered", "insert", "next", "read", "mail", "save", "cutoff",
        "cut", "suspend", "settings", "portal", "pay"}

Call == [op : Ops, pc : Pcs, inv : Invs \union {None}, copy : Status \union {None},
         num : 0 .. MaxNumber + 1, todo : SUBSET Invs, have : [Invs -> Payable \union {None}],
         seen : [Invs -> 0 .. 2], late : SUBSET Invs, missed : Nat]

Nothing == [i \in Invs |-> None]
Fresh == [i \in Invs |-> 0]
Idle == [op |-> "create", pc |-> "idle", inv |-> None, copy |-> None, num |-> 0, todo |-> {},
         have |-> Nothing, seen |-> Fresh, late |-> {}, missed |-> 0]

Init ==
    /\ status = Nothing
    /\ number = Fresh
    /\ age = Fresh
    /\ counter = 1
    /\ call = [c \in Calls |-> Idle]
    /\ mails = [i \in Invs |-> 0]
    /\ slips = [i \in Invs |-> 0]
    /\ cut = {}
    /\ top = 0
    /\ again = 0
    /\ forgotten = 0
    /\ requests = 0
    /\ faults = 0

-----------------------------------------------------------------------------
(* Calls *)

Goto(c, pc) == call' = [call EXCEPT ![c].pc = pc]
Ends(c) == call' = [call EXCEPT ![c] = Idle]
Busy == {c \in Calls : call[c].pc # "idle"}

Starts(c, rec) ==
    /\ call[c].pc = "idle"
    /\ requests < MaxRequests
    /\ requests' = requests + 1
    /\ call' = [call EXCEPT ![c] = rec]
    /\ UNCHANGED <<invoices, counter, history, numbering, faults>>

Create(c) == Starts(c, [Idle EXCEPT !.op = "create", !.pc = "number"])

\* sendInvoice reads the invoice first of all.
Resend(c, i) ==
    /\ status[i] # None
    /\ Starts(c, [Idle EXCEPT !.op = "resend", !.pc = "mail", !.inv = i, !.copy = status[i]])

\* updateSettings, and tickTenant when a job is to be run, read the settings; the tick of
\* the scheduler does not overlap itself.
EditSettings(c) == Starts(c, [Idle EXCEPT !.op = "settings", !.pc = "settings", !.num = counter])
Schedule(c) ==
    /\ \A d \in Busy : call[d].op # "schedule"
    /\ Starts(c, [Idle EXCEPT !.op = "schedule", !.pc = "settings", !.num = counter])

Outstanding == [i \in Invs |-> IF status[i] \in Payable THEN status[i] ELSE None]
OpenOrPaid == {i \in Invs : status[i] # None}
Open == {i \in Invs : status[i] \in Payable}
Unsent == {i \in Invs : status[i] = "issued"}
WorkerIdle == \A d \in Busy : call[d].op \notin Jobs

Generate(c) == WorkerIdle /\ Starts(c, [Idle EXCEPT !.op = "generate", !.pc = "number"])

\* runSendInvoices lists what is issued.
Send(c) ==
    /\ WorkerIdle
    /\ Starts(c, [Idle EXCEPT !.op = "send", !.pc = "next", !.todo = Unsent])

\* listInvoices of the portal reads the invoices of the client and the date.
Portal(c) ==
    Starts(c, [Idle EXCEPT !.op = "portal", !.pc = "portal", !.have = Outstanding, !.seen = age])

\* The client, who may open the gateway with a payable invoice, has paid: the gateway
\* reports it, now or later, once or again.
Webhook(c, i) ==
    /\ status[i] \in Payable
    /\ Starts(c, [Idle EXCEPT !.op = "webhook", !.pc = "pay", !.inv = i])

-----------------------------------------------------------------------------
(* Numbers *)

\* A call that has read the row of settings and will save it.
HoldsSettings(r) == r.pc \in {"settings", "numbered"}

\* A save of the whole row puts the counter where the call has it.
Counts(c, n) ==
    /\ counter' = n
    /\ forgotten' = forgotten + call[c].missed

SettingsSave(c) ==
    /\ call[c].pc = "settings"
    /\ Counts(c, call[c].num)
    /\ Ends(c)
    /\ UNCHANGED <<invoices, history, top, again, requests, faults>>

\* nextNumber
NumberRead(c) ==
    /\ call[c].pc = "number"
    /\ counter <= MaxNumber
    /\ call' = [call EXCEPT ![c].num = counter, ![c].pc = "numbered",
                            ![c].missed = 0]
    /\ UNCHANGED <<invoices, counter, history, numbering, requests, faults>>

SameNumber(n) == n
SkipsOne(n) == n + 2
NextNumber(n) == n + 1

\* Whoever else has read the settings does not know of this number.
Misses(r) == IF HoldsSettings(r) THEN [r EXCEPT !.missed = @ + 1] ELSE r

NumberSave(c) ==
    LET n == call[c].num
    IN /\ call[c].pc = "numbered"
       /\ Counts(c, NextNumber(n))
       /\ top' = IF n > top THEN n ELSE top
       /\ again' = IF n > top THEN again ELSE again + 1
       /\ call' = [d \in Calls |-> IF d = c THEN [call[c] EXCEPT !.pc = "insert"]
                                   ELSE Misses(call[d])]
       /\ UNCHANGED <<invoices, history, requests, faults>>

\* createInvoiceInSchema: the unique index on the number may reject the invoice.  The job
\* goes on with the next client or with the mails, a request mails the invoice or not.
Rejected(c) == \E i \in Invs : number[i] = call[c].num

Insert(c) ==
    /\ call[c].pc = "insert"
    /\ IF Rejected(c) THEN Ends(c) /\ UNCHANGED <<status, number>>
       ELSE \E i \in {j \in Invs : status[j] = None} :
              /\ status' = [status EXCEPT ![i] = "issued"]
              /\ number' = [number EXCEPT ![i] = call[c].num]
              /\ \/ /\ call[c].op = "create"
                    /\ Ends(c)
                 \/ /\ call[c].op = "create"
                    /\ call' = [call EXCEPT ![c].inv = i, ![c].pc = "read"]
                 \/ /\ call[c].op = "generate"
                    /\ \E pc \in {"number", "next"} :
                         call' = [call EXCEPT ![c].todo = @ \union {i}, ![c].pc = pc]
    /\ UNCHANGED <<age, counter, history, numbering, requests, faults>>

\* A generate job with nothing due, or without mails, goes on to the cut-off.
GoesOn(c) ==
    /\ call[c].op = "generate"
    /\ call[c].pc \in {"number", "next"}
    /\ call' = [call EXCEPT ![c].pc = "cutoff", ![c].todo = {}]
    /\ UNCHANGED <<invoices, counter, history, numbering, requests, faults>>

-----------------------------------------------------------------------------
(* Mails *)

\* Calls that know invoice i as unpaid, or have it on a list of unpaid ones.
Knowing(i) ==
    {c \in Busy : \/ i \in call[c].todo
                  \/ call[c].have[i] # None
                  \/ call[c].inv = i /\ (call[c].op \in Jobs \/ call[c].copy # None)}

\* Invoice i has status st from now on, c goes on with rec, and the calls that know the
\* invoice as unpaid are late once it is paid.
Becomes(c, rec, i, st) ==
    LET late == IF st = "paid" /\ status[i] # "paid" THEN Knowing(i) \ {c} ELSE {}
    IN /\ status' = [status EXCEPT ![i] = st]
       /\ call' = [d \in Calls |-> IF d = c THEN rec
                                   ELSE IF d \in late
                                   THEN [call[d] EXCEPT !.late = @ \union {i}]
                                   ELSE call[d]]

\* sendIssuedInvoice, for one invoice of the list after the other
TakeNext(c) ==
    /\ call[c].pc = "next"
    /\ \/ \E i \in call[c].todo :
            call' = [call EXCEPT ![c].todo = @ \ {i}, ![c].inv = i, ![c].pc = "read"]
       \/ /\ call[c].op = "send"
          /\ call[c].todo = {}
          /\ Ends(c)
    /\ UNCHANGED <<invoices, counter, history, numbering, requests, faults>>

\* buildInvoiceEmail reads the invoice, whatever its status is by now.
ReadInvoice(c) ==
    /\ call[c].pc = "read"
    /\ call' = [call EXCEPT ![c].copy = status[call[c].inv], ![c].pc = "mail"]
    /\ UNCHANGED <<invoices, counter, history, numbering, requests, faults>>

AfterMail(c) == IF call[c].op \in Jobs THEN [call[c] EXCEPT !.pc = "next", !.inv = None, !.copy = None]
                ELSE Idle

\* The client has no address or the mail server refuses: nothing is saved.
MailFails(c) ==
    /\ call[c].pc = "mail"
    /\ call' = [call EXCEPT ![c] = AfterMail(c)]
    /\ UNCHANGED <<invoices, counter, history, numbering, requests, faults>>

Mailed(c) == IF call[c].op \in Jobs THEN [mails EXCEPT ![call[c].inv] = @ + 1] ELSE mails

SendMail(c) ==
    /\ call[c].pc = "mail"
    /\ mails' = Mailed(c)
    /\ Goto(c, "save")
    /\ UNCHANGED <<invoices, counter, slips, cut, numbering, requests, faults>>

\* What a mailed invoice becomes: sendInvoice keeps a payment it has read.
SentAnyway(op, copy) == "sent"
StillIssued(op, copy) == IF op = "send" THEN copy ELSE "sent"
SentAs(op, copy) == IF op \in Jobs \/ copy \in {"issued", "overdue"} THEN "sent" ELSE copy

SaveInvoice(c) ==
    /\ call[c].pc = "save"
    /\ Becomes(c, AfterMail(c), call[c].inv, SentAs(call[c].op, call[c].copy))
    /\ UNCHANGED <<number, age, counter, history, numbering, requests, faults>>

-----------------------------------------------------------------------------
(* Due dates *)

\* runOverdueCutoff reads the date and lists the open invoices once ...
CutList(c) ==
    /\ call[c].pc = "cutoff"
    /\ call' = [call EXCEPT ![c].have = Outstanding, ![c].seen = age, ![c].pc = "cut",
                            ![c].todo = Open]
    /\ UNCHANGED <<invoices, counter, history, numbering, requests, faults>>

\* ... marks those whose date has passed ...
Overdue(c, i) == call[c].have[i] \in {"issued", "sent"} /\ call[c].seen[i] > 0

CutMark(c) ==
    /\ call[c].pc = "cut"
    /\ \E i \in call[c].todo :
         /\ status' = IF Overdue(c, i) THEN [status EXCEPT ![i] = "overdue"]
                      ELSE status
         /\ call' = [call EXCEPT ![c].inv = i, ![c].todo = @ \ {i}, ![c].pc = "suspend"]
    /\ UNCHANGED <<number, age, counter, history, numbering, requests, faults>>

\* ... and suspends the client of one that is late by more than the days of grace.
CutSuspend(c) ==
    LET i == call[c].inv
    IN /\ call[c].pc = "suspend"
       /\ cut' = IF call[c].seen[i] = 2 THEN cut \union {i} ELSE cut
       /\ call' = [call EXCEPT ![c].inv = None, ![c].pc = "cut"]
       /\ UNCHANGED <<invoices, counter, mails, slips, numbering, requests, faults>>

CutEnds(c) ==
    /\ call[c].pc = "cut"
    /\ call[c].todo = {}
    /\ Ends(c)
    /\ UNCHANGED <<invoices, counter, history, numbering, requests, faults>>

\* The portal saves in one go the invoices it found past their date.
PortalSave(c) ==
    /\ call[c].pc = "portal"
    /\ status' = [i \in Invs |-> IF Overdue(c, i) THEN "overdue" ELSE status[i]]
    /\ Ends(c)
    /\ UNCHANGED <<number, age, counter, history, numbering, requests, faults>>

-----------------------------------------------------------------------------
(* Payments *)

\* handleMercadoPagoWebhook
Pay(c) ==
    /\ call[c].pc = "pay"
    /\ Becomes(c, Idle, call[c].inv, "paid")
    /\ UNCHANGED <<number, age, counter, history, numbering, requests, faults>>

-----------------------------------------------------------------------------
(* Time and faults *)

Ages(i) ==
    /\ status[i] # None
    /\ age[i] < 2
    /\ age' = [age EXCEPT ![i] = @ + 1]
    /\ UNCHANGED <<status, number, counter, call, history, numbering, requests, faults>>

\* Mails that went out and are not noted.
Slipped(D) == [i \in Invs |-> slips[i] + Cardinality({c \in D : call[c].pc = "save"
                                                     /\ call[c].inv = i /\ call[c].op \in Jobs})]

\* A query fails.  A save after a mail is caught and the job takes the next invoice;
\* anything else ends the call.
Throw(c) ==
    /\ c \in Busy
    /\ faults < MaxFaults
    /\ faults' = faults + 1
    /\ slips' = Slipped({c})
    /\ call' = [call EXCEPT ![c] = IF @.pc \in {"read", "mail", "save"} THEN AfterMail(c) ELSE Idle]
    /\ UNCHANGED <<invoices, counter, mails, cut, numbering, requests>>

Restart ==
    /\ Busy # {}
    /\ faults < MaxFaults
    /\ faults' = faults + 1
    /\ slips' = Slipped(Calls)
    /\ call' = [c \in Calls |-> Idle]
    /\ UNCHANGED <<invoices, counter, mails, cut, numbering, requests>>

-----------------------------------------------------------------------------

Request(c) ==
    \/ Create(c) \/ EditSettings(c) \/ Schedule(c) \/ Generate(c) \/ Send(c) \/ Portal(c)
    \/ \E i \in Invs : Resend(c, i)
    \/ \E i \in Invs : Webhook(c, i)

Step(c) ==
    \/ SettingsSave(c) \/ NumberRead(c) \/ NumberSave(c) \/ Insert(c) \/ GoesOn(c)
    \/ TakeNext(c) \/ ReadInvoice(c) \/ MailFails(c) \/ SendMail(c) \/ SaveInvoice(c)
    \/ CutList(c) \/ CutMark(c) \/ CutSuspend(c) \/ CutEnds(c)
    \/ PortalSave(c) \/ Pay(c)

Next ==
    \/ \E c \in Calls : Request(c)
    \/ \E c \in Calls : Step(c)
    \/ \E i \in Invs : Ages(i)
    \/ \E c \in Calls : Throw(c)
    \/ Restart

Spec == Init /\ [][Next]_vars

-----------------------------------------------------------------------------
(* Properties *)

\* Every variable keeps its type.
TypeOK ==
    /\ status \in [Invs -> Status \union {None}]
    /\ number \in [Invs -> 0 .. MaxNumber]
    /\ age \in [Invs -> 0 .. 2]
    /\ counter \in 1 .. MaxNumber + 1
    /\ call \in [Calls -> Call]
    /\ mails \in [Invs -> Nat]
    /\ slips \in [Invs -> Nat]
    /\ cut \subseteq Invs
    /\ top \in 0 .. MaxNumber
    /\ again \in Nat
    /\ forgotten \in Nat
    /\ requests \in 0 .. MaxRequests
    /\ faults \in 0 .. MaxFaults

\* A paid invoice becomes unpaid only by the save of a call that had it, as unpaid, in
\* memory or on its list when the payment came.
PaidLostOnlyByLateSave ==
    [][\A i \in Invs : status[i] = "paid" /\ status'[i] # "paid" =>
         \E c \in Calls : i \in call[c].late /\ call'[c] # call[c]]_vars

\* The jobs mail an invoice once, and again only after a failure between a mail and the
\* save that notes it.
JobMailsOnce == \A i \in Invs : mails[i] <= 1 + slips[i]

\* A number is given out again at most as often as numbers were given out between the
\* read and the save of a copy of the settings: a copy that is k numbers old puts the counter
\* back by k and no more, a counter put back catches up by itself, one invoice at a time,
\* and while every save knows of the numbers given out before it no number comes twice.
NumbersAgain == again <= forgotten

\* A client is suspended only for an invoice that is unpaid, or was when the cut-off
\* listed it.
CutOnlyDebtors ==
    [][\A i \in Invs : i \in cut' \ cut =>
         status[i] # "paid" \/ \E c \in Calls : i \in call[c].late /\ call'[c] # call[c]]_vars

=============================================================================
