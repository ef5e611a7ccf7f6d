--------------------------- MODULE InvoicesProofs ---------------------------
(***************************************************************************)
(* Theorems about Invoices, for any invoices, calls and bounds: what calls *)
(* that save what they read long ago do to numbers, payments and cuts.     *)
(***************************************************************************)
EXTENDS Invoices, FiniteSetTheorems, TLAPS

-----------------------------------------------------------------------------
(* The invariants *)

\* A call that will save a counter or a number has read one; a call that works on an
\* invoice has one; only the job that makes invoices suspends clients.
Right(r) ==
    /\ r.pc = "settings" => r.num \in 1 .. MaxNumber + 1
    /\ r.pc \in {"numbered", "insert"} => r.num \in 1 .. MaxNumber
    /\ r.pc \in {"read", "mail", "save", "suspend", "pay"} => r.inv \in Invs
    /\ r.pc \in {"cutoff", "cut", "suspend"} => r.op = "generate"

LocalsRight == \A c \in Calls : Right(call[c])

Inv == TypeOK /\ LocalsRight

\* A copy of the counter that has n and misses m of the numbers given out, once saved, makes
\* numbers come again, as often as it is behind; that is not more than are forgotten then.
Known(n, m) ==
    /\ n <= top + 1
    /\ again + (top + 1 - n) <= forgotten + m

NumbersKnown ==
    /\ Known(counter, 0)
    /\ \A c \in Calls : HoldsSettings(call[c]) => Known(call[c].num, call[c].missed)

\* A call with locals r has invoice i, as unpaid, in memory or on its list.
KnowsUnpaid(r, i) ==
    \/ i \in r.todo
    \/ r.have[i] # None
    \/ r.inv = i /\ (r.op \in Jobs \/ r.copy \notin {None, "paid"})

\* Whoever knows a paid invoice as unpaid is late.
LateRight(r, st) ==
    r.pc # "idle" => \A i \in Invs : KnowsUnpaid(r, i) /\ st[i] = "paid" => i \in r.late

\* An invoice that a call works on or has listed was made, and is not unmade.
MadeRight(r, st) ==
    /\ \A i \in r.todo : st[i] # None
    /\ r.pc \in {"read", "mail", "save"} => st[r.inv] # None
    /\ r.pc \in {"mail", "save"} => r.copy # None

LateIsKnown == \A c \in Calls : LateRight(call[c], status)
Made == \A c \in Calls : MadeRight(call[c], status)

LateInv == Inv /\ LateIsKnown /\ Made

-----------------------------------------------------------------------------
(* Types *)

LEMMA IdleType == Idle \in Call /\ Idle.pc = "idle" /\ Idle.num = 0
<1>1. 0 \in 0 .. MaxNumber + 1
  BY InvoiceBounds
<1>2. Nothing \in [Invs -> Payable \union {None}] /\ Fresh \in [Invs -> 0 .. 2]
  BY DEF Nothing, Fresh
<1> QED
  BY <1>1, <1>2 DEF Idle, Call, Ops, Jobs, Pcs

\* A call goes on with its own locals; a call made anew is within the bound.
LEMMA OneCall ==
  ASSUME Inv, NEW c \in Calls, NEW rec \in Call, call' = [call EXCEPT ![c] = rec], Right(rec)
  PROVE  call' \in [Calls -> Call] /\ LocalsRight'
<1>1. call' \in [Calls -> Call] /\ \A d \in Calls : call'[d] = IF d = c THEN rec ELSE call[d]
  BY DEF Inv, TypeOK
<1> QED
  BY <1>1 DEF Inv, LocalsRight

LEMMA OutstandingType == ASSUME TypeOK PROVE Outstanding \in [Invs -> Payable \union {None}]
  BY DEF TypeOK, Outstanding

\* What a request starts with.
LEMMA StartTypes ==
  ASSUME Inv
  PROVE  /\ [Idle EXCEPT !.op = "create", !.pc = "number"] \in Call
         /\ [Idle EXCEPT !.op = "generate", !.pc = "number"] \in Call
         /\ [Idle EXCEPT !.op = "send", !.pc = "next", !.todo = Unsent] \in Call
         /\ [Idle EXCEPT !.op = "portal", !.pc = "portal", !.have = Outstanding, !.seen = age]
              \in Call
         /\ \A i \in Invs : [Idle EXCEPT !.op = "webhook", !.pc = "pay", !.inv = i] \in Call
<1>1. /\ Idle \in Call /\ {"create", "generate", "send", "portal", "webhook"} \subseteq Ops
      /\ {"number", "next", "portal", "pay"} \subseteq Pcs
  BY IdleType DEF Ops, Jobs, Pcs
<1>2. /\ Unsent \in SUBSET Invs /\ Outstanding \in [Invs -> Payable \union {None}]
      /\ age \in [Invs -> 0 .. 2]
  BY OutstandingType DEF Inv, TypeOK, Unsent
<1>3. \A op \in Ops, pc \in Pcs : [Idle EXCEPT !.op = op, !.pc = pc] \in Call
  BY <1>1 DEF Call
<1>4. [Idle EXCEPT !.op = "send", !.pc = "next", !.todo = Unsent] \in Call
  BY <1>1, <1>2 DEF Call
<1>5. [Idle EXCEPT !.op = "portal", !.pc = "portal", !.have = Outstanding, !.seen = age] \in Call
  BY <1>1, <1>2 DEF Call
<1>6. ASSUME NEW i \in Invs PROVE [Idle EXCEPT !.op = "webhook", !.pc = "pay", !.inv = i] \in Call
  BY <1>1 DEF Call
<1> QED
  BY <1>1, <1>3, <1>4, <1>5, <1>6

LEMMA StartsInv ==
  ASSUME Inv, NEW c \in Calls, NEW rec \in Call, Starts(c, rec), Right(rec)
  PROVE  Inv'
<1>1. /\ call' = [call EXCEPT ![c] = rec] /\ requests' \in 0 .. MaxRequests
      /\ UNCHANGED <<invoices, counter, history, numbering, faults>>
  BY InvoiceBounds DEF Starts, Inv, TypeOK
<1>2. call' \in [Calls -> Call] /\ LocalsRight'
  BY <1>1, OneCall
<1> QED
  BY <1>1, <1>2 DEF Inv, TypeOK, invoices, history, numbering

LEMMA RequestInv == ASSUME Inv, NEW c \in Calls, Request(c) PROVE Inv'
<1> USE IdleType
<1>1. CASE Create(c)
  <2>1. [Idle EXCEPT !.op = "create", !.pc = "number"] \in Call
    BY StartTypes
  <2> QED
    BY <1>1, <2>1, StartsInv DEF Right, Create, Call
<1>2. ASSUME NEW i \in Invs, Resend(c, i) PROVE Inv'
  <2>1. status[i] \in Status
    BY <1>2 DEF Resend, Inv, TypeOK
  <2>2. [Idle EXCEPT !.op = "resend", !.pc = "mail", !.inv = i, !.copy = status[i]] \in Call
    BY <2>1 DEF Call, Ops, Pcs
  <2> QED
    BY <1>2, <2>2, StartsInv DEF Right, Resend, Call
<1>3. counter \in 1 .. MaxNumber + 1 /\ counter \in 0 .. MaxNumber + 1
  BY InvoiceBounds DEF Inv, TypeOK
<1>4. CASE EditSettings(c)
  <2>1. [Idle EXCEPT !.op = "settings", !.pc = "settings", !.num = counter] \in Call
    BY <1>3 DEF Call, Ops, Pcs
  <2> QED
    BY <1>3, <1>4, <2>1, StartsInv DEF Right, EditSettings, Call
<1>5. CASE Schedule(c)
  <2>1. [Idle EXCEPT !.op = "schedule", !.pc = "settings", !.num = counter] \in Call
    BY <1>3 DEF Call, Ops, Pcs
  <2> QED
    BY <1>3, <1>5, <2>1, StartsInv DEF Right, Schedule, Call
<1>6. CASE Generate(c)
  <2>1. [Idle EXCEPT !.op = "generate", !.pc = "number"] \in Call
    BY StartTypes
  <2> QED
    BY <1>6, <2>1, StartsInv DEF Right, Generate, Call
<1>7. CASE Send(c)
  <2>1. [Idle EXCEPT !.op = "send", !.pc = "next", !.todo = Unsent] \in Call
    BY StartTypes
  <2> QED
    BY <1>7, <2>1, StartsInv DEF Right, Send, Call
<1>8. CASE Portal(c)
  <2>1. [Idle EXCEPT !.op = "portal", !.pc = "portal", !.have = Outstanding, !.seen = age]
          \in Call
    BY StartTypes
  <2> QED
    BY <1>8, <2>1, StartsInv DEF Right, Portal, Call
<1>9. ASSUME NEW i \in Invs, Webhook(c, i) PROVE Inv'
  <2>1. [Idle EXCEPT !.op = "webhook", !.pc = "pay", !.inv = i] \in Call
    BY StartTypes
  <2> QED
    BY <1>9, <2>1, StartsInv DEF Right, Webhook, Call
<1> QED
  BY <1>1, <1>2, <1>4, <1>5, <1>6, <1>7, <1>8, <1>9 DEF Request

LEMMA AfterMailType ==
  ASSUME Inv, NEW c \in Calls
  PROVE  AfterMail(c) \in Call /\ AfterMail(c).pc \in {"next", "idle"}
<1>1. call[c] \in Call
  BY DEF Inv, TypeOK
<1>2. CASE call[c].op \in Jobs
  <2>1. [call[c] EXCEPT !.pc = "next", !.inv = None, !.copy = None] \in Call
    BY <1>1 DEF Call, Pcs
  <2> QED
    BY <1>1, <1>2, <2>1 DEF AfterMail, Call
<1>3. CASE call[c].op \notin Jobs
  BY <1>3, IdleType DEF AfterMail
<1> QED
  BY <1>2, <1>3

LEMMA EndsInv ==
  ASSUME Inv, NEW c \in Calls, Ends(c) PROVE call' \in [Calls -> Call] /\ LocalsRight'
  BY OneCall, IdleType DEF Ends, Right

LEMMA BecomesInv ==
  ASSUME Inv, NEW c \in Calls, NEW rec \in Call, NEW i \in Invs,
         NEW st \in Status \union {None}, Becomes(c, rec, i, st), Right(rec)
  PROVE  call' \in [Calls -> Call] /\ LocalsRight' /\ status' \in [Invs -> Status \union {None}]
<1>1. status' \in [Invs -> Status \union {None}]
  BY DEF Becomes, Inv, TypeOK
<1>2. PICK late :
        call' = [d \in Calls |-> IF d = c THEN rec
                                 ELSE IF d \in late
                                 THEN [call[d] EXCEPT !.late = @ \union {i}] ELSE call[d]]
  BY DEF Becomes
<1>3. ASSUME NEW d \in Calls PROVE call'[d] \in Call /\ Right(call'[d])
  <2>1. call[d] \in Call /\ Right(call[d])
    BY DEF Inv, TypeOK, LocalsRight
  <2>2. [call[d] EXCEPT !.late = @ \union {i}] \in Call
    BY <2>1 DEF Call
  <2>3. Right([call[d] EXCEPT !.late = @ \union {i}])
    BY <2>1 DEF Right, Call
  <2> QED
    BY <1>2, <2>1, <2>2, <2>3
<1> QED
  BY <1>1, <1>2, <1>3 DEF LocalsRight

\* Who saves a number goes on to insert it; the others only miss one more.
LEMMA NumberSaved ==
  ASSUME Inv, NEW c \in Calls, NumberSave(c), NEW d \in Calls
  PROVE  /\ call'[d] \in Call
         /\ call'[d].op = call[d].op /\ call'[d].inv = call[d].inv
         /\ call'[d].copy = call[d].copy /\ call'[d].num = call[d].num
         /\ call'[d].todo = call[d].todo /\ call'[d].have = call[d].have
         /\ call'[d].late = call[d].late
         /\ call'[d].pc = IF d = c THEN "insert" ELSE call[d].pc
         /\ d # c /\ HoldsSettings(call[d]) => call'[d].missed = call[d].missed + 1
<1>1. call[d] \in Call
  BY DEF Inv, TypeOK
<1>2. call'[d] = IF d = c THEN [call[d] EXCEPT !.pc = "insert"] ELSE Misses(call[d])
  BY DEF NumberSave
<1>3. CASE d = c \/ ~HoldsSettings(call[d])
  BY <1>1, <1>2, <1>3 DEF Misses, Call, Pcs
<1>4. CASE d # c /\ HoldsSettings(call[d])
  <2>1. call'[d] = [call[d] EXCEPT !.missed = @ + 1]
    BY <1>2, <1>4 DEF Misses
  <2> QED
    BY <1>1, <1>4, <2>1 DEF Call
<1> QED
  BY <1>3, <1>4

LEMMA StepInv == ASSUME Inv, NEW c \in Calls, Step(c) PROVE Inv'
<1>1. call[c] \in Call /\ Right(call[c])
  BY DEF Inv, TypeOK, LocalsRight
<1> USE DEF Inv, TypeOK, invoices, history, numbering, Goto
<1>2. ASSUME NEW n \in 1 .. MaxNumber + 1, Counts(c, n)
      PROVE  counter' \in 1 .. MaxNumber + 1 /\ forgotten' \in Nat
  BY <1>1, <1>2 DEF Counts, Call
<1>3. CASE SettingsSave(c)
  BY <1>1, <1>2, <1>3, EndsInv DEF SettingsSave, Right
<1>4. CASE NumberRead(c)
  <2>1. counter \in 1 .. MaxNumber /\ counter \in 0 .. MaxNumber + 1
    BY <1>4, InvoiceBounds DEF NumberRead
  <2>2. [call[c] EXCEPT !.num = counter, !.pc = "numbered", !.missed = 0] \in Call
    BY <1>1, <2>1 DEF Call, Pcs
  <2>3. call' = [call EXCEPT ![c] = [call[c] EXCEPT !.num = counter, !.pc = "numbered", !.missed = 0]]
    BY <1>4 DEF NumberRead
  <2> QED
    BY <1>1, <1>4, <2>1, <2>2, <2>3, OneCall DEF NumberRead, Right, Call
<1>5. CASE NumberSave(c)
  <2>1. call[c].num \in 1 .. MaxNumber /\ NextNumber(call[c].num) \in 1 .. MaxNumber + 1
    BY <1>1, <1>5, InvoiceBounds DEF NumberSave, Right, NextNumber
  <2>2. top' \in 0 .. MaxNumber /\ again' \in Nat
    BY <1>5, <2>1, InvoiceBounds DEF NumberSave
  <2>3. \A d \in Calls : call'[d] \in Call /\ Right(call'[d])
    BY <1>5, <2>1, NumberSaved DEF LocalsRight, Right
  <2>4. call' \in [Calls -> Call] /\ LocalsRight'
    BY <1>5, <2>3 DEF NumberSave, LocalsRight
  <2> QED
    BY <1>2, <1>5, <2>1, <2>2, <2>4 DEF NumberSave
<1>6. CASE Insert(c)
  <2>1. CASE Rejected(c)
    BY <1>6, <2>1, EndsInv DEF Insert
  <2>2. CASE ~Rejected(c)
    <3>1. PICK i \in Invs :
            /\ status' = [status EXCEPT ![i] = "issued"]
            /\ number' = [number EXCEPT ![i] = call[c].num]
            /\ \/ Ends(c)
               \/ call' = [call EXCEPT ![c].inv = i, ![c].pc = "read"]
               \/ \E pc \in {"number", "next"} :
                    call' = [call EXCEPT ![c].todo = @ \union {i}, ![c].pc = pc]
      BY <1>6, <2>2 DEF Insert
    <3>2. call[c].num \in 0 .. MaxNumber
      BY <1>1, <1>6, InvoiceBounds DEF Insert, Right
    <3>4. ASSUME call' = [call EXCEPT ![c].inv = i, ![c].pc = "read"]
          PROVE  call' \in [Calls -> Call] /\ LocalsRight'
      <4>1. [call[c] EXCEPT !.inv = i, !.pc = "read"] \in Call
        BY <1>1 DEF Call, Pcs
      <4>2. call' = [call EXCEPT ![c] = [call[c] EXCEPT !.inv = i, !.pc = "read"]]
        BY <3>4
      <4> QED
        BY <1>1, <4>1, <4>2, OneCall DEF Right, Call
    <3>5. ASSUME NEW pc \in {"number", "next"},
                 call' = [call EXCEPT ![c].todo = @ \union {i}, ![c].pc = pc]
          PROVE  call' \in [Calls -> Call] /\ LocalsRight'
      <4>1. [call[c] EXCEPT !.todo = @ \union {i}, !.pc = pc] \in Call
        BY <1>1 DEF Call, Pcs
      <4>2. call' = [call EXCEPT ![c] = [call[c] EXCEPT !.todo = @ \union {i}, !.pc = pc]]
        BY <3>5
      <4> QED
        BY <1>1, <4>1, <4>2, OneCall DEF Right, Call
    <3>6. call' \in [Calls -> Call] /\ LocalsRight'
      BY <3>1, <3>4, <3>5, EndsInv
    <3>7. /\ status' \in [Invs -> Status \union {None}]
          /\ number' \in [Invs -> 0 .. MaxNumber]
      BY <3>1, <3>2 DEF Status, Payable
    <3> QED
      BY <1>6, <3>6, <3>7 DEF Insert
  <2> QED
    BY <2>1, <2>2
<1>7. CASE GoesOn(c)
  <2>1. [call[c] EXCEPT !.pc = "cutoff", !.todo = {}] \in Call
    BY <1>1 DEF Call, Pcs
  <2>2. call' = [call EXCEPT ![c] = [call[c] EXCEPT !.pc = "cutoff", !.todo = {}]]
    BY <1>7 DEF GoesOn
  <2>3. Right([call[c] EXCEPT !.pc = "cutoff", !.todo = {}])
    BY <1>1, <1>7 DEF GoesOn, Right, Call
  <2> QED
    BY <1>7, <2>1, <2>2, <2>3, OneCall DEF GoesOn
<1>8. CASE TakeNext(c)
  <2>1. ASSUME NEW i \in call[c].todo,
               call' = [call EXCEPT ![c].todo = @ \ {i}, ![c].inv = i, ![c].pc = "read"]
        PROVE  call' \in [Calls -> Call] /\ LocalsRight'
    <3>1. i \in Invs
      BY <1>1 DEF Call
    <3>2. [call[c] EXCEPT !.todo = @ \ {i}, !.inv = i, !.pc = "read"] \in Call
      BY <1>1, <3>1 DEF Call, Pcs
    <3>3. call' = [call EXCEPT ![c] = [call[c] EXCEPT !.todo = @ \ {i}, !.inv = i, !.pc = "read"]]
      BY <2>1
    <3> QED
      BY <1>1, <3>1, <3>2, <3>3, OneCall DEF Right, Call
  <2>2. call' \in [Calls -> Call] /\ LocalsRight'
    BY <1>8, <2>1, EndsInv DEF TakeNext
  <2> QED
    BY <1>8, <2>2 DEF TakeNext
<1>9. CASE ReadInvoice(c)
  <2>1. call[c].inv \in Invs
    BY <1>1, <1>9 DEF ReadInvoice, Right
  <2>2. [call[c] EXCEPT !.copy = status[call[c].inv], !.pc = "mail"] \in Call
    BY <1>1, <2>1 DEF Call, Pcs
  <2>3. call' = [call EXCEPT ![c] = [call[c] EXCEPT !.copy = status[call[c].inv], !.pc = "mail"]]
    BY <1>9 DEF ReadInvoice
  <2>4. Right([call[c] EXCEPT !.copy = status[call[c].inv], !.pc = "mail"])
    BY <1>1, <2>1 DEF Right, Call
  <2> QED
    BY <1>9, <2>2, <2>3, <2>4, OneCall DEF ReadInvoice
<1>10. CASE MailFails(c)
  <2>1. Right(AfterMail(c))
    BY AfterMailType DEF Right
  <2> QED
    BY <1>10, <2>1, AfterMailType, OneCall DEF MailFails
<1>11. CASE SendMail(c)
  <2>1. call[c].inv \in Invs /\ mails' \in [Invs -> Nat]
    BY <1>1, <1>11 DEF SendMail, Right, Mailed
  <2>2. [call[c] EXCEPT !.pc = "save"] \in Call
    BY <1>1 DEF Call, Pcs
  <2>3. call' = [call EXCEPT ![c] = [call[c] EXCEPT !.pc = "save"]]
    BY <1>11 DEF SendMail
  <2>4. call' \in [Calls -> Call] /\ LocalsRight'
    BY <1>1, <2>1, <2>2, <2>3, OneCall DEF Right, Call
  <2> QED
    BY <1>11, <2>1, <2>4 DEF SendMail
<1>12. CASE SaveInvoice(c)
  <2>1. call[c].inv \in Invs /\ SentAs(call[c].op, call[c].copy) \in Status \union {None}
    BY <1>1, <1>12 DEF SaveInvoice, Right, SentAs, Call, Status, Payable
  <2>2. Right(AfterMail(c))
    BY AfterMailType DEF Right
  <2> QED
    BY <1>12, <2>1, <2>2, AfterMailType, BecomesInv DEF SaveInvoice
<1>13. CASE CutList(c)
  <2> DEFINE rec == [call[c] EXCEPT !.have = Outstanding, !.seen = age, !.pc = "cut",
                                    !.todo = Open]
  <2>1. rec \in Call
    BY <1>1, OutstandingType DEF Call, Pcs, Open
  <2>2. call' = [call EXCEPT ![c] = rec]
    BY <1>13 DEF CutList
  <2>3. call[c].op = "generate"
    BY <1>1, <1>13 DEF CutList, Right
  <2>4. rec.pc = "cut" /\ rec.op = "generate"
    BY <1>1, <2>3 DEF Call
  <2> HIDE DEF rec
  <2>5. Right(rec)
    BY <2>4 DEF Right
  <2> QED
    BY <1>13, <2>1, <2>2, <2>5, OneCall DEF CutList
<1>14. CASE CutMark(c)
  <2>1. PICK i \in call[c].todo :
          /\ status' = IF Overdue(c, i) THEN [status EXCEPT ![i] = "overdue"] ELSE status
          /\ call' = [call EXCEPT ![c].inv = i, ![c].todo = @ \ {i}, ![c].pc = "suspend"]
    BY <1>14 DEF CutMark
  <2>2. i \in Invs
    BY <1>1 DEF Call
  <2>3. [call[c] EXCEPT !.inv = i, !.todo = @ \ {i}, !.pc = "suspend"] \in Call
    BY <1>1, <2>2 DEF Call, Pcs
  <2>4. call' = [call EXCEPT ![c] = [call[c] EXCEPT !.inv = i, !.todo = @ \ {i}, !.pc = "suspend"]]
    BY <2>1
  <2>5. call' \in [Calls -> Call] /\ LocalsRight'
    BY <1>1, <1>14, <2>2, <2>3, <2>4, OneCall DEF CutMark, Right, Call
  <2>6. status' \in [Invs -> Status \union {None}]
    BY <2>1 DEF Status, Payable
  <2> QED
    BY <1>14, <2>5, <2>6 DEF CutMark
<1>15. CASE CutSuspend(c)
  <2>1. call[c].inv \in Invs /\ cut' \subseteq Invs /\ call[c].op = "generate"
    BY <1>1, <1>15 DEF CutSuspend, Right
  <2>2. [call[c] EXCEPT !.inv = None, !.pc = "cut"] \in Call
    BY <1>1 DEF Call, Pcs
  <2>3. call' = [call EXCEPT ![c] = [call[c] EXCEPT !.inv = None, !.pc = "cut"]]
    BY <1>15 DEF CutSuspend
  <2>4. call' \in [Calls -> Call] /\ LocalsRight'
    BY <1>1, <2>1, <2>2, <2>3, OneCall DEF Right, Call
  <2> QED
    BY <1>15, <2>1, <2>4 DEF CutSuspend
<1>16. CASE CutEnds(c)
  BY <1>16, EndsInv DEF CutEnds
<1>17. CASE PortalSave(c)
  <2>1. status' \in [Invs -> Status \union {None}]
    BY <1>17 DEF PortalSave, Status, Payable
  <2> QED
    BY <1>17, <2>1, EndsInv DEF PortalSave
<1>18. CASE Pay(c)
  <2>1. call[c].inv \in Invs /\ "paid" \in Status \union {None} /\ Right(Idle)
    BY <1>1, <1>18, IdleType DEF Pay, Right, Status
  <2> QED
    BY <1>18, <2>1, IdleType, BecomesInv DEF Pay
<1> QED
  BY <1>3, <1>4, <1>5, <1>6, <1>7, <1>8, <1>9, <1>10, <1>11, <1>12, <1>13, <1>14, <1>15,
     <1>16, <1>17, <1>18 DEF Step

LEMMA InitInv == Init => Inv
<1> SUFFICES ASSUME Init PROVE Inv
  OBVIOUS
<1>1. 0 \in 0 .. MaxNumber /\ 1 \in 1 .. MaxNumber + 1 /\ 0 \in 0 .. 2
      /\ 0 \in 0 .. MaxRequests /\ 0 \in 0 .. MaxFaults
  BY InvoiceBounds
<1>2. TypeOK
  BY <1>1, IdleType DEF Init, TypeOK, Nothing, Fresh
<1>3. LocalsRight
  BY IdleType DEF Init, LocalsRight, Right
<1> QED
  BY <1>2, <1>3 DEF Inv

LEMMA SlippedType ==
  ASSUME Inv, NEW D \in SUBSET Calls PROVE Slipped(D) \in [Invs -> Nat]
<1>1. ASSUME NEW i \in Invs
      PROVE  Cardinality({c \in D : call[c].pc = "save" /\ call[c].inv = i /\ call[c].op \in Jobs}) \in Nat
  <2>1. IsFiniteSet({c \in D : call[c].pc = "save" /\ call[c].inv = i /\ call[c].op \in Jobs})
    BY FS_Subset, InvoiceBounds
  <2> QED
    BY <2>1, FS_CardinalityType
<1> QED
  BY <1>1 DEF Slipped, Inv, TypeOK

LEMMA FaultInv == ASSUME Inv, Restart \/ \E c \in Calls : Throw(c) PROVE Inv'
<1>1. \A D \in SUBSET Calls : Slipped(D) \in [Invs -> Nat]
  BY SlippedType
<1>2. faults' \in 0 .. MaxFaults /\ slips' \in [Invs -> Nat]
      /\ UNCHANGED <<invoices, counter, mails, cut, numbering, requests>>
  <2>1. ASSUME faults < MaxFaults, faults' = faults + 1 PROVE faults' \in 0 .. MaxFaults
    BY <2>1, InvoiceBounds DEF Inv, TypeOK
  <2>2. CASE Restart
    BY <1>1, <2>1, <2>2 DEF Restart
  <2>3. ASSUME NEW c \in Calls, Throw(c)
        PROVE  /\ faults' \in 0 .. MaxFaults /\ slips' \in [Invs -> Nat]
               /\ UNCHANGED <<invoices, counter, mails, cut, numbering, requests>>
    BY <1>1, <2>1, <2>3 DEF Throw
  <2> QED
    BY <2>2, <2>3
<1>3. call' \in [Calls -> Call] /\ LocalsRight'
  <2>1. CASE Restart
    BY <2>1, IdleType DEF Restart, LocalsRight, Right
  <2>2. ASSUME NEW c \in Calls, Throw(c) PROVE call' \in [Calls -> Call] /\ LocalsRight'
    <3>1. call' = [call EXCEPT ![c] = AfterMail(c)] \/ call' = [call EXCEPT ![c] = Idle]
      BY <2>2 DEF Throw, Inv, TypeOK
    <3>2. Right(AfterMail(c)) /\ Right(Idle)
      BY AfterMailType, IdleType DEF Right
    <3> QED
      BY <3>1, <3>2, AfterMailType, IdleType, OneCall
  <2> QED
    BY <2>1, <2>2
<1> QED
  BY <1>2, <1>3 DEF Inv, TypeOK, invoices, numbering

LEMMA NextInv == Inv /\ [Next]_vars => Inv'
<1> SUFFICES ASSUME Inv, [Next]_vars PROVE Inv'
  OBVIOUS
<1>1. ASSUME NEW i \in Invs, Ages(i) PROVE Inv'
  <2>1. age' \in [Invs -> 0 .. 2]
    BY <1>1 DEF Ages, Inv, TypeOK
  <2> QED
    BY <1>1, <2>1 DEF Ages, Inv, TypeOK, LocalsRight, history, numbering
<1>2. CASE UNCHANGED vars
  BY <1>2 DEF vars, Inv, TypeOK, LocalsRight
<1> QED
  BY <1>1, <1>2, RequestInv, StepInv, FaultInv DEF Next

\* Every variable keeps its type, for any invoices, calls and bounds.
THEOREM TypeCorrect == Spec => []TypeOK
<1>1. Inv => TypeOK
  BY DEF Inv
<1> QED
  BY <1>1, InitInv, NextInv, PTL DEF Spec

-----------------------------------------------------------------------------
(* Payments *)

LEMMA LateOne ==
  ASSUME LateInv, NEW c \in Calls, NEW rec \in Call, call' = [call EXCEPT ![c] = rec],
         \A i \in Invs : /\ status'[i] = "paid" => status[i] = "paid"
                         /\ status[i] # None => status'[i] # None,
         LateRight(rec, status'), MadeRight(rec, status')
  PROVE  LateIsKnown' /\ Made'
<1>1. call'[c] = rec
  BY DEF LateInv, Inv, TypeOK
<1>2. ASSUME NEW d \in Calls, d # c
      PROVE  LateRight(call'[d], status') /\ MadeRight(call'[d], status')
  <2>1. /\ call'[d] = call[d] /\ call[d] \in Call /\ Right(call[d])
        /\ LateRight(call[d], status) /\ MadeRight(call[d], status)
    BY <1>2 DEF LateInv, Inv, TypeOK, LocalsRight, LateIsKnown, Made
  <2>2. LateRight(call[d], status')
    BY <2>1 DEF LateRight
  <2>3. MadeRight(call[d], status')
    BY <2>1 DEF MadeRight, Right, Call
  <2> QED
    BY <2>1, <2>2, <2>3
<1> QED
  BY <1>1, <1>2 DEF LateIsKnown, Made

LEMMA LateBecomes ==
  ASSUME LateInv, NEW c \in Calls, NEW rec \in Call, NEW i \in Invs, NEW st \in Status,
         Becomes(c, rec, i, st), LateRight(rec, status'), MadeRight(rec, status')
  PROVE  LateIsKnown' /\ Made'
<1> DEFINE late == IF st = "paid" /\ status[i] # "paid" THEN Knowing(i) \ {c} ELSE {}
<1>1. /\ status' = [status EXCEPT ![i] = st]
      /\ call' = [d \in Calls |-> IF d = c THEN rec
                                  ELSE IF d \in late
                                  THEN [call[d] EXCEPT !.late = @ \union {i}] ELSE call[d]]
  BY DEF Becomes
<1>2. ASSUME NEW d \in Calls, d # c
      PROVE  LateRight(call'[d], status') /\ MadeRight(call'[d], status')
  <2>1. /\ call[d] \in Call /\ Right(call[d])
        /\ LateRight(call[d], status) /\ MadeRight(call[d], status)
    BY DEF LateInv, Inv, TypeOK, LocalsRight, LateIsKnown, Made
  <2>2. call'[d] = IF d \in late THEN [call[d] EXCEPT !.late = @ \union {i}] ELSE call[d]
    BY <1>1, <1>2
  <2>3. /\ call'[d].late \in {call[d].late, call[d].late \union {i}}
        /\ d \in late => i \in call'[d].late
        /\ call'[d].pc = call[d].pc /\ call'[d].todo = call[d].todo
        /\ call'[d].inv = call[d].inv /\ call'[d].copy = call[d].copy
        /\ call'[d].have = call[d].have /\ call'[d].op = call[d].op
    BY <2>1, <2>2 DEF Call
  <2>4. \A j \in Invs : status'[j] = IF j = i THEN st ELSE status[j]
    BY <1>1 DEF LateInv, Inv, TypeOK
  <2>5. ASSUME call[d].pc # "idle", KnowsUnpaid(call[d], i), st = "paid" 
        PROVE  i \in call'[d].late
    <3>1. d \in Knowing(i)
      BY <2>5 DEF Knowing, Busy, KnowsUnpaid
    <3>2. CASE status[i] = "paid"
      BY <2>1, <2>3, <2>5, <3>2 DEF LateRight
    <3>3. CASE status[i] # "paid"
      BY <1>2, <2>3, <2>5, <3>1, <3>3
    <3> QED
      BY <3>2, <3>3
  <2> HIDE DEF late
  <2>6. LateRight(call'[d], status')
    BY <2>1, <2>3, <2>4, <2>5 DEF LateRight, KnowsUnpaid
  <2>7. MadeRight(call'[d], status')
    BY <2>1, <2>3, <2>4, NoneAssumption DEF MadeRight, Right, Call
  <2> QED
    BY <2>6, <2>7
<1>3. call'[c] = rec
  BY <1>1
<1> QED
  BY <1>2, <1>3 DEF LateIsKnown, Made

LEMMA LateSame ==
  ASSUME LateInv, NEW c \in Calls, NEW rec \in Call, call' = [call EXCEPT ![c] = rec],
         status' = status, LateRight(rec, status), MadeRight(rec, status)
  PROVE  LateIsKnown' /\ Made'
  BY LateOne

LEMMA LateEnds ==
  ASSUME LateInv, NEW c \in Calls, Ends(c),
         \A i \in Invs : /\ status'[i] = "paid" => status[i] = "paid"
                         /\ status[i] # None => status'[i] # None
  PROVE  LateIsKnown' /\ Made'
<1>1. LateRight(Idle, status') /\ MadeRight(Idle, status')
  BY DEF LateRight, MadeRight, Idle
<1> QED
  BY <1>1, LateOne, IdleType DEF Ends

\* What a call knows after a mail is no more than what it knew before.
LEMMA LateAfterMail ==
  ASSUME LateInv, NEW c \in Calls, call[c].pc # "idle", NEW st,
         \A i \in Invs : /\ st[i] = "paid" => status[i] = "paid"
                         /\ status[i] # None => st[i] # None
  PROVE  LateRight(AfterMail(c), st) /\ MadeRight(AfterMail(c), st)
<1>1. call[c] \in Call /\ LateRight(call[c], status) /\ MadeRight(call[c], status)
  BY DEF LateInv, Inv, TypeOK, LateIsKnown, Made
<1>2. CASE call[c].op \in Jobs
  <2>1. AfterMail(c) = [call[c] EXCEPT !.pc = "next", !.inv = None, !.copy = None]
    BY <1>2 DEF AfterMail
  <2>2. LateRight(AfterMail(c), st)
    BY <1>1, <2>1, NoneAssumption DEF LateRight, KnowsUnpaid, Call
  <2>3. MadeRight(AfterMail(c), st)
    BY <1>1, <2>1 DEF MadeRight, Call
  <2> QED
    BY <2>2, <2>3
<1>3. CASE call[c].op \notin Jobs
  BY <1>3, IdleType DEF AfterMail, LateRight, MadeRight, Idle
<1> QED
  BY <1>2, <1>3

LEMMA LateStarts ==
  ASSUME LateInv, NEW c \in Calls, NEW rec \in Call, Starts(c, rec),
         LateRight(rec, status), MadeRight(rec, status)
  PROVE  LateIsKnown' /\ Made'
  BY LateSame DEF Starts, invoices

LEMMA LateRequest == ASSUME LateInv, NEW c \in Calls, Request(c) PROVE LateIsKnown' /\ Made'
<1> USE IdleType, NoneAssumption DEF LateInv, Inv, TypeOK
<1>1. /\ Idle \in Call /\ Idle.todo = {} /\ Idle.inv = None /\ Idle.copy = None
      /\ \A i \in Invs : Idle.have[i] = None
  BY DEF Idle, Nothing
<1>2. ASSUME NEW o \in Ops, NEW n \in 0 .. MaxNumber + 1, NEW pc \in {"number", "settings"},
             Starts(c, [Idle EXCEPT !.op = o, !.pc = pc, !.num = n])
      PROVE  LateIsKnown' /\ Made'
  <2> DEFINE rec == [Idle EXCEPT !.op = o, !.pc = pc, !.num = n]
  <2>1. rec \in Call
    BY <1>1 DEF Call, Pcs
  <2>2. rec.todo = {} /\ rec.inv = None /\ rec.pc = pc /\ \A i \in Invs : rec.have[i] = None
    BY <1>1 DEF Call
  <2>3. LateRight(rec, status) /\ MadeRight(rec, status)
    BY <2>2 DEF LateRight, MadeRight, KnowsUnpaid
  <2> HIDE DEF rec
  <2> QED
    BY <1>2, <2>1, <2>3, LateStarts DEF rec
<1>3. ASSUME NEW o \in Ops, NEW pc \in {"number", "settings"},
             Starts(c, [Idle EXCEPT !.op = o, !.pc = pc])
      PROVE  LateIsKnown' /\ Made'
  <2>1. [Idle EXCEPT !.op = o, !.pc = pc] = [Idle EXCEPT !.op = o, !.pc = pc, !.num = 0]
    BY DEF Call, Idle
  <2>2. 0 \in 0 .. MaxNumber + 1
    BY InvoiceBounds
  <2> QED
    BY <1>2, <1>3, <2>1, <2>2
<1>4. CASE Create(c)
  BY <1>3, <1>4 DEF Create, Ops
<1>5. CASE Generate(c)
  BY <1>3, <1>5 DEF Generate, Ops, Jobs
<1>6. counter \in 0 .. MaxNumber + 1
  BY InvoiceBounds
<1>7. CASE EditSettings(c)
  BY <1>2, <1>6, <1>7 DEF EditSettings, Ops
<1>8. CASE Schedule(c)
  BY <1>2, <1>6, <1>8 DEF Schedule, Ops
<1>9. ASSUME NEW i \in Invs, Resend(c, i) PROVE LateIsKnown' /\ Made'
  <2> DEFINE rec == [Idle EXCEPT !.op = "resend", !.pc = "mail", !.inv = i, !.copy = status[i]]
  <2>1. status[i] \in Status
    BY <1>9 DEF Resend
  <2>2. rec \in Call
    BY <2>1 DEF Call, Ops, Pcs
  <2>3. /\ rec.op \notin Jobs /\ rec.todo = {} /\ rec.inv = i /\ rec.copy = status[i]
        /\ \A j \in Invs : rec.have[j] = None
    BY <1>1 DEF Call, Jobs
  <2>4. LateRight(rec, status) /\ MadeRight(rec, status)
    BY <1>9, <2>3 DEF Resend, LateRight, MadeRight, KnowsUnpaid
  <2>5. Starts(c, rec)
    BY <1>9 DEF Resend
  <2> HIDE DEF rec
  <2> QED
    BY <2>2, <2>4, <2>5, LateStarts
<1>10. CASE Send(c)
  <2> DEFINE rec == [Idle EXCEPT !.op = "send", !.pc = "next", !.todo = Unsent]
  <2>1. rec \in Call
    BY StartTypes
  <2>2. rec.todo = Unsent /\ rec.inv = None /\ rec.pc = "next" /\ \A j \in Invs : rec.have[j] = None
    BY <1>1 DEF Call
  <2>3. LateRight(rec, status) /\ MadeRight(rec, status)
    BY <2>2 DEF LateRight, MadeRight, KnowsUnpaid, Unsent, Status, Payable
  <2>4. Starts(c, rec)
    BY <1>10 DEF Send
  <2> HIDE DEF rec
  <2> QED
    BY <2>1, <2>3, <2>4, LateStarts
<1>11. CASE Portal(c)
  <2> DEFINE rec == [Idle EXCEPT !.op = "portal", !.pc = "portal", !.have = Outstanding, !.seen = age]
  <2>1. rec \in Call
    BY StartTypes
  <2>2. rec.todo = {} /\ rec.inv = None /\ rec.have = Outstanding /\ rec.pc = "portal"
    BY <1>1 DEF Call
  <2>3. LateRight(rec, status) /\ MadeRight(rec, status)
    BY <2>2 DEF LateRight, MadeRight, KnowsUnpaid, Outstanding, Payable
  <2>4. Starts(c, rec)
    BY <1>11 DEF Portal
  <2> HIDE DEF rec
  <2> QED
    BY <2>1, <2>3, <2>4, LateStarts
<1>12. ASSUME NEW i \in Invs, Webhook(c, i) PROVE LateIsKnown' /\ Made'
  <2> DEFINE rec == [Idle EXCEPT !.op = "webhook", !.pc = "pay", !.inv = i]
  <2>1. rec \in Call
    BY StartTypes
  <2>2. /\ rec.op \notin Jobs /\ rec.todo = {} /\ rec.copy = None /\ rec.pc = "pay"
        /\ \A j \in Invs : rec.have[j] = None
    BY <1>1 DEF Call, Jobs
  <2>3. LateRight(rec, status) /\ MadeRight(rec, status)
    BY <2>2 DEF LateRight, MadeRight, KnowsUnpaid
  <2>4. Starts(c, rec)
    BY <1>12 DEF Webhook
  <2> HIDE DEF rec
  <2> QED
    BY <2>1, <2>3, <2>4, LateStarts
<1> QED
  BY <1>4, <1>5, <1>7, <1>8, <1>9, <1>10, <1>11, <1>12 DEF Request

\* A call that changes its own pc or number, and its list only by taking from it, knows no
\* more than before.
LEMMA LateGoto ==
  ASSUME LateInv, NEW c \in Calls, call[c].pc # "idle", NEW rec \in Call,
         call' = [call EXCEPT ![c] = rec], status' = status,
         /\ rec.todo \subseteq call[c].todo /\ rec.have = call[c].have /\ rec.inv = call[c].inv
         /\ rec.op = call[c].op /\ rec.copy = call[c].copy /\ rec.late = call[c].late,
         rec.pc \in {"read", "mail", "save"} => call[c].pc \in {"mail", "save"}
  PROVE  LateIsKnown' /\ Made'
<1>1. LateRight(call[c], status) /\ MadeRight(call[c], status)
  BY DEF LateInv, LateIsKnown, Made
<1>2. LateRight(rec, status)
  BY <1>1 DEF LateRight, KnowsUnpaid
<1>3. MadeRight(rec, status)
  BY <1>1 DEF MadeRight
<1> QED
  BY <1>2, <1>3, LateSame

LEMMA LateStep == ASSUME LateInv, NEW c \in Calls, Step(c) PROVE LateIsKnown' /\ Made'
<1> USE NoneAssumption DEF Inv, TypeOK, invoices, history, Goto
<1> Inv
  BY DEF LateInv
<1>1. /\ call[c] \in Call /\ Right(call[c])
      /\ LateRight(call[c], status) /\ MadeRight(call[c], status)
  BY DEF LateInv, LocalsRight, LateIsKnown, Made
<1>2. CASE NumberRead(c)
  <2>1. counter \in 0 .. MaxNumber + 1
    BY InvoiceBounds
  <2> DEFINE rec == [call[c] EXCEPT !.num = counter, !.pc = "numbered", !.missed = 0]
  <2>2. rec \in Call
    BY <1>1, <2>1 DEF Call, Pcs
  <2>3. call' = [call EXCEPT ![c] = rec] /\ status' = status /\ call[c].pc # "idle"
    BY <1>2 DEF NumberRead
  <2>4. /\ rec.pc = "numbered" /\ rec.todo = call[c].todo /\ rec.have = call[c].have
        /\ rec.inv = call[c].inv /\ rec.op = call[c].op /\ rec.copy = call[c].copy
        /\ rec.late = call[c].late
    BY <1>1 DEF Call
  <2> HIDE DEF rec
  <2> QED
    BY <2>2, <2>3, <2>4, LateGoto
<1>3. ASSUME NEW pc \in Pcs, Goto(c, pc), call[c].pc # "idle", status' = status,
             pc \in {"read", "mail", "save"} => call[c].pc \in {"mail", "save"}
      PROVE  LateIsKnown' /\ Made'
  <2> DEFINE rec == [call[c] EXCEPT !.pc = pc]
  <2>1. rec \in Call
    BY <1>1 DEF Call
  <2>2. call' = [call EXCEPT ![c] = rec]
    BY <1>3
  <2>3. /\ rec.pc = pc /\ rec.todo = call[c].todo /\ rec.have = call[c].have
        /\ rec.inv = call[c].inv /\ rec.op = call[c].op /\ rec.copy = call[c].copy
        /\ rec.late = call[c].late
    BY <1>1 DEF Call
  <2> HIDE DEF rec
  <2> QED
    BY <1>3, <2>1, <2>2, <2>3, LateGoto
<1>4. CASE SettingsSave(c)
  BY <1>4, LateEnds DEF SettingsSave
<1>5. CASE NumberSave(c)
  <2>1. /\ status' = status /\ call[c].pc = "numbered"
        /\ \A d \in Calls : LateRight(call[d], status) /\ MadeRight(call[d], status)
    BY <1>5 DEF NumberSave, LateInv, LateIsKnown, Made
  <2>2. ASSUME NEW d \in Calls PROVE LateRight(call'[d], status) /\ MadeRight(call'[d], status)
    BY <1>5, <2>1, NumberSaved DEF LateRight, MadeRight, KnowsUnpaid
  <2> QED
    BY <2>1, <2>2 DEF LateIsKnown, Made
<1>6. CASE SendMail(c)
  <2>1. "save" \in Pcs
    BY DEF Pcs
  <2> QED
    BY <1>3, <1>6, <2>1 DEF SendMail
<1>7. CASE CutEnds(c)
  BY <1>7, LateEnds DEF CutEnds
<1>8. CASE PortalSave(c)
  <2>1. \A i \in Invs : status'[i] \in {status[i], "overdue"}
    BY <1>8 DEF PortalSave
  <2>2. Ends(c) /\ "overdue" # None
    BY <1>8 DEF PortalSave, Status, Payable
  <2> QED
    BY <2>1, <2>2, LateEnds
<1>9. CASE MailFails(c)
  <2>1. LateRight(AfterMail(c), status) /\ MadeRight(AfterMail(c), status)
    BY <1>9, LateAfterMail DEF MailFails
  <2> QED
    BY <1>9, <2>1, AfterMailType, LateSame DEF MailFails
<1>10. CASE GoesOn(c)
  <2> DEFINE rec == [call[c] EXCEPT !.pc = "cutoff", !.todo = {}]
  <2>1. rec \in Call
    BY <1>1 DEF Call, Pcs
  <2>2. call' = [call EXCEPT ![c] = rec] /\ status' = status /\ call[c].pc # "idle"
    BY <1>10 DEF GoesOn
  <2>3. /\ rec.pc = "cutoff" /\ rec.todo = {} /\ rec.have = call[c].have
        /\ rec.inv = call[c].inv /\ rec.op = call[c].op /\ rec.copy = call[c].copy
        /\ rec.late = call[c].late
    BY <1>1 DEF Call
  <2> HIDE DEF rec
  <2> QED
    BY <2>1, <2>2, <2>3, LateGoto
<1>11. CASE CutSuspend(c)
  <2> DEFINE rec == [call[c] EXCEPT !.inv = None, !.pc = "cut"]
  <2>1. rec \in Call
    BY <1>1 DEF Call, Pcs
  <2>2. call' = [call EXCEPT ![c] = rec] /\ status' = status /\ call[c].pc # "idle"
    BY <1>11 DEF CutSuspend
  <2>3. /\ rec.pc = "cut" /\ rec.todo = call[c].todo /\ rec.have = call[c].have
        /\ rec.inv = None /\ rec.late = call[c].late
    BY <1>1 DEF Call
  <2> HIDE DEF rec
  <2>4. LateRight(rec, status)
    BY <1>1, <2>2, <2>3 DEF LateRight, KnowsUnpaid
  <2>5. MadeRight(rec, status)
    BY <1>1, <2>3 DEF MadeRight
  <2> QED
    BY <2>1, <2>2, <2>4, <2>5, LateSame
<1>12. CASE ReadInvoice(c)
  <2> DEFINE rec == [call[c] EXCEPT !.copy = status[call[c].inv], !.pc = "mail"]
  <2>1. call[c].inv \in Invs /\ call[c].pc = "read"
    BY <1>1, <1>12 DEF ReadInvoice, Right
  <2>2. rec \in Call
    BY <1>1, <2>1 DEF Call, Pcs
  <2>3. call' = [call EXCEPT ![c] = rec] /\ status' = status
    BY <1>12 DEF ReadInvoice
  <2>4. /\ rec.pc = "mail" /\ rec.todo = call[c].todo /\ rec.have = call[c].have
        /\ rec.inv = call[c].inv /\ rec.op = call[c].op /\ rec.copy = status[call[c].inv]
        /\ rec.late = call[c].late
    BY <1>1 DEF Call
  <2> HIDE DEF rec
  <2>5. LateRight(rec, status)
    BY <1>1, <2>1, <2>4 DEF LateRight, KnowsUnpaid
  <2>6. MadeRight(rec, status)
    BY <1>1, <2>1, <2>4 DEF MadeRight
  <2> QED
    BY <2>2, <2>3, <2>5, <2>6, LateSame
<1>13. CASE TakeNext(c)
  <2>1. ASSUME NEW i \in call[c].todo,
               call' = [call EXCEPT ![c].todo = @ \ {i}, ![c].inv = i, ![c].pc = "read"]
        PROVE  LateIsKnown' /\ Made'
    <3> DEFINE rec == [call[c] EXCEPT !.todo = @ \ {i}, !.inv = i, !.pc = "read"]
    <3>1. i \in Invs
      BY <1>1 DEF Call
    <3>2. rec \in Call
      BY <1>1, <3>1 DEF Call, Pcs
    <3>3. call' = [call EXCEPT ![c] = rec] /\ status' = status /\ call[c].pc = "next"
      BY <1>13, <2>1 DEF TakeNext
    <3>4. /\ rec.pc = "read" /\ rec.todo = call[c].todo \ {i} /\ rec.have = call[c].have
          /\ rec.inv = i /\ rec.late = call[c].late
      BY <1>1 DEF Call
    <3> HIDE DEF rec
    <3>5. LateRight(rec, status)
      BY <1>1, <3>3, <3>4 DEF LateRight, KnowsUnpaid
    <3>6. MadeRight(rec, status)
      BY <1>1, <3>4 DEF MadeRight
    <3> QED
      BY <3>2, <3>3, <3>5, <3>6, LateSame
  <2> QED
    BY <1>13, <2>1, LateEnds DEF TakeNext
<1>14. CASE CutList(c)
  <2> DEFINE rec == [call[c] EXCEPT !.have = Outstanding, !.seen = age, !.pc = "cut",
                                    !.todo = Open]
  <2>1. rec \in Call
    BY <1>1, OutstandingType DEF Call, Pcs, Open
  <2>2. call' = [call EXCEPT ![c] = rec] /\ status' = status /\ call[c].pc = "cutoff"
    BY <1>14 DEF CutList
  <2>3. /\ rec.pc = "cut" /\ rec.todo = Open /\ rec.have = Outstanding
        /\ rec.inv = call[c].inv /\ rec.op = call[c].op /\ rec.copy = call[c].copy
        /\ rec.late = call[c].late
    BY <1>1 DEF Call
  <2> HIDE DEF rec
  <2>4. LateRight(rec, status)
    BY <1>1, <2>2, <2>3 DEF LateRight, KnowsUnpaid, Open, Outstanding, Payable
  <2>5. MadeRight(rec, status)
    BY <2>3 DEF MadeRight, Open, Status, Payable
  <2> QED
    BY <2>1, <2>2, <2>4, <2>5, LateSame
<1>15. CASE CutMark(c)
  <2>1. PICK i \in call[c].todo :
          /\ status' = IF Overdue(c, i) THEN [status EXCEPT ![i] = "overdue"] ELSE status
          /\ call' = [call EXCEPT ![c].inv = i, ![c].todo = @ \ {i}, ![c].pc = "suspend"]
    BY <1>15 DEF CutMark
  <2> DEFINE rec == [call[c] EXCEPT !.inv = i, !.todo = @ \ {i}, !.pc = "suspend"]
  <2>2. i \in Invs /\ call[c].pc = "cut"
    BY <1>1, <1>15 DEF CutMark, Call
  <2>3. rec \in Call
    BY <1>1, <2>2 DEF Call, Pcs
  <2>4. call' = [call EXCEPT ![c] = rec]
    BY <2>1
  <2>5. /\ rec.pc = "suspend" /\ rec.todo = call[c].todo \ {i} /\ rec.have = call[c].have
        /\ rec.inv = i /\ rec.late = call[c].late
    BY <1>1 DEF Call
  <2>6. "overdue" # None /\ \A j \in Invs : status'[j] \in {status[j], "overdue"}
    BY <2>1, <2>2 DEF Status, Payable
  <2> HIDE DEF rec
  <2>7. LateRight(rec, status')
    BY <1>1, <2>2, <2>5, <2>6 DEF LateRight, KnowsUnpaid
  <2>8. MadeRight(rec, status')
    <3>1. rec.todo \subseteq Invs
      BY <2>3 DEF Call
    <3> QED
      BY <1>1, <2>5, <2>6, <3>1 DEF MadeRight
  <2> QED
    BY <2>3, <2>4, <2>6, <2>7, <2>8, LateOne
<1>16. CASE Insert(c)
  <2>1. CASE Rejected(c)
    BY <1>16, <2>1, LateEnds DEF Insert
  <2>2. CASE ~Rejected(c)
    <3>1. PICK i \in Invs :
            /\ status[i] = None
            /\ status' = [status EXCEPT ![i] = "issued"]
            /\ \/ Ends(c)
               \/ call' = [call EXCEPT ![c].inv = i, ![c].pc = "read"] /\ call[c].op = "create"
               \/ \E pc \in {"number", "next"} :
                    call' = [call EXCEPT ![c].todo = @ \union {i}, ![c].pc = pc]
      BY <1>16, <2>2 DEF Insert
    <3>2. /\ "issued" # None /\ call[c].pc = "insert"
          /\ \A j \in Invs : status'[j] = IF j = i THEN "issued" ELSE status[j]
      BY <1>16, <3>1 DEF Insert, Status, Payable
    <3>3. ASSUME call' = [call EXCEPT ![c].inv = i, ![c].pc = "read"]
          PROVE  LateIsKnown' /\ Made'
      <4> DEFINE rec == [call[c] EXCEPT !.inv = i, !.pc = "read"]
      <4>1. rec \in Call
        BY <1>1 DEF Call, Pcs
      <4>2. call' = [call EXCEPT ![c] = rec]
        BY <3>3
      <4>3. /\ rec.pc = "read" /\ rec.todo = call[c].todo /\ rec.have = call[c].have
            /\ rec.inv = i /\ rec.late = call[c].late /\ rec.todo \subseteq Invs
        BY <1>1 DEF Call
      <4> HIDE DEF rec
      <4>4. LateRight(rec, status')
        BY <1>1, <3>2, <4>3 DEF LateRight, KnowsUnpaid
      <4>5. MadeRight(rec, status')
        BY <1>1, <3>2, <4>3 DEF MadeRight
      <4> QED
        BY <3>1, <3>2, <4>1, <4>2, <4>4, <4>5, LateOne
    <3>4. ASSUME NEW pc \in {"number", "next"},
                 call' = [call EXCEPT ![c].todo = @ \union {i}, ![c].pc = pc]
          PROVE  LateIsKnown' /\ Made'
      <4> DEFINE rec == [call[c] EXCEPT !.todo = @ \union {i}, !.pc = pc]
      <4>1. rec \in Call
        BY <1>1 DEF Call, Pcs
      <4>2. call' = [call EXCEPT ![c] = rec]
        BY <3>4
      <4>3. /\ rec.pc = pc /\ rec.todo = call[c].todo \union {i} /\ rec.have = call[c].have
            /\ rec.inv = call[c].inv /\ rec.op = call[c].op /\ rec.copy = call[c].copy
            /\ rec.late = call[c].late /\ call[c].todo \subseteq Invs
        BY <1>1 DEF Call
      <4> HIDE DEF rec
      <4>4. LateRight(rec, status')
        BY <1>1, <3>2, <4>3 DEF LateRight, KnowsUnpaid
      <4>5. MadeRight(rec, status')
        BY <1>1, <3>2, <4>3 DEF MadeRight
      <4> QED
        BY <3>1, <3>2, <4>1, <4>2, <4>4, <4>5, LateOne
    <3> QED
      BY <3>1, <3>2, <3>3, <3>4, LateEnds
  <2> QED
    BY <2>1, <2>2
<1>17. CASE SaveInvoice(c)
  <2>1. /\ call[c].pc = "save" /\ call[c].inv \in Invs /\ call[c].copy \in Status
        /\ Becomes(c, AfterMail(c), call[c].inv, SentAs(call[c].op, call[c].copy))
    BY <1>1, <1>17 DEF SaveInvoice, Right, MadeRight, Call, Status
  <2>2. /\ SentAs(call[c].op, call[c].copy) \in Status
        /\ SentAs(call[c].op, call[c].copy) = "paid" => call[c].op \notin Jobs
    BY <2>1 DEF SentAs, Status, Payable
  <2>3. status' = [status EXCEPT ![call[c].inv] = SentAs(call[c].op, call[c].copy)]
    BY <2>1 DEF Becomes
  <2>4. LateRight(AfterMail(c), status') /\ MadeRight(AfterMail(c), status')
    <3>1. CASE call[c].op \notin Jobs
      BY <3>1, IdleType DEF AfterMail, LateRight, MadeRight, Idle
    <3>2. CASE call[c].op \in Jobs
      <4>1. \A i \in Invs : /\ status'[i] = "paid" => status[i] = "paid"
                            /\ status[i] # None => status'[i] # None
        BY <2>1, <2>2, <2>3, <3>2
      <4> QED
        BY <2>1, <4>1, LateAfterMail
    <3> QED
      BY <3>1, <3>2
  <2> QED
    BY <2>1, <2>2, <2>4, AfterMailType, LateBecomes
<1>18. CASE Pay(c)
  <2>1. call[c].inv \in Invs /\ "paid" \in Status /\ Becomes(c, Idle, call[c].inv, "paid")
    BY <1>1, <1>18 DEF Pay, Right, Status
  <2>2. LateRight(Idle, status') /\ MadeRight(Idle, status')
    BY DEF LateRight, MadeRight, Idle
  <2> QED
    BY <2>1, <2>2, IdleType, LateBecomes
<1> QED
  BY <1>2, <1>4, <1>5, <1>6, <1>7, <1>8, <1>9, <1>10, <1>11, <1>12, <1>13, <1>14, <1>15,
     <1>16, <1>17, <1>18 DEF Step

LEMMA LateNext == LateInv /\ [Next]_vars => LateInv'
<1> SUFFICES ASSUME LateInv, [Next]_vars PROVE LateIsKnown' /\ Made'
  BY NextInv DEF LateInv
<1>1. ASSUME NEW i \in Invs, Ages(i) PROVE LateIsKnown' /\ Made'
  BY <1>1 DEF Ages, LateInv, LateIsKnown, Made
<1>2. CASE UNCHANGED vars
  BY <1>2 DEF vars, LateInv, LateIsKnown, Made
<1>3. ASSUME NEW c \in Calls, Throw(c) PROVE LateIsKnown' /\ Made'
  <2>1. /\ call' = [call EXCEPT ![c] = AfterMail(c)] \/ Ends(c)
        /\ status' = status /\ call[c].pc # "idle"
    BY <1>3 DEF Throw, Busy, Ends, invoices
  <2>2. LateRight(AfterMail(c), status) /\ MadeRight(AfterMail(c), status)
    BY <2>1, LateAfterMail
  <2>3. Inv
    BY DEF LateInv
  <2> QED
    BY <2>1, <2>2, <2>3, AfterMailType, LateSame, LateEnds
<1>4. CASE Restart
  <2>1. LateRight(Idle, status') /\ MadeRight(Idle, status')
    BY DEF LateRight, MadeRight, Idle
  <2> QED
    BY <1>4, <2>1 DEF Restart, LateIsKnown, Made
<1> QED
  BY <1>1, <1>2, <1>3, <1>4, LateRequest, LateStep DEF Next

LEMMA LateInit == Init => LateInv
<1> SUFFICES ASSUME Init PROVE LateIsKnown /\ Made
  BY InitInv DEF LateInv
<1>1. LateRight(Idle, status) /\ MadeRight(Idle, status)
  BY DEF LateRight, MadeRight, Idle
<1> QED
  BY <1>1 DEF Init, LateIsKnown, Made

\* A call that knows a paid invoice as unpaid and goes on is one that was late.
LEMMA LateCalls ==
  ASSUME LateInv, NEW c \in Calls, NEW i \in Invs, call[c].pc # "idle",
         KnowsUnpaid(call[c], i), status[i] = "paid"
  PROVE  i \in call[c].late
  BY DEF LateInv, LateIsKnown, LateRight

LEMMA PaidLostStep ==
  ASSUME LateInv, [Next]_vars, NEW i \in Invs, status[i] = "paid", status'[i] # "paid"
  PROVE  \E c \in Calls : i \in call[c].late /\ call'[c] # call[c]
<1> USE DEF invoices
<1>1. ASSUME NEW c \in Calls, Request(c) PROVE status' = status
  BY <1>1 DEF Request, Create, Resend, EditSettings, Schedule, Generate, Send, Portal,
              Webhook, Starts
<1>2. PICK c \in Calls : Insert(c) \/ SaveInvoice(c) \/ CutMark(c) \/ PortalSave(c) \/ Pay(c)
  <2>1. ASSUME UNCHANGED vars \/ Restart PROVE FALSE
    BY <2>1 DEF vars, Restart
  <2>2. ASSUME NEW j \in Invs, Ages(j) PROVE FALSE
    BY <2>2 DEF Ages
  <2>3. ASSUME NEW c \in Calls, Throw(c) PROVE FALSE
    BY <2>3 DEF Throw
  <2>4. PICK c \in Calls : Step(c)
    BY <1>1, <2>1, <2>2, <2>3 DEF Next
  <2> QED
    BY <2>4 DEF Step, SettingsSave, NumberRead, NumberSave, GoesOn, TakeNext, ReadInvoice,
                MailFails, SendMail, CutList, CutSuspend, CutEnds
<1>3. /\ Inv /\ call[c] \in Call /\ Right(call[c]) /\ MadeRight(call[c], status)
      /\ call \in [Calls -> Call] /\ status \in [Invs -> Status \union {None}]
  BY DEF LateInv, Inv, TypeOK, LocalsRight, Made
<1>4. ~Insert(c)
  BY <1>3, NoneAssumption DEF Insert, Status
<1>5. ~Pay(c)
  BY <1>3 DEF Pay, Becomes, Right
<1>6. CASE SaveInvoice(c)
  <2>1. /\ call[c].pc = "save" /\ call[c].inv = i
        /\ SentAs(call[c].op, call[c].copy) # "paid"
        /\ call' = [d \in Calls |-> IF d = c THEN AfterMail(c) ELSE call'[d]]
    BY <1>3, <1>6 DEF SaveInvoice, Becomes, Right
  <2>2. call[c].op \in Jobs \/ call[c].copy \notin {None, "paid"}
    BY <1>3, <2>1 DEF SentAs, MadeRight
  <2>3. call'[c] = AfterMail(c) /\ AfterMail(c).pc # "save"
    BY <1>3, <2>1, AfterMailType
  <2> QED
    BY <2>1, <2>2, <2>3, LateCalls DEF KnowsUnpaid
<1>7. CASE CutMark(c)
  <2>1. PICK j \in call[c].todo :
          /\ status' = IF Overdue(c, j) THEN [status EXCEPT ![j] = "overdue"] ELSE status
          /\ call' = [call EXCEPT ![c].inv = j, ![c].todo = @ \ {j}, ![c].pc = "suspend"]
    BY <1>7 DEF CutMark
  <2>2. j = i /\ call[c].pc = "cut"
    BY <1>3, <1>7, <2>1 DEF CutMark
  <2>3. call'[c].pc = "suspend"
    BY <1>3, <2>1 DEF Call
  <2> QED
    BY <2>1, <2>2, <2>3, LateCalls DEF KnowsUnpaid
<1>8. CASE PortalSave(c)
  <2>1. call[c].pc = "portal" /\ Overdue(c, i) /\ call'[c] = Idle
    BY <1>3, <1>8 DEF PortalSave, Ends
  <2>2. call[c].have[i] # None
    BY <2>1, NoneAssumption DEF Overdue, Status, Payable
  <2> QED
    BY <2>1, <2>2, LateCalls, IdleType DEF KnowsUnpaid
<1> QED
  BY <1>2, <1>4, <1>5, <1>6, <1>7, <1>8

\* A payment is undone only by a call that had the invoice, as unpaid, in memory or on its
\* list when the payment came: by no request that begins after it.
THEOREM PaidLostHolds == Spec => PaidLostOnlyByLateSave
<1>1. LateInv /\ [Next]_vars =>
        [\A i \in Invs : status[i] = "paid" /\ status'[i] # "paid" =>
           \E c \in Calls : i \in call[c].late /\ call'[c] # call[c]]_vars
  BY PaidLostStep
<1> QED
  BY <1>1, LateInit, LateNext, PTL DEF Spec, PaidLostOnlyByLateSave

LEMMA CutStep ==
  ASSUME LateInv, [Next]_vars, NEW i \in Invs, i \in cut' \ cut
  PROVE  status[i] # "paid" \/ \E c \in Calls : i \in call[c].late /\ call'[c] # call[c]
<1> USE DEF history
<1>1. ASSUME NEW c \in Calls, Request(c) PROVE cut' = cut
  BY <1>1 DEF Request, Create, Resend, EditSettings, Schedule, Generate, Send, Portal,
              Webhook, Starts
<1>2. PICK c \in Calls : CutSuspend(c)
  <2>1. ASSUME UNCHANGED vars \/ Restart PROVE FALSE
    BY <2>1 DEF vars, Restart
  <2>2. ASSUME NEW j \in Invs, Ages(j) PROVE FALSE
    BY <2>2 DEF Ages
  <2>3. ASSUME NEW c \in Calls, Throw(c) PROVE FALSE
    BY <2>3 DEF Throw
  <2>4. PICK c \in Calls : Step(c)
    BY <1>1, <2>1, <2>2, <2>3 DEF Next
  <2> QED
    BY <2>4 DEF Step, SettingsSave, NumberRead, NumberSave, Insert, GoesOn, TakeNext,
                ReadInvoice, MailFails, SendMail, SaveInvoice, CutList, CutMark, CutEnds,
                PortalSave, Pay
<1>3. /\ call[c].pc = "suspend" /\ call[c].inv = i /\ call[c].op = "generate"
      /\ call'[c].pc = "cut"
  <2>1. call[c] \in Call /\ Right(call[c]) /\ call \in [Calls -> Call]
    BY DEF LateInv, Inv, TypeOK, LocalsRight
  <2> QED
    BY <1>2, <2>1 DEF CutSuspend, Right, Call
<1>4. KnowsUnpaid(call[c], i)
  BY <1>3 DEF KnowsUnpaid, Jobs
<1> QED
  BY <1>3, <1>4, LateCalls

\* A client is suspended for an invoice that is unpaid, or was when the cut-off listed it.
THEOREM CutOnlyDebtorsHolds == Spec => CutOnlyDebtors
<1>1. LateInv /\ [Next]_vars =>
        [\A i \in Invs : i \in cut' \ cut =>
           status[i] # "paid" \/ \E c \in Calls : i \in call[c].late /\ call'[c] # call[c]]_vars
  BY CutStep
<1> QED
  BY <1>1, LateInit, LateNext, PTL DEF Spec, CutOnlyDebtors

-----------------------------------------------------------------------------
(* Numbers *)

KnownInv == Inv /\ NumbersKnown

LEMMA CountsNat ==
  ASSUME Inv
  PROVE  /\ counter \in Nat /\ top \in Nat /\ again \in Nat /\ forgotten \in Nat
         /\ \A c \in Calls : call[c].num \in Nat /\ call[c].missed \in Nat
  BY InvoiceBounds DEF Inv, TypeOK, Call

\* No number is given out and no settings are saved; who reads the settings reads the counter.
LEMMA KnownStays ==
  ASSUME KnownInv, counter' = counter, numbering' = numbering,
         \A d \in Calls : HoldsSettings(call'[d]) =>
           \/ /\ HoldsSettings(call[d])
              /\ call'[d].num = call[d].num /\ call'[d].missed = call[d].missed
           \/ call'[d].num = counter /\ call'[d].missed = 0
  PROVE  NumbersKnown'
<1>1. top' = top /\ again' = again /\ forgotten' = forgotten
  BY DEF numbering
<1> QED
  BY <1>1 DEF KnownInv, NumbersKnown, Known

\* A call that goes on without settings.
LEMMA KnownOne ==
  ASSUME KnownInv, NEW c \in Calls, NEW rec, ~HoldsSettings(rec),
         call' = [call EXCEPT ![c] = rec], counter' = counter, numbering' = numbering
  PROVE  NumbersKnown'
<1>1. \A d \in Calls : call'[d] = IF d = c THEN rec ELSE call[d]
  BY DEF KnownInv, Inv, TypeOK
<1> QED
  BY <1>1, KnownStays

LEMMA KnownSettings ==
  ASSUME KnownInv, NEW c \in Calls, SettingsSave(c) PROVE NumbersKnown'
<1>1. /\ Known(call[c].num, call[c].missed)
      /\ \A d \in Calls : HoldsSettings(call[d]) => Known(call[d].num, call[d].missed)
  BY DEF SettingsSave, HoldsSettings, KnownInv, NumbersKnown
<1>2. /\ counter' = call[c].num /\ forgotten' = forgotten + call[c].missed
      /\ top' = top /\ again' = again
      /\ \A d \in Calls : call'[d] = IF d = c THEN Idle ELSE call[d]
  BY DEF SettingsSave, Counts, Ends, KnownInv, Inv, TypeOK
<1>3. ~HoldsSettings(Idle)
  BY IdleType DEF HoldsSettings
<1>4. Known(counter, 0)'
  BY <1>1, <1>2, CountsNat DEF Known, KnownInv
<1>5. ASSUME NEW n \in Nat, NEW m \in Nat, Known(n, m) PROVE Known(n, m)'
  BY <1>2, <1>5, CountsNat DEF Known, KnownInv
<1>6. (\A d \in Calls : HoldsSettings(call[d]) => Known(call[d].num, call[d].missed))'
  BY <1>1, <1>2, <1>3, <1>5, CountsNat DEF KnownInv
<1> QED
  BY <1>4, <1>6 DEF NumbersKnown

LEMMA KnownNumber ==
  ASSUME KnownInv, NEW c \in Calls, NumberSave(c) PROVE NumbersKnown'
<1> DEFINE n == call[c].num
           m == call[c].missed
<1>1. /\ n \in Nat /\ m \in Nat /\ Known(n, m)
      /\ \A d \in Calls : HoldsSettings(call[d]) => Known(call[d].num, call[d].missed)
  BY CountsNat DEF NumberSave, HoldsSettings, KnownInv, NumbersKnown
<1>2. /\ counter' = n + 1 /\ forgotten' = forgotten + m
      /\ top' = IF n > top THEN n ELSE top
      /\ again' = IF n > top THEN again ELSE again + 1
  BY DEF NumberSave, Counts, NextNumber
<1>3. ASSUME NEW d \in Calls, HoldsSettings(call'[d])
      PROVE  /\ HoldsSettings(call[d]) /\ call'[d].num = call[d].num
             /\ call'[d].missed = call[d].missed + 1
  BY <1>3, NumberSaved DEF KnownInv, HoldsSettings
<1> HIDE DEF n, m
<1>4. top \in Nat /\ again \in Nat /\ forgotten \in Nat
  BY CountsNat DEF KnownInv
<1>5. Known(counter, 0)'
  <2>1. CASE n > top
    BY <1>1, <1>2, <1>4, <2>1 DEF Known
  <2>2. CASE ~(n > top)
    BY <1>1, <1>2, <1>4, <2>2 DEF Known
  <2> QED
    BY <2>1, <2>2
<1>6. ASSUME NEW k \in Nat, NEW j \in Nat, Known(k, j) PROVE Known(k, j + 1)'
  <2>1. CASE n > top
    BY <1>1, <1>2, <1>4, <1>6, <2>1 DEF Known
  <2>2. CASE ~(n > top)
    BY <1>1, <1>2, <1>4, <1>6, <2>2 DEF Known
  <2> QED
    BY <2>1, <2>2
<1>7. (\A d \in Calls : HoldsSettings(call[d]) => Known(call[d].num, call[d].missed))'
  BY <1>1, <1>3, <1>6, CountsNat DEF KnownInv
<1> QED
  BY <1>5, <1>7 DEF NumbersKnown

LEMMA KnownStep ==
  ASSUME KnownInv, NEW c \in Calls, Step(c), ~SettingsSave(c), ~NumberSave(c)
  PROVE  NumbersKnown'
<1> USE DEF KnownInv, Inv, TypeOK, HoldsSettings
<1>1. call[c] \in Call
  OBVIOUS
<1>2. ASSUME Ends(c), counter' = counter, numbering' = numbering PROVE NumbersKnown'
  BY <1>2, IdleType, KnownOne DEF Ends
<1>3. CASE NumberRead(c)
  <2> DEFINE rec == [call[c] EXCEPT !.num = counter, !.pc = "numbered", !.missed = 0]
  <2>1. rec.num = counter /\ rec.missed = 0
    BY <1>1 DEF Call
  <2>2. call' = [call EXCEPT ![c] = rec] /\ counter' = counter /\ numbering' = numbering
    BY <1>3 DEF NumberRead
  <2> HIDE DEF rec
  <2> QED
    BY <2>1, <2>2, KnownStays
<1>4. CASE Insert(c)
  <2>1. CASE Rejected(c)
    BY <1>2, <1>4, <2>1 DEF Insert
  <2>2. ASSUME NEW i \in Invs, call' = [call EXCEPT ![c].inv = i, ![c].pc = "read"]
        PROVE  NumbersKnown'
    <3> DEFINE rec == [call[c] EXCEPT !.inv = i, !.pc = "read"]
    <3>1. rec.pc = "read" /\ call' = [call EXCEPT ![c] = rec]
      BY <1>1, <2>2 DEF Call
    <3> HIDE DEF rec
    <3> QED
      BY <1>4, <3>1, KnownOne DEF Insert
  <2>3. ASSUME NEW i \in Invs, NEW pc \in {"number", "next"},
               call' = [call EXCEPT ![c].todo = @ \union {i}, ![c].pc = pc]
        PROVE  NumbersKnown'
    <3> DEFINE rec == [call[c] EXCEPT !.todo = @ \union {i}, !.pc = pc]
    <3>1. rec.pc = pc /\ call' = [call EXCEPT ![c] = rec]
      BY <1>1, <2>3 DEF Call
    <3> HIDE DEF rec
    <3> QED
      BY <1>4, <3>1, KnownOne DEF Insert
  <2>4. CASE ~Rejected(c)
    <3>1. PICK i \in Invs :
            \/ Ends(c)
            \/ call' = [call EXCEPT ![c].inv = i, ![c].pc = "read"]
            \/ \E pc \in {"number", "next"} :
                 call' = [call EXCEPT ![c].todo = @ \union {i}, ![c].pc = pc]
      BY <1>4, <2>4 DEF Insert
    <3>2. counter' = counter /\ numbering' = numbering
      BY <1>4 DEF Insert
    <3> QED
      BY <1>2, <2>2, <2>3, <3>1, <3>2
  <2> QED
    BY <2>1, <2>4
<1>5. CASE SaveInvoice(c) \/ Pay(c)
  <2>1. PICK rec, i, st : Becomes(c, rec, i, st) /\ ~HoldsSettings(rec)
    BY <1>5, AfterMailType, IdleType DEF SaveInvoice, Pay
  <2>2. \A d \in Calls : HoldsSettings(call'[d]) =>
          /\ HoldsSettings(call[d])
          /\ call'[d].num = call[d].num /\ call'[d].missed = call[d].missed
    BY <2>1 DEF Becomes, Call
  <2>3. counter' = counter /\ numbering' = numbering
    BY <1>5 DEF SaveInvoice, Pay
  <2> QED
    BY <2>2, <2>3, KnownStays
<1>6. CASE MailFails(c)
  BY <1>6, AfterMailType, KnownOne DEF MailFails
<1>7. CASE CutEnds(c) \/ PortalSave(c)
  BY <1>2, <1>7 DEF CutEnds, PortalSave
<1>8. CASE \/ GoesOn(c) \/ TakeNext(c) \/ ReadInvoice(c) \/ SendMail(c)
           \/ CutList(c) \/ CutMark(c) \/ CutSuspend(c)
  <2>1. \A d \in Calls : d # c => call'[d] = call[d]
    BY <1>8 DEF GoesOn, TakeNext, ReadInvoice, SendMail, CutList, CutMark, CutSuspend, Ends, Goto
  <2>2. ~HoldsSettings(call'[c])
    <3>1. CASE GoesOn(c)
      BY <1>1, <3>1 DEF GoesOn, Call
    <3>2. CASE TakeNext(c)
      <4>1. ASSUME NEW i \in call[c].todo,
                   call' = [call EXCEPT ![c].todo = @ \ {i}, ![c].inv = i, ![c].pc = "read"]
            PROVE  call'[c].pc = "read"
        BY <1>1, <4>1 DEF Call
      <4>2. Ends(c) => call'[c].pc = "idle"
        BY IdleType DEF Ends
      <4> QED
        BY <3>2, <4>1, <4>2 DEF TakeNext
    <3>3. CASE ReadInvoice(c)
      BY <1>1, <3>3 DEF ReadInvoice, Call
    <3>4. CASE SendMail(c)
      BY <1>1, <3>4 DEF SendMail, Goto, Call
    <3>5. CASE CutList(c)
      BY <1>1, <3>5 DEF CutList, Call
    <3>6. CASE CutMark(c)
      BY <1>1, <3>6 DEF CutMark, Call
    <3>7. CASE CutSuspend(c)
      BY <1>1, <3>7 DEF CutSuspend, Call
    <3> QED
      BY <1>8, <3>1, <3>2, <3>3, <3>4, <3>5, <3>6, <3>7
  <2>3. counter' = counter /\ numbering' = numbering
    BY <1>8 DEF GoesOn, TakeNext, ReadInvoice, SendMail, CutList, CutMark, CutSuspend
  <2> QED
    BY <2>1, <2>2, <2>3, KnownStays
<1> QED
  BY <1>3, <1>4, <1>5, <1>6, <1>7, <1>8 DEF Step

LEMMA KnownNext == KnownInv /\ [Next]_vars => KnownInv'
<1> SUFFICES ASSUME KnownInv, [Next]_vars PROVE NumbersKnown'
  BY NextInv DEF KnownInv
<1>1. ASSUME NEW c \in Calls, NEW rec, Starts(c, rec),
             HoldsSettings(rec) => rec.num = counter /\ rec.missed = 0
      PROVE  NumbersKnown'
  <2>1. \A d \in Calls : call'[d] = IF d = c THEN rec ELSE call[d]
    BY <1>1 DEF Starts, KnownInv, Inv, TypeOK
  <2> QED
    BY <1>1, <2>1, KnownStays DEF Starts
<1>2. ASSUME NEW c \in Calls, Request(c) PROVE NumbersKnown'
  <2>1. Idle \in Call /\ Idle.missed = 0
    BY IdleType DEF Idle
  <2>2. CASE EditSettings(c)
    <3> DEFINE rec == [Idle EXCEPT !.op = "settings", !.pc = "settings", !.num = counter]
    <3>1. Starts(c, rec) /\ rec.num = counter /\ rec.missed = 0
      BY <2>1, <2>2 DEF EditSettings, Call
    <3> HIDE DEF rec
    <3> QED
      BY <1>1, <3>1
  <2>3. CASE Schedule(c)
    <3> DEFINE rec == [Idle EXCEPT !.op = "schedule", !.pc = "settings", !.num = counter]
    <3>1. Starts(c, rec) /\ rec.num = counter /\ rec.missed = 0
      BY <2>1, <2>3 DEF Schedule, Call
    <3> HIDE DEF rec
    <3> QED
      BY <1>1, <3>1
  <2>4. CASE ~EditSettings(c) /\ ~Schedule(c)
    BY <1>1, <1>2, <2>1, <2>4 DEF HoldsSettings, Request, Create, Resend, Generate, Send,
                                  Portal, Webhook, Call
  <2> QED
    BY <2>2, <2>3, <2>4
<1>3. ASSUME NEW c \in Calls, Throw(c) PROVE NumbersKnown'
  <2>1. call' = [call EXCEPT ![c] = AfterMail(c)] \/ call' = [call EXCEPT ![c] = Idle]
    BY <1>3 DEF Throw, KnownInv, Inv, TypeOK
  <2>2. ~HoldsSettings(AfterMail(c)) /\ ~HoldsSettings(Idle)
    BY AfterMailType, IdleType DEF KnownInv, HoldsSettings
  <2>3. counter' = counter /\ numbering' = numbering
    BY <1>3 DEF Throw
  <2> QED
    BY <2>1, <2>2, <2>3, KnownOne
<1>4. CASE Restart
  BY <1>4, IdleType, KnownStays DEF Restart, HoldsSettings
<1>5. ASSUME NEW i \in Invs, Ages(i) PROVE NumbersKnown'
  BY <1>5, KnownStays DEF Ages
<1>6. CASE UNCHANGED vars
  BY <1>6, KnownStays DEF vars, numbering
<1> QED
  BY <1>2, <1>3, <1>4, <1>5, <1>6, KnownSettings, KnownNumber, KnownStep DEF Next

\* Whoever takes numbers or saves the settings, and however late: a number comes again at most
\* as often as saved copies of the settings did not know of a number given out.
THEOREM NumbersAgainHolds == Spec => []NumbersAgain
<1>1. Init => KnownInv
  <2> SUFFICES ASSUME Init PROVE NumbersKnown
    BY InitInv DEF KnownInv
  <2> QED
    BY IdleType DEF Init, NumbersKnown, Known, HoldsSettings
<1>2. KnownInv => NumbersAgain
  BY CountsNat DEF KnownInv, NumbersKnown, Known, NumbersAgain
<1> QED
  BY <1>1, <1>2, KnownNext, PTL DEF Spec

-----------------------------------------------------------------------------
(* Mails of the jobs *)

InJob(r) == r.op \in Jobs /\ r.pc # "idle"
Saving(r, i) == r.op \in Jobs /\ r.pc = "save" /\ r.inv = i

\* A job with locals r is going to mail invoice i.
WillMail(r, i) ==
    \/ i \in r.todo /\ r.pc \in {"number", "numbered", "insert", "next", "read", "mail", "save"}
    \/ r.inv = i /\ r.pc \in {"read", "mail"}

JobRight(r, m, s) ==
    r.op \in Jobs =>
        /\ \A i \in Invs : WillMail(r, i) => m[i] <= s[i]
        /\ r.pc \in {"read", "mail", "save"} => r.inv \notin r.todo

\* One job at a time mails, what it is going to mail was not mailed or the save after it
\* failed, and the same is true of what is issued, unless its save is on its way.
OneJob == \A c, d \in Calls : InJob(call[c]) /\ InJob(call[d]) => c = d
JobsRight == \A c \in Calls : JobRight(call[c], mails, slips)
NewUnmailed ==
    \A i \in Invs : status[i] \in {None, "issued"} /\ (\A c \in Calls : ~Saving(call[c], i))
                      => mails[i] <= slips[i]

MailParts == OneJob /\ JobsRight /\ NewUnmailed /\ JobMailsOnce
MailInv == LateInv /\ MailParts

\* One call goes on and sends no mail.
LEMMA MailOne ==
  ASSUME MailInv, NEW c \in Calls, mails' = mails, slips' = slips,
         \A d \in Calls : d # c => /\ call'[d].op = call[d].op /\ call'[d].pc = call[d].pc
                                   /\ call'[d].inv = call[d].inv /\ call'[d].todo = call[d].todo,
         InJob(call'[c]) => WorkerIdle \/ InJob(call[c]),
         JobRight(call'[c], mails, slips),
         \A i \in Invs : status'[i] \in {None, "issued"} => status[i] \in {None, "issued"},
         \A i \in Invs : Saving(call[c], i) =>
           Saving(call'[c], i) \/ status'[i] \notin {None, "issued"}
  PROVE  MailParts'
<1> USE DEF MailInv, MailParts
<1>1. OneJob'
  <2>1. ASSUME NEW d \in Calls, NEW e \in Calls, InJob(call'[d]), InJob(call'[e]) PROVE d = e
    <3>1. \A x \in Calls : x # c /\ InJob(call'[x]) => InJob(call[x])
      BY DEF InJob
    <3>2. WorkerIdle => \A x \in Calls : ~InJob(call[x])
      BY DEF WorkerIdle, Busy, InJob
    <3> QED
      BY <2>1, <3>1, <3>2 DEF OneJob
  <2> QED
    BY <2>1 DEF OneJob
<1>2. JobsRight'
  <2>1. ASSUME NEW d \in Calls, d # c PROVE JobRight(call'[d], mails, slips)
    <3>1. JobRight(call[d], mails, slips)
      BY DEF JobsRight
    <3> QED
      BY <2>1, <3>1 DEF JobRight, WillMail
  <2> QED
    BY <2>1 DEF JobsRight
<1>3. NewUnmailed'
  <2>1. ASSUME NEW i \in Invs, status'[i] \in {None, "issued"}, \A d \in Calls : ~Saving(call'[d], i)
        PROVE  mails[i] <= slips[i]
    <3>1. \A d \in Calls : ~Saving(call[d], i)
      BY <2>1 DEF Saving
    <3> QED
      BY <2>1, <3>1 DEF NewUnmailed
  <2> QED
    BY <2>1 DEF NewUnmailed
<1>4. JobMailsOnce'
  BY DEF JobMailsOnce
<1> QED
  BY <1>1, <1>2, <1>3, <1>4

LEMMA MailEnds ==
  ASSUME MailInv, NEW c \in Calls, Ends(c), mails' = mails, slips' = slips, call[c].pc # "save",
         \A i \in Invs : status'[i] \in {None, "issued"} => status[i] \in {None, "issued"}
  PROVE  MailParts'
<1>1. \A d \in Calls : call'[d] = IF d = c THEN Idle ELSE call[d]
  BY DEF Ends, MailInv, LateInv, Inv, TypeOK
<1>2. ~InJob(Idle) /\ JobRight(Idle, mails, slips)
  BY DEF InJob, JobRight, Idle, Jobs
<1>3. \A i \in Invs : ~Saving(call[c], i)
  BY DEF Saving
<1> QED
  BY <1>1, <1>2, <1>3, MailOne

LEMMA MailRec ==
  ASSUME MailInv, NEW c \in Calls, NEW rec, call' = [call EXCEPT ![c] = rec],
         mails' = mails, slips' = slips, call[c].pc # "save",
         InJob(rec) => WorkerIdle \/ InJob(call[c]), JobRight(rec, mails, slips),
         \A i \in Invs : status'[i] \in {None, "issued"} => status[i] \in {None, "issued"}
  PROVE  MailParts'
<1>1. \A d \in Calls : call'[d] = IF d = c THEN rec ELSE call[d]
  BY DEF MailInv, LateInv, Inv, TypeOK
<1>2. \A i \in Invs : ~Saving(call[c], i)
  BY DEF Saving
<1> QED
  BY <1>1, <1>2, MailOne

LEMMA MailRequest == ASSUME MailInv, NEW c \in Calls, Request(c) PROVE MailParts'
<1> USE DEF history, invoices
<1>1. Idle \in Call /\ Idle.todo = {} /\ Idle.op \notin Jobs
  BY IdleType DEF Idle, Jobs
<1>2. ASSUME NEW rec, Starts(c, rec), InJob(rec) => WorkerIdle, JobRight(rec, mails, slips)
      PROVE  MailParts'
  BY <1>2, MailRec DEF Starts
<1>3. ASSUME NEW rec, Starts(c, rec), rec.op \notin Jobs PROVE MailParts'
  BY <1>2, <1>3 DEF InJob, JobRight
<1>4. CASE \/ Create(c) \/ EditSettings(c) \/ Schedule(c) \/ Portal(c)
           \/ \E i \in Invs : Resend(c, i) \/ Webhook(c, i)
  BY <1>1, <1>3, <1>4 DEF Create, EditSettings, Schedule, Portal, Resend, Webhook, Call, Jobs
<1>5. CASE Generate(c)
  <2> DEFINE rec == [Idle EXCEPT !.op = "generate", !.pc = "number"]
  <2>1. rec.todo = {} /\ rec.pc = "number"
    BY <1>1 DEF Call
  <2>2. JobRight(rec, mails, slips)
    BY <2>1 DEF JobRight, WillMail
  <2>3. Starts(c, rec) /\ WorkerIdle
    BY <1>5 DEF Generate
  <2> HIDE DEF rec
  <2> QED
    BY <1>2, <2>2, <2>3
<1>6. CASE Send(c)
  <2> DEFINE rec == [Idle EXCEPT !.op = "send", !.pc = "next", !.todo = Unsent]
  <2>1. rec.todo = Unsent /\ rec.pc = "next"
    BY <1>1 DEF Call
  <2>2. Starts(c, rec) /\ WorkerIdle
    BY <1>6 DEF Send
  <2>3. \A i \in Unsent : mails[i] <= slips[i]
    BY <2>2 DEF Unsent, MailInv, MailParts, NewUnmailed, WorkerIdle, Busy, Saving
  <2> HIDE DEF rec
  <2>4. JobRight(rec, mails, slips)
    BY <2>1, <2>3 DEF JobRight, WillMail
  <2> QED
    BY <1>2, <2>2, <2>4
<1> QED
  BY <1>4, <1>5, <1>6 DEF Request

\* After its mail a job goes on with what was on its list.
LEMMA AfterMailJob ==
  ASSUME MailInv, NEW c \in Calls, call[c].pc \in {"read", "mail", "save"}
  PROVE  /\ JobRight(AfterMail(c), mails, slips)
         /\ InJob(AfterMail(c)) => InJob(call[c])
<1>1. call[c] \in Call /\ JobRight(call[c], mails, slips)
  BY DEF MailInv, MailParts, JobsRight, LateInv, Inv, TypeOK
<1>2. CASE call[c].op \in Jobs
  <2>1. AfterMail(c) = [call[c] EXCEPT !.pc = "next", !.inv = None, !.copy = None]
    BY <1>2 DEF AfterMail
  <2>2. /\ AfterMail(c).op = call[c].op /\ AfterMail(c).pc = "next"
        /\ AfterMail(c).todo = call[c].todo
    BY <1>1, <2>1 DEF Call
  <2> QED
    BY <1>1, <1>2, <2>2 DEF JobRight, WillMail, InJob
<1>3. CASE call[c].op \notin Jobs
  BY <1>3 DEF AfterMail, Idle, JobRight, InJob, Jobs
<1> QED
  BY <1>2, <1>3

LEMMA MailStep == ASSUME MailInv, NEW c \in Calls, Step(c), ~SendMail(c) PROVE MailParts'
<1> USE NoneAssumption DEF invoices, history
<1>1. /\ call[c] \in Call /\ Right(call[c]) /\ MadeRight(call[c], status)
      /\ call \in [Calls -> Call] /\ status \in [Invs -> Status \union {None}] /\ Inv
      /\ JobRight(call[c], mails, slips)
  BY DEF MailInv, MailParts, JobsRight, LateInv, Inv, TypeOK, LocalsRight, Made
\* a step of c alone
<1>2. ASSUME NEW rec, call' = [call EXCEPT ![c] = rec], mails' = mails, slips' = slips,
             call[c].pc \notin {"save", "idle"}, rec.op = call[c].op, JobRight(rec, mails, slips),
             \A i \in Invs : status'[i] \in {None, "issued"} => status[i] \in {None, "issued"}
      PROVE  MailParts'
  BY <1>2, MailRec DEF InJob
\* whose list, if it is a list to be mailed, is the old one or shorter
<1>3. ASSUME NEW rec, call' = [call EXCEPT ![c] = rec], mails' = mails, slips' = slips,
             call[c].pc \in {"number", "numbered", "insert", "next"},
             rec.op = call[c].op, rec.todo \subseteq call[c].todo,
             rec.pc \notin {"read", "mail", "save"}, status' = status
      PROVE  MailParts'
  <2>1. JobRight(rec, mails, slips)
    BY <1>1, <1>3 DEF JobRight, WillMail
  <2> QED
    BY <1>2, <1>3, <2>1
\* who has no list to be mailed any more
<1>4. ASSUME NEW rec, call' = [call EXCEPT ![c] = rec], mails' = mails, slips' = slips,
             call[c].pc \notin {"save", "idle"}, rec.op = call[c].op,
             rec.pc \in {"cutoff", "cut", "suspend"},
             \A i \in Invs : status'[i] \in {None, "issued"} => status[i] \in {None, "issued"}
      PROVE  MailParts'
  <2>1. JobRight(rec, mails, slips)
    BY <1>4 DEF JobRight, WillMail
  <2> QED
    BY <1>2, <1>4, <2>1
<1>5. CASE SettingsSave(c) \/ CutEnds(c)
  BY <1>5, MailEnds DEF SettingsSave, CutEnds
<1>6. CASE PortalSave(c)
  <2>1. \A i \in Invs : status'[i] \in {status[i], "overdue"}
    BY <1>6 DEF PortalSave
  <2>2. "overdue" \notin {None, "issued"}
    BY DEF Status, Payable
  <2> QED
    BY <1>6, <2>1, <2>2, MailEnds DEF PortalSave
<1>7. CASE NumberRead(c)
  <2> DEFINE rec == [call[c] EXCEPT !.num = counter, !.pc = "numbered", !.missed = 0]
  <2>1. rec.op = call[c].op /\ rec.todo = call[c].todo /\ rec.pc = "numbered"
    BY <1>1 DEF Call
  <2>2. call' = [call EXCEPT ![c] = rec]
    BY <1>1, <1>7 DEF NumberRead
  <2> HIDE DEF rec
  <2> QED
    BY <1>3, <1>7, <2>1, <2>2 DEF NumberRead
<1>8. CASE NumberSave(c)
  <2>1. /\ call[c].pc = "numbered" /\ status' = status /\ mails' = mails /\ slips' = slips
    BY <1>8 DEF NumberSave
  <2>2. JobRight(call'[c], mails, slips) /\ (InJob(call'[c]) => InJob(call[c]))
    BY <1>1, <1>8, <2>1, NumberSaved DEF JobRight, WillMail, InJob
  <2> QED
    BY <1>1, <1>8, <2>1, <2>2, NumberSaved, MailOne DEF Saving
<1>9. CASE GoesOn(c)
  <2> DEFINE rec == [call[c] EXCEPT !.pc = "cutoff", !.todo = {}]
  <2>1. rec.op = call[c].op /\ rec.pc = "cutoff"
    BY <1>1 DEF Call
  <2>2. call' = [call EXCEPT ![c] = rec]
    BY <1>1, <1>9 DEF GoesOn
  <2> HIDE DEF rec
  <2> QED
    BY <1>4, <1>9, <2>1, <2>2 DEF GoesOn
<1>10. CASE CutList(c)
  <2> DEFINE rec == [call[c] EXCEPT !.have = Outstanding, !.seen = age, !.pc = "cut",
                                    !.todo = Open]
  <2>1. rec.op = call[c].op /\ rec.pc = "cut"
    BY <1>1 DEF Call
  <2>2. call' = [call EXCEPT ![c] = rec]
    BY <1>1, <1>10 DEF CutList
  <2> HIDE DEF rec
  <2> QED
    BY <1>4, <1>10, <2>1, <2>2 DEF CutList
<1>11. CASE CutMark(c)
  <2>1. PICK i \in call[c].todo :
          /\ status' = IF Overdue(c, i) THEN [status EXCEPT ![i] = "overdue"] ELSE status
          /\ call' = [call EXCEPT ![c].inv = i, ![c].todo = @ \ {i}, ![c].pc = "suspend"]
    BY <1>11 DEF CutMark
  <2> DEFINE rec == [call[c] EXCEPT !.inv = i, !.todo = @ \ {i}, !.pc = "suspend"]
  <2>2. rec.op = call[c].op /\ rec.pc = "suspend"
    BY <1>1 DEF Call
  <2>3. call' = [call EXCEPT ![c] = rec]
    BY <1>1, <2>1
  <2>4. "overdue" \notin {None, "issued"} /\ \A j \in Invs : status'[j] \in {status[j], "overdue"}
    BY <1>1, <2>1 DEF Status, Payable
  <2> HIDE DEF rec
  <2> QED
    BY <1>4, <1>11, <2>2, <2>3, <2>4 DEF CutMark
<1>12. CASE CutSuspend(c)
  <2> DEFINE rec == [call[c] EXCEPT !.inv = None, !.pc = "cut"]
  <2>1. rec.op = call[c].op /\ rec.pc = "cut"
    BY <1>1 DEF Call
  <2>2. call' = [call EXCEPT ![c] = rec]
    BY <1>1, <1>12 DEF CutSuspend
  <2> HIDE DEF rec
  <2> QED
    BY <1>4, <1>12, <2>1, <2>2 DEF CutSuspend
<1>13. CASE TakeNext(c)
  <2>1. ASSUME NEW i \in call[c].todo,
               call' = [call EXCEPT ![c].todo = @ \ {i}, ![c].inv = i, ![c].pc = "read"]
        PROVE  MailParts'
    <3> DEFINE rec == [call[c] EXCEPT !.todo = @ \ {i}, !.inv = i, !.pc = "read"]
    <3>1. /\ rec.op = call[c].op /\ rec.pc = "read" /\ rec.todo = call[c].todo \ {i}
          /\ rec.inv = i
      BY <1>1 DEF Call
    <3>2. call' = [call EXCEPT ![c] = rec]
      BY <1>1, <2>1
    <3> HIDE DEF rec
    <3>3. JobRight(rec, mails, slips)
      BY <1>1, <1>13, <3>1 DEF JobRight, WillMail, TakeNext
    <3> QED
      BY <1>2, <1>13, <3>1, <3>2, <3>3 DEF TakeNext
  <2> QED
    BY <1>13, <2>1, MailEnds DEF TakeNext
<1>14. CASE ReadInvoice(c)
  <2> DEFINE rec == [call[c] EXCEPT !.copy = status[call[c].inv], !.pc = "mail"]
  <2>1. /\ rec.op = call[c].op /\ rec.pc = "mail" /\ rec.todo = call[c].todo
        /\ rec.inv = call[c].inv
    BY <1>1 DEF Call
  <2>2. call' = [call EXCEPT ![c] = rec]
    BY <1>1, <1>14 DEF ReadInvoice
  <2> HIDE DEF rec
  <2>3. JobRight(rec, mails, slips)
    BY <1>1, <1>14, <2>1 DEF JobRight, WillMail, ReadInvoice
  <2> QED
    BY <1>2, <1>14, <2>1, <2>2, <2>3 DEF ReadInvoice
<1>15. CASE MailFails(c)
  BY <1>15, AfterMailJob, MailRec DEF MailFails
<1>16. CASE Insert(c)
  <2>1. CASE Rejected(c)
    BY <1>16, <2>1, MailEnds DEF Insert
  <2>2. CASE ~Rejected(c)
    <3>1. PICK i \in Invs :
            /\ status[i] = None /\ status' = [status EXCEPT ![i] = "issued"]
            /\ \/ Ends(c)
               \/ call' = [call EXCEPT ![c].inv = i, ![c].pc = "read"] /\ call[c].op = "create"
               \/ \E pc \in {"number", "next"} :
                    call' = [call EXCEPT ![c].todo = @ \union {i}, ![c].pc = pc]
      BY <1>16, <2>2 DEF Insert
    <3>2. /\ call[c].pc = "insert" /\ mails' = mails /\ slips' = slips
          /\ \A j \in Invs : status'[j] \in {None, "issued"} => status[j] \in {None, "issued"}
      BY <1>1, <1>16, <3>1 DEF Insert
    <3>3. mails[i] <= slips[i]
      <4>1. \A d \in Calls : ~Saving(call[d], i)
        BY <3>1 DEF Saving, MailInv, LateInv, Made, MadeRight
      <4> QED
        BY <3>1, <4>1 DEF MailInv, MailParts, NewUnmailed
    <3>4. ASSUME call' = [call EXCEPT ![c].inv = i, ![c].pc = "read"], call[c].op = "create"
          PROVE  MailParts'
      <4> DEFINE rec == [call[c] EXCEPT !.inv = i, !.pc = "read"]
      <4>1. rec.op = call[c].op
        BY <1>1 DEF Call
      <4>2. call' = [call EXCEPT ![c] = rec]
        BY <1>1, <3>4
      <4> HIDE DEF rec
      <4>3. JobRight(rec, mails, slips)
        BY <3>4, <4>1 DEF JobRight, Jobs
      <4> QED
        BY <1>2, <3>2, <4>1, <4>2, <4>3
    <3>5. ASSUME NEW pc \in {"number", "next"},
                 call' = [call EXCEPT ![c].todo = @ \union {i}, ![c].pc = pc]
          PROVE  MailParts'
      <4> DEFINE rec == [call[c] EXCEPT !.todo = @ \union {i}, !.pc = pc]
      <4>1. rec.op = call[c].op /\ rec.pc = pc /\ rec.todo = call[c].todo \union {i}
        BY <1>1 DEF Call
      <4>2. call' = [call EXCEPT ![c] = rec]
        BY <1>1, <3>5
      <4> HIDE DEF rec
      <4>3. JobRight(rec, mails, slips)
        BY <1>1, <3>2, <3>3, <4>1 DEF JobRight, WillMail
      <4> QED
        BY <1>2, <3>2, <4>1, <4>2, <4>3
    <3> QED
      BY <3>1, <3>2, <3>4, <3>5, MailEnds
  <2> QED
    BY <2>1, <2>2
<1>17. ASSUME NEW rec, NEW i \in Invs, NEW st \in Status \ {"issued"}, Becomes(c, rec, i, st),
              mails' = mails, slips' = slips, \A j \in Invs : Saving(call[c], j) => j = i,
              InJob(rec) => InJob(call[c]), JobRight(rec, mails, slips)
       PROVE  MailParts'
  <2>1. \A d \in Calls : d # c => /\ call'[d].op = call[d].op /\ call'[d].pc = call[d].pc
                                  /\ call'[d].inv = call[d].inv /\ call'[d].todo = call[d].todo
    BY <1>1, <1>17 DEF Becomes, Call
  <2>2. call'[c] = rec
    BY <1>17 DEF Becomes
  <2>3. /\ \A j \in Invs : status'[j] \in {None, "issued"} => status[j] \in {None, "issued"}
        /\ status'[i] \notin {None, "issued"}
    BY <1>1, <1>17 DEF Becomes, Status
  <2> QED
    BY <1>17, <2>1, <2>2, <2>3, MailOne
<1>18. CASE SaveInvoice(c)
  <2>1. /\ call[c].pc = "save" /\ call[c].inv \in Invs /\ call[c].copy \in Status
        /\ Becomes(c, AfterMail(c), call[c].inv, SentAs(call[c].op, call[c].copy))
    BY <1>1, <1>18 DEF SaveInvoice, Right, MadeRight, Call, Status
  <2>2. SentAs(call[c].op, call[c].copy) \in Status \ {"issued"}
    BY <2>1 DEF SentAs, Status, Payable
  <2>3. JobRight(AfterMail(c), mails, slips) /\ (InJob(AfterMail(c)) => InJob(call[c]))
    BY <2>1, AfterMailJob
  <2>4. \A j \in Invs : Saving(call[c], j) => j = call[c].inv
    BY DEF Saving
  <2>5. mails' = mails /\ slips' = slips
    BY <1>18 DEF SaveInvoice
  <2> QED
    BY <1>17, <2>1, <2>2, <2>3, <2>4, <2>5
<1>19. CASE Pay(c)
  <2>1. /\ call[c].inv \in Invs /\ "paid" \in Status \ {"issued"}
        /\ Becomes(c, Idle, call[c].inv, "paid") /\ mails' = mails /\ slips' = slips
        /\ call[c].pc = "pay"
    BY <1>1, <1>19 DEF Pay, Right, Status
  <2>2. ~InJob(Idle) /\ JobRight(Idle, mails, slips)
    BY DEF InJob, JobRight, Idle, Jobs
  <2> QED
    BY <1>17, <2>1, <2>2 DEF Saving
<1> QED
  BY <1>5, <1>6, <1>7, <1>8, <1>9, <1>10, <1>11, <1>12, <1>13, <1>14, <1>15, <1>16, <1>18,
     <1>19 DEF Step

LEMMA MailSent == ASSUME MailInv, NEW c \in Calls, SendMail(c) PROVE MailParts'
<1> DEFINE i == call[c].inv
           rec == [call[c] EXCEPT !.pc = "save"]
<1>1. /\ call[c] \in Call /\ i \in Invs /\ JobRight(call[c], mails, slips) /\ call[c].pc = "mail"
      /\ mails \in [Invs -> Nat] /\ slips \in [Invs -> Nat]
  BY DEF MailInv, MailParts, JobsRight, LateInv, Inv, TypeOK, LocalsRight, Right, SendMail
<1>2. /\ rec.op = call[c].op /\ rec.pc = "save" /\ rec.todo = call[c].todo /\ rec.inv = i
  BY <1>1 DEF Call
<1>3. /\ \A d \in Calls : call'[d] = IF d = c THEN rec ELSE call[d]
      /\ status' = status /\ slips' = slips
      /\ mails' = IF call[c].op \in Jobs THEN [mails EXCEPT ![i] = @ + 1] ELSE mails
  BY DEF SendMail, Goto, MailInv, LateInv, Inv, TypeOK, invoices, Mailed
<1> HIDE DEF rec, i
<1>4. CASE call[c].op \notin Jobs
  <2>1. ~InJob(rec) /\ JobRight(rec, mails, slips) /\ \A j \in Invs : ~Saving(call[c], j)
    BY <1>1, <1>2, <1>4 DEF InJob, JobRight, Saving
  <2> QED
    BY <1>3, <1>4, <2>1, MailOne
<1>5. CASE call[c].op \in Jobs
  <2>1. InJob(call[c]) /\ WillMail(call[c], i) /\ i \notin call[c].todo
    BY <1>1, <1>5 DEF InJob, WillMail, JobRight, i
  <2>2. mails[i] <= slips[i] /\ mails'[i] = mails[i] + 1
        /\ \A j \in Invs : j # i => mails'[j] = mails[j]
    BY <1>1, <1>3, <1>5, <2>1 DEF JobRight
  <2>3. \A d \in Calls : InJob(call'[d]) => d = c
    BY <1>3, <2>1 DEF MailInv, MailParts, OneJob
  <2>4. OneJob'
    BY <2>3 DEF OneJob
  <2>5. JobRight(rec, mails', slips')
    BY <1>1, <1>2, <1>3, <2>1, <2>2 DEF JobRight, WillMail
  <2>6. \A d \in Calls : d # c => JobRight(call'[d], mails', slips')
    <3>1. ASSUME NEW d \in Calls, d # c, call'[d].op \in Jobs PROVE call'[d].pc = "idle"
      BY <2>3, <3>1 DEF InJob
    <3> QED
      BY <1>3, <3>1 DEF JobRight, WillMail, MailInv, MailParts, JobsRight
  <2>7. JobsRight'
    BY <1>3, <2>5, <2>6 DEF JobsRight
  <2>8. NewUnmailed'
    <3>1. ASSUME NEW j \in Invs, status[j] \in {None, "issued"}, \A d \in Calls : ~Saving(call'[d], j)
          PROVE  mails'[j] <= slips[j]
      <4>1. j # i
        BY <1>2, <1>3, <1>5, <3>1 DEF Saving
      <4>2. \A d \in Calls : ~Saving(call[d], j)
        BY <1>1, <1>3, <3>1 DEF Saving
      <4> QED
        BY <2>2, <3>1, <4>1, <4>2 DEF MailInv, MailParts, NewUnmailed
    <3> QED
      BY <1>3, <3>1 DEF NewUnmailed
  <2>9. JobMailsOnce'
    BY <1>1, <1>3, <2>2 DEF JobMailsOnce, MailInv, MailParts
  <2> QED
    BY <2>4, <2>7, <2>8, <2>9 DEF MailParts
<1> QED
  BY <1>4, <1>5

\* Failures: a mail of a job that is not noted is one slip.
LEMMA Slips ==
  ASSUME MailInv, NEW D \in SUBSET Calls, slips' = Slipped(D)
  PROVE  \A i \in Invs :
           /\ slips'[i] \in Nat /\ slips[i] <= slips'[i]
           /\ (\E c \in D : Saving(call[c], i)) => slips[i] + 1 <= slips'[i]
<1>1. TAKE i \in Invs
<1> DEFINE S == {c \in D : call[c].pc = "save" /\ call[c].inv = i /\ call[c].op \in Jobs}
<1>2. slips'[i] = slips[i] + Cardinality(S) /\ slips[i] \in Nat
  BY DEF Slipped, MailInv, LateInv, Inv, TypeOK
<1>3. IsFiniteSet(S)
  BY FS_Subset, InvoiceBounds
<1>4. (\E c \in D : Saving(call[c], i)) => S # {}
  BY DEF Saving
<1> HIDE DEF S
<1>5. Cardinality(S) \in Nat /\ (S # {} => Cardinality(S) # 0)
  BY <1>3, FS_CardinalityType, FS_EmptySet
<1> DEFINE n == Cardinality(S)
<1> HIDE DEF n
<1>6. slips'[i] = slips[i] + n /\ n \in Nat /\ (S # {} => n # 0)
  BY <1>2, <1>5 DEF n
<1>7. S # {} => slips[i] + 1 <= slips'[i]
  BY <1>2, <1>6
<1> QED
  BY <1>2, <1>4, <1>6, <1>7

LEMMA MailFaults ==
  ASSUME MailInv, NEW D \in SUBSET Calls, slips' = Slipped(D), mails' = mails, status' = status,
         \A d \in Calls :
           \/ d \notin D /\ call'[d] = call[d]
           \/ d \in D /\ InJob(call[d]) /\ JobRight(call'[d], mails, slips)
                      /\ call'[d].pc # "save"
           \/ d \in D /\ call'[d] = Idle
  PROVE  MailParts'
<1>1. /\ \A i \in Invs : slips[i] <= slips'[i] /\ slips'[i] \in Nat
      /\ \A i \in Invs : (\E c \in D : Saving(call[c], i)) => slips[i] + 1 <= slips'[i]
  BY Slips
<1>2. \A i \in Invs : mails[i] \in Nat /\ slips[i] \in Nat
  BY DEF MailInv, LateInv, Inv, TypeOK
<1>3. ~InJob(Idle) /\ JobRight(Idle, mails, slips) /\ Idle.pc = "idle"
  BY DEF InJob, JobRight, Idle, Jobs
<1>4. OneJob'
  <2>1. \A d \in Calls : InJob(call'[d]) => InJob(call[d])
    BY <1>3
  <2> QED
    BY <2>1 DEF OneJob, MailInv, MailParts
<1>5. JobsRight'
  <2>1. \A d \in Calls : JobRight(call'[d], mails, slips)
    BY <1>3 DEF MailInv, MailParts, JobsRight
  <2>2. \A i \in Invs : mails[i] <= slips[i] => mails[i] <= slips'[i]
    BY <1>1, <1>2
  <2>3. \A d \in Calls : JobRight(call'[d], mails, slips')
    BY <2>1, <2>2 DEF JobRight
  <2> QED
    BY <2>3 DEF JobsRight
<1>6. NewUnmailed'
  <2>1. ASSUME NEW i \in Invs, status[i] \in {None, "issued"}, \A d \in Calls : ~Saving(call'[d], i)
        PROVE  mails[i] <= slips'[i]
    <3>1. CASE \E c \in D : Saving(call[c], i)
      <4>1. mails[i] <= 1 + slips[i]
        BY DEF MailInv, MailParts, JobMailsOnce
      <4> QED
        BY <1>1, <1>2, <3>1, <4>1
    <3>2. CASE ~\E c \in D : Saving(call[c], i)
      <4>1. \A d \in Calls : ~Saving(call[d], i)
        BY <2>1, <3>2
      <4>2. mails[i] <= slips[i]
        BY <2>1, <4>1 DEF MailInv, MailParts, NewUnmailed
      <4> QED
        BY <1>1, <1>2, <4>2
    <3> QED
      BY <3>1, <3>2
  <2> QED
    BY <2>1 DEF NewUnmailed
<1>7. JobMailsOnce'
  <2>1. \A i \in Invs : mails[i] <= 1 + slips[i]
    BY DEF MailInv, MailParts, JobMailsOnce
  <2>2. \A i \in Invs : mails[i] <= 1 + slips'[i]
    BY <1>1, <1>2, <2>1
  <2> QED
    BY <2>2 DEF JobMailsOnce
<1> QED
  BY <1>4, <1>5, <1>6, <1>7 DEF MailParts

LEMMA MailNext == MailInv /\ [Next]_vars => MailInv'
<1> SUFFICES ASSUME MailInv, [Next]_vars PROVE MailParts'
  BY LateNext DEF MailInv
<1> USE DEF invoices, history
<1>1. ASSUME NEW c \in Calls, Throw(c) PROVE MailParts'
  <2>1. /\ slips' = Slipped({c}) /\ mails' = mails /\ status' = status
        /\ \A d \in Calls : d # c => call'[d] = call[d]
        /\ \/ call[c].pc \in {"read", "mail", "save"} /\ call'[c] = AfterMail(c)
           \/ call'[c] = Idle
    BY <1>1 DEF Throw, MailInv, LateInv, Inv, TypeOK
  <2>2. CASE call[c].pc \in {"read", "mail", "save"} /\ call'[c] = AfterMail(c)
    <3>1. JobRight(AfterMail(c), mails, slips) /\ (InJob(AfterMail(c)) => InJob(call[c]))
      BY <2>2, AfterMailJob
    <3>2. AfterMail(c).pc # "save"
      BY AfterMailType DEF MailInv, LateInv
    <3>3. InJob(call[c]) \/ AfterMail(c) = Idle
      BY <2>2 DEF AfterMail, InJob
    <3> QED
      BY <2>1, <2>2, <3>1, <3>2, <3>3, MailFaults
  <2>3. CASE call'[c] = Idle
    BY <2>1, <2>3, MailFaults
  <2> QED
    BY <2>1, <2>2, <2>3
<1>2. CASE Restart
  <2>1. slips' = Slipped(Calls) /\ mails' = mails /\ status' = status
        /\ \A d \in Calls : call'[d] = Idle
    BY <1>2 DEF Restart
  <2> QED
    BY <2>1, MailFaults
<1>3. ASSUME NEW i \in Invs, Ages(i) PROVE MailParts'
  BY <1>3 DEF Ages, MailInv, MailParts, OneJob, JobsRight, NewUnmailed, JobMailsOnce
<1>4. CASE UNCHANGED vars
  BY <1>4 DEF vars, MailInv, MailParts, OneJob, JobsRight, NewUnmailed, JobMailsOnce
<1> QED
  BY <1>1, <1>2, <1>3, <1>4, MailRequest, MailStep, MailSent DEF Next

\* The jobs mail an invoice once, and again only after a failure between a mail and the save
\* that notes it, whatever else is done to the invoice.
THEOREM JobMailsOnceHolds == Spec => []JobMailsOnce
<1>1. Init => MailInv
  <2> SUFFICES ASSUME Init PROVE MailParts
    BY LateInit DEF MailInv
  <2>1. \A c \in Calls : call[c] = Idle
    BY DEF Init
  <2>2. ~InJob(Idle) /\ JobRight(Idle, mails, slips)
    BY DEF InJob, JobRight, Idle, Jobs
  <2>3. \A i \in Invs : mails[i] = 0 /\ slips[i] = 0
    BY DEF Init
  <2> QED
    BY <2>1, <2>2, <2>3 DEF MailParts, OneJob, JobsRight, NewUnmailed, JobMailsOnce
<1>2. MailInv => JobMailsOnce
  BY DEF MailInv, MailParts
<1> QED
  BY <1>1, <1>2, MailNext, PTL DEF Spec

=============================================================================
