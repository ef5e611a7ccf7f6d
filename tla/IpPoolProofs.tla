---------------------------- MODULE IpPoolProofs ----------------------------
(***************************************************************************)
(* Theorems about IpPool, for any ONUs, pools, calls and bounds: the table *)
(* of allocations and the rows of the ONUs agree wherever no call is       *)
(* between the two, and no address belongs to two ONUs.                    *)
(***************************************************************************)
EXTENDS IpPool, WellFoundedInduction, TLAPS

-----------------------------------------------------------------------------
(* The invariant *)

Adding == {"assignWan", "adoptWan", "assignMgmt"}
Releasing == {"releaseWan", "releaseMgmt"}

\* What a call with locals r has where it is.
Placed(r) ==
    /\ r.pc # "idle" /\ r.op \in Ops => r.onu \in Onus /\ r.copy \in Row
    /\ r.op \in PoolOps => r.onu = None /\ r.pool \in Pools /\ r.keep = None /\ r.found = {}
    /\ r.pc # "idle" /\ r.op \in Adding => r.pool \in Pools /\ Purpose[r.pool] = Keeps(r.op)
    /\ r.pc \in {"check", "resizeRow"} => r.op = "resize" /\ r.size # 0
    /\ r.pc \in {"count", "removeRow"} => r.op = "remove"
    /\ r.pc = "keep" => r.op \in {"assignWan", "assignMgmt"} /\ r.keep = None
    /\ r.pc \in {"pools", "others", "drop"} => r.op \in Adding \union Releasing \union {"changeMgmt"}
    /\ r.pc = "pools" => r.op # "adoptWan"
    /\ r.pc = "find" => r.op = "changeMgmt"
    /\ r.op = "changeMgmt" =>
         r.keep = None /\ (r.pool # None => Purpose[r.pool] = "management")
    /\ r.pc = "taken" => r.op \in {"assignWan", "adoptWan"} /\ r.want # 0
    /\ r.op = "adoptWan" => r.want # 0
    /\ r.pc = "unkeep" => r.op = "assignWan" /\ r.want # 0 /\ r.keep # None
    /\ r.pc = "wanted" => r.op \in {"assignWan", "adoptWan"} /\ r.want # 0
    /\ r.pc = "choose" => r.op \in {"assignWan", "assignMgmt"}
    /\ r.pc = "insert" => r.op \in {"assignWan", "assignMgmt"} /\ r.want # 0
    /\ r.pc = "save" => r.op \in Adding \union Releasing \union {"edit"}
    /\ r.pc = "save" /\ r.op \in Adding => r.keep # None
    /\ r.pc = "reload" => r.op = "assignMgmt"
    /\ r.pc = "again" => r.op \in {"assignMgmt", "releaseMgmt"}
    /\ r.pc \in {"purge", "purgeRow"} => r.op = "purge"
    /\ r.op \in Releasing \union {"edit", "purge"} => r.keep = None
    /\ r.op = "assignMgmt" /\ r.pc \in {"pools", "others", "drop"} => r.keep = None

\* The allocations in its memory were its ONU's, for its purpose.
Held(r) == r.found \union ({r.keep} \ {None})
Own(r) ==
    r.pc # "idle" /\ r.op \in Ops =>
        \A a \in Held(r) : a.onu = r.onu /\ Purpose[a.pool] = Keeps(r.op)

Right(r) == Placed(r) /\ Own(r)
LocalsRight == \A c \in Calls : Right(call[c])

\* Allocations in the table or in the memory of a call.
Known == alloc \union UNION {Held(call[c]) : c \in Calls}

\* Identities are of one allocation; the unique indexes; the foreign key of the ONU.
Unique(S) == \A a, b \in S : a.pool = b.pool /\ (a.ip = b.ip \/ a.onu = b.onu) => a = b
TablesRight ==
    /\ \A a, b \in Known : a.id = b.id => a = b
    /\ Unique(alloc)
    /\ \A a \in alloc : Present(a.onu)
    /\ \A o \in Onus : row[o] = Unborn => On(o) = {}

\* Of two calls for an ONU neither is alone, and its books are open.
Together ==
    \A c, d \in Calls :
        c # d /\ call[c].pc # "idle" /\ call[d].pc # "idle" /\ call[c].onu = call[d].onu
        /\ call[c].onu \in Onus
            => ~call[c].alone /\ {call[c].onu} \X Purposes \subseteq open

\* The copy a call with locals r will save is the row, for purposes whose books are closed.
Copied(r, rows, opened) ==
    r.pc \notin {"idle", "reload"} /\ r.op \in Ops =>
        \A u \in Purposes : <<r.onu, u>> \notin opened =>
            rows[r.onu] \in Row /\ rows[r.onu][u] = r.copy[u]

CopiesRight == \A c \in Calls : Copied(call[c], row, open)

\* A call with locals r whose purpose is not disturbed, T being the allocations its
\* ONU has for it: those to drop and the one to keep are all there are.
Kept(r) == {r.keep} \ {None}
Works(r, T) ==
    /\ r.pc = "keep" /\ r.op = "assignMgmt" => \A a, b \in T : a = b
    /\ r.pc \in {"taken", "others"} /\ r.op = "adoptWan" => \A a \in T : a.pool = r.pool
    /\ r.pc = "others" /\ r.op = "adoptWan" =>
         Kept(r) = {a \in T : a.ip = r.want}
    /\ r.pc \in {"pools", "others"} /\ r.op = "assignWan" => Kept(r) = {a \in T : a.pool = r.pool}
    /\ r.pc = "others" /\ r.op # "adoptWan" => \A a \in T : a.pool \in r.pools
    /\ r.pc = "drop" => T = r.found \union Kept(r) /\ r.found \intersect Kept(r) = {}
    /\ r.pc = "taken" /\ r.op = "assignWan" => T = Kept(r)
    /\ r.pc = "unkeep" => T = Kept(r) /\ r.found = {}
    /\ r.pc \in {"find", "wanted", "choose", "insert"} => T = {}
    /\ r.pc = "save" /\ r.op # "edit" => T = Kept(r)

Its(r, S) == {a \in S : a.onu = r.onu /\ Purpose[a.pool] = Keeps(r.op)}
Undisturbed(r, opened) ==
    <<r.onu, Keeps(r.op)>> \notin opened \/ (r.alone /\ (r.sound \/ Settles(r.op)))

Working(r, S, opened) ==
    r.pc # "idle" /\ r.op \in Ops /\ Undisturbed(r, opened) => Works(r, Its(r, S))

WorkRight == \A c \in Calls : Working(call[c], alloc, open)

\* The books of o for u.
Agrees(o, u, rows, S) ==
    rows[o] \in Row => {SlotOf(a) : a \in {b \in S : b.onu = o /\ Purpose[b.pool] = u}}
                         = {rows[o][u]} \ {None}

Inv == TypeOK /\ LocalsRight
BooksInv == Inv /\ TablesRight /\ Together /\ CopiesRight /\ WorkRight /\ BooksAgree

\* The foreign key of the pool: an allocation is in a pool that exists.
PoolsRight == \A a \in alloc : hosts[a.pool] # 0

-----------------------------------------------------------------------------
(* A step of a call disturbs only its own ONU *)

\* Another call may have been beaten or joined, and is otherwise as before.
Like(r, old) ==
    /\ r.pc = old.pc /\ r.op = old.op /\ r.onu = old.onu /\ r.pool = old.pool
    /\ r.want = old.want /\ r.copy = old.copy /\ r.keep = old.keep /\ r.found = old.found
    /\ r.size = old.size /\ r.pools = old.pools
    /\ r.sound = old.sound /\ (r.alone => old.alone)

LEMMA LikeFacts ==
    ASSUME NEW r, NEW old, Like(r, old)
    PROVE  /\ Right(old) => Right(r)
           /\ Held(r) = Held(old)
           /\ \A rows, opened : Copied(old, rows, opened) => Copied(r, rows, opened)
           /\ \A S, opened : Working(old, S, opened) => Working(r, S, opened)
<1>1. Placed(old) => Placed(r)
  BY DEF Like, Placed
<1>2. Held(r) = Held(old) /\ Kept(r) = Kept(old)
  BY DEF Like, Held, Kept
<1>8. Own(old) => Own(r)
  BY <1>2 DEF Like, Own
<1>3. \A rows, opened : Copied(old, rows, opened) => Copied(r, rows, opened)
  BY DEF Like, Copied
<1>4. \A S : Its(r, S) = Its(old, S)
  BY DEF Like, Its
<1>5. \A T : Works(old, T) => Works(r, T)
  BY <1>2 DEF Like, Works
<1>6. \A opened : Undisturbed(r, opened) => Undisturbed(old, opened)
  BY DEF Like, Undisturbed
<1>7. \A S, opened : Working(old, S, opened) => Working(r, S, opened)
  BY <1>4, <1>5, <1>6 DEF Like, Working
<1> QED
  BY <1>1, <1>2, <1>3, <1>7, <1>8 DEF Right

\* A call with these locals works on an ONU.
Busy(r) == r.pc # "idle" /\ r.op \in Ops

LEMMA OwnStep ==
    ASSUME BooksInv, NEW c \in Calls, call[c].pc # "idle", NEW r,
           r.pc # "idle" => r.onu = call[c].onu /\ (r.alone => call[c].alone),
           Right(r), TypeOK',
           call'[c] = r, \A d \in Calls : d # c => Like(call'[d], call[d]),
           \A x \in Onus : x # call[c].onu =>
               /\ row'[x] = row[x]
               /\ \A a : a.onu = x => (a \in alloc' <=> a \in alloc)
               /\ \A u \in Purposes : <<x, u>> \in open' <=> <<x, u>> \in open,
           call[c].alone \/ open \subseteq open',
           \A x \in Onus : row'[x] = Unborn => row[x] = Unborn,
           \A a, b \in Known' : a.id = b.id => a = b,
           Unique(alloc'), \A a \in alloc' : row'[a.onu] \in Row,
           Copied(r, row', open'), Working(r, alloc', open'),
           call[c].onu \in Onus =>
               \A u \in Purposes : <<call[c].onu, u>> \notin open' =>
                   Agrees(call[c].onu, u, row', alloc')
    PROVE  BooksInv'
<1> DEFINE o == call[c].onu
<1>1. ASSUME NEW d \in Calls, d # c, Busy(call[d]), call[d].onu = o
      PROVE  ~call[d].alone /\ ~call[c].alone /\ {o} \X Purposes \subseteq open'
  <2>1. call[d].onu \in Onus
    BY <1>1 DEF BooksInv, Inv, LocalsRight, Right, Placed, Busy
  <2> QED
    BY <1>1, <2>1 DEF BooksInv, Together, Busy
<1>2. LocalsRight'
  BY LikeFacts DEF BooksInv, Inv, LocalsRight
<1>3. TablesRight'
  <2>1. ASSUME NEW x \in Onus, row'[x] = Unborn PROVE On(x)' = {}
    <3>1. \A d \in Calls : call[d].pc = "idle" \/ call[d].onu # x
      BY <2>1 DEF BooksInv, TablesRight, On
    <3>2. \A d \in Calls : call'[d].pc = "idle" \/ call'[d].onu # x
      BY <3>1 DEF Like
    <3> QED
      BY <3>2 DEF On
  <2> QED
    BY <2>1 DEF TablesRight, Present
<1>4. Together'
  <2> SUFFICES ASSUME NEW d \in Calls, NEW e \in Calls, d # e, call'[d].pc # "idle",
                      call'[e].pc # "idle", call'[d].onu = call'[e].onu, call'[d].onu \in Onus
               PROVE  ~call'[d].alone /\ {call'[d].onu} \X Purposes \subseteq open'
    BY DEF Together
  <2>1. /\ call[d].pc # "idle" /\ call[e].pc # "idle"
        /\ call[d].onu = call'[d].onu /\ call[e].onu = call'[e].onu
        /\ call'[d].alone => call[d].alone
    BY DEF Like
  <2>2. ~call[d].alone /\ {call[d].onu} \X Purposes \subseteq open
    BY <2>1 DEF BooksInv, Together
  <2>3. call[d].onu = o => open \subseteq open'
    BY <2>1 DEF BooksInv, Together
  <2> QED
    BY <2>1, <2>2, <2>3
<1>5. ASSUME NEW d \in Calls PROVE Copied(call'[d], row', open') /\ Working(call'[d], alloc', open')
  <2>1. CASE d = c
    BY <2>1
  <2>2. CASE d # c
    <3>1. Copied(call[d], row', open') /\ Working(call[d], alloc', open')
      <4>1. CASE ~Busy(call[d])
        BY <4>1 DEF Busy, Copied, Working
      <4>2. CASE Busy(call[d]) /\ call[d].onu = o
        <5>1. \A u \in Purposes : <<call[d].onu, u>> \in open'
          BY <1>1, <2>2, <4>2
        <5>2. Keeps(call[d].op) \in Purposes /\ ~call[d].alone
          BY <1>1, <2>2, <4>2 DEF Keeps, Purposes
        <5> QED
          BY <5>1, <5>2 DEF Copied, Working, Undisturbed
      <4>3. CASE Busy(call[d]) /\ call[d].onu # o
        <5>1. call[d].onu \in Onus
          BY <4>3 DEF BooksInv, Inv, LocalsRight, Right, Placed, Busy
        <5>2. /\ row'[call[d].onu] = row[call[d].onu]
              /\ \A u \in Purposes : <<call[d].onu, u>> \in open' <=> <<call[d].onu, u>> \in open
          BY <4>3, <5>1
        <5>3. Its(call[d], alloc') = Its(call[d], alloc)
          BY <4>3, <5>1 DEF Its
        <5>4. Copied(call[d], row', open')
          BY <5>2 DEF BooksInv, CopiesRight, Copied
        <5>5. Keeps(call[d].op) \in Purposes
          BY DEF Keeps, Purposes
        <5>6. Working(call[d], alloc', open')
          BY <5>2, <5>3, <5>5 DEF BooksInv, WorkRight, Working, Undisturbed
        <5> QED
          BY <5>4, <5>6
      <4> QED
        BY <4>1, <4>2, <4>3
    <3> QED
      BY <2>2, <3>1, LikeFacts
  <2> QED
    BY <2>1, <2>2
<1>6. BooksAgree'
  <2> SUFFICES ASSUME NEW x \in Onus, NEW u \in Purposes, <<x, u>> \notin open'
               PROVE  Agrees(x, u, row', alloc')
    BY DEF BooksAgree, Present, Of, Agrees
  <2>1. CASE x = o
    BY <2>1
  <2>2. CASE x # o
    <3>1. row'[x] = row[x] /\ <<x, u>> \notin open
      BY <2>2
    <3>2. {b \in alloc' : b.onu = x /\ Purpose[b.pool] = u}
            = {b \in alloc : b.onu = x /\ Purpose[b.pool] = u}
      BY <2>2
    <3> QED
      BY <3>1, <3>2 DEF BooksInv, BooksAgree, Present, Of, Agrees
  <2> QED
    BY <2>1, <2>2
<1> QED
  BY <1>2, <1>3, <1>4, <1>5, <1>6 DEF BooksInv, Inv, CopiesRight, WorkRight

LEMMA IdleFacts ==
    /\ Idle \in Call /\ Idle.pc = "idle" /\ Right(Idle) /\ Held(Idle) = {}
    /\ \A rows, S, opened : Copied(Idle, rows, opened) /\ Working(Idle, S, opened)
<1>1. 0 \in 0 .. MaxHosts /\ 0 \in 0 .. Attempts - 1
  BY BoundsAssumption DEF Hosts
<1>2. Idle \in Call
  BY <1>1 DEF Idle, Call, Ops, PoolOps, Pcs
<1>3. Right(Idle)
  BY DEF Idle, Right, Placed, Own, Ops, PoolOps, Adding, Releasing
<1>4. Held(Idle) = {}
  BY DEF Idle, Held
<1> QED
  BY <1>2, <1>3, <1>4 DEF Idle, Copied, Working

\* A step that changes nothing but the locals of its call.
LEMMA LocalStep ==
    ASSUME BooksInv, NEW c \in Calls, call[c].pc # "idle", NEW r \in Call,
           call' = [call EXCEPT ![c] = r], UNCHANGED <<row, alloc, open>>,
           hosts' \in [Pools -> 0 .. MaxHosts], requests' \in 0 .. MaxRequests,
           faults' \in 0 .. MaxFaults,
           r.pc # "idle" => r.onu = call[c].onu /\ (r.alone => call[c].alone),
           Right(r), Held(r) \subseteq Known,
           Copied(r, row, open), Working(r, alloc, open)
    PROVE  BooksInv'
<1>1. /\ call \in [Calls -> Call] /\ TypeOK
      /\ \A d \in Calls : call'[d] = IF d = c THEN r ELSE call[d]
  BY DEF BooksInv, Inv, TypeOK
<1>2. TypeOK'
  BY <1>1 DEF TypeOK
<1>3. \A d \in Calls : d # c => Like(call'[d], call[d])
  BY <1>1 DEF Like
<1>4. \A d \in Calls : Held(call'[d]) \subseteq Known
  BY <1>1 DEF Known
<1>5. Known' \subseteq Known
  BY <1>4 DEF Known
<1>6. \A a, b \in Known' : a.id = b.id => a = b
  BY <1>5 DEF BooksInv, TablesRight
<1>7. Unique(alloc') /\ \A a \in alloc' : row'[a.onu] \in Row
  BY DEF BooksInv, TablesRight, Present
<1>8. call[c].onu \in Onus =>
        \A u \in Purposes : <<call[c].onu, u>> \notin open' =>
            Agrees(call[c].onu, u, row', alloc')
  BY DEF BooksInv, BooksAgree, Present, Of, Agrees
<1> QED
  BY <1>1, <1>2, <1>3, <1>6, <1>7, <1>8, OwnStep

LEMMA EndsStep ==
    ASSUME BooksInv, NEW c \in Calls, call[c].pc # "idle", Ends(c),
           UNCHANGED <<row, alloc, open>>,
           hosts' \in [Pools -> 0 .. MaxHosts], requests' \in 0 .. MaxRequests,
           faults' \in 0 .. MaxFaults
    PROVE  BooksInv'
  BY IdleFacts, LocalStep DEF Ends

\* What is known of a call that works on an ONU.
LEMMA BusyFacts ==
    ASSUME BooksInv, NEW c \in Calls
    PROVE  /\ TypeOK /\ call[c] \in Call /\ Right(call[c]) /\ Held(call[c]) \subseteq Known
           /\ Copied(call[c], row, open) /\ Working(call[c], alloc, open)
           /\ alloc \subseteq Alloc /\ Unique(alloc) /\ row \in [Onus -> Row \union {Unborn, Gone}]
           /\ hosts \in [Pools -> 0 .. MaxHosts] /\ requests \in 0 .. MaxRequests
           /\ faults \in 0 .. MaxFaults
           /\ \A a, b \in Known : a.id = b.id => a = b
  BY DEF BooksInv, Inv, TypeOK, LocalsRight, CopiesRight, WorkRight, TablesRight, Known

\* The copy follows the call, but for the end and for a second reading.
LEMMA SameCopy ==
    ASSUME NEW r \in Call, NEW old \in Call, Copied(old, row, open),
           r.pc # "idle" => r.onu = old.onu /\ r.op = old.op /\ r.copy = old.copy,
           old.pc \notin {"idle", "reload"}
    PROVE  Copied(r, row, open)
  BY DEF Copied

LEMMA OwnFacts ==
    ASSUME NEW r, NEW old, Own(old), old.pc # "idle", r.onu = old.onu, r.op = old.op,
           Held(r) \subseteq Held(old) \union Its(old, alloc)
    PROVE  Own(r)
  BY DEF Own, Its

LEMMA FindKeepBooks == ASSUME BooksInv, NEW c \in Calls, FindKeep(c) PROVE BooksInv'
<1> DEFINE old == call[c]
           T == Its(old, alloc)
           mine == {a \in alloc : a.onu = call[c].onu /\ a.pool = call[c].pool}
<1>0. /\ old \in Call /\ Right(old) /\ Held(old) \subseteq Known
      /\ Copied(old, row, open) /\ Working(old, alloc, open) /\ old.pc = "keep"
      /\ alloc \subseteq Alloc /\ Unique(alloc)
      /\ UNCHANGED <<hosts, row, alloc, open, requests, faults>>
      /\ hosts \in [Pools -> 0 .. MaxHosts] /\ requests \in 0 .. MaxRequests
      /\ faults \in 0 .. MaxFaults
  BY BusyFacts DEF FindKeep
<1>1. /\ old.op \in {"assignWan", "assignMgmt"} /\ old.keep = None
      /\ Purpose[old.pool] = Keeps(old.op) /\ mine \subseteq T
      /\ mine = {a \in T : a.pool = old.pool}
  BY <1>0 DEF Right, Placed, Adding, Its
<1>2. Undisturbed(old, open) /\ old.op = "assignMgmt" => \A a, b \in T : a = b
  BY <1>0, <1>1 DEF Working, Works, Ops
<1>3. \A a, b \in mine : a = b
  BY <1>0 DEF Unique
<1> HIDE DEF mine, T
<1>4. CASE mine = {} /\ Goto(c, "pools")
  <2> DEFINE r == [old EXCEPT !.pc = "pools"]
  <2>1. r \in Call /\ call' = [call EXCEPT ![c] = r]
    BY <1>0, <1>4 DEF Goto, Call, Pcs
  <2>2. /\ r.pc = "pools" /\ r.op = old.op /\ r.onu = old.onu /\ r.keep = None /\ r.copy = old.copy
        /\ r.alone = old.alone /\ r.sound = old.sound /\ r.pool = old.pool /\ r.found = old.found
        /\ r.want = old.want
    BY <1>0, <1>1 DEF Call
  <2> HIDE DEF r
  <2>3. Right(r)
    <3>1. Own(r)
      BY <1>0, <1>1, <2>2, OwnFacts DEF Right, Held
    <3> QED
      BY <1>0, <1>1, <2>2, <3>1 DEF Right, Placed, Adding, Releasing, Ops, PoolOps
  <2>4. Its(r, alloc) = T
    BY <2>2 DEF Its, T
  <2>5. Works(r, T)
    BY <1>1, <1>4, <2>2 DEF Works, Kept
  <2>6. Working(r, alloc, open)
    BY <2>4, <2>5 DEF Working
  <2>7. Held(r) \subseteq Known
    BY <1>0, <1>1, <2>2 DEF Held
  <2> QED
    BY <1>0, <2>1, <2>2, <2>3, <2>6, <2>7, SameCopy, LocalStep
<1>5. ASSUME NEW k \in mine,
             call' = [call EXCEPT ![c].keep = k,
                        ![c].pc = IF call[c].op = "assignMgmt" THEN "save" ELSE "pools"]
      PROVE  BooksInv'
  <2> DEFINE next == IF old.op = "assignMgmt" THEN "save" ELSE "pools"
             r == [old EXCEPT !.keep = k, !.pc = next]
  <2>0. k \in Alloc /\ k # None /\ k \in alloc
    BY <1>0, <1>5, NoneAssumption DEF mine
  <2>10. next \in Pcs
    BY DEF Pcs
  <2>11. r \in Call
    BY <1>0, <2>0, <2>10 DEF Call
  <2>12. call' = [call EXCEPT ![c] = r]
    BY <1>0, <1>5
  <2>1. r \in Call /\ call' = [call EXCEPT ![c] = r]
    BY <2>11, <2>12
  <2>2. /\ r.pc = next /\ r.op = old.op /\ r.onu = old.onu /\ r.keep = k /\ r.copy = old.copy
        /\ r.alone = old.alone /\ r.sound = old.sound /\ r.pool = old.pool /\ r.found = old.found
        /\ r.want = old.want
    BY <1>0, <1>1 DEF Call
  <2> HIDE DEF r
  <2>3. Right(r)
    <3>1. Held(r) \subseteq Held(old) \union T
      BY <1>1, <1>5, <2>2 DEF Held
    <3>2. Own(r)
      BY <1>0, <2>2, <3>1, OwnFacts DEF Right, T
    <3> QED
      BY <1>0, <1>1, <2>0, <2>2, <3>2 DEF Right, Placed, Adding, Releasing, Ops, PoolOps
  <2>4. Its(r, alloc) = T
    BY <2>2 DEF Its, T
  <2>5. Undisturbed(r, open) => Works(r, T)
    <3>1. mine = {k}
      BY <1>3, <1>5
    <3>2. Undisturbed(r, open) => Undisturbed(old, open)
      BY <2>2 DEF Undisturbed
    <3>3. old.op = "assignMgmt" /\ Undisturbed(r, open) => T = {k}
      BY <1>1, <1>2, <1>5, <3>2
    <3> QED
      BY <1>1, <2>0, <2>2, <3>1, <3>3 DEF Works, Kept
  <2>6. Working(r, alloc, open)
    BY <2>4, <2>5 DEF Working
  <2>7. Held(r) \subseteq Known
    BY <1>0, <2>0, <2>2 DEF Held, Known
  <2> QED
    BY <1>0, <2>1, <2>2, <2>3, <2>6, <2>7, SameCopy, LocalStep
<1> QED
  BY <1>4, <1>5 DEF FindKeep, mine

LEMMA ListPoolsBooks == ASSUME BooksInv, PoolsRight, NEW c \in Calls, ListPools(c) PROVE BooksInv'
<1> DEFINE old == call[c]
           T == Its(old, alloc)
           listed == {p \in Pools : hosts[p] > 0 /\ Purpose[p] = Keeps(old.op)}
           r == [old EXCEPT !.pools = listed, !.pc = "others"]
<1>0. /\ old \in Call /\ Right(old) /\ Held(old) \subseteq Known
      /\ Copied(old, row, open) /\ Working(old, alloc, open) /\ old.pc = "pools"
      /\ alloc \subseteq Alloc
      /\ hosts \in [Pools -> 0 .. MaxHosts] /\ requests \in 0 .. MaxRequests
      /\ faults \in 0 .. MaxFaults
      /\ UNCHANGED <<hosts, row, alloc, open, requests, faults>>
  BY BusyFacts DEF ListPools
<1>1. /\ old.op \in Ops /\ old.op # "adoptWan"
      /\ old.op \in Adding \union Releasing \union {"changeMgmt"}
      /\ old.op = "assignMgmt" => old.keep = None
  BY <1>0 DEF Right, Placed, Adding, Releasing, Ops
<1>2. \A a \in T : a.pool \in listed
  <2>1. ASSUME NEW a \in T PROVE a.pool \in Pools /\ hosts[a.pool] > 0
    <3>1. a \in alloc /\ a.pool \in Pools
      BY <1>0 DEF Its, Alloc
    <3>2. hosts[a.pool] # 0 /\ hosts[a.pool] \in 0 .. MaxHosts
      BY <1>0, <3>1 DEF PoolsRight
    <3>3. hosts[a.pool] > 0
      BY <3>2, BoundsAssumption
    <3> QED
      BY <3>1, <3>3
  <2> QED
    BY <2>1 DEF Its
<1>3. listed \in SUBSET Pools
  OBVIOUS
<1>4. call' = [call EXCEPT ![c] = r]
  BY <1>0 DEF ListPools, Call
<1> HIDE DEF listed
<1>5. r \in Call
  BY <1>0, <1>3 DEF Call, Pcs
<1>6. /\ r.pc = "others" /\ r.op = old.op /\ r.onu = old.onu /\ r.keep = old.keep
      /\ r.copy = old.copy /\ r.alone = old.alone /\ r.sound = old.sound /\ r.pool = old.pool
      /\ r.found = old.found /\ r.want = old.want /\ r.pools = listed
  BY <1>0 DEF Call
<1> HIDE DEF r
<1>7. Right(r)
  <2>1. Own(r)
    BY <1>0, <1>6, OwnFacts DEF Right, Held
  <2> QED
    BY <1>0, <1>1, <1>6, <2>1 DEF Right, Placed, Adding, Releasing, Ops, PoolOps
<1>8. Its(r, alloc) = T /\ (Undisturbed(r, open) => Undisturbed(old, open)) /\ Kept(r) = Kept(old)
  BY <1>6 DEF Its, Undisturbed, Kept
<1> HIDE DEF T
<1>9. Works(old, T) => Works(r, T)
  BY <1>0, <1>1, <1>2, <1>6, <1>8 DEF Works
<1>10. Working(r, alloc, open)
  BY <1>0, <1>1, <1>8, <1>9 DEF Working, T
<1>11. Held(r) \subseteq Known
  BY <1>0, <1>6 DEF Held
<1> QED
  BY <1>0, <1>4, <1>5, <1>6, <1>7, <1>10, <1>11, SameCopy, LocalStep

LEMMA FindOthersBooks == ASSUME BooksInv, NEW c \in Calls, FindOthers(c) PROVE BooksInv'
<1> DEFINE old == call[c]
           T == Its(old, alloc)
           r == [old EXCEPT !.found = Superfluous(c), !.pc = "drop"]
<1>0. /\ old \in Call /\ Right(old) /\ Held(old) \subseteq Known
      /\ Copied(old, row, open) /\ Working(old, alloc, open) /\ old.pc = "others"
      /\ alloc \subseteq Alloc /\ Unique(alloc)
      /\ hosts \in [Pools -> 0 .. MaxHosts] /\ requests \in 0 .. MaxRequests
      /\ faults \in 0 .. MaxFaults
      /\ UNCHANGED <<hosts, row, alloc, open, requests, faults>>
  BY BusyFacts DEF FindOthers
<1>1. /\ old.op \in Adding \union Releasing \union {"changeMgmt"} /\ old.op \in Ops
      /\ old.op \in Releasing \union {"assignMgmt", "changeMgmt"} => old.keep = None
  BY <1>0 DEF Right, Placed, Adding, Releasing, Ops
<1>2. Of(old.onu, Keeps(old.op)) = T
  BY DEF Of, Its
<1>3. Superfluous(c) \subseteq T
  BY <1>2 DEF Superfluous
<1>4. T \subseteq alloc
  BY DEF Its
<1>5. r \in Call /\ call' = [call EXCEPT ![c] = r]
  <2>1. Superfluous(c) \subseteq Alloc
    BY <1>0, <1>3, <1>4
  <2> QED
    BY <1>0, <2>1 DEF FindOthers, Call, Pcs
<1>6. /\ r.pc = "drop" /\ r.op = old.op /\ r.onu = old.onu /\ r.keep = old.keep /\ r.copy = old.copy
      /\ r.alone = old.alone /\ r.sound = old.sound /\ r.pool = old.pool
      /\ r.found = Superfluous(c) /\ r.want = old.want
  BY <1>0 DEF Call
<1> HIDE DEF r
<1>7. Right(r)
  <2>1. Own(r)
    BY <1>0, <1>3, <1>6, OwnFacts DEF Right, Held
  <2> QED
    BY <1>0, <1>1, <1>6, <2>1 DEF Right, Placed, Adding, Releasing, Ops, PoolOps
<1>8. Its(r, alloc) = T
  BY <1>6 DEF Its
<1>9. ASSUME Undisturbed(r, open)
      PROVE  T = Superfluous(c) \union Kept(r) /\ Superfluous(c) \intersect Kept(r) = {}
  <2>1. Works(old, T)
    BY <1>0, <1>1, <1>6, <1>9 DEF Undisturbed, Working
  <2>2. Kept(r) = Kept(old)
    BY <1>6 DEF Kept
  <2> HIDE DEF T
  <2>6. old.op # "adoptWan" => \A a \in T : a.pool \in old.pools
    BY <1>0, <2>1 DEF Works
  <2>3. CASE old.op \in Releasing \union {"assignMgmt", "changeMgmt"}
    <3>1. Superfluous(c) = T
      BY <1>2, <2>3, <2>6 DEF Superfluous, Releasing
    <3> QED
      BY <1>1, <2>2, <2>3, <3>1 DEF Kept
  <2>4. CASE old.op = "adoptWan"
    <3>1. Superfluous(c) = {a \in T : a.pool = old.pool /\ a.ip # old.want}
      BY <1>2, <2>4 DEF Superfluous
    <3>2. Kept(old) = {a \in T : a.ip = old.want} /\ \A a \in T : a.pool = old.pool
      BY <1>0, <2>1, <2>4 DEF Works
    <3> QED
      BY <2>2, <3>1, <3>2
  <2>5. CASE old.op = "assignWan"
    <3>1. Kept(old) = {a \in T : a.pool = old.pool}
      BY <1>0, <2>1, <2>5 DEF Works
    <3>2. Superfluous(c) = {a \in T : IF old.keep = None THEN a.pool # old.pool
                                      ELSE a.id # old.keep.id}
      BY <1>2, <2>5, <2>6 DEF Superfluous
    <3>3. CASE old.keep = None
      BY <2>2, <3>1, <3>2, <3>3 DEF Kept
    <3>4. CASE old.keep # None
      <4>1. Kept(old) = {old.keep} /\ old.keep \in T
        BY <3>1, <3>4 DEF Kept
      <4>2. \A a \in T : a.id = old.keep.id => a = old.keep
        BY <1>4, <4>1, BusyFacts DEF Known
      <4>3. Superfluous(c) = {a \in T : a # old.keep}
        BY <3>2, <3>4, <4>2
      <4> QED
        BY <2>2, <4>1, <4>3
    <3> QED
      BY <3>3, <3>4
  <2> QED
    BY <1>1, <2>3, <2>4, <2>5 DEF Adding
<1>10. Working(r, alloc, open)
  BY <1>6, <1>8, <1>9 DEF Working, Works
<1>11. Held(r) \subseteq Known
  BY <1>0, <1>3, <1>4, <1>6 DEF Held, Known
<1> QED
  BY <1>0, <1>5, <1>6, <1>7, <1>10, <1>11, SameCopy, LocalStep

LEMMA DroppedBooks == ASSUME BooksInv, NEW c \in Calls, Dropped(c) PROVE BooksInv'
<1> DEFINE old == call[c]
           T == Its(old, alloc)
           next == AfterDrop(c)
           r == [old EXCEPT !.pc = next]
<1>0. /\ old \in Call /\ Right(old) /\ Held(old) \subseteq Known
      /\ Copied(old, row, open) /\ Working(old, alloc, open) /\ old.pc = "drop"
      /\ alloc \subseteq Alloc /\ Unique(alloc)
      /\ hosts \in [Pools -> 0 .. MaxHosts] /\ requests \in 0 .. MaxRequests
      /\ faults \in 0 .. MaxFaults
      /\ UNCHANGED <<hosts, row, alloc, open, requests, faults>> /\ old.found = {}
  BY BusyFacts DEF Dropped
<1>1. /\ old.op \in Adding \union Releasing \union {"changeMgmt"} /\ old.op \in Ops
      /\ old.op \in Releasing \union {"assignMgmt", "changeMgmt"} => old.keep = None
  BY <1>0 DEF Right, Placed, Adding, Releasing, Ops
<1>2. /\ old.op \in Releasing => next = "save"
      /\ old.op = "assignMgmt" => next = "choose"
      /\ old.op = "changeMgmt" => next = "find"
      /\ old.op = "adoptWan" => next = IF old.keep = None THEN "wanted" ELSE "save"
      /\ old.op = "assignWan" => next = IF old.want > 0 THEN "taken"
                                        ELSE IF old.keep = None THEN "choose" ELSE "save"
  BY DEF AfterDrop, Releasing
<1> HIDE DEF next
<1>3. next \in {"save", "choose", "find", "wanted", "taken"}
  BY <1>1, <1>2 DEF Adding
<1>4. r \in Call /\ call' = [call EXCEPT ![c] = r]
  BY <1>0, <1>3 DEF Dropped, Goto, Call, Pcs, next
<1>5. /\ r.pc = next /\ r.op = old.op /\ r.onu = old.onu /\ r.keep = old.keep /\ r.copy = old.copy
      /\ r.alone = old.alone /\ r.sound = old.sound /\ r.pool = old.pool
      /\ r.found = {} /\ r.want = old.want /\ old.want \in 0 .. MaxHosts
  BY <1>0 DEF Call
<1> HIDE DEF r
<1>6. Right(r)
  <2>0. Own(r)
    BY <1>0, <1>5, OwnFacts DEF Right, Held
  <2>1. CASE old.op \in Releasing
    BY <1>0, <1>1, <1>2, <1>5, <2>0, <2>1 DEF Right, Placed, Adding, Releasing, Ops, PoolOps
  <2>2. CASE old.op = "assignMgmt"
    BY <1>0, <1>1, <1>2, <1>5, <2>0, <2>2 DEF Right, Placed, Adding, Releasing, Ops, PoolOps
  <2>5. CASE old.op = "changeMgmt"
    BY <1>0, <1>1, <1>2, <1>5, <2>0, <2>5 DEF Right, Placed, Adding, Releasing, Ops, PoolOps
  <2>3. CASE old.op = "adoptWan"
    BY <1>0, <1>1, <1>2, <1>5, <2>0, <2>3 DEF Right, Placed, Adding, Releasing, Ops, PoolOps
  <2>4. CASE old.op = "assignWan"
    <3>1. old.want > 0 => old.want # 0
      BY <1>5
    <3> QED
      BY <1>0, <1>1, <1>2, <1>5, <2>0, <2>4, <3>1 DEF Right, Placed, Adding, Releasing, Ops, PoolOps
  <2> QED
    BY <1>1, <2>1, <2>2, <2>3, <2>4, <2>5 DEF Adding
<1>7. Its(r, alloc) = T
  BY <1>5 DEF Its
<1>8. ASSUME Undisturbed(r, open) PROVE Works(r, T)
  <2>1. T = Kept(old)
    BY <1>0, <1>1, <1>5, <1>8 DEF Undisturbed, Working, Works
  <2>2. Kept(r) = Kept(old) /\ (old.keep = None => Kept(old) = {})
    BY <1>5 DEF Kept
  <2>3. next \in {"choose", "find", "wanted"} => old.keep = None
    BY <1>1, <1>2 DEF Adding
  <2>4. next = "taken" => old.op = "assignWan"
    BY <1>1, <1>2 DEF Adding
  <2> QED
    BY <1>3, <1>5, <2>1, <2>2, <2>3, <2>4 DEF Works
<1>9. Working(r, alloc, open)
  BY <1>7, <1>8 DEF Working
<1>10. Held(r) \subseteq Known
  BY <1>0, <1>5 DEF Held
<1>11. r.pc # "idle"
  BY <1>3, <1>5
<1> QED
  BY <1>0, <1>4, <1>5, <1>6, <1>9, <1>10, SameCopy, LocalStep

LEMMA FindPoolBooks == ASSUME BooksInv, NEW c \in Calls, FindPool(c) PROVE BooksInv'
<1> DEFINE old == call[c]
           T == Its(old, alloc)
           p == old.pool
           size == hosts[p]
           r == [old EXCEPT !.op = "assignMgmt", !.size = size, !.pc = "keep"]
<1>0. /\ old \in Call /\ Right(old) /\ Held(old) \subseteq Known
      /\ Copied(old, row, open) /\ Working(old, alloc, open) /\ old.pc = "find"
      /\ hosts \in [Pools -> 0 .. MaxHosts] /\ requests \in 0 .. MaxRequests
      /\ faults \in 0 .. MaxFaults
      /\ UNCHANGED <<hosts, row, alloc, open, requests, faults>>
  BY BusyFacts DEF FindPool
<1>1. /\ old.op = "changeMgmt" /\ old.op \in Ops /\ old.keep = None
      /\ old.onu \in Onus /\ old.copy \in Row
      /\ p # None => p \in Pools /\ Purpose[p] = "management"
  BY <1>0 DEF Right, Placed, Ops, Call
<1>2. CASE p # None /\ call' = [call EXCEPT ![c].op = "assignMgmt", ![c].size = hosts[call[c].pool],
                                            ![c].pc = "keep"]
  <2>1. size \in 0 .. MaxHosts
    BY <1>0, <1>1, <1>2
  <2>2. call' = [call EXCEPT ![c] = r]
    BY <1>0, <1>2 DEF Call
  <2> HIDE DEF size
  <2>3. r \in Call
    BY <1>0, <2>1 DEF Call, Pcs, Ops
  <2>4. /\ r.pc = "keep" /\ r.op = "assignMgmt" /\ r.onu = old.onu /\ r.keep = None
        /\ r.copy = old.copy /\ r.alone = old.alone /\ r.sound = old.sound /\ r.pool = p
        /\ r.found = old.found
    BY <1>0, <1>1 DEF Call
  <2> HIDE DEF r, p
  <2>5. Keeps(r.op) = "management" /\ Keeps(old.op) = "management" /\ r.op \in Ops
    BY <1>1, <2>4 DEF Keeps, Ops
  <2>6. Held(r) = Held(old) /\ Its(r, alloc) = T
    BY <1>1, <2>4, <2>5 DEF Held, Its
  <2>7. Right(r)
    <3>1. Own(r)
      BY <1>0, <1>1, <2>4, <2>5, <2>6 DEF Right, Own
    <3> QED
      BY <1>1, <1>2, <2>4, <2>5, <3>1 DEF Right, Placed, Adding, Releasing, Ops, PoolOps
  <2>8. Undisturbed(r, open) => Undisturbed(old, open)
    BY <2>4, <2>5 DEF Undisturbed, Settles
  <2>9. Works(old, T) => Works(r, T)
    BY <1>0, <2>4 DEF Works
  <2>10. Working(r, alloc, open)
    <3> HIDE DEF T
    <3> QED
      BY <1>0, <1>1, <2>6, <2>8, <2>9 DEF Working, T
  <2>11. Copied(r, row, open)
    BY <1>0, <1>1, <2>4, <2>5 DEF Copied
  <2> QED
    BY <1>0, <2>2, <2>3, <2>4, <2>6, <2>7, <2>10, <2>11, LocalStep
<1>3. CASE Ends(c)
  BY <1>0, <1>3, EndsStep
<1> QED
  BY <1>2, <1>3 DEF FindPool

\* A call goes on at another place, having found something.
LEMMA GoesOn ==
    ASSUME BooksInv, NEW c \in Calls, call[c].pc \notin {"idle", "reload"}, call[c].op \in Ops,
           NEW pc \in Pcs \ {"idle"}, NEW keep \in Alloc \union {None}, NEW found \in SUBSET Alloc,
           call' = [call EXCEPT ![c] = [call[c] EXCEPT !.pc = pc, !.keep = keep, !.found = found]],
           UNCHANGED <<hosts, row, alloc, open, requests, faults>>,
           Right([call[c] EXCEPT !.pc = pc, !.keep = keep, !.found = found]),
           keep \in Known \union {None}, found \subseteq Known,
           Works(call[c], Its(call[c], alloc)) =>
               Works([call[c] EXCEPT !.pc = pc, !.keep = keep, !.found = found],
                     Its(call[c], alloc))
    PROVE  BooksInv'
<1> DEFINE old == call[c]
           r == [old EXCEPT !.pc = pc, !.keep = keep, !.found = found]
<1>0. /\ old \in Call /\ Copied(old, row, open) /\ Working(old, alloc, open)
      /\ hosts \in [Pools -> 0 .. MaxHosts] /\ requests \in 0 .. MaxRequests
      /\ faults \in 0 .. MaxFaults
  BY BusyFacts
<1>1. r \in Call
  BY <1>0 DEF Call
<1>2. /\ r.op = old.op /\ r.onu = old.onu /\ r.copy = old.copy /\ r.alone = old.alone
      /\ r.sound = old.sound /\ r.keep = keep /\ r.found = found
  BY <1>0 DEF Call
<1>3. call' = [call EXCEPT ![c] = r] /\ Right(r)
  OBVIOUS
<1>4. Works(old, Its(old, alloc)) => Works(r, Its(old, alloc))
  OBVIOUS
<1> HIDE DEF r
<1>5. Its(r, alloc) = Its(old, alloc) /\ (Undisturbed(r, open) => Undisturbed(old, open))
  BY <1>2 DEF Its, Undisturbed
<1>6. Working(r, alloc, open)
  BY <1>0, <1>4, <1>5 DEF Working
<1>7. Held(r) \subseteq Known
  BY <1>2 DEF Held
<1> QED
  BY <1>0, <1>1, <1>2, <1>3, <1>6, <1>7, SameCopy, LocalStep

LEMMA FindTakenBooks == ASSUME BooksInv, NEW c \in Calls, FindTaken(c) PROVE BooksInv'
<1> DEFINE old == call[c]
           T == Its(old, alloc)
           other == \E a \in alloc : a.pool = call[c].pool /\ a.ip = call[c].want
                                     /\ a.onu # call[c].onu
           mine == {a \in alloc : a.pool = call[c].pool /\ a.ip = call[c].want
                                  /\ a.onu = call[c].onu}
           become(pc, keep, found) == [old EXCEPT !.pc = pc, !.keep = keep, !.found = found]
<1>0. /\ old \in Call /\ Right(old) /\ Held(old) \subseteq Known
      /\ Copied(old, row, open) /\ Working(old, alloc, open) /\ old.pc = "taken"
      /\ alloc \subseteq Alloc /\ Unique(alloc)
      /\ hosts \in [Pools -> 0 .. MaxHosts] /\ requests \in 0 .. MaxRequests
      /\ faults \in 0 .. MaxFaults
      /\ UNCHANGED <<hosts, row, alloc, open, requests, faults>>
  BY BusyFacts DEF FindTaken
<1>1. /\ old.op \in {"assignWan", "adoptWan"} /\ old.op \in Ops /\ old.want # 0 /\ old.onu \in Onus
      /\ old.copy \in Row /\ old.pool \in Pools /\ Purpose[old.pool] = Keeps(old.op)
  BY <1>0 DEF Right, Placed, Adding, Ops
<1>2. old.keep \in Alloc \union {None} /\ old.keep \in Known \union {None} /\ old.found \subseteq Known
      /\ old.found \in SUBSET Alloc
  BY <1>0 DEF Held, Call
<1>13. {old.keep} \ {None} \subseteq Held(old) /\ old.found \subseteq Held(old)
  BY DEF Held
<1>3. /\ mine \subseteq Known /\ mine \subseteq T /\ mine \subseteq Alloc /\ mine \in SUBSET Alloc /\ None \notin mine
      /\ \A a, b \in mine : a = b
      /\ mine = {a \in T : a.pool = old.pool /\ a.ip = old.want}
  BY <1>0, <1>1, NoneAssumption DEF Known, Unique, Its
<1>4. ASSUME NEW pc \in {"others", "choose", "save", "wanted", "unkeep"},
             NEW keep \in Alloc \union {None}, NEW found \in SUBSET Alloc
      PROVE  /\ become(pc, keep, found).pc = pc /\ become(pc, keep, found).keep = keep
             /\ become(pc, keep, found).found = found /\ become(pc, keep, found).op = old.op
             /\ become(pc, keep, found).onu = old.onu /\ become(pc, keep, found).copy = old.copy
             /\ become(pc, keep, found).pool = old.pool /\ become(pc, keep, found).want = old.want
  BY <1>0 DEF Call
<1> HIDE DEF become
<1>5. ASSUME NEW pc \in {"others", "choose", "save", "wanted", "unkeep"},
             NEW keep \in Alloc \union {None}, NEW found \in SUBSET Alloc,
             pc = "others" => old.op = "adoptWan",
             pc \in {"choose", "save", "wanted", "unkeep"} => old.op = "assignWan",
             pc \in {"save", "unkeep"} => keep # None,
             {keep} \ {None} \subseteq Held(old) \union T, found \subseteq Held(old) \union T
      PROVE  Right(become(pc, keep, found))
  <2>1. Held(become(pc, keep, found)) \subseteq Held(old) \union T
    BY <1>4, <1>5 DEF Held
  <2>2. Own(become(pc, keep, found))
    BY <1>0, <1>4, <2>1, OwnFacts DEF Right
  <2> QED
    BY <1>0, <1>1, <1>4, <1>5, <2>2 DEF Right, Placed, Adding, Releasing, Ops, PoolOps
<1>6. ASSUME old.op = "adoptWan", NEW k \in {None} \union mine, k = None <=> mine = {},
             call' = [call EXCEPT ![c].pc = "others", ![c].keep = k]
      PROVE  BooksInv'
  <2>0. k \in Alloc \union {None} /\ k \in Known \union {None} /\ "others" \in Pcs \ {"idle"}
    BY <1>3, <1>6 DEF Pcs
  <2>1. call' = [call EXCEPT ![c] = become("others", k, old.found)]
    <3>1. [old EXCEPT !.pc = "others", !.keep = k]
            = [old EXCEPT !.pc = "others", !.keep = k, !.found = old.found]
      BY <1>0 DEF Call
    <3> QED
      BY <1>6, <3>1 DEF become
  <2>2. Right(become("others", k, old.found))
    <3>1. {k} \ {None} \subseteq T /\ old.found \subseteq Held(old)
      BY <1>3, <1>6 DEF Held
    <3> QED
      BY <1>2, <1>5, <1>6, <2>0, <3>1
  <2>3. Works(old, T) => Works(become("others", k, old.found), T)
    <3> SUFFICES ASSUME Works(old, T) PROVE Works(become("others", k, old.found), T)
      OBVIOUS
    <3>1. \A a \in T : a.pool = old.pool
      BY <1>0, <1>6 DEF Works
    <3>2. mine = {k} \ {None}
      BY <1>3, <1>6
    <3>3. mine = {a \in T : a.ip = old.want}
      BY <1>3, <3>1
    <3> HIDE DEF mine, T
    <3> QED
      BY <1>2, <1>4, <1>6, <2>0, <3>1, <3>2, <3>3 DEF Works, Kept
  <2> QED
    BY <1>0, <1>1, <1>2, <2>0, <2>1, <2>2, <2>3, GoesOn DEF become
<1>7. ASSUME old.op = "assignWan", NEW pc \in {"choose", "save", "wanted", "unkeep"},
             NEW keep \in Alloc \union {None}, NEW found \in SUBSET Alloc,
             keep \in Known \union {None}, found \subseteq Known,
             {keep} \ {None} \subseteq Held(old) \union T, found \subseteq Held(old) \union T,
             call' = [call EXCEPT ![c] = become(pc, keep, found)],
             pc \in {"save", "unkeep"} => keep # None,
             T = Kept(old) => /\ pc \in {"save", "unkeep"} => T = {keep}
                              /\ pc \in {"choose", "wanted"} => T = {}
                              /\ pc = "unkeep" => found = {}
      PROVE  BooksInv'
  <2>1. Right(become(pc, keep, found))
    BY <1>5, <1>7
  <2>2. pc \in Pcs \ {"idle"}
    BY <1>7 DEF Pcs
  <2>3. Works(old, T) => Works(become(pc, keep, found), T)
    <3> SUFFICES ASSUME Works(old, T) PROVE Works(become(pc, keep, found), T)
      OBVIOUS
    <3>1. T = Kept(old)
      BY <1>0, <1>7 DEF Works
    <3>2. keep # None => {keep} = {keep} \ {None}
      OBVIOUS
    <3> HIDE DEF T
    <3> QED
      BY <1>4, <1>7, <3>1, <3>2 DEF Works, Kept
  <2> QED
    BY <1>0, <1>1, <1>7, <2>1, <2>2, <2>3, GoesOn DEF become
<1>8. CASE old.op = "assignWan" /\ other /\ Goto(c, IF old.keep = None THEN "choose" ELSE "save")
  <2> DEFINE next == IF old.keep = None THEN "choose" ELSE "save"
  <2>1. call' = [call EXCEPT ![c] = become(next, old.keep, old.found)]
    <3>1. [old EXCEPT !.pc = next]
            = [old EXCEPT !.pc = next, !.keep = old.keep, !.found = old.found]
      BY <1>0 DEF Call
    <3>2. call' = [call EXCEPT ![c] = [old EXCEPT !.pc = next]]
      BY <1>8 DEF Goto
    <3> QED
      BY <3>1, <3>2 DEF become
  <2>2. T = Kept(old) => /\ next = "save" => T = {old.keep}
                         /\ next = "choose" => T = {}
    BY DEF Kept
  <2> HIDE DEF T
  <2>3. next = "save" => old.keep # None
    OBVIOUS
  <2>4. next \in {"choose", "save"}
    OBVIOUS
  <2> HIDE DEF next
  <2> QED
    BY <1>2, <1>7, <1>8, <1>13, <2>1, <2>2, <2>3, <2>4
<1>9. ASSUME old.op = "assignWan", ~other, old.keep = None, NEW k \in {None} \union mine,
             k = None <=> mine = {},
             call' = [call EXCEPT ![c].keep = k, ![c].pc = IF k = None THEN "wanted" ELSE "save"]
      PROVE  BooksInv'
  <2> DEFINE next == IF k = None THEN "wanted" ELSE "save"
  <2>1. call' = [call EXCEPT ![c] = become(next, k, old.found)]
    <3>1. [old EXCEPT !.keep = k, !.pc = next]
            = [old EXCEPT !.pc = next, !.keep = k, !.found = old.found]
      BY <1>0 DEF Call
    <3>2. call' = [call EXCEPT ![c] = [old EXCEPT !.keep = k, !.pc = next]]
      BY <1>9
    <3> QED
      BY <3>1, <3>2 DEF become
  <2>2. k \in Alloc \union {None} /\ k \in Known \union {None} /\ {k} \ {None} \subseteq T
    BY <1>3, <1>9
  <2>3. T = Kept(old) => T = {} /\ mine = {}
    BY <1>3, <1>9 DEF Kept
  <2>4. k # None => mine # {}
    BY <1>9
  <2> HIDE DEF T, mine
  <2>5. /\ next \in {"wanted", "save"} /\ (next = "save" => k # None)
        /\ next = "wanted" => k = None
    OBVIOUS
  <2> HIDE DEF next
  <2>6. T = Kept(old) => T = {} /\ next = "wanted"
    BY <2>3, <2>4, <2>5
  <2>7. {k} \ {None} \subseteq Held(old) \union T /\ old.found \subseteq Held(old) \union T
    BY <1>13, <2>2
  <2>8. next \in {"choose", "save", "wanted", "unkeep"} /\ (next \in {"save", "unkeep"} => k # None)
    BY <2>5
  <2> QED
    BY <1>2, <1>7, <1>9, <2>1, <2>2, <2>6, <2>7, <2>8
<1>10. CASE old.op = "assignWan" /\ ~other /\ old.keep # None /\ old.keep.ip = old.want /\ Goto(c, "save")
  <2>1. call' = [call EXCEPT ![c] = become("save", old.keep, old.found)]
    <3>1. [old EXCEPT !.pc = "save"]
            = [old EXCEPT !.pc = "save", !.keep = old.keep, !.found = old.found]
      BY <1>0 DEF Call
    <3> QED
      BY <1>10, <3>1 DEF become, Goto
  <2>2. T = Kept(old) => T = {old.keep}
    BY <1>10 DEF Kept
  <2> HIDE DEF T
  <2> QED
    BY <1>2, <1>7, <1>10, <1>13, <2>1, <2>2
<1>11. CASE /\ old.op = "assignWan" /\ ~other /\ old.keep # None /\ old.keep.ip # old.want
            /\ call' = [call EXCEPT ![c].pc = "unkeep", ![c].found = mine]
  <2>1. call' = [call EXCEPT ![c] = become("unkeep", old.keep, mine)]
    <3>1. [old EXCEPT !.pc = "unkeep", !.found = mine]
            = [old EXCEPT !.pc = "unkeep", !.keep = old.keep, !.found = mine]
      BY <1>0 DEF Call
    <3>2. call' = [call EXCEPT ![c] = [old EXCEPT !.pc = "unkeep", !.found = mine]]
      BY <1>11
    <3> QED
      BY <3>1, <3>2 DEF become
  <2>2. T = Kept(old) => T = {old.keep} /\ mine = {}
    BY <1>3, <1>11 DEF Kept
  <2> HIDE DEF T, mine
  <2> QED
    BY <1>2, <1>3, <1>7, <1>11, <1>13, <2>1, <2>2
<1>12. CASE old.op = "adoptWan" /\ Ends(c)
  BY <1>0, <1>12, EndsStep
<1> QED
  BY <1>0, <1>6, <1>8, <1>9, <1>10, <1>11, <1>12 DEF FindTaken

LEMMA LowestFacts ==
    ASSUME NEW n \in Nat, NEW S \in SUBSET (1 .. n), S # {}
    PROVE  Lowest(S) \in S
<1> DEFINE R == {p \in Nat \X Nat : p[1] < p[2]}
<1>0. S \in SUBSET Nat /\ \A i \in S : i \in Nat
  OBVIOUS
<1>1. IsWellFoundedOn(R, Nat)
  BY NatLessThanWellFounded DEF OpToRel
<1>2. PICK i \in S : \A j \in S : <<j, i>> \notin R
  <2> HIDE DEF R
  <2> QED
    BY <1>0, <1>1, WFMin
<1>3. \A j \in S : i <= j
  <2> TAKE j \in S
  <2>1. <<j, i>> \in Nat \X Nat /\ ~(j < i)
    BY <1>0, <1>2
  <2> QED
    BY <2>1
<1> QED
  BY <1>3 DEF Lowest

\* allocateLowestFreeIp between its choice and its insert, and back.
LEMMA TriesStep ==
    ASSUME BooksInv, NEW c \in Calls, NEW r \in Call,
           call[c].pc \in {"choose", "insert"}, r.pc \in {"choose", "insert"},
           r.pc = "insert" => r.want # 0,
           r.op = call[c].op, r.onu = call[c].onu, r.pool = call[c].pool, r.copy = call[c].copy,
           r.keep = call[c].keep, r.found = call[c].found, r.alone = call[c].alone,
           r.sound = call[c].sound,
           call' = [call EXCEPT ![c] = r],
           UNCHANGED <<hosts, row, alloc, open, requests, faults>>
    PROVE  BooksInv'
<1> DEFINE old == call[c]
<1>0. /\ old \in Call /\ Right(old) /\ Held(old) \subseteq Known
      /\ Copied(old, row, open) /\ Working(old, alloc, open)
      /\ hosts \in [Pools -> 0 .. MaxHosts] /\ requests \in 0 .. MaxRequests
      /\ faults \in 0 .. MaxFaults
  BY BusyFacts
<1>1. old.op \in {"assignWan", "assignMgmt"} /\ old.op \in Ops
  BY <1>0 DEF Right, Placed, Ops
<1>2. Held(r) = Held(old) /\ Kept(r) = Kept(old)
  BY DEF Held, Kept
<1>3. Right(r)
  <2>1. Own(r)
    BY <1>0, <1>2, OwnFacts DEF Right
  <2> QED
    BY <1>0, <1>1, <2>1 DEF Right, Placed, Adding, Releasing, Ops, PoolOps
<1>4. Its(r, alloc) = Its(old, alloc) /\ (Undisturbed(r, open) => Undisturbed(old, open))
  BY DEF Its, Undisturbed
<1>5. Working(r, alloc, open)
  BY <1>0, <1>1, <1>4 DEF Working, Works
<1> QED
  BY <1>0, <1>2, <1>3, <1>5, SameCopy, LocalStep

LEMMA ChooseBooks == ASSUME BooksInv, NEW c \in Calls, Choose(c) PROVE BooksInv'
<1> DEFINE old == call[c]
           w == Lowest(Free(c))
           r == [old EXCEPT !.want = w, !.beaten = 0, !.pc = "insert"]
<1>0. /\ old \in Call /\ old.pc = "choose"
      /\ hosts \in [Pools -> 0 .. MaxHosts] /\ requests \in 0 .. MaxRequests
      /\ faults \in 0 .. MaxFaults
      /\ UNCHANGED <<hosts, row, alloc, open, requests, faults>>
  BY BusyFacts DEF Choose
<1>1. CASE Ends(c)
  BY <1>0, <1>1, EndsStep
<1>2. CASE /\ Free(c) # {}
           /\ call' = [call EXCEPT ![c].want = w, ![c].beaten = 0, ![c].pc = "insert"]
  <2>1. w \in 1 .. MaxHosts
    <3>1. old.size \in 0 .. MaxHosts
      BY <1>0 DEF Call
    <3>2. old.size \in Nat /\ Free(c) \in SUBSET (1 .. old.size)
      BY <3>1, BoundsAssumption DEF Free
    <3>3. w \in Free(c)
      BY <1>2, <3>2, LowestFacts
    <3>4. w \in 1 .. old.size
      BY <3>2, <3>3
    <3>5. \A n \in Nat : \A m \in 0 .. n : \A i \in 1 .. m : i \in 1 .. n
      OBVIOUS
    <3>6. MaxHosts \in Nat
      BY BoundsAssumption
    <3> HIDE DEF w, old
    <3> QED
      BY <3>1, <3>4, <3>5, <3>6
  <2> HIDE DEF w
  <2>2. r \in Call /\ call' = [call EXCEPT ![c] = r]
    <3>1. w \in 0 .. MaxHosts /\ "insert" \in Pcs
      BY <2>1, BoundsAssumption DEF Pcs
    <3> QED
      BY <1>0, <1>2, <3>1 DEF Call
  <2>3. /\ r.pc = "insert" /\ r.op = old.op /\ r.onu = old.onu /\ r.keep = old.keep
        /\ r.copy = old.copy /\ r.alone = old.alone /\ r.sound = old.sound
        /\ r.pool = old.pool /\ r.found = old.found /\ r.want = w
    BY <1>0 DEF Call
  <2>4. w # 0
    BY <2>1
  <2> HIDE DEF r
  <2> QED
    BY <1>0, <2>2, <2>3, <2>4, TriesStep
<1> QED
  BY <1>1, <1>2 DEF Choose

LEMMA ReloadBooks == ASSUME BooksInv, NEW c \in Calls, Reload(c) PROVE BooksInv'
<1> DEFINE old == call[c]
           copy == row[call[c].onu]
           r == [old EXCEPT !.copy = copy, !.pc = "again"]
<1>0. /\ old \in Call /\ old.pc = "reload" /\ Right(old) /\ Held(old) \subseteq Known
      /\ hosts \in [Pools -> 0 .. MaxHosts] /\ requests \in 0 .. MaxRequests
      /\ faults \in 0 .. MaxFaults
      /\ UNCHANGED <<hosts, row, alloc, open, requests, faults>>
  BY BusyFacts DEF Reload
<1>1. CASE Ends(c)
  BY <1>0, <1>1, EndsStep
<1>2. CASE Present(old.onu) /\ call' = [call EXCEPT ![c].copy = copy, ![c].pc = "again"]
  <2>1. old.op = "assignMgmt" /\ old.op \in Ops /\ old.onu \in Onus /\ copy \in Row
    BY <1>0, <1>2 DEF Right, Placed, Ops, Present
  <2> HIDE DEF copy
  <2>2. r \in Call /\ call' = [call EXCEPT ![c] = r]
    BY <1>0, <1>2, <2>1 DEF Call, Pcs
  <2>3. /\ r.pc = "again" /\ r.op = old.op /\ r.onu = old.onu /\ r.keep = old.keep
        /\ r.copy = copy /\ r.alone = old.alone /\ r.sound = old.sound
        /\ r.pool = old.pool /\ r.found = old.found
    BY <1>0 DEF Call
  <2> HIDE DEF r
  <2>4. Right(r)
    <3>1. Own(r)
      BY <1>0, <2>3, OwnFacts DEF Right, Held
    <3> QED
      BY <1>0, <2>1, <2>3, <3>1 DEF Right, Placed, Adding, Releasing, Ops, PoolOps
  <2>5. Copied(r, row, open)
    BY <2>1, <2>3 DEF Copied, copy
  <2>6. Working(r, alloc, open)
    BY <2>3 DEF Working, Works
  <2>7. Held(r) \subseteq Known
    BY <1>0, <2>3 DEF Held
  <2> QED
    BY <1>0, <2>2, <2>3, <2>4, <2>5, <2>6, <2>7, LocalStep
<1> QED
  BY <1>1, <1>2 DEF Reload

\* A call about a pool goes on at another place.
LEMMA PoolGoesOn ==
    ASSUME BooksInv, NEW c \in Calls, NEW from \in Pcs, NEW pc \in Pcs, call[c].pc = from,
           \/ from = "check" /\ pc = "resizeRow"
           \/ from = "count" /\ pc = "removeRow",
           Goto(c, pc), UNCHANGED <<hosts, row, alloc, open, requests, faults>>
    PROVE  BooksInv'
<1> DEFINE old == call[c]
           r == [old EXCEPT !.pc = pc]
<1>0. /\ old \in Call /\ Right(old) /\ Held(old) \subseteq Known
      /\ hosts \in [Pools -> 0 .. MaxHosts] /\ requests \in 0 .. MaxRequests
      /\ faults \in 0 .. MaxFaults
  BY BusyFacts
<1>1. r \in Call /\ call' = [call EXCEPT ![c] = r]
  BY <1>0 DEF Goto, Call
<1>2. /\ r.pc = pc /\ r.op = old.op /\ r.onu = old.onu /\ r.keep = old.keep /\ r.copy = old.copy
      /\ r.alone = old.alone /\ r.sound = old.sound /\ r.pool = old.pool
      /\ r.found = old.found /\ r.want = old.want /\ r.size = old.size
  BY <1>0 DEF Call
<1> HIDE DEF r
<1>3. old.op \in PoolOps /\ old.op \notin Ops
  BY <1>0 DEF Right, Placed, Ops, PoolOps
<1>4. Right(r)
  BY <1>0, <1>2, <1>3 DEF Right, Placed, Own, Adding, Releasing, Ops, PoolOps
<1>5. Copied(r, row, open) /\ Working(r, alloc, open)
  BY <1>2, <1>3 DEF Copied, Working
<1>6. Held(r) \subseteq Known
  BY <1>0, <1>2 DEF Held
<1>7. from # "idle"
  OBVIOUS
<1> QED
  BY <1>0, <1>1, <1>2, <1>4, <1>5, <1>6, <1>7, LocalStep

LEMMA CheckBooks ==
    ASSUME BooksInv, NEW c \in Calls, CheckRange(c) \/ CountAllocs(c) PROVE BooksInv'
<1>0. /\ hosts \in [Pools -> 0 .. MaxHosts] /\ requests \in 0 .. MaxRequests
      /\ faults \in 0 .. MaxFaults
      /\ UNCHANGED <<hosts, row, alloc, open, requests, faults>>
  BY BusyFacts DEF CheckRange, CountAllocs
<1>1. call[c].pc \in {"check", "count"}
  BY DEF CheckRange, CountAllocs
<1>2. CASE Ends(c)
  BY <1>0, <1>1, <1>2, EndsStep
<1>3. CASE call[c].pc = "check" /\ Goto(c, "resizeRow")
  <2>1. "check" \in Pcs /\ "resizeRow" \in Pcs
    BY DEF Pcs
  <2> QED
    BY <1>0, <1>3, <2>1, PoolGoesOn
<1>4. CASE call[c].pc = "count" /\ Goto(c, "removeRow")
  <2>1. "count" \in Pcs /\ "removeRow" \in Pcs
    BY DEF Pcs
  <2> QED
    BY <1>0, <1>4, <2>1, PoolGoesOn
<1> QED
  BY <1>2, <1>3, <1>4 DEF CheckRange, CountAllocs

LEMMA ResizeRowBooks == ASSUME BooksInv, NEW c \in Calls, ResizeRow(c) PROVE BooksInv'
<1>0. /\ call[c].pc = "resizeRow" /\ Ends(c) /\ UNCHANGED <<row, alloc, open, requests, faults>>
      /\ hosts' = [hosts EXCEPT ![call[c].pool] = call[c].size]
      /\ call[c] \in Call /\ requests \in 0 .. MaxRequests /\ faults \in 0 .. MaxFaults
      /\ hosts \in [Pools -> 0 .. MaxHosts]
  BY BusyFacts DEF ResizeRow
<1>1. call[c].size \in 0 .. MaxHosts
  BY <1>0 DEF Call
<1>2. hosts' \in [Pools -> 0 .. MaxHosts]
  BY <1>0, <1>1
<1> QED
  BY <1>0, <1>2, EndsStep

LEMMA ThrowBooks == ASSUME BooksInv, NEW c \in Calls, Throw(c) PROVE BooksInv'
<1>0. /\ call[c].pc # "idle" /\ Ends(c) /\ UNCHANGED <<hosts, row, alloc, open, requests>>
      /\ hosts \in [Pools -> 0 .. MaxHosts] /\ requests \in 0 .. MaxRequests
      /\ faults \in 0 .. MaxFaults /\ faults < MaxFaults /\ faults' = faults + 1
  BY BusyFacts DEF Throw
<1>1. faults' \in 0 .. MaxFaults
  BY <1>0, BoundsAssumption
<1> QED
  BY <1>0, <1>1, EndsStep

\* A call changes the allocations of its ONU for its purpose, and opens the books.
LEMMA TableStep ==
    ASSUME BooksInv, NEW c \in Calls, call[c].pc \notin {"idle", "reload"}, call[c].op \in Ops,
           NEW r \in Call, r.pc # "idle", r.op = call[c].op, r.onu = call[c].onu,
           r.copy = call[c].copy, r.alone = call[c].alone, r.sound = call[c].sound,
           call' \in [Calls -> Call], call'[c] = r,
           \A d \in Calls : d # c => Like(call'[d], call[d]),
           UNCHANGED <<hosts, row, requests, faults>>, Opens(c), alloc' \subseteq Alloc,
           \A a : a.onu # call[c].onu \/ Purpose[a.pool] # Keeps(call[c].op)
                    => (a \in alloc' <=> a \in alloc),
           \A a, b \in Known' : a.id = b.id => a = b,
           Unique(alloc'), \A a \in alloc' : Present(a.onu),
           Right(r),
           Works(call[c], Its(call[c], alloc)) => Works(r, Its(call[c], alloc'))
    PROVE  BooksInv'
<1> DEFINE old == call[c]
           u0 == Keeps(old.op)
<1>0. /\ TypeOK /\ Right(old) /\ Copied(old, row, open) /\ Working(old, alloc, open)
      /\ open' = open \union {<<old.onu, u0>>}
  BY BusyFacts DEF Opens
<1>1. old.onu \in Onus /\ u0 \in Purposes
  BY <1>0 DEF Right, Placed, Keeps, Purposes
<1>2. TypeOK'
  BY <1>0, <1>1 DEF TypeOK
<1>3. Copied(r, row', open')
  BY <1>0 DEF Copied
<1>4. Its(r, alloc') = Its(old, alloc')
  BY DEF Its
<1>5. Working(r, alloc', open')
  <2>1. Undisturbed(r, open') => Undisturbed(old, open)
    BY <1>0 DEF Undisturbed
  <2> QED
    BY <1>0, <1>4, <2>1 DEF Working
<1>6. ASSUME NEW u \in Purposes, <<old.onu, u>> \notin open' PROVE Agrees(old.onu, u, row', alloc')
  <2>1. u # u0 /\ <<old.onu, u>> \notin open
    BY <1>0, <1>6
  <2>2. {b \in alloc' : b.onu = old.onu /\ Purpose[b.pool] = u}
          = {b \in alloc : b.onu = old.onu /\ Purpose[b.pool] = u}
    BY <2>1
  <2> QED
    BY <1>1, <2>1, <2>2 DEF BooksInv, BooksAgree, Present, Of, Agrees
<1>7. \A a \in alloc' : row'[a.onu] \in Row
  BY DEF Present
<1>8. \A x \in Onus : x # old.onu =>
        /\ row'[x] = row[x]
        /\ \A a : a.onu = x => (a \in alloc' <=> a \in alloc)
        /\ \A u \in Purposes : <<x, u>> \in open' <=> <<x, u>> \in open
  BY <1>0
<1> QED
  BY <1>0, <1>2, <1>3, <1>5, <1>6, <1>7, <1>8, OwnStep

\* The allocations that a call holds, and what deleting one of them leaves.
LEMMA DeleteFacts ==
    ASSUME BooksInv, NEW c \in Calls, NEW a \in Held(call[c]), Delete(a)
    PROVE  alloc' = alloc \ {a}
<1>1. alloc \subseteq Known /\ a \in Known
  BY DEF Known
<1> QED
  BY <1>1, BusyFacts DEF Delete

LEMMA DropBooks == ASSUME BooksInv, NEW c \in Calls, Drop(c) PROVE BooksInv'
<1> DEFINE old == call[c]
<1>0. /\ old \in Call /\ Right(old) /\ Held(old) \subseteq Known /\ old.pc = "drop"
      /\ alloc \subseteq Alloc /\ Unique(alloc) /\ call \in [Calls -> Call]
      /\ \A a \in alloc : Present(a.onu)
      /\ UNCHANGED <<hosts, row, requests, faults>> /\ Opens(c)
  BY BusyFacts DEF Drop, BooksInv, Inv, TypeOK, TablesRight
<1>1. /\ old.op \in Adding \union Releasing \union {"changeMgmt"} /\ old.op \in Ops
      /\ old.op \in Releasing \union {"assignMgmt", "changeMgmt"} => old.keep = None
  BY <1>0 DEF Right, Placed, Adding, Releasing, Ops
<1>2. PICK a \in old.found : Delete(a) /\ call' = [call EXCEPT ![c].found = @ \ {a}]
  BY DEF Drop
<1> DEFINE left == old.found \ {a}
           r == [old EXCEPT !.found = left]
<1>3. alloc' = alloc \ {a} /\ a \in Held(old)
  <2>1. a \in Held(old)
    BY <1>2 DEF Held
  <2> QED
    BY <1>2, <2>1, DeleteFacts
<1>4. r \in Call /\ call' = [call EXCEPT ![c] = r]
  BY <1>0, <1>2 DEF Call
<1>5. /\ r.pc = "drop" /\ r.op = old.op /\ r.onu = old.onu /\ r.keep = old.keep
      /\ r.copy = old.copy /\ r.alone = old.alone /\ r.sound = old.sound
      /\ r.pool = old.pool /\ r.found = left /\ r.want = old.want
  BY <1>0 DEF Call
<1> HIDE DEF r
<1>6. Held(r) \subseteq Held(old)
  BY <1>5 DEF Held
<1>7. Right(r)
  <2>1. Own(r)
    BY <1>0, <1>5, <1>6, OwnFacts DEF Right
  <2> QED
    BY <1>0, <1>1, <1>5, <2>1 DEF Right, Placed, Adding, Releasing, Ops, PoolOps
<1>8. \A x : x.onu # old.onu \/ Purpose[x.pool] # Keeps(old.op) => (x \in alloc' <=> x \in alloc)
  BY <1>0, <1>1, <1>3 DEF Right, Own
<1>9. Works(old, Its(old, alloc)) => Works(r, Its(old, alloc'))
  <2>1. Its(old, alloc') = Its(old, alloc) \ {a}
    BY <1>3 DEF Its
  <2>2. Kept(r) = Kept(old)
    BY <1>5 DEF Kept
  <2> QED
    BY <1>0, <1>2, <1>5, <2>1, <2>2 DEF Works
<1>10. /\ call' \in [Calls -> Call] /\ call'[c] = r
       /\ \A d \in Calls : d # c => call'[d] = call[d]
  BY <1>0, <1>4
<1>11. \A d \in Calls : d # c => Like(call'[d], call[d])
  BY <1>10 DEF Like
<1>12. Known' \subseteq Known
  <2>1. \A d \in Calls : Held(call'[d]) \subseteq Known
    BY <1>0, <1>6, <1>10 DEF Known
  <2> QED
    BY <1>3, <2>1 DEF Known
<1>13. /\ \A x, y \in Known' : x.id = y.id => x = y
       /\ Unique(alloc') /\ \A x \in alloc' : Present(x.onu)
       /\ alloc' \subseteq Alloc
  BY <1>0, <1>3, <1>12 DEF BooksInv, TablesRight, Unique
<1>14. r.pc # "idle" /\ old.pc \notin {"idle", "reload"}
  BY <1>0, <1>5
<1> QED
  BY <1>0, <1>1, <1>4, <1>5, <1>7, <1>8, <1>9, <1>10, <1>11, <1>13, <1>14, TableStep

LEMMA UnkeepBooks == ASSUME BooksInv, NEW c \in Calls, Unkeep(c) PROVE BooksInv'
<1> DEFINE old == call[c]
<1>0. /\ old \in Call /\ Right(old) /\ Held(old) \subseteq Known /\ old.pc = "unkeep"
      /\ alloc \subseteq Alloc /\ Unique(alloc) /\ call \in [Calls -> Call]
      /\ \A a \in alloc : Present(a.onu)
      /\ UNCHANGED <<hosts, row, requests, faults>> /\ Opens(c) /\ Delete(old.keep)
  BY BusyFacts DEF Unkeep, BooksInv, Inv, TypeOK, TablesRight
<1>1. old.op = "assignWan" /\ old.op \in Ops /\ old.keep # None /\ old.want # 0
  BY <1>0 DEF Right, Placed, Ops
<1>2. PICK k \in {None} \union old.found :
        /\ k = None <=> old.found = {}
        /\ call' = [call EXCEPT ![c].keep = k, ![c].found = {},
                                ![c].pc = IF k = None THEN "wanted" ELSE "save"]
  BY DEF Unkeep
<1> DEFINE next == IF k = None THEN "wanted" ELSE "save"
           r == [old EXCEPT !.keep = k, !.found = {}, !.pc = next]
<1>3. alloc' = alloc \ {old.keep} /\ old.keep \in Held(old)
  <2>1. old.keep \in Held(old)
    BY <1>1 DEF Held
  <2> QED
    BY <1>0, <2>1, DeleteFacts
<1>4. r \in Call /\ call' = [call EXCEPT ![c] = r]
  <2>1. k \in Alloc \union {None} /\ next \in Pcs
    BY <1>0, <1>2 DEF Call, Pcs
  <2> QED
    BY <1>0, <1>2, <2>1 DEF Call
<1>5. /\ r.pc = next /\ r.op = old.op /\ r.onu = old.onu /\ r.keep = k
      /\ r.copy = old.copy /\ r.alone = old.alone /\ r.sound = old.sound
      /\ r.pool = old.pool /\ r.found = {} /\ r.want = old.want
  BY <1>0 DEF Call
<1>6. Held(r) \subseteq Held(old)
  BY <1>2, <1>5 DEF Held
<1>15. next \in {"wanted", "save"} /\ (next = "save" => k # None)
  OBVIOUS
<1> HIDE DEF r, next
<1>7. Right(r)
  <2>1. Own(r)
    BY <1>0, <1>5, <1>6, OwnFacts DEF Right
  <2> QED
    BY <1>0, <1>1, <1>5, <1>15, <2>1 DEF Right, Placed, Adding, Releasing, Ops, PoolOps
<1>8. \A x : x.onu # old.onu \/ Purpose[x.pool] # Keeps(old.op) => (x \in alloc' <=> x \in alloc)
  BY <1>0, <1>1, <1>3 DEF Right, Own
<1>9. Works(old, Its(old, alloc)) => Works(r, Its(old, alloc'))
  <2> SUFFICES ASSUME Works(old, Its(old, alloc)) PROVE Works(r, Its(old, alloc'))
    OBVIOUS
  <2>1. Its(old, alloc') = Its(old, alloc) \ {old.keep}
    BY <1>3 DEF Its
  <2>2. Its(old, alloc) = {old.keep} /\ old.found = {}
    BY <1>0, <1>1 DEF Works, Kept
  <2>3. Its(old, alloc') = {} /\ k = None
    BY <1>2, <2>1, <2>2
  <2>4. Kept(r) = {}
    BY <1>5, <2>3 DEF Kept
  <2> QED
    BY <1>5, <1>15, <2>3, <2>4 DEF Works
<1>10. /\ call' \in [Calls -> Call] /\ call'[c] = r
       /\ \A d \in Calls : d # c => call'[d] = call[d]
  BY <1>0, <1>4
<1>11. \A d \in Calls : d # c => Like(call'[d], call[d])
  BY <1>10 DEF Like
<1>12. Known' \subseteq Known
  <2>1. \A d \in Calls : Held(call'[d]) \subseteq Known
    BY <1>0, <1>6, <1>10 DEF Known
  <2> QED
    BY <1>3, <2>1 DEF Known
<1>13. /\ \A x, y \in Known' : x.id = y.id => x = y
       /\ Unique(alloc') /\ \A x \in alloc' : Present(x.onu)
       /\ alloc' \subseteq Alloc
  BY <1>0, <1>3, <1>12 DEF BooksInv, TablesRight, Unique
<1>14. r.pc # "idle" /\ old.pc \notin {"idle", "reload"}
  BY <1>0, <1>5, <1>15
<1> QED
  BY <1>0, <1>1, <1>4, <1>5, <1>7, <1>8, <1>9, <1>10, <1>11, <1>13, <1>14, TableStep

\* What is known after a step.
LEMMA KnownBound ==
    ASSUME NEW S, alloc' \subseteq S, \A d \in Calls : Held(call'[d]) \subseteq S
    PROVE  Known' \subseteq S
  BY DEF Known, Held

LEMMA KnownLess ==
    ASSUME alloc' \subseteq alloc, \A d \in Calls : Held(call'[d]) \subseteq Held(call[d])
    PROVE  Known' \subseteq Known
<1>1. alloc' \subseteq Known /\ \A d \in Calls : Held(call'[d]) \subseteq Known
  BY DEF Known
<1> QED
  BY <1>1, KnownBound

\* An insert that the database lets through.
LEMMA InsertedBooks ==
    ASSUME BooksInv, NEW c \in Calls, call[c].pc \in {"wanted", "insert"}, Ids \ UsedIds # {},
           Accepts(call[c].pool, call[c].want, call[c].onu), Inserted(c, call[c].want),
           UNCHANGED <<hosts, row, requests, faults>>
    PROVE  BooksInv'
<1> DEFINE old == call[c]
           new == [id |-> NewId, pool |-> old.pool, ip |-> old.want, onu |-> old.onu]
           r == [old EXCEPT !.keep = new, !.pc = "save"]
<1>0. /\ old \in Call /\ Right(old) /\ Held(old) \subseteq Known
      /\ alloc \subseteq Alloc /\ Unique(alloc) /\ call \in [Calls -> Call]
      /\ \A a \in alloc : Present(a.onu)
      /\ Opens(c) /\ alloc' = alloc \union {new}
      /\ call' = [d \in Calls |->
                    IF d = c THEN r
                    ELSE IF call[d].pool = call[c].pool
                         THEN [call[d] EXCEPT !.beaten = @ + 1] ELSE call[d]]
  BY BusyFacts DEF BooksInv, Inv, TypeOK, TablesRight, Inserted
<1>1. /\ old.op \in Adding /\ old.op \in Ops /\ old.want # 0 /\ old.onu \in Onus
      /\ old.pool \in Pools /\ Purpose[old.pool] = Keeps(old.op)
  BY <1>0 DEF Right, Placed, Ops, Adding
<1>2. NewId \in Ids /\ NewId \notin UsedIds
  BY DEF NewId
<1>3. new \in Alloc /\ new # None
  <2>1. old.want \in Hosts
    BY <1>0, <1>1, BoundsAssumption DEF Call, Hosts
  <2>2. new \in Alloc
    BY <1>1, <1>2, <2>1 DEF Alloc
  <2> QED
    BY <2>2, NoneAssumption
<1>4. \A a \in Known : a.id # NewId
  <2>1. \A d \in Calls : \A a \in Held(call[d]) :
          a \in (UNION {call[e].found : e \in Calls}) \union ({call[e].keep : e \in Calls} \ {None})
    BY DEF Held
  <2>2. \A a \in Known : a.id \in UsedIds
    BY <2>1 DEF UsedIds, Known
  <2> QED
    BY <1>2, <2>2
<1>15. new.id = NewId /\ new.pool = old.pool /\ new.ip = old.want /\ new.onu = old.onu
  OBVIOUS
<1> HIDE DEF new
<1>16. r \in Call
  BY <1>0, <1>3 DEF Call, Pcs
<1>5. /\ r.pc = "save" /\ r.op = old.op /\ r.onu = old.onu /\ r.keep = new
      /\ r.copy = old.copy /\ r.alone = old.alone /\ r.sound = old.sound
      /\ r.pool = old.pool /\ r.found = old.found /\ r.want = old.want
  BY <1>0 DEF Call
<1> HIDE DEF r
<1>7. Right(r)
  <2>1. Own(r)
    BY <1>0, <1>1, <1>5, <1>15 DEF Right, Own, Held
  <2> QED
    BY <1>0, <1>1, <1>3, <1>5, <2>1 DEF Right, Placed, Adding, Releasing, Ops, PoolOps
<1>8. \A x : x.onu # old.onu \/ Purpose[x.pool] # Keeps(old.op) => (x \in alloc' <=> x \in alloc)
  BY <1>0, <1>1, <1>15
<1>9. Works(old, Its(old, alloc)) => Works(r, Its(old, alloc'))
  <2> SUFFICES ASSUME Works(old, Its(old, alloc)) PROVE Works(r, Its(old, alloc'))
    OBVIOUS
  <2>1. Its(old, alloc') = Its(old, alloc) \union {new}
    BY <1>0, <1>1, <1>15 DEF Its
  <2>2. Its(old, alloc) = {}
    BY DEF Works
  <2>3. Its(old, alloc') = Kept(r)
    BY <1>3, <1>5, <2>1, <2>2 DEF Kept
  <2> QED
    BY <1>5, <2>3 DEF Works
<1>10. /\ call'[c] = r
       /\ \A d \in Calls : d # c => /\ call'[d] \in Call
                                    /\ Held(call'[d]) = Held(call[d])
                                    /\ Like(call'[d], call[d])
  <2>1. call'[c] = r
    BY <1>0
  <2>2. ASSUME NEW d \in Calls, d # c
        PROVE  /\ call'[d] \in Call /\ Held(call'[d]) = Held(call[d]) /\ Like(call'[d], call[d])
    <3>1. call[d] \in Call
      BY <1>0
    <3>2. CASE call'[d] = call[d]
      BY <3>1, <3>2 DEF Held, Like
    <3>3. CASE call'[d] = [call[d] EXCEPT !.beaten = @ + 1]
      BY <3>1, <3>3 DEF Held, Like, Call
    <3> QED
      BY <1>0, <2>2, <3>2, <3>3
  <2> QED
    BY <2>1, <2>2
<1>11. call' \in [Calls -> Call]
  BY <1>0, <1>10, <1>16
<1>12. Known' \subseteq Known \union {new}
  <2>1. ASSUME NEW d \in Calls PROVE Held(call'[d]) \subseteq Known \union {new}
    <3>1. CASE d = c
      <4>1. call'[d] = r
        BY <1>10, <3>1
      <4>2. Held(old) \subseteq Known
        BY DEF Known
      <4> QED
        BY <1>5, <4>1, <4>2 DEF Held
    <3>2. CASE d # c
      <4>1. Held(call'[d]) = Held(call[d])
        BY <1>10, <3>2
      <4> QED
        BY <4>1 DEF Known
    <3> QED
      BY <3>1, <3>2
  <2> QED
    BY <1>0, <2>1, KnownBound DEF Known
<1>13. \A x, y \in Known' : x.id = y.id => x = y
  BY <1>4, <1>12, <1>15, BusyFacts
<1>17. Unique(alloc') /\ \A x \in alloc' : Present(x.onu)
  BY <1>0, <1>15 DEF Unique, Accepts
<1>18. r.pc # "idle" /\ old.pc \notin {"idle", "reload"} /\ alloc' \subseteq Alloc
  BY <1>0, <1>3, <1>5
<1>19. \A d \in Calls : d # c => Like(call'[d], call[d])
  BY <1>10
<1> QED
  BY <1>0, <1>1, <1>5, <1>7, <1>8, <1>9, <1>10, <1>11, <1>13, <1>16, <1>17, <1>18, <1>19, TableStep

LEMMA InsertBooks ==
    ASSUME BooksInv, NEW c \in Calls, Insert(c) \/ InsertWanted(c) PROVE BooksInv'
<1> DEFINE old == call[c]
<1>0. /\ old.pc \in {"wanted", "insert"} /\ Ids \ UsedIds # {} /\ old \in Call
      /\ hosts \in [Pools -> 0 .. MaxHosts] /\ requests \in 0 .. MaxRequests
      /\ faults \in 0 .. MaxFaults /\ UNCHANGED <<hosts, row, requests, faults>>
  BY BusyFacts DEF Insert, InsertWanted
<1>1. CASE Accepts(old.pool, old.want, old.onu) /\ Inserted(c, old.want)
  BY <1>0, <1>1, InsertedBooks
<1>2. CASE Ends(c) /\ UNCHANGED <<alloc, open>>
  BY <1>0, <1>2, EndsStep
<1>3. CASE /\ old.pc = "insert" /\ ~LastTry(c) /\ UNCHANGED <<alloc, open>>
           /\ call' = [call EXCEPT ![c].tries = @ + 1, ![c].pc = "choose"]
  <2> DEFINE n == old.tries + 1
             r == [old EXCEPT !.tries = n, !.pc = "choose"]
  <2>1. n \in 0 .. Attempts - 1
    <3>1. old.tries \in 0 .. Attempts - 1 /\ Attempts \in Nat /\ old.tries + 1 # Attempts
      BY <1>0, <1>3, BoundsAssumption DEF Call, LastTry
    <3> QED
      BY <3>1
  <2>2. call' = [call EXCEPT ![c] = r]
    BY <1>0, <1>3 DEF Call
  <2> HIDE DEF n
  <2>3. r \in Call
    BY <1>0, <2>1 DEF Call, Pcs
  <2>4. /\ r.pc = "choose" /\ r.op = old.op /\ r.onu = old.onu /\ r.keep = old.keep
        /\ r.copy = old.copy /\ r.alone = old.alone /\ r.sound = old.sound
        /\ r.pool = old.pool /\ r.found = old.found
    BY <1>0 DEF Call
  <2> HIDE DEF r
  <2> QED
    BY <1>0, <1>3, <2>2, <2>3, <2>4, TriesStep
<1> QED
  BY <1>1, <1>2, <1>3 DEF Insert, InsertWanted

LEMMA SaveAgainBooks == ASSUME BooksInv, NEW c \in Calls, SaveAgain(c) PROVE BooksInv'
<1> DEFINE old == call[c]
<1>0. /\ old \in Call /\ Right(old) /\ Copied(old, row, open) /\ old.pc = "again" /\ TypeOK
      /\ row' = [row EXCEPT ![old.onu] = old.copy] /\ Ends(c)
      /\ UNCHANGED <<hosts, alloc, open, requests, faults>>
  BY BusyFacts DEF SaveAgain
<1>1. old.op \in Ops /\ old.onu \in Onus /\ old.copy \in Row
  BY <1>0 DEF Right, Placed, Ops
<1>2. /\ row' \in [Onus -> Row \union {Unborn, Gone}] /\ row'[old.onu] = old.copy
      /\ \A x \in Onus : x # old.onu => row'[x] = row[x]
  BY <1>0, <1>1 DEF TypeOK
<1>3. /\ call' \in [Calls -> Call] /\ call'[c] = Idle
      /\ \A d \in Calls : d # c => call'[d] = call[d]
  BY <1>0, IdleFacts DEF Ends, TypeOK
<1>4. \A d \in Calls : d # c => Like(call'[d], call[d])
  BY <1>3 DEF Like
<1>5. TypeOK'
  BY <1>0, <1>2, <1>3 DEF TypeOK
<1>6. Known' \subseteq Known
  <2>1. \A d \in Calls : Held(call'[d]) \subseteq Held(call[d])
    BY <1>3, IdleFacts
  <2> QED
    BY <1>0, <2>1, KnownLess
<1>7. /\ \A x, y \in Known' : x.id = y.id => x = y
      /\ Unique(alloc') /\ \A a \in alloc' : row'[a.onu] \in Row
  <2>1. \A a \in alloc : a.onu \in Onus /\ row[a.onu] \in Row
    BY BusyFacts DEF BooksInv, TablesRight, Present, Alloc
  <2> QED
    BY <1>0, <1>1, <1>2, <1>6, <2>1 DEF BooksInv, TablesRight
<1>8. ASSUME NEW u \in Purposes, <<old.onu, u>> \notin open' PROVE Agrees(old.onu, u, row', alloc')
  <2>1. row[old.onu] \in Row /\ row[old.onu][u] = old.copy[u]
    BY <1>0, <1>1, <1>8 DEF Copied
  <2> QED
    BY <1>0, <1>1, <1>2, <1>8, <2>1 DEF BooksInv, BooksAgree, Present, Of, Agrees
<1>9. \A x \in Onus : row'[x] = Unborn => row[x] = Unborn
  BY <1>1, <1>2, NoneAssumption
<1>10. \A x \in Onus : x # old.onu =>
        /\ row'[x] = row[x]
        /\ \A a : a.onu = x => (a \in alloc' <=> a \in alloc)
        /\ \A u \in Purposes : <<x, u>> \in open' <=> <<x, u>> \in open
  BY <1>0, <1>2
<1>11. old.pc # "idle" /\ open \subseteq open'
  BY <1>0
<1> QED
  BY <1>3, <1>4, <1>5, <1>7, <1>8, <1>9, <1>10, <1>11, IdleFacts, OwnStep

LEMMA PurgeAllocsBooks == ASSUME BooksInv, NEW c \in Calls, PurgeAllocs(c) PROVE BooksInv'
<1> DEFINE old == call[c]
           r == [old EXCEPT !.pc = "purgeRow"]
<1>0. /\ old \in Call /\ Right(old) /\ Held(old) \subseteq Known /\ old.pc = "purge" /\ TypeOK
      /\ alloc' = {a \in alloc : a.onu # old.onu} /\ open' = open \union ({old.onu} \X Purposes)
      /\ Goto(c, "purgeRow") /\ UNCHANGED <<hosts, row, requests, faults>>
  BY BusyFacts DEF PurgeAllocs
<1>1. old.op = "purge" /\ old.op \in Ops /\ old.onu \in Onus /\ old.copy \in Row /\ old.keep = None
  BY <1>0 DEF Right, Placed, Ops
<1>2. r \in Call /\ call' = [call EXCEPT ![c] = r]
  BY <1>0 DEF Goto, Call, Pcs
<1>3. /\ r.pc = "purgeRow" /\ r.op = old.op /\ r.onu = old.onu /\ r.keep = old.keep
      /\ r.copy = old.copy /\ r.alone = old.alone /\ r.sound = old.sound
      /\ r.pool = old.pool /\ r.found = old.found
  BY <1>0 DEF Call
<1> HIDE DEF r
<1>4. Right(r)
  <2>1. Own(r)
    BY <1>0, <1>3, OwnFacts DEF Right, Held
  <2> QED
    BY <1>0, <1>1, <1>3, <2>1 DEF Right, Placed, Adding, Releasing, Ops, PoolOps
<1>5. /\ call' \in [Calls -> Call] /\ call'[c] = r
      /\ \A d \in Calls : d # c => call'[d] = call[d]
  BY <1>0, <1>2 DEF TypeOK
<1>6. \A d \in Calls : d # c => Like(call'[d], call[d])
  BY <1>5 DEF Like
<1>7. TypeOK'
  BY <1>0, <1>1, <1>5 DEF TypeOK
<1>8. Known' \subseteq Known
  <2>1. \A d \in Calls : Held(call'[d]) \subseteq Held(call[d])
    BY <1>3, <1>5 DEF Held
  <2> QED
    BY <1>0, <2>1, KnownLess
<1>9. /\ \A x, y \in Known' : x.id = y.id => x = y
      /\ Unique(alloc') /\ \A a \in alloc' : row'[a.onu] \in Row
  BY <1>0, <1>8 DEF BooksInv, TablesRight, Present, Unique
<1>10. Copied(r, row', open')
  BY <1>0, <1>3 DEF Copied
<1>11. Working(r, alloc', open')
  BY <1>3 DEF Working, Works
<1>12. \A u \in Purposes : <<old.onu, u>> \in open'
  BY <1>0
<1>13. \A x \in Onus : x # old.onu =>
        /\ row'[x] = row[x]
        /\ \A a : a.onu = x => (a \in alloc' <=> a \in alloc)
        /\ \A u \in Purposes : <<x, u>> \in open' <=> <<x, u>> \in open
  BY <1>0
<1>14. old.pc # "idle" /\ open \subseteq open' /\ \A x \in Onus : row'[x] = Unborn => row[x] = Unborn
  BY <1>0
<1> QED
  BY <1>3, <1>4, <1>5, <1>6, <1>7, <1>9, <1>10, <1>11, <1>12, <1>13, <1>14, OwnStep

LEMMA PurgeRowBooks == ASSUME BooksInv, NEW c \in Calls, PurgeRow(c) PROVE BooksInv'
<1> DEFINE old == call[c]
<1>0. /\ old \in Call /\ Right(old) /\ old.pc = "purgeRow" /\ TypeOK
      /\ row' = [row EXCEPT ![old.onu] = Gone] /\ Ends(c)
      /\ alloc' = {a \in alloc : a.onu # old.onu}
      /\ UNCHANGED <<hosts, open, requests, faults>>
  BY BusyFacts DEF PurgeRow
<1>1. old.op \in Ops /\ old.onu \in Onus
  BY <1>0 DEF Right, Placed, Ops
<1>2. /\ row' \in [Onus -> Row \union {Unborn, Gone}] /\ row'[old.onu] = Gone
      /\ \A x \in Onus : x # old.onu => row'[x] = row[x]
  BY <1>0, <1>1 DEF TypeOK
<1>3. /\ call' \in [Calls -> Call] /\ call'[c] = Idle
      /\ \A d \in Calls : d # c => call'[d] = call[d]
  BY <1>0, IdleFacts DEF Ends, TypeOK
<1>4. \A d \in Calls : d # c => Like(call'[d], call[d])
  BY <1>3 DEF Like
<1>5. TypeOK'
  BY <1>0, <1>2, <1>3 DEF TypeOK
<1>6. Known' \subseteq Known
  <2>1. \A d \in Calls : Held(call'[d]) \subseteq Held(call[d])
    BY <1>3, IdleFacts
  <2> QED
    BY <1>0, <2>1, KnownLess
<1>7. /\ \A x, y \in Known' : x.id = y.id => x = y
      /\ Unique(alloc') /\ \A a \in alloc' : row'[a.onu] \in Row
  <2>1. \A a \in alloc : a.onu \in Onus /\ row[a.onu] \in Row
    BY BusyFacts DEF BooksInv, TablesRight, Present, Alloc
  <2> QED
    BY <1>0, <1>1, <1>2, <1>6, <2>1 DEF BooksInv, TablesRight, Unique
<1>8. \A u \in Purposes : Agrees(old.onu, u, row', alloc')
  BY <1>2, NoneAssumption DEF Agrees
<1>9. \A x \in Onus : row'[x] = Unborn => row[x] = Unborn
  BY <1>1, <1>2, NoneAssumption
<1>10. \A x \in Onus : x # old.onu =>
        /\ row'[x] = row[x]
        /\ \A a : a.onu = x => (a \in alloc' <=> a \in alloc)
        /\ \A u \in Purposes : <<x, u>> \in open' <=> <<x, u>> \in open
  BY <1>0, <1>2
<1>11. old.pc # "idle" /\ open \subseteq open'
  BY <1>0
<1> QED
  BY <1>3, <1>4, <1>5, <1>7, <1>8, <1>9, <1>10, <1>11, IdleFacts, OwnStep

\* What a call that saves writes: the address it settled on, and the rest of its copy.
LEMMA SavedFacts ==
    ASSUME BooksInv, NEW c \in Calls, call[c].pc = "save"
    PROVE  /\ Saved(c) \in Row
           /\ \A u \in Purposes : u # Keeps(call[c].op) \/ call[c].op = "edit"
                => Saved(c)[u] = call[c].copy[u]
           /\ call[c].op \in Adding =>
                SlotOf(call[c].keep) # None /\ Saved(c)[Keeps(call[c].op)] = SlotOf(call[c].keep)
           /\ call[c].op \in Releasing =>
                call[c].keep = None /\ Saved(c)[Keeps(call[c].op)] = None
<1> DEFINE old == call[c]
           u0 == Keeps(old.op)
<1>0. old \in Call /\ Right(old)
  BY BusyFacts
<1>1. /\ old.op \in Adding \union Releasing \union {"edit"} /\ old.copy \in Row /\ u0 \in Purposes
      /\ old.op \in Adding => old.keep \in Alloc /\ Purpose[old.keep.pool] = u0
      /\ old.op \in Releasing => old.keep = None
  <2>1. /\ old.op \in Adding \union Releasing \union {"edit"} /\ old.op \in Ops
        /\ old.copy \in Row /\ u0 \in Purposes
        /\ old.op \in Adding => old.keep \in Alloc /\ old.keep # None
        /\ old.op \in Releasing => old.keep = None
    BY <1>0 DEF Right, Placed, Ops, Adding, Releasing, Keeps, Purposes, Call
  <2>2. old.op \in Adding => old.keep \in Held(old)
    BY <2>1 DEF Held
  <2> QED
    BY <1>0, <2>1, <2>2 DEF Right, Own
<1>2. CASE old.op \in Adding
  <2>1. /\ SlotOf(old.keep) \in Slots /\ SlotOf(old.keep) # None
        /\ Purpose[SlotOf(old.keep).pool] = u0
    BY <1>1, <1>2, NoneAssumption DEF SlotOf, Slots, Alloc
  <2>2. Saved(c) = [old.copy EXCEPT ![u0] = SlotOf(old.keep)]
    BY <1>2 DEF Saved, Adding
  <2>3. old.op # "edit" /\ old.op \notin Releasing
    BY <1>2 DEF Adding, Releasing
  <2> HIDE DEF u0
  <2> QED
    BY <1>1, <2>1, <2>2, <2>3 DEF Row, u0
<1>3. CASE old.op \in Releasing
  <2>1. Saved(c) = [old.copy EXCEPT ![u0] = None]
    BY <1>3 DEF Saved, Releasing
  <2>2. old.op # "edit" /\ old.op \notin Adding
    BY <1>3 DEF Adding, Releasing
  <2> HIDE DEF u0
  <2> QED
    BY <1>1, <1>3, <2>1, <2>2 DEF Row, u0
<1>4. CASE old.op = "edit"
  <2>1. Saved(c) = old.copy /\ old.op \notin Adding \union Releasing
    BY <1>4 DEF Saved, Adding, Releasing
  <2> QED
    BY <1>1, <1>4, <2>1
<1> QED
  BY <1>1, <1>2, <1>3, <1>4

LEMMA SaveRowBooks == ASSUME BooksInv, NEW c \in Calls, SaveRow(c) PROVE BooksInv'
<1> DEFINE old == call[c]
           u0 == Keeps(old.op)
           saved == Saved(c)
<1>0. /\ old \in Call /\ Right(old) /\ Copied(old, row, open) /\ Working(old, alloc, open)
      /\ old.pc = "save" /\ TypeOK /\ row' = [row EXCEPT ![old.onu] = saved]
      /\ Held(old) \subseteq Known /\ UNCHANGED <<hosts, alloc, requests, faults>>
      /\ open' = IF old.alone /\ old.op # "edit" /\ (old.sound \/ Settles(old.op))
                 THEN open \ {<<old.onu, u0>>} ELSE open
  BY BusyFacts DEF SaveRow
<1>1. /\ old.op \in Ops /\ old.onu \in Onus /\ u0 \in Purposes
      /\ old.op \in Adding \union Releasing \union {"edit"}
  BY <1>0 DEF Right, Placed, Ops, Adding, Releasing, Keeps, Purposes
<1>2. /\ saved \in Row
      /\ \A u \in Purposes : u # u0 \/ old.op = "edit" => saved[u] = old.copy[u]
      /\ old.op \in Adding => SlotOf(old.keep) # None /\ saved[u0] = SlotOf(old.keep)
      /\ old.op \in Releasing => old.keep = None /\ saved[u0] = None
  BY <1>0, SavedFacts
<1> HIDE DEF saved
<1>3. /\ row' \in [Onus -> Row \union {Unborn, Gone}] /\ row'[old.onu] = saved
      /\ \A x \in Onus : x # old.onu => row'[x] = row[x]
  BY <1>0, <1>1, <1>2 DEF TypeOK
<1>4. ASSUME NEW u \in Purposes, <<old.onu, u>> \notin open' PROVE Agrees(old.onu, u, row', alloc')
  <2>1. CASE u # u0 \/ old.op = "edit"
    <3>1. <<old.onu, u>> \notin open
      BY <1>0, <1>4, <2>1
    <3>2. row[old.onu] \in Row /\ row[old.onu][u] = old.copy[u] /\ saved[u] = old.copy[u]
      BY <1>0, <1>1, <1>2, <2>1, <3>1 DEF Copied
    <3>3. Agrees(old.onu, u, row, alloc)
      BY <1>1, <3>1 DEF BooksInv, BooksAgree, Present, Of, Agrees
    <3> QED
      BY <1>0, <1>3, <3>2, <3>3 DEF Agrees
  <2>2. CASE u = u0 /\ old.op # "edit"
    <3>1. Undisturbed(old, open)
      BY <1>0, <1>4, <2>2 DEF Undisturbed
    <3>2. Its(old, alloc) = Kept(old)
      BY <1>0, <1>1, <2>2, <3>1 DEF Working, Works
    <3>3. Its(old, alloc) = {b \in alloc' : b.onu = old.onu /\ Purpose[b.pool] = u}
      BY <1>0, <2>2 DEF Its
    <3>4. CASE old.op \in Adding
      <4>1. Kept(old) = {old.keep}
        BY <1>0, <3>4 DEF Right, Placed, Kept
      <4>2. {SlotOf(b) : b \in {old.keep}} = {SlotOf(old.keep)}
        OBVIOUS
      <4> QED
        BY <1>2, <1>3, <2>2, <3>2, <3>3, <3>4, <4>1, <4>2 DEF Agrees
    <3>5. CASE old.op \in Releasing
      <4>1. Kept(old) = {}
        BY <1>2, <3>5 DEF Kept
      <4>2. saved[u] = None /\ {b \in alloc' : b.onu = old.onu /\ Purpose[b.pool] = u} = {}
        BY <1>2, <2>2, <3>2, <3>3, <3>5, <4>1
      <4>3. {SlotOf(b) : b \in {}} = {} /\ {None} \ {None} = {}
        OBVIOUS
      <4> QED
        BY <1>3, <4>2, <4>3 DEF Agrees
    <3> QED
      BY <1>1, <2>2, <3>4, <3>5
  <2> QED
    BY <2>1, <2>2
<1>5. ASSUME NEW r \in Call, call' = [call EXCEPT ![c] = r], Held(r) \subseteq Known, Right(r),
             r.pc # "idle" => r.onu = old.onu /\ (r.alone => old.alone),
             r.pc \in {"idle", "reload", "again"}, r.pc = "again" => r.copy = saved
      PROVE  BooksInv'
  <2>1. /\ call' \in [Calls -> Call] /\ call'[c] = r
        /\ \A d \in Calls : d # c => call'[d] = call[d]
    BY <1>0, <1>5 DEF TypeOK
  <2>2. \A d \in Calls : d # c => Like(call'[d], call[d])
    BY <2>1 DEF Like
  <2>3. TypeOK'
    BY <1>0, <1>3, <2>1 DEF TypeOK
  <2>4. Known' \subseteq Known
    <3>1. \A d \in Calls : Held(call'[d]) \subseteq Known
      BY <1>5, <2>1 DEF Known
    <3> QED
      BY <1>0, <3>1 DEF Known
  <2>5. /\ \A x, y \in Known' : x.id = y.id => x = y
        /\ Unique(alloc') /\ \A a \in alloc' : row'[a.onu] \in Row
    <3>1. \A a \in alloc : a.onu \in Onus /\ row[a.onu] \in Row
      BY BusyFacts DEF BooksInv, TablesRight, Present, Alloc
    <3> QED
      BY <1>0, <1>1, <1>2, <1>3, <2>4, <3>1 DEF BooksInv, TablesRight
  <2>6. \A x \in Onus : row'[x] = Unborn => row[x] = Unborn
    BY <1>1, <1>2, <1>3, NoneAssumption
  <2>7. \A x \in Onus : x # old.onu =>
          /\ row'[x] = row[x]
          /\ \A a : a.onu = x => (a \in alloc' <=> a \in alloc)
          /\ \A u \in Purposes : <<x, u>> \in open' <=> <<x, u>> \in open
    BY <1>0, <1>3
  <2>8. old.pc # "idle" /\ (old.alone \/ open \subseteq open')
    BY <1>0
  <2>9. Copied(r, row', open') /\ Working(r, alloc', open')
    BY <1>2, <1>3, <1>5 DEF Copied, Working, Works
  <2> QED
    BY <1>4, <1>5, <2>1, <2>2, <2>3, <2>5, <2>6, <2>7, <2>8, <2>9, OwnStep
<1>6. CASE Ends(c)
  BY <1>5, <1>6, IdleFacts DEF Ends
<1>7. CASE old.op = "assignMgmt" /\ Goto(c, "reload")
  <2> DEFINE r == [old EXCEPT !.pc = "reload"]
  <2>1. r \in Call /\ call' = [call EXCEPT ![c] = r]
    BY <1>0, <1>7 DEF Goto, Call, Pcs
  <2>2. /\ r.pc = "reload" /\ r.op = old.op /\ r.onu = old.onu /\ r.keep = old.keep
        /\ r.copy = old.copy /\ r.alone = old.alone /\ r.sound = old.sound
        /\ r.pool = old.pool /\ r.found = old.found
    BY <1>0 DEF Call
  <2> HIDE DEF r
  <2>3. Right(r)
    <3>1. Own(r)
      BY <1>0, <2>2, OwnFacts DEF Right, Held
    <3> QED
      BY <1>0, <1>1, <1>7, <2>2, <3>1 DEF Right, Placed, Adding, Releasing, Ops, PoolOps
  <2>4. Held(r) \subseteq Known
    BY <1>0, <2>2 DEF Held
  <2> QED
    BY <1>5, <2>1, <2>2, <2>3, <2>4
<1>8. CASE old.op = "releaseMgmt" /\ call' = [call EXCEPT ![c].copy = saved, ![c].pc = "again"]
  <2> DEFINE r == [old EXCEPT !.copy = saved, !.pc = "again"]
  <2>1. r \in Call /\ call' = [call EXCEPT ![c] = r]
    BY <1>0, <1>2, <1>8 DEF Call, Pcs
  <2>2. /\ r.pc = "again" /\ r.op = old.op /\ r.onu = old.onu /\ r.keep = old.keep
        /\ r.copy = saved /\ r.alone = old.alone /\ r.sound = old.sound
        /\ r.pool = old.pool /\ r.found = old.found
    BY <1>0 DEF Call
  <2> HIDE DEF r
  <2>3. Right(r)
    <3>1. Own(r)
      BY <1>0, <2>2, OwnFacts DEF Right, Held
    <3> QED
      BY <1>0, <1>1, <1>2, <1>8, <2>2, <3>1 DEF Right, Placed, Adding, Releasing, Ops, PoolOps
  <2>4. Held(r) \subseteq Known
    BY <1>0, <2>2 DEF Held
  <2> QED
    BY <1>5, <2>1, <2>2, <2>3, <2>4
<1> QED
  BY <1>6, <1>7, <1>8 DEF SaveRow, saved

\* Removing a pool robs several ONUs at once: their calls are no longer alone, their
\* books for its purpose are open.
LEMMA RemoveRowBooks == ASSUME BooksInv, NEW c \in Calls, RemoveRow(c) PROVE BooksInv'
<1> DEFINE old == call[c]
           u0 == Purpose[old.pool]
           robbed == {a.onu : a \in {b \in alloc : b.pool = old.pool}}
<1>0. /\ old \in Call /\ Right(old) /\ old.pc = "removeRow" /\ TypeOK
      /\ hosts' = [hosts EXCEPT ![old.pool] = 0]
      /\ alloc' = alloc \ {a \in alloc : a.pool = old.pool}
      /\ open' = open \union (robbed \X {u0})
      /\ call' = [d \in Calls |->
                    IF d = c THEN Idle
                    ELSE IF call[d].onu \in robbed THEN [call[d] EXCEPT !.alone = FALSE]
                    ELSE call[d]]
      /\ UNCHANGED <<row, requests, faults>>
  BY BusyFacts DEF RemoveRow
<1>1. old.pool \in Pools /\ u0 \in Purposes
  BY <1>0, PurposeAssumption DEF Right, Placed, PoolOps
<1>2. robbed \subseteq Onus /\ alloc' \subseteq alloc
      /\ \A a \in alloc : a \notin alloc' => a.onu \in robbed /\ Purpose[a.pool] = u0
  BY <1>0 DEF TypeOK, Alloc
<1>3. /\ open \subseteq open' /\ \A x \in robbed : <<x, u0>> \in open'
      /\ \A x, u : <<x, u>> \in open' => <<x, u>> \in open \/ (x \in robbed /\ u = u0)
  BY <1>0
<1> HIDE DEF robbed
<1>4. /\ call'[c] = Idle
      /\ \A d \in Calls : d # c => /\ call'[d] \in Call /\ Held(call'[d]) = Held(call[d])
                                   /\ Like(call'[d], call[d])
                                   /\ call[d].onu \in robbed => ~call'[d].alone
  <2>1. call'[c] = Idle
    BY <1>0
  <2>2. ASSUME NEW d \in Calls, d # c
        PROVE  /\ call'[d] \in Call /\ Held(call'[d]) = Held(call[d]) /\ Like(call'[d], call[d])
               /\ call[d].onu \in robbed => ~call'[d].alone
    <3>1. call[d] \in Call
      BY <1>0 DEF TypeOK
    <3>2. CASE call'[d] = call[d] /\ call[d].onu \notin robbed
      BY <3>1, <3>2 DEF Held, Like
    <3>3. CASE call'[d] = [call[d] EXCEPT !.alone = FALSE]
      BY <3>1, <3>3 DEF Held, Like, Call
    <3> QED
      BY <1>0, <2>2, <3>2, <3>3
  <2> QED
    BY <2>1, <2>2
<1>5. TypeOK'
  <2>1. call' \in [Calls -> Call]
    BY <1>0, <1>4, IdleFacts
  <2>2. hosts' \in [Pools -> 0 .. MaxHosts]
    <3>1. 0 \in 0 .. MaxHosts
      BY BoundsAssumption
    <3> QED
      BY <1>0, <3>1 DEF TypeOK
  <2>3. open' \subseteq Onus \X Purposes
    BY <1>0, <1>1, <1>2 DEF TypeOK
  <2> QED
    BY <1>0, <1>2, <2>1, <2>2, <2>3 DEF TypeOK
<1>6. LocalsRight'
  BY <1>4, LikeFacts, IdleFacts DEF BooksInv, Inv, LocalsRight
<1>7. Known' \subseteq Known
  <2>1. \A d \in Calls : Held(call'[d]) \subseteq Held(call[d])
    BY <1>4, IdleFacts
  <2> QED
    BY <1>2, <2>1 DEF Known
<1>8. TablesRight'
  <2>1. ASSUME NEW x \in Onus, row'[x] = Unborn PROVE On(x)' = {}
    <3>1. \A d \in Calls : call[d].pc = "idle" \/ call[d].onu # x
      BY <1>0, <2>1 DEF BooksInv, TablesRight, On
    <3>2. \A d \in Calls : call'[d].pc = "idle" \/ call'[d].onu # x
      BY <1>4, <3>1, IdleFacts DEF Like
    <3> QED
      BY <3>2 DEF On
  <2> QED
    BY <1>0, <1>2, <1>7, <2>1 DEF BooksInv, TablesRight, Unique, Present
<1>9. Together'
  <2> SUFFICES ASSUME NEW d \in Calls, NEW e \in Calls, d # e, call'[d].pc # "idle",
                      call'[e].pc # "idle", call'[d].onu = call'[e].onu, call'[d].onu \in Onus
               PROVE  ~call'[d].alone /\ {call'[d].onu} \X Purposes \subseteq open'
    BY DEF Together
  <2>1. d # c /\ e # c
    BY <1>4, IdleFacts
  <2>2. /\ call[d].pc # "idle" /\ call[e].pc # "idle" /\ call[d].onu = call'[d].onu
        /\ call[e].onu = call'[e].onu /\ (call'[d].alone => call[d].alone)
    BY <1>4, <2>1 DEF Like
  <2>3. ~call[d].alone /\ {call[d].onu} \X Purposes \subseteq open
    BY <2>2 DEF BooksInv, Together
  <2> QED
    BY <1>3, <2>2, <2>3
<1>10. ASSUME NEW d \in Calls PROVE Copied(call'[d], row', open') /\ Working(call'[d], alloc', open')
  <2>1. CASE d = c
    BY <1>4, <2>1, IdleFacts
  <2>2. CASE d # c
    <3>1. Copied(call[d], row, open) /\ Working(call[d], alloc, open)
      BY BusyFacts
    <3>2. Like(call'[d], call[d]) /\ (call[d].onu \in robbed => ~call'[d].alone)
      BY <1>4, <2>2
    <3>3. Copied(call'[d], row', open')
      <4>1. Copied(call'[d], row, open)
        BY <3>1, <3>2, LikeFacts
      <4> QED
        BY <1>0, <1>3, <4>1 DEF Copied
    <3>4. Working(call'[d], alloc', open')
      <4>1. CASE call[d].onu \in robbed /\ Keeps(call[d].op) = u0
        <5>1. ~Undisturbed(call'[d], open')
          BY <1>3, <3>2, <4>1 DEF Undisturbed, Like
        <5> QED
          BY <5>1 DEF Working
      <4>2. CASE ~(call[d].onu \in robbed /\ Keeps(call[d].op) = u0)
        <5>1. Its(call'[d], alloc') = Its(call'[d], alloc)
          BY <1>2, <3>2, <4>2 DEF Its, Like
        <5>2. Undisturbed(call'[d], open') => Undisturbed(call'[d], open)
          BY <1>3, <3>2, <4>2 DEF Undisturbed, Like
        <5>3. Working(call'[d], alloc, open)
          BY <3>1, <3>2, LikeFacts
        <5> QED
          BY <5>1, <5>2, <5>3 DEF Working
      <4> QED
        BY <4>1, <4>2
    <3> QED
      BY <3>3, <3>4
  <2> QED
    BY <2>1, <2>2
<1>11. BooksAgree'
  <2> SUFFICES ASSUME NEW x \in Onus, NEW u \in Purposes, <<x, u>> \notin open'
               PROVE  Agrees(x, u, row', alloc')
    BY DEF BooksAgree, Present, Of, Agrees
  <2>1. <<x, u>> \notin open /\ ~(x \in robbed /\ u = u0)
    BY <1>3
  <2>2. Agrees(x, u, row, alloc)
    BY <2>1 DEF BooksInv, BooksAgree, Present, Of, Agrees
  <2>3. {b \in alloc' : b.onu = x /\ Purpose[b.pool] = u}
          = {b \in alloc : b.onu = x /\ Purpose[b.pool] = u}
    BY <1>2, <2>1
  <2> QED
    BY <1>0, <2>2, <2>3 DEF Agrees
<1> QED
  BY <1>5, <1>6, <1>8, <1>9, <1>10, <1>11 DEF BooksInv, Inv, CopiesRight, WorkRight

\* Where a call for an ONU begins.
Begins(r, o) ==
    \/ /\ r.pc = "keep" /\ r.op \in {"assignWan", "assignMgmt"}
       /\ r.pool \in Pools /\ Purpose[r.pool] = Keeps(r.op)
    \/ /\ r.pc = "taken" /\ r.op = "adoptWan" /\ r.want # 0
       /\ r.pool \in Pools /\ Purpose[r.pool] = Keeps(r.op)
       /\ row[o]["internet"] # None /\ r.pool = row[o]["internet"].pool
    \/ r.pc = "pools" /\ r.op \in Releasing
    \/ /\ r.pc = "pools" /\ r.op = "changeMgmt"
       /\ r.pool # None => Purpose[r.pool] = "management"
    \/ r.pc = "save" /\ r.op = "edit"
    \/ r.pc = "purge" /\ r.op = "purge"

LEMMA BegunType ==
    ASSUME NEW rec \in Call, NEW o \in Onus, NEW copy \in Row,
           NEW alone \in BOOLEAN, NEW sound \in BOOLEAN
    PROVE  [rec EXCEPT !.onu = o, !.copy = copy, !.alone = alone, !.sound = sound] \in Call
  BY DEF Call

LEMMA StartsBooks ==
    ASSUME BooksInv, NEW c \in Calls, NEW o \in Onus, NEW rec \in Call, Starts(c, o, rec),
           Begins(rec, o), rec.keep = None, rec.found = {}
    PROVE  BooksInv'
<1> DEFINE u0 == Keeps(rec.op)
           solo == On(o) = {}
           sound == <<o, u0>> \notin open
           r == [rec EXCEPT !.onu = o, !.copy = row[o], !.alone = solo, !.sound = sound]
           T == Its(r, alloc)
<1>0. /\ TypeOK /\ call[c].pc = "idle" /\ requests < MaxRequests /\ requests' = requests + 1
      /\ row[o] \in Row
      /\ call' = [d \in Calls |-> IF d = c THEN r
                                  ELSE IF d \in On(o) THEN [call[d] EXCEPT !.alone = FALSE]
                                  ELSE call[d]]
      /\ open' = IF solo THEN open ELSE open \union ({o} \X Purposes)
      /\ UNCHANGED <<hosts, row, alloc, faults>>
  BY BusyFacts DEF Starts, Present
<1>1. /\ rec.pc # "idle" /\ rec.op \in Ops /\ rec.op \notin PoolOps /\ u0 \in Purposes
      /\ rec.pc # "reload"
  BY DEF Begins, Ops, PoolOps, Releasing, Keeps, Purposes
<1>2. r \in Call
  <2>1. solo \in BOOLEAN /\ sound \in BOOLEAN
    OBVIOUS
  <2>2. row[o] \in Row
    BY <1>0
  <2> HIDE DEF solo, sound
  <2> QED
    BY <2>1, <2>2, BegunType
<1>3. /\ r.pc = rec.pc /\ r.op = rec.op /\ r.onu = o /\ r.pool = rec.pool /\ r.want = rec.want
      /\ r.copy = row[o] /\ r.keep = None /\ r.found = {} /\ r.alone = solo /\ r.sound = sound
  BY DEF Call
<1> HIDE DEF r, solo
<1>4. Held(r) = {} /\ Kept(r) = {}
  BY <1>3 DEF Held, Kept
<1>5. Right(r)
  <2>1. Own(r)
    BY <1>4 DEF Own
  <2>2. CASE rec.pc = "keep"
    BY <1>0, <1>1, <1>3, <2>1, <2>2 DEF Begins, Right, Placed, Adding, Releasing, Ops, PoolOps
  <2>3. CASE rec.pc = "taken"
    BY <1>0, <1>1, <1>3, <2>1, <2>3 DEF Begins, Right, Placed, Adding, Releasing, Ops, PoolOps
  <2>4. CASE rec.pc \in {"pools", "save", "purge"}
    BY <1>0, <1>1, <1>3, <2>1, <2>4 DEF Begins, Right, Placed, Adding, Releasing, Ops, PoolOps
  <2> QED
    BY <2>2, <2>3, <2>4 DEF Begins
<1>6. On(o) # {} => \A u \in Purposes : <<o, u>> \in open'
  BY <1>0 DEF solo
<1>7. /\ open \subseteq open' /\ open' \subseteq Onus \X Purposes
      /\ \A x \in Onus, u \in Purposes : x # o => (<<x, u>> \in open' <=> <<x, u>> \in open)
  BY <1>0 DEF TypeOK
<1>8. ASSUME Undisturbed(r, open') PROVE Works(r, T)
  <2>1. On(o) = {} /\ open' = open
    BY <1>0, <1>1, <1>3, <1>6, <1>8 DEF Undisturbed, solo
  <2>2. ASSUME rec.op \in {"assignMgmt", "adoptWan"}
        PROVE  Agrees(o, u0, row, alloc)
    <3>1. ~Settles(rec.op)
      BY <2>2 DEF Settles
    <3>2. <<o, u0>> \notin open
      BY <1>3, <1>8, <2>1, <3>1 DEF Undisturbed
    <3> QED
      BY <1>1, <3>2 DEF BooksInv, BooksAgree, Present, Of, Agrees
  <2>3. T = {b \in alloc : b.onu = o /\ Purpose[b.pool] = u0}
    BY <1>3 DEF Its
  <2>4. ASSUME rec.op \in {"assignMgmt", "adoptWan"}, NEW a \in T
        PROVE  SlotOf(a) = row[o][u0] /\ a \in alloc /\ a.onu = o
    <3>1. {SlotOf(b) : b \in T} = {row[o][u0]} \ {None}
      BY <1>0, <2>2, <2>3, <2>4 DEF Agrees
    <3>2. SlotOf(a) \in {SlotOf(b) : b \in T}
      OBVIOUS
    <3>3. a \in alloc /\ a.onu = o
      BY <2>3
    <3> HIDE DEF T
    <3> QED
      BY <3>1, <3>2, <3>3
  <2>5. rec.op = "assignMgmt" => \A a, b \in T : a = b
    <3> SUFFICES ASSUME rec.op = "assignMgmt", NEW a \in T, NEW b \in T PROVE a = b
      OBVIOUS
    <3>1. SlotOf(a) = SlotOf(b) /\ a \in alloc /\ b \in alloc
      BY <2>4
    <3>2. a.pool = b.pool /\ a.ip = b.ip
      BY <3>1 DEF SlotOf
    <3> QED
      BY <3>1, <3>2, BusyFacts DEF Unique
  <2>6. rec.op = "adoptWan" => \A a \in T : a.pool = rec.pool
    <3> SUFFICES ASSUME rec.op = "adoptWan", NEW a \in T PROVE a.pool = rec.pool
      OBVIOUS
    <3>1. SlotOf(a) = row[o]["internet"]
      BY <2>4 DEF Keeps
    <3> QED
      BY <3>1 DEF SlotOf, Begins, Releasing
  <2> HIDE DEF T
  <2>7. \/ rec.op = "assignWan" \/ rec.op = "edit" \/ rec.op = "purge" \/ rec.op = "changeMgmt"
        \/ rec.op \in Releasing
          => rec.pc # "taken"
    BY DEF Begins, Releasing
  <2> QED
    BY <1>3, <1>4, <2>5, <2>6 DEF Works, Begins, Releasing
<1>9. /\ call'[c] = r
      /\ \A d \in Calls : d # c => /\ call'[d] \in Call /\ Held(call'[d]) = Held(call[d])
                                   /\ Like(call'[d], call[d])
                                   /\ d \in On(o) => ~call'[d].alone
  <2>1. call'[c] = r
    BY <1>0
  <2>2. ASSUME NEW d \in Calls, d # c
        PROVE  /\ call'[d] \in Call /\ Held(call'[d]) = Held(call[d]) /\ Like(call'[d], call[d])
               /\ d \in On(o) => ~call'[d].alone
    <3>1. call[d] \in Call
      BY <1>0 DEF TypeOK
    <3>2. CASE call'[d] = call[d] /\ d \notin On(o)
      BY <3>1, <3>2 DEF Held, Like
    <3>3. CASE call'[d] = [call[d] EXCEPT !.alone = FALSE]
      BY <3>1, <3>3 DEF Held, Like, Call
    <3> QED
      BY <1>0, <2>2, <3>2, <3>3
  <2> QED
    BY <2>1, <2>2
<1>10. TypeOK'
  <2>1. call' \in [Calls -> Call]
    BY <1>0, <1>2, <1>9
  <2>2. requests' \in 0 .. MaxRequests
    <3>1. requests \in 0 .. MaxRequests /\ MaxRequests \in Nat
      BY <1>0, BoundsAssumption DEF TypeOK
    <3> QED
      BY <1>0, <3>1
  <2> QED
    BY <1>0, <1>7, <2>1, <2>2 DEF TypeOK
<1>11. LocalsRight'
  BY <1>5, <1>9, LikeFacts DEF BooksInv, Inv, LocalsRight
<1>12. Known' \subseteq Known
  <2>1. \A d \in Calls : Held(call'[d]) \subseteq Held(call[d])
    BY <1>4, <1>9
  <2> QED
    BY <1>0, <2>1, KnownLess
<1>13. TablesRight'
  <2>1. ASSUME NEW x \in Onus, row'[x] = Unborn PROVE On(x)' = {}
    <3>1. x # o /\ \A d \in Calls : call[d].pc = "idle" \/ call[d].onu # x
      BY <1>0, <2>1, NoneAssumption DEF BooksInv, TablesRight, On
    <3>2. \A d \in Calls : call'[d].pc = "idle" \/ call'[d].onu # x
      BY <1>3, <1>9, <3>1 DEF Like
    <3> QED
      BY <3>2 DEF On
  <2> QED
    BY <1>0, <1>12, <2>1 DEF BooksInv, TablesRight, Unique, Present
<1>14. Together'
  <2>1. ASSUME NEW e \in Calls, e # c, call'[e].pc # "idle", call'[e].onu = o
        PROVE  ~call'[e].alone /\ ~call'[c].alone /\ {o} \X Purposes \subseteq open'
    <3>1. e \in On(o)
      BY <1>9, <2>1 DEF On, Like
    <3>2. ~solo /\ On(o) # {}
      BY <3>1 DEF solo
    <3>3. ~call'[c].alone
      BY <1>3, <1>9, <3>2
    <3>4. ~call'[e].alone
      BY <1>9, <2>1, <3>1
    <3>5. {o} \X Purposes \subseteq open'
      BY <1>6, <3>2
    <3> QED
      BY <3>3, <3>4, <3>5
  <2>2. ASSUME NEW d \in Calls, NEW e \in Calls, d # e, d # c, e # c, call'[d].pc # "idle",
               call'[e].pc # "idle", call'[d].onu = call'[e].onu, call'[d].onu \in Onus
        PROVE  ~call'[d].alone /\ {call'[d].onu} \X Purposes \subseteq open'
    <3>1. /\ call[d].pc # "idle" /\ call[e].pc # "idle" /\ call[d].onu = call'[d].onu
          /\ call[e].onu = call'[e].onu /\ (call'[d].alone => call[d].alone)
      BY <1>9, <2>2 DEF Like
    <3>2. ~call[d].alone /\ {call[d].onu} \X Purposes \subseteq open
      BY <2>2, <3>1 DEF BooksInv, Together
    <3> QED
      BY <1>7, <3>1, <3>2
  <2> QED
    BY <1>3, <1>9, <2>1, <2>2 DEF Together
<1>15. ASSUME NEW d \in Calls PROVE Copied(call'[d], row', open') /\ Working(call'[d], alloc', open')
  <2>1. CASE d = c
    <3>1. Copied(r, row', open')
      BY <1>0, <1>3 DEF Copied
    <3>2. Working(r, alloc', open')
      BY <1>0, <1>8 DEF Working
    <3> QED
      BY <1>9, <2>1, <3>1, <3>2
  <2>2. CASE d # c
    <3>1. Copied(call'[d], row, open) /\ Working(call'[d], alloc, open) /\ Like(call'[d], call[d])
      BY <1>9, <2>2, BusyFacts, LikeFacts
    <3>2. Copied(call'[d], row', open')
      BY <1>0, <1>7, <3>1 DEF Copied
    <3>3. CASE call'[d].onu = o /\ call'[d].pc # "idle"
      <4>1. d \in On(o) /\ Keeps(call'[d].op) \in Purposes
        BY <3>1, <3>3 DEF On, Like, Keeps, Purposes
      <4>2. ~Undisturbed(call'[d], open')
        BY <1>6, <1>9, <2>2, <3>3, <4>1 DEF Undisturbed
      <4> QED
        BY <3>2, <4>2 DEF Working
    <3>4. CASE ~(call'[d].onu = o /\ call'[d].pc # "idle")
      <4>1. Busy(call'[d]) => call'[d].onu \in Onus /\ Keeps(call'[d].op) \in Purposes
        BY <1>11 DEF LocalsRight, Right, Placed, Busy, Keeps, Purposes
      <4>2. Working(call'[d], alloc', open')
        BY <1>0, <1>7, <3>1, <3>4, <4>1 DEF Working, Undisturbed, Busy
      <4> QED
        BY <3>2, <4>2
    <3> QED
      BY <3>3, <3>4
  <2> QED
    BY <2>1, <2>2
<1>16. BooksAgree'
  BY <1>0, <1>7 DEF BooksInv, BooksAgree, Present, Of
<1> QED
  BY <1>10, <1>11, <1>13, <1>14, <1>15, <1>16 DEF BooksInv, Inv, CopiesRight, WorkRight

\* What the locals of a new call have in common.
LEMMA IdleFields ==
    /\ Idle \in Call /\ Idle.keep = None /\ Idle.found = {} /\ Idle.pool = None
    /\ Idle.size = 0 /\ Idle.want = 0 /\ 0 \in 0 .. MaxHosts
  BY IdleFacts, BoundsAssumption DEF Idle

LEMMA AssignWanBooks ==
    ASSUME BooksInv, NEW c \in Calls, NEW o \in Onus, NEW p \in Pools, NEW want \in 0 .. MaxHosts,
           AssignWan(c, o, p, want)
    PROVE  BooksInv'
<1> DEFINE size == hosts[p]
           rec == [Idle EXCEPT !.pc = "keep", !.op = "assignWan", !.pool = p, !.size = size,
                               !.want = want]
<1>1. Starts(c, o, rec) /\ Purpose[p] = "internet"
  BY DEF AssignWan
<1>2. size \in 0 .. MaxHosts
  BY BusyFacts
<1> HIDE DEF size
<1>3. rec \in Call
  BY <1>2, IdleFields DEF Call, Pcs, Ops
<1>4. /\ rec.keep = None /\ rec.found = {} /\ rec.pc = "keep" /\ rec.op = "assignWan"
      /\ rec.pool = p
  BY IdleFields DEF Call
<1> HIDE DEF rec
<1>5. Begins(rec, o)
  BY <1>1, <1>4 DEF Begins, Keeps
<1> QED
  BY <1>1, <1>3, <1>4, <1>5, StartsBooks

LEMMA AdoptWanBooks ==
    ASSUME BooksInv, NEW c \in Calls, NEW o \in Onus, NEW want \in Hosts, AdoptWan(c, o, want)
    PROVE  BooksInv'
<1> DEFINE p == row[o]["internet"].pool
           size == hosts[p]
           rec == [Idle EXCEPT !.pc = "taken", !.op = "adoptWan", !.pool = p, !.size = size,
                               !.want = want]
<1>1. Starts(c, o, rec) /\ row[o] \in Row /\ row[o]["internet"] # None
  BY DEF AdoptWan, Present
<1>2. row[o]["internet"] \in Slots /\ p \in Pools /\ Purpose[p] = "internet"
  BY <1>1 DEF Row, Purposes, Slots
<1>3. size \in 0 .. MaxHosts /\ want \in 0 .. MaxHosts /\ want # 0
  BY <1>2, BusyFacts, BoundsAssumption DEF Hosts
<1>6. p = row[o]["internet"].pool
  OBVIOUS
<1> HIDE DEF size, p
<1>4. rec \in Call
  BY <1>2, <1>3, IdleFields DEF Call, Pcs, Ops
<1>5. /\ rec.keep = None /\ rec.found = {} /\ rec.pc = "taken" /\ rec.op = "adoptWan"
      /\ rec.pool = p /\ rec.want = want
  BY IdleFields DEF Call
<1> HIDE DEF rec
<1>7. Begins(rec, o)
  BY <1>1, <1>2, <1>3, <1>5, <1>6 DEF Begins, Keeps
<1> QED
  BY <1>1, <1>4, <1>5, <1>7, StartsBooks

LEMMA AssignMgmtBooks ==
    ASSUME BooksInv, NEW c \in Calls, NEW o \in Onus, NEW p \in Pools, AssignMgmt(c, o, p)
    PROVE  BooksInv'
<1> DEFINE size == hosts[p]
           rec == [Idle EXCEPT !.pc = "keep", !.op = "assignMgmt", !.pool = p, !.size = size]
<1>1. Starts(c, o, rec) /\ Purpose[p] = "management"
  BY DEF AssignMgmt
<1>2. size \in 0 .. MaxHosts
  BY BusyFacts
<1> HIDE DEF size
<1>3. rec \in Call
  BY <1>2, IdleFields DEF Call, Pcs, Ops
<1>4. /\ rec.keep = None /\ rec.found = {} /\ rec.pc = "keep" /\ rec.op = "assignMgmt"
      /\ rec.pool = p
  BY IdleFields DEF Call
<1> HIDE DEF rec
<1>5. Begins(rec, o)
  BY <1>1, <1>4 DEF Begins, Keeps
<1> QED
  BY <1>1, <1>3, <1>4, <1>5, StartsBooks

LEMMA ChangeMgmtBooks ==
    ASSUME BooksInv, NEW c \in Calls, NEW o \in Onus, NEW p \in Pools \union {None},
           ChangeMgmt(c, o, p)
    PROVE  BooksInv'
<1> DEFINE rec == [Idle EXCEPT !.pc = "pools", !.op = "changeMgmt", !.pool = p]
<1>1. Starts(c, o, rec) /\ (p # None => Purpose[p] = "management")
  BY DEF ChangeMgmt
<1>2. rec \in Call
  BY IdleFields DEF Call, Pcs, Ops
<1>3. /\ rec.keep = None /\ rec.found = {} /\ rec.pc = "pools" /\ rec.op = "changeMgmt"
      /\ rec.pool = p
  BY IdleFields DEF Call
<1> HIDE DEF rec
<1>4. Begins(rec, o)
  BY <1>1, <1>3 DEF Begins
<1> QED
  BY <1>1, <1>2, <1>3, <1>4, StartsBooks

\* Requests that need nothing but the ONU.
LEMMA PlainBooks ==
    ASSUME BooksInv, NEW c \in Calls, NEW o \in Onus,
           ReleaseWan(c, o) \/ ReleaseMgmt(c, o) \/ Edit(c, o) \/ Purge(c, o)
    PROVE  BooksInv'
<1>1. ASSUME NEW pc \in {"pools", "save", "purge"},
             NEW op \in {"releaseWan", "releaseMgmt", "edit", "purge"},
             pc = "pools" => op \in Releasing, pc = "save" => op = "edit",
             pc = "purge" => op = "purge",
             Starts(c, o, [Idle EXCEPT !.pc = pc, !.op = op])
      PROVE  BooksInv'
  <2> DEFINE rec == [Idle EXCEPT !.pc = pc, !.op = op]
  <2>1. rec \in Call
    BY IdleFields DEF Call, Pcs, Ops
  <2>2. rec.keep = None /\ rec.found = {} /\ rec.pc = pc /\ rec.op = op
    BY IdleFields DEF Call
  <2>3. Starts(c, o, rec)
    BY <1>1
  <2> HIDE DEF rec
  <2>4. Begins(rec, o)
    BY <1>1, <2>2 DEF Begins
  <2> QED
    BY <2>1, <2>2, <2>3, <2>4, StartsBooks
<1> QED
  BY <1>1 DEF ReleaseWan, ReleaseMgmt, Edit, Purge, Releasing

\* A call about a pool begins.
LEMMA PoolBooks ==
    ASSUME BooksInv, NEW c \in Calls, NEW p \in Pools, NEW n \in Hosts,
           ResizePool(c, p, n) \/ RemovePool(c, p)
    PROVE  BooksInv'
<1>1. PICK r \in Call :
        /\ call' = [call EXCEPT ![c] = r] /\ r.keep = None /\ r.found = {}
        /\ r.onu = None /\ r.pool = p /\ r.op \in PoolOps
        /\ \/ r.pc = "check" /\ r.op = "resize" /\ r.size # 0
           \/ r.pc = "count" /\ r.op = "remove"
  <2>1. CASE ResizePool(c, p, n)
    <3> DEFINE r == [Idle EXCEPT !.pc = "check", !.op = "resize", !.pool = p, !.size = n]
    <3>1. n \in 0 .. MaxHosts /\ n # 0
      BY BoundsAssumption DEF Hosts
    <3>2. r \in Call
      BY <3>1, IdleFields DEF Call, Pcs, PoolOps
    <3>3. /\ r.keep = None /\ r.found = {} /\ r.onu = None /\ r.pool = p /\ r.op = "resize"
          /\ r.pc = "check" /\ r.size = n
      BY DEF Idle
    <3>4. call' = [call EXCEPT ![c] = r]
      BY <2>1 DEF ResizePool
    <3> HIDE DEF r
    <3> QED
      BY <3>1, <3>2, <3>3, <3>4 DEF PoolOps
  <2>2. CASE RemovePool(c, p)
    <3> DEFINE r == [Idle EXCEPT !.pc = "count", !.op = "remove", !.pool = p]
    <3>2. r \in Call
      BY IdleFields DEF Call, Pcs, PoolOps
    <3>3. /\ r.keep = None /\ r.found = {} /\ r.onu = None /\ r.pool = p /\ r.op = "remove"
          /\ r.pc = "count"
      BY DEF Idle
    <3>4. call' = [call EXCEPT ![c] = r]
      BY <2>2 DEF RemovePool
    <3> HIDE DEF r
    <3> QED
      BY <3>2, <3>3, <3>4 DEF PoolOps
  <2> QED
    BY <2>1, <2>2
<1>2. /\ TypeOK /\ UNCHANGED <<hosts, row, alloc, open, faults>> /\ call[c].pc = "idle"
      /\ requests < MaxRequests /\ requests' = requests + 1
  BY BusyFacts DEF ResizePool, RemovePool
<1>3. /\ r.op \notin Ops /\ None \notin Onus /\ Held(r) = {}
  BY <1>1, NoneAssumption DEF Ops, PoolOps, Held
<1>4. /\ call' \in [Calls -> Call] /\ call'[c] = r
      /\ \A d \in Calls : d # c => call'[d] = call[d]
  BY <1>1, <1>2 DEF TypeOK
<1>5. TypeOK'
  <2>1. requests' \in 0 .. MaxRequests
    <3>1. requests \in 0 .. MaxRequests /\ MaxRequests \in Nat
      BY <1>2, BoundsAssumption DEF TypeOK
    <3> QED
      BY <1>2, <3>1
  <2> QED
    BY <1>2, <1>4, <2>1 DEF TypeOK
<1>6. Right(r)
  BY <1>1, <1>3 DEF Right, Placed, Own, Adding, Releasing, Ops, PoolOps
<1>7. LocalsRight'
  BY <1>4, <1>6 DEF BooksInv, Inv, LocalsRight
<1>8. Known' \subseteq Known
  <2>1. \A d \in Calls : Held(call'[d]) \subseteq Held(call[d])
    BY <1>3, <1>4
  <2> QED
    BY <1>2, <2>1 DEF Known
<1>9. TablesRight'
  <2>1. ASSUME NEW x \in Onus, row'[x] = Unborn PROVE On(x)' = {}
    <3>1. \A d \in Calls : call[d].pc = "idle" \/ call[d].onu # x
      BY <1>2, <2>1 DEF BooksInv, TablesRight, On
    <3>2. \A d \in Calls : call'[d].pc = "idle" \/ call'[d].onu # x
      BY <1>1, <1>3, <1>4, <3>1
    <3> QED
      BY <3>2 DEF On
  <2> QED
    BY <1>2, <1>8, <2>1 DEF BooksInv, TablesRight, Present
<1>10. Together'
  <2> SUFFICES ASSUME NEW d \in Calls, NEW e \in Calls, d # e, call'[d].pc # "idle",
                      call'[e].pc # "idle", call'[d].onu = call'[e].onu, call'[d].onu \in Onus
               PROVE  ~call'[d].alone /\ {call'[d].onu} \X Purposes \subseteq open'
    BY DEF Together
  <2>1. d # c /\ e # c
    BY <1>1, <1>3, <1>4
  <2> QED
    BY <1>2, <1>4, <2>1 DEF BooksInv, Together
<1>11. CopiesRight' /\ WorkRight'
  <2>1. ASSUME NEW d \in Calls
        PROVE  Copied(call'[d], row', open') /\ Working(call'[d], alloc', open')
    BY <1>2, <1>3, <1>4, BusyFacts DEF Copied, Working
  <2> QED
    BY <2>1 DEF CopiesRight, WorkRight
<1>12. BooksAgree'
  BY <1>2 DEF BooksInv, BooksAgree, Present, Of
<1> QED
  BY <1>5, <1>7, <1>9, <1>10, <1>11, <1>12 DEF BooksInv, Inv

LEMMA AuthoriseBooks == ASSUME BooksInv, NEW o \in Onus, Authorise(o) PROVE BooksInv'
<1> DEFINE fresh == [u \in Purposes |-> None]
<1>0. /\ TypeOK /\ row[o] = Unborn /\ row' = [row EXCEPT ![o] = fresh]
      /\ UNCHANGED <<hosts, alloc, call, open, requests, faults>>
  BY DEF BooksInv, Inv, Authorise
<1>1. fresh \in Row /\ \A u \in Purposes : fresh[u] = None
  BY DEF Row
<1> HIDE DEF fresh
<1>2. /\ row' \in [Onus -> Row \union {Unborn, Gone}] /\ row'[o] = fresh
      /\ \A x \in Onus : x # o => row'[x] = row[x]
  BY <1>0, <1>1 DEF TypeOK
<1>3. Unborn \notin Row
  BY NoneAssumption
<1>4. /\ On(o) = {} /\ \A a \in alloc : a.onu \in Onus /\ row[a.onu] \in Row
      /\ \A a \in alloc : a.onu # o
  BY <1>0, <1>3 DEF BooksInv, TablesRight, Present, TypeOK, Alloc
<1>5. TypeOK'
  BY <1>0, <1>2 DEF TypeOK
<1>6. LocalsRight'
  BY <1>0 DEF BooksInv, Inv, LocalsRight
<1>7. TablesRight'
  <2>1. Known' = Known
    BY <1>0 DEF Known
  <2>2. \A x \in Onus : row'[x] = Unborn => row[x] = Unborn
    BY <1>1, <1>2, <1>3
  <2>3. \A a \in alloc' : row'[a.onu] \in Row
    BY <1>0, <1>2, <1>4
  <2>4. \A x \in Onus : On(x)' = On(x)
    BY <1>0 DEF On
  <2> QED
    BY <1>0, <2>1, <2>2, <2>3, <2>4 DEF BooksInv, TablesRight, Present
<1>8. Together'
  BY <1>0 DEF BooksInv, Together
<1>9. CopiesRight'
  <2>1. ASSUME NEW d \in Calls PROVE Copied(call'[d], row', open')
    <3>1. Copied(call[d], row, open) /\ Right(call[d])
      BY BusyFacts
    <3>2. Busy(call[d]) => call[d].onu \in Onus /\ call[d].onu # o
      BY <1>4, <3>1 DEF Busy, On, Right, Placed
    <3> QED
      BY <1>0, <1>2, <3>1, <3>2 DEF Copied, Busy
  <2> QED
    BY <2>1 DEF CopiesRight
<1>10. WorkRight'
  BY <1>0 DEF BooksInv, WorkRight
<1>11. BooksAgree'
  <2> SUFFICES ASSUME NEW x \in Onus, NEW u \in Purposes, <<x, u>> \notin open'
               PROVE  Agrees(x, u, row', alloc')
    BY DEF BooksAgree, Present, Of, Agrees
  <2>1. CASE x = o
    <3>1. {b \in alloc' : b.onu = x /\ Purpose[b.pool] = u} = {}
      BY <1>0, <1>4, <2>1
    <3>2. {SlotOf(b) : b \in {}} = {} /\ {None} \ {None} = {}
      OBVIOUS
    <3> QED
      BY <1>1, <1>2, <2>1, <3>1, <3>2 DEF Agrees
  <2>2. CASE x # o
    <3>1. Agrees(x, u, row, alloc)
      BY <1>0 DEF BooksInv, BooksAgree, Present, Of, Agrees
    <3> QED
      BY <1>0, <1>2, <2>2, <3>1 DEF Agrees
  <2> QED
    BY <2>1, <2>2
<1> QED
  BY <1>5, <1>6, <1>7, <1>8, <1>9, <1>10, <1>11 DEF BooksInv, Inv

LEMMA RestartBooks == ASSUME BooksInv, Restart PROVE BooksInv'
<1>0. /\ TypeOK /\ faults < MaxFaults /\ faults' = faults + 1
      /\ call' = [c \in Calls |-> Idle] /\ UNCHANGED <<hosts, row, alloc, open, requests>>
  BY DEF BooksInv, Inv, Restart
<1>1. TypeOK'
  <2>1. faults' \in 0 .. MaxFaults
    <3>1. faults \in 0 .. MaxFaults /\ MaxFaults \in Nat
      BY <1>0, BoundsAssumption DEF TypeOK
    <3> QED
      BY <1>0, <3>1
  <2> QED
    BY <1>0, <2>1, IdleFacts DEF TypeOK
<1>2. \A c \in Calls : call'[c] = Idle
  BY <1>0
<1>3. LocalsRight' /\ CopiesRight' /\ WorkRight' /\ Together'
  BY <1>2, IdleFacts DEF LocalsRight, CopiesRight, WorkRight, Together
<1>4. TablesRight'
  <2>1. Known' \subseteq Known
    BY <1>0, <1>2, IdleFacts DEF Known
  <2>2. \A x \in Onus : On(x)' = {}
    BY <1>2, IdleFacts DEF On
  <2> QED
    BY <1>0, <2>1, <2>2 DEF BooksInv, TablesRight, Present
<1>5. BooksAgree'
  BY <1>0 DEF BooksInv, BooksAgree, Present, Of
<1> QED
  BY <1>1, <1>3, <1>4, <1>5 DEF BooksInv, Inv

-----------------------------------------------------------------------------
(* The invariant is inductive *)

LEMMA InitBooks == Init => BooksInv
<1> SUFFICES ASSUME Init PROVE BooksInv
  OBVIOUS
<1>1. TypeOK
  <2>1. /\ MaxHosts \in 0 .. MaxHosts /\ 0 \in 0 .. MaxRequests /\ 0 \in 0 .. MaxFaults
    BY BoundsAssumption
  <2> QED
    BY <2>1, IdleFacts DEF Init, TypeOK
<1>2. \A c \in Calls : call[c] = Idle
  BY DEF Init
<1>3. LocalsRight /\ CopiesRight /\ WorkRight /\ Together
  BY <1>2, IdleFacts DEF LocalsRight, CopiesRight, WorkRight, Together
<1>4. TablesRight
  <2>1. Known = {} /\ alloc = {}
    BY <1>2, IdleFacts DEF Init, Known
  <2>2. \A x \in Onus : On(x) = {}
    BY <1>2, IdleFacts DEF On
  <2> QED
    BY <2>1, <2>2 DEF TablesRight, Unique
<1>5. BooksAgree
  BY NoneAssumption DEF Init, BooksAgree, Present
<1> QED
  BY <1>1, <1>3, <1>4, <1>5 DEF BooksInv, Inv

LEMMA NextBooks == BooksInv /\ PoolsRight /\ [Next]_vars => BooksInv'
<1> SUFFICES ASSUME BooksInv, PoolsRight, [Next]_vars PROVE BooksInv'
  OBVIOUS
<1>1. ASSUME NEW o \in Onus, Authorise(o) PROVE BooksInv'
  BY <1>1, AuthoriseBooks
<1>2. ASSUME NEW c \in Calls, Request(c) PROVE BooksInv'
  <2>1. 1 \in Hosts
    BY BoundsAssumption DEF Hosts
  <2> QED
    BY <1>2, <2>1, AssignWanBooks, AdoptWanBooks, AssignMgmtBooks, ChangeMgmtBooks, PlainBooks, PoolBooks
    DEF Request
<1>3. ASSUME NEW c \in Calls, Step(c) PROVE BooksInv'
  BY <1>3, FindKeepBooks, ListPoolsBooks, FindOthersBooks, DropBooks, DroppedBooks,
     FindPoolBooks, FindTakenBooks, UnkeepBooks, InsertBooks, ChooseBooks, SaveRowBooks, ReloadBooks, SaveAgainBooks, PurgeAllocsBooks,
     PurgeRowBooks, CheckBooks, ResizeRowBooks, RemoveRowBooks
  DEF Step
<1>4. ASSUME NEW c \in Calls, Throw(c) PROVE BooksInv'
  BY <1>4, ThrowBooks
<1>5. CASE Restart
  BY <1>5, RestartBooks
<1>6. CASE UNCHANGED vars
  <2>1. TypeOK'
    BY <1>6 DEF BooksInv, Inv, TypeOK, vars
  <2>2. LocalsRight' /\ CopiesRight' /\ WorkRight' /\ Together'
    BY <1>6 DEF BooksInv, Inv, LocalsRight, CopiesRight, WorkRight, Together, vars
  <2>3. Known' = Known /\ \A x \in Onus : On(x)' = On(x)
    BY <1>6 DEF Known, On, vars
  <2>4. TablesRight'
    BY <1>6, <2>3 DEF BooksInv, TablesRight, Present, vars
  <2>5. BooksAgree'
    BY <1>6 DEF BooksInv, BooksAgree, Present, Of, vars
  <2> QED
    BY <2>1, <2>2, <2>4, <2>5 DEF BooksInv, Inv
<1> QED
  BY <1>1, <1>2, <1>3, <1>4, <1>5, <1>6 DEF Next

\* Only an insert adds an allocation, which the database lets through where the pool is;
\* only remove takes a pool away, and its allocations with it.
LEMMA NextPools == BooksInv /\ PoolsRight /\ [Next]_vars => PoolsRight'
<1> SUFFICES ASSUME BooksInv, PoolsRight, [Next]_vars PROVE PoolsRight'
  OBVIOUS
<1>1. alloc' \subseteq alloc /\ UNCHANGED hosts => PoolsRight'
  BY DEF PoolsRight
<1>2. ASSUME NEW c \in Calls, Insert(c) \/ InsertWanted(c) PROVE PoolsRight'
  <2>1. hosts' = hosts /\ hosts \in [Pools -> 0 .. MaxHosts]
    BY <1>2, BusyFacts DEF Insert, InsertWanted
  <2>2. CASE alloc' = alloc
    BY <1>1, <2>1, <2>2
  <2>3. ASSUME NEW i, Accepts(call[c].pool, i, call[c].onu), Inserted(c, i) PROVE PoolsRight'
    <3> DEFINE new == [id |-> NewId, pool |-> call[c].pool, ip |-> i, onu |-> call[c].onu]
    <3>1. alloc' = alloc \union {new} /\ new.pool = call[c].pool
      BY <2>3 DEF Inserted
    <3>2. hosts[call[c].pool] # 0
      BY <2>3 DEF Accepts
    <3> HIDE DEF new
    <3> QED
      BY <2>1, <3>1, <3>2 DEF PoolsRight
  <2> QED
    BY <1>2, <2>2, <2>3 DEF Insert, InsertWanted
<1>3. ASSUME NEW c \in Calls, ResizeRow(c) PROVE PoolsRight'
  <2>1. call[c].size # 0 /\ call[c].pool \in Pools
    BY <1>3, BusyFacts DEF ResizeRow, Right, Placed, PoolOps
  <2>2. /\ hosts' = [hosts EXCEPT ![call[c].pool] = call[c].size] /\ alloc' = alloc
        /\ hosts \in [Pools -> 0 .. MaxHosts] /\ \A a \in alloc : a.pool \in Pools
    BY <1>3, BusyFacts DEF ResizeRow, Alloc
  <2> QED
    BY <2>1, <2>2 DEF PoolsRight
<1>4. ASSUME NEW c \in Calls, RemoveRow(c) PROVE PoolsRight'
  <2>1. /\ hosts' = [hosts EXCEPT ![call[c].pool] = 0]
        /\ alloc' = alloc \ {a \in alloc : a.pool = call[c].pool}
        /\ hosts \in [Pools -> 0 .. MaxHosts] /\ \A a \in alloc : a.pool \in Pools
    BY <1>4, BusyFacts DEF RemoveRow, Alloc
  <2> QED
    BY <2>1 DEF PoolsRight
<1>5. ASSUME NEW c \in Calls, Request(c) PROVE PoolsRight'
  <2>1. UNCHANGED <<hosts, alloc>>
    BY <1>5 DEF Request, AssignWan, AdoptWan, AssignMgmt, ChangeMgmt, ReleaseWan, ReleaseMgmt, Edit,
                Purge, Starts, ResizePool, RemovePool
  <2> QED
    BY <1>1, <2>1
<1>6. ASSUME NEW c \in Calls,
             \/ FindKeep(c) \/ ListPools(c) \/ FindOthers(c) \/ Dropped(c) \/ FindPool(c)
             \/ FindTaken(c) \/ Choose(c) \/ SaveRow(c) \/ Reload(c) \/ SaveAgain(c)
             \/ CheckRange(c) \/ CountAllocs(c) \/ Throw(c)
      PROVE  PoolsRight'
  <2>1. UNCHANGED <<hosts, alloc>>
    BY <1>6 DEF FindKeep, ListPools, FindOthers, Dropped, FindPool, FindTaken, Choose, SaveRow,
                Reload, SaveAgain, CheckRange, CountAllocs, Throw
  <2> QED
    BY <1>1, <2>1
<1>7. ASSUME NEW c \in Calls, Drop(c) \/ Unkeep(c) \/ PurgeAllocs(c) \/ PurgeRow(c)
      PROVE  PoolsRight'
  <2>1. alloc' \subseteq alloc /\ UNCHANGED hosts
    BY <1>7 DEF Drop, Unkeep, Delete, PurgeAllocs, PurgeRow
  <2> QED
    BY <1>1, <2>1
<1>8. ASSUME NEW c \in Calls, Step(c) PROVE PoolsRight'
  BY <1>2, <1>3, <1>4, <1>6, <1>7, <1>8 DEF Step
<1>9. CASE (\E o \in Onus : Authorise(o)) \/ Restart \/ UNCHANGED vars
  BY <1>1, <1>9 DEF Authorise, Restart, vars
<1> QED
  BY <1>5, <1>6, <1>8, <1>9 DEF Next

LEMMA BooksInvariant == Spec => [](BooksInv /\ PoolsRight)
<1>1. Init => PoolsRight
  BY DEF Init, PoolsRight
<1> QED
  BY <1>1, InitBooks, NextBooks, NextPools, PTL DEF Spec

-----------------------------------------------------------------------------
(* Lost tries *)

\* A call with locals r is about to look for a free address: it has found none of its ONU
\* in the pool, or dropped all there were.
Seeks(r) ==
    /\ r.op \in {"assignWan", "assignMgmt"}
    /\ \/ r.pc \in {"pools", "others", "drop", "taken"} /\ r.keep = None
       \/ r.pc \in {"choose", "insert"}

\* A call with locals r that is alone has an ONU, and one that seeks none of its addresses
\* in the pool.  The address it chose was free, and is unless somebody else got one.
Here(r, rows) == r.alone /\ Busy(r) => rows[r.onu] \in Row
Bare(r, S) == r.alone /\ Seeks(r) => \A a \in S : a.onu = r.onu => a.pool # r.pool
Chosen(r, S) ==
    r.pc = "insert" => r.beaten > 0 \/ \A a \in S : a.pool = r.pool => a.ip # r.want
Trying(r, rows, S) == Here(r, rows) /\ Bare(r, S) /\ Chosen(r, S)

TryInv == \A c \in Calls : Trying(call[c], row, alloc)

LEMMA IdleTries == \A r : r.pc = "idle" => \A rows, S : Trying(r, rows, S)
  BY DEF Trying, Here, Bare, Chosen, Seeks, Busy

\* A call about a pool neither has an ONU nor seeks an address.
LEMMA PoolTries ==
    ASSUME NEW r, r.op \in PoolOps, r.pc # "insert"
    PROVE  \A rows, S : Trying(r, rows, S)
  BY DEF Trying, Here, Bare, Chosen, Seeks, Busy, Ops, PoolOps

\* A call with locals like those before: what it had, it has after a step that leaves an
\* ONU of which it is alone as it was, and lets nobody take the address it chose unnoticed.
Beaten(r, old) == old.beaten > 0 => r.beaten > 0

LEMMA LikeTries ==
    ASSUME NEW r, NEW old, Like(r, old), Beaten(r, old), NEW rows, NEW S, NEW rows2, NEW S2,
           Trying(old, rows, S),
           Busy(old) /\ old.alone =>
               /\ rows[old.onu] \in Row => rows2[old.onu] \in Row
               /\ \A a \in S2 : a.onu = old.onu => a \in S,
           \A a \in S2 : a.pool = old.pool => a \in S \/ r.beaten > 0
    PROVE  Trying(r, rows2, S2)
<1>1. Here(r, rows2)
  BY DEF Like, Trying, Here, Busy
<1>2. Bare(r, S2)
  <2>1. Seeks(r) => Seeks(old) /\ Busy(old)
    BY DEF Like, Seeks, Busy, Ops
  <2> QED
    BY <2>1 DEF Like, Trying, Bare
<1>3. Chosen(r, S2)
  BY DEF Like, Beaten, Trying, Chosen
<1> QED
  BY <1>1, <1>2, <1>3 DEF Trying

\* The other calls, when c takes a step.
LEMMA OthersTry ==
    ASSUME BooksInv, TryInv, NEW c \in Calls, call[c].pc # "idle",
           \A d \in Calls : d # c => Like(call'[d], call[d]) /\ Beaten(call'[d], call[d]),
           \A x \in Onus : x # call[c].onu => row'[x] = row[x],
           \A a \in alloc' : a.onu # call[c].onu => a \in alloc,
           \A d \in Calls : d # c =>
               \A a \in alloc' : a.pool = call[d].pool => a \in alloc \/ call'[d].beaten > 0,
           Trying(call'[c], row', alloc')
    PROVE  TryInv'
<1>1. ASSUME NEW d \in Calls, d # c PROVE Trying(call'[d], row', alloc')
  <2>1. Trying(call[d], row, alloc) /\ Like(call'[d], call[d]) /\ Beaten(call'[d], call[d])
    BY <1>1 DEF TryInv
  <2>2. ASSUME Busy(call[d]), call[d].alone
        PROVE  call[d].onu \in Onus /\ call[d].onu # call[c].onu
    <3>1. call[d].onu \in Onus
      BY <2>2 DEF BooksInv, Inv, LocalsRight, Right, Placed, Busy
    <3> QED
      BY <1>1, <2>2, <3>1 DEF BooksInv, Together, Busy
  <2>3. \A a \in alloc' : a.pool = call[d].pool => a \in alloc \/ call'[d].beaten > 0
    BY <1>1
  <2> QED
    BY <2>1, <2>2, <2>3, LikeTries
<1> QED
  BY <1>1 DEF TryInv

\* The other calls, when c changes nothing but its own locals and deletes allocations.
LEMMA OwnTry ==
    ASSUME BooksInv, TryInv, NEW c \in Calls, call[c].pc # "idle",
           NEW r, call' = [call EXCEPT ![c] = r],
           \A x \in Onus : x # call[c].onu => row'[x] = row[x],
           alloc' \subseteq alloc,
           Trying(r, row', alloc')
    PROVE  TryInv'
<1>1. /\ call'[c] = r /\ \A d \in Calls : d # c => call'[d] = call[d]
  BY DEF BooksInv, Inv, TypeOK
<1>2. \A d \in Calls : d # c => Like(call'[d], call[d]) /\ Beaten(call'[d], call[d])
  BY <1>1 DEF Like, Beaten
<1> QED
  BY <1>1, <1>2, OthersTry

LEMMA EndsTry ==
    ASSUME BooksInv, TryInv, NEW c \in Calls, call[c].pc # "idle", Ends(c),
           \A x \in Onus : x # call[c].onu => row'[x] = row[x], alloc' \subseteq alloc
    PROVE  TryInv'
  BY IdleTries, IdleFacts, OwnTry DEF Ends

\* A call that goes on with its ONU, in its pool, seeking an address only if it did.
LEMMA GoesOnTry ==
    ASSUME BooksInv, TryInv, NEW c \in Calls, call[c].pc # "idle",
           NEW pc \in Pcs, NEW keep, NEW found,
           call' = [call EXCEPT ![c].pc = pc, ![c].keep = keep, ![c].found = found],
           UNCHANGED row, alloc' \subseteq alloc, call[c].op \in Ops, pc # "insert",
           Seeks([call[c] EXCEPT !.pc = pc, !.keep = keep, !.found = found]) =>
               Seeks(call[c]) \/ \A a \in alloc : a.onu = call[c].onu => a.pool # call[c].pool
    PROVE  TryInv'
<1> DEFINE old == call[c]
           r == [old EXCEPT !.pc = pc, !.keep = keep, !.found = found]
<1>1. old \in Call /\ call \in [Calls -> Call] /\ Trying(old, row, alloc)
  BY DEF BooksInv, Inv, TypeOK, TryInv
<1>2. call' = [call EXCEPT ![c] = r]
  BY <1>1 DEF Call
<1>3. /\ r.pc = pc /\ r.op = old.op /\ r.onu = old.onu /\ r.pool = old.pool
      /\ r.alone = old.alone
  BY <1>1 DEF Call
<1>4. Seeks(r) => Seeks(old) \/ \A a \in alloc : a.onu = old.onu => a.pool # old.pool
  OBVIOUS
<1> HIDE DEF r
<1>5. Here(r, row') /\ Chosen(r, alloc')
  BY <1>1, <1>3 DEF Trying, Here, Busy, Chosen
<1>6. Bare(r, alloc')
  BY <1>1, <1>3, <1>4 DEF Trying, Bare
<1> QED
  BY <1>2, <1>5, <1>6, OwnTry DEF Trying

LEMMA TriesFacts ==
    ASSUME BooksInv, TryInv, NEW c \in Calls
    PROVE  /\ call[c] \in Call /\ call \in [Calls -> Call] /\ Right(call[c])
           /\ Trying(call[c], row, alloc) /\ None \notin Alloc /\ alloc \subseteq Alloc
  BY NoneAssumption DEF BooksInv, Inv, TypeOK, LocalsRight, TryInv

LEMMA FindKeepTries == ASSUME BooksInv, TryInv, NEW c \in Calls, FindKeep(c) PROVE TryInv'
<1> DEFINE old == call[c]
           mine == {a \in alloc : a.onu = old.onu /\ a.pool = old.pool}
<1>0. /\ old \in Call /\ call \in [Calls -> Call] /\ old.pc = "keep" /\ old.keep = None
      /\ old.op \in {"assignWan", "assignMgmt"} /\ UNCHANGED <<row, alloc>>
      /\ None \notin Alloc /\ alloc \subseteq Alloc
  BY TriesFacts DEF FindKeep, Right, Placed
<1>1. CASE mine = {} /\ Goto(c, "pools")
  <2>1. call' = [call EXCEPT ![c].pc = "pools", ![c].keep = old.keep, ![c].found = old.found]
    BY <1>0, <1>1 DEF Goto, Call
  <2>2. \A a \in alloc : a.onu = old.onu => a.pool # old.pool
    BY <1>1
  <2>3. "pools" \in Pcs /\ old.op \in Ops
    BY <1>0 DEF Pcs, Ops
  <2> HIDE DEF mine
  <2> QED
    BY <1>0, <2>1, <2>2, <2>3, GoesOnTry
<1>2. ASSUME NEW k \in mine,
             call' = [call EXCEPT ![c].keep = k,
                        ![c].pc = IF old.op = "assignMgmt" THEN "save" ELSE "pools"]
      PROVE  TryInv'
  <2> DEFINE next == IF old.op = "assignMgmt" THEN "save" ELSE "pools"
             r == [old EXCEPT !.pc = next, !.keep = k, !.found = old.found]
  <2>1. call' = [call EXCEPT ![c].pc = next, ![c].keep = k, ![c].found = old.found]
    BY <1>0, <1>2 DEF Call
  <2>2. next \in Pcs /\ next \notin {"insert", "choose", "idle"} /\ old.op \in Ops
    BY <1>0 DEF Pcs, Ops
  <2>3. k # None
    BY <1>0
  <2>4. r.pc = next /\ r.keep = k
    BY <1>0 DEF Call
  <2>5. ~Seeks(r)
    <3> HIDE DEF r, next
    <3> QED
      BY <2>2, <2>3, <2>4 DEF Seeks
  <2> HIDE DEF next, mine
  <2> QED
    BY <1>0, <2>1, <2>2, <2>5, GoesOnTry
<1> QED
  BY <1>1, <1>2 DEF FindKeep

\* From the search for what must go to the look at the preferred address.
LEMMA DropTries ==
    ASSUME BooksInv, TryInv, NEW c \in Calls, FindOthers(c) \/ Drop(c) \/ Dropped(c)
    PROVE  TryInv'
<1> DEFINE old == call[c]
<1>0. /\ old \in Call /\ call \in [Calls -> Call] /\ old.pc \in {"others", "drop"}
      /\ old.op \in Adding \union Releasing \union {"changeMgmt"} /\ old.op \in Ops /\ UNCHANGED row
      /\ old.op = "assignMgmt" => old.keep = None
  BY TriesFacts DEF FindOthers, Drop, Dropped, Right, Placed, Adding, Releasing, Ops
<1>1. ASSUME NEW pc \in Pcs, NEW found, alloc' \subseteq alloc, pc # "insert",
             call' = [call EXCEPT ![c].pc = pc, ![c].keep = old.keep, ![c].found = found],
             pc = "choose" => old.op \in {"assignWan", "assignMgmt"} /\ old.keep = None
      PROVE  TryInv'
  <2> DEFINE r == [old EXCEPT !.pc = pc, !.keep = old.keep, !.found = found]
  <2>1. r.pc = pc /\ r.keep = old.keep /\ r.op = old.op
    BY <1>0 DEF Call
  <2>2. Seeks(r) => Seeks(old)
    <3> HIDE DEF r
    <3> QED
      BY <1>0, <1>1, <2>1 DEF Seeks
  <2> QED
    BY <1>0, <1>1, <2>2, GoesOnTry
<1>2. CASE FindOthers(c)
  <2>1. /\ call' = [call EXCEPT ![c].pc = "drop", ![c].keep = old.keep, ![c].found = Superfluous(c)]
        /\ alloc' \subseteq alloc /\ "drop" \in Pcs
    BY <1>0, <1>2 DEF FindOthers, Call, Pcs
  <2> QED
    BY <1>1, <2>1
<1>3. CASE Drop(c)
  <2>1. PICK a \in old.found : Delete(a) /\ call' = [call EXCEPT ![c].found = @ \ {a}]
    BY <1>3 DEF Drop
  <2> DEFINE rest == old.found \ {a}
  <2>2. call' = [call EXCEPT ![c].found = rest]
    BY <2>1
  <2>3. alloc' \subseteq alloc /\ "drop" \in Pcs /\ old.pc = "drop"
    BY <1>3, <2>1 DEF Drop, Delete, Pcs
  <2> HIDE DEF rest
  <2>4. call' = [call EXCEPT ![c].pc = "drop", ![c].keep = old.keep, ![c].found = rest]
    BY <1>0, <2>2, <2>3 DEF Call
  <2> QED
    BY <1>1, <2>3, <2>4
<1>4. CASE Dropped(c)
  <2>1. /\ call' = [call EXCEPT ![c].pc = AfterDrop(c), ![c].keep = old.keep,
                                ![c].found = old.found]
        /\ alloc' \subseteq alloc
    BY <1>0, <1>4 DEF Dropped, Goto, Call
  <2>2. /\ AfterDrop(c) \in Pcs /\ AfterDrop(c) # "insert"
        /\ AfterDrop(c) = "choose" => old.op \in {"assignWan", "assignMgmt"} /\ old.keep = None
    BY <1>0 DEF AfterDrop, Pcs, Adding, Releasing
  <2> QED
    BY <1>1, <2>1, <2>2
<1> QED
  BY <1>2, <1>3, <1>4

\* The pools of the purpose, or the pool of the VLAN, are read.
LEMMA PoolsTries ==
    ASSUME BooksInv, TryInv, NEW c \in Calls, ListPools(c) \/ FindPool(c)
    PROVE  TryInv'
<1> DEFINE old == call[c]
<1>0. /\ old \in Call /\ call \in [Calls -> Call] /\ Trying(old, row, alloc)
      /\ old.pc \in {"pools", "find"} /\ old.op \in Ops /\ UNCHANGED <<row, alloc>>
  BY TriesFacts DEF ListPools, FindPool, Right, Placed, Adding, Releasing, Ops
<1>1. ASSUME NEW r, call' = [call EXCEPT ![c] = r],
             r.onu = old.onu, r.pool = old.pool, r.alone = old.alone, r.keep = old.keep,
             \/ r.pc = "others" /\ old.pc = "pools" /\ r.op = old.op
             \/ r.pc = "keep"
      PROVE  TryInv'
  <2>1. Here(r, row') /\ Chosen(r, alloc')
    BY <1>0, <1>1 DEF Trying, Here, Busy, Chosen
  <2>2. Seeks(r) => Seeks(old)
    BY <1>1 DEF Seeks
  <2>3. Bare(r, alloc')
    BY <1>0, <1>1, <2>2 DEF Trying, Bare
  <2> QED
    BY <1>0, <1>1, <2>1, <2>3, OwnTry DEF Trying
<1>2. CASE ListPools(c)
  <2> DEFINE listed == {p \in Pools : hosts[p] > 0 /\ Purpose[p] = Keeps(old.op)}
             r == [old EXCEPT !.pools = listed, !.pc = "others"]
  <2>1. call' = [call EXCEPT ![c] = r] /\ old.pc = "pools"
    BY <1>0, <1>2 DEF ListPools, Call
  <2>2. /\ r.pc = "others" /\ r.op = old.op /\ r.onu = old.onu /\ r.pool = old.pool
        /\ r.alone = old.alone /\ r.keep = old.keep
    BY <1>0 DEF Call
  <2> HIDE DEF r
  <2> QED
    BY <1>1, <2>1, <2>2
<1>3. CASE FindPool(c) /\ ~Ends(c)
  <2> DEFINE size == hosts[old.pool]
             r == [old EXCEPT !.op = "assignMgmt", !.size = size, !.pc = "keep"]
  <2>1. call' = [call EXCEPT ![c] = r]
    BY <1>0, <1>3 DEF FindPool, Call
  <2>2. /\ r.pc = "keep" /\ r.onu = old.onu /\ r.pool = old.pool
        /\ r.alone = old.alone /\ r.keep = old.keep
    BY <1>0 DEF Call
  <2> HIDE DEF r
  <2> QED
    BY <1>1, <2>1, <2>2
<1>4. CASE Ends(c)
  BY <1>0, <1>4, EndsTry
<1> QED
  BY <1>2, <1>3, <1>4

LEMMA FindTakenTries == ASSUME BooksInv, TryInv, NEW c \in Calls, FindTaken(c) PROVE TryInv'
<1> DEFINE old == call[c]
<1>0. /\ old \in Call /\ call \in [Calls -> Call] /\ old.pc = "taken" /\ old.pc # "idle"
      /\ old.op \in {"assignWan", "adoptWan"} /\ old.op \in Ops /\ UNCHANGED <<row, alloc>>
  BY TriesFacts DEF FindTaken, Right, Placed, Ops
<1>1. ASSUME NEW pc \in {"others", "choose", "save", "wanted", "unkeep"}, NEW keep, NEW found,
             call' = [call EXCEPT ![c].pc = pc, ![c].keep = keep, ![c].found = found],
             pc = "others" => old.op = "adoptWan",
             pc = "choose" => old.op = "assignWan" /\ old.keep = None
      PROVE  TryInv'
  <2> DEFINE r == [old EXCEPT !.pc = pc, !.keep = keep, !.found = found]
  <2>1. r.pc = pc /\ r.op = old.op
    BY <1>0 DEF Call
  <2>2. Seeks(r) => Seeks(old)
    <3> HIDE DEF r
    <3> QED
      BY <1>0, <1>1, <2>1 DEF Seeks
  <2>3. pc \in Pcs /\ pc # "insert"
    BY DEF Pcs
  <2> QED
    BY <1>0, <1>1, <2>2, <2>3, GoesOnTry
<1>2. CASE Ends(c)
  BY <1>0, <1>2, EndsTry
<1>3. ASSUME NEW pc \in {"choose", "save"}, Goto(c, pc),
             pc = "choose" => old.op = "assignWan" /\ old.keep = None
      PROVE  TryInv'
  <2>1. call' = [call EXCEPT ![c].pc = pc, ![c].keep = old.keep, ![c].found = old.found]
    BY <1>0, <1>3 DEF Goto, Call
  <2> QED
    BY <1>1, <1>3, <2>1
<1>4. ASSUME NEW k, NEW pc \in {"others", "save", "wanted"}, pc = "others" => old.op = "adoptWan",
             call' = [call EXCEPT ![c].pc = pc, ![c].keep = k]
      PROVE  TryInv'
  <2>1. [old EXCEPT !.pc = pc, !.keep = k]
          = [old EXCEPT !.pc = pc, !.keep = k, !.found = old.found]
    BY <1>0 DEF Call
  <2>2. call' = [call EXCEPT ![c] = [old EXCEPT !.pc = pc, !.keep = k]]
    BY <1>4
  <2>3. call' = [call EXCEPT ![c].pc = pc, ![c].keep = k, ![c].found = old.found]
    <3> DEFINE r == [old EXCEPT !.pc = pc, !.keep = k, !.found = old.found]
    <3>1. call' = [call EXCEPT ![c] = r]
      BY <2>1, <2>2
    <3>2. [call EXCEPT ![c] = r]
            = [call EXCEPT ![c].pc = pc, ![c].keep = k, ![c].found = old.found]
      BY <1>0 DEF Call
    <3> HIDE DEF r
    <3> QED
      BY <3>1, <3>2
  <2> DEFINE found == old.found
  <2>4. call' = [call EXCEPT ![c].pc = pc, ![c].keep = k, ![c].found = found]
    BY <2>3
  <2>5. pc \in {"others", "choose", "save", "wanted", "unkeep"} /\ pc # "choose"
    OBVIOUS
  <2>6. pc = "others" => old.op = "adoptWan"
    BY <1>4
  <2> HIDE DEF found, old
  <2> QED
    BY <1>1, <2>4, <2>5, <2>6
<1>5. ASSUME NEW mine, call' = [call EXCEPT ![c].pc = "unkeep", ![c].found = mine]
      PROVE  TryInv'
  <2>1. call' = [call EXCEPT ![c].pc = "unkeep", ![c].keep = old.keep, ![c].found = mine]
    BY <1>0, <1>5 DEF Call
  <2> QED
    BY <1>1, <2>1
<1>6. ASSUME NEW k, call' = [call EXCEPT ![c].keep = k,
                                         ![c].pc = IF k = None THEN "wanted" ELSE "save"]
      PROVE  TryInv'
  <2> DEFINE pc == IF k = None THEN "wanted" ELSE "save"
  <2>1. call' = [call EXCEPT ![c].pc = pc, ![c].keep = k]
    BY <1>0, <1>6 DEF Call
  <2>2. pc \in {"others", "save", "wanted"} /\ pc # "others"
    OBVIOUS
  <2> HIDE DEF pc
  <2> QED
    BY <1>4, <2>1, <2>2
<1>7. ASSUME NEW k, call' = [call EXCEPT ![c].pc = "others", ![c].keep = k], old.op = "adoptWan"
      PROVE  TryInv'
  BY <1>4, <1>7
<1> QED
  BY <1>2, <1>3, <1>5, <1>6, <1>7 DEF FindTaken

LEMMA UnkeepTries == ASSUME BooksInv, TryInv, NEW c \in Calls, Unkeep(c) PROVE TryInv'
<1> DEFINE old == call[c]
<1>0. /\ old \in Call /\ call \in [Calls -> Call] /\ old.pc = "unkeep" /\ old.pc # "idle"
      /\ old.op \in Ops /\ UNCHANGED row /\ alloc' \subseteq alloc
  BY TriesFacts DEF Unkeep, Right, Placed, Ops, Delete
<1>1. PICK k : call' = [call EXCEPT ![c].keep = k, ![c].found = {},
                                    ![c].pc = IF k = None THEN "wanted" ELSE "save"]
  BY DEF Unkeep
<1> DEFINE pc == IF k = None THEN "wanted" ELSE "save"
           r == [old EXCEPT !.pc = pc, !.keep = k, !.found = {}]
<1>2. call' = [call EXCEPT ![c].pc = pc, ![c].keep = k, ![c].found = {}]
  BY <1>0, <1>1 DEF Call
<1>3. pc \in Pcs /\ pc \in {"wanted", "save"}
  BY DEF Pcs
<1>4. r.pc = pc
  BY <1>0 DEF Call
<1>5. ~Seeks(r)
  <2> HIDE DEF r, pc
  <2> QED
    BY <1>3, <1>4 DEF Seeks
<1> HIDE DEF pc
<1> QED
  BY <1>0, <1>2, <1>3, <1>5, GoesOnTry

\* The address of the new allocation is of the pool: whoever tries that pool was beaten.
LEMMA InsertedTries ==
    ASSUME BooksInv, TryInv, NEW c \in Calls, call[c].pc \in {"wanted", "insert"},
           Accepts(call[c].pool, call[c].want, call[c].onu), Inserted(c, call[c].want),
           UNCHANGED row
    PROVE  TryInv'
<1> DEFINE old == call[c]
           new == [id |-> NewId, pool |-> old.pool, ip |-> old.want, onu |-> old.onu]
           r == [old EXCEPT !.keep = new, !.pc = "save"]
<1>0. /\ old \in Call /\ call \in [Calls -> Call] /\ Trying(old, row, alloc) /\ Busy(old)
      /\ alloc' = alloc \union {new}
      /\ call' = [d \in Calls |->
                    IF d = c THEN r
                    ELSE IF call[d].pool = call[c].pool
                         THEN [call[d] EXCEPT !.beaten = @ + 1] ELSE call[d]]
  BY TriesFacts DEF Inserted, Right, Placed, Busy, Ops
<1>1. new.pool = old.pool /\ new.onu = old.onu
  OBVIOUS
<1> HIDE DEF new
<1>2. /\ r.pc = "save" /\ r.onu = old.onu /\ r.op = old.op /\ r.alone = old.alone
  BY <1>0 DEF Call
<1> HIDE DEF r
<1>3. call'[c] = r /\ Trying(r, row', alloc')
  BY <1>0, <1>2 DEF Trying, Here, Busy, Bare, Seeks, Chosen
<1>4. ASSUME NEW d \in Calls, d # c
      PROVE  /\ Like(call'[d], call[d]) /\ Beaten(call'[d], call[d])
             /\ call[d].pool = old.pool => call'[d].beaten > 0
  <2>1. call[d] \in Call /\ call[d].beaten \in Nat
    BY <1>0 DEF Call
  <2>2. CASE call'[d] = call[d] /\ call[d].pool # old.pool
    BY <2>2 DEF Like, Beaten
  <2>3. CASE call'[d] = [call[d] EXCEPT !.beaten = @ + 1]
    <3>1. call'[d].beaten = call[d].beaten + 1
      BY <2>1, <2>3 DEF Call
    <3>2. Like(call'[d], call[d])
      BY <2>1, <2>3 DEF Like, Call
    <3> QED
      BY <2>1, <3>1, <3>2 DEF Beaten
  <2> QED
    BY <1>0, <1>4, <2>2, <2>3
<1>5. \A d \in Calls : d # c =>
          \A a \in alloc' : a.pool = call[d].pool => a \in alloc \/ call'[d].beaten > 0
  BY <1>0, <1>1, <1>4
<1>6. \A a \in alloc' : a.onu # old.onu => a \in alloc
  BY <1>0, <1>1
<1> QED
  BY <1>0, <1>3, <1>4, <1>5, <1>6, OthersTry DEF Busy

LEMMA InsertTries ==
    ASSUME BooksInv, TryInv, NEW c \in Calls, Insert(c) \/ InsertWanted(c) PROVE TryInv'
<1> DEFINE old == call[c]
<1>0. /\ old.pc \in {"wanted", "insert"} /\ old \in Call /\ call \in [Calls -> Call]
      /\ UNCHANGED row /\ old.op \in Ops
  BY TriesFacts DEF Insert, InsertWanted, Right, Placed, Ops
<1>1. CASE Accepts(old.pool, old.want, old.onu) /\ Inserted(c, old.want)
  BY <1>0, <1>1, InsertedTries
<1>2. CASE Ends(c) /\ UNCHANGED alloc
  BY <1>0, <1>2, EndsTry
<1>3. CASE /\ old.pc = "insert" /\ UNCHANGED alloc
           /\ call' = [call EXCEPT ![c].tries = @ + 1, ![c].pc = "choose"]
  <2> DEFINE n == old.tries + 1
             r == [old EXCEPT !.tries = n, !.pc = "choose"]
  <2>1. call' = [call EXCEPT ![c] = r]
    BY <1>0, <1>3 DEF Call
  <2>2. /\ r.pc = "choose" /\ r.op = old.op /\ r.onu = old.onu /\ r.pool = old.pool
        /\ r.alone = old.alone
    BY <1>0 DEF Call
  <2> HIDE DEF r
  <2>3. Trying(r, row', alloc')
    BY <1>0, <1>3, <2>2, TriesFacts DEF Trying, Here, Busy, Bare, Seeks, Chosen
  <2> QED
    BY <1>0, <1>3, <2>1, <2>3, OwnTry
<1> QED
  BY <1>1, <1>2, <1>3 DEF Insert, InsertWanted

\* The address chosen is free.
LEMMA ChooseTries == ASSUME BooksInv, TryInv, NEW c \in Calls, Choose(c) PROVE TryInv'
<1> DEFINE old == call[c]
           w == Lowest(Free(c))
           r == [old EXCEPT !.want = w, !.beaten = 0, !.pc = "insert"]
<1>0. /\ old \in Call /\ call \in [Calls -> Call] /\ old.pc = "choose"
      /\ UNCHANGED <<row, alloc>> /\ old.op \in {"assignWan", "assignMgmt"}
  BY TriesFacts DEF Choose, Right, Placed
<1>1. CASE Ends(c)
  BY <1>0, <1>1, EndsTry
<1>2. CASE /\ Free(c) # {}
           /\ call' = [call EXCEPT ![c].want = w, ![c].beaten = 0, ![c].pc = "insert"]
  <2>1. w \in Free(c)
    <3>1. old.size \in 0 .. MaxHosts
      BY <1>0 DEF Call
    <3>2. old.size \in Nat /\ Free(c) \in SUBSET (1 .. old.size)
      BY <3>1, BoundsAssumption DEF Free
    <3> QED
      BY <1>2, <3>2, LowestFacts
  <2>2. \A a \in alloc : a.pool = old.pool => a.ip # w
    <3> HIDE DEF w
    <3> QED
      BY <2>1 DEF Free, Taken
  <2> HIDE DEF w
  <2>3. call' = [call EXCEPT ![c] = r]
    BY <1>0, <1>2 DEF Call
  <2>4. /\ r.pc = "insert" /\ r.op = old.op /\ r.onu = old.onu /\ r.pool = old.pool
        /\ r.alone = old.alone /\ r.want = w
    BY <1>0 DEF Call
  <2> HIDE DEF r
  <2>5. Trying(r, row', alloc')
    BY <1>0, <2>2, <2>4, TriesFacts DEF Trying, Here, Busy, Bare, Seeks, Chosen
  <2> QED
    BY <1>0, <2>3, <2>5, OwnTry
<1> QED
  BY <1>1, <1>2 DEF Choose

\* The row is saved, read again and saved again; then the ONU is there.
LEMMA SaveTries ==
    ASSUME BooksInv, TryInv, NEW c \in Calls, SaveRow(c) \/ Reload(c) \/ SaveAgain(c)
    PROVE  TryInv'
<1> DEFINE old == call[c]
<1>0. /\ old \in Call /\ call \in [Calls -> Call] /\ old.pc \in {"save", "reload", "again"}
      /\ old.onu \in Onus /\ row \in [Onus -> Row \union {Unborn, Gone}] /\ alloc' \subseteq alloc
      /\ old.op \in Ops
  BY TriesFacts, BusyFacts DEF SaveRow, Reload, SaveAgain, Right, Placed, Ops, Adding, Releasing
<1>1. \A x \in Onus : x # old.onu => row'[x] = row[x]
  BY <1>0 DEF SaveRow, Reload, SaveAgain
<1>2. CASE Ends(c)
  BY <1>0, <1>1, <1>2, EndsTry
<1>3. ASSUME NEW pc \in {"reload", "again"}, NEW copy, row'[old.onu] \in Row,
             call' = [call EXCEPT ![c] = [old EXCEPT !.copy = copy, !.pc = pc]]
      PROVE  TryInv'
  <2> DEFINE r == [old EXCEPT !.copy = copy, !.pc = pc]
  <2>1. r.pc = pc /\ r.onu = old.onu
    BY <1>0 DEF Call
  <2>2. call' = [call EXCEPT ![c] = r]
    BY <1>3
  <2> HIDE DEF r
  <2>3. Trying(r, row', alloc')
    BY <1>3, <2>1 DEF Trying, Here, Bare, Seeks, Chosen
  <2> QED
    BY <1>0, <1>1, <2>2, <2>3, OwnTry
<1>4. CASE SaveRow(c)
  <2>1. row'[old.onu] \in Row
    BY <1>0, <1>4, SavedFacts DEF SaveRow
  <2>2. CASE Goto(c, "reload")
    <3>1. call' = [call EXCEPT ![c] = [old EXCEPT !.copy = old.copy, !.pc = "reload"]]
      BY <1>0, <2>2 DEF Goto, Call
    <3> QED
      BY <1>3, <2>1, <3>1
  <2>3. CASE call' = [call EXCEPT ![c].copy = Saved(c), ![c].pc = "again"]
    <3>1. call' = [call EXCEPT ![c] = [old EXCEPT !.copy = Saved(c), !.pc = "again"]]
      BY <1>0, <2>3 DEF Call
    <3> QED
      BY <1>3, <2>1, <3>1
  <2> QED
    BY <1>2, <1>4, <2>2, <2>3 DEF SaveRow
<1>5. CASE Reload(c)
  <2>1. CASE call' = [call EXCEPT ![c].copy = row[old.onu], ![c].pc = "again"]
             /\ Present(old.onu)
    <3>1. call' = [call EXCEPT ![c] = [old EXCEPT !.copy = row[old.onu], !.pc = "again"]]
      BY <1>0, <2>1 DEF Call
    <3>2. row'[old.onu] \in Row
      BY <1>5, <2>1 DEF Reload, Present
    <3> QED
      BY <1>3, <3>1, <3>2
  <2> QED
    BY <1>2, <1>5, <2>1 DEF Reload
<1> QED
  BY <1>2, <1>4, <1>5 DEF SaveAgain

LEMMA PurgeTries ==
    ASSUME BooksInv, TryInv, NEW c \in Calls, PurgeAllocs(c) \/ PurgeRow(c) PROVE TryInv'
<1> DEFINE old == call[c]
           r == [old EXCEPT !.pc = "purgeRow"]
<1>0. /\ old \in Call /\ call \in [Calls -> Call] /\ old.pc \in {"purge", "purgeRow"}
      /\ old.op = "purge" /\ alloc' \subseteq alloc
      /\ \A x \in Onus : x # old.onu => row'[x] = row[x]
  BY TriesFacts, BusyFacts DEF PurgeAllocs, PurgeRow, Right, Placed
<1>1. CASE PurgeAllocs(c)
  <2>1. call' = [call EXCEPT ![c] = r] /\ UNCHANGED row
    BY <1>0, <1>1 DEF PurgeAllocs, Goto, Call
  <2>2. r.pc = "purgeRow" /\ r.op = old.op /\ r.onu = old.onu /\ r.alone = old.alone
    BY <1>0 DEF Call
  <2> HIDE DEF r
  <2>3. Trying(r, row', alloc')
    BY <1>0, <2>1, <2>2, TriesFacts DEF Trying, Here, Busy, Bare, Seeks, Chosen
  <2> QED
    BY <1>0, <2>1, <2>3, OwnTry
<1>2. CASE PurgeRow(c)
  BY <1>0, <1>2, EndsTry DEF PurgeRow
<1> QED
  BY <1>1, <1>2

\* Calls about a pool: to the others they do nothing but take allocations away.
LEMMA PoolStepTries ==
    ASSUME BooksInv, TryInv, NEW c \in Calls,
           CheckRange(c) \/ ResizeRow(c) \/ CountAllocs(c) \/ RemoveRow(c)
    PROVE  TryInv'
<1> DEFINE old == call[c]
<1>0. /\ old \in Call /\ call \in [Calls -> Call] /\ old.op \in PoolOps /\ old.pc # "idle"
      /\ alloc' \subseteq alloc /\ UNCHANGED row
  BY TriesFacts
  DEF CheckRange, ResizeRow, CountAllocs, RemoveRow, Right, Placed, PoolOps
<1>1. CASE Ends(c)
  BY <1>0, <1>1, EndsTry
<1>2. ASSUME NEW pc \in {"resizeRow", "removeRow"}, Goto(c, pc) PROVE TryInv'
  <2> DEFINE r == [old EXCEPT !.pc = pc]
  <2>1. call' = [call EXCEPT ![c] = r]
    BY <1>0, <1>2 DEF Goto, Call
  <2>2. r.pc = pc /\ r.op = old.op
    BY <1>0 DEF Call
  <2> HIDE DEF r
  <2>3. Trying(r, row', alloc')
    BY <1>0, <2>2, PoolTries
  <2> QED
    BY <1>0, <2>1, <2>3, OwnTry
<1>3. CASE RemoveRow(c)
  <2> DEFINE lost == {a \in alloc : a.pool = old.pool}
             robbed == {a.onu : a \in lost}
  <2>1. call' = [d \in Calls |->
                   IF d = c THEN Idle
                   ELSE IF call[d].onu \in robbed THEN [call[d] EXCEPT !.alone = FALSE]
                   ELSE call[d]]
    BY <1>3 DEF RemoveRow
  <2> HIDE DEF robbed
  <2>2. call'[c] = Idle /\ Trying(Idle, row', alloc')
    BY <2>1, IdleTries, IdleFacts
  <2>3. ASSUME NEW d \in Calls, d # c
        PROVE  Like(call'[d], call[d]) /\ Beaten(call'[d], call[d])
    <3>1. call[d] \in Call
      BY <1>0
    <3>2. call'[d] = call[d] \/ call'[d] = [call[d] EXCEPT !.alone = FALSE]
      BY <2>1, <2>3
    <3> QED
      BY <3>1, <3>2 DEF Like, Beaten, Call
  <2> QED
    BY <1>0, <2>2, <2>3, OthersTry
<1> QED
  BY <1>1, <1>2, <1>3 DEF CheckRange, ResizeRow, CountAllocs

\* A call begins by reading the row of its ONU; it seeks nothing yet.
LEMMA StartsTries ==
    ASSUME BooksInv, TryInv, NEW c \in Calls, NEW o \in Onus, NEW rec \in Call, Starts(c, o, rec),
           rec.pc \in {"keep", "taken", "pools", "save", "purge"}, rec.op \in Ops,
           rec.op \in {"assignWan", "assignMgmt"} => rec.pc = "keep"
    PROVE  TryInv'
<1> DEFINE solo == On(o) = {}
           sound == <<o, Keeps(rec.op)>> \notin open
           r == [rec EXCEPT !.onu = o, !.copy = row[o], !.alone = solo, !.sound = sound]
<1>1. /\ call' = [d \in Calls |-> IF d = c THEN r
                                  ELSE IF d \in On(o) THEN [call[d] EXCEPT !.alone = FALSE]
                                  ELSE call[d]]
      /\ UNCHANGED <<row, alloc>> /\ row[o] \in Row /\ call \in [Calls -> Call]
  BY TriesFacts DEF Starts, Present
<1> HIDE DEF solo, sound
<1>2. r.pc = rec.pc /\ r.op = rec.op /\ r.onu = o
  BY DEF Call
<1> HIDE DEF r
<1>3. call'[c] = r /\ Trying(r, row', alloc')
  BY <1>1, <1>2 DEF Trying, Here, Bare, Seeks, Chosen
<1>4. ASSUME NEW d \in Calls, d # c PROVE Trying(call'[d], row', alloc')
  <2>1. call[d] \in Call /\ Trying(call[d], row, alloc)
    BY <1>1 DEF TryInv
  <2>2. call'[d] = call[d] \/ call'[d] = [call[d] EXCEPT !.alone = FALSE]
    BY <1>1, <1>4
  <2>3. Like(call'[d], call[d]) /\ Beaten(call'[d], call[d])
    BY <2>1, <2>2 DEF Like, Beaten, Call
  <2> QED
    BY <1>1, <2>1, <2>3, LikeTries
<1> QED
  BY <1>3, <1>4 DEF TryInv

\* The locals of a request.
Asked(pc, op, p, size, want) ==
    [Idle EXCEPT !.pc = pc, !.op = op, !.pool = p, !.size = size, !.want = want]

LEMMA AskedFacts ==
    ASSUME NEW pc \in Pcs, NEW op \in Ops, NEW p \in Pools \union {None},
           NEW size \in 0 .. MaxHosts, NEW want \in 0 .. MaxHosts
    PROVE  /\ Asked(pc, op, p, size, want) \in Call
           /\ Asked(pc, op, p, size, want).pc = pc /\ Asked(pc, op, p, size, want).op = op
  BY IdleFields DEF Asked, Call

LEMMA RequestTries == ASSUME BooksInv, TryInv, NEW c \in Calls, Request(c) PROVE TryInv'
<1>1. ASSUME NEW o \in Onus, NEW p \in Pools \union {None}, NEW size \in 0 .. MaxHosts,
             NEW want \in 0 .. MaxHosts,
             NEW pc \in {"keep", "taken", "pools", "save", "purge"}, NEW op \in Ops,
             op \in {"assignWan", "assignMgmt"} => pc = "keep",
             Starts(c, o, Asked(pc, op, p, size, want))
      PROVE  TryInv'
  <2>1. pc \in Pcs
    BY DEF Pcs
  <2> QED
    BY <1>1, <2>1, AskedFacts, StartsTries
<1>2. /\ \A p \in Pools : hosts[p] \in 0 .. MaxHosts
      /\ 0 \in 0 .. MaxHosts /\ \A w \in Hosts : w \in 0 .. MaxHosts
  <2>1. hosts \in [Pools -> 0 .. MaxHosts]
    BY BusyFacts
  <2> QED
    BY <2>1, BoundsAssumption DEF Hosts
<1>3. ASSUME NEW o \in Onus, NEW p \in Pools, NEW want \in 0 .. MaxHosts, AssignWan(c, o, p, want)
      PROVE  TryInv'
  <2>1. Starts(c, o, Asked("keep", "assignWan", p, hosts[p], want)) /\ "assignWan" \in Ops
    BY <1>3 DEF AssignWan, Asked, Ops
  <2> QED
    BY <1>1, <1>2, <2>1
<1>4. ASSUME NEW o \in Onus, NEW want \in Hosts, AdoptWan(c, o, want) PROVE TryInv'
  <2> DEFINE p == row[o]["internet"].pool
  <2>1. p \in Pools
    BY <1>4 DEF AdoptWan, Present, Row, Purposes, Slots
  <2>2. Starts(c, o, Asked("taken", "adoptWan", p, hosts[p], want)) /\ "adoptWan" \in Ops
    BY <1>4 DEF AdoptWan, Asked, Ops
  <2> HIDE DEF p
  <2> QED
    BY <1>1, <1>2, <2>1, <2>2
<1>5. ASSUME NEW o \in Onus, NEW p \in Pools, AssignMgmt(c, o, p) PROVE TryInv'
  <2> DEFINE size == hosts[p]
             rec == [Idle EXCEPT !.pc = "keep", !.op = "assignMgmt", !.pool = p, !.size = size]
  <2>1. Starts(c, o, rec) /\ size \in 0 .. MaxHosts /\ "assignMgmt" \in Ops
    BY <1>2, <1>5 DEF AssignMgmt, Ops
  <2> HIDE DEF size
  <2>2. rec = Asked("keep", "assignMgmt", p, size, 0)
    BY IdleFields DEF Asked, Call
  <2> HIDE DEF rec
  <2> QED
    BY <1>1, <1>2, <2>1, <2>2
<1>9. ASSUME NEW o \in Onus, NEW p \in Pools \union {None}, ChangeMgmt(c, o, p) PROVE TryInv'
  <2> DEFINE rec == [Idle EXCEPT !.pc = "pools", !.op = "changeMgmt", !.pool = p]
  <2>1. Starts(c, o, rec) /\ "changeMgmt" \in Ops
    BY <1>9 DEF ChangeMgmt, Ops
  <2>2. rec = Asked("pools", "changeMgmt", p, 0, 0)
    BY IdleFields DEF Asked, Call
  <2> HIDE DEF rec
  <2> QED
    BY <1>1, <1>2, <2>1, <2>2
<1>6. ASSUME NEW o \in Onus,
             ReleaseWan(c, o) \/ ReleaseMgmt(c, o) \/ Edit(c, o) \/ Purge(c, o)
      PROVE  TryInv'
  <2>1. ASSUME NEW pc \in {"pools", "save", "purge"},
               NEW op \in {"releaseWan", "releaseMgmt", "edit", "purge"},
               Starts(c, o, [Idle EXCEPT !.pc = pc, !.op = op])
        PROVE  TryInv'
    <3> DEFINE rec == [Idle EXCEPT !.pc = pc, !.op = op]
    <3>1. rec = Asked(pc, op, None, 0, 0)
      BY IdleFields DEF Asked, Call
    <3>2. Starts(c, o, rec) /\ op \in Ops
      BY <2>1 DEF Ops
    <3> HIDE DEF rec
    <3> QED
      BY <1>1, <1>2, <3>1, <3>2
  <2> QED
    BY <1>6, <2>1 DEF ReleaseWan, ReleaseMgmt, Edit, Purge
<1>7. ASSUME NEW p \in Pools, NEW n \in Hosts, ResizePool(c, p, n) \/ RemovePool(c, p)
      PROVE  TryInv'
  <2>1. PICK r : /\ call' = [call EXCEPT ![c] = r] /\ r.op \in PoolOps /\ r.pc # "insert"
                 /\ UNCHANGED <<row, alloc>>
    <3>1. CASE ResizePool(c, p, n)
      <4> DEFINE r == [Idle EXCEPT !.pc = "check", !.op = "resize", !.pool = p, !.size = n]
      <4>1. r.op \in PoolOps /\ r.pc # "insert"
        BY IdleFields DEF PoolOps, Call
      <4>2. call' = [call EXCEPT ![c] = r] /\ UNCHANGED <<row, alloc>>
        BY <3>1 DEF ResizePool
      <4> HIDE DEF r
      <4> QED
        BY <4>1, <4>2
    <3>2. CASE RemovePool(c, p)
      <4> DEFINE r == [Idle EXCEPT !.pc = "count", !.op = "remove", !.pool = p]
      <4>1. r.op \in PoolOps /\ r.pc # "insert"
        BY IdleFields DEF PoolOps, Call
      <4>2. call' = [call EXCEPT ![c] = r] /\ UNCHANGED <<row, alloc>>
        BY <3>2 DEF RemovePool
      <4> HIDE DEF r
      <4> QED
        BY <4>1, <4>2
    <3> QED
      BY <1>7, <3>1, <3>2
  <2>2. call \in [Calls -> Call]
    BY TriesFacts
  <2> QED
    BY <2>1, <2>2, PoolTries DEF TryInv
<1>8. 1 \in Hosts
  BY BoundsAssumption DEF Hosts
<1> QED
  BY <1>3, <1>4, <1>5, <1>6, <1>7, <1>8, <1>9 DEF Request

LEMMA AuthoriseTries == ASSUME BooksInv, TryInv, NEW o \in Onus, Authorise(o) PROVE TryInv'
<1> DEFINE fresh == [u \in Purposes |-> None]
<1>1. fresh \in Row
  BY DEF Row
<1>2. row \in [Onus -> Row \union {Unborn, Gone}]
  BY DEF BooksInv, Inv, TypeOK
<1> HIDE DEF fresh
<1>3. \A x \in Onus : row[x] \in Row => row'[x] \in Row
  BY <1>1, <1>2 DEF Authorise, fresh
<1>4. ASSUME NEW c \in Calls PROVE Trying(call'[c], row', alloc')
  <2>1. /\ Trying(call[c], row, alloc) /\ Like(call[c], call[c]) /\ Beaten(call[c], call[c])
        /\ Busy(call[c]) => call[c].onu \in Onus
    BY TriesFacts DEF Like, Beaten, Right, Placed, Busy
  <2>2. UNCHANGED <<call, alloc>>
    BY DEF Authorise
  <2> QED
    BY <1>3, <2>1, <2>2, LikeTries
<1> QED
  BY <1>4 DEF TryInv

LEMMA NextTries == BooksInv /\ TryInv /\ [Next]_vars => TryInv'
<1> SUFFICES ASSUME BooksInv, TryInv, [Next]_vars PROVE TryInv'
  OBVIOUS
<1>1. ASSUME NEW c \in Calls, Step(c) PROVE TryInv'
  BY <1>1, FindKeepTries, PoolsTries, DropTries, FindTakenTries, UnkeepTries, InsertTries, ChooseTries,
     SaveTries, PurgeTries, PoolStepTries
  DEF Step
<1>2. ASSUME NEW c \in Calls, Throw(c) PROVE TryInv'
  BY <1>2, EndsTry DEF Throw
<1>3. CASE Restart
  <2>1. \A c \in Calls : call'[c].pc = "idle"
    BY <1>3, IdleFacts DEF Restart
  <2> QED
    BY <2>1, IdleTries DEF TryInv
<1>4. CASE UNCHANGED vars
  BY <1>4 DEF TryInv, vars
<1> QED
  BY <1>1, <1>2, <1>3, <1>4, AuthoriseTries, RequestTries DEF Next

LEMMA TriesInvariant == Spec => [](BooksInv /\ PoolsRight /\ TryInv)
<1>1. Init => TryInv
  BY IdleFacts, IdleTries DEF Init, TryInv
<1> QED
  BY <1>1, BooksInvariant, NextTries, PTL DEF Spec

-----------------------------------------------------------------------------
(* Theorems *)

\* Every variable keeps its type; the addresses of a row come from pools for them
\* (the entity Onu, ip_pool_allocations and the locals of ip-pool.service.ts).
THEOREM TypeCorrect == Spec => []TypeOK
<1>1. BooksInv => TypeOK
  BY DEF BooksInv, Inv
<1> QED
  BY <1>1, BooksInvariant, PTL

\* The allocation table and the row of an ONU agree wherever no call of assignWanIp,
\* adoptWanIpIfFree, assignMgmtIp, releaseWanIp, releaseMgmtIp or purgeOnuRow is between
\* the two and none was overtaken by another.
THEOREM BooksAgreeHolds == Spec => []BooksAgree
<1>1. BooksInv => BooksAgree
  BY DEF BooksInv
<1> QED
  BY <1>1, BooksInvariant, PTL

\* Two ONUs whose books are closed never have the same address: both would have an
\* allocation of it, which the unique index (pool, address) refuses.
THEOREM AddressOfOneHolds == Spec => []AddressOfOne
<1>1. ASSUME BooksInv PROVE AddressOfOne
  <2> SUFFICES ASSUME NEW o1 \in Onus, NEW o2 \in Onus, NEW u \in Purposes, o1 # o2,
                      Present(o1), Present(o2), <<o1, u>> \notin open, <<o2, u>> \notin open,
                      row[o1][u] # None, row[o1][u] = row[o2][u]
               PROVE  FALSE
    BY DEF AddressOfOne
  <2>1. ASSUME NEW o \in Onus, Present(o), <<o, u>> \notin open, row[o][u] # None
        PROVE  \E a \in alloc : a.onu = o /\ SlotOf(a) = row[o][u]
    <3>1. {SlotOf(a) : a \in Of(o, u)} = {row[o][u]} \ {None}
      BY <1>1, <2>1 DEF BooksInv, BooksAgree
    <3>2. row[o][u] \in {SlotOf(a) : a \in Of(o, u)}
      BY <2>1, <3>1
    <3> QED
      BY <3>2 DEF Of
  <2>2. PICK a \in alloc : a.onu = o1 /\ SlotOf(a) = row[o1][u]
    BY <2>1
  <2>3. PICK b \in alloc : b.onu = o2 /\ SlotOf(b) = row[o2][u]
    BY <2>1
  <2>4. a.pool = b.pool /\ a.ip = b.ip
    BY <2>2, <2>3 DEF SlotOf
  <2> QED
    BY <1>1, <2>2, <2>3, <2>4 DEF BooksInv, TablesRight, Unique
<1> QED
  BY <1>1, BooksInvariant, PTL

\* Of an ONU nobody else works on, allocateLowestFreeIp loses a try only to a call that got
\* an address of the pool since it chose its own, or because the pool was removed: the ONU
\* has a row and no address in the pool, and the one chosen was free.
THEOREM LostTriesHolds == Spec => []LostTriesAreOthersWins
<1>1. ASSUME BooksInv, TryInv PROVE LostTriesAreOthersWins
  <2> SUFFICES ASSUME NEW c \in Calls, call[c].pc = "insert", call[c].alone,
                      hosts[call[c].pool] > 0,
                      ~Accepts(call[c].pool, call[c].want, call[c].onu)
               PROVE  call[c].beaten > 0
    BY DEF LostTriesAreOthersWins
  <2>1. Trying(call[c], row, alloc) /\ Seeks(call[c]) /\ Busy(call[c])
    BY <1>1, TriesFacts DEF Right, Placed, Seeks, Busy, Ops
  <2>2. Present(call[c].onu) /\ \A a \in alloc : a.onu = call[c].onu => a.pool # call[c].pool
    BY <2>1 DEF Trying, Here, Bare, Present
  <2> QED
    BY <2>1, <2>2 DEF Accepts, Trying, Chosen
<1> QED
  BY <1>1, TriesInvariant, PTL
=============================================================================
