-------------------------- MODULE OnuRegistryProofs --------------------------
(***************************************************************************)
(* Theorems about OnuRegistry, for any interfaces, calls and bounds: what  *)
(* a row may show while calls that looked at the OLT long ago still write. *)
(***************************************************************************)
EXTENDS OnuRegistry, TLAPS

-----------------------------------------------------------------------------
(* The invariants *)

\* A call that works on one interface has it, and one that writes or purges a row it read
\* has read one.
Right(r) ==
    /\ r.pc # "idle" /\ r.op \in {"authorise", "delete", "disable", "enable", "edit", "refresh"}
         => r.slot \in Slots
    /\ r.op = "sync" /\ r.pc = "save" => r.slot \in Slots
    /\ r.op \in {"disable", "enable", "edit", "refresh"} /\ r.pc = "write" => r.copy # None
    /\ r.op = "delete" /\ r.pc = "purge" => r.copy # None
    /\ r.pc = "look" => r.op = "refresh" /\ r.copy # None

LocalsRight == \A c \in Calls : Right(call[c])

Inv == TypeOK /\ LocalsRight

\* r2 is r1 but for what excuses it and whether it is alone.
Like(r2, r1) ==
    /\ r2.op = r1.op /\ r2.pc = r1.pc /\ r2.slot = r1.slot /\ r2.copy = r1.copy
    /\ r2.list = r1.list /\ r2.have = r1.have /\ r2.todo = r1.todo /\ r2.seen = r1.seen
    /\ r1.excuse \subseteq r2.excuse
    /\ r2.quiet => r1.quiet

-----------------------------------------------------------------------------
(* Types *)

LEMMA IdleType == Idle \in Call /\ Right(Idle) /\ Idle.pc = "idle" /\ Idle.op = "edit"
<1>1. Nothing \in [Slots -> Row \union {None}] /\ Empty \in [Slots -> Listed]
  BY DEF Nothing, Empty, Listed
<1> QED
  BY <1>1 DEF Idle, Call, Ops, Pcs, Right

\* A call that goes on elsewhere keeps what it works on.
LEMMA AtPc ==
  ASSUME NEW r \in Call, NEW pc \in Pcs
  PROVE  /\ [r EXCEPT !.pc = pc] \in Call
         /\ [r EXCEPT !.pc = pc].pc = pc /\ [r EXCEPT !.pc = pc].op = r.op
         /\ [r EXCEPT !.pc = pc].slot = r.slot /\ [r EXCEPT !.pc = pc].copy = r.copy
  BY DEF Call

LEMMA LikeType ==
  ASSUME NEW r1, NEW r2, Like(r2, r1), Right(r1) PROVE Right(r2)
  BY DEF Like, Right

LEMMA UnquietType ==
  ASSUME NEW r \in Call, Right(r)
  PROVE  [r EXCEPT !.quiet = FALSE] \in Call /\ Right([r EXCEPT !.quiet = FALSE])
<1> DEFINE q == [r EXCEPT !.quiet = FALSE]
<1>1. q \in Call
  BY DEF Call
<1>2. q.op = r.op /\ q.pc = r.pc /\ q.slot = r.slot /\ q.copy = r.copy
  BY DEF Call
<1> HIDE DEF q
<1>3. Right(q)
  BY <1>2 DEF Right
<1> QED
  BY <1>1, <1>3 DEF q

\* Call c goes on with rec, the other calls with what they know.
LEMMA CallsInv ==
  ASSUME Inv, NEW c \in Calls, call' \in [Calls -> Call], Right(call'[c]),
         \A d \in Calls : d # c => Like(call'[d], call[d])
  PROVE  LocalsRight'
  BY LikeType DEF Inv, LocalsRight

LEMMA OneCall ==
  ASSUME Inv, NEW c \in Calls, NEW rec \in Call, Right(rec), call' = [call EXCEPT ![c] = rec]
  PROVE  call' \in [Calls -> Call] /\ LocalsRight'
  BY DEF Inv, TypeOK, LocalsRight

LEMMA ExcusedFacts ==
  ASSUME Inv, NEW s \in Slots, NEW D
  PROVE  /\ Excused(s, D) \in [Calls -> Call]
         /\ \A d \in Calls : /\ Like(Excused(s, D)[d], call[d])
                             /\ Excused(s, D)[d].quiet = call[d].quiet
                             /\ d \in D => s \in Excused(s, D)[d].excuse
                             /\ d \notin D => Excused(s, D)[d] = call[d]
                             /\ Excused(s, D)[d].excuse \subseteq call[d].excuse \union {s}
<1>1. ASSUME NEW d \in Calls
      PROVE  /\ call[d] \in Call /\ [call[d] EXCEPT !.excuse = @ \union {s}] \in Call
             /\ Like(call[d], call[d])
             /\ Like([call[d] EXCEPT !.excuse = @ \union {s}], call[d])
             /\ [call[d] EXCEPT !.excuse = @ \union {s}].quiet = call[d].quiet
             /\ [call[d] EXCEPT !.excuse = @ \union {s}].excuse = call[d].excuse \union {s}
  <2>1. call[d] \in Call
    BY DEF Inv, TypeOK
  <2> QED
    BY <2>1 DEF Call, Like
<1> QED
  BY <1>1 DEF Excused

LEMMA SnapshotType ==
  ASSUME NEW old \in Admin, NEW snap PROVE /\ ApplySnapshot(old, snap) \in Admin
                                           /\ old = "disable" => ApplySnapshot(old, snap) = "disable"
  BY DEF ApplySnapshot, Admin

LEMMA NewRowType ==
  ASSUME Ids \ UsedIds # {}, NEW admin \in Admin
  PROVE  NewRow(admin) \in Row /\ NewRow(admin).admin = admin
  BY DEF NewRow, Row

LEMMA ExplainsType ==
  ASSUME TypeOK, NEW S \in SUBSET Slots, NEW T \in SUBSET Slots, Explains(S, T)
  PROVE  strange' \subseteq Slots /\ unshown' \subseteq Slots
  BY DEF Explains, TypeOK

LEMMA StartsInv ==
  ASSUME Inv, NEW c \in Calls, NEW rec \in Call, Starts(c, rec), Right(rec)
  PROVE  Inv'
<1> DEFINE quiet == \A d \in Calls : call[d].pc = "idle"
<1>1. /\ requests' \in 0 .. MaxRequests
      /\ UNCHANGED <<olt, row, mark, pending, strange, unshown, faults>>
      /\ call' = [d \in Calls |-> IF d = c THEN [rec EXCEPT !.quiet = quiet]
                                  ELSE [call[d] EXCEPT !.quiet = FALSE]]
  BY RegistryBounds DEF Starts, Inv, TypeOK
<1> HIDE DEF quiet
<1>2. quiet \in BOOLEAN
  BY DEF quiet
<1>3. [rec EXCEPT !.quiet = quiet] \in Call /\ Right([rec EXCEPT !.quiet = quiet])
  BY <1>2 DEF Call, Right
<1>4. \A d \in Calls : /\ [call[d] EXCEPT !.quiet = FALSE] \in Call
                       /\ Like([call[d] EXCEPT !.quiet = FALSE], call[d])
  BY DEF Inv, TypeOK, Call, Like
<1>5. call' \in [Calls -> Call]
  BY <1>1, <1>3, <1>4
<1>6. Right(call'[c]) /\ \A d \in Calls : d # c => Like(call'[d], call[d])
  BY <1>1, <1>3, <1>4
<1> QED
  BY <1>1, <1>5, <1>6, CallsInv DEF Inv, TypeOK

LEMMA RequestInv == ASSUME Inv, NEW c \in Calls, Request(c) PROVE Inv'
<1> USE IdleType
<1>1. CASE Sync(c)
  <2>1. [Idle EXCEPT !.op = "sync", !.pc = "list"] \in Call
    BY DEF Call, Ops, Pcs
  <2> QED
    BY <1>1, <2>1, StartsInv DEF Sync, Call, Right
<1>2. CASE Poll(c)
  <2>1. [Idle EXCEPT !.op = "poll", !.pc = "list", !.have = row] \in Call
    BY DEF Call, Ops, Pcs, Inv, TypeOK
  <2> QED
    BY <1>2, <2>1, StartsInv DEF Poll, Call, Right
<1>3. ASSUME NEW s \in Slots, NEW op \in {"authorise", "delete", "disable", "enable"},
             Starts(c, [Idle EXCEPT !.op = op, !.pc = "olt", !.slot = s])
      PROVE  Inv'
  <2>1. [Idle EXCEPT !.op = op, !.pc = "olt", !.slot = s] \in Call
    BY DEF Call, Ops, Pcs
  <2>2. Right([Idle EXCEPT !.op = op, !.pc = "olt", !.slot = s])
    BY <2>1 DEF Call, Right
  <2> QED
    BY <1>3, <2>1, <2>2, StartsInv
<1>4. ASSUME NEW s \in Slots, Edit(c, s) PROVE Inv'
  <2>1. row[s] \in Row
    BY <1>4 DEF Edit, Inv, TypeOK
  <2>2. [Idle EXCEPT !.op = "edit", !.pc = "write", !.slot = s, !.copy = row[s]] \in Call
    BY <2>1 DEF Call, Ops, Pcs
  <2> QED
    BY <1>4, <2>2, StartsInv DEF Edit, Call, Right
<1>5. ASSUME NEW s \in Slots, Refresh(c, s) PROVE Inv'
  <2>1. row[s] \in Row
    BY <1>5 DEF Refresh, Inv, TypeOK
  <2>2. [Idle EXCEPT !.op = "refresh", !.pc = "look", !.slot = s, !.copy = row[s]] \in Call
    BY <2>1 DEF Call, Ops, Pcs
  <2> QED
    BY <1>5, <2>2, StartsInv DEF Refresh, Call, Right
<1> QED
  BY <1>1, <1>2, <1>3, <1>4, <1>5 DEF Request, Authorise, DeleteOnu, Disable, Enable

\* The locals are right after Excused and a change of the call that works.
LEMMA ExcusedCall ==
  ASSUME Inv, NEW c \in Calls, NEW s \in Slots, NEW D, NEW rec \in Call, Right(rec),
         call' = [Excused(s, D) EXCEPT ![c] = rec]
  PROVE  call' \in [Calls -> Call] /\ LocalsRight'
<1>1. /\ call' \in [Calls -> Call] /\ call'[c] = rec
      /\ \A d \in Calls : d # c => call'[d] = Excused(s, D)[d]
  BY ExcusedFacts
<1>2. \A d \in Calls : d # c => Like(call'[d], call[d])
  BY <1>1, ExcusedFacts
<1> QED
  BY <1>1, <1>2, CallsInv

LEMMA EndsInv ==
  ASSUME Inv, NEW c \in Calls, Ends(c) PROVE call' \in [Calls -> Call] /\ LocalsRight'
  BY OneCall, IdleType DEF Ends

LEMMA GotoInv ==
  ASSUME Inv, NEW c \in Calls, NEW pc \in Pcs \ {"save", "look"}, Goto(c, pc),
         call[c].pc # "idle",
         ~(call[c].op = "delete" /\ pc = "purge"),
         ~(call[c].op \in {"disable", "enable", "edit", "refresh"} /\ pc = "write")
  PROVE  call' \in [Calls -> Call] /\ LocalsRight'
<1> DEFINE rec == [call[c] EXCEPT !.pc = pc]
<1>1. call[c] \in Call /\ Right(call[c])
  BY DEF Inv, TypeOK, LocalsRight
<1>2. rec \in Call /\ Right(rec)
  BY <1>1 DEF Call, Right
<1>3. call' = [call EXCEPT ![c] = rec]
  BY DEF Goto, Inv, TypeOK
<1> HIDE DEF rec
<1> QED
  BY <1>2, <1>3, OneCall

LEMMA SyncInv ==
  ASSUME Inv, NEW c \in Calls, SyncList(c) \/ SyncLoad(c) \/ SyncCheck(c) \/ SyncSave(c)
                               \/ SyncPurge(c) \/ SyncDone(c)
  PROVE  Inv'
<1>1. /\ call[c] \in Call /\ Right(call[c])
      /\ call \in [Calls -> Call] /\ row \in [Slots -> Row \union {None}]
      /\ olt \in [Slots -> {"absent"} \union Admin]
  BY DEF Inv, TypeOK, LocalsRight
<1> USE DEF Inv, TypeOK
<1>2. CASE SyncList(c)
  <2>1. PICK snmp \in BOOLEAN :
          call' = [call EXCEPT ![c].pc = "load", ![c].todo = Present,
                     ![c].list = [s \in Slots |-> IF snmp /\ s \in Present THEN "seen" ELSE olt[s]]]
    BY <1>2 DEF SyncList
  <2> DEFINE list == [s \in Slots |-> IF snmp /\ s \in Present THEN "seen" ELSE olt[s]]
             rec == [call[c] EXCEPT !.pc = "load", !.todo = Present, !.list = list]
  <2>2. list \in [Slots -> Listed] /\ Present \subseteq Slots
    BY <1>1 DEF Listed, Present
  <2> HIDE DEF list
  <2>3. rec \in Call /\ Right(rec)
    BY <1>1, <1>2, <2>2 DEF Call, Pcs, Right, SyncList
  <2>4. call' = [call EXCEPT ![c] = rec]
    BY <1>1, <2>1 DEF list
  <2> HIDE DEF rec
  <2>5. call' \in [Calls -> Call] /\ LocalsRight'
    BY <2>3, <2>4, OneCall
  <2> QED
    BY <1>2, <2>5 DEF SyncList
<1>3. CASE SyncLoad(c)
  <2> DEFINE rec == [call[c] EXCEPT !.pc = "check", !.have = row]
  <2>1. rec \in Call /\ Right(rec)
    BY <1>1, <1>3 DEF Call, Pcs, Right, SyncLoad
  <2>2. call' = [call EXCEPT ![c] = rec]
    BY <1>1, <1>3 DEF SyncLoad
  <2> HIDE DEF rec
  <2>3. call' \in [Calls -> Call] /\ LocalsRight'
    BY <2>1, <2>2, OneCall
  <2> QED
    BY <1>3, <2>3 DEF SyncLoad
<1>4. CASE SyncCheck(c)
  <2>1. ASSUME NEW s \in call[c].todo, NEW X \in SUBSET {s},
               call' = [call EXCEPT ![c].todo = @ \ {s}, ![c].excuse = @ \union X]
        PROVE  call' \in [Calls -> Call] /\ LocalsRight'
    <3>1. s \in Slots /\ X \subseteq Slots
      BY <1>1 DEF Call
    <3>2. /\ [call[c] EXCEPT !.todo = @ \ {s}, !.excuse = @ \union X] \in Call
          /\ Right([call[c] EXCEPT !.todo = @ \ {s}, !.excuse = @ \union X])
      BY <1>1, <3>1 DEF Call, Right
    <3>3. call' = [call EXCEPT ![c] = [call[c] EXCEPT !.todo = @ \ {s}, !.excuse = @ \union X]]
      BY <1>1, <2>1
    <3> QED
      BY <3>2, <3>3, OneCall
  <2>4. ASSUME NEW s \in call[c].todo,
               call' = [call EXCEPT ![c].todo = @ \ {s}, ![c].seen = @ \union {s},
                                    ![c].slot = s, ![c].pc = "save"]
        PROVE  call' \in [Calls -> Call] /\ LocalsRight'
    <3> DEFINE rec == [call[c] EXCEPT !.todo = @ \ {s}, !.seen = @ \union {s}, !.slot = s,
                                      !.pc = "save"]
    <3>1. s \in Slots
      BY <1>1 DEF Call
    <3>2. rec \in Call /\ Right(rec)
      BY <1>1, <1>4, <3>1 DEF Call, Pcs, Right, SyncCheck
    <3>3. call' = [call EXCEPT ![c] = rec]
      BY <1>1, <2>4
    <3> HIDE DEF rec
    <3> QED
      BY <3>2, <3>3, OneCall
  <2>2. "purge" \in Pcs \ {"save", "look"} /\ call[c].op = "sync" /\ call[c].pc = "check"
    BY <1>4 DEF SyncCheck, Pcs
  <2>5. ASSUME NEW s \in call[c].todo,
               call' = [call EXCEPT ![c].todo = @ \ {s},
                          ![c].excuse = @ \union (IF olt[s] = "absent" THEN {} ELSE {s})]
        PROVE  call' \in [Calls -> Call] /\ LocalsRight'
    <3>1. (IF olt[s] = "absent" THEN {} ELSE {s}) \in SUBSET {s}
      OBVIOUS
    <3> QED
      BY <2>1, <2>5, <3>1
  <2>3. call' \in [Calls -> Call] /\ LocalsRight'
    BY <1>4, <2>2, <2>4, <2>5, GotoInv DEF SyncCheck
  <2> QED
    BY <1>4, <2>3 DEF SyncCheck
<1>5. CASE SyncSave(c)
  <2> DEFINE s == call[c].slot
             old == call[c].have[s]
             new == IF old = None THEN NewRow(ApplySnapshot("enable", call[c].list[s]))
                    ELSE [old EXCEPT !.admin = ApplySnapshot(@, call[c].list[s])]
             S == IF s \in call[c].excuse \/ Deleting(s) THEN {s} ELSE {}
             T == IF old = None \/ Outdated(s, old) THEN {s} ELSE {}
  <2>1. /\ call[c].pc = "save" /\ Ids \ UsedIds # {}
        /\ IF Conflict(s, new) THEN Ends(c) /\ UNCHANGED row
           ELSE /\ row' = [row EXCEPT ![s] = new]
                /\ call' = [call EXCEPT ![c].pc = "check", ![c].slot = None]
        /\ UNCHANGED <<olt, mark, pending, requests, faults>>
        /\ Explains(S, T)
    BY <1>5 DEF SyncSave
  <2>2. s \in Slots /\ old \in Row \union {None}
    BY <1>1, <1>5 DEF SyncSave, Right, Call
  <2>3. new \in Row
    <3>1. CASE old = None
      BY <2>1, <3>1, SnapshotType, NewRowType DEF Admin
    <3>2. CASE old # None
      BY <2>2, <3>2, SnapshotType DEF Row
    <3> QED
      BY <3>1, <3>2
  <2>4. S \in SUBSET Slots /\ T \in SUBSET Slots
    BY <2>2
  <2> HIDE DEF new, S, T
  <2>5. ASSUME call' = [call EXCEPT ![c].pc = "check", ![c].slot = None]
        PROVE  call' \in [Calls -> Call] /\ LocalsRight'
    <3>1. /\ [call[c] EXCEPT !.pc = "check", !.slot = None] \in Call
          /\ Right([call[c] EXCEPT !.pc = "check", !.slot = None])
      BY <1>1, <1>5 DEF Call, Pcs, Right, SyncSave
    <3>2. call' = [call EXCEPT ![c] = [call[c] EXCEPT !.pc = "check", !.slot = None]]
      BY <1>1, <2>5
    <3> QED
      BY <3>1, <3>2, OneCall
  <2>6. row' \in [Slots -> Row \union {None}]
    BY <1>1, <2>1, <2>2, <2>3
  <2>7. call' \in [Calls -> Call] /\ LocalsRight'
    BY <2>1, <2>5, EndsInv
  <2>8. strange' \subseteq Slots /\ unshown' \subseteq Slots
    BY <2>1, <2>4, ExplainsType
  <2> QED
    BY <2>1, <2>6, <2>7, <2>8
<1>6. CASE SyncPurge(c)
  <2>1. PICK s \in Leftover(c) :
          /\ row' = PurgedRow(s, call[c].have[s])
          /\ call' = [call EXCEPT ![c].have[s] = None]
          /\ Explains({s} \intersect call[c].excuse, {})
    BY <1>6 DEF SyncPurge
  <2>2. s \in Slots
    BY DEF Leftover
  <2>3. row' \in [Slots -> Row \union {None}]
    BY <1>1, <2>1, <2>2 DEF PurgedRow
  <2>4. strange' \subseteq Slots /\ unshown' \subseteq Slots
    <3>1. {s} \intersect call[c].excuse \in SUBSET Slots /\ {} \in SUBSET Slots
      BY <2>2
    <3> QED
      BY <2>1, <3>1, ExplainsType
  <2> DEFINE rec == [call[c] EXCEPT !.have[s] = None]
  <2>5. rec \in Call /\ Right(rec)
    BY <1>1, <2>2 DEF Call, Right
  <2>6. call' = [call EXCEPT ![c] = rec]
    BY <1>1, <2>1
  <2> HIDE DEF rec
  <2>7. call' \in [Calls -> Call] /\ LocalsRight'
    BY <2>5, <2>6, OneCall
  <2> QED
    BY <1>6, <2>3, <2>4, <2>7 DEF SyncPurge
<1>7. CASE SyncDone(c)
  BY <1>7, EndsInv DEF SyncDone
<1> QED
  BY <1>2, <1>3, <1>4, <1>5, <1>6, <1>7

LEMMA PollInv ==
  ASSUME Inv, NEW c \in Calls, PollList(c) \/ PollUpdate(c) \/ PollDone(c)
  PROVE  Inv'
<1>1. /\ call[c] \in Call /\ Right(call[c])
      /\ call \in [Calls -> Call] /\ row \in [Slots -> Row \union {None}]
      /\ olt \in [Slots -> {"absent"} \union Admin]
  BY DEF Inv, TypeOK, LocalsRight
<1> USE DEF Inv, TypeOK
<1>2. CASE PollList(c)
  <2> DEFINE rec == [call[c] EXCEPT !.pc = "update", !.list = olt, !.todo = Present]
  <2>1. olt \in [Slots -> Listed] /\ Present \subseteq Slots
    BY <1>1 DEF Listed, Present
  <2>2. rec \in Call /\ Right(rec)
    BY <1>1, <1>2, <2>1 DEF Call, Pcs, Right, PollList
  <2>3. call' = [call EXCEPT ![c] = rec]
    BY <1>1, <1>2 DEF PollList
  <2> HIDE DEF rec
  <2>4. call' \in [Calls -> Call] /\ LocalsRight'
    BY <2>2, <2>3, OneCall
  <2> QED
    BY <1>2, <2>4 DEF PollList
<1>3. CASE PollUpdate(c)
  <2>1. PICK s \in call[c].todo :
          LET old == call[c].have[s]
          IN /\ call' = [call EXCEPT ![c].todo = @ \ {s}]
             /\ IF old # None /\ row[s] # None /\ row[s].id = old.id /\ ~IsRecentlyDeleted(s)
                THEN row' = [row EXCEPT ![s].admin = ApplySnapshot(old.admin, call[c].list[s])]
                ELSE UNCHANGED row
             /\ Explains({}, IF Outdated(s, old) THEN {s} ELSE {})
    BY <1>3 DEF PollUpdate
  <2> DEFINE old == call[c].have[s]
             T == IF Outdated(s, old) THEN {s} ELSE {}
             rec == [call[c] EXCEPT !.todo = @ \ {s}]
  <2>2. s \in Slots /\ old \in Row \union {None}
    BY <1>1 DEF Call
  <2>3. row' \in [Slots -> Row \union {None}]
    <3>1. CASE UNCHANGED row
      BY <1>1, <3>1
    <3>2. CASE /\ old # None /\ row[s] # None
               /\ row' = [row EXCEPT ![s].admin = ApplySnapshot(old.admin, call[c].list[s])]
      <4>1. row[s] \in Row /\ ApplySnapshot(old.admin, call[c].list[s]) \in Admin
        BY <1>1, <2>2, <3>2, SnapshotType DEF Row
      <4>2. [row[s] EXCEPT !.admin = ApplySnapshot(old.admin, call[c].list[s])] \in Row
        BY <4>1 DEF Row
      <4> QED
        BY <1>1, <2>2, <3>2, <4>2
    <3> QED
      BY <2>1, <3>1, <3>2
  <2>4. T \in SUBSET Slots /\ {} \in SUBSET Slots /\ Explains({}, T)
    BY <2>1, <2>2
  <2>5. rec \in Call /\ Right(rec)
    BY <1>1, <2>2 DEF Call, Right
  <2>6. call' = [call EXCEPT ![c] = rec]
    BY <1>1, <2>1
  <2> HIDE DEF rec, T
  <2>7. call' \in [Calls -> Call] /\ LocalsRight'
    BY <2>5, <2>6, OneCall
  <2>8. strange' \subseteq Slots /\ unshown' \subseteq Slots
    BY <2>4, ExplainsType
  <2> QED
    BY <1>3, <2>3, <2>7, <2>8 DEF PollUpdate
<1>4. CASE PollDone(c)
  BY <1>4, EndsInv DEF PollDone
<1> QED
  BY <1>2, <1>3, <1>4

LEMMA AuthoriseInv ==
  ASSUME Inv, NEW c \in Calls, AuthoriseOlt(c) \/ ImportRead(c) \/ ImportSave(c)
  PROVE  Inv'
<1> DEFINE s == call[c].slot
<1>1. /\ call[c] \in Call /\ Right(call[c]) /\ s \in Slots
      /\ call \in [Calls -> Call] /\ row \in [Slots -> Row \union {None}]
      /\ olt \in [Slots -> {"absent"} \union Admin]
      /\ call[c].op = "authorise" /\ call[c].pc \in {"olt", "read", "write"}
  BY DEF Inv, TypeOK, LocalsRight, Right, AuthoriseOlt, ImportRead, ImportSave
<1> USE DEF Inv, TypeOK
<1>2. CASE AuthoriseOlt(c)
  <2>1. CASE olt[s] # "absent"
    BY <1>2, <2>1, EndsInv DEF AuthoriseOlt
  <2>2. CASE olt[s] = "absent"
    <3> DEFINE D == Knowing(s) \ {c}
               rec == [Excused(s, D)[c] EXCEPT !.pc = "read"]
    <3>1. /\ olt' = [olt EXCEPT ![s] = "enable"]
          /\ call' = [Excused(s, D) EXCEPT ![c].pc = "read"]
          /\ Explains({s}, {})
          /\ UNCHANGED <<row, mark, pending, requests, faults>>
      BY <1>2, <2>2 DEF AuthoriseOlt
    <3> HIDE DEF D
    <3>2. Excused(s, D) \in [Calls -> Call] /\ Like(Excused(s, D)[c], call[c])
      BY <1>1, ExcusedFacts
    <3>3. rec \in Call /\ Right(rec)
      <4>1. Excused(s, D)[c] \in Call /\ Excused(s, D)[c].op = "authorise"
            /\ Excused(s, D)[c].slot = s
        BY <1>1, <3>2 DEF Like
      <4>2. "read" \in Pcs
        BY DEF Pcs
      <4>3. rec \in Call /\ rec.op = "authorise" /\ rec.pc = "read" /\ rec.slot = s
        BY <4>1, <4>2, AtPc
      <4> HIDE DEF rec
      <4> QED
        BY <1>1, <4>3 DEF Right
    <3>4. call' = [Excused(s, D) EXCEPT ![c] = rec]
      BY <3>1, <3>2
    <3> HIDE DEF rec
    <3>5. call' \in [Calls -> Call] /\ LocalsRight'
      BY <1>1, <3>3, <3>4, ExcusedCall
    <3>6. {s} \in SUBSET Slots /\ {} \in SUBSET Slots
      BY <1>1
    <3>7. strange' \subseteq Slots /\ unshown' \subseteq Slots
      BY <3>1, <3>6, ExplainsType
    <3> QED
      BY <1>1, <3>1, <3>5, <3>7 DEF Admin
  <2> QED
    BY <2>1, <2>2
<1>3. CASE ImportRead(c)
  <2> DEFINE rec == [call[c] EXCEPT !.copy = row[s], !.pc = "write"]
  <2>1. rec \in Call /\ Right(rec)
    BY <1>1 DEF Call, Pcs, Right
  <2>2. call' = [call EXCEPT ![c] = rec]
    BY <1>1, <1>3 DEF ImportRead
  <2> HIDE DEF rec
  <2>3. call' \in [Calls -> Call] /\ LocalsRight'
    BY <2>1, <2>2, OneCall
  <2> QED
    BY <1>3, <2>3 DEF ImportRead
<1>4. CASE ImportSave(c)
  <2> DEFINE old == call[c].copy
             new == IF old = None THEN NewRow("enable")
                    ELSE [old EXCEPT !.admin = ApplySnapshot(@, "enable")]
             S == IF s \in call[c].excuse \/ Deleting(s) THEN {s} ELSE {}
             T == IF old = None \/ Outdated(s, old) THEN {s} ELSE {}
  <2>1. /\ Ids \ UsedIds # {}
        /\ IF Conflict(s, new) THEN UNCHANGED row ELSE row' = [row EXCEPT ![s] = new]
        /\ Ends(c)
        /\ UNCHANGED <<olt, mark, pending, requests, faults>>
        /\ Explains(S, T)
    BY <1>4 DEF ImportSave
  <2>2. old \in Row \union {None}
    BY <1>1 DEF Call
  <2>3. new \in Row
    <3>1. CASE old = None
      BY <2>1, <3>1, NewRowType DEF Admin
    <3>2. CASE old # None
      BY <2>2, <3>2, SnapshotType DEF Row
    <3> QED
      BY <3>1, <3>2
  <2>4. S \in SUBSET Slots /\ T \in SUBSET Slots
    BY <1>1
  <2> HIDE DEF new, S, T
  <2>5. row' \in [Slots -> Row \union {None}]
    BY <1>1, <2>1, <2>3
  <2>6. strange' \subseteq Slots /\ unshown' \subseteq Slots
    BY <2>1, <2>4, ExplainsType
  <2> QED
    BY <2>1, <2>5, <2>6, EndsInv
<1> QED
  BY <1>2, <1>3, <1>4

LEMMA DeleteInv ==
  ASSUME Inv, NEW c \in Calls, DeleteOlt(c) \/ GoneCheck(c)
                               \/ MarkDeleted(c) \/ DeletePurge(c)
  PROVE  Inv'
<1> DEFINE s == call[c].slot
<1>1. /\ call[c] \in Call /\ Right(call[c]) /\ s \in Slots
      /\ call \in [Calls -> Call] /\ row \in [Slots -> Row \union {None}]
      /\ olt \in [Slots -> {"absent"} \union Admin]
      /\ call[c].op = "delete" /\ call[c].pc \in {"olt", "gone", "mark", "purge"}
  BY DEF Inv, TypeOK, LocalsRight, Right, DeleteOlt, GoneCheck, MarkDeleted,
         DeletePurge
<1> USE DEF Inv, TypeOK
<1>2. CASE DeleteOlt(c)
  <2> DEFINE D == {d \in Knowing(s) \ {c} : ~Listing(d)}
             rec == [Excused(s, D)[c] EXCEPT !.pc = "mark"]
  <2>1. /\ olt' = [olt EXCEPT ![s] = "absent"]
        /\ call' = [Excused(s, D) EXCEPT ![c].pc = "mark"]
        /\ Explains({s}, {})
        /\ UNCHANGED <<row, mark, pending, requests, faults>>
    BY <1>2 DEF DeleteOlt
  <2> HIDE DEF D
  <2>2. Excused(s, D) \in [Calls -> Call] /\ Like(Excused(s, D)[c], call[c])
    BY <1>1, ExcusedFacts
  <2>3. rec \in Call /\ Right(rec)
    <3>1. Excused(s, D)[c] \in Call /\ Excused(s, D)[c].op = "delete" /\ Excused(s, D)[c].slot = s
      BY <1>1, <2>2 DEF Like
    <3>2. "mark" \in Pcs
      BY DEF Pcs
    <3>3. rec \in Call /\ rec.op = "delete" /\ rec.pc = "mark" /\ rec.slot = s
      BY <3>1, <3>2, AtPc
    <3> HIDE DEF rec
    <3> QED
      BY <1>1, <3>3 DEF Right
  <2>4. call' = [Excused(s, D) EXCEPT ![c] = rec]
    BY <2>1, <2>2
  <2> HIDE DEF rec
  <2>5. call' \in [Calls -> Call] /\ LocalsRight'
    BY <1>1, <2>3, <2>4, ExcusedCall
  <2>6. {s} \in SUBSET Slots /\ {} \in SUBSET Slots
    BY <1>1
  <2>7. strange' \subseteq Slots /\ unshown' \subseteq Slots
    BY <2>1, <2>6, ExplainsType
  <2> QED
    BY <1>1, <2>1, <2>5, <2>7
<1>4. CASE GoneCheck(c)
  <2>1. ASSUME Goto(c, "mark") PROVE call' \in [Calls -> Call] /\ LocalsRight'
    <3>1. "mark" \in Pcs \ {"save", "look"}
      BY DEF Pcs
    <3> QED
      BY <1>1, <2>1, <3>1, GotoInv
  <2>2. ASSUME call' = [call EXCEPT ![c].pc = "mark", ![c].excuse = {s}]
        PROVE  call' \in [Calls -> Call] /\ LocalsRight'
    <3>1. /\ [call[c] EXCEPT !.pc = "mark", !.excuse = {s}] \in Call
          /\ Right([call[c] EXCEPT !.pc = "mark", !.excuse = {s}])
      BY <1>1 DEF Call, Pcs, Right
    <3>2. call' = [call EXCEPT ![c] = [call[c] EXCEPT !.pc = "mark", !.excuse = {s}]]
      BY <1>1, <2>2
    <3> QED
      BY <3>1, <3>2, OneCall
  <2>3. call' \in [Calls -> Call] /\ LocalsRight'
    BY <1>4, <2>1, <2>2, EndsInv DEF GoneCheck
  <2>4. faults' \in 0 .. MaxFaults /\ UNCHANGED <<olt, row, mark, pending, strange, unshown, requests>>
    BY <1>4, RegistryBounds DEF GoneCheck
  <2> QED
    BY <2>3, <2>4
<1>5. CASE MarkDeleted(c)
  <2> DEFINE D == {d \in Calls : call[d].op = "sync" /\ call[d].pc = "save" /\ call[d].slot = s}
             rec == IF row[s] = None THEN Idle
                    ELSE [Excused(s, D)[c] EXCEPT !.pc = "purge", !.copy = row[s]]
  <2>1. /\ mark' \subseteq Slots
        /\ call' = [Excused(s, D) EXCEPT
                      ![c] = IF row[s] = None THEN Idle
                             ELSE [@ EXCEPT !.pc = "purge", !.copy = row[s]]]
        /\ UNCHANGED <<olt, row, pending, strange, unshown, requests, faults>>
    BY <1>1, <1>5 DEF MarkDeleted, MarkRecentlyDeleted
  <2> HIDE DEF D
  <2>2. Excused(s, D) \in [Calls -> Call] /\ Like(Excused(s, D)[c], call[c])
    BY <1>1, ExcusedFacts
  <2>3. rec \in Call /\ Right(rec)
    <3>1. CASE row[s] = None
      BY <3>1, IdleType
    <3>2. CASE row[s] # None
      <4>1. Excused(s, D)[c] \in Call /\ Excused(s, D)[c].op = "delete"
            /\ Excused(s, D)[c].slot = s
        BY <1>1, <2>2 DEF Like
      <4>2. row[s] \in Row /\ "purge" \in Pcs
        BY <1>1, <3>2 DEF Pcs
      <4>3. rec = [Excused(s, D)[c] EXCEPT !.pc = "purge", !.copy = row[s]]
        BY <3>2
      <4>4. rec \in Call
        BY <4>1, <4>2, <4>3 DEF Call
      <4>5. rec.op = "delete" /\ rec.pc = "purge" /\ rec.slot = s /\ rec.copy = row[s]
        BY <4>1, <4>3 DEF Call
      <4> HIDE DEF rec
      <4> QED
        BY <1>1, <3>2, <4>4, <4>5 DEF Right
    <3> QED
      BY <3>1, <3>2
  <2>4. call' = [Excused(s, D) EXCEPT ![c] = rec]
    BY <2>1, <2>2
  <2> HIDE DEF rec
  <2>5. call' \in [Calls -> Call] /\ LocalsRight'
    BY <1>1, <2>3, <2>4, ExcusedCall
  <2> QED
    BY <2>1, <2>5
<1>6. CASE DeletePurge(c)
  <2>1. /\ row' = PurgedRow(s, call[c].copy)
        /\ Ends(c)
        /\ UNCHANGED <<olt, mark, pending, requests, faults>>
        /\ Explains({s} \intersect call[c].excuse, {})
    BY <1>6 DEF DeletePurge
  <2>2. row' \in [Slots -> Row \union {None}]
    BY <1>1, <2>1 DEF PurgedRow
  <2>3. {s} \intersect call[c].excuse \in SUBSET Slots /\ {} \in SUBSET Slots
    BY <1>1
  <2>4. strange' \subseteq Slots /\ unshown' \subseteq Slots
    BY <2>1, <2>3, ExplainsType
  <2> QED
    BY <2>1, <2>2, <2>4, EndsInv
<1> QED
  BY <1>2, <1>4, <1>5, <1>6

LEMMA TimeoutInv == ASSUME Inv, NEW c \in Calls, CommandTimesOut(c) PROVE Inv'
<1>1. call[c] \in Call /\ call[c].slot \in Slots /\ call[c].pc = "olt" /\ call[c].op \in Commands
  BY DEF Inv, TypeOK, LocalsRight, Right, CommandTimesOut, Commands
<1>2. call' \in [Calls -> Call] /\ LocalsRight'
  <2>1. CASE Ends(c)
    BY <2>1, EndsInv
  <2>2. CASE call[c].op = "delete" /\ Goto(c, "gone")
    <3>1. "gone" \in Pcs \ {"save", "look"}
      BY DEF Pcs
    <3> QED
      BY <1>1, <2>2, <3>1, GotoInv
  <2> QED
    BY <2>1, <2>2 DEF CommandTimesOut
<1>3. [nr |-> faults, op |-> call[c].op, slot |-> call[c].slot] \in LateCommands
  BY <1>1 DEF LateCommands, Inv, TypeOK
<1>4. /\ faults' \in 0 .. MaxFaults
      /\ pending' = pending \union {[nr |-> faults, op |-> call[c].op, slot |-> call[c].slot]}
      /\ UNCHANGED <<olt, row, mark, strange, unshown, requests>>
  BY RegistryBounds DEF CommandTimesOut, Inv, TypeOK
<1> QED
  BY <1>2, <1>3, <1>4 DEF Inv, TypeOK

LEMMA AdminInv ==
  ASSUME Inv, NEW c \in Calls, AdminOlt(c) \/ AdminRead(c) \/ Look(c) \/ WriteCopy(c)
  PROVE  Inv'
<1> DEFINE s == call[c].slot
<1>1. /\ call[c] \in Call /\ Right(call[c]) /\ s \in Slots
      /\ call \in [Calls -> Call] /\ row \in [Slots -> Row \union {None}]
      /\ olt \in [Slots -> {"absent"} \union Admin]
  BY DEF Inv, TypeOK, LocalsRight, Right, AdminOlt, AdminRead, Look, WriteCopy
<1> USE DEF Inv, TypeOK
<1>2. CASE AdminOlt(c)
  <2>1. CASE olt[s] = "absent"
    BY <1>2, <2>1, EndsInv DEF AdminOlt
  <2>2. CASE olt[s] # "absent"
    <3>1. /\ olt' = [olt EXCEPT ![s] = AdminOf(call[c].op)]
          /\ Goto(c, "read") /\ Explains({}, {s})
          /\ call[c].pc = "olt" /\ UNCHANGED <<row, mark, pending, requests, faults>>
      BY <1>2, <2>2 DEF AdminOlt
    <3>2. "read" \in Pcs \ {"save", "look"}
      BY DEF Pcs
    <3>3. {s} \in SUBSET Slots /\ {} \in SUBSET Slots
      BY <1>1
    <3>4. strange' \subseteq Slots /\ unshown' \subseteq Slots
      BY <3>1, <3>3, ExplainsType
    <3>5. olt' \in [Slots -> {"absent"} \union Admin]
      BY <1>1, <3>1 DEF AdminOf, Admin
    <3>6. call' \in [Calls -> Call] /\ LocalsRight'
      BY <3>1, <3>2, GotoInv
    <3> QED
      BY <3>1, <3>4, <3>5, <3>6
  <2> QED
    BY <2>1, <2>2
<1>3. CASE AdminRead(c)
  <2> DEFINE copy == [row[s] EXCEPT !.admin = AdminOf(call[c].op)]
             rec == [call[c] EXCEPT !.pc = "write", !.copy = copy]
  <2>1. ASSUME row[s] # None, call' = [call EXCEPT ![c].pc = "write", ![c].copy = copy]
        PROVE  call' \in [Calls -> Call] /\ LocalsRight'
    <3>1. copy \in Row /\ copy # None
      <4>1. row[s] \in Row
        BY <1>1, <2>1
      <4>2. copy \in Row
        BY <4>1 DEF Row, Admin, AdminOf
      <4> QED
        BY <4>2, NoneAssumption
    <3> HIDE DEF copy
    <3>2. rec \in Call /\ Right(rec)
      BY <1>1, <1>3, <3>1 DEF Call, Pcs, Right, AdminRead
    <3>3. call' = [call EXCEPT ![c] = rec]
      BY <1>1, <2>1
    <3> HIDE DEF rec
    <3> QED
      BY <3>2, <3>3, OneCall
  <2>2. call' \in [Calls -> Call] /\ LocalsRight'
    BY <1>3, <2>1, EndsInv DEF AdminRead
  <2> QED
    BY <1>3, <2>2 DEF AdminRead
<1>4. CASE Look(c)
  <2> DEFINE rec == [call[c] EXCEPT !.list[s] = olt[s], !.pc = "write"]
  <2>1. ASSUME call' = [call EXCEPT ![c].list[s] = olt[s], ![c].pc = "write"]
        PROVE  call' \in [Calls -> Call] /\ LocalsRight'
    <3>1. rec \in Call /\ Right(rec)
      <4>1. olt[s] \in Listed
        BY <1>1 DEF Listed
      <4> QED
        BY <1>1, <1>4, <4>1 DEF Call, Pcs, Right, Look
    <3>2. call' = [call EXCEPT ![c] = rec]
      BY <1>1, <2>1
    <3> HIDE DEF rec
    <3> QED
      BY <3>1, <3>2, OneCall
  <2>2. call' \in [Calls -> Call] /\ LocalsRight'
    BY <1>4, <2>1, EndsInv DEF Look
  <2> QED
    BY <1>4, <2>2 DEF Look
<1>5. CASE WriteCopy(c)
  <2> DEFINE old == call[c].copy
             new == IF call[c].op = "refresh"
                    THEN [old EXCEPT !.admin = ApplySnapshot(@, call[c].list[s])] ELSE old
             S == IF row[s] = None THEN {s} ELSE {}
             T == IF call[c].op = "enable" \/ Outdated(s, old) THEN {s} ELSE {}
  <2>1. /\ IF Conflict(s, new) THEN UNCHANGED row ELSE row' = [row EXCEPT ![s] = new]
        /\ Ends(c)
        /\ UNCHANGED <<olt, mark, pending, requests, faults>>
        /\ Explains(S, T)
    BY <1>5 DEF WriteCopy
  <2>2. old \in Row
    BY <1>1, <1>5 DEF Call, Right, WriteCopy
  <2>3. new \in Row
    BY <2>2, SnapshotType DEF Row
  <2>4. S \in SUBSET Slots /\ T \in SUBSET Slots
    BY <1>1
  <2> HIDE DEF new, S, T
  <2>5. row' \in [Slots -> Row \union {None}]
    BY <1>1, <2>1, <2>3
  <2>6. strange' \subseteq Slots /\ unshown' \subseteq Slots
    BY <2>1, <2>4, ExplainsType
  <2> QED
    BY <2>1, <2>5, <2>6, EndsInv
<1> QED
  BY <1>2, <1>3, <1>4, <1>5

\* What a late command makes of its interface is a configuration.
LEMMA LateFacts ==
  ASSUME Inv, NEW late \in pending
  PROVE  /\ late.slot \in Slots
         /\ Commanded(late.op, olt[late.slot]) \in {"absent"} \union Admin
<1>1. late.slot \in Slots /\ olt[late.slot] \in {"absent"} \union Admin
  BY DEF Inv, TypeOK, LateCommands
<1> QED
  BY <1>1 DEF Commanded, AdminOf, Admin

\* Whoever knows whether the OLT has s is excused if this changes, and nobody is quiet.
LEMMA SurpriseFacts ==
  ASSUME Inv, NEW s \in Slots, NEW state, Surprise(s, state)
  PROVE  /\ call' \in [Calls -> Call]
         /\ \A d \in Calls : /\ Like(call'[d], call[d]) /\ ~call'[d].quiet
                             /\ d \in Knowing(s) /\ ~((olt[s] = "absent") <=> (state = "absent"))
                                  => s \in call'[d].excuse
<1> DEFINE D == IF (olt[s] = "absent") = (state = "absent") THEN {} ELSE Knowing(s)
<1>1. call' = [d \in Calls |-> [Excused(s, D)[d] EXCEPT !.quiet = FALSE]]
  BY DEF Surprise
<1>2. ASSUME NEW d \in Calls, d \in Knowing(s), ~((olt[s] = "absent") <=> (state = "absent"))
      PROVE  d \in D
  BY <1>2
<1> HIDE DEF D
<1>3. ASSUME NEW d \in Calls
      PROVE  /\ [Excused(s, D)[d] EXCEPT !.quiet = FALSE] \in Call
             /\ Like([Excused(s, D)[d] EXCEPT !.quiet = FALSE], call[d])
             /\ [Excused(s, D)[d] EXCEPT !.quiet = FALSE].quiet = FALSE
             /\ d \in D => s \in [Excused(s, D)[d] EXCEPT !.quiet = FALSE].excuse
  <2>1. /\ Excused(s, D)[d] \in Call /\ Like(Excused(s, D)[d], call[d])
        /\ d \in D => s \in Excused(s, D)[d].excuse
    BY ExcusedFacts
  <2> QED
    BY <2>1 DEF Like, Call
<1> QED
  BY <1>1, <1>2, <1>3

LEMMA SurpriseInv ==
  ASSUME Inv, NEW s \in Slots, NEW state \in {"absent"} \union Admin, Surprise(s, state)
  PROVE  /\ olt' \in [Slots -> {"absent"} \union Admin]
         /\ call' \in [Calls -> Call] /\ LocalsRight'
         /\ strange' \subseteq Slots /\ unshown' \subseteq Slots
<1>1. olt' = [olt EXCEPT ![s] = state] /\ Explains({s}, {s})
  BY DEF Surprise
<1>2. {s} \in SUBSET Slots
  OBVIOUS
<1>3. olt' \in [Slots -> {"absent"} \union Admin]
  BY <1>1 DEF Inv, TypeOK
<1>4. strange' \subseteq Slots /\ unshown' \subseteq Slots
  BY <1>1, <1>2, ExplainsType DEF Inv
<1>5. LocalsRight'
  BY SurpriseFacts, LikeType DEF Inv, LocalsRight
<1> QED
  BY <1>3, <1>4, <1>5, SurpriseFacts

LEMMA FaultInv ==
  ASSUME Inv,
         \/ \E late \in pending : LateCommand(late)
         \/ \E s \in Slots : Expires(s)
         \/ \E s \in Slots, state \in {"absent"} \union Admin : ByHand(s, state)
         \/ \E c \in Calls : Throw(c)
         \/ Restart
  PROVE  Inv'
<1>1. /\ call \in [Calls -> Call] /\ olt \in [Slots -> {"absent"} \union Admin]
      /\ \A d \in Calls : call[d] \in Call /\ Right(call[d])
  BY DEF Inv, TypeOK, LocalsRight
<1>2. ASSUME NEW s \in Slots, NEW D, call' = Excused(s, D)
      PROVE  call' \in [Calls -> Call] /\ LocalsRight'
  BY <1>1, <1>2, ExcusedFacts, LikeType DEF LocalsRight
<1>3. ASSUME NEW s \in Slots PROVE {s} \in SUBSET Slots /\ {} \in SUBSET Slots
  OBVIOUS
<1>4. ASSUME NEW late \in pending, LateCommand(late) PROVE Inv'
  <2> DEFINE s == late.slot
             state == Commanded(late.op, olt[late.slot])
  <2>1. /\ Surprise(s, state) /\ UNCHANGED <<row, mark, requests, faults>>
        /\ pending' = pending \ {late}
    BY <1>4 DEF LateCommand
  <2>2. s \in Slots /\ state \in {"absent"} \union Admin
    BY <1>1, LateFacts
  <2> HIDE DEF s, state
  <2> QED
    BY <2>1, <2>2, SurpriseInv DEF Inv, TypeOK
<1>5. ASSUME NEW s \in Slots, Expires(s) PROVE Inv'
  <2>1. /\ call' = Excused(s, {d \in Calls : Listing(d)}) /\ mark' = mark \ {s}
        /\ UNCHANGED <<olt, row, pending, strange, unshown, requests, faults>>
    BY <1>5 DEF Expires
  <2> QED
    BY <1>2, <2>1 DEF Inv, TypeOK
<1>6. ASSUME NEW s \in Slots, NEW state \in {"absent"} \union Admin, ByHand(s, state) PROVE Inv'
  <2>1. /\ Surprise(s, state) /\ faults' \in 0 .. MaxFaults
        /\ UNCHANGED <<row, mark, pending, requests>>
    BY <1>6, RegistryBounds DEF ByHand, Inv, TypeOK
  <2> QED
    BY <2>1, SurpriseInv DEF Inv, TypeOK
<1>7. ASSUME NEW c \in Calls, Throw(c) PROVE Inv'
  <2> DEFINE s == call[c].slot
             D == IF Writing(c, s) THEN {d \in Others(c) : Listing(d)} ELSE {}
  <2>1. /\ call' = [Excused(s, D) EXCEPT ![c] = Idle]
        /\ call[c].pc # "idle" /\ faults' \in 0 .. MaxFaults
        /\ UNCHANGED <<olt, row, mark, pending, strange, unshown, requests>>
    BY <1>7, RegistryBounds DEF Throw, Inv, TypeOK
  <2>2. CASE s \in Slots
    BY <2>1, <2>2, IdleType, ExcusedCall DEF Inv, TypeOK
  <2>3. CASE s \notin Slots
    <3>1. ~Writing(c, s)
      BY <1>1, <2>1, <2>3 DEF Writing, Right
    <3>2. D = {}
      BY <3>1
    <3>3. Excused(s, {}) = call
      BY <1>1 DEF Excused
    <3>4. call' = [call EXCEPT ![c] = Idle]
      BY <2>1, <3>2, <3>3
    <3> QED
      BY <2>1, <3>4, IdleType, OneCall DEF Inv, TypeOK
  <2> QED
    BY <2>2, <2>3
<1>8. CASE Restart
  BY <1>8, IdleType, RegistryBounds DEF Restart, Inv, TypeOK, LocalsRight
<1> QED
  BY <1>4, <1>5, <1>6, <1>7, <1>8

LEMMA InitInv == ASSUME Init PROVE Inv
<1>1. olt \in [Slots -> {"absent"} \union Admin] /\ row \in [Slots -> Row \union {None}]
  BY DEF Init, Empty, Nothing
<1> QED
  BY <1>1, IdleType, RegistryBounds DEF Init, Inv, TypeOK, LocalsRight

LEMMA NextInv == ASSUME Inv, [Next]_vars PROVE Inv'
<1>1. CASE UNCHANGED vars
  BY <1>1 DEF vars, Inv, TypeOK, LocalsRight
<1>2. ASSUME NEW c \in Calls, Step(c) PROVE Inv'
  BY <1>2, SyncInv, PollInv, AuthoriseInv, DeleteInv, AdminInv, TimeoutInv DEF Step
<1> QED
  BY <1>1, <1>2, RequestInv, FaultInv DEF Next

\* Every variable has its type in every reachable state.
THEOREM TypeCorrect == Spec => []TypeOK
<1>1. Init => Inv
  BY InitInv
<1>2. Inv /\ [Next]_vars => Inv'
  BY NextInv
<1>3. Inv => TypeOK
  BY DEF Inv
<1> QED
  BY <1>1, <1>2, <1>3, PTL DEF Spec

-----------------------------------------------------------------------------
(* Suspensions *)

\* A step that makes no other difference than the ones it explains
LEMMA ExplainedSuspension ==
  ASSUME SuspensionShown, NEW S, NEW T, Explains(S, T),
         \A t \in Slots : Unsuspended(t, row', olt') => Unsuspended(t, row, olt) \/ t \in T
  PROVE  SuspensionShown'
BY DEF SuspensionShown, Explains

\* A suspension that a row shows only gets lost by saving a copy from before.
LEMMA SavedSuspension ==
  ASSUME Inv, NEW s \in Slots, NEW new \in Row,
         row' = row \/ row' = [row EXCEPT ![s] = new], olt' = olt,
         NEW t \in Slots, Unsuspended(t, row', olt'),
         t = s /\ new.admin = "enable" => row[s] # None /\ row[s].admin # "disable"
  PROVE  Unsuspended(t, row, olt)
<1>1. row[t] # None => row[t] \in Row
  BY DEF Inv, TypeOK
<1> QED
  BY <1>1 DEF Unsuspended, Inv, TypeOK, Row, Admin

LEMMA SuspensionInv ==
  ASSUME Inv, SuspensionShown, Next PROVE SuspensionShown'
<1>1. /\ call \in [Calls -> Call] /\ row \in [Slots -> Row \union {None}]
      /\ olt \in [Slots -> {"absent"} \union Admin]
      /\ \A d \in Calls : call[d] \in Call /\ Right(call[d])
  BY DEF Inv, TypeOK, LocalsRight
<1>2. ASSUME UNCHANGED <<olt, row, unshown>> PROVE SuspensionShown'
  BY <1>2 DEF SuspensionShown, Unsuspended
<1>3. ASSUME NEW c \in Calls, Request(c) PROVE SuspensionShown'
  BY <1>2, <1>3 DEF Request, Sync, Authorise, DeleteOnu, Disable, Enable, Edit, Refresh, Poll, Starts
<1>4. ASSUME NEW c \in Calls, Step(c) PROVE SuspensionShown'
  <2> DEFINE s == call[c].slot
  <2>1. CASE SyncSave(c)
    <3> DEFINE old == call[c].have[s]
               new == IF old = None THEN NewRow(ApplySnapshot("enable", call[c].list[s]))
                      ELSE [old EXCEPT !.admin = ApplySnapshot(@, call[c].list[s])]
               S == IF s \in call[c].excuse \/ Deleting(s) THEN {s} ELSE {}
               T == IF old = None \/ Outdated(s, old) THEN {s} ELSE {}
    <3>1. /\ Ids \ UsedIds # {} /\ UNCHANGED olt /\ Explains(S, T)
          /\ row' = row \/ row' = [row EXCEPT ![s] = new]
      BY <2>1 DEF SyncSave
    <3>2. s \in Slots /\ old \in Row \union {None}
      BY <1>1, <2>1 DEF SyncSave, Right, Call
    <3>3. new \in Row /\ (old # None /\ old.admin = "disable" => new.admin = "disable")
      <4>1. CASE old = None
        BY <3>1, <4>1, SnapshotType, NewRowType DEF Admin
      <4>2. CASE old # None
        BY <3>2, <4>2, SnapshotType DEF Row
      <4> QED
        BY <4>1, <4>2
    <3> HIDE DEF new, S
    <3>4. s \notin T /\ new.admin = "enable" => row[s] # None /\ row[s].admin # "disable"
      BY <3>2, <3>3 DEF Outdated, Row, Admin
    <3> HIDE DEF T
    <3> QED
      BY <3>1, <3>2, <3>3, <3>4, SavedSuspension, ExplainedSuspension
  <2>2. CASE SyncPurge(c)
    <3>1. PICK t \in Leftover(c) :
            row' = PurgedRow(t, call[c].have[t]) /\ Explains({t} \intersect call[c].excuse, {})
      BY <2>2 DEF SyncPurge
    <3>2. olt' = olt /\ t \in Slots
      BY <2>2 DEF SyncPurge, Leftover
    <3> QED
      BY <1>1, <3>1, <3>2, ExplainedSuspension DEF PurgedRow, Unsuspended
  <2>3. CASE PollUpdate(c)
    <3>1. PICK t \in call[c].todo :
            LET old == call[c].have[t]
            IN /\ IF old # None /\ row[t] # None /\ row[t].id = old.id /\ ~IsRecentlyDeleted(t)
                  THEN row' = [row EXCEPT ![t].admin = ApplySnapshot(old.admin, call[c].list[t])]
                  ELSE UNCHANGED row
               /\ Explains({}, IF Outdated(t, old) THEN {t} ELSE {})
      BY <2>3 DEF PollUpdate
    <3> DEFINE old == call[c].have[t]
               admin == ApplySnapshot(old.admin, call[c].list[t])
               T == IF Outdated(t, old) THEN {t} ELSE {}
    <3>2. t \in Slots /\ old \in Row \union {None} /\ olt' = olt /\ Explains({}, T)
      BY <1>1, <2>3, <3>1 DEF Call, PollUpdate
    <3>3. CASE row' = row
      BY <3>2, <3>3, ExplainedSuspension
    <3>4. CASE old # None /\ row[t] # None /\ row' = [row EXCEPT ![t].admin = admin]
      <4>1. old \in Row /\ row[t] \in Row /\ old.admin \in Admin
        BY <1>1, <3>2, <3>4 DEF Row
      <4>2. admin \in Admin /\ (old.admin = "disable" => admin = "disable")
        BY <4>1, SnapshotType
      <4> DEFINE new == [row[t] EXCEPT !.admin = admin]
      <4> HIDE DEF admin
      <4>3. new \in Row /\ new.admin = admin /\ row' = [row EXCEPT ![t] = new]
        BY <1>1, <3>2, <3>4, <4>1, <4>2 DEF Row
      <4> HIDE DEF new
      <4>4. t \notin T /\ new.admin = "enable" => row[t] # None /\ row[t].admin # "disable"
        BY <3>4, <4>1, <4>2, <4>3 DEF Outdated, Admin
      <4> HIDE DEF T
      <4> QED
        BY <3>2, <4>3, <4>4, SavedSuspension, ExplainedSuspension
    <3> QED
      BY <3>1, <3>3, <3>4
  <2>4. CASE AuthoriseOlt(c)
    <3>1. CASE UNCHANGED <<olt, row, unshown>>
      BY <1>2, <3>1
    <3>2. CASE olt' = [olt EXCEPT ![s] = "enable"] /\ row' = row /\ Explains({s}, {})
      BY <1>1, <3>2, ExplainedSuspension DEF Unsuspended
    <3> QED
      BY <2>4, <3>1, <3>2 DEF AuthoriseOlt
  <2>5. CASE ImportSave(c)
    <3> DEFINE old == call[c].copy
               new == IF old = None THEN NewRow("enable")
                      ELSE [old EXCEPT !.admin = ApplySnapshot(@, "enable")]
               S == IF s \in call[c].excuse \/ Deleting(s) THEN {s} ELSE {}
               T == IF old = None \/ Outdated(s, old) THEN {s} ELSE {}
    <3>1. /\ Ids \ UsedIds # {} /\ UNCHANGED olt /\ Explains(S, T)
          /\ row' = row \/ row' = [row EXCEPT ![s] = new]
      BY <2>5 DEF ImportSave
    <3>2. s \in Slots /\ old \in Row \union {None}
      BY <1>1, <2>5 DEF ImportSave, Right, Call
    <3>3. new \in Row /\ (old # None /\ old.admin = "disable" => new.admin = "disable")
      <4>1. CASE old = None
        BY <3>1, <4>1, NewRowType DEF Admin
      <4>2. CASE old # None
        BY <3>2, <4>2, SnapshotType DEF Row
      <4> QED
        BY <4>1, <4>2
    <3> HIDE DEF new, S
    <3>4. s \notin T /\ new.admin = "enable" => row[s] # None /\ row[s].admin # "disable"
      BY <3>2, <3>3 DEF Outdated, Row, Admin
    <3> HIDE DEF T
    <3> QED
      BY <3>1, <3>2, <3>3, <3>4, SavedSuspension, ExplainedSuspension
  <2>6. CASE DeleteOlt(c)
    <3>1. olt' = [olt EXCEPT ![s] = "absent"] /\ row' = row /\ Explains({s}, {})
      BY <2>6 DEF DeleteOlt
    <3> QED
      BY <1>1, <3>1, ExplainedSuspension DEF Unsuspended
  <2>7. CASE DeletePurge(c)
    <3>1. /\ row' = PurgedRow(s, call[c].copy) /\ olt' = olt
          /\ Explains({s} \intersect call[c].excuse, {})
      BY <2>7 DEF DeletePurge
    <3> QED
      BY <1>1, <3>1, ExplainedSuspension DEF PurgedRow, Unsuspended
  <2>8. CASE AdminOlt(c)
    <3>1. CASE UNCHANGED <<olt, row, unshown>>
      BY <1>2, <3>1
    <3>2. CASE olt' = [olt EXCEPT ![s] = AdminOf(call[c].op)] /\ row' = row /\ Explains({}, {s})
      BY <1>1, <3>2, ExplainedSuspension DEF Unsuspended
    <3> QED
      BY <2>8, <3>1, <3>2 DEF AdminOlt
  <2>9. CASE WriteCopy(c)
    <3> DEFINE old == call[c].copy
               new == IF call[c].op = "refresh"
                      THEN [old EXCEPT !.admin = ApplySnapshot(@, call[c].list[s])] ELSE old
               S == IF row[s] = None THEN {s} ELSE {}
               T == IF call[c].op = "enable" \/ Outdated(s, old) THEN {s} ELSE {}
    <3>1. /\ UNCHANGED olt /\ Explains(S, T)
          /\ row' = row \/ row' = [row EXCEPT ![s] = new]
      BY <2>9 DEF WriteCopy
    <3>2. s \in Slots /\ old \in Row /\ old # None
      BY <1>1, <2>9 DEF WriteCopy, Right, Call
    <3>3. new \in Row /\ (old.admin = "disable" => new.admin = "disable")
      BY <3>2, SnapshotType DEF Row
    <3> HIDE DEF new, S
    <3>4. s \notin T /\ new.admin = "enable" => row[s] # None /\ row[s].admin # "disable"
      BY <3>2, <3>3 DEF Outdated, Row, Admin
    <3> HIDE DEF T
    <3> QED
      BY <3>1, <3>2, <3>3, <3>4, SavedSuspension, ExplainedSuspension
  <2>10. ASSUME \/ SyncList(c) \/ SyncLoad(c) \/ SyncCheck(c) \/ SyncDone(c) \/ PollList(c)
                \/ PollDone(c) \/ ImportRead(c) \/ GoneCheck(c)
                \/ MarkDeleted(c) \/ AdminRead(c) \/ Look(c) \/ CommandTimesOut(c)
         PROVE  UNCHANGED <<olt, row, unshown>>
    BY <2>10 DEF SyncList, SyncLoad, SyncCheck, SyncDone, PollList, PollDone, ImportRead,
                 GoneCheck, MarkDeleted, AdminRead, Look, CommandTimesOut
  <2> QED
    BY <1>2, <1>4, <2>1, <2>2, <2>3, <2>4, <2>5, <2>6, <2>7, <2>8, <2>9, <2>10 DEF Step
<1>8. ASSUME NEW s \in Slots, NEW state, Surprise(s, state), row' = row PROVE SuspensionShown'
  <2>1. olt' = [olt EXCEPT ![s] = state] /\ Explains({s}, {s})
    BY <1>8 DEF Surprise
  <2> QED
    BY <1>1, <1>8, <2>1, ExplainedSuspension DEF Unsuspended
<1>5. ASSUME NEW late \in pending, LateCommand(late) PROVE SuspensionShown'
  <2>1. row' = row /\ \E state : Surprise(late.slot, state)
    BY <1>5 DEF LateCommand
  <2> QED
    BY <1>8, <2>1, LateFacts
<1>6. ASSUME NEW s \in Slots, NEW state \in {"absent"} \union Admin, ByHand(s, state)
      PROVE  SuspensionShown'
  BY <1>6, <1>8 DEF ByHand
<1>7. ASSUME (\E s \in Slots : Expires(s)) \/ (\E c \in Calls : Throw(c)) \/ Restart
      PROVE  UNCHANGED <<olt, row, unshown>>
  BY <1>7 DEF Expires, Throw, Restart
<1> QED
  BY <1>2, <1>3, <1>4, <1>5, <1>6, <1>7 DEF Next

\* A row shows an ONU as enabled that the OLT has disabled only for one of the reasons listed
\* with SuspensionShown, for any interfaces and calls: in particular ApplySnapshot lets no
\* snapshot undo the suspension of the copy it is applied to.
THEOREM SuspensionShownHolds == Spec => []SuspensionShown
<1>1. Init => Inv /\ SuspensionShown
  BY InitInv DEF Init, SuspensionShown, Unsuspended, Empty, Nothing
<1>2. Inv /\ SuspensionShown /\ [Next]_vars => (Inv /\ SuspensionShown)'
  <2>1. UNCHANGED vars /\ SuspensionShown => SuspensionShown'
    BY DEF vars, SuspensionShown, Unsuspended
  <2> QED
    BY <2>1, NextInv, SuspensionInv
<1> QED
  BY <1>1, <1>2, PTL DEF Spec

-----------------------------------------------------------------------------
(* Rows and OLT *)

\* interfaces of deletions that have changed the OLT and are not remembered yet
Marking == {s \in Slots : \E d \in Calls : /\ call[d].op = "delete"
                                            /\ call[d].pc = "mark" /\ call[d].slot = s}

\* What call r may still do with interface s, if the OLT has o there, the deletions of M
\* are about to be remembered and those of K are: where a listing is older than the OLT, the
\* deletion is remembered before the row is saved, or the step that makes it old says so.
Knows(r, s, o, M, K) ==
    /\ r.op = "sync" /\ r.pc \in {"load", "check", "save", "purge"} =>
         /\ o = "absent" /\ s \in r.todo => s \in r.excuse \union M \union K
         /\ o = "absent" /\ r.pc = "save" /\ r.slot = s => s \in r.excuse \union M
         /\ o # "absent" => s \in r.todo \union r.seen \union r.excuse
         /\ r.pc = "purge" => r.todo = {}
    /\ r.op = "authorise" /\ r.pc \in {"read", "write"} /\ r.slot = s /\ o = "absent"
         => s \in r.excuse
    /\ r.op = "delete" /\ r.pc \in {"mark", "purge"} /\ r.slot = s /\ o # "absent"
         => s \in r.excuse

KnowledgeRight == \A c \in Calls : \A s \in Slots : Knows(call[c], s, olt[s], Marking, mark)

ShownInv == Inv /\ KnowledgeRight /\ ShownAsOnOlt

\* The OLT is as it was, or the call is excused.
LEMMA KnowsMore ==
  ASSUME NEW r1, NEW r2, NEW s, NEW o1, NEW M1, NEW K1, Knows(r1, s, o1, M1, K1), Like(r2, r1),
         NEW o2, NEW M2, NEW K2,
         s \in r2.excuse \/ ((o1 = "absent") <=> (o2 = "absent")),
         s \in r2.excuse \/ ((s \in M1 => s \in M2) /\ (s \in K1 => s \in K2))
  PROVE  Knows(r2, s, o2, M2, K2)
BY DEF Knows, Like

\* Call c goes on; what the others know stays as true.
LEMMA StepKnows ==
  ASSUME Inv, KnowledgeRight, NEW c \in Calls, NEW rec, call' = [call EXCEPT ![c] = rec],
         mark' = mark, \A s \in Slots : (olt[s] = "absent") <=> (olt'[s] = "absent"),
         call[c].op = "delete" /\ call[c].pc = "mark" => rec = call[c],
         \A s \in Slots : Knows(rec, s, olt'[s], Marking, mark)
  PROVE  KnowledgeRight'
<1>1. \A d \in Calls : call'[d] = IF d = c THEN rec ELSE call[d]
  BY DEF Inv, TypeOK
<1>2. \A s \in Slots : s \in Marking => s \in Marking'
  BY <1>1 DEF Marking
<1>3. \A d \in Calls : Like(call'[d], call'[d])
  BY <1>1 DEF Like
<1>4. \A d \in Calls, s \in Slots : Knows(call'[d], s, olt'[s], Marking', mark')
  <2> TAKE d \in Calls, s \in Slots
  <2>1. CASE d = c
    BY <1>1, <1>2, <1>3, <2>1, KnowsMore
  <2>2. CASE d # c
    <3>1. Knows(call'[d], s, olt[s], Marking, mark)
      BY <1>1, <2>2 DEF KnowledgeRight
    <3> QED
      BY <1>2, <1>3, <3>1, KnowsMore
  <2> QED
    BY <2>1, <2>2
<1> QED
  BY <1>4 DEF KnowledgeRight

LEMMA IdleKnows == \A s, o, M, K : Knows(Idle, s, o, M, K)
BY IdleType DEF Knows

LEMMA EndsKnows ==
  ASSUME Inv, KnowledgeRight, NEW c \in Calls, Ends(c), UNCHANGED <<olt, mark>>,
         ~(call[c].op = "delete" /\ call[c].pc = "mark")
  PROVE  KnowledgeRight'
BY StepKnows, IdleKnows DEF Ends

LEMMA RequestKnows ==
  ASSUME Inv, KnowledgeRight, NEW c \in Calls, Request(c) PROVE KnowledgeRight'
<1>1. ASSUME NEW rec \in Call, Starts(c, rec), rec.pc \in {"list", "olt", "write", "look"},
             rec.pc = "write" => rec.op = "edit"
      PROVE  KnowledgeRight'
  <2> DEFINE quiet == \A d \in Calls : call[d].pc = "idle"
  <2>1. /\ UNCHANGED <<olt, mark>> /\ call[c].pc = "idle"
        /\ call' = [d \in Calls |-> IF d = c THEN [rec EXCEPT !.quiet = quiet]
                                    ELSE [call[d] EXCEPT !.quiet = FALSE]]
    BY <1>1 DEF Starts
  <2> HIDE DEF quiet
  <2>2. \A d \in Calls : Like([call[d] EXCEPT !.quiet = FALSE], call[d])
    BY DEF Inv, TypeOK, Call, Like
  <2>3. call'[c].pc = rec.pc /\ call'[c].op = rec.op
    BY <1>1, <2>1 DEF Call
  <2>4. \A s \in Slots : s \in Marking => s \in Marking'
    <3>1. \A d \in Calls : call[d].op = "delete" /\ call[d].pc = "mark" => d # c
      BY <2>1
    <3> QED
      BY <2>1, <2>2, <3>1 DEF Marking, Like
  <2>5. ASSUME NEW d \in Calls, NEW s \in Slots
        PROVE  Knows(call'[d], s, olt'[s], Marking', mark')
    <3>1. CASE d = c
      BY <1>1, <2>3, <3>1 DEF Knows
    <3>2. CASE d # c
      <4>1. Like(call'[d], call[d])
        BY <2>1, <2>2, <3>2
      <4> QED
        BY <2>1, <2>4, <4>1, KnowsMore DEF KnowledgeRight
    <3> QED
      BY <3>1, <3>2
  <2> QED
    BY <2>5 DEF KnowledgeRight
<1> USE IdleType
<1>2. CASE Sync(c)
  <2>1. [Idle EXCEPT !.op = "sync", !.pc = "list"] \in Call
    BY DEF Call, Ops, Pcs
  <2> QED
    BY <1>1, <1>2, <2>1 DEF Sync, Call
<1>3. CASE Poll(c)
  <2>1. [Idle EXCEPT !.op = "poll", !.pc = "list", !.have = row] \in Call
    BY DEF Call, Ops, Pcs, Inv, TypeOK
  <2> QED
    BY <1>1, <1>3, <2>1 DEF Poll, Call
<1>4. ASSUME NEW s \in Slots, NEW op \in {"authorise", "delete", "disable", "enable"},
             Starts(c, [Idle EXCEPT !.op = op, !.pc = "olt", !.slot = s])
      PROVE  KnowledgeRight'
  <2>1. [Idle EXCEPT !.op = op, !.pc = "olt", !.slot = s] \in Call
    BY DEF Call, Ops, Pcs
  <2> QED
    BY <1>1, <1>4, <2>1 DEF Call
<1>5. ASSUME NEW s \in Slots, Edit(c, s) PROVE KnowledgeRight'
  <2>1. row[s] \in Row
    BY <1>5 DEF Edit, Inv, TypeOK
  <2>2. [Idle EXCEPT !.op = "edit", !.pc = "write", !.slot = s, !.copy = row[s]] \in Call
    BY <2>1 DEF Call, Ops, Pcs
  <2> QED
    BY <1>1, <1>5, <2>2 DEF Edit, Call
<1>6. ASSUME NEW s \in Slots, Refresh(c, s) PROVE KnowledgeRight'
  <2>1. row[s] \in Row
    BY <1>6 DEF Refresh, Inv, TypeOK
  <2>2. [Idle EXCEPT !.op = "refresh", !.pc = "look", !.slot = s, !.copy = row[s]] \in Call
    BY <2>1 DEF Call, Ops, Pcs
  <2> QED
    BY <1>1, <1>6, <2>2 DEF Refresh, Call
<1> QED
  BY <1>2, <1>3, <1>4, <1>5, <1>6 DEF Request, Authorise, DeleteOnu, Disable, Enable

LEMMA SyncKnows ==
  ASSUME Inv, KnowledgeRight, NEW c \in Calls,
         SyncList(c) \/ SyncLoad(c) \/ SyncCheck(c) \/ SyncSave(c) \/ SyncPurge(c) \/ SyncDone(c)
  PROVE  KnowledgeRight'
<1>1. /\ call[c] \in Call /\ Right(call[c]) /\ call[c].op = "sync"
      /\ call \in [Calls -> Call] /\ olt' = olt /\ mark' = mark
      /\ \A s \in Slots : Knows(call[c], s, olt[s], Marking, mark)
  BY DEF Inv, TypeOK, LocalsRight, KnowledgeRight, SyncList, SyncLoad, SyncCheck, SyncSave,
         SyncPurge, SyncDone
<1>2. ASSUME NEW rec, call' = [call EXCEPT ![c] = rec],
             \A s \in Slots : Knows(rec, s, olt[s], Marking, mark)
      PROVE  KnowledgeRight'
  BY <1>1, <1>2, StepKnows
<1>3. CASE SyncList(c)
  <2>1. PICK snmp \in BOOLEAN :
          call' = [call EXCEPT ![c].pc = "load", ![c].todo = Present,
                     ![c].list = [s \in Slots |-> IF snmp /\ s \in Present THEN "seen" ELSE olt[s]]]
    BY <1>3 DEF SyncList
  <2> DEFINE list == [s \in Slots |-> IF snmp /\ s \in Present THEN "seen" ELSE olt[s]]
             rec == [call[c] EXCEPT !.pc = "load", !.todo = Present, !.list = list]
  <2> HIDE DEF list
  <2>2. rec.op = "sync" /\ rec.pc = "load" /\ rec.todo = Present
    BY <1>1 DEF Call
  <2>3. call' = [call EXCEPT ![c] = rec]
    BY <1>1, <2>1 DEF list
  <2> HIDE DEF rec
  <2>4. \A s \in Slots : Knows(rec, s, olt[s], Marking, mark)
    BY <2>2 DEF Knows, Present
  <2> QED
    BY <1>2, <2>3, <2>4
<1>4. CASE SyncLoad(c)
  <2> DEFINE rec == [call[c] EXCEPT !.pc = "check", !.have = row]
  <2>1. /\ rec.op = "sync" /\ rec.pc = "check" /\ rec.todo = call[c].todo
        /\ rec.seen = call[c].seen /\ rec.excuse = call[c].excuse
        /\ call' = [call EXCEPT ![c] = rec] /\ call[c].pc = "load"
    BY <1>1, <1>4 DEF Call, SyncLoad
  <2> HIDE DEF rec
  <2>2. \A s \in Slots : Knows(rec, s, olt[s], Marking, mark)
    BY <1>1, <2>1 DEF Knows
  <2> QED
    BY <1>2, <2>1, <2>2
<1>5. CASE SyncCheck(c)
  <2>1. call[c].pc = "check"
    BY <1>5 DEF SyncCheck
  <2>2. ASSUME NEW t \in call[c].todo,
               call' = [call EXCEPT ![c].todo = @ \ {t},
                          ![c].excuse = @ \union (IF olt[t] = "absent" THEN {} ELSE {t})]
        PROVE  KnowledgeRight'
    <3> DEFINE X == IF olt[t] = "absent" THEN {} ELSE {t}
               rec == [call[c] EXCEPT !.todo = @ \ {t}, !.excuse = @ \union X]
    <3>3. (olt[t] # "absent" => t \in X)
      OBVIOUS
    <3>4. call' = [call EXCEPT ![c].todo = @ \ {t}, ![c].excuse = @ \union X]
      BY <2>2
    <3> HIDE DEF X
    <3>1. /\ rec.op = "sync" /\ rec.pc = "check" /\ rec.todo = call[c].todo \ {t}
          /\ rec.seen = call[c].seen /\ rec.excuse = call[c].excuse \union X
          /\ call' = [call EXCEPT ![c] = rec]
      BY <1>1, <2>1, <3>4 DEF Call
    <3> HIDE DEF rec
    <3>2. \A s \in Slots : Knows(rec, s, olt[s], Marking, mark)
      BY <1>1, <2>1, <3>1, <3>3 DEF Knows
    <3> QED
      BY <1>2, <3>1, <3>2
  <2>3. ASSUME NEW t \in call[c].todo, ~IsRecentlyDeleted(t),
               call' = [call EXCEPT ![c].todo = @ \ {t}, ![c].seen = @ \union {t},
                                    ![c].slot = t, ![c].pc = "save"]
        PROVE  KnowledgeRight'
    <3> DEFINE rec == [call[c] EXCEPT !.todo = @ \ {t}, !.seen = @ \union {t}, !.slot = t,
                                      !.pc = "save"]
    <3>1. /\ rec.op = "sync" /\ rec.pc = "save" /\ rec.todo = call[c].todo \ {t}
          /\ rec.seen = call[c].seen \union {t} /\ rec.excuse = call[c].excuse
          /\ rec.slot = t /\ call' = [call EXCEPT ![c] = rec] /\ t \notin mark
      BY <1>1, <2>1, <2>3 DEF Call, IsRecentlyDeleted
    <3> HIDE DEF rec
    <3>2. \A s \in Slots : Knows(rec, s, olt[s], Marking, mark)
      BY <1>1, <2>1, <3>1 DEF Knows
    <3> QED
      BY <1>2, <3>1, <3>2
  <2>4. ASSUME call[c].todo = {}, Goto(c, "purge") PROVE KnowledgeRight'
    <3> DEFINE rec == [call[c] EXCEPT !.pc = "purge"]
    <3>1. /\ rec.op = "sync" /\ rec.pc = "purge" /\ rec.todo = {}
          /\ rec.seen = call[c].seen /\ rec.excuse = call[c].excuse
          /\ call' = [call EXCEPT ![c] = rec]
      BY <1>1, <2>4 DEF Call, Goto
    <3> HIDE DEF rec
    <3>2. \A s \in Slots : Knows(rec, s, olt[s], Marking, mark)
      BY <1>1, <2>1, <2>4, <3>1 DEF Knows
    <3> QED
      BY <1>2, <3>1, <3>2
  <2> QED
    BY <1>5, <2>2, <2>3, <2>4 DEF SyncCheck
<1>6. CASE SyncSave(c)
  <2>1. Ends(c) \/ call' = [call EXCEPT ![c].pc = "check", ![c].slot = None]
    BY <1>6 DEF SyncSave
  <2>2. CASE Ends(c)
    BY <1>1, <2>2, EndsKnows
  <2>3. CASE call' = [call EXCEPT ![c].pc = "check", ![c].slot = None]
    <3> DEFINE rec == [call[c] EXCEPT !.pc = "check", !.slot = None]
    <3>1. /\ rec.op = "sync" /\ rec.pc = "check" /\ rec.todo = call[c].todo
          /\ rec.seen = call[c].seen /\ rec.excuse = call[c].excuse
          /\ call' = [call EXCEPT ![c] = rec] /\ call[c].pc = "save"
      BY <1>1, <1>6, <2>3 DEF Call, SyncSave
    <3> HIDE DEF rec
    <3>2. \A s \in Slots : Knows(rec, s, olt[s], Marking, mark)
      BY <1>1, <3>1 DEF Knows
    <3> QED
      BY <1>2, <3>1, <3>2
  <2> QED
    BY <2>1, <2>2, <2>3
<1>7. CASE SyncPurge(c)
  <2>1. PICK t \in Leftover(c) : call' = [call EXCEPT ![c].have[t] = None]
    BY <1>7 DEF SyncPurge
  <2> DEFINE rec == [call[c] EXCEPT !.have[t] = None]
  <2>2. /\ rec.op = "sync" /\ rec.pc = "purge" /\ rec.todo = call[c].todo
        /\ rec.seen = call[c].seen /\ rec.excuse = call[c].excuse
        /\ call' = [call EXCEPT ![c] = rec] /\ call[c].pc = "purge"
    BY <1>1, <1>7, <2>1 DEF Call, SyncPurge
  <2> HIDE DEF rec
  <2>3. \A s \in Slots : Knows(rec, s, olt[s], Marking, mark)
    BY <1>1, <2>2 DEF Knows
  <2> QED
    BY <1>2, <2>2, <2>3
<1>8. CASE SyncDone(c)
  BY <1>1, <1>8, EndsKnows DEF SyncDone
<1> QED
  BY <1>3, <1>4, <1>5, <1>6, <1>7, <1>8

LEMMA PollKnows ==
  ASSUME Inv, KnowledgeRight, NEW c \in Calls, PollList(c) \/ PollUpdate(c) \/ PollDone(c)
  PROVE  KnowledgeRight'
<1>1. /\ call[c] \in Call /\ call[c].op = "poll" /\ call \in [Calls -> Call]
      /\ olt' = olt /\ mark' = mark
  BY DEF Inv, TypeOK, PollList, PollUpdate, PollDone
<1>2. ASSUME NEW rec, call' = [call EXCEPT ![c] = rec], rec.op = "poll" PROVE KnowledgeRight'
  <2>1. \A s \in Slots : Knows(rec, s, olt[s], Marking, mark)
    BY <1>2 DEF Knows
  <2> QED
    BY <1>1, <1>2, <2>1, StepKnows
<1>3. CASE PollList(c)
  <2>1. call' = [call EXCEPT ![c] = [call[c] EXCEPT !.pc = "update", !.list = olt, !.todo = Present]]
    BY <1>1, <1>3 DEF PollList
  <2>2. [call[c] EXCEPT !.pc = "update", !.list = olt, !.todo = Present].op = "poll"
    BY <1>1 DEF Call
  <2> QED
    BY <1>2, <2>1, <2>2
<1>4. CASE PollUpdate(c)
  <2>1. PICK t \in call[c].todo : call' = [call EXCEPT ![c].todo = @ \ {t}]
    BY <1>4 DEF PollUpdate
  <2>2. call' = [call EXCEPT ![c] = [call[c] EXCEPT !.todo = @ \ {t}]]
    BY <1>1, <2>1
  <2>3. [call[c] EXCEPT !.todo = @ \ {t}].op = "poll"
    BY <1>1 DEF Call
  <2> QED
    BY <1>2, <2>2, <2>3
<1>5. CASE PollDone(c)
  BY <1>1, <1>5, EndsKnows DEF PollDone
<1> QED
  BY <1>3, <1>4, <1>5

\* What a call knows is right anew, or was right and the call only learnt an excuse.
LEMMA ManyKnow ==
  ASSUME KnowledgeRight,
         \A d \in Calls, s \in Slots :
            \/ Knows(call'[d], s, olt'[s], Marking', mark')
            \/ /\ Like(call'[d], call[d])
               /\ s \in call'[d].excuse \/ Knows(call[d], s, olt'[s], Marking', mark')
  PROVE  KnowledgeRight'
<1>1. ASSUME NEW d \in Calls, NEW s \in Slots PROVE Knows(call'[d], s, olt'[s], Marking', mark')
  <2>1. CASE Like(call'[d], call[d]) /\ s \in call'[d].excuse
    <3>1. Knows(call[d], s, olt[s], Marking, mark)
      BY DEF KnowledgeRight
    <3> QED
      BY <2>1, <3>1, KnowsMore
  <2>2. CASE Like(call'[d], call[d]) /\ Knows(call[d], s, olt'[s], Marking', mark')
    BY <2>2, KnowsMore
  <2> QED
    BY <2>1, <2>2
<1> QED
  BY <1>1 DEF KnowledgeRight

LEMMA AuthoriseKnows ==
  ASSUME Inv, KnowledgeRight, NEW c \in Calls, AuthoriseOlt(c) \/ ImportRead(c) \/ ImportSave(c)
  PROVE  KnowledgeRight'
<1> DEFINE s == call[c].slot
<1>1. /\ call[c] \in Call /\ Right(call[c]) /\ s \in Slots /\ call \in [Calls -> Call]
      /\ olt \in [Slots -> {"absent"} \union Admin]
      /\ call[c].op = "authorise" /\ call[c].pc \in {"olt", "read", "write"} /\ mark' = mark
      /\ \A t \in Slots : Knows(call[c], t, olt[t], Marking, mark)
  BY DEF Inv, TypeOK, LocalsRight, Right, AuthoriseOlt, ImportRead, ImportSave, KnowledgeRight
<1>2. CASE AuthoriseOlt(c)
  <2>1. CASE olt[s] # "absent"
    BY <1>1, <1>2, <2>1, EndsKnows DEF AuthoriseOlt
  <2>2. CASE olt[s] = "absent"
    <3> DEFINE D == Knowing(s) \ {c}
    <3>1. /\ olt' = [olt EXCEPT ![s] = "enable"]
          /\ call' = [Excused(s, D) EXCEPT ![c].pc = "read"]
      BY <1>2, <2>2 DEF AuthoriseOlt
    <3>2. /\ Excused(s, D) \in [Calls -> Call] /\ Like(Excused(s, D)[c], call[c])
          /\ \A d \in Calls \ {c} : Like(call'[d], call[d]) /\ (d \in D => s \in call'[d].excuse)
      BY <1>1, <3>1, ExcusedFacts
    <3>3. call'[c].op = "authorise" /\ call'[c].pc = "read" /\ call'[c].slot = s
      BY <1>1, <3>1, <3>2 DEF Like, Call
    <3>4. ASSUME NEW t \in Slots, t \in Marking PROVE t \in Marking'
      <4>1. PICK d \in Calls : call[d].op = "delete" /\ call[d].pc = "mark" /\ call[d].slot = t
        BY <3>4 DEF Marking
      <4>2. Like(call'[d], call[d])
        BY <1>1, <3>2, <4>1
      <4>3. call'[d].op = "delete" /\ call'[d].pc = "mark" /\ call'[d].slot = t
        BY <4>1, <4>2 DEF Like
      <4> QED
        BY <4>3 DEF Marking
    <3>5. ASSUME NEW d \in Calls \ {c}, NEW t \in Slots
          PROVE  t \in call'[d].excuse \/ Knows(call[d], t, olt'[t], Marking', mark')
      <4>1. CASE t = s /\ d \in D
        BY <3>2, <4>1
      <4>2. CASE t = s /\ d \notin D
        BY <4>2 DEF Knowing, Listing, Writing, Knows
      <4>3. CASE t # s
        <5>1. olt'[t] = olt[t] /\ Like(call[d], call[d])
          BY <1>1, <3>1, <4>3 DEF Like
        <5> QED
          BY <1>1, <3>4, <5>1, KnowsMore DEF KnowledgeRight
      <4> QED
        BY <4>1, <4>2, <4>3
    <3>6. \A t \in Slots : Knows(call'[c], t, olt'[t], Marking', mark')
      BY <1>1, <3>1, <3>3 DEF Knows
    <3> HIDE DEF D
    <3> QED
      BY <3>2, <3>5, <3>6, ManyKnow
  <2> QED
    BY <2>1, <2>2
<1>3. CASE ImportRead(c)
  <2> DEFINE rec == [call[c] EXCEPT !.copy = row[s], !.pc = "write"]
  <2>1. /\ rec.op = "authorise" /\ rec.pc = "write" /\ rec.slot = s
        /\ rec.excuse = call[c].excuse /\ call[c].pc = "read"
        /\ olt' = olt /\ call' = [call EXCEPT ![c] = rec]
    BY <1>1, <1>3 DEF ImportRead, Call
  <2> HIDE DEF rec
  <2>2. \A t \in Slots : Knows(rec, t, olt'[t], Marking, mark)
    BY <1>1, <2>1 DEF Knows
  <2> QED
    BY <1>1, <2>1, <2>2, StepKnows
<1>4. CASE ImportSave(c)
  BY <1>1, <1>4, EndsKnows DEF ImportSave
<1> QED
  BY <1>2, <1>3, <1>4

LEMMA AdminKnows ==
  ASSUME Inv, KnowledgeRight, NEW c \in Calls, AdminOlt(c) \/ AdminRead(c) \/ Look(c) \/ WriteCopy(c)
  PROVE  KnowledgeRight'
<1> DEFINE s == call[c].slot
<1>1. /\ call[c] \in Call /\ Right(call[c]) /\ call \in [Calls -> Call] /\ mark' = mark
      /\ call[c].op \in {"disable", "enable", "edit", "refresh"} /\ call[c].pc # "idle"
      /\ s \in Slots
  BY DEF Inv, TypeOK, LocalsRight, Right, AdminOlt, AdminRead, Look, WriteCopy
<1>2. \A t \in Slots : (olt[t] = "absent") <=> (olt'[t] = "absent")
  BY DEF AdminOlt, AdminRead, Look, WriteCopy, AdminOf, Inv, TypeOK
<1>3. ASSUME NEW rec, rec.op = call[c].op, call' = [call EXCEPT ![c] = rec] PROVE KnowledgeRight'
  <2>1. \A t \in Slots : Knows(rec, t, olt'[t], Marking, mark)
    BY <1>1, <1>3 DEF Knows
  <2> QED
    BY <1>1, <1>2, <1>3, <2>1, StepKnows
<1>4. ASSUME Ends(c) PROVE KnowledgeRight'
  BY <1>1, <1>2, <1>4, IdleKnows, StepKnows DEF Ends
<1>5. CASE AdminOlt(c)
  <2>1. ASSUME Goto(c, "read") PROVE KnowledgeRight'
    <3>1. call' = [call EXCEPT ![c] = [call[c] EXCEPT !.pc = "read"]]
      BY <1>1, <2>1 DEF Goto
    <3>2. [call[c] EXCEPT !.pc = "read"].op = call[c].op
      BY <1>1 DEF Call
    <3> QED
      BY <1>3, <3>1, <3>2
  <2> QED
    BY <1>4, <1>5, <2>1 DEF AdminOlt
<1>6. CASE AdminRead(c)
  <2> DEFINE copy == [row[s] EXCEPT !.admin = AdminOf(call[c].op)]
  <2>1. Ends(c) \/ call' = [call EXCEPT ![c].pc = "write", ![c].copy = copy]
    BY <1>6 DEF AdminRead
  <2> HIDE DEF copy
  <2>2. CASE call' = [call EXCEPT ![c].pc = "write", ![c].copy = copy]
    <3>1. call' = [call EXCEPT ![c] = [call[c] EXCEPT !.pc = "write", !.copy = copy]]
      BY <1>1, <2>2
    <3>2. [call[c] EXCEPT !.pc = "write", !.copy = copy].op = call[c].op
      BY <1>1 DEF Call
    <3> QED
      BY <1>3, <3>1, <3>2
  <2> QED
    BY <1>4, <2>1, <2>2
<1>7. CASE Look(c)
  <2>1. Ends(c) \/ call' = [call EXCEPT ![c].list[s] = olt[s], ![c].pc = "write"]
    BY <1>7 DEF Look
  <2>2. CASE call' = [call EXCEPT ![c].list[s] = olt[s], ![c].pc = "write"]
    <3>1. call' = [call EXCEPT ![c] = [call[c] EXCEPT !.list[s] = olt[s], !.pc = "write"]]
      BY <1>1, <2>2
    <3>2. [call[c] EXCEPT !.list[s] = olt[s], !.pc = "write"].op = call[c].op
      BY <1>1 DEF Call
    <3> QED
      BY <1>3, <3>1, <3>2
  <2> QED
    BY <1>4, <2>1, <2>2
<1>8. CASE WriteCopy(c)
  BY <1>4, <1>8 DEF WriteCopy
<1> QED
  BY <1>5, <1>6, <1>7, <1>8

LEMMA DeleteKnows ==
  ASSUME Inv, KnowledgeRight, NEW c \in Calls, DeleteOlt(c) \/ GoneCheck(c)
                               \/ MarkDeleted(c) \/ DeletePurge(c)
  PROVE  KnowledgeRight'
<1> DEFINE s == call[c].slot
<1>1. /\ call[c] \in Call /\ Right(call[c]) /\ s \in Slots /\ call \in [Calls -> Call]
      /\ olt \in [Slots -> {"absent"} \union Admin]
      /\ call[c].op = "delete" /\ call[c].pc \in {"olt", "gone", "mark", "purge"}
      /\ \A d \in Calls : Like(call[d], call[d])
  BY DEF Inv, TypeOK, LocalsRight, Right, DeleteOlt, GoneCheck, MarkDeleted,
         DeletePurge, Like
<1>2. \A d \in Calls, t \in Slots : Knows(call[d], t, olt[t], Marking, mark)
  BY DEF KnowledgeRight
<1>3. CASE DeleteOlt(c)
  <2> DEFINE D == {d \in Knowing(s) \ {c} : ~Listing(d)}
  <2>1. /\ olt' = [olt EXCEPT ![s] = "absent"] /\ mark' = mark
        /\ call' = [Excused(s, D) EXCEPT ![c].pc = "mark"] /\ call[c].pc = "olt"
    BY <1>3 DEF DeleteOlt
  <2>2. /\ Excused(s, D) \in [Calls -> Call] /\ Like(Excused(s, D)[c], call[c])
        /\ \A d \in Calls \ {c} : Like(call'[d], call[d]) /\ (d \in D => s \in call'[d].excuse)
    BY <1>1, <2>1, ExcusedFacts
  <2>3. call'[c].op = "delete" /\ call'[c].pc = "mark" /\ call'[c].slot = s
    BY <1>1, <2>1, <2>2 DEF Like, Call
  <2>4. s \in Marking' /\ \A t \in Slots : t \in Marking => t \in Marking'
    <3>1. s \in Marking'
      <4>1. s \in Slots /\ \E d \in Calls : /\ call'[d].op = "delete" /\ call'[d].pc = "mark"
                                         /\ call'[d].slot = s
        BY <1>1, <2>3
      <4> HIDE DEF s
      <4> QED
        BY <4>1 DEF Marking
    <3>2. ASSUME NEW t \in Slots, t \in Marking PROVE t \in Marking'
      <4>1. PICK d \in Calls : call[d].op = "delete" /\ call[d].pc = "mark" /\ call[d].slot = t
        BY <3>2 DEF Marking
      <4>2. Like(call'[d], call[d])
        BY <2>1, <2>2, <4>1
      <4>3. call'[d].op = "delete" /\ call'[d].pc = "mark" /\ call'[d].slot = t
        BY <4>1, <4>2 DEF Like
      <4> QED
        BY <4>3 DEF Marking
    <3> QED
      BY <3>1, <3>2
  <2>5. ASSUME NEW d \in Calls \ {c}, NEW t \in Slots
        PROVE  t \in call'[d].excuse \/ Knows(call[d], t, olt'[t], Marking', mark')
    <3>1. CASE t = s /\ d \in D
      BY <2>2, <3>1
    <3>2. CASE t = s /\ d \notin D
      <4>1. olt'[t] = "absent" /\ t \in Marking'
        BY <1>1, <2>1, <2>4, <3>2
      <4>2. CASE Listing(d)
        BY <1>2, <4>1, <4>2 DEF Listing, Knows
      <4>3. CASE ~Listing(d)
        <5>1. ~Writing(d, s)
          BY <3>2, <4>3 DEF Knowing
        <5> QED
          BY <3>2, <4>3, <5>1 DEF Listing, Writing, Knows
      <4> QED
        BY <4>2, <4>3
    <3>3. CASE t # s
      <4>1. olt'[t] = olt[t]
        BY <1>1, <2>1, <3>3
      <4> QED
        BY <1>1, <1>2, <2>1, <2>4, <4>1, KnowsMore
    <3> QED
      BY <3>1, <3>2, <3>3
  <2>6. \A t \in Slots : Knows(call'[c], t, olt'[t], Marking', mark')
    BY <1>1, <2>1, <2>3 DEF Knows
  <2> HIDE DEF D
  <2> QED
    BY <2>2, <2>5, <2>6, ManyKnow
<1>5. CASE GoneCheck(c)
  <2>1. /\ call[c].pc = "gone" /\ UNCHANGED <<olt, mark>>
        /\ \/ olt[s] = "absent" /\ Goto(c, "mark")
           \/ Ends(c)
           \/ call' = [call EXCEPT ![c].pc = "mark", ![c].excuse = {s}]
    BY <1>5 DEF GoneCheck
  <2>2. CASE Ends(c)
    BY <2>1, <2>2, EndsKnows
  <2>3. CASE olt[s] = "absent" /\ Goto(c, "mark")
    <3> DEFINE rec == [call[c] EXCEPT !.pc = "mark"]
    <3>1. /\ rec.op = "delete" /\ rec.pc = "mark" /\ rec.slot = s
          /\ call' = [call EXCEPT ![c] = rec]
      BY <1>1, <2>3 DEF Call, Goto
    <3> HIDE DEF rec
    <3>2. \A t \in Slots : Knows(rec, t, olt'[t], Marking, mark)
      BY <2>1, <2>3, <3>1 DEF Knows
    <3> QED
      BY <2>1, <3>1, <3>2, StepKnows
  <2>4. CASE call' = [call EXCEPT ![c].pc = "mark", ![c].excuse = {s}]
    <3> DEFINE rec == [call[c] EXCEPT !.pc = "mark", !.excuse = {s}]
    <3>1. /\ rec.op = "delete" /\ rec.pc = "mark" /\ rec.slot = s /\ rec.excuse = {s}
          /\ call' = [call EXCEPT ![c] = rec]
      BY <1>1, <2>4 DEF Call
    <3> HIDE DEF rec
    <3>2. \A t \in Slots : Knows(rec, t, olt'[t], Marking, mark)
      BY <3>1 DEF Knows
    <3> QED
      BY <2>1, <3>1, <3>2, StepKnows
  <2> QED
    BY <2>1, <2>2, <2>3, <2>4
<1>6. CASE MarkDeleted(c)
  <2> DEFINE D == {d \in Calls : call[d].op = "sync" /\ call[d].pc = "save" /\ call[d].slot = s}
  <2>1. /\ mark' = mark \union {s} /\ olt' = olt /\ call[c].pc = "mark"
        /\ call' = [Excused(s, D) EXCEPT
                      ![c] = IF row[s] = None THEN Idle
                             ELSE [@ EXCEPT !.pc = "purge", !.copy = row[s]]]
    BY <1>6 DEF MarkDeleted, MarkRecentlyDeleted
  <2>2. /\ Excused(s, D) \in [Calls -> Call] /\ Like(Excused(s, D)[c], call[c])
        /\ \A d \in Calls \ {c} : Like(call'[d], call[d]) /\ (d \in D => s \in call'[d].excuse)
    BY <1>1, <2>1, ExcusedFacts
  <2>3. ASSUME NEW t \in Slots, t # s, t \in Marking PROVE t \in Marking'
    <3>1. PICK d \in Calls : call[d].op = "delete" /\ call[d].pc = "mark" /\ call[d].slot = t
      BY <2>3 DEF Marking
    <3>2. Like(call'[d], call[d])
      BY <2>2, <2>3, <3>1
    <3>3. call'[d].op = "delete" /\ call'[d].pc = "mark" /\ call'[d].slot = t
      BY <3>1, <3>2 DEF Like
    <3> QED
      BY <3>3 DEF Marking
  <2>4. ASSUME NEW d \in Calls \ {c}, NEW t \in Slots
        PROVE  t \in call'[d].excuse \/ Knows(call[d], t, olt'[t], Marking', mark')
    <3>1. CASE t = s /\ d \in D
      BY <2>2, <3>1
    <3>2. CASE t = s /\ d \notin D
      BY <1>2, <2>1, <3>2 DEF Knows
    <3>3. CASE t # s
      BY <1>1, <1>2, <2>1, <2>3, <3>3, KnowsMore
    <3> QED
      BY <3>1, <3>2, <3>3
  <2>5. \A t \in Slots : Knows(call'[c], t, olt'[t], Marking', mark')
    <3>1. CASE row[s] = None
      <4>1. call'[c] = Idle
        BY <2>1, <2>2, <3>1
      <4> QED
        BY <4>1, IdleKnows
    <3>2. CASE row[s] # None
      <4>1. call'[c] = [Excused(s, D)[c] EXCEPT !.pc = "purge", !.copy = row[s]]
        BY <2>1, <2>2, <3>2
      <4>2. /\ call'[c].op = "delete" /\ call'[c].slot = s /\ call'[c].pc = "purge"
            /\ call[c].excuse \subseteq call'[c].excuse
        <5>1. /\ Excused(s, D)[c] \in Call
              /\ Excused(s, D)[c].op = "delete" /\ Excused(s, D)[c].slot = s
              /\ call[c].excuse \subseteq Excused(s, D)[c].excuse
          BY <1>1, <2>2 DEF Like
        <5> QED
          BY <4>1, <5>1 DEF Call
      <4> QED
        BY <1>1, <1>2, <2>1, <4>2 DEF Knows
    <3> QED
      BY <3>1, <3>2
  <2> HIDE DEF D
  <2> QED
    BY <2>2, <2>4, <2>5, ManyKnow
<1>7. CASE DeletePurge(c)
  BY <1>7, EndsKnows DEF DeletePurge
<1> QED
  BY <1>3, <1>5, <1>6, <1>7

LEMMA TimeoutKnows ==
  ASSUME Inv, KnowledgeRight, NEW c \in Calls, CommandTimesOut(c) PROVE KnowledgeRight'
<1>1. /\ call[c] \in Call /\ call \in [Calls -> Call] /\ call[c].pc = "olt"
      /\ UNCHANGED <<olt, mark>>
  BY DEF Inv, TypeOK, CommandTimesOut
<1>2. CASE Ends(c)
  BY <1>1, <1>2, EndsKnows
<1>3. CASE call[c].op = "delete" /\ Goto(c, "gone")
  <2> DEFINE rec == [call[c] EXCEPT !.pc = "gone"]
  <2>1. rec.op = "delete" /\ rec.pc = "gone" /\ call' = [call EXCEPT ![c] = rec]
    BY <1>1, <1>3 DEF Call, Goto
  <2> HIDE DEF rec
  <2>2. \A t \in Slots : Knows(rec, t, olt'[t], Marking, mark)
    BY <2>1 DEF Knows
  <2> QED
    BY <1>1, <2>1, <2>2, StepKnows
<1> QED
  BY <1>2, <1>3 DEF CommandTimesOut

LEMMA FaultKnows ==
  ASSUME Inv, KnowledgeRight,
         \/ \E late \in pending : LateCommand(late)
         \/ \E s \in Slots : Expires(s)
         \/ \E s \in Slots, state \in {"absent"} \union Admin : ByHand(s, state)
         \/ \E c \in Calls : Throw(c)
         \/ Restart
  PROVE  KnowledgeRight'
<1>1. /\ call \in [Calls -> Call] /\ olt \in [Slots -> {"absent"} \union Admin]
      /\ \A d \in Calls : Like(call[d], call[d]) /\ call[d] \in Call /\ Right(call[d])
      /\ \A d \in Calls, t \in Slots : Knows(call[d], t, olt[t], Marking, mark)
  BY DEF Inv, TypeOK, Like, LocalsRight, KnowledgeRight
\* The OLT changes at s, and who knows of s is excused.
<1>2. ASSUME NEW s \in Slots,
             \A d \in Calls : Like(call'[d], call[d]) /\ (d \in Knowing(s) => s \in call'[d].excuse),
             mark' = mark, \A t \in Slots : t # s => olt'[t] = olt[t]
      PROVE  KnowledgeRight'
  <2>1. \A t \in Slots : t \in Marking => t \in Marking'
    BY <1>2 DEF Marking, Like
  <2>2. ASSUME NEW d \in Calls, NEW t \in Slots
        PROVE  t \in call'[d].excuse \/ Knows(call[d], t, olt'[t], Marking', mark')
    <3>1. CASE t = s /\ d \in Knowing(s)
      BY <1>2, <3>1
    <3>2. CASE t = s /\ d \notin Knowing(s)
      BY <3>2 DEF Knowing, Listing, Writing, Knows
    <3>3. CASE t # s
      BY <1>1, <1>2, <2>1, <3>3, KnowsMore
    <3> QED
      BY <3>1, <3>2, <3>3
  <2> QED
    BY <1>2, <2>2, ManyKnow
<1>8. ASSUME NEW s \in Slots, NEW state, Surprise(s, state), mark' = mark PROVE KnowledgeRight'
  <2>1. /\ olt' = [olt EXCEPT ![s] = state]
        /\ \A d \in Calls : Like(call'[d], call[d])
    BY <1>8, SurpriseFacts DEF Surprise
  <2>2. CASE (olt[s] = "absent") <=> (state = "absent")
    <3>1. \A t \in Slots : (olt[t] = "absent") <=> (olt'[t] = "absent")
      BY <1>1, <2>1, <2>2
    <3>2. \A t \in Slots : t \in Marking => t \in Marking'
      BY <2>1 DEF Marking, Like
    <3>3. \A d \in Calls, t \in Slots : Knows(call[d], t, olt'[t], Marking', mark')
      BY <1>1, <1>8, <3>1, <3>2, KnowsMore
    <3> QED
      BY <2>1, <3>3, ManyKnow
  <2>3. CASE ~((olt[s] = "absent") <=> (state = "absent"))
    <3>1. \A d \in Calls : d \in Knowing(s) => s \in call'[d].excuse
      BY <1>8, <2>3, SurpriseFacts
    <3>2. \A t \in Slots : t # s => olt'[t] = olt[t]
      BY <1>1, <2>1
    <3> QED
      BY <1>2, <1>8, <2>1, <3>1, <3>2
  <2> QED
    BY <2>2, <2>3
<1>3. ASSUME NEW late \in pending, LateCommand(late) PROVE KnowledgeRight'
  <2>1. mark' = mark /\ \E state : Surprise(late.slot, state)
    BY <1>3 DEF LateCommand
  <2> QED
    BY <1>8, <2>1, LateFacts
<1>4. ASSUME NEW s \in Slots, NEW state \in {"absent"} \union Admin, ByHand(s, state)
      PROVE  KnowledgeRight'
  BY <1>4, <1>8 DEF ByHand
<1>5. ASSUME NEW s \in Slots, Expires(s) PROVE KnowledgeRight'
  <2> DEFINE D == {d \in Calls : Listing(d)}
  <2>1. call' = Excused(s, D) /\ mark' = mark \ {s} /\ olt' = olt
    BY <1>5 DEF Expires
  <2>2. \A d \in Calls : Like(call'[d], call[d]) /\ (Listing(d) => s \in call'[d].excuse)
    BY <2>1, ExcusedFacts
  <2>3. \A t \in Slots : t \in Marking => t \in Marking'
    BY <2>2 DEF Marking, Like
  <2>4. ASSUME NEW d \in Calls, NEW t \in Slots
        PROVE  t \in call'[d].excuse \/ Knows(call[d], t, olt'[t], Marking', mark')
    <3>1. CASE t = s /\ Listing(d)
      BY <2>2, <3>1
    <3>2. CASE t = s /\ ~Listing(d)
      BY <1>1, <2>1, <3>2 DEF Listing, Knows
    <3>3. CASE t # s
      BY <1>1, <2>1, <2>3, <3>3, KnowsMore
    <3> QED
      BY <3>1, <3>2, <3>3
  <2> QED
    BY <2>2, <2>4, ManyKnow
<1>6. ASSUME NEW c \in Calls, Throw(c) PROVE KnowledgeRight'
  <2> DEFINE s == call[c].slot
             D == IF Writing(c, s) THEN {d \in Others(c) : Listing(d)} ELSE {}
  <2>1. /\ call' = [Excused(s, D) EXCEPT ![c] = Idle] /\ UNCHANGED <<olt, mark>>
        /\ call[c].pc # "idle"
    BY <1>6 DEF Throw
  <2>2. /\ call'[c] = Idle
        /\ \A d \in Calls \ {c} : call'[d] = Excused(s, D)[d]
    BY <2>1 DEF Excused
  <2>3. ASSUME NEW d \in Calls \ {c}
        PROVE  Like(call'[d], call[d]) /\ (Listing(d) /\ Writing(c, s) => s \in call'[d].excuse)
    <3>1. CASE s \in Slots
      <4>1. Listing(d) /\ Writing(c, s) => d \in D
        BY DEF Others
      <4> HIDE DEF D
      <4> QED
        BY <2>2, <3>1, <4>1, ExcusedFacts
    <3>2. CASE s \notin Slots
      <4>1. ~Writing(c, s)
        BY <1>1, <2>1, <3>2 DEF Writing, Right
      <4>2. call'[d] = call[d]
        BY <2>2, <4>1 DEF Excused
      <4> QED
        BY <1>1, <4>1, <4>2
    <3> QED
      BY <3>1, <3>2
  <2>4. \A t \in Slots : t \in Marking => t \in Marking' \/ (t = s /\ Writing(c, s))
    BY <2>3 DEF Marking, Like, Writing
  <2>5. ASSUME NEW d \in Calls \ {c}, NEW t \in Slots
        PROVE  t \in call'[d].excuse \/ Knows(call[d], t, olt'[t], Marking', mark')
    <3>1. CASE t = s /\ Writing(c, s) /\ Listing(d)
      BY <2>3, <3>1
    <3>2. CASE ~Listing(d)
      BY <1>1, <2>1, <3>2 DEF Listing, Knows
    <3>3. CASE ~(t = s /\ Writing(c, s))
      BY <1>1, <2>1, <2>4, <3>3, KnowsMore
    <3> QED
      BY <3>1, <3>2, <3>3
  <2>6. \A t \in Slots : Knows(call'[c], t, olt'[t], Marking', mark')
    BY <2>2, IdleKnows
  <2> HIDE DEF D
  <2> QED
    BY <2>3, <2>5, <2>6, ManyKnow
<1>7. CASE Restart
  BY <1>7, IdleKnows DEF Restart, KnowledgeRight
<1> QED
  BY <1>3, <1>4, <1>5, <1>6, <1>7

LEMMA KnowledgeInv == ASSUME Inv, KnowledgeRight, [Next]_vars PROVE KnowledgeRight'
<1>1. ASSUME UNCHANGED vars PROVE KnowledgeRight'
  <2>1. Marking' = Marking
    BY <1>1 DEF vars, Marking
  <2> QED
    BY <1>1, <2>1 DEF vars, KnowledgeRight
<1>2. ASSUME NEW c \in Calls, Step(c) PROVE KnowledgeRight'
  BY <1>2, SyncKnows, PollKnows, AuthoriseKnows, DeleteKnows, AdminKnows, TimeoutKnows DEF Step
<1> QED
  BY <1>1, <1>2, RequestKnows, FaultKnows DEF Next

\* A step that makes no other difference than the ones it explains
LEMMA ExplainedDifference ==
  ASSUME ShownAsOnOlt, NEW S, NEW T, Explains(S, T),
         \A t \in Slots : Differ(t, row', olt') => Differ(t, row, olt) \/ t \in S
  PROVE  ShownAsOnOlt'
BY DEF ShownAsOnOlt, Explains

LEMMA ShownStep ==
  ASSUME ShownInv, Next PROVE ShownAsOnOlt'
<1>1. /\ call \in [Calls -> Call] /\ row \in [Slots -> Row \union {None}] /\ None \notin Row
      /\ olt \in [Slots -> {"absent"} \union Admin] /\ "absent" \notin Admin
      /\ \A d \in Calls : call[d] \in Call /\ Right(call[d])
      /\ \A d \in Calls, t \in Slots : Knows(call[d], t, olt[t], Marking, mark)
      /\ ShownAsOnOlt
  BY NoneAssumption DEF ShownInv, Inv, TypeOK, LocalsRight, KnowledgeRight, Admin
<1>2. ASSUME UNCHANGED <<olt, row, strange>> PROVE ShownAsOnOlt'
  BY <1>1, <1>2 DEF ShownAsOnOlt, Differ
<1>3. ASSUME NEW c \in Calls, Request(c) PROVE ShownAsOnOlt'
  BY <1>2, <1>3 DEF Request, Sync, Authorise, DeleteOnu, Disable, Enable, Edit, Refresh, Poll, Starts
<1>4. ASSUME NEW c \in Calls, Step(c) PROVE ShownAsOnOlt'
  <2> DEFINE s == call[c].slot
  <2>1. CASE SyncSave(c)
    <3> DEFINE old == call[c].have[s]
               new == IF old = None THEN NewRow(ApplySnapshot("enable", call[c].list[s]))
                      ELSE [old EXCEPT !.admin = ApplySnapshot(@, call[c].list[s])]
               S == IF s \in call[c].excuse \/ Deleting(s) THEN {s} ELSE {}
               T == IF old = None \/ Outdated(s, old) THEN {s} ELSE {}
    <3>1. /\ UNCHANGED olt /\ Explains(S, T) /\ Ids \ UsedIds # {}
          /\ row' = row \/ row' = [row EXCEPT ![s] = new]
      BY <2>1 DEF SyncSave
    <3>2. s \in Slots /\ call[c].op = "sync" /\ call[c].pc = "save" /\ old \in Row \union {None}
      BY <1>1, <2>1 DEF SyncSave, Right, Call
    <3>7. new \in Row
      <4>1. CASE old = None
        BY <3>1, <4>1, SnapshotType, NewRowType DEF Admin
      <4>2. CASE old # None
        BY <3>2, <4>2, SnapshotType DEF Row
      <4> QED
        BY <4>1, <4>2
    <3> HIDE DEF new, T
    <3>3. olt[s] = "absent" => s \in call[c].excuse \union Marking
      BY <1>1, <3>2 DEF Knows
    <3>4. s \in Marking => Deleting(s)
      BY DEF Marking, Deleting
    <3>5. olt[s] = "absent" => s \in S
      BY <3>3, <3>4
    <3> HIDE DEF S
    <3>6. \A t \in Slots : Differ(t, row', olt') => Differ(t, row, olt) \/ t \in S
      BY <1>1, <3>1, <3>2, <3>5, <3>7 DEF Differ
    <3> QED
      BY <1>1, <3>1, <3>6, ExplainedDifference
  <2>2. CASE SyncPurge(c)
    <3>1. PICK t \in Leftover(c) :
            row' = PurgedRow(t, call[c].have[t]) /\ Explains({t} \intersect call[c].excuse, {})
      BY <2>2 DEF SyncPurge
    <3>2. /\ olt' = olt /\ t \in Slots /\ t \notin call[c].seen
          /\ call[c].op = "sync" /\ call[c].pc = "purge"
      BY <2>2 DEF SyncPurge, Leftover
    <3>3. olt[t] # "absent" => t \in call[c].excuse
      BY <1>1, <3>2 DEF Knows
    <3>4. \A u \in Slots : Differ(u, row', olt') => Differ(u, row, olt) \/ u \in {t} \intersect call[c].excuse
      BY <1>1, <3>1, <3>2, <3>3 DEF Differ, PurgedRow
    <3> QED
      BY <1>1, <3>1, <3>4, ExplainedDifference
  <2>3. CASE PollUpdate(c)
    <3>1. PICK t \in call[c].todo :
            LET old == call[c].have[t]
            IN /\ IF old # None /\ row[t] # None /\ row[t].id = old.id /\ ~IsRecentlyDeleted(t)
                  THEN row' = [row EXCEPT ![t].admin = ApplySnapshot(old.admin, call[c].list[t])]
                  ELSE UNCHANGED row
               /\ Explains({}, IF Outdated(t, old) THEN {t} ELSE {})
      BY <2>3 DEF PollUpdate
    <3> DEFINE old == call[c].have[t]
               admin == ApplySnapshot(old.admin, call[c].list[t])
    <3>2. t \in Slots /\ old \in Row \union {None} /\ olt' = olt
      BY <1>1, <2>3 DEF Call, PollUpdate
    <3>3. \A u \in Slots : (row'[u] = None) <=> (row[u] = None)
      <4>1. CASE row' = row
        BY <4>1
      <4>2. CASE old # None /\ row[t] # None /\ row' = [row EXCEPT ![t].admin = admin]
        <5>1. old.admin \in Admin /\ row[t] \in Row
          BY <1>1, <3>2, <4>2 DEF Row
        <5>2. admin \in Admin
          BY <5>1, SnapshotType
        <5> HIDE DEF admin
        <5>3. [row[t] EXCEPT !.admin = admin] \in Row
          BY <5>1, <5>2 DEF Row
        <5> QED
          BY <1>1, <3>2, <4>2, <5>3
      <4> QED
        BY <3>1, <4>1, <4>2
    <3>4. \A u \in Slots : Differ(u, row', olt') => Differ(u, row, olt)
      BY <3>2, <3>3 DEF Differ
    <3> QED
      BY <1>1, <3>1, <3>4, ExplainedDifference
  <2>4. CASE AuthoriseOlt(c)
    <3>1. CASE UNCHANGED <<olt, row, strange>>
      BY <1>2, <3>1
    <3>2. CASE olt' = [olt EXCEPT ![s] = "enable"] /\ row' = row /\ Explains({s}, {})
      BY <1>1, <3>2, ExplainedDifference DEF Differ
    <3> QED
      BY <2>4, <3>1, <3>2 DEF AuthoriseOlt
  <2>5. CASE ImportSave(c)
    <3> DEFINE old == call[c].copy
               new == IF old = None THEN NewRow("enable")
                      ELSE [old EXCEPT !.admin = ApplySnapshot(@, "enable")]
               S == IF s \in call[c].excuse \/ Deleting(s) THEN {s} ELSE {}
               T == IF old = None \/ Outdated(s, old) THEN {s} ELSE {}
    <3>1. /\ UNCHANGED olt /\ Explains(S, T) /\ Ids \ UsedIds # {}
          /\ row' = row \/ row' = [row EXCEPT ![s] = new]
      BY <2>5 DEF ImportSave
    <3>2. s \in Slots /\ call[c].op = "authorise" /\ call[c].pc = "write" /\ old \in Row \union {None}
      BY <1>1, <2>5 DEF ImportSave, Right, Call
    <3>5. new \in Row
      <4>1. CASE old = None
        BY <3>1, <4>1, NewRowType DEF Admin
      <4>2. CASE old # None
        BY <3>2, <4>2, SnapshotType DEF Row
      <4> QED
        BY <4>1, <4>2
    <3> HIDE DEF new, T
    <3>3. olt[s] = "absent" => s \in S
      BY <1>1, <3>2 DEF Knows
    <3> HIDE DEF S
    <3>4. \A t \in Slots : Differ(t, row', olt') => Differ(t, row, olt) \/ t \in S
      BY <1>1, <3>1, <3>2, <3>3, <3>5 DEF Differ
    <3> QED
      BY <1>1, <3>1, <3>4, ExplainedDifference
  <2>6. CASE DeleteOlt(c)
    <3>1. olt' = [olt EXCEPT ![s] = "absent"] /\ row' = row /\ Explains({s}, {})
      BY <2>6 DEF DeleteOlt
    <3> QED
      BY <1>1, <3>1, ExplainedDifference DEF Differ
  <2>7. CASE DeletePurge(c)
    <3>1. /\ row' = PurgedRow(s, call[c].copy) /\ olt' = olt
          /\ call[c].op = "delete" /\ call[c].pc = "purge"
          /\ Explains({s} \intersect call[c].excuse, {})
      BY <2>7 DEF DeletePurge
    <3>2. s \in Slots /\ (olt[s] # "absent" => s \in call[c].excuse)
      BY <1>1, <3>1 DEF Knows, Right
    <3>3. \A t \in Slots : Differ(t, row', olt') => Differ(t, row, olt) \/ t \in {s} \intersect call[c].excuse
      BY <1>1, <3>1, <3>2 DEF Differ, PurgedRow
    <3> QED
      BY <1>1, <3>1, <3>3, ExplainedDifference
  <2>8. CASE AdminOlt(c)
    <3>1. CASE UNCHANGED <<olt, row, strange>>
      BY <1>2, <3>1
    <3>2. CASE /\ olt[s] # "absent" /\ olt' = [olt EXCEPT ![s] = AdminOf(call[c].op)]
               /\ row' = row /\ Explains({}, {s})
      BY <1>1, <3>2, ExplainedDifference DEF Differ, AdminOf
    <3> QED
      BY <2>8, <3>1, <3>2 DEF AdminOlt
  <2>9. CASE WriteCopy(c)
    <3> DEFINE old == call[c].copy
               new == IF call[c].op = "refresh"
                      THEN [old EXCEPT !.admin = ApplySnapshot(@, call[c].list[s])] ELSE old
               S == IF row[s] = None THEN {s} ELSE {}
               T == IF call[c].op = "enable" \/ Outdated(s, old) THEN {s} ELSE {}
    <3>1. /\ UNCHANGED olt /\ Explains(S, T)
          /\ row' = row \/ row' = [row EXCEPT ![s] = new]
      BY <2>9 DEF WriteCopy
    <3>2. s \in Slots /\ old \in Row
      BY <1>1, <2>9 DEF WriteCopy, Right, Call
    <3>3. new \in Row
      BY <3>2, SnapshotType DEF Row
    <3> HIDE DEF new, T
    <3>4. \A t \in Slots : Differ(t, row', olt') => Differ(t, row, olt) \/ t \in S
      BY <1>1, <3>1, <3>2, <3>3 DEF Differ
    <3> QED
      BY <1>1, <3>1, <3>4, ExplainedDifference
  <2>10. ASSUME \/ SyncList(c) \/ SyncLoad(c) \/ SyncCheck(c) \/ SyncDone(c) \/ PollList(c)
                \/ PollDone(c) \/ ImportRead(c) \/ GoneCheck(c)
                \/ MarkDeleted(c) \/ AdminRead(c) \/ Look(c) \/ CommandTimesOut(c)
         PROVE  UNCHANGED <<olt, row, strange>>
    BY <2>10 DEF SyncList, SyncLoad, SyncCheck, SyncDone, PollList, PollDone, ImportRead,
                 GoneCheck, MarkDeleted, AdminRead, Look, CommandTimesOut
  <2> QED
    BY <1>2, <1>4, <2>1, <2>2, <2>3, <2>4, <2>5, <2>6, <2>7, <2>8, <2>9, <2>10 DEF Step
<1>8. ASSUME NEW s \in Slots, NEW state, Surprise(s, state), row' = row PROVE ShownAsOnOlt'
  <2>1. olt' = [olt EXCEPT ![s] = state] /\ Explains({s}, {s})
    BY <1>8 DEF Surprise
  <2> QED
    BY <1>1, <1>8, <2>1, ExplainedDifference DEF Differ
<1>5. ASSUME NEW late \in pending, LateCommand(late) PROVE ShownAsOnOlt'
  <2>1. row' = row /\ \E state : Surprise(late.slot, state)
    BY <1>5 DEF LateCommand
  <2> QED
    BY <1>8, <2>1, LateFacts DEF ShownInv
<1>6. ASSUME NEW s \in Slots, NEW state \in {"absent"} \union Admin, ByHand(s, state)
      PROVE  ShownAsOnOlt'
  BY <1>6, <1>8 DEF ByHand
<1>7. ASSUME (\E s \in Slots : Expires(s)) \/ (\E c \in Calls : Throw(c)) \/ Restart
      PROVE  UNCHANGED <<olt, row, strange>>
  BY <1>7 DEF Expires, Throw, Restart
<1> QED
  BY <1>2, <1>3, <1>4, <1>5, <1>6, <1>7 DEF Next

\* The table shows an ONU exactly if the OLT has it, or there is one of the reasons listed
\* with ShownAsOnOlt, for any interfaces and calls: a listing from before a deletion is none
\* while the deletion is remembered, unless the synchronisation had passed its check.
THEOREM ShownAsOnOltHolds == Spec => []ShownAsOnOlt
<1>1. Init => ShownInv
  <2> SUFFICES ASSUME Init PROVE ShownInv
    OBVIOUS
  <2>1. Inv
    BY InitInv
  <2>2. KnowledgeRight
    BY IdleKnows DEF Init, KnowledgeRight
  <2>3. ShownAsOnOlt
    BY DEF Init, ShownAsOnOlt, Differ, Empty, Nothing
  <2> QED
    BY <2>1, <2>2, <2>3 DEF ShownInv
<1>2. ShownInv /\ [Next]_vars => ShownInv'
  <2>1. UNCHANGED vars /\ ShownAsOnOlt => ShownAsOnOlt'
    BY DEF vars, ShownAsOnOlt, Differ
  <2> QED
    BY <2>1, NextInv, KnowledgeInv, ShownStep DEF ShownInv
<1>3. ShownInv => ShownAsOnOlt
  BY DEF ShownInv
<1> QED
  BY <1>1, <1>2, <1>3, PTL DEF Spec

-----------------------------------------------------------------------------
(* A synchronisation on its own *)

\* Nothing is under way but call c.
Alone(c) == \A d \in Calls : d # c => call[d].pc = "idle"

\* What a synchronisation r that nothing disturbs knows of interface s, whose OLT state is
\* o and whose row is w: it listed what is there, what it saw has a row, and the other rows
\* are the ones it loaded.
Follows(r, s, o, w) ==
    /\ r.pc \in {"list", "load"} => s \notin r.seen
    /\ s \notin r.todo \intersect r.seen
    /\ r.pc # "list" => /\ r.list[s] = "absent" <=> o = "absent"
                        /\ s \in r.todo \union r.seen => o # "absent"
    /\ r.pc = "purge" => s \notin r.todo
    /\ r.pc = "save" /\ r.slot = s => s \in r.seen
    /\ r.pc \in {"check", "save", "purge"} =>
         IF s \in r.seen /\ ~(r.pc = "save" /\ r.slot = s) THEN w # None ELSE r.have[s] = w

QuietSync(r) == r.quiet /\ r.op = "sync"

Undisturbed ==
    \A c \in Calls : QuietSync(call[c]) =>
        Alone(c) /\ \A s \in Slots : Follows(call[c], s, olt[s], row[s])

\* A step of call d makes no other call a synchronisation, nor one that is alone.
LEMMA OthersSame ==
  ASSUME Inv, NEW d \in Calls, Step(d), NEW c \in Calls, c # d, QuietSync(call'[c])
  PROVE  QuietSync(call[c])
<1>1. call \in [Calls -> Call] /\ call[d] \in Call /\ Right(call[d]) /\ call[c] \in Call
  BY DEF Inv, TypeOK, LocalsRight
<1>2. ASSUME NEW S, NEW D, NEW rec, call' = [Excused(S, D) EXCEPT ![d] = rec]
      PROVE  QuietSync(call[c])
  <2>1. call'[c] = call[c] \/ call'[c] = [call[c] EXCEPT !.excuse = @ \union {S}]
    BY <1>2 DEF Excused
  <2> QED
    BY <1>1, <2>1 DEF QuietSync, Call
<1>3. CASE AuthoriseOlt(d)
  <2>1. CASE Ends(d)
    BY <1>1, <2>1 DEF Ends
  <2>2. CASE call' = [Excused(call[d].slot, Knowing(call[d].slot) \ {d}) EXCEPT ![d].pc = "read"]
    BY <1>2, <2>2
  <2> QED
    BY <1>3, <2>1, <2>2 DEF AuthoriseOlt
<1>4. CASE DeleteOlt(d)
  BY <1>2, <1>4 DEF DeleteOlt
<1>5. CASE MarkDeleted(d)
  BY <1>2, <1>5 DEF MarkDeleted
<1>6. CASE CommandTimesOut(d)
  <2>1. call'[c] = call[c]
    BY <1>1, <1>6 DEF CommandTimesOut, Goto, Ends
  <2> QED
    BY <2>1
<1>7. CASE SyncList(d) \/ SyncLoad(d) \/ SyncCheck(d) \/ SyncSave(d) \/ SyncPurge(d) \/ SyncDone(d)
  <2>1. call'[c] = call[c]
    BY <1>1, <1>7 DEF SyncList, SyncLoad, SyncCheck, SyncSave, SyncPurge, SyncDone, Goto, Ends
  <2> QED
    BY <2>1
<1>8. CASE PollList(d) \/ PollUpdate(d) \/ PollDone(d) \/ ImportRead(d) \/ ImportSave(d)
  <2>1. call'[c] = call[c]
    BY <1>1, <1>8 DEF PollList, PollUpdate, PollDone, ImportRead, ImportSave, Ends
  <2> QED
    BY <2>1
<1>9. CASE GoneCheck(d) \/ DeletePurge(d) \/ AdminOlt(d) \/ AdminRead(d) \/ Look(d) \/ WriteCopy(d)
  <2>1. call'[c] = call[c]
    BY <1>1, <1>9 DEF GoneCheck, DeletePurge, AdminOlt, AdminRead, Look, WriteCopy, Goto, Ends
  <2> QED
    BY <2>1
<1> QED
  BY <1>3, <1>4, <1>5, <1>6, <1>7, <1>8, <1>9 DEF Step

\* No step of a call that does something else makes it a synchronisation.
LEMMA OpStays ==
  ASSUME Inv, NEW c \in Calls, Step(c), call'[c].op = "sync"
  PROVE  \/ SyncList(c) \/ SyncLoad(c) \/ SyncCheck(c) \/ SyncSave(c) \/ SyncPurge(c)
         \/ SyncDone(c)
<1>1. call \in [Calls -> Call] /\ call[c] \in Call /\ Right(call[c])
  BY DEF Inv, TypeOK, LocalsRight
<1>2. Idle.op # "sync"
  BY IdleType
<1>3. ASSUME NEW S, NEW D, NEW pc, call' = [Excused(S, D) EXCEPT ![c].pc = pc]
      PROVE  call[c].op = "sync"
  <2>1. \/ call'[c] = [call[c] EXCEPT !.pc = pc]
        \/ call'[c] = [[call[c] EXCEPT !.excuse = @ \union {S}] EXCEPT !.pc = pc]
    BY <1>3 DEF Excused
  <2> QED
    BY <1>1, <2>1 DEF Call
<1>4. ~(AuthoriseOlt(c) \/ DeleteOlt(c))
  <2>1. ASSUME AuthoriseOlt(c) PROVE call[c].op = "sync"
    <3>1. \/ Ends(c)
          \/ call' = [Excused(call[c].slot, Knowing(call[c].slot) \ {c}) EXCEPT ![c].pc = "read"]
      BY <2>1 DEF AuthoriseOlt
    <3>2. ~Ends(c)
      BY <1>1, <1>2 DEF Ends
    <3> QED
      BY <1>3, <3>1, <3>2
  <2>2. ASSUME DeleteOlt(c) PROVE call[c].op = "sync"
    BY <1>3, <2>2 DEF DeleteOlt
  <2> QED
    BY <2>1, <2>2 DEF AuthoriseOlt, DeleteOlt
<1>5. ~MarkDeleted(c)
  <2> SUFFICES ASSUME MarkDeleted(c) PROVE FALSE
    OBVIOUS
  <2> DEFINE crossed == {d \in Calls : /\ call[d].op = "sync" /\ call[d].pc = "save"
                                       /\ call[d].slot = call[c].slot}
  <2>1. call[c].op = "delete"
    BY DEF MarkDeleted
  <2>2. Excused(call[c].slot, crossed)[c] = call[c]
    BY <2>1 DEF Excused
  <2>3. \/ call'[c] = Idle
        \/ call'[c] = [call[c] EXCEPT !.pc = "purge", !.copy = row[call[c].slot]]
    BY <2>2 DEF MarkDeleted, Excused
  <2> QED
    BY <1>1, <1>2, <2>1, <2>3 DEF Call
<1>6. ~CommandTimesOut(c)
  <2> SUFFICES ASSUME CommandTimesOut(c) PROVE FALSE
    OBVIOUS
  <2>1. call'[c] = Idle \/ call'[c] = [call[c] EXCEPT !.pc = "gone"]
    BY <1>1 DEF CommandTimesOut, Goto, Ends
  <2>2. call[c].op # "sync"
    BY DEF CommandTimesOut, Commands
  <2> QED
    BY <1>1, <1>2, <2>1, <2>2 DEF Call
<1>7. ~(PollList(c) \/ PollUpdate(c) \/ PollDone(c))
  <2>1. ~PollList(c)
    <3> SUFFICES ASSUME PollList(c) PROVE FALSE
      OBVIOUS
    <3>1. /\ call'[c] = [call[c] EXCEPT !.pc = "update", !.list = olt, !.todo = Present]
          /\ call[c].op = "poll"
      BY <1>1 DEF PollList
    <3> QED
      BY <1>1, <3>1 DEF Call
  <2>2. ~PollUpdate(c)
    <3> SUFFICES ASSUME PollUpdate(c) PROVE FALSE
      OBVIOUS
    <3>1. PICK s \in call[c].todo : call' = [call EXCEPT ![c].todo = @ \ {s}]
      BY DEF PollUpdate
    <3>2. call[c].op = "poll"
      BY DEF PollUpdate
    <3> QED
      BY <1>1, <3>1, <3>2 DEF Call
  <2>3. ~PollDone(c)
    BY <1>1, <1>2 DEF PollDone, Ends
  <2> QED
    BY <2>1, <2>2, <2>3
<1>8. ~(ImportRead(c) \/ ImportSave(c))
  BY <1>1, <1>2 DEF ImportRead, ImportSave, Ends, Call
<1>9. ~(GoneCheck(c) \/ DeletePurge(c))
  BY <1>1, <1>2 DEF GoneCheck, DeletePurge, Goto, Ends, Call
<1>10. ~(AdminOlt(c) \/ AdminRead(c))
  BY <1>1, <1>2 DEF AdminOlt, AdminRead, Goto, Ends, Call
<1>11. ~(Look(c) \/ WriteCopy(c))
  BY <1>1, <1>2 DEF Look, WriteCopy, Right, Ends, Call
<1> QED
  BY <1>4, <1>5, <1>6, <1>7, <1>8, <1>9, <1>10, <1>11 DEF Step


\* A request leaves at most the call it starts on its own.
LEMMA RequestUndisturbed ==
  ASSUME Inv, NEW d \in Calls, Request(d) PROVE Undisturbed'
<1>1. ASSUME NEW rec \in Call, Starts(d, rec), rec.op # "sync" PROVE Undisturbed'
  <2>1. PICK q \in BOOLEAN :
          call' = [e \in Calls |-> IF e = d THEN [rec EXCEPT !.quiet = q]
                                   ELSE [call[e] EXCEPT !.quiet = FALSE]]
    BY <1>1 DEF Starts
  <2>2. ASSUME NEW e \in Calls PROVE ~QuietSync(call'[e])
    <3>1. call[e] \in Call
      BY DEF Inv, TypeOK
    <3> QED
      BY <1>1, <2>1, <3>1 DEF QuietSync, Call
  <2> QED
    BY <2>2 DEF Undisturbed
<1>2. CASE Sync(d)
  <2> DEFINE rec == [Idle EXCEPT !.op = "sync", !.pc = "list"]
             q == \A e \in Calls : call[e].pc = "idle"
  <2>1. /\ call' = [e \in Calls |-> IF e = d THEN [rec EXCEPT !.quiet = q]
                                    ELSE [call[e] EXCEPT !.quiet = FALSE]]
        /\ UNCHANGED <<olt, row, mark, pending>>
    BY <1>2 DEF Sync, Starts
  <2> HIDE DEF q
  <2>2. /\ [rec EXCEPT !.quiet = q].pc = "list" /\ [rec EXCEPT !.quiet = q].seen = {}
        /\ [rec EXCEPT !.quiet = q].todo = {}
        /\ [rec EXCEPT !.quiet = q].quiet = q
    BY DEF Idle
  <2> HIDE DEF rec
  <2>3. ASSUME NEW e \in Calls, QuietSync(call'[e])
        PROVE  Alone(e)' /\ \A s \in Slots : Follows(call'[e], s, olt'[s], row'[s])
    <3>1. ASSUME NEW f \in Calls, f # d PROVE call'[f].pc = call[f].pc /\ ~call'[f].quiet
      <4>1. call[f] \in Call
        BY DEF Inv, TypeOK
      <4> QED
        BY <2>1, <3>1, <4>1 DEF Call
    <3>2. e = d /\ call'[e] = [rec EXCEPT !.quiet = q]
      BY <2>1, <2>3, <3>1 DEF QuietSync
    <3>3. q
      BY <2>2, <2>3, <3>2 DEF QuietSync
    <3>4. Alone(e)'
      BY <2>1, <3>1, <3>2, <3>3 DEF Alone, q
    <3>5. \A s \in Slots : Follows(call'[e], s, olt'[s], row'[s])
      BY <2>2, <3>2 DEF Follows
    <3> QED
      BY <3>4, <3>5
  <2> QED
    BY <2>3 DEF Undisturbed
<1>3. CASE Poll(d)
  <2> DEFINE rec == [Idle EXCEPT !.op = "poll", !.pc = "list", !.have = row]
  <2>1. rec \in Call /\ rec.op # "sync" /\ Starts(d, rec)
    BY <1>3, IdleType DEF Poll, Call, Ops, Pcs, Inv, TypeOK
  <2> QED
    BY <1>1, <2>1
<1>4. ASSUME NEW s \in Slots, NEW op \in {"authorise", "delete", "disable", "enable"},
             Starts(d, [Idle EXCEPT !.op = op, !.pc = "olt", !.slot = s])
      PROVE  Undisturbed'
  <2> DEFINE rec == [Idle EXCEPT !.op = op, !.pc = "olt", !.slot = s]
  <2>1. rec \in Call /\ rec.op # "sync" /\ Starts(d, rec)
    BY <1>4, IdleType DEF Call, Ops, Pcs
  <2> QED
    BY <1>1, <2>1
<1>5. ASSUME NEW s \in Slots, row[s] # None, NEW op \in {"edit", "refresh"},
             NEW pc \in {"write", "look"},
             Starts(d, [Idle EXCEPT !.op = op, !.pc = pc, !.slot = s, !.copy = row[s]])
      PROVE  Undisturbed'
  <2> DEFINE rec == [Idle EXCEPT !.op = op, !.pc = pc, !.slot = s, !.copy = row[s]]
  <2>1. rec \in Call /\ rec.op # "sync" /\ Starts(d, rec)
    BY <1>5, IdleType DEF Call, Ops, Pcs, Inv, TypeOK
  <2> QED
    BY <1>1, <2>1
<1>6. ASSUME NEW s \in Slots, Authorise(d, s) \/ DeleteOnu(d, s) \/ Disable(d, s) \/ Enable(d, s)
      PROVE  Undisturbed'
  BY <1>4, <1>6 DEF Authorise, DeleteOnu, Disable, Enable
<1>7. ASSUME NEW s \in Slots, Edit(d, s) \/ Refresh(d, s) PROVE Undisturbed'
  BY <1>5, <1>7 DEF Edit, Refresh
<1> QED
  BY <1>2, <1>3, <1>6, <1>7 DEF Request

\* A fault leaves no synchronisation undisturbed: it stops it, or makes it no longer alone.
LEMMA FaultUndisturbed ==
  ASSUME Inv, Undisturbed,
         \/ \E late \in pending : LateCommand(late)
         \/ \E s \in Slots : Expires(s)
         \/ \E s \in Slots, state \in {"absent"} \union Admin : ByHand(s, state)
         \/ \E d \in Calls : Throw(d)
         \/ Restart
  PROVE  Undisturbed'
<1>1. SUFFICES ASSUME NEW c \in Calls, QuietSync(call'[c])
               PROVE  Alone(c)' /\ \A t \in Slots : Follows(call'[c], t, olt'[t], row'[t])
  BY DEF Undisturbed
<1>2. call \in [Calls -> Call] /\ call[c] \in Call
  BY DEF Inv, TypeOK
<1>3. ~QuietSync(Idle)
  BY IdleType DEF QuietSync
<1>4. ASSUME NEW s \in Slots, NEW state, Surprise(s, state) PROVE FALSE
  BY <1>1, <1>4, SurpriseFacts DEF QuietSync
<1>5. ASSUME NEW s \in Slots, Expires(s)
      PROVE  Alone(c)' /\ \A t \in Slots : Follows(call'[c], t, olt'[t], row'[t])
  <2>1. UNCHANGED <<olt, row>> /\ \A d \in Calls : Like(call'[d], call[d])
    BY <1>5, ExcusedFacts DEF Expires
  <2>2. QuietSync(call[c])
    BY <1>1, <2>1 DEF Like, QuietSync
  <2>3. Alone(c) /\ \A t \in Slots : Follows(call[c], t, olt[t], row[t])
    BY <2>2 DEF Undisturbed
  <2> QED
    BY <2>1, <2>3 DEF Like, Alone, Follows
<1>6. ASSUME NEW late \in pending, LateCommand(late) PROVE FALSE
  BY <1>4, <1>6, LateFacts DEF LateCommand
<1>9. ASSUME NEW s \in Slots, NEW state \in {"absent"} \union Admin, ByHand(s, state) PROVE FALSE
  BY <1>4, <1>9 DEF ByHand
<1>7. ASSUME NEW d \in Calls, Throw(d) PROVE FALSE
  <2> DEFINE s == call[d].slot
             D == IF Writing(d, s) THEN {e \in Others(d) : Listing(e)} ELSE {}
  <2>1. call' = [Excused(s, D) EXCEPT ![d] = Idle] /\ call[d].pc # "idle"
    BY <1>7 DEF Throw
  <2>2. c # d
    BY <1>1, <1>3, <2>1 DEF Excused
  <2>3. call'[c] = call[c] \/ call'[c] = [call[c] EXCEPT !.excuse = @ \union {s}]
    BY <2>1, <2>2 DEF Excused
  <2>4. QuietSync(call[c])
    BY <1>1, <1>2, <2>3 DEF QuietSync, Call
  <2> QED
    BY <2>1, <2>2, <2>4 DEF Undisturbed, Alone
<1>8. CASE Restart
  BY <1>1, <1>3, <1>8 DEF Restart
<1> QED
  BY <1>5, <1>6, <1>7, <1>8, <1>9

\* What one step of an undisturbed synchronisation makes of what it knows.
LEMMA SyncFollows ==
  ASSUME Inv, NEW c \in Calls, QuietSync(call[c]), Alone(c), QuietSync(call'[c]),
         \A s \in Slots : Follows(call[c], s, olt[s], row[s]),
         \/ SyncList(c) \/ SyncLoad(c) \/ SyncCheck(c) \/ SyncSave(c) \/ SyncPurge(c)
         \/ SyncDone(c)
  PROVE  \A s \in Slots : Follows(call'[c], s, olt'[s], row'[s])
<1>1. /\ call \in [Calls -> Call] /\ call[c] \in Call /\ Right(call[c])
      /\ row \in [Slots -> Row \union {None}]
  BY DEF Inv, TypeOK, LocalsRight
<1>2. call'[c] # Idle
  BY IdleType DEF QuietSync
<1>3. CASE SyncList(c)
  <2>1. PICK list : /\ call'[c] = [call[c] EXCEPT !.pc = "load", !.todo = Present, !.list = list]
                    /\ \A t \in Slots : list[t] = "absent" <=> olt[t] = "absent"
    <3>1. PICK snmp \in BOOLEAN :
            call'[c] = [call[c] EXCEPT !.pc = "load", !.todo = Present,
                          !.list = [t \in Slots |-> IF snmp /\ t \in Present THEN "seen" ELSE olt[t]]]
      BY <1>1, <1>3 DEF SyncList
    <3> DEFINE list == [t \in Slots |-> IF snmp /\ t \in Present THEN "seen" ELSE olt[t]]
    <3>2. \A t \in Slots : list[t] = "absent" <=> olt[t] = "absent"
      BY DEF Present
    <3> HIDE DEF list
    <3>3. call'[c] = [call[c] EXCEPT !.pc = "load", !.todo = Present, !.list = list]
      BY <3>1 DEF list
    <3> QED
      BY <3>2, <3>3
  <2>2. /\ call'[c].pc = "load" /\ call'[c].todo = Present /\ call'[c].seen = call[c].seen
        /\ call'[c].list = list /\ call[c].pc = "list" /\ UNCHANGED <<olt, row>>
    BY <1>1, <1>3, <2>1 DEF Call, SyncList
  <2> QED
    BY <2>1, <2>2 DEF Follows, Present
<1>4. CASE SyncLoad(c)
  <2>1. call'[c] = [call[c] EXCEPT !.pc = "check", !.have = row]
    BY <1>1, <1>4 DEF SyncLoad
  <2>2. /\ call'[c].pc = "check" /\ call'[c].have = row /\ call'[c].todo = call[c].todo
        /\ call'[c].seen = call[c].seen /\ call'[c].list = call[c].list
        /\ call[c].pc = "load" /\ UNCHANGED <<olt, row>>
    BY <1>1, <1>4, <2>1 DEF Call, SyncLoad
  <2> QED
    BY <2>2 DEF Follows
<1>5. CASE SyncCheck(c)
  <2>1. CASE \E t \in call[c].todo :
               call' = [call EXCEPT ![c].todo = @ \ {t}, ![c].seen = @ \union {t},
                                    ![c].slot = t, ![c].pc = "save"]
    <3>1. PICK t \in call[c].todo :
            call'[c] = [call[c] EXCEPT !.todo = @ \ {t}, !.seen = @ \union {t},
                                       !.slot = t, !.pc = "save"]
      BY <1>1, <2>1
    <3>2. /\ call'[c].pc = "save" /\ call'[c].slot = t /\ call'[c].have = call[c].have
          /\ call'[c].todo = call[c].todo \ {t} /\ call'[c].seen = call[c].seen \union {t}
          /\ call'[c].list = call[c].list
      BY <1>1, <3>1 DEF Call
    <3>3. call[c].pc = "check" /\ UNCHANGED <<olt, row>>
      BY <1>5 DEF SyncCheck
    <3> QED
      BY <3>2, <3>3 DEF Follows
  <2>2. CASE call[c].todo = {} /\ Goto(c, "purge")
    <3>1. call'[c] = [call[c] EXCEPT !.pc = "purge"]
      BY <1>1, <2>2 DEF Goto
    <3>2. /\ call'[c].pc = "purge" /\ call'[c].have = call[c].have
          /\ call'[c].todo = {} /\ call'[c].seen = call[c].seen /\ call'[c].list = call[c].list
      BY <1>1, <2>2, <3>1 DEF Call
    <3>3. call[c].pc = "check" /\ UNCHANGED <<olt, row>>
      BY <1>5 DEF SyncCheck
    <3> QED
      BY <2>2, <3>2, <3>3 DEF Follows
  <2>3. ASSUME NEW t \in call[c].todo, NEW X,
               call' = [call EXCEPT ![c].todo = @ \ {t}, ![c].excuse = @ \union X]
        PROVE  \A s \in Slots : Follows(call'[c], s, olt'[s], row'[s])
    <3>1. call'[c] = [call[c] EXCEPT !.todo = @ \ {t}, !.excuse = @ \union X]
      BY <1>1, <2>3
    <3>2. /\ call'[c].pc = call[c].pc /\ call'[c].slot = call[c].slot
          /\ call'[c].have = call[c].have /\ call'[c].list = call[c].list
          /\ call'[c].todo = call[c].todo \ {t} /\ call'[c].seen = call[c].seen
      BY <1>1, <3>1 DEF Call
    <3>3. call[c].pc = "check" /\ UNCHANGED <<olt, row>>
      BY <1>5 DEF SyncCheck
    <3> QED
      BY <3>2, <3>3 DEF Follows
  <2> QED
    BY <1>5, <2>1, <2>2, <2>3 DEF SyncCheck
<1>6. CASE SyncSave(c)
  <2> DEFINE s == call[c].slot
             old == call[c].have[s]
             new == IF old = None THEN NewRow(ApplySnapshot("enable", call[c].list[s]))
                    ELSE [old EXCEPT !.admin = ApplySnapshot(@, call[c].list[s])]
  <2>1. /\ call[c].pc = "save" /\ UNCHANGED olt /\ Ids \ UsedIds # {}
        /\ IF Conflict(s, new) THEN Ends(c) /\ UNCHANGED row
           ELSE /\ row' = [row EXCEPT ![s] = new]
                /\ call' = [call EXCEPT ![c].pc = "check", ![c].slot = None]
    BY <1>6 DEF SyncSave
  <2>2. s \in Slots /\ old \in Row \union {None}
    BY <1>1, <2>1 DEF QuietSync, Right, Call
  <2>3. new \in Row
    <3>1. CASE old = None
      BY <2>1, <3>1, NewRowType, SnapshotType DEF Admin
    <3>2. CASE old # None
      <4>1. old \in Row /\ old.admin \in Admin
        BY <2>2, <3>2 DEF Row
      <4> QED
        BY <3>2, <4>1, SnapshotType DEF Row
    <3> QED
      BY <3>1, <3>2
  <2> HIDE DEF new
  <2>4. row' = [row EXCEPT ![s] = new] /\ call'[c] = [call[c] EXCEPT !.pc = "check", !.slot = None]
    BY <1>1, <1>2, <2>1 DEF Ends
  <2>5. /\ call'[c].pc = "check" /\ call'[c].have = call[c].have
        /\ call'[c].todo = call[c].todo /\ call'[c].seen = call[c].seen
        /\ call'[c].list = call[c].list
    BY <1>1, <2>4 DEF Call
  <2>6. row'[s] # None /\ \A t \in Slots : t # s => row'[t] = row[t]
    BY <1>1, <2>2, <2>3, <2>4, NoneAssumption
  <2> HIDE DEF s
  <2>7. ASSUME NEW t \in Slots PROVE Follows(call'[c], t, olt'[t], row'[t])
    BY <2>1, <2>5, <2>6, <2>7 DEF Follows, s
  <2> QED
    BY <2>7
<1>7. CASE SyncPurge(c)
  <2>1. PICK s \in Leftover(c) : /\ row' = PurgedRow(s, call[c].have[s])
                                 /\ call' = [call EXCEPT ![c].have[s] = None]
    BY <1>7 DEF SyncPurge
  <2>2. call[c].pc = "purge" /\ UNCHANGED olt
    BY <1>7 DEF SyncPurge
  <2>3. s \in Slots /\ s \notin call[c].seen /\ call[c].have[s] # None
    BY <2>1 DEF Leftover
  <2>4. call[c].have \in [Slots -> Row \union {None}]
    BY <1>1 DEF Call
  <2>5. call'[c] = [call[c] EXCEPT !.have = [@ EXCEPT ![s] = None]]
    BY <1>1, <2>1
  <2>6. /\ call'[c].pc = "purge" /\ call'[c].have = [call[c].have EXCEPT ![s] = None]
        /\ call'[c].todo = call[c].todo /\ call'[c].seen = call[c].seen
        /\ call'[c].list = call[c].list
    BY <1>1, <2>2, <2>5 DEF Call
  <2>7. row[s] = call[c].have[s]
    BY <2>2, <2>3 DEF Follows
  <2>8. row'[s] = None /\ \A t \in Slots : t # s => row'[t] = row[t]
    BY <1>1, <2>1, <2>3, <2>7 DEF PurgedRow
  <2>9. /\ call'[c].have[s] = None
        /\ \A t \in Slots : t # s => call'[c].have[t] = call[c].have[t]
    BY <2>3, <2>4, <2>6
  <2>10. ASSUME NEW t \in Slots PROVE Follows(call'[c], t, olt'[t], row'[t])
    BY <2>2, <2>3, <2>6, <2>8, <2>9, <2>10 DEF Follows
  <2> QED
    BY <2>10
<1>8. CASE SyncDone(c)
  BY <1>1, <1>2, <1>8 DEF SyncDone, Ends
<1> QED
  BY <1>3, <1>4, <1>5, <1>6, <1>7, <1>8

LEMMA UndisturbedStep == ASSUME Inv, Undisturbed, [Next]_vars PROVE Undisturbed'
<1>1. CASE UNCHANGED vars
  BY <1>1 DEF vars, Undisturbed, Alone
<1>2. ASSUME NEW d \in Calls, Step(d) PROVE Undisturbed'
  <2>1. SUFFICES ASSUME NEW c \in Calls, QuietSync(call'[c])
                 PROVE  Alone(c)' /\ \A s \in Slots : Follows(call'[c], s, olt'[s], row'[s])
    BY DEF Undisturbed
  <2>2. call[d].pc # "idle"
    BY <1>2 DEF Step, SyncList, SyncLoad, SyncCheck, SyncSave, SyncPurge, SyncDone, PollList,
       PollUpdate, PollDone, AuthoriseOlt, ImportRead, ImportSave, DeleteOlt, CommandTimesOut,
       GoneCheck, MarkDeleted, DeletePurge, AdminOlt, AdminRead, Look, WriteCopy
  <2>3. c = d
    BY <1>2, <2>1, <2>2, OthersSame DEF Undisturbed, Alone
  <2>4. \/ SyncList(c) \/ SyncLoad(c) \/ SyncCheck(c) \/ SyncSave(c) \/ SyncPurge(c)
        \/ SyncDone(c)
    BY <1>2, <2>1, <2>3, OpStays DEF QuietSync
  <2>5. QuietSync(call[c])
    <3>1. call \in [Calls -> Call] /\ call[c] \in Call
      BY DEF Inv, TypeOK
    <3>2. call[c].op = "sync"
      BY <2>4 DEF SyncList, SyncLoad, SyncCheck, SyncSave, SyncPurge, SyncDone
    <3>3. call'[c].quiet => call[c].quiet
      <4>1. ~Idle.quiet
        BY DEF Idle
      <4>2. CASE SyncList(c)
        <5>1. PICK list : call'[c] = [call[c] EXCEPT !.pc = "load", !.todo = Present, !.list = list]
          BY <3>1, <4>2 DEF SyncList
        <5> QED
          BY <3>1, <5>1 DEF Call
      <4>6. CASE SyncLoad(c)
        <5>1. call'[c] = [call[c] EXCEPT !.pc = "check", !.have = row]
          BY <3>1, <4>6 DEF SyncLoad
        <5> QED
          BY <3>1, <5>1 DEF Call
      <4>3. CASE SyncCheck(c)
        <5>1. PICK s :
                \/ call'[c] = [call[c] EXCEPT !.todo = @ \ {s},
                      !.excuse = @ \union (IF olt[s] = "absent" THEN {} ELSE {s})]
                \/ call'[c] = [call[c] EXCEPT !.todo = @ \ {s}, !.seen = @ \union {s},
                                             !.slot = s, !.pc = "save"]
                \/ call'[c] = [call[c] EXCEPT !.pc = "purge"]
          BY <3>1, <4>3 DEF SyncCheck, Goto
        <5> QED
          BY <3>1, <5>1 DEF Call
      <4>4. CASE SyncSave(c) \/ SyncDone(c)
        BY <3>1, <4>1, <4>4 DEF SyncSave, SyncDone, Ends, Call
      <4>5. CASE SyncPurge(c)
        BY <3>1, <4>5 DEF SyncPurge, Call
      <4> QED
        BY <2>4, <4>2, <4>3, <4>4, <4>5, <4>6
    <3> QED
      BY <2>1, <3>2, <3>3 DEF QuietSync
  <2>6. Alone(c) /\ \A s \in Slots : Follows(call[c], s, olt[s], row[s])
    BY <2>5 DEF Undisturbed
  <2>7. UNCHANGED <<mark, pending>> /\ \A e \in Calls : e # c => call'[e] = call[e]
    BY <2>4 DEF SyncList, SyncLoad, SyncCheck, SyncSave, SyncPurge, SyncDone, Goto, Ends,
       Inv, TypeOK
  <2> QED
    BY <2>1, <2>4, <2>5, <2>6, <2>7, SyncFollows DEF Alone
<1> QED
  BY <1>1, <1>2, RequestUndisturbed, FaultUndisturbed DEF Next

\* A synchronisation during which no other call is under way and the OLT changes nothing,
\* however many rows it saves and purges, ends with a row for exactly the ONUs of the OLT,
\* but for those it skipped as recently deleted and for rows that show a suspension.
THEOREM SyncReconcilesHolds == Spec => SyncReconciles
<1> DEFINE Done == \A c \in Calls : SyncDone(c) /\ call[c].quiet =>
                     \A s \in Slots \ Skipped(c) : Differ(s, row, olt) =>
                        row[s] # None /\ row[s].admin = "disable"
<1>1. Init => Inv /\ Undisturbed
  BY InitInv, IdleType DEF Init, Undisturbed, QuietSync
<1>2. Inv /\ Undisturbed /\ [Next]_vars => (Inv /\ Undisturbed)'
  BY NextInv, UndisturbedStep
<1>3. Inv /\ Undisturbed => Done
  <2> SUFFICES ASSUME Undisturbed, NEW c \in Calls, SyncDone(c), call[c].quiet,
                      NEW s \in Slots \ Skipped(c), Differ(s, row, olt)
               PROVE  row[s] # None /\ row[s].admin = "disable"
    OBVIOUS
  <2>1. call[c].pc = "purge" /\ Leftover(c) = {} /\ QuietSync(call[c])
    BY DEF SyncDone, QuietSync
  <2>2. Follows(call[c], s, olt[s], row[s])
    BY <2>1 DEF Undisturbed
  <2>3. s \notin call[c].seen /\ olt[s] = "absent"
    BY <2>1, <2>2 DEF Follows, Differ, Skipped
  <2>4. row[s] # None /\ call[c].have[s] = row[s]
    BY <2>1, <2>2, <2>3 DEF Follows, Differ
  <2> QED
    BY <2>1, <2>3, <2>4 DEF Leftover
<1> QED
  BY <1>1, <1>2, <1>3, PTL DEF Spec, SyncReconciles

=============================================================================
