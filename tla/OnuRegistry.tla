----------------------------- MODULE OnuRegistry -----------------------------
(***************************************************************************)
(* The ONUs a tenant has on an OLT and the rows that show them             *)
(* (topology/onus/onu-connected.service.ts).                               *)
(*                                                                         *)
(* The OLT decides which ONUs are authorised and which are disabled; the   *)
(* table onus repeats it.  An authorisation, a deletion, a suspension      *)
(* first changes the OLT and then, some queries later, the row.            *)
(* Synchronisation and poll read the whole OLT, which takes up to minutes, *)
(* and then change row after row.  Nothing excludes one from the other;    *)
(* only a memory of recent deletions keeps an older listing from bringing  *)
(* a deleted ONU back.                                                     *)
(***************************************************************************)
EXTENDS FiniteSets, Integers

CONSTANTS
    Slots,        \* interfaces of the OLT, each with the one ONU plugged there
    Calls,        \* asynchronous calls that may be under way at once
    Ids,          \* identities of rows
    None,         \* no row, no interface
    MaxRequests,  \* bound of the model: calls made in all
    MaxFaults     \* bound of the model: failures, restarts, changes by hand

ASSUME RegistryBounds == MaxRequests \in Nat /\ MaxFaults \in Nat

VARIABLES
    olt,       \* configuration of each interface on the OLT
    row,       \* the row of each interface
    mark,      \* recentlyDeletedUntil: interfaces whose deletion is remembered
    pending,   \* commands the OLT may still carry out after their call gave up
    call,      \* locals of each call
    strange,   \* history: interfaces where row and OLT differ for a known reason
    unshown,   \* history: suspensions a row does not show for a known reason
    requests,  \* calls made so far
    faults     \* faults so far

vars == <<olt, row, mark, pending, call, strange, unshown, requests, faults>>

Admin == {"enable", "disable"}
Row == [id : Ids, admin : Admin]
ASSUME NoneAssumption == None \notin Row /\ None \notin Slots
Listed == Admin \union {"absent", "seen"}   \* SNMP sees an ONU, not its admin state
Ops == {"sync", "poll", "authorise", "delete", "disable", "enable", "edit", "refresh"}
Commands == {"authorise", "delete", "disable", "enable"}   \* what changes the OLT
Pcs == {"idle", "list", "load", "check", "save", "purge", "update", "olt", "gone", "mark",
        "read", "look", "write"}

LateCommands == [nr : 0 .. MaxFaults, op : Commands, slot : Slots]

Call == [op : Ops, pc : Pcs, slot : Slots \union {None}, copy : Row \union {None},
         list : [Slots -> Listed], have : [Slots -> Row \union {None}],
         todo : SUBSET Slots, seen : SUBSET Slots, excuse : SUBSET Slots, quiet : BOOLEAN]

Nothing == [s \in Slots |-> None]
Empty == [s \in Slots |-> "absent"]
Idle == [op |-> "edit", pc |-> "idle", slot |-> None, copy |-> None, list |-> Empty,
         have |-> Nothing, todo |-> {}, seen |-> {}, excuse |-> {}, quiet |-> FALSE]

Init ==
    /\ olt = Empty
    /\ row = Nothing
    /\ mark = {}
    /\ pending = {}
    /\ call = [c \in Calls |-> Idle]
    /\ strange = {}
    /\ unshown = {}
    /\ requests = 0
    /\ faults = 0

-----------------------------------------------------------------------------
(* Rows *)

\* What applySnapshot makes of the admin state a copy has: a suspension stays.
ApplySnapshotBlindly(old, snap) == IF snap \in Admin THEN snap ELSE old
ApplySnapshotAlways(old, snap) == IF old = "disable" THEN old ELSE snap
ApplySnapshot(old, snap) ==
    IF snap \in Admin /\ ~(old = "disable" /\ snap = "enable") THEN snap ELSE old

UsedIds ==
    {row[s].id : s \in {t \in Slots : row[t] # None}}
        \union {call[c].copy.id : c \in {d \in Calls : call[d].copy # None}}
        \union UNION {{call[c].have[s].id : s \in {t \in Slots : call[c].have[t] # None}} :
                        c \in Calls}
NewRow(admin) == [id |-> CHOOSE i \in Ids : i \notin UsedIds, admin |-> admin]

\* The row is there and is not the one the entity was read from: inserting the entity
\* violates uq_onus_olt_if.
Conflict(s, entity) == row[s] # None /\ row[s].id # entity.id

\* row and OLT contradict each other
Differ(s, r, o) == (r[s] = None) # (o[s] = "absent")
Unsuspended(s, r, o) == r[s] # None /\ r[s].admin = "enable" /\ o[s] = "disable"

\* What a step leaves unexplained is what it contradicts and neither was nor is explained.
Explains(S, T) ==
    /\ strange' = {s \in strange \union S : Differ(s, row', olt')}
    /\ unshown' = {s \in unshown \union T : Unsuspended(s, row', olt')}

\* A copy that shows no suspension, of a row that now shows one or is gone.
Outdated(s, copy) ==
    copy # None /\ copy.admin = "enable" /\ (row[s] = None \/ row[s].admin = "disable")

-----------------------------------------------------------------------------
(* Calls *)

Goto(c, pc) == call' = [call EXCEPT ![c].pc = pc]
Ends(c) == call' = [call EXCEPT ![c] = Idle]

Listing(d) == call[d].op = "sync" /\ call[d].pc \in {"load", "check", "save", "purge"}
Writing(d, s) == call[d].op \in {"authorise", "delete"} /\ call[d].slot = s

\* The calls of D go on with what they know of s, although the OLT is no longer so.
Excused(s, D) == [d \in Calls |-> IF d \in D THEN [call[d] EXCEPT !.excuse = @ \union {s}]
                                  ELSE call[d]]
Knowing(s) == {d \in Calls : Listing(d) \/ Writing(d, s)}
Others(c) == {d \in Calls : d # c}

\* a deletion that has changed the OLT and has not purged the row
Deleting(s) == \E c \in Calls : call[c].op = "delete" /\ call[c].slot = s
                                 /\ call[c].pc \in {"gone", "mark", "purge"}

\* The OLT sets s to state, and no call under way made it do so: those that know whether
\* it has s go on with what they know.
Surprise(s, state) ==
    LET D == IF (olt[s] = "absent") = (state = "absent") THEN {} ELSE Knowing(s)
    IN /\ olt' = [olt EXCEPT ![s] = state]
       /\ call' = [d \in Calls |-> [Excused(s, D)[d] EXCEPT !.quiet = FALSE]]
       /\ Explains({s}, {s})

\* A call is quiet as long as no other starts and the OLT does nothing unexpected.
Starts(c, rec) ==
    /\ call[c].pc = "idle"
    /\ requests < MaxRequests
    /\ requests' = requests + 1
    /\ LET quiet == \A d \in Calls : call[d].pc = "idle"
       IN call' = [d \in Calls |-> IF d = c THEN [rec EXCEPT !.quiet = quiet]
                                   ELSE [call[d] EXCEPT !.quiet = FALSE]]
    /\ UNCHANGED <<olt, row, mark, pending, strange, unshown, faults>>

Sync(c) == Starts(c, [Idle EXCEPT !.op = "sync", !.pc = "list"])
Authorise(c, s) == Starts(c, [Idle EXCEPT !.op = "authorise", !.pc = "olt", !.slot = s])
DeleteOnu(c, s) == Starts(c, [Idle EXCEPT !.op = "delete", !.pc = "olt", !.slot = s])
Disable(c, s) == Starts(c, [Idle EXCEPT !.op = "disable", !.pc = "olt", !.slot = s])
Enable(c, s) == Starts(c, [Idle EXCEPT !.op = "enable", !.pc = "olt", !.slot = s])

\* updateName, updateDescription, updateZone and refresh read the row at once.
Edit(c, s) ==
    /\ row[s] # None
    /\ Starts(c, [Idle EXCEPT !.op = "edit", !.pc = "write", !.slot = s, !.copy = row[s]])
Refresh(c, s) ==
    /\ row[s] # None
    /\ Starts(c, [Idle EXCEPT !.op = "refresh", !.pc = "look", !.slot = s, !.copy = row[s]])

\* The poll of an OLT, which pollInFlight keeps from overlapping itself, loads the rows
\* and then lists by CLI.  (By SNMP it does not touch the admin state.)
Poll(c) ==
    /\ \A d \in Calls : call[d].pc # "idle" => call[d].op # "poll"
    /\ row # Nothing
    /\ Starts(c, [Idle EXCEPT !.op = "poll", !.pc = "list", !.have = row])

-----------------------------------------------------------------------------
(* sync *)

Present == {s \in Slots : olt[s] # "absent"}

\* discover: by SNMP, which does not tell the admin state, or by CLI.
SyncList(c) ==
    /\ call[c].op = "sync"
    /\ call[c].pc = "list"
    /\ \E snmp \in BOOLEAN :
         call' = [call EXCEPT ![c].pc = "load", ![c].todo = Present,
                    ![c].list = [s \in Slots |-> IF snmp /\ s \in Present THEN "seen"
                                                 ELSE olt[s]]]
    /\ UNCHANGED <<olt, row, mark, pending, strange, unshown, requests, faults>>

SyncLoad(c) ==
    /\ call[c].op = "sync"
    /\ call[c].pc = "load"
    /\ call' = [call EXCEPT ![c].pc = "check", ![c].have = row]
    /\ UNCHANGED <<olt, row, mark, pending, strange, unshown, requests, faults>>

\* One listed ONU after the other: one deleted recently is skipped, and not seen, even if
\* it was authorised again.  Its row is then purged although the OLT has it: a reason.
IsRecentlyDeleted(s) == s \in mark

SyncCheck(c) ==
    /\ call[c].op = "sync"
    /\ call[c].pc = "check"
    /\ \/ \E s \in call[c].todo :
            /\ IsRecentlyDeleted(s)
            /\ call' = [call EXCEPT ![c].todo = @ \ {s},
                          ![c].excuse = @ \union (IF olt[s] = "absent" THEN {} ELSE {s})]
       \/ \E s \in call[c].todo :
            /\ ~IsRecentlyDeleted(s)
            /\ call' = [call EXCEPT ![c].todo = @ \ {s}, ![c].seen = @ \union {s},
                                    ![c].slot = s, ![c].pc = "save"]
       \/ /\ call[c].todo = {}
          /\ Goto(c, "purge")
    /\ UNCHANGED <<olt, row, mark, pending, strange, unshown, requests, faults>>

\* onuRepo.save of the row found when the rows were loaded, or of a new one.  Reasons: the
\* listing is older than the OLT, a deletion is about to purge the row, the row is new and
\* enabled for want of anything newer, or the copy is older than the row.
SyncSave(c) ==
    LET s == call[c].slot
        old == call[c].have[s]
        new == IF old = None THEN NewRow(ApplySnapshot("enable", call[c].list[s]))
               ELSE [old EXCEPT !.admin = ApplySnapshot(@, call[c].list[s])]
    IN /\ call[c].op = "sync"
       /\ call[c].pc = "save"
       /\ Ids \ UsedIds # {}
       /\ IF Conflict(s, new)
          THEN Ends(c) /\ UNCHANGED row
          ELSE /\ row' = [row EXCEPT ![s] = new]
               /\ call' = [call EXCEPT ![c].pc = "check", ![c].slot = None]
       /\ UNCHANGED <<olt, mark, pending, requests, faults>>
       /\ Explains(IF s \in call[c].excuse \/ Deleting(s) THEN {s} ELSE {},
                   IF old = None \/ Outdated(s, old) THEN {s} ELSE {})

\* Rows that were loaded and not seen are purged, unless they show a suspension.
LeftoverKept(c) == {}
Leftover(c) == {s \in Slots : /\ call[c].have[s] # None
                              /\ s \notin call[c].seen
                              /\ call[c].have[s].admin # "disable"}

\* purgeOnuRow: by the identity of the row
PurgedRow(s, entity) ==
    [row EXCEPT ![s] = IF @ # None /\ @.id = entity.id THEN None ELSE @]

SyncPurge(c) ==
    /\ call[c].op = "sync"
    /\ call[c].pc = "purge"
    /\ UNCHANGED <<olt, mark, pending, requests, faults>>
    /\ \E s \in Leftover(c) :
         /\ row' = PurgedRow(s, call[c].have[s])
         /\ call' = [call EXCEPT ![c].have[s] = None]
         /\ Explains({s} \intersect call[c].excuse, {})

SyncDone(c) ==
    /\ call[c].op = "sync"
    /\ call[c].pc = "purge"
    /\ Leftover(c) = {}
    /\ Ends(c)
    /\ UNCHANGED <<olt, row, mark, pending, strange, unshown, requests, faults>>

-----------------------------------------------------------------------------
(* pollOneOltViaCli *)

PollList(c) ==
    /\ call[c].op = "poll"
    /\ call[c].pc = "list"
    /\ call' = [call EXCEPT ![c].pc = "update", ![c].list = olt, ![c].todo = Present]
    /\ UNCHANGED <<olt, row, mark, pending, strange, unshown, requests, faults>>

\* An update by the identity of the row: it never inserts.
PollUpdate(c) ==
    /\ call[c].op = "poll"
    /\ call[c].pc = "update"
    /\ UNCHANGED <<olt, mark, pending, requests, faults>>
    /\ \E s \in call[c].todo :
         LET old == call[c].have[s]
         IN /\ call' = [call EXCEPT ![c].todo = @ \ {s}]
            /\ IF old # None /\ row[s] # None /\ row[s].id = old.id /\ ~IsRecentlyDeleted(s)
               THEN row' = [row EXCEPT ![s].admin = ApplySnapshot(old.admin, call[c].list[s])]
               ELSE UNCHANGED row
            /\ Explains({}, IF Outdated(s, old) THEN {s} ELSE {})

PollDone(c) ==
    /\ call[c].op = "poll"
    /\ call[c].pc = "update"
    /\ call[c].todo = {}
    /\ Ends(c)
    /\ UNCHANGED <<olt, row, mark, pending, strange, unshown, requests, faults>>

-----------------------------------------------------------------------------
(* authorize *)

\* The OLT takes the ONU; an interface in use it refuses.
AuthoriseOlt(c) ==
    LET s == call[c].slot
    IN /\ call[c].op = "authorise"
       /\ call[c].pc = "olt"
       /\ UNCHANGED <<row, mark, pending, requests, faults>>
       /\ IF olt[s] # "absent"
          THEN Ends(c) /\ UNCHANGED <<olt, strange, unshown>>
          ELSE /\ olt' = [olt EXCEPT ![s] = "enable"]
               /\ call' = [Excused(s, Knowing(s) \ {c}) EXCEPT ![c].pc = "read"]
               /\ Explains({s}, {})

\* importOne, after the model of the ONU was read; it has the reasons of SyncSave.  (The
\* model read from the ACS afterwards is saved without the admin state.)
ImportRead(c) ==
    /\ call[c].op = "authorise"
    /\ call[c].pc = "read"
    /\ call' = [call EXCEPT ![c].copy = row[call[c].slot], ![c].pc = "write"]
    /\ UNCHANGED <<olt, row, mark, pending, strange, unshown, requests, faults>>

ImportSave(c) ==
    LET s == call[c].slot
        old == call[c].copy
        new == IF old = None THEN NewRow("enable")
               ELSE [old EXCEPT !.admin = ApplySnapshot(@, "enable")]
    IN /\ call[c].op = "authorise"
       /\ call[c].pc = "write"
       /\ Ids \ UsedIds # {}
       /\ IF Conflict(s, new)
          THEN UNCHANGED row
          ELSE row' = [row EXCEPT ![s] = new]
       /\ Ends(c)
       /\ UNCHANGED <<olt, mark, pending, requests, faults>>
       /\ Explains(IF s \in call[c].excuse \/ Deleting(s) THEN {s} ELSE {},
                   IF old = None \/ Outdated(s, old) THEN {s} ELSE {})

-----------------------------------------------------------------------------
(* deleteOnu *)

\* Older listings are no reason for what follows: the deletion will be remembered.
DeleteOlt(c) ==
    LET s == call[c].slot
    IN /\ call[c].op = "delete"
       /\ call[c].pc = "olt"
       /\ olt' = [olt EXCEPT ![s] = "absent"]
       /\ call' = [Excused(s, {d \in Knowing(s) \ {c} : ~Listing(d)}) EXCEPT ![c].pc = "mark"]
       /\ UNCHANGED <<row, mark, pending, requests, faults>>
       /\ Explains({s}, {})

\* After a timeout, isOnuGoneFromOlt: an error of the OLT counts as gone, and the row of an
\* ONU the OLT has is purged.
GoneCheck(c) ==
    LET s == call[c].slot
    IN /\ call[c].op = "delete"
       /\ call[c].pc = "gone"
       /\ \/ /\ olt[s] = "absent"
             /\ Goto(c, "mark")
             /\ UNCHANGED faults
          \/ /\ olt[s] # "absent"
             /\ Ends(c)
             /\ UNCHANGED faults
          \/ /\ olt[s] # "absent"
             /\ faults < MaxFaults
             /\ faults' = faults + 1
             /\ call' = [call EXCEPT ![c].pc = "mark", ![c].excuse = {s}]
       /\ UNCHANGED <<olt, row, mark, pending, strange, unshown, requests>>

\* purgeDeletedOnuFromDb: find the row, remember the deletion, purge the row.  A
\* synchronisation past its check of the ONU does not notice.
NotMarked(s) == mark
MarkRecentlyDeleted(s) == mark \union {s}

MarkDeleted(c) ==
    LET s == call[c].slot
        crossed == {d \in Calls : call[d].op = "sync" /\ call[d].pc = "save" /\ call[d].slot = s}
    IN /\ call[c].op = "delete"
       /\ call[c].pc = "mark"
       /\ mark' = MarkRecentlyDeleted(s)
       /\ call' = [Excused(s, crossed) EXCEPT
                     ![c] = IF row[s] = None THEN Idle
                            ELSE [@ EXCEPT !.pc = "purge", !.copy = row[s]]]
       /\ UNCHANGED <<olt, row, pending, strange, unshown, requests, faults>>

DeletePurge(c) ==
    LET s == call[c].slot
    IN /\ call[c].op = "delete"
       /\ call[c].pc = "purge"
       /\ row' = PurgedRow(s, call[c].copy)
       /\ Ends(c)
       /\ UNCHANGED <<olt, mark, pending, requests, faults>>
       /\ Explains({s} \intersect call[c].excuse, {})

\* Two minutes later the deletion is forgotten, which an older listing may outlast.
Expires(s) ==
    /\ s \in mark
    /\ mark' = mark \ {s}
    /\ call' = Excused(s, {d \in Calls : Listing(d)})
    /\ UNCHANGED <<olt, row, pending, strange, unshown, requests, faults>>

-----------------------------------------------------------------------------
(* disable, enable, edits, refresh *)

AdminOf(op) == IF op = "disable" THEN "disable" ELSE "enable"

\* The OLT sets the admin state of an ONU it has.
AdminOlt(c) ==
    LET s == call[c].slot
    IN /\ call[c].op \in {"disable", "enable"}
       /\ call[c].pc = "olt"
       /\ UNCHANGED <<row, mark, pending, requests, faults>>
       /\ IF olt[s] = "absent"
          THEN Ends(c) /\ UNCHANGED <<olt, strange, unshown>>
          ELSE /\ olt' = [olt EXCEPT ![s] = AdminOf(call[c].op)]
               /\ Goto(c, "read")
               /\ Explains({}, {s})

AdminRead(c) ==
    LET s == call[c].slot
    IN /\ call[c].op \in {"disable", "enable"}
       /\ call[c].pc = "read"
       /\ IF row[s] = None THEN Ends(c)
          ELSE call' = [call EXCEPT ![c].pc = "write",
                                    ![c].copy = [row[s] EXCEPT !.admin = AdminOf(call[c].op)]]
       /\ UNCHANGED <<olt, row, mark, pending, strange, unshown, requests, faults>>

\* getConnectedOnuDetail of a refresh; an ONU the OLT lacks is an error
Look(c) ==
    LET s == call[c].slot
    IN /\ call[c].pc = "look"
       /\ IF olt[s] = "absent" THEN Ends(c)
          ELSE call' = [call EXCEPT ![c].list[s] = olt[s], ![c].pc = "write"]
       /\ UNCHANGED <<olt, row, mark, pending, strange, unshown, requests, faults>>

\* The copy is saved whole, and inserted again if its row is gone.  An enable() may come to
\* the row after the ONU was disabled again.
WriteCopy(c) ==
    LET s == call[c].slot
        old == call[c].copy
        new == IF call[c].op = "refresh"
               THEN [old EXCEPT !.admin = ApplySnapshot(@, call[c].list[s])] ELSE old
    IN /\ call[c].op \in {"edit", "refresh", "disable", "enable"}
       /\ call[c].pc = "write"
       /\ IF Conflict(s, new) THEN UNCHANGED row
          ELSE row' = [row EXCEPT ![s] = new]
       /\ Ends(c)
       /\ UNCHANGED <<olt, mark, pending, requests, faults>>
       /\ Explains(IF row[s] = None THEN {s} ELSE {},
                   IF call[c].op = "enable" \/ Outdated(s, old) THEN {s} ELSE {})

-----------------------------------------------------------------------------
(* Faults *)

\* withTimeout: the call gives up while its command may still be waiting for the device.
\* Only a deletion then looks whether it was carried out.
CommandTimesOut(c) ==
    /\ call[c].op \in Commands
    /\ call[c].pc = "olt"
    /\ faults < MaxFaults
    /\ faults' = faults + 1
    /\ pending' = pending \union {[nr |-> faults, op |-> call[c].op, slot |-> call[c].slot]}
    /\ IF call[c].op = "delete" THEN Goto(c, "gone") ELSE Ends(c)
    /\ UNCHANGED <<olt, row, mark, strange, unshown, requests>>

\* What a command makes of an interface.
Commanded(op, state) ==
    IF op = "delete" THEN "absent"
    ELSE IF op = "authorise" THEN IF state = "absent" THEN "enable" ELSE state
    ELSE IF state = "absent" THEN "absent" ELSE AdminOf(op)

\* The OLT carries out the command of a call that gave up.
LateCommand(late) ==
    /\ late \in pending
    /\ pending' = pending \ {late}
    /\ UNCHANGED <<row, mark, requests, faults>>
    /\ Surprise(late.slot, Commanded(late.op, olt[late.slot]))

\* Somebody changes the OLT by hand.
ByHand(s, state) ==
    /\ faults < MaxFaults
    /\ faults' = faults + 1
    /\ state # olt[s]
    /\ UNCHANGED <<row, mark, pending, requests>>
    /\ Surprise(s, state)

\* A query or a device call fails: the caller gets the error, what was done stays done.
\* A deletion that fails before it is remembered leaves older listings without a guard.
Throw(c) ==
    /\ call[c].pc # "idle"
    /\ faults < MaxFaults
    /\ faults' = faults + 1
    /\ call' = [Excused(call[c].slot, IF Writing(c, call[c].slot) THEN {d \in Others(c) : Listing(d)}
                                      ELSE {}) EXCEPT ![c] = Idle]
    /\ UNCHANGED <<olt, row, mark, pending, strange, unshown, requests>>

Restart ==
    /\ faults < MaxFaults
    /\ faults' = faults + 1
    /\ call' = [c \in Calls |-> Idle]
    /\ mark' = {}
    /\ pending' = {}
    /\ UNCHANGED <<olt, row, strange, unshown, requests>>

-----------------------------------------------------------------------------

Request(c) ==
    \/ Sync(c)
    \/ Poll(c)
    \/ \E s \in Slots : Authorise(c, s)
    \/ \E s \in Slots : DeleteOnu(c, s)
    \/ \E s \in Slots : Disable(c, s)
    \/ \E s \in Slots : Enable(c, s)
    \/ \E s \in Slots : Edit(c, s)
    \/ \E s \in Slots : Refresh(c, s)

Step(c) ==
    \/ SyncList(c) \/ SyncLoad(c) \/ SyncCheck(c) \/ SyncSave(c) \/ SyncPurge(c) \/ SyncDone(c)
    \/ PollList(c) \/ PollUpdate(c) \/ PollDone(c)
    \/ AuthoriseOlt(c) \/ ImportRead(c) \/ ImportSave(c)
    \/ DeleteOlt(c) \/ GoneCheck(c) \/ MarkDeleted(c) \/ DeletePurge(c)
    \/ AdminOlt(c) \/ AdminRead(c) \/ Look(c) \/ WriteCopy(c)
    \/ CommandTimesOut(c)

Next ==
    \/ \E c \in Calls : Request(c)
    \/ \E c \in Calls : Step(c)
    \/ \E late \in pending : LateCommand(late)
    \/ \E s \in Slots : Expires(s)
    \/ \E s \in Slots, state \in {"absent"} \union Admin : ByHand(s, state)
    \/ \E c \in Calls : Throw(c)
    \/ Restart

Spec == Init /\ [][Next]_vars

-----------------------------------------------------------------------------
(* Properties *)

\* Every variable keeps its type.
TypeOK ==
    /\ olt \in [Slots -> {"absent"} \union Admin]
    /\ row \in [Slots -> Row \union {None}]
    /\ mark \subseteq Slots
    /\ pending \subseteq LateCommands
    /\ call \in [Calls -> Call]
    /\ strange \subseteq Slots
    /\ unshown \subseteq Slots
    /\ requests \in 0 .. MaxRequests
    /\ faults \in 0 .. MaxFaults

\* The table shows an ONU exactly if the OLT has it, unless there is one of these reasons:
\* (1) a call, a late command of one that gave up or somebody by hand changed the OLT, and
\*     the row has not been told, perhaps because the call failed on the way;
\* (2) the OLT changed after an authorisation, a deletion or the listing of a
\*     synchronisation, which goes on with what it knew; but a listing from before a
\*     deletion is no reason while that deletion is remembered, unless
\* (3) the synchronisation had passed its check of the ONU, or the deletion was forgotten
\*     meanwhile or failed before it was remembered, or is just between OLT and row;
\* (4) an edit, a refresh or an enable() inserted a purged row again;
\* (5) a synchronisation skipped an ONU that was deleted and authorised again within two
\*     minutes, and purged its row;
\* (6) a deletion that gave up got an error from the OLT and took the ONU for gone.
ShownAsOnOlt == \A s \in Slots : Differ(s, row, olt) => s \in strange

\* A row shows an ONU as enabled that the OLT has disabled only for one of these reasons:
\* (1) a call, a late command or somebody by hand changed the OLT, and the row has not been
\*     told, perhaps because the call failed on the way;
\* (2) a synchronisation or an authorisation inserted the row, and SNMP had not told the
\*     admin state, or what it knew is older than the suspension;
\* (3) a synchronisation, a poll, an edit or a refresh saved a copy without the suspension
\*     of a row that has come to show it, or is gone;
\* (4) an enable() came to the row after the ONU was disabled again.
\* So no snapshot, old or new, undoes the suspension of the copy it is applied to.
SuspensionShown == \A s \in Slots : Unsuspended(s, row, olt) => s \in unshown

\* What a synchronisation listed and skipped, because its deletion is remembered
Skipped(c) == {s \in Slots : call[c].list[s] # "absent" /\ s \notin call[c].seen}

\* A synchronisation during which no other call starts or is under way and the OLT changes
\* nothing leaves no difference, except the ONUs it skipped as recently deleted and rows
\* that show a suspension, which it does not purge.
SyncReconciles ==
    [][\A c \in Calls : SyncDone(c) /\ call[c].quiet =>
         \A s \in Slots \ Skipped(c) : Differ(s, row, olt) =>
            row[s] # None /\ row[s].admin = "disable"]_vars

\* "Absent from OLT inventory => not authorized anymore.  Remove from Conectadas" (line
\* 1977): a row is removed by a synchronisation only if the inventory it got lacks the ONU,
\* or the OLT does by now.
PurgedAreGone ==
    [][\A c \in Calls : SyncPurge(c) =>
         \A s \in Slots : row[s] # None /\ row'[s] = None =>
            call[c].list[s] = "absent" \/ olt[s] = "absent"]_vars

=============================================================================
