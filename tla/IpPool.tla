------------------------------- MODULE IpPool -------------------------------
(***************************************************************************)
(* IP pools of an OLT and the addresses of its ONUs                        *)
(* (topology/routers/ip-pool.service.ts).                                  *)
(*                                                                         *)
(* An ONU has a WAN address from a pool for "internet" and a management    *)
(* address from a pool for "management".  Each is stored twice: as a row   *)
(* of ip_pool_allocations and as columns of the ONU's row.  No lock and no *)
(* transaction keeps the two together: every call finds, deletes, inserts  *)
(* and at last saves the whole ONU it read at the beginning, an await      *)
(* between any two of these.  The database adds two unique indexes         *)
(* (pool, address) and (pool, ONU) and foreign keys that cascade.          *)
(***************************************************************************)
EXTENDS FiniteSets, Integers

CONSTANTS
    Onus,         \* database identities of ONU rows; one deleted never returns by right
    Pools,        \* identities of pools
    Purpose,      \* Purpose[p] is "internet" or "management"
    Calls,        \* asynchronous calls that may be under way at once
    Ids,          \* identities of allocation rows
    MaxHosts,     \* largest number of usable addresses of a pool
    Attempts,     \* tries of allocateLowestFreeIp (5 in the code)
    None,         \* no address, no row, no ONU
    Unborn,       \* an ONU that is not authorised yet
    Gone,         \* an ONU whose row was deleted
    MaxRequests,  \* bound of the model: calls made in all
    MaxFaults     \* bound of the model: rejected queries and restarts

Purposes == {"internet", "management"}
Hosts == 1 .. MaxHosts
Slots == [pool : Pools, ip : Hosts]

ASSUME PurposeAssumption == Purpose \in [Pools -> Purposes]
ASSUME BoundsAssumption ==
    /\ MaxHosts \in Nat \ {0}
    /\ Attempts \in Nat \ {0}
    /\ MaxRequests \in Nat
    /\ MaxFaults \in Nat

VARIABLES
    hosts,     \* usable addresses of each pool, 0 where there is no such pool
    row,       \* the address columns of each ONU's row
    alloc,     \* the table ip_pool_allocations
    call,      \* locals of each call
    open,      \* history: books a call changed and has not saved, or two calls changed at once
    requests,  \* calls made so far
    faults     \* faults so far

vars == <<hosts, row, alloc, call, open, requests, faults>>

\* an address for a purpose comes from a pool for it
Row == {r \in [Purposes -> Slots \union {None}] :
           \A u \in Purposes : r[u] # None => Purpose[r[u].pool] = u}
Alloc == [id : Ids, pool : Pools, ip : Hosts, onu : Onus]

ASSUME NoneAssumption ==
    /\ None \notin Onus \union Alloc \union Slots
    /\ {Unborn, Gone} \intersect Row = {}
    /\ Unborn # Gone

Ops == {"assignWan", "adoptWan", "releaseWan", "assignMgmt", "changeMgmt", "releaseMgmt",
        "edit", "purge"}
PoolOps == {"resize", "remove"}
Pcs == {"idle", "keep", "pools", "others", "drop", "find", "taken", "unkeep", "wanted",
        "choose", "insert", "save", "reload", "again", "purge", "purgeRow", "count",
        "removeRow", "check", "resizeRow"}

Call == [pc : Pcs, op : Ops \union PoolOps, onu : Onus \union {None},
         pool : Pools \union {None}, size : 0 .. MaxHosts, want : 0 .. MaxHosts,
         pools : SUBSET Pools, copy : Row \union {None}, keep : Alloc \union {None},
         found : SUBSET Alloc, tries : 0 .. Attempts - 1, beaten : Nat, alone : BOOLEAN,
         sound : BOOLEAN]

Idle == [pc |-> "idle", op |-> "edit", onu |-> None, pool |-> None, size |-> 0, want |-> 0,
         pools |-> {}, copy |-> None, keep |-> None, found |-> {}, tries |-> 0, beaten |-> 0,
         alone |-> TRUE, sound |-> TRUE]

Init ==
    /\ hosts = [p \in Pools |-> MaxHosts]
    /\ row = [o \in Onus |-> Unborn]
    /\ alloc = {}
    /\ call = [c \in Calls |-> Idle]
    /\ open = {}
    /\ requests = 0
    /\ faults = 0

-----------------------------------------------------------------------------
(* The tables *)

Present(o) == row[o] \in Row
Of(o, u) == {a \in alloc : a.onu = o /\ Purpose[a.pool] = u}
SlotOf(a) == [pool |-> a.pool, ip |-> a.ip]
Taken(p) == {a.ip : a \in {b \in alloc : b.pool = p}}

\* firstFreeIp over the range the call knows of
FreeOrNot(c) == 1 .. call[c].size
Free(c) == (1 .. call[c].size) \ Taken(call[c].pool)
Lowest(S) == CHOOSE i \in S : \A j \in S : i <= j

\* what the unique indexes and the foreign keys let through
AcceptsTaken(p, i, o) == hosts[p] > 0 /\ Present(o) /\ \A a \in alloc : a.pool = p => a.onu # o
Accepts(p, i, o) ==
    /\ hosts[p] > 0
    /\ Present(o)
    /\ \A a \in alloc : a.pool = p => a.ip # i /\ a.onu # o

UsedIds ==
    {a.id : a \in alloc \union (UNION {call[c].found : c \in Calls})
                        \union ({call[c].keep : c \in Calls} \ {None})}
NewId == CHOOSE i \in Ids : i \notin UsedIds

\* the purpose whose books a call keeps
Keeps(op) ==
    IF op \in {"assignMgmt", "changeMgmt", "releaseMgmt"} THEN "management" ELSE "internet"

-----------------------------------------------------------------------------
(* Steps of calls *)

Goto(c, pc) == call' = [call EXCEPT ![c].pc = pc]
Ends(c) == call' = [call EXCEPT ![c] = Idle]

On(o) == {d \in Calls : call[d].pc # "idle" /\ call[d].onu = o}

\* A call for ONU o begins with the row its caller read.  The other calls under
\* way for o are no longer alone.
Starts(c, o, rec) ==
    /\ call[c].pc = "idle"
    /\ requests < MaxRequests
    /\ requests' = requests + 1
    /\ Present(o)
    /\ LET alone == On(o) = {}
       IN /\ call' = [d \in Calls |->
                        IF d = c
                        THEN [rec EXCEPT !.onu = o, !.copy = row[o], !.alone = alone,
                                         !.sound = <<o, Keeps(rec.op)>> \notin open]
                        ELSE IF d \in On(o) THEN [call[d] EXCEPT !.alone = FALSE]
                        ELSE call[d]]
          /\ open' = IF alone THEN open ELSE open \union ({o} \X Purposes)
    /\ UNCHANGED <<hosts, row, alloc, faults>>

\* assignWanIp: the pool exists and has a DNS; the address the ACS reported, if
\* any and if in range, is preferred.
AssignWan(c, o, p, want) ==
    /\ Purpose[p] = "internet"
    /\ want <= hosts[p]
    /\ hosts[p] > 0
    /\ Starts(c, o, [Idle EXCEPT !.pc = "keep", !.op = "assignWan", !.pool = p,
                                 !.size = hosts[p], !.want = want])

\* adoptWanIpIfFree: the ACS reports another address of the pool of the ONU.
AdoptWan(c, o, want) ==
    /\ Present(o)
    /\ row[o]["internet"] # None
    /\ LET p == row[o]["internet"].pool
       IN /\ want \in 1 .. hosts[p]
          /\ want # row[o]["internet"].ip
          /\ Starts(c, o, [Idle EXCEPT !.pc = "taken", !.op = "adoptWan", !.pool = p,
                                       !.size = hosts[p], !.want = want])

ReleaseWan(c, o) == Starts(c, o, [Idle EXCEPT !.pc = "pools", !.op = "releaseWan"])

\* assignMgmtIp, from setOnuTr069
AssignMgmt(c, o, p) ==
    /\ Purpose[p] = "management"
    /\ hosts[p] > 0
    /\ Starts(c, o, [Idle EXCEPT !.pc = "keep", !.op = "assignMgmt", !.pool = p,
                                 !.size = hosts[p]])

\* assignMgmtIpForVlan, from networkVlansAssign, unless the ONU has an address of the
\* pool p of that VLAN; p is None where the VLAN has no pool.
ChangeMgmt(c, o, p) ==
    /\ p # None => Purpose[p] = "management"
    /\ Present(o)
    /\ row[o]["management"] # None /\ row[o]["management"].pool = p => hosts[p] = 0
    /\ Starts(c, o, [Idle EXCEPT !.pc = "pools", !.op = "changeMgmt", !.pool = p])

ReleaseMgmt(c, o) == Starts(c, o, [Idle EXCEPT !.pc = "pools", !.op = "releaseMgmt"])

\* any handler that reads an ONU, waits for something and saves it
Edit(c, o) == Starts(c, o, [Idle EXCEPT !.pc = "save", !.op = "edit"])

ResizePool(c, p, n) ==
    /\ call[c].pc = "idle"
    /\ requests < MaxRequests
    /\ requests' = requests + 1
    /\ hosts[p] > 0
    /\ call' = [call EXCEPT ![c] = [Idle EXCEPT !.pc = "check", !.op = "resize",
                                                !.pool = p, !.size = n]]
    /\ UNCHANGED <<hosts, row, alloc, open, faults>>

RemovePool(c, p) ==
    /\ call[c].pc = "idle"
    /\ requests < MaxRequests
    /\ requests' = requests + 1
    /\ hosts[p] > 0
    /\ call' = [call EXCEPT ![c] = [Idle EXCEPT !.pc = "count", !.op = "remove", !.pool = p]]
    /\ UNCHANGED <<hosts, row, alloc, open, faults>>

\* importOne for an ONU that was just authorised: a new row without addresses
Authorise(o) ==
    /\ row[o] = Unborn
    /\ row' = [row EXCEPT ![o] = [u \in Purposes |-> None]]
    /\ UNCHANGED <<hosts, alloc, call, open, requests, faults>>

\* The allocation of this ONU in the pool, if there is one, is kept.
FindKeep(c) ==
    LET mine == {a \in alloc : a.onu = call[c].onu /\ a.pool = call[c].pool}
    IN /\ call[c].pc = "keep"
       /\ \/ /\ mine = {}
             /\ Goto(c, "pools")
          \/ \E k \in mine :
               call' = [call EXCEPT ![c].keep = k,
                          ![c].pc = IF call[c].op = "assignMgmt" THEN "save" ELSE "pools"]
       /\ UNCHANGED <<hosts, row, alloc, open, requests, faults>>

\* The pools for this purpose are read first, ...
ListPools(c) ==
    /\ call[c].pc = "pools"
    /\ call' = [call EXCEPT ![c].pools = {p \in Pools : /\ hosts[p] > 0
                                                       /\ Purpose[p] = Keeps(call[c].op)},
                            ![c].pc = "others"]
    /\ UNCHANGED <<hosts, row, alloc, open, requests, faults>>

\* ... then the allocations of the ONU.  Which of them must go:
SuperfluousHere(c) == {a \in Of(call[c].onu, Keeps(call[c].op)) : a.pool = call[c].pool}
Superfluous(c) ==
    {a \in Of(call[c].onu, Keeps(call[c].op)) :
        CASE call[c].op = "adoptWan" -> a.pool = call[c].pool /\ a.ip # call[c].want
          [] call[c].op = "assignWan" ->
               /\ a.pool \in call[c].pools
               /\ IF call[c].keep = None THEN a.pool # call[c].pool ELSE a.id # call[c].keep.id
          [] OTHER -> a.pool \in call[c].pools}

FindOthers(c) ==
    /\ call[c].pc = "others"
    /\ call' = [call EXCEPT ![c].found = Superfluous(c), ![c].pc = "drop"]
    /\ UNCHANGED <<hosts, row, alloc, open, requests, faults>>

\* allocRepo.delete({ id })
Delete(a) == alloc' = {b \in alloc : b.id # a.id}
Opens(c) == open' = open \union {<<call[c].onu, Keeps(call[c].op)>>}

Drop(c) ==
    /\ call[c].pc = "drop"
    /\ \E a \in call[c].found :
         /\ Delete(a)
         /\ call' = [call EXCEPT ![c].found = @ \ {a}]
    /\ Opens(c)
    /\ UNCHANGED <<hosts, row, requests, faults>>

\* Where a call goes when it has dropped what it had to.
AfterDrop(c) ==
    CASE call[c].op \in {"releaseWan", "releaseMgmt"} -> "save"
      [] call[c].op = "assignMgmt" -> "choose"
      [] call[c].op = "changeMgmt" -> "find"
      [] call[c].op = "adoptWan" -> IF call[c].keep = None THEN "wanted" ELSE "save"
      [] OTHER -> IF call[c].want > 0 THEN "taken"
                  ELSE IF call[c].keep = None THEN "choose" ELSE "save"

Dropped(c) ==
    /\ call[c].pc = "drop"
    /\ call[c].found = {}
    /\ Goto(c, AfterDrop(c))
    /\ UNCHANGED <<hosts, row, alloc, open, requests, faults>>

\* assignMgmtIpForVlan has dropped every management address and only now looks for the
\* pool of the VLAN; without one it is rejected, and nothing is saved.
FindPool(c) ==
    /\ call[c].pc = "find"
    /\ IF call[c].pool # None /\ hosts[call[c].pool] > 0
       THEN call' = [call EXCEPT ![c].op = "assignMgmt", ![c].size = hosts[call[c].pool],
                                 ![c].pc = "keep"]
       ELSE Ends(c)
    /\ UNCHANGED <<hosts, row, alloc, open, requests, faults>>

\* Who has the preferred address.  Somebody else: it is not adopted, and assignWanIp
\* goes on without it.  Nobody or this ONU: whatever else was kept is let go.
FindTaken(c) ==
    LET other == \E a \in alloc : a.pool = call[c].pool /\ a.ip = call[c].want
                                  /\ a.onu # call[c].onu
        mine == {a \in alloc : a.pool = call[c].pool /\ a.ip = call[c].want
                               /\ a.onu = call[c].onu}
        keep == call[c].keep
    IN /\ call[c].pc = "taken"
       /\ \/ /\ call[c].op = "adoptWan"
             /\ IF other THEN Ends(c) ELSE \E k \in {None} \union mine :
                    /\ k = None <=> mine = {}
                    /\ call' = [call EXCEPT ![c].pc = "others", ![c].keep = k]
          \/ /\ call[c].op = "assignWan"
             /\ IF other THEN Goto(c, IF keep = None THEN "choose" ELSE "save")
                ELSE IF keep = None THEN \E k \in {None} \union mine :
                    /\ k = None <=> mine = {}
                    /\ call' = [call EXCEPT ![c].keep = k,
                                            ![c].pc = IF k = None THEN "wanted" ELSE "save"]
                ELSE IF keep.ip = call[c].want THEN Goto(c, "save")
                ELSE call' = [call EXCEPT ![c].pc = "unkeep", ![c].found = mine]
       /\ UNCHANGED <<hosts, row, alloc, open, requests, faults>>

Unkeep(c) ==
    /\ call[c].pc = "unkeep"
    /\ Delete(call[c].keep)
    /\ \E k \in {None} \union call[c].found :
         /\ k = None <=> call[c].found = {}
         /\ call' = [call EXCEPT ![c].keep = k, ![c].found = {},
                                 ![c].pc = IF k = None THEN "wanted" ELSE "save"]
    /\ Opens(c)
    /\ UNCHANGED <<hosts, row, requests, faults>>

\* The insert of address i went through: the calls that try the same pool lost a race.
Inserted(c, i) ==
    LET new == [id |-> NewId, pool |-> call[c].pool, ip |-> i, onu |-> call[c].onu]
    IN /\ alloc' = alloc \union {new}
       /\ call' = [d \in Calls |->
                     IF d = c THEN [call[c] EXCEPT !.keep = new, !.pc = "save"]
                     ELSE IF call[d].pool = call[c].pool
                          THEN [call[d] EXCEPT !.beaten = @ + 1] ELSE call[d]]
       /\ Opens(c)

\* The insert of the preferred address is tried once; a rejection reaches the caller.
InsertWanted(c) ==
    /\ call[c].pc = "wanted"
    /\ Ids \ UsedIds # {}
    /\ IF Accepts(call[c].pool, call[c].want, call[c].onu)
       THEN Inserted(c, call[c].want)
       ELSE Ends(c) /\ UNCHANGED <<alloc, open>>
    /\ UNCHANGED <<hosts, row, requests, faults>>

\* allocateLowestFreeIp: look for the lowest free address ...
Choose(c) ==
    /\ call[c].pc = "choose"
    /\ IF Free(c) = {} THEN Ends(c)
       ELSE call' = [call EXCEPT ![c].want = Lowest(Free(c)), ![c].beaten = 0,
                                 ![c].pc = "insert"]
    /\ UNCHANGED <<hosts, row, alloc, open, requests, faults>>

\* ... and insert it, again from the start if the database says no.
LastTryLate(c) == call[c].tries = Attempts
LastTry(c) == call[c].tries + 1 = Attempts

Insert(c) ==
    /\ call[c].pc = "insert"
    /\ Ids \ UsedIds # {}
    /\ IF Accepts(call[c].pool, call[c].want, call[c].onu)
       THEN Inserted(c, call[c].want)
       ELSE /\ IF LastTry(c) THEN Ends(c)
               ELSE call' = [call EXCEPT ![c].tries = @ + 1, ![c].pc = "choose"]
            /\ UNCHANGED <<alloc, open>>
    /\ UNCHANGED <<hosts, row, requests, faults>>

\* The row a call is about to save.
Saved(c) ==
    CASE call[c].op \in {"assignWan", "adoptWan", "assignMgmt"} ->
           [call[c].copy EXCEPT ![Keeps(call[c].op)] = SlotOf(call[c].keep)]
      [] call[c].op \in {"releaseWan", "releaseMgmt"} ->
           [call[c].copy EXCEPT ![Keeps(call[c].op)] = None]
      [] OTHER -> call[c].copy

\* Calls that leave one allocation or none whatever they found.
Settles(op) == op \in {"assignWan", "releaseWan", "releaseMgmt"}

\* onuRepo.save(onu): the whole entity; a row that has been deleted is inserted again.
SaveRow(c) ==
    /\ call[c].pc = "save"
    /\ row' = [row EXCEPT ![call[c].onu] = Saved(c)]
    /\ open' = IF call[c].alone /\ call[c].op # "edit"
                  /\ (call[c].sound \/ Settles(call[c].op))
               THEN open \ {<<call[c].onu, Keeps(call[c].op)>>} ELSE open
    /\ \/ /\ call[c].op # "releaseMgmt"
          /\ Ends(c)
       \/ /\ call[c].op = "assignMgmt"
          /\ Goto(c, "reload")
       \/ /\ call[c].op = "releaseMgmt"
          /\ call' = [call EXCEPT ![c].copy = Saved(c), ![c].pc = "again"]
    /\ UNCHANGED <<hosts, alloc, requests, faults>>

\* setOnuTr069 reads the ONU again, sets its profile and saves it; when it disables,
\* it saves the entity it has.
Reload(c) ==
    /\ call[c].pc = "reload"
    /\ IF Present(call[c].onu)
       THEN call' = [call EXCEPT ![c].copy = row[call[c].onu], ![c].pc = "again"]
       ELSE Ends(c)
    /\ UNCHANGED <<hosts, row, alloc, open, requests, faults>>

SaveAgain(c) ==
    /\ call[c].pc = "again"
    /\ row' = [row EXCEPT ![call[c].onu] = call[c].copy]
    /\ Ends(c)
    /\ UNCHANGED <<hosts, alloc, open, requests, faults>>

-----------------------------------------------------------------------------
(* Deletion of an ONU: purgeOnuRow *)

Purge(c, o) == Starts(c, o, [Idle EXCEPT !.pc = "purge", !.op = "purge"])

PurgeAllocs(c) ==
    /\ call[c].pc = "purge"
    /\ alloc' = {a \in alloc : a.onu # call[c].onu}
    /\ open' = open \union ({call[c].onu} \X Purposes)
    /\ Goto(c, "purgeRow")
    /\ UNCHANGED <<hosts, row, requests, faults>>

PurgeRow(c) ==
    /\ call[c].pc = "purgeRow"
    /\ row' = [row EXCEPT ![call[c].onu] = Gone]
    /\ alloc' = {a \in alloc : a.onu # call[c].onu}
    /\ Ends(c)
    /\ UNCHANGED <<hosts, open, requests, faults>>

-----------------------------------------------------------------------------
(* Changes of a pool: a check, a session with the router, a save *)

\* update and create of an existing pool: no assigned address may fall out of range
CheckRange(c) ==
    /\ call[c].pc = "check"
    /\ IF \A a \in alloc : a.pool = call[c].pool => a.ip <= call[c].size
       THEN Goto(c, "resizeRow") ELSE Ends(c)
    /\ UNCHANGED <<hosts, row, alloc, open, requests, faults>>

\* repo.save(pool), which also inserts a pool removed meanwhile
ResizeRow(c) ==
    /\ call[c].pc = "resizeRow"
    /\ hosts' = [hosts EXCEPT ![call[c].pool] = call[c].size]
    /\ Ends(c)
    /\ UNCHANGED <<row, alloc, open, requests, faults>>

\* remove: only a pool without assigned addresses
CountAllocs(c) ==
    /\ call[c].pc = "count"
    /\ IF \E a \in alloc : a.pool = call[c].pool THEN Ends(c) ELSE Goto(c, "removeRow")
    /\ UNCHANGED <<hosts, row, alloc, open, requests, faults>>

\* repo.remove(pool): allocations made since the count go with it
RemoveRow(c) ==
    LET lost == {a \in alloc : a.pool = call[c].pool}
        robbed == {a.onu : a \in lost}
    IN /\ call[c].pc = "removeRow"
       /\ hosts' = [hosts EXCEPT ![call[c].pool] = 0]
       /\ alloc' = alloc \ lost
       /\ open' = open \union (robbed \X {Purpose[call[c].pool]})
       /\ call' = [d \in Calls |->
                     IF d = c THEN Idle
                     ELSE IF call[d].onu \in robbed THEN [call[d] EXCEPT !.alone = FALSE]
                     ELSE call[d]]
       /\ UNCHANGED <<row, requests, faults>>

-----------------------------------------------------------------------------
(* Faults *)

\* A query is rejected: the caller gets the error, what was done stays done.
Throw(c) ==
    /\ call[c].pc # "idle"
    /\ faults < MaxFaults
    /\ faults' = faults + 1
    /\ Ends(c)
    /\ UNCHANGED <<hosts, row, alloc, open, requests>>

\* The process restarts.
Restart ==
    /\ faults < MaxFaults
    /\ faults' = faults + 1
    /\ \E c \in Calls : call[c].pc # "idle"
    /\ call' = [c \in Calls |-> Idle]
    /\ UNCHANGED <<hosts, row, alloc, open, requests>>

-----------------------------------------------------------------------------

Request(c) ==
    \/ \E o \in Onus, p \in Pools, want \in 0 .. MaxHosts : AssignWan(c, o, p, want)
    \/ \E o \in Onus, want \in Hosts : AdoptWan(c, o, want)
    \/ \E o \in Onus, p \in Pools : AssignMgmt(c, o, p)
    \/ \E o \in Onus, p \in Pools \union {None} : ChangeMgmt(c, o, p)
    \/ \E o \in Onus : ReleaseWan(c, o)
    \/ \E o \in Onus : ReleaseMgmt(c, o)
    \/ \E o \in Onus : Edit(c, o)
    \/ \E o \in Onus : Purge(c, o)
    \/ \E p \in Pools, n \in Hosts : ResizePool(c, p, n)
    \/ \E p \in Pools : RemovePool(c, p)

Step(c) ==
    \/ FindKeep(c) \/ ListPools(c) \/ FindOthers(c) \/ Drop(c) \/ Dropped(c)
    \/ FindPool(c) \/ FindTaken(c) \/ Unkeep(c)
    \/ InsertWanted(c) \/ Choose(c) \/ Insert(c) \/ SaveRow(c) \/ Reload(c) \/ SaveAgain(c)
    \/ PurgeAllocs(c) \/ PurgeRow(c)
    \/ CheckRange(c) \/ ResizeRow(c) \/ CountAllocs(c) \/ RemoveRow(c)

Next ==
    \/ \E o \in Onus : Authorise(o)
    \/ \E c \in Calls : Request(c)
    \/ \E c \in Calls : Step(c)
    \/ \E c \in Calls : Throw(c)
    \/ Restart

Spec == Init /\ [][Next]_vars

-----------------------------------------------------------------------------
(* Properties *)

\* Every variable keeps its type.
TypeOK ==
    /\ hosts \in [Pools -> 0 .. MaxHosts]
    /\ row \in [Onus -> Row \union {Unborn, Gone}]
    /\ alloc \subseteq Alloc
    /\ call \in [Calls -> Call]
    /\ open \subseteq Onus \X Purposes
    /\ requests \in 0 .. MaxRequests
    /\ faults \in 0 .. MaxFaults

\* The two books agree.  Unless a call has touched the allocations of an ONU and not
\* saved the ONU, or two calls changed the ONU at once, the address in its row is the
\* one allocation it has, and an ONU without address has none.
BooksAgree ==
    \A o \in Onus, u \in Purposes :
        Present(o) /\ <<o, u>> \notin open =>
            {SlotOf(a) : a \in Of(o, u)} = {row[o][u]} \ {None}

\* Two ONUs whose books are closed never have the same address of a pool.
AddressOfOne ==
    \A o1, o2 \in Onus, u \in Purposes :
        /\ o1 # o2
        /\ Present(o1) /\ Present(o2)
        /\ <<o1, u>> \notin open /\ <<o2, u>> \notin open
        /\ row[o1][u] # None
        => row[o1][u] # row[o2][u]

\* A call that is alone with its ONU loses a try of allocateLowestFreeIp only to another
\* call that got an address of the pool since this one chose its own, or because the pool
\* is gone.
LostTriesAreOthersWins ==
    \A c \in Calls :
        /\ call[c].pc = "insert" /\ call[c].alone
        /\ hosts[call[c].pool] > 0
        /\ ~Accepts(call[c].pool, call[c].want, call[c].onu)
        => call[c].beaten > 0

=============================================================================
