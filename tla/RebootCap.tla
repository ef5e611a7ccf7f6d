------------------------------ MODULE RebootCap ------------------------------
(***************************************************************************)
(* The cap on the reboots a model handler may order for one ONU            *)
(* (reboot-cap.util.ts, rebootOnuWithCap): at most MaxReboots by checks    *)
(* and MinGap apart, a short guard for explicit applies.  Its state is     *)
(* verify_detail.modelPrep, in the row that every save writes whole.       *)
(*                                                                         *)
(* A check (of the poller, a kick, a button) holds the ONU's lock, so      *)
(* there is one at a time; whether it may heal is left open, and it may    *)
(* fail or be cut by a restart anywhere.  Applies and whoever else reads   *)
(* the row and saves it later do not take the lock.  One unit of time is   *)
(* MODEL_PREP_FORCE_GAP_MS; an age saturates at MinGap.                    *)
(***************************************************************************)
EXTENDS Naturals

CONSTANTS
  Applies,         \* explicit applies that may be under way at once
  Savers,          \* other calls that read the row and save it whole later
  MaxReboots,      \* MODEL_PREP_MAX_REBOOTS
  MinGap,          \* MODEL_PREP_MIN_GAP_MS
  ReportsProgress, \* what result.progress may be after a heal: a set of BOOLEANs
  MayBeLate,       \* whether the OLT may answer after the 60 s of the race
  MayDie,          \* whether calls may throw or be cut by a restart
  MaxClicks,       \* bound of the model: reboots asked for by applies
  MaxOrders,       \* bound of the model: reboots by checks in a cycle
  Never

ASSUME RebootCapAssumption ==
  /\ MaxReboots \in Nat /\ MinGap \in Nat \ {0}
  /\ ReportsProgress \subseteq BOOLEAN /\ {MayBeLate, MayDie} \subseteq BOOLEAN
  /\ MaxClicks \in Nat /\ MaxOrders \in Nat /\ Never \notin Nat
  /\ Applies \cap Savers = {} /\ {"check", "entity"} \cap (Applies \cup Savers) = {}

VARIABLES
  row,      \* modelPrep in the ONU's row
  pc,       \* where the check, each apply and each saver are
  copy,     \* the row each of them has read, and the entity of the check
  clicks,
  rebooted, \* history: reboots that checks ordered in this cycle
  sincePoll, \* history: age of the last of them
  late,     \* history: those of them that were not noted, the OLT answering too late
  undone    \* history: notes of such reboots missing in the copies that were saved

vars == <<row, pc, copy, clicks, rebooted, sincePoll, late, undone>>

Check   == "check"
Entity  == "entity"
Callers == Applies \cup Savers \cup {Check}
Holders == Callers \cup {Entity}
Ages    == (0 .. MinGap) \cup {Never}

\* Two fields are history: how many reboots by checks were noted since the row was read, and
\* whether the last one ordered is among those the row does not know.
Row == [reboots: 0 .. MaxReboots + MaxClicks, last: Ages, missed: Nat, stale: BOOLEAN]

NewCycle == [reboots |-> 0, last |-> Never, missed |-> 0, stale |-> FALSE]

Older(age) == IF age = Never \/ age = MinGap THEN age ELSE age + 1

-----------------------------------------------------------------------------
\* Mutant: the count is compared after one more.
AllowsOneMore(known, force) ==
  IF force THEN known.last = Never \/ known.last >= 1
  ELSE known.reboots <= MaxReboots /\ (known.last = Never \/ known.last >= MinGap)

\* Mutant: only the count matters.
AllowsAnyGap(known, force) ==
  IF force THEN known.last = Never \/ known.last >= 1 ELSE known.reboots < MaxReboots

\* decideModelPrepReboot
Allows(known, force) ==
  IF force THEN known.last = Never \/ known.last >= 1
  ELSE known.reboots < MaxReboots /\ (known.last = Never \/ known.last >= MinGap)

Init ==
  /\ row = NewCycle
  /\ pc = [c \in Callers |-> "idle"]
  /\ copy = [h \in Holders |-> NewCycle]
  /\ clicks = 0
  /\ rebooted = 0 /\ sincePoll = Never /\ late = 0 /\ undone = 0

Goto(c, label) == pc' = [pc EXCEPT ![c] = label]
Reads(h)       == copy' = [copy EXCEPT ![h] = row]

\* The row is saved as r, which a call has read and perhaps changed.
Saves(r) ==
  /\ row' = [r EXCEPT !.missed = 0]
  /\ undone' = undone + r.missed

\* Who has read the row and may save it.
Holding ==
  {c \in Callers : pc[c] \in {"olt", "saving"}}
    \cup {h \in {Entity} : pc[Check] \in {"adopt", "heal", "olt", "verdict"}}

\* A cycle begins with an empty verifyDetail; the history is that of the new cycle.
BeginsCycle ==
  /\ row' = NewCycle
  /\ rebooted' = 0 /\ sincePoll' = Never /\ late' = 0 /\ undone' = 0
  /\ copy' = [h \in Holders |-> [copy[h] EXCEPT !.missed = 0, !.stale = FALSE]]

-----------------------------------------------------------------------------
(* Checks *)

\* start, under the lock
Start ==
  /\ pc[Check] = "idle"
  /\ BeginsCycle
  /\ UNCHANGED <<pc, clicks>>

\* executeCheck comes to repushWanForVerify, which reads the row, or does without a heal.
CheckBegins ==
  /\ pc[Check] = "idle"
  /\ \E label \in {"read", "judge"} : Goto(Check, label)
  /\ UNCHANGED <<row, copy, clicks, rebooted, sincePoll, late, undone>>

HealReads ==
  /\ pc[Check] = "read"
  /\ Reads(Entity)
  /\ \E label \in {"adopt", "heal"} : Goto(Check, label)
  /\ UNCHANGED <<row, clicks, rebooted, sincePoll, late, undone>>

\* adoptWanIpIfFree saves the entity; it is read again.
AdoptSaves ==
  /\ pc[Check] = "adopt"
  /\ Saves(copy[Entity])
  /\ Goto(Check, "reread")
  /\ UNCHANGED <<copy, clicks, rebooted, sincePoll, late>>

HealReadsAgain ==
  /\ pc[Check] = "reread"
  /\ Reads(Entity)
  /\ Goto(Check, "heal")
  /\ UNCHANGED <<row, clicks, rebooted, sincePoll, late, undone>>

\* The handler returns; with progress, the entity read before the heal is saved.
HealReturns ==
  /\ pc[Check] = "heal"
  /\ \E progress \in ReportsProgress :
       IF progress THEN Saves(copy[Entity]) ELSE UNCHANGED <<row, undone>>
  /\ Goto(Check, "judge")
  /\ UNCHANGED <<copy, clicks, rebooted, sincePoll, late>>

\* The row is read again before the verdict is saved.
VerdictRead ==
  /\ pc[Check] = "judge"
  /\ Reads(Entity)
  /\ Goto(Check, "verdict")
  /\ UNCHANGED <<row, clicks, rebooted, sincePoll, late, undone>>

\* Mutant: the new verifyDetail replaces the old one.
CarriesNothing(read) == [read EXCEPT !.reboots = 0, !.last = Never]

\* carriedPrep: the new verifyDetail keeps modelPrep.
Carries(read) == read

VerdictSave ==
  /\ pc[Check] = "verdict"
  /\ Saves(Carries(copy[Entity]))
  /\ Goto(Check, "idle")
  /\ UNCHANGED <<copy, clicks, rebooted, sincePoll, late>>

-----------------------------------------------------------------------------
(* rebootOnuWithCap, by the handler of a check or of an apply *)

Forced(c) == c # Check

\* The handler asks for a reboot; the decision rests on the row as it is now.
Asks(c) ==
  /\ pc[c] = "heal"
  /\ IF Forced(c) THEN clicks < MaxClicks /\ clicks' = clicks + 1
     ELSE rebooted < MaxOrders /\ UNCHANGED clicks
  /\ IF Allows(row, Forced(c)) THEN Reads(c) /\ Goto(c, "olt") ELSE UNCHANGED <<copy, pc>>
  /\ UNCHANGED <<row, rebooted, sincePoll, late, undone>>

\* The OLT reboots the ONU in time and the count is saved, with the row as it was read.
Noted(read) == [read EXCEPT !.reboots = @ + 1, !.last = 0, !.stale = FALSE]

Reboots(c) ==
  /\ pc[c] = "olt"
  /\ Saves(Noted(copy[c]))
  /\ IF c = Check
     THEN /\ rebooted' = rebooted + 1 /\ sincePoll' = 0
          /\ copy' = [h \in Holders |->
                        IF h = c \/ h \notin Holding THEN copy[h]
                        ELSE [copy[h] EXCEPT !.missed = @ + 1, !.stale = TRUE]]
     ELSE UNCHANGED <<rebooted, sincePoll, copy>>
  /\ Goto(c, "heal")
  /\ UNCHANGED <<clicks, late>>

\* The OLT answers late, or the save fails: the ONU reboots and nothing is noted.
RebootsUnnoted(c) ==
  /\ MayBeLate /\ pc[c] = "olt"
  /\ IF c = Check
     THEN /\ rebooted' = rebooted + 1 /\ sincePoll' = 0 /\ late' = late + 1
          /\ row' = [row EXCEPT !.stale = TRUE]
          /\ copy' = [h \in Holders |-> [copy[h] EXCEPT !.stale = TRUE]]
     ELSE UNCHANGED <<row, rebooted, sincePoll, late, copy>>
  /\ Goto(c, "heal")
  /\ UNCHANGED <<clicks, undone>>

RebootFails(c) ==
  /\ pc[c] = "olt"
  /\ Goto(c, "heal")
  /\ UNCHANGED <<row, copy, clicks, rebooted, sincePoll, late, undone>>

-----------------------------------------------------------------------------
(* Applies, other savers, faults *)

\* networkVlansApplyOnu, which reaches its reboots and then ...
ApplyBegins(c) ==
  /\ pc[c] = "idle"
  /\ Goto(c, "heal")
  /\ UNCHANGED <<row, copy, clicks, rebooted, sincePoll, late, undone>>

\* ... markPostProvisionVerify: a new cycle, without modelPrep, unless the ONU is in manual
\* mode or has no WAN address.
ApplyMarks(c) ==
  /\ pc[c] = "heal"
  /\ BeginsCycle
  /\ Goto(c, "idle")
  /\ UNCHANGED clicks

ApplyMarksNothing(c) ==
  /\ pc[c] = "heal"
  /\ Goto(c, "idle")
  /\ UNCHANGED <<row, copy, clicks, rebooted, sincePoll, late, undone>>

\* Saves of the whole row by plan and DBA checks, edits, onProgress, provisionMode ...
SaverReads(c) ==
  /\ pc[c] = "idle"
  /\ Reads(c)
  /\ Goto(c, "saving")
  /\ UNCHANGED <<row, clicks, rebooted, sincePoll, late, undone>>

SaverSaves(c) ==
  /\ pc[c] = "saving"
  /\ Saves(copy[c])
  /\ Goto(c, "idle")
  /\ UNCHANGED <<copy, clicks, rebooted, sincePoll, late>>

\* A call throws or the process restarts.
Dies(c) ==
  /\ MayDie /\ pc[c] # "idle"
  /\ Goto(c, "idle")
  /\ UNCHANGED <<row, copy, clicks, rebooted, sincePoll, late, undone>>

TimePasses ==
  /\ row' = [row EXCEPT !.last = Older(@)]
  /\ copy' = [h \in Holders |-> [copy[h] EXCEPT !.last = Older(@)]]
  /\ sincePoll' = Older(sincePoll)
  /\ UNCHANGED <<pc, clicks, rebooted, late, undone>>

Next ==
  \/ Start \/ CheckBegins \/ HealReads \/ AdoptSaves \/ HealReadsAgain \/ HealReturns
  \/ VerdictRead \/ VerdictSave
  \/ \E c \in Applies \cup {Check} :
       Asks(c) \/ Reboots(c) \/ RebootsUnnoted(c) \/ RebootFails(c)
  \/ \E c \in Applies : ApplyBegins(c) \/ ApplyMarks(c) \/ ApplyMarksNothing(c)
  \/ \E c \in Savers : SaverReads(c) \/ SaverSaves(c)
  \/ \E c \in Callers : Dies(c)
  \/ TimePasses

Spec == Init /\ [][Next]_vars

-----------------------------------------------------------------------------
(* Properties *)

\* Types: no row counts more reboots than the poller's cap and one for each of the applies'.
TypeOK ==
  /\ row \in Row /\ copy \in [Holders -> Row]
  /\ pc \in [Callers -> {"idle", "read", "adopt", "reread", "heal", "olt", "judge",
                         "verdict", "saving"}]
  /\ clicks \in 0 .. MaxClicks
  /\ rebooted \in Nat /\ sincePoll \in Ages /\ late \in Nat /\ undone \in Nat

\* "El verificador automatico (poller) reinicia como maximo MODEL_PREP_MAX_REBOOTS veces"
\* is more than the code keeps: its own save after a heal may forget the reboot.  Each reboot
\* beyond the cap has its cause in one that was not noted, or in a note missing in a copy of
\* the row that was saved later; either costs one reboot and no more, whoever dies, applies
\* or begins a cycle.
CapBound == rebooted <= MaxReboots + late + undone

\* "y respeta MODEL_PREP_MIN_GAP_MS entre reinicios": a check that read a row which knows
\* of the last reboot of the cycle keeps the gap, however many earlier ones were forgotten.
GapKept ==
  [][rebooted' > rebooted /\ ~copy[Check].stale =>
       sincePoll = Never \/ sincePoll >= MinGap]_vars
=============================================================================
