--------------------------- MODULE RebootCapProofs ---------------------------
(***************************************************************************)
(* Theorems about RebootCap, for any applies, savers, caps, gaps and       *)
(* bounds: what answers that come late and saves of rows read earlier can  *)
(* and cannot do to the reboots that checks order.                         *)
(***************************************************************************)
EXTENDS RebootCap, TLAPS

-----------------------------------------------------------------------------
(* The invariants *)

\* No row, stored or in memory, counts more reboots than checks may order and applies
\* asked for; what is about to be ordered still fits.
CountsBounded ==
  /\ row.reboots <= MaxReboots + clicks
  /\ \A h \in Holders : copy[h].reboots <= MaxReboots + clicks
  /\ \A c \in Applies : pc[c] = "olt" => copy[c].reboots < MaxReboots + clicks
  /\ pc[Check] = "olt" => copy[Check].reboots < MaxReboots

Inv == TypeOK /\ CountsBounded

\* The count of a row accounts for the reboots of checks, together with those it misses and
\* those that were never noted or forgotten.
Accounts(r) == rebooted <= r.reboots + r.missed + late + undone

CapParts ==
  /\ row.missed = 0
  /\ Accounts(row)
  /\ \A h \in Holding : Accounts(copy[h])
  /\ pc[Check] = "olt" => copy[Check].missed = 0
  /\ CapBound

CapInv == Inv /\ CapParts

\* A row that is not stale knows of the last reboot by a check.
Aware(r) == ~r.stale /\ sincePoll # Never => r.last # Never /\ r.last <= sincePoll

GapParts ==
  /\ Aware(row)
  /\ \A h \in Holding : Aware(copy[h])
  /\ pc[Check] = "olt" /\ ~copy[Check].stale => sincePoll = Never \/ sincePoll >= MinGap

GapInv == Inv /\ GapParts

-----------------------------------------------------------------------------
(* Facts about ages and rows *)

LEMMA AgesAreAges ==
  /\ 0 \in Ages /\ Never \in Ages /\ 0 # Never
  /\ \A a \in Ages : a # Never => a \in Nat /\ a <= MinGap
  /\ \A a \in Ages : /\ Older(a) \in Ages
                     /\ Older(a) = Never <=> a = Never
  /\ \A a, b \in Ages : a # Never /\ b # Never /\ a <= b => Older(a) <= Older(b)
  /\ \A a \in Ages : a # Never /\ a >= MinGap => Older(a) >= MinGap
<1>1. Never \notin Nat /\ MinGap \in Nat \ {0}
  BY RebootCapAssumption
<1>2. 0 \in 0 .. MinGap
  BY <1>1
<1>3. \A a \in Ages : a # Never => a \in Nat /\ a <= MinGap
  BY <1>1 DEF Ages
<1>4. \A a \in Ages : Older(a) \in Ages /\ (Older(a) = Never <=> a = Never)
  BY <1>1 DEF Ages, Older
<1>5. \A a, b \in Ages : a # Never /\ b # Never /\ a <= b => Older(a) <= Older(b)
  BY <1>1 DEF Ages, Older
<1>6. \A a \in Ages : a # Never /\ a >= MinGap => Older(a) >= MinGap
  BY <1>1 DEF Ages, Older
<1> QED
  BY <1>1, <1>2, <1>3, <1>4, <1>5, <1>6 DEF Ages

LEMMA NewCycleIsRow == NewCycle \in Row
<1>1. 0 \in 0 .. MaxReboots + MaxClicks
  BY RebootCapAssumption
<1> QED
  BY <1>1, AgesAreAges DEF NewCycle, Row

LEMMA RowFields ==
  ASSUME NEW r \in Row
  PROVE  /\ r.last \in Ages /\ r.reboots \in Nat /\ r.reboots <= MaxReboots + MaxClicks
         /\ r.missed \in Nat /\ r.stale \in BOOLEAN
  BY RebootCapAssumption DEF Row

LEMMA OlderRow ==
  ASSUME NEW r \in Row
  PROVE  /\ [r EXCEPT !.last = Older(@)] \in Row
         /\ [r EXCEPT !.last = Older(@)].reboots = r.reboots
         /\ [r EXCEPT !.last = Older(@)].missed = r.missed
         /\ [r EXCEPT !.last = Older(@)].stale = r.stale
         /\ [r EXCEPT !.last = Older(@)].last = Older(r.last)
<1>1. Older(r.last) \in Ages
  BY AgesAreAges, RowFields
<1> QED
  BY <1>1 DEF Row

LEMMA NotedRow ==
  ASSUME NEW r \in Row, r.reboots < MaxReboots + MaxClicks
  PROVE  /\ Noted(r) \in Row /\ Noted(r).reboots = r.reboots + 1 /\ Noted(r).last = 0
         /\ Noted(r).missed = r.missed /\ Noted(r).stale = FALSE
<1>1. r.reboots + 1 \in 0 .. MaxReboots + MaxClicks /\ 0 \in Ages
  BY RebootCapAssumption, RowFields, AgesAreAges
<1> QED
  BY <1>1 DEF Noted, Row

LEMMA SavedRow ==
  ASSUME NEW r \in Row, Saves(r)
  PROVE  /\ row' \in Row /\ row'.reboots = r.reboots /\ row'.last = r.last
         /\ row'.stale = r.stale /\ row'.missed = 0 /\ undone' = undone + r.missed
  BY DEF Saves, Row

LEMMA TheCallers ==
  /\ Check \in Callers /\ Check \notin Applies \cup Savers /\ Entity \notin Callers
  /\ Applies \subseteq Callers /\ Savers \subseteq Callers /\ Callers \subseteq Holders
  /\ Entity \in Holders /\ Applies \cap Savers = {}
  BY RebootCapAssumption DEF Check, Entity, Callers, Holders

LEMMA HoldingHolds == Holding \subseteq Holders
  BY DEF Holding, Holders

-----------------------------------------------------------------------------
(* The kinds of steps *)

Rest == <<row, rebooted, sincePoll, late, undone>>

\* Nothing is read or saved, and nobody new waits for the OLT.
Quietly ==
  /\ UNCHANGED <<Rest, copy>>
  /\ clicks' \in {clicks, clicks + 1} /\ clicks' <= MaxClicks
  /\ Holding' \subseteq Holding
  /\ \A c \in Callers : pc'[c] = "olt" => pc[c] = "olt"

\* h reads the row; it may go on to the OLT if it is allowed to.
ReadBy(h) ==
  /\ Reads(h)
  /\ UNCHANGED Rest
  /\ Holding' \subseteq Holding \cup {h}
  /\ \A c \in Callers : pc'[c] = "olt" =>
       \/ c # h /\ pc[c] = "olt"
       \/ c = h /\ Allows(row, Forced(c)) /\ (c # Check => clicks' = clicks + 1)
  /\ clicks' \in {clicks, clicks + 1} /\ clicks' <= MaxClicks

\* The row is saved as h has it, with one more reboot perhaps if h is an apply.
SavedBy(h) ==
  /\ h \in Holding
  /\ \/ Saves(copy[h])
     \/ Saves(Noted(copy[h])) /\ h \in Applies /\ pc[h] = "olt"
  /\ UNCHANGED <<copy, clicks, rebooted, sincePoll, late>>
  /\ Holding' \subseteq Holding
  /\ \A c \in Callers : pc'[c] = "olt" => pc[c] = "olt"

Begun ==
  /\ BeginsCycle
  /\ UNCHANGED clicks
  /\ \A c \in Callers : pc'[c] = "olt" => pc[c] = "olt"

Kind == \/ Quietly \/ (\E h \in Holders : ReadBy(h)) \/ (\E h \in Holders : SavedBy(h))
        \/ Begun \/ Reboots(Check) \/ RebootsUnnoted(Check) \/ TimePasses

\* Who holds the row after c has gone on.
LEMMA HoldingGoto ==
  ASSUME TypeOK, NEW c \in Callers, NEW label, Goto(c, label)
  PROVE  /\ \A d \in Callers : pc'[d] = IF d = c THEN label ELSE pc[d]
         /\ label \notin {"olt", "saving"} /\ c # Check => Holding' \subseteq Holding
         /\ label \in {"olt", "saving"} /\ c # Check => Holding' \subseteq Holding \cup {c}
         /\ c = Check /\ label \in {"idle", "read", "judge", "reread"} => Holding' \subseteq Holding
         /\ c = Check /\ label \in {"adopt", "heal", "verdict"} => Holding' \subseteq Holding \cup {Entity}
         /\ c = Check /\ label = "heal" /\ pc[Check] = "olt" => Holding' \subseteq Holding
         /\ c = Check /\ label = "olt" /\ pc[Check] = "heal" => Holding' \subseteq Holding \cup {Check}
<1>1. pc \in [Callers -> {"idle", "read", "adopt", "reread", "heal", "olt", "judge",
                          "verdict", "saving"}]
  BY DEF TypeOK
<1>2. \A d \in Callers : pc'[d] = IF d = c THEN label ELSE pc[d]
  BY <1>1 DEF Goto
<1>3. Holding' = {d \in Callers : pc'[d] \in {"olt", "saving"}}
                   \cup {h \in {Entity} : pc'[Check] \in {"adopt", "heal", "olt", "verdict"}}
  BY DEF Holding
<1>4. Check \in Callers
  BY TheCallers
<1> QED
  BY <1>2, <1>3, <1>4 DEF Holding

LEMMA Kinds == ASSUME TypeOK, Next PROVE Kind
<1> USE TheCallers DEF Rest
<1>1. Check \in Holders /\ Applies \subseteq Holders /\ Savers \subseteq Holders
  OBVIOUS
<1>2. clicks \in 0 .. MaxClicks /\ MaxClicks \in Nat
  BY RebootCapAssumption DEF TypeOK
<1>3. CASE Start
  BY <1>3 DEF Start, Kind, Begun
<1>4. CASE CheckBegins
  <2>1. PICK label \in {"read", "judge"} : Goto(Check, label)
    BY <1>4 DEF CheckBegins
  <2> QED
    BY <1>2, <1>4, <2>1, HoldingGoto DEF CheckBegins, Kind, Quietly
<1>5. CASE HealReads
  <2>1. PICK label \in {"adopt", "heal"} : Goto(Check, label)
    BY <1>5 DEF HealReads
  <2>2. ReadBy(Entity)
    BY <1>2, <1>5, <2>1, HoldingGoto DEF HealReads, ReadBy
  <2> QED
    BY <2>2 DEF Kind
<1>6. CASE AdoptSaves
  <2>1. Entity \in Holding
    BY <1>6 DEF AdoptSaves, Holding
  <2>2. SavedBy(Entity)
    BY <1>6, <2>1, HoldingGoto DEF AdoptSaves, SavedBy
  <2> QED
    BY <2>2 DEF Kind
<1>7. CASE HealReadsAgain
  <2>1. ReadBy(Entity)
    BY <1>2, <1>7, HoldingGoto DEF HealReadsAgain, ReadBy
  <2> QED
    BY <2>1 DEF Kind
<1>8. CASE HealReturns
  <2>1. Entity \in Holding
    BY <1>8 DEF HealReturns, Holding
  <2>2. SavedBy(Entity) \/ Quietly
    BY <1>2, <1>8, <2>1, HoldingGoto DEF HealReturns, SavedBy, Quietly
  <2> QED
    BY <2>2 DEF Kind
<1>9. CASE VerdictRead
  <2>1. ReadBy(Entity)
    BY <1>2, <1>9, HoldingGoto DEF VerdictRead, ReadBy
  <2> QED
    BY <2>1 DEF Kind
<1>10. CASE VerdictSave
  <2>1. Entity \in Holding
    BY <1>10 DEF VerdictSave, Holding
  <2>2. SavedBy(Entity)
    BY <1>10, <2>1, HoldingGoto DEF VerdictSave, Carries, SavedBy
  <2> QED
    BY <2>2 DEF Kind
<1>11. ASSUME NEW c \in Applies \cup {Check}, Asks(c) PROVE Kind
  <2>1. CASE Allows(row, Forced(c))
    <3>1. Reads(c) /\ Goto(c, "olt") /\ UNCHANGED Rest /\ pc[c] = "heal"
      BY <1>11, <2>1 DEF Asks
    <3>2. /\ clicks' \in {clicks, clicks + 1} /\ clicks' <= MaxClicks
          /\ c # Check => clicks' = clicks + 1
      BY <1>2, <1>11 DEF Asks, Forced
    <3>3. ReadBy(c)
      BY <2>1, <3>1, <3>2, HoldingGoto DEF ReadBy
    <3> QED
      BY <1>1, <3>3 DEF Kind
  <2>2. CASE ~Allows(row, Forced(c))
    <3>1. UNCHANGED <<Rest, copy, pc>>
      BY <1>11, <2>2 DEF Asks
    <3>2. Holding' = Holding
      BY <3>1 DEF Holding
    <3>3. clicks' \in {clicks, clicks + 1} /\ clicks' <= MaxClicks
      BY <1>2, <1>11 DEF Asks
    <3> QED
      BY <3>1, <3>2, <3>3 DEF Kind, Quietly
  <2> QED
    BY <2>1, <2>2
<1>12. ASSUME NEW c \in Applies \cup {Check}, Reboots(c) PROVE Kind
  <2>1. CASE c = Check
    BY <1>12, <2>1 DEF Kind
  <2>2. CASE c # Check
    <3>1. /\ Saves(Noted(copy[c])) /\ c \in Applies /\ pc[c] = "olt" /\ Goto(c, "heal")
          /\ UNCHANGED <<copy, clicks, rebooted, sincePoll, late>>
      BY <1>12, <2>2 DEF Reboots
    <3>2. c \in Holding
      BY <3>1 DEF Holding
    <3>3. SavedBy(c)
      BY <2>2, <3>1, <3>2, HoldingGoto DEF SavedBy
    <3> QED
      BY <1>1, <3>1, <3>3 DEF Kind
  <2> QED
    BY <2>1, <2>2
<1>13. ASSUME NEW c \in Applies \cup {Check}, RebootsUnnoted(c) PROVE Kind
  <2>1. CASE c = Check
    BY <1>13, <2>1 DEF Kind
  <2>2. CASE c # Check
    BY <1>2, <1>13, <2>2, HoldingGoto DEF RebootsUnnoted, Kind, Quietly
  <2> QED
    BY <2>1, <2>2
<1>14. ASSUME NEW c \in Callers, NEW label \in {"idle", "heal"}, Goto(c, label),
              label = "heal" => c # Check \/ pc[Check] = "olt",
              UNCHANGED <<Rest, copy, clicks>>
       PROVE  Kind
  BY <1>2, <1>14, HoldingGoto DEF Kind, Quietly
<1>15. ASSUME NEW c \in Applies \cup {Check}, RebootFails(c) PROVE Kind
  BY <1>14, <1>15 DEF RebootFails
<1>16. ASSUME NEW c \in Applies, ApplyBegins(c) \/ ApplyMarksNothing(c) PROVE Kind
  BY <1>14, <1>16 DEF ApplyBegins, ApplyMarksNothing
<1>17. ASSUME NEW c \in Applies, ApplyMarks(c) PROVE Kind
  BY <1>17, HoldingGoto DEF ApplyMarks, Kind, Begun
<1>18. ASSUME NEW c \in Savers, SaverReads(c) PROVE Kind
  <2>1. ReadBy(c)
    BY <1>2, <1>18, HoldingGoto DEF SaverReads, ReadBy
  <2> QED
    BY <1>1, <1>18, <2>1 DEF Kind
<1>19. ASSUME NEW c \in Savers, SaverSaves(c) PROVE Kind
  <2>1. c \in Holding
    BY <1>19 DEF SaverSaves, Holding
  <2>2. SavedBy(c)
    BY <1>19, <2>1, HoldingGoto DEF SaverSaves, SavedBy
  <2> QED
    BY <1>1, <1>19, <2>2 DEF Kind
<1>20. ASSUME NEW c \in Callers, Dies(c) PROVE Kind
  BY <1>14, <1>20 DEF Dies
<1>21. CASE TimePasses
  BY <1>21 DEF Kind
<1> QED
  BY <1>3, <1>4, <1>5, <1>6, <1>7, <1>8, <1>9, <1>10, <1>11, <1>12, <1>13, <1>15, <1>16,
     <1>17, <1>18, <1>19, <1>20, <1>21 DEF Next

-----------------------------------------------------------------------------
(* Types and counts *)

LEMMA InitInv == Init => Inv
<1> SUFFICES ASSUME Init PROVE Inv
  OBVIOUS
<1>1. /\ NewCycle \in Row /\ NewCycle.reboots = 0 /\ 0 <= MaxReboots + 0
      /\ 0 \in 0 .. MaxClicks
  BY NewCycleIsRow, RebootCapAssumption DEF NewCycle
<1>2. TypeOK
  BY <1>1, AgesAreAges DEF Init, TypeOK
<1>3. CountsBounded
  BY <1>1, TheCallers DEF Init, CountsBounded
<1> QED
  BY <1>2, <1>3 DEF Inv

Pcs == {"idle", "read", "adopt", "reread", "heal", "olt", "judge", "verdict", "saving"}

LEMMA PcsType == ASSUME TypeOK, Next PROVE pc' \in [Callers -> Pcs]
<1>1. pc \in [Callers -> Pcs]
  BY DEF TypeOK, Pcs
<1>2. \A c, label : label \in Pcs /\ Goto(c, label) => pc' \in [Callers -> Pcs]
  BY <1>1 DEF Goto
<1>3. pc' = pc \/ \E c, label : label \in Pcs /\ Goto(c, label)
  <2> USE DEF Pcs
  <2>1. CASE Start \/ TimePasses
    BY <2>1 DEF Start, TimePasses
  <2>2. CASE CheckBegins
    BY <2>2 DEF CheckBegins
  <2>3. CASE HealReads
    BY <2>3 DEF HealReads
  <2>4. CASE AdoptSaves \/ HealReadsAgain \/ HealReturns \/ VerdictRead \/ VerdictSave
    BY <2>4 DEF AdoptSaves, HealReadsAgain, HealReturns, VerdictRead, VerdictSave
  <2>5. ASSUME NEW c \in Callers, \/ Asks(c) \/ Reboots(c) \/ RebootsUnnoted(c) \/ RebootFails(c)
                                  \/ ApplyBegins(c) \/ ApplyMarks(c) \/ ApplyMarksNothing(c)
                                  \/ SaverReads(c) \/ SaverSaves(c) \/ Dies(c)
        PROVE  pc' = pc \/ \E d, label : label \in Pcs /\ Goto(d, label)
    BY <2>5 DEF Asks, Reboots, RebootsUnnoted, RebootFails, ApplyBegins, ApplyMarks,
                ApplyMarksNothing, SaverReads, SaverSaves, Dies
  <2> QED
    BY <2>1, <2>2, <2>3, <2>4, <2>5, TheCallers DEF Next
<1> QED
  BY <1>1, <1>2, <1>3

\* What the history adds to a copy changes neither its count nor its age.
LEMMA Remembered ==
  ASSUME NEW r \in Row, NEW x \in Row,
         \/ x = [r EXCEPT !.missed = @ + 1, !.stale = TRUE]
         \/ x = [r EXCEPT !.stale = TRUE]
         \/ x = [r EXCEPT !.missed = 0, !.stale = FALSE]
  PROVE  x.reboots = r.reboots /\ x.last = r.last
<1>1. r = [reboots |-> r.reboots, last |-> r.last, missed |-> r.missed, stale |-> r.stale]
  BY DEF Row
<1> QED
  BY <1>1

LEMMA MissesOneMore ==
  ASSUME NEW r \in Row, NEW x, x = [r EXCEPT !.missed = @ + 1, !.stale = TRUE]
  PROVE  x \in Row /\ x.missed = r.missed + 1 /\ x.stale = TRUE
<1>1. r.missed \in Nat /\ r.missed + 1 \in Nat
  BY RowFields
<1>2. x = [reboots |-> r.reboots, last |-> r.last, missed |-> r.missed + 1, stale |-> TRUE]
  BY DEF Row
<1>3. r.reboots \in 0 .. MaxReboots + MaxClicks /\ r.last \in Ages
  BY DEF Row
<1> QED
  BY <1>1, <1>2, <1>3 DEF Row

LEMMA GoesStale ==
  ASSUME NEW r \in Row, NEW x, x = [r EXCEPT !.stale = TRUE]
  PROVE  x \in Row /\ x.missed = r.missed /\ x.stale = TRUE
  BY DEF Row

LEMMA StartsAnew ==
  ASSUME NEW r \in Row, NEW x, x = [r EXCEPT !.missed = 0, !.stale = FALSE]
  PROVE  x \in Row /\ x.missed = 0 /\ x.stale = FALSE
  BY DEF Row

LEMMA CheckAllowed ==
  ASSUME Allows(row, Forced(Check)), TypeOK
  PROVE  row.reboots < MaxReboots /\ (row.last = Never \/ row.last >= MinGap)
  BY DEF Allows, Forced

LEMMA KindInv ==
  ASSUME Inv, Kind, pc' \in [Callers -> Pcs] PROVE Inv'
<1> USE RebootCapAssumption, TheCallers, AgesAreAges DEF Rest
<1>1. /\ row \in Row /\ copy \in [Holders -> Row] /\ clicks \in 0 .. MaxClicks
      /\ rebooted \in Nat /\ sincePoll \in Ages /\ late \in Nat /\ undone \in Nat
      /\ row.reboots \in Nat /\ row.reboots <= MaxReboots + clicks
      /\ \A h \in Holders : /\ copy[h].reboots \in Nat /\ copy[h].missed \in Nat
                            /\ copy[h].reboots <= MaxReboots + clicks
  BY RowFields DEF Inv, TypeOK, CountsBounded
<1>2. SUFFICES /\ row' \in Row /\ copy' \in [Holders -> Row] /\ clicks' \in 0 .. MaxClicks
               /\ rebooted' \in Nat /\ sincePoll' \in Ages /\ late' \in Nat /\ undone' \in Nat
               /\ CountsBounded'
  BY DEF Inv, TypeOK, Pcs
<1>3. CASE Quietly
  BY <1>1, <1>3 DEF Quietly, CountsBounded, Inv
<1>4. ASSUME NEW h \in Holders, ReadBy(h)
      PROVE  /\ row' \in Row /\ copy' \in [Holders -> Row] /\ clicks' \in 0 .. MaxClicks
             /\ rebooted' \in Nat /\ sincePoll' \in Ages /\ late' \in Nat /\ undone' \in Nat
             /\ CountsBounded'
  <2>1. /\ \A d \in Holders : copy'[d] = IF d = h THEN row ELSE copy[d]
        /\ copy' \in [Holders -> Row]
    BY <1>1, <1>4 DEF ReadBy, Reads
  <2>2. clicks' \in 0 .. MaxClicks /\ clicks' >= clicks /\ UNCHANGED Rest
    BY <1>1, <1>4 DEF ReadBy
  <2>3. pc'[Check] = "olt" => copy'[Check].reboots < MaxReboots
    BY <1>4, <2>1, CheckAllowed DEF ReadBy, Inv, CountsBounded
  <2>4. ASSUME NEW c \in Applies, pc'[c] = "olt"
        PROVE  copy'[c].reboots < MaxReboots + clicks'
    <3>1. CASE c # h /\ pc[c] = "olt"
      <4>1. copy'[c] = copy[c] /\ copy[c].reboots < MaxReboots + clicks
        BY <2>1, <2>4, <3>1 DEF Inv, CountsBounded
      <4> QED
        BY <1>1, <2>2, <4>1
    <3>2. CASE c = h /\ clicks' = clicks + 1
      BY <1>1, <2>1, <3>2
    <3> QED
      BY <1>4, <2>4, <3>1, <3>2 DEF ReadBy
  <2>5. \A d \in Holders : copy'[d].reboots <= MaxReboots + clicks'
    BY <1>1, <2>1, <2>2
  <2> QED
    BY <1>1, <2>1, <2>2, <2>3, <2>4, <2>5 DEF CountsBounded
<1>5. ASSUME NEW h \in Holders, SavedBy(h)
      PROVE  /\ row' \in Row /\ copy' \in [Holders -> Row] /\ clicks' \in 0 .. MaxClicks
             /\ rebooted' \in Nat /\ sincePoll' \in Ages /\ late' \in Nat /\ undone' \in Nat
             /\ CountsBounded'
  <2>1. PICK r \in Row : /\ Saves(r) /\ r.reboots <= MaxReboots + clicks
    <3>1. CASE Saves(copy[h])
      BY <1>1, <3>1
    <3>2. CASE Saves(Noted(copy[h])) /\ h \in Applies /\ pc[h] = "olt"
      <4>1. copy[h].reboots < MaxReboots + clicks
        BY <3>2 DEF Inv, CountsBounded
      <4>2. copy[h].reboots < MaxReboots + MaxClicks
        BY <1>1, <4>1
      <4>3. Noted(copy[h]) \in Row /\ Noted(copy[h]).reboots = copy[h].reboots + 1
        BY <1>1, <4>2, NotedRow
      <4> QED
        BY <1>1, <3>2, <4>1, <4>3
    <3> QED
      BY <1>5, <3>1, <3>2 DEF SavedBy
  <2>2. /\ row' \in Row /\ row'.reboots = r.reboots /\ undone' = undone + r.missed
        /\ r.missed \in Nat
    BY <2>1, SavedRow, RowFields
  <2> QED
    BY <1>1, <1>5, <2>1, <2>2 DEF SavedBy, CountsBounded, Inv
<1>6. CASE Begun
  <2>1. /\ row' = NewCycle /\ rebooted' = 0 /\ sincePoll' = Never /\ late' = 0 /\ undone' = 0
        /\ copy' = [h \in Holders |-> [copy[h] EXCEPT !.missed = 0, !.stale = FALSE]]
    BY <1>6 DEF Begun, BeginsCycle
  <2>2. row' \in Row /\ row'.reboots = 0
    BY <2>1, NewCycleIsRow DEF NewCycle
  <2>3. ASSUME NEW d \in Holders PROVE copy'[d] \in Row /\ copy'[d].reboots = copy[d].reboots
    BY <1>1, <2>1, StartsAnew, Remembered
  <2>4. copy' \in [Holders -> Row]
    BY <2>1, <2>3
  <2>5. clicks' = clicks /\ \A c \in Callers : pc'[c] = "olt" => pc[c] = "olt"
    BY <1>6 DEF Begun
  <2>6. row'.reboots <= MaxReboots + clicks'
    BY <1>1, <2>2, <2>5
  <2>7. CountsBounded'
    BY <2>3, <2>5, <2>6 DEF CountsBounded, Inv
  <2> QED
    BY <1>1, <2>1, <2>2, <2>4, <2>5, <2>7
<1>7. CASE Reboots(Check)
  <2>1. pc[Check] = "olt" /\ copy[Check] \in Row /\ copy[Check].reboots < MaxReboots
    BY <1>1, <1>7 DEF Reboots, Inv, CountsBounded
  <2>2. copy[Check].reboots < MaxReboots + MaxClicks
    BY <1>1, <2>1
  <2>3. /\ Noted(copy[Check]) \in Row /\ Noted(copy[Check]).reboots = copy[Check].reboots + 1
        /\ Noted(copy[Check]).missed = copy[Check].missed
    BY <2>1, <2>2, NotedRow
  <2>4. /\ row' \in Row /\ row'.reboots = copy[Check].reboots + 1
        /\ undone' = undone + copy[Check].missed
    BY <1>7, <2>3, SavedRow DEF Reboots
  <2>a. copy' = [h \in Holders |->
                   IF h = Check \/ h \notin Holding THEN copy[h]
                   ELSE [copy[h] EXCEPT !.missed = @ + 1, !.stale = TRUE]]
    BY <1>7 DEF Reboots
  <2>5. ASSUME NEW d \in Holders PROVE copy'[d] \in Row /\ copy'[d].reboots = copy[d].reboots
    <3>1. CASE d = Check \/ d \notin Holding
      <4>1. copy'[d] = copy[d]
        BY <2>a, <3>1
      <4> QED
        BY <1>1, <4>1
    <3>2. CASE ~(d = Check \/ d \notin Holding)
      <4>1. copy'[d] = [copy[d] EXCEPT !.missed = @ + 1, !.stale = TRUE]
        BY <2>a, <3>2
      <4>2. copy[d] \in Row /\ copy'[d] \in Row
        BY <1>1, <4>1, MissesOneMore
      <4> QED
        BY <4>1, <4>2, Remembered
    <3> QED
      BY <3>1, <3>2
  <2>6. copy' \in [Holders -> Row]
    BY <1>7, <2>5 DEF Reboots
  <2>7. /\ rebooted' = rebooted + 1 /\ sincePoll' = 0 /\ clicks' = clicks /\ late' = late
        /\ \A c \in Callers : pc'[c] = "olt" => pc[c] = "olt"
    BY <1>7 DEF Reboots, Goto, Inv, TypeOK
  <2> QED
    BY <1>1, <2>1, <2>4, <2>5, <2>6, <2>7 DEF CountsBounded, Inv
<1>8. CASE RebootsUnnoted(Check)
  <2>1. /\ row' = [row EXCEPT !.stale = TRUE] /\ rebooted' = rebooted + 1 /\ sincePoll' = 0
        /\ late' = late + 1 /\ clicks' = clicks /\ undone' = undone
        /\ copy' = [h \in Holders |-> [copy[h] EXCEPT !.stale = TRUE]]
        /\ \A c \in Callers : pc'[c] = "olt" => pc[c] = "olt"
    BY <1>8 DEF RebootsUnnoted, Goto, Inv, TypeOK
  <2>2. row' \in Row /\ row'.reboots = row.reboots
    BY <1>1, <2>1, GoesStale, Remembered
  <2>3. ASSUME NEW d \in Holders PROVE copy'[d] \in Row /\ copy'[d].reboots = copy[d].reboots
    <3>1. copy'[d] = [copy[d] EXCEPT !.stale = TRUE]
      BY <2>1
    <3>2. copy[d] \in Row /\ copy'[d] \in Row /\ copy'[d].missed = copy[d].missed
      BY <1>1, <3>1, GoesStale
    <3> QED
      BY <3>1, <3>2, Remembered
  <2>4. copy' \in [Holders -> Row]
    BY <2>1, <2>3
  <2> QED
    BY <1>1, <2>1, <2>2, <2>3, <2>4 DEF CountsBounded, Inv
<1>9. CASE TimePasses
  <2>1. /\ row' \in Row /\ row'.reboots = row.reboots /\ copy' \in [Holders -> Row]
        /\ \A d \in Holders : copy'[d].reboots = copy[d].reboots
        /\ sincePoll' \in Ages
    BY <1>1, <1>9, OlderRow DEF TimePasses
  <2> QED
    BY <1>1, <1>9, <2>1 DEF TimePasses, CountsBounded, Inv
<1> QED
  BY <1>3, <1>4, <1>5, <1>6, <1>7, <1>8, <1>9 DEF Kind

LEMMA NextInv == Inv /\ [Next]_vars => Inv'
<1> SUFFICES ASSUME Inv, [Next]_vars PROVE Inv'
  OBVIOUS
<1>1. CASE Next
  BY <1>1, Kinds, PcsType, KindInv DEF Inv
<1>2. CASE UNCHANGED vars
  BY <1>2 DEF vars, Inv, TypeOK, CountsBounded
<1> QED
  BY <1>1, <1>2

\* Every variable keeps its type, for any applies, savers and bounds.
THEOREM TypeCorrect == Spec => []TypeOK
<1>1. Inv => TypeOK
  BY DEF Inv
<1> QED
  BY <1>1, InitInv, NextInv, PTL DEF Spec

-----------------------------------------------------------------------------
(* The cap *)

LEMMA CapInit == Init => CapInv
<1> SUFFICES ASSUME Init PROVE CapParts
  BY InitInv DEF CapInv
<1>1. rebooted = 0 /\ late = 0 /\ undone = 0 /\ NewCycle.reboots = 0 /\ NewCycle.missed = 0
  BY DEF Init, NewCycle
<1>2. row = NewCycle /\ (\A h \in Holders : copy[h] = NewCycle) /\ pc[Check] # "olt"
  BY TheCallers DEF Init
<1> QED
  BY <1>1, <1>2, HoldingHolds, RebootCapAssumption DEF CapParts, Accounts, CapBound

LEMMA KindCap == ASSUME CapInv, Kind, Inv' PROVE CapParts'
<1> USE RebootCapAssumption, TheCallers DEF Rest
<1>1. /\ row \in Row /\ copy \in [Holders -> Row]
      /\ rebooted \in Nat /\ late \in Nat /\ undone \in Nat
      /\ row.reboots \in Nat /\ row.missed = 0
      /\ \A h \in Holders : copy[h].reboots \in Nat /\ copy[h].missed \in Nat
  BY RowFields DEF CapInv, CapParts, Inv, TypeOK
<1>2. Check \in Callers /\ Check \in Holders /\ Holding \subseteq Holders
  BY HoldingHolds
<1>3. CASE Quietly
  BY <1>2, <1>3 DEF Quietly, CapInv, CapParts, Accounts, CapBound
<1>4. ASSUME NEW h \in Holders, ReadBy(h) PROVE CapParts'
  <2>1. \A d \in Holders : copy'[d] = IF d = h THEN row ELSE copy[d]
    BY <1>1, <1>4 DEF ReadBy, Reads
  <2>2. UNCHANGED Rest /\ Holding' \subseteq Holding \cup {h}
    BY <1>4 DEF ReadBy
  <2>3. \A d \in Holding' : Accounts(copy[d])'
    BY <1>2, <2>1, <2>2 DEF CapInv, CapParts, Accounts
  <2>4. pc'[Check] = "olt" => copy'[Check].missed = 0
    BY <1>1, <1>2, <1>4, <2>1 DEF ReadBy, CapInv, CapParts
  <2> QED
    BY <2>2, <2>3, <2>4 DEF CapInv, CapParts, Accounts, CapBound
<1>5. ASSUME NEW h \in Holders, SavedBy(h) PROVE CapParts'
  <2>1. PICK r \in Row : Saves(r) /\ Accounts(r)
    <3>1. Accounts(copy[h]) /\ h \in Holding
      BY <1>5 DEF SavedBy, CapInv, CapParts
    <3>2. CASE Saves(copy[h])
      BY <1>1, <3>1, <3>2
    <3>3. CASE Saves(Noted(copy[h])) /\ h \in Applies /\ pc[h] = "olt"
      <4>1. copy[h].reboots < MaxReboots + clicks /\ clicks \in 0 .. MaxClicks
        BY <3>3 DEF CapInv, Inv, TypeOK, CountsBounded
      <4>2. copy[h].reboots < MaxReboots + MaxClicks
        BY <1>1, <4>1
      <4>3. /\ Noted(copy[h]) \in Row /\ Noted(copy[h]).reboots = copy[h].reboots + 1
            /\ Noted(copy[h]).missed = copy[h].missed
        BY <1>1, <4>2, NotedRow
      <4>4. Accounts(Noted(copy[h]))
        BY <1>1, <3>1, <4>3 DEF Accounts
      <4> QED
        BY <3>3, <4>3, <4>4
    <3> QED
      BY <1>5, <3>2, <3>3 DEF SavedBy
  <2>2. /\ row'.reboots = r.reboots /\ row'.missed = 0 /\ undone' = undone + r.missed
        /\ r.missed \in Nat /\ r.reboots \in Nat
    BY <2>1, SavedRow, RowFields
  <2>3. UNCHANGED <<copy, rebooted, late>> /\ Holding' \subseteq Holding
    BY <1>5 DEF SavedBy
  <2>4. Accounts(row)'
    BY <1>1, <2>1, <2>2, <2>3 DEF Accounts
  <2>5. \A d \in Holding' : Accounts(copy[d])'
    BY <1>1, <1>2, <2>2, <2>3 DEF Accounts, CapInv, CapParts
  <2>6. CapBound'
    BY <1>1, <2>2, <2>3 DEF CapBound, CapInv, CapParts
  <2> QED
    BY <1>2, <1>5, <2>2, <2>4, <2>5, <2>6 DEF SavedBy, CapInv, CapParts
<1>6. CASE Begun
  <2>1. /\ row' = NewCycle /\ rebooted' = 0 /\ late' = 0 /\ undone' = 0
        /\ \A d \in Holders : copy'[d] = [copy[d] EXCEPT !.missed = 0, !.stale = FALSE]
    BY <1>6 DEF Begun, BeginsCycle
  <2>2. ASSUME NEW d \in Holders PROVE copy'[d].missed = 0 /\ copy'[d].reboots \in Nat
    <3>1. copy'[d] = [copy[d] EXCEPT !.missed = 0, !.stale = FALSE]
      BY <2>1
    <3>2. copy[d] \in Row /\ copy'[d] \in Row /\ copy'[d].missed = 0
      BY <1>1, <3>1, StartsAnew
    <3>3. copy'[d].reboots = copy[d].reboots
      BY <3>1, <3>2, Remembered
    <3> QED
      BY <1>1, <3>2, <3>3
  <2>3. Holding' \subseteq Holders
    BY HoldingHolds DEF Holding
  <2>4. row'.missed = 0 /\ row'.reboots = 0
    BY <2>1 DEF NewCycle
  <2>5. Accounts(row)' /\ CapBound'
    <3>1. MaxReboots \in Nat /\ 0 <= MaxReboots + 0 + 0 /\ 0 <= 0 + 0 + 0 + 0
      OBVIOUS
    <3>2. Accounts(row)'
      BY <2>1, <2>4, <3>1 DEF Accounts
    <3>3. CapBound'
      BY <2>1, <3>1 DEF CapBound
    <3> QED
      BY <3>2, <3>3
  <2>6. ASSUME NEW d \in Holding' PROVE Accounts(copy[d])'
    <3>1. d \in Holders
      BY <2>3
    <3>2. 0 <= copy'[d].reboots + copy'[d].missed + 0 + 0
      BY <2>2, <3>1
    <3> QED
      BY <2>1, <3>2 DEF Accounts
  <2> QED
    BY <1>2, <2>2, <2>4, <2>5, <2>6 DEF CapParts
<1>7. ASSUME Goto(Check, "heal"), pc[Check] = "olt"
      PROVE  Holding' \subseteq Holding \ {Check} /\ pc'[Check] = "heal" /\ Check \in Holding
  <2>1. \A d \in Callers : pc'[d] = IF d = Check THEN "heal" ELSE pc[d]
    BY <1>7 DEF Goto, CapInv, Inv, TypeOK
  <2>2. Check # Entity
    OBVIOUS
  <2> QED
    BY <1>2, <1>7, <2>1, <2>2 DEF Holding
<1>8. CASE Reboots(Check)
  <2>1. /\ pc[Check] = "olt" /\ copy[Check].missed = 0 /\ copy[Check].reboots < MaxReboots
        /\ Accounts(copy[Check]) /\ clicks \in 0 .. MaxClicks
    BY <1>7, <1>8 DEF Reboots, CapInv, CapParts, Inv, TypeOK, CountsBounded
  <2>2. copy[Check].reboots < MaxReboots + MaxClicks
    BY <1>1, <1>2, <2>1
  <2>3. /\ Noted(copy[Check]) \in Row /\ Noted(copy[Check]).reboots = copy[Check].reboots + 1
        /\ Noted(copy[Check]).missed = 0
    BY <1>1, <1>2, <2>1, <2>2, NotedRow
  <2>a. Saves(Noted(copy[Check])) /\ rebooted' = rebooted + 1 /\ late' = late
    BY <1>8 DEF Reboots
  <2>b. /\ row'.reboots = copy[Check].reboots + 1 /\ row'.missed = 0
        /\ undone' = undone + 0
    BY <2>3, <2>a, SavedRow
  <2>4. /\ row'.reboots = copy[Check].reboots + 1 /\ row'.missed = 0 /\ undone' = undone
        /\ rebooted' = rebooted + 1 /\ late' = late
    BY <1>1, <2>a, <2>b
  <2>5. ASSUME NEW d \in Holding \ {Check}
        PROVE  copy'[d].reboots = copy[d].reboots /\ copy'[d].missed = copy[d].missed + 1
    <3>1. copy'[d] = [copy[d] EXCEPT !.missed = @ + 1, !.stale = TRUE]
      BY <1>2, <1>8 DEF Reboots
    <3> QED
      BY <1>1, <1>2, <3>1, MissesOneMore, Remembered
  <2>6. ASSUME NEW d \in Holding' PROVE Accounts(copy[d])'
    <3>1. d \in Holding \ {Check} /\ d \in Holders
      BY <1>2, <1>7, <1>8 DEF Reboots
    <3>2. rebooted <= copy[d].reboots + copy[d].missed + late + undone
      BY <3>1 DEF Accounts, CapInv, CapParts
    <3>3. rebooted + 1 <= copy[d].reboots + (copy[d].missed + 1) + late + undone
      BY <1>1, <3>1, <3>2
    <3> QED
      BY <2>4, <2>5, <3>1, <3>3 DEF Accounts
  <2>7. Accounts(row)'
    BY <1>1, <1>2, <2>1, <2>4 DEF Accounts
  <2>8. CapBound'
    BY <1>1, <1>2, <2>1, <2>4 DEF Accounts, CapBound
  <2>9. pc'[Check] # "olt"
    BY <1>7, <1>8 DEF Reboots
  <2> QED
    BY <2>4, <2>6, <2>7, <2>8, <2>9 DEF CapParts
<1>9. CASE RebootsUnnoted(Check)
  <2>1. /\ row' = [row EXCEPT !.stale = TRUE] /\ rebooted' = rebooted + 1
        /\ late' = late + 1 /\ undone' = undone
        /\ copy' = [h \in Holders |-> [copy[h] EXCEPT !.stale = TRUE]]
    BY <1>9 DEF RebootsUnnoted
  <2>a. row'.reboots = row.reboots /\ row'.missed = 0
    BY <1>1, <2>1, GoesStale, Remembered
  <2>b. ASSUME NEW d \in Holders
        PROVE  copy'[d].reboots = copy[d].reboots /\ copy'[d].missed = copy[d].missed
    <3>1. copy'[d] = [copy[d] EXCEPT !.stale = TRUE]
      BY <2>1
    <3>2. copy[d] \in Row /\ copy'[d] \in Row /\ copy'[d].missed = copy[d].missed
      BY <1>1, <3>1, GoesStale
    <3> QED
      BY <3>1, <3>2, Remembered
  <2>2. /\ row'.reboots = row.reboots /\ row'.missed = 0
        /\ \A d \in Holders : /\ copy'[d].reboots = copy[d].reboots
                              /\ copy'[d].missed = copy[d].missed
    BY <2>a, <2>b
  <2>3. pc'[Check] # "olt" /\ Holding' \subseteq Holding
    BY <1>7, <1>9 DEF RebootsUnnoted
  <2>4. Accounts(row)' /\ CapBound'
    BY <1>1, <2>1, <2>2 DEF Accounts, CapBound, CapInv, CapParts
  <2>5. ASSUME NEW d \in Holding' PROVE Accounts(copy[d])'
    <3>1. d \in Holding /\ d \in Holders
      BY <1>2, <2>3
    <3>2. rebooted <= copy[d].reboots + copy[d].missed + late + undone
      BY <3>1 DEF Accounts, CapInv, CapParts
    <3>3. rebooted + 1 <= copy[d].reboots + copy[d].missed + (late + 1) + undone
      BY <1>1, <3>1, <3>2
    <3> QED
      BY <2>1, <2>2, <3>1, <3>3 DEF Accounts
  <2> QED
    BY <2>2, <2>3, <2>4, <2>5 DEF CapParts
<1>10. CASE TimePasses
  <2>1. /\ UNCHANGED <<pc, rebooted, late, undone>> /\ Holding' = Holding
        /\ row' = [row EXCEPT !.last = Older(@)]
        /\ \A d \in Holders : copy'[d] = [copy[d] EXCEPT !.last = Older(@)]
    BY <1>10 DEF TimePasses, Holding
  <2>2. /\ row'.reboots = row.reboots /\ row'.missed = row.missed
        /\ \A d \in Holders : /\ copy'[d].reboots = copy[d].reboots
                              /\ copy'[d].missed = copy[d].missed
    BY <1>1, <2>1, OlderRow
  <2> QED
    BY <1>1, <1>2, <2>1, <2>2 DEF Accounts, CapBound, CapInv, CapParts
<1> QED
  BY <1>3, <1>4, <1>5, <1>6, <1>8, <1>9, <1>10 DEF Kind

LEMMA CapNext == CapInv /\ [Next]_vars => CapInv'
<1> SUFFICES ASSUME CapInv, [Next]_vars PROVE CapParts'
  BY NextInv DEF CapInv
<1>1. CASE Next
  BY <1>1, Kinds, KindCap, NextInv DEF CapInv, Inv
<1>2. CASE UNCHANGED vars
  BY <1>2 DEF vars, CapInv, CapParts, Accounts, CapBound, Holding
<1> QED
  BY <1>1, <1>2

\* Whatever checks, applies, savers, failures and new cycles there are: each reboot beyond the
\* cap is due to one that was not noted or to a note that a saved copy did not have.
THEOREM CapHolds == Spec => []CapBound
<1>1. CapInv => CapBound
  BY DEF CapInv, CapParts
<1> QED
  BY <1>1, CapInit, CapNext, PTL DEF Spec

-----------------------------------------------------------------------------
(* The gap *)

LEMMA GapInit == Init => GapInv
<1> SUFFICES ASSUME Init PROVE GapParts
  BY InitInv DEF GapInv
<1> QED
  BY DEF Init, GapParts, Aware

LEMMA KindGap == ASSUME GapInv, Kind, Inv' PROVE GapParts'
<1> USE RebootCapAssumption, TheCallers, AgesAreAges DEF Rest
<1>1. /\ row \in Row /\ copy \in [Holders -> Row] /\ sincePoll \in Ages
      /\ row.last \in Ages /\ row.stale \in BOOLEAN
      /\ \A h \in Holders : copy[h].last \in Ages /\ copy[h].stale \in BOOLEAN
  BY RowFields DEF GapInv, Inv, TypeOK
<1>2. Check \in Callers /\ Check \in Holders /\ Holding \subseteq Holders
  BY HoldingHolds
<1>3. CASE Quietly
  BY <1>2, <1>3 DEF Quietly, GapInv, GapParts, Aware
<1>4. ASSUME NEW h \in Holders, ReadBy(h) PROVE GapParts'
  <2>1. \A d \in Holders : copy'[d] = IF d = h THEN row ELSE copy[d]
    BY <1>1, <1>4 DEF ReadBy, Reads
  <2>2. UNCHANGED Rest /\ Holding' \subseteq Holding \cup {h}
    BY <1>4 DEF ReadBy
  <2>3. \A d \in Holding' : Aware(copy[d])'
    BY <1>2, <2>1, <2>2 DEF GapInv, GapParts, Aware
  <2>4. ASSUME pc'[Check] = "olt", ~copy'[Check].stale
        PROVE  sincePoll = Never \/ sincePoll >= MinGap
    <3>1. CASE Check # h /\ pc[Check] = "olt"
      BY <1>2, <2>1, <2>4, <3>1 DEF GapInv, GapParts
    <3>2. CASE Check = h /\ Allows(row, Forced(Check))
      <4>1. (row.last = Never \/ row.last >= MinGap) /\ ~row.stale /\ Aware(row)
        BY <1>2, <2>1, <2>4, <3>2, CheckAllowed DEF GapInv, GapParts, Inv
      <4> QED
        BY <1>1, <4>1 DEF Aware
    <3> QED
      BY <1>2, <1>4, <2>4, <3>1, <3>2 DEF ReadBy
  <2> QED
    BY <2>2, <2>3, <2>4 DEF GapInv, GapParts, Aware
<1>5. ASSUME NEW h \in Holders, SavedBy(h) PROVE GapParts'
  <2>1. PICK r \in Row : Saves(r) /\ Aware(r)
    <3>1. Aware(copy[h]) /\ h \in Holding
      BY <1>5 DEF SavedBy, GapInv, GapParts
    <3>2. CASE Saves(copy[h])
      BY <1>1, <3>1, <3>2
    <3>3. CASE Saves(Noted(copy[h])) /\ h \in Applies /\ pc[h] = "olt"
      <4>1. /\ copy[h].reboots < MaxReboots + clicks /\ clicks \in 0 .. MaxClicks
            /\ copy[h].reboots \in Nat
        BY <3>3, RowFields DEF GapInv, Inv, TypeOK, CountsBounded
      <4>2. copy[h].reboots < MaxReboots + MaxClicks
        BY <4>1
      <4>3. Noted(copy[h]) \in Row /\ Noted(copy[h]).last = 0
        BY <1>1, <4>2, NotedRow
      <4>4. Aware(Noted(copy[h]))
        BY <1>1, <4>3 DEF Aware
      <4> QED
        BY <3>3, <4>3, <4>4
    <3> QED
      BY <1>5, <3>2, <3>3 DEF SavedBy
  <2>2. row'.last = r.last /\ row'.stale = r.stale
    BY <2>1, SavedRow
  <2>3. UNCHANGED <<copy, sincePoll>> /\ Holding' \subseteq Holding
    BY <1>5 DEF SavedBy
  <2> QED
    BY <1>2, <1>5, <2>1, <2>2, <2>3 DEF SavedBy, Aware, GapInv, GapParts
<1>6. CASE Begun
  <2>1. sincePoll' = Never
    BY <1>6 DEF Begun, BeginsCycle
  <2> QED
    BY <2>1 DEF GapParts, Aware
<1>7. ASSUME Goto(Check, "heal"), pc[Check] = "olt"
      PROVE  Holding' \subseteq Holding \ {Check} /\ pc'[Check] = "heal" /\ Check \in Holding
  <2>1. \A d \in Callers : pc'[d] = IF d = Check THEN "heal" ELSE pc[d]
    BY <1>7 DEF Goto, GapInv, Inv, TypeOK
  <2>2. Check # Entity
    OBVIOUS
  <2> QED
    BY <1>2, <1>7, <2>1, <2>2 DEF Holding
<1>8. CASE Reboots(Check)
  <2>1. /\ pc[Check] = "olt" /\ copy[Check].reboots < MaxReboots /\ clicks \in 0 .. MaxClicks
        /\ copy[Check].reboots \in Nat
    BY <1>2, <1>8, RowFields DEF Reboots, GapInv, Inv, TypeOK, CountsBounded
  <2>2. copy[Check].reboots < MaxReboots + MaxClicks
    BY <2>1
  <2>3. Noted(copy[Check]) \in Row /\ Noted(copy[Check]).last = 0
    BY <1>1, <1>2, <2>2, NotedRow
  <2>4. row'.last = 0 /\ sincePoll' = 0
    BY <1>8, <2>3, SavedRow DEF Reboots
  <2>a. copy' = [h \in Holders |->
                   IF h = Check \/ h \notin Holding THEN copy[h]
                   ELSE [copy[h] EXCEPT !.missed = @ + 1, !.stale = TRUE]]
    BY <1>8 DEF Reboots
  <2>5. ASSUME NEW d \in Holding \ {Check} PROVE copy'[d].stale = TRUE
    <3>1. copy'[d] = [copy[d] EXCEPT !.missed = @ + 1, !.stale = TRUE]
      BY <1>2, <2>a
    <3> QED
      BY <1>1, <1>2, <3>1, MissesOneMore
  <2>6. \A d \in Holding' : Aware(copy[d])'
    BY <1>7, <1>8, <2>5 DEF Reboots, Aware
  <2>7. Aware(row)'
    BY <2>4 DEF Aware
  <2> QED
    BY <1>7, <1>8, <2>6, <2>7 DEF Reboots, GapParts
<1>9. CASE RebootsUnnoted(Check)
  <2>1. /\ row' = [row EXCEPT !.stale = TRUE]
        /\ copy' = [h \in Holders |-> [copy[h] EXCEPT !.stale = TRUE]]
    BY <1>9 DEF RebootsUnnoted
  <2>a. row'.stale = TRUE
    BY <1>1, <2>1, GoesStale
  <2>b. ASSUME NEW d \in Holders PROVE copy'[d].stale = TRUE
    <3>1. copy'[d] = [copy[d] EXCEPT !.stale = TRUE]
      BY <2>1
    <3> QED
      BY <1>1, <3>1, GoesStale
  <2>2. row'.stale = TRUE /\ \A d \in Holders : copy'[d].stale = TRUE
    BY <2>a, <2>b
  <2>3. pc'[Check] # "olt" /\ Holding' \subseteq Holders
    BY <1>2, <1>7, <1>9 DEF RebootsUnnoted
  <2> QED
    BY <2>2, <2>3 DEF Aware, GapParts
<1>10. CASE TimePasses
  <2>1. /\ UNCHANGED pc /\ Holding' = Holding /\ sincePoll' = Older(sincePoll)
        /\ row' = [row EXCEPT !.last = Older(@)]
        /\ \A d \in Holders : copy'[d] = [copy[d] EXCEPT !.last = Older(@)]
    BY <1>10 DEF TimePasses, Holding
  <2>2. /\ row'.last = Older(row.last) /\ row'.stale = row.stale
        /\ \A d \in Holders : /\ copy'[d].last = Older(copy[d].last)
                              /\ copy'[d].stale = copy[d].stale
    BY <1>1, <2>1, OlderRow
  <2>3. ASSUME NEW a \in Ages, sincePoll # Never => a # Never /\ a <= sincePoll
        PROVE  sincePoll' # Never => Older(a) # Never /\ Older(a) <= sincePoll'
    BY <1>1, <2>1, <2>3
  <2>4. Aware(row)'
    BY <1>1, <2>2, <2>3 DEF Aware, GapInv, GapParts
  <2>5. \A d \in Holding' : Aware(copy[d])'
    BY <1>1, <1>2, <2>1, <2>2, <2>3 DEF Aware, GapInv, GapParts
  <2>6. pc'[Check] = "olt" /\ ~copy'[Check].stale => sincePoll' = Never \/ sincePoll' >= MinGap
    BY <1>1, <1>2, <2>1, <2>2 DEF GapInv, GapParts
  <2> QED
    BY <2>4, <2>5, <2>6 DEF GapParts
<1> QED
  BY <1>3, <1>4, <1>5, <1>6, <1>8, <1>9, <1>10 DEF Kind

LEMMA GapNext == GapInv /\ [Next]_vars => GapInv'
<1> SUFFICES ASSUME GapInv, [Next]_vars PROVE GapParts'
  BY NextInv DEF GapInv
<1>1. CASE Next
  BY <1>1, Kinds, KindGap, NextInv DEF GapInv, Inv
<1>2. CASE UNCHANGED vars
  BY <1>2 DEF vars, GapInv, GapParts, Aware, Holding
<1> QED
  BY <1>1, <1>2

\* A check whose copy of the row knows of the last reboot of the cycle keeps the gap, whatever
\* else was forgotten.
THEOREM GapHolds == Spec => GapKept
<1>1. ASSUME GapInv, [Next]_vars, rebooted' > rebooted, ~copy[Check].stale
      PROVE  sincePoll = Never \/ sincePoll >= MinGap
  <2>1. rebooted \in Nat
    BY <1>1 DEF GapInv, Inv, TypeOK
  <2>2. CASE Next
    <3>1. Reboots(Check) \/ RebootsUnnoted(Check)
      <4>1. Kind
        BY <1>1, <2>2, Kinds DEF GapInv, Inv
      <4>2. CASE Quietly \/ (\E h \in Holders : ReadBy(h)) \/ (\E h \in Holders : SavedBy(h))
                 \/ TimePasses
        <5>1. rebooted' = rebooted
          BY <4>2 DEF Quietly, ReadBy, SavedBy, TimePasses, Rest
        <5> QED
          BY <1>1, <2>1, <5>1
      <4>3. CASE Begun
        <5>1. rebooted' = 0
          BY <4>3 DEF Begun, BeginsCycle
        <5> QED
          BY <1>1, <2>1, <5>1
      <4> QED
        BY <4>1, <4>2, <4>3 DEF Kind
    <3> QED
      BY <1>1, <3>1 DEF Reboots, RebootsUnnoted, GapInv, GapParts
  <2>3. CASE UNCHANGED vars
    BY <1>1, <2>1, <2>3 DEF vars
  <2> QED
    BY <1>1, <2>2, <2>3
<1>2. GapInv /\ [Next]_vars
        => [rebooted' > rebooted /\ ~copy[Check].stale =>
              sincePoll = Never \/ sincePoll >= MinGap]_vars
  BY <1>1
<1> QED
  BY <1>2, GapInit, GapNext, PTL DEF Spec, GapKept
=============================================================================
