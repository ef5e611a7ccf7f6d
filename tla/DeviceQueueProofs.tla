-------------------------- MODULE DeviceQueueProofs --------------------------
(***************************************************************************)
(* Theorems about DeviceQueue, for any callers, devices and priorities: no *)
(* waiting call is forgotten, and the three kinds of queue implement       *)
(* DeviceTurns.                                                            *)
(***************************************************************************)
EXTENDS DeviceQueue, WellFoundedInduction, SequenceTheorems, TLAPS

-----------------------------------------------------------------------------
(* Sequences without repetitions *)

In(q, e) == \E i \in DOMAIN q : q[i] = e

Distinct(q) == \A i, j \in DOMAIN q : q[i] = q[j] => i = j

\* e stands before c in q.
Precedes(q, e, c) == \E i, j \in DOMAIN q : i < j /\ q[i] = e /\ q[j] = c

\* r is q without its element at k.
Shorter(q, r, k) ==
  /\ Len(q) = Len(r) + 1
  /\ \A i \in DOMAIN r : r[i] = IF i < k THEN q[i] ELSE q[i + 1]

LEMMA LeastIndex ==
  ASSUME NEW S \in SUBSET Nat, S # {} PROVE \E i \in S : \A j \in S : i <= j
<1> DEFINE R == {p \in Nat \X Nat : p[1] < p[2]}
<1>1. IsWellFoundedOn(R, Nat)
  BY NatLessThanWellFounded DEF OpToRel
<1>2. PICK i \in S : \A j \in S : <<j, i>> \notin R
  <2> HIDE DEF R
  <2> QED
    BY <1>1, WFMin
<1>3. ASSUME NEW j \in S PROVE i <= j
  <2>1. <<j, i>> \in Nat \X Nat /\ ~ (j < i)
    BY <1>2
  <2> QED
    BY <2>1
<1> QED
  BY <1>3

\* Taking one element out of a sequence without repetitions.
LEMMA ShorterFacts ==
  ASSUME NEW S, NEW q \in Seq(S), NEW r \in Seq(S), NEW k \in 1 .. Len(q), Shorter(q, r, k),
         Distinct(q)
  PROVE  /\ Distinct(r)
         /\ \A e : In(r, e) <=> In(q, e) /\ e # q[k]
         /\ \A e, c : Precedes(r, e, c) <=> Precedes(q, e, c) /\ e # q[k] /\ c # q[k]
<1> DEFINE old(i) == IF i < k THEN i ELSE i + 1
           new(i) == IF i < k THEN i ELSE i - 1
<1>1. /\ DOMAIN q = 1 .. Len(q) /\ DOMAIN r = 1 .. Len(r)
      /\ Len(q) \in Nat /\ Len(r) \in Nat /\ Len(q) = Len(r) + 1 /\ k \in DOMAIN q
  BY DEF Shorter
<1>2. \A i \in DOMAIN r : old(i) \in DOMAIN q /\ old(i) # k /\ r[i] = q[old(i)]
  BY <1>1 DEF Shorter
<1>3. \A i \in DOMAIN q : i # k => new(i) \in DOMAIN r /\ r[new(i)] = q[i]
  BY <1>1 DEF Shorter
<1>4. \A i, j \in DOMAIN r : i < j <=> old(i) < old(j)
  BY <1>1
<1>5. \A i, j \in DOMAIN q : i # k /\ j # k => (i < j <=> new(i) < new(j))
  BY <1>1
<1>6. \A i, j \in DOMAIN r : old(i) = old(j) => i = j
  BY <1>1
<1> HIDE DEF old, new
<1>7. Distinct(r)
  BY <1>2, <1>6 DEF Distinct
<1>8. \A e : In(r, e) <=> In(q, e) /\ e # q[k]
  BY <1>1, <1>2, <1>3 DEF In, Distinct
<1>9. ASSUME NEW e, NEW c PROVE Precedes(r, e, c) <=> Precedes(q, e, c) /\ e # q[k] /\ c # q[k]
  <2>1. ASSUME Precedes(r, e, c) PROVE Precedes(q, e, c) /\ e # q[k] /\ c # q[k]
    BY <1>1, <1>2, <1>4, <2>1 DEF Precedes, Distinct
  <2>2. ASSUME Precedes(q, e, c), e # q[k], c # q[k] PROVE Precedes(r, e, c)
    BY <1>3, <1>5, <2>2 DEF Precedes
  <2> QED
    BY <2>1, <2>2
<1> QED
  BY <1>7, <1>8, <1>9

\* What one more element at k does, seen from the longer sequence.
LEMMA LongerFacts ==
  ASSUME NEW S, NEW q \in Seq(S), NEW r \in Seq(S), NEW k \in 1 .. Len(r), Shorter(r, q, k),
         Distinct(q), ~In(q, r[k])
  PROVE  /\ Distinct(r)
         /\ \A e : In(r, e) <=> In(q, e) \/ e = r[k]
         /\ \A e, c : e # r[k] /\ c # r[k] => (Precedes(r, e, c) <=> Precedes(q, e, c))
<1>1. /\ DOMAIN q = 1 .. Len(q) /\ DOMAIN r = 1 .. Len(r)
      /\ Len(q) \in Nat /\ Len(r) \in Nat /\ Len(r) = Len(q) + 1 /\ k \in DOMAIN r
  BY DEF Shorter
<1>2. Distinct(r)
  <2> SUFFICES ASSUME NEW i \in DOMAIN r, NEW j \in DOMAIN r, r[i] = r[j] PROVE i = j
    BY DEF Distinct
  <2> DEFINE new(n) == IF n < k THEN n ELSE n - 1
  <2>1. \A n \in DOMAIN r : n # k => new(n) \in DOMAIN q /\ q[new(n)] = r[n]
    BY <1>1 DEF Shorter
  <2>2. \A n \in DOMAIN r : n # k => r[n] # r[k]
    BY <2>1 DEF In
  <2>3. i # k /\ j # k => new(i) = new(j)
    BY <2>1 DEF Distinct
  <2> QED
    BY <1>1, <2>2, <2>3
<1>3. /\ \A e : In(q, e) <=> In(r, e) /\ e # r[k]
      /\ \A e, c : Precedes(q, e, c) <=> Precedes(r, e, c) /\ e # r[k] /\ c # r[k]
  BY <1>2, ShorterFacts
<1> QED
  BY <1>1, <1>2, <1>3 DEF In

LEMMA AppendFacts ==
  ASSUME NEW S, NEW q \in Seq(S), NEW c \in S, Distinct(q), ~In(q, c)
  PROVE  /\ Append(q, c) \in Seq(S) /\ Append(q, c) # <<>> /\ Distinct(Append(q, c))
         /\ \A e : In(Append(q, c), e) <=> In(q, e) \/ e = c
         /\ \A e, x : e # c /\ x # c => (Precedes(Append(q, c), e, x) <=> Precedes(q, e, x))
         /\ \A e : Precedes(Append(q, c), e, c) <=> In(q, e)
         /\ \A e : ~Precedes(Append(q, c), c, e)
<1> DEFINE r == Append(q, c)
           k == Len(q) + 1
<1>1. /\ r \in Seq(S) /\ Len(r) = k /\ r[k] = c /\ k \in 1 .. Len(r) /\ Len(q) \in Nat
      /\ DOMAIN q = 1 .. Len(q) /\ DOMAIN r = 1 .. k
      /\ \A i \in DOMAIN q : r[i] = q[i]
  OBVIOUS
<1> HIDE DEF r
<1>2. Shorter(r, q, k)
  BY <1>1 DEF Shorter
<1>3. /\ Distinct(r)
      /\ \A e : In(r, e) <=> In(q, e) \/ e = c
      /\ \A e, x : e # c /\ x # c => (Precedes(r, e, x) <=> Precedes(q, e, x))
  BY <1>1, <1>2, LongerFacts
<1>4. \A i \in DOMAIN r : r[i] = c => i = k
  BY <1>1, <1>3 DEF Distinct
<1>5. ASSUME NEW e PROVE Precedes(r, e, c) <=> In(q, e)
  BY <1>1, <1>4 DEF Precedes, In
<1>6. ASSUME NEW e PROVE ~Precedes(r, c, e)
  BY <1>1, <1>4 DEF Precedes
<1>7. r # <<>>
  BY <1>1
<1> QED
  BY <1>1, <1>3, <1>5, <1>6, <1>7 DEF r

LEMMA TailFacts ==
  ASSUME NEW S, NEW q \in Seq(S), q # <<>>, Distinct(q)
  PROVE  /\ Tail(q) \in Seq(S) /\ Distinct(Tail(q)) /\ Head(q) \in S /\ In(q, Head(q))
         /\ \A e : In(Tail(q), e) <=> In(q, e) /\ e # Head(q)
         /\ \A e, x : Precedes(Tail(q), e, x) <=> Precedes(q, e, x) /\ e # Head(q) /\ x # Head(q)
         /\ \A e : ~Precedes(q, e, Head(q))
<1>1. /\ Len(q) \in Nat \ {0} /\ DOMAIN q = 1 .. Len(q) /\ Head(q) = q[1] /\ q[1] \in S
      /\ Tail(q) \in Seq(S) /\ Len(q) = Len(Tail(q)) + 1
      /\ DOMAIN Tail(q) = 1 .. Len(Tail(q))
      /\ \A i \in DOMAIN Tail(q) : Tail(q)[i] = q[i + 1]
  OBVIOUS
<1>2. Shorter(q, Tail(q), 1)
  BY <1>1 DEF Shorter
<1>3. 1 \in 1 .. Len(q)
  BY <1>1
<1>4. /\ Distinct(Tail(q))
      /\ \A e : In(Tail(q), e) <=> In(q, e) /\ e # q[1]
      /\ \A e, x : Precedes(Tail(q), e, x) <=> Precedes(q, e, x) /\ e # q[1] /\ x # q[1]
  BY <1>1, <1>2, <1>3, ShorterFacts
<1>5. ASSUME NEW e PROVE ~Precedes(q, e, Head(q))
  BY <1>1, <1>3 DEF Precedes, Distinct
<1>6. In(q, Head(q))
  BY <1>1, <1>3 DEF In
<1> QED
  BY <1>1, <1>4, <1>5, <1>6

\* The snmp queue is kept in order of urgency.
Sorted(q) == \A e, x : Precedes(q, e, x) /\ e \in Background => x \in Background

LEMMA WithoutFirst ==
  ASSUME NEW S, NEW q \in Seq(S), q # <<>> PROVE Without(q, 1) = Tail(q)
<1>1. SubSeq(q, 1, 0) = <<>>
  BY SubSeqEmpty
<1>2. Tail(q) = SubSeq(q, 2, Len(q)) /\ Tail(q) \in Seq(S)
  BY TailIsSubSeq, HeadTailProperties
<1>3. Without(q, 1) = SubSeq(q, 1, 0) \o SubSeq(q, 2, Len(q))
  BY DEF Without
<1> QED
  BY <1>1, <1>2, <1>3, ConcatEmptySeq

\* What pumpSnmp takes from a queue in that order is its first call, and an urgent one
\* if there is any.
LEMMA TakenFacts ==
  ASSUME NEW q \in Seq(Calls), q # <<>>, Distinct(q), Sorted(q)
  PROVE  /\ FirstOf(q, Calls \ Background) \in {0, 1} /\ Without(q, 1) = Tail(q)
         /\ q[1] \in Background => \A e : In(q, e) => e \in Background
<1> DEFINE first == FirstOf(q, Calls \ Background)
<1>1. Len(q) \in Nat \ {0} /\ DOMAIN q = 1 .. Len(q)
  OBVIOUS
<1> DEFINE places == {j \in DOMAIN q : q[j] \in Calls \ Background}
<1>2. \A j \in DOMAIN q : q[j] \in Calls
  OBVIOUS
<1>3. first = IF places = {} THEN 0
              ELSE CHOOSE n \in places : \A j \in places : n <= j
  BY Zenon DEF FirstOf
<1>4. ASSUME NEW j \in places PROVE 1 \in places
  <2>1. CASE j = 1
    BY <2>1
  <2>2. CASE j # 1
    <3>1. Precedes(q, q[1], q[j])
      BY <1>1, <2>2 DEF Precedes
    <3>2. q[1] \notin Background
      BY <3>1 DEF Sorted
    <3> QED
      BY <1>1, <1>2, <3>2
  <2> QED
    BY <2>1, <2>2
<1>5. CASE places = {}
  <2>1. first = 0
    BY <1>3, <1>5
  <2>2. \A e : In(q, e) => e \in Background
    BY <1>2, <1>5 DEF In
  <2> QED
    BY <2>1, <2>2, WithoutFirst
<1>6. CASE places # {}
  <2>1. 1 \in places /\ \A j \in places : 1 <= j
    BY <1>1, <1>4, <1>6
  <2>2. first = CHOOSE n \in places : \A j \in places : n <= j
    BY <1>3, <1>6
  <2>3. first = 1
    <3>1. \A n \in places : n \in Nat
      BY <1>1
    <3> HIDE DEF places
    <3>2. first \in places /\ \A j \in places : first <= j
      BY <2>1, <2>2
    <3>3. first <= 1 /\ 1 <= first /\ first \in Nat
      BY <2>1, <3>1, <3>2
    <3> HIDE DEF FirstOf
    <3> QED
      BY <3>3, SMT
  <2>4. first = 1 /\ q[1] \notin Background
    BY <2>1, <2>3
  <2> QED
    BY <2>4, WithoutFirst
<1> QED
  BY <1>5, <1>6

\* An interactive call is put before the background ones and after all the others.
LEMMA InsertedFacts ==
  ASSUME NEW q \in Seq(Calls), NEW c \in Calls, Distinct(q), Sorted(q), ~In(q, c)
  PROVE  /\ Inserted(q, c) \in Seq(Calls) /\ Inserted(q, c) # <<>>
         /\ Distinct(Inserted(q, c)) /\ Sorted(Inserted(q, c))
         /\ \A e : In(Inserted(q, c), e) <=> In(q, e) \/ e = c
         /\ \A e, x : e # c /\ x # c => (Precedes(Inserted(q, c), e, x) <=> Precedes(q, e, x))
         /\ \A e : (e \in Background <=> c \in Background)
                     => /\ Precedes(Inserted(q, c), e, c) <=> In(q, e)
                        /\ ~Precedes(Inserted(q, c), c, e)
<1>1. Len(q) \in Nat /\ DOMAIN q = 1 .. Len(q)
  OBVIOUS
<1> DEFINE places == {j \in DOMAIN q : q[j] \in Background}
           r == Inserted(q, c)
           i == FirstOf(q, Background)
<1>3. i = IF places = {} THEN 0 ELSE CHOOSE n \in places : \A j \in places : n <= j
  BY Zenon DEF FirstOf
<1>4. CASE c \in Background \/ i = 0
  <2>1. r = Append(q, c)
    BY <1>4 DEF Inserted
  <2>2. c \notin Background => \A e : In(q, e) => e \notin Background
    <3> SUFFICES ASSUME c \notin Background, NEW j \in DOMAIN q, q[j] \in Background PROVE FALSE
      BY DEF In
    <3>1. i \in places
      <4>1. PICK n \in places : \A m \in places : n <= m
        <5>1. places \in SUBSET Nat /\ places # {}
          BY <1>1
        <5> HIDE DEF places
        <5> QED
          BY <5>1, LeastIndex
      <4> HIDE DEF places
      <4> QED
        BY <1>3, <4>1
    <3> QED
      BY <1>1, <1>4, <3>1
  <2>3. \A e, x : Precedes(q, e, x) => In(q, e) /\ In(q, x)
    BY DEF Precedes, In
  <2> HIDE DEF r
  <2>4. Sorted(r)
    BY <2>1, <2>2, <2>3, AppendFacts DEF Sorted
  <2> QED
    BY <2>1, <2>4, AppendFacts DEF r
<1>5. CASE c \notin Background /\ i # 0
  <2>1. i \in places /\ \A j \in places : i <= j
    <3>1. places \in SUBSET Nat /\ places # {}
      BY <1>1, <1>3, <1>5
    <3>2. i = CHOOSE n \in places : \A j \in places : n <= j
      BY <1>3, <3>1
    <3> HIDE DEF places
    <3> QED
      BY <3>1, <3>2, LeastIndex
  <2>2. i \in 1 .. Len(q) /\ \A j \in 1 .. i - 1 : q[j] \notin Background
    BY <1>1, <2>1
  <2>3. \A j \in i .. Len(q) : q[j] \in Background
    <3> SUFFICES ASSUME NEW j \in i .. Len(q), j # i PROVE q[j] \in Background
      BY <2>1
    <3>1. Precedes(q, q[i], q[j])
      BY <1>1, <2>2 DEF Precedes
    <3> QED
      BY <2>1, <3>1 DEF Sorted
  <2> DEFINE a == SubSeq(q, 1, i - 1)
             b == SubSeq(q, i, Len(q))
  <2>4. r = a \o <<c>> \o b
    BY <1>5 DEF Inserted
  <2>5. /\ a \in Seq(Calls) /\ Len(a) = i - 1 /\ \A j \in 1 .. i - 1 : a[j] = q[j]
        /\ b \in Seq(Calls) /\ Len(b) = Len(q) - i + 1
        /\ \A j \in 1 .. Len(q) - i + 1 : b[j] = q[i + j - 1]
    <3>1. /\ i \in Int /\ i - 1 \in Int /\ Len(q) \in Int /\ 1 <= i /\ i <= Len(q)
          /\ \A j \in 1 .. i - 1 : q[j] \in Calls
          /\ \A j \in i .. Len(q) : q[j] \in Calls
      BY <1>1, <2>2
    <3> HIDE DEF i, r, places
    <3>2. /\ a \in Seq(Calls) /\ Len(a) = IF 1 <= i - 1 THEN i - 1 - 1 + 1 ELSE 0
          /\ \A j \in 1 .. i - 1 - 1 + 1 : a[j] = q[1 + j - 1]
      BY <3>1, SubSeqProperties
    <3>3. /\ b \in Seq(Calls) /\ Len(b) = IF i <= Len(q) THEN Len(q) - i + 1 ELSE 0
          /\ \A j \in 1 .. Len(q) - i + 1 : b[j] = q[i + j - 1]
      BY <3>1, SubSeqProperties
    <3> HIDE DEF a, b
    <3>4. Len(a) = i - 1 /\ \A j \in 1 .. i - 1 : a[j] = q[j]
      BY <3>1, <3>2
    <3> QED
      BY <3>1, <3>2, <3>3, <3>4
  <2> HIDE DEF a, b, i, r, places
  <2>6. /\ a \o <<c>> \in Seq(Calls) /\ Len(a \o <<c>>) = i
        /\ \A j \in 1 .. i - 1 : (a \o <<c>>)[j] = q[j]
        /\ (a \o <<c>>)[i] = c
    BY <2>2, <2>5
  <2>7. /\ r \in Seq(Calls) /\ Len(r) = Len(q) + 1 /\ DOMAIN r = 1 .. Len(q) + 1
        /\ \A j \in 1 .. i - 1 : r[j] = q[j]
        /\ r[i] = c
        /\ \A j \in i + 1 .. Len(q) + 1 : r[j] = q[j - 1]
    <3> DEFINE l == a \o <<c>>
    <3>1. r = l \o b
      BY <2>4
    <3>2. /\ l \in Seq(Calls) /\ Len(l) = i /\ l[i] = c
          /\ \A j \in 1 .. i - 1 : l[j] = q[j]
      BY <2>6
    <3> HIDE DEF l
    <3>3. /\ r \in Seq(Calls) /\ Len(r) = Len(l) + Len(b)
          /\ \A j \in 1 .. Len(l) + Len(b) : r[j] = IF j <= Len(l) THEN l[j] ELSE b[j - Len(l)]
      <4>1. l \in Seq(Calls) /\ b \in Seq(Calls)
        BY <2>5, <3>2
      <4> QED
        BY <3>1, <4>1, ConcatProperties
    <3>4. Len(l) + Len(b) = Len(q) + 1
      BY <1>1, <2>2, <2>5, <3>2
    <3>5. DOMAIN r = 1 .. Len(q) + 1
      BY <3>3, <3>4
    <3>6. ASSUME NEW j \in i + 1 .. Len(q) + 1 PROVE r[j] = q[j - 1]
      <4>1. r[j] = b[j - i]
        BY <1>1, <2>2, <3>2, <3>3, <3>4
      <4>2. j - i \in 1 .. Len(q) - i + 1 /\ i + (j - i) - 1 = j - 1
        BY <1>1, <2>2
      <4> QED
        BY <2>5, <4>1, <4>2
    <3>7. ASSUME NEW j \in 1 .. i PROVE r[j] = l[j]
      BY <1>1, <2>2, <3>2, <3>3, <3>4
    <3>8. /\ \A j \in 1 .. i - 1 : j \in 1 .. i /\ r[j] = l[j]
          /\ i \in 1 .. i /\ r[i] = l[i]
      BY <2>2, <3>7
    <3> QED
      BY <3>2, <3>3, <3>4, <3>5, <3>6, <3>8
  <2>8. Shorter(r, q, i) /\ i \in 1 .. Len(r)
    BY <1>1, <2>2, <2>7 DEF Shorter
  <2>9. /\ Distinct(r)
        /\ \A e : In(r, e) <=> In(q, e) \/ e = c
        /\ \A e, x : e # c /\ x # c => (Precedes(r, e, x) <=> Precedes(q, e, x))
    BY <2>7, <2>8, LongerFacts
  <2>10. \A j \in DOMAIN r : r[j] = c => j = i
    BY <1>1, <2>2, <2>7, <2>9 DEF Distinct
  <2>11. \A e : Precedes(r, e, c) => e \notin Background /\ In(q, e)
    BY <1>1, <2>2, <2>7, <2>10 DEF Precedes, In
  <2>12. \A e : Precedes(r, c, e) => e \in Background
    BY <1>1, <2>2, <2>3, <2>7, <2>10 DEF Precedes
  <2>13. \A e : In(q, e) /\ e \notin Background => Precedes(r, e, c)
    <3> SUFFICES ASSUME NEW j \in DOMAIN q, q[j] \notin Background PROVE Precedes(r, q[j], c)
      BY DEF In
    <3>1. j \in 1 .. i - 1
      BY <1>1, <2>2, <2>3
    <3> QED
      BY <1>1, <2>2, <2>7, <3>1 DEF Precedes
  <2>14. Sorted(r)
    BY <1>5, <2>9, <2>11 DEF Sorted
  <2>15. r # <<>>
    BY <1>1, <2>7
  <2> QED
    BY <1>5, <2>7, <2>9, <2>11, <2>12, <2>13, <2>14, <2>15 DEF r
<1> QED
  BY <1>4, <1>5

-----------------------------------------------------------------------------
(* The queues hold the waiting calls, and a device works as long as one waits *)

Stages == {"idle", "waiting", "served", "settled"}
Lanes  == [interactive: Seq(Calls \ Background), background: Seq(Background)]
Active == {"served", "settled"}

\* The lanes q hold the calls of device d that wait in these stages.
Holds(q, stages, d) ==
  /\ Distinct(q.interactive) /\ Distinct(q.background)
  /\ \A e \in Calls : In(q.interactive, e) <=>
       stages[e] = "waiting" /\ DeviceOf[e] = d /\ e \notin Background
  /\ \A e \in Calls : In(q.background, e) <=>
       stages[e] = "waiting" /\ DeviceOf[e] = d /\ e \in Background

\* The line q does.
HoldsLine(q, stages, d) ==
  /\ Distinct(q) /\ Sorted(q)
  /\ \A e \in Calls : In(q, e) <=> stages[e] = "waiting" /\ DeviceOf[e] = d

CliRight(d) ==
  kind[d] = "cli" => /\ Holds(lanes[d], pc, d)
                     /\ busy[d] = "free" => Empty(lanes[d])

SnmpRight(d) ==
  kind[d] = "snmp" => /\ HoldsLine(line[d], pc, d)
                      /\ busy[d] = "free" => line[d] = <<>>
                      /\ busy[d] # "resuming"

\* A router's call keeps its place until it has returned, so the head is the one served.
RouterRight(d) ==
  kind[d] = "router" =>
    /\ Distinct(line[d]) /\ busy[d] = "free"
    /\ \A e \in Calls : In(line[d], e) <=> pc[e] # "idle" /\ DeviceOf[e] = d
    /\ \A e \in Calls : In(line[d], e) => e \notin Background
    /\ \A e \in Calls : DeviceOf[e] = d /\ pc[e] \in Active
                          => line[d] # <<>> /\ Head(line[d]) = e

OneServed(d) ==
  /\ \A e, x \in Calls :
       DeviceOf[e] = d /\ DeviceOf[x] = d /\ pc[e] \in Active /\ pc[x] \in Active => e = x
  /\ kind[d] # "router" =>
       \A e \in Calls : DeviceOf[e] = d /\ pc[e] \in Active => busy[d] = "running"

Right(d) == CliRight(d) /\ SnmpRight(d) /\ RouterRight(d) /\ OneServed(d)

Inv == TypeOK /\ \A d \in Devices : Right(d)

LEMMA TypeFacts ==
  ASSUME TypeOK
  PROVE  /\ \A c \in Calls : DeviceOf[c] \in Devices /\ pc[c] \in Stages
         /\ pc \in [Calls -> Stages] /\ lanes \in [Devices -> Lanes]
         /\ line \in [Devices -> Seq(Calls)] /\ kind \in [Devices -> Kinds]
         /\ busy \in [Devices -> {"free", "running", "resuming"}]
         /\ Background \subseteq Calls
         /\ \A q \in Lanes : /\ q.interactive \in Seq(Calls) /\ q.background \in Seq(Calls)
                             /\ q.interactive \in Seq(Calls \ Background)
                             /\ q.background \in Seq(Background)
<1>1. ASSUME NEW q \in Lanes
      PROVE  /\ q.interactive \in Seq(Calls) /\ q.background \in Seq(Calls)
             /\ q.interactive \in Seq(Calls \ Background)
             /\ q.background \in Seq(Background)
  <2>1. q.interactive \in Seq(Calls \ Background) /\ q.background \in Seq(Background)
    BY DEF Lanes
  <2>2. Calls \ Background \subseteq Calls /\ Background \subseteq Calls
    BY DeviceQueueAssumption
  <2> QED
    BY <2>1, <2>2, SeqMonotonic
<1> QED
  BY <1>1, DeviceQueueAssumption DEF TypeOK, Stages, Lanes

\* A step at device d disturbs no other device.
LEMMA OthersRight ==
  ASSUME Inv, NEW d, kind' = kind,
         \A e \in Calls : DeviceOf[e] # d => pc'[e] = pc[e],
         \A x \in Devices : x # d => /\ lanes'[x] = lanes[x] /\ line'[x] = line[x]
                                     /\ busy'[x] = busy[x],
         NEW x \in Devices, x # d
  PROVE  Right(x)'
<1>1. CliRight(x)'
  BY DEF Inv, Right, CliRight, Holds, Empty
<1>2. SnmpRight(x)'
  BY DEF Inv, Right, SnmpRight, HoldsLine
<1>3. RouterRight(x)'
  BY DEF Inv, Right, RouterRight
<1>4. OneServed(x)'
  BY DEF Inv, Right, OneServed
<1> QED
  BY <1>1, <1>2, <1>3, <1>4 DEF Right

\* The loop of a cli device takes the head of a lane, or ends with both empty.
LEMMA PumpRight ==
  ASSUME TypeOK, NEW d \in Devices, kind' = kind, kind[d] = "cli",
         NEW q \in Lanes, NEW stages \in [Calls -> Stages], Holds(q, stages, d),
         \A e \in Calls : DeviceOf[e] = d => stages[e] \notin Active,
         Pump(d, q, stages)
  PROVE  /\ Right(d)'
         /\ lanes' \in [Devices -> Lanes] /\ pc' \in [Calls -> Stages]
         /\ busy' \in [Devices -> {"free", "running", "resuming"}]
         /\ \A e \in Calls : DeviceOf[e] # d => pc'[e] = stages[e]
         /\ \A x \in Devices : x # d => lanes'[x] = lanes[x] /\ busy'[x] = busy[x]
<1>0. /\ pc \in [Calls -> Stages] /\ lanes \in [Devices -> Lanes]
      /\ busy \in [Devices -> {"free", "running", "resuming"}]
      /\ q.interactive \in Seq(Calls) /\ q.background \in Seq(Calls)
      /\ q.interactive \in Seq(Calls \ Background) /\ q.background \in Seq(Background)
      /\ Background \subseteq Calls
  BY TypeFacts
<1>1. CASE Empty(q)
  <2>1. /\ busy' = [busy EXCEPT ![d] = "free"] /\ lanes' = [lanes EXCEPT ![d] = q]
        /\ pc' = stages
    BY <1>1 DEF Pump
  <2>2. CliRight(d)'
    BY <1>0, <1>1, <2>1 DEF CliRight, Holds, Empty
  <2>3. SnmpRight(d)' /\ RouterRight(d)'
    BY DEF SnmpRight, RouterRight
  <2>4. OneServed(d)'
    BY <2>1 DEF OneServed, Active
  <2> QED
    BY <1>0, <2>1, <2>2, <2>3, <2>4 DEF Right
<1>2. ASSUME NEW lane \in {"interactive", "background"}, lane = NextLane(q), ~Empty(q),
             NEW rest, rest = [q EXCEPT ![lane] = Tail(@)],
             NEW c, c = Head(q[lane])
      PROVE  /\ rest \in Lanes /\ c \in Calls
             /\ stages[c] = "waiting" /\ DeviceOf[c] = d
             /\ Holds(rest, [stages EXCEPT ![c] = "served"], d)
  <2>1. CASE lane = "interactive"
    <3>1. q.interactive # <<>>
      BY <1>2, <2>1 DEF NextLane, Empty
    <3>2. rest.interactive = Tail(q.interactive) /\ rest.background = q.background
          /\ c = Head(q.interactive)
      BY <1>2, <2>1 DEF Lanes
    <3>3. /\ Tail(q.interactive) \in Seq(Calls \ Background)
          /\ Distinct(Tail(q.interactive)) /\ c \in Calls \ Background
          /\ In(q.interactive, c)
          /\ \A e : In(Tail(q.interactive), e) <=> In(q.interactive, e) /\ e # c
      BY <1>0, <3>1, <3>2, TailFacts DEF Holds
    <3>4. rest \in Lanes
      BY <1>2, <2>1, <3>3 DEF Lanes
    <3> QED
      BY <3>2, <3>3, <3>4 DEF Holds
  <2>2. CASE lane = "background"
    <3>1. q.background # <<>>
      BY <1>2, <2>2 DEF NextLane, Empty
    <3>2. rest.background = Tail(q.background) /\ rest.interactive = q.interactive
          /\ c = Head(q.background)
      BY <1>2, <2>2 DEF Lanes
    <3>3. /\ Tail(q.background) \in Seq(Background)
          /\ Distinct(Tail(q.background)) /\ c \in Background
          /\ In(q.background, c)
          /\ \A e : In(Tail(q.background), e) <=> In(q.background, e) /\ e # c
      BY <1>0, <3>1, <3>2, TailFacts DEF Holds
    <3>4. rest \in Lanes
      BY <1>2, <2>2, <3>3 DEF Lanes
    <3> QED
      BY <1>0, <3>2, <3>3, <3>4 DEF Holds
  <2> QED
    BY <2>1, <2>2
<1>3. CASE ~Empty(q)
  <2> DEFINE lane == NextLane(q)
             rest == [q EXCEPT ![lane] = Tail(@)]
             c    == Head(q[lane])
  <2>1. lane \in {"interactive", "background"}
    BY DEF NextLane
  <2>2. /\ busy' = [busy EXCEPT ![d] = "running"] /\ lanes' = [lanes EXCEPT ![d] = rest]
        /\ pc' = [stages EXCEPT ![c] = "served"]
    BY <1>3 DEF Pump
  <2>3. /\ rest \in Lanes /\ c \in Calls /\ stages[c] = "waiting" /\ DeviceOf[c] = d
        /\ Holds(rest, [stages EXCEPT ![c] = "served"], d)
    BY <1>2, <1>3, <2>1
  <2> HIDE DEF lane, rest, c
  <2>4. CliRight(d)'
    BY <1>0, <2>2, <2>3 DEF CliRight, Holds
  <2>5. SnmpRight(d)' /\ RouterRight(d)'
    BY DEF SnmpRight, RouterRight
  <2>6. OneServed(d)'
    <3>1. \A e \in Calls : DeviceOf[e] = d /\ pc'[e] \in Active => e = c
      BY <2>2, <2>3
    <3>2. busy'[d] = "running"
      BY <1>0, <2>2
    <3> QED
      BY <3>1, <3>2 DEF OneServed, Active
  <2> QED
    BY <1>0, <2>2, <2>3, <2>4, <2>5, <2>6 DEF Right, Stages
<1> QED
  BY <1>1, <1>3

\* A call is appended to the lane of its urgency.
LEMMA PushHolds ==
  ASSUME TypeOK, NEW c \in Calls, pc[c] = "idle", NEW d, d = DeviceOf[c],
         Holds(lanes[d], pc, d),
         NEW q, q = [lanes[d] EXCEPT ![Lane(c)] = Append(@, c)],
         NEW stages, stages = [pc EXCEPT ![c] = "waiting"]
  PROVE  q \in Lanes /\ stages \in [Calls -> Stages] /\ Holds(q, stages, d)
<1> DEFINE old == lanes[d]
<1>0. /\ d \in Devices /\ old \in Lanes /\ pc \in [Calls -> Stages]
      /\ old.interactive \in Seq(Calls) /\ old.background \in Seq(Calls)
      /\ old.interactive \in Seq(Calls \ Background) /\ old.background \in Seq(Background)
      /\ Background \subseteq Calls
  BY TypeFacts
<1>1. stages \in [Calls -> Stages]
  BY <1>0 DEF Stages
<1>2. ~In(old.interactive, c) /\ ~In(old.background, c)
  BY DEF Holds
<1>3. CASE c \in Background
  <2>1. q.background = Append(old.background, c) /\ q.interactive = old.interactive
    BY <1>0, <1>3 DEF Lane, Lanes
  <2>2. /\ Append(old.background, c) \in Seq(Background) /\ Distinct(Append(old.background, c))
        /\ \A e : In(Append(old.background, c), e) <=> In(old.background, e) \/ e = c
    BY <1>0, <1>2, <1>3, AppendFacts DEF Holds
  <2>3. q \in Lanes
    BY <1>0, <1>3, <2>2 DEF Lane, Lanes
  <2>4. Holds(q, stages, d)
    BY <1>0, <1>3, <2>1, <2>2 DEF Holds
  <2> QED
    BY <1>1, <2>3, <2>4
<1>4. CASE c \notin Background
  <2>1. q.interactive = Append(old.interactive, c) /\ q.background = old.background
    BY <1>0, <1>4 DEF Lane, Lanes
  <2>2. /\ Append(old.interactive, c) \in Seq(Calls \ Background)
        /\ Distinct(Append(old.interactive, c))
        /\ \A e : In(Append(old.interactive, c), e) <=> In(old.interactive, e) \/ e = c
    <3>1. c \in Calls \ Background
      BY <1>4
    <3> QED
      BY <1>0, <1>2, <3>1, AppendFacts DEF Holds
  <2>3. q \in Lanes
    BY <1>0, <1>4, <2>2 DEF Lane, Lanes
  <2>4. Holds(q, stages, d)
    BY <1>0, <1>4, <2>1, <2>2 DEF Holds
  <2> QED
    BY <1>1, <2>3, <2>4
<1> QED
  BY <1>3, <1>4

\* What a step at one device must establish.
StepRight(d) ==
  /\ kind' = kind /\ Right(d)'
  /\ pc' \in [Calls -> Stages] /\ lanes' \in [Devices -> Lanes]
  /\ line' \in [Devices -> Seq(Calls)]
  /\ busy' \in [Devices -> {"free", "running", "resuming"}]
  /\ \A e \in Calls : DeviceOf[e] # d => pc'[e] = pc[e]
  /\ \A x \in Devices : x # d => /\ lanes'[x] = lanes[x] /\ line'[x] = line[x]
                                 /\ busy'[x] = busy[x]

LEMMA StepInv == ASSUME Inv, NEW d \in Devices, StepRight(d) PROVE Inv'
<1>1. \A x \in Devices : x # d => Right(x)'
  BY OthersRight DEF StepRight
<1>2. TypeOK'
  BY DEF Inv, TypeOK, StepRight, Stages, Lanes
<1> QED
  BY <1>1, <1>2 DEF Inv, StepRight

LEMMA CliAskRight ==
  ASSUME Inv, NEW c \in Calls, CliAsk(c) PROVE StepRight(DeviceOf[c])
<1> DEFINE d == DeviceOf[c]
           q == [lanes[d] EXCEPT ![Lane(c)] = Append(@, c)]
           stages == [pc EXCEPT ![c] = "waiting"]
<1>0. /\ TypeOK /\ d \in Devices /\ pc \in [Calls -> Stages] /\ lanes \in [Devices -> Lanes]
      /\ line \in [Devices -> Seq(Calls)] /\ kind[d] = "cli" /\ pc[c] = "idle" /\ Right(d)
      /\ busy \in [Devices -> {"free", "running", "resuming"}]
      /\ kind' = kind /\ line' = line
  BY TypeFacts DEF Inv, CliAsk, IsA
<1>1. q \in Lanes /\ stages \in [Calls -> Stages] /\ Holds(q, stages, d)
  BY <1>0, PushHolds DEF Right, CliRight
<1>2. CASE busy[d] = "free"
  <2>1. Pump(d, q, stages)
    BY <1>2 DEF CliAsk
  <2>2. \A e \in Calls : DeviceOf[e] = d => stages[e] \notin Active
    BY <1>0, <1>2 DEF Right, OneServed, Active
  <2> HIDE DEF q
  <2>3. /\ Right(d)'
        /\ lanes' \in [Devices -> Lanes] /\ pc' \in [Calls -> Stages]
        /\ busy' \in [Devices -> {"free", "running", "resuming"}]
        /\ \A e \in Calls : DeviceOf[e] # d => pc'[e] = stages[e]
        /\ \A x \in Devices : x # d => lanes'[x] = lanes[x] /\ busy'[x] = busy[x]
    BY <1>0, <1>1, <2>1, <2>2, PumpRight
  <2> QED
    BY <1>0, <2>3 DEF StepRight
<1>3. CASE busy[d] # "free"
  <2>1. lanes' = [lanes EXCEPT ![d] = q] /\ pc' = stages /\ busy' = busy
    BY <1>3 DEF CliAsk
  <2> HIDE DEF q
  <2>2. CliRight(d)'
    BY <1>0, <1>1, <1>3, <2>1 DEF CliRight, Holds
  <2>3. SnmpRight(d)' /\ RouterRight(d)'
    BY <1>0 DEF SnmpRight, RouterRight
  <2>4. OneServed(d)'
    BY <1>0, <2>1 DEF Right, OneServed, Active
  <2> QED
    BY <1>0, <1>1, <2>1, <2>2, <2>3, <2>4 DEF StepRight, Right
<1> QED
  BY <1>2, <1>3

LEMMA CliResumeRight ==
  ASSUME Inv, NEW d \in Devices, CliResume(d) PROVE StepRight(d)
<1>0. /\ TypeOK /\ pc \in [Calls -> Stages] /\ lanes[d] \in Lanes
      /\ line \in [Devices -> Seq(Calls)] /\ Right(d) /\ kind[d] \in Kinds
      /\ kind' = kind /\ line' = line /\ busy[d] = "resuming" /\ Pump(d, lanes[d], pc)
  BY TypeFacts DEF Inv, CliResume
<1>1. kind[d] = "cli"
  BY <1>0 DEF Kinds, Right, SnmpRight, RouterRight
<1>2. \A e \in Calls : DeviceOf[e] = d => pc[e] \notin Active
  BY <1>0, <1>1 DEF Right, OneServed
<1>3. Holds(lanes[d], pc, d)
  BY <1>0, <1>1 DEF Right, CliRight
<1>4. /\ Right(d)'
      /\ lanes' \in [Devices -> Lanes] /\ pc' \in [Calls -> Stages]
      /\ busy' \in [Devices -> {"free", "running", "resuming"}]
      /\ \A e \in Calls : DeviceOf[e] # d => pc'[e] = pc[e]
      /\ \A x \in Devices : x # d => lanes'[x] = lanes[x] /\ busy'[x] = busy[x]
  BY <1>0, <1>1, <1>2, <1>3, PumpRight
<1> QED
  BY <1>0, <1>4 DEF StepRight

LEMMA CliReturnRight ==
  ASSUME Inv, NEW c \in Calls, CliReturn(c) PROVE StepRight(DeviceOf[c])
<1> DEFINE d == DeviceOf[c]
<1>0. /\ d \in Devices /\ pc \in [Calls -> Stages] /\ lanes \in [Devices -> Lanes]
      /\ line \in [Devices -> Seq(Calls)] /\ kind[d] = "cli" /\ pc[c] = "settled" /\ Right(d)
      /\ busy \in [Devices -> {"free", "running", "resuming"}]
      /\ kind' = kind /\ line' = line /\ lanes' = lanes
      /\ pc' = [pc EXCEPT ![c] = "idle"] /\ busy' = [busy EXCEPT ![d] = "resuming"]
  BY TypeFacts DEF Inv, CliReturn, IsA
<1>1. CliRight(d)'
  BY <1>0 DEF Right, CliRight, Holds
<1>2. SnmpRight(d)' /\ RouterRight(d)'
  BY <1>0 DEF SnmpRight, RouterRight
<1>3. OneServed(d)'
  BY <1>0 DEF Right, OneServed, Active
<1> QED
  BY <1>0, <1>1, <1>2, <1>3 DEF StepRight, Right, Stages

\* pumpSnmp takes the head of the sorted line, or ends with the line empty.
LEMMA PumpSnmpRight ==
  ASSUME TypeOK, NEW d \in Devices, kind' = kind, kind[d] = "snmp",
         NEW q \in Seq(Calls), NEW stages \in [Calls -> Stages], HoldsLine(q, stages, d),
         \A e \in Calls : DeviceOf[e] = d => stages[e] \notin Active,
         PumpSnmp(d, q, stages)
  PROVE  /\ Right(d)'
         /\ line' \in [Devices -> Seq(Calls)] /\ pc' \in [Calls -> Stages]
         /\ busy' \in [Devices -> {"free", "running", "resuming"}]
         /\ \A e \in Calls : DeviceOf[e] # d => pc'[e] = stages[e]
         /\ \A x \in Devices : x # d => line'[x] = line[x] /\ busy'[x] = busy[x]
<1>0. /\ line \in [Devices -> Seq(Calls)]
      /\ busy \in [Devices -> {"free", "running", "resuming"}]
  BY TypeFacts
<1>1. CliRight(d)' /\ RouterRight(d)'
  BY DEF CliRight, RouterRight
<1>2. CASE q = <<>>
  <2>1. /\ busy' = [busy EXCEPT ![d] = "free"] /\ line' = [line EXCEPT ![d] = q]
        /\ pc' = stages
    BY <1>2 DEF PumpSnmp
  <2>2. SnmpRight(d)'
    BY <1>0, <1>2, <2>1 DEF SnmpRight, HoldsLine
  <2>3. OneServed(d)'
    BY <2>1 DEF OneServed, Active
  <2> QED
    BY <1>0, <1>1, <2>1, <2>2, <2>3 DEF Right
<1>3. CASE q # <<>>
  <2> DEFINE first == FirstOf(q, Calls \ Background)
             i == IF first # 0 THEN first ELSE 1
             c == Head(q)
  <2>1. /\ busy' = [busy EXCEPT ![d] = "running"] /\ line' = [line EXCEPT ![d] = Without(q, i)]
        /\ pc' = [stages EXCEPT ![q[i]] = "served"]
    BY <1>3 DEF PumpSnmp
  <2>2. i = 1 /\ Without(q, i) = Tail(q) /\ q[i] = c
    <3>1. first \in {0, 1} /\ Without(q, 1) = Tail(q)
      BY <1>3, TakenFacts DEF HoldsLine
    <3>2. q[1] = c
      BY <1>3
    <3> HIDE DEF first
    <3> QED
      BY <3>1, <3>2
  <2>3. line' = [line EXCEPT ![d] = Tail(q)] /\ pc' = [stages EXCEPT ![c] = "served"]
    <3> HIDE DEF i, c
    <3> QED
      BY <2>1, <2>2
  <2>4. /\ Tail(q) \in Seq(Calls) /\ Distinct(Tail(q)) /\ c \in Calls /\ In(q, c)
        /\ \A e : In(Tail(q), e) <=> In(q, e) /\ e # c
        /\ \A e, x : Precedes(Tail(q), e, x) => Precedes(q, e, x)
    BY <1>3, TailFacts DEF HoldsLine
  <2> HIDE DEF c, i, first
  <2>5. stages[c] = "waiting" /\ DeviceOf[c] = d
    BY <2>4 DEF HoldsLine
  <2>6. Sorted(Tail(q))
    BY <2>4 DEF HoldsLine, Sorted
  <2>7. SnmpRight(d)'
    <3>1. line'[d] = Tail(q) /\ busy'[d] = "running"
      BY <1>0, <2>1, <2>3
    <3>2. \A e \in Calls : In(Tail(q), e) <=> pc'[e] = "waiting" /\ DeviceOf[e] = d
      BY <2>3, <2>4, <2>5 DEF HoldsLine
    <3> QED
      BY <2>4, <2>6, <3>1, <3>2 DEF SnmpRight, HoldsLine, Sorted
  <2>8. OneServed(d)'
    <3>1. \A e \in Calls : DeviceOf[e] = d /\ pc'[e] \in Active => e = c
      BY <2>3
    <3>2. busy'[d] = "running"
      BY <1>0, <2>1
    <3> QED
      BY <3>1, <3>2 DEF OneServed, Active
  <2>9. Right(d)'
    BY <1>1, <2>7, <2>8 DEF Right
  <2>10. busy' = [busy EXCEPT ![d] = "running"]
    BY <2>1
  <2>11. line' \in [Devices -> Seq(Calls)] /\ pc' \in [Calls -> Stages]
    BY <1>0, <2>3, <2>4 DEF Stages
  <2>12. \A e \in Calls : DeviceOf[e] # d => pc'[e] = stages[e]
    BY <2>3, <2>5
  <2> QED
    BY <1>0, <2>3, <2>9, <2>10, <2>11, <2>12
<1> QED
  BY <1>2, <1>3

LEMMA SnmpAskRight ==
  ASSUME Inv, NEW c \in Calls, SnmpAsk(c) PROVE StepRight(DeviceOf[c])
<1> DEFINE d == DeviceOf[c]
           q == Inserted(line[d], c)
           stages == [pc EXCEPT ![c] = "waiting"]
<1>0. /\ TypeOK /\ d \in Devices /\ pc \in [Calls -> Stages] /\ lanes \in [Devices -> Lanes]
      /\ line \in [Devices -> Seq(Calls)] /\ kind[d] = "snmp" /\ pc[c] = "idle" /\ Right(d)
      /\ busy \in [Devices -> {"free", "running", "resuming"}]
      /\ kind' = kind /\ lanes' = lanes
  BY TypeFacts DEF Inv, SnmpAsk, IsA
<1>1. q \in Seq(Calls) /\ stages \in [Calls -> Stages] /\ HoldsLine(q, stages, d)
  <2>1. HoldsLine(line[d], pc, d) /\ line[d] \in Seq(Calls) /\ ~In(line[d], c)
    BY <1>0 DEF Right, SnmpRight, HoldsLine
  <2>2. /\ q \in Seq(Calls) /\ Distinct(q) /\ Sorted(q)
        /\ \A e : In(q, e) <=> In(line[d], e) \/ e = c
    BY <2>1, InsertedFacts DEF HoldsLine
  <2> HIDE DEF q
  <2> QED
    BY <1>0, <2>1, <2>2 DEF HoldsLine, Stages
<1>2. CASE busy[d] = "free"
  <2>1. PumpSnmp(d, q, stages)
    BY <1>2 DEF SnmpAsk
  <2>2. \A e \in Calls : DeviceOf[e] = d => stages[e] \notin Active
    BY <1>0, <1>2 DEF Right, OneServed, Active
  <2> HIDE DEF q
  <2>3. /\ Right(d)'
        /\ line' \in [Devices -> Seq(Calls)] /\ pc' \in [Calls -> Stages]
        /\ busy' \in [Devices -> {"free", "running", "resuming"}]
        /\ \A e \in Calls : DeviceOf[e] # d => pc'[e] = stages[e]
        /\ \A x \in Devices : x # d => line'[x] = line[x] /\ busy'[x] = busy[x]
    BY <1>0, <1>1, <2>1, <2>2, PumpSnmpRight
  <2> QED
    BY <1>0, <2>3 DEF StepRight
<1>3. CASE busy[d] # "free"
  <2>1. line' = [line EXCEPT ![d] = q] /\ pc' = stages /\ busy' = busy
    BY <1>3 DEF SnmpAsk
  <2> HIDE DEF q
  <2>2. SnmpRight(d)'
    BY <1>0, <1>1, <1>3, <2>1 DEF Right, SnmpRight, HoldsLine, Sorted
  <2>3. CliRight(d)' /\ RouterRight(d)'
    BY <1>0 DEF CliRight, RouterRight
  <2>4. OneServed(d)'
    BY <1>0, <2>1 DEF Right, OneServed, Active
  <2> QED
    BY <1>0, <1>1, <2>1, <2>2, <2>3, <2>4 DEF StepRight, Right
<1> QED
  BY <1>2, <1>3

LEMMA SnmpReturnRight ==
  ASSUME Inv, NEW c \in Calls, SnmpReturn(c) PROVE StepRight(DeviceOf[c])
<1> DEFINE d == DeviceOf[c]
           stages == [pc EXCEPT ![c] = "idle"]
<1>0. /\ TypeOK /\ d \in Devices /\ pc \in [Calls -> Stages] /\ lanes \in [Devices -> Lanes]
      /\ line \in [Devices -> Seq(Calls)] /\ kind[d] = "snmp" /\ pc[c] = "settled" /\ Right(d)
      /\ kind' = kind /\ lanes' = lanes /\ PumpSnmp(d, line[d], stages)
  BY TypeFacts DEF Inv, SnmpReturn, IsA
<1>1. line[d] \in Seq(Calls) /\ stages \in [Calls -> Stages] /\ HoldsLine(line[d], stages, d)
  BY <1>0 DEF Right, SnmpRight, HoldsLine, Stages
<1>2. \A e \in Calls : DeviceOf[e] = d => stages[e] \notin Active
  BY <1>0 DEF Right, OneServed, Active
<1>3. /\ Right(d)'
      /\ line' \in [Devices -> Seq(Calls)] /\ pc' \in [Calls -> Stages]
      /\ busy' \in [Devices -> {"free", "running", "resuming"}]
      /\ \A e \in Calls : DeviceOf[e] # d => pc'[e] = stages[e]
      /\ \A x \in Devices : x # d => line'[x] = line[x] /\ busy'[x] = busy[x]
  BY <1>0, <1>1, <1>2, PumpSnmpRight
<1> QED
  BY <1>0, <1>3 DEF StepRight

LEMMA RouterRightStep ==
  ASSUME Inv, NEW c \in Calls, RouterAsk(c) \/ RouterEnter(c) \/ RouterReturn(c)
  PROVE  StepRight(DeviceOf[c])
<1> DEFINE d == DeviceOf[c]
<1>0. /\ d \in Devices /\ pc \in [Calls -> Stages] /\ lanes \in [Devices -> Lanes]
      /\ line \in [Devices -> Seq(Calls)] /\ line[d] \in Seq(Calls) /\ kind[d] = "router"
      /\ Right(d) /\ busy \in [Devices -> {"free", "running", "resuming"}]
      /\ kind' = kind /\ lanes' = lanes /\ busy' = busy
  BY TypeFacts DEF Inv, RouterAsk, RouterEnter, RouterReturn, IsA
<1>1. /\ Distinct(line[d]) /\ busy[d] = "free"
      /\ \A e \in Calls : In(line[d], e) <=> pc[e] # "idle" /\ DeviceOf[e] = d
      /\ \A e \in Calls : In(line[d], e) => e \notin Background
      /\ \A e \in Calls : DeviceOf[e] = d /\ pc[e] \in Active
                            => line[d] # <<>> /\ Head(line[d]) = e
  BY <1>0 DEF Right, RouterRight
<1>2. CliRight(d)' /\ SnmpRight(d)'
  BY <1>0 DEF CliRight, SnmpRight
<1>3. RouterRight(d)' => OneServed(d)'
  BY <1>0 DEF RouterRight, OneServed
<1>4. CASE RouterAsk(c)
  <2>1. /\ line' = [line EXCEPT ![d] = Append(@, c)] /\ pc' = [pc EXCEPT ![c] = "waiting"]
        /\ pc[c] = "idle" /\ c \notin Background
    BY <1>4 DEF RouterAsk
  <2>2. /\ Append(line[d], c) \in Seq(Calls) /\ Distinct(Append(line[d], c))
        /\ \A e : In(Append(line[d], c), e) <=> In(line[d], e) \/ e = c
    BY <1>0, <1>1, <2>1, AppendFacts
  <2>3. line[d] # <<>> => Append(line[d], c) # <<>> /\ Head(Append(line[d], c)) = Head(line[d])
    BY <1>0, <2>1, <1>1, AppendFacts, HeadTailAppend
  <2>4. line'[d] = Append(line[d], c) /\ busy'[d] = "free"
    BY <1>0, <1>1, <2>1
  <2>5. RouterRight(d)'
    BY <1>0, <1>1, <2>1, <2>2, <2>3, <2>4 DEF RouterRight, Active
  <2> QED
    BY <1>0, <1>2, <1>3, <2>1, <2>2, <2>5 DEF StepRight, Right, Stages
<1>5. CASE RouterEnter(c)
  <2>1. /\ line' = line /\ pc' = [pc EXCEPT ![c] = "served"]
        /\ pc[c] = "waiting" /\ Head(line[d]) = c
    BY <1>5 DEF RouterEnter
  <2>2. line[d] # <<>>
    BY <1>0, <1>1, <2>1 DEF In
  <2>3. RouterRight(d)'
    BY <1>0, <1>1, <2>1, <2>2 DEF RouterRight, Active
  <2> QED
    BY <1>0, <1>2, <1>3, <2>1, <2>3 DEF StepRight, Right, Stages
<1>6. CASE RouterReturn(c)
  <2>1. /\ line' = [line EXCEPT ![d] = Tail(@)] /\ pc' = [pc EXCEPT ![c] = "idle"]
        /\ pc[c] = "settled"
    BY <1>6 DEF RouterReturn
  <2>2. line[d] # <<>> /\ Head(line[d]) = c
    BY <1>1, <2>1 DEF Active
  <2>3. /\ Tail(line[d]) \in Seq(Calls) /\ Distinct(Tail(line[d]))
        /\ \A e : In(Tail(line[d]), e) <=> In(line[d], e) /\ e # c
    BY <1>0, <1>1, <2>2, TailFacts
  <2>4. \A e \in Calls : ~(DeviceOf[e] = d /\ pc'[e] \in Active)
    BY <1>0, <1>1, <2>1, <2>2 DEF Active
  <2>5. line'[d] = Tail(line[d]) /\ busy'[d] = "free"
    BY <1>0, <1>1, <2>1
  <2>6. RouterRight(d)'
    BY <1>0, <1>1, <2>1, <2>3, <2>4, <2>5 DEF RouterRight, Active
  <2> QED
    BY <1>0, <1>2, <1>3, <2>1, <2>3, <2>6 DEF StepRight, Right, Stages
<1> QED
  BY <1>4, <1>5, <1>6

LEMMA SettleRight ==
  ASSUME Inv, NEW c \in Calls, Settle(c) PROVE StepRight(DeviceOf[c])
<1> DEFINE d == DeviceOf[c]
<1>0. /\ d \in Devices /\ pc \in [Calls -> Stages] /\ lanes \in [Devices -> Lanes]
      /\ line \in [Devices -> Seq(Calls)] /\ kind[d] \in Kinds /\ Right(d)
      /\ busy \in [Devices -> {"free", "running", "resuming"}]
      /\ kind' = kind /\ lanes' = lanes /\ busy' = busy /\ line' = line
      /\ pc' = [pc EXCEPT ![c] = "settled"] /\ pc[c] = "served"
  BY TypeFacts DEF Inv, Settle
<1>1. CliRight(d)'
  BY <1>0 DEF Right, CliRight, Holds, Empty
<1>2. SnmpRight(d)'
  BY <1>0 DEF Right, SnmpRight, HoldsLine, Sorted
<1>3. RouterRight(d)'
  BY <1>0 DEF Right, RouterRight, Active
<1>4. OneServed(d)'
  BY <1>0 DEF Right, OneServed, Active
<1> QED
  BY <1>0, <1>1, <1>2, <1>3, <1>4 DEF StepRight, Right, Stages

LEMMA InitInv == Init => Inv
<1> SUFFICES ASSUME Init PROVE Inv
  OBVIOUS
<1>1. TypeOK
  BY DEF Init, TypeOK
<1>2. ASSUME NEW d \in Devices PROVE Right(d)
  <2>1. \A e, x : ~In(<<>>, e) /\ ~Precedes(<<>>, e, x)
    BY DEF In, Precedes
  <2>2. Distinct(<<>>)
    BY DEF Distinct
  <2>3. Sorted(<<>>)
    BY <2>1 DEF Sorted
  <2>4. /\ kind[d] \in Kinds /\ \A e \in Calls : pc[e] = "idle"
        /\ lanes[d] = [interactive |-> <<>>, background |-> <<>>]
        /\ line[d] = <<>> /\ busy[d] = "free"
    BY DEF Init
  <2>5. CliRight(d)
    BY <2>1, <2>2, <2>4 DEF CliRight, Holds, Empty
  <2>6. SnmpRight(d)
    BY <2>1, <2>2, <2>3, <2>4 DEF SnmpRight, HoldsLine
  <2>7. RouterRight(d)
    BY <2>1, <2>2, <2>4 DEF RouterRight, Active
  <2>8. OneServed(d)
    BY <2>4 DEF OneServed, Active
  <2> QED
    BY <2>5, <2>6, <2>7, <2>8 DEF Right
<1> QED
  BY <1>1, <1>2 DEF Inv

LEMMA NextInv == ASSUME Inv, [Next]_vars PROVE Inv'
<1>1. ASSUME NEW c \in Calls, Ask(c) \/ Work(c) PROVE Inv'
  <2>1. DeviceOf[c] \in Devices
    BY DeviceQueueAssumption
  <2>2. StepRight(DeviceOf[c])
    BY <1>1, CliAskRight, SnmpAskRight, RouterRightStep, SettleRight, CliReturnRight,
       SnmpReturnRight DEF Ask, Work
  <2> QED
    BY <2>1, <2>2, StepInv
<1>2. ASSUME NEW d \in Devices, CliResume(d) PROVE Inv'
  BY <1>2, CliResumeRight, StepInv
<1>3. CASE UNCHANGED vars
  <2>1. ASSUME NEW d \in Devices PROVE Right(d)'
    <3>1. Right(d) /\ kind' = kind /\ pc' = pc /\ lanes' = lanes /\ line' = line /\ busy' = busy
      BY <1>3 DEF Inv, vars
    <3> QED
      BY <3>1 DEF Right, CliRight, Holds, Empty, SnmpRight, HoldsLine, RouterRight, OneServed
  <2>2. TypeOK'
    BY <1>3 DEF Inv, TypeOK, vars
  <2> QED
    BY <2>1, <2>2 DEF Inv
<1> QED
  BY <1>1, <1>2, <1>3 DEF Next

LEMMA InvHolds == Spec => []Inv
<1>1. Inv /\ [Next]_vars => Inv'
  BY NextInv
<1> QED
  BY InitInv, <1>1, PTL DEF Spec

\* Every variable keeps its type: a lane never holds a call of the other urgency, and a
\* queue only callers.
THEOREM TypeCorrect == Spec => []TypeOK
<1>1. Inv => TypeOK
  BY DEF Inv
<1> QED
  BY <1>1, InvHolds, PTL

\* A waiting call is in its queue.
LEMMA Queued ==
  ASSUME Inv, NEW c \in Calls, pc[c] = "waiting"
  PROVE  /\ QueueOf(c) \in Seq(Calls) /\ In(QueueOf(c), c) /\ Distinct(QueueOf(c))
         /\ \A e \in Calls : In(QueueOf(c), e) => DeviceOf[e] = DeviceOf[c] /\ pc[e] # "idle"
         /\ \A e \in Calls : /\ pc[e] = "waiting" /\ DeviceOf[e] = DeviceOf[c]
                             /\ (e \in Background <=> c \in Background)
                             => In(QueueOf(c), e)
         /\ ~IsA(c, "router") => busy[DeviceOf[c]] # "free"
<1> DEFINE d == DeviceOf[c]
<1>0. /\ d \in Devices /\ lanes[d] \in Lanes /\ line[d] \in Seq(Calls) /\ kind[d] \in Kinds
      /\ lanes[d].interactive \in Seq(Calls) /\ lanes[d].background \in Seq(Calls) /\ Right(d)
  BY TypeFacts DEF Inv
<1>1. CASE kind[d] = "cli"
  <2>1. Holds(lanes[d], pc, d) /\ (busy[d] = "free" => Empty(lanes[d]))
    BY <1>0, <1>1 DEF Right, CliRight
  <2>2. QueueOf(c) = IF c \in Background THEN lanes[d].background ELSE lanes[d].interactive
    BY <1>1 DEF QueueOf, IsA, Lane
  <2>3. In(QueueOf(c), c)
    BY <2>1, <2>2 DEF Holds
  <2>4. busy[d] # "free"
    BY <2>1, <2>2, <2>3 DEF Empty, In
  <2> QED
    BY <1>0, <2>1, <2>2, <2>3, <2>4 DEF Holds
<1>2. CASE kind[d] = "snmp"
  <2>1. HoldsLine(line[d], pc, d) /\ (busy[d] = "free" => line[d] = <<>>)
    BY <1>0, <1>2 DEF Right, SnmpRight
  <2>2. QueueOf(c) = line[d]
    BY <1>2 DEF QueueOf, IsA
  <2>3. In(QueueOf(c), c)
    BY <2>1, <2>2 DEF HoldsLine
  <2>4. busy[d] # "free"
    BY <2>1, <2>2, <2>3 DEF In
  <2> QED
    BY <1>0, <2>1, <2>2, <2>3, <2>4 DEF HoldsLine
<1>3. CASE kind[d] = "router"
  <2>1. QueueOf(c) = line[d] /\ IsA(c, "router")
    BY <1>3 DEF QueueOf, IsA
  <2> QED
    BY <1>0, <1>3, <2>1 DEF Right, RouterRight
<1> QED
  BY <1>0, <1>1, <1>2, <1>3 DEF Kinds

\* No waiting call is forgotten or queued twice, and its device never sleeps: the loop
\* of withCliLock and the pump of withSnmpLock lose no wake-up.
THEOREM WaitingIsQueuedHolds == Spec => []WaitingIsQueued
<1>1. Inv => WaitingIsQueued
  <2> SUFFICES ASSUME Inv, NEW c \in Calls, pc[c] = "waiting"
               PROVE  /\ \E i \in DOMAIN QueueOf(c) :
                           \A j \in DOMAIN QueueOf(c) : QueueOf(c)[j] = c <=> j = i
                      /\ ~IsA(c, "router") => busy[DeviceOf[c]] # "free"
    BY DEF WaitingIsQueued
  <2> QED
    BY Queued DEF In, Distinct
<1> QED
  BY <1>1, InvHolds, PTL

-----------------------------------------------------------------------------
(* The refinement: the steps of DeviceTurns, in terms of this module *)

LEMMA BeforeIff ==
  ASSUME NEW c \in Calls, NEW e
  PROVE  e \in Before(c) <=>
           /\ e \in Calls /\ pc[c] = "waiting" /\ pc[e] = "waiting"
           /\ (e \in Background <=> c \in Background)
           /\ Precedes(QueueOf(c), e, c)
  BY DEF Before, Lane, Precedes

LEMMA BeforeIffNext ==
  ASSUME NEW c \in Calls, NEW e
  PROVE  e \in Before(c)' <=>
           /\ e \in Calls /\ pc'[c] = "waiting" /\ pc'[e] = "waiting"
           /\ (e \in Background <=> c \in Background)
           /\ Precedes(QueueOf(c)', e, c)
  BY DEF Before, Lane, Precedes

\* What DeviceTurns sees of a call.
Seen(stage) == IF stage = "settled" THEN "idle" ELSE stage

LEMMA TurnAsk ==
  ASSUME NEW c \in Calls, pc \in [Calls -> Stages], pc[c] = "idle",
         pc' = [pc EXCEPT ![c] = "waiting"],
         \A x \in Calls : x # c => Before(x)' = Before(x),
         \A e : e \in Before(c)' <=>
           /\ e \in Calls /\ DeviceOf[e] = DeviceOf[c] /\ pc[e] = "waiting"
           /\ (e \in Background <=> c \in Background)
  PROVE  Turns!Ask(c)
<1>1. [x \in Calls |-> IF pc'[x] = "settled" THEN "idle" ELSE pc'[x]]
        = [[x \in Calls |-> IF pc[x] = "settled" THEN "idle" ELSE pc[x]]
             EXCEPT ![c] = "waiting"]
  OBVIOUS
<1>2. Before(c)' = Turns!Peers(c) \cap Turns!Waiting
  BY DEF Turns!Peers, Turns!At, Turns!Waiting
<1>3. [x \in Calls |-> Before(x)']
        = [[x \in Calls |-> Before(x)] EXCEPT ![c] = Turns!Peers(c) \cap Turns!Waiting]
  BY <1>2
<1> QED
  BY <1>1, <1>3 DEF Turns!Ask

LEMMA TurnAskServed ==
  ASSUME NEW c \in Calls, pc \in [Calls -> Stages], pc[c] = "idle",
         pc' = [pc EXCEPT ![c] = "served"],
         \A x \in Calls : Before(x)' = Before(x),
         \A e \in Calls : DeviceOf[e] = DeviceOf[c] => pc[e] \notin {"waiting", "served"}
  PROVE  Turns!AskServed(c)
<1>1. [x \in Calls |-> IF pc'[x] = "settled" THEN "idle" ELSE pc'[x]]
        = [[x \in Calls |-> IF pc[x] = "settled" THEN "idle" ELSE pc[x]]
             EXCEPT ![c] = "served"]
  OBVIOUS
<1>2. [x \in Calls |-> Before(x)'] = [x \in Calls |-> Before(x)]
  OBVIOUS
<1>3. Turns!At(c) \cap Turns!Waiting = {} /\ Turns!Serving(c) = {}
  BY DEF Turns!At, Turns!Waiting, Turns!Serving
<1> QED
  BY <1>1, <1>2, <1>3 DEF Turns!AskServed

LEMMA TurnServe ==
  ASSUME NEW c \in Calls, pc \in [Calls -> Stages], pc' \in [Calls -> Stages],
         pc[c] = "waiting",
         pc'[c] = "served", \A x \in Calls : x # c => Seen(pc'[x]) = Seen(pc[x]),
         Before(c) = {},
         \A x \in Calls : Before(x)' = Before(x) \ {c},
         \A e \in Calls : DeviceOf[e] = DeviceOf[c] => pc[e] # "served",
         c \in Background =>
           \A e \in Calls : DeviceOf[e] = DeviceOf[c] /\ pc[e] = "waiting" => e \in Background
  PROVE  Turns!Serve(c)
<1>1. [x \in Calls |-> IF pc'[x] = "settled" THEN "idle" ELSE pc'[x]]
        = [[x \in Calls |-> IF pc[x] = "settled" THEN "idle" ELSE pc[x]]
             EXCEPT ![c] = "served"]
  BY DEF Seen
<1>2. [x \in Calls |-> Before(x)'] = [e \in Calls |-> [x \in Calls |-> Before(x)][e] \ {c}]
  OBVIOUS
<1>3. Turns!Serving(c) = {} /\ (c \in Background => Turns!At(c) \cap Turns!Waiting \subseteq Background)
  BY DEF Turns!At, Turns!Waiting, Turns!Serving
<1> QED
  BY <1>1, <1>2, <1>3 DEF Turns!Serve

LEMMA TurnSettle ==
  ASSUME NEW c \in Calls, pc \in [Calls -> Stages], pc[c] = "served",
         pc' = [pc EXCEPT ![c] = "settled"],
         \A x \in Calls : Before(x)' = Before(x)
  PROVE  Turns!Settle(c)
<1>1. [x \in Calls |-> IF pc'[x] = "settled" THEN "idle" ELSE pc'[x]]
        = [[x \in Calls |-> IF pc[x] = "settled" THEN "idle" ELSE pc[x]]
             EXCEPT ![c] = "idle"]
  OBVIOUS
<1>2. [x \in Calls |-> Before(x)'] = [x \in Calls |-> Before(x)]
  OBVIOUS
<1> QED
  BY <1>1, <1>2 DEF Turns!Settle

LEMMA TurnNone ==
  ASSUME \A x \in Calls : Seen(pc'[x]) = Seen(pc[x]) /\ Before(x)' = Before(x)
  PROVE  UNCHANGED Turns!vars
<1>1. [x \in Calls |-> IF pc'[x] = "settled" THEN "idle" ELSE pc'[x]]
        = [x \in Calls |-> IF pc[x] = "settled" THEN "idle" ELSE pc[x]]
  BY DEF Seen
<1>2. [x \in Calls |-> Before(x)'] = [x \in Calls |-> Before(x)]
  OBVIOUS
<1> QED
  BY <1>1, <1>2 DEF Turns!vars

-----------------------------------------------------------------------------
(* The refinement: what a step at one device does to the order of its calls *)

LEMMA BeforeElsewhere ==
  ASSUME Inv, NEW d \in Devices, StepRight(d), NEW x \in Calls, DeviceOf[x] # d
  PROVE  Before(x)' = Before(x) /\ \A e \in Before(x) : DeviceOf[e] # d
<1>1. QueueOf(x)' = QueueOf(x) /\ pc'[x] = pc[x]
  BY DeviceQueueAssumption DEF QueueOf, IsA, StepRight
<1>2. \A e \in Calls : pc[x] = "waiting" /\ Precedes(QueueOf(x), e, x) => DeviceOf[e] # d
  BY Queued DEF Precedes, In
<1>3. \A e \in Calls : pc[x] = "waiting" /\ Precedes(QueueOf(x), e, x) => pc'[e] = pc[e]
  BY <1>2 DEF StepRight
<1>4. \A e : e \in Before(x)' <=> e \in Before(x)
  BY <1>1, <1>3, BeforeIff, BeforeIffNext
<1>5. \A e \in Before(x) : DeviceOf[e] # d
  BY <1>2, BeforeIff
<1> QED
  BY <1>4, <1>5

LEMMA AskStep ==
  ASSUME Inv, NEW c \in Calls, NEW d, d = DeviceOf[c], StepRight(d),
         pc[c] = "idle", pc' = [pc EXCEPT ![c] = "waiting"],
         \A x \in Calls : DeviceOf[x] = d /\ x # c /\ pc[x] = "waiting" =>
           \A e \in Calls : (e \in Background <=> x \in Background) =>
             /\ e # c => (Precedes(QueueOf(x)', e, x) <=> Precedes(QueueOf(x), e, x))
             /\ ~Precedes(QueueOf(x)', c, x) \/ e # c,
         \A e \in Calls : (e \in Background <=> c \in Background) /\ pc[e] = "waiting" =>
           (Precedes(QueueOf(c)', e, c) <=> DeviceOf[e] = d),
         ~Precedes(QueueOf(c)', c, c)
  PROVE  Turns!Ask(c)
<1>0. pc \in [Calls -> Stages] /\ d \in Devices
  BY TypeFacts DEF Inv
<1>1. ASSUME NEW x \in Calls, x # c PROVE Before(x)' = Before(x)
  <2>1. CASE DeviceOf[x] # d
    BY <1>0, <2>1, BeforeElsewhere
  <2>2. CASE DeviceOf[x] = d
    <3>1. pc'[x] = pc[x]
      BY <1>0, <1>1
    <3>2. ASSUME NEW e, pc[x] = "waiting" PROVE e \in Before(x)' <=> e \in Before(x)
      <4>1. CASE e = c
        BY <1>0, <1>1, <2>2, <3>2, <4>1, BeforeIff, BeforeIffNext
      <4>2. CASE e # c
        BY <1>0, <1>1, <2>2, <3>1, <3>2, <4>2, BeforeIff, BeforeIffNext
      <4> QED
        BY <4>1, <4>2
    <3>3. CASE pc[x] # "waiting"
      <4>1. \A e : e \notin Before(x)' /\ e \notin Before(x)
        BY <3>1, <3>3, BeforeIff, BeforeIffNext
      <4> QED
        BY <4>1
    <3> QED
      BY <3>2, <3>3
  <2> QED
    BY <2>1, <2>2
<1>2. ASSUME NEW e
      PROVE  e \in Before(c)' <=>
               /\ e \in Calls /\ DeviceOf[e] = DeviceOf[c] /\ pc[e] = "waiting"
               /\ (e \in Background <=> c \in Background)
  <2>1. CASE e = c
    BY <2>1, BeforeIffNext
  <2>2. CASE e # c
    BY <1>0, <2>2, BeforeIffNext
  <2> QED
    BY <2>1, <2>2
<1> QED
  BY <1>0, <1>1, <1>2, TurnAsk

LEMMA ServeStep ==
  ASSUME Inv, NEW d \in Devices, StepRight(d), NEW t \in Calls, DeviceOf[t] = d,
         pc[t] = "waiting", pc'[t] = "served",
         \A x \in Calls : x # t => Seen(pc'[x]) = Seen(pc[x]),
         \A e \in Calls : DeviceOf[e] = d => pc[e] # "served",
         \A x, e \in Calls : DeviceOf[x] = d /\ x # t /\ e # t =>
           (Precedes(QueueOf(x)', e, x) <=> Precedes(QueueOf(x), e, x)),
         \A e : ~Precedes(QueueOf(t), e, t),
         t \in Background =>
           \A e \in Calls : DeviceOf[e] = d /\ pc[e] = "waiting" => e \in Background
  PROVE  Turns!Serve(t)
<1>0. pc \in [Calls -> Stages] /\ pc' \in [Calls -> Stages]
  BY TypeFacts DEF Inv, StepRight
<1>1. Before(t) = {}
  <2>1. \A e : e \notin Before(t)
    BY BeforeIff
  <2> QED
    BY <2>1
<1>2. ASSUME NEW x \in Calls PROVE Before(x)' = Before(x) \ {t}
  <2>1. CASE DeviceOf[x] # d
    BY <2>1, BeforeElsewhere
  <2>2. CASE x = t
    <3>1. \A e : e \notin Before(t)'
      BY BeforeIffNext
    <3> QED
      BY <1>1, <2>2, <3>1
  <2>3. CASE DeviceOf[x] = d /\ x # t
    <3>1. \A e \in Calls : e # t => (pc'[e] = "waiting" <=> pc[e] = "waiting")
      BY DEF Seen
    <3>2. ASSUME NEW e PROVE e \in Before(x)' <=> e \in Before(x) /\ e # t
      <4>1. CASE e = t
        BY <4>1, BeforeIffNext
      <4>2. CASE e # t
        BY <2>3, <3>1, <4>2, BeforeIff, BeforeIffNext
      <4> QED
        BY <4>1, <4>2
    <3> QED
      BY <3>2
  <2> QED
    BY <2>1, <2>2, <2>3
<1> QED
  BY <1>0, <1>1, <1>2, TurnServe

\* A step after which the same calls wait in the same order.
LEMMA SameOrder ==
  ASSUME Inv, NEW d \in Devices, StepRight(d),
         \A x \in Calls : pc'[x] = "waiting" <=> pc[x] = "waiting",
         \A x, e \in Calls : DeviceOf[x] = d /\ pc[x] = "waiting" /\ pc[e] = "waiting" =>
           (Precedes(QueueOf(x)', e, x) <=> Precedes(QueueOf(x), e, x))
  PROVE  \A x \in Calls : Before(x)' = Before(x)
<1>1. ASSUME NEW x \in Calls PROVE Before(x)' = Before(x)
  <2>1. CASE DeviceOf[x] # d
    BY <2>1, BeforeElsewhere
  <2>2. CASE DeviceOf[x] = d
    <3>1. \A e : e \in Before(x)' <=> e \in Before(x)
      BY <2>2, BeforeIff, BeforeIffNext
    <3> QED
      BY <3>1
  <2> QED
    BY <2>1, <2>2
<1> QED
  BY <1>1

-----------------------------------------------------------------------------
(* The refinement: the actions *)

\* The loop takes t, the head of a lane, and of the background lane only when nobody
\* urgent waits.
Takes(t, d, q, stages) ==
  /\ stages[t] = "waiting" /\ DeviceOf[t] = d
  /\ pc' = [stages EXCEPT ![t] = "served"]
  /\ \A x, e : x # t /\ e # t =>
       /\ Precedes(lanes'[d].interactive, e, x) <=> Precedes(q.interactive, e, x)
       /\ Precedes(lanes'[d].background, e, x) <=> Precedes(q.background, e, x)
  /\ t \notin Background => \A e : ~Precedes(q.interactive, e, t)
  /\ t \in Background => q.interactive = <<>> /\ \A e : ~Precedes(q.background, e, t)

LEMMA PumpTakes ==
  ASSUME TypeOK, NEW d \in Devices, NEW q \in Lanes, NEW stages \in [Calls -> Stages],
         Holds(q, stages, d), ~Empty(q), Pump(d, q, stages)
  PROVE  \E t \in Calls : Takes(t, d, q, stages)
<1>0. /\ lanes \in [Devices -> Lanes]
      /\ q.interactive \in Seq(Calls) /\ q.background \in Seq(Calls)
      /\ q.interactive \in Seq(Calls \ Background) /\ q.background \in Seq(Background)
      /\ Background \subseteq Calls
  BY TypeFacts
<1>1. CASE q.interactive # <<>>
  <2> DEFINE t == Head(q.interactive)
             rest == [q EXCEPT !.interactive = Tail(@)]
  <2>1. pc' = [stages EXCEPT ![t] = "served"] /\ lanes' = [lanes EXCEPT ![d] = rest]
    BY <1>1 DEF Pump, NextLane
  <2>2. /\ t \in Calls \ Background /\ In(q.interactive, t)
        /\ \A e, x : Precedes(Tail(q.interactive), e, x)
                       <=> Precedes(q.interactive, e, x) /\ e # t /\ x # t
        /\ \A e : ~Precedes(q.interactive, e, t)
    BY <1>0, <1>1, TailFacts DEF Holds
  <2>3. rest.interactive = Tail(q.interactive) /\ rest.background = q.background
    BY DEF Lanes
  <2> HIDE DEF t, rest
  <2>4. lanes'[d].interactive = Tail(q.interactive) /\ lanes'[d].background = q.background
    BY <1>0, <2>1, <2>3
  <2>5. stages[t] = "waiting" /\ DeviceOf[t] = d
    BY <2>2 DEF Holds
  <2> QED
    BY <2>1, <2>2, <2>4, <2>5 DEF Takes
<1>2. CASE q.interactive = <<>>
  <2> DEFINE t == Head(q.background)
             rest == [q EXCEPT !.background = Tail(@)]
  <2>1. pc' = [stages EXCEPT ![t] = "served"] /\ lanes' = [lanes EXCEPT ![d] = rest]
    BY <1>2 DEF Pump, NextLane
  <2>2. /\ t \in Background /\ In(q.background, t)
        /\ \A e, x : Precedes(Tail(q.background), e, x)
                       <=> Precedes(q.background, e, x) /\ e # t /\ x # t
        /\ \A e : ~Precedes(q.background, e, t)
    BY <1>0, <1>2, TailFacts DEF Holds, Empty
  <2>3. rest.background = Tail(q.background) /\ rest.interactive = q.interactive
    BY DEF Lanes
  <2> HIDE DEF t, rest
  <2>4. lanes'[d].background = Tail(q.background) /\ lanes'[d].interactive = q.interactive
    BY <1>0, <2>1, <2>3
  <2>5. t \in Calls /\ stages[t] = "waiting" /\ DeviceOf[t] = d
    BY <1>0, <2>2 DEF Holds
  <2> QED
    BY <1>2, <2>1, <2>2, <2>4, <2>5 DEF Takes
<1> QED
  BY <1>1, <1>2

\* The queue of a call of a cli device.
LEMMA CliQueue ==
  ASSUME NEW x \in Calls, kind[DeviceOf[x]] = "cli", kind' = kind
  PROVE  /\ x \in Background => /\ QueueOf(x) = lanes[DeviceOf[x]].background
                                /\ QueueOf(x)' = lanes'[DeviceOf[x]].background
         /\ x \notin Background => /\ QueueOf(x) = lanes[DeviceOf[x]].interactive
                                   /\ QueueOf(x)' = lanes'[DeviceOf[x]].interactive
  BY DEF QueueOf, IsA, Lane

LEMMA CliResumeTurn ==
  ASSUME Inv, NEW d \in Devices, CliResume(d)
  PROVE  (\E t \in Calls : Turns!Serve(t)) \/ UNCHANGED Turns!vars
<1>0. /\ TypeOK /\ pc \in [Calls -> Stages] /\ lanes[d] \in Lanes /\ Right(d)
      /\ lanes \in [Devices -> Lanes] /\ kind[d] \in Kinds
      /\ kind' = kind /\ busy[d] = "resuming" /\ Pump(d, lanes[d], pc) /\ StepRight(d)
  BY TypeFacts, CliResumeRight DEF Inv, CliResume
<1>1. kind[d] = "cli"
  BY <1>0 DEF Kinds, Right, SnmpRight, RouterRight
<1>2. \A e \in Calls : DeviceOf[e] = d => pc[e] # "served"
  BY <1>0, <1>1 DEF Right, OneServed, Active
<1>3. Holds(lanes[d], pc, d)
  BY <1>0, <1>1 DEF Right, CliRight
<1>4. CASE Empty(lanes[d])
  <2>1. pc' = pc /\ lanes' = lanes
    BY <1>0, <1>4 DEF Pump
  <2>2. \A x \in Calls : DeviceOf[x] = d => QueueOf(x)' = QueueOf(x)
    BY <1>0, <1>1, <2>1, CliQueue
  <2>3. \A x \in Calls : Before(x)' = Before(x)
    BY <1>0, <2>1, <2>2, SameOrder
  <2> QED
    BY <2>1, <2>3, TurnNone
<1>5. CASE ~Empty(lanes[d])
  <2>0. PICK t \in Calls : Takes(t, d, lanes[d], pc)
    BY <1>0, <1>3, <1>5, PumpTakes
  <2>1. /\ pc[t] = "waiting" /\ DeviceOf[t] = d
        /\ pc' = [pc EXCEPT ![t] = "served"]
        /\ \A x, e : x # t /\ e # t =>
             /\ Precedes(lanes'[d].interactive, e, x) <=> Precedes(lanes[d].interactive, e, x)
             /\ Precedes(lanes'[d].background, e, x) <=> Precedes(lanes[d].background, e, x)
        /\ t \notin Background => \A e : ~Precedes(lanes[d].interactive, e, t)
        /\ t \in Background => /\ lanes[d].interactive = <<>>
                               /\ \A e : ~Precedes(lanes[d].background, e, t)
    BY <2>0 DEF Takes
  <2>2. pc'[t] = "served" /\ \A x \in Calls : x # t => Seen(pc'[x]) = Seen(pc[x])
    <3>1. pc' = [pc EXCEPT ![t] = "served"]
      BY <2>1
    <3> QED
      BY <1>0, <3>1
  <2>3. \A x, e \in Calls : DeviceOf[x] = d /\ x # t /\ e # t =>
           (Precedes(QueueOf(x)', e, x) <=> Precedes(QueueOf(x), e, x))
    BY <1>0, <1>1, <2>1, CliQueue
  <2>4. \A e : ~Precedes(QueueOf(t), e, t)
    BY <1>0, <1>1, <2>1, CliQueue
  <2>5. t \in Background =>
           \A e \in Calls : DeviceOf[e] = d /\ pc[e] = "waiting" => e \in Background
    BY <1>3, <2>1 DEF Holds, In
  <2>6. Turns!Serve(t)
    BY <1>0, <1>2, <2>1, <2>2, <2>3, <2>4, <2>5, ServeStep
  <2> QED
    BY <2>6
<1> QED
  BY <1>4, <1>5

LEMMA CliAskTurn ==
  ASSUME Inv, NEW c \in Calls, CliAsk(c) PROVE Turns!Ask(c) \/ Turns!AskServed(c)
<1> DEFINE d == DeviceOf[c]
           q == [lanes[d] EXCEPT ![Lane(c)] = Append(@, c)]
           stages == [pc EXCEPT ![c] = "waiting"]
<1>0. /\ TypeOK /\ d \in Devices /\ pc \in [Calls -> Stages] /\ lanes \in [Devices -> Lanes]
      /\ kind[d] = "cli" /\ pc[c] = "idle" /\ Right(d) /\ lanes[d] \in Lanes
      /\ lanes[d].interactive \in Seq(Calls) /\ lanes[d].background \in Seq(Calls)
      /\ kind' = kind /\ StepRight(d) /\ Holds(lanes[d], pc, d)
  BY TypeFacts, CliAskRight DEF Inv, CliAsk, IsA, Right, CliRight
<1>1. q \in Lanes /\ stages \in [Calls -> Stages] /\ Holds(q, stages, d)
  BY <1>0, PushHolds
<1>2. /\ c \in Background => /\ q.background = Append(lanes[d].background, c)
                             /\ q.interactive = lanes[d].interactive
      /\ c \notin Background => /\ q.interactive = Append(lanes[d].interactive, c)
                                /\ q.background = lanes[d].background
  BY <1>0 DEF Lane, Lanes
<1>3. CASE busy[d] = "free"
  <2>1. Pump(d, q, stages) /\ Empty(lanes[d])
    BY <1>0, <1>3 DEF CliAsk, Right, CliRight
  <2>2. \A e \in Calls : DeviceOf[e] = d => pc[e] \notin {"waiting", "served"}
    BY <1>0, <1>3, <2>1 DEF Right, OneServed, Active, Holds, Empty, In
  <2>3. ~Empty(q)
    <3>1. In(q.interactive, c) \/ In(q.background, c)
      BY <1>0, <1>1 DEF Holds
    <3> QED
      BY <3>1 DEF In, Empty
  <2> HIDE DEF q, stages
  <2>0. PICK t \in Calls : Takes(t, d, q, stages)
    BY <1>0, <1>1, <2>1, <2>3, PumpTakes
  <2>4. /\ stages[t] = "waiting" /\ DeviceOf[t] = d
        /\ pc' = [stages EXCEPT ![t] = "served"]
    BY <2>0 DEF Takes
  <2> USE DEF stages
  <2>5. t = c
    BY <1>0, <2>2, <2>4
  <2>6. pc' = [pc EXCEPT ![c] = "served"]
    BY <1>0, <2>4, <2>5
  <2>7. /\ \A x \in Calls : pc'[x] = "waiting" <=> pc[x] = "waiting"
        /\ \A x \in Calls : DeviceOf[x] = d => pc[x] # "waiting"
    BY <1>0, <2>2, <2>6
  <2>8. \A x \in Calls : Before(x)' = Before(x)
    BY <1>0, <2>7, SameOrder
  <2> QED
    BY <1>0, <2>2, <2>6, <2>8, TurnAskServed
<1>4. CASE busy[d] # "free"
  <2>1. lanes' = [lanes EXCEPT ![d] = q] /\ pc' = stages
    BY <1>4 DEF CliAsk
  <2>2. ~In(lanes[d].interactive, c) /\ ~In(lanes[d].background, c)
    BY <1>0 DEF Holds
  <2>3. /\ \A e, x : e # c /\ x # c =>
             /\ Precedes(q.interactive, e, x) <=> Precedes(lanes[d].interactive, e, x)
             /\ Precedes(q.background, e, x) <=> Precedes(lanes[d].background, e, x)
        /\ c \in Background => \A e : /\ Precedes(q.background, e, c) <=> In(lanes[d].background, e)
                                      /\ ~Precedes(q.background, c, e)
        /\ c \notin Background =>
             \A e : /\ Precedes(q.interactive, e, c) <=> In(lanes[d].interactive, e)
                    /\ ~Precedes(q.interactive, c, e)
    <3>1. Distinct(lanes[d].interactive) /\ Distinct(lanes[d].background)
      BY <1>0 DEF Holds
    <3>2. ASSUME NEW l \in Seq(Calls), Distinct(l), ~In(l, c)
          PROVE  /\ \A e, x : e # c /\ x # c => (Precedes(Append(l, c), e, x) <=> Precedes(l, e, x))
                 /\ \A e : /\ Precedes(Append(l, c), e, c) <=> In(l, e)
                           /\ ~Precedes(Append(l, c), c, e)
      BY <3>2, AppendFacts
    <3> HIDE DEF q, stages
    <3>3. CASE c \in Background
      <4>1. q.background = Append(lanes[d].background, c) /\ q.interactive = lanes[d].interactive
        BY <1>2, <3>3
      <4> QED
        BY <1>0, <2>2, <3>1, <3>2, <3>3, <4>1
    <3>4. CASE c \notin Background
      <4>1. q.interactive = Append(lanes[d].interactive, c) /\ q.background = lanes[d].background
        BY <1>2, <3>4
      <4> QED
        BY <1>0, <2>2, <3>1, <3>2, <3>4, <4>1
    <3> QED
      BY <3>3, <3>4
  <2> HIDE DEF q
  <2>4. lanes'[d] = q
    BY <1>0, <2>1
  <2>5. \A x \in Calls : DeviceOf[x] = d /\ x # c /\ pc[x] = "waiting" =>
           \A e \in Calls : (e \in Background <=> x \in Background) =>
             /\ e # c => (Precedes(QueueOf(x)', e, x) <=> Precedes(QueueOf(x), e, x))
             /\ ~Precedes(QueueOf(x)', c, x) \/ e # c
    BY <1>0, <2>3, <2>4, CliQueue
  <2>6. \A e \in Calls : (e \in Background <=> c \in Background) /\ pc[e] = "waiting" =>
           (Precedes(QueueOf(c)', e, c) <=> DeviceOf[e] = d)
    BY <1>0, <2>3, <2>4, CliQueue DEF Holds
  <2>7. ~Precedes(QueueOf(c)', c, c)
    BY <1>0, <2>3, <2>4, CliQueue
  <2> QED
    BY <1>0, <2>1, <2>5, <2>6, <2>7, AskStep
<1> QED
  BY <1>3, <1>4

LEMMA CliReturnTurn ==
  ASSUME Inv, NEW c \in Calls, CliReturn(c) PROVE UNCHANGED Turns!vars
<1> DEFINE d == DeviceOf[c]
<1>0. /\ d \in Devices /\ pc \in [Calls -> Stages] /\ kind[d] = "cli" /\ kind' = kind
      /\ lanes' = lanes /\ pc[c] = "settled" /\ pc' = [pc EXCEPT ![c] = "idle"]
      /\ StepRight(d)
  BY TypeFacts, CliReturnRight DEF Inv, CliReturn, IsA
<1>1. \A x \in Calls : Seen(pc'[x]) = Seen(pc[x]) /\ (pc'[x] = "waiting" <=> pc[x] = "waiting")
  BY <1>0 DEF Seen
<1>2. \A x \in Calls : DeviceOf[x] = d => QueueOf(x)' = QueueOf(x)
  BY <1>0, CliQueue
<1>3. \A x \in Calls : Before(x)' = Before(x)
  BY <1>0, <1>1, <1>2, SameOrder
<1> QED
  BY <1>1, <1>3, TurnNone

\* pumpSnmp takes t, the head of a queue in order of urgency.
TakesHead(t, d, q, stages) ==
  /\ stages[t] = "waiting" /\ DeviceOf[t] = d
  /\ pc' = [stages EXCEPT ![t] = "served"]
  /\ \A x, e : x # t /\ e # t => (Precedes(line'[d], e, x) <=> Precedes(q, e, x))
  /\ \A e : ~Precedes(q, e, t)
  /\ t \in Background => \A e : In(q, e) => e \in Background

LEMMA PumpSnmpTakes ==
  ASSUME TypeOK, NEW d \in Devices, NEW q \in Seq(Calls), NEW stages \in [Calls -> Stages],
         HoldsLine(q, stages, d), q # <<>>, PumpSnmp(d, q, stages)
  PROVE  \E t \in Calls : TakesHead(t, d, q, stages)
<1> DEFINE first == FirstOf(q, Calls \ Background)
           i == IF first # 0 THEN first ELSE 1
           t == Head(q)
<1>0. line \in [Devices -> Seq(Calls)]
  BY TypeFacts
<1>1. line' = [line EXCEPT ![d] = Without(q, i)] /\ pc' = [stages EXCEPT ![q[i]] = "served"]
  BY DEF PumpSnmp
<1>2. /\ i = 1 /\ Without(q, i) = Tail(q) /\ q[i] = t
      /\ t \in Background => \A e : In(q, e) => e \in Background
  <2>1. /\ first \in {0, 1} /\ Without(q, 1) = Tail(q)
        /\ q[1] \in Background => \A e : In(q, e) => e \in Background
    BY TakenFacts DEF HoldsLine
  <2>2. q[1] = t
    OBVIOUS
  <2> HIDE DEF first, t
  <2> QED
    BY <2>1, <2>2
<1>3. line' = [line EXCEPT ![d] = Tail(q)] /\ pc' = [stages EXCEPT ![t] = "served"]
  <2> HIDE DEF i, t
  <2> QED
    BY <1>1, <1>2
<1>4. /\ t \in Calls /\ In(q, t) /\ Tail(q) \in Seq(Calls)
      /\ \A e, x : Precedes(Tail(q), e, x) <=> Precedes(q, e, x) /\ e # t /\ x # t
      /\ \A e : ~Precedes(q, e, t)
  BY TailFacts DEF HoldsLine
<1> HIDE DEF t, i, first
<1>5. line'[d] = Tail(q)
  BY <1>0, <1>3
<1>6. stages[t] = "waiting" /\ DeviceOf[t] = d
  BY <1>4 DEF HoldsLine
<1>7. TakesHead(t, d, q, stages)
  BY <1>2, <1>3, <1>4, <1>5, <1>6 DEF TakesHead
<1> QED
  BY <1>4, <1>7

\* The queue of a call of any other device.
LEMMA LineQueue ==
  ASSUME NEW x \in Calls, kind[DeviceOf[x]] # "cli", kind' = kind
  PROVE  QueueOf(x) = line[DeviceOf[x]] /\ QueueOf(x)' = line'[DeviceOf[x]]
  BY DEF QueueOf, IsA

LEMMA SnmpAskTurn ==
  ASSUME Inv, NEW c \in Calls, SnmpAsk(c) PROVE Turns!Ask(c) \/ Turns!AskServed(c)
<1> DEFINE d == DeviceOf[c]
           q == Inserted(line[d], c)
           stages == [pc EXCEPT ![c] = "waiting"]
<1>0. /\ TypeOK /\ d \in Devices /\ pc \in [Calls -> Stages] /\ line \in [Devices -> Seq(Calls)]
      /\ kind[d] = "snmp" /\ kind[d] # "cli" /\ pc[c] = "idle" /\ Right(d) /\ line[d] \in Seq(Calls)
      /\ kind' = kind /\ StepRight(d) /\ HoldsLine(line[d], pc, d) /\ ~In(line[d], c)
  <2>1. /\ TypeOK /\ d \in Devices /\ pc \in [Calls -> Stages] /\ line \in [Devices -> Seq(Calls)]
        /\ line[d] \in Seq(Calls)
    BY TypeFacts DEF Inv
  <2>2. kind[d] = "snmp" /\ kind[d] # "cli" /\ pc[c] = "idle" /\ kind' = kind
    BY DEF SnmpAsk, IsA
  <2>3. Right(d) /\ StepRight(d)
    BY <2>1, SnmpAskRight DEF Inv
  <2>4. HoldsLine(line[d], pc, d)
    BY <2>2, <2>3 DEF Right, SnmpRight
  <2>5. ~In(line[d], c)
    BY <2>2, <2>4 DEF HoldsLine
  <2> QED
    BY <2>1, <2>2, <2>3, <2>4, <2>5
<1>1. /\ q \in Seq(Calls) /\ q # <<>> /\ Distinct(q) /\ Sorted(q)
      /\ \A e : In(q, e) <=> In(line[d], e) \/ e = c
      /\ \A e, x : e # c /\ x # c => (Precedes(q, e, x) <=> Precedes(line[d], e, x))
      /\ \A e : (e \in Background <=> c \in Background)
                  => /\ Precedes(q, e, c) <=> In(line[d], e)
                     /\ ~Precedes(q, c, e)
  BY <1>0, InsertedFacts DEF HoldsLine
<1> HIDE DEF q
<1>2. stages \in [Calls -> Stages] /\ HoldsLine(q, stages, d)
  BY <1>0, <1>1 DEF HoldsLine, Stages
<1>3. CASE busy[d] = "free"
  <2>1. PumpSnmp(d, q, stages) /\ line[d] = <<>>
    BY <1>0, <1>3 DEF SnmpAsk, Right, SnmpRight, q
  <2>2. \A e \in Calls : DeviceOf[e] = d => pc[e] \notin {"waiting", "served"}
    BY <1>0, <1>3, <2>1 DEF Right, OneServed, Active, HoldsLine, In
  <2> HIDE DEF stages
  <2>3. PICK t \in Calls : TakesHead(t, d, q, stages)
    BY <1>0, <1>1, <1>2, <2>1, PumpSnmpTakes
  <2>4. /\ stages[t] = "waiting" /\ DeviceOf[t] = d
        /\ pc' = [stages EXCEPT ![t] = "served"]
    BY <2>3 DEF TakesHead
  <2> USE DEF stages
  <2>5. t = c
    BY <1>0, <2>2, <2>4
  <2>6. pc' = [pc EXCEPT ![c] = "served"]
    BY <1>0, <2>4, <2>5
  <2>7. /\ \A x \in Calls : pc'[x] = "waiting" <=> pc[x] = "waiting"
        /\ \A x \in Calls : DeviceOf[x] = d => pc[x] # "waiting"
    BY <1>0, <2>2, <2>6
  <2>8. \A x \in Calls : Before(x)' = Before(x)
    BY <1>0, <2>7, SameOrder
  <2> QED
    BY <1>0, <2>2, <2>6, <2>8, TurnAskServed
<1>4. CASE busy[d] # "free"
  <2>1. line' = [line EXCEPT ![d] = q] /\ pc' = stages
    BY <1>4 DEF SnmpAsk, q
  <2>2. line'[d] = q
    BY <1>0, <2>1
  <2>3. \A x \in Calls : DeviceOf[x] = d => QueueOf(x) = line[d] /\ QueueOf(x)' = q
    BY <1>0, <2>2, LineQueue
  <2>4. \A x \in Calls : DeviceOf[x] = d /\ x # c /\ pc[x] = "waiting" =>
           \A e \in Calls : (e \in Background <=> x \in Background) =>
             /\ e # c => (Precedes(QueueOf(x)', e, x) <=> Precedes(QueueOf(x), e, x))
             /\ ~Precedes(QueueOf(x)', c, x) \/ e # c
    BY <1>1, <2>3
  <2>5. \A e \in Calls : (e \in Background <=> c \in Background) /\ pc[e] = "waiting" =>
           (Precedes(QueueOf(c)', e, c) <=> DeviceOf[e] = d)
    BY <1>0, <1>1, <2>3 DEF HoldsLine
  <2>6. ~Precedes(QueueOf(c)', c, c)
    BY <1>1, <2>3
  <2> QED
    BY <1>0, <2>1, <2>4, <2>5, <2>6, AskStep
<1> QED
  BY <1>3, <1>4

LEMMA SnmpReturnTurn ==
  ASSUME Inv, NEW c \in Calls, SnmpReturn(c)
  PROVE  (\E t \in Calls : Turns!Serve(t)) \/ UNCHANGED Turns!vars
<1> DEFINE d == DeviceOf[c]
           stages == [pc EXCEPT ![c] = "idle"]
<1>0. /\ TypeOK /\ d \in Devices /\ pc \in [Calls -> Stages] /\ line \in [Devices -> Seq(Calls)]
      /\ kind[d] = "snmp" /\ kind[d] # "cli" /\ pc[c] = "settled" /\ Right(d)
      /\ line[d] \in Seq(Calls) /\ kind' = kind /\ StepRight(d)
      /\ PumpSnmp(d, line[d], stages) /\ HoldsLine(line[d], pc, d)
  BY TypeFacts, SnmpReturnRight DEF Inv, SnmpReturn, IsA, Right, SnmpRight
<1>1. stages \in [Calls -> Stages] /\ HoldsLine(line[d], stages, d)
  BY <1>0 DEF HoldsLine, Stages
<1>2. \A e \in Calls : DeviceOf[e] = d => pc[e] # "served"
  BY <1>0 DEF Right, OneServed, Active
<1>3. CASE line[d] = <<>>
  <2>1. pc' = stages /\ line' = [line EXCEPT ![d] = line[d]]
    BY <1>0, <1>3 DEF PumpSnmp
  <2>2. \A x \in Calls : DeviceOf[x] = d => QueueOf(x)' = QueueOf(x)
    BY <1>0, <2>1, LineQueue
  <2>3. \A x \in Calls : pc'[x] = "waiting" <=> pc[x] = "waiting"
    BY <1>0, <2>1
  <2>4. \A x \in Calls : Before(x)' = Before(x)
    BY <1>0, <2>2, <2>3, SameOrder
  <2>5. \A x \in Calls : Seen(pc'[x]) = Seen(pc[x])
    BY <1>0, <2>1 DEF Seen
  <2> QED
    BY <2>4, <2>5, TurnNone
<1>4. CASE line[d] # <<>>
  <2> HIDE DEF stages
  <2>1. PICK t \in Calls : TakesHead(t, d, line[d], stages)
    BY <1>0, <1>1, <1>4, PumpSnmpTakes
  <2>2. /\ stages[t] = "waiting" /\ DeviceOf[t] = d
        /\ pc' = [stages EXCEPT ![t] = "served"]
        /\ \A x, e : x # t /\ e # t => (Precedes(line'[d], e, x) <=> Precedes(line[d], e, x))
        /\ \A e : ~Precedes(line[d], e, t)
        /\ t \in Background => \A e : In(line[d], e) => e \in Background
    BY <2>1 DEF TakesHead
  <2>3. pc[t] = "waiting"
    BY <1>0, <2>2 DEF stages
  <2>4. pc'[t] = "served" /\ \A x \in Calls : x # t => Seen(pc'[x]) = Seen(pc[x])
    <3>1. pc' = [[pc EXCEPT ![c] = "idle"] EXCEPT ![t] = "served"]
      BY <2>2 DEF stages
    <3> QED
      BY <1>0, <3>1 DEF Seen
  <2>5. \A x \in Calls : DeviceOf[x] = d => QueueOf(x) = line[d] /\ QueueOf(x)' = line'[d]
    BY <1>0, LineQueue
  <2>6. \A x, e \in Calls : DeviceOf[x] = d /\ x # t /\ e # t =>
           (Precedes(QueueOf(x)', e, x) <=> Precedes(QueueOf(x), e, x))
    BY <2>2, <2>5
  <2>7. \A e : ~Precedes(QueueOf(t), e, t)
    BY <2>2, <2>5
  <2>8. t \in Background =>
           \A e \in Calls : DeviceOf[e] = d /\ pc[e] = "waiting" => e \in Background
    BY <1>0, <2>2 DEF HoldsLine
  <2>9. Turns!Serve(t)
    BY <1>0, <1>2, <2>2, <2>3, <2>4, <2>6, <2>7, <2>8, ServeStep
  <2> QED
    BY <2>9
<1> QED
  BY <1>3, <1>4

LEMMA RouterTurn ==
  ASSUME Inv, NEW c \in Calls, RouterAsk(c) \/ RouterEnter(c) \/ RouterReturn(c)
  PROVE  Turns!Ask(c) \/ Turns!Serve(c) \/ UNCHANGED Turns!vars
<1> DEFINE d == DeviceOf[c]
<1>0. /\ d \in Devices /\ pc \in [Calls -> Stages] /\ line \in [Devices -> Seq(Calls)]
      /\ line[d] \in Seq(Calls) /\ kind[d] = "router" /\ kind[d] # "cli" /\ Right(d)
      /\ kind' = kind /\ StepRight(d)
  BY TypeFacts, RouterRightStep DEF Inv, RouterAsk, RouterEnter, RouterReturn, IsA
<1>1. /\ Distinct(line[d])
      /\ \A e \in Calls : In(line[d], e) <=> pc[e] # "idle" /\ DeviceOf[e] = d
      /\ \A e \in Calls : In(line[d], e) => e \notin Background
      /\ \A e \in Calls : DeviceOf[e] = d /\ pc[e] \in Active
                            => line[d] # <<>> /\ Head(line[d]) = e
  BY <1>0 DEF Right, RouterRight
<1>2. \A x \in Calls : DeviceOf[x] = d => QueueOf(x) = line[d] /\ QueueOf(x)' = line'[d]
  BY <1>0, LineQueue
<1>3. CASE RouterAsk(c)
  <2>1. /\ line' = [line EXCEPT ![d] = Append(@, c)] /\ pc' = [pc EXCEPT ![c] = "waiting"]
        /\ pc[c] = "idle" /\ c \notin Background
    BY <1>3 DEF RouterAsk
  <2>2. ~In(line[d], c) /\ line'[d] = Append(line[d], c)
    BY <1>0, <1>1, <2>1
  <2>3. /\ \A e, x : e # c /\ x # c => (Precedes(line'[d], e, x) <=> Precedes(line[d], e, x))
        /\ \A e : Precedes(line'[d], e, c) <=> In(line[d], e)
        /\ \A e : ~Precedes(line'[d], c, e)
    BY <1>0, <1>1, <2>2, AppendFacts
  <2>4. \A x \in Calls : DeviceOf[x] = d /\ x # c /\ pc[x] = "waiting" =>
           \A e \in Calls : (e \in Background <=> x \in Background) =>
             /\ e # c => (Precedes(QueueOf(x)', e, x) <=> Precedes(QueueOf(x), e, x))
             /\ ~Precedes(QueueOf(x)', c, x) \/ e # c
    BY <1>2, <2>3
  <2>5. \A e \in Calls : (e \in Background <=> c \in Background) /\ pc[e] = "waiting" =>
           (Precedes(QueueOf(c)', e, c) <=> DeviceOf[e] = d)
    BY <1>1, <1>2, <2>3
  <2>6. ~Precedes(QueueOf(c)', c, c)
    BY <1>2, <2>3
  <2>7. Turns!Ask(c)
    BY <1>0, <2>1, <2>4, <2>5, <2>6, AskStep
  <2> QED
    BY <2>7
<1>4. CASE RouterEnter(c)
  <2>1. /\ line' = line /\ pc' = [pc EXCEPT ![c] = "served"]
        /\ pc[c] = "waiting" /\ Head(line[d]) = c
    BY <1>4 DEF RouterEnter
  <2>2. line[d] # <<>> /\ c \notin Background
    BY <1>0, <1>1, <2>1 DEF In
  <2>3. \A e : ~Precedes(line[d], e, c)
    <3>1. \A e : ~Precedes(line[d], e, Head(line[d]))
      BY <1>0, <1>1, <2>2, TailFacts
    <3> QED
      BY <2>1, <3>1, Zenon
  <2>4. \A e \in Calls : DeviceOf[e] = d => pc[e] # "served"
    BY <1>1, <2>1 DEF Active
  <2>5. pc'[c] = "served" /\ \A x \in Calls : x # c => Seen(pc'[x]) = Seen(pc[x])
    BY <1>0, <2>1
  <2>6. \A x, e \in Calls : DeviceOf[x] = d /\ x # c /\ e # c =>
           (Precedes(QueueOf(x)', e, x) <=> Precedes(QueueOf(x), e, x))
    BY <1>2, <2>1
  <2>7. \A e : ~Precedes(QueueOf(c), e, c)
    BY <1>2, <2>3
  <2>8. Turns!Serve(c)
    BY <1>0, <2>1, <2>2, <2>4, <2>5, <2>6, <2>7, ServeStep
  <2> QED
    BY <2>8
<1>5. CASE RouterReturn(c)
  <2>1. /\ line' = [line EXCEPT ![d] = Tail(@)] /\ pc' = [pc EXCEPT ![c] = "idle"]
        /\ pc[c] = "settled"
    BY <1>5 DEF RouterReturn
  <2>2. line[d] # <<>> /\ Head(line[d]) = c /\ line'[d] = Tail(line[d])
    BY <1>0, <1>1, <2>1 DEF Active
  <2>3. \A e, x : Precedes(line'[d], e, x) <=> Precedes(line[d], e, x) /\ e # c /\ x # c
    BY <1>0, <1>1, <2>2, TailFacts
  <2>4. \A x \in Calls : pc'[x] = "waiting" <=> pc[x] = "waiting"
    BY <1>0, <2>1
  <2>5. \A x, e \in Calls : DeviceOf[x] = d /\ pc[x] = "waiting" /\ pc[e] = "waiting" =>
           (Precedes(QueueOf(x)', e, x) <=> Precedes(QueueOf(x), e, x))
    BY <1>2, <2>1, <2>3
  <2>6. \A x \in Calls : Before(x)' = Before(x)
    BY <1>0, <2>4, <2>5, SameOrder
  <2>7. \A x \in Calls : Seen(pc'[x]) = Seen(pc[x])
    BY <1>0, <2>1 DEF Seen
  <2> QED
    BY <2>6, <2>7, TurnNone
<1> QED
  BY <1>3, <1>4, <1>5

LEMMA SettleTurn ==
  ASSUME Inv, NEW c \in Calls, Settle(c) PROVE Turns!Settle(c)
<1> DEFINE d == DeviceOf[c]
<1>0. /\ d \in Devices /\ pc \in [Calls -> Stages] /\ StepRight(d)
      /\ kind' = kind /\ lanes' = lanes /\ line' = line
      /\ pc' = [pc EXCEPT ![c] = "settled"] /\ pc[c] = "served"
  BY TypeFacts, SettleRight DEF Inv, Settle
<1>1. \A x \in Calls : QueueOf(x)' = QueueOf(x)
  BY <1>0 DEF QueueOf, IsA
<1>2. \A x \in Calls : pc'[x] = "waiting" <=> pc[x] = "waiting"
  BY <1>0
<1>3. \A x \in Calls : Before(x)' = Before(x)
  BY <1>0, <1>1, <1>2, SameOrder
<1> QED
  BY <1>0, <1>3, TurnSettle

LEMMA InitTurns == Init => Turns!Init
<1> SUFFICES ASSUME Init PROVE Turns!Init
  OBVIOUS
<1>1. \A c \in Calls : pc[c] = "idle"
  BY DEF Init
<1>2. \A c \in Calls : Before(c) = {}
  BY <1>1 DEF Before
<1> QED
  BY <1>1, <1>2 DEF Turns!Init

LEMMA NextTurns == ASSUME Inv, [Next]_vars PROVE [Turns!Next]_(Turns!vars)
<1>1. ASSUME NEW c \in Calls, Ask(c) \/ Work(c) PROVE [Turns!Next]_(Turns!vars)
  <2>1. CliAsk(c) \/ SnmpAsk(c) => Turns!Ask(c) \/ Turns!AskServed(c)
    BY CliAskTurn, SnmpAskTurn
  <2>2. RouterAsk(c) \/ RouterEnter(c) \/ RouterReturn(c)
          => Turns!Ask(c) \/ Turns!Serve(c) \/ UNCHANGED Turns!vars
    BY RouterTurn
  <2>3. CliReturn(c) => UNCHANGED Turns!vars
    BY CliReturnTurn
  <2>4. SnmpReturn(c) => (\E t \in Calls : Turns!Serve(t)) \/ UNCHANGED Turns!vars
    BY SnmpReturnTurn
  <2>5. Settle(c) => Turns!Settle(c)
    BY SettleTurn
  <2> QED
    BY <1>1, <2>1, <2>2, <2>3, <2>4, <2>5 DEF Ask, Work, Turns!Next
<1>2. ASSUME NEW d \in Devices, CliResume(d) PROVE [Turns!Next]_(Turns!vars)
  <2>1. (\E t \in Calls : Turns!Serve(t)) \/ UNCHANGED Turns!vars
    BY <1>2, CliResumeTurn
  <2> QED
    BY <2>1 DEF Turns!Next
<1>3. CASE UNCHANGED vars
  <2>1. /\ \A x \in Calls : QueueOf(x)' = QueueOf(x)
        /\ pc' = pc
    BY <1>3 DEF QueueOf, IsA, vars
  <2>2. ASSUME NEW x \in Calls PROVE Before(x)' = Before(x)
    <3>1. \A e : e \in Before(x)' <=> e \in Before(x)
      BY <2>1, BeforeIff, BeforeIffNext
    <3> QED
      BY <3>1
  <2> QED
    BY <2>1, <2>2, TurnNone
<1> QED
  BY <1>1, <1>2, <1>3 DEF Next

\* withCliLock, withSnmpLock and withDeviceLock implement DeviceTurns, for any callers,
\* devices and priorities: a device serves one call at a time, urgent ones first and
\* calls of the same urgency in the order in which they were made.
THEOREM TakesTurnsHolds == Spec => TakesTurns
<1>1. Inv /\ [Next]_vars => [Turns!Next]_(Turns!vars)
  BY NextTurns
<1> QED
  BY InitTurns, InvHolds, <1>1, PTL DEF Spec, TakesTurns, Turns!Spec
=============================================================================
