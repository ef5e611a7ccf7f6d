------------------------- MODULE VerifyPollerProofs -------------------------
(***************************************************************************)
(* Theorems about VerifyPoller, for any tenants, ONUs, caps and ticks: the *)
(* flag that keeps ticks apart, and what a tick never does twice, even if  *)
(* ticks lose their race and go on for ever.                               *)
(***************************************************************************)
EXTENDS VerifyPoller, SequenceTheorems, FunctionTheorems, FiniteSetTheorems, TLAPS

-----------------------------------------------------------------------------
(* The invariants *)

\* A tick knows ONUs of a tenant, listed or visited, only while it maps them.
IdleTenants ==
  \A k \in Ticks, n \in Tenants :
    tenant[k][n] # "mapping" => due[k] \cap OnusOf[n] = {} /\ VisitsOf(k, n) = {}

\* A tenant that no runner of the tick has taken yet is not at work.
TodoIdle == \A k \in Ticks : \A n \in todo[k] : tenant[k][n] = "none"

\* An ONU that a runner may still take is not being visited by that tick.
DueOnce == \A k \in Ticks : \A o \in due[k] : ~Visits(k, o)

Inv == TypeOK /\ FlagFollowsRace

Once(q) == \A i, j \in DOMAIN q : q[i] = q[j] => i = j

OnceInv == Inv /\ TodoIdle /\ IdleTenants /\ DueOnce /\ VisitedOncePerTick

-----------------------------------------------------------------------------
(* Facts about queues *)

LEMMA ForgetsFacts ==
  ASSUME NEW q \in Seq(Ticks), NEW k \in Ticks
  PROVE  /\ Forgets(q, k) \in Seq(Ticks)
         /\ \A i \in DOMAIN Forgets(q, k) : \E j \in DOMAIN q : Forgets(q, k)[i] = q[j]
         /\ Once(q) => /\ Once(Forgets(q, k))
                       /\ \A i \in DOMAIN Forgets(q, k) : Forgets(q, k)[i] # k
<1>1. DOMAIN q = 1 .. Len(q) /\ Len(q) \in Nat /\ \A i \in 1 .. Len(q) : q[i] \in Ticks
  OBVIOUS
<1>2. CASE ~\E i \in DOMAIN q : q[i] = k
  <2>1. Forgets(q, k) = q
    BY <1>2 DEF Forgets
  <2> QED
    BY <1>2, <2>1
<1>3. CASE \E i \in DOMAIN q : q[i] = k
  <2> DEFINE at == CHOOSE i \in DOMAIN q : q[i] = k
             rest == [i \in 1 .. Len(q) - 1 |-> IF i < at THEN q[i] ELSE q[i + 1]]
  <2>1. at \in 1 .. Len(q) /\ q[at] = k
    BY <1>1, <1>3
  <2>2. Forgets(q, k) = rest
    BY <1>3 DEF Forgets
  <2> HIDE DEF at
  <2>3. Len(q) - 1 \in Nat
    BY <1>1, <2>1
  <2>4. /\ DOMAIN rest = 1 .. Len(q) - 1
        /\ \A i \in 1 .. Len(q) - 1 :
             /\ i < at => rest[i] = q[i] /\ i \in 1 .. Len(q) /\ i # at
             /\ ~(i < at) => rest[i] = q[i + 1] /\ i + 1 \in 1 .. Len(q) /\ i + 1 # at
    BY <1>1, <2>1, <2>3
  <2>5. rest \in Seq(Ticks)
    <3>1. \A i \in 1 .. Len(q) - 1 : rest[i] \in Ticks
      BY <1>1, <2>4
    <3> HIDE DEF rest
    <3>2. rest = [i \in 1 .. Len(q) - 1 |-> rest[i]]
      BY DEF rest
    <3> QED
      BY <2>3, <3>1, <3>2, IsASeq
  <2>6. \A i \in DOMAIN rest : \E j \in DOMAIN q : rest[i] = q[j]
    BY <1>1, <2>4
  <2>7. Once(q) => \A i \in DOMAIN rest : rest[i] # k
    BY <1>1, <2>1, <2>4 DEF Once
  <2>8. ASSUME Once(q), NEW i \in DOMAIN rest, NEW j \in DOMAIN rest, rest[i] = rest[j]
        PROVE  i = j
    <3> DEFINE ii == IF i < at THEN i ELSE i + 1
               jj == IF j < at THEN j ELSE j + 1
    <3>1. i \in 1 .. Len(q) - 1 /\ j \in 1 .. Len(q) - 1
      BY <2>4, <2>8
    <3>2. rest[i] = q[ii] /\ rest[j] = q[jj] /\ ii \in 1 .. Len(q) /\ jj \in 1 .. Len(q)
      BY <2>4, <3>1
    <3>3. ii = jj
      BY <1>1, <2>8, <3>2 DEF Once
    <3>4. at \in Nat /\ i \in Nat /\ j \in Nat
      BY <1>1, <2>1, <2>3, <3>1
    <3> QED
      BY <3>3, <3>4
  <2>9. Once(q) => Once(rest)
    BY <2>8 DEF Once
  <2> QED
    BY <2>2, <2>5, <2>6, <2>7, <2>9
<1> QED
  BY <1>2, <1>3

LEMMA AppendFacts ==
  ASSUME NEW q \in Seq(Ticks), NEW k \in Ticks
  PROVE  /\ Append(q, k) \in Seq(Ticks)
         /\ \A l \in Ticks : (\E i \in DOMAIN Append(q, k) : Append(q, k)[i] = l)
                               => l = k \/ \E i \in DOMAIN q : q[i] = l
         /\ Once(q) /\ (\A i \in DOMAIN q : q[i] # k) => Once(Append(q, k))
<1> DEFINE a == Append(q, k)
<1>1. /\ Len(q) \in Nat /\ DOMAIN q = 1 .. Len(q) /\ DOMAIN a = 1 .. Len(q) + 1
      /\ a \in Seq(Ticks) /\ a[Len(q) + 1] = k /\ \A i \in 1 .. Len(q) : a[i] = q[i]
  BY AppendProperties
<1> HIDE DEF a
<1>2. \A i \in DOMAIN a : i \in 1 .. Len(q) \/ i = Len(q) + 1
  BY <1>1
<1>3. \A l \in Ticks : (\E i \in DOMAIN a : a[i] = l) => l = k \/ \E i \in DOMAIN q : q[i] = l
  BY <1>1, <1>2
<1>4. Once(q) /\ (\A i \in DOMAIN q : q[i] # k) => Once(a)
  BY <1>1, <1>2 DEF Once
<1> QED
  BY <1>1, <1>3, <1>4 DEF a

LEMMA TailFacts ==
  ASSUME NEW q \in Seq(Ticks), q # <<>>
  PROVE  /\ Tail(q) \in Seq(Ticks)
         /\ \A i \in DOMAIN Tail(q) : \E j \in DOMAIN q : Tail(q)[i] = q[j]
         /\ Once(q) => Once(Tail(q))
<1>1. /\ Len(q) \in Nat \ {0} /\ DOMAIN q = 1 .. Len(q) /\ Tail(q) \in Seq(Ticks)
      /\ DOMAIN Tail(q) = 1 .. Len(q) - 1
      /\ \A i \in 1 .. Len(q) - 1 : Tail(q)[i] = q[i + 1]
  OBVIOUS
<1>2. \A i \in 1 .. Len(q) - 1 : i + 1 \in 1 .. Len(q)
  BY <1>1
<1> QED
  BY <1>1, <1>2 DEF Once

-----------------------------------------------------------------------------
(* Types and the flag *)

LEMMA OnusOfTenants == \A n \in Tenants : OnusOf[n] \subseteq Onus
  BY DEF Onus

LEMMA InitInv == Init => Inv
<1> SUFFICES ASSUME Init PROVE Inv
  OBVIOUS
<1>1. <<>> \in Seq(Ticks)
  OBVIOUS
<1>2. TypeOK
  BY <1>1 DEF Init, TypeOK
<1>3. FlagFollowsRace
  BY DEF Init, FlagFollowsRace
<1> QED
  BY <1>2, <1>3 DEF Inv

\* A tick that loses tenant n, and is not over, is still under way.
LEMMA SettlesRight ==
  ASSUME Inv, NEW k \in Ticks, NEW n \in Tenants, tenant[k][n] # "none",
         tenant' = [tenant EXCEPT ![k][n] = "none"], todo' = todo,
         Settles(k, tenant'[k])
  PROVE  /\ running' \in BOOLEAN /\ racing' \in Ticks \cup {NoTick}
         /\ FlagFollowsRace'
<1>1. tenant'[k] \in [Tenants -> {"none", "listing", "mapping"}]
      /\ \A l \in Ticks : l # k => tenant'[l] = tenant[l]
  BY DEF Inv, TypeOK
<1>2. CASE racing = k /\ todo[k] = {} /\ \A m \in Tenants : tenant'[k][m] = "none"
  BY <1>2 DEF Settles, FlagFollowsRace
<1>3. CASE ~(racing = k /\ todo[k] = {} /\ \A m \in Tenants : tenant'[k][m] = "none")
  <2>1. running' = running /\ racing' = racing
    BY <1>3 DEF Settles
  <2>2. racing # NoTick => racing \in Ticks
    BY DEF Inv, TypeOK
  <2>3. racing # NoTick => UnderWay(racing)'
    <3>1. CASE racing = k
      BY <1>3, <2>1, <3>1 DEF UnderWay, BusyTenants
    <3>2. CASE racing # k /\ racing # NoTick
      BY <1>1, <2>1, <2>2, <3>2 DEF Inv, FlagFollowsRace, UnderWay, BusyTenants
    <3> QED
      BY <3>1, <3>2
  <2> QED
    BY <2>1, <2>3 DEF Inv, TypeOK, FlagFollowsRace
<1> QED
  BY <1>2, <1>3

LEMMA StepInv == Inv /\ [Next]_vars => Inv'
<1> SUFFICES ASSUME Inv, [Next]_vars PROVE Inv'
  OBVIOUS
<1> USE DEF Inv, TypeOK
<1>1. ASSUME NEW k \in Ticks, Tick(k) PROVE Inv'
  BY <1>1, VerifyPollerAssumption DEF Tick, FlagFollowsRace, UnderWay
<1>2. ASSUME NEW k \in Ticks, TimesOut(k) PROVE Inv'
  BY <1>2 DEF TimesOut, FlagFollowsRace
<1>3. ASSUME NEW k \in Ticks, NEW n \in Tenants, TakeTenant(k, n) PROVE Inv'
  <2>1. /\ todo' \in [Ticks -> SUBSET Tenants]
        /\ tenant' \in [Ticks -> [Tenants -> {"none", "listing", "mapping"}]]
        /\ tenant'[k][n] = "listing"
        /\ \A l \in Ticks : l # k => tenant'[l] = tenant[l] /\ todo'[l] = todo[l]
    BY <1>3 DEF TakeTenant
  <2>2. FlagFollowsRace'
    BY <1>3, <2>1 DEF TakeTenant, FlagFollowsRace, UnderWay, BusyTenants
  <2> QED
    BY <1>3, <2>1, <2>2 DEF TakeTenant
<1>4. ASSUME NEW k \in Ticks, NEW n \in Tenants, ListDue(k, n) PROVE Inv'
  <2>1. /\ due' \in [Ticks -> SUBSET Onus]
        /\ tenant' \in [Ticks -> [Tenants -> {"none", "listing", "mapping"}]]
        /\ tenant'[k][n] = "mapping"
        /\ \A l \in Ticks : l # k => tenant'[l] = tenant[l]
    BY <1>4, OnusOfTenants DEF ListDue
  <2>2. FlagFollowsRace'
    BY <1>4, <2>1 DEF ListDue, FlagFollowsRace, UnderWay, BusyTenants
  <2> QED
    BY <1>4, <2>1, <2>2 DEF ListDue
<1>5. ASSUME NEW k \in Ticks, NEW n \in Tenants, TenantEnds(k, n) \/ ListFails(k, n)
      PROVE  Inv'
  <2>1. /\ tenant[k][n] # "none" /\ tenant' = [tenant EXCEPT ![k][n] = "none"]
        /\ Settles(k, tenant'[k])
        /\ UNCHANGED <<todo, due, queue, owed>>
    BY <1>5 DEF TenantEnds, ListFails
  <2>2. tenant' \in [Ticks -> [Tenants -> {"none", "listing", "mapping"}]]
    BY <2>1
  <2> QED
    BY <2>1, <2>2, SettlesRight
<1>6. ASSUME NEW k \in Ticks, NEW n \in Tenants, NEW o \in OnusOf[n], TakeOnu(k, n, o)
      PROVE  Inv'
  <2>1. o \in Onus
    BY OnusOfTenants
  <2>2. Append(queue[o], k) \in Seq(Ticks)
    BY <2>1, AppendFacts
  <2>3. due' \in [Ticks -> SUBSET Onus] /\ queue' \in [Onus -> Seq(Ticks)]
    BY <1>6, <2>2 DEF TakeOnu
  <2> QED
    BY <1>6, <2>3 DEF TakeOnu, FlagFollowsRace, UnderWay, BusyTenants
<1>7. ASSUME NEW k \in Ticks, ForgetHungTick(k) PROVE Inv'
  <2>1. /\ tenant' \in [Ticks -> [Tenants -> {"none", "listing", "mapping"}]]
        /\ \A l \in Ticks : l # k => tenant'[l] = tenant[l]
    BY <1>7 DEF ForgetHungTick
  <2>2. queue' \in [Onus -> Seq(Ticks)]
    <3>1. \A o \in Onus : queue'[o] \in Seq(Ticks)
      BY <1>7, ForgetsFacts DEF ForgetHungTick
    <3> QED
      BY <1>7, <3>1 DEF ForgetHungTick
  <2>3. FlagFollowsRace'
    BY <1>7, <2>1 DEF ForgetHungTick, FlagFollowsRace, UnderWay, BusyTenants
  <2> QED
    BY <1>7, <2>1, <2>2, <2>3 DEF ForgetHungTick
<1>8. ASSUME NEW o \in Onus, VisitEnds(o) PROVE Inv'
  <2>1. Tail(queue[o]) \in Seq(Ticks)
    BY <1>8, TailFacts DEF VisitEnds
  <2> QED
    BY <1>8, <2>1 DEF VisitEnds, FlagFollowsRace, UnderWay, BusyTenants
<1>9. ASSUME NEW o \in Onus, BecomesDue(o) PROVE Inv'
  BY <1>9 DEF BecomesDue, FlagFollowsRace, UnderWay, BusyTenants
<1>10. CASE UNCHANGED vars
  BY <1>10 DEF vars, FlagFollowsRace, UnderWay, BusyTenants
<1> QED
  BY <1>1, <1>2, <1>3, <1>4, <1>5, <1>6, <1>7, <1>8, <1>9, <1>10 DEF Next, TickStep

\* Every variable keeps its type, for any tenants, ONUs, caps and ticks.
THEOREM TypeCorrect == Spec => []TypeOK
<1>1. Inv => TypeOK
  BY DEF Inv
<1> QED
  BY <1>1, InitInv, StepInv, PTL DEF Spec

\* The flag is up exactly while tick() awaits a tick that is under way, however many
\* ticks lost their race before: the poller never stops for good.
THEOREM FlagHolds == Spec => []FlagFollowsRace
<1>1. Inv => FlagFollowsRace
  BY DEF Inv
<1> QED
  BY <1>1, InitInv, StepInv, PTL DEF Spec

-----------------------------------------------------------------------------
(* What is visited after a step: no more than before, but for an ONU that a runner takes *)

LEMMA TakeVisits ==
  ASSUME TypeOK, NEW k \in Ticks, NEW n \in Tenants, NEW o \in OnusOf[n], TakeOnu(k, n, o)
  PROVE  \A l \in Ticks, p \in Onus : Visits(l, p)' => Visits(l, p) \/ (l = k /\ p = o)
<1>1. /\ o \in Onus /\ queue[o] \in Seq(Ticks) /\ queue'[o] = Append(queue[o], k)
      /\ \A p \in Onus : p # o => queue'[p] = queue[p]
  BY OnusOfTenants DEF TakeOnu, TypeOK
<1>2. SUFFICES ASSUME NEW l \in Ticks, NEW p \in Onus, NEW i \in DOMAIN queue'[p],
                      queue'[p][i] = l
               PROVE  Visits(l, p) \/ (l = k /\ p = o)
  BY DEF Visits
<1>3. CASE p # o
  BY <1>1, <1>2, <1>3 DEF Visits
<1>4. CASE p = o
  BY <1>1, <1>2, <1>4, AppendFacts DEF Visits
<1> QED
  BY <1>3, <1>4

LEMMA ForgetVisits ==
  ASSUME TypeOK, NEW k \in Ticks, ForgetHungTick(k)
  PROVE  \A l \in Ticks, o \in Onus : Visits(l, o)' => Visits(l, o)
<1>1. \A o \in Onus : /\ queue[o] \in Seq(Ticks)
                      /\ queue'[o] = IF o \in Hung THEN Forgets(queue[o], k) ELSE queue[o]
  BY DEF ForgetHungTick, TypeOK
<1>2. SUFFICES ASSUME NEW l \in Ticks, NEW o \in Onus, NEW i \in DOMAIN queue'[o],
                      queue'[o][i] = l
               PROVE  \E j \in DOMAIN queue[o] : queue[o][j] = l
  BY DEF Visits
<1>3. CASE o \in Hung
  BY <1>1, <1>2, <1>3, ForgetsFacts
<1>4. CASE o \notin Hung
  BY <1>1, <1>2, <1>4
<1> QED
  BY <1>3, <1>4

LEMMA EndsVisits ==
  ASSUME TypeOK, NEW o \in Onus, VisitEnds(o)
  PROVE  \A l \in Ticks, p \in Onus : Visits(l, p)' => Visits(l, p)
<1>1. /\ queue[o] # <<>> /\ queue[o] \in Seq(Ticks) /\ queue'[o] = Tail(queue[o])
      /\ \A p \in Onus : p # o => queue'[p] = queue[p]
  BY DEF VisitEnds, TypeOK
<1>2. SUFFICES ASSUME NEW l \in Ticks, NEW p \in Onus, NEW i \in DOMAIN queue'[p],
                      queue'[p][i] = l
               PROVE  \E j \in DOMAIN queue[p] : queue[p][j] = l
  BY DEF Visits
<1>3. CASE p # o
  BY <1>1, <1>2, <1>3
<1>4. CASE p = o
  <2>1. \A j \in DOMAIN Tail(queue[o]) : \E m \in DOMAIN queue[o] :
          Tail(queue[o])[j] = queue[o][m]
    BY <1>1, TailFacts
  <2> QED
    BY <1>1, <1>2, <1>4, <2>1
<1> QED
  BY <1>3, <1>4

-----------------------------------------------------------------------------
(* A tick visits an ONU once *)

OnceParts == TodoIdle /\ IdleTenants /\ DueOnce /\ VisitedOncePerTick

LEMMA PerQueue == VisitedOncePerTick <=> \A o \in Onus : Once(queue[o])
  BY DEF VisitedOncePerTick, Once

LEMMA TodoStep == OnceInv /\ [Next]_vars => TodoIdle'
<1> SUFFICES ASSUME OnceInv, [Next]_vars PROVE TodoIdle'
  OBVIOUS
<1> USE DEF OnceInv, Inv, TypeOK, TodoIdle
<1>1. ASSUME NEW k \in Ticks, Tick(k) PROVE TodoIdle'
  BY <1>1 DEF Tick, UnderWay, BusyTenants
<1>2. ASSUME NEW k \in Ticks, NEW n \in Tenants, TakeTenant(k, n) PROVE TodoIdle'
  BY <1>2 DEF TakeTenant
<1>3. ASSUME NEW k \in Ticks, NEW n \in Tenants, ListDue(k, n) PROVE TodoIdle'
  BY <1>3 DEF ListDue
<1>4. ASSUME NEW k \in Ticks, NEW n \in Tenants, TenantEnds(k, n) \/ ListFails(k, n)
      PROVE  TodoIdle'
  BY <1>4 DEF TenantEnds, ListFails
<1>5. ASSUME NEW k \in Ticks, ForgetHungTick(k) PROVE TodoIdle'
  BY <1>5 DEF ForgetHungTick
<1>6. CASE UNCHANGED <<todo, tenant>>
  BY <1>6
<1>7. ASSUME NEW k \in Ticks, TimesOut(k) PROVE UNCHANGED <<todo, tenant>>
  BY <1>7 DEF TimesOut
<1>8. ASSUME NEW k \in Ticks, NEW n \in Tenants, NEW o \in OnusOf[n], TakeOnu(k, n, o)
      PROVE  UNCHANGED <<todo, tenant>>
  BY <1>8 DEF TakeOnu
<1>9. ASSUME NEW o \in Onus, VisitEnds(o) \/ BecomesDue(o) PROVE UNCHANGED <<todo, tenant>>
  BY <1>9 DEF VisitEnds, BecomesDue
<1>10. UNCHANGED vars => UNCHANGED <<todo, tenant>>
  BY DEF vars
<1> QED
  BY <1>1, <1>2, <1>3, <1>4, <1>5, <1>6, <1>7, <1>8, <1>9, <1>10 DEF Next, TickStep

\* Nothing is listed or visited anew: the parts stay true if no tenant stops mapping but
\* one that has nothing listed and nothing visited any more.
LEMMA OnceStays ==
  ASSUME OnceInv, TodoIdle',
         \A k \in Ticks : due'[k] \subseteq due[k],
         \A k \in Ticks, o \in Onus : Visits(k, o)' => Visits(k, o),
         \A o \in Onus : Once(queue'[o]),
         \A k \in Ticks, n \in Tenants :
           tenant'[k][n] # "mapping" =>
             \/ tenant[k][n] # "mapping"
             \/ due'[k] \cap OnusOf[n] = {} /\ VisitsOf(k, n)' = {}
  PROVE  OnceParts'
<1>1. IdleTenants'
  <2>1. SUFFICES ASSUME NEW k \in Ticks, NEW n \in Tenants, tenant'[k][n] # "mapping"
                 PROVE  due'[k] \cap OnusOf[n] = {} /\ VisitsOf(k, n)' = {}
    BY DEF IdleTenants
  <2>2. CASE tenant[k][n] # "mapping"
    <3>1. due[k] \cap OnusOf[n] = {} /\ VisitsOf(k, n) = {}
      BY <2>2 DEF OnceInv, IdleTenants
    <3>2. VisitsOf(k, n)' \subseteq VisitsOf(k, n)
      BY OnusOfTenants DEF VisitsOf
    <3> QED
      BY <3>1, <3>2
  <2> QED
    BY <2>1, <2>2
<1>2. DueOnce'
  <2>1. \A k \in Ticks : \A o \in due'[k] : o \in Onus
    BY DEF OnceInv, Inv, TypeOK
  <2> QED
    BY <2>1 DEF OnceInv, DueOnce
<1>3. VisitedOncePerTick'
  BY DEF VisitedOncePerTick, Once
<1> QED
  BY <1>1, <1>2, <1>3 DEF OnceParts

LEMMA OnceTick ==
  ASSUME OnceInv, TodoIdle', NEW k \in Ticks,
         \/ Tick(k) \/ TimesOut(k)
         \/ \E n \in Tenants : TakeTenant(k, n) \/ TenantEnds(k, n) \/ ListFails(k, n)
  PROVE  OnceParts'
<1>1. due' = due /\ queue' = queue
  BY DEF Tick, TimesOut, TakeTenant, TenantEnds, ListFails
<1>2. \A l \in Ticks, n \in Tenants :
        tenant'[l][n] # "mapping" =>
          \/ tenant[l][n] # "mapping"
          \/ due[l] \cap OnusOf[n] = {} /\ VisitsOf(l, n) = {}
  <2> USE DEF OnceInv, Inv, TypeOK
  <2>1. CASE Tick(k) \/ TimesOut(k)
    BY <2>1 DEF Tick, TimesOut
  <2>2. ASSUME NEW m \in Tenants, TakeTenant(k, m), NEW l \in Ticks, NEW n \in Tenants
        PROVE  tenant'[l][n] # "mapping" => tenant[l][n] # "mapping"
    <3>1. tenant[k][m] = "none" /\ tenant' = [tenant EXCEPT ![k][m] = "listing"]
      BY <2>2 DEF TakeTenant, TodoIdle
    <3> QED
      BY <3>1
  <2>3. ASSUME NEW m \in Tenants, ListFails(k, m), NEW l \in Ticks, NEW n \in Tenants
        PROVE  tenant'[l][n] # "mapping" => tenant[l][n] # "mapping"
    BY <2>3 DEF ListFails
  <2>4. ASSUME NEW m \in Tenants, TenantEnds(k, m), NEW l \in Ticks, NEW n \in Tenants
        PROVE  tenant'[l][n] # "mapping" =>
                 \/ tenant[l][n] # "mapping"
                 \/ due[l] \cap OnusOf[n] = {} /\ VisitsOf(l, n) = {}
    BY <2>4 DEF TenantEnds
  <2> QED
    BY <2>1, <2>2, <2>3, <2>4
<1>3. /\ \A l \in Ticks, o \in Onus : Visits(l, o)' <=> Visits(l, o)
      /\ \A l \in Ticks, n \in Tenants : VisitsOf(l, n)' = VisitsOf(l, n)
  BY <1>1 DEF Visits, VisitsOf
<1>4. \A o \in Onus : Once(queue'[o])
  BY <1>1, PerQueue DEF OnceInv
<1> QED
  BY <1>1, <1>2, <1>3, <1>4, OnceStays

LEMMA OnceList ==
  ASSUME OnceInv, TodoIdle', NEW k \in Ticks, NEW n \in Tenants, ListDue(k, n)
  PROVE  OnceParts'
<1> USE DEF OnceInv, Inv, TypeOK
<1>1. /\ queue' = queue /\ tenant[k][n] = "listing"
      /\ due' = [due EXCEPT ![k] = @ \cup (owed \cap OnusOf[n])]
      /\ tenant' = [tenant EXCEPT ![k][n] = "mapping"]
  BY DEF ListDue
<1>2. VisitsOf(k, n) = {}
  BY <1>1 DEF IdleTenants
<1>3. \A l \in Ticks, o \in Onus : Visits(l, o)' <=> Visits(l, o)
  BY <1>1 DEF Visits
<1>4. \A l \in Ticks, m \in Tenants : VisitsOf(l, m)' = VisitsOf(l, m)
  BY <1>1 DEF Visits, VisitsOf
<1>5. IdleTenants'
  <2>1. SUFFICES ASSUME NEW l \in Ticks, NEW m \in Tenants, tenant'[l][m] # "mapping"
                 PROVE  due'[l] \cap OnusOf[m] = {} /\ VisitsOf(l, m)' = {}
    BY DEF IdleTenants
  <2>2. tenant[l][m] # "mapping" /\ ~(l = k /\ m = n)
    BY <1>1, <2>1
  <2>3. due[l] \cap OnusOf[m] = {} /\ VisitsOf(l, m) = {}
    BY <2>2 DEF IdleTenants
  <2>4. l = k => OnusOf[m] \cap OnusOf[n] = {}
    BY <2>2, VerifyPollerAssumption
  <2>5. due'[l] \cap OnusOf[m] = {}
    BY <1>1, <2>3, <2>4
  <2> QED
    BY <1>4, <2>3, <2>5
<1>6. DueOnce'
  <2>1. SUFFICES ASSUME NEW l \in Ticks, NEW o \in due'[l] PROVE ~Visits(l, o)'
    BY DEF DueOnce
  <2>2. o \in due[l] \/ (l = k /\ o \in OnusOf[n])
    BY <1>1
  <2>3. o \in Onus
    BY <2>2, OnusOfTenants
  <2>4. ~Visits(l, o)
    BY <1>2, <2>2 DEF DueOnce, VisitsOf
  <2> QED
    BY <1>3, <2>3, <2>4
<1> QED
  BY <1>1, <1>5, <1>6 DEF OnceParts, VisitedOncePerTick

LEMMA OnceTake ==
  ASSUME OnceInv, TodoIdle', NEW k \in Ticks, NEW n \in Tenants, NEW o \in OnusOf[n], TakeOnu(k, n, o)
  PROVE  OnceParts'
<1> USE DEF OnceInv, Inv, TypeOK
<1>1. /\ o \in due[k] /\ o \in Onus
      /\ due' = [due EXCEPT ![k] = @ \ {o}]
      /\ queue' = [queue EXCEPT ![o] = Append(@, k)]
      /\ tenant' = tenant
  BY OnusOfTenants DEF TakeOnu
<1>2. ~Visits(k, o) /\ Once(queue[o])
  BY <1>1, PerQueue DEF DueOnce
<1>3. /\ \A p \in Onus : p # o => queue'[p] = queue[p]
      /\ queue'[o] = Append(queue[o], k)
  BY <1>1
<1>4. \A l \in Ticks, p \in Onus : Visits(l, p)' => Visits(l, p) \/ (l = k /\ p = o)
  BY TakeVisits
<1>5. Once(queue'[o])
  <2>1. queue[o] \in Seq(Ticks) /\ \A i \in DOMAIN queue[o] : queue[o][i] # k
    BY <1>1, <1>2 DEF Visits
  <2> QED
    BY <1>2, <1>3, <2>1, AppendFacts
<1>6. VisitedOncePerTick'
  <2>1. \A p \in Onus : Once(queue'[p])
    BY <1>3, <1>5, PerQueue
  <2> QED
    BY <2>1 DEF VisitedOncePerTick, Once
<1>7. DueOnce'
  <2>1. \A l \in Ticks : due'[l] \subseteq Onus /\ due'[l] \subseteq due[l]
    BY <1>1
  <2>2. o \notin due'[k]
    BY <1>1
  <2> QED
    BY <1>4, <2>1, <2>2 DEF DueOnce
<1>8. IdleTenants'
  <2>1. SUFFICES ASSUME NEW l \in Ticks, NEW m \in Tenants, tenant[l][m] # "mapping"
                 PROVE  due'[l] \cap OnusOf[m] = {} /\ VisitsOf(l, m)' = {}
    BY <1>1 DEF IdleTenants
  <2>2. due[l] \cap OnusOf[m] = {} /\ VisitsOf(l, m) = {}
    BY <2>1 DEF IdleTenants
  <2>3. ~(l = k /\ o \in OnusOf[m])
    BY <1>1, <2>2
  <2>4. VisitsOf(l, m)' \subseteq VisitsOf(l, m)
    BY <1>4, <2>3, OnusOfTenants DEF VisitsOf
  <2>5. due'[l] \subseteq due[l]
    BY <1>1
  <2> QED
    BY <2>2, <2>4, <2>5
<1> QED
  BY <1>6, <1>7, <1>8 DEF OnceParts

LEMMA OnceForget ==
  ASSUME OnceInv, TodoIdle', NEW k \in Ticks, ForgetHungTick(k)
  PROVE  OnceParts'
<1> USE DEF OnceInv, Inv, TypeOK
<1>1. /\ due' = due /\ due[k] = {}
      /\ tenant' = [tenant EXCEPT ![k] = [n \in Tenants |-> "none"]]
      /\ \A n \in Tenants : VisitsOf(k, n) \subseteq Hung
      /\ \A o \in Onus : queue'[o] = IF o \in Hung THEN Forgets(queue[o], k) ELSE queue[o]
  BY DEF ForgetHungTick
<1>2. \A o \in Onus : queue[o] \in Seq(Ticks) /\ Once(queue[o])
  BY PerQueue
<1>3. ASSUME NEW o \in Onus PROVE Once(queue'[o])
  <2>1. CASE o \in Hung
    BY <1>1, <1>2, <2>1, ForgetsFacts
  <2>2. CASE o \notin Hung
    BY <1>1, <1>2, <2>2
  <2> QED
    BY <2>1, <2>2
<1>4. \A l \in Ticks, o \in Onus : Visits(l, o)' => Visits(l, o)
  BY ForgetVisits
<1>5. \A n \in Tenants : VisitsOf(k, n)' = {}
  <2>1. SUFFICES ASSUME NEW n \in Tenants, NEW o \in OnusOf[n], Visits(k, o)' PROVE FALSE
    BY DEF VisitsOf
  <2>2. o \in Onus
    BY OnusOfTenants
  <2>3. o \in Hung
    BY <1>1, <1>4, <2>1, <2>2 DEF VisitsOf
  <2>4. \A i \in DOMAIN queue'[o] : queue'[o][i] # k
    BY <1>1, <1>2, <2>2, <2>3, ForgetsFacts
  <2> QED
    BY <2>1, <2>4 DEF Visits
<1>6. \A l \in Ticks, n \in Tenants :
        tenant'[l][n] # "mapping" =>
          \/ tenant[l][n] # "mapping"
          \/ due'[l] \cap OnusOf[n] = {} /\ VisitsOf(l, n)' = {}
  BY <1>1, <1>5
<1> QED
  BY <1>1, <1>3, <1>4, <1>6, OnceStays

LEMMA OnceVisitEnds ==
  ASSUME OnceInv, TodoIdle', NEW o \in Onus, VisitEnds(o)
  PROVE  OnceParts'
<1> USE DEF OnceInv, Inv, TypeOK
<1>1. /\ due' = due /\ tenant' = tenant /\ queue[o] # <<>> /\ queue[o] \in Seq(Ticks)
      /\ queue'[o] = Tail(queue[o]) /\ \A p \in Onus : p # o => queue'[p] = queue[p]
  BY DEF VisitEnds
<1>2. \A p \in Onus : Once(queue'[p])
  BY <1>1, PerQueue, TailFacts
<1>3. \A l \in Ticks, p \in Onus : Visits(l, p)' => Visits(l, p)
  BY EndsVisits
<1> QED
  BY <1>1, <1>2, <1>3, OnceStays

LEMMA StepOnce == OnceInv /\ [Next]_vars => OnceInv'
<1> SUFFICES ASSUME OnceInv, [Next]_vars PROVE OnceParts'
  BY StepInv DEF OnceInv, OnceParts
<1> TodoIdle'
  BY TodoStep
<1>1. ASSUME NEW o \in Onus, BecomesDue(o) PROVE OnceParts'
  BY <1>1 DEF BecomesDue, OnceParts, TodoIdle, OnceInv, IdleTenants, DueOnce, VisitedOncePerTick,
              VisitsOf, Visits
<1>2. CASE UNCHANGED vars
  BY <1>2 DEF vars, OnceParts, TodoIdle, OnceInv, IdleTenants, DueOnce, VisitedOncePerTick,
              VisitsOf, Visits
<1> QED
  BY <1>1, <1>2, OnceTick, OnceList, OnceTake, OnceForget, OnceVisitEnds DEF Next, TickStep

\* A tick visits an ONU at most once, however long the ONU's lock is held by visits of
\* ticks that lost their race.
THEOREM VisitedOnceHolds == Spec => []VisitedOncePerTick
<1>1. Init => OnceParts
  <2> SUFFICES ASSUME Init PROVE OnceParts
    OBVIOUS
  <2>1. \A o \in Onus : DOMAIN queue[o] = {}
    BY DEF Init
  <2>2. \A k \in Ticks : due[k] = {} /\ todo[k] = {}
    BY DEF Init
  <2>3. \A k \in Ticks, n \in Tenants : VisitsOf(k, n) = {}
    BY <2>1, OnusOfTenants DEF VisitsOf, Visits
  <2> QED
    BY <2>1, <2>2, <2>3 DEF OnceParts, TodoIdle, IdleTenants, DueOnce, VisitedOncePerTick
<1>2. OnceInv => VisitedOncePerTick
  BY DEF OnceInv
<1> QED
  BY <1>1, <1>2, InitInv, StepOnce, PTL DEF Spec, OnceInv, OnceParts

-----------------------------------------------------------------------------
(* The global cap *)

AtWork == {k \in Ticks : UnderWay(k)}
Visited == {o \in Onus : queue[o] # <<>>}

\* A tick has no more runners at work on a tenant's ONUs than the tenant's cap, and no
\* more on tenants than the global cap leaves room for; finitely many ticks are under way.
OnusCapped ==
  \A k \in Ticks, n \in Tenants :
    IsFiniteSet(VisitsOf(k, n)) /\ Cardinality(VisitsOf(k, n)) <= TenantCap
TenantsCapped ==
  \A k \in Ticks : IsFiniteSet(BusyTenants(k)) /\ Cardinality(BusyTenants(k)) <= TenantRunners

CapsKept == OnusCapped /\ TenantsCapped /\ IsFiniteSet(AtWork)

LEMMA RunnersType == TenantRunners \in Nat \ {0}
<1>1. CASE GlobalCap < TenantCap
  BY <1>1 DEF TenantRunners
<1>2. CASE ~(GlobalCap < TenantCap)
  <2>1. GlobalCap \div TenantCap \in Nat \ {0}
    BY <1>2, VerifyPollerAssumption
  <2> QED
    BY <1>2, <2>1 DEF TenantRunners
<1> QED
  BY <1>1, <1>2

\* A set that grew by one element at most, and only while it was below its cap.
LEMMA GrowsByOne ==
  ASSUME NEW S, IsFiniteSet(S), NEW x, NEW T, T \subseteq S \cup {x}, NEW cap \in Nat,
         Cardinality(S) < cap
  PROVE  IsFiniteSet(T) /\ Cardinality(T) <= cap
<1>1. /\ IsFiniteSet(S \cup {x}) /\ Cardinality(S) \in Nat
      /\ Cardinality(S \cup {x}) <= Cardinality(S) + 1
  BY FS_AddElement, FS_CardinalityType
<1>2. IsFiniteSet(T) /\ Cardinality(T) <= Cardinality(S \cup {x}) /\ Cardinality(T) \in Nat
  BY <1>1, FS_Subset, FS_CardinalityType
<1>3. Cardinality(S \cup {x}) \in Nat
  BY <1>1, FS_CardinalityType
<1> QED
  BY <1>1, <1>2, <1>3

LEMMA Shrinks ==
  ASSUME NEW S, IsFiniteSet(S), NEW T, T \subseteq S, NEW cap \in Nat, Cardinality(S) <= cap
  PROVE  IsFiniteSet(T) /\ Cardinality(T) <= cap
<1>1. /\ IsFiniteSet(T) /\ Cardinality(T) <= Cardinality(S)
      /\ Cardinality(T) \in Nat /\ Cardinality(S) \in Nat
  BY FS_Subset, FS_CardinalityType
<1> QED
  BY <1>1

LEMMA OnusCappedStep == TypeOK /\ OnusCapped /\ [Next]_vars => OnusCapped'
<1> SUFFICES ASSUME TypeOK, OnusCapped, [Next]_vars PROVE OnusCapped'
  OBVIOUS
<1> USE VerifyPollerAssumption
<1>1. ASSUME \A l \in Ticks, p \in Onus : Visits(l, p)' => Visits(l, p) PROVE OnusCapped'
  <2>1. SUFFICES ASSUME NEW l \in Ticks, NEW m \in Tenants
                 PROVE  IsFiniteSet(VisitsOf(l, m)') /\ Cardinality(VisitsOf(l, m)') <= TenantCap
    BY DEF OnusCapped, VisitsOf, Visits
  <2>2. VisitsOf(l, m)' \subseteq VisitsOf(l, m)
    BY <1>1, OnusOfTenants DEF VisitsOf
  <2> QED
    BY <2>2, Shrinks DEF OnusCapped
<1>2. ASSUME NEW k \in Ticks, NEW n \in Tenants, NEW o \in OnusOf[n], TakeOnu(k, n, o)
      PROVE  OnusCapped'
  <2>1. SUFFICES ASSUME NEW l \in Ticks, NEW m \in Tenants
                 PROVE  IsFiniteSet(VisitsOf(l, m)') /\ Cardinality(VisitsOf(l, m)') <= TenantCap
    BY DEF OnusCapped, VisitsOf, Visits
  <2>2. VisitsOf(l, m)' \subseteq VisitsOf(l, m) \cup (IF l = k THEN {o} ELSE {})
    BY <1>2, TakeVisits, OnusOfTenants DEF VisitsOf
  <2>3. CASE l = k /\ m = n
    <3>1. Cardinality(VisitsOf(l, m)) < TenantCap
      BY <1>2, <2>3 DEF TakeOnu, OnuRunnerFree
    <3>2. VisitsOf(l, m)' \subseteq VisitsOf(l, m) \cup {o}
      BY <2>2
    <3> QED
      BY <3>1, <3>2, GrowsByOne DEF OnusCapped
  <2>4. CASE ~(l = k /\ m = n)
    <3>1. l = k => o \notin OnusOf[m]
      BY <2>4
    <3>2. VisitsOf(l, m)' \subseteq VisitsOf(l, m)
      BY <2>2, <3>1 DEF VisitsOf
    <3> QED
      BY <3>2, Shrinks DEF OnusCapped
  <2> QED
    BY <2>3, <2>4
<1>3. queue' = queue => \A l \in Ticks, p \in Onus : Visits(l, p)' => Visits(l, p)
  BY DEF Visits
<1>4. ASSUME NEW k \in Ticks, Tick(k) \/ TimesOut(k) PROVE queue' = queue
  BY <1>4 DEF Tick, TimesOut
<1>5. ASSUME NEW k \in Ticks, NEW n \in Tenants,
             TakeTenant(k, n) \/ ListDue(k, n) \/ TenantEnds(k, n) \/ ListFails(k, n)
      PROVE  queue' = queue
  BY <1>5 DEF TakeTenant, ListDue, TenantEnds, ListFails
<1>6. ASSUME NEW o \in Onus, BecomesDue(o) PROVE queue' = queue
  BY <1>6 DEF BecomesDue
<1>7. CASE UNCHANGED vars
  BY <1>1, <1>3, <1>7 DEF vars
<1> QED
  BY <1>1, <1>2, <1>3, <1>4, <1>5, <1>6, <1>7, ForgetVisits, EndsVisits DEF Next, TickStep

LEMMA TenantsCappedStep == TypeOK /\ TenantsCapped /\ [Next]_vars => TenantsCapped'
<1> SUFFICES ASSUME TypeOK, TenantsCapped, [Next]_vars PROVE TenantsCapped'
  OBVIOUS
<1>0. TenantRunners \in Nat /\ tenant \in [Ticks -> [Tenants -> {"none", "listing", "mapping"}]]
  BY RunnersType DEF TypeOK
<1>1. ASSUME \A l \in Ticks, m \in Tenants : tenant[l][m] = "none" => tenant'[l][m] = "none"
      PROVE  TenantsCapped'
  <2>1. SUFFICES ASSUME NEW l \in Ticks
                 PROVE  /\ IsFiniteSet(BusyTenants(l)')
                        /\ Cardinality(BusyTenants(l)') <= TenantRunners
    BY DEF TenantsCapped, BusyTenants
  <2>2. BusyTenants(l)' \subseteq BusyTenants(l)
    BY <1>1 DEF BusyTenants
  <2> QED
    BY <1>0, <2>2, Shrinks DEF TenantsCapped
<1>2. ASSUME NEW k \in Ticks, NEW n \in Tenants, TakeTenant(k, n) PROVE TenantsCapped'
  <2>1. SUFFICES ASSUME NEW l \in Ticks
                 PROVE  /\ IsFiniteSet(BusyTenants(l)')
                        /\ Cardinality(BusyTenants(l)') <= TenantRunners
    BY DEF TenantsCapped, BusyTenants
  <2>2. /\ tenant' = [tenant EXCEPT ![k][n] = "listing"]
        /\ Cardinality(BusyTenants(k)) < TenantRunners
    BY <1>2 DEF TakeTenant
  <2>3. CASE l = k
    <3>1. BusyTenants(l)' \subseteq BusyTenants(l) \cup {n}
      BY <1>0, <2>2 DEF BusyTenants
    <3> QED
      BY <1>0, <2>2, <2>3, <3>1, GrowsByOne DEF TenantsCapped
  <2>4. CASE l # k
    <3>1. BusyTenants(l)' \subseteq BusyTenants(l)
      BY <1>0, <2>2, <2>4 DEF BusyTenants
    <3> QED
      BY <1>0, <3>1, Shrinks DEF TenantsCapped
  <2> QED
    BY <2>3, <2>4
<1>3. tenant' = tenant => TenantsCapped'
  BY <1>1
<1>4. ASSUME NEW k \in Ticks, Tick(k) \/ TimesOut(k) PROVE tenant' = tenant
  BY <1>4 DEF Tick, TimesOut
<1>5. ASSUME NEW k \in Ticks, NEW n \in Tenants, ListDue(k, n) \/ TenantEnds(k, n) \/ ListFails(k, n)
      PROVE  TenantsCapped'
  <2>1. /\ tenant[k][n] # "none"
        /\ \/ tenant' = [tenant EXCEPT ![k][n] = "mapping"]
           \/ tenant' = [tenant EXCEPT ![k][n] = "none"]
    BY <1>5 DEF ListDue, TenantEnds, ListFails
  <2>2. \A l \in Ticks, m \in Tenants : tenant[l][m] = "none" => tenant'[l][m] = "none"
    BY <1>0, <2>1
  <2> QED
    BY <1>1, <2>2
<1>6. ASSUME NEW k \in Ticks, NEW n \in Tenants, NEW o \in OnusOf[n], TakeOnu(k, n, o)
      PROVE  tenant' = tenant
  BY <1>6 DEF TakeOnu
<1>7. ASSUME NEW k \in Ticks, ForgetHungTick(k) PROVE TenantsCapped'
  <2>1. \A l \in Ticks, m \in Tenants : tenant[l][m] = "none" => tenant'[l][m] = "none"
    BY <1>0, <1>7 DEF ForgetHungTick
  <2> QED
    BY <1>1, <2>1
<1>8. ASSUME NEW o \in Onus, VisitEnds(o) \/ BecomesDue(o) PROVE tenant' = tenant
  BY <1>8 DEF VisitEnds, BecomesDue
<1>9. UNCHANGED vars => tenant' = tenant
  BY DEF vars
<1> QED
  BY <1>2, <1>3, <1>4, <1>5, <1>6, <1>7, <1>8, <1>9 DEF Next, TickStep

\* Only the timer brings another tick under way.
LEMMA AtWorkStep == TypeOK /\ IsFiniteSet(AtWork) /\ [Next]_vars => IsFiniteSet(AtWork')
<1> SUFFICES ASSUME TypeOK, IsFiniteSet(AtWork), [Next]_vars PROVE IsFiniteSet(AtWork')
  OBVIOUS
<1> USE DEF TypeOK
<1>1. ASSUME AtWork' \subseteq AtWork PROVE IsFiniteSet(AtWork')
  BY <1>1, FS_Subset
<1>2. ASSUME NEW k \in Ticks, Tick(k) PROVE IsFiniteSet(AtWork')
  <2>1. AtWork' \subseteq AtWork \cup {k}
    BY <1>2 DEF Tick, AtWork, UnderWay, BusyTenants
  <2>2. IsFiniteSet(AtWork \cup {k})
    BY FS_AddElement
  <2> QED
    BY <2>1, <2>2, FS_Subset
<1>3. ASSUME NEW k \in Ticks, NEW n \in Tenants, TakeTenant(k, n) PROVE AtWork' \subseteq AtWork
  <2>1. /\ UnderWay(k) /\ \A l \in Ticks : l # k => tenant'[l] = tenant[l] /\ todo'[l] = todo[l]
    BY <1>3 DEF TakeTenant, UnderWay
  <2> QED
    BY <2>1 DEF AtWork, UnderWay, BusyTenants
<1>4. ASSUME NEW k \in Ticks, NEW n \in Tenants, ListDue(k, n) \/ TenantEnds(k, n) \/ ListFails(k, n)
      PROVE  AtWork' \subseteq AtWork
  <2>1. /\ tenant[k][n] # "none" /\ todo' = todo
        /\ \A l \in Ticks : l # k => tenant'[l] = tenant[l]
    BY <1>4 DEF ListDue, TenantEnds, ListFails
  <2>2. UnderWay(k)
    BY <2>1 DEF UnderWay, BusyTenants
  <2> QED
    BY <2>1, <2>2 DEF AtWork, UnderWay, BusyTenants
<1>5. ASSUME NEW k \in Ticks, ForgetHungTick(k) PROVE AtWork' \subseteq AtWork
  <2>1. /\ UnderWay(k) /\ todo' = todo /\ \A l \in Ticks : l # k => tenant'[l] = tenant[l]
    BY <1>5 DEF ForgetHungTick
  <2> QED
    BY <2>1 DEF AtWork, UnderWay, BusyTenants
<1>6. UNCHANGED <<todo, tenant>> => AtWork' \subseteq AtWork
  BY DEF AtWork, UnderWay, BusyTenants
<1>7. ASSUME NEW k \in Ticks, TimesOut(k) PROVE UNCHANGED <<todo, tenant>>
  BY <1>7 DEF TimesOut
<1>8. ASSUME NEW k \in Ticks, NEW n \in Tenants, NEW o \in OnusOf[n], TakeOnu(k, n, o)
      PROVE  UNCHANGED <<todo, tenant>>
  BY <1>8 DEF TakeOnu
<1>9. ASSUME NEW o \in Onus, VisitEnds(o) \/ BecomesDue(o) PROVE UNCHANGED <<todo, tenant>>
  BY <1>9 DEF VisitEnds, BecomesDue
<1>10. UNCHANGED vars => UNCHANGED <<todo, tenant>>
  BY DEF vars
<1> QED
  BY <1>1, <1>2, <1>3, <1>4, <1>5, <1>6, <1>7, <1>8, <1>9, <1>10 DEF Next, TickStep

\* A set within its cap can be numbered from 1 up to the cap.
Numbers(f, S, cap) == f \in [S -> 1 .. cap] /\ \A x, y \in S : f[x] = f[y] => x = y

LEMMA Numbered ==
  ASSUME NEW S, IsFiniteSet(S), NEW cap \in Nat, Cardinality(S) <= cap
  PROVE  \E f : Numbers(f, S, cap)
<1>1. Cardinality(S) \in Nat /\ ExistsBijection(1 .. Cardinality(S), S)
  BY FS_CardinalityType
<1>2. ExistsBijection(S, 1 .. Cardinality(S))
  BY <1>1, Fun_ExistsBijSymmetric
<1>3. PICK f : f \in Bijection(S, 1 .. Cardinality(S))
  BY <1>2 DEF ExistsBijection
<1>4. f \in [S -> 1 .. Cardinality(S)] /\ \A x, y \in S : f[x] = f[y] => x = y
  <2>1. f \in Injection(S, 1 .. Cardinality(S))
    BY <1>3, Fun_BijectionProperties
  <2> QED
    BY <2>1 DEF Injection, IsInjective
<1>5. 1 .. Cardinality(S) \subseteq 1 .. cap
  BY <1>1
<1> QED
  BY <1>4, <1>5 DEF Numbers

\* What the runners of a tick can do at once.
LEMMA RunnersFit ==
  ASSUME TenantCap <= GlobalCap PROVE TenantRunners * TenantCap <= GlobalCap
<1>1. TenantRunners = GlobalCap \div TenantCap
  BY VerifyPollerAssumption DEF TenantRunners
<1>2. \A g \in Nat, c \in Nat \ {0} : (g \div c) * c <= g
  OBVIOUS
<1> QED
  BY <1>1, <1>2, VerifyPollerAssumption

LEMMA TimesMore ==
  ASSUME NEW a \in Nat, NEW b \in Nat, NEW u \in Nat, a <= b PROVE u * a <= b * u
  OBVIOUS

\* The visit that holds an ONU's lock is of a tick under way, which has the ONU's tenant.
LEMMA VisitorAtWork ==
  ASSUME OnceInv, NEW o \in Visited
  PROVE  \E k \in AtWork : \E n \in BusyTenants(k) : o \in VisitsOf(k, n)
<1>1. o \in Onus /\ queue[o] \in Seq(Ticks) /\ queue[o] # <<>>
  BY DEF OnceInv, Inv, TypeOK, Visited
<1>2. queue[o][1] \in Ticks /\ Visits(queue[o][1], o)
  BY <1>1 DEF Visits
<1>3. PICK n \in Tenants : o \in OnusOf[n]
  BY <1>1 DEF Onus
<1>4. PICK k \in Ticks : o \in VisitsOf(k, n)
  BY <1>2, <1>3 DEF VisitsOf
<1>5. tenant[k][n] = "mapping"
  BY <1>4 DEF OnceInv, IdleTenants
<1>6. n \in BusyTenants(k) /\ k \in AtWork
  BY <1>5 DEF BusyTenants, AtWork, UnderWay
<1> QED
  BY <1>4, <1>6

\* Every ONU being visited has a place of its own: a tick, one of its runners on tenants,
\* one of that tenant's runners on ONUs.
LEMMA CapFromCaps ==
  ASSUME OnceInv, CapsKept, TenantCap <= GlobalCap PROVE GlobalCapKept
<1> DEFINE R == TenantRunners
           C == TenantCap
           Places == AtWork \X ((1 .. R) \X (1 .. C))
           TickOf(o) == CHOOSE k \in AtWork : \E n \in BusyTenants(k) : o \in VisitsOf(k, n)
           OwnerOf(o) == CHOOSE n \in BusyTenants(TickOf(o)) : o \in VisitsOf(TickOf(o), n)
           OnTenants(k) == CHOOSE f : Numbers(f, BusyTenants(k), R)
           OnOnus(k, n) == CHOOSE f : Numbers(f, VisitsOf(k, n), C)
           NumberOf(n, k) == OnTenants(k)[n]
           RunnerOf(o, k, n) == OnOnus(k, n)[o]
           place == [o \in Visited |-> <<TickOf(o), <<NumberOf(OwnerOf(o), TickOf(o)),
                                                      RunnerOf(o, TickOf(o), OwnerOf(o))>>>>]
<1>1. R \in Nat /\ C \in Nat
  BY RunnersType, VerifyPollerAssumption
<1>2. ASSUME NEW o \in Visited
      PROVE  /\ TickOf(o) \in AtWork /\ OwnerOf(o) \in BusyTenants(TickOf(o))
             /\ o \in VisitsOf(TickOf(o), OwnerOf(o))
  <2>1. TickOf(o) \in AtWork /\ \E n \in BusyTenants(TickOf(o)) : o \in VisitsOf(TickOf(o), n)
    BY VisitorAtWork
  <2> HIDE DEF TickOf
  <2> QED
    BY <2>1
<1>3. \A k \in Ticks : Numbers(OnTenants(k), BusyTenants(k), R)
  BY <1>1, Numbered DEF CapsKept, TenantsCapped
<1>4. \A k \in Ticks, n \in Tenants :
        Numbers(OnOnus(k, n), VisitsOf(k, n), C)
  BY <1>1, Numbered DEF CapsKept, OnusCapped
<1> HIDE DEF OnTenants, OnOnus
<1>5. /\ \A k \in Ticks : \A n \in BusyTenants(k) : n \in Tenants /\ NumberOf(n, k) \in 1 .. R
      /\ \A k \in Ticks : \A n, m \in BusyTenants(k) : NumberOf(n, k) = NumberOf(m, k) => n = m
  BY <1>3 DEF Numbers, BusyTenants
<1>6. \A k \in Ticks, n \in Tenants :
        /\ \A o \in VisitsOf(k, n) : RunnerOf(o, k, n) \in 1 .. C
        /\ \A o, p \in VisitsOf(k, n) : RunnerOf(o, k, n) = RunnerOf(p, k, n) => o = p
  BY <1>4 DEF Numbers
<1>7. AtWork \subseteq Ticks
  BY DEF AtWork
<1> HIDE DEF R, C, TickOf, OwnerOf, NumberOf, RunnerOf
<1>8. ASSUME NEW o \in Visited
      PROVE  <<TickOf(o), <<NumberOf(OwnerOf(o), TickOf(o)),
                            RunnerOf(o, TickOf(o), OwnerOf(o))>>>> \in Places
  BY <1>2, <1>5, <1>6, <1>7
<1>9. ASSUME NEW o \in Visited, NEW p \in Visited, place[o] = place[p] PROVE o = p
  <2>1. /\ TickOf(o) = TickOf(p)
        /\ NumberOf(OwnerOf(o), TickOf(o)) = NumberOf(OwnerOf(p), TickOf(p))
        /\ RunnerOf(o, TickOf(o), OwnerOf(o)) = RunnerOf(p, TickOf(p), OwnerOf(p))
    BY <1>9
  <2>2. OwnerOf(o) = OwnerOf(p)
    BY <1>2, <1>5, <1>7, <2>1
  <2> QED
    BY <1>2, <1>5, <1>6, <1>7, <2>1, <2>2
<1>10. place \in [Visited -> Places]
  BY <1>8
<1> HIDE DEF place
<1>11. place \in Injection(Visited, Places)
  BY <1>9, <1>10, Fun_IsInj
<1>12. /\ IsFiniteSet(1 .. R) /\ Cardinality(1 .. R) = R
       /\ IsFiniteSet(1 .. C) /\ Cardinality(1 .. C) = C
  <2>1. \A n \in Nat : IsFiniteSet(1 .. n) /\ Cardinality(1 .. n) = n
    BY FS_Interval
  <2> QED
    BY <1>1, <2>1
<1>13. IsFiniteSet((1 .. R) \X (1 .. C)) /\ Cardinality((1 .. R) \X (1 .. C)) = R * C
  <2>1. /\ IsFiniteSet((1 .. R) \X (1 .. C))
        /\ Cardinality((1 .. R) \X (1 .. C)) = Cardinality(1 .. R) * Cardinality(1 .. C)
    BY <1>12, FS_Product
  <2> QED
    BY <1>12, <2>1
<1>14. IsFiniteSet(AtWork) /\ Cardinality(AtWork) \in Nat
  BY FS_CardinalityType DEF CapsKept
<1>15. IsFiniteSet(Places) /\ Cardinality(Places) = Cardinality(AtWork) * (R * C)
  BY <1>13, <1>14, FS_Product
<1> HIDE DEF Places
<1>16. Cardinality(Visited) <= Cardinality(Places)
  BY <1>11, <1>15, FS_Injection
<1>17. IsFiniteSet(Visited) /\ Cardinality(Visited) \in Nat
  BY <1>11, <1>15, FS_Injection, FS_CardinalityType
<1>18. Cardinality(AtWork) * (R * C) <= GlobalCap * Cardinality(AtWork)
  <2>1. R * C <= GlobalCap
    BY RunnersFit DEF R, C
  <2>2. R * C \in Nat /\ GlobalCap \in Nat
    BY <1>1, VerifyPollerAssumption
  <2> QED
    BY <1>14, <2>1, <2>2, TimesMore
<1>19. Cardinality(AtWork) * (R * C) \in Nat /\ GlobalCap * Cardinality(AtWork) \in Nat
  BY <1>1, <1>14, VerifyPollerAssumption
<1>20. Cardinality(Visited) <= GlobalCap * Cardinality(AtWork)
  BY <1>15, <1>16, <1>17, <1>18, <1>19
<1> QED
  BY <1>20 DEF GlobalCapKept, TicksUnderWay, AtWork, Visited

LEMMA OnceInit == Init => OnceParts
<1> SUFFICES ASSUME Init PROVE OnceParts
  OBVIOUS
<1>1. \A o \in Onus : DOMAIN queue[o] = {}
  BY DEF Init
<1>2. \A k \in Ticks : due[k] = {} /\ todo[k] = {}
  BY DEF Init
<1>3. \A k \in Ticks, n \in Tenants : VisitsOf(k, n) = {}
  BY <1>1, OnusOfTenants DEF VisitsOf, Visits
<1> QED
  BY <1>1, <1>2, <1>3 DEF OnceParts, TodoIdle, IdleTenants, DueOnce, VisitedOncePerTick

LEMMA CapsInit == Init => CapsKept
<1> SUFFICES ASSUME Init PROVE CapsKept
  OBVIOUS
<1>1. \A o \in Onus : DOMAIN queue[o] = {}
  BY DEF Init
<1>2. \A k \in Ticks, n \in Tenants : VisitsOf(k, n) = {}
  BY <1>1, OnusOfTenants DEF VisitsOf, Visits
<1>3. \A k \in Ticks : BusyTenants(k) = {}
  BY DEF Init, BusyTenants
<1>4. AtWork = {}
  BY <1>3 DEF Init, AtWork, UnderWay
<1>5. IsFiniteSet({}) /\ Cardinality({}) = 0 /\ 0 <= TenantCap /\ 0 <= TenantRunners
  BY FS_EmptySet, RunnersType, VerifyPollerAssumption
<1> QED
  BY <1>2, <1>3, <1>4, <1>5 DEF CapsKept, OnusCapped, TenantsCapped

\* The ONUs being visited, of all tenants, are no more than the global cap for each tick
\* under way.  (A cap per tenant above the global one could not be kept to: one tenant is
\* always visited.)
THEOREM GlobalCapHolds ==
  ASSUME TenantCap <= GlobalCap PROVE Spec => []GlobalCapKept
<1>1. Init => OnceInv /\ CapsKept
  BY InitInv, OnceInit, CapsInit DEF OnceInv, OnceParts
<1>2. OnceInv /\ CapsKept /\ [Next]_vars => OnceInv' /\ CapsKept'
  BY StepOnce, OnusCappedStep, TenantsCappedStep, AtWorkStep DEF OnceInv, Inv, CapsKept
<1>3. OnceInv /\ CapsKept => GlobalCapKept
  BY CapFromCaps
<1> QED
  BY <1>1, <1>2, <1>3, PTL DEF Spec
=============================================================================
