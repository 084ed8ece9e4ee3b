---------------------------- MODULE HostGatesProofs ----------------------------
(***************************************************************************)
(* Proofs about HostGates, for any number of threads and providers, any    *)
(* rates, timeouts and limits.                                             *)
(***************************************************************************)
EXTENDS HostGates, TLAPS, FiniteSetTheorems

(***************************************************************************)
(* The greatest of finitely many numbers                                   *)
(***************************************************************************)

\* Every nonempty set of naturals has a least element.
LEMMA LeastOf ==
  ASSUME NEW T \in SUBSET Nat, T # {}
  PROVE  \E x \in T : \A y \in T : x <= y
<1> DEFINE R == {p \in Nat \X Nat : p[1] < p[2]}
<1>1. IsWellFoundedOn(R, Nat)
  BY NatLessThanWellFounded DEF OpToRel
<1>2. \A x, y \in Nat : <<y, x>> \in R <=> y < x
  OBVIOUS
<1> HIDE DEF R
<1>3. PICK x \in T : \A y \in T : ~(<<y, x>> \in R)
  BY <1>1, WFMin
<1>4. ASSUME NEW y \in T PROVE x <= y
  <2>1. x \in Nat /\ y \in Nat /\ ~(y < x)
    BY <1>2, <1>3
  <2>2. QED
    BY <2>1
<1>5. QED
  BY <1>4

\* A least n for which the values of a function on 1..n had no bound would leave
\* those on 1..(n - 1) without one.
LEMMA Bounded ==
  ASSUME NEW n \in Nat, NEW f \in [1..n -> Nat]
  PROVE  \E b \in Nat : \A i \in 1..n : f[i] <= b
<1> DEFINE Unbounded(k) == \E g \in [1..k -> Nat] : \A b \in Nat : \E i \in 1..k : g[i] > b
<1> DEFINE T == {k \in Nat : Unbounded(k)}
<1>1. SUFFICES ASSUME n \in T PROVE FALSE
  <2>1. n \notin T => \E b \in Nat : ~\E i \in 1..n : f[i] > b
    OBVIOUS
  <2>2. \A i \in 1..n : f[i] \in Nat
    OBVIOUS
  <2>3. \A b \in Nat : (~\E i \in 1..n : f[i] > b) => \A i \in 1..n : f[i] <= b
    BY <2>2
  <2> HIDE DEF T
  <2>4. QED
    BY <2>1, <2>3
<1>2. T \in SUBSET Nat
  OBVIOUS
<1>3. \A k \in Nat : k \in T <=> Unbounded(k)
  OBVIOUS
<1> HIDE DEF T
<1>4. PICK k \in T : \A j \in T : k <= j
  BY <1>1, <1>2, LeastOf
<1>5. k \in Nat /\ Unbounded(k)
  BY <1>2, <1>3
<1>6. PICK g \in [1..k -> Nat] : \A b \in Nat : \E i \in 1..k : g[i] > b
  BY <1>5
<1>7. k # 0
  BY <1>6
<1>8. k - 1 \in Nat /\ ~(k <= k - 1)
  BY <1>5, <1>7
<1>9. ~Unbounded(k - 1)
  BY <1>3, <1>4, <1>8
<1>10. k \in 1..k /\ \A i \in 1..k : i = k \/ i \in 1..(k - 1)
  BY <1>5, <1>7
<1>0. \A i \in 1..k : g[i] \in Nat
  OBVIOUS
<1> DEFINE h == [i \in 1..(k - 1) |-> g[i]]
<1>11. h \in [1..(k - 1) -> Nat] /\ \A i \in 1..(k - 1) : h[i] = g[i]
  <2>1. \A i \in 1..(k - 1) : i \in 1..k
    BY <1>5
  <2>2. QED
    BY <2>1, <1>0
<1> HIDE DEF h
<1>12. PICK b \in Nat : ~\E i \in 1..(k - 1) : h[i] > b
  BY <1>9, <1>11
<1>13. ASSUME NEW i \in 1..(k - 1) PROVE g[i] <= b
  <2>1. g[i] = h[i] /\ h[i] \in Nat /\ ~(h[i] > b)
    BY <1>11, <1>12
  <2>2. QED
    BY <2>1
<1>14. b + g[k] \in Nat /\ \A i \in 1..k : ~(g[i] > b + g[k])
  <2>1. g[k] \in Nat
    BY <1>0, <1>10
  <2>2. \A i \in 1..k : g[i] <= b \/ g[i] = g[k]
    BY <1>10, <1>13
  <2>3. QED
    BY <2>1, <2>2, <1>0
<1>15. QED
  BY <1>6, <1>14

\* What Max chooses from a finite set.
LEMMA GreatestOf ==
  ASSUME NEW S \in SUBSET Nat, IsFiniteSet(S), S # {}
  PROVE  Max(S) \in S /\ \A x \in S : x <= Max(S)
<1>1. PICK n \in Nat : ExistsSurjection(1..n, S)
  BY FS_NatSurjection
<1>2. PICK f \in [1..n -> S] : \A x \in S : \E i \in 1..n : f[i] = x
  BY <1>1 DEF ExistsSurjection, Surjection
<1>3. PICK b \in Nat : \A i \in 1..n : f[i] <= b
  <2>1. f \in [1..n -> Nat]
    OBVIOUS
  <2>2. QED
    BY <2>1, Bounded
<1>4. \A x \in S : x <= b
  BY <1>2, <1>3
<1> DEFINE T == {b - x : x \in S}
<1>5. T \in SUBSET Nat
  <2>1. \A x \in S : b - x \in Nat
    BY <1>4
  <2>2. QED
    BY <2>1
<1>6. PICK y \in T : \A z \in T : y <= z
  <2>1. T # {}
    OBVIOUS
  <2> HIDE DEF T
  <2>2. QED
    BY <1>5, <2>1, LeastOf
<1>7. PICK m \in S : y = b - m
  OBVIOUS
<1>8. \A x \in S : m >= x
  <2> SUFFICES ASSUME NEW x \in S PROVE m >= x
    OBVIOUS
  <2>1. b - m <= b - x
    BY <1>6, <1>7
  <2>2. QED
    BY <2>1
<1>9. Max(S) \in S /\ \A x \in S : Max(S) >= x
  BY <1>8 DEF Max
<1>10. QED
  BY <1>9

LEMMA GreaterOf ==
  ASSUME NEW a \in Int, NEW b \in Int
  PROVE  Max({a, b}) \in {a, b} /\ a <= Max({a, b}) /\ b <= Max({a, b})
<1>1. \E x \in {a, b} : \A y \in {a, b} : x >= y
  OBVIOUS
<1>2. Max({a, b}) \in {a, b} /\ \A y \in {a, b} : Max({a, b}) >= y
  BY <1>1 DEF Max
<1>3. QED
  BY <1>2

LEMMA PastTyped == Past \in Int
<1> DEFINE Intervals == {Interval[p] : p \in Providers}
<1>1. Intervals \in SUBSET Nat /\ Intervals # {}
  BY GatesAssumption
<1>2. IsFiniteSet(Intervals)
  <2>1. Interval \in Surjection(Providers, Intervals)
    BY GatesAssumption DEF Surjection
  <2>2. QED
    BY <2>1, FS_Surjection, GatesAssumption
<1>3. Slowest \in Nat
  <2> HIDE DEF Intervals
  <2>1. Max(Intervals) \in Nat
    BY <1>1, <1>2, GreatestOf
  <2>2. QED
    BY <2>1 DEF Slowest, Intervals
<1>4. Max({MaxLag, Slowest}) \in Nat
  <2>1. MaxLag \in Nat /\ MaxLag \in Int /\ Slowest \in Int
    BY <1>3, GatesAssumption
  <2>2. Max({MaxLag, Slowest}) \in {MaxLag, Slowest}
    BY <2>1, GreaterOf
  <2>3. QED
    BY <1>3, <2>1, <2>2
<1>5. QED
  BY <1>4 DEF Past

\* What is known of a time that gets older.
LEMMA OlderTyped ==
  /\ Older(None) = None
  /\ \A n \in Int : Older(n) \in Int /\ Older(n) \in {n - 1, Past} /\ n - 1 <= Older(n) /\ Past <= Older(n)
<1>1. None \notin Int
  BY GatesAssumption
<1>2. ASSUME NEW n \in Int
      PROVE  Older(n) \in Int /\ Older(n) \in {n - 1, Past} /\ n - 1 <= Older(n) /\ Past <= Older(n)
  <2>1. Older(n) = Max({n - 1, Past})
    BY <1>1 DEF Older
  <2>2. n - 1 \in Int /\ Past \in Int
    BY PastTyped
  <2>3. QED
    BY <2>1, <2>2, GreaterOf
<1>3. QED
  BY <1>2 DEF Older

(***************************************************************************)
(* The invariant                                                           *)
(***************************************************************************)

Places == {"idle", "entering", "resolving", "rating", "sleeping", "connecting", "reading",
           "retrying", "delayed", "left"}

\* From the beginning of a chain or a hop to its rate slot.
Unsent == {"idle", "entering", "resolving", "rating", "sleeping", "delayed"}

\* The requests that retries and redirects have allowed so far, the first one aside.
Quota(x) == x.retries * (MaxRedirects + 1) + x.hops

\* What a thread at l with locals x may rely on, of the gate g too: no provider that
\* waits for the host is slower than the gate.
Fits(l, x, g) ==
  /\ l # "idle" => x.provider \in Providers
  /\ l \in {"rating", "sleeping"} => g # None /\ Interval[x.provider] <= g.interval
  /\ l \in Unsent => x.tries <= Quota(x)
  /\ x.tries <= Quota(x) + 1

\* The next time a gate promises keeps its interval from the last it gave away.
Spaced(g) ==
  g # None /\ g.last # None /\ g.last > Past => g.next >= g.last + g.interval

GatesInv ==
  /\ TypeOK
  /\ SlotsAddUp
  /\ Spaced(gate)
  /\ \A t \in Threads : Fits(pc[t], loc[t], gate)

Users(p) == {t \in Threads : pc[t] \in Holding /\ loc[t].provider = p}

-----------------------------------------------------------------------------

LEMMA NoLocalsTyped == NoLocals \in Locals /\ Quota(NoLocals) = 0
<1>1. NoLocals \in Locals
  BY GatesAssumption DEF NoLocals, Locals
<1>2. Quota(NoLocals) = 0
  BY GatesAssumption DEF NoLocals, Quota
<1>3. QED
  BY <1>1, <1>2

LEMMA InitGates == Init => GatesInv
<1> SUFFICES ASSUME Init PROVE GatesInv
  OBVIOUS
<1>1. TypeOK
  BY NoLocalsTyped, GatesAssumption DEF Init, TypeOK
<1>2. SlotsAddUp
  <2> SUFFICES ASSUME NEW p \in Providers PROVE free[p] + Cardinality(Users(p)) = Slots[p]
    BY DEF SlotsAddUp, Users
  <2>1. Users(p) = {}
    BY DEF Init, Users, Holding
  <2>2. QED
    BY <2>1, FS_EmptySet, GatesAssumption DEF Init
<1>3. \A t \in Threads : Fits(pc[t], loc[t], gate)
  BY NoLocalsTyped DEF Init, Fits, NoLocals
<1>4. QED
  BY <1>1, <1>2, <1>3 DEF GatesInv, Spaced, Init

(***************************************************************************)
(* Slots                                                                   *)
(***************************************************************************)

LEMMA UsersFinite == \A p : IsFiniteSet(Users(p))
<1>1. \A p : Users(p) \in SUBSET Threads
  BY DEF Users
<1>2. QED
  BY <1>1, FS_Subset, GatesAssumption

LEMMA SlotsKept ==
  ASSUME SlotsAddUp, free' = free,
         \A t \in Threads : \A p \in Providers :
           (pc'[t] \in Holding /\ loc'[t].provider = p) <=> (pc[t] \in Holding /\ loc[t].provider = p)
  PROVE  SlotsAddUp'
<1>1. \A p \in Providers : Users(p)' = Users(p)
  BY DEF Users
<1>2. \A p \in Providers : free[p] + Cardinality(Users(p)) = Slots[p]
  BY DEF SlotsAddUp, Users
<1>3. \A p \in Providers : free'[p] + Cardinality(Users(p)') = Slots[p]
  BY <1>1, <1>2
<1>4. QED
  BY <1>3 DEF SlotsAddUp, Users

LEMMA SlotTaken ==
  ASSUME TypeOK, SlotsAddUp, NEW t \in Threads, NEW q \in Providers, Acquire(q),
         pc[t] \notin Holding, pc'[t] \in Holding, loc'[t].provider = q,
         \A u \in Threads \ {t} : pc'[u] = pc[u] /\ loc'[u] = loc[u]
  PROVE  SlotsAddUp'
<1>1. \A p \in Providers : free[p] + Cardinality(Users(p)) = Slots[p]
  BY DEF SlotsAddUp, Users
<1>2. ASSUME NEW p \in Providers PROVE free'[p] + Cardinality(Users(p)') = Slots[p]
  <2>1. CASE p = q
    <3>1. Users(p)' = Users(p) \cup {t} /\ t \notin Users(p)
      BY <2>1 DEF Users
    <3>2. Cardinality(Users(p)') = Cardinality(Users(p)) + 1 /\ Cardinality(Users(p)) \in Nat
      BY <3>1, UsersFinite, FS_AddElement, FS_CardinalityType
    <3>3. free'[p] = free[p] - 1 /\ free[p] \in Nat
      BY <2>1 DEF Acquire, TypeOK
    <3>4. QED
      BY <1>1, <3>2, <3>3
  <2>2. CASE p # q
    <3>1. Users(p)' = Users(p)
      BY <2>2 DEF Users
    <3>2. free'[p] = free[p]
      BY <2>2 DEF Acquire, TypeOK
    <3>3. QED
      BY <1>1, <3>1, <3>2
  <2>3. QED
    BY <2>1, <2>2
<1>3. QED
  BY <1>2 DEF SlotsAddUp, Users

LEMMA SlotGiven ==
  ASSUME TypeOK, SlotsAddUp, NEW t \in Threads, NEW q \in Providers, Release(q),
         pc[t] \in Holding, pc'[t] \notin Holding, loc[t].provider = q,
         \A u \in Threads \ {t} : pc'[u] = pc[u] /\ loc'[u] = loc[u]
  PROVE  SlotsAddUp'
<1>1. \A p \in Providers : free[p] + Cardinality(Users(p)) = Slots[p]
  BY DEF SlotsAddUp, Users
<1>2. ASSUME NEW p \in Providers PROVE free'[p] + Cardinality(Users(p)') = Slots[p]
  <2>1. CASE p = q
    <3>1. Users(p)' = Users(p) \ {t} /\ t \in Users(p)
      BY <2>1 DEF Users
    <3>2. Cardinality(Users(p)') = Cardinality(Users(p)) - 1 /\ Cardinality(Users(p)) \in Nat
      BY <3>1, UsersFinite, FS_RemoveElement, FS_CardinalityType
    <3>3. free'[p] = free[p] + 1 /\ free[p] \in Nat
      BY <2>1 DEF Release, TypeOK
    <3>4. QED
      BY <1>1, <3>2, <3>3
  <2>2. CASE p # q
    <3>1. Users(p)' = Users(p)
      BY <2>2 DEF Users
    <3>2. free'[p] = free[p]
      BY <2>2 DEF Release, TypeOK
    <3>3. QED
      BY <1>1, <3>1, <3>2
  <2>3. QED
    BY <2>1, <2>2
<1>3. QED
  BY <1>2 DEF SlotsAddUp, Users

\* What a step of t may do with its slot, when it goes to l with locals x.
Books(t, l, x) ==
  \/ free' = free /\ (pc[t] \in Holding <=> l \in Holding)
                  /\ (l \in Holding => x.provider = loc[t].provider)
  \/ Acquire(x.provider) /\ pc[t] \notin Holding /\ l \in Holding
  \/ Release(loc[t].provider) /\ pc[t] \in Holding /\ l \notin Holding

LEMMA ThreadMoves ==
  ASSUME GatesInv, NEW t \in Threads, NEW l \in Places, NEW x \in Locals,
         pc' = [pc EXCEPT ![t] = l], loc' = [loc EXCEPT ![t] = x],
         gate' \in Gate \cup {None}, granted' \in Int \cup {None},
         gate # None => gate' # None /\ gate.interval <= gate'.interval,
         Spaced(gate'), Fits(l, x, gate'), Books(t, l, x)
  PROVE  GatesInv'
<1>1. TypeOK /\ SlotsAddUp
  BY DEF GatesInv
<1>2. /\ pc'[t] = l /\ loc'[t] = x
      /\ \A u \in Threads \ {t} : pc'[u] = pc[u] /\ loc'[u] = loc[u]
  BY <1>1 DEF TypeOK
<1>3. /\ l \in Holding => x.provider \in Providers
      /\ pc[t] \in Holding => loc[t].provider \in Providers
  BY DEF GatesInv, Fits, Holding
<1>4. SlotsAddUp' /\ free' \in [Providers -> Nat]
  <2>1. CASE free' = free /\ (pc[t] \in Holding <=> l \in Holding)
                          /\ (l \in Holding => x.provider = loc[t].provider)
    <3>1. \A u \in Threads : \A p \in Providers :
            (pc'[u] \in Holding /\ loc'[u].provider = p) <=> (pc[u] \in Holding /\ loc[u].provider = p)
      BY <1>2, <2>1
    <3>2. SlotsAddUp'
      BY <1>1, <2>1, <3>1, SlotsKept
    <3>3. QED
      BY <1>1, <2>1, <3>2 DEF TypeOK
  <2>2. CASE Acquire(x.provider) /\ pc[t] \notin Holding /\ l \in Holding
    <3>1. SlotsAddUp'
      BY <1>1, <1>2, <1>3, <2>2, SlotTaken
    <3>2. free' \in [Providers -> Nat]
      BY <1>1, <1>3, <2>2 DEF TypeOK, Acquire
    <3>3. QED
      BY <3>1, <3>2
  <2>3. CASE Release(loc[t].provider) /\ pc[t] \in Holding /\ l \notin Holding
    <3>1. SlotsAddUp'
      BY <1>1, <1>2, <1>3, <2>3, SlotGiven
    <3>2. free' \in [Providers -> Nat]
      BY <1>1, <1>3, <2>3 DEF TypeOK, Release
    <3>3. QED
      BY <3>1, <3>2
  <2>4. QED
    BY <2>1, <2>2, <2>3 DEF Books
<1>5. TypeOK'
  BY <1>1, <1>4 DEF TypeOK, Places
<1>6. ASSUME NEW u \in Threads PROVE Fits(pc'[u], loc'[u], gate')
  <2>1. CASE u = t
    BY <1>2, <2>1
  <2>2. CASE u # t
    <3>1. Fits(pc[u], loc[u], gate)
      BY DEF GatesInv
    <3>2. pc[u] \in {"rating", "sleeping"} =>
            /\ gate # None /\ gate' # None /\ gate.interval \in Nat /\ gate'.interval \in Nat
            /\ gate.interval <= gate'.interval /\ Interval[loc[u].provider] <= gate.interval
            /\ Interval[loc[u].provider] \in Nat
      BY <3>1, <1>1, GatesAssumption DEF Fits, TypeOK, Gate
    <3>3. pc[u] \in {"rating", "sleeping"} => Interval[loc[u].provider] <= gate'.interval
      BY <3>2
    <3>4. QED
      BY <1>2, <2>2, <3>1, <3>2, <3>3 DEF Fits
  <2>3. QED
    BY <2>1, <2>2
<1>7. QED
  BY <1>4, <1>5, <1>6 DEF GatesInv

(***************************************************************************)
(* Steps                                                                   *)
(***************************************************************************)

\* The parts of the invariant a step of t starts from.
LEMMA Parts ==
  ASSUME GatesInv, NEW t \in Threads
  PROVE  /\ pc[t] \in Places /\ loc[t] \in Locals /\ gate \in Gate \cup {None}
         /\ granted \in Int \cup {None} /\ Spaced(gate) /\ Fits(pc[t], loc[t], gate)
         /\ pc = [pc EXCEPT ![t] = pc[t]] /\ loc = [loc EXCEPT ![t] = loc[t]]
         /\ gate # None => gate.interval \in Nat \ {0} /\ gate.next \in Int /\ gate.interval <= gate.interval
BY DEF GatesInv, TypeOK, Places, Gate

\* A step that moves a thread and at most its slot.
LEMMA QuietMoves ==
  ASSUME GatesInv, NEW t \in Threads, NEW l \in Places, NEW x \in Locals,
         pc' = [pc EXCEPT ![t] = l], loc' = [loc EXCEPT ![t] = x],
         UNCHANGED <<gate, granted>>, Fits(l, x, gate), Books(t, l, x)
  PROVE  GatesInv'
<1>1. /\ gate' \in Gate \cup {None} /\ granted' \in Int \cup {None} /\ Spaced(gate')
      /\ gate # None => gate' # None /\ gate.interval <= gate'.interval
  BY Parts
<1>2. QED
  BY <1>1, ThreadMoves

LEMMA QuotaTyped ==
  ASSUME NEW x \in Locals
  PROVE  /\ Quota(x) \in Nat /\ x.tries \in Nat /\ x.retries \in Nat /\ x.hops \in 0..MaxRedirects
         /\ MaxRedirects \in Nat /\ MaxRetries \in Nat /\ x.retries \in 0..MaxRetries
<1>1. /\ x.tries \in Nat /\ x.retries \in Nat /\ x.hops \in 0..MaxRedirects /\ x.retries \in 0..MaxRetries
      /\ MaxRedirects \in Nat /\ MaxRetries \in Nat /\ x.hops \in Nat /\ MaxRedirects + 1 \in Nat
  BY GatesAssumption DEF Locals
<1>2. x.retries * (MaxRedirects + 1) \in Nat
  BY <1>1
<1>3. QED
  BY <1>1, <1>2 DEF Quota

\* The end of a fetch with some result, wherever its slot was left.
LEMMA EndStep ==
  ASSUME GatesInv, NEW t \in Threads, pc[t] # "idle", UNCHANGED <<gate, granted>>,
         NEW r \in {"response", "policy", "timeout", "transport"}, End(t, r),
         Books(t, "left", loc[t])
  PROVE  GatesInv'
<1> DEFINE x == [loc[t] EXCEPT !.result = r]
<1>1. x \in Locals /\ x.provider = loc[t].provider /\ x.tries = loc[t].tries /\ Quota(x) = Quota(loc[t])
  BY Parts DEF Locals, Quota
<1>2. pc' = [pc EXCEPT ![t] = "left"] /\ loc' = [loc EXCEPT ![t] = x]
  BY DEF End, Goto
<1> HIDE DEF x
<1>3. Fits("left", x, gate)
  BY <1>1, Parts DEF Fits, Unsent
<1>4. Books(t, "left", x) /\ "left" \in Places
  BY <1>1 DEF Books, Places, Holding
<1>5. QED
  BY <1>1, <1>2, <1>3, <1>4, QuietMoves

\* A step to l that leaves the locals as they are.
LEMMA PlaceStep ==
  ASSUME GatesInv, NEW t \in Threads, NEW l \in Places, Goto(t, l), UNCHANGED <<loc, gate, granted>>,
         Fits(l, loc[t], gate), Books(t, l, loc[t])
  PROVE  GatesInv'
<1>1. loc' = [loc EXCEPT ![t] = loc[t]] /\ loc[t] \in Locals
  BY Parts
<1>2. QED
  BY <1>1, QuietMoves DEF Goto

\* A gate is a record, which the absent one is not.
LEMMA NarrowKeeps ==
  ASSUME NEW g \in Gate, g # None, Spaced(g), NEW i \in Nat \ {0}
  PROVE  /\ Narrow(g, i) \in Gate /\ Narrow(g, i) # None /\ Spaced(Narrow(g, i))
         /\ i <= Narrow(g, i).interval /\ g.interval <= Narrow(g, i).interval
<1>1. /\ g.interval \in Nat \ {0} /\ g.next \in Int /\ g.last \in Int \cup {None} /\ None \notin Int
      /\ Past \in Int
  BY GatesAssumption, PastTyped DEF Gate
<1>2. CASE i <= g.interval
  BY <1>1, <1>2 DEF Narrow
<1>3. CASE ~(i <= g.interval)
  <2> DEFINE n == IF g.last = None THEN g.next ELSE Max({g.next, g.last + i})
  <2>1. n \in Int /\ (g.last # None => g.last + i <= n)
    <3>1. CASE g.last = None
      BY <1>1, <3>1
    <3>2. CASE g.last # None
      <4>1. g.last + i \in Int
        BY <1>1, <3>2
      <4>2. QED
        BY <1>1, <3>2, <4>1, GreaterOf
    <3>3. QED
      BY <3>1, <3>2
  <2>2. Narrow(g, i) = [g EXCEPT !.interval = i, !.next = n]
    BY <1>3 DEF Narrow
  <2> HIDE DEF n
  <2> DEFINE h == [g EXCEPT !.interval = i, !.next = n]
  <2>3. h \in Gate /\ h.interval = i /\ h.next = n /\ h.last = g.last
    BY <2>1 DEF Gate
  <2>4. h # None
    BY <2>3, NoneIsNoGate
  <2> HIDE DEF h
  <2>5. Spaced(h)
    BY <1>1, <2>1, <2>3 DEF Spaced
  <2>6. QED
    BY <1>1, <1>3, <2>2, <2>3, <2>4, <2>5 DEF h
<1>4. QED
  BY <1>2, <1>3

LEMMA EnteringStep ==
  ASSUME GatesInv, NEW t \in Threads,
         \/ \E p \in Providers : Begin(t, p)
         \/ Enter(t) \/ EnterTimesOut(t) \/ ResolveFails(t) \/ FindGate(t)
  PROVE  GatesInv'
<1>1. ASSUME NEW p \in Providers, Begin(t, p) PROVE GatesInv'
  <2> DEFINE x == [NoLocals EXCEPT !.provider = p, !.deadline = TotalTimeout]
  <2>1. x \in Locals /\ x.provider = p /\ x.tries = 0 /\ Quota(x) = 0
    <3>1. NoLocals \in Locals /\ TotalTimeout \in Int
      BY NoLocalsTyped, GatesAssumption
    <3>2. /\ x \in Locals /\ x.provider = p /\ x.tries = NoLocals.tries /\ x.hops = NoLocals.hops
          /\ x.retries = NoLocals.retries
      BY <3>1 DEF Locals
    <3>3. Quota(x) = Quota(NoLocals) /\ NoLocals.tries = 0
      BY <3>2 DEF Quota, NoLocals
    <3>4. QED
      BY <3>2, <3>3, NoLocalsTyped
  <2>2. pc[t] = "idle" /\ pc' = [pc EXCEPT ![t] = "entering"] /\ loc' = [loc EXCEPT ![t] = x]
    BY <1>1 DEF Begin, Goto
  <2>3. UNCHANGED <<gate, free, granted>>
    BY <1>1 DEF Begin
  <2> HIDE DEF x
  <2>4. Fits("entering", x, gate) /\ Books(t, "entering", x) /\ "entering" \in Places
    BY <2>1, <2>2, <2>3 DEF Fits, Books, Holding, Places
  <2>5. QED
    BY <2>1, <2>2, <2>3, <2>4, QuietMoves
<1>2. CASE Enter(t)
  <2>1. /\ pc[t] = "entering" /\ Goto(t, "resolving") /\ Acquire(loc[t].provider)
        /\ UNCHANGED <<loc, gate, granted>>
    BY <1>2 DEF Enter
  <2>2. Fits("resolving", loc[t], gate) /\ Books(t, "resolving", loc[t]) /\ "resolving" \in Places
    BY <2>1, Parts DEF Fits, Books, Holding, Places, Unsent
  <2>3. QED
    BY <2>1, <2>2, PlaceStep
<1>3. CASE EnterTimesOut(t)
  <2>1. pc[t] = "entering" /\ End(t, "timeout") /\ UNCHANGED <<gate, free, granted>>
    BY <1>3 DEF EnterTimesOut
  <2>2. Books(t, "left", loc[t])
    BY <2>1 DEF Books, Holding
  <2>3. QED
    BY <2>1, <2>2, EndStep
<1>4. CASE ResolveFails(t)
  <2>1. pc[t] = "resolving" /\ Release(loc[t].provider) /\ UNCHANGED <<gate, granted>>
    BY <1>4 DEF ResolveFails
  <2>2. CASE End(t, "policy")
    <3>1. Books(t, "left", loc[t])
      BY <2>1 DEF Books, Holding
    <3>2. QED
      BY <2>1, <2>2, <3>1, EndStep
  <2>3. CASE Goto(t, "retrying") /\ UNCHANGED loc
    <3>1. Fits("retrying", loc[t], gate) /\ Books(t, "retrying", loc[t]) /\ "retrying" \in Places
      BY <2>1, Parts DEF Fits, Books, Holding, Places, Unsent
    <3>2. QED
      BY <2>1, <2>3, <3>1, PlaceStep
  <2>4. QED
    BY <1>4, <2>2, <2>3 DEF ResolveFails
<1>5. CASE FindGate(t)
  <2> DEFINE i == Interval[loc[t].provider]
  <2>1. /\ pc[t] = "resolving" /\ Goto(t, "rating") /\ UNCHANGED <<free, loc, granted>>
        /\ gate' = IF gate = None THEN [interval |-> i, next |-> Past, last |-> None] ELSE Narrow(gate, i)
    BY <1>5 DEF FindGate
  <2>2. loc[t].provider \in Providers /\ i \in Nat \ {0} /\ None \notin Int
    BY <2>1, Parts, GatesAssumption DEF Fits
  <2> HIDE DEF i
  <2>3. /\ gate' \in Gate /\ gate' # None /\ i <= gate'.interval /\ Spaced(gate')
        /\ gate # None => gate.interval <= gate'.interval
    <3>1. CASE gate = None
      <4>1. gate' = [interval |-> i, next |-> Past, last |-> None]
        BY <2>1, <3>1
      <4>2. gate' \in Gate /\ gate'.interval = i /\ gate'.last = None
        BY <4>1, <2>2, PastTyped DEF Gate
      <4>3. gate' # None
        BY <4>2, NoneIsNoGate
      <4>4. QED
        BY <3>1, <4>2, <4>3, <2>2 DEF Spaced
    <3>2. CASE gate # None
      <4>1. gate \in Gate /\ Spaced(gate) /\ gate' = Narrow(gate, i)
        BY <2>1, <3>2, Parts
      <4>2. QED
        BY <4>1, <2>2, <3>2, NarrowKeeps
    <3>3. QED
      BY <3>1, <3>2
  <2>4. Fits("rating", loc[t], gate')
    BY <2>1, <2>3, Parts DEF Fits, Unsent, i
  <2>5. /\ Books(t, "rating", loc[t]) /\ "rating" \in Places /\ loc[t] \in Locals
        /\ loc' = [loc EXCEPT ![t] = loc[t]] /\ pc' = [pc EXCEPT ![t] = "rating"]
        /\ granted' \in Int \cup {None}
    BY <2>1, Parts DEF Books, Holding, Places, Goto
  <2>6. QED
    BY <2>3, <2>4, <2>5, ThreadMoves
<1>6. QED
  BY <1>1, <1>2, <1>3, <1>4, <1>5

LEMMA RatingStep ==
  ASSUME GatesInv, NEW t \in Threads,
         ReadClock(t) \/ Reserve(t) \/ Sleep(t) \/ Wake(t) \/ RateTimesOut(t)
  PROVE  GatesInv'
<1>0. None \notin Int
  BY GatesAssumption
<1>1. CASE ReadClock(t)
  <2> DEFINE x == [loc[t] EXCEPT !.now = 0]
  <2>1. x \in Locals /\ x.provider = loc[t].provider /\ x.tries = loc[t].tries /\ Quota(x) = Quota(loc[t])
    BY Parts DEF Locals, Quota
  <2>2. /\ pc[t] = "rating" /\ pc' = [pc EXCEPT ![t] = "rating"] /\ loc' = [loc EXCEPT ![t] = x]
        /\ UNCHANGED <<gate, free, granted>>
    BY <1>1, Parts DEF ReadClock
  <2> HIDE DEF x
  <2>3. Fits("rating", x, gate) /\ Books(t, "rating", x) /\ "rating" \in Places
    BY <2>1, <2>2, Parts DEF Fits, Books, Holding, Places, Unsent
  <2>4. QED
    BY <2>1, <2>2, <2>3, QuietMoves
<1>2. CASE Reserve(t)
  <2>1. /\ pc[t] = "rating" /\ loc[t].now # None /\ gate.next <= loc[t].now
        /\ gate' = [gate EXCEPT !.next = loc[t].now + gate.interval, !.last = loc[t].now]
        /\ granted' = 0 /\ UNCHANGED free
    BY <1>2 DEF Reserve, MayGo
  <2>2. gate # None /\ gate \in Gate /\ loc[t] \in Locals /\ loc[t].now \in Int
    BY <2>1, Parts DEF Fits, Locals
  <2>3. gate' \in Gate /\ gate'.interval = gate.interval /\ gate'.last = loc[t].now
        /\ gate'.next = loc[t].now + gate.interval
    <3>1. gate.interval \in Nat \ {0} /\ loc[t].now + gate.interval \in Int
      BY <2>2 DEF Gate
    <3>2. QED
      BY <2>1, <2>2, <3>1 DEF Gate
  <2>4. gate' # None /\ Spaced(gate') /\ gate.interval \in Nat
    BY <2>2, <2>3, NoneIsNoGate DEF Spaced, Gate
  <2> DEFINE x == [loc[t] EXCEPT !.now = None, !.tries = @ + 1]
  <2>5. /\ x \in Locals /\ x.provider = loc[t].provider /\ x.tries = loc[t].tries + 1
        /\ Quota(x) = Quota(loc[t])
    <3>1. loc[t].tries + 1 \in Nat
      BY <2>2, QuotaTyped
    <3>2. /\ x \in Locals /\ x.provider = loc[t].provider /\ x.tries = loc[t].tries + 1
          /\ x.retries = loc[t].retries /\ x.hops = loc[t].hops
      BY <2>2, <3>1 DEF Locals
    <3>3. QED
      BY <3>2 DEF Quota
  <2>6. pc' = [pc EXCEPT ![t] = "connecting"] /\ loc' = [loc EXCEPT ![t] = x]
    BY <1>2 DEF Reserve, Goto
  <2> HIDE DEF x
  <2>7. Quota(loc[t]) \in Nat /\ loc[t].tries \in Nat /\ loc[t].tries <= Quota(loc[t])
    BY <2>1, <2>2, Parts, QuotaTyped DEF Fits, Unsent
  <2>8. x.tries <= Quota(x) + 1
    BY <2>5, <2>7
  <2>9. Fits("connecting", x, gate') /\ Books(t, "connecting", x) /\ "connecting" \in Places
    BY <2>1, <2>5, <2>8, Parts DEF Fits, Books, Holding, Places, Unsent
  <2>10. granted' \in Int \cup {None} /\ gate.interval <= gate'.interval
    BY <2>1, <2>3, <2>4
  <2>11. QED
    BY <2>3, <2>4, <2>5, <2>6, <2>9, <2>10, ThreadMoves
<1>3. CASE Sleep(t)
  <2> DEFINE x == [loc[t] EXCEPT !.wake = gate.next - loc[t].now, !.now = None]
  <2>1. /\ pc[t] = "rating" /\ loc[t].now # None /\ UNCHANGED <<gate, free, granted>>
        /\ pc' = [pc EXCEPT ![t] = "sleeping"] /\ loc' = [loc EXCEPT ![t] = x]
    BY <1>3 DEF Sleep, MustWait, Goto
  <2>2. gate # None /\ gate.next \in Int /\ loc[t] \in Locals /\ loc[t].now \in Int
    BY <2>1, Parts DEF Fits, Locals
  <2>3. x \in Locals /\ x.provider = loc[t].provider /\ x.tries = loc[t].tries /\ Quota(x) = Quota(loc[t])
    <3>1. gate.next - loc[t].now \in Int
      BY <2>2
    <3>2. QED
      BY <2>2, <3>1 DEF Locals, Quota
  <2> HIDE DEF x
  <2>4. Fits("sleeping", x, gate) /\ Books(t, "sleeping", x) /\ "sleeping" \in Places
    BY <2>1, <2>3, Parts DEF Fits, Books, Holding, Places, Unsent
  <2>5. QED
    BY <2>1, <2>3, <2>4, QuietMoves
<1>4. CASE Wake(t)
  <2>1. pc[t] = "sleeping" /\ Goto(t, "rating") /\ UNCHANGED <<gate, free, loc, granted>>
    BY <1>4 DEF Wake
  <2>2. Fits("rating", loc[t], gate) /\ Books(t, "rating", loc[t]) /\ "rating" \in Places
    BY <2>1, Parts DEF Fits, Books, Holding, Places, Unsent
  <2>3. QED
    BY <2>1, <2>2, PlaceStep
<1>5. CASE RateTimesOut(t)
  <2>1. /\ pc[t] = "rating" /\ Release(loc[t].provider) /\ End(t, "timeout")
        /\ UNCHANGED <<gate, granted>>
    BY <1>5 DEF RateTimesOut, MustWait
  <2>2. Books(t, "left", loc[t])
    BY <2>1 DEF Books, Holding
  <2>3. QED
    BY <2>1, <2>2, EndStep
<1>6. QED
  BY <1>1, <1>2, <1>3, <1>4, <1>5

\* The request itself, and where its answer leads.
LEMMA RequestStep ==
  ASSUME GatesInv, NEW t \in Threads,
         ConnectTimesOut(t) \/ Connect(t) \/ ReadTimesOut(t) \/ Redirect(t) \/ Respond(t)
  PROVE  GatesInv'
<1>1. CASE ConnectTimesOut(t) \/ ReadTimesOut(t)
  <2>1. /\ pc[t] \in {"connecting", "reading"} /\ Release(loc[t].provider) /\ End(t, "timeout")
        /\ UNCHANGED <<gate, granted>>
    BY <1>1 DEF ConnectTimesOut, ReadTimesOut
  <2>2. Books(t, "left", loc[t])
    BY <2>1 DEF Books, Holding
  <2>3. QED
    BY <2>1, <2>2, EndStep
<1>2. CASE Connect(t)
  <2>1. pc[t] = "connecting" /\ Goto(t, "reading") /\ UNCHANGED <<gate, free, loc, granted>>
    BY <1>2 DEF Connect
  <2>2. Fits("reading", loc[t], gate) /\ Books(t, "reading", loc[t]) /\ "reading" \in Places
    BY <2>1, Parts DEF Fits, Books, Holding, Places, Unsent
  <2>3. QED
    BY <2>1, <2>2, PlaceStep
<1>3. CASE Redirect(t)
  <2>1. pc[t] = "reading" /\ Release(loc[t].provider) /\ UNCHANGED <<gate, granted>>
    BY <1>3 DEF Redirect
  <2>2. CASE loc[t].hops < MaxRedirects
    <3> DEFINE x == [loc[t] EXCEPT !.hops = @ + 1]
    <3>1. loc[t] \in Locals /\ loc[t].hops \in 0..MaxRedirects /\ MaxRedirects \in Nat
      BY Parts, GatesAssumption DEF Locals
    <3>2. loc[t].hops + 1 \in 0..MaxRedirects
      BY <2>2, <3>1
    <3>3. /\ x \in Locals /\ x.provider = loc[t].provider /\ x.tries = loc[t].tries
          /\ x.hops = loc[t].hops + 1 /\ x.retries = loc[t].retries
      BY <3>1, <3>2 DEF Locals
    <3>4. pc' = [pc EXCEPT ![t] = "entering"] /\ loc' = [loc EXCEPT ![t] = x]
      BY <1>3, <2>2 DEF Redirect, Goto
    <3> HIDE DEF x
    <3>5. Quota(x) = Quota(loc[t]) + 1 /\ Quota(loc[t]) \in Nat /\ x.tries \in Nat
      <4>1. loc[t].retries * (MaxRedirects + 1) \in Nat /\ loc[t].hops \in Nat
        BY <3>1, QuotaTyped
      <4>2. Quota(x) = loc[t].retries * (MaxRedirects + 1) + (loc[t].hops + 1)
        BY <3>3 DEF Quota
      <4>3. QED
        BY <3>1, <3>3, <4>1, <4>2, QuotaTyped DEF Quota
    <3>6. x.tries <= Quota(x) /\ x.tries <= Quota(x) + 1
      <4>1. loc[t].tries <= Quota(loc[t]) + 1
        BY Parts DEF Fits
      <4>2. QED
        BY <3>3, <3>5, <4>1
    <3>7. Fits("entering", x, gate) /\ Books(t, "entering", x) /\ "entering" \in Places
      BY <2>1, <3>3, <3>6, Parts DEF Fits, Books, Holding, Places, Unsent
    <3>8. QED
      BY <2>1, <3>3, <3>4, <3>7, QuietMoves
  <2>3. CASE ~(loc[t].hops < MaxRedirects)
    <3>1. End(t, "policy") /\ Books(t, "left", loc[t])
      BY <1>3, <2>1, <2>3 DEF Redirect, Books, Holding
    <3>2. QED
      BY <2>1, <3>1, EndStep
  <2>4. QED
    BY <2>2, <2>3
<1>4. CASE Respond(t)
  <2>1. pc[t] = "reading" /\ Release(loc[t].provider) /\ UNCHANGED <<gate, granted>>
    BY <1>4 DEF Respond
  <2>2. ASSUME NEW r \in {"response", "policy"}, End(t, r) PROVE GatesInv'
    <3>1. Books(t, "left", loc[t])
      BY <2>1 DEF Books, Holding
    <3>2. QED
      BY <2>1, <2>2, <3>1, EndStep
  <2>3. CASE Goto(t, "retrying") /\ UNCHANGED loc
    <3>1. Fits("retrying", loc[t], gate) /\ Books(t, "retrying", loc[t]) /\ "retrying" \in Places
      BY <2>1, Parts DEF Fits, Books, Holding, Places, Unsent
    <3>2. QED
      BY <2>1, <2>3, <3>1, PlaceStep
  <2>4. QED
    BY <1>4, <2>2, <2>3 DEF Respond
<1>5. QED
  BY <1>1, <1>2, <1>3, <1>4

LEMMA RetryStep ==
  ASSUME GatesInv, NEW t \in Threads,
         RetriesUsed(t) \/ EndDelay(t) \/ Finish(t) \/ \E d \in Delays : Retry(t, d)
  PROVE  GatesInv'
<1>1. CASE RetriesUsed(t)
  <2>1. PICK r \in {"response", "transport"} : End(t, r)
    BY <1>1 DEF RetriesUsed
  <2>2. pc[t] = "retrying" /\ UNCHANGED <<gate, free, granted>>
    BY <1>1 DEF RetriesUsed
  <2>3. Books(t, "left", loc[t])
    BY <2>2 DEF Books, Holding
  <2>4. QED
    BY <2>1, <2>2, <2>3, EndStep
<1>2. CASE EndDelay(t)
  <2>1. pc[t] = "delayed" /\ Goto(t, "entering") /\ UNCHANGED <<gate, free, loc, granted>>
    BY <1>2 DEF EndDelay
  <2>2. Fits("entering", loc[t], gate) /\ Books(t, "entering", loc[t]) /\ "entering" \in Places
    BY <2>1, Parts DEF Fits, Books, Holding, Places, Unsent
  <2>3. QED
    BY <2>1, <2>2, PlaceStep
<1>3. CASE Finish(t)
  <2>1. /\ pc[t] = "left" /\ pc' = [pc EXCEPT ![t] = "idle"] /\ loc' = [loc EXCEPT ![t] = NoLocals]
        /\ UNCHANGED <<gate, free, granted>>
    BY <1>3 DEF Finish, Goto
  <2>2. Fits("idle", NoLocals, gate) /\ Books(t, "idle", NoLocals) /\ "idle" \in Places
    <3>1. NoLocals.tries = 0 /\ Quota(NoLocals) = 0
      BY NoLocalsTyped DEF NoLocals
    <3>2. QED
      BY <2>1, <3>1 DEF Fits, Books, Holding, Places
  <2>3. QED
    BY <2>1, <2>2, NoLocalsTyped, QuietMoves
<1>4. ASSUME NEW d \in Delays, Retry(t, d) PROVE GatesInv'
  <2>1. pc[t] = "retrying" /\ loc[t].retries < MaxRetries /\ UNCHANGED <<gate, free, granted>>
    BY <1>4 DEF Retry
  <2>2. CASE d >= loc[t].deadline
    <3>1. End(t, "timeout") /\ Books(t, "left", loc[t])
      BY <1>4, <2>1, <2>2 DEF Retry, Books, Holding
    <3>2. QED
      BY <2>1, <3>1, EndStep
  <2>3. CASE ~(d >= loc[t].deadline)
    <3> DEFINE x == [loc[t] EXCEPT !.wake = d, !.retries = @ + 1, !.hops = 0]
    <3>1. /\ loc[t] \in Locals /\ loc[t].retries \in 0..MaxRetries /\ MaxRetries \in Nat /\ d \in Int
          /\ MaxRedirects \in Nat /\ 0 \in 0..MaxRedirects
      BY Parts, GatesAssumption, QuotaTyped
    <3>2. loc[t].retries + 1 \in 0..MaxRetries
      BY <2>1, <3>1
    <3>3. /\ x \in Locals /\ x.provider = loc[t].provider /\ x.tries = loc[t].tries
          /\ x.hops = 0 /\ x.retries = loc[t].retries + 1
      BY <3>1, <3>2 DEF Locals
    <3>4. pc' = [pc EXCEPT ![t] = "delayed"] /\ loc' = [loc EXCEPT ![t] = x]
      BY <1>4, <2>3 DEF Retry, Goto
    <3> HIDE DEF x
    <3>5. Quota(loc[t]) + 1 <= Quota(x) /\ Quota(x) \in Nat /\ Quota(loc[t]) \in Nat
      <4>1. (loc[t].retries + 1) * (MaxRedirects + 1)
              = loc[t].retries * (MaxRedirects + 1) + (MaxRedirects + 1)
        BY <3>1
      <4>2. loc[t].retries * (MaxRedirects + 1) \in Nat /\ loc[t].hops \in 0..MaxRedirects
        BY <3>1, QuotaTyped
      <4>3. QED
        BY <3>1, <3>3, <4>1, <4>2 DEF Quota
    <3>6. x.tries <= Quota(x) /\ x.tries <= Quota(x) + 1
      <4>1. loc[t].tries <= Quota(loc[t]) + 1 /\ loc[t].tries \in Nat
        BY <3>1, Parts, QuotaTyped DEF Fits
      <4>2. QED
        BY <3>3, <3>5, <4>1
    <3>7. Fits("delayed", x, gate) /\ Books(t, "delayed", x) /\ "delayed" \in Places
      BY <2>1, <3>3, <3>6, Parts DEF Fits, Books, Holding, Places, Unsent
    <3>8. QED
      BY <2>1, <3>3, <3>4, <3>7, QuietMoves
  <2>4. QED
    BY <2>2, <2>3
<1>5. QED
  BY <1>1, <1>2, <1>3, <1>4

\* Time changes neither who holds a slot nor how many requests were sent, and moves
\* what the gate has given away and what it promises alike.
LEMMA TickStep == ASSUME GatesInv, Tick PROVE GatesInv'
<1>0. TypeOK /\ SlotsAddUp /\ Spaced(gate) /\ None \notin Int /\ Past \in Int
  BY GatesAssumption, PastTyped DEF GatesInv
<1>1. UNCHANGED <<free, pc>> /\ granted' \in Int \cup {None}
  BY <1>0, OlderTyped DEF Tick, TypeOK
<1>2. ASSUME NEW t \in Threads
      PROVE  /\ loc'[t] \in Locals /\ loc'[t].provider = loc[t].provider
             /\ loc'[t].tries = loc[t].tries /\ Quota(loc'[t]) = Quota(loc[t])
  <2>1. loc[t] \in Locals
    BY <1>0 DEF TypeOK
  <2>2. CASE pc[t] \in {"idle", "left"}
    <3>1. loc'[t] = loc[t]
      BY <2>2 DEF Tick
    <3>2. QED
      BY <2>1, <3>1
  <2>3. CASE pc[t] \notin {"idle", "left"}
    <3>1. loc'[t] = [loc[t] EXCEPT !.deadline = Older(@), !.now = Older(@), !.wake = Max({0, @ - 1})]
      BY <2>3 DEF Tick
    <3>2. /\ Older(loc[t].deadline) \in Int /\ Older(loc[t].now) \in Int \cup {None}
          /\ Max({0, loc[t].wake - 1}) \in Int
      <4>1. loc[t].deadline \in Int /\ loc[t].now \in Int \cup {None} /\ loc[t].wake - 1 \in Int
        BY <2>1 DEF Locals
      <4> DEFINE w == loc[t].wake - 1
      <4>2. w \in Int
        BY <4>1
      <4>3. 0 \in Int
        OBVIOUS
      <4>4. Max({0, w}) \in {0, w}
        <5> HIDE DEF w
        <5>1. QED
          BY <4>2, <4>3, GreaterOf
      <4>5. QED
        BY <4>1, <4>4, OlderTyped
    <3>3. QED
      BY <2>1, <3>1, <3>2 DEF Locals, Quota
  <2>4. QED
    BY <2>2, <2>3
<1>3. gate' \in Gate \cup {None} /\ Spaced(gate')
      /\ (gate # None => gate' # None /\ gate'.interval = gate.interval)
  <2>1. CASE gate = None
    BY <2>1 DEF Tick, Spaced
  <2>2. CASE gate # None
    <3>1. gate \in Gate /\ gate.next \in Int /\ gate.interval \in Nat /\ gate.last \in Int \cup {None}
      BY <1>0, <2>2 DEF TypeOK, Gate
    <3>2. gate' = [gate EXCEPT !.next = Older(@), !.last = Older(@)]
      BY <2>2 DEF Tick
    <3>3. Older(gate.next) \in Int /\ gate.next - 1 <= Older(gate.next) /\ Older(gate.last) \in Int \cup {None}
      BY <3>1, OlderTyped
    <3>4. /\ gate' \in Gate /\ gate'.interval = gate.interval /\ gate'.next = Older(gate.next)
          /\ gate'.last = Older(gate.last)
      BY <3>1, <3>2, <3>3 DEF Gate
    <3>5. ASSUME gate'.last # None, gate'.last > Past PROVE gate'.next >= gate'.last + gate'.interval
      <4>1. gate.last \in Int
        BY <3>1, <3>4, <3>5, OlderTyped
      <4>2. gate'.last = gate.last - 1 /\ gate.last > Past
        BY <1>0, <3>4, <3>5, <4>1, OlderTyped
      <4>3. gate.next >= gate.last + gate.interval
        BY <1>0, <2>2, <4>1, <4>2 DEF Spaced
      <4>4. QED
        BY <3>1, <3>3, <3>4, <4>1, <4>2, <4>3
    <3>6. gate' # None
      BY <3>4, NoneIsNoGate
    <3>7. QED
      BY <3>4, <3>5, <3>6 DEF Spaced
  <2>3. QED
    BY <2>1, <2>2
<1>4. SlotsAddUp'
  BY <1>0, <1>1, <1>2, SlotsKept
<1>5. TypeOK'
  <2>1. loc' = [t \in Threads |-> loc'[t]]
    BY DEF Tick
  <2>2. loc' \in [Threads -> Locals]
    BY <1>2, <2>1
  <2>3. QED
    BY <1>0, <1>1, <1>3, <2>2 DEF TypeOK
<1>6. ASSUME NEW t \in Threads PROVE Fits(pc'[t], loc'[t], gate')
  <2>1. Fits(pc[t], loc[t], gate)
    BY DEF GatesInv
  <2>2. QED
    BY <1>1, <1>2, <1>3, <2>1 DEF Fits
<1>7. QED
  BY <1>3, <1>4, <1>5, <1>6 DEF GatesInv

LEMMA GatesStep == GatesInv /\ [Next]_vars => GatesInv'
<1> SUFFICES ASSUME GatesInv, [Next]_vars PROVE GatesInv'
  OBVIOUS
<1>1. CASE UNCHANGED vars
  BY <1>1 DEF vars, GatesInv, TypeOK, SlotsAddUp, Fits
<1>2. CASE Next
  BY <1>2, TickStep, EnteringStep, RatingStep, RequestStep, RetryStep DEF Next
<1>3. QED
  BY <1>1, <1>2

LEMMA GatesHold == Spec => []GatesInv
BY InitGates, GatesStep, PTL DEF Spec

\* On every path that a fetch may take, slots are given back exactly once and its
\* requests stay within what retries and redirects allow (_request_once, fetch,
\* _one_redirect_chain).
THEOREM SlotsAndTriesCount == Spec => []LimitsCount
<1>1. GatesInv => LimitsCount
  <2> SUFFICES ASSUME GatesInv PROVE LimitsCount
    OBVIOUS
  <2>1. ASSUME NEW t \in Threads
        PROVE  loc[t].tries <= loc[t].retries * (MaxRedirects + 1) + loc[t].hops + 1
    BY DEF GatesInv, Fits, Quota
  <2>2. QED
    BY <2>1 DEF GatesInv, LimitsCount, TriesBounded
<1>2. QED
  BY <1>1, GatesHold, PTL

\* The gate writes down no two requests closer than the interval of the later one's
\* provider, however the providers of a host differ and in whatever order they first
\* meet it (_host_rate_gate_for, _acquire_host_rate_slot).
THEOREM GateKeepsDistance == Spec => ReservationsSpaced
<1>1. ASSUME GatesInv, NEW t \in Threads, Reserve(t), gate.last # None, gate.last > Past
      PROVE  gate'.last - gate.last >= Interval[loc[t].provider]
  <2>1. /\ pc[t] = "rating" /\ loc[t].now # None /\ gate.next <= loc[t].now
        /\ gate' = [gate EXCEPT !.next = loc[t].now + gate.interval, !.last = loc[t].now]
    BY <1>1 DEF Reserve, MayGo
  <2>2. /\ gate # None /\ gate \in Gate /\ loc[t].now \in Int /\ Interval[loc[t].provider] \in Nat
        /\ Interval[loc[t].provider] <= gate.interval /\ Spaced(gate)
    BY <1>1, <2>1, Parts, GatesAssumption DEF Fits, Locals
  <2>3. gate'.last = loc[t].now /\ gate.interval \in Nat /\ gate.next \in Int /\ gate.last \in Int
    BY <1>1, <2>1, <2>2 DEF Gate
  <2>4. gate.next >= gate.last + gate.interval
    BY <1>1, <2>2 DEF Spaced
  <2>5. QED
    BY <2>1, <2>2, <2>3, <2>4
<1>2. GatesInv /\ [Next]_vars =>
        [\A t \in Threads :
           Reserve(t) /\ gate.last # None /\ gate.last > Past =>
             gate'.last - gate.last >= Interval[loc[t].provider]]_vars
  BY <1>1
<1>3. QED
  BY <1>2, GatesHold, PTL DEF Spec, ReservationsSpaced

================================================================================
