------------------------------ MODULE PassProofs ------------------------------
(***************************************************************************)
(* What holds of the passes of an index build for all workers, searches,   *)
(* units and sizes: how they share memory and workers with searches        *)
(* (Workers), that the pieces their workers make go to the file in order,  *)
(* none lost, and wait for their turn within the room (Turns), and that    *)
(* the tree's passes gather every entry once (TreePasses).                 *)
(***************************************************************************)
EXTENDS Workers, Turns, TreePasses, FiniteSetTheorems, SequenceTheorems, WellFoundedInduction, TLAPS
-----------------------------------------------------------------------------
(* Workers.                                                                *)

LEMMA SmallerIs ==
    ASSUME NEW x \in Int, NEW y \in Int
    PROVE  Min({x, y}) = IF x <= y THEN x ELSE y
<1> DEFINE m == IF x <= y THEN x ELSE y
<1>1. m \in {x, y} /\ \A z \in {x, y} : m <= z
  OBVIOUS
<1>2. \A n \in {x, y} : (\A z \in {x, y} : n <= z) => n = m
  OBVIOUS
<1> HIDE DEF m
<1>3. Min({x, y}) = m
  BY <1>1, <1>2 DEF Min
<1> QED
  BY <1>3 DEF m

(* What the passes hold, one by one: a pass's share and those of the rest. *)
LEMMA SharesFinite ==
    ASSUME NEW f \in [Passes -> Nat]
    PROVE  IsFiniteSet(Shares(f)) /\ Cardinality(Shares(f)) \in Nat
<1>1. IsFiniteSet(Passes)
  BY FS_AddElement, SearchesAssumption DEF Passes
<1> DEFINE all == {{p} \X (1..f[p]) : p \in Passes}
<1>2. IsFiniteSet(all)
  <2> DEFINE g == [p \in Passes |-> {p} \X (1..f[p])]
  <2>1. g \in Surjection(Passes, all)
    BY DEF Surjection
  <2> HIDE DEF g, all
  <2> QED
    BY <1>1, <2>1, FS_Surjection
<1>3. \A p \in Passes : IsFiniteSet({p} \X (1..f[p]))
  <2> SUFFICES ASSUME NEW p \in Passes PROVE IsFiniteSet({p} \X (1..f[p]))
    OBVIOUS
  <2>1. f[p] \in Int
    OBVIOUS
  <2>2. IsFiniteSet(1..f[p])
    BY <2>1, FS_Interval
  <2>3. IsFiniteSet({p})
    BY FS_Singleton
  <2> QED
    BY <2>2, <2>3, FS_Product
<1>4. IsFiniteSet(UNION all)
  BY <1>2, <1>3, FS_UNION
<1> QED
  BY <1>4, FS_CardinalityType DEF Shares

LEMMA ShareSplits ==
    ASSUME NEW f \in [Passes -> Nat], NEW p \in Passes
    PROVE  LET rest == [f EXCEPT ![p] = 0] IN
           /\ Cardinality(Shares(f)) = Cardinality(Shares(rest)) + f[p]
           /\ rest \in [Passes -> Nat]
<1> DEFINE rest == [f EXCEPT ![p] = 0]
           own == {p} \X (1..f[p])
<1>1. rest \in [Passes -> Nat] /\ f[p] \in Nat
  OBVIOUS
<1>2. Shares(f) = Shares(rest) \union own /\ Shares(rest) \intersect own = {}
  <2>1. ASSUME NEW e PROVE e \in Shares(f) <=> e \in Shares(rest) \union own
    <3>1. e \in Shares(f) <=> \E q \in Passes : e \in {q} \X (1..f[q])
      BY DEF Shares
    <3>2. e \in Shares(rest) <=> \E q \in Passes : e \in {q} \X (1..rest[q])
      BY DEF Shares
    <3>3. \A q \in Passes : q # p => rest[q] = f[q]
      OBVIOUS
    <3>4. rest[p] = 0 /\ 1..0 = {}
      OBVIOUS
    <3> HIDE DEF rest
    <3> QED
      BY <3>1, <3>2, <3>3, <3>4
  <2>2. ASSUME NEW e, e \in Shares(rest), e \in own PROVE FALSE
    <3>1. PICK q \in Passes : e \in {q} \X (1..rest[q])
      BY <2>2 DEF Shares
    <3>2. e[1] = q /\ e[1] = p
      BY <2>2, <3>1
    <3> QED
      BY <3>1, <3>2
  <2> HIDE DEF rest, own
  <2> QED
    BY <2>1, <2>2
<1>3. IsFiniteSet(own) /\ Cardinality(own) = f[p]
  <2>1. IsFiniteSet(1..f[p]) /\ Cardinality(1..f[p]) = f[p]
    BY <1>1, FS_Interval
  <2>2. IsFiniteSet(own) /\ Cardinality(own) = Cardinality({p}) * Cardinality(1..f[p])
    BY <2>1, FS_Singleton, FS_Product
  <2>3. Cardinality({p}) = 1
    BY FS_Singleton
  <2>4. Cardinality(own) = 1 * f[p]
    BY <2>1, <2>2, <2>3
  <2> QED
    BY <1>1, <2>2, <2>4
<1> HIDE DEF rest, own
<1>4. /\ IsFiniteSet(Shares(rest)) /\ Cardinality(Shares(rest)) \in Nat
  BY <1>1, SharesFinite
<1>5. Cardinality(Shares(f)) = Cardinality(Shares(rest)) + Cardinality(own) - Cardinality({})
  BY <1>2, <1>3, <1>4, FS_Union
<1>6. Cardinality(Shares(f)) = Cardinality(Shares(rest)) + f[p]
  BY <1>1, <1>3, <1>4, <1>5, FS_EmptySet
<1> QED
  BY <1>1, <1>6 DEF rest

(* One pass's share becomes another.                                       *)
LEMMA ShareChanges ==
    ASSUME NEW f \in [Passes -> Nat], NEW g \in [Passes -> Nat], NEW p \in Passes,
           \A q \in Passes : q # p => g[q] = f[q]
    PROVE  /\ Cardinality(Shares(g)) = Cardinality(Shares(f)) - f[p] + g[p]
           /\ f[p] \in 0..Cardinality(Shares(f)) /\ Cardinality(Shares(f)) \in Nat
<1>1. f[p] \in Nat /\ g[p] \in Nat /\ [g EXCEPT ![p] = 0] = [f EXCEPT ![p] = 0]
  OBVIOUS
<1> DEFINE rest == [f EXCEPT ![p] = 0]
<1>2. rest \in [Passes -> Nat]
  OBVIOUS
<1>3. Cardinality(Shares(f)) = Cardinality(Shares(rest)) + f[p]
  BY ShareSplits
<1>4. Cardinality(Shares(g)) = Cardinality(Shares(rest)) + g[p]
  BY <1>1, ShareSplits
<1> HIDE DEF rest
<1>5. Cardinality(Shares(rest)) \in Nat
  BY <1>2, SharesFinite
<1>6. Cardinality(Shares(f)) \in Nat
  BY SharesFinite
<1>7. Cardinality(Shares(g)) = Cardinality(Shares(f)) - f[p] + g[p] /\ f[p] \in 0..Cardinality(Shares(f))
  BY <1>1, <1>3, <1>4, <1>5, <1>6
<1> QED
  BY <1>6, <1>7

(* Where a pass may be, of each kind, and what it then holds.              *)
SearchSteps == {"rest", "acquiring", "aside", "wakingAside", "reserving", "evicting", "working",
                "growing", "ending", "over", "waking"}
BuildSteps == {"rest", "acquiring", "aside", "reserving", "evicting", "working", "ending",
               "looking", "checked", "asleep", "woken", "done"}
Giving == {"looking", "checked", "asleep", "woken"}
Empty == {"rest", "acquiring", "aside", "wakingAside", "over", "waking", "done"}

StepsOfPasses ==
    /\ at \in [Passes -> Steps] /\ at[Build] \in BuildSteps
    /\ \A p \in Searches : at[p] \in SearchSteps

PartsTyped ==
    /\ slots \in [Passes -> Nat] /\ hold \in [Passes -> Nat] /\ wanted \in [Passes -> BOOLEAN]
    /\ retained \in Nat /\ fgLock \in BOOLEAN /\ batch \in 0..Batches /\ patient \in BOOLEAN
    /\ promoter \in {"none", "waking", "done"}

(* The build holds the foreground lock from its look to its sleep, and has *)
(* a batch to do when it wakes.                                            *)
GivesWayBetween ==
    /\ fgLock <=> at[Build] \in {"looking", "checked"}
    /\ at[Build] \in Giving => batch < Batches

(* What a pass holds at each step.                                         *)
HoldsAt(step, workers, reserved) ==
    /\ step \in Empty => workers = 0 /\ reserved = 0
    /\ step \in {"reserving", "evicting"} => workers >= 1 /\ reserved = 0
    /\ step \in {"working", "growing"} \union Giving => workers >= 1 /\ reserved >= workers
HoldsAsItIs == \A p \in Passes : HoldsAt(at[p], slots[p], hold[p])

SlotsCounted == taken = Cardinality(Shares(slots)) /\ taken \in 0..Pool
HoldsCounted == held = retained + Cardinality(Shares(hold)) /\ held \in 0..Budget

AtWorkNow == {p \in Searches : AtWork(p)}
ForegroundCounted == foreground = Cardinality(AtWorkNow)

(* Whoever sleeps, or is about to, will be woken.                          *)
WillWake ==
    at[Build] \in {"checked", "asleep"} =>
        \/ patient /\ \E p \in Searches : AtWork(p)
        \/ \E p \in Searches : at[p] \in {"waking", "wakingAside"}
        \/ promoter = "waking"

WorkersInv == /\ StepsOfPasses /\ PartsTyped /\ GivesWayBetween /\ HoldsAsItIs
              /\ SlotsCounted /\ HoldsCounted /\ ForegroundCounted /\ WillWake

LEMMA PassKinds ==
    /\ Build \in Passes /\ Searches \subseteq Passes /\ \A p \in Passes : p \in Searches \/ p = Build
    /\ \A p \in Searches : p # Build
BY BuildAssumption DEF Passes

LEMMA AtWorkFinite == IsFiniteSet(AtWorkNow) /\ Cardinality(AtWorkNow) \in Nat
BY FS_Subset, FS_CardinalityType, SearchesAssumption DEF AtWorkNow

(* The foreground count and the build's sleep through steps that change    *)
(* neither, and through one search's coming and going.                     *)
LEMMA ForegroundSame ==
    ASSUME StepsOfPasses, ForegroundCounted, WillWake,
           \A q \in Searches : at'[q] = at[q] \/ (AtWork(q) /\ AtWork(q)'),
           at'[Build] \in {"checked", "asleep"} => at[Build] \in {"checked", "asleep"},
           UNCHANGED <<foreground, patient, promoter>>
    PROVE  ForegroundCounted' /\ WillWake'
<1>1. \A q \in Searches : AtWork(q)' <=> AtWork(q)
  BY DEF AtWork
<1>2. AtWorkNow' = AtWorkNow
  BY <1>1 DEF AtWorkNow
<1>3. \A q \in Searches : at[q] \in {"waking", "wakingAside"} => at'[q] \in {"waking", "wakingAside"}
  BY DEF AtWork
<1> QED
  BY <1>1, <1>2, <1>3 DEF ForegroundCounted, WillWake

LEMMA ForegroundMore ==
    ASSUME StepsOfPasses, ForegroundCounted, WillWake, NEW p \in Searches,
           ~AtWork(p), at[p] \notin {"waking", "wakingAside"}, at' = [at EXCEPT ![p] = "acquiring"],
           foreground' = foreground + 1, UNCHANGED <<patient, promoter>>
    PROVE  ForegroundCounted' /\ WillWake'
<1>1. /\ \A q \in Passes : q # p => at'[q] = at[q]
      /\ at'[p] = "acquiring" /\ at'[Build] = at[Build]
  BY PassKinds DEF StepsOfPasses
<1>2. \A q \in Searches : AtWork(q)' <=> AtWork(q) \/ q = p
  BY <1>1, PassKinds DEF AtWork
<1>3. AtWorkNow' = AtWorkNow \union {p} /\ p \notin AtWorkNow
  BY <1>2 DEF AtWorkNow
<1>4. Cardinality(AtWorkNow') = Cardinality(AtWorkNow) + 1
  BY <1>3, AtWorkFinite, FS_AddElement
<1>5. ForegroundCounted'
  BY <1>4 DEF ForegroundCounted
<1>6. \A q \in Searches : at[q] \in {"waking", "wakingAside"} => at'[q] = at[q]
  BY <1>1, PassKinds
<1> QED
  BY <1>1, <1>2, <1>5, <1>6 DEF WillWake

LEMMA ForegroundLess ==
    ASSUME StepsOfPasses, ForegroundCounted, WillWake, NEW p \in Searches, AtWork(p),
           NEW wakes \in {"waking", "wakingAside"}, NEW on \in {"rest", "aside"},
           Lower(p, wakes, on), UNCHANGED <<patient, promoter>>
    PROVE  ForegroundCounted' /\ WillWake' /\ foreground >= 1
<1>1. /\ \A q \in Passes : q # p => at'[q] = at[q]
      /\ at'[p] = IF foreground = 1 THEN wakes ELSE on
      /\ at'[Build] = at[Build]
  BY PassKinds DEF StepsOfPasses, Lower, Go
<1>2. \A q \in Searches : AtWork(q)' <=> AtWork(q) /\ q # p
  BY <1>1, PassKinds DEF AtWork
<1>3. AtWorkNow' = AtWorkNow \ {p} /\ p \in AtWorkNow
  BY <1>2 DEF AtWorkNow
<1>4. Cardinality(AtWorkNow') = Cardinality(AtWorkNow) - 1
  BY <1>3, AtWorkFinite, FS_RemoveElement
<1>5. ForegroundCounted'
  BY <1>4 DEF ForegroundCounted, Lower
<1>6. IsFiniteSet(AtWorkNow') /\ Cardinality(AtWorkNow') \in Nat
  BY <1>3, AtWorkFinite, FS_RemoveElement, FS_CardinalityType
<1>7. foreground >= 1
  BY <1>4, <1>6, AtWorkFinite DEF ForegroundCounted
<1>8. foreground # 1 => \E q \in Searches : AtWork(q)'
  <2>1. ASSUME AtWorkNow' = {} PROVE foreground = 1
    <3>1. Cardinality(AtWorkNow') = 0
      BY <2>1, FS_EmptySet
    <3> QED
      BY <1>4, <3>1, AtWorkFinite DEF ForegroundCounted
  <2> QED
    BY <2>1 DEF AtWorkNow
<1>9. foreground = 1 => at'[p] \in {"waking", "wakingAside"}
  BY <1>1
<1>10. \A q \in Searches : at[q] \in {"waking", "wakingAside"} => at'[q] = at[q]
  BY <1>1, PassKinds DEF AtWork
<1>11. WillWake'
  BY <1>1, <1>8, <1>9, <1>10 DEF WillWake
<1> QED
  BY <1>5, <1>7, <1>11

(* What a step does to the workers and the budget.                         *)
LEMMA SlotsChange ==
    ASSUME PartsTyped, SlotsCounted, NEW p \in Passes, NEW n \in Nat,
           slots' = [slots EXCEPT ![p] = n], taken' = taken - slots[p] + n, taken' <= Pool
    PROVE  /\ SlotsCounted' /\ slots' \in [Passes -> Nat]
           /\ slots'[p] = n /\ \A q \in Passes : q # p => slots'[q] = slots[q]
<1>1. /\ slots' \in [Passes -> Nat] /\ slots[p] \in Nat
      /\ slots'[p] = n /\ \A q \in Passes : q # p => slots'[q] = slots[q]
  BY DEF PartsTyped
<1>2. /\ Cardinality(Shares(slots')) = Cardinality(Shares(slots)) - slots[p] + slots'[p]
      /\ slots[p] \in 0..Cardinality(Shares(slots)) /\ Cardinality(Shares(slots)) \in Nat
  <2>1. slots \in [Passes -> Nat]
    BY DEF PartsTyped
  <2> QED
    BY <1>1, <2>1, ShareChanges
<1>3. Shares(slots)' = Shares(slots') /\ taken = Cardinality(Shares(slots))
  BY DEF Shares, SlotsCounted
<1>4. taken' = Cardinality(Shares(slots)') /\ taken' \in 0..Pool
  BY <1>1, <1>2, <1>3, PoolAssumption
<1> QED
  BY <1>1, <1>4 DEF SlotsCounted

LEMMA HoldChanges ==
    ASSUME PartsTyped, HoldsCounted, NEW p \in Passes, NEW n \in Nat, NEW rest \in Nat,
           hold' = [hold EXCEPT ![p] = n], retained' = rest,
           held' = held - hold[p] + n - retained + rest, held' <= Budget
    PROVE  /\ HoldsCounted' /\ hold' \in [Passes -> Nat]
           /\ hold'[p] = n /\ \A q \in Passes : q # p => hold'[q] = hold[q]
<1>1. /\ hold' \in [Passes -> Nat] /\ hold[p] \in Nat
      /\ hold'[p] = n /\ \A q \in Passes : q # p => hold'[q] = hold[q]
  BY DEF PartsTyped
<1> DEFINE all == Cardinality(Shares(hold))
<1>2. held = retained + all /\ retained \in Nat
  BY DEF PartsTyped, HoldsCounted
<1>3. /\ Cardinality(Shares(hold')) = all - hold[p] + n
      /\ hold[p] \in 0..all /\ all \in Nat
  <2>1. hold \in [Passes -> Nat]
    BY DEF PartsTyped
  <2> QED
    BY <1>1, <2>1, ShareChanges
<1> HIDE DEF all
<1>4. Shares(hold)' = Shares(hold')
  BY DEF Shares
<1>5. held' = retained' + Cardinality(Shares(hold)') /\ held' \in 0..Budget
  BY <1>1, <1>2, <1>3, <1>4, PoolAssumption
<1> QED
  BY <1>1, <1>5 DEF HoldsCounted

LEMMA SlotsSame ==
    ASSUME SlotsCounted, UNCHANGED <<slots, taken>>
    PROVE  SlotsCounted'
BY DEF SlotsCounted, Shares

LEMMA HoldsSame ==
    ASSUME HoldsCounted, UNCHANGED <<hold, held, retained>>
    PROVE  HoldsCounted'
BY DEF HoldsCounted, Shares

LEMMA EvictedOnly ==
    ASSUME PartsTyped, HoldsCounted, Evict, UNCHANGED hold
    PROVE  HoldsCounted' /\ retained' \in Nat
<1> DEFINE all == Cardinality(Shares(hold))
<1>1. held = retained + all /\ retained \in Nat /\ all \in Nat /\ held \in 0..Budget
  BY SharesFinite DEF PartsTyped, HoldsCounted
<1>2. Cardinality(Shares(hold)') = all
  BY DEF Shares
<1> HIDE DEF all
<1>3. held' = retained' + Cardinality(Shares(hold)') /\ held' \in 0..Budget /\ retained' = 0
  BY <1>1, <1>2, PoolAssumption DEF Evict
<1> QED
  BY <1>3 DEF HoldsCounted

(* A pass takes bytes that fit.                                            *)
LEMMA TakesWhatFits ==
    ASSUME PartsTyped, HoldsCounted, NEW p \in Passes, NEW n \in Nat, Fits(n), Take(p, n), UNCHANGED retained
    PROVE  /\ HoldsCounted' /\ hold' \in [Passes -> Nat]
           /\ hold'[p] = hold[p] + n /\ \A q \in Passes : q # p => hold'[q] = hold[q]
<1>1. hold[p] + n \in Nat /\ retained \in Nat /\ hold[p] \in Nat
  BY DEF PartsTyped
<1>2. held \in Int /\ hold' = [hold EXCEPT ![p] = hold[p] + n] /\ held' = held + n /\ retained' = retained
  BY DEF HoldsCounted, Take
<1>3. held' = held - hold[p] + (hold[p] + n) - retained + retained /\ held' <= Budget
  BY <1>1, <1>2, PoolAssumption DEF Fits
<1> QED
  BY <1>1, <1>2, <1>3, HoldChanges

(* One pass moves on; the others stay and hold what they hold.             *)
LEMMA PassMoves ==
    ASSUME StepsOfPasses, HoldsAsItIs, NEW p \in Passes, NEW step \in Steps, Go(p, step),
           p \in Searches => step \in SearchSteps, p = Build => step \in BuildSteps,
           \A q \in Passes : q # p => slots'[q] = slots[q] /\ hold'[q] = hold[q],
           HoldsAt(step, slots'[p], hold'[p])
    PROVE  /\ StepsOfPasses' /\ HoldsAsItIs'
           /\ at'[p] = step /\ \A q \in Passes : q # p => at'[q] = at[q]
<1>1. at' \in [Passes -> Steps] /\ at'[p] = step /\ \A q \in Passes : q # p => at'[q] = at[q]
  BY DEF StepsOfPasses, Go
<1>2. StepsOfPasses'
  BY <1>1, PassKinds DEF StepsOfPasses
<1>3. HoldsAsItIs'
  BY <1>1 DEF HoldsAsItIs
<1> QED
  BY <1>1, <1>2, <1>3

(* A pass goes on, and is at work before and after, if it is a search.     *)
LEMMA GoesOn ==
    ASSUME WorkersInv, NEW p \in Passes, NEW step \in Steps, Go(p, step),
           p \in Searches => /\ at[p] \in SearchSteps \ {"rest", "aside", "wakingAside", "waking"}
                             /\ step \in SearchSteps \ {"rest", "aside", "wakingAside", "waking"},
           p = Build => at[Build] \notin Giving /\ step \in BuildSteps \ Giving,
           \A q \in Passes : q # p => slots'[q] = slots[q] /\ hold'[q] = hold[q],
           HoldsAt(step, slots'[p], hold'[p]),
           UNCHANGED <<foreground, giving>>
    PROVE  StepsOfPasses' /\ HoldsAsItIs' /\ GivesWayBetween' /\ ForegroundCounted' /\ WillWake'
<1>1. StepsOfPasses /\ HoldsAsItIs /\ GivesWayBetween /\ ForegroundCounted /\ WillWake
  BY DEF WorkersInv
<1>2. /\ StepsOfPasses' /\ HoldsAsItIs'
      /\ at'[p] = step /\ \A q \in Passes : q # p => at'[q] = at[q]
  BY <1>1, PassMoves
<1>3. at'[Build] = at[Build] \/ (at[Build] \notin Giving /\ at'[Build] \notin Giving)
  BY <1>2, PassKinds
<1>4. GivesWayBetween'
  BY <1>1, <1>3 DEF GivesWayBetween, giving, Giving
<1>5. \A q \in Searches : at'[q] = at[q] \/ (AtWork(q) /\ AtWork(q)')
  BY <1>2, PassKinds DEF AtWork
<1>6. ForegroundCounted' /\ WillWake'
  BY <1>1, <1>3, <1>5, ForegroundSame DEF giving, Giving
<1> QED
  BY <1>2, <1>4, <1>6
-----------------------------------------------------------------------------
(* The invariant step by step.                                             *)
LEMMA AcquireKeeps ==
    ASSUME WorkersInv, NEW p \in Passes, Acquire(p)
    PROVE  WorkersInv'
<1>1. PICK want \in 1..Pool : /\ slots' = [slots EXCEPT ![p] = Min({want, Pool - taken})]
                             /\ taken' = taken + slots'[p]
  BY DEF Acquire
<1> DEFINE n == Min({want, Pool - taken})
<1>2. n \in 1..Pool /\ n <= Pool - taken /\ taken < Pool /\ taken \in Nat
  BY SmallerIs, PoolAssumption DEF WorkersInv, SlotsCounted, Acquire
<1> HIDE DEF n
<1>3. at[p] = "acquiring" /\ Go(p, "reserving")
      /\ UNCHANGED <<memory, wanted, foreground, giving>> /\ slots' = [slots EXCEPT ![p] = n]
  BY <1>1 DEF Acquire, n
<1>4. slots[p] = 0 /\ hold[p] = 0 /\ slots \in [Passes -> Nat] /\ hold' = hold
  BY <1>3 DEF WorkersInv, HoldsAsItIs, HoldsAt, Empty, PartsTyped, memory
<1>5. taken' = taken - slots[p] + n /\ taken' <= Pool /\ n \in Nat
  BY <1>1, <1>2, <1>3, <1>4, PoolAssumption
<1>6. SlotsCounted' /\ slots' \in [Passes -> Nat] /\ slots'[p] = n /\ \A q \in Passes : q # p => slots'[q] = slots[q]
  BY <1>3, <1>5, SlotsChange DEF WorkersInv
<1>7. HoldsCounted'
  BY <1>3, HoldsSame DEF WorkersInv, memory
<1>8. HoldsAt("reserving", slots'[p], hold'[p])
  BY <1>2, <1>4, <1>6 DEF HoldsAt, Empty, Giving
<1>9. StepsOfPasses' /\ HoldsAsItIs' /\ GivesWayBetween' /\ ForegroundCounted' /\ WillWake'
  BY <1>3, <1>4, <1>6, <1>8, GoesOn DEF Steps, SearchSteps, BuildSteps, Giving
<1>10. PartsTyped'
  BY <1>3, <1>6 DEF WorkersInv, PartsTyped, memory, giving
<1> QED
  BY <1>6, <1>7, <1>9, <1>10 DEF WorkersInv

LEMMA AcquireEndsKeeps ==
    ASSUME WorkersInv, NEW p \in Passes, AcquireEnds(p)
    PROVE  WorkersInv'
<1>1. /\ at[p] = "acquiring" /\ Go(p, "ending")
      /\ UNCHANGED <<slots, memory, wanted, taken, foreground, giving>>
  BY DEF AcquireEnds
<1>2. SlotsCounted' /\ HoldsCounted'
  BY <1>1, SlotsSame, HoldsSame DEF WorkersInv, memory
<1>3. HoldsAt("ending", slots'[p], hold'[p])
  BY DEF HoldsAt, Empty, Giving
<1>4. StepsOfPasses' /\ HoldsAsItIs' /\ GivesWayBetween' /\ ForegroundCounted' /\ WillWake'
  BY <1>1, <1>3, GoesOn DEF Steps, SearchSteps, BuildSteps, Giving, memory
<1>5. PartsTyped'
  BY <1>1 DEF WorkersInv, PartsTyped, memory, giving
<1> QED
  BY <1>2, <1>4, <1>5 DEF WorkersInv

LEMMA ReserveKeeps ==
    ASSUME WorkersInv, NEW p \in Passes, Reserve(p)
    PROVE  WorkersInv'
<1>1. /\ at[p] = "reserving" /\ slots[p] \in Nat /\ slots[p] >= 1 /\ hold[p] = 0
      /\ UNCHANGED <<slots, wanted, taken, foreground, giving>>
  BY DEF Reserve, WorkersInv, HoldsAsItIs, HoldsAt, PartsTyped
<1>2. SlotsCounted'
  BY <1>1, SlotsSame DEF WorkersInv
<1>3. CASE Fits(slots[p])
  <2>1. Take(p, slots[p]) /\ Go(p, "working") /\ UNCHANGED retained
    BY <1>3 DEF Reserve
  <2>2. /\ HoldsCounted' /\ hold' \in [Passes -> Nat]
        /\ hold'[p] = hold[p] + slots[p] /\ \A q \in Passes : q # p => hold'[q] = hold[q]
    BY <1>1, <1>3, <2>1, TakesWhatFits DEF WorkersInv
  <2>3. HoldsAt("working", slots'[p], hold'[p])
    BY <1>1, <2>2 DEF HoldsAt, Empty, Giving
  <2>4. StepsOfPasses' /\ HoldsAsItIs' /\ GivesWayBetween' /\ ForegroundCounted' /\ WillWake'
    BY <1>1, <2>1, <2>2, <2>3, GoesOn DEF Steps, SearchSteps, BuildSteps, Giving
  <2>5. PartsTyped'
    BY <1>1, <2>1, <2>2 DEF WorkersInv, PartsTyped, giving
  <2> QED
    BY <1>2, <2>2, <2>4, <2>5 DEF WorkersInv
<1>4. CASE ~Fits(slots[p])
  <2>1. Evict /\ Go(p, "evicting") /\ UNCHANGED hold
    BY <1>4 DEF Reserve
  <2>2. HoldsCounted' /\ retained' \in Nat
    BY <2>1, EvictedOnly DEF WorkersInv
  <2>3. HoldsAt("evicting", slots'[p], hold'[p])
    BY <1>1, <2>1 DEF HoldsAt, Empty, Giving
  <2>4. StepsOfPasses' /\ HoldsAsItIs' /\ GivesWayBetween' /\ ForegroundCounted' /\ WillWake'
    BY <1>1, <2>1, <2>3, GoesOn DEF Steps, SearchSteps, BuildSteps, Giving
  <2>5. PartsTyped'
    BY <1>1, <2>1, <2>2 DEF WorkersInv, PartsTyped, giving
  <2> QED
    BY <1>2, <2>2, <2>4, <2>5 DEF WorkersInv
<1> QED
  BY <1>3, <1>4

LEMMA Half ==
    ASSUME NEW n \in Nat, n > 1
    PROVE  n \div 2 \in Nat /\ n \div 2 >= 1 /\ n \div 2 < n
OBVIOUS

LEMMA ReserveAgainKeeps ==
    ASSUME WorkersInv, NEW p \in Passes, ReserveAgain(p)
    PROVE  WorkersInv'
<1>1. /\ at[p] = "evicting" /\ slots[p] \in Nat /\ slots[p] >= 1 /\ hold[p] = 0
      /\ UNCHANGED <<retained, wanted, foreground, giving>>
  BY DEF ReserveAgain, WorkersInv, HoldsAsItIs, HoldsAt, PartsTyped
<1>2. CASE Fits(slots[p])
  <2>1. Take(p, slots[p]) /\ Go(p, "working") /\ UNCHANGED <<slots, taken>>
    BY <1>2 DEF ReserveAgain
  <2>2. /\ HoldsCounted' /\ hold' \in [Passes -> Nat]
        /\ hold'[p] = hold[p] + slots[p] /\ \A q \in Passes : q # p => hold'[q] = hold[q]
    BY <1>1, <1>2, <2>1, TakesWhatFits DEF WorkersInv
  <2>3. HoldsAt("working", slots'[p], hold'[p])
    BY <1>1, <2>1, <2>2 DEF HoldsAt, Empty, Giving
  <2>4. StepsOfPasses' /\ HoldsAsItIs' /\ GivesWayBetween' /\ ForegroundCounted' /\ WillWake'
    BY <1>1, <2>1, <2>2, <2>3, GoesOn DEF Steps, SearchSteps, BuildSteps, Giving
  <2>5. PartsTyped'
    BY <1>1, <2>1, <2>2 DEF WorkersInv, PartsTyped, giving
  <2>6. SlotsCounted'
    BY <2>1, SlotsSame DEF WorkersInv
  <2> QED
    BY <2>2, <2>4, <2>5, <2>6 DEF WorkersInv
<1>3. CASE ~Fits(slots[p])
  <2>1. UNCHANGED <<hold, held, retained>>
    BY <1>1, <1>3 DEF ReserveAgain
  <2>2. HoldsCounted'
    BY <2>1, HoldsSame DEF WorkersInv
  <2>3. CASE slots[p] > 1
    <3> DEFINE n == slots[p] \div 2
    <3>1. n \in Nat /\ n >= 1 /\ n < slots[p]
      BY <1>1, <2>3, Half
    <3>2. /\ slots' = [slots EXCEPT ![p] = n] /\ Go(p, "reserving")
          /\ taken' = taken - (slots[p] - slots'[p]) /\ slots'[p] = n
      BY <1>3, <2>3 DEF ReserveAgain, WorkersInv, PartsTyped
    <3> HIDE DEF n
    <3>3. taken' = taken - slots[p] + n /\ taken' <= Pool
      BY <1>1, <3>1, <3>2, PoolAssumption DEF WorkersInv, SlotsCounted
    <3>4. SlotsCounted' /\ slots' \in [Passes -> Nat] /\ \A q \in Passes : q # p => slots'[q] = slots[q]
      BY <3>1, <3>2, <3>3, SlotsChange DEF WorkersInv
    <3>5. HoldsAt("reserving", slots'[p], hold'[p])
      BY <1>1, <2>1, <3>1, <3>2 DEF HoldsAt, Empty, Giving
    <3>6. StepsOfPasses' /\ HoldsAsItIs' /\ GivesWayBetween' /\ ForegroundCounted' /\ WillWake'
      BY <1>1, <2>1, <3>2, <3>4, <3>5, GoesOn DEF Steps, SearchSteps, BuildSteps, Giving
    <3>7. PartsTyped'
      BY <1>1, <2>1, <3>4 DEF WorkersInv, PartsTyped, giving
    <3> QED
      BY <2>2, <3>4, <3>6, <3>7 DEF WorkersInv
  <2>4. CASE ~(slots[p] > 1)
    <3>1. Go(p, "ending") /\ UNCHANGED <<slots, taken>>
      BY <1>3, <2>4 DEF ReserveAgain
    <3>2. HoldsAt("ending", slots'[p], hold'[p])
      BY DEF HoldsAt, Empty, Giving
    <3>3. StepsOfPasses' /\ HoldsAsItIs' /\ GivesWayBetween' /\ ForegroundCounted' /\ WillWake'
      BY <1>1, <2>1, <3>1, <3>2, GoesOn DEF Steps, SearchSteps, BuildSteps, Giving
    <3>4. PartsTyped' /\ SlotsCounted'
      BY <1>1, <2>1, <3>1, SlotsSame DEF WorkersInv, PartsTyped, giving
    <3> QED
      BY <2>2, <3>3, <3>4 DEF WorkersInv
  <2> QED
    BY <2>3, <2>4
<1> QED
  BY <1>2, <1>3

(* What Grow and GrowAgain do: a search takes one more, or only moves on.  *)
LEMMA GrowsOne ==
    ASSUME WorkersInv, NEW p \in Searches, at[p] \in {"working", "growing"}, Fits(1), Take(p, 1),
           Go(p, "working"), UNCHANGED <<slots, retained, wanted, taken, foreground, giving>>
    PROVE  WorkersInv'
<1>1. p \in Passes /\ p # Build
  BY PassKinds
<1>2. slots[p] \in Nat /\ hold[p] \in Nat /\ slots[p] >= 1 /\ hold[p] >= slots[p]
  BY <1>1 DEF WorkersInv, HoldsAsItIs, HoldsAt, PartsTyped
<1>3. /\ HoldsCounted' /\ hold' \in [Passes -> Nat]
      /\ hold'[p] = hold[p] + 1 /\ \A q \in Passes : q # p => hold'[q] = hold[q]
  BY <1>1, TakesWhatFits DEF WorkersInv
<1>4. HoldsAt("working", slots'[p], hold'[p])
  BY <1>2, <1>3 DEF HoldsAt, Empty, Giving
<1>5. StepsOfPasses' /\ HoldsAsItIs' /\ GivesWayBetween' /\ ForegroundCounted' /\ WillWake'
  BY <1>1, <1>3, <1>4, GoesOn DEF Steps, SearchSteps
<1>6. PartsTyped' /\ SlotsCounted'
  BY <1>3, SlotsSame DEF WorkersInv, PartsTyped, giving
<1> QED
  BY <1>3, <1>5, <1>6 DEF WorkersInv

LEMMA GrowKeeps ==
    ASSUME WorkersInv, NEW p \in Passes, Grow(p)
    PROVE  WorkersInv'
<1>1. p \in Searches /\ p # Build /\ at[p] = "working" /\ UNCHANGED <<slots, wanted, taken, foreground, giving>>
  BY PassKinds DEF Grow
<1>2. CASE Fits(1)
  BY <1>1, <1>2, GrowsOne DEF Grow
<1>3. CASE ~Fits(1)
  <2>1. Evict /\ Go(p, "growing") /\ UNCHANGED hold
    BY <1>3 DEF Grow
  <2>2. HoldsCounted' /\ retained' \in Nat /\ SlotsCounted'
    BY <1>1, <2>1, EvictedOnly, SlotsSame DEF WorkersInv
  <2>3. HoldsAt("growing", slots'[p], hold'[p])
    BY <1>1, <2>1 DEF HoldsAt, Empty, Giving, WorkersInv, HoldsAsItIs
  <2>4. StepsOfPasses' /\ HoldsAsItIs' /\ GivesWayBetween' /\ ForegroundCounted' /\ WillWake'
    BY <1>1, <2>1, <2>3, GoesOn DEF Steps, SearchSteps
  <2>5. PartsTyped'
    BY <1>1, <2>1, <2>2 DEF WorkersInv, PartsTyped, giving
  <2> QED
    BY <2>2, <2>4, <2>5 DEF WorkersInv
<1> QED
  BY <1>2, <1>3

LEMMA GrowAgainKeeps ==
    ASSUME WorkersInv, NEW p \in Passes, GrowAgain(p)
    PROVE  WorkersInv'
<1>1. /\ p \in Searches /\ p # Build /\ at[p] = "growing"
      /\ UNCHANGED <<slots, retained, wanted, taken, foreground, giving>>
  BY PassKinds DEF GrowAgain, WorkersInv, StepsOfPasses, BuildSteps
<1>2. CASE Fits(1)
  BY <1>1, <1>2, GrowsOne DEF GrowAgain
<1>3. CASE ~Fits(1)
  <2>1. Go(p, "ending") /\ UNCHANGED <<hold, held>>
    BY <1>3 DEF GrowAgain
  <2>2. HoldsCounted' /\ SlotsCounted'
    BY <1>1, <2>1, HoldsSame, SlotsSame DEF WorkersInv
  <2>3. HoldsAt("ending", slots'[p], hold'[p])
    BY DEF HoldsAt, Empty, Giving
  <2>4. StepsOfPasses' /\ HoldsAsItIs' /\ GivesWayBetween' /\ ForegroundCounted' /\ WillWake'
    BY <1>1, <2>1, <2>3, GoesOn DEF Steps, SearchSteps
  <2>5. PartsTyped'
    BY <1>1, <2>1 DEF WorkersInv, PartsTyped, giving
  <2> QED
    BY <2>2, <2>4, <2>5 DEF WorkersInv
<1> QED
  BY <1>2, <1>3

LEMMA DoneKeeps ==
    ASSUME WorkersInv, NEW p \in Passes, Done(p)
    PROVE  WorkersInv'
<1>1. /\ p \in Searches /\ p # Build /\ at[p] = "working" /\ Go(p, "ending")
      /\ UNCHANGED <<slots, wanted, taken, held, foreground, giving>>
  BY PassKinds DEF Done
<1>2. slots[p] \in Nat /\ hold[p] \in Nat /\ hold[p] >= slots[p] /\ retained \in Nat
  BY <1>1 DEF WorkersInv, HoldsAsItIs, HoldsAt, PartsTyped
<1>3. PICK keep \in {0, hold[p] - slots[p]} :
          hold' = [hold EXCEPT ![p] = hold[p] - keep] /\ retained' = retained + keep
  BY DEF Done
<1>4. keep \in Nat /\ hold[p] - keep \in Nat /\ retained + keep \in Nat
  BY <1>2
<1>5. /\ held' = held - hold[p] + (hold[p] - keep) - retained + (retained + keep)
      /\ held' <= Budget
  BY <1>1, <1>2, <1>4, PoolAssumption DEF WorkersInv, HoldsCounted
<1>6. /\ HoldsCounted' /\ hold' \in [Passes -> Nat]
      /\ \A q \in Passes : q # p => hold'[q] = hold[q]
  BY <1>3, <1>4, <1>5, HoldChanges DEF WorkersInv
<1>7. HoldsAt("ending", slots'[p], hold'[p])
  BY DEF HoldsAt, Empty, Giving
<1>8. StepsOfPasses' /\ HoldsAsItIs' /\ GivesWayBetween' /\ ForegroundCounted' /\ WillWake'
  BY <1>1, <1>6, <1>7, GoesOn DEF Steps, SearchSteps
<1>9. PartsTyped' /\ SlotsCounted'
  BY <1>1, <1>3, <1>4, <1>6, SlotsSame DEF WorkersInv, PartsTyped, giving
<1> QED
  BY <1>6, <1>8, <1>9 DEF WorkersInv

LEMMA EndKeeps ==
    ASSUME WorkersInv, NEW p \in Passes, End(p)
    PROVE  WorkersInv'
<1>1. /\ at[p] = "ending" /\ Go(p, IF p \in Searches THEN "over" ELSE "done")
      /\ held' = held - hold[p] /\ hold' = [hold EXCEPT ![p] = 0]
      /\ taken' = taken - slots[p] /\ slots' = [slots EXCEPT ![p] = 0]
      /\ UNCHANGED <<retained, wanted, foreground, giving>>
  BY DEF End
<1>2. slots[p] \in Nat /\ hold[p] \in Nat /\ retained \in Nat /\ taken \in 0..Pool /\ held \in 0..Budget
  BY DEF WorkersInv, PartsTyped, SlotsCounted, HoldsCounted
<1>3. /\ taken' = taken - slots[p] + 0 /\ taken' <= Pool
      /\ held' = held - hold[p] + 0 - retained + retained /\ held' <= Budget
  BY <1>1, <1>2, PoolAssumption
<1>4. SlotsCounted' /\ slots' \in [Passes -> Nat] /\ slots'[p] = 0 /\ \A q \in Passes : q # p => slots'[q] = slots[q]
  BY <1>1, <1>3, SlotsChange DEF WorkersInv
<1>5. HoldsCounted' /\ hold' \in [Passes -> Nat] /\ hold'[p] = 0 /\ \A q \in Passes : q # p => hold'[q] = hold[q]
  BY <1>1, <1>2, <1>3, HoldChanges DEF WorkersInv
<1> DEFINE step == IF p \in Searches THEN "over" ELSE "done"
<1>6. /\ step \in Steps /\ step \in {"over", "done"}
      /\ p \in Searches => step = "over" /\ at[p] \notin {"rest", "aside", "wakingAside", "waking"}
      /\ p = Build => step = "done"
  BY <1>1, PassKinds DEF Steps
<1>7. Go(p, step)
  BY <1>1
<1> HIDE DEF step
<1>8. HoldsAt(step, slots'[p], hold'[p])
  BY <1>4, <1>5, <1>6 DEF HoldsAt, Empty, Giving
<1>9. StepsOfPasses' /\ HoldsAsItIs' /\ GivesWayBetween' /\ ForegroundCounted' /\ WillWake'
  BY <1>1, <1>4, <1>5, <1>6, <1>7, <1>8, GoesOn DEF SearchSteps, BuildSteps, Giving
<1>10. PartsTyped'
  BY <1>1, <1>4, <1>5 DEF WorkersInv, PartsTyped, giving
<1> QED
  BY <1>4, <1>5, <1>9, <1>10 DEF WorkersInv

(* Steps that leave workers, budget and what is held alone.                *)
LEMMA NothingTaken ==
    ASSUME WorkersInv, UNCHANGED <<slots, memory, taken>>
    PROVE  /\ SlotsCounted' /\ HoldsCounted' /\ slots' = slots /\ hold' = hold
           /\ \A p \in Passes, step \in Steps :
                 HoldsAt(step, slots[p], hold[p]) => HoldsAt(step, slots'[p], hold'[p])
BY SlotsSame, HoldsSame DEF WorkersInv, memory

LEMMA BeginSearchKeeps ==
    ASSUME WorkersInv, NEW p \in Passes, BeginSearch(p)
    PROVE  WorkersInv'
<1>1. /\ p \in Searches /\ p # Build /\ at[p] = "rest" /\ Go(p, "acquiring")
      /\ foreground' = foreground + 1 /\ UNCHANGED <<slots, memory, taken, giving>>
  BY PassKinds DEF BeginSearch
<1>2. wanted' \in [Passes -> BOOLEAN]
  <2>1. wanted \in [Passes -> BOOLEAN]
    BY DEF WorkersInv, PartsTyped
  <2> QED
    BY <2>1 DEF BeginSearch
<1>3. SlotsCounted' /\ HoldsCounted' /\ slots' = slots /\ hold' = hold
  BY <1>1, NothingTaken
<1>4. HoldsAt("acquiring", slots'[p], hold'[p])
  BY <1>1, <1>3 DEF WorkersInv, HoldsAsItIs, HoldsAt, Empty, Giving
<1>5. StepsOfPasses' /\ HoldsAsItIs' /\ at'[Build] = at[Build]
  BY <1>1, <1>3, <1>4, PassMoves, PassKinds DEF WorkersInv, Steps, SearchSteps
<1>6. GivesWayBetween'
  BY <1>1, <1>5 DEF WorkersInv, GivesWayBetween, giving
<1>7. ForegroundCounted' /\ WillWake'
  BY <1>1, ForegroundMore DEF WorkersInv, AtWork, Go, giving
<1>8. PartsTyped'
  BY <1>1, <1>2, <1>3 DEF WorkersInv, PartsTyped, giving, memory
<1> QED
  BY <1>3, <1>5, <1>6, <1>7, <1>8 DEF WorkersInv

(* The build moves from a step at which it gives way to none, or to one    *)
(* where it does not.                                                      *)
LEMMA BuildGoesOn ==
    ASSUME WorkersInv, NEW step \in BuildSteps \ Giving, at[Build] \notin Giving, Go(Build, step),
           UNCHANGED <<slots, memory, wanted, taken, foreground, giving>>,
           HoldsAt(step, slots[Build], hold[Build])
    PROVE  WorkersInv'
<1>1. SlotsCounted' /\ HoldsCounted' /\ slots' = slots /\ hold' = hold /\ Build \in Passes /\ Build \notin Searches
  BY NothingTaken, PassKinds
<1>2. HoldsAt(step, slots'[Build], hold'[Build]) /\ step \in Steps
  BY <1>1 DEF BuildSteps, Steps
<1>3. StepsOfPasses' /\ HoldsAsItIs' /\ GivesWayBetween' /\ ForegroundCounted' /\ WillWake'
  BY <1>1, <1>2, GoesOn
<1>4. PartsTyped'
  BY <1>1 DEF WorkersInv, PartsTyped, giving, memory
<1> QED
  BY <1>1, <1>3, <1>4 DEF WorkersInv

LEMMA BeginBuildKeeps ==
    ASSUME WorkersInv, BeginBuild
    PROVE  WorkersInv'
<1>1. /\ at[Build] = "rest" /\ Go(Build, "acquiring")
      /\ UNCHANGED <<slots, memory, wanted, taken, foreground, giving>>
  BY DEF BeginBuild
<1>2. HoldsAt("acquiring", slots[Build], hold[Build])
  BY <1>1, PassKinds DEF WorkersInv, HoldsAsItIs, HoldsAt, Empty, Giving
<1> QED
  BY <1>1, <1>2, BuildGoesOn DEF BuildSteps, Giving

LEMMA BuildDoneKeeps ==
    ASSUME WorkersInv, BuildDone
    PROVE  WorkersInv'
<1>1. /\ at[Build] = "working" /\ Go(Build, "ending")
      /\ UNCHANGED <<slots, memory, wanted, taken, foreground, giving>>
  BY DEF BuildDone
<1>2. HoldsAt("ending", slots[Build], hold[Build])
  BY DEF HoldsAt, Empty, Giving
<1> QED
  BY <1>1, <1>2, BuildGoesOn DEF BuildSteps, Giving

(* A search's foreground work ends, or is set aside.                       *)
LEMMA LowerKeeps ==
    ASSUME WorkersInv, NEW p \in Searches, AtWork(p), at[p] \in Empty,
           NEW wakes \in {"waking", "wakingAside"}, NEW on \in {"rest", "aside"},
           Lower(p, wakes, on), UNCHANGED <<slots, memory, wanted, taken, giving>>
    PROVE  WorkersInv'
<1>1. p \in Passes /\ p # Build /\ Build \in Passes
  BY PassKinds
<1>2. SlotsCounted' /\ HoldsCounted' /\ slots' = slots /\ hold' = hold
  BY NothingTaken
<1> DEFINE step == IF foreground = 1 THEN wakes ELSE on
<1>3. Go(p, step) /\ step \in Empty /\ step \in SearchSteps /\ step \in Steps
  BY DEF Lower, Empty, SearchSteps, Steps
<1> HIDE DEF step
<1>4. HoldsAt(step, slots'[p], hold'[p])
  <2>1. slots[p] = 0 /\ hold[p] = 0
    BY <1>1 DEF WorkersInv, HoldsAsItIs, HoldsAt
  <2> QED
    BY <1>2, <1>3, <2>1 DEF HoldsAt, Empty, Giving
<1>5. StepsOfPasses' /\ HoldsAsItIs' /\ at'[Build] = at[Build]
  BY <1>1, <1>2, <1>3, <1>4, PassMoves DEF WorkersInv
<1>6. GivesWayBetween'
  BY <1>5 DEF WorkersInv, GivesWayBetween, giving
<1>7. ForegroundCounted' /\ WillWake'
  BY ForegroundLess DEF WorkersInv, giving
<1>8. PartsTyped'
  BY <1>2 DEF WorkersInv, PartsTyped, giving, memory
<1> QED
  BY <1>2, <1>5, <1>6, <1>7, <1>8 DEF WorkersInv

LEMMA WaitAsideKeeps ==
    ASSUME WorkersInv, NEW p \in Passes, WaitAside(p)
    PROVE  WorkersInv'
<1>1. at[p] = "acquiring" /\ UNCHANGED <<slots, memory, wanted, taken, giving>>
  BY DEF WaitAside
<1>2. CASE p \in Searches
  <2>1. Lower(p, "wakingAside", "aside") /\ AtWork(p) /\ at[p] \in Empty
    BY <1>1, <1>2 DEF WaitAside, AtWork, Empty
  <2> QED
    BY <1>1, <1>2, <2>1, LowerKeeps
<1>3. CASE p \notin Searches
  <2>1. p = Build /\ Go(Build, "aside") /\ UNCHANGED foreground
    BY <1>3, PassKinds DEF WaitAside
  <2>2. HoldsAt("aside", slots[Build], hold[Build])
    BY <1>1, <2>1, PassKinds DEF WorkersInv, HoldsAsItIs, HoldsAt, Empty, Giving
  <2> QED
    BY <1>1, <2>1, <2>2, BuildGoesOn DEF BuildSteps, Giving
<1> QED
  BY <1>2, <1>3

LEMMA EndForegroundKeeps ==
    ASSUME WorkersInv, NEW p \in Passes, EndForeground(p)
    PROVE  WorkersInv'
<1>1. at[p] = "over" /\ Lower(p, "waking", "rest") /\ UNCHANGED <<slots, memory, wanted, taken, giving>>
  BY DEF EndForeground
<1>2. p \in Searches
  BY <1>1, PassKinds DEF WorkersInv, StepsOfPasses, BuildSteps
<1>3. AtWork(p) /\ at[p] \in Empty
  BY <1>1, <1>2 DEF AtWork, Empty
<1> QED
  BY <1>1, <1>2, <1>3, LowerKeeps

LEMMA BackFromAsideKeeps ==
    ASSUME WorkersInv, NEW p \in Passes, BackFromAside(p)
    PROVE  WorkersInv'
<1>1. at[p] = "aside" /\ Go(p, "acquiring") /\ UNCHANGED <<slots, memory, wanted, taken, giving>>
  BY DEF BackFromAside
<1>2. CASE p \in Searches
  <2>1. p # Build /\ foreground' = foreground + 1 /\ p \in Passes
    BY <1>2, PassKinds DEF BackFromAside
  <2>2. SlotsCounted' /\ HoldsCounted' /\ slots' = slots /\ hold' = hold
    BY <1>1, NothingTaken
  <2>3. HoldsAt("acquiring", slots'[p], hold'[p])
    BY <1>1, <2>1, <2>2 DEF WorkersInv, HoldsAsItIs, HoldsAt, Empty, Giving
  <2>4. StepsOfPasses' /\ HoldsAsItIs' /\ at'[Build] = at[Build]
    BY <1>1, <2>1, <2>2, <2>3, PassMoves, PassKinds DEF WorkersInv, Steps, SearchSteps
  <2>5. GivesWayBetween'
    BY <1>1, <2>4 DEF WorkersInv, GivesWayBetween, giving
  <2>6. ForegroundCounted' /\ WillWake'
    BY <1>1, <1>2, <2>1, ForegroundMore DEF WorkersInv, AtWork, Go, giving
  <2>7. PartsTyped'
    BY <1>1, <2>2 DEF WorkersInv, PartsTyped, giving, memory
  <2> QED
    BY <2>2, <2>4, <2>5, <2>6, <2>7 DEF WorkersInv
<1>3. CASE p \notin Searches
  <2>1. p = Build /\ Go(Build, "acquiring") /\ UNCHANGED foreground
    BY <1>1, <1>3, PassKinds DEF BackFromAside
  <2>2. HoldsAt("acquiring", slots[Build], hold[Build])
    BY <1>1, <2>1, PassKinds DEF WorkersInv, HoldsAsItIs, HoldsAt, Empty, Giving
  <2> QED
    BY <1>1, <2>1, <2>2, BuildGoesOn DEF BuildSteps, Giving
<1> QED
  BY <1>2, <1>3

(* Whoever wakes the build holds the lock under which it looks: it sleeps, *)
(* and looks again.                                                        *)
LEMMA Awoken ==
    ASSUME WorkersInv, ~fgLock, at'[Build] = IF at[Build] = "asleep" THEN "woken" ELSE at[Build],
           \A q \in Searches : AtWork(q)' <=> AtWork(q),
           UNCHANGED <<slots, memory, taken, foreground, fgLock, batch>>,
           at' \in [Passes -> Steps], \A q \in Searches : at'[q] \in SearchSteps,
           \A q \in Searches : at'[q] = at[q] \/ (at[q] \in Empty /\ at'[q] \in Empty)
    PROVE  /\ StepsOfPasses' /\ GivesWayBetween' /\ HoldsAsItIs' /\ SlotsCounted' /\ HoldsCounted'
           /\ ForegroundCounted' /\ WillWake'
<1>1. SlotsCounted' /\ HoldsCounted' /\ slots' = slots /\ hold' = hold
  BY NothingTaken
<1>2. StepsOfPasses'
  BY DEF WorkersInv, StepsOfPasses, BuildSteps
<1>3. at[Build] \notin {"looking", "checked"}
  BY DEF WorkersInv, GivesWayBetween
<1>4. GivesWayBetween'
  BY <1>3 DEF WorkersInv, GivesWayBetween, Giving
<1>5. HoldsAsItIs'
  <2>1. HoldsAt(at'[Build], slots[Build], hold[Build])
    BY PassKinds DEF WorkersInv, HoldsAsItIs, HoldsAt, Giving, Empty
  <2>2. \A q \in Searches : HoldsAt(at'[q], slots[q], hold[q])
    BY PassKinds DEF WorkersInv, HoldsAsItIs, HoldsAt, Giving, Empty
  <2> QED
    BY <1>1, <2>1, <2>2, PassKinds DEF HoldsAsItIs
<1>6. WillWake'
  BY <1>3 DEF WillWake
<1>7. AtWorkNow' = AtWorkNow
  BY DEF AtWorkNow
<1>8. ForegroundCounted'
  BY <1>7 DEF WorkersInv, ForegroundCounted
<1> QED
  BY <1>1, <1>2, <1>4, <1>5, <1>6, <1>8

LEMMA WakeKeeps ==
    ASSUME WorkersInv, NEW p \in Passes, Wake(p)
    PROVE  WorkersInv'
<1>1. /\ at[p] \in {"waking", "wakingAside"} /\ ~fgLock
      /\ UNCHANGED <<slots, memory, wanted, taken, foreground, giving>>
  BY DEF Wake
<1>2. p \in Searches /\ p # Build /\ Build \in Passes
  BY <1>1, PassKinds DEF WorkersInv, StepsOfPasses, BuildSteps
<1>3. at \in [Passes -> Steps] /\ \A q \in Searches : at[q] \in SearchSteps
  BY DEF WorkersInv, StepsOfPasses
<1>4. /\ at'[Build] = IF at[Build] = "asleep" THEN "woken" ELSE at[Build]
      /\ at'[p] = IF at[p] = "waking" THEN "rest" ELSE "aside"
      /\ \A q \in Passes : q # p /\ q # Build => at'[q] = at[q]
      /\ at' \in [Passes -> Steps]
  BY <1>2, <1>3 DEF Wake, Steps
<1>5. \A q \in Searches : at'[q] = at[q] \/ (at[q] \in Empty /\ at'[q] \in Empty /\ ~AtWork(q) /\ ~AtWork(q)')
  BY <1>1, <1>4, PassKinds DEF AtWork, Empty
<1>6. \A q \in Searches : (AtWork(q)' <=> AtWork(q)) /\ at'[q] \in SearchSteps
  BY <1>3, <1>4, <1>5, PassKinds DEF AtWork, SearchSteps
<1>7. /\ StepsOfPasses' /\ GivesWayBetween' /\ HoldsAsItIs' /\ SlotsCounted' /\ HoldsCounted'
      /\ ForegroundCounted' /\ WillWake'
  BY <1>1, <1>4, <1>5, <1>6, Awoken DEF giving
<1>8. PartsTyped'
  BY <1>1 DEF WorkersInv, PartsTyped, giving, memory
<1> QED
  BY <1>7, <1>8 DEF WorkersInv

LEMMA PromoterWakesKeeps ==
    ASSUME WorkersInv, PromoterWakes
    PROVE  WorkersInv'
<1>1. /\ ~fgLock /\ promoter' = "done"
      /\ UNCHANGED <<slots, memory, wanted, taken, foreground, fgLock, batch, patient>>
  BY DEF PromoterWakes
<1>2. at \in [Passes -> Steps] /\ \A q \in Searches : at[q] \in SearchSteps
  BY DEF WorkersInv, StepsOfPasses
<1>3. /\ at'[Build] = IF at[Build] = "asleep" THEN "woken" ELSE at[Build]
      /\ \A q \in Searches : at'[q] = at[q]
      /\ at' \in [Passes -> Steps]
  BY <1>2, PassKinds DEF PromoterWakes, Steps
<1>4. \A q \in Searches : (AtWork(q)' <=> AtWork(q)) /\ at'[q] \in SearchSteps
  BY <1>2, <1>3 DEF AtWork
<1>5. /\ StepsOfPasses' /\ GivesWayBetween' /\ HoldsAsItIs' /\ SlotsCounted' /\ HoldsCounted'
      /\ ForegroundCounted' /\ WillWake'
  BY <1>1, <1>3, <1>4, Awoken
<1>6. PartsTyped'
  BY <1>1 DEF WorkersInv, PartsTyped, memory
<1> QED
  BY <1>5, <1>6 DEF WorkersInv

(* The build's steps around its sleep.                                     *)
LEMMA BuildGives ==
    ASSUME WorkersInv, at[Build] \in Giving \union {"working"}, NEW step \in Giving \union {"working"},
           Go(Build, step), UNCHANGED <<slots, memory, wanted, taken, foreground, patient, promoter>>
    PROVE  /\ StepsOfPasses' /\ HoldsAsItIs' /\ SlotsCounted' /\ HoldsCounted' /\ ForegroundCounted'
           /\ at'[Build] = step /\ \A q \in Searches : at'[q] = at[q]
           /\ slots' = slots /\ hold' = hold
<1>1. SlotsCounted' /\ HoldsCounted' /\ slots' = slots /\ hold' = hold
  BY NothingTaken
<1>2. HoldsAt(step, slots'[Build], hold'[Build])
  BY <1>1, PassKinds DEF WorkersInv, HoldsAsItIs, HoldsAt, Empty, Giving
<1>3. /\ StepsOfPasses' /\ HoldsAsItIs'
      /\ at'[Build] = step /\ \A q \in Passes : q # Build => at'[q] = at[q]
  BY <1>1, <1>2, PassKinds, PassMoves DEF WorkersInv, Steps, BuildSteps, Giving
<1>4. \A q \in Searches : at'[q] = at[q]
  BY <1>3, PassKinds
<1>5. AtWorkNow' = AtWorkNow
  BY <1>4 DEF AtWorkNow, AtWork
<1>6. ForegroundCounted'
  BY <1>5 DEF WorkersInv, ForegroundCounted
<1> QED
  BY <1>1, <1>3, <1>4, <1>6

LEMMA GiveWayKeeps ==
    ASSUME WorkersInv, GiveWay
    PROVE  WorkersInv'
<1>1. /\ batch < Batches /\ at[Build] \in Giving \union {"working"} /\ fgLock' = TRUE /\ Go(Build, "looking")
      /\ UNCHANGED <<slots, memory, wanted, taken, foreground, batch, patient, promoter>>
  BY DEF GiveWay, Giving
<1>2. /\ StepsOfPasses' /\ HoldsAsItIs' /\ SlotsCounted' /\ HoldsCounted' /\ ForegroundCounted'
      /\ at'[Build] = "looking" /\ slots' = slots /\ hold' = hold
  BY <1>1, BuildGives DEF Giving
<1>3. GivesWayBetween' /\ WillWake'
  BY <1>1, <1>2 DEF GivesWayBetween, WillWake
<1>4. PartsTyped'
  BY <1>1, <1>2 DEF WorkersInv, PartsTyped, memory
<1> QED
  BY <1>2, <1>3, <1>4 DEF WorkersInv

LEMMA LookOnKeeps ==
    ASSUME WorkersInv, LookOn
    PROVE  WorkersInv'
<1>1. /\ at[Build] = "looking" /\ foreground > 0 /\ patient /\ Go(Build, "checked")
      /\ UNCHANGED <<slots, memory, wanted, taken, foreground, giving>>
  BY DEF LookOn
<1>2. /\ StepsOfPasses' /\ HoldsAsItIs' /\ SlotsCounted' /\ HoldsCounted' /\ ForegroundCounted'
      /\ at'[Build] = "checked" /\ slots' = slots /\ hold' = hold /\ \A q \in Searches : at'[q] = at[q]
  BY <1>1, BuildGives DEF Giving, giving
<1>3. \E q \in Searches : AtWork(q)
  <2>1. ASSUME AtWorkNow = {} PROVE FALSE
    BY <1>1, <2>1, FS_EmptySet DEF WorkersInv, ForegroundCounted
  <2> QED
    BY <2>1 DEF AtWorkNow
<1>4. WillWake'
  BY <1>1, <1>2, <1>3 DEF WillWake, AtWork, giving
<1>5. GivesWayBetween'
  BY <1>1, <1>2 DEF WorkersInv, GivesWayBetween, Giving, giving
<1>6. PartsTyped'
  BY <1>1, <1>2 DEF WorkersInv, PartsTyped, memory, giving
<1> QED
  BY <1>2, <1>4, <1>5, <1>6 DEF WorkersInv

LEMMA SleepKeeps ==
    ASSUME WorkersInv, Sleep
    PROVE  WorkersInv'
<1>1. /\ at[Build] = "checked" /\ Go(Build, "asleep") /\ fgLock' = FALSE
      /\ UNCHANGED <<slots, memory, wanted, taken, foreground, batch, patient, promoter>>
  BY DEF Sleep
<1>2. /\ StepsOfPasses' /\ HoldsAsItIs' /\ SlotsCounted' /\ HoldsCounted' /\ ForegroundCounted'
      /\ at'[Build] = "asleep" /\ slots' = slots /\ hold' = hold /\ \A q \in Searches : at'[q] = at[q]
  BY <1>1, BuildGives DEF Giving
<1>3. WillWake'
  BY <1>1, <1>2 DEF WorkersInv, WillWake, AtWork
<1>4. GivesWayBetween'
  BY <1>1, <1>2 DEF WorkersInv, GivesWayBetween, Giving
<1>5. PartsTyped'
  BY <1>1, <1>2 DEF WorkersInv, PartsTyped, memory
<1> QED
  BY <1>2, <1>3, <1>4, <1>5 DEF WorkersInv

(* Back to work, from a sleep or a look, for a batch.                      *)
LEMMA WorksOn ==
    ASSUME WorkersInv, at[Build] \in Giving, Go(Build, "working"), fgLock' = FALSE, batch' = batch + 1,
           UNCHANGED <<slots, memory, wanted, taken, foreground, patient, promoter>>
    PROVE  WorkersInv'
<1>1. /\ StepsOfPasses' /\ HoldsAsItIs' /\ SlotsCounted' /\ HoldsCounted' /\ ForegroundCounted'
      /\ at'[Build] = "working" /\ slots' = slots /\ hold' = hold
  BY BuildGives
<1>2. batch < Batches /\ batch \in 0..Batches
  BY DEF WorkersInv, GivesWayBetween, PartsTyped
<1>3. batch' \in 0..Batches
  BY <1>2, PoolAssumption
<1>4. WillWake' /\ GivesWayBetween'
  BY <1>1 DEF WillWake, GivesWayBetween, Giving
<1>5. PartsTyped'
  BY <1>1, <1>3 DEF WorkersInv, PartsTyped, memory
<1> QED
  BY <1>1, <1>4, <1>5 DEF WorkersInv

LEMMA StopGivingKeeps ==
    ASSUME WorkersInv, StopGiving
    PROVE  WorkersInv'
BY WorksOn DEF StopGiving, Giving

LEMMA PatienceOverKeeps ==
    ASSUME WorkersInv, PatienceOver
    PROVE  WorkersInv'
<1>1. /\ at[Build] = "asleep" /\ ~fgLock /\ batch' = batch + 1 /\ Go(Build, "working")
      /\ UNCHANGED <<slots, memory, wanted, taken, foreground, fgLock, patient, promoter>>
  BY DEF PatienceOver
<1>2. fgLock' = FALSE /\ at[Build] \in Giving
  BY <1>1 DEF WorkersInv, PartsTyped, Giving
<1> QED
  BY <1>1, <1>2, WorksOn

(* Where every pass stays as it is.                                        *)
LEMMA StaysPut ==
    ASSUME WorkersInv, UNCHANGED <<at, slots, memory, taken, foreground>>
    PROVE  StepsOfPasses' /\ HoldsAsItIs' /\ SlotsCounted' /\ HoldsCounted' /\ ForegroundCounted'
<1>1. SlotsCounted' /\ HoldsCounted' /\ slots' = slots /\ hold' = hold
  BY NothingTaken
<1>2. AtWorkNow' = AtWorkNow
  BY DEF AtWorkNow, AtWork
<1> QED
  BY <1>1, <1>2 DEF WorkersInv, StepsOfPasses, HoldsAsItIs, ForegroundCounted

LEMMA NextBatchKeeps ==
    ASSUME WorkersInv, NextBatch
    PROVE  WorkersInv'
<1>1. /\ at[Build] = "working" /\ batch < Batches /\ batch' = batch + 1
      /\ UNCHANGED <<at, slots, memory, wanted, taken, foreground, fgLock, patient, promoter>>
  BY DEF NextBatch
<1>2. StepsOfPasses' /\ HoldsAsItIs' /\ SlotsCounted' /\ HoldsCounted' /\ ForegroundCounted'
  BY <1>1, StaysPut
<1>3. batch \in 0..Batches
  BY DEF WorkersInv, PartsTyped
<1>4. batch' \in 0..Batches
  BY <1>1, <1>3, PoolAssumption
<1>5. WillWake' /\ GivesWayBetween'
  BY <1>1 DEF WorkersInv, WillWake, GivesWayBetween, Giving
<1>6. PartsTyped'
  BY <1>1, <1>4 DEF WorkersInv, PartsTyped, memory
<1> QED
  BY <1>2, <1>5, <1>6 DEF WorkersInv

LEMMA PromoteKeeps ==
    ASSUME WorkersInv, Promote
    PROVE  WorkersInv'
<1>1. /\ patient' = FALSE /\ promoter' = "waking"
      /\ UNCHANGED <<at, slots, memory, wanted, taken, foreground, fgLock, batch>>
  BY DEF Promote
<1>2. StepsOfPasses' /\ HoldsAsItIs' /\ SlotsCounted' /\ HoldsCounted' /\ ForegroundCounted'
  BY <1>1, StaysPut
<1>3. WillWake' /\ GivesWayBetween'
  BY <1>1 DEF WorkersInv, WillWake, GivesWayBetween, Giving
<1>4. PartsTyped'
  BY <1>1 DEF WorkersInv, PartsTyped, memory
<1> QED
  BY <1>2, <1>3, <1>4 DEF WorkersInv

LEMMA StutterKeeps ==
    ASSUME WorkersInv, UNCHANGED workersVars
    PROVE  WorkersInv'
<1>1. StepsOfPasses' /\ HoldsAsItIs' /\ SlotsCounted' /\ HoldsCounted' /\ ForegroundCounted'
  BY StaysPut DEF workersVars, memory
<1>2. WillWake' /\ GivesWayBetween' /\ PartsTyped'
  BY DEF WorkersInv, WillWake, GivesWayBetween, AtWork, PartsTyped, workersVars
<1> QED
  BY <1>1, <1>2 DEF WorkersInv
-----------------------------------------------------------------------------
LEMMA WorkersStart ==
    ASSUME WorkersInit
    PROVE  WorkersInv
<1>1. Shares(slots) = {} /\ Shares(hold) = {}
  <2>1. \A p \in Passes : slots[p] = 0 /\ hold[p] = 0
    BY DEF WorkersInit
  <2>2. 1..0 = {}
    OBVIOUS
  <2> QED
    BY <2>1, <2>2 DEF Shares
<1>2. Cardinality({}) = 0
  BY FS_EmptySet
<1>3. SlotsCounted /\ HoldsCounted
  BY <1>1, <1>2, PoolAssumption DEF WorkersInit, SlotsCounted, HoldsCounted
<1>4. StepsOfPasses
  BY PassKinds DEF WorkersInit, StepsOfPasses, Steps, SearchSteps, BuildSteps
<1>5. PartsTyped
  <2>1. 0 \in 0..Batches
    BY PoolAssumption
  <2> QED
    BY <2>1 DEF WorkersInit, PartsTyped
<1>6. GivesWayBetween /\ WillWake
  <2>1. at[Build] = "rest"
    BY PassKinds DEF WorkersInit
  <2> QED
    BY <2>1 DEF WorkersInit, GivesWayBetween, WillWake, Giving
<1>7. HoldsAsItIs
  BY DEF WorkersInit, HoldsAsItIs, HoldsAt, Empty, Giving
<1>8. ForegroundCounted
  <2>1. AtWorkNow = {}
    BY PassKinds DEF WorkersInit, AtWorkNow, AtWork
  <2> QED
    BY <1>2, <2>1 DEF WorkersInit, ForegroundCounted
<1> QED
  BY <1>3, <1>4, <1>5, <1>6, <1>7, <1>8 DEF WorkersInv

LEMMA WorkersStepKeeps ==
    ASSUME WorkersInv, [WorkersNext]_workersVars
    PROVE  WorkersInv'
<1>1. ASSUME NEW p \in Passes, BeginSearch(p) \/ WaitAside(p) \/ Grow(p) \/ OwnStep(p) \/ Handover(p)
      PROVE  WorkersInv'
  <2>1. CASE BeginSearch(p) \/ WaitAside(p) \/ Grow(p)
    BY <2>1, BeginSearchKeeps, WaitAsideKeeps, GrowKeeps
  <2>2. CASE OwnStep(p)
    BY <2>2, AcquireKeeps, AcquireEndsKeeps, ReserveKeeps, ReserveAgainKeeps, GrowAgainKeeps, DoneKeeps,
       EndKeeps, EndForegroundKeeps DEF OwnStep
  <2>3. CASE Handover(p)
    BY <2>3, WakeKeeps, BackFromAsideKeeps DEF Handover
  <2> QED
    BY <1>1, <2>1, <2>2, <2>3
<1>2. CASE BuildStep
  BY <1>2, NextBatchKeeps, GiveWayKeeps, LookOnKeeps, SleepKeeps, StopGivingKeeps, BuildDoneKeeps DEF BuildStep
<1>3. CASE BeginBuild \/ PatienceOver \/ Promote \/ PromoterWakes \/ UNCHANGED workersVars
  BY <1>3, BeginBuildKeeps, PatienceOverKeeps, PromoteKeeps, PromoterWakesKeeps, StutterKeeps
<1> QED
  BY <1>1, <1>2, <1>3 DEF WorkersNext

(* The invariant, of every behaviour.                                      *)
THEOREM WorkersInvariant == WorkersSpec => []WorkersInv
<1>1. WorkersInit => WorkersInv
  BY WorkersStart
<1>2. WorkersInv /\ [WorkersNext]_workersVars => WorkersInv'
  BY WorkersStepKeeps
<1> QED
  BY <1>1, <1>2, PTL DEF WorkersSpec

(* Nothing leaks: the workers and the budget taken are what the passes     *)
(* hold and what is retained, however each pass ends (memory.rs,           *)
(* workers.rs).                                                            *)
THEOREM AlwaysBudgetAndWorkersCounted == WorkersSpec => []BudgetAndWorkersCounted
<1>1. WorkersInv => BudgetAndWorkersCounted
  BY DEF WorkersInv, SlotsCounted, HoldsCounted, BudgetAndWorkersCounted
<1> QED
  BY <1>1, WorkersInvariant, PTL

(* No wake-up is lost: a build sleeps only while a search is at work that  *)
(* waits for no worker, or one is about to wake it (foreground.rs).        *)
THEOREM AlwaysGivesWayToWorkOnly == WorkersSpec => []GivesWayToWorkOnly
<1>1. WorkersInv => GivesWayToWorkOnly
  BY DEF WorkersInv, WillWake, GivesWayToWorkOnly
<1> QED
  BY <1>1, WorkersInvariant, PTL

(* What is counted is within its bounds.                                   *)
LEMMA WorkersTyped == WorkersInv => WorkersTypeOK
<1> SUFFICES ASSUME WorkersInv PROVE WorkersTypeOK
  OBVIOUS
<1>1. \A p \in Passes : slots[p] \in 0..Pool /\ hold[p] \in 0..Budget
  <2> SUFFICES ASSUME NEW p \in Passes PROVE slots[p] \in 0..Pool /\ hold[p] \in 0..Budget
    OBVIOUS
  <2>1. slots \in [Passes -> Nat] /\ hold \in [Passes -> Nat] /\ retained \in Nat
    BY DEF WorkersInv, PartsTyped
  <2>2. slots[p] \in 0..Cardinality(Shares(slots)) /\ Cardinality(Shares(slots)) \in Nat
    BY <2>1, ShareChanges
  <2>3. hold[p] \in 0..Cardinality(Shares(hold)) /\ Cardinality(Shares(hold)) \in Nat
    BY <2>1, ShareChanges
  <2> QED
    BY <2>1, <2>2, <2>3, PoolAssumption DEF WorkersInv, SlotsCounted, HoldsCounted
<1>2. retained \in 0..Budget
  <2>1. hold \in [Passes -> Nat] /\ retained \in Nat
    BY DEF WorkersInv, PartsTyped
  <2>2. Cardinality(Shares(hold)) \in Nat
    BY <2>1, SharesFinite
  <2> QED
    BY <2>1, <2>2, PoolAssumption DEF WorkersInv, HoldsCounted
<1>3. foreground \in 0..Cardinality(Searches)
  <2>1. AtWorkNow \subseteq Searches
    BY DEF AtWorkNow
  <2>2. Cardinality(AtWorkNow) <= Cardinality(Searches) /\ Cardinality(Searches) \in Nat
    BY <2>1, SearchesAssumption, FS_Subset, FS_CardinalityType
  <2> QED
    BY <2>2, AtWorkFinite DEF WorkersInv, ForegroundCounted
<1>4. slots \in [Passes -> 0..Pool] /\ hold \in [Passes -> 0..Budget]
  BY <1>1 DEF WorkersInv, PartsTyped
<1>5. taken \in 0..Pool /\ held \in 0..Budget
  BY DEF WorkersInv, SlotsCounted, HoldsCounted
<1>6. at \in [Passes -> Steps]
  BY DEF WorkersInv, StepsOfPasses
<1>7. /\ wanted \in [Passes -> BOOLEAN] /\ fgLock \in BOOLEAN /\ batch \in 0..Batches
      /\ patient \in BOOLEAN /\ promoter \in {"none", "waking", "done"}
  BY DEF WorkersInv, PartsTyped
<1> QED
  BY <1>2, <1>3, <1>4, <1>5, <1>6, <1>7 DEF WorkersTypeOK

(* Passes, workers, budget and the foreground's count keep their types.    *)
THEOREM WorkersTypeCorrect == WorkersSpec => []WorkersTypeOK
BY WorkersTyped, WorkersInvariant, PTL
-----------------------------------------------------------------------------
(* Turns.                                                                  *)

(* What has been put of the unit in a worker's hands, which is open as long *)
(* as its last piece was not put.                                          *)
Handed == [unit : UnitIds, nth : Nat, size : Sizes, last : BOOLEAN]
OpenNow == {w \in Writers : \/ writer[w].pc \in {"making", "putting"}
                            \/ writer[w].pc \in {"writing", "handing"} /\ ~writer[w].made.last}
UnitNow == [w \in Writers |-> writer[w].made.unit]
PutNow == [w \in Writers |-> IF writer[w].pc = "putting" THEN writer[w].made.nth - 1 ELSE writer[w].made.nth]

(* Whether piece n of unit u is to follow the piece s, or once a worker    *)
(* failed, may come after it.                                              *)
Comes(s, u, n, failures) ==
    \/ s.last /\ u = s.unit + 1 /\ n = 1
    \/ ~s.last /\ u = s.unit /\ n = s.nth + 1
    \/ failures # {} /\ (u > s.unit \/ (u = s.unit /\ n > s.nth))

(* The pieces kept of a unit follow one another, and only the last ends it.*)
InLine(pieces, u) ==
    /\ \A i \in 1..Len(pieces) : pieces[i].unit = u /\ pieces[i].nth = pieces[1].nth + i - 1
    /\ \A i \in 1..(Len(pieces) - 1) : ~pieces[i].last

(* Of the next unit the piece kept first follows the sink; of later ones   *)
(* nothing was placed; of units not taken, or placed, nothing is kept.     *)
LinesRight(k, nx, s, failures, t) ==
    /\ \A u \in UnitIds : InLine(k[u], u)
    /\ \A u \in UnitIds : u > nx /\ k[u] # <<>> => k[u][1].nth = 1
    /\ nx \in UnitIds /\ k[nx] # <<>> => Comes(s, nx, k[nx][1].nth, failures)
    /\ \A u \in UnitIds : u >= t => k[u] = <<>>
    /\ \A u \in UnitIds : u < nx => k[u] = <<>>
    /\ nx <= t /\ nx <= Units /\ (nx \in {t, Units} => Comes(s, nx, 1, failures))

(* No two workers have the same unit open; what one puts next goes on from *)
(* what is kept of its unit, or from what was placed of it.                *)
HandsRight(k, op, un, pn, nx, s, failures, t) ==
    /\ \A v, w \in op : un[v] = un[w] => v = w
    /\ \A w \in op : un[w] \in UnitIds /\ nx <= un[w] /\ un[w] < t
    /\ \A w \in op : k[un[w]] # <<>> => /\ k[un[w]][Len(k[un[w]])].nth = pn[w]
                                        /\ ~k[un[w]][Len(k[un[w]])].last
    /\ \A w \in op : k[un[w]] = <<>> /\ un[w] = nx => Comes(s, nx, pn[w] + 1, failures)
    /\ \A w \in op : k[un[w]] = <<>> /\ un[w] > nx => pn[w] = 0

LEMMA ComesNext ==
    ASSUME NEW s \in Handed, NEW f
    PROVE  /\ ~s.last => Comes(s, s.unit, s.nth + 1, f)
           /\ s.last => Comes(s, s.unit + 1, 1, f)
BY DEF Comes, Handed

LEMMA ComesAfter ==
    ASSUME NEW s \in Handed \union {NoPiece}, NEW f, NEW f2, f2 # {}, NEW u \in Int, NEW n \in Int, Comes(s, u, n, f)
    PROVE  Comes(s, u, n + 1, f2) /\ Comes(s, u + 1, 1, f2)
<1>1. s.unit \in Int /\ s.nth \in Int
  BY DEF Handed, NoPiece, NothingOf, UnitIds
<1> QED
  BY <1>1 DEF Comes

LEMMA ComesStill ==
    ASSUME NEW s \in Handed \union {NoPiece}, NEW f, NEW f2, f \subseteq f2, NEW u, NEW n, Comes(s, u, n, f)
    PROVE  Comes(s, u, n, f2)
<1>1. f # {} => f2 # {}
  OBVIOUS
<1> QED
  BY <1>1 DEF Comes

(* The numbers of a line.                                                  *)
LEMMA LineNumbers ==
    ASSUME NEW line \in Seq(Handed), NEW u, InLine(line, u), line # <<>>
    PROVE  /\ Len(line) \in 1..Len(line) /\ 1 \in 1..Len(line) /\ line[1].nth \in Int
           /\ line[Len(line)].nth + 1 = line[1].nth + Len(line)
<1>1. Len(line) \in Nat /\ Len(line) >= 1
  BY EmptySeq, LenProperties
<1>2. line[1] \in Handed
  <2>1. \A i \in 1..Len(line) : line[i] \in Handed
    BY ElementOfSeq
  <2> QED
    BY <1>1, <2>1
<1>3. line[1].nth \in Int
  BY <1>2 DEF Handed
<1>4. line[Len(line)].nth = line[1].nth + Len(line) - 1
  BY <1>1 DEF InLine
<1>5. line[Len(line)].nth + 1 = line[1].nth + Len(line)
  BY <1>1, <1>3, <1>4
<1> QED
  BY <1>1, <1>3, <1>5

(* A piece put last in the line of its unit.                               *)
LEMMA AppendedLines ==
    ASSUME NEW k \in [UnitIds -> Seq(Handed)], NEW k2 \in [UnitIds -> Seq(Handed)],
           NEW op, NEW un, NEW pn, NEW nx \in Int,
           NEW s \in Handed \union {NoPiece}, NEW f, NEW t \in Int, NEW w \in op,
           LinesRight(k, nx, s, f, t), HandsRight(k, op, un, pn, nx, s, f, t),
           NEW n \in Int, n = pn[w], NEW x, x = un[w],
           NEW piece \in Handed, piece.unit = x, piece.nth = n + 1,
           k2 = [k EXCEPT ![x] = Append(k[x], piece)]
    PROVE  LinesRight(k2, nx, s, f, t)
<1>1. x \in UnitIds /\ nx <= x /\ x < t
  BY DEF HandsRight
<1>2. k2[x] = Append(k[x], piece) /\ \A u \in UnitIds : u # x => k2[u] = k[u]
  BY <1>1
<1>3. /\ k[x] \in Seq(Handed) /\ Len(k[x]) \in Nat /\ k2[x] = Append(k[x], piece)
      /\ Len(k2[x]) = Len(k[x]) + 1 /\ k2[x][Len(k[x]) + 1] = piece /\ k2[x] # <<>>
      /\ \A i \in 1..Len(k[x]) : k2[x][i] = k[x][i]
      /\ k[x] # <<>> => Len(k[x]) >= 1
  <2>1. k[x] \in Seq(Handed) /\ k2[x] = Append(k[x], piece)
    BY <1>1, <1>2
  <2> QED
    BY <2>1, AppendProperties
<1>4. k[x] # <<>> => k[x][Len(k[x])].nth = pn[w] /\ ~k[x][Len(k[x])].last
  BY DEF HandsRight
<1>5. k[x] = <<>> => Len(k[x]) = 0 /\ (x = nx => Comes(s, nx, pn[w] + 1, f)) /\ (x > nx => pn[w] = 0)
  BY DEF HandsRight
<1>6. InLine(k[x], x) /\ (x > nx /\ k[x] # <<>> => k[x][1].nth = 1)
      /\ (x = nx /\ k[x] # <<>> => Comes(s, nx, k[x][1].nth, f))
  BY <1>1 DEF LinesRight
<1>7. InLine(k2[x], x)
  <2>1. piece.nth = pn[w] + 1 /\ pn[w] \in Int /\ piece.unit = x
    OBVIOUS
  <2>2. k[x] # <<>> => /\ piece.nth = k[x][1].nth + Len(k[x]) /\ k2[x][1] = k[x][1]
                       /\ k[x][1].nth \in Int
    <3> SUFFICES ASSUME k[x] # <<>> PROVE /\ piece.nth = k[x][1].nth + Len(k[x]) /\ k2[x][1] = k[x][1]
                                          /\ k[x][1].nth \in Int
      OBVIOUS
    <3>1. k[x] \in Seq(Handed) /\ InLine(k[x], x)
      BY <1>3, <1>6
    <3>2. /\ 1 \in 1..Len(k[x]) /\ k[x][1].nth \in Int
          /\ k[x][Len(k[x])].nth + 1 = k[x][1].nth + Len(k[x])
      BY <3>1, LineNumbers
    <3>3. piece.nth = k[x][1].nth + Len(k[x])
      <4>1. k[x][Len(k[x])].nth = pn[w]
        BY <1>4
      <4>2. pn[w] + 1 = k[x][1].nth + Len(k[x])
        BY <3>2, <4>1, Zenon
      <4> QED
        BY <2>1, <4>2, Zenon
    <3>4. k2[x][1] = k[x][1]
      BY <1>3, <3>2
    <3> QED
      BY <3>2, <3>3, <3>4
  <2>3. ASSUME NEW i \in 1..Len(k2[x]) PROVE k2[x][i].unit = x /\ k2[x][i].nth = k2[x][1].nth + i - 1
    <3>1. CASE i = Len(k[x]) + 1 /\ k[x] # <<>>
      BY <1>3, <2>1, <2>2, <3>1
    <3>2. CASE i = Len(k[x]) + 1 /\ k[x] = <<>>
      <4>1. i = 1 /\ k2[x][i] = piece /\ piece.nth \in Int
        BY <1>3, <1>5, <2>1, <3>2
      <4> QED
        BY <2>1, <4>1
    <3>3. CASE i # Len(k[x]) + 1
      <4>1. i \in 1..Len(k[x]) /\ k[x] # <<>>
        BY <1>3, <1>5, <3>3
      <4> QED
        BY <1>3, <1>6, <2>2, <4>1 DEF InLine
    <3> QED
      BY <3>1, <3>2, <3>3
  <2>4. ASSUME NEW i \in 1..(Len(k2[x]) - 1) PROVE ~k2[x][i].last
    <3>1. i \in 1..Len(k[x]) /\ k[x] # <<>> /\ k2[x][i] = k[x][i]
      BY <1>3, <1>5
    <3>2. CASE i = Len(k[x])
      BY <1>4, <3>1, <3>2
    <3>3. CASE i # Len(k[x])
      <4>1. i \in 1..(Len(k[x]) - 1)
        BY <1>3, <3>1, <3>3
      <4> QED
        BY <1>6, <3>1, <4>1 DEF InLine
    <3> QED
      BY <3>2, <3>3
  <2> QED
    BY <2>3, <2>4 DEF InLine
<1>8. /\ x > nx => k2[x][1].nth = 1
      /\ x = nx => Comes(s, nx, k2[x][1].nth, f)
  <2>1. CASE k[x] = <<>>
    <3>1. k2[x][1] = piece
      BY <1>3, <1>5, <2>1
    <3> QED
      BY <1>5, <2>1, <3>1
  <2>2. CASE k[x] # <<>>
    <3>1. k2[x][1] = k[x][1]
      BY <1>3, <2>2
    <3> QED
      BY <1>6, <2>2, <3>1
  <2> QED
    BY <2>1, <2>2
<1>9. LinesRight(k2, nx, s, f, t)
  <2>1. \A u \in UnitIds : InLine(k2[u], u)
    BY <1>7, <1>2 DEF LinesRight
  <2>2. \A u \in UnitIds : u > nx /\ k2[u] # <<>> => k2[u][1].nth = 1
    BY <1>8, <1>2 DEF LinesRight
  <2>3. nx \in UnitIds /\ k2[nx] # <<>> => Comes(s, nx, k2[nx][1].nth, f)
    BY <1>8, <1>2 DEF LinesRight
  <2>4. \A u \in UnitIds : u >= t => k2[u] = <<>>
    BY <1>1, <1>2 DEF LinesRight, UnitIds
  <2>5. \A u \in UnitIds : u < nx => k2[u] = <<>>
    BY <1>1, <1>2 DEF LinesRight, UnitIds
  <2> QED
    BY <2>1, <2>2, <2>3, <2>4, <2>5 DEF LinesRight
<1> QED
  BY <1>9

LEMMA AppendedHands ==
    ASSUME NEW k \in [UnitIds -> Seq(Handed)], NEW k2 \in [UnitIds -> Seq(Handed)],
           NEW op, NEW op2, NEW un, NEW pn \in [Writers -> Int], NEW pn2, op \subseteq Writers, NEW nx \in Int,
           NEW s \in Handed \union {NoPiece}, NEW f, NEW t \in Int, NEW w \in op,
           HandsRight(k, op, un, pn, nx, s, f, t),
           NEW piece \in Handed, NEW x, x = un[w],
           k2 = [k EXCEPT ![x] = Append(k[x], piece)],
           op2 = IF piece.last THEN op \ {w} ELSE op,
           pn2 = [pn EXCEPT ![w] = piece.nth]
    PROVE  HandsRight(k2, op2, un, pn2, nx, s, f, t)
<1>1. op2 \subseteq op /\ (w \in op2 => ~piece.last)
  OBVIOUS
<1>2. k2[x] # <<>> /\ k2[x][Len(k2[x])] = piece /\ \A u \in UnitIds : u # x => k2[u] = k[u]
  <2>1. k[x] \in Seq(Handed) /\ k2[x] = Append(k[x], piece)
    BY DEF HandsRight
  <2> QED
    BY <2>1, AppendProperties
<1>3. pn2[w] = piece.nth /\ \A v \in op : v # w => pn2[v] = pn[v]
  OBVIOUS
<1>4. ASSUME NEW v \in op2, v # w PROVE un[v] # un[w] /\ un[v] \in UnitIds /\ k2[un[v]] = k[un[v]] /\ pn2[v] = pn[v]
  BY <1>1, <1>4, <1>2, <1>3 DEF HandsRight
<1>5. \A v, u \in op2 : un[v] = un[u] => v = u
  BY <1>1 DEF HandsRight
<1>6. \A v \in op2 : un[v] \in UnitIds /\ nx <= un[v] /\ un[v] < t
  BY <1>1 DEF HandsRight
<1>7. ASSUME NEW v \in op2 PROVE
        /\ k2[un[v]] # <<>> => k2[un[v]][Len(k2[un[v]])].nth = pn2[v] /\ ~k2[un[v]][Len(k2[un[v]])].last
        /\ k2[un[v]] = <<>> /\ un[v] = nx => Comes(s, nx, pn2[v] + 1, f)
        /\ k2[un[v]] = <<>> /\ un[v] > nx => pn2[v] = 0
  <2>1. CASE v = w
    BY <1>1, <1>2, <1>3, <2>1
  <2>2. CASE v # w
    <3>1. v \in op
      BY <1>1
    <3> QED
      BY <1>4, <2>2, <3>1 DEF HandsRight
  <2> QED
    BY <2>1, <2>2
<1> QED
  BY <1>5, <1>6, <1>7 DEF HandsRight

(* The piece whose turn it is, the first of its line.                      *)
LEMMA PlacedFirst ==
    ASSUME NEW k \in [UnitIds -> Seq(Handed)], NEW nx \in UnitIds, NEW s, NEW f, NEW t \in Int,
           LinesRight(k, nx, s, f, t), k[nx] # <<>>, NEW piece \in Handed, piece = Head(k[nx])
    PROVE  /\ piece.unit = nx /\ piece.nth \in Int /\ nx \in Int /\ nx < t
           /\ InLine(k[nx], nx) /\ Comes(s, nx, piece.nth, f)
<1>1. k[nx] \in Seq(Handed) /\ Len(k[nx]) \in Nat /\ Len(k[nx]) >= 1 /\ piece = k[nx][1]
  <2>1. k[nx] \in Seq(Handed)
    OBVIOUS
  <2> QED
    BY <2>1, HeadTailProperties, EmptySeq, LenProperties
<1>2. InLine(k[nx], nx) /\ Comes(s, nx, piece.nth, f)
  BY <1>1 DEF LinesRight
<1>3. nx < t
  BY DEF LinesRight, UnitIds
<1> QED
  BY <1>1, <1>2, <1>3 DEF InLine, Handed, UnitIds

(* It leaves its line, placed or not.                                      *)
LEMMA PlacedLines ==
    ASSUME NEW k \in [UnitIds -> Seq(Handed)], NEW k2 \in [UnitIds -> Seq(Handed)],
           NEW nx \in UnitIds, NEW s, NEW f, NEW t \in Int,
           LinesRight(k, nx, s, f, t), k[nx] # <<>>,
           NEW piece \in Handed, piece = Head(k[nx]),
           k2[nx] = Tail(k[nx]), \A u \in UnitIds : u # nx => k2[u] = k[u],
           NEW nx2 \in Int, piece.last => nx2 = nx + 1, ~piece.last => nx2 = nx,
           NEW s2 \in Handed \union {NoPiece}, NEW f2,
           ~piece.last => Comes(s2, nx, piece.nth + 1, f2),
           piece.last => Comes(s2, nx + 1, 1, f2)
    PROVE  LinesRight(k2, nx2, s2, f2, t)
<1>1. /\ k[nx] \in Seq(Handed) /\ Len(k[nx]) \in Nat /\ Len(k[nx]) >= 1 /\ piece = k[nx][1]
      /\ Len(k2[nx]) = Len(k[nx]) - 1 /\ \A i \in 1..Len(k2[nx]) : k2[nx][i] = k[nx][i + 1]
      /\ k2[nx] # <<>> => Len(k2[nx]) >= 1
  <2>1. k[nx] \in Seq(Handed) /\ k2[nx] \in Seq(Handed)
    OBVIOUS
  <2> QED
    BY <2>1, HeadTailProperties, EmptySeq, LenProperties
<1>2. InLine(k[nx], nx) /\ nx < t
  BY PlacedFirst
<1>3. piece.unit = nx /\ piece.nth \in Int /\ nx \in Int
  BY PlacedFirst
<1>4. /\ ~piece.last => Comes(s2, nx, piece.nth + 1, f2)
      /\ piece.last => Comes(s2, nx + 1, 1, f2)
  OBVIOUS
<1>5. InLine(k2[nx], nx)
  <2>1. \A i \in 1..Len(k2[nx]) : i + 1 \in 1..Len(k[nx])
    BY <1>1
  <2>2. \A i \in 1..(Len(k2[nx]) - 1) : i + 1 \in 1..(Len(k[nx]) - 1) /\ i \in 1..Len(k2[nx]) /\ i + 1 \in 1..Len(k2[nx])
    BY <1>1
  <2>3. ASSUME NEW i \in 1..Len(k2[nx]) PROVE k2[nx][i].unit = nx /\ k2[nx][i].nth = k2[nx][1].nth + i - 1
    <3>1. i + 1 \in 1..Len(k[nx]) /\ 2 \in 1..Len(k[nx]) /\ 1 \in 1..Len(k2[nx]) /\ 1 + 1 = 2
      BY <1>1
    <3>2. k2[nx][i] = k[nx][i + 1] /\ k2[nx][1] = k[nx][2]
      BY <1>1, <3>1
    <3>3. k[nx][i + 1].nth = piece.nth + (i + 1) - 1 /\ k[nx][2].nth = piece.nth + 2 - 1 /\ k[nx][i + 1].unit = nx
      BY <1>1, <1>2, <3>1 DEF InLine
    <3> QED
      BY <1>3, <3>2, <3>3
  <2>4. \A i \in 1..(Len(k2[nx]) - 1) : ~k2[nx][i].last
    BY <1>1, <1>2, <2>2 DEF InLine
  <2> QED
    BY <2>3, <2>4 DEF InLine
<1>6. k2[nx] # <<>> => k2[nx][1].nth = piece.nth + 1 /\ ~piece.last
  <2>1. k2[nx] # <<>> => 1 \in 1..(Len(k[nx]) - 1) /\ 2 \in 1..Len(k[nx]) /\ k2[nx][1] = k[nx][2]
    BY <1>1
  <2>2. k2[nx] # <<>> => k[nx][2].nth = piece.nth + 2 - 1
    BY <1>1, <1>2, <2>1 DEF InLine
  <2> QED
    BY <1>1, <1>2, <1>3, <2>1, <2>2 DEF InLine
<1>7. \A u \in UnitIds : InLine(k2[u], u)
  BY <1>5 DEF LinesRight
<1>8. \A u \in UnitIds : u > nx2 /\ k2[u] # <<>> => k2[u][1].nth = 1
  <2>1. \A u \in UnitIds : u > nx2 => u > nx /\ u # nx
    BY <1>3 DEF UnitIds
  <2> QED
    BY <2>1 DEF LinesRight
<1>9. nx2 \in UnitIds /\ k2[nx2] # <<>> => Comes(s2, nx2, k2[nx2][1].nth, f2)
  <2>1. CASE piece.last
    <3>1. nx2 = nx + 1 /\ nx2 > nx /\ nx2 # nx
      BY <1>3, <2>1
    <3>2. nx2 \in UnitIds /\ k2[nx2] # <<>> => k2[nx2][1].nth = 1
      BY <3>1 DEF LinesRight
    <3> QED
      BY <1>4, <2>1, <3>1, <3>2
  <2>2. CASE ~piece.last
    BY <1>4, <1>6, <2>2
  <2> QED
    BY <2>1, <2>2
<1>10. \A u \in UnitIds : u >= t => k2[u] = <<>>
  BY <1>2, <1>3 DEF LinesRight, UnitIds
<1>11. nx2 <= t /\ nx2 <= Units /\ (nx2 \in {t, Units} => Comes(s2, nx2, 1, f2))
  <2>1. CASE piece.last
    BY <1>2, <1>3, <1>4, <2>1, TurnsAssumption DEF UnitIds
  <2>2. CASE ~piece.last
    <3>1. nx2 \notin {t, Units} /\ nx2 <= t /\ nx2 <= Units
      BY <1>2, <1>3, <2>2, TurnsAssumption DEF UnitIds
    <3> QED
      BY <3>1
  <2> QED
    BY <2>1, <2>2
<1>12. \A u \in UnitIds : u < nx2 => k2[u] = <<>>
  <2> SUFFICES ASSUME NEW u \in UnitIds, u < nx2 PROVE k2[u] = <<>>
    OBVIOUS
  <2>1. CASE u = nx
    <3>1. piece.last
      BY <1>3, <2>1
    <3> QED
      BY <1>6, <2>1, <3>1
  <2>2. CASE u # nx
    <3>1. u < nx
      BY <1>3, <2>2 DEF UnitIds
    <3> QED
      BY <2>2, <3>1 DEF LinesRight
  <2> QED
    BY <2>1, <2>2
<1> QED
  BY <1>7, <1>8, <1>9, <1>10, <1>11, <1>12 DEF LinesRight

LEMMA PlacedHands ==
    ASSUME NEW k \in [UnitIds -> Seq(Handed)], NEW k2 \in [UnitIds -> Seq(Handed)],
           NEW op, NEW un, NEW pn, \A v \in op : pn[v] \in Int,
           NEW nx \in UnitIds, NEW s \in Handed \union {NoPiece}, NEW f, NEW t \in Int,
           HandsRight(k, op, un, pn, nx, s, f, t), k[nx] # <<>>,
           NEW piece \in Handed, piece = Head(k[nx]), InLine(k[nx], nx),
           k2[nx] = Tail(k[nx]), \A u \in UnitIds : u # nx => k2[u] = k[u],
           NEW nx2 \in Int, piece.last => nx2 = nx + 1, ~piece.last => nx2 = nx,
           NEW s2 \in Handed \union {NoPiece}, NEW f2,
           ~piece.last => Comes(s2, nx, piece.nth + 1, f2),
           piece.last => Comes(s2, nx + 1, 1, f2)
    PROVE  HandsRight(k2, op, un, pn, nx2, s2, f2, t)
<1>1. /\ k[nx] \in Seq(Handed) /\ Len(k[nx]) \in Nat /\ Len(k[nx]) >= 1 /\ piece = k[nx][1]
      /\ Len(k2[nx]) = Len(k[nx]) - 1 /\ \A i \in 1..Len(k2[nx]) : k2[nx][i] = k[nx][i + 1]
      /\ k2[nx] # <<>> => Len(k2[nx]) >= 1
  <2>1. k[nx] \in Seq(Handed) /\ k2[nx] \in Seq(Handed)
    OBVIOUS
  <2> QED
    BY <2>1, HeadTailProperties, EmptySeq, LenProperties
<1>2. nx \in Int
  BY DEF UnitIds
<1>3. ASSUME NEW w \in op, un[w] = nx
      PROVE  /\ ~piece.last
             /\ k2[nx] # <<>> => k2[nx][Len(k2[nx])].nth = pn[w] /\ ~k2[nx][Len(k2[nx])].last
             /\ k2[nx] = <<>> => Comes(s2, nx, pn[w] + 1, f2)
  <2>1. k[nx][Len(k[nx])].nth = pn[w] /\ ~k[nx][Len(k[nx])].last
    BY <1>3 DEF HandsRight
  <2>2. CASE k2[nx] = <<>>
    <3>1. Len(k2[nx]) = 0
      BY <2>2, EmptySeq
    <3>2. Len(k[nx]) = 1
      BY <1>1, <3>1
    <3>3. piece.nth = pn[w] /\ ~piece.last
      BY <1>1, <2>1, <3>2
    <3> QED
      BY <2>2, <3>3
  <2>3. CASE k2[nx] # <<>>
    <3>1. k2[nx][Len(k2[nx])] = k[nx][Len(k[nx])] /\ 1 \in 1..(Len(k[nx]) - 1)
      BY <1>1, <2>3
    <3>2. ~piece.last
      BY <1>1, <3>1 DEF InLine
    <3> QED
      BY <2>1, <2>3, <3>1, <3>2
  <2> QED
    BY <2>2, <2>3
<1>4. ASSUME NEW w \in op, un[w] # nx
      PROVE  un[w] \in UnitIds /\ un[w] > nx /\ k2[un[w]] = k[un[w]]
  BY <1>2, <1>4 DEF HandsRight, UnitIds
<1>5. \A w \in op : un[w] \in UnitIds /\ nx2 <= un[w] /\ un[w] < t
  <2> SUFFICES ASSUME NEW w \in op PROVE un[w] \in UnitIds /\ nx2 <= un[w] /\ un[w] < t
    OBVIOUS
  <2>1. CASE un[w] = nx
    BY <1>2, <1>3, <2>1 DEF HandsRight
  <2>2. CASE un[w] # nx
    <3>1. nx2 \in {nx, nx + 1} /\ un[w] \in Int
      BY <1>4, <2>2 DEF UnitIds
    <3> QED
      BY <1>2, <1>4, <2>2, <3>1 DEF HandsRight
  <2> QED
    BY <2>1, <2>2
<1>6. ASSUME NEW w \in op PROVE
        /\ k2[un[w]] # <<>> => k2[un[w]][Len(k2[un[w]])].nth = pn[w] /\ ~k2[un[w]][Len(k2[un[w]])].last
        /\ k2[un[w]] = <<>> /\ un[w] = nx2 => Comes(s2, nx2, pn[w] + 1, f2)
        /\ k2[un[w]] = <<>> /\ un[w] > nx2 => pn[w] = 0
  <2>1. CASE un[w] = nx
    <3>1. nx2 = nx /\ ~(un[w] > nx2)
      BY <1>2, <1>3, <2>1
    <3>2. /\ k2[nx] # <<>> => k2[nx][Len(k2[nx])].nth = pn[w] /\ ~k2[nx][Len(k2[nx])].last
          /\ k2[nx] = <<>> => Comes(s2, nx, pn[w] + 1, f2)
      BY <1>3, <2>1
    <3> QED
      BY <2>1, <3>1, <3>2
  <2>2. CASE un[w] # nx
    <3>1. /\ k2[un[w]] # <<>> => k2[un[w]][Len(k2[un[w]])].nth = pn[w] /\ ~k2[un[w]][Len(k2[un[w]])].last
          /\ k2[un[w]] = <<>> => pn[w] = 0
      BY <1>4, <2>2 DEF HandsRight
    <3>2. un[w] = nx2 => piece.last /\ nx2 = nx + 1
      BY <1>2, <2>2
    <3> QED
      BY <3>1, <3>2
  <2> QED
    BY <2>1, <2>2
<1>7. \A v, w \in op : un[v] = un[w] => v = w
  BY DEF HandsRight
<1> QED
  BY <1>5, <1>6, <1>7 DEF HandsRight

(* The workers, and the invariant.                                         *)
MadeNow == [unit : UnitIds \union {-1}, nth : Nat, size : Sizes \union {0}, last : BOOLEAN]
Failures == {w \in Writers : writer[w].pc \in {"failing", "failed"}}

WritersTyped ==
    /\ writer \in [Writers -> [pc : WriterSteps, made : MadeNow]]
    /\ \A w \in Writers : /\ writer[w].pc = "putting" => writer[w].made \in Handed /\ writer[w].made.nth >= 1
                          /\ writer[w].pc \in {"making", "putting", "writing", "handing"} => writer[w].made.unit \in UnitIds
QueueTyped ==
    /\ kept \in [UnitIds -> Seq(Handed)] /\ sink \in Handed \union {NoPiece}
    /\ next \in Nat /\ unitsTaken \in Nat

LinesNow == LinesRight(kept, next, sink, Failures, unitsTaken)
HandsNow == HandsRight(kept, OpenNow, UnitNow, PutNow, next, sink, Failures, unitsTaken)
TurnsInv == WritersTyped /\ QueueTyped /\ LinesNow /\ HandsNow

LEMMA NoPieceIs ==
    /\ NoPiece \in MadeNow /\ NoPiece.last = TRUE /\ NoPiece.unit = -1 /\ NoPiece.nth = 0
BY DEF NoPiece, NothingOf, MadeNow

(* What Set does.                                                          *)
LEMMA SetOne ==
    ASSUME WritersTyped, NEW w \in Writers, NEW r \in [pc : WriterSteps, made : MadeNow], Set(w, r),
           r.pc = "putting" => r.made \in Handed /\ r.made.nth >= 1,
           r.pc \in {"making", "putting", "writing", "handing"} => r.made.unit \in UnitIds
    PROVE  /\ WritersTyped' /\ writer'[w] = r /\ \A v \in Writers : v # w => writer'[v] = writer[v]
<1>1. writer' \in [Writers -> [pc : WriterSteps, made : MadeNow]]
  BY DEF Set, WritersTyped
<1>2. writer'[w] = r /\ \A v \in Writers : v # w => writer'[v] = writer[v]
  BY DEF Set, WritersTyped
<1> QED
  BY <1>1, <1>2 DEF WritersTyped

LEMMA ToStep ==
    ASSUME WritersTyped, NEW w \in Writers, NEW step \in WriterSteps, To(w, step), step # "putting",
           step \in {"making", "writing", "handing"} => writer[w].made.unit \in UnitIds
    PROVE  /\ WritersTyped' /\ writer'[w].pc = step /\ writer'[w].made = writer[w].made
           /\ \A v \in Writers : v # w => writer'[v] = writer[v]
<1> DEFINE r == [writer[w] EXCEPT !.pc = step]
<1>1. r \in [pc : WriterSteps, made : MadeNow] /\ r.pc = step /\ r.made = writer[w].made
  BY DEF WritersTyped
<1>2. Set(w, r)
  BY DEF To
<1> HIDE DEF r
<1> QED
  BY <1>1, <1>2, SetOne

LEMMA RestStep ==
    ASSUME WritersTyped, NEW w \in Writers, NEW step \in {"free", "failing", "failed", "ended"}, RestAt(w, step)
    PROVE  /\ WritersTyped' /\ writer'[w].pc = step /\ writer'[w].made = NoPiece
           /\ \A v \in Writers : v # w => writer'[v] = writer[v]
<1> DEFINE r == [pc |-> step, made |-> NoPiece]
<1>1. r \in [pc : WriterSteps, made : MadeNow] /\ r.pc = step /\ r.made = NoPiece
  BY NoPieceIs DEF WriterSteps
<1>2. Set(w, r)
  BY DEF RestAt
<1> HIDE DEF r
<1> QED
  BY <1>1, <1>2, SetOne

(* Steps that leave the queue alone: no unit opens, what was put of those  *)
(* open stays, and no failure is undone.                                   *)
LEMMA QueueAlone ==
    ASSUME TurnsInv, WritersTyped', UNCHANGED <<unitsTaken, queue>>,
           OpenNow' \subseteq OpenNow, Failures \subseteq Failures',
           \A w \in OpenNow' : UnitNow'[w] = UnitNow[w] /\ PutNow'[w] = PutNow[w]
    PROVE  TurnsInv'
<1>1. QueueTyped'
  BY DEF TurnsInv, QueueTyped, queue
<1>2. next' = next /\ kept' = kept /\ sink' = sink /\ unitsTaken' = unitsTaken
  BY DEF queue
<1>3. \A u, n : Comes(sink, u, n, Failures) => Comes(sink, u, n, Failures')
  BY ComesStill DEF TurnsInv, QueueTyped
<1>4. LinesNow'
  BY <1>2, <1>3 DEF TurnsInv, LinesNow, LinesRight
<1>5. HandsNow'
  BY <1>2, <1>3 DEF TurnsInv, HandsNow, HandsRight
<1> QED
  BY <1>1, <1>4, <1>5 DEF TurnsInv

(* One worker's step that closes its unit or keeps what was put of it.     *)
LEMMA OneAlone ==
    ASSUME TurnsInv, WritersTyped', NEW w \in Writers, UNCHANGED <<unitsTaken, queue>>,
           \A v \in Writers : v # w => writer'[v] = writer[v],
           w \in OpenNow' => w \in OpenNow /\ UnitNow'[w] = UnitNow[w] /\ PutNow'[w] = PutNow[w],
           w \in Failures => w \in Failures'
    PROVE  TurnsInv'
<1>1. OpenNow' \subseteq OpenNow /\ Failures \subseteq Failures'
  BY DEF OpenNow, Failures
<1>2. \A v \in OpenNow' : UnitNow'[v] = UnitNow[v] /\ PutNow'[v] = PutNow[v]
  BY DEF OpenNow, UnitNow, PutNow
<1> QED
  BY <1>1, <1>2, QueueAlone

LEMMA RestAlone ==
    ASSUME TurnsInv, NEW w \in Writers, NEW step \in {"free", "failing", "failed", "ended"}, RestAt(w, step),
           writer[w].pc \in {"failing", "failed"} => step \in {"failing", "failed"},
           UNCHANGED <<unitsTaken, queue>>
    PROVE  TurnsInv'
<1>1. /\ WritersTyped' /\ writer'[w].pc = step /\ \A v \in Writers : v # w => writer'[v] = writer[v]
  BY RestStep DEF TurnsInv
<1>2. w \notin OpenNow' /\ (w \in Failures => w \in Failures')
  BY <1>1 DEF OpenNow, Failures
<1> QED
  BY <1>1, <1>2, OneAlone

LEMMA PutStopsKeeps ==
    ASSUME TurnsInv, NEW w \in Writers, PutStops(w)
    PROVE  TurnsInv' /\ sink' = sink
BY RestAlone DEF PutStops, Is, queue

LEMMA FailPartKeeps ==
    ASSUME TurnsInv, NEW w \in Writers, FailPart(w)
    PROVE  TurnsInv' /\ sink' = sink
BY RestAlone DEF FailPart, queue

LEMMA RaiseHaltKeeps ==
    ASSUME TurnsInv, NEW w \in Writers, RaiseHalt(w)
    PROVE  TurnsInv' /\ sink' = sink
BY RestAlone DEF RaiseHalt, Is, queue

LEMMA WriteKeeps ==
    ASSUME TurnsInv, NEW w \in Writers, Write(w)
    PROVE  TurnsInv' /\ sink' = sink
<1>1. /\ writer[w].pc = "writing" /\ To(w, "handing") /\ UNCHANGED <<unitsTaken, queue>> /\ writer[w].made.unit \in UnitIds
  BY DEF Write, Is, TurnsInv, WritersTyped
<1>2. /\ WritersTyped' /\ writer'[w].pc = "handing" /\ writer'[w].made = writer[w].made
      /\ \A v \in Writers : v # w => writer'[v] = writer[v]
  BY <1>1, ToStep DEF TurnsInv, WriterSteps
<1>3. /\ w \in OpenNow' => w \in OpenNow /\ UnitNow'[w] = UnitNow[w] /\ PutNow'[w] = PutNow[w]
      /\ w \notin Failures
  BY <1>1, <1>2 DEF OpenNow, UnitNow, PutNow, Failures
<1> QED
  BY <1>1, <1>2, <1>3, OneAlone DEF queue

LEMMA MakeKeeps ==
    ASSUME TurnsInv, NEW w \in Writers, Make(w)
    PROVE  TurnsInv' /\ sink' = sink
<1>1. PICK size \in Sizes, last \in BOOLEAN :
         Set(w, [pc |-> "putting", made |-> [unit |-> writer[w].made.unit, nth |-> writer[w].made.nth + 1,
                                             size |-> size, last |-> last]])
  BY DEF Make
<1>2. writer[w].pc = "making" /\ UNCHANGED <<unitsTaken, queue>> /\ writer[w].made.unit \in UnitIds
      /\ writer[w] \in [pc : WriterSteps, made : MadeNow]
  BY DEF Make, Is, TurnsInv, WritersTyped
<1> DEFINE m == [unit |-> writer[w].made.unit, nth |-> writer[w].made.nth + 1, size |-> size, last |-> last]
           r == [pc |-> "putting", made |-> m]
<1>3. m \in Handed /\ m \in MadeNow /\ m.unit = writer[w].made.unit /\ m.nth = writer[w].made.nth + 1 /\ m.nth >= 1
      /\ writer[w].made.nth \in Nat
  BY <1>2 DEF Handed, MadeNow
<1> HIDE DEF m
<1>4. r \in [pc : WriterSteps, made : MadeNow] /\ r.pc = "putting" /\ r.made = m
  BY <1>3 DEF WriterSteps
<1>5. Set(w, r)
  BY <1>1 DEF m
<1> HIDE DEF r
<1>6. WritersTyped' /\ writer'[w] = r /\ \A v \in Writers : v # w => writer'[v] = writer[v]
  BY <1>2, <1>3, <1>4, <1>5, SetOne DEF TurnsInv
<1>7. w \in OpenNow /\ UnitNow'[w] = UnitNow[w] /\ PutNow'[w] = PutNow[w] /\ w \notin Failures
  BY <1>2, <1>3, <1>4, <1>6 DEF OpenNow, UnitNow, PutNow, Failures
<1> QED
  BY <1>2, <1>6, <1>7, OneAlone DEF queue

LEMMA BeginWritingKeeps ==
    ASSUME TurnsInv, BeginWriting
    PROVE  TurnsInv' /\ sink' = sink
<1>1. /\ \A w \in Writers : writer[w].pc = "idle"
      /\ writer' = [w \in Writers |-> [writer[w] EXCEPT !.pc = "free"]]
      /\ UNCHANGED <<unitsTaken, queue>>
  BY DEF BeginWriting, Is
<1>2. \A w \in Writers : /\ [writer[w] EXCEPT !.pc = "free"] \in [pc : WriterSteps, made : MadeNow]
                        /\ [writer[w] EXCEPT !.pc = "free"].pc = "free"
  BY DEF TurnsInv, WritersTyped, WriterSteps
<1>3. writer' \in [Writers -> [pc : WriterSteps, made : MadeNow]] /\ \A w \in Writers : writer'[w].pc = "free"
  BY <1>1, <1>2
<1>4. WritersTyped' /\ OpenNow' = {} /\ Failures = {}
  BY <1>1, <1>3 DEF WritersTyped, OpenNow, Failures
<1> QED
  BY <1>1, <1>4, QueueAlone DEF queue

LEMMA AskStopKeeps ==
    ASSUME TurnsInv, AskStop
    PROVE  TurnsInv' /\ sink' = sink
<1>1. UNCHANGED <<writer, unitsTaken, queue>>
  BY DEF AskStop
<1>2. WritersTyped' /\ OpenNow' = OpenNow /\ Failures' = Failures /\ UnitNow' = UnitNow /\ PutNow' = PutNow
  BY <1>1 DEF TurnsInv, WritersTyped, OpenNow, Failures, UnitNow, PutNow
<1> QED
  BY <1>1, <1>2, QueueAlone DEF queue

(* A unit taken, by a worker that makes it or that stops.                  *)
LEMMA TakenOn ==
    ASSUME TurnsInv, WritersTyped', NEW w \in Writers, w \notin OpenNow, w \notin Failures,
           UNCHANGED queue, unitsTaken' = unitsTaken + 1,
           \A v \in Writers : v # w => writer'[v] = writer[v],
           w \in OpenNow' => unitsTaken \in UnitIds /\ UnitNow'[w] = unitsTaken /\ PutNow'[w] = 0
    PROVE  TurnsInv'
<1>1. QueueTyped' /\ next' = next /\ kept' = kept /\ sink' = sink /\ unitsTaken \in Int /\ next \in Int
  BY DEF TurnsInv, QueueTyped, queue
<1>2. Failures \subseteq Failures'
  BY DEF Failures
<1>3. \A u, n : Comes(sink, u, n, Failures) => Comes(sink, u, n, Failures')
  BY <1>2, ComesStill DEF TurnsInv, QueueTyped
<1>4. LinesRight(kept, next, sink, Failures, unitsTaken)
  BY DEF TurnsInv, LinesNow
<1>5. LinesNow'
  <2>1. \A u \in UnitIds : u >= unitsTaken' => kept[u] = <<>>
    BY <1>1, <1>4 DEF LinesRight, UnitIds
  <2>2. next <= unitsTaken' /\ next # unitsTaken' /\ next <= Units
    BY <1>1, <1>4 DEF LinesRight
  <2> QED
    BY <1>1, <1>3, <1>4, <2>1, <2>2 DEF LinesNow, LinesRight
<1>6. /\ \A v \in OpenNow' : v # w => v \in OpenNow /\ UnitNow'[v] = UnitNow[v] /\ PutNow'[v] = PutNow[v]
      /\ OpenNow' \subseteq Writers
  BY DEF OpenNow, UnitNow, PutNow
<1>7. HandsRight(kept, OpenNow, UnitNow, PutNow, next, sink, Failures, unitsTaken)
  BY DEF TurnsInv, HandsNow
<1>8. \A v \in OpenNow : UnitNow[v] \in UnitIds /\ next <= UnitNow[v] /\ UnitNow[v] < unitsTaken
  BY <1>7 DEF HandsRight
<1>9. \A v \in OpenNow' : UnitNow'[v] \in UnitIds /\ next <= UnitNow'[v] /\ UnitNow'[v] < unitsTaken'
  <2> SUFFICES ASSUME NEW v \in OpenNow'
               PROVE UnitNow'[v] \in UnitIds /\ next <= UnitNow'[v] /\ UnitNow'[v] < unitsTaken'
    OBVIOUS
  <2>1. CASE v = w
    BY <1>1, <1>4, <2>1 DEF LinesRight
  <2>2. CASE v # w
    BY <1>1, <1>6, <1>8, <2>2 DEF UnitIds
  <2> QED
    BY <2>1, <2>2
<1>10. \A v, u \in OpenNow' : UnitNow'[v] = UnitNow'[u] => v = u
  <2>1. \A v \in OpenNow : UnitNow[v] # unitsTaken
    BY <1>1, <1>8 DEF UnitIds
  <2> QED
    BY <1>6, <1>7, <2>1 DEF HandsRight
<1>11. ASSUME NEW v \in OpenNow'
       PROVE  LET line == kept[UnitNow'[v]] IN
              /\ line # <<>> => line[Len(line)].nth = PutNow'[v] /\ ~line[Len(line)].last
              /\ line = <<>> /\ UnitNow'[v] = next => Comes(sink, next, PutNow'[v] + 1, Failures')
              /\ line = <<>> /\ UnitNow'[v] > next => PutNow'[v] = 0
  <2>1. CASE v = w
    <3>1. kept[unitsTaken] = <<>> /\ UnitNow'[v] = unitsTaken /\ PutNow'[v] = 0
      BY <1>1, <1>4, <1>11, <2>1 DEF LinesRight
    <3>2. next = unitsTaken => Comes(sink, next, 0 + 1, Failures')
      BY <1>3, <1>4 DEF LinesRight
    <3> QED
      BY <3>1, <3>2
  <2>2. CASE v # w
    <3>1. v \in OpenNow /\ UnitNow'[v] = UnitNow[v] /\ PutNow'[v] = PutNow[v]
      BY <1>6, <2>2
    <3> QED
      BY <1>3, <1>7, <3>1 DEF HandsRight
  <2> QED
    BY <2>1, <2>2
<1>12. HandsNow'
  BY <1>1, <1>9, <1>10, <1>11 DEF HandsNow, HandsRight
<1> QED
  BY <1>1, <1>5, <1>12 DEF TurnsInv

LEMMA TakeUnitKeeps ==
    ASSUME TurnsInv, NEW w \in Writers, TakeUnit(w)
    PROVE  TurnsInv' /\ sink' = sink
<1>1. writer[w].pc = "free" /\ unitsTaken' = unitsTaken + 1 /\ UNCHANGED queue
  BY DEF TakeUnit, Is
<1>2. w \notin OpenNow /\ w \notin Failures
  BY <1>1 DEF OpenNow, Failures
<1>3. CASE RestAt(w, "ended") \/ RestAt(w, "failing")
  <2>1. PICK step \in {"ended", "failing"} : RestAt(w, step)
    BY <1>3
  <2>2. WritersTyped' /\ writer'[w].pc = step /\ \A v \in Writers : v # w => writer'[v] = writer[v]
    BY <2>1, RestStep DEF TurnsInv
  <2>3. w \notin OpenNow'
    BY <2>2 DEF OpenNow
  <2> QED
    BY <1>1, <1>2, <2>2, <2>3, TakenOn DEF queue
<1>4. CASE unitsTaken < Units /\ Set(w, [pc |-> "making", made |-> NothingOf(unitsTaken)])
  <2>1. unitsTaken \in UnitIds
    BY <1>4, TurnsAssumption DEF TurnsInv, QueueTyped, UnitIds
  <2> DEFINE m == NothingOf(unitsTaken)
             r == [pc |-> "making", made |-> m]
  <2>2. m \in MadeNow /\ m.unit = unitsTaken /\ m.nth = 0
    BY <2>1 DEF NothingOf, MadeNow
  <2> HIDE DEF m
  <2>3. r \in [pc : WriterSteps, made : MadeNow] /\ r.pc = "making" /\ r.made = m
    BY <2>2 DEF WriterSteps
  <2>4. Set(w, r)
    BY <1>4 DEF m
  <2> HIDE DEF r
  <2>5. WritersTyped' /\ writer'[w] = r /\ \A v \in Writers : v # w => writer'[v] = writer[v]
    BY <2>1, <2>2, <2>3, <2>4, SetOne DEF TurnsInv
  <2>6. UnitNow'[w] = unitsTaken /\ PutNow'[w] = 0
    BY <2>2, <2>3, <2>5 DEF UnitNow, PutNow
  <2> QED
    BY <1>1, <1>2, <2>1, <2>5, <2>6, TakenOn DEF queue
<1>5. unitsTaken \in Nat /\ Units \in Nat
  BY TurnsAssumption DEF TurnsInv, QueueTyped
<1> QED
  BY <1>3, <1>4, <1>5 DEF TakeUnit

(* The piece whose turn it is, if there is one, is placed in its turn; w   *)
(* has put all it made.                                                    *)
LEMMA PlaceNextKeeps ==
    ASSUME TurnsInv, NEW w \in Writers, writer[w].pc \in {"putting", "handing"}, UNCHANGED unitsTaken,
           NEW k \in [UnitIds -> Seq(Handed)], NEW waiting, NEW op, NEW pn,
           op = IF writer[w].made.last THEN OpenNow \ {w} ELSE OpenNow \union {w},
           \A v \in op : pn[v] \in Int, \A v \in op : v # w => pn[v] = PutNow[v],
           w \in op => pn[w] = writer[w].made.nth,
           LinesRight(k, next, sink, Failures, unitsTaken),
           HandsRight(k, op, UnitNow, pn, next, sink, Failures, unitsTaken),
           PlaceNext(w, k, waiting)
    PROVE  /\ TurnsInv'
           /\ sink' # sink => Comes(sink, sink'.unit, sink'.nth, Failures)
<1>1. /\ writer[w].made.unit \in UnitIds /\ WritersTyped /\ QueueTyped /\ unitsTaken' = unitsTaken
      /\ next \in Nat /\ next \in Int /\ unitsTaken \in Int /\ sink \in Handed \union {NoPiece}
  <2>1. WritersTyped /\ QueueTyped
    BY DEF TurnsInv
  <2>2. writer[w].made.unit \in UnitIds
    BY <2>1 DEF WritersTyped
  <2>3. next \in Nat /\ next \in Int /\ unitsTaken \in Int /\ sink \in Handed \union {NoPiece}
    BY <2>1 DEF QueueTyped
  <2> QED
    BY <2>1, <2>2, <2>3
(* What the workers have in hand after a step of w that closes no open     *)
(* unit but, as it fails, its own.                                         *)
<1>2. ASSUME NEW k2 \in [UnitIds -> Seq(Handed)], NEW nx2 \in Nat, NEW s2 \in Handed \union {NoPiece},
             NEW fails, fails \subseteq Failures', WritersTyped',
             kept' = k2, next' = nx2, sink' = s2,
             LinesRight(k2, nx2, s2, fails, unitsTaken), HandsRight(k2, op, UnitNow, pn, nx2, s2, fails, unitsTaken),
             \A v \in Writers : v # w => writer'[v] = writer[v],
             w \in OpenNow' => w \in op /\ UnitNow'[w] = UnitNow[w] /\ PutNow'[w] = pn[w]
      PROVE  TurnsInv'
  <2>1. QueueTyped'
    BY <1>1, <1>2 DEF QueueTyped
  <2>2. \A u, n : Comes(s2, u, n, fails) => Comes(s2, u, n, Failures')
    BY <1>2, ComesStill
  <2>3. LinesNow'
    BY <1>1, <1>2, <2>2 DEF LinesNow, LinesRight
  <2>4. OpenNow' \subseteq op /\ \A v \in OpenNow' : UnitNow'[v] = UnitNow[v] /\ PutNow'[v] = pn[v]
    <3> SUFFICES ASSUME NEW v \in OpenNow' PROVE v \in op /\ UnitNow'[v] = UnitNow[v] /\ PutNow'[v] = pn[v]
      OBVIOUS
    <3>1. CASE v = w
      BY <1>2, <3>1
    <3>2. CASE v # w
      <4>1. v \in OpenNow /\ UnitNow'[v] = UnitNow[v] /\ PutNow'[v] = PutNow[v]
        BY <1>2, <3>2 DEF OpenNow, UnitNow, PutNow
      <4> QED
        BY <3>2, <4>1
    <3> QED
      BY <3>1, <3>2
  <2>5. HandsRight(kept', OpenNow', UnitNow', PutNow', next', sink', Failures', unitsTaken')
    <3>1. \A v, u \in OpenNow' : UnitNow'[v] = UnitNow'[u] => v = u
      BY <1>2, <2>4 DEF HandsRight
    <3>2. \A v \in OpenNow' : UnitNow'[v] \in UnitIds /\ next' <= UnitNow'[v] /\ UnitNow'[v] < unitsTaken'
      BY <1>1, <1>2, <2>4 DEF HandsRight
    <3>3. \A v \in OpenNow' : LET line == kept'[UnitNow'[v]] IN
            /\ line # <<>> => line[Len(line)].nth = PutNow'[v] /\ ~line[Len(line)].last
            /\ line = <<>> /\ UnitNow'[v] = next' => Comes(sink', next', PutNow'[v] + 1, Failures')
            /\ line = <<>> /\ UnitNow'[v] > next' => PutNow'[v] = 0
      BY <1>2, <2>2, <2>4 DEF HandsRight
    <3> QED
      BY <3>1, <3>2, <3>3 DEF HandsRight
  <2> QED
    BY <1>2, <2>1, <2>3, <2>5 DEF TurnsInv, HandsNow
<1>3. CASE next \in UnitIds /\ k[next] # <<>>
  <2> DEFINE piece == Head(k[next])
             k2 == [k EXCEPT ![next] = Tail(@)]
             nx2 == IF piece.last THEN next + 1 ELSE next
  <2>1. /\ kept' = k2 /\ next' = nx2
        /\ \/ sink' = piece /\ To(w, "writing")
           \/ RestAt(w, "failing") /\ UNCHANGED sink
    BY <1>3 DEF PlaceNext
  <2>2. k[next] \in Seq(Handed) /\ k[next] # <<>>
    BY <1>3
  <2>3. piece \in Handed /\ Tail(k[next]) \in Seq(Handed)
    BY <2>2, HeadTailProperties
  <2>4. k2 \in [UnitIds -> Seq(Handed)] /\ k2[next] = Tail(k[next]) /\ \A u \in UnitIds : u # next => k2[u] = k[u]
    BY <1>3, <2>3
  <2>5. nx2 \in Nat /\ nx2 \in Int
    BY <1>1
  <2>6. /\ piece = Head(k[next]) /\ (piece.last => nx2 = next + 1)
        /\ ~piece.last => nx2 = next
    OBVIOUS
  <2> HIDE DEF piece, k2, nx2
  <2>7. /\ piece.unit = next /\ piece.nth \in Int /\ InLine(k[next], next)
        /\ Comes(sink, next, piece.nth, Failures)
    BY <1>1, <1>3, <2>3, <2>6, PlacedFirst
  <2>8. CASE sink' = piece /\ To(w, "writing")
    <3>1. /\ WritersTyped' /\ writer'[w].pc = "writing" /\ writer'[w].made = writer[w].made
          /\ \A v \in Writers : v # w => writer'[v] = writer[v]
      BY <1>1, <2>8, ToStep DEF WriterSteps
    <3>2. Failures \subseteq Failures'
      BY <3>1 DEF Failures
    <3>3. /\ ~piece.last => Comes(piece, next, piece.nth + 1, Failures)
          /\ piece.last => Comes(piece, next + 1, 1, Failures)
          /\ piece \in Handed \union {NoPiece}
      BY <2>3, <2>7, ComesNext
    <3>4. LinesRight(k2, nx2, piece, Failures, unitsTaken)
      BY <1>1, <1>3, <2>3, <2>4, <2>5, <2>6, <3>3, PlacedLines
    <3>5. HandsRight(k2, op, UnitNow, pn, nx2, piece, Failures, unitsTaken)
      BY <1>1, <1>3, <2>3, <2>4, <2>5, <2>6, <2>7, <3>3, PlacedHands
    <3>6. w \in OpenNow' => w \in op /\ UnitNow'[w] = UnitNow[w] /\ PutNow'[w] = pn[w]
      BY <3>1 DEF OpenNow, UnitNow, PutNow
    <3>7. TurnsInv'
      BY <1>2, <2>1, <2>3, <2>4, <2>5, <2>8, <3>1, <3>2, <3>3, <3>5, <3>6, <3>4
    <3> QED
      BY <2>7, <2>8, <3>7
  <2>9. CASE RestAt(w, "failing") /\ UNCHANGED sink
    <3>1. /\ WritersTyped' /\ writer'[w].pc = "failing" /\ \A v \in Writers : v # w => writer'[v] = writer[v]
      BY <1>1, <2>9, RestStep
    <3>2. Failures' # {} /\ w \notin OpenNow'
      BY <3>1 DEF Failures, OpenNow
    <3>3. PICK fails : fails = Failures'
      OBVIOUS
    <3>4. /\ ~piece.last => Comes(sink, next, piece.nth + 1, fails)
          /\ piece.last => Comes(sink, next + 1, 1, fails)
      BY <1>1, <2>7, <3>2, <3>3, ComesAfter
    <3>5. LinesRight(k2, nx2, sink, fails, unitsTaken)
      BY <1>1, <1>3, <2>3, <2>4, <2>5, <2>6, <3>4, PlacedLines
    <3>6. HandsRight(k2, op, UnitNow, pn, nx2, sink, fails, unitsTaken)
      BY <1>1, <1>3, <2>3, <2>4, <2>5, <2>6, <2>7, <3>4, PlacedHands
    <3>7. TurnsInv'
      BY <1>1, <1>2, <2>1, <2>4, <2>5, <2>9, <3>1, <3>2, <3>3, <3>4, <3>6, <3>5
    <3> QED
      BY <2>9, <3>7
  <2> QED
    BY <2>1, <2>8, <2>9
<1>4. CASE ~(next \in UnitIds /\ k[next] # <<>>)
  <2>1. kept' = k /\ next' = next /\ sink' = sink /\ GoOnMaking(w)
    BY <1>4 DEF PlaceNext
  <2>2. CASE writer[w].made.last
    <3>1. /\ WritersTyped' /\ writer'[w].pc = "free" /\ \A v \in Writers : v # w => writer'[v] = writer[v]
      BY <1>1, <2>1, <2>2, RestStep DEF GoOnMaking
    <3>2. w \notin OpenNow' /\ Failures \subseteq Failures'
      BY <3>1 DEF OpenNow, Failures
    <3> QED
      BY <1>1, <1>2, <2>1, <3>1, <3>2
  <2>3. CASE ~writer[w].made.last
    <3>1. /\ WritersTyped' /\ writer'[w].pc = "making" /\ writer'[w].made = writer[w].made
          /\ \A v \in Writers : v # w => writer'[v] = writer[v]
      BY <1>1, <2>1, <2>3, ToStep DEF GoOnMaking, WriterSteps
    <3>2. w \in op /\ UnitNow'[w] = UnitNow[w] /\ PutNow'[w] = pn[w] /\ Failures \subseteq Failures'
      BY <2>3, <3>1 DEF OpenNow, UnitNow, PutNow, Failures
    <3> QED
      BY <1>1, <1>2, <2>1, <3>1, <3>2
  <2> QED
    BY <2>2, <2>3
<1> QED
  BY <1>3, <1>4

LEMMA PutNumbers ==
    ASSUME WritersTyped
    PROVE  \A w \in Writers : /\ PutNow[w] \in Int /\ UnitNow[w] = writer[w].made.unit
                              /\ writer[w].pc = "putting" => PutNow[w] + 1 = writer[w].made.nth
                              /\ writer[w].pc # "putting" => PutNow[w] = writer[w].made.nth
<1> SUFFICES ASSUME NEW w \in Writers
             PROVE  /\ PutNow[w] \in Int /\ UnitNow[w] = writer[w].made.unit
                    /\ writer[w].pc = "putting" => PutNow[w] + 1 = writer[w].made.nth
                    /\ writer[w].pc # "putting" => PutNow[w] = writer[w].made.nth
  OBVIOUS
<1>1. writer[w].made.nth \in Int
  BY DEF WritersTyped, MadeNow
<1> QED
  BY <1>1 DEF PutNow, UnitNow

(* The queue with the piece w puts: it goes on from what was put of its    *)
(* unit, which is open.                                                    *)
WithPut(w) == [kept EXCEPT ![UnitNow[w]] = Append(kept[UnitNow[w]], writer[w].made)]

LEMMA PutInLine ==
    ASSUME TurnsInv, NEW w \in Writers, Put(w), NEW piece, piece = writer[w].made
    PROVE  /\ piece \in Handed /\ piece.nth \in Int /\ piece.unit \in UnitIds
           /\ w \in OpenNow /\ UnitNow[w] = piece.unit /\ PutNow[w] \in Int /\ PutNow[w] + 1 = piece.nth
           /\ WithPut(w) \in [UnitIds -> Seq(Handed)] /\ PlaceNext(w, WithPut(w), bytes + piece.size)
           /\ LinesRight(WithPut(w), next, sink, Failures, unitsTaken)
<1> DEFINE k == WithPut(w)
<1>1. writer[w].pc = "putting"
  BY DEF Put, Is
<1>2. WritersTyped /\ QueueTyped
  BY DEF TurnsInv
<1>3. piece \in Handed
  BY <1>1, <1>2 DEF WritersTyped
<1>4. piece.unit \in UnitIds /\ piece.nth \in Int
  BY <1>3 DEF Handed
<1>5. w \in OpenNow
  BY <1>1 DEF OpenNow
<1>6. UnitNow[w] = piece.unit /\ PutNow[w] \in Int /\ PutNow[w] + 1 = piece.nth
  BY <1>1, <1>2, PutNumbers
<1>7. /\ kept \in [UnitIds -> Seq(Handed)] /\ next \in Int /\ unitsTaken \in Int
      /\ sink \in Handed \union {NoPiece}
  BY <1>2 DEF QueueTyped
<1>8. k \in [UnitIds -> Seq(Handed)] /\ k = [kept EXCEPT ![UnitNow[w]] = Append(kept[UnitNow[w]], piece)]
  <2>1. Append(kept[piece.unit], piece) \in Seq(Handed)
    BY <1>3, <1>4, <1>7, AppendProperties
  <2> QED
    BY <1>4, <1>6, <1>7, <2>1 DEF WithPut
<1> HIDE DEF k
<1>9. /\ LinesRight(kept, next, sink, Failures, unitsTaken)
      /\ HandsRight(kept, OpenNow, UnitNow, PutNow, next, sink, Failures, unitsTaken)
  BY DEF TurnsInv, LinesNow, HandsNow
<1>10. LinesRight(k, next, sink, Failures, unitsTaken)
  <2>1. PICK x, n : x = UnitNow[w] /\ n = PutNow[w]
    OBVIOUS
  <2>2. x = UnitNow[w] /\ n = PutNow[w] /\ n \in Int /\ piece.unit = x /\ piece.nth = n + 1
    BY <1>6, <2>1
  <2>3. k \in [UnitIds -> Seq(Handed)] /\ kept \in [UnitIds -> Seq(Handed)]
    BY <1>7, <1>8
  <2>4. k = [kept EXCEPT ![x] = Append(kept[x], piece)]
    BY <1>8, <2>2
  <2>5. next \in Int /\ unitsTaken \in Int /\ sink \in Handed \union {NoPiece}
    BY <1>7
  <2> QED
    BY <1>3, <1>5, <1>9, <2>2, <2>3, <2>4, <2>5, AppendedLines
<1>11. PlaceNext(w, k, bytes + piece.size)
  <2>1. k = [kept EXCEPT ![piece.unit] = Append(@, piece)]
    BY <1>6, <1>8
  <2> QED
    BY <2>1 DEF Put
<1> QED
  BY <1>3, <1>4, <1>5, <1>6, <1>8, <1>10, <1>11 DEF k

LEMMA PutKeeps ==
    ASSUME TurnsInv, NEW w \in Writers, Put(w)
    PROVE  /\ TurnsInv'
           /\ sink' # sink => Comes(sink, sink'.unit, sink'.nth, Failures)
<1>1. PICK piece : piece = writer[w].made
  OBVIOUS
<1>2. PICK k : k = WithPut(w)
  OBVIOUS
<1>3. writer[w].pc = "putting" /\ unitsTaken' = unitsTaken
  BY DEF Put, Is
<1>4. /\ piece \in Handed /\ piece.nth \in Int
      /\ w \in OpenNow /\ UnitNow[w] = piece.unit
      /\ k \in [UnitIds -> Seq(Handed)] /\ PlaceNext(w, k, bytes + piece.size)
      /\ LinesRight(k, next, sink, Failures, unitsTaken)
  BY <1>1, <1>2, PutInLine
<1>5. /\ kept \in [UnitIds -> Seq(Handed)] /\ next \in Int /\ unitsTaken \in Int /\ sink \in Handed \union {NoPiece}
  BY DEF TurnsInv, QueueTyped
<1>6. \A v \in Writers : PutNow[v] \in Int
  BY PutNumbers DEF TurnsInv
<1> DEFINE op == IF piece.last THEN OpenNow \ {w} ELSE OpenNow
           pn == [PutNow EXCEPT ![w] = piece.nth]
<1>7. pn[w] = piece.nth /\ \A v \in Writers : v # w => pn[v] = PutNow[v]
  BY DEF PutNow
<1>8. op \subseteq OpenNow /\ OpenNow \subseteq Writers
  BY DEF OpenNow
<1>9. HandsRight(k, op, UnitNow, pn, next, sink, Failures, unitsTaken)
  <2>1. HandsRight(kept, OpenNow, UnitNow, PutNow, next, sink, Failures, unitsTaken)
    BY DEF TurnsInv, HandsNow
  <2>2. PutNow \in [Writers -> Int]
    BY <1>6 DEF PutNow
  <2>3. k = [kept EXCEPT ![UnitNow[w]] = Append(kept[UnitNow[w]], piece)]
    BY <1>1, <1>2 DEF WithPut
  <2> QED
    BY <1>4, <1>5, <1>8, <2>1, <2>2, <2>3, AppendedHands
<1>10. op = IF writer[w].made.last THEN OpenNow \ {w} ELSE OpenNow \union {w}
  BY <1>1, <1>4
<1> HIDE DEF op, pn
<1>11. /\ \A v \in op : pn[v] \in Int
       /\ \A v \in op : v # w => pn[v] = PutNow[v]
       /\ w \in op => pn[w] = writer[w].made.nth
  BY <1>1, <1>4, <1>6, <1>7, <1>8
<1>12. writer[w].pc \in {"putting", "handing"} /\ UNCHANGED unitsTaken
  BY <1>3
<1>13. PlaceNext(w, k, bytes + piece.size)
  BY <1>4
<1>14. k \in [UnitIds -> Seq(Handed)] /\ LinesRight(k, next, sink, Failures, unitsTaken)
  BY <1>4
<1> QED
  BY <1>9, <1>10, <1>11, <1>12, <1>13, <1>14, PlaceNextKeeps

LEMMA PlaceMoreKeeps ==
    ASSUME TurnsInv, NEW w \in Writers, PlaceMore(w)
    PROVE  /\ TurnsInv'
           /\ sink' # sink => Comes(sink, sink'.unit, sink'.nth, Failures)
<1>1. writer[w].pc = "handing" /\ PlaceNext(w, kept, bytes) /\ unitsTaken' = unitsTaken
  BY DEF PlaceMore, Is
<1>2. WritersTyped /\ kept \in [UnitIds -> Seq(Handed)]
  BY DEF TurnsInv, QueueTyped
<1>3. OpenNow = IF writer[w].made.last THEN OpenNow \ {w} ELSE OpenNow \union {w}
  BY <1>1 DEF OpenNow
<1>4. OpenNow \subseteq Writers /\ \A v \in Writers : PutNow[v] \in Int
  BY <1>2, PutNumbers DEF OpenNow
<1>5. PutNow[w] = writer[w].made.nth
  BY <1>1, <1>2, PutNumbers
<1>6. LinesRight(kept, next, sink, Failures, unitsTaken) /\ HandsRight(kept, OpenNow, UnitNow, PutNow, next, sink, Failures, unitsTaken)
  BY DEF TurnsInv, LinesNow, HandsNow
<1>7. writer[w].pc \in {"putting", "handing"} /\ UNCHANGED unitsTaken /\ \A v \in OpenNow : PutNow[v] \in Int
  BY <1>1, <1>4
<1> QED
  BY <1>1, <1>2, <1>3, <1>5, <1>6, <1>7, PlaceNextKeeps

LEMMA TurnsStart == TurnsInit => TurnsInv
<1> SUFFICES ASSUME TurnsInit PROVE TurnsInv
  OBVIOUS
<1>1. /\ writer = [w \in Writers |-> [pc |-> "idle", made |-> NoPiece]]
      /\ unitsTaken = 0 /\ next = 0 /\ kept = [u \in UnitIds |-> <<>>] /\ sink = NoPiece
  BY DEF TurnsInit
<1>2. \A w \in Writers : writer[w] \in [pc : WriterSteps, made : MadeNow] /\ writer[w].pc = "idle"
  BY <1>1, NoPieceIs DEF WriterSteps
<1>3. WritersTyped /\ OpenNow = {} /\ Failures = {}
  BY <1>1, <1>2 DEF WritersTyped, OpenNow, Failures
<1>4. \A u \in UnitIds : kept[u] = <<>>
  BY <1>1
<1>5. QueueTyped
  <2>1. <<>> \in Seq(Handed)
    BY EmptySeq
  <2> QED
    BY <1>1, <2>1 DEF QueueTyped
<1>6. \A u \in UnitIds : InLine(kept[u], u)
  <2> SUFFICES ASSUME NEW u \in UnitIds PROVE InLine(kept[u], u)
    OBVIOUS
  <2>1. Len(kept[u]) = 0
    BY <1>4, EmptySeq
  <2>2. \A i \in 1..Len(kept[u]) : FALSE
    BY <2>1
  <2>3. \A i \in 1..(Len(kept[u]) - 1) : FALSE
    BY <2>1
  <2> QED
    BY <2>2, <2>3 DEF InLine
<1>7. Comes(sink, next, 1, Failures)
  BY <1>1, NoPieceIs DEF Comes
<1>8. LinesNow
  <2>1. next <= unitsTaken /\ next <= Units
    BY <1>1, TurnsAssumption
  <2> QED
    BY <1>1, <1>4, <1>6, <1>7, <2>1 DEF LinesNow, LinesRight
<1>9. HandsNow
  BY <1>3 DEF HandsNow, HandsRight
<1> QED
  BY <1>3, <1>5, <1>8, <1>9 DEF TurnsInv

LEMMA StillTurns ==
    ASSUME TurnsInv, UNCHANGED turnsVars
    PROVE  TurnsInv' /\ sink' = sink
<1>1. UNCHANGED <<writer, unitsTaken, queue>>
  BY DEF turnsVars, queue
<1>2. WritersTyped' /\ OpenNow' = OpenNow /\ Failures' = Failures /\ UnitNow' = UnitNow /\ PutNow' = PutNow
  BY <1>1 DEF TurnsInv, WritersTyped, OpenNow, Failures, UnitNow, PutNow
<1> QED
  BY <1>1, <1>2, QueueAlone DEF queue

LEMMA TurnsStepKeeps ==
    ASSUME TurnsInv, [TurnsNext]_turnsVars
    PROVE  /\ TurnsInv'
           /\ sink' # sink => Comes(sink, sink'.unit, sink'.nth, Failures)
<1>1. CASE BeginWriting
  BY <1>1, BeginWritingKeeps
<1>2. CASE AskStop
  BY <1>2, AskStopKeeps
<1>3. CASE \E w \in Writers : WriterStep(w) \/ FailPart(w)
  <2>1. PICK w \in Writers : WriterStep(w) \/ FailPart(w)
    BY <1>3
  <2>2. CASE TakeUnit(w) \/ Make(w) \/ PutStops(w)
    BY <2>2, TakeUnitKeeps, MakeKeeps, PutStopsKeeps
  <2>3. CASE Write(w) \/ RaiseHalt(w) \/ FailPart(w)
    BY <2>3, WriteKeeps, RaiseHaltKeeps, FailPartKeeps
  <2>4. CASE Put(w)
    BY <2>4, PutKeeps
  <2>5. CASE PlaceMore(w)
    BY <2>5, PlaceMoreKeeps
  <2> QED
    BY <2>1, <2>2, <2>3, <2>4, <2>5 DEF WriterStep
<1>4. CASE UNCHANGED turnsVars
  BY <1>4, StillTurns
<1> QED
  BY <1>1, <1>2, <1>3, <1>4 DEF TurnsNext

LEMMA TurnsInvariant == TurnsSpec => []TurnsInv
<1>1. TurnsInv /\ [TurnsNext]_turnsVars => TurnsInv'
  BY TurnsStepKeeps
<1> QED
  BY <1>1, TurnsStart, PTL DEF TurnsSpec

(* The pieces are placed in the order of their units, none missing or      *)
(* there twice unless a worker failed: of the lines and the hands, the     *)
(* piece placed is always the one that comes next.                         *)
THEOREM AlwaysPiecesInOrder == TurnsSpec => PiecesInOrder
<1>1. ASSUME TurnsInv, [TurnsNext]_turnsVars, sink' # sink
      PROVE  Follows(sink, sink') \/ (Failed /\ Later(sink, sink'))
  <2>1. Comes(sink, sink'.unit, sink'.nth, Failures)
    BY <1>1, TurnsStepKeeps
  <2>2. Failures # {} => Failed
    BY DEF Failures, Failed
  <2> QED
    BY <2>1, <2>2 DEF Comes, Follows, Later
<1>2. TurnsInv /\ [TurnsNext]_turnsVars
      => [sink' # sink => \/ Follows(sink, sink')
                          \/ Failed /\ Later(sink, sink')]_turnsVars
  <2> SUFFICES ASSUME TurnsInv, [TurnsNext]_turnsVars
               PROVE  sink' # sink => Follows(sink, sink') \/ (Failed /\ Later(sink, sink'))
    OBVIOUS
  <2> QED
    BY <1>1
<1> QED
  BY <1>2, TurnsInvariant, PTL DEF TurnsSpec, PiecesInOrder

(* The bytes of a piece of unit u, of a line of its pieces, and of what is *)
(* kept of some units.                                                     *)
PieceBytes(u, piece) == {<<u, piece.nth>>} \X (1..piece.size)
LineBytes(line, u) == UNION {PieceBytes(u, piece) : piece \in Range(line)}
BytesIn(k, units) == UNION {LineBytes(k[u], u) : u \in units}

LEMMA BytesNow == \A units : BytesOf(units) = BytesIn(kept, units)
BY DEF BytesOf, BytesIn, LineBytes, PieceBytes

LEMMA InPiece ==
    ASSUME NEW u, NEW piece, NEW b
    PROVE  b \in PieceBytes(u, piece) <=> \E j \in 1..piece.size : b = <<<<u, piece.nth>>, j>>
BY DEF PieceBytes

LEMMA SizeOfPiece ==
    ASSUME NEW u, NEW piece \in Handed
    PROVE  IsFiniteSet(PieceBytes(u, piece)) /\ Cardinality(PieceBytes(u, piece)) = piece.size /\ piece.size \in Nat
<1>1. piece.size \in Nat
  BY TurnsAssumption DEF Handed
<1>2. IsFiniteSet(1..piece.size) /\ Cardinality(1..piece.size) = piece.size
  BY <1>1, FS_Interval
<1>3. IsFiniteSet({<<u, piece.nth>>}) /\ Cardinality({<<u, piece.nth>>}) = 1
  BY FS_Singleton
<1>4. /\ IsFiniteSet(PieceBytes(u, piece))
      /\ Cardinality(PieceBytes(u, piece)) = Cardinality({<<u, piece.nth>>}) * Cardinality(1..piece.size)
  BY <1>2, <1>3, FS_Product DEF PieceBytes
<1> QED
  BY <1>1, <1>2, <1>3, <1>4

LEMMA InLineBytes ==
    ASSUME NEW line \in Seq(Handed), NEW u, NEW b
    PROVE  b \in LineBytes(line, u) <=> \E i \in 1..Len(line) : b \in PieceBytes(u, line[i])
BY DEF LineBytes, Range

LEMMA LineBytesOfUnit ==
    ASSUME NEW line \in Seq(Handed), NEW u, NEW b \in LineBytes(line, u)
    PROVE  b[1][1] = u
<1>1. PICK i \in 1..Len(line) : b \in PieceBytes(u, line[i])
  BY InLineBytes
<1>2. PICK j \in 1..line[i].size : b = <<<<u, line[i].nth>>, j>>
  BY <1>1, InPiece
<1> QED
  BY <1>2

LEMMA NoLineBytes == \A u : LineBytes(<<>>, u) = {}
<1> SUFFICES ASSUME NEW u PROVE LineBytes(<<>>, u) = {}
  OBVIOUS
<1>1. Len(<<>>) = 0 /\ <<>> \in Seq(Handed)
  BY EmptySeq
<1>2. ASSUME NEW b PROVE b \notin LineBytes(<<>>, u)
  <2>1. \A i \in 1..Len(<<>>) : FALSE
    BY <1>1
  <2> QED
    BY <1>1, <2>1, InLineBytes
<1> QED
  BY <1>2

(* A piece put last in a line of others adds its bytes to the line's.      *)
LEMMA LongLineBytes ==
    ASSUME NEW line \in Seq(Handed), NEW piece \in Handed, NEW u
    PROVE  LineBytes(Append(line, piece), u) = LineBytes(line, u) \union PieceBytes(u, piece)
<1>1. /\ Append(line, piece) \in Seq(Handed) /\ Len(line) \in Nat
      /\ Len(Append(line, piece)) = Len(line) + 1 /\ Append(line, piece)[Len(line) + 1] = piece
      /\ \A i \in 1..Len(line) : Append(line, piece)[i] = line[i]
  BY AppendProperties, LenProperties
<1>2. Range(Append(line, piece)) = Range(line) \union {piece}
  BY AppendProperties DEF Range
<1> QED
  BY <1>2 DEF LineBytes

LEMMA ShortLineBytes ==
    ASSUME NEW line \in Seq(Handed), line # <<>>, NEW u
    PROVE  LineBytes(line, u) = LineBytes(Tail(line), u) \union PieceBytes(u, Head(line))
<1>1. PICK rest : rest = Tail(line)
  OBVIOUS
<1>2. /\ Len(line) \in Nat /\ Len(line) >= 1 /\ Head(line) = line[1] /\ rest \in Seq(Handed)
      /\ Len(rest) = Len(line) - 1 /\ \A i \in 1..Len(rest) : rest[i] = line[i + 1]
  BY <1>1, HeadTailProperties, EmptySeq, LenProperties
<1>3. ASSUME NEW b \in LineBytes(line, u) PROVE b \in LineBytes(rest, u) \union PieceBytes(u, line[1])
  <2>1. PICK i \in 1..Len(line) : b \in PieceBytes(u, line[i])
    BY <1>3, InLineBytes
  <2>2. CASE i # 1
    <3>1. i - 1 \in 1..Len(rest) /\ rest[i - 1] = line[i]
      BY <1>2, <2>2
    <3> QED
      BY <1>2, <2>1, <3>1, InLineBytes
  <2> QED
    BY <2>1, <2>2
<1>4. ASSUME NEW b \in LineBytes(rest, u) PROVE b \in LineBytes(line, u)
  <2>1. PICK i \in 1..Len(rest) : b \in PieceBytes(u, rest[i])
    BY <1>2, <1>4, InLineBytes
  <2>2. i + 1 \in 1..Len(line) /\ rest[i] = line[i + 1]
    BY <1>2
  <2> QED
    BY <2>1, <2>2, InLineBytes
<1>5. ASSUME NEW b \in PieceBytes(u, line[1]) PROVE b \in LineBytes(line, u)
  <2>1. 1 \in 1..Len(line)
    BY <1>2
  <2> QED
    BY <1>5, <2>1, InLineBytes
<1>6. LineBytes(line, u) = LineBytes(rest, u) \union PieceBytes(u, line[1])
  BY <1>3, <1>4, <1>5
<1> QED
  BY <1>1, <1>2, <1>6

(* The pieces of a line share no bytes with one of another number.         *)
LEMMA OtherBytes ==
    ASSUME NEW line \in Seq(Handed), NEW piece, NEW u, \A i \in 1..Len(line) : line[i].nth # piece.nth
    PROVE  \A b \in LineBytes(line, u) : b \notin PieceBytes(u, piece)
<1> SUFFICES ASSUME NEW b \in LineBytes(line, u), b \in PieceBytes(u, piece) PROVE FALSE
  OBVIOUS
<1>1. PICK i \in 1..Len(line) : b \in PieceBytes(u, line[i])
  BY InLineBytes
<1>2. b[1] = <<u, line[i].nth>> /\ b[1] = <<u, piece.nth>>
  BY <1>1, InPiece
<1> QED
  BY <1>2

(* Two queues that differ by one piece of one unit.                        *)
LEMMA OnePieceMore ==
    ASSUME NEW k \in [UnitIds -> Seq(Handed)], NEW k2 \in [UnitIds -> Seq(Handed)], NEW x \in UnitIds,
           \A u \in UnitIds : u # x => k2[u] = k[u],
           NEW piece \in Handed, LineBytes(k2[x], x) = LineBytes(k[x], x) \union PieceBytes(x, piece),
           \A b \in LineBytes(k[x], x) : b \notin PieceBytes(x, piece)
    PROVE  /\ BytesIn(k2, UnitIds) = BytesIn(k, UnitIds) \union PieceBytes(x, piece)
           /\ BytesIn(k, UnitIds) \cap PieceBytes(x, piece) = {}
<1>1. ASSUME NEW u \in UnitIds, u # x PROVE \A b \in LineBytes(k[u], u) : b \notin PieceBytes(x, piece)
  <2> SUFFICES ASSUME NEW b \in LineBytes(k[u], u), b \in PieceBytes(x, piece) PROVE FALSE
    OBVIOUS
  <2>1. b[1][1] = u
    BY LineBytesOfUnit
  <2>2. b[1][1] = x
    BY InPiece
  <2> QED
    BY <1>1, <2>1, <2>2
<1>2. \A u \in UnitIds : \A b \in LineBytes(k[u], u) : b \notin PieceBytes(x, piece)
  BY <1>1
<1>3. \A u \in UnitIds : u # x => LineBytes(k2[u], u) = LineBytes(k[u], u)
  OBVIOUS
<1>4. BytesIn(k2, UnitIds) = BytesIn(k, UnitIds) \union PieceBytes(x, piece)
  BY <1>3 DEF BytesIn
<1>5. BytesIn(k, UnitIds) \cap PieceBytes(x, piece) = {}
  BY <1>2 DEF BytesIn
<1> QED
  BY <1>4, <1>5

LEMMA SameBytes ==
    ASSUME NEW k, NEW k2, NEW units, \A u \in units : k2[u] = k[u]
    PROVE  BytesIn(k2, units) = BytesIn(k, units)
<1>1. \A u \in units : LineBytes(k2[u], u) = LineBytes(k[u], u)
  OBVIOUS
<1> QED
  BY <1>1 DEF BytesIn

LEMMA CountedMore ==
    ASSUME NEW B, NEW P, IsFiniteSet(P), \A b \in B : b \notin P, IsFiniteSet(B)
    PROVE  IsFiniteSet(B \union P) /\ Cardinality(B \union P) = Cardinality(B) + Cardinality(P)
<1>1. B \cap P = {}
  OBVIOUS
<1>2. Cardinality(B \cap P) = 0 /\ Cardinality(B) \in Nat /\ Cardinality(P) \in Nat
  BY <1>1, FS_EmptySet, FS_CardinalityType
<1>3. IsFiniteSet(B \union P) /\ Cardinality(B \union P) = Cardinality(B) + Cardinality(P) - Cardinality(B \cap P)
  BY FS_Union
<1> QED
  BY <1>2, <1>3

LEMMA CountedLess ==
    ASSUME NEW B, NEW P, IsFiniteSet(P), \A b \in B : b \notin P, IsFiniteSet(B \union P)
    PROVE  IsFiniteSet(B) /\ Cardinality(B) = Cardinality(B \union P) - Cardinality(P)
<1>1. IsFiniteSet(B)
  BY FS_Subset
<1>2. Cardinality(B \union P) = Cardinality(B) + Cardinality(P)
  BY <1>1, CountedMore
<1>3. Cardinality(B) \in Nat /\ Cardinality(P) \in Nat
  BY <1>1, FS_CardinalityType
<1> QED
  BY <1>1, <1>2, <1>3

LEMMA MoreCounted ==
    ASSUME NEW k \in [UnitIds -> Seq(Handed)], NEW k2 \in [UnitIds -> Seq(Handed)], NEW x \in UnitIds,
           \A u \in UnitIds : u # x => k2[u] = k[u],
           NEW piece \in Handed, LineBytes(k2[x], x) = LineBytes(k[x], x) \union PieceBytes(x, piece),
           \A b \in LineBytes(k[x], x) : b \notin PieceBytes(x, piece),
           IsFiniteSet(BytesIn(k, UnitIds))
    PROVE  /\ IsFiniteSet(BytesIn(k2, UnitIds))
           /\ Cardinality(BytesIn(k2, UnitIds)) = Cardinality(BytesIn(k, UnitIds)) + piece.size
<1>1. IsFiniteSet(PieceBytes(x, piece)) /\ Cardinality(PieceBytes(x, piece)) = piece.size
  BY SizeOfPiece
<1>2. BytesIn(k2, UnitIds) = BytesIn(k, UnitIds) \union PieceBytes(x, piece)
  BY OnePieceMore
<1>3. \A b \in BytesIn(k, UnitIds) : b \notin PieceBytes(x, piece)
  BY OnePieceMore
<1> QED
  BY <1>1, <1>2, <1>3, CountedMore

LEMMA LessCounted ==
    ASSUME NEW k \in [UnitIds -> Seq(Handed)], NEW k2 \in [UnitIds -> Seq(Handed)], NEW x \in UnitIds,
           \A u \in UnitIds : u # x => k2[u] = k[u],
           NEW piece \in Handed, LineBytes(k2[x], x) = LineBytes(k[x], x) \union PieceBytes(x, piece),
           \A b \in LineBytes(k[x], x) : b \notin PieceBytes(x, piece),
           IsFiniteSet(BytesIn(k2, UnitIds))
    PROVE  /\ IsFiniteSet(BytesIn(k, UnitIds))
           /\ Cardinality(BytesIn(k, UnitIds)) = Cardinality(BytesIn(k2, UnitIds)) - piece.size
<1>1. IsFiniteSet(PieceBytes(x, piece)) /\ Cardinality(PieceBytes(x, piece)) = piece.size
  BY SizeOfPiece
<1>2. BytesIn(k2, UnitIds) = BytesIn(k, UnitIds) \union PieceBytes(x, piece)
  BY OnePieceMore
<1>3. \A b \in BytesIn(k, UnitIds) : b \notin PieceBytes(x, piece)
  BY OnePieceMore
<1>4. IsFiniteSet(BytesIn(k, UnitIds) \union PieceBytes(x, piece))
  BY <1>2
<1> QED
  BY <1>1, <1>2, <1>3, <1>4, CountedLess

(* What is kept is counted, and of the units ahead within the room.        *)
CountedTo(k, n) == IsFiniteSet(BytesIn(k, UnitIds)) /\ n = Cardinality(BytesIn(k, UnitIds))
WithinRoom(ahead) == Cardinality(ahead) <= Room \/ \A b, c \in ahead : b[1] = c[1]

LEMMA FewerWithin ==
    ASSUME NEW A, NEW B, B \subseteq A, IsFiniteSet(A), WithinRoom(A)
    PROVE  WithinRoom(B)
<1>1. Cardinality(B) <= Cardinality(A) /\ Cardinality(B) \in Nat /\ Cardinality(A) \in Nat
  BY FS_Subset, FS_CardinalityType
<1>2. Room \in Nat
  BY TurnsAssumption
<1>3. CASE Cardinality(A) <= Room
  BY <1>1, <1>2, <1>3 DEF WithinRoom
<1>4. CASE \A b, c \in A : b[1] = c[1]
  BY <1>4 DEF WithinRoom
<1> QED
  BY <1>3, <1>4 DEF WithinRoom

LEMMA AheadKept ==
    ASSUME NEW k, NEW units \in SUBSET UnitIds
    PROVE  BytesIn(k, units) \subseteq BytesIn(k, UnitIds)
BY DEF BytesIn

LEMMA PutCounted ==
    ASSUME NEW k \in [UnitIds -> Seq(Handed)], NEW k2 \in [UnitIds -> Seq(Handed)], NEW x \in UnitIds,
           NEW piece \in Handed, k2[x] = Append(k[x], piece), \A u \in UnitIds : u # x => k2[u] = k[u],
           \A i \in 1..Len(k[x]) : k[x][i].nth # piece.nth,
           NEW n, CountedTo(k, n), NEW nx, WithinRoom(BytesIn(k, UnitIds \ {nx})),
           nx = x \/ n = 0 \/ n + piece.size <= Room
    PROVE  CountedTo(k2, n + piece.size) /\ WithinRoom(BytesIn(k2, UnitIds \ {nx}))
<1>1. IsFiniteSet(PieceBytes(x, piece)) /\ Cardinality(PieceBytes(x, piece)) = piece.size /\ piece.size \in Nat
  BY SizeOfPiece
<1>2. k[x] \in Seq(Handed) /\ k2[x] = Append(k[x], piece) /\ \A u \in UnitIds : u # x => k2[u] = k[u]
  OBVIOUS
<1>3. LineBytes(k2[x], x) = LineBytes(k[x], x) \union PieceBytes(x, piece) /\ \A b \in LineBytes(k[x], x) : b \notin PieceBytes(x, piece)
  <2>1. LineBytes(Append(k[x], piece), x) = LineBytes(k[x], x) \union PieceBytes(x, piece)
    BY <1>2, LongLineBytes
  <2>2. \A b \in LineBytes(k[x], x) : b \notin PieceBytes(x, piece)
    BY <1>2, OtherBytes
  <2> QED
    BY <1>2, <2>1, <2>2
<1>4. BytesIn(k2, UnitIds) = BytesIn(k, UnitIds) \union PieceBytes(x, piece)
  <2>1. LineBytes(k2[x], x) = LineBytes(k[x], x) \union PieceBytes(x, piece)
    BY <1>3
  <2>2. \A b \in LineBytes(k[x], x) : b \notin PieceBytes(x, piece)
    BY <1>3
  <2>3. \A u \in UnitIds : u # x => k2[u] = k[u]
    BY <1>2
  <2> QED
    BY <2>1, <2>2, <2>3, OnePieceMore
<1>5. /\ IsFiniteSet(BytesIn(k2, UnitIds))
      /\ Cardinality(BytesIn(k2, UnitIds)) = Cardinality(BytesIn(k, UnitIds)) + piece.size
  <2>1. LineBytes(k2[x], x) = LineBytes(k[x], x) \union PieceBytes(x, piece)
    BY <1>3
  <2>2. \A b \in LineBytes(k[x], x) : b \notin PieceBytes(x, piece)
    BY <1>3
  <2>3. \A u \in UnitIds : u # x => k2[u] = k[u]
    BY <1>2
  <2>4. IsFiniteSet(BytesIn(k, UnitIds))
    BY DEF CountedTo
  <2> QED
    BY <2>1, <2>2, <2>3, <2>4, MoreCounted
<1>6. CountedTo(k2, n + piece.size)
  BY <1>5 DEF CountedTo
<1>7. CASE nx = x
  <2>1. BytesIn(k2, UnitIds \ {nx}) = BytesIn(k, UnitIds \ {nx})
    <3>1. \A u \in UnitIds \ {nx} : k2[u] = k[u]
      BY <1>2, <1>7
    <3> QED
      BY <3>1, SameBytes
  <2> QED
    BY <1>6, <2>1
<1>8. CASE n = 0
  <2>1. BytesIn(k, UnitIds) = {}
    BY <1>8, FS_EmptySet DEF CountedTo
  <2>2. BytesIn(k2, UnitIds \ {nx}) \subseteq PieceBytes(x, piece)
    BY <1>4, <2>1, AheadKept
  <2>3. \A b \in PieceBytes(x, piece) : b[1] = <<x, piece.nth>>
    BY InPiece
  <2> QED
    BY <1>6, <2>2, <2>3 DEF WithinRoom
<1>9. CASE n + piece.size <= Room
  <2>1. WithinRoom(BytesIn(k2, UnitIds))
    BY <1>5, <1>9 DEF WithinRoom, CountedTo
  <2>2. BytesIn(k2, UnitIds \ {nx}) \subseteq BytesIn(k2, UnitIds)
    BY AheadKept
  <2>3. WithinRoom(BytesIn(k2, UnitIds \ {nx}))
    BY <1>5, <2>1, <2>2, FewerWithin
  <2> QED
    BY <1>6, <2>3
<1> QED
  BY <1>6, <1>7, <1>8, <1>9

LEMMA PlacedCounted ==
    ASSUME NEW k \in [UnitIds -> Seq(Handed)], NEW k2 \in [UnitIds -> Seq(Handed)], NEW nx \in UnitIds,
           k[nx] # <<>>, NEW piece \in Handed, piece = Head(k[nx]), InLine(k[nx], nx),
           k2[nx] = Tail(k[nx]), \A u \in UnitIds : u # nx => k2[u] = k[u],
           NEW nx2, ~piece.last => nx2 = nx, piece.last => k2[nx] = <<>>,
           NEW n, CountedTo(k, n), WithinRoom(BytesIn(k, UnitIds \ {nx}))
    PROVE  CountedTo(k2, n - piece.size) /\ WithinRoom(BytesIn(k2, UnitIds \ {nx2}))
<1>1. IsFiniteSet(PieceBytes(nx, piece)) /\ Cardinality(PieceBytes(nx, piece)) = piece.size /\ piece.size \in Nat
  BY SizeOfPiece
<1>2. k[nx] \in Seq(Handed) /\ k2[nx] \in Seq(Handed)
  OBVIOUS
<1>3. \A i \in 1..Len(k2[nx]) : k2[nx][i].nth # piece.nth
  <2>1. /\ Len(k[nx]) \in Nat /\ Len(k[nx]) >= 1 /\ piece = k[nx][1]
        /\ Len(k2[nx]) = Len(k[nx]) - 1 /\ \A i \in 1..Len(k2[nx]) : k2[nx][i] = k[nx][i + 1]
    BY <1>2, HeadTailProperties, EmptySeq, LenProperties
  <2>2. piece.nth \in Int
    BY DEF Handed
  <2> SUFFICES ASSUME NEW i \in 1..Len(k2[nx]) PROVE k2[nx][i].nth # piece.nth
    OBVIOUS
  <2>3. i + 1 \in 1..Len(k[nx]) /\ i + 1 > 1 /\ i + 1 \in Int /\ k2[nx][i] = k[nx][i + 1]
    BY <2>1
  <2>4. k[nx][i + 1].nth = piece.nth + (i + 1) - 1
    BY <2>1, <2>3 DEF InLine
  <2> QED
    BY <2>2, <2>3, <2>4
<1>4. LineBytes(k[nx], nx) = LineBytes(k2[nx], nx) \union PieceBytes(nx, piece) /\ \A b \in LineBytes(k2[nx], nx) : b \notin PieceBytes(nx, piece)
  <2>1. LineBytes(k[nx], nx) = LineBytes(Tail(k[nx]), nx) \union PieceBytes(nx, Head(k[nx]))
    BY <1>2, ShortLineBytes
  <2>2. \A b \in LineBytes(k2[nx], nx) : b \notin PieceBytes(nx, piece)
    BY <1>2, <1>3, OtherBytes
  <2> QED
    BY <2>1, <2>2
<1>5. /\ IsFiniteSet(BytesIn(k2, UnitIds))
      /\ Cardinality(BytesIn(k2, UnitIds)) = Cardinality(BytesIn(k, UnitIds)) - piece.size
  <2>1. LineBytes(k[nx], nx) = LineBytes(k2[nx], nx) \union PieceBytes(nx, piece)
    BY <1>4
  <2>2. \A b \in LineBytes(k2[nx], nx) : b \notin PieceBytes(nx, piece)
    BY <1>4
  <2>3. \A u \in UnitIds : u # nx => k[u] = k2[u]
    OBVIOUS
  <2>4. IsFiniteSet(BytesIn(k, UnitIds))
    BY DEF CountedTo
  <2> QED
    BY <2>1, <2>2, <2>3, <2>4, LessCounted
<1>6. CountedTo(k2, n - piece.size)
  BY <1>5 DEF CountedTo
<1>7. BytesIn(k2, UnitIds \ {nx2}) \subseteq BytesIn(k, UnitIds \ {nx})
  <2>1. CASE piece.last
    <3>1. LineBytes(k2[nx], nx) = {}
      BY <2>1, NoLineBytes
    <3> QED
      BY <3>1 DEF BytesIn
  <2>2. CASE ~piece.last
    <3>1. BytesIn(k2, UnitIds \ {nx}) = BytesIn(k, UnitIds \ {nx})
      <4>1. \A u \in UnitIds \ {nx} : k2[u] = k[u]
        OBVIOUS
      <4> QED
        BY <4>1, SameBytes
    <3> QED
      BY <2>2, <3>1
  <2> QED
    BY <2>1, <2>2
<1>8. IsFiniteSet(BytesIn(k, UnitIds \ {nx}))
  BY AheadKept, FS_Subset DEF CountedTo
<1> QED
  BY <1>6, <1>7, <1>8, FewerWithin

(* Of the units taken and not placed, each is open or made to its end; the *)
(* one whose turn it is waits only for who writes or goes to place more.   *)
NoneLost(k, op, un, nx, t) ==
    \A u \in UnitIds : nx <= u /\ u < t => \/ \E w \in op : un[w] = u
                                           \/ k[u] # <<>> /\ k[u][Len(k[u])].last
Drained(k, nx, busy) == nx \in UnitIds /\ k[nx] # <<>> => busy # {}

LEMMA AppendedWhole ==
    ASSUME NEW k \in [UnitIds -> Seq(Handed)], NEW k2, NEW op, NEW op2, NEW un, NEW nx, NEW t,
           NoneLost(k, op, un, nx, t), NEW w \in op, NEW x \in UnitIds, x = un[w], NEW piece \in Handed,
           k2[x] = Append(k[x], piece), \A u \in UnitIds : u # x => k2[u] = k[u],
           op2 = IF piece.last THEN op \ {w} ELSE op
    PROVE  NoneLost(k2, op2, un, nx, t)
<1>1. k2[x] # <<>> /\ k2[x][Len(k2[x])] = piece
  <2>1. k[x] \in Seq(Handed)
    OBVIOUS
  <2> QED
    BY <2>1, AppendProperties
<1> SUFFICES ASSUME NEW u \in UnitIds, nx <= u /\ u < t
             PROVE  (\E v \in op2 : un[v] = u) \/ (k2[u] # <<>> /\ k2[u][Len(k2[u])].last)
  BY DEF NoneLost
<1>2. CASE u = x
  <2>1. ~piece.last => w \in op2
    OBVIOUS
  <2> QED
    BY <1>1, <1>2, <2>1
<1>3. CASE u # x
  <2>1. (\E v \in op : un[v] = u) \/ (k[u] # <<>> /\ k[u][Len(k[u])].last)
    BY DEF NoneLost
  <2>2. \A v \in op : un[v] = u => v # w /\ v \in op2
    BY <1>3
  <2> QED
    BY <1>3, <2>1, <2>2
<1> QED
  BY <1>2, <1>3

LEMMA PlacedWhole ==
    ASSUME NEW k \in [UnitIds -> Seq(Handed)], NEW k2 \in [UnitIds -> Seq(Handed)], NEW op, NEW un,
           NEW nx \in UnitIds, NEW t, NoneLost(k, op, un, nx, t), k[nx] # <<>>,
           NEW piece \in Handed, piece = Head(k[nx]),
           k2[nx] = Tail(k[nx]), \A u \in UnitIds : u # nx => k2[u] = k[u],
           NEW nx2 \in Int, piece.last => nx2 = nx + 1, ~piece.last => nx2 = nx
    PROVE  NoneLost(k2, op, un, nx2, t)
<1>1. nx \in Int
  BY DEF UnitIds
<1> SUFFICES ASSUME NEW u \in UnitIds, nx2 <= u /\ u < t
             PROVE  (\E v \in op : un[v] = u) \/ (k2[u] # <<>> /\ k2[u][Len(k2[u])].last)
  BY DEF NoneLost
<1>2. u \in Int /\ nx2 \in {nx, nx + 1}
  BY DEF UnitIds
<1>3. nx <= u
  BY <1>1, <1>2
<1>4. (\E v \in op : un[v] = u) \/ (k[u] # <<>> /\ k[u][Len(k[u])].last)
  BY <1>3 DEF NoneLost
<1>5. CASE u = nx
  <2>1. ~piece.last
    BY <1>1, <1>5
  <2>2. /\ Len(k[nx]) \in Nat /\ Len(k[nx]) >= 1 /\ piece = k[nx][1] /\ Len(k2[nx]) = Len(k[nx]) - 1
        /\ \A i \in 1..Len(k2[nx]) : k2[nx][i] = k[nx][i + 1]
    <3>1. k[nx] \in Seq(Handed)
      OBVIOUS
    <3> QED
      BY <3>1, HeadTailProperties, EmptySeq, LenProperties
  <2>3. CASE k[nx][Len(k[nx])].last
    <3>1. Len(k[nx]) # 1
      BY <2>1, <2>2, <2>3
    <3>2. Len(k2[nx]) \in 1..Len(k2[nx]) /\ Len(k2[nx]) + 1 = Len(k[nx])
      BY <2>2, <3>1
    <3>3. k2[nx][Len(k2[nx])] = k[nx][Len(k[nx])]
      BY <2>2, <3>2
    <3>4. k2[nx] # <<>>
      <4>1. k2[nx] = <<>> => Len(k2[nx]) = 0
        BY EmptySeq
      <4>2. Len(k2[nx]) # 0
        BY <2>2, <3>1
      <4> QED
        BY <4>1, <4>2
    <3> QED
      BY <1>5, <2>3, <3>3, <3>4
  <2> QED
    BY <1>4, <1>5, <2>3
<1>6. CASE u # nx
  BY <1>4, <1>6
<1> QED
  BY <1>5, <1>6

LEMMA NoneLostMore ==
    ASSUME NEW k, NEW op, NEW un, NEW nx, NEW t, NoneLost(k, op, un, nx, t),
           NEW op2, NEW un2, op \subseteq op2, \A v \in op : un2[v] = un[v]
    PROVE  NoneLost(k, op2, un2, nx, t)
<1> SUFFICES ASSUME NEW u \in UnitIds, nx <= u /\ u < t
             PROVE  (\E v \in op2 : un2[v] = u) \/ (k[u] # <<>> /\ k[u][Len(k[u])].last)
  BY DEF NoneLost
<1>1. (\E v \in op : un[v] = u) \/ (k[u] # <<>> /\ k[u][Len(k[u])].last)
  BY DEF NoneLost
<1> QED
  BY <1>1

Busy == {w \in Writers : writer[w].pc \in {"writing", "handing"}}
EndedWriters == {w \in Writers : writer[w].pc = "ended"}

RoomNow == CountedTo(kept, bytes) /\ WithinRoom(BytesIn(kept, UnitIds \ {next}))
WholeNow == Failures = {} => NoneLost(kept, OpenNow, UnitNow, next, unitsTaken) /\ Drained(kept, next, Busy)
EndedNow == EndedWriters # {} => unitsTaken >= Units
RoomInv == RoomNow /\ WholeNow /\ EndedNow

(* Steps that leave the queue alone: no unit closes and no writer stops,   *)
(* unless a worker fails.                                                  *)
LEMMA RoomAlone ==
    ASSUME RoomInv, UNCHANGED <<unitsTaken, queue>>, EndedWriters' \subseteq EndedWriters,
           Failures' = {} => /\ Failures = {} /\ OpenNow \subseteq OpenNow' /\ Busy \subseteq Busy'
                             /\ \A w \in OpenNow : UnitNow'[w] = UnitNow[w]
    PROVE  RoomInv'
<1>1. next' = next /\ kept' = kept /\ bytes' = bytes /\ unitsTaken' = unitsTaken
  BY DEF queue
<1>2. RoomNow'
  BY <1>1 DEF RoomInv, RoomNow
<1>3. EndedNow'
  BY <1>1 DEF RoomInv, EndedNow
<1>4. ASSUME Failures' = {} PROVE NoneLost(kept', OpenNow', UnitNow', next', unitsTaken') /\ Drained(kept', next', Busy')
  <2>1. NoneLost(kept, OpenNow, UnitNow, next, unitsTaken) /\ Drained(kept, next, Busy)
    BY <1>4 DEF RoomInv, WholeNow
  <2>2. NoneLost(kept, OpenNow', UnitNow', next, unitsTaken)
    BY <1>4, <2>1, NoneLostMore
  <2>3. Drained(kept, next, Busy')
    BY <1>4, <2>1 DEF Drained
  <2> QED
    BY <1>1, <2>2, <2>3
<1>5. WholeNow'
  BY <1>4 DEF WholeNow
<1> QED
  BY <1>2, <1>3, <1>5 DEF RoomInv

LEMMA FailedRoom ==
    ASSUME TurnsInv, RoomInv, NEW w \in Writers, NEW step \in {"failing", "failed"}, RestAt(w, step),
           UNCHANGED <<unitsTaken, queue>>
    PROVE  RoomInv'
<1>1. /\ writer'[w].pc = step /\ \A v \in Writers : v # w => writer'[v] = writer[v]
  BY RestStep DEF TurnsInv
<1>2. Failures' # {} /\ EndedWriters' \subseteq EndedWriters
  BY <1>1 DEF Failures, EndedWriters
<1> QED
  BY <1>2, RoomAlone

LEMMA QuietRoom ==
    ASSUME TurnsInv, RoomInv, NEW w \in Writers, Make(w) \/ Write(w) \/ PutStops(w) \/ RaiseHalt(w) \/ FailPart(w)
    PROVE  RoomInv'
<1>1. UNCHANGED <<unitsTaken, queue>>
  BY DEF Make, Write, PutStops, RaiseHalt, FailPart, queue
<1>2. CASE PutStops(w) \/ RaiseHalt(w) \/ FailPart(w)
  <2>1. PICK step \in {"failing", "failed"} : RestAt(w, step)
    BY <1>2 DEF PutStops, RaiseHalt, FailPart
  <2> QED
    BY <1>1, <2>1, FailedRoom
<1>3. CASE Make(w)
  <2>1. PICK m \in [unit : {writer[w].made.unit}, nth : {writer[w].made.nth + 1}, size : Sizes, last : BOOLEAN] :
            Set(w, [pc |-> "putting", made |-> m])
    BY <1>3 DEF Make
  <2>2. writer[w].pc = "making" /\ writer \in [Writers -> [pc : WriterSteps, made : MadeNow]]
    BY <1>3 DEF Make, Is, TurnsInv, WritersTyped
  <2>3. /\ writer'[w] = [pc |-> "putting", made |-> m] /\ \A v \in Writers : v # w => writer'[v] = writer[v]
    BY <2>1, <2>2 DEF Set
  <2>4. writer'[w].pc = "putting" /\ writer'[w].made.unit = writer[w].made.unit
    BY <2>1, <2>3
  <2> QED
    BY <1>1, <2>2, <2>3, <2>4, RoomAlone DEF OpenNow, UnitNow, Failures, Busy, EndedWriters
<1>4. CASE Write(w)
  <2>1. writer[w].pc = "writing" /\ To(w, "handing") /\ writer[w].made.unit \in UnitIds
    BY <1>4 DEF Write, Is, TurnsInv, WritersTyped
  <2>2. /\ writer'[w].pc = "handing" /\ writer'[w].made = writer[w].made
        /\ \A v \in Writers : v # w => writer'[v] = writer[v]
    BY <2>1, ToStep DEF TurnsInv, WriterSteps
  <2> QED
    BY <1>1, <2>1, <2>2, RoomAlone DEF OpenNow, UnitNow, Failures, Busy, EndedWriters
<1> QED
  BY <1>2, <1>3, <1>4

LEMMA BeginRoom ==
    ASSUME TurnsInv, RoomInv, BeginWriting
    PROVE  RoomInv'
<1>1. /\ \A w \in Writers : writer[w].pc = "idle" /\ writer'[w].pc = "free"
      /\ UNCHANGED <<unitsTaken, queue>>
  BY DEF BeginWriting, Is, TurnsInv, WritersTyped, queue
<1>2. Failures = {} /\ OpenNow = {} /\ Busy = {} /\ EndedWriters' = {}
  BY <1>1 DEF Failures, OpenNow, Busy, EndedWriters
<1> QED
  BY <1>1, <1>2, RoomAlone

LEMMA SameRoom ==
    ASSUME RoomInv, UNCHANGED <<writer, unitsTaken, queue>>
    PROVE  RoomInv'
<1>1. Failures' = Failures /\ OpenNow' = OpenNow /\ UnitNow' = UnitNow /\ Busy' = Busy /\ EndedWriters' = EndedWriters
  BY DEF Failures, OpenNow, UnitNow, Busy, EndedWriters
<1> QED
  BY <1>1, RoomAlone DEF queue

(* The unit taken is open, unless there was none or the worker stops.      *)
LEMMA TakeRoom ==
    ASSUME TurnsInv, RoomInv, NEW w \in Writers, TakeUnit(w)
    PROVE  RoomInv'
<1>1. /\ writer[w].pc = "free" /\ unitsTaken' = unitsTaken + 1 /\ next' = next /\ kept' = kept /\ bytes' = bytes
      /\ unitsTaken \in Int /\ Units \in Int
  BY TurnsAssumption DEF TakeUnit, Is, queue, TurnsInv, QueueTyped
<1>2. RoomNow'
  BY <1>1 DEF RoomInv, RoomNow
<1>3. CASE unitsTaken < Units /\ RestAt(w, "failing")
  <2>1. writer'[w].pc = "failing" /\ \A v \in Writers : v # w => writer'[v] = writer[v]
    BY <1>3, RestStep DEF TurnsInv
  <2>2. Failures' # {} /\ EndedWriters' = EndedWriters
    BY <1>1, <2>1 DEF Failures, EndedWriters
  <2>3. EndedNow'
    BY <1>1, <2>2 DEF RoomInv, EndedNow
  <2> QED
    BY <1>2, <2>2, <2>3 DEF RoomInv, WholeNow
<1>4. ASSUME NEW u, u = unitsTaken, u >= Units \/ (w \in OpenNow' /\ UnitNow'[w] = u),
             OpenNow \subseteq OpenNow', \A v \in OpenNow : UnitNow'[v] = UnitNow[v], Busy \subseteq Busy',
             Failures' = Failures
      PROVE  WholeNow'
  <2> SUFFICES ASSUME Failures' = {}
               PROVE  NoneLost(kept, OpenNow', UnitNow', next, unitsTaken + 1) /\ Drained(kept, next, Busy')
    BY <1>1 DEF WholeNow
  <2>1. NoneLost(kept, OpenNow, UnitNow, next, unitsTaken) /\ Drained(kept, next, Busy)
    BY <1>4 DEF RoomInv, WholeNow
  <2>2. NoneLost(kept, OpenNow', UnitNow', next, unitsTaken)
    BY <1>4, <2>1, NoneLostMore
  <2>3. Drained(kept, next, Busy')
    BY <1>4, <2>1 DEF Drained
  <2>4. ASSUME NEW x \in UnitIds, next <= x, x < unitsTaken + 1
        PROVE  (\E v \in OpenNow' : UnitNow'[v] = x) \/ (kept[x] # <<>> /\ kept[x][Len(kept[x])].last)
    <3>1. x < unitsTaken \/ (x = u /\ ~(u >= Units))
      BY <1>1, <1>4, <2>4 DEF UnitIds
    <3>2. CASE x < unitsTaken
      BY <2>2, <2>4, <3>2 DEF NoneLost
    <3>3. CASE x = u /\ ~(u >= Units)
      BY <1>4, <3>3
    <3> QED
      BY <3>1, <3>2, <3>3
  <2> QED
    BY <2>3, <2>4 DEF NoneLost
<1>5. CASE unitsTaken >= Units /\ RestAt(w, "ended")
  <2>1. writer'[w].pc = "ended" /\ \A v \in Writers : v # w => writer'[v] = writer[v]
    BY <1>5, RestStep DEF TurnsInv
  <2>2. /\ OpenNow \subseteq OpenNow' /\ Busy \subseteq Busy' /\ Failures' = Failures
        /\ \A v \in OpenNow : UnitNow'[v] = UnitNow[v]
    BY <1>1, <2>1 DEF OpenNow, UnitNow, Busy, Failures
  <2>3. WholeNow'
    BY <1>4, <1>5, <2>2
  <2>4. EndedNow'
    BY <1>1, <1>5 DEF EndedNow
  <2> QED
    BY <1>2, <2>3, <2>4 DEF RoomInv
<1>6. CASE unitsTaken < Units /\ Set(w, [pc |-> "making", made |-> NothingOf(unitsTaken)])
  <2>1. /\ writer'[w].pc = "making" /\ writer'[w].made = NothingOf(unitsTaken)
        /\ \A v \in Writers : v # w => writer'[v] = writer[v]
    BY <1>6 DEF Set, TurnsInv, WritersTyped
  <2>2. /\ OpenNow \subseteq OpenNow' /\ Busy \subseteq Busy' /\ Failures' = Failures /\ EndedWriters' = EndedWriters
        /\ \A v \in OpenNow : UnitNow'[v] = UnitNow[v]
    BY <1>1, <2>1 DEF OpenNow, UnitNow, Busy, Failures, EndedWriters
  <2>3. w \in OpenNow' /\ UnitNow'[w] = unitsTaken
    BY <2>1 DEF OpenNow, UnitNow, NothingOf
  <2>4. WholeNow'
    BY <1>4, <2>2, <2>3
  <2>5. EndedNow'
    BY <1>1, <2>2 DEF RoomInv, EndedNow
  <2> QED
    BY <1>2, <2>4, <2>5 DEF RoomInv
<1> QED
  BY <1>1, <1>3, <1>5, <1>6 DEF TakeUnit

(* The piece whose turn it is, of the queue k, leaves it; w goes on.       *)
LEMMA PlaceNextRoom ==
    ASSUME TurnsInv, TurnsInv', EndedNow, NEW w \in Writers, writer[w].pc \in {"putting", "handing"}, UNCHANGED unitsTaken,
           NEW k \in [UnitIds -> Seq(Handed)], NEW waiting, NEW op,
           op = IF writer[w].made.last THEN OpenNow \ {w} ELSE OpenNow \union {w},
           LinesRight(k, next, sink, Failures, unitsTaken),
           CountedTo(k, waiting), WithinRoom(BytesIn(k, UnitIds \ {next})),
           Failures = {} => NoneLost(k, op, UnitNow, next, unitsTaken),
           PlaceNext(w, k, waiting)
    PROVE  RoomInv'
<1>1. WritersTyped /\ writer[w].made.unit \in UnitIds /\ next \in Int /\ next' \in Int /\ unitsTaken' = unitsTaken
  BY DEF TurnsInv, QueueTyped, WritersTyped
(* After a step that fails, or closes no unit but its own once made.       *)
<1>2. ASSUME \A v \in Writers : v # w => writer'[v] = writer[v], writer'[w].pc # "ended",
             RoomNow',
             Failures' = {} => /\ writer'[w].pc \in {"writing", "making", "free"}
                               /\ writer'[w].pc \in {"writing", "making"} => writer'[w].made = writer[w].made
                               /\ writer'[w].pc = "free" => writer[w].made.last
                               /\ Failures = {} => NoneLost(kept', op, UnitNow, next', unitsTaken)
                               /\ Drained(kept', next', Busy')
      PROVE  RoomInv'
  <2>1. EndedWriters' \subseteq EndedWriters
    BY <1>2 DEF EndedWriters
  <2>2. EndedNow'
    BY <1>1, <2>1 DEF EndedNow
  <2>3. ASSUME Failures' = {} PROVE NoneLost(kept', OpenNow', UnitNow', next', unitsTaken') /\ Drained(kept', next', Busy')
    <3>1. Failures = {}
      BY <1>2, <2>3 DEF Failures
    <3>2. op \subseteq OpenNow' /\ \A v \in op : UnitNow'[v] = UnitNow[v]
      BY <1>2, <2>3 DEF OpenNow, UnitNow
    <3>3. NoneLost(kept', op, UnitNow, next', unitsTaken)
      BY <1>2, <2>3, <3>1
    <3>4. NoneLost(kept', OpenNow', UnitNow', next', unitsTaken)
      BY <3>2, <3>3, NoneLostMore
    <3> QED
      BY <1>1, <1>2, <2>3, <3>4
  <2>4. WholeNow'
    BY <2>3 DEF WholeNow
  <2> QED
    BY <1>2, <2>2, <2>4 DEF RoomInv
<1>3. CASE next \in UnitIds /\ k[next] # <<>>
  <2>1. PICK piece : piece = Head(k[next])
    OBVIOUS
  <2>2. PICK k2 : k2 = [k EXCEPT ![next] = Tail(k[next])]
    OBVIOUS
  <2>3. /\ kept' = k2 /\ bytes' = waiting - piece.size /\ (piece.last => next' = next + 1) /\ (~piece.last => next' = next)
        /\ \/ To(w, "writing")
           \/ RestAt(w, "failing")
    BY <1>3, <2>1, <2>2 DEF PlaceNext
  <2>4. piece \in Handed /\ Tail(k[next]) \in Seq(Handed)
    <3>1. k[next] \in Seq(Handed)
      BY <1>3
    <3> QED
      BY <1>3, <2>1, <3>1, HeadTailProperties
  <2>5. k2 \in [UnitIds -> Seq(Handed)] /\ k2[next] = Tail(k[next]) /\ \A u \in UnitIds : u # next => k2[u] = k[u]
    BY <1>3, <2>2, <2>4
  <2>6. InLine(k[next], next)
    BY <1>3 DEF LinesRight
  <2>7. piece.last => k2[next] = <<>>
    <3>1. \A u \in UnitIds : u < next' => k2[u] = <<>>
      BY <2>3 DEF TurnsInv, LinesNow, LinesRight
    <3> QED
      BY <1>1, <1>3, <2>3, <3>1
  <2>8. RoomNow'
    <3>1. CountedTo(k2, waiting - piece.size) /\ WithinRoom(BytesIn(k2, UnitIds \ {next'}))
      <4>1. PICK nx2 : nx2 = next'
        OBVIOUS
      <4>2. ~piece.last => nx2 = next
        BY <2>3, <4>1
      <4>3. CountedTo(k2, waiting - piece.size) /\ WithinRoom(BytesIn(k2, UnitIds \ {nx2}))
        BY <1>3, <2>1, <2>4, <2>5, <2>6, <2>7, <4>2, PlacedCounted
      <4> QED
        BY <4>1, <4>3
    <3> QED
      BY <2>3, <3>1 DEF RoomNow
  <2>9. Failures = {} => NoneLost(kept', op, UnitNow, next', unitsTaken)
    <3> SUFFICES ASSUME Failures = {} PROVE NoneLost(kept', op, UnitNow, next', unitsTaken)
      OBVIOUS
    <3>1. NoneLost(k, op, UnitNow, next, unitsTaken)
      OBVIOUS
    <3>2. PICK nx2 : nx2 = next'
      OBVIOUS
    <3>3. nx2 \in Int /\ (piece.last => nx2 = next + 1) /\ (~piece.last => nx2 = next)
      BY <1>1, <2>3, <3>2
    <3>4. NoneLost(k2, op, UnitNow, nx2, unitsTaken)
      BY <1>3, <2>1, <2>4, <2>5, <3>1, <3>3, PlacedWhole
    <3> QED
      BY <2>3, <3>2, <3>4
  <2>10. CASE To(w, "writing")
    <3>1. /\ writer'[w].pc = "writing" /\ writer'[w].made = writer[w].made
          /\ \A v \in Writers : v # w => writer'[v] = writer[v]
      BY <1>1, <2>10, ToStep DEF WriterSteps
    <3>2. Drained(kept', next', Busy')
      BY <3>1 DEF Drained, Busy
    <3> QED
      BY <1>2, <2>8, <2>9, <3>1, <3>2
  <2>11. CASE RestAt(w, "failing")
    <3>1. writer'[w].pc = "failing" /\ \A v \in Writers : v # w => writer'[v] = writer[v]
      BY <1>1, <2>11, RestStep
    <3>2. Failures' # {}
      BY <3>1 DEF Failures
    <3> QED
      BY <1>2, <2>8, <3>1, <3>2
  <2> QED
    BY <2>3, <2>10, <2>11
<1>4. CASE ~(next \in UnitIds /\ k[next] # <<>>)
  <2>1. kept' = k /\ bytes' = waiting /\ next' = next /\ GoOnMaking(w)
    BY <1>4 DEF PlaceNext
  <2>2. RoomNow'
    BY <2>1 DEF RoomNow
  <2>3. Drained(kept', next', Busy')
    BY <1>4, <2>1 DEF Drained
  <2>4. Failures = {} => NoneLost(kept', op, UnitNow, next', unitsTaken)
    BY <2>1
  <2>5. CASE writer[w].made.last
    <3>1. writer'[w].pc = "free" /\ \A v \in Writers : v # w => writer'[v] = writer[v]
      BY <1>1, <2>1, <2>5, RestStep DEF GoOnMaking
    <3> QED
      BY <1>2, <2>2, <2>3, <2>4, <2>5, <3>1
  <2>6. CASE ~writer[w].made.last
    <3>1. /\ writer'[w].pc = "making" /\ writer'[w].made = writer[w].made
          /\ \A v \in Writers : v # w => writer'[v] = writer[v]
      BY <1>1, <2>1, <2>6, ToStep DEF GoOnMaking, WriterSteps
    <3> QED
      BY <1>2, <2>2, <2>3, <2>4, <3>1
  <2> QED
    BY <2>5, <2>6
<1> QED
  BY <1>3, <1>4

LEMMA PlaceMoreRoom ==
    ASSUME TurnsInv, TurnsInv', RoomInv, NEW w \in Writers, PlaceMore(w)
    PROVE  RoomInv'
<1>1. writer[w].pc = "handing" /\ PlaceNext(w, kept, bytes) /\ UNCHANGED unitsTaken
  BY DEF PlaceMore, Is
<1>2. kept \in [UnitIds -> Seq(Handed)] /\ LinesRight(kept, next, sink, Failures, unitsTaken)
  BY DEF TurnsInv, QueueTyped, LinesNow
<1>3. OpenNow = IF writer[w].made.last THEN OpenNow \ {w} ELSE OpenNow \union {w}
  BY <1>1 DEF OpenNow
<1>4. CountedTo(kept, bytes) /\ WithinRoom(BytesIn(kept, UnitIds \ {next})) /\ EndedNow
  BY DEF RoomInv, RoomNow
<1>5. Failures = {} => NoneLost(kept, OpenNow, UnitNow, next, unitsTaken)
  BY DEF RoomInv, WholeNow
<1> QED
  BY <1>1, <1>2, <1>3, <1>4, <1>5, PlaceNextRoom

LEMMA PutRoom ==
    ASSUME TurnsInv, TurnsInv', RoomInv, NEW w \in Writers, Put(w)
    PROVE  RoomInv'
<1>1. PICK piece : piece = writer[w].made
  OBVIOUS
<1>2. PICK k : k = WithPut(w)
  OBVIOUS
<1>3. PICK x : x = UnitNow[w]
  OBVIOUS
<1>4. writer[w].pc = "putting" /\ UNCHANGED unitsTaken /\ FitsKept(piece)
  BY <1>1 DEF Put, Is
<1>5. /\ piece \in Handed /\ piece.nth \in Int /\ x \in UnitIds
      /\ w \in OpenNow /\ x = piece.unit /\ PutNow[w] \in Int /\ PutNow[w] + 1 = piece.nth
      /\ k \in [UnitIds -> Seq(Handed)] /\ PlaceNext(w, k, bytes + piece.size)
      /\ LinesRight(k, next, sink, Failures, unitsTaken)
  BY <1>1, <1>2, <1>3, PutInLine
<1>6. kept \in [UnitIds -> Seq(Handed)] /\ kept[x] \in Seq(Handed)
  BY <1>5 DEF TurnsInv, QueueTyped
<1>7. k[x] = Append(kept[x], piece) /\ \A u \in UnitIds : u # x => k[u] = kept[u]
  BY <1>1, <1>2, <1>3, <1>5, <1>6 DEF WithPut
<1>8. \A i \in 1..Len(kept[x]) : kept[x][i].nth # piece.nth
  <2> SUFFICES ASSUME NEW i \in 1..Len(kept[x]) PROVE kept[x][i].nth # piece.nth
    OBVIOUS
  <2>1. Len(kept[x]) \in Nat /\ Len(kept[x]) >= 1
    BY <1>6, LenProperties
  <2>2. kept[x] # <<>>
    BY <2>1, EmptySeq
  <2>3. InLine(kept[x], x)
    BY <1>5 DEF TurnsInv, LinesNow, LinesRight
  <2>4. kept[x][1].nth \in Int /\ kept[x][Len(kept[x])].nth + 1 = kept[x][1].nth + Len(kept[x])
    BY <1>6, <2>2, <2>3, LineNumbers
  <2>5. kept[x][Len(kept[x])].nth = PutNow[w]
    BY <1>3, <1>5, <2>2 DEF TurnsInv, HandsNow, HandsRight
  <2>6. kept[x][i].nth = kept[x][1].nth + i - 1
    BY <2>3 DEF InLine
  <2>7. piece.nth = kept[x][1].nth + Len(kept[x])
    BY <1>5, <2>4, <2>5
  <2> QED
    BY <2>1, <2>4, <2>6, <2>7
<1>9. CountedTo(k, bytes + piece.size) /\ WithinRoom(BytesIn(k, UnitIds \ {next}))
  <2>1. CountedTo(kept, bytes) /\ WithinRoom(BytesIn(kept, UnitIds \ {next}))
    BY DEF RoomInv, RoomNow
  <2>2. next = x \/ bytes = 0 \/ bytes + piece.size <= Room
    BY <1>4, <1>5 DEF FitsKept
  <2> QED
    BY <1>5, <1>6, <1>7, <1>8, <2>1, <2>2, PutCounted
<1> DEFINE op == IF piece.last THEN OpenNow \ {w} ELSE OpenNow
<1>10. Failures = {} => NoneLost(k, op, UnitNow, next, unitsTaken)
  <2> SUFFICES ASSUME Failures = {} PROVE NoneLost(k, op, UnitNow, next, unitsTaken)
    OBVIOUS
  <2>1. NoneLost(kept, OpenNow, UnitNow, next, unitsTaken)
    BY DEF RoomInv, WholeNow
  <2> QED
    BY <1>3, <1>5, <1>6, <1>7, <2>1, AppendedWhole
<1>11. op = IF writer[w].made.last THEN OpenNow \ {w} ELSE OpenNow \union {w}
  BY <1>1, <1>5
<1> HIDE DEF op
<1>12. writer[w].pc \in {"putting", "handing"} /\ UNCHANGED unitsTaken /\ EndedNow
  BY <1>4 DEF RoomInv
<1>13. k \in [UnitIds -> Seq(Handed)] /\ LinesRight(k, next, sink, Failures, unitsTaken)
  BY <1>5
<1>14. PlaceNext(w, k, bytes + piece.size)
  BY <1>5
<1> QED
  BY <1>9, <1>10, <1>11, <1>12, <1>13, <1>14, PlaceNextRoom

LEMMA RoomStart == TurnsInit => RoomInv
<1> SUFFICES ASSUME TurnsInit PROVE RoomInv
  OBVIOUS
<1>1. /\ \A w \in Writers : writer[w].pc = "idle"
      /\ unitsTaken = 0 /\ next = 0 /\ bytes = 0 /\ kept = [u \in UnitIds |-> <<>>]
  BY DEF TurnsInit
<1>2. BytesIn(kept, UnitIds) = {}
  BY <1>1, NoLineBytes DEF BytesIn
<1>3. RoomNow
  <2>1. BytesIn(kept, UnitIds \ {next}) = {}
    BY <1>2, AheadKept
  <2> QED
    BY <1>1, <1>2, <2>1, FS_EmptySet DEF RoomNow, CountedTo, WithinRoom
<1>4. WholeNow
  BY <1>1 DEF WholeNow, NoneLost, Drained, UnitIds
<1>5. EndedNow
  BY <1>1 DEF EndedNow, EndedWriters
<1> QED
  BY <1>3, <1>4, <1>5 DEF RoomInv

LEMMA RoomStep ==
    ASSUME TurnsInv, RoomInv, [TurnsNext]_turnsVars
    PROVE  RoomInv'
<1>1. TurnsInv'
  BY TurnsStepKeeps
<1>2. CASE BeginWriting
  BY <1>2, BeginRoom
<1>3. CASE AskStop \/ UNCHANGED turnsVars
  <2>1. UNCHANGED <<writer, unitsTaken, queue>>
    BY <1>3 DEF AskStop, turnsVars, queue
  <2> QED
    BY <2>1, SameRoom
<1>4. CASE \E w \in Writers : WriterStep(w) \/ FailPart(w)
  <2>1. PICK w \in Writers : WriterStep(w) \/ FailPart(w)
    BY <1>4
  <2>2. CASE TakeUnit(w)
    BY <2>2, TakeRoom
  <2>3. CASE Make(w) \/ Write(w) \/ PutStops(w) \/ RaiseHalt(w) \/ FailPart(w)
    BY <2>3, QuietRoom
  <2>4. CASE Put(w)
    BY <1>1, <2>4, PutRoom
  <2>5. CASE PlaceMore(w)
    BY <1>1, <2>5, PlaceMoreRoom
  <2> QED
    BY <2>1, <2>2, <2>3, <2>4, <2>5 DEF WriterStep
<1> QED
  BY <1>2, <1>3, <1>4 DEF TurnsNext

LEMMA RoomInvariant == TurnsSpec => [](TurnsInv /\ RoomInv)
<1>1. TurnsInit => TurnsInv /\ RoomInv
  BY TurnsStart, RoomStart
<1>2. TurnsInv /\ RoomInv /\ [TurnsNext]_turnsVars => (TurnsInv /\ RoomInv)'
  BY TurnsStepKeeps, RoomStep
<1> QED
  BY <1>1, <1>2, PTL DEF TurnsSpec

(* What is kept is counted, ahead of its turn within the room or of one    *)
(* piece; and a pass whose workers all ended well placed every unit and    *)
(* keeps nothing: of the units taken none is lost, and a piece whose turn  *)
(* it is always has a writer that will come to it.                         *)
THEOREM AlwaysKeptWithinRoom == TurnsSpec => []KeptWithinRoom
<1>1. ASSUME TurnsInv, RoomInv PROVE KeptWithinRoom
  <2>1. /\ bytes = Cardinality(BytesOf(UnitIds))
        /\ \/ Cardinality(BytesOf(UnitIds \ {next})) <= Room
           \/ \A b, c \in BytesOf(UnitIds \ {next}) : b[1] = c[1]
    BY <1>1, BytesNow DEF RoomInv, RoomNow, CountedTo, WithinRoom
  <2>2. ASSUME \A w \in Writers : Is(w, "ended")
        PROVE  next = Units /\ sink.unit = Units - 1 /\ sink.last /\ \A u \in UnitIds : kept[u] = <<>>
    <3>1. Failures = {} /\ OpenNow = {} /\ Busy = {} /\ EndedWriters # {}
      BY <2>2, TurnsAssumption DEF Is, Failures, OpenNow, Busy, EndedWriters
    <3>2. /\ unitsTaken >= Units /\ NoneLost(kept, OpenNow, UnitNow, next, unitsTaken) /\ Drained(kept, next, Busy)
      BY <1>1, <3>1 DEF RoomInv, WholeNow, EndedNow
    <3>3. /\ next \in Int /\ next <= Units /\ unitsTaken \in Int /\ Units \in Int
          /\ next \in {unitsTaken, Units} => Comes(sink, next, 1, Failures)
          /\ \A u \in UnitIds : u < next => kept[u] = <<>>
          /\ sink \in Handed \union {NoPiece}
      BY <1>1, TurnsAssumption DEF TurnsInv, QueueTyped, LinesNow, LinesRight
    <3>4. next = Units
      <4> SUFFICES ASSUME next # Units PROVE FALSE
        OBVIOUS
      <4>1. next < Units /\ next < unitsTaken
        BY <3>2, <3>3
      <4>2. next \in Nat
        BY <1>1 DEF TurnsInv, QueueTyped
      <4>3. next >= 0
        BY <4>2
      <4>4. next \in UnitIds
        BY <3>3, <4>1, <4>3 DEF UnitIds
      <4>5. kept[next] # <<>>
        BY <3>1, <3>2, <3>3, <4>1, <4>4 DEF NoneLost
      <4> QED
        BY <3>1, <3>2, <4>4, <4>5 DEF Drained
    <3>5. Comes(sink, Units, 1, Failures)
      BY <3>3, <3>4
    <3>6. sink.unit \in Int /\ sink.unit < Units /\ sink.unit + 1 = Units /\ sink.last
      <4>1. sink.unit \in Int /\ sink.unit < Units
        BY <3>3, TurnsAssumption, NoPieceIs DEF Handed, UnitIds
      <4> QED
        BY <3>1, <3>3, <3>5, <4>1 DEF Comes
    <3>7. \A u \in UnitIds : kept[u] = <<>>
      BY <3>3, <3>4 DEF UnitIds
    <3> QED
      BY <3>3, <3>4, <3>6, <3>7
  <2> QED
    BY <2>1, <2>2 DEF KeptWithinRoom
<1> QED
  BY <1>1, RoomInvariant, PTL
-----------------------------------------------------------------------------
(* The types of Turns: a unit has MaxPieces pieces at most, which its maker *)
(* counts, and each worker takes one unit too many at most, as it ends.    *)
Numbered(r) ==
    /\ r.made.nth <= MaxPieces
    /\ r.pc = "making" => r.made.nth < MaxPieces
    /\ r.made.last # TRUE => r.made.nth < MaxPieces

NumbersNow == \A w \in Writers : Numbered(writer[w])
PiecesNow == kept \in [UnitIds -> Seq(Pieces)] /\ sink \in Pieces \union {NoPiece}
TakenNow == unitsTaken <= Units \/ unitsTaken <= Units + Cardinality(EndedWriters)
TurnsTypesInv == NumbersNow /\ PiecesNow /\ TakenNow /\ halt \in BOOLEAN

LEMMA NumberedRest ==
    ASSUME NEW r, r.made = NoPiece, r.pc # "making"
    PROVE  Numbered(r)
<1>1. r.made.nth = 0 /\ r.made.last = TRUE /\ r.pc # "making"
  BY NoPieceIs
<1>2. 0 <= MaxPieces
  BY TurnsAssumption
<1>3. r.made.nth <= MaxPieces
  BY <1>1, <1>2
<1> QED
  BY <1>1, <1>3 DEF Numbered

(* A step of one worker counts no unit but as it ends.                     *)
LEMMA TypesKept ==
    ASSUME TurnsInv, TurnsTypesInv, NEW w \in Writers, \A v \in Writers : v # w => writer'[v] = writer[v],
           Numbered(writer'[w]), writer[w].pc # "ended", PiecesNow',
           unitsTaken' = unitsTaken, halt' \in BOOLEAN
    PROVE  TurnsTypesInv'
<1>1. NumbersNow'
  BY DEF TurnsTypesInv, NumbersNow
<1>2. EndedWriters \subseteq EndedWriters' /\ IsFiniteSet(EndedWriters')
  <2>1. IsFiniteSet(EndedWriters')
    BY FS_Subset, TurnsAssumption DEF EndedWriters
  <2> QED
    BY <2>1 DEF EndedWriters
<1>3. Cardinality(EndedWriters) <= Cardinality(EndedWriters') /\ Cardinality(EndedWriters) \in Nat /\ Cardinality(EndedWriters') \in Nat
  BY <1>2, FS_Subset, FS_CardinalityType
<1>4. TakenNow'
  <2>1. unitsTaken \in Nat /\ Units \in Nat /\ unitsTaken' = unitsTaken
    BY TurnsAssumption DEF TurnsInv, QueueTyped
  <2>2. unitsTaken <= Units \/ unitsTaken <= Units + Cardinality(EndedWriters)
    BY DEF TurnsTypesInv, TakenNow
  <2>3. unitsTaken <= Units \/ unitsTaken <= Units + Cardinality(EndedWriters')
    BY <1>3, <2>1, <2>2
  <2> QED
    BY <2>1, <2>3 DEF TakenNow
<1> QED
  BY <1>1, <1>4 DEF TurnsTypesInv

LEMMA RestTypes ==
    ASSUME TurnsInv, TurnsTypesInv, NEW w \in Writers, NEW step \in {"free", "failing", "failed"}, RestAt(w, step),
           writer[w].pc # "ended", PiecesNow', unitsTaken' = unitsTaken, halt' \in BOOLEAN
    PROVE  TurnsTypesInv'
<1>1. writer'[w].pc = step /\ writer'[w].made = NoPiece /\ \A v \in Writers : v # w => writer'[v] = writer[v]
  BY RestStep DEF TurnsInv
<1>2. Numbered(writer'[w])
  BY <1>1, NumberedRest
<1> QED
  BY <1>1, <1>2, TypesKept

LEMMA ToTypes ==
    ASSUME TurnsInv, TurnsTypesInv, NEW w \in Writers, NEW step \in {"making", "writing", "handing"}, To(w, step),
           writer[w].made.unit \in UnitIds, step = "making" => writer[w].made.last # TRUE,
           writer[w].pc # "ended", PiecesNow', unitsTaken' = unitsTaken, halt' \in BOOLEAN
    PROVE  TurnsTypesInv'
<1>1. writer'[w].pc = step /\ writer'[w].made = writer[w].made /\ \A v \in Writers : v # w => writer'[v] = writer[v]
  BY ToStep DEF TurnsInv, WriterSteps
<1>2. Numbered(writer'[w])
  BY <1>1 DEF TurnsTypesInv, NumbersNow, Numbered
<1> QED
  BY <1>1, <1>2, TypesKept

LEMMA MakeTypes ==
    ASSUME TurnsInv, TurnsTypesInv, NEW w \in Writers, Make(w)
    PROVE  TurnsTypesInv'
<1>1. PICK size \in Sizes, last \in BOOLEAN :
         /\ writer[w].made.nth + 1 = MaxPieces => last
         /\ Set(w, [pc |-> "putting", made |-> [unit |-> writer[w].made.unit, nth |-> writer[w].made.nth + 1,
                                             size |-> size, last |-> last]])
  BY DEF Make
<1>2. writer[w].pc = "making" /\ UNCHANGED <<unitsTaken, queue, halt>> /\ writer[w].made.unit \in UnitIds
      /\ writer[w] \in [pc : WriterSteps, made : MadeNow]
  BY DEF Make, Is, TurnsInv, WritersTyped
<1> DEFINE m == [unit |-> writer[w].made.unit, nth |-> writer[w].made.nth + 1, size |-> size, last |-> last]
           r == [pc |-> "putting", made |-> m]
<1>3. m \in Handed /\ m \in MadeNow /\ m.nth = writer[w].made.nth + 1 /\ m.nth >= 1 /\ m.last = last
      /\ m.unit \in UnitIds /\ writer[w].made.nth \in Nat
  BY <1>2 DEF Handed, MadeNow
<1> HIDE DEF m
<1>4. r \in [pc : WriterSteps, made : MadeNow] /\ r.pc = "putting" /\ r.made = m
  BY <1>3 DEF WriterSteps
<1>5. Set(w, r)
  BY <1>1 DEF m
<1> HIDE DEF r
<1>6. writer'[w] = r /\ \A v \in Writers : v # w => writer'[v] = writer[v]
  BY <1>2, <1>3, <1>4, <1>5, SetOne DEF TurnsInv
<1>7. writer[w].made.nth < MaxPieces /\ MaxPieces \in Nat
  BY <1>2, TurnsAssumption DEF TurnsTypesInv, NumbersNow, Numbered
<1>8. m.nth <= MaxPieces /\ (m.nth # MaxPieces => m.nth < MaxPieces)
  BY <1>3, <1>7
<1>9. m.last # TRUE => m.nth # MaxPieces
  BY <1>1, <1>3
<1>10. Numbered(r)
  BY <1>4, <1>8, <1>9 DEF Numbered
<1>11. PiecesNow'
  BY <1>2 DEF TurnsTypesInv, PiecesNow, queue
<1>12. unitsTaken' = unitsTaken /\ halt' \in BOOLEAN /\ writer[w].pc # "ended"
  BY <1>2 DEF TurnsTypesInv
<1> QED
  BY <1>6, <1>10, <1>11, <1>12, TypesKept

LEMMA TakeTypes ==
    ASSUME TurnsInv, TurnsTypesInv, NEW w \in Writers, TakeUnit(w)
    PROVE  TurnsTypesInv'
<1>1. /\ writer[w].pc = "free" /\ unitsTaken' = unitsTaken + 1 /\ UNCHANGED <<queue, halt>>
      /\ unitsTaken \in Nat /\ Units \in Nat
  BY TurnsAssumption DEF TakeUnit, Is, TurnsInv, QueueTyped
<1>2. PiecesNow' /\ halt' \in BOOLEAN
  BY <1>1 DEF TurnsTypesInv, PiecesNow, queue
<1>3. IsFiniteSet(EndedWriters) /\ IsFiniteSet(EndedWriters') /\ Cardinality(EndedWriters) \in Nat /\ w \notin EndedWriters
  BY <1>1, FS_Subset, FS_CardinalityType, TurnsAssumption DEF EndedWriters
<1>4. CASE unitsTaken >= Units /\ RestAt(w, "ended")
  <2>1. writer'[w].pc = "ended" /\ writer'[w].made = NoPiece /\ \A v \in Writers : v # w => writer'[v] = writer[v]
    BY <1>4, RestStep DEF TurnsInv
  <2>2. NumbersNow'
    BY <2>1, NumberedRest DEF TurnsTypesInv, NumbersNow
  <2>3. EndedWriters' = EndedWriters \union {w}
    BY <2>1 DEF EndedWriters
  <2>4. Cardinality(EndedWriters') = Cardinality(EndedWriters) + 1
    BY <1>3, <2>3, FS_AddElement
  <2>5. TakenNow'
    BY <1>1, <1>3, <2>4 DEF TurnsTypesInv, TakenNow
  <2> QED
    BY <1>2, <2>2, <2>5 DEF TurnsTypesInv
<1>5. CASE unitsTaken < Units
  <2>1. TakenNow'
    BY <1>1, <1>5 DEF TakenNow
  <2>2. NumbersNow'
    <3>1. CASE RestAt(w, "failing")
      <4>1. /\ writer'[w].pc = "failing" /\ writer'[w].made = NoPiece
            /\ \A v \in Writers : v # w => writer'[v] = writer[v]
        BY <3>1, RestStep DEF TurnsInv
      <4> QED
        BY <4>1, NumberedRest DEF TurnsTypesInv, NumbersNow
    <3>2. CASE Set(w, [pc |-> "making", made |-> NothingOf(unitsTaken)])
      <4>1. unitsTaken \in UnitIds
        BY <1>1, <1>5 DEF UnitIds
      <4> DEFINE m == NothingOf(unitsTaken)
                 r == [pc |-> "making", made |-> m]
      <4>2. m \in MadeNow /\ m.unit = unitsTaken /\ m.nth = 0 /\ m.last = TRUE
        BY <4>1 DEF NothingOf, MadeNow
      <4> HIDE DEF m
      <4>3. r \in [pc : WriterSteps, made : MadeNow] /\ r.pc = "making" /\ r.made = m
        BY <4>2 DEF WriterSteps
      <4>4. Set(w, r)
        BY <3>2 DEF m
      <4> HIDE DEF r
      <4>5. writer'[w] = r /\ \A v \in Writers : v # w => writer'[v] = writer[v]
        BY <4>1, <4>2, <4>3, <4>4, SetOne DEF TurnsInv
      <4>6. Numbered(r)
        <5>1. 0 < MaxPieces /\ 0 <= MaxPieces
          BY TurnsAssumption
        <5>2. r.made.nth = 0 /\ r.made.last = TRUE
          BY <4>2, <4>3
        <5>3. r.made.nth < MaxPieces /\ r.made.nth <= MaxPieces
          BY <5>1, <5>2
        <5> QED
          BY <5>3 DEF Numbered
      <4> QED
        BY <4>5, <4>6 DEF TurnsTypesInv, NumbersNow
    <3> QED
      BY <1>1, <1>5, <3>1, <3>2 DEF TakeUnit
  <2> QED
    BY <1>2, <2>1, <2>2 DEF TurnsTypesInv
<1> QED
  BY <1>1, <1>4, <1>5 DEF TakeUnit

LEMMA PlaceTypes ==
    ASSUME TurnsInv, TurnsTypesInv, NEW w \in Writers, writer[w].pc \in {"putting", "handing"},
           UNCHANGED <<unitsTaken, halt>>,
           NEW k \in [UnitIds -> Seq(Pieces)], NEW waiting, PlaceNext(w, k, waiting)
    PROVE  TurnsTypesInv'
<1>1. /\ writer[w].made.unit \in UnitIds /\ writer[w].pc # "ended" /\ unitsTaken' = unitsTaken
      /\ halt' \in BOOLEAN /\ sink \in Pieces \union {NoPiece}
  BY DEF TurnsInv, WritersTyped, TurnsTypesInv, PiecesNow
<1>2. CASE next \in UnitIds /\ k[next] # <<>>
  <2> DEFINE piece == Head(k[next])
             k2 == [k EXCEPT ![next] = Tail(@)]
  <2>1. /\ kept' = k2
        /\ \/ sink' = piece /\ To(w, "writing")
           \/ RestAt(w, "failing") /\ UNCHANGED sink
    BY <1>2 DEF PlaceNext
  <2>2. piece \in Pieces /\ Tail(k[next]) \in Seq(Pieces)
    <3>1. k[next] \in Seq(Pieces) /\ k[next] # <<>>
      BY <1>2
    <3> QED
      BY <3>1, HeadTailProperties
  <2>3. k2 \in [UnitIds -> Seq(Pieces)]
    BY <1>2, <2>2
  <2> HIDE DEF piece, k2
  <2>4. PiecesNow'
    BY <1>1, <2>1, <2>2, <2>3 DEF PiecesNow
  <2> QED
    BY <1>1, <2>1, <2>4, ToTypes, RestTypes
<1>3. CASE ~(next \in UnitIds /\ k[next] # <<>>)
  <2>1. kept' = k /\ sink' = sink /\ GoOnMaking(w)
    BY <1>3 DEF PlaceNext
  <2>2. PiecesNow'
    BY <1>1, <2>1 DEF PiecesNow
  <2>3. RestAt(w, "free") \/ (To(w, "making") /\ writer[w].made.last # TRUE)
    BY <2>1 DEF GoOnMaking
  <2> QED
    BY <1>1, <2>2, <2>3, ToTypes, RestTypes
<1> QED
  BY <1>2, <1>3

LEMMA PutTypes ==
    ASSUME TurnsInv, TurnsTypesInv, NEW w \in Writers, Put(w)
    PROVE  TurnsTypesInv'
<1>1. PICK piece : piece = writer[w].made
  OBVIOUS
<1>2. /\ writer[w].pc = "putting" /\ UNCHANGED <<unitsTaken, halt>>
      /\ PlaceNext(w, [kept EXCEPT ![piece.unit] = Append(@, piece)], bytes + piece.size)
  BY <1>1 DEF Put, Is
<1>3. piece \in Handed /\ piece.nth >= 1 /\ piece.nth <= MaxPieces /\ MaxPieces \in Nat
  BY <1>1, <1>2, TurnsAssumption DEF TurnsInv, WritersTyped, TurnsTypesInv, NumbersNow, Numbered
<1>4. piece \in Pieces /\ piece.unit \in UnitIds
  BY <1>3 DEF Handed, Pieces
<1> DEFINE k == [kept EXCEPT ![piece.unit] = Append(@, piece)]
<1>5. k \in [UnitIds -> Seq(Pieces)]
  <2>1. Append(kept[piece.unit], piece) \in Seq(Pieces)
    BY <1>4, AppendProperties DEF TurnsTypesInv, PiecesNow
  <2> QED
    BY <2>1 DEF TurnsTypesInv, PiecesNow
<1>6. PlaceNext(w, k, bytes + piece.size)
  BY <1>2
<1> HIDE DEF k
<1> QED
  BY <1>2, <1>5, <1>6, PlaceTypes

LEMMA TurnsTypesStart == TurnsInit => TurnsTypesInv
<1> SUFFICES ASSUME TurnsInit PROVE TurnsTypesInv
  OBVIOUS
<1>1. /\ writer = [w \in Writers |-> [pc |-> "idle", made |-> NoPiece]]
      /\ unitsTaken = 0 /\ kept = [u \in UnitIds |-> <<>>] /\ sink = NoPiece /\ halt = FALSE
  BY DEF TurnsInit
<1>2. NumbersNow
  BY <1>1, NumberedRest DEF NumbersNow
<1>3. PiecesNow
  <2>1. <<>> \in Seq(Pieces)
    BY EmptySeq
  <2> QED
    BY <1>1, <2>1 DEF PiecesNow
<1>4. TakenNow
  BY <1>1, TurnsAssumption DEF TakenNow
<1> QED
  BY <1>1, <1>2, <1>3, <1>4 DEF TurnsTypesInv

LEMMA SameTypes ==
    ASSUME TurnsTypesInv, UNCHANGED <<writer, unitsTaken, queue>>, halt' \in BOOLEAN
    PROVE  TurnsTypesInv'
BY DEF TurnsTypesInv, NumbersNow, PiecesNow, TakenNow, EndedWriters, queue

LEMMA BeginTypes ==
    ASSUME TurnsInv, TurnsTypesInv, BeginWriting
    PROVE  TurnsTypesInv'
<1>1. /\ \A w \in Writers : writer[w].pc = "idle"
      /\ writer' = [w \in Writers |-> [writer[w] EXCEPT !.pc = "free"]]
      /\ UNCHANGED <<unitsTaken, queue, halt>>
  BY DEF BeginWriting, Is
<1>2. \A w \in Writers : writer'[w].pc = "free" /\ writer'[w].made = writer[w].made
  <2>1. \A w \in Writers : writer[w] \in [pc : WriterSteps, made : MadeNow]
    BY DEF TurnsInv, WritersTyped
  <2> QED
    BY <1>1, <2>1
<1>3. NumbersNow'
  BY <1>2 DEF TurnsTypesInv, NumbersNow, Numbered
<1>4. EndedWriters = {} /\ EndedWriters' = {}
  BY <1>1, <1>2 DEF EndedWriters
<1>5. PiecesNow' /\ halt' \in BOOLEAN
  BY <1>1 DEF TurnsTypesInv, PiecesNow, queue
<1>6. TakenNow'
  BY <1>1, <1>4 DEF TurnsTypesInv, TakenNow
<1> QED
  BY <1>3, <1>5, <1>6 DEF TurnsTypesInv

LEMMA TurnsTypesStep ==
    ASSUME TurnsInv, TurnsTypesInv, [TurnsNext]_turnsVars
    PROVE  TurnsTypesInv'
<1>1. CASE BeginWriting
  BY <1>1, BeginTypes
<1>2. CASE AskStop \/ UNCHANGED turnsVars
  <2>1. UNCHANGED <<writer, unitsTaken, queue>> /\ halt' \in BOOLEAN
    BY <1>2 DEF AskStop, turnsVars, queue, TurnsTypesInv
  <2> QED
    BY <2>1, SameTypes
<1>3. ASSUME NEW w \in Writers, WriterStep(w) \/ FailPart(w)
      PROVE  TurnsTypesInv'
  <2>1. CASE TakeUnit(w)
    BY <2>1, TakeTypes
  <2>2. CASE Make(w)
    BY <2>2, MakeTypes
  <2>3. CASE Put(w)
    BY <2>3, PutTypes
  <2>4. CASE PlaceMore(w)
    <3>1. writer[w].pc = "handing" /\ PlaceNext(w, kept, bytes) /\ UNCHANGED <<unitsTaken, halt>>
      BY <2>4 DEF PlaceMore, Is
    <3>2. kept \in [UnitIds -> Seq(Pieces)]
      BY DEF TurnsTypesInv, PiecesNow
    <3> QED
      BY <3>1, <3>2, PlaceTypes
  <2>5. CASE PutStops(w) \/ FailPart(w) \/ RaiseHalt(w)
    <3>1. PICK step \in {"failing", "failed"} : RestAt(w, step)
      BY <2>5 DEF PutStops, FailPart, RaiseHalt
    <3>2. writer[w].pc # "ended" /\ unitsTaken' = unitsTaken /\ halt' \in BOOLEAN /\ PiecesNow'
      BY <2>5 DEF PutStops, FailPart, RaiseHalt, Is, TurnsTypesInv, PiecesNow, queue
    <3> QED
      BY <3>1, <3>2, RestTypes
  <2>6. CASE Write(w)
    <3>1. /\ writer[w].pc = "writing" /\ To(w, "handing") /\ unitsTaken' = unitsTaken
          /\ halt' \in BOOLEAN /\ PiecesNow' /\ writer[w].made.unit \in UnitIds
      BY <2>6 DEF Write, Is, TurnsInv, WritersTyped, TurnsTypesInv, PiecesNow, queue
    <3> QED
      BY <3>1, ToTypes
  <2> QED
    BY <1>3, <2>1, <2>2, <2>3, <2>4, <2>5, <2>6 DEF WriterStep
<1> QED
  BY <1>1, <1>2, <1>3 DEF TurnsNext

LEMMA TypesInvariant == TurnsSpec => [](TurnsInv /\ RoomInv /\ TurnsTypesInv)
<1>1. TurnsInit => TurnsInv /\ RoomInv /\ TurnsTypesInv
  BY TurnsStart, RoomStart, TurnsTypesStart
<1>2. TurnsInv /\ RoomInv /\ TurnsTypesInv /\ [TurnsNext]_turnsVars => (TurnsInv /\ RoomInv /\ TurnsTypesInv)'
  BY TurnsStepKeeps, RoomStep, TurnsTypesStep
<1> QED
  BY <1>1, <1>2, PTL DEF TurnsSpec

LEMMA TurnsTyped == TurnsInv /\ RoomInv /\ TurnsTypesInv => TurnsTypeOK
<1> SUFFICES ASSUME TurnsInv, RoomInv, TurnsTypesInv PROVE TurnsTypeOK
  OBVIOUS
<1>1. ASSUME NEW w \in Writers
      PROVE  writer[w] \in [pc : WriterSteps, made : Made]
  <2>1. /\ writer[w] \in [pc : WriterSteps, made : MadeNow] /\ writer[w].made.nth <= MaxPieces
        /\ MaxPieces \in Nat
    BY TurnsAssumption DEF TurnsInv, WritersTyped, TurnsTypesInv, NumbersNow, Numbered
  <2>2. writer[w].made \in MadeNow /\ writer[w].pc \in WriterSteps
    BY <2>1
  <2>3. writer[w].made \in Made
    BY <2>1, <2>2 DEF MadeNow, Made
  <2> QED
    BY <2>1, <2>3
<1>2. writer \in [Writers -> [pc : WriterSteps, made : Made]]
  BY <1>1 DEF TurnsInv, WritersTyped
<1>3. unitsTaken \in 0..(Units + Cardinality(Writers))
  <2>1. /\ IsFiniteSet(Writers) /\ EndedWriters \subseteq Writers /\ unitsTaken \in Nat /\ Units \in Nat
    BY TurnsAssumption DEF EndedWriters, TurnsInv, QueueTyped
  <2>2. /\ Cardinality(EndedWriters) <= Cardinality(Writers) /\ Cardinality(Writers) \in Nat
        /\ Cardinality(EndedWriters) \in Nat
    BY <2>1, FS_Subset, FS_CardinalityType
  <2> QED
    BY <2>1, <2>2 DEF TurnsTypesInv, TakenNow
<1>4. next \in 0..Units
  BY TurnsAssumption DEF TurnsInv, QueueTyped, LinesNow, LinesRight
<1>5. \A u \in UnitIds : kept[u] \in Seq(Pieces)
  BY DEF TurnsTypesInv, PiecesNow
<1>6. bytes \in Nat
  BY FS_CardinalityType DEF RoomInv, RoomNow, CountedTo
<1>7. sink \in Made
  <2>1. Pieces \subseteq Made
    BY TurnsAssumption DEF Pieces, Made
  <2>2. NoPiece \in Made
    BY TurnsAssumption DEF NoPiece, NothingOf, Made
  <2> QED
    BY <2>1, <2>2 DEF TurnsTypesInv, PiecesNow
<1> QED
  BY <1>2, <1>3, <1>4, <1>5, <1>6, <1>7 DEF TurnsTypeOK, TurnsTypesInv

(* Every variable of Turns keeps its type; the workers take each unit      *)
(* once, and each that finds none left has taken one more, as it ends.     *)
THEOREM TurnsTypeCorrect == TurnsSpec => []TurnsTypeOK
BY TurnsTyped, TypesInvariant, PTL
-----------------------------------------------------------------------------
(* TreePasses.                                                             *)

(* A set of numbers that is not empty has a least one, and a greatest if   *)
(* one bounds it.                                                          *)
LEMMA LeastOf ==
    ASSUME NEW S, S \subseteq Nat, S # {}
    PROVE  Min(S) \in S /\ \A x \in S : Min(S) <= x
<1>1. PICK x \in S : \A y \in S : <<y, x>> \notin OpToRel(<, Nat)
  BY NatLessThanWellFounded, WFMin
<1>2. \A y \in S : x <= y
  <2> SUFFICES ASSUME NEW y \in S PROVE x <= y
    OBVIOUS
  <2>1. <<y, x>> \notin OpToRel(<, Nat)
    BY <1>1
  <2>2. ~(y < x)
    BY <2>1 DEF OpToRel
  <2> QED
    BY <2>2
<1> QED
  BY <1>2 DEF Min

LEMMA GreatestOf ==
    ASSUME NEW n \in Nat, NEW S, S \subseteq 0..n, S # {}
    PROVE  Max(S) \in S /\ \A x \in S : x <= Max(S)
<1> DEFINE T == {n - x : x \in S}
<1>0. \A x \in S : n - x \in Nat
  OBVIOUS
<1>1. T \subseteq Nat /\ T # {}
  BY <1>0
<1> HIDE DEF T
<1>2. Min(T) \in T /\ \A y \in T : Min(T) <= y
  BY <1>1, LeastOf
<1>3. PICK x \in S : Min(T) = n - x
  BY <1>2 DEF T
<1>4. \A y \in S : n - y \in T
  BY DEF T
<1>5. \A y \in S : x >= y
  BY <1>2, <1>3, <1>4
<1> QED
  BY <1>5 DEF Max

LEMMA LargerOf ==
    ASSUME NEW x \in Nat, NEW y \in Nat
    PROVE  Max({x, y}) = IF x >= y THEN x ELSE y
<1> DEFINE m == IF x >= y THEN x ELSE y
<1>1. m \in {x, y} /\ \A z \in {x, y} : m >= z
  OBVIOUS
<1>2. \A n \in {x, y} : (\A z \in {x, y} : n >= z) => n = m
  OBVIOUS
<1> HIDE DEF m
<1>3. Max({x, y}) = m
  BY <1>1, <1>2 DEF Max
<1> QED
  BY <1>3 DEF m

(* The entries of the games are finitely many, and each is of a part.      *)
LEMMA EntriesTyped ==
    /\ \A game \in GameIds : \A ply \in DOMAIN LineOf[game] : <<game, ply>> \in StreamEntries
    /\ \A game \in GameIds : DOMAIN LineOf[game] \subseteq Nat
    /\ \A e \in StreamEntries : /\ e[1] \in GameIds /\ e[2] \in DOMAIN LineOf[e[1]]
                                /\ e[1] \in Nat /\ e[2] \in Nat
                                /\ e = <<e[1], e[2]>> /\ PartOf(e) \in PartIds /\ PartOf(e) \in Nat
<1>1. \A game \in GameIds : LineOf[game] \in Seq(PartIds)
  BY PassesAssumption
<1>2. \A game \in GameIds : DOMAIN LineOf[game] \subseteq Nat /\ \A ply \in DOMAIN LineOf[game] : LineOf[game][ply] \in PartIds
  BY <1>1
<1>3. GameIds \subseteq Nat /\ PartIds \subseteq Nat
  BY PassesAssumption DEF GameIds, PartIds
<1>4. \A e \in StreamEntries : \E game \in GameIds : \E ply \in DOMAIN LineOf[game] : e = <<game, ply>>
  BY DEF StreamEntries
<1> QED
  BY <1>2, <1>3, <1>4 DEF StreamEntries, PartOf

LEMMA EntriesFinite ==
    IsFiniteSet(StreamEntries) /\ \A S : S \subseteq StreamEntries => IsFiniteSet(S) /\ Cardinality(S) \in Nat
<1> DEFINE f == [game \in GameIds |-> {game} \X DOMAIN LineOf[game]]
           T == {{game} \X DOMAIN LineOf[game] : game \in GameIds}
<1>1. f \in Surjection(GameIds, T)
  BY DEF Surjection
<1>2. IsFiniteSet(GameIds)
  BY FS_Interval, PassesAssumption DEF GameIds
<1> HIDE DEF f
<1>3. IsFiniteSet(T)
  BY <1>1, <1>2, FS_Surjection
<1>4. ASSUME NEW game \in GameIds PROVE IsFiniteSet({game} \X DOMAIN LineOf[game])
  <2>1. LineOf[game] \in Seq(PartIds)
    BY PassesAssumption
  <2>2. DOMAIN LineOf[game] = 1..Len(LineOf[game]) /\ Len(LineOf[game]) \in Nat
    BY <2>1
  <2>3. IsFiniteSet(DOMAIN LineOf[game])
    BY <2>2, FS_Interval
  <2>4. IsFiniteSet({game})
    BY FS_Singleton
  <2> QED
    BY <2>3, <2>4, FS_Product
<1>5. \A s \in T : IsFiniteSet(s)
  BY <1>4
<1> HIDE DEF T
<1>6. IsFiniteSet(UNION T)
  BY <1>3, <1>5, FS_UNION
<1>7. IsFiniteSet(StreamEntries)
  BY <1>6 DEF T, StreamEntries
<1>8. ASSUME NEW S, S \subseteq StreamEntries PROVE IsFiniteSet(S) /\ Cardinality(S) \in Nat
  BY <1>7, <1>8, FS_Subset, FS_CardinalityType
<1> QED
  BY <1>7, <1>8

(* What a buffer's entries take is a number, no more than was counted if   *)
(* they are of one part.                                                   *)
LEMMA FoldedTyped ==
    ASSUME NEW buf, buf \subseteq StreamEntries
    PROVE  Folded(buf) \in Nat
<1> DEFINE crowd == {e \in buf : PartOf(e) \in Crowded}
           parts == {PartOf(e) : e \in crowd}
<1>1. Cardinality(buf \ crowd) \in Nat
  BY EntriesFinite
<1>2. parts \subseteq PartIds
  BY EntriesTyped
<1>3. IsFiniteSet(PartIds)
  BY FS_Interval, PassesAssumption DEF PartIds
<1>4. IsFiniteSet(parts)
  BY <1>2, <1>3, FS_Subset
<1>5. Cardinality(parts) \in Nat
  BY <1>4, FS_CardinalityType
<1> HIDE DEF crowd, parts
<1>6. Cardinality(buf \ crowd) + Cardinality(parts) \in Nat
  BY <1>1, <1>5
<1> QED
  BY <1>6 DEF Folded, crowd, parts

LEMMA FoldedOfPart ==
    ASSUME NEW part \in PartIds, NEW buf, buf \subseteq Of(part, StreamEntries)
    PROVE  Folded(buf) <= Counted(part) /\ Counted(part) \in Nat
<1> DEFINE crowd == {e \in buf : PartOf(e) \in Crowded}
           parts == {PartOf(e) : e \in crowd}
<1>1. /\ IsFiniteSet(Of(part, StreamEntries)) /\ Counted(part) \in Nat
      /\ IsFiniteSet(buf) /\ Cardinality(buf) \in Nat
  BY EntriesFinite DEF Of, Counted
<1>2. Cardinality(buf) <= Counted(part)
  BY <1>1, FS_Subset DEF Counted
<1>3. Folded(buf) = Cardinality(buf \ crowd) + Cardinality(parts)
  BY DEF Folded
<1>4. \A e \in buf : PartOf(e) = part
  BY DEF Of
<1>5. Cardinality({}) = 0
  BY FS_EmptySet
<1>6. CASE part \notin Crowded \/ buf = {}
  <2>1. buf \ crowd = buf /\ parts = {}
    BY <1>4, <1>6
  <2> HIDE DEF crowd, parts
  <2> QED
    BY <2>1, <1>1, <1>2, <1>3, <1>5
<1>7. CASE part \in Crowded /\ buf # {}
  <2>1. buf \ crowd = {} /\ parts = {part}
    BY <1>4, <1>7
  <2>2. Cardinality({part}) = 1
    BY FS_Singleton
  <2>3. Cardinality(buf) # 0
    BY <1>1, <1>7, FS_EmptySet
  <2> HIDE DEF crowd, parts
  <2> QED
    BY <2>1, <2>2, <2>3, <1>1, <1>2, <1>3, <1>5
<1> QED
  BY <1>1, <1>6, <1>7

(* The part at a place of a folded buffer: those before it take no more    *)
(* than the place.                                                         *)
LEMMA PartAtPlace ==
    ASSUME NEW buf, buf \subseteq StreamEntries, NEW i \in Nat, Folded(buf) > i
    PROVE  PartAt(i, buf) \in PartIds /\ Folded(Before(PartAt(i, buf), buf)) <= i
<1> DEFINE S == {part \in PartIds : Folded(Before(part + 1, buf)) > i}
<1>1. PartCount \in Nat /\ PartCount > 0 /\ PartIds = 0..(PartCount - 1) /\ PartIds \subseteq Nat
  BY PassesAssumption DEF PartIds
<1>2. PartCount - 1 \in PartIds /\ (PartCount - 1) + 1 = PartCount
  BY <1>1
<1>3. \A e \in buf : PartOf(e) < PartCount
  BY <1>1, EntriesTyped
<1>4. Before(PartCount, buf) = buf
  BY <1>3 DEF Before
<1>5. PartCount - 1 \in S
  BY <1>2, <1>4
<1>6. S \subseteq Nat
  BY <1>1
<1>7. PartAt(i, buf) = Min(S)
  BY DEF PartAt
<1> DEFINE p == Min(S)
<1>8. p \in PartIds /\ \A x \in S : p <= x
  BY <1>5, <1>6, LeastOf
<1>9. Folded(Before(p, buf)) <= i
  <2>1. CASE p = 0
    <3> HIDE DEF p
    <3>0. \A e \in buf : PartOf(e) \in Nat
      BY EntriesTyped
    <3>1. Before(p, buf) = {}
      BY <2>1, <3>0 DEF Before
    <3>2. {} \subseteq Of(0, StreamEntries) /\ 0 \in PartIds
      BY <1>1
    <3>3. Folded({}) = Cardinality({}) + Cardinality({})
      <4>1. {} \ {e \in {} : PartOf(e) \in Crowded} = {} /\ {PartOf(e) : e \in {e \in {} : PartOf(e) \in Crowded}} = {}
        OBVIOUS
      <4> QED
        BY <4>1 DEF Folded
    <3>4. Cardinality({}) = 0
      BY FS_EmptySet
    <3> QED
      BY <3>1, <3>3, <3>4
  <2>2. CASE p # 0
    <3>1. p - 1 \in PartIds /\ (p - 1) + 1 = p /\ ~(p <= p - 1)
      BY <2>2, <1>1, <1>8
    <3>2. p - 1 \notin S
      BY <3>1, <1>8
    <3>3. ~(Folded(Before((p - 1) + 1, buf)) > i)
      BY <3>1, <3>2
    <3>4. Folded(Before(p, buf)) \in Nat
      BY FoldedTyped DEF Before
    <3> HIDE DEF p
    <3> QED
      BY <3>1, <3>3, <3>4
  <2> QED
    BY <2>1, <2>2
<1> QED
  BY <1>7, <1>8, <1>9

(* A pass plans its first part at least.                                   *)
LEMMA PlansFirst ==
    ASSUME NEW from \in PartIds
    PROVE  PlannedTo(from) \in (from + 1)..PartCount
<1> DEFINE S == {from + 1} \union {to \in from..PartCount : SumOf(from..(to - 1)) <= (room * 97) \div 100}
<1>1. PartCount \in Nat /\ from \in Nat /\ from + 1 <= PartCount
  BY PassesAssumption DEF PartIds
<1>2. S \subseteq 0..PartCount /\ from + 1 \in S
  BY <1>1
<1>3. PlannedTo(from) = Max(S)
  BY DEF PlannedTo
<1> HIDE DEF S
<1>4. Max(S) \in S /\ from + 1 <= Max(S)
  BY <1>1, <1>2, GreatestOf
<1>5. Max(S) \in 0..PartCount
  BY <1>2, <1>4
<1> QED
  BY <1>1, <1>3, <1>4, <1>5
(* A share of the room holds the first part, but for its last eighth.      *)
LEMMA ShareHolds ==
    ASSUME NEW r \in Nat, NEW n \in Nat \ {0}, NEW c \in Nat \ {0}, c <= r \div n
    PROVE  r \div c \in Nat /\ n <= r \div c
<1> DEFINE q == r \div n
           d == r \div c
<1>1. q \in Nat /\ n * q <= r
  OBVIOUS
<1>2. d \in Nat /\ r < c * (d + 1)
  OBVIOUS
<1> HIDE DEF q, d
<1>3. n * c <= n * q
  BY <1>1 DEF q
<1>4. SUFFICES ASSUME d < n PROVE FALSE
  BY <1>2 DEF d
<1>5. c * (d + 1) <= c * n
  BY <1>2, <1>4
<1> QED
  BY <1>1, <1>2, <1>3, <1>5

LEMMA NeedsMore ==
    ASSUME NEW n \in Nat
    PROVE  /\ Needed(n) \in Nat /\ Needed(n) >= 4
           /\ \A cap \in Nat : cap >= Needed(n) => n <= cap - cap \div 8
<1>1. n + n \div 7 + 1 \in Nat /\ MinEntries \in Nat /\ MinEntries >= 4
  BY PassesAssumption
<1>2. Needed(n) = IF n + n \div 7 + 1 >= MinEntries THEN n + n \div 7 + 1 ELSE MinEntries
  BY <1>1, LargerOf DEF Needed
<1>3. Needed(n) \in Nat /\ Needed(n) >= 4 /\ Needed(n) >= n + n \div 7 + 1
  BY <1>1, <1>2
<1>4. ASSUME NEW cap \in Nat, cap >= n + n \div 7 + 1 PROVE n <= cap - cap \div 8
  BY <1>4
<1>5. ASSUME NEW cap \in Nat, cap >= Needed(n) PROVE n <= cap - cap \div 8
  BY <1>3, <1>4, <1>5
<1> QED
  BY <1>3, <1>5

(* What is gathered of the entries: the buffers' b and what their workers  *)
(* have yet to add of the games they are at, l, of n - 1 games taken, for  *)
(* the parts from f to h.  No entry is in two of them, and those of the    *)
(* pass's parts are all in one.                                            *)
Gathered(b, l, n, f, h) ==
    /\ \A v \in Collectors : \A e \in b[v] : e \in StreamEntries /\ e[1] < n /\ f <= PartOf(e)
    /\ \A v \in Collectors : \A e \in l[v] : e \in StreamEntries /\ e[1] < n
    /\ \A v, w \in Collectors : \A e \in b[v] : e \notin l[w] /\ (v # w => e \notin b[w])
    /\ \A v, w \in Collectors : v # w => \A e \in l[v] : e \notin l[w]
    /\ \A e \in StreamEntries : e[1] < n /\ PartOf(e) \in f..(h - 1) =>
          \E v \in Collectors : e \in b[v] \/ e \in l[v]

(* A worker goes on in its game, or lets go of entries past the end h2.    *)
GoesOnIn(w, b, l, b2, l2, f, h2) ==
    /\ \A v \in Collectors : v # w => b2[v] = b[v] /\ l2[v] = l[v]
    /\ \A e \in b2[w] : e \in b[w] \/ (e \in l[w] /\ e \notin l2[w] /\ f <= PartOf(e))
    /\ \A e \in l2[w] : e \in l[w]
    /\ \A e \in b[w] : PartOf(e) < h2 => e \in b2[w]
    /\ \A e \in l[w] : PartOf(e) \in f..(h2 - 1) => e \in l2[w] \/ e \in b2[w]

LEMMA GatherOn ==
    ASSUME NEW b, NEW l, NEW b2, NEW l2, NEW n \in Nat, NEW f \in Nat, NEW h \in Nat, NEW h2 \in Nat,
           NEW w \in Collectors, Gathered(b, l, n, f, h), h2 <= h, GoesOnIn(w, b, l, b2, l2, f, h2)
    PROVE  Gathered(b2, l2, n, f, h2)
<1> USE DEF GoesOnIn
<1>1. \A v \in Collectors : \A e \in b2[v] : e \in StreamEntries /\ e[1] < n /\ f <= PartOf(e)
  BY DEF Gathered
<1>2. \A v \in Collectors : \A e \in l2[v] : e \in StreamEntries /\ e[1] < n
  BY DEF Gathered
<1>3. \A v, u \in Collectors : \A e \in b2[v] : e \notin l2[u]
  BY DEF Gathered
<1>4. \A v, u \in Collectors : v # u => \A e \in b2[v] : e \notin b2[u]
  BY DEF Gathered
<1>5. \A v, u \in Collectors : v # u => \A e \in l2[v] : e \notin l2[u]
  BY DEF Gathered
<1>6. ASSUME NEW e \in StreamEntries, e[1] < n, PartOf(e) \in f..(h2 - 1)
      PROVE  \E v \in Collectors : e \in b2[v] \/ e \in l2[v]
  <2>1. PartOf(e) \in f..(h - 1) /\ PartOf(e) < h2
    BY <1>6, EntriesTyped
  <2>2. PICK v \in Collectors : e \in b[v] \/ e \in l[v]
    BY <1>6, <2>1 DEF Gathered
  <2> QED
    BY <1>6, <2>1, <2>2
<1> QED
  BY <1>1, <1>2, <1>3, <1>4, <1>5, <1>6 DEF Gathered

(* A worker takes the next game.                                           *)
LEMMA GatherNext ==
    ASSUME NEW b, NEW l, NEW l2, NEW n \in Nat, NEW f, NEW h,
           NEW w \in Collectors, Gathered(b, l, n, f, h), l[w] = {},
           \A v \in Collectors : v # w => l2[v] = l[v],
           \A e \in l2[w] : e \in StreamEntries /\ e[1] = n,
           \A e \in StreamEntries : e[1] = n /\ PartOf(e) \in f..(h - 1) => e \in l2[w]
    PROVE  Gathered(b, l2, n + 1, f, h)
<1>1. \A e \in StreamEntries : (e[1] < n + 1 <=> e[1] < n \/ e[1] = n) /\ ~(e[1] < n /\ e[1] = n)
  BY EntriesTyped
<1>2. \A v \in Collectors : \A e \in b[v] : e \in StreamEntries /\ e[1] < n + 1 /\ f <= PartOf(e)
  BY <1>1 DEF Gathered
<1>3. \A v \in Collectors : \A e \in l2[v] : e \in StreamEntries /\ e[1] < n + 1
  BY <1>1 DEF Gathered
<1>4. \A v, u \in Collectors : \A e \in b[v] : e \notin l2[u] /\ (v # u => e \notin b[u])
  BY <1>1 DEF Gathered
<1>5. \A v, u \in Collectors : v # u => \A e \in l2[v] : e \notin l2[u]
  BY <1>1 DEF Gathered
<1>6. \A e \in StreamEntries : e[1] < n + 1 /\ PartOf(e) \in f..(h - 1) =>
         \E v \in Collectors : e \in b[v] \/ e \in l2[v]
  <2> SUFFICES ASSUME NEW e \in StreamEntries, e[1] < n + 1, PartOf(e) \in f..(h - 1)
               PROVE  \E v \in Collectors : e \in b[v] \/ e \in l2[v]
    OBVIOUS
  <2>1. CASE e[1] = n
    BY <2>1
  <2>2. CASE e[1] < n
    <3>1. PICK v \in Collectors : e \in b[v] \/ e \in l[v]
      BY <2>2 DEF Gathered
    <3> QED
      BY <3>1
  <2> QED
    BY <1>1, <2>1, <2>2
<1> QED
  BY <1>2, <1>3, <1>4, <1>5, <1>6 DEF Gathered

-----------------------------------------------------------------------------
CollectorState == [pc : CollectorSteps, game : Nat, ply : Nat, buf : SUBSET StreamEntries,
                   len : Nat, last : BOOLEAN]
Adding == {"replaying", "cutting", "adding"}
EntryAt(r) == <<r.game, r.ply>>
LeftFrom(game, ply) == {e \in StreamEntries : e[1] = game /\ e[2] >= ply}
LeftOf(r) == IF r.pc \in Adding THEN LeftFrom(r.game, r.ply) ELSE {}
BufNow == [w \in Collectors |-> collector[w].buf]
LeftNow == [w \in Collectors |-> LeftOf(collector[w])]
BusyNow == {w \in Collectors : collector[w].pc \notin {"none", "ended"}}

PassesTyped ==
    /\ phase \in {"begin", "planning", "collecting", "ended"}
    /\ room \in Rooms \union {0} /\ count \in Collectors
    /\ first \in 0..PartCount /\ hi \in 0..PartCount /\ planned \in Nat
    /\ nextGame \in Nat \ {0} /\ taking \in 0..MaxCollectors
    /\ collector \in [Collectors -> CollectorState]
    /\ tree \subseteq StreamEntries

(* The room holds each part, and a worker's share the pass's first.        *)
PlanNow ==
    /\ phase # "begin" => \A part \in PartIds : Needed(Counted(part)) <= room
    /\ phase = "collecting" => /\ first < hi /\ first \in PartIds
                               /\ Cap \in Nat /\ Needed(Counted(first)) <= Cap
    /\ phase # "collecting" => \A w \in Collectors : collector[w].pc = "none"
    /\ tree = Before(first, StreamEntries)

GatheredNow == Gathered(BufNow, LeftNow, nextGame, first, hi)

(* A worker in a game is at an entry of the pass's first part or after it; *)
(* one that ends the pass earlier folded, and still fills its share.       *)
EntriesNow ==
    \A w \in Collectors :
      /\ collector[w].pc \in Adding => EntryAt(collector[w]) \in StreamEntries /\ first <= PartOf(EntryAt(collector[w]))
      /\ collector[w].pc = "cutting" => (Cap \div 4) * 3 < Folded(collector[w].buf)

(* While games are left, those still taking them are as many as counted.   *)
TakingNow ==
    /\ taking = 0 => \A w \in Collectors : collector[w].pc \in {"none", "starting"}
    /\ phase = "collecting" /\ nextGame <= Games => Cardinality(BusyNow) = IF taking = 0 THEN count ELSE taking
    /\ nextGame + Cardinality(BusyNow) <= Games + 1 + MaxCollectors

PassesInv == PassesTyped /\ PlanNow /\ GatheredNow /\ EntriesNow /\ TakingNow

LEMMA PassesNumbers ==
    /\ Games \in Nat \ {0} /\ PartCount \in Nat \ {0} /\ MaxCollectors \in Nat \ {0}
    /\ Collectors = 1..MaxCollectors /\ PartIds = 0..(PartCount - 1) /\ GameIds = 1..Games
    /\ Rooms \subseteq Nat
    /\ \A S : S \subseteq Collectors => IsFiniteSet(S) /\ Cardinality(S) \in Nat /\ Cardinality(S) <= MaxCollectors
<1>1. IsFiniteSet(Collectors) /\ Cardinality(Collectors) = MaxCollectors
  BY PassesAssumption, FS_Interval DEF Collectors
<1>2. \A S : S \subseteq Collectors => IsFiniteSet(S) /\ Cardinality(S) \in Nat /\ Cardinality(S) <= MaxCollectors
  BY <1>1, FS_Subset, FS_CardinalityType
<1> QED
  BY <1>2, PassesAssumption DEF Collectors, PartIds, GameIds

(* What a step of one worker changes.                                      *)
LEMMA WorkerChanges ==
    ASSUME PassesTyped, NEW w \in Collectors, NEW r \in CollectorState,
           collector' = [collector EXCEPT ![w] = r]
    PROVE  /\ collector' \in [Collectors -> CollectorState] /\ collector'[w] = r
           /\ \A v \in Collectors : v # w => collector'[v] = collector[v]
           /\ \A v \in Collectors : v # w => BufNow'[v] = BufNow[v] /\ LeftNow'[v] = LeftNow[v]
           /\ BufNow'[w] = r.buf /\ LeftNow'[w] = LeftOf(r)
           /\ BufNow[w] = collector[w].buf /\ LeftNow[w] = LeftOf(collector[w])
<1>1. /\ collector' \in [Collectors -> CollectorState] /\ collector'[w] = r
      /\ \A v \in Collectors : v # w => collector'[v] = collector[v]
  BY DEF PassesTyped
<1>2. \A v \in Collectors : BufNow'[v] = collector'[v].buf /\ BufNow[v] = collector[v].buf
  BY DEF BufNow
<1>3. \A v \in Collectors : LeftNow'[v] = LeftOf(collector'[v]) /\ LeftNow[v] = LeftOf(collector[v])
  BY DEF LeftNow
<1> QED
  BY <1>1, <1>2, <1>3

LEMMA OnlyStep ==
    ASSUME PassesTyped, NEW w \in Collectors, NEW step \in CollectorSteps,
           collector' = [collector EXCEPT ![w].pc = step]
    PROVE  \E r \in CollectorState :
             /\ collector' = [collector EXCEPT ![w] = r] /\ r.pc = step
             /\ r.game = collector[w].game /\ r.ply = collector[w].ply /\ r.buf = collector[w].buf
<1> DEFINE r == [collector[w] EXCEPT !.pc = step]
<1>1. collector[w] \in CollectorState
  BY DEF PassesTyped
<1>2. r \in CollectorState /\ r.pc = step /\ r.game = collector[w].game /\ r.ply = collector[w].ply /\ r.buf = collector[w].buf
  BY <1>1 DEF CollectorState
<1>3. collector' = [collector EXCEPT ![w] = r]
  OBVIOUS
<1> QED
  BY <1>2, <1>3

LEMMA StepKeeps ==
    ASSUME PassesInv, NEW w \in Collectors, NEW r \in CollectorState,
           collector' = [collector EXCEPT ![w] = r], UNCHANGED plan,
           phase = "collecting", phase' = "collecting",
           hi' \in (first + 1)..hi, nextGame' \in Nat \ {0}, taking' \in 0..MaxCollectors,
           GatheredNow', TakingNow',
           r.pc \in Adding => EntryAt(r) \in StreamEntries /\ first <= PartOf(EntryAt(r)),
           r.pc = "cutting" => (Cap \div 4) * 3 < Folded(r.buf)
    PROVE  PassesInv'
<1> USE DEF PassesInv
<1>1. /\ collector' \in [Collectors -> CollectorState] /\ collector'[w] = r
      /\ \A v \in Collectors : v # w => collector'[v] = collector[v]
  BY WorkerChanges
<1>2. /\ room' = room /\ first' = first /\ planned' = planned /\ count' = count /\ tree' = tree
      /\ Cap' = Cap
  BY DEF plan, Cap
<1>3. PassesTyped'
  <2>1. hi' \in 0..PartCount
    BY PassesNumbers DEF PassesTyped
  <2> QED
    BY <2>1, <1>1, <1>2 DEF PassesTyped
<1>4. PlanNow'
  <2>1. first < hi'
    BY DEF PassesTyped
  <2> QED
    BY <2>1, <1>2 DEF PlanNow
<1>5. EntriesNow'
  BY <1>1, <1>2 DEF EntriesNow
<1> QED
  BY <1>3, <1>4, <1>5

(* A step of a worker that goes on taking or adding.                       *)
LEMMA TakingKept ==
    ASSUME PassesTyped, TakingNow, NEW w \in Collectors, NEW r \in CollectorState,
           collector' = [collector EXCEPT ![w] = r], count' = count, phase' = phase,
           nextGame' = nextGame, taking' = taking,
           collector[w].pc \notin {"none", "starting", "ended"}, r.pc \notin {"none", "starting", "ended"}
    PROVE  TakingNow'
<1>1. /\ collector'[w] = r
      /\ \A v \in Collectors : v # w => collector'[v] = collector[v]
  BY WorkerChanges
<1>2. BusyNow' = BusyNow
  BY <1>1 DEF BusyNow
<1>3. taking # 0
  BY DEF TakingNow
<1> QED
  BY <1>2, <1>3 DEF TakingNow

(* What a worker has left once it goes on from a ply of a game, as r.      *)
GoesAs(w, game, from, buf, r) ==
    /\ collector' = [collector EXCEPT ![w] = r]
    /\ r.pc \in {"taking", "replaying"} /\ r.buf = buf
    /\ LeftOf(r) \subseteq LeftFrom(game, from)
    /\ \A e \in LeftFrom(game, from) : PartOf(e) \in first..(hi - 1) => e \in LeftOf(r)
    /\ r.pc = "replaying" => EntryAt(r) \in StreamEntries /\ first <= PartOf(EntryAt(r))

LEMMA GoesOnInGame ==
    ASSUME PassesTyped, NEW w \in Collectors, NEW game \in GameIds, NEW from \in Nat,
           NEW buf, buf \subseteq StreamEntries, NEW len \in Nat, NEW last \in BOOLEAN,
           GoOn(w, game, from, buf, len, last)
    PROVE  \E r \in CollectorState : GoesAs(w, game, from, buf, r)
<1> DEFINE plies == {ply \in DOMAIN LineOf[game] : ply >= from /\ LineOf[game][ply] \in first..(hi - 1)}
           r == [pc |-> IF plies = {} THEN "taking" ELSE "replaying", game |-> game,
                 ply |-> IF plies = {} THEN 0 ELSE Min(plies), buf |-> buf, len |-> len, last |-> last]
<1>1. collector' = [collector EXCEPT ![w] = r]
  BY DEF GoOn
<1>2. plies \subseteq Nat /\ game \in Nat
  BY EntriesTyped, PassesNumbers
<1>3. plies # {} => Min(plies) \in plies /\ \A x \in plies : Min(plies) <= x
  BY <1>2, LeastOf
<1>4. \A e \in LeftFrom(game, from) : PartOf(e) \in first..(hi - 1) => e[2] \in plies /\ e[1] = game
  BY EntriesTyped DEF LeftFrom, PartOf
<1> DEFINE g == Min(plies)
<1>5. CASE plies = {}
  <2> DEFINE q == [pc |-> "taking", game |-> game, ply |-> 0, buf |-> buf, len |-> len, last |-> last]
  <2>1. r = q
    BY <1>5
  <2>2. q \in CollectorState /\ q.pc = "taking" /\ q.buf = buf
    BY <1>2 DEF CollectorState, CollectorSteps
  <2> HIDE DEF q, r
  <2>3. LeftOf(q) = {}
    BY <2>2 DEF LeftOf, Adding
  <2>4. \A e \in LeftFrom(game, from) : ~(PartOf(e) \in first..(hi - 1))
    BY <1>4, <1>5
  <2> HIDE DEF plies
  <2> QED
    BY <1>1, <2>1, <2>2, <2>3, <2>4 DEF GoesAs
<1>6. CASE plies # {}
  <2> DEFINE q == [pc |-> "replaying", game |-> game, ply |-> g, buf |-> buf, len |-> len, last |-> last]
  <2>1. r = q
    BY <1>6
  <2>2. g \in plies /\ g \in Nat /\ g >= from /\ \A x \in plies : g <= x
    BY <1>2, <1>3, <1>6
  <2>3. g \in DOMAIN LineOf[game] /\ LineOf[game][g] \in first..(hi - 1)
    BY <2>2
  <2> HIDE DEF g
  <2>4. /\ q \in CollectorState /\ q.pc = "replaying" /\ q.buf = buf
        /\ q.game = game /\ q.ply = g
    BY <1>2, <2>2 DEF CollectorState, CollectorSteps
  <2>5. EntryAt(q) \in StreamEntries /\ first <= PartOf(EntryAt(q))
    <3>1. EntryAt(q) = <<game, g>>
      BY <2>4 DEF EntryAt
    <3>2. <<game, g>> \in StreamEntries
      BY <2>3, EntriesTyped
    <3>3. PartOf(<<game, g>>) = LineOf[game][g]
      BY DEF PartOf
    <3>4. first \in Int /\ hi \in Int
      BY DEF PassesTyped
    <3>5. first <= LineOf[game][g]
      BY <2>3, <3>4
    <3> HIDE DEF q
    <3> QED
      BY <3>1, <3>2, <3>3, <3>5
  <2> HIDE DEF q, r
  <2>6. LeftOf(q) = LeftFrom(game, g)
    BY <2>4 DEF LeftOf, Adding
  <2>7. LeftFrom(game, g) \subseteq LeftFrom(game, from)
    BY <2>2, EntriesTyped DEF LeftFrom
  <2>8. \A e \in LeftFrom(game, from) : PartOf(e) \in first..(hi - 1) => e \in LeftFrom(game, g)
    <3> SUFFICES ASSUME NEW e \in LeftFrom(game, from), PartOf(e) \in first..(hi - 1)
                 PROVE  e \in LeftFrom(game, g)
      OBVIOUS
    <3>1. e[2] \in plies /\ e[1] = game
      BY <1>4
    <3> HIDE DEF plies
    <3>2. g <= e[2]
      BY <2>2, <3>1
    <3> QED
      BY <3>1, <3>2, EntriesTyped, <2>2 DEF LeftFrom
  <2> HIDE DEF plies
  <2> QED
    BY <1>1, <2>1, <2>4, <2>5, <2>6, <2>7, <2>8 DEF GoesAs
<1> QED
  BY <1>5, <1>6

(* What is gathered, after a step of a worker that takes no game.          *)
LEMMA GatheredOn ==
    ASSUME PassesInv, NEW w \in Collectors, NEW r \in CollectorState,
           collector' = [collector EXCEPT ![w] = r], nextGame' = nextGame, first' = first,
           phase = "collecting", hi' \in (first + 1)..hi,
           \A e \in r.buf : \/ e \in collector[w].buf
                            \/ e \in LeftOf(collector[w]) /\ e \notin LeftOf(r) /\ first <= PartOf(e),
           LeftOf(r) \subseteq LeftOf(collector[w]),
           \A e \in collector[w].buf : PartOf(e) < hi' => e \in r.buf,
           \A e \in LeftOf(collector[w]) : PartOf(e) \in first..(hi' - 1) => e \in LeftOf(r) \/ e \in r.buf
    PROVE  GatheredNow'
<1>1. PassesTyped /\ GatheredNow
  BY DEF PassesInv
<1>2. nextGame \in Nat /\ first \in Nat /\ hi \in Nat /\ hi' \in Nat /\ hi' <= hi
  BY <1>1 DEF PassesTyped
<1>3. /\ \A v \in Collectors : v # w => BufNow'[v] = BufNow[v] /\ LeftNow'[v] = LeftNow[v]
      /\ BufNow'[w] = r.buf /\ LeftNow'[w] = LeftOf(r)
      /\ BufNow[w] = collector[w].buf /\ LeftNow[w] = LeftOf(collector[w])
  BY <1>1, WorkerChanges
<1>4. Gathered(BufNow, LeftNow, nextGame, first, hi)
  BY <1>1 DEF GatheredNow
<1>5. \A e \in BufNow'[w] : \/ e \in BufNow[w]
                            \/ e \in LeftNow[w] /\ e \notin LeftNow'[w] /\ first <= PartOf(e)
  BY <1>3
<1>6. /\ \A e \in LeftNow'[w] : e \in LeftNow[w]
      /\ \A e \in BufNow[w] : PartOf(e) < hi' => e \in BufNow'[w]
      /\ \A e \in LeftNow[w] : PartOf(e) \in first..(hi' - 1) => e \in LeftNow'[w] \/ e \in BufNow'[w]
  BY <1>3
<1> DEFINE b2 == BufNow'
           l2 == LeftNow'
           h2 == hi'
<1> HIDE DEF b2, l2, h2
<1>7. Gathered(b2, l2, nextGame, first, h2)
  <2>1. \A v \in Collectors : v # w => b2[v] = BufNow[v] /\ l2[v] = LeftNow[v]
    BY <1>3 DEF b2, l2
  <2>2. \A e \in b2[w] : \/ e \in BufNow[w]
                         \/ e \in LeftNow[w] /\ e \notin l2[w] /\ first <= PartOf(e)
    BY <1>5 DEF b2, l2
  <2>3. \A e \in l2[w] : e \in LeftNow[w]
    BY <1>6 DEF l2
  <2>4. \A e \in BufNow[w] : PartOf(e) < h2 => e \in b2[w]
    BY <1>6 DEF b2, h2
  <2>5. \A e \in LeftNow[w] : PartOf(e) \in first..(h2 - 1) => e \in l2[w] \/ e \in b2[w]
    BY <1>6 DEF b2, l2, h2
  <2>6. nextGame \in Nat /\ first \in Nat /\ hi \in Nat
    BY <1>2
  <2>7. h2 \in Nat /\ h2 <= hi
    BY <1>2 DEF h2
  <2>8. GoesOnIn(w, BufNow, LeftNow, b2, l2, first, h2)
    BY <2>1, <2>2, <2>3, <2>4, <2>5 DEF GoesOnIn
  <2> QED
    BY <1>4, <2>6, <2>7, <2>8, GatherOn
<1> QED
  BY <1>7 DEF GatheredNow, b2, l2, h2

(* A worker at none of its games has nothing left.                         *)
LEMMA NothingLeft ==
    ASSUME NEW r, r.pc \notin Adding
    PROVE  LeftOf(r) = {}
  BY DEF LeftOf

LEMMA StartKeeps ==
    ASSUME PassesInv, NEW w \in Collectors, phase = "collecting", Start(w)
    PROVE  PassesInv'
<1>1. PassesTyped /\ PlanNow /\ TakingNow
  BY DEF PassesInv
<1>2. "taking" \in CollectorSteps /\ collector' = [collector EXCEPT ![w].pc = "taking"]
  BY DEF Start, CollectorSteps
<1>3. PICK r \in CollectorState :
         /\ collector' = [collector EXCEPT ![w] = r] /\ r.pc = "taking"
         /\ r.game = collector[w].game /\ r.ply = collector[w].ply /\ r.buf = collector[w].buf
  BY <1>1, <1>2, OnlyStep
<1>4. /\ collector[w].pc = "starting" /\ UNCHANGED <<phase, hi, nextGame, plan>>
      /\ taking' = IF taking = 0 THEN count ELSE taking
  BY DEF Start
<1>5. UNCHANGED <<room, first, planned, count, tree>>
  BY <1>4 DEF plan
<1>6. LeftOf(r) = {} /\ LeftOf(collector[w]) = {}
  BY <1>3, <1>4, NothingLeft DEF Adding
<1>7. count \in 1..MaxCollectors /\ taking' \in 1..MaxCollectors
  BY <1>1, <1>4, PassesNumbers DEF PassesTyped
<1>8. hi' \in (first + 1)..hi
  BY <1>1, <1>4 DEF PassesTyped, PlanNow
<1>9. GatheredNow'
  BY <1>3, <1>4, <1>5, <1>6, <1>8, GatheredOn
<1>10. TakingNow'
  <2>1. collector'[w] = r /\ \A v \in Collectors : v # w => collector'[v] = collector[v]
    BY <1>1, <1>3, WorkerChanges
  <2>2. BusyNow' = BusyNow
    BY <1>3, <1>4, <2>1 DEF BusyNow
  <2> QED
    BY <1>1, <1>4, <1>5, <1>7, <2>2 DEF TakingNow
<1>11. r.pc \notin Adding /\ r.pc # "cutting" /\ taking' \in 0..MaxCollectors /\ nextGame' \in Nat \ {0}
  BY <1>1, <1>3, <1>4, <1>7 DEF Adding, PassesTyped
<1> QED
  BY <1>3, <1>4, <1>8, <1>9, <1>10, <1>11, StepKeeps

(* A worker fewer.                                                         *)
LEMMA OneEnds ==
    ASSUME PassesTyped, NEW w \in Collectors, NEW r \in CollectorState,
           collector' = [collector EXCEPT ![w] = r], r.pc = "ended", w \in BusyNow
    PROVE  Cardinality(BusyNow') = Cardinality(BusyNow) - 1 /\ Cardinality(BusyNow) \in Nat
<1>1. collector'[w] = r /\ \A v \in Collectors : v # w => collector'[v] = collector[v]
  BY WorkerChanges
<1>2. BusyNow' = BusyNow \ {w}
  BY <1>1 DEF BusyNow
<1>3. IsFiniteSet(BusyNow) /\ Cardinality(BusyNow) \in Nat
  BY PassesNumbers DEF BusyNow
<1>4. Cardinality(BusyNow \ {w}) = Cardinality(BusyNow) - 1
  BY <1>3, FS_RemoveElement
<1> QED
  BY <1>2, <1>3, <1>4

LEMMA LeaveKeeps ==
    ASSUME PassesInv, NEW w \in Collectors, phase = "collecting", LeaveChunks(w)
    PROVE  PassesInv'
<1>1. PassesTyped /\ PlanNow /\ TakingNow
  BY DEF PassesInv
<1>2. "ended" \in CollectorSteps /\ collector' = [collector EXCEPT ![w].pc = "ended"]
  BY DEF LeaveChunks, CollectorSteps
<1>3. PICK r \in CollectorState :
         /\ collector' = [collector EXCEPT ![w] = r] /\ r.pc = "ended"
         /\ r.game = collector[w].game /\ r.ply = collector[w].ply /\ r.buf = collector[w].buf
  BY <1>1, <1>2, OnlyStep
<1>4. /\ collector[w].pc = "taking" /\ UNCHANGED <<phase, hi, nextGame, plan>>
      /\ taking' = taking - 1 /\ taking > 1
  BY DEF LeaveChunks
<1>5. UNCHANGED <<room, first, planned, count, tree>>
  BY <1>4 DEF plan
<1>6. LeftOf(r) = {} /\ LeftOf(collector[w]) = {}
  BY <1>3, <1>4, NothingLeft DEF Adding
<1>7. taking' \in 1..MaxCollectors /\ taking \in Nat /\ nextGame \in Nat
  BY <1>1, <1>4, PassesNumbers DEF PassesTyped
<1>8. hi' \in (first + 1)..hi
  BY <1>1, <1>4 DEF PassesTyped, PlanNow
<1>9. GatheredNow'
  BY <1>3, <1>4, <1>5, <1>6, <1>8, GatheredOn
<1>10. TakingNow'
  <2>1. w \in BusyNow
    BY <1>4 DEF BusyNow
  <2>2. Cardinality(BusyNow') = Cardinality(BusyNow) - 1 /\ Cardinality(BusyNow) \in Nat
    BY <1>1, <1>3, <2>1, OneEnds
  <2>3. taking' # 0 /\ Games \in Nat /\ MaxCollectors \in Nat
    BY <1>7, PassesNumbers
  <2>4. nextGame' + Cardinality(BusyNow') <= Games + 1 + MaxCollectors
    BY <1>1, <1>4, <1>7, <2>2, <2>3 DEF TakingNow
  <2>5. phase' = "collecting" /\ nextGame' <= Games => Cardinality(BusyNow') = taking'
    BY <1>1, <1>4, <1>7, <2>2 DEF TakingNow
  <2> QED
    BY <2>3, <2>4, <2>5 DEF TakingNow
<1>11. r.pc \notin Adding /\ r.pc # "cutting" /\ taking' \in 0..MaxCollectors /\ nextGame' \in Nat \ {0}
  BY <1>1, <1>3, <1>4, <1>7 DEF Adding, PassesTyped
<1> QED
  BY <1>3, <1>4, <1>8, <1>9, <1>10, <1>11, StepKeeps

(* What is gathered, once a worker took the next game.                     *)
LEMMA GatheredNext ==
    ASSUME PassesTyped, GatheredNow, NEW w \in Collectors, NEW r \in CollectorState,
           collector' = [collector EXCEPT ![w] = r], nextGame' = nextGame + 1, UNCHANGED <<first, hi>>,
           LeftOf(collector[w]) = {}, r.buf = collector[w].buf,
           \A e \in LeftOf(r) : e \in StreamEntries /\ e[1] = nextGame,
           \A e \in StreamEntries : e[1] = nextGame /\ PartOf(e) \in first..(hi - 1) => e \in LeftOf(r)
    PROVE  GatheredNow'
<1>1. /\ \A v \in Collectors : v # w => BufNow'[v] = BufNow[v] /\ LeftNow'[v] = LeftNow[v]
      /\ BufNow'[w] = r.buf /\ LeftNow'[w] = LeftOf(r)
      /\ BufNow[w] = collector[w].buf /\ LeftNow[w] = LeftOf(collector[w])
  BY WorkerChanges
<1>2. BufNow' = BufNow
  <2>1. \A v \in Collectors : BufNow'[v] = BufNow[v]
    BY <1>1
  <2> QED
    BY <2>1 DEF BufNow
<1> DEFINE l2 == LeftNow'
<1>3. /\ LeftNow[w] = {} /\ \A v \in Collectors : v # w => l2[v] = LeftNow[v]
      /\ \A e \in l2[w] : e \in StreamEntries /\ e[1] = nextGame
      /\ \A e \in StreamEntries : e[1] = nextGame /\ PartOf(e) \in first..(hi - 1) => e \in l2[w]
  BY <1>1
<1> HIDE DEF l2
<1>4. Gathered(BufNow, LeftNow, nextGame, first, hi) /\ nextGame \in Nat
  BY DEF GatheredNow, PassesTyped
<1>5. Gathered(BufNow, l2, nextGame + 1, first, hi)
  BY <1>3, <1>4, GatherNext
<1> QED
  BY <1>2, <1>5 DEF GatheredNow, l2

LEMMA TakeKeeps ==
    ASSUME PassesInv, NEW w \in Collectors, phase = "collecting", TakeChunk(w)
    PROVE  PassesInv'
<1>1. PassesTyped /\ PlanNow /\ GatheredNow /\ TakingNow
  BY DEF PassesInv
<1>2. /\ collector[w].pc = "taking" /\ UNCHANGED <<phase, hi, taking, plan>>
      /\ nextGame' = nextGame + 1
  BY DEF TakeChunk
<1>3. UNCHANGED <<room, first, planned, count, tree>>
  BY <1>2 DEF plan
<1>4. /\ nextGame \in Nat \ {0} /\ nextGame' \in Nat \ {0} /\ taking \in Nat /\ taking' \in 0..MaxCollectors
      /\ Games \in Nat /\ MaxCollectors \in Nat /\ GameIds = 1..Games
  BY <1>1, <1>2, PassesNumbers DEF PassesTyped
<1>5. hi' \in (first + 1)..hi
  BY <1>1, <1>2 DEF PassesTyped, PlanNow
<1>6. LeftOf(collector[w]) = {} /\ taking # 0 /\ w \in BusyNow
  BY <1>1, <1>2, NothingLeft DEF Adding, TakingNow, BusyNow
<1>7. CASE nextGame <= Games
  <2>1. collector[w] \in CollectorState
    BY <1>1 DEF PassesTyped
  <2>2. collector[w].buf \subseteq StreamEntries /\ collector[w].len \in Nat
    BY <2>1 DEF CollectorState
  <2>3. (collector[w].last \/ Full(w)) \in BOOLEAN
    OBVIOUS
  <2>4. PICK last \in BOOLEAN : GoOn(w, nextGame, 1, collector[w].buf, collector[w].len, last)
    BY <1>7, <2>3 DEF TakeChunk
  <2> PICK game, buf, len : game = nextGame /\ buf = collector[w].buf /\ len = collector[w].len
    OBVIOUS
  <2>4a. GoOn(w, game, 1, buf, len, last)
    BY <2>4 DEF GoOn
  <2>4b. buf \subseteq StreamEntries /\ len \in Nat /\ 1 \in Nat
    BY <2>2
  <2>5. game \in GameIds
    BY <1>4, <1>7
  <2>6a. PICK r \in CollectorState : GoesAs(w, game, 1, buf, r)
    BY <1>1, <2>4a, <2>4b, <2>5, GoesOnInGame
  <2>6. /\ collector' = [collector EXCEPT ![w] = r]
        /\ r.pc \in {"taking", "replaying"} /\ r.buf = buf
        /\ LeftOf(r) \subseteq LeftFrom(game, 1)
        /\ \A e \in LeftFrom(game, 1) : PartOf(e) \in first..(hi - 1) => e \in LeftOf(r)
        /\ r.pc = "replaying" => EntryAt(r) \in StreamEntries /\ first <= PartOf(EntryAt(r))
    BY <2>6a DEF GoesAs
  <2>7. \A e \in StreamEntries : e[2] >= 1
    <3> SUFFICES ASSUME NEW e \in StreamEntries PROVE e[2] >= 1
      OBVIOUS
    <3>1. e[1] \in GameIds /\ e[2] \in DOMAIN LineOf[e[1]]
      BY EntriesTyped
    <3>2. LineOf[e[1]] \in Seq(PartIds)
      BY <3>1, PassesAssumption
    <3>3. DOMAIN LineOf[e[1]] = 1..Len(LineOf[e[1]]) /\ Len(LineOf[e[1]]) \in Nat
      BY <3>2
    <3> QED
      BY <3>1, <3>3
  <2>8. /\ \A e \in LeftOf(r) : e \in StreamEntries /\ e[1] = nextGame
        /\ \A e \in StreamEntries : e[1] = nextGame /\ PartOf(e) \in first..(hi - 1) => e \in LeftOf(r)
    BY <2>6, <2>7 DEF LeftFrom
  <2>9. GatheredNow'
    BY <1>1, <1>2, <1>3, <1>6, <2>6, <2>8, GatheredNext
  <2>10. TakingNow'
    <3>1. collector'[w] = r /\ \A v \in Collectors : v # w => collector'[v] = collector[v]
      BY <1>1, <2>6, WorkerChanges
    <3>2. BusyNow' = BusyNow
      BY <1>2, <2>6, <3>1 DEF BusyNow
    <3>3. Cardinality(BusyNow) \in Nat /\ Cardinality(BusyNow) <= MaxCollectors
      BY PassesNumbers DEF BusyNow
    <3>4. nextGame' + Cardinality(BusyNow') <= Games + 1 + MaxCollectors
      BY <1>2, <1>4, <1>7, <3>2, <3>3
    <3>5. Cardinality(BusyNow') = taking'
      BY <1>1, <1>2, <1>6, <1>7, <3>2 DEF TakingNow
    <3> QED
      BY <1>2, <1>6, <3>4, <3>5 DEF TakingNow
  <2>11. /\ r.pc \in Adding => EntryAt(r) \in StreamEntries /\ first <= PartOf(EntryAt(r))
         /\ r.pc # "cutting"
    BY <2>6 DEF Adding
  <2> QED
    BY <1>2, <1>4, <1>5, <2>6, <2>9, <2>10, <2>11, StepKeeps
<1>8. CASE ~(nextGame <= Games)
  <2>1. "ended" \in CollectorSteps /\ collector' = [collector EXCEPT ![w].pc = "ended"]
    BY <1>8 DEF TakeChunk, CollectorSteps
  <2>2. PICK r \in CollectorState :
         /\ collector' = [collector EXCEPT ![w] = r] /\ r.pc = "ended"
         /\ r.game = collector[w].game /\ r.ply = collector[w].ply /\ r.buf = collector[w].buf
    BY <1>1, <2>1, OnlyStep
  <2>3. LeftOf(r) = {}
    BY <2>2, NothingLeft DEF Adding
  <2>4. \A e \in StreamEntries : e[1] # nextGame
    BY <1>4, <1>8, EntriesTyped
  <2>5. GatheredNow'
    BY <1>1, <1>2, <1>3, <1>6, <2>2, <2>3, <2>4, GatheredNext
  <2>6. TakingNow'
    <3>1. Cardinality(BusyNow') = Cardinality(BusyNow) - 1 /\ Cardinality(BusyNow) \in Nat
      BY <1>1, <1>6, <2>2, OneEnds
    <3>2. nextGame' + Cardinality(BusyNow') <= Games + 1 + MaxCollectors
      BY <1>1, <1>2, <1>4, <3>1 DEF TakingNow
    <3>3. ~(nextGame' <= Games)
      BY <1>2, <1>4, <1>8
    <3> QED
      BY <1>2, <1>6, <3>2, <3>3 DEF TakingNow
  <2>7. r.pc \notin Adding /\ r.pc # "cutting"
    BY <2>2 DEF Adding
  <2> QED
    BY <1>2, <1>4, <1>5, <2>2, <2>5, <2>6, <2>7, StepKeeps
<1> QED
  BY <1>7, <1>8

(* A worker adds an entry, or leaves it out for an end before its part.    *)
LEMMA AddKeeps ==
    ASSUME PassesInv, NEW w \in Collectors, phase = "collecting",
           collector[w].pc \in {"replaying", "adding"}, AddEntry(w),
           UNCHANGED <<phase, hi, nextGame, taking, plan>>
    PROVE  PassesInv'
<1>1. PassesTyped /\ PlanNow /\ GatheredNow /\ EntriesNow /\ TakingNow
  BY DEF PassesInv
<1>2. UNCHANGED <<room, first, planned, count, tree>>
  BY DEF plan
<1>3. hi' \in (first + 1)..hi /\ nextGame' \in Nat \ {0} /\ taking' \in 0..MaxCollectors
  BY <1>1 DEF PassesTyped, PlanNow
<1> PICK c : c = collector[w]
  OBVIOUS
<1>4. c \in CollectorState
  BY <1>1 DEF PassesTyped
<1>5. c.game \in Nat /\ c.ply \in Nat /\ c.buf \subseteq StreamEntries /\ c.len \in Nat /\ c.last \in BOOLEAN
  BY <1>4 DEF CollectorState
<1> DEFINE x == EntryAt(c)
<1>6. x \in StreamEntries /\ first <= PartOf(x) /\ x = <<c.game, c.ply>> /\ Entry(w) = x
  BY <1>1 DEF EntriesNow, Adding, EntryAt, Entry
<1>7. c.game \in GameIds
  BY <1>6, EntriesTyped
<1>8. LeftOf(c) = LeftFrom(c.game, c.ply)
  BY DEF LeftOf, Adding
<1>9. LeftFrom(c.game, c.ply + 1) = LeftFrom(c.game, c.ply) \ {x}
  <2>1. ASSUME NEW e \in StreamEntries, e[1] = c.game
        PROVE  e[2] >= c.ply + 1 <=> e[2] >= c.ply /\ e # x
    <3>1. e[2] \in Nat /\ e = <<e[1], e[2]>> /\ x[2] = c.ply
      BY <1>6, EntriesTyped
    <3>2. e = x <=> e[2] = c.ply
      BY <2>1, <3>1, <1>6
    <3>3. e[2] >= c.ply + 1 <=> e[2] >= c.ply /\ e[2] # c.ply
      BY <3>1, <1>5
    <3> QED
      BY <3>2, <3>3
  <2> HIDE DEF x
  <2> QED
    BY <2>1 DEF LeftFrom
<1>10. x \in LeftFrom(c.game, c.ply)
  BY <1>5, <1>6 DEF LeftFrom
<1> HIDE DEF x
<1> DEFINE added == IF Within(w) THEN c.buf \union {x} ELSE c.buf
           size == IF Within(w) THEN c.len + 1 ELSE c.len
<1>11. GoOn(w, c.game, c.ply + 1, added, size, c.last)
  BY <1>6 DEF AddEntry, GoOn
<1>12. added \subseteq StreamEntries /\ size \in Nat /\ c.ply + 1 \in Nat
  BY <1>5, <1>6
<1>13. /\ \A e \in added : e \in c.buf \/ e = x
       /\ \A e \in c.buf : e \in added
       /\ PartOf(x) < hi => x \in added
  BY <1>6 DEF Within
<1>13a. PICK game, b, n, ply : game = c.game /\ b = added /\ n = size /\ ply = c.ply + 1
  OBVIOUS
<1>14a. GoOn(w, game, ply, b, n, c.last)
  BY <1>11, <1>13a DEF GoOn
<1>14. PICK last \in BOOLEAN : GoOn(w, game, ply, b, n, last)
  BY <1>5, <1>14a
<1>15. b \subseteq StreamEntries /\ n \in Nat /\ ply \in Nat
  BY <1>12, <1>13a
<1>15a. game \in GameIds
  BY <1>7, <1>13a
<1>15c. PassesTyped
  BY <1>1
<1>16. /\ \A e \in b : e \in c.buf \/ e = x
       /\ \A e \in c.buf : e \in b
       /\ PartOf(x) < hi => x \in b
  BY <1>13, <1>13a
<1>17. LeftFrom(game, ply) = LeftFrom(c.game, c.ply) \ {x}
  BY <1>9, <1>13a
<1> HIDE DEF added, size
<1>18a. PICK r \in CollectorState : GoesAs(w, game, ply, b, r)
  BY <1>15c, <1>14, <1>15, <1>15a, GoesOnInGame
<1>18. /\ collector' = [collector EXCEPT ![w] = r]
       /\ r.pc \in {"taking", "replaying"} /\ r.buf = b
       /\ LeftOf(r) \subseteq LeftFrom(game, ply)
       /\ \A e \in LeftFrom(game, ply) : PartOf(e) \in first..(hi - 1) => e \in LeftOf(r)
       /\ r.pc = "replaying" => EntryAt(r) \in StreamEntries /\ first <= PartOf(EntryAt(r))
  BY <1>18a DEF GoesAs
<1>19. GatheredNow'
  <2>1. \A e \in r.buf : \/ e \in collector[w].buf
                         \/ e \in LeftOf(collector[w]) /\ e \notin LeftOf(r) /\ first <= PartOf(e)
    BY <1>6, <1>8, <1>10, <1>16, <1>17, <1>18
  <2>2. LeftOf(r) \subseteq LeftOf(collector[w])
    BY <1>8, <1>17, <1>18
  <2>3. \A e \in collector[w].buf : PartOf(e) < hi' => e \in r.buf
    BY <1>16, <1>18
  <2>4. \A e \in LeftOf(collector[w]) : PartOf(e) \in first..(hi' - 1) => e \in LeftOf(r) \/ e \in r.buf
    <3> SUFFICES ASSUME NEW e \in LeftOf(c), PartOf(e) \in first..(hi - 1)
                 PROVE  e \in LeftOf(r) \/ e \in r.buf
      OBVIOUS
    <3>1. CASE e = x
      <4>1. first \in Int /\ hi \in Int
        BY <1>1 DEF PassesTyped
      <4>2. PartOf(x) < hi
        BY <3>1, <4>1
      <4> QED
        BY <3>1, <4>2, <1>16, <1>18
    <3>2. CASE e # x
      BY <3>2, <1>8, <1>17, <1>18
    <3> QED
      BY <3>1, <3>2
  <2> QED
    BY <1>2, <1>3, <1>18, <2>1, <2>2, <2>3, <2>4, GatheredOn
<1>20. TakingNow'
  BY <1>1, <1>2, <1>18, TakingKept
<1>21. /\ r.pc \in Adding => EntryAt(r) \in StreamEntries /\ first <= PartOf(EntryAt(r))
       /\ r.pc # "cutting"
  BY <1>18 DEF Adding
<1> QED
  BY <1>3, <1>18, <1>19, <1>20, <1>21, StepKeeps

(* A step that lets go of entries past an end of the pass.                 *)
LEMMA LetGoKeeps ==
    ASSUME PassesInv, NEW w \in Collectors, phase = "collecting", phase' = phase,
           collector[w].pc \in Adding, NEW step \in Adding, NEW h \in Nat, NEW len \in Nat,
           collector' = [collector EXCEPT ![w].buf = Before(h, collector[w].buf),
                                          ![w].len = len, ![w].pc = step],
           hi' \in (first + 1)..hi, hi' <= h, UNCHANGED <<nextGame, taking, plan>>,
           step = "cutting" => (Cap \div 4) * 3 < Folded(Before(h, collector[w].buf))
    PROVE  PassesInv'
<1>1. PassesTyped /\ PlanNow /\ GatheredNow /\ EntriesNow /\ TakingNow
  BY DEF PassesInv
<1>2. UNCHANGED <<room, first, planned, count, tree>>
  BY DEF plan
<1>3. nextGame' \in Nat \ {0} /\ taking' \in 0..MaxCollectors
  BY <1>1 DEF PassesTyped
<1> PICK c, buf : c = collector[w] /\ buf = Before(h, collector[w].buf)
  OBVIOUS
<1>4. c \in CollectorState
  BY <1>1 DEF PassesTyped
<1>5. c.buf \subseteq StreamEntries /\ buf \subseteq c.buf /\ buf = {e \in c.buf : PartOf(e) < h}
  BY <1>4 DEF CollectorState, Before
<1> DEFINE r == [c EXCEPT !.buf = buf, !.len = len, !.pc = step]
<1>7. step \in CollectorSteps /\ buf \in SUBSET StreamEntries
  BY <1>5 DEF Adding, CollectorSteps
<1>6. r \in CollectorState
  BY <1>4, <1>7 DEF CollectorState
<1>9. collector' = [collector EXCEPT ![w] = r]
  BY <1>1 DEF PassesTyped
<1>10. r.pc = step /\ r.game = c.game /\ r.ply = c.ply /\ r.buf = buf
  BY <1>4 DEF CollectorState
<1> HIDE DEF r
<1>11. LeftOf(r) = LeftOf(c) /\ EntryAt(r) = EntryAt(c)
  BY <1>10 DEF LeftOf, EntryAt
<1>12. GatheredNow'
  <2>1. \A e \in collector[w].buf : PartOf(e) < hi' => e \in r.buf
    <3> SUFFICES ASSUME NEW e \in c.buf, PartOf(e) < hi' PROVE e \in buf
      BY <1>10
    <3>1. PartOf(e) \in Nat
      BY <1>5, EntriesTyped
    <3>2. first \in Int /\ hi \in Int
      BY <1>1 DEF PassesTyped
    <3>3. hi' \in Int
      BY <3>2
    <3>4. PartOf(e) < h
      BY <3>1, <3>3
    <3> QED
      BY <1>5, <3>4
  <2> QED
    BY <1>2, <1>5, <1>6, <1>9, <1>10, <1>11, <2>1, GatheredOn
<1>13. TakingNow'
  BY <1>1, <1>2, <1>6, <1>9, <1>10, TakingKept DEF Adding
<1>14. EntryAt(r) \in StreamEntries /\ first <= PartOf(EntryAt(r))
  BY <1>1, <1>11 DEF EntriesNow
<1>15. r.pc = "cutting" => (Cap \div 4) * 3 < Folded(r.buf)
  BY <1>10
<1> QED
  BY <1>3, <1>6, <1>9, <1>12, <1>13, <1>14, <1>15, StepKeeps

LEMMA MakeRoomKeeps ==
    ASSUME PassesInv, NEW w \in Collectors, phase = "collecting", MakeRoom(w)
    PROVE  PassesInv'
<1>1. PassesTyped /\ PlanNow
  BY DEF PassesInv
<1>2. collector[w].pc \in Adding /\ UNCHANGED <<phase, hi, nextGame, taking, plan>>
  BY DEF MakeRoom, Adding
<1>3. hi' \in (first + 1)..hi /\ hi \in Nat /\ hi' = hi /\ phase' = phase /\ UNCHANGED <<nextGame, taking, plan>>
  BY <1>1, <1>2 DEF PassesTyped, PlanNow
<1> PICK h, buf, step, len :
      /\ h = hi /\ buf = Before(hi, collector[w].buf) /\ len = Folded(Before(hi, collector[w].buf))
      /\ step = IF Folded(Before(hi, collector[w].buf)) > (Cap \div 4) * 3 THEN "cutting" ELSE "adding"
  OBVIOUS
<1>4. collector' = [collector EXCEPT ![w].buf = Before(h, collector[w].buf), ![w].len = len, ![w].pc = step]
  BY DEF MakeRoom
<1>5. buf \subseteq StreamEntries
  <2>1. collector[w] \in CollectorState
    BY <1>1 DEF PassesTyped
  <2> QED
    BY <2>1 DEF CollectorState, Before
<1>6. len \in Nat /\ step \in Adding
  BY <1>5, FoldedTyped DEF Adding
<1>7. Cap \in Nat
  BY <1>1 DEF PlanNow
<1>8. step = "cutting" => (Cap \div 4) * 3 < Folded(Before(h, collector[w].buf))
  BY <1>6, <1>7
<1>9. h \in Nat /\ hi' <= h
  BY <1>3
<1>10. step \in Adding /\ len \in Nat /\ collector[w].pc \in Adding
  BY <1>2, <1>6
<1> QED
  BY <1>3, <1>4, <1>8, <1>9, <1>10, LetGoKeeps

(* The end of the pass that a worker finds: its first part is kept whole,  *)
(* and what is kept leaves room.                                           *)
LEMMA CutLeavesRoom ==
    ASSUME PassesInv, NEW w \in Collectors, phase = "collecting", collector[w].pc = "cutting",
           NEW buf, buf = collector[w].buf, NEW cut, cut = Max({PartAt(Cap \div 2, buf), first + 1})
    PROVE  /\ cut \in Nat /\ first + 1 <= cut
           /\ Before(cut, buf) \subseteq StreamEntries
           /\ Folded(Before(cut, buf)) \in Nat
           /\ ~(Folded(Before(cut, buf)) > Cap - Cap \div 8)
<1>1. PassesTyped /\ PlanNow /\ GatheredNow /\ EntriesNow
  BY DEF PassesInv
<1>2. collector[w] \in CollectorState
  BY <1>1 DEF PassesTyped
<1>3. buf \subseteq StreamEntries
  BY <1>2 DEF CollectorState
<1>4. first \in PartIds /\ first \in Nat /\ first + 1 \in PartIds \union {PartCount}
  BY <1>1, PassesNumbers DEF PassesTyped, PlanNow
<1>5. Cap \in Nat /\ Needed(Counted(first)) <= Cap
  BY <1>1 DEF PlanNow
<1>6. Of(first, StreamEntries) \subseteq Of(first, StreamEntries)
  OBVIOUS
<1>7. Counted(first) \in Nat
  BY <1>4, <1>6, FoldedOfPart
<1> PICK cap, n, f : cap = Cap /\ n = Counted(first) /\ f = first
  OBVIOUS
<1>8. /\ Needed(n) \in Nat /\ Needed(n) >= 4
      /\ \A x \in Nat : x >= Needed(n) => n <= x - x \div 8
  BY <1>7, NeedsMore
<1>9. cap \in Nat /\ cap >= 4 /\ n <= cap - cap \div 8
  BY <1>5, <1>8
<1>10. /\ cap \div 2 \in Nat /\ (cap \div 4) * 3 >= cap \div 2 /\ cap \div 2 <= cap - cap \div 8
       /\ cap - cap \div 8 \in Nat
  BY <1>9
<1>11. Folded(buf) \in Nat
  BY <1>3, FoldedTyped
<1>12. (cap \div 4) * 3 < Folded(buf)
  BY <1>1 DEF EntriesNow
<1>13. Folded(buf) > cap \div 2
  <2> PICK k : k = Folded(buf)
    OBVIOUS
  <2>1. k \in Nat /\ (cap \div 4) * 3 < k
    BY <1>11, <1>12
  <2>2. k > cap \div 2
    BY <2>1, <1>9, <1>10
  <2> QED
    BY <2>2
<1> PICK i : i = cap \div 2
  OBVIOUS
<1> PICK p : p = PartAt(i, buf)
  OBVIOUS
<1>14. p \in PartIds /\ Folded(Before(p, buf)) <= i
  BY <1>3, <1>10, <1>13, PartAtPlace
<1>15. p \in Nat
  BY <1>14, PassesNumbers
<1>16. cut = Max({p, f + 1}) /\ f + 1 \in Nat
  BY <1>4
<1>17. cut = IF p >= f + 1 THEN p ELSE f + 1
  BY <1>15, <1>16, LargerOf
<1>18. cut \in Nat /\ first + 1 <= cut
  BY <1>15, <1>16, <1>17
<1>19. Before(cut, buf) \subseteq StreamEntries
  BY <1>3 DEF Before
<1>20. Folded(Before(cut, buf)) \in Nat
  BY <1>19, FoldedTyped
<1>21. Folded(Before(cut, buf)) <= cap - cap \div 8
  <2>1. CASE cut = p
    <3> PICK k : k = Folded(Before(cut, buf))
      OBVIOUS
    <3>1. k \in Nat /\ k <= i
      BY <1>14, <1>20, <2>1
    <3>2. k <= cap - cap \div 8
      BY <3>1, <1>10
    <3> QED
      BY <3>2
  <2>2. CASE cut = f + 1
    <3>1. \A e \in buf : first <= PartOf(e)
      <4>1. BufNow[w] = buf
        BY DEF BufNow
      <4> QED
        BY <1>1, <4>1 DEF GatheredNow, Gathered
    <3>2. \A e \in Before(cut, buf) : PartOf(e) = f
      <4> SUFFICES ASSUME NEW e \in Before(cut, buf) PROVE PartOf(e) = f
        OBVIOUS
      <4>1. PartOf(e) < f + 1 /\ f <= PartOf(e)
        BY <2>2, <3>1 DEF Before
      <4>2. PartOf(e) \in Nat /\ f \in Nat
        BY <1>4, <1>19, EntriesTyped
      <4> QED
        BY <4>1, <4>2
    <3>3. Before(cut, buf) \subseteq Of(f, StreamEntries) /\ f \in PartIds
      BY <1>4, <1>19, <3>2 DEF Of
    <3>4. Folded(Before(cut, buf)) <= n
      BY <3>3, FoldedOfPart
    <3> PICK k : k = Folded(Before(cut, buf))
      OBVIOUS
    <3>5. k \in Nat /\ k <= n /\ n \in Nat
      BY <1>7, <1>20, <3>4
    <3>6. k <= cap - cap \div 8
      BY <3>5, <1>9, <1>10
    <3> QED
      BY <3>6
  <2> QED
    BY <1>17, <2>1, <2>2
<1>22. ~(Folded(Before(cut, buf)) > cap - cap \div 8)
  <2> PICK k, m : k = Folded(Before(cut, buf)) /\ m = cap - cap \div 8
    OBVIOUS
  <2>1. k \in Nat /\ m \in Nat /\ k <= m
    BY <1>10, <1>20, <1>21
  <2>2. ~(k > m)
    BY <2>1
  <2> QED
    BY <2>2
<1> QED
  BY <1>18, <1>19, <1>20, <1>22

LEMMA CutKeeps ==
    ASSUME PassesInv, NEW w \in Collectors, phase = "collecting", Cut(w)
    PROVE  PassesInv'
<1>1. PassesTyped /\ PlanNow
  BY DEF PassesInv
<1> PICK buf, cut, len :
      /\ buf = collector[w].buf /\ cut = Max({PartAt(Cap \div 2, buf), first + 1})
      /\ len = Folded(Before(cut, buf))
  OBVIOUS
<1>2. /\ collector[w].pc = "cutting" /\ hi' = EndNoLater(cut)
      /\ collector' = [collector EXCEPT ![w].buf = Before(cut, collector[w].buf), ![w].len = len, ![w].pc = "adding"]
      /\ phase' = IF len > Cap - Cap \div 8 THEN "tooLarge" ELSE phase
      /\ UNCHANGED <<nextGame, taking, plan>>
  BY DEF Cut
<1>3. /\ cut \in Nat /\ first + 1 <= cut /\ len \in Nat
      /\ ~(len > Cap - Cap \div 8)
  BY <1>2, CutLeavesRoom
<1>4. hi \in Nat /\ first \in Nat /\ first < hi
  BY <1>1 DEF PassesTyped, PlanNow
<1>5. hi' = IF hi <= cut THEN hi ELSE cut
  <2>1. hi' = Min({hi, cut}) /\ hi \in Int /\ cut \in Int
    BY <1>2, <1>3, <1>4 DEF EndNoLater
  <2>2. Min({hi, cut}) = IF hi <= cut THEN hi ELSE cut
    BY <2>1, SmallerIs
  <2> QED
    BY <2>1, <2>2
<1>6. hi' \in (first + 1)..hi /\ hi' <= cut
  BY <1>3, <1>4, <1>5
<1>7. phase' = phase /\ collector[w].pc \in Adding /\ "adding" \in Adding /\ "adding" # "cutting"
  BY <1>2, <1>3 DEF Adding
<1> QED
  BY <1>2, <1>3, <1>6, <1>7, LetGoKeeps

(* Between passes nothing is gathered.                                     *)
LEMMA NothingGathered ==
    ASSUME NEW b, NEW l, NEW n, NEW f, NEW h, \A w \in Collectors : b[w] = {} /\ l[w] = {},
           \A e \in StreamEntries : ~(e[1] < n /\ PartOf(e) \in f..(h - 1))
    PROVE  Gathered(b, l, n, f, h)
  BY DEF Gathered

LEMMA NothingHeld ==
    ASSUME NEW c, c = collector, \A w \in Collectors : c[w].buf = {} /\ c[w].pc \notin Adding
    PROVE  \A w \in Collectors : BufNow[w] = {} /\ LeftNow[w] = {}
  BY DEF BufNow, LeftNow, LeftOf

LEMMA IdleTyped ==
    /\ Idle \in CollectorState /\ Idle.pc = "none" /\ Idle.buf = {}
    /\ \A step \in CollectorSteps : LET r == [Idle EXCEPT !.pc = step] IN
         r \in CollectorState /\ r.pc = step /\ r.buf = {}
<1>1. Idle \in CollectorState /\ Idle.pc = "none" /\ Idle.buf = {}
  BY DEF Idle, CollectorState, CollectorSteps
<1>2. \A step \in CollectorSteps : LET r == [Idle EXCEPT !.pc = step] IN
         r \in CollectorState /\ r.pc = step /\ r.buf = {}
  <2> PICK i : i = Idle
    OBVIOUS
  <2>1. i \in CollectorState /\ i.buf = {}
    BY <1>1
  <2>2. \A step \in CollectorSteps : LET r == [i EXCEPT !.pc = step] IN
         r \in CollectorState /\ r.pc = step /\ r.buf = {}
    BY <2>1 DEF CollectorState
  <2> QED
    BY <2>2
<1> QED
  BY <1>1, <1>2

LEMMA NoOneBusy ==
    ASSUME \A w \in Collectors : collector[w].pc \in {"none", "ended"}
    PROVE  BusyNow = {} /\ Cardinality(BusyNow) = 0
  BY FS_EmptySet DEF BusyNow

LEMMA PassesInitInv ==
    ASSUME PassesInit
    PROVE  PassesInv
<1>1. /\ phase = "begin" /\ room = 0 /\ first = 0 /\ hi = 0 /\ planned = 0
      /\ count = 1 /\ nextGame = 1 /\ taking = 0 /\ tree = {}
  BY DEF PassesInit
<1>2. \A w \in Collectors : collector[w] = Idle
  BY DEF PassesInit
<1>3. PassesTyped
  <2>1. collector \in [Collectors -> CollectorState]
    BY IdleTyped DEF PassesInit
  <2> QED
    BY <1>1, <2>1, PassesNumbers DEF PassesTyped
<1>4. \A w \in Collectors : collector[w].pc = "none" /\ collector[w].buf = {}
  BY <1>2, IdleTyped
<1>5. \A w \in Collectors : BufNow[w] = {} /\ LeftNow[w] = {}
  BY <1>4, NothingHeld DEF Adding
<1>6. \A e \in StreamEntries : PartOf(e) \in Nat
  BY EntriesTyped
<1>7. PlanNow
  <2>1. Before(0, StreamEntries) = {}
    BY <1>6 DEF Before
  <2> QED
    BY <1>1, <1>4, <2>1 DEF PlanNow
<1>8. GatheredNow
  <2>1. \A e \in StreamEntries : ~(e[1] < nextGame /\ PartOf(e) \in first..(hi - 1))
    BY <1>1
  <2> QED
    BY <1>5, <2>1, NothingGathered DEF GatheredNow
<1>9. EntriesNow
  BY <1>4 DEF EntriesNow, Adding
<1>10. TakingNow
  <2>1. Cardinality(BusyNow) = 0
    BY <1>4, NoOneBusy
  <2> QED
    BY <1>1, <1>4, <2>1, PassesNumbers DEF TakingNow
<1> QED
  BY <1>3, <1>7, <1>8, <1>9, <1>10 DEF PassesInv

LEMMA ReserveRoomKeeps ==
    ASSUME PassesInv, ReserveRoom
    PROVE  PassesInv'
<1>1. PassesTyped /\ PlanNow /\ GatheredNow /\ EntriesNow /\ TakingNow
  BY DEF PassesInv
<1>2. /\ phase = "begin" /\ phase' = "planning"
      /\ room' \in Rooms /\ \A part \in PartIds : room' >= Needed(Counted(part))
      /\ UNCHANGED <<first, hi, planned, count, nextGame, taking, collector, tree>>
  BY DEF ReserveRoom
<1>3. PassesTyped'
  BY <1>1, <1>2 DEF PassesTyped
<1>4. \A part \in PartIds : Needed(Counted(part)) <= room'
  <2> SUFFICES ASSUME NEW part \in PartIds PROVE Needed(Counted(part)) <= room'
    OBVIOUS
  <2>1. Counted(part) \in Nat
    BY FoldedOfPart
  <2>2. Needed(Counted(part)) \in Nat
    BY <2>1, NeedsMore
  <2>3. room' \in Nat /\ room' >= Needed(Counted(part))
    BY <1>2, PassesNumbers
  <2> PICK n, r : n = Needed(Counted(part)) /\ r = room'
    OBVIOUS
  <2> QED
    BY <2>2, <2>3
<1>5. PlanNow'
  BY <1>1, <1>2, <1>4 DEF PlanNow
<1>6. GatheredNow'
  <2>1. BufNow' = BufNow /\ LeftNow' = LeftNow
    BY <1>2 DEF BufNow, LeftNow
  <2> QED
    BY <1>1, <1>2, <2>1 DEF GatheredNow
<1>7. EntriesNow'
  <2>1. \A w \in Collectors : collector[w].pc = "none"
    BY <1>1, <1>2 DEF PlanNow
  <2> QED
    BY <1>2, <2>1 DEF EntriesNow, Adding
<1>8. TakingNow'
  <2>1. BusyNow' = BusyNow
    BY <1>2 DEF BusyNow
  <2> QED
    BY <1>1, <1>2, <2>1 DEF TakingNow
<1> QED
  BY <1>3, <1>5, <1>6, <1>7, <1>8 DEF PassesInv

(* The share of each worker that a pass may have.                          *)
LEMMA SharesHold ==
    ASSUME PassesTyped, PlanNow, phase = "planning", first < PartCount, NEW n \in 1..WorkersFor
    PROVE  /\ first \in PartIds /\ n \in Collectors
           /\ room \div n \in Nat /\ Needed(Counted(first)) <= room \div n
<1>1. first \in PartIds
  BY PassesNumbers DEF PassesTyped
<1>2. Counted(first) \in Nat
  BY <1>1, FoldedOfPart
<1> PICK need, r : need = Needed(Counted(first)) /\ r = room
  OBVIOUS
<1>3. need \in Nat /\ need >= 4 /\ r \in Nat /\ need <= r
  BY <1>1, <1>2, NeedsMore, PassesNumbers DEF PassesTyped, PlanNow
<1>4. r \div need \in Nat /\ MaxCollectors \in Nat \ {0}
  BY <1>3, PassesNumbers
<1> DEFINE least == Min({MaxCollectors, r \div need})
<1>5. least = IF MaxCollectors <= r \div need THEN MaxCollectors ELSE r \div need
  BY <1>4, SmallerIs
<1>6. least \in Nat /\ least <= MaxCollectors /\ least <= r \div need
  BY <1>4, <1>5
<1>7. WorkersFor = Max({1, least})
  BY DEF WorkersFor
<1> HIDE DEF least
<1>8. WorkersFor = IF 1 >= least THEN 1 ELSE least
  BY <1>6, <1>7, LargerOf
<1>9. n \in Nat \ {0} /\ n <= MaxCollectors /\ (n = 1 \/ n <= r \div need)
  BY <1>4, <1>6, <1>8
<1>10. n \in Collectors
  BY <1>9, PassesNumbers
<1>11. CASE n = 1
  <2>1. r \div 1 = r
    BY <1>3
  <2> QED
    BY <1>1, <1>3, <1>10, <1>11, <2>1
<1>12. CASE n <= r \div need
  <2>1. r \div n \in Nat /\ need <= r \div n
    BY <1>3, <1>9, <1>12, ShareHolds
  <2> QED
    BY <1>1, <1>10, <2>1
<1> QED
  BY <1>9, <1>11, <1>12

LEMMA BeginPassKeeps ==
    ASSUME PassesInv, BeginPass
    PROVE  PassesInv'
<1>1. PassesTyped /\ PlanNow
  BY DEF PassesInv
<1>2. /\ phase = "planning" /\ first < PartCount /\ phase' = "collecting"
      /\ hi' = PlannedTo(first) /\ planned' = SumOf(first..(hi' - 1))
      /\ nextGame' = 1 /\ taking' = 0 /\ count' \in 1..WorkersFor
      /\ UNCHANGED <<room, first, tree>>
  BY DEF BeginPass
<1> PICK n : n = count'
  OBVIOUS
<1>3. /\ first \in PartIds /\ n \in Collectors
      /\ room \div n \in Nat /\ Needed(Counted(first)) <= room \div n
  BY <1>1, <1>2, SharesHold
<1>4. hi' \in (first + 1)..PartCount
  BY <1>2, <1>3, PlansFirst
<1>5. planned' \in Nat
  BY <1>2, EntriesFinite DEF SumOf
<1>6. collector' = [w \in Collectors |-> [Idle EXCEPT !.pc = IF w <= n THEN "starting" ELSE "none"]]
  BY DEF BeginPass
<1>7. \A w \in Collectors : /\ collector'[w] \in CollectorState /\ collector'[w].buf = {}
                            /\ collector'[w].pc = IF w <= n THEN "starting" ELSE "none"
  BY <1>6, IdleTyped DEF CollectorSteps
<1>8. PassesTyped'
  <2>1. collector' \in [Collectors -> CollectorState]
    BY <1>6, <1>7
  <2>2. count' \in Collectors
    BY <1>3
  <2>3. first \in Nat /\ PartCount \in Nat /\ hi' \in 0..PartCount
    BY <1>3, <1>4, PassesNumbers
  <2>4. 0 \in 0..MaxCollectors
    BY PassesNumbers
  <2> QED
    BY <1>1, <1>2, <1>5, <2>1, <2>2, <2>3, <2>4 DEF PassesTyped
<1>9. PlanNow'
  <2>1. Cap' = room \div n
    BY <1>2 DEF Cap
  <2>2. first < hi'
    BY <1>3, <1>4, PassesNumbers
  <2> QED
    BY <1>1, <1>2, <1>3, <2>1, <2>2 DEF PlanNow
<1>10. GatheredNow'
  <2>1. \A w \in Collectors : BufNow'[w] = {} /\ LeftNow'[w] = {}
    BY <1>7 DEF BufNow, LeftNow, LeftOf, Adding
  <2>2. \A e \in StreamEntries : ~(e[1] < 1)
    BY EntriesTyped, PassesNumbers
  <2> PICK b, l, h : b = BufNow' /\ l = LeftNow' /\ h = hi'
    OBVIOUS
  <2>3. Gathered(b, l, 1, first, h)
    BY <2>1, <2>2, NothingGathered
  <2> QED
    BY <1>2, <2>3 DEF GatheredNow
<1>11. EntriesNow'
  BY <1>7 DEF EntriesNow, Adding
<1>12. TakingNow'
  <2>1. n \in 1..MaxCollectors /\ Collectors = 1..MaxCollectors /\ MaxCollectors \in Nat /\ Games \in Nat
    BY <1>3, PassesNumbers
  <2>2. BusyNow' = 1..n
    <3>1. BusyNow' = {w \in Collectors : w <= n}
      BY <1>7 DEF BusyNow
    <3> QED
      BY <2>1, <3>1
  <2>3. Cardinality(1..n) = n
    BY <2>1, FS_Interval
  <2>4. Cardinality(BusyNow') = n
    BY <2>2, <2>3
  <2>5. 1 + n <= Games + 1 + MaxCollectors
    <3>1. \A m \in Nat : \A g \in Nat : \A k \in 1..m : 1 + k <= g + 1 + m
      OBVIOUS
    <3> QED
      BY <2>1, <3>1
  <2>6. nextGame' + Cardinality(BusyNow') <= Games + 1 + MaxCollectors
    BY <1>2, <2>4, <2>5
  <2>7. \A w \in Collectors : collector'[w].pc \in {"none", "starting"}
    BY <1>7
  <2>8. Cardinality(BusyNow') = IF taking' = 0 THEN count' ELSE taking'
    BY <1>2, <2>4
  <2> QED
    BY <2>6, <2>7, <2>8 DEF TakingNow
<1> QED
  BY <1>8, <1>9, <1>10, <1>11, <1>12 DEF PassesInv

(* Once every worker ended, every game was taken.                          *)
LEMMA AllWereTaken ==
    ASSUME PassesInv, phase = "collecting", \A w \in Collectors : collector[w].pc \in {"none", "ended"}
    PROVE  \A e \in StreamEntries : e[1] < nextGame
<1>1. PassesTyped /\ TakingNow
  BY DEF PassesInv
<1>2. Cardinality(BusyNow) = 0
  BY NoOneBusy
<1>3. count # 0 /\ nextGame \in Nat
  BY <1>1, PassesNumbers DEF PassesTyped
<1>4. ~(nextGame <= Games)
  BY <1>1, <1>2, <1>3 DEF TakingNow
<1> QED
  BY <1>3, <1>4, EntriesTyped, PassesNumbers

LEMMA WritePassKeeps ==
    ASSUME PassesInv, WritePass
    PROVE  PassesInv'
<1>1. PassesTyped /\ PlanNow /\ GatheredNow /\ TakingNow
  BY DEF PassesInv
<1>2. /\ phase = "collecting" /\ \A w \in Collectors : collector[w].pc \in {"none", "ended"}
      /\ tree' = tree \union {e \in UNION {collector[w].buf : w \in Collectors} : PartOf(e) \in first..(hi - 1)}
      /\ first' = hi /\ phase' = "planning"
      /\ collector' = [w \in Collectors |-> Idle]
      /\ UNCHANGED <<room, hi, planned, count, nextGame, taking>>
  BY DEF WritePass
<1>3. first \in Nat /\ hi \in Nat /\ first < hi
  BY <1>1, <1>2 DEF PassesTyped, PlanNow
<1>4. \A w \in Collectors : collector'[w].pc = "none" /\ collector'[w].buf = {}
  BY <1>2, IdleTyped
<1>5. tree' = Before(hi, StreamEntries)
  <2>1. \A e \in StreamEntries : e[1] < nextGame
    BY <1>2, AllWereTaken
  <2>2. /\ \A w \in Collectors : \A e \in BufNow[w] : e \in StreamEntries
        /\ \A e \in StreamEntries : e[1] < nextGame /\ PartOf(e) \in first..(hi - 1) =>
              \E w \in Collectors : e \in BufNow[w] \/ e \in LeftNow[w]
    BY <1>1 DEF GatheredNow, Gathered
  <2>3. \A w \in Collectors : BufNow[w] = collector[w].buf /\ LeftNow[w] = {}
    BY <1>2 DEF BufNow, LeftNow, LeftOf, Adding
  <2>4. \A e \in StreamEntries : PartOf(e) \in first..(hi - 1) => \E w \in Collectors : e \in collector[w].buf
    BY <2>1, <2>2, <2>3
  <2>5. \A w \in Collectors : \A e \in collector[w].buf : e \in StreamEntries
    BY <2>2, <2>3
  <2>6. \A e \in StreamEntries : PartOf(e) < hi <=> PartOf(e) < first \/ PartOf(e) \in first..(hi - 1)
    BY <1>3, EntriesTyped
  <2>7. tree = {e \in StreamEntries : PartOf(e) < first}
    BY <1>1 DEF PlanNow, Before
  <2>8. \A e : e \in tree' <=> e \in StreamEntries /\ PartOf(e) < hi
    BY <1>2, <2>4, <2>5, <2>6, <2>7
  <2> QED
    BY <2>8 DEF Before
<1>6. PassesTyped'
  <2>1. collector' \in [Collectors -> CollectorState]
    BY <1>2, IdleTyped
  <2>2. tree' \subseteq StreamEntries
    BY <1>5 DEF Before
  <2> QED
    BY <1>1, <1>2, <2>1, <2>2 DEF PassesTyped
<1>7. PlanNow'
  BY <1>1, <1>2, <1>4, <1>5 DEF PlanNow
<1>8. GatheredNow'
  <2>1. \A w \in Collectors : BufNow'[w] = {} /\ LeftNow'[w] = {}
    BY <1>4 DEF BufNow, LeftNow, LeftOf, Adding
  <2> PICK b, l, n, h : b = BufNow' /\ l = LeftNow' /\ n = nextGame /\ h = hi
    OBVIOUS
  <2>2. \A e \in StreamEntries : ~(PartOf(e) \in h..(h - 1))
    BY <1>3, EntriesTyped
  <2>3. Gathered(b, l, n, h, h)
    BY <2>1, <2>2, NothingGathered
  <2> QED
    BY <1>2, <2>3 DEF GatheredNow
<1>9. EntriesNow'
  BY <1>4 DEF EntriesNow, Adding
<1>10. TakingNow'
  <2>1. BusyNow = {} /\ Cardinality(BusyNow) = 0
    BY <1>2, NoOneBusy
  <2>2. BusyNow' = {}
    BY <1>4 DEF BusyNow
  <2>3. nextGame' + Cardinality(BusyNow') <= Games + 1 + MaxCollectors
    BY <1>1, <1>2, <2>1, <2>2 DEF TakingNow
  <2>4. \A w \in Collectors : collector'[w].pc \in {"none", "starting"}
    BY <1>4
  <2> QED
    BY <1>2, <2>3, <2>4 DEF TakingNow
<1> QED
  BY <1>6, <1>7, <1>8, <1>9, <1>10 DEF PassesInv

(* At the end of the tree it holds all that was counted.                   *)
LEMMA EndTreeKeeps ==
    ASSUME PassesInv, EndTree
    PROVE  PassesInv'
<1>1. PassesTyped /\ PlanNow /\ GatheredNow /\ EntriesNow /\ TakingNow
  BY DEF PassesInv
<1>2. /\ phase = "planning" /\ first = PartCount
      /\ phase' = IF Cardinality(tree) = SumOf(PartIds) THEN "ended" ELSE "bug"
      /\ UNCHANGED <<hi, nextGame, taking, collector, plan>>
  BY DEF EndTree
<1>3. UNCHANGED <<room, first, planned, count, tree>>
  BY <1>2 DEF plan
<1>4. tree = {e \in StreamEntries : PartOf(e) \in PartIds}
  <2>1. \A e \in StreamEntries : PartOf(e) < PartCount /\ PartOf(e) \in PartIds
    BY EntriesTyped, PassesNumbers
  <2>2. tree = {e \in StreamEntries : PartOf(e) < PartCount}
    BY <1>1, <1>2 DEF PlanNow, Before
  <2> QED
    BY <2>1, <2>2
<1>5. phase' = "ended"
  BY <1>2, <1>4 DEF SumOf
<1>6. PassesTyped'
  BY <1>1, <1>2, <1>3, <1>5 DEF PassesTyped
<1>7. PlanNow'
  BY <1>1, <1>2, <1>3, <1>5 DEF PlanNow
<1>8. BufNow' = BufNow /\ LeftNow' = LeftNow /\ BusyNow' = BusyNow
  BY <1>2 DEF BufNow, LeftNow, BusyNow
<1>9. GatheredNow'
  BY <1>1, <1>2, <1>3, <1>8 DEF GatheredNow
<1>10. EntriesNow'
  <2>1. \A w \in Collectors : collector[w].pc = "none"
    BY <1>1, <1>2 DEF PlanNow
  <2> QED
    BY <1>2, <2>1 DEF EntriesNow, Adding
<1>11. TakingNow'
  BY <1>1, <1>2, <1>3, <1>5, <1>8 DEF TakingNow
<1> QED
  BY <1>6, <1>7, <1>9, <1>10, <1>11 DEF PassesInv

LEMMA PassesStepInv ==
    ASSUME PassesInv, [PassesNext]_passesVars
    PROVE  PassesInv'
<1>1. CASE ReserveRoom
  BY <1>1, ReserveRoomKeeps
<1>2. CASE BeginPass
  BY <1>2, BeginPassKeeps
<1>3. CASE WritePass
  BY <1>3, WritePassKeeps
<1>4. CASE EndTree
  BY <1>4, EndTreeKeeps
<1>5. ASSUME NEW w \in Collectors, CollectorStep(w) PROVE PassesInv'
  <2>1. phase = "collecting"
    BY <1>5 DEF CollectorStep
  <2>2. CASE Start(w)
    BY <2>1, <2>2, StartKeeps
  <2>3. CASE LeaveChunks(w)
    BY <2>1, <2>3, LeaveKeeps
  <2>4. CASE TakeChunk(w)
    BY <2>1, <2>4, TakeKeeps
  <2>5. CASE Replay(w)
    <3>1. /\ collector[w].pc \in {"replaying", "adding"} /\ AddEntry(w)
          /\ UNCHANGED <<phase, hi, nextGame, taking, plan>>
      BY <2>5 DEF Replay
    <3> QED
      BY <2>1, <3>1, AddKeeps
  <2>6. CASE MakeRoom(w)
    BY <2>1, <2>6, MakeRoomKeeps
  <2>7. CASE Cut(w)
    BY <2>1, <2>7, CutKeeps
  <2>8. CASE Add(w)
    <3>1. /\ collector[w].pc \in {"replaying", "adding"} /\ AddEntry(w)
          /\ UNCHANGED <<phase, hi, nextGame, taking, plan>>
      BY <2>8 DEF Add
    <3> QED
      BY <2>1, <3>1, AddKeeps
  <2> QED
    BY <1>5, <2>2, <2>3, <2>4, <2>5, <2>6, <2>7, <2>8 DEF CollectorStep
<1>6. CASE UNCHANGED passesVars
  BY <1>6 DEF passesVars, PassesInv, PassesTyped, PlanNow, GatheredNow, EntriesNow, TakingNow,
              BufNow, LeftNow, BusyNow, Cap
<1> QED
  BY <1>1, <1>2, <1>3, <1>4, <1>5, <1>6 DEF PassesNext

LEMMA PassesInvariant == PassesSpec => []PassesInv
<1>1. PassesInit => PassesInv
  BY PassesInitInv
<1>2. PassesInv /\ [PassesNext]_passesVars => PassesInv'
  BY PassesStepInv
<1> QED
  BY <1>1, <1>2, PTL DEF PassesSpec

(* The games taken are within their bound, as the workers are.             *)
LEMMA PassesKeepTypes == PassesInv => PassesTypeOK
<1> SUFFICES ASSUME PassesInv PROVE PassesTypeOK
  OBVIOUS
<1>1. PassesTyped /\ TakingNow
  BY DEF PassesInv
<1>2. nextGame \in 1..(Games + MaxCollectors + 1)
  <2>1. Cardinality(BusyNow) \in Nat
    BY PassesNumbers DEF BusyNow
  <2> QED
    BY <1>1, <2>1, PassesNumbers DEF PassesTyped, TakingNow
<1>3. \A w \in Collectors :
        /\ collector[w].pc \in CollectorSteps /\ collector[w].last \in BOOLEAN
        /\ collector[w].game \in Nat /\ collector[w].ply \in Nat
        /\ collector[w].buf \subseteq StreamEntries /\ collector[w].len \in Nat
  BY <1>1 DEF PassesTyped, CollectorState
<1> QED
  BY <1>1, <1>2, <1>3 DEF PassesTypeOK, PassesTyped

(* The passes' variables have their types throughout (explorer/tree.rs,    *)
(* explorer/build.rs).                                                     *)
THEOREM PassesTypeCorrect == PassesSpec => []PassesTypeOK
BY PassesKeepTypes, PassesInvariant, PTL

(* The parts written hold every entry of the games, each once, wherever    *)
(* the workers ended the passes: at the end the tree holds what was        *)
(* counted (write in explorer/tree.rs).                                    *)
THEOREM TreeHoldsEveryEntryOnce == PassesSpec => []EveryEntryOnce
<1>1. ASSUME PassesInv PROVE EveryEntryOnce
  <2>1. PassesTyped /\ PlanNow /\ GatheredNow
    BY <1>1 DEF PassesInv
  <2>2. \A v \in Collectors : BufNow[v] = collector[v].buf
    BY DEF BufNow
  <2>3. \A v, w \in Collectors : v # w => \A e \in BufNow[v] : e \notin BufNow[w]
    BY <2>1 DEF GatheredNow, Gathered
  <2>4. \A v, w \in Collectors : v # w => collector[v].buf \intersect collector[w].buf = {}
    BY <2>2, <2>3
  <2> QED
    BY <2>1, <2>4 DEF EveryEntryOnce, PassesTyped, PlanNow
<1> QED
  BY <1>1, PassesInvariant, PTL

(* A pass writes its first part at least, and no part is too large for the *)
(* room reserved (make_room in explorer/tree.rs).                          *)
THEOREM PassesTakeTheirFirstPart == PassesSpec => []PassTakesItsFirstPart
<1>1. ASSUME PassesInv PROVE PassTakesItsFirstPart
  <2>1. PassesTyped /\ PlanNow
    BY <1>1 DEF PassesInv
  <2>2. phase # "tooLarge" /\ (phase = "collecting" => first < hi)
    BY <2>1 DEF PassesTyped, PlanNow
  <2>3. first \in Nat /\ hi \in Nat
    BY <2>1 DEF PassesTyped
  <2> QED
    BY <2>2, <2>3 DEF PassTakesItsFirstPart
<1> QED
  BY <1>1, PassesInvariant, PTL
=============================================================================
