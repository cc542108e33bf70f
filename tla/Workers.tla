------------------------------- MODULE Workers ------------------------------
(***************************************************************************)
(* What searches and a background build of an index share: the workers     *)
(* (search/workers.rs), the memory budget with what searches retained in   *)
(* it (search/memory.rs), and the foreground work a build gives way to     *)
(* (foreground.rs, Progress::give_way in explorer/runs.rs).                *)
(*                                                                         *)
(* A pass takes workers, waiting for the first with its own foreground     *)
(* work set aside, then reserves their buffers - evicting what is retained,*)
(* or going on with half the workers - then works, growing what it builds, *)
(* and gives everything back.  The build is one pass of many batches, and  *)
(* between two it gives way while foreground work runs.  Two holds of a    *)
(* lock span steps: the build's of the foreground lock, from its look at   *)
(* the count to its sleep, and that of TAKEN by a pass that sets its work  *)
(* aside, until it has woken the build and sleeps.                         *)
(***************************************************************************)
EXTENDS Integers, FiniteSets, FiniteSetsExt

CONSTANTS
    Searches,    \* the threads that search, each one search after another
    Build,       \* the thread of the background build
    StreamOf,    \* the stream each search is of
    Pool,        \* how many workers there are: threads()
    Budget,      \* budget(), in the unit a pass reserves or grows by
    Batches      \* the batches of the build

ASSUME PoolAssumption == Pool \in Nat \ {0} /\ Budget \in Nat \ {0} /\ Batches \in Nat \ {0}
ASSUME BuildAssumption == Build \notin Searches
ASSUME SearchesAssumption == IsFiniteSet(Searches)

VARIABLES
    at,          \* where each pass is
    slots,       \* the workers it holds
    hold,        \* the budget it holds
    wanted,      \* whether no newer search of its stream began
    taken,       \* TAKEN
    held,        \* HELD
    retained,    \* what the caches hold of the budget
    foreground,  \* FOREGROUND.running
    fgLock,      \* whether the build holds FOREGROUND.lock
    batch,       \* the batches the build has done
    patient,     \* whether the build still has patience
    promoter     \* the request that takes it away

workersVars == <<at, slots, hold, wanted, taken, held, retained, foreground, fgLock, batch, patient, promoter>>
memory == <<hold, held, retained>>
giving == <<fgLock, batch, patient, promoter>>
-----------------------------------------------------------------------------
Passes == Searches \union {Build}

(* "waking" and "wakingAside" follow a count fallen to nothing: the thread *)
(* is about to wake those who wait for that.                               *)
Steps == {"rest", "acquiring", "aside", "wakingAside", "reserving", "evicting", "working", "growing",
          "ending", "over", "waking", "looking", "checked", "asleep", "woken", "done"}

Go(p, step) == at' = [at EXCEPT ![p] = step]

TakenFree == \A p \in Passes : at[p] # "wakingAside"

WorkersInit ==
    /\ at = [p \in Passes |-> "rest"]
    /\ slots = [p \in Passes |-> 0] /\ hold = [p \in Passes |-> 0]
    /\ wanted = [p \in Passes |-> TRUE]
    /\ taken = 0 /\ held = 0 /\ retained = 0
    /\ foreground = 0 /\ fgLock = FALSE /\ batch = 0 /\ patient = TRUE
    /\ promoter = "none"
-----------------------------------------------------------------------------
(* A search begins: foreground work, the newest of its stream.             *)
BeginSearch(p) ==
    /\ p \in Searches /\ at[p] = "rest" /\ Go(p, "acquiring")
    /\ foreground' = foreground + 1
    /\ wanted' = [q \in Passes |-> IF q = p THEN TRUE
                                   ELSE wanted[q] /\ (q \in Searches => StreamOf[q] # StreamOf[p])]
    /\ UNCHANGED <<slots, memory, taken, giving>>

BeginBuild ==
    /\ at[Build] = "rest" /\ batch = 0 /\ Go(Build, "acquiring")
    /\ UNCHANGED <<slots, memory, wanted, taken, foreground, giving>>

(* acquire: as many workers as are free, at least one.                     *)
Acquire(p) ==
    /\ at[p] = "acquiring" /\ TakenFree /\ taken < Pool
    /\ \E want \in 1..Pool :
         /\ slots' = [slots EXCEPT ![p] = Min({want, Pool - taken})]
         /\ taken' = taken + slots'[p]
    /\ Go(p, "reserving")
    /\ UNCHANGED <<memory, wanted, foreground, giving>>

(* Superseded, or the wait is over: the pass ends with nothing.            *)
AcquireEnds(p) ==
    /\ at[p] = "acquiring" /\ TakenFree /\ taken = Pool /\ Go(p, "ending")
    /\ UNCHANGED <<slots, memory, wanted, taken, foreground, giving>>

(* foreground::lower: the count falls, and at nothing the waiting wake.    *)
Lower(p, wakes, on) ==
    /\ foreground' = foreground - 1
    /\ Go(p, IF foreground = 1 THEN wakes ELSE on)

(* foreground::aside around the wait for a worker to be returned.          *)
WaitAside(p) ==
    /\ at[p] = "acquiring" /\ TakenFree /\ taken = Pool /\ wanted[p]
    /\ IF p \in Searches THEN Lower(p, "wakingAside", "aside")
       ELSE Go(p, "aside") /\ UNCHANGED foreground
    /\ UNCHANGED <<slots, memory, wanted, taken, giving>>

BackFromAside(p) ==
    /\ at[p] = "aside" /\ TakenFree /\ Go(p, "acquiring")
    /\ foreground' = IF p \in Searches THEN foreground + 1 ELSE foreground
    /\ UNCHANGED <<slots, memory, wanted, taken, giving>>

(* Mutant: the waiting are woken without the lock they look under.         *)
WakeUnlocked(p) ==
    /\ at[p] \in {"waking", "wakingAside"}
    /\ at' = [at EXCEPT ![p] = IF @ = "waking" THEN "rest" ELSE "aside",
                        ![Build] = IF @ = "asleep" THEN "woken" ELSE @]
    /\ UNCHANGED <<slots, memory, wanted, taken, foreground, giving>>

(* Foreground::wake takes the lock the build looks under.                  *)
Wake(p) ==
    /\ at[p] \in {"waking", "wakingAside"} /\ ~fgLock
    /\ at' = [at EXCEPT ![p] = IF @ = "waking" THEN "rest" ELSE "aside",
                        ![Build] = IF @ = "asleep" THEN "woken" ELSE @]
    /\ UNCHANGED <<slots, memory, wanted, taken, foreground, giving>>
-----------------------------------------------------------------------------
(* Mutant: what is held already is not looked at.                          *)
FitsAlone(bytes) == bytes <= Budget

(* Hold::grow: taken when it fits, else what is retained is evicted and it *)
(* is tried once more.                                                     *)
Fits(bytes) == bytes <= Budget - held

Take(p, bytes) == hold' = [hold EXCEPT ![p] = @ + bytes] /\ held' = held + bytes

(* Mutant: what the caches let go is not given back.                       *)
EvictOnly == retained' = 0 /\ UNCHANGED held

(* The caches evicted while a pass reserves or grows, all in turn.         *)
Evict == retained' = 0 /\ held' = held - retained

Reserve(p) ==
    /\ at[p] = "reserving"
    /\ IF Fits(slots[p])
       THEN Take(p, slots[p]) /\ Go(p, "working") /\ UNCHANGED retained
       ELSE Evict /\ Go(p, "evicting") /\ UNCHANGED hold
    /\ UNCHANGED <<slots, wanted, taken, foreground, giving>>

(* After the eviction; half the workers go back when it is still refused.  *)
ReserveAgain(p) ==
    /\ at[p] = "evicting" /\ TakenFree
    /\ IF Fits(slots[p])
       THEN Take(p, slots[p]) /\ Go(p, "working") /\ UNCHANGED <<slots, taken>>
       ELSE /\ IF slots[p] > 1
               THEN /\ slots' = [slots EXCEPT ![p] = @ \div 2]
                    /\ taken' = taken - (slots[p] - slots'[p]) /\ Go(p, "reserving")
               ELSE Go(p, "ending") /\ UNCHANGED <<slots, taken>>
            /\ UNCHANGED <<hold, held>>
    /\ UNCHANGED <<retained, wanted, foreground, giving>>

(* A search grows what it makes (Allowance::take), evicting as it must;    *)
(* refused, or superseded, it ends.                                        *)
Grow(p) ==
    /\ p \in Searches /\ at[p] = "working"
    /\ IF Fits(1) THEN Take(p, 1) /\ Go(p, "working") /\ UNCHANGED retained
       ELSE Evict /\ Go(p, "growing") /\ UNCHANGED hold
    /\ UNCHANGED <<slots, wanted, taken, foreground, giving>>

GrowAgain(p) ==
    /\ at[p] = "growing"
    /\ IF Fits(1) THEN Take(p, 1) /\ Go(p, "working") ELSE Go(p, "ending") /\ UNCHANGED <<hold, held>>
    /\ UNCHANGED <<slots, retained, wanted, taken, foreground, giving>>

(* A search done retains what it made beyond its buffers, or not; one      *)
(* superseded, failed or panicked does not.                                *)
Done(p) ==
    /\ p \in Searches /\ at[p] = "working" /\ Go(p, "ending")
    /\ \E keep \in {0} \union (IF wanted[p] THEN {hold[p] - slots[p]} ELSE {}) :
         hold' = [hold EXCEPT ![p] = @ - keep] /\ retained' = retained + keep
    /\ UNCHANGED <<slots, wanted, taken, held, foreground, giving>>

(* Buffers and workers are given back, however it ends, and then the       *)
(* foreground work is over.                                                *)
End(p) ==
    /\ at[p] = "ending" /\ TakenFree
    /\ held' = held - hold[p] /\ hold' = [hold EXCEPT ![p] = 0]
    /\ taken' = taken - slots[p] /\ slots' = [slots EXCEPT ![p] = 0]
    /\ Go(p, IF p \in Searches THEN "over" ELSE "done")
    /\ UNCHANGED <<retained, wanted, foreground, giving>>

EndForeground(p) ==
    /\ at[p] = "over" /\ Lower(p, "waking", "rest")
    /\ UNCHANGED <<slots, memory, wanted, taken, giving>>
-----------------------------------------------------------------------------
(* Progress::give_way before a batch: the build looks under the lock, and  *)
(* sleeps while work runs and it has patience.                             *)
NextBatch ==
    /\ at[Build] = "working" /\ batch < Batches /\ (~patient \/ foreground = 0)
    /\ batch' = batch + 1
    /\ UNCHANGED <<at, slots, memory, wanted, taken, foreground, fgLock, patient, promoter>>

GiveWay ==
    /\ batch < Batches /\ ~fgLock
    /\ \/ at[Build] = "working" /\ patient /\ foreground > 0
       \/ at[Build] = "woken"
    /\ fgLock' = TRUE /\ Go(Build, "looking")
    /\ UNCHANGED <<slots, memory, wanted, taken, foreground, batch, patient, promoter>>

LookOn ==
    /\ at[Build] = "looking" /\ foreground > 0 /\ patient /\ Go(Build, "checked")
    /\ UNCHANGED <<slots, memory, wanted, taken, foreground, giving>>

Sleep ==
    /\ at[Build] = "checked" /\ Go(Build, "asleep") /\ fgLock' = FALSE
    /\ UNCHANGED <<slots, memory, wanted, taken, foreground, batch, patient, promoter>>

(* Enough waited: nothing runs any more or it has no patience left, or its *)
(* patience is over for this time; one batch follows.                      *)
StopGiving ==
    /\ at[Build] = "looking" /\ (foreground = 0 \/ ~patient)
    /\ fgLock' = FALSE /\ batch' = batch + 1 /\ Go(Build, "working")
    /\ UNCHANGED <<slots, memory, wanted, taken, foreground, patient, promoter>>

(* Mutant: a build sleeps until nothing runs, without a deadline.          *)
PatienceUnbounded ==
    /\ at[Build] = "asleep" /\ ~fgLock /\ foreground = 0
    /\ batch' = batch + 1 /\ Go(Build, "working")
    /\ UNCHANGED <<slots, memory, wanted, taken, foreground, fgLock, patient, promoter>>

PatienceOver ==
    /\ at[Build] = "asleep" /\ ~fgLock /\ batch' = batch + 1 /\ Go(Build, "working")
    /\ UNCHANGED <<slots, memory, wanted, taken, foreground, fgLock, patient, promoter>>

(* A request for the database makes the build one that never gives way     *)
(* (Progress::set_patience), and wakes it to see that.                     *)
Promote ==
    /\ promoter = "none" /\ patient' = FALSE /\ promoter' = "waking"
    /\ UNCHANGED <<at, slots, memory, wanted, taken, foreground, fgLock, batch>>

PromoterWakes ==
    /\ promoter = "waking" /\ ~fgLock /\ promoter' = "done"
    /\ at' = [at EXCEPT ![Build] = IF @ = "asleep" THEN "woken" ELSE @]
    /\ UNCHANGED <<slots, memory, wanted, taken, foreground, fgLock, batch, patient>>

BuildDone ==
    /\ at[Build] = "working" /\ batch = Batches /\ Go(Build, "ending")
    /\ UNCHANGED <<slots, memory, wanted, taken, foreground, giving>>
-----------------------------------------------------------------------------
OwnStep(p) == \/ Acquire(p) \/ AcquireEnds(p) \/ Reserve(p) \/ ReserveAgain(p) \/ GrowAgain(p)
              \/ Done(p) \/ End(p) \/ EndForeground(p)
Handover(p) == Wake(p) \/ BackFromAside(p)
BuildStep == NextBatch \/ GiveWay \/ LookOn \/ Sleep \/ StopGiving \/ BuildDone

WorkersNext ==
    \/ \E p \in Passes : \/ BeginSearch(p) \/ WaitAside(p) \/ Grow(p) \/ OwnStep(p) \/ Handover(p)
    \/ BeginBuild \/ BuildStep \/ PatienceOver \/ Promote \/ PromoterWakes

(* Threads run, and locks are given to each that waits for one.  A pass    *)
(* waits for its first worker up to WAIT and a build sleeps up to its      *)
(* patience, so neither waits for ever however often it is woken meanwhile.*)
WorkersFairness ==
    /\ \A p \in Passes : SF_workersVars(OwnStep(p)) /\ SF_workersVars(Handover(p))
    /\ WF_workersVars(BuildStep) /\ SF_workersVars(PatienceOver)

WorkersSpec == WorkersInit /\ [][WorkersNext]_workersVars /\ WorkersFairness
-----------------------------------------------------------------------------
WorkersTypeOK ==
    /\ at \in [Passes -> Steps] /\ slots \in [Passes -> 0..Pool] /\ hold \in [Passes -> 0..Budget]
    /\ wanted \in [Passes -> BOOLEAN] /\ taken \in 0..Pool /\ held \in 0..Budget
    /\ retained \in 0..Budget /\ foreground \in 0..Cardinality(Searches)
    /\ fgLock \in BOOLEAN /\ batch \in 0..Batches /\ patient \in BOOLEAN
    /\ promoter \in {"none", "waking", "done"}

(* What the passes hold, one by one: a pass with each of its shares.       *)
Shares(f) == UNION {{p} \X (1..f[p]) : p \in Passes}

(* What the passes hold and what is retained is all that is taken of the   *)
(* budget and of the workers, and no more than there is (memory.rs 1-10,   *)
(* workers.rs 1-4): nothing leaks or is given back twice, whichever of a   *)
(* pass's ways out it takes.                                               *)
BudgetAndWorkersCounted ==
    /\ taken = Cardinality(Shares(slots)) /\ taken \in 0..Pool
    /\ held = retained + Cardinality(Shares(hold)) /\ held \in 0..Budget

(* A build sleeps only while a search runs that waits for no worker, or a  *)
(* thread is about to wake it (foreground.rs 13-17, 46-58): no wake-up is  *)
(* lost, and it never gives way to a search that waits for its workers.    *)
AtWork(p) == p \in Searches /\ at[p] \notin {"rest", "aside", "wakingAside", "waking"}

GivesWayToWorkOnly ==
    at[Build] = "asleep" =>
        \/ patient /\ \E p \in Searches : AtWork(p)
        \/ \E p \in Searches : at[p] \in {"waking", "wakingAside"}
        \/ promoter = "waking"

(* Every search is answered, and the build ends even while searches follow *)
(* one another for ever (foreground.rs 9-13).                              *)
PassesEnd ==
    /\ \A p \in Searches : at[p] # "rest" ~> at[p] = "rest"
    /\ at[Build] # "rest" ~> at[Build] = "done"
=============================================================================
