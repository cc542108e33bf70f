------------------------------- MODULE Settle -------------------------------
(***************************************************************************)
(* The background work of one catalog and the settle that waits for it:    *)
(* the serial queues (serial.rs), whose threads start when a job arrives   *)
(* and end when none is left, the queue of index builds, the writers on    *)
(* threads of their own, the keeper's looks (keeper.rs), the count of all  *)
(* of it (activity.rs) and Catalog::settle, which stops the keeper and     *)
(* waits for the count to fall to nothing.                                 *)
(*                                                                         *)
(* Between "counted" and "queued" a job is with the thread that submits    *)
(* it; a job refused for want of a thread, or taken from a thread that     *)
(* ended by a panic, is dropped after the queue's lock is let go.          *)
(***************************************************************************)
EXTENDS Naturals, Sequences, FiniteSets, SequencesExt

CONSTANTS
    Serials,     \* the serial queues: downloads, heads, PGN indexes
    IndexQueue,      \* the queue of index builds
    Own,         \* the place of work on a thread of its own: masks, names
    LookKind,    \* the kind the keeper's looks count as
    Jobs,        \* the pieces of work there may be, each run once
    MaxPanics,   \* bound: threads that end by a panic
    Nowhere      \* no queue

ASSUME MaxPanicsAssumption == MaxPanics \in Nat
ASSUME PlacesAssumption ==
    /\ IndexQueue \notin Serials /\ Own \notin Serials /\ LookKind \notin Serials
    /\ Nowhere \notin Serials /\ LookKind \notin Jobs
    /\ IndexQueue # Own /\ IndexQueue # LookKind /\ Own # LookKind
    /\ Nowhere \notin {IndexQueue, Own, LookKind}

VARIABLES
    place,       \* the queue each job is for
    author,      \* who submits it: a request, the keeper or another job
    fate,        \* what became of each job
    line,        \* Serial::queue.0: the jobs waiting in each queue
    alive,       \* Serial::queue.1: whether a thread is said to run them
    top,         \* the threads between two jobs, in each queue
    counts,      \* Activity::counts
    look,        \* where the keeper's look is, and how often it is counted
    stopped,     \* Keeping::stopped
    settler,     \* where Catalog::settle is
    calm,        \* whether no request queued work since settle was called
    panics       \* how much of MaxPanics was spent

settleVars == <<place, author, fate, line, alive, top, counts, look, stopped, settler, calm, panics>>
-----------------------------------------------------------------------------
Queues == Serials \union {IndexQueue}
Places == Queues \union {Own}
Kinds  == Places \union {LookKind}

Outstanding == {"counted", "waiting", "running", "refused", "doomed"}
Fates == {"new", "ran", "dropped"} \union Outstanding

(* Whoever submits goes on once what it submits is queued or dropped.      *)
Through(a) == \A j \in Jobs : author[j] = a => fate[j] \notin {"counted", "refused"}

Running(q) == {j \in Jobs : place[j] = q /\ fate[j] = "running"}

SettleInit ==
    /\ place = [j \in Jobs |-> Nowhere] /\ author = [j \in Jobs |-> Nowhere]
    /\ fate = [j \in Jobs |-> "new"]
    /\ line = [q \in Queues |-> <<>>]
    /\ alive = [q \in Queues |-> FALSE] /\ top = [q \in Queues |-> 0]
    /\ counts = [k \in Kinds |-> 0]
    /\ look = "none" /\ stopped = FALSE
    /\ settler = "uncalled" /\ calm = TRUE /\ panics = 0

(* Mutant: a kind is marked as at work, and not counted.                   *)
MarkIn(kind) == counts' = [counts EXCEPT ![kind] = 1]

(* The settle that sleeps is woken by the guard whose drop leaves nothing  *)
(* counted (activity.rs 59-69).                                            *)
CountIn(kind) == counts' = [counts EXCEPT ![kind] = @ + 1]

Drop(kind) ==
    /\ counts' = [counts EXCEPT ![kind] = IF @ > 0 THEN @ - 1 ELSE 0]
    /\ settler' = IF settler = "asleep" /\ \A k \in Kinds : counts'[k] = 0
                  THEN "awake" ELSE settler
-----------------------------------------------------------------------------
(* Serial::submit: the job is counted, and then queued.                    *)
Count(j, q) ==
    /\ fate[j] = "new"
    /\ place' = [place EXCEPT ![j] = q] /\ fate' = [fate EXCEPT ![j] = "counted"]
    /\ CountIn(q)
    /\ UNCHANGED <<line, alive, top, look, stopped, settler, panics>>

(* Scheduler::submit: both in one hold of its lock.                        *)
Enqueue(j, q) ==
    \/ /\ alive[q] /\ line' = [line EXCEPT ![q] = Append(@, j)]
       /\ fate' = [fate EXCEPT ![j] = "waiting"] /\ UNCHANGED <<alive, top>>
    \/ /\ ~alive[q] /\ line' = [line EXCEPT ![q] = Append(@, j)]
       /\ fate' = [fate EXCEPT ![j] = "waiting"]
       /\ alive' = [alive EXCEPT ![q] = TRUE] /\ top' = [top EXCEPT ![q] = @ + 1]
    \/ /\ ~alive[q] /\ fate' = [fate EXCEPT ![j] = "refused"]
       /\ UNCHANGED <<line, alive, top>>

CountBuild(j) ==
    /\ fate[j] = "new" /\ place' = [place EXCEPT ![j] = IndexQueue]
    /\ Enqueue(j, IndexQueue) /\ CountIn(IndexQueue)
    /\ UNCHANGED <<stopped, settler, panics>>

(* A job taken up by a request, or by other work before that ends.         *)
Submit(j, by) ==
    /\ author' = [author EXCEPT ![j] = by]
    /\ \/ \E q \in Serials \union {Own} : Count(j, q)
       \/ CountBuild(j) /\ UNCHANGED look

RequestSubmits(j) == Submit(j, "request") /\ calm' = (settler = "uncalled")

WorkSubmits(j) ==
    \E v \in Jobs : fate[v] = "running" /\ Through(v) /\ Submit(j, v) /\ UNCHANGED calm

Push(j) ==
    /\ fate[j] = "counted" /\ place[j] \in Serials
    /\ Enqueue(j, place[j])
    /\ UNCHANGED <<place, author, counts, look, stopped, settler, calm, panics>>

(* The thread of a mask build or of a names file starts, or cannot.        *)
StartOwn(j) ==
    /\ fate[j] = "counted" /\ place[j] = Own
    /\ \E f \in {"running", "refused"} : fate' = [fate EXCEPT ![j] = f]
    /\ UNCHANGED <<place, author, line, alive, top, counts, look, stopped, settler, calm, panics>>

DropUnrun(j) ==
    /\ fate[j] \in {"refused", "doomed"} /\ fate' = [fate EXCEPT ![j] = "dropped"]
    /\ Drop(place[j])
    /\ UNCHANGED <<place, author, line, alive, top, look, stopped, calm, panics>>
-----------------------------------------------------------------------------
(* Serial::run: the next job, or the thread's end, in one hold of the lock.*)
TakeJob(q) ==
    /\ top[q] > 0 /\ line[q] # <<>>
    /\ fate' = [fate EXCEPT ![Head(line[q])] = "running"]
    /\ line' = [line EXCEPT ![q] = Tail(@)] /\ top' = [top EXCEPT ![q] = @ - 1]
    /\ UNCHANGED <<place, author, alive, counts, look, stopped, settler, calm, panics>>

(* Mutant: the thread ends and is still said to run.                       *)
EndThreadUnsaid(q) ==
    /\ top[q] > 0 /\ line[q] = <<>> /\ top' = [top EXCEPT ![q] = @ - 1]
    /\ UNCHANGED <<place, author, fate, line, alive, counts, look, stopped, settler, calm, panics>>

EndThread(q) ==
    /\ top[q] > 0 /\ line[q] = <<>>
    /\ alive' = [alive EXCEPT ![q] = FALSE] /\ top' = [top EXCEPT ![q] = @ - 1]
    /\ UNCHANGED <<place, author, fate, line, counts, look, stopped, settler, calm, panics>>

(* A job ends, by a panic too, which the queue catches: its guard is       *)
(* dropped with it.                                                        *)
Finish(j) ==
    /\ fate[j] = "running" /\ Through(j) /\ fate' = [fate EXCEPT ![j] = "ran"]
    /\ top' = IF place[j] \in Queues THEN [top EXCEPT ![place[j]] = @ + 1] ELSE top
    /\ Drop(place[j])
    /\ UNCHANGED <<place, author, line, alive, look, stopped, calm, panics>>

(* Exit: a thread that ends by a panic of its own.                         *)
Panic(q) ==
    /\ q \in Serials /\ top[q] > 0 /\ panics < MaxPanics
    /\ panics' = panics + 1
    /\ top' = [top EXCEPT ![q] = @ - 1] /\ alive' = [alive EXCEPT ![q] = FALSE]
    /\ fate' = [j \in Jobs |-> IF j \in ToSet(line[q]) THEN "doomed" ELSE fate[j]]
    /\ line' = [line EXCEPT ![q] = <<>>]
    /\ UNCHANGED <<place, author, counts, look, stopped, settler, calm>>
-----------------------------------------------------------------------------
(* Mutant: a look begins though the keeper was stopped.                    *)
BeginLookAnyway ==
    /\ look = "none" /\ look' = "taken" /\ CountIn(LookKind)
    /\ UNCHANGED <<place, author, fate, line, alive, top, stopped, settler, calm, panics>>

(* The keeper's thread counts its look, Registry::keep counts it again;    *)
(* each finds the keeper unstopped in the hold of the lock that counts.    *)
BeginLook ==
    /\ look = "none" /\ ~stopped /\ look' = "taken" /\ CountIn(LookKind)
    /\ UNCHANGED <<place, author, fate, line, alive, top, stopped, settler, calm, panics>>

Keep ==
    /\ look = "taken" /\ ~stopped /\ look' = "keeping" /\ CountIn(LookKind)
    /\ UNCHANGED <<place, author, fate, line, alive, top, stopped, settler, calm, panics>>

(* A database due, one in each look: the keeper, unstopped still, renews   *)
(* its index.                                                              *)
FindDue ==
    /\ look = "keeping" /\ ~stopped /\ look' = "renewing"
    /\ UNCHANGED <<place, author, fate, line, alive, top, counts, stopped, settler, calm, panics>>

Renew ==
    /\ look = "renewing" /\ look' = "renewed"
    /\ \/ \E j \in Jobs : CountBuild(j) /\ author' = [author EXCEPT ![j] = "keeper"]
       \/ UNCHANGED <<place, author, fate, line, alive, top, counts, stopped, settler, panics>>
    /\ UNCHANGED calm

EndLook ==
    /\ Through("keeper")
    /\ \/ look \in {"keeping", "renewed"} /\ look' = "kept"
       \/ look = "kept" /\ look' = "none"
       \/ look = "taken" /\ look' = "none"
    /\ Drop(LookKind)
    /\ UNCHANGED <<place, author, fate, line, alive, top, stopped, calm, panics>>
-----------------------------------------------------------------------------
(* Catalog::settle: the keeper is stopped, and Activity::wait_idle waits.  *)
StopKeeping ==
    /\ settler = "uncalled" /\ stopped' = TRUE /\ settler' = "awake"
    /\ UNCHANGED <<place, author, fate, line, alive, top, counts, look, calm, panics>>

FindIdle ==
    /\ settler = "awake" /\ \A k \in Kinds : counts[k] = 0
    /\ settler' = "settled"
    /\ UNCHANGED <<place, author, fate, line, alive, top, counts, look, stopped, calm, panics>>

WaitMore ==
    /\ settler = "awake" /\ \E k \in Kinds : counts[k] > 0
    /\ settler' \in {"asleep", "busy"}
    /\ UNCHANGED <<place, author, fate, line, alive, top, counts, look, stopped, calm, panics>>

TimeOut ==
    /\ settler = "asleep" /\ settler' = "awake"
    /\ UNCHANGED <<place, author, fate, line, alive, top, counts, look, stopped, calm, panics>>
-----------------------------------------------------------------------------
SettleNext ==
    \/ \E j \in Jobs : \/ RequestSubmits(j) \/ WorkSubmits(j) \/ Push(j) \/ StartOwn(j)
                       \/ DropUnrun(j) \/ Finish(j)
    \/ \E q \in Queues : TakeJob(q) \/ EndThread(q) \/ Panic(q)
    \/ BeginLook \/ Keep \/ FindDue \/ Renew \/ EndLook
    \/ StopKeeping \/ FindIdle \/ WaitMore \/ TimeOut

(* Every job ends, whatever it does, and threads run.                      *)
SettleFairness ==
    /\ \A j \in Jobs : /\ WF_settleVars(Push(j) \/ StartOwn(j) \/ DropUnrun(j))
                      /\ WF_settleVars(Finish(j))
    /\ \A q \in Queues : WF_settleVars(TakeJob(q))
    /\ WF_settleVars(Renew \/ EndLook)
    /\ WF_settleVars(FindIdle \/ WaitMore \/ TimeOut)

SettleSpec == SettleInit /\ [][SettleNext]_settleVars /\ SettleFairness
-----------------------------------------------------------------------------
SettleTypeOK ==
    /\ place \in [Jobs -> Places \union {Nowhere}]
    /\ author \in [Jobs -> Jobs \union {"request", "keeper", Nowhere}]
    /\ fate \in [Jobs -> Fates] /\ line \in [Queues -> Seq(Jobs)]
    /\ alive \in [Queues -> BOOLEAN] /\ top \in [Queues -> Nat]
    /\ counts \in [Kinds -> Nat]
    /\ look \in {"none", "taken", "keeping", "renewing", "renewed", "kept"} /\ stopped \in BOOLEAN
    /\ settler \in {"uncalled", "awake", "asleep", "settled", "busy"}
    /\ calm \in BOOLEAN /\ panics \in 0..MaxPanics

(* A queue runs one job at a time, on one thread, and jobs wait only for a *)
(* thread that lives (serial.rs 14-15, 41-43): the decision to start one and *)
(* the thread's to end never cross.                                        *)
OneThreadWhileJobsWait ==
    \A q \in Queues :
        /\ top[q] + Cardinality(Running(q)) = IF alive[q] THEN 1 ELSE 0
        /\ line[q] # <<>> => alive[q]

(* Once settled, and while no request queues more, nothing waits or runs   *)
(* for good: no job, no look, no thread with one (activity.rs 7-12).       *)
QuietOnceSettled ==
    settler = "settled" /\ calm => /\ \A j \in Jobs : fate[j] \notin Outstanding
                                  /\ look = "none" /\ stopped

(* The promise, of the work outstanding here.                              *)
Promised ==
    INSTANCE BackgroundWork WITH
        Works <- Jobs \union {LookKind}, Look <- LookKind,
        outstanding <- {j \in Jobs : fate[j] \in Outstanding}
                           \union (IF look = "none" THEN {} ELSE {LookKind}),
        ended <- {j \in Jobs : fate[j] \in {"ran", "dropped"}},
        answer <- CASE settler = "uncalled" -> "unasked"
                    [] settler \in {"awake", "asleep"} -> "asked"
                    [] OTHER -> settler

WorkAsPromised == Promised!Spec
=============================================================================
