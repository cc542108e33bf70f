---------------------------- MODULE IndexBuilds ----------------------------
(***************************************************************************)
(* The position indexes of crates/bridge/src/explorer: the registry        *)
(* (mod.rs) keeps one state per database, requests and the keeper          *)
(* (keeper.rs) queue builds, and the scheduler (schedule.rs) runs them one *)
(* at a time on a thread of its own, the requested ones before the         *)
(* background ones, which a request stops and which wait for mains power.  *)
(*                                                                         *)
(* Processes: the clients (each one request at a time), the keeper, the    *)
(* index thread, and an environment that changes databases, takes them off *)
(* the computer or off the list, unplugs the computer, and restarts the    *)
(* bridge.  An action is what the code does under one hold of its locks; a *)
(* state's lock and the scheduler's are let go between "the state says     *)
(* Working" and "the build is in a queue" (mod.rs 550-606), and so are     *)
(* they here.                                                              *)
(***************************************************************************)
EXTENDS Naturals, Sequences

CONSTANTS
    Dbs,         \* the ids of the databases
    Clients,     \* the threads that answer requests
    MaxGen,      \* bound: how many generations a database goes through
    MaxTrouble,  \* bound: changes, moves, failures and restarts in all
    Damage,      \* whether a read may find an index damaged
    None         \* no index, no build

ASSUME MaxGenAssumption == MaxGen \in Nat \ {0}
ASSUME MaxTroubleAssumption == MaxTrouble \in Nat
ASSUME DamageAssumption == Damage \in BOOLEAN

VARIABLES
    gen,         \* the generation of each database's files
    place,       \* whether each opens without a download, and is listed
    battery,     \* whether the computer runs on battery
    trouble,     \* how much of MaxTrouble was spent
    state,       \* Registry::states
    disk,        \* <id>.idx and <id>.moves, when both are whole
    partial,     \* whether <id>.*.partial is in the index folder
    used,        \* Registry::used
    requested,   \* Queues::requested
    background,  \* Queues::background
    running,     \* Queues::running, and where its work is
    thread,      \* Queues::thread
    client,      \* what each client's request does
    keeper,      \* where the keeper's look is
    seen,        \* Registry::seen
    picked       \* Registry::picked

world   == <<gen, place, battery>>
folder  == <<disk, partial>>
queues  == <<requested, background, running, thread>>
keeping == <<keeper, seen, picked>>
vars    == <<gen, place, battery, trouble, state, disk, partial, used,
             requested, background, running, thread, client, keeper, seen,
             picked>>
-----------------------------------------------------------------------------
Gens   == 1..MaxGen
Kinds  == {"Requested", "Background"}
Places == {"ready", "remote", "unlisted"}

(* An index: the generation its header names, and whether all of it was    *)
(* read from the database while it was at that generation, which nothing   *)
(* in the code can see.                                                    *)
Indexes == [gen : Gens, whole : BOOLEAN]

(* State (mod.rs 115): a failure is recent for RETRY_AFTER_FAILURE.        *)
Idle == [tag |-> "Idle"]
Working == [tag |-> "Working"]
Ready(index) == [tag |-> "Ready", index |-> index]
Failed(g, busy) == [tag |-> "Failed", gen |-> g, busy |-> busy, recent |-> TRUE]

States == {Idle, Working}
            \union [tag : {"Ready"}, index : Indexes]
            \union [tag : {"Failed"}, gen : Gens, busy : BOOLEAN, recent : BOOLEAN]

(* A build waiting for its turn, of a kind its queue tells.                *)
Jobs == [id : Dbs, gen : Gens]

(* The steps of a build's work (mod.rs 556-605).                           *)
Building == {"reading", "passes", "rename"}
Steps    == Building \union
            {"check", "index", "open", "still", "settle", "changed", "stopped", "over"}

(* The build running; "asked" is the kind its turn began with.             *)
Runs == [id : Dbs, gen : Gens, kind : Kinds, asked : Kinds, stop : BOOLEAN,
         step : Steps, whole : BOOLEAN]

ASSUME NoneAssumption == None \notin Indexes /\ None \notin Runs

AtRest == [pc |-> "idle"]
Flights == [pc : {"opened", "handing", "refused", "indexing", "failed", "busy",
                  "rebuilding"}, id : Dbs, gen : Gens]
Reads == [pc : {"ready"}, id : Dbs, gen : Gens, index : Indexes]

Away == [pc |-> "away"]
Looks == [pc : {"looking"}, todo : SUBSET Dbs]
            \union [pc : {"handing", "refused"}, todo : SUBSET Dbs, job : Jobs]

Unseen == [gen |-> 0, quiet |-> FALSE]
Seen   == [gen : Gens \union {0}, quiet : BOOLEAN]
-----------------------------------------------------------------------------
Init ==
    /\ gen = [d \in Dbs |-> 1]
    /\ place = [d \in Dbs |-> "ready"]
    /\ battery = FALSE
    /\ trouble = 0
    /\ state = [d \in Dbs |-> Idle]
    /\ disk = [d \in Dbs |-> None]
    /\ partial = [d \in Dbs |-> FALSE]
    /\ used = {}
    /\ requested = <<>>
    /\ background = <<>>
    /\ running = None
    /\ thread = FALSE
    /\ client = [c \in Clients |-> AtRest]
    /\ keeper = Away
    /\ seen = [d \in Dbs |-> Unseen]
    /\ picked = FALSE

Trouble == trouble < MaxTrouble /\ trouble' = trouble + 1
-----------------------------------------------------------------------------
(* The scheduler.                                                          *)

At(step) == running # None /\ running.step = step
RunsFor(id) == running # None /\ running.id = id

Without(q, i) == [k \in 1..(Len(q) - 1) |-> IF k < i THEN q[k] ELSE q[k + 1]]

(* preempt: the background build of another database is asked to stop.     *)
Preempted(id) ==
    IF running # None /\ running.kind = "Background" /\ running.id # id
    THEN [running EXCEPT !.stop = TRUE]
    ELSE running

(* Scheduler::submit, when the thread runs or could be started.            *)
Submit(job, kind) ==
    /\ thread' = TRUE
    /\ IF kind = "Requested"
       THEN /\ requested' = Append(requested, job)
            /\ background' = background
            /\ running' = Preempted(job.id)
       ELSE /\ requested' = requested
            /\ background' = Append(background, job)
            /\ running' = running

(* Scheduler::submit, when the thread could not be started: what the       *)
(* queues hold is dropped unrun.                                           *)
SubmitRefused ==
    /\ ~thread
    /\ Trouble
    /\ requested' = <<>>
    /\ background' = <<>>
    /\ UNCHANGED <<running, thread>>

(* Mutant of PromoteWaiting: the build promoted stops no other.            *)
PromoteWaitingBehind(id) ==
    \E i \in 1..Len(background) :
        /\ background[i].id = id
        /\ \A k \in 1..(i - 1) : background[k].id # id
        /\ requested' = Append(requested, background[i])
        /\ background' = Without(background, i)
        /\ running' = running

(* Scheduler::promote.                                                     *)
PromoteWaiting(id) ==
    \E i \in 1..Len(background) :
        /\ background[i].id = id
        /\ \A k \in 1..(i - 1) : background[k].id # id
        /\ requested' = Append(requested, background[i])
        /\ background' = Without(background, i)
        /\ running' = Preempted(id)

PromoteRunning(id) ==
    /\ \A i \in 1..Len(background) : background[i].id # id
    /\ running' = IF RunsFor(id) THEN [running EXCEPT !.kind = "Requested"] ELSE running
    /\ UNCHANGED <<requested, background>>

Promote(id) == (PromoteWaiting(id) \/ PromoteRunning(id)) /\ thread' = thread

(* Scheduler::next: a build's turn begins.                                 *)
Turn(job, kind) ==
    [id |-> job.id, gen |-> job.gen, kind |-> kind, asked |-> kind,
     stop |-> FALSE, step |-> "check", whole |-> FALSE]

StartRequested ==
    /\ thread /\ running = None
    /\ requested # <<>>
    /\ running' = Turn(Head(requested), "Requested")
    /\ requested' = Tail(requested)
    /\ UNCHANGED <<world, trouble, state, folder, used, background, thread, client, keeping>>

StartBackground ==
    /\ thread /\ running = None
    /\ requested = <<>> /\ background # <<>>
    /\ ~battery
    /\ running' = Turn(Head(background), "Background")
    /\ background' = Tail(background)
    /\ UNCHANGED <<world, trouble, state, folder, used, requested, thread, client, keeping>>

(* Mutant of EndThread: on battery the thread ends rather than waits.      *)
EndThreadOnBattery ==
    /\ thread /\ running = None
    /\ requested = <<>> /\ (background = <<>> \/ battery)
    /\ thread' = FALSE
    /\ UNCHANGED <<world, trouble, state, folder, used, requested, background, running,
                   client, keeping>>

EndThread ==
    /\ thread /\ running = None
    /\ requested = <<>> /\ background = <<>>
    /\ thread' = FALSE
    /\ UNCHANGED <<world, trouble, state, folder, used, requested, background, running,
                   client, keeping>>

(* Scheduler::run, once the work returned or panicked.                     *)
Finish ==
    /\ At("over")
    /\ running' = None
    /\ UNCHANGED <<world, trouble, state, folder, used, requested, background, thread,
                   client, keeping>>

(* Mutants of Requeue: a build stopped keeps what it ran with; goes back as *)
(* the kind its turn began with; is lost unless a request waits for it.    *)
RequeueAsRun ==
    /\ At("stopped")
    /\ IF running.kind = "Requested"
       THEN requested' = Append(requested, running) /\ background' = background
       ELSE background' = <<running>> \o background /\ requested' = requested
    /\ running' = None
    /\ UNCHANGED <<world, trouble, state, folder, used, thread, client, keeping>>

RequeueAsAsked ==
    /\ At("stopped")
    /\ LET job == [id |-> running.id, gen |-> running.gen]
       IN  IF running.asked = "Requested"
           THEN requested' = Append(requested, job) /\ background' = background
           ELSE background' = <<job>> \o background /\ requested' = requested
    /\ running' = None
    /\ UNCHANGED <<world, trouble, state, folder, used, thread, client, keeping>>

RequeueRequestedOnly ==
    /\ At("stopped")
    /\ LET job == [id |-> running.id, gen |-> running.gen]
       IN  requested' = IF running.kind = "Requested" THEN Append(requested, job) ELSE requested
    /\ running' = None
    /\ UNCHANGED <<world, trouble, state, folder, used, background, thread, client, keeping>>

(* Scheduler::run, once the work returned Stopped.                         *)
Requeue ==
    /\ At("stopped")
    /\ LET job == [id |-> running.id, gen |-> running.gen]
       IN  IF running.kind = "Requested"
           THEN requested' = Append(requested, job) /\ background' = background
           ELSE background' = <<job>> \o background /\ requested' = requested
    /\ running' = None
    /\ UNCHANGED <<world, trouble, state, folder, used, thread, client, keeping>>
-----------------------------------------------------------------------------
(* The work of a build (Registry::queue's closure, index, build_with).     *)

Go(step) == running' = [running EXCEPT !.step = step]
SetState(id, s) == state' = [state EXCEPT ![id] = s]

(* Mutant of Kept: the generation in the header is not looked at.          *)
KeptAtAll(id, g) == disk[id] # None

Kept(id, g) == disk[id] # None /\ disk[id].gen = g

(* The rest of the system, which the work of a build leaves alone.         *)
Elsewhere == UNCHANGED <<world, used, requested, background, thread, client, keeping>>

StillCurrent(r) ==
    /\ gen[r.id] = r.gen
    /\ r.asked = "Background" => place[r.id] = "ready"

CheckTurn ==
    /\ At("check")
    /\ StillCurrent(running)
    /\ Go("index")
    /\ UNCHANGED <<trouble, state, folder>>
    /\ Elsewhere

DropTurn ==
    /\ At("check")
    /\ ~StillCurrent(running)
    /\ SetState(running.id, Idle)
    /\ Go("over")
    /\ UNCHANGED <<trouble, folder>>
    /\ Elsewhere

TurnWithoutRoom ==
    /\ At("check")
    /\ StillCurrent(running)
    /\ Trouble
    /\ SetState(running.id, Failed(running.gen, FALSE))
    /\ Go("over")
    /\ UNCHANGED folder
    /\ Elsewhere

FindKept ==
    /\ At("index")
    /\ Kept(running.id, running.gen)
    /\ running' = [running EXCEPT !.step = "still", !.whole = disk[running.id].whole]
    /\ UNCHANGED <<trouble, state, folder>>
    /\ Elsewhere

(* The former files go before the build takes their room.                  *)
BeginBuild ==
    /\ At("index")
    /\ ~Kept(running.id, running.gen)
    /\ disk' = [disk EXCEPT ![running.id] = None]
    /\ partial' = [partial EXCEPT ![running.id] = TRUE]
    /\ running' = [running EXCEPT !.step = "reading", !.whole = gen[running.id] = running.gen]
    /\ UNCHANGED <<trouble, state>>
    /\ Elsewhere

(* The ranking anchor and the stream pass read the database.               *)
ReadGames ==
    /\ At("reading")
    /\ Go("passes")
    /\ UNCHANGED <<trouble, state, folder>>
    /\ Elsewhere

(* The tree and the deep section are made from the stream alone.           *)
WritePasses ==
    /\ At("passes")
    /\ Go("rename")
    /\ UNCHANGED <<trouble, state, folder>>
    /\ Elsewhere

RenameFiles ==
    /\ At("rename")
    /\ partial[running.id]
    /\ disk' = [disk EXCEPT ![running.id] = [gen |-> running.gen, whole |-> running.whole]]
    /\ partial' = [partial EXCEPT ![running.id] = FALSE]
    /\ Go("open")
    /\ UNCHANGED <<trouble, state>>
    /\ Elsewhere

OpenBuilt ==
    /\ At("open")
    /\ Go("still")
    /\ UNCHANGED <<trouble, state, folder>>
    /\ Elsewhere

(* A build's files go unless they were renamed into place (Partials).      *)
DropPartials == partial' = [partial EXCEPT ![running.id] = FALSE] /\ disk' = disk

(* The build's result is an error: a build asked to stop waits for its     *)
(* turn again, another failed.                                             *)
Erred(busy) ==
    IF running.stop
    THEN Go("stopped") /\ state' = state
    ELSE Go("over") /\ SetState(running.id, Failed(running.gen, busy))

SeeStop ==
    /\ At("reading") \/ At("passes")
    /\ running.stop
    /\ Erred(FALSE)
    /\ DropPartials
    /\ UNCHANGED trouble
    /\ Elsewhere

BuildFails ==
    /\ Trouble
    /\ \/ At("index") /\ Erred(FALSE) /\ UNCHANGED folder
       \/ At("reading") /\ (\E busy \in BOOLEAN : Erred(busy)) /\ DropPartials
       \/ At("passes") /\ (\E busy \in BOOLEAN : Erred(busy)) /\ DropPartials
       \/ At("rename") /\ Erred(FALSE) /\ DropPartials
       \/ At("open") /\ Erred(FALSE) /\ UNCHANGED folder
    /\ Elsewhere

(* The files to rename are gone: a sweep took them.                        *)
LostFiles ==
    /\ At("rename")
    /\ ~partial[running.id]
    /\ Erred(FALSE)
    /\ UNCHANGED <<trouble, folder>>
    /\ Elsewhere

(* Mutant of BuildPanics: no guard fails the build as it unwinds.          *)
BuildPanicsUnguarded ==
    /\ running # None /\ running.step \notin {"stopped", "over"}
    /\ Trouble
    /\ Go("over")
    /\ IF running.step \in Building THEN DropPartials ELSE UNCHANGED folder
    /\ UNCHANGED state
    /\ Elsewhere

(* Unwinding: a panic in the work fails the build.                         *)
BuildPanics ==
    /\ running # None /\ running.step \notin {"stopped", "over"}
    /\ Trouble
    /\ SetState(running.id, Failed(running.gen, FALSE))
    /\ Go("over")
    /\ IF running.step \in Building THEN DropPartials ELSE UNCHANGED folder
    /\ Elsewhere

AskStill ==
    /\ At("still")
    /\ Go(IF gen[running.id] = running.gen THEN "settle" ELSE "changed")
    /\ UNCHANGED <<trouble, state, folder>>
    /\ Elsewhere

Settle ==
    /\ \/ /\ At("settle")
          /\ SetState(running.id, Ready([gen |-> running.gen, whole |-> running.whole]))
       \/ /\ At("changed")
          /\ SetState(running.id, Idle)
    /\ Go("over")
    /\ UNCHANGED <<trouble, folder>>
    /\ Elsewhere

Build == \/ CheckTurn \/ DropTurn \/ TurnWithoutRoom \/ FindKept \/ BeginBuild
         \/ ReadGames \/ WritePasses \/ RenameFiles \/ OpenBuilt \/ SeeStop
         \/ BuildFails \/ LostFiles \/ BuildPanics \/ AskStill \/ Settle
-----------------------------------------------------------------------------
(* A client's request (Registry::index).                                   *)

Flight(c, pc) == client' = [client EXCEPT ![c] = [pc |-> pc, id |-> client[c].id, gen |-> client[c].gen]]
Answered(c, index) ==
    client' = [client EXCEPT ![c] = [pc |-> "ready", id |-> client[c].id,
                                     gen |-> client[c].gen, index |-> index]]

(* Entry::open: the request sees the database at one generation.           *)
Open(c, id) ==
    /\ client[c].pc = "idle"
    /\ place[id] = "ready"
    /\ client' = [client EXCEPT ![c] = [pc |-> "opened", id |-> id, gen |-> gen[id]]]
    /\ UNCHANGED <<world, trouble, state, folder, used, queues, keeping>>

Asking(c) == client[c].pc = "opened" /\ used' = used \union {client[c].id}

HeldAt(id, g) == state[id].tag = "Ready" /\ state[id].index.gen = g
JustFailed(id) == state[id].tag = "Failed" /\ state[id].recent
Unheld(id, g) == ~HeldAt(id, g) /\ state[id].tag # "Working" /\ ~JustFailed(id)

AskHeld(c) ==
    /\ Asking(c)
    /\ HeldAt(client[c].id, client[c].gen)
    /\ Answered(c, state[client[c].id].index)
    /\ UNCHANGED <<world, trouble, state, folder, queues, keeping>>

AskWorking(c) ==
    /\ Asking(c)
    /\ state[client[c].id].tag = "Working"
    /\ Promote(client[c].id)
    /\ Flight(c, "indexing")
    /\ UNCHANGED <<world, trouble, state, folder, keeping>>

AskFailed(c) ==
    /\ Asking(c)
    /\ JustFailed(client[c].id)
    /\ Flight(c, "failed")
    /\ UNCHANGED <<world, trouble, state, folder, queues, keeping>>

AskKept(c) ==
    /\ Asking(c)
    /\ Unheld(client[c].id, client[c].gen)
    /\ Kept(client[c].id, client[c].gen)
    /\ SetState(client[c].id, Ready(disk[client[c].id]))
    /\ Answered(c, disk[client[c].id])
    /\ UNCHANGED <<world, trouble, folder, queues, keeping>>

(* The search memory has no room for the tables of the index on disk.      *)
AskBusy(c) ==
    /\ Asking(c)
    /\ Unheld(client[c].id, client[c].gen)
    /\ disk[client[c].id] # None
    /\ Trouble
    /\ SetState(client[c].id, Idle)
    /\ Flight(c, "busy")
    /\ UNCHANGED <<world, folder, queues, keeping>>

AskWithoutRoom(c) ==
    /\ Asking(c)
    /\ Unheld(client[c].id, client[c].gen)
    /\ ~Kept(client[c].id, client[c].gen)
    /\ Trouble
    /\ SetState(client[c].id, Failed(client[c].gen, FALSE))
    /\ Flight(c, "failed")
    /\ UNCHANGED <<world, folder, queues, keeping>>

(* Registry::queue up to where it lets go of the state.                    *)
AskBuild(c) ==
    /\ Asking(c)
    /\ Unheld(client[c].id, client[c].gen)
    /\ ~Kept(client[c].id, client[c].gen)
    /\ SetState(client[c].id, Working)
    /\ Flight(c, "handing")
    /\ UNCHANGED <<world, trouble, folder, queues, keeping>>

HandOver(c) ==
    /\ client[c].pc = "handing"
    /\ Submit([id |-> client[c].id, gen |-> client[c].gen], "Requested")
    /\ Flight(c, "indexing")
    /\ UNCHANGED <<world, trouble, state, folder, used, keeping>>

HandOverRefused(c) ==
    /\ client[c].pc = "handing"
    /\ SubmitRefused
    /\ Flight(c, "refused")
    /\ UNCHANGED <<world, state, folder, used, keeping>>

FailRefused(c) ==
    /\ client[c].pc = "refused"
    /\ SetState(client[c].id, Failed(client[c].gen, FALSE))
    /\ Flight(c, "indexing")
    /\ UNCHANGED <<world, trouble, folder, used, queues, keeping>>

(* Registry::forget: a read of the index answered found it damaged.        *)
FindDamage(c) ==
    /\ Damage
    /\ client[c].pc = "ready"
    /\ Trouble
    /\ LET id == client[c].id
       IN  /\ SetState(id, Idle)
           /\ disk' = IF state[id].tag = "Ready" THEN [disk EXCEPT ![id] = None] ELSE disk
    /\ Flight(c, "rebuilding")
    /\ UNCHANGED <<world, partial, used, queues, keeping>>

Leave(c) ==
    /\ client[c].pc \in {"ready", "indexing", "failed", "busy", "rebuilding"}
    /\ client' = [client EXCEPT ![c] = AtRest]
    /\ UNCHANGED <<world, trouble, state, folder, used, queues, keeping>>

Ask(c) == \/ AskHeld(c) \/ AskWorking(c) \/ AskFailed(c) \/ AskKept(c)
          \/ AskBusy(c) \/ AskWithoutRoom(c) \/ AskBuild(c)
          \/ HandOver(c) \/ HandOverRefused(c) \/ FailRefused(c)
-----------------------------------------------------------------------------
(* The keeper (Registry::keep).                                            *)

Listed == {d \in Dbs : place[d] # "unlisted"}

(* The first look puts the largest database that opens in use.             *)
PickLargest ==
    \/ picked /\ used' = used
    \/ ~picked /\ \E d \in Dbs : place[d] = "ready" /\ used' = used \union {d}
    \/ ~picked /\ (\A d \in Dbs : place[d] # "ready") /\ used' = used

BeginLook ==
    /\ keeper.pc = "away"
    /\ running' = IF battery /\ running # None /\ running.kind = "Background"
                  THEN [running EXCEPT !.stop = TRUE]
                  ELSE running
    /\ PickLargest
    /\ picked' = TRUE
    /\ seen' = [d \in Dbs |-> IF d \in Listed THEN seen[d] ELSE Unseen]
    /\ keeper' = [pc |-> "looking", todo |-> Listed]
    /\ UNCHANGED <<world, trouble, state, folder, requested, background, thread, client>>

InUse(id) == place[id] = "ready" /\ (id \in used \/ disk[id] # None)

(* Since when the database has had its generation: a database first seen,  *)
(* since its files last changed, which may be long ago.                    *)
Sighting(id) ==
    IF seen[id].gen = gen[id] THEN {seen[id]}
    ELSE [gen : {gen[id]}, quiet : IF seen[id].gen = 0 THEN BOOLEAN ELSE {FALSE}]

(* Mutants of Settled: a build under way, or a failure, is queued again.   *)
SettledOrWorking(id) ==
    \/ HeldAt(id, gen[id])
    \/ state[id].tag = "Failed" /\ ~state[id].busy /\ state[id].gen = gen[id]
    \/ Kept(id, gen[id])

SettledOrFailed(id) ==
    \/ HeldAt(id, gen[id])
    \/ state[id].tag = "Working"
    \/ Kept(id, gen[id])

(* Registry::renew leaves the database as it is.                           *)
Settled(id) ==
    \/ HeldAt(id, gen[id])
    \/ state[id].tag = "Working"
    \/ state[id].tag = "Failed" /\ ~state[id].busy /\ state[id].gen = gen[id]
    \/ Kept(id, gen[id])

Looking(id) == keeper.pc = "looking" /\ id \in keeper.todo
Looked(id) == keeper' = [pc |-> "looking", todo |-> keeper.todo \ {id}]
See(id, s) == seen' = [seen EXCEPT ![id] = s]

PassOver(id) ==
    /\ Looking(id)
    /\ \/ ~InUse(id) /\ seen' = seen
       \/ InUse(id) /\ \E s \in Sighting(id) : (s.quiet => Settled(id)) /\ See(id, s)
    /\ Looked(id)
    /\ UNCHANGED <<world, trouble, state, folder, used, queues, client, picked>>

RenewWithoutRoom(id) ==
    /\ Looking(id) /\ InUse(id)
    /\ \E s \in Sighting(id) : s.quiet /\ See(id, s)
    /\ ~Settled(id)
    /\ Trouble
    /\ SetState(id, Failed(gen[id], FALSE))
    /\ Looked(id)
    /\ UNCHANGED <<world, folder, used, queues, client, picked>>

Renew(id) ==
    /\ Looking(id) /\ InUse(id)
    /\ \E s \in Sighting(id) : s.quiet /\ See(id, s)
    /\ ~Settled(id)
    /\ SetState(id, Working)
    /\ keeper' = [pc |-> "handing", todo |-> keeper.todo \ {id},
                  job |-> [id |-> id, gen |-> gen[id]]]
    /\ UNCHANGED <<world, trouble, folder, used, queues, client, picked>>

KeeperHandsOver ==
    /\ keeper.pc = "handing"
    /\ Submit(keeper.job, "Background")
    /\ keeper' = [pc |-> "looking", todo |-> keeper.todo]
    /\ UNCHANGED <<world, trouble, state, folder, used, client, seen, picked>>

KeeperRefused ==
    /\ keeper.pc = "handing"
    /\ SubmitRefused
    /\ keeper' = [keeper EXCEPT !.pc = "refused"]
    /\ UNCHANGED <<world, state, folder, used, client, seen, picked>>

KeeperFails ==
    /\ keeper.pc = "refused"
    /\ SetState(keeper.job.id, Failed(keeper.job.gen, FALSE))
    /\ keeper' = [pc |-> "looking", todo |-> keeper.todo]
    /\ UNCHANGED <<world, trouble, folder, used, queues, client, seen, picked>>

EndLook ==
    /\ keeper.pc = "looking" /\ keeper.todo = {}
    /\ keeper' = Away
    /\ UNCHANGED <<world, trouble, state, folder, used, queues, client, seen, picked>>

Keep == \/ BeginLook \/ KeeperHandsOver \/ KeeperRefused \/ KeeperFails \/ EndLook
        \/ \E id \in Dbs : PassOver(id) \/ RenewWithoutRoom(id) \/ Renew(id)
-----------------------------------------------------------------------------
(* Registry::sweep, which skips a database whose state is Working.         *)

(* Mutant of SweepWork: a build's work goes whether its build runs or not. *)
SweepWorkAlways(id) ==
    /\ partial[id]
    /\ partial' = [partial EXCEPT ![id] = FALSE]
    /\ UNCHANGED <<world, trouble, state, disk, used, queues, client, keeping>>

SweepWork(id) ==
    /\ state[id].tag # "Working"
    /\ partial[id]
    /\ partial' = [partial EXCEPT ![id] = FALSE]
    /\ UNCHANGED <<world, trouble, state, disk, used, queues, client, keeping>>

(* The grace of a database off the list has passed.                        *)
SweepIndex(id) ==
    /\ state[id].tag # "Working"
    /\ place[id] = "unlisted" /\ disk[id] # None
    /\ disk' = [disk EXCEPT ![id] = None]
    /\ SetState(id, Idle)
    /\ UNCHANGED <<world, trouble, partial, used, queues, client, keeping>>

Sweep == \E id \in Dbs : SweepWork(id) \/ SweepIndex(id)
-----------------------------------------------------------------------------
(* The world: time, power, other programs, and the bridge ending.          *)

MinutePasses(id) ==
    /\ \/ /\ JustFailed(id)
          /\ state' = [state EXCEPT ![id].recent = FALSE]
          /\ seen' = seen
       \/ /\ seen[id].gen # 0 /\ ~seen[id].quiet
          /\ seen' = [seen EXCEPT ![id].quiet = TRUE]
          /\ state' = state
    /\ UNCHANGED <<world, trouble, folder, used, queues, client, keeper, picked>>

SwitchPower ==
    /\ battery' = ~battery
    /\ UNCHANGED <<gen, place, trouble, state, folder, used, queues, client, keeping>>

(* A change gives a generation the database has not had (#241).            *)
Change(id) ==
    /\ gen[id] < MaxGen
    /\ Trouble
    /\ gen' = [gen EXCEPT ![id] = @ + 1]
    /\ running' = IF RunsFor(id) /\ running.step = "reading"
                  THEN [running EXCEPT !.whole = FALSE]
                  ELSE running
    /\ UNCHANGED <<place, battery, state, folder, used, requested, background, thread,
                   client, keeping>>

Move(id) ==
    /\ Trouble
    /\ \E p \in Places \ {place[id]} : place' = [place EXCEPT ![id] = p]
    /\ UNCHANGED <<gen, battery, state, folder, used, queues, client, keeping>>

(* The bridge ends at any moment and is started again: what it held in     *)
(* memory is gone, the files stay.                                         *)
Restart ==
    /\ Trouble
    /\ state' = [d \in Dbs |-> Idle]
    /\ used' = {}
    /\ requested' = <<>> /\ background' = <<>>
    /\ running' = None
    /\ thread' = FALSE
    /\ client' = [c \in Clients |-> AtRest]
    /\ keeper' = Away
    /\ seen' = [d \in Dbs |-> Unseen]
    /\ picked' = FALSE
    /\ UNCHANGED <<world, folder>>

World == \/ SwitchPower \/ Restart
         \/ \E id \in Dbs : MinutePasses(id) \/ Change(id) \/ Move(id)
-----------------------------------------------------------------------------
Builder == StartRequested \/ StartBackground \/ EndThread \/ Finish \/ Requeue \/ Build
Request == \E c \in Clients : Ask(c) \/ FindDamage(c) \/ Leave(c) \/ \E id \in Dbs : Open(c, id)

Next == Builder \/ Request \/ Keep \/ Sweep \/ World

Spec == Init /\ [][Next]_vars

(* The index thread, a request under way and the keeper's look go on, and  *)
(* minutes pass; nothing else is sure to happen.                           *)
Fairness ==
    /\ WF_vars(Builder)
    /\ \A c \in Clients : WF_vars(Ask(c))
    /\ WF_vars(Keep)
    /\ \A id \in Dbs : WF_vars(MinutePasses(id))

LiveSpec == Spec /\ Fairness
-----------------------------------------------------------------------------
(* Properties.                                                             *)

(* Every variable holds a value the code can hold: the queues hold builds, *)
(* the build running is at a step of its work, an index names a generation *)
(* its database had.                                                       *)
TypeOK ==
    /\ gen \in [Dbs -> Gens]
    /\ place \in [Dbs -> Places]
    /\ battery \in BOOLEAN
    /\ trouble \in 0..MaxTrouble
    /\ state \in [Dbs -> States]
    /\ disk \in [Dbs -> Indexes \union {None}]
    /\ partial \in [Dbs -> BOOLEAN]
    /\ used \in SUBSET Dbs
    /\ requested \in Seq(Jobs)
    /\ background \in Seq(Jobs)
    /\ running \in Runs \union {None}
    /\ thread \in BOOLEAN
    /\ client \in [Clients -> {AtRest} \union Flights \union Reads]
    /\ keeper \in {Away} \union Looks
    /\ seen \in [Dbs -> Seen]
    /\ picked \in BOOLEAN

(* Someone will yet give database id's state its last word: its build      *)
(* waits, runs, is about to be queued, or was just refused a thread.       *)
Waits(queue, id) == \E i \in 1..Len(queue) : queue[i].id = id

HasBuild(id) ==
    \/ Waits(requested, id)
    \/ Waits(background, id)
    \/ RunsFor(id) /\ running.step # "over"
    \/ \E c \in Clients : client[c].pc \in {"handing", "refused"} /\ client[c].id = id
    \/ keeper.pc \in {"handing", "refused"} /\ keeper.job.id = id

(* A database answered "indexing" has a build: none is left Working by a   *)
(* build dropped, refused a thread, stopped, or ended by a panic (#172,    *)
(* mod.rs 723-727), or it would be answered so for ever.                   *)
WorkingHasBuild == \A id \in Dbs : state[id].tag = "Working" => HasBuild(id)

(* Builds wait only while a thread lives to run them: the thread ends once *)
(* both queues are empty, and the build that cannot have one is the only   *)
(* one (schedule.rs 205-207).                                              *)
QueuesHaveThread ==
    ~thread => requested = <<>> /\ background = <<>> /\ running = None

(* A request never waits behind a background build of another database:    *)
(* while its build waits, the background build running was asked to stop,  *)
(* whichever of the two came first and however each became what it is.     *)
RequestStopsBackground ==
    running # None /\ running.kind = "Background" /\ running.step # "over" =>
        \A id \in Dbs : Waits(requested, id) /\ id # running.id => running.stop

(* What is answered for a database's present generation was read from it   *)
(* at that generation, whole: neither a change under the build's reading,  *)
(* nor files left by a former build, a restart or a sweep, nor an answer   *)
(* held in memory shows through (api.md: "an index is never answered for   *)
(* another generation than its own").                                      *)
AnswersAreWhole ==
    \A c \in Clients :
        client[c].pc = "ready" /\ client[c].gen = gen[client[c].id] =>
            client[c].index.gen = client[c].gen /\ client[c].index.whole

(* Why it holds: no index is of a generation its database has yet to have, *)
(* nor a build of one, and each of the present generation is whole.        *)
TrueOf(index, id) ==
    /\ index.gen <= gen[id]
    /\ index.gen = gen[id] => index.whole

IndexesAreTrue ==
    /\ \A id \in Dbs : disk[id] # None => TrueOf(disk[id], id)
    /\ \A id \in Dbs : state[id].tag = "Ready" => TrueOf(state[id].index, id)
    /\ \A c \in Clients : client[c].pc = "ready" =>
           TrueOf(client[c].index, client[c].id) /\ client[c].index.gen = client[c].gen

InPast(queue) == \A i \in 1..Len(queue) : queue[i].gen <= gen[queue[i].id]

BuildIsTrue(run) ==
    /\ run.gen <= gen[run.id]
    /\ run.step \in Building \union {"open", "still", "settle"} =>
           (run.gen = gen[run.id] => run.whole)

BuildsAreTrue ==
    /\ InPast(requested) /\ InPast(background)
    /\ \A c \in Clients : client[c].pc # "idle" => client[c].gen <= gen[client[c].id]
    /\ keeper.pc = "handing" => keeper.job.gen <= gen[keeper.job.id]
    /\ running # None => BuildIsTrue(running)

(* Without reads that find damage, a database has one build at a time:     *)
(* waiting, running or being queued.                                       *)
BuildsOf(id) ==
    {<<"requested", i>> : i \in {k \in 1..Len(requested) : requested[k].id = id}}
    \union {<<"background", i>> : i \in {k \in 1..Len(background) : background[k].id = id}}
    \union (IF RunsFor(id) /\ running.step # "over" THEN {<<"running", 0>>} ELSE {})
    \union {<<"client", c>> : c \in {k \in Clients : client[k].pc = "handing" /\ client[k].id = id}}
    \union (IF keeper.pc = "handing" /\ keeper.job.id = id THEN {<<"keeper", 0>>} ELSE {})

OneBuild == \A id \in Dbs : \A b1, b2 \in BuildsOf(id) : b1 = b2

(* The files of a build running stay in the folder until it renames them:  *)
(* "The files of a database whose index or masks are being built are never *)
(* touched" by a sweep (mod.rs 617).                                       *)
BuildKeepsItsFiles ==
    running # None /\ running.step \in Building => partial[running.id]

(* A build that failed for another reason than busy workers is not tried   *)
(* again unasked while the database stays as it was: neither the keeper's  *)
(* looks nor what waited in the queues when it failed bring it back        *)
(* (api.md 1285-1289).                                                     *)
FailureIsLeftAlone ==
    [][\A id \in Dbs :
        LET again == [id |-> id, gen |-> state[id].gen]
        IN  state[id].tag = "Failed" /\ ~state[id].busy =>
                /\ \A i \in 1..Len(background') : background'[i] # again
                /\ ~(keeper'.pc = "handing" /\ keeper'.job = again)]_vars

(* A request answered "indexing" is waited for by a requested build: "a    *)
(* background build of the database waiting or running becomes the build   *)
(* the request waits for" (mod.rs 488-490).  While nothing fails, a        *)
(* generation is built once, so the build is the one the answer was about. *)
PendingIsRequested ==
    \A c \in Clients : client[c].pc = "indexing" =>
        LET mine == [id |-> client[c].id, gen |-> client[c].gen]
        IN  /\ \A i \in 1..Len(background) : background[i] # mine
            /\ ~(/\ RunsFor(mine.id) /\ running.gen = mine.gen
                 /\ running.kind = "Background")

(* A build a request waits for, waiting or running, comes to an end,       *)
(* whatever the power, the other requests and the keeper do.               *)
IsRequested(id) ==
    \/ Waits(requested, id)
    \/ RunsFor(id) /\ running.kind = "Requested" /\ running.step # "over"

RequestedBuildEnds ==
    \A id \in Dbs : IsRequested(id) ~> (state[id].tag # "Working")

(* The keeper catches up: once a database in use stays on this computer    *)
(* and the computer stays on mains, its index is at last one of its        *)
(* generation, in memory or on disk, or its build failed for good: the     *)
(* builds that requests, the battery and failures put off come back.       *)
CaughtUp(id) ==
    \/ HeldAt(id, gen[id])
    \/ Kept(id, gen[id])
    \/ state[id].tag = "Failed" /\ ~state[id].busy /\ state[id].gen = gen[id]

KeeperCatchesUp ==
    \A id \in Dbs :
        (<>[](~battery) /\ <>[](place[id] = "ready" /\ id \in used)) => <>[]CaughtUp(id)
=============================================================================
