------------------------- MODULE IndexBuildsProofs -------------------------
(***************************************************************************)
(* What holds of IndexBuilds for every set of databases and clients and    *)
(* every bound: its types, that the index thread outlives what waits for   *)
(* it, that no database is left Working without a build, that a request    *)
(* stops a background build of another database, and that what is answered *)
(* for a database's present generation was read from it, whole; and, while *)
(* no read finds an index damaged, that a database has one build at a      *)
(* time, whose files stay, and that a failure is left alone.               *)
(***************************************************************************)
EXTENDS IndexBuilds, SequenceTheorems, TLAPS
-----------------------------------------------------------------------------
(* A queue without its i-th build: it is a queue of the others, in order.  *)
LEMMA WithoutType ==
    ASSUME NEW S, NEW q \in Seq(S), NEW i \in 1..Len(q)
    PROVE  Without(q, i) \in Seq(S)
<1>1. Len(q) - 1 \in Nat
  OBVIOUS
<1>2. \A k \in 1..(Len(q) - 1) : (IF k < i THEN q[k] ELSE q[k + 1]) \in S
  OBVIOUS
<1> QED
  BY <1>1, <1>2 DEF Without

LEMMA WithoutElements ==
    ASSUME NEW S, NEW q \in Seq(S), NEW i \in 1..Len(q)
    PROVE  /\ Len(Without(q, i)) = Len(q) - 1
           /\ \A k \in 1..Len(Without(q, i)) : \E n \in 1..Len(q) : Without(q, i)[k] = q[n]
           /\ \A n \in 1..Len(q) : n # i => \E k \in 1..Len(Without(q, i)) : Without(q, i)[k] = q[n]
<1>1. Len(Without(q, i)) = Len(q) - 1
  BY DEF Without
<1>2. \A k \in 1..Len(Without(q, i)) : \E n \in 1..Len(q) : Without(q, i)[k] = q[n]
  BY <1>1 DEF Without
<1>3. ASSUME NEW n \in 1..Len(q), n # i
      PROVE  \E k \in 1..Len(Without(q, i)) : Without(q, i)[k] = q[n]
  <2>1. CASE n < i
    BY <1>1, <2>1 DEF Without
  <2>2. CASE n > i
    <3>1. n - 1 \in 1..(Len(q) - 1) /\ ~(n - 1 < i) /\ (n - 1) + 1 = n
      BY <2>2
    <3> QED
      BY <1>1, <3>1 DEF Without
  <2> QED
    BY <1>3, <2>1, <2>2
<1> QED
  BY <1>1, <1>2, <1>3

(* What waits in a queue after a build joined it, left its front, was put  *)
(* back there, or was promoted from it.                                    *)
LEMMA WaitsAppend ==
    ASSUME NEW S, NEW q \in Seq(S), NEW job \in S, NEW id
    PROVE  Waits(Append(q, job), id) <=> Waits(q, id) \/ job.id = id
<1>1. Len(Append(q, job)) = Len(q) + 1 /\ Append(q, job)[Len(q) + 1] = job
  OBVIOUS
<1>2. \A i \in 1..Len(q) : Append(q, job)[i] = q[i]
  OBVIOUS
<1>3. Len(q) \in Nat
  OBVIOUS
<1> QED
  BY <1>1, <1>2, <1>3 DEF Waits

LEMMA WaitsTail ==
    ASSUME NEW S, NEW q \in Seq(S), q # <<>>, NEW id
    PROVE  Waits(q, id) <=> Head(q).id = id \/ Waits(Tail(q), id)
<1>1. Len(q) \in Nat /\ Len(q) >= 1 /\ Head(q) = q[1] /\ Len(Tail(q)) = Len(q) - 1
  OBVIOUS
<1>2. \A i \in 1..(Len(q) - 1) : Tail(q)[i] = q[i + 1]
  OBVIOUS
<1>3. ASSUME NEW i \in 1..Len(q), q[i].id = id
      PROVE  Head(q).id = id \/ Waits(Tail(q), id)
  <2>1. CASE i = 1
    BY <1>1, <1>3, <2>1
  <2>2. CASE i # 1
    <3>1. i - 1 \in 1..Len(Tail(q)) /\ (i - 1) + 1 = i
      BY <1>1, <2>2
    <3>2. Tail(q)[i - 1] = q[i]
      BY <1>1, <1>2, <3>1
    <3> QED
      BY <1>3, <3>1, <3>2 DEF Waits
  <2> QED
    BY <2>1, <2>2
<1>4. ASSUME NEW i \in 1..Len(Tail(q)), Tail(q)[i].id = id
      PROVE  Waits(q, id)
  <2>1. i + 1 \in 1..Len(q) /\ q[i + 1].id = id
    BY <1>1, <1>2, <1>4
  <2> QED
    BY <2>1 DEF Waits
<1>5. ASSUME Head(q).id = id
      PROVE  Waits(q, id)
  <2>1. 1 \in 1..Len(q) /\ q[1].id = id
    BY <1>1, <1>5
  <2> QED
    BY <2>1 DEF Waits
<1> QED
  BY <1>3, <1>4, <1>5 DEF Waits

LEMMA WaitsPutBack ==
    ASSUME NEW S, NEW q \in Seq(S), NEW job \in S, NEW id
    PROVE  Waits(<<job>> \o q, id) <=> Waits(q, id) \/ job.id = id
<1> DEFINE all == <<job>> \o q
<1>1. all \in Seq(S) /\ Len(all) = Len(q) + 1 /\ Len(q) \in Nat
  OBVIOUS
<1>2. all # <<>> /\ Head(all) = job
  BY <1>1
<1>3. Tail(all) = q
  <2>1. Tail(all) \in Seq(S) /\ Len(Tail(all)) = Len(q)
    BY <1>1, <1>2
  <2>2. \A i \in 1..Len(q) : Tail(all)[i] = q[i]
    BY <1>1, <1>2
  <2> QED
    BY <2>1, <2>2
<1> QED
  BY <1>1, <1>2, <1>3, WaitsTail

LEMMA WaitsWithout ==
    ASSUME NEW S, NEW q \in Seq(S), NEW i \in 1..Len(q), NEW id
    PROVE  Waits(q, id) <=> Waits(Without(q, i), id) \/ q[i].id = id
<1> DEFINE rest == Without(q, i)
<1>1. /\ \A k \in 1..Len(rest) : \E n \in 1..Len(q) : rest[k] = q[n]
      /\ \A n \in 1..Len(q) : n # i => \E k \in 1..Len(rest) : rest[k] = q[n]
  BY WithoutElements
<1> HIDE DEF rest
<1>2. ASSUME NEW k \in 1..Len(rest), rest[k].id = id
      PROVE  Waits(q, id)
  BY <1>1, <1>2 DEF Waits
<1>3. ASSUME NEW n \in 1..Len(q), q[n].id = id, n # i
      PROVE  Waits(rest, id)
  BY <1>1, <1>3 DEF Waits
<1>4. Waits(q, id) <=> Waits(rest, id) \/ q[i].id = id
  BY <1>2, <1>3 DEF Waits
<1> QED
  BY <1>4 DEF rest

LEMMA WaitsNone ==
    ASSUME NEW id
    PROVE  ~Waits(<<>>, id)
BY DEF Waits
-----------------------------------------------------------------------------
(* Type correctness.                                                       *)

USE MaxGenAssumption, MaxTroubleAssumption, NoneAssumption

(* A build's turn, and where a step of its work takes it.                  *)
LEMMA TurnType ==
    ASSUME NEW job \in Jobs, NEW kind \in Kinds
    PROVE  Turn(job, kind) \in Runs
BY DEF Turn, Jobs, Runs, Steps

LEMMA GoType ==
    ASSUME running \in Runs, NEW step \in Steps, Go(step)
    PROVE  /\ running' \in Runs
           /\ running' = [running EXCEPT !.step = step]
BY DEF Go, Runs

LEMMA SetStateType ==
    ASSUME state \in [Dbs -> States], NEW id \in Dbs, NEW s \in States, SetState(id, s)
    PROVE  state' \in [Dbs -> States]
BY DEF SetState

LEMMA FailedType ==
    ASSUME NEW g \in Gens, NEW busy \in BOOLEAN
    PROVE  Failed(g, busy) \in States /\ Idle \in States /\ Working \in States
BY DEF Failed, Idle, Working, States

LEMMA ReadyType ==
    ASSUME NEW index \in Indexes
    PROVE  Ready(index) \in States
BY DEF Ready, States

LEMMA ErredType ==
    ASSUME state \in [Dbs -> States], running \in Runs, NEW busy \in BOOLEAN, Erred(busy)
    PROVE  state' \in [Dbs -> States] /\ running' \in Runs
<1>1. running.id \in Dbs /\ running.gen \in Gens /\ running.stop \in BOOLEAN
  BY DEF Runs
<1>2. CASE running.stop
  BY <1>2, GoType DEF Erred, Steps
<1>3. CASE ~running.stop
  <2>1. SetState(running.id, Failed(running.gen, busy)) /\ Go("over")
    BY <1>3 DEF Erred
  <2> QED
    BY <2>1, <1>1, GoType, SetStateType, FailedType DEF Steps
<1> QED
  BY <1>2, <1>3

LEMMA DropPartialsType ==
    ASSUME partial \in [Dbs -> BOOLEAN], disk \in [Dbs -> Indexes \union {None}], DropPartials
    PROVE  partial' \in [Dbs -> BOOLEAN] /\ disk' \in [Dbs -> Indexes \union {None}]
BY DEF DropPartials

LEMMA TroubleType ==
    ASSUME trouble \in 0..MaxTrouble, Trouble
    PROVE  trouble' \in 0..MaxTrouble
BY DEF Trouble

LEMMA PreemptedType ==
    ASSUME running \in Runs \union {None}, NEW id
    PROVE  Preempted(id) \in Runs \union {None}
BY DEF Preempted, Runs

LEMMA SubmitType ==
    ASSUME TypeOK, NEW job \in Jobs, NEW kind \in Kinds, Submit(job, kind)
    PROVE  /\ requested' \in Seq(Jobs)
           /\ background' \in Seq(Jobs)
           /\ running' \in Runs \union {None}
           /\ thread' \in BOOLEAN
<1>1. Preempted(job.id) \in Runs \union {None}
  BY PreemptedType DEF TypeOK
<1>2. Append(requested, job) \in Seq(Jobs) /\ Append(background, job) \in Seq(Jobs)
  BY DEF TypeOK
<1> QED
  BY <1>1, <1>2 DEF TypeOK, Submit

LEMMA SubmitRefusedType ==
    ASSUME TypeOK, SubmitRefused
    PROVE  /\ requested' \in Seq(Jobs)
           /\ background' \in Seq(Jobs)
           /\ running' \in Runs \union {None}
           /\ thread' \in BOOLEAN
           /\ trouble' \in 0..MaxTrouble
BY TroubleType DEF TypeOK, SubmitRefused

LEMMA PromoteType ==
    ASSUME TypeOK, NEW id, Promote(id)
    PROVE  /\ requested' \in Seq(Jobs)
           /\ background' \in Seq(Jobs)
           /\ running' \in Runs \union {None}
           /\ thread' \in BOOLEAN
<1>1. CASE PromoteWaiting(id)
  <2>1. PICK i \in 1..Len(background) : /\ requested' = Append(requested, background[i])
                                        /\ background' = Without(background, i)
                                        /\ running' = Preempted(id)
    BY <1>1 DEF PromoteWaiting
  <2> QED
    BY <2>1, WithoutType, PreemptedType DEF TypeOK, Promote
<1>2. CASE PromoteRunning(id)
  BY <1>2 DEF TypeOK, Promote, PromoteRunning, RunsFor, Runs, Kinds
<1> QED
  BY <1>1, <1>2 DEF Promote

LEMMA FlightType ==
    ASSUME TypeOK, NEW c \in Clients, client[c].pc # "idle",
           NEW pc \in {"opened", "handing", "refused", "indexing", "failed", "busy", "rebuilding"},
           Flight(c, pc)
    PROVE  client' \in [Clients -> {AtRest} \union Flights \union Reads]
BY DEF TypeOK, Flight, AtRest, Flights, Reads

LEMMA AnsweredType ==
    ASSUME TypeOK, NEW c \in Clients, client[c].pc # "idle", NEW index \in Indexes,
           Answered(c, index)
    PROVE  client' \in [Clients -> {AtRest} \union Flights \union Reads]
BY DEF TypeOK, Answered, AtRest, Flights, Reads

LEMMA InFlight ==
    ASSUME TypeOK, NEW c \in Clients, client[c].pc # "idle"
    PROVE  client[c].id \in Dbs /\ client[c].gen \in Gens
BY DEF TypeOK, AtRest, Flights, Reads

(* The scheduler's own steps.                                              *)
LEMMA SchedulerTypeOK ==
    ASSUME TypeOK,
           StartRequested \/ StartBackground \/ EndThread \/ Finish \/ Requeue
    PROVE  TypeOK'
<1> USE DEF TypeOK, world, folder, keeping
<1>1. CASE StartRequested
  <2>1. Head(requested) \in Jobs /\ Tail(requested) \in Seq(Jobs)
    BY <1>1 DEF StartRequested
  <2>2. running' \in Runs
    BY <1>1, <2>1, TurnType DEF StartRequested, Kinds
  <2> QED
    BY <1>1, <2>1, <2>2 DEF StartRequested
<1>2. CASE StartBackground
  <2>1. Head(background) \in Jobs /\ Tail(background) \in Seq(Jobs)
    BY <1>2 DEF StartBackground
  <2>2. running' \in Runs
    BY <1>2, <2>1, TurnType DEF StartBackground, Kinds
  <2> QED
    BY <1>2, <2>1, <2>2 DEF StartBackground
<1>3. CASE EndThread
  BY <1>3 DEF EndThread
<1>4. CASE Finish
  BY <1>4 DEF Finish
<1>5. CASE Requeue
  <2>1. [id |-> running.id, gen |-> running.gen] \in Jobs
    BY <1>5 DEF Requeue, At, Runs, Jobs
  <2>2. /\ Append(requested, [id |-> running.id, gen |-> running.gen]) \in Seq(Jobs)
        /\ <<[id |-> running.id, gen |-> running.gen]>> \o background \in Seq(Jobs)
    BY <2>1
  <2>3. requested' \in Seq(Jobs) /\ background' \in Seq(Jobs)
    BY <1>5, <2>2 DEF Requeue
  <2> QED
    BY <1>5, <2>3 DEF Requeue
<1> QED
  BY <1>1, <1>2, <1>3, <1>4, <1>5

(* The steps of a build's work.                                            *)
LEMMA BuildTypeOK ==
    ASSUME TypeOK, Build
    PROVE  TypeOK' /\ running' \in Runs
<1>1. /\ running \in Runs /\ running.id \in Dbs /\ running.gen \in Gens
      /\ running.whole \in BOOLEAN
      /\ Elsewhere
  BY DEF Build, CheckTurn, DropTurn, TurnWithoutRoom, FindKept, BeginBuild, ReadGames,
         WritePasses, RenameFiles, OpenBuilt, SeeStop, BuildFails, LostFiles, BuildPanics,
         AskStill, Settle, At, TypeOK, Runs
<1>2. SUFFICES /\ running' \in Runs
               /\ state' \in [Dbs -> States]
               /\ disk' \in [Dbs -> Indexes \union {None}]
               /\ partial' \in [Dbs -> BOOLEAN]
               /\ trouble' \in 0..MaxTrouble
  BY <1>1 DEF Elsewhere, TypeOK, world, keeping
<1>3. /\ state \in [Dbs -> States]
      /\ disk \in [Dbs -> Indexes \union {None}]
      /\ partial \in [Dbs -> BOOLEAN]
      /\ trouble \in 0..MaxTrouble
  BY DEF TypeOK
<1> USE DEF folder
<1>4. CASE CheckTurn
  BY <1>1, <1>3, <1>4, GoType DEF CheckTurn, Steps
<1>5. CASE DropTurn
  BY <1>1, <1>3, <1>5, GoType, SetStateType DEF DropTurn, Steps, States, Idle
<1>6. CASE TurnWithoutRoom
  BY <1>1, <1>3, <1>6, GoType, SetStateType, FailedType, TroubleType DEF TurnWithoutRoom, Steps
<1>7. CASE FindKept
  <2>1. disk[running.id].whole \in BOOLEAN
    BY <1>1, <1>3, <1>7 DEF FindKept, Kept, Indexes
  <2> QED
    BY <1>1, <1>3, <1>7, <2>1 DEF FindKept, Runs, Steps
<1>8. CASE BeginBuild
  BY <1>1, <1>3, <1>8 DEF BeginBuild, Runs, Steps, Building
<1>9. CASE ReadGames
  BY <1>1, <1>3, <1>9, GoType DEF ReadGames, Steps, Building
<1>10. CASE WritePasses
  BY <1>1, <1>3, <1>10, GoType DEF WritePasses, Steps, Building
<1>11. CASE RenameFiles
  BY <1>1, <1>3, <1>11, GoType DEF RenameFiles, Steps, Indexes
<1>12. CASE OpenBuilt
  BY <1>1, <1>3, <1>12, GoType DEF OpenBuilt, Steps
<1>13. CASE SeeStop
  BY <1>1, <1>3, <1>13, ErredType, DropPartialsType DEF SeeStop
<1>14. CASE BuildFails
  BY <1>1, <1>3, <1>14, ErredType, DropPartialsType, TroubleType DEF BuildFails
<1>15. CASE LostFiles
  BY <1>1, <1>3, <1>15, ErredType DEF LostFiles
<1>16. CASE BuildPanics
  BY <1>1, <1>3, <1>16, GoType, SetStateType, FailedType, DropPartialsType, TroubleType
     DEF BuildPanics, Steps
<1>17. CASE AskStill
  BY <1>1, <1>3, <1>17, GoType DEF AskStill, Steps
<1>18. CASE Settle
  <2>1. [gen |-> running.gen, whole |-> running.whole] \in Indexes
    BY <1>1 DEF Indexes
  <2> QED
    BY <1>1, <1>3, <1>18, <2>1, GoType, SetStateType, ReadyType, FailedType DEF Settle, Steps, States, Idle
<1> QED
  BY <1>4, <1>5, <1>6, <1>7, <1>8, <1>9, <1>10, <1>11, <1>12, <1>13, <1>14, <1>15,
     <1>16, <1>17, <1>18 DEF Build

(* A client's steps.                                                       *)
LEMMA RequestTypeOK ==
    ASSUME TypeOK, NEW c \in Clients,
           Ask(c) \/ FindDamage(c) \/ Leave(c) \/ \E id \in Dbs : Open(c, id)
    PROVE  TypeOK'
<1>1. CASE \E id \in Dbs : Open(c, id)
  BY <1>1 DEF Open, TypeOK, world, folder, queues, keeping, Flights
<1>2. CASE Leave(c)
  BY <1>2 DEF Leave, TypeOK, world, folder, queues, keeping
<1>3. ASSUME Ask(c) \/ FindDamage(c)
      PROVE  client[c].pc # "idle"
  BY <1>3 DEF Ask, FindDamage, Asking, AskHeld, AskWorking, AskFailed, AskKept, AskBusy,
              AskWithoutRoom, AskBuild, HandOver, HandOverRefused, FailRefused
<1>4. ASSUME Asking(c)
      PROVE  used' \in SUBSET Dbs /\ client[c].id \in Dbs /\ client[c].gen \in Gens
  BY <1>4, InFlight DEF TypeOK, Asking
<1> USE DEF world, folder, queues, keeping
<1>5. CASE AskHeld(c)
  <2>1. state[client[c].id].index \in Indexes
    BY <1>4, <1>5 DEF AskHeld, HeldAt, TypeOK, States, Idle, Working
  <2>2. client' \in [Clients -> {AtRest} \union Flights \union Reads]
    BY <1>3, <1>5, <2>1, AnsweredType DEF AskHeld, Ask
  <2> QED
    BY <1>4, <1>5, <2>2 DEF AskHeld, TypeOK
<1>6. CASE AskWorking(c)
  BY <1>3, <1>4, <1>6, FlightType, PromoteType DEF AskWorking, TypeOK, Ask
<1>7. CASE AskFailed(c)
  BY <1>3, <1>4, <1>7, FlightType DEF AskFailed, TypeOK, Ask
<1>8. CASE AskKept(c)
  <2>1. disk[client[c].id] \in Indexes
    BY <1>4, <1>8 DEF AskKept, Kept, TypeOK
  <2>2. client' \in [Clients -> {AtRest} \union Flights \union Reads]
    BY <1>3, <1>8, <2>1, AnsweredType DEF AskKept, Ask
  <2>3. state' \in [Dbs -> States]
    BY <1>4, <1>8, <2>1, SetStateType, ReadyType DEF AskKept, TypeOK
  <2> QED
    BY <1>4, <1>8, <2>2, <2>3 DEF AskKept, TypeOK
<1>9. CASE AskBusy(c)
  BY <1>3, <1>4, <1>9, FlightType, SetStateType, TroubleType DEF AskBusy, TypeOK, Ask, States, Idle
<1>10. CASE AskWithoutRoom(c)
  BY <1>3, <1>4, <1>10, FlightType, SetStateType, FailedType, TroubleType
     DEF AskWithoutRoom, TypeOK, Ask
<1>11. CASE AskBuild(c)
  BY <1>3, <1>4, <1>11, FlightType, SetStateType DEF AskBuild, TypeOK, Ask, States, Working
<1>12. CASE HandOver(c)
  <2>1. [id |-> client[c].id, gen |-> client[c].gen] \in Jobs
    BY <1>3, <1>12, InFlight DEF Ask, Jobs
  <2> QED
    BY <1>3, <1>12, <2>1, FlightType, SubmitType DEF HandOver, TypeOK, Ask, Kinds
<1>13. CASE HandOverRefused(c)
  BY <1>3, <1>13, FlightType, SubmitRefusedType DEF HandOverRefused, TypeOK, Ask
<1>14. CASE FailRefused(c)
  <2>1. client[c].id \in Dbs /\ client[c].gen \in Gens
    BY <1>3, <1>14, InFlight DEF Ask
  <2> QED
    BY <1>3, <1>14, <2>1, FlightType, SetStateType, FailedType DEF FailRefused, TypeOK, Ask
<1>15. CASE FindDamage(c)
  <2>1. client[c].id \in Dbs
    BY <1>3, <1>15, InFlight
  <2>2. state' \in [Dbs -> States]
    BY <1>15, <2>1, SetStateType DEF FindDamage, TypeOK, States, Idle
  <2>3. disk' \in [Dbs -> Indexes \union {None}]
    BY <1>15, <2>1 DEF FindDamage, TypeOK
  <2>4. client' \in [Clients -> {AtRest} \union Flights \union Reads]
    BY <1>3, <1>15, FlightType DEF FindDamage
  <2> QED
    BY <1>15, <2>2, <2>3, <2>4, TroubleType DEF FindDamage, TypeOK
<1> QED
  BY <1>1, <1>2, <1>5, <1>6, <1>7, <1>8, <1>9, <1>10, <1>11, <1>12, <1>13, <1>14, <1>15 DEF Ask

(* The keeper's steps.                                                     *)
LEMMA SightingType ==
    ASSUME TypeOK, NEW id \in Dbs, NEW s \in Sighting(id)
    PROVE  s \in Seen
<1>1. seen[id] \in Seen /\ gen[id] \in Gens
  BY DEF TypeOK
<1>2. CASE seen[id].gen = gen[id]
  BY <1>1, <1>2 DEF Sighting
<1>3. CASE seen[id].gen # gen[id]
  BY <1>1, <1>3 DEF Sighting, Seen
<1> QED
  BY <1>2, <1>3

LEMMA KeepTypeOK ==
    ASSUME TypeOK, Keep
    PROVE  TypeOK'
<1> USE DEF world, folder, queues
<1>1. CASE BeginLook
  <2>1. running' \in Runs \union {None}
    BY <1>1 DEF BeginLook, TypeOK, Runs
  <2>2. used' \in SUBSET Dbs /\ picked' \in BOOLEAN
    BY <1>1 DEF BeginLook, PickLargest, TypeOK
  <2>3. seen' \in [Dbs -> Seen]
    BY <1>1 DEF BeginLook, TypeOK, Unseen, Seen
  <2>4. keeper' \in {Away} \union Looks
    BY <1>1 DEF BeginLook, Listed, Looks
  <2> QED
    BY <1>1, <2>1, <2>2, <2>3, <2>4 DEF BeginLook, TypeOK
<1>2. CASE KeeperHandsOver
  <2>1. keeper \in Looks /\ keeper.job \in Jobs /\ keeper.todo \in SUBSET Dbs
    BY <1>2 DEF KeeperHandsOver, TypeOK, Away, Looks
  <2>2. keeper' \in {Away} \union Looks
    BY <1>2, <2>1 DEF KeeperHandsOver, Looks
  <2> QED
    BY <1>2, <2>1, <2>2, SubmitType DEF KeeperHandsOver, TypeOK, Kinds
<1>3. CASE KeeperRefused
  <2>1. keeper' \in {Away} \union Looks
    <3>1. keeper \in Looks /\ keeper.pc = "handing"
      BY <1>3 DEF KeeperRefused, TypeOK, Away
    <3>2. keeper \in [pc : {"handing", "refused"}, todo : SUBSET Dbs, job : Jobs]
      BY <3>1 DEF Looks
    <3> QED
      BY <1>3, <3>2 DEF KeeperRefused, Looks
  <2> QED
    BY <1>3, <2>1, SubmitRefusedType DEF KeeperRefused, TypeOK
<1>4. CASE KeeperFails
  <2>1. keeper \in Looks /\ keeper.job.id \in Dbs /\ keeper.job.gen \in Gens /\ keeper.todo \in SUBSET Dbs
    BY <1>4 DEF KeeperFails, TypeOK, Away, Looks, Jobs
  <2>2. keeper' \in {Away} \union Looks
    BY <1>4, <2>1 DEF KeeperFails, Looks
  <2> QED
    BY <1>4, <2>1, <2>2, SetStateType, FailedType DEF KeeperFails, TypeOK
<1>5. CASE EndLook
  BY <1>5 DEF EndLook, TypeOK
<1>6. ASSUME NEW id \in Dbs, PassOver(id) \/ RenewWithoutRoom(id) \/ Renew(id)
      PROVE  TypeOK'
  <2>1. keeper.todo \in SUBSET Dbs /\ gen[id] \in Gens
    <3>1. Looking(id)
      BY <1>6 DEF PassOver, RenewWithoutRoom, Renew
    <3>2. keeper \in [pc : {"looking"}, todo : SUBSET Dbs]
      BY <3>1 DEF Looking, TypeOK, Away, Looks
    <3> QED
      BY <3>2 DEF TypeOK
  <2>2. seen' \in [Dbs -> Seen]
    BY <1>6, SightingType DEF PassOver, RenewWithoutRoom, Renew, See, TypeOK
  <2>3. ASSUME Looked(id)
        PROVE  keeper' \in {Away} \union Looks
    BY <2>1, <2>3 DEF Looked, Looks
  <2>4. CASE PassOver(id)
    BY <2>2, <2>3, <2>4 DEF PassOver, TypeOK
  <2>5. CASE RenewWithoutRoom(id)
    BY <2>1, <2>2, <2>3, <2>5, SetStateType, FailedType, TroubleType DEF RenewWithoutRoom, TypeOK
  <2>6. CASE Renew(id)
    <3>1. keeper' \in {Away} \union Looks
      BY <2>1, <2>6 DEF Renew, Looks, Jobs
    <3>2. state' \in [Dbs -> States]
      BY <2>6, SetStateType DEF Renew, TypeOK, States, Working
    <3> QED
      BY <2>2, <2>6, <3>1, <3>2 DEF Renew, TypeOK
  <2> QED
    BY <1>6, <2>4, <2>5, <2>6
<1> QED
  BY <1>1, <1>2, <1>3, <1>4, <1>5, <1>6 DEF Keep

(* What a bridge just started holds in memory.                             *)
LEMMA ResetType ==
    /\ [d \in Dbs |-> Idle] \in [Dbs -> States]
    /\ <<>> \in Seq(Jobs)
    /\ [c \in Clients |-> AtRest] \in [Clients -> {AtRest} \union Flights \union Reads]
    /\ [d \in Dbs |-> Unseen] \in [Dbs -> Seen]
<1>1. Idle \in States
  BY DEF States
<1>2. Unseen \in Seen
  BY DEF Unseen, Seen
<1> QED
  BY <1>1, <1>2

(* A sweep's steps, and the world's.                                       *)
LEMMA SweepTypeOK ==
    ASSUME TypeOK, Sweep
    PROVE  TypeOK'
<1> USE DEF world, folder, queues, keeping, TypeOK
<1>1. ASSUME NEW id \in Dbs, SweepWork(id)
      PROVE  TypeOK'
  BY <1>1 DEF SweepWork
<1>2. ASSUME NEW id \in Dbs, SweepIndex(id)
      PROVE  TypeOK'
  BY <1>2, SetStateType, FailedType DEF SweepIndex, States, Idle
<1> QED
  BY <1>1, <1>2 DEF Sweep

LEMMA WorldTypeOK ==
    ASSUME TypeOK, World
    PROVE  TypeOK'
<1> USE DEF world, folder, queues, keeping
<1>1. CASE SwitchPower
  BY <1>1 DEF SwitchPower, TypeOK
<1>2. CASE Restart
  BY <1>2, TroubleType, ResetType DEF Restart, TypeOK
<1>3. ASSUME NEW id \in Dbs, MinutePasses(id)
      PROVE  TypeOK'
  <2>1. CASE JustFailed(id) /\ state' = [state EXCEPT ![id].recent = FALSE] /\ seen' = seen
    <3>1. state[id] \in States /\ state[id].tag = "Failed"
      BY <2>1 DEF JustFailed, TypeOK
    <3>2. state[id] \in [tag : {"Failed"}, gen : Gens, busy : BOOLEAN, recent : BOOLEAN]
      BY ONLY <3>1 DEF States, Idle, Working
    <3>3. [state[id] EXCEPT !.recent = FALSE]
              \in [tag : {"Failed"}, gen : Gens, busy : BOOLEAN, recent : BOOLEAN]
      BY ONLY <3>2
    <3>4. [state[id] EXCEPT !.recent = FALSE] \in States
      BY ONLY <3>3 DEF States
    <3>5. state' \in [Dbs -> States]
      BY <2>1, <3>4 DEF TypeOK
    <3> QED
      BY <1>3, <2>1, <3>5 DEF MinutePasses, TypeOK
  <2>2. CASE seen' = [seen EXCEPT ![id].quiet = TRUE] /\ state' = state
    <3>1. seen' \in [Dbs -> Seen]
      BY <2>2 DEF TypeOK, Seen
    <3> QED
      BY <1>3, <2>2, <3>1 DEF MinutePasses, TypeOK
  <2> QED
    BY <1>3, <2>1, <2>2 DEF MinutePasses
<1>4. ASSUME NEW id \in Dbs, Change(id)
      PROVE  TypeOK'
  <2>1. gen' \in [Dbs -> Gens]
    BY <1>4 DEF Change, TypeOK, Gens
  <2>2. running' \in Runs \union {None}
    BY <1>4 DEF Change, TypeOK, RunsFor, Runs
  <2> QED
    BY <1>4, <2>1, <2>2, TroubleType DEF Change, TypeOK
<1>5. ASSUME NEW id \in Dbs, Move(id)
      PROVE  TypeOK'
  BY <1>5, TroubleType DEF Move, TypeOK
<1> QED
  BY <1>1, <1>2, <1>3, <1>4, <1>5 DEF World

(* Every reachable state is of its types.                                  *)
THEOREM TypeCorrect == Spec => []TypeOK
<1>1. Init => TypeOK
  <2>1. 1 \in Gens /\ 0 \in 0..MaxTrouble /\ "ready" \in Places
    BY DEF Gens, Places
  <2> QED
    BY <2>1, ResetType DEF Init, TypeOK
<1>2. TypeOK /\ [Next]_vars => TypeOK'
  <2> SUFFICES ASSUME TypeOK, [Next]_vars
               PROVE  TypeOK'
    OBVIOUS
  <2>1. CASE Builder
    BY <2>1, SchedulerTypeOK, BuildTypeOK DEF Builder
  <2>2. CASE Request
    BY <2>2, RequestTypeOK DEF Request
  <2>3. CASE Keep
    BY <2>3, KeepTypeOK
  <2>4. CASE Sweep
    BY <2>4, SweepTypeOK
  <2>5. CASE World
    BY <2>5, WorldTypeOK
  <2>6. CASE UNCHANGED vars
    BY <2>6 DEF vars, TypeOK
  <2> QED
    BY <2>1, <2>2, <2>3, <2>4, <2>5, <2>6 DEF Next
<1> QED
  BY <1>1, <1>2, PTL DEF Spec
-----------------------------------------------------------------------------
(* What a step leaves as it is.                                            *)

(* A step of a build's work ends with its state given its last word, and   *)
(* leaves the other databases' states and the queues alone.                *)
LEMMA BuildSteps ==
    ASSUME TypeOK, Build
    PROVE  /\ running \in Runs /\ running.step # "over"
           /\ running' \in Runs
           /\ running'.id = running.id /\ running'.gen = running.gen
           /\ running'.kind = running.kind /\ running'.stop = running.stop
           /\ running'.step = "over" => state'[running.id].tag # "Working"
           /\ running'.step # "over" => state' = state
           /\ \A id \in Dbs : id # running.id => state'[id] = state[id]
           /\ \A id \in Dbs : state'[id] = state[id] \/ state'[id].tag # "Working"
           /\ Elsewhere
<1>1. running \in Runs /\ Elsewhere /\ running.step # "over"
  BY DEF Build, CheckTurn, DropTurn, TurnWithoutRoom, FindKept, BeginBuild, ReadGames,
         WritePasses, RenameFiles, OpenBuilt, SeeStop, BuildFails, LostFiles, BuildPanics,
         AskStill, Settle, At, TypeOK
<1>2. running.id \in Dbs /\ state \in [Dbs -> States]
  BY <1>1 DEF TypeOK, Runs
<1>3. running' \in Runs
  BY BuildTypeOK
<1> DEFINE Rest == /\ running'.id = running.id /\ running'.gen = running.gen
                   /\ running'.kind = running.kind /\ running'.stop = running.stop
<1> DEFINE Ends(s) == running'.step = "over" /\ SetState(running.id, s) /\ s.tag # "Working"
<1>4. /\ Rest
      /\ \/ running'.step # "over" /\ state' = state
         \/ \E s \in States : Ends(s)
  <2>1. ASSUME NEW step, Go(step)
        PROVE  Rest /\ running'.step = step
    BY <1>1, <2>1 DEF Go, Runs
  <2>2. ASSUME NEW busy \in BOOLEAN, Erred(busy)
        PROVE  Rest /\ (\/ running'.step # "over" /\ state' = state
                        \/ \E s \in States : Ends(s))
    <3>1. running.gen \in Gens
      BY <1>1 DEF Runs
    <3>2. Failed(running.gen, busy) \in States /\ Failed(running.gen, busy).tag # "Working"
      BY <3>1, FailedType DEF Failed
    <3> QED
      BY <2>1, <2>2, <3>2 DEF Erred
  <2>3. CASE Go("over") /\ \E s \in States : SetState(running.id, s) /\ s.tag # "Working"
    BY <2>1, <2>3
  <2>4. CASE /\ state' = state
             /\ \E step \in Steps : Go(step) /\ step # "over"
    BY <2>1, <2>4
  <2>5. CASE CheckTurn \/ ReadGames \/ WritePasses \/ RenameFiles \/ OpenBuilt \/ AskStill
    BY <2>4, <2>5 DEF CheckTurn, ReadGames, WritePasses, RenameFiles, OpenBuilt, AskStill,
       Steps, Building
  <2>6. CASE FindKept \/ BeginBuild
    BY <1>1, <2>6 DEF FindKept, BeginBuild, Runs
  <2>7. CASE SeeStop \/ BuildFails \/ LostFiles
    BY <2>2, <2>7 DEF SeeStop, BuildFails, LostFiles
  <2>8. CASE DropTurn
    BY <2>3, <2>8, <1>1, FailedType DEF DropTurn, Idle, Runs, States
  <2>9. CASE TurnWithoutRoom \/ BuildPanics
    <3>1. Failed(running.gen, FALSE) \in States /\ Failed(running.gen, FALSE).tag # "Working"
      BY <1>1, FailedType DEF Failed, Runs
    <3> QED
      BY <2>3, <2>9, <3>1 DEF TurnWithoutRoom, BuildPanics
  <2>10. CASE Settle
    <3> DEFINE index == [gen |-> running.gen, whole |-> running.whole]
    <3>1. index \in Indexes
      BY <1>1 DEF Runs, Indexes
    <3>2. Ready(index) \in States /\ Ready(index).tag # "Working"
      BY <3>1, ReadyType DEF Ready
    <3>3. Idle \in States /\ Idle.tag # "Working"
      BY DEF Idle, States
    <3> QED
      BY <2>3, <2>10, <3>2, <3>3 DEF Settle
  <2> QED
    BY <2>5, <2>6, <2>7, <2>8, <2>9, <2>10 DEF Build
<1>5. CASE running'.step # "over" /\ state' = state
  BY <1>1, <1>3, <1>4, <1>5
<1>6. ASSUME NEW s \in States, Ends(s)
      PROVE  /\ state'[running.id].tag # "Working"
             /\ \A id \in Dbs : id # running.id => state'[id] = state[id]
  BY <1>2, <1>6 DEF SetState
<1> QED
  BY <1>1, <1>3, <1>4, <1>5, <1>6

(* The keeper leaves the queues alone while it looks, and a client while   *)
(* it asks, unless it asks of a database whose build is under way.         *)
LEMMA LooksLeaveQueues ==
    ASSUME Keep, ~KeeperHandsOver, ~KeeperRefused, ~BeginLook
    PROVE  UNCHANGED queues
BY DEF Keep, KeeperFails, EndLook, PassOver, RenewWithoutRoom, Renew

LEMMA RequestsLeaveQueues ==
    ASSUME NEW c \in Clients,
           Ask(c) \/ FindDamage(c) \/ Leave(c) \/ \E id \in Dbs : Open(c, id),
           ~AskWorking(c), ~HandOver(c), ~HandOverRefused(c)
    PROVE  UNCHANGED queues
BY DEF Ask, AskHeld, AskFailed, AskKept, AskBusy, AskWithoutRoom, AskBuild, FailRefused,
       FindDamage, Leave, Open
-----------------------------------------------------------------------------
(* The thread outlives what waits for it.                                  *)
THEOREM ThreadOutlivesQueues == Spec => []QueuesHaveThread
<1>1. Init => QueuesHaveThread
  BY DEF Init, QueuesHaveThread
<1>2. TypeOK /\ QueuesHaveThread /\ [Next]_vars => QueuesHaveThread'
  <2> SUFFICES ASSUME TypeOK, QueuesHaveThread, [Next]_vars
               PROVE  QueuesHaveThread'
    OBVIOUS
  <2>1. CASE UNCHANGED queues
    BY <2>1 DEF queues, QueuesHaveThread
  <2>2. ASSUME SubmitRefused
        PROVE  QueuesHaveThread'
    BY <2>2 DEF SubmitRefused, QueuesHaveThread
  <2>3. CASE Builder
    <3>1. CASE StartRequested \/ StartBackground
      BY <3>1 DEF StartRequested, StartBackground, QueuesHaveThread
    <3>2. CASE EndThread
      BY <3>2 DEF EndThread, QueuesHaveThread
    <3>3. CASE Finish \/ Requeue
      BY <3>3 DEF Finish, Requeue, At, QueuesHaveThread
    <3>4. CASE Build
      <4>1. running # None /\ thread' = thread
        BY <3>4, BuildSteps, NoneAssumption DEF Elsewhere
      <4> QED
        BY <4>1 DEF QueuesHaveThread
    <3> QED
      BY <2>3, <3>1, <3>2, <3>3, <3>4 DEF Builder
  <2>4. ASSUME NEW c \in Clients,
               Ask(c) \/ FindDamage(c) \/ Leave(c) \/ \E id \in Dbs : Open(c, id)
        PROVE  QueuesHaveThread'
    <3>1. CASE AskWorking(c)
      BY <3>1 DEF AskWorking, Promote, PromoteWaiting, PromoteRunning, RunsFor, QueuesHaveThread
    <3>2. CASE HandOver(c)
      BY <3>2 DEF HandOver, Submit, QueuesHaveThread
    <3>3. CASE HandOverRefused(c)
      BY <2>2, <3>3 DEF HandOverRefused
    <3> QED
      BY <2>1, <2>4, <3>1, <3>2, <3>3, RequestsLeaveQueues
  <2>5. CASE Keep
    <3>1. CASE BeginLook
      BY <3>1 DEF BeginLook, QueuesHaveThread
    <3>2. CASE KeeperHandsOver
      BY <3>2 DEF KeeperHandsOver, Submit, QueuesHaveThread
    <3>3. CASE KeeperRefused
      BY <2>2, <3>3 DEF KeeperRefused
    <3> QED
      BY <2>1, <2>5, <3>1, <3>2, <3>3, LooksLeaveQueues
  <2>6. CASE Sweep
    BY <2>1, <2>6 DEF Sweep, SweepWork, SweepIndex
  <2>7. CASE World
    BY <2>7 DEF World, SwitchPower, Restart, MinutePasses, Change, Move, RunsFor, queues,
       QueuesHaveThread
  <2> QED
    BY <2>1, <2>3, <2>4, <2>5, <2>6, <2>7 DEF Next, Request, vars, queues
<1> QED
  BY <1>1, <1>2, TypeCorrect, PTL DEF Spec
-----------------------------------------------------------------------------
(* A request stops a background build of another database.                 *)

(* Queueing a requested build keeps it so; queueing a background one does  *)
(* too, and so does promoting one.                                         *)
LEMMA SubmitStops ==
    ASSUME TypeOK, RequestStopsBackground, NEW job \in Jobs, NEW kind \in Kinds,
           Submit(job, kind)
    PROVE  RequestStopsBackground'
<1>1. CASE kind = "Requested"
  <2>1. requested' = Append(requested, job) /\ running' = Preempted(job.id)
    BY <1>1 DEF Submit
  <2>2. \A id : Waits(requested', id) <=> Waits(requested, id) \/ job.id = id
    BY <2>1, WaitsAppend DEF TypeOK
  <2> QED
    BY <2>1, <2>2 DEF RequestStopsBackground, Preempted, TypeOK, Runs
<1>2. CASE kind # "Requested"
  BY <1>2 DEF Submit, RequestStopsBackground
<1> QED
  BY <1>1, <1>2

LEMMA PromoteStops ==
    ASSUME TypeOK, RequestStopsBackground, NEW id \in Dbs, Promote(id)
    PROVE  RequestStopsBackground'
<1>1. CASE PromoteWaiting(id)
  <2>1. PICK i \in 1..Len(background) : /\ background[i].id = id
                                        /\ requested' = Append(requested, background[i])
                                        /\ running' = Preempted(id)
    BY <1>1 DEF PromoteWaiting
  <2>2. \A d : Waits(requested', d) <=> Waits(requested, d) \/ id = d
    BY <2>1, WaitsAppend DEF TypeOK
  <2> QED
    BY <2>1, <2>2 DEF RequestStopsBackground, Preempted, TypeOK, Runs
<1>2. CASE PromoteRunning(id)
  <2>1. requested' = requested
        /\ running' = IF RunsFor(id) THEN [running EXCEPT !.kind = "Requested"] ELSE running
    BY <1>2 DEF PromoteRunning
  <2> QED
    BY <2>1 DEF RequestStopsBackground, RunsFor, TypeOK, Runs
<1> QED
  BY <1>1, <1>2 DEF Promote

(* No request waits behind a background build of another database that was *)
(* not asked to stop, however many clients, databases and restarts.        *)
THEOREM RequestsStopBackground == Spec => []RequestStopsBackground
<1>1. Init => RequestStopsBackground
  BY DEF Init, RequestStopsBackground
<1>2. TypeOK /\ RequestStopsBackground /\ [Next]_vars => RequestStopsBackground'
  <2> SUFFICES ASSUME TypeOK, RequestStopsBackground, [Next]_vars
               PROVE  RequestStopsBackground'
    OBVIOUS
  <2>1. ASSUME UNCHANGED queues
        PROVE  RequestStopsBackground'
    BY <2>1 DEF queues, RequestStopsBackground
  <2>2. ASSUME SubmitRefused
        PROVE  RequestStopsBackground'
    BY <2>2, WaitsNone DEF SubmitRefused, RequestStopsBackground
  <2>3. CASE Builder
    <3>1. CASE StartRequested \/ StartBackground
      BY <3>1, WaitsNone DEF StartRequested, StartBackground, Turn, RequestStopsBackground
    <3>2. CASE EndThread
      BY <3>2 DEF EndThread, RequestStopsBackground
    <3>3. CASE Finish \/ Requeue
      BY <3>3 DEF Finish, Requeue, RequestStopsBackground
    <3>4. CASE Build
      <4>1. /\ requested' = requested
            /\ running # None /\ running.step # "over"
            /\ running'.id = running.id
            /\ running'.kind = running.kind /\ running'.stop = running.stop
        BY <3>4, BuildSteps, NoneAssumption DEF Elsewhere
      <4> QED
        BY <4>1 DEF RequestStopsBackground
    <3> QED
      BY <2>3, <3>1, <3>2, <3>3, <3>4 DEF Builder
  <2>4. ASSUME NEW c \in Clients,
               Ask(c) \/ FindDamage(c) \/ Leave(c) \/ \E id \in Dbs : Open(c, id)
        PROVE  RequestStopsBackground'
    <3>1. CASE AskWorking(c)
      BY <3>1, InFlight, PromoteStops DEF AskWorking, Asking
    <3>2. CASE HandOver(c)
      <4>1. [id |-> client[c].id, gen |-> client[c].gen] \in Jobs
        BY <3>2, InFlight DEF HandOver, Jobs
      <4> QED
        BY <3>2, <4>1, SubmitStops DEF HandOver, Kinds
    <3>3. CASE HandOverRefused(c)
      BY <2>2, <3>3 DEF HandOverRefused
    <3> QED
      BY <2>1, <2>4, <3>1, <3>2, <3>3, RequestsLeaveQueues
  <2>5. CASE Keep
    <3>1. CASE BeginLook
      BY <3>1 DEF BeginLook, RequestStopsBackground, TypeOK, Runs
    <3>2. CASE KeeperHandsOver
      <4>1. keeper.job \in Jobs
        BY <3>2 DEF KeeperHandsOver, TypeOK, Away, Looks
      <4> QED
        BY <3>2, <4>1, SubmitStops DEF KeeperHandsOver, Kinds
    <3>3. CASE KeeperRefused
      BY <2>2, <3>3 DEF KeeperRefused
    <3> QED
      BY <2>1, <2>5, <3>1, <3>2, <3>3, LooksLeaveQueues
  <2>6. CASE Sweep
    BY <2>1, <2>6 DEF Sweep, SweepWork, SweepIndex
  <2>7. CASE World
    <3>1. CASE SwitchPower \/ \E id \in Dbs : MinutePasses(id) \/ Move(id)
      BY <2>1, <3>1 DEF SwitchPower, MinutePasses, Move
    <3>2. CASE Restart
      BY <3>2 DEF Restart, RequestStopsBackground
    <3>3. ASSUME NEW id \in Dbs, Change(id)
          PROVE  RequestStopsBackground'
      BY <3>3 DEF Change, RunsFor, RequestStopsBackground, TypeOK, Runs
    <3> QED
      BY <2>7, <3>1, <3>2, <3>3 DEF World
  <2> QED
    BY <2>1, <2>3, <2>4, <2>5, <2>6, <2>7 DEF Next, Request, vars, queues
<1> QED
  BY <1>1, <1>2, TypeCorrect, PTL DEF Spec
-----------------------------------------------------------------------------
(* No database is left Working without a build.                            *)

(* A build a client or the keeper hands over waits in a queue, and what    *)
(* waited or ran before still does.                                        *)
LEMMA SubmitQueues ==
    ASSUME TypeOK, NEW job \in Jobs, NEW kind \in Kinds, Submit(job, kind), NEW id
    PROVE  /\ Waits(requested', id) \/ Waits(background', id)
                <=> Waits(requested, id) \/ Waits(background, id) \/ job.id = id
           /\ RunsFor(id) /\ running.step # "over" => RunsFor(id)' /\ running'.step # "over"
<1>1. /\ Waits(Append(requested, job), id) <=> Waits(requested, id) \/ job.id = id
      /\ Waits(Append(background, job), id) <=> Waits(background, id) \/ job.id = id
  BY WaitsAppend DEF TypeOK
<1>2. RunsFor(id) /\ running.step # "over" => RunsFor(id)' /\ running'.step # "over"
  <2>1. CASE running' = Preempted(job.id)
    <3>1. CASE running \in Runs
      <4>1. /\ [running EXCEPT !.stop = TRUE] \in Runs
            /\ [running EXCEPT !.stop = TRUE].id = running.id
            /\ [running EXCEPT !.stop = TRUE].step = running.step
        BY <3>1 DEF Runs
      <4> QED
        BY <2>1, <4>1, NoneAssumption DEF Preempted, RunsFor
    <3> QED
      BY <3>1 DEF TypeOK, RunsFor
  <2>2. CASE running' = running
    BY <2>2 DEF RunsFor
  <2> QED
    BY <2>1, <2>2 DEF Submit
<1> QED
  BY <1>1, <1>2 DEF Submit

LEMMA PromoteQueues ==
    ASSUME TypeOK, NEW promoted, Promote(promoted), NEW id
    PROVE  /\ Waits(requested', id) \/ Waits(background', id)
                <=> Waits(requested, id) \/ Waits(background, id)
           /\ RunsFor(id) /\ running.step # "over" => RunsFor(id)' /\ running'.step # "over"
<1>1. CASE PromoteWaiting(promoted)
  <2>1. PICK i \in 1..Len(background) : /\ background[i].id = promoted
                                        /\ requested' = Append(requested, background[i])
                                        /\ background' = Without(background, i)
                                        /\ running' = Preempted(promoted)
    BY <1>1 DEF PromoteWaiting
  <2>2. /\ Waits(requested', id) <=> Waits(requested, id) \/ background[i].id = id
        /\ Waits(background, id) <=> Waits(background', id) \/ background[i].id = id
    BY <2>1, WaitsAppend, WaitsWithout DEF TypeOK
  <2>3. RunsFor(id) /\ running.step # "over" => RunsFor(id)' /\ running'.step # "over"
    <3>1. CASE running \in Runs
      <4>1. /\ [running EXCEPT !.stop = TRUE] \in Runs
            /\ [running EXCEPT !.stop = TRUE].id = running.id
            /\ [running EXCEPT !.stop = TRUE].step = running.step
        BY <3>1 DEF Runs
      <4> QED
        BY <2>1, <4>1, NoneAssumption DEF Preempted, RunsFor
    <3> QED
      BY <3>1 DEF TypeOK, RunsFor
  <2> QED
    BY <2>2, <2>3
<1>2. CASE PromoteRunning(promoted)
  <2>1. requested' = requested /\ background' = background
    BY <1>2 DEF PromoteRunning
  <2>2. RunsFor(id) /\ running.step # "over" => RunsFor(id)' /\ running'.step # "over"
    <3>1. CASE running \in Runs
      <4>1. /\ [running EXCEPT !.kind = "Requested"] \in Runs
            /\ [running EXCEPT !.kind = "Requested"].id = running.id
            /\ [running EXCEPT !.kind = "Requested"].step = running.step
        BY <3>1 DEF Runs, Kinds
      <4> QED
        BY <1>2, <4>1, NoneAssumption DEF PromoteRunning, RunsFor
    <3> QED
      BY <3>1 DEF TypeOK, RunsFor
  <2> QED
    BY <2>1, <2>2
<1> QED
  BY <1>1, <1>2 DEF Promote

(* Every step keeps a build for each database left Working, and gives one  *)
(* to each that becomes so.                                                *)
LEMMA BuilderKeepsBuilds ==
    ASSUME TypeOK, WorkingHasBuild, Builder, NEW id \in Dbs, state'[id].tag = "Working"
    PROVE  HasBuild(id)'
<1>1. CASE StartRequested
  <2>1. Waits(requested, id) <=> running'.id = id \/ Waits(requested', id)
    BY <1>1, WaitsTail DEF StartRequested, TypeOK, Turn
  <2>2. running' \in Runs
    BY <1>1, TurnType DEF StartRequested, TypeOK, Kinds
  <2>3. running' # None /\ running'.step # "over"
    BY <1>1, <2>2, NoneAssumption DEF StartRequested, Turn
  <2> QED
    BY <1>1, <2>1, <2>3 DEF StartRequested, keeping, WorkingHasBuild, HasBuild, RunsFor
<1>2. CASE StartBackground
  <2>1. Waits(background, id) <=> running'.id = id \/ Waits(background', id)
    BY <1>2, WaitsTail DEF StartBackground, TypeOK, Turn
  <2>2. running' \in Runs
    BY <1>2, TurnType DEF StartBackground, TypeOK, Kinds
  <2>3. running' # None /\ running'.step # "over"
    BY <1>2, <2>2, NoneAssumption DEF StartBackground, Turn
  <2> QED
    BY <1>2, <2>1, <2>3 DEF StartBackground, keeping, WorkingHasBuild, HasBuild, RunsFor
<1>3. CASE EndThread
  BY <1>3 DEF EndThread, keeping, WorkingHasBuild, HasBuild, RunsFor
<1>4. CASE Finish
  BY <1>4 DEF Finish, At, keeping, WorkingHasBuild, HasBuild, RunsFor
<1>5. CASE Requeue
  <2> DEFINE job == [id |-> running.id, gen |-> running.gen]
  <2>1. job \in Jobs
    BY <1>5 DEF Requeue, At, TypeOK, Runs, Jobs
  <2>2. /\ Waits(Append(requested, job), id) <=> Waits(requested, id) \/ job.id = id
        /\ Waits(<<job>> \o background, id) <=> Waits(background, id) \/ job.id = id
    BY <2>1, WaitsAppend, WaitsPutBack DEF TypeOK
  <2> QED
    BY <1>5, <2>2 DEF Requeue, keeping, WorkingHasBuild, HasBuild, RunsFor
<1>6. CASE Build
  <2>1. /\ running'.id = running.id /\ running' # None
        /\ running'.step = "over" => state'[running.id].tag # "Working"
        /\ state'[id] = state[id]
        /\ requested' = requested /\ background' = background /\ client' = client /\ keeper' = keeper
    BY <1>6, BuildSteps, NoneAssumption DEF Elsewhere, keeping
  <2> QED
    BY <2>1 DEF WorkingHasBuild, HasBuild, RunsFor
<1> QED
  BY <1>1, <1>2, <1>3, <1>4, <1>5, <1>6 DEF Builder

LEMMA RequestKeepsBuilds ==
    ASSUME TypeOK, WorkingHasBuild, QueuesHaveThread, NEW c \in Clients,
           Ask(c) \/ FindDamage(c) \/ Leave(c) \/ \E d \in Dbs : Open(c, d),
           NEW id \in Dbs, state'[id].tag = "Working"
    PROVE  HasBuild(id)'
<1> USE DEF TypeOK, keeping
<1>1. ASSUME UNCHANGED queues, UNCHANGED keeper, state'[id] = state[id],
             ~(client[c].pc \in {"handing", "refused"} /\ client[c].id = id),
             NEW flight, client' = [client EXCEPT ![c] = flight]
      PROVE  HasBuild(id)'
  BY <1>1 DEF queues, WorkingHasBuild, HasBuild, RunsFor
<1>2. CASE \E d \in Dbs : Open(c, d)
  BY <1>1, <1>2 DEF Open
<1>3. CASE Leave(c)
  BY <1>1, <1>3 DEF Leave
<1>4. CASE AskHeld(c) \/ AskFailed(c)
  BY <1>1, <1>4 DEF AskHeld, AskFailed, Asking, Answered, Flight
<1>5. CASE AskKept(c) \/ AskBusy(c) \/ AskWithoutRoom(c)
  <2>1. state'[id] = state[id]
    BY <1>5 DEF AskKept, AskBusy, AskWithoutRoom, SetState, Ready, Idle, Failed
  <2> QED
    BY <1>1, <1>5, <2>1 DEF AskKept, AskBusy, AskWithoutRoom, Asking, Answered, Flight
<1>6. CASE AskBuild(c)
  <2>1. CASE id = client[c].id
    BY <1>6, <2>1 DEF AskBuild, Flight, HasBuild
  <2>2. CASE id # client[c].id
    BY <1>1, <1>6, <2>2 DEF AskBuild, SetState, Asking, Flight
  <2> QED
    BY <2>1, <2>2
<1>7. CASE AskWorking(c)
  <2>1. /\ Waits(requested', id) \/ Waits(background', id)
             <=> Waits(requested, id) \/ Waits(background, id)
        /\ RunsFor(id) /\ running.step # "over" => RunsFor(id)' /\ running'.step # "over"
    BY <1>7, PromoteQueues DEF AskWorking
  <2>2. \A k \in Clients : client[k].pc \in {"handing", "refused"} => client'[k] = client[k]
    BY <1>7 DEF AskWorking, Asking, Flight
  <2> QED
    BY <1>7, <2>1, <2>2 DEF AskWorking, WorkingHasBuild, HasBuild
<1>8. CASE HandOver(c)
  <2> DEFINE job == [id |-> client[c].id, gen |-> client[c].gen]
  <2>1. job \in Jobs /\ Submit(job, "Requested")
    BY <1>8, InFlight DEF HandOver, Jobs
  <2>2. /\ Waits(requested', id) \/ Waits(background', id)
             <=> Waits(requested, id) \/ Waits(background, id) \/ client[c].id = id
        /\ RunsFor(id) /\ running.step # "over" => RunsFor(id)' /\ running'.step # "over"
    BY <2>1, SubmitQueues DEF Kinds
  <2>3. \A k \in Clients : k # c => client'[k] = client[k]
    BY <1>8 DEF HandOver, Flight
  <2> QED
    BY <1>8, <2>2, <2>3 DEF HandOver, WorkingHasBuild, HasBuild
<1>9. CASE HandOverRefused(c)
  <2>1. requested = <<>> /\ background = <<>> /\ running = None
    BY <1>9 DEF HandOverRefused, SubmitRefused, QueuesHaveThread
  <2>2. \A k \in Clients : /\ k # c => client'[k] = client[k]
                           /\ client'[c].id = client[c].id /\ client'[c].pc = "refused"
    BY <1>9 DEF HandOverRefused, Flight
  <2> QED
    BY <1>9, <2>1, <2>2, WaitsNone DEF HandOverRefused, WorkingHasBuild, HasBuild, RunsFor
<1>10. CASE FailRefused(c) \/ FindDamage(c)
  <2>1. client[c].id \in Dbs
    BY <1>10, InFlight DEF FailRefused, FindDamage
  <2>2. id # client[c].id /\ state'[id] = state[id]
    BY <1>10, <2>1 DEF FailRefused, FindDamage, SetState, Failed, Idle
  <2> QED
    BY <1>1, <1>10, <2>2 DEF FailRefused, FindDamage, Flight
<1> QED
  BY <1>2, <1>3, <1>4, <1>5, <1>6, <1>7, <1>8, <1>9, <1>10 DEF Ask

LEMMA KeepKeepsBuilds ==
    ASSUME TypeOK, WorkingHasBuild, QueuesHaveThread, Keep,
           NEW id \in Dbs, state'[id].tag = "Working"
    PROVE  HasBuild(id)'
<1> USE DEF TypeOK
<1>1. CASE BeginLook
  <2>1. RunsFor(id) /\ running.step # "over" => RunsFor(id)' /\ running'.step # "over"
    <3>1. CASE running \in Runs
      <4>1. /\ [running EXCEPT !.stop = TRUE] \in Runs
            /\ [running EXCEPT !.stop = TRUE].id = running.id
            /\ [running EXCEPT !.stop = TRUE].step = running.step
        BY <3>1 DEF Runs
      <4> QED
        BY <1>1, <4>1, NoneAssumption DEF BeginLook, RunsFor
    <3> QED
      BY <3>1 DEF RunsFor
  <2> QED
    BY <1>1, <2>1 DEF BeginLook, WorkingHasBuild, HasBuild
<1>2. CASE KeeperHandsOver
  <2>1. keeper.job \in Jobs
    BY <1>2 DEF KeeperHandsOver, Away, Looks
  <2>2. /\ Waits(requested', id) \/ Waits(background', id)
             <=> Waits(requested, id) \/ Waits(background, id) \/ keeper.job.id = id
        /\ RunsFor(id) /\ running.step # "over" => RunsFor(id)' /\ running'.step # "over"
    BY <1>2, <2>1, SubmitQueues DEF KeeperHandsOver, Kinds
  <2> QED
    BY <1>2, <2>2 DEF KeeperHandsOver, WorkingHasBuild, HasBuild
<1>3. CASE KeeperRefused
  <2>1. requested = <<>> /\ background = <<>> /\ running = None
    BY <1>3 DEF KeeperRefused, SubmitRefused, QueuesHaveThread
  <2>2. keeper'.pc = "refused" /\ keeper'.job = keeper.job
    BY <1>3 DEF KeeperRefused, Away, Looks
  <2> QED
    BY <1>3, <2>1, <2>2, WaitsNone DEF KeeperRefused, WorkingHasBuild, HasBuild, RunsFor
<1>4. CASE KeeperFails
  <2>1. keeper.job.id \in Dbs
    BY <1>4 DEF KeeperFails, Away, Looks, Jobs
  <2>2. id # keeper.job.id /\ state'[id] = state[id]
    BY <1>4, <2>1 DEF KeeperFails, SetState, Failed
  <2> QED
    BY <1>4, <2>2 DEF KeeperFails, queues, WorkingHasBuild, HasBuild, RunsFor
<1>5. CASE EndLook
  BY <1>5 DEF EndLook, queues, WorkingHasBuild, HasBuild, RunsFor
<1>6. ASSUME NEW d \in Dbs, PassOver(d) \/ RenewWithoutRoom(d)
      PROVE  HasBuild(id)'
  <2>1. state'[id] = state[id] /\ UNCHANGED queues /\ client' = client /\ keeper.pc = "looking"
    BY <1>6 DEF PassOver, RenewWithoutRoom, SetState, Failed, Looking
  <2> QED
    BY <2>1 DEF queues, WorkingHasBuild, HasBuild, RunsFor
<1>7. ASSUME NEW d \in Dbs, Renew(d)
      PROVE  HasBuild(id)'
  <2>1. CASE id = d
    BY <1>7, <2>1 DEF Renew, HasBuild
  <2>2. CASE id # d
    <3>1. state'[id] = state[id] /\ UNCHANGED queues /\ client' = client /\ keeper.pc = "looking"
      BY <1>7, <2>2 DEF Renew, SetState, Looking
    <3> QED
      BY <3>1 DEF queues, WorkingHasBuild, HasBuild, RunsFor
  <2> QED
    BY <2>1, <2>2
<1> QED
  BY <1>1, <1>2, <1>3, <1>4, <1>5, <1>6, <1>7 DEF Keep

LEMMA WorldKeepsBuilds ==
    ASSUME TypeOK, WorkingHasBuild, Sweep \/ World, NEW id \in Dbs, state'[id].tag = "Working"
    PROVE  HasBuild(id)'
<1> USE DEF TypeOK
<1>1. ASSUME UNCHANGED queues, client' = client, keeper' = keeper, state[id].tag = "Working"
      PROVE  HasBuild(id)'
  BY <1>1 DEF queues, WorkingHasBuild, HasBuild, RunsFor
<1>2. ASSUME NEW d \in Dbs, SweepWork(d) \/ SweepIndex(d)
      PROVE  HasBuild(id)'
  BY <1>1, <1>2 DEF SweepWork, SweepIndex, SetState, Idle, keeping
<1>3. CASE SwitchPower
  BY <1>1, <1>3 DEF SwitchPower, keeping
<1>4. CASE Restart
  BY <1>4 DEF Restart, Idle
<1>5. ASSUME NEW d \in Dbs, MinutePasses(d)
      PROVE  HasBuild(id)'
  <2>1. state[id].tag = "Working"
    <3>1. CASE id = d /\ JustFailed(d) /\ state' = [state EXCEPT ![d].recent = FALSE]
      BY <3>1 DEF JustFailed, States, Idle, Working
    <3> QED
      BY <1>5, <3>1 DEF MinutePasses
  <2> QED
    BY <1>1, <1>5, <2>1 DEF MinutePasses
<1>6. ASSUME NEW d \in Dbs, Change(d)
      PROVE  HasBuild(id)'
  <2>1. RunsFor(id) /\ running.step # "over" => RunsFor(id)' /\ running'.step # "over"
    <3>1. CASE running \in Runs
      <4>1. /\ [running EXCEPT !.whole = FALSE] \in Runs
            /\ [running EXCEPT !.whole = FALSE].id = running.id
            /\ [running EXCEPT !.whole = FALSE].step = running.step
        BY <3>1 DEF Runs
      <4> QED
        BY <1>6, <4>1, NoneAssumption DEF Change, RunsFor
    <3> QED
      BY <3>1 DEF RunsFor
  <2> QED
    BY <1>6, <2>1 DEF Change, keeping, WorkingHasBuild, HasBuild
<1>7. ASSUME NEW d \in Dbs, Move(d)
      PROVE  HasBuild(id)'
  BY <1>1, <1>7 DEF Move, keeping
<1> QED
  BY <1>2, <1>3, <1>4, <1>5, <1>6, <1>7 DEF Sweep, World

(* No database is answered "indexing" for ever: whoever left it Working,   *)
(* its build waits, runs, or is about to be queued or failed.              *)
THEOREM WorkingAlwaysHasBuild == Spec => []WorkingHasBuild
<1>1. Init => WorkingHasBuild
  BY DEF Init, WorkingHasBuild, Idle
<1>2. TypeOK /\ QueuesHaveThread /\ WorkingHasBuild /\ [Next]_vars => WorkingHasBuild'
  <2> SUFFICES ASSUME TypeOK, QueuesHaveThread, WorkingHasBuild, [Next]_vars,
                      NEW id \in Dbs, state'[id].tag = "Working"
               PROVE  HasBuild(id)'
    BY DEF WorkingHasBuild
  <2>1. CASE Builder
    BY <2>1, BuilderKeepsBuilds
  <2>2. CASE Request
    BY <2>2, RequestKeepsBuilds DEF Request
  <2>3. CASE Keep
    BY <2>3, KeepKeepsBuilds
  <2>4. CASE Sweep \/ World
    BY <2>4, WorldKeepsBuilds
  <2>5. CASE UNCHANGED vars
    BY <2>5 DEF vars, WorkingHasBuild, HasBuild, RunsFor
  <2> QED
    BY <2>1, <2>2, <2>3, <2>4, <2>5 DEF Next
<1> QED
  BY <1>1, <1>2, TypeCorrect, ThreadOutlivesQueues, PTL DEF Spec
-----------------------------------------------------------------------------
(* What is answered is whole.                                              *)

(* The queues hold builds of generations their databases had, whatever     *)
(* joins, leaves or moves between them.                                    *)
LEMMA PastAppend ==
    ASSUME NEW q \in Seq(Jobs), InPast(q), NEW job \in Jobs, job.gen <= gen[job.id]
    PROVE  InPast(Append(q, job))
<1>1. \A i \in 1..Len(Append(q, job)) : (i \in 1..Len(q) /\ Append(q, job)[i] = q[i]) \/ Append(q, job)[i] = job
  OBVIOUS
<1> QED
  BY <1>1 DEF InPast

LEMMA PastTail ==
    ASSUME NEW q \in Seq(Jobs), q # <<>>, InPast(q)
    PROVE  InPast(Tail(q)) /\ Head(q) \in Jobs /\ Head(q).gen <= gen[Head(q).id]
<1>1. 1 \in 1..Len(q) /\ Head(q) = q[1]
  OBVIOUS
<1>2. \A i \in 1..Len(Tail(q)) : i + 1 \in 1..Len(q) /\ Tail(q)[i] = q[i + 1]
  OBVIOUS
<1> QED
  BY <1>1, <1>2 DEF InPast

LEMMA PastPutBack ==
    ASSUME NEW q \in Seq(Jobs), InPast(q), NEW job \in Jobs, job.gen <= gen[job.id]
    PROVE  InPast(<<job>> \o q)
<1>1. /\ <<job>> \in Seq(Jobs) /\ Len(<<job>>) = 1 /\ <<job>>[1] = job
      /\ Len(q) \in Nat
  OBVIOUS
<1>2. /\ Len(<<job>> \o q) = 1 + Len(q)
      /\ \A i \in 1..(1 + Len(q)) : (<<job>> \o q)[i] = IF i <= 1 THEN <<job>>[i] ELSE q[i - 1]
  BY <1>1, ConcatProperties
<1>3. \A i \in 1..(1 + Len(q)) : i = 1 \/ (~(i <= 1) /\ i - 1 \in 1..Len(q))
  BY <1>1
<1> QED
  BY <1>1, <1>2, <1>3 DEF InPast

LEMMA PastWithout ==
    ASSUME NEW q \in Seq(Jobs), InPast(q), NEW i \in 1..Len(q)
    PROVE  InPast(Without(q, i)) /\ q[i] \in Jobs /\ q[i].gen <= gen[q[i].id]
<1> DEFINE rest == Without(q, i)
<1>1. \A k \in 1..Len(rest) : \E n \in 1..Len(q) : rest[k] = q[n]
  BY WithoutElements
<1> HIDE DEF rest
<1>2. InPast(rest)
  BY <1>1 DEF InPast
<1> QED
  BY <1>2 DEF InPast, rest

(* What a stop, a promotion or a change does to the build running leaves   *)
(* what it builds as it was.                                               *)
LEMMA RunningSame ==
    ASSUME TypeOK, running # None => BuildIsTrue(running), gen' = gen,
           \/ running' = running
           \/ running # None /\ running' = [running EXCEPT !.stop = TRUE]
           \/ running # None /\ running' = [running EXCEPT !.kind = "Requested"]
    PROVE  running' # None => BuildIsTrue(running)'
<1>1. CASE running' = running
  BY <1>1 DEF BuildIsTrue
<1>2. CASE running' # running
  <2>1. running \in Runs
    BY <1>2 DEF TypeOK
  <2>2. /\ running'.id = running.id /\ running'.gen = running.gen
        /\ running'.step = running.step /\ running'.whole = running.whole
    BY <1>2, <2>1 DEF Runs
  <2> QED
    BY <1>2, <2>2 DEF BuildIsTrue
<1> QED
  BY <1>1, <1>2

LEMMA SubmitKeepsTruth ==
    ASSUME TypeOK, BuildsAreTrue, NEW job \in Jobs, job.gen <= gen[job.id],
           NEW kind, Submit(job, kind), gen' = gen
    PROVE  /\ InPast(requested)' /\ InPast(background)'
           /\ running' # None => BuildIsTrue(running)'
<1>1. InPast(Append(requested, job)) /\ InPast(Append(background, job))
  BY PastAppend DEF TypeOK, BuildsAreTrue
<1>2. InPast(requested)' /\ InPast(background)'
  BY <1>1 DEF Submit, InPast, BuildsAreTrue
<1>3. running' = running \/ (running # None /\ running' = [running EXCEPT !.stop = TRUE])
  BY DEF Submit, Preempted
<1> QED
  BY <1>2, <1>3, RunningSame DEF BuildsAreTrue

LEMMA PromoteKeepsTruth ==
    ASSUME TypeOK, BuildsAreTrue, NEW id, Promote(id), gen' = gen
    PROVE  /\ InPast(requested)' /\ InPast(background)'
           /\ running' # None => BuildIsTrue(running)'
<1>1. InPast(requested)' /\ InPast(background)'
  <2>1. CASE PromoteWaiting(id)
    <3>1. PICK i \in 1..Len(background) :
              /\ requested' = Append(requested, background[i])
              /\ background' = Without(background, i)
      BY <2>1 DEF PromoteWaiting
    <3>2. /\ InPast(Without(background, i))
          /\ background[i] \in Jobs /\ background[i].gen <= gen[background[i].id]
      BY PastWithout DEF TypeOK, BuildsAreTrue
    <3>3. InPast(Append(requested, background[i]))
      BY <3>2, PastAppend DEF TypeOK, BuildsAreTrue
    <3> QED
      BY <3>1, <3>2, <3>3 DEF InPast
  <2>2. CASE PromoteRunning(id)
    BY <2>2 DEF PromoteRunning, InPast, BuildsAreTrue
  <2> QED
    BY <2>1, <2>2 DEF Promote
<1>2. \/ running' = running
      \/ running # None /\ running' = [running EXCEPT !.stop = TRUE]
      \/ running # None /\ running' = [running EXCEPT !.kind = "Requested"]
  BY DEF Promote, PromoteWaiting, PromoteRunning, Preempted, RunsFor
<1> QED
  BY <1>1, <1>2, RunningSame DEF BuildsAreTrue

(* What a build makes of its database is whole while the database stays at *)
(* the generation it was built for.                                        *)
LEMMA BuildKeepsTruth ==
    ASSUME TypeOK, IndexesAreTrue, BuildsAreTrue, Build
    PROVE  IndexesAreTrue' /\ BuildsAreTrue'
<1>1. /\ running \in Runs /\ running # None /\ running.id \in Dbs
      /\ gen[running.id] \in Gens /\ running.gen \in Gens
      /\ BuildIsTrue(running)
  BY BuildSteps DEF TypeOK, Runs, BuildsAreTrue
<1>2. Elsewhere
  BY BuildSteps
<1> DEFINE Undone == {Idle} \union [tag : {"Failed"}, gen : Gens, busy : BOOLEAN, recent : BOOLEAN]
<1>3. ASSUME disk' = disk \/ disk' = [disk EXCEPT ![running.id] = None],
             state' = state \/ \E s \in Undone : state' = [state EXCEPT ![running.id] = s]
      PROVE  IndexesAreTrue'
  <2>1. \A id \in Dbs : disk'[id] # None => disk'[id] = disk[id]
    BY <1>3 DEF TypeOK
  <2>2. \A id \in Dbs : state'[id].tag = "Ready" => state'[id] = state[id]
    BY <1>3 DEF TypeOK, Idle
  <2> QED
    BY <1>2, <2>1, <2>2 DEF Elsewhere, world, IndexesAreTrue, TrueOf
<1>4. ASSUME BuildIsTrue(running)'
      PROVE  BuildsAreTrue'
  BY <1>2, <1>4 DEF Elsewhere, world, keeping, BuildsAreTrue, InPast
<1>5. ASSUME NEW step \in Steps, Go(step),
             step \in Building \union {"open", "still", "settle"} =>
                 running.step \in Building \union {"open", "still", "settle"}
      PROVE  BuildsAreTrue'
  BY <1>1, <1>2, <1>4, <1>5 DEF Go, Elsewhere, world, BuildIsTrue, Runs
<1>6. ASSUME NEW busy \in BOOLEAN, Erred(busy), disk' = disk \/ disk' = [disk EXCEPT ![running.id] = None]
      PROVE  IndexesAreTrue' /\ BuildsAreTrue'
  <2>1. Go("stopped") \/ Go("over")
    BY <1>6 DEF Erred
  <2>2. state' = state \/ \E s \in Undone : state' = [state EXCEPT ![running.id] = s]
    BY <1>1, <1>6 DEF Erred, SetState, Failed
  <2>3. IndexesAreTrue'
    BY <1>3, <1>6, <2>2
  <2> QED
    BY <1>5, <2>1, <2>3 DEF Steps, Building
<1>7. CASE CheckTurn
  BY <1>3, <1>5, <1>7 DEF CheckTurn, folder, Steps, Building
<1>8. CASE DropTurn
  BY <1>3, <1>5, <1>8 DEF DropTurn, SetState, folder, Steps, Building
<1>9. CASE TurnWithoutRoom
  <2>1. Failed(running.gen, FALSE) \in Undone
    BY <1>1 DEF Failed
  <2> QED
    BY <1>3, <1>5, <1>9, <2>1 DEF TurnWithoutRoom, SetState, folder, Steps, Building
<1>10. CASE FindKept
  <2>1. IndexesAreTrue'
    BY <1>3, <1>10 DEF FindKept, folder
  <2>2. TrueOf(disk[running.id], running.id) /\ disk[running.id].gen = running.gen
    BY <1>1, <1>10 DEF FindKept, Kept, IndexesAreTrue
  <2>3. BuildIsTrue(running)'
    BY <1>1, <1>2, <1>10, <2>2 DEF FindKept, Elsewhere, world, BuildIsTrue, TrueOf, Runs
  <2> QED
    BY <1>4, <2>1, <2>3
<1>11. CASE BeginBuild
  <2>1. IndexesAreTrue'
    BY <1>3, <1>11 DEF BeginBuild
  <2>2. BuildIsTrue(running)'
    BY <1>1, <1>2, <1>11 DEF BeginBuild, Elsewhere, world, BuildIsTrue, Runs
  <2> QED
    BY <1>4, <2>1, <2>2
<1>12. CASE ReadGames \/ WritePasses \/ OpenBuilt
  BY <1>3, <1>5, <1>12 DEF ReadGames, WritePasses, OpenBuilt, At, folder, Steps, Building
<1>13. CASE RenameFiles
  <2>1. BuildsAreTrue'
    BY <1>5, <1>13 DEF RenameFiles, At, Steps, Building
  <2> DEFINE index == [gen |-> running.gen, whole |-> running.whole]
  <2>2. TrueOf(index, running.id)
    BY <1>1, <1>13 DEF RenameFiles, At, BuildIsTrue, Building, TrueOf
  <2>3. IndexesAreTrue'
    BY <1>1, <1>2, <1>13, <2>2 DEF RenameFiles, Elsewhere, world, IndexesAreTrue, TrueOf, TypeOK
  <2> QED
    BY <2>1, <2>3
<1>14. CASE SeeStop \/ LostFiles \/ BuildFails
  <2>1. disk' = disk
    BY <1>14 DEF SeeStop, LostFiles, BuildFails, DropPartials, folder
  <2>2. \E busy \in BOOLEAN : Erred(busy)
    BY <1>14 DEF SeeStop, LostFiles, BuildFails
  <2> QED
    BY <1>6, <2>1, <2>2
<1>15. CASE BuildPanics
  <2>1. Failed(running.gen, FALSE) \in Undone
    BY <1>1 DEF Failed
  <2>2. disk' = disk
    BY <1>15 DEF BuildPanics, DropPartials, folder
  <2> QED
    BY <1>3, <1>5, <1>15, <2>1, <2>2 DEF BuildPanics, SetState, Steps, Building
<1>16. CASE AskStill
  <2>1. Go("settle") \/ Go("changed")
    BY <1>16 DEF AskStill
  <2> QED
    BY <1>3, <1>5, <1>16, <2>1 DEF AskStill, At, folder, Steps, Building
<1>17. CASE Settle
  <2>1. BuildsAreTrue'
    BY <1>5, <1>17 DEF Settle, Steps, Building
  <2>2. CASE At("changed") /\ SetState(running.id, Idle)
    BY <1>3, <1>17, <2>1, <2>2 DEF Settle, SetState, folder
  <2>3. CASE At("settle") /\ SetState(running.id, Ready([gen |-> running.gen, whole |-> running.whole]))
    <3> DEFINE index == [gen |-> running.gen, whole |-> running.whole]
    <3>1. TrueOf(index, running.id)
      BY <1>1, <2>3 DEF At, BuildIsTrue, TrueOf
    <3>2. IndexesAreTrue'
      BY <1>1, <1>2, <1>17, <2>3, <3>1
         DEF Settle, SetState, Ready, folder, Elsewhere, world, IndexesAreTrue, TrueOf, TypeOK
    <3> QED
      BY <2>1, <3>2
  <2> QED
    BY <1>17, <2>2, <2>3 DEF Settle
<1> QED
  BY <1>7, <1>8, <1>9, <1>10, <1>11, <1>12, <1>13, <1>14, <1>15, <1>16, <1>17 DEF Build

LEMMA BuilderKeepsTruth ==
    ASSUME TypeOK, IndexesAreTrue, BuildsAreTrue, Builder
    PROVE  IndexesAreTrue' /\ BuildsAreTrue'
<1>1. ASSUME UNCHANGED world, UNCHANGED folder, state' = state, client' = client
      PROVE  IndexesAreTrue'
  BY <1>1 DEF world, folder, IndexesAreTrue, TrueOf
<1>2. ASSUME UNCHANGED world, client' = client, UNCHANGED keeping,
             InPast(requested)', InPast(background)', running' # None => BuildIsTrue(running)'
      PROVE  BuildsAreTrue'
  BY <1>2 DEF world, keeping, BuildsAreTrue
<1>3. CASE StartRequested
  <2>1. InPast(Tail(requested)) /\ Head(requested) \in Jobs
        /\ Head(requested).gen <= gen[Head(requested).id]
    BY <1>3, PastTail DEF StartRequested, TypeOK, BuildsAreTrue
  <2>2. BuildIsTrue(running)'
    BY <1>3, <2>1 DEF StartRequested, Turn, world, BuildIsTrue, Building
  <2>3. InPast(requested)' /\ InPast(background)'
    BY <1>3, <2>1 DEF StartRequested, world, BuildsAreTrue, InPast
  <2> QED
    BY <1>1, <1>2, <1>3, <2>2, <2>3 DEF StartRequested
<1>4. CASE StartBackground
  <2>1. InPast(Tail(background)) /\ Head(background) \in Jobs
        /\ Head(background).gen <= gen[Head(background).id]
    BY <1>4, PastTail DEF StartBackground, TypeOK, BuildsAreTrue
  <2>2. BuildIsTrue(running)'
    BY <1>4, <2>1 DEF StartBackground, Turn, world, BuildIsTrue, Building
  <2>3. InPast(requested)' /\ InPast(background)'
    BY <1>4, <2>1 DEF StartBackground, world, BuildsAreTrue, InPast
  <2> QED
    BY <1>1, <1>2, <1>4, <2>2, <2>3 DEF StartBackground
<1>5. CASE EndThread \/ Finish
  BY <1>1, <1>2, <1>5, RunningSame DEF EndThread, Finish, world, BuildsAreTrue, InPast
<1>6. CASE Requeue
  <2> DEFINE job == [id |-> running.id, gen |-> running.gen]
  <2>1. job \in Jobs /\ job.gen <= gen[job.id]
    BY <1>6 DEF Requeue, At, TypeOK, Runs, Jobs, BuildsAreTrue, BuildIsTrue
  <2>2. InPast(Append(requested, job)) /\ InPast(<<job>> \o background)
    BY <2>1, PastAppend, PastPutBack DEF TypeOK, BuildsAreTrue
  <2>3. InPast(requested)' /\ InPast(background)'
    BY <1>6, <2>2 DEF Requeue, world, BuildsAreTrue, InPast
  <2> QED
    BY <1>1, <1>2, <1>6, <2>3 DEF Requeue
<1>7. CASE Build
  BY <1>7, BuildKeepsTruth
<1> QED
  BY <1>3, <1>4, <1>5, <1>6, <1>7 DEF Builder

(* A request is answered an index of the generation it saw.                *)
LEMMA RequestKeepsTruth ==
    ASSUME TypeOK, IndexesAreTrue, BuildsAreTrue, NEW c \in Clients,
           Ask(c) \/ FindDamage(c) \/ Leave(c) \/ \E d \in Dbs : Open(c, d)
    PROVE  IndexesAreTrue' /\ BuildsAreTrue'
<1> USE DEF TypeOK
<1>1. gen' = gen /\ keeper' = keeper
  BY DEF Ask, AskHeld, AskWorking, AskFailed, AskKept, AskBusy, AskWithoutRoom, AskBuild,
         HandOver, HandOverRefused, FailRefused, FindDamage, Leave, Open, world, keeping
<1>2. ASSUME UNCHANGED queues, NEW next, client' = [client EXCEPT ![c] = next],
             next.pc # "idle" => next.gen <= gen[next.id]
      PROVE  BuildsAreTrue'
  BY <1>1, <1>2, RunningSame DEF queues, BuildsAreTrue, InPast
<1>3. ASSUME \A id \in Dbs : disk'[id] = disk[id] \/ disk'[id] = None,
             \A id \in Dbs : state'[id] = state[id] \/ state'[id].tag # "Ready",
             NEW next, client' = [client EXCEPT ![c] = next], next.pc # "ready"
      PROVE  IndexesAreTrue'
  BY <1>1, <1>3 DEF IndexesAreTrue, TrueOf
<1>4. ASSUME \A id \in Dbs : state'[id] = state[id] \/ (state'[id] = Ready(disk[id]) /\ disk[id] # None),
             disk' = disk, UNCHANGED queues, Asking(c),
             NEW index, Answered(c, index), TrueOf(index, client[c].id), index.gen = client[c].gen
      PROVE  IndexesAreTrue' /\ BuildsAreTrue'
  <2>1. client'[c].pc = "ready" /\ client'[c].id = client[c].id
        /\ client'[c].gen = client[c].gen /\ client'[c].index = index
    BY <1>4 DEF Answered
  <2>2. \A k \in Clients : k # c => client'[k] = client[k]
    BY <1>4 DEF Answered
  <2>3. IndexesAreTrue'
    <3>1. \A id \in Dbs : disk'[id] # None => TrueOf(disk'[id], id)
      BY <1>4 DEF IndexesAreTrue
    <3>2. ASSUME NEW id \in Dbs, state'[id].tag = "Ready"
          PROVE  TrueOf(state'[id].index, id)
      <4>1. CASE state'[id] = state[id]
        BY <3>2, <4>1 DEF IndexesAreTrue
      <4>2. CASE state'[id] = Ready(disk[id]) /\ disk[id] # None
        <5>1. state'[id].index = disk[id]
          BY <4>2 DEF Ready
        <5> QED
          BY <4>2, <5>1 DEF IndexesAreTrue
      <4> QED
        BY <1>4, <4>1, <4>2
    <3>3. \A k \in Clients : client'[k].pc = "ready" =>
              TrueOf(client'[k].index, client'[k].id) /\ client'[k].index.gen = client'[k].gen
      BY <1>4, <2>1, <2>2 DEF IndexesAreTrue
    <3> QED
      BY <1>1, <3>1, <3>2, <3>3 DEF IndexesAreTrue, TrueOf
  <2>4. client'[c].gen <= gen'[client'[c].id]
    BY <1>1, <1>4, <2>1 DEF Asking, BuildsAreTrue
  <2>5. BuildsAreTrue'
    BY <1>1, <1>4, <2>2, <2>4, RunningSame DEF queues, BuildsAreTrue, InPast
  <2> QED
    BY <2>3, <2>5
<1>5. ASSUME NEW d \in Dbs, Open(c, d)
      PROVE  IndexesAreTrue' /\ BuildsAreTrue'
  <2> DEFINE next == [pc |-> "opened", id |-> d, gen |-> gen[d]]
  <2>1. client' = [client EXCEPT ![c] = next] /\ UNCHANGED queues /\ disk' = disk /\ state' = state
    BY <1>5 DEF Open, folder
  <2>2. next.gen <= gen[next.id] /\ next.pc # "ready"
    BY DEF Gens
  <2> HIDE DEF next
  <2> QED
    BY <1>2, <1>3, <2>1, <2>2
<1>6. CASE Leave(c)
  <2>1. client' = [client EXCEPT ![c] = AtRest] /\ UNCHANGED queues /\ disk' = disk /\ state' = state
    BY <1>6 DEF Leave, folder
  <2>2. AtRest.pc = "idle"
    BY DEF AtRest
  <2> QED
    BY <1>2, <1>3, <2>1, <2>2
<1>7. CASE AskHeld(c)
  <2>1. /\ client[c].id \in Dbs /\ Asking(c) /\ UNCHANGED queues /\ disk' = disk /\ state' = state
        /\ Answered(c, state[client[c].id].index)
    BY <1>7, InFlight DEF AskHeld, Asking, folder
  <2>2. /\ TrueOf(state[client[c].id].index, client[c].id)
        /\ state[client[c].id].index.gen = client[c].gen
    BY <1>7, <2>1 DEF AskHeld, HeldAt, IndexesAreTrue
  <2> DEFINE index == state[client[c].id].index
  <2>3. Answered(c, index) /\ TrueOf(index, client[c].id) /\ index.gen = client[c].gen
    BY <2>1, <2>2
  <2> HIDE DEF index
  <2>4. \A id \in Dbs : state'[id] = state[id]
    BY <2>1
  <2>5. UNCHANGED queues /\ disk' = disk /\ Asking(c)
    BY <2>1
  <2> QED
    BY <1>4, <2>3, <2>4, <2>5
<1>8. CASE AskKept(c)
  <2>1. /\ client[c].id \in Dbs /\ Asking(c) /\ UNCHANGED queues /\ disk' = disk
        /\ Answered(c, disk[client[c].id])
    BY <1>8, InFlight DEF AskKept, Asking, folder
  <2>2. /\ disk[client[c].id] # None
        /\ TrueOf(disk[client[c].id], client[c].id) /\ disk[client[c].id].gen = client[c].gen
    BY <1>8, <2>1 DEF AskKept, Kept, IndexesAreTrue
  <2>3. \A id \in Dbs : state'[id] = state[id] \/ (state'[id] = Ready(disk[id]) /\ disk[id] # None)
    <3>1. state' = [state EXCEPT ![client[c].id] = Ready(disk[client[c].id])]
      BY <1>8 DEF AskKept, SetState
    <3> HIDE DEF TypeOK
    <3>2. \A id \in Dbs : id # client[c].id => state'[id] = state[id]
      BY <3>1 DEF TypeOK
    <3>3. state'[client[c].id] = Ready(disk[client[c].id])
      BY <2>1, <3>1 DEF TypeOK
    <3>4. ASSUME NEW id \in Dbs
          PROVE  state'[id] = state[id] \/ (state'[id] = Ready(disk[id]) /\ disk[id] # None)
      <4>1. CASE id = client[c].id
        BY <2>2, <3>3, <4>1
      <4>2. CASE id # client[c].id
        BY <3>2, <4>2
      <4> QED
        BY <4>1, <4>2
    <3> QED
      BY <3>4
  <2> QED
    BY <1>4, <2>1, <2>2, <2>3
<1>9. ASSUME NEW pc \in {"handing", "refused", "indexing", "failed", "busy", "rebuilding"}, Flight(c, pc),
             client[c].pc # "idle"
      PROVE  \E next : /\ client' = [client EXCEPT ![c] = next]
                       /\ next.pc \notin {"idle", "ready"}
                       /\ next.gen <= gen[next.id]
  <2> DEFINE next == [pc |-> pc, id |-> client[c].id, gen |-> client[c].gen]
  <2>1. client' = [client EXCEPT ![c] = next] /\ next.pc \notin {"idle", "ready"}
    BY <1>9 DEF Flight
  <2>2. next.gen <= gen[next.id]
    BY <1>9 DEF BuildsAreTrue
  <2> QED
    BY <2>1, <2>2
<1>10. CASE AskFailed(c) \/ AskBusy(c) \/ AskWithoutRoom(c) \/ AskBuild(c) \/ FailRefused(c)
            \/ FindDamage(c)
  <2>1. UNCHANGED queues
    BY <1>10 DEF AskFailed, AskBusy, AskWithoutRoom, AskBuild, FailRefused, FindDamage
  <2>2. \A id \in Dbs : disk'[id] = disk[id] \/ disk'[id] = None
    BY <1>10 DEF AskFailed, AskBusy, AskWithoutRoom, AskBuild, FailRefused, FindDamage, folder
  <2>3. \A id \in Dbs : state'[id] = state[id] \/ state'[id].tag # "Ready"
    BY <1>10 DEF AskFailed, AskBusy, AskWithoutRoom, AskBuild, FailRefused, FindDamage, SetState,
                 Idle, Failed, Working
  <2>4. \E pc \in {"handing", "refused", "indexing", "failed", "busy", "rebuilding"} :
            Flight(c, pc) /\ client[c].pc # "idle"
    BY <1>10 DEF AskFailed, AskBusy, AskWithoutRoom, AskBuild, FailRefused, FindDamage, Asking
  <2> QED
    BY <1>2, <1>3, <1>9, <2>1, <2>2, <2>3, <2>4
<1>11. CASE AskWorking(c) \/ HandOver(c) \/ HandOverRefused(c)
  <2>1. disk' = disk /\ state' = state
    BY <1>11 DEF AskWorking, HandOver, HandOverRefused, folder
  <2>2. \E pc \in {"handing", "refused", "indexing", "failed", "busy", "rebuilding"} :
            Flight(c, pc) /\ client[c].pc # "idle"
    BY <1>11 DEF AskWorking, HandOver, HandOverRefused, Asking
  <2>3. PICK next : client' = [client EXCEPT ![c] = next] /\ next.pc \notin {"idle", "ready"}
                    /\ next.gen <= gen[next.id]
    BY <1>9, <2>2
  <2>4. InPast(requested)' /\ InPast(background)' /\ (running' # None => BuildIsTrue(running)')
    <3>1. CASE AskWorking(c)
      BY <1>1, <3>1, PromoteKeepsTruth DEF AskWorking
    <3>2. CASE HandOver(c)
      <4> DEFINE job == [id |-> client[c].id, gen |-> client[c].gen]
      <4>1. job \in Jobs /\ job.gen <= gen[job.id]
        BY <3>2, InFlight DEF HandOver, Jobs, BuildsAreTrue
      <4> QED
        BY <1>1, <3>2, <4>1, SubmitKeepsTruth DEF HandOver
    <3>3. CASE HandOverRefused(c)
      BY <1>1, <3>3, RunningSame DEF HandOverRefused, SubmitRefused, BuildsAreTrue, InPast
    <3> QED
      BY <1>11, <3>1, <3>2, <3>3
  <2>5. BuildsAreTrue'
    BY <1>1, <2>3, <2>4 DEF BuildsAreTrue
  <2> QED
    BY <1>3, <2>1, <2>3, <2>5
<1> QED
  BY <1>5, <1>6, <1>7, <1>8, <1>10, <1>11 DEF Ask

LEMMA KeepKeepsTruth ==
    ASSUME TypeOK, IndexesAreTrue, BuildsAreTrue, Keep
    PROVE  IndexesAreTrue' /\ BuildsAreTrue'
<1>1. gen' = gen /\ client' = client /\ disk' = disk
  BY DEF Keep, BeginLook, KeeperHandsOver, KeeperRefused, KeeperFails, EndLook, PassOver,
         RenewWithoutRoom, Renew, world, folder
<1>2. ASSUME \A id \in Dbs : state'[id] = state[id] \/ state'[id].tag # "Ready"
      PROVE  IndexesAreTrue'
  BY <1>1, <1>2 DEF IndexesAreTrue, TrueOf
<1>3. ASSUME InPast(requested)', InPast(background)', running' # None => BuildIsTrue(running)',
             keeper'.pc = "handing" => keeper'.job.gen <= gen[keeper'.job.id]
      PROVE  BuildsAreTrue'
  BY <1>1, <1>3 DEF BuildsAreTrue
<1>4. ASSUME UNCHANGED queues
      PROVE  InPast(requested)' /\ InPast(background)' /\ (running' # None => BuildIsTrue(running)')
  BY <1>1, <1>4, RunningSame DEF queues, BuildsAreTrue, InPast
<1>5. CASE BeginLook
  <2>1. InPast(requested)' /\ InPast(background)' /\ (running' # None => BuildIsTrue(running)')
    BY <1>1, <1>5, RunningSame DEF BeginLook, BuildsAreTrue, InPast
  <2> QED
    BY <1>2, <1>3, <1>5, <2>1 DEF BeginLook
<1>6. CASE KeeperHandsOver
  <2>1. keeper.job \in Jobs /\ keeper.job.gen <= gen[keeper.job.id]
    BY <1>6 DEF KeeperHandsOver, TypeOK, Away, Looks, BuildsAreTrue
  <2>2. InPast(requested)' /\ InPast(background)' /\ (running' # None => BuildIsTrue(running)')
    BY <1>1, <1>6, <2>1, SubmitKeepsTruth DEF KeeperHandsOver
  <2> QED
    BY <1>2, <1>3, <1>6, <2>2 DEF KeeperHandsOver
<1>7. CASE KeeperRefused
  <2>1. InPast(requested)' /\ InPast(background)' /\ (running' # None => BuildIsTrue(running)')
    BY <1>1, <1>7, RunningSame DEF KeeperRefused, SubmitRefused, BuildsAreTrue, InPast
  <2>2. keeper'.pc # "handing"
    BY <1>7 DEF KeeperRefused, TypeOK, Away, Looks
  <2> QED
    BY <1>2, <1>3, <1>7, <2>1, <2>2 DEF KeeperRefused
<1>8. CASE KeeperFails \/ EndLook
  <2>1. UNCHANGED queues /\ keeper' \in {Away, [pc |-> "looking", todo |-> keeper.todo]}
    BY <1>8 DEF KeeperFails, EndLook
  <2>2. \A id \in Dbs : state'[id] = state[id] \/ state'[id].tag # "Ready"
    BY <1>8 DEF KeeperFails, EndLook, TypeOK, SetState, Failed
  <2>3. keeper'.pc # "handing"
    BY <2>1 DEF Away
  <2> QED
    BY <1>2, <1>3, <1>4, <2>1, <2>2, <2>3
<1>9. ASSUME NEW d \in Dbs, PassOver(d) \/ RenewWithoutRoom(d) \/ Renew(d)
      PROVE  IndexesAreTrue' /\ BuildsAreTrue'
  <2>1. UNCHANGED queues
    BY <1>9 DEF PassOver, RenewWithoutRoom, Renew
  <2>2. \A id \in Dbs : state'[id] = state[id] \/ state'[id].tag # "Ready"
    BY <1>9 DEF PassOver, RenewWithoutRoom, Renew, TypeOK, SetState, Failed, Working
  <2>3. keeper'.pc = "handing" => keeper'.job.gen <= gen[keeper'.job.id]
    <3>1. CASE Renew(d)
      <4>1. keeper'.job = [id |-> d, gen |-> gen[d]]
        BY <3>1 DEF Renew
      <4> QED
        BY <4>1 DEF TypeOK, Gens
    <3>2. CASE PassOver(d) \/ RenewWithoutRoom(d)
      <4>1. keeper' = [pc |-> "looking", todo |-> keeper.todo \ {d}]
        BY <3>2 DEF PassOver, RenewWithoutRoom, Looked
      <4>2. keeper'.pc # "handing"
        BY <4>1
      <4> QED
        BY <4>2
    <3> QED
      BY <1>9, <3>1, <3>2
  <2> QED
    BY <1>2, <1>3, <1>4, <2>1, <2>2, <2>3
<1> QED
  BY <1>5, <1>6, <1>7, <1>8, <1>9 DEF Keep

(* A change leaves what was read before it behind: no index of the new     *)
(* generation exists yet.                                                  *)
LEMMA WorldKeepsTruth ==
    ASSUME TypeOK, IndexesAreTrue, BuildsAreTrue, Sweep \/ World
    PROVE  IndexesAreTrue' /\ BuildsAreTrue'
<1> USE DEF TypeOK
<1>1. ASSUME gen' = gen, client' = client,
             \A id \in Dbs : disk'[id] = disk[id] \/ disk'[id] = None,
             \A id \in Dbs : state'[id] = state[id] \/ state'[id].tag # "Ready"
      PROVE  IndexesAreTrue'
  BY <1>1 DEF IndexesAreTrue, TrueOf
<1>2. ASSUME gen' = gen, client' = client, keeper' = keeper, UNCHANGED queues
      PROVE  BuildsAreTrue'
  BY <1>2, RunningSame DEF queues, BuildsAreTrue, InPast
<1>3. CASE Sweep
  BY <1>1, <1>2, <1>3 DEF Sweep, SweepWork, SweepIndex, SetState, Idle, world, keeping
<1>4. CASE SwitchPower \/ \E id \in Dbs : Move(id)
  BY <1>1, <1>2, <1>4 DEF SwitchPower, Move, folder, keeping
<1>5. ASSUME NEW d \in Dbs, MinutePasses(d)
      PROVE  IndexesAreTrue' /\ BuildsAreTrue'
  <2>1. \A id \in Dbs : state'[id] = state[id] \/ state'[id].tag # "Ready"
    <3>1. CASE JustFailed(d) /\ state' = [state EXCEPT ![d].recent = FALSE]
      BY <3>1 DEF JustFailed, States, Idle, Working
    <3> QED
      BY <1>5, <3>1 DEF MinutePasses
  <2> QED
    BY <1>1, <1>2, <1>5, <2>1 DEF MinutePasses, world, folder
<1>6. CASE Restart
  BY <1>6 DEF Restart, world, folder, Idle, AtRest, Away, IndexesAreTrue, TrueOf, BuildsAreTrue, InPast
<1>7. ASSUME NEW d \in Dbs, Change(d)
      PROVE  IndexesAreTrue' /\ BuildsAreTrue'
  <2>1. /\ \A id \in Dbs : gen[id] \in Nat /\ gen'[id] \in Nat
        /\ \A id \in Dbs : gen'[id] = gen[id] \/ (id = d /\ gen'[id] = gen[id] + 1)
        /\ state' = state /\ disk' = disk /\ client' = client /\ keeper' = keeper
        /\ requested' = requested /\ background' = background
    BY <1>7 DEF Change, folder, keeping, Gens
  <2>2. ASSUME NEW index \in Indexes, NEW id \in Dbs, TrueOf(index, id)
        PROVE  TrueOf(index, id)'
    BY <2>1, <2>2 DEF TrueOf, Indexes, Gens
  <2>3. IndexesAreTrue'
    <3>1. \A id \in Dbs : disk[id] # None => disk[id] \in Indexes
      OBVIOUS
    <3>2. \A id \in Dbs : state[id].tag = "Ready" => state[id].index \in Indexes
      BY DEF States, Idle, Working
    <3>3. \A c \in Clients : client[c].pc = "ready" => client[c].index \in Indexes /\ client[c].id \in Dbs
      BY DEF AtRest, Flights, Reads
    <3> QED
      BY <2>1, <2>2, <3>1, <3>2, <3>3 DEF IndexesAreTrue
  <2>4. ASSUME NEW id \in Dbs, NEW g \in Gens, g <= gen[id]
        PROVE  g <= gen'[id]
    <3>1. g \in Nat /\ gen[id] \in Nat
      BY <2>1 DEF Gens
    <3>2. gen'[id] = gen[id] \/ gen'[id] = gen[id] + 1
      BY <2>1
    <3> QED
      BY <2>4, <3>1, <3>2
  <2>5. ASSUME NEW q \in Seq(Jobs), InPast(q)
        PROVE  \A i \in 1..Len(q) : q[i].gen <= gen'[q[i].id]
    <3> SUFFICES ASSUME NEW i \in 1..Len(q)
                 PROVE  q[i].gen <= gen'[q[i].id]
      OBVIOUS
    <3>1. q[i] \in Jobs /\ q[i].gen <= gen[q[i].id]
      BY <2>5 DEF InPast
    <3> QED
      BY <2>4, <3>1 DEF Jobs
  <2>6. ASSUME running' # None
        PROVE  BuildIsTrue(running)'
    <3>1. running \in Runs /\ BuildIsTrue(running)
      BY <1>7, <2>6 DEF Change, RunsFor, BuildsAreTrue
    <3>2. /\ running'.id = running.id /\ running'.gen = running.gen /\ running'.step = running.step
          /\ running'.whole = running.whole \/ (running.id = d /\ running.step = "reading")
      BY <1>7, <3>1 DEF Change, RunsFor, Runs
    <3>3. running.gen <= gen'[running.id] /\ (gen'[running.id] = running.gen => running.id # d)
      BY <2>1, <2>4, <3>1, <1>7 DEF Change, Runs, Gens, BuildIsTrue
    <3>4. running.gen = gen'[running.id] => gen'[running.id] = gen[running.id]
      BY <2>1, <3>1, <3>3 DEF Runs
    <3> QED
      BY <3>1, <3>2, <3>3, <3>4 DEF BuildIsTrue
  <2>7. BuildsAreTrue'
    <3>1. InPast(requested)' /\ InPast(background)'
      BY <2>1, <2>5 DEF InPast, BuildsAreTrue
    <3>2. \A c \in Clients : client[c].pc # "idle" => client[c].gen <= gen'[client[c].id]
      BY <2>4, InFlight DEF BuildsAreTrue
    <3>3. keeper.pc = "handing" => keeper.job.gen <= gen'[keeper.job.id]
      BY <2>4 DEF BuildsAreTrue, Away, Looks, Jobs
    <3> QED
      BY <2>1, <2>6, <3>1, <3>2, <3>3 DEF BuildsAreTrue
  <2> QED
    BY <2>3, <2>7
<1> QED
  BY <1>3, <1>4, <1>5, <1>6, <1>7 DEF World

(* What is answered for a database's present generation was read from it   *)
(* at that generation, whole, however many changes, builds and restarts.   *)
THEOREM AnswersAlwaysWhole == Spec => []AnswersAreWhole
<1>1. Init => IndexesAreTrue /\ BuildsAreTrue
  BY DEF Init, IndexesAreTrue, BuildsAreTrue, InPast, Idle, AtRest, Away
<1>2. TypeOK /\ IndexesAreTrue /\ BuildsAreTrue /\ [Next]_vars => IndexesAreTrue' /\ BuildsAreTrue'
  <2> SUFFICES ASSUME TypeOK, IndexesAreTrue, BuildsAreTrue, [Next]_vars
               PROVE  IndexesAreTrue' /\ BuildsAreTrue'
    OBVIOUS
  <2>1. CASE UNCHANGED vars
    BY <2>1 DEF vars, IndexesAreTrue, TrueOf, BuildsAreTrue, BuildIsTrue, InPast
  <2> QED
    BY <2>1, BuilderKeepsTruth, RequestKeepsTruth, KeepKeepsTruth, WorldKeepsTruth DEF Next, Request
<1>3. IndexesAreTrue => AnswersAreWhole
  BY DEF IndexesAreTrue, TrueOf, AnswersAreWhole
<1> QED
  BY <1>1, <1>2, <1>3, TypeCorrect, PTL DEF Spec
-----------------------------------------------------------------------------
(* While no read finds damage, a database has one build at most.           *)

(* Where a build of a database waits or runs, or who is about to queue it  *)
(* or to fail it: the holders of its build.                                *)
Holders == {<<"requested">>, <<"background">>, <<"running">>, <<"keeper">>}
              \union {<<"client", c>> : c \in Clients}

Underway == running # None /\ running.step # "over"
KeeperHolds == keeper.pc \in {"handing", "refused"}
ClientHolds(c) == client[c].pc \in {"handing", "refused"}

Holds(h, id) ==
    \/ h = <<"requested">> /\ Waits(requested, id)
    \/ h = <<"background">> /\ Waits(background, id)
    \/ h = <<"running">> /\ Underway /\ running.id = id
    \/ h = <<"keeper">> /\ KeeperHolds /\ keeper.job.id = id
    \/ \E c \in Clients : h = <<"client", c>> /\ ClientHolds(c) /\ client[c].id = id

Once(queue) == \A i, k \in 1..Len(queue) : queue[i].id = queue[k].id => i = k

(* Each database has one build at most, which keeps it Working.            *)
BuildsAlone ==
    /\ Once(requested) /\ Once(background)
    /\ \A id \in Dbs : \A h, k \in Holders : Holds(h, id) /\ Holds(k, id) => h = k
BuildsAreWorking == \A id \in Dbs : HasBuild(id) => state[id].tag = "Working"

LEMMA HoldersApart ==
    /\ \A c \in Clients : <<"client", c>> \in Holders
    /\ \A c, e \in Clients : <<"client", c>> = <<"client", e>> => c = e
    /\ \A h \in Holders : h = <<"requested">> => h # <<"background">>
    /\ \A h \in Holders : h \in {<<"requested">>, <<"background">>} => h # <<"running">> /\ h # <<"keeper">>
    /\ <<"running">> # <<"keeper">>
    /\ \A c \in Clients : \A h \in {<<"requested">>, <<"background">>, <<"running">>, <<"keeper">>} :
         h # <<"client", c>>
    /\ {<<"requested">>, <<"background">>, <<"running">>, <<"keeper">>} \subseteq Holders
BY DEF Holders

LEMMA HoldsIs ==
    ASSUME NEW id
    PROVE  /\ Holds(<<"requested">>, id) <=> Waits(requested, id)
           /\ Holds(<<"background">>, id) <=> Waits(background, id)
           /\ Holds(<<"running">>, id) <=> Underway /\ running.id = id
           /\ Holds(<<"keeper">>, id) <=> KeeperHolds /\ keeper.job.id = id
           /\ \A c \in Clients : Holds(<<"client", c>>, id) <=> ClientHolds(c) /\ client[c].id = id
BY HoldersApart DEF Holds

LEMMA HoldsThen ==
    ASSUME NEW id
    PROVE  /\ Holds(<<"requested">>, id)' <=> Waits(requested', id)
           /\ Holds(<<"background">>, id)' <=> Waits(background', id)
           /\ Holds(<<"running">>, id)' <=> Underway' /\ running'.id = id
           /\ Holds(<<"keeper">>, id)' <=> KeeperHolds' /\ keeper'.job.id = id
           /\ \A c \in Clients : Holds(<<"client", c>>, id)' <=> ClientHolds(c)' /\ client'[c].id = id
BY HoldersApart DEF Holds

LEMMA HolderIs ==
    ASSUME NEW h \in Holders
    PROVE  \/ h \in {<<"requested">>, <<"background">>, <<"running">>, <<"keeper">>}
           \/ \E c \in Clients : h = <<"client", c>>
BY DEF Holders

LEMMA HeldIsBuilt ==
    ASSUME NEW id
    PROVE  HasBuild(id) <=> \E h \in Holders : Holds(h, id)
BY HoldersApart, HoldsIs DEF HasBuild, Holds, RunsFor, Underway, KeeperHolds, ClientHolds

LEMMA HeldThenBuilt ==
    ASSUME NEW id
    PROVE  HasBuild(id)' <=> \E h \in Holders : Holds(h, id)'
BY HoldersApart, HoldsThen DEF HasBuild, Holds, RunsFor, Underway, KeeperHolds, ClientHolds

(* The queues after a build joined them, left them or moved up.            *)
LEMMA OnceAppend ==
    ASSUME NEW S, NEW q \in Seq(S), NEW job \in S, Once(q), ~Waits(q, job.id)
    PROVE  Once(Append(q, job))
<1>1. Len(Append(q, job)) = Len(q) + 1 /\ Append(q, job)[Len(q) + 1] = job /\ Len(q) \in Nat
  OBVIOUS
<1>2. \A i \in 1..Len(q) : Append(q, job)[i] = q[i]
  OBVIOUS
<1>3. \A i \in 1..(Len(q) + 1) : i \in 1..Len(q) \/ i = Len(q) + 1
  BY <1>1
<1> QED
  BY <1>1, <1>2, <1>3 DEF Once, Waits

LEMMA OncePutBack ==
    ASSUME NEW S, NEW q \in Seq(S), NEW job \in S, Once(q), ~Waits(q, job.id)
    PROVE  Once(<<job>> \o q)
<1> DEFINE all == <<job>> \o q
<1>1. Len(all) = Len(q) + 1 /\ all[1] = job /\ Len(q) \in Nat
  OBVIOUS
<1>2. \A i \in 1..Len(q) : all[i + 1] = q[i]
  OBVIOUS
<1>3. ASSUME NEW i \in 1..Len(all), i # 1
      PROVE  i - 1 \in 1..Len(q) /\ all[i] = q[i - 1]
  <2>1. i - 1 \in 1..Len(q) /\ (i - 1) + 1 = i
    BY <1>1, <1>3
  <2> QED
    BY <1>2, <2>1
<1> HIDE DEF all
<1>4. ASSUME NEW i \in 1..Len(all), NEW k \in 1..Len(all), all[i].id = all[k].id
      PROVE  i = k
  <2>1. CASE i = 1 /\ k = 1
    BY <2>1
  <2>2. CASE i = 1 /\ k # 1
    BY <1>1, <1>3, <1>4, <2>2 DEF Waits
  <2>3. CASE i # 1 /\ k = 1
    BY <1>1, <1>3, <1>4, <2>3 DEF Waits
  <2>4. CASE i # 1 /\ k # 1
    <3>1. i - 1 = k - 1
      BY <1>3, <1>4, <2>4 DEF Once
    <3> QED
      BY <3>1
  <2> QED
    BY <2>1, <2>2, <2>3, <2>4
<1>5. Once(all)
  BY <1>4 DEF Once
<1> QED
  BY <1>5 DEF all

LEMMA OnceTail ==
    ASSUME NEW S, NEW q \in Seq(S), q # <<>>, Once(q)
    PROVE  Once(Tail(q)) /\ ~Waits(Tail(q), Head(q).id)
<1>1. Len(q) \in Nat /\ Len(q) >= 1 /\ Head(q) = q[1] /\ Len(Tail(q)) = Len(q) - 1
  OBVIOUS
<1>2. \A i \in 1..(Len(q) - 1) : Tail(q)[i] = q[i + 1] /\ i + 1 \in 1..Len(q) /\ i + 1 # 1
  BY <1>1
<1>3. 1 \in 1..Len(q)
  BY <1>1
<1>4. ASSUME NEW i \in 1..Len(Tail(q)), NEW k \in 1..Len(Tail(q)), Tail(q)[i].id = Tail(q)[k].id
      PROVE  i = k
  <2>1. i + 1 = k + 1
    BY <1>1, <1>2, <1>4 DEF Once
  <2> QED
    BY <2>1
<1>5. ~Waits(Tail(q), Head(q).id)
  BY <1>1, <1>2, <1>3 DEF Once, Waits
<1> QED
  BY <1>4, <1>5 DEF Once

LEMMA OnceWithout ==
    ASSUME NEW S, NEW q \in Seq(S), NEW i \in 1..Len(q), Once(q)
    PROVE  Once(Without(q, i)) /\ ~Waits(Without(q, i), q[i].id)
<1> DEFINE rest == Without(q, i)
           at(k) == IF k < i THEN k ELSE k + 1
<1>1. Len(rest) = Len(q) - 1 /\ Len(q) \in Nat
  BY WithoutElements
<1>2. ASSUME NEW k \in 1..Len(rest)
      PROVE  at(k) \in 1..Len(q) /\ rest[k] = q[at(k)] /\ at(k) # i
  BY <1>1 DEF Without
<1>3. ASSUME NEW k \in 1..Len(rest), NEW n \in 1..Len(rest), at(k) = at(n)
      PROVE  k = n
  BY <1>1, <1>3
<1> HIDE DEF rest, at
<1>4. ASSUME NEW k \in 1..Len(rest), NEW n \in 1..Len(rest), rest[k].id = rest[n].id
      PROVE  k = n
  BY <1>2, <1>3, <1>4 DEF Once
<1>5. ~Waits(rest, q[i].id)
  BY <1>2 DEF Once, Waits
<1>6. Once(rest)
  BY <1>4 DEF Once
<1> QED
  BY <1>5, <1>6 DEF rest

LEMMA OnceNone == Once(<<>>)
BY DEF Once

(* The step of a build from one holder to another, a build that begins,    *)
(* and steps that begin none.                                              *)
StepAlone ==
    /\ BuildsAlone' /\ BuildsAreWorking'
    /\ \A id \in Dbs : HasBuild(id)' =>
         HasBuild(id) \/ Renew(id) \/ \E c \in Clients : AskBuild(c) /\ client[c].id = id
StaysWorking == \A id \in Dbs : state[id].tag = "Working" => state'[id].tag = "Working"

LEMMA Fewer ==
    ASSUME BuildsAlone, BuildsAreWorking,
           requested' \in {requested, <<>>}, background' \in {background, <<>>},
           \A id \in Dbs : \A h \in Holders : Holds(h, id)' => Holds(h, id),
           \A id \in Dbs : state[id].tag = "Working" => state'[id].tag = "Working" \/ ~HasBuild(id)'
    PROVE  StepAlone
<1>1. Once(requested') /\ Once(background')
  BY OnceNone DEF BuildsAlone
<1>2. \A id \in Dbs : HasBuild(id)' => HasBuild(id)
  BY HeldIsBuilt, HeldThenBuilt
<1> QED
  BY <1>1, <1>2 DEF StepAlone, BuildsAlone, BuildsAreWorking

LEMMA Moved ==
    ASSUME BuildsAlone, BuildsAreWorking, StaysWorking,
           NEW d \in Dbs, NEW p \in Holders, NEW q \in Holders, Holds(q, d), ~Holds(q, d)',
           Once(requested'), Once(background'),
           \A id \in Dbs : \A h \in Holders : Holds(h, id)' => Holds(h, id) \/ (h = p /\ id = d)
    PROVE  StepAlone
<1>1. ASSUME NEW id \in Dbs, NEW h \in Holders, NEW k \in Holders, Holds(h, id)', Holds(k, id)'
      PROVE  h = k
  BY <1>1 DEF BuildsAlone
<1>2. \A id \in Dbs : HasBuild(id)' => HasBuild(id)
  BY HeldIsBuilt, HeldThenBuilt
<1> QED
  BY <1>1, <1>2 DEF StepAlone, BuildsAlone, BuildsAreWorking, StaysWorking

LEMMA Begun ==
    ASSUME BuildsAlone, BuildsAreWorking, StaysWorking,
           NEW d \in Dbs, NEW p \in Holders, state[d].tag # "Working", state'[d].tag = "Working",
           UNCHANGED <<requested, background>>,
           Renew(d) \/ \E c \in Clients : AskBuild(c) /\ client[c].id = d,
           \A id \in Dbs : \A h \in Holders : Holds(h, id)' => Holds(h, id) \/ (h = p /\ id = d)
    PROVE  StepAlone
<1>1. \A h \in Holders : ~Holds(h, d)
  BY HeldIsBuilt DEF BuildsAreWorking
<1>2. ASSUME NEW id \in Dbs, NEW h \in Holders, NEW k \in Holders, Holds(h, id)', Holds(k, id)'
      PROVE  h = k
  BY <1>1, <1>2 DEF BuildsAlone
<1>3. \A id \in Dbs : HasBuild(id)' => HasBuild(id) \/ id = d
  BY HeldIsBuilt, HeldThenBuilt
<1>4. BuildsAlone'
  BY <1>2 DEF BuildsAlone
<1>5. BuildsAreWorking'
  BY <1>3 DEF BuildsAreWorking, StaysWorking
<1> QED
  BY <1>3, <1>4, <1>5 DEF StepAlone

(* A client's and the keeper's steps, as the holders of builds see them.   *)
LEMMA FlightIs ==
    ASSUME TypeOK, NEW c \in Clients, NEW pc, Flight(c, pc)
    PROVE  /\ client'[c].pc = pc /\ client'[c].id = client[c].id
           /\ \A e \in Clients : e # c => client'[e] = client[e]
           /\ pc \notin {"handing", "refused"} \/ ClientHolds(c) =>
                \A e \in Clients : ClientHolds(e)' => ClientHolds(e) /\ client'[e].id = client[e].id
BY DEF TypeOK, Flight, ClientHolds

LEMMA AnsweredIs ==
    ASSUME TypeOK, NEW c \in Clients, NEW index, Answered(c, index)
    PROVE  \A e \in Clients : ClientHolds(e)' => ClientHolds(e) /\ client'[e].id = client[e].id
BY DEF TypeOK, Answered, ClientHolds

(* A step that leaves the queues, and the build running where it is, and   *)
(* gives no client and no keeper a build.                                  *)
LEMMA NoneBegun ==
    ASSUME BuildsAlone, BuildsAreWorking,
           UNCHANGED <<requested, background>>,
           Underway' => Underway /\ running'.id = running.id,
           KeeperHolds' => KeeperHolds /\ keeper'.job.id = keeper.job.id,
           \A e \in Clients : ClientHolds(e)' => ClientHolds(e) /\ client'[e].id = client[e].id,
           \A id \in Dbs : state[id].tag = "Working" => state'[id].tag = "Working" \/ ~HasBuild(id)'
    PROVE  StepAlone
<1>1. \A id \in Dbs : \A h \in Holders : Holds(h, id)' => Holds(h, id)
  BY DEF Holds
<1> QED
  BY <1>1, Fewer

(* A build asked to stop, or made what a request waits for, runs on.       *)
LEMMA PreemptedRuns ==
    ASSUME TypeOK, NEW id, running' = Preempted(id)
    PROVE  Underway' => Underway /\ running'.id = running.id
<1>1. CASE running \in Runs
  <2>1. /\ [running EXCEPT !.stop = TRUE].id = running.id
        /\ [running EXCEPT !.stop = TRUE].step = running.step
    BY <1>1 DEF Runs
  <2> QED
    BY <1>1, <2>1, NoneAssumption DEF Preempted, Underway
<1>2. CASE running = None
  BY <1>2 DEF Preempted, Underway
<1> QED
  BY <1>1, <1>2 DEF TypeOK

(* A build handed over waits in its queue, and there only.                 *)
LEMMA SubmitMoves ==
    ASSUME TypeOK, BuildsAlone, BuildsAreWorking, state' = state,
           NEW job \in Jobs, NEW kind \in Kinds, Submit(job, kind), NEW q \in Holders,
           NEW d \in Dbs, job.id = d, Holds(q, d), ~Holds(q, d)',
           q \notin {<<"requested">>, <<"background">>, <<"running">>},
           \A id \in Dbs : \A h \in Holders \ {<<"requested">>, <<"background">>, <<"running">>} :
             Holds(h, id)' => Holds(h, id)
    PROVE  StepAlone
<1>1. ~Waits(requested, d) /\ ~Waits(background, d)
  BY HoldsIs, HoldersApart DEF BuildsAlone
<1>2. Underway' => Underway /\ running'.id = running.id
  BY PreemptedRuns DEF Submit, Underway
<1>3. CASE requested' = Append(requested, job) /\ background' = background
  <2>1. \A id : Waits(requested', id) <=> Waits(requested, id) \/ d = id
    BY <1>3, WaitsAppend DEF TypeOK
  <2>2. Once(requested') /\ Once(background')
    BY <1>1, <1>3, OnceAppend DEF TypeOK, BuildsAlone
  <2>3. ASSUME NEW id \in Dbs, NEW h \in Holders, Holds(h, id)'
        PROVE  Holds(h, id) \/ (h = <<"requested">> /\ id = d)
    <3>1. CASE h \in {<<"requested">>, <<"background">>, <<"running">>}
      BY <1>2, <1>3, <2>1, <2>3, <3>1, HoldsIs, HoldsThen, HoldersApart
    <3> QED
      BY <2>3, <3>1
  <2> QED
    BY <1>1, <2>2, <2>3, Moved, HoldersApart DEF StaysWorking
<1>4. CASE requested' = requested /\ background' = Append(background, job)
  <2>1. \A id : Waits(background', id) <=> Waits(background, id) \/ d = id
    BY <1>4, WaitsAppend DEF TypeOK
  <2>2. Once(requested') /\ Once(background')
    BY <1>1, <1>4, OnceAppend DEF TypeOK, BuildsAlone
  <2>3. ASSUME NEW id \in Dbs, NEW h \in Holders, Holds(h, id)'
        PROVE  Holds(h, id) \/ (h = <<"background">> /\ id = d)
    <3>1. CASE h \in {<<"requested">>, <<"background">>, <<"running">>}
      BY <1>2, <1>4, <2>1, <2>3, <3>1, HoldsIs, HoldsThen, HoldersApart
    <3> QED
      BY <2>3, <3>1
  <2> QED
    BY <1>1, <2>2, <2>3, Moved, HoldersApart DEF StaysWorking
<1> QED
  BY <1>3, <1>4 DEF Submit

(* A build promoted moves from one queue to the other.                     *)
LEMMA PromoteMoves ==
    ASSUME TypeOK, BuildsAlone, BuildsAreWorking, state' = state, keeper' = keeper,
           \A e \in Clients : ClientHolds(e)' => ClientHolds(e) /\ client'[e].id = client[e].id,
           NEW d \in Dbs, Promote(d)
    PROVE  StepAlone
<1>1. CASE PromoteWaiting(d)
  <2>1. PICK i \in 1..Len(background) : /\ background[i].id = d
                                        /\ requested' = Append(requested, background[i])
                                        /\ background' = Without(background, i)
                                        /\ running' = Preempted(d)
    BY <1>1 DEF PromoteWaiting
  <2>2. /\ background[i] \in Jobs
        /\ \A id : Waits(requested', id) <=> Waits(requested, id) \/ d = id
        /\ \A id : Waits(background, id) <=> Waits(background', id) \/ d = id
    BY <2>1, WaitsAppend, WaitsWithout DEF TypeOK
  <2>3. Waits(background, d) /\ ~Waits(requested, d)
    <3>1. Waits(background, d)
      BY <2>2
    <3> QED
      BY <3>1, HoldsIs, HoldersApart DEF BuildsAlone
  <2>4. Once(requested') /\ Once(background') /\ ~Waits(background', d)
    BY <2>1, <2>2, <2>3, OnceAppend, OnceWithout DEF TypeOK, BuildsAlone
  <2>5. Underway' => Underway /\ running'.id = running.id
    BY <2>1, PreemptedRuns
  <2>6. Holds(<<"background">>, d) /\ ~Holds(<<"background">>, d)'
    BY <2>3, <2>4, HoldsIs, HoldsThen
  <2>7. ASSUME NEW id \in Dbs, NEW h \in Holders, Holds(h, id)'
        PROVE  Holds(h, id) \/ (h = <<"requested">> /\ id = d)
    BY <2>2, <2>5, <2>7 DEF Holds, KeeperHolds
  <2> QED
    BY <2>4, <2>6, <2>7, Moved, HoldersApart DEF StaysWorking
<1>2. CASE PromoteRunning(d)
  <2>1. UNCHANGED <<requested, background>>
    BY <1>2 DEF PromoteRunning
  <2>2. Underway' => Underway /\ running'.id = running.id
    <3>1. CASE running \in Runs
      <4>1. /\ [running EXCEPT !.kind = "Requested"].id = running.id
            /\ [running EXCEPT !.kind = "Requested"].step = running.step
        BY <3>1 DEF Runs
      <4> QED
        BY <1>2, <3>1, <4>1, NoneAssumption DEF PromoteRunning, Underway
    <3>2. CASE running = None
      BY <1>2, <3>2 DEF PromoteRunning, Underway, RunsFor
    <3> QED
      BY <3>1, <3>2 DEF TypeOK
  <2> QED
    BY <2>1, <2>2, NoneBegun DEF KeeperHolds
<1> QED
  BY <1>1, <1>2 DEF Promote

(* Every step leaves a database one build at most, and Working with it.    *)
LEMMA AloneStep ==
    ASSUME TypeOK, BuildsAlone, BuildsAreWorking, ~Damage,
           Next \/ UNCHANGED vars
    PROVE  StepAlone
<1>1. CASE StartRequested
  <2> DEFINE job == Head(requested)
  <2>1. /\ requested \in Seq(Jobs) /\ requested # <<>>
        /\ requested' = Tail(requested) /\ UNCHANGED <<background, keeper, client, state>>
        /\ running = None /\ running' = Turn(job, "Requested")
    BY <1>1 DEF StartRequested, TypeOK, keeping
  <2>2. job \in Jobs
    BY <2>1
  <2> HIDE DEF job
  <2>3. PICK d \in Dbs : d = job.id
    BY <2>2 DEF Jobs
  <2>4. Once(requested') /\ ~Waits(requested', d) /\ \A id : Waits(requested, id) <=> d = id \/ Waits(requested', id)
    BY <2>1, <2>3, OnceTail, WaitsTail DEF BuildsAlone, job
  <2>5. Underway' /\ running'.id = d /\ ~Underway
    <3>1. running' \in Runs
      BY <2>1, <2>2, TurnType DEF Kinds
    <3> QED
      BY <2>1, <2>3, <3>1, NoneAssumption DEF Underway, Turn
  <2>6. Holds(<<"requested">>, d) /\ ~Holds(<<"requested">>, d)'
    BY <2>4, HoldsIs, HoldsThen
  <2>7. ASSUME NEW id \in Dbs, NEW h \in Holders, Holds(h, id)'
        PROVE  Holds(h, id) \/ (h = <<"running">> /\ id = d)
    BY <2>1, <2>4, <2>5, <2>7 DEF Holds, KeeperHolds, ClientHolds
  <2>8. Once(background')
    BY <2>1 DEF BuildsAlone
  <2>9. <<"running">> \in Holders /\ <<"requested">> \in Holders
    BY HoldersApart
  <2>10. StaysWorking
    BY <2>1 DEF StaysWorking
  <2> QED
    BY <2>4, <2>6, <2>7, <2>8, <2>9, <2>10, Moved
<1>2. CASE StartBackground
  <2> DEFINE job == Head(background)
  <2>1. /\ background \in Seq(Jobs) /\ background # <<>>
        /\ background' = Tail(background) /\ UNCHANGED <<requested, keeper, client, state>>
        /\ running = None /\ running' = Turn(job, "Background")
    BY <1>2 DEF StartBackground, TypeOK, keeping
  <2>2. job \in Jobs
    BY <2>1
  <2> HIDE DEF job
  <2>3. PICK d \in Dbs : d = job.id
    BY <2>2 DEF Jobs
  <2>4. Once(background') /\ ~Waits(background', d) /\ \A id : Waits(background, id) <=> d = id \/ Waits(background', id)
    BY <2>1, <2>3, OnceTail, WaitsTail DEF BuildsAlone, job
  <2>5. Underway' /\ running'.id = d /\ ~Underway
    <3>1. running' \in Runs
      BY <2>1, <2>2, TurnType DEF Kinds
    <3> QED
      BY <2>1, <2>3, <3>1, NoneAssumption DEF Underway, Turn
  <2>6. Holds(<<"background">>, d) /\ ~Holds(<<"background">>, d)'
    BY <2>4, HoldsIs, HoldsThen
  <2>7. ASSUME NEW id \in Dbs, NEW h \in Holders, Holds(h, id)'
        PROVE  Holds(h, id) \/ (h = <<"running">> /\ id = d)
    BY <2>1, <2>4, <2>5, <2>7 DEF Holds, KeeperHolds, ClientHolds
  <2>8. Once(requested')
    BY <2>1 DEF BuildsAlone
  <2>9. <<"running">> \in Holders /\ <<"background">> \in Holders
    BY HoldersApart
  <2>10. StaysWorking
    BY <2>1 DEF StaysWorking
  <2> QED
    BY <2>4, <2>6, <2>7, <2>8, <2>9, <2>10, Moved
<1>3. CASE EndThread
  <2>1. UNCHANGED <<requested, background>> /\ running' = running
    BY <1>3 DEF EndThread, queues
  <2>2. KeeperHolds' => KeeperHolds /\ keeper'.job.id = keeper.job.id
    BY <1>3 DEF EndThread, KeeperHolds, keeping
  <2>3. \A e \in Clients : ClientHolds(e)' => ClientHolds(e) /\ client'[e].id = client[e].id
    BY <1>3 DEF EndThread, ClientHolds
  <2>4. StaysWorking
    BY <1>3 DEF EndThread, StaysWorking
  <2> QED
    BY <2>1, <2>2, <2>3, <2>4, NoneBegun DEF Underway, StaysWorking
<1>4. CASE Finish
  <2>1. ~Underway' /\ UNCHANGED <<requested, background, keeper, client, state>>
    BY <1>4 DEF Finish, Underway, keeping
  <2> QED
    BY <2>1, NoneBegun DEF KeeperHolds, ClientHolds
<1>5. CASE Requeue
  <2> DEFINE job == [id |-> running.id, gen |-> running.gen]
  <2>1. /\ job \in Jobs /\ job.id = running.id /\ Underway /\ ~Underway'
        /\ UNCHANGED <<keeper, client, state>>
    BY <1>5 DEF Requeue, At, TypeOK, Runs, Jobs, keeping, Underway
  <2>2. \/ requested' = Append(requested, job) /\ background' = background
        \/ background' = <<job>> \o background /\ requested' = requested
    BY <1>5 DEF Requeue
  <2> HIDE DEF job
  <2>3. PICK d \in Dbs : d = job.id
    BY <2>1 DEF Jobs
  <2>4. Holds(<<"running">>, d) /\ ~Holds(<<"running">>, d)' /\ <<"running">> \in Holders
    BY <2>1, <2>3, HoldsIs, HoldsThen, HoldersApart
  <2>5. ~Waits(requested, d) /\ ~Waits(background, d)
    BY <2>4, HoldsIs, HoldersApart DEF BuildsAlone
  <2>6. StaysWorking
    BY <2>1 DEF StaysWorking
  <2>7. CASE requested' = Append(requested, job) /\ background' = background
    <3>1. \A id : Waits(requested', id) <=> Waits(requested, id) \/ d = id
      BY <2>1, <2>3, <2>7, WaitsAppend DEF TypeOK
    <3>2. Once(requested') /\ Once(background')
      BY <2>1, <2>3, <2>5, <2>7, OnceAppend DEF TypeOK, BuildsAlone
    <3>3. ASSUME NEW id \in Dbs, NEW h \in Holders, Holds(h, id)'
          PROVE  Holds(h, id) \/ (h = <<"requested">> /\ id = d)
      BY <2>1, <2>7, <3>1, <3>3 DEF Holds, KeeperHolds, ClientHolds
    <3>4. <<"requested">> \in Holders
      BY HoldersApart
    <3> QED
      BY <2>4, <2>6, <3>2, <3>3, <3>4, Moved
  <2>8. CASE background' = <<job>> \o background /\ requested' = requested
    <3>1. \A id : Waits(background', id) <=> Waits(background, id) \/ d = id
      BY <2>1, <2>3, <2>8, WaitsPutBack DEF TypeOK
    <3>2. Once(requested') /\ Once(background')
      BY <2>1, <2>3, <2>5, <2>8, OncePutBack DEF TypeOK, BuildsAlone
    <3>3. ASSUME NEW id \in Dbs, NEW h \in Holders, Holds(h, id)'
          PROVE  Holds(h, id) \/ (h = <<"background">> /\ id = d)
      BY <2>1, <2>8, <3>1, <3>3 DEF Holds, KeeperHolds, ClientHolds
    <3>4. <<"background">> \in Holders
      BY HoldersApart
    <3> QED
      BY <2>4, <2>6, <3>2, <3>3, <3>4, Moved
  <2> QED
    BY <2>2, <2>7, <2>8
<1>6. CASE Build
  <2>1. /\ running' \in Runs /\ running'.id = running.id /\ Underway
        /\ UNCHANGED <<requested, background, keeper, client>> /\ running.id \in Dbs
    BY <1>6, BuildSteps, NoneAssumption DEF Elsewhere, keeping, Underway, Runs
  <2>2. ASSUME NEW id \in Dbs, state[id].tag = "Working", state'[id].tag # "Working"
        PROVE  ~HasBuild(id)'
    <3>1. running'.step = "over" /\ id = running.id
      <4>1. state'[id] # state[id]
        BY <2>2
      <4> QED
        BY <1>6, <4>1, BuildSteps
    <3>2. Holds(<<"running">>, id)
      BY <2>1, <3>1, HoldsIs
    <3>3. \A h \in Holders : h # <<"running">> => ~Holds(h, id)
      BY <3>2, HoldersApart DEF BuildsAlone
    <3>4. ~Underway'
      BY <3>1 DEF Underway
    <3>5. \A h \in Holders : ~Holds(h, id)'
      BY <2>1, <3>3, <3>4, HoldsThen, HoldersApart DEF Holds, KeeperHolds, ClientHolds
    <3> QED
      BY <3>5, HeldThenBuilt
  <2> QED
    BY <2>1, <2>2, NoneBegun DEF KeeperHolds, ClientHolds
<1>7. ASSUME NEW c \in Clients, AskHeld(c) PROVE StepAlone
  <2>1. UNCHANGED <<requested, background>> /\ running' = running
    BY <1>7 DEF AskHeld, queues
  <2>2. KeeperHolds' => KeeperHolds /\ keeper'.job.id = keeper.job.id
    BY <1>7 DEF AskHeld, KeeperHolds, keeping
  <2>3. \A e \in Clients : ClientHolds(e)' => ClientHolds(e) /\ client'[e].id = client[e].id
    BY <1>7, AnsweredIs DEF AskHeld
  <2>4. StaysWorking
    BY <1>7 DEF AskHeld, StaysWorking
  <2> QED
    BY <2>1, <2>2, <2>3, <2>4, NoneBegun DEF Underway, StaysWorking
<1>8. ASSUME NEW c \in Clients, AskWorking(c) PROVE StepAlone
  <2>1. client[c].pc = "opened" /\ client[c].id \in Dbs
    BY <1>8, InFlight DEF AskWorking, Asking
  <2>2. \A e \in Clients : ClientHolds(e)' => ClientHolds(e) /\ client'[e].id = client[e].id
    BY <1>8, FlightIs DEF AskWorking
  <2> QED
    BY <1>8, <2>1, <2>2, PromoteMoves DEF AskWorking, keeping
<1>9. ASSUME NEW c \in Clients, AskFailed(c) PROVE StepAlone
  <2>1. UNCHANGED <<requested, background>> /\ running' = running
    BY <1>9 DEF AskFailed, queues
  <2>2. KeeperHolds' => KeeperHolds /\ keeper'.job.id = keeper.job.id
    BY <1>9 DEF AskFailed, KeeperHolds, keeping
  <2>3. \A e \in Clients : ClientHolds(e)' => ClientHolds(e) /\ client'[e].id = client[e].id
    BY <1>9, FlightIs DEF AskFailed
  <2>4. StaysWorking
    BY <1>9 DEF AskFailed, StaysWorking
  <2> QED
    BY <2>1, <2>2, <2>3, <2>4, NoneBegun DEF Underway, StaysWorking
<1>10. ASSUME NEW c \in Clients, AskKept(c) PROVE StepAlone
  <2>1. UNCHANGED <<requested, background>> /\ running' = running
    BY <1>10 DEF AskKept, queues
  <2>2. KeeperHolds' => KeeperHolds /\ keeper'.job.id = keeper.job.id
    BY <1>10 DEF AskKept, KeeperHolds, keeping
  <2>3. \A e \in Clients : ClientHolds(e)' => ClientHolds(e) /\ client'[e].id = client[e].id
    BY <1>10, AnsweredIs DEF AskKept
  <2>4. StaysWorking
    BY <1>10 DEF AskKept, Unheld, SetState, TypeOK, StaysWorking
  <2> QED
    BY <2>1, <2>2, <2>3, <2>4, NoneBegun DEF Underway, StaysWorking
<1>11. ASSUME NEW c \in Clients, AskBusy(c) PROVE StepAlone
  <2>1. UNCHANGED <<requested, background>> /\ running' = running
    BY <1>11 DEF AskBusy, queues
  <2>2. KeeperHolds' => KeeperHolds /\ keeper'.job.id = keeper.job.id
    BY <1>11 DEF AskBusy, KeeperHolds, keeping
  <2>3. \A e \in Clients : ClientHolds(e)' => ClientHolds(e) /\ client'[e].id = client[e].id
    BY <1>11, FlightIs DEF AskBusy
  <2>4. StaysWorking
    BY <1>11 DEF AskBusy, Unheld, SetState, TypeOK, StaysWorking
  <2> QED
    BY <2>1, <2>2, <2>3, <2>4, NoneBegun DEF Underway, StaysWorking
<1>12. ASSUME NEW c \in Clients, AskWithoutRoom(c) PROVE StepAlone
  <2>1. UNCHANGED <<requested, background>> /\ running' = running
    BY <1>12 DEF AskWithoutRoom, queues
  <2>2. KeeperHolds' => KeeperHolds /\ keeper'.job.id = keeper.job.id
    BY <1>12 DEF AskWithoutRoom, KeeperHolds, keeping
  <2>3. \A e \in Clients : ClientHolds(e)' => ClientHolds(e) /\ client'[e].id = client[e].id
    BY <1>12, FlightIs DEF AskWithoutRoom
  <2>4. StaysWorking
    BY <1>12 DEF AskWithoutRoom, Unheld, SetState, TypeOK, StaysWorking
  <2> QED
    BY <2>1, <2>2, <2>3, <2>4, NoneBegun DEF Underway, StaysWorking
<1>13. ASSUME NEW c \in Clients, AskBuild(c) PROVE StepAlone
  <2>1. client[c].pc = "opened" /\ client[c].id \in Dbs
    BY <1>13, InFlight DEF AskBuild, Asking
  <2>2. /\ client'[c].id = client[c].id /\ \A e \in Clients : e # c => client'[e] = client[e]
        /\ UNCHANGED <<requested, background, running, keeper>>
    BY <1>13, FlightIs DEF AskBuild, keeping, queues
  <2>3. StaysWorking /\ state[client[c].id].tag # "Working" /\ state'[client[c].id].tag = "Working"
    BY <1>13, <2>1 DEF AskBuild, Unheld, SetState, Working, StaysWorking, TypeOK
  <2>4. ASSUME NEW id \in Dbs, NEW h \in Holders, Holds(h, id)'
        PROVE  Holds(h, id) \/ (h = <<"client", c>> /\ id = client[c].id)
    BY <2>2, <2>4 DEF Holds, Underway, KeeperHolds, ClientHolds
  <2> QED
    BY <1>13, <2>1, <2>2, <2>3, <2>4, Begun, HoldersApart
<1>14. ASSUME NEW c \in Clients, HandOver(c) PROVE StepAlone
  <2> DEFINE job == [id |-> client[c].id, gen |-> client[c].gen]
  <2>1. job \in Jobs /\ job.id = client[c].id /\ ClientHolds(c)
    BY <1>14, InFlight DEF HandOver, Jobs, ClientHolds
  <2>2. /\ ~ClientHolds(c)' /\ \A e \in Clients : e # c => client'[e] = client[e]
        /\ UNCHANGED <<keeper, state>>
    BY <1>14, FlightIs DEF HandOver, keeping, ClientHolds
  <2>3. Submit(job, "Requested") /\ "Requested" \in Kinds
    BY <1>14 DEF HandOver, Kinds
  <2> HIDE DEF job
  <2>4. PICK d \in Dbs : d = job.id
    BY <2>1 DEF Jobs
  <2> DEFINE q == <<"client", c>>
  <2>5. Holds(q, d) /\ ~Holds(q, d)'
    BY <2>1, <2>2, <2>4, HoldsIs, HoldsThen
  <2>6. \A id \in Dbs : \A h \in Holders \ {<<"requested">>, <<"background">>, <<"running">>} :
          Holds(h, id)' => Holds(h, id)
    BY <2>2 DEF Holds, KeeperHolds, ClientHolds
  <2>7. q \in Holders \ {<<"requested">>, <<"background">>, <<"running">>}
    BY HoldersApart
  <2> HIDE DEF q
  <2> QED
    BY <2>1, <2>2, <2>3, <2>4, <2>5, <2>6, <2>7, SubmitMoves
<1>15. ASSUME NEW c \in Clients, HandOverRefused(c) PROVE StepAlone
  <2>1. /\ requested' = <<>> /\ background' = <<>> /\ UNCHANGED <<running, keeper, state>> /\ ClientHolds(c)
    BY <1>15 DEF HandOverRefused, SubmitRefused, keeping, ClientHolds
  <2>2. \A e \in Clients : ClientHolds(e)' => ClientHolds(e) /\ client'[e].id = client[e].id
    BY <1>15, <2>1, FlightIs DEF HandOverRefused
  <2>3. \A id \in Dbs : \A h \in Holders : Holds(h, id)' => Holds(h, id)
    BY <2>1, <2>2, WaitsNone DEF Holds, Underway, KeeperHolds
  <2> QED
    BY <2>1, <2>3, Fewer
<1>16. ASSUME NEW c \in Clients, FailRefused(c) PROVE StepAlone
  <2>1. client[c].pc = "refused" /\ ClientHolds(c)
    BY <1>16 DEF FailRefused, ClientHolds
  <2>2. PICK d \in Dbs : d = client[c].id
    BY <2>1, InFlight
  <2>3. /\ ~ClientHolds(c)' /\ \A e \in Clients : e # c => client'[e] = client[e]
        /\ UNCHANGED <<requested, background, running, keeper>>
    BY <1>16, FlightIs DEF FailRefused, keeping, queues, ClientHolds
  <2>4. \A id \in Dbs : id # d => state'[id] = state[id]
    BY <1>16, <2>2 DEF FailRefused, SetState, TypeOK
  <2>5. Holds(<<"client", c>>, d) /\ ~Holds(<<"client", c>>, d)'
    BY <2>1, <2>2, <2>3, HoldsIs, HoldsThen
  <2>6. \A id \in Dbs : \A h \in Holders : Holds(h, id)' => Holds(h, id)
    BY <2>3 DEF Holds, Underway, KeeperHolds, ClientHolds
  <2>7. \A h \in Holders : ~Holds(h, d)'
    BY <2>5, <2>6, HoldersApart DEF BuildsAlone
  <2>8. ~HasBuild(d)'
    BY <2>7, HeldThenBuilt
  <2>9. \A id \in Dbs : state[id].tag = "Working" => state'[id].tag = "Working" \/ ~HasBuild(id)'
    BY <2>4, <2>8
  <2> QED
    BY <2>3, <2>6, <2>9, Fewer
<1>17. ASSUME NEW c \in Clients, Leave(c) PROVE StepAlone
  <2>1. UNCHANGED <<requested, background>> /\ running' = running
    BY <1>17 DEF Leave, queues
  <2>2. KeeperHolds' => KeeperHolds /\ keeper'.job.id = keeper.job.id
    BY <1>17 DEF Leave, KeeperHolds, keeping
  <2>3. \A e \in Clients : ClientHolds(e)' => ClientHolds(e) /\ client'[e].id = client[e].id
    BY <1>17 DEF Leave, AtRest, ClientHolds, TypeOK
  <2>4. StaysWorking
    BY <1>17 DEF Leave, StaysWorking
  <2> QED
    BY <2>1, <2>2, <2>3, <2>4, NoneBegun DEF Underway, StaysWorking
<1>18. CASE BeginLook
  <2>1. UNCHANGED <<requested, background, client, state>> /\ ~KeeperHolds'
    BY <1>18 DEF BeginLook, KeeperHolds
  <2>2. Underway' => Underway /\ running'.id = running.id
    <3>1. CASE running \in Runs
      <4>1. /\ [running EXCEPT !.stop = TRUE].id = running.id
            /\ [running EXCEPT !.stop = TRUE].step = running.step
        BY <3>1 DEF Runs
      <4> QED
        BY <1>18, <3>1, <4>1, NoneAssumption DEF BeginLook, Underway
    <3>2. CASE running = None
      BY <1>18, <3>2 DEF BeginLook, Underway
    <3> QED
      BY <3>1, <3>2 DEF TypeOK
  <2> QED
    BY <2>1, <2>2, NoneBegun DEF ClientHolds
<1>19. CASE KeeperHandsOver
  <2> DEFINE job == keeper.job
  <2>1. job \in Jobs /\ KeeperHolds /\ ~KeeperHolds'
    BY <1>19 DEF KeeperHandsOver, TypeOK, Away, Looks, KeeperHolds
  <2>2. Submit(job, "Background") /\ "Background" \in Kinds /\ UNCHANGED <<client, state>>
    BY <1>19 DEF KeeperHandsOver, Kinds
  <2>3. PICK d \in Dbs : d = job.id
    BY <2>1 DEF Jobs
  <2> DEFINE q == <<"keeper">>
  <2>4. Holds(q, d) /\ ~Holds(q, d)'
    BY <2>1, <2>3, HoldsIs, HoldsThen
  <2>5. \A id \in Dbs : \A h \in Holders \ {<<"requested">>, <<"background">>, <<"running">>} :
          Holds(h, id)' => Holds(h, id)
    BY <2>1, <2>2 DEF Holds, ClientHolds
  <2>6. q \in Holders \ {<<"requested">>, <<"background">>, <<"running">>}
    BY HoldersApart
  <2> HIDE DEF q, job
  <2> QED
    BY <2>1, <2>2, <2>3, <2>4, <2>5, <2>6, SubmitMoves
<1>20. CASE KeeperRefused
  <2>1. /\ requested' = <<>> /\ background' = <<>> /\ UNCHANGED <<running, client, state>>
        /\ KeeperHolds /\ keeper'.job.id = keeper.job.id
    BY <1>20 DEF KeeperRefused, SubmitRefused, KeeperHolds, TypeOK, Away, Looks
  <2>3. \A id \in Dbs : \A h \in Holders : Holds(h, id)' => Holds(h, id)
    BY <2>1, WaitsNone DEF Holds, Underway, ClientHolds
  <2> QED
    BY <2>1, <2>3, Fewer
<1>21. CASE KeeperFails
  <2>1. keeper.job \in Jobs /\ KeeperHolds /\ ~KeeperHolds'
    BY <1>21 DEF KeeperFails, TypeOK, Away, Looks, KeeperHolds
  <2>2. PICK d \in Dbs : d = keeper.job.id
    BY <2>1 DEF Jobs
  <2>3. UNCHANGED <<requested, background, running, client>>
    BY <1>21 DEF KeeperFails, queues
  <2>4. \A id \in Dbs : id # d => state'[id] = state[id]
    BY <1>21, <2>2 DEF KeeperFails, SetState, TypeOK
  <2>5. Holds(<<"keeper">>, d) /\ ~Holds(<<"keeper">>, d)'
    BY <2>1, <2>2, HoldsIs, HoldsThen
  <2>6. \A id \in Dbs : \A h \in Holders : Holds(h, id)' => Holds(h, id)
    BY <2>1, <2>3 DEF Holds, Underway, ClientHolds
  <2>7. \A h \in Holders : ~Holds(h, d)'
    BY <2>5, <2>6, HoldersApart DEF BuildsAlone
  <2>8. ~HasBuild(d)'
    BY <2>7, HeldThenBuilt
  <2>9. \A id \in Dbs : state[id].tag = "Working" => state'[id].tag = "Working" \/ ~HasBuild(id)'
    BY <2>4, <2>8
  <2> QED
    BY <2>3, <2>6, <2>9, Fewer
<1>22. CASE EndLook
  <2>1. UNCHANGED <<requested, background>> /\ running' = running
    BY <1>22 DEF EndLook, queues
  <2>2. KeeperHolds' => KeeperHolds /\ keeper'.job.id = keeper.job.id
    BY <1>22 DEF EndLook, KeeperHolds, Away
  <2>3. \A e \in Clients : ClientHolds(e)' => ClientHolds(e) /\ client'[e].id = client[e].id
    BY <1>22 DEF EndLook, ClientHolds
  <2>4. StaysWorking
    BY <1>22 DEF EndLook, StaysWorking
  <2> QED
    BY <2>1, <2>2, <2>3, <2>4, NoneBegun DEF Underway, StaysWorking
<1>23. CASE SwitchPower
  <2>1. UNCHANGED <<requested, background>> /\ running' = running
    BY <1>23 DEF SwitchPower, queues
  <2>2. KeeperHolds' => KeeperHolds /\ keeper'.job.id = keeper.job.id
    BY <1>23 DEF SwitchPower, KeeperHolds, keeping
  <2>3. \A e \in Clients : ClientHolds(e)' => ClientHolds(e) /\ client'[e].id = client[e].id
    BY <1>23 DEF SwitchPower, ClientHolds
  <2>4. StaysWorking
    BY <1>23 DEF SwitchPower, StaysWorking
  <2> QED
    BY <2>1, <2>2, <2>3, <2>4, NoneBegun DEF Underway, StaysWorking
<1>24. CASE Restart
  <2>1. requested' = <<>> /\ background' = <<>> /\ ~Underway' /\ ~KeeperHolds' /\ \A c \in Clients : ~ClientHolds(c)'
    BY <1>24 DEF Restart, Underway, KeeperHolds, ClientHolds, Away, AtRest
  <2>2. \A id \in Dbs : \A h \in Holders : ~Holds(h, id)'
    BY <2>1, WaitsNone DEF Holds
  <2>3. \A id \in Dbs : ~HasBuild(id)'
    BY <2>2, HeldThenBuilt
  <2> QED
    BY <2>1, <2>2, <2>3, Fewer
<1>25. ASSUME NEW id \in Dbs, PassOver(id) PROVE StepAlone
  <2>1. UNCHANGED <<requested, background>> /\ running' = running
    BY <1>25 DEF PassOver, queues
  <2>2. KeeperHolds' => KeeperHolds /\ keeper'.job.id = keeper.job.id
    BY <1>25 DEF PassOver, KeeperHolds, Looked
  <2>3. \A e \in Clients : ClientHolds(e)' => ClientHolds(e) /\ client'[e].id = client[e].id
    BY <1>25 DEF PassOver, ClientHolds
  <2>4. StaysWorking
    BY <1>25 DEF PassOver, StaysWorking
  <2> QED
    BY <2>1, <2>2, <2>3, <2>4, NoneBegun DEF Underway, StaysWorking
<1>26. ASSUME NEW id \in Dbs, RenewWithoutRoom(id) PROVE StepAlone
  <2>1. UNCHANGED <<requested, background>> /\ running' = running
    BY <1>26 DEF RenewWithoutRoom, queues
  <2>2. KeeperHolds' => KeeperHolds /\ keeper'.job.id = keeper.job.id
    BY <1>26 DEF RenewWithoutRoom, KeeperHolds, Looked
  <2>3. \A e \in Clients : ClientHolds(e)' => ClientHolds(e) /\ client'[e].id = client[e].id
    BY <1>26 DEF RenewWithoutRoom, ClientHolds
  <2>4. StaysWorking
    BY <1>26 DEF RenewWithoutRoom, Settled, SetState, TypeOK, StaysWorking
  <2> QED
    BY <2>1, <2>2, <2>3, <2>4, NoneBegun DEF Underway, StaysWorking
<1>27. ASSUME NEW id \in Dbs, Renew(id) PROVE StepAlone
  <2>1. /\ keeper'.pc = "handing" /\ keeper'.job.id = id
        /\ UNCHANGED <<requested, background, running, client>>
    BY <1>27 DEF Renew, queues
  <2>2. StaysWorking /\ state[id].tag # "Working" /\ state'[id].tag = "Working"
    BY <1>27 DEF Renew, Settled, SetState, Working, StaysWorking, TypeOK
  <2>3. ASSUME NEW d \in Dbs, NEW h \in Holders, Holds(h, d)'
        PROVE  Holds(h, d) \/ (h = <<"keeper">> /\ d = id)
    BY <2>1, <2>3 DEF Holds, Underway, KeeperHolds, ClientHolds
  <2> QED
    BY <1>27, <2>1, <2>2, <2>3, Begun, HoldersApart
<1>28. ASSUME NEW id \in Dbs, SweepWork(id) PROVE StepAlone
  <2>1. UNCHANGED <<requested, background>> /\ running' = running
    BY <1>28 DEF SweepWork, queues
  <2>2. KeeperHolds' => KeeperHolds /\ keeper'.job.id = keeper.job.id
    BY <1>28 DEF SweepWork, KeeperHolds, keeping
  <2>3. \A e \in Clients : ClientHolds(e)' => ClientHolds(e) /\ client'[e].id = client[e].id
    BY <1>28 DEF SweepWork, ClientHolds
  <2>4. StaysWorking
    BY <1>28 DEF SweepWork, StaysWorking
  <2> QED
    BY <2>1, <2>2, <2>3, <2>4, NoneBegun DEF Underway, StaysWorking
<1>29. ASSUME NEW id \in Dbs, SweepIndex(id) PROVE StepAlone
  <2>1. UNCHANGED <<requested, background>> /\ running' = running
    BY <1>29 DEF SweepIndex, queues
  <2>2. KeeperHolds' => KeeperHolds /\ keeper'.job.id = keeper.job.id
    BY <1>29 DEF SweepIndex, KeeperHolds, keeping
  <2>3. \A e \in Clients : ClientHolds(e)' => ClientHolds(e) /\ client'[e].id = client[e].id
    BY <1>29 DEF SweepIndex, ClientHolds
  <2>4. StaysWorking
    BY <1>29 DEF SweepIndex, SetState, TypeOK, StaysWorking
  <2> QED
    BY <2>1, <2>2, <2>3, <2>4, NoneBegun DEF Underway, StaysWorking
<1>30. ASSUME NEW id \in Dbs, MinutePasses(id) PROVE StepAlone
  <2>1. UNCHANGED <<requested, background>> /\ running' = running
    BY <1>30 DEF MinutePasses, queues
  <2>2. KeeperHolds' => KeeperHolds /\ keeper'.job.id = keeper.job.id
    BY <1>30 DEF MinutePasses, KeeperHolds
  <2>3. \A e \in Clients : ClientHolds(e)' => ClientHolds(e) /\ client'[e].id = client[e].id
    BY <1>30 DEF MinutePasses, ClientHolds
  <2>4. StaysWorking
    BY <1>30 DEF MinutePasses, JustFailed, TypeOK, StaysWorking
  <2> QED
    BY <2>1, <2>2, <2>3, <2>4, NoneBegun DEF Underway, StaysWorking
<1>31. ASSUME NEW id \in Dbs, Change(id) PROVE StepAlone
  <2>1. UNCHANGED <<requested, background, client, state, keeper>>
    BY <1>31 DEF Change, keeping
  <2>2. Underway' => Underway /\ running'.id = running.id
    <3>1. CASE running \in Runs
      <4>1. /\ [running EXCEPT !.whole = FALSE].id = running.id
            /\ [running EXCEPT !.whole = FALSE].step = running.step
        BY <3>1 DEF Runs
      <4> QED
        BY <1>31, <3>1, <4>1, NoneAssumption DEF Change, Underway
    <3>2. CASE running = None
      BY <1>31, <3>2 DEF Change, Underway, RunsFor
    <3> QED
      BY <3>1, <3>2 DEF TypeOK
  <2> QED
    BY <2>1, <2>2, NoneBegun DEF ClientHolds, KeeperHolds
<1>32. ASSUME NEW id \in Dbs, Move(id) PROVE StepAlone
  <2>1. UNCHANGED <<requested, background>> /\ running' = running
    BY <1>32 DEF Move, queues
  <2>2. KeeperHolds' => KeeperHolds /\ keeper'.job.id = keeper.job.id
    BY <1>32 DEF Move, KeeperHolds, keeping
  <2>3. \A e \in Clients : ClientHolds(e)' => ClientHolds(e) /\ client'[e].id = client[e].id
    BY <1>32 DEF Move, ClientHolds
  <2>4. StaysWorking
    BY <1>32 DEF Move, StaysWorking
  <2> QED
    BY <2>1, <2>2, <2>3, <2>4, NoneBegun DEF Underway, StaysWorking
<1>33. CASE UNCHANGED vars
  BY <1>33, NoneBegun DEF vars, Underway, KeeperHolds, ClientHolds
<1>34. ASSUME NEW c \in Clients, NEW id \in Dbs, Open(c, id) PROVE StepAlone
  <2>1. UNCHANGED <<requested, background>> /\ running' = running
    BY <1>34 DEF Open, queues
  <2>2. KeeperHolds' => KeeperHolds /\ keeper'.job.id = keeper.job.id
    BY <1>34 DEF Open, KeeperHolds, keeping
  <2>3. \A e \in Clients : ClientHolds(e)' => ClientHolds(e) /\ client'[e].id = client[e].id
    BY <1>34 DEF Open, ClientHolds, TypeOK
  <2>4. StaysWorking
    BY <1>34 DEF Open, StaysWorking
  <2> QED
    BY <2>1, <2>2, <2>3, <2>4, NoneBegun DEF Underway, StaysWorking
<1>35. ASSUME NEW c \in Clients PROVE ~FindDamage(c)
  BY DEF FindDamage
<1> QED
  BY <1>1, <1>2, <1>3, <1>4, <1>5, <1>6, <1>7, <1>8, <1>9, <1>10, <1>11, <1>12,
     <1>13, <1>14, <1>15, <1>16, <1>17, <1>18, <1>19, <1>20, <1>21, <1>22, <1>23, <1>24,
     <1>25, <1>26, <1>27, <1>28, <1>29, <1>30, <1>31, <1>32, <1>33, <1>34, <1>35
  DEF Next, Builder, Request, Ask, Keep, Sweep, World

AloneInv == TypeOK /\ BuildsAlone /\ BuildsAreWorking

LEMMA AloneInvariant ==
    ASSUME ~Damage
    PROVE  Spec => []AloneInv
<1>1. Init => BuildsAlone /\ BuildsAreWorking
  <2> SUFFICES ASSUME Init
               PROVE  BuildsAlone /\ BuildsAreWorking
    OBVIOUS
  <2>1. ~Underway /\ ~KeeperHolds /\ \A c \in Clients : ~ClientHolds(c)
    BY DEF Init, Underway, KeeperHolds, ClientHolds, AtRest, Away
  <2>2. \A id \in Dbs : \A h \in Holders : ~Holds(h, id)
    BY <2>1, WaitsNone DEF Init, Holds
  <2>3. Once(requested) /\ Once(background)
    BY OnceNone DEF Init
  <2>4. \A id \in Dbs : ~HasBuild(id)
    BY <2>2, HeldIsBuilt
  <2> QED
    BY <2>2, <2>3, <2>4 DEF BuildsAlone, BuildsAreWorking
<1>2. AloneInv /\ TypeOK' /\ [Next]_vars => AloneInv'
  BY AloneStep DEF AloneInv, StepAlone
<1> QED
  BY <1>1, <1>2, TypeCorrect, PTL DEF Spec, AloneInv

(* Each build of a database is with one of its holders.                    *)
BuildAt(b, h, id) ==
    \/ h = <<"requested">> /\ \E i \in 1..Len(requested) : b = <<"requested", i>> /\ requested[i].id = id
    \/ h = <<"background">> /\ \E i \in 1..Len(background) : b = <<"background", i>> /\ background[i].id = id
    \/ h = <<"running">> /\ b = <<"running", 0>>
    \/ h = <<"keeper">> /\ b = <<"keeper", 0>>
    \/ \E c \in Clients : h = <<"client", c>> /\ b = <<"client", c>>

LEMMA BuildHeld ==
    ASSUME NEW id \in Dbs, NEW b \in BuildsOf(id)
    PROVE  \E h \in Holders : Holds(h, id) /\ BuildAt(b, h, id)
<1>1. CASE \E i \in 1..Len(requested) : b = <<"requested", i>> /\ requested[i].id = id
  BY <1>1, HoldsIs, HoldersApart DEF Waits, BuildAt
<1>2. CASE \E i \in 1..Len(background) : b = <<"background", i>> /\ background[i].id = id
  BY <1>2, HoldsIs, HoldersApart DEF Waits, BuildAt
<1>3. CASE b = <<"running", 0>> /\ Underway /\ running.id = id
  BY <1>3, HoldsIs, HoldersApart DEF BuildAt
<1>4. CASE b = <<"keeper", 0>> /\ KeeperHolds /\ keeper.job.id = id
  BY <1>4, HoldsIs, HoldersApart DEF BuildAt
<1>5. CASE \E c \in Clients : b = <<"client", c>> /\ ClientHolds(c) /\ client[c].id = id
  BY <1>5, HoldsIs, HoldersApart DEF BuildAt
<1> QED
  BY <1>1, <1>2, <1>3, <1>4, <1>5 DEF BuildsOf, RunsFor, Underway, ClientHolds, KeeperHolds

(* While no read finds an index damaged, no database has two builds at a   *)
(* time, waiting, running or being queued, however requests, the keeper's  *)
(* looks, stops, refusals and restarts interleave: a state that is Working *)
(* queues no other build (mod.rs 550), and each build keeps its state      *)
(* Working to its end.                                                     *)
THEOREM OneBuildAtATime ==
    ASSUME ~Damage
    PROVE  Spec => []OneBuild
<1>1. AloneInv => OneBuild
  <2> SUFFICES ASSUME BuildsAlone, NEW id \in Dbs, NEW b \in BuildsOf(id), NEW e \in BuildsOf(id)
               PROVE  b = e
    BY DEF OneBuild, AloneInv
  <2>1. \A h, k \in Holders : Holds(h, id) /\ Holds(k, id) => h = k
    BY DEF BuildsAlone
  <2>2. \A i, k \in 1..Len(requested) : requested[i].id = id /\ requested[k].id = id => i = k
    BY DEF BuildsAlone, Once
  <2>3. \A i, k \in 1..Len(background) : background[i].id = id /\ background[k].id = id => i = k
    BY DEF BuildsAlone, Once
  <2>4. PICK h \in Holders : Holds(h, id) /\ BuildAt(b, h, id)
    BY BuildHeld
  <2>5. PICK k \in Holders : Holds(k, id) /\ BuildAt(e, k, id)
    BY BuildHeld
  <2>6. h = k
    BY <2>1, <2>4, <2>5
  <2> QED
    BY <2>2, <2>3, <2>4, <2>5, <2>6, HoldersApart DEF BuildAt
<1> QED
  BY <1>1, AloneInvariant, PTL

(* A sweep finds no file of a build running.                               *)
LEMMA BuildKeepsFiles ==
    ASSUME TypeOK, BuildKeepsItsFiles, Build
    PROVE  BuildKeepsItsFiles'
<1>1. /\ running \in Runs /\ running' \in Runs /\ running'.id = running.id /\ running.id \in Dbs
      /\ partial \in [Dbs -> BOOLEAN]
  BY BuildSteps DEF Runs, TypeOK
<1>2. running' # None /\ running # None
  BY <1>1, NoneAssumption
<1>3. ASSUME NEW step, Go(step)
      PROVE  running'.step = step
  BY <1>1, <1>3 DEF Go, Runs
<1>4. CASE CheckTurn \/ DropTurn \/ TurnWithoutRoom \/ FindKept \/ OpenBuilt \/ LostFiles
           \/ RenameFiles \/ AskStill \/ Settle \/ BuildFails \/ SeeStop \/ BuildPanics
  <2>1. running'.step \notin Building
    <3>1. ASSUME NEW busy, Erred(busy)
          PROVE  running'.step \notin Building
      BY <1>3, <3>1 DEF Erred, Building
    <3>2. CASE FindKept
      BY <1>1, <3>2 DEF FindKept, Runs, Building
    <3>3. CASE CheckTurn \/ DropTurn \/ TurnWithoutRoom \/ OpenBuilt \/ RenameFiles \/ AskStill
               \/ Settle \/ BuildPanics
      BY <1>3, <3>3 DEF CheckTurn, DropTurn, TurnWithoutRoom, OpenBuilt, RenameFiles, AskStill,
         Settle, BuildPanics, Building
    <3>4. CASE LostFiles \/ BuildFails \/ SeeStop
      BY <3>1, <3>4 DEF LostFiles, BuildFails, SeeStop
    <3> QED
      BY <1>4, <3>2, <3>3, <3>4
  <2> QED
    BY <2>1 DEF BuildKeepsItsFiles
<1>5. CASE BeginBuild
  <2>1. partial' = [partial EXCEPT ![running.id] = TRUE]
    BY <1>5 DEF BeginBuild
  <2> QED
    BY <1>1, <2>1 DEF BuildKeepsItsFiles
<1>6. CASE ReadGames \/ WritePasses
  <2>1. running.step \in Building /\ partial' = partial
    BY <1>6 DEF ReadGames, WritePasses, At, Building, folder
  <2> QED
    BY <1>1, <1>2, <2>1 DEF BuildKeepsItsFiles
<1> QED
  BY <1>4, <1>5, <1>6 DEF Build

LEMMA KeepsFiles ==
    ASSUME BuildKeepsItsFiles,
           running' # None => running # None /\ running'.id = running.id /\ running'.step = running.step,
           running # None /\ running.step \in Building => partial'[running.id] = partial[running.id]
    PROVE  BuildKeepsItsFiles'
BY DEF BuildKeepsItsFiles

LEMMA RunsOn ==
    ASSUME TypeOK, running # None
    PROVE  /\ running \in Runs
           /\ [running EXCEPT !.stop = TRUE].id = running.id
           /\ [running EXCEPT !.stop = TRUE].step = running.step
           /\ [running EXCEPT !.whole = FALSE].id = running.id
           /\ [running EXCEPT !.whole = FALSE].step = running.step
           /\ [running EXCEPT !.kind = "Requested"].id = running.id
           /\ [running EXCEPT !.kind = "Requested"].step = running.step
BY DEF TypeOK, Runs

LEMMA FilesStep ==
    ASSUME TypeOK, BuildsAreWorking, BuildKeepsItsFiles, ~Damage, Next \/ UNCHANGED vars
    PROVE  BuildKeepsItsFiles'
<1> DEFINE Same == running' # None => running # None /\ running'.id = running.id /\ running'.step = running.step
<1>1. ASSUME NEW id, running' = Preempted(id)
      PROVE  Same
  BY <1>1, RunsOn DEF Preempted
<1>2. ASSUME NEW job, NEW kind, Submit(job, kind)
      PROVE  Same
  BY <1>1, <1>2 DEF Submit
<1>3. ASSUME NEW id, Promote(id)
      PROVE  Same
  <2>1. CASE PromoteWaiting(id)
    BY <1>1, <2>1 DEF PromoteWaiting
  <2>2. CASE PromoteRunning(id)
    BY <2>2, RunsOn DEF PromoteRunning, RunsFor
  <2> QED
    BY <1>3, <2>1, <2>2 DEF Promote
<1>4. CASE UNCHANGED vars
  BY <1>4, KeepsFiles DEF vars
<1>5. CASE StartRequested \/ StartBackground
  <2>1. ASSUME NEW job, NEW kind, running' = Turn(job, kind)
        PROVE  running'.step \notin Building
    BY <2>1 DEF Turn, Building
  <2> QED
    BY <1>5, <2>1 DEF StartRequested, StartBackground, BuildKeepsItsFiles
<1>6. CASE EndThread \/ Finish \/ Requeue
  BY <1>6 DEF EndThread, Finish, Requeue, BuildKeepsItsFiles
<1>7. CASE Build
  BY <1>7, BuildKeepsFiles
<1>8. ASSUME NEW c \in Clients, Ask(c) \/ Leave(c) \/ \E id \in Dbs : Open(c, id)
      PROVE  BuildKeepsItsFiles'
  <2>1. partial' = partial
    BY <1>8 DEF Ask, AskHeld, AskWorking, AskFailed, AskKept, AskBusy, AskWithoutRoom, AskBuild,
       HandOver, HandOverRefused, FailRefused, Leave, Open, folder
  <2>2. Same
    BY <1>2, <1>3, <1>8 DEF Ask, AskHeld, AskWorking, AskFailed, AskKept, AskBusy, AskWithoutRoom,
       AskBuild, HandOver, HandOverRefused, SubmitRefused, FailRefused, Leave, Open, queues
  <2> QED
    BY <2>1, <2>2, KeepsFiles
<1>9. CASE Keep
  <2>1. partial' = partial
    BY <1>9 DEF Keep, BeginLook, KeeperHandsOver, KeeperRefused, KeeperFails, EndLook, PassOver,
       RenewWithoutRoom, Renew, folder
  <2>2. Same
    <3>1. CASE BeginLook
      BY <3>1, RunsOn DEF BeginLook
    <3>2. CASE KeeperHandsOver
      BY <1>2, <3>2 DEF KeeperHandsOver
    <3>3. CASE KeeperRefused
      BY <3>3 DEF KeeperRefused, SubmitRefused
    <3> QED
      BY <1>9, <3>1, <3>2, <3>3, LooksLeaveQueues DEF queues
  <2> QED
    BY <2>1, <2>2, KeepsFiles
<1>10. ASSUME NEW id \in Dbs, SweepWork(id) \/ SweepIndex(id)
       PROVE  BuildKeepsItsFiles'
  <2>1. running' = running
    BY <1>10 DEF SweepWork, SweepIndex, queues
  <2>2. CASE SweepIndex(id)
    BY <2>1, <2>2, KeepsFiles DEF SweepIndex
  <2>3. CASE SweepWork(id)
    <3>1. running # None /\ running.step \in Building => running.id \in Dbs /\ HasBuild(running.id)
      BY DEF TypeOK, Runs, HasBuild, RunsFor, Building
    <3>2. running # None /\ running.step \in Building => running.id # id
      BY <2>3, <3>1 DEF SweepWork, BuildsAreWorking
    <3>3. \A d \in Dbs : d # id => partial'[d] = partial[d]
      BY <2>3 DEF SweepWork, TypeOK
    <3> QED
      BY <2>1, <3>1, <3>2, <3>3, KeepsFiles
  <2> QED
    BY <1>10, <2>2, <2>3
<1>11. CASE World
  <2>1. CASE Restart
    BY <2>1 DEF Restart, BuildKeepsItsFiles
  <2>2. CASE SwitchPower \/ \E id \in Dbs : MinutePasses(id) \/ Move(id)
    BY <2>2, KeepsFiles DEF SwitchPower, MinutePasses, Move, queues, folder
  <2>3. ASSUME NEW id \in Dbs, Change(id)
        PROVE  BuildKeepsItsFiles'
    <3>1. Same
      BY <2>3, RunsOn DEF Change, RunsFor
    <3> QED
      BY <2>3, <3>1, KeepsFiles DEF Change, folder
  <2> QED
    BY <1>11, <2>1, <2>2, <2>3 DEF World
<1>12. \A c \in Clients : ~FindDamage(c)
  BY DEF FindDamage
<1> QED
  BY <1>4, <1>5, <1>6, <1>7, <1>8, <1>9, <1>10, <1>11, <1>12 DEF Next, Builder, Request, Sweep

(* "The files of a database whose index or masks are being built are never *)
(* touched" (mod.rs 617): while no read finds an index damaged, the files  *)
(* a build writes stay until it renames them, since the database is        *)
(* Working as long as it has a build and a sweep leaves such a one alone.  *)
THEOREM FilesStayWithBuild ==
    ASSUME ~Damage
    PROVE  Spec => []BuildKeepsItsFiles
<1>1. Init => BuildKeepsItsFiles
  BY DEF Init, BuildKeepsItsFiles
<1>2. AloneInv /\ BuildKeepsItsFiles /\ [Next]_vars => BuildKeepsItsFiles'
  BY FilesStep DEF AloneInv
<1> QED
  BY <1>1, <1>2, AloneInvariant, PTL DEF Spec

(* A build that failed for another reason than busy workers is not tried   *)
(* again unasked (api.md 1285-1289): while no read finds an index damaged, *)
(* nothing waits in a queue for a database whose state says Failed, and    *)
(* the keeper's look finds it settled.                                     *)
THEOREM FailuresAreLeftAlone ==
    ASSUME ~Damage
    PROVE  Spec => FailureIsLeftAlone
<1> DEFINE Again(id) == [id |-> id, gen |-> state[id].gen]
           Alone(id) == /\ \A i \in 1..Len(background') : background'[i] # Again(id)
                        /\ ~(keeper'.pc = "handing" /\ keeper'.job = Again(id))
<1>1. ASSUME AloneInv, [Next]_vars,
             NEW id \in Dbs, state[id].tag = "Failed", ~state[id].busy
      PROVE  Alone(id)
  <2>1. StepAlone /\ ~HasBuild(id)
    BY <1>1, AloneStep DEF AloneInv, BuildsAreWorking
  <2>2. ~HasBuild(id)' => Alone(id)
    BY DEF HasBuild, Waits
  <2>3. CASE Renew(id)
    <3>1. /\ background' = background /\ keeper'.job = [id |-> id, gen |-> gen[id]]
          /\ gen[id] # state[id].gen
      BY <1>1, <2>3 DEF Renew, Settled, queues
    <3> QED
      BY <2>1, <3>1 DEF HasBuild, Waits
  <2>4. CASE \E c \in Clients : AskBuild(c)
    <3>1. background' = background /\ keeper' = keeper
      BY <2>4 DEF AskBuild, queues, keeping
    <3> QED
      BY <2>1, <3>1 DEF HasBuild, Waits
  <2> QED
    BY <2>1, <2>2, <2>3, <2>4 DEF StepAlone
<1>2. AloneInv /\ [Next]_vars => [\A id \in Dbs : state[id].tag = "Failed" /\ ~state[id].busy => Alone(id)]_vars
  BY <1>1
<1> QED
  BY <1>2, AloneInvariant, PTL DEF Spec, FailureIsLeftAlone
=============================================================================
