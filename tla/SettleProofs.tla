----------------------------- MODULE SettleProofs -----------------------------
(***************************************************************************)
(* What holds of Settle for all jobs, queues and panics: its types, that a *)
(* queue runs one job at a time on a thread that lives while jobs wait,    *)
(* that nothing is at work once settled, and that its steps are steps of   *)
(* the promise (BackgroundWork).                                           *)
(***************************************************************************)
EXTENDS Settle, FiniteSetTheorems, SequenceTheorems, TLAPS
-----------------------------------------------------------------------------
(* The types, part by part.                                                *)
JobsTypeOK ==
    /\ place \in [Jobs -> Places \union {Nowhere}] /\ fate \in [Jobs -> Fates]
    /\ author \in [Jobs -> Jobs \union {"request", "keeper", Nowhere}]
QueuesTypeOK ==
    /\ line \in [Queues -> Seq(Jobs)] /\ alive \in [Queues -> BOOLEAN]
    /\ top \in [Queues -> Nat]
CountsTyped == counts \in [Kinds -> Nat]
RestTypeOK ==
    /\ look \in {"none", "taken", "keeping", "renewing", "renewed", "kept"} /\ stopped \in BOOLEAN
    /\ settler \in {"uncalled", "awake", "asleep", "settled", "busy"}
    /\ calm \in BOOLEAN /\ panics \in 0..MaxPanics

(* The inductive invariant. What the counts count: the jobs outstanding at *)
(* each place, and the keeper's look once or twice.                        *)
OutAt(k) == {j \in Jobs : place[j] = k /\ fate[j] \in Outstanding}
LookCount == IF look = "none" THEN 0 ELSE IF look \in {"taken", "kept"} THEN 1 ELSE 2
CountsRight ==
    /\ \A k \in Places : IsFiniteSet(OutAt(k)) /\ counts[k] = Cardinality(OutAt(k))
    /\ counts[LookKind] = LookCount

(* A job taken up has a place; a build of an index is counted as it is     *)
(* queued.                                                                 *)
PlacesRight ==
    \A j \in Jobs : /\ fate[j] # "new" => place[j] \in Places
                    /\ place[j] = IndexQueue => fate[j] # "counted"

(* The jobs in a line wait there, each once.                               *)
Lined(s, q, fates, places) ==
    /\ \A i \in 1..Len(s) : fates[s[i]] = "waiting" /\ places[s[i]] = q
    /\ \A i, k \in 1..Len(s) : s[i] = s[k] => i = k
LinesWait == \A q \in Queues : Lined(line[q], q, fate, place)

AskedStops == stopped <=> settler # "uncalled"

SettleInv ==
    /\ JobsTypeOK /\ QueuesTypeOK /\ CountsTyped /\ RestTypeOK
    /\ PlacesRight /\ CountsRight /\ LinesWait /\ OneThreadWhileJobsWait
    /\ AskedStops /\ QuietOnceSettled
-----------------------------------------------------------------------------
(* The places are apart, and a job's fates are told apart.                 *)
LEMMA PlacesDiffer ==
    /\ Queues \subseteq Places /\ Serials \subseteq Queues /\ IndexQueue \in Queues
    /\ Own \in Places /\ Own \notin Queues /\ IndexQueue \notin Serials
    /\ \A p \in Places : p \in Kinds /\ p # LookKind /\ p # Nowhere
    /\ LookKind \in Kinds /\ LookKind \notin Jobs
    /\ \A k \in Kinds : k = LookKind \/ k \in Places
BY PlacesAssumption DEF Queues, Places, Kinds

LEMMA FatesAre ==
    /\ Outstanding \subseteq Fates
    /\ "new" \notin Outstanding /\ "ran" \notin Outstanding /\ "dropped" \notin Outstanding
    /\ "new" \in Fates /\ "ran" \in Fates /\ "dropped" \in Fates
    /\ "counted" \in Outstanding /\ "waiting" \in Outstanding /\ "running" \in Outstanding
    /\ "refused" \in Outstanding /\ "doomed" \in Outstanding
BY DEF Fates, Outstanding

(* A job taken up: it has its place, and is counted there.                 *)
TakenUp(j, q) ==
    /\ fate[j] = "new" /\ place' = [place EXCEPT ![j] = q]
    /\ \/ /\ q # IndexQueue /\ fate' = [fate EXCEPT ![j] = "counted"]
          /\ UNCHANGED <<line, alive, top>>
       \/ q = IndexQueue /\ Enqueue(j, q)
    /\ CountIn(q)
    /\ UNCHANGED <<stopped, settler, panics>>

LEMMA BuildIsTakenUp ==
    ASSUME NEW j \in Jobs, CountBuild(j)
    PROVE  TakenUp(j, IndexQueue)
BY DEF CountBuild, TakenUp

LEMMA SubmitIsTakenUp ==
    ASSUME NEW j \in Jobs, NEW by, Submit(j, by)
    PROVE  /\ \E q \in Places : TakenUp(j, q)
           /\ author' = [author EXCEPT ![j] = by] /\ look' = look
<1>1. CASE \E q \in Serials \union {Own} : Count(j, q)
  <2>1. PICK q \in Serials \union {Own} : Count(j, q)
    BY <1>1
  <2>2. q \in Places /\ q # IndexQueue
    BY PlacesAssumption DEF Places, Queues
  <2>3. TakenUp(j, q)
    BY <2>1, <2>2 DEF Count, TakenUp
  <2> QED
    BY <2>1, <2>2, <2>3 DEF Count, Submit
<1>2. CASE CountBuild(j) /\ UNCHANGED look
  BY <1>2, BuildIsTakenUp, PlacesDiffer DEF Submit
<1> QED
  BY <1>1, <1>2 DEF Submit

(* A submission is by a request, or by work not at its end.                *)
LEMMA RequestIsTakenUp ==
    ASSUME NEW j \in Jobs, RequestSubmits(j)
    PROVE  /\ \E q \in Places : TakenUp(j, q)
           /\ author' = [author EXCEPT ![j] = "request"] /\ look' = look
           /\ calm' = (settler = "uncalled")
BY SubmitIsTakenUp DEF RequestSubmits

LEMMA WorkIsTakenUp ==
    ASSUME NEW j \in Jobs, WorkSubmits(j)
    PROVE  \E v \in Jobs :
             /\ fate[v] = "running" /\ \E q \in Places : TakenUp(j, q)
             /\ author' = [author EXCEPT ![j] = v] /\ look' = look /\ calm' = calm
<1>1. PICK v \in Jobs : fate[v] = "running" /\ Submit(j, v) /\ calm' = calm
  BY DEF WorkSubmits
<1>2. /\ \E q \in Places : TakenUp(j, q)
      /\ author' = [author EXCEPT ![j] = v] /\ look' = look
  BY <1>1, SubmitIsTakenUp
<1> QED
  BY <1>1, <1>2

(* The keeper's renewal takes a build up, or nothing.                      *)
LEMMA RenewIs ==
    ASSUME Renew
    PROVE  /\ look = "renewing" /\ look' = "renewed" /\ calm' = calm
           /\ \/ \E j \in Jobs : /\ TakenUp(j, IndexQueue)
                                 /\ author' = [author EXCEPT ![j] = "keeper"]
              \/ UNCHANGED <<place, author, fate, line, alive, top, counts, stopped, settler, panics>>
BY BuildIsTakenUp DEF Renew

(* What a submission makes of the job, its queue and its thread.           *)
LEMMA EnqueueIs ==
    ASSUME NEW j \in Jobs, NEW q \in Queues, Enqueue(j, q), JobsTypeOK, QueuesTypeOK
    PROVE  /\ \E f \in {"waiting", "refused"} :
                /\ fate' = [fate EXCEPT ![j] = f]
                /\ line' = IF f = "waiting" THEN [line EXCEPT ![q] = Append(line[q], j)] ELSE line
                /\ \/ alive[q] /\ f = "waiting" /\ UNCHANGED <<alive, top>>
                   \/ /\ ~alive[q] /\ f = "waiting" /\ alive' = [alive EXCEPT ![q] = TRUE]
                      /\ top' = [top EXCEPT ![q] = top[q] + 1]
                   \/ ~alive[q] /\ f = "refused" /\ UNCHANGED <<alive, top>>
           /\ QueuesTypeOK'
<1>1. QueuesTypeOK'
  <2>1. line[q] \in Seq(Jobs) /\ top[q] + 1 \in Nat
    BY DEF QueuesTypeOK
  <2>2. Append(line[q], j) \in Seq(Jobs)
    BY <2>1
  <2>3. line' \in [Queues -> Seq(Jobs)]
    BY <2>2 DEF Enqueue, QueuesTypeOK
  <2>4. alive' \in [Queues -> BOOLEAN]
    BY DEF Enqueue, QueuesTypeOK
  <2>5. top' \in [Queues -> Nat]
    BY <2>1 DEF Enqueue, QueuesTypeOK
  <2> QED
    BY <2>3, <2>4, <2>5 DEF QueuesTypeOK
<1>2. CASE fate' = [fate EXCEPT ![j] = "waiting"] /\ line' = [line EXCEPT ![q] = Append(@, j)]
           /\ alive[q] /\ UNCHANGED <<alive, top>>
  BY <1>1, <1>2
<1>3. CASE fate' = [fate EXCEPT ![j] = "waiting"] /\ line' = [line EXCEPT ![q] = Append(@, j)]
           /\ ~alive[q] /\ alive' = [alive EXCEPT ![q] = TRUE] /\ top' = [top EXCEPT ![q] = @ + 1]
  BY <1>1, <1>3
<1>4. CASE fate' = [fate EXCEPT ![j] = "refused"] /\ ~alive[q] /\ UNCHANGED <<line, alive, top>>
  BY <1>1, <1>4
<1> QED
  BY <1>2, <1>3, <1>4 DEF Enqueue

(* A job taken up is outstanding from then on.                             *)
LEMMA TakenUpIs ==
    ASSUME NEW j \in Jobs, NEW q \in Places, TakenUp(j, q), JobsTypeOK, QueuesTypeOK
    PROVE  /\ \E f \in {"counted", "waiting", "refused"} :
                fate' = [fate EXCEPT ![j] = f] /\ (q = IndexQueue => f # "counted")
           /\ place' = [place EXCEPT ![j] = q] /\ QueuesTypeOK'
<1>1. CASE q # IndexQueue
  BY <1>1 DEF TakenUp, QueuesTypeOK
<1>2. CASE q = IndexQueue
  <2>1. Enqueue(j, q) /\ q \in Queues
    BY <1>2, PlacesDiffer DEF TakenUp
  <2> QED
    BY <2>1, EnqueueIs, <1>2 DEF TakenUp
<1> QED
  BY <1>1, <1>2
-----------------------------------------------------------------------------
(* The types, in what steps share.                                         *)
LEMMA TakenUpTypes ==
    ASSUME NEW j \in Jobs, NEW q \in Places, TakenUp(j, q), JobsTypeOK, QueuesTypeOK, CountsTyped,
           NEW by \in Jobs \union {"request", "keeper"}, author' = [author EXCEPT ![j] = by]
    PROVE  JobsTypeOK' /\ QueuesTypeOK' /\ CountsTyped'
<1>1. PICK f \in {"counted", "waiting", "refused"} : fate' = [fate EXCEPT ![j] = f]
  BY TakenUpIs
<1>2. f \in Fates
  BY DEF Fates, Outstanding
<1>3. JobsTypeOK'
  <2>1. place' = [place EXCEPT ![j] = q]
    BY DEF TakenUp
  <2>2. place' \in [Jobs -> Places \union {Nowhere}]
    BY <2>1 DEF JobsTypeOK
  <2>3. fate' \in [Jobs -> Fates]
    BY <1>1, <1>2 DEF JobsTypeOK
  <2>4. author' \in [Jobs -> Jobs \union {"request", "keeper", Nowhere}]
    BY DEF JobsTypeOK
  <2> QED
    BY <2>2, <2>3, <2>4 DEF JobsTypeOK
<1>4. CountsTyped'
  BY PlacesDiffer DEF TakenUp, CountIn, CountsTyped
<1> QED
  BY <1>3, <1>4, TakenUpIs

LEMMA DropIs ==
    ASSUME NEW k \in Kinds, Drop(k), CountsTyped, RestTypeOK
    PROVE  /\ CountsTyped'
           /\ counts' = [counts EXCEPT ![k] = IF counts[k] > 0 THEN counts[k] - 1 ELSE 0]
           /\ \/ settler' = settler
              \/ settler = "asleep" /\ settler' = "awake"
BY DEF Drop, CountsTyped, RestTypeOK

(* The first of a line, which is run, and the rest of it.                  *)
LEMMA FirstOfLine ==
    ASSUME NEW q \in Queues, line[q] # <<>>, QueuesTypeOK, LinesWait
    PROVE  /\ Head(line[q]) \in Jobs /\ Tail(line[q]) \in Seq(Jobs)
           /\ fate[Head(line[q])] = "waiting" /\ place[Head(line[q])] = q
           /\ Lined(Tail(line[q]), q, fate, place)
           /\ \A i \in 1..Len(Tail(line[q])) : Tail(line[q])[i] # Head(line[q])
<1> DEFINE s == line[q]
<1>1. s \in Seq(Jobs) /\ s # <<>>
  BY DEF QueuesTypeOK
<1>2. Head(s) \in Jobs /\ Tail(s) \in Seq(Jobs) /\ Len(Tail(s)) = Len(s) - 1
      /\ \A i \in 1..Len(Tail(s)) : Tail(s)[i] = s[i + 1]
  BY <1>1, HeadTailProperties
<1>3. Head(s) = s[1] /\ Len(s) \in Nat \ {0}
  BY <1>1, EmptySeq
<1>4. Lined(s, q, fate, place)
  BY DEF LinesWait
<1> HIDE DEF s
<1>5. fate[Head(s)] = "waiting" /\ place[Head(s)] = q
  BY <1>3, <1>4 DEF Lined
<1>6. \A i \in 1..Len(Tail(s)) : i + 1 \in 1..Len(s) /\ i + 1 # 1 /\ 1 \in 1..Len(s)
  BY <1>2, <1>3
<1>7. \A i \in 1..Len(Tail(s)) : Tail(s)[i] # Head(s)
  BY <1>2, <1>3, <1>4, <1>6 DEF Lined
<1>8. \A i \in 1..Len(Tail(s)) : fate[Tail(s)[i]] = "waiting" /\ place[Tail(s)[i]] = q
  BY <1>2, <1>4, <1>6 DEF Lined
<1>9. \A i, k \in 1..Len(Tail(s)) : Tail(s)[i] = Tail(s)[k] => i = k
  <2> SUFFICES ASSUME NEW i \in 1..Len(Tail(s)), NEW k \in 1..Len(Tail(s)), Tail(s)[i] = Tail(s)[k]
               PROVE  i = k
    OBVIOUS
  <2>1. i + 1 = k + 1
    BY <1>2, <1>4, <1>6 DEF Lined
  <2> QED
    BY <2>1, <1>2
<1> QED
  BY <1>2, <1>5, <1>7, <1>8, <1>9 DEF Lined, s

(* Who waits in a line that loses its thread.                              *)
LEMMA WaitsInLine ==
    ASSUME NEW q \in Queues, NEW j \in ToSet(line[q]), QueuesTypeOK, LinesWait
    PROVE  j \in Jobs /\ fate[j] = "waiting" /\ place[j] = q
<1>1. line[q] \in Seq(Jobs) /\ DOMAIN line[q] = 1..Len(line[q])
  BY LenProperties DEF QueuesTypeOK
<1>2. PICK i \in 1..Len(line[q]) : j = line[q][i]
  BY <1>1 DEF ToSet
<1> QED
  BY <1>1, <1>2, ElementOfSeq DEF LinesWait, Lined
-----------------------------------------------------------------------------
(* A line keeps while who waits in it waits on, and grows by who did not.  *)
LEMMA LinedStays ==
    ASSUME NEW s \in Seq(Jobs), NEW q, NEW f, NEW p, NEW g, NEW r, Lined(s, q, f, p),
           \A j \in Jobs : f[j] = "waiting" /\ p[j] = q => g[j] = "waiting" /\ r[j] = q
    PROVE  Lined(s, q, g, r)
<1>1. \A i \in 1..Len(s) : s[i] \in Jobs
  BY ElementOfSeq
<1> QED
  BY <1>1 DEF Lined

LEMMA LinedAdds ==
    ASSUME NEW s \in Seq(Jobs), NEW q, NEW f, NEW p, NEW g, NEW r, Lined(s, q, f, p),
           NEW j \in Jobs, f[j] # "waiting", g[j] = "waiting", r[j] = q,
           \A i \in Jobs : f[i] = "waiting" /\ p[i] = q => g[i] = "waiting" /\ r[i] = q
    PROVE  Lined(Append(s, j), q, g, r)
<1> DEFINE t == Append(s, j)
<1>1. Lined(s, q, g, r) /\ \A i \in 1..Len(s) : s[i] # j
  BY LinedStays DEF Lined
<1>2. Len(s) \in Nat /\ Len(t) = Len(s) + 1 /\ t[Len(s) + 1] = j
      /\ \A i \in 1..Len(s) : t[i] = s[i]
  OBVIOUS
<1> HIDE DEF t
<1>3. \A i \in 1..Len(t) : i \in 1..Len(s) \/ i = Len(s) + 1
  BY <1>2
<1> QED
  BY <1>1, <1>2, <1>3 DEF Lined, t

(* What is outstanding at a place, as jobs come and go.                    *)
LEMMA CountsSame ==
    ASSUME place' = place, \A j \in Jobs : fate'[j] \in Outstanding <=> fate[j] \in Outstanding,
           CountsRight, counts' = counts, LookCount' = LookCount
    PROVE  CountsRight'
<1>1. \A k \in Places : OutAt(k)' = OutAt(k)
  BY DEF OutAt
<1> QED
  BY <1>1 DEF CountsRight

LEMMA TakenUpCounts ==
    ASSUME NEW j \in Jobs, NEW q \in Places, TakenUp(j, q), JobsTypeOK, QueuesTypeOK, CountsTyped,
           CountsRight, LookCount' = LookCount
    PROVE  CountsRight'
<1>1. PICK f \in {"counted", "waiting", "refused"} : fate' = [fate EXCEPT ![j] = f]
  BY TakenUpIs
<1>2. f \in Outstanding /\ fate[j] \notin Outstanding /\ place' = [place EXCEPT ![j] = q]
  BY FatesAre DEF TakenUp, Outstanding
<1>3. j \notin OutAt(q) /\ OutAt(q)' = OutAt(q) \union {j}
  BY <1>1, <1>2 DEF OutAt, JobsTypeOK
<1>4. \A k \in Places \ {q} : OutAt(k)' = OutAt(k)
  BY <1>1, <1>2 DEF OutAt, JobsTypeOK
<1>5. /\ counts'[q] = counts[q] + 1 /\ \A k \in Kinds \ {q} : counts'[k] = counts[k]
  BY PlacesDiffer DEF TakenUp, CountIn, CountsTyped
<1>6. IsFiniteSet(OutAt(q)') /\ counts'[q] = Cardinality(OutAt(q)')
  BY <1>3, <1>5, FS_AddElement DEF CountsRight
<1> QED
  BY <1>4, <1>5, <1>6, PlacesDiffer DEF CountsRight

LEMMA EndedCounts ==
    ASSUME NEW j \in Jobs, fate[j] \in Outstanding, place[j] \in Places,
           NEW f, f \notin Outstanding, fate' = [fate EXCEPT ![j] = f], place' = place,
           Drop(place[j]), JobsTypeOK, CountsTyped, RestTypeOK, CountsRight, LookCount' = LookCount
    PROVE  CountsRight'
<1> DEFINE q == place[j]
<1>1. q \in Places /\ j \in OutAt(q) /\ OutAt(q)' = OutAt(q) \ {j}
  BY DEF OutAt, JobsTypeOK
<1>2. \A k \in Places \ {q} : OutAt(k)' = OutAt(k)
  BY DEF OutAt, JobsTypeOK
<1>3. counts' = [counts EXCEPT ![q] = IF counts[q] > 0 THEN counts[q] - 1 ELSE 0]
  BY <1>1, PlacesDiffer, DropIs
<1> HIDE DEF q
<1>4. IsFiniteSet(OutAt(q)) /\ counts[q] = Cardinality(OutAt(q)) /\ counts[q] \in Nat
  BY <1>1, PlacesDiffer DEF CountsRight, CountsTyped
<1>5. IsFiniteSet(OutAt(q) \ {j}) /\ Cardinality(OutAt(q) \ {j}) = counts[q] - 1
  BY <1>1, <1>4, FS_RemoveElement
<1>6. Cardinality(OutAt(q) \ {j}) \in Nat
  BY <1>5, FS_CardinalityType
<1>7. counts'[q] = counts[q] - 1 /\ \A k \in Kinds \ {q} : counts'[k] = counts[k]
  BY <1>1, <1>3, <1>4, <1>5, <1>6, PlacesDiffer DEF CountsTyped
<1>8. IsFiniteSet(OutAt(q) \ {j}) /\ counts'[q] = Cardinality(OutAt(q) \ {j})
  BY <1>5, <1>7
<1>9. \A k \in Places : IsFiniteSet(OutAt(k)') /\ counts'[k] = Cardinality(OutAt(k)')
  BY <1>1, <1>2, <1>7, <1>8, PlacesDiffer DEF CountsRight, q
<1> QED
  BY <1>1, <1>7, <1>9, PlacesDiffer DEF CountsRight

LEMMA LookCounted ==
    ASSUME UNCHANGED <<place, fate>>, CountsTyped, CountsRight,
           NEW n, counts' = [counts EXCEPT ![LookKind] = n], LookCount' = n
    PROVE  CountsRight'
<1>1. \A k \in Places : OutAt(k)' = OutAt(k)
  BY DEF OutAt
<1>2. counts'[LookKind] = n /\ \A k \in Places : counts'[k] = counts[k]
  BY PlacesDiffer DEF CountsTyped
<1> QED
  BY <1>1, <1>2 DEF CountsRight

(* Who runs is among what is outstanding.                                  *)
LEMMA RunningFew ==
    ASSUME NEW q \in Queues, CountsRight
    PROVE  IsFiniteSet(Running(q)) /\ Cardinality(Running(q)) \in Nat
<1>1. Running(q) \in SUBSET OutAt(q)
  BY FatesAre DEF Running, OutAt
<1>2. IsFiniteSet(OutAt(q))
  BY PlacesDiffer DEF CountsRight
<1> QED
  BY <1>1, <1>2, FS_Subset, FS_CardinalityType

LEMMA RunningSame ==
    ASSUME \A j \in Jobs : \A q \in Queues :
             (place'[j] = q /\ fate'[j] = "running") <=> (place[j] = q /\ fate[j] = "running")
    PROVE  \A q \in Queues : Running(q)' = Running(q)
BY DEF Running

LEMMA ThreadsSame ==
    ASSUME \A q \in Queues : Running(q)' = Running(q),
           UNCHANGED <<line, alive, top>>, OneThreadWhileJobsWait
    PROVE  OneThreadWhileJobsWait'
BY DEF OneThreadWhileJobsWait

LEMMA EnqueuedThread ==
    ASSUME NEW j \in Jobs, NEW q \in Queues, Enqueue(j, q), JobsTypeOK, QueuesTypeOK, CountsRight,
           fate[j] # "running", \A i \in Jobs \ {j} : place'[i] = place[i], OneThreadWhileJobsWait
    PROVE  OneThreadWhileJobsWait'
<1>1. PICK f \in {"waiting", "refused"} :
        /\ fate' = [fate EXCEPT ![j] = f]
        /\ line' = IF f = "waiting" THEN [line EXCEPT ![q] = Append(line[q], j)] ELSE line
        /\ \/ alive[q] /\ f = "waiting" /\ UNCHANGED <<alive, top>>
           \/ /\ ~alive[q] /\ f = "waiting" /\ alive' = [alive EXCEPT ![q] = TRUE]
              /\ top' = [top EXCEPT ![q] = top[q] + 1]
           \/ ~alive[q] /\ f = "refused" /\ UNCHANGED <<alive, top>>
  BY EnqueueIs
<1>2. \A r \in Queues : Running(r)' = Running(r)
  BY <1>1 DEF Running, JobsTypeOK
<1>3. \A r \in Queues : Cardinality(Running(r)) \in Nat /\ top[r] \in Nat
  BY RunningFew DEF QueuesTypeOK
<1>4. \A r \in Queues \ {q} : line'[r] = line[r] /\ alive'[r] = alive[r] /\ top'[r] = top[r]
  BY <1>1 DEF QueuesTypeOK
<1>5. \/ alive[q] /\ alive'[q] /\ top'[q] = top[q]
      \/ ~alive[q] /\ alive'[q] /\ top'[q] = top[q] + 1
      \/ ~alive[q] /\ ~alive'[q] /\ top'[q] = top[q] /\ line'[q] = line[q]
  BY <1>1 DEF QueuesTypeOK
<1>6. ASSUME NEW r \in Queues
      PROVE  /\ top'[r] + Cardinality(Running(r)) = IF alive'[r] THEN 1 ELSE 0
             /\ line'[r] # <<>> => alive'[r]
  <2>1. /\ top[r] + Cardinality(Running(r)) = IF alive[r] THEN 1 ELSE 0
        /\ line[r] # <<>> => alive[r]
    BY DEF OneThreadWhileJobsWait
  <2>2. CASE r # q
    BY <1>4, <2>1, <2>2
  <2>3. CASE r = q
    BY <1>3, <1>5, <2>1, <2>3
  <2> QED
    BY <2>2, <2>3
<1> QED
  BY <1>2, <1>6 DEF OneThreadWhileJobsWait

LEMMA EnqueuedLines ==
    ASSUME NEW j \in Jobs, NEW q \in Queues, Enqueue(j, q), JobsTypeOK, QueuesTypeOK,
           fate[j] # "waiting", place'[j] = q, \A i \in Jobs \ {j} : place'[i] = place[i], LinesWait
    PROVE  LinesWait'
<1>1. PICK f \in {"waiting", "refused"} :
        /\ fate' = [fate EXCEPT ![j] = f]
        /\ line' = IF f = "waiting" THEN [line EXCEPT ![q] = Append(line[q], j)] ELSE line
  BY EnqueueIs
<1>2. \A r \in Queues : line[r] \in Seq(Jobs) /\ Lined(line[r], r, fate, place)
  BY DEF LinesWait, QueuesTypeOK
<1>3. \A i \in Jobs : fate[i] = "waiting" => fate'[i] = "waiting" /\ place'[i] = place[i]
  BY <1>1 DEF JobsTypeOK
<1>4. \A r \in Queues : Lined(line[r], r, fate', place')
  BY <1>2, <1>3, LinedStays
<1>5. CASE f = "refused"
  BY <1>1, <1>4, <1>5 DEF LinesWait
<1>6. CASE f = "waiting"
  <2>1. fate'[j] = "waiting"
    BY <1>1, <1>6 DEF JobsTypeOK
  <2>2. Lined(Append(line[q], j), q, fate', place')
    BY <1>2, <1>3, <2>1, LinedAdds
  <2>3. line' = [line EXCEPT ![q] = Append(line[q], j)]
    BY <1>1, <1>6
  <2> QED
    BY <1>4, <2>2, <2>3 DEF LinesWait, QueuesTypeOK
<1> QED
  BY <1>5, <1>6

(* A job taken up, as its queue and its thread see it.                     *)
LEMMA TakenUpThreads ==
    ASSUME NEW j \in Jobs, NEW q \in Places, TakenUp(j, q), JobsTypeOK, QueuesTypeOK, CountsRight,
           OneThreadWhileJobsWait, LinesWait
    PROVE  OneThreadWhileJobsWait' /\ LinesWait'
<1>1. fate[j] = "new" /\ place'[j] = q /\ \A i \in Jobs \ {j} : place'[i] = place[i]
  BY DEF TakenUp, JobsTypeOK
<1>2. CASE q = IndexQueue
  <2>1. q \in Queues /\ Enqueue(j, q)
    BY <1>2, PlacesDiffer DEF TakenUp
  <2> QED
    BY <1>1, <2>1, EnqueuedThread, EnqueuedLines
<1>3. CASE q # IndexQueue
  <2>1. fate' = [fate EXCEPT ![j] = "counted"] /\ UNCHANGED <<line, alive, top>>
    BY <1>3 DEF TakenUp
  <2>2. OneThreadWhileJobsWait'
    <3>1. \A r \in Queues : Running(r)' = Running(r)
      BY <1>1, <2>1 DEF Running, JobsTypeOK
    <3> QED
      BY <3>1, <2>1, ThreadsSame
  <2>3. \A r \in Queues : line[r] \in Seq(Jobs) /\ Lined(line[r], r, fate, place)
    BY DEF LinesWait, QueuesTypeOK
  <2>4. \A i \in Jobs : fate[i] = "waiting" => fate'[i] = "waiting" /\ place'[i] = place[i]
    BY <1>1, <2>1 DEF JobsTypeOK
  <2>5. \A r \in Queues : Lined(line[r], r, fate', place')
    BY <2>3, <2>4, LinedStays
  <2> QED
    BY <2>1, <2>2, <2>5 DEF LinesWait
<1> QED
  BY <1>2, <1>3

(* Every line keeps when no line changes and who waits waits on.           *)
LEMMA LinesSame ==
    ASSUME UNCHANGED <<line, place>>, \A j \in Jobs : fate[j] = "waiting" => fate'[j] = "waiting",
           QueuesTypeOK, LinesWait
    PROVE  LinesWait'
<1>1. \A q \in Queues : line[q] \in Seq(Jobs) /\ Lined(line[q], q, fate, place)
  BY DEF LinesWait, QueuesTypeOK
<1>2. \A q \in Queues : Lined(line[q], q, fate', place')
  BY <1>1, LinedStays
<1> QED
  BY <1>2 DEF LinesWait
-----------------------------------------------------------------------------
(* A thread between two jobs is its queue's only one, and as it ends none  *)
(* runs there.                                                             *)
LEMMA ThreadEnds ==
    ASSUME NEW q \in Queues, top[q] > 0, top' = [top EXCEPT ![q] = top[q] - 1],
           alive' = [alive EXCEPT ![q] = FALSE], line'[q] = <<>>,
           \A r \in Queues \ {q} : line'[r] = line[r], \A r \in Queues : Running(r)' = Running(r),
           QueuesTypeOK, CountsRight, OneThreadWhileJobsWait
    PROVE  OneThreadWhileJobsWait'
<1>1. top[q] \in Nat /\ Cardinality(Running(q)) \in Nat
  BY RunningFew DEF QueuesTypeOK
<1>2. top[q] + Cardinality(Running(q)) = IF alive[q] THEN 1 ELSE 0
  BY DEF OneThreadWhileJobsWait
<1>3. top'[q] = top[q] - 1 /\ ~alive'[q]
  BY DEF QueuesTypeOK
<1>4. top'[q] + Cardinality(Running(q)) = 0
  BY <1>1, <1>2, <1>3
<1>5. \A r \in Queues \ {q} : top'[r] = top[r] /\ alive'[r] = alive[r]
  BY DEF QueuesTypeOK
<1> QED
  BY <1>3, <1>4, <1>5 DEF OneThreadWhileJobsWait

(* When nothing is counted, nothing is outstanding and no look is on.      *)
LEMMA NothingCounted ==
    ASSUME \A k \in Kinds : counts[k] = 0, PlacesRight, CountsRight, RestTypeOK
    PROVE  (\A j \in Jobs : fate[j] \notin Outstanding) /\ look = "none"
<1>1. \A k \in Places : OutAt(k) = {}
  BY PlacesDiffer, FS_EmptySet DEF CountsRight
<1>2. \A j \in Jobs : fate[j] \notin Outstanding
  BY <1>1, FatesAre DEF OutAt, PlacesRight
<1>3. LookCount = 0
  BY PlacesDiffer DEF CountsRight
<1> QED
  BY <1>2, <1>3 DEF LookCount, RestTypeOK
-----------------------------------------------------------------------------

(* Every step keeps the types of the jobs, the queues and the counts.      *)
LEMMA TypesStep ==
    ASSUME SettleInv, SettleNext \/ UNCHANGED settleVars
    PROVE  JobsTypeOK' /\ QueuesTypeOK' /\ CountsTyped'
<1>1. ASSUME NEW j \in Jobs, RequestSubmits(j)
      PROVE  JobsTypeOK' /\ QueuesTypeOK' /\ CountsTyped'
  <2>1. PICK q \in Places : TakenUp(j, q)
    BY <1>1, RequestIsTakenUp
  <2>2. author' = [author EXCEPT ![j] = "request"]
    BY <1>1, RequestIsTakenUp
  <2> QED
    BY <2>1, <2>2, TakenUpTypes DEF SettleInv
<1>2. ASSUME NEW j \in Jobs, WorkSubmits(j)
      PROVE  JobsTypeOK' /\ QueuesTypeOK' /\ CountsTyped'
  <2>1. PICK v \in Jobs : /\ \E q \in Places : TakenUp(j, q)
                        /\ author' = [author EXCEPT ![j] = v]
    BY <1>2, WorkIsTakenUp
  <2>2. PICK q \in Places : TakenUp(j, q)
    BY <2>1
  <2> QED
    BY <2>1, <2>2, TakenUpTypes DEF SettleInv
<1>3. ASSUME NEW j \in Jobs, Push(j)
      PROVE  JobsTypeOK' /\ QueuesTypeOK' /\ CountsTyped'
  <2>1. Enqueue(j, place[j]) /\ place[j] \in Queues /\ UNCHANGED <<place, author, counts>>
    BY <1>3, PlacesDiffer DEF Push
  <2>2. QueuesTypeOK' /\ \E f \in {"waiting", "refused"} : fate' = [fate EXCEPT ![j] = f]
    BY <2>1, EnqueueIs DEF SettleInv
  <2> QED
    BY <2>1, <2>2, FatesAre DEF SettleInv, JobsTypeOK, CountsTyped
<1>4. ASSUME NEW j \in Jobs, StartOwn(j)
      PROVE  JobsTypeOK' /\ QueuesTypeOK' /\ CountsTyped'
  BY <1>4, FatesAre, PlacesDiffer
  DEF StartOwn, SettleInv, JobsTypeOK, QueuesTypeOK, CountsTyped, Fates,
      Outstanding
<1>5. ASSUME NEW j \in Jobs, DropUnrun(j)
      PROVE  JobsTypeOK' /\ QueuesTypeOK' /\ CountsTyped'
  <2>1. place[j] \in Kinds
    BY <1>5, PlacesDiffer DEF DropUnrun, SettleInv, PlacesRight
  <2>2. CountsTyped'
    BY <1>5, <2>1, DropIs DEF DropUnrun, SettleInv
  <2> QED
    BY <1>5, <2>2, FatesAre DEF DropUnrun, SettleInv, JobsTypeOK, QueuesTypeOK
<1>6. ASSUME NEW j \in Jobs, Finish(j)
      PROVE  JobsTypeOK' /\ QueuesTypeOK' /\ CountsTyped'
  <2>1. place[j] \in Kinds
    BY <1>6, PlacesDiffer DEF Finish, SettleInv, PlacesRight
  <2>2. CountsTyped'
    BY <1>6, <2>1, DropIs DEF Finish, SettleInv
  <2> QED
    BY <1>6, <2>2, FatesAre DEF Finish, SettleInv, JobsTypeOK, QueuesTypeOK
<1>7. ASSUME NEW q \in Queues, TakeJob(q)
      PROVE  JobsTypeOK' /\ QueuesTypeOK' /\ CountsTyped'
  <2>1. Head(line[q]) \in Jobs /\ Tail(line[q]) \in Seq(Jobs)
    BY <1>7, FirstOfLine DEF TakeJob, SettleInv
  <2>2. QueuesTypeOK'
    BY <1>7, <2>1 DEF TakeJob, SettleInv, QueuesTypeOK
  <2> QED
    BY <1>7, <2>1, <2>2, FatesAre DEF TakeJob, SettleInv, JobsTypeOK, CountsTyped
<1>8. ASSUME NEW q \in Queues, EndThread(q)
      PROVE  JobsTypeOK' /\ QueuesTypeOK' /\ CountsTyped'
  BY <1>8 DEF EndThread, SettleInv, JobsTypeOK, QueuesTypeOK, CountsTyped
<1>9. ASSUME NEW q \in Queues, Panic(q)
      PROVE  JobsTypeOK' /\ QueuesTypeOK' /\ CountsTyped'
  <2>1. QueuesTypeOK'
    BY <1>9, EmptySeq DEF Panic, SettleInv, QueuesTypeOK
  <2> QED
    BY <1>9, <2>1, FatesAre DEF Panic, SettleInv, JobsTypeOK, CountsTyped
<1>10. CASE BeginLook
  BY <1>10, FatesAre, PlacesDiffer
  DEF BeginLook, CountIn, SettleInv, JobsTypeOK, QueuesTypeOK, CountsTyped,
      Fates, Outstanding
<1>11. CASE Keep
  BY <1>11, FatesAre, PlacesDiffer
  DEF Keep, CountIn, SettleInv, JobsTypeOK, QueuesTypeOK, CountsTyped, Fates,
      Outstanding
<1>12. CASE FindDue
  BY <1>12 DEF FindDue, SettleInv, JobsTypeOK, QueuesTypeOK, CountsTyped
<1>13. CASE Renew
  <2>1. CASE UNCHANGED <<place, author, fate, line, alive, top, counts>>
    BY <2>1 DEF SettleInv, JobsTypeOK, QueuesTypeOK, CountsTyped
  <2>2. CASE \E j \in Jobs : TakenUp(j, IndexQueue) /\ author' = [author EXCEPT ![j] = "keeper"]
    BY <2>2, PlacesDiffer, TakenUpTypes DEF SettleInv
  <2> QED
    BY <1>13, <2>1, <2>2, RenewIs
<1>14. CASE EndLook
  <2>1. CountsTyped'
    BY <1>14, PlacesDiffer, DropIs DEF EndLook, SettleInv
  <2> QED
    BY <1>14, <2>1 DEF EndLook, SettleInv, JobsTypeOK, QueuesTypeOK
<1>15. CASE StopKeeping
  BY <1>15 DEF StopKeeping, SettleInv, JobsTypeOK, QueuesTypeOK, CountsTyped
<1>16. CASE FindIdle
  BY <1>16 DEF FindIdle, SettleInv, JobsTypeOK, QueuesTypeOK, CountsTyped
<1>17. CASE WaitMore
  BY <1>17 DEF WaitMore, SettleInv, JobsTypeOK, QueuesTypeOK, CountsTyped
<1>18. CASE TimeOut
  BY <1>18 DEF TimeOut, SettleInv, JobsTypeOK, QueuesTypeOK, CountsTyped
<1>19. CASE UNCHANGED settleVars
  BY <1>19 DEF settleVars, SettleInv, JobsTypeOK, QueuesTypeOK, CountsTyped
<1> QED
  BY <1>1, <1>2, <1>3, <1>4, <1>5, <1>6, <1>7, <1>8, <1>9, <1>10, <1>11, <1>12,
     <1>13, <1>14, <1>15, <1>16, <1>17, <1>18, <1>19
  DEF SettleNext

(* Every step keeps the types of the look, the settle and the bounds.      *)
LEMMA RestTypeStep ==
    ASSUME SettleInv, SettleNext \/ UNCHANGED settleVars
    PROVE  RestTypeOK'
<1>1. ASSUME NEW j \in Jobs, RequestSubmits(j) PROVE RestTypeOK'
  BY <1>1, RequestIsTakenUp DEF TakenUp, SettleInv, RestTypeOK
<1>2. ASSUME NEW j \in Jobs, WorkSubmits(j) PROVE RestTypeOK'
  BY <1>2, WorkIsTakenUp DEF TakenUp, SettleInv, RestTypeOK
<1>3. ASSUME NEW j \in Jobs, Push(j) PROVE RestTypeOK'
  BY <1>3, MaxPanicsAssumption DEF Push, SettleInv, RestTypeOK
<1>4. ASSUME NEW j \in Jobs, StartOwn(j) PROVE RestTypeOK'
  BY <1>4, MaxPanicsAssumption DEF StartOwn, SettleInv, RestTypeOK
<1>5. ASSUME NEW j \in Jobs, DropUnrun(j) PROVE RestTypeOK'
  BY <1>5 DEF DropUnrun, Drop, SettleInv, RestTypeOK
<1>6. ASSUME NEW j \in Jobs, Finish(j) PROVE RestTypeOK'
  BY <1>6 DEF Finish, Drop, SettleInv, RestTypeOK
<1>7. ASSUME NEW q \in Queues, TakeJob(q) PROVE RestTypeOK'
  BY <1>7, MaxPanicsAssumption DEF TakeJob, SettleInv, RestTypeOK
<1>8. ASSUME NEW q \in Queues, EndThread(q) PROVE RestTypeOK'
  BY <1>8, MaxPanicsAssumption DEF EndThread, SettleInv, RestTypeOK
<1>9. ASSUME NEW q \in Queues, Panic(q) PROVE RestTypeOK'
  BY <1>9, MaxPanicsAssumption DEF Panic, SettleInv, RestTypeOK
<1>10. CASE BeginLook
  BY <1>10, MaxPanicsAssumption DEF BeginLook, CountIn, SettleInv, RestTypeOK
<1>11. CASE Keep
  BY <1>11, MaxPanicsAssumption DEF Keep, CountIn, SettleInv, RestTypeOK
<1>12. CASE FindDue
  BY <1>12, MaxPanicsAssumption DEF FindDue, SettleInv, RestTypeOK
<1>13. CASE Renew
  BY <1>13, RenewIs DEF TakenUp, SettleInv, RestTypeOK
<1>14. CASE EndLook
  BY <1>14 DEF EndLook, Drop, SettleInv, RestTypeOK
<1>15. CASE StopKeeping
  BY <1>15, MaxPanicsAssumption DEF StopKeeping, SettleInv, RestTypeOK
<1>16. CASE FindIdle
  BY <1>16, MaxPanicsAssumption DEF FindIdle, SettleInv, RestTypeOK
<1>17. CASE WaitMore
  BY <1>17, MaxPanicsAssumption DEF WaitMore, SettleInv, RestTypeOK
<1>18. CASE TimeOut
  BY <1>18, MaxPanicsAssumption DEF TimeOut, SettleInv, RestTypeOK
<1>19. CASE UNCHANGED settleVars
  BY <1>19, MaxPanicsAssumption DEF settleVars, SettleInv, RestTypeOK
<1> QED
  BY <1>1, <1>2, <1>3, <1>4, <1>5, <1>6, <1>7, <1>8, <1>9, <1>10, <1>11, <1>12,
     <1>13, <1>14, <1>15, <1>16, <1>17, <1>18, <1>19
  DEF SettleNext

(* The keeper is stopped by the settle, and by nothing else.               *)
LEMMA AskedStopsStep ==
    ASSUME SettleInv, SettleNext \/ UNCHANGED settleVars
    PROVE  AskedStops'
<1>1. ASSUME NEW j \in Jobs, RequestSubmits(j) PROVE AskedStops'
  BY <1>1, RequestIsTakenUp DEF TakenUp, SettleInv, AskedStops
<1>2. ASSUME NEW j \in Jobs, WorkSubmits(j) PROVE AskedStops'
  BY <1>2, WorkIsTakenUp DEF TakenUp, SettleInv, AskedStops
<1>3. ASSUME NEW j \in Jobs, Push(j) PROVE AskedStops'
  BY <1>3 DEF Push, SettleInv, AskedStops, RestTypeOK
<1>4. ASSUME NEW j \in Jobs, StartOwn(j) PROVE AskedStops'
  BY <1>4 DEF StartOwn, SettleInv, AskedStops, RestTypeOK
<1>5. ASSUME NEW j \in Jobs, DropUnrun(j) PROVE AskedStops'
  BY <1>5 DEF DropUnrun, Drop, SettleInv, AskedStops
<1>6. ASSUME NEW j \in Jobs, Finish(j) PROVE AskedStops'
  BY <1>6 DEF Finish, Drop, SettleInv, AskedStops
<1>7. ASSUME NEW q \in Queues, TakeJob(q) PROVE AskedStops'
  BY <1>7 DEF TakeJob, SettleInv, AskedStops, RestTypeOK
<1>8. ASSUME NEW q \in Queues, EndThread(q) PROVE AskedStops'
  BY <1>8 DEF EndThread, SettleInv, AskedStops, RestTypeOK
<1>9. ASSUME NEW q \in Queues, Panic(q) PROVE AskedStops'
  BY <1>9 DEF Panic, SettleInv, AskedStops, RestTypeOK
<1>10. CASE BeginLook
  BY <1>10 DEF BeginLook, CountIn, SettleInv, AskedStops, RestTypeOK
<1>11. CASE Keep
  BY <1>11 DEF Keep, CountIn, SettleInv, AskedStops, RestTypeOK
<1>12. CASE FindDue
  BY <1>12 DEF FindDue, SettleInv, AskedStops, RestTypeOK
<1>13. CASE Renew
  BY <1>13, RenewIs DEF TakenUp, SettleInv, AskedStops
<1>14. CASE EndLook
  BY <1>14 DEF EndLook, Drop, SettleInv, AskedStops
<1>15. CASE StopKeeping
  BY <1>15 DEF StopKeeping, SettleInv, AskedStops, RestTypeOK
<1>16. CASE FindIdle
  BY <1>16 DEF FindIdle, SettleInv, AskedStops, RestTypeOK
<1>17. CASE WaitMore
  BY <1>17 DEF WaitMore, SettleInv, AskedStops, RestTypeOK
<1>18. CASE TimeOut
  BY <1>18 DEF TimeOut, SettleInv, AskedStops, RestTypeOK
<1>19. CASE UNCHANGED settleVars
  BY <1>19 DEF settleVars, SettleInv, AskedStops, RestTypeOK
<1> QED
  BY <1>1, <1>2, <1>3, <1>4, <1>5, <1>6, <1>7, <1>8, <1>9, <1>10, <1>11, <1>12,
     <1>13, <1>14, <1>15, <1>16, <1>17, <1>18, <1>19
  DEF SettleNext

LEMMA TakenUpPlaces ==
    ASSUME NEW j \in Jobs, NEW q \in Places, TakenUp(j, q), JobsTypeOK, QueuesTypeOK, PlacesRight
    PROVE  PlacesRight'
<1>1. PICK f \in {"counted", "waiting", "refused"} :
        fate' = [fate EXCEPT ![j] = f] /\ (q = IndexQueue => f # "counted")
  BY TakenUpIs
<1> QED
  BY <1>1, TakenUpIs DEF PlacesRight, JobsTypeOK

(* Every job taken up keeps its place.                                     *)
LEMMA PlacesStep ==
    ASSUME SettleInv, SettleNext \/ UNCHANGED settleVars
    PROVE  PlacesRight'
<1>1. ASSUME NEW j \in Jobs, RequestSubmits(j) PROVE PlacesRight'
  <2>1. PICK q \in Places : TakenUp(j, q)
    BY <1>1, RequestIsTakenUp
  <2> QED
    BY <2>1, TakenUpPlaces DEF SettleInv
<1>2. ASSUME NEW j \in Jobs, WorkSubmits(j) PROVE PlacesRight'
  <2>1. PICK q \in Places : TakenUp(j, q)
    BY <1>2, WorkIsTakenUp
  <2> QED
    BY <2>1, TakenUpPlaces DEF SettleInv
<1>3. ASSUME NEW j \in Jobs, Push(j) PROVE PlacesRight'
  <2>1. Enqueue(j, place[j]) /\ place[j] \in Queues /\ fate[j] = "counted" /\ UNCHANGED place
    BY <1>3, PlacesDiffer DEF Push
  <2>2. \E f \in {"waiting", "refused"} : fate' = [fate EXCEPT ![j] = f]
    BY <2>1, EnqueueIs DEF SettleInv
  <2> QED
    BY <2>1, <2>2 DEF SettleInv, PlacesRight, JobsTypeOK
<1>4. ASSUME NEW j \in Jobs, StartOwn(j) PROVE PlacesRight'
  BY <1>4 DEF StartOwn, SettleInv, PlacesRight, JobsTypeOK
<1>5. ASSUME NEW j \in Jobs, DropUnrun(j) PROVE PlacesRight'
  BY <1>5 DEF DropUnrun, SettleInv, PlacesRight, JobsTypeOK
<1>6. ASSUME NEW j \in Jobs, Finish(j) PROVE PlacesRight'
  BY <1>6 DEF Finish, SettleInv, PlacesRight, JobsTypeOK
<1>7. ASSUME NEW q \in Queues, TakeJob(q) PROVE PlacesRight'
  <2>1. Head(line[q]) \in Jobs /\ fate[Head(line[q])] = "waiting"
    BY <1>7, FirstOfLine DEF TakeJob, SettleInv
  <2> QED
    BY <1>7, <2>1 DEF TakeJob, SettleInv, PlacesRight, JobsTypeOK
<1>8. ASSUME NEW q \in Queues, EndThread(q) PROVE PlacesRight'
  BY <1>8 DEF EndThread, SettleInv, PlacesRight, JobsTypeOK
<1>9. ASSUME NEW q \in Queues, Panic(q) PROVE PlacesRight'
  <2>1. \A j \in ToSet(line[q]) : fate[j] = "waiting"
    BY WaitsInLine DEF SettleInv
  <2> QED
    BY <1>9, <2>1 DEF Panic, SettleInv, PlacesRight, JobsTypeOK
<1>10. CASE BeginLook
  BY <1>10 DEF BeginLook, CountIn, SettleInv, PlacesRight, JobsTypeOK
<1>11. CASE Keep
  BY <1>11 DEF Keep, CountIn, SettleInv, PlacesRight, JobsTypeOK
<1>12. CASE FindDue
  BY <1>12 DEF FindDue, SettleInv, PlacesRight, JobsTypeOK
<1>13. CASE Renew
  <2>1. CASE UNCHANGED <<place, fate>>
    BY <2>1 DEF SettleInv, PlacesRight
  <2>2. CASE \E j \in Jobs : TakenUp(j, IndexQueue)
    BY <2>2, PlacesDiffer, TakenUpPlaces DEF SettleInv
  <2> QED
    BY <1>13, <2>1, <2>2, RenewIs
<1>14. CASE EndLook
  BY <1>14 DEF EndLook, SettleInv, PlacesRight, JobsTypeOK
<1>15. CASE StopKeeping
  BY <1>15 DEF StopKeeping, SettleInv, PlacesRight, JobsTypeOK
<1>16. CASE FindIdle
  BY <1>16 DEF FindIdle, SettleInv, PlacesRight, JobsTypeOK
<1>17. CASE WaitMore
  BY <1>17 DEF WaitMore, SettleInv, PlacesRight, JobsTypeOK
<1>18. CASE TimeOut
  BY <1>18 DEF TimeOut, SettleInv, PlacesRight, JobsTypeOK
<1>19. CASE UNCHANGED settleVars
  BY <1>19 DEF settleVars, SettleInv, PlacesRight, JobsTypeOK
<1> QED
  BY <1>1, <1>2, <1>3, <1>4, <1>5, <1>6, <1>7, <1>8, <1>9, <1>10, <1>11, <1>12,
     <1>13, <1>14, <1>15, <1>16, <1>17, <1>18, <1>19
  DEF SettleNext

(* The counts count what is outstanding, in every step.                    *)
LEMMA CountsStep ==
    ASSUME SettleInv, SettleNext \/ UNCHANGED settleVars
    PROVE  CountsRight'
<1>1. ASSUME NEW j \in Jobs, RequestSubmits(j) PROVE CountsRight'
  <2>1. PICK q \in Places : TakenUp(j, q)
    BY <1>1, RequestIsTakenUp
  <2>2. LookCount' = LookCount
    BY <1>1, RequestIsTakenUp DEF LookCount
  <2> QED
    BY <2>1, <2>2, TakenUpCounts DEF SettleInv
<1>2. ASSUME NEW j \in Jobs, WorkSubmits(j) PROVE CountsRight'
  <2>1. PICK q \in Places : TakenUp(j, q)
    BY <1>2, WorkIsTakenUp
  <2>2. LookCount' = LookCount
    BY <1>2, WorkIsTakenUp DEF LookCount
  <2> QED
    BY <2>1, <2>2, TakenUpCounts DEF SettleInv
<1>3. ASSUME NEW j \in Jobs, Push(j) PROVE CountsRight'
  <2>1. Enqueue(j, place[j]) /\ place[j] \in Queues /\ fate[j] = "counted" /\ UNCHANGED <<place, counts, look>>
    BY <1>3, PlacesDiffer DEF Push
  <2>2. PICK f \in {"waiting", "refused"} : fate' = [fate EXCEPT ![j] = f]
    BY <2>1, EnqueueIs DEF SettleInv
  <2>3. f \in Outstanding /\ fate[j] \in Outstanding
    BY <2>1, FatesAre
  <2>4. \A i \in Jobs : fate'[i] \in Outstanding <=> fate[i] \in Outstanding
    BY <2>2, <2>3 DEF SettleInv, JobsTypeOK
  <2> QED
    BY <2>1, <2>4, CountsSame DEF SettleInv, LookCount
<1>4. ASSUME NEW j \in Jobs, StartOwn(j) PROVE CountsRight'
  <2>1. UNCHANGED <<place, counts, look>>
    BY <1>4 DEF StartOwn
  <2>2. \A i \in Jobs : fate'[i] \in Outstanding <=> fate[i] \in Outstanding
    BY <1>4, FatesAre DEF StartOwn, SettleInv, JobsTypeOK
  <2> QED
    BY <2>1, <2>2, CountsSame DEF SettleInv, LookCount
<1>5. ASSUME NEW j \in Jobs, DropUnrun(j) PROVE CountsRight'
  <2>1. fate[j] \in Outstanding /\ place[j] \in Places /\ fate' = [fate EXCEPT ![j] = "dropped"]
    BY <1>5, FatesAre DEF DropUnrun, SettleInv, PlacesRight
  <2>2. Drop(place[j]) /\ UNCHANGED <<place, look>>
    BY <1>5 DEF DropUnrun
  <2> QED
    BY <2>1, <2>2, FatesAre, EndedCounts DEF SettleInv, LookCount
<1>6. ASSUME NEW j \in Jobs, Finish(j) PROVE CountsRight'
  <2>1. fate[j] \in Outstanding /\ place[j] \in Places /\ fate' = [fate EXCEPT ![j] = "ran"]
    BY <1>6, FatesAre DEF Finish, SettleInv, PlacesRight
  <2>2. Drop(place[j]) /\ UNCHANGED <<place, look>>
    BY <1>6 DEF Finish
  <2> QED
    BY <2>1, <2>2, FatesAre, EndedCounts DEF SettleInv, LookCount
<1>7. ASSUME NEW q \in Queues, TakeJob(q) PROVE CountsRight'
  <2>1. Head(line[q]) \in Jobs /\ fate[Head(line[q])] = "waiting"
    BY <1>7, FirstOfLine DEF TakeJob, SettleInv
  <2>2. UNCHANGED <<place, counts, look>> /\ fate' = [fate EXCEPT ![Head(line[q])] = "running"]
    BY <1>7 DEF TakeJob
  <2>3. \A i \in Jobs : fate'[i] \in Outstanding <=> fate[i] \in Outstanding
    BY <2>1, <2>2, FatesAre DEF SettleInv, JobsTypeOK
  <2> QED
    BY <2>2, <2>3, CountsSame DEF SettleInv, LookCount
<1>8. ASSUME NEW q \in Queues, EndThread(q) PROVE CountsRight'
  BY <1>8, CountsSame DEF EndThread, SettleInv, LookCount
<1>9. ASSUME NEW q \in Queues, Panic(q) PROVE CountsRight'
  <2>1. \A j \in ToSet(line[q]) : fate[j] = "waiting"
    BY WaitsInLine DEF SettleInv
  <2>2. UNCHANGED <<place, counts, look>>
    BY <1>9 DEF Panic
  <2>3. \A i \in Jobs : fate'[i] \in Outstanding <=> fate[i] \in Outstanding
    BY <1>9, <2>1, FatesAre DEF Panic
  <2> QED
    BY <2>2, <2>3, CountsSame DEF SettleInv, LookCount
<1>10. CASE BeginLook
  <2>1. LookCount' = LookCount + 1 /\ counts' = [counts EXCEPT ![LookKind] = counts[LookKind] + 1]
    BY <1>10 DEF BeginLook, CountIn, LookCount
  <2>2. counts[LookKind] = LookCount /\ UNCHANGED <<place, fate>>
    BY <1>10 DEF BeginLook, SettleInv, CountsRight
  <2> QED
    BY <2>1, <2>2, LookCounted DEF SettleInv
<1>11. CASE Keep
  <2>1. LookCount' = LookCount + 1 /\ counts' = [counts EXCEPT ![LookKind] = counts[LookKind] + 1]
    BY <1>11 DEF Keep, CountIn, LookCount
  <2>2. counts[LookKind] = LookCount /\ UNCHANGED <<place, fate>>
    BY <1>11 DEF Keep, SettleInv, CountsRight
  <2> QED
    BY <2>1, <2>2, LookCounted DEF SettleInv
<1>12. CASE FindDue
  BY <1>12, CountsSame DEF FindDue, SettleInv, LookCount
<1>13. CASE Renew
  <2>1. LookCount' = LookCount
    BY <1>13, RenewIs DEF LookCount
  <2>2. CASE UNCHANGED <<place, fate, counts>>
    BY <2>1, <2>2, CountsSame DEF SettleInv
  <2>3. CASE \E j \in Jobs : TakenUp(j, IndexQueue)
    BY <2>1, <2>3, PlacesDiffer, TakenUpCounts DEF SettleInv
  <2> QED
    BY <1>13, <2>2, <2>3, RenewIs
<1>14. CASE EndLook
  <2>1. LookCount' = LookCount - 1 /\ LookCount \in 1..2
    BY <1>14 DEF EndLook, LookCount
  <2>2. counts[LookKind] = LookCount /\ UNCHANGED <<place, fate>>
    BY <1>14 DEF EndLook, SettleInv, CountsRight
  <2>3. counts' = [counts EXCEPT ![LookKind] = counts[LookKind] - 1]
    BY <1>14, <2>1, <2>2, PlacesDiffer, DropIs DEF EndLook, SettleInv
  <2> QED
    BY <2>1, <2>2, <2>3, LookCounted DEF SettleInv
<1>15. CASE StopKeeping
  BY <1>15, CountsSame DEF StopKeeping, SettleInv, LookCount
<1>16. CASE FindIdle
  BY <1>16, CountsSame DEF FindIdle, SettleInv, LookCount
<1>17. CASE WaitMore
  BY <1>17, CountsSame DEF WaitMore, SettleInv, LookCount
<1>18. CASE TimeOut
  BY <1>18, CountsSame DEF TimeOut, SettleInv, LookCount
<1>19. CASE UNCHANGED settleVars
  BY <1>19, CountsSame DEF settleVars, SettleInv, LookCount
<1> QED
  BY <1>1, <1>2, <1>3, <1>4, <1>5, <1>6, <1>7, <1>8, <1>9, <1>10, <1>11, <1>12,
     <1>13, <1>14, <1>15, <1>16, <1>17, <1>18, <1>19
  DEF SettleNext

(* Every step leaves a queue its one thread while jobs wait, and the lines *)
(* right.                                                                  *)
LEMMA ThreadsStep ==
    ASSUME SettleInv, SettleNext \/ UNCHANGED settleVars
    PROVE  OneThreadWhileJobsWait' /\ LinesWait'
<1>1. ASSUME NEW j \in Jobs, RequestSubmits(j)
      PROVE  OneThreadWhileJobsWait' /\ LinesWait'
  <2>1. PICK q \in Places : TakenUp(j, q)
    BY <1>1, RequestIsTakenUp
  <2> QED
    BY <2>1, TakenUpThreads DEF SettleInv
<1>2. ASSUME NEW j \in Jobs, WorkSubmits(j) PROVE OneThreadWhileJobsWait' /\ LinesWait'
  <2>1. PICK q \in Places : TakenUp(j, q)
    BY <1>2, WorkIsTakenUp
  <2> QED
    BY <2>1, TakenUpThreads DEF SettleInv
<1>3. ASSUME NEW j \in Jobs, Push(j) PROVE OneThreadWhileJobsWait' /\ LinesWait'
  <2>1. Enqueue(j, place[j]) /\ place[j] \in Queues /\ fate[j] = "counted" /\ UNCHANGED place
    BY <1>3, PlacesDiffer DEF Push
  <2> QED
    BY <2>1, EnqueuedThread, EnqueuedLines DEF SettleInv
<1>4. ASSUME NEW j \in Jobs, StartOwn(j) PROVE OneThreadWhileJobsWait' /\ LinesWait'
  <2>1. fate[j] = "counted" /\ place[j] \notin Queues /\ UNCHANGED <<place, line, alive, top>>
    BY <1>4, PlacesDiffer DEF StartOwn
  <2>2. \A i \in Jobs \ {j} : fate'[i] = fate[i]
    BY <1>4 DEF StartOwn, SettleInv, JobsTypeOK
  <2>3. \A r \in Queues : Running(r)' = Running(r)
    BY <2>1, <2>2 DEF Running
  <2> QED
    BY <2>1, <2>2, <2>3, ThreadsSame, LinesSame DEF SettleInv
<1>5. ASSUME NEW j \in Jobs, DropUnrun(j) PROVE OneThreadWhileJobsWait' /\ LinesWait'
  <2>1. fate[j] \in {"refused", "doomed"} /\ UNCHANGED <<place, line, alive, top>>
    BY <1>5 DEF DropUnrun
  <2>2. fate' = [fate EXCEPT ![j] = "dropped"]
    BY <1>5 DEF DropUnrun
  <2>3. \A r \in Queues : Running(r)' = Running(r)
    BY <2>1, <2>2 DEF Running, SettleInv, JobsTypeOK
  <2>4. \A i \in Jobs : fate[i] = "waiting" => fate'[i] = "waiting"
    BY <2>1, <2>2 DEF SettleInv, JobsTypeOK
  <2> QED
    BY <2>1, <2>3, <2>4, ThreadsSame, LinesSame DEF SettleInv
<1>6. ASSUME NEW j \in Jobs, Finish(j) PROVE OneThreadWhileJobsWait' /\ LinesWait'
  <2>1. fate[j] = "running" /\ fate' = [fate EXCEPT ![j] = "ran"] /\ UNCHANGED <<place, line, alive>>
    BY <1>6 DEF Finish
  <2>2. LinesWait'
    <3>1. \A i \in Jobs : fate[i] = "waiting" => fate'[i] = "waiting"
      BY <2>1 DEF SettleInv, JobsTypeOK
    <3> QED
      BY <2>1, <3>1, LinesSame DEF SettleInv
  <2>3. \A r \in Queues : Running(r)' = Running(r) \ {j}
    BY <2>1 DEF Running, SettleInv, JobsTypeOK
  <2>4. \A r \in Queues : j \in Running(r) <=> place[j] = r
    BY <2>1 DEF Running
  <2>5. ASSUME NEW r \in Queues
        PROVE  /\ top'[r] + Cardinality(Running(r) \ {j}) = IF alive[r] THEN 1 ELSE 0
               /\ line[r] # <<>> => alive[r]
    <3>1. /\ IsFiniteSet(Running(r)) /\ Cardinality(Running(r)) \in Nat
          /\ top[r] \in Nat
          /\ top[r] + Cardinality(Running(r)) = IF alive[r] THEN 1 ELSE 0
          /\ line[r] # <<>> => alive[r]
      BY RunningFew DEF SettleInv, QueuesTypeOK, OneThreadWhileJobsWait
    <3>2. CASE place[j] = r
      <4>1. Cardinality(Running(r) \ {j}) = Cardinality(Running(r)) - 1
        BY <2>4, <3>1, <3>2, FS_RemoveElement
      <4>2. top'[r] = top[r] + 1
        BY <1>6, <3>2 DEF Finish, SettleInv, QueuesTypeOK
      <4> QED
        BY <3>1, <4>1, <4>2
    <3>3. CASE place[j] # r
      <4>1. Running(r) \ {j} = Running(r)
        BY <2>4, <3>3
      <4>2. top'[r] = top[r]
        BY <1>6, <3>3 DEF Finish, SettleInv, QueuesTypeOK
      <4> QED
        BY <3>1, <4>1, <4>2
    <3> QED
      BY <3>2, <3>3
  <2>6. OneThreadWhileJobsWait'
    BY <2>1, <2>3, <2>5 DEF OneThreadWhileJobsWait
  <2> QED
    BY <2>2, <2>6
<1>7. ASSUME NEW q \in Queues, TakeJob(q) PROVE OneThreadWhileJobsWait' /\ LinesWait'
  <2> DEFINE j == Head(line[q])
  <2>1. /\ j \in Jobs /\ Tail(line[q]) \in Seq(Jobs) /\ fate[j] = "waiting" /\ place[j] = q
        /\ Lined(Tail(line[q]), q, fate, place)
        /\ \A i \in 1..Len(Tail(line[q])) : Tail(line[q])[i] # j
    BY <1>7, FirstOfLine DEF TakeJob, SettleInv
  <2>2. /\ top[q] > 0 /\ line[q] # <<>> /\ UNCHANGED <<place, alive>>
        /\ fate' = [fate EXCEPT ![j] = "running"] /\ top' = [top EXCEPT ![q] = top[q] - 1]
        /\ line' = [line EXCEPT ![q] = Tail(line[q])]
    BY <1>7 DEF TakeJob
  <2> HIDE DEF j
  <2>3. LinesWait'
    <3>1. Lined(Tail(line[q]), q, fate', place')
      BY <2>1, <2>2 DEF Lined, SettleInv, JobsTypeOK
    <3>2. \A r \in Queues : line[r] \in Seq(Jobs) /\ Lined(line[r], r, fate, place)
      BY DEF SettleInv, LinesWait, QueuesTypeOK
    <3>3. \A r \in Queues \ {q} : \A i \in Jobs :
            fate[i] = "waiting" /\ place[i] = r => fate'[i] = "waiting" /\ place'[i] = r
      BY <2>1, <2>2 DEF SettleInv, JobsTypeOK
    <3>4. \A r \in Queues \ {q} : Lined(line[r], r, fate', place')
      BY <3>2, <3>3, LinedStays
    <3> QED
      BY <2>2, <3>1, <3>4 DEF LinesWait, SettleInv, QueuesTypeOK
  <2>4. /\ Running(q)' = Running(q) \union {j} /\ j \notin Running(q)
        /\ \A r \in Queues \ {q} : Running(r)' = Running(r)
    BY <2>1, <2>2 DEF Running, SettleInv, JobsTypeOK
  <2>5. /\ IsFiniteSet(Running(q)) /\ Cardinality(Running(q)) \in Nat /\ top[q] \in Nat
        /\ top[q] + Cardinality(Running(q)) = IF alive[q] THEN 1 ELSE 0
        /\ line[q] # <<>> => alive[q]
    BY RunningFew DEF SettleInv, QueuesTypeOK, OneThreadWhileJobsWait
  <2>6. Cardinality(Running(q) \union {j}) = Cardinality(Running(q)) + 1
    BY <2>4, <2>5, FS_AddElement
  <2>7. top'[q] = top[q] - 1
    BY <2>2 DEF SettleInv, QueuesTypeOK
  <2>8. alive[q] /\ top'[q] + Cardinality(Running(q) \union {j}) = 1
    BY <2>2, <2>5, <2>6, <2>7
  <2>9. \A r \in Queues \ {q} : top'[r] = top[r] /\ line'[r] = line[r]
    BY <2>2 DEF SettleInv, QueuesTypeOK
  <2>10. OneThreadWhileJobsWait'
    BY ZenonT(60), <2>2, <2>4, <2>8, <2>9 DEF OneThreadWhileJobsWait, SettleInv
  <2> QED
    BY <2>3, <2>10
<1>8. ASSUME NEW q \in Queues, EndThread(q) PROVE OneThreadWhileJobsWait' /\ LinesWait'
  <2>1. \A r \in Queues : Running(r)' = Running(r)
    BY <1>8 DEF EndThread, Running
  <2>2. LinesWait'
    BY <1>8, LinesSame DEF EndThread, SettleInv
  <2> QED
    BY <1>8, <2>1, <2>2, ThreadEnds DEF EndThread, SettleInv, QueuesTypeOK
<1>9. ASSUME NEW q \in Queues, Panic(q) PROVE OneThreadWhileJobsWait' /\ LinesWait'
  <2>1. \A j \in ToSet(line[q]) : fate[j] = "waiting" /\ place[j] = q
    BY WaitsInLine DEF SettleInv
  <2>2. \A r \in Queues : Running(r)' = Running(r)
    BY <1>9, <2>1 DEF Panic, Running
  <2>3. line' = [line EXCEPT ![q] = <<>>] /\ place' = place
    BY <1>9 DEF Panic
  <2>4. \A r \in Queues \ {q} : \A i \in Jobs :
          fate[i] = "waiting" /\ place[i] = r => fate'[i] = "waiting" /\ place'[i] = r
    BY <1>9, <2>1 DEF Panic
  <2>5. \A r \in Queues : line[r] \in Seq(Jobs) /\ Lined(line[r], r, fate, place)
    BY DEF SettleInv, LinesWait, QueuesTypeOK
  <2>6. \A r \in Queues \ {q} : Lined(line[r], r, fate', place')
    BY <2>4, <2>5, LinedStays
  <2>7. Lined(<<>>, q, fate', place')
    BY DEF Lined
  <2>8. LinesWait'
    BY <2>3, <2>6, <2>7 DEF LinesWait, SettleInv, QueuesTypeOK
  <2> QED
    BY <1>9, <2>2, <2>3, <2>8, ThreadEnds DEF Panic, SettleInv, QueuesTypeOK
<1>10. CASE BeginLook
  BY <1>10, RunningSame, ThreadsSame, LinesSame DEF BeginLook, SettleInv
<1>11. CASE Keep
  BY <1>11, RunningSame, ThreadsSame, LinesSame DEF Keep, SettleInv
<1>12. CASE FindDue
  BY <1>12, RunningSame, ThreadsSame, LinesSame DEF FindDue, SettleInv
<1>13. CASE Renew
  <2>1. CASE UNCHANGED <<place, fate, line, alive, top>>
    BY <2>1, RunningSame, ThreadsSame, LinesSame DEF SettleInv
  <2>2. CASE \E j \in Jobs : TakenUp(j, IndexQueue)
    BY <2>2, PlacesDiffer, TakenUpThreads DEF SettleInv
  <2> QED
    BY <1>13, <2>1, <2>2, RenewIs
<1>14. CASE EndLook
  BY <1>14, RunningSame, ThreadsSame, LinesSame DEF EndLook, SettleInv
<1>15. CASE StopKeeping
  BY <1>15, RunningSame, ThreadsSame, LinesSame DEF StopKeeping, SettleInv
<1>16. CASE FindIdle
  BY <1>16, RunningSame, ThreadsSame, LinesSame DEF FindIdle, SettleInv
<1>17. CASE WaitMore
  BY <1>17, RunningSame, ThreadsSame, LinesSame DEF WaitMore, SettleInv
<1>18. CASE TimeOut
  BY <1>18, RunningSame, ThreadsSame, LinesSame DEF TimeOut, SettleInv
<1>19. CASE UNCHANGED settleVars
  BY <1>19, RunningSame, ThreadsSame, LinesSame DEF settleVars, SettleInv
<1> QED
  BY <1>1, <1>2, <1>3, <1>4, <1>5, <1>6, <1>7, <1>8, <1>9, <1>10, <1>11, <1>12,
     <1>13, <1>14, <1>15, <1>16, <1>17, <1>18, <1>19
  DEF SettleNext

(* Once settled, all is quiet until a request queues more.                 *)
LEMMA QuietStep ==
    ASSUME SettleInv, SettleNext \/ UNCHANGED settleVars
    PROVE  QuietOnceSettled'
<1>1. ASSUME NEW j \in Jobs, RequestSubmits(j) PROVE QuietOnceSettled'
  BY <1>1, RequestIsTakenUp DEF TakenUp, QuietOnceSettled
<1>2. ASSUME NEW j \in Jobs, WorkSubmits(j) PROVE QuietOnceSettled'
  BY <1>2, WorkIsTakenUp, FatesAre DEF TakenUp, SettleInv, QuietOnceSettled
<1>3. ASSUME NEW j \in Jobs, Push(j) PROVE QuietOnceSettled'
  BY <1>3, FatesAre DEF Push, SettleInv, QuietOnceSettled
<1>4. ASSUME NEW j \in Jobs, StartOwn(j) PROVE QuietOnceSettled'
  BY <1>4, FatesAre DEF StartOwn, SettleInv, QuietOnceSettled
<1>5. ASSUME NEW j \in Jobs, DropUnrun(j) PROVE QuietOnceSettled'
  <2>1. (settler' = "settled" => settler = "settled") /\ calm' = calm /\ fate[j] \in Outstanding
    BY <1>5, FatesAre DEF DropUnrun, Drop
  <2> QED
    BY <2>1 DEF SettleInv, QuietOnceSettled
<1>6. ASSUME NEW j \in Jobs, Finish(j) PROVE QuietOnceSettled'
  <2>1. (settler' = "settled" => settler = "settled") /\ calm' = calm /\ fate[j] \in Outstanding
    BY <1>6, FatesAre DEF Finish, Drop
  <2> QED
    BY <2>1 DEF SettleInv, QuietOnceSettled
<1>7. ASSUME NEW q \in Queues, TakeJob(q) PROVE QuietOnceSettled'
  <2>1. Head(line[q]) \in Jobs /\ fate[Head(line[q])] \in Outstanding
    BY <1>7, FirstOfLine, FatesAre DEF TakeJob, SettleInv
  <2> QED
    BY <1>7, <2>1 DEF TakeJob, SettleInv, QuietOnceSettled
<1>8. ASSUME NEW q \in Queues, EndThread(q) PROVE QuietOnceSettled'
  BY <1>8, FatesAre DEF EndThread, SettleInv, QuietOnceSettled
<1>9. ASSUME NEW q \in Queues, Panic(q) PROVE QuietOnceSettled'
  <2>1. \A j \in ToSet(line[q]) : fate[j] \in Outstanding
    BY WaitsInLine, FatesAre DEF SettleInv
  <2> QED
    BY <1>9, <2>1 DEF Panic, SettleInv, QuietOnceSettled
<1>10. CASE BeginLook
  BY <1>10, FatesAre DEF BeginLook, SettleInv, QuietOnceSettled
<1>11. CASE Keep
  BY <1>11, FatesAre DEF Keep, SettleInv, QuietOnceSettled
<1>12. CASE FindDue
  BY <1>12, FatesAre DEF FindDue, SettleInv, QuietOnceSettled
<1>13. CASE Renew
  <2>1. look # "none" /\ settler' = settler /\ calm' = calm
    BY <1>13, RenewIs DEF TakenUp
  <2> QED
    BY <2>1 DEF SettleInv, QuietOnceSettled
<1>14. CASE EndLook
  <2>1. (settler' = "settled" => settler = "settled") /\ calm' = calm /\ look # "none"
    BY <1>14 DEF EndLook, Drop
  <2> QED
    BY <2>1 DEF SettleInv, QuietOnceSettled
<1>15. CASE StopKeeping
  BY <1>15, FatesAre DEF StopKeeping, SettleInv, QuietOnceSettled
<1>16. CASE FindIdle
  <2>1. settler = "awake" /\ UNCHANGED <<fate, look, stopped>>
    BY <1>16 DEF FindIdle
  <2> QED
    BY <1>16, <2>1, NothingCounted DEF FindIdle, SettleInv, AskedStops, QuietOnceSettled
<1>17. CASE WaitMore
  BY <1>17, FatesAre DEF WaitMore, SettleInv, QuietOnceSettled
<1>18. CASE TimeOut
  BY <1>18, FatesAre DEF TimeOut, SettleInv, QuietOnceSettled
<1>19. CASE UNCHANGED settleVars
  BY <1>19 DEF settleVars, SettleInv, QuietOnceSettled
<1> QED
  BY <1>1, <1>2, <1>3, <1>4, <1>5, <1>6, <1>7, <1>8, <1>9, <1>10, <1>11, <1>12,
     <1>13, <1>14, <1>15, <1>16, <1>17, <1>18, <1>19
  DEF SettleNext

-----------------------------------------------------------------------------
(* The invariant holds from the start and in every step.                   *)
LEMMA SettleInitially == SettleInit => SettleInv
<1> SUFFICES ASSUME SettleInit PROVE SettleInv
  OBVIOUS
<1>1. JobsTypeOK
  BY FatesAre DEF SettleInit, JobsTypeOK
<1>2. QueuesTypeOK
  BY EmptySeq DEF SettleInit, QueuesTypeOK
<1>3. CountsTyped /\ RestTypeOK /\ AskedStops /\ QuietOnceSettled
  <2>1. CountsTyped
    BY DEF SettleInit, CountsTyped
  <2>2. RestTypeOK
    <3>1. panics \in 0..MaxPanics
      BY MaxPanicsAssumption DEF SettleInit
    <3> QED
      BY <3>1, Zenon DEF SettleInit, RestTypeOK
  <2>3. AskedStops /\ QuietOnceSettled
    BY DEF SettleInit, AskedStops, QuietOnceSettled
  <2> QED
    BY <2>1, <2>2, <2>3
<1>4. PlacesRight
  BY PlacesAssumption, PlacesDiffer DEF SettleInit, PlacesRight
<1>5. CountsRight
  <2>1. \A k \in Places : OutAt(k) = {}
    BY FatesAre DEF SettleInit, OutAt
  <2> QED
    BY <2>1, PlacesDiffer, FS_EmptySet DEF SettleInit, CountsRight, LookCount
<1>6. LinesWait
  BY DEF SettleInit, LinesWait, Lined
<1>7. OneThreadWhileJobsWait
  <2>1. \A q \in Queues : Running(q) = {}
    BY DEF SettleInit, Running
  <2>2. \A q \in Queues : top[q] = 0 /\ alive[q] = FALSE /\ line[q] = <<>>
    BY DEF SettleInit
  <2>3. \A q \in Queues : Cardinality(Running(q)) = 0
    BY <2>1, FS_EmptySet
  <2> QED
    BY <2>2, <2>3 DEF OneThreadWhileJobsWait
<1> QED
  BY <1>1, <1>2, <1>3, <1>4, <1>5, <1>6, <1>7 DEF SettleInv

LEMMA SettleStepKeeps == SettleInv /\ [SettleNext]_settleVars => SettleInv'
<1> SUFFICES ASSUME SettleInv, SettleNext \/ UNCHANGED settleVars PROVE SettleInv'
  OBVIOUS
<1> QED
  BY TypesStep, RestTypeStep, AskedStopsStep, PlacesStep, CountsStep, ThreadsStep, QuietStep DEF SettleInv

(* The inductive invariant of the background work holds in every behaviour.*)
THEOREM SettleInvariant == SettleSpec => []SettleInv
<1>1. SettleInit => SettleInv
  BY SettleInitially
<1>2. SettleInv /\ [SettleNext]_settleVars => SettleInv'
  BY SettleStepKeeps
<1> QED
  BY <1>1, <1>2, PTL DEF SettleSpec

(* The types are parts of the invariant.                                   *)
LEMMA SettleTyped == SettleInv => SettleTypeOK
BY DEF SettleInv, JobsTypeOK, QueuesTypeOK, CountsTyped, RestTypeOK, SettleTypeOK

(* The state keeps its types (serial.rs 18-24, activity.rs 21-27).         *)
THEOREM SettleTypeCorrect == SettleSpec => []SettleTypeOK
BY SettleTyped, SettleInvariant, PTL

(* A queue runs one job at a time, on one thread, and jobs wait only for a *)
(* thread that lives (serial.rs 14-15, 41-43): for every number of queues, *)
(* jobs and panics.                                                        *)
THEOREM AlwaysOneThreadWhileJobsWait == SettleSpec => []OneThreadWhileJobsWait
<1>1. SettleInv => OneThreadWhileJobsWait
  BY DEF SettleInv
<1> QED
  BY <1>1, SettleInvariant, PTL

(* Once settled, and while no request queues more, nothing is at work for  *)
(* good (activity.rs 7-12).                                                *)
THEOREM AlwaysQuietOnceSettled == SettleSpec => []QuietOnceSettled
<1>1. SettleInv => QuietOnceSettled
  BY DEF SettleInv
<1> QED
  BY <1>1, SettleInvariant, PTL
-----------------------------------------------------------------------------
(* The promise's state, as Settle maps it.                                 *)
OutNow == {j \in Jobs : fate[j] \in Outstanding} \union (IF look = "none" THEN {} ELSE {LookKind})
DoneNow == {j \in Jobs : fate[j] \in {"ran", "dropped"}}
AnswerNow == CASE settler = "uncalled" -> "unasked"
               [] settler \in {"awake", "asleep"} -> "asked"
               [] OTHER -> settler

(* Each of the promise's steps, told by what it does to that state.        *)
LEMMA StepTakesUp ==
    ASSUME NEW w \in Jobs, w \notin OutNow, w \notin DoneNow,
           OutNow' = OutNow \union {w}, DoneNow' = DoneNow, AnswerNow' = AnswerNow
    PROVE  Promised!Next
<1>1. Promised!TakeUp(w)
  BY DEF Promised!TakeUp, OutNow, DoneNow, AnswerNow
<1> QED
  BY <1>1, PlacesDiffer DEF Promised!Next

LEMMA StepBeginsLook ==
    ASSUME LookKind \notin OutNow, AnswerNow = "unasked",
           OutNow' = OutNow \union {LookKind}, DoneNow' = DoneNow, AnswerNow' = AnswerNow
    PROVE  Promised!Next
<1>1. LookKind \notin DoneNow
  BY PlacesDiffer DEF DoneNow
<1>2. Promised!BeginLook
  BY <1>1 DEF Promised!BeginLook, Promised!TakeUp, OutNow, DoneNow, AnswerNow
<1> QED
  BY <1>2 DEF Promised!Next

LEMMA StepEnds ==
    ASSUME NEW w \in Jobs \union {LookKind}, w \in OutNow,
           OutNow' = OutNow \ {w}, DoneNow' = DoneNow \union ({w} \ {LookKind}), AnswerNow' = AnswerNow
    PROVE  Promised!Next
<1>1. Promised!End(w)
  BY DEF Promised!End, OutNow, DoneNow, AnswerNow
<1> QED
  BY <1>1 DEF Promised!Next

LEMMA StepAnswers ==
    ASSUME OutNow' = OutNow, DoneNow' = DoneNow,
           \/ AnswerNow = "unasked" /\ AnswerNow' = "asked"
           \/ AnswerNow = "asked" /\ AnswerNow' = "settled" /\ OutNow = {}
           \/ AnswerNow = "asked" /\ AnswerNow' = "busy" /\ OutNow # {}
    PROVE  Promised!Next
<1>1. CASE AnswerNow = "unasked" /\ AnswerNow' = "asked"
  <2>1. Promised!Ask
    BY <1>1 DEF Promised!Ask, OutNow, DoneNow, AnswerNow
  <2> QED
    BY <2>1 DEF Promised!Next
<1>2. CASE AnswerNow = "asked" /\ AnswerNow' = "settled" /\ OutNow = {}
  <2>1. Promised!Settle
    BY <1>2 DEF Promised!Settle, OutNow, DoneNow, AnswerNow
  <2> QED
    BY <2>1 DEF Promised!Next
<1>3. CASE AnswerNow = "asked" /\ AnswerNow' = "busy" /\ OutNow # {}
  <2>1. Promised!GiveUp
    BY <1>3 DEF Promised!GiveUp, OutNow, DoneNow, AnswerNow
  <2> QED
    BY <2>1 DEF Promised!Next
<1> QED
  BY <1>1, <1>2, <1>3

LEMMA StepStutters ==
    ASSUME OutNow' = OutNow, DoneNow' = DoneNow, AnswerNow' = AnswerNow
    PROVE  UNCHANGED Promised!vars
BY DEF Promised!vars, OutNow, DoneNow, AnswerNow

(* What a step leaves of the promise's state.                              *)
LEMMA WorkUnseen ==
    ASSUME \A j \in Jobs : /\ fate'[j] \in Outstanding <=> fate[j] \in Outstanding
                           /\ fate'[j] \in {"ran", "dropped"} <=> fate[j] \in {"ran", "dropped"},
           look' = "none" <=> look = "none"
    PROVE  OutNow' = OutNow /\ DoneNow' = DoneNow
BY DEF OutNow, DoneNow

LEMMA TakenUpSeen ==
    ASSUME NEW j \in Jobs, NEW q \in Places, TakenUp(j, q), JobsTypeOK, QueuesTypeOK,
           look' = "none" <=> look = "none"
    PROVE  Promised!Next
<1>1. PICK f \in {"counted", "waiting", "refused"} : fate' = [fate EXCEPT ![j] = f]
  BY TakenUpIs
<1>2. fate[j] = "new" /\ settler' = settler
  BY DEF TakenUp
<1>3. j \notin OutNow /\ j \notin DoneNow
  BY <1>2, FatesAre, PlacesDiffer DEF OutNow, DoneNow
<1>4. OutNow' = OutNow \union {j}
  BY <1>1, FatesAre DEF OutNow, JobsTypeOK
<1>5. DoneNow' = DoneNow
  BY <1>1, <1>2 DEF DoneNow, JobsTypeOK
<1>6. AnswerNow' = AnswerNow
  BY <1>2 DEF AnswerNow
<1> QED
  BY <1>3, <1>4, <1>5, <1>6, StepTakesUp

LEMMA EndSeen ==
    ASSUME NEW j \in Jobs, fate[j] \in Outstanding, NEW f \in {"ran", "dropped"},
           fate' = [fate EXCEPT ![j] = f], look' = look, Drop(place[j]), JobsTypeOK
    PROVE  Promised!Next
<1>1. j \in OutNow
  BY DEF OutNow
<1>2. OutNow' = OutNow \ {j}
  BY FatesAre, PlacesDiffer DEF OutNow, JobsTypeOK
<1>3. DoneNow' = DoneNow \union ({j} \ {LookKind})
  BY PlacesDiffer DEF DoneNow, JobsTypeOK
<1>4. AnswerNow' = AnswerNow
  BY DEF Drop, AnswerNow
<1> QED
  BY <1>1, <1>2, <1>3, <1>4, StepEnds

(* While something is counted, something is outstanding.                   *)
LEMMA CountedIsOutstanding ==
    ASSUME NEW k \in Kinds, counts[k] > 0, CountsRight
    PROVE  OutNow # {}
<1>1. CASE k = LookKind
  BY <1>1 DEF CountsRight, LookCount, OutNow
<1>2. CASE k \in Places
  <2>1. OutAt(k) # {}
    BY <1>2, FS_EmptySet DEF CountsRight
  <2> QED
    BY <2>1 DEF OutAt, OutNow
<1> QED
  BY <1>1, <1>2, PlacesDiffer

(* Every step is a step of the promise, or leaves its state as it is.      *)
LEMMA StepAsPromised ==
    ASSUME SettleInv, SettleNext \/ UNCHANGED settleVars
    PROVE  [Promised!Next]_(Promised!vars)
<1>1. ASSUME NEW j \in Jobs, RequestSubmits(j) PROVE [Promised!Next]_(Promised!vars)
  <2>1. PICK q \in Places : TakenUp(j, q)
    BY <1>1, RequestIsTakenUp
  <2> QED
    BY <1>1, <2>1, RequestIsTakenUp, TakenUpSeen DEF SettleInv
<1>2. ASSUME NEW j \in Jobs, WorkSubmits(j) PROVE [Promised!Next]_(Promised!vars)
  <2>1. PICK q \in Places : TakenUp(j, q)
    BY <1>2, WorkIsTakenUp
  <2> QED
    BY <1>2, <2>1, WorkIsTakenUp, TakenUpSeen DEF SettleInv
<1>3. ASSUME NEW j \in Jobs, Push(j) PROVE [Promised!Next]_(Promised!vars)
  <2>1. Enqueue(j, place[j]) /\ place[j] \in Queues /\ fate[j] = "counted" /\ UNCHANGED <<look, settler>>
    BY <1>3, PlacesDiffer DEF Push
  <2>2. PICK f \in {"waiting", "refused"} : fate' = [fate EXCEPT ![j] = f]
    BY <2>1, EnqueueIs DEF SettleInv
  <2>3. OutNow' = OutNow /\ DoneNow' = DoneNow
    BY <2>1, <2>2, FatesAre, WorkUnseen DEF SettleInv, JobsTypeOK
  <2>4. AnswerNow' = AnswerNow
    BY <2>1 DEF AnswerNow
  <2> QED
    BY <2>3, <2>4, StepStutters
<1>4. ASSUME NEW j \in Jobs, StartOwn(j) PROVE [Promised!Next]_(Promised!vars)
  <2>1. AnswerNow' = AnswerNow
    BY <1>4 DEF StartOwn, AnswerNow
  <2>2. OutNow' = OutNow /\ DoneNow' = DoneNow
    BY <1>4, WorkUnseen, FatesAre DEF StartOwn, SettleInv, JobsTypeOK
  <2> QED
    BY <2>1, <2>2, StepStutters
<1>5. ASSUME NEW j \in Jobs, DropUnrun(j) PROVE [Promised!Next]_(Promised!vars)
  <2>1. fate[j] \in Outstanding /\ fate' = [fate EXCEPT ![j] = "dropped"] /\ look' = look /\ Drop(place[j])
    BY <1>5, FatesAre DEF DropUnrun
  <2> QED
    BY <2>1, EndSeen DEF SettleInv
<1>6. ASSUME NEW j \in Jobs, Finish(j) PROVE [Promised!Next]_(Promised!vars)
  <2>1. fate[j] \in Outstanding /\ fate' = [fate EXCEPT ![j] = "ran"] /\ look' = look /\ Drop(place[j])
    BY <1>6, FatesAre DEF Finish
  <2> QED
    BY <2>1, EndSeen DEF SettleInv
<1>7. ASSUME NEW q \in Queues, TakeJob(q) PROVE [Promised!Next]_(Promised!vars)
  <2>1. Head(line[q]) \in Jobs /\ fate[Head(line[q])] = "waiting"
    BY <1>7, FirstOfLine DEF TakeJob, SettleInv
  <2>2. UNCHANGED <<look, settler>> /\ fate' = [fate EXCEPT ![Head(line[q])] = "running"]
    BY <1>7 DEF TakeJob
  <2>3. OutNow' = OutNow /\ DoneNow' = DoneNow
    BY <2>1, <2>2, FatesAre, WorkUnseen DEF SettleInv, JobsTypeOK
  <2>4. AnswerNow' = AnswerNow
    BY <2>2 DEF AnswerNow
  <2> QED
    BY <2>3, <2>4, StepStutters
<1>8. ASSUME NEW q \in Queues, EndThread(q) PROVE [Promised!Next]_(Promised!vars)
  <2>1. AnswerNow' = AnswerNow
    BY <1>8 DEF EndThread, AnswerNow
  <2>2. OutNow' = OutNow /\ DoneNow' = DoneNow
    BY <1>8, WorkUnseen DEF EndThread
  <2> QED
    BY <2>1, <2>2, StepStutters
<1>9. ASSUME NEW q \in Queues, Panic(q) PROVE [Promised!Next]_(Promised!vars)
  <2>1. \A j \in ToSet(line[q]) : fate[j] = "waiting"
    BY WaitsInLine DEF SettleInv
  <2>2. OutNow' = OutNow /\ DoneNow' = DoneNow
    BY <1>9, <2>1, FatesAre, WorkUnseen DEF Panic
  <2>3. AnswerNow' = AnswerNow
    BY <1>9 DEF Panic, AnswerNow
  <2> QED
    BY <2>2, <2>3, StepStutters
<1>10. CASE BeginLook
  <2>1. LookKind \notin OutNow /\ OutNow' = OutNow \union {LookKind} /\ DoneNow' = DoneNow
    BY <1>10, PlacesDiffer DEF BeginLook, OutNow, DoneNow
  <2>2. AnswerNow = "unasked" /\ AnswerNow' = AnswerNow
    BY <1>10 DEF BeginLook, SettleInv, AskedStops, AnswerNow
  <2> QED
    BY <2>1, <2>2, StepBeginsLook
<1>11. CASE Keep
  <2>1. AnswerNow' = AnswerNow
    BY <1>11 DEF Keep, AnswerNow
  <2>2. OutNow' = OutNow /\ DoneNow' = DoneNow
    BY <1>11, WorkUnseen DEF Keep
  <2> QED
    BY <2>1, <2>2, StepStutters
<1>12. CASE FindDue
  <2>1. AnswerNow' = AnswerNow
    BY <1>12 DEF FindDue, AnswerNow
  <2>2. OutNow' = OutNow /\ DoneNow' = DoneNow
    BY <1>12, WorkUnseen DEF FindDue
  <2> QED
    BY <2>1, <2>2, StepStutters
<1>13. CASE Renew
  <2>1. look' = "none" <=> look = "none"
    BY <1>13, RenewIs
  <2>2. CASE UNCHANGED <<fate, settler>>
    BY <2>1, <2>2, WorkUnseen, StepStutters DEF AnswerNow
  <2>3. CASE \E j \in Jobs : TakenUp(j, IndexQueue)
    BY <2>1, <2>3, PlacesDiffer, TakenUpSeen DEF SettleInv
  <2> QED
    BY <1>13, <2>2, <2>3, RenewIs
<1>14. CASE EndLook
  <2>1. AnswerNow' = AnswerNow /\ fate' = fate
    BY <1>14 DEF EndLook, Drop, AnswerNow
  <2>2. CASE look' # "none"
    <3>1. OutNow' = OutNow /\ DoneNow' = DoneNow
      BY <1>14, <2>1, <2>2, WorkUnseen DEF EndLook
    <3> QED
      BY <2>1, <3>1, StepStutters
  <2>3. CASE look' = "none"
    <3>1. LookKind \in OutNow /\ OutNow' = OutNow \ {LookKind}
      BY <1>14, <2>1, <2>3, PlacesDiffer DEF EndLook, OutNow
    <3>2. DoneNow' = DoneNow \union ({LookKind} \ {LookKind})
      BY <2>1 DEF DoneNow
    <3> QED
      BY <2>1, <3>1, <3>2, StepEnds
  <2> QED
    BY <2>2, <2>3
<1>15. CASE StopKeeping
  <2>1. OutNow' = OutNow /\ DoneNow' = DoneNow
    BY <1>15, WorkUnseen DEF StopKeeping
  <2>2. AnswerNow = "unasked" /\ AnswerNow' = "asked"
    BY <1>15 DEF StopKeeping, AnswerNow
  <2> QED
    BY <2>1, <2>2, StepAnswers
<1>16. CASE FindIdle
  <2>1. OutNow' = OutNow /\ DoneNow' = DoneNow
    BY <1>16, WorkUnseen DEF FindIdle
  <2>2. AnswerNow = "asked" /\ AnswerNow' = "settled"
    BY <1>16 DEF FindIdle, AnswerNow
  <2>3. OutNow = {}
    BY <1>16, NothingCounted DEF FindIdle, SettleInv, OutNow
  <2> QED
    BY <2>1, <2>2, <2>3, StepAnswers
<1>17. CASE WaitMore
  <2>1. OutNow' = OutNow /\ DoneNow' = DoneNow
    BY <1>17, WorkUnseen DEF WaitMore
  <2>2. CASE settler' = "asleep"
    BY <1>17, <2>1, <2>2, StepStutters DEF WaitMore, AnswerNow
  <2>3. CASE settler' = "busy"
    <3>1. AnswerNow = "asked" /\ AnswerNow' = "busy"
      BY <1>17, <2>3 DEF WaitMore, AnswerNow
    <3>2. OutNow # {}
      BY <1>17, CountedIsOutstanding DEF WaitMore, SettleInv
    <3> QED
      BY <2>1, <3>1, <3>2, StepAnswers
  <2> QED
    BY <1>17, <2>2, <2>3 DEF WaitMore
<1>18. CASE TimeOut
  <2>1. AnswerNow' = AnswerNow
    BY <1>18 DEF TimeOut, AnswerNow
  <2>2. OutNow' = OutNow /\ DoneNow' = DoneNow
    BY <1>18, WorkUnseen DEF TimeOut
  <2> QED
    BY <2>1, <2>2, StepStutters
<1>19. CASE UNCHANGED settleVars
  <2>1. AnswerNow' = AnswerNow
    BY <1>19 DEF settleVars, AnswerNow
  <2>2. OutNow' = OutNow /\ DoneNow' = DoneNow
    BY <1>19, WorkUnseen DEF settleVars
  <2> QED
    BY <2>1, <2>2, StepStutters
<1> QED
  BY <1>1, <1>2, <1>3, <1>4, <1>5, <1>6, <1>7, <1>8, <1>9, <1>10, <1>11, <1>12,
     <1>13, <1>14, <1>15, <1>16, <1>17, <1>18, <1>19
  DEF SettleNext

(* The safety part of the promise: its first state and its steps.          *)
SafelyAsPromised == Promised!Init /\ [][Promised!Next]_(Promised!vars)

(* The background work starts as promised and takes the promise's steps    *)
(* only: a look begins only before the settle was asked for, and it        *)
(* answers "settled" only when nothing is outstanding. (That work ends and *)
(* a settle is answered, the promise's fairness, the run checks.)          *)
THEOREM SettleStepsAsPromised == SettleSpec => SafelyAsPromised
<1>1. SettleInit => Promised!Init
  BY FatesAre DEF SettleInit, Promised!Init
<1>2. SettleInv /\ [SettleNext]_settleVars => [Promised!Next]_(Promised!vars)
  BY StepAsPromised
<1> QED
  BY <1>1, <1>2, SettleInvariant, PTL DEF SettleSpec, SafelyAsPromised

=============================================================================
