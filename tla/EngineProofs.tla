----------------------------- MODULE EngineProofs -----------------------------
(***************************************************************************)
(* What holds of Engine for all requests, engines and bounds: its types,   *)
(* that a best move is told for the position it was searched for, and that *)
(* a process searches only for the analysis that holds its slot.           *)
(***************************************************************************)
EXTENDS Engine, SequenceTheorems, TLAPS
-----------------------------------------------------------------------------
(* Analyses and warm-ups are apart, and nobody is neither.                 *)
LEMMA UserKinds ==
    /\ Analyses \subseteq Users /\ WarmUps \subseteq Users /\ Nobody \notin Users
    /\ \A w \in WarmUps : w \notin Analyses
    /\ \A u \in Users : u \in Analyses \/ u \in WarmUps
    /\ \A a \in Analyses : ViewOf[a] \in Views
BY EngineUsersAssumption DEF Users

(* Lines and commands are told apart by their first word.                  *)
Info == <<"info">>
Best(a) == <<"bestmove", a>>

(* The words of lines and commands.                                        *)
LEMMA Words ==
    ASSUME NEW a
    PROVE  /\ Info[1] = "info" /\ Best(a)[1] = "bestmove" /\ Best(a)[2] = a
           /\ <<"readyok">>[1] = "readyok" /\ <<"isready">>[1] = "isready" /\ <<"stop">>[1] = "stop"
           /\ <<"go", a>>[1] = "go" /\ <<"go", a>>[2] = a
           /\ Info \in Lines /\ <<"readyok">> \in Lines /\ <<"isready">> \in Commands /\ <<"stop">> \in Commands
           /\ a \in Analyses => Best(a) \in Lines /\ <<"go", a>> \in Commands
BY DEF Info, Best, Lines, Commands

(* What lines and commands there are.                                      *)
LEMMA PipeKinds ==
    /\ \A l \in Lines : l[1] \in {"readyok", "info", "bestmove"} /\ (l[1] = "bestmove" => l[2] \in Analyses)
    /\ \A c \in Commands : c[1] \in {"isready", "stop", "go"} /\ (c[1] = "go" => c[2] \in Analyses)
BY DEF Lines, Commands

(* The first words of the two lines of a search.                          *)
LEMMA InfoWord == Info[1] = "info"
BY DEF Info

LEMMA BestWord == \A a : Best(a)[1] = "bestmove" /\ Best(a)[2] = a
BY DEF Best

(* The commands that wait are one or two.                                  *)
LEMMA PipeFacts ==
    ASSUME NEW S, NEW c \in S, NEW d \in S
    PROVE  /\ <<c>> # <<>> /\ Head(<<c>>) = c /\ Tail(<<c>>) = <<>>
           /\ <<c, d>> # <<>> /\ Head(<<c, d>>) = c /\ Tail(<<c, d>>) = <<d>>
           /\ Append(<<>>, c) = <<c>> /\ Append(<<c>>, d) = <<c, d>>
<1>1. <<c>> # <<>> /\ Head(<<c>>) = c /\ Tail(<<c>>) = <<>>
  OBVIOUS
<1>2. <<c, d>> # <<>> /\ Head(<<c, d>>) = c
  OBVIOUS
<1>3. Tail(<<c, d>>) = <<d>>
  OBVIOUS
<1>4. Append(<<>>, c) = <<c>>
  OBVIOUS
<1>5. Append(<<c>>, d) = <<c, d>>
  <2>1. /\ Append(<<c>>, d) \in Seq(S) /\ Len(Append(<<c>>, d)) = 2
        /\ Append(<<c>>, d)[1] = c /\ Append(<<c>>, d)[2] = d
    BY <<c>> \in Seq(S), Len(<<c>>) = 1
  <2>2. <<c, d>> \in Seq(S) /\ Len(<<c, d>>) = 2 /\ <<c, d>>[1] = c /\ <<c, d>>[2] = d
    OBVIOUS
  <2>3. \A i \in 1..2 : Append(<<c>>, d)[i] = <<c, d>>[i]
    BY <2>1, <2>2
  <2> QED
    BY <2>1, <2>2, <2>3, SeqEqual
<1> QED
  BY <1>1, <1>2, <1>3, <1>4, <1>5

(* The lines of a search: what it tells on its way, and its best move.     *)
OnlyInfo(s) == \A i \in 1..Len(s) : s[i] = Info
InfoThenBest(s, a) == Len(s) > 0 /\ s[Len(s)] = Best(a) /\ \A i \in 1..(Len(s) - 1) : s[i] = Info

(* A search that goes on, and one that ends, keep the form of their lines. *)
LEMMA InfoSaid ==
    ASSUME NEW S, NEW s \in Seq(S), OnlyInfo(s), NEW a, Info \in S, Best(a) \in S
    PROVE  OnlyInfo(Append(s, Info)) /\ InfoThenBest(Append(s, Best(a)), a)
<1>1. Len(s) \in Nat
  OBVIOUS
<1>2. ASSUME NEW x \in S
      PROVE  /\ Len(Append(s, x)) = Len(s) + 1 /\ Append(s, x)[Len(s) + 1] = x
             /\ \A i \in 1..Len(s) : Append(s, x)[i] = s[i]
  OBVIOUS
<1>3. OnlyInfo(Append(s, Info))
  BY <1>1, <1>2 DEF OnlyInfo
<1>4. InfoThenBest(Append(s, Best(a)), a)
  <2>1. \A i \in 1..(Len(Append(s, Best(a))) - 1) : Append(s, Best(a))[i] = Info
    BY <1>1, <1>2 DEF OnlyInfo
  <2> QED
    BY <1>1, <1>2, <2>1 DEF InfoThenBest
<1> QED
  BY <1>3, <1>4

LEMMA InfoHeard ==
    ASSUME NEW S, NEW s \in Seq(S), OnlyInfo(s), s # <<>>
    PROVE  Head(s) = Info /\ OnlyInfo(Tail(s))
BY DEF OnlyInfo

LEMMA BestHeard ==
    ASSUME NEW S, NEW s \in Seq(S), NEW a, InfoThenBest(s, a)
    PROVE  \/ Head(s) = Best(a) /\ Tail(s) = <<>>
           \/ Head(s) = Info /\ InfoThenBest(Tail(s), a)
<1>1. CASE Len(s) = 1
  <2>1. Tail(s) \in Seq(S) /\ Len(Tail(s)) = 0 /\ Head(s) = s[1]
    BY <1>1
  <2> QED
    BY <1>1, <2>1, EmptySeq DEF InfoThenBest
<1>2. CASE Len(s) > 1
  <2>1. Len(s) \in Nat /\ Len(s) > 1
    BY <1>2
  <2>2. Head(s) = Info
    BY <2>1 DEF InfoThenBest
  <2>3. Len(Tail(s)) = Len(s) - 1 /\ \A i \in 1..(Len(s) - 1) : Tail(s)[i] = s[i + 1]
    BY <2>1
  <2>4. Tail(s)[Len(s) - 1] = s[Len(s)]
    BY <2>1, <2>3
  <2>5. \A i \in 1..(Len(s) - 2) : i \in 1..(Len(s) - 1) /\ i + 1 \in 1..(Len(s) - 1)
    BY <2>1
  <2>6. \A i \in 1..(Len(s) - 2) : Tail(s)[i] = Info
    BY <2>3, <2>5 DEF InfoThenBest
  <2>7. Len(s) - 1 > 0 /\ (Len(s) - 1) - 1 = Len(s) - 2
    BY <2>1
  <2> QED
    BY <2>2, <2>3, <2>4, <2>6, <2>7 DEF InfoThenBest
<1>3. Len(s) = 1 \/ Len(s) > 1
  <2>1. Len(s) \in Nat /\ Len(s) > 0
    BY DEF InfoThenBest
  <2>2. \A n \in Nat : n > 0 => n = 1 \/ n > 1
    OBVIOUS
  <2> QED
    BY <2>1, <2>2
<1> QED
  BY <1>1, <1>2, <1>3
-----------------------------------------------------------------------------
(* The types, part by part.                                                *)
CountsTypeOK ==
    /\ configured \in 0..MaxEngines /\ turn \in [Engines -> Nat]
    /\ newest \in [Engines -> Views \union {Nobody}] /\ holder \in [Engines -> Users \union {Nobody}]
    /\ upsets \in 0..MaxUpsets
UserStates == [pc : Pcs, eng : 0..MaxEngines, ticket : Nat,
               gone : BOOLEAN, said : Said, best : Analyses \union {Nobody}]
UsersTypeOK == user \in [Users -> UserStates]

(* A request that goes on keeps what it knows.                             *)
LEMMA StateGoes ==
    ASSUME NEW r \in UserStates, NEW pc \in Pcs
    PROVE  /\ [r EXCEPT !.pc = pc] \in UserStates
           /\ [r EXCEPT !.pc = pc].pc = pc
           /\ [r EXCEPT !.pc = pc].eng = r.eng /\ [r EXCEPT !.pc = pc].said = r.said
           /\ [r EXCEPT !.pc = pc].best = r.best /\ [r EXCEPT !.pc = pc].ticket = r.ticket
BY DEF UserStates

LEMMA GoesIs ==
    ASSUME UsersTypeOK, NEW u \in Users, NEW pc \in Pcs, Goes(u, pc)
    PROVE  /\ UsersTypeOK'
           /\ user'[u].pc = pc /\ user'[u].eng = user[u].eng /\ user'[u].said = user[u].said
           /\ user'[u].best = user[u].best
           /\ \A v \in Users : v # u => user'[v] = user[v]
<1>1. user' = [user EXCEPT ![u] = [user[u] EXCEPT !.pc = pc]]
  BY DEF Goes, UsersTypeOK
<1>2. user[u] \in UserStates
  BY DEF UsersTypeOK
<1> QED
  BY <1>1, <1>2, StateGoes DEF UsersTypeOK

(* A request that is over knows nothing more than what it was told.        *)
LEMMA StateOver ==
    ASSUME NEW r \in UserStates, NEW said \in Said
    PROVE  /\ [r EXCEPT !.pc = "over", !.said = said] \in UserStates
           /\ [r EXCEPT !.pc = "over", !.said = said].pc = "over"
           /\ [r EXCEPT !.pc = "over", !.said = said].eng = r.eng
           /\ [r EXCEPT !.pc = "over", !.said = said].said = said
           /\ [r EXCEPT !.pc = "over", !.said = said].best = r.best
BY DEF UserStates, Pcs

LEMMA UnaskedIs ==
    /\ Unasked \in UserStates /\ Unasked.eng = 0 /\ Unasked.best = Nobody
    /\ Unasked.pc = "unasked" /\ Unasked.said = "nothing"
BY EngineBoundsAssumption DEF Unasked, UserStates, Pcs, Said

LEMMA OverIs ==
    ASSUME UsersTypeOK, NEW u \in Users, NEW said \in Said, Over(u, said)
    PROVE  /\ UsersTypeOK'
           /\ user'[u].pc = "over" /\ user'[u].eng = 0 /\ user'[u].said = said
           /\ user'[u].best = Nobody
           /\ \A v \in Users : v # u => user'[v] = user[v]
<1>1. user' = [user EXCEPT ![u] = [Unasked EXCEPT !.pc = "over", !.said = said]]
  BY DEF Over
<1> QED
  BY <1>1, UnaskedIs, StateOver DEF UsersTypeOK

(* What the requests do that is more than a step of their own.             *)
LEMMA BeginIs ==
    ASSUME UsersTypeOK, CountsTypeOK, NEW u \in Users, NEW pc \in Pcs, configured # 0,
           \/ user' = [user EXCEPT ![u].pc = pc, ![u].eng = configured]
           \/ user' = [user EXCEPT ![u].eng = configured, ![u].pc = pc]
    PROVE  /\ UsersTypeOK' /\ configured \in Engines
           /\ user'[u].pc = pc /\ user'[u].eng = configured
           /\ user'[u].said = user[u].said /\ user'[u].best = user[u].best
           /\ \A v \in Users : v # u => user'[v] = user[v]
<1> DEFINE r == [user[u] EXCEPT !.pc = pc, !.eng = configured]
<1>1. user[u] \in UserStates
  BY DEF UsersTypeOK
<1>2. user' = [user EXCEPT ![u] = r]
  BY <1>1 DEF UsersTypeOK, UserStates
<1>3. /\ r \in UserStates /\ r.pc = pc /\ r.eng = configured
      /\ r.said = user[u].said /\ r.best = user[u].best
  BY <1>1 DEF UserStates, CountsTypeOK
<1>4. configured \in Engines
  BY EngineBoundsAssumption DEF CountsTypeOK, Engines
<1> HIDE DEF r
<1> QED
  BY <1>2, <1>3, <1>4 DEF UsersTypeOK

LEMMA TicketIs ==
    ASSUME UsersTypeOK, NEW u \in Users, NEW n \in Nat,
           user' = [user EXCEPT ![u].pc = "waiting", ![u].ticket = n]
    PROVE  /\ UsersTypeOK'
           /\ user'[u].pc = "waiting" /\ user'[u].eng = user[u].eng
           /\ user'[u].said = user[u].said /\ user'[u].best = user[u].best
           /\ \A v \in Users : v # u => user'[v] = user[v]
<1> DEFINE r == [user[u] EXCEPT !.pc = "waiting", !.ticket = n]
<1>1. user[u] \in UserStates
  BY DEF UsersTypeOK
<1>2. user' = [user EXCEPT ![u] = r]
  BY <1>1 DEF UsersTypeOK, UserStates
<1>3. /\ r \in UserStates /\ r.pc = "waiting" /\ r.eng = user[u].eng
      /\ r.said = user[u].said /\ r.best = user[u].best
  BY <1>1 DEF UserStates, Pcs
<1> HIDE DEF r
<1> QED
  BY <1>2, <1>3 DEF UsersTypeOK

LEMMA GoneIs ==
    ASSUME UsersTypeOK, NEW u \in Users, user' = [user EXCEPT ![u].gone = TRUE]
    PROVE  /\ UsersTypeOK'
           /\ user'[u].pc = user[u].pc /\ user'[u].eng = user[u].eng
           /\ user'[u].said = user[u].said /\ user'[u].best = user[u].best
           /\ \A v \in Users : v # u => user'[v] = user[v]
<1> DEFINE r == [user[u] EXCEPT !.gone = TRUE]
<1>1. user[u] \in UserStates
  BY DEF UsersTypeOK
<1>2. user' = [user EXCEPT ![u] = r]
  BY <1>1 DEF UsersTypeOK, UserStates
<1>3. r \in UserStates /\ r.pc = user[u].pc /\ r.eng = user[u].eng /\ r.said = user[u].said /\ r.best = user[u].best
  BY <1>1 DEF UserStates
<1> HIDE DEF r
<1> QED
  BY <1>2, <1>3 DEF UsersTypeOK

(* A request that is told a best move.                                     *)
LEMMA BestIs ==
    ASSUME UsersTypeOK, NEW u \in Users, NEW b \in Analyses,
           user' = [user EXCEPT ![u] = [Unasked EXCEPT !.pc = "over", !.said = "bestmove", !.best = b]]
    PROVE  /\ UsersTypeOK'
           /\ user'[u].pc = "over" /\ user'[u].eng = 0 /\ user'[u].said = "bestmove" /\ user'[u].best = b
           /\ \A v \in Users : v # u => user'[v] = user[v]
<1>1. ASSUME NEW s \in UserStates
      PROVE  LET r == [s EXCEPT !.pc = "over", !.said = "bestmove", !.best = b]
             IN  r \in UserStates /\ r.pc = "over" /\ r.eng = s.eng /\ r.said = "bestmove" /\ r.best = b
  BY DEF UserStates, Pcs, Said
<1> DEFINE r == [Unasked EXCEPT !.pc = "over", !.said = "bestmove", !.best = b]
<1>2. r \in UserStates /\ r.pc = "over" /\ r.eng = 0 /\ r.said = "bestmove" /\ r.best = b
  BY <1>1, UnaskedIs
<1> HIDE DEF r
<1>3. user' = [user EXCEPT ![u] = r]
  BY DEF r
<1> QED
  BY <1>2, <1>3 DEF UsersTypeOK
-----------------------------------------------------------------------------
(* What the processes are told and say.                                    *)
ProcessesTypeOK == process \in [Engines -> {Nobody} \union Processes]

Quiet(p) == p.search = Nobody /\ ~p.stopped

(* A process begins with nothing said on either side.                      *)
LEMMA StartedIs ==
    /\ Started \in Processes
    /\ Started.in = <<>> /\ Started.out = <<>> /\ Quiet(Started) /\ Started.alive
BY DEF Started, Processes, Quiet

LEMMA ToldRecord ==
    ASSUME NEW p \in Processes, NEW c \in Commands
    PROVE  LET r == [p EXCEPT !.in = Append(@, c)]
           IN  /\ r \in Processes /\ r.in = Append(p.in, c) /\ r.out = p.out
               /\ r.search = p.search /\ r.stopped = p.stopped
<1>1. p.in \in Seq(Commands)
  BY DEF Processes
<1> DEFINE s == Append(p.in, c)
<1>2. s \in Seq(Commands)
  BY <1>1
<1> HIDE DEF s
<1>3. LET r == [p EXCEPT !.in = s]
      IN  /\ r \in Processes /\ r.in = s /\ r.out = p.out
          /\ r.search = p.search /\ r.stopped = p.stopped
  BY <1>2 DEF Processes
<1> QED
  BY <1>3 DEF s

(* A process that is told a command has it last in its queue.              *)
LEMMA ToldIs ==
    ASSUME ProcessesTypeOK, NEW e \in Engines, process[e] # Nobody, NEW c \in Commands,
           process' = Tell(e, c)
    PROVE  /\ ProcessesTypeOK' /\ process'[e] # Nobody
           /\ process'[e].in = Append(process[e].in, c) /\ process'[e].out = process[e].out
           /\ process'[e].search = process[e].search /\ process'[e].stopped = process[e].stopped
           /\ \A f \in Engines : f # e => process'[f] = process[f]
<1> DEFINE r == [process[e] EXCEPT !.in = Append(@, c)]
<1>1. process[e] \in Processes
  BY DEF ProcessesTypeOK
<1>2. process' = [process EXCEPT ![e] = r]
  BY DEF Tell, ProcessesTypeOK
<1>3. /\ r \in Processes /\ r.in = Append(process[e].in, c) /\ r.out = process[e].out
      /\ r.search = process[e].search /\ r.stopped = process[e].stopped
  BY <1>1, ToldRecord
<1> HIDE DEF r
<1> QED
  BY <1>2, <1>3, EngineSlotAssumption DEF ProcessesTypeOK

(* A line that is heard leaves the queue of its process.                   *)
LEMMA HeardIs ==
    ASSUME ProcessesTypeOK, NEW e \in Engines, process[e] # Nobody, Hears(e), process' = Heard(e)
    PROVE  /\ ProcessesTypeOK' /\ process'[e] # Nobody /\ process'[e] = Heard(e)[e]
           /\ process'[e].in = process[e].in /\ process'[e].out = Tail(process[e].out)
           /\ process'[e].search = process[e].search /\ process'[e].stopped = process[e].stopped
           /\ \A f \in Engines : f # e => process'[f] = process[f]
<1> DEFINE r == [process[e] EXCEPT !.out = Tail(@)]
<1>1. process[e] \in Processes
  BY DEF ProcessesTypeOK
<1>2. process' = [process EXCEPT ![e] = r]
  BY DEF Heard, ProcessesTypeOK
<1>3. Tail(process[e].out) \in Seq(Lines)
  BY <1>1 DEF Hears, Processes
<1>4. /\ r \in Processes /\ r.in = process[e].in /\ r.out = Tail(process[e].out)
      /\ r.search = process[e].search /\ r.stopped = process[e].stopped
  BY <1>1, <1>3 DEF Processes
<1> HIDE DEF r
<1> QED
  BY <1>2, <1>4, EngineSlotAssumption DEF ProcessesTypeOK

LEMMA SaidRecord ==
    ASSUME NEW p \in Processes, NEW l \in Lines
    PROVE  /\ Says(p, l) \in Processes /\ Says(p, l).in = p.in /\ Says(p, l).out = Append(p.out, l)
           /\ Says(p, l).search = p.search /\ Says(p, l).stopped = p.stopped
<1>1. p.out \in Seq(Lines)
  BY DEF Processes
<1> DEFINE s == Append(p.out, l)
<1>2. s \in Seq(Lines)
  BY <1>1
<1> HIDE DEF s
<1>3. LET r == [p EXCEPT !.out = s]
      IN  /\ r \in Processes /\ r.in = p.in /\ r.out = s
          /\ r.search = p.search /\ r.stopped = p.stopped
  BY <1>2 DEF Processes
<1> QED
  BY <1>3 DEF s, Says

(* A slot that is given a process has it, and the others keep theirs.      *)
LEMMA SetIs ==
    ASSUME ProcessesTypeOK, NEW e \in Engines, NEW r \in Processes, process' = [process EXCEPT ![e] = r]
    PROVE  /\ ProcessesTypeOK' /\ process'[e] = r /\ r # Nobody
           /\ \A f \in Engines : f # e => process'[f] = process[f]
BY EngineSlotAssumption DEF ProcessesTypeOK

-----------------------------------------------------------------------------
(* The inductive invariant.  The steps of an analysis and of a warm-up,    *)
(* the engine each has, and the slot a request holds where it is.          *)
StepsOfUsers ==
    /\ \A a \in Analyses : user[a].pc # "warming"
    /\ \A w \in WarmUps : user[w].pc \in {"unasked", "warming", "starting", "syncing", "over"}

UsersAtEngines == \A u \in Users : user[u].pc \notin {"unasked", "over"} => user[u].eng \in Engines

Holding == {"starting", "syncing", "ready", "running", "stopping", "leaving", "superseding"}
HolderHolds ==
    /\ \A u \in Users : user[u].pc \in Holding => holder[user[u].eng] = u
    /\ \A e \in Engines : holder[e] # Nobody => user[holder[e]].pc \in Holding /\ user[holder[e]].eng = e

Talking == {"syncing", "ready", "running", "stopping", "leaving"}
TalkersHaveOne == \A u \in Users : user[u].pc \in Talking => process[user[u].eng] # Nobody

(* What is between the bridge and a process is told by the step of who     *)
(* holds its slot: nothing but a stop left over while no search is told;   *)
(* the search of the holder, not taken yet, under way or ended; and the    *)
(* same with the stop that ends it.                                        *)
IdleProcess(p) == Quiet(p) /\ p.out = <<>> /\ p.in \in {<<>>, <<<<"stop">>>>}
Syncing(p) ==
    /\ Quiet(p)
    /\ \/ p.in \in {<<<<"isready">>>>, <<<<"stop">>, <<"isready">>>>} /\ p.out = <<>>
       \/ p.in = <<>> /\ p.out = <<<<"readyok">>>>
Ready(p) == Quiet(p) /\ p.in = <<>> /\ p.out = <<>>

UnderWay(p, a) == p.search = a /\ OnlyInfo(p.out)
SearchOver(p, a) == Quiet(p) /\ InfoThenBest(p.out, a)
Searching(p, a) ==
    \/ Quiet(p) /\ p.in = <<<<"go", a>>>> /\ p.out = <<>>
    \/ p.in = <<>> /\ UnderWay(p, a) /\ ~p.stopped
    \/ p.in = <<>> /\ SearchOver(p, a)
Stopping(p, a) ==
    \/ Quiet(p) /\ p.in = <<<<"go", a>>, <<"stop">>>> /\ p.out = <<>>
    \/ p.in = <<<<"stop">>>> /\ UnderWay(p, a) /\ ~p.stopped
    \/ p.in = <<>> /\ UnderWay(p, a) /\ p.stopped
    \/ p.in \in {<<>>, <<<<"stop">>>>} /\ SearchOver(p, a)

InStep(p, u, pc) ==
    /\ pc \in {"free", "starting", "superseding"} => IdleProcess(p)
    /\ pc = "syncing" => Syncing(p)
    /\ pc = "ready" => Ready(p)
    /\ pc = "running" => Searching(p, u)
    /\ pc \in {"stopping", "leaving"} => Stopping(p, u)
HolderStep(e) == IF holder[e] = Nobody THEN "free" ELSE user[holder[e]].pc
ProcessInStep ==
    \A e \in Engines : process[e] # Nobody => InStep(process[e], holder[e], HolderStep(e))

EngineInv ==
    /\ CountsTypeOK /\ UsersTypeOK /\ ProcessesTypeOK
    /\ StepsOfUsers /\ UsersAtEngines /\ HolderHolds /\ TalkersHaveOne
    /\ ProcessInStep /\ BestMoveOfItsSearch
-----------------------------------------------------------------------------
(* The steps that do more than move a request on.                          *)
LEMMA BeginAnalysisIs ==
    ASSUME CountsTypeOK, UsersTypeOK, NEW a \in Analyses, BeginAnalysis(a)
    PROVE  /\ UsersTypeOK' /\ user[a].pc = "unasked"
           /\ (user'[a].said = user[a].said /\ user'[a].best = user[a].best) \/ user'[a].said = "no_engine"
           /\ user'[a].pc = "over" \/ (user'[a].pc = "taken" /\ user'[a].eng \in Engines)
           /\ \A v \in Users : v # a => user'[v] = user[v]
<1>1. user[a].pc = "unasked" /\ a \in Users /\ "no_engine" \in Said /\ "taken" \in Pcs
  BY UserKinds DEF BeginAnalysis, At, Said, Pcs
<1>2. CASE configured = 0
  <2>1. Over(a, "no_engine")
    BY <1>2 DEF BeginAnalysis
  <2> QED
    BY <1>1, <2>1, OverIs
<1>3. CASE configured # 0
  <2>1. \/ user' = [user EXCEPT ![a].pc = "taken", ![a].eng = configured]
        \/ user' = [user EXCEPT ![a].eng = configured, ![a].pc = "taken"]
    BY <1>3 DEF BeginAnalysis
  <2> QED
    BY <1>1, <1>3, <2>1, BeginIs
<1> QED
  BY <1>2, <1>3

LEMMA WarmIs ==
    ASSUME CountsTypeOK, UsersTypeOK, NEW w \in WarmUps, Warm(w)
    PROVE  /\ UsersTypeOK' /\ user[w].pc = "unasked"
           /\ user'[w].pc = "over" \/ (user'[w].pc = "warming" /\ user'[w].eng \in Engines)
           /\ \A v \in Users : v # w => user'[v] = user[v]
<1>1. user[w].pc = "unasked" /\ w \in Users /\ "no_engine" \in Said /\ "warming" \in Pcs
  BY UserKinds DEF Warm, At, Said, Pcs
<1>2. CASE configured = 0
  <2>1. Over(w, "no_engine")
    BY <1>2 DEF Warm
  <2> QED
    BY <1>1, <2>1, OverIs
<1>3. CASE configured # 0
  <2>1. \/ user' = [user EXCEPT ![w].pc = "warming", ![w].eng = configured]
        \/ user' = [user EXCEPT ![w].eng = configured, ![w].pc = "warming"]
    BY <1>3 DEF Warm
  <2> QED
    BY <1>1, <1>3, <2>1, BeginIs
<1> QED
  BY <1>2, <1>3

LEMMA TakeTicketIs ==
    ASSUME CountsTypeOK, UsersTypeOK, UsersAtEngines, NEW a \in Analyses, TakeTicket(a)
    PROVE  /\ UsersTypeOK' /\ user[a].pc = "named" /\ user'[a].pc = "waiting"
           /\ user'[a].eng = user[a].eng /\ user'[a].said = user[a].said /\ user'[a].best = user[a].best
           /\ \A v \in Users : v # a => user'[v] = user[v]
<1>1. turn'[user[a].eng] \in Nat
  BY UserKinds DEF TakeTicket, At, UsersAtEngines, CountsTypeOK
<1> QED
  BY <1>1, UserKinds, TicketIs DEF TakeTicket, At

LEMMA HearBestIs ==
    ASSUME UsersTypeOK, ProcessesTypeOK, UsersAtEngines, TalkersHaveOne, NEW a \in Analyses, HearBest(a)
    PROVE  /\ UsersTypeOK' /\ user[a].pc = "running" /\ user'[a].pc = "over" /\ user'[a].eng = 0
           /\ user'[a].said = "bestmove" /\ user'[a].best = Head(process[user[a].eng].out)[2]
           /\ \A v \in Users : v # a => user'[v] = user[v]
<1> DEFINE p == process[user[a].eng]
<1>1. user[a].eng \in Engines /\ p \in Processes
  BY UserKinds DEF HearBest, At, UsersAtEngines, TalkersHaveOne, Talking, ProcessesTypeOK
<1>2. Head(p.out) \in Lines
  BY <1>1 DEF HearBest, Hears, Processes
<1>3. Head(p.out)[2] \in Analyses
  BY <1>2, PipeKinds DEF HearBest, Word
<1> QED
  BY <1>3, UserKinds, BestIs DEF HearBest, At
-----------------------------------------------------------------------------

LEMMA LoseIs ==
    ASSUME UsersTypeOK, UsersAtEngines, NEW u \in Users, Lose(u)
    PROVE  /\ UsersTypeOK' /\ user[u].pc \in Talking /\ user[u].eng \in Engines
           /\ process' = [process EXCEPT ![user[u].eng] = Nobody]
           /\ \/ /\ user[u].pc = "stopping" /\ user'[u].pc = "superseding" /\ user'[u].eng = user[u].eng
                 /\ user'[u].said = user[u].said /\ user'[u].best = user[u].best
                 /\ UNCHANGED holder
              \/ user'[u].pc = "over" /\ user'[u].said # "bestmove" /\ HeldBy(user[u].eng, Nobody)
           /\ \A v \in Users : v # u => user'[v] = user[v]
           /\ UNCHANGED upsets \/ Upset
<1>1. user[u].pc \in Talking /\ user[u].eng \in Engines /\ process' = [process EXCEPT ![user[u].eng] = Nobody]
  BY DEF Lose, Talking, UsersAtEngines
<1>2. UNCHANGED upsets \/ Upset
  BY DEF Lose, Unheard
<1>3. CASE At(u, "stopping")
  <2>1. Goes(u, "superseding") /\ UNCHANGED holder /\ "superseding" \in Pcs
    BY <1>3 DEF Lose, Pcs
  <2> QED
    BY <1>1, <1>2, <1>3, <2>1, GoesIs DEF At
<1>4. CASE ~At(u, "stopping")
  <2>1. PICK said \in {"nothing", "engine_exited"} : Over(u, said)
    BY <1>4 DEF Lose
  <2>2. HeldBy(user[u].eng, Nobody) /\ said \in Said /\ said # "bestmove"
    BY <1>4, <2>1 DEF Lose, Said
  <2> QED
    BY <1>1, <1>2, <2>1, <2>2, OverIs
<1> QED
  BY <1>3, <1>4

LEMMA HearStoppedIs ==
    ASSUME UsersTypeOK, ProcessesTypeOK, UsersAtEngines, TalkersHaveOne, NEW a \in Analyses, HearStopped(a)
    PROVE  /\ UsersTypeOK' /\ user[a].pc \in {"stopping", "leaving"} /\ user[a].eng \in Engines
           /\ Hears(user[a].eng) /\ process' = Heard(user[a].eng)
           /\ \/ Word(user[a].eng) # "bestmove" /\ UNCHANGED <<user, holder>>
              \/ /\ Word(user[a].eng) = "bestmove" /\ user[a].pc = "stopping" /\ user'[a].pc = "superseding"
                 /\ user'[a].eng = user[a].eng /\ user'[a].said = user[a].said /\ user'[a].best = user[a].best
                 /\ UNCHANGED holder
              \/ /\ Word(user[a].eng) = "bestmove" /\ user[a].pc = "leaving" /\ user'[a].pc = "over"
                 /\ user'[a].said = "nothing" /\ HeldBy(user[a].eng, Nobody)
           /\ \A v \in Users : v # a => user'[v] = user[v]
<1> DEFINE e == user[a].eng
<1>1. /\ a \in Users /\ user[a].pc \in {"stopping", "leaving"} /\ e \in Engines
      /\ Hears(e) /\ process' = Heard(e)
  BY UserKinds DEF HearStopped, UsersAtEngines
<1>2. CASE Word(e) # "bestmove" /\ UNCHANGED <<user, holder>>
  BY <1>1, <1>2 DEF UsersTypeOK
<1>3. CASE Word(e) = "bestmove" /\ At(a, "stopping") /\ Goes(a, "superseding") /\ UNCHANGED holder
  <2>1. "superseding" \in Pcs
    BY DEF Pcs
  <2> QED
    BY <1>1, <1>3, <2>1, GoesIs DEF At
<1>4. CASE Word(e) = "bestmove" /\ At(a, "leaving") /\ Over(a, "nothing") /\ HeldBy(e, Nobody)
  <2>1. "nothing" \in Said
    BY DEF Said
  <2> QED
    BY <1>1, <1>4, <2>1, OverIs DEF At
<1>5. \/ Word(e) # "bestmove" /\ UNCHANGED <<user, holder>>
      \/ Word(e) = "bestmove" /\ At(a, "stopping") /\ Goes(a, "superseding") /\ UNCHANGED holder
      \/ Word(e) = "bestmove" /\ At(a, "leaving") /\ Over(a, "nothing") /\ HeldBy(e, Nobody)
  BY DEF HearStopped
<1> QED
  BY <1>2, <1>3, <1>4, <1>5

(* The slot of a request while it holds one, and as it lets it go.         *)
LEMMA HolderKeeps ==
    ASSUME HolderHolds, NEW u \in Users, UNCHANGED holder,
           \A v \in Users : v # u => user'[v] = user[v],
           user[u].pc \in Holding <=> user'[u].pc \in Holding,
           user[u].pc \in Holding => user'[u].eng = user[u].eng,
           CountsTypeOK
    PROVE  HolderHolds'
BY DEF HolderHolds, CountsTypeOK

LEMMA HolderLets ==
    ASSUME HolderHolds, CountsTypeOK, NEW u \in Users, user[u].pc \in Holding, user[u].eng \in Engines,
           HeldBy(user[u].eng, Nobody), user'[u].pc \notin Holding,
           \A v \in Users : v # u => user'[v] = user[v]
    PROVE  HolderHolds'
BY UserKinds DEF HolderHolds, CountsTypeOK, HeldBy

(* Every step keeps the types of the counters, the locks and the views.    *)
LEMMA CountsTypeStep ==
    ASSUME CountsTypeOK, UsersTypeOK, UsersAtEngines,
           EngineNext \/ UNCHANGED engineVars
    PROVE  CountsTypeOK'
<1>1. ASSUME NEW a \in Analyses, BeginAnalysis(a) PROVE CountsTypeOK'
  BY <1>1, BeginAnalysisIs, UserKinds
  DEF BeginAnalysis, At, CountsTypeOK, UsersAtEngines
<1>2. ASSUME NEW a \in Analyses, NameView(a) PROVE CountsTypeOK'
  BY <1>2, UserKinds DEF NameView, At, CountsTypeOK
<1>3. ASSUME NEW a \in Analyses, TakeTicket(a) PROVE CountsTypeOK'
  BY <1>3, TakeTicketIs, UserKinds
  DEF TakeTicket, At, CountsTypeOK, UsersAtEngines
<1>4. ASSUME NEW a \in Analyses, LockSlot(a) PROVE CountsTypeOK'
  BY <1>4, UserKinds DEF LockSlot, At, HeldBy, Newest, CountsTypeOK
<1>5. ASSUME NEW a \in Analyses, TellSearch(a) PROVE CountsTypeOK'
  BY <1>5, UserKinds DEF TellSearch, At, CountsTypeOK
<1>6. ASSUME NEW a \in Analyses, HearInfo(a) PROVE CountsTypeOK'
  BY <1>6, UserKinds DEF HearInfo, At, Hears, Word, CountsTypeOK
<1>7. ASSUME NEW a \in Analyses, HearBest(a) PROVE CountsTypeOK'
  BY <1>7, HearBestIs, UserKinds
  DEF HearBest, At, Hears, Word, Release, HeldBy, CountsTypeOK, UsersAtEngines
<1>8. ASSUME NEW a \in Analyses, LookAtTurn(a) PROVE CountsTypeOK'
  BY <1>8, UserKinds DEF LookAtTurn, At, Newest, CountsTypeOK
<1>9. ASSUME NEW a \in Analyses, LookAtClient(a) PROVE CountsTypeOK'
  BY <1>9, UserKinds DEF LookAtClient, At, Newest, CountsTypeOK
<1>10. ASSUME NEW a \in Analyses, HearStopped(a) PROVE CountsTypeOK'
  BY <1>10, HearStoppedIs, UserKinds
  DEF HearStopped, Word, Hears, At, HeldBy, CountsTypeOK, UsersAtEngines
<1>11. ASSUME NEW a \in Analyses, Superseded(a) PROVE CountsTypeOK'
  BY <1>11, UserKinds DEF Superseded, At, HeldBy, CountsTypeOK
<1>12. ASSUME NEW a \in Analyses, ClientLeaves(a) PROVE CountsTypeOK'
  BY <1>12, UserKinds DEF ClientLeaves, CountsTypeOK
<1>13. ASSUME NEW w \in WarmUps, Warm(w) PROVE CountsTypeOK'
  BY <1>13, WarmIs, UserKinds DEF Warm, At, CountsTypeOK, UsersAtEngines
<1>14. ASSUME NEW w \in WarmUps, TrySlot(w) PROVE CountsTypeOK'
  BY <1>14, UserKinds DEF TrySlot, At, HeldBy, CountsTypeOK
<1>15. ASSUME NEW u \in Users, StartProcess(u) PROVE CountsTypeOK'
  BY <1>15, UserKinds DEF StartProcess, Runs, At, CountsTypeOK
<1>16. ASSUME NEW u \in Users, HearReady(u) PROVE CountsTypeOK'
  BY <1>16, UserKinds DEF HearReady, At, Hears, Word, HeldBy, CountsTypeOK
<1>17. ASSUME NEW u \in Users, Lose(u) PROVE CountsTypeOK'
  <2>1. UNCHANGED <<configured, turn, newest>>
    BY <1>17 DEF Lose
  <2>2. holder' \in [Engines -> Users \union {Nobody}]
    BY <1>17, LoseIs DEF HeldBy, CountsTypeOK
  <2>3. upsets' \in 0..MaxUpsets
    BY <1>17, LoseIs, EngineBoundsAssumption DEF Upset, CountsTypeOK
  <2> QED
    BY <2>1, <2>2, <2>3 DEF CountsTypeOK
<1>18. ASSUME NEW u \in Users, StartFails(u) PROVE CountsTypeOK'
  <2>1. user[u].eng \in Engines
    BY <1>18, UserKinds DEF StartFails, At, UsersAtEngines
  <2>2. UNCHANGED <<configured, turn, newest>>
    BY <1>18 DEF StartFails
  <2>3. holder' \in [Engines -> Users \union {Nobody}]
    BY <1>18, <2>1 DEF StartFails, Release, HeldBy, CountsTypeOK
  <2>4. upsets' \in 0..MaxUpsets
    BY <1>18, EngineBoundsAssumption DEF StartFails, Upset, CountsTypeOK
  <2> QED
    BY <2>2, <2>3, <2>4 DEF CountsTypeOK
<1>19. ASSUME NEW e \in Engines, EndIdle(e) PROVE CountsTypeOK'
  BY <1>19, UserKinds DEF EndIdle, CountsTypeOK
<1>20. ASSUME NEW e \in Engines, DropReplaced(e) PROVE CountsTypeOK'
  BY <1>20, UserKinds DEF DropReplaced, CountsTypeOK
<1>21. ASSUME NEW e \in Engines, TakeCommand(e) PROVE CountsTypeOK'
  BY <1>21, UserKinds DEF TakeCommand, Runs, CountsTypeOK
<1>22. ASSUME NEW e \in Engines, Inform(e) PROVE CountsTypeOK'
  BY <1>22, UserKinds DEF Inform, Runs, CountsTypeOK
<1>23. ASSUME NEW e \in Engines, BestIfStopped(e) PROVE CountsTypeOK'
  BY <1>23, UserKinds DEF BestIfStopped, Runs, EndSearch, CountsTypeOK
<1>24. ASSUME NEW e \in Engines, BestOfItself(e) PROVE CountsTypeOK'
  BY <1>24, UserKinds DEF BestOfItself, Runs, EndSearch, CountsTypeOK
<1>25. ASSUME NEW e \in Engines, Die(e) PROVE CountsTypeOK'
  BY <1>25, UserKinds, EngineBoundsAssumption
  DEF Die, Runs, Upset, CountsTypeOK, UsersAtEngines, Engines
<1>26. CASE Replace
  BY <1>26, UserKinds, EngineBoundsAssumption
  DEF Replace, CountsTypeOK, UsersAtEngines, Engines
<1>27. CASE UNCHANGED engineVars
  BY <1>27, UserKinds DEF engineVars, CountsTypeOK
<1> QED
  BY <1>1, <1>2, <1>3, <1>4, <1>5, <1>6, <1>7, <1>8, <1>9, <1>10, <1>11, <1>12,
     <1>13, <1>14, <1>15, <1>16, <1>17, <1>18, <1>19, <1>20, <1>21, <1>22,
     <1>23, <1>24, <1>25, <1>26, <1>27
  DEF EngineNext, AnalysisStep, SlotStep

(* Every step keeps the types of the requests.                             *)
LEMMA UsersTypeStep ==
    ASSUME CountsTypeOK, UsersTypeOK, ProcessesTypeOK, UsersAtEngines,
           TalkersHaveOne, EngineNext \/ UNCHANGED engineVars
    PROVE  UsersTypeOK'
<1>1. ASSUME NEW a \in Analyses, BeginAnalysis(a) PROVE UsersTypeOK'
  BY <1>1, BeginAnalysisIs, UserKinds DEF Pcs, Said
<1>2. ASSUME NEW a \in Analyses, NameView(a) PROVE UsersTypeOK'
  BY <1>2, GoesIs, UserKinds DEF NameView, At, Pcs, Said
<1>3. ASSUME NEW a \in Analyses, TakeTicket(a) PROVE UsersTypeOK'
  BY <1>3, TakeTicketIs, UserKinds DEF TakeTicket, At, Pcs, Said, CountsTypeOK
<1>4. ASSUME NEW a \in Analyses, LockSlot(a) PROVE UsersTypeOK'
  BY <1>4, GoesIs, UserKinds DEF LockSlot, At, HeldBy, Newest, Pcs, Said
<1>5. ASSUME NEW a \in Analyses, TellSearch(a) PROVE UsersTypeOK'
  BY <1>5, GoesIs, UserKinds DEF TellSearch, At, Pcs, Said
<1>6. ASSUME NEW a \in Analyses, HearInfo(a) PROVE UsersTypeOK'
  BY <1>6, UserKinds
  DEF HearInfo, At, Hears, Word, Pcs, Said, CountsTypeOK, UsersTypeOK
<1>7. ASSUME NEW a \in Analyses, HearBest(a) PROVE UsersTypeOK'
  BY <1>7, HearBestIs, UserKinds
  DEF HearBest, At, Hears, Word, Release, HeldBy, Pcs, Said, CountsTypeOK
<1>8. ASSUME NEW a \in Analyses, LookAtTurn(a) PROVE UsersTypeOK'
  BY <1>8, GoesIs, UserKinds DEF LookAtTurn, At, Newest, Pcs, Said
<1>9. ASSUME NEW a \in Analyses, LookAtClient(a) PROVE UsersTypeOK'
  BY <1>9, GoesIs, UserKinds DEF LookAtClient, At, Newest, Pcs, Said
<1>10. ASSUME NEW a \in Analyses, HearStopped(a) PROVE UsersTypeOK'
  BY <1>10, HearStoppedIs, UserKinds
  DEF HearStopped, Word, Hears, At, HeldBy, Pcs, Said, CountsTypeOK,
      UsersTypeOK
<1>11. ASSUME NEW a \in Analyses, Superseded(a) PROVE UsersTypeOK'
  BY <1>11, OverIs, UserKinds DEF Superseded, At, HeldBy, Pcs, Said
<1>12. ASSUME NEW a \in Analyses, ClientLeaves(a) PROVE UsersTypeOK'
  BY <1>12, GoneIs, UserKinds DEF ClientLeaves, Pcs, Said
<1>13. ASSUME NEW w \in WarmUps, Warm(w) PROVE UsersTypeOK'
  BY <1>13, WarmIs, UserKinds DEF Pcs, Said
<1>14. ASSUME NEW w \in WarmUps, TrySlot(w) PROVE UsersTypeOK'
  BY <1>14, GoesIs, OverIs, UserKinds DEF TrySlot, At, HeldBy, Pcs, Said
<1>15. ASSUME NEW u \in Users, StartProcess(u) PROVE UsersTypeOK'
  BY <1>15, GoesIs, UserKinds DEF StartProcess, Runs, At, Pcs, Said
<1>16. ASSUME NEW u \in Users, HearReady(u) PROVE UsersTypeOK'
  BY <1>16, GoesIs, OverIs, UserKinds
  DEF HearReady, At, Hears, Word, HeldBy, Pcs, Said, CountsTypeOK, UsersTypeOK
<1>17. ASSUME NEW u \in Users, Lose(u) PROVE UsersTypeOK'
  BY <1>17, LoseIs, UserKinds DEF Pcs, Said
<1>18. ASSUME NEW u \in Users, StartFails(u) PROVE UsersTypeOK'
  BY <1>18, OverIs, UserKinds
  DEF StartFails, At, Runs, Upset, Release, HeldBy, Pcs, Said
<1>19. ASSUME NEW e \in Engines, EndIdle(e) PROVE UsersTypeOK'
  BY <1>19, UserKinds DEF EndIdle, Pcs, Said, CountsTypeOK, UsersTypeOK
<1>20. ASSUME NEW e \in Engines, DropReplaced(e) PROVE UsersTypeOK'
  BY <1>20, UserKinds DEF DropReplaced, Pcs, Said, CountsTypeOK, UsersTypeOK
<1>21. ASSUME NEW e \in Engines, TakeCommand(e) PROVE UsersTypeOK'
  BY <1>21, UserKinds
  DEF TakeCommand, Runs, Pcs, Said, CountsTypeOK, UsersTypeOK
<1>22. ASSUME NEW e \in Engines, Inform(e) PROVE UsersTypeOK'
  BY <1>22, UserKinds DEF Inform, Runs, Pcs, Said, CountsTypeOK, UsersTypeOK
<1>23. ASSUME NEW e \in Engines, BestIfStopped(e) PROVE UsersTypeOK'
  BY <1>23, UserKinds
  DEF BestIfStopped, Runs, EndSearch, Pcs, Said, CountsTypeOK, UsersTypeOK
<1>24. ASSUME NEW e \in Engines, BestOfItself(e) PROVE UsersTypeOK'
  BY <1>24, UserKinds
  DEF BestOfItself, Runs, EndSearch, Pcs, Said, CountsTypeOK, UsersTypeOK
<1>25. ASSUME NEW e \in Engines, Die(e) PROVE UsersTypeOK'
  BY <1>25, UserKinds
  DEF Die, Runs, Upset, Pcs, Said, CountsTypeOK, UsersTypeOK
<1>26. CASE Replace
  BY <1>26, UserKinds DEF Replace, Pcs, Said, CountsTypeOK, UsersTypeOK
<1>27. CASE UNCHANGED engineVars
  BY <1>27 DEF engineVars, UsersTypeOK
<1> QED
  BY <1>1, <1>2, <1>3, <1>4, <1>5, <1>6, <1>7, <1>8, <1>9, <1>10, <1>11, <1>12,
     <1>13, <1>14, <1>15, <1>16, <1>17, <1>18, <1>19, <1>20, <1>21, <1>22,
     <1>23, <1>24, <1>25, <1>26, <1>27
  DEF EngineNext, AnalysisStep, SlotStep

(* An analysis and a warm-up take their own steps.                         *)
LEMMA KindStep ==
    ASSUME CountsTypeOK, UsersTypeOK, ProcessesTypeOK, UsersAtEngines,
           TalkersHaveOne, StepsOfUsers, EngineNext \/ UNCHANGED engineVars
    PROVE  StepsOfUsers'
<1>1. ASSUME NEW a \in Analyses, BeginAnalysis(a) PROVE StepsOfUsers'
  BY <1>1, BeginAnalysisIs, UserKinds
  DEF BeginAnalysis, At, StepsOfUsers, Pcs, Said, CountsTypeOK
<1>2. ASSUME NEW a \in Analyses, NameView(a) PROVE StepsOfUsers'
  BY <1>2, GoesIs, UserKinds DEF NameView, At, StepsOfUsers, Pcs, Said
<1>3. ASSUME NEW a \in Analyses, TakeTicket(a) PROVE StepsOfUsers'
  BY ZenonT(60), <1>3, TakeTicketIs, UserKinds
  DEF TakeTicket, At, StepsOfUsers, Pcs, Said, CountsTypeOK
<1>4. ASSUME NEW a \in Analyses, LockSlot(a) PROVE StepsOfUsers'
  BY <1>4, GoesIs, UserKinds
  DEF LockSlot, At, HeldBy, Newest, StepsOfUsers, Pcs, Said
<1>5. ASSUME NEW a \in Analyses, TellSearch(a) PROVE StepsOfUsers'
  BY <1>5, GoesIs, UserKinds DEF TellSearch, At, StepsOfUsers, Pcs, Said
<1>6. ASSUME NEW a \in Analyses, HearInfo(a) PROVE StepsOfUsers'
  BY <1>6, UserKinds DEF HearInfo, At, Hears, Word, StepsOfUsers, Pcs, Said
<1>7. ASSUME NEW a \in Analyses, HearBest(a) PROVE StepsOfUsers'
  BY ZenonT(60), <1>7, HearBestIs, UserKinds
  DEF HearBest, At, Hears, Word, Release, HeldBy, StepsOfUsers, Pcs, Said,
      CountsTypeOK
<1>8. ASSUME NEW a \in Analyses, LookAtTurn(a) PROVE StepsOfUsers'
  BY <1>8, GoesIs, UserKinds DEF LookAtTurn, At, Newest, StepsOfUsers, Pcs, Said
<1>9. ASSUME NEW a \in Analyses, LookAtClient(a) PROVE StepsOfUsers'
  BY <1>9, GoesIs, UserKinds
  DEF LookAtClient, At, Newest, StepsOfUsers, Pcs, Said
<1>10. ASSUME NEW a \in Analyses, HearStopped(a) PROVE StepsOfUsers'
  BY ZenonT(60), <1>10, HearStoppedIs, UserKinds
  DEF HearStopped, Word, Hears, At, HeldBy, StepsOfUsers, Pcs, Said,
      CountsTypeOK
<1>11. ASSUME NEW a \in Analyses, Superseded(a) PROVE StepsOfUsers'
  BY <1>11, OverIs, UserKinds
  DEF Superseded, At, HeldBy, StepsOfUsers, Pcs, Said
<1>12. ASSUME NEW a \in Analyses, ClientLeaves(a) PROVE StepsOfUsers'
  BY <1>12, GoneIs, UserKinds DEF ClientLeaves, StepsOfUsers, Pcs, Said
<1>13. ASSUME NEW w \in WarmUps, Warm(w) PROVE StepsOfUsers'
  BY <1>13, WarmIs, UserKinds
  DEF Warm, At, StepsOfUsers, Pcs, Said, CountsTypeOK
<1>14. ASSUME NEW w \in WarmUps, TrySlot(w) PROVE StepsOfUsers'
  BY <1>14, GoesIs, OverIs, UserKinds
  DEF TrySlot, At, HeldBy, StepsOfUsers, Pcs, Said
<1>15. ASSUME NEW u \in Users, StartProcess(u) PROVE StepsOfUsers'
  BY <1>15, GoesIs, UserKinds
  DEF StartProcess, Runs, At, StepsOfUsers, Pcs, Said
<1>16. ASSUME NEW u \in Users, HearReady(u) PROVE StepsOfUsers'
  BY <1>16, GoesIs, OverIs, UserKinds
  DEF HearReady, At, Hears, Word, HeldBy, StepsOfUsers, Pcs, Said
<1>17. ASSUME NEW u \in Users, Lose(u) PROVE StepsOfUsers'
  BY <1>17, LoseIs, UserKinds DEF StepsOfUsers, Pcs, Said
<1>18. ASSUME NEW u \in Users, StartFails(u) PROVE StepsOfUsers'
  BY <1>18, OverIs, UserKinds
  DEF StartFails, At, Runs, Upset, Release, HeldBy, StepsOfUsers, Pcs, Said
<1>19. ASSUME NEW e \in Engines, EndIdle(e) PROVE StepsOfUsers'
  BY <1>19, UserKinds DEF EndIdle, StepsOfUsers, Pcs, Said
<1>20. ASSUME NEW e \in Engines, DropReplaced(e) PROVE StepsOfUsers'
  BY <1>20, UserKinds DEF DropReplaced, StepsOfUsers, Pcs, Said
<1>21. ASSUME NEW e \in Engines, TakeCommand(e) PROVE StepsOfUsers'
  BY <1>21, UserKinds DEF TakeCommand, Runs, StepsOfUsers, Pcs, Said
<1>22. ASSUME NEW e \in Engines, Inform(e) PROVE StepsOfUsers'
  BY <1>22, UserKinds DEF Inform, Runs, StepsOfUsers, Pcs, Said
<1>23. ASSUME NEW e \in Engines, BestIfStopped(e) PROVE StepsOfUsers'
  BY <1>23, UserKinds
  DEF BestIfStopped, Runs, EndSearch, StepsOfUsers, Pcs, Said
<1>24. ASSUME NEW e \in Engines, BestOfItself(e) PROVE StepsOfUsers'
  BY <1>24, UserKinds DEF BestOfItself, Runs, EndSearch, StepsOfUsers, Pcs, Said
<1>25. ASSUME NEW e \in Engines, Die(e) PROVE StepsOfUsers'
  BY <1>25, UserKinds DEF Die, Runs, Upset, StepsOfUsers, Pcs, Said
<1>26. CASE Replace
  BY <1>26, UserKinds DEF Replace, StepsOfUsers, Pcs, Said
<1>27. CASE UNCHANGED engineVars
  BY <1>27, UserKinds DEF engineVars, StepsOfUsers, Pcs, Said
<1> QED
  BY <1>1, <1>2, <1>3, <1>4, <1>5, <1>6, <1>7, <1>8, <1>9, <1>10, <1>11, <1>12,
     <1>13, <1>14, <1>15, <1>16, <1>17, <1>18, <1>19, <1>20, <1>21, <1>22,
     <1>23, <1>24, <1>25, <1>26, <1>27
  DEF EngineNext, AnalysisStep, SlotStep

(* A request under way has an engine that was configured.                  *)
LEMMA AtEnginesStep ==
    ASSUME CountsTypeOK, UsersTypeOK, ProcessesTypeOK, UsersAtEngines,
           TalkersHaveOne, EngineNext \/ UNCHANGED engineVars
    PROVE  UsersAtEngines'
<1>1. ASSUME NEW a \in Analyses, BeginAnalysis(a) PROVE UsersAtEngines'
  BY <1>1, BeginAnalysisIs, UserKinds DEF UsersAtEngines, Pcs, Said
<1>2. ASSUME NEW a \in Analyses, NameView(a) PROVE UsersAtEngines'
  BY <1>2, GoesIs, UserKinds DEF NameView, At, UsersAtEngines, Pcs, Said
<1>3. ASSUME NEW a \in Analyses, TakeTicket(a) PROVE UsersAtEngines'
  BY <1>3, TakeTicketIs, UserKinds DEF UsersAtEngines, Pcs, Said
<1>4. ASSUME NEW a \in Analyses, LockSlot(a) PROVE UsersAtEngines'
  BY <1>4, GoesIs, UserKinds
  DEF LockSlot, At, HeldBy, Newest, UsersAtEngines, Pcs, Said
<1>5. ASSUME NEW a \in Analyses, TellSearch(a) PROVE UsersAtEngines'
  BY <1>5, GoesIs, UserKinds DEF TellSearch, At, UsersAtEngines, Pcs, Said
<1>6. ASSUME NEW a \in Analyses, HearInfo(a) PROVE UsersAtEngines'
  BY <1>6, UserKinds DEF HearInfo, At, Hears, Word, UsersAtEngines, Pcs, Said
<1>7. ASSUME NEW a \in Analyses, HearBest(a) PROVE UsersAtEngines'
  BY <1>7, HearBestIs, UserKinds DEF UsersAtEngines, Pcs, Said
<1>8. ASSUME NEW a \in Analyses, LookAtTurn(a) PROVE UsersAtEngines'
  BY <1>8, GoesIs, UserKinds
  DEF LookAtTurn, At, Newest, UsersAtEngines, Pcs, Said
<1>9. ASSUME NEW a \in Analyses, LookAtClient(a) PROVE UsersAtEngines'
  BY <1>9, GoesIs, UserKinds
  DEF LookAtClient, At, Newest, UsersAtEngines, Pcs, Said
<1>10. ASSUME NEW a \in Analyses, HearStopped(a) PROVE UsersAtEngines'
  BY <1>10, HearStoppedIs, UserKinds DEF UsersAtEngines, Pcs, Said
<1>11. ASSUME NEW a \in Analyses, Superseded(a) PROVE UsersAtEngines'
  BY <1>11, OverIs, UserKinds
  DEF Superseded, At, HeldBy, UsersAtEngines, Pcs, Said
<1>12. ASSUME NEW a \in Analyses, ClientLeaves(a) PROVE UsersAtEngines'
  BY <1>12, GoneIs, UserKinds DEF ClientLeaves, UsersAtEngines, Pcs, Said
<1>13. ASSUME NEW w \in WarmUps, Warm(w) PROVE UsersAtEngines'
  BY <1>13, WarmIs, UserKinds DEF UsersAtEngines, Pcs, Said
<1>14. ASSUME NEW w \in WarmUps, TrySlot(w) PROVE UsersAtEngines'
  BY <1>14, GoesIs, OverIs, UserKinds
  DEF TrySlot, At, HeldBy, UsersAtEngines, Pcs, Said
<1>15. ASSUME NEW u \in Users, StartProcess(u) PROVE UsersAtEngines'
  BY <1>15, GoesIs, UserKinds
  DEF StartProcess, Runs, At, UsersAtEngines, Pcs, Said
<1>16. ASSUME NEW u \in Users, HearReady(u) PROVE UsersAtEngines'
  BY <1>16, GoesIs, OverIs, UserKinds
  DEF HearReady, At, Hears, Word, HeldBy, UsersAtEngines, Pcs, Said
<1>17. ASSUME NEW u \in Users, Lose(u) PROVE UsersAtEngines'
  BY <1>17, LoseIs, UserKinds DEF UsersAtEngines, Pcs, Said
<1>18. ASSUME NEW u \in Users, StartFails(u) PROVE UsersAtEngines'
  BY <1>18, OverIs, UserKinds
  DEF StartFails, At, Runs, Upset, Release, HeldBy, UsersAtEngines, Pcs, Said
<1>19. ASSUME NEW e \in Engines, EndIdle(e) PROVE UsersAtEngines'
  BY <1>19, UserKinds DEF EndIdle, UsersAtEngines, Pcs, Said
<1>20. ASSUME NEW e \in Engines, DropReplaced(e) PROVE UsersAtEngines'
  BY <1>20, UserKinds DEF DropReplaced, UsersAtEngines, Pcs, Said
<1>21. ASSUME NEW e \in Engines, TakeCommand(e) PROVE UsersAtEngines'
  BY <1>21, UserKinds DEF TakeCommand, Runs, UsersAtEngines, Pcs, Said
<1>22. ASSUME NEW e \in Engines, Inform(e) PROVE UsersAtEngines'
  BY <1>22, UserKinds DEF Inform, Runs, UsersAtEngines, Pcs, Said
<1>23. ASSUME NEW e \in Engines, BestIfStopped(e) PROVE UsersAtEngines'
  BY <1>23, UserKinds
  DEF BestIfStopped, Runs, EndSearch, UsersAtEngines, Pcs, Said
<1>24. ASSUME NEW e \in Engines, BestOfItself(e) PROVE UsersAtEngines'
  BY <1>24, UserKinds
  DEF BestOfItself, Runs, EndSearch, UsersAtEngines, Pcs, Said
<1>25. ASSUME NEW e \in Engines, Die(e) PROVE UsersAtEngines'
  BY <1>25, UserKinds DEF Die, Runs, Upset, UsersAtEngines, Pcs, Said
<1>26. CASE Replace
  BY <1>26, UserKinds DEF Replace, UsersAtEngines, Pcs, Said
<1>27. CASE UNCHANGED engineVars
  BY <1>27, UserKinds DEF engineVars, UsersAtEngines, Pcs, Said
<1> QED
  BY <1>1, <1>2, <1>3, <1>4, <1>5, <1>6, <1>7, <1>8, <1>9, <1>10, <1>11, <1>12,
     <1>13, <1>14, <1>15, <1>16, <1>17, <1>18, <1>19, <1>20, <1>21, <1>22,
     <1>23, <1>24, <1>25, <1>26, <1>27
  DEF EngineNext, AnalysisStep, SlotStep

(* The lock of a slot goes from request to request.                        *)
LEMMA HolderHoldsStep ==
    ASSUME CountsTypeOK, UsersTypeOK, ProcessesTypeOK, UsersAtEngines,
           TalkersHaveOne, StepsOfUsers, HolderHolds,
           EngineNext \/ UNCHANGED engineVars
    PROVE  HolderHolds'
<1>1. ASSUME NEW a \in Analyses, BeginAnalysis(a) PROVE HolderHolds'
  BY <1>1, BeginAnalysisIs, UserKinds
  DEF BeginAnalysis, At, HolderHolds, Holding, Pcs, Said, UsersAtEngines,
      CountsTypeOK, StepsOfUsers
<1>2. ASSUME NEW a \in Analyses, NameView(a) PROVE HolderHolds'
  BY <1>2, GoesIs, UserKinds
  DEF NameView, At, HolderHolds, Holding, Pcs, Said, UsersAtEngines,
      CountsTypeOK
<1>3. ASSUME NEW a \in Analyses, TakeTicket(a) PROVE HolderHolds'
  <2>1. UNCHANGED holder
    BY <1>3 DEF TakeTicket
  <2> QED
    BY <1>3, <2>1, TakeTicketIs, HolderKeeps, UserKinds DEF Holding
<1>4. ASSUME NEW a \in Analyses, LockSlot(a) PROVE HolderHolds'
  BY <1>4, GoesIs, UserKinds
  DEF LockSlot, At, HeldBy, Newest, HolderHolds, Holding, Pcs, Said,
      UsersAtEngines, CountsTypeOK
<1>5. ASSUME NEW a \in Analyses, TellSearch(a) PROVE HolderHolds'
  BY <1>5, GoesIs, UserKinds
  DEF TellSearch, At, HolderHolds, Holding, Pcs, Said, UsersAtEngines,
      CountsTypeOK
<1>6. ASSUME NEW a \in Analyses, HearInfo(a) PROVE HolderHolds'
  BY <1>6, UserKinds
  DEF HearInfo, At, Hears, Word, HolderHolds, Holding, Pcs, Said
<1>7. ASSUME NEW a \in Analyses, HearBest(a) PROVE HolderHolds'
  <2>1. HeldBy(user[a].eng, Nobody) /\ user[a].eng \in Engines
    BY <1>7, UserKinds DEF HearBest, Release, At, UsersAtEngines
  <2> QED
    BY <1>7, <2>1, HearBestIs, HolderLets, UserKinds DEF Holding
<1>8. ASSUME NEW a \in Analyses, LookAtTurn(a) PROVE HolderHolds'
  BY <1>8, GoesIs, UserKinds
  DEF LookAtTurn, At, Newest, HolderHolds, Holding, Pcs, Said, UsersAtEngines,
      CountsTypeOK
<1>9. ASSUME NEW a \in Analyses, LookAtClient(a) PROVE HolderHolds'
  BY <1>9, GoesIs, UserKinds
  DEF LookAtClient, At, Newest, HolderHolds, Holding, Pcs, Said,
      UsersAtEngines, CountsTypeOK
<1>10. ASSUME NEW a \in Analyses, HearStopped(a) PROVE HolderHolds'
  <2>1. CASE UNCHANGED <<user, holder>>
    BY <2>1 DEF HolderHolds
  <2>2. CASE user[a].pc = "stopping" /\ user'[a].pc = "superseding" /\ user'[a].eng = user[a].eng /\ UNCHANGED holder
    BY <1>10, <2>2, HearStoppedIs, HolderKeeps, UserKinds DEF Holding
  <2>3. CASE user[a].pc = "leaving" /\ user'[a].pc = "over" /\ HeldBy(user[a].eng, Nobody)
    BY <1>10, <2>3, HearStoppedIs, HolderLets, UserKinds DEF Holding
  <2> QED
    BY <1>10, <2>1, <2>2, <2>3, HearStoppedIs
<1>11. ASSUME NEW a \in Analyses, Superseded(a) PROVE HolderHolds'
  BY <1>11, OverIs, UserKinds
  DEF Superseded, At, HeldBy, HolderHolds, Holding, Pcs, Said, UsersAtEngines,
      CountsTypeOK
<1>12. ASSUME NEW a \in Analyses, ClientLeaves(a) PROVE HolderHolds'
  BY <1>12, GoneIs, UserKinds DEF ClientLeaves, HolderHolds, Holding, Pcs, Said
<1>13. ASSUME NEW w \in WarmUps, Warm(w) PROVE HolderHolds'
  BY <1>13, WarmIs, UserKinds
  DEF Warm, At, HolderHolds, Holding, Pcs, Said, UsersAtEngines, CountsTypeOK,
      StepsOfUsers
<1>14. ASSUME NEW w \in WarmUps, TrySlot(w) PROVE HolderHolds'
  BY <1>14, GoesIs, OverIs, UserKinds
  DEF TrySlot, At, HeldBy, HolderHolds, Holding, Pcs, Said, UsersAtEngines,
      CountsTypeOK
<1>15. ASSUME NEW u \in Users, StartProcess(u) PROVE HolderHolds'
  BY SMTT(60), <1>15, GoesIs, UserKinds
  DEF StartProcess, Runs, At, HolderHolds, Holding, Pcs, Said, UsersAtEngines,
      CountsTypeOK, StepsOfUsers
<1>16. ASSUME NEW u \in Users, HearReady(u) PROVE HolderHolds'
  BY <1>16, GoesIs, OverIs, UserKinds
  DEF HearReady, At, Hears, Word, HeldBy, HolderHolds, Holding, Pcs, Said,
      UsersAtEngines, CountsTypeOK
<1>17. ASSUME NEW u \in Users, Lose(u) PROVE HolderHolds'
  <2>1. CASE user[u].pc = "stopping" /\ user'[u].pc = "superseding" /\ user'[u].eng = user[u].eng /\ UNCHANGED holder
    BY <1>17, <2>1, LoseIs, HolderKeeps DEF Holding
  <2>2. CASE user'[u].pc = "over" /\ HeldBy(user[u].eng, Nobody)
    BY <1>17, <2>2, LoseIs, HolderLets DEF Holding, Talking
  <2> QED
    BY <1>17, <2>1, <2>2, LoseIs
<1>18. ASSUME NEW u \in Users, StartFails(u) PROVE HolderHolds'
  BY <1>18, OverIs, UserKinds
  DEF StartFails, At, Runs, Upset, Release, HeldBy, HolderHolds, Holding, Pcs,
      Said, UsersAtEngines, CountsTypeOK
<1>19. ASSUME NEW e \in Engines, EndIdle(e) PROVE HolderHolds'
  BY <1>19, UserKinds DEF EndIdle, HolderHolds, Holding, Pcs, Said
<1>20. ASSUME NEW e \in Engines, DropReplaced(e) PROVE HolderHolds'
  BY <1>20, UserKinds DEF DropReplaced, HolderHolds, Holding, Pcs, Said
<1>21. ASSUME NEW e \in Engines, TakeCommand(e) PROVE HolderHolds'
  BY <1>21, UserKinds DEF TakeCommand, Runs, HolderHolds, Holding, Pcs, Said
<1>22. ASSUME NEW e \in Engines, Inform(e) PROVE HolderHolds'
  BY <1>22, UserKinds DEF Inform, Runs, HolderHolds, Holding, Pcs, Said
<1>23. ASSUME NEW e \in Engines, BestIfStopped(e) PROVE HolderHolds'
  BY <1>23, UserKinds
  DEF BestIfStopped, Runs, EndSearch, HolderHolds, Holding, Pcs, Said
<1>24. ASSUME NEW e \in Engines, BestOfItself(e) PROVE HolderHolds'
  BY <1>24, UserKinds
  DEF BestOfItself, Runs, EndSearch, HolderHolds, Holding, Pcs, Said
<1>25. ASSUME NEW e \in Engines, Die(e) PROVE HolderHolds'
  BY <1>25, UserKinds DEF Die, Runs, Upset, HolderHolds, Holding, Pcs, Said
<1>26. CASE Replace
  BY <1>26, UserKinds DEF Replace, HolderHolds, Holding, Pcs, Said
<1>27. CASE UNCHANGED engineVars
  BY <1>27, UserKinds DEF engineVars, HolderHolds, Holding, Pcs, Said
<1> QED
  BY <1>1, <1>2, <1>3, <1>4, <1>5, <1>6, <1>7, <1>8, <1>9, <1>10, <1>11, <1>12,
     <1>13, <1>14, <1>15, <1>16, <1>17, <1>18, <1>19, <1>20, <1>21, <1>22,
     <1>23, <1>24, <1>25, <1>26, <1>27
  DEF EngineNext, AnalysisStep, SlotStep

-----------------------------------------------------------------------------
(* How what lies between a process and its holder changes: as the holder   *)
(* tells and hears, and as the process takes commands and speaks.          *)
SameSearch(p, r) == r.search = p.search /\ r.stopped = p.stopped
Told(p, r, c) == r.in = Append(p.in, c) /\ r.out = p.out /\ SameSearch(p, r)
HeardOne(p, r) == p.out # <<>> /\ r.out = Tail(p.out) /\ r.in = p.in /\ SameSearch(p, r)

(* An idle process that is asked whether it is ready is in step.           *)
LEMMA IdleAsked ==
    ASSUME NEW p \in Processes, NEW r \in Processes, IdleProcess(p), Told(p, r, <<"isready">>)
    PROVE  Syncing(r)
<1>1. <<"isready">> \in Commands /\ <<"stop">> \in Commands
  BY Words
<1>2. CASE p.in = <<>>
  <2>1. r.in = <<<<"isready">>>>
    BY <1>1, <1>2, PipeFacts DEF Told
  <2> QED
    BY <2>1 DEF IdleProcess, Told, SameSearch, Syncing, Quiet
<1>3. CASE p.in = <<<<"stop">>>>
  <2>1. r.in = <<<<"stop">>, <<"isready">>>>
    BY ZenonT(60), <1>1, <1>3, PipeFacts DEF Told
  <2> QED
    BY <2>1 DEF IdleProcess, Told, SameSearch, Syncing, Quiet
<1> QED
  BY <1>2, <1>3 DEF IdleProcess

(* The only line of a process in step that is asked is that it is ready.   *)
LEMMA SyncingHears ==
    ASSUME NEW p \in Processes, NEW r \in Processes, Syncing(p), HeardOne(p, r)
    PROVE  Head(p.out) = <<"readyok">> /\ Ready(r)
<1>1. p.out = <<<<"readyok">>>> /\ p.in = <<>> /\ Quiet(p)
  BY DEF Syncing, HeardOne
<1>2. Head(p.out) = <<"readyok">> /\ Tail(p.out) = <<>>
  BY <1>1, Words, PipeFacts
<1> QED
  BY <1>1, <1>2 DEF HeardOne, SameSearch, Ready, Quiet

(* A ready process is told a search.                                       *)
LEMMA ReadyTold ==
    ASSUME NEW p \in Processes, NEW r \in Processes, NEW a \in Analyses, Ready(p), Told(p, r, <<"go", a>>)
    PROVE  Searching(r, a)
<1>1. <<"go", a>> \in Commands
  BY Words
<1>2. r.in = <<<<"go", a>>>>
  BY <1>1, PipeFacts DEF Ready, Told
<1> QED
  BY <1>2 DEF Ready, Told, SameSearch, Searching, Quiet

(* What is heard of a search is on its way or its own best move.           *)
LEMMA RunningHears ==
    ASSUME NEW p \in Processes, NEW r \in Processes, NEW a \in Analyses, Searching(p, a), HeardOne(p, r)
    PROVE  \/ Head(p.out) = Info /\ Searching(r, a)
           \/ Head(p.out) = Best(a) /\ IdleProcess(r)
<1>1. p.out \in Seq(Lines) /\ p.out # <<>>
  BY DEF Processes, HeardOne
<1>2. CASE p.in = <<>> /\ UnderWay(p, a) /\ ~p.stopped
  <2>1. Head(p.out) = Info /\ OnlyInfo(Tail(p.out))
    BY <1>1, <1>2, InfoHeard DEF UnderWay
  <2> QED
    BY <1>2, <2>1 DEF HeardOne, SameSearch, Searching, UnderWay
<1>3. CASE p.in = <<>> /\ SearchOver(p, a)
  <2>1. \/ Head(p.out) = Best(a) /\ Tail(p.out) = <<>>
        \/ Head(p.out) = Info /\ InfoThenBest(Tail(p.out), a)
    BY <1>1, <1>3, BestHeard DEF SearchOver
  <2> QED
    BY <1>3, <2>1 DEF HeardOne, SameSearch, Searching, SearchOver, IdleProcess, Quiet
<1> QED
  BY <1>1, <1>2, <1>3 DEF Searching

(* A search that is told to stop.                                          *)
LEMMA RunningTold ==
    ASSUME NEW p \in Processes, NEW r \in Processes, NEW a \in Analyses, Searching(p, a), Told(p, r, <<"stop">>)
    PROVE  Stopping(r, a)
<1>1. <<"go", a>> \in Commands /\ <<"stop">> \in Commands
  BY Words
<1>2. CASE Quiet(p) /\ p.in = <<<<"go", a>>>> /\ p.out = <<>>
  <2>1. r.in = <<<<"go", a>>, <<"stop">>>>
    BY ZenonT(60), <1>1, <1>2, PipeFacts DEF Told
  <2> QED
    BY <1>2, <2>1 DEF Told, SameSearch, Stopping, Quiet
<1>3. CASE p.in = <<>> /\ ((UnderWay(p, a) /\ ~p.stopped) \/ SearchOver(p, a))
  <2>1. r.in = <<<<"stop">>>>
    BY <1>1, <1>3, PipeFacts DEF Told
  <2> QED
    BY <1>3, <2>1 DEF Told, SameSearch, Stopping, UnderWay, SearchOver, Quiet
<1> QED
  BY <1>2, <1>3 DEF Searching

(* What is heard of a search that stops is on its way or its own best move.*)
LEMMA StoppingHears ==
    ASSUME NEW p \in Processes, NEW r \in Processes, NEW a \in Analyses, Stopping(p, a), HeardOne(p, r)
    PROVE  \/ Head(p.out) = Info /\ Stopping(r, a)
           \/ Head(p.out) = Best(a) /\ IdleProcess(r)
<1>1. p.out \in Seq(Lines) /\ p.out # <<>>
  BY DEF Processes, HeardOne
<1>2. CASE UnderWay(p, a)
  <2>1. Head(p.out) = Info /\ OnlyInfo(Tail(p.out))
    BY <1>1, <1>2, InfoHeard DEF UnderWay
  <2>2. UnderWay(r, a)
    BY <1>2, <2>1 DEF HeardOne, SameSearch, UnderWay
  <2>3. ~Quiet(p)
    BY <1>2, UserKinds DEF UnderWay, Quiet
  <2>4. (p.in = <<<<"stop">>>> /\ ~p.stopped) \/ (p.in = <<>> /\ p.stopped)
    BY <2>3 DEF Stopping, SearchOver
  <2>5. Stopping(r, a)
    BY <2>2, <2>4 DEF HeardOne, SameSearch, Stopping
  <2> QED
    BY <2>1, <2>5
<1>3. CASE p.in \in {<<>>, <<<<"stop">>>>} /\ SearchOver(p, a)
  <2>1. \/ Head(p.out) = Best(a) /\ Tail(p.out) = <<>>
        \/ Head(p.out) = Info /\ InfoThenBest(Tail(p.out), a)
    BY <1>1, <1>3, BestHeard DEF SearchOver
  <2> QED
    BY <1>3, <2>1 DEF HeardOne, SameSearch, Stopping, SearchOver, IdleProcess, Quiet
<1> QED
  BY <1>1, <1>2, <1>3 DEF Stopping

(* A process that takes a command, says a line on its way, or ends its     *)
(* search, stays in step with the holder of its slot.                      *)
Took(p, r) ==
    /\ p.in # <<>> /\ r.in = Tail(p.in)
    /\ \/ Head(p.in)[1] = "isready" /\ r.out = Append(p.out, <<"readyok">>) /\ SameSearch(p, r)
       \/ /\ Head(p.in)[1] = "stop" /\ r.out = p.out /\ r.search = p.search
          /\ r.stopped = (p.search # Nobody)
       \/ Head(p.in)[1] = "go" /\ r.out = p.out /\ r.search = Head(p.in)[2] /\ r.stopped = p.stopped
SaidInfo(p, r) == p.search # Nobody /\ r.in = p.in /\ r.out = Append(p.out, Info) /\ SameSearch(p, r)
SaidBest(p, r) == p.search # Nobody /\ r.in = p.in /\ r.out = Append(p.out, Best(p.search)) /\ Quiet(r)

(* A process with nothing to say and nothing searched only has a stop to   *)
(* take that does nothing.                                                 *)
LEMMA IdleTook ==
    ASSUME NEW p \in Processes, NEW r \in Processes, IdleProcess(p), Took(p, r)
    PROVE  IdleProcess(r)
<1>1. p.in = <<<<"stop">>>> /\ Quiet(p) /\ p.out = <<>>
  BY DEF IdleProcess, Took
<1>2. Head(p.in) = <<"stop">> /\ Tail(p.in) = <<>> /\ Head(p.in)[1] = "stop"
  BY <1>1, Words, PipeFacts
<1> QED
  BY <1>1, <1>2 DEF Took, IdleProcess, Quiet

LEMMA SyncingTook ==
    ASSUME NEW p \in Processes, NEW r \in Processes, Syncing(p), Took(p, r)
    PROVE  Syncing(r)
<1>1. Quiet(p) /\ p.out = <<>> /\ p.in # <<>>
  BY DEF Syncing, Took
<1>2. CASE p.in = <<<<"isready">>>>
  <2>1. Head(p.in)[1] = "isready" /\ Tail(p.in) = <<>> /\ Append(p.out, <<"readyok">>) = <<<<"readyok">>>>
    BY <1>1, <1>2, Words, PipeFacts
  <2> QED
    BY <1>1, <2>1 DEF Took, SameSearch, Syncing, Quiet
<1>3. CASE p.in = <<<<"stop">>, <<"isready">>>>
  <2>1. Head(p.in)[1] = "stop" /\ Tail(p.in) = <<<<"isready">>>>
    BY <1>3, Words, PipeFacts
  <2> QED
    BY <1>1, <2>1 DEF Took, Syncing, Quiet
<1> QED
  BY <1>1, <1>2, <1>3 DEF Syncing

LEMMA RunningTook ==
    ASSUME NEW p \in Processes, NEW r \in Processes, NEW a \in Analyses, Searching(p, a), Took(p, r)
    PROVE  Searching(r, a)
<1>1. Quiet(p) /\ p.in = <<<<"go", a>>>> /\ p.out = <<>>
  BY DEF Searching, Took
<1>2. Head(p.in)[1] = "go" /\ Head(p.in)[2] = a /\ Tail(p.in) = <<>>
  BY <1>1, Words, PipeFacts
<1>3. r.in = <<>> /\ r.out = <<>> /\ r.search = a /\ ~r.stopped
  BY <1>1, <1>2 DEF Took, Quiet
<1>4. OnlyInfo(r.out)
  BY <1>3 DEF OnlyInfo
<1> QED
  BY <1>3, <1>4 DEF Searching, UnderWay

LEMMA StoppingTook ==
    ASSUME NEW p \in Processes, NEW r \in Processes, NEW a \in Analyses, Stopping(p, a), Took(p, r)
    PROVE  Stopping(r, a)
<1>1. CASE Quiet(p) /\ p.in = <<<<"go", a>>, <<"stop">>>> /\ p.out = <<>>
  <2>1. Head(p.in)[1] = "go" /\ Head(p.in)[2] = a /\ Tail(p.in) = <<<<"stop">>>>
    BY <1>1, Words, PipeFacts
  <2>2. r.in = <<<<"stop">>>> /\ r.out = <<>> /\ r.search = a /\ ~r.stopped
    BY <1>1, <2>1 DEF Took, Quiet
  <2>3. OnlyInfo(r.out)
    BY <2>2 DEF OnlyInfo
  <2> QED
    BY <2>2, <2>3 DEF Stopping, UnderWay
<1>2. CASE p.in = <<<<"stop">>>>
  <2>1. Head(p.in)[1] = "stop" /\ Tail(p.in) = <<>>
    BY <1>2, Words, PipeFacts
  <2>2. r.in = <<>> /\ r.out = p.out /\ r.search = p.search /\ r.stopped = (p.search # Nobody)
    BY <2>1 DEF Took
  <2>3. CASE UnderWay(p, a)
    BY <2>2, <2>3, UserKinds DEF Stopping, UnderWay
  <2>4. CASE SearchOver(p, a)
    BY <2>2, <2>4 DEF Stopping, SearchOver, Quiet
  <2>5. UnderWay(p, a) \/ SearchOver(p, a)
    <3>1. p.in # <<<<"go", a>>, <<"stop">>>>
      BY <1>2, Len(<<<<"stop">>>>) = 1, Len(<<<<"go", a>>, <<"stop">>>>) = 2
    <3> QED
      BY <3>1 DEF Stopping
  <2> QED
    BY <2>3, <2>4, <2>5
<1> QED
  BY <1>1, <1>2 DEF Stopping, Took

LEMMA SearchSaid ==
    ASSUME NEW p \in Processes, NEW a \in Analyses, p.search # Nobody,
           Searching(p, a) \/ Stopping(p, a)
    PROVE  /\ UnderWay(p, a) /\ p.search = a
           /\ Searching(p, a) => p.in = <<>> /\ ~p.stopped
           /\ Stopping(p, a) => (p.in = <<<<"stop">>>> /\ ~p.stopped) \/ (p.in = <<>> /\ p.stopped)
BY DEF Searching, Stopping, UnderWay, SearchOver, Quiet

LEMMA RunningSaid ==
    ASSUME NEW p \in Processes, NEW r \in Processes, NEW a \in Analyses, Searching(p, a) \/ Stopping(p, a),
           SaidInfo(p, r) \/ SaidBest(p, r)
    PROVE  (Searching(p, a) => Searching(r, a)) /\ (Stopping(p, a) => Stopping(r, a))
<1>1. /\ UnderWay(p, a) /\ p.search = a
      /\ Searching(p, a) => p.in = <<>> /\ ~p.stopped
      /\ Stopping(p, a) => (p.in = <<<<"stop">>>> /\ ~p.stopped) \/ (p.in = <<>> /\ p.stopped)
  BY SearchSaid DEF SaidInfo, SaidBest
<1>2. p.out \in Seq(Lines) /\ Info \in Lines /\ Best(a) \in Lines
  BY Words DEF Processes
<1>3. OnlyInfo(Append(p.out, Info)) /\ InfoThenBest(Append(p.out, Best(a)), a)
  BY <1>1, <1>2, InfoSaid DEF UnderWay
<1>4. CASE SaidInfo(p, r)
  <2>1. UnderWay(r, a) /\ r.in = p.in /\ r.stopped = p.stopped
    BY <1>1, <1>3, <1>4 DEF SaidInfo, SameSearch, UnderWay
  <2> QED
    BY <1>1, <2>1 DEF Searching, Stopping
<1>5. CASE SaidBest(p, r)
  <2>1. SearchOver(r, a) /\ r.in = p.in
    BY <1>1, <1>3, <1>5 DEF SaidBest, SearchOver
  <2> QED
    BY <1>1, <2>1 DEF Searching, Stopping
<1> QED
  BY <1>4, <1>5

(* The same for the holder wherever it is.                                 *)
LEMMA TookInStep ==
    ASSUME NEW p \in Processes, NEW r \in Processes, NEW u, NEW pc, InStep(p, u, pc), Took(p, r),
           pc \in {"running", "stopping", "leaving"} => u \in Analyses
    PROVE  InStep(r, u, pc)
<1>1. pc # "ready"
  BY DEF InStep, Ready, Took
<1> QED
  BY <1>1, IdleTook, SyncingTook, RunningTook, StoppingTook DEF InStep

LEMMA SaidInStep ==
    ASSUME NEW p \in Processes, NEW r \in Processes, NEW u, NEW pc, InStep(p, u, pc),
           SaidInfo(p, r) \/ SaidBest(p, r),
           pc \in {"running", "stopping", "leaving"} => u \in Analyses
    PROVE  InStep(r, u, pc)
<1>1. ~Quiet(p)
  BY DEF Quiet, SaidInfo, SaidBest
<1>2. pc \notin {"free", "starting", "superseding", "syncing", "ready"}
  BY <1>1 DEF InStep, IdleProcess, Syncing, Ready
<1> QED
  BY <1>2, RunningSaid DEF InStep

-----------------------------------------------------------------------------
(* What the steps of a process do to it.                                   *)
LEMMA TakeCommandIs ==
    ASSUME ProcessesTypeOK, NEW e \in Engines, TakeCommand(e)
    PROVE  /\ ProcessesTypeOK' /\ process[e] # Nobody /\ process'[e] # Nobody
           /\ Took(process[e], process'[e])
           /\ \A f \in Engines : f # e => process'[f] = process[f]
<1> DEFINE p == process[e]
           c == Head(p.in)
           s == Tail(p.in)
           q == [p EXCEPT !.in = Tail(@)]
<1>1. p \in Processes /\ p # Nobody /\ p.in # <<>> /\ p.in \in Seq(Commands)
  BY DEF TakeCommand, Runs, ProcessesTypeOK, Processes
<1>2. c \in Commands /\ s \in Seq(Commands)
  BY <1>1
<1>3. /\ q \in Processes /\ q.in = s /\ q.out = p.out
      /\ q.search = p.search /\ q.stopped = p.stopped
  <2> HIDE DEF s
  <2>1. q = [p EXCEPT !.in = s]
    BY <1>1 DEF s, Processes
  <2> QED
    BY <1>1, <1>2, <2>1 DEF Processes
<1> HIDE DEF q
<1>4. CASE c[1] = "isready"
  <2> DEFINE r == Says(q, <<"readyok">>)
  <2>1. process' = [process EXCEPT ![e] = r]
    BY <1>4 DEF TakeCommand, q
  <2>2. <<"readyok">> \in Lines
    BY Words
  <2>3. r \in Processes /\ r.in = s /\ r.out = Append(p.out, <<"readyok">>) /\ SameSearch(p, r)
    BY <1>3, <2>2, SaidRecord DEF SameSearch
  <2> HIDE DEF r
  <2> QED
    BY <1>1, <1>4, <2>1, <2>3, SetIs DEF Took
<1>5. CASE c[1] = "stop"
  <2> DEFINE r == [q EXCEPT !.stopped = p.search # Nobody]
  <2>1. process' = [process EXCEPT ![e] = r]
    BY <1>5 DEF TakeCommand, q
  <2>2. /\ r \in Processes /\ r.in = q.in /\ r.out = q.out /\ r.search = q.search
        /\ r.stopped = (p.search # Nobody)
    BY <1>3 DEF Processes
  <2> HIDE DEF r
  <2> QED
    BY <1>1, <1>3, <1>5, <2>1, <2>2, SetIs DEF Took
<1>6. CASE c[1] = "go"
  <2> DEFINE a == c[2]
             r == [q EXCEPT !.search = a]
  <2>1. process' = [process EXCEPT ![e] = r]
    BY <1>6 DEF TakeCommand, q
  <2>2. a \in Analyses
    BY <1>2, <1>6, PipeKinds
  <2> HIDE DEF a
  <2>3. /\ r \in Processes /\ r.in = q.in /\ r.out = q.out /\ r.search = a /\ r.stopped = q.stopped
    BY <1>3, <2>2 DEF Processes
  <2> HIDE DEF r
  <2> QED
    BY <1>1, <1>3, <1>6, <2>1, <2>3, SetIs DEF Took, a
<1> QED
  BY <1>2, <1>4, <1>5, <1>6, PipeKinds

LEMMA InformIs ==
    ASSUME ProcessesTypeOK, NEW e \in Engines, Inform(e)
    PROVE  /\ ProcessesTypeOK' /\ process[e] # Nobody /\ process'[e] # Nobody
           /\ SaidInfo(process[e], process'[e])
           /\ \A f \in Engines : f # e => process'[f] = process[f]
<1>1. process[e] \in Processes /\ process[e] # Nobody /\ process[e].search # Nobody
  BY DEF Inform, Runs, ProcessesTypeOK
<1>2. process' = [process EXCEPT ![e] = Says(process[e], Info)]
  BY DEF Inform, ProcessesTypeOK, Info
<1> DEFINE r == Says(process[e], Info)
<1>3. r \in Processes /\ SaidInfo(process[e], r)
  BY <1>1, SaidRecord, Words DEF SaidInfo, SameSearch
<1> HIDE DEF r
<1>4. process' = [process EXCEPT ![e] = r]
  BY <1>2 DEF r
<1> QED
  BY <1>1, <1>3, <1>4, SetIs

LEMMA EndSearchIs ==
    ASSUME ProcessesTypeOK, NEW e \in Engines, Runs(e), process[e].search # Nobody, EndSearch(e)
    PROVE  /\ ProcessesTypeOK' /\ process'[e] # Nobody
           /\ SaidBest(process[e], process'[e])
           /\ \A f \in Engines : f # e => process'[f] = process[f]
<1> DEFINE p == process[e]
           q == [p EXCEPT !.search = Nobody, !.stopped = FALSE]
<1>1. p \in Processes /\ p # Nobody /\ p.search \in Analyses
  BY DEF Runs, ProcessesTypeOK, Processes
<1>2. process' = [process EXCEPT ![e] = Says(q, Best(p.search))]
  BY DEF EndSearch, Best
<1>3. q \in Processes /\ q.in = p.in /\ q.out = p.out /\ q.search = Nobody /\ q.stopped = FALSE
  BY <1>1 DEF Processes
<1> DEFINE r == Says(q, Best(p.search))
<1> HIDE DEF q
<1>4. Best(p.search) \in Lines
  BY <1>1, Words
<1>5. r \in Processes /\ SaidBest(p, r)
  BY <1>1, <1>3, <1>4, SaidRecord DEF SaidBest, Quiet
<1>6. process' = [process EXCEPT ![e] = r]
  BY <1>2
<1> HIDE DEF r
<1> QED
  BY <1>5, <1>6, SetIs

LEMMA DieIs ==
    ASSUME ProcessesTypeOK, NEW e \in Engines, Die(e)
    PROVE  /\ ProcessesTypeOK' /\ process[e] # Nobody /\ process'[e] # Nobody
           /\ process'[e].in = process[e].in /\ process'[e].out = process[e].out
           /\ SameSearch(process[e], process'[e])
           /\ \A f \in Engines : f # e => process'[f] = process[f]
<1> DEFINE r == [process[e] EXCEPT !.alive = FALSE]
<1>1. process[e] \in Processes /\ process[e] # Nobody
  BY DEF Die, Runs, ProcessesTypeOK
<1>2. process' = [process EXCEPT ![e] = r]
  BY DEF Die, ProcessesTypeOK
<1>3. r \in Processes /\ r.in = process[e].in /\ r.out = process[e].out /\ SameSearch(process[e], r)
  BY <1>1 DEF Processes, SameSearch
<1> HIDE DEF r
<1> QED
  BY <1>1, <1>2, <1>3, SetIs

(* A process that is gone is nobody.                                       *)
LEMMA GoneProcess ==
    ASSUME ProcessesTypeOK, NEW e \in Engines, process' = [process EXCEPT ![e] = Nobody]
    PROVE  /\ ProcessesTypeOK' /\ process'[e] = Nobody
           /\ \A f \in Engines : f # e => process'[f] = process[f]
BY DEF ProcessesTypeOK

(* A request starts a process, or takes the one that runs, and asks it.    *)
LEMMA StartProcessIs ==
    ASSUME ProcessesTypeOK, UsersAtEngines, NEW u \in Users, StartProcess(u)
    PROVE  LET e == user[u].eng IN
           /\ e \in Engines /\ ProcessesTypeOK' /\ process'[e] # Nobody
           /\ \E p \in Processes :
                 /\ p = process[e] \/ IdleProcess(p)
                 /\ Told(p, process'[e], <<"isready">>)
           /\ \A f \in Engines : f # e => process'[f] = process[f]
<1> DEFINE e == user[u].eng
           p == IF Runs(e) THEN process[e] ELSE Started
           r == [p EXCEPT !.in = Append(@, <<"isready">>)]
<1>1. e \in Engines
  BY DEF StartProcess, At, UsersAtEngines
<1>2. p \in Processes /\ (p = process[e] \/ IdleProcess(p))
  BY <1>1, StartedIs DEF Runs, ProcessesTypeOK, IdleProcess
<1>3. process' = [process EXCEPT ![e] = r]
  BY DEF StartProcess
<1> HIDE DEF p
<1>4. r \in Processes /\ Told(p, r, <<"isready">>)
  BY ZenonT(60), <1>2, ToldRecord, Words DEF Told, SameSearch
<1> HIDE DEF r
<1> QED
  BY <1>1, <1>2, <1>3, <1>4, SetIs

(* The pairing of a process and its holder does not look at more than      *)
(* what passes between them.                                               *)
LEMMA SameInStep ==
    ASSUME NEW p, NEW r, NEW u, NEW pc, InStep(p, u, pc),
           r.in = p.in, r.out = p.out, SameSearch(p, r)
    PROVE  InStep(r, u, pc)
BY DEF SameSearch, InStep, IdleProcess, Syncing, Ready, Searching, Stopping, Quiet, UnderWay, SearchOver
-----------------------------------------------------------------------------
(* Who holds the slot of another engine is another request, and where it   *)
(* is does not change with what this one does.                             *)
LEMMA OthersStay ==
    ASSUME HolderHolds, CountsTypeOK, NEW u \in Users, NEW f \in Engines,
           user[u].pc \in Holding => f # user[u].eng,
           \A v \in Users : v # u => user'[v] = user[v],
           holder'[f] = holder[f]
    PROVE  holder[f] # u /\ HolderStep(f)' = HolderStep(f)
<1>1. holder[f] # Nobody => user[holder[f]].pc \in Holding /\ user[holder[f]].eng = f
  BY DEF HolderHolds
<1>2. holder[f] # u
  BY <1>1, UserKinds
<1> QED
  BY <1>1, <1>2 DEF HolderStep, CountsTypeOK

Alone(u, e) ==
    /\ \A v \in Users : v # u => user'[v] = user[v]
    /\ \A f \in Engines : f # e => holder'[f] = holder[f] /\ process'[f] = process[f]

(* Of a step of a request at one engine, only that engine is to be looked  *)
(* at, and there the request before and after.                             *)
LEMMA InStepAt ==
    ASSUME HolderHolds, CountsTypeOK, ProcessInStep, NEW u \in Users, NEW e \in Engines,
           user[u].pc \in Holding => e = user[u].eng, Alone(u, e),
           process'[e] # Nobody => InStep(process'[e], holder'[e], HolderStep(e)')
    PROVE  ProcessInStep'
<1>1. ASSUME NEW f \in Engines, f # e, process'[f] # Nobody
      PROVE  InStep(process'[f], holder'[f], HolderStep(f)')
  BY <1>1, OthersStay DEF ProcessInStep, Alone
<1> QED
  BY <1>1 DEF ProcessInStep

(* A step of a process alone.                                              *)
LEMMA InStepOf ==
    ASSUME ProcessInStep, NEW e \in Engines, UNCHANGED <<user, holder>>,
           \A f \in Engines : f # e => process'[f] = process[f],
           process'[e] # Nobody => InStep(process'[e], holder[e], HolderStep(e))
    PROVE  ProcessInStep'
BY DEF ProcessInStep, HolderStep

(* A step of a request that holds no slot, or stays where it is.           *)
LEMMA InStepStays ==
    ASSUME HolderHolds, CountsTypeOK, ProcessInStep, NEW u \in Users,
           \A v \in Users : v # u => user'[v] = user[v],
           user[u].pc \in Holding => user'[u].pc = user[u].pc,
           UNCHANGED <<holder, process>>
    PROVE  ProcessInStep'
<1>1. ASSUME NEW f \in Engines PROVE HolderStep(f)' = HolderStep(f)
  BY DEF HolderHolds, HolderStep, CountsTypeOK
<1> QED
  BY <1>1 DEF ProcessInStep

(* Where the holder of a slot is.                                          *)
LEMMA HolderAt ==
    ASSUME HolderHolds, NEW u \in Users, user[u].pc \in Holding
    PROVE  holder[user[u].eng] = u /\ HolderStep(user[u].eng) = user[u].pc
BY UserKinds DEF HolderHolds, HolderStep

LEMMA HolderSteps ==
    ASSUME HolderHolds, CountsTypeOK, StepsOfUsers, NEW e \in Engines
    PROVE  /\ HolderStep(e) \in Holding \union {"free"}
           /\ HolderStep(e) \in {"running", "stopping", "leaving"} => holder[e] \in Analyses
<1>1. holder[e] # Nobody => holder[e] \in Users /\ user[holder[e]].pc \in Holding
  BY DEF HolderHolds, CountsTypeOK
<1> QED
  BY <1>1, UserKinds DEF HolderStep, StepsOfUsers

(* Only a search that is under way was told to stop.                       *)
LEMMA StoppedSearches ==
    ASSUME NEW p, NEW u \in Users, NEW pc \in Holding \union {"free"}, InStep(p, u, pc), p.stopped
    PROVE  p.search # Nobody
BY UserKinds DEF InStep, Holding, IdleProcess, Syncing, Ready, Searching, Stopping, Quiet, UnderWay, SearchOver

LEMMA NowAt ==
    ASSUME NEW e \in Engines
    PROVE  /\ holder'[e] = Nobody => HolderStep(e)' = "free"
           /\ \A u \in Users : holder'[e] = u => HolderStep(e)' = user'[u].pc
BY UserKinds DEF HolderStep

(* Who talks to a process has one, in step with it.                        *)
LEMMA TalkerAt ==
    ASSUME ProcessesTypeOK, UsersAtEngines, HolderHolds, TalkersHaveOne, ProcessInStep,
           NEW u \in Users, user[u].pc \in Talking
    PROVE  LET e == user[u].eng IN
           /\ e \in Engines /\ process[e] # Nobody /\ process[e] \in Processes
           /\ holder[e] = u /\ HolderStep(e) = user[u].pc
           /\ InStep(process[e], u, user[u].pc)
<1>1. user[u].pc \in Holding /\ user[u].eng \in Engines /\ process[user[u].eng] # Nobody
  BY DEF Talking, Holding, UsersAtEngines, TalkersHaveOne
<1> QED
  BY <1>1, HolderAt DEF ProcessInStep, ProcessesTypeOK

(* The slot let go with the process that was heard.                        *)
LEMMA ReleaseHeard ==
    ASSUME ProcessesTypeOK, NEW e \in Engines, Release(e, Heard(e)[e])
    PROVE  process' = Heard(e) /\ HeldBy(e, Nobody)
BY DEF Release, Heard, ProcessesTypeOK

(* A process that ends its search had one, stopped or not.                 *)
LEMMA SearchEnds ==
    ASSUME ProcessesTypeOK, CountsTypeOK, StepsOfUsers, HolderHolds, ProcessInStep,
           NEW e \in Engines, BestIfStopped(e) \/ BestOfItself(e)
    PROVE  /\ ProcessesTypeOK' /\ process[e] # Nobody /\ process'[e] # Nobody
           /\ SaidBest(process[e], process'[e])
           /\ \A f \in Engines : f # e => process'[f] = process[f]
           /\ UNCHANGED <<user, holder>>
<1>1. Runs(e) /\ EndSearch(e) /\ process[e] # Nobody /\ UNCHANGED <<user, holder>>
  BY DEF BestIfStopped, BestOfItself, Runs, EndSearch
<1>2. process[e].search # Nobody
  <2>1. CASE BestOfItself(e)
    BY <2>1 DEF BestOfItself
  <2>2. CASE BestIfStopped(e)
    <3>1. InStep(process[e], holder[e], HolderStep(e)) /\ process[e].stopped
      BY <1>1, <2>2 DEF ProcessInStep, BestIfStopped
    <3>2. HolderStep(e) = "free" => IdleProcess(process[e])
      BY <3>1 DEF InStep
    <3>3. holder[e] # Nobody => holder[e] \in Users
      BY DEF CountsTypeOK
    <3>4. HolderStep(e) \in Holding \union {"free"}
      BY HolderSteps
    <3>5. CASE holder[e] = Nobody
      BY <3>1, <3>2, <3>5 DEF HolderStep, IdleProcess, Quiet
    <3> QED
      BY <3>1, <3>3, <3>4, <3>5, StoppedSearches
  <2> QED
    BY <2>1, <2>2
<1> QED
  BY <1>1, <1>2, EndSearchIs

(* A request that tells its process something, or hears a line of it.      *)
LEMMA TellsIs ==
    ASSUME ProcessesTypeOK, UsersTypeOK, UsersAtEngines, TalkersHaveOne, NEW a \in Analyses,
           TellSearch(a) \/ LookAtTurn(a) \/ LookAtClient(a)
    PROVE  /\ ProcessesTypeOK'
           /\ user[a].pc \in Talking /\ user'[a].eng = user[a].eng
           /\ \A f \in Engines : process[f] # Nobody => process'[f] # Nobody
           /\ \A v \in Users : v # a => user'[v] = user[v]
<1> DEFINE e == user[a].eng
<1>1. /\ a \in Users /\ user[a].pc \in Talking
      /\ \E c \in {<<"go", a>>, <<"stop">>} : process' = Tell(e, c)
      /\ \E pc \in {"running", "stopping", "leaving"} : Goes(a, pc)
  BY UserKinds DEF TellSearch, LookAtTurn, LookAtClient, At, Talking
<1>2. e \in Engines /\ process[e] # Nobody
  BY <1>1 DEF UsersAtEngines, TalkersHaveOne, Talking
<1>3. <<"go", a>> \in Commands /\ <<"stop">> \in Commands
  BY Words
<1>4. ProcessesTypeOK' /\ (\A f \in Engines : process[f] # Nobody => process'[f] # Nobody)
  BY <1>1, <1>2, <1>3, ToldIs
<1>5. user'[a].eng = user[a].eng /\ (\A v \in Users : v # a => user'[v] = user[v])
  BY <1>1, GoesIs DEF Pcs
<1> QED
  BY <1>1, <1>4, <1>5

LEMMA HearsIs ==
    ASSUME ProcessesTypeOK, UsersTypeOK, UsersAtEngines, TalkersHaveOne, NEW u \in Users,
           \/ HearReady(u)
           \/ u \in Analyses /\ (HearInfo(u) \/ HearBest(u) \/ HearStopped(u))
    PROVE  /\ ProcessesTypeOK'
           /\ user[u].pc \in Talking /\ (user'[u].pc \in Talking => user'[u].eng = user[u].eng)
           /\ \A f \in Engines : process[f] # Nobody => process'[f] # Nobody
           /\ \A v \in Users : v # u => user'[v] = user[v]
<1> DEFINE e == user[u].eng
<1>1. user[u].pc \in Talking /\ Hears(e) /\ (process' = Heard(e) \/ Release(e, Heard(e)[e]))
  BY DEF HearReady, HearInfo, HearBest, HearStopped, At, Talking
<1>2. e \in Engines /\ process[e] # Nobody
  BY <1>1 DEF UsersAtEngines, TalkersHaveOne, Talking
<1>3. ProcessesTypeOK' /\ (\A f \in Engines : process[f] # Nobody => process'[f] # Nobody)
  BY <1>1, <1>2, ReleaseHeard, HeardIs
<1>4. /\ user'[u].pc \in Talking => user'[u].eng = user[u].eng
      /\ \A v \in Users : v # u => user'[v] = user[v]
  <2>1. CASE HearReady(u)
    <3>1. UNCHANGED user \/ Goes(u, "ready") \/ Over(u, "ready")
      BY <2>1 DEF HearReady
    <3> QED
      BY <3>1, GoesIs, OverIs DEF Pcs, Said, Talking
  <2>2. CASE u \in Analyses /\ HearInfo(u)
    BY <2>2 DEF HearInfo
  <2>3. CASE u \in Analyses /\ HearBest(u)
    BY <2>3, HearBestIs DEF Talking
  <2>4. CASE u \in Analyses /\ HearStopped(u)
    BY <2>4, HearStoppedIs DEF Talking
  <2> QED
    BY <2>1, <2>2, <2>3, <2>4
<1> QED
  BY <1>1, <1>3, <1>4

(* Who talks to a process has one as long as no process goes.              *)
LEMMA TalkersKeep ==
    ASSUME TalkersHaveOne, UsersAtEngines, NEW u \in Users,
           \A v \in Users : v # u => user'[v] = user[v],
           \A f \in Engines : process[f] # Nobody => process'[f] # Nobody,
           user'[u].pc \in Talking => user'[u].eng \in Engines /\ process'[user'[u].eng] # Nobody
    PROVE  TalkersHaveOne'
BY DEF TalkersHaveOne, UsersAtEngines, Talking

LEMMA TalkersStay ==
    ASSUME TalkersHaveOne, UsersAtEngines, UNCHANGED user,
           \A f \in Engines : process[f] # Nobody => process'[f] # Nobody
    PROVE  TalkersHaveOne'
BY DEF TalkersHaveOne, UsersAtEngines, Talking

(* Every step keeps the types of the processes.                            *)
LEMMA ProcessesTypeStep ==
    ASSUME CountsTypeOK, UsersTypeOK, ProcessesTypeOK, UsersAtEngines,
           TalkersHaveOne, StepsOfUsers, HolderHolds, ProcessInStep,
           EngineNext \/ UNCHANGED engineVars
    PROVE  ProcessesTypeOK'
<1>1. ASSUME NEW a \in Analyses, BeginAnalysis(a) PROVE ProcessesTypeOK'
  BY <1>1, BeginAnalysisIs, UserKinds, TalkerAt
  DEF BeginAnalysis, At, ProcessesTypeOK, Talking
<1>2. ASSUME NEW a \in Analyses, NameView(a) PROVE ProcessesTypeOK'
  BY <1>2, UserKinds DEF NameView, At, ProcessesTypeOK
<1>3. ASSUME NEW a \in Analyses, TakeTicket(a) PROVE ProcessesTypeOK'
  BY <1>3, TakeTicketIs, UserKinds, TalkerAt
  DEF TakeTicket, At, ProcessesTypeOK, Talking
<1>4. ASSUME NEW a \in Analyses, LockSlot(a) PROVE ProcessesTypeOK'
  BY <1>4, UserKinds DEF LockSlot, At, HeldBy, Newest, ProcessesTypeOK
<1>5. ASSUME NEW a \in Analyses, TellSearch(a) PROVE ProcessesTypeOK'
  BY <1>5, TellsIs, UserKinds
<1>6. ASSUME NEW a \in Analyses, HearInfo(a) PROVE ProcessesTypeOK'
  BY <1>6, HearsIs, UserKinds
<1>7. ASSUME NEW a \in Analyses, HearBest(a) PROVE ProcessesTypeOK'
  BY <1>7, HearsIs, UserKinds
<1>8. ASSUME NEW a \in Analyses, LookAtTurn(a) PROVE ProcessesTypeOK'
  BY <1>8, TellsIs, UserKinds
<1>9. ASSUME NEW a \in Analyses, LookAtClient(a) PROVE ProcessesTypeOK'
  BY <1>9, TellsIs, UserKinds
<1>10. ASSUME NEW a \in Analyses, HearStopped(a) PROVE ProcessesTypeOK'
  BY <1>10, HearsIs, UserKinds
<1>11. ASSUME NEW a \in Analyses, Superseded(a) PROVE ProcessesTypeOK'
  BY <1>11, UserKinds DEF Superseded, At, HeldBy, ProcessesTypeOK
<1>12. ASSUME NEW a \in Analyses, ClientLeaves(a) PROVE ProcessesTypeOK'
  BY <1>12, UserKinds DEF ClientLeaves, ProcessesTypeOK
<1>13. ASSUME NEW w \in WarmUps, Warm(w) PROVE ProcessesTypeOK'
  BY <1>13, WarmIs, UserKinds, TalkerAt DEF Warm, At, ProcessesTypeOK, Talking
<1>14. ASSUME NEW w \in WarmUps, TrySlot(w) PROVE ProcessesTypeOK'
  BY <1>14, UserKinds DEF TrySlot, At, HeldBy, ProcessesTypeOK
<1>15. ASSUME NEW u \in Users, StartProcess(u) PROVE ProcessesTypeOK'
  BY <1>15, StartProcessIs, GoesIs, UserKinds DEF ProcessesTypeOK
<1>16. ASSUME NEW u \in Users, HearReady(u) PROVE ProcessesTypeOK'
  BY <1>16, HearsIs, UserKinds
<1>17. ASSUME NEW u \in Users, Lose(u) PROVE ProcessesTypeOK'
  BY <1>17, LoseIs, GoneProcess, UserKinds DEF ProcessesTypeOK
<1>18. ASSUME NEW u \in Users, StartFails(u) PROVE ProcessesTypeOK'
  BY <1>18, UserKinds
  DEF StartFails, At, Runs, Upset, Release, HeldBy, ProcessesTypeOK
<1>19. ASSUME NEW e \in Engines, EndIdle(e) PROVE ProcessesTypeOK'
  BY <1>19, UserKinds DEF EndIdle, ProcessesTypeOK
<1>20. ASSUME NEW e \in Engines, DropReplaced(e) PROVE ProcessesTypeOK'
  BY <1>20, UserKinds DEF DropReplaced, ProcessesTypeOK
<1>21. ASSUME NEW e \in Engines, TakeCommand(e) PROVE ProcessesTypeOK'
  BY <1>21, TakeCommandIs, UserKinds DEF ProcessesTypeOK
<1>22. ASSUME NEW e \in Engines, Inform(e) PROVE ProcessesTypeOK'
  BY <1>22, InformIs, UserKinds DEF ProcessesTypeOK
<1>23. ASSUME NEW e \in Engines, BestIfStopped(e) PROVE ProcessesTypeOK'
  BY <1>23, SearchEnds, UserKinds DEF ProcessesTypeOK
<1>24. ASSUME NEW e \in Engines, BestOfItself(e) PROVE ProcessesTypeOK'
  BY <1>24, SearchEnds, UserKinds DEF ProcessesTypeOK
<1>25. ASSUME NEW e \in Engines, Die(e) PROVE ProcessesTypeOK'
  BY <1>25, DieIs, UserKinds DEF ProcessesTypeOK
<1>26. CASE Replace
  BY <1>26, UserKinds DEF Replace, ProcessesTypeOK
<1>27. CASE UNCHANGED engineVars
  BY <1>27, UserKinds DEF engineVars, ProcessesTypeOK
<1> QED
  BY <1>1, <1>2, <1>3, <1>4, <1>5, <1>6, <1>7, <1>8, <1>9, <1>10, <1>11, <1>12,
     <1>13, <1>14, <1>15, <1>16, <1>17, <1>18, <1>19, <1>20, <1>21, <1>22,
     <1>23, <1>24, <1>25, <1>26, <1>27
  DEF EngineNext, AnalysisStep, SlotStep

(* A request that talks to a process has one.                              *)
LEMMA TalkersStep ==
    ASSUME CountsTypeOK, UsersTypeOK, ProcessesTypeOK, UsersAtEngines,
           TalkersHaveOne, StepsOfUsers, HolderHolds, ProcessInStep,
           EngineNext \/ UNCHANGED engineVars
    PROVE  TalkersHaveOne'
<1>1. ASSUME NEW a \in Analyses, BeginAnalysis(a) PROVE TalkersHaveOne'
  BY <1>1, BeginAnalysisIs, UserKinds, TalkerAt, HolderKeeps
  DEF BeginAnalysis, At, TalkersHaveOne, Talking, Pcs, Said, Holding
<1>2. ASSUME NEW a \in Analyses, NameView(a) PROVE TalkersHaveOne'
  BY <1>2, GoesIs, UserKinds
  DEF NameView, At, TalkersHaveOne, Talking, Pcs, Said
<1>3. ASSUME NEW a \in Analyses, TakeTicket(a) PROVE TalkersHaveOne'
  <2>1. user'[a].pc \notin Talking /\ UNCHANGED process
    BY <1>3, TakeTicketIs DEF TakeTicket, Talking
  <2> QED
    BY <1>3, <2>1, TakeTicketIs, TalkersKeep, UserKinds
<1>4. ASSUME NEW a \in Analyses, LockSlot(a) PROVE TalkersHaveOne'
  BY <1>4, GoesIs, UserKinds
  DEF LockSlot, At, HeldBy, Newest, TalkersHaveOne, Talking, Pcs, Said
<1>5. ASSUME NEW a \in Analyses, TellSearch(a) PROVE TalkersHaveOne'
  <2>1. user[a].eng \in Engines /\ process[user[a].eng] # Nobody
    BY <1>5, TellsIs, UserKinds DEF TalkersHaveOne, UsersAtEngines, Talking
  <2> QED
    BY <1>5, <2>1, TellsIs, TalkersKeep, UserKinds
<1>6. ASSUME NEW a \in Analyses, HearInfo(a) PROVE TalkersHaveOne'
  <2>1. user[a].eng \in Engines /\ process[user[a].eng] # Nobody
    BY <1>6, HearsIs, UserKinds DEF TalkersHaveOne, UsersAtEngines, Talking
  <2> QED
    BY <1>6, <2>1, HearsIs, TalkersKeep, UserKinds
<1>7. ASSUME NEW a \in Analyses, HearBest(a) PROVE TalkersHaveOne'
  <2>1. user[a].eng \in Engines /\ process[user[a].eng] # Nobody
    BY <1>7, HearsIs, UserKinds DEF TalkersHaveOne, UsersAtEngines, Talking
  <2> QED
    BY <1>7, <2>1, HearsIs, TalkersKeep, UserKinds
<1>8. ASSUME NEW a \in Analyses, LookAtTurn(a) PROVE TalkersHaveOne'
  <2>1. user[a].eng \in Engines /\ process[user[a].eng] # Nobody
    BY <1>8, TellsIs, UserKinds DEF TalkersHaveOne, UsersAtEngines, Talking
  <2> QED
    BY <1>8, <2>1, TellsIs, TalkersKeep, UserKinds
<1>9. ASSUME NEW a \in Analyses, LookAtClient(a) PROVE TalkersHaveOne'
  <2>1. user[a].eng \in Engines /\ process[user[a].eng] # Nobody
    BY <1>9, TellsIs, UserKinds DEF TalkersHaveOne, UsersAtEngines, Talking
  <2> QED
    BY <1>9, <2>1, TellsIs, TalkersKeep, UserKinds
<1>10. ASSUME NEW a \in Analyses, HearStopped(a) PROVE TalkersHaveOne'
  <2>1. user[a].eng \in Engines /\ process[user[a].eng] # Nobody
    BY <1>10, HearsIs, UserKinds DEF TalkersHaveOne, UsersAtEngines, Talking
  <2> QED
    BY <1>10, <2>1, HearsIs, TalkersKeep, UserKinds
<1>11. ASSUME NEW a \in Analyses, Superseded(a) PROVE TalkersHaveOne'
  BY <1>11, OverIs, UserKinds
  DEF Superseded, At, HeldBy, TalkersHaveOne, Talking, Pcs, Said
<1>12. ASSUME NEW a \in Analyses, ClientLeaves(a) PROVE TalkersHaveOne'
  BY <1>12, GoneIs, UserKinds
  DEF ClientLeaves, TalkersHaveOne, Talking, Pcs, Said
<1>13. ASSUME NEW w \in WarmUps, Warm(w) PROVE TalkersHaveOne'
  BY <1>13, WarmIs, UserKinds, TalkerAt, HolderKeeps
  DEF Warm, At, TalkersHaveOne, Talking, Pcs, Said, Holding
<1>14. ASSUME NEW w \in WarmUps, TrySlot(w) PROVE TalkersHaveOne'
  BY <1>14, GoesIs, OverIs, UserKinds
  DEF TrySlot, At, HeldBy, TalkersHaveOne, Talking, Pcs, Said
<1>15. ASSUME NEW u \in Users, StartProcess(u) PROVE TalkersHaveOne'
  <2>1. user'[u].pc = "syncing" /\ user'[u].eng = user[u].eng /\ (\A v \in Users : v # u => user'[v] = user[v])
    BY <1>15, GoesIs DEF StartProcess, Pcs
  <2>2. /\ user[u].eng \in Engines /\ process'[user[u].eng] # Nobody
        /\ \A f \in Engines : f # user[u].eng => process'[f] = process[f]
    BY <1>15, StartProcessIs
  <2> QED
    BY <2>1, <2>2, TalkersKeep
<1>16. ASSUME NEW u \in Users, HearReady(u) PROVE TalkersHaveOne'
  <2>1. user[u].eng \in Engines /\ process[user[u].eng] # Nobody
    BY <1>16, HearsIs, UserKinds DEF TalkersHaveOne, UsersAtEngines, Talking
  <2> QED
    BY <1>16, <2>1, HearsIs, TalkersKeep, UserKinds
<1>17. ASSUME NEW u \in Users, Lose(u) PROVE TalkersHaveOne'
  <2> DEFINE e == user[u].eng
  <2>1. e \in Engines /\ user[u].pc \in Holding /\ (\A f \in Engines : f # e => process'[f] = process[f])
    BY <1>17, LoseIs, GoneProcess DEF Talking, Holding
  <2>2. user'[u].pc \notin Talking /\ (\A v \in Users : v # u => user'[v] = user[v])
    BY <1>17, LoseIs DEF Talking
  <2>3. \A v \in Users : v # u /\ user[v].pc \in Talking => user[v].eng \in Engines /\ user[v].eng # e
    BY <2>1, UserKinds DEF HolderHolds, Holding, Talking, UsersAtEngines
  <2> QED
    BY <2>1, <2>2, <2>3 DEF TalkersHaveOne
<1>18. ASSUME NEW u \in Users, StartFails(u) PROVE TalkersHaveOne'
  BY <1>18, OverIs, UserKinds, TalkerAt, HolderKeeps
  DEF StartFails, At, Runs, Upset, Release, HeldBy, TalkersHaveOne, Talking,
      Pcs, Said, Holding, UsersAtEngines, HolderHolds
<1>19. ASSUME NEW e \in Engines, EndIdle(e) PROVE TalkersHaveOne'
  BY <1>19, UserKinds, TalkerAt, HolderKeeps
  DEF EndIdle, TalkersHaveOne, Talking, Pcs, Said, Holding
<1>20. ASSUME NEW e \in Engines, DropReplaced(e) PROVE TalkersHaveOne'
  BY <1>20, UserKinds DEF DropReplaced, TalkersHaveOne, Talking, Pcs, Said
<1>21. ASSUME NEW e \in Engines, TakeCommand(e) PROVE TalkersHaveOne'
  <2>1. UNCHANGED user
    BY <1>21 DEF TakeCommand
  <2> QED
    BY <1>21, <2>1, TakeCommandIs, TalkersStay
<1>22. ASSUME NEW e \in Engines, Inform(e) PROVE TalkersHaveOne'
  <2>1. UNCHANGED user
    BY <1>22 DEF Inform
  <2> QED
    BY <1>22, <2>1, InformIs, TalkersStay
<1>23. ASSUME NEW e \in Engines, BestIfStopped(e) PROVE TalkersHaveOne'
  <2>1. UNCHANGED user
    BY <1>23, SearchEnds DEF BestIfStopped
  <2> QED
    BY <1>23, <2>1, SearchEnds, TalkersStay
<1>24. ASSUME NEW e \in Engines, BestOfItself(e) PROVE TalkersHaveOne'
  <2>1. UNCHANGED user
    BY <1>24, SearchEnds DEF BestOfItself
  <2> QED
    BY <1>24, <2>1, SearchEnds, TalkersStay
<1>25. ASSUME NEW e \in Engines, Die(e) PROVE TalkersHaveOne'
  <2>1. UNCHANGED user
    BY <1>25 DEF Die
  <2> QED
    BY <1>25, <2>1, DieIs, TalkersStay
<1>26. CASE Replace
  BY <1>26, UserKinds DEF Replace, TalkersHaveOne, Talking, Pcs, Said
<1>27. CASE UNCHANGED engineVars
  BY <1>27, UserKinds DEF engineVars, TalkersHaveOne, Talking, Pcs, Said
<1> QED
  BY <1>1, <1>2, <1>3, <1>4, <1>5, <1>6, <1>7, <1>8, <1>9, <1>10, <1>11, <1>12,
     <1>13, <1>14, <1>15, <1>16, <1>17, <1>18, <1>19, <1>20, <1>21, <1>22,
     <1>23, <1>24, <1>25, <1>26, <1>27
  DEF EngineNext, AnalysisStep, SlotStep

(* A process stays in step with the holder of its slot.                    *)
LEMMA InStepStep ==
    ASSUME CountsTypeOK, UsersTypeOK, ProcessesTypeOK, UsersAtEngines,
           TalkersHaveOne, StepsOfUsers, HolderHolds, ProcessInStep,
           EngineNext \/ UNCHANGED engineVars
    PROVE  ProcessInStep'
<1>1. ASSUME NEW a \in Analyses, BeginAnalysis(a) PROVE ProcessInStep'
  <2>1. a \in Users /\ (user[a].pc \in Holding => user'[a].pc = user[a].pc)
        /\ (\A v \in Users : v # a => user'[v] = user[v])
    BY <1>1, BeginAnalysisIs, UserKinds DEF Holding
  <2>2. UNCHANGED <<holder, process>>
    BY <1>1 DEF BeginAnalysis
  <2> QED
    BY <2>1, <2>2, InStepStays
<1>2. ASSUME NEW a \in Analyses, NameView(a) PROVE ProcessInStep'
  <2>1. a \in Users /\ (user[a].pc \in Holding => user'[a].pc = user[a].pc)
        /\ (\A v \in Users : v # a => user'[v] = user[v])
    BY <1>2, GoesIs, UserKinds DEF NameView, At, Holding, Pcs
  <2>2. UNCHANGED <<holder, process>>
    BY <1>2 DEF NameView
  <2> QED
    BY <2>1, <2>2, InStepStays
<1>3. ASSUME NEW a \in Analyses, TakeTicket(a) PROVE ProcessInStep'
  <2>1. a \in Users /\ (user[a].pc \in Holding => user'[a].pc = user[a].pc)
        /\ (\A v \in Users : v # a => user'[v] = user[v])
    BY <1>3, TakeTicketIs, UserKinds DEF Holding
  <2>2. UNCHANGED <<holder, process>>
    BY <1>3 DEF TakeTicket
  <2> QED
    BY <2>1, <2>2, InStepStays
<1>4. ASSUME NEW a \in Analyses, LockSlot(a) PROVE ProcessInStep'
  <2> DEFINE e == user[a].eng
  <2>1. a \in Users /\ e \in Engines /\ user[a].pc = "waiting" /\ holder[e] = Nobody
    BY <1>4, UserKinds DEF LockSlot, At, UsersAtEngines
  <2>2. \E pc \in {"starting", "superseding"} : Goes(a, pc)
    BY <1>4 DEF LockSlot
  <2>3. user'[a].pc \in {"starting", "superseding"} /\ (\A v \in Users : v # a => user'[v] = user[v])
    BY <2>1, <2>2, GoesIs DEF Pcs
  <2>4. holder'[e] = a /\ Alone(a, e) /\ UNCHANGED process
    BY <1>4, <2>1, <2>3 DEF LockSlot, HeldBy, Alone, CountsTypeOK
  <2>5. process[e] # Nobody => IdleProcess(process[e])
    BY <2>1 DEF ProcessInStep, HolderStep, InStep
  <2> QED
    BY <2>1, <2>3, <2>4, <2>5, InStepAt, NowAt DEF InStep
<1>5. ASSUME NEW a \in Analyses, TellSearch(a) PROVE ProcessInStep'
  <2> DEFINE e == user[a].eng
  <2>1. a \in Users /\ user[a].pc = "ready" /\ process' = Tell(e, <<"go", a>>)
        /\ Goes(a, "running") /\ UNCHANGED holder
    BY <1>5, UserKinds DEF TellSearch, At
  <2>2. /\ e \in Engines /\ process[e] \in Processes /\ process[e] # Nobody
        /\ holder[e] = a /\ Ready(process[e])
    BY <2>1, TalkerAt DEF Talking, InStep
  <2>3. /\ process'[e] \in Processes /\ Told(process[e], process'[e], <<"go", a>>)
        /\ \A f \in Engines : f # e => process'[f] = process[f]
    <3>1. <<"go", a>> \in Commands
      BY Words
    <3> QED
      BY <2>1, <2>2, <3>1, ToldIs DEF ProcessesTypeOK, Told, SameSearch
  <2>4. Searching(process'[e], a)
    BY <2>2, <2>3, ReadyTold
  <2>5. user'[a].pc = "running" /\ Alone(a, e)
    BY <2>1, <2>2, <2>3, GoesIs DEF Alone, Pcs
  <2> QED
    BY <2>1, <2>2, <2>4, <2>5, InStepAt, NowAt DEF InStep
<1>6. ASSUME NEW a \in Analyses, HearInfo(a) PROVE ProcessInStep'
  <2> DEFINE e == user[a].eng
  <2>1. a \in Users /\ user[a].pc = "running" /\ Hears(e) /\ Word(e) # "bestmove"
        /\ process' = Heard(e) /\ UNCHANGED <<user, holder>>
    BY <1>6, UserKinds DEF HearInfo, At
  <2>2. /\ e \in Engines /\ process[e] \in Processes /\ process[e] # Nobody
        /\ holder[e] = a /\ HolderStep(e) = "running" /\ Searching(process[e], a)
    BY <2>1, TalkerAt DEF Talking, InStep
  <2>3. /\ process'[e] \in Processes /\ HeardOne(process[e], process'[e])
        /\ \A f \in Engines : f # e => process'[f] = process[f]
    BY <2>1, <2>2, HeardIs DEF ProcessesTypeOK, HeardOne, SameSearch, Hears
  <2>4. Head(process[e].out) # Best(a)
    BY <2>1, BestWord DEF Word
  <2>5. Searching(process'[e], a)
    BY <2>2, <2>3, <2>4, RunningHears
  <2> QED
    BY <2>1, <2>2, <2>3, <2>5, InStepOf DEF InStep
<1>7. ASSUME NEW a \in Analyses, HearBest(a) PROVE ProcessInStep'
  <2> DEFINE e == user[a].eng
  <2>1. a \in Users /\ user[a].pc = "running" /\ Hears(e) /\ Word(e) = "bestmove"
        /\ Release(e, Heard(e)[e])
    BY <1>7, UserKinds DEF HearBest, At
  <2>2. /\ e \in Engines /\ process[e] \in Processes /\ process[e] # Nobody
        /\ holder[e] = a /\ Searching(process[e], a)
    BY <2>1, TalkerAt DEF Talking, InStep
  <2>3. process' = Heard(e) /\ HeldBy(e, Nobody)
    BY <2>1, <2>2, ReleaseHeard
  <2>4. /\ process'[e] \in Processes /\ HeardOne(process[e], process'[e])
        /\ \A f \in Engines : f # e => process'[f] = process[f]
    BY <2>1, <2>2, <2>3, HeardIs DEF ProcessesTypeOK, HeardOne, SameSearch, Hears
  <2>5. Head(process[e].out) # Info
    BY <2>1, InfoWord DEF Word
  <2>6. IdleProcess(process'[e])
    BY <2>2, <2>4, <2>5, RunningHears
  <2>7. holder'[e] = Nobody /\ Alone(a, e)
    BY <1>7, <2>2, <2>3, <2>4, HearBestIs DEF HeldBy, Alone, CountsTypeOK
  <2> QED
    BY <2>1, <2>2, <2>6, <2>7, InStepAt, NowAt DEF InStep
<1>8. ASSUME NEW a \in Analyses, LookAtTurn(a) PROVE ProcessInStep'
  <2> DEFINE e == user[a].eng
  <2>1. a \in Users /\ user[a].pc = "running" /\ process' = Tell(e, <<"stop">>)
        /\ Goes(a, "stopping") /\ UNCHANGED holder
    BY <1>8, UserKinds DEF LookAtTurn, At
  <2>2. /\ e \in Engines /\ process[e] \in Processes /\ process[e] # Nobody
        /\ holder[e] = a /\ Searching(process[e], a)
    BY <2>1, TalkerAt DEF Talking, InStep
  <2>3. /\ process'[e] \in Processes /\ Told(process[e], process'[e], <<"stop">>)
        /\ \A f \in Engines : f # e => process'[f] = process[f]
    <3>1. <<"stop">> \in Commands
      BY Words
    <3> QED
      BY <2>1, <2>2, <3>1, ToldIs DEF ProcessesTypeOK, Told, SameSearch
  <2>4. Stopping(process'[e], a)
    BY <2>2, <2>3, RunningTold
  <2>5. user'[a].pc = "stopping" /\ Alone(a, e)
    BY <2>1, <2>2, <2>3, GoesIs DEF Alone, Pcs
  <2> QED
    BY <2>1, <2>2, <2>4, <2>5, InStepAt, NowAt DEF InStep
<1>9. ASSUME NEW a \in Analyses, LookAtClient(a) PROVE ProcessInStep'
  <2> DEFINE e == user[a].eng
  <2>1. a \in Users /\ user[a].pc = "running" /\ process' = Tell(e, <<"stop">>)
        /\ Goes(a, "leaving") /\ UNCHANGED holder
    BY <1>9, UserKinds DEF LookAtClient, At
  <2>2. /\ e \in Engines /\ process[e] \in Processes /\ process[e] # Nobody
        /\ holder[e] = a /\ Searching(process[e], a)
    BY <2>1, TalkerAt DEF Talking, InStep
  <2>3. /\ process'[e] \in Processes /\ Told(process[e], process'[e], <<"stop">>)
        /\ \A f \in Engines : f # e => process'[f] = process[f]
    <3>1. <<"stop">> \in Commands
      BY Words
    <3> QED
      BY <2>1, <2>2, <3>1, ToldIs DEF ProcessesTypeOK, Told, SameSearch
  <2>4. Stopping(process'[e], a)
    BY <2>2, <2>3, RunningTold
  <2>5. user'[a].pc = "leaving" /\ Alone(a, e)
    BY <2>1, <2>2, <2>3, GoesIs DEF Alone, Pcs
  <2> QED
    BY <2>1, <2>2, <2>4, <2>5, InStepAt, NowAt DEF InStep
<1>10. ASSUME NEW a \in Analyses, HearStopped(a) PROVE ProcessInStep'
  <2> DEFINE e == user[a].eng
  <2>1. a \in Users /\ user[a].pc \in {"stopping", "leaving"} /\ Hears(e) /\ process' = Heard(e)
    BY <1>10, UserKinds DEF HearStopped
  <2>2. /\ e \in Engines /\ process[e] \in Processes /\ process[e] # Nobody
        /\ holder[e] = a /\ HolderStep(e) = user[a].pc /\ Stopping(process[e], a)
    BY <2>1, TalkerAt DEF Talking, InStep
  <2>3. /\ process'[e] \in Processes /\ HeardOne(process[e], process'[e])
        /\ \A f \in Engines : f # e => process'[f] = process[f]
    BY <2>1, <2>2, HeardIs DEF ProcessesTypeOK, HeardOne, SameSearch, Hears
  <2>4. \/ Head(process[e].out) = Info /\ Stopping(process'[e], a)
        \/ Head(process[e].out) = Best(a) /\ IdleProcess(process'[e])
    BY <2>2, <2>3, StoppingHears
  <2>5. CASE Word(e) # "bestmove" /\ UNCHANGED <<user, holder>>
    <3>1. Stopping(process'[e], a)
      BY <2>4, <2>5, BestWord DEF Word
    <3> QED
      BY <2>1, <2>2, <2>3, <2>5, <3>1, InStepOf DEF InStep
  <2>6. CASE Word(e) = "bestmove" /\ user'[a].pc = "superseding" /\ UNCHANGED holder
    <3>1. IdleProcess(process'[e])
      BY <2>4, <2>6, InfoWord DEF Word
    <3>2. Alone(a, e)
      BY <1>10, <2>3, <2>6, HearStoppedIs DEF Alone
    <3> QED
      BY <2>1, <2>2, <2>6, <3>1, <3>2, InStepAt, NowAt DEF InStep
  <2>7. CASE Word(e) = "bestmove" /\ HeldBy(e, Nobody)
    <3>1. IdleProcess(process'[e])
      BY <2>4, <2>7, InfoWord DEF Word
    <3>2. holder'[e] = Nobody /\ Alone(a, e)
      BY <1>10, <2>2, <2>3, <2>7, HearStoppedIs DEF Alone, HeldBy, CountsTypeOK
    <3> QED
      BY <2>1, <2>2, <3>1, <3>2, InStepAt, NowAt DEF InStep
  <2> QED
    BY <1>10, <2>5, <2>6, <2>7, HearStoppedIs
<1>11. ASSUME NEW a \in Analyses, Superseded(a) PROVE ProcessInStep'
  <2> DEFINE e == user[a].eng
  <2>1. a \in Users /\ user[a].pc = "superseding" /\ HeldBy(e, Nobody) /\ UNCHANGED process
    BY <1>11, UserKinds DEF Superseded, At
  <2>2. e \in Engines /\ holder[e] = a /\ HolderStep(e) = "superseding"
    BY <2>1, HolderAt DEF Holding, UsersAtEngines
  <2>3. PICK said \in {"superseded", "nothing"} : Over(a, said)
    BY <1>11 DEF Superseded
  <2>4. holder'[e] = Nobody /\ Alone(a, e)
    BY <2>1, <2>2, <2>3, OverIs DEF HeldBy, Alone, CountsTypeOK, Said
  <2>5. process[e] # Nobody => IdleProcess(process[e])
    BY <2>2 DEF ProcessInStep, InStep
  <2> QED
    BY <2>1, <2>2, <2>4, <2>5, InStepAt, NowAt DEF InStep
<1>12. ASSUME NEW a \in Analyses, ClientLeaves(a) PROVE ProcessInStep'
  <2>1. a \in Users /\ (user[a].pc \in Holding => user'[a].pc = user[a].pc)
        /\ (\A v \in Users : v # a => user'[v] = user[v])
    BY <1>12, GoneIs, UserKinds DEF ClientLeaves
  <2>2. UNCHANGED <<holder, process>>
    BY <1>12 DEF ClientLeaves
  <2> QED
    BY <2>1, <2>2, InStepStays
<1>13. ASSUME NEW w \in WarmUps, Warm(w) PROVE ProcessInStep'
  <2>1. w \in Users /\ (user[w].pc \in Holding => user'[w].pc = user[w].pc)
        /\ (\A v \in Users : v # w => user'[v] = user[v])
    BY <1>13, WarmIs, UserKinds DEF Holding
  <2>2. UNCHANGED <<holder, process>>
    BY <1>13 DEF Warm
  <2> QED
    BY <2>1, <2>2, InStepStays
<1>14. ASSUME NEW w \in WarmUps, TrySlot(w) PROVE ProcessInStep'
  <2> DEFINE e == user[w].eng
  <2>1. w \in Users /\ e \in Engines /\ user[w].pc = "warming" /\ UNCHANGED process
    BY <1>14, UserKinds DEF TrySlot, At, UsersAtEngines
  <2>2. CASE holder[e] = Nobody
    <3>1. user'[w].pc = "starting" /\ (\A v \in Users : v # w => user'[v] = user[v])
      BY <1>14, <2>1, <2>2, GoesIs DEF TrySlot, Pcs
    <3>2. holder'[e] = w /\ Alone(w, e)
      BY <1>14, <2>1, <2>2, <3>1 DEF TrySlot, HeldBy, Alone, CountsTypeOK
    <3>3. process[e] # Nobody => IdleProcess(process[e])
      BY <2>1, <2>2 DEF ProcessInStep, HolderStep, InStep
    <3> QED
      BY <2>1, <3>1, <3>2, <3>3, InStepAt, NowAt DEF InStep
  <2>3. CASE holder[e] # Nobody
    <3>1. Over(w, "busy") /\ UNCHANGED holder
      BY <1>14, <2>3 DEF TrySlot
    <3>2. \A v \in Users : v # w => user'[v] = user[v]
      BY <2>1, <3>1, OverIs DEF Said
    <3> QED
      BY <2>1, <3>1, <3>2, InStepStays DEF Holding
  <2> QED
    BY <2>2, <2>3
<1>15. ASSUME NEW u \in Users, StartProcess(u) PROVE ProcessInStep'
  <2> DEFINE e == user[u].eng
  <2>1. user[u].pc = "starting" /\ UNCHANGED holder
    BY <1>15 DEF StartProcess, At
  <2>2. e \in Engines /\ holder[e] = u /\ HolderStep(e) = "starting"
    BY <2>1, HolderAt DEF Holding, UsersAtEngines
  <2>3. user'[u].pc = "syncing" /\ (\A v \in Users : v # u => user'[v] = user[v])
    BY <1>15, GoesIs DEF StartProcess, Pcs
  <2>4. Alone(u, e)
    BY <1>15, <2>1, <2>3, StartProcessIs DEF Alone
  <2>5. PICK p \in Processes : (p = process[e] \/ IdleProcess(p)) /\ Told(p, process'[e], <<"isready">>)
    BY <1>15, StartProcessIs
  <2>6. IdleProcess(p)
    BY <2>2, <2>5, EngineSlotAssumption DEF ProcessInStep, InStep
  <2>7. process'[e] \in Processes
    BY <1>15, <2>2, StartProcessIs DEF ProcessesTypeOK
  <2>8. Syncing(process'[e])
    BY <2>5, <2>6, <2>7, IdleAsked
  <2> QED
    BY <2>1, <2>2, <2>3, <2>4, <2>8, InStepAt, NowAt DEF InStep
<1>16. ASSUME NEW u \in Users, HearReady(u) PROVE ProcessInStep'
  <2> DEFINE e == user[u].eng
  <2>1. user[u].pc = "syncing" /\ Hears(e) /\ process' = Heard(e)
    BY <1>16 DEF HearReady, At
  <2>2. /\ e \in Engines /\ process[e] \in Processes /\ process[e] # Nobody
        /\ holder[e] = u /\ Syncing(process[e])
    BY <2>1, TalkerAt DEF Talking, InStep
  <2>3. /\ process'[e] \in Processes /\ HeardOne(process[e], process'[e])
        /\ \A f \in Engines : f # e => process'[f] = process[f]
    BY <2>1, <2>2, HeardIs DEF ProcessesTypeOK, HeardOne, SameSearch, Hears
  <2>4. Word(e) = "readyok" /\ Ready(process'[e]) /\ IdleProcess(process'[e])
    BY <2>2, <2>3, SyncingHears, Words DEF Word, Ready, IdleProcess
  <2>5. CASE u \in WarmUps
    <3>1. Over(u, "ready") /\ HeldBy(e, Nobody)
      BY <1>16, <2>4, <2>5 DEF HearReady
    <3>2. holder'[e] = Nobody /\ Alone(u, e)
      BY <2>2, <2>3, <3>1, OverIs DEF HeldBy, Alone, CountsTypeOK, Said
    <3> QED
      BY <2>2, <2>4, <3>2, InStepAt, NowAt DEF InStep
  <2>6. CASE u \notin WarmUps
    <3>1. Goes(u, "ready") /\ UNCHANGED holder
      BY <1>16, <2>4, <2>6 DEF HearReady
    <3>2. user'[u].pc = "ready" /\ Alone(u, e)
      BY <2>2, <2>3, <3>1, GoesIs DEF Alone, Pcs
    <3> QED
      BY <2>2, <2>4, <3>1, <3>2, InStepAt, NowAt DEF InStep
  <2> QED
    BY <2>5, <2>6
<1>17. ASSUME NEW u \in Users, Lose(u) PROVE ProcessInStep'
  <2> DEFINE e == user[u].eng
  <2>1. e \in Engines /\ process'[e] = Nobody /\ (\A f \in Engines : f # e => process'[f] = process[f])
    BY <1>17, LoseIs, GoneProcess
  <2>2. \A f \in Engines : f # e => holder'[f] = holder[f]
    BY <1>17, LoseIs DEF HeldBy, CountsTypeOK
  <2>3. Alone(u, e)
    BY <1>17, <2>1, <2>2, LoseIs DEF Alone
  <2> QED
    BY <2>1, <2>3, InStepAt
<1>18. ASSUME NEW u \in Users, StartFails(u) PROVE ProcessInStep'
  <2> DEFINE e == user[u].eng
  <2>1. user[u].pc = "starting" /\ Over(u, "engine_failed") /\ Release(e, Nobody)
    BY <1>18 DEF StartFails, At
  <2>2. e \in Engines /\ (\A v \in Users : v # u => user'[v] = user[v])
    BY <2>1, OverIs DEF UsersAtEngines, Said
  <2>3. process'[e] = Nobody /\ Alone(u, e)
    BY <2>1, <2>2 DEF Release, HeldBy, Alone, CountsTypeOK, ProcessesTypeOK
  <2> QED
    BY <2>1, <2>2, <2>3, InStepAt
<1>19. ASSUME NEW e \in Engines, EndIdle(e) PROVE ProcessInStep'
  <2>1. process' = [process EXCEPT ![e] = Nobody] /\ UNCHANGED <<user, holder>>
    BY <1>19 DEF EndIdle
  <2> QED
    BY <2>1, GoneProcess, InStepOf
<1>20. ASSUME NEW e \in Engines, DropReplaced(e) PROVE ProcessInStep'
  <2>1. process' = [process EXCEPT ![e] = Nobody] /\ UNCHANGED <<user, holder>>
    BY <1>20 DEF DropReplaced
  <2> QED
    BY <2>1, GoneProcess, InStepOf
<1>21. ASSUME NEW e \in Engines, TakeCommand(e) PROVE ProcessInStep'
  <2>1. UNCHANGED <<user, holder>>
    BY <1>21 DEF TakeCommand
  <2>2. process[e] \in Processes /\ process'[e] \in Processes /\ InStep(process[e], holder[e], HolderStep(e))
    BY <1>21, TakeCommandIs DEF ProcessesTypeOK, ProcessInStep
  <2>3. HolderStep(e) \in {"running", "stopping", "leaving"} => holder[e] \in Analyses
    BY HolderSteps
  <2>4. InStep(process'[e], holder[e], HolderStep(e))
    BY <1>21, <2>2, <2>3, TakeCommandIs, TookInStep
  <2> QED
    BY <1>21, <2>1, <2>4, TakeCommandIs, InStepOf
<1>22. ASSUME NEW e \in Engines, Inform(e) PROVE ProcessInStep'
  <2>1. UNCHANGED <<user, holder>>
    BY <1>22 DEF Inform
  <2>2. process[e] \in Processes /\ process'[e] \in Processes /\ InStep(process[e], holder[e], HolderStep(e))
    BY <1>22, InformIs DEF ProcessesTypeOK, ProcessInStep
  <2>3. HolderStep(e) \in {"running", "stopping", "leaving"} => holder[e] \in Analyses
    BY HolderSteps
  <2>4. InStep(process'[e], holder[e], HolderStep(e))
    BY <1>22, <2>2, <2>3, InformIs, SaidInStep
  <2> QED
    BY <1>22, <2>1, <2>4, InformIs, InStepOf
<1>23. ASSUME NEW e \in Engines, BestIfStopped(e) PROVE ProcessInStep'
  <2>1. UNCHANGED <<user, holder>>
    BY <1>23, SearchEnds DEF BestIfStopped
  <2>2. process[e] \in Processes /\ process'[e] \in Processes /\ InStep(process[e], holder[e], HolderStep(e))
    BY <1>23, SearchEnds DEF ProcessesTypeOK, ProcessInStep
  <2>3. HolderStep(e) \in {"running", "stopping", "leaving"} => holder[e] \in Analyses
    BY HolderSteps
  <2>4. InStep(process'[e], holder[e], HolderStep(e))
    BY <1>23, <2>2, <2>3, SearchEnds, SaidInStep
  <2> QED
    BY <1>23, <2>1, <2>4, SearchEnds, InStepOf
<1>24. ASSUME NEW e \in Engines, BestOfItself(e) PROVE ProcessInStep'
  <2>1. UNCHANGED <<user, holder>>
    BY <1>24, SearchEnds DEF BestOfItself
  <2>2. process[e] \in Processes /\ process'[e] \in Processes /\ InStep(process[e], holder[e], HolderStep(e))
    BY <1>24, SearchEnds DEF ProcessesTypeOK, ProcessInStep
  <2>3. HolderStep(e) \in {"running", "stopping", "leaving"} => holder[e] \in Analyses
    BY HolderSteps
  <2>4. InStep(process'[e], holder[e], HolderStep(e))
    BY <1>24, <2>2, <2>3, SearchEnds, SaidInStep
  <2> QED
    BY <1>24, <2>1, <2>4, SearchEnds, InStepOf
<1>25. ASSUME NEW e \in Engines, Die(e) PROVE ProcessInStep'
  <2>1. UNCHANGED <<user, holder>>
    BY <1>25 DEF Die
  <2>2. process[e] \in Processes /\ process'[e] \in Processes /\ InStep(process[e], holder[e], HolderStep(e))
    BY <1>25, DieIs DEF ProcessesTypeOK, ProcessInStep
  <2>3. HolderStep(e) \in {"running", "stopping", "leaving"} => holder[e] \in Analyses
    BY HolderSteps
  <2>4. InStep(process'[e], holder[e], HolderStep(e))
    BY <1>25, <2>2, <2>3, DieIs, SameInStep
  <2> QED
    BY <1>25, <2>1, <2>4, DieIs, InStepOf
<1>26. CASE Replace
  <2>1. UNCHANGED <<user, holder, process>>
    BY <1>26 DEF Replace
  <2> QED
    BY <2>1 DEF ProcessInStep, HolderStep
<1>27. CASE UNCHANGED engineVars
  BY <1>27 DEF engineVars, ProcessInStep, HolderStep
<1> QED
  BY <1>1, <1>2, <1>3, <1>4, <1>5, <1>6, <1>7, <1>8, <1>9, <1>10, <1>11, <1>12,
     <1>13, <1>14, <1>15, <1>16, <1>17, <1>18, <1>19, <1>20, <1>21, <1>22,
     <1>23, <1>24, <1>25, <1>26, <1>27
  DEF EngineNext, AnalysisStep, SlotStep

(* The best move a request is told is of its own search.                   *)
LEMMA BestMoveStep ==
    ASSUME CountsTypeOK, UsersTypeOK, ProcessesTypeOK, UsersAtEngines,
           TalkersHaveOne, StepsOfUsers, HolderHolds, ProcessInStep,
           BestMoveOfItsSearch, EngineNext \/ UNCHANGED engineVars
    PROVE  BestMoveOfItsSearch'
<1>1. ASSUME NEW a \in Analyses, BeginAnalysis(a) PROVE BestMoveOfItsSearch'
  BY <1>1, BeginAnalysisIs, UserKinds DEF BestMoveOfItsSearch, Pcs, Said
<1>2. ASSUME NEW a \in Analyses, NameView(a) PROVE BestMoveOfItsSearch'
  BY <1>2, GoesIs, UserKinds DEF NameView, At, BestMoveOfItsSearch, Pcs, Said
<1>3. ASSUME NEW a \in Analyses, TakeTicket(a) PROVE BestMoveOfItsSearch'
  BY <1>3, TakeTicketIs, UserKinds DEF BestMoveOfItsSearch, Pcs, Said
<1>4. ASSUME NEW a \in Analyses, LockSlot(a) PROVE BestMoveOfItsSearch'
  BY <1>4, GoesIs, UserKinds
  DEF LockSlot, At, HeldBy, Newest, BestMoveOfItsSearch, Pcs, Said
<1>5. ASSUME NEW a \in Analyses, TellSearch(a) PROVE BestMoveOfItsSearch'
  BY <1>5, GoesIs, UserKinds DEF TellSearch, At, BestMoveOfItsSearch, Pcs, Said
<1>6. ASSUME NEW a \in Analyses, HearInfo(a) PROVE BestMoveOfItsSearch'
  BY <1>6, UserKinds
  DEF HearInfo, At, Hears, Word, BestMoveOfItsSearch, Pcs, Said
<1>7. ASSUME NEW a \in Analyses, HearBest(a) PROVE BestMoveOfItsSearch'
  <2> DEFINE e == user[a].eng
  <2>1. a \in Users /\ user[a].pc = "running" /\ Hears(e) /\ Word(e) = "bestmove"
        /\ Release(e, Heard(e)[e])
    BY <1>7, UserKinds DEF HearBest, At
  <2>2. e \in Engines /\ process[e] \in Processes /\ process[e] # Nobody /\ Searching(process[e], a)
    BY <2>1, TalkerAt DEF Talking, InStep
  <2>3. process'[e] \in Processes /\ HeardOne(process[e], process'[e])
    BY <2>1, <2>2, ReleaseHeard, HeardIs DEF ProcessesTypeOK, HeardOne, SameSearch, Hears
  <2>4. Head(process[e].out) = Best(a)
    BY <2>1, <2>2, <2>3, RunningHears, InfoWord DEF Word
  <2> QED
    BY <1>7, <2>4, HearBestIs, BestWord, UserKinds DEF BestMoveOfItsSearch
<1>8. ASSUME NEW a \in Analyses, LookAtTurn(a) PROVE BestMoveOfItsSearch'
  BY <1>8, GoesIs, UserKinds
  DEF LookAtTurn, At, Newest, BestMoveOfItsSearch, Pcs, Said
<1>9. ASSUME NEW a \in Analyses, LookAtClient(a) PROVE BestMoveOfItsSearch'
  BY <1>9, GoesIs, UserKinds
  DEF LookAtClient, At, Newest, BestMoveOfItsSearch, Pcs, Said
<1>10. ASSUME NEW a \in Analyses, HearStopped(a) PROVE BestMoveOfItsSearch'
  BY <1>10, HearStoppedIs, HeardIs, UserKinds
  DEF BestMoveOfItsSearch, Pcs, Said
<1>11. ASSUME NEW a \in Analyses, Superseded(a) PROVE BestMoveOfItsSearch'
  BY <1>11, OverIs, UserKinds
  DEF Superseded, At, HeldBy, BestMoveOfItsSearch, Pcs, Said
<1>12. ASSUME NEW a \in Analyses, ClientLeaves(a) PROVE BestMoveOfItsSearch'
  BY <1>12, GoneIs, UserKinds DEF ClientLeaves, BestMoveOfItsSearch, Pcs, Said
<1>13. ASSUME NEW w \in WarmUps, Warm(w) PROVE BestMoveOfItsSearch'
  BY <1>13, WarmIs, UserKinds DEF BestMoveOfItsSearch, Pcs, Said
<1>14. ASSUME NEW w \in WarmUps, TrySlot(w) PROVE BestMoveOfItsSearch'
  BY <1>14, GoesIs, OverIs, UserKinds
  DEF TrySlot, At, HeldBy, BestMoveOfItsSearch, Pcs, Said
<1>15. ASSUME NEW u \in Users, StartProcess(u) PROVE BestMoveOfItsSearch'
  <2>1. user'[u].said = user[u].said /\ user'[u].best = user[u].best /\ (\A v \in Users : v # u => user'[v] = user[v])
    BY <1>15, GoesIs DEF StartProcess, Pcs
  <2> QED
    BY <2>1, UserKinds DEF BestMoveOfItsSearch
<1>16. ASSUME NEW u \in Users, HearReady(u) PROVE BestMoveOfItsSearch'
  BY <1>16, GoesIs, OverIs, UserKinds
  DEF HearReady, At, Hears, Word, HeldBy, BestMoveOfItsSearch, Pcs, Said
<1>17. ASSUME NEW u \in Users, Lose(u) PROVE BestMoveOfItsSearch'
  BY <1>17, LoseIs, GoneProcess, UserKinds DEF BestMoveOfItsSearch, Pcs, Said
<1>18. ASSUME NEW u \in Users, StartFails(u) PROVE BestMoveOfItsSearch'
  BY <1>18, OverIs, UserKinds
  DEF StartFails, At, Runs, Upset, Release, HeldBy, BestMoveOfItsSearch, Pcs,
      Said
<1>19. ASSUME NEW e \in Engines, EndIdle(e) PROVE BestMoveOfItsSearch'
  BY <1>19, UserKinds DEF EndIdle, BestMoveOfItsSearch, Pcs, Said
<1>20. ASSUME NEW e \in Engines, DropReplaced(e) PROVE BestMoveOfItsSearch'
  BY <1>20, UserKinds DEF DropReplaced, BestMoveOfItsSearch, Pcs, Said
<1>21. ASSUME NEW e \in Engines, TakeCommand(e) PROVE BestMoveOfItsSearch'
  BY <1>21, TakeCommandIs, UserKinds
  DEF TakeCommand, Runs, BestMoveOfItsSearch, Pcs, Said, UsersTypeOK
<1>22. ASSUME NEW e \in Engines, Inform(e) PROVE BestMoveOfItsSearch'
  BY <1>22, InformIs, UserKinds
  DEF Inform, Runs, BestMoveOfItsSearch, Pcs, Said, UsersTypeOK
<1>23. ASSUME NEW e \in Engines, BestIfStopped(e) PROVE BestMoveOfItsSearch'
  BY <1>23, SearchEnds, UserKinds DEF BestMoveOfItsSearch, Pcs, Said
<1>24. ASSUME NEW e \in Engines, BestOfItself(e) PROVE BestMoveOfItsSearch'
  BY <1>24, SearchEnds, UserKinds DEF BestMoveOfItsSearch, Pcs, Said
<1>25. ASSUME NEW e \in Engines, Die(e) PROVE BestMoveOfItsSearch'
  BY <1>25, DieIs, UserKinds
  DEF Die, Runs, Upset, BestMoveOfItsSearch, Pcs, Said, UsersTypeOK
<1>26. CASE Replace
  BY <1>26, UserKinds DEF Replace, BestMoveOfItsSearch, Pcs, Said
<1>27. CASE UNCHANGED engineVars
  BY <1>27, UserKinds DEF engineVars, BestMoveOfItsSearch, Pcs, Said
<1> QED
  BY <1>1, <1>2, <1>3, <1>4, <1>5, <1>6, <1>7, <1>8, <1>9, <1>10, <1>11, <1>12,
     <1>13, <1>14, <1>15, <1>16, <1>17, <1>18, <1>19, <1>20, <1>21, <1>22,
     <1>23, <1>24, <1>25, <1>26, <1>27
  DEF EngineNext, AnalysisStep, SlotStep

-----------------------------------------------------------------------------
(* The invariant holds from the start and in every step.                   *)
LEMMA EngineInitially == EngineInit => EngineInv
<1> SUFFICES ASSUME EngineInit PROVE EngineInv
  OBVIOUS
<1>1. \A u \in Users : user[u] = Unasked
  BY DEF EngineInit
<1>2. CountsTypeOK
  BY EngineBoundsAssumption DEF EngineInit, CountsTypeOK
<1>3. UsersTypeOK
  BY UnaskedIs DEF EngineInit, UsersTypeOK
<1>4. ProcessesTypeOK /\ ProcessInStep
  BY DEF EngineInit, ProcessesTypeOK, ProcessInStep
<1>5. StepsOfUsers /\ UsersAtEngines /\ HolderHolds /\ TalkersHaveOne
  BY <1>1, UnaskedIs, UserKinds
  DEF EngineInit, StepsOfUsers, UsersAtEngines, HolderHolds, Holding, TalkersHaveOne, Talking
<1>6. BestMoveOfItsSearch
  BY <1>1, UnaskedIs, UserKinds DEF BestMoveOfItsSearch
<1> QED
  BY <1>2, <1>3, <1>4, <1>5, <1>6 DEF EngineInv

LEMMA EngineStepKeeps == EngineInv /\ [EngineNext]_engineVars => EngineInv'
<1> SUFFICES ASSUME EngineInv, EngineNext \/ UNCHANGED engineVars PROVE EngineInv'
  OBVIOUS
<1>1. CountsTypeOK' /\ UsersTypeOK' /\ ProcessesTypeOK'
  BY CountsTypeStep, UsersTypeStep, ProcessesTypeStep DEF EngineInv
<1>2. StepsOfUsers' /\ UsersAtEngines' /\ HolderHolds' /\ TalkersHaveOne'
  BY KindStep, AtEnginesStep, HolderHoldsStep, TalkersStep DEF EngineInv
<1>3. ProcessInStep' /\ BestMoveOfItsSearch'
  BY InStepStep, BestMoveStep DEF EngineInv
<1> QED
  BY <1>1, <1>2, <1>3 DEF EngineInv

(* The inductive invariant of the engine's slot holds in every behaviour.  *)
THEOREM EngineInvariant == EngineSpec => []EngineInv
<1>1. EngineInit => EngineInv
  BY EngineInitially
<1>2. EngineInv /\ [EngineNext]_engineVars => EngineInv'
  BY EngineStepKeeps
<1> QED
  BY <1>1, <1>2, PTL DEF EngineSpec

(* The types are parts of the invariant.                                   *)
LEMMA EngineTyped == EngineInv => EngineTypeOK
BY DEF EngineInv, CountsTypeOK, UsersTypeOK, UserStates, ProcessesTypeOK, EngineTypeOK

(* The state keeps its types (engine.rs 71-85, uci.rs 71-85).              *)
THEOREM EngineTypeCorrect == EngineSpec => []EngineTypeOK
BY EngineTyped, EngineInvariant, PTL

(* The best move a client is told is of its own position, in whatever      *)
(* order analyses follow, clients leave, processes end and searches stop   *)
(* (uci.rs 249-256): for every number of requests, engines and lines.      *)
THEOREM BestMoveIsOfItsSearch == EngineSpec => []BestMoveOfItsSearch
<1>1. EngineInv => BestMoveOfItsSearch
  BY DEF EngineInv
<1> QED
  BY <1>1, EngineInvariant, PTL

(* A process searches only for the analysis that holds its slot            *)
(* (engine.rs 3-6, 533-536): for every number of requests and engines.     *)
THEOREM SearchesOnlyForHolder == EngineSpec => []SearchesForHolder
<1>1. ASSUME EngineInv, NEW e \in Engines, process[e] # Nobody, process[e].search # Nobody
      PROVE  holder[e] = process[e].search /\ user[holder[e]].pc \in {"running", "stopping", "leaving"}
  <2> DEFINE p == process[e]
             pc == HolderStep(e)
  <2>1. InStep(p, holder[e], pc) /\ pc \in Holding \union {"free"}
    BY <1>1, HolderSteps DEF EngineInv, ProcessInStep
  <2>2. ~Quiet(p)
    BY <1>1 DEF Quiet
  <2>3. pc \in {"running", "stopping", "leaving"}
    BY <2>1, <2>2 DEF InStep, Holding, IdleProcess, Syncing, Ready
  <2>4. Searching(p, holder[e]) \/ Stopping(p, holder[e])
    BY <2>1, <2>3 DEF InStep
  <2>5. p.search = holder[e]
    BY <2>2, <2>4 DEF Searching, Stopping, UnderWay, SearchOver
  <2>6. holder[e] # Nobody
    BY <2>3 DEF HolderStep
  <2> QED
    BY <2>3, <2>5, <2>6 DEF HolderStep
<1>2. EngineInv => SearchesForHolder
  BY <1>1 DEF SearchesForHolder
<1> QED
  BY <1>2, EngineInvariant, PTL

=============================================================================
