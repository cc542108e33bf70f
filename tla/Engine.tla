-------------------------------- MODULE Engine --------------------------------
(***************************************************************************)
(* The UCI engine behind the analysis board (engine.rs, engine/uci.rs):    *)
(* one slot with at most one process for each engine configured, taken by  *)
(* analyses - each newer one stops the one that runs - by warm-ups and by  *)
(* the thread that ends an idle process; the commands and the lines that   *)
(* pass between the bridge and the process in order, with the process on   *)
(* a pace of its own; and the replacement of the engine configured.        *)
(*                                                                         *)
(* A line is "readyok", an "info" or the best move of a search, told by    *)
(* whose search it was.  What the engine may do at any time: answer late   *)
(* past a deadline, end, end a search by itself.                           *)
(***************************************************************************)
EXTENDS Naturals, Sequences

CONSTANTS
    Analyses,    \* the requests for an analysis
    WarmUps,     \* the requests for a warm-up
    Views,       \* the views (streams) of the clients
    ViewOf,      \* the view each analysis is for
    MaxEngines,  \* bound: engines configured one after the other
    MaxLines,    \* bound: lines of the process that wait (QUEUED_LINES)
    MaxUpsets,   \* bound: ends of the process, missed deadlines, failed starts
    Nobody       \* no user, no process, no view

ASSUME EngineBoundsAssumption ==
    MaxEngines \in Nat \ {0} /\ MaxLines \in Nat \ {0} /\ MaxUpsets \in Nat
ASSUME EngineUsersAssumption ==
    /\ Analyses \intersect WarmUps = {}
    /\ ViewOf \in [Analyses -> Views]
    /\ Nobody \notin Analyses /\ Nobody \notin WarmUps /\ Nobody \notin Views

VARIABLES
    configured,  \* Current::inner, by its number: none before the first
    turn,        \* Inner::turn of each engine
    newest,      \* Inner::newest_stream
    holder,      \* who holds the lock of Inner::slot
    process,     \* the process in it
    user,        \* each request: where it is and what it knows
    upsets       \* how much of MaxUpsets was spent

engineVars == <<configured, turn, newest, holder, process, user, upsets>>
-----------------------------------------------------------------------------
Engines == 1..MaxEngines
Users   == Analyses \union WarmUps
Lines   == {<<"readyok">>, <<"info">>} \union ({"bestmove"} \X Analyses)
Commands == {<<"isready">>, <<"stop">>} \union ({"go"} \X Analyses)
Processes == [in : Seq(Commands), out : Seq(Lines), search : Analyses \union {Nobody},
              stopped : BOOLEAN, alive : BOOLEAN]

ASSUME EngineSlotAssumption == Nobody \notin Processes

Started == [in |-> <<>>, out |-> <<>>, search |-> Nobody, stopped |-> FALSE, alive |-> TRUE]
Unasked == [pc |-> "unasked", eng |-> 0, ticket |-> 0, gone |-> FALSE, said |-> "nothing", best |-> Nobody]

EngineInit ==
    /\ configured \in {0, 1}
    /\ turn = [e \in Engines |-> 0] /\ newest = [e \in Engines |-> Nobody]
    /\ holder = [e \in Engines |-> Nobody] /\ process = [e \in Engines |-> Nobody]
    /\ user = [u \in Users |-> Unasked] /\ upsets = 0

Goes(u, pc) == user' = [user EXCEPT ![u].pc = pc]
Over(u, said) == user' = [user EXCEPT ![u] = [Unasked EXCEPT !.pc = "over", !.said = said]]
Upset == upsets < MaxUpsets /\ upsets' = upsets + 1
At(u, pc) == user[u].pc = pc
HeldBy(e, u) == holder' = [holder EXCEPT ![e] = u]
Runs(e) == process[e] # Nobody /\ process[e].alive

Tell(e, command) == [process EXCEPT ![e].in = Append(@, command)]
Word(e) == Head(process[e].out)[1]
Heard(e) == [process EXCEPT ![e].out = Tail(@)]
Hears(e) == process[e].out # <<>>

(* The wait for a line is over without one: the output ended, or in vain.  *)
Unheard(e) == \/ ~process[e].alive /\ ~Hears(e) /\ UNCHANGED upsets
              \/ ~Hears(e) /\ Upset

Release(e, p) == HeldBy(e, Nobody) /\ process' = [process EXCEPT ![e] = p]
-----------------------------------------------------------------------------
(* Engine::analyze: the engine configured, the view named, the ticket, and *)
(* then the wait for the slot, in this order and with no lock over them.   *)
BeginAnalysis(a) ==
    /\ At(a, "unasked")
    /\ IF configured = 0 THEN Over(a, "no_engine")
       ELSE user' = [user EXCEPT ![a].pc = "taken", ![a].eng = configured]
    /\ UNCHANGED <<configured, turn, newest, holder, process, upsets>>

NameView(a) ==
    /\ At(a, "taken") /\ newest' = [newest EXCEPT ![user[a].eng] = ViewOf[a]]
    /\ Goes(a, "named")
    /\ UNCHANGED <<configured, turn, holder, process, upsets>>

TakeTicket(a) ==
    LET e == user[a].eng IN
    /\ At(a, "named") /\ turn' = [turn EXCEPT ![e] = @ + 1]
    /\ user' = [user EXCEPT ![a].pc = "waiting", ![a].ticket = turn'[e]]
    /\ UNCHANGED <<configured, newest, holder, process, upsets>>

Newest(a) == turn[user[a].eng] = user[a].ticket

LockSlot(a) ==
    LET e == user[a].eng IN
    /\ At(a, "waiting") /\ holder[e] = Nobody /\ HeldBy(e, a)
    /\ Goes(a, IF Newest(a) THEN "starting" ELSE "superseding")
    /\ UNCHANGED <<configured, turn, newest, process, upsets>>

(* Engine::warm tries the lock once.                                       *)
Warm(w) ==
    /\ At(w, "unasked")
    /\ IF configured = 0 THEN Over(w, "no_engine")
       ELSE user' = [user EXCEPT ![w].eng = configured, ![w].pc = "warming"]
    /\ UNCHANGED <<configured, turn, newest, holder, process, upsets>>

TrySlot(w) ==
    LET e == user[w].eng IN
    /\ At(w, "warming")
    /\ IF holder[e] = Nobody THEN HeldBy(e, w) /\ Goes(w, "starting")
       ELSE Over(w, "busy") /\ UNCHANGED holder
    /\ UNCHANGED <<configured, turn, newest, process, upsets>>
-----------------------------------------------------------------------------
(* Inner::process and Process::sync: the process there, unless it ended,   *)
(* else a new one, is set up and asked whether it is ready.                *)
StartProcess(u) ==
    LET e == user[u].eng
        p == IF Runs(e) THEN process[e] ELSE Started
    IN
    /\ At(u, "starting")
    /\ process' = [process EXCEPT ![e] = [p EXCEPT !.in = Append(@, <<"isready">>)]]
    /\ Goes(u, "syncing")
    /\ UNCHANGED <<configured, turn, newest, holder, upsets>>

StartFails(u) ==
    /\ At(u, "starting") /\ ~Runs(user[u].eng) /\ Upset
    /\ Over(u, "engine_failed") /\ Release(user[u].eng, Nobody)
    /\ UNCHANGED <<configured, turn, newest>>

HearReady(u) ==
    LET e == user[u].eng IN
    /\ At(u, "syncing") /\ Hears(e) /\ process' = Heard(e)
    /\ IF Word(e) # "readyok" THEN UNCHANGED <<user, holder>>
       ELSE IF u \in WarmUps THEN Over(u, "ready") /\ HeldBy(e, Nobody)
       ELSE Goes(u, "ready") /\ UNCHANGED holder
    /\ UNCHANGED <<configured, turn, newest, upsets>>

(* Inner::run: the search is told, its lines are read, and between two the *)
(* search looks at newer analyses and then at its client.                  *)
TellSearch(a) ==
    LET e == user[a].eng IN
    /\ At(a, "ready") /\ process' = Tell(e, <<"go", a>>) /\ Goes(a, "running")
    /\ UNCHANGED <<configured, turn, newest, holder, upsets>>

HearInfo(a) ==
    LET e == user[a].eng IN
    /\ At(a, "running") /\ Hears(e) /\ Word(e) # "bestmove" /\ process' = Heard(e)
    /\ UNCHANGED <<configured, turn, newest, holder, user, upsets>>

HearBest(a) ==
    LET e == user[a].eng IN
    /\ At(a, "running") /\ Hears(e) /\ Word(e) = "bestmove"
    /\ user' = [user EXCEPT ![a] = [Unasked EXCEPT !.pc = "over", !.said = "bestmove",
                                                  !.best = Head(process[e].out)[2]]]
    /\ Release(e, Heard(e)[e])
    /\ UNCHANGED <<configured, turn, newest, upsets>>

(* Mutants: the best move of the search stopped is not waited for; only the*)
(* analysis after the next one is seen.                                    *)
LookAtTurnOnly(a) ==
    LET e == user[a].eng IN
    /\ At(a, "running") /\ ~Newest(a) /\ process' = Tell(e, <<"stop">>) /\ Goes(a, "superseding")
    /\ UNCHANGED <<configured, turn, newest, holder, upsets>>

LookAtTurnLate(a) ==
    LET e == user[a].eng IN
    /\ At(a, "running") /\ turn[e] > user[a].ticket + 1
    /\ process' = Tell(e, <<"stop">>) /\ Goes(a, "stopping")
    /\ UNCHANGED <<configured, turn, newest, holder, upsets>>

LookAtTurn(a) ==
    LET e == user[a].eng IN
    /\ At(a, "running") /\ ~Newest(a) /\ process' = Tell(e, <<"stop">>) /\ Goes(a, "stopping")
    /\ UNCHANGED <<configured, turn, newest, holder, upsets>>

(* Mutant: a client that left lets the slot go, and its search run on.     *)
LookAtClientOnly(a) ==
    /\ At(a, "running") /\ Newest(a) /\ user[a].gone /\ Over(a, "nothing")
    /\ HeldBy(user[a].eng, Nobody)
    /\ UNCHANGED <<configured, turn, newest, process, upsets>>

LookAtClient(a) ==
    LET e == user[a].eng IN
    /\ At(a, "running") /\ Newest(a) /\ user[a].gone
    /\ process' = Tell(e, <<"stop">>) /\ Goes(a, "leaving")
    /\ UNCHANGED <<configured, turn, newest, holder, upsets>>

(* Process::stop waits for the best move, which nobody reads.              *)
HearStopped(a) ==
    LET e == user[a].eng
        best == Word(e) = "bestmove"
    IN
    /\ user[a].pc \in {"stopping", "leaving"} /\ Hears(e) /\ process' = Heard(e)
    /\ \/ ~best /\ UNCHANGED <<user, holder>>
       \/ best /\ At(a, "stopping") /\ Goes(a, "superseding") /\ UNCHANGED holder
       \/ best /\ At(a, "leaving") /\ Over(a, "nothing") /\ HeldBy(e, Nobody)
    /\ UNCHANGED <<configured, turn, newest, upsets>>

(* Inner::superseded: told unless the newest analysis is of its own view.  *)
Superseded(a) ==
    LET e == user[a].eng IN
    /\ At(a, "superseding") /\ HeldBy(e, Nobody)
    /\ Over(a, IF newest[e] # ViewOf[a] THEN "superseded" ELSE "nothing")
    /\ UNCHANGED <<configured, turn, newest, process, upsets>>

(* The process ended, or did not answer in time: it is let go.             *)
Lose(u) ==
    LET e == user[u].eng IN
    /\ user[u].pc \in {"syncing", "running", "leaving", "stopping"} /\ Unheard(e)
    /\ At(u, "running") => ~process[e].alive
    /\ process' = [process EXCEPT ![e] = Nobody]
    /\ IF At(u, "stopping") THEN Goes(u, "superseding") /\ UNCHANGED holder
       ELSE /\ Over(u, IF At(u, "leaving") THEN "nothing" ELSE "engine_exited")
            /\ HeldBy(e, Nobody)
    /\ UNCHANGED <<configured, turn, newest>>

ClientLeaves(a) ==
    /\ user[a].pc \notin {"unasked", "over"} /\ ~user[a].gone
    /\ user' = [user EXCEPT ![a].gone = TRUE]
    /\ UNCHANGED <<configured, turn, newest, holder, process, upsets>>
-----------------------------------------------------------------------------
(* Inner::end_if_idle, once the process sat unused for IDLE.               *)
EndIdle(e) ==
    /\ holder[e] = Nobody /\ process[e] # Nobody /\ process' = [process EXCEPT ![e] = Nobody]
    /\ UNCHANGED <<configured, turn, newest, holder, user, upsets>>

(* Engine::current finds another engine configured: the one replaced has   *)
(* its turn taken, and is gone once no request has it.                     *)
Replace ==
    /\ configured < MaxEngines /\ configured' = configured + 1
    /\ turn' = IF configured = 0 THEN turn ELSE [turn EXCEPT ![configured] = @ + 1]
    /\ UNCHANGED <<newest, holder, process, user, upsets>>

DropReplaced(e) ==
    /\ e < configured /\ process[e] # Nobody
    /\ \A u \in Users : user[u].eng = e => user[u].pc = "over"
    /\ process' = [process EXCEPT ![e] = Nobody]
    /\ UNCHANGED <<configured, turn, newest, holder, user, upsets>>
-----------------------------------------------------------------------------
(* The process: it takes commands in order, answers isready at once, and   *)
(* a stop with the best move of its search.                                *)
Says(p, line) == [p EXCEPT !.out = Append(@, line)]

TakeCommand(e) ==
    LET p == process[e]
        q == [p EXCEPT !.in = Tail(@)]
        c == Head(p.in)
    IN
    /\ Runs(e) /\ p.in # <<>>
    /\ process' = [process EXCEPT ![e] =
         CASE c[1] = "isready" -> Says(q, <<"readyok">>)
           [] c[1] = "stop"    -> [q EXCEPT !.stopped = p.search # Nobody]
           [] c[1] = "go"      -> [q EXCEPT !.search = c[2]]]
    /\ UNCHANGED <<configured, turn, newest, holder, user, upsets>>

Inform(e) ==
    /\ Runs(e) /\ process[e].search # Nobody /\ Len(process[e].out) < MaxLines
    /\ process' = [process EXCEPT ![e] = Says(@, <<"info">>)]
    /\ UNCHANGED <<configured, turn, newest, holder, user, upsets>>

EndSearch(e) ==
    LET p == process[e] IN
    /\ process' = [process EXCEPT ![e] =
         Says([p EXCEPT !.search = Nobody, !.stopped = FALSE], <<"bestmove", p.search>>)]
    /\ UNCHANGED <<configured, turn, newest, holder, user, upsets>>

BestIfStopped(e) == Runs(e) /\ process[e].stopped /\ EndSearch(e)

BestOfItself(e) ==
    Runs(e) /\ process[e].search # Nobody /\ ~process[e].stopped /\ EndSearch(e)

Die(e) ==
    /\ Runs(e) /\ Upset /\ process' = [process EXCEPT ![e].alive = FALSE]
    /\ UNCHANGED <<configured, turn, newest, holder, user>>
-----------------------------------------------------------------------------
AnalysisStep(a) == \/ NameView(a) \/ TakeTicket(a) \/ LockSlot(a) \/ TellSearch(a) \/ HearInfo(a)
                   \/ HearBest(a) \/ LookAtTurn(a) \/ LookAtClient(a) \/ HearStopped(a)
                   \/ Superseded(a)
SlotStep(u) == StartProcess(u) \/ HearReady(u) \/ Lose(u)

EngineNext ==
    \/ \E a \in Analyses : BeginAnalysis(a) \/ AnalysisStep(a) \/ ClientLeaves(a)
    \/ \E w \in WarmUps : Warm(w) \/ TrySlot(w)
    \/ \E u \in Users : SlotStep(u) \/ StartFails(u)
    \/ \E e \in Engines : \/ EndIdle(e) \/ DropReplaced(e) \/ TakeCommand(e) \/ Inform(e)
                          \/ BestIfStopped(e) \/ BestOfItself(e) \/ Die(e)
    \/ Replace

(* Threads run; the process takes its commands and ends a search it was    *)
(* told to stop; nothing else of it is relied on.                          *)
EngineFairness ==
    /\ \A a \in Analyses : WF_engineVars(NameView(a) \/ TakeTicket(a) \/ LockSlot(a) \/ TellSearch(a)
                                          \/ HearBest(a) \/ HearStopped(a) \/ Superseded(a))
    /\ \A a \in Analyses : WF_engineVars(LookAtTurn(a))
    /\ \A u \in Users : WF_engineVars(SlotStep(u))
    /\ \A e \in Engines : WF_engineVars(TakeCommand(e)) /\ WF_engineVars(BestIfStopped(e))

EngineSpec == EngineInit /\ [][EngineNext]_engineVars /\ EngineFairness
-----------------------------------------------------------------------------
Pcs == {"unasked", "taken", "named", "waiting", "warming", "starting", "syncing", "ready", "running",
        "stopping", "leaving", "superseding", "over"}
Said == {"nothing", "no_engine", "engine_failed", "engine_exited", "bestmove", "superseded", "busy", "ready"}

EngineTypeOK ==
    /\ configured \in 0..MaxEngines /\ turn \in [Engines -> Nat]
    /\ newest \in [Engines -> Views \union {Nobody}] /\ holder \in [Engines -> Users \union {Nobody}]
    /\ process \in [Engines -> {Nobody} \union Processes]
    /\ user \in [Users -> [pc : Pcs, eng : 0..MaxEngines, ticket : Nat,
                           gone : BOOLEAN, said : Said, best : Analyses \union {Nobody}]]
    /\ upsets \in 0..MaxUpsets

(* The best move a client is told is of its own position, whatever search  *)
(* ran in the process before, was stopped, or ended by itself as it was    *)
(* being stopped (uci.rs 249-256).                                         *)
BestMoveOfItsSearch ==
    \A a \in Analyses : user[a].said = "bestmove" => user[a].best = a

(* A process searches only for the analysis that holds its slot: none      *)
(* searches on for a client that left or was superseded, or is ended by    *)
(* the idle thread or a warm-up under its search (engine.rs 3-6, 533-536).          *)
SearchesForHolder ==
    \A e \in Engines : process[e] # Nobody /\ process[e].search # Nobody =>
        /\ holder[e] = process[e].search
        /\ user[holder[e]].pc \in {"running", "stopping", "leaving"}

(* The newest analysis takes the engine from whoever has it, or is over    *)
(* itself (engine.rs 5-6, 513: "Waits while the running search stops").    *)
NewestTakesEngine ==
    \A a \in Analyses :
        At(a, "waiting") /\ Newest(a) ~> (At(a, "waiting") /\ ~Newest(a)) \/ user[a].pc \in {"running", "over"}

(* A changed engine stops the running search (engine.rs 402-403: "so a     *)
(* changed engine stops the running search at once, not at the next call").*)
ReplacedEngineStops ==
    \A a \in Analyses : user[a].pc = "running" /\ user[a].eng < configured => ~Newest(a)
=============================================================================
