------------------------------ MODULE TreePasses -----------------------------
(***************************************************************************)
(* The passes that collect an index's tree (explorer/tree.rs, with Passes, *)
(* plan_pass, Chunks and Taker of explorer/build.rs).  The keys of the     *)
(* positions fall into parts, and a pass plans as many parts as its room   *)
(* holds.  Its workers take the games a chunk at a time and keep the       *)
(* entries of the pass's parts; one whose buffer is full folds it, or ends *)
(* the pass for every worker at an earlier part, while the others go on    *)
(* adding.  The parts before that end are written, and the next pass       *)
(* begins there.                                                           *)
(*                                                                         *)
(* An entry is a game and a ply of its line, each position of it once; a   *)
(* chunk is one game.  A part that is Crowded is one position that many    *)
(* games pass through, whose entries fold into one.  The writing of a pass *)
(* (Turns) is one step here.                                               *)
(***************************************************************************)
EXTENDS Integers, Sequences, FiniteSets, FiniteSetsExt

CONSTANTS
    MaxCollectors,  \* the workers a pass may take
    Games,          \* how many games there are
    PartCount,      \* how many parts
    LineOf,         \* the parts that the positions of each game lie in, ply by ply
    Crowded,        \* the parts whose entries fold
    Rooms,          \* the entries that the buffers may hold together
    MinEntries      \* MIN_WORKER_ENTRIES, which is 64

VARIABLES
    phase,      \* where the build is
    room,       \* the entries the buffers hold together, as reserved
    first,      \* the pass's first part
    hi,         \* the part it ends at
    planned,    \* the entries it plans
    count,      \* the workers it took
    nextGame,   \* Chunks.next
    taking,     \* Chunks.taking
    collector,  \* each worker
    tree        \* the entries written

passesVars == <<phase, room, first, hi, planned, count, nextGame, taking, collector, tree>>
plan == <<room, first, planned, count, tree>>
-----------------------------------------------------------------------------
PartIds == 0..(PartCount - 1)
GameIds == 1..Games

ASSUME PassesAssumption ==
    /\ MaxCollectors \in Nat \ {0} /\ Games \in Nat \ {0} /\ PartCount \in Nat \ {0}
    /\ LineOf \in [GameIds -> Seq(PartIds)]
    /\ Crowded \subseteq PartIds /\ Rooms \subseteq Nat
    /\ MinEntries \in Nat /\ MinEntries >= 4

Collectors == 1..MaxCollectors

StreamEntries == UNION {{game} \X DOMAIN LineOf[game] : game \in GameIds}
PartOf(e) == LineOf[e[1]][e[2]]
Of(part, buf) == {e \in buf : PartOf(e) = part}
Before(part, buf) == {e \in buf : PartOf(e) < part}

(* counts: the entries of a part as the stream pass counted them, and the  *)
(* sum of those of several.                                                *)
Counted(part) == Cardinality(Of(part, StreamEntries))
SumOf(parts) == Cardinality({e \in StreamEntries : PartOf(e) \in parts})

(* What the entries of a buffer take once it is folded: each by itself, or *)
(* one for all those of a part that is crowded.                            *)
Folded(buf) ==
    LET crowd == {e \in buf : PartOf(e) \in Crowded} IN
    Cardinality(buf \ crowd) + Cardinality({PartOf(e) : e \in crowd})

(* The part of the entry at place i of a buffer sorted and folded.         *)
PartAt(i, buf) == Min({part \in PartIds : Folded(Before(part + 1, buf)) > i})

(* The entries a buffer holds so that a part of n never fills it.          *)
Needed(n) == Max({n + n \div 7 + 1, MinEntries})

(* plan_pass: the parts from the first on that nearly fill the room.       *)
PlannedTo(from) ==
    Max({from + 1} \union {to \in from..PartCount : SumOf(from..(to - 1)) <= (room * 97) \div 100})

Cap == room \div count
(* The room that a worker keeps free: twice what a chunk adds.             *)
Spare == (2 * planned + Games - 1) \div Games

Idle == [pc |-> "none", game |-> 0, ply |-> 0, buf |-> {}, len |-> 0, last |-> FALSE]

PassesInit ==
    /\ phase = "begin" /\ room = 0 /\ first = 0 /\ hi = 0 /\ planned = 0
    /\ count = 1 /\ nextGame = 1 /\ taking = 0
    /\ collector = [w \in Collectors |-> Idle] /\ tree = {}
-----------------------------------------------------------------------------
(* Room::reserve: as much as searches leave free, but room for the largest *)
(* part, which the share is taken to hold, and one worker.                 *)
ReserveRoom ==
    /\ phase = "begin" /\ phase' = "planning"
    /\ room' \in {r \in Rooms : \A part \in PartIds : r >= Needed(Counted(part))}
    /\ UNCHANGED <<first, hi, planned, count, nextGame, taking, collector, tree>>

(* Mutant: as many workers as were reserved, whatever the first part.      *)
WorkersAsReserved == MaxCollectors

(* As many workers as each hold the first part in its share of the room,   *)
(* or fewer where fewer were reserved or are free.                         *)
WorkersFor == Max({1, Min({MaxCollectors, room \div Needed(Counted(first))})})

BeginPass ==
    /\ phase = "planning" /\ first < PartCount /\ phase' = "collecting"
    /\ hi' = PlannedTo(first) /\ planned' = SumOf(first..(hi' - 1))
    /\ nextGame' = 1 /\ taking' = 0
    /\ count' \in 1..WorkersFor
    /\ collector' = [w \in Collectors |-> [Idle EXCEPT !.pc = IF w <= count' THEN "starting" ELSE "none"]]
    /\ UNCHANGED <<room, first, tree>>

(* Chunks::taker: the first to start counts them all.                      *)
Start(w) ==
    /\ collector[w].pc = "starting"
    /\ taking' = IF taking = 0 THEN count ELSE taking
    /\ collector' = [collector EXCEPT ![w].pc = "taking"]
    /\ UNCHANGED <<phase, hi, nextGame, plan>>

Full(w) == collector[w].len + Spare > Cap

(* Mutant: the last one leaves them too.                                   *)
LeaveChunksAll(w) ==
    /\ collector[w].pc = "taking" /\ Full(w) /\ ~collector[w].last
    /\ taking' = taking - 1
    /\ collector' = [collector EXCEPT ![w].pc = "ended"]
    /\ UNCHANGED <<phase, hi, nextGame, plan>>

(* Taker::take: a worker whose buffer is full leaves the chunks to others. *)
LeaveChunks(w) ==
    /\ collector[w].pc = "taking" /\ Full(w) /\ ~collector[w].last /\ taking > 1
    /\ taking' = taking - 1
    /\ collector' = [collector EXCEPT ![w].pc = "ended"]
    /\ UNCHANGED <<phase, hi, nextGame, plan>>

(* From a ply of a game on, the worker goes to the next whose entry lies   *)
(* in the pass, or to its next chunk.                                      *)
GoOn(w, game, from, buf, len, last) ==
    LET held == {ply \in DOMAIN LineOf[game] : ply >= from /\ LineOf[game][ply] \in first..(hi - 1)} IN
    collector' = [collector EXCEPT ![w] =
        [pc |-> IF held = {} THEN "taking" ELSE "replaying", game |-> game,
         ply |-> IF held = {} THEN 0 ELSE Min(held), buf |-> buf, len |-> len, last |-> last]]

(* The next chunk, for one that is not full or found itself the last.      *)
TakeChunk(w) ==
    /\ collector[w].pc = "taking" /\ (Full(w) => collector[w].last \/ taking <= 1)
    /\ nextGame' = nextGame + 1
    /\ IF nextGame <= Games
       THEN GoOn(w, nextGame, 1, collector[w].buf, collector[w].len, collector[w].last \/ Full(w))
       ELSE collector' = [collector EXCEPT ![w].pc = "ended"]
    /\ UNCHANGED <<phase, hi, taking, plan>>

(* An entry is added, unless the pass ends before its part by now.         *)
Entry(w) == <<collector[w].game, collector[w].ply>>
Within(w) == PartOf(Entry(w)) < hi

AddEntry(w) ==
    LET c == collector[w] IN
    IF Within(w) THEN GoOn(w, c.game, c.ply + 1, c.buf \union {Entry(w)}, c.len + 1, c.last)
    ELSE GoOn(w, c.game, c.ply + 1, c.buf, c.len, c.last)

(* Pass::replay: the game's entries in the pass's parts, ply by ply, until *)
(* one finds the buffer full.                                              *)
Replay(w) ==
    /\ collector[w].pc = "replaying" /\ (Within(w) => collector[w].len < Cap)
    /\ AddEntry(w)
    /\ UNCHANGED <<phase, hi, nextGame, taking, plan>>

(* make_room, for an entry that finds the buffer full: the entries past    *)
(* the pass's end go, the others fold, and when that leaves more than      *)
(* three quarters the pass is to end earlier.                              *)
MakeRoom(w) ==
    /\ collector[w].pc = "replaying" /\ Within(w) /\ collector[w].len >= Cap
    /\ LET buf == Before(hi, collector[w].buf) IN
       collector' = [collector EXCEPT
          ![w].buf = buf, ![w].len = Folded(buf),
          ![w].pc = IF Folded(buf) > (Cap \div 4) * 3 THEN "cutting" ELSE "adding"]
    /\ UNCHANGED <<phase, hi, nextGame, taking, plan>>

(* fetch_min.                                                              *)
EndNoLater(cut) == Min({hi, cut})

(* The pass ends for every worker at the part that keeps about half; a     *)
(* first part that leaves no room is too large for the share.              *)
Cut(w) ==
    LET buf == collector[w].buf
        cut == Max({PartAt(Cap \div 2, buf), first + 1})
        cutBuf == Before(cut, buf) IN
    /\ collector[w].pc = "cutting"
    /\ hi' = EndNoLater(cut)
    /\ collector' = [collector EXCEPT ![w].buf = cutBuf, ![w].len = Folded(cutBuf), ![w].pc = "adding"]
    /\ phase' = IF Folded(cutBuf) > Cap - Cap \div 8 THEN "tooLarge" ELSE phase
    /\ UNCHANGED <<nextGame, taking, plan>>

(* The entry is added then, if its part is still the pass's.               *)
Add(w) ==
    /\ collector[w].pc = "adding"
    /\ AddEntry(w)
    /\ UNCHANGED <<phase, hi, nextGame, taking, plan>>
-----------------------------------------------------------------------------
(* write_parts, once every worker ended: the parts before the end, of all  *)
(* the buffers.                                                            *)
WritePass ==
    /\ phase = "collecting" /\ \A w \in Collectors : collector[w].pc \in {"none", "ended"}
    /\ tree' = tree \union {e \in UNION {collector[w].buf : w \in Collectors} : PartOf(e) \in first..(hi - 1)}
    /\ first' = hi /\ phase' = "planning"
    /\ collector' = [w \in Collectors |-> Idle]
    /\ UNCHANGED <<room, hi, planned, count, nextGame, taking>>

(* The tree ends once its games add up to what was counted, or is a bug.   *)
EndTree ==
    /\ phase = "planning" /\ first = PartCount
    /\ phase' = IF Cardinality(tree) = SumOf(PartIds) THEN "ended" ELSE "bug"
    /\ UNCHANGED <<hi, nextGame, taking, collector, plan>>

CollectorStep(w) ==
    /\ phase = "collecting"
    /\ Start(w) \/ LeaveChunks(w) \/ TakeChunk(w) \/ Replay(w) \/ MakeRoom(w) \/ Cut(w) \/ Add(w)

PassesNext == ReserveRoom \/ BeginPass \/ WritePass \/ EndTree \/ \E w \in Collectors : CollectorStep(w)

PassesSpec == PassesInit /\ [][PassesNext]_passesVars
-----------------------------------------------------------------------------
CollectorSteps == {"none", "starting", "taking", "replaying", "cutting", "adding", "ended"}

PassesTypeOK ==
    /\ phase \in {"begin", "planning", "collecting", "tooLarge", "ended", "bug"}
    /\ room \in Rooms \union {0} /\ count \in Collectors
    /\ first \in 0..PartCount /\ hi \in 0..PartCount /\ planned \in Nat
    /\ nextGame \in 1..(Games + MaxCollectors + 1) /\ taking \in 0..MaxCollectors
    /\ \A w \in Collectors :
         /\ collector[w].pc \in CollectorSteps /\ collector[w].last \in BOOLEAN
         /\ collector[w].game \in Nat /\ collector[w].ply \in Nat
         /\ collector[w].buf \subseteq StreamEntries /\ collector[w].len \in Nat
    /\ tree \subseteq StreamEntries

(* The parts written hold every entry of the games, each once, wherever    *)
(* the workers ended the passes (tree.rs 206-208, build.rs 564-568): no    *)
(* chunk is left untaken, and no entry is left out for a part that is      *)
(* written after all.                                                      *)
EveryEntryOnce ==
    /\ phase # "bug" /\ tree = Before(first, StreamEntries)
    /\ \A v, w \in Collectors : v # w => collector[v].buf \intersect collector[w].buf = {}

(* A pass writes its first part at least, and no part is too large for the *)
(* room reserved (tree.rs 338-352): the passes end. *)
PassTakesItsFirstPart ==
    phase # "tooLarge" /\ (phase = "collecting" => hi > first)
=============================================================================
