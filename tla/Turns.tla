-------------------------------- MODULE Turns --------------------------------
(***************************************************************************)
(* How the workers of an index build's pass write what they make           *)
(* (Turns in explorer/build.rs, as write_parts in tree.rs and write_blocks *)
(* in deep.rs use it): units are taken and made in any order, and their    *)
(* pieces placed in the file in the units' order.  What is made ahead of   *)
(* its turn is kept, within a room, and whoever places a piece places the  *)
(* kept ones that follow.  A worker that fails or panics stops the others  *)
(* (run_waiting in search/workers.rs).                                     *)
(*                                                                         *)
(* A critical section of the lock is one step; the write of a piece placed *)
(* is another, without the lock.  A wait for room looks again every 50 ms, *)
(* so it is the guard of the step that follows it.                         *)
(***************************************************************************)
EXTENDS Integers, Sequences, FiniteSets, Functions

CONSTANTS
    Writers,     \* the workers of the pass, of which it has one at least
    Units,       \* how many units it has
    Room,        \* the bytes that may be kept
    Sizes,       \* the bytes of a piece
    MaxPieces,   \* bound: the pieces of a unit
    MaxFailures  \* bound: how many workers fail by themselves

ASSUME TurnsAssumption ==
    /\ Units \in Nat \ {0} /\ Room \in Nat \ {0} /\ Sizes \subseteq Nat
    /\ MaxPieces \in Nat \ {0} /\ MaxFailures \in Nat
    /\ Writers # {} /\ IsFiniteSet(Writers)

VARIABLES
    writer,      \* each worker: where it is, the unit it took and the piece it made last of it
    unitsTaken,  \* taken
    next,        \* Queue.next
    kept,        \* Queue.kept
    bytes,       \* Queue.bytes
    sink,        \* the piece placed last
    halt         \* whether the workers are to stop: one failed, or the build was asked to

turnsVars == <<writer, unitsTaken, next, kept, bytes, sink, halt>>
queue == <<next, kept, bytes, sink>>
-----------------------------------------------------------------------------
UnitIds == 0..(Units - 1)
Pieces == [unit : UnitIds, nth : 1..MaxPieces, size : Sizes, last : BOOLEAN]
Made == [unit : UnitIds \union {-1}, nth : 0..MaxPieces, size : Sizes \union {0}, last : BOOLEAN]
(* Before the first piece, a unit before the first would have ended.       *)
NothingOf(unit) == [unit |-> unit, nth |-> 0, size |-> 0, last |-> TRUE]
NoPiece == NothingOf(-1)
WriterSteps == {"idle", "free", "making", "putting", "writing", "handing", "failing", "failed", "ended"}

Set(w, r) == writer' = [writer EXCEPT ![w] = r]
To(w, step) == Set(w, [writer[w] EXCEPT !.pc = step])
RestAt(w, step) == Set(w, [pc |-> step, made |-> NoPiece])
Is(w, step) == writer[w].pc = step

TurnsInit ==
    /\ writer = [w \in Writers |-> [pc |-> "idle", made |-> NoPiece]]
    /\ unitsTaken = 0 /\ next = 0 /\ bytes = 0
    /\ kept = [u \in UnitIds |-> << >>]
    /\ sink = NoPiece /\ halt = FALSE

BeginWriting ==
    /\ \A w \in Writers : Is(w, "idle")
    /\ writer' = [w \in Writers |-> [writer[w] EXCEPT !.pc = "free"]]
    /\ UNCHANGED <<unitsTaken, queue, halt>>

(* Progress::ask_stop, whenever it comes.                                  *)
AskStop ==
    /\ ~halt /\ \E w \in Writers : ~Is(w, "idle")
    /\ halt' = TRUE /\ UNCHANGED <<writer, unitsTaken, queue>>
-----------------------------------------------------------------------------
(* The next unit, if one is left; the flag is looked at once it is taken.  *)
TakeUnit(w) ==
    /\ Is(w, "free")
    /\ unitsTaken' = unitsTaken + 1
    /\ IF unitsTaken >= Units THEN RestAt(w, "ended")
       ELSE IF halt THEN RestAt(w, "failing")
       ELSE Set(w, [pc |-> "making", made |-> NothingOf(unitsTaken)])
    /\ UNCHANGED <<queue, halt>>

(* The next piece of the unit, which may end it.                           *)
Make(w) ==
    /\ Is(w, "making")
    /\ \E size \in Sizes, last \in BOOLEAN :
         LET nth == writer[w].made.nth + 1 IN
         /\ nth = MaxPieces => last
         /\ Set(w, [pc |-> "putting", made |-> [unit |-> writer[w].made.unit, nth |-> nth,
                                               size |-> size, last |-> last]])
    /\ UNCHANGED <<unitsTaken, queue, halt>>

(* Mutant: what is kept already is not counted.                            *)
FitsByItself(piece) == next = piece.unit \/ bytes = 0 \/ piece.size <= Room

(* A piece fits in its turn, when nothing is kept, or within the room.     *)
FitsKept(piece) == next = piece.unit \/ bytes = 0 \/ bytes + piece.size <= Room

(* Workers fail by themselves up to a bound; those stopped are not counted *)
(* apart, as nothing tells them from each other.                           *)
MayFail == Cardinality({w \in Writers : writer[w].pc \in {"failing", "failed"}}) < MaxFailures

(* A worker that leaves the queue makes its next piece or takes a unit.    *)
GoOnMaking(w) == IF writer[w].made.last THEN RestAt(w, "free") ELSE To(w, "making")

(* The piece whose turn it is, of the `waiting` bytes kept as `pieces`, is *)
(* placed and left to w to write, or its placing fails.                    *)
PlaceNext(w, pieces, waiting) ==
    IF next \in UnitIds /\ pieces[next] # << >>
    THEN LET piece == Head(pieces[next]) IN
         /\ kept' = [pieces EXCEPT ![next] = Tail(@)]
         /\ bytes' = waiting - piece.size
         /\ next' = IF piece.last THEN next + 1 ELSE next
         /\ \/ sink' = piece /\ To(w, "writing")
            \/ MayFail /\ RestAt(w, "failing") /\ UNCHANGED sink
    ELSE kept' = pieces /\ bytes' = waiting /\ GoOnMaking(w) /\ UNCHANGED <<next, sink>>

(* Mutant: in its turn a piece goes before those of its unit still kept.   *)
PutStraight(w) ==
    LET piece == writer[w].made IN
    /\ Is(w, "putting") /\ FitsKept(piece)
    /\ PlaceNext(w, [kept EXCEPT ![piece.unit] = IF next = piece.unit THEN <<piece>> \o @
                                                 ELSE Append(@, piece)], bytes + piece.size)
    /\ UNCHANGED <<unitsTaken, halt>>

(* Turns::put: once it fits, the piece is kept, and whichever has its turn *)
(* is placed.                                                              *)
Put(w) ==
    LET piece == writer[w].made IN
    /\ Is(w, "putting") /\ FitsKept(piece)
    /\ PlaceNext(w, [kept EXCEPT ![piece.unit] = Append(@, piece)], bytes + piece.size)
    /\ UNCHANGED <<unitsTaken, halt>>

(* The wait for room ends once the workers are to stop.                    *)
PutStops(w) ==
    /\ Is(w, "putting") /\ ~FitsKept(writer[w].made) /\ halt
    /\ RestAt(w, "failing")
    /\ UNCHANGED <<unitsTaken, queue, halt>>

(* The piece placed is written at its place, without the lock.             *)
Write(w) ==
    /\ Is(w, "writing") /\ To(w, "handing")
    /\ UNCHANGED <<unitsTaken, queue, halt>>

(* The lock again, for the next piece whose turn has come.                 *)
PlaceMore(w) ==
    /\ Is(w, "handing") /\ PlaceNext(w, kept, bytes)
    /\ UNCHANGED <<unitsTaken, halt>>

(* A worker fails or panics as it makes or writes a piece.                 *)
FailPart(w) ==
    /\ writer[w].pc \in {"making", "writing"} /\ MayFail
    /\ RestAt(w, "failing")
    /\ UNCHANGED <<unitsTaken, queue, halt>>

(* Mutant: a worker that panics ends without a word to the others (#172).  *)
UnwindUnsaid(w) ==
    /\ Is(w, "failing") /\ RestAt(w, "failed")
    /\ UNCHANGED <<unitsTaken, queue, halt>>

(* Its error, or Unwinding as it panics, raises the flag the others look   *)
(* at.                                                                     *)
RaiseHalt(w) ==
    /\ Is(w, "failing") /\ RestAt(w, "failed") /\ halt' = TRUE
    /\ UNCHANGED <<unitsTaken, queue>>
-----------------------------------------------------------------------------
WriterStep(w) == \/ TakeUnit(w) \/ Make(w) \/ Put(w) \/ PutStops(w) \/ Write(w)
                 \/ PlaceMore(w) \/ RaiseHalt(w)

TurnsNext == BeginWriting \/ AskStop \/ \E w \in Writers : WriterStep(w) \/ FailPart(w)

(* Threads run, and the lock is given to each that waits for it.           *)
TurnsFairness == \A w \in Writers : WF_turnsVars(WriterStep(w))

TurnsSpec == TurnsInit /\ [][TurnsNext]_turnsVars /\ TurnsFairness
-----------------------------------------------------------------------------
TurnsTypeOK ==
    /\ writer \in [Writers -> [pc : WriterSteps, made : Made]]
    /\ unitsTaken \in 0..(Units + Cardinality(Writers)) /\ next \in 0..Units
    /\ \A u \in UnitIds : kept[u] \in Seq(Pieces)
    /\ bytes \in Nat /\ sink \in Made /\ halt \in BOOLEAN

(* The pieces are placed in the order of their units, whatever order they  *)
(* were made and handed over in, and none is missing or there twice unless *)
(* a worker failed, whose build ends with no file (build.rs 686-692).      *)
Follows(before, piece) ==
    IF before.last THEN piece.unit = before.unit + 1 /\ piece.nth = 1
    ELSE piece.unit = before.unit /\ piece.nth = before.nth + 1

Later(before, piece) ==
    \/ piece.unit > before.unit
    \/ piece.unit = before.unit /\ piece.nth > before.nth

Failed == \E w \in Writers : writer[w].pc \in {"failing", "failed"}

PiecesInOrder == [][sink' # sink => \/ Follows(sink, sink')
                                    \/ Failed /\ Later(sink, sink')]_turnsVars

(* The bytes kept of some units, one by one: each of the piece it is in.   *)
BytesOf(units) ==
    UNION {UNION {{<<u, piece.nth>>} \X (1..piece.size) : piece \in Range(kept[u])} : u \in units}

(* What is kept is counted, and of the units whose turn has not come no    *)
(* more bytes than the room are, or those of one piece (build.rs 695-697); *)
(* and once every worker ended well, nothing is kept and the last unit is  *)
(* placed.                                                                 *)
KeptWithinRoom ==
    LET ahead == BytesOf(UnitIds \ {next}) IN
    /\ bytes = Cardinality(BytesOf(UnitIds))
    /\ Cardinality(ahead) <= Room \/ \A b, c \in ahead : b[1] = c[1]
    /\ (\A w \in Writers : Is(w, "ended")) =>
         /\ next = Units /\ sink.unit = Units - 1 /\ sink.last
         /\ \A u \in UnitIds : kept[u] = <<>>

(* Every worker of a pass ends, whichever of them fails or panics while    *)
(* another waits for its turn or for room (search/workers.rs 122-126).     *)
TurnsEnd == (\E w \in Writers : ~Is(w, "idle")) ~> \A w \in Writers : writer[w].pc \in {"ended", "failed"}
=============================================================================
