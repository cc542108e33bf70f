------------------------------ MODULE PgnWrite ------------------------------
(***************************************************************************)
(* Writes into a PGN file (crates/bridge/src/write.rs), with what they     *)
(* meet: the entry's open slot (catalog.rs), the header index and its      *)
(* builds (pgnindex.rs, cbformat/src/pgnfile), other programs that change  *)
(* the same file, and a bridge that may end at any step.                   *)
(*                                                                         *)
(* One PGN file, listed under one path or several (a link and its target), *)
(* each an entry with a slot, a build and a header index of its own.       *)
(* Clients read it and send writes that name the generation they read; the *)
(* lock WRITES lets one write in at a time.  The file is held while a      *)
(* write reads it and appends to it or copies it, as Windows holds it: no  *)
(* other program writes it then, though one may remove or replace it.  A   *)
(* game is its text; all games take as many bytes, so that a game's number *)
(* tells where it is.                                                      *)
(***************************************************************************)
EXTENDS Naturals, Sequences

CONSTANTS
    Entries,     \* the listed paths of the file
    Clients,     \* the pages that read and write it
    PathsOf,     \* the paths each page may open
    Texts,       \* the games there are
    Torn,        \* what an append that did not end leaves at the end
    MaxGames,    \* bound: games in the file
    MaxWrites,   \* bound: writes sent
    MaxTrouble,  \* bound: changes of other programs and of the list,
                 \* failures, restarts
    None         \* no file, no index, no operation

ASSUME PathsOfAssumption == PathsOf \in [Clients -> SUBSET Entries]
ASSUME MaxGamesAssumption == MaxGames \in Nat \ {0}
ASSUME MaxWritesAssumption == MaxWrites \in Nat
ASSUME MaxTroubleAssumption == MaxTrouble \in Nat

VARIABLES
    file,     \* the PGN file: its generation and games, or None
    clock,    \* the last generation a file was given
    temp,     \* <name>.pgn.oschess-tmp
    head,     \* <id>.head of each entry: the header index
    work,     \* whether <id>.head.partial is there
    listed,   \* whether the entry is on the list, was, or was not met yet
    slot,     \* Held::open of each entry
    build,    \* the header index build of each entry
    jobs,     \* the queue of builds
    reading,  \* the build running
    client,   \* what each client's request does
    known,    \* what each page last read, and the generation it was told
    sent,     \* how many writes were sent
    trouble,  \* how much of MaxTrouble was spent
    raced     \* whether the file changed where a write no longer looks (history)

disk   == <<file, clock, temp>>
folder == <<head, work>>
opens  == <<slot, build, jobs, reading>>
spent  == <<sent, trouble, raced>>
vars   == <<file, clock, temp, head, work, listed, slot, build, jobs, reading,
            client, known, sent, trouble, raced>>
-----------------------------------------------------------------------------
Games == Seq(Texts \union {Torn})

(* A header index made for the generation "stamp" of a file of "len" games; *)
(* a damaged one claims more games than there can be.                      *)
Heads == [stamp : Nat, games : Games \union {None}, len : Nat]

Slots == [gen : Nat, games : Games \union {None}]

Idle == [tag |-> "Idle"]
Working == [tag |-> "Working"]
Failed(g) == [tag |-> "Failed", gen |-> g]
Builds == {Idle, Working} \union [tag : {"Failed"}, gen : Nat]

Jobs == [entry : Entries, gen : Nat]
Readings == [entry : Entries, gen : Nat, games : Games \union {None}]

(* Op: an append, or a replace or a removal of game n.                     *)
Appends  == [kind : {"append"}, text : Texts]
Replaces == [kind : {"replace"}, n : Nat \ {0}, text : Texts]
Deletes  == [kind : {"delete"}, n : Nat \ {0}]
Ops      == Appends \union Replaces \union Deletes

(* A request: "gen" is the generation its client named, "look" the one its *)
(* opening saw, "games" the index it edits by, "new" the generation after. *)
AtRest == [pc |-> "idle"]
Opening == {"looked", "opening"}
Holding == {"held", "planned", "tearing", "copying"}
Editing == Holding \union {"copied", "swapping", "written", "stamped", "updating"}
Writing == {"waiting", "entered", "opened", "damaged", "installing"} \union Editing
Reads == [pc : Opening, entry : Entries, op : {None},
          gen : {0}, look : Nat, games : {None}, new : {0}]
Writes == [pc : Opening \union Writing, entry : Entries, op : Ops,
           gen : Nat, look : Nat, games : Games \union {None}, new : Nat]

Unread == [gen |-> 0, games |-> <<>>]

ASSUME NoneAssumption ==
    /\ None \notin [gen : Nat, games : Games] /\ None \notin Games
    /\ None \notin Heads /\ None \notin Slots /\ None \notin Readings /\ None \notin Ops
-----------------------------------------------------------------------------
Init ==
    /\ \E t1, t2 \in Texts : file = [gen |-> 1, games |-> <<t1, t2>>]
    /\ clock = 1
    /\ temp = None
    /\ head = [e \in Entries |-> None]
    /\ work = [e \in Entries |-> FALSE]
    /\ listed = [e \in Entries |-> "new"]
    /\ slot = [e \in Entries |-> None]
    /\ build = [e \in Entries |-> Idle]
    /\ jobs = <<>>
    /\ reading = None
    /\ client = [c \in Clients |-> AtRest]
    /\ known = [c \in Clients |-> Unread]
    /\ sent = 0
    /\ trouble = 0
    /\ raced = FALSE

Trouble == trouble < MaxTrouble /\ trouble' = trouble + 1

(* Mutant of Put: a change may leave the file a generation seen before.    *)
PutAgain(games) ==
    /\ file' = [gen |-> clock + 1, games |-> games]
    /\ clock' = clock

(* A change of the file gives it a generation it never had (#241).         *)
Put(games) ==
    /\ file' = [gen |-> clock + 1, games |-> games]
    /\ clock' = clock + 1

Present == IF file = None THEN 0 ELSE file.gen
-----------------------------------------------------------------------------
(* What an operation does to the file, and update to its header index.     *)

Without(games, n) == SubSeq(games, 1, n - 1) \o SubSeq(games, n + 1, Len(games))

(* The file "now" edited by the index "old": the last game the index knows *)
(* goes with all that follows it.                                          *)
Edited(op, old, now) ==
    CASE op.kind = "append"  -> Append(now, op.text)
      [] op.kind = "replace" -> [now EXCEPT ![op.n] = op.text]
      [] op.kind = "delete"  -> IF op.n < Len(old) THEN Without(now, op.n)
                                ELSE SubSeq(now, 1, op.n - 1)

(* check_neighbours: the games around the edit are where the index says.   *)
NeighboursFound(op, old, now) ==
    CASE op.kind = "append"  -> Len(now) = Len(old)
      [] op.kind = "replace" -> IF op.n < Len(old) THEN op.n < Len(now) ELSE Len(now) = Len(old)
      [] op.kind = "delete"  -> IF op.n < Len(old) THEN op.n < Len(now) ELSE op.n <= Len(now)

(* edit::update: the games well before the edit as the old index has them, *)
(* those around it read from the file as it now is, and, once a game is    *)
(* found where the first old one after the edit should be, those after it  *)
(* as the old index has them.                                              *)
First(op, old) == IF op.kind = "append" THEN Len(old) + 1 ELSE op.n
After(op, old) == IF op.kind = "append" THEN Len(old) + 1 ELSE op.n + 1
Moved(op, m)   == IF op.kind = "delete" THEN m - 1 ELSE m

(* Mutant of Updated: the game removed or replaced keeps its record.       *)
UpdatedWithOld(op, old, now) ==
    LET kept == IF First(op, old) > 2 THEN First(op, old) - 2 ELSE 0
    IN  SubSeq(old, 1, kept) \o SubSeq(now, kept + 1, First(op, old) - 1) \o
            SubSeq(old, First(op, old), Len(old))

Updated(op, old, now) ==
    LET kept == IF First(op, old) > 2 THEN First(op, old) - 2 ELSE 0
        next == After(op, old)
        at   == Moved(op, next)
    IN  SubSeq(old, 1, kept) \o
            IF next <= Len(old) /\ at <= Len(now)
            THEN SubSeq(now, kept + 1, at - 1) \o SubSeq(old, next, Len(old))
            ELSE SubSeq(now, kept + 1, Len(now))
-----------------------------------------------------------------------------
(* Reading: Entry::open, and what it does to the slot and the build.       *)

At(c, pcs) == client[c].pc \in pcs
Goes(c, pc) == client' = [client EXCEPT ![c].pc = pc]
Ends(c) == client' = [client EXCEPT ![c] = AtRest]

(* Who holds an entry's slot, and its build through while_idle.            *)
SlotFree(e)  == \A c \in Clients : ~(At(c, {"opening"}) /\ client[c].entry = e)
(* Mutant of BuildFree: the index is installed before the build is let go. *)
BuildFreeInstalled(e) ==
    \A c \in Clients : ~(At(c, Editing \union {"installing"}) /\ client[c].entry = e)
BuildFree(e) == \A c \in Clients : ~(At(c, Editing) /\ client[c].entry = e)

(* Entry::open looks at the file, for a read or within a write.            *)
Look(c, e) ==
    /\ At(c, {"idle"})
    /\ listed[e] = "listed" /\ file # None
    /\ client' = [client EXCEPT ![c] =
           [pc |-> "looked", entry |-> e, op |-> None, gen |-> 0, look |-> file.gen,
            games |-> None, new |-> 0]]
    /\ UNCHANGED <<disk, folder, listed, opens, known, spent>>

LookToWrite(c) ==
    /\ At(c, {"entered"})
    /\ IF listed[client[c].entry] = "listed" /\ file # None
       THEN client' = [client EXCEPT ![c].pc = "looked", ![c].look = file.gen]
       ELSE Ends(c)
    /\ UNCHANGED <<disk, folder, listed, opens, known, spent>>

(* The database is open: a read is answered, a write goes on at the        *)
(* generation it names.                                                    *)
Opened(c, open) ==
    IF client[c].op = None
    THEN /\ Ends(c)
         /\ known' = IF open.games = None THEN known ELSE [known EXCEPT ![c] = open]
    ELSE /\ IF open.gen = client[c].gen
            THEN client' = [client EXCEPT ![c].pc = "opened", ![c].games = open.games]
            ELSE Ends(c)
         /\ known' = known

OpenAt(e, g) == slot[e] # None /\ slot[e].gen = g

(* Under the slot, a file other than the one open is looked at again.      *)
LookInSlot(c) ==
    /\ At(c, {"looked"})
    /\ LET e == client[c].entry
           look == IF slot[e] = None \/ OpenAt(e, client[c].look) THEN client[c].look ELSE Present
       IN  /\ SlotFree(e)
           /\ \/ look = 0 /\ Ends(c) /\ known' = known
              \/ look # 0 /\ OpenAt(e, look) /\ Opened(c, slot[e])
              \/ /\ look # 0 /\ ~OpenAt(e, look)
                 /\ client' = [client EXCEPT ![c].pc = "opening", ![c].look = look]
                 /\ known' = known
    /\ UNCHANGED <<disk, folder, listed, opens, spent>>

(* Mutant of Opens: any index for as many bytes will do.                   *)
OpensByLength(e, g) ==
    /\ head[e] # None /\ file # None
    /\ head[e].len = Len(file.games)

(* pgnfile::Database::open: the index must be made for the generation, and *)
(* for as many bytes as the file now has.                                  *)
Opens(e, g) ==
    /\ head[e] # None /\ file # None
    /\ head[e].stamp = g /\ head[e].len = Len(file.games)

(* pgnindex::Registry::open, within the slot.                              *)
OpenIndexed(c) ==
    /\ At(c, {"opening"})
    /\ LET e == client[c].entry  g == client[c].look
       IN  /\ BuildFree(e)
           /\ build[e] # Working /\ build[e] # Failed(g)
           /\ Opens(e, g)
           /\ build' = [build EXCEPT ![e] = Idle]
           /\ slot' = [slot EXCEPT ![e] = [gen |-> g, games |-> head[e].games]]
           /\ Opened(c, [gen |-> g, games |-> head[e].games])
    /\ UNCHANGED <<disk, folder, listed, jobs, reading, spent>>

OpenQueues(c) ==
    /\ At(c, {"opening"})
    /\ LET e == client[c].entry  g == client[c].look
       IN  /\ BuildFree(e)
           /\ build[e] # Working /\ build[e] # Failed(g)
           /\ ~Opens(e, g)
           /\ build' = [build EXCEPT ![e] = Working]
           /\ jobs' = Append(jobs, [entry |-> e, gen |-> g])
    /\ Ends(c)
    /\ UNCHANGED <<disk, folder, listed, slot, reading, known, spent>>

(* No folder, or no thread, for the build.                                 *)
OpenFails(c) ==
    /\ At(c, {"opening"})
    /\ LET e == client[c].entry  g == client[c].look
       IN  /\ BuildFree(e)
           /\ build[e] # Working /\ build[e] # Failed(g)
           /\ ~Opens(e, g)
           /\ build' = [build EXCEPT ![e] = Failed(g)]
    /\ Trouble
    /\ Ends(c)
    /\ UNCHANGED <<disk, folder, listed, slot, jobs, reading, known, sent, raced>>

OpenUnready(c) ==
    /\ At(c, {"opening"})
    /\ LET e == client[c].entry
       IN  BuildFree(e) /\ build[e] \in {Working, Failed(client[c].look)}
    /\ Ends(c)
    /\ UNCHANGED <<disk, folder, listed, opens, known, spent>>

Read(c) == \/ LookInSlot(c) \/ OpenIndexed(c) \/ OpenQueues(c) \/ OpenFails(c)
           \/ OpenUnready(c) \/ \E e \in PathsOf[c] : Look(c, e)
-----------------------------------------------------------------------------
(* The build of a header index: a job of the queue, pgnfile::build.        *)

SetBuild(e, b) == build' = [build EXCEPT ![e] = b]

BeginBuild ==
    /\ reading = None /\ jobs # <<>>
    /\ reading' = [entry |-> Head(jobs).entry, gen |-> Head(jobs).gen, games |-> None]
    /\ jobs' = Tail(jobs)
    /\ UNCHANGED <<disk, folder, listed, slot, build, client, known, spent>>

ReadGames ==
    /\ reading # None /\ reading.games = None /\ file # None
    /\ reading' = [reading EXCEPT !.games = file.games]
    /\ work' = [work EXCEPT ![reading.entry] = TRUE]
    /\ UNCHANGED <<disk, head, listed, slot, build, jobs, client, known, spent>>

PublishIndex ==
    /\ reading # None /\ reading.games # None
    /\ work[reading.entry]
    /\ head' = [head EXCEPT ![reading.entry] =
           [stamp |-> reading.gen, games |-> reading.games, len |-> Len(reading.games)]]
    /\ work' = [work EXCEPT ![reading.entry] = FALSE]
    /\ SetBuild(reading.entry, Idle)
    /\ reading' = None
    /\ UNCHANGED <<disk, listed, slot, jobs, client, known, spent>>

(* The file is gone, or cannot be read, or the index cannot be written, or *)
(* not renamed: its work then stays.                                       *)
GoneOrFails(e, gone) ==
    \/ gone /\ work' = [work EXCEPT ![e] = FALSE] /\ trouble' = trouble
    \/ Trouble /\ work' \in {work, [work EXCEPT ![e] = FALSE]}

BuildFails ==
    /\ reading # None
    /\ GoneOrFails(reading.entry, reading.games = None /\ file = None)
    /\ SetBuild(reading.entry, Failed(reading.gen))
    /\ reading' = None
    /\ UNCHANGED <<disk, head, listed, slot, jobs, client, known, sent, raced>>

Builder == BeginBuild \/ ReadGames \/ PublishIndex \/ BuildFails
-----------------------------------------------------------------------------
(* A write (write.rs), under WRITES from "entered" on.                     *)

Inside(c) == At(c, Writing \ {"waiting"}) \/ (At(c, Opening) /\ client[c].op # None)

OpsOn(games) ==
    (IF Len(games) < MaxGames THEN [kind : {"append"}, text : Texts] ELSE {})
    \union [kind : {"replace"}, n : 1..Len(games), text : Texts]
    \union [kind : {"delete"}, n : 1..Len(games)]

(* A page sends a write of what it read.                                   *)
Send(c, e) ==
    /\ At(c, {"idle"})
    /\ sent < MaxWrites /\ sent' = sent + 1
    /\ known[c].gen # 0
    /\ \E op \in OpsOn(known[c].games) :
           client' = [client EXCEPT ![c] =
               [pc |-> "waiting", entry |-> e, op |-> op, gen |-> known[c].gen, look |-> 0,
                games |-> None, new |-> 0]]
    /\ UNCHANGED <<disk, folder, listed, opens, known, trouble, raced>>

(* Mutant of Enter: each path has a lock of its own.                       *)
EnterByPath(c) ==
    /\ At(c, {"waiting"})
    /\ \A other \in Clients : ~(Inside(other) /\ client[other].entry = client[c].entry)
    /\ IF Present \in {0, client[c].gen} THEN Goes(c, "entered") ELSE Ends(c)
    /\ UNCHANGED <<disk, folder, listed, opens, known, spent>>

(* A file changed since the client read it is a conflict.                  *)
Enter(c) ==
    /\ At(c, {"waiting"})
    /\ \A other \in Clients : ~Inside(other)
    /\ IF Present \in {0, client[c].gen} THEN Goes(c, "entered") ELSE Ends(c)
    /\ UNCHANGED <<disk, folder, listed, opens, known, spent>>

(* Refused before anything is held: read-only, no such game, no folder.    *)
Decline(c) ==
    /\ At(c, {"opened"})
    /\ Ends(c)
    /\ UNCHANGED <<disk, folder, listed, opens, known, spent>>

(* Mutant of Hold: a write does not look for a build.                      *)
HoldAnyway(c) ==
    /\ At(c, {"opened"})
    /\ (client[c].games # None /\ client[c].op \notin Appends)
           => client[c].op.n <= Len(client[c].games)
    /\ Goes(c, "held")
    /\ UNCHANGED <<disk, folder, listed, opens, known, spent>>

(* while_idle: a build of the index makes the database opening.            *)
Hold(c) ==
    /\ At(c, {"opened"})
    /\ (client[c].games # None /\ client[c].op \notin Appends)
           => client[c].op.n <= Len(client[c].games)
    /\ IF build[client[c].entry] = Working THEN Ends(c) ELSE Goes(c, "held")
    /\ UNCHANGED <<disk, folder, listed, opens, known, spent>>

(* The end of while_idle, on an error.                                     *)
Release(c) == Ends(c) /\ SetBuild(client[c].entry, Idle)

CheckHeld(c) ==
    /\ At(c, {"held"})
    /\ Present = client[c].gen
    /\ client[c].games # None
    /\ NeighboursFound(client[c].op, client[c].games, file.games)
    /\ client' = [client EXCEPT ![c].pc = "planned", ![c].new = Present]
    /\ UNCHANGED <<disk, folder, listed, opens, known, spent>>

(* The file changed before it was held, or cannot be opened or read, or    *)
(* the edit would join games, or the game has no bytes in its code page.   *)
Refuse(c) ==
    /\ At(c, {"held"})
    /\ Release(c)
    /\ UNCHANGED <<disk, folder, listed, slot, jobs, reading, known, spent>>

(* The index claims more games than the file has bytes: it goes, its       *)
(* opening is forgotten, and the file is opened again, for no answer.      *)
FindDamaged(c) ==
    /\ At(c, {"held"})
    /\ Present = client[c].gen
    /\ client[c].games = None
    /\ head' = [head EXCEPT ![client[c].entry] = None]
    /\ SetBuild(client[c].entry, Idle)
    /\ Goes(c, "damaged")
    /\ UNCHANGED <<disk, work, listed, slot, jobs, reading, known, spent>>

Forget(c) ==
    /\ At(c, {"damaged"})
    /\ LET e == client[c].entry
       IN  /\ SlotFree(e)
           /\ slot' = IF OpenAt(e, client[c].gen) THEN [slot EXCEPT ![e] = None] ELSE slot
    /\ client' = [client EXCEPT ![c].pc = "entered", ![c].gen = 0]
    /\ UNCHANGED <<disk, folder, listed, build, jobs, reading, known, spent>>

(* append_at_end writes after the last byte; part of the game is there     *)
(* before all of it.  What is written into a file replaced meanwhile is    *)
(* lost with it.                                                           *)
Leaves(c, games) ==
    IF file # None /\ Present = client[c].new THEN Put(games) ELSE UNCHANGED <<file, clock>>

Tear(c) ==
    /\ At(c, {"planned"}) /\ client[c].op \in Appends
    /\ Leaves(c, Append(file.games, Torn))
    /\ client' = [client EXCEPT ![c].pc = "tearing", ![c].new = IF file' = file THEN 0 ELSE clock']
    /\ UNCHANGED <<temp, folder, listed, opens, known, spent>>

Untorn(c) == SubSeq(file.games, 1, Len(file.games) - 1)

Appended(c) ==
    /\ At(c, {"tearing"})
    /\ Leaves(c, Edited(client[c].op, client[c].games, Untorn(c)))
    /\ Goes(c, "written")
    /\ UNCHANGED <<temp, folder, listed, opens, known, spent>>

(* The append fails part-way: the file is cut back, if that is done.       *)
CutBack(c) ==
    /\ At(c, {"tearing"})
    /\ Trouble
    /\ Leaves(c, Untorn(c)) \/ UNCHANGED <<file, clock>>
    /\ Release(c)
    /\ UNCHANGED <<temp, folder, listed, slot, jobs, reading, known, sent, raced>>

(* rewrite: the whole new file is written beside the old one, made new.    *)
CreateTemp(c) ==
    /\ At(c, {"planned"}) /\ client[c].op \notin Appends
    /\ temp = None /\ temp' = <<Torn>>
    /\ Goes(c, "copying")
    /\ UNCHANGED <<file, clock, folder, listed, opens, known, spent>>

TempTaken(c) ==
    /\ At(c, {"planned"}) /\ client[c].op \notin Appends
    /\ temp # None
    /\ Release(c)
    /\ UNCHANGED <<disk, folder, listed, slot, jobs, reading, known, spent>>

(* A temporary file removed while it is written is gone when it is closed; *)
(* what is copied of a file replaced meanwhile will not be renamed.        *)
Copy(c) ==
    /\ At(c, {"copying"})
    /\ temp' = IF temp = None \/ Present # client[c].gen THEN temp
               ELSE Edited(client[c].op, client[c].games, file.games)
    /\ Goes(c, "copied")
    /\ UNCHANGED <<file, clock, folder, listed, opens, known, spent>>

RemoveTemp(c) ==
    /\ temp' = None
    /\ Release(c)
    /\ UNCHANGED <<file, clock, folder, listed, slot, jobs, reading, known, sent, raced>>

(* The disk refuses the copy, its name or its removal.                     *)
CopyFails(c) ==
    /\ At(c, {"copying", "copied", "swapping"})
    /\ Trouble
    /\ temp' \in {None, temp}
    /\ Release(c)
    /\ UNCHANGED <<file, clock, folder, listed, slot, jobs, reading, known, sent, raced>>

(* Mutant of LookOnceMore: the file is not looked at again.                *)
LookOnceMoreNot(c) ==
    /\ At(c, {"copied"})
    /\ Goes(c, "swapping")
    /\ UNCHANGED <<disk, folder, listed, opens, known, spent>>

(* The file is let go, and its generation looked at again.                 *)
LookOnceMore(c) ==
    /\ At(c, {"copied"})
    /\ Present = client[c].gen
    /\ Goes(c, "swapping")
    /\ UNCHANGED <<disk, folder, listed, opens, known, spent>>

ChangedMeanwhile(c) ==
    /\ At(c, {"copied"})
    /\ Present # client[c].gen
    /\ trouble' = trouble
    /\ RemoveTemp(c)

Rename(c) ==
    /\ At(c, {"swapping"})
    /\ temp # None
    /\ Put(temp)
    /\ temp' = None
    /\ Goes(c, "written")
    /\ UNCHANGED <<folder, listed, opens, known, spent>>

NothingToRename(c) ==
    /\ At(c, {"swapping"})
    /\ temp = None
    /\ trouble' = trouble
    /\ RemoveTemp(c)

(* The generation after the write, whoever made it; a file gone is Lost.   *)
LookAfter(c) ==
    /\ At(c, {"written"})
    /\ IF file = None
       THEN Release(c)
       ELSE /\ client' = [client EXCEPT ![c].pc = "stamped", ![c].new = file.gen]
            /\ build' = build
    /\ UNCHANGED <<disk, folder, listed, slot, jobs, reading, known, spent>>

(* edit::update: from the old index, or by reading the file whole.         *)
BeginUpdate(c) ==
    /\ At(c, {"stamped"})
    /\ work' = [work EXCEPT ![client[c].entry] = TRUE]
    /\ Goes(c, "updating")
    /\ UNCHANGED <<disk, head, listed, opens, known, spent>>

(* What the page knows after its write.                                    *)
Tell(c) ==
    known' = [known EXCEPT ![c] =
        [gen |-> client[c].new, games |-> Edited(client[c].op, known[c].games, known[c].games)]]

EndUpdate(c) ==
    /\ At(c, {"updating"})
    /\ file # None /\ work[client[c].entry]
    /\ \E games \in {Updated(client[c].op, client[c].games, file.games), file.games} :
           head' = [head EXCEPT ![client[c].entry] =
               [stamp |-> client[c].new, len |-> Len(file.games), games |-> games]]
    /\ work' = [work EXCEPT ![client[c].entry] = FALSE]
    /\ SetBuild(client[c].entry, Idle)
    /\ Goes(c, "installing")
    /\ UNCHANGED <<disk, listed, slot, jobs, reading, known, spent>>

(* The file is written, its index is not: the next request reads it whole. *)
UpdateFails(c) ==
    /\ At(c, {"updating"})
    /\ GoneOrFails(client[c].entry, file = None)
    /\ Release(c)
    /\ Tell(c)
    /\ UNCHANGED <<disk, head, listed, slot, jobs, reading, sent, raced>>

Install(c) ==
    /\ At(c, {"installing"})
    /\ LET e == client[c].entry  g == client[c].new
       IN  /\ SlotFree(e)
           /\ slot' = IF Opens(e, g) /\ ~OpenAt(e, g)
                      THEN [slot EXCEPT ![e] = [gen |-> g, games |-> head[e].games]]
                      ELSE slot
    /\ Tell(c)
    /\ Ends(c)
    /\ UNCHANGED <<disk, folder, listed, build, jobs, reading, spent>>

Write(c) ==
    \/ Enter(c) \/ LookToWrite(c) \/ Decline(c) \/ Hold(c) \/ CheckHeld(c) \/ Refuse(c)
    \/ FindDamaged(c) \/ Forget(c) \/ Tear(c) \/ Appended(c) \/ CutBack(c)
    \/ CreateTemp(c) \/ TempTaken(c) \/ Copy(c) \/ CopyFails(c) \/ LookOnceMore(c)
    \/ ChangedMeanwhile(c) \/ Rename(c) \/ NothingToRename(c) \/ LookAfter(c)
    \/ BeginUpdate(c) \/ EndUpdate(c) \/ UpdateFails(c) \/ Install(c)
-----------------------------------------------------------------------------
(* What else happens.                                                      *)

Others == <<head, work, listed, slot, build, jobs, reading, client, known, sent>>

(* Another program changes the file, or removes or replaces it while the   *)
(* bridge holds it.                                                        *)
Held == \E c \in Clients : At(c, Holding)
Unlooked(c) == At(c, {"tearing", "swapping", "written"}) \/ (At(c, {"planned"}) /\ client[c].op \in Appends)
Races == raced' = (raced \/ \E c \in Clients : Unlooked(c))

ChangeGames ==
    /\ file # None /\ ~Held
    /\ \E op \in OpsOn(file.games) : Put(Edited(op, file.games, file.games))
    /\ Trouble /\ Races
    /\ UNCHANGED <<temp, Others>>

ReplaceFile ==
    /\ \/ file # None /\ file' = None /\ clock' = clock
       \/ \E t \in Texts : Put(<<t>>)
    /\ Trouble /\ Races
    /\ UNCHANGED <<temp, Others>>

(* A disk loses part of an index.                                          *)
DamageHead(e) ==
    /\ head[e] # None
    /\ head' = [head EXCEPT ![e].games = None]
    /\ Trouble
    /\ UNCHANGED <<disk, work, listed, opens, client, known, sent, raced>>

(* A path comes on the list: met for the first time, what a write left     *)
(* beside its file goes, if it can be removed.                             *)
List(e) ==
    /\ listed[e] # "listed"
    /\ listed' = [listed EXCEPT ![e] = "listed"]
    /\ \/ temp' = (IF listed[e] = "new" THEN None ELSE temp) /\ trouble' = trouble
       \/ temp' = temp /\ Trouble
    /\ UNCHANGED <<file, clock, folder, opens, client, known, sent, raced>>

Unlist(e) ==
    /\ listed[e] = "listed"
    /\ listed' = [listed EXCEPT ![e] = "removed"]
    /\ Trouble
    /\ UNCHANGED <<disk, folder, opens, client, known, sent, raced>>

(* Mutant of Sweep: a build's work goes while the build runs.              *)
SweepAnyway(e) ==
    /\ BuildFree(e)
    /\ work' = [work EXCEPT ![e] = FALSE]
    /\ head' = head
    /\ UNCHANGED <<disk, listed, opens, client, known, spent>>

(* Registry::sweep of one database's files.                                *)
Sweep(e) ==
    /\ BuildFree(e) /\ build[e] # Working
    /\ work' = [work EXCEPT ![e] = FALSE]
    /\ \/ head' = head
       \/ listed[e] # "listed" /\ head' = [head EXCEPT ![e] = None]
    /\ UNCHANGED <<disk, listed, opens, client, known, spent>>

(* RETRY_AFTER_FAILURE.                                                    *)
MinutePasses(e) ==
    /\ build[e] \notin {Idle, Working}
    /\ BuildFree(e)
    /\ SetBuild(e, Idle)
    /\ UNCHANGED <<disk, folder, listed, slot, jobs, reading, client, known, spent>>

(* The bridge ends, at any step, and starts again: what is on the disk and *)
(* what the pages know stays.                                              *)
Restart ==
    /\ Trouble
    /\ listed' = [e \in Entries |-> "new"]
    /\ slot' = [e \in Entries |-> None]
    /\ build' = [e \in Entries |-> Idle]
    /\ jobs' = <<>> /\ reading' = None
    /\ client' = [c \in Clients |-> AtRest]
    /\ UNCHANGED <<disk, folder, known, sent, raced>>

Environment ==
    \/ ChangeGames \/ ReplaceFile \/ Restart
    \/ \E e \in Entries : \/ DamageHead(e) \/ List(e) \/ Unlist(e) \/ Sweep(e)
                          \/ MinutePasses(e)

Next ==
    \/ \E c \in Clients : Read(c) \/ Write(c) \/ \E e \in PathsOf[c] : Send(c, e)
    \/ Builder
    \/ Environment

Spec == Init /\ [][Next]_vars

(* Threads run: a request once begun goes on, and so does a build.         *)
GoOn(c) == LookInSlot(c) \/ OpenIndexed(c) \/ OpenQueues(c) \/ OpenUnready(c) \/ Write(c)
Fairness == (\A c \in Clients : WF_vars(GoOn(c))) /\ WF_vars(Builder)
LiveSpec == Spec /\ Fairness
-----------------------------------------------------------------------------
TypeOK ==
    /\ file \in [gen : 1..clock, games : Games] \union {None}
    /\ clock \in Nat \ {0}
    /\ temp \in Games \union {None}
    /\ head \in [Entries -> Heads \union {None}]
    /\ work \in [Entries -> BOOLEAN]
    /\ listed \in [Entries -> {"new", "listed", "removed"}]
    /\ slot \in [Entries -> Slots \union {None}]
    /\ build \in [Entries -> Builds]
    /\ jobs \in Seq(Jobs)
    /\ reading \in Readings \union {None}
    /\ client \in [Clients -> {AtRest} \union Reads \union Writes]
    /\ known \in [Clients -> [gen : Nat, games : Games]]
    /\ sent \in 0..MaxWrites
    /\ trouble \in 0..MaxTrouble
    /\ raced \in BOOLEAN

(* pgnfile/edit.rs:109-111, pgnfile/mod.rs:630-631: an index stamped with  *)
(* the file's generation, on the disk or in an open slot, is the index of  *)
(* the games the file holds, whether a build made it or a write, unless    *)
(* another program changed the file between a write and its look.          *)
IsTrue(index, gen) ==
    (~raced /\ file # None /\ gen = Present /\ index # None) => index = file.games

IndexIsTrue ==
    \A e \in Entries :
        /\ head[e] # None => IsTrue(head[e].games, head[e].stamp)
        /\ slot[e] # None => IsTrue(slot[e].games, slot[e].gen)

(* write.rs:17-18, docs/api.md, "Writing games": a page whose generation   *)
(* is the file's knows the games of the file, whatever it and the others   *)
(* read and wrote.                                                         *)
KnownIsTrue == \A c \in Clients : IsTrue(known[c].games, known[c].gen)

(* The header of write.rs: unless another program changed the file where a *)
(* write no longer looks (between the last look and the rename, or the end *)
(* of the writing and the look at the new generation), what a write leaves *)
(* is what its page had read, with its own edit, and nothing of anyone     *)
(* else undone or half done.                                               *)
WritesWhatWasRead ==
    [][\A c \in Clients : (client'[c].pc = "written" /\ ~At(c, {"written"}) /\ ~raced) =>
           file'.games = Edited(client[c].op, known[c].games, known[c].games)]_vars

(* PgnFile's view of the file, of what the pages know and of their writes. *)
GamesNow == IF file = None THEN None ELSE file.games
KnownNow == [c \in Clients |-> IF file # None /\ known[c].gen = Present THEN known[c].games ELSE None]
CommitOf(r) ==
    CASE r.pc = "swapping" \/ (r.pc = "planned" /\ r.op \in Appends) -> "looked"
      [] r.pc = "tearing" -> "torn"
      [] r.pc = "written" -> "written"
      [] OTHER -> "no"
CommitNow == [c \in Clients |-> CommitOf(client[c])]
Promised == INSTANCE PgnFile WITH Pages <- Clients, games <- GamesNow, knows <- KnownNow,
                                  commit <- CommitNow, lapsed <- raced

(* write.rs:1-18, of every step and not only of a write's end: the file is *)
(* one that pages read and edit one at a time, each as it had read it, as  *)
(* PgnFile says; reads, builds, failures and restarts change nothing of    *)
(* it, and an append that did not end is all that is left half done.       *)
FileAsPromised == Promised!Spec

(* pgnindex.rs: a database answered as opening has one build, waiting or   *)
(* running, that will end that; and no other database has one.             *)
WorkingHasJob ==
    \A e \in Entries :
        LET waiting == {i \in DOMAIN jobs : jobs[i].entry = e}
            running == reading # None /\ reading.entry = e
        IN  /\ build[e] = Working <=> (waiting # {} \/ running)
            /\ ~(waiting # {} /\ running)
            /\ \A i, j \in waiting : i = j

(* pgnindex.rs, while_idle and sweep: neither a sweep nor another build or *)
(* write takes away the work of a build or an update that runs.            *)
WorkIsKept ==
    /\ (reading # None /\ reading.games # None) => work[reading.entry]
    /\ \A c \in Clients : At(c, {"updating"}) => work[client[c].entry]

(* The header of write.rs: once a file has its index, no write of the      *)
(* bridge's own makes a request wait for another; without trouble, nothing *)
(* else does.                                                              *)
StaysOpen == [][\A e \in Entries : head[e] # None => build'[e] # Working]_vars

(* The slots, the builds and WRITES are taken in an order that leaves no   *)
(* request waiting for ever.                                               *)
RequestsEnd == \A c \in Clients : (client[c].pc # "idle") ~> (client[c].pc = "idle")
=============================================================================
