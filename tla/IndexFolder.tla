----------------------------- MODULE IndexFolder ----------------------------
(***************************************************************************)
(* The index folder's files of one database: <id>.idx and <id>.moves,      *)
(* which a build of the index writes beside their places and renames there *)
(* one after the other (explorer/build.rs, explorer/mod.rs), and           *)
(* <id>.masks, which a build of masks makes for one build of the index     *)
(* (explorer/masks.rs, MaskBuilds).  Requests open them and look the masks *)
(* up, the index thread builds, the mask threads build, the sweep removes  *)
(* what no listed database uses, and the process may end at any step.      *)
(*                                                                         *)
(* A whole index file is told by its generation and its build id, a whole  *)
(* file of masks by the build id it was made for.  The registry's state is *)
(* taken with its lock, which the sweep holds from its look to the removal;*)
(* the mask slots have a lock of their own.  Times are left open: whether  *)
(* a failure is older than a minute and whether an unlisted database's     *)
(* grace is over may be answered either way.                               *)
(***************************************************************************)
EXTENDS Naturals, Sequences, FiniteSets

CONSTANTS
    Clients,     \* the threads that answer requests
    Threads,     \* the threads that build masks
    MaxGen,      \* bound: generations of the database
    MaxBuild,    \* bound: builds of the index, each with an id of its own
    MaxTrouble,  \* bound: failures, damage and ends of the process in all
    None         \* no file, no index, no slot

ASSUME FolderBoundsAssumption ==
    MaxGen \in Nat \ {0} /\ MaxBuild \in Nat \ {0} /\ MaxTrouble \in Nat

VARIABLES
    gen,         \* the generation of the database's files
    listed,      \* whether the database is on the list
    idx,         \* <id>.idx
    moves,       \* <id>.moves
    masks,       \* <id>.masks: the build of the index it is for
    parts,       \* which of <id>.idx.partial and <id>.moves.partial are there
    masksPart,   \* who wrote <id>.masks.partial: a thread, or an ended process
    lastBuild,   \* the last build id given
    index,       \* Registry::states: what is held of the index
    buildLine,        \* the generations whose builds wait
    work,        \* the index thread's build
    slot,        \* MaskBuilds::slots
    mask,        \* the mask threads' builds
    asking,      \* each client: the index it holds, and what it was answered
    sweeping,    \* the file the sweep is at, and whether it looked
    mishaps      \* how much of MaxTrouble was spent

folderVars == <<gen, listed, idx, moves, masks, parts, masksPart, lastBuild, index,
                buildLine, work, slot, mask, asking, sweeping, mishaps>>
-----------------------------------------------------------------------------
Gens   == 1..MaxGen
BuildIds == 1..MaxBuild
Heads  == [gen : Gens, build : BuildIds]
Loads  == [gen : Gens, build : BuildIds, stream : BuildIds]  \* an index and its stream, open
Files  == {"idx", "moves", "masks"}

Rest  == [step |-> "rest"]
Working == [gen |-> 0]
Works == {Rest} \union [step : {"taken", "removing", "writing", "renaming", "moved", "placed", "opened"},
                        gen : Gens, build : 0..MaxBuild, had : BOOLEAN]
FilledSlots == [tag : {"Building"}, build : BuildIds, by : Threads, next : 0..MaxBuild]
         \union [tag : {"Ready"}, build : BuildIds, masks : BuildIds]
         \union [tag : {"Failed"}, build : BuildIds, again : BOOLEAN]
Slots == {None} \union FilledSlots
Masks == {Rest} \union [step : {"creating", "writing", "placing", "reading", "unbuilt", "ended"},
                        build : BuildIds, stop : BOOLEAN, result : {"none", "built", "failed", "again"}]
ASSUME NoneAssumption ==
    /\ None \notin Heads /\ None \notin Loads /\ None \notin FilledSlots
    /\ None \notin Threads /\ "left" \notin Threads

Answers == {"none", "indexing", "pending", "ready", "failed", "damaged"}

FolderInit ==
    /\ gen = 1 /\ listed = TRUE
    /\ idx = None /\ moves = None /\ masks = 0 /\ parts = {} /\ masksPart = None
    /\ lastBuild = 0 /\ index = None /\ buildLine = <<>> /\ work = Rest /\ slot = None
    /\ mask = [t \in Threads |-> Rest]
    /\ asking = [c \in Clients |-> [held |-> None, answer |-> "none", masks |-> 0]]
    /\ sweeping = Rest /\ mishaps = 0

Mishap == mishaps < MaxTrouble /\ mishaps' = mishaps + 1
files == <<idx, moves, masks, parts, masksPart>>
mine  == <<slot, mask>>
-----------------------------------------------------------------------------
(* Mutant: the two files are of one generation, and of any build.          *)
MatchGenerations(i, m, g) == i # None /\ m # None /\ i.gen = g /\ m.gen = g

(* current: the index on disk, when its two files are of one build at the  *)
(* database's generation (headers_match); the one held otherwise.          *)
Match(i, m, g) == i # None /\ m # None /\ i.gen = g /\ m.gen = g /\ i.build = m.build

Opened(i, m) == [gen |-> i.gen, build |-> i.build, stream |-> m.build]

StateFree == sweeping.step # "looked"

(* Registry::index, under the state's lock: the index held, else the one   *)
(* on disk, else a build.                                                  *)
Asks(c) == asking[c].answer # "damaged"

AskHeld(c) ==
    /\ Asks(c) /\ StateFree /\ index \in Loads /\ index.gen = gen
    /\ asking' = [asking EXCEPT ![c] = [held |-> index, answer |-> "none", masks |-> 0]]
    /\ UNCHANGED <<gen, listed, files, lastBuild, index, buildLine, work, mine, sweeping, mishaps>>

AskWorking(c) ==
    /\ Asks(c) /\ StateFree /\ index = Working
    /\ asking' = [asking EXCEPT ![c] = [held |-> None, answer |-> "indexing", masks |-> 0]]
    /\ UNCHANGED <<gen, listed, files, lastBuild, index, buildLine, work, mine, sweeping, mishaps>>

Unheld == StateFree /\ index # Working /\ (index # None => index.gen # gen)

AskDisk(c) ==
    /\ Asks(c) /\ Unheld /\ Match(idx, moves, gen) /\ index' = Opened(idx, moves)
    /\ asking' = [asking EXCEPT ![c] = [held |-> index', answer |-> "none", masks |-> 0]]
    /\ UNCHANGED <<gen, listed, files, lastBuild, buildLine, work, mine, sweeping, mishaps>>

AskBuild(c) ==
    /\ Asks(c) /\ Unheld /\ ~Match(idx, moves, gen)
    /\ asking' = [asking EXCEPT ![c] = [held |-> None, answer |-> "indexing", masks |-> 0]]
    /\ index' = Working /\ buildLine' = Append(buildLine, gen)
    /\ UNCHANGED <<gen, listed, files, lastBuild, work, mine, sweeping, mishaps>>
-----------------------------------------------------------------------------
(* MaskBuilds::start: the slot builds, on a thread of its own, or failed   *)
(* for want of one.                                                        *)
StartMasks(b) ==
    \/ \E t \in Threads :
         /\ mask[t] = Rest
         /\ mask' = [mask EXCEPT ![t] = [step |-> "creating", build |-> b, stop |-> FALSE,
                                         result |-> "none"]]
         /\ slot' = [tag |-> "Building", build |-> b, by |-> t, next |-> 0]
         /\ UNCHANGED mishaps
    \/ /\ Mishap /\ slot' = [tag |-> "Failed", build |-> b, again |-> TRUE]
       /\ UNCHANGED mask

SlotBuilds  == slot # None /\ slot.tag = "Building"
SlotHolds(b) == slot # None /\ slot.tag = "Ready" /\ slot.build = b
SlotFailed(b) == slot # None /\ slot.tag = "Failed" /\ slot.build = b

Stopped == mask' = [mask EXCEPT ![slot.by].stop = TRUE]

(* MaskBuilds::lookup, for an index whose stream is of build b.            *)
LookupHeld(b) == SlotHolds(b) /\ UNCHANGED <<slot, mask, mishaps>>

(* Mutant: the build for another index starts beside the one that runs.    *)
LookupBuildingBeside(b) ==
    /\ SlotBuilds
    /\ \/ slot.build = b /\ UNCHANGED <<slot, mask, mishaps>>
       \/ slot.build # b /\ StartMasks(b)

LookupBuilding(b) ==
    /\ SlotBuilds /\ UNCHANGED mishaps
    /\ \/ slot.build = b /\ UNCHANGED <<slot, mask>>
       \/ slot.build # b /\ Stopped /\ slot' = [slot EXCEPT !.next = b]

LookupFailed(b) == SlotFailed(b) /\ ~slot.again /\ UNCHANGED <<slot, mask, mishaps>>

Anew(b) == ~SlotBuilds /\ ~SlotHolds(b)

LookupDisk(b) ==
    /\ Anew(b) /\ masks = b
    /\ slot' = [tag |-> "Ready", build |-> b, masks |-> masks] /\ UNCHANGED <<mask, mishaps>>

LookupStarts(b) == Anew(b) /\ masks # b /\ StartMasks(b)

Lookup(b) ==
    \/ LookupHeld(b) \/ LookupBuilding(b) \/ LookupFailed(b) \/ LookupDisk(b) \/ LookupStarts(b)

(* A search by fragment asks for the masks of the index it holds.          *)
AskMasks(c) ==
    LET b == asking[c].held.stream IN
    /\ asking[c].held # None /\ Asks(c)
    /\ \/ (LookupHeld(b) \/ LookupDisk(b))
          /\ asking' = [asking EXCEPT ![c].answer = "ready", ![c].masks = slot'.masks]
       \/ LookupBuilding(b) /\ asking' = [asking EXCEPT ![c].answer = "pending"]
       \/ LookupFailed(b) /\ asking' = [asking EXCEPT ![c].answer = "failed"]
       \/ LookupStarts(b) /\ asking' = [asking EXCEPT ![c].answer =
                               IF slot'.tag = "Failed" THEN "failed" ELSE "pending"]
    /\ UNCHANGED <<gen, listed, files, lastBuild, index, buildLine, work, sweeping>>

(* The request is over; its client asks again, or not.                     *)
Leave(c) ==
    /\ (asking[c].answer # "none" \/ asking[c].held # None) /\ Asks(c)
    /\ asking' = [asking EXCEPT ![c] = [held |-> None, answer |-> "none", masks |-> 0]]
    /\ UNCHANGED <<gen, listed, files, lastBuild, index, buildLine, work, mine, sweeping, mishaps>>

(* MaskBuilds::forget.                                                     *)
ForgetMasks ==
    IF SlotBuilds THEN Stopped /\ slot' = [slot EXCEPT !.next = 0]
    ELSE slot' = None /\ UNCHANGED mask
-----------------------------------------------------------------------------
(* Registry::queue's work and index(): a database changed since is not     *)
(* built; the index on disk may be current; else the former files go - a   *)
(* file another handle maps may stay - and the build writes its own.       *)
GoWork(step) == work' = [work EXCEPT !.step = step]

TakeWork ==
    /\ work = Rest /\ buildLine # <<>> /\ buildLine' = Tail(buildLine)
    /\ work' = [step |-> "taken", gen |-> Head(buildLine), build |-> 0, had |-> FALSE]
    /\ UNCHANGED <<gen, listed, files, lastBuild, index, mine, asking, sweeping, mishaps>>

DropWork ==
    /\ work.step = "taken" /\ StateFree /\ work.gen # gen /\ work' = Rest /\ index' = None
    /\ UNCHANGED <<gen, listed, files, lastBuild, buildLine, mine, asking, sweeping, mishaps>>

BeginWork ==
    LET had == slot # None \/ masks # 0 IN
    /\ work.step = "taken" /\ work.gen = gen
    /\ work' = IF Match(idx, moves, gen)
               THEN [work EXCEPT !.step = "opened", !.build = idx.build, !.had = had]
               ELSE [work EXCEPT !.step = "removing", !.had = had]
    /\ UNCHANGED <<gen, listed, files, lastBuild, index, buildLine, mine, asking, sweeping, mishaps>>

RemoveFormer ==
    /\ work.step = "removing" /\ GoWork("writing")
    /\ idx' \in {None, idx} /\ moves' \in {None, moves} /\ masks' \in {0, masks}
    /\ UNCHANGED <<gen, listed, parts, masksPart, lastBuild, index, buildLine, mine, asking,
                   sweeping, mishaps>>

WriteParts ==
    /\ work.step = "writing" /\ lastBuild < MaxBuild
    /\ lastBuild' = lastBuild + 1 /\ parts' = {"idx", "moves"}
    /\ work' = [work EXCEPT !.step = "renaming", !.build = lastBuild']
    /\ UNCHANGED <<gen, listed, idx, moves, masks, masksPart, index, buildLine, mine, asking, sweeping, mishaps>>

(* The stream, then the index: a stop between the two leaves files of      *)
(* different builds.                                                       *)
RenameMoves ==
    /\ work.step = "renaming" /\ "moves" \in parts
    /\ moves' = [gen |-> work.gen, build |-> work.build] /\ parts' = parts \ {"moves"}
    /\ GoWork("moved")
    /\ UNCHANGED <<gen, listed, idx, masks, masksPart, lastBuild, index, buildLine, mine, asking,
                   sweeping, mishaps>>

RenameIndex ==
    /\ work.step = "moved" /\ "idx" \in parts
    /\ idx' = [gen |-> work.gen, build |-> work.build] /\ parts' = parts \ {"idx"}
    /\ GoWork("placed")
    /\ UNCHANGED <<gen, listed, moves, masks, masksPart, lastBuild, index, buildLine, mine, asking,
                   sweeping, mishaps>>

(* The new files open, both of this build.                                 *)
Reopens == idx # None /\ moves # None /\ idx.build = work.build /\ moves.build = work.build

OpenBuilt ==
    /\ work.step = "placed" /\ Reopens /\ GoWork("opened")
    /\ UNCHANGED <<gen, listed, files, lastBuild, index, buildLine, mine, asking, sweeping, mishaps>>

(* A build fails of itself, for want of the partial file it would rename,  *)
(* or of the files it placed - and, MaxBuild builds made, for the bound.   *)
(* It leaves no partial file (Partials).                                   *)
Fails ==
    \/ work.step \in {"writing", "renaming", "moved"} /\ Mishap
    \/ /\ \/ work.step = "writing" /\ lastBuild = MaxBuild
          \/ work.step = "renaming" /\ "moves" \notin parts
          \/ work.step = "moved" /\ "idx" \notin parts
          \/ work.step = "placed" /\ ~Reopens
       /\ UNCHANGED mishaps

FailWork ==
    /\ Fails /\ StateFree /\ parts' = {} /\ work' = Rest /\ index' = None
    /\ UNCHANGED <<gen, listed, idx, moves, masks, masksPart, lastBuild, buildLine, mine, asking, sweeping>>

(* A database searched by fragments has its masks built again; the state   *)
(* is then ready, unless the database changed meanwhile.                   *)
LookAfterMasks ==
    /\ work.step = "opened" /\ work.had /\ work.gen = gen /\ Lookup(work.build)
    /\ work' = [work EXCEPT !.had = FALSE]
    /\ UNCHANGED <<gen, listed, files, lastBuild, index, buildLine, asking, sweeping>>

EndWork ==
    /\ work.step = "opened" /\ (work.had => work.gen # gen) /\ StateFree
    /\ index' = IF work.gen = gen
                THEN [gen |-> work.gen, build |-> work.build, stream |-> work.build] ELSE None
    /\ work' = Rest
    /\ UNCHANGED <<gen, listed, files, lastBuild, buildLine, mine, asking, sweeping, mishaps>>
-----------------------------------------------------------------------------
(* masks::build on thread t.                                               *)
GoMask(t, step, result) == mask' = [mask EXCEPT ![t].step = step, ![t].result = result]

CreateMasks(t) ==
    /\ mask[t].step = "creating" /\ masksPart' = t /\ GoMask(t, "writing", "none")
    /\ UNCHANGED <<gen, listed, idx, moves, masks, parts, lastBuild, index, buildLine, work, slot,
                   asking, sweeping, mishaps>>

(* Each block of games asks whether the build was stopped.                 *)
WriteMasks(t) ==
    /\ mask[t].step = "writing"
    /\ \/ mask[t].stop /\ GoMask(t, "unbuilt", "again") /\ UNCHANGED mishaps
       \/ ~mask[t].stop /\ GoMask(t, "placing", "none") /\ UNCHANGED mishaps
       \/ Mishap /\ \E r \in {"again", "failed"} : GoMask(t, "unbuilt", r)
    /\ UNCHANGED <<gen, listed, files, lastBuild, index, buildLine, work, slot, asking, sweeping>>

RemovePart(t) ==
    /\ mask[t].step = "unbuilt" /\ masksPart' = None /\ GoMask(t, "ended", mask[t].result)
    /\ UNCHANGED <<gen, listed, idx, moves, masks, parts, lastBuild, index, buildLine, work, slot,
                   asking, sweeping, mishaps>>

PlaceMasks(t) ==
    /\ mask[t].step = "placing"
    /\ IF masksPart = None THEN GoMask(t, "ended", "failed") /\ UNCHANGED <<masks, masksPart>>
       ELSE /\ masks' = mask[t].build /\ masksPart' = None /\ GoMask(t, "reading", "none")
    /\ UNCHANGED <<gen, listed, idx, moves, parts, lastBuild, index, buildLine, work, slot,
                   asking, sweeping, mishaps>>

ReadMasks(t) ==
    /\ mask[t].step = "reading"
    /\ GoMask(t, "ended", IF masks = mask[t].build THEN "built" ELSE "failed")
    /\ UNCHANGED <<gen, listed, files, lastBuild, index, buildLine, work, slot, asking, sweeping, mishaps>>

(* Masks of an index no longer wanted are left as they are; those of the   *)
(* next index are built, else these, or their failure, are kept.           *)
EndMasks(t) ==
    LET b == mask[t].build
        kept == IF mask[t].result = "built" THEN [tag |-> "Ready", build |-> b, masks |-> b]
                ELSE [tag |-> "Failed", build |-> b, again |-> mask[t].result = "again"]
    IN
    /\ mask[t].step = "ended"
    /\ \/ /\ slot = None \/ slot.build # b
          /\ mask' = [mask EXCEPT ![t] = Rest] /\ UNCHANGED <<slot, mishaps>>
       \/ /\ slot # None /\ slot.build = b /\ SlotBuilds /\ slot.next # 0
          /\ \/ \E u \in Threads \ {t} :
                  /\ mask[u] = Rest
                  /\ slot' = [tag |-> "Building", build |-> slot.next, by |-> u, next |-> 0]
                  /\ mask' = [mask EXCEPT ![t] = Rest,
                                 ![u] = [step |-> "creating", build |-> slot.next,
                                         stop |-> FALSE, result |-> "none"]]
                  /\ UNCHANGED mishaps
             \/ /\ Mishap /\ slot' = [tag |-> "Failed", build |-> slot.next, again |-> TRUE]
                /\ mask' = [mask EXCEPT ![t] = Rest]
       \/ /\ slot # None /\ slot.build = b /\ (SlotBuilds => slot.next = 0)
          /\ slot' = kept /\ mask' = [mask EXCEPT ![t] = Rest] /\ UNCHANGED mishaps
    /\ UNCHANGED <<gen, listed, files, lastBuild, index, buildLine, work, asking, sweeping>>
-----------------------------------------------------------------------------
(* Registry::sweep: a file its listing of the folder names, whatever       *)
(* became of it since; the state's lock is held from the look on.          *)
Placed(f) == CASE f = "idx" -> idx # None [] f = "moves" -> moves # None [] f = "masks" -> masks # 0
Parted(f) == IF f = "masks" THEN masksPart # None ELSE f \in parts

SweepFinds ==
    /\ sweeping = Rest
    /\ \E f \in Files, kind \in {"index", "work"} :
         /\ IF kind = "index" THEN Placed(f) ELSE Parted(f)
         /\ sweeping' = [step |-> "found", file |-> f, kind |-> kind]
    /\ UNCHANGED <<gen, listed, files, lastBuild, index, buildLine, work, mine, asking, mishaps>>

SweepLooks ==
    /\ sweeping.step = "found"
    /\ sweeping' = IF index = Working \/ SlotBuilds THEN Rest ELSE [sweeping EXCEPT !.step = "looked"]
    /\ UNCHANGED <<gen, listed, files, lastBuild, index, buildLine, work, mine, asking, mishaps>>

RemoveFile(f) ==
    /\ idx' = IF f = "idx" THEN None ELSE idx
    /\ moves' = IF f = "moves" THEN None ELSE moves
    /\ masks' = IF f = "masks" THEN 0 ELSE masks

SweepIndex ==
    /\ sweeping.step = "looked" /\ sweeping.kind = "index" /\ sweeping' = Rest
    /\ \/ UNCHANGED <<files, index, mine>>
       \/ /\ ~listed /\ ForgetMasks /\ UNCHANGED <<parts, masksPart>>
          /\ \/ RemoveFile(sweeping.file) /\ index' = None
             \/ UNCHANGED <<idx, moves, masks, index>>
    /\ UNCHANGED <<gen, listed, lastBuild, buildLine, work, asking, mishaps>>

SweepWork ==
    /\ sweeping.step = "looked" /\ sweeping.kind = "work" /\ sweeping' = Rest
    /\ IF sweeping.file = "masks" THEN masksPart' = None /\ UNCHANGED parts
       ELSE parts' = parts \ {sweeping.file} /\ UNCHANGED masksPart
    /\ UNCHANGED <<gen, listed, idx, moves, masks, lastBuild, index, buildLine, work, mine, asking, mishaps>>
-----------------------------------------------------------------------------
(* Registry::forget, after a read found the index damaged: its masks, and  *)
(* then, with the state's lock, its files when it is held; one that another*)
(* handle maps may stay.                                                   *)
FindDamaged(c) ==
    /\ asking[c].held # None /\ asking[c].answer # "damaged" /\ Mishap
    /\ ForgetMasks /\ asking' = [asking EXCEPT ![c].answer = "damaged"]
    /\ UNCHANGED <<gen, listed, files, lastBuild, index, buildLine, work, sweeping>>

ForgetIndex(c) ==
    /\ asking[c].answer = "damaged" /\ StateFree
    /\ IF index \in Loads THEN idx' \in {None, idx} /\ moves' \in {None, moves} /\ masks' \in {0, masks}
       ELSE UNCHANGED <<idx, moves, masks>>
    /\ index' = None
    /\ asking' = [asking EXCEPT ![c] = [held |-> None, answer |-> "none", masks |-> 0]]
    /\ UNCHANGED <<gen, listed, parts, masksPart, lastBuild, buildLine, work, mine, sweeping, mishaps>>

ChangeFiles ==
    /\ gen < MaxGen /\ gen' = gen + 1
    /\ UNCHANGED <<listed, files, lastBuild, index, buildLine, work, mine, asking, sweeping, mishaps>>

Relist ==
    /\ listed' = ~listed
    /\ UNCHANGED <<gen, files, lastBuild, index, buildLine, work, mine, asking, sweeping, mishaps>>

(* The process ends, at any step, and starts anew: what is left is on disk.*)
ProcessEnds ==
    /\ Mishap
    /\ index' = None /\ buildLine' = <<>> /\ work' = Rest /\ slot' = None /\ sweeping' = Rest
    /\ mask' = [t \in Threads |-> Rest]
    /\ asking' = [c \in Clients |-> [held |-> None, answer |-> "none", masks |-> 0]]
    /\ masksPart' = IF masksPart = None THEN None ELSE "left"
    /\ UNCHANGED <<gen, listed, idx, moves, masks, parts, lastBuild>>
-----------------------------------------------------------------------------
WorkStep == \/ TakeWork \/ DropWork \/ BeginWork \/ RemoveFormer \/ WriteParts \/ RenameMoves \/ RenameIndex
            \/ FailWork \/ OpenBuilt \/ LookAfterMasks \/ EndWork
MaskStep(t) == \/ CreateMasks(t) \/ WriteMasks(t) \/ RemovePart(t) \/ PlaceMasks(t)
               \/ ReadMasks(t) \/ EndMasks(t)
SweepStep == SweepFinds \/ SweepLooks \/ SweepIndex \/ SweepWork

FolderNext ==
    \/ \E c \in Clients : \/ AskHeld(c) \/ AskWorking(c) \/ AskDisk(c) \/ AskBuild(c) \/ AskMasks(c)
                          \/ Leave(c) \/ FindDamaged(c) \/ ForgetIndex(c)
    \/ WorkStep \/ SweepStep \/ ChangeFiles \/ Relist \/ ProcessEnds
    \/ \E t \in Threads : MaskStep(t)

FolderSpec == FolderInit /\ [][FolderNext]_folderVars
-----------------------------------------------------------------------------
FolderTypeOK ==
    /\ gen \in Gens /\ listed \in BOOLEAN
    /\ idx \in Heads \union {None} /\ moves \in Heads \union {None} /\ masks \in 0..MaxBuild
    /\ parts \subseteq {"idx", "moves"} /\ masksPart \in Threads \union {None, "left"}
    /\ lastBuild \in 0..MaxBuild /\ index \in Loads \union {None, Working}
    /\ buildLine \in Seq(Gens) /\ work \in Works /\ slot \in Slots /\ mask \in [Threads -> Masks]
    /\ asking \in [Clients -> [held : Loads \union {None}, answer : Answers, masks : 0..MaxBuild]]
    /\ sweeping \in {Rest} \union [step : {"found", "looked"}, file : Files, kind : {"index", "work"}]
    /\ mishaps \in 0..MaxTrouble

(* An index is answered from with the stream and the masks of its own      *)
(* build only, whatever files a crash, a file that could not be removed or *)
(* a build stopped too late left in the folder (build.rs 143, mod.rs 205). *)
FilesOfOneBuild ==
    /\ \A c \in Clients :
         /\ asking[c].held # None => asking[c].held.build = asking[c].held.stream
         /\ asking[c].answer = "ready" => asking[c].masks = asking[c].held.stream
    /\ index \in Loads => index.build = index.stream

(* Two builds of masks never write the database's file at once: the next   *)
(* one starts once the stopped one has ended (mod.rs 166-168, 324-328);    *)
(* and a slot that builds has its thread, so that what is answered         *)
(* "pending" comes.                                                        *)
OneMaskWriter ==
    \A t, u \in Threads :
        mask[t] # Rest /\ mask[u] # Rest => t = u

BuildingHasThread == SlotBuilds => mask[slot.by] # Rest /\ mask[slot.by].build = slot.build

MasksHaveOneThread == OneMaskWriter /\ BuildingHasThread

(* The sweep leaves the work of masks being built alone (mod.rs 617-618:   *)
(* "The files of a database whose index or masks are being built are never *)
(* touched").                                                              *)
SweepSparesMaskBuilds ==
    [][\A t \in Threads : masksPart = t /\ masksPart' = None => mask'[t] # mask[t]]_folderVars
=============================================================================
