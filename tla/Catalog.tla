-------------------------------- MODULE Catalog -------------------------------
(***************************************************************************)
(* The list of databases (catalog.rs, sources.rs) and the downloads of     *)
(* those kept in the cloud (catalog.rs, fetch.rs).  A request for the list *)
(* reads the sources again when their signatures changed, one refresh at a *)
(* time, and merges what they list into the entries.  A request for one    *)
(* database takes its entry from the list as last rebuilt and keeps it,    *)
(* whatever becomes of the list; what stays with a database - whether it   *)
(* is on the list, and its download - is its Held, which every entry made  *)
(* of it shares.                                                           *)
(*                                                                         *)
(* A source is what it lists, with a signature that tells each change;     *)
(* whether its files are in the cloud is one mark of a database.           *)
(***************************************************************************)
EXTENDS Naturals, Sequences, SequencesExt, FiniteSets

CONSTANTS
    Databases,
    Windows,     \* what ChessBase's window may list: the name of each database, or none
    Folders,     \* what the configured folder may hold, likewise
    Readers,     \* the requests that read one database
    MaxChanges,  \* bound: changes of a source, and of the cloud's marks
    MaxFaults,   \* bound: reads that fail, and threads that do not start
    Absent       \* no name, no entry, no Held, no signature

ASSUME CatalogBoundsAssumption == MaxChanges \in Nat /\ MaxFaults \in Nat

VARIABLES
    window,      \* the window's list, and its signature
    folder,      \* the configured folder
    keptWindow,  \* Read::window: what was read last, and at which signature
    keptFolder,  \* Read::paths
    refresh,     \* the refresh that holds Catalog::read
    entries,     \* Catalog::entries: the entry of each database
    removed,     \* Held::removed
    running,     \* Held::running
    reader,      \* each request: where it is, the Held of its entry, what it saw
    downloads,   \* the queue of downloads
    fetching,    \* the download that runs, and whether its files were read
    cloud,       \* the databases whose files are kept in the cloud
    changes, faults

catalogVars == <<window, folder, keptWindow, keptFolder, refresh, entries, removed, running,
                 reader, downloads, fetching, cloud, changes, faults>>
sourceVars == <<window, folder, changes>>
keptVars   == <<keptWindow, keptFolder>>
listVars   == <<refresh, entries, removed, keptVars>>
fetchVars  == <<running, reader, downloads, fetching, cloud>>
-----------------------------------------------------------------------------
Helds == Databases \X {1, 2}     \* the Held made first for a database, and a second
Names == {lists[d] : lists \in Windows \union Folders, d \in Databases} \ {Absent}
Listable == [name : Names, held : Helds]     \* the entries there may be

ASSUME AbsentAssumption ==
    /\ Absent \notin Databases /\ Absent \notin Nat
    /\ Absent \notin Helds /\ Absent \notin Listable

(* Each database once, the window's name before the folder's.              *)
ListedBy(w, f) == [d \in Databases |-> IF w[d] # Absent THEN w[d] ELSE f[d]]

(* Catalog::merge: an entry listed already keeps its Held, under its new   *)
(* name too; one that left the list stays, removed.                        *)
MergedHeld(d, old) == IF old = Absent THEN <<d, 1>> ELSE old.held

(* Mutant: a database renamed is a new entry with a Held of its own.       *)
MergedAnew(d, old, name) ==
    CASE name = Absent -> old
      [] name # Absent /\ old # Absent /\ old.name # name -> [name |-> name, held |-> <<d, 2>>]
      [] OTHER -> [name |-> name, held |-> MergedHeld(d, old)]

Merged(d, old, name) ==
    IF name = Absent THEN old ELSE [name |-> name, held |-> MergedHeld(d, old)]

CatalogInit ==
    /\ window \in [lists : Windows, sig : {0}] /\ folder \in [lists : Folders, sig : {0}]
    /\ keptWindow = window /\ keptFolder = folder
    /\ refresh = [step |-> "rest", seen |-> 0, changed |-> FALSE, todo |-> {}, quiet |-> FALSE]
    /\ entries = [d \in Databases |-> Merged(d, Absent, ListedBy(window.lists, folder.lists)[d])]
    /\ removed = {} /\ running = {}
    /\ reader = [r \in Readers |-> [step |-> "rest", held |-> Absent, saw |-> FALSE]]
    /\ downloads = <<>> /\ fetching = [held |-> Absent, read |-> FALSE]
    /\ cloud \in SUBSET Databases
    /\ changes = 0 /\ faults = 0

Fault == faults < MaxFaults /\ faults' = faults + 1
Change == changes < MaxChanges /\ changes' = changes + 1
-----------------------------------------------------------------------------
(* Read::update: the signature before the reading, a failed read keeping   *)
(* what was read before, and no signature.                                 *)
SignWindow ==
    /\ refresh.step = "rest"
    /\ refresh' = [step |-> "window", seen |-> window.sig, changed |-> FALSE, todo |-> {}, quiet |-> TRUE]
    /\ UNCHANGED <<sourceVars, keptVars, entries, removed, fetchVars, faults>>

(* Mutant: a read that failed counts as one of the signature seen.         *)
WindowFailsSigned == keptWindow' = [keptWindow EXCEPT !.sig = refresh.seen] /\ Fault

WindowFails == keptWindow' = [keptWindow EXCEPT !.sig = Absent] /\ Fault

ReadWindow ==
    /\ refresh.step = "window"
    /\ \/ /\ keptWindow.sig = refresh.seen /\ UNCHANGED <<keptWindow, faults>>
          /\ refresh' = [refresh EXCEPT !.step = "folder"]
       \/ /\ keptWindow.sig # refresh.seen /\ UNCHANGED faults
          /\ keptWindow' = [lists |-> window.lists, sig |-> refresh.seen]
          /\ refresh' = [refresh EXCEPT !.step = "folder", !.changed = TRUE]
       \/ /\ keptWindow.sig # refresh.seen /\ WindowFails
          /\ refresh' = [refresh EXCEPT !.step = "folder", !.quiet = FALSE]
    /\ UNCHANGED <<sourceVars, keptFolder, entries, removed, fetchVars>>

AfterSources(changed) == IF changed THEN "merging" ELSE "rest"

(* A folder's signature is of the walk that lists it.  A large folder is   *)
(* not walked again for a while.                                           *)
WalkFolder ==
    /\ refresh.step = "folder"
    /\ LET changed == refresh.changed \/ keptFolder.sig # folder.sig
           Ends(c, quiet) == refresh' = [refresh EXCEPT !.step = AfterSources(c), !.changed = FALSE,
                                            !.seen = 0, !.todo = IF c THEN Databases ELSE {},
                                            !.quiet = quiet /\ @]
       IN \/ keptFolder' = folder /\ Ends(changed, TRUE) /\ UNCHANGED faults
          \/ keptFolder' = [keptFolder EXCEPT !.sig = Absent] /\ Fault /\ Ends(refresh.changed, FALSE)
          \/ UNCHANGED <<keptFolder, faults>> /\ Ends(refresh.changed, FALSE)
    /\ UNCHANGED <<sourceVars, keptWindow, entries, removed, fetchVars>>

Listed == ListedBy(keptWindow.lists, keptFolder.lists)

(* The entries are marked one by one, before the new list is published.    *)
Mark(d) ==
    /\ refresh.step = "merging" /\ d \in refresh.todo
    /\ refresh' = [refresh EXCEPT !.todo = @ \ {d}]
    /\ LET h == MergedHeld(d, entries[d]) IN
       removed' = IF Listed[d] # Absent THEN removed \ {h}
                  ELSE IF entries[d] # Absent THEN removed \union {h} ELSE removed
    /\ UNCHANGED <<sourceVars, keptVars, entries, fetchVars, faults>>

Publish ==
    /\ refresh.step = "merging" /\ refresh.todo = {}
    /\ entries' = [d \in Databases |-> Merged(d, entries[d], Listed[d])]
    /\ refresh' = [refresh EXCEPT !.step = "rest"]
    /\ UNCHANGED <<sourceVars, keptVars, removed, fetchVars, faults>>
-----------------------------------------------------------------------------
(* Catalog::get, Entry::open_to_read: the files are looked at, and what    *)
(* the look saw decides once no download runs.                             *)
Moves(r, step) == reader' = [reader EXCEPT ![r].step = step]
Leaves(r) == reader' = [reader EXCEPT ![r] = [step |-> "rest", held |-> Absent, saw |-> FALSE]]

Get(r) ==
    /\ reader[r].step = "rest"
    /\ \E d \in Databases : entries[d] # Absent /\
         reader' = [reader EXCEPT ![r] = [step |-> "look", held |-> entries[d].held, saw |-> FALSE]]
    /\ UNCHANGED <<sourceVars, listVars, running, downloads, fetching, cloud, faults>>

LookAtFiles(r) ==
    LET h == reader[r].held IN
    /\ reader[r].step = "look"
    /\ IF h \in removed THEN Leaves(r)
       ELSE reader' = [reader EXCEPT ![r] = [step |-> "open", held |-> h, saw |-> h[1] \in cloud]]
    /\ UNCHANGED <<sourceVars, listVars, running, downloads, fetching, cloud, faults>>

OpenFiles(r) ==
    /\ reader[r].step = "open"
    /\ IF reader[r].held \in running \/ ~reader[r].saw THEN Leaves(r) ELSE Moves(r, "download")
    /\ UNCHANGED <<sourceVars, listVars, running, downloads, fetching, cloud, faults>>

(* Entry::download: one for the database, taken up under Held's lock and   *)
(* then queued; one whose thread cannot start is dropped, and Done with it.*)
TakeUp(r) ==
    LET h == reader[r].held IN
    /\ reader[r].step = "download"
    /\ IF h \in running THEN Leaves(r) /\ UNCHANGED running
       ELSE running' = running \union {h} /\ Moves(r, "submit")
    /\ UNCHANGED <<sourceVars, listVars, downloads, fetching, cloud, faults>>

Submitted(r) ==
    /\ reader[r].step = "submit" /\ downloads' = Append(downloads, reader[r].held) /\ Leaves(r)
    /\ UNCHANGED <<sourceVars, listVars, running, fetching, cloud, faults>>

Refused(r) ==
    /\ reader[r].step = "submit" /\ downloads = <<>> /\ fetching.held = Absent /\ Fault
    /\ running' = running \ {reader[r].held} /\ Leaves(r)
    /\ UNCHANGED <<sourceVars, listVars, downloads, fetching, cloud>>

Fetch ==
    /\ fetching.held = Absent /\ downloads # <<>>
    /\ fetching' = [held |-> Head(downloads), read |-> FALSE] /\ downloads' = Tail(downloads)
    /\ UNCHANGED <<sourceVars, listVars, running, reader, cloud, faults>>

(* The files read, the provider marks them local, or keeps its marks.      *)
FetchEnds ==
    /\ fetching.held # Absent /\ ~fetching.read /\ fetching' = [fetching EXCEPT !.read = TRUE]
    /\ cloud' \in {cloud, cloud \ {fetching.held[1]}}
    /\ UNCHANGED <<sourceVars, listVars, running, reader, downloads, faults>>

DownloadDone ==
    /\ fetching.read /\ fetching' = [held |-> Absent, read |-> FALSE]
    /\ running' = running \ {fetching.held}
    /\ UNCHANGED <<sourceVars, listVars, reader, downloads, cloud, faults>>
-----------------------------------------------------------------------------
(* Other programs change the sources, and the provider the marks.          *)
ChangeSource ==
    /\ Change /\ refresh' = [refresh EXCEPT !.quiet = FALSE]
    /\ \/ /\ \E w \in Windows \ {window.lists} : window' = [lists |-> w, sig |-> window.sig + 1]
          /\ UNCHANGED folder
       \/ /\ \E f \in Folders \ {folder.lists} : folder' = [lists |-> f, sig |-> folder.sig + 1]
          /\ UNCHANGED window
    /\ UNCHANGED <<keptVars, entries, removed, fetchVars, faults>>

ChangeMark(d) ==
    /\ Change /\ cloud' = IF d \in cloud THEN cloud \ {d} ELSE cloud \union {d}
    /\ UNCHANGED <<window, folder, listVars, running, reader, downloads, fetching, faults>>
-----------------------------------------------------------------------------
CatalogNext ==
    \/ SignWindow \/ ReadWindow \/ WalkFolder \/ Publish \/ ChangeSource
    \/ \E d \in Databases : Mark(d) \/ ChangeMark(d)
    \/ \E r \in Readers : Get(r) \/ LookAtFiles(r) \/ OpenFiles(r) \/ TakeUp(r)
                          \/ Submitted(r) \/ Refused(r)
    \/ Fetch \/ FetchEnds \/ DownloadDone

CatalogSpec == CatalogInit /\ [][CatalogNext]_catalogVars
-----------------------------------------------------------------------------
CatalogTypeOK ==
    /\ window \in [lists : Windows, sig : Nat] /\ folder \in [lists : Folders, sig : Nat]
    /\ keptWindow \in [lists : Windows, sig : Nat \union {Absent}]
    /\ keptFolder \in [lists : Folders, sig : Nat \union {Absent}]
    /\ refresh \in [step : {"rest", "window", "folder", "merging"}, seen : Nat, changed : BOOLEAN,
                    todo : SUBSET Databases, quiet : BOOLEAN]
    /\ entries \in [Databases -> Listable \union {Absent}]
    /\ removed \subseteq Helds /\ running \subseteq Helds
    /\ reader \in [Readers -> [step : {"rest", "look", "open", "download", "submit"},
                               held : Helds \union {Absent}, saw : BOOLEAN]]
    /\ downloads \in Seq(Helds) /\ fetching \in [held : Helds \union {Absent}, read : BOOLEAN]
    /\ cloud \subseteq Databases /\ changes \in 0..MaxChanges /\ faults \in 0..MaxFaults

(* A refresh during which no source changed or failed shows what the       *)
(* sources list, each database once and under its name, however earlier    *)
(* refreshes failed or read a source as it changed (sources.rs 354-363).   *)
ListShowsSources ==
    [][refresh.step # "rest" /\ refresh'.step = "rest" /\ refresh'.quiet =>
         \A d \in Databases :
            LET name == ListedBy(window.lists, folder.lists)[d] IN
            IF name = Absent THEN entries'[d] = Absent \/ entries'[d].held \in removed'
            ELSE /\ entries'[d] # Absent /\ entries'[d].name = name
                 /\ entries'[d].held \notin removed']_catalogVars

(* A database is said to be downloading while just one download of it is   *)
(* taken up, waits or runs, whichever entry of it, listed or renamed or    *)
(* removed, a request started it through (catalog.rs 146-163, 387-391).             *)
DownloadsOf(h) ==
    (IF fetching.held = h THEN 1 ELSE 0) + Cardinality({i \in DOMAIN downloads : downloads[i] = h})
        + Cardinality({r \in Readers : reader[r].step = "submit" /\ reader[r].held = h})

OneDownload ==
    /\ \A h \in Helds : DownloadsOf(h) = IF h \in running THEN 1 ELSE 0
    /\ \A h, k \in running : h[1] = k[1] => h = k
=============================================================================
