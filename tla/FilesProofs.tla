------------------------------ MODULE FilesProofs ------------------------------
(***************************************************************************)
(* What holds of Catalog for all databases, lists, readers and bounds: its *)
(* types, that a database is downloaded once at a time, and that a refresh *)
(* undisturbed shows what the sources list; and of IndexFolder for all     *)
(* clients, threads and bounds: its types, that masks are written by one   *)
(* thread and that a slot which builds has it, and that an answer's files  *)
(* are of one build.                                                       *)
(***************************************************************************)
EXTENDS Catalog, IndexFolder, FiniteSetTheorems, SequenceTheorems, TLAPS
-----------------------------------------------------------------------------
(* Catalog.  The types, part by part.                                      *)
Refreshes == [step : {"rest", "window", "folder", "merging"}, seen : Nat, changed : BOOLEAN,
              todo : SUBSET Databases, quiet : BOOLEAN]
Reads == [step : {"rest", "look", "open", "download", "submit"},
          held : Helds \union {Absent}, saw : BOOLEAN]
Fetches == [held : Helds \union {Absent}, read : BOOLEAN]
Keeps(lists) == [lists : lists, sig : Nat \union {Absent}]

SourcesTypeOK ==
    /\ window \in [lists : Windows, sig : Nat] /\ folder \in [lists : Folders, sig : Nat]
    /\ changes \in 0..MaxChanges /\ faults \in 0..MaxFaults
KeptTypeOK == keptWindow \in Keeps(Windows) /\ keptFolder \in Keeps(Folders)
RefreshTypeOK == refresh \in Refreshes
EntriesTypeOK == entries \in [Databases -> Listable \union {Absent}] /\ removed \subseteq Helds
ReadersTypeOK == reader \in [Readers -> Reads]
DownloadsTypeOK ==
    /\ running \subseteq Helds /\ downloads \in Seq(Helds) /\ fetching \in Fetches
    /\ cloud \subseteq Databases

(* Every entry of a database shares the Held made first for it, and so     *)
(* does every request.                                                     *)
Firsts == {<<d, 1>> : d \in Databases}
EntriesOfFirsts == \A d \in Databases : entries[d] # Absent => entries[d].held = <<d, 1>>
ReadersOfFirsts ==
    /\ \A r \in Readers : reader[r].step # "rest" => reader[r].held \in Firsts
    /\ running \subseteq Firsts

(* A download taken up is in one place: with its request, which queues it, *)
(* in the queue, or running; and what is in one of them was taken up.      *)
Submits(r) == reader[r].step = "submit"
RunningSomewhere ==
    \A h \in running :
        \/ fetching.held = h \/ \E i \in 1..Len(downloads) : downloads[i] = h
        \/ \E r \in Readers : Submits(r) /\ reader[r].held = h
PlacesRunning ==
    /\ fetching.held \in running \union {Absent} /\ (fetching.read => fetching.held # Absent)
    /\ \A i \in 1..Len(downloads) : downloads[i] \in running
    /\ \A r \in Readers : Submits(r) => reader[r].held \in running
PlacesApart ==
    /\ \A i, k \in 1..Len(downloads) : downloads[i] = downloads[k] => i = k
    /\ \A i \in 1..Len(downloads) : downloads[i] # fetching.held
    /\ \A r \in Readers : Submits(r) =>
         reader[r].held # fetching.held /\ \A i \in 1..Len(downloads) : downloads[i] # reader[r].held
    /\ \A r, s \in Readers : Submits(r) /\ Submits(s) /\ reader[r].held = reader[s].held => r = s
DownloadsInv == RunningSomewhere /\ PlacesRunning /\ PlacesApart

(* What was kept at a signature is what the source lists at it; a refresh  *)
(* undisturbed has what the sources list once it has read them.            *)
KeptOf(kept, source) ==
    kept.sig # Absent => kept.sig <= source.sig /\ (kept.sig = source.sig => kept.lists = source.lists)
KeptRight == KeptOf(keptWindow, window) /\ KeptOf(keptFolder, folder)
SeenRight ==
    /\ refresh.step \in {"rest", "window", "merging"} => ~refresh.changed
    /\ refresh.step = "window" =>
         refresh.seen <= window.sig /\ (refresh.quiet => refresh.seen = window.sig)
QuietRight ==
    /\ refresh.step \in {"folder", "merging"} /\ refresh.quiet => keptWindow.lists = window.lists
    /\ refresh.step = "merging" /\ refresh.quiet => keptFolder.lists = folder.lists

(* The entries show what is kept, but for what a refresh has read and not  *)
(* merged; and the marks of those it has gone through are set.             *)
Shown(d) ==
    IF Listed[d] = Absent THEN entries[d] = Absent \/ entries[d].held \in removed
    ELSE entries[d] # Absent /\ entries[d].name = Listed[d] /\ entries[d].held \notin removed
Marked(d) ==
    IF Listed[d] = Absent THEN entries[d] # Absent => <<d, 1>> \in removed ELSE <<d, 1>> \notin removed
EntriesRight ==
    /\ refresh.step # "merging" /\ ~refresh.changed => \A d \in Databases : Shown(d)
    /\ refresh.step = "merging" => \A d \in Databases \ refresh.todo : Marked(d)

CatalogInv ==
    /\ SourcesTypeOK /\ KeptTypeOK /\ RefreshTypeOK /\ EntriesTypeOK /\ ReadersTypeOK /\ DownloadsTypeOK
    /\ EntriesOfFirsts /\ ReadersOfFirsts /\ DownloadsInv
    /\ KeptRight /\ SeenRight /\ QuietRight /\ EntriesRight
-----------------------------------------------------------------------------
(* What helds and entries are; nothing is neither.                         *)
LEMMA HeldsAre ==
    /\ Firsts \subseteq Helds /\ Absent \notin Helds /\ Absent \notin Firsts /\ Absent \notin Listable
    /\ \A d \in Databases : <<d, 1>> \in Firsts
    /\ \A d, e \in Databases : <<d, 1>> = <<e, 1>> => d = e
    /\ \A h, k \in Firsts : h[1] = k[1] => h = k
    /\ \A h \in Helds : h[1] \in Databases
BY AbsentAssumption DEF Firsts, Helds

LEMMA ListedByIs ==
    ASSUME NEW w \in Windows, NEW f \in Folders, NEW d \in Databases
    PROVE  ListedBy(w, f)[d] \in Names \union {Absent}
BY DEF ListedBy, Names

(* An entry merged keeps its Held.                                         *)
LEMMA MergedIs ==
    ASSUME NEW d \in Databases, NEW old \in Listable \union {Absent}, NEW name \in Names \union {Absent},
           old # Absent => old.held = <<d, 1>>
    PROVE  /\ MergedHeld(d, old) = <<d, 1>>
           /\ Merged(d, old, name) \in Listable \union {Absent}
           /\ name = Absent => Merged(d, old, name) = old
           /\ name # Absent => /\ Merged(d, old, name) # Absent
                               /\ Merged(d, old, name).name = name
                               /\ Merged(d, old, name).held = <<d, 1>>
<1>1. MergedHeld(d, old) = <<d, 1>> /\ <<d, 1>> \in Helds
  BY HeldsAre DEF MergedHeld
<1>2. CASE name = Absent
  BY <1>1, <1>2 DEF Merged
<1>3. CASE name # Absent
  <2>1. Merged(d, old, name) = [name |-> name, held |-> <<d, 1>>]
    BY <1>1, <1>3 DEF Merged
  <2>2. [name |-> name, held |-> <<d, 1>>] \in Listable
    BY <1>1, <1>3 DEF Listable
  <2> QED
    BY <1>1, <1>3, <2>1, <2>2, HeldsAre
<1> QED
  BY <1>2, <1>3

(* A request that moves on, and one that leaves.                           *)
LEMMA LeavesIs ==
    ASSUME NEW r \in Readers, Leaves(r), ReadersTypeOK
    PROVE  /\ ReadersTypeOK' /\ reader'[r].step = "rest"
           /\ \A s \in Readers \ {r} : reader'[s] = reader[s]
BY DEF Leaves, ReadersTypeOK, Reads

LEMMA MovesIs ==
    ASSUME NEW r \in Readers, NEW step \in {"open", "download", "submit"}, Moves(r, step), ReadersTypeOK
    PROVE  /\ ReadersTypeOK' /\ reader'[r].step = step /\ reader'[r].held = reader[r].held
           /\ \A s \in Readers \ {r} : reader'[s] = reader[s]
BY DEF Moves, ReadersTypeOK, Reads

LEMMA LooksIs ==
    ASSUME NEW r \in Readers, ReadersTypeOK,
           reader' = [reader EXCEPT ![r] = [step |-> "open", held |-> reader[r].held,
                                            saw |-> reader[r].held[1] \in cloud]]
    PROVE  /\ ReadersTypeOK' /\ reader'[r].step = "open" /\ reader'[r].held = reader[r].held
           /\ \A s \in Readers \ {r} : reader'[s] = reader[s]
<1> DEFINE saw == reader[r].held[1] \in cloud
           new == [step |-> "open", held |-> reader[r].held, saw |-> saw]
<1>1. new \in Reads /\ new.step = "open" /\ new.held = reader[r].held
  <2>1. saw \in BOOLEAN /\ reader[r].held \in Helds \union {Absent}
    BY DEF ReadersTypeOK, Reads
  <2> HIDE DEF saw
  <2> QED
    BY <2>1 DEF Reads
<1>2. reader' = [reader EXCEPT ![r] = new]
  OBVIOUS
<1> HIDE DEF new
<1> QED
  BY <1>1, <1>2 DEF ReadersTypeOK

LEMMA GetIs ==
    ASSUME NEW r \in Readers, NEW h \in Helds, ReadersTypeOK,
           reader' = [reader EXCEPT ![r] = [step |-> "look", held |-> h, saw |-> FALSE]]
    PROVE  /\ ReadersTypeOK' /\ reader'[r].step = "look" /\ reader'[r].held = h
           /\ \A s \in Readers \ {r} : reader'[s] = reader[s]
BY DEF ReadersTypeOK, Reads

(* A refresh that has read its sources merges what they list when either   *)
(* changed, and is over otherwise.                                         *)
LEMMA EndsIs ==
    ASSUME NEW c \in BOOLEAN, NEW quiet \in BOOLEAN, RefreshTypeOK,
           refresh' = [refresh EXCEPT !.step = AfterSources(c), !.changed = FALSE, !.seen = 0,
                                      !.todo = IF c THEN Databases ELSE {}, !.quiet = quiet /\ @]
    PROVE  /\ RefreshTypeOK' /\ refresh'.step = IF c THEN "merging" ELSE "rest"
           /\ ~refresh'.changed /\ refresh'.todo = IF c THEN Databases ELSE {}
           /\ refresh'.quiet => quiet /\ refresh.quiet
<1>1. AfterSources(c) = IF c THEN "merging" ELSE "rest"
  BY DEF AfterSources
<1>2. RefreshTypeOK'
  BY <1>1 DEF RefreshTypeOK, Refreshes
<1>3. /\ refresh'.step = AfterSources(c) /\ ~refresh'.changed
      /\ refresh'.todo = IF c THEN Databases ELSE {}
  BY DEF RefreshTypeOK, Refreshes
<1>4. refresh'.quiet => quiet /\ refresh.quiet
  BY DEF RefreshTypeOK, Refreshes
<1> QED
  BY <1>1, <1>2, <1>3, <1>4

LEMMA WalkIs ==
    ASSUME WalkFolder, CatalogInv
    PROVE  /\ RefreshTypeOK' /\ refresh.step = "folder" /\ ~refresh'.changed
           /\ refresh'.quiet => refresh.quiet /\ keptFolder' = folder
           /\ UNCHANGED <<sourceVars, keptWindow, entries, removed, fetchVars>>
           /\ \/ keptFolder' = folder
              \/ keptFolder' = keptFolder
              \/ keptFolder' = [keptFolder EXCEPT !.sig = Absent]
           /\ \/ refresh'.step = "merging" /\ refresh'.todo = Databases
              \/ /\ refresh'.step = "rest" /\ ~refresh.changed
                 /\ keptFolder' = folder => keptFolder.sig = folder.sig
<1> DEFINE changed == refresh.changed \/ keptFolder.sig # folder.sig
           Ends(c, quiet) ==
              refresh' = [refresh EXCEPT !.step = AfterSources(c), !.changed = FALSE, !.seen = 0,
                                         !.todo = IF c THEN Databases ELSE {}, !.quiet = quiet /\ @]
<1>1. /\ refresh.step = "folder" /\ UNCHANGED <<sourceVars, keptWindow, entries, removed, fetchVars>>
      /\ \/ keptFolder' = folder /\ Ends(changed, TRUE)
         \/ keptFolder' = [keptFolder EXCEPT !.sig = Absent] /\ Ends(refresh.changed, FALSE)
         \/ keptFolder' = keptFolder /\ Ends(refresh.changed, FALSE)
  BY DEF WalkFolder
<1>2. changed \in BOOLEAN /\ refresh.changed \in BOOLEAN
  BY DEF CatalogInv, RefreshTypeOK, Refreshes
<1>3. CASE keptFolder' = folder /\ Ends(changed, TRUE)
  <2>1. CASE changed
    <3>1. Ends(TRUE, TRUE)
      BY <1>3, <2>1
    <3> QED
      BY <1>1, <1>3, <3>1, EndsIs DEF CatalogInv
  <2>2. CASE ~changed
    <3>1. Ends(FALSE, TRUE)
      BY <1>3, <2>2
    <3> QED
      BY <1>1, <1>3, <2>2, <3>1, EndsIs DEF CatalogInv
  <2> QED
    BY <2>1, <2>2
<1>4. CASE /\ keptFolder' \in {keptFolder, [keptFolder EXCEPT !.sig = Absent]}
           /\ Ends(refresh.changed, FALSE)
  <2>1. keptFolder' = folder => keptFolder.sig = folder.sig
    BY <1>4, AbsentAssumption DEF CatalogInv, KeptTypeOK, Keeps, SourcesTypeOK
  <2>2. CASE refresh.changed
    <3>1. Ends(TRUE, FALSE)
      BY <1>4, <2>2
    <3> QED
      BY <1>1, <1>4, <3>1, EndsIs DEF CatalogInv
  <2>3. CASE ~refresh.changed
    <3>2. refresh.changed = FALSE
      BY <1>2, <2>3
    <3>1. Ends(FALSE, FALSE)
      BY <1>4, <3>2
    <3> QED
      BY <1>1, <1>4, <2>1, <2>3, <3>1, EndsIs DEF CatalogInv
  <2> QED
    BY <2>2, <2>3
<1> QED
  BY <1>1, <1>3, <1>4
-----------------------------------------------------------------------------

(* Every step keeps the types of the sources and of the bounds.            *)
LEMMA SourcesStep ==
    ASSUME SourcesTypeOK, CatalogNext \/ UNCHANGED catalogVars
    PROVE  SourcesTypeOK'
<1>1. CASE SignWindow
  BY <1>1, CatalogBoundsAssumption
  DEF SignWindow, SourcesTypeOK, sourceVars, keptVars, listVars, fetchVars
<1>2. CASE ReadWindow
  BY <1>2, CatalogBoundsAssumption
  DEF ReadWindow, WindowFails, Fault, SourcesTypeOK, sourceVars, keptVars,
      listVars, fetchVars
<1>3. CASE WalkFolder
  BY <1>3, CatalogBoundsAssumption
  DEF WalkFolder, AfterSources, Fault, SourcesTypeOK, sourceVars, keptVars,
      listVars, fetchVars
<1>4. CASE Publish
  BY <1>4, CatalogBoundsAssumption
  DEF Publish, SourcesTypeOK, sourceVars, keptVars, listVars, fetchVars
<1>5. CASE ChangeSource
  BY <1>5, CatalogBoundsAssumption
  DEF ChangeSource, Change, SourcesTypeOK, sourceVars, keptVars, listVars,
      fetchVars
<1>6. ASSUME NEW d \in Databases, Mark(d) PROVE SourcesTypeOK'
  BY <1>6, CatalogBoundsAssumption
  DEF Mark, SourcesTypeOK, sourceVars, keptVars, listVars, fetchVars
<1>7. ASSUME NEW d \in Databases, ChangeMark(d) PROVE SourcesTypeOK'
  BY <1>7, CatalogBoundsAssumption
  DEF ChangeMark, Change, SourcesTypeOK, sourceVars, keptVars, listVars,
      fetchVars
<1>8. ASSUME NEW r \in Readers, Get(r) PROVE SourcesTypeOK'
  BY <1>8, CatalogBoundsAssumption
  DEF Get, SourcesTypeOK, sourceVars, keptVars, listVars, fetchVars
<1>9. ASSUME NEW r \in Readers, LookAtFiles(r) PROVE SourcesTypeOK'
  BY <1>9, CatalogBoundsAssumption
  DEF LookAtFiles, Leaves, SourcesTypeOK, sourceVars, keptVars, listVars,
      fetchVars
<1>10. ASSUME NEW r \in Readers, OpenFiles(r) PROVE SourcesTypeOK'
  BY <1>10, CatalogBoundsAssumption
  DEF OpenFiles, Leaves, Moves, SourcesTypeOK, sourceVars, keptVars, listVars,
      fetchVars
<1>11. ASSUME NEW r \in Readers, TakeUp(r) PROVE SourcesTypeOK'
  BY <1>11, CatalogBoundsAssumption
  DEF TakeUp, Leaves, Moves, SourcesTypeOK, sourceVars, keptVars, listVars,
      fetchVars
<1>12. ASSUME NEW r \in Readers, Submitted(r) PROVE SourcesTypeOK'
  BY <1>12, CatalogBoundsAssumption
  DEF Submitted, Leaves, SourcesTypeOK, sourceVars, keptVars, listVars,
      fetchVars
<1>13. ASSUME NEW r \in Readers, Refused(r) PROVE SourcesTypeOK'
  BY <1>13, CatalogBoundsAssumption
  DEF Refused, Fault, Leaves, SourcesTypeOK, sourceVars, keptVars, listVars,
      fetchVars
<1>14. CASE Fetch
  BY <1>14, CatalogBoundsAssumption
  DEF Fetch, SourcesTypeOK, sourceVars, keptVars, listVars, fetchVars
<1>15. CASE FetchEnds
  BY <1>15, CatalogBoundsAssumption
  DEF FetchEnds, SourcesTypeOK, sourceVars, keptVars, listVars, fetchVars
<1>16. CASE DownloadDone
  BY <1>16, CatalogBoundsAssumption
  DEF DownloadDone, SourcesTypeOK, sourceVars, keptVars, listVars, fetchVars
<1>17. CASE UNCHANGED catalogVars
  BY <1>17, CatalogBoundsAssumption
  DEF catalogVars, SourcesTypeOK, sourceVars, keptVars, listVars, fetchVars
<1> QED
  BY <1>1, <1>2, <1>3, <1>4, <1>5, <1>6, <1>7, <1>8, <1>9, <1>10, <1>11, <1>12,
     <1>13, <1>14, <1>15, <1>16, <1>17
  DEF CatalogNext

(* Every step keeps the types of what was read of the sources.             *)
LEMMA KeptStep ==
    ASSUME CatalogInv, CatalogNext \/ UNCHANGED catalogVars
    PROVE  KeptTypeOK'
<1>1. CASE SignWindow
  BY <1>1
  DEF SignWindow, CatalogInv, KeptTypeOK, sourceVars, keptVars, listVars,
      fetchVars
<1>2. CASE ReadWindow
  BY <1>2
  DEF ReadWindow, WindowFails, Fault, CatalogInv, KeptTypeOK, sourceVars,
      keptVars, listVars, fetchVars, Keeps, SourcesTypeOK, RefreshTypeOK,
      Refreshes
<1>3. CASE WalkFolder
  BY <1>3
  DEF WalkFolder, AfterSources, Fault, CatalogInv, KeptTypeOK, sourceVars,
      keptVars, listVars, fetchVars, Keeps, SourcesTypeOK, RefreshTypeOK,
      Refreshes
<1>4. CASE Publish
  BY <1>4
  DEF Publish, CatalogInv, KeptTypeOK, sourceVars, keptVars, listVars,
      fetchVars
<1>5. CASE ChangeSource
  BY <1>5
  DEF ChangeSource, Change, CatalogInv, KeptTypeOK, sourceVars, keptVars,
      listVars, fetchVars
<1>6. ASSUME NEW d \in Databases, Mark(d) PROVE KeptTypeOK'
  BY <1>6
  DEF Mark, CatalogInv, KeptTypeOK, sourceVars, keptVars, listVars, fetchVars
<1>7. ASSUME NEW d \in Databases, ChangeMark(d) PROVE KeptTypeOK'
  BY <1>7
  DEF ChangeMark, Change, CatalogInv, KeptTypeOK, sourceVars, keptVars,
      listVars, fetchVars
<1>8. ASSUME NEW r \in Readers, Get(r) PROVE KeptTypeOK'
  BY <1>8
  DEF Get, CatalogInv, KeptTypeOK, sourceVars, keptVars, listVars, fetchVars
<1>9. ASSUME NEW r \in Readers, LookAtFiles(r) PROVE KeptTypeOK'
  BY <1>9
  DEF LookAtFiles, Leaves, CatalogInv, KeptTypeOK, sourceVars, keptVars,
      listVars, fetchVars
<1>10. ASSUME NEW r \in Readers, OpenFiles(r) PROVE KeptTypeOK'
  BY <1>10
  DEF OpenFiles, Leaves, Moves, CatalogInv, KeptTypeOK, sourceVars, keptVars,
      listVars, fetchVars
<1>11. ASSUME NEW r \in Readers, TakeUp(r) PROVE KeptTypeOK'
  BY <1>11
  DEF TakeUp, Leaves, Moves, CatalogInv, KeptTypeOK, sourceVars, keptVars,
      listVars, fetchVars
<1>12. ASSUME NEW r \in Readers, Submitted(r) PROVE KeptTypeOK'
  BY <1>12
  DEF Submitted, Leaves, CatalogInv, KeptTypeOK, sourceVars, keptVars,
      listVars, fetchVars
<1>13. ASSUME NEW r \in Readers, Refused(r) PROVE KeptTypeOK'
  BY <1>13
  DEF Refused, Fault, Leaves, CatalogInv, KeptTypeOK, sourceVars, keptVars,
      listVars, fetchVars
<1>14. CASE Fetch
  BY <1>14
  DEF Fetch, CatalogInv, KeptTypeOK, sourceVars, keptVars, listVars, fetchVars
<1>15. CASE FetchEnds
  BY <1>15
  DEF FetchEnds, CatalogInv, KeptTypeOK, sourceVars, keptVars, listVars,
      fetchVars
<1>16. CASE DownloadDone
  BY <1>16
  DEF DownloadDone, CatalogInv, KeptTypeOK, sourceVars, keptVars, listVars,
      fetchVars
<1>17. CASE UNCHANGED catalogVars
  BY <1>17
  DEF catalogVars, CatalogInv, KeptTypeOK, sourceVars, keptVars, listVars,
      fetchVars
<1> QED
  BY <1>1, <1>2, <1>3, <1>4, <1>5, <1>6, <1>7, <1>8, <1>9, <1>10, <1>11, <1>12,
     <1>13, <1>14, <1>15, <1>16, <1>17
  DEF CatalogNext

(* Every step keeps the type of the refresh.                               *)
LEMMA RefreshStep ==
    ASSUME CatalogInv, CatalogNext \/ UNCHANGED catalogVars
    PROVE  RefreshTypeOK'
<1>1. CASE SignWindow
  BY <1>1
  DEF SignWindow, CatalogInv, RefreshTypeOK, sourceVars, keptVars, listVars,
      fetchVars, Refreshes, SourcesTypeOK
<1>2. CASE ReadWindow
  BY <1>2
  DEF ReadWindow, WindowFails, Fault, CatalogInv, RefreshTypeOK, sourceVars,
      keptVars, listVars, fetchVars, Refreshes, SourcesTypeOK
<1>3. CASE WalkFolder
  BY <1>3, WalkIs DEF CatalogInv
<1>4. CASE Publish
  BY <1>4
  DEF Publish, CatalogInv, RefreshTypeOK, sourceVars, keptVars, listVars,
      fetchVars, Refreshes, SourcesTypeOK
<1>5. CASE ChangeSource
  BY <1>5
  DEF ChangeSource, Change, CatalogInv, RefreshTypeOK, sourceVars, keptVars,
      listVars, fetchVars, Refreshes, SourcesTypeOK
<1>6. ASSUME NEW d \in Databases, Mark(d) PROVE RefreshTypeOK'
  BY <1>6
  DEF Mark, CatalogInv, RefreshTypeOK, sourceVars, keptVars, listVars,
      fetchVars, Refreshes, SourcesTypeOK
<1>7. ASSUME NEW d \in Databases, ChangeMark(d) PROVE RefreshTypeOK'
  BY <1>7
  DEF ChangeMark, Change, CatalogInv, RefreshTypeOK, sourceVars, keptVars,
      listVars, fetchVars
<1>8. ASSUME NEW r \in Readers, Get(r) PROVE RefreshTypeOK'
  BY <1>8
  DEF Get, CatalogInv, RefreshTypeOK, sourceVars, keptVars, listVars, fetchVars
<1>9. ASSUME NEW r \in Readers, LookAtFiles(r) PROVE RefreshTypeOK'
  BY <1>9
  DEF LookAtFiles, Leaves, CatalogInv, RefreshTypeOK, sourceVars, keptVars,
      listVars, fetchVars
<1>10. ASSUME NEW r \in Readers, OpenFiles(r) PROVE RefreshTypeOK'
  BY <1>10
  DEF OpenFiles, Leaves, Moves, CatalogInv, RefreshTypeOK, sourceVars,
      keptVars, listVars, fetchVars
<1>11. ASSUME NEW r \in Readers, TakeUp(r) PROVE RefreshTypeOK'
  BY <1>11
  DEF TakeUp, Leaves, Moves, CatalogInv, RefreshTypeOK, sourceVars, keptVars,
      listVars, fetchVars
<1>12. ASSUME NEW r \in Readers, Submitted(r) PROVE RefreshTypeOK'
  BY <1>12
  DEF Submitted, Leaves, CatalogInv, RefreshTypeOK, sourceVars, keptVars,
      listVars, fetchVars
<1>13. ASSUME NEW r \in Readers, Refused(r) PROVE RefreshTypeOK'
  BY <1>13
  DEF Refused, Fault, Leaves, CatalogInv, RefreshTypeOK, sourceVars, keptVars,
      listVars, fetchVars
<1>14. CASE Fetch
  BY <1>14
  DEF Fetch, CatalogInv, RefreshTypeOK, sourceVars, keptVars, listVars,
      fetchVars
<1>15. CASE FetchEnds
  BY <1>15
  DEF FetchEnds, CatalogInv, RefreshTypeOK, sourceVars, keptVars, listVars,
      fetchVars
<1>16. CASE DownloadDone
  BY <1>16
  DEF DownloadDone, CatalogInv, RefreshTypeOK, sourceVars, keptVars, listVars,
      fetchVars
<1>17. CASE UNCHANGED catalogVars
  BY <1>17
  DEF catalogVars, CatalogInv, RefreshTypeOK, sourceVars, keptVars, listVars,
      fetchVars
<1> QED
  BY <1>1, <1>2, <1>3, <1>4, <1>5, <1>6, <1>7, <1>8, <1>9, <1>10, <1>11, <1>12,
     <1>13, <1>14, <1>15, <1>16, <1>17
  DEF CatalogNext

(* Every step keeps the types of the entries, each with its first Held.    *)
LEMMA EntriesStep ==
    ASSUME CatalogInv, CatalogNext \/ UNCHANGED catalogVars
    PROVE  EntriesTypeOK' /\ EntriesOfFirsts'
<1>1. CASE SignWindow
  BY <1>1
  DEF SignWindow, CatalogInv, EntriesTypeOK, EntriesOfFirsts, sourceVars,
      keptVars, listVars, fetchVars
<1>2. CASE ReadWindow
  BY <1>2
  DEF ReadWindow, WindowFails, Fault, CatalogInv, EntriesTypeOK,
      EntriesOfFirsts, sourceVars, keptVars, listVars, fetchVars
<1>3. CASE WalkFolder
  BY <1>3
  DEF WalkFolder, AfterSources, Fault, CatalogInv, EntriesTypeOK,
      EntriesOfFirsts, sourceVars, keptVars, listVars, fetchVars
<1>4. CASE Publish
  <2>1. \A d \in Databases : Listed[d] \in Names \union {Absent}
    BY ListedByIs DEF Listed, CatalogInv, KeptTypeOK, Keeps
  <2>2. \A d \in Databases : /\ Merged(d, entries[d], Listed[d]) \in Listable \union {Absent}
                             /\ \/ Merged(d, entries[d], Listed[d]) = entries[d]
                                \/ Merged(d, entries[d], Listed[d]).held = <<d, 1>>
    BY <2>1, MergedIs DEF CatalogInv, EntriesTypeOK, EntriesOfFirsts
  <2> QED
    BY <1>4, <2>2 DEF Publish, CatalogInv, EntriesTypeOK, EntriesOfFirsts
<1>5. CASE ChangeSource
  BY <1>5
  DEF ChangeSource, Change, CatalogInv, EntriesTypeOK, EntriesOfFirsts,
      sourceVars, keptVars, listVars, fetchVars
<1>6. ASSUME NEW d \in Databases, Mark(d) PROVE EntriesTypeOK' /\ EntriesOfFirsts'
  <2>1. MergedHeld(d, entries[d]) \in Helds
    BY HeldsAre DEF MergedHeld, CatalogInv, EntriesTypeOK, EntriesOfFirsts
  <2> QED
    BY <1>6, <2>1 DEF Mark, CatalogInv, EntriesTypeOK, EntriesOfFirsts
<1>7. ASSUME NEW d \in Databases, ChangeMark(d)
      PROVE  EntriesTypeOK' /\ EntriesOfFirsts'
  BY <1>7
  DEF ChangeMark, Change, CatalogInv, EntriesTypeOK, EntriesOfFirsts,
      sourceVars, keptVars, listVars, fetchVars
<1>8. ASSUME NEW r \in Readers, Get(r) PROVE EntriesTypeOK' /\ EntriesOfFirsts'
  BY <1>8
  DEF Get, CatalogInv, EntriesTypeOK, EntriesOfFirsts, sourceVars, keptVars,
      listVars, fetchVars
<1>9. ASSUME NEW r \in Readers, LookAtFiles(r) PROVE EntriesTypeOK' /\ EntriesOfFirsts'
  BY <1>9
  DEF LookAtFiles, Leaves, CatalogInv, EntriesTypeOK, EntriesOfFirsts,
      sourceVars, keptVars, listVars, fetchVars
<1>10. ASSUME NEW r \in Readers, OpenFiles(r) PROVE EntriesTypeOK' /\ EntriesOfFirsts'
  BY <1>10
  DEF OpenFiles, Leaves, Moves, CatalogInv, EntriesTypeOK, EntriesOfFirsts,
      sourceVars, keptVars, listVars, fetchVars
<1>11. ASSUME NEW r \in Readers, TakeUp(r) PROVE EntriesTypeOK' /\ EntriesOfFirsts'
  BY <1>11
  DEF TakeUp, Leaves, Moves, CatalogInv, EntriesTypeOK, EntriesOfFirsts,
      sourceVars, keptVars, listVars, fetchVars
<1>12. ASSUME NEW r \in Readers, Submitted(r) PROVE EntriesTypeOK' /\ EntriesOfFirsts'
  BY <1>12
  DEF Submitted, Leaves, CatalogInv, EntriesTypeOK, EntriesOfFirsts,
      sourceVars, keptVars, listVars, fetchVars
<1>13. ASSUME NEW r \in Readers, Refused(r) PROVE EntriesTypeOK' /\ EntriesOfFirsts'
  BY <1>13
  DEF Refused, Fault, Leaves, CatalogInv, EntriesTypeOK, EntriesOfFirsts,
      sourceVars, keptVars, listVars, fetchVars
<1>14. CASE Fetch
  BY <1>14
  DEF Fetch, CatalogInv, EntriesTypeOK, EntriesOfFirsts, sourceVars, keptVars,
      listVars, fetchVars
<1>15. CASE FetchEnds
  BY <1>15
  DEF FetchEnds, CatalogInv, EntriesTypeOK, EntriesOfFirsts, sourceVars,
      keptVars, listVars, fetchVars
<1>16. CASE DownloadDone
  BY <1>16
  DEF DownloadDone, CatalogInv, EntriesTypeOK, EntriesOfFirsts, sourceVars,
      keptVars, listVars, fetchVars
<1>17. CASE UNCHANGED catalogVars
  BY <1>17
  DEF catalogVars, CatalogInv, EntriesTypeOK, EntriesOfFirsts, sourceVars,
      keptVars, listVars, fetchVars
<1> QED
  BY <1>1, <1>2, <1>3, <1>4, <1>5, <1>6, <1>7, <1>8, <1>9, <1>10, <1>11, <1>12,
     <1>13, <1>14, <1>15, <1>16, <1>17
  DEF CatalogNext

(* Every step keeps the types of the requests, each with a first Held.     *)
LEMMA ReadersStep ==
    ASSUME CatalogInv, CatalogNext \/ UNCHANGED catalogVars
    PROVE  ReadersTypeOK' /\ ReadersOfFirsts'
<1>1. CASE SignWindow
  BY <1>1
  DEF SignWindow, CatalogInv, ReadersTypeOK, ReadersOfFirsts, sourceVars,
      keptVars, listVars, fetchVars
<1>2. CASE ReadWindow
  BY <1>2
  DEF ReadWindow, WindowFails, Fault, CatalogInv, ReadersTypeOK,
      ReadersOfFirsts, sourceVars, keptVars, listVars, fetchVars
<1>3. CASE WalkFolder
  BY <1>3
  DEF WalkFolder, AfterSources, Fault, CatalogInv, ReadersTypeOK,
      ReadersOfFirsts, sourceVars, keptVars, listVars, fetchVars
<1>4. CASE Publish
  BY <1>4
  DEF Publish, CatalogInv, ReadersTypeOK, ReadersOfFirsts, sourceVars,
      keptVars, listVars, fetchVars
<1>5. CASE ChangeSource
  BY <1>5
  DEF ChangeSource, Change, CatalogInv, ReadersTypeOK, ReadersOfFirsts,
      sourceVars, keptVars, listVars, fetchVars
<1>6. ASSUME NEW d \in Databases, Mark(d) PROVE ReadersTypeOK' /\ ReadersOfFirsts'
  BY <1>6
  DEF Mark, CatalogInv, ReadersTypeOK, ReadersOfFirsts, sourceVars, keptVars,
      listVars, fetchVars
<1>7. ASSUME NEW d \in Databases, ChangeMark(d)
      PROVE  ReadersTypeOK' /\ ReadersOfFirsts'
  BY <1>7
  DEF ChangeMark, Change, CatalogInv, ReadersTypeOK, ReadersOfFirsts,
      sourceVars, keptVars, listVars, fetchVars
<1>8. ASSUME NEW r \in Readers, Get(r) PROVE ReadersTypeOK' /\ ReadersOfFirsts'
  <2>1. PICK d \in Databases : /\ entries[d] # Absent
                               /\ reader' = [reader EXCEPT ![r] = [step |-> "look", held |-> entries[d].held, saw |-> FALSE]]
    BY <1>8 DEF Get
  <2>2. entries[d].held \in Firsts
    BY <2>1, HeldsAre DEF CatalogInv, EntriesOfFirsts
  <2>3. ReadersTypeOK' /\ reader'[r].step = "look" /\ reader'[r].held \in Firsts
        /\ \A s \in Readers \ {r} : reader'[s] = reader[s]
    BY <2>1, <2>2, HeldsAre, GetIs DEF CatalogInv
  <2> QED
    BY <1>8, <2>3 DEF Get, CatalogInv, ReadersOfFirsts
<1>9. ASSUME NEW r \in Readers, LookAtFiles(r) PROVE ReadersTypeOK' /\ ReadersOfFirsts'
  <2>1. ReadersTypeOK'
        /\ (reader'[r].step = "rest" \/ (reader'[r].step = "open" /\ reader'[r].held = reader[r].held))
        /\ \A s \in Readers \ {r} : reader'[s] = reader[s]
    <3>1. CASE reader[r].held \in removed
      BY <1>9, <3>1, LeavesIs DEF LookAtFiles, CatalogInv
    <3>2. CASE reader[r].held \notin removed
      <4>1. reader' = [reader EXCEPT ![r] = [step |-> "open", held |-> reader[r].held,
                                              saw |-> reader[r].held[1] \in cloud]]
        BY <1>9, <3>2 DEF LookAtFiles
      <4> QED
        BY <4>1, LooksIs DEF CatalogInv
    <3> QED
      BY <3>1, <3>2
  <2> QED
    BY <1>9, <2>1 DEF LookAtFiles, CatalogInv, ReadersOfFirsts
<1>10. ASSUME NEW r \in Readers, OpenFiles(r) PROVE ReadersTypeOK' /\ ReadersOfFirsts'
  <2>1. ReadersTypeOK'
        /\ (reader'[r].step = "rest" \/ (reader'[r].step = "download" /\ reader'[r].held = reader[r].held))
        /\ \A s \in Readers \ {r} : reader'[s] = reader[s]
    BY <1>10, LeavesIs, MovesIs DEF OpenFiles, CatalogInv
  <2> QED
    BY <1>10, <2>1 DEF OpenFiles, CatalogInv, ReadersOfFirsts
<1>11. ASSUME NEW r \in Readers, TakeUp(r) PROVE ReadersTypeOK' /\ ReadersOfFirsts'
  <2>1. reader[r].held \in Firsts
    BY <1>11 DEF TakeUp, CatalogInv, ReadersOfFirsts
  <2>2. ReadersTypeOK' /\ (\A s \in Readers \ {r} : reader'[s] = reader[s])
        /\ \/ reader'[r].step = "rest"
           \/ reader'[r].step = "submit" /\ reader'[r].held = reader[r].held
    BY <1>11, LeavesIs, MovesIs DEF TakeUp, CatalogInv
  <2>3. running' \subseteq Firsts
    BY <1>11, <2>1 DEF TakeUp, CatalogInv, ReadersOfFirsts
  <2> QED
    BY <2>1, <2>2, <2>3 DEF CatalogInv, ReadersOfFirsts
<1>12. ASSUME NEW r \in Readers, Submitted(r) PROVE ReadersTypeOK' /\ ReadersOfFirsts'
  <2>1. ReadersTypeOK' /\ reader'[r].step = "rest" /\ \A s \in Readers \ {r} : reader'[s] = reader[s]
    BY <1>12, LeavesIs DEF Submitted, CatalogInv
  <2>2. running' \subseteq running
    BY <1>12 DEF Submitted
  <2> QED
    BY <2>1, <2>2 DEF CatalogInv, ReadersOfFirsts
<1>13. ASSUME NEW r \in Readers, Refused(r) PROVE ReadersTypeOK' /\ ReadersOfFirsts'
  <2>1. ReadersTypeOK' /\ reader'[r].step = "rest" /\ \A s \in Readers \ {r} : reader'[s] = reader[s]
    BY <1>13, LeavesIs DEF Refused, CatalogInv
  <2>2. running' \subseteq running
    BY <1>13 DEF Refused
  <2> QED
    BY <2>1, <2>2 DEF CatalogInv, ReadersOfFirsts
<1>14. CASE Fetch
  BY <1>14
  DEF Fetch, CatalogInv, ReadersTypeOK, ReadersOfFirsts, sourceVars, keptVars,
      listVars, fetchVars
<1>15. CASE FetchEnds
  BY <1>15
  DEF FetchEnds, CatalogInv, ReadersTypeOK, ReadersOfFirsts, sourceVars,
      keptVars, listVars, fetchVars
<1>16. CASE DownloadDone
  BY <1>16
  DEF DownloadDone, CatalogInv, ReadersTypeOK, ReadersOfFirsts, sourceVars,
      keptVars, listVars, fetchVars
<1>17. CASE UNCHANGED catalogVars
  BY <1>17
  DEF catalogVars, CatalogInv, ReadersTypeOK, ReadersOfFirsts, sourceVars,
      keptVars, listVars, fetchVars
<1> QED
  BY <1>1, <1>2, <1>3, <1>4, <1>5, <1>6, <1>7, <1>8, <1>9, <1>10, <1>11, <1>12,
     <1>13, <1>14, <1>15, <1>16, <1>17
  DEF CatalogNext

(* Every step keeps the types of the downloads.                            *)
LEMMA DownloadsStep ==
    ASSUME CatalogInv, CatalogNext \/ UNCHANGED catalogVars
    PROVE  DownloadsTypeOK'
<1>1. CASE SignWindow
  BY <1>1
  DEF SignWindow, CatalogInv, DownloadsTypeOK, sourceVars, keptVars, listVars,
      fetchVars
<1>2. CASE ReadWindow
  BY <1>2
  DEF ReadWindow, WindowFails, Fault, CatalogInv, DownloadsTypeOK, sourceVars,
      keptVars, listVars, fetchVars
<1>3. CASE WalkFolder
  BY <1>3
  DEF WalkFolder, AfterSources, Fault, CatalogInv, DownloadsTypeOK, sourceVars,
      keptVars, listVars, fetchVars
<1>4. CASE Publish
  BY <1>4
  DEF Publish, CatalogInv, DownloadsTypeOK, sourceVars, keptVars, listVars,
      fetchVars
<1>5. CASE ChangeSource
  BY <1>5
  DEF ChangeSource, Change, CatalogInv, DownloadsTypeOK, sourceVars, keptVars,
      listVars, fetchVars
<1>6. ASSUME NEW d \in Databases, Mark(d) PROVE DownloadsTypeOK'
  BY <1>6
  DEF Mark, CatalogInv, DownloadsTypeOK, sourceVars, keptVars, listVars,
      fetchVars
<1>7. ASSUME NEW d \in Databases, ChangeMark(d) PROVE DownloadsTypeOK'
  BY <1>7
  DEF ChangeMark, Change, CatalogInv, DownloadsTypeOK, sourceVars, keptVars,
      listVars, fetchVars
<1>8. ASSUME NEW r \in Readers, Get(r) PROVE DownloadsTypeOK'
  BY <1>8
  DEF Get, CatalogInv, DownloadsTypeOK, sourceVars, keptVars, listVars,
      fetchVars
<1>9. ASSUME NEW r \in Readers, LookAtFiles(r) PROVE DownloadsTypeOK'
  BY <1>9
  DEF LookAtFiles, Leaves, CatalogInv, DownloadsTypeOK, sourceVars, keptVars,
      listVars, fetchVars
<1>10. ASSUME NEW r \in Readers, OpenFiles(r) PROVE DownloadsTypeOK'
  BY <1>10
  DEF OpenFiles, Leaves, Moves, CatalogInv, DownloadsTypeOK, sourceVars,
      keptVars, listVars, fetchVars
<1>11. ASSUME NEW r \in Readers, TakeUp(r) PROVE DownloadsTypeOK'
  BY <1>11, HeldsAre
  DEF TakeUp, Leaves, Moves, CatalogInv, DownloadsTypeOK, sourceVars, keptVars,
      listVars, fetchVars, Fetches, ReadersOfFirsts
<1>12. ASSUME NEW r \in Readers, Submitted(r) PROVE DownloadsTypeOK'
  <2>1. reader[r].held \in Helds
    BY <1>12, HeldsAre DEF Submitted, CatalogInv, ReadersOfFirsts
  <2>2. Append(downloads, reader[r].held) \in Seq(Helds)
    BY <2>1 DEF CatalogInv, DownloadsTypeOK
  <2> QED
    BY <1>12, <2>2 DEF Submitted, CatalogInv, DownloadsTypeOK
<1>13. ASSUME NEW r \in Readers, Refused(r) PROVE DownloadsTypeOK'
  BY <1>13
  DEF Refused, Fault, Leaves, CatalogInv, DownloadsTypeOK, sourceVars,
      keptVars, listVars, fetchVars
<1>14. CASE Fetch
  <2>1. Head(downloads) \in Helds /\ Tail(downloads) \in Seq(Helds)
    BY <1>14, HeadTailProperties DEF Fetch, CatalogInv, DownloadsTypeOK
  <2> QED
    BY <1>14, <2>1 DEF Fetch, CatalogInv, DownloadsTypeOK, Fetches
<1>15. CASE FetchEnds
  BY <1>15
  DEF FetchEnds, CatalogInv, DownloadsTypeOK, sourceVars, keptVars, listVars,
      fetchVars, Fetches
<1>16. CASE DownloadDone
  BY <1>16
  DEF DownloadDone, CatalogInv, DownloadsTypeOK, sourceVars, keptVars,
      listVars, fetchVars, Fetches
<1>17. CASE UNCHANGED catalogVars
  BY <1>17
  DEF catalogVars, CatalogInv, DownloadsTypeOK, sourceVars, keptVars, listVars,
      fetchVars
<1> QED
  BY <1>1, <1>2, <1>3, <1>4, <1>5, <1>6, <1>7, <1>8, <1>9, <1>10, <1>11, <1>12,
     <1>13, <1>14, <1>15, <1>16, <1>17
  DEF CatalogNext

LEMMA DownloadsSame ==
    ASSUME UNCHANGED <<running, downloads, fetching>>, DownloadsInv,
           \A r \in Readers : /\ reader'[r].step = "submit" <=> Submits(r)
                              /\ Submits(r) => reader'[r].held = reader[r].held
    PROVE  DownloadsInv'
<1>1. RunningSomewhere'
  BY DEF DownloadsInv, RunningSomewhere, Submits
<1>2. PlacesRunning'
  BY DEF DownloadsInv, PlacesRunning, Submits
<1>3. PlacesApart'
  BY DEF DownloadsInv, PlacesApart, Submits
<1> QED
  BY <1>1, <1>2, <1>3 DEF DownloadsInv

(* Every step leaves a download taken up in its one place.                 *)
LEMMA DownloadsInvStep ==
    ASSUME CatalogInv, CatalogNext \/ UNCHANGED catalogVars
    PROVE  DownloadsInv'
<1>1. CASE SignWindow
  BY <1>1, DownloadsSame
  DEF SignWindow, CatalogInv, Submits, sourceVars, keptVars, listVars,
      fetchVars
<1>2. CASE ReadWindow
  BY <1>2, DownloadsSame
  DEF ReadWindow, WindowFails, Fault, CatalogInv, Submits, sourceVars,
      keptVars, listVars, fetchVars
<1>3. CASE WalkFolder
  BY <1>3, DownloadsSame
  DEF WalkFolder, AfterSources, Fault, CatalogInv, Submits, sourceVars,
      keptVars, listVars, fetchVars
<1>4. CASE Publish
  BY <1>4, DownloadsSame
  DEF Publish, CatalogInv, Submits, sourceVars, keptVars, listVars, fetchVars
<1>5. CASE ChangeSource
  BY <1>5, DownloadsSame
  DEF ChangeSource, Change, CatalogInv, Submits, sourceVars, keptVars,
      listVars, fetchVars
<1>6. ASSUME NEW d \in Databases, Mark(d) PROVE DownloadsInv'
  BY <1>6, DownloadsSame
  DEF Mark, CatalogInv, Submits, sourceVars, keptVars, listVars, fetchVars
<1>7. ASSUME NEW d \in Databases, ChangeMark(d) PROVE DownloadsInv'
  BY <1>7, DownloadsSame
  DEF ChangeMark, Change, CatalogInv, Submits, sourceVars, keptVars, listVars,
      fetchVars
<1>8. ASSUME NEW r \in Readers, Get(r) PROVE DownloadsInv'
  <2>1. PICK d \in Databases : /\ entries[d] # Absent
                               /\ reader' = [reader EXCEPT ![r] = [step |-> "look", held |-> entries[d].held, saw |-> FALSE]]
    BY <1>8 DEF Get
  <2>2. entries[d].held \in Firsts
    BY <2>1, HeldsAre DEF CatalogInv, EntriesOfFirsts
  <2>3. ReadersTypeOK' /\ reader'[r].step = "look" /\ reader'[r].held \in Firsts
        /\ \A s \in Readers \ {r} : reader'[s] = reader[s]
    BY <2>1, <2>2, HeldsAre, GetIs DEF CatalogInv
  <2> QED
    BY <1>8, <2>3, DownloadsSame DEF Get, CatalogInv, Submits
<1>9. ASSUME NEW r \in Readers, LookAtFiles(r) PROVE DownloadsInv'
  <2>1. ReadersTypeOK'
        /\ (reader'[r].step = "rest" \/ (reader'[r].step = "open" /\ reader'[r].held = reader[r].held))
        /\ \A s \in Readers \ {r} : reader'[s] = reader[s]
    <3>1. CASE reader[r].held \in removed
      BY <1>9, <3>1, LeavesIs DEF LookAtFiles, CatalogInv
    <3>2. CASE reader[r].held \notin removed
      <4>1. reader' = [reader EXCEPT ![r] = [step |-> "open", held |-> reader[r].held,
                                              saw |-> reader[r].held[1] \in cloud]]
        BY <1>9, <3>2 DEF LookAtFiles
      <4> QED
        BY <4>1, LooksIs DEF CatalogInv
    <3> QED
      BY <3>1, <3>2
  <2> QED
    BY <1>9, <2>1, DownloadsSame DEF LookAtFiles, CatalogInv, Submits
<1>10. ASSUME NEW r \in Readers, OpenFiles(r) PROVE DownloadsInv'
  <2>1. ReadersTypeOK'
        /\ (reader'[r].step = "rest" \/ (reader'[r].step = "download" /\ reader'[r].held = reader[r].held))
        /\ \A s \in Readers \ {r} : reader'[s] = reader[s]
    BY <1>10, LeavesIs, MovesIs DEF OpenFiles, CatalogInv
  <2> QED
    BY <1>10, <2>1, DownloadsSame DEF OpenFiles, CatalogInv, Submits
<1>11. ASSUME NEW r \in Readers, TakeUp(r) PROVE DownloadsInv'
  <2> DEFINE h == reader[r].held
  <2>1. CASE h \in running
    <3>1. reader'[r].step = "rest" /\ \A s \in Readers \ {r} : reader'[s] = reader[s]
      BY <1>11, <2>1, LeavesIs DEF TakeUp, CatalogInv
    <3> QED
      BY <1>11, <2>1, <3>1, DownloadsSame DEF TakeUp, CatalogInv, Submits
  <2>2. CASE h \notin running
    <3>1. /\ ~Submits(r) /\ reader'[r].step = "submit" /\ reader'[r].held = h
          /\ \A s \in Readers \ {r} : reader'[s] = reader[s]
      BY <1>11, <2>2, MovesIs DEF TakeUp, CatalogInv, Submits
    <3>2. running' = running \union {h} /\ UNCHANGED <<downloads, fetching>>
      BY <1>11, <2>2 DEF TakeUp
    <3>3. h \in Firsts /\ h # Absent
      BY <1>11, HeldsAre DEF TakeUp, CatalogInv, ReadersOfFirsts
    <3> HIDE DEF h
    <3>4. RunningSomewhere'
      BY <3>1, <3>2 DEF CatalogInv, DownloadsInv, RunningSomewhere, Submits
    <3>6. PlacesRunning'
      BY <3>1, <3>2 DEF CatalogInv, DownloadsInv, PlacesRunning, Submits
    <3>5. PlacesApart'
      BY <2>2, <3>1, <3>2, <3>3 DEF CatalogInv, DownloadsInv, PlacesRunning, PlacesApart, Submits
    <3> QED
      BY <3>4, <3>5, <3>6 DEF DownloadsInv
  <2> QED
    BY <2>1, <2>2
<1>12. ASSUME NEW r \in Readers, Submitted(r) PROVE DownloadsInv'
  <2> DEFINE h == reader[r].held
             n == Len(downloads)
  <2>1. /\ Submits(r) /\ reader'[r].step = "rest" /\ \A s \in Readers \ {r} : reader'[s] = reader[s]
        /\ UNCHANGED <<running, fetching>> /\ downloads' = Append(downloads, h)
    BY <1>12, LeavesIs DEF Submitted, CatalogInv, Submits
  <2>2. h \in running /\ h \in Helds /\ downloads \in Seq(Helds)
    BY <2>1 DEF CatalogInv, DownloadsInv, PlacesRunning, DownloadsTypeOK
  <2>3. /\ n \in Nat /\ Len(downloads') = n + 1 /\ downloads'[n + 1] = h
        /\ \A i \in 1..n : downloads'[i] = downloads[i]
    BY <2>1, <2>2
  <2> HIDE DEF h, n
  <2>4. \A i \in 1..(n + 1) : i \in 1..n \/ i = n + 1
    BY <2>3
  <2>5. (\A i \in 1..n : i \in 1..(n + 1)) /\ n + 1 \in 1..(n + 1) /\ n + 1 \notin 1..n
    BY <2>3
  <2>6. RunningSomewhere'
    BY <2>1, <2>3, <2>5 DEF CatalogInv, DownloadsInv, RunningSomewhere, Submits, h, n
  <2>7. PlacesRunning'
    BY <2>1, <2>2, <2>3, <2>4 DEF CatalogInv, DownloadsInv, PlacesRunning, Submits, n
  <2>8. PlacesApart'
    BY <2>1, <2>3, <2>4 DEF CatalogInv, DownloadsInv, PlacesApart, Submits, h, n
  <2> QED
    BY <2>6, <2>7, <2>8 DEF DownloadsInv
<1>13. ASSUME NEW r \in Readers, Refused(r) PROVE DownloadsInv'
  <2> DEFINE h == reader[r].held
  <2>1. /\ Submits(r) /\ reader'[r].step = "rest" /\ \A s \in Readers \ {r} : reader'[s] = reader[s]
        /\ running' = running \ {h} /\ UNCHANGED <<downloads, fetching>>
    BY <1>13, LeavesIs DEF Refused, CatalogInv, Submits
  <2> HIDE DEF h
  <2>2. RunningSomewhere'
    BY <2>1 DEF CatalogInv, DownloadsInv, RunningSomewhere, Submits, h
  <2>3. PlacesRunning'
    BY <2>1 DEF CatalogInv, DownloadsInv, PlacesRunning, PlacesApart, Submits, h
  <2>4. PlacesApart'
    BY <2>1 DEF CatalogInv, DownloadsInv, PlacesApart, Submits
  <2> QED
    BY <2>2, <2>3, <2>4 DEF DownloadsInv
<1>14. CASE Fetch
  <2> DEFINE h == Head(downloads)
             t == Tail(downloads)
  <2>1. /\ downloads \in Seq(Helds) /\ downloads # <<>> /\ fetching.held = Absent
        /\ fetching' = [held |-> h, read |-> FALSE] /\ downloads' = t /\ UNCHANGED <<running, reader>>
    BY <1>14 DEF Fetch, CatalogInv, DownloadsTypeOK
  <2>2. /\ h = downloads[1] /\ t \in Seq(Helds) /\ Len(t) = Len(downloads) - 1
        /\ \A i \in 1..Len(t) : t[i] = downloads[i + 1]
    BY <2>1, HeadTailProperties
  <2>3. Len(downloads) \in Nat \ {0}
    BY <2>1, EmptySeq
  <2>4. fetching'.held = h /\ ~fetching'.read
    BY <2>1
  <2>5. h \in running /\ h # Absent
    BY <2>2, <2>3, HeldsAre DEF CatalogInv, DownloadsInv, PlacesRunning, ReadersOfFirsts
  <2> HIDE DEF h, t
  <2>6. \A i \in 1..Len(t) : i + 1 \in 1..Len(downloads) /\ i + 1 # 1 /\ i \in Nat /\ 1 \in 1..Len(downloads)
    BY <2>2, <2>3
  <2>7. \A i \in 1..Len(downloads) : i = 1 \/ (i - 1 \in 1..Len(t) /\ (i - 1) + 1 = i)
    BY <2>2, <2>3
  <2>8. RunningSomewhere'
    <3> SUFFICES ASSUME NEW g \in running
                 PROVE  \/ fetching'.held = g \/ \E i \in 1..Len(t) : t[i] = g
                        \/ \E r \in Readers : Submits(r) /\ reader[r].held = g
      BY <2>1 DEF RunningSomewhere, Submits
    <3>1. CASE \E i \in 1..Len(downloads) : downloads[i] = g
      BY <2>2, <2>4, <2>7, <3>1
    <3>2. CASE fetching.held = g
      BY <2>1, <3>2, HeldsAre DEF CatalogInv, ReadersOfFirsts
    <3> QED
      BY <3>1, <3>2 DEF CatalogInv, DownloadsInv, RunningSomewhere
  <2>9. PlacesRunning'
    BY <2>1, <2>2, <2>4, <2>5, <2>6 DEF CatalogInv, DownloadsInv, PlacesRunning, Submits
  <2>10. \A i \in 1..Len(t) : t[i] # h
    BY <2>2, <2>6 DEF CatalogInv, DownloadsInv, PlacesApart
  <2>11. \A i, k \in 1..Len(t) : t[i] = t[k] => i = k
    <3> SUFFICES ASSUME NEW i \in 1..Len(t), NEW k \in 1..Len(t), t[i] = t[k] PROVE i = k
      OBVIOUS
    <3>1. i + 1 = k + 1
      BY <2>2, <2>6 DEF CatalogInv, DownloadsInv, PlacesApart
    <3> QED
      BY <2>6, <3>1
  <2>12. \A r \in Readers : Submits(r) => reader[r].held # h /\ \A i \in 1..Len(t) : t[i] # reader[r].held
    BY <2>2, <2>6, <2>3 DEF CatalogInv, DownloadsInv, PlacesApart
  <2>13. PlacesApart'
    BY <2>1, <2>4, <2>10, <2>11, <2>12 DEF CatalogInv, DownloadsInv, PlacesApart, Submits
  <2> QED
    BY <2>8, <2>9, <2>13 DEF DownloadsInv
<1>15. CASE FetchEnds
  <2>1. fetching'.held = fetching.held /\ fetching.held # Absent /\ UNCHANGED <<running, reader, downloads>>
    BY <1>15 DEF FetchEnds, CatalogInv, DownloadsTypeOK, Fetches
  <2> QED
    BY <2>1 DEF CatalogInv, DownloadsInv, RunningSomewhere, PlacesRunning, PlacesApart, Submits
<1>16. CASE DownloadDone
  <2>1. /\ fetching'.held = Absent /\ ~fetching'.read /\ running' = running \ {fetching.held}
        /\ UNCHANGED <<reader, downloads>>
    BY <1>16 DEF DownloadDone
  <2>2. RunningSomewhere'
    BY <2>1 DEF CatalogInv, DownloadsInv, RunningSomewhere, Submits
  <2>3. PlacesRunning'
    BY <2>1 DEF CatalogInv, DownloadsInv, PlacesRunning, PlacesApart, Submits
  <2>4. PlacesApart'
    <3>1. (\A i \in 1..Len(downloads) : downloads[i] # Absent) /\ \A r \in Readers : Submits(r) => reader[r].held # Absent
      BY HeldsAre DEF CatalogInv, DownloadsInv, PlacesRunning, ReadersOfFirsts
    <3> QED
      BY <2>1, <3>1 DEF CatalogInv, DownloadsInv, PlacesApart, Submits
  <2> QED
    BY <2>2, <2>3, <2>4 DEF DownloadsInv
<1>17. CASE UNCHANGED catalogVars
  BY <1>17, DownloadsSame
  DEF catalogVars, CatalogInv, Submits, sourceVars, keptVars, listVars,
      fetchVars
<1> QED
  BY <1>1, <1>2, <1>3, <1>4, <1>5, <1>6, <1>7, <1>8, <1>9, <1>10, <1>11, <1>12,
     <1>13, <1>14, <1>15, <1>16, <1>17
  DEF CatalogNext

-----------------------------------------------------------------------------
(* What the steps of a refresh do, field by field.                         *)
LEMMA SignIs ==
    ASSUME SignWindow, CatalogInv
    PROVE  /\ refresh.step = "rest" /\ refresh'.step = "window" /\ ~refresh'.changed
           /\ refresh'.seen = window.sig
           /\ UNCHANGED <<window, folder, keptVars, entries, removed>>
BY DEF SignWindow, sourceVars

LEMMA ReadIs ==
    ASSUME ReadWindow, CatalogInv
    PROVE  /\ refresh.step = "window" /\ refresh'.step = "folder" /\ refresh'.todo = refresh.todo
           /\ UNCHANGED <<window, folder, keptFolder, entries, removed>>
           /\ \/ /\ keptWindow' = keptWindow /\ keptWindow.sig = refresh.seen
                 /\ refresh'.changed = refresh.changed /\ refresh'.quiet = refresh.quiet
              \/ /\ keptWindow' = [lists |-> window.lists, sig |-> refresh.seen]
                 /\ refresh'.changed = TRUE /\ refresh'.quiet = refresh.quiet
              \/ /\ keptWindow' = [keptWindow EXCEPT !.sig = Absent]
                 /\ refresh'.changed = refresh.changed /\ ~refresh'.quiet
<1>1. refresh.step = "window" /\ UNCHANGED <<window, folder, keptFolder, entries, removed>>
  BY DEF ReadWindow, sourceVars
<1>2. CASE /\ keptWindow.sig = refresh.seen /\ keptWindow' = keptWindow
           /\ refresh' = [refresh EXCEPT !.step = "folder"]
  BY <1>1, <1>2 DEF CatalogInv, RefreshTypeOK, Refreshes
<1>3. CASE /\ keptWindow' = [lists |-> window.lists, sig |-> refresh.seen]
           /\ refresh' = [refresh EXCEPT !.step = "folder", !.changed = TRUE]
  <2>1. /\ refresh'.step = "folder" /\ refresh'.todo = refresh.todo /\ refresh'.changed = TRUE
        /\ refresh'.quiet = refresh.quiet
    BY <1>3 DEF CatalogInv, RefreshTypeOK, Refreshes
  <2> QED
    BY <1>1, <1>3, <2>1
<1>4. CASE /\ keptWindow' = [keptWindow EXCEPT !.sig = Absent]
           /\ refresh' = [refresh EXCEPT !.step = "folder", !.quiet = FALSE]
  <2>1. /\ refresh'.step = "folder" /\ refresh'.todo = refresh.todo /\ refresh'.changed = refresh.changed
        /\ refresh'.quiet = FALSE
    BY <1>4 DEF CatalogInv, RefreshTypeOK, Refreshes
  <2> QED
    BY <1>1, <1>4, <2>1
<1> QED
  BY <1>2, <1>3, <1>4 DEF ReadWindow, WindowFails

LEMMA MarkIs ==
    ASSUME NEW d \in Databases, Mark(d), CatalogInv
    PROVE  /\ refresh.step = "merging" /\ refresh'.step = "merging"
           /\ refresh'.quiet = refresh.quiet /\ refresh'.changed = refresh.changed
           /\ refresh'.todo = refresh.todo \ {d}
           /\ UNCHANGED <<window, folder, keptVars, entries>>
           /\ removed' = IF Listed[d] # Absent THEN removed \ {<<d, 1>>}
                         ELSE IF entries[d] # Absent THEN removed \union {<<d, 1>>} ELSE removed
<1>1. /\ refresh.step = "merging" /\ refresh' = [refresh EXCEPT !.todo = @ \ {d}]
      /\ UNCHANGED <<window, folder, keptVars, entries>>
  BY DEF Mark, sourceVars
<1>2. MergedHeld(d, entries[d]) = <<d, 1>>
  BY DEF MergedHeld, CatalogInv, EntriesOfFirsts
<1>3. removed' = IF Listed[d] # Absent THEN removed \ {<<d, 1>>}
                 ELSE IF entries[d] # Absent THEN removed \union {<<d, 1>>} ELSE removed
  BY <1>2 DEF Mark
<1>4. /\ refresh'.step = refresh.step /\ refresh'.todo = refresh.todo \ {d}
      /\ refresh'.quiet = refresh.quiet /\ refresh'.changed = refresh.changed
  BY <1>1 DEF CatalogInv, RefreshTypeOK, Refreshes
<1> QED
  BY <1>1, <1>3, <1>4

LEMMA PublishIs ==
    ASSUME Publish, CatalogInv
    PROVE  /\ refresh.step = "merging" /\ refresh.todo = {} /\ refresh'.step = "rest"
           /\ refresh'.quiet = refresh.quiet /\ refresh'.changed = refresh.changed
           /\ UNCHANGED <<window, folder, keptVars, removed>>
           /\ entries' = [d \in Databases |-> Merged(d, entries[d], Listed[d])]
BY DEF Publish, sourceVars, CatalogInv, RefreshTypeOK, Refreshes

LEMMA ChangeIs ==
    ASSUME ChangeSource, CatalogInv
    PROVE  /\ refresh'.step = refresh.step /\ refresh'.changed = refresh.changed
           /\ refresh'.todo = refresh.todo /\ refresh'.seen = refresh.seen /\ ~refresh'.quiet
           /\ UNCHANGED <<keptVars, entries, removed>>
           /\ window'.sig \in Nat /\ folder'.sig \in Nat /\ window.sig <= window'.sig
           /\ window' = window \/ window'.sig > window.sig
           /\ folder' = folder \/ folder'.sig > folder.sig
<1>1. refresh' = [refresh EXCEPT !.quiet = FALSE] /\ UNCHANGED <<keptVars, entries, removed>>
  BY DEF ChangeSource
<1>2. /\ refresh'.step = refresh.step /\ refresh'.changed = refresh.changed
      /\ refresh'.todo = refresh.todo /\ refresh'.seen = refresh.seen /\ refresh'.quiet = FALSE
  BY <1>1 DEF CatalogInv, RefreshTypeOK, Refreshes
<1>3. window.sig \in Nat /\ folder.sig \in Nat
  BY DEF CatalogInv, SourcesTypeOK
<1>4. (window' = window \/ window'.sig = window.sig + 1) /\ (folder' = folder \/ folder'.sig = folder.sig + 1)
  BY DEF ChangeSource
<1> QED
  BY <1>1, <1>2, <1>3, <1>4

LEMMA KeptSignatures ==
    ASSUME CatalogInv
    PROVE  /\ window.sig \in Nat /\ folder.sig \in Nat /\ refresh.seen \in Nat
           /\ keptWindow.sig \in Nat \union {Absent} /\ keptFolder.sig \in Nat \union {Absent}
           /\ Absent \notin Nat
           /\ [keptWindow EXCEPT !.sig = Absent].sig = Absent
           /\ [keptWindow EXCEPT !.sig = Absent].lists = keptWindow.lists
           /\ [keptFolder EXCEPT !.sig = Absent].sig = Absent
           /\ [keptFolder EXCEPT !.sig = Absent].lists = keptFolder.lists
BY AbsentAssumption DEF CatalogInv, SourcesTypeOK, KeptTypeOK, Keeps, RefreshTypeOK, Refreshes

(* A step that leaves the sources, what is kept of them, the entries and   *)
(* the refresh.                                                            *)
LEMMA ListSame ==
    ASSUME UNCHANGED <<window, folder, keptWindow, keptFolder, refresh, entries, removed>>, CatalogInv
    PROVE  KeptRight' /\ SeenRight' /\ QuietRight' /\ EntriesRight'
BY DEF CatalogInv, KeptRight, KeptOf, SeenRight, QuietRight, EntriesRight, Shown, Marked, Listed

(* Every step keeps what is known of what was read.                        *)
LEMMA ReadsStep ==
    ASSUME CatalogInv, CatalogNext \/ UNCHANGED catalogVars
    PROVE  KeptRight' /\ SeenRight' /\ QuietRight'
<1>1. CASE SignWindow
  <2>1. KeptRight'
    BY <1>1, SignIs DEF CatalogInv, KeptRight, KeptOf, keptVars
  <2>2. SeenRight' /\ QuietRight'
    BY <1>1, SignIs, KeptSignatures DEF SeenRight, QuietRight
  <2> QED
    BY <2>1, <2>2
<1>2. CASE ReadWindow
  <2>1. KeptOf(keptFolder', folder') /\ KeptOf(keptWindow, window)
    BY <1>2, ReadIs DEF CatalogInv, KeptRight
  <2>2. /\ refresh.seen <= window.sig /\ (refresh.quiet => refresh.seen = window.sig)
        /\ window' = window /\ folder' = folder /\ keptFolder' = keptFolder
    BY <1>2, ReadIs DEF CatalogInv, SeenRight
  <2>3. SeenRight'
    BY <1>2, ReadIs DEF SeenRight
  <2>4. CASE keptWindow' = keptWindow /\ keptWindow.sig = refresh.seen /\ refresh'.quiet = refresh.quiet
    <3>1. KeptOf(keptWindow', window')
      BY <2>1, <2>2, <2>4
    <3>2. refresh.quiet => keptWindow.lists = window.lists
      BY <2>1, <2>2, <2>4, KeptSignatures DEF KeptOf
    <3>3. QuietRight'
      BY <1>2, <2>2, <2>4, <3>2, ReadIs DEF QuietRight
    <3> QED
      BY <2>1, <2>3, <3>1, <3>3 DEF KeptRight
  <2>5. CASE keptWindow' = [lists |-> window.lists, sig |-> refresh.seen]
    <3>1. keptWindow'.lists = window.lists /\ keptWindow'.sig = refresh.seen
      BY <2>5
    <3>2. KeptOf(keptWindow', window')
      BY <2>2, <3>1 DEF KeptOf
    <3>3. QuietRight'
      BY <1>2, <2>2, <3>1, ReadIs DEF QuietRight
    <3> QED
      BY <2>1, <2>3, <3>2, <3>3 DEF KeptRight
  <2>6. CASE keptWindow' = [keptWindow EXCEPT !.sig = Absent] /\ ~refresh'.quiet
    <3>1. keptWindow'.sig = Absent
      BY <2>6, KeptSignatures
    <3>2. KeptOf(keptWindow', window')
      BY <3>1 DEF KeptOf
    <3>3. QuietRight'
      BY <2>6 DEF QuietRight
    <3> QED
      BY <2>1, <2>3, <3>2, <3>3 DEF KeptRight
  <2> QED
    BY <1>2, <2>4, <2>5, <2>6, ReadIs
<1>3. CASE WalkFolder
  <2>1. window' = window /\ folder' = folder /\ keptWindow' = keptWindow
    BY <1>3, WalkIs DEF sourceVars
  <2>2. KeptOf(keptWindow', window') /\ KeptOf(keptFolder, folder)
    BY <2>1 DEF CatalogInv, KeptRight
  <2>3. KeptOf(folder, folder)
    BY KeptSignatures DEF KeptOf
  <2>4. KeptOf([keptFolder EXCEPT !.sig = Absent], folder)
    BY KeptSignatures DEF KeptOf
  <2>5. KeptOf(keptFolder', folder')
    BY <1>3, <2>1, <2>2, <2>3, <2>4, WalkIs
  <2>6. SeenRight'
    BY <1>3, WalkIs DEF SeenRight
  <2>7. QuietRight'
    BY <1>3, <2>1, WalkIs DEF CatalogInv, QuietRight
  <2> QED
    BY <2>2, <2>5, <2>6, <2>7 DEF KeptRight
<1>4. CASE Publish
  <2>1. window' = window /\ folder' = folder /\ keptWindow' = keptWindow /\ keptFolder' = keptFolder
    BY <1>4, PublishIs DEF keptVars
  <2>2. KeptRight'
    BY <2>1 DEF CatalogInv, KeptRight
  <2>3. SeenRight' /\ QuietRight'
    BY <1>4, PublishIs DEF CatalogInv, SeenRight, QuietRight
  <2> QED
    BY <2>2, <2>3
<1>5. CASE ChangeSource
  <2>1. keptWindow' = keptWindow /\ keptFolder' = keptFolder
    BY <1>5, ChangeIs DEF keptVars
  <2>2. KeptOf(keptWindow, window) /\ KeptOf(keptFolder, folder)
    BY DEF CatalogInv, KeptRight
  <2>3. /\ window'.sig \in Nat /\ folder'.sig \in Nat
        /\ window' = window \/ window'.sig > window.sig
        /\ folder' = folder \/ folder'.sig > folder.sig
    BY <1>5, ChangeIs
  <2>4. KeptOf(keptWindow', window')
    BY <2>1, <2>2, <2>3, KeptSignatures DEF KeptOf
  <2>5. KeptOf(keptFolder', folder')
    BY <2>1, <2>2, <2>3, KeptSignatures DEF KeptOf
  <2>6. SeenRight'
    BY <1>5, ChangeIs, KeptSignatures DEF CatalogInv, SeenRight
  <2>7. QuietRight'
    BY <1>5, ChangeIs DEF QuietRight
  <2> QED
    BY <2>4, <2>5, <2>6, <2>7 DEF KeptRight
<1>6. ASSUME NEW d \in Databases, Mark(d) PROVE KeptRight' /\ SeenRight' /\ QuietRight'
  <2>1. window' = window /\ folder' = folder /\ keptWindow' = keptWindow /\ keptFolder' = keptFolder
    BY <1>6, MarkIs DEF keptVars
  <2>2. KeptRight'
    BY <2>1 DEF CatalogInv, KeptRight
  <2>3. SeenRight'
    BY <1>6, MarkIs DEF CatalogInv, SeenRight
  <2>4. QuietRight'
    BY <1>6, <2>1, MarkIs DEF CatalogInv, QuietRight
  <2> QED
    BY <2>2, <2>3, <2>4
<1>7. ASSUME NEW d \in Databases, ChangeMark(d)
      PROVE  KeptRight' /\ SeenRight' /\ QuietRight'
  BY <1>7, ListSame DEF ChangeMark, sourceVars, keptVars, listVars
<1>8. ASSUME NEW r \in Readers, Get(r) PROVE KeptRight' /\ SeenRight' /\ QuietRight'
  BY <1>8, ListSame DEF Get, sourceVars, keptVars, listVars
<1>9. ASSUME NEW r \in Readers, LookAtFiles(r)
      PROVE  KeptRight' /\ SeenRight' /\ QuietRight'
  BY <1>9, ListSame DEF LookAtFiles, sourceVars, keptVars, listVars
<1>10. ASSUME NEW r \in Readers, OpenFiles(r)
      PROVE  KeptRight' /\ SeenRight' /\ QuietRight'
  BY <1>10, ListSame DEF OpenFiles, sourceVars, keptVars, listVars
<1>11. ASSUME NEW r \in Readers, TakeUp(r)
      PROVE  KeptRight' /\ SeenRight' /\ QuietRight'
  BY <1>11, ListSame DEF TakeUp, sourceVars, keptVars, listVars
<1>12. ASSUME NEW r \in Readers, Submitted(r)
      PROVE  KeptRight' /\ SeenRight' /\ QuietRight'
  BY <1>12, ListSame DEF Submitted, sourceVars, keptVars, listVars
<1>13. ASSUME NEW r \in Readers, Refused(r)
      PROVE  KeptRight' /\ SeenRight' /\ QuietRight'
  BY <1>13, ListSame DEF Refused, sourceVars, keptVars, listVars
<1>14. CASE Fetch
  BY <1>14, ListSame DEF Fetch, sourceVars, keptVars, listVars
<1>15. CASE FetchEnds
  BY <1>15, ListSame DEF FetchEnds, sourceVars, keptVars, listVars
<1>16. CASE DownloadDone
  BY <1>16, ListSame DEF DownloadDone, sourceVars, keptVars, listVars
<1>17. CASE UNCHANGED catalogVars
  BY <1>17, ListSame DEF catalogVars
<1> QED
  BY <1>1, <1>2, <1>3, <1>4, <1>5, <1>6, <1>7, <1>8, <1>9, <1>10, <1>11, <1>12,
     <1>13, <1>14, <1>15, <1>16, <1>17
  DEF CatalogNext

(* Every step leaves the entries as what is kept of the sources has them.  *)
LEMMA EntriesRightStep ==
    ASSUME CatalogInv, CatalogNext \/ UNCHANGED catalogVars
    PROVE  EntriesRight'
<1>1. CASE SignWindow
  <2>1. \A d \in Databases : Shown(d)
    BY <1>1, SignIs DEF CatalogInv, EntriesRight, SeenRight
  <2>2. \A d \in Databases : Shown(d)'
    BY <1>1, <2>1, SignIs DEF Shown, Listed, keptVars
  <2> QED
    BY <1>1, <2>2, SignIs DEF EntriesRight
<1>2. CASE ReadWindow
  <2>1. CASE refresh'.changed
    BY <1>2, <2>1, ReadIs DEF EntriesRight
  <2>2. CASE ~refresh'.changed
    <3>1. keptWindow'.lists = keptWindow.lists /\ keptFolder'.lists = keptFolder.lists /\ ~refresh.changed
      BY <1>2, <2>2, ReadIs, KeptSignatures
    <3>2. \A d \in Databases : Shown(d)
      BY <1>2, <3>1, ReadIs DEF CatalogInv, EntriesRight
    <3>3. \A d \in Databases : Shown(d)'
      BY <1>2, <3>1, <3>2, ReadIs DEF Shown, Listed
    <3> QED
      BY <1>2, <3>3, ReadIs DEF EntriesRight
  <2> QED
    BY <2>1, <2>2
<1>3. CASE WalkFolder
  <2>1. CASE refresh'.step = "merging" /\ refresh'.todo = Databases
    BY <2>1 DEF EntriesRight
  <2>2. CASE /\ refresh'.step = "rest" /\ ~refresh.changed
             /\ keptFolder' = folder => keptFolder.sig = folder.sig
    <3>1. keptWindow' = keptWindow /\ keptFolder'.lists = keptFolder.lists
      BY <1>3, <2>2, WalkIs, KeptSignatures DEF CatalogInv, KeptRight, KeptOf
    <3>2. \A d \in Databases : Shown(d)
      BY <1>3, <2>2, WalkIs DEF CatalogInv, EntriesRight
    <3>3. \A d \in Databases : Shown(d)'
      BY <1>3, <3>1, <3>2, WalkIs DEF Shown, Listed
    <3> QED
      BY <2>2, <3>3 DEF EntriesRight
  <2> QED
    BY <1>3, <2>1, <2>2, WalkIs
<1>4. CASE Publish
  <2>1. \A d \in Databases : Listed[d] \in Names \union {Absent}
    BY ListedByIs DEF Listed, CatalogInv, KeptTypeOK, Keeps
  <2>2. Listed' = Listed
    BY <1>4, PublishIs DEF Listed, keptVars
  <2>3. \A d \in Databases : Marked(d)
    BY <1>4, PublishIs DEF CatalogInv, EntriesRight
  <2>4. ASSUME NEW d \in Databases
        PROVE  Shown(d)'
    <3>1. entries[d] \in Listable \union {Absent} /\ (entries[d] # Absent => entries[d].held = <<d, 1>>)
      BY DEF CatalogInv, EntriesTypeOK, EntriesOfFirsts
    <3>2. entries'[d] = Merged(d, entries[d], Listed[d]) /\ removed' = removed
      BY <1>4, PublishIs
    <3>3. Marked(d)
      BY <2>3
    <3>4. CASE Listed[d] = Absent
      <4>1. entries'[d] = entries[d]
        BY <2>1, <3>1, <3>2, <3>4, MergedIs
      <4> QED
        BY <2>2, <3>1, <3>2, <3>3, <3>4, <4>1 DEF Marked, Shown
    <3>5. CASE Listed[d] # Absent
      <4>1. entries'[d] # Absent /\ entries'[d].name = Listed[d] /\ entries'[d].held = <<d, 1>>
        BY <2>1, <3>1, <3>2, <3>5, MergedIs
      <4> QED
        BY <2>2, <3>2, <3>3, <3>5, <4>1 DEF Marked, Shown
    <3> QED
      BY <3>4, <3>5
  <2> QED
    BY <1>4, <2>4, PublishIs DEF EntriesRight
<1>5. CASE ChangeSource
  BY <1>5, ChangeIs DEF CatalogInv, EntriesRight, Shown, Marked, Listed, keptVars
<1>6. ASSUME NEW d \in Databases, Mark(d) PROVE EntriesRight'
  <2>1. Listed' = Listed
    BY <1>6, MarkIs DEF Listed, keptVars
  <2>2. ASSUME NEW e \in Databases, e \notin refresh'.todo
        PROVE  Marked(e)'
    <3>1. CASE e = d
      BY <1>6, <2>1, <3>1, MarkIs DEF Marked
    <3>2. CASE e # d
      <4>1. Marked(e)
        BY <1>6, <2>2, <3>2, MarkIs DEF CatalogInv, EntriesRight
      <4>2. <<e, 1>> # <<d, 1>>
        BY <3>2, HeldsAre
      <4>3. <<e, 1>> \in removed' <=> <<e, 1>> \in removed
        BY <1>6, <4>2, MarkIs
      <4> QED
        BY <1>6, <2>1, <4>1, <4>3, MarkIs DEF Marked
    <3> QED
      BY <3>1, <3>2
  <2> QED
    BY <1>6, <2>2, MarkIs DEF EntriesRight
<1>7. ASSUME NEW d \in Databases, ChangeMark(d) PROVE EntriesRight'
  BY <1>7, ListSame DEF ChangeMark, sourceVars, keptVars, listVars
<1>8. ASSUME NEW r \in Readers, Get(r) PROVE EntriesRight'
  BY <1>8, ListSame DEF Get, sourceVars, keptVars, listVars
<1>9. ASSUME NEW r \in Readers, LookAtFiles(r) PROVE EntriesRight'
  BY <1>9, ListSame DEF LookAtFiles, sourceVars, keptVars, listVars
<1>10. ASSUME NEW r \in Readers, OpenFiles(r) PROVE EntriesRight'
  BY <1>10, ListSame DEF OpenFiles, sourceVars, keptVars, listVars
<1>11. ASSUME NEW r \in Readers, TakeUp(r) PROVE EntriesRight'
  BY <1>11, ListSame DEF TakeUp, sourceVars, keptVars, listVars
<1>12. ASSUME NEW r \in Readers, Submitted(r) PROVE EntriesRight'
  BY <1>12, ListSame DEF Submitted, sourceVars, keptVars, listVars
<1>13. ASSUME NEW r \in Readers, Refused(r) PROVE EntriesRight'
  BY <1>13, ListSame DEF Refused, sourceVars, keptVars, listVars
<1>14. CASE Fetch
  BY <1>14, ListSame DEF Fetch, sourceVars, keptVars, listVars
<1>15. CASE FetchEnds
  BY <1>15, ListSame DEF FetchEnds, sourceVars, keptVars, listVars
<1>16. CASE DownloadDone
  BY <1>16, ListSame DEF DownloadDone, sourceVars, keptVars, listVars
<1>17. CASE UNCHANGED catalogVars
  BY <1>17, ListSame DEF catalogVars
<1> QED
  BY <1>1, <1>2, <1>3, <1>4, <1>5, <1>6, <1>7, <1>8, <1>9, <1>10, <1>11, <1>12,
     <1>13, <1>14, <1>15, <1>16, <1>17
  DEF CatalogNext

-----------------------------------------------------------------------------
(* The invariant holds from the start and in every step.                   *)
LEMMA CatalogInitially == CatalogInit => CatalogInv
<1> SUFFICES ASSUME CatalogInit PROVE CatalogInv
  OBVIOUS
<1>1. SourcesTypeOK /\ KeptTypeOK
  BY CatalogBoundsAssumption DEF CatalogInit, SourcesTypeOK, KeptTypeOK, Keeps
<1>2. RefreshTypeOK
  BY DEF CatalogInit, RefreshTypeOK, Refreshes
<1>3. Listed = ListedBy(window.lists, folder.lists)
  BY DEF CatalogInit, Listed
<1>4. \A d \in Databases : Listed[d] \in Names \union {Absent}
  BY <1>3, <1>1, ListedByIs DEF SourcesTypeOK
<1>5. \A d \in Databases :
        /\ entries[d] \in Listable \union {Absent}
        /\ Listed[d] = Absent => entries[d] = Absent
        /\ Listed[d] # Absent => /\ entries[d] # Absent /\ entries[d].name = Listed[d]
                                 /\ entries[d].held = <<d, 1>>
  <2> TAKE d \in Databases
  <2>1. entries[d] = Merged(d, Absent, Listed[d])
    BY <1>3 DEF CatalogInit
  <2> DEFINE old == Absent
             name == Listed[d]
  <2>2. old \in Listable \union {Absent} /\ name \in Names \union {Absent} /\ (old # Absent => old.held = <<d, 1>>)
    BY <1>4
  <2>3. /\ Merged(d, old, name) \in Listable \union {Absent}
        /\ name = Absent => Merged(d, old, name) = old
        /\ name # Absent => /\ Merged(d, old, name) # Absent
                            /\ Merged(d, old, name).name = name
                            /\ Merged(d, old, name).held = <<d, 1>>
    <3> HIDE DEF name
    <3> QED
      BY <2>2, MergedIs
  <2> QED
    BY <2>1, <2>3
<1>6. EntriesTypeOK /\ EntriesOfFirsts
  BY <1>5 DEF CatalogInit, EntriesTypeOK, EntriesOfFirsts
<1>7. ReadersTypeOK /\ ReadersOfFirsts
  BY DEF CatalogInit, ReadersTypeOK, Reads, ReadersOfFirsts
<1>8. DownloadsTypeOK
  BY EmptySeq DEF CatalogInit, DownloadsTypeOK, Fetches
<1>9. DownloadsInv
  BY EmptySeq DEF CatalogInit, DownloadsInv, RunningSomewhere, PlacesRunning, PlacesApart, Submits
<1>10. KeptRight /\ SeenRight /\ QuietRight
  BY <1>1 DEF CatalogInit, KeptRight, KeptOf, SeenRight, QuietRight
<1>11. EntriesRight
  <2>1. \A d \in Databases : Shown(d)
    BY <1>5 DEF CatalogInit, Shown
  <2> QED
    BY <2>1 DEF CatalogInit, EntriesRight
<1> QED
  BY <1>1, <1>2, <1>6, <1>7, <1>8, <1>9, <1>10, <1>11 DEF CatalogInv

LEMMA CatalogStepKeeps == CatalogInv /\ [CatalogNext]_catalogVars => CatalogInv'
<1> SUFFICES ASSUME CatalogInv, CatalogNext \/ UNCHANGED catalogVars PROVE CatalogInv'
  OBVIOUS
<1> QED
  BY SourcesStep, KeptStep, RefreshStep, EntriesStep, ReadersStep, DownloadsStep, DownloadsInvStep,
     ReadsStep, EntriesRightStep DEF CatalogInv

(* The inductive invariant of the catalog holds in every behaviour.        *)
THEOREM CatalogInvariant == CatalogSpec => []CatalogInv
<1>1. CatalogInit => CatalogInv
  BY CatalogInitially
<1>2. CatalogInv /\ [CatalogNext]_catalogVars => CatalogInv'
  BY CatalogStepKeeps
<1> QED
  BY <1>1, <1>2, PTL DEF CatalogSpec

(* The types are parts of the invariant.                                   *)
LEMMA CatalogTyped == CatalogInv => CatalogTypeOK
BY DEF CatalogInv, SourcesTypeOK, KeptTypeOK, Keeps, RefreshTypeOK, Refreshes, EntriesTypeOK,
       ReadersTypeOK, Reads, DownloadsTypeOK, Fetches, CatalogTypeOK

(* The state keeps its types (catalog.rs 97-163, sources.rs 290-330).      *)
THEOREM CatalogTypeCorrect == CatalogSpec => []CatalogTypeOK
BY CatalogTyped, CatalogInvariant, PTL

(* How many downloads of a database there are: those in the queue, one     *)
(* running and those with a request, of which there is one in all while    *)
(* the database is said to be downloading.                                 *)
LEMMA OneOf ==
    ASSUME NEW S, \A x, y \in S : x = y
    PROVE  Cardinality(S) = IF S = {} THEN 0 ELSE 1
<1>1. CASE S = {}
  BY <1>1, FS_EmptySet
<1>2. CASE S # {}
  <2>1. PICK x : S = {x}
    BY <1>2
  <2> QED
    BY <1>2, <2>1, FS_Singleton
<1> QED
  BY <1>1, <1>2

(* A database is said to be downloading while just one download of it is   *)
(* taken up, waits or runs (catalog.rs 146-163, 387-391): for every number *)
(* of databases, requests, renames and removals.                           *)
THEOREM AlwaysOneDownload == CatalogSpec => []OneDownload
<1>1. ASSUME CatalogInv
      PROVE  OneDownload
  <2>1. ASSUME NEW h \in Helds
        PROVE  DownloadsOf(h) = IF h \in running THEN 1 ELSE 0
    <3> DEFINE Q == {i \in DOMAIN downloads : downloads[i] = h}
               R == {r \in Readers : reader[r].step = "submit" /\ reader[r].held = h}
    <3>1. DOMAIN downloads = 1..Len(downloads)
      BY <1>1, LenProperties DEF CatalogInv, DownloadsTypeOK
    <3>2. (\A i, k \in Q : i = k) /\ (\A r, s \in R : r = s)
      BY <1>1, <3>1 DEF CatalogInv, DownloadsInv, PlacesApart, Submits
    <3>3. Cardinality(Q) = (IF Q = {} THEN 0 ELSE 1) /\ Cardinality(R) = (IF R = {} THEN 0 ELSE 1)
      BY <3>2, OneOf
    <3>4. /\ Q # {} => fetching.held # h /\ R = {}
          /\ R # {} => fetching.held # h /\ Q = {}
      BY <1>1, <3>1 DEF CatalogInv, DownloadsInv, PlacesApart, Submits
    <3>5. h \in running <=> (fetching.held = h \/ Q # {} \/ R # {})
      <4>1. h \in running => (fetching.held = h \/ Q # {} \/ R # {})
        BY <1>1, <3>1 DEF CatalogInv, DownloadsInv, RunningSomewhere, Submits
      <4>2. Q # {} \/ R # {} => h \in running
        BY <1>1, <3>1 DEF CatalogInv, DownloadsInv, PlacesRunning, Submits
      <4>3. fetching.held = h => h \in running
        BY <1>1, HeldsAre DEF CatalogInv, DownloadsInv, PlacesRunning
      <4> QED
        BY <4>1, <4>2, <4>3
    <3>6. DownloadsOf(h) = (IF fetching.held = h THEN 1 ELSE 0) + Cardinality(Q) + Cardinality(R)
      BY DEF DownloadsOf
    <3> HIDE DEF Q, R
    <3> QED
      BY <3>3, <3>4, <3>5, <3>6
  <2>2. \A h, k \in running : h[1] = k[1] => h = k
    BY <1>1, HeldsAre DEF CatalogInv, ReadersOfFirsts
  <2> QED
    BY <2>1, <2>2 DEF OneDownload
<1> QED
  BY <1>1, CatalogInvariant, PTL

(* A refresh during which no source changed or failed shows what the       *)
(* sources list, each database once and under its name (sources.rs         *)
(* 354-363): whatever earlier refreshes failed at or read as it changed.   *)
THEOREM ListAlwaysShowsSources == CatalogSpec => ListShowsSources
<1> DEFINE Ended == refresh.step # "rest" /\ refresh'.step = "rest" /\ refresh'.quiet
           Shows(d) ==
              LET name == ListedBy(window.lists, folder.lists)[d] IN
              IF name = Absent THEN entries'[d] = Absent \/ entries'[d].held \in removed'
              ELSE /\ entries'[d] # Absent /\ entries'[d].name = name
                   /\ entries'[d].held \notin removed'
<1>1. ASSUME CatalogInv, CatalogInv', CatalogNext, Ended
      PROVE  \A d \in Databases : Shows(d)
  <2>1. WalkFolder \/ Publish
    <3>1. ~(UNCHANGED refresh)
      BY <1>1
    <3>2. ~SignWindow /\ ~ReadWindow /\ ~ChangeSource /\ \A d \in Databases : ~Mark(d)
      BY <1>1, SignIs, ReadIs, ChangeIs, MarkIs
    <3> QED
      BY <1>1, <3>1, <3>2 DEF CatalogNext, ChangeMark, Get, LookAtFiles, OpenFiles, TakeUp, Submitted,
         Refused, Fetch, FetchEnds, DownloadDone, listVars
  <2>2. keptWindow'.lists = window.lists /\ keptFolder'.lists = folder.lists
    <3>1. CASE WalkFolder
      BY <1>1, <3>1, WalkIs DEF CatalogInv, QuietRight
    <3>2. CASE Publish
      BY <1>1, <3>2, PublishIs DEF CatalogInv, QuietRight, keptVars
    <3> QED
      BY <2>1, <3>1, <3>2
  <2>3. Listed' = ListedBy(window.lists, folder.lists)
    BY <2>2 DEF Listed
  <2>4. \A d \in Databases : Shown(d)'
    BY <1>1 DEF CatalogInv, EntriesRight, SeenRight
  <2> QED
    BY <2>3, <2>4 DEF Shown
<1>2. CatalogInv /\ CatalogInv' /\ [CatalogNext]_catalogVars
        => [Ended => \A d \in Databases : Shows(d)]_catalogVars
  BY <1>1
<1>3. CatalogSpec => [][CatalogNext]_catalogVars
  BY PTL DEF CatalogSpec
<1> QED
  BY <1>2, <1>3, CatalogInvariant, PTL DEF ListShowsSources
-----------------------------------------------------------------------------
(* IndexFolder.  The types, part by part.                                  *)
IndexWorks == [step : {"taken", "removing", "writing", "renaming", "moved", "placed", "opened"},
               gen : Gens, build : 0..MaxBuild, had : BOOLEAN]
MaskJobs == [step : {"creating", "writing", "placing", "reading", "unbuilt", "ended"},
             build : BuildIds, stop : BOOLEAN, result : {"none", "built", "failed", "again"}]
Building == [tag : {"Building"}, build : BuildIds, by : Threads, next : 0..MaxBuild]
Asked == [held : Loads \union {None}, answer : Answers, masks : 0..MaxBuild]
Swept == [step : {"found", "looked"}, file : Files, kind : {"index", "work"}]

DiskTypeOK ==
    /\ gen \in Gens /\ listed \in BOOLEAN
    /\ idx \in Heads \union {None} /\ moves \in Heads \union {None} /\ masks \in 0..MaxBuild
    /\ parts \subseteq {"idx", "moves"} /\ masksPart \in Threads \union {None, "left"}
    /\ lastBuild \in 0..MaxBuild
HeldTypeOK == index \in Loads \union {None, Working} /\ buildLine \in Seq(Gens)
WorkTypeOK == work \in {Rest} \union IndexWorks
MineTypeOK == slot \in Slots /\ mask \in [Threads -> {Rest} \union MaskJobs]
AskTypeOK  == asking \in [Clients -> Asked]
SweepTypeOK == sweeping \in {Rest} \union Swept
TroubleTypeOK == mishaps \in 0..MaxTrouble

(* The inductive invariant: a build that reached its renames has an id; a  *)
(* slot that builds has its thread, which is the only one; and the masks a *)
(* slot has are of the build it has them for.                              *)
WorkHasBuild == work.step \in {"renaming", "moved", "placed", "opened"} => work.build \in BuildIds
SlotOfItsBuild == slot # None /\ slot.tag = "Ready" => slot.masks = slot.build
ThreadsOfSlot ==
    \A t \in Threads : mask[t] # Rest => SlotBuilds /\ slot.by = t /\ mask[t].build = slot.build

MineInv == MineTypeOK /\ SlotOfItsBuild /\ ThreadsOfSlot /\ BuildingHasThread
FolderInv ==
    /\ DiskTypeOK /\ HeldTypeOK /\ WorkTypeOK /\ AskTypeOK /\ SweepTypeOK /\ TroubleTypeOK
    /\ WorkHasBuild /\ MineInv /\ FilesOfOneBuild
-----------------------------------------------------------------------------
(* What is at rest is not at work, and nothing is none of the records.     *)
LEMMA Apart ==
    /\ Rest.step = "rest" /\ Rest \notin IndexWorks /\ Rest \notin MaskJobs /\ Rest \notin Swept
    /\ Working \notin Loads
    /\ 1 \in Gens /\ Building \subseteq FilledSlots /\ BuildIds \subseteq 0..MaxBuild /\ 0 \in 0..MaxBuild
    /\ \A b \in BuildIds : b # 0
    /\ \A b \in 0..MaxBuild : b # 0 => b \in BuildIds
BY FolderBoundsAssumption
DEF Rest, IndexWorks, MaskJobs, Swept, Working, Loads, Gens, BuildIds, Building, FilledSlots

LEMMA MishapIs ==
    ASSUME TroubleTypeOK, Mishap \/ UNCHANGED mishaps
    PROVE  TroubleTypeOK'
BY FolderBoundsAssumption DEF TroubleTypeOK, Mishap

(* The work of the index thread, as it goes on.                            *)
LEMMA WorkGoes ==
    ASSUME WorkTypeOK, WorkHasBuild, work # Rest, NEW step \in {"writing", "moved", "placed", "opened"},
           step = "writing" \/ work.step \in {"renaming", "moved", "placed", "opened"},
           GoWork(step)
    PROVE  WorkTypeOK' /\ WorkHasBuild' /\ work' # Rest /\ work'.step = step /\ work'.build = work.build
<1>1. work \in IndexWorks /\ work' = [work EXCEPT !.step = step]
  BY DEF WorkTypeOK, GoWork
<1>2. work' \in IndexWorks /\ work'.step = step /\ work'.build = work.build
  BY <1>1 DEF IndexWorks
<1> QED
  BY <1>2, Apart DEF WorkTypeOK, WorkHasBuild

LEMMA WorkGiven ==
    ASSUME WorkTypeOK, NEW step \in {"removing", "renaming", "opened"}, NEW b \in 0..MaxBuild, NEW had \in BOOLEAN,
           work # Rest, b \in BuildIds \/ step = "removing",
           \/ work' = [work EXCEPT !.step = step, !.build = b, !.had = had]
           \/ work' = [work EXCEPT !.step = step, !.build = b]
           \/ work' = [work EXCEPT !.step = step, !.had = had] /\ step = "removing"
    PROVE  WorkTypeOK' /\ WorkHasBuild'
<1>1. work \in IndexWorks
  BY DEF WorkTypeOK
<1>2. work' \in IndexWorks /\ work'.step = step /\ (step # "removing" => work'.build = b)
  BY <1>1 DEF IndexWorks
<1> QED
  BY <1>2 DEF WorkTypeOK, WorkHasBuild

(* The slot and the thread that builds for it.                             *)
LEMMA SlotIs ==
    ASSUME MineTypeOK, SlotBuilds
    PROVE  slot \in Building /\ slot.by \in Threads
BY DEF MineTypeOK, SlotBuilds, Slots, FilledSlots, Building

LEMMA StopIs ==
    ASSUME MineInv, SlotBuilds, Stopped, NEW n \in 0..MaxBuild, slot' = [slot EXCEPT !.next = n]
    PROVE  MineInv' /\ slot' # None
<1>1. slot \in Building /\ slot.by \in Threads
  BY SlotIs DEF MineInv
<1>2. /\ slot' \in Building /\ slot'.by = slot.by /\ slot'.build = slot.build
      /\ slot'.tag = "Building"
  BY <1>1 DEF Building
<1>3. slot' \in FilledSlots /\ slot' # None
  BY <1>2, Apart, NoneAssumption
<1>4. mask[slot.by] \in MaskJobs /\ mask[slot.by].build = slot.build
  BY <1>1 DEF MineInv, MineTypeOK, BuildingHasThread
<1> DEFINE r == [mask[slot.by] EXCEPT !.stop = TRUE]
<1>5. r \in MaskJobs /\ r.build = slot.build
  BY <1>4 DEF MaskJobs
<1>6. mask' = [mask EXCEPT ![slot.by] = r]
  BY <1>1 DEF Stopped, MineInv, MineTypeOK
<1> HIDE DEF r
<1>7. /\ mask' \in [Threads -> {Rest} \union MaskJobs] /\ mask'[slot.by] = r
      /\ \A t \in Threads : t # slot.by => mask'[t] = mask[t]
  BY <1>1, <1>5, <1>6 DEF MineInv, MineTypeOK
<1>8. \A t \in Threads : mask'[t] # Rest => t = slot.by
  BY <1>7 DEF MineInv, ThreadsOfSlot
<1> QED
  BY <1>1, <1>2, <1>3, <1>5, <1>7, <1>8, Apart
  DEF MineInv, MineTypeOK, SlotOfItsBuild, ThreadsOfSlot, BuildingHasThread, SlotBuilds, Slots

(* A slot that is given masks, or their failure, while no thread builds.   *)
LEMMA FilledIs ==
    ASSUME NEW b \in BuildIds, NEW again \in BOOLEAN
    PROVE  /\ [tag |-> "Ready", build |-> b, masks |-> b] \in FilledSlots
           /\ [tag |-> "Failed", build |-> b, again |-> again] \in FilledSlots
           /\ \A t \in Threads : [tag |-> "Building", build |-> b, by |-> t, next |-> 0] \in FilledSlots
           /\ [step |-> "creating", build |-> b, stop |-> FALSE, result |-> "none"] \in MaskJobs
BY Apart DEF FilledSlots, MaskJobs

(* A thread that begins is the slot's; the thread before it, if there was  *)
(* one, is at rest.                                                        *)
MasksAtRest == \A t \in Threads : mask[t] = Rest
BeginsWith(t, b) ==
    /\ slot' = [tag |-> "Building", build |-> b, by |-> t, next |-> 0]
    /\ mask'[t] = [step |-> "creating", build |-> b, stop |-> FALSE, result |-> "none"]
    /\ \A u \in Threads : u # t => mask'[u] = Rest

LEMMA BeginsIs ==
    ASSUME NEW t \in Threads, NEW b \in BuildIds, BeginsWith(t, b), DOMAIN mask' = Threads,
           mask' \in [Threads -> {Rest} \union MaskJobs]
    PROVE  MineInv' /\ slot' # None
<1>1. b \in 0..MaxBuild
  BY Apart
<1>2. slot' \in FilledSlots /\ slot'.tag = "Building" /\ slot'.by = t /\ slot'.build = b
  BY <1>1, Apart DEF BeginsWith, FilledSlots
<1>3. mask'[t] \in MaskJobs /\ mask'[t].build = b
  BY <1>1 DEF BeginsWith, MaskJobs
<1> QED
  BY <1>2, <1>3, Apart, NoneAssumption
  DEF MineInv, MineTypeOK, SlotOfItsBuild, ThreadsOfSlot, BuildingHasThread, SlotBuilds, Slots, BeginsWith

Fills(b) ==
    \/ slot' = None
    \/ slot' = [tag |-> "Ready", build |-> b, masks |-> b]
    \/ \E again \in BOOLEAN : slot' = [tag |-> "Failed", build |-> b, again |-> again]

LEMMA FillsIs ==
    ASSUME NEW b \in BuildIds, Fills(b), mask' \in [Threads -> {Rest} \union MaskJobs],
           \A t \in Threads : mask'[t] = Rest
    PROVE  MineInv'
<1>1. b \in 0..MaxBuild
  BY Apart
<1>2. slot' = None \/ (slot' \in FilledSlots /\ slot'.tag \in {"Ready", "Failed"}
                       /\ (slot'.tag = "Ready" => slot'.masks = slot'.build))
  BY <1>1 DEF Fills, FilledSlots
<1> QED
  BY <1>2 DEF MineInv, MineTypeOK, SlotOfItsBuild, ThreadsOfSlot, BuildingHasThread, SlotBuilds, Slots

LEMMA StartMasksIs ==
    ASSUME MineInv, ~SlotBuilds, NEW b \in BuildIds, StartMasks(b)
    PROVE  MineInv' /\ slot' # None
<1>1. \A t \in Threads : mask[t] = Rest
  BY DEF MineInv, ThreadsOfSlot
<1>2. ASSUME NEW t \in Threads,
             mask' = [mask EXCEPT ![t] = [step |-> "creating", build |-> b, stop |-> FALSE, result |-> "none"]],
             slot' = [tag |-> "Building", build |-> b, by |-> t, next |-> 0]
      PROVE  MineInv' /\ slot' # None
  <2> DEFINE r == [step |-> "creating", build |-> b, stop |-> FALSE, result |-> "none"]
  <2>1. r \in MaskJobs
    BY Apart, FilledIs
  <2>2. mask' = [mask EXCEPT ![t] = r]
    BY <1>2
  <2> HIDE DEF r
  <2>3. mask' \in [Threads -> {Rest} \union MaskJobs] /\ mask'[t] = r /\ (\A u \in Threads : u # t => mask'[u] = Rest)
    BY <1>1, <2>1, <2>2 DEF MineInv, MineTypeOK
  <2> QED
    BY <1>2, <2>3, BeginsIs DEF BeginsWith, r
<1>3. CASE slot' = [tag |-> "Failed", build |-> b, again |-> TRUE] /\ UNCHANGED mask
  <2>1. Fills(b)
    BY <1>3 DEF Fills
  <2>2. slot' \in FilledSlots
    BY <1>3, Apart, FilledIs
  <2> QED
    BY <1>1, <1>3, <2>1, <2>2, FillsIs, NoneAssumption DEF MineInv, MineTypeOK
<1> QED
  BY <1>2, <1>3 DEF StartMasks

LEMMA SameMine ==
    ASSUME MineInv, UNCHANGED <<slot, mask>>
    PROVE  MineInv'
BY DEF MineInv, MineTypeOK, SlotOfItsBuild, ThreadsOfSlot, BuildingHasThread, SlotBuilds

LEMMA LookupBuildingIs ==
    ASSUME MineInv, NEW b \in BuildIds, LookupBuilding(b)
    PROVE  MineInv'
<1>1. CASE UNCHANGED <<slot, mask>>
  BY <1>1, SameMine
<1>2. CASE Stopped /\ slot' = [slot EXCEPT !.next = b]
  BY <1>2, StopIs, Apart DEF LookupBuilding
<1> QED
  BY <1>1, <1>2 DEF LookupBuilding

LEMMA LookupDiskIs ==
    ASSUME MineInv, NEW b \in BuildIds, LookupDisk(b)
    PROVE  MineInv' /\ slot' # None /\ slot'.masks = b
<1>1. \A t \in Threads : mask[t] = Rest
  BY DEF MineInv, ThreadsOfSlot, LookupDisk, Anew
<1>2. slot' = [tag |-> "Ready", build |-> b, masks |-> b] /\ UNCHANGED mask
  BY DEF LookupDisk
<1>3. slot' \in FilledSlots /\ slot'.masks = b
  BY <1>2, Apart, FilledIs
<1> QED
  BY <1>1, <1>2, <1>3, FillsIs, NoneAssumption DEF Fills, MineInv, MineTypeOK

LEMMA LookupStartsIs ==
    ASSUME MineInv, NEW b \in BuildIds, LookupStarts(b)
    PROVE  MineInv' /\ slot' # None
BY StartMasksIs DEF LookupStarts, Anew

LEMMA LookupIs ==
    ASSUME MineInv, NEW b \in BuildIds, Lookup(b)
    PROVE  MineInv'
BY LookupBuildingIs, LookupDiskIs, LookupStartsIs, SameMine DEF Lookup, LookupHeld, LookupFailed

LEMMA ForgetMasksIs ==
    ASSUME MineInv, ForgetMasks
    PROVE  MineInv'
<1>1. CASE SlotBuilds
  BY <1>1, StopIs, Apart DEF ForgetMasks
<1>2. CASE ~SlotBuilds
  <2>1. slot' = None /\ UNCHANGED mask /\ (\A t \in Threads : mask[t] = Rest)
    BY <1>2 DEF ForgetMasks, MineInv, ThreadsOfSlot
  <2> QED
    BY <2>1 DEF MineInv, MineTypeOK, SlotOfItsBuild, ThreadsOfSlot, BuildingHasThread, SlotBuilds, Slots
<1> QED
  BY <1>1, <1>2

(* A thread that goes on is the slot's as before.                          *)
LEMMA GoMaskIs ==
    ASSUME MineInv, NEW t \in Threads, mask[t] # Rest, UNCHANGED slot,
           NEW step \in {"writing", "placing", "reading", "unbuilt", "ended"},
           NEW result \in {"none", "built", "failed", "again"}, GoMask(t, step, result)
    PROVE  MineInv'
<1> DEFINE r == [mask[t] EXCEPT !.step = step, !.result = result]
<1>1. mask[t] \in MaskJobs
  BY DEF MineInv, MineTypeOK
<1>2. r \in MaskJobs /\ r.build = mask[t].build
  BY <1>1 DEF MaskJobs
<1>3. mask' = [mask EXCEPT ![t] = r]
  BY <1>1 DEF GoMask, MineInv, MineTypeOK, MaskJobs
<1> HIDE DEF r
<1>4. /\ mask' \in [Threads -> {Rest} \union MaskJobs] /\ mask'[t] = r
      /\ \A u \in Threads : u # t => mask'[u] = mask[u]
  BY <1>2, <1>3 DEF MineInv, MineTypeOK
<1> QED
  BY <1>1, <1>2, <1>4, Apart
  DEF MineInv, MineTypeOK, SlotOfItsBuild, ThreadsOfSlot, BuildingHasThread, SlotBuilds

LEMMA EndMasksIs ==
    ASSUME MineInv, NEW t \in Threads, EndMasks(t)
    PROVE  MineInv'
<1> DEFINE b == mask[t].build
<1>1. mask[t] # Rest
  BY Apart DEF EndMasks
<1>2. /\ SlotBuilds /\ slot.by = t /\ slot.build = b /\ slot \in Building /\ mask[t] \in MaskJobs
      /\ \A u \in Threads : u # t => mask[u] = Rest
  BY <1>1, SlotIs DEF MineInv, MineTypeOK, ThreadsOfSlot
<1>3. b \in BuildIds /\ slot.next \in 0..MaxBuild /\ slot # None
  BY <1>2 DEF Building, MaskJobs, SlotBuilds
<1>4. ASSUME mask' = [mask EXCEPT ![t] = Rest]
      PROVE  mask' \in [Threads -> {Rest} \union MaskJobs] /\ (\A u \in Threads : mask'[u] = Rest)
  BY <1>2, <1>4 DEF MineInv, MineTypeOK
<1>5. CASE slot.next # 0
  <2>1. slot.next \in BuildIds
    BY <1>3, <1>5, Apart
  <2>2. ASSUME NEW u \in Threads \ {t},
               slot' = [tag |-> "Building", build |-> slot.next, by |-> u, next |-> 0],
               mask' = [mask EXCEPT ![t] = Rest,
                                    ![u] = [step |-> "creating", build |-> slot.next,
                                            stop |-> FALSE, result |-> "none"]]
        PROVE  MineInv'
    <3> DEFINE r == [step |-> "creating", build |-> slot.next, stop |-> FALSE, result |-> "none"]
    <3>1. r \in MaskJobs
      BY <1>3, <2>1, FilledIs
    <3>2. mask' = [mask EXCEPT ![t] = Rest, ![u] = r]
      BY <2>2
    <3> HIDE DEF r
    <3>3. mask' \in [Threads -> {Rest} \union MaskJobs] /\ mask'[u] = r /\ (\A v \in Threads : v # u => mask'[v] = Rest)
      BY ZenonT(60), <1>2, <2>2, <3>1, <3>2 DEF MineInv, MineTypeOK
    <3> QED
      BY <2>1, <2>2, <3>3, BeginsIs DEF BeginsWith, r
  <2>3. CASE slot' = [tag |-> "Failed", build |-> slot.next, again |-> TRUE] /\ mask' = [mask EXCEPT ![t] = Rest]
    <3>1. Fills(slot.next)
      BY <2>3 DEF Fills
    <3> QED
      BY <1>4, <2>1, <2>3, <3>1, FillsIs
  <2> QED
    BY <1>2, <1>3, <1>5, <2>2, <2>3 DEF EndMasks
<1>6. CASE slot.next = 0
  <2>1. mask' = [mask EXCEPT ![t] = Rest]
    BY <1>2, <1>3, <1>6 DEF EndMasks
  <2>2. Fills(b)
    <3>1. slot' = IF mask[t].result = "built" THEN [tag |-> "Ready", build |-> b, masks |-> b]
                  ELSE [tag |-> "Failed", build |-> b, again |-> mask[t].result = "again"]
      BY <1>2, <1>3, <1>6 DEF EndMasks
    <3>2. (mask[t].result = "again") \in BOOLEAN
      OBVIOUS
    <3> QED
      BY <3>1, <3>2 DEF Fills
  <2> QED
    BY <1>3, <1>4, <2>1, <2>2, FillsIs
<1> QED
  BY <1>5, <1>6

(* What a request is answered.                                             *)
LEMMA AnswerIs ==
    ASSUME AskTypeOK, FilesOfOneBuild, NEW c \in Clients, NEW l \in Loads \union {None}, NEW answer \in Answers \ {"ready"},
           l # None => l.build = l.stream, index' \in Loads => index'.build = index'.stream,
           asking' = [asking EXCEPT ![c] = [held |-> l, answer |-> answer, masks |-> 0]]
    PROVE  AskTypeOK' /\ FilesOfOneBuild'
<1> DEFINE r == [held |-> l, answer |-> answer, masks |-> 0]
<1>1. r \in Asked /\ r.held = l /\ r.answer # "ready"
  BY Apart DEF Asked
<1> HIDE DEF r
<1>2. asking' = [asking EXCEPT ![c] = r]
  BY DEF r
<1> QED
  BY <1>1, <1>2 DEF AskTypeOK, FilesOfOneBuild

LEMMA OtherAnswer ==
    ASSUME AskTypeOK, FilesOfOneBuild, NEW c \in Clients, NEW answer \in Answers \ {"ready"},
           UNCHANGED index, asking' = [asking EXCEPT ![c].answer = answer]
    PROVE  AskTypeOK' /\ FilesOfOneBuild'
<1> DEFINE r == [asking[c] EXCEPT !.answer = answer]
<1>1. asking[c] \in Asked
  BY DEF AskTypeOK
<1>2. r \in Asked /\ r.held = asking[c].held /\ r.answer # "ready"
  BY <1>1 DEF Asked
<1>3. asking' = [asking EXCEPT ![c] = r]
  BY DEF AskTypeOK
<1> HIDE DEF r
<1> QED
  BY <1>2, <1>3 DEF AskTypeOK, FilesOfOneBuild

LEMMA ReadyIs ==
    ASSUME AskTypeOK, FilesOfOneBuild, NEW c \in Clients, NEW b \in 0..MaxBuild, b = asking[c].held.stream,
           UNCHANGED index, asking' = [asking EXCEPT ![c].answer = "ready", ![c].masks = b]
    PROVE  AskTypeOK' /\ FilesOfOneBuild'
<1> DEFINE r == [asking[c] EXCEPT !.answer = "ready", !.masks = b]
<1>1. asking[c] \in Asked
  BY DEF AskTypeOK
<1>2. r \in Asked /\ r.held = asking[c].held /\ r.masks = r.held.stream
  BY <1>1 DEF Asked, Answers
<1>3. asking' = [asking EXCEPT ![c] = r]
  BY <1>1 DEF AskTypeOK, Asked
<1> HIDE DEF r
<1>4. asking' \in [Clients -> Asked] /\ asking'[c] = r /\ (\A d \in Clients : d # c => asking'[d] = asking[d])
  BY <1>2, <1>3 DEF AskTypeOK
<1>5. ASSUME NEW d \in Clients
      PROVE  /\ asking'[d].held # None => asking'[d].held.build = asking'[d].held.stream
             /\ asking'[d].answer = "ready" => asking'[d].masks = asking'[d].held.stream
  BY <1>2, <1>4 DEF FilesOfOneBuild
<1> QED
  BY <1>4, <1>5 DEF AskTypeOK, FilesOfOneBuild

(* Masks that are not there are told to be pending or to have failed.      *)
LEMMA AskMasksSays ==
    ASSUME NEW c \in Clients, AskMasks(c)
    PROVE  \/ /\ LookupHeld(asking[c].held.stream) \/ LookupDisk(asking[c].held.stream)
              /\ asking' = [asking EXCEPT ![c].answer = "ready", ![c].masks = slot'.masks]
           \/ \E answer \in Answers \ {"ready"} : asking' = [asking EXCEPT ![c].answer = answer]
<1>1. "pending" \in Answers \ {"ready"} /\ "failed" \in Answers \ {"ready"}
  BY DEF Answers
<1> QED
  BY <1>1 DEF AskMasks

(* Every step keeps the types of what is on the disk.                      *)
LEMMA DiskStep ==
    ASSUME FolderInv, FolderNext \/ UNCHANGED folderVars
    PROVE  DiskTypeOK'
<1>1. ASSUME NEW c \in Clients, AskHeld(c) PROVE DiskTypeOK'
  BY <1>1, Apart
  DEF AskHeld, Asks, StateFree, files, mine, FolderInv, DiskTypeOK
<1>2. ASSUME NEW c \in Clients, AskWorking(c) PROVE DiskTypeOK'
  BY <1>2, Apart
  DEF AskWorking, Asks, StateFree, files, mine, FolderInv, DiskTypeOK
<1>3. ASSUME NEW c \in Clients, AskDisk(c) PROVE DiskTypeOK'
  BY <1>3, Apart
  DEF AskDisk, Asks, Unheld, Match, Opened, files, mine, StateFree, FolderInv,
      DiskTypeOK
<1>4. ASSUME NEW c \in Clients, AskBuild(c) PROVE DiskTypeOK'
  BY <1>4, Apart
  DEF AskBuild, Asks, Unheld, Match, files, mine, StateFree, FolderInv,
      DiskTypeOK
<1>5. ASSUME NEW c \in Clients, AskMasks(c) PROVE DiskTypeOK'
  BY <1>5, Apart DEF AskMasks, Asks, files, mine, FolderInv, DiskTypeOK
<1>6. ASSUME NEW c \in Clients, Leave(c) PROVE DiskTypeOK'
  BY <1>6, Apart DEF Leave, Asks, files, mine, FolderInv, DiskTypeOK
<1>7. ASSUME NEW c \in Clients, FindDamaged(c) PROVE DiskTypeOK'
  BY <1>7, Apart DEF FindDamaged, files, mine, FolderInv, DiskTypeOK
<1>8. ASSUME NEW c \in Clients, ForgetIndex(c) PROVE DiskTypeOK'
  BY <1>8, Apart DEF ForgetIndex, StateFree, mine, FolderInv, DiskTypeOK
<1>9. CASE TakeWork
  BY <1>9, Apart DEF TakeWork, files, mine, FolderInv, DiskTypeOK
<1>10. CASE DropWork
  BY <1>10, Apart DEF DropWork, StateFree, files, mine, FolderInv, DiskTypeOK
<1>11. CASE BeginWork
  BY <1>11, Apart DEF BeginWork, Match, files, mine, FolderInv, DiskTypeOK
<1>12. CASE RemoveFormer
  BY <1>12, Apart DEF RemoveFormer, GoWork, mine, FolderInv, DiskTypeOK
<1>13. CASE WriteParts
  BY <1>13, Apart, FolderBoundsAssumption
  DEF WriteParts, mine, FolderInv, DiskTypeOK, WorkTypeOK, WorkHasBuild, IndexWorks,
      Heads, MineInv, MineTypeOK, MaskJobs, Gens, BuildIds
<1>14. CASE RenameMoves
  BY <1>14, Apart
  DEF RenameMoves, GoWork, mine, FolderInv, DiskTypeOK, WorkTypeOK,
      WorkHasBuild, IndexWorks, Heads, MineInv, MineTypeOK, MaskJobs
<1>15. CASE RenameIndex
  BY <1>15, Apart
  DEF RenameIndex, GoWork, mine, FolderInv, DiskTypeOK, WorkTypeOK,
      WorkHasBuild, IndexWorks, Heads, MineInv, MineTypeOK, MaskJobs
<1>16. CASE FailWork
  BY <1>16, Apart DEF FailWork, Fails, StateFree, mine, FolderInv, DiskTypeOK
<1>17. CASE OpenBuilt
  BY <1>17, Apart DEF OpenBuilt, GoWork, files, mine, FolderInv, DiskTypeOK
<1>18. CASE LookAfterMasks
  BY <1>18, Apart DEF LookAfterMasks, files, mine, FolderInv, DiskTypeOK
<1>19. CASE EndWork
  BY <1>19, Apart DEF EndWork, StateFree, files, mine, FolderInv, DiskTypeOK
<1>20. CASE SweepFinds
  BY <1>20, Apart
  DEF SweepFinds, Placed, Parted, files, mine, FolderInv, DiskTypeOK
<1>21. CASE SweepLooks
  BY <1>21, Apart DEF SweepLooks, files, mine, FolderInv, DiskTypeOK
<1>22. CASE SweepIndex
  BY <1>22, Apart
  DEF SweepIndex, files, mine, RemoveFile, FolderInv, DiskTypeOK
<1>23. CASE SweepWork
  BY <1>23, Apart DEF SweepWork, mine, FolderInv, DiskTypeOK
<1>24. CASE ChangeFiles
  BY <1>24, Apart, FolderBoundsAssumption
  DEF ChangeFiles, files, mine, FolderInv, DiskTypeOK, WorkTypeOK,
      WorkHasBuild, IndexWorks, Heads, MineInv, MineTypeOK, MaskJobs, Gens, BuildIds
<1>25. CASE Relist
  BY <1>25, Apart DEF Relist, files, mine, FolderInv, DiskTypeOK
<1>26. CASE ProcessEnds
  BY <1>26, Apart DEF ProcessEnds, FolderInv, DiskTypeOK
<1>27. ASSUME NEW t \in Threads, CreateMasks(t) PROVE DiskTypeOK'
  BY <1>27, Apart DEF CreateMasks, GoMask, FolderInv, DiskTypeOK
<1>28. ASSUME NEW t \in Threads, WriteMasks(t) PROVE DiskTypeOK'
  BY <1>28, Apart DEF WriteMasks, GoMask, files, mine, FolderInv, DiskTypeOK
<1>29. ASSUME NEW t \in Threads, RemovePart(t) PROVE DiskTypeOK'
  BY <1>29, Apart DEF RemovePart, GoMask, FolderInv, DiskTypeOK
<1>30. ASSUME NEW t \in Threads, PlaceMasks(t) PROVE DiskTypeOK'
  BY <1>30, Apart
  DEF PlaceMasks, GoMask, FolderInv, DiskTypeOK, WorkTypeOK, WorkHasBuild,
      IndexWorks, Heads, MineInv, MineTypeOK, MaskJobs
<1>31. ASSUME NEW t \in Threads, ReadMasks(t) PROVE DiskTypeOK'
  BY <1>31, Apart DEF ReadMasks, GoMask, files, mine, FolderInv, DiskTypeOK
<1>32. ASSUME NEW t \in Threads, EndMasks(t) PROVE DiskTypeOK'
  BY <1>32, Apart DEF EndMasks, files, mine, FolderInv, DiskTypeOK
<1>33. CASE UNCHANGED folderVars
  BY <1>33, Apart DEF folderVars, FolderInv, DiskTypeOK
<1> QED
  BY <1>1, <1>2, <1>3, <1>4, <1>5, <1>6, <1>7, <1>8, <1>9, <1>10, <1>11, <1>12,
     <1>13, <1>14, <1>15, <1>16, <1>17, <1>18, <1>19, <1>20, <1>21, <1>22,
     <1>23, <1>24, <1>25, <1>26, <1>27, <1>28, <1>29, <1>30, <1>31, <1>32,
     <1>33
  DEF FolderNext, WorkStep, SweepStep, MaskStep

(* Every step keeps the types of what is held of the index.                *)
LEMMA HeldStep ==
    ASSUME FolderInv, FolderNext \/ UNCHANGED folderVars
    PROVE  HeldTypeOK'
<1>1. ASSUME NEW c \in Clients, AskHeld(c) PROVE HeldTypeOK'
  BY <1>1 DEF AskHeld, Asks, StateFree, files, mine, FolderInv, HeldTypeOK
<1>2. ASSUME NEW c \in Clients, AskWorking(c) PROVE HeldTypeOK'
  BY <1>2 DEF AskWorking, Asks, StateFree, files, mine, FolderInv, HeldTypeOK
<1>3. ASSUME NEW c \in Clients, AskDisk(c) PROVE HeldTypeOK'
  <2>1. idx \in Heads /\ moves \in Heads
    BY <1>3 DEF AskDisk, Match, FolderInv, DiskTypeOK
  <2> QED
    BY <1>3, <2>1 DEF AskDisk, Opened, FolderInv, HeldTypeOK, Heads, Loads
<1>4. ASSUME NEW c \in Clients, AskBuild(c) PROVE HeldTypeOK'
  BY <1>4, Apart
  DEF AskBuild, Asks, Unheld, Match, files, mine, StateFree, FolderInv,
      HeldTypeOK, DiskTypeOK, Heads, Loads
<1>5. ASSUME NEW c \in Clients, AskMasks(c) PROVE HeldTypeOK'
  BY <1>5 DEF AskMasks, Asks, files, mine, FolderInv, HeldTypeOK
<1>6. ASSUME NEW c \in Clients, Leave(c) PROVE HeldTypeOK'
  BY <1>6 DEF Leave, Asks, files, mine, FolderInv, HeldTypeOK
<1>7. ASSUME NEW c \in Clients, FindDamaged(c) PROVE HeldTypeOK'
  BY <1>7 DEF FindDamaged, files, mine, FolderInv, HeldTypeOK
<1>8. ASSUME NEW c \in Clients, ForgetIndex(c) PROVE HeldTypeOK'
  BY <1>8 DEF ForgetIndex, StateFree, mine, FolderInv, HeldTypeOK
<1>9. CASE TakeWork
  BY <1>9 DEF TakeWork, files, mine, FolderInv, HeldTypeOK
<1>10. CASE DropWork
  BY <1>10 DEF DropWork, StateFree, files, mine, FolderInv, HeldTypeOK
<1>11. CASE BeginWork
  BY <1>11 DEF BeginWork, Match, files, mine, FolderInv, HeldTypeOK
<1>12. CASE RemoveFormer
  BY <1>12 DEF RemoveFormer, GoWork, mine, FolderInv, HeldTypeOK
<1>13. CASE WriteParts
  BY <1>13 DEF WriteParts, mine, FolderInv, HeldTypeOK
<1>14. CASE RenameMoves
  BY <1>14 DEF RenameMoves, GoWork, mine, FolderInv, HeldTypeOK
<1>15. CASE RenameIndex
  BY <1>15 DEF RenameIndex, GoWork, mine, FolderInv, HeldTypeOK
<1>16. CASE FailWork
  BY <1>16 DEF FailWork, Fails, StateFree, mine, FolderInv, HeldTypeOK
<1>17. CASE OpenBuilt
  BY <1>17 DEF OpenBuilt, GoWork, files, mine, FolderInv, HeldTypeOK
<1>18. CASE LookAfterMasks
  BY <1>18 DEF LookAfterMasks, files, mine, FolderInv, HeldTypeOK
<1>19. CASE EndWork
  BY <1>19, Apart
  DEF EndWork, StateFree, files, mine, FolderInv, HeldTypeOK, DiskTypeOK,
      Heads, Loads, WorkTypeOK, WorkHasBuild, IndexWorks, Gens, BuildIds
<1>20. CASE SweepFinds
  BY <1>20 DEF SweepFinds, Placed, Parted, files, mine, FolderInv, HeldTypeOK
<1>21. CASE SweepLooks
  BY <1>21 DEF SweepLooks, files, mine, FolderInv, HeldTypeOK
<1>22. CASE SweepIndex
  BY <1>22 DEF SweepIndex, files, mine, RemoveFile, FolderInv, HeldTypeOK
<1>23. CASE SweepWork
  BY <1>23 DEF SweepWork, mine, FolderInv, HeldTypeOK
<1>24. CASE ChangeFiles
  BY <1>24 DEF ChangeFiles, files, mine, FolderInv, HeldTypeOK
<1>25. CASE Relist
  BY <1>25 DEF Relist, files, mine, FolderInv, HeldTypeOK
<1>26. CASE ProcessEnds
  BY <1>26 DEF ProcessEnds, FolderInv, HeldTypeOK
<1>27. ASSUME NEW t \in Threads, CreateMasks(t) PROVE HeldTypeOK'
  BY <1>27 DEF CreateMasks, GoMask, FolderInv, HeldTypeOK
<1>28. ASSUME NEW t \in Threads, WriteMasks(t) PROVE HeldTypeOK'
  BY <1>28 DEF WriteMasks, GoMask, files, mine, FolderInv, HeldTypeOK
<1>29. ASSUME NEW t \in Threads, RemovePart(t) PROVE HeldTypeOK'
  BY <1>29 DEF RemovePart, GoMask, FolderInv, HeldTypeOK
<1>30. ASSUME NEW t \in Threads, PlaceMasks(t) PROVE HeldTypeOK'
  BY <1>30 DEF PlaceMasks, GoMask, FolderInv, HeldTypeOK
<1>31. ASSUME NEW t \in Threads, ReadMasks(t) PROVE HeldTypeOK'
  BY <1>31 DEF ReadMasks, GoMask, files, mine, FolderInv, HeldTypeOK
<1>32. ASSUME NEW t \in Threads, EndMasks(t) PROVE HeldTypeOK'
  BY <1>32 DEF EndMasks, files, mine, FolderInv, HeldTypeOK
<1>33. CASE UNCHANGED folderVars
  BY <1>33 DEF folderVars, FolderInv, HeldTypeOK
<1> QED
  BY <1>1, <1>2, <1>3, <1>4, <1>5, <1>6, <1>7, <1>8, <1>9, <1>10, <1>11, <1>12,
     <1>13, <1>14, <1>15, <1>16, <1>17, <1>18, <1>19, <1>20, <1>21, <1>22,
     <1>23, <1>24, <1>25, <1>26, <1>27, <1>28, <1>29, <1>30, <1>31, <1>32,
     <1>33
  DEF FolderNext, WorkStep, SweepStep, MaskStep

(* Every step keeps the type of the index thread's build, and its id.      *)
LEMMA WorkStepKeeps ==
    ASSUME FolderInv, FolderNext \/ UNCHANGED folderVars
    PROVE  WorkTypeOK' /\ WorkHasBuild'
<1>1. ASSUME NEW c \in Clients, AskHeld(c) PROVE WorkTypeOK' /\ WorkHasBuild'
  BY <1>1, Apart
  DEF AskHeld, Asks, StateFree, files, mine, FolderInv, WorkTypeOK,
      WorkHasBuild
<1>2. ASSUME NEW c \in Clients, AskWorking(c) PROVE WorkTypeOK' /\ WorkHasBuild'
  BY <1>2, Apart
  DEF AskWorking, Asks, StateFree, files, mine, FolderInv, WorkTypeOK,
      WorkHasBuild
<1>3. ASSUME NEW c \in Clients, AskDisk(c) PROVE WorkTypeOK' /\ WorkHasBuild'
  BY <1>3, Apart
  DEF AskDisk, Asks, Unheld, Match, Opened, files, mine, StateFree, FolderInv,
      WorkTypeOK, WorkHasBuild
<1>4. ASSUME NEW c \in Clients, AskBuild(c) PROVE WorkTypeOK' /\ WorkHasBuild'
  BY <1>4, Apart
  DEF AskBuild, Asks, Unheld, Match, files, mine, StateFree, FolderInv,
      WorkTypeOK, WorkHasBuild
<1>5. ASSUME NEW c \in Clients, AskMasks(c) PROVE WorkTypeOK' /\ WorkHasBuild'
  BY <1>5, Apart
  DEF AskMasks, Asks, files, mine, FolderInv, WorkTypeOK, WorkHasBuild
<1>6. ASSUME NEW c \in Clients, Leave(c) PROVE WorkTypeOK' /\ WorkHasBuild'
  BY <1>6, Apart
  DEF Leave, Asks, files, mine, FolderInv, WorkTypeOK, WorkHasBuild
<1>7. ASSUME NEW c \in Clients, FindDamaged(c) PROVE WorkTypeOK' /\ WorkHasBuild'
  BY <1>7, Apart
  DEF FindDamaged, files, mine, FolderInv, WorkTypeOK, WorkHasBuild
<1>8. ASSUME NEW c \in Clients, ForgetIndex(c) PROVE WorkTypeOK' /\ WorkHasBuild'
  BY <1>8, Apart
  DEF ForgetIndex, StateFree, mine, FolderInv, WorkTypeOK, WorkHasBuild
<1>9. CASE TakeWork
  <2>1. Head(buildLine) \in Gens
    BY <1>9 DEF TakeWork, FolderInv, HeldTypeOK
  <2>2. work' \in IndexWorks /\ work'.step = "taken"
    BY <1>9, <2>1, Apart DEF TakeWork, IndexWorks
  <2> QED
    BY <2>2 DEF WorkTypeOK, WorkHasBuild
<1>10. CASE DropWork
  BY <1>10, Apart
  DEF DropWork, StateFree, files, mine, FolderInv, WorkTypeOK, WorkHasBuild
<1>11. CASE BeginWork
  <2> DEFINE had == slot # None \/ masks # 0
  <2>1. had \in BOOLEAN /\ work # Rest /\ WorkTypeOK
    BY <1>11, Apart DEF BeginWork, FolderInv
  <2>2. CASE Match(idx, moves, gen)
    <3>1. idx.build \in BuildIds
      BY <2>2 DEF Match, FolderInv, DiskTypeOK, Heads
    <3>2. work' = [work EXCEPT !.step = "opened", !.build = idx.build, !.had = had]
      BY <1>11, <2>2 DEF BeginWork
    <3> HIDE DEF had
    <3> QED
      BY <2>1, <3>1, <3>2, Apart, WorkGiven
  <2>3. CASE ~Match(idx, moves, gen)
    <3>1. work' = [work EXCEPT !.step = "removing", !.had = had]
      BY <1>11, <2>3 DEF BeginWork
    <3> HIDE DEF had
    <3> QED
      BY <2>1, <3>1, Apart, WorkGiven
  <2> QED
    BY <2>2, <2>3
<1>12. CASE RemoveFormer
  BY <1>12, Apart, WorkGoes
  DEF RemoveFormer, GoWork, mine, FolderInv, WorkTypeOK, WorkHasBuild
<1>13. CASE WriteParts
  <2> DEFINE b == lastBuild + 1
  <2>1. b \in BuildIds /\ work # Rest /\ WorkTypeOK
    BY <1>13, Apart, FolderBoundsAssumption DEF WriteParts, FolderInv, DiskTypeOK, BuildIds
  <2>2. work' = [work EXCEPT !.step = "renaming", !.build = b]
    BY <1>13 DEF WriteParts
  <2> HIDE DEF b
  <2> QED
    BY <2>1, <2>2, Apart, WorkGiven
<1>14. CASE RenameMoves
  BY <1>14, Apart, WorkGoes
  DEF RenameMoves, GoWork, mine, FolderInv, WorkTypeOK, WorkHasBuild
<1>15. CASE RenameIndex
  BY <1>15, Apart, WorkGoes
  DEF RenameIndex, GoWork, mine, FolderInv, WorkTypeOK, WorkHasBuild
<1>16. CASE FailWork
  BY <1>16, Apart
  DEF FailWork, Fails, StateFree, mine, FolderInv, WorkTypeOK, WorkHasBuild
<1>17. CASE OpenBuilt
  BY <1>17, Apart, WorkGoes
  DEF OpenBuilt, GoWork, files, mine, FolderInv, WorkTypeOK, WorkHasBuild
<1>18. CASE LookAfterMasks
  <2>1. work \in IndexWorks /\ work.step = "opened" /\ work.build \in BuildIds
    BY <1>18, Apart DEF LookAfterMasks, FolderInv, WorkTypeOK, WorkHasBuild
  <2>2. work' = [work EXCEPT !.had = FALSE]
    BY <1>18 DEF LookAfterMasks
  <2>3. work' \in IndexWorks /\ work'.build = work.build
    BY <2>1, <2>2 DEF IndexWorks
  <2> QED
    BY <2>1, <2>3 DEF WorkTypeOK, WorkHasBuild
<1>19. CASE EndWork
  BY <1>19, Apart
  DEF EndWork, StateFree, files, mine, FolderInv, WorkTypeOK, WorkHasBuild
<1>20. CASE SweepFinds
  BY <1>20, Apart
  DEF SweepFinds, Placed, Parted, files, mine, FolderInv, WorkTypeOK,
      WorkHasBuild
<1>21. CASE SweepLooks
  BY <1>21, Apart
  DEF SweepLooks, files, mine, FolderInv, WorkTypeOK, WorkHasBuild
<1>22. CASE SweepIndex
  BY <1>22, Apart
  DEF SweepIndex, files, mine, RemoveFile, FolderInv, WorkTypeOK, WorkHasBuild
<1>23. CASE SweepWork
  BY <1>23, Apart DEF SweepWork, mine, FolderInv, WorkTypeOK, WorkHasBuild
<1>24. CASE ChangeFiles
  BY <1>24, Apart
  DEF ChangeFiles, files, mine, FolderInv, WorkTypeOK, WorkHasBuild
<1>25. CASE Relist
  BY <1>25, Apart DEF Relist, files, mine, FolderInv, WorkTypeOK, WorkHasBuild
<1>26. CASE ProcessEnds
  BY <1>26, Apart DEF ProcessEnds, FolderInv, WorkTypeOK, WorkHasBuild
<1>27. ASSUME NEW t \in Threads, CreateMasks(t) PROVE WorkTypeOK' /\ WorkHasBuild'
  BY <1>27, Apart DEF CreateMasks, GoMask, FolderInv, WorkTypeOK, WorkHasBuild
<1>28. ASSUME NEW t \in Threads, WriteMasks(t) PROVE WorkTypeOK' /\ WorkHasBuild'
  BY <1>28, Apart
  DEF WriteMasks, GoMask, files, mine, FolderInv, WorkTypeOK, WorkHasBuild
<1>29. ASSUME NEW t \in Threads, RemovePart(t) PROVE WorkTypeOK' /\ WorkHasBuild'
  BY <1>29, Apart DEF RemovePart, GoMask, FolderInv, WorkTypeOK, WorkHasBuild
<1>30. ASSUME NEW t \in Threads, PlaceMasks(t) PROVE WorkTypeOK' /\ WorkHasBuild'
  BY <1>30, Apart DEF PlaceMasks, GoMask, FolderInv, WorkTypeOK, WorkHasBuild
<1>31. ASSUME NEW t \in Threads, ReadMasks(t) PROVE WorkTypeOK' /\ WorkHasBuild'
  BY <1>31, Apart
  DEF ReadMasks, GoMask, files, mine, FolderInv, WorkTypeOK, WorkHasBuild
<1>32. ASSUME NEW t \in Threads, EndMasks(t) PROVE WorkTypeOK' /\ WorkHasBuild'
  BY <1>32, Apart
  DEF EndMasks, files, mine, FolderInv, WorkTypeOK, WorkHasBuild
<1>33. CASE UNCHANGED folderVars
  BY <1>33, Apart DEF folderVars, FolderInv, WorkTypeOK, WorkHasBuild
<1> QED
  BY <1>1, <1>2, <1>3, <1>4, <1>5, <1>6, <1>7, <1>8, <1>9, <1>10, <1>11, <1>12,
     <1>13, <1>14, <1>15, <1>16, <1>17, <1>18, <1>19, <1>20, <1>21, <1>22,
     <1>23, <1>24, <1>25, <1>26, <1>27, <1>28, <1>29, <1>30, <1>31, <1>32,
     <1>33
  DEF FolderNext, WorkStep, SweepStep, MaskStep

(* Every step keeps the slot of the masks with its one thread.             *)
LEMMA MineStep ==
    ASSUME FolderInv, FolderNext \/ UNCHANGED folderVars
    PROVE  MineInv'
<1>1. ASSUME NEW c \in Clients, AskHeld(c) PROVE MineInv'
  BY <1>1, SameMine DEF AskHeld, Asks, StateFree, files, mine, FolderInv
<1>2. ASSUME NEW c \in Clients, AskWorking(c) PROVE MineInv'
  BY <1>2, SameMine DEF AskWorking, Asks, StateFree, files, mine, FolderInv
<1>3. ASSUME NEW c \in Clients, AskDisk(c) PROVE MineInv'
  BY <1>3, SameMine
  DEF AskDisk, Asks, Unheld, Match, Opened, files, mine, StateFree, FolderInv
<1>4. ASSUME NEW c \in Clients, AskBuild(c) PROVE MineInv'
  BY <1>4, SameMine
  DEF AskBuild, Asks, Unheld, Match, files, mine, StateFree, FolderInv
<1>5. ASSUME NEW c \in Clients, AskMasks(c) PROVE MineInv'
  <2>1. asking[c].held \in Loads
    BY <1>5 DEF AskMasks, FolderInv, AskTypeOK, Asked
  <2>2. asking[c].held.stream \in BuildIds
    BY <2>1 DEF Loads
  <2>3. Lookup(asking[c].held.stream)
    BY <1>5 DEF AskMasks, Lookup
  <2> QED
    BY <2>2, <2>3, LookupIs DEF FolderInv
<1>6. ASSUME NEW c \in Clients, Leave(c) PROVE MineInv'
  BY <1>6, SameMine DEF Leave, Asks, files, mine, FolderInv
<1>7. ASSUME NEW c \in Clients, FindDamaged(c) PROVE MineInv'
  BY <1>7, SameMine, Apart, GoMaskIs, EndMasksIs, ForgetMasksIs
  DEF FindDamaged, files, mine, FolderInv
<1>8. ASSUME NEW c \in Clients, ForgetIndex(c) PROVE MineInv'
  BY <1>8, SameMine DEF ForgetIndex, StateFree, mine, FolderInv
<1>9. CASE TakeWork
  BY <1>9, SameMine DEF TakeWork, files, mine, FolderInv
<1>10. CASE DropWork
  BY <1>10, SameMine DEF DropWork, StateFree, files, mine, FolderInv
<1>11. CASE BeginWork
  BY <1>11, SameMine DEF BeginWork, Match, files, mine, FolderInv
<1>12. CASE RemoveFormer
  BY <1>12, SameMine DEF RemoveFormer, GoWork, mine, FolderInv
<1>13. CASE WriteParts
  BY <1>13, SameMine DEF WriteParts, mine, FolderInv
<1>14. CASE RenameMoves
  BY <1>14, SameMine DEF RenameMoves, GoWork, mine, FolderInv
<1>15. CASE RenameIndex
  BY <1>15, SameMine DEF RenameIndex, GoWork, mine, FolderInv
<1>16. CASE FailWork
  BY <1>16, SameMine DEF FailWork, Fails, StateFree, mine, FolderInv
<1>17. CASE OpenBuilt
  BY <1>17, SameMine DEF OpenBuilt, GoWork, files, mine, FolderInv
<1>18. CASE LookAfterMasks
  <2>1. work.build \in BuildIds
    BY <1>18 DEF LookAfterMasks, FolderInv, WorkHasBuild
  <2> QED
    BY <1>18, <2>1, LookupIs DEF LookAfterMasks, FolderInv
<1>19. CASE EndWork
  BY <1>19, SameMine DEF EndWork, StateFree, files, mine, FolderInv
<1>20. CASE SweepFinds
  BY <1>20, SameMine DEF SweepFinds, Placed, Parted, files, mine, FolderInv
<1>21. CASE SweepLooks
  BY <1>21, SameMine DEF SweepLooks, files, mine, FolderInv
<1>22. CASE SweepIndex
  BY <1>22, SameMine, Apart, GoMaskIs, EndMasksIs, ForgetMasksIs
  DEF SweepIndex, files, mine, RemoveFile, FolderInv
<1>23. CASE SweepWork
  BY <1>23, SameMine DEF SweepWork, mine, FolderInv
<1>24. CASE ChangeFiles
  BY <1>24, SameMine DEF ChangeFiles, files, mine, FolderInv
<1>25. CASE Relist
  BY <1>25, SameMine DEF Relist, files, mine, FolderInv
<1>26. CASE ProcessEnds
  <2>1. slot' = None /\ mask' = [t \in Threads |-> Rest]
    BY <1>26 DEF ProcessEnds
  <2> QED
    BY <2>1 DEF MineInv, MineTypeOK, SlotOfItsBuild, ThreadsOfSlot, BuildingHasThread, SlotBuilds, Slots
<1>27. ASSUME NEW t \in Threads, CreateMasks(t) PROVE MineInv'
  BY <1>27, SameMine, Apart, GoMaskIs, EndMasksIs, ForgetMasksIs
  DEF CreateMasks, GoMask, FolderInv
<1>28. ASSUME NEW t \in Threads, WriteMasks(t) PROVE MineInv'
  BY <1>28, SameMine, Apart, GoMaskIs, EndMasksIs, ForgetMasksIs
  DEF WriteMasks, GoMask, files, mine, FolderInv
<1>29. ASSUME NEW t \in Threads, RemovePart(t) PROVE MineInv'
  <2>1. mask[t] # Rest /\ mask[t].result \in {"none", "built", "failed", "again"}
    BY <1>29, Apart DEF RemovePart, FolderInv, MineInv, MineTypeOK, MaskJobs
  <2> QED
    BY <1>29, <2>1, GoMaskIs DEF RemovePart, FolderInv
<1>30. ASSUME NEW t \in Threads, PlaceMasks(t) PROVE MineInv'
  BY <1>30, SameMine, Apart, GoMaskIs, EndMasksIs, ForgetMasksIs
  DEF PlaceMasks, GoMask, FolderInv
<1>31. ASSUME NEW t \in Threads, ReadMasks(t) PROVE MineInv'
  BY <1>31, SameMine, Apart, GoMaskIs, EndMasksIs, ForgetMasksIs
  DEF ReadMasks, GoMask, files, mine, FolderInv
<1>32. ASSUME NEW t \in Threads, EndMasks(t) PROVE MineInv'
  BY <1>32, SameMine, Apart, GoMaskIs, EndMasksIs, ForgetMasksIs
  DEF EndMasks, files, mine, FolderInv
<1>33. CASE UNCHANGED folderVars
  BY <1>33, SameMine DEF folderVars, FolderInv
<1> QED
  BY <1>1, <1>2, <1>3, <1>4, <1>5, <1>6, <1>7, <1>8, <1>9, <1>10, <1>11, <1>12,
     <1>13, <1>14, <1>15, <1>16, <1>17, <1>18, <1>19, <1>20, <1>21, <1>22,
     <1>23, <1>24, <1>25, <1>26, <1>27, <1>28, <1>29, <1>30, <1>31, <1>32,
     <1>33
  DEF FolderNext, WorkStep, SweepStep, MaskStep

(* A request is answered from files of one build, and keeps its type.      *)
LEMMA AskStep ==
    ASSUME FolderInv, FolderNext \/ UNCHANGED folderVars
    PROVE  AskTypeOK' /\ FilesOfOneBuild'
<1>1. ASSUME NEW c \in Clients, AskHeld(c) PROVE AskTypeOK' /\ FilesOfOneBuild'
  BY <1>1, Apart, NoneAssumption
  DEF AskHeld, Asks, StateFree, files, mine, FolderInv, AskTypeOK,
      FilesOfOneBuild, Asked, Answers
<1>2. ASSUME NEW c \in Clients, AskWorking(c) PROVE AskTypeOK' /\ FilesOfOneBuild'
  BY <1>2, Apart, NoneAssumption
  DEF AskWorking, Asks, StateFree, files, mine, FolderInv, AskTypeOK,
      FilesOfOneBuild, Asked, Answers
<1>3. ASSUME NEW c \in Clients, AskDisk(c) PROVE AskTypeOK' /\ FilesOfOneBuild'
  <2> DEFINE l == Opened(idx, moves)
  <2>1. idx \in Heads /\ moves \in Heads /\ idx.build = moves.build
    BY <1>3 DEF AskDisk, Match, FolderInv, DiskTypeOK
  <2>2. l \in Loads /\ l.build = l.stream
    BY <2>1 DEF Opened, Heads, Loads
  <2>3. index' = l /\ asking' = [asking EXCEPT ![c] = [held |-> l, answer |-> "none", masks |-> 0]]
    BY <1>3 DEF AskDisk
  <2> HIDE DEF l
  <2> QED
    BY <2>2, <2>3, Apart, AnswerIs DEF FolderInv, Answers
<1>4. ASSUME NEW c \in Clients, AskBuild(c) PROVE AskTypeOK' /\ FilesOfOneBuild'
  BY <1>4, Apart, NoneAssumption
  DEF AskBuild, Asks, Unheld, Match, files, mine, StateFree, FolderInv,
      AskTypeOK, FilesOfOneBuild, Asked, Answers
<1>5. ASSUME NEW c \in Clients, AskMasks(c) PROVE AskTypeOK' /\ FilesOfOneBuild'
  <2> DEFINE b == asking[c].held.stream
  <2>1. asking[c] \in Asked /\ asking[c].held \in Loads /\ b \in BuildIds /\ UNCHANGED index
    BY <1>5 DEF AskMasks, FolderInv, AskTypeOK, Asked, Loads
  <2>2. CASE LookupHeld(b) \/ LookupDisk(b)
    <3>1. slot'.masks = b
      BY <2>1, <2>2, LookupDiskIs DEF LookupHeld, SlotHolds, FolderInv, MineInv, SlotOfItsBuild
    <3>2. CASE asking' = [asking EXCEPT ![c].answer = "ready", ![c].masks = slot'.masks]
      <4>1. asking' = [asking EXCEPT ![c].answer = "ready", ![c].masks = b]
        BY <3>1, <3>2
      <4> QED
        BY <2>1, <4>1, Apart, ReadyIs DEF FolderInv
    <3> QED
      BY <1>5, <2>1, <2>2, <3>2, OtherAnswer, AskMasksSays DEF FolderInv
  <2>3. CASE ~(LookupHeld(b) \/ LookupDisk(b))
    BY <1>5, <2>1, <2>3, OtherAnswer, AskMasksSays DEF FolderInv
  <2> QED
    BY <2>2, <2>3
<1>6. ASSUME NEW c \in Clients, Leave(c) PROVE AskTypeOK' /\ FilesOfOneBuild'
  BY <1>6, Apart, NoneAssumption
  DEF Leave, Asks, files, mine, FolderInv, AskTypeOK, FilesOfOneBuild, Asked,
      Answers
<1>7. ASSUME NEW c \in Clients, FindDamaged(c) PROVE AskTypeOK' /\ FilesOfOneBuild'
  <2>1. asking' = [asking EXCEPT ![c].answer = "damaged"] /\ UNCHANGED index
    BY <1>7 DEF FindDamaged
  <2> QED
    BY <2>1, OtherAnswer DEF FolderInv, Answers
<1>8. ASSUME NEW c \in Clients, ForgetIndex(c) PROVE AskTypeOK' /\ FilesOfOneBuild'
  BY <1>8, Apart, NoneAssumption
  DEF ForgetIndex, StateFree, mine, FolderInv, AskTypeOK, FilesOfOneBuild,
      Asked, Answers, HeldTypeOK, DiskTypeOK, Heads, Loads
<1>9. CASE TakeWork
  BY <1>9 DEF TakeWork, files, mine, FolderInv, AskTypeOK, FilesOfOneBuild
<1>10. CASE DropWork
  BY <1>10, Apart, NoneAssumption
  DEF DropWork, StateFree, files, mine, FolderInv, AskTypeOK, FilesOfOneBuild,
      Asked, Answers, HeldTypeOK, DiskTypeOK, Heads, Loads
<1>11. CASE BeginWork
  BY <1>11
  DEF BeginWork, Match, files, mine, FolderInv, AskTypeOK, FilesOfOneBuild
<1>12. CASE RemoveFormer
  BY <1>12
  DEF RemoveFormer, GoWork, mine, FolderInv, AskTypeOK, FilesOfOneBuild
<1>13. CASE WriteParts
  BY <1>13 DEF WriteParts, mine, FolderInv, AskTypeOK, FilesOfOneBuild
<1>14. CASE RenameMoves
  BY <1>14 DEF RenameMoves, GoWork, mine, FolderInv, AskTypeOK, FilesOfOneBuild
<1>15. CASE RenameIndex
  BY <1>15 DEF RenameIndex, GoWork, mine, FolderInv, AskTypeOK, FilesOfOneBuild
<1>16. CASE FailWork
  BY <1>16, Apart, NoneAssumption
  DEF FailWork, Fails, StateFree, mine, FolderInv, AskTypeOK, FilesOfOneBuild,
      Asked, Answers, HeldTypeOK, DiskTypeOK, Heads, Loads
<1>17. CASE OpenBuilt
  BY <1>17
  DEF OpenBuilt, GoWork, files, mine, FolderInv, AskTypeOK, FilesOfOneBuild
<1>18. CASE LookAfterMasks
  BY <1>18
  DEF LookAfterMasks, files, mine, FolderInv, AskTypeOK, FilesOfOneBuild
<1>19. CASE EndWork
  <2>1. UNCHANGED asking /\ (index' = None \/ index'.build = index'.stream)
    BY <1>19 DEF EndWork
  <2> QED
    BY <2>1, NoneAssumption DEF FolderInv, AskTypeOK, FilesOfOneBuild
<1>20. CASE SweepFinds
  BY <1>20
  DEF SweepFinds, Placed, Parted, files, mine, FolderInv, AskTypeOK,
      FilesOfOneBuild
<1>21. CASE SweepLooks
  BY <1>21 DEF SweepLooks, files, mine, FolderInv, AskTypeOK, FilesOfOneBuild
<1>22. CASE SweepIndex
  BY <1>22, Apart, NoneAssumption
  DEF SweepIndex, files, mine, RemoveFile, FolderInv, AskTypeOK,
      FilesOfOneBuild, Asked, Answers, HeldTypeOK, DiskTypeOK, Heads, Loads
<1>23. CASE SweepWork
  BY <1>23 DEF SweepWork, mine, FolderInv, AskTypeOK, FilesOfOneBuild
<1>24. CASE ChangeFiles
  BY <1>24 DEF ChangeFiles, files, mine, FolderInv, AskTypeOK, FilesOfOneBuild
<1>25. CASE Relist
  BY <1>25 DEF Relist, files, mine, FolderInv, AskTypeOK, FilesOfOneBuild
<1>26. CASE ProcessEnds
  BY <1>26, Apart, NoneAssumption
  DEF ProcessEnds, FolderInv, AskTypeOK, FilesOfOneBuild, Asked, Answers,
      HeldTypeOK, DiskTypeOK, Heads, Loads
<1>27. ASSUME NEW t \in Threads, CreateMasks(t) PROVE AskTypeOK' /\ FilesOfOneBuild'
  BY <1>27 DEF CreateMasks, GoMask, FolderInv, AskTypeOK, FilesOfOneBuild
<1>28. ASSUME NEW t \in Threads, WriteMasks(t) PROVE AskTypeOK' /\ FilesOfOneBuild'
  BY <1>28
  DEF WriteMasks, GoMask, files, mine, FolderInv, AskTypeOK, FilesOfOneBuild
<1>29. ASSUME NEW t \in Threads, RemovePart(t) PROVE AskTypeOK' /\ FilesOfOneBuild'
  BY <1>29 DEF RemovePart, GoMask, FolderInv, AskTypeOK, FilesOfOneBuild
<1>30. ASSUME NEW t \in Threads, PlaceMasks(t) PROVE AskTypeOK' /\ FilesOfOneBuild'
  BY <1>30 DEF PlaceMasks, GoMask, FolderInv, AskTypeOK, FilesOfOneBuild
<1>31. ASSUME NEW t \in Threads, ReadMasks(t) PROVE AskTypeOK' /\ FilesOfOneBuild'
  BY <1>31
  DEF ReadMasks, GoMask, files, mine, FolderInv, AskTypeOK, FilesOfOneBuild
<1>32. ASSUME NEW t \in Threads, EndMasks(t) PROVE AskTypeOK' /\ FilesOfOneBuild'
  BY <1>32 DEF EndMasks, files, mine, FolderInv, AskTypeOK, FilesOfOneBuild
<1>33. CASE UNCHANGED folderVars
  BY <1>33 DEF folderVars, FolderInv, AskTypeOK, FilesOfOneBuild
<1> QED
  BY <1>1, <1>2, <1>3, <1>4, <1>5, <1>6, <1>7, <1>8, <1>9, <1>10, <1>11, <1>12,
     <1>13, <1>14, <1>15, <1>16, <1>17, <1>18, <1>19, <1>20, <1>21, <1>22,
     <1>23, <1>24, <1>25, <1>26, <1>27, <1>28, <1>29, <1>30, <1>31, <1>32,
     <1>33
  DEF FolderNext, WorkStep, SweepStep, MaskStep

(* Every step keeps the type of the sweep, and the count of trouble.       *)
LEMMA SweepTypeStep ==
    ASSUME FolderInv, FolderNext \/ UNCHANGED folderVars
    PROVE  SweepTypeOK' /\ TroubleTypeOK'
<1>1. ASSUME NEW c \in Clients, AskHeld(c) PROVE SweepTypeOK' /\ TroubleTypeOK'
  BY <1>1, MishapIs
  DEF AskHeld, Asks, StateFree, files, mine, FolderInv, SweepTypeOK,
      TroubleTypeOK
<1>2. ASSUME NEW c \in Clients, AskWorking(c) PROVE SweepTypeOK' /\ TroubleTypeOK'
  BY <1>2, MishapIs
  DEF AskWorking, Asks, StateFree, files, mine, FolderInv, SweepTypeOK,
      TroubleTypeOK
<1>3. ASSUME NEW c \in Clients, AskDisk(c) PROVE SweepTypeOK' /\ TroubleTypeOK'
  BY <1>3, MishapIs
  DEF AskDisk, Asks, Unheld, Match, Opened, files, mine, StateFree, FolderInv,
      SweepTypeOK, TroubleTypeOK
<1>4. ASSUME NEW c \in Clients, AskBuild(c) PROVE SweepTypeOK' /\ TroubleTypeOK'
  BY <1>4, MishapIs
  DEF AskBuild, Asks, Unheld, Match, files, mine, StateFree, FolderInv,
      SweepTypeOK, TroubleTypeOK
<1>5. ASSUME NEW c \in Clients, AskMasks(c) PROVE SweepTypeOK' /\ TroubleTypeOK'
  BY <1>5, MishapIs, Apart
  DEF AskMasks, Asks, files, mine, FolderInv, SweepTypeOK, TroubleTypeOK,
      Swept, Lookup, LookupHeld, LookupBuilding, LookupFailed, LookupDisk,
      LookupStarts, StartMasks
<1>6. ASSUME NEW c \in Clients, Leave(c) PROVE SweepTypeOK' /\ TroubleTypeOK'
  BY <1>6, MishapIs
  DEF Leave, Asks, files, mine, FolderInv, SweepTypeOK, TroubleTypeOK
<1>7. ASSUME NEW c \in Clients, FindDamaged(c) PROVE SweepTypeOK' /\ TroubleTypeOK'
  BY <1>7, MishapIs
  DEF FindDamaged, files, mine, FolderInv, SweepTypeOK, TroubleTypeOK
<1>8. ASSUME NEW c \in Clients, ForgetIndex(c) PROVE SweepTypeOK' /\ TroubleTypeOK'
  BY <1>8, MishapIs
  DEF ForgetIndex, StateFree, mine, FolderInv, SweepTypeOK, TroubleTypeOK
<1>9. CASE TakeWork
  BY <1>9, MishapIs
  DEF TakeWork, files, mine, FolderInv, SweepTypeOK, TroubleTypeOK
<1>10. CASE DropWork
  BY <1>10, MishapIs
  DEF DropWork, StateFree, files, mine, FolderInv, SweepTypeOK, TroubleTypeOK
<1>11. CASE BeginWork
  BY <1>11, MishapIs
  DEF BeginWork, Match, files, mine, FolderInv, SweepTypeOK, TroubleTypeOK
<1>12. CASE RemoveFormer
  BY <1>12, MishapIs
  DEF RemoveFormer, GoWork, mine, FolderInv, SweepTypeOK, TroubleTypeOK
<1>13. CASE WriteParts
  BY <1>13, MishapIs
  DEF WriteParts, mine, FolderInv, SweepTypeOK, TroubleTypeOK
<1>14. CASE RenameMoves
  BY <1>14, MishapIs
  DEF RenameMoves, GoWork, mine, FolderInv, SweepTypeOK, TroubleTypeOK
<1>15. CASE RenameIndex
  BY <1>15, MishapIs
  DEF RenameIndex, GoWork, mine, FolderInv, SweepTypeOK, TroubleTypeOK
<1>16. CASE FailWork
  BY <1>16, MishapIs
  DEF FailWork, Fails, StateFree, mine, FolderInv, SweepTypeOK, TroubleTypeOK
<1>17. CASE OpenBuilt
  BY <1>17, MishapIs
  DEF OpenBuilt, GoWork, files, mine, FolderInv, SweepTypeOK, TroubleTypeOK
<1>18. CASE LookAfterMasks
  BY <1>18, MishapIs, Apart
  DEF LookAfterMasks, files, mine, FolderInv, SweepTypeOK, TroubleTypeOK,
      Swept, Lookup, LookupHeld, LookupBuilding, LookupFailed, LookupDisk,
      LookupStarts, StartMasks
<1>19. CASE EndWork
  BY <1>19, MishapIs
  DEF EndWork, StateFree, files, mine, FolderInv, SweepTypeOK, TroubleTypeOK
<1>20. CASE SweepFinds
  BY <1>20, MishapIs, Apart
  DEF SweepFinds, Placed, Parted, files, mine, FolderInv, SweepTypeOK,
      TroubleTypeOK, Swept
<1>21. CASE SweepLooks
  <2>1. sweeping \in Swept /\ UNCHANGED mishaps
    BY <1>21, Apart DEF SweepLooks, FolderInv, SweepTypeOK
  <2>2. [sweeping EXCEPT !.step = "looked"] \in Swept
    BY <2>1 DEF Swept
  <2> QED
    BY <1>21, <2>1, <2>2 DEF SweepLooks, SweepTypeOK, FolderInv, TroubleTypeOK
<1>22. CASE SweepIndex
  BY <1>22, MishapIs
  DEF SweepIndex, files, mine, RemoveFile, FolderInv, SweepTypeOK,
      TroubleTypeOK
<1>23. CASE SweepWork
  BY <1>23, MishapIs DEF SweepWork, mine, FolderInv, SweepTypeOK, TroubleTypeOK
<1>24. CASE ChangeFiles
  BY <1>24, MishapIs
  DEF ChangeFiles, files, mine, FolderInv, SweepTypeOK, TroubleTypeOK
<1>25. CASE Relist
  BY <1>25, MishapIs
  DEF Relist, files, mine, FolderInv, SweepTypeOK, TroubleTypeOK
<1>26. CASE ProcessEnds
  BY <1>26, MishapIs DEF ProcessEnds, FolderInv, SweepTypeOK, TroubleTypeOK
<1>27. ASSUME NEW t \in Threads, CreateMasks(t) PROVE SweepTypeOK' /\ TroubleTypeOK'
  BY <1>27, MishapIs
  DEF CreateMasks, GoMask, FolderInv, SweepTypeOK, TroubleTypeOK
<1>28. ASSUME NEW t \in Threads, WriteMasks(t) PROVE SweepTypeOK' /\ TroubleTypeOK'
  BY <1>28, MishapIs
  DEF WriteMasks, GoMask, files, mine, FolderInv, SweepTypeOK, TroubleTypeOK
<1>29. ASSUME NEW t \in Threads, RemovePart(t) PROVE SweepTypeOK' /\ TroubleTypeOK'
  BY <1>29, MishapIs
  DEF RemovePart, GoMask, FolderInv, SweepTypeOK, TroubleTypeOK
<1>30. ASSUME NEW t \in Threads, PlaceMasks(t) PROVE SweepTypeOK' /\ TroubleTypeOK'
  BY <1>30, MishapIs
  DEF PlaceMasks, GoMask, FolderInv, SweepTypeOK, TroubleTypeOK
<1>31. ASSUME NEW t \in Threads, ReadMasks(t) PROVE SweepTypeOK' /\ TroubleTypeOK'
  BY <1>31, MishapIs
  DEF ReadMasks, GoMask, files, mine, FolderInv, SweepTypeOK, TroubleTypeOK
<1>32. ASSUME NEW t \in Threads, EndMasks(t) PROVE SweepTypeOK' /\ TroubleTypeOK'
  BY <1>32, MishapIs
  DEF EndMasks, files, mine, FolderInv, SweepTypeOK, TroubleTypeOK
<1>33. CASE UNCHANGED folderVars
  BY <1>33, MishapIs DEF folderVars, FolderInv, SweepTypeOK, TroubleTypeOK
<1> QED
  BY <1>1, <1>2, <1>3, <1>4, <1>5, <1>6, <1>7, <1>8, <1>9, <1>10, <1>11, <1>12,
     <1>13, <1>14, <1>15, <1>16, <1>17, <1>18, <1>19, <1>20, <1>21, <1>22,
     <1>23, <1>24, <1>25, <1>26, <1>27, <1>28, <1>29, <1>30, <1>31, <1>32,
     <1>33
  DEF FolderNext, WorkStep, SweepStep, MaskStep

-----------------------------------------------------------------------------
(* The invariant holds from the start and in every step.                   *)
LEMMA FolderInitially == FolderInit => FolderInv
<1> SUFFICES ASSUME FolderInit PROVE FolderInv
  OBVIOUS
<1>1. DiskTypeOK /\ HeldTypeOK
  BY Apart, FolderBoundsAssumption DEF FolderInit, DiskTypeOK, HeldTypeOK
<1>2. WorkTypeOK /\ WorkHasBuild /\ SweepTypeOK /\ TroubleTypeOK
  BY Apart, FolderBoundsAssumption DEF FolderInit, WorkTypeOK, WorkHasBuild, SweepTypeOK, TroubleTypeOK
<1>3. MineInv
  BY DEF FolderInit, MineInv, MineTypeOK, SlotOfItsBuild, ThreadsOfSlot, BuildingHasThread, SlotBuilds, Slots
<1>4. AskTypeOK
  BY Apart DEF FolderInit, AskTypeOK, Asked, Answers
<1>5. FilesOfOneBuild
  BY NoneAssumption DEF FolderInit, FilesOfOneBuild
<1> QED
  BY <1>1, <1>2, <1>3, <1>4, <1>5 DEF FolderInv

LEMMA FolderStepKeeps == FolderInv /\ [FolderNext]_folderVars => FolderInv'
<1> SUFFICES ASSUME FolderInv, FolderNext \/ UNCHANGED folderVars PROVE FolderInv'
  OBVIOUS
<1> QED
  BY DiskStep, HeldStep, WorkStepKeeps, MineStep, AskStep, SweepTypeStep DEF FolderInv

(* The inductive invariant of the index folder holds in every behaviour.   *)
THEOREM FolderInvariant == FolderSpec => []FolderInv
<1>1. FolderInit => FolderInv
  BY FolderInitially
<1>2. FolderInv /\ [FolderNext]_folderVars => FolderInv'
  BY FolderStepKeeps
<1> QED
  BY <1>1, <1>2, PTL DEF FolderSpec

(* The types are parts of the invariant.                                   *)
LEMMA FolderTyped == FolderInv => FolderTypeOK
BY DEF FolderInv, DiskTypeOK, HeldTypeOK, WorkTypeOK, MineInv, MineTypeOK, AskTypeOK, SweepTypeOK,
       TroubleTypeOK, FolderTypeOK, Works, IndexWorks, Masks, MaskJobs, Asked, Swept

(* The state keeps its types (mod.rs 70-179).                              *)
THEOREM FolderTypeCorrect == FolderSpec => []FolderTypeOK
BY FolderTyped, FolderInvariant, PTL

(* Two threads never write a database's masks, and a slot that builds has  *)
(* its thread (mod.rs 166-168, 324-328): for every number of clients,      *)
(* threads, builds and failures.                                           *)
THEOREM MasksAlwaysHaveOneThread == FolderSpec => []MasksHaveOneThread
<1>1. FolderInv => MasksHaveOneThread
  BY DEF FolderInv, MineInv, ThreadsOfSlot, MasksHaveOneThread, OneMaskWriter
<1> QED
  BY <1>1, FolderInvariant, PTL

(* An answer's index, stream and masks are of one build (build.rs 143,     *)
(* mod.rs 205), whatever was left in the folder.                           *)
THEOREM FilesAlwaysOfOneBuild == FolderSpec => []FilesOfOneBuild
<1>1. FolderInv => FilesOfOneBuild
  BY DEF FolderInv
<1> QED
  BY <1>1, FolderInvariant, PTL

================================================================================
