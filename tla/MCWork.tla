--------------------------------- MODULE MCWork -------------------------------
(* The parts of the bridge that run beside one another over states of      *)
(* their own, checked in one run: each behaviour is one part's, chosen at  *)
(* the start, and the other parts stay where they begin.  No action that   *)
(* is fair is enabled where a part begins, so the fairness of the parts    *)
(* not chosen says nothing, and each part is checked as it is alone.       *)
EXTENDS Settle, Workers, Engine, Catalog, IndexFolder, Turns, TreePasses, EngineChoices, TLC

CONSTANTS Parts, a1, a2, s1, s2, v1, v2, d1

MCStreamOf == (s1 :> v1) @@ (s2 :> v1)
MCViewOf == (a1 :> v1) @@ (a2 :> v2)
MCWindows == [{d1} -> {"a", "b", Absent}]
MCFolders == [{d1} -> {"c", Absent}]

(* The first part alone is more than two workers' buffers hold; two long   *)
(* lines of the others each fill one, and end their pass at two parts.     *)
MCLineOf == << <<0, 0, 0, 1, 1, 2, 2, 2, 3, 4, 5>>, <<0, 0, 0, 1, 3, 4, 4, 5, 5, 5, 5>>,
               <<0, 0, 0, 2>>, <<0, 0, 0, 2>>, <<0, 0, 0, 3>>, <<0, 0, 0, 5>> >>

(* A thread, or a reader, is as good as another; nothing checked with this *)
(* is a liveness property.                                                 *)
Symmetry == Permutations(Threads) \union Permutations(Readers)

VARIABLE part

vars == <<part, settleVars, workersVars, engineVars, catalogVars, folderVars, turnsVars, passesVars, choicesVars>>

Init == /\ part \in Parts
        /\ SettleInit /\ WorkersInit /\ EngineInit /\ CatalogInit /\ FolderInit
        /\ TurnsInit /\ PassesInit /\ ChoicesInit
        /\ part # "engine" => configured = 0
        /\ part # "catalog" => cloud = {} /\ \A d \in Databases : entries[d] = Absent

SettleStep ==
    /\ part = "settle" /\ SettleNext
    /\ UNCHANGED <<workersVars, engineVars, catalogVars, folderVars, turnsVars, passesVars, choicesVars>>
WorkersStep ==
    /\ part = "workers" /\ WorkersNext
    /\ UNCHANGED <<settleVars, engineVars, catalogVars, folderVars, turnsVars, passesVars, choicesVars>>
EngineStep ==
    /\ part = "engine" /\ EngineNext
    /\ UNCHANGED <<settleVars, workersVars, catalogVars, folderVars, turnsVars, passesVars, choicesVars>>
CatalogStep ==
    /\ part = "catalog" /\ CatalogNext
    /\ UNCHANGED <<settleVars, workersVars, engineVars, folderVars, turnsVars, passesVars, choicesVars>>
FolderStep ==
    /\ part = "folder" /\ FolderNext
    /\ UNCHANGED <<settleVars, workersVars, engineVars, catalogVars, turnsVars, passesVars, choicesVars>>
TurnsStep ==
    /\ part = "turns" /\ TurnsNext
    /\ UNCHANGED <<settleVars, workersVars, engineVars, catalogVars, folderVars, passesVars, choicesVars>>
PassesStep ==
    /\ part = "passes" /\ PassesNext
    /\ UNCHANGED <<settleVars, workersVars, engineVars, catalogVars, folderVars, turnsVars, choicesVars>>
ChoicesStep ==
    /\ part = "choices" /\ ChoicesNext
    /\ UNCHANGED <<settleVars, workersVars, engineVars, catalogVars, folderVars, turnsVars, passesVars>>

Next == /\ UNCHANGED part
        /\ SettleStep \/ WorkersStep \/ EngineStep \/ CatalogStep \/ FolderStep
           \/ TurnsStep \/ PassesStep \/ ChoicesStep

Spec == Init /\ [][Next]_vars
FairSpec == Spec /\ SettleFairness /\ WorkersFairness /\ EngineFairness /\ TurnsFairness

(* Every part's state is of its type.                                      *)
PartsTypeOK == /\ SettleTypeOK /\ WorkersTypeOK /\ EngineTypeOK
               /\ CatalogTypeOK /\ FolderTypeOK /\ TurnsTypeOK /\ PassesTypeOK
               /\ ChoicesTypeOK
===============================================================================
