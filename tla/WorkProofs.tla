------------------------------ MODULE WorkProofs ------------------------------
(***************************************************************************)
(* What MCWork, the parts of the bridge that run beside one another, shows *)
(* of each part: the parts' inductive invariants hold together, whichever  *)
(* part moves, so every state is of its type; and every behaviour of the   *)
(* whole is a behaviour of each part, which moves or waits, so what is     *)
(* proved of a part alone holds of it here.                                *)
(***************************************************************************)
EXTENDS MCWork, SettleProofs, PassProofs, EngineProofs, FilesProofs, EngineChoicesProofs
-----------------------------------------------------------------------------
(* The parts begin together, and in a step one of them moves while the     *)
(* others wait.                                                            *)
LEMMA PartsBegin ==
    Init => /\ SettleInit /\ WorkersInit /\ EngineInit /\ CatalogInit /\ FolderInit
            /\ TurnsInit /\ PassesInit /\ ChoicesInit
BY DEF Init

LEMMA PartsMove ==
    [Next]_vars => /\ [SettleNext]_settleVars /\ [WorkersNext]_workersVars
                   /\ [EngineNext]_engineVars /\ [CatalogNext]_catalogVars
                   /\ [FolderNext]_folderVars /\ [TurnsNext]_turnsVars
                   /\ [PassesNext]_passesVars /\ [ChoicesNext]_choicesVars
BY DEF Next, vars, SettleStep, WorkersStep, EngineStep, CatalogStep, FolderStep, TurnsStep, PassesStep,
       ChoicesStep

(* The inductive invariants of the parts, together.                        *)
PartsInv ==
    /\ SettleInv /\ WorkersInv /\ EngineInv /\ CatalogInv /\ FolderInv
    /\ TurnsInv /\ RoomInv /\ TurnsTypesInv
    /\ PassesInv /\ ChoicesInv

(* They hold from the start and in every step.                             *)
LEMMA PartsInvariant == Spec => []PartsInv
<1>1. Init => PartsInv
  BY PartsBegin, SettleInitially, WorkersStart, EngineInitially, CatalogInitially, FolderInitially,
     TurnsStart, RoomStart, TurnsTypesStart, PassesInitInv, ChoicesInvInit
  DEF PartsInv
<1>2. PartsInv /\ [Next]_vars => PartsInv'
  BY PartsMove, SettleStepKeeps, WorkersStepKeeps, EngineStepKeeps, CatalogStepKeeps,
     FolderStepKeeps, TurnsStepKeeps, RoomStep, TurnsTypesStep, PassesStepInv, ChoicesInvStep
  DEF PartsInv
<1> QED
  BY <1>1, <1>2, PTL DEF Spec

(* Every part's state keeps its types, whichever part moves: the types of  *)
(* serial.rs, memory.rs, engine.rs, catalog.rs, stockfish.rs and, in       *)
(* explorer, mod.rs, stream.rs and tree.rs, for every value of the         *)
(* constants.                                                              *)
THEOREM PartsTypesCorrect == Spec => []PartsTypeOK
<1>1. PartsInv => PartsTypeOK
  BY SettleTyped, WorkersTyped, EngineTyped, CatalogTyped, FolderTyped, TurnsTyped, PassesKeepTypes,
     ChoicesTyped
  DEF PartsInv, PartsTypeOK
<1> QED
  BY <1>1, PartsInvariant, PTL

(* In MCWork each part behaves as it does alone, with the fairness it has  *)
(* alone: so what is proved of a part's specification holds of the runs.   *)
THEOREM PartsBehaveAsAlone ==
    FairSpec => /\ SettleSpec /\ WorkersSpec /\ EngineSpec /\ CatalogSpec /\ FolderSpec
                /\ TurnsSpec /\ PassesSpec /\ ChoicesSpec
BY PartsBegin, PartsMove, PTL
DEF FairSpec, Spec, SettleSpec, WorkersSpec, EngineSpec, CatalogSpec, FolderSpec, TurnsSpec, PassesSpec,
    ChoicesSpec
===============================================================================
