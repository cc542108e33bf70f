------------------------- MODULE EngineChoicesProofs -------------------------
(***************************************************************************)
(* What holds of EngineChoices for all choices, installations and builds,  *)
(* and every bound: its types, that a choice is never undone by an         *)
(* installation that began before it, that a look does nothing once the    *)
(* option is off, and that the build chosen stays in its folder.           *)
(***************************************************************************)
EXTENDS EngineChoices, TLAPS
-----------------------------------------------------------------------------
(* Choosers, installations and the looker are apart, and none is no task.  *)
LEMMA TaskKinds ==
    /\ Choosers \subseteq Tasks /\ Installs \subseteq Tasks /\ Looker \in Tasks
    /\ Installing \subseteq Tasks /\ Installs \subseteq Installing /\ Looker \in Installing
    /\ Looker \notin Choosers /\ Looker \notin Installs /\ NoTask \notin Tasks
    /\ \A c \in Choosers : c \notin Installing
    /\ \A t \in Tasks : t \in Choosers \/ t \in Installs \/ t = Looker
    /\ \A t \in Installing : t # Looker => t \in Installs
    /\ Foreign \notin Versions /\ 1 \in Versions
BY ChoosersAssumption, ChoicesBoundsAssumption DEF Tasks, Installing, Versions

(* A thread that ends lets go of its locks, and of no other's.             *)
LEMMA FreedLocks ==
    ASSUME ChoicesTypeOK, NEW t \in Tasks
    PROVE  /\ FreeOf(t) \in [{"choosing", "installing", "changing"} -> Tasks \union {NoTask}]
           /\ \A l \in {"choosing", "installing", "changing"} :
                  /\ FreeOf(t)[l] # t
                  /\ FreeOf(t)[l] # NoTask => FreeOf(t)[l] = locks[l]
                  /\ \A u \in Tasks : u # t => (FreeOf(t)[l] = u <=> locks[l] = u)
<1>1. DOMAIN locks = {"choosing", "installing", "changing"}
  BY DEF ChoicesTypeOK
<1> QED
  BY <1>1, TaskKinds DEF FreeOf, ChoicesTypeOK

(* Where a call ends: the looker looks again, another is over.             *)
LEMMA TaskEnded ==
    ASSUME ChoicesTypeOK, NEW t \in Tasks, Ends(t)
    PROVE  /\ locks' = FreeOf(t)
           /\ \E r \in [pc : {"rest", "over"}, engine : {Foreign}, ticket : {0}] :
                 /\ r.pc = "rest" <=> t = Looker
                 /\ task' = [task EXCEPT ![t] = r]
BY TaskKinds DEF Ends, Resting
-----------------------------------------------------------------------------
(* The inductive invariant.  The steps of a choice, of an installation and *)
(* of a look.                                                              *)
ChooserSteps == {"rest", "over", "choosing", "probing", "saving", "counting"}
InstallSteps == {"rest", "over", "lookup", "installing", "committing", "choosing", "probing",
                 "comparing", "saving", "counting"}
LookSteps    == ChoiceSteps \ {"over", "lookup"}

StepsOfTasks ==
    /\ \A c \in Choosers : task[c].pc \in ChooserSteps
    /\ \A i \in Installs : task[i].pc \in InstallSteps
    /\ task[Looker].pc \in LookSteps

(* What a thread holds is told by where it is.                             *)
HoldsChoosing == {"probing", "confirming", "comparing", "saving", "counting", "holding", "removing"}
HoldsInstalling(t) ==
    IF t = Looker THEN {"installing", "committing", "settling", "holding", "removing"}
    ELSE IF t \in Installs THEN InstallSteps \ {"rest", "over"} ELSE {}
HoldsChanging(t) == IF t = Looker THEN {"comparing", "saving", "counting", "removing"} ELSE {}

LocksOfSteps ==
    \A t \in Tasks :
        /\ locks["choosing"] = t <=> task[t].pc \in HoldsChoosing
        /\ locks["installing"] = t <=> task[t].pc \in HoldsInstalling(t)
        /\ locks["changing"] = t <=> task[t].pc \in HoldsChanging(t)

(* Who holds the preferences holds the option on.                          *)
OptionIsHeld == locks["changing"] # NoTask => option

(* A ticket is of a choice counted already; one overtaken is of an earlier *)
(* one, or that which overtook it is being counted; what saves its build   *)
(* has its ticket still.                                                   *)
TicketsArePast == \A t \in Installing : Ticketed(t) => task[t].ticket <= saved

OvertakenIsPast ==
    \A t \in overtaken :
        Ticketed(t) => \/ task[t].ticket < saved
                       \/ \E u \in Tasks : u # t /\ Does(u, "counting")

SavesWithTicket ==
    \A t \in Installing :
        task[t].pc \in {"saving", "counting"} => task[t].ticket = saved /\ t \notin overtaken

(* What is installed is a build of the bridge's, and the builds removed    *)
(* are older than the one chosen.                                          *)
BuildsAreVersions ==
    /\ \A t \in Installing : task[t].pc \in {"reading", "begin", "installing", "committing"} =>
           task[t].engine \in Versions
    /\ task[Looker].pc \in {"holding", "removing"} => task[Looker].engine = chosen /\ chosen \in Versions

(* A build is wanted when it is chosen, or was probed to be chosen.  Its   *)
(* folder is there; or it is being replaced, and what was moved aside for  *)
(* that can be put back; or it was lost before.                            *)
Probed == {"confirming", "comparing", "saving"}
Wanted(v) == v = chosen \/ \E t \in Tasks : task[t].pc \in Probed /\ task[t].engine = v
Replaces(t, v) == Does(t, "committing") /\ task[t].engine = v

MovedAside == \A t \in Installing : Does(t, "committing") => buildFolder[task[t].engine] = "none"

NothingAside ==
    \A v \in Versions :
        Wanted(v) /\ previous[v] = "none" /\ (\E t \in Installing : Replaces(t, v)) => v \in cutShort

WantedIsThere ==
    \A v \in Versions :
        Wanted(v) /\ buildFolder[v] = "none" => v \in cutShort \/ \E t \in Installing : Replaces(t, v)

ChoicesInv ==
    /\ ChoicesTypeOK /\ StepsOfTasks /\ LocksOfSteps /\ OptionIsHeld
    /\ TicketsArePast /\ OvertakenIsPast /\ SavesWithTicket
    /\ BuildsAreVersions /\ MovedAside /\ NothingAside /\ WantedIsThere
-----------------------------------------------------------------------------

(* Every step keeps the types.                                             *)
LEMMA TypeStep ==
    ASSUME ChoicesTypeOK, BuildsAreVersions,
           ChoicesNext \/ UNCHANGED choicesVars
    PROVE  ChoicesTypeOK'
<1>1. ASSUME NEW c \in Choosers, PickEngine(c) PROVE ChoicesTypeOK'
  <2>1. PICK e \in Versions \union {Foreign} :
           task' = [task EXCEPT ![c] = [Resting EXCEPT !.pc = "choosing", !.engine = e]]
    BY <1>1 DEF PickEngine
  <2>2. task' \in [Tasks -> [pc : ChoiceSteps, engine : Versions \union {Foreign}, ticket : Nat]]
    BY <2>1, TaskKinds DEF ChoicesTypeOK, Resting, ChoiceSteps
  <2> QED
    BY <1>1, <2>2 DEF PickEngine, ChoicesTypeOK, settings, builds, world
<1>2. ASSUME NEW i \in Installs, BeginInstall(i) PROVE ChoicesTypeOK'
  BY <1>2, TaskKinds
  DEF BeginInstall, Does, TakesTicket, builds, world, Locks, ChoicesTypeOK,
      ChoiceSteps
<1>3. ASSUME NEW i \in Installs, LookUp(i) PROVE ChoicesTypeOK'
  BY <1>3, TaskKinds
  DEF LookUp, Does, settings, builds, world, ChoicesTypeOK, ChoiceSteps
<1>4. ASSUME NEW t \in Tasks, LockChoosing(t) PROVE ChoicesTypeOK'
  BY <1>4, TaskKinds
  DEF LockChoosing, Does, Locks, Turn, settings, builds, world, ChoicesTypeOK,
      ChoiceSteps
<1>5. ASSUME NEW t \in Tasks, Probe(t) PROVE ChoicesTypeOK'
  BY <1>5, TaskEnded, TaskKinds, FreedLocks
  DEF Probe, Does, Starts, Turn, settings, builds, world, ChoicesTypeOK,
      ChoiceSteps
<1>6. ASSUME NEW t \in Tasks, Compare(t) PROVE ChoicesTypeOK'
  BY <1>6, TaskEnded, TaskKinds, FreedLocks
  DEF Compare, Does, Turn, settings, builds, world, ChoicesTypeOK, ChoiceSteps
<1>7. ASSUME NEW t \in Tasks, SaveChoice(t) PROVE ChoicesTypeOK'
  BY <1>7, TaskKinds
  DEF SaveChoice, Does, Turn, builds, world, ChoicesTypeOK, ChoiceSteps
<1>8. ASSUME NEW t \in Tasks, SaveFails(t) PROVE ChoicesTypeOK'
  BY <1>8, TaskEnded, TaskKinds, FreedLocks
  DEF SaveFails, Does, settings, builds, world, ChoicesTypeOK, ChoiceSteps
<1>9. ASSUME NEW t \in Tasks, CountChoice(t) PROVE ChoicesTypeOK'
  BY <1>9, TaskEnded, TaskKinds, FreedLocks
  DEF CountChoice, Does, Turn, builds, world, ChoicesTypeOK, ChoiceSteps
<1>10. ASSUME NEW t \in Installing, FindInstalled(t) PROVE ChoicesTypeOK'
  BY <1>10, TaskKinds, FreedLocks
  DEF FindInstalled, Does, Installed, settings, builds, world, Turn,
      ChoicesTypeOK, ChoiceSteps
<1>11. ASSUME NEW t \in Installing, InstallFails(t) PROVE ChoicesTypeOK'
  BY <1>11, TaskEnded, TaskKinds, FreedLocks
  DEF InstallFails, Does, settings, builds, world, ChoicesTypeOK, ChoiceSteps
<1>12. ASSUME NEW t \in Installing, MoveAside(t) PROVE ChoicesTypeOK'
  <2>1. task[t].engine \in Versions
    BY <1>12 DEF MoveAside, BuildsAreVersions, Does
  <2>2. buildFolder[task[t].engine] \in {"none", "partial"}
    BY <1>12, <2>1 DEF MoveAside, ChoicesTypeOK
  <2> QED
    BY <1>12, <2>1, <2>2, TaskKinds
    DEF MoveAside, ChoicesTypeOK, ChoiceSteps, Turn, settings, world
<1>13. ASSUME NEW t \in Installing, PutInPlace(t) PROVE ChoicesTypeOK'
  <2>1. task[t].engine \in Versions
    BY <1>13 DEF PutInPlace, BuildsAreVersions, Does
  <2>2. /\ task' \in [Tasks -> [pc : ChoiceSteps, engine : Versions \union {Foreign}, ticket : Nat]]
        /\ locks' \in [{"choosing", "installing", "changing"} -> Tasks \union {NoTask}]
    BY <1>13, TaskKinds, FreedLocks DEF PutInPlace, Installed, Turn, ChoicesTypeOK, ChoiceSteps
  <2> QED
    BY <1>13, <2>1, <2>2 DEF PutInPlace, ChoicesTypeOK, settings, world
<1>14. ASSUME NEW t \in Installing, PutBack(t) PROVE ChoicesTypeOK'
  <2>1. task[t].engine \in Versions
    BY <1>14 DEF PutBack, BuildsAreVersions, Does
  <2>2. /\ task' \in [Tasks -> [pc : ChoiceSteps, engine : Versions \union {Foreign}, ticket : Nat]]
        /\ locks' \in [{"choosing", "installing", "changing"} -> Tasks \union {NoTask}]
    BY <1>14, TaskKinds, FreedLocks, TaskEnded DEF PutBack, ChoicesTypeOK, ChoiceSteps
  <2> QED
    BY <1>14, <2>1, <2>2 DEF PutBack, ChoicesTypeOK, settings, world
<1>15. CASE BeginChoiceLook
  BY <1>15, TaskKinds
  DEF BeginChoiceLook, Does, Turn, settings, builds, world, ChoicesTypeOK,
      ChoiceSteps
<1>16. CASE AskRelease
  BY <1>16, TaskEnded, TaskKinds, FreedLocks
  DEF AskRelease, Does, settings, builds, world, ChoicesTypeOK, ChoiceSteps
<1>17. CASE ReadChosen
  BY <1>17, TaskEnded, TaskKinds, FreedLocks
  DEF ReadChosen, Does, Turn, settings, builds, world, ChoicesTypeOK,
      ChoiceSteps
<1>18. CASE BeginUpdate
  BY <1>18, TaskEnded, TaskKinds, FreedLocks
  DEF BeginUpdate, Does, TakesTicket, builds, world, Locks, ChoicesTypeOK,
      ChoiceSteps
<1>19. CASE WaitIdle
  BY <1>19, TaskEnded, TaskKinds, FreedLocks
  DEF WaitIdle, Does, Turn, settings, builds, world, ChoicesTypeOK, ChoiceSteps
<1>20. CASE Confirm
  BY <1>20, TaskEnded, TaskKinds, FreedLocks
  DEF Confirm, Does, Locks, Turn, settings, builds, world, ChoicesTypeOK,
      ChoiceSteps
<1>21. CASE BeginRemoval
  BY <1>21, TaskEnded, TaskKinds, FreedLocks
  DEF BeginRemoval, Does, Locks, Turn, settings, builds, world, ChoicesTypeOK,
      ChoiceSteps
<1>22. CASE SettleChoice
  BY <1>22, TaskEnded, TaskKinds, FreedLocks
  DEF SettleChoice, Does, Locks, settings, builds, world, ChoicesTypeOK,
      ChoiceSteps
<1>23. CASE HoldOption
  BY <1>23, TaskEnded, TaskKinds, FreedLocks
  DEF HoldOption, Does, Locks, Turn, settings, builds, world, ChoicesTypeOK,
      ChoiceSteps
<1>24. CASE EndRemoval
  BY <1>24, TaskEnded, TaskKinds, FreedLocks
  DEF EndRemoval, Does, settings, builds, world, ChoicesTypeOK, ChoiceSteps
<1>25. ASSUME NEW v \in Versions, RemoveOlder(v) PROVE ChoicesTypeOK'
  BY <1>25, TaskKinds
  DEF RemoveOlder, Does, settings, world, ChoicesTypeOK, ChoiceSteps
<1>26. ASSUME NEW v \in Versions, RemoveLeft(v) PROVE ChoicesTypeOK'
  BY <1>26, TaskKinds
  DEF RemoveLeft, Does, settings, world, ChoicesTypeOK, ChoiceSteps
<1>27. ASSUME NEW v \in Versions, LoseLicence(v) PROVE ChoicesTypeOK'
  BY <1>27, TaskKinds, FreedLocks, ChoicesBoundsAssumption
  DEF LoseLicence, MoreTurns, settings, ChoicesTypeOK, ChoiceSteps
<1>28. CASE SwitchOption
  BY <1>28, TaskKinds, FreedLocks, ChoicesBoundsAssumption
  DEF SwitchOption, MoreTurns, settings, builds, ChoicesTypeOK, ChoiceSteps
<1>29. CASE PublishRelease
  BY <1>29, TaskKinds, FreedLocks, ChoicesBoundsAssumption
  DEF PublishRelease, MoreTurns, settings, builds, ChoicesTypeOK, ChoiceSteps
<1>30. CASE AppEnds
  BY <1>30, TaskKinds, FreedLocks, ChoicesBoundsAssumption
  DEF AppEnds, MoreTurns, Resting, ChoicesTypeOK, ChoiceSteps
<1>31. CASE UNCHANGED choicesVars
  BY <1>31, TaskKinds
  DEF choicesVars, settings, builds, world, ChoicesTypeOK, ChoiceSteps
<1> QED
  BY <1>1, <1>2, <1>3, <1>4, <1>5, <1>6, <1>7, <1>8, <1>9, <1>10, <1>11, <1>12,
     <1>13, <1>14, <1>15, <1>16, <1>17, <1>18, <1>19, <1>20, <1>21, <1>22,
     <1>23, <1>24, <1>25, <1>26, <1>27, <1>28, <1>29, <1>30, <1>31
  DEF ChoicesNext

(* A choice, an installation and a look take their own steps.              *)
LEMMA StepsOfKindStep ==
    ASSUME ChoicesTypeOK, StepsOfTasks, ChoicesNext \/ UNCHANGED choicesVars
    PROVE  StepsOfTasks'
<1>1. ASSUME NEW c \in Choosers, PickEngine(c) PROVE StepsOfTasks'
  BY <1>1, TaskKinds
  DEF PickEngine, Does, Resting, settings, builds, world, ChoicesTypeOK,
      StepsOfTasks, ChooserSteps, InstallSteps, LookSteps, ChoiceSteps
<1>2. ASSUME NEW i \in Installs, BeginInstall(i) PROVE StepsOfTasks'
  BY <1>2, TaskKinds
  DEF BeginInstall, Does, TakesTicket, builds, world, Locks, ChoicesTypeOK,
      StepsOfTasks, ChooserSteps, InstallSteps, LookSteps, ChoiceSteps
<1>3. ASSUME NEW i \in Installs, LookUp(i) PROVE StepsOfTasks'
  BY <1>3, TaskKinds
  DEF LookUp, Does, settings, builds, world, ChoicesTypeOK, StepsOfTasks,
      ChooserSteps, InstallSteps, LookSteps, ChoiceSteps
<1>4. ASSUME NEW t \in Tasks, LockChoosing(t) PROVE StepsOfTasks'
  BY <1>4, TaskKinds
  DEF LockChoosing, Does, Locks, Turn, settings, builds, world, ChoicesTypeOK,
      StepsOfTasks, ChooserSteps, InstallSteps, LookSteps, ChoiceSteps
<1>5. ASSUME NEW t \in Tasks, Probe(t) PROVE StepsOfTasks'
  BY <1>5, TaskEnded, TaskKinds
  DEF Probe, Does, Starts, Turn, settings, builds, world, ChoicesTypeOK,
      StepsOfTasks, ChooserSteps, InstallSteps, LookSteps, ChoiceSteps
<1>6. ASSUME NEW t \in Tasks, Compare(t) PROVE StepsOfTasks'
  BY <1>6, TaskEnded, TaskKinds
  DEF Compare, Does, Turn, settings, builds, world, ChoicesTypeOK, StepsOfTasks,
      ChooserSteps, InstallSteps, LookSteps, ChoiceSteps
<1>7. ASSUME NEW t \in Tasks, SaveChoice(t) PROVE StepsOfTasks'
  BY <1>7, TaskKinds
  DEF SaveChoice, Does, Turn, builds, world, ChoicesTypeOK, StepsOfTasks,
      ChooserSteps, InstallSteps, LookSteps, ChoiceSteps
<1>8. ASSUME NEW t \in Tasks, SaveFails(t) PROVE StepsOfTasks'
  <2>1. Ends(t)
    BY <1>8 DEF SaveFails
  <2> QED
    BY <2>1, TaskKinds, TaskEnded
    DEF ChoicesTypeOK, StepsOfTasks, ChooserSteps, InstallSteps, LookSteps, ChoiceSteps
<1>9. ASSUME NEW t \in Tasks, CountChoice(t) PROVE StepsOfTasks'
  <2>1. \/ Ends(t)
        \/ t = Looker /\ task' = [task EXCEPT ![t].pc = "sweeping"]
    BY <1>9 DEF CountChoice, Turn
  <2> QED
    BY <2>1, TaskKinds, TaskEnded
    DEF ChoicesTypeOK, StepsOfTasks, ChooserSteps, InstallSteps, LookSteps, ChoiceSteps
<1>10. ASSUME NEW t \in Installing, FindInstalled(t) PROVE StepsOfTasks'
  BY <1>10, TaskKinds
  DEF FindInstalled, Does, Installed, settings, builds, world, Turn,
      ChoicesTypeOK, StepsOfTasks, ChooserSteps, InstallSteps, LookSteps,
      ChoiceSteps
<1>11. ASSUME NEW t \in Installing, InstallFails(t) PROVE StepsOfTasks'
  BY <1>11, TaskEnded, TaskKinds
  DEF InstallFails, Does, settings, builds, world, ChoicesTypeOK, StepsOfTasks,
      ChooserSteps, InstallSteps, LookSteps, ChoiceSteps
<1>12. ASSUME NEW t \in Installing, MoveAside(t) PROVE StepsOfTasks'
  BY <1>12, TaskKinds
  DEF MoveAside, Does, Turn, settings, world, ChoicesTypeOK, StepsOfTasks,
      ChooserSteps, InstallSteps, LookSteps, ChoiceSteps
<1>13. ASSUME NEW t \in Installing, PutInPlace(t) PROVE StepsOfTasks'
  BY <1>13, TaskKinds
  DEF PutInPlace, Does, Installed, settings, world, Turn, ChoicesTypeOK,
      StepsOfTasks, ChooserSteps, InstallSteps, LookSteps, ChoiceSteps
<1>14. ASSUME NEW t \in Installing, PutBack(t) PROVE StepsOfTasks'
  BY <1>14, TaskEnded, TaskKinds
  DEF PutBack, Does, settings, world, ChoicesTypeOK, StepsOfTasks, ChooserSteps,
      InstallSteps, LookSteps, ChoiceSteps
<1>15. CASE BeginChoiceLook
  BY <1>15, TaskKinds
  DEF BeginChoiceLook, Does, Turn, settings, builds, world, ChoicesTypeOK,
      StepsOfTasks, ChooserSteps, InstallSteps, LookSteps, ChoiceSteps
<1>16. CASE AskRelease
  BY <1>16, TaskEnded, TaskKinds
  DEF AskRelease, Does, settings, builds, world, ChoicesTypeOK, StepsOfTasks,
      ChooserSteps, InstallSteps, LookSteps, ChoiceSteps
<1>17. CASE ReadChosen
  BY <1>17, TaskEnded, TaskKinds
  DEF ReadChosen, Does, Turn, settings, builds, world, ChoicesTypeOK,
      StepsOfTasks, ChooserSteps, InstallSteps, LookSteps, ChoiceSteps
<1>18. CASE BeginUpdate
  BY <1>18, TaskEnded, TaskKinds
  DEF BeginUpdate, Does, TakesTicket, builds, world, Locks, ChoicesTypeOK,
      StepsOfTasks, ChooserSteps, InstallSteps, LookSteps, ChoiceSteps
<1>19. CASE WaitIdle
  BY <1>19, TaskEnded, TaskKinds
  DEF WaitIdle, Does, Turn, settings, builds, world, ChoicesTypeOK,
      StepsOfTasks, ChooserSteps, InstallSteps, LookSteps, ChoiceSteps
<1>20. CASE Confirm
  BY <1>20, TaskEnded, TaskKinds
  DEF Confirm, Does, Locks, Turn, settings, builds, world, ChoicesTypeOK,
      StepsOfTasks, ChooserSteps, InstallSteps, LookSteps, ChoiceSteps
<1>21. CASE BeginRemoval
  BY <1>21, TaskEnded, TaskKinds
  DEF BeginRemoval, Does, Locks, Turn, settings, builds, world, ChoicesTypeOK,
      StepsOfTasks, ChooserSteps, InstallSteps, LookSteps, ChoiceSteps
<1>22. CASE SettleChoice
  <2>1. \/ Ends(Looker)
        \/ task' = [task EXCEPT ![Looker].pc = "holding", ![Looker].engine = chosen]
    BY <1>22 DEF SettleChoice
  <2> QED
    BY <2>1, TaskKinds, TaskEnded DEF ChoicesTypeOK, StepsOfTasks, LookSteps, ChoiceSteps
<1>23. CASE HoldOption
  BY <1>23, TaskEnded, TaskKinds
  DEF HoldOption, Does, Locks, Turn, settings, builds, world, ChoicesTypeOK,
      StepsOfTasks, ChooserSteps, InstallSteps, LookSteps, ChoiceSteps
<1>24. CASE EndRemoval
  BY <1>24, TaskEnded, TaskKinds
  DEF EndRemoval, Does, settings, builds, world, ChoicesTypeOK, StepsOfTasks,
      ChooserSteps, InstallSteps, LookSteps, ChoiceSteps
<1>25. ASSUME NEW v \in Versions, RemoveOlder(v) PROVE StepsOfTasks'
  BY <1>25, TaskKinds
  DEF RemoveOlder, Does, settings, world, ChoicesTypeOK, StepsOfTasks,
      ChooserSteps, InstallSteps, LookSteps, ChoiceSteps
<1>26. ASSUME NEW v \in Versions, RemoveLeft(v) PROVE StepsOfTasks'
  BY <1>26, TaskKinds
  DEF RemoveLeft, Does, settings, world, ChoicesTypeOK, StepsOfTasks,
      ChooserSteps, InstallSteps, LookSteps, ChoiceSteps
<1>27. ASSUME NEW v \in Versions, LoseLicence(v) PROVE StepsOfTasks'
  BY <1>27, TaskKinds
  DEF LoseLicence, MoreTurns, settings, ChoicesTypeOK, StepsOfTasks,
      ChooserSteps, InstallSteps, LookSteps, ChoiceSteps
<1>28. CASE SwitchOption
  BY <1>28, TaskKinds
  DEF SwitchOption, MoreTurns, settings, builds, ChoicesTypeOK, StepsOfTasks,
      ChooserSteps, InstallSteps, LookSteps, ChoiceSteps
<1>29. CASE PublishRelease
  BY <1>29, TaskKinds
  DEF PublishRelease, MoreTurns, settings, builds, ChoicesTypeOK, StepsOfTasks,
      ChooserSteps, InstallSteps, LookSteps, ChoiceSteps
<1>30. CASE AppEnds
  BY <1>30, TaskKinds
  DEF AppEnds, MoreTurns, Resting, ChoicesTypeOK, StepsOfTasks, ChooserSteps,
      InstallSteps, LookSteps, ChoiceSteps
<1>31. CASE UNCHANGED choicesVars
  BY <1>31, TaskKinds
  DEF choicesVars, settings, builds, world, ChoicesTypeOK, StepsOfTasks,
      ChooserSteps, InstallSteps, LookSteps, ChoiceSteps
<1> QED
  BY <1>1, <1>2, <1>3, <1>4, <1>5, <1>6, <1>7, <1>8, <1>9, <1>10, <1>11, <1>12,
     <1>13, <1>14, <1>15, <1>16, <1>17, <1>18, <1>19, <1>20, <1>21, <1>22,
     <1>23, <1>24, <1>25, <1>26, <1>27, <1>28, <1>29, <1>30, <1>31
  DEF ChoicesNext

(* A thread takes and lets go of its locks as it steps.                    *)
LEMMA LocksStep ==
    ASSUME ChoicesTypeOK, StepsOfTasks, LocksOfSteps,
           ChoicesNext \/ UNCHANGED choicesVars
    PROVE  LocksOfSteps'
<1>1. ASSUME NEW c \in Choosers, PickEngine(c) PROVE LocksOfSteps'
  BY <1>1, TaskKinds
  DEF PickEngine, Does, Resting, settings, builds, world, ChoicesTypeOK,
      LocksOfSteps, HoldsChoosing, HoldsInstalling, HoldsChanging
<1>2. ASSUME NEW i \in Installs, BeginInstall(i) PROVE LocksOfSteps'
  BY <1>2, TaskKinds, FreedLocks
  DEF BeginInstall, Does, TakesTicket, builds, world, Locks, ChoicesTypeOK,
      LocksOfSteps, HoldsChoosing, HoldsInstalling, HoldsChanging, StepsOfTasks,
      ChooserSteps, InstallSteps, LookSteps, ChoiceSteps
<1>3. ASSUME NEW i \in Installs, LookUp(i) PROVE LocksOfSteps'
  BY <1>3, TaskKinds, FreedLocks
  DEF LookUp, Does, settings, builds, world, ChoicesTypeOK, LocksOfSteps,
      HoldsChoosing, HoldsInstalling, HoldsChanging, StepsOfTasks, ChooserSteps,
      InstallSteps, LookSteps, ChoiceSteps
<1>4. ASSUME NEW t \in Tasks, LockChoosing(t) PROVE LocksOfSteps'
  BY <1>4, TaskKinds, FreedLocks
  DEF LockChoosing, Does, Locks, Turn, settings, builds, world, ChoicesTypeOK,
      LocksOfSteps, HoldsChoosing, HoldsInstalling, HoldsChanging, StepsOfTasks,
      ChooserSteps, InstallSteps, LookSteps, ChoiceSteps
<1>5. ASSUME NEW t \in Tasks, Probe(t) PROVE LocksOfSteps'
  BY <1>5, TaskEnded, TaskKinds, FreedLocks
  DEF Probe, Does, Starts, Turn, settings, builds, world, ChoicesTypeOK,
      LocksOfSteps, HoldsChoosing, HoldsInstalling, HoldsChanging, StepsOfTasks,
      ChooserSteps, InstallSteps, LookSteps, ChoiceSteps
<1>6. ASSUME NEW t \in Tasks, Compare(t) PROVE LocksOfSteps'
  BY <1>6, TaskEnded, TaskKinds, FreedLocks
  DEF Compare, Does, Turn, settings, builds, world, ChoicesTypeOK,
      LocksOfSteps, HoldsChoosing, HoldsInstalling, HoldsChanging, StepsOfTasks,
      ChooserSteps, InstallSteps, LookSteps, ChoiceSteps
<1>7. ASSUME NEW t \in Tasks, SaveChoice(t) PROVE LocksOfSteps'
  BY <1>7, TaskKinds, FreedLocks
  DEF SaveChoice, Does, Turn, builds, world, ChoicesTypeOK, LocksOfSteps,
      HoldsChoosing, HoldsInstalling, HoldsChanging, StepsOfTasks, ChooserSteps,
      InstallSteps, LookSteps, ChoiceSteps
<1>8. ASSUME NEW t \in Tasks, SaveFails(t) PROVE LocksOfSteps'
  BY <1>8, TaskEnded, TaskKinds, FreedLocks
  DEF SaveFails, Does, settings, builds, world, ChoicesTypeOK, LocksOfSteps,
      HoldsChoosing, HoldsInstalling, HoldsChanging
<1>9. ASSUME NEW t \in Tasks, CountChoice(t) PROVE LocksOfSteps'
  BY <1>9, TaskEnded, TaskKinds, FreedLocks
  DEF CountChoice, Does, Turn, builds, world, ChoicesTypeOK, LocksOfSteps,
      HoldsChoosing, HoldsInstalling, HoldsChanging
<1>10. ASSUME NEW t \in Installing, FindInstalled(t) PROVE LocksOfSteps'
  BY <1>10, TaskKinds, FreedLocks
  DEF FindInstalled, Does, Installed, settings, builds, world, Turn,
      ChoicesTypeOK, LocksOfSteps, HoldsChoosing, HoldsInstalling,
      HoldsChanging, StepsOfTasks, ChooserSteps, InstallSteps, LookSteps,
      ChoiceSteps
<1>11. ASSUME NEW t \in Installing, InstallFails(t) PROVE LocksOfSteps'
  BY <1>11, TaskEnded, TaskKinds, FreedLocks
  DEF InstallFails, Does, settings, builds, world, ChoicesTypeOK, LocksOfSteps,
      HoldsChoosing, HoldsInstalling, HoldsChanging
<1>12. ASSUME NEW t \in Installing, MoveAside(t) PROVE LocksOfSteps'
  BY <1>12, TaskKinds, FreedLocks
  DEF MoveAside, Does, Turn, settings, world, ChoicesTypeOK, LocksOfSteps,
      HoldsChoosing, HoldsInstalling, HoldsChanging, StepsOfTasks, ChooserSteps,
      InstallSteps, LookSteps, ChoiceSteps
<1>13. ASSUME NEW t \in Installing, PutInPlace(t) PROVE LocksOfSteps'
  BY <1>13, TaskKinds, FreedLocks
  DEF PutInPlace, Does, Installed, settings, world, Turn, ChoicesTypeOK,
      LocksOfSteps, HoldsChoosing, HoldsInstalling, HoldsChanging, StepsOfTasks,
      ChooserSteps, InstallSteps, LookSteps, ChoiceSteps
<1>14. ASSUME NEW t \in Installing, PutBack(t) PROVE LocksOfSteps'
  BY <1>14, TaskEnded, TaskKinds, FreedLocks
  DEF PutBack, Does, settings, world, ChoicesTypeOK, LocksOfSteps,
      HoldsChoosing, HoldsInstalling, HoldsChanging
<1>15. CASE BeginChoiceLook
  BY <1>15, TaskKinds, FreedLocks
  DEF BeginChoiceLook, Does, Turn, settings, builds, world, ChoicesTypeOK,
      LocksOfSteps, HoldsChoosing, HoldsInstalling, HoldsChanging, StepsOfTasks,
      ChooserSteps, InstallSteps, LookSteps, ChoiceSteps
<1>16. CASE AskRelease
  BY <1>16, TaskEnded, TaskKinds, FreedLocks
  DEF AskRelease, Does, settings, builds, world, ChoicesTypeOK, LocksOfSteps,
      HoldsChoosing, HoldsInstalling, HoldsChanging
<1>17. CASE ReadChosen
  BY <1>17, TaskEnded, TaskKinds, FreedLocks
  DEF ReadChosen, Does, Turn, settings, builds, world, ChoicesTypeOK,
      LocksOfSteps, HoldsChoosing, HoldsInstalling, HoldsChanging
<1>18. CASE BeginUpdate
  BY <1>18, TaskEnded, TaskKinds, FreedLocks
  DEF BeginUpdate, Does, TakesTicket, builds, world, Locks, ChoicesTypeOK,
      LocksOfSteps, HoldsChoosing, HoldsInstalling, HoldsChanging
<1>19. CASE WaitIdle
  BY <1>19, TaskEnded, TaskKinds, FreedLocks
  DEF WaitIdle, Does, Turn, settings, builds, world, ChoicesTypeOK,
      LocksOfSteps, HoldsChoosing, HoldsInstalling, HoldsChanging
<1>20. CASE Confirm
  BY <1>20, TaskEnded, TaskKinds, FreedLocks
  DEF Confirm, Does, Locks, Turn, settings, builds, world, ChoicesTypeOK,
      LocksOfSteps, HoldsChoosing, HoldsInstalling, HoldsChanging
<1>21. CASE BeginRemoval
  BY <1>21, TaskEnded, TaskKinds, FreedLocks
  DEF BeginRemoval, Does, Locks, Turn, settings, builds, world, ChoicesTypeOK,
      LocksOfSteps, HoldsChoosing, HoldsInstalling, HoldsChanging
<1>22. CASE SettleChoice
  BY <1>22, TaskEnded, TaskKinds, FreedLocks
  DEF SettleChoice, Does, Locks, settings, builds, world, ChoicesTypeOK,
      LocksOfSteps, HoldsChoosing, HoldsInstalling, HoldsChanging, StepsOfTasks,
      ChooserSteps, InstallSteps, LookSteps, ChoiceSteps
<1>23. CASE HoldOption
  BY <1>23, TaskEnded, TaskKinds, FreedLocks
  DEF HoldOption, Does, Locks, Turn, settings, builds, world, ChoicesTypeOK,
      LocksOfSteps, HoldsChoosing, HoldsInstalling, HoldsChanging
<1>24. CASE EndRemoval
  BY <1>24, TaskEnded, TaskKinds, FreedLocks
  DEF EndRemoval, Does, settings, builds, world, ChoicesTypeOK, LocksOfSteps,
      HoldsChoosing, HoldsInstalling, HoldsChanging
<1>25. ASSUME NEW v \in Versions, RemoveOlder(v) PROVE LocksOfSteps'
  BY <1>25, TaskKinds
  DEF RemoveOlder, Does, settings, world, ChoicesTypeOK, LocksOfSteps,
      HoldsChoosing, HoldsInstalling, HoldsChanging
<1>26. ASSUME NEW v \in Versions, RemoveLeft(v) PROVE LocksOfSteps'
  BY <1>26, TaskKinds
  DEF RemoveLeft, Does, settings, world, ChoicesTypeOK, LocksOfSteps,
      HoldsChoosing, HoldsInstalling, HoldsChanging
<1>27. ASSUME NEW v \in Versions, LoseLicence(v) PROVE LocksOfSteps'
  BY <1>27, TaskKinds
  DEF LoseLicence, MoreTurns, settings, ChoicesTypeOK, LocksOfSteps,
      HoldsChoosing, HoldsInstalling, HoldsChanging
<1>28. CASE SwitchOption
  BY <1>28, TaskKinds
  DEF SwitchOption, MoreTurns, settings, builds, ChoicesTypeOK, LocksOfSteps,
      HoldsChoosing, HoldsInstalling, HoldsChanging
<1>29. CASE PublishRelease
  BY <1>29, TaskKinds
  DEF PublishRelease, MoreTurns, settings, builds, ChoicesTypeOK, LocksOfSteps,
      HoldsChoosing, HoldsInstalling, HoldsChanging
<1>30. CASE AppEnds
  BY <1>30, TaskKinds, FreedLocks
  DEF AppEnds, MoreTurns, Resting, ChoicesTypeOK, LocksOfSteps, HoldsChoosing,
      HoldsInstalling, HoldsChanging
<1>31. CASE UNCHANGED choicesVars
  BY <1>31, TaskKinds
  DEF choicesVars, settings, builds, world, ChoicesTypeOK, LocksOfSteps,
      HoldsChoosing, HoldsInstalling, HoldsChanging
<1> QED
  BY <1>1, <1>2, <1>3, <1>4, <1>5, <1>6, <1>7, <1>8, <1>9, <1>10, <1>11, <1>12,
     <1>13, <1>14, <1>15, <1>16, <1>17, <1>18, <1>19, <1>20, <1>21, <1>22,
     <1>23, <1>24, <1>25, <1>26, <1>27, <1>28, <1>29, <1>30, <1>31
  DEF ChoicesNext

(* The option is not turned off while it is held.                          *)
LEMMA OptionStep ==
    ASSUME ChoicesTypeOK, OptionIsHeld, ChoicesNext \/ UNCHANGED choicesVars
    PROVE  OptionIsHeld'
<1>1. ASSUME NEW c \in Choosers, PickEngine(c) PROVE OptionIsHeld'
  BY <1>1
  DEF PickEngine, Does, Resting, settings, builds, world, OptionIsHeld,
      ChoicesTypeOK
<1>2. ASSUME NEW i \in Installs, BeginInstall(i) PROVE OptionIsHeld'
  BY <1>2
  DEF BeginInstall, Does, TakesTicket, builds, world, Locks, OptionIsHeld,
      ChoicesTypeOK
<1>3. ASSUME NEW i \in Installs, LookUp(i) PROVE OptionIsHeld'
  BY <1>3
  DEF LookUp, Does, settings, builds, world, OptionIsHeld, ChoicesTypeOK
<1>4. ASSUME NEW t \in Tasks, LockChoosing(t) PROVE OptionIsHeld'
  BY <1>4
  DEF LockChoosing, Does, Locks, Turn, settings, builds, world, OptionIsHeld,
      ChoicesTypeOK
<1>5. ASSUME NEW t \in Tasks, Probe(t) PROVE OptionIsHeld'
  BY <1>5, TaskEnded, TaskKinds, FreedLocks
  DEF Probe, Does, Starts, Turn, settings, builds, world, OptionIsHeld,
      ChoicesTypeOK
<1>6. ASSUME NEW t \in Tasks, Compare(t) PROVE OptionIsHeld'
  BY <1>6, TaskEnded, TaskKinds, FreedLocks
  DEF Compare, Does, Turn, settings, builds, world, OptionIsHeld, ChoicesTypeOK
<1>7. ASSUME NEW t \in Tasks, SaveChoice(t) PROVE OptionIsHeld'
  BY <1>7
  DEF SaveChoice, Does, Turn, builds, world, OptionIsHeld, ChoicesTypeOK
<1>8. ASSUME NEW t \in Tasks, SaveFails(t) PROVE OptionIsHeld'
  BY <1>8, TaskEnded, TaskKinds, FreedLocks
  DEF SaveFails, Does, settings, builds, world, OptionIsHeld, ChoicesTypeOK
<1>9. ASSUME NEW t \in Tasks, CountChoice(t) PROVE OptionIsHeld'
  BY <1>9, TaskEnded, TaskKinds, FreedLocks
  DEF CountChoice, Does, Turn, builds, world, OptionIsHeld, ChoicesTypeOK
<1>10. ASSUME NEW t \in Installing, FindInstalled(t) PROVE OptionIsHeld'
  BY <1>10, TaskKinds, FreedLocks
  DEF FindInstalled, Does, Installed, settings, builds, world, Turn,
      OptionIsHeld, ChoicesTypeOK
<1>11. ASSUME NEW t \in Installing, InstallFails(t) PROVE OptionIsHeld'
  BY <1>11, TaskEnded, TaskKinds, FreedLocks
  DEF InstallFails, Does, settings, builds, world, OptionIsHeld, ChoicesTypeOK
<1>12. ASSUME NEW t \in Installing, MoveAside(t) PROVE OptionIsHeld'
  BY <1>12
  DEF MoveAside, Does, Turn, settings, world, OptionIsHeld, ChoicesTypeOK
<1>13. ASSUME NEW t \in Installing, PutInPlace(t) PROVE OptionIsHeld'
  BY <1>13, TaskKinds, FreedLocks
  DEF PutInPlace, Does, Installed, settings, world, Turn, OptionIsHeld,
      ChoicesTypeOK
<1>14. ASSUME NEW t \in Installing, PutBack(t) PROVE OptionIsHeld'
  BY <1>14, TaskEnded, TaskKinds, FreedLocks
  DEF PutBack, Does, settings, world, OptionIsHeld, ChoicesTypeOK
<1>15. CASE BeginChoiceLook
  BY <1>15
  DEF BeginChoiceLook, Does, Turn, settings, builds, world, OptionIsHeld,
      ChoicesTypeOK
<1>16. CASE AskRelease
  BY <1>16, TaskEnded, TaskKinds, FreedLocks
  DEF AskRelease, Does, settings, builds, world, OptionIsHeld, ChoicesTypeOK
<1>17. CASE ReadChosen
  BY <1>17, TaskEnded, TaskKinds, FreedLocks
  DEF ReadChosen, Does, Turn, settings, builds, world, OptionIsHeld,
      ChoicesTypeOK
<1>18. CASE BeginUpdate
  BY <1>18, TaskEnded, TaskKinds, FreedLocks
  DEF BeginUpdate, Does, TakesTicket, builds, world, Locks, OptionIsHeld,
      ChoicesTypeOK
<1>19. CASE WaitIdle
  BY <1>19, TaskEnded, TaskKinds, FreedLocks
  DEF WaitIdle, Does, Turn, settings, builds, world, OptionIsHeld,
      ChoicesTypeOK
<1>20. CASE Confirm
  BY <1>20, TaskEnded, TaskKinds, FreedLocks
  DEF Confirm, Does, Locks, Turn, settings, builds, world, OptionIsHeld,
      ChoicesTypeOK
<1>21. CASE BeginRemoval
  BY <1>21, TaskEnded, TaskKinds, FreedLocks
  DEF BeginRemoval, Does, Locks, Turn, settings, builds, world, OptionIsHeld,
      ChoicesTypeOK
<1>22. CASE SettleChoice
  BY <1>22, TaskEnded, TaskKinds, FreedLocks
  DEF SettleChoice, Does, Locks, settings, builds, world, OptionIsHeld,
      ChoicesTypeOK
<1>23. CASE HoldOption
  BY <1>23, TaskEnded, TaskKinds, FreedLocks
  DEF HoldOption, Does, Locks, Turn, settings, builds, world, OptionIsHeld,
      ChoicesTypeOK
<1>24. CASE EndRemoval
  BY <1>24, TaskEnded, TaskKinds, FreedLocks
  DEF EndRemoval, Does, settings, builds, world, OptionIsHeld, ChoicesTypeOK
<1>25. ASSUME NEW v \in Versions, RemoveOlder(v) PROVE OptionIsHeld'
  BY <1>25 DEF RemoveOlder, Does, settings, world, OptionIsHeld, ChoicesTypeOK
<1>26. ASSUME NEW v \in Versions, RemoveLeft(v) PROVE OptionIsHeld'
  BY <1>26 DEF RemoveLeft, Does, settings, world, OptionIsHeld, ChoicesTypeOK
<1>27. ASSUME NEW v \in Versions, LoseLicence(v) PROVE OptionIsHeld'
  BY <1>27 DEF LoseLicence, MoreTurns, settings, OptionIsHeld, ChoicesTypeOK
<1>28. CASE SwitchOption
  BY <1>28
  DEF SwitchOption, MoreTurns, settings, builds, OptionIsHeld, ChoicesTypeOK
<1>29. CASE PublishRelease
  BY <1>29
  DEF PublishRelease, MoreTurns, settings, builds, OptionIsHeld, ChoicesTypeOK
<1>30. CASE AppEnds
  BY <1>30 DEF AppEnds, MoreTurns, Resting, OptionIsHeld, ChoicesTypeOK
<1>31. CASE UNCHANGED choicesVars
  BY <1>31
  DEF choicesVars, settings, builds, world, OptionIsHeld, ChoicesTypeOK
<1> QED
  BY <1>1, <1>2, <1>3, <1>4, <1>5, <1>6, <1>7, <1>8, <1>9, <1>10, <1>11, <1>12,
     <1>13, <1>14, <1>15, <1>16, <1>17, <1>18, <1>19, <1>20, <1>21, <1>22,
     <1>23, <1>24, <1>25, <1>26, <1>27, <1>28, <1>29, <1>30, <1>31
  DEF ChoicesNext

(* No choice is saved while the builds older than it are removed.          *)
LEMMA BuildsStep ==
    ASSUME ChoicesTypeOK, StepsOfTasks, LocksOfSteps, BuildsAreVersions,
           ChoicesNext \/ UNCHANGED choicesVars
    PROVE  BuildsAreVersions'
<1>1. ASSUME NEW c \in Choosers, PickEngine(c) PROVE BuildsAreVersions'
  BY <1>1, TaskKinds
  DEF PickEngine, Does, Resting, settings, builds, world, BuildsAreVersions,
      ChoicesTypeOK
<1>2. ASSUME NEW i \in Installs, BeginInstall(i) PROVE BuildsAreVersions'
  BY <1>2, TaskKinds
  DEF BeginInstall, Does, TakesTicket, builds, world, Locks, BuildsAreVersions,
      ChoicesTypeOK
<1>3. ASSUME NEW i \in Installs, LookUp(i) PROVE BuildsAreVersions'
  BY <1>3, TaskKinds
  DEF LookUp, Does, settings, builds, world, BuildsAreVersions, ChoicesTypeOK
<1>4. ASSUME NEW t \in Tasks, LockChoosing(t) PROVE BuildsAreVersions'
  BY <1>4, TaskKinds
  DEF LockChoosing, Does, Locks, Turn, settings, builds, world,
      BuildsAreVersions, ChoicesTypeOK
<1>5. ASSUME NEW t \in Tasks, Probe(t) PROVE BuildsAreVersions'
  BY <1>5, TaskEnded, TaskKinds
  DEF Probe, Does, Starts, Turn, settings, builds, world, BuildsAreVersions,
      ChoicesTypeOK
<1>6. ASSUME NEW t \in Tasks, Compare(t) PROVE BuildsAreVersions'
  BY <1>6, TaskEnded, TaskKinds
  DEF Compare, Does, Turn, settings, builds, world, BuildsAreVersions,
      ChoicesTypeOK
<1>7. ASSUME NEW t \in Tasks, SaveChoice(t) PROVE BuildsAreVersions'
  BY <1>7, TaskKinds
  DEF SaveChoice, Does, Turn, builds, world, BuildsAreVersions, ChoicesTypeOK,
      LocksOfSteps, HoldsChoosing
<1>8. ASSUME NEW t \in Tasks, SaveFails(t) PROVE BuildsAreVersions'
  BY <1>8, TaskEnded, TaskKinds
  DEF SaveFails, Does, settings, builds, world, BuildsAreVersions,
      ChoicesTypeOK
<1>9. ASSUME NEW t \in Tasks, CountChoice(t) PROVE BuildsAreVersions'
  BY <1>9, TaskEnded, TaskKinds
  DEF CountChoice, Does, Turn, builds, world, BuildsAreVersions, ChoicesTypeOK
<1>10. ASSUME NEW t \in Installing, FindInstalled(t) PROVE BuildsAreVersions'
  BY <1>10, TaskKinds
  DEF FindInstalled, Does, Installed, settings, builds, world, Turn,
      BuildsAreVersions, ChoicesTypeOK
<1>11. ASSUME NEW t \in Installing, InstallFails(t) PROVE BuildsAreVersions'
  BY <1>11, TaskEnded, TaskKinds
  DEF InstallFails, Does, settings, builds, world, BuildsAreVersions,
      ChoicesTypeOK
<1>12. ASSUME NEW t \in Installing, MoveAside(t) PROVE BuildsAreVersions'
  BY <1>12, TaskKinds
  DEF MoveAside, Does, Turn, settings, world, BuildsAreVersions, ChoicesTypeOK
<1>13. ASSUME NEW t \in Installing, PutInPlace(t) PROVE BuildsAreVersions'
  BY <1>13, TaskKinds
  DEF PutInPlace, Does, Installed, settings, world, Turn, BuildsAreVersions,
      ChoicesTypeOK
<1>14. ASSUME NEW t \in Installing, PutBack(t) PROVE BuildsAreVersions'
  BY <1>14, TaskEnded, TaskKinds
  DEF PutBack, Does, settings, world, BuildsAreVersions, ChoicesTypeOK
<1>15. CASE BeginChoiceLook
  BY <1>15, TaskKinds
  DEF BeginChoiceLook, Does, Turn, settings, builds, world, BuildsAreVersions,
      ChoicesTypeOK
<1>16. CASE AskRelease
  BY <1>16, TaskEnded, TaskKinds
  DEF AskRelease, Does, settings, builds, world, BuildsAreVersions,
      ChoicesTypeOK
<1>17. CASE ReadChosen
  BY <1>17, TaskEnded, TaskKinds
  DEF ReadChosen, Does, Turn, settings, builds, world, BuildsAreVersions,
      ChoicesTypeOK
<1>18. CASE BeginUpdate
  BY <1>18, TaskEnded, TaskKinds
  DEF BeginUpdate, Does, TakesTicket, builds, world, Locks, BuildsAreVersions,
      ChoicesTypeOK
<1>19. CASE WaitIdle
  BY <1>19, TaskEnded, TaskKinds
  DEF WaitIdle, Does, Turn, settings, builds, world, BuildsAreVersions,
      ChoicesTypeOK
<1>20. CASE Confirm
  BY <1>20, TaskEnded, TaskKinds
  DEF Confirm, Does, Locks, Turn, settings, builds, world, BuildsAreVersions,
      ChoicesTypeOK
<1>21. CASE BeginRemoval
  BY <1>21, TaskEnded, TaskKinds
  DEF BeginRemoval, Does, Locks, Turn, settings, builds, world,
      BuildsAreVersions, ChoicesTypeOK
<1>22. CASE SettleChoice
  BY <1>22, TaskEnded, TaskKinds
  DEF SettleChoice, Does, Locks, settings, builds, world, BuildsAreVersions,
      ChoicesTypeOK
<1>23. CASE HoldOption
  BY <1>23, TaskEnded, TaskKinds
  DEF HoldOption, Does, Locks, Turn, settings, builds, world,
      BuildsAreVersions, ChoicesTypeOK
<1>24. CASE EndRemoval
  BY <1>24, TaskEnded, TaskKinds
  DEF EndRemoval, Does, settings, builds, world, BuildsAreVersions,
      ChoicesTypeOK
<1>25. ASSUME NEW v \in Versions, RemoveOlder(v) PROVE BuildsAreVersions'
  BY <1>25, TaskKinds
  DEF RemoveOlder, Does, settings, world, BuildsAreVersions, ChoicesTypeOK
<1>26. ASSUME NEW v \in Versions, RemoveLeft(v) PROVE BuildsAreVersions'
  BY <1>26, TaskKinds
  DEF RemoveLeft, Does, settings, world, BuildsAreVersions, ChoicesTypeOK
<1>27. ASSUME NEW v \in Versions, LoseLicence(v) PROVE BuildsAreVersions'
  BY <1>27, TaskKinds
  DEF LoseLicence, MoreTurns, settings, BuildsAreVersions, ChoicesTypeOK
<1>28. CASE SwitchOption
  BY <1>28, TaskKinds
  DEF SwitchOption, MoreTurns, settings, builds, BuildsAreVersions,
      ChoicesTypeOK
<1>29. CASE PublishRelease
  BY <1>29, TaskKinds
  DEF PublishRelease, MoreTurns, settings, builds, BuildsAreVersions,
      ChoicesTypeOK
<1>30. CASE AppEnds
  BY <1>30, TaskKinds
  DEF AppEnds, MoreTurns, Resting, BuildsAreVersions, ChoicesTypeOK
<1>31. CASE UNCHANGED choicesVars
  BY <1>31, TaskKinds
  DEF choicesVars, settings, builds, world, BuildsAreVersions, ChoicesTypeOK
<1> QED
  BY <1>1, <1>2, <1>3, <1>4, <1>5, <1>6, <1>7, <1>8, <1>9, <1>10, <1>11, <1>12,
     <1>13, <1>14, <1>15, <1>16, <1>17, <1>18, <1>19, <1>20, <1>21, <1>22,
     <1>23, <1>24, <1>25, <1>26, <1>27, <1>28, <1>29, <1>30, <1>31
  DEF ChoicesNext

(* A ticket is what was counted when it was taken.                         *)
LEMMA TicketsStep ==
    ASSUME ChoicesTypeOK, TicketsArePast, ChoicesNext \/ UNCHANGED choicesVars
    PROVE  TicketsArePast'
<1>1. ASSUME NEW c \in Choosers, PickEngine(c) PROVE TicketsArePast'
  BY <1>1, TaskKinds
  DEF PickEngine, Does, Resting, settings, builds, world, TicketsArePast,
      Ticketed, ChoicesTypeOK
<1>2. ASSUME NEW i \in Installs, BeginInstall(i) PROVE TicketsArePast'
  BY <1>2, TaskKinds
  DEF BeginInstall, Does, TakesTicket, builds, world, Locks, TicketsArePast,
      Ticketed, ChoicesTypeOK
<1>3. ASSUME NEW i \in Installs, LookUp(i) PROVE TicketsArePast'
  BY <1>3, TaskKinds
  DEF LookUp, Does, settings, builds, world, TicketsArePast, Ticketed,
      ChoicesTypeOK
<1>4. ASSUME NEW t \in Tasks, LockChoosing(t) PROVE TicketsArePast'
  BY <1>4, TaskKinds
  DEF LockChoosing, Does, Locks, Turn, settings, builds, world, TicketsArePast,
      Ticketed, ChoicesTypeOK
<1>5. ASSUME NEW t \in Tasks, Probe(t) PROVE TicketsArePast'
  BY <1>5, TaskEnded, TaskKinds
  DEF Probe, Does, Starts, Turn, settings, builds, world, TicketsArePast,
      Ticketed, ChoicesTypeOK
<1>6. ASSUME NEW t \in Tasks, Compare(t) PROVE TicketsArePast'
  BY <1>6, TaskEnded, TaskKinds
  DEF Compare, Does, Turn, settings, builds, world, TicketsArePast, Ticketed,
      ChoicesTypeOK
<1>7. ASSUME NEW t \in Tasks, SaveChoice(t) PROVE TicketsArePast'
  BY <1>7, TaskKinds
  DEF SaveChoice, Does, Turn, builds, world, TicketsArePast, Ticketed,
      ChoicesTypeOK
<1>8. ASSUME NEW t \in Tasks, SaveFails(t) PROVE TicketsArePast'
  BY <1>8, TaskEnded, TaskKinds
  DEF SaveFails, Does, settings, builds, world, TicketsArePast, Ticketed,
      ChoicesTypeOK
<1>9. ASSUME NEW t \in Tasks, CountChoice(t) PROVE TicketsArePast'
  BY <1>9, TaskEnded, TaskKinds
  DEF CountChoice, Does, Turn, builds, world, TicketsArePast, Ticketed,
      ChoicesTypeOK
<1>10. ASSUME NEW t \in Installing, FindInstalled(t) PROVE TicketsArePast'
  BY <1>10, TaskKinds
  DEF FindInstalled, Does, Installed, settings, builds, world, Turn,
      TicketsArePast, Ticketed, ChoicesTypeOK
<1>11. ASSUME NEW t \in Installing, InstallFails(t) PROVE TicketsArePast'
  BY <1>11, TaskEnded, TaskKinds
  DEF InstallFails, Does, settings, builds, world, TicketsArePast, Ticketed,
      ChoicesTypeOK
<1>12. ASSUME NEW t \in Installing, MoveAside(t) PROVE TicketsArePast'
  BY <1>12, TaskKinds
  DEF MoveAside, Does, Turn, settings, world, TicketsArePast, Ticketed,
      ChoicesTypeOK
<1>13. ASSUME NEW t \in Installing, PutInPlace(t) PROVE TicketsArePast'
  BY <1>13, TaskKinds
  DEF PutInPlace, Does, Installed, settings, world, Turn, TicketsArePast,
      Ticketed, ChoicesTypeOK
<1>14. ASSUME NEW t \in Installing, PutBack(t) PROVE TicketsArePast'
  BY <1>14, TaskEnded, TaskKinds
  DEF PutBack, Does, settings, world, TicketsArePast, Ticketed, ChoicesTypeOK
<1>15. CASE BeginChoiceLook
  BY <1>15, TaskKinds
  DEF BeginChoiceLook, Does, Turn, settings, builds, world, TicketsArePast,
      Ticketed, ChoicesTypeOK
<1>16. CASE AskRelease
  BY <1>16, TaskEnded, TaskKinds
  DEF AskRelease, Does, settings, builds, world, TicketsArePast, Ticketed,
      ChoicesTypeOK
<1>17. CASE ReadChosen
  BY <1>17, TaskEnded, TaskKinds
  DEF ReadChosen, Does, Turn, settings, builds, world, TicketsArePast,
      Ticketed, ChoicesTypeOK
<1>18. CASE BeginUpdate
  BY <1>18, TaskEnded, TaskKinds
  DEF BeginUpdate, Does, TakesTicket, builds, world, Locks, TicketsArePast,
      Ticketed, ChoicesTypeOK
<1>19. CASE WaitIdle
  BY <1>19, TaskEnded, TaskKinds
  DEF WaitIdle, Does, Turn, settings, builds, world, TicketsArePast, Ticketed,
      ChoicesTypeOK
<1>20. CASE Confirm
  BY <1>20, TaskEnded, TaskKinds
  DEF Confirm, Does, Locks, Turn, settings, builds, world, TicketsArePast,
      Ticketed, ChoicesTypeOK
<1>21. CASE BeginRemoval
  BY <1>21, TaskEnded, TaskKinds
  DEF BeginRemoval, Does, Locks, Turn, settings, builds, world, TicketsArePast,
      Ticketed, ChoicesTypeOK
<1>22. CASE SettleChoice
  BY <1>22, TaskEnded, TaskKinds
  DEF SettleChoice, Does, Locks, settings, builds, world, TicketsArePast,
      Ticketed, ChoicesTypeOK
<1>23. CASE HoldOption
  BY <1>23, TaskEnded, TaskKinds
  DEF HoldOption, Does, Locks, Turn, settings, builds, world, TicketsArePast,
      Ticketed, ChoicesTypeOK
<1>24. CASE EndRemoval
  BY <1>24, TaskEnded, TaskKinds
  DEF EndRemoval, Does, settings, builds, world, TicketsArePast, Ticketed,
      ChoicesTypeOK
<1>25. ASSUME NEW v \in Versions, RemoveOlder(v) PROVE TicketsArePast'
  BY <1>25, TaskKinds
  DEF RemoveOlder, Does, settings, world, TicketsArePast, Ticketed,
      ChoicesTypeOK
<1>26. ASSUME NEW v \in Versions, RemoveLeft(v) PROVE TicketsArePast'
  BY <1>26, TaskKinds
  DEF RemoveLeft, Does, settings, world, TicketsArePast, Ticketed,
      ChoicesTypeOK
<1>27. ASSUME NEW v \in Versions, LoseLicence(v) PROVE TicketsArePast'
  BY <1>27, TaskKinds
  DEF LoseLicence, MoreTurns, settings, TicketsArePast, Ticketed, ChoicesTypeOK
<1>28. CASE SwitchOption
  BY <1>28, TaskKinds
  DEF SwitchOption, MoreTurns, settings, builds, TicketsArePast, Ticketed,
      ChoicesTypeOK
<1>29. CASE PublishRelease
  BY <1>29, TaskKinds
  DEF PublishRelease, MoreTurns, settings, builds, TicketsArePast, Ticketed,
      ChoicesTypeOK
<1>30. CASE AppEnds
  BY <1>30, TaskKinds
  DEF AppEnds, MoreTurns, Resting, TicketsArePast, Ticketed, ChoicesTypeOK
<1>31. CASE UNCHANGED choicesVars
  BY <1>31, TaskKinds
  DEF choicesVars, settings, builds, world, TicketsArePast, Ticketed,
      ChoicesTypeOK
<1> QED
  BY <1>1, <1>2, <1>3, <1>4, <1>5, <1>6, <1>7, <1>8, <1>9, <1>10, <1>11, <1>12,
     <1>13, <1>14, <1>15, <1>16, <1>17, <1>18, <1>19, <1>20, <1>21, <1>22,
     <1>23, <1>24, <1>25, <1>26, <1>27, <1>28, <1>29, <1>30, <1>31
  DEF ChoicesNext

(* A choice that overtakes a ticket is counted before it is let go.        *)
LEMMA OvertakenStep ==
    ASSUME ChoicesTypeOK, TicketsArePast, OvertakenIsPast,
           ChoicesNext \/ UNCHANGED choicesVars
    PROVE  OvertakenIsPast'
<1>1. ASSUME NEW c \in Choosers, PickEngine(c) PROVE OvertakenIsPast'
  BY <1>1, TaskKinds
  DEF PickEngine, Does, Resting, settings, builds, world, OvertakenIsPast,
      Ticketed, ChoicesTypeOK
<1>2. ASSUME NEW i \in Installs, BeginInstall(i) PROVE OvertakenIsPast'
  BY <1>2, TaskKinds
  DEF BeginInstall, Does, TakesTicket, builds, world, Locks, OvertakenIsPast,
      Ticketed, ChoicesTypeOK
<1>3. ASSUME NEW i \in Installs, LookUp(i) PROVE OvertakenIsPast'
  BY <1>3, TaskKinds
  DEF LookUp, Does, settings, builds, world, OvertakenIsPast, Ticketed,
      ChoicesTypeOK
<1>4. ASSUME NEW t \in Tasks, LockChoosing(t) PROVE OvertakenIsPast'
  BY <1>4, TaskKinds
  DEF LockChoosing, Does, Locks, Turn, settings, builds, world,
      OvertakenIsPast, Ticketed, ChoicesTypeOK
<1>5. ASSUME NEW t \in Tasks, Probe(t) PROVE OvertakenIsPast'
  BY <1>5, TaskEnded, TaskKinds
  DEF Probe, Does, Starts, Turn, settings, builds, world, OvertakenIsPast,
      Ticketed, ChoicesTypeOK
<1>6. ASSUME NEW t \in Tasks, Compare(t) PROVE OvertakenIsPast'
  BY <1>6, TaskEnded, TaskKinds
  DEF Compare, Does, Turn, settings, builds, world, OvertakenIsPast, Ticketed,
      ChoicesTypeOK
<1>7. ASSUME NEW t \in Tasks, SaveChoice(t) PROVE OvertakenIsPast'
  BY <1>7, TaskKinds
  DEF SaveChoice, Does, Turn, builds, world, OvertakenIsPast, Ticketed,
      ChoicesTypeOK
<1>8. ASSUME NEW t \in Tasks, SaveFails(t) PROVE OvertakenIsPast'
  BY <1>8, TaskEnded, TaskKinds
  DEF SaveFails, Does, settings, builds, world, OvertakenIsPast, Ticketed,
      ChoicesTypeOK
<1>9. ASSUME NEW t \in Tasks, CountChoice(t) PROVE OvertakenIsPast'
  BY <1>9, TaskEnded, TaskKinds
  DEF CountChoice, Does, Turn, builds, world, OvertakenIsPast, Ticketed,
      ChoicesTypeOK, TicketsArePast
<1>10. ASSUME NEW t \in Installing, FindInstalled(t) PROVE OvertakenIsPast'
  BY <1>10, TaskKinds
  DEF FindInstalled, Does, Installed, settings, builds, world, Turn,
      OvertakenIsPast, Ticketed, ChoicesTypeOK
<1>11. ASSUME NEW t \in Installing, InstallFails(t) PROVE OvertakenIsPast'
  BY <1>11, TaskEnded, TaskKinds
  DEF InstallFails, Does, settings, builds, world, OvertakenIsPast, Ticketed,
      ChoicesTypeOK
<1>12. ASSUME NEW t \in Installing, MoveAside(t) PROVE OvertakenIsPast'
  BY <1>12, TaskKinds
  DEF MoveAside, Does, Turn, settings, world, OvertakenIsPast, Ticketed,
      ChoicesTypeOK
<1>13. ASSUME NEW t \in Installing, PutInPlace(t) PROVE OvertakenIsPast'
  BY <1>13, TaskKinds
  DEF PutInPlace, Does, Installed, settings, world, Turn, OvertakenIsPast,
      Ticketed, ChoicesTypeOK
<1>14. ASSUME NEW t \in Installing, PutBack(t) PROVE OvertakenIsPast'
  BY <1>14, TaskEnded, TaskKinds
  DEF PutBack, Does, settings, world, OvertakenIsPast, Ticketed, ChoicesTypeOK
<1>15. CASE BeginChoiceLook
  BY <1>15, TaskKinds
  DEF BeginChoiceLook, Does, Turn, settings, builds, world, OvertakenIsPast,
      Ticketed, ChoicesTypeOK
<1>16. CASE AskRelease
  BY <1>16, TaskEnded, TaskKinds
  DEF AskRelease, Does, settings, builds, world, OvertakenIsPast, Ticketed,
      ChoicesTypeOK
<1>17. CASE ReadChosen
  BY <1>17, TaskEnded, TaskKinds
  DEF ReadChosen, Does, Turn, settings, builds, world, OvertakenIsPast,
      Ticketed, ChoicesTypeOK, TicketsArePast
<1>18. CASE BeginUpdate
  BY <1>18, TaskEnded, TaskKinds
  DEF BeginUpdate, Does, TakesTicket, builds, world, Locks, OvertakenIsPast,
      Ticketed, ChoicesTypeOK
<1>19. CASE WaitIdle
  BY <1>19, TaskEnded, TaskKinds
  DEF WaitIdle, Does, Turn, settings, builds, world, OvertakenIsPast, Ticketed,
      ChoicesTypeOK
<1>20. CASE Confirm
  BY <1>20, TaskEnded, TaskKinds
  DEF Confirm, Does, Locks, Turn, settings, builds, world, OvertakenIsPast,
      Ticketed, ChoicesTypeOK
<1>21. CASE BeginRemoval
  BY <1>21, TaskEnded, TaskKinds
  DEF BeginRemoval, Does, Locks, Turn, settings, builds, world,
      OvertakenIsPast, Ticketed, ChoicesTypeOK
<1>22. CASE SettleChoice
  BY <1>22, TaskEnded, TaskKinds
  DEF SettleChoice, Does, Locks, settings, builds, world, OvertakenIsPast,
      Ticketed, ChoicesTypeOK
<1>23. CASE HoldOption
  BY <1>23, TaskEnded, TaskKinds
  DEF HoldOption, Does, Locks, Turn, settings, builds, world, OvertakenIsPast,
      Ticketed, ChoicesTypeOK
<1>24. CASE EndRemoval
  BY <1>24, TaskEnded, TaskKinds
  DEF EndRemoval, Does, settings, builds, world, OvertakenIsPast, Ticketed,
      ChoicesTypeOK
<1>25. ASSUME NEW v \in Versions, RemoveOlder(v) PROVE OvertakenIsPast'
  BY <1>25, TaskKinds
  DEF RemoveOlder, Does, settings, world, OvertakenIsPast, Ticketed,
      ChoicesTypeOK
<1>26. ASSUME NEW v \in Versions, RemoveLeft(v) PROVE OvertakenIsPast'
  BY <1>26, TaskKinds
  DEF RemoveLeft, Does, settings, world, OvertakenIsPast, Ticketed,
      ChoicesTypeOK
<1>27. ASSUME NEW v \in Versions, LoseLicence(v) PROVE OvertakenIsPast'
  BY <1>27, TaskKinds
  DEF LoseLicence, MoreTurns, settings, OvertakenIsPast, Ticketed, Does,
      ChoicesTypeOK
<1>28. CASE SwitchOption
  BY <1>28, TaskKinds
  DEF SwitchOption, MoreTurns, settings, builds, OvertakenIsPast, Ticketed,
      Does, ChoicesTypeOK
<1>29. CASE PublishRelease
  BY <1>29, TaskKinds
  DEF PublishRelease, MoreTurns, settings, builds, OvertakenIsPast, Ticketed,
      Does, ChoicesTypeOK
<1>30. CASE AppEnds
  BY <1>30, TaskKinds
  DEF AppEnds, MoreTurns, Resting, OvertakenIsPast, Ticketed, Does,
      ChoicesTypeOK
<1>31. CASE UNCHANGED choicesVars
  BY <1>31, TaskKinds
  DEF choicesVars, settings, builds, world, OvertakenIsPast, Ticketed, Does,
      ChoicesTypeOK
<1> QED
  BY <1>1, <1>2, <1>3, <1>4, <1>5, <1>6, <1>7, <1>8, <1>9, <1>10, <1>11, <1>12,
     <1>13, <1>14, <1>15, <1>16, <1>17, <1>18, <1>19, <1>20, <1>21, <1>22,
     <1>23, <1>24, <1>25, <1>26, <1>27, <1>28, <1>29, <1>30, <1>31
  DEF ChoicesNext

(* No choice is counted between the look at the ticket and the saving.     *)
LEMMA SavesStep ==
    ASSUME ChoicesTypeOK, StepsOfTasks, LocksOfSteps, OvertakenIsPast,
           SavesWithTicket, ChoicesNext \/ UNCHANGED choicesVars
    PROVE  SavesWithTicket'
<1>1. ASSUME NEW c \in Choosers, PickEngine(c) PROVE SavesWithTicket'
  BY <1>1, TaskKinds
  DEF PickEngine, Does, Resting, settings, builds, world, SavesWithTicket,
      ChoicesTypeOK
<1>2. ASSUME NEW i \in Installs, BeginInstall(i) PROVE SavesWithTicket'
  BY <1>2, TaskKinds
  DEF BeginInstall, Does, TakesTicket, builds, world, Locks, SavesWithTicket,
      ChoicesTypeOK
<1>3. ASSUME NEW i \in Installs, LookUp(i) PROVE SavesWithTicket'
  BY <1>3, TaskKinds
  DEF LookUp, Does, settings, builds, world, SavesWithTicket, ChoicesTypeOK
<1>4. ASSUME NEW t \in Tasks, LockChoosing(t) PROVE SavesWithTicket'
  BY <1>4, TaskKinds
  DEF LockChoosing, Does, Locks, Turn, settings, builds, world,
      SavesWithTicket, ChoicesTypeOK
<1>5. ASSUME NEW t \in Tasks, Probe(t) PROVE SavesWithTicket'
  BY <1>5, TaskEnded, TaskKinds
  DEF Probe, Does, Starts, Turn, settings, builds, world, SavesWithTicket,
      ChoicesTypeOK
<1>6. ASSUME NEW t \in Tasks, Compare(t) PROVE SavesWithTicket'
  BY <1>6, TaskEnded, TaskKinds
  DEF Compare, Does, Turn, settings, builds, world, SavesWithTicket,
      ChoicesTypeOK, LocksOfSteps, HoldsChoosing, OvertakenIsPast, Ticketed
<1>7. ASSUME NEW t \in Tasks, SaveChoice(t) PROVE SavesWithTicket'
  BY <1>7, TaskKinds
  DEF SaveChoice, Does, Turn, builds, world, SavesWithTicket, ChoicesTypeOK,
      LocksOfSteps, HoldsChoosing
<1>8. ASSUME NEW t \in Tasks, SaveFails(t) PROVE SavesWithTicket'
  BY <1>8, TaskEnded, TaskKinds
  DEF SaveFails, Does, settings, builds, world, SavesWithTicket, ChoicesTypeOK
<1>9. ASSUME NEW t \in Tasks, CountChoice(t) PROVE SavesWithTicket'
  BY <1>9, TaskEnded, TaskKinds
  DEF CountChoice, Does, Turn, builds, world, SavesWithTicket, ChoicesTypeOK,
      LocksOfSteps, HoldsChoosing
<1>10. ASSUME NEW t \in Installing, FindInstalled(t) PROVE SavesWithTicket'
  BY <1>10, TaskKinds
  DEF FindInstalled, Does, Installed, settings, builds, world, Turn,
      SavesWithTicket, ChoicesTypeOK
<1>11. ASSUME NEW t \in Installing, InstallFails(t) PROVE SavesWithTicket'
  BY <1>11, TaskEnded, TaskKinds
  DEF InstallFails, Does, settings, builds, world, SavesWithTicket,
      ChoicesTypeOK
<1>12. ASSUME NEW t \in Installing, MoveAside(t) PROVE SavesWithTicket'
  BY <1>12, TaskKinds
  DEF MoveAside, Does, Turn, settings, world, SavesWithTicket, ChoicesTypeOK
<1>13. ASSUME NEW t \in Installing, PutInPlace(t) PROVE SavesWithTicket'
  BY <1>13, TaskKinds
  DEF PutInPlace, Does, Installed, settings, world, Turn, SavesWithTicket,
      ChoicesTypeOK
<1>14. ASSUME NEW t \in Installing, PutBack(t) PROVE SavesWithTicket'
  BY <1>14, TaskEnded, TaskKinds
  DEF PutBack, Does, settings, world, SavesWithTicket, ChoicesTypeOK
<1>15. CASE BeginChoiceLook
  BY <1>15, TaskKinds
  DEF BeginChoiceLook, Does, Turn, settings, builds, world, SavesWithTicket,
      ChoicesTypeOK
<1>16. CASE AskRelease
  BY <1>16, TaskEnded, TaskKinds
  DEF AskRelease, Does, settings, builds, world, SavesWithTicket, ChoicesTypeOK
<1>17. CASE ReadChosen
  BY <1>17, TaskEnded, TaskKinds
  DEF ReadChosen, Does, Turn, settings, builds, world, SavesWithTicket,
      ChoicesTypeOK
<1>18. CASE BeginUpdate
  BY <1>18, TaskEnded, TaskKinds
  DEF BeginUpdate, Does, TakesTicket, builds, world, Locks, SavesWithTicket,
      ChoicesTypeOK
<1>19. CASE WaitIdle
  BY <1>19, TaskEnded, TaskKinds
  DEF WaitIdle, Does, Turn, settings, builds, world, SavesWithTicket,
      ChoicesTypeOK
<1>20. CASE Confirm
  BY <1>20, TaskEnded, TaskKinds
  DEF Confirm, Does, Locks, Turn, settings, builds, world, SavesWithTicket,
      ChoicesTypeOK
<1>21. CASE BeginRemoval
  BY <1>21, TaskEnded, TaskKinds
  DEF BeginRemoval, Does, Locks, Turn, settings, builds, world,
      SavesWithTicket, ChoicesTypeOK
<1>22. CASE SettleChoice
  BY <1>22, TaskEnded, TaskKinds
  DEF SettleChoice, Does, Locks, settings, builds, world, SavesWithTicket,
      ChoicesTypeOK
<1>23. CASE HoldOption
  BY <1>23, TaskEnded, TaskKinds
  DEF HoldOption, Does, Locks, Turn, settings, builds, world, SavesWithTicket,
      ChoicesTypeOK
<1>24. CASE EndRemoval
  BY <1>24, TaskEnded, TaskKinds
  DEF EndRemoval, Does, settings, builds, world, SavesWithTicket, ChoicesTypeOK
<1>25. ASSUME NEW v \in Versions, RemoveOlder(v) PROVE SavesWithTicket'
  BY <1>25, TaskKinds
  DEF RemoveOlder, Does, settings, world, SavesWithTicket, ChoicesTypeOK
<1>26. ASSUME NEW v \in Versions, RemoveLeft(v) PROVE SavesWithTicket'
  BY <1>26, TaskKinds
  DEF RemoveLeft, Does, settings, world, SavesWithTicket, ChoicesTypeOK
<1>27. ASSUME NEW v \in Versions, LoseLicence(v) PROVE SavesWithTicket'
  BY <1>27, TaskKinds
  DEF LoseLicence, MoreTurns, settings, SavesWithTicket, ChoicesTypeOK
<1>28. CASE SwitchOption
  BY <1>28, TaskKinds
  DEF SwitchOption, MoreTurns, settings, builds, SavesWithTicket, ChoicesTypeOK
<1>29. CASE PublishRelease
  BY <1>29, TaskKinds
  DEF PublishRelease, MoreTurns, settings, builds, SavesWithTicket,
      ChoicesTypeOK
<1>30. CASE AppEnds
  BY <1>30, TaskKinds
  DEF AppEnds, MoreTurns, Resting, SavesWithTicket, ChoicesTypeOK
<1>31. CASE UNCHANGED choicesVars
  BY <1>31, TaskKinds
  DEF choicesVars, settings, builds, world, SavesWithTicket, ChoicesTypeOK
<1> QED
  BY <1>1, <1>2, <1>3, <1>4, <1>5, <1>6, <1>7, <1>8, <1>9, <1>10, <1>11, <1>12,
     <1>13, <1>14, <1>15, <1>16, <1>17, <1>18, <1>19, <1>20, <1>21, <1>22,
     <1>23, <1>24, <1>25, <1>26, <1>27, <1>28, <1>29, <1>30, <1>31
  DEF ChoicesNext

(* A folder moved aside stays away until its build is put in place.        *)
LEMMA MovedStep ==
    ASSUME ChoicesTypeOK, StepsOfTasks, LocksOfSteps, BuildsAreVersions,
           MovedAside, ChoicesNext \/ UNCHANGED choicesVars
    PROVE  MovedAside'
<1>1. ASSUME NEW c \in Choosers, PickEngine(c) PROVE MovedAside'
  BY <1>1, TaskKinds
  DEF PickEngine, Does, Resting, settings, builds, world, MovedAside,
      ChoicesTypeOK
<1>2. ASSUME NEW i \in Installs, BeginInstall(i) PROVE MovedAside'
  BY <1>2, TaskKinds
  DEF BeginInstall, Does, TakesTicket, builds, world, Locks, MovedAside,
      ChoicesTypeOK
<1>3. ASSUME NEW i \in Installs, LookUp(i) PROVE MovedAside'
  BY <1>3, TaskKinds
  DEF LookUp, Does, settings, builds, world, MovedAside, ChoicesTypeOK
<1>4. ASSUME NEW t \in Tasks, LockChoosing(t) PROVE MovedAside'
  BY <1>4, TaskKinds
  DEF LockChoosing, Does, Locks, Turn, settings, builds, world, MovedAside,
      ChoicesTypeOK
<1>5. ASSUME NEW t \in Tasks, Probe(t) PROVE MovedAside'
  BY <1>5, TaskEnded, TaskKinds
  DEF Probe, Does, Starts, Turn, settings, builds, world, MovedAside,
      ChoicesTypeOK
<1>6. ASSUME NEW t \in Tasks, Compare(t) PROVE MovedAside'
  BY <1>6, TaskEnded, TaskKinds
  DEF Compare, Does, Turn, settings, builds, world, MovedAside, ChoicesTypeOK
<1>7. ASSUME NEW t \in Tasks, SaveChoice(t) PROVE MovedAside'
  BY <1>7, TaskKinds
  DEF SaveChoice, Does, Turn, builds, world, MovedAside, ChoicesTypeOK
<1>8. ASSUME NEW t \in Tasks, SaveFails(t) PROVE MovedAside'
  BY <1>8, TaskEnded, TaskKinds
  DEF SaveFails, Does, settings, builds, world, MovedAside, ChoicesTypeOK
<1>9. ASSUME NEW t \in Tasks, CountChoice(t) PROVE MovedAside'
  BY <1>9, TaskEnded, TaskKinds
  DEF CountChoice, Does, Turn, builds, world, MovedAside, ChoicesTypeOK
<1>10. ASSUME NEW t \in Installing, FindInstalled(t) PROVE MovedAside'
  BY <1>10, TaskKinds
  DEF FindInstalled, Does, Installed, settings, builds, world, Turn,
      MovedAside, ChoicesTypeOK
<1>11. ASSUME NEW t \in Installing, InstallFails(t) PROVE MovedAside'
  BY <1>11, TaskEnded, TaskKinds
  DEF InstallFails, Does, settings, builds, world, MovedAside, ChoicesTypeOK
<1>12. ASSUME NEW t \in Installing, MoveAside(t) PROVE MovedAside'
  BY <1>12, TaskKinds
  DEF MoveAside, Does, Turn, settings, world, MovedAside, ChoicesTypeOK,
      BuildsAreVersions
<1>13. ASSUME NEW t \in Installing, PutInPlace(t) PROVE MovedAside'
  BY <1>13, TaskKinds
  DEF PutInPlace, Does, Installed, settings, world, Turn, MovedAside,
      ChoicesTypeOK, BuildsAreVersions, LocksOfSteps, HoldsInstalling,
      StepsOfTasks, ChooserSteps, InstallSteps, LookSteps, ChoiceSteps
<1>14. ASSUME NEW t \in Installing, PutBack(t) PROVE MovedAside'
  BY <1>14, TaskEnded, TaskKinds
  DEF PutBack, Does, settings, world, MovedAside, ChoicesTypeOK,
      BuildsAreVersions, LocksOfSteps, HoldsInstalling, StepsOfTasks,
      ChooserSteps, InstallSteps, LookSteps, ChoiceSteps
<1>15. CASE BeginChoiceLook
  BY <1>15, TaskKinds
  DEF BeginChoiceLook, Does, Turn, settings, builds, world, MovedAside,
      ChoicesTypeOK
<1>16. CASE AskRelease
  BY <1>16, TaskEnded, TaskKinds
  DEF AskRelease, Does, settings, builds, world, MovedAside, ChoicesTypeOK
<1>17. CASE ReadChosen
  BY <1>17, TaskEnded, TaskKinds
  DEF ReadChosen, Does, Turn, settings, builds, world, MovedAside,
      ChoicesTypeOK
<1>18. CASE BeginUpdate
  BY <1>18, TaskEnded, TaskKinds
  DEF BeginUpdate, Does, TakesTicket, builds, world, Locks, MovedAside,
      ChoicesTypeOK
<1>19. CASE WaitIdle
  BY <1>19, TaskEnded, TaskKinds
  DEF WaitIdle, Does, Turn, settings, builds, world, MovedAside, ChoicesTypeOK
<1>20. CASE Confirm
  BY <1>20, TaskEnded, TaskKinds
  DEF Confirm, Does, Locks, Turn, settings, builds, world, MovedAside,
      ChoicesTypeOK
<1>21. CASE BeginRemoval
  BY <1>21, TaskEnded, TaskKinds
  DEF BeginRemoval, Does, Locks, Turn, settings, builds, world, MovedAside,
      ChoicesTypeOK
<1>22. CASE SettleChoice
  BY <1>22, TaskEnded, TaskKinds
  DEF SettleChoice, Does, Locks, settings, builds, world, MovedAside,
      ChoicesTypeOK
<1>23. CASE HoldOption
  BY <1>23, TaskEnded, TaskKinds
  DEF HoldOption, Does, Locks, Turn, settings, builds, world, MovedAside,
      ChoicesTypeOK
<1>24. CASE EndRemoval
  BY <1>24, TaskEnded, TaskKinds
  DEF EndRemoval, Does, settings, builds, world, MovedAside, ChoicesTypeOK
<1>25. ASSUME NEW v \in Versions, RemoveOlder(v) PROVE MovedAside'
  BY <1>25, TaskKinds
  DEF RemoveOlder, Does, settings, world, MovedAside, ChoicesTypeOK
<1>26. ASSUME NEW v \in Versions, RemoveLeft(v) PROVE MovedAside'
  BY <1>26, TaskKinds
  DEF RemoveLeft, Does, settings, world, MovedAside, ChoicesTypeOK
<1>27. ASSUME NEW v \in Versions, LoseLicence(v) PROVE MovedAside'
  BY <1>27, TaskKinds
  DEF LoseLicence, MoreTurns, settings, MovedAside, Does, ChoicesTypeOK
<1>28. CASE SwitchOption
  BY <1>28, TaskKinds
  DEF SwitchOption, MoreTurns, settings, builds, MovedAside, Does,
      ChoicesTypeOK
<1>29. CASE PublishRelease
  BY <1>29, TaskKinds
  DEF PublishRelease, MoreTurns, settings, builds, MovedAside, Does,
      ChoicesTypeOK
<1>30. CASE AppEnds
  BY <1>30, TaskKinds
  DEF AppEnds, MoreTurns, Resting, MovedAside, Does, ChoicesTypeOK
<1>31. CASE UNCHANGED choicesVars
  BY <1>31, TaskKinds
  DEF choicesVars, settings, builds, world, MovedAside, Does, ChoicesTypeOK
<1> QED
  BY <1>1, <1>2, <1>3, <1>4, <1>5, <1>6, <1>7, <1>8, <1>9, <1>10, <1>11, <1>12,
     <1>13, <1>14, <1>15, <1>16, <1>17, <1>18, <1>19, <1>20, <1>21, <1>22,
     <1>23, <1>24, <1>25, <1>26, <1>27, <1>28, <1>29, <1>30, <1>31
  DEF ChoicesNext

(* What is wanted and not there as it is replaced was lost before.         *)
LEMMA NothingStep ==
    ASSUME ChoicesTypeOK, StepsOfTasks, LocksOfSteps, BuildsAreVersions,
           MovedAside, NothingAside, WantedIsThere,
           ChoicesNext \/ UNCHANGED choicesVars
    PROVE  NothingAside'
<1>1. ASSUME NEW c \in Choosers, PickEngine(c) PROVE NothingAside'
  BY <1>1, TaskKinds
  DEF PickEngine, Does, Resting, settings, builds, world, NothingAside, Wanted,
      Probed, Replaces, ChoicesTypeOK
<1>2. ASSUME NEW i \in Installs, BeginInstall(i) PROVE NothingAside'
  BY <1>2, TaskKinds
  DEF BeginInstall, Does, TakesTicket, builds, world, Locks, NothingAside,
      Wanted, Probed, Replaces, ChoicesTypeOK
<1>3. ASSUME NEW i \in Installs, LookUp(i) PROVE NothingAside'
  BY <1>3, TaskKinds
  DEF LookUp, Does, settings, builds, world, NothingAside, Wanted, Probed,
      Replaces, ChoicesTypeOK
<1>4. ASSUME NEW t \in Tasks, LockChoosing(t) PROVE NothingAside'
  BY <1>4, TaskKinds
  DEF LockChoosing, Does, Locks, Turn, settings, builds, world, NothingAside,
      Wanted, Probed, Replaces, ChoicesTypeOK
<1>5. ASSUME NEW t \in Tasks, Probe(t) PROVE NothingAside'
  BY <1>5, TaskEnded, TaskKinds
  DEF Probe, Does, Starts, Turn, settings, builds, world, NothingAside, Wanted,
      Probed, Replaces, ChoicesTypeOK, BuildsAreVersions, MovedAside
<1>6. ASSUME NEW t \in Tasks, Compare(t) PROVE NothingAside'
  BY <1>6, TaskEnded, TaskKinds
  DEF Compare, Does, Turn, settings, builds, world, NothingAside, Wanted,
      Probed, Replaces, ChoicesTypeOK
<1>7. ASSUME NEW t \in Tasks, SaveChoice(t) PROVE NothingAside'
  BY <1>7, TaskKinds
  DEF SaveChoice, Does, Turn, builds, world, NothingAside, Wanted, Probed,
      Replaces, ChoicesTypeOK
<1>8. ASSUME NEW t \in Tasks, SaveFails(t) PROVE NothingAside'
  BY <1>8, TaskEnded, TaskKinds
  DEF SaveFails, Does, settings, builds, world, NothingAside, Wanted, Probed,
      Replaces, ChoicesTypeOK
<1>9. ASSUME NEW t \in Tasks, CountChoice(t) PROVE NothingAside'
  BY <1>9, TaskEnded, TaskKinds
  DEF CountChoice, Does, Turn, builds, world, NothingAside, Wanted, Probed,
      Replaces, ChoicesTypeOK
<1>10. ASSUME NEW t \in Installing, FindInstalled(t) PROVE NothingAside'
  BY <1>10, TaskKinds
  DEF FindInstalled, Does, Installed, settings, builds, world, Turn,
      NothingAside, Wanted, Probed, Replaces, ChoicesTypeOK
<1>11. ASSUME NEW t \in Installing, InstallFails(t) PROVE NothingAside'
  BY <1>11, TaskEnded, TaskKinds
  DEF InstallFails, Does, settings, builds, world, NothingAside, Wanted,
      Probed, Replaces, ChoicesTypeOK
<1>12. ASSUME NEW t \in Installing, MoveAside(t) PROVE NothingAside'
  BY <1>12, TaskKinds
  DEF MoveAside, Does, Turn, settings, world, NothingAside, Wanted, Probed,
      Replaces, ChoicesTypeOK, BuildsAreVersions, MovedAside, WantedIsThere,
      LocksOfSteps, HoldsInstalling, StepsOfTasks, ChooserSteps, InstallSteps,
      LookSteps, ChoiceSteps
<1>13. ASSUME NEW t \in Installing, PutInPlace(t) PROVE NothingAside'
  BY <1>13, TaskKinds
  DEF PutInPlace, Does, Installed, settings, world, Turn, NothingAside, Wanted,
      Probed, Replaces, ChoicesTypeOK, BuildsAreVersions, MovedAside,
      WantedIsThere, LocksOfSteps, HoldsInstalling, StepsOfTasks, ChooserSteps,
      InstallSteps, LookSteps, ChoiceSteps
<1>14. ASSUME NEW t \in Installing, PutBack(t) PROVE NothingAside'
  BY <1>14, TaskEnded, TaskKinds
  DEF PutBack, Does, settings, world, NothingAside, Wanted, Probed, Replaces,
      ChoicesTypeOK, BuildsAreVersions, MovedAside, WantedIsThere,
      LocksOfSteps, HoldsInstalling, StepsOfTasks, ChooserSteps, InstallSteps,
      LookSteps, ChoiceSteps
<1>15. CASE BeginChoiceLook
  BY <1>15, TaskKinds
  DEF BeginChoiceLook, Does, Turn, settings, builds, world, NothingAside,
      Wanted, Probed, Replaces, ChoicesTypeOK
<1>16. CASE AskRelease
  BY <1>16, TaskEnded, TaskKinds
  DEF AskRelease, Does, settings, builds, world, NothingAside, Wanted, Probed,
      Replaces, ChoicesTypeOK
<1>17. CASE ReadChosen
  BY <1>17, TaskEnded, TaskKinds
  DEF ReadChosen, Does, Turn, settings, builds, world, NothingAside, Wanted,
      Probed, Replaces, ChoicesTypeOK
<1>18. CASE BeginUpdate
  BY <1>18, TaskEnded, TaskKinds
  DEF BeginUpdate, Does, TakesTicket, builds, world, Locks, NothingAside,
      Wanted, Probed, Replaces, ChoicesTypeOK
<1>19. CASE WaitIdle
  BY <1>19, TaskEnded, TaskKinds
  DEF WaitIdle, Does, Turn, settings, builds, world, NothingAside, Wanted,
      Probed, Replaces, ChoicesTypeOK
<1>20. CASE Confirm
  BY <1>20, TaskEnded, TaskKinds
  DEF Confirm, Does, Locks, Turn, settings, builds, world, NothingAside,
      Wanted, Probed, Replaces, ChoicesTypeOK
<1>21. CASE BeginRemoval
  BY <1>21, TaskEnded, TaskKinds
  DEF BeginRemoval, Does, Locks, Turn, settings, builds, world, NothingAside,
      Wanted, Probed, Replaces, ChoicesTypeOK
<1>22. CASE SettleChoice
  BY <1>22, TaskEnded, TaskKinds
  DEF SettleChoice, Does, Locks, settings, builds, world, NothingAside, Wanted,
      Probed, Replaces, ChoicesTypeOK
<1>23. CASE HoldOption
  BY <1>23, TaskEnded, TaskKinds
  DEF HoldOption, Does, Locks, Turn, settings, builds, world, NothingAside,
      Wanted, Probed, Replaces, ChoicesTypeOK
<1>24. CASE EndRemoval
  BY <1>24, TaskEnded, TaskKinds
  DEF EndRemoval, Does, settings, builds, world, NothingAside, Wanted, Probed,
      Replaces, ChoicesTypeOK
<1>25. ASSUME NEW v \in Versions, RemoveOlder(v) PROVE NothingAside'
  BY <1>25, TaskKinds
  DEF RemoveOlder, Does, settings, world, NothingAside, Wanted, Probed,
      Replaces, ChoicesTypeOK
<1>26. ASSUME NEW v \in Versions, RemoveLeft(v) PROVE NothingAside'
  BY <1>26, TaskKinds
  DEF RemoveLeft, Does, settings, world, NothingAside, Wanted, Probed,
      Replaces, ChoicesTypeOK
<1>27. ASSUME NEW v \in Versions, LoseLicence(v) PROVE NothingAside'
  BY <1>27, TaskKinds
  DEF LoseLicence, MoreTurns, settings, NothingAside, Wanted, Probed, Replaces,
      Does, ChoicesTypeOK
<1>28. CASE SwitchOption
  BY <1>28, TaskKinds
  DEF SwitchOption, MoreTurns, settings, builds, NothingAside, Wanted, Probed,
      Replaces, Does, ChoicesTypeOK
<1>29. CASE PublishRelease
  BY <1>29, TaskKinds
  DEF PublishRelease, MoreTurns, settings, builds, NothingAside, Wanted,
      Probed, Replaces, Does, ChoicesTypeOK
<1>30. CASE AppEnds
  BY <1>30, TaskKinds
  DEF AppEnds, MoreTurns, Resting, NothingAside, Wanted, Probed, Replaces,
      Does, ChoicesTypeOK
<1>31. CASE UNCHANGED choicesVars
  BY <1>31, TaskKinds
  DEF choicesVars, settings, builds, world, NothingAside, Wanted, Probed,
      Replaces, Does, ChoicesTypeOK
<1> QED
  BY <1>1, <1>2, <1>3, <1>4, <1>5, <1>6, <1>7, <1>8, <1>9, <1>10, <1>11, <1>12,
     <1>13, <1>14, <1>15, <1>16, <1>17, <1>18, <1>19, <1>20, <1>21, <1>22,
     <1>23, <1>24, <1>25, <1>26, <1>27, <1>28, <1>29, <1>30, <1>31
  DEF ChoicesNext

(* What is wanted is there, or replaced, or was lost before.               *)
LEMMA WantedStep ==
    ASSUME ChoicesTypeOK, StepsOfTasks, LocksOfSteps, BuildsAreVersions,
           MovedAside, NothingAside, WantedIsThere,
           ChoicesNext \/ UNCHANGED choicesVars
    PROVE  WantedIsThere'
<1>1. ASSUME NEW c \in Choosers, PickEngine(c) PROVE WantedIsThere'
  BY <1>1, TaskKinds
  DEF PickEngine, Does, Resting, settings, builds, world, WantedIsThere,
      Wanted, Probed, Replaces, ChoicesTypeOK
<1>2. ASSUME NEW i \in Installs, BeginInstall(i) PROVE WantedIsThere'
  BY <1>2, TaskKinds
  DEF BeginInstall, Does, TakesTicket, builds, world, Locks, WantedIsThere,
      Wanted, Probed, Replaces, ChoicesTypeOK, BuildsAreVersions
<1>3. ASSUME NEW i \in Installs, LookUp(i) PROVE WantedIsThere'
  BY <1>3, TaskKinds
  DEF LookUp, Does, settings, builds, world, WantedIsThere, Wanted, Probed,
      Replaces, ChoicesTypeOK
<1>4. ASSUME NEW t \in Tasks, LockChoosing(t) PROVE WantedIsThere'
  BY <1>4, TaskKinds
  DEF LockChoosing, Does, Locks, Turn, settings, builds, world, WantedIsThere,
      Wanted, Probed, Replaces, ChoicesTypeOK
<1>5. ASSUME NEW t \in Tasks, Probe(t) PROVE WantedIsThere'
  BY <1>5, TaskEnded, TaskKinds
  DEF Probe, Does, Starts, Turn, settings, builds, world, WantedIsThere,
      Wanted, Probed, Replaces, ChoicesTypeOK
<1>6. ASSUME NEW t \in Tasks, Compare(t) PROVE WantedIsThere'
  BY <1>6, TaskEnded, TaskKinds
  DEF Compare, Does, Turn, settings, builds, world, WantedIsThere, Wanted,
      Probed, Replaces, ChoicesTypeOK, BuildsAreVersions
<1>7. ASSUME NEW t \in Tasks, SaveChoice(t) PROVE WantedIsThere'
  BY <1>7, TaskKinds
  DEF SaveChoice, Does, Turn, builds, world, WantedIsThere, Wanted, Probed,
      Replaces, ChoicesTypeOK
<1>8. ASSUME NEW t \in Tasks, SaveFails(t) PROVE WantedIsThere'
  BY <1>8, TaskEnded, TaskKinds
  DEF SaveFails, Does, settings, builds, world, WantedIsThere, Wanted, Probed,
      Replaces, ChoicesTypeOK
<1>9. ASSUME NEW t \in Tasks, CountChoice(t) PROVE WantedIsThere'
  BY <1>9, TaskEnded, TaskKinds
  DEF CountChoice, Does, Turn, builds, world, WantedIsThere, Wanted, Probed,
      Replaces, ChoicesTypeOK
<1>10. ASSUME NEW t \in Installing, FindInstalled(t) PROVE WantedIsThere'
  BY <1>10, TaskKinds
  DEF FindInstalled, Does, Installed, settings, builds, world, Turn,
      WantedIsThere, Wanted, Probed, Replaces, ChoicesTypeOK
<1>11. ASSUME NEW t \in Installing, InstallFails(t) PROVE WantedIsThere'
  BY <1>11, TaskEnded, TaskKinds
  DEF InstallFails, Does, settings, builds, world, WantedIsThere, Wanted,
      Probed, Replaces, ChoicesTypeOK
<1>12. ASSUME NEW t \in Installing, MoveAside(t) PROVE WantedIsThere'
  BY <1>12, TaskKinds
  DEF MoveAside, Does, Turn, settings, world, WantedIsThere, Wanted, Probed,
      Replaces, ChoicesTypeOK
<1>13. ASSUME NEW t \in Installing, PutInPlace(t) PROVE WantedIsThere'
  BY <1>13, TaskKinds
  DEF PutInPlace, Does, Installed, settings, world, Turn, WantedIsThere,
      Wanted, Probed, Replaces, ChoicesTypeOK
<1>14. ASSUME NEW t \in Installing, PutBack(t) PROVE WantedIsThere'
  BY <1>14, TaskEnded, TaskKinds
  DEF PutBack, Does, settings, world, WantedIsThere, Wanted, Probed, Replaces,
      ChoicesTypeOK, BuildsAreVersions, MovedAside, NothingAside
<1>15. CASE BeginChoiceLook
  BY <1>15, TaskKinds
  DEF BeginChoiceLook, Does, Turn, settings, builds, world, WantedIsThere,
      Wanted, Probed, Replaces, ChoicesTypeOK
<1>16. CASE AskRelease
  BY <1>16, TaskEnded, TaskKinds
  DEF AskRelease, Does, settings, builds, world, WantedIsThere, Wanted, Probed,
      Replaces, ChoicesTypeOK
<1>17. CASE ReadChosen
  BY SMTT(60), <1>17, TaskEnded, TaskKinds
  DEF ReadChosen, Does, Turn, settings, builds, world, WantedIsThere, Wanted,
      Probed, Replaces, ChoicesTypeOK
<1>18. CASE BeginUpdate
  BY <1>18, TaskEnded, TaskKinds
  DEF BeginUpdate, Does, TakesTicket, builds, world, Locks, WantedIsThere,
      Wanted, Probed, Replaces, ChoicesTypeOK, BuildsAreVersions
<1>19. CASE WaitIdle
  BY <1>19, TaskEnded, TaskKinds
  DEF WaitIdle, Does, Turn, settings, builds, world, WantedIsThere, Wanted,
      Probed, Replaces, ChoicesTypeOK
<1>20. CASE Confirm
  BY <1>20, TaskEnded, TaskKinds
  DEF Confirm, Does, Locks, Turn, settings, builds, world, WantedIsThere,
      Wanted, Probed, Replaces, ChoicesTypeOK
<1>21. CASE BeginRemoval
  BY <1>21, TaskEnded, TaskKinds
  DEF BeginRemoval, Does, Locks, Turn, settings, builds, world, WantedIsThere,
      Wanted, Probed, Replaces, ChoicesTypeOK
<1>22. CASE SettleChoice
  BY <1>22, TaskEnded, TaskKinds
  DEF SettleChoice, Does, Locks, settings, builds, world, WantedIsThere,
      Wanted, Probed, Replaces, ChoicesTypeOK
<1>23. CASE HoldOption
  BY <1>23, TaskEnded, TaskKinds
  DEF HoldOption, Does, Locks, Turn, settings, builds, world, WantedIsThere,
      Wanted, Probed, Replaces, ChoicesTypeOK
<1>24. CASE EndRemoval
  BY <1>24, TaskEnded, TaskKinds
  DEF EndRemoval, Does, settings, builds, world, WantedIsThere, Wanted, Probed,
      Replaces, ChoicesTypeOK
<1>25. ASSUME NEW v \in Versions, RemoveOlder(v) PROVE WantedIsThere'
  <2>1. /\ task[Looker].pc = "removing" /\ v < chosen /\ chosen \in Versions
        /\ task' = task /\ chosen' = chosen /\ cutShort' = cutShort
        /\ buildFolder' = [buildFolder EXCEPT ![v] = "none"]
    BY <1>25 DEF RemoveOlder, Does, settings, BuildsAreVersions
  <2>2. \A t \in Tasks : task[t].pc \notin Probed
    BY <2>1, TaskKinds DEF LocksOfSteps, HoldsChoosing, Probed
  <2>3. ~Wanted(v)'
    BY <2>1, <2>2 DEF Wanted, Versions
  <2> QED
    BY <2>1, <2>3 DEF ChoicesTypeOK, WantedIsThere, Wanted, Replaces, Does
<1>26. ASSUME NEW v \in Versions, RemoveLeft(v) PROVE WantedIsThere'
  BY <1>26, TaskKinds
  DEF RemoveLeft, Does, settings, world, WantedIsThere, Wanted, Probed,
      Replaces, ChoicesTypeOK
<1>27. ASSUME NEW v \in Versions, LoseLicence(v) PROVE WantedIsThere'
  BY <1>27, TaskKinds
  DEF LoseLicence, MoreTurns, settings, WantedIsThere, Wanted, Probed,
      Replaces, Does, ChoicesTypeOK
<1>28. CASE SwitchOption
  BY <1>28, TaskKinds
  DEF SwitchOption, MoreTurns, settings, builds, WantedIsThere, Wanted, Probed,
      Replaces, Does, ChoicesTypeOK
<1>29. CASE PublishRelease
  BY <1>29, TaskKinds
  DEF PublishRelease, MoreTurns, settings, builds, WantedIsThere, Wanted,
      Probed, Replaces, Does, ChoicesTypeOK
<1>30. CASE AppEnds
  BY <1>30, TaskKinds
  DEF AppEnds, MoreTurns, Resting, WantedIsThere, Wanted, Probed, Replaces,
      Does, ChoicesTypeOK, BuildsAreVersions, MovedAside, NothingAside
<1>31. CASE UNCHANGED choicesVars
  BY <1>31, TaskKinds
  DEF choicesVars, settings, builds, world, WantedIsThere, Wanted, Probed,
      Replaces, Does, ChoicesTypeOK
<1> QED
  BY <1>1, <1>2, <1>3, <1>4, <1>5, <1>6, <1>7, <1>8, <1>9, <1>10, <1>11, <1>12,
     <1>13, <1>14, <1>15, <1>16, <1>17, <1>18, <1>19, <1>20, <1>21, <1>22,
     <1>23, <1>24, <1>25, <1>26, <1>27, <1>28, <1>29, <1>30, <1>31
  DEF ChoicesNext

-----------------------------------------------------------------------------
(* It holds where the app begins, and every step keeps it.                *)
LEMMA ChoicesInvInit == ChoicesInit => ChoicesInv
<1> SUFFICES ASSUME ChoicesInit PROVE ChoicesInv
  OBVIOUS
<1> USE DEF ChoicesInit, Resting
<1>1. ChoicesTypeOK
  BY TaskKinds, ChoicesBoundsAssumption DEF ChoicesTypeOK, ChoiceSteps, Versions
<1>2. \A t \in Tasks : task[t].pc = "rest"
  OBVIOUS
<1>3. StepsOfTasks /\ LocksOfSteps /\ OptionIsHeld
  BY <1>2, TaskKinds
  DEF StepsOfTasks, LocksOfSteps, OptionIsHeld, ChooserSteps, InstallSteps, LookSteps, ChoiceSteps,
      HoldsChoosing, HoldsInstalling, HoldsChanging
<1>4. TicketsArePast /\ OvertakenIsPast /\ SavesWithTicket
  BY <1>2, TaskKinds DEF TicketsArePast, OvertakenIsPast, SavesWithTicket, Ticketed
<1>5. BuildsAreVersions /\ MovedAside /\ NothingAside
  BY <1>2, TaskKinds DEF BuildsAreVersions, MovedAside, NothingAside, Replaces, Does
<1>6. WantedIsThere
  BY <1>2, TaskKinds DEF WantedIsThere, Wanted, Probed
<1> QED
  BY <1>1, <1>3, <1>4, <1>5, <1>6 DEF ChoicesInv

(* The step, from its parts.                                               *)
LEMMA ChoicesInvStep == ChoicesInv /\ [ChoicesNext]_choicesVars => ChoicesInv'
BY TypeStep, StepsOfKindStep, LocksStep, OptionStep, BuildsStep, TicketsStep, OvertakenStep, SavesStep,
   MovedStep, NothingStep, WantedStep
DEF ChoicesInv

(* The invariant holds in every behaviour.                                 *)
THEOREM ChoicesInvariant == ChoicesSpec => []ChoicesInv
BY ChoicesInvInit, ChoicesInvStep, PTL DEF ChoicesSpec

(* The types are parts of the invariant.                                   *)
LEMMA ChoicesTyped == ChoicesInv => ChoicesTypeOK
BY DEF ChoicesInv

(* Every variable keeps to its type.                                       *)
THEOREM ChoicesTypeCorrect == ChoicesSpec => []ChoicesTypeOK
BY ChoicesTyped, ChoicesInvariant, PTL

(* An installation never saves its build over an engine chosen after it    *)
(* began: the lock of the choice lies over the look at the ticket and the  *)
(* counting.                                                               *)
THEOREM ChoiceAlwaysStands == ChoicesSpec => []ChoiceStands
<1>1. ChoicesInv => ChoiceStands
  BY DEF ChoicesInv, SavesWithTicket, ChoiceStands, Does
<1> QED
  BY <1>1, ChoicesInvariant, PTL

(* The build chosen is in its folder, but between the two renames that     *)
(* replace it, or after an end of the process between them.                *)
THEOREM ChosenAlwaysThere == ChoicesSpec => []ChosenBuildStays
<1>1. ChoicesInv => ChosenBuildStays
  BY DEF ChoicesInv, WantedIsThere, Wanted, Replaces, ChosenBuildStays
<1> QED
  BY <1>1, ChoicesInvariant, PTL

(* Once the option is off no look chooses an engine or removes a build.    *)
THEOREM OffAlwaysOff == ChoicesSpec => OffStaysOff
<1>1. ASSUME ChoicesInv, task[Looker].pc \in {"saving", "removing"}
      PROVE  option
  <2>1. locks["changing"] = Looker
    BY <1>1, TaskKinds DEF ChoicesInv, LocksOfSteps, HoldsChanging
  <2> QED
    BY <1>1, <2>1, TaskKinds DEF ChoicesInv, OptionIsHeld
<1>2. ChoicesInv =>
        (\/ Does(Looker, "saving") /\ chosen' # chosen
         \/ Does(Looker, "removing") /\ buildFolder' # buildFolder /\ task' = task /\ turns' = turns
         => option)
  BY <1>1 DEF Does
<1> QED
  BY <1>2, ChoicesInvariant, PTL DEF OffStaysOff
=============================================================================
