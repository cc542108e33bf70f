---------------------------- MODULE EngineChoices ----------------------------
(***************************************************************************)
(* The tray app's choice of an engine (choices.rs, stockfish_updates.rs)   *)
(* and the Stockfish builds in the data folder (stockfish.rs).  The user   *)
(* chooses an engine or installs the newest Stockfish; automatic looks,    *)
(* while the option is on, install a newer build in place of the one       *)
(* chosen, wait until the bridge is idle to choose it, and remove the      *)
(* older builds.  Three locks order them: of the one installation, of the  *)
(* one choice, and of the preferences; an installation chooses its build   *)
(* only when no choice was counted since its ticket.                       *)
(*                                                                         *)
(* A build is its version.  Its folder is whole, or lacks the licence      *)
(* ("partial"), and the two renames that replace a partial one are apart.  *)
(* A look asked for while another runs is that one.                        *)
(***************************************************************************)
EXTENDS Naturals, FiniteSets

CONSTANTS
    Choosers,      \* the user's choices of an engine
    Installs,      \* the user's installations
    Looker,        \* the automatic looks, one after the other
    MaxVersion,    \* bound: the builds there are
    Foreign,       \* an engine from elsewhere
    MaxTurns,      \* bound: releases, changes of the option and of the folders, ends of the process
    NoTask         \* no holder of a lock

ASSUME ChoicesBoundsAssumption == MaxVersion \in Nat \ {0} /\ MaxTurns \in Nat
ASSUME ChoosersAssumption ==
    /\ Choosers \intersect Installs = {} /\ Looker \notin Choosers \union Installs
    /\ NoTask \notin Choosers \union Installs \union {Looker} /\ Foreign \notin Nat

VARIABLES
    chosen,      \* Config::engine in bridge.toml
    saved,       \* Choices::saved
    locks,       \* who holds Choices::choosing, Choices::installing, prefs::CHANGING
    option,      \* Prefs::stockfish_auto_update
    released,    \* the newest release that is old enough, as GitHub names it
    knownBuild,  \* Known::newest
    buildFolder, \* engines\stockfish-<version>
    previous,    \* .previous-stockfish-<version>
    removing,    \* .remove-stockfish-<version>
    task,        \* each thread: where it is, its engine or build, its ticket
    overtaken,   \* those whose ticket a choice saved since has passed
    cutShort,    \* the builds whose replacement the process's end or a second failure cut short
    turns        \* how much of MaxTurns was spent

choicesVars == <<chosen, saved, locks, option, released, knownBuild, buildFolder, previous, removing,
                 task, overtaken, cutShort, turns>>
settings == <<chosen, saved, overtaken>>
builds == <<buildFolder, previous, removing, cutShort>>
world == <<option, released, turns>>
-----------------------------------------------------------------------------
Versions == 1..MaxVersion
Tasks == Choosers \union Installs \union {Looker}
Installing == Installs \union {Looker}

Resting == [pc |-> "rest", engine |-> Foreign, ticket |-> 0]
Does(t, step) == task[t].pc = step
Turn(t, step) == task' = [task EXCEPT ![t].pc = step]

(* What a thread still holds goes with it as its call ends.                *)
FreeOf(t) == [l \in DOMAIN locks |-> IF locks[l] = t THEN NoTask ELSE locks[l]]
Locks(t, l) == locks[l] = NoTask /\ locks' = [locks EXCEPT ![l] = t]
Ends(t) ==
    /\ locks' = FreeOf(t)
    /\ task' = [task EXCEPT ![t] = IF t = Looker THEN Resting ELSE [Resting EXCEPT !.pc = "over"]]

ChoicesInit ==
    /\ chosen = 1 /\ saved = 0 /\ overtaken = {}
    /\ locks = [choosing |-> NoTask, installing |-> NoTask, changing |-> NoTask]
    /\ option = TRUE /\ released = 1 /\ knownBuild = 1
    /\ buildFolder = [v \in Versions |-> IF v = 1 THEN "whole" ELSE "none"]
    /\ previous = [v \in Versions |-> "none"] /\ removing = {} /\ cutShort = {}
    /\ task = [t \in Tasks |-> Resting] /\ turns = 0

(* The probe starts the engine: what is not there is refused, and what is  *)
(* may be.                                                                 *)
Starts(e) == e \in Versions => buildFolder[e] # "none"
-----------------------------------------------------------------------------
(* Choices::choose: an engine of the list, once the probe accepts it.      *)
PickEngine(c) ==
    /\ Does(c, "rest")
    /\ \E e \in {Foreign} \union {v \in Versions : buildFolder[v] # "none"} :
         task' = [task EXCEPT ![c] = [Resting EXCEPT !.pc = "choosing", !.engine = e]]
    /\ UNCHANGED <<settings, locks, builds, world, knownBuild>>

(* Mutant: an installation probes and saves beside a choice.               *)
LockChoosingAlone(t) ==
    /\ Does(t, "choosing") /\ Turn(t, "probing")
    /\ IF t \in Installing THEN UNCHANGED locks ELSE Locks(t, "choosing")
    /\ UNCHANGED <<settings, builds, world, knownBuild>>

LockChoosing(t) ==
    /\ Does(t, "choosing") /\ Locks(t, "choosing") /\ Turn(t, "probing")
    /\ UNCHANGED <<settings, builds, world, knownBuild>>

Probe(t) ==
    /\ Does(t, "probing")
    /\ \/ Starts(task[t].engine) /\ UNCHANGED locks
          /\ Turn(t, CASE t \in Choosers -> "saving" [] t \in Installs -> "comparing"
                       [] t = Looker -> "confirming")
       \/ Ends(t)
    /\ UNCHANGED <<settings, builds, world, knownBuild>>

(* Mutant: the option is read, and may change before the choice is saved.  *)
ConfirmUnheld ==
    /\ Does(Looker, "confirming") /\ locks["changing"] = NoTask
    /\ IF option THEN UNCHANGED locks /\ Turn(Looker, "comparing") ELSE Ends(Looker)
    /\ UNCHANGED <<settings, builds, world, knownBuild>>

(* prefs::hold_if: the option is on, and stays so while its lock is held.  *)
Confirm ==
    /\ Does(Looker, "confirming") /\ locks["changing"] = NoTask
    /\ IF option THEN Locks(Looker, "changing") /\ Turn(Looker, "comparing") ELSE Ends(Looker)
    /\ UNCHANGED <<settings, builds, world, knownBuild>>

(* save_if_current: a choice counted since the ticket stands.              *)
Compare(t) ==
    /\ Does(t, "comparing")
    /\ IF saved = task[t].ticket THEN Turn(t, "saving") /\ UNCHANGED locks ELSE Ends(t)
    /\ UNCHANGED <<settings, builds, world, knownBuild>>

(* Choices::save: bridge.toml is written, and then the choice counted;     *)
(* every installation that has its ticket is overtaken.                    *)
Ticketed(t) ==
    /\ t \in Installing
    /\ task[t].pc \in {"lookup", "installing", "committing", "waiting", "choosing", "probing",
                      "confirming", "comparing", "saving", "counting"}

SaveChoice(t) ==
    /\ Does(t, "saving") /\ chosen' = task[t].engine /\ Turn(t, "counting")
    /\ overtaken' = overtaken \union ({i \in Installing : Ticketed(i)} \ {t})
    /\ UNCHANGED <<saved, locks, builds, world, knownBuild>>

SaveFails(t) ==
    /\ Does(t, "saving") /\ Ends(t)
    /\ UNCHANGED <<settings, builds, world, knownBuild>>

CountChoice(t) ==
    /\ Does(t, "counting") /\ saved' = saved + 1
    /\ IF t = Looker THEN locks' = FreeOf(t) /\ Turn(t, "sweeping") ELSE Ends(t)
    /\ UNCHANGED <<chosen, overtaken, builds, world, knownBuild>>
-----------------------------------------------------------------------------
(* Choices::install and Choices::update: the one installation begins, and  *)
(* takes its ticket; a second is refused.                                  *)
TakesTicket(t, step) ==
    /\ Locks(t, "installing")
    /\ task' = [task EXCEPT ![t].pc = step, ![t].ticket = saved]
    /\ overtaken' = overtaken \ {t}

BeginInstall(i) ==
    /\ i \in Installs /\ Does(i, "rest") /\ TakesTicket(i, "lookup")
    /\ UNCHANGED <<chosen, saved, builds, world, knownBuild>>

(* Known::look_up; the user's installation goes on with the build known.   *)
LookUp(i) ==
    /\ Does(i, "lookup") /\ knownBuild' \in {knownBuild, released}
    /\ task' = [task EXCEPT ![i].pc = "installing", ![i].engine = knownBuild']
    /\ UNCHANGED <<settings, locks, builds, world>>

(* The build is in place: the user's installation goes on to choose it,    *)
(* the automatic one no longer counts as running, and waits.               *)
Installed(t) ==
    IF t = Looker THEN locks' = FreeOf(t) /\ Turn(t, "waiting")
    ELSE Turn(t, "choosing") /\ UNCHANGED locks

(* stockfish::install: a build installed is kept; a download fails, or is  *)
(* checked and unpacked beside its place.                                  *)
FindInstalled(t) ==
    /\ Does(t, "installing") /\ buildFolder[task[t].engine] = "whole" /\ Installed(t)
    /\ UNCHANGED <<settings, builds, world, knownBuild>>

InstallFails(t) ==
    /\ Does(t, "installing") /\ buildFolder[task[t].engine] # "whole" /\ Ends(t)
    /\ UNCHANGED <<settings, builds, world, knownBuild>>

(* commit: a partial folder is moved aside, and the new one put there.     *)
MoveAside(t) ==
    LET v == task[t].engine IN
    /\ Does(t, "installing") /\ buildFolder[v] # "whole" /\ Turn(t, "committing")
    /\ previous' = [previous EXCEPT ![v] = buildFolder[v]] /\ buildFolder' = [buildFolder EXCEPT ![v] = "none"]
    /\ UNCHANGED <<settings, locks, removing, cutShort, world, knownBuild>>

PutInPlace(t) ==
    LET v == task[t].engine IN
    /\ Does(t, "committing") /\ Installed(t)
    /\ buildFolder' = [buildFolder EXCEPT ![v] = "whole"] /\ previous' = [previous EXCEPT ![v] = "none"]
    /\ cutShort' = cutShort \ {v}
    /\ UNCHANGED <<settings, removing, world, knownBuild>>

(* The new folder cannot take its place: the old one is put back, or that  *)
(* fails too.                                                              *)
PutBack(t) ==
    LET v == task[t].engine IN
    /\ Does(t, "committing") /\ Ends(t)
    /\ \/ /\ buildFolder' = [buildFolder EXCEPT ![v] = previous[v]] /\ previous' = [previous EXCEPT ![v] = "none"]
          /\ UNCHANGED cutShort
       \/ previous[v] # "none" /\ cutShort' = cutShort \union {v} /\ UNCHANGED <<buildFolder, previous>>
    /\ UNCHANGED <<settings, removing, world, knownBuild>>
-----------------------------------------------------------------------------
(* Look::run: while the option is on, the newest release, then the engine  *)
(* chosen, which is replaced when it is an older build of the bridge's; a  *)
(* bridge.toml that cannot be read ends the look.                          *)
BeginChoiceLook ==
    /\ Does(Looker, "rest") /\ option /\ Turn(Looker, "asking")
    /\ UNCHANGED <<settings, locks, builds, world, knownBuild>>

AskRelease ==
    /\ Does(Looker, "asking")
    /\ \/ /\ knownBuild' = released /\ UNCHANGED locks
          /\ task' = [task EXCEPT ![Looker].pc = "reading", ![Looker].engine = released]
       \/ Ends(Looker) /\ UNCHANGED knownBuild
    /\ UNCHANGED <<settings, builds, world>>

ReadChosen ==
    /\ Does(Looker, "reading")
    /\ \/ Ends(Looker)
       \/ /\ chosen # Foreign /\ UNCHANGED locks
          /\ Turn(Looker, IF chosen < task[Looker].engine THEN "begin" ELSE "sweeping")
    /\ UNCHANGED <<settings, builds, world, knownBuild>>

BeginUpdate ==
    /\ Does(Looker, "begin")
    /\ \/ TakesTicket(Looker, "installing")
       \/ locks["installing"] # NoTask /\ Ends(Looker) /\ UNCHANGED overtaken
    /\ UNCHANGED <<chosen, saved, builds, world, knownBuild>>

(* wait_idle_while, and the option once more: an installation of the       *)
(* user's keeps the bridge from being idle.                                *)
WaitIdle ==
    /\ Does(Looker, "waiting")
    /\ \/ ~option /\ Ends(Looker)
       \/ option /\ locks["installing"] = NoTask /\ Turn(Looker, "choosing") /\ UNCHANGED locks
    /\ UNCHANGED <<settings, builds, world, knownBuild>>
-----------------------------------------------------------------------------
(* Look::remove_older: while no installation and no choice runs            *)
(* (while_settled), and the option is held on.                             *)
BeginRemoval ==
    /\ Does(Looker, "sweeping")
    /\ \/ Locks(Looker, "installing") /\ Turn(Looker, "settling")
       \/ locks["installing"] # NoTask /\ Ends(Looker)
    /\ UNCHANGED <<settings, builds, world, knownBuild>>

(* Mutant: the choice is read with no choice held off.                     *)
SettleUnlocked ==
    /\ Does(Looker, "settling")
    /\ \/ Ends(Looker)
       \/ /\ chosen # Foreign /\ UNCHANGED locks
          /\ task' = [task EXCEPT ![Looker].pc = "holding", ![Looker].engine = chosen]
    /\ UNCHANGED <<settings, builds, world, knownBuild>>

SettleChoice ==
    /\ Does(Looker, "settling") /\ locks["choosing"] = NoTask
    /\ \/ Ends(Looker)
       \/ /\ chosen # Foreign /\ Locks(Looker, "choosing")
          /\ task' = [task EXCEPT ![Looker].pc = "holding", ![Looker].engine = chosen]
    /\ UNCHANGED <<settings, builds, world, knownBuild>>

HoldOption ==
    /\ Does(Looker, "holding") /\ locks["changing"] = NoTask
    /\ IF option THEN Locks(Looker, "changing") /\ Turn(Looker, "removing") ELSE Ends(Looker)
    /\ UNCHANGED <<settings, builds, world, knownBuild>>

(* stockfish::remove_older: a folder goes aside, unless its engine runs,   *)
(* and then away, now or by a later call.                                  *)
RemoveOlder(v) ==
    /\ Does(Looker, "removing") /\ v < task[Looker].engine /\ buildFolder[v] # "none"
    /\ buildFolder' = [buildFolder EXCEPT ![v] = "none"] /\ removing' \in {removing \ {v}, removing \union {v}}
    /\ UNCHANGED <<settings, locks, previous, cutShort, task, world, knownBuild>>

RemoveLeft(v) ==
    /\ Does(Looker, "removing") /\ v \in removing /\ removing' = removing \ {v}
    /\ UNCHANGED <<settings, locks, buildFolder, previous, cutShort, task, world, knownBuild>>

EndRemoval ==
    /\ Does(Looker, "removing") /\ Ends(Looker)
    /\ UNCHANGED <<settings, builds, world, knownBuild>>
-----------------------------------------------------------------------------
(* The user turns the option; a release appears or is withdrawn; a build   *)
(* loses its licence; the process ends.                                    *)
MoreTurns == turns < MaxTurns /\ turns' = turns + 1

SwitchOption ==
    /\ MoreTurns /\ locks["changing"] = NoTask /\ option' = ~option
    /\ UNCHANGED <<settings, locks, builds, released, knownBuild, task>>

PublishRelease ==
    /\ MoreTurns /\ released' \in Versions \ {released}
    /\ UNCHANGED <<settings, locks, builds, option, knownBuild, task>>

LoseLicence(v) ==
    /\ MoreTurns /\ buildFolder[v] = "whole" /\ buildFolder' = [buildFolder EXCEPT ![v] = "partial"]
    /\ UNCHANGED <<settings, locks, previous, removing, cutShort, option, released, knownBuild, task>>

AppEnds ==
    /\ MoreTurns /\ saved' = 0 /\ overtaken' = {} /\ knownBuild' = 1
    /\ locks' = [l \in DOMAIN locks |-> NoTask]
    /\ cutShort' = cutShort \union {v \in Versions : previous[v] # "none"}
    /\ task' = [t \in Tasks |-> IF task[t].pc = "rest" \/ t = Looker THEN Resting
                                ELSE [Resting EXCEPT !.pc = "over"]]
    /\ UNCHANGED <<chosen, buildFolder, previous, removing, option, released>>
-----------------------------------------------------------------------------
ChoicesNext ==
    \/ \E c \in Choosers : PickEngine(c)
    \/ \E i \in Installs : BeginInstall(i) \/ LookUp(i)
    \/ \E t \in Tasks : LockChoosing(t) \/ Probe(t) \/ Compare(t) \/ SaveChoice(t) \/ SaveFails(t) \/ CountChoice(t)
    \/ \E t \in Installing : FindInstalled(t) \/ InstallFails(t) \/ MoveAside(t) \/ PutInPlace(t) \/ PutBack(t)
    \/ BeginChoiceLook \/ AskRelease \/ ReadChosen \/ BeginUpdate \/ WaitIdle \/ Confirm
    \/ BeginRemoval \/ SettleChoice \/ HoldOption \/ EndRemoval
    \/ \E v \in Versions : RemoveOlder(v) \/ RemoveLeft(v) \/ LoseLicence(v)
    \/ SwitchOption \/ PublishRelease \/ AppEnds

ChoicesSpec == ChoicesInit /\ [][ChoicesNext]_choicesVars
-----------------------------------------------------------------------------
ChoiceSteps == {"rest", "over", "choosing", "probing", "confirming", "comparing", "saving", "counting",
                "lookup", "installing", "committing", "waiting", "asking", "reading", "begin",
                "sweeping", "settling", "holding", "removing"}

ChoicesTypeOK ==
    /\ chosen \in Versions \union {Foreign} /\ saved \in Nat
    /\ locks \in [{"choosing", "installing", "changing"} -> Tasks \union {NoTask}]
    /\ option \in BOOLEAN /\ released \in Versions /\ knownBuild \in Versions
    /\ buildFolder \in [Versions -> {"none", "partial", "whole"}]
    /\ previous \in [Versions -> {"none", "partial"}] /\ removing \subseteq Versions
    /\ task \in [Tasks -> [pc : ChoiceSteps, engine : Versions \union {Foreign}, ticket : Nat]]
    /\ overtaken \subseteq Installing /\ cutShort \subseteq Versions /\ turns \in 0..MaxTurns

(* An installation never saves its build over an engine chosen after it    *)
(* began, however long it ran, waited or probed (choices.rs 2-4).          *)
ChoiceStands == \A t \in Installing : Does(t, "counting") => t \notin overtaken

(* Once the option is off no look chooses an engine or removes a build,    *)
(* wherever the look was when it was turned off (stockfish_updates.rs      *)
(* 178-181, 231-233).                                                      *)
OffStaysOff ==
    [][\/ Does(Looker, "saving") /\ chosen' # chosen
       \/ Does(Looker, "removing") /\ buildFolder' # buildFolder /\ task' = task /\ turns' = turns
       => option]_choicesVars

(* The build chosen is in its folder, whatever is installed, replaced and  *)
(* removed (stockfish_updates.rs 232-235; stockfish.rs 280-282): all but   *)
(* between the two renames that replace a partial one.                     *)
ChosenBuildStays ==
    chosen \in Versions /\ buildFolder[chosen] = "none" =>
        \/ chosen \in cutShort
        \/ \E t \in Installing : Does(t, "committing") /\ task[t].engine = chosen

(* An automatic update replaces an older build the bridge installed, and   *)
(* no other engine (stockfish_updates.rs 14: "No other engine is           *)
(* replaced").                                                             *)
OnlyOursReplaced ==
    [][Does(Looker, "saving") /\ chosen' # chosen => chosen \in Versions /\ chosen < chosen']_choicesVars
=============================================================================
