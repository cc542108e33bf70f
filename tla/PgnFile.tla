------------------------------ MODULE PgnFile -------------------------------
(* What the bridge promises of a PGN file that pages write into, apart     *)
(* from the locks, slots, indexes and generations by which write.rs keeps  *)
(* it: a page changes only what it read, one page at a time; a change is   *)
(* there whole or not at all, but for the game an append was adding; and   *)
(* what others changed is never undone.  Another program that changes the  *)
(* file under a change that is past its last look ends the promise.        *)
EXTENDS Naturals, Sequences

CONSTANTS Pages,  \* the pages that read and write the file
          Texts,  \* the games there are
          Torn,   \* part of a game
          None    \* no file; nothing known

VARIABLES games,  \* the games of the file, or None
          knows,  \* what each page takes for them, or None if it is out of date
          commit, \* each page's change: "no", "looked", "torn" or "written"
          lapsed  \* whether the promise is ended

vars == <<games, knows, commit, lapsed>>

NoCommit == [c \in Pages |-> "no"]
Init ==
    /\ games \in Seq(Texts)
    /\ knows = [c \in Pages |-> None] /\ commit = NoCommit /\ lapsed = FALSE

(* A page is told the games, or what was told it of an older file.         *)
Tell(c) ==
    /\ \E told \in {games, None} : knows' = [knows EXCEPT ![c] = told]
    /\ UNCHANGED <<games, commit, lapsed>>

(* The last look before a change: the page knows the file as it is.        *)
LastLook(c) ==
    /\ commit = NoCommit /\ knows[c] # None
    /\ commit' = [commit EXCEPT ![c] = "looked"]
    /\ UNCHANGED <<games, knows, lapsed>>

(* The page's change goes from one step to the next, and no page knows the *)
(* file it leaves.                                                         *)
Changes(c, from, to, new) ==
    /\ commit[c] = from /\ commit' = [commit EXCEPT ![c] = to]
    /\ games # None /\ games' = new
    /\ knows' = [p \in Pages |-> None] /\ lapsed' = lapsed

Front(s) == SubSeq(s, 1, Len(s) - 1)
BeginAppend(c) == knows[c] # None /\ Changes(c, "looked", "torn", Append(knows[c], Torn))
EndAppend(c)   == \E t \in Texts : Changes(c, "torn", "written", Append(Front(games), t))
CutBack(c)     == Changes(c, "torn", "no", Front(games))

(* The file is replaced whole, by one game's edit of what the page knows.  *)
Swap(c) ==
    /\ knows[c] # None
    /\ \E n \in 1..Len(knows[c]) :
           \/ \E t \in Texts : Changes(c, "looked", "written", [knows[c] EXCEPT ![n] = t])
           \/ Changes(c, "looked", "written",
                      SubSeq(knows[c], 1, n - 1) \o SubSeq(knows[c], n + 1, Len(knows[c])))

(* A change is looked at after its writing, or is given up, or the bridge  *)
(* ends: the file stays as it is.                                          *)
End == commit' = NoCommit /\ UNCHANGED <<games, knows, lapsed>>

(* Another program changes, removes or replaces the file.                  *)
Change ==
    /\ games' \in Seq(Texts \union {Torn}) \union {None}
    /\ knows' = [c \in Pages |-> None] /\ commit' = commit
    /\ lapsed' = (commit # NoCommit)

Lapsed == lapsed /\ lapsed'

Next ==
    \/ \E c \in Pages : \/ Tell(c) \/ LastLook(c) \/ BeginAppend(c) \/ EndAppend(c)
                        \/ CutBack(c) \/ Swap(c)
    \/ End \/ Change \/ Lapsed

Spec == Init /\ [][Next]_vars
=============================================================================
