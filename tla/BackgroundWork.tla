--------------------------- MODULE BackgroundWork ---------------------------
(* What the bridge promises of its background work, apart from how the     *)
(* queues, threads and counts of serial.rs, activity.rs and keeper.rs keep *)
(* it: work is taken up by a request, by other work or by the keeper, it   *)
(* ends, and a settle asked for answers "settled" only at an instant when  *)
(* none is outstanding.                                                     *)
CONSTANTS Works,  \* the pieces of work there may be
          Look    \* the one that is the keeper's look, taken again and again

VARIABLES outstanding, \* the work taken up and not ended
          ended,       \* the work that ended, the looks left out
          answer       \* of the settle: "unasked", "asked", "settled" or "busy"

vars == <<outstanding, ended, answer>>

Init == outstanding = {} /\ ended = {} /\ answer = "unasked"

TakeUp(w) ==
    /\ w \in Works \ (outstanding \union ended)
    /\ outstanding' = outstanding \union {w}
    /\ UNCHANGED <<ended, answer>>

(* No look begins once a settle was asked for.                             *)
BeginLook == answer = "unasked" /\ TakeUp(Look)

End(w) ==
    /\ w \in outstanding
    /\ outstanding' = outstanding \ {w}
    /\ ended' = ended \union ({w} \ {Look})
    /\ UNCHANGED answer

Ask == answer = "unasked" /\ answer' = "asked" /\ UNCHANGED <<outstanding, ended>>

Settle ==
    /\ answer = "asked" /\ outstanding = {}
    /\ answer' = "settled" /\ UNCHANGED <<outstanding, ended>>

GiveUp ==
    /\ answer = "asked" /\ outstanding # {}
    /\ answer' = "busy" /\ UNCHANGED <<outstanding, ended>>

Next ==
    \/ \E w \in Works \ {Look} : TakeUp(w)
    \/ BeginLook
    \/ \E w \in Works : End(w)
    \/ Ask \/ Settle \/ GiveUp

(* Work taken up ends, and a settle is answered.                           *)
Spec ==
    /\ Init /\ [][Next]_vars
    /\ \A w \in Works : WF_vars(End(w))
    /\ WF_vars(Settle \/ GiveUp)
=============================================================================
