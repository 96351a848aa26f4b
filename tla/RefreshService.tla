--------------------------- MODULE RefreshService ---------------------------
(* What request_reconcile (src/sag/reconciler.py:313) promises the tools that *)
(* call it: passes never overlap, and whoever asks gets a pass that begins    *)
(* after the asking, or an error.                                             *)

VARIABLES
    busy,  \* a pass is running
    due    \* somebody asked since the last pass began

Init == busy = FALSE /\ due = FALSE

Ask == due' = TRUE /\ UNCHANGED busy

Begin == ~busy /\ busy' = TRUE /\ due' = FALSE

(* Whoever asked was told that it failed.                                     *)
Refuse == ~busy /\ due' = FALSE /\ UNCHANGED busy

End == busy /\ busy' = FALSE /\ UNCHANGED due

Next == Ask \/ Refuse \/ Begin \/ End

Spec == /\ Init /\ [][Next]_<<busy, due>>
        /\ WF_<<busy, due>>(due /\ Begin)
        /\ WF_<<busy, due>>(End)
=============================================================================
