--------------------------- MODULE MCDraftService ---------------------------
(* Instances of DraftService for TLC. *)
EXTENDS DraftService, TLC

(* With one account every operation belongs to it; with as many accounts as
   operations each has its own. *)
MCAccountOf ==
    CHOOSE f \in [Ops -> Accounts] :
        \A a \in Accounts : \E op \in Ops : f[op] = a

CallSymmetry == Permutations(Calls)
=============================================================================
