----------------------------- MODULE TurnOrder -----------------------------
(***************************************************************************)
(* What the daemon's two turn dispensers promise their users.              *)
(*                                                                         *)
(* LifecycleCommitOrder (publication of lifecycle events) and              *)
(* PostCommitSequencer (post-commit work of pane-mode mutations) hand out  *)
(* positions while the state lock is held.  A position is entered at most  *)
(* once, alone, and only when every earlier position has been retired,     *)
(* whether it was used or given up.                                        *)
(***************************************************************************)
EXTENDS Naturals

CONSTANT MaxReservations   \* bound on the positions handed out

VARIABLES reserved,     \* number of positions handed out: 0 .. reserved - 1
          outstanding,  \* positions not retired yet
          inside        \* the position whose owner is in its turn

turnVars == <<reserved, outstanding, inside>>

(* Every variable keeps its type; only an outstanding position is entered. *)
TypeOK == /\ reserved \in 0..MaxReservations
          /\ outstanding \subseteq 0..(MaxReservations - 1)
          /\ inside \subseteq outstanding

Init == reserved = 0 /\ outstanding = {} /\ inside = {}

Reserve == /\ reserved < MaxReservations
           /\ reserved' = reserved + 1
           /\ outstanding' = outstanding \cup {reserved}
           /\ UNCHANGED inside

Enter(s) == /\ s \in outstanding
            /\ inside = {}
            /\ \A t \in outstanding : s <= t
            /\ inside' = {s}
            /\ UNCHANGED <<reserved, outstanding>>

(* The owner leaves its turn, or gives its position up before the turn. *)
Retire(s) == /\ s \in outstanding
             /\ outstanding' = outstanding \ {s}
             /\ inside' = inside \ {s}
             /\ UNCHANGED reserved

Next == Reserve \/ \E s \in outstanding : Enter(s) \/ Retire(s)

Spec == Init /\ [][Next]_turnVars
=============================================================================
