------------------------ MODULE LifecycleOrderProofs ------------------------
(***************************************************************************)
(* Both sequencers of the lifecycle implement the turn order, and their    *)
(* drains are final, for any handles and tasks, any capacity and any       *)
(* number of reservations.                                                 *)
(*                                                                         *)
(* The commit order rests on who owns a position: a claimed ticket has one *)
(* claimer, a ticket that finish_once swapped has at most one handle on    *)
(* its way to the coordinator, and the coordinator stands at or before     *)
(* every outstanding position.  Its barriers are final because the pending *)
(* count is exact: it counts guards, tickets before the swap of            *)
(* finish_once, and handles after it.                                      *)
(*                                                                         *)
(* In the post-commit sequencer two tasks never own the same position, and *)
(* the positions from next_turn_sequence on are owned or were finished out *)
(* of order.  A lane's pending count is the number of its registered       *)
(* tasks.                                                                  *)
(***************************************************************************)
EXTENDS LifecycleCommitOrder, PostCommitSequencer, Integers, FiniteSetTheorems, TLAPS

LEMMA ReservationsAreNat == MaxReservations \in Nat
  BY HandlesAssumption, Zenon

LEMMA HandlesAreFinite == IsFiniteSet(Handles)
  BY HandlesAssumption, Zenon

USE ReservationsAreNat

Owning == Claiming \cup {"turn"}            \* the claimer of a ticket
Retiring == {"leaving", "abandoning"}       \* between the swap and the coordinator

CommitTypes == /\ reserved \in 0 .. MaxReservations /\ next_sequence \in 0 .. reserved
               /\ c_finished_out_of_order \subseteq (next_sequence + 1) .. (reserved - 1)
               /\ ticket \in [Sequences -> TicketStates]
               /\ c_pc \in [Handles -> HandleStates] /\ c_seq \in [Handles -> 0 .. MaxReservations]

(* What a handle's place says of its ticket.                               *)
Handle(h) == /\ c_pc[h] \in OnTicket => c_seq[h] < reserved
             /\ c_pc[h] \in Owning => ticket[c_seq[h]] = "claimed"
             /\ c_pc[h] \in Finishing => ticket[c_seq[h]] = "finished"
             /\ c_pc[h] \in {"turn", "leaving"} => c_seq[h] = next_sequence

(* No two handles claim, or retire, the same ticket.                       *)
CommitApart(g, h) == g # h /\ c_seq[g] = c_seq[h] => /\ ~(c_pc[g] \in Owning /\ c_pc[h] \in Owning)
                                                     /\ ~(c_pc[g] \in Retiring /\ c_pc[h] \in Retiring)

(* What the coordinator knows of a position.                               *)
Position(s) == /\ ticket[s] = "unreserved" <=> s >= reserved
               /\ s \in CommitOutstanding => s >= next_sequence /\ s \notin c_finished_out_of_order
               /\ s \in next_sequence .. (reserved - 1) => s \in CommitOutstanding \cup c_finished_out_of_order

CommitOrderInv == /\ CommitTypes
                  /\ \A h \in Handles : Handle(h)
                  /\ \A g, h \in Handles : CommitApart(g, h)
                  /\ \A s \in Sequences : Position(s)

LEMMA InitCommitOrder == CommitInit => CommitOrderInv /\ CommitOrder!Init
<1> SUFFICES ASSUME CommitInit PROVE CommitOrderInv /\ CommitOrder!Init
  BY Zenon
<1>1. CommitOutstanding = {} /\ CommitInside = {} /\ reserved = 0
  BY Zenon DEF CommitInit, CommitOutstanding, CommitInside
<1>2. CommitTypes
  BY DEF CommitInit, CommitTypes, TicketStates, HandleStates
<1>3. \A h \in Handles : Handle(h) /\ \A g \in Handles : CommitApart(g, h)
  BY Zenon DEF CommitInit, Handle, CommitApart, OnTicket, Owning, Finishing, Retiring, Idle, Claiming, Watching
<1>4. \A s \in Sequences : Position(s)
  BY <1>1 DEF CommitInit, Position, Sequences
<1> QED
  BY <1>1, <1>2, <1>3, <1>4, Zenon DEF CommitOrderInv, CommitOrder!Init

(* A handle that only moves between places of the same kind.               *)
LEMMA CommitMoves ==
    ASSUME CommitOrderInv, NEW h \in Handles, NEW state \in HandleStates, GotoHandle(h, state),
           UNCHANGED <<reserved, coordinator, ticket, c_seq>>,
           c_pc[h] \in Owning <=> state \in Owning, c_pc[h] \in Retiring <=> state \in Retiring,
           state \in Finishing => c_pc[h] \in Finishing, state \in OnTicket => c_pc[h] \in OnTicket,
           c_pc[h] = "turn" <=> state = "turn", c_pc[h] = "leaving" <=> state = "leaving"
    PROVE  CommitOrderInv' /\ UNCHANGED <<reserved, CommitOutstanding, CommitInside>>
<1>1. c_pc' = [c_pc EXCEPT ![h] = state]
  BY Zenon DEF GotoHandle
<1>2. UNCHANGED <<reserved, CommitOutstanding, CommitInside>>
  BY <1>1, Zenon DEF CommitOrderInv, CommitTypes, CommitOutstanding, CommitInside, Retiring
<1>3. CommitTypes'
  BY <1>1, Zenon DEF CommitOrderInv, CommitTypes, coordinator
<1>4. \A g \in Handles : Handle(g)'
  BY <1>1, Zenon DEF CommitOrderInv, CommitTypes, Handle, coordinator
<1>5. \A g, k \in Handles : CommitApart(g, k)'
  BY <1>1, Zenon DEF CommitOrderInv, CommitTypes, CommitApart
<1>6. \A s \in Sequences : Position(s)'
  BY <1>2, Zenon DEF CommitOrderInv, Position, coordinator
<1> QED
  BY <1>2, <1>3, <1>4, <1>5, <1>6, Zenon DEF CommitOrderInv

(* The swap of finish_once moves the position from the ticket to the       *)
(* handle that will tell the coordinator.                                  *)
LEMMA Swaps ==
    ASSUME CommitOrderInv, NEW h \in Handles, NEW state \in Retiring, Swap(h, state),
           c_pc[h] \in OnTicket, ticket[c_seq[h]] \in {"pending", "claimed"},
           c_pc[h] = "turn" <=> state = "leaving", c_pc[h] # "leaving",
           \A g \in Handles \ {h} : c_pc[g] \in Owning => c_seq[g] # c_seq[h]
    PROVE  CommitOrderInv' /\ UNCHANGED <<reserved, CommitOutstanding, CommitInside>>
<1> DEFINE s0 == c_seq[h]
<1>1. /\ c_pc' = [c_pc EXCEPT ![h] = state] /\ ticket' = [ticket EXCEPT ![s0] = "finished"]
      /\ UNCHANGED <<reserved, next_sequence, c_finished_out_of_order, c_seq>>
  BY Zenon DEF Swap, GotoHandle, admission, coordinator
<1>2. s0 \in Sequences /\ s0 < reserved
  BY DEF CommitOrderInv, CommitTypes, Handle, Sequences
<1>3. UNCHANGED <<reserved, CommitOutstanding, CommitInside>>
  BY <1>1, <1>2, Zenon DEF CommitOrderInv, CommitTypes, CommitOutstanding, CommitInside, Retiring
<1>4. CommitTypes'
  BY <1>1, Zenon DEF CommitOrderInv, CommitTypes, Retiring, HandleStates, OnTicket, Finishing, TicketStates
<1>5. \A g \in Handles : Handle(g)'
  BY <1>1, <1>2 DEF CommitOrderInv, CommitTypes, Handle, Retiring, OnTicket, Owning, Claiming, Finishing
<1>6. \A g, k \in Handles : CommitApart(g, k)'
  BY <1>1 DEF CommitOrderInv, CommitTypes, Handle, CommitApart, Retiring, Owning, Claiming, Finishing
<1>7. \A s \in Sequences : Position(s)'
  BY <1>1, <1>2, <1>3, Zenon DEF CommitOrderInv, CommitTypes, Position
<1> QED
  BY <1>3, <1>4, <1>5, <1>6, <1>7, Zenon DEF CommitOrderInv

(* A reservation hands out the next position.                              *)
LEMMA CommitReserves ==
    ASSUME CommitOrderInv, NEW h \in Handles, try_reserve(h)
    PROVE  CommitOrderInv' /\ CommitOrder!Reserve
<1>1. /\ c_pc[h] = "free" /\ reserved < MaxReservations /\ reserved' = reserved + 1
      /\ ticket' = [ticket EXCEPT ![reserved] = "pending"] /\ c_seq' = [c_seq EXCEPT ![h] = reserved]
      /\ c_pc' = [c_pc EXCEPT ![h] = "held"] /\ UNCHANGED <<next_sequence, c_finished_out_of_order>>
  BY Zenon DEF try_reserve, GotoHandle, coordinator
<1>2. reserved \in Sequences /\ ticket[reserved] = "unreserved"
  BY <1>1 DEF CommitOrderInv, CommitTypes, Position, Sequences
<1>3. CommitOutstanding' = CommitOutstanding \cup {reserved}
  BY <1>1, <1>2, Zenon DEF CommitOrderInv, CommitTypes, CommitOutstanding
<1>4. CommitInside' = CommitInside
  BY <1>1, Zenon DEF CommitOrderInv, CommitTypes, CommitInside
<1>5. CommitTypes'
  BY <1>1, <1>2 DEF CommitOrderInv, CommitTypes, HandleStates, OnTicket, Idle, TicketStates
<1>6. \A g \in Handles : Handle(g)'
  BY <1>1, <1>2 DEF CommitOrderInv, CommitTypes, Handle, OnTicket, Owning, Claiming, Watching, Finishing, Idle
<1>7. \A g, k \in Handles : CommitApart(g, k)'
  BY <1>1, Zenon DEF CommitOrderInv, CommitTypes, CommitApart, Retiring, Owning, Claiming
<1>8. \A s \in Sequences : Position(s)'
  BY <1>1, <1>2, <1>3 DEF CommitOrderInv, CommitTypes, Position, Sequences
<1> QED
  BY <1>1, <1>3, <1>4, <1>5, <1>6, <1>7, <1>8, Zenon DEF CommitOrderInv, CommitOrder!Reserve

(* The claim of a pending ticket.                                          *)
LEMMA Claims ==
    ASSUME CommitOrderInv, NEW h \in Handles, wait_for_turn(h), ticket[c_seq[h]] = "pending"
    PROVE  CommitOrderInv' /\ UNCHANGED <<reserved, CommitOutstanding, CommitInside>>
<1>1. /\ c_pc[h] = "held" /\ c_pc' = [c_pc EXCEPT ![h] = "claim"] /\ ticket' = [ticket EXCEPT ![c_seq[h]] = "claimed"]
      /\ UNCHANGED <<reserved, next_sequence, c_finished_out_of_order, c_seq>>
  BY Zenon DEF wait_for_turn, GotoHandle, admission, coordinator
<1>2. c_seq[h] \in Sequences /\ c_seq[h] < reserved
  BY <1>1 DEF CommitOrderInv, CommitTypes, Handle, Sequences, OnTicket, Idle
<1>3. UNCHANGED <<reserved, CommitOutstanding, CommitInside>>
  BY <1>1, <1>2, Zenon DEF CommitOrderInv, CommitTypes, CommitOutstanding, CommitInside
<1>4. CommitTypes'
  BY <1>1, Zenon DEF CommitOrderInv, CommitTypes, HandleStates, OnTicket, Claiming, TicketStates
<1>5. \A g \in Handles : Handle(g)'
  BY <1>1, <1>2 DEF CommitOrderInv, CommitTypes, Handle, OnTicket, Owning, Claiming, Finishing
<1>6. \A g, k \in Handles : CommitApart(g, k)'
  BY <1>1 DEF CommitOrderInv, CommitTypes, Handle, CommitApart, Retiring, Owning, Claiming
<1>7. \A s \in Sequences : Position(s)'
  BY <1>1, <1>2, <1>3, Zenon DEF CommitOrderInv, CommitTypes, Position
<1> QED
  BY <1>3, <1>4, <1>5, <1>6, <1>7, Zenon DEF CommitOrderInv

(* A clone is another holder of a reserved ticket.                         *)
LEMMA Clones ==
    ASSUME CommitOrderInv, NEW h \in Handles, NEW h2 \in Handles, Clone(h, h2)
    PROVE  CommitOrderInv' /\ UNCHANGED <<reserved, CommitOutstanding, CommitInside>>
<1>1. /\ c_pc[h] = "held" /\ c_pc[h2] = "free" /\ c_pc' = [c_pc EXCEPT ![h2] = "held"] /\ c_seq' = [c_seq EXCEPT ![h2] = c_seq[h]]
      /\ UNCHANGED <<reserved, next_sequence, c_finished_out_of_order, ticket>>
  BY Zenon DEF Clone, GotoHandle, admission, coordinator
<1>2. c_seq[h] < reserved
  BY <1>1, Zenon DEF CommitOrderInv, Handle, OnTicket, Idle
<1>3. UNCHANGED <<reserved, CommitOutstanding, CommitInside>>
  BY <1>1, Zenon DEF CommitOrderInv, CommitTypes, CommitOutstanding, CommitInside
<1>4. CommitTypes'
  BY <1>1, Zenon DEF CommitOrderInv, CommitTypes, HandleStates, OnTicket, Idle
<1>5. \A g \in Handles : Handle(g)'
  BY <1>1, <1>2, Zenon DEF CommitOrderInv, CommitTypes, Handle, OnTicket, Owning, Claiming, Finishing
<1>6. \A g, k \in Handles : CommitApart(g, k)'
  BY <1>1, Zenon DEF CommitOrderInv, CommitTypes, CommitApart, Retiring, Owning, Claiming
<1>7. \A s \in Sequences : Position(s)'
  BY <1>1, <1>3, Zenon DEF CommitOrderInv, CommitTypes, Position
<1> QED
  BY <1>3, <1>4, <1>5, <1>6, <1>7, Zenon DEF CommitOrderInv

(* The coordinator lets the claimer of its position in; nobody else is.    *)
LEMMA CommitEnters ==
    ASSUME CommitOrderInv, NEW h \in Handles, CommitCheckTurn(h), next_sequence = c_seq[h]
    PROVE  CommitOrderInv' /\ \E s \in CommitOutstanding : CommitOrder!Enter(s)
<1>1. /\ c_pc[h] = "claim_enabled" /\ c_pc' = [c_pc EXCEPT ![h] = "turn"]
      /\ UNCHANGED <<reserved, next_sequence, c_finished_out_of_order, ticket, c_seq>>
  BY Zenon DEF CommitCheckTurn, GotoHandle, admission, coordinator
<1>2. c_seq[h] \in Sequences /\ ticket[c_seq[h]] = "claimed"
  BY <1>1 DEF CommitOrderInv, CommitTypes, Handle, Sequences, OnTicket, Owning, Claiming
<1>3. \A g \in Handles : c_pc[g] \notin {"turn", "leaving"}
  BY <1>1, <1>2, Zenon DEF CommitOrderInv, Handle, CommitApart, Owning, Claiming, Finishing
<1>4. CommitInside = {} /\ CommitInside' = {c_seq[h]} /\ CommitOutstanding' = CommitOutstanding
  BY <1>1, <1>3, Zenon DEF CommitOrderInv, CommitTypes, CommitInside, CommitOutstanding
<1>5. c_seq[h] \in CommitOutstanding /\ \A t \in CommitOutstanding : c_seq[h] <= t
  BY <1>2, Zenon DEF CommitOrderInv, CommitTypes, Position, CommitOutstanding, Sequences
<1>6. CommitTypes'
  BY <1>1, Zenon DEF CommitOrderInv, CommitTypes, HandleStates, OnTicket
<1>7. \A g \in Handles : Handle(g)'
  BY <1>1, Zenon DEF CommitOrderInv, CommitTypes, Handle, OnTicket, Owning, Claiming, Finishing
<1>8. \A g, k \in Handles : CommitApart(g, k)'
  BY <1>1, Zenon DEF CommitOrderInv, CommitTypes, CommitApart, Retiring, Owning, Claiming
<1>9. \A s \in Sequences : Position(s)'
  BY <1>1, <1>4, Zenon DEF CommitOrderInv, CommitTypes, Position
<1> QED
  BY <1>1, <1>4, <1>5, <1>6, <1>7, <1>8, <1>9, Zenon DEF CommitOrderInv, CommitOrder!Enter

(* LifecycleCommitCoordinator.finish retires the position of its handle.   *)
LEMMA CommitRetires ==
    ASSUME CommitOrderInv, NEW h \in Handles, finish(h)
    PROVE  CommitOrderInv' /\ \E s \in CommitOutstanding : CommitOrder!Retire(s)
<1> DEFINE s0 == c_seq[h]
<1>1. /\ c_pc[h] \in Retiring /\ c_pc' = [c_pc EXCEPT ![h] = "counting"] /\ UNCHANGED <<reserved, ticket, c_seq>>
  BY Zenon DEF finish, GotoHandle, admission, Retiring
<1>2. s0 \in Sequences /\ s0 < reserved /\ ticket[s0] = "finished"
  BY <1>1 DEF CommitOrderInv, CommitTypes, Handle, Sequences, Retiring, OnTicket, Finishing
<1>3. \A g \in Handles \ {h} : c_seq[g] = s0 => c_pc[g] \notin Retiring \cup {"turn"}
  BY <1>1, <1>2, Zenon DEF CommitOrderInv, Handle, CommitApart, Owning
<1>4. s0 \in CommitOutstanding /\ CommitOutstanding' = CommitOutstanding \ {s0}
  BY <1>1, <1>2, <1>3, Zenon DEF CommitOrderInv, CommitTypes, CommitOutstanding, Retiring
<1>5. CommitInside' = CommitInside \ {s0}
  BY <1>1, <1>3, Zenon DEF CommitOrderInv, CommitTypes, CommitInside, Retiring
<1>6. s0 >= next_sequence /\ s0 \notin c_finished_out_of_order
  BY <1>2, <1>4, Zenon DEF CommitOrderInv, Position
<1>7. CASE s0 = next_sequence
  <2>1. PICK n \in (s0 + 1) .. MaxReservations :
           /\ n \notin c_finished_out_of_order
           /\ (s0 + 1) .. (n - 1) \subseteq c_finished_out_of_order
           /\ next_sequence' = n
           /\ c_finished_out_of_order' = c_finished_out_of_order \ ((s0 + 1) .. (n - 1))
    BY <1>7 DEF finish, CommitOrderInv, CommitTypes
  <2>2. n <= reserved
    <3>1. n - 1 = s0 \/ n - 1 \in c_finished_out_of_order
      BY <1>2, <2>1 DEF Sequences
    <3> QED
      BY <1>2, <2>1, <3>1 DEF CommitOrderInv, CommitTypes, Sequences
  <2>3. CommitTypes'
    BY <1>1, <1>2, <1>7, <2>1, <2>2 DEF CommitOrderInv, CommitTypes, HandleStates, OnTicket, Finishing, Sequences
  <2>4. \A g \in Handles : Handle(g)'
    BY <1>1, <1>2, <1>3, <1>7, Zenon DEF CommitOrderInv, CommitTypes, Handle, Retiring, OnTicket, Owning, Claiming, Finishing
  <2>5. \A g, k \in Handles : CommitApart(g, k)'
    BY <1>1, Zenon DEF CommitOrderInv, CommitTypes, CommitApart, Retiring, Owning, Claiming
  <2>6. \A s \in Sequences : Position(s)'
    BY <1>1, <1>2, <1>4, <1>7, <2>1, <2>2 DEF CommitOrderInv, CommitTypes, Position, Sequences
  <2> QED
    BY <1>1, <1>4, <1>5, <2>3, <2>4, <2>5, <2>6, Zenon DEF CommitOrderInv, CommitOrder!Retire
<1>8. CASE s0 > next_sequence
  <2>1. c_finished_out_of_order' = c_finished_out_of_order \cup {s0} /\ next_sequence' = next_sequence
    BY <1>2, <1>8 DEF finish, CommitOrderInv, CommitTypes, Sequences
  <2>2. CommitTypes'
    <3>1. s0 \in (next_sequence + 1) .. (reserved - 1)
      BY <1>2, <1>8 DEF CommitOrderInv, CommitTypes, Sequences
    <3>2. c_pc' \in [Handles -> HandleStates]
      BY <1>1, Zenon DEF CommitOrderInv, CommitTypes, HandleStates, OnTicket, Finishing
    <3> QED
      BY <1>1, <2>1, <3>1, <3>2, Zenon DEF CommitOrderInv, CommitTypes
  <2>3. \A g \in Handles : Handle(g)'
    BY <1>1, <2>1, Zenon DEF CommitOrderInv, CommitTypes, Handle, Retiring, OnTicket, Owning, Claiming, Finishing
  <2>4. \A g, k \in Handles : CommitApart(g, k)'
    BY <1>1 DEF CommitOrderInv, CommitTypes, CommitApart, Retiring, Owning, Claiming
  <2>5. \A s \in Sequences : Position(s)'
    BY <1>1, <1>2, <1>4, <1>8, <2>1, Zenon DEF CommitOrderInv, CommitTypes, Position, Sequences
  <2> QED
    BY <1>1, <1>4, <1>5, <2>2, <2>3, <2>4, <2>5, Zenon DEF CommitOrderInv, CommitOrder!Retire
<1> QED
  BY <1>2, <1>6, <1>7, <1>8, SMTT(30) DEF CommitOrderInv, CommitTypes, Sequences

(* A step of the commit order is a step of the turn order or leaves it.    *)
LEMMA StepCommitOrder ==
    CommitOrderInv /\ [CommitNext]_commitVars => CommitOrderInv' /\ [CommitOrder!Next]_(CommitOrder!turnVars)
<1> SUFFICES ASSUME CommitOrderInv, [CommitNext]_commitVars
             PROVE  CommitOrderInv' /\ (CommitOrder!Next \/ UNCHANGED <<reserved, CommitOutstanding, CommitInside>>)
  BY Zenon DEF CommitOrder!turnVars
<1> USE DEF HandleStates, OnTicket, Owning, Retiring, Finishing, Idle, Claiming, Watching
<1>1. ASSUME NEW h \in Handles, try_reserve(h) \/ track_unordered_publication(h) \/ CancelClaim(h) \/ HandleStep(h)
      PROVE  CommitOrderInv' /\ (CommitOrder!Next \/ UNCHANGED <<reserved, CommitOutstanding, CommitInside>>)
  <2>1. CASE try_reserve(h)
    BY <2>1, CommitReserves, Zenon DEF CommitOrder!Next
  <2>2. CASE track_unordered_publication(h)
    BY <2>2, CommitMoves, SMTT(30) DEF track_unordered_publication, admission
  <2>3. CASE CancelClaim(h)
    BY <2>3, Swaps, Zenon DEF CancelClaim, CommitOrderInv, Handle, CommitApart
  <2>4. CASE wait_for_turn(h)
    <3>1. CASE ticket[c_seq[h]] = "pending"
      BY <2>4, <3>1, Claims, Zenon
    <3>2. CASE ticket[c_seq[h]] # "pending"
      BY <2>4, <3>2, CommitMoves, Zenon DEF wait_for_turn, admission
    <3> QED
      BY <3>1, <3>2, Zenon
  <2>5. CASE CommitEnable(h)
    BY <2>5, CommitMoves, Zenon DEF CommitEnable, admission
  <2>6. CASE CommitCheckTurn(h)
    <3>1. CASE next_sequence = c_seq[h]
      BY <2>6, <3>1, CommitEnters, Zenon DEF CommitOrder!Next
    <3>2. CASE next_sequence # c_seq[h]
      BY <2>6, <3>2, CommitMoves, Zenon DEF CommitCheckTurn, admission
    <3> QED
      BY <3>1, <3>2, Zenon
  <2>7. CASE CheckFinished(h)
    BY <2>7, CommitMoves, Zenon DEF CheckFinished, admission
  <2>8. CASE CommitAwait(h)
    BY <2>8, CommitMoves, Zenon DEF CommitAwait, admission
  <2>9. CASE CommitResume(h)
    BY <2>9, CommitMoves, SMTT(30) DEF CommitResume, admission
  <2>10. CASE DropTurn(h)
    BY <2>10, Swaps, Zenon DEF DropTurn, CommitOrderInv, Handle, CommitApart
  <2>11. CASE DropHandle(h)
    <3>1. CASE Owners(c_seq[h]) = {h} /\ ticket[c_seq[h]] # "finished"
      <4>1. c_pc[h] \in OnTicket /\ c_seq[h] \in Sequences /\ c_seq[h] < reserved
        BY <2>11 DEF DropHandle, CommitOrderInv, CommitTypes, Handle, Sequences
      <4>2. ticket[c_seq[h]] \in {"pending", "claimed"}
        BY <3>1, <4>1 DEF CommitOrderInv, CommitTypes, Position, TicketStates, Sequences
      <4>3. \A g \in Handles \ {h} : c_pc[g] \in Owning => c_seq[g] # c_seq[h]
        BY <3>1, SMTT(30) DEF Owners
      <4> QED
        BY <2>11, <3>1, <4>1, <4>2, <4>3, Swaps, Zenon DEF DropHandle
    <3>2. CASE ~(Owners(c_seq[h]) = {h} /\ ticket[c_seq[h]] # "finished")
      BY <2>11, <3>2, CommitMoves, Zenon DEF DropHandle, admission
    <3> QED
      BY <3>1, <3>2, Zenon
  <2>12. CASE finish(h)
    BY <2>12, CommitRetires, Zenon DEF CommitOrder!Next
  <2>13. CASE finish_pending_once(h)
    BY <2>13, CommitMoves, Zenon DEF finish_pending_once, admission
  <2>14. CASE DropPublicationGuard(h)
    BY <2>14, CommitMoves, Zenon DEF DropPublicationGuard, admission
  <2> QED
    BY <1>1, <2>1, <2>2, <2>3, <2>4, <2>5, <2>6, <2>7, <2>8, <2>9, <2>10, <2>11, <2>12, <2>13, <2>14, Zenon DEF HandleStep
<1>2. ASSUME NEW h \in Handles, NEW h2 \in Handles, Clone(h, h2)
      PROVE  CommitOrderInv' /\ UNCHANGED <<reserved, CommitOutstanding, CommitInside>>
  BY <1>2, Clones, Zenon
<1>3. CASE close \/ seal_publications \/ wait_until_idle \/ UNCHANGED commitVars
  <2>1. UNCHANGED <<reserved, next_sequence, c_finished_out_of_order, ticket, c_pc, c_seq>>
    BY <1>3, Zenon DEF close, seal_publications, wait_until_idle, commitVars, admission, coordinator
  <2> QED
    BY <2>1 DEF CommitOrderInv, CommitTypes, Handle, CommitApart, Position, CommitOutstanding, CommitInside
<1> QED
  BY <1>1, <1>2, <1>3, Zenon DEF CommitNext

(* For any set of handles and any number of reservations: turns are taken  *)
(* one at a time and in the order of the reservations, whatever is cloned, *)
(* cancelled or dropped (LifecycleCommitTicket and its coordinator).       *)
THEOREM CommitOrderImplementsTurnOrder == CommitSpec => CommitOrderSpec
  BY InitCommitOrder, StepCommitOrder, PTL DEF CommitSpec, CommitOrderSpec, CommitOrder!Spec

---------------------------------------------------------------------------
USE HandlesAreFinite

(* What the pending count counts: publication guards, tickets before the   *)
(* swap of finish_once, and handles after it.                              *)
Guards == {h \in Handles : c_pc[h] = "guard"}
Unswapped == {s \in Sequences : ticket[s] \in {"pending", "claimed"}}
Swapped == {h \in Handles : c_pc[h] \in Finishing}

CountIsExact == count = Cardinality(Guards) + Cardinality(Unswapped) + Cardinality(Swapped)

Gates == /\ c_barrier # "none" => c_phase \in {"closing", "sealing"}
         /\ c_phase # "open" => ~c_accepting
         /\ c_phase \in {"sealing", "sealed"} => ~accepting_publications
         /\ c_phase \in {"open", "closing", "closed", "sealing", "sealed"}

BarrierInv == /\ CommitOrderInv /\ CountIsExact /\ Gates
              /\ c_phase \in {"closed", "sealing", "sealed"} => CommitOutstanding = {}
              /\ c_phase = "sealed" => count = 0

(* The three sets are finite, and change by one element at a time.         *)
LEMMA CommitFinite ==
    /\ \A A \in SUBSET Handles : IsFiniteSet(A) /\ Cardinality(A) \in Nat
    /\ \A A \in SUBSET Sequences : IsFiniteSet(A) /\ Cardinality(A) \in Nat
<1>1. IsFiniteSet(Sequences)
  BY FS_Interval DEF Sequences
<1> QED
  BY <1>1, FS_Subset, FS_CardinalityType, Zenon

LEMMA Adds ==
    ASSUME NEW A, IsFiniteSet(A), NEW x
    PROVE  /\ x \notin A => Cardinality(A \cup {x}) = Cardinality(A) + 1
           /\ x \in A => Cardinality(A \ {x}) = Cardinality(A) - 1
  BY FS_AddElement, FS_RemoveElement, Zenon

LEMMA InitBarrier == CommitInit => BarrierInv
<1> SUFFICES ASSUME CommitInit PROVE BarrierInv
  BY Zenon
<1>1. Guards = {} /\ Unswapped = {} /\ Swapped = {}
  BY Zenon DEF CommitInit, Guards, Unswapped, Swapped, Finishing
<1>2. CountIsExact
  BY <1>1, FS_EmptySet DEF CommitInit, CountIsExact
<1> QED
  BY <1>2, InitCommitOrder, Zenon DEF CommitInit, BarrierInv, Gates

(* The count follows every step.                                           *)
LEMMA StepCount ==
    ASSUME CommitOrderInv, CountIsExact, [CommitNext]_commitVars
    PROVE  CountIsExact'
<1> DEFINE G == Cardinality(Guards)  U == Cardinality(Unswapped)  W == Cardinality(Swapped)
<1>f. /\ IsFiniteSet(Guards) /\ IsFiniteSet(Unswapped) /\ IsFiniteSet(Swapped)
      /\ G \in Nat /\ U \in Nat /\ W \in Nat
  BY CommitFinite, Zenon DEF Guards, Unswapped, Swapped
<1>c. count = G + U + W
  BY Zenon DEF CountIsExact
<1> USE DEF HandleStates, OnTicket, Owning, Retiring, Finishing, Idle, Claiming, Watching
<1>s. ASSUME NEW h \in Handles, NEW state \in Retiring, Swap(h, state), c_pc[h] \in OnTicket \ Finishing,
             ticket[c_seq[h]] # "finished"
      PROVE  CountIsExact'
  <2>1. c_seq[h] \in Sequences /\ c_seq[h] < reserved
    BY <1>s DEF CommitOrderInv, CommitTypes, Handle, Sequences
  <2>2. c_seq[h] \in Unswapped
    BY <1>s, <2>1 DEF CommitOrderInv, CommitTypes, Position, Unswapped, TicketStates
  <2>3. Unswapped' = Unswapped \ {c_seq[h]}
    BY <1>s, <2>1, Zenon DEF CommitOrderInv, CommitTypes, Swap, Unswapped
  <2>4. h \notin Swapped /\ Swapped' = Swapped \cup {h} /\ Guards' = Guards /\ count' = count
    BY <1>s, Zenon DEF CommitOrderInv, CommitTypes, Swap, GotoHandle, Swapped, Guards
  <2>5. Cardinality(Unswapped') = U - 1 /\ Cardinality(Swapped') = W + 1
    BY <1>f, <2>2, <2>3, <2>4, Adds, Zenon
  <2> QED
    BY <1>f, <1>c, <2>4, <2>5 DEF CountIsExact
<1>m. ASSUME Guards' = Guards, Unswapped' = Unswapped, Swapped' = Swapped, count' = count PROVE CountIsExact'
  BY <1>m, Zenon DEF CountIsExact
<1>1. ASSUME NEW h \in Handles, try_reserve(h) \/ track_unordered_publication(h) \/ CancelClaim(h) \/ HandleStep(h)
      PROVE  CountIsExact'
  <2>1. CASE try_reserve(h)
    <3>1. reserved \in Sequences /\ ticket[reserved] = "unreserved"
      BY <2>1 DEF try_reserve, CommitOrderInv, CommitTypes, Position, Sequences
    <3>2. reserved \notin Unswapped /\ Unswapped' = Unswapped \cup {reserved}
      BY <2>1, <3>1, Zenon DEF try_reserve, CommitOrderInv, CommitTypes, Unswapped
    <3>3. Guards' = Guards /\ Swapped' = Swapped /\ count' = count + 1
      BY <2>1, Zenon DEF try_reserve, start, GotoHandle, CommitOrderInv, CommitTypes, Guards, Swapped
    <3> QED
      BY <1>f, <1>c, <3>2, <3>3, Adds DEF CountIsExact
  <2>2. CASE track_unordered_publication(h)
    <3>1. h \notin Guards /\ Guards' = Guards \cup {h} /\ Swapped' = Swapped /\ count' = count + 1
      BY <2>2, Zenon DEF track_unordered_publication, start, GotoHandle, CommitOrderInv, CommitTypes, Guards, Swapped
    <3>2. Unswapped' = Unswapped
      BY <2>2, Zenon DEF track_unordered_publication, Unswapped
    <3> QED
      BY <1>f, <1>c, <3>1, <3>2, Adds DEF CountIsExact
  <2>3. CASE CancelClaim(h) \/ DropTurn(h)
    BY <2>3, <1>s, Zenon DEF CancelClaim, DropTurn, CommitOrderInv, Handle
  <2>4. CASE wait_for_turn(h)
    <3>1. Unswapped' = Unswapped
      BY <2>4, Zenon DEF wait_for_turn, CommitOrderInv, CommitTypes, Unswapped
    <3>2. Guards' = Guards /\ Swapped' = Swapped /\ count' = count
      BY <2>4, Zenon DEF wait_for_turn, GotoHandle, CommitOrderInv, CommitTypes, Guards, Swapped
    <3> QED
      BY <1>m, <3>1, <3>2, Zenon
  <2>5. CASE CommitEnable(h) \/ CommitCheckTurn(h) \/ CheckFinished(h) \/ CommitAwait(h) \/ CommitResume(h)
    <3>1. Unswapped' = Unswapped /\ count' = count
      BY <2>5, Zenon DEF CommitEnable, CommitCheckTurn, CheckFinished, CommitAwait, CommitResume, Unswapped
    <3>2. Guards' = Guards /\ Swapped' = Swapped
      BY <2>5, Zenon DEF CommitEnable, CommitCheckTurn, CheckFinished, CommitAwait, CommitResume, GotoHandle, CommitOrderInv, CommitTypes, Guards, Swapped
    <3> QED
      BY SMTT(30), <1>m, <3>1, <3>2
  <2>6. CASE DropHandle(h)
    <3>1. CASE Owners(c_seq[h]) = {h} /\ ticket[c_seq[h]] # "finished"
      BY <1>s, <2>6, <3>1, SMTT(30) DEF DropHandle
    <3>2. CASE ~(Owners(c_seq[h]) = {h} /\ ticket[c_seq[h]] # "finished")
      <4>1. Unswapped' = Unswapped /\ count' = count
        BY <2>6, <3>2, Zenon DEF DropHandle, Unswapped
      <4>2. Guards' = Guards /\ Swapped' = Swapped
        BY <2>6, <3>2, SMTT(30) DEF DropHandle, GotoHandle, CommitOrderInv, CommitTypes, Guards, Swapped
      <4> QED
        BY <1>m, <4>1, <4>2, Zenon
    <3> QED
      BY SMTT(30), <3>1, <3>2
  <2>7. CASE finish(h)
    <3>1. Unswapped' = Unswapped /\ count' = count
      BY <2>7, Zenon DEF finish, Unswapped
    <3>2. Guards' = Guards /\ Swapped' = Swapped
      BY <2>7, Zenon DEF finish, GotoHandle, CommitOrderInv, CommitTypes, Guards, Swapped
    <3> QED
      BY <1>m, <3>1, <3>2, Zenon
  <2>8. CASE finish_pending_once(h)
    <3>1. h \in Swapped /\ Swapped' = Swapped \ {h} /\ Guards' = Guards /\ count' = count - 1
      BY <2>8, Zenon DEF finish_pending_once, PendingFinish, GotoHandle, CommitOrderInv, CommitTypes, Guards, Swapped
    <3>2. Unswapped' = Unswapped
      BY <2>8, Zenon DEF finish_pending_once, Unswapped
    <3> QED
      BY <1>f, <1>c, <3>1, <3>2, Adds DEF CountIsExact
  <2>9. CASE DropPublicationGuard(h)
    <3>1. h \in Guards /\ Guards' = Guards \ {h} /\ Swapped' = Swapped /\ count' = count - 1
      BY <2>9, Zenon DEF DropPublicationGuard, PendingFinish, GotoHandle, CommitOrderInv, CommitTypes, Guards, Swapped
    <3>2. Unswapped' = Unswapped
      BY <2>9, Zenon DEF DropPublicationGuard, Unswapped
    <3> QED
      BY <1>f, <1>c, <3>1, <3>2, Adds DEF CountIsExact
  <2> QED
    BY <1>1, <2>1, <2>2, <2>3, <2>4, <2>5, <2>6, <2>7, <2>8, <2>9, SMTT(30) DEF HandleStep
<1>2. ASSUME NEW h \in Handles, NEW h2 \in Handles, Clone(h, h2) PROVE CountIsExact'
  <2>1. Unswapped' = Unswapped /\ count' = count
    BY <1>2, Zenon DEF Clone, Unswapped
  <2>2. Guards' = Guards /\ Swapped' = Swapped
    BY <1>2, Zenon DEF Clone, GotoHandle, CommitOrderInv, CommitTypes, Guards, Swapped
  <2> QED
    BY <1>m, <2>1, <2>2, Zenon
<1>3. CASE close \/ seal_publications \/ wait_until_idle \/ UNCHANGED commitVars
  <2>1. UNCHANGED <<count, ticket, c_pc>>
    BY <1>3, Zenon DEF close, seal_publications, wait_until_idle, commitVars
  <2> QED
    BY <1>m, <2>1, Zenon DEF Guards, Unswapped, Swapped
<1> QED
  BY <1>1, <1>2, <1>3, Zenon DEF CommitNext

(* A count of zero means that nothing is counted.                          *)
LEMMA NothingCounted ==
    ASSUME CountIsExact, count = 0
    PROVE  Guards = {} /\ Unswapped = {} /\ Swapped = {}
<1>1. /\ IsFiniteSet(Guards) /\ IsFiniteSet(Unswapped) /\ IsFiniteSet(Swapped)
      /\ Cardinality(Guards) \in Nat /\ Cardinality(Unswapped) \in Nat /\ Cardinality(Swapped) \in Nat
  BY CommitFinite, Zenon DEF Guards, Unswapped, Swapped
<1>2. Cardinality(Guards) = 0 /\ Cardinality(Unswapped) = 0 /\ Cardinality(Swapped) = 0
  BY <1>1 DEF CountIsExact
<1>3. Guards = {}
  BY <1>1, <1>2, FS_EmptySet, Zenon
<1>4. Unswapped = {}
  BY <1>1, <1>2, FS_EmptySet, Zenon
<1>5. Swapped = {}
  BY <1>1, <1>2, FS_EmptySet, Zenon
<1> QED
  BY <1>3, <1>4, <1>5, Zenon

LEMMA StepBarrier == BarrierInv /\ [CommitNext]_commitVars => BarrierInv'
<1> SUFFICES ASSUME BarrierInv, [CommitNext]_commitVars PROVE BarrierInv'
  BY Zenon
<1>1. CommitOrderInv /\ CommitOrderInv' /\ (CommitOrder!Next \/ UNCHANGED <<reserved, CommitOutstanding, CommitInside>>)
  BY StepCommitOrder, Zenon DEF BarrierInv, CommitOrder!turnVars
<1>2. CountIsExact'
  BY <1>1, StepCount, Zenon DEF BarrierInv
<1>3. count = 0 => Guards = {} /\ Unswapped = {} /\ Swapped = {}
  BY NothingCounted, Zenon DEF BarrierInv
<1>4. CASE wait_until_idle
  <2>1. UNCHANGED <<reserved, next_sequence, c_finished_out_of_order, ticket, c_pc, c_seq, count, c_accepting, accepting_publications>>
    BY <1>4, Zenon DEF wait_until_idle, admission, coordinator
  <2>2. CommitOutstanding' = CommitOutstanding
    BY <2>1, Zenon DEF CommitOutstanding
  <2>3. count = 0 => CommitOutstanding = {}
    BY <1>3, Zenon DEF CommitOutstanding, Unswapped, Swapped, Finishing
  <2>4. Gates'
    BY <1>4, <2>1, Zenon DEF wait_until_idle, BarrierInv, Gates
  <2> QED
    BY <1>1, <1>2, <1>4, <2>1, <2>2, <2>3, <2>4, Zenon DEF wait_until_idle, BarrierInv, Gates
<1>5. CASE close \/ seal_publications \/ UNCHANGED commitVars
  <2>1. UNCHANGED <<ticket, c_pc, c_seq, count>>
    BY <1>5, Zenon DEF close, seal_publications, commitVars
  <2>2. CommitOutstanding' = CommitOutstanding
    BY <2>1, Zenon DEF CommitOutstanding
  <2> QED
    BY <1>1, <1>2, <1>5, <2>1, <2>2 DEF close, seal_publications, commitVars, admission, commitShutdownVars, BarrierInv, Gates
<1>6. ASSUME NEW h \in Handles, \/ try_reserve(h) \/ track_unordered_publication(h) \/ CancelClaim(h) \/ HandleStep(h)
                                \/ \E h2 \in Handles : Clone(h, h2)
      PROVE  BarrierInv'
  <2>1. UNCHANGED <<c_accepting, accepting_publications, c_phase, c_barrier>>
    BY <1>6, Zenon DEF try_reserve, track_unordered_publication, CancelClaim, HandleStep, Clone, wait_for_turn, CommitEnable,
       CommitCheckTurn, CheckFinished, CommitAwait, CommitResume, DropTurn, DropHandle, Swap, finish, finish_pending_once, PendingFinish,
       DropPublicationGuard, admission, commitShutdownVars
  <2>2. c_phase # "open" => CommitOutstanding' \subseteq CommitOutstanding
    <3>1. c_phase # "open" => ~try_reserve(h)
      BY SMTT(30) DEF try_reserve, BarrierInv, Gates
    <3>2. ~try_reserve(h) => reserved' = reserved
      BY <1>6, Zenon DEF track_unordered_publication, CancelClaim, HandleStep, Clone, wait_for_turn, CommitEnable,
         CommitCheckTurn, CheckFinished, CommitAwait, CommitResume, DropTurn, DropHandle, Swap, finish, finish_pending_once,
         DropPublicationGuard, admission
    <3>3. reserved \in Nat
      BY <1>1, SMTT(30) DEF CommitOrderInv, CommitTypes
    <3> QED
      BY <1>1, <3>1, <3>2, <3>3 DEF CommitOrder!Next, CommitOrder!Reserve, CommitOrder!Enter, CommitOrder!Retire
  <2>3. c_phase = "sealed" => count' = 0
    <3> SUFFICES ASSUME c_phase = "sealed" PROVE count' = count
      BY Zenon DEF BarrierInv
    <3>1. ~try_reserve(h) /\ ~track_unordered_publication(h)
      BY SMTT(30) DEF try_reserve, track_unordered_publication, BarrierInv, Gates
    <3>2. ~finish_pending_once(h) /\ ~DropPublicationGuard(h)
      BY <1>3, Zenon DEF finish_pending_once, DropPublicationGuard, BarrierInv, Guards, Swapped, Finishing
    <3> QED
      BY <1>6, <3>1, <3>2, Zenon DEF CancelClaim, HandleStep, Clone, wait_for_turn, CommitEnable,
         CommitCheckTurn, CheckFinished, CommitAwait, CommitResume, DropTurn, DropHandle, Swap, finish
  <2> QED
    BY <1>1, <1>2, <2>1, <2>2, <2>3, SMTT(30) DEF BarrierInv, Gates
<1> QED
  BY <1>4, <1>5, <1>6, Zenon DEF CommitNext

(* For any finite set of handles and any number of reservations: after     *)
(* close_and_wait every ordered commit has been passed by the coordinator, *)
(* and after seal_and_wait nothing is left or can start                    *)
(* (LifecycleCommitOrder::close_and_wait and seal_and_wait).               *)
THEOREM BarriersHold == CommitSpec => []BarrierIsFinal
<1>1. BarrierInv => BarrierIsFinal
  <2> SUFFICES ASSUME BarrierInv PROVE BarrierIsFinal
    BY Zenon
  <2>1. ASSUME CommitOutstanding = {} PROVE next_sequence = reserved /\ c_finished_out_of_order = {}
    <3>1. next_sequence = reserved
      BY <2>1 DEF BarrierInv, CommitOrderInv, CommitTypes, Position, Sequences
    <3> QED
      BY <3>1 DEF BarrierInv, CommitOrderInv, CommitTypes
  <2>2. ASSUME c_phase = "sealed", NEW h \in Handles PROVE c_pc[h] # "guard"
    <3>2. Guards = {}
      BY <2>2, NothingCounted, Zenon DEF BarrierInv
    <3> QED
      BY <3>2, Zenon DEF Guards
  <2>3. ASSUME c_phase = "sealed", NEW h \in Handles PROVE c_pc[h] # "turn"
    <3> SUFFICES ASSUME c_pc[h] = "turn" PROVE FALSE
      BY Zenon
    <3>1. c_seq[h] \in Sequences /\ ticket[c_seq[h]] = "claimed"
      BY DEF BarrierInv, CommitOrderInv, CommitTypes, Handle, OnTicket, Owning, Sequences
    <3>2. c_seq[h] \in CommitOutstanding
      BY <3>1, Zenon DEF CommitOutstanding
    <3> QED
      BY <2>3, <3>2, Zenon DEF BarrierInv
  <2> QED
    BY <2>1, <2>2, <2>3, Zenon DEF BarrierInv, BarrierIsFinal
<1> QED
  BY <1>1, InitBarrier, StepBarrier, PTL DEF CommitSpec

HIDE HandlesAreFinite
HIDE ReservationsAreNat

-----------------------------------------------------------------------------
LEMMA PositionsAreNat == MaxPositions \in Nat
  BY TasksAssumption, Zenon

LEMMA TasksAreFinite == IsFiniteSet(Tasks)
  BY TasksAssumption, Zenon

USE PositionsAreNat

PostCommitTypes == /\ next_reservation_sequence \in 0 .. MaxPositions
                   /\ next_turn_sequence \in 0 .. next_reservation_sequence
                   /\ s_finished_out_of_order \subseteq (next_turn_sequence + 1) .. (next_reservation_sequence - 1)
                   /\ s_pc \in [Tasks -> TaskStates] /\ s_seq \in [Tasks -> 0 .. MaxPositions]

(* What a task's place says of its position.                               *)
Task(t) == /\ s_pc[t] \in Positioned => /\ s_seq[t] >= next_turn_sequence /\ s_seq[t] < next_reservation_sequence
                                        /\ s_seq[t] \notin s_finished_out_of_order
           /\ s_pc[t] \in {"turn", "leaving"} => s_seq[t] = next_turn_sequence

PostCommitApart(t, u) == t # u /\ s_pc[t] \in Positioned /\ s_pc[u] \in Positioned => s_seq[t] # s_seq[u]

PostCommitOrderInv == /\ PostCommitTypes
                      /\ \A t \in Tasks : Task(t)
                      /\ \A t, u \in Tasks : PostCommitApart(t, u)
                      /\ \A s \in next_turn_sequence .. (next_reservation_sequence - 1) :
                            s \in PostCommitOutstanding \cup s_finished_out_of_order

LEMMA InitPostCommitOrder == PostCommitInit => PostCommitOrderInv /\ PostCommitOrder!Init
<1> SUFFICES ASSUME PostCommitInit PROVE PostCommitOrderInv /\ PostCommitOrder!Init
  BY Zenon
<1>1. PostCommitOutstanding = {} /\ PostCommitInside = {}
  BY Zenon DEF PostCommitInit, PostCommitOutstanding, PostCommitInside, Positioned, Waiting
<1>2. PostCommitTypes
  BY DEF PostCommitInit, PostCommitTypes, TaskStates
<1>3. \A t \in Tasks : Task(t) /\ \A u \in Tasks : PostCommitApart(t, u)
  BY Zenon DEF PostCommitInit, Task, PostCommitApart, Positioned, Waiting
<1> QED
  BY <1>1, <1>2, <1>3 DEF PostCommitOrderInv, PostCommitInit, PostCommitOrder!Init

(* A task that keeps, or keeps being without, its position and its turn.   *)
LEMMA PostCommitMoves ==
    ASSUME PostCommitOrderInv, NEW t \in Tasks, NEW state \in TaskStates, GotoTask(t, state),
           UNCHANGED <<turns, s_seq>>,
           s_pc[t] \in Positioned <=> state \in Positioned,
           s_pc[t] \in {"turn", "leaving"} <=> state \in {"turn", "leaving"}
    PROVE  PostCommitOrderInv' /\ UNCHANGED <<next_reservation_sequence, PostCommitOutstanding, PostCommitInside>>
<1>1. \A u \in Tasks : /\ s_pc'[u] = IF u = t THEN state ELSE s_pc[u]
                       /\ s_seq'[u] = s_seq[u]
  BY Zenon DEF PostCommitOrderInv, PostCommitTypes, GotoTask
<1>2. \A u \in Tasks : /\ s_pc'[u] \in Positioned <=> s_pc[u] \in Positioned
                       /\ s_pc'[u] \in {"turn", "leaving"} <=> s_pc[u] \in {"turn", "leaving"}
  BY <1>1, Zenon
<1>3. UNCHANGED <<PostCommitOutstanding, PostCommitInside>>
  BY <1>1, <1>2, Zenon DEF PostCommitOutstanding, PostCommitInside
<1>4. PostCommitTypes'
  BY Zenon DEF PostCommitOrderInv, PostCommitTypes, GotoTask, turns
<1>5. (\A u \in Tasks : Task(u))'
  BY <1>1, <1>2, Zenon DEF PostCommitOrderInv, Task, turns
<1>6. (\A u, v \in Tasks : PostCommitApart(u, v))'
  BY <1>1, <1>2, Zenon DEF PostCommitOrderInv, PostCommitApart
<1> QED
  BY <1>3, <1>4, <1>5, <1>6, Zenon DEF PostCommitOrderInv, turns

LEMMA PostCommitReserves ==
    ASSUME PostCommitOrderInv, NEW t \in Tasks, sequence(t)
    PROVE  PostCommitOrderInv' /\ PostCommitOrder!Reserve
<1> DEFINE r == next_reservation_sequence
<1>1. /\ r \in Nat /\ r < MaxPositions /\ r' = r + 1
      /\ next_turn_sequence' = next_turn_sequence /\ s_finished_out_of_order' = s_finished_out_of_order
      /\ s_pc[t] = "capacity"
  BY DEF PostCommitOrderInv, PostCommitTypes, sequence
<1>2. \A u \in Tasks : /\ s_pc'[u] = IF u = t THEN "reserved" ELSE s_pc[u]
                       /\ s_seq'[u] = IF u = t THEN r ELSE s_seq[u]
  BY Zenon DEF PostCommitOrderInv, PostCommitTypes, sequence, GotoTask
<1>3. PostCommitOutstanding' = PostCommitOutstanding \cup {r} /\ PostCommitInside' = PostCommitInside
  BY <1>1, <1>2, Zenon DEF PostCommitOutstanding, PostCommitInside, Positioned, Waiting
<1>4. PostCommitTypes'
  BY <1>1 DEF PostCommitOrderInv, PostCommitTypes, sequence, GotoTask, TaskStates, Slotted, Positioned, Waiting
<1>5. (\A u \in Tasks : Task(u))'
  BY <1>1, <1>2 DEF PostCommitOrderInv, PostCommitTypes, Task
<1>6. (\A u, v \in Tasks : PostCommitApart(u, v))'
  BY <1>1, <1>2 DEF PostCommitOrderInv, PostCommitTypes, Task, PostCommitApart
<1>7. (\A s \in next_turn_sequence .. (next_reservation_sequence - 1) : s \in PostCommitOutstanding \cup s_finished_out_of_order)'
  BY <1>1, <1>3 DEF PostCommitOrderInv, PostCommitTypes
<1> QED
  BY <1>1, <1>3, <1>4, <1>5, <1>6, <1>7, SMTT(30) DEF PostCommitOrderInv, PostCommitOrder!Reserve

LEMMA PostCommitEnters ==
    ASSUME PostCommitOrderInv, NEW t \in Tasks, PostCommitCheckTurn(t), next_turn_sequence = s_seq[t]
    PROVE  PostCommitOrderInv' /\ \E s \in PostCommitOutstanding : PostCommitOrder!Enter(s)
<1>1. \A u \in Tasks : /\ s_pc'[u] = IF u = t THEN "turn" ELSE s_pc[u]
                       /\ s_seq'[u] = s_seq[u]
  BY Zenon DEF PostCommitOrderInv, PostCommitTypes, PostCommitCheckTurn, GotoTask
<1>2. s_pc[t] = "enabled" /\ s_pc[t] \in Positioned
  BY Zenon DEF PostCommitCheckTurn, Positioned, Waiting
<1>3. \A u \in Tasks : s_pc'[u] \in Positioned <=> s_pc[u] \in Positioned
  BY <1>1, <1>2, Zenon DEF Positioned
<1>4. \A u \in Tasks : s_pc[u] \notin {"turn", "leaving"}
  BY <1>2, Zenon DEF PostCommitOrderInv, Task, PostCommitApart, Positioned
<1>5. PostCommitOutstanding' = PostCommitOutstanding /\ PostCommitInside = {} /\ PostCommitInside' = {s_seq[t]}
  BY <1>1, <1>3, <1>4, Zenon DEF PostCommitOutstanding, PostCommitInside
<1>6. s_seq[t] \in PostCommitOutstanding /\ \A s \in PostCommitOutstanding : s_seq[t] <= s
  BY <1>2, Zenon DEF PostCommitOrderInv, PostCommitTypes, Task, PostCommitOutstanding
<1>7. PostCommitTypes'
  BY Zenon DEF PostCommitOrderInv, PostCommitTypes, PostCommitCheckTurn, GotoTask, turns, TaskStates, Slotted, Positioned
<1>8. (\A u \in Tasks : Task(u))'
  BY <1>1, <1>3, Zenon DEF PostCommitOrderInv, Task, PostCommitCheckTurn, turns
<1>9. (\A u, v \in Tasks : PostCommitApart(u, v))'
  BY <1>1, <1>3, Zenon DEF PostCommitOrderInv, PostCommitApart
<1>10. PostCommitOrderInv'
  BY <1>5, <1>7, <1>8, <1>9, SMTT(30) DEF PostCommitOrderInv, PostCommitCheckTurn, turns
<1> QED
  BY <1>5, <1>6, <1>10, Zenon DEF PostCommitOrder!Enter, PostCommitCheckTurn, turns

LEMMA PostCommitRetires ==
    ASSUME PostCommitOrderInv, NEW t \in Tasks, finish_turn(t)
    PROVE  PostCommitOrderInv' /\ \E s \in PostCommitOutstanding : PostCommitOrder!Retire(s)
<1> DEFINE s0 == s_seq[t]
<1>1. \A u \in Tasks : /\ s_pc'[u] = IF u = t THEN "drop_slot" ELSE s_pc[u]
                       /\ s_seq'[u] = s_seq[u]
  BY Zenon DEF PostCommitOrderInv, PostCommitTypes, finish_turn, GotoTask
<1>2. /\ s_pc[t] \in {"leaving", "abandoning"} /\ s_pc[t] \in Positioned
      /\ next_reservation_sequence' = next_reservation_sequence
  BY Zenon DEF finish_turn, Positioned
<1>3. \A u \in Tasks : /\ s_pc'[u] \in Positioned <=> (s_pc[u] \in Positioned /\ u # t)
                       /\ s_pc'[u] \in {"turn", "leaving"} <=> (s_pc[u] \in {"turn", "leaving"} /\ u # t)
  BY <1>1, Zenon DEF Positioned, Waiting
<1>4. \A u \in Tasks : s_pc[u] \in Positioned /\ u # t => s_seq[u] # s0
  BY <1>2, Zenon DEF PostCommitOrderInv, PostCommitApart
<1>5. s0 \in PostCommitOutstanding /\ PostCommitOutstanding' = PostCommitOutstanding \ {s0}
  BY <1>1, <1>2, <1>3, <1>4, SMTT(30) DEF PostCommitOutstanding
<1>6. PostCommitInside' = PostCommitInside \ {s0}
  BY <1>1, <1>2, <1>3, <1>4, SMTT(30) DEF PostCommitInside, Positioned
<1>7. (\A u, v \in Tasks : PostCommitApart(u, v))'
  BY <1>1, <1>3, Zenon DEF PostCommitOrderInv, PostCommitApart
<1>8. s_pc' \in [Tasks -> TaskStates] /\ s_seq' \in [Tasks -> 0 .. MaxPositions]
  BY Zenon DEF PostCommitOrderInv, PostCommitTypes, finish_turn, GotoTask, TaskStates, Slotted
<1>9. /\ next_turn_sequence \in Nat /\ next_reservation_sequence \in Nat /\ s0 \in Nat
      /\ s0 >= next_turn_sequence /\ s0 < next_reservation_sequence /\ s0 \notin s_finished_out_of_order
      /\ next_reservation_sequence <= MaxPositions
  BY <1>2 DEF PostCommitOrderInv, PostCommitTypes, Task
<1>10. \A s \in PostCommitOutstanding : s \in Nat /\ s >= next_turn_sequence /\ s < next_reservation_sequence
                                        /\ s \notin s_finished_out_of_order
  BY DEF PostCommitOrderInv, PostCommitTypes, Task, PostCommitOutstanding
<1>11. \A u \in Tasks : s_pc'[u] \in Positioned => s_seq'[u] \in PostCommitOutstanding /\ s_seq'[u] # s0
  BY <1>1, <1>3, <1>4, SMTT(30) DEF PostCommitOutstanding
<1>r. \E s \in PostCommitOutstanding : PostCommitOrder!Retire(s)
  BY <1>2, <1>5, <1>6, SMTT(30) DEF PostCommitOrder!Retire
<1>12. CASE s0 = next_turn_sequence
  <2>1. PICK n \in (s0 + 1) .. MaxPositions :
           /\ n \notin s_finished_out_of_order
           /\ (s0 + 1) .. (n - 1) \subseteq s_finished_out_of_order
           /\ next_turn_sequence' = n
           /\ s_finished_out_of_order' = s_finished_out_of_order \ ((s0 + 1) .. (n - 1))
    BY <1>9, <1>12 DEF finish_turn
  <2>2. n \in Nat /\ n > s0 /\ n <= next_reservation_sequence
    <3>1. n \in Nat /\ n > s0
      BY <1>9, <2>1
    <3>2. ASSUME n > next_reservation_sequence PROVE FALSE
      <4>1. next_reservation_sequence \in (s0 + 1) .. (n - 1)
        BY SMTT(30), <1>9, <3>1, <3>2
      <4> QED
        BY <1>9, <2>1, <4>1, SMTT(30) DEF PostCommitOrderInv, PostCommitTypes
    <3> QED
      BY SMTT(30), <1>9, <3>1, <3>2
  <2>3. \A s \in PostCommitOutstanding : s # s0 => s >= n
    BY SMTT(30), <1>9, <1>10, <1>12, <2>1, <2>2
  <2>4. s_finished_out_of_order' \subseteq (n + 1) .. (next_reservation_sequence - 1)
    BY <1>9, <1>12, <2>1, <2>2, SMTT(30) DEF PostCommitOrderInv, PostCommitTypes
  <2>5. PostCommitTypes'
    BY <1>2, <1>8, <1>9, <2>1, <2>2, <2>4, SMTT(30) DEF PostCommitOrderInv, PostCommitTypes
  <2>6. (\A u \in Tasks : Task(u))'
    <3> SUFFICES ASSUME NEW u \in Tasks PROVE Task(u)'
      BY Zenon
    <3>1. s_pc'[u] \in Positioned => /\ s_seq'[u] >= n /\ s_seq'[u] < next_reservation_sequence
                                     /\ s_seq'[u] \notin s_finished_out_of_order'
      BY SMTT(30), <1>10, <1>11, <2>1, <2>3
    <3>2. s_pc'[u] \notin {"turn", "leaving"}
      BY <1>3, <1>4, <1>12, SMTT(30) DEF PostCommitOrderInv, Task, Positioned
    <3> QED
      BY <1>2, <2>1, <3>1, <3>2, SMTT(30) DEF Task
  <2>7. (\A s \in next_turn_sequence .. (next_reservation_sequence - 1) : s \in PostCommitOutstanding \cup s_finished_out_of_order)'
    <3> SUFFICES ASSUME NEW s \in n .. (next_reservation_sequence - 1)
                 PROVE  s \in PostCommitOutstanding' \cup s_finished_out_of_order'
      BY <1>2, <2>1, Zenon
    <3>1. s \in PostCommitOutstanding \cup s_finished_out_of_order /\ s # s0 /\ s \notin (s0 + 1) .. (n - 1)
      BY <1>9, <1>12, <2>2, SMTT(30) DEF PostCommitOrderInv, PostCommitTypes
    <3> QED
      BY SMTT(30), <1>5, <2>1, <3>1
  <2> QED
    BY <1>r, <1>7, <2>5, <2>6, <2>7, SMTT(30) DEF PostCommitOrderInv
<1>13. CASE s0 > next_turn_sequence
  <2>1. s_finished_out_of_order' = s_finished_out_of_order \cup {s0} /\ next_turn_sequence' = next_turn_sequence
    BY <1>9, <1>13 DEF finish_turn
  <2>2. PostCommitTypes'
    <3>1. s0 \in (next_turn_sequence + 1) .. (next_reservation_sequence - 1)
      BY <1>9, <1>13
    <3>2. s_finished_out_of_order' \subseteq (next_turn_sequence + 1) .. (next_reservation_sequence - 1)
      BY <2>1, <3>1, Zenon DEF PostCommitOrderInv, PostCommitTypes
    <3> QED
      BY <1>2, <1>8, <2>1, <3>2, SMTT(30) DEF PostCommitOrderInv, PostCommitTypes
  <2>3. (\A u \in Tasks : Task(u))'
    BY <1>1, <1>2, <1>3, <1>4, <2>1, SMTT(30) DEF PostCommitOrderInv, Task
  <2>4. (\A s \in next_turn_sequence .. (next_reservation_sequence - 1) : s \in PostCommitOutstanding \cup s_finished_out_of_order)'
    BY <1>2, <1>5, <2>1, Zenon DEF PostCommitOrderInv
  <2> QED
    BY <1>r, <1>7, <2>2, <2>3, <2>4, SMTT(30) DEF PostCommitOrderInv
<1> QED
  BY SMTT(30), <1>9, <1>12, <1>13

LEMMA StepPostCommitOrder ==
    PostCommitOrderInv /\ [PostCommitNext]_sequencerVars => PostCommitOrderInv' /\ [PostCommitOrder!Next]_(PostCommitOrder!turnVars)
<1> SUFFICES ASSUME PostCommitOrderInv, [PostCommitNext]_sequencerVars PROVE PostCommitOrderInv' /\ [PostCommitOrder!Next]_(PostCommitOrder!turnVars)
  BY Zenon
<1> USE DEF PostCommitOrder!turnVars, PostCommitOrder!Next
<1>t. ASSUME NEW t \in Tasks, NEW state \in TaskStates, GotoTask(t, state), UNCHANGED <<turns, s_seq>>,
             s_pc[t] \in Positioned <=> state \in Positioned,
             s_pc[t] \in {"turn", "leaving"} <=> state \in {"turn", "leaving"}
      PROVE  PostCommitOrderInv' /\ [PostCommitOrder!Next]_(PostCommitOrder!turnVars)
  BY SMTT(30), <1>t, PostCommitMoves
<1>1. ASSUME NEW t \in Tasks, \/ \E l \in PostCommitLanes : acquire_capacity(t, l)
                              \/ AcquireFails(t) \/ CancelReservation(t) \/ TaskStep(t)
      PROVE  PostCommitOrderInv' /\ [PostCommitOrder!Next]_(PostCommitOrder!turnVars)
  <2>1. CASE sequence(t)
    BY <2>1, PostCommitReserves, Zenon
  <2>2. CASE PostCommitCheckTurn(t) /\ next_turn_sequence = s_seq[t]
    BY <2>2, PostCommitEnters, Zenon
  <2>3. CASE finish_turn(t)
    BY <2>3, PostCommitRetires, Zenon
  <2>4. ASSUME NEW state \in TaskStates, NEW old \in TaskStates, GotoTask(t, state), s_pc[t] = old, UNCHANGED <<turns, s_seq>>,
               old \in Positioned <=> state \in Positioned,
               old \in {"turn", "leaving"} <=> state \in {"turn", "leaving"}
        PROVE  PostCommitOrderInv' /\ [PostCommitOrder!Next]_(PostCommitOrder!turnVars)
    BY SMTT(30), <1>t, <2>4
  <2> USE DEF TaskStates, Positioned, Waiting, Slotted, Registered
  <2>5. CASE \E l \in PostCommitLanes : acquire_capacity(t, l)
    BY <2>4, <2>5, SMTT(30) DEF acquire_capacity
  <2>6. CASE AcquireFails(t)
    BY <2>4, <2>6, SMTT(30) DEF AcquireFails
  <2>7. CASE CancelReservation(t)
    BY <2>4, <2>7, SMTT(30) DEF CancelReservation
  <2>8. CASE AcquireSlot(t)
    BY <2>4, <2>8, SMTT(30) DEF AcquireSlot
  <2>9. CASE register_capacity(t)
    BY <2>4, <2>9, SMTT(30) DEF register_capacity
  <2>10. CASE DropCapacity(t) \/ PostCommitEnable(t) \/ PostCommitAwait(t) \/ PostCommitResume(t)
    BY <2>4, <2>10, SMTT(30) DEF DropCapacity, PostCommitEnable, PostCommitAwait, PostCommitResume
  <2>11. CASE PostCommitCheckTurn(t) /\ next_turn_sequence # s_seq[t]
    BY <2>4, <2>11, SMTT(30) DEF PostCommitCheckTurn
  <2>12. CASE release(t) \/ DropSlot(t) \/ finish_pending(t)
    BY <2>4, <2>12, SMTT(30) DEF release, DropSlot, finish_pending
  <2> QED
    BY <1>1, <2>1, <2>2, <2>3, <2>5, <2>6, <2>7, <2>8, <2>9, <2>10, <2>11, <2>12, SMTT(30) DEF TaskStep
<1>2. CASE BeginDrain \/ DrainStep \/ UNCHANGED sequencerVars
  <2>1. UNCHANGED <<turns, s_pc, s_seq>>
    BY <1>2, Zenon DEF BeginDrain, DrainStep, EnableDrained, close_normal_and_drain, close_and_drain, AwaitDrained,
       ResumeDrain, taskVars, sequencerVars
  <2> QED
    BY <2>1, Zenon DEF turns, PostCommitOrderInv, PostCommitTypes, Task, PostCommitApart, PostCommitOutstanding, PostCommitInside
<1> QED
  BY <1>1, <1>2, Zenon DEF PostCommitNext

(* For any tasks and any number of positions: post-commit work starts only *)
(* when every earlier position has been finished or given up, and alone    *)
(* (PostCommitSequencer::wait_for_turn and finish_turn).                   *)
THEOREM SequencerImplementsTurnOrder == PostCommitSpec => PostCommitOrderSpec
  BY InitPostCommitOrder, StepPostCommitOrder, PTL DEF PostCommitSpec, PostCommitOrderSpec, PostCommitOrder!Spec

---------------------------------------------------------------------------
HIDE PositionsAreNat

USE TasksAreFinite

(* The registered tasks of a lane are what its pending count counts.       *)
RegisteredIn(l) == {t \in Tasks : s_pc[t] \in Registered /\ s_lane[t] = l}

DrainInv == /\ s_pc \in [Tasks -> TaskStates] /\ s_lane \in [Tasks -> PostCommitLanes]
            /\ s_accepting \in [PostCommitLanes -> BOOLEAN] /\ pending \in [PostCommitLanes -> Nat]
            /\ \A l \in PostCommitLanes : pending[l] = Cardinality(RegisteredIn(l))
            /\ s_phase \in {"normal_drained", "draining_all", "drained"} => ~s_accepting["Normal"]
            /\ s_phase = "drained" => ~s_accepting["LifecycleHook"]
            /\ DrainIsFinal

LEMMA PostCommitFinite ==
    ASSUME NEW A, A \subseteq Tasks
    PROVE  /\ IsFiniteSet(A) /\ Cardinality(A) \in Nat
           /\ Cardinality(A) = 0 => A = {}
           /\ \A t : t \notin A => Cardinality(A \cup {t}) = Cardinality(A) + 1
           /\ \A t : t \in A => Cardinality(A \ {t}) = Cardinality(A) - 1
<1>1. IsFiniteSet(A)
  BY FS_Subset, Zenon
<1>2. Cardinality(A) \in Nat
  BY <1>1, FS_CardinalityType, Zenon
<1>3. Cardinality(A) = 0 => A = {}
  BY <1>1, FS_EmptySet, Zenon
<1>4. ASSUME NEW t, t \notin A PROVE Cardinality(A \cup {t}) = Cardinality(A) + 1
  BY SMTT(30), <1>1, <1>4, FS_AddElement
<1>5. ASSUME NEW t, t \in A PROVE Cardinality(A \ {t}) = Cardinality(A) - 1
  BY SMTT(30), <1>1, <1>5, FS_RemoveElement
<1> QED
  BY SMTT(30), <1>1, <1>2, <1>3, <1>4, <1>5

LEMMA InitDrain == PostCommitInit => DrainInv
<1> SUFFICES ASSUME PostCommitInit PROVE DrainInv
  BY Zenon
<1>1. \A l \in PostCommitLanes : RegisteredIn(l) = {}
  BY Zenon DEF PostCommitInit, RegisteredIn, Registered, Positioned, Waiting
<1>2. \A l \in PostCommitLanes : pending[l] = Cardinality(RegisteredIn(l))
  BY <1>1, FS_EmptySet, Zenon DEF PostCommitInit
<1> QED
  BY <1>2, Zenon DEF PostCommitInit, DrainInv, DrainIsFinal, TaskStates, PostCommitLanes, Registered, Positioned, Waiting

(* A task that stays registered, or unregistered, in its lane.             *)
LEMMA Stays ==
    ASSUME DrainInv, NEW t \in Tasks, NEW state \in TaskStates, GotoTask(t, state),
           UNCHANGED <<s_accepting, pending, s_phase>>,
           NEW l \in PostCommitLanes, s_lane' = [s_lane EXCEPT ![t] = l],
           s_pc[t] \in Registered <=> state \in Registered,
           s_pc[t] \in Registered => l = s_lane[t]
    PROVE  DrainInv'
<1>1. \A u \in Tasks : /\ s_pc'[u] \in Registered <=> s_pc[u] \in Registered
                       /\ s_pc[u] \in Registered => s_lane'[u] = s_lane[u]
  BY Zenon DEF DrainInv, GotoTask
<1>2. \A k \in PostCommitLanes : RegisteredIn(k)' = RegisteredIn(k)
  BY <1>1, Zenon DEF RegisteredIn
<1>3. s_pc' \in [Tasks -> TaskStates] /\ s_lane' \in [Tasks -> PostCommitLanes]
  BY Zenon DEF DrainInv, GotoTask
<1>4. DrainIsFinal'
  BY <1>1, Zenon DEF DrainInv, DrainIsFinal
<1> QED
  BY <1>2, <1>3, <1>4, Zenon DEF DrainInv

LEMMA StepDrain == DrainInv /\ [PostCommitNext]_sequencerVars => DrainInv'
<1> SUFFICES ASSUME DrainInv, [PostCommitNext]_sequencerVars PROVE DrainInv'
  BY SMTT(30)
<1>1. ASSUME NEW t \in Tasks, \/ \E l \in PostCommitLanes : acquire_capacity(t, l)
                              \/ AcquireFails(t) \/ CancelReservation(t) \/ TaskStep(t)
      PROVE  DrainInv'
  <2>l. s_lane[t] \in PostCommitLanes /\ s_lane = [s_lane EXCEPT ![t] = s_lane[t]]
    BY Zenon DEF DrainInv
  <2>s. ASSUME NEW state \in TaskStates, GotoTask(t, state), UNCHANGED <<s_accepting, pending, s_phase, s_lane>>,
               s_pc[t] \in Registered <=> state \in Registered
        PROVE  DrainInv'
    BY SMTT(30), <2>l, <2>s, Stays
  <2>t. /\ "free" \in TaskStates /\ "slot" \in TaskStates /\ Registered \subseteq TaskStates
        /\ "free" \notin Registered /\ "acquiring" \notin Registered /\ "slot" \notin Registered
        /\ "capacity" \in Registered /\ "drop_slot" \in Registered /\ "drop_pending" \in Registered
        /\ "turn" \in Registered /\ "leaving" \in Registered /\ "abandoning" \in Registered
        /\ "reserved" \in Registered /\ "enabled" \in Registered /\ "checked" \in Registered /\ "parked" \in Registered
    BY Zenon DEF TaskStates, Slotted, Registered, Positioned, Waiting
  <2>1. CASE \E l \in PostCommitLanes : acquire_capacity(t, l)
    <3>1. PICK l \in PostCommitLanes : acquire_capacity(t, l)
      BY <2>1, Zenon
    <3>2. /\ GotoTask(t, "acquiring") /\ UNCHANGED <<s_accepting, pending, s_phase>> /\ s_lane' = [s_lane EXCEPT ![t] = l]
          /\ s_pc[t] = "free"
      BY <3>1, Zenon DEF acquire_capacity, drainVars
    <3>3. "acquiring" \in TaskStates /\ "acquiring" \notin Registered /\ "free" \notin Registered
      BY Zenon DEF TaskStates, Registered, Positioned, Waiting
    <3> QED
      BY ZenonT(30), <3>2, <3>3, Stays
  <2>2. CASE register_capacity(t) /\ s_accepting[s_lane[t]]
    <3> DEFINE k == s_lane[t]
    <3>1. /\ s_pc[t] = "slot" /\ GotoTask(t, "capacity") /\ s_lane' = s_lane /\ s_phase' = s_phase /\ s_accepting' = s_accepting
          /\ pending' = [pending EXCEPT ![k] = @ + 1]
      BY <2>2, Zenon DEF register_capacity, drainVars
    <3>2. \A u \in Tasks : s_pc'[u] \in Registered <=> (s_pc[u] \in Registered \/ u = t)
      BY <3>1, SMTT(30) DEF DrainInv, GotoTask, Registered
    <3>3. t \notin RegisteredIn(k)
      BY <3>1, SMTT(30) DEF RegisteredIn, Registered, Positioned, Waiting
    <3>4. \A l \in PostCommitLanes : RegisteredIn(l)' = IF l = k THEN RegisteredIn(l) \cup {t} ELSE RegisteredIn(l)
      BY <3>1, <3>2, SMTT(30) DEF RegisteredIn
    <3>5. Cardinality(RegisteredIn(k) \cup {t}) = Cardinality(RegisteredIn(k)) + 1
      BY <3>3, PostCommitFinite, Zenon DEF RegisteredIn
    <3>6. \A l \in PostCommitLanes : pending'[l] = IF l = k THEN pending[l] + 1 ELSE pending[l]
      BY <3>1, Zenon DEF DrainInv
    <3>7. \A l \in PostCommitLanes : pending'[l] = Cardinality(RegisteredIn(l)')
      BY <3>4, <3>5, <3>6, Zenon DEF DrainInv
    <3>8. DrainIsFinal'
      BY <2>2, <3>1, <3>2, <2>l, SMTT(30) DEF DrainInv, DrainIsFinal, PostCommitLanes
    <3>9. pending' \in [PostCommitLanes -> Nat] /\ s_pc' \in [Tasks -> TaskStates]
      BY <2>l, <3>1, SMTT(30) DEF DrainInv, GotoTask, TaskStates, Slotted
    <3> QED
      BY <3>1, <3>7, <3>8, <3>9, SMTT(30) DEF DrainInv
  <2>3. CASE register_capacity(t) /\ ~s_accepting[s_lane[t]]
    <3>1. /\ UNCHANGED <<s_accepting, pending, s_phase, s_lane>> /\ s_pc[t] = "slot" /\ GotoTask(t, "free")
      BY <2>3, Zenon DEF register_capacity, drainVars
    <3> QED
      BY <2>s, <2>t, <3>1, Zenon
  <2>4. CASE finish_pending(t)
    <3> DEFINE k == s_lane[t]
    <3>1. /\ s_pc[t] = "drop_pending" /\ GotoTask(t, "free") /\ s_lane' = s_lane /\ s_phase' = s_phase /\ s_accepting' = s_accepting
          /\ pending' = [pending EXCEPT ![k] = IF @ = 0 THEN 0 ELSE @ - 1]
      BY <2>4, SMTT(30) DEF finish_pending
    <3>2. \A u \in Tasks : s_pc'[u] \in Registered <=> (s_pc[u] \in Registered /\ u # t)
      BY <3>1, SMTT(30) DEF DrainInv, GotoTask, Registered, Positioned, Waiting
    <3>3. t \in RegisteredIn(k)
      BY <3>1, SMTT(30) DEF RegisteredIn, Registered
    <3>4. \A l \in PostCommitLanes : RegisteredIn(l)' = IF l = k THEN RegisteredIn(l) \ {t} ELSE RegisteredIn(l)
      BY <3>1, <3>2, SMTT(30) DEF RegisteredIn
    <3>5. /\ Cardinality(RegisteredIn(k) \ {t}) = Cardinality(RegisteredIn(k)) - 1
          /\ Cardinality(RegisteredIn(k)) # 0
      BY <3>3, PostCommitFinite, SMTT(30) DEF RegisteredIn
    <3>6. \A l \in PostCommitLanes : pending'[l] = IF l = k THEN pending[l] - 1 ELSE pending[l]
      BY <2>l, <3>1, <3>5, SMTT(30) DEF DrainInv
    <3>7. \A l \in PostCommitLanes : pending'[l] = Cardinality(RegisteredIn(l)')
      BY <3>4, <3>5, <3>6, Zenon DEF DrainInv
    <3>8. DrainIsFinal'
      BY <3>1, <3>2, Zenon DEF DrainInv, DrainIsFinal
    <3>9. pending' \in [PostCommitLanes -> Nat] /\ s_pc' \in [Tasks -> TaskStates]
      BY <2>l, <3>1, SMTT(30) DEF DrainInv, GotoTask, TaskStates
    <3> QED
      BY <3>1, <3>7, <3>8, <3>9, SMTT(30) DEF DrainInv
  <2>5. CASE AcquireFails(t) \/ AcquireSlot(t)
    <3>1. CASE AcquireFails(t)
      <4>1. /\ UNCHANGED <<s_accepting, pending, s_phase, s_lane>> /\ s_pc[t] = "acquiring" /\ GotoTask(t, "free")
        BY <3>1, Zenon DEF AcquireFails, drainVars
      <4> QED
        BY <4>1, <2>s, <2>t, Zenon
    <3>2. CASE AcquireSlot(t)
      <4>1. /\ UNCHANGED <<s_accepting, pending, s_phase, s_lane>> /\ s_pc[t] = "acquiring" /\ GotoTask(t, "slot")
        BY <3>2, Zenon DEF AcquireSlot, drainVars
      <4> QED
        BY <4>1, <2>s, <2>t, Zenon
    <3> QED
      BY <2>5, <3>1, <3>2, Zenon
  <2>6. CASE CancelReservation(t) \/ release(t) \/ DropCapacity(t)
    <3>1. CASE CancelReservation(t)
      <4>1. /\ UNCHANGED <<s_accepting, pending, s_phase, s_lane>> /\ s_pc[t] \in Waiting /\ GotoTask(t, "abandoning")
        BY <3>1, Zenon DEF CancelReservation, drainVars
      <4>2. s_pc[t] \in Registered
        BY <4>1, <2>t, Zenon DEF Registered, Positioned
      <4> QED
        BY <4>1, <4>2, <2>s, <2>t, Zenon
    <3>2. CASE release(t)
      <4>1. /\ UNCHANGED <<s_accepting, pending, s_phase, s_lane>> /\ s_pc[t] = "turn" /\ GotoTask(t, "leaving")
        BY <3>2, Zenon DEF release, drainVars
      <4> QED
        BY <4>1, <2>s, <2>t, Zenon
    <3>3. CASE DropCapacity(t)
      <4>1. /\ UNCHANGED <<s_accepting, pending, s_phase, s_lane>> /\ s_pc[t] = "capacity" /\ GotoTask(t, "drop_slot")
        BY <3>3, Zenon DEF DropCapacity, drainVars
      <4> QED
        BY <4>1, <2>s, <2>t, Zenon
    <3> QED
      BY <2>6, <3>1, <3>2, <3>3, Zenon
  <2>7. CASE sequence(t) \/ PostCommitEnable(t) \/ PostCommitAwait(t) \/ PostCommitResume(t)
    <3>1. CASE sequence(t)
      <4>1. /\ UNCHANGED <<s_accepting, pending, s_phase, s_lane>> /\ s_pc[t] = "capacity" /\ GotoTask(t, "reserved")
        BY <3>1, Zenon DEF sequence, drainVars
      <4> QED
        BY <4>1, <2>s, <2>t, Zenon
    <3>2. CASE PostCommitEnable(t)
      <4>1. /\ UNCHANGED <<s_accepting, pending, s_phase, s_lane>> /\ s_pc[t] = "reserved" /\ GotoTask(t, "enabled")
        BY <3>2, Zenon DEF PostCommitEnable, drainVars
      <4> QED
        BY <4>1, <2>s, <2>t, Zenon
    <3>3. CASE PostCommitAwait(t)
      <4>1. /\ UNCHANGED <<s_accepting, pending, s_phase, s_lane>> /\ s_pc[t] = "checked" /\ GotoTask(t, "parked")
        BY <3>3, Zenon DEF PostCommitAwait, drainVars
      <4> QED
        BY <4>1, <2>s, <2>t, Zenon
    <3>4. CASE PostCommitResume(t)
      <4>1. /\ UNCHANGED <<s_accepting, pending, s_phase, s_lane>> /\ s_pc[t] = "parked" /\ GotoTask(t, "reserved")
        BY <3>4, Zenon DEF PostCommitResume, drainVars
      <4> QED
        BY <4>1, <2>s, <2>t, Zenon
    <3> QED
      BY <2>7, <3>1, <3>2, <3>3, <3>4, Zenon
  <2>8. CASE PostCommitCheckTurn(t)
    <3>1. CASE PostCommitCheckTurn(t)
      <4>1. /\ UNCHANGED <<s_accepting, pending, s_phase, s_lane>> /\ s_pc[t] = "enabled" /\ (GotoTask(t, "turn") \/ GotoTask(t, "checked"))
        BY <3>1, Zenon DEF PostCommitCheckTurn, drainVars
      <4> QED
        BY <4>1, <2>s, <2>t, Zenon
    <3> QED
      BY <2>8, <3>1, Zenon
  <2>9. CASE finish_turn(t) \/ DropSlot(t)
    <3>1. CASE finish_turn(t)
      <4>1. /\ UNCHANGED <<s_accepting, pending, s_phase, s_lane>> /\ s_pc[t] \in {"leaving", "abandoning"} /\ GotoTask(t, "drop_slot")
        BY <3>1, Zenon DEF finish_turn, drainVars
      <4>2. s_pc[t] \in Registered
        BY <4>1, <2>t, Zenon DEF Registered, Positioned
      <4> QED
        BY <4>1, <4>2, <2>s, <2>t, Zenon
    <3>2. CASE DropSlot(t)
      <4>1. /\ UNCHANGED <<s_accepting, pending, s_phase, s_lane>> /\ s_pc[t] = "drop_slot" /\ GotoTask(t, "drop_pending")
        BY <3>2, Zenon DEF DropSlot, drainVars
      <4> QED
        BY <4>1, <2>s, <2>t, Zenon
    <3> QED
      BY <2>9, <3>1, <3>2, Zenon
  <2>10. CASE register_capacity(t)
    BY <2>2, <2>3, <2>10, Zenon
  <2> QED
    BY <1>1, <2>1, <2>4, <2>5, <2>6, <2>7, <2>8, <2>9, <2>10, Zenon DEF TaskStep
<1>2. ASSUME UNCHANGED <<s_pc, s_lane, pending>> PROVE \A l \in PostCommitLanes : RegisteredIn(l)' = RegisteredIn(l)
  BY <1>2, SMTT(30) DEF RegisteredIn
<1>3. \A l \in PostCommitLanes : pending[l] = 0 => \A t \in Tasks : s_pc[t] \in Registered => s_lane[t] # l
  <2> SUFFICES ASSUME NEW l \in PostCommitLanes, pending[l] = 0 PROVE \A t \in Tasks : s_pc[t] \in Registered => s_lane[t] # l
    BY Zenon
  <2>1. RegisteredIn(l) = {}
    BY PostCommitFinite, Zenon DEF DrainInv, RegisteredIn
  <2> QED
    BY <2>1, SMTT(30) DEF RegisteredIn
<1>4. CASE close_normal_and_drain
  <2>1. DrainIsFinal'
    BY <1>3, <1>4, Zenon DEF close_normal_and_drain, taskVars, DrainInv, DrainIsFinal, PostCommitLanes
  <2> QED
    BY <1>2, <1>4, <2>1, Zenon DEF close_normal_and_drain, taskVars, DrainInv, PostCommitLanes
<1>5. CASE close_and_drain
  <2>1. DrainIsFinal'
    BY <1>3, <1>5, Zenon DEF close_and_drain, taskVars, DrainInv, DrainIsFinal, PostCommitLanes
  <2> QED
    BY <1>2, <1>5, <2>1, SMTT(30) DEF close_and_drain, taskVars, DrainInv, PostCommitLanes
<1>6. CASE BeginDrain \/ EnableDrained \/ AwaitDrained \/ ResumeDrain \/ UNCHANGED sequencerVars
  <2>1. UNCHANGED <<s_accepting, pending, s_pc, s_lane>> /\ (s_phase' = s_phase \/ BeginDrain)
    BY <1>6, SMTT(30) DEF BeginDrain, EnableDrained, AwaitDrained, ResumeDrain, taskVars, drainVars, sequencerVars
  <2>2. DrainIsFinal'
    BY <2>1, Zenon DEF BeginDrain, DrainInv, DrainIsFinal
  <2> QED
    BY <1>2, <2>1, <2>2, SMTT(30) DEF BeginDrain, DrainInv
<1> QED
  BY <1>1, <1>4, <1>5, <1>6, SMTT(30) DEF PostCommitNext, DrainStep

(* For any finite set of tasks: once close_normal_and_drain returned, no   *)
(* normal mutation holds capacity or runs, and once close_and_drain        *)
(* returned, none of any lane does (PostCommitSequencer's two drains).     *)
THEOREM DrainedLanesStayDrained == PostCommitSpec => []DrainIsFinal
<1>1. DrainInv => DrainIsFinal
  BY Zenon DEF DrainInv
<1> QED
  BY <1>1, InitDrain, StepDrain, PTL DEF PostCommitSpec
=============================================================================
