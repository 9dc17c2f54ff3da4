---------------------- MODULE LifecycleShutdownProofs -----------------------
(***************************************************************************)
(* The lifecycle pipeline is correct for any set of mutations and any      *)
(* capacities: events and hooks keep the commit order, and the release of  *)
(* the endpoint is the last thing that happens.                            *)
(***************************************************************************)
EXTENDS LifecycleShutdown, Integers, TLAPS

Sending == {"send", "reserve", "permit"}      \* the publication holds the commit turn
Passed == Len(committed) - Len(commit_order)  \* commit turns that are over
Running == IF item = None THEN 0 ELSE 1
TurnAt(states) == commit_order # <<>> /\ publication[commit_order[1]] \in states

(* Phases of the listener: before it may deactivate the outbox, and from   *)
(* the one on in which the consumer is gone.                               *)
Early == {"open", "quiesce", "drain_normal", "close_tickets", "wait_tickets"}
Forced == {"aborted", "forced_drain_normal", "forced_close_tickets", "forced_wait_tickets"}
Sealed == {"sealing", "stopped"}
Final == {"final_close", "final_drain"} \cup Sealed
Phases == Early \cup {"join_consumer", "deadline"} \cup Forced \cup Final

MutationTypes ==
    /\ mutation \in [Mutations -> {"free", "acquiring", "refused", "waiting", "committed", "cut", "publishing", "done"}]
    /\ publication \in [Mutations -> {"none", "prepared", "wait_turn", "send", "reserve", "permit", "done"}]
    /\ ticketed \subseteq Mutations \ HookMutations /\ discarded \subseteq Mutations

QueueTypes ==
    /\ post_commit \in Seq(Mutations) /\ commit_order \in Seq(Mutations)
    /\ committed \in Seq(Mutations) /\ effects \in Seq(Mutations)
    /\ hooked \in Seq(Mutations) /\ outbox \in Seq(Mutations)

ControlTypes ==
    /\ lane_open \in [{"Normal", "LifecycleHook"} -> BOOLEAN]
    /\ l_accepting \in BOOLEAN /\ l_accepting_publications \in BOOLEAN /\ l_active \in BOOLEAN
    /\ free_slots \in Nat /\ receiver \in {"open", "closed", "dropped"}
    /\ consumer \in {"recv", "hook", "drain", "drain_hook", "gone"}
    /\ item \in Mutations \cup {None} /\ command \in HookMutations \cup {None}
    /\ l_phase \in Phases /\ hook_shutdown \in BOOLEAN /\ outcome \in {None, "Drained", "Forced"}

PipelineTypes == MutationTypes /\ QueueTypes /\ ControlTypes

(* How far a mutation and its publication are from each other.             *)
Stage(m) ==
    /\ mutation[m] \in {"free", "acquiring", "refused", "waiting", "cut"}
         => publication[m] = "none" /\ m \notin ticketed /\ m \notin discarded
    /\ mutation[m] = "committed" => publication[m] = "prepared" \/ (publication[m] = "none" /\ m \in discarded)
    /\ mutation[m] \in {"publishing", "done"} => /\ publication[m] # "prepared"
                                                 /\ publication[m] = "none" => m \in discarded
    /\ publication[m] \in Sending => m \in ticketed
    /\ m \in discarded => publication[m] = "none" /\ m \notin ticketed
    /\ mutation[m] = "waiting" => m \in Members(post_commit)

(* Who has a post-commit position waits for its turn, or has it.           *)
Positions ==
    /\ \A i \in DOMAIN post_commit : \/ mutation[post_commit[i]] = "waiting"
                                     \/ i = 1 /\ mutation[post_commit[i]] = "committed"
    /\ \A i, j \in DOMAIN post_commit : post_commit[i] = post_commit[j] => i = j
    /\ Len(post_commit) <= SlotCapacity

(* The outstanding tickets are the end of the commits; only the first of   *)
(* them can be past its turn.                                              *)
Tickets ==
    /\ ticketed = Members(committed)
    /\ \A i, j \in DOMAIN committed : committed[i] = committed[j] => i = j
    /\ Len(commit_order) <= Len(committed)
    /\ \A i \in DOMAIN commit_order : commit_order[i] = committed[Passed + i]
    /\ \A m \in ticketed : publication[m] = "done" <=> m \notin Members(commit_order)
    /\ \A m \in Mutations : publication[m] \in Sending => commit_order # <<>> /\ commit_order[1] = m

(* Effects: those of the turns that are over, and of the one that sends.   *)
Effects ==
    /\ Len(effects) = Passed + (IF TurnAt(Sending) THEN 1 ELSE 0)
    /\ \A i \in DOMAIN effects : effects[i] = committed[i]
    /\ unordered = {m \in Mutations : m \notin ticketed /\ publication[m] = "done"}

(* Hooks that ran, the one that runs, and the queued events.               *)
Hooks ==
    /\ item # None <=> consumer \in {"hook", "drain_hook"}
    /\ command # None => item # None
    /\ Len(hooked) + Running + Len(outbox) <= Passed
    /\ l_active => Len(hooked) + Running + Len(outbox) = Passed
    /\ \A i \in DOMAIN hooked : hooked[i] = committed[i]
    /\ item # None => item = committed[Len(hooked) + 1]
    /\ \A i \in DOMAIN outbox : outbox[i] = committed[Len(hooked) + Running + i]

(* The outbox: every slot is free, taken by an event or by a permit.       *)
Slots ==
    /\ free_slots + Len(outbox) + (IF TurnAt({"permit"}) THEN 1 ELSE 0)
         = OutboxCapacity
    /\ receiver # "open" => ~l_active
    /\ receiver = "open" <=> consumer \in {"recv", "hook"}
    /\ receiver = "dropped" <=> consumer = "gone"
    /\ consumer = "gone" => outbox = <<>>

(* What the shutdown has reached in each of its phases: in its own control *)
(* state, in the mutations, and in the hooks.                              *)
Control ==
    /\ l_phase \in Early => l_active /\ ~hook_shutdown /\ consumer \in {"recv", "hook"}
    /\ l_phase \in Early \cup {"join_consumer", "deadline"} \cup Forced => outcome = None
    /\ l_phase \in {"wait_tickets", "join_consumer"} \/ outcome = "Drained" => ~l_accepting
    /\ l_phase = "deadline" => ~l_active
    /\ l_phase \in Forced \cup Final => consumer = "gone"
    /\ l_phase \in {"final_drain"} \cup Sealed => ~lane_open["Normal"] /\ ~lane_open["LifecycleHook"]
    /\ ~l_accepting_publications => l_phase \in Sealed

Settled ==
    /\ l_phase \notin {"open", "quiesce"} => \A m \in RequestMutations : mutation[m] \in {"free", "refused", "done"}
    /\ l_phase \in Sealed => post_commit = <<>>
    /\ l_phase = "stopped" => Pending = {}
    /\ discarded = {}

AllHooked ==
    l_phase = "join_consumer" \/ outcome = "Drained" =>
      commit_order = <<>> /\ Len(hooked) + Running + Len(outbox) = Len(committed)

(* A hook's mutation without a position is the command that the consumer   *)
(* awaits, so the abort leaves none; only the abort cuts one.              *)
Commands ==
    /\ \A m \in HookMutations : /\ mutation[m] = "acquiring" => m = command
                                /\ mutation[m] = "committed" => m = command \/ m \in Sequenced
    /\ Cut \subseteq HookMutations
    /\ \A m, k \in Cut : m = k
    /\ Cut # {} => l_phase \in Forced \/ outcome = "Forced"

PipelineInv == /\ PipelineTypes /\ \A m \in Mutations : Stage(m)
               /\ Positions /\ Tickets /\ Effects /\ Hooks /\ Slots
               /\ Control /\ Settled /\ AllHooked /\ Commands

-----------------------------------------------------------------------------
(* Queues.                                                                 *)
LEMMA Appended ==
    ASSUME NEW S, NEW q \in Seq(S), NEW x \in S
    PROVE  /\ Append(q, x) \in Seq(S) /\ Append(q, x) # <<>>
           /\ Len(q) \in Nat /\ DOMAIN q = 1 .. Len(q)
           /\ Len(Append(q, x)) = Len(q) + 1 /\ DOMAIN Append(q, x) = 1 .. (Len(q) + 1)
           /\ \A i \in 1 .. Len(q) : Append(q, x)[i] = q[i]
           /\ Append(q, x)[Len(q) + 1] = x
           /\ Members(Append(q, x)) = Members(q) \cup {x}
<1>1. /\ Append(q, x) \in Seq(S) /\ Append(q, x) # <<>>
      /\ Len(q) \in Nat /\ DOMAIN q = 1 .. Len(q)
      /\ Len(Append(q, x)) = Len(q) + 1 /\ DOMAIN Append(q, x) = 1 .. (Len(q) + 1)
      /\ \A i \in 1 .. Len(q) : Append(q, x)[i] = q[i]
      /\ Append(q, x)[Len(q) + 1] = x
  OBVIOUS
<1> QED
  BY <1>1 DEF Members

LEMMA Shortened ==
    ASSUME NEW S, NEW q \in Seq(S), q # <<>>
    PROVE  /\ Tail(q) \in Seq(S) /\ Len(q) \in Nat \ {0} /\ DOMAIN q = 1 .. Len(q) /\ q[1] \in S
           /\ Len(Tail(q)) = Len(q) - 1 /\ DOMAIN Tail(q) = 1 .. (Len(q) - 1)
           /\ \A i \in 1 .. (Len(q) - 1) : Tail(q)[i] = q[i + 1]
           /\ Head(q) = q[1]
           /\ (\A i, j \in DOMAIN q : q[i] = q[j] => i = j) => Members(Tail(q)) = Members(q) \ {q[1]}
<1>1. /\ Tail(q) \in Seq(S) /\ Len(q) \in Nat \ {0} /\ DOMAIN q = 1 .. Len(q) /\ q[1] \in S
      /\ Len(Tail(q)) = Len(q) - 1 /\ DOMAIN Tail(q) = 1 .. (Len(q) - 1)
      /\ \A i \in 1 .. (Len(q) - 1) : Tail(q)[i] = q[i + 1]
      /\ Head(q) = q[1]
  OBVIOUS
<1>2. ASSUME \A i, j \in DOMAIN q : q[i] = q[j] => i = j PROVE Members(Tail(q)) = Members(q) \ {q[1]}
  <2>1. ASSUME NEW i \in 1 .. (Len(q) - 1) PROVE Tail(q)[i] \in Members(q) \ {q[1]}
    BY <1>1, <1>2, <2>1 DEF Members
  <2>2. ASSUME NEW i \in 1 .. Len(q), q[i] # q[1] PROVE q[i] \in Members(Tail(q))
    <3>1. i - 1 \in 1 .. (Len(q) - 1) /\ Tail(q)[i - 1] = q[i]
      BY <1>1, <2>2
    <3> QED
      BY <1>1, <3>1, Zenon DEF Members
  <2> QED
    BY <1>1, <2>1, <2>2 DEF Members
<1> QED
  BY <1>1, <1>2, Zenon

LEMMA MembersOf ==
    ASSUME NEW S, NEW q \in Seq(S)
    PROVE  /\ Len(q) \in Nat /\ DOMAIN q = 1 .. Len(q) /\ Members(q) \subseteq S
           /\ q = <<>> <=> Len(q) = 0
           /\ \A x : x \in Members(q) <=> \E i \in 1 .. Len(q) : q[i] = x
<1>1. Len(q) \in Nat /\ DOMAIN q = 1 .. Len(q) /\ (q = <<>> <=> Len(q) = 0) /\ \A i \in 1 .. Len(q) : q[i] \in S
  OBVIOUS
<1> QED
  BY <1>1, Zenon DEF Members

LEMMA NoMembers == ASSUME NEW S, NEW q \in Seq(S), Members(q) = {} PROVE q = <<>>
<1>1. Len(q) \in Nat /\ (q = <<>> <=> Len(q) = 0) /\ \A x : x \in Members(q) <=> \E i \in 1 .. Len(q) : q[i] = x
  BY MembersOf, Zenon
<1>2. Len(q) = 0
  <2>1. ~ \E i \in 1 .. Len(q) : TRUE
    BY <1>1, Zenon
  <2>2. 1 \notin 1 .. Len(q)
    BY <2>1, Zenon
  <2> QED
    BY <1>1, <2>2
<1> QED
  BY <1>1, <1>2, Zenon

LEMMA AppendType == ASSUME NEW S, NEW q \in Seq(S), NEW x \in S PROVE Append(q, x) \in Seq(S)
  OBVIOUS

LEMMA LeavesTurn ==
    ASSUME NEW S, NEW q \in Seq(S), NEW m
    PROVE  LeaveTurn(q, m) \in Seq(S)
  BY DEF LeaveTurn

-----------------------------------------------------------------------------
LEMMA InitPipeline == PipelineInit => PipelineInv
<1> SUFFICES ASSUME PipelineInit PROVE PipelineInv
  BY Zenon
<1> USE MutationsAssumption DEF PipelineInit
<1>1. PipelineTypes
  <2>1. MutationTypes
    BY Zenon DEF MutationTypes
  <2>2. QueueTypes
    BY DEF QueueTypes
  <2>3. ControlTypes
    BY Zenon DEF ControlTypes, Phases, Early
  <2> QED
    BY <2>1, <2>2, <2>3, Zenon DEF PipelineTypes
<1>2. \A m \in Mutations : Stage(m)
  BY Zenon DEF Stage, Sending, Members
<1>3. Positions /\ Tickets
  BY DEF Positions, Tickets, Members, Passed, Sending
<1>4. Effects
  <2>1. unordered = {m \in Mutations : m \notin ticketed /\ publication[m] = "done"}
    BY Zenon
  <2>2. Len(effects) = Passed /\ DOMAIN effects = {} /\ commit_order = <<>>
    BY DEF Passed
  <2> QED
    BY <2>1, <2>2 DEF Effects, Passed, TurnAt
<1>5. Hooks /\ Slots
  BY DEF Hooks, Slots, Passed, Running, TurnAt
<1>6. Control /\ Settled /\ AllHooked
  BY Zenon DEF Control, Settled, AllHooked, Early, Forced, Final, Sealed
<1>7. Commands
  BY Zenon DEF Commands, Cut, Mutations
<1> QED
  BY <1>1, <1>2, <1>3, <1>4, <1>5, <1>6, <1>7, Zenon DEF PipelineInv

(* The steps that touch neither a mutation nor a publication.              *)
ControlStep == \/ Recv \/ HookCommandReturns \/ BeginConsumerDrain \/ EndConsumerDrain \/ EndHook
               \/ BeginShutdown \/ Deadline \/ CloseNormalLane \/ NormalLaneDrained \/ CloseTickets \/ TicketsPublished
               \/ ConsumerJoined \/ CloseAllLanes \/ SealPublications \/ EndpointReleased

LEMMA ControlFrame ==
    ControlStep => UNCHANGED <<mutation, publication, ticketed, discarded, post_commit, commit_order, committed, effects, unordered>>
<1> USE DEF mutationVars, turnVars, history
<1>1. ASSUME Recv \/ HookCommandReturns \/ BeginConsumerDrain \/ EndConsumerDrain \/ EndHook
      PROVE  UNCHANGED <<mutation, publication, ticketed, discarded, post_commit, commit_order, committed, effects, unordered>>
  BY <1>1, Zenon DEF Recv, HookCommandReturns, BeginConsumerDrain, EndConsumerDrain, EndHook
<1>2. ASSUME BeginShutdown \/ Deadline \/ CloseNormalLane \/ NormalLaneDrained \/ CloseTickets
      PROVE  UNCHANGED <<mutation, publication, ticketed, discarded, post_commit, commit_order, committed, effects, unordered>>
  BY <1>2, Zenon DEF BeginShutdown, Deadline, CloseNormalLane, NormalLaneDrained, CloseTickets
<1>3. ASSUME TicketsPublished \/ ConsumerJoined \/ CloseAllLanes \/ SealPublications \/ EndpointReleased
      PROVE  UNCHANGED <<mutation, publication, ticketed, discarded, post_commit, commit_order, committed, effects, unordered>>
  BY <1>3, Zenon DEF TicketsPublished, ConsumerJoined, CloseAllLanes, SealPublications, EndpointReleased
<1> QED
  BY <1>1, <1>2, <1>3, Zenon DEF ControlStep

(* Every step is one of these.                                             *)
LEMMA Steps ==
    ASSUME [PipelineNext]_pipelineVars
    PROVE  \/ \E m \in Mutations : \/ BeginMutation(m) \/ AcquireAndSequence(m) \/ Commit(m) \/ emit(m) \/ FailInTurn(m)
                                  \/ emit_prepared(m) \/ EndMutation(m) \/ RunHookCommand(m)
                                  \/ DispatchEffects(m) \/ CheckActive(m) \/ Reserve(m) \/ Send(m)
           \/ ControlStep \/ AbortConsumer \/ UNCHANGED pipelineVars
  BY Zenon DEF PipelineNext, MutationStep, PublicationStep, ConsumerStep, ShutdownStep, ControlStep

(* The abort touches only the command: one that acquires is refused, one   *)
(* that committed without a position is cut and loses its event.           *)
LEMMA AbortFrame ==
    ASSUME PipelineInv, AbortConsumer
    PROVE  /\ UNCHANGED <<ticketed, discarded, post_commit, commit_order, committed, effects, unordered>>
           /\ \A m \in CutByAbort : /\ m \in Mutations /\ m \notin ticketed /\ mutation[m] = "committed"
                                    /\ mutation'[m] = "cut" /\ publication'[m] = "none"
                                    /\ publication[m] \in {"prepared", "none"}
           /\ \A m \in Mutations : m \notin CutByAbort =>
                /\ publication'[m] = publication[m]
                /\ \/ mutation'[m] = mutation[m]
                   \/ mutation[m] = "acquiring" /\ mutation'[m] = "refused" /\ m = command
           /\ \A m \in ticketed : publication'[m] = publication[m]
<1>1. UNCHANGED <<ticketed, discarded, post_commit, commit_order, committed, effects, unordered>>
  BY Zenon DEF AbortConsumer, turnVars, history
<1>2. \A m \in CutByAbort : m \in Mutations /\ m \notin ticketed /\ mutation[m] = "committed"
  BY Zenon DEF CutByAbort, Mutations, PipelineInv, PipelineTypes, MutationTypes
<1>3. \A m \in Mutations : /\ publication'[m] = IF m \in CutByAbort THEN "none" ELSE publication[m]
                           /\ mutation'[m] = IF m = command /\ mutation[m] = "acquiring" THEN "refused"
                                             ELSE IF m \in CutByAbort THEN "cut" ELSE mutation[m]
  BY Zenon DEF AbortConsumer
<1>4. \A m \in CutByAbort : mutation'[m] = "cut" /\ publication'[m] = "none"
  BY <1>2, <1>3, Zenon
<1>5. \A m \in CutByAbort : publication[m] \in {"prepared", "none"}
  BY <1>2, Zenon DEF PipelineInv, Stage
<1>6. \A m \in ticketed : m \in Mutations /\ m \notin CutByAbort
  BY <1>2, Zenon DEF PipelineInv, PipelineTypes, MutationTypes
<1> QED
  BY <1>1, <1>2, <1>3, <1>4, <1>5, <1>6, Zenon

LEMMA StepMutationTypes ==
    ASSUME MutationTypes, [PipelineNext]_pipelineVars
    PROVE  MutationTypes'
<1> USE DEF MutationTypes, MutationAt, PublicationAt
<1>1. ASSUME NEW m \in Mutations, \/ BeginMutation(m) \/ AcquireAndSequence(m) \/ FailInTurn(m) \/ EndMutation(m) \/ RunHookCommand(m)
      PROVE  MutationTypes'
  BY <1>1, Zenon DEF BeginMutation, AcquireAndSequence, FailInTurn, EndMutation, RunHookCommand
<1>2. ASSUME NEW m \in Mutations, PrepareEvent(m) PROVE MutationTypes'
  BY <1>2, Zenon DEF PrepareEvent
<1>3. ASSUME NEW m \in Mutations, emit_prepared(m) \/ DispatchEffects(m) PROVE MutationTypes'
  BY <1>3, Zenon DEF emit_prepared, DispatchEffects
<1>4. ASSUME NEW m \in Mutations, CheckActive(m) \/ Reserve(m) \/ Send(m) PROVE MutationTypes'
  BY <1>4, Zenon DEF CheckActive, Reserve, Send, EndPublication
<1>5. CASE AbortConsumer
  <2>1. /\ mutation' \in [Mutations -> {"free", "acquiring", "refused", "waiting", "committed", "cut", "publishing", "done"}]
        /\ publication' \in [Mutations -> {"none", "prepared", "wait_turn", "send", "reserve", "permit", "done"}]
    BY <1>5, Zenon DEF AbortConsumer
  <2> QED
    BY <1>5, <2>1, Zenon DEF AbortConsumer
<1>6. CASE ControlStep \/ UNCHANGED pipelineVars
  BY <1>6, ControlFrame, Zenon DEF pipelineVars, mutationVars
<1> QED
  BY <1>1, <1>2, <1>3, <1>4, <1>5, <1>6, Steps, Zenon DEF Commit, emit

(* What a step does to each of the queues.                                 *)
LEMMA StepQueueTypes ==
    ASSUME PipelineInv, [PipelineNext]_pipelineVars
    PROVE  QueueTypes'
<1> USE DEF turnVars, outboxVars, consumerVars, history
<1>0. QueueTypes
  BY Zenon DEF PipelineInv, PipelineTypes
<1>1. ASSUME NEW m \in Mutations, \/ BeginMutation(m) \/ EndMutation(m) \/ RunHookCommand(m) PROVE QueueTypes'
  BY <1>0, <1>1, Zenon DEF BeginMutation, EndMutation, RunHookCommand, QueueTypes
<1>2. ASSUME NEW m \in Mutations, AcquireAndSequence(m) PROVE QueueTypes'
  <2>1. UNCHANGED <<commit_order, committed, effects, hooked, outbox>>
    BY <1>2, Zenon DEF AcquireAndSequence
  <2>2. post_commit' \in {post_commit, Append(post_commit, m)}
    BY <1>2, Zenon DEF AcquireAndSequence
  <2>3. Append(post_commit, m) \in Seq(Mutations)
    BY <1>0, AppendType, Zenon DEF QueueTypes
  <2> QED
    BY <1>0, <2>1, <2>2, <2>3, Zenon DEF QueueTypes
<1>3. ASSUME NEW m \in Mutations, PrepareEvent(m) PROVE QueueTypes'
  <2>1. UNCHANGED <<post_commit, effects, hooked, outbox>>
    BY <1>3, Zenon DEF PrepareEvent
  <2>2. commit_order' \in {commit_order, Append(commit_order, m)} /\ committed' \in {committed, Append(committed, m)}
    BY <1>3, Zenon DEF PrepareEvent
  <2>3. Append(commit_order, m) \in Seq(Mutations) /\ Append(committed, m) \in Seq(Mutations)
    BY <1>0, AppendType, Zenon DEF QueueTypes
  <2> QED
    BY <1>0, <2>1, <2>2, <2>3, Zenon DEF QueueTypes
<1>4. ASSUME NEW m \in Mutations, FailInTurn(m) PROVE QueueTypes'
  <2>1. UNCHANGED <<commit_order, committed, effects, hooked, outbox>> /\ post_commit' = Tail(post_commit)
    BY <1>4, Zenon DEF FailInTurn
  <2>2. Members(post_commit) # {}
    BY <1>4, Zenon DEF FailInTurn, PipelineInv, Stage
  <2>3. post_commit # <<>>
    BY <2>2 DEF Members
  <2> QED
    BY <1>0, <2>1, <2>3, Shortened, Zenon DEF QueueTypes
<1>5. ASSUME NEW m \in Mutations, emit_prepared(m) PROVE QueueTypes'
  <2>1. UNCHANGED <<commit_order, committed, effects, hooked, outbox>> /\ post_commit' = LeaveTurn(post_commit, m)
    BY <1>5, Zenon DEF emit_prepared
  <2> QED
    BY <1>0, <2>1, LeavesTurn, Zenon DEF QueueTypes
<1>6. ASSUME NEW m \in Mutations, DispatchEffects(m) PROVE QueueTypes'
  <2>1. UNCHANGED <<post_commit, commit_order, committed, hooked, outbox>> /\ effects' \in {effects, Append(effects, m)}
    BY <1>6, Zenon DEF DispatchEffects
  <2>2. Append(effects, m) \in Seq(Mutations)
    BY <1>0, AppendType, Zenon DEF QueueTypes
  <2> QED
    BY <1>0, <2>1, <2>2, Zenon DEF QueueTypes
<1>7. ASSUME NEW m \in Mutations, CheckActive(m) \/ Reserve(m) \/ Send(m) PROVE QueueTypes'
  <2>1. UNCHANGED <<post_commit, committed, effects, hooked>>
    BY <1>7, Zenon DEF CheckActive, Reserve, Send
  <2>2. commit_order' \in {commit_order, LeaveTurn(commit_order, m)}
    BY <1>7, Zenon DEF CheckActive, Reserve, Send, EndPublication
  <2>3. outbox' \in {outbox, Append(outbox, m)}
    BY <1>7, Zenon DEF CheckActive, Reserve, Send
  <2>4. Append(outbox, m) \in Seq(Mutations) /\ LeaveTurn(commit_order, m) \in Seq(Mutations)
    BY <1>0, AppendType, LeavesTurn, Zenon DEF QueueTypes
  <2> QED
    BY <1>0, <2>1, <2>2, <2>3, <2>4, Zenon DEF QueueTypes
<1>8. CASE Recv
  <2>1. UNCHANGED <<post_commit, commit_order, committed, effects, hooked>> /\ outbox' = Tail(outbox) /\ outbox # <<>>
    BY <1>8, Zenon DEF Recv
  <2> QED
    BY <1>0, <2>1, Shortened, Zenon DEF QueueTypes
<1>9. CASE EndHook
  <2>1. UNCHANGED <<post_commit, commit_order, committed, effects, outbox>> /\ hooked' = Append(hooked, item)
    BY <1>9, Zenon DEF EndHook
  <2>2. item \in Mutations
    BY <1>9, Zenon DEF EndHook, PipelineInv, PipelineTypes, ControlTypes, Hooks
  <2>3. Append(hooked, item) \in Seq(Mutations)
    BY <1>0, <2>2, AppendType, Zenon DEF QueueTypes
  <2> QED
    BY <1>0, <2>1, <2>3, Zenon DEF QueueTypes
<1>10. CASE ControlStep /\ ~Recv /\ ~EndHook
  <2>1. UNCHANGED <<hooked, outbox>>
    <3>1. CASE \/ HookCommandReturns \/ BeginConsumerDrain \/ EndConsumerDrain \/ BeginShutdown \/ Deadline \/ CloseNormalLane
      BY <3>1, Zenon DEF HookCommandReturns, BeginConsumerDrain, EndConsumerDrain, BeginShutdown, Deadline, CloseNormalLane
    <3>2. CASE \/ NormalLaneDrained \/ CloseTickets \/ TicketsPublished \/ ConsumerJoined \/ CloseAllLanes
               \/ SealPublications \/ EndpointReleased
      BY <3>2, Zenon DEF NormalLaneDrained, CloseTickets, TicketsPublished, ConsumerJoined, CloseAllLanes, SealPublications,
                  EndpointReleased
    <3> QED
      BY <1>10, <3>1, <3>2, Zenon DEF ControlStep
  <2> QED
    BY <1>0, <1>10, <2>1, ControlFrame, Zenon DEF QueueTypes
<1>11. CASE AbortConsumer
  <2>1. UNCHANGED <<post_commit, commit_order, committed, effects, hooked>> /\ outbox' = <<>>
    BY <1>11, Zenon DEF AbortConsumer
  <2> QED
    BY <1>0, <2>1 DEF QueueTypes
<1>12. CASE UNCHANGED pipelineVars
  BY <1>0, <1>12, SMTT(30) DEF pipelineVars, QueueTypes
<1> QED
  BY <1>1, <1>2, <1>3, <1>4, <1>5, <1>6, <1>7, <1>8, <1>9, <1>10, <1>11, <1>12, Steps, Zenon DEF Commit, emit

LEMMA StepControlTypes ==
    ASSUME PipelineInv, [PipelineNext]_pipelineVars
    PROVE  ControlTypes'
<1> USE DEF turnVars, outboxVars, consumerVars, shutdownVars
<1>0. ControlTypes /\ QueueTypes
  BY Zenon DEF PipelineInv, PipelineTypes
<1>1. ASSUME NEW m \in Mutations, \/ BeginMutation(m) \/ EndMutation(m) \/ AcquireAndSequence(m) \/ FailInTurn(m) \/ emit_prepared(m)
                                 \/ DispatchEffects(m) \/ CheckActive(m)
      PROVE  ControlTypes'
  <2>1. UNCHANGED <<lane_open, l_accepting, l_accepting_publications, outboxVars, consumerVars, shutdownVars>>
    BY <1>1, Zenon DEF BeginMutation, EndMutation, AcquireAndSequence, FailInTurn, emit_prepared, DispatchEffects, CheckActive
  <2> QED
    BY <1>0, <2>1 DEF ControlTypes
<1>2. ASSUME NEW m \in Mutations, PrepareEvent(m) PROVE ControlTypes'
  BY <1>0, <1>2 DEF PrepareEvent, ControlTypes
<1>3. ASSUME NEW m \in Mutations, RunHookCommand(m) PROVE ControlTypes'
  BY <1>0, <1>3, Zenon DEF RunHookCommand, ControlTypes
<1>4. ASSUME NEW m \in Mutations, Reserve(m) \/ Send(m) PROVE ControlTypes'
  BY <1>0, <1>4 DEF Reserve, Send, ControlTypes
<1>5. CASE Recv
  <2>1. Head(outbox) \in Mutations
    BY <1>0, <1>5, Shortened DEF Recv, QueueTypes
  <2> QED
    BY <1>0, <1>5, <2>1 DEF Recv, ControlTypes
<1>6. CASE HookCommandReturns \/ BeginConsumerDrain \/ EndConsumerDrain \/ EndHook
  BY <1>0, <1>6, ZenonT(30) DEF HookCommandReturns, BeginConsumerDrain, EndConsumerDrain, EndHook, ControlTypes
<1>7. CASE ControlStep /\ ~(Recv \/ HookCommandReturns \/ BeginConsumerDrain \/ EndConsumerDrain \/ EndHook)
  <2>0. CASE BeginShutdown
    BY <1>0, <2>0 DEF BeginShutdown, ControlTypes, Proceed, Phases, Early
  <2>1. CASE CloseNormalLane
    <3>1. /\ lane_open' = [lane_open EXCEPT !["Normal"] = FALSE] /\ l_phase' \in {"drain_normal", "forced_drain_normal"}
          /\ UNCHANGED <<l_accepting, l_accepting_publications, outboxVars, consumerVars, hook_shutdown, outcome>>
      BY <2>1, Zenon DEF CloseNormalLane, Proceed
    <3> QED
      BY <1>0, <3>1 DEF ControlTypes, Phases, Early, Forced
  <2>2. CASE NormalLaneDrained
    <3>1. /\ l_phase' \in {"close_tickets", "forced_close_tickets"}
          /\ UNCHANGED <<turnVars, outboxVars, consumerVars, hook_shutdown, outcome>>
      BY <2>2, Zenon DEF NormalLaneDrained, Proceed
    <3> QED
      BY <1>0, <3>1 DEF ControlTypes, Phases, Early, Forced
  <2>3. CASE CloseTickets
    <3>1. /\ l_phase' \in {"wait_tickets", "forced_wait_tickets"} /\ l_accepting' = FALSE
          /\ UNCHANGED <<lane_open, l_accepting_publications, outboxVars, consumerVars, hook_shutdown, outcome>>
      BY <2>3, Zenon DEF CloseTickets, Proceed
    <3> QED
      BY <1>0, <3>1, ZenonT(30) DEF ControlTypes, Phases, Early, Forced
  <2>4. CASE TicketsPublished \/ ConsumerJoined
    <3>1. /\ l_phase' \in {"join_consumer", "final_close"} /\ hook_shutdown' \in {hook_shutdown, TRUE}
          /\ outcome' \in {outcome, "Forced", "Drained"}
          /\ UNCHANGED <<turnVars, outboxVars, consumerVars>>
      BY <2>4, Zenon DEF TicketsPublished, ConsumerJoined, Proceed
    <3>2. hook_shutdown' \in BOOLEAN /\ outcome' \in {None, "Drained", "Forced"} /\ l_phase' \in Phases
      BY <1>0, <3>1, Zenon DEF ControlTypes, Phases, Final
    <3> QED
      BY <1>0, <3>1, <3>2, Zenon DEF ControlTypes
  <2>5. CASE CloseAllLanes
    <3>1. /\ lane_open' = [l \in DOMAIN lane_open |-> FALSE] /\ l_phase' = "final_drain"
          /\ UNCHANGED <<l_accepting, l_accepting_publications, outboxVars, consumerVars, hook_shutdown, outcome>>
      BY <2>5, Zenon DEF CloseAllLanes, Proceed
    <3> QED
      BY <1>0, <3>1 DEF ControlTypes, Phases, Final
  <2>6. CASE SealPublications
    <3>1. /\ l_phase' = "sealing" /\ l_accepting' = FALSE /\ l_accepting_publications' = FALSE
          /\ UNCHANGED <<lane_open, outboxVars, consumerVars, hook_shutdown, outcome>>
      BY <2>6, Zenon DEF SealPublications, Proceed
    <3> QED
      BY <1>0, <3>1, Zenon DEF ControlTypes, Phases, Final, Sealed
  <2>7. CASE EndpointReleased
    BY <1>0, <2>7 DEF EndpointReleased, ControlTypes, Proceed, Phases, Final, Sealed
  <2>8. CASE Deadline
    BY <1>0, <2>8, ZenonT(30) DEF Deadline, ControlTypes, Phases
  <2> QED
    BY <1>7, <2>0, <2>1, <2>2, <2>3, <2>4, <2>5, <2>6, <2>7, <2>8, Zenon DEF ControlStep
<1>8. CASE AbortConsumer
  <2>1. Len(outbox) \in Nat
    BY <1>0, MembersOf, Zenon DEF QueueTypes
  <2> QED
    BY <1>0, <1>8, <2>1 DEF AbortConsumer, ControlTypes, Proceed, Phases, Forced
<1>9. CASE UNCHANGED pipelineVars
  BY <1>0, <1>9 DEF pipelineVars, ControlTypes
<1> QED
  BY <1>1, <1>2, <1>3, <1>4, <1>5, <1>6, <1>7, <1>8, <1>9, Steps, Zenon DEF Commit, emit

-----------------------------------------------------------------------------
LEMMA StepStage ==
    ASSUME PipelineInv, [PipelineNext]_pipelineVars
    PROVE  \A m \in Mutations : Stage(m)'
<1> USE DEF MutationAt, PublicationAt, turnVars
<1>0. /\ MutationTypes /\ post_commit \in Seq(Mutations)
      /\ \A k \in Mutations : Stage(k)
  BY Zenon DEF PipelineInv, PipelineTypes, QueueTypes
<1>1. ASSUME NEW m \in Mutations, \/ BeginMutation(m) \/ EndMutation(m) \/ RunHookCommand(m)
      PROVE  \A k \in Mutations : Stage(k)'
  <2>1. UNCHANGED <<publication, ticketed, discarded, post_commit>>
    BY <1>1, Zenon DEF BeginMutation, EndMutation, RunHookCommand
  <2>2. /\ mutation' = [mutation EXCEPT ![m] = "acquiring"] /\ mutation[m] = "free"
        \/ /\ mutation' = [mutation EXCEPT ![m] = "done"] /\ mutation[m] = "publishing"
    BY <1>1, Zenon DEF BeginMutation, EndMutation, RunHookCommand
  <2> QED
    BY <1>0, <2>1, <2>2 DEF MutationTypes, Stage
<1>2. ASSUME NEW m \in Mutations, AcquireAndSequence(m) PROVE \A k \in Mutations : Stage(k)'
  <2>1. UNCHANGED <<publication, ticketed, discarded>> /\ mutation[m] = "acquiring"
    BY <1>2, Zenon DEF AcquireAndSequence
  <2>2. \/ mutation' = [mutation EXCEPT ![m] = "waiting"] /\ post_commit' = Append(post_commit, m)
        \/ mutation' = [mutation EXCEPT ![m] = "refused"] /\ post_commit' = post_commit
    BY <1>2, Zenon DEF AcquireAndSequence
  <2>3. Members(Append(post_commit, m)) = Members(post_commit) \cup {m}
    BY <1>0, Appended
  <2>4. Members(post_commit)' = Members(post_commit')
    BY Zenon DEF Members
  <2> QED
    BY <1>0, <2>1, <2>2, <2>3, <2>4, Zenon DEF MutationTypes, Stage
<1>3. ASSUME NEW m \in Mutations, PrepareEvent(m), mutation[m] \in {"waiting", "acquiring"}
      PROVE  \A k \in Mutations : Stage(k)'
  <2>1. UNCHANGED post_commit /\ mutation' = [mutation EXCEPT ![m] = "committed"]
    BY <1>3, Zenon DEF PrepareEvent
  <2>2. \/ /\ ticketed' = ticketed \cup {m} /\ publication' = [publication EXCEPT ![m] = "prepared"]
           /\ discarded' = discarded
        \/ /\ ticketed' = ticketed /\ publication' = [publication EXCEPT ![m] = "prepared"]
           /\ discarded' = discarded
        \/ /\ ticketed' = ticketed /\ publication' = publication
           /\ discarded' = discarded \cup {m}
    BY <1>3, Zenon DEF PrepareEvent
  <2> QED
    BY <1>0, <1>3, <2>1, <2>2 DEF MutationTypes, Stage, Sending
<1>4. ASSUME NEW m \in Mutations, FailInTurn(m) PROVE \A k \in Mutations : Stage(k)'
  <2>1. /\ UNCHANGED <<publication, ticketed, discarded>> /\ mutation' = [mutation EXCEPT ![m] = "refused"]
        /\ mutation[m] = "waiting" /\ post_commit[1] = m /\ post_commit' = Tail(post_commit)
    BY <1>4, Zenon DEF FailInTurn
  <2>2. post_commit # <<>>
    BY <1>0, <2>1, MembersOf DEF Stage
  <2>3. Members(Tail(post_commit)) = Members(post_commit) \ {m}
    BY <1>0, <2>1, <2>2, Shortened, Zenon DEF PipelineInv, Positions
  <2>4. Members(post_commit)' = Members(post_commit) \ {m}
    BY <2>1, <2>3, Zenon DEF Members
  <2> QED
    BY <1>0, <2>1, <2>4, Zenon DEF MutationTypes, Stage
<1>5. ASSUME NEW m \in Mutations, emit_prepared(m) PROVE \A k \in Mutations : Stage(k)'
  <2>1. /\ UNCHANGED <<ticketed, discarded>> /\ mutation' = [mutation EXCEPT ![m] = "publishing"]
        /\ mutation[m] = "committed" /\ post_commit' = LeaveTurn(post_commit, m)
        /\ publication' = IF publication[m] = "prepared" THEN [publication EXCEPT ![m] = "wait_turn"] ELSE publication
    BY <1>5, Zenon DEF emit_prepared
  <2>2. CASE post_commit # <<>> /\ post_commit[1] = m
    <3>1. Members(Tail(post_commit)) = Members(post_commit) \ {m}
      BY <1>0, <2>2, Shortened, Zenon DEF PipelineInv, Positions
    <3>2. Members(post_commit)' = Members(post_commit) \ {m}
      BY <2>1, <2>2, <3>1, Zenon DEF Members, LeaveTurn
    <3> QED
      BY <1>0, <2>1, <3>2, Zenon DEF MutationTypes, Stage, Sending
  <2>3. CASE ~(post_commit # <<>> /\ post_commit[1] = m)
    <3>1. Members(post_commit)' = Members(post_commit)
      BY <2>1, <2>3, Zenon DEF Members, LeaveTurn
    <3> QED
      BY <1>0, <2>1, <3>1, Zenon DEF MutationTypes, Stage, Sending
  <2> QED
    BY <2>2, <2>3, Zenon
<1>6. ASSUME NEW m \in Mutations, DispatchEffects(m) \/ CheckActive(m) \/ Reserve(m) \/ Send(m)
      PROVE  \A k \in Mutations : Stage(k)'
  <2>1. UNCHANGED <<mutation, ticketed, discarded, post_commit>>
    BY <1>6, Zenon DEF DispatchEffects, CheckActive, Reserve, Send
  <2>2. \/ /\ publication[m] = "wait_turn"
           /\ publication' = [publication EXCEPT ![m] = IF m \in ticketed THEN "send" ELSE "done"]
        \/ /\ publication[m] \in Sending
           /\ \E state \in {"reserve", "permit", "done"} : publication' = [publication EXCEPT ![m] = state]
    BY <1>6, Zenon DEF DispatchEffects, CheckActive, Reserve, Send, EndPublication, Sending
  <2> QED
    BY <1>0, <2>1, <2>2 DEF MutationTypes, Stage, Sending
<1>7. CASE AbortConsumer
  <2>1. UNCHANGED <<ticketed, discarded, post_commit>> /\ discarded = {}
    BY <1>7, AbortFrame, Zenon DEF PipelineInv, Settled
  <2>2. ASSUME NEW k \in CutByAbort PROVE Stage(k)'
    <3>1. k \notin ticketed /\ mutation'[k] = "cut" /\ publication'[k] = "none"
      BY <1>7, <2>2, AbortFrame, Zenon
    <3> QED
      BY <2>1, <3>1 DEF Stage, Sending
  <2>3. ASSUME NEW k \in Mutations, k \notin CutByAbort PROVE Stage(k)'
    <3>1. /\ publication'[k] = publication[k]
          /\ \/ mutation'[k] = mutation[k]
             \/ mutation[k] = "acquiring" /\ mutation'[k] = "refused"
      BY <1>7, <2>3, AbortFrame, Zenon
    <3>2. Members(post_commit)' = Members(post_commit)
      BY <2>1, Zenon DEF Members
    <3> QED
      BY <1>0, <2>1, <2>3, <3>1, <3>2, Zenon DEF Stage
  <2> QED
    BY <2>2, <2>3, Zenon
<1>8. CASE ControlStep \/ UNCHANGED pipelineVars
  BY <1>0, <1>8, ControlFrame, Zenon DEF pipelineVars, mutationVars, Stage
<1> QED
  BY <1>1, <1>2, <1>3, <1>4, <1>5, <1>6, <1>7, <1>8, Steps, Zenon DEF Commit, emit

(* The head of the post-commit order leaves.                               *)
LEMMA HeadLeaves ==
    ASSUME MutationTypes, post_commit \in Seq(Mutations), Positions, NEW state, post_commit # <<>>,
           mutation' = [mutation EXCEPT ![post_commit[1]] = state], post_commit' = Tail(post_commit)
    PROVE  Positions'
<1> DEFINE q == post_commit
           n == Len(q)
<1>1. /\ n \in Nat \ {0} /\ DOMAIN q = 1 .. n /\ q[1] \in Mutations
      /\ Len(Tail(q)) = n - 1 /\ DOMAIN Tail(q) = 1 .. (n - 1)
      /\ \A i \in 1 .. (n - 1) : Tail(q)[i] = q[i + 1]
  BY Shortened, Zenon
<1>2. SlotCapacity \in Nat
  BY MutationsAssumption, Zenon
<1>3. \A i \in 2 .. n : mutation[q[i]] = "waiting" /\ q[i] # q[1] /\ q[i] \in Mutations
  <2>1. \A i \in 1 .. n : q[i] \in Mutations
    OBVIOUS
  <2> QED
    BY <1>1, <2>1 DEF Positions
<1> HIDE DEF q, n
<1>4. post_commit' = Tail(q) /\ mutation' = [mutation EXCEPT ![q[1]] = state]
  BY Zenon DEF q
<1>5. ASSUME NEW i \in 1 .. (n - 1) PROVE mutation'[Tail(q)[i]] = "waiting"
  <2>1. i + 1 \in 2 .. n
    BY <1>1
  <2> QED
    BY <1>1, <1>3, <1>4, <2>1 DEF MutationTypes
<1>6. ASSUME NEW i \in 1 .. (n - 1), NEW j \in 1 .. (n - 1), Tail(q)[i] = Tail(q)[j] PROVE i = j
  <2>1. q[i + 1] = q[j + 1] /\ i + 1 \in 1 .. n /\ j + 1 \in 1 .. n
    BY <1>1, <1>6
  <2>2. i + 1 = j + 1
    BY <1>1, <2>1, Zenon DEF Positions, q
  <2> QED
    BY <2>2
<1>7. n <= SlotCapacity
  BY Zenon DEF Positions, q, n
<1> QED
  BY <1>1, <1>2, <1>4, <1>5, <1>6, <1>7, SMTT(30) DEF Positions

(* Who moves has no position, or has the turn.                             *)
LEMMA PositionsStay ==
    ASSUME MutationTypes, post_commit \in Seq(Mutations), Positions, NEW m \in Mutations, NEW state,
           mutation' = [mutation EXCEPT ![m] = state], post_commit' = post_commit,
           \/ mutation[m] \notin {"waiting", "committed"}
           \/ mutation[m] = "waiting" /\ state = "committed" /\ post_commit[1] = m
           \/ mutation[m] = "committed" /\ ~(post_commit # <<>> /\ post_commit[1] = m)
    PROVE  Positions'
<1>1. DOMAIN post_commit = 1 .. Len(post_commit) /\ \A i \in 1 .. Len(post_commit) : post_commit[i] \in Mutations
  OBVIOUS
<1>2. post_commit # <<>> <=> Len(post_commit) # 0
  OBVIOUS
<1>3. ASSUME NEW i \in 1 .. Len(post_commit)
      PROVE  \/ mutation'[post_commit[i]] = "waiting"
             \/ i = 1 /\ mutation'[post_commit[i]] = "committed"
  <2>1. CASE post_commit[i] # m
    BY <1>1, <2>1, Zenon DEF Positions, MutationTypes
  <2>2. CASE post_commit[i] = m
    <3>1. mutation[m] = "waiting" /\ state = "committed" /\ post_commit[1] = m
      BY <1>1, <1>2, <2>2 DEF Positions
    <3>2. i = 1
      BY <1>1, <2>2, <3>1 DEF Positions
    <3> QED
      BY <2>2, <3>1, <3>2, Zenon DEF MutationTypes
  <2> QED
    BY <2>1, <2>2, Zenon
<1> QED
  BY <1>1, <1>3, Zenon DEF Positions

LEMMA StepPositions ==
    ASSUME PipelineInv, [PipelineNext]_pipelineVars
    PROVE  Positions'
<1> USE DEF MutationAt, turnVars
<1>0. MutationTypes /\ post_commit \in Seq(Mutations) /\ Positions
  BY Zenon DEF PipelineInv, PipelineTypes, QueueTypes
<1>1. ASSUME NEW m \in Mutations, \/ BeginMutation(m) \/ EndMutation(m) \/ RunHookCommand(m) PROVE Positions'
  <2>1. /\ \E state : mutation' = [mutation EXCEPT ![m] = state]
        /\ post_commit' = post_commit /\ mutation[m] \in {"free", "publishing"}
    BY <1>1, Zenon DEF BeginMutation, EndMutation, RunHookCommand
  <2> QED
    BY <1>0, <2>1, PositionsStay, Zenon
<1>2. ASSUME NEW m \in Mutations, AcquireAndSequence(m) PROVE Positions'
  <2>1. CASE mutation' = [mutation EXCEPT ![m] = "refused"] /\ post_commit' = post_commit /\ mutation[m] = "acquiring"
    BY <1>0, <2>1, PositionsStay, Zenon
  <2>2. CASE /\ mutation' = [mutation EXCEPT ![m] = "waiting"] /\ post_commit' = Append(post_commit, m)
             /\ mutation[m] = "acquiring" /\ Len(post_commit) < SlotCapacity
    <3> DEFINE n == Len(post_commit)
    <3>1. /\ n \in Nat /\ DOMAIN post_commit = 1 .. n
          /\ Len(Append(post_commit, m)) = n + 1 /\ DOMAIN Append(post_commit, m) = 1 .. (n + 1)
          /\ \A i \in 1 .. n : Append(post_commit, m)[i] = post_commit[i]
          /\ Append(post_commit, m)[n + 1] = m
      BY <1>0, Appended
    <3>2. \A i \in 1 .. n : post_commit[i] \in Mutations /\ post_commit[i] # m
      BY <1>0, <2>2 DEF Positions
    <3>3. SlotCapacity \in Nat
      BY MutationsAssumption, Zenon
    <3> HIDE DEF n
    <3>4. /\ n < SlotCapacity
          /\ \A i \in 1 .. n : mutation[post_commit[i]] = "waiting" \/ (i = 1 /\ mutation[post_commit[i]] = "committed")
          /\ \A i, j \in 1 .. n : post_commit[i] = post_commit[j] => i = j
      BY <1>0, <2>2, <3>1, Zenon DEF Positions, n
    <3>5. /\ \A i \in 1 .. n : mutation'[post_commit[i]] = mutation[post_commit[i]]
          /\ mutation'[m] = "waiting"
      BY <1>0, <2>2, <3>2, Zenon DEF MutationTypes
    <3> QED
      BY <2>2, <3>1, <3>2, <3>3, <3>4, <3>5 DEF Positions
  <2> QED
    BY <1>2, <2>1, <2>2, Zenon DEF AcquireAndSequence
<1>3. ASSUME NEW m \in Mutations, Commit(m) \/ emit(m) PROVE Positions'
  <2>1. mutation' = [mutation EXCEPT ![m] = "committed"] /\ post_commit' = post_commit
    BY <1>3, Zenon DEF Commit, emit, PrepareEvent
  <2>2. mutation[m] = "acquiring" \/ (mutation[m] = "waiting" /\ post_commit[1] = m)
    BY <1>3, Zenon DEF Commit, emit
  <2> QED
    BY <1>0, <2>1, <2>2, PositionsStay, Zenon
<1>4. ASSUME NEW m \in Mutations, FailInTurn(m) PROVE Positions'
  <2>1. /\ mutation' = [mutation EXCEPT ![m] = "refused"]
        /\ mutation[m] = "waiting" /\ post_commit[1] = m /\ post_commit' = Tail(post_commit)
    BY <1>4, Zenon DEF FailInTurn
  <2>2. post_commit # <<>>
    BY <1>0, <2>1, MembersOf DEF PipelineInv, Stage
  <2> QED
    BY <1>0, <2>1, <2>2, HeadLeaves, Zenon
<1>5. ASSUME NEW m \in Mutations, emit_prepared(m) PROVE Positions'
  <2>1. /\ mutation' = [mutation EXCEPT ![m] = "publishing"]
        /\ mutation[m] = "committed" /\ post_commit' = LeaveTurn(post_commit, m)
    BY <1>5, Zenon DEF emit_prepared
  <2>2. CASE post_commit # <<>> /\ post_commit[1] = m
    BY <1>0, <2>1, <2>2, HeadLeaves, Zenon DEF LeaveTurn
  <2>3. CASE ~(post_commit # <<>> /\ post_commit[1] = m)
    BY <1>0, <2>1, <2>3, PositionsStay, Zenon DEF LeaveTurn
  <2> QED
    BY <2>2, <2>3, Zenon
<1>6. ASSUME NEW m \in Mutations, DispatchEffects(m) \/ CheckActive(m) \/ Reserve(m) \/ Send(m) PROVE Positions'
  <2>1. UNCHANGED <<mutation, post_commit>>
    BY <1>6, Zenon DEF DispatchEffects, CheckActive, Reserve, Send
  <2> QED
    BY <1>0, <2>1, Zenon DEF Positions
<1>7. CASE AbortConsumer
  <2>1. post_commit' = post_commit
    BY <1>7, Zenon DEF AbortConsumer
  <2>2. \A i \in DOMAIN post_commit : post_commit[i] \in Mutations /\ post_commit[i] \notin CutByAbort
    BY <1>0, MembersOf, Zenon DEF CutByAbort, Sequenced, Members
  <2>3. \A k \in Mutations : mutation[k] # "acquiring" /\ k \notin CutByAbort => mutation'[k] = mutation[k]
    BY <1>7, AbortFrame, Zenon
  <2>4. \A i \in DOMAIN post_commit : mutation'[post_commit[i]] = mutation[post_commit[i]]
    BY <1>0, <2>2, <2>3, Zenon DEF Positions
  <2> QED
    BY <1>0, <2>1, <2>4, Zenon DEF Positions
<1>8. CASE ControlStep \/ UNCHANGED pipelineVars
  BY <1>0, <1>8, ControlFrame, Zenon DEF pipelineVars, mutationVars, Positions
<1> QED
  BY <1>1, <1>2, <1>3, <1>4, <1>5, <1>6, <1>7, <1>8, Steps, Zenon

-----------------------------------------------------------------------------
(* The outstanding tickets, as the end of the commits.                     *)
LEMMA Outstanding ==
    ASSUME QueueTypes, Tickets
    PROVE  /\ Len(committed) \in Nat /\ DOMAIN committed = 1 .. Len(committed)
           /\ Len(commit_order) \in Nat /\ DOMAIN commit_order = 1 .. Len(commit_order)
           /\ Passed \in Nat /\ Len(committed) = Passed + Len(commit_order)
           /\ \A i \in 1 .. Len(commit_order) : Passed + i \in 1 .. Len(committed)
           /\ \A i \in 1 .. Len(commit_order) : commit_order[i] = committed[Passed + i]
           /\ \A i, j \in 1 .. Len(commit_order) : commit_order[i] = commit_order[j] => i = j
           /\ Members(commit_order) \subseteq ticketed
           /\ commit_order = <<>> <=> Len(commit_order) = 0
<1>1. /\ Len(committed) \in Nat /\ DOMAIN committed = 1 .. Len(committed)
      /\ Len(commit_order) \in Nat /\ DOMAIN commit_order = 1 .. Len(commit_order)
      /\ commit_order = <<>> <=> Len(commit_order) = 0
  BY MembersOf, Zenon DEF QueueTypes
<1>2. /\ Passed \in Nat /\ Len(committed) = Passed + Len(commit_order)
      /\ \A i \in 1 .. Len(commit_order) : Passed + i \in 1 .. Len(committed)
  BY <1>1 DEF Passed, Tickets
<1>3. \A i \in 1 .. Len(commit_order) : commit_order[i] = committed[Passed + i]
  BY <1>1, Zenon DEF Tickets
<1>4. ASSUME NEW i \in 1 .. Len(commit_order), NEW j \in 1 .. Len(commit_order), commit_order[i] = commit_order[j]
      PROVE  i = j
  <2>1. Passed + i = Passed + j
    BY <1>1, <1>2, <1>3, <1>4 DEF Tickets
  <2> QED
    BY <1>2, <2>1
<1>5. Members(commit_order) \subseteq ticketed
  BY <1>1, <1>2, <1>3 DEF Tickets, Members
<1> QED
  BY <1>1, <1>2, <1>3, <1>4, <1>5, Zenon

(* The publication that holds the commit turn ends.                        *)
LEMMA TurnEnds ==
    ASSUME PipelineTypes, Tickets, NEW m \in Mutations, publication[m] \in Sending, EndPublication(m), committed' = committed
    PROVE  /\ commit_order # <<>> /\ commit_order[1] = m /\ m \in ticketed
           /\ commit_order' = Tail(commit_order)
           /\ Len(commit_order) \in Nat \ {0} /\ Len(commit_order') = Len(commit_order) - 1
           /\ Members(commit_order') = Members(commit_order) \ {m}
           /\ Passed \in Nat /\ Passed' = Passed + 1 /\ m = committed[Passed + 1]
           /\ Passed + 1 \in 1 .. Len(committed)
           /\ ~TurnAt(Sending)'
<1>1. commit_order \in Seq(Mutations) /\ QueueTypes /\ MutationTypes
  BY Zenon DEF PipelineTypes, QueueTypes
<1>2. commit_order # <<>> /\ commit_order[1] = m
  BY Zenon DEF Tickets
<1>3. commit_order' = Tail(commit_order) /\ publication' = [publication EXCEPT ![m] = "done"]
  BY <1>2, Zenon DEF EndPublication, LeaveTurn, PublicationAt
<1>4. /\ Len(commit_order) \in Nat \ {0} /\ DOMAIN commit_order = 1 .. Len(commit_order)
      /\ Len(Tail(commit_order)) = Len(commit_order) - 1 /\ DOMAIN Tail(commit_order) = 1 .. (Len(commit_order) - 1)
      /\ \A i \in 1 .. (Len(commit_order) - 1) : Tail(commit_order)[i] = commit_order[i + 1]
      /\ (\A i, j \in DOMAIN commit_order : commit_order[i] = commit_order[j] => i = j)
            => Members(Tail(commit_order)) = Members(commit_order) \ {commit_order[1]}
      /\ Tail(commit_order) \in Seq(Mutations)
  BY <1>1, <1>2, Shortened, Zenon
<1>5. Passed \in Nat /\ m = committed[Passed + 1] /\ Passed + 1 \in 1 .. Len(committed) /\ m \in ticketed
  <2>1. 1 \in 1 .. Len(commit_order)
    BY <1>4
  <2>2. m \in Members(commit_order)
    BY <1>2, <1>4, <2>1, Zenon DEF Members
  <2> QED
    BY <1>1, <1>2, <2>1, <2>2, Outstanding, Zenon
<1>6. Members(commit_order') = Members(commit_order) \ {m}
  BY <1>1, <1>2, <1>3, <1>4, Outstanding, Zenon
<1>7. Len(committed) \in Nat
  BY <1>1, Outstanding, Zenon
<1>8. Passed' = Passed + 1
  BY <1>3, <1>4, <1>7 DEF Passed
<1>9. ASSUME commit_order' # <<>> PROVE publication'[commit_order'[1]] \notin Sending
  <2>1. commit_order'[1] \in Mutations /\ commit_order'[1] \in Members(commit_order')
    <3>1. Len(Tail(commit_order)) # 0 /\ DOMAIN Tail(commit_order) = 1 .. Len(Tail(commit_order))
      BY <1>3, <1>4, <1>9, MembersOf, Zenon
    <3>2. 1 \in 1 .. Len(Tail(commit_order))
      BY <1>4, <3>1
    <3>3. Tail(commit_order)[1] \in Members(Tail(commit_order)) /\ Members(Tail(commit_order)) \subseteq Mutations
      BY <1>4, <3>2, MembersOf, Zenon
    <3> QED
      BY <1>3, <3>3, Zenon
  <2>2. commit_order'[1] # commit_order[1]
    BY <1>2, <1>6, <2>1, Zenon
  <2>3. publication'[commit_order'[1]] = publication[commit_order'[1]]
    BY <1>1, <1>2, <1>3, <2>1, <2>2, Zenon DEF MutationTypes
  <2> QED
    BY <2>1, <2>2, <2>3, Zenon DEF Tickets
<1> QED
  BY <1>2, <1>3, <1>4, <1>5, <1>6, <1>8, <1>9, Zenon DEF TurnAt

(* A publication moves and keeps its ticket.                               *)
LEMMA TicketsStay ==
    ASSUME PipelineTypes, Tickets, NEW m \in Mutations, NEW state,
           publication' = [publication EXCEPT ![m] = state], UNCHANGED <<ticketed, committed, commit_order>>,
           m \in ticketed => publication[m] # "done" /\ state # "done",
           state \in Sending => commit_order # <<>> /\ commit_order[1] = m
    PROVE  Tickets'
<1>1. /\ \A k \in Mutations : publication'[k] = (IF k = m THEN state ELSE publication[k])
      /\ Members(commit_order)' = Members(commit_order) /\ Members(committed)' = Members(committed)
      /\ Passed' = Passed /\ ticketed \subseteq Mutations
  BY Zenon DEF PipelineTypes, MutationTypes, Members, Passed
<1>2. \A k \in ticketed : publication'[k] = "done" <=> k \notin Members(commit_order)
  BY <1>1, ZenonT(30) DEF Tickets
<1>3. \A k \in Mutations : publication'[k] \in Sending => commit_order # <<>> /\ commit_order[1] = k
  BY <1>1, Zenon DEF Tickets
<1> QED
  BY <1>1, <1>2, <1>3, Zenon DEF Tickets

(* A commit issues the ticket.                                             *)
LEMMA TicketIssued ==
    ASSUME PipelineTypes, Tickets, NEW m \in Mutations, m \notin ticketed, publication[m] = "none",
           publication' = [publication EXCEPT ![m] = "prepared"], ticketed' = ticketed \cup {m},
           commit_order' = Append(commit_order, m), committed' = Append(committed, m)
    PROVE  Tickets' /\ Passed' = Passed
<1> DEFINE n == Len(committed)
           k == Len(commit_order)
<1>1. committed \in Seq(Mutations) /\ commit_order \in Seq(Mutations) /\ QueueTypes /\ MutationTypes
  BY Zenon DEF PipelineTypes, QueueTypes
<1>2. /\ n \in Nat /\ DOMAIN committed = 1 .. n
      /\ Len(committed') = n + 1 /\ DOMAIN committed' = 1 .. (n + 1)
      /\ \A i \in 1 .. n : committed'[i] = committed[i]
      /\ committed'[n + 1] = m
      /\ Members(committed') = Members(committed) \cup {m}
  BY <1>1, Appended
<1>3. /\ k \in Nat /\ DOMAIN commit_order = 1 .. k /\ commit_order' # <<>>
      /\ Len(commit_order') = k + 1 /\ DOMAIN commit_order' = 1 .. (k + 1)
      /\ \A i \in 1 .. k : commit_order'[i] = commit_order[i]
      /\ commit_order'[k + 1] = m
      /\ Members(commit_order') = Members(commit_order) \cup {m}
  BY <1>1, Appended
<1>4. /\ Passed \in Nat /\ n = Passed + k
      /\ \A i \in 1 .. k : commit_order[i] = committed[Passed + i] /\ Passed + i \in 1 .. n
      /\ commit_order = <<>> <=> k = 0
  BY <1>1, Outstanding, Zenon
<1>5. ticketed = Members(committed)
  BY Zenon DEF Tickets
<1> HIDE DEF n, k
<1>6. Passed' = Passed
  BY <1>2, <1>3, <1>4 DEF Passed
<1>7. ticketed' = Members(committed)' /\ Members(commit_order)' = Members(commit_order) \cup {m}
  BY <1>2, <1>3, <1>5, Zenon DEF Members
<1>8. \A i, j \in DOMAIN committed' : committed'[i] = committed'[j] => i = j
  <2>1. \A i \in 1 .. n : committed[i] # m
    BY <1>2, <1>5, Zenon DEF Members
  <2>2. \A i, j \in 1 .. n : committed[i] = committed[j] => i = j
    BY <1>2, Zenon DEF Tickets
  <2> QED
    BY <1>2, <2>1, <2>2
<1>9. \A i \in DOMAIN commit_order' : commit_order'[i] = committed'[Passed' + i]
  <2>1. ASSUME NEW i \in 1 .. k PROVE commit_order'[i] = committed'[Passed + i]
    BY <1>2, <1>3, <1>4, Zenon
  <2>2. Passed + (k + 1) = n + 1
    BY <1>3, <1>4
  <2>3. commit_order'[k + 1] = committed'[Passed + (k + 1)]
    BY <1>2, <1>3, <2>2, Zenon
  <2>4. \A i \in 1 .. (k + 1) : i \in 1 .. k \/ i = k + 1
    BY <1>3
  <2> QED
    BY <1>3, <1>6, <2>1, <2>3, <2>4, Zenon
<1>10. /\ ticketed \subseteq Mutations
       /\ \A x \in Mutations : publication'[x] = (IF x = m THEN "prepared" ELSE publication[x])
  BY <1>1, Zenon DEF MutationTypes
<1>11. \A x \in ticketed' : publication'[x] = "done" <=> x \notin Members(commit_order)'
  <2>1. ASSUME NEW x \in ticketed PROVE publication'[x] = "done" <=> x \notin Members(commit_order)'
    <3>1. x # m /\ x \in Mutations /\ publication'[x] = publication[x]
      BY <1>10, <2>1, Zenon
    <3>2. publication[x] = "done" <=> x \notin Members(commit_order)
      BY <2>1, Zenon DEF Tickets
    <3> QED
      BY <1>7, <3>1, <3>2, Zenon
  <2>2. publication'[m] # "done" /\ m \in Members(commit_order)'
    BY <1>7, <1>10
  <2> QED
    BY <2>1, <2>2, Zenon
<1>12. \A x \in Mutations : publication'[x] \in Sending => commit_order' # <<>> /\ commit_order'[1] = x
  <2>1. ASSUME NEW x \in Mutations, publication'[x] \in Sending PROVE commit_order'[1] = x
    <3>1. publication[x] \in Sending
      BY <1>10, <2>1 DEF Sending
    <3>2. commit_order # <<>> /\ commit_order[1] = x
      BY <3>1, Zenon DEF Tickets
    <3> QED
      BY <1>3, <1>4, <3>2
  <2> QED
    BY <1>3, <2>1, Zenon
<1> QED
  BY <1>2, <1>3, <1>4, <1>6, <1>7, <1>8, <1>9, <1>11, <1>12, SMTT(30) DEF Tickets

LEMMA StepTickets ==
    ASSUME PipelineInv, [PipelineNext]_pipelineVars
    PROVE  Tickets'
<1> USE DEF PublicationAt, turnVars, history, mutationVars
<1>0. PipelineTypes /\ MutationTypes /\ QueueTypes /\ Tickets
  BY Zenon DEF PipelineInv, PipelineTypes
<1>1. ASSUME UNCHANGED <<ticketed, committed, commit_order, publication>> PROVE Tickets'
  BY <1>0, <1>1, SMTT(30) DEF Tickets, Members, Passed
<1>2. ASSUME NEW m \in Mutations,
             BeginMutation(m) \/ AcquireAndSequence(m) \/ FailInTurn(m) \/ EndMutation(m) \/ RunHookCommand(m)
      PROVE  Tickets'
  BY <1>1, <1>2, Zenon DEF BeginMutation, AcquireAndSequence, FailInTurn, EndMutation, RunHookCommand
<1>3. ASSUME NEW m \in Mutations, Commit(m) \/ emit(m) PROVE Tickets'
  <2>1. publication[m] = "none" /\ m \notin ticketed /\ PrepareEvent(m)
    BY <1>3, Zenon DEF PipelineInv, Stage, Commit, emit
  <2>2. CASE m \notin HookMutations /\ l_accepting
    BY <1>0, <2>1, <2>2, TicketIssued, Zenon DEF PrepareEvent
  <2>3. CASE ~(m \notin HookMutations /\ l_accepting)
    <3>1. /\ UNCHANGED <<ticketed, committed, commit_order>>
          /\ publication' = [publication EXCEPT ![m] = "prepared"] \/ publication' = publication
      BY <2>1, <2>3, Zenon DEF PrepareEvent
    <3>2. CASE publication' = publication
      BY <1>1, <3>1, <3>2, Zenon
    <3>3. CASE publication' = [publication EXCEPT ![m] = "prepared"]
      BY <1>0, <2>1, <3>1, <3>3, TicketsStay, Zenon DEF Sending
    <3> QED
      BY <3>1, <3>2, <3>3, Zenon
  <2> QED
    BY SMTT(30), <2>2, <2>3
<1>4. ASSUME NEW m \in Mutations, emit_prepared(m) PROVE Tickets'
  <2>1. /\ UNCHANGED <<ticketed, committed, commit_order>>
        /\ \/ publication[m] = "prepared" /\ publication' = [publication EXCEPT ![m] = "wait_turn"]
           \/ publication' = publication
    BY <1>4, Zenon DEF emit_prepared
  <2>2. CASE publication' = publication
    BY <1>1, <2>1, <2>2, Zenon
  <2>3. CASE publication[m] = "prepared" /\ publication' = [publication EXCEPT ![m] = "wait_turn"]
    BY <1>0, <2>1, <2>3, TicketsStay, Zenon DEF Sending
  <2> QED
    BY <2>1, <2>2, <2>3, Zenon
<1>5. ASSUME NEW m \in Mutations, DispatchEffects(m) PROVE Tickets'
  <2>1. UNCHANGED <<ticketed, committed, commit_order>> /\ publication[m] = "wait_turn"
    BY <1>5, Zenon DEF DispatchEffects
  <2>2. CASE m \in ticketed
    <3>1. publication' = [publication EXCEPT ![m] = "send"] /\ commit_order[1] = m
      BY <1>5, <2>2, Zenon DEF DispatchEffects
    <3>2. m \in Members(commit_order)
      BY <1>0, <2>1, <2>2, Zenon DEF Tickets
    <3>3. commit_order # <<>>
      BY <3>2 DEF Members
    <3> QED
      BY <1>0, <2>1, <3>1, <3>3, TicketsStay, Zenon DEF Sending
  <2>3. CASE m \notin ticketed
    <3>1. publication' = [publication EXCEPT ![m] = "done"]
      BY <1>5, <2>3, Zenon DEF DispatchEffects
    <3> QED
      BY <1>0, <2>1, <2>3, <3>1, TicketsStay, Zenon DEF Sending
  <2> QED
    BY <2>2, <2>3, Zenon
<1>6. ASSUME NEW m \in Mutations, publication[m] \in Sending, UNCHANGED <<ticketed, committed>>, EndPublication(m)
      PROVE  Tickets'
  <2>1. /\ commit_order # <<>> /\ commit_order[1] = m /\ m \in ticketed /\ commit_order' = Tail(commit_order)
        /\ Len(commit_order) \in Nat \ {0} /\ Len(commit_order') = Len(commit_order) - 1
        /\ Members(commit_order') = Members(commit_order) \ {m}
        /\ Passed' = Passed + 1 /\ Passed \in Nat
    BY <1>0, <1>6, TurnEnds, Zenon
  <2>2. /\ ticketed \subseteq Mutations
        /\ \A x \in Mutations : publication'[x] = (IF x = m THEN "done" ELSE publication[x])
    BY <1>0, <1>6, Zenon DEF EndPublication, MutationTypes
  <2>3. /\ Members(commit_order)' = Members(commit_order) \ {m}
        /\ Members(committed)' = Members(committed)
    BY <1>6, <2>1, Zenon DEF Members
  <2>4. \A x \in ticketed' : publication'[x] = "done" <=> x \notin Members(commit_order)'
    BY <1>0, <1>6, <2>1, <2>2, <2>3, Zenon DEF Tickets
  <2>5. \A x \in Mutations : publication'[x] \notin Sending
    BY <1>0, <2>1, <2>2, Zenon DEF Tickets, Sending
  <2>6. /\ DOMAIN commit_order' = 1 .. (Len(commit_order) - 1)
        /\ \A i \in 1 .. (Len(commit_order) - 1) : commit_order'[i] = commit_order[i + 1]
    BY <1>0, <2>1, Shortened, Zenon DEF QueueTypes
  <2>7. \A i \in DOMAIN commit_order' : commit_order'[i] = committed'[Passed' + i]
    <3> SUFFICES ASSUME NEW i \in 1 .. (Len(commit_order) - 1)
                 PROVE  commit_order[i + 1] = committed[Passed + 1 + i]
      BY <1>6, <2>1, <2>6, Zenon
    <3>1. i + 1 \in 1 .. Len(commit_order) /\ Passed + (i + 1) = Passed + 1 + i
      BY <2>1
    <3> QED
      BY <1>0, <3>1, Outstanding, Zenon
  <2>8. Len(commit_order') <= Len(committed')
    BY <1>0, <1>6, <2>1, Outstanding
  <2> QED
    BY <1>0, <1>6, <2>3, <2>4, <2>5, <2>7, <2>8, Zenon DEF Tickets
<1>7. ASSUME NEW m \in Mutations, CheckActive(m) \/ Reserve(m) \/ Send(m) PROVE Tickets'
  <2>1. UNCHANGED <<ticketed, committed>> /\ publication[m] \in Sending
    BY <1>7, Zenon DEF CheckActive, Reserve, Send, Sending
  <2>2. CASE EndPublication(m)
    BY <1>6, <2>1, <2>2, Zenon
  <2>3. CASE ~EndPublication(m)
    <3>1. commit_order' = commit_order /\ \E state \in Sending : publication' = [publication EXCEPT ![m] = state]
      BY <1>7, <2>3, Zenon DEF CheckActive, Reserve, Send, Sending
    <3>2. commit_order # <<>> /\ commit_order[1] = m /\ publication[m] # "done"
      BY <1>0, <2>1, Zenon DEF Tickets, Sending
    <3>3. PICK state \in Sending : publication' = [publication EXCEPT ![m] = state]
      BY <3>1, Zenon
    <3>4. state # "done"
      BY Zenon DEF Sending
    <3> QED
      BY <1>0, <2>1, <3>1, <3>2, <3>3, <3>4, TicketsStay, Zenon
  <2> QED
    BY <2>2, <2>3, Zenon
<1>8. CASE ControlStep \/ UNCHANGED pipelineVars
  <2>1. UNCHANGED <<ticketed, committed, commit_order, publication>>
    BY <1>8, ControlFrame, Zenon DEF pipelineVars
  <2> QED
    BY <1>1, <2>1, Zenon
<1>9. CASE AbortConsumer
  <2>1. UNCHANGED <<ticketed, committed, commit_order>>
    BY <1>9, AbortFrame, Zenon
  <2>2. \A k \in ticketed : publication'[k] = publication[k]
    BY <1>9, AbortFrame, Zenon
  <2>3. \A k \in Mutations : publication'[k] \in Sending => publication[k] = publication'[k]
    BY <1>9, AbortFrame, Zenon DEF Sending
  <2>4. Members(commit_order)' = Members(commit_order) /\ Members(committed)' = Members(committed) /\ Passed' = Passed
    BY <2>1, Zenon DEF Members, Passed
  <2> QED
    BY <1>0, <2>1, <2>2, <2>3, <2>4, Zenon DEF Tickets
<1> QED
  BY <1>2, <1>3, <1>4, <1>5, <1>7, <1>8, <1>9, Steps, Zenon

(* A publication moves; what the turn is at changes only if it moves.      *)
LEMMA TurnStays ==
    ASSUME PipelineTypes, Tickets, NEW m \in Mutations, NEW state, NEW states,
           publication' = [publication EXCEPT ![m] = state], commit_order' = commit_order,
           \/ publication[m] \in states <=> state \in states
           \/ m \notin ticketed
    PROVE  TurnAt(states)' <=> TurnAt(states)
<1>1. QueueTypes /\ MutationTypes
  BY Zenon DEF PipelineTypes
<1>2. CASE commit_order = <<>>
  BY <1>2, Zenon DEF TurnAt
<1>3. CASE commit_order # <<>>
  <2>1. 1 \in 1 .. Len(commit_order)
    BY <1>1, <1>3, Outstanding
  <2>2. commit_order[1] \in ticketed /\ ticketed \subseteq Mutations
    BY <1>1, <2>1, Outstanding, MembersOf, Zenon DEF QueueTypes, MutationTypes
  <2>3. publication'[commit_order[1]] = (IF commit_order[1] = m THEN state ELSE publication[commit_order[1]])
    BY <1>1, <2>2, Zenon DEF MutationTypes
  <2> QED
    BY <2>2, <2>3, Zenon DEF TurnAt
<1> QED
  BY <1>2, <1>3, Zenon

LEMMA AbortTurn ==
    ASSUME PipelineInv, AbortConsumer, NEW states
    PROVE  TurnAt(states)' <=> TurnAt(states)
<1>1. QueueTypes /\ MutationTypes /\ Tickets /\ commit_order' = commit_order
  BY AbortFrame, Zenon DEF PipelineInv, PipelineTypes
<1>2. CASE commit_order = <<>>
  BY <1>1, <1>2, Zenon DEF TurnAt
<1>3. CASE commit_order # <<>>
  <2>1. 1 \in 1 .. Len(commit_order)
    BY <1>1, <1>3, Outstanding
  <2>2. commit_order[1] \in ticketed
    BY <1>1, <2>1, Outstanding, MembersOf, Zenon DEF QueueTypes
  <2>3. publication'[commit_order[1]] = publication[commit_order[1]]
    BY <2>2, AbortFrame, Zenon
  <2> QED
    BY <1>1, <2>3, Zenon DEF TurnAt
<1> QED
  BY <1>2, <1>3, Zenon

LEMMA TurnIssued ==
    ASSUME PipelineTypes, Tickets, NEW m \in Mutations, NEW states, m \notin ticketed, "prepared" \notin states,
           publication' = [publication EXCEPT ![m] = "prepared"], commit_order' = Append(commit_order, m)
    PROVE  TurnAt(states)' <=> TurnAt(states)
<1>0. QueueTypes /\ MutationTypes
  BY Zenon DEF PipelineTypes
<1>1. \A k \in Mutations : publication'[k] = (IF k = m THEN "prepared" ELSE publication[k])
  BY <1>0, Zenon DEF MutationTypes
<1>2. CASE commit_order = <<>>
  <2>1. commit_order'[1] = m
    BY <1>2
  <2> QED
    BY <1>1, <1>2, <2>1, Zenon DEF TurnAt
<1>3. CASE commit_order # <<>>
  <2>1. 1 \in 1 .. Len(commit_order)
    BY <1>0, <1>3, Outstanding
  <2>2. commit_order[1] \in ticketed /\ ticketed \subseteq Mutations
    BY <1>0, <2>1, Outstanding, MembersOf, Zenon DEF QueueTypes, MutationTypes
  <2>3. commit_order'[1] = commit_order[1] /\ commit_order' # <<>>
    BY <1>0, <2>1, Appended, SMTT(30) DEF QueueTypes
  <2> QED
    BY <1>1, <1>3, <2>2, <2>3 DEF TurnAt
<1> QED
  BY <1>2, <1>3, Zenon

LEMMA EffectsStay ==
    ASSUME PipelineTypes, Tickets, Effects, NEW m \in Mutations, NEW state,
           publication' = [publication EXCEPT ![m] = state], UNCHANGED <<ticketed, committed, commit_order, effects, unordered>>,
           publication[m] \in Sending <=> state \in Sending,
           m \in ticketed \/ (publication[m] # "done" /\ state # "done")
    PROVE  Effects'
<1>1. TurnAt(Sending)' <=> TurnAt(Sending)
  BY ZenonT(30), TurnStays
<1>2. \A k \in Mutations : publication'[k] = (IF k = m THEN state ELSE publication[k])
  BY Zenon DEF PipelineTypes, MutationTypes
<1>3. {k \in Mutations : k \notin ticketed /\ publication[k] = "done"}
        = {k \in Mutations : k \notin ticketed' /\ publication'[k] = "done"}
  BY <1>2, Zenon
<1>4. Passed' = Passed
  BY Zenon DEF Passed
<1> QED
  BY <1>1, <1>3, <1>4, Zenon DEF Effects

LEMMA StepEffects ==
    ASSUME PipelineInv, [PipelineNext]_pipelineVars
    PROVE  Effects'
<1> USE DEF PublicationAt, turnVars, history, mutationVars
<1>0. PipelineTypes /\ MutationTypes /\ QueueTypes /\ Tickets /\ Effects
  BY Zenon DEF PipelineInv, PipelineTypes
<1>1. ASSUME UNCHANGED <<ticketed, committed, commit_order, publication, effects, unordered>> PROVE Effects'
  BY <1>0, <1>1, Zenon DEF Effects, Passed, TurnAt
<1>2. ASSUME NEW m \in Mutations,
             BeginMutation(m) \/ AcquireAndSequence(m) \/ FailInTurn(m) \/ EndMutation(m) \/ RunHookCommand(m)
      PROVE  Effects'
  BY <1>1, <1>2, Zenon DEF BeginMutation, AcquireAndSequence, FailInTurn, EndMutation, RunHookCommand
<1>3. ASSUME NEW m \in Mutations, Commit(m) \/ emit(m) PROVE Effects'
  <2>1. publication[m] = "none" /\ m \notin ticketed /\ PrepareEvent(m)
    BY <1>3, Zenon DEF PipelineInv, Stage, Commit, emit
  <2>2. CASE m \notin HookMutations /\ l_accepting
    <3>1. /\ publication' = [publication EXCEPT ![m] = "prepared"] /\ ticketed' = ticketed \cup {m}
          /\ commit_order' = Append(commit_order, m) /\ committed' = Append(committed, m)
          /\ UNCHANGED <<effects, unordered>>
      BY <2>1, <2>2, Zenon DEF PrepareEvent
    <3>2. Passed' = Passed
      BY <1>0, <2>1, <3>1, TicketIssued, Zenon
    <3>3. \A k \in Mutations : publication'[k] = (IF k = m THEN "prepared" ELSE publication[k])
      BY <1>0, <3>1, Zenon DEF MutationTypes
    <3>4. {k \in Mutations : k \notin ticketed /\ publication[k] = "done"}
            = {k \in Mutations : k \notin ticketed' /\ publication'[k] = "done"}
      BY <2>1, <3>1, <3>3, Zenon
    <3>5. TurnAt(Sending)' <=> TurnAt(Sending)
      BY <1>0, <2>1, <3>1, TurnIssued, Zenon DEF Sending
    <3>6. \A i \in DOMAIN effects : committed'[i] = committed[i]
      <4>1. /\ \A i \in 1 .. Len(committed) : committed'[i] = committed[i]
        BY <1>0, <3>1, Appended DEF QueueTypes
      <4>2. DOMAIN effects = 1 .. Len(effects) /\ Len(effects) \in Nat
        BY <1>0, MembersOf, Zenon DEF QueueTypes
      <4>3. Len(effects) <= Len(committed) /\ Len(committed) \in Nat
        BY <1>0, Outstanding DEF Effects, TurnAt
      <4> QED
        BY <4>1, <4>2, <4>3
    <3> QED
      BY <1>0, <3>1, <3>2, <3>4, <3>5, <3>6, Zenon DEF Effects
  <2>3. CASE ~(m \notin HookMutations /\ l_accepting)
    <3>1. /\ UNCHANGED <<ticketed, committed, commit_order, effects, unordered>>
          /\ publication' = [publication EXCEPT ![m] = "prepared"] \/ publication' = publication
      BY <2>1, <2>3, Zenon DEF PrepareEvent
    <3>2. CASE publication' = publication
      BY <1>1, <3>1, <3>2, Zenon
    <3>3. CASE publication' = [publication EXCEPT ![m] = "prepared"]
      BY <1>0, <2>1, <3>1, <3>3, EffectsStay, Zenon DEF Sending
    <3> QED
      BY <3>1, <3>2, <3>3, Zenon
  <2> QED
    BY <2>2, <2>3, Zenon
<1>4. ASSUME NEW m \in Mutations, emit_prepared(m) PROVE Effects'
  <2>1. /\ UNCHANGED <<ticketed, committed, commit_order, effects, unordered>>
        /\ \/ publication[m] = "prepared" /\ publication' = [publication EXCEPT ![m] = "wait_turn"]
           \/ publication' = publication
    BY <1>4, Zenon DEF emit_prepared
  <2>2. CASE publication' = publication
    BY <1>1, <2>1, <2>2, Zenon
  <2>3. CASE publication[m] = "prepared" /\ publication' = [publication EXCEPT ![m] = "wait_turn"]
    BY <1>0, <2>1, <2>3, EffectsStay, Zenon DEF Sending
  <2> QED
    BY <2>1, <2>2, <2>3, Zenon
<1>5. ASSUME NEW m \in Mutations, DispatchEffects(m) PROVE Effects'
  <2>1. UNCHANGED <<ticketed, committed, commit_order>> /\ publication[m] = "wait_turn"
    BY <1>5, Zenon DEF DispatchEffects
  <2>2. CASE m \in ticketed
    <3>1. /\ publication' = [publication EXCEPT ![m] = "send"] /\ commit_order[1] = m
          /\ effects' = Append(effects, m) /\ unordered' = unordered
      BY <1>5, <2>2, Zenon DEF DispatchEffects
    <3>2. m \in Members(commit_order)
      BY <1>0, <2>1, <2>2, Zenon DEF Tickets
    <3>3. commit_order # <<>> /\ 1 \in 1 .. Len(commit_order)
      BY <1>0, <3>2, Outstanding DEF Members
    <3>4. Passed \in Nat /\ m = committed[Passed + 1] /\ Passed' = Passed
      BY <1>0, <2>1, <3>1, <3>3, Outstanding, Zenon DEF Passed
    <3>5. \A k \in Mutations : publication'[k] = (IF k = m THEN "send" ELSE publication[k])
      BY <1>0, <3>1, Zenon DEF MutationTypes
    <3>6. ~TurnAt(Sending) /\ TurnAt(Sending)'
      BY <2>1, <3>1, <3>3, <3>5, Zenon DEF TurnAt, Sending
    <3>7. /\ Len(effects) \in Nat /\ DOMAIN effects = 1 .. Len(effects)
          /\ Len(effects') = Len(effects) + 1 /\ DOMAIN effects' = 1 .. (Len(effects) + 1)
          /\ \A i \in 1 .. Len(effects) : effects'[i] = effects[i]
          /\ effects'[Len(effects) + 1] = m
      BY <1>0, <3>1, Appended DEF QueueTypes
    <3>8. Len(effects) = Passed /\ \A i \in DOMAIN effects : effects[i] = committed[i]
      BY <1>0, <3>4, <3>6 DEF Effects
    <3>9. \A i \in DOMAIN effects' : effects'[i] = committed'[i]
      BY <2>1, <3>4, <3>7, <3>8
    <3>10. {k \in Mutations : k \notin ticketed /\ publication[k] = "done"}
             = {k \in Mutations : k \notin ticketed' /\ publication'[k] = "done"}
      BY <2>1, <2>2, <3>5, Zenon
    <3>11. Len(effects') = Passed' + 1
      BY <3>4, <3>7, <3>8, Zenon
    <3>12. unordered' = {k \in Mutations : k \notin ticketed' /\ publication'[k] = "done"}
      BY <1>0, <3>1, <3>10, Zenon DEF Effects
    <3> QED
      BY <3>6, <3>9, <3>11, <3>12, Zenon DEF Effects
  <2>3. CASE m \notin ticketed
    <3>1. /\ publication' = [publication EXCEPT ![m] = "done"]
          /\ effects' = effects /\ unordered' = unordered \cup {m}
      BY <1>5, <2>3, Zenon DEF DispatchEffects
    <3>2. TurnAt(Sending)' <=> TurnAt(Sending)
      BY <1>0, <2>1, <2>3, <3>1, TurnStays, Zenon
    <3>3. \A k \in Mutations : publication'[k] = (IF k = m THEN "done" ELSE publication[k])
      BY <1>0, <3>1, Zenon DEF MutationTypes
    <3>4. {k \in Mutations : k \notin ticketed /\ publication[k] = "done"} \cup {m}
            = {k \in Mutations : k \notin ticketed' /\ publication'[k] = "done"}
      BY <2>1, <2>3, <3>3, Zenon
    <3>5. Passed' = Passed
      BY <2>1, Zenon DEF Passed
    <3> QED
      BY <1>0, <2>1, <3>1, <3>2, <3>4, <3>5, Zenon DEF Effects
  <2> QED
    BY <2>2, <2>3, Zenon
<1>6. ASSUME NEW m \in Mutations, CheckActive(m) \/ Reserve(m) \/ Send(m) PROVE Effects'
  <2>1. UNCHANGED <<ticketed, committed, effects, unordered>> /\ publication[m] \in Sending
    BY <1>6, Zenon DEF CheckActive, Reserve, Send, Sending
  <2>2. commit_order # <<>> /\ commit_order[1] = m /\ publication[m] # "done"
    BY <1>0, <2>1, Zenon DEF Tickets, Sending
  <2>3. CASE EndPublication(m)
    <3>1. Passed \in Nat /\ Passed' = Passed + 1 /\ m \in ticketed /\ ~TurnAt(Sending)'
      BY <1>0, <2>1, <2>3, TurnEnds, Zenon
    <3>2. TurnAt(Sending)
      BY <2>1, <2>2, Zenon DEF TurnAt
    <3>3. \A k \in Mutations : publication'[k] = (IF k = m THEN "done" ELSE publication[k])
      BY <1>0, <2>3, Zenon DEF MutationTypes, EndPublication
    <3>4. {k \in Mutations : k \notin ticketed /\ publication[k] = "done"}
            = {k \in Mutations : k \notin ticketed' /\ publication'[k] = "done"}
      BY <2>1, <3>1, <3>3, Zenon
    <3> QED
      BY <1>0, <2>1, <3>1, <3>2, <3>4 DEF Effects
  <2>4. CASE ~EndPublication(m)
    <3>1. commit_order' = commit_order /\ \E state \in Sending : publication' = [publication EXCEPT ![m] = state]
      BY <1>6, <2>4, Zenon DEF CheckActive, Reserve, Send, Sending
    <3>2. PICK state \in Sending : publication' = [publication EXCEPT ![m] = state]
      BY <3>1, Zenon
    <3>3. state # "done"
      BY Zenon DEF Sending
    <3> QED
      BY <1>0, <2>1, <2>2, <3>1, <3>2, <3>3, EffectsStay, Zenon
  <2> QED
    BY <2>3, <2>4, Zenon
<1>7. CASE ControlStep \/ UNCHANGED pipelineVars
  <2>1. UNCHANGED <<ticketed, committed, commit_order, publication, effects, unordered>>
    BY <1>7, ControlFrame, Zenon DEF pipelineVars
  <2> QED
    BY <1>1, <2>1, Zenon
<1>8. CASE AbortConsumer
  <2>1. UNCHANGED <<ticketed, committed, commit_order, effects, unordered>>
    BY <1>8, AbortFrame, Zenon
  <2>2. \A k \in Mutations : publication'[k] = "done" <=> publication[k] = "done"
    BY <1>8, AbortFrame, Zenon
  <2>3. {k \in Mutations : k \notin ticketed /\ publication[k] = "done"}
          = {k \in Mutations : k \notin ticketed' /\ publication'[k] = "done"}
    BY <2>1, <2>2, Zenon
  <2>4. (TurnAt(Sending)' <=> TurnAt(Sending)) /\ Passed' = Passed
    BY <1>8, <2>1, AbortTurn, Zenon DEF Passed
  <2> QED
    BY <1>0, <2>1, <2>3, <2>4, Zenon DEF Effects
<1> QED
  BY <1>2, <1>3, <1>4, <1>5, <1>6, <1>7, <1>8, Steps, Zenon

-----------------------------------------------------------------------------
LEMMA HookNumbers ==
    ASSUME QueueTypes, Tickets, Hooks
    PROVE  /\ Len(hooked) \in Nat /\ DOMAIN hooked = 1 .. Len(hooked)
           /\ Len(outbox) \in Nat /\ DOMAIN outbox = 1 .. Len(outbox)
           /\ Running \in {0, 1} /\ (item = None <=> Running = 0)
           /\ Passed \in Nat /\ Len(committed) \in Nat /\ Passed <= Len(committed)
           /\ \A i \in DOMAIN hooked : i \in 1 .. Passed
           /\ item # None => Len(hooked) + 1 \in 1 .. Passed
           /\ \A i \in DOMAIN outbox : Len(hooked) + Running + i \in 1 .. Passed
<1>1. /\ Len(hooked) \in Nat /\ DOMAIN hooked = 1 .. Len(hooked)
      /\ Len(outbox) \in Nat /\ DOMAIN outbox = 1 .. Len(outbox)
  BY MembersOf, Zenon DEF QueueTypes
<1>2. Running \in {0, 1} /\ (item = None <=> Running = 0)
  BY DEF Running
<1>3. Passed \in Nat /\ Len(committed) \in Nat /\ Passed <= Len(committed)
  BY Outstanding
<1>4. Len(hooked) + Running + Len(outbox) <= Passed
  BY Zenon DEF Hooks
<1> QED
  BY <1>1, <1>2, <1>3, <1>4

(* The consumer does not move, and the commits that are over stay.         *)
LEMMA HooksStay ==
    ASSUME QueueTypes, Tickets, Hooks, UNCHANGED <<item, consumer, command, hooked, outbox>>,
           Passed' = Passed, l_active' => l_active, \A i \in 1 .. Passed : committed'[i] = committed[i]
    PROVE  Hooks'
<1>1. Running' = Running
  BY SMTT(30) DEF Running
<1>2. /\ item # None <=> consumer \in {"hook", "drain_hook"}
      /\ command # None => item # None
      /\ Len(hooked) + Running + Len(outbox) <= Passed
      /\ l_active' => Len(hooked) + Running + Len(outbox) = Passed
  BY Zenon DEF Hooks
<1>3. /\ \A i \in DOMAIN hooked : hooked[i] = committed'[i]
      /\ item # None => item = committed'[Len(hooked) + 1]
      /\ \A i \in DOMAIN outbox : outbox[i] = committed'[Len(hooked) + Running + i]
  <2>1. /\ \A i \in DOMAIN hooked : i \in 1 .. Passed
        /\ item # None => Len(hooked) + 1 \in 1 .. Passed
        /\ \A i \in DOMAIN outbox : Len(hooked) + Running + i \in 1 .. Passed
    BY HookNumbers, Zenon
  <2> QED
    BY <2>1, Zenon DEF Hooks
<1> QED
  BY <1>1, <1>2, <1>3, Zenon DEF Hooks

LEMMA StepHooks ==
    ASSUME PipelineInv, [PipelineNext]_pipelineVars
    PROVE  Hooks'
<1> USE DEF turnVars, outboxVars, consumerVars, history
<1>0. PipelineTypes /\ QueueTypes /\ Tickets /\ Hooks /\ Slots
  BY Zenon DEF PipelineInv, PipelineTypes
<1>1. ASSUME UNCHANGED <<item, consumer, command, hooked, outbox, committed, commit_order>>, l_active' => l_active PROVE Hooks'
  BY <1>0, <1>1, HooksStay, SMTT(30) DEF Passed
<1>2. ASSUME NEW m \in Mutations,
             BeginMutation(m) \/ AcquireAndSequence(m) \/ FailInTurn(m) \/ EndMutation(m) \/ emit_prepared(m) \/ DispatchEffects(m)
      PROVE  Hooks'
  BY <1>1, <1>2, ZenonT(30) DEF BeginMutation, AcquireAndSequence, FailInTurn, EndMutation, emit_prepared, DispatchEffects
<1>3. ASSUME NEW m \in Mutations, Commit(m) \/ emit(m) PROVE Hooks'
  <2>1. publication[m] = "none" /\ m \notin ticketed /\ PrepareEvent(m)
    BY <1>3, Zenon DEF PipelineInv, Stage, Commit, emit
  <2>2. CASE m \notin HookMutations /\ l_accepting
    <3>1. /\ publication' = [publication EXCEPT ![m] = "prepared"] /\ ticketed' = ticketed \cup {m}
          /\ commit_order' = Append(commit_order, m) /\ committed' = Append(committed, m)
          /\ UNCHANGED <<item, consumer, command, hooked, outbox, l_active>>
      BY <2>1, <2>2, Zenon DEF PrepareEvent, PublicationAt
    <3>2. Passed' = Passed
      BY ZenonT(30), <1>0, <2>1, <3>1, TicketIssued
    <3>3. \A i \in 1 .. Len(committed) : committed'[i] = committed[i]
      BY <1>0, <3>1, Appended DEF QueueTypes
    <3>4. \A i \in 1 .. Passed : committed'[i] = committed[i]
      BY <1>0, <3>3, HookNumbers
    <3> QED
      BY <1>0, <3>1, <3>2, <3>4, HooksStay, Zenon
  <2>3. CASE ~(m \notin HookMutations /\ l_accepting)
    BY <1>1, <2>1, <2>3, Zenon DEF PrepareEvent
  <2> QED
    BY <2>2, <2>3, Zenon
<1>4. ASSUME NEW m \in Mutations, RunHookCommand(m) PROVE Hooks'
  <2>1. /\ UNCHANGED <<item, consumer, hooked, outbox, committed, commit_order, l_active>>
        /\ consumer \in {"hook", "drain_hook"}
    BY <1>4, Zenon DEF RunHookCommand
  <2> QED
    BY <1>0, <2>1, Zenon DEF Hooks, Passed, Running
<1>5. ASSUME NEW m \in Mutations, CheckActive(m) \/ Reserve(m) \/ Send(m) PROVE Hooks'
  <2>1. /\ UNCHANGED <<item, consumer, command, hooked, committed, l_active>> /\ publication[m] \in Sending
        /\ outbox' \in {outbox, Append(outbox, m)}
    BY <1>5, Zenon DEF CheckActive, Reserve, Send, Sending
  <2>2. CASE ~EndPublication(m)
    <3>1. commit_order' = commit_order /\ outbox' = outbox
      BY <1>5, <2>2, Zenon DEF CheckActive, Reserve, Send
    <3> QED
      BY <1>1, <2>1, <3>1, Zenon
  <2>3. CASE EndPublication(m)
    <3>1. Passed \in Nat /\ Passed' = Passed + 1 /\ m = committed[Passed + 1]
      BY <1>0, <2>1, <2>3, TurnEnds, Zenon
    <3>2. /\ Len(hooked) \in Nat /\ Len(outbox) \in Nat /\ DOMAIN outbox = 1 .. Len(outbox)
          /\ Running \in {0, 1} /\ Running' = Running
      BY <1>0, <2>1, HookNumbers, SMTT(30) DEF Running
    <3>3. CASE outbox' = outbox /\ ~l_active
      BY <1>0, <2>1, <3>1, <3>2, <3>3, SMTT(30) DEF Hooks
    <3>4. CASE outbox' = Append(outbox, m) /\ l_active
      <4> DEFINE a == Len(hooked) + Running
                 n == Len(outbox)
      <4>1. /\ Len(outbox') = n + 1 /\ DOMAIN outbox' = 1 .. (n + 1)
            /\ \A i \in 1 .. n : outbox'[i] = outbox[i]
            /\ outbox'[n + 1] = m
        BY <1>0, <3>4, Appended DEF QueueTypes
      <4>2. a + n = Passed /\ \A i \in 1 .. n : outbox[i] = committed[a + i]
        BY <1>0, <3>2, <3>4, Zenon DEF Hooks
      <4>3. a \in Nat /\ n \in Nat
        BY <3>2
      <4> HIDE DEF a, n
      <4>4. \A i \in DOMAIN outbox' : outbox'[i] = committed[a + i]
        <5>1. ASSUME NEW i \in 1 .. n PROVE outbox'[i] = committed[a + i]
          BY <4>1, <4>2, Zenon
        <5>2. a + (n + 1) = Passed + 1
          BY <3>1, <4>2, <4>3
        <5>3. \A i \in 1 .. (n + 1) : i \in 1 .. n \/ i = n + 1
          BY <4>3
        <5> QED
          BY <3>1, <4>1, <5>1, <5>2, <5>3, Zenon
      <4>5. a + Len(outbox') = Passed'
        BY <3>1, <4>1, <4>2, <4>3
      <4>6. Len(hooked') + Running' = a /\ committed' = committed
        BY <2>1, <3>2, Zenon DEF a
      <4> QED
        BY <1>0, <2>1, <3>1, <4>3, <4>4, <4>5, <4>6 DEF Hooks
    <3>5. \/ outbox' = outbox /\ ~l_active
          \/ outbox' = Append(outbox, m) /\ l_active
      <4>1. l_active => receiver = "open"
        BY <1>0, Zenon DEF Slots
      <4>2. ASSUME l_active PROVE Send(m)
        <5>1. ~(publication' = [publication EXCEPT ![m] = "reserve"] /\ publication' = [publication EXCEPT ![m] = "done"])
          <6>1. m \in DOMAIN publication
            BY <1>0, Zenon DEF PipelineTypes, MutationTypes
          <6> QED
            BY <6>1, Zenon
        <5>2. ~(publication' = [publication EXCEPT ![m] = "permit"] /\ publication' = [publication EXCEPT ![m] = "done"])
          <6>1. m \in DOMAIN publication
            BY <1>0, Zenon DEF PipelineTypes, MutationTypes
          <6> QED
            BY <6>1, Zenon
        <5> QED
          BY <1>5, <2>3, <4>1, <4>2, <5>1, <5>2, Zenon DEF CheckActive, Reserve, EndPublication, PublicationAt
      <4>3. CASE l_active
        BY <4>1, <4>2, <4>3, Zenon DEF Send
      <4>4. CASE ~l_active
        BY <1>5, <4>4, Zenon DEF CheckActive, Reserve, Send
      <4> QED
        BY <4>3, <4>4, Zenon
    <3> QED
      BY SMTT(30), <3>3, <3>4, <3>5
  <2> QED
    BY <2>2, <2>3, Zenon
<1>6. CASE Recv
  <2>1. /\ item' = Head(outbox) /\ outbox' = Tail(outbox) /\ outbox # <<>>
        /\ UNCHANGED <<command, hooked, committed, commit_order, l_active>>
    BY <1>6, Zenon DEF Recv
  <2>2. item = None /\ command = None /\ consumer' \in {"hook", "drain_hook"}
    BY <1>0, <1>6, Zenon DEF Recv, Hooks
  <2>3. Running = 0 /\ Passed' = Passed
    BY <2>1, <2>2, Zenon DEF Running, Passed
  <2>4. /\ Len(outbox) \in Nat \ {0} /\ DOMAIN outbox = 1 .. Len(outbox) /\ outbox[1] \in Mutations
        /\ Len(outbox') = Len(outbox) - 1 /\ DOMAIN outbox' = 1 .. (Len(outbox) - 1)
        /\ \A i \in 1 .. (Len(outbox) - 1) : outbox'[i] = outbox[i + 1]
        /\ item' = outbox[1]
    BY <1>0, <2>1, Shortened, Zenon DEF QueueTypes
  <2>5. item' # None /\ Running' = 1
    <3>1. None \notin Mutations
      BY MutationsAssumption, Zenon DEF Mutations
    <3> QED
      BY <2>4, <3>1, Zenon DEF Running
  <2>6. Len(hooked) \in Nat /\ \A i \in 1 .. Len(outbox) : outbox[i] = committed[Len(hooked) + 0 + i]
    BY <1>0, <2>3, <2>4, HookNumbers, Zenon DEF Hooks
  <2>7. item' = committed[Len(hooked) + 1]
    BY <2>4, <2>6
  <2>8. \A i \in DOMAIN outbox' : outbox'[i] = committed[Len(hooked) + 1 + i]
    <3> SUFFICES ASSUME NEW i \in 1 .. (Len(outbox) - 1) PROVE outbox[i + 1] = committed[Len(hooked) + 1 + i]
      BY <2>4, Zenon
    <3>1. i + 1 \in 1 .. Len(outbox) /\ Len(hooked) + 0 + (i + 1) = Len(hooked) + 1 + i
      BY <2>4, <2>6
    <3> QED
      BY <2>6, <3>1, Zenon
  <2>9. /\ Len(hooked) + 1 + Len(outbox') <= Passed
        /\ l_active => Len(hooked) + 1 + Len(outbox') = Passed
    <3>1. /\ Len(hooked) + 0 + Len(outbox) <= Passed
          /\ l_active => Len(hooked) + 0 + Len(outbox) = Passed
      BY <1>0, <2>3, Zenon DEF Hooks
    <3> QED
      BY <2>4, <2>6, <3>1
  <2>10. \A i \in DOMAIN hooked : hooked[i] = committed[i]
    BY <1>0, Zenon DEF Hooks
  <2> QED
    BY <2>1, <2>2, <2>3, <2>5, <2>7, <2>8, <2>9, <2>10, Zenon DEF Hooks
<1>7. CASE EndHook
  <2>1. /\ hooked' = Append(hooked, item) /\ item' = None /\ command' = None
        /\ UNCHANGED <<outbox, committed, commit_order, l_active>>
        /\ consumer' \in {"recv", "drain"}
    BY <1>7, Zenon DEF EndHook
  <2>2. item # None /\ item \in Mutations /\ item = committed[Len(hooked) + 1]
    BY <1>0, <1>7, Zenon DEF EndHook, Hooks, PipelineTypes, ControlTypes
  <2>3. Running = 1 /\ Running' = 0 /\ Passed' = Passed
    BY <2>1, <2>2, Zenon DEF Running, Passed
  <2>4. /\ Len(hooked) \in Nat /\ DOMAIN hooked = 1 .. Len(hooked)
        /\ Len(hooked') = Len(hooked) + 1 /\ DOMAIN hooked' = 1 .. (Len(hooked) + 1)
        /\ \A i \in 1 .. Len(hooked) : hooked'[i] = hooked[i]
        /\ hooked'[Len(hooked) + 1] = item
    BY <1>0, <2>1, <2>2, Appended DEF QueueTypes
  <2>5. \A i \in DOMAIN hooked' : hooked'[i] = committed[i]
    <3>1. \A i \in 1 .. Len(hooked) : hooked[i] = committed[i]
      BY <1>0, <2>4, Zenon DEF Hooks
    <3> QED
      BY <2>2, <2>4, <3>1
  <2>6. Len(hooked') + Running' = Len(hooked) + Running
    BY <2>3, <2>4
  <2>7. /\ Len(hooked) + Running + Len(outbox) <= Passed
        /\ l_active => Len(hooked) + Running + Len(outbox) = Passed
        /\ \A i \in DOMAIN outbox : outbox[i] = committed[Len(hooked) + Running + i]
    BY <1>0, Zenon DEF Hooks
  <2> QED
    BY <2>1, <2>3, <2>5, <2>6, <2>7, Zenon DEF Hooks
<1>8. CASE HookCommandReturns
  <2>1. UNCHANGED <<item, consumer, hooked, outbox, committed, commit_order, l_active>> /\ command' = None
    BY <1>8, Zenon DEF HookCommandReturns
  <2> QED
    BY <1>0, <2>1, Zenon DEF Hooks, Passed, Running
<1>9. CASE BeginConsumerDrain \/ EndConsumerDrain
  <2>1. /\ UNCHANGED <<item, command, hooked, outbox, committed, commit_order>> /\ (l_active' => l_active)
        /\ consumer \in {"recv", "drain"} /\ consumer' \in {"drain", "gone"}
    BY <1>9 DEF BeginConsumerDrain, EndConsumerDrain
  <2> QED
    BY <1>0, <2>1, Zenon DEF Hooks, Passed, Running
<1>10. CASE AbortConsumer
  <2>1. /\ UNCHANGED <<hooked, committed, commit_order, l_active>> /\ outbox' = <<>> /\ ~l_active
        /\ item' = None /\ command' = None /\ consumer' = "gone"
    BY <1>10, Zenon DEF AbortConsumer, Proceed, PipelineInv, Control
  <2>2. Running' = 0 /\ Len(outbox') = 0 /\ DOMAIN outbox' = {} /\ Passed' = Passed
    BY <2>1 DEF Running, Passed
  <2>3. Len(hooked) \in Nat /\ Len(hooked) + 0 + 0 <= Passed
    <3>1. Len(hooked) + Running + Len(outbox) <= Passed
      BY <1>0, Zenon DEF Hooks
    <3> QED
      BY <1>0, <3>1, HookNumbers
  <2>4. \A i \in DOMAIN hooked : hooked[i] = committed[i]
    BY <1>0, Zenon DEF Hooks
  <2> QED
    BY <2>1, <2>2, <2>3, <2>4, Zenon DEF Hooks
<1>11. CASE UNCHANGED pipelineVars
  BY <1>1, <1>11, Zenon DEF pipelineVars
<1>12. CASE \/ BeginShutdown \/ Deadline \/ CloseNormalLane \/ NormalLaneDrained \/ CloseTickets \/ TicketsPublished
            \/ ConsumerJoined \/ CloseAllLanes \/ SealPublications \/ EndpointReleased
  <2>1. UNCHANGED <<item, consumer, command, hooked, outbox, committed, commit_order>> /\ (l_active' => l_active)
    BY <1>12 DEF BeginShutdown, Deadline, CloseNormalLane, NormalLaneDrained, CloseTickets, TicketsPublished,
                 ConsumerJoined, CloseAllLanes, SealPublications, EndpointReleased
  <2> QED
    BY SMTT(30), <1>1, <2>1
<1> QED
  BY <1>2, <1>3, <1>4, <1>5, <1>6, <1>7, <1>8, <1>9, <1>10, <1>11, <1>12, Steps, Zenon DEF ControlStep

-----------------------------------------------------------------------------
LEMMA StepSlots ==
    ASSUME PipelineInv, [PipelineNext]_pipelineVars
    PROVE  Slots'
<1> USE DEF PublicationAt, turnVars, outboxVars, consumerVars, history, mutationVars
<1>0. PipelineTypes /\ MutationTypes /\ QueueTypes /\ Tickets /\ Slots
  BY Zenon DEF PipelineInv, PipelineTypes
<1>1. free_slots \in Nat /\ Len(outbox) \in Nat /\ OutboxCapacity \in Nat
  BY <1>0, MembersOf, MutationsAssumption, Zenon DEF PipelineTypes, ControlTypes, QueueTypes
<1>2. ASSUME UNCHANGED <<free_slots, outbox, receiver, l_active, consumer>>, TurnAt({"permit"})' <=> TurnAt({"permit"})
      PROVE  Slots'
  BY <1>0, <1>2, Zenon DEF Slots
<1>3. ASSUME UNCHANGED <<commit_order, publication>> PROVE TurnAt({"permit"})' <=> TurnAt({"permit"})
  BY <1>3, Zenon DEF TurnAt
<1>4. ASSUME NEW m \in Mutations,
             BeginMutation(m) \/ AcquireAndSequence(m) \/ FailInTurn(m) \/ EndMutation(m) \/ RunHookCommand(m)
      PROVE  Slots'
  <2>1. UNCHANGED <<free_slots, outbox, receiver, l_active, consumer, commit_order, publication>>
    BY <1>4, Zenon DEF BeginMutation, AcquireAndSequence, FailInTurn, EndMutation, RunHookCommand
  <2> QED
    BY SMTT(30), <1>2, <1>3, <2>1
<1>5. ASSUME NEW m \in Mutations, Commit(m) \/ emit(m) PROVE Slots'
  <2>1. publication[m] = "none" /\ m \notin ticketed /\ PrepareEvent(m)
    BY <1>5, Zenon DEF PipelineInv, Stage, Commit, emit
  <2>2. UNCHANGED <<free_slots, outbox, receiver, l_active, consumer>>
    BY <2>1, Zenon DEF PrepareEvent
  <2>3. \/ publication' = [publication EXCEPT ![m] = "prepared"] /\ commit_order' = Append(commit_order, m)
        \/ publication' = [publication EXCEPT ![m] = "prepared"] /\ commit_order' = commit_order
        \/ UNCHANGED <<commit_order, publication>>
    BY <2>1, Zenon DEF PrepareEvent
  <2>4. TurnAt({"permit"})' <=> TurnAt({"permit"})
    BY <1>0, <1>3, <2>1, <2>3, TurnIssued, TurnStays, Zenon
  <2> QED
    BY <1>2, <2>2, <2>4, Zenon
<1>6. ASSUME NEW m \in Mutations, emit_prepared(m) \/ DispatchEffects(m) PROVE Slots'
  <2>1. UNCHANGED <<free_slots, outbox, receiver, l_active, consumer, commit_order>>
    <3>1. emit_prepared(m) => UNCHANGED <<free_slots, outbox, receiver, l_active, consumer, commit_order>>
      BY Zenon DEF emit_prepared
    <3>2. DispatchEffects(m) => UNCHANGED <<free_slots, outbox, receiver, l_active, consumer, commit_order>>
      BY Zenon DEF DispatchEffects
    <3> QED
      BY <1>6, <3>1, <3>2, Zenon
  <2>2. \/ publication' = publication
        \/ /\ publication[m] \notin {"permit"}
           /\ \E state \in {"wait_turn", "send", "done"} : publication' = [publication EXCEPT ![m] = state]
    BY <1>6, Zenon DEF emit_prepared, DispatchEffects
  <2>3. TurnAt({"permit"})' <=> TurnAt({"permit"})
    BY <1>0, <1>3, <2>1, <2>2, TurnStays, Zenon
  <2> QED
    BY SMTT(30), <1>2, <2>1, <2>3
<1>7. ASSUME NEW m \in Mutations, CheckActive(m) \/ Reserve(m) \/ Send(m) PROVE Slots'
  <2>1. publication[m] \in Sending /\ committed' = committed /\ UNCHANGED <<receiver, l_active, consumer>>
    BY <1>7, Zenon DEF CheckActive, Reserve, Send, Sending
  <2>2. commit_order # <<>> /\ commit_order[1] = m
    BY <1>0, <2>1, Zenon DEF Tickets
  <2>3. TurnAt({"permit"}) <=> publication[m] = "permit"
    BY <2>2, Zenon DEF TurnAt
  <2>4. EndPublication(m) => ~TurnAt({"permit"})'
    <3>1. EndPublication(m) => ~TurnAt(Sending)'
      BY <1>0, <2>1, TurnEnds, Zenon
    <3> QED
      BY <3>1, SMTT(30) DEF TurnAt, Sending
  <2>5. ASSUME NEW state, publication' = [publication EXCEPT ![m] = state], commit_order' = commit_order
        PROVE  TurnAt({"permit"})' <=> state = "permit"
    <3>1. publication'[m] = state
      BY <1>0, <2>5, Zenon DEF MutationTypes
    <3> QED
      BY <2>2, <2>5, <3>1, Zenon DEF TurnAt
  <2>6. CASE CheckActive(m)
    <3>1. UNCHANGED <<free_slots, outbox>> /\ publication[m] = "send"
      BY <2>6, Zenon DEF CheckActive
    <3>2. \/ EndPublication(m)
          \/ publication' = [publication EXCEPT ![m] = "reserve"] /\ commit_order' = commit_order
      BY <2>6, Zenon DEF CheckActive
    <3>3. ~TurnAt({"permit"})' /\ ~TurnAt({"permit"})
      BY <2>3, <2>4, <2>5, <3>1, <3>2, Zenon
    <3> QED
      BY <1>2, <2>1, <3>1, <3>3, Zenon
  <2>7. CASE Reserve(m)
    <3>1. outbox' = outbox /\ publication[m] = "reserve"
      BY <2>7, Zenon DEF Reserve
    <3>2. \/ EndPublication(m) /\ free_slots' = free_slots
          \/ /\ publication' = [publication EXCEPT ![m] = "permit"] /\ commit_order' = commit_order
             /\ free_slots' = free_slots - 1
      BY <2>7, Zenon DEF Reserve
    <3>3. \/ ~TurnAt({"permit"})' /\ free_slots' = free_slots
          \/ TurnAt({"permit"})' /\ free_slots' = free_slots - 1
      BY <2>4, <2>5, <3>2, Zenon
    <3>4. ~TurnAt({"permit"})
      BY <2>3, <3>1, Zenon
    <3> QED
      BY <1>0, <1>1, <2>1, <3>1, <3>3, <3>4 DEF Slots
  <2>8. CASE Send(m)
    <3>1. TurnAt({"permit"}) /\ ~TurnAt({"permit"})'
      BY <2>3, <2>4, <2>8, Zenon DEF Send
    <3>2. CASE outbox' = Append(outbox, m) /\ free_slots' = free_slots /\ receiver # "dropped"
      <4>1. Len(outbox') = Len(outbox) + 1
        BY <1>0, <3>2, Appended, Zenon DEF QueueTypes
      <4> QED
        BY <1>0, <1>1, <2>1, <3>1, <3>2, <4>1, SMTT(30) DEF Slots
    <3>3. CASE outbox' = outbox /\ free_slots' = free_slots + 1
      BY <1>0, <1>1, <2>1, <3>1, <3>3 DEF Slots
    <3> QED
      BY <2>8, <3>2, <3>3, Zenon DEF Send
  <2> QED
    BY <1>7, <2>6, <2>7, <2>8, Zenon
<1>8. ASSUME ControlStep \/ UNCHANGED pipelineVars
      PROVE  TurnAt({"permit"})' <=> TurnAt({"permit"})
  <2>1. UNCHANGED <<commit_order, publication>>
    BY <1>8, ControlFrame, Zenon DEF pipelineVars
  <2> QED
    BY SMTT(30), <1>3, <2>1
<1>9. CASE Recv
  <2>1. /\ outbox' = Tail(outbox) /\ outbox # <<>> /\ free_slots' = free_slots + 1 /\ UNCHANGED <<l_active, receiver>>
        /\ consumer \in {"recv", "drain"} /\ consumer' = IF consumer = "recv" THEN "hook" ELSE "drain_hook"
    BY <1>9, Zenon DEF Recv
  <2>2. Len(outbox') = Len(outbox) - 1
    BY <1>0, <2>1, Shortened, Zenon DEF QueueTypes
  <2>3. TurnAt({"permit"})' <=> TurnAt({"permit"})
    BY <1>8, <1>9, Zenon DEF ControlStep
  <2> QED
    BY <1>0, <1>1, <2>1, <2>2, <2>3 DEF Slots
<1>10. CASE EndHook \/ BeginConsumerDrain \/ EndConsumerDrain
  <2>1. /\ UNCHANGED <<outbox, free_slots>>
        /\ \/ consumer = "hook" /\ consumer' = "recv" /\ UNCHANGED <<l_active, receiver>>
           \/ consumer = "drain_hook" /\ consumer' = "drain" /\ UNCHANGED <<l_active, receiver>>
           \/ consumer = "recv" /\ consumer' = "drain" /\ l_active' = FALSE /\ receiver' = "closed"
           \/ consumer = "drain" /\ outbox = <<>> /\ consumer' = "gone" /\ receiver' = "dropped" /\ l_active' = l_active
    BY <1>10, Zenon DEF EndHook, BeginConsumerDrain, EndConsumerDrain
  <2>2. TurnAt({"permit"})' <=> TurnAt({"permit"})
    BY <1>8, <1>10, Zenon DEF ControlStep
  <2> QED
    BY <1>0, <2>1, <2>2, SMTT(30) DEF Slots
<1>11. CASE AbortConsumer
  <2>1. /\ outbox' = <<>> /\ free_slots' = free_slots + Len(outbox) /\ l_active' = l_active /\ ~l_active
        /\ consumer' = "gone" /\ receiver' = "dropped"
    BY <1>11, Zenon DEF AbortConsumer, Proceed, PipelineInv, Control
  <2>2. Len(outbox') = 0
    BY <2>1, Zenon
  <2>3. TurnAt({"permit"})' <=> TurnAt({"permit"})
    BY <1>11, AbortTurn, Zenon
  <2> QED
    BY <1>0, <1>1, <2>1, <2>2, <2>3, SMTT(30) DEF Slots
<1>12. CASE UNCHANGED pipelineVars
  BY <1>2, <1>8, <1>12, Zenon DEF pipelineVars
<1>13. CASE \/ HookCommandReturns \/ BeginShutdown \/ Deadline \/ CloseNormalLane \/ NormalLaneDrained \/ CloseTickets
            \/ TicketsPublished \/ ConsumerJoined \/ CloseAllLanes \/ SealPublications \/ EndpointReleased
  <2>1. UNCHANGED <<free_slots, outbox, receiver, consumer>> /\ (l_active' => l_active)
    BY <1>13 DEF HookCommandReturns, BeginShutdown, Deadline, CloseNormalLane, NormalLaneDrained, CloseTickets, TicketsPublished,
                 ConsumerJoined, CloseAllLanes, SealPublications, EndpointReleased
  <2>2. TurnAt({"permit"})' <=> TurnAt({"permit"})
    BY <1>8, <1>13, SMTT(30) DEF ControlStep
  <2> QED
    BY <1>0, <2>1, <2>2, SMTT(30) DEF Slots
<1> QED
  BY <1>4, <1>5, <1>6, <1>7, <1>9, <1>10, <1>11, <1>12, <1>13, Steps, Zenon DEF ControlStep

-----------------------------------------------------------------------------
(* No mutation and no publication moves the shutdown.                      *)
LEMMA MutationFrame ==
    ASSUME NEW m \in Mutations,
           \/ BeginMutation(m) \/ AcquireAndSequence(m) \/ Commit(m) \/ emit(m) \/ FailInTurn(m) \/ emit_prepared(m)
           \/ EndMutation(m) \/ RunHookCommand(m) \/ DispatchEffects(m) \/ CheckActive(m) \/ Reserve(m) \/ Send(m)
    PROVE  UNCHANGED <<l_phase, l_active, hook_shutdown, consumer, outcome, l_accepting, l_accepting_publications, lane_open,
                       hooked, item>>
<1> USE DEF turnVars, outboxVars, consumerVars, shutdownVars, history
<1> DEFINE Same == UNCHANGED <<l_phase, l_active, hook_shutdown, consumer, outcome, l_accepting, l_accepting_publications,
                               lane_open, hooked, item>>
<1>1. BeginMutation(m) \/ EndMutation(m) \/ RunHookCommand(m) => Same
  BY ZenonT(30) DEF BeginMutation, EndMutation, RunHookCommand
<1>2. AcquireAndSequence(m) \/ FailInTurn(m) \/ emit_prepared(m) => Same
  BY ZenonT(30) DEF AcquireAndSequence, FailInTurn, emit_prepared
<1>3. Commit(m) \/ emit(m) => Same
  BY ZenonT(30) DEF Commit, emit, PrepareEvent
<1>4. DispatchEffects(m) \/ CheckActive(m) \/ Reserve(m) \/ Send(m) => Same
  BY Zenon DEF DispatchEffects, CheckActive, Reserve, Send
<1> QED
  BY SMTT(30), <1>1, <1>2, <1>3, <1>4

LEMMA StepControl ==
    ASSUME PipelineInv, [PipelineNext]_pipelineVars
    PROVE  Control'
<1> USE DEF turnVars, outboxVars, consumerVars, shutdownVars
<1>0. Control
  BY Zenon DEF PipelineInv
<1>1. ASSUME UNCHANGED <<l_phase, l_active, hook_shutdown, consumer, outcome, l_accepting, l_accepting_publications, lane_open>>
      PROVE  Control'
  BY <1>0, <1>1, Zenon DEF Control
<1>2. ASSUME NEW m \in Mutations,
             \/ BeginMutation(m) \/ AcquireAndSequence(m) \/ Commit(m) \/ emit(m) \/ FailInTurn(m) \/ emit_prepared(m)
             \/ EndMutation(m) \/ RunHookCommand(m) \/ DispatchEffects(m) \/ CheckActive(m) \/ Reserve(m) \/ Send(m)
      PROVE  Control'
  BY <1>1, <1>2, MutationFrame, Zenon
<1>3. CASE UNCHANGED pipelineVars \/ HookCommandReturns
  BY <1>1, <1>3, Zenon DEF pipelineVars, HookCommandReturns
<1>4. CASE Recv \/ EndHook
  <2>1. /\ UNCHANGED <<l_phase, l_active, hook_shutdown, outcome, l_accepting, l_accepting_publications, lane_open>>
        /\ \/ consumer \in {"recv", "hook"} /\ consumer' \in {"recv", "hook"}
           \/ consumer \in {"drain", "drain_hook"}
    BY <1>4, Zenon DEF Recv, EndHook
  <2> QED
    BY <1>0, <2>1, Zenon DEF Control
<1>5. CASE BeginConsumerDrain \/ EndConsumerDrain
  <2>1. /\ UNCHANGED <<l_phase, hook_shutdown, outcome, l_accepting, l_accepting_publications, lane_open>>
        /\ l_active' => l_active
        /\ (consumer = "recv" /\ hook_shutdown) \/ consumer = "drain"
    BY <1>5, SMTT(30) DEF BeginConsumerDrain, EndConsumerDrain
  <2> QED
    BY <1>0, <2>1, Zenon DEF Control
<1>6. CASE BeginShutdown \/ CloseNormalLane \/ NormalLaneDrained \/ CloseTickets
  <2>1. /\ UNCHANGED <<l_active, hook_shutdown, consumer, outcome, l_accepting_publications>>
        /\ l_accepting' => l_accepting
        /\ l_phase' \in {"wait_tickets", "join_consumer"} => ~l_accepting'
        /\ \/ /\ l_phase \in {"open", "quiesce", "drain_normal", "close_tickets"}
              /\ l_phase' \in {"quiesce", "drain_normal", "close_tickets", "wait_tickets"}
           \/ l_phase \in Forced /\ l_phase' \in Forced
    BY <1>6 DEF BeginShutdown, CloseNormalLane, NormalLaneDrained, CloseTickets, Proceed, Forced
  <2> QED
    BY <1>0, <2>1, SMTT(30) DEF Control, Early, Forced, Final, Sealed
<1>7. CASE TicketsPublished
  <2>1. /\ UNCHANGED <<l_active, consumer, l_accepting_publications, l_accepting, lane_open>>
        /\ \/ l_phase = "wait_tickets" /\ l_phase' = "join_consumer" /\ outcome' = outcome
           \/ l_phase = "forced_wait_tickets" /\ l_phase' = "final_close" /\ outcome' = "Forced"
    BY <1>7, Zenon DEF TicketsPublished, Proceed
  <2> QED
    BY <1>0, <2>1, Zenon DEF Control, Early, Forced, Final, Sealed
<1>8. CASE ConsumerJoined
  <2>1. /\ UNCHANGED <<l_active, consumer, l_accepting_publications, l_accepting, lane_open>>
        /\ l_phase = "join_consumer" /\ l_phase' = "final_close" /\ outcome' = "Drained" /\ consumer = "gone"
    BY <1>8, Zenon DEF ConsumerJoined, Proceed
  <2> QED
    BY <1>0, <2>1, Zenon DEF Control, Early, Forced, Final, Sealed
<1>9. CASE Deadline
  <2>1. /\ UNCHANGED <<hook_shutdown, consumer, outcome, l_accepting_publications, l_accepting, lane_open>>
        /\ l_phase \in Early \cup {"join_consumer"} /\ l_phase' = "deadline" /\ l_active' = FALSE
    BY <1>9, Zenon DEF Deadline, Early
  <2> QED
    BY <1>0, <2>1, Zenon DEF Control, Early, Forced, Final, Sealed
<1>10. CASE AbortConsumer
  <2>1. /\ UNCHANGED <<hook_shutdown, l_active, outcome, l_accepting_publications, l_accepting, lane_open>>
        /\ l_phase = "deadline" /\ l_phase' = "aborted" /\ consumer' = "gone"
    BY <1>10, Zenon DEF AbortConsumer, Proceed
  <2> QED
    BY <1>0, <2>1, Zenon DEF Control, Early, Forced, Final, Sealed
<1>11. CASE CloseAllLanes
  <2>1. /\ UNCHANGED <<hook_shutdown, l_active, consumer, outcome, l_accepting_publications, l_accepting>>
        /\ l_phase = "final_close" /\ l_phase' = "final_drain"
    BY <1>11, Zenon DEF CloseAllLanes, Proceed
  <2>2. ~lane_open'["Normal"] /\ ~lane_open'["LifecycleHook"]
    BY <1>11, Zenon DEF CloseAllLanes, PipelineInv, PipelineTypes, ControlTypes
  <2> QED
    BY <1>0, <2>1, <2>2, Zenon DEF Control, Early, Forced, Final, Sealed
<1>12. CASE SealPublications \/ EndpointReleased
  <2>1. /\ UNCHANGED <<hook_shutdown, l_active, consumer, outcome, lane_open>>
        /\ l_phase \in {"final_drain", "sealing"} /\ l_phase' \in Sealed
        /\ l_accepting' => l_accepting
    BY <1>12 DEF SealPublications, EndpointReleased, Proceed, Sealed
  <2> QED
    BY <1>0, <2>1, Zenon DEF Control, Early, Forced, Final, Sealed
<1> QED
  BY <1>2, <1>3, <1>4, <1>5, <1>6, <1>7, <1>8, <1>9, <1>10, <1>11, <1>12, Steps, Zenon DEF ControlStep

LEMMA StepSettled ==
    ASSUME PipelineInv, [PipelineNext]_pipelineVars
    PROVE  Settled'
<1> USE DEF MutationAt, PublicationAt, turnVars, outboxVars, consumerVars, shutdownVars
<1> DEFINE Over == {"free", "refused", "done"}
<1>0. /\ MutationTypes /\ post_commit \in Seq(Mutations) /\ Control /\ Settled
      /\ lane_open \in [{"Normal", "LifecycleHook"} -> BOOLEAN]
  BY Zenon DEF PipelineInv, PipelineTypes, QueueTypes, ControlTypes
<1>1. RequestMutations \subseteq Mutations /\ RequestMutations \cap ProducerMutations = {} /\ RequestMutations \cap HookMutations = {}
  BY MutationsAssumption, Zenon DEF Mutations
(* A mutation moves: a request only before its drain is over. *)
<1>2. ASSUME NEW m \in Mutations, NEW state, mutation' = [mutation EXCEPT ![m] = state], l_phase' = l_phase,
             \/ m \notin RequestMutations \/ l_phase \in {"open", "quiesce"} \/ mutation[m] \notin Over \/ state \in Over
      PROVE  l_phase' \notin {"open", "quiesce"} => \A r \in RequestMutations : mutation'[r] \in Over
  <2>1. \A r \in RequestMutations : mutation'[r] = (IF r = m THEN state ELSE mutation[r])
    BY <1>0, <1>1, <1>2, Zenon DEF MutationTypes
  <2> QED
    BY <1>0, <1>2, <2>1, Zenon DEF Settled
<1>3. ASSUME NEW m \in Mutations, BeginMutation(m) \/ EndMutation(m) \/ RunHookCommand(m) PROVE Settled'
  <2>1. /\ UNCHANGED <<l_phase, post_commit, publication, discarded>>
        /\ \/ mutation' = [mutation EXCEPT ![m] = "done"]
           \/ /\ mutation' = [mutation EXCEPT ![m] = "acquiring"]
              /\ m \in ProducerMutations \/ m \in HookMutations \/ l_phase = "open"
    BY <1>3, SMTT(30) DEF BeginMutation, EndMutation, RunHookCommand
  <2>2. l_phase' \notin {"open", "quiesce"} => \A r \in RequestMutations : mutation'[r] \in Over
    BY <1>1, <1>2, <2>1, Zenon
  <2> QED
    BY <1>0, <2>1, <2>2, SMTT(30) DEF Settled, Pending
<1>4. ASSUME NEW m \in Mutations, AcquireAndSequence(m) PROVE Settled'
  <2>1. /\ UNCHANGED <<l_phase, publication, discarded>> /\ mutation[m] = "acquiring"
        /\ \E state : mutation' = [mutation EXCEPT ![m] = state]
        /\ ~lane_open[Lane(m)] => post_commit' = post_commit
    BY <1>4, Zenon DEF AcquireAndSequence
  <2>2. l_phase' \notin {"open", "quiesce"} => \A r \in RequestMutations : mutation'[r] \in Over
    BY <1>2, <2>1, Zenon
  <2>3. l_phase \in Sealed => post_commit' = post_commit
    BY <1>0, <2>1, Zenon DEF Control, Lane
  <2> QED
    BY <1>0, <2>1, <2>2, <2>3, Zenon DEF Settled, Pending
<1>5. ASSUME NEW m \in Mutations, Commit(m) \/ emit(m) \/ FailInTurn(m) PROVE Settled'
  <2>1. \/ mutation[m] = "waiting"
        \/ m \in RequestMutations \cup HookMutations /\ mutation[m] = "acquiring"
    BY <1>5, Zenon DEF Commit, emit, FailInTurn
  <2>2. mutation[m] = "waiting" => post_commit # <<>>
    BY <1>0, MembersOf DEF PipelineInv, Stage
  <2>7. m \in HookMutations /\ mutation[m] = "acquiring" => l_phase \notin Sealed
    <3>1. m \in HookMutations /\ mutation[m] = "acquiring" => command # None
      BY MutationsAssumption, Zenon DEF PipelineInv, Commands
    <3> QED
      BY <1>0, <3>1, Zenon DEF PipelineInv, Hooks, Control, Final
  <2>3. l_phase \notin Sealed
    BY <1>0, <2>1, <2>2, <2>7, Zenon DEF Settled, Sealed
  <2>4. l_accepting_publications
    BY <1>0, <2>3, SMTT(30) DEF Control
  <2>5. l_phase' = l_phase /\ discarded' = discarded /\ \E state : mutation' = [mutation EXCEPT ![m] = state]
    BY <1>5, <2>4, Zenon DEF Commit, emit, FailInTurn, PrepareEvent
  <2>6. l_phase' \notin {"open", "quiesce"} => \A r \in RequestMutations : mutation'[r] \in Over
    BY <1>2, <2>1, <2>5, Zenon
  <2> QED
    BY <1>0, <2>3, <2>5, <2>6, Zenon DEF Settled, Sealed
<1>6. ASSUME NEW m \in Mutations, emit_prepared(m) PROVE Settled'
  <2>1. /\ UNCHANGED <<l_phase, discarded>> /\ mutation[m] = "committed" /\ mutation' = [mutation EXCEPT ![m] = "publishing"]
        /\ post_commit' = LeaveTurn(post_commit, m)
        /\ publication[m] = "prepared" \/ publication' = publication
    BY <1>6, Zenon DEF emit_prepared
  <2>2. l_phase' \notin {"open", "quiesce"} => \A r \in RequestMutations : mutation'[r] \in Over
    BY <1>2, <2>1, Zenon
  <2>3. post_commit = <<>> => post_commit' = <<>>
    BY <2>1, Zenon DEF LeaveTurn
  <2>4. l_phase = "stopped" => publication' = publication
    BY <1>0, <2>1, Zenon DEF Settled, Pending
  <2> QED
    BY <1>0, <2>1, <2>2, <2>3, <2>4, Zenon DEF Settled, Pending
<1>7. ASSUME NEW m \in Mutations, DispatchEffects(m) \/ CheckActive(m) \/ Reserve(m) \/ Send(m) PROVE Settled'
  <2>1. UNCHANGED <<l_phase, mutation, post_commit, discarded>> /\ publication[m] \notin {"none", "done"}
    BY <1>7, Zenon DEF DispatchEffects, CheckActive, Reserve, Send
  <2>2. l_phase # "stopped"
    BY <1>0, <2>1, Zenon DEF Settled, Pending
  <2> QED
    BY <1>0, <2>1, <2>2, Zenon DEF Settled
<1>8. ASSUME UNCHANGED <<mutation, post_commit, publication, discarded>>,
             l_phase' \in {"open", "quiesce"} \/ l_phase \notin {"open", "quiesce"} \/ \A r \in RequestMutations : mutation[r] \in Over,
             l_phase' \in Sealed => l_phase \in Sealed \/ post_commit = <<>>,
             l_phase' = "stopped" => l_phase = "stopped" \/ Pending = {}
      PROVE  Settled'
  BY <1>0, <1>8, Zenon DEF Settled, Pending
<1>9. ASSUME UNCHANGED <<mutation, post_commit, publication, discarded, l_phase>> PROVE Settled'
  BY <1>0, <1>9, Zenon DEF Settled, Pending
<1>10. CASE Recv \/ HookCommandReturns \/ BeginConsumerDrain \/ EndConsumerDrain \/ EndHook
  <2>1. l_phase' = l_phase
    BY <1>10, Zenon DEF Recv, HookCommandReturns, BeginConsumerDrain, EndConsumerDrain, EndHook
  <2>2. UNCHANGED <<mutation, post_commit, publication, discarded>>
    BY <1>10, ControlFrame, Zenon DEF ControlStep
  <2> QED
    BY SMTT(30), <1>9, <2>1, <2>2
<1>11. CASE \/ BeginShutdown \/ Deadline \/ CloseNormalLane \/ NormalLaneDrained \/ CloseTickets \/ TicketsPublished
            \/ ConsumerJoined \/ CloseAllLanes
  <2>1. /\ l_phase' \notin Sealed
        /\ l_phase' \in {"open", "quiesce"} \/ l_phase \notin {"open", "quiesce"} \/ \A r \in RequestMutations : mutation[r] \in Over
    BY <1>11, Zenon DEF BeginShutdown, Deadline, CloseNormalLane, NormalLaneDrained, CloseTickets, TicketsPublished, ConsumerJoined,
                 CloseAllLanes, Proceed, Sealed
  <2>2. UNCHANGED <<mutation, post_commit, publication, discarded>>
    BY <1>11, ControlFrame, Zenon DEF ControlStep
  <2> QED
    BY <1>8, <2>1, <2>2, SMTT(30) DEF Sealed
<1>12. CASE SealPublications \/ EndpointReleased
  <2>1. /\ l_phase \in {"final_drain", "sealing"}
        /\ l_phase = "sealing" \/ (Sequenced = {} /\ l_phase' = "sealing")
        /\ l_phase' = "stopped" => Pending = {}
    BY <1>12, Zenon DEF SealPublications, EndpointReleased, Proceed
  <2>2. Sequenced = {} => post_commit = <<>>
    BY <1>0, NoMembers, Zenon DEF Sequenced
  <2>3. UNCHANGED <<mutation, post_commit, publication, discarded>>
    BY <1>12, ControlFrame, Zenon DEF ControlStep
  <2> QED
    BY <1>8, <2>1, <2>2, <2>3, Zenon DEF Sealed
<1>13. CASE AbortConsumer
  <2>1. /\ UNCHANGED <<post_commit, discarded>> /\ l_phase = "deadline" /\ l_phase' = "aborted"
    BY <1>13, Zenon DEF AbortConsumer, Proceed
  <2>2. \A r \in RequestMutations : mutation'[r] \in Over
    <3>1. \A r \in RequestMutations : mutation[r] \in Over
      BY <1>0, <2>1, Zenon DEF Settled
    <3>2. \A r \in RequestMutations : r \notin CutByAbort
      BY <1>1, Zenon DEF CutByAbort
    <3> QED
      BY <1>1, <1>13, <3>1, <3>2, AbortFrame, Zenon
  <2> QED
    BY <1>0, <2>1, <2>2, Zenon DEF Settled, Sealed
<1>14. CASE UNCHANGED pipelineVars
  BY <1>9, <1>14, Zenon DEF pipelineVars, mutationVars
<1> QED
  BY <1>3, <1>4, <1>5, <1>6, <1>7, <1>10, <1>11, <1>12, <1>13, <1>14, Steps, Zenon DEF ControlStep

LEMMA StepAllHooked ==
    ASSUME PipelineInv, [PipelineNext]_pipelineVars
    PROVE  AllHooked'
<1> USE DEF turnVars, outboxVars, consumerVars, shutdownVars, history
<1> DEFINE Total == Len(hooked) + Running + Len(outbox)
<1>0. /\ PipelineTypes /\ QueueTypes /\ Tickets /\ Hooks /\ Control /\ AllHooked
      /\ \A m \in Mutations : Stage(m)
  BY Zenon DEF PipelineInv, PipelineTypes
<1>1. None # "Drained"
  BY MutationsAssumption, Zenon
<1>2. ASSUME UNCHANGED <<commit_order, committed, hooked, item, outbox>>,
             l_phase' = "join_consumer" \/ outcome' = "Drained" => l_phase = "join_consumer" \/ outcome = "Drained"
      PROVE  AllHooked'
  BY <1>0, <1>2, Zenon DEF AllHooked, Running
<1>3. ASSUME NEW m \in Mutations,
             \/ BeginMutation(m) \/ AcquireAndSequence(m) \/ FailInTurn(m) \/ emit_prepared(m)
             \/ EndMutation(m) \/ RunHookCommand(m) \/ DispatchEffects(m)
      PROVE  AllHooked'
  <2>1. UNCHANGED <<commit_order, committed, outbox>>
    BY <1>3, Zenon DEF BeginMutation, AcquireAndSequence, FailInTurn, emit_prepared, EndMutation, RunHookCommand, DispatchEffects
  <2>2. UNCHANGED <<l_phase, outcome, hooked, item>>
    BY <1>3, MutationFrame, Zenon
  <2> QED
    BY SMTT(30), <1>2, <2>1, <2>2
<1>4. ASSUME NEW m \in Mutations, Commit(m) \/ emit(m) PROVE AllHooked'
  <2>1. UNCHANGED <<l_phase, outcome, hooked, item>>
    BY SMTT(30), <1>4, MutationFrame
  <2>2. outbox' = outbox /\ (~l_accepting => UNCHANGED <<commit_order, committed>>)
    BY <1>4, Zenon DEF Commit, emit, PrepareEvent
  <2>3. CASE l_phase = "join_consumer" \/ outcome = "Drained"
    <3>1. ~l_accepting
      BY <1>0, <2>3, Zenon DEF Control
    <3> QED
      BY <1>2, <2>1, <2>2, <3>1, Zenon
  <2>4. CASE ~(l_phase = "join_consumer" \/ outcome = "Drained")
    BY <2>1, <2>4, Zenon DEF AllHooked
  <2> QED
    BY <2>3, <2>4, Zenon
<1>5. ASSUME NEW m \in Mutations, CheckActive(m) \/ Reserve(m) \/ Send(m) PROVE AllHooked'
  <2>1. UNCHANGED <<l_phase, outcome>>
    BY SMTT(30), <1>5, MutationFrame
  <2>2. publication[m] \in Sending
    BY <1>5, Zenon DEF CheckActive, Reserve, Send, Sending
  <2>3. commit_order # <<>>
    BY <1>0, <2>2, Zenon DEF Tickets
  <2> QED
    BY <1>0, <2>1, <2>3, Zenon DEF AllHooked
<1>6. CASE Recv \/ EndHook
  <2>1. UNCHANGED <<l_phase, outcome, commit_order, committed>>
    BY <1>6, Zenon DEF Recv, EndHook
  <2>2. Len(hooked) \in Nat /\ Len(outbox) \in Nat /\ Running \in {0, 1} /\ (item = None <=> Running = 0)
    BY <1>0, HookNumbers, Zenon
  <2>3. CASE Recv
    <3>1. item = None /\ item' = Head(outbox) /\ outbox' = Tail(outbox) /\ outbox # <<>> /\ hooked' = hooked
      BY <1>0, <2>3, Zenon DEF Recv, Hooks
    <3>2. Len(outbox') = Len(outbox) - 1 /\ item' \in Mutations
      BY <1>0, <3>1, Shortened DEF QueueTypes
    <3>3. item' # None
      BY <3>2, MutationsAssumption, Zenon DEF Mutations
    <3>4. Running = 0 /\ Running' = 1
      BY <3>1, <3>3, Zenon DEF Running
    <3>5. Len(hooked') + Running' + Len(outbox') = Total
      BY <2>2, <3>1, <3>2, <3>4
    <3> QED
      BY <1>0, <2>1, <3>5, SMTT(30) DEF AllHooked
  <2>4. CASE EndHook
    <3>1. item # None /\ item' = None /\ hooked' = Append(hooked, item) /\ outbox' = outbox /\ item \in Mutations
      BY <1>0, <2>4, SMTT(30) DEF EndHook, Hooks, PipelineTypes, ControlTypes
    <3>2. Len(hooked') = Len(hooked) + 1
      BY <1>0, <3>1, Appended, Zenon DEF QueueTypes
    <3>3. Running = 1 /\ Running' = 0
      BY <3>1, Zenon DEF Running
    <3>4. Len(hooked') + Running' + Len(outbox') = Total
      BY <2>2, <3>1, <3>2, <3>3
    <3> QED
      BY <1>0, <2>1, <3>4, Zenon DEF AllHooked
  <2> QED
    BY <1>6, <2>3, <2>4, Zenon
<1>7. CASE HookCommandReturns \/ BeginConsumerDrain \/ EndConsumerDrain \/ UNCHANGED pipelineVars
  <2>1. UNCHANGED <<commit_order, committed, hooked, item, outbox, l_phase, outcome>>
    BY <1>7, Zenon DEF HookCommandReturns, BeginConsumerDrain, EndConsumerDrain, pipelineVars
  <2> QED
    BY SMTT(30), <1>2, <2>1
<1>8. CASE TicketsPublished
  <2>1. UNCHANGED <<commit_order, committed, hooked, item, outbox>> /\ Pending = {}
    BY <1>8, Zenon DEF TicketsPublished
  <2>2. CASE l_phase = "wait_tickets"
    <3>1. \A m \in Members(commit_order) : m \in ticketed /\ m \in Mutations /\ publication[m] # "done"
      BY <1>0, Outstanding, MembersOf, Zenon DEF Tickets, QueueTypes
    <3>2. \A m \in Mutations : m \in ticketed => publication[m] # "none"
      BY <1>0, Zenon DEF Stage, PipelineTypes, MutationTypes
    <3>3. Members(commit_order) = {}
      BY <2>1, <3>1, <3>2, Zenon DEF Pending
    <3>4. commit_order = <<>>
      BY <1>0, <3>3, NoMembers, Zenon DEF QueueTypes
    <3>5. Passed = Len(committed)
      BY <1>0, <3>4, Outstanding
    <3>6. Total = Passed
      BY <1>0, <2>2, Zenon DEF Control, Hooks, Early
    <3> QED
      BY <2>1, <3>4, <3>5, <3>6, SMTT(30) DEF AllHooked, Running
  <2>3. CASE l_phase # "wait_tickets"
    BY <1>2, <1>8, <2>1, <2>3, Zenon DEF TicketsPublished, Proceed
  <2> QED
    BY <2>2, <2>3, Zenon
<1>9. CASE ConsumerJoined
  BY <1>2, <1>9, Zenon DEF ConsumerJoined, Proceed
<1>10. CASE Deadline \/ AbortConsumer
  <2>1. l_phase' \in {"deadline", "aborted"} /\ outcome' = outcome
        /\ l_phase \in Early \cup {"join_consumer", "deadline"} \cup Forced
    BY <1>10, Zenon DEF Deadline, AbortConsumer, Proceed, Early
  <2>2. outcome' = None
    BY <1>0, <2>1, Zenon DEF Control
  <2> QED
    BY <1>1, <2>1, <2>2, SMTT(30) DEF AllHooked
<1>11. CASE \/ BeginShutdown \/ CloseNormalLane \/ NormalLaneDrained \/ CloseTickets
            \/ CloseAllLanes \/ SealPublications \/ EndpointReleased
  <2>1. UNCHANGED <<commit_order, committed, hooked, item, outbox, outcome>> /\ l_phase' # "join_consumer"
    BY <1>11, Zenon DEF BeginShutdown, CloseNormalLane, NormalLaneDrained, CloseTickets, CloseAllLanes, SealPublications,
                 EndpointReleased, Proceed
  <2> QED
    BY SMTT(30), <1>2, <2>1
<1> QED
  BY <1>3, <1>4, <1>5, <1>6, <1>7, <1>8, <1>9, <1>10, <1>11, Steps, Zenon DEF ControlStep

(* A mutation that is not cut moves, and is not cut by it.                  *)
LEMMA CommandsStay ==
    ASSUME MutationTypes, Commands, NEW m \in Mutations, NEW state, mutation' = [mutation EXCEPT ![m] = state],
           mutation[m] # "cut", state # "cut", UNCHANGED <<l_phase, outcome>>,
           \A k \in HookMutations : k = command => k = command',
           \A k \in Sequenced : k # m => k \in Sequenced',
           m \in HookMutations /\ state = "acquiring" => m = command',
           m \in HookMutations /\ state = "committed" => m = command' \/ m \in Sequenced'
    PROVE  Commands'
<1>1. \A k \in Mutations : mutation'[k] = IF k = m THEN state ELSE mutation[k]
  BY Zenon DEF MutationTypes
<1>2. \A k \in HookMutations : k \in Mutations
  BY Zenon DEF Mutations
<1>3. Cut' = Cut
  BY <1>1, Zenon DEF Cut
<1>4. ASSUME NEW k \in HookMutations
      PROVE  /\ mutation'[k] = "acquiring" => k = command'
             /\ mutation'[k] = "committed" => k = command' \/ k \in Sequenced'
  <2>1. CASE k = m
    BY <1>1, <1>2, <2>1, Zenon
  <2>2. CASE k # m
    <3>1. mutation'[k] = mutation[k]
      BY <1>1, <1>2, <2>2, Zenon
    <3> QED
      BY <2>2, <3>1, Zenon DEF Commands
  <2> QED
    BY <2>1, <2>2, Zenon
<1> QED
  BY <1>3, <1>4, Zenon DEF Commands

LEMMA StepCommands ==
    ASSUME PipelineInv, [PipelineNext]_pipelineVars
    PROVE  Commands'
<1> USE DEF MutationAt, turnVars, outboxVars, consumerVars, shutdownVars
<1>0. /\ MutationTypes /\ post_commit \in Seq(Mutations) /\ Commands /\ Control /\ Positions
      /\ \A m \in Mutations : Stage(m)
  BY Zenon DEF PipelineInv, PipelineTypes, QueueTypes
<1>1. None \notin HookMutations /\ HookMutations \cap (RequestMutations \cup ProducerMutations) = {}
      /\ None # "Drained" /\ None # "Forced"
  BY MutationsAssumption, Zenon
<1>2. ASSUME UNCHANGED <<mutation, post_commit, command>>,
             Cut # {} /\ (l_phase \in Forced \/ outcome = "Forced") => l_phase' \in Forced \/ outcome' = "Forced"
      PROVE  Commands'
  <2>1. Cut' = Cut /\ Sequenced' = Sequenced
    BY <1>2, Zenon DEF Cut, Sequenced, Members
  <2> QED
    BY <1>0, <1>2, <2>1, Zenon DEF Commands
<1>3. ASSUME NEW m \in Mutations, BeginMutation(m) \/ EndMutation(m) \/ RunHookCommand(m) PROVE Commands'
  <2>1. UNCHANGED <<post_commit, l_phase, outcome>> /\ \A k \in HookMutations : k = command => k = command'
    BY <1>1, <1>3, SMTT(30) DEF BeginMutation, EndMutation, RunHookCommand
  <2>2. \/ mutation' = [mutation EXCEPT ![m] = "done"] /\ mutation[m] = "publishing"
        \/ /\ mutation' = [mutation EXCEPT ![m] = "acquiring"] /\ mutation[m] = "free"
           /\ m \in HookMutations => m = command'
    BY <1>1, <1>3, SMTT(30) DEF BeginMutation, EndMutation, RunHookCommand
  <2>3. Sequenced' = Sequenced
    BY <2>1, Zenon DEF Sequenced, Members
  <2> QED
    BY <1>0, <2>1, <2>2, <2>3, CommandsStay, Zenon
<1>4. ASSUME NEW m \in Mutations, AcquireAndSequence(m) PROVE Commands'
  <2>1. /\ UNCHANGED <<command, l_phase, outcome>> /\ mutation[m] = "acquiring"
        /\ \/ mutation' = [mutation EXCEPT ![m] = "waiting"] /\ post_commit' = Append(post_commit, m)
           \/ mutation' = [mutation EXCEPT ![m] = "refused"] /\ post_commit' = post_commit
    BY <1>4, Zenon DEF AcquireAndSequence
  <2>2. Members(Append(post_commit, m)) = Members(post_commit) \cup {m}
    BY <1>0, Appended
  <2>3. \A k \in Sequenced : k \in Sequenced'
    <3>1. Sequenced = Members(post_commit) /\ Sequenced' = Members(post_commit')
      BY Zenon DEF Sequenced, Members
    <3> QED
      BY <2>1, <2>2, <3>1, Zenon
  <2> QED
    BY <1>0, <2>1, <2>3, CommandsStay, Zenon
<1>5. ASSUME NEW m \in Mutations, Commit(m) \/ emit(m) PROVE Commands'
  <2>1. /\ UNCHANGED <<command, l_phase, outcome, post_commit>> /\ mutation' = [mutation EXCEPT ![m] = "committed"]
        /\ mutation[m] \in {"waiting", "acquiring"}
    BY <1>5, Zenon DEF Commit, emit, PrepareEvent
  <2>2. Sequenced' = Sequenced
    BY <2>1, Zenon DEF Sequenced, Members
  <2>3. m \in HookMutations => m = command' \/ m \in Sequenced'
    BY <1>0, <2>1, <2>2, Zenon DEF Commands, Stage, Sequenced
  <2> QED
    BY <1>0, <2>1, <2>2, <2>3, CommandsStay, Zenon
<1>6. ASSUME NEW m \in Mutations, FailInTurn(m) \/ emit_prepared(m) PROVE Commands'
  <2>1. /\ UNCHANGED <<command, l_phase, outcome>> /\ mutation[m] \in {"waiting", "committed"}
        /\ \E state \in {"refused", "publishing"} : mutation' = [mutation EXCEPT ![m] = state]
        /\ \/ post_commit' = Tail(post_commit) /\ mutation[m] = "waiting" /\ post_commit[1] = m
           \/ post_commit' = LeaveTurn(post_commit, m)
    BY <1>6, Zenon DEF FailInTurn, emit_prepared
  <2>2. mutation[m] = "waiting" => post_commit # <<>>
    BY <1>0, MembersOf DEF Stage
  <2>3. post_commit' = LeaveTurn(post_commit, m)
    BY <2>1, <2>2, Zenon DEF LeaveTurn
  <2>4. \A k \in Sequenced : k # m => k \in Sequenced'
    <3>1. CASE post_commit # <<>> /\ post_commit[1] = m
      <4>1. Members(Tail(post_commit)) = Members(post_commit) \ {m}
        BY <1>0, <3>1, Shortened, Zenon DEF Positions
      <4> QED
        BY <2>3, <3>1, <4>1, Zenon DEF Sequenced, Members, LeaveTurn
    <3>2. CASE ~(post_commit # <<>> /\ post_commit[1] = m)
      BY <2>3, <3>2, Zenon DEF Sequenced, Members, LeaveTurn
    <3> QED
      BY <3>1, <3>2, Zenon
  <2> QED
    BY <1>0, <2>1, <2>4, CommandsStay, Zenon
<1>7. ASSUME NEW m \in Mutations, DispatchEffects(m) \/ CheckActive(m) \/ Reserve(m) \/ Send(m) PROVE Commands'
  <2>1. UNCHANGED <<mutation, post_commit, command, l_phase, outcome>>
    BY <1>7, Zenon DEF DispatchEffects, CheckActive, Reserve, Send
  <2> QED
    BY <1>2, <2>1, Zenon
<1>8. CASE HookCommandReturns
  <2>1. UNCHANGED <<mutation, post_commit, l_phase, outcome>> /\ mutation[command] \in {"done", "refused"}
    BY <1>8, Zenon DEF HookCommandReturns, mutationVars
  <2>2. Cut' = Cut /\ Sequenced' = Sequenced
    BY <2>1, Zenon DEF Cut, Sequenced, Members
  <2>3. \A k \in HookMutations : mutation[k] \in {"acquiring", "committed"} => k # command
    BY <2>1, Zenon
  <2> QED
    BY <1>0, <2>1, <2>2, <2>3, Zenon DEF Commands
<1>9. CASE AbortConsumer
  <2>1. l_phase = "deadline" /\ l_phase' = "aborted" /\ command' = None /\ post_commit' = post_commit
    BY <1>9, Zenon DEF AbortConsumer, Proceed
  <2>2. Cut = {}
    BY <1>0, <1>1, <2>1, SMTT(30) DEF Commands, Control, Forced
  <2>3. \A k \in HookMutations : k \in Mutations
    BY Zenon DEF Mutations
  <2>4. \A k \in Mutations : k \in Cut' <=> k \in CutByAbort
    <3>1. ASSUME NEW k \in Mutations, k \notin CutByAbort PROVE mutation'[k] # "cut"
      <4>1. mutation[k] # "cut"
        BY <2>2, Zenon DEF Cut
      <4> QED
        BY <1>9, <3>1, <4>1, AbortFrame, Zenon
    <3>2. ASSUME NEW k \in CutByAbort PROVE mutation'[k] = "cut"
      BY <1>9, <3>2, AbortFrame, Zenon
    <3> QED
      BY <3>1, <3>2, Zenon DEF Cut
  <2>5. Cut' = CutByAbort
    BY <2>3, <2>4, Zenon DEF Cut, CutByAbort
  <2>6. CutByAbort \subseteq HookMutations /\ \A m, k \in CutByAbort : m = k
    BY Zenon DEF CutByAbort
  <2>7. ASSUME NEW k \in HookMutations
        PROVE  /\ mutation'[k] # "acquiring"
               /\ mutation'[k] = "committed" => k \in Sequenced'
    <3>1. Sequenced' = Sequenced
      BY <2>1, Zenon DEF Sequenced, Members
    <3>2. CASE k \in CutByAbort
      BY <1>9, <3>2, AbortFrame, Zenon
    <3>3. CASE k \notin CutByAbort
      <4>1. \/ mutation'[k] = mutation[k]
            \/ mutation[k] = "acquiring" /\ mutation'[k] = "refused"
        BY <1>9, <2>3, <3>3, AbortFrame, Zenon
      <4>2. mutation'[k] # "acquiring"
        BY <1>0, <1>9, <2>3, <4>1, Zenon DEF Commands, AbortConsumer
      <4>3. mutation[k] = "committed" => k \in Sequenced
        BY <1>0, <3>3, Zenon DEF Commands, CutByAbort
      <4> QED
        BY <3>1, <4>1, <4>2, <4>3, Zenon
    <3> QED
      BY <3>2, <3>3, Zenon
  <2> QED
    BY <2>1, <2>5, <2>6, <2>7, Zenon DEF Commands, Forced
<1>10. CASE Recv \/ EndHook \/ BeginConsumerDrain \/ EndConsumerDrain
  <2>1. UNCHANGED <<command, l_phase, outcome>>
    BY <1>10, Zenon DEF Recv, EndHook, BeginConsumerDrain, EndConsumerDrain
  <2>2. UNCHANGED <<mutation, post_commit>>
    BY <1>10, ControlFrame, Zenon DEF ControlStep
  <2> QED
    BY <1>2, <2>1, <2>2, Zenon
<1>11. CASE \/ BeginShutdown \/ Deadline \/ CloseNormalLane \/ NormalLaneDrained \/ CloseTickets \/ TicketsPublished
            \/ ConsumerJoined \/ CloseAllLanes \/ SealPublications \/ EndpointReleased
  <2>1. UNCHANGED <<mutation, post_commit>>
    BY <1>11, ControlFrame, Zenon DEF ControlStep
  <2>2. command' = command
    BY <1>11, Zenon DEF BeginShutdown, Deadline, CloseNormalLane, NormalLaneDrained, CloseTickets, TicketsPublished,
                        ConsumerJoined, CloseAllLanes, SealPublications, EndpointReleased
  <2>3. l_phase \in Forced \/ outcome = "Forced" => l_phase' \in Forced \/ outcome' = "Forced"
    <3>1. CASE CloseNormalLane \/ NormalLaneDrained \/ CloseTickets
      BY <3>1 DEF CloseNormalLane, NormalLaneDrained, CloseTickets, Proceed, Forced
    <3>2. CASE TicketsPublished
      BY <3>2 DEF TicketsPublished, Proceed, Forced
    <3>3. CASE ConsumerJoined
      BY <1>0, <1>1, <3>3, Zenon DEF ConsumerJoined, Proceed, Forced, Control
    <3>4. CASE BeginShutdown \/ Deadline \/ CloseAllLanes \/ SealPublications \/ EndpointReleased
      BY <3>4, Zenon DEF BeginShutdown, Deadline, CloseAllLanes, SealPublications, EndpointReleased, Proceed, Forced
    <3> QED
      BY <1>11, <3>1, <3>2, <3>3, <3>4, Zenon
  <2> QED
    BY <1>2, <2>1, <2>2, <2>3, Zenon
<1>12. CASE UNCHANGED pipelineVars
  BY <1>2, <1>12, Zenon DEF pipelineVars, mutationVars
<1> QED
  BY <1>3, <1>4, <1>5, <1>6, <1>7, <1>8, <1>9, <1>10, <1>11, <1>12, Steps, Zenon DEF ControlStep

-----------------------------------------------------------------------------
(* The inductive invariant of the pipeline.                                *)
LEMMA PipelineInvariant == PipelineSpec => []PipelineInv
<1>1. ASSUME PipelineInv, [PipelineNext]_pipelineVars PROVE PipelineInv'
  <2>1. MutationTypes
    BY <1>1, Zenon DEF PipelineInv, PipelineTypes
  <2>2. PipelineTypes'
    BY <1>1, <2>1, StepMutationTypes, StepQueueTypes, StepControlTypes, Zenon DEF PipelineTypes
  <2>3. (\A m \in Mutations : Stage(m))' /\ Positions' /\ Tickets' /\ Effects'
    BY <1>1, StepStage, StepPositions, StepTickets, StepEffects, Zenon
  <2>4. Hooks' /\ Slots' /\ Control' /\ Settled' /\ AllHooked' /\ Commands'
    BY <1>1, StepHooks, StepSlots, StepControl, StepSettled, StepAllHooked, StepCommands, Zenon
  <2> QED
    BY <2>2, <2>3, <2>4, Zenon DEF PipelineInv
<1> QED
  BY <1>1, InitPipeline, PTL DEF PipelineSpec

(* Every variable keeps its shape, and neither the post-commit slots nor   *)
(* the outbox ever hold more than their capacity (acquire_capacity,        *)
(* the bounded lifecycle channel).                                         *)
THEOREM PipelineTypeCorrect == PipelineSpec => []PipelineTypeOK
<1>1. ASSUME PipelineInv PROVE PipelineTypeOK
  <2>1. PipelineTypes /\ MutationTypes /\ QueueTypes /\ ControlTypes /\ Positions /\ Tickets /\ Hooks /\ Slots
    BY <1>1, Zenon DEF PipelineInv, PipelineTypes
  <2>2. Sequenced \subseteq Mutations /\ Members(commit_order) \subseteq ticketed
    BY <2>1, MembersOf, Outstanding, Zenon DEF Sequenced, QueueTypes
  <2>3. Len(outbox) + free_slots <= OutboxCapacity
    <3>1. Len(outbox) \in Nat /\ free_slots \in Nat /\ OutboxCapacity \in Nat
      BY <2>1, MembersOf, MutationsAssumption, Zenon DEF QueueTypes, ControlTypes
    <3> QED
      BY <2>1, <3>1 DEF Slots
  <2>4. item \in ticketed \cup {None}
    <3>1. CASE item # None
      <4>1. Len(hooked) + 1 \in 1 .. Len(committed) /\ item = committed[Len(hooked) + 1]
        BY <2>1, <3>1, HookNumbers DEF Hooks
      <4>2. item \in Members(committed)
        BY <2>1, <4>1, MembersOf, Zenon DEF QueueTypes
      <4> QED
        BY <2>1, <4>2, SMTT(30) DEF Tickets
    <3> QED
      BY <3>1, Zenon
  <2>5. Len(post_commit) <= SlotCapacity
    BY <2>1, Zenon DEF Positions
  <2> QED
    BY <2>1, <2>2, <2>3, <2>4, <2>5, Zenon DEF PipelineTypeOK, MutationTypes, ControlTypes
<1> QED
  BY <1>1, PipelineInvariant, PTL

(* Whatever order the publication tasks run in, control effects of         *)
(* ticketed events appear in commit order without a gap, and so do the     *)
(* hooks: those that ran, the running one and the queued ones are the      *)
(* first commits (emit_prepared_inner, consume_lifecycle_hooks).           *)
THEOREM EventsKeepCommitOrder == PipelineSpec => []EventsInCommitOrder
<1>1. ASSUME PipelineInv PROVE EventsInCommitOrder
  <2>1. PipelineTypes /\ QueueTypes /\ ControlTypes /\ Tickets /\ Effects /\ Hooks
    BY <1>1, Zenon DEF PipelineInv, PipelineTypes
  <2>2. Begins(effects, committed)
    <3>1. Passed \in Nat /\ Len(committed) \in Nat /\ Len(committed) = Passed + Len(commit_order) /\ Len(commit_order) \in Nat
          /\ (commit_order # <<>> => Len(commit_order) # 0)
      BY <2>1, Outstanding, Zenon
    <3>2. Len(effects) <= Len(committed)
      BY <2>1, <3>1, SMTT(30) DEF Effects, TurnAt
    <3> QED
      BY <2>1, <3>2, Zenon DEF Begins, Effects
  <2> DEFINE run == IF item = None THEN <<>> ELSE <<item>>
             first == hooked \o run
             all == first \o outbox
             h == Len(hooked)
             r == Running
             n == Len(outbox)
  <2>3. /\ h \in Nat /\ r \in {0, 1} /\ n \in Nat
        /\ DOMAIN hooked = 1 .. h /\ DOMAIN outbox = 1 .. n
        /\ h + r + n <= Passed /\ Passed <= Len(committed) /\ Passed \in Nat /\ Len(committed) \in Nat
        /\ item = None <=> r = 0
    BY <2>1, HookNumbers, Zenon DEF Hooks
  <2>4. run \in Seq(Mutations) /\ Len(run) = r /\ (r = 1 => run[1] = item)
    <3>1. CASE item = None
      BY <2>3, <3>1
    <3>2. CASE item # None
      <4>1. item \in Mutations
        BY <2>1, <3>2, Zenon DEF ControlTypes
      <4> QED
        BY <2>3, <3>2, <4>1
    <3> QED
      BY <3>1, <3>2, Zenon
  <2> HIDE DEF run
  <2>5. hooked \in Seq(Mutations) /\ outbox \in Seq(Mutations)
    BY <2>1, Zenon DEF QueueTypes
  <2>6. /\ first \in Seq(Mutations) /\ Len(first) = h + r
        /\ \A i \in 1 .. (h + r) : first[i] = IF i <= h THEN hooked[i] ELSE run[i - h]
    BY SMTT(30), <2>3, <2>4, <2>5
  <2> HIDE DEF first
  <2>7. /\ Len(all) = h + r + n /\ DOMAIN all = 1 .. (h + r + n)
        /\ \A i \in 1 .. (h + r + n) : all[i] = IF i <= h + r THEN first[i] ELSE outbox[i - (h + r)]
    BY SMTT(30), <2>3, <2>5, <2>6
  <2>8. /\ \A i \in 1 .. h : hooked[i] = committed[i]
        /\ item # None => item = committed[h + 1]
        /\ \A i \in 1 .. n : outbox[i] = committed[h + r + i]
    BY <2>1, <2>3, Zenon DEF Hooks
  <2> HIDE DEF all, h, r, n
  <2>9. ASSUME NEW i \in 1 .. (h + r + n) PROVE all[i] = committed[i]
    <3>1. CASE i <= h
      BY SMTT(30), <2>3, <2>6, <2>7, <2>8, <2>9, <3>1
    <3>2. CASE i > h /\ i <= h + r
      <4>1. r = 1 /\ i = h + 1 /\ i - h = 1
        BY <2>3, <3>2
      <4>2. all[i] = run[i - h]
        BY <2>3, <2>6, <2>7, <2>9, <3>2
      <4> QED
        BY <2>3, <2>4, <2>8, <4>1, <4>2
    <3>3. CASE i > h + r
      <4>1. i - (h + r) \in 1 .. n /\ h + r + (i - (h + r)) = i
        BY <2>3, <3>3
      <4>2. all[i] = outbox[i - (h + r)]
        BY <2>3, <2>7, <3>3
      <4> QED
        BY <2>8, <4>1, <4>2, Zenon
    <3> QED
      BY <2>3, <3>1, <3>2, <3>3
  <2>10. Begins(all, committed)
    BY <2>3, <2>7, <2>9 DEF Begins
  <2> QED
    BY <2>2, <2>10, Zenon DEF EventsInCommitOrder, all, first, run
<1> QED
  BY <1>1, PipelineInvariant, PTL

(* A drain that reports Drained has run the hooks of every ticketed event  *)
(* and cut no command.  When the endpoint is released nothing runs, waits  *)
(* or is queued, no event was discarded, and every mutation that committed *)
(* had its effects dispatched, save at most one: the inline command of the *)
(* hook that a forced shutdown aborted between its commit and its emission *)
(* (drain_lifecycle_hooks_before_deadline, the listener's final drains).   *)
THEOREM ReleaseComesLast == PipelineSpec => []ReleaseIsLast
<1>1. ASSUME PipelineInv PROVE ReleaseIsLast
  <2>1. /\ PipelineTypes /\ MutationTypes /\ QueueTypes /\ Tickets /\ Effects /\ Hooks /\ Slots /\ Control /\ Settled /\ AllHooked
        /\ Commands /\ \A m \in Mutations : Stage(m)
    BY <1>1, Zenon DEF PipelineInv, PipelineTypes
  <2>4. outcome = "Drained" => Cut = {}
    <3>1. "Drained" # None
      BY MutationsAssumption, Zenon
    <3> QED
      BY <2>1, <3>1, Zenon DEF Commands, Control
  <2>2. ASSUME outcome = "Drained" PROVE Members(hooked) = ticketed
    <3>1. "Drained" # None
      BY MutationsAssumption, Zenon
    <3>2. l_phase \in Phases
      BY <2>1, Zenon DEF PipelineTypes, ControlTypes
    <3>3. l_phase \in Final
      BY <2>1, <2>2, <3>1, <3>2, Zenon DEF Control, Phases
    <3>4. consumer = "gone"
      BY <2>1, <3>3, Zenon DEF Control
    <3>5. item = None /\ outbox = <<>>
      BY <2>1, <3>4, Zenon DEF Hooks, Slots
    <3>6. Len(hooked) + 0 + 0 = Len(committed)
      BY <2>1, <2>2, <3>5, Zenon DEF AllHooked, Running
    <3>7. DOMAIN hooked = DOMAIN committed
      BY <2>1, <3>6, MembersOf, SMTT(30) DEF QueueTypes
    <3>8. \A i \in DOMAIN hooked : hooked[i] = committed[i]
      BY <2>1, Zenon DEF Hooks
    <3>9. Members(hooked) = Members(committed)
      BY <3>7, <3>8, Zenon DEF Members
    <3> QED
      BY <2>1, <3>9, Zenon DEF Tickets
  <2>3. ASSUME l_phase = "stopped"
        PROVE  /\ Sequenced = {} /\ Pending = {} /\ consumer = "gone" /\ outbox = <<>> /\ discarded = {}
               /\ Members(effects) \cup unordered = {m \in Mutations : mutation[m] \in {"committed", "publishing", "done"}}
    <3>1. post_commit = <<>> /\ Pending = {} /\ discarded = {} /\ consumer = "gone"
      BY <2>1, <2>3, Zenon DEF Settled, Control, Sealed, Final
    <3>2. Sequenced = {} /\ outbox = <<>>
      BY <2>1, <3>1 DEF Sequenced, Members, Slots
    <3>3. \A m \in Mutations : publication[m] \in {"none", "done"}
      BY <3>1, Zenon DEF Pending
    <3>4. \A m \in Mutations : publication[m] = "done" <=> mutation[m] \in {"publishing", "done"}
      <4>1. ASSUME NEW m \in Mutations PROVE publication[m] = "done" => mutation[m] \in {"publishing", "done"}
        BY <2>1, <3>1, <3>3, Zenon DEF Stage, MutationTypes
      <4>2. ASSUME NEW m \in Mutations PROVE mutation[m] \in {"publishing", "done"} => publication[m] = "done"
        BY <2>1, <3>1, <3>3, SMTT(30) DEF Stage
      <4> QED
        BY <4>1, <4>2, Zenon
    <3>5. \A m \in ticketed : publication[m] = "done" /\ m \in Mutations
      <4>1. \A m \in ticketed : m \in Mutations
        BY <2>1, Zenon DEF MutationTypes
      <4> QED
        BY <2>1, <3>1, <3>3, <4>1, Zenon DEF Stage, MutationTypes
    <3>6. commit_order = <<>>
      <4>1. Members(commit_order) = {}
        BY <2>1, <3>5, Outstanding, SMTT(30) DEF Tickets
      <4> QED
        BY <2>1, <4>1, NoMembers, Zenon DEF QueueTypes
    <3>7. Len(effects) = Len(committed)
      BY <2>1, <3>6, Outstanding, Zenon DEF Effects, TurnAt
    <3>8. DOMAIN effects = DOMAIN committed
      BY <2>1, <3>7, MembersOf, Zenon DEF QueueTypes
    <3>9. Members(effects) = ticketed
      <4>1. \A i \in DOMAIN effects : effects[i] = committed[i]
        BY <2>1, Zenon DEF Effects
      <4>2. Members(effects) = Members(committed)
        BY <3>8, <4>1, Zenon DEF Members
      <4> QED
        BY <2>1, <4>2, Zenon DEF Tickets
    <3>10. unordered = {m \in Mutations : m \notin ticketed /\ publication[m] = "done"}
      BY <2>1, Zenon DEF Effects
    <3>12. \A m \in Mutations : mutation[m] # "committed"
      BY <2>1, <3>1, <3>3, Zenon DEF Stage
    <3>11. Members(effects) \cup unordered = {m \in Mutations : mutation[m] \in {"committed", "publishing", "done"}}
      BY <3>12, <3>4, <3>5, <3>9, <3>10, Zenon
    <3> QED
      BY <3>1, <3>2, <3>11, Zenon
  <2> QED
    BY <2>1, <2>2, <2>3, <2>4, Zenon DEF ReleaseIsLast, Commands
<1> QED
  BY <1>1, PipelineInvariant, PTL
=============================================================================
