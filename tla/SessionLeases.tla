---------------------------- MODULE SessionLeases ---------------------------
(***************************************************************************)
(* Sessions owned by an application (rmux-sdk handles/owned_session.rs and *)
(* its submodules; rmux-server handler_session/leases.rs, clock.rs and the *)
(* kill of a session by identity in handler_session.rs).                   *)
(*                                                                         *)
(* The SDK leases its session from the server and renews the lease from a  *)
(* heartbeat task; the server's reaper kills a session whose lease ran     *)
(* out.  The owner may clean up, preserve the session, be dropped or       *)
(* crash; a signal handler may kill the session too.  Lease requests and   *)
(* kills travel on two connections, so they are not ordered.               *)
(*                                                                         *)
(* Time is counted in ticks of the reaper's interval, and kept relative:   *)
(* `left` is expires_at - now, `age` is now - renewed_at, `elapsed` is now *)
(* - previous_wake, `since` is now - last_renew_success.  Nothing is       *)
(* urgent, so every task may be late; MaxStall bounds how late the reaper  *)
(* can be.  Suspend is the whole machine asleep.                           *)
(***************************************************************************)
EXTENDS Integers, Sequences, FiniteSets

CONSTANTS Names,
          Ttl,          \* of every lease
          Threshold,    \* REAPER_STALL_THRESHOLD
          MaxStall,     \* bound on the time between two wakes of the reaper
          MaxToken,     \* bound on next_token
          Scenarios     \* the sets of environment events that are explored together

ASSUME TimesAssumption == /\ Ttl \in Nat /\ MaxStall \in Nat /\ MaxToken \in Nat
                          /\ Threshold \in 2 .. Ttl /\ MaxStall >= Threshold

Sessions == 1 .. 2          \* SessionId; 1 is the owned session
Interval == 1               \* REAPER_INTERVAL, and the heartbeat's intervals
None == "none"              \* the name of a session that does not exist
ASSUME NamesAssumption == Names # {} /\ None \notin Names
Nobody == [by |-> "nobody", token |-> 0]

VARIABLES events,           \* the scenario
          names,            \* SessionStore
          created,          \* session 2 was created
          killer,           \* history: who killed each session
          leases,           \* SessionLeaseStore.ownerships, with histories
          next_token,
          janitor, elapsed, \* session_lease_janitor_started, ReaperSchedule
          expired,          \* the candidates the reaper still has to kill
          ending,           \* removed sessions whose leases are still to be removed
          wire, connected,  \* requests on the lease connection
          answer,           \* replies not yet seen by the SDK
          kills,            \* identity kills of the SDK on its other connection
          owner, token,     \* OwnedSession and its lease's token
          lease_state,      \* LeaseState
          hb, timer, since, deadline,   \* the heartbeat task and its instants
          phase             \* SignalHandlerPhase

server == <<names, created, killer, leases, next_token, janitor, expired, ending>>
heartbeat == <<hb, timer, since, deadline>>
sdk == <<owner, token, lease_state, phase, kills>>
vars == <<events, server, elapsed, wire, connected, answer, sdk, heartbeat>>

Bounded(n, low, high) == IF n < low THEN low ELSE IF n > high THEN high ELSE n

(* awake, naps and exposed are histories: the ticks the machine was awake  *)
(* since the renewal, how often it slept, and whether it did so when the   *)
(* reaper could not make up for it.                                        *)
NewLease(t, name) == [token |-> t, current |-> name, left |-> Ttl, age |-> 0,
                      awake |-> 0, naps |-> 0, exposed |-> FALSE]

Init == /\ events \in Scenarios
        /\ names = [i \in Sessions |-> IF i = 1 THEN CHOOSE n \in Names : TRUE ELSE None]
        /\ created = FALSE /\ killer = [i \in Sessions |-> Nobody]
        /\ leases = <<>> /\ next_token = 0
        /\ janitor = FALSE /\ elapsed = 0 /\ expired = {} /\ ending = {}
        /\ wire = <<"create">> /\ connected = TRUE
        /\ answer = [q \in {"create", "renew", "release", "cleanup"} |-> "none"]
        /\ kills = {} /\ owner = "starting" /\ token = 0 /\ lease_state = "NotLeased"
        /\ hb = "off" /\ timer = 0 /\ since = 0 /\ deadline = 0
        /\ phase = "Idle"

---------------------------------------------------------------------------
(* Time.                                                                   *)
Advance(d, slept) ==
    LET Later(id) ==
          LET l == leases[id]
          IN  [l EXCEPT !.left = Bounded(@ - d, -MaxStall, Ttl), !.age = Bounded(@ + d, 0, MaxStall),
                 !.awake = IF slept THEN @ ELSE Bounded(@ + d, 0, Ttl),
                 !.naps = IF slept THEN Bounded(@ + 1, 0, Ttl) ELSE @,
                 !.exposed = @ \/ (slept /\ (l.age <= elapsed - Interval \/ \E x \in expired : x.id = id))]
    IN  /\ janitor => elapsed + d <= MaxStall
        /\ elapsed' = IF janitor THEN elapsed + d ELSE 0
        /\ leases' = [id \in DOMAIN leases |-> Later(id)]
        /\ timer' = Bounded(timer - d, 0, Interval)
        /\ since' = Bounded(since + d, 0, Ttl)
        /\ deadline' = Bounded(deadline - d, 0, Ttl)
        /\ UNCHANGED <<events, names, created, killer, next_token, janitor, expired, ending,
                       wire, connected, answer, sdk, hb>>

Tick == Advance(1, FALSE)
Suspend == "suspend" \in events /\ Advance(Threshold, TRUE)

---------------------------------------------------------------------------
(* The reaper.                                                             *)
is_expired(l) == l.left <= 0

\* Mutant: a stalled reaper grants every lease a fresh budget.
RefillBudget(l) == IF elapsed < Threshold THEN l ELSE [l EXCEPT !.left = Ttl]

(* The budget that was left at the expected wake is left at the observed   *)
(* one.  expected_at is elapsed - Interval ago.                            *)
preserve_budget_across_reaper_pause(l) ==
    LET late == elapsed - Interval
    IN  IF elapsed < Threshold \/ late <= 0 \/ l.age <= late \/ l.left + late <= 0
        THEN l
        ELSE [l EXCEPT !.left = @ + late]

reaper_wake ==
    LET kept == [id \in DOMAIN leases |-> preserve_budget_across_reaper_pause(leases[id])]
    IN  /\ janitor /\ expired = {} /\ elapsed >= Interval
        /\ elapsed' = 0
        /\ leases' = kept
        /\ expired' = {[id |-> id, token |-> kept[id].token] : id \in {i \in DOMAIN kept : is_expired(kept[i])}}
        /\ UNCHANGED <<events, names, created, killer, next_token, janitor, ending,
                       wire, connected, answer, sdk, heartbeat>>

Without(id) == [i \in DOMAIN leases \ {id} |-> leases[i]]

(* A session is removed under the state lock; its leases are removed when  *)
(* the handler has published the removal.                                  *)
RemoveSession(id, by) ==
    /\ names' = [names EXCEPT ![id] = None]
    /\ killer' = [killer EXCEPT ![id] = by]
    /\ ending' = ending \cup {[id |-> id, name |-> names[id]]}

\* Mutant: the claim does not look again whether the lease was renewed.
ClaimUnchecked(x) ==
    /\ x.id \in DOMAIN leases
    /\ leases[x.id].token = x.token

claim_expired(x) ==
    /\ x.id \in DOMAIN leases
    /\ leases[x.id].token = x.token
    /\ is_expired(leases[x.id])

(* The candidate is looked up again by its identity, under the state lock. *)
(* The claim removes the lease; a kill that then fails for want of the     *)
(* session's terminals leaves the session without one.                     *)
kill_expired_session_lease_identity(x) ==
    /\ expired' = expired \ {x}
    /\ IF names[x.id] # None /\ claim_expired(x)
       THEN /\ leases' = Without(x.id)
            /\ \/ RemoveSession(x.id, [by |-> "reaper", token |-> x.token])
               \/ "terminals" \in events /\ UNCHANGED <<names, killer, ending>>
       ELSE UNCHANGED <<names, killer, ending, leases>>
    /\ UNCHANGED <<events, created, next_token, janitor, elapsed, wire, connected, answer, sdk, heartbeat>>

remove_session_leases(e) ==
    /\ ending' = ending \ {e}
    /\ leases' = IF e.id \in DOMAIN leases /\ leases[e.id].current = e.name THEN Without(e.id) ELSE leases
    /\ UNCHANGED <<events, names, created, killer, next_token, janitor, expired, elapsed,
                   wire, connected, answer, sdk, heartbeat>>

---------------------------------------------------------------------------
(* Requests of other clients: sessions come, go and change their names,    *)
(* and a lease may be created for a session that has one.                  *)
ByOthers == UNCHANGED <<events, elapsed, expired, wire, connected, answer, sdk, heartbeat>>

UserKill(id) ==
    /\ "names" \in events /\ names[id] # None
    /\ RemoveSession(id, [by |-> "user", token |-> 0])
    /\ UNCHANGED <<created, leases, next_token, janitor>> /\ ByOthers

NewSession(name) ==
    /\ "names" \in events /\ ~created /\ \A i \in Sessions : names[i] # name
    /\ names' = [names EXCEPT ![2] = name] /\ created' = TRUE
    /\ UNCHANGED <<killer, leases, next_token, janitor, ending>> /\ ByOthers

\* Mutant: the lease keeps the old name.
RenameKeepsLease(id, new) ==
    /\ "names" \in events /\ names[id] # None /\ \A i \in Sessions : names[i] # new
    /\ names' = [names EXCEPT ![id] = new]
    /\ UNCHANGED <<created, killer, leases, next_token, janitor, ending>> /\ ByOthers

rename_session(id, new) ==
    /\ "names" \in events /\ names[id] # None /\ \A i \in Sessions : names[i] # new
    /\ names' = [names EXCEPT ![id] = new]
    /\ leases' = IF id \in DOMAIN leases /\ leases[id].current = names[id]
                 THEN [leases EXCEPT ![id].current = new] ELSE leases
    /\ UNCHANGED <<created, killer, next_token, janitor, ending>> /\ ByOthers

Insert(id) == [i \in DOMAIN leases \cup {id} |->
                 IF i = id THEN NewLease(next_token + 1, names[id]) ELSE leases[i]]

create_lease(id) ==
    /\ names[id] # None /\ next_token < MaxToken
    /\ leases' = Insert(id) /\ next_token' = next_token + 1
    /\ janitor' = TRUE        \* ensure_session_lease_janitor_started
    /\ UNCHANGED <<names, created, killer, ending>>

Takeover(id) == "takeover" \in events /\ create_lease(id) /\ ByOthers

---------------------------------------------------------------------------
(* The lease requests of the SDK, in the order they were sent.  A reply is *)
(* kept for whoever still waits for it; a renewal that was given up is     *)
(* "late".                                                                 *)
live_session(t) == {id \in DOMAIN leases : leases[id].token = t /\ names[id] = leases[id].current}

Awaited(q) == CASE q = "create"  -> owner = "starting"
                [] q = "renew"   -> hb = "waiting"
                [] q = "late"    -> FALSE
                [] q = "release" -> owner = "releasing"
                [] q = "cleanup" -> owner = "cleaning"

Reply(q, result) == answer' = IF Awaited(q) THEN [answer EXCEPT ![q] = result] ELSE answer

Serve(q) ==
    /\ wire # <<>> /\ q = Head(wire) /\ wire' = Tail(wire)
    /\ UNCHANGED <<events, elapsed, expired, connected, owner, lease_state, phase, kills, heartbeat>>

handle_create_session_lease ==
    /\ Serve("create")
    /\ \/ create_lease(1) /\ token' = next_token + 1 /\ Reply("create", "ok")
       \/ /\ names[1] = None /\ Reply("create", "refused")
          /\ UNCHANGED <<names, created, killer, leases, next_token, janitor, ending, token>>

handle_renew_session_lease ==
    /\ \E q \in {"renew", "late"} :
         /\ Serve(q)
         /\ \/ \E id \in live_session(token) :
                 leases' = [leases EXCEPT ![id] = NewLease(token, @.current)] /\ Reply(q, "ok")
            \/ live_session(token) = {} /\ Reply(q, "refused") /\ UNCHANGED leases
    /\ UNCHANGED <<names, created, killer, next_token, janitor, ending, token>>

handle_release_session_lease ==
    /\ Serve("release")
    /\ \/ \E id \in live_session(token) : leases' = Without(id) /\ Reply("release", "ok")
       \/ live_session(token) = {} /\ Reply("release", "refused") /\ UNCHANGED leases
    /\ UNCHANGED <<names, created, killer, next_token, janitor, ending, token>>

(* The kill of a session by its identity, sent for one of four reasons; an *)
(* unconfirmed one may be lost.                                            *)
handle_kill_session(k) ==
    /\ kills' = kills \ {k}
    /\ IF names[1] # None
       THEN RemoveSession(1, [by |-> k, token |-> 0]) /\ (IF k = "cleanup" THEN Reply(k, "ok") ELSE UNCHANGED answer)
       ELSE UNCHANGED <<names, killer, ending>> /\ (IF k = "cleanup" THEN Reply(k, "refused") ELSE UNCHANGED answer)
    /\ UNCHANGED <<events, created, leases, next_token, janitor, expired, elapsed, wire, connected,
                   owner, token, lease_state, phase, heartbeat>>

LoseKill(k) ==
    /\ "lossy" \in events
    /\ kills' = kills \ {k}
    /\ IF k = "cleanup" THEN Reply(k, "refused") ELSE UNCHANGED answer
    /\ UNCHANGED <<events, server, elapsed, wire, connected, owner, token, lease_state, phase, heartbeat>>

(* The lease connection breaks; requests and replies on it are lost.       *)
Disconnect ==
    /\ "lossy" \in events /\ connected
    /\ connected' = FALSE /\ wire' = <<>>
    /\ answer' = [q \in DOMAIN answer |-> IF q # "cleanup" /\ Awaited(q) THEN "broken" ELSE answer[q]]
    /\ UNCHANGED <<events, server, elapsed, sdk, heartbeat>>

---------------------------------------------------------------------------
(* The heartbeat task of OwnedSessionLease::start.                         *)
Beating == UNCHANGED <<events, server, elapsed, connected, owner, token, phase, kills>>

StopHeartbeat == hb' = "off" /\ timer' = 0 /\ since' = 0 /\ deadline' = 0

Lost == lease_state' = "Lost" /\ StopHeartbeat

(* renewal_attempt_deadline: the lease's, or a fresh one after a suspend.  *)
Beat == /\ hb = "sleeping" /\ timer = 0
        /\ hb' = "trying" /\ deadline' = IF since >= Ttl THEN Ttl ELSE Ttl - since
        /\ UNCHANGED <<timer, since, lease_state, wire, answer>> /\ Beating

(* One turn of the loop of renew_lease_with_retries.                       *)
renew_lease_once ==
    /\ hb = "trying" /\ Beating
    /\ \/ deadline = 0 /\ Lost /\ UNCHANGED <<wire, answer>>
       \/ /\ deadline > 0 /\ connected
          /\ hb' = "waiting" /\ wire' = Append(wire, "renew")
          /\ UNCHANGED <<timer, since, deadline, lease_state, answer>>
       \/ /\ deadline > 0 /\ ~connected
          /\ hb' = "backoff" /\ timer' = Interval
          /\ UNCHANGED <<since, deadline, lease_state, wire, answer>>

Renewed == /\ hb = "waiting" /\ answer["renew"] = "ok"
           /\ hb' = "sleeping" /\ timer' = Interval /\ since' = 0 /\ deadline' = 0
           /\ answer' = [answer EXCEPT !["renew"] = "none"]
           /\ UNCHANGED <<lease_state, wire>> /\ Beating

NotRenewed == /\ hb = "waiting" /\ answer["renew"] \in {"refused", "broken"}
              /\ answer' = [answer EXCEPT !["renew"] = "none"]
              /\ \/ deadline = 0 /\ Lost
                 \/ deadline > 0 /\ hb' = "backoff" /\ timer' = Interval /\ UNCHANGED <<since, deadline, lease_state>>
              /\ UNCHANGED wire /\ Beating

RenewTimeout == /\ hb = "waiting" /\ deadline = 0 /\ answer["renew"] \in {"none", "ok"}
                /\ answer' = [answer EXCEPT !["renew"] = "none"]
                /\ Lost /\ UNCHANGED wire /\ Beating

(* The request has a time limit of its own: the renewal stays on its way,  *)
(* and another is tried.  (Bound: one such renewal at a time.)             *)
RequestTimeout == /\ "slow" \in events /\ hb = "waiting" /\ deadline > 0
                  /\ \A i \in DOMAIN wire : wire[i] # "late"
                  /\ wire' = [i \in DOMAIN wire |-> IF wire[i] = "renew" THEN "late" ELSE wire[i]]
                  /\ answer' = [answer EXCEPT !["renew"] = "none"]
                  /\ hb' = "backoff" /\ timer' = Interval
                  /\ UNCHANGED <<since, deadline, lease_state>> /\ Beating

Backoff == /\ hb = "backoff" /\ (timer = 0 \/ deadline = 0)
           /\ hb' = "trying" /\ UNCHANGED <<timer, since, deadline, lease_state, wire, answer>> /\ Beating

HeartbeatStep == Beat \/ renew_lease_once \/ Renewed \/ NotRenewed \/ RenewTimeout \/ RequestTimeout \/ Backoff

---------------------------------------------------------------------------
(* The owner.                                                              *)
Owning == UNCHANGED <<events, server, elapsed, connected>>

Forget(q) == answer' = [answer EXCEPT ![q] = "none"]

(* OwnedSession::drop: the heartbeat is aborted and a kill is sent.        *)
DropOwner(reason) == owner' = "gone" /\ kills' = kills \cup {reason} /\ StopHeartbeat

LeaseCreated ==
    /\ owner = "starting" /\ answer["create"] = "ok" /\ Forget("create")
    /\ owner' = "owned" /\ lease_state' = "Active"
    /\ hb' = "sleeping" /\ timer' = Interval /\ since' = 0 /\ deadline' = 0
    /\ UNCHANGED <<token, phase, kills, wire>> /\ Owning

(* The lease could not be had, or the builder's future was dropped.        *)
rollback_owned_session_creation ==
    /\ owner = "starting" /\ answer["create"] # "ok" /\ Forget("create")
    /\ DropOwner("rollback")
    /\ UNCHANGED <<token, lease_state, phase, wire>> /\ Owning

drop ==
    /\ owner = "owned"
    /\ DropOwner("drop")
    /\ answer' = [answer EXCEPT !["renew"] = "none"]
    /\ UNCHANGED <<token, lease_state, phase, wire>> /\ Owning

\* Mutant: the signal handlers stay armed while the lease is released.
PreserveArmed ==
    /\ owner = "owned" /\ lease_state # "Lost" /\ connected
    /\ owner' = "releasing" /\ wire' = Append(wire, "release")
    /\ UNCHANGED <<kills, heartbeat, answer, phase, token, lease_state>> /\ Owning

(* preserve and detach_owned; when they fail the owner is dropped.         *)
preserve ==
    /\ owner = "owned"
    /\ \/ /\ phase \in {"Firing", "Finished"} \/ lease_state = "Lost" \/ ~connected
          /\ phase' = IF phase = "Armed" THEN "Disarmed" ELSE phase
          /\ DropOwner("drop") /\ answer' = [answer EXCEPT !["renew"] = "none"] /\ UNCHANGED wire
       \/ /\ phase \notin {"Firing", "Finished"} /\ lease_state # "Lost" /\ connected
          /\ phase' = IF phase = "Armed" THEN "Disarmed" ELSE phase   \* disarm_for_ownership_release
          /\ owner' = "releasing" /\ wire' = Append(wire, "release")
          /\ UNCHANGED <<kills, heartbeat, answer>>
    /\ UNCHANGED <<token, lease_state>> /\ Owning

release_confirmed ==
    /\ owner = "releasing" /\ answer["release"] = "ok"
    /\ answer' = [answer EXCEPT !["release"] = "none", !["renew"] = "none"]
    /\ owner' = "preserved" /\ lease_state' = "NotLeased" /\ StopHeartbeat
    /\ UNCHANGED <<token, phase, kills, wire>> /\ Owning

(* Refused, failed, or the future of preserve was dropped.                 *)
ReleaseFails ==
    /\ owner = "releasing" /\ answer["release"] # "ok"
    /\ lease_state' = IF answer["release"] = "refused" THEN "Lost" ELSE lease_state
    /\ answer' = [answer EXCEPT !["release"] = "none", !["renew"] = "none"]
    /\ DropOwner("drop")
    /\ UNCHANGED <<token, phase, wire>> /\ Owning

cleanup ==
    /\ "cleanup" \in events /\ owner = "owned"
    /\ owner' = "cleaning" /\ kills' = kills \cup {"cleanup"}
    /\ UNCHANGED <<token, lease_state, phase, heartbeat, wire, answer>> /\ Owning

Cleaned ==
    /\ owner = "cleaning" /\ answer["cleanup"] = "ok"
    /\ answer' = [answer EXCEPT !["cleanup"] = "none", !["renew"] = "none"]
    /\ owner' = "cleaned" /\ lease_state' = "NotLeased" /\ StopHeartbeat
    /\ UNCHANGED <<token, phase, kills, wire>> /\ Owning

(* An error, or the future of cleanup was dropped: the owner stays.        *)
CleanupFails ==
    /\ owner = "cleaning" /\ answer["cleanup"] # "ok" /\ Forget("cleanup")
    /\ owner' = "owned"
    /\ UNCHANGED <<token, lease_state, phase, kills, heartbeat, wire>> /\ Owning

Crash ==
    /\ owner \notin {"gone", "preserved", "cleaned"}
    /\ owner' = "gone" /\ StopHeartbeat
    /\ phase' = "Idle" /\ answer' = [q \in DOMAIN answer |-> "none"]
    /\ UNCHANGED <<token, lease_state, kills, wire>> /\ Owning

OwnerStep == LeaseCreated \/ rollback_owned_session_creation \/ drop \/ preserve \/ release_confirmed
             \/ ReleaseFails \/ cleanup \/ Cleaned \/ CleanupFails \/ Crash

(* The signal handlers.                                                    *)
Signalling == UNCHANGED <<events, server, elapsed, wire, connected, answer, owner, token, lease_state, heartbeat>>

install_default_signal_handlers ==
    /\ "signals" \in events /\ owner = "owned" /\ phase = "Idle"
    /\ phase' = "Armed" /\ UNCHANGED kills /\ Signalling

try_begin_cleanup == phase = "Armed" /\ phase' = "Firing" /\ kills' = kills \cup {"signal"} /\ Signalling

finish_cleanup == /\ phase = "Firing" /\ "signal" \notin kills
                  /\ phase' = "Finished" /\ UNCHANGED kills /\ Signalling

release_guard == /\ phase \in {"Armed", "Disarmed"}
                 /\ phase' = "Idle" /\ UNCHANGED kills /\ Signalling

SignalStep == install_default_signal_handlers \/ try_begin_cleanup \/ finish_cleanup \/ release_guard

---------------------------------------------------------------------------
ServeStep == handle_create_session_lease \/ handle_renew_session_lease \/ handle_release_session_lease

Next == \/ Tick \/ Suspend \/ reaper_wake
        \/ \E x \in expired : kill_expired_session_lease_identity(x)
        \/ \E e \in ending : remove_session_leases(e)
        \/ \E id \in Sessions : UserKill(id) \/ Takeover(id) \/ \E n \in Names : rename_session(id, n)
        \/ \E n \in Names : NewSession(n)
        \/ ServeStep \/ \E k \in kills : handle_kill_session(k) \/ LoseKill(k)
        \/ Disconnect \/ HeartbeatStep \/ OwnerStep \/ SignalStep

Spec == Init /\ [][Next]_vars

(***************************************************************************)
(* Time passes, tasks run and requests are served; owners, signals and     *)
(* other clients may do nothing for ever, and the machine may be suspended *)
(* as often as it likes.                                                   *)
(***************************************************************************)
Fairness == /\ WF_vars(Tick) /\ WF_vars(reaper_wake)
            /\ WF_vars(\E x \in expired : kill_expired_session_lease_identity(x))
            /\ WF_vars(\E e \in ending : remove_session_leases(e))
            /\ WF_vars(ServeStep) /\ WF_vars(HeartbeatStep)

FairSpec == Spec /\ Fairness

(***************************************************************************)
(* Properties.                                                             *)
(***************************************************************************)
(* The type of every variable.                                             *)
TypeOK ==
    /\ names \in [Sessions -> Names \cup {None}] /\ next_token \in 0 .. MaxToken /\ token \in 0 .. MaxToken
    /\ DOMAIN leases \subseteq Sessions /\ elapsed \in 0 .. MaxStall
    /\ expired \subseteq [id : Sessions, token : 1 .. MaxToken]
    /\ ending \subseteq [id : Sessions, name : Names]
    /\ Len(wire) <= 3 /\ connected \in BOOLEAN
    /\ kills \subseteq {"rollback", "drop", "cleanup", "signal"}
    /\ owner \in {"starting", "owned", "releasing", "preserved", "cleaning", "cleaned", "gone"}
    /\ lease_state \in {"NotLeased", "Active", "Lost"}
    /\ hb \in {"off", "sleeping", "trying", "waiting", "backoff"}
    /\ phase \in {"Idle", "Armed", "Firing", "Finished", "Disarmed"}

(* Once preserve or detach_owned has succeeded, neither the reaper (on the *)
(* owner's lease), nor the signal handlers, nor a dropped guard of the SDK *)
(* kills the session, whatever was in flight; the kill of a cleanup() that *)
(* the application itself abandoned is the one exception.                  *)
PreservedIsKept == owner = "preserved" =>
    /\ killer[1].by \notin {"drop", "signal", "rollback"}
    /\ killer[1] # [by |-> "reaper", token |-> token]

(* A lease entry goes with its session: remove_session_leases finds it     *)
(* under the name it has, although names change and sessions are removed   *)
(* meanwhile.  A leaked entry would be a candidate of every wake for ever. *)
(* Every variable keeps its type on the way.                               *)
LeasesHaveSessions == TypeOK /\ \A id \in DOMAIN leases :
    names[id] = leases[id].current \/ [id |-> id, name |-> leases[id].current] \in ending

(* The reaper kills nothing that was not leased, and it kills an owner     *)
(* only when its time is up: the machine was awake for the whole TTL since *)
(* the last renewal, but for one interval each time it was suspended.      *)
(* (A suspend while the reaper was overdue or already at work on this      *)
(* lease is not made up for.)                                              *)
ReapedInTime == [][\A id \in Sessions : killer[id] = Nobody /\ killer'[id].by = "reaper" =>
    /\ id \in DOMAIN leases
    /\ leases[id].exposed \/ leases[id].awake + Interval * leases[id].naps >= Ttl]_vars

Forgotten == owner = "gone" /\ token # 0 /\ \E id \in DOMAIN leases : leases[id].token = token
Unaware == owner = "owned" /\ lease_state = "Active" /\ live_session(token) = {}

(* The lease of an owner that is gone ends, and with it the session unless *)
(* its kill fails, however often the machine is suspended; and an owner    *)
(* whose session or lease is gone is told.                                 *)
NobodyIsForgotten == []<>~Forgotten /\ []<>~Unaware
=============================================================================
