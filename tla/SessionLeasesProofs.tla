------------------------ MODULE SessionLeasesProofs ------------------------
(***************************************************************************)
(* A preserved session is kept, and a lease goes with its session, for any *)
(* names, times, number of tokens and scenarios.  Three invariants carry   *)
(* the argument: what is on the lease connection (no request twice, and    *)
(* none that nobody could have sent), who holds which token, and which      *)
(* kills can still be on their way in each state of the owner.             *)
(***************************************************************************)
EXTENDS SessionLeases, TLAPS

Requests == {"create", "renew", "release"}
Has(q) == \E i \in 1 .. Len(wire) : wire[i] = q

Wire == /\ wire \in Seq(Requests \cup {"late"}) /\ Len(wire) <= 3
        /\ \A i, j \in 1 .. Len(wire) : wire[i] = wire[j] => i = j

WireInv ==
    /\ Wire
    /\ answer \in [Requests \cup {"cleanup"} -> {"none", "ok", "refused", "broken"}]
    /\ Has("create") => owner \in {"starting", "gone"}
    /\ owner = "starting" => /\ ~Has("renew") /\ ~Has("release") /\ ~Has("late") /\ hb = "off"
                             /\ answer["create"] # "none" => ~Has("create")
    /\ Has("renew") => hb = "off" \/ (hb = "waiting" /\ answer["renew"] = "none")
    /\ Has("release") => owner \in {"releasing", "gone"} /\ answer["release"] = "none"
    /\ owner # "releasing" => answer["release"] = "none"
    /\ owner \in {"gone", "preserved", "cleaned"} => hb = "off"
    /\ hb # "waiting" => answer["renew"] = "none"

LEMMA Serves ==
    ASSUME Wire, wire # <<>>, wire' = Tail(wire)
    PROVE  /\ Wire' /\ \A q : Has(q)' => Has(q)
           /\ \A q : q = Head(wire) => ~Has(q)'
<1>1. /\ wire' \in Seq(Requests \cup {"late"}) /\ Len(wire') = Len(wire) - 1 /\ Len(wire) \in Nat /\ Len(wire) > 0
      /\ \A i \in 1 .. Len(wire') : wire'[i] = wire[i + 1]
      /\ Head(wire) = wire[1]
  BY DEF Wire
<1>2. Wire'
  BY <1>1 DEF Wire
<1>3. \A q : Has(q)' => Has(q)
  BY <1>1 DEF Has
<1>4. \A q : q = Head(wire) => ~Has(q)'
  BY <1>1 DEF Wire, Has
<1> QED
  BY <1>2, <1>3, <1>4, Zenon

LEMMA Sends ==
    ASSUME Wire, NEW q \in {"renew", "release"}, ~Has(q), ~Has("create"), wire' = Append(wire, q)
    PROVE  Wire' /\ \A p : Has(p)' <=> Has(p) \/ p = q
<1>1. /\ wire' \in Seq(Requests \cup {"late"}) /\ Len(wire') = Len(wire) + 1 /\ Len(wire) \in Nat
      /\ \A i \in 1 .. Len(wire) : wire'[i] = wire[i] /\ wire[i] \in Requests \cup {"late"}
      /\ wire'[Len(wire) + 1] = q
  BY DEF Wire, Requests
<1>2. \A i \in 1 .. Len(wire) : wire[i] \in {"late"} \cup ({"renew", "release"} \ {q})
  BY <1>1 DEF Has, Requests
<1>3. Len(wire) <= 2
  <2> SUFFICES ASSUME Len(wire) >= 3 PROVE FALSE
    BY <1>1
  <2>1. 1 \in 1 .. Len(wire) /\ 2 \in 1 .. Len(wire) /\ 3 \in 1 .. Len(wire)
    BY <1>1
  <2> QED
    BY <1>2, <2>1 DEF Wire
<1>4. Wire'
  BY <1>1, <1>3 DEF Wire, Has
<1>5. \A p : Has(p)' <=> Has(p) \/ p = q
  BY <1>1 DEF Has
<1> QED
  BY <1>4, <1>5, Zenon

LEMMA Marks ==
    ASSUME Wire, ~Has("late"),
           wire' = [i \in DOMAIN wire |-> IF wire[i] = "renew" THEN "late" ELSE wire[i]]
    PROVE  Wire' /\ ~Has("renew")' /\ \A q : Has(q)' => Has(q) \/ (q = "late" /\ Has("renew"))
<1>1. /\ Len(wire) \in Nat /\ DOMAIN wire = 1 .. Len(wire)
      /\ \A i \in 1 .. Len(wire) : wire[i] \in Requests \cup {"late"}
  BY DEF Wire
<1>2. /\ wire' \in Seq(Requests \cup {"late"}) /\ Len(wire') = Len(wire)
      /\ \A i \in 1 .. Len(wire) : wire'[i] = IF wire[i] = "renew" THEN "late" ELSE wire[i]
  BY <1>1
<1>3. Wire'
  BY <1>1, <1>2 DEF Wire, Has
<1>4. ~Has("renew")' /\ \A q : Has(q)' => Has(q) \/ (q = "late" /\ Has("renew"))
  BY <1>1, <1>2 DEF Has
<1> QED
  BY <1>3, <1>4, Zenon

LEMMA InitWire == Init => WireInv
<1> SUFFICES ASSUME Init PROVE WireInv
  BY Zenon
<1>1. Wire /\ Len(wire) = 1 /\ wire[1] = "create"
  BY DEF Init, Wire, Requests
<1>2. ~Has("renew") /\ ~Has("release") /\ ~Has("late")
  BY <1>1 DEF Has
<1>3. answer \in [Requests \cup {"cleanup"} -> {"none", "ok", "refused", "broken"}]
  BY Zenon DEF Init, Requests
<1> QED
  BY <1>1, <1>2, <1>3, Zenon DEF Init, WireInv, Requests

LEMMA StepWire == WireInv /\ [Next]_vars => WireInv'
<1> SUFFICES ASSUME WireInv, [Next]_vars PROVE WireInv'
  BY Zenon
<1>f. ASSUME wire' = wire PROVE Wire' /\ \A q : Has(q)' <=> Has(q)
  BY <1>f, Zenon DEF WireInv, Wire, Has
<1>1. CASE ServeStep
  <2>1. /\ wire # <<>> /\ wire' = Tail(wire) /\ owner' = owner /\ hb' = hb
    BY <1>1, Zenon DEF ServeStep, handle_create_session_lease, handle_renew_session_lease, handle_release_session_lease,
       Serve, heartbeat
  <2>2. Wire' /\ (\A q : Has(q)' => Has(q)) /\ \A q : q = Head(wire) => ~Has(q)'
    BY <2>1, Serves, Zenon DEF WireInv
  <2>s. \E q \in Requests \cup {"late"}, r \in {"ok", "refused"} : q = Head(wire) /\ Reply(q, r)
    BY <1>1, Zenon DEF ServeStep, handle_create_session_lease, handle_renew_session_lease, handle_release_session_lease,
       Serve, Requests
  <2>l. ~Awaited("late")
    BY SMT DEF Awaited
  <2>3. \/ answer' = answer
        \/ /\ Awaited(Head(wire)) /\ Head(wire) \in Requests
           /\ \E r \in {"ok", "refused"} : answer' = [answer EXCEPT ![Head(wire)] = r]
    BY <2>s, <2>l, Zenon DEF Reply
  <2>4. CASE answer' = answer
    BY <2>1, <2>2, <2>4, Zenon DEF WireInv
  <2>5. CASE /\ Awaited(Head(wire)) /\ Head(wire) \in Requests
             /\ \E r \in {"ok", "refused"} : answer' = [answer EXCEPT ![Head(wire)] = r]
    <3>1. answer' \in [Requests \cup {"cleanup"} -> {"none", "ok", "refused", "broken"}]
      BY <2>5, Zenon DEF WireInv
    <3>2. \A q \in Requests : q # Head(wire) => answer'[q] = answer[q]
      BY <2>5, Zenon DEF WireInv
    <3> QED
      BY <2>1, <2>2, <2>5, <3>1, <3>2, Zenon DEF WireInv, Awaited, Requests
  <2> QED
    BY <2>3, <2>4, <2>5, Zenon
<1>2. CASE HeartbeatStep
  <2>0. owner' = owner
    BY <1>2, Zenon DEF HeartbeatStep, Beat, renew_lease_once, Renewed, NotRenewed, RenewTimeout, RequestTimeout, Backoff, Beating
  <2>1. CASE Beat \/ Backoff
    BY <2>0, <2>1, <1>f, Zenon DEF Beat, Backoff, WireInv
  <2>2. CASE renew_lease_once /\ wire' = wire
    BY <2>0, <2>2, <1>f, Zenon DEF renew_lease_once, Lost, StopHeartbeat, WireInv
  <2>3. CASE renew_lease_once /\ wire' # wire
    <3>1. wire' = Append(wire, "renew") /\ hb = "trying" /\ hb' = "waiting" /\ answer' = answer
      BY <2>3, Zenon DEF renew_lease_once
    <3>2. ~Has("renew") /\ ~Has("create") /\ owner # "starting"
      BY <3>1, Zenon DEF WireInv
    <3>3. Wire' /\ \A p : Has(p)' <=> Has(p) \/ p = "renew"
      BY <3>1, <3>2, Sends, Zenon DEF WireInv
    <3> QED
      BY <2>0, <3>1, <3>2, <3>3, Zenon DEF WireInv
  <2>4. CASE Renewed \/ NotRenewed \/ RenewTimeout
    <3>1. /\ hb = "waiting" /\ hb' # "waiting" /\ wire' = wire
          /\ answer' = [answer EXCEPT !["renew"] = "none"]
          /\ hb' = "off" \/ answer["renew"] # "none"
      BY <2>4, Zenon DEF Renewed, NotRenewed, RenewTimeout, Lost, StopHeartbeat
    <3>2. /\ answer' \in [Requests \cup {"cleanup"} -> {"none", "ok", "refused", "broken"}]
          /\ answer'["renew"] = "none" /\ \A q \in {"create", "release"} : answer'[q] = answer[q]
      BY <3>1, Zenon DEF WireInv, Requests
    <3> QED
      BY <2>0, <3>1, <3>2, <1>f, Zenon DEF WireInv
  <2>5. CASE RequestTimeout
    <3>1. /\ hb = "waiting" /\ hb' = "backoff" /\ answer' = [answer EXCEPT !["renew"] = "none"]
          /\ wire' = [i \in DOMAIN wire |-> IF wire[i] = "renew" THEN "late" ELSE wire[i]]
          /\ \A i \in DOMAIN wire : wire[i] # "late"
      BY <2>5, Zenon DEF RequestTimeout
    <3>2. /\ answer' \in [Requests \cup {"cleanup"} -> {"none", "ok", "refused", "broken"}]
          /\ answer'["renew"] = "none" /\ \A q \in {"create", "release"} : answer'[q] = answer[q]
      BY <3>1, Zenon DEF WireInv, Requests
    <3>3. ~Has("late")
      BY <3>1 DEF WireInv, Wire, Has
    <3>4. Wire' /\ ~Has("renew")' /\ \A q : Has(q)' => Has(q) \/ (q = "late" /\ Has("renew"))
      BY <3>1, <3>3, Marks, Zenon DEF WireInv
    <3>5. /\ Has("create")' => Has("create")
          /\ Has("release")' => Has("release")
      BY <3>4
    <3>6. owner # "starting" /\ owner \notin {"gone", "preserved", "cleaned"}
      BY <3>1, Zenon DEF WireInv
    <3> QED
      BY <2>0, <3>1, <3>2, <3>4, <3>5, <3>6, Zenon DEF WireInv
  <2> QED
    BY <1>2, <2>1, <2>2, <2>3, <2>4, <2>5, Zenon DEF HeartbeatStep
<1>3. CASE OwnerStep
  <2>1. CASE LeaseCreated
    <3>1. answer' \in [Requests \cup {"cleanup"} -> {"none", "ok", "refused", "broken"}]
          /\ answer'["renew"] = answer["renew"] /\ answer'["release"] = answer["release"]
      BY <2>1, Zenon DEF LeaseCreated, Forget, WireInv, Requests
    <3> QED
      BY <2>1, <3>1, <1>f, Zenon DEF LeaseCreated, WireInv
  <2>2. CASE rollback_owned_session_creation
    <3>1. answer' \in [Requests \cup {"cleanup"} -> {"none", "ok", "refused", "broken"}]
          /\ answer'["renew"] = answer["renew"] /\ answer'["release"] = answer["release"]
      BY <2>2, Zenon DEF rollback_owned_session_creation, Forget, WireInv, Requests
    <3> QED
      BY <2>2, <3>1, <1>f, Zenon DEF rollback_owned_session_creation, DropOwner, StopHeartbeat, WireInv
  <2>3. ASSUME wire' = wire, hb' = "off", owner \notin {"starting", "gone", "preserved", "cleaned"},
               owner' \in {"gone", "preserved", "cleaned"}, owner' # "gone" => ~Has("release"),
               answer'["renew"] = "none", answer'["release"] = "none",
               answer' \in [Requests \cup {"cleanup"} -> {"none", "ok", "refused", "broken"}]
        PROVE  WireInv'
    BY <2>3, <1>f, Zenon DEF WireInv
  <2>4. CASE drop
    <3>1. /\ answer' \in [Requests \cup {"cleanup"} -> {"none", "ok", "refused", "broken"}]
          /\ answer'["renew"] = "none" /\ answer'["release"] = "none"
      BY <2>4, Zenon DEF drop, WireInv, Requests
    <3> QED
      BY <2>3, <2>4, <3>1, Zenon DEF drop, DropOwner, StopHeartbeat
  <2>5. CASE preserve /\ owner' = "gone"
    <3>1. /\ answer' \in [Requests \cup {"cleanup"} -> {"none", "ok", "refused", "broken"}]
          /\ answer'["renew"] = "none" /\ answer'["release"] = "none"
      BY <2>5, Zenon DEF preserve, WireInv, Requests
    <3> QED
      BY <2>3, <2>5, <3>1, Zenon DEF preserve, DropOwner, StopHeartbeat
  <2>6. CASE preserve /\ owner' # "gone"
    <3>1. wire' = Append(wire, "release") /\ owner = "owned" /\ owner' = "releasing" /\ hb' = hb /\ answer' = answer
      BY <2>6, Zenon DEF preserve, DropOwner, heartbeat
    <3>2. ~Has("release") /\ ~Has("create")
      BY <3>1, Zenon DEF WireInv
    <3>3. Wire' /\ \A p : Has(p)' <=> Has(p) \/ p = "release"
      BY <3>1, <3>2, Sends, Zenon DEF WireInv
    <3> QED
      BY <3>1, <3>2, <3>3, Zenon DEF WireInv
  <2>7. CASE release_confirmed \/ ReleaseFails
    <3>1. /\ answer' \in [Requests \cup {"cleanup"} -> {"none", "ok", "refused", "broken"}]
          /\ answer'["renew"] = "none" /\ answer'["release"] = "none"
      BY <2>7, Zenon DEF release_confirmed, ReleaseFails, WireInv, Requests
    <3>2. owner' # "gone" => ~Has("release")
      BY <2>7, Zenon DEF release_confirmed, ReleaseFails, DropOwner, WireInv
    <3> QED
      BY <2>3, <2>7, <3>1, <3>2, Zenon DEF release_confirmed, ReleaseFails, DropOwner, StopHeartbeat
  <2>8. CASE cleanup
    BY <2>8, <1>f, Zenon DEF cleanup, heartbeat, WireInv
  <2>9. CASE Cleaned
    <3>1. /\ answer' \in [Requests \cup {"cleanup"} -> {"none", "ok", "refused", "broken"}]
          /\ answer'["renew"] = "none" /\ answer'["release"] = "none"
      BY <2>9, Zenon DEF Cleaned, WireInv, Requests
    <3>2. ~Has("release")
      BY <2>9, Zenon DEF Cleaned, WireInv
    <3> QED
      BY <2>3, <2>9, <3>1, <3>2, Zenon DEF Cleaned, StopHeartbeat
  <2>10. CASE CleanupFails
    <3>1. /\ answer' \in [Requests \cup {"cleanup"} -> {"none", "ok", "refused", "broken"}]
          /\ answer'["renew"] = answer["renew"] /\ answer'["release"] = answer["release"]
      BY <2>10, Zenon DEF CleanupFails, Forget, WireInv, Requests
    <3> QED
      BY <2>10, <3>1, <1>f, Zenon DEF CleanupFails, heartbeat, WireInv
  <2>11. CASE Crash
    <3>1. /\ answer' \in [Requests \cup {"cleanup"} -> {"none", "ok", "refused", "broken"}]
          /\ answer'["renew"] = "none" /\ answer'["release"] = "none"
      BY <2>11, Zenon DEF Crash, WireInv, Requests
    <3> QED
      BY <2>11, <3>1, <1>f, Zenon DEF Crash, StopHeartbeat, WireInv
  <2> QED
    BY <1>3, <2>1, <2>2, <2>4, <2>5, <2>6, <2>7, <2>8, <2>9, <2>10, <2>11, Zenon DEF OwnerStep
<1>4. CASE Disconnect
  <2>1. wire' = <<>> /\ owner' = owner /\ hb' = hb
    BY <1>4, Zenon DEF Disconnect, sdk, heartbeat
  <2>2. Wire' /\ \A q : ~Has(q)'
    BY <2>1 DEF Wire, Has
  <2>3. /\ answer' \in [Requests \cup {"cleanup"} -> {"none", "ok", "refused", "broken"}]
        /\ hb # "waiting" => answer'["renew"] = answer["renew"]
        /\ owner # "releasing" => answer'["release"] = answer["release"]
    BY <1>4, Zenon DEF Disconnect, WireInv, Requests, Awaited
  <2> QED
    BY <2>1, <2>2, <2>3, Zenon DEF WireInv
<1>5. CASE \E k \in kills : handle_kill_session(k) \/ LoseKill(k)
  <2>1. UNCHANGED <<wire, owner, hb>> /\ (answer' = answer \/ \E r \in {"ok", "refused"} : Reply("cleanup", r))
    BY <1>5, Zenon DEF handle_kill_session, LoseKill, heartbeat
  <2>2. /\ answer' \in [Requests \cup {"cleanup"} -> {"none", "ok", "refused", "broken"}]
        /\ \A q \in Requests : answer'[q] = answer[q]
    BY <2>1, Zenon DEF Reply, WireInv, Requests
  <2> QED
    BY <2>1, <2>2, <1>f, Zenon DEF WireInv, Requests
<1>6. CASE Tick \/ Suspend \/ reaper_wake \/ SignalStep \/ UNCHANGED vars
  <2>1. UNCHANGED <<wire, owner, hb, answer>>
    BY <1>6, Zenon DEF Tick, Suspend, Advance, reaper_wake, SignalStep, install_default_signal_handlers, try_begin_cleanup,
       finish_cleanup, release_guard, Signalling, sdk, heartbeat, vars
  <2> QED
    BY <2>1, <1>f, SMTT(30) DEF WireInv
<1>7. CASE \/ \E x \in expired : kill_expired_session_lease_identity(x)
           \/ \E e \in ending : remove_session_leases(e)
           \/ \E id \in Sessions : UserKill(id) \/ Takeover(id) \/ \E n \in Names : rename_session(id, n)
           \/ \E n \in Names : NewSession(n)
  <2>1. UNCHANGED <<wire, owner, hb, answer>>
    BY <1>7, Zenon DEF kill_expired_session_lease_identity, remove_session_leases, UserKill, Takeover, rename_session,
       NewSession, ByOthers, sdk, heartbeat
  <2> QED
    BY <2>1, <1>f, Zenon DEF WireInv
<1> QED
  BY <1>1, <1>2, <1>3, <1>4, <1>5, <1>6, <1>7, Zenon DEF Next

---------------------------------------------------------------------------
(* The server: tokens are handed out once, the owner's token is only on    *)
(* session 1, and a lease is under its session's name or about to go.      *)
Lease == [token : 1 .. MaxToken, current : Names, left : Int, age : Int, awake : Int, naps : Int, exposed : BOOLEAN]

Killers == [by : {"nobody", "user", "reaper", "rollback", "drop", "cleanup", "signal"}, token : Nat]

Entry(id) == /\ leases[id] \in Lease /\ leases[id].token <= next_token
             /\ leases[id].token = token => id = 1
             /\ names[id] = leases[id].current \/ [id |-> id, name |-> leases[id].current] \in ending

ServerInv ==
    /\ names \in [Sessions -> Names \cup {None}] /\ killer \in [Sessions -> Killers]
    /\ next_token \in 0 .. MaxToken /\ token \in 0 .. next_token
    /\ elapsed \in 0 .. MaxStall
    /\ expired \subseteq [id : Sessions, token : 1 .. MaxToken]
    /\ ending \subseteq [id : Sessions, name : Names]
    /\ DOMAIN leases \subseteq Sessions /\ \A id \in DOMAIN leases : Entry(id)
    /\ names[1] # None => killer[1] = Nobody
    /\ ~created => names[2] = None

LEMMA InitServer == Init => ServerInv
<1> SUFFICES ASSUME Init PROVE ServerInv
  BY Zenon
<1>1. DOMAIN leases = {}
  BY DEF Init
<1>2. (CHOOSE n \in Names : TRUE) \in Names
  BY NamesAssumption, Zenon
<1>3. names \in [Sessions -> Names \cup {None}] /\ names[2] = None
  BY <1>2 DEF Init, Sessions
<1>4. Nobody \in Killers
  BY Zenon DEF Nobody, Killers
<1>5. killer \in [Sessions -> Killers] /\ killer[1] = Nobody
  BY <1>4 DEF Init, Sessions
<1> QED
  BY <1>1, <1>3, <1>5, TimesAssumption DEF Init, ServerInv

(* A removal keeps every entry: it is on its way out under its name.       *)
LEMMA Removes ==
    ASSUME ServerInv, NEW id \in Sessions, NEW by \in Killers, names[id] # None,
           RemoveSession(id, by)
    PROVE  /\ names' \in [Sessions -> Names \cup {None}] /\ killer' \in [Sessions -> Killers]
           /\ ending' \subseteq [id : Sessions, name : Names]
           /\ \A i \in DOMAIN leases : \/ names'[i] = leases[i].current
                                       \/ [id |-> i, name |-> leases[i].current] \in ending'
           /\ names'[1] # None => killer'[1] = Nobody
           /\ names[2] = None => names'[2] = None
<1>1. /\ names' \in [Sessions -> Names \cup {None}] /\ killer' \in [Sessions -> Killers]
      /\ \A i \in Sessions : /\ names'[i] = IF i = id THEN None ELSE names[i]
                             /\ killer'[i] = IF i = id THEN by ELSE killer[i]
      /\ ending' = ending \cup {[id |-> id, name |-> names[id]]}
  BY Zenon DEF RemoveSession, ServerInv
<1>2. names[id] \in Names
  BY Zenon DEF ServerInv
<1>3. ending' \subseteq [id : Sessions, name : Names]
  BY <1>1, <1>2 DEF ServerInv
<1>4. ASSUME NEW i \in DOMAIN leases
      PROVE  names'[i] = leases[i].current \/ [id |-> i, name |-> leases[i].current] \in ending'
  BY <1>1, Zenon DEF ServerInv, Entry
<1>5. (names'[1] # None => killer'[1] = Nobody) /\ (names[2] = None => names'[2] = None)
  BY <1>1 DEF ServerInv, Sessions
<1> QED
  BY <1>1, <1>3, <1>4, <1>5, Zenon

(* A new lease has a new token.                                            *)
LEMMA Creates ==
    ASSUME ServerInv, NEW id \in Sessions, create_lease(id), UNCHANGED <<elapsed, expired>>,
           token' = token \/ (id = 1 /\ token' = next_token + 1)
    PROVE  ServerInv'
<1>1. /\ names[id] \in Names /\ next_token' = next_token + 1 /\ next_token' \in 1 .. MaxToken
      /\ UNCHANGED <<names, created, killer, ending>>
  BY TimesAssumption DEF create_lease, ServerInv
<1>2. /\ DOMAIN leases' = DOMAIN leases \cup {id}
      /\ leases'[id] = NewLease(next_token + 1, names[id])
      /\ \A i \in DOMAIN leases : i # id => leases'[i] = leases[i]
  BY Zenon DEF create_lease, Insert
<1>3. leases'[id] \in Lease /\ leases'[id].token = next_token' /\ leases'[id].current = names'[id]
  BY <1>1, <1>2, TimesAssumption DEF NewLease, Lease
<1>4. Entry(id)'
  BY <1>1, <1>3 DEF Entry, ServerInv
<1>5. ASSUME NEW i \in DOMAIN leases, i # id PROVE Entry(i)'
  <2>1. Entry(i) /\ leases'[i] = leases[i] /\ leases[i].token \in 1 .. MaxToken
    BY <1>2, <1>5, Zenon DEF ServerInv, Entry, Lease
  <2> QED
    BY <1>1, <2>1, SMTT(30) DEF Entry, ServerInv
<1>6. token' \in 0 .. next_token'
  BY <1>1, SMTT(30) DEF ServerInv
<1> QED
  BY <1>1, <1>2, <1>4, <1>5, <1>6 DEF ServerInv

(* The entries keep their tokens and names, or some of them go.            *)
LEMMA Keeps ==
    ASSUME ServerInv, UNCHANGED <<names, created, killer, ending, next_token, token>>,
           DOMAIN leases' \subseteq DOMAIN leases,
           \A id \in DOMAIN leases' : /\ leases'[id] \in Lease
                                      /\ leases'[id].token = leases[id].token
                                      /\ leases'[id].current = leases[id].current,
           elapsed' \in 0 .. MaxStall, expired' \subseteq [id : Sessions, token : 1 .. MaxToken]
    PROVE  ServerInv'
<1>1. \A id \in DOMAIN leases' : Entry(id)'
  BY Zenon DEF ServerInv, Entry
<1> QED
  BY <1>1, Zenon DEF ServerInv

LEMMA StepServer == ServerInv /\ WireInv /\ kills \subseteq {"rollback", "drop", "cleanup", "signal"} /\ [Next]_vars => ServerInv'
<1> SUFFICES ASSUME ServerInv, WireInv, kills \subseteq {"rollback", "drop", "cleanup", "signal"}, [Next]_vars PROVE ServerInv'
  BY Zenon
<1>1. CASE HeartbeatStep \/ OwnerStep \/ SignalStep \/ Disconnect \/ (\E k \in kills : LoseKill(k)) \/ UNCHANGED vars
  <2>1. UNCHANGED <<names, created, killer, leases, next_token, token, elapsed, expired, ending>>
    <3>1. CASE HeartbeatStep
      BY <3>1, SMTT(30) DEF HeartbeatStep, Beat, renew_lease_once, Renewed, NotRenewed, RenewTimeout, RequestTimeout, Backoff, Beating, server
    <3>2. CASE OwnerStep
      BY <3>2, SMTT(30) DEF OwnerStep, LeaseCreated, rollback_owned_session_creation, drop, preserve, release_confirmed,
         ReleaseFails, cleanup, Cleaned, CleanupFails, Crash, Owning, server
    <3>3. CASE SignalStep \/ Disconnect \/ (\E k \in kills : LoseKill(k)) \/ UNCHANGED vars
      BY <3>3, SMTT(30) DEF SignalStep, install_default_signal_handlers, try_begin_cleanup, finish_cleanup, release_guard,
         Signalling, Disconnect, LoseKill, server, sdk, vars
    <3> QED
      BY SMTT(30), <1>1, <3>1, <3>2, <3>3
  <2> QED
    BY <2>1, Zenon DEF ServerInv, Entry
<1>2. CASE Tick \/ Suspend
  <2>1. PICK d \in {1, Threshold}, slept \in BOOLEAN : Advance(d, slept)
    BY <1>2, Zenon DEF Tick, Suspend
  <2>2. d \in Nat
    BY TimesAssumption
  <2>3. /\ UNCHANGED <<names, created, killer, ending, next_token, token, expired>> /\ DOMAIN leases' = DOMAIN leases
        /\ janitor => elapsed + d <= MaxStall
        /\ elapsed' = IF janitor THEN elapsed + d ELSE 0
    BY <2>1, Zenon DEF Advance, sdk
  <2>4. elapsed' \in 0 .. MaxStall
    <3>1. elapsed \in 0 .. MaxStall /\ MaxStall \in Nat
      BY TimesAssumption, Zenon DEF ServerInv
    <3> QED
      BY <2>2, <2>3, <3>1
  <2>5. ASSUME NEW id \in DOMAIN leases
        PROVE  /\ leases'[id] \in Lease
               /\ leases'[id].token = leases[id].token /\ leases'[id].current = leases[id].current
    <3> DEFINE l == leases[id]
               left == Bounded(l.left - d, -MaxStall, Ttl)
               age == Bounded(l.age + d, 0, MaxStall)
               awake == IF slept THEN l.awake ELSE Bounded(l.awake + d, 0, Ttl)
               naps == IF slept THEN Bounded(l.naps + 1, 0, Ttl) ELSE l.naps
               exposed == l.exposed \/ (slept /\ (l.age <= elapsed - Interval \/ \E x \in expired : x.id = id))
    <3>1. l \in Lease
      BY Zenon DEF ServerInv, Entry
    <3>2. l.left \in Int /\ l.age \in Int /\ l.awake \in Int /\ l.naps \in Int
      BY <3>1, Zenon DEF Lease
    <3>3. leases'[id] = [l EXCEPT !.left = left, !.age = age, !.awake = awake, !.naps = naps, !.exposed = exposed]
      BY <2>1, Zenon DEF Advance
    <3>4. MaxStall \in Int /\ -MaxStall \in Int /\ Ttl \in Int /\ 0 \in Int
      BY TimesAssumption
    <3> HIDE DEF l
    <3>5. left \in Int
      BY <2>2, <3>2, <3>4 DEF Bounded
    <3>6. age \in Int
      BY <2>2, <3>2, <3>4 DEF Bounded
    <3>7. awake \in Int
      BY <2>2, <3>2, <3>4 DEF Bounded
    <3>8. naps \in Int
      BY <2>2, <3>2, <3>4 DEF Bounded
    <3>9. exposed \in BOOLEAN
      BY Zenon
    <3> HIDE DEF left, age, awake, naps, exposed
    <3>10. leases'[id] \in Lease /\ leases'[id].token = l.token /\ leases'[id].current = l.current
      BY <3>1, <3>3, <3>5, <3>6, <3>7, <3>8, <3>9, Zenon DEF Lease
    <3> QED
      BY <3>10, Zenon DEF l
  <2> QED
    BY <2>3, <2>4, <2>5, Keeps, Zenon DEF ServerInv
<1>3. CASE reaper_wake
  <2> DEFINE kept == [id \in DOMAIN leases |-> preserve_budget_across_reaper_pause(leases[id])]
  <2>1. /\ UNCHANGED <<names, created, killer, ending, next_token, token>> /\ leases' = kept /\ elapsed' = 0
        /\ expired' = {[id |-> id, token |-> kept[id].token] : id \in {i \in DOMAIN kept : is_expired(kept[i])}}
    BY <1>3, Zenon DEF reaper_wake, sdk
  <2>2. ASSUME NEW id \in DOMAIN leases
        PROVE  /\ kept[id] \in Lease
               /\ kept[id].token = leases[id].token /\ kept[id].current = leases[id].current
    <3>0. leases[id] \in Lease /\ elapsed \in 0 .. MaxStall /\ MaxStall \in Nat
      BY TimesAssumption, ZenonT(30) DEF ServerInv, Entry
    <3>1. leases[id] \in Lease /\ leases[id].left \in Int /\ elapsed \in Int
      BY <3>0 DEF Lease
    <3>2. kept[id] = leases[id] \/ \E n \in Int : kept[id] = [leases[id] EXCEPT !.left = n]
      BY <3>1 DEF preserve_budget_across_reaper_pause, Interval
    <3> QED
      BY <3>1, <3>2, Zenon DEF Lease
  <2>3. expired' \subseteq [id : Sessions, token : 1 .. MaxToken]
    <3>1. \A id \in DOMAIN kept : id \in Sessions /\ kept[id].token \in 1 .. MaxToken
      BY <2>2, Zenon DEF ServerInv, Lease
    <3> HIDE DEF kept
    <3> QED
      BY <2>1, <3>1
  <2> QED
    BY <2>1, <2>2, <2>3, Keeps, TimesAssumption
<1>r. ASSUME NEW id \in Sessions, NEW by \in Killers, names[id] # None, RemoveSession(id, by),
             UNCHANGED <<created, next_token, token, elapsed>>, expired' \subseteq expired,
             DOMAIN leases' \subseteq DOMAIN leases, \A i \in DOMAIN leases' : leases'[i] = leases[i]
      PROVE  ServerInv'
  <2>1. /\ names' \in [Sessions -> Names \cup {None}] /\ killer' \in [Sessions -> Killers]
        /\ ending' \subseteq [id : Sessions, name : Names]
        /\ \A i \in DOMAIN leases : \/ names'[i] = leases[i].current
                                    \/ [id |-> i, name |-> leases[i].current] \in ending'
        /\ names'[1] # None => killer'[1] = Nobody
        /\ names[2] = None => names'[2] = None
    BY SMTT(30), <1>r, Removes
  <2>2. \A i \in DOMAIN leases' : Entry(i)'
    BY <1>r, <2>1, Zenon DEF ServerInv, Entry
  <2> QED
    BY <1>r, <2>1, <2>2, Zenon DEF ServerInv
<1>4. ASSUME NEW x \in expired, kill_expired_session_lease_identity(x) PROVE ServerInv'
  <2>1. x.id \in Sessions /\ x.token \in 1 .. MaxToken
    BY SMTT(30) DEF ServerInv
  <2>2. /\ UNCHANGED <<created, next_token, token, elapsed>> /\ expired' \subseteq expired
    BY <1>4, Zenon DEF kill_expired_session_lease_identity, sdk
  <2>3. CASE names[x.id] # None /\ claim_expired(x)
    <3>1. /\ leases' = Without(x.id)
          /\ \/ RemoveSession(x.id, [by |-> "reaper", token |-> x.token])
             \/ UNCHANGED <<names, killer, ending>>
      BY <1>4, <2>3, Zenon DEF kill_expired_session_lease_identity
    <3>2. [by |-> "reaper", token |-> x.token] \in Killers
      BY <2>1, SMTT(30) DEF Killers
    <3>3. CASE RemoveSession(x.id, [by |-> "reaper", token |-> x.token])
      BY <1>r, <2>1, <2>2, <2>3, <3>1, <3>2, <3>3, Zenon DEF Without
    <3>4. CASE UNCHANGED <<names, killer, ending>>
      BY <2>2, <3>1, <3>4, SMTT(30) DEF ServerInv, Entry, Without
    <3> QED
      BY <3>1, <3>3, <3>4, Zenon
  <2>4. CASE ~(names[x.id] # None /\ claim_expired(x))
    <3>1. UNCHANGED <<names, killer, ending, leases>>
      BY <1>4, <2>4, Zenon DEF kill_expired_session_lease_identity
    <3> QED
      BY <2>2, <3>1, SMTT(30) DEF ServerInv, Entry
  <2> QED
    BY <2>3, <2>4, Zenon
<1>5. ASSUME NEW e \in ending, remove_session_leases(e) PROVE ServerInv'
  <2>1. UNCHANGED <<names, created, killer, next_token, token, elapsed, expired>> /\ ending' = ending \ {e}
    BY <1>5, Zenon DEF remove_session_leases, sdk
  <2>2. /\ DOMAIN leases' \subseteq DOMAIN leases
        /\ \A i \in DOMAIN leases' : leases'[i] = leases[i] /\ ~(i = e.id /\ leases[i].current = e.name)
    BY <1>5, Zenon DEF remove_session_leases, Without
  <2>3. \A i \in DOMAIN leases' : [id |-> i, name |-> leases[i].current] # e
    BY SMTT(30), <2>2
  <2>4. \A i \in DOMAIN leases' : Entry(i)'
    BY <2>1, <2>2, <2>3, Zenon DEF ServerInv, Entry
  <2> QED
    BY <2>1, <2>2, <2>4, SMTT(30) DEF ServerInv
<1>7. ASSUME NEW id \in Sessions, UserKill(id) PROVE ServerInv'
  <2>1. [by |-> "user", token |-> 0] \in Killers
    BY Zenon DEF Killers
  <2> QED
    BY <1>r, <1>7, <2>1, Zenon DEF UserKill, ByOthers, sdk
<1>8. ASSUME NEW k \in kills, handle_kill_session(k) PROVE ServerInv'
  <2>1. UNCHANGED <<created, leases, next_token, token, elapsed, expired>> /\ 1 \in Sessions
    BY <1>8 DEF handle_kill_session, Sessions
  <2>2. [by |-> k, token |-> 0] \in Killers
    BY Zenon DEF Killers
  <2>3. CASE names[1] # None
    BY <1>r, <1>8, <2>1, <2>2, <2>3, SMTT(30) DEF handle_kill_session
  <2>4. CASE names[1] = None
    BY <1>8, <2>1, <2>4 DEF handle_kill_session, ServerInv, Entry
  <2> QED
    BY <2>3, <2>4, Zenon
<1>9. ASSUME NEW n \in Names, NewSession(n) PROVE ServerInv'
  <2>1. /\ UNCHANGED <<killer, leases, next_token, token, elapsed, expired, ending>>
        /\ names' = [names EXCEPT ![2] = n]
    BY <1>9, Zenon DEF NewSession, ByOthers, sdk
  <2>2. names' \in [Sessions -> Names \cup {None}] /\ names'[1] = names[1] /\ names[2] = None /\ created'
    BY <1>9, <2>1 DEF NewSession, ServerInv, Sessions
  <2>3. ASSUME NEW i \in DOMAIN leases PROVE Entry(i)'
    <3>1. Entry(i) /\ i \in {1, 2} /\ leases[i].current \in Names
      BY DEF ServerInv, Sessions, Entry, Lease
    <3> QED
      BY <2>1, <2>2, <3>1, NamesAssumption, SMTT(30) DEF Entry
  <2> QED
    BY <2>1, <2>2, <2>3, Zenon DEF ServerInv
<1>10. ASSUME NEW id \in Sessions, NEW n \in Names, rename_session(id, n) PROVE ServerInv'
  <2>1. /\ UNCHANGED <<created, killer, next_token, token, elapsed, expired, ending>>
        /\ names' = [names EXCEPT ![id] = n] /\ names[id] # None
        /\ leases' = IF id \in DOMAIN leases /\ leases[id].current = names[id]
                     THEN [leases EXCEPT ![id].current = n] ELSE leases
    BY <1>10, Zenon DEF rename_session, ByOthers, sdk
  <2>2. /\ names' \in [Sessions -> Names \cup {None}]
        /\ \A i \in Sessions : names'[i] = IF i = id THEN n ELSE names[i]
    BY <2>1, Zenon DEF ServerInv
  <2>3. DOMAIN leases' = DOMAIN leases
    BY <2>1, Zenon
  <2>4. ASSUME NEW i \in DOMAIN leases PROVE Entry(i)'
    <3>1. Entry(i) /\ i \in Sessions /\ leases[i] \in Lease
      BY Zenon DEF ServerInv, Entry
    <3>2. CASE i = id /\ leases[id].current = names[id]
      <4>1. leases'[i] = [leases[i] EXCEPT !.current = n]
        BY <2>1, <3>2, Zenon
      <4>2. leases'[i] \in Lease /\ leases'[i].token = leases[i].token /\ leases'[i].current = n
        BY <3>1, <4>1, Zenon DEF Lease
      <4> QED
        BY <2>1, <2>2, <3>1, <3>2, <4>2, Zenon DEF Entry
    <3>3. CASE ~(i = id /\ leases[id].current = names[id])
      <4>1. leases'[i] = leases[i]
        BY <2>1, <3>3, Zenon
      <4> QED
        BY <2>1, <2>2, <3>1, <3>3, <4>1, Zenon DEF Entry
    <3> QED
      BY SMTT(30), <3>2, <3>3
  <2>5. (names'[1] # None => killer'[1] = Nobody) /\ (~created' => names'[2] = None)
    BY <2>1, <2>2 DEF ServerInv, Sessions
  <2> QED
    BY <2>1, <2>2, <2>3, <2>4, <2>5, Zenon DEF ServerInv
<1>11. ASSUME NEW id \in Sessions, Takeover(id) PROVE ServerInv'
  BY <1>11, Creates, Zenon DEF Takeover, ByOthers, sdk
<1>12. CASE handle_create_session_lease
  <2>1. UNCHANGED <<elapsed, expired>> /\ 1 \in Sessions
    BY <1>12 DEF handle_create_session_lease, Serve, Sessions
  <2>2. CASE create_lease(1) /\ token' = next_token + 1
    BY SMTT(30), <2>1, <2>2, Creates
  <2>3. CASE UNCHANGED <<names, created, killer, leases, next_token, janitor, ending, token>>
    BY <2>1, <2>3, Zenon DEF ServerInv, Entry
  <2> QED
    BY <1>12, <2>2, <2>3, Zenon DEF handle_create_session_lease
<1>13. CASE handle_renew_session_lease
  <2>1. UNCHANGED <<names, created, killer, ending, next_token, token, elapsed, expired>>
    BY <1>13, SMTT(30) DEF handle_renew_session_lease, Serve
  <2>2. CASE \E id \in live_session(token) : leases' = [leases EXCEPT ![id] = NewLease(token, @.current)]
    <3>1. PICK id \in DOMAIN leases : leases[id].token = token /\ leases' = [leases EXCEPT ![id] = NewLease(token, leases[id].current)]
      BY <2>2, Zenon DEF live_session
    <3>2. token \in 1 .. MaxToken /\ leases[id].current \in Names
      BY <3>1, Zenon DEF ServerInv, Entry, Lease
    <3>3. /\ NewLease(token, leases[id].current) \in Lease
          /\ NewLease(token, leases[id].current).token = token
          /\ NewLease(token, leases[id].current).current = leases[id].current
      BY <3>2, TimesAssumption DEF NewLease, Lease
    <3>4. DOMAIN leases' = DOMAIN leases /\ \A i \in DOMAIN leases : leases[i] \in Lease
      BY <3>1, Zenon DEF ServerInv, Entry
    <3>5. \A i \in DOMAIN leases : /\ leases'[i] \in Lease
                                    /\ leases'[i].token = leases[i].token
                                    /\ leases'[i].current = leases[i].current
      BY <3>1, <3>3, <3>4, Zenon
    <3> QED
      BY <2>1, <3>4, <3>5, Keeps, Zenon DEF ServerInv
  <2>3. CASE leases' = leases
    BY <2>1, <2>3, Zenon DEF ServerInv, Entry
  <2> QED
    BY <1>13, <2>2, <2>3, Zenon DEF handle_renew_session_lease
<1>14. CASE handle_release_session_lease
  <2>1. UNCHANGED <<names, created, killer, ending, next_token, token, elapsed, expired>>
    BY <1>14, Zenon DEF handle_release_session_lease, Serve
  <2>2. DOMAIN leases' \subseteq DOMAIN leases /\ \A i \in DOMAIN leases' : leases'[i] = leases[i]
    BY <1>14, Zenon DEF handle_release_session_lease, Without
  <2>3. \A i \in DOMAIN leases' : Entry(i)'
    BY <2>1, <2>2, Zenon DEF ServerInv, Entry
  <2> QED
    BY <2>1, <2>2, <2>3, Zenon DEF ServerInv
<1> QED
  BY <1>1, <1>2, <1>3, <1>4, <1>5, <1>7, <1>8, <1>9, <1>10, <1>11, <1>12, <1>13, <1>14, Zenon DEF Next, ServeStep

---------------------------------------------------------------------------
(* The SDK: a kill by drop or rollback is on its way only when the owner   *)
(* is gone, a kill by signal only when the handler fired; and once the     *)
(* release was answered no lease has the owner's token.                    *)
SdkTypes ==
    /\ connected \in BOOLEAN
    /\ kills \subseteq {"rollback", "drop", "cleanup", "signal"}
    /\ owner \in {"starting", "owned", "releasing", "preserved", "cleaning", "cleaned", "gone"}
    /\ lease_state \in {"NotLeased", "Active", "Lost"}
    /\ hb \in {"off", "sleeping", "trying", "waiting", "backoff"}
    /\ phase \in {"Idle", "Armed", "Firing", "Finished", "Disarmed"}

Released == /\ \A id \in DOMAIN leases : leases[id].token # token
            /\ killer[1] # [by |-> "reaper", token |-> token]

KillsInv ==
    /\ owner # "gone" => kills \cap {"drop", "rollback"} = {} /\ killer[1].by \notin {"drop", "rollback"}
    /\ "signal" \in kills \/ killer[1].by = "signal" => phase \in {"Firing", "Finished"} \/ owner = "gone"
    /\ owner \in {"releasing", "preserved"} => phase \in {"Idle", "Disarmed"}

ReleaseInv == owner = "preserved" \/ answer["release"] = "ok" => Released

LeaseInv == WireInv /\ ServerInv /\ SdkTypes /\ KillsInv /\ ReleaseInv

LEMMA InitLease == Init => LeaseInv
<1> SUFFICES ASSUME Init PROVE LeaseInv
  BY Zenon
<1>1. WireInv /\ ServerInv
  BY InitWire, InitServer, Zenon
<1>2. SdkTypes /\ answer["release"] = "none"
  BY Zenon DEF Init, SdkTypes
<1>3. KillsInv
  BY DEF Init, KillsInv, Nobody, Sessions
<1> QED
  BY <1>1, <1>2, <1>3, Zenon DEF Init, LeaseInv, ReleaseInv

LEMMA StepSdk == SdkTypes /\ KillsInv /\ ServerInv /\ [Next]_vars => SdkTypes' /\ KillsInv'
<1> SUFFICES ASSUME SdkTypes, KillsInv, ServerInv, [Next]_vars PROVE SdkTypes' /\ KillsInv'
  BY Zenon
<1>1. CASE HeartbeatStep
  <2>1. UNCHANGED <<killer, owner, phase, kills, connected>>
    BY <1>1, Zenon DEF HeartbeatStep, Beat, renew_lease_once, Renewed, NotRenewed, RenewTimeout, RequestTimeout, Backoff, Beating, server
  <2>2. lease_state' \in {lease_state, "Lost"} /\ hb' \in {"off", "sleeping", "trying", "waiting", "backoff"}
    BY <1>1, Zenon DEF HeartbeatStep, Beat, renew_lease_once, Renewed, NotRenewed, RenewTimeout, RequestTimeout, Backoff, Lost, StopHeartbeat
  <2> QED
    BY <2>1, <2>2, Zenon DEF SdkTypes, KillsInv
<1>2. CASE OwnerStep
  <2>1. killer' = killer /\ connected' = connected
    BY <1>2, SMTT(30) DEF OwnerStep, LeaseCreated, rollback_owned_session_creation, drop, preserve, release_confirmed,
       ReleaseFails, cleanup, Cleaned, CleanupFails, Crash, Owning, server
  <2>2. CASE LeaseCreated
    BY <2>1, <2>2, SMTT(30) DEF LeaseCreated, SdkTypes, KillsInv
  <2>3. CASE rollback_owned_session_creation \/ drop \/ ReleaseFails
    BY <2>1, <2>3, Zenon DEF rollback_owned_session_creation, drop, ReleaseFails, DropOwner, StopHeartbeat, SdkTypes, KillsInv
  <2>4. CASE preserve
    BY <2>1, <2>4, Zenon DEF preserve, DropOwner, StopHeartbeat, heartbeat, SdkTypes, KillsInv
  <2>5. CASE release_confirmed \/ Cleaned
    BY <2>1, <2>5, Zenon DEF release_confirmed, Cleaned, StopHeartbeat, SdkTypes, KillsInv
  <2>6. CASE cleanup \/ CleanupFails
    BY <2>1, <2>6, Zenon DEF cleanup, CleanupFails, heartbeat, SdkTypes, KillsInv
  <2>7. CASE Crash
    BY <2>1, <2>7, Zenon DEF Crash, StopHeartbeat, SdkTypes, KillsInv
  <2> QED
    BY <1>2, <2>2, <2>3, <2>4, <2>5, <2>6, <2>7, SMTT(30) DEF OwnerStep
<1>3. CASE SignalStep
  BY <1>3, ZenonT(30) DEF SignalStep, install_default_signal_handlers, try_begin_cleanup, finish_cleanup, release_guard,
     Signalling, server, heartbeat, SdkTypes, KillsInv
<1>4. CASE Disconnect \/ UNCHANGED vars
  BY <1>4, ZenonT(30) DEF Disconnect, server, sdk, heartbeat, vars, SdkTypes, KillsInv
<1>5. ASSUME NEW k \in kills, handle_kill_session(k) \/ LoseKill(k) PROVE SdkTypes' /\ KillsInv'
  <2>1. UNCHANGED <<owner, phase, lease_state, hb, connected>> /\ kills' \subseteq kills
    BY <1>5, Zenon DEF handle_kill_session, LoseKill, heartbeat
  <2>2. killer'[1] = killer[1] \/ killer'[1] = [by |-> k, token |-> 0]
    BY <1>5, Zenon DEF handle_kill_session, LoseKill, RemoveSession, server, ServerInv, Sessions
  <2> QED
    BY <2>1, <2>2 DEF SdkTypes, KillsInv
<1>6. ASSUME UNCHANGED <<owner, phase, lease_state, hb, connected, kills>>,
             killer'[1] = killer[1] \/ killer'[1].by \in {"user", "reaper"}
      PROVE  SdkTypes' /\ KillsInv'
  BY <1>6 DEF SdkTypes, KillsInv
<1>7. CASE Tick \/ Suspend \/ reaper_wake
  BY <1>6, <1>7, Zenon DEF Tick, Suspend, Advance, reaper_wake, sdk, heartbeat
<1>8. ASSUME NEW x \in expired, kill_expired_session_lease_identity(x) PROVE SdkTypes' /\ KillsInv'
  BY <1>6, <1>8, SMTT(30) DEF kill_expired_session_lease_identity, RemoveSession, sdk, heartbeat, ServerInv, Sessions
<1>9. ASSUME NEW e \in ending, remove_session_leases(e) PROVE SdkTypes' /\ KillsInv'
  BY <1>6, <1>9, Zenon DEF remove_session_leases, sdk, heartbeat
<1>10. ASSUME NEW id \in Sessions, UserKill(id) \/ Takeover(id) \/ \E n \in Names : rename_session(id, n)
       PROVE SdkTypes' /\ KillsInv'
  BY <1>6, <1>10, SMTT(30) DEF UserKill, Takeover, create_lease, rename_session, ByOthers, RemoveSession, sdk, heartbeat, ServerInv,
     Sessions
<1>11. ASSUME NEW n \in Names, NewSession(n) PROVE SdkTypes' /\ KillsInv'
  BY <1>6, <1>11, SMTT(30) DEF NewSession, ByOthers, sdk, heartbeat
<1>12. CASE ServeStep
  BY <1>6, <1>12, Zenon DEF ServeStep, handle_create_session_lease, handle_renew_session_lease, handle_release_session_lease,
     create_lease, Serve, heartbeat
<1> QED
  BY <1>1, <1>2, <1>3, <1>4, <1>5, <1>7, <1>8, <1>9, <1>10, <1>11, <1>12, Zenon DEF Next

(* The reaper, the removals and the other clients put no lease back under  *)
(* the owner's token.                                                      *)
LEMMA StepRelease == LeaseInv /\ [Next]_vars => ReleaseInv'
<1> SUFFICES ASSUME LeaseInv, [Next]_vars, owner' = "preserved" \/ answer'["release"] = "ok" PROVE Released'
  BY Zenon DEF ReleaseInv
<1>0. ASSUME NEW id \in DOMAIN leases PROVE leases[id].token \in 1 .. MaxToken /\ leases[id].token <= next_token
  BY Zenon DEF LeaseInv, ServerInv, Entry, Lease
<1>1. ASSUME handle_release_session_lease, NEW id \in live_session(token), leases' = Without(id) PROVE Released'
  <2>1. /\ id = 1 /\ id \in DOMAIN leases /\ names[id] = leases[id].current
        /\ \A i \in DOMAIN leases : leases[i].token = token => i = 1
    BY Zenon DEF live_session, LeaseInv, ServerInv, Entry
  <2>2. names[1] # None
    BY <2>1, NamesAssumption, Zenon DEF LeaseInv, ServerInv, Entry, Lease
  <2>3. killer'[1] = Nobody /\ token' = token
    BY <1>1, <2>2, Zenon DEF handle_release_session_lease, LeaseInv, ServerInv
  <2>4. \A i \in DOMAIN leases' : leases'[i].token # token
    BY <1>1, <2>1, Zenon DEF Without
  <2> QED
    BY <2>3, <2>4 DEF Released, Nobody
<1> DEFINE Before == owner = "preserved" \/ answer["release"] = "ok"
<1>2. Before => Released /\ ~Has("create") /\ owner \in {"releasing", "preserved"}
  BY Zenon DEF LeaseInv, ReleaseInv, WireInv
<1>k. ASSUME Before, UNCHANGED token, DOMAIN leases' \subseteq DOMAIN leases,
             \A i \in DOMAIN leases' : leases'[i].token = leases[i].token,
             killer'[1] = killer[1] \/ killer'[1].by # "reaper"
      PROVE  Released'
  BY <1>k, <1>2 DEF Released
<1>3. CASE HeartbeatStep \/ SignalStep \/ Disconnect \/ UNCHANGED vars
  <2>1. UNCHANGED <<owner, token, leases, killer>> /\ (answer'["release"] = "ok" => answer["release"] = "ok")
    <3>1. CASE HeartbeatStep
      <4>1. answer' = answer \/ answer' = [answer EXCEPT !["renew"] = "none"]
        BY <3>1, Zenon DEF HeartbeatStep, Beat, renew_lease_once, Renewed, NotRenewed, RenewTimeout, RequestTimeout, Backoff
      <4>2. answer'["release"] = answer["release"]
        BY <4>1, SMTT(30) DEF LeaseInv, WireInv, Requests
      <4>3. UNCHANGED <<owner, token, leases, killer>>
        BY <3>1, SMTT(30) DEF HeartbeatStep, Beat, renew_lease_once, Renewed, NotRenewed, RenewTimeout, RequestTimeout, Backoff, Beating, server
      <4> QED
        BY <4>2, <4>3, Zenon
    <3>2. CASE SignalStep \/ UNCHANGED vars
      BY <3>2, Zenon DEF SignalStep, install_default_signal_handlers, try_begin_cleanup, finish_cleanup, release_guard,
         Signalling, server, sdk, vars
    <3>3. CASE Disconnect
      BY <3>3, Zenon DEF Disconnect, server, sdk, LeaseInv, WireInv, Requests
    <3> QED
      BY <1>3, <3>1, <3>2, <3>3, Zenon
  <2> QED
    BY <1>k, <2>1, Zenon
<1>4. CASE OwnerStep
  <2>1. UNCHANGED <<token, leases, killer>>
    BY <1>4, SMTT(30) DEF OwnerStep, LeaseCreated, rollback_owned_session_creation, drop, preserve, release_confirmed,
       ReleaseFails, cleanup, Cleaned, CleanupFails, Crash, Owning, server
  <2>2. owner' = "preserved" => answer["release"] = "ok"
    BY <1>4, SMTT(30) DEF OwnerStep, LeaseCreated, rollback_owned_session_creation, drop, preserve, release_confirmed,
       ReleaseFails, cleanup, Cleaned, CleanupFails, Crash, DropOwner
  <2>3. answer'["release"] = "ok" => answer["release"] = "ok"
    BY <1>4, SMTT(30) DEF OwnerStep, LeaseCreated, rollback_owned_session_creation, drop, preserve, release_confirmed,
       ReleaseFails, cleanup, Cleaned, CleanupFails, Crash, Forget, LeaseInv, WireInv, Requests
  <2> QED
    BY SMTT(30), <1>k, <2>1, <2>2, <2>3
<1>5. ASSUME NEW k \in kills, handle_kill_session(k) \/ LoseKill(k) PROVE Released'
  <2>1. UNCHANGED <<owner, token, leases>>
    BY <1>5, SMTT(30) DEF handle_kill_session, LoseKill, server
  <2>2. answer'["release"] = answer["release"]
    BY <1>5, SMTT(30) DEF handle_kill_session, LoseKill, Reply, LeaseInv, WireInv, Requests
  <2>3. killer'[1] = killer[1] \/ killer'[1] = [by |-> k, token |-> 0]
    BY <1>5 DEF handle_kill_session, LoseKill, RemoveSession, server, LeaseInv, ServerInv, Sessions
  <2>4. k # "reaper"
    BY Zenon DEF LeaseInv, SdkTypes
  <2> QED
    BY <1>k, <2>1, <2>2, <2>3, <2>4
<1>6. CASE Tick \/ Suspend \/ reaper_wake
  <2>1. UNCHANGED <<owner, answer, token, killer>> /\ DOMAIN leases' = DOMAIN leases
    BY <1>6, Zenon DEF Tick, Suspend, Advance, reaper_wake, sdk
  <2>2. ASSUME NEW i \in DOMAIN leases PROVE leases'[i].token = leases[i].token
    <3>1. leases[i] \in Lease
      BY Zenon DEF LeaseInv, ServerInv, Entry
    <3>2. CASE Tick \/ Suspend
      <4>1. PICK d \in {1, Threshold}, slept \in BOOLEAN : Advance(d, slept)
        BY <3>2, Zenon DEF Tick, Suspend
      <4>2. \E left, age, awake, naps, exposed :
              leases'[i] = [leases[i] EXCEPT !.left = left, !.age = age, !.awake = awake, !.naps = naps,
                                             !.exposed = exposed]
        BY <4>1, Zenon DEF Advance
      <4> QED
        BY <3>1, <4>2, Zenon DEF Lease
    <3>3. CASE reaper_wake
      <4>1. leases'[i] = leases[i] \/ \E left : leases'[i] = [leases[i] EXCEPT !.left = left]
        BY <3>3, Zenon DEF reaper_wake, preserve_budget_across_reaper_pause
      <4> QED
        BY <3>1, <4>1, Zenon DEF Lease
    <3> QED
      BY SMTT(30), <1>6, <3>2, <3>3
  <2> QED
    BY SMTT(30), <1>k, <2>1, <2>2
<1>7. ASSUME NEW x \in expired, kill_expired_session_lease_identity(x) PROVE Released'
  <2>1. UNCHANGED <<owner, answer, token>> /\ Before
    BY <1>7, Zenon DEF kill_expired_session_lease_identity, sdk
  <2>2. CASE names[x.id] # None /\ claim_expired(x)
    <3>1. /\ leases' = Without(x.id)
          /\ killer' = killer \/ RemoveSession(x.id, [by |-> "reaper", token |-> x.token])
      BY <1>7, <2>2, Zenon DEF kill_expired_session_lease_identity
    <3>t. x.token # token
      BY <1>2, <2>1, <2>2, SMTT(30) DEF claim_expired, Released
    <3>2. killer'[1] = killer[1] \/ killer'[1] = [by |-> "reaper", token |-> x.token]
      BY <3>1, SMTT(30) DEF RemoveSession, LeaseInv, ServerInv, Sessions
    <3>3. DOMAIN leases' \subseteq DOMAIN leases /\ \A i \in DOMAIN leases' : leases'[i] = leases[i]
      BY <3>1, Zenon DEF Without
    <3>4. [by |-> "reaper", token |-> x.token] # [by |-> "reaper", token |-> token]
      BY SMTT(30), <3>t
    <3> QED
      BY <1>2, <2>1, <3>2, <3>3, <3>4, SMTT(30) DEF Released
  <2>3. CASE ~(names[x.id] # None /\ claim_expired(x))
    BY <1>k, <1>7, <2>1, <2>3, Zenon DEF kill_expired_session_lease_identity
  <2> QED
    BY <2>2, <2>3, Zenon
<1>8. ASSUME NEW e \in ending, remove_session_leases(e) PROVE Released'
  <2>1. UNCHANGED <<owner, answer, token, killer>>
    BY <1>8, Zenon DEF remove_session_leases, sdk
  <2>2. DOMAIN leases' \subseteq DOMAIN leases /\ \A i \in DOMAIN leases' : leases'[i] = leases[i]
    BY <1>8, Zenon DEF remove_session_leases, Without
  <2> QED
    BY <1>k, <2>1, <2>2, Zenon
<1>9. ASSUME NEW id \in Sessions, UserKill(id) PROVE Released'
  <2>1. UNCHANGED <<owner, answer, token, leases>>
    BY <1>9, Zenon DEF UserKill, ByOthers, sdk
  <2>2. killer'[1] = killer[1] \/ killer'[1] = [by |-> "user", token |-> 0]
    BY <1>9, SMTT(30) DEF UserKill, RemoveSession, LeaseInv, ServerInv, Sessions
  <2> QED
    BY <1>k, <2>1, <2>2
<1>10. ASSUME NEW id \in Sessions, Takeover(id) PROVE Released'
  <2>1. UNCHANGED <<owner, answer, token, killer>> /\ leases' = Insert(id)
    BY <1>10, Zenon DEF Takeover, create_lease, ByOthers, sdk
  <2>2. token # next_token + 1
    BY SMTT(30) DEF LeaseInv, ServerInv
  <2>3. \A i \in DOMAIN leases' : leases'[i].token = next_token + 1 \/ (i \in DOMAIN leases /\ leases'[i] = leases[i])
    BY <2>1, SMTT(30) DEF Insert, NewLease
  <2> QED
    BY <1>2, <2>1, <2>2, <2>3, Zenon DEF Released
<1>11. ASSUME NEW id \in Sessions, NEW n \in Names, rename_session(id, n) PROVE Released'
  <2>1. UNCHANGED <<owner, answer, token, killer>> /\ DOMAIN leases' = DOMAIN leases
    BY <1>11, Zenon DEF rename_session, ByOthers, sdk
  <2>2. ASSUME NEW i \in DOMAIN leases PROVE leases'[i].token = leases[i].token
    <3>1. leases[i] \in Lease
      BY Zenon DEF LeaseInv, ServerInv, Entry
    <3> QED
      BY <1>11, <3>1, SMTT(30) DEF rename_session, Lease
  <2> QED
    BY <1>k, <2>1, <2>2, Zenon
<1>12. ASSUME NEW n \in Names, NewSession(n) PROVE Released'
  BY <1>k, <1>12, Zenon DEF NewSession, ByOthers, sdk
<1>13. CASE handle_create_session_lease
  <2>1. Has("create") /\ owner' = owner /\ owner # "releasing" /\ owner # "preserved"
    <3>1. wire # <<>> /\ Head(wire) = "create" /\ owner' = owner
      BY <1>13, Zenon DEF handle_create_session_lease, Serve
    <3>2. Has("create")
      BY <3>1 DEF LeaseInv, WireInv, Wire, Has
    <3> QED
      BY <3>1, <3>2, Zenon DEF LeaseInv, WireInv
  <2>2. answer'["release"] = answer["release"]
    BY <1>13, Zenon DEF handle_create_session_lease, Reply, LeaseInv, WireInv, Requests
  <2> QED
    BY <1>2, <2>1, <2>2, Zenon
<1>14. CASE handle_renew_session_lease
  <2>1. UNCHANGED <<owner, token, killer>>
    BY <1>14, Zenon DEF handle_renew_session_lease, Serve
  <2>2. answer'["release"] = answer["release"]
    BY <1>14, Zenon DEF handle_renew_session_lease, Reply, LeaseInv, WireInv, Requests
  <2>3. DOMAIN leases' = DOMAIN leases /\ \A i \in DOMAIN leases : leases'[i].token = leases[i].token
    BY <1>14 DEF handle_renew_session_lease, live_session, NewLease
  <2> QED
    BY <1>k, <2>1, <2>2, <2>3, Zenon
<1>15. CASE handle_release_session_lease
  <2>1. ASSUME live_session(token) = {}, Reply("release", "refused"), UNCHANGED leases PROVE Released'
    <3>1. UNCHANGED <<owner, token, killer>>
      BY <1>15, Zenon DEF handle_release_session_lease, Serve
    <3>2. answer'["release"] = "ok" => answer["release"] = "ok"
      BY <2>1, Zenon DEF Reply, LeaseInv, WireInv, Requests
    <3> QED
      BY <1>k, <2>1, <3>1, <3>2, Zenon
  <2> QED
    BY <1>1, <1>15, <2>1, SMTT(30) DEF handle_release_session_lease
<1> QED
  BY <1>3, <1>4, <1>5, <1>6, <1>7, <1>8, <1>9, <1>10, <1>11, <1>12, <1>13, <1>14, <1>15, Zenon DEF Next, ServeStep

LEMMA LeaseInvHolds == Spec => []LeaseInv
<1>1. LeaseInv /\ [Next]_vars => LeaseInv'
  <2> SUFFICES ASSUME LeaseInv, [Next]_vars PROVE LeaseInv'
    BY Zenon
  <2>1. WireInv'
    BY StepWire, Zenon DEF LeaseInv
  <2>2. ServerInv'
    BY StepServer, Zenon DEF LeaseInv, SdkTypes
  <2>3. SdkTypes' /\ KillsInv'
    BY StepSdk, Zenon DEF LeaseInv
  <2>4. ReleaseInv'
    BY StepRelease, Zenon
  <2> QED
    BY <2>1, <2>2, <2>3, <2>4, Zenon DEF LeaseInv
<1> QED
  BY <1>1, InitLease, PTL DEF Spec

(* Whatever the names, the times, the number of tokens and the events: a   *)
(* session whose preserve succeeded is not killed by the reaper on the     *)
(* owner's lease, by a signal handler, by a drop or by a rollback, however *)
(* requests on the two connections are ordered                             *)
(* (OwnedSession::preserve, claim_expired, SignalHandlerPhase).            *)
THEOREM PreservedSessionsAreKept == Spec => []PreservedIsKept
<1>1. LeaseInv => PreservedIsKept
  BY SMTT(30) DEF LeaseInv, KillsInv, ReleaseInv, Released, PreservedIsKept
<1> QED
  BY <1>1, LeaseInvHolds, PTL

(* For the same instances: every lease is under its session's name, or the *)
(* removal that will find it is still to come, and all types are kept      *)
(* (SessionLeaseStore::rename_session and remove_session_leases).          *)
THEOREM NoLeaseIsLeaked == Spec => []LeasesHaveSessions
<1>1. LeaseInv => LeasesHaveSessions
  <2> SUFFICES ASSUME LeaseInv PROVE LeasesHaveSessions
    BY Zenon
  <2>1. token \in 0 .. MaxToken
    BY TimesAssumption, SMTT(30) DEF LeaseInv, ServerInv
  <2>2. TypeOK
    BY <2>1, Zenon DEF LeaseInv, WireInv, Wire, ServerInv, SdkTypes, TypeOK
  <2> QED
    BY <2>2, Zenon DEF LeaseInv, ServerInv, Entry, LeasesHaveSessions
<1> QED
  BY <1>1, LeaseInvHolds, PTL
=============================================================================
