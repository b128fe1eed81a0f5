------------------------------ MODULE IceAgent ------------------------------
(***************************************************************************)
(* The ICE agent (src/libx/x/p2p/ice_agent.c) over the transaction manager *)
(* (stun_txn.c) and its TURN client (turn_client.c): candidate gathering,  *)
(* connectivity checks and nomination, port spray and keepalive for        *)
(* symmetric NATs, consent, trickled candidates and destruction.           *)
(*                                                                         *)
(* The agent is one record, and every handler a function from the agent to *)
(* the agent, composed as the code calls them.  An address is a model      *)
(* value; all candidates have one component and one address family; there  *)
(* is one host candidate, whose socket every other candidate shares.       *)
(* Timers are untimed: any armed timer may be the next one to fire.        *)
(***************************************************************************)
EXTENDS Integers, Sequences, FiniteSets, TLC

-----------------------------------------------------------------------------
(***************************************************************************)
(* The STUN transaction manager (src/libx/x/p2p/stun_txn.c): a list of     *)
(* requests waiting for an answer, each with its retransmission timer.     *)
(*                                                                         *)
(* A transaction is [fn, arg, timer, rt, cancelled]: fn names the          *)
(* completion callback and arg its context, timer says that the            *)
(* retransmission timer is armed and rt counts retransmissions.  The       *)
(* callbacks themselves belong to the user of the manager.                 *)
(***************************************************************************)
CONSTANTS
    TxnMax,          \* XSTUN_TXN_MAX
    MaxRetransmits   \* XSTUN_MAX_RETRANSMITS

(* xStunTxnMgrSendRaw: a full manager or a failed send leaves no trace.    *)
SendRaw(mgr, fn, arg, sent) ==
    IF Len(mgr) >= TxnMax \/ ~sent THEN mgr
    ELSE Append(mgr, [fn |-> fn, arg |-> arg, timer |-> TRUE, rt |-> 0,
                      cancelled |-> FALSE])

(* txn_free, its callback apart: the last entry moves into the hole.       *)
TxnRemove(mgr, i) == SubSeq([mgr EXCEPT ![i] = mgr[Len(mgr)]], 1, Len(mgr) - 1)

(* txn_retransmit: either another copy of the request goes out and the     *)
(* timer is armed again, or the transaction has timed out, is marked and   *)
(* stays in the list.                                                      *)
TimedOut(t) == t.rt >= MaxRetransmits
Retransmit(mgr, i) ==
    IF TimedOut(mgr[i])
    THEN [mgr EXCEPT ![i].timer = FALSE, ![i].cancelled = TRUE]
    ELSE [mgr EXCEPT ![i].rt = @ + 1]

-----------------------------------------------------------------------------
CONSTANTS
    Ports,           \* mapped ports a STUN server may report
    Threshold,       \* XICE_SYMMETRIC_NAT_PORT_THRESHOLD
    PredictCount,    \* port_predict_count
    SprayCount,      \* XICE_BIRTHDAY_SPRAY_COUNT
    MaxCandidates,   \* XICE_MAX_CANDIDATES
    MaxPairs,        \* XICE_MAX_PAIRS
    MaxPermissions,  \* XTURN_MAX_PERMISSIONS
    SrflxOf,         \* addresses of the remote peer that are server reflexive
    Unknown,         \* addresses requests come from that were never signalled
    Configs          \* [servers, turnconf, known, requests, restarts, fail]: STUN servers,
                     \* a TURN server, addresses the peer signals; bounds on the requests
                     \* received and the restarts of a failed agent; whether sends may fail

VARIABLE a

Kinds == {"check", "gather", "timeout", "consent", "aggressive", "refresh"}

New ==
    [state |-> "New", role |-> "controlling", servers |-> 0, turnconf |-> FALSE, known |-> <<>>,
     remoteSet |-> FALSE, locals |-> <<>>, remotes |-> <<>>, pairs |-> <<>>, nominated |-> 0,
     txns |-> <<>>, turn |-> "none", turnTxns |-> <<>>, creds |-> FALSE, permissions |-> 0,
     ptr |-> [k \in Kinds |-> FALSE], armed |-> [k \in Kinds |-> 0],
     checkIndex |-> 0, gatherDone |-> FALSE, pending |-> 0, dns |-> {}, turnDns |-> FALSE,
     stunCount |-> 0, mapped |-> <<>>, received |-> 0, expected |-> 0,
     symmetric |-> FALSE, aggressive |-> FALSE, spray |-> "none", sprayIndex |-> 0,
     alive |-> TRUE, wild |-> FALSE,
     requests |-> 0, restarts |-> 0, fail |-> FALSE, ends |-> 0]

Init ==
    \E c \in Configs, r \in {"controlling", "controlled"} :
        a = [New EXCEPT !.servers = c.servers, !.turnconf = c.turnconf, !.known = c.known, !.role = r,
                        !.requests = c.requests, !.restarts = c.restarts, !.fail = c.fail]
SendOk == {TRUE, ~a.fail}

-----------------------------------------------------------------------------
(* Timers: the field holds the newest timer, armed counts all of them.     *)

Arm(x, k) == [x EXCEPT !.ptr[k] = TRUE, !.armed[k] = @ + 1]
Stop(x, k) == IF x.ptr[k] THEN [x EXCEPT !.ptr[k] = FALSE, !.armed[k] = @ - 1] ELSE x
Fired(x, k) == [x EXCEPT !.ptr[k] = FALSE, !.armed[k] = @ - 1]
RECURSIVE StopAll(_, _)
StopAll(x, S) == IF S = {} THEN x ELSE LET k == CHOOSE k \in S : TRUE IN StopAll(Stop(x, k), S \ {k})

(* A request that leaves the host socket, or the TURN client's.            *)
Send(x, fn, arg, ok) == [x EXCEPT !.txns = SendRaw(@, fn, arg, ok)]
TurnSend(x, fn, ok) == [x EXCEPT !.turnTxns = SendRaw(@, fn, 0, ok)]

-----------------------------------------------------------------------------
(* Pairs.                                                                  *)

(* xIceCandidateTypePref, and xIceCandidatePriority with the index in the  *)
(* list as local preference.                                               *)
TypePref(type) == CASE type = "host" -> 126 [] type = "srflx" -> 100
                    [] type = "prflx" -> 110 [] OTHER -> 5
Priority(type, i) == 16 * TypePref(type) + (15 - i)

(* xIcePairPriority, with 2^12 in place of 2^32.                           *)
PairPriority(x, p) ==
    LET l == Priority(x.locals[p.l].type, p.l)
        r == Priority(x.remotes[p.r].type, p.r)
        g == IF x.role = "controlling" THEN l ELSE r
        d == IF x.role = "controlling" THEN r ELSE l
    IN  4096 * (IF g < d THEN g ELSE d) + 2 * (IF g > d THEN g ELSE d) + (IF g > d THEN 1 ELSE 0)

Pair(l, r) == [l |-> l, r |-> r, st |-> "Frozen"]
Keep(s, n) == SubSeq(s, 1, IF Len(s) < n THEN Len(s) ELSE n)
Room(x, s) == Keep(s, MaxPairs - Len(x.pairs))

(* A candidate without an address has no family any remote matches.        *)
Usable(x) == SelectSeq([i \in 1 .. Len(x.locals) |-> i], LAMBDA i : x.locals[i].port # 0)
PairsOf(x, r, types) ==
    LET ls == SelectSeq(Usable(x), LAMBDA i : x.locals[i].type \in types)
    IN  [i \in DOMAIN ls |-> Pair(ls[i], r)]
AnyType == {"host", "srflx", "relay"}

(* The loops over local candidates that append pairs for one remote.       *)
AddPairs(x, r) == [x EXCEPT !.pairs = @ \o Room(x, PairsOf(x, r, AnyType))]

(* generate_pairs, with xIcePairSort.                                      *)
GeneratePairs(x) ==
    LET us == Usable(x)
        n  == Len(x.remotes)
        all == [k \in 1 .. Len(us) * n |-> Pair(us[1 + (k - 1) \div n], 1 + ((k - 1) % n))]
        y == [x EXCEPT !.pairs = <<>>]
    IN  [y EXCEPT !.pairs = SortSeq(Room(y, all), LAMBDA p, q : PairPriority(x, p) > PairPriority(x, q))]

In(x, st) == {i \in DOMAIN x.pairs : x.pairs[i].st = st}
Prflx(x, i) == x.remotes[x.pairs[i].r].type = "prflx"
First(S) == IF S = {} THEN 0 ELSE CHOOSE i \in S : \A j \in S : i <= j
HasRemoteSrflx(x) == \E i \in DOMAIN x.remotes : x.remotes[i].type = "srflx"

(* The best pair that succeeded, a peer reflexive one only for want of     *)
(* another.                                                                *)
Best(x) ==
    LET s == In(x, "Succeeded")
        b == First({i \in s : ~Prflx(x, i)})
    IN  IF b # 0 THEN b ELSE First(s)

-----------------------------------------------------------------------------
(* Connectivity checks.                                                    *)

SetPair(x, i, st) == [x EXCEPT !.pairs[i].st = st]

(* send_check.  Over a relayed candidate the check also needs the TURN     *)
(* client to be allocated.                                                 *)
SendCheck(x, i, ok) ==
    LET y == SetPair(x, i, "InProgress")
        p == x.pairs[i]
        relayed == x.locals[p.l].type = "relay" /\ x.turn # "none"
    IN  IF relayed /\ x.turn # "Allocated" THEN y
        ELSE Send(y, "check", [pair |-> i, l |-> p.l, r |-> p.r], ok)

(* start_aggressive_spray: random ports on each remote srflx address,      *)
(* paired with the host and srflx candidates.                              *)
StartSpray(x) ==
    IF x.aggressive THEN x ELSE
    LET ips == Cardinality({x.remotes[i].addr : i \in {j \in DOMAIN x.remotes : x.remotes[j].type = "srflx"}})
        room == MaxCandidates - Len(x.remotes)
        n == IF ips * SprayCount < room THEN ips * SprayCount ELSE room
        t == Arm(Stop(x, "timeout"), "timeout")
        y == [t EXCEPT !.remotes = @ \o [i \in 1 .. n |-> [addr |-> "sprayed", type |-> "srflx"]]]
        ls == SelectSeq(Usable(y), LAMBDA i : y.locals[i].type \in {"host", "srflx"})
        m == Len(ls)
        new == Room(y, [k \in 1 .. n * m |->
                          Pair(ls[1 + ((k - 1) % m)], Len(x.remotes) + 1 + (k - 1) \div m)])
    IN  IF new = <<>> THEN y
        ELSE Arm([y EXCEPT !.aggressive = TRUE, !.pairs = @ \o new,
                           !.spray = "spray", !.sprayIndex = Len(x.pairs)], "aggressive")

SetState(x, s) == [x EXCEPT !.state = s]

(* try_nominate                                                            *)
Nominate(x, i) == [x EXCEPT !.nominated = i, !.state = "Connected"]
TryNominate(x) ==
    LET succeeded == In(x, "Succeeded")
        waiting == In(x, "InProgress")
        best == Best(x)
    IN  IF x.state # "Checking" \/ x.nominated # 0 THEN x
        ELSE IF succeeded # {} /\ x.checkIndex >= Len(x.pairs)
             THEN IF Prflx(x, best) /\ \E i \in waiting : ~Prflx(x, i) THEN x
                  ELSE StopAll(Arm(Nominate(x, best), "consent"), {"timeout", "aggressive"})
        ELSE IF waiting = {} /\ succeeded = {}
             THEN IF ~x.symmetric /\ ~x.aggressive /\ HasRemoteSrflx(x) THEN StartSpray(x)
                  ELSE SetState(x, "Failed")
        ELSE x

(* schedule_next_check and start_checks                                    *)
ScheduleCheck(x) == IF x.state = "Checking" THEN Arm(x, "check") ELSE x
StartChecks(x) ==
    IF x.pairs = <<>> THEN SetState(x, "Failed")
    ELSE Arm(ScheduleCheck([SetState(x, "Checking") EXCEPT !.checkIndex = 0]), "timeout")

(* check_pacing_cb: the next pair not checked yet, or nomination.          *)
CheckPacing(x, ok) ==
    LET todo == {i \in DOMAIN x.pairs : i > x.checkIndex /\ x.pairs[i].st \in {"Frozen", "Waiting"}}
        i == First(todo)
    IN  IF x.state # "Checking" THEN x
        ELSE IF todo # {}
             THEN ScheduleCheck(SendCheck([x EXCEPT !.checkIndex = i], i, ok))
        ELSE TryNominate([x EXCEPT !.checkIndex =
                            IF @ < Len(x.pairs) THEN Len(x.pairs) ELSE @])

(* symmetric_keepalive_cb checks again every pair towards a srflx address. *)
RECURSIVE SendChecks(_, _, _)
SendChecks(x, S, ok) ==
    IF S = {} THEN x ELSE SendChecks(SendCheck(x, First(S), ok), S \ {First(S)}, ok)
Keepalive(x, ok) ==
    IF x.state # "Checking" \/ x.nominated # 0 THEN x
    ELSE Arm(SendChecks(x, {i \in DOMAIN x.pairs : x.remotes[x.pairs[i].r].type = "srflx"}, ok),
             "aggressive")

(* start_symmetric_keepalive                                               *)
StartKeepalive(x, ok) ==
    IF x.aggressive THEN x
    ELSE Keepalive(Arm(Stop([x EXCEPT !.aggressive = TRUE, !.spray = "keepalive"], "timeout"),
                       "timeout"), ok)

(* aggressive_pacing_cb: up to four checks of spray pairs per tick.        *)
RECURSIVE SprayBatch(_, _, _)
SprayBatch(x, n, ok) ==
    LET i == x.sprayIndex + 1
        y == [x EXCEPT !.sprayIndex = i]
    IN  IF n = 0 \/ i > Len(x.pairs) THEN x
        ELSE IF x.pairs[i].st \in {"Frozen", "Waiting"} THEN SprayBatch(SendCheck(y, i, ok), n - 1, ok)
        ELSE SprayBatch(y, n, ok)
SprayPacing(x, ok) ==
    LET y == SprayBatch(x, 4, ok)
    IN  IF x.state # "Checking" \/ x.nominated # 0 THEN x
        ELSE IF y.sprayIndex < Len(y.pairs) THEN Arm(y, "aggressive") ELSE y

(* Mutant of CheckTimeout: it no longer asks whether checking goes on.     *)
CheckTimeoutAlways(x, ok) ==
    IF Best(x) # 0 THEN Nominate(x, Best(x))
    ELSE IF ~x.aggressive /\ HasRemoteSrflx(x)
         THEN IF x.symmetric THEN StartKeepalive(x, ok) ELSE StartSpray(x)
    ELSE SetState(Stop(x, "aggressive"), "Failed")

(* check_timeout_cb                                                        *)
CheckTimeout(x, ok) ==
    IF x.state # "Checking" \/ x.nominated # 0 THEN x
    ELSE IF Best(x) # 0 THEN Nominate(x, Best(x))
    ELSE IF ~x.aggressive /\ HasRemoteSrflx(x)
         THEN IF x.symmetric THEN StartKeepalive(x, ok) ELSE StartSpray(x)
    ELSE SetState(Stop(x, "aggressive"), "Failed")

(* on_check_response; res is "none" for a timeout or a cancellation.       *)
OnCheckResponse(x, arg, res, ok) ==
    LET i == arg.pair
    IN  IF res = "conflict"
        THEN SendCheck([SetPair(x, i, "Waiting") EXCEPT
                          !.role = IF @ = "controlling" THEN "controlled" ELSE "controlling"], i, ok)
        ELSE TryNominate(SetPair(x, i, IF res = "success" THEN "Succeeded" ELSE "Failed"))

-----------------------------------------------------------------------------
(* Gathering.                                                              *)

(* What gather_check_done shares with gather_timeout_cb.                   *)
GatherFinish(x) ==
    LET y == [x EXCEPT !.gatherDone = TRUE, !.ends = @ + 1]
    IN  IF y.remoteSet THEN StartChecks(GeneratePairs(y)) ELSE y

(* gather_check_done and gather_timeout_cb                                 *)
GatherCheckDone(x) ==
    IF x.pending > 0 \/ x.state # "Gathering" \/ x.gatherDone THEN x
    ELSE GatherFinish(Stop(x, "gather"))
GatherTimeout(x) == IF x.state # "Gathering" THEN x ELSE GatherFinish(x)
GatherOneLess(x) == GatherCheckDone([x EXCEPT !.pending = @ - 1])

(* A local candidate, known by its port: kept while there is room and      *)
(* reported with on_candidate if it has an address (port 0: it has none).  *)
AddLocal(x, type, port) ==
    IF Len(x.locals) >= MaxCandidates THEN x
    ELSE [x EXCEPT !.locals = Append(@, [type |-> type, port |-> port])]

(* finalize_srflx_for_host.  srflx_received counts failures too: when no   *)
(* server answered, last_si is -1 and the candidate is made from whatever  *)
(* precedes the array.                                                     *)
RECURSIVE Predict(_, _, _, _)
Predict(x, port, step, k) ==
    IF k > PredictCount \/ port + k * step > 65535 THEN x
    ELSE Predict(AddLocal(x, "srflx", port + k * step), port, step, k + 1)
FinalizeSrflx(x) ==
    LET good == {i \in DOMAIN x.mapped : x.mapped[i] # 0}
        last == CHOOSE i \in good : \A j \in good : j <= i
        delta == x.mapped[last] - x.mapped[First(good)]
        step == IF delta \div (last - First(good)) > 0 THEN delta \div (last - First(good)) ELSE delta
        y == AddLocal(x, "srflx", x.mapped[last])
    IN  IF good = {} THEN AddLocal(x, "srflx", 0)
        ELSE IF First(good) = last \/ delta = 0 THEN y
        ELSE IF delta < 0 \/ delta > Threshold THEN [y EXCEPT !.symmetric = TRUE]
        ELSE Predict(y, x.mapped[last], step, 1)

(* on_srflx_response; port is 0 without a mapped address.                  *)
OnSrflxResponse(x, server, port) ==
    LET y == [x EXCEPT !.received = @ + 1, !.mapped[server] = IF port # 0 THEN port ELSE @]
    IN  GatherOneLess(IF y.received >= y.expected THEN FinalizeSrflx(y) ELSE y)

(* send_stun_bindings_all for the one host.                                *)
RECURSIVE SendBindings(_, _, _)
SendBindings(x, i, ok) ==
    IF i > x.stunCount THEN [x EXCEPT !.expected = x.stunCount]
    ELSE SendBindings(Send([x EXCEPT !.pending = @ + 1], "srflx", i, ok), i + 1, ok)

(* on_stun_dns_done with check_stun_dns_done.                              *)
OnStunDns(x, server, res, ok) ==
    LET y == [x EXCEPT !.dns = @ \ {server}, !.stunCount = IF res = "new" THEN @ + 1 ELSE @]
        z == [y EXCEPT !.mapped = [i \in 1 .. y.stunCount |-> 0], !.pending = @ - 1]
    IN  IF y.dns # {} THEN y
        ELSE IF y.stunCount = 0 THEN GatherOneLess(y)
        ELSE GatherCheckDone(SendBindings(z, 1, ok))

-----------------------------------------------------------------------------
(* The TURN client.                                                        *)

(* xTurnClientCreatePermission for every remote candidate.                 *)
RECURSIVE Permissions(_, _, _)
Permissions(x, n, ok) ==
    IF n = 0 \/ x.turn # "Allocated" \/ x.permissions >= MaxPermissions THEN x
    ELSE Permissions(TurnSend([x EXCEPT !.permissions = @ + 1], "permission", ok), n - 1, ok)

(* on_turn_failed and on_turn_allocated                                    *)
OnTurnFailed(x) == GatherOneLess([x EXCEPT !.turn = "Failed"])
OnTurnAllocated(x, mapped, ok) ==
    LET y == IF mapped THEN AddLocal(x, "srflx", 1) ELSE x
        z == GatherOneLess(AddLocal(y, "relay", 1))
    IN  Permissions(z, Len(z.remotes), ok)

(* Mutant of OnTurnDns: the answered query is counted as a gathered        *)
(* candidate although the allocation is still to come.                     *)
OnTurnDnsCounted(x, found, ok) ==
    LET y == [x EXCEPT !.turnDns = FALSE]
    IN  GatherOneLess(IF found THEN TurnSend([y EXCEPT !.turn = "Allocating"], "allocate", ok) ELSE y)

(* start_turn_allocate and on_turn_dns_done                                *)
OnTurnDns(x, found, ok) ==
    LET y == [x EXCEPT !.turnDns = FALSE]
    IN  IF found THEN TurnSend([y EXCEPT !.turn = "Allocating"], "allocate", ok)
        ELSE GatherOneLess(y)

(* on_allocate_response and schedule_refresh                               *)
OnAllocateResponse(x, res, ok) ==
    IF res = "conflict" /\ ~x.creds          \* 401
    THEN TurnSend([x EXCEPT !.creds = TRUE], "allocate", ok)
    ELSE IF res # "success" THEN OnTurnFailed(x)
    ELSE OnTurnAllocated(Arm(Stop([x EXCEPT !.turn = "Allocated"], "refresh"), "refresh"), TRUE, ok)

(* refresh_timer_cb and on_refresh_response                                *)
RefreshTimer(x, ok) == IF x.turn = "Allocated" THEN TurnSend(x, "refresh", ok) ELSE x
OnRefreshResponse(x, res) ==
    IF res = "success" THEN Arm(Stop(x, "refresh"), "refresh") ELSE OnTurnFailed(x)

-----------------------------------------------------------------------------
(* The callback of a transaction, by its name.                             *)
Complete(x, t, res, port, ok) ==
    CASE t.fn = "check" -> OnCheckResponse(x, t.arg, res, ok)
      [] t.fn = "srflx" -> OnSrflxResponse(x, t.arg, IF res = "success" THEN port ELSE 0)
      [] t.fn = "allocate" -> OnAllocateResponse(x, res, ok)
      [] t.fn = "refresh" -> OnRefreshResponse(x, res)
      [] OTHER -> x                            \* on_permission_response

(* xStunTxnMgrCancelAll: txn_free of the first entry until none is left.   *)
RECURSIVE CancelIce(_)
CancelIce(x) ==
    IF x.txns = <<>> THEN x
    ELSE LET t == x.txns[1]
             y == IF t.cancelled THEN x
                  ELSE Complete([x EXCEPT !.txns[1].cancelled = TRUE], t, "none", 0, FALSE)
         IN  CancelIce([y EXCEPT !.txns = TxnRemove(@, 1)])
RECURSIVE CancelTurn(_)
CancelTurn(x) ==
    IF x.turnTxns = <<>> THEN x
    ELSE LET t == x.turnTxns[1]
             y == IF t.cancelled THEN x
                  ELSE Complete([x EXCEPT !.turnTxns[1].cancelled = TRUE], t, "none", 0, FALSE)
         IN  CancelTurn([y EXCEPT !.turnTxns = TxnRemove(@, 1)])

-----------------------------------------------------------------------------
(* What happens to the agent.                                              *)

Running == a.alive /\ ~a.wild

(* xIceAgentGather.  Interfaces may be missing, and a resolver query may   *)
(* be refused at once.                                                     *)
Gather ==
    /\ Running /\ a.state = "New"
    /\ \E hosts \in BOOLEAN, q \in SUBSET (1 .. a.servers), t \in {FALSE, a.turnconf} :
         LET x == SetState(a, "Gathering")
             y == [AddLocal(x, "host", 1) EXCEPT
                     !.dns = q, !.turnDns = t,
                     !.pending = (IF q = {} THEN 0 ELSE 1) + (IF t THEN 1 ELSE 0)]
         IN  a' = IF ~hosts THEN SetState(x, "Failed")
                  ELSE IF y.pending = 0 THEN GatherCheckDone(y)
                  ELSE Arm(y, "gather")

(* A resolver query ends: a new address, one already known, or none.       *)
StunDns == Running /\ \E i \in a.dns, res \in {"new", "dup", "fail"}, ok \in SendOk :
    /\ res = "dup" => a.stunCount > 0
    /\ a' = OnStunDns(a, i, res, ok)
TurnDns == Running /\ a.turnDns /\ \E found \in BOOLEAN, ok \in SendOk : a' = OnTurnDns(a, found, ok)

(* A timer of the agent or of its TURN client fires.                       *)
Consent(x) == IF x.state = "Connected" /\ x.nominated # 0 THEN Arm(x, "consent") ELSE x
Timer(k) ==
    /\ Running /\ a.armed[k] > 0
    /\ k = "refresh" => a.gatherDone         \* minutes against seconds
    /\ \E ok \in SendOk :
         LET x == Fired(a, k)
         IN  a' = CASE k = "check" -> CheckPacing(x, ok)
                    [] k = "gather" -> GatherTimeout(x)
                    [] k = "timeout" -> CheckTimeout(x, ok)
                    [] k = "consent" -> Consent(x)
                    [] k = "refresh" -> RefreshTimer(x, ok)
                    [] OTHER -> IF x.spray = "keepalive" THEN Keepalive(x, ok) ELSE SprayPacing(x, ok)

(* A retransmission timer fires.                                           *)
TxnTimer(i) ==
    /\ Running /\ i \in DOMAIN a.txns /\ a.txns[i].timer
    /\ \E ok \in SendOk :
         LET x == [a EXCEPT !.txns = Retransmit(@, i)]
         IN  a' = IF TimedOut(a.txns[i]) THEN Complete(x, a.txns[i], "none", 0, ok) ELSE x
TurnTxnTimer(i) ==
    /\ Running /\ i \in DOMAIN a.turnTxns /\ a.turnTxns[i].timer
    /\ LET x == [a EXCEPT !.turnTxns = Retransmit(@, i)]
       IN  a' = IF TimedOut(a.turnTxns[i]) THEN Complete(x, a.turnTxns[i], "none", 0, FALSE) ELSE x

(* xStunTxnMgrOnResponse.  An answer that comes after the timeout runs the *)
(* callback again; the contexts of checks and bindings are gone by then.   *)
Response(i, res, port) ==
    /\ Running /\ i \in DOMAIN a.txns
    /\ a.txns[i].fn = "check" \/ res # "success" => port = 0
    /\ res = "conflict" => a.txns[i].fn = "check"      \* 487
    /\ LET t == a.txns[i]
           x == [a EXCEPT !.txns = TxnRemove(@, i)]
       IN  IF t.cancelled THEN a' = [New EXCEPT !.wild = TRUE]
           ELSE \E ok \in SendOk : a' = Complete(x, t, res, port, ok)
TurnResponse(i, res) ==
    /\ Running /\ i \in DOMAIN a.turnTxns
    /\ \E ok \in SendOk :
         a' = Complete([a EXCEPT !.turnTxns = TxnRemove(@, i)], a.turnTxns[i], res, 0, ok)

TypeOf(addr) == IF addr \in SrflxOf THEN "srflx" ELSE "host"
KnownAddr(x, addr) == \E i \in DOMAIN x.remotes : x.remotes[i].addr = addr

(* handle_incoming_binding_request, for a request that authenticates: the  *)
(* answer, a peer reflexive candidate, the triggered check, nomination.    *)
PairWith(x, addr) == First({i \in DOMAIN x.pairs : x.remotes[x.pairs[i].r].addr = addr})
NewPrflx(x, from) ==
    LET y == [x EXCEPT !.remotes = Append(@, [addr |-> from, type |-> "prflx"])]
    IN  IF KnownAddr(x, from) \/ Len(x.remotes) >= MaxCandidates THEN x
        ELSE IF x.state = "Checking" THEN AddPairs(y, Len(y.remotes)) ELSE y
Triggered(x, from, ok) ==
    LET i == PairWith(x, from)
    IN  IF x.state = "Checking" /\ i # 0 /\ x.pairs[i].st \in {"Frozen", "Waiting", "Failed"}
        THEN SendCheck(x, i, ok) ELSE x
NominatedBy(x, from) ==
    LET i == PairWith(x, from)
    IN  IF x.role = "controlled" /\ x.nominated = 0 /\ i # 0
        THEN Arm(SetPair(Nominate(x, i), i, "Succeeded"), "consent") ELSE x
Request(from) ==
    /\ Running /\ a.state # "New" /\ a.remoteSet
    /\ a.requests > 0
    /\ \E use \in BOOLEAN, ok \in SendOk :
         LET x == Triggered(NewPrflx([a EXCEPT !.requests = @ - 1], from), from, ok)
         IN  a' = IF use THEN NominatedBy(x, from) ELSE x

(* xIceAgentSetRemoteDescription, once.                                    *)
SetRemote(addrs) ==
    /\ Running /\ ~a.remoteSet
    /\ \E ok \in SendOk :
         LET new == SelectSeq(addrs, LAMBDA d : ~KnownAddr(a, d))
             cs == [i \in DOMAIN new |-> [addr |-> new[i], type |-> TypeOf(new[i])]]
             x == [a EXCEPT !.remoteSet = TRUE, !.remotes = Keep(@ \o cs, MaxCandidates)]
             y == Permissions(x, Len(x.remotes), ok)
         IN  a' = IF y.gatherDone /\ y.state # "Checking" THEN StartChecks(GeneratePairs(y)) ELSE y

(* xIceAgentAddRemoteCandidate                                             *)
AddRemote(addr) ==
    /\ Running /\ ~KnownAddr(a, addr) /\ Len(a.remotes) < MaxCandidates
    /\ a.state = "Failed" => a.restarts > 0
    /\ \E ok \in SendOk :
         LET x == Permissions([a EXCEPT !.remotes = Append(@, [addr |-> addr, type |-> TypeOf(addr)])], 1, ok)
             r == Len(x.remotes)
             y == AddPairs(x, r)
         IN  a' = IF a.state = "Checking"
                  THEN SendChecks(y, {i \in DOMAIN y.pairs : y.pairs[i].r = r /\ y.pairs[i].st = "Frozen"}, ok)
                  ELSE IF a.state = "Failed" /\ a.gatherDone
                  THEN StartChecks(GeneratePairs([x EXCEPT !.nominated = 0, !.restarts = @ - 1]))
                  ELSE x

(* xIceAgentDestroy: timers, queries, TURN client and transactions, whose  *)
(* callbacks still run, then the memory.                                   *)
Destroy ==
    /\ Running
    /\ LET x == [StopAll(a, Kinds \ {"refresh"}) EXCEPT !.dns = {}, !.turnDns = FALSE]
           y == CancelTurn(Stop(x, "refresh"))
           z == CancelIce([y EXCEPT !.turn = "none"])
       IN  a' = [New EXCEPT !.state = "Closed", !.alive = FALSE, !.armed = z.armed, !.ends = z.ends]

Signalled == {a.known[i] : i \in DOMAIN a.known}
Next ==
    \/ Gather \/ StunDns \/ TurnDns \/ Destroy
    \/ \E k \in Kinds : Timer(k)
    \/ \E i \in 1 .. TxnMax : TxnTimer(i) \/ TurnTxnTimer(i)
    \/ \E i \in 1 .. TxnMax, res \in {"success", "error", "conflict"} :
          \/ \E p \in {0} \cup Ports : Response(i, res, p)
          \/ TurnResponse(i, res)
    \/ \E d \in Unknown \cup Signalled : Request(d)
    \/ \E S \in SUBSET Signalled : SetRemote(SelectSeq(a.known, LAMBDA d : d \in S))
    \/ \E d \in Signalled : AddRemote(d)

vars == <<a>>
Spec == Init /\ [][Next]_vars

-----------------------------------------------------------------------------
(* The agent reports Connected exactly while it has a nominated pair,      *)
(* whichever of try_nominate, check_timeout_cb and a request with          *)
(* USE-CANDIDATE nominated it and whatever answer, timeout or restart      *)
(* comes after.                                                            *)
ConnectedNominated == Running => (a.state = "Connected" <=> a.nominated # 0)

(* What gathering still waits for: the resolver, STUN answers, TURN.       *)
Outstanding ==
    Cardinality({i \in DOMAIN a.txns : a.txns[i].fn = "srflx" /\ ~a.txns[i].cancelled})
    + (IF a.dns # {} THEN 1 ELSE 0)
    + (IF a.turnDns \/ \E i \in DOMAIN a.turnTxns :
                         a.turnTxns[i].fn = "allocate" /\ ~a.turnTxns[i].cancelled THEN 1 ELSE 0)

(* Gathering ends only once everything it started has answered, failed or  *)
(* timed out, or by its own timeout: pending_gather counts the resolver    *)
(* queries, the STUN bindings and the TURN allocation exactly, although    *)
(* one turns into the next.                                                *)
GatherEndsStep == a'.ends > a.ends => Outstanding' = 0 \/ Timer("gather")

(* Gathering ends at most once (on_candidate with no candidate), whether   *)
(* by the last answer, by the timeout or during the destruction.           *)
GatherEndsOnce == a.ends <= 1

(* Gathering and checking end by a timer whatever else happens or fails    *)
(* to happen: one is pending as long as the agent is in either state, also *)
(* after a restart and while port spray or keepalive is under way.         *)
EndIsTimed ==
    Running => /\ a.state = "Gathering" /\ ~a.gatherDone => a.armed["gather"] = 1
               /\ a.state = "Checking" => a.armed["timeout"] > 0

=============================================================================
