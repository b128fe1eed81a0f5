----------------------------- MODULE DnsClient -----------------------------
(***************************************************************************)
(* The DNS client over UDP (src/libx/x/dns/dns_client.c) and its cache     *)
(* (dns_cache.c).  Everything runs on one event loop, so a handler is one  *)
(* action; what interleaves is the network, the timers and the program.    *)
(*                                                                         *)
(* Timers are untimed: an armed one may fire at any moment.  A datagram    *)
(* stays on the wire, so it may be lost, delayed, reordered or delivered   *)
(* twice; it is lost for good once the socket it was sent from is closed.  *)
(* A callback that starts another request does what a request started      *)
(* after the handler does: the handler only frees memory afterwards.       *)
(***************************************************************************)
EXTENDS Integers, Sequences, FiniteSets, SequencesExt

CONSTANTS
    Names,        \* host names
    Types,        \* the record types, in the order they are asked for
    Requests,     \* bound: calls of xDnsClientDo
    NsCount,      \* number of nameservers
    Retries,      \* conf->retries
    MaxId,        \* ids are 0 .. MaxId; the code has 65535
    UdpMax,       \* conf->udp_max_queries, 0 = unlimited
    CacheOn,      \* conf->enable_cache
    MaxFails,     \* bound: failing sends
    NoQuery, NoEntry

ASSUME DnsAssumption ==
    /\ NsCount \in Nat \ {0} /\ Retries \in Nat
    /\ MaxId \in Nat \ {0} /\ UdpMax \in Nat
    /\ CacheOn \in BOOLEAN /\ MaxFails \in Nat

VARIABLES
    queries,   \* c->queries: id -> outstanding query
    nextId,    \* c->next_id
    conns,     \* per nameserver: the open socket (0 = none) and its query_count
    socks,     \* sockets opened so far, per nameserver
    req,       \* the request structs
    cache,     \* (name, type) -> entry
    wire,      \* external: queries sent from the open sockets, or their answers
    alive,     \* FALSE after xDnsClientDestroy
    called,    \* history: callbacks per request
    accepted,  \* history: the answers without error that a request was given
    fails      \* history: sends that failed

vars == <<queries, nextId, conns, socks, req, cache, wire, alive, called, accepted, fails>>

(* Two record types, in the order of their bits: the instance the runs use. *)
TwoTypes == <<"A", "AAAA">>

Ids == 0 .. MaxId
Servers == 0 .. NsCount - 1
Keys == Names \X Range(Types)
Errors == {"Ok", "Timeout", "NotFound", "DnsError", "SysError", "Unknown"}

(* What the nameservers hold: two A records and one of every other type.   *)
Record(name, type, i) == [name |-> name, type |-> type, n |-> i]
Zone(name, type) ==
    [i \in 1 .. (IF type = Head(Types) THEN 2 ELSE 1) |-> Record(name, type, i)]

Idle == [state |-> "idle", name |-> CHOOSE n \in Names : TRUE, types |-> {},
         pending |-> 0, results |-> <<>>, success |-> FALSE, err |-> "Timeout"]

(* xDnsClientCreate opens one socket per nameserver.                       *)
Init ==
    /\ queries = [id \in Ids |-> NoQuery]
    /\ nextId = 0
    /\ conns = [s \in Servers |-> [sock |-> 1, count |-> 0]]
    /\ socks = [s \in Servers |-> 1]
    /\ req = [r \in Requests |-> Idle]
    /\ cache = [k \in Keys |-> NoEntry]
    /\ wire = {}
    /\ alive = TRUE
    /\ called = [r \in Requests |-> 0]
    /\ accepted = [r \in Requests |-> {}]
    /\ fails = 0

-----------------------------------------------------------------------------
(* Sending *)

(* The part of the state that sending changes.                             *)
Net == [queries |-> queries, nextId |-> nextId, conns |-> conns, socks |-> socks,
        wire |-> wire, fails |-> fails]

(* conn_open: a socket that was never used before.                         *)
Opened(net, s) ==
    [net EXCEPT !.socks[s] = @ + 1, !.conns[s] = [sock |-> net.socks[s] + 1, count |-> 0]]

(* conn_ready opens a missing socket and rotates one that is used up.      *)
NeedsOpen(net, s) ==
    \/ net.conns[s].sock = 0
    \/ UdpMax > 0 /\ net.conns[s].count >= UdpMax

Ready(net, s) == IF NeedsOpen(net, s) THEN Opened(net, s) ELSE net

(* What is left when the socket cannot be opened, or the datagram not sent.*)
Unready(net, s) ==
    IF NeedsOpen(net, s) THEN [net EXCEPT !.conns[s] = [sock |-> 0, count |-> 0]] ELSE net

(* send_query: the states it may leave, with TRUE where the send worked.   *)
SendQuery(net, id, q) ==
    LET s == q.ns
        ready == Ready(net, s)
        out == [id |-> id, name |-> q.name, type |-> q.type, ns |-> s, sock |-> ready.conns[s].sock]
        failed(n) == [n EXCEPT !.fails = @ + 1]
    IN  {<<TRUE, [ready EXCEPT !.conns[s].count = @ + 1, !.wire = @ \cup {out}]>>}
        \cup (IF net.fails < MaxFails THEN {<<FALSE, failed(ready)>>, <<FALSE, failed(Unready(net, s))>>}
                                      ELSE {})

-----------------------------------------------------------------------------
(* The cache *)

(* dns_cache_insert for every record: the entry is the list from there on. *)
CacheInsert(c, recs) ==
    FoldLeft(LAMBDA acc, i :
                 [acc EXCEPT ![<<recs[i].name, recs[i].type>>] =
                    [records |-> SubSeq(recs, i, Len(recs)), fresh |-> TRUE]],
             c, [i \in 1 .. Len(recs) |-> i])

Hit(k) == cache[k] # NoEntry /\ cache[k].fresh

(* The lookups stop at the first miss; an expired entry is evicted.        *)
Asked(types) == SelectSeq(Types, LAMBDA t : t \in types)

Evicted(name, types) ==
    LET asked == Asked(types)
        looked == {i \in DOMAIN asked : \A j \in 1 .. i - 1 : Hit(<<name, asked[j]>>)}
    IN  [k \in Keys |-> IF ~Hit(k) /\ \E i \in looked : k = <<name, asked[i]>>
                          THEN NoEntry ELSE cache[k]]

(* An entry's expiry_ms passes.                                            *)
CacheExpires(k) ==
    /\ alive /\ Hit(k)
    /\ cache' = [cache EXCEPT ![k].fresh = FALSE]
    /\ UNCHANGED <<queries, nextId, conns, socks, req, wire, alive, called, accepted, fails>>

-----------------------------------------------------------------------------
(* Completion *)

(* Mutant of Outcome: the error of the last query decides.                 *)
OutcomeLast(q) ==
    IF q.err # "Timeout" THEN [err |-> q.err, recs |-> <<>>]
                         ELSE [err |-> IF q.success THEN "Ok" ELSE "Timeout", recs |-> q.results]

(* What the callback of a finished request is given.                       *)
Outcome(q) ==
    IF q.success THEN [err |-> "Ok", recs |-> q.results]
                 ELSE [err |-> q.err, recs |-> <<>>]

(* request_maybe_complete, for a request whose record is now q.            *)
MaybeComplete(r, q) ==
    IF q.pending > 0
      THEN /\ req' = [req EXCEPT ![r] = q]
           /\ UNCHANGED <<cache, called>>
      ELSE LET out == Outcome(q) IN
           /\ req' = [req EXCEPT ![r] = [q EXCEPT !.state = "done", !.results = out.recs, !.err = out.err]]
           /\ cache' = IF CacheOn THEN CacheInsert(cache, out.recs) ELSE cache
           /\ called' = [called EXCEPT ![r] = @ + 1]

-----------------------------------------------------------------------------
(* xDnsClientDo *)

(* alloc_id: the first id from next_id on that is neither 0 nor in use; 0  *)
(* when there is none.                                                     *)
AllocId(net) ==
    LET at(k) == (net.nextId + k) % (MaxId + 1)
        free == {k \in Ids : at(k) # 0 /\ net.queries[at(k)] = NoQuery}
    IN  IF free = {} THEN 0 ELSE at(CHOOSE k \in free : \A j \in free : k <= j)

(* One turn of the loop over the types, from the state acc to the states   *)
(* it may lead to.                                                         *)
Submit1(acc, r, name, type) ==
    LET id == AllocId(acc.net)
        q == [req |-> r, name |-> name, type |-> type, ns |-> 0, left |-> Retries]
        net == [acc.net EXCEPT !.nextId = (id + 1) % (MaxId + 1)]
    IN  IF acc.stop THEN {acc}
        ELSE IF id = 0 THEN {[acc EXCEPT !.stop = TRUE, !.err = "Unknown"]}
        ELSE {IF sent[1] THEN [acc EXCEPT !.net = [sent[2] EXCEPT !.queries[id] = q], !.pending = @ + 1]
                         ELSE [acc EXCEPT !.net = sent[2], !.err = "SysError"]
              : sent \in SendQuery(net, id, q)}

Submitted(r, name, types) ==
    FoldLeft(LAMBDA accs, t : UNION {Submit1(acc, r, name, t) : acc \in accs},
             {[net |-> Net, pending |-> 0, err |-> "Timeout", stop |-> FALSE]}, Asked(types))

SetNet(net) ==
    /\ queries' = net.queries /\ nextId' = net.nextId
    /\ conns' = net.conns /\ socks' = net.socks
    /\ wire' = {m \in net.wire : net.conns[m.ns].sock = m.sock}
    /\ fails' = net.fails

(* Every type is cached: the callback runs before xDnsClientDo returns.    *)
DoCached(r, name, types) ==
    /\ alive /\ req[r].state = "idle"
    /\ CacheOn
    /\ \A t \in types : Hit(<<name, t>>)
    /\ LET asked == Asked(types)
           merged == FlattenSeq([i \in DOMAIN asked |-> cache[<<name, asked[i]>>].records])
       IN  req' = [req EXCEPT ![r] = [Idle EXCEPT !.state = "hit", !.name = name, !.types = types,
                                                 !.results = merged, !.success = TRUE, !.err = "Ok"]]
    /\ called' = [called EXCEPT ![r] = @ + 1]
    /\ UNCHANGED <<queries, nextId, conns, socks, cache, wire, alive, accepted, fails>>

(* One query per type; a request none of whose queries was sent is         *)
(* completed on the spot.                                                  *)
DoQuery(r, name, types) ==
    /\ alive /\ req[r].state = "idle"
    /\ CacheOn => \E t \in types : ~Hit(<<name, t>>)
    /\ cache' = IF CacheOn THEN Evicted(name, types) ELSE cache
    /\ \E acc \in Submitted(r, name, types) :
         /\ SetNet(acc.net)
         /\ req' = [req EXCEPT ![r] = [Idle EXCEPT
                      !.state = IF acc.pending = 0 THEN "done" ELSE "open",
                      !.name = name, !.types = types, !.pending = acc.pending, !.err = acc.err]]
         /\ called' = [called EXCEPT ![r] = @ + (IF acc.pending = 0 THEN 1 ELSE 0)]
    /\ UNCHANGED <<alive, accepted>>

-----------------------------------------------------------------------------
(* Answers and timeouts *)

(* Mutant of OnReadable: the query is looked up but not removed.           *)
OnReadableKeeps(m, rcode, recs) ==
    /\ alive
    /\ queries[m.id] # NoQuery
    /\ LET r == queries[m.id].req
           q == [req[r] EXCEPT !.pending = @ - 1]
       IN  /\ MaybeComplete(r, IF rcode = 0 THEN [q EXCEPT !.success = TRUE, !.results = @ \o recs]
                                            ELSE [q EXCEPT !.err = "DnsError"])
           /\ accepted' = [accepted EXCEPT ![r] = IF rcode = 0 THEN @ \cup {recs} ELSE @]
    /\ UNCHANGED <<queries, nextId, conns, socks, wire, alive, fails>>

(* on_readable, for one datagram: the answer to m.  Only its id is         *)
(* compared with what is outstanding.                                      *)
OnReadable(m, rcode, recs) ==
    /\ alive
    /\ queries[m.id] # NoQuery
    /\ queries' = [queries EXCEPT ![m.id] = NoQuery]
    /\ LET r == queries[m.id].req
           q == [req[r] EXCEPT !.pending = @ - 1]
       IN  /\ MaybeComplete(r, CASE rcode = 0 -> [q EXCEPT !.success = TRUE, !.results = @ \o recs]
                                 [] rcode = 3 -> [q EXCEPT !.err = "NotFound"]
                                 [] OTHER     -> [q EXCEPT !.err = "DnsError"])
           /\ accepted' = [accepted EXCEPT ![r] = IF rcode = 0 THEN @ \cup {recs} ELSE @]
    /\ UNCHANGED <<nextId, conns, socks, wire, alive, fails>>

(* on_query_timeout: ask the next nameserver ...                           *)
Resent(id) ==
    LET q == [queries[id] EXCEPT !.left = @ - 1, !.ns = IF NsCount > 1 THEN (@ + 1) % NsCount ELSE @]
    IN  {<<sent[1], [sent[2] EXCEPT !.queries[id] = q]>> : sent \in SendQuery(Net, id, q)}

TimeoutRetry(id) ==
    /\ alive /\ queries[id] # NoQuery /\ queries[id].left > 0
    /\ \E sent \in Resent(id) : sent[1] /\ SetNet(sent[2])
    /\ UNCHANGED <<req, cache, alive, called, accepted>>

(* Mutant of TimeoutFinal: pending is not lowered.                         *)
TimeoutFinalForgets(id) ==
    /\ alive /\ queries[id] # NoQuery /\ queries[id].left = 0
    /\ queries' = [queries EXCEPT ![id] = NoQuery]
    /\ UNCHANGED <<nextId, conns, socks, req, cache, wire, alive, called, accepted, fails>>

(* ... or give up, when no retry is left or the resend failed.             *)
TimeoutFinal(id) ==
    /\ alive /\ queries[id] # NoQuery
    /\ LET r == queries[id].req
           gone(net) == [net EXCEPT !.queries[id] = NoQuery]
       IN  /\ \/ queries[id].left = 0 /\ SetNet(gone(Net))
              \/ queries[id].left > 0 /\ \E sent \in Resent(id) : ~sent[1] /\ SetNet(gone(sent[2]))
           /\ MaybeComplete(r, [req[r] EXCEPT !.pending = @ - 1, !.err = "Timeout"])
    /\ UNCHANGED <<alive, accepted>>

(* xDnsClientDestroy frees the requests it finds through their queries.    *)
Destroy ==
    /\ alive
    /\ alive' = FALSE
    /\ queries' = [id \in Ids |-> NoQuery]
    /\ req' = [r \in Requests |-> IF \E id \in Ids : queries[id] # NoQuery /\ queries[id].req = r
                                    THEN [req[r] EXCEPT !.state = "freed"] ELSE req[r]]
    /\ conns' = [s \in Servers |-> [sock |-> 0, count |-> 0]]
    /\ cache' = [k \in Keys |-> NoEntry]
    /\ wire' = {}
    /\ UNCHANGED <<nextId, socks, called, accepted, fails>>

Terminated == (~alive \/ \A r \in Requests : req[r].state \in {"hit", "done"}) /\ UNCHANGED vars

-----------------------------------------------------------------------------
Timeout == \E id \in Ids : TimeoutRetry(id) \/ TimeoutFinal(id)

Next ==
    \/ \E r \in Requests, name \in Names, types \in SUBSET Range(Types) \ {{}} :
         DoCached(r, name, types) \/ DoQuery(r, name, types)
    \/ \E m \in wire, rcode \in {0, 2, 3} :
         \E recs \in {<<>>, Zone(m.name, m.type)} : OnReadable(m, rcode, recs)
    \/ Timeout
    \/ \E k \in Keys : CacheExpires(k)
    \/ Destroy
    \/ Terminated

Spec == Init /\ [][Next]_vars

(* The loop runs and fires the timers that are due.                        *)
FairSpec == Spec /\ WF_vars(Timeout)

-----------------------------------------------------------------------------
(* Properties *)

Queries == [req : Requests, name : Names, type : Range(Types), ns : Servers, left : 0 .. Retries]

TypeOK ==
    /\ queries \in [Ids -> Queries \cup {NoQuery}]
    /\ nextId \in Ids
    /\ conns \in [Servers -> [sock : Nat, count : Nat]] /\ socks \in [Servers -> Nat]
    /\ \A s \in Servers : conns[s].sock <= socks[s] /\ (UdpMax > 0 => conns[s].count <= UdpMax)
    /\ \A r \in Requests : req[r].state \in {"idle", "open", "hit", "done", "freed"}
                            /\ req[r].err \in Errors /\ req[r].pending \in 0 .. Len(Types)

Outstanding(r) == {id \in Ids : queries[id] # NoQuery /\ queries[id].req = r}

(* pending counts the queries a request is waiting for, so it is completed *)
(* by the last of them and found by xDnsClientDestroy (dns_client.c:602).  *)
PendingExact ==
    \A r \in Requests :
      /\ Cardinality(Outstanding(r)) = IF req[r].state = "open" THEN req[r].pending ELSE 0
      /\ req[r].state = "open" => req[r].pending > 0

(* The callback is "Invoked exactly once per request" (dns.h), and not at  *)
(* all for a request that xDnsClientDestroy cancelled.                     *)
OneCallback ==
    \A r \in Requests : called[r] = IF req[r].state \in {"hit", "done"} THEN 1 ELSE 0

(* A request succeeds if and only if one of its queries did, and its       *)
(* callback gets the answers of all of those, whatever came in between.    *)
AnswersMerged ==
    \A r \in Requests : req[r].state = "done" =>
      /\ (req[r].err = "Ok") = (accepted[r] # {})
      /\ Range(req[r].results) = UNION {Range(recs) : recs \in accepted[r]}

(* The records a network answer gives to a callback are of the name and    *)
(* the types asked for, as long as no id is used again (MaxId) while an    *)
(* answer to it may still come: on_readable compares nothing but the id.   *)
AnswersAsked ==
    \A r \in Requests : req[r].state = "done" =>
      \A i \in DOMAIN req[r].results :
        req[r].results[i].name = req[r].name /\ req[r].results[i].type \in req[r].types

(* An answer from the cache holds every record the nameservers gave for    *)
(* the types asked for.                                                    *)
HitIsWhole ==
    \A r \in Requests : req[r].state = "hit" =>
      \A t \in req[r].types : Range(Zone(req[r].name, t)) \subseteq Range(req[r].results)

(* Every request gets its callback unless the client is destroyed.         *)
RequestsAnswered == \A r \in Requests : req[r].state = "open" ~> req[r].state # "open"

(* A request waits for exactly the queries that are out and is called back *)
(* once, by the last of them.                                              *)
RequestsExact == TypeOK /\ PendingExact /\ OneCallback

(* What the callback gets is everything that was answered and nothing that *)
(* was not asked.                                                          *)
AnswersRight == AnswersMerged /\ AnswersAsked
=============================================================================
