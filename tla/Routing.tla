------------------------------ MODULE Routing -------------------------------
(***************************************************************************)
(* From a URL to its handler: the mux of the C server, the router of the   *)
(* C++ server and the URL parser, each with a state of its own.            *)
(***************************************************************************)
EXTENDS Naturals, Sequences, FiniteSets, SequencesExt, FiniteSetsExt

-----------------------------------------------------------------------------
(***************************************************************************)
(* The router of the HTTP server (libx/x/http/server.c): routes in order   *)
(* of registration, and the scanner that matches a request's URL against   *)
(* the segments of a route.  A URL is a sequence of characters, of which   *)
(* "/" and "?" have their meaning; the segment ":" is a parameter.         *)
(***************************************************************************)

CONSTANTS UrlChars, MaxUrl, MaxRoutes, Methods, MaxParams

VARIABLE mux           \* the routes, a request and what it was resolved to

MuxUrls == UNION {[1..n -> UrlChars] : n \in 0..MaxUrl}
Segments == {<<ch>> : ch \in (UrlChars \cup {":"}) \ {"/", "?"}}
MuxPatterns == UNION {[1..n -> Segments] : n \in 0..2}

\* The first position from p on that holds none of C (the end if all do).
Past(url, p, C) == Min({i \in p..Len(url) : url[i] \notin C} \cup {Len(url) + 1})
Upto(url, p, C) == Min({i \in p..Len(url) : url[i] \in C} \cup {Len(url) + 1})

\* Runs of slashes count as one, the query is left out, and a parameter takes
\* a segment that is not empty.
xHttpRouteMatch_(segs, url) ==
    LET One(x, g) ==
            LET e == Upto(url, x.p, {"/", "?"})
                v == SubSeq(url, x.p, e - 1)
                next == Past(url, e, {"/"})
            IN  IF ~x.ok \/ x.p > Len(url) THEN [x EXCEPT !.ok = FALSE]
                ELSE IF g = <<":">> /\ v # <<>> /\ Len(x.params) < MaxParams
                THEN [x EXCEPT !.p = next, !.params = Append(@, v)]
                ELSE [x EXCEPT !.p = next, !.ok = g # <<":">> /\ v = g]
        r == FoldLeft(One, [ok |-> TRUE, p |-> Past(url, 1, {"/"}), params |-> <<>>], segs)
    IN  [r EXCEPT !.ok = @ /\ (r.p > Len(url) \/ url[r.p] = "?")]

xHttpMuxHandle(method, segs) ==
    /\ Len(mux.routes) < MaxRoutes
    /\ mux' = [mux EXCEPT !.routes = Append(@, [method |-> method, segs |-> segs])]

\* The first route that matches path and method; 405 when only paths match.
Resolve(routes, url, method) ==
    LET path == {i \in DOMAIN routes : xHttpRouteMatch_(routes[i].segs, url).ok}
        full == {i \in path : routes[i].method \in {"", method}}
    IN  [n |-> Len(routes),
         hit |-> IF full = {} THEN 0 ELSE Min(full),
         params |-> IF full = {} THEN <<>>
                    ELSE xHttpRouteMatch_(routes[Min(full)].segs, url).params,
         err |-> IF full = {} THEN (IF path = {} THEN 404 ELSE 405) ELSE 0]

xHttpMuxResolve ==
    mux' = [mux EXCEPT !.last = Resolve(mux.routes, mux.url, mux.method)]

MuxInit == \E u \in MuxUrls, m \in Methods :
       mux = [routes |-> <<>>, url |-> u, method |-> m, last |-> Resolve(<<>>, u, m)]

MuxNext ==
       \/ \E m \in {"", "GET"}, g \in MuxPatterns : xHttpMuxHandle(m, g)
       \/ xHttpMuxResolve

MuxSpec == MuxInit /\ [][MuxNext]_mux

-----------------------------------------------------------------------------
\* A URL's path as the segments between its slashes.
PathOf(url) ==
    LET path == SubSeq(url, 1, Upto(url, 1, {"?"}) - 1)
        One(x, ch) == IF ch = "/" THEN Append(x, <<>>)
                      ELSE [x EXCEPT ![Len(x)] = Append(@, ch)]
    IN  SelectSeq(FoldLeft(One, <<<<>>>>, path), LAMBDA g : g # <<>>)

\* Segment by segment.
Fits(segs, url) ==
    LET path == PathOf(url)
    IN  /\ Len(segs) = Len(path)
        /\ \A i \in DOMAIN segs : segs[i] \in {<<":">>, path[i]}
        /\ Len(SelectSeq(segs, LAMBDA g : g = <<":">>)) <= MaxParams

\* "Routes are matched in registration order (first match wins)"
\* (server.h:166): the scanner finds the first route whose segments are those
\* of the path and whose method fits, gives it the values of its parameters,
\* and answers 405 when only methods are wrong.
RouteRight ==
    LET l == mux.last
        fit == {i \in 1..l.n : Fits(mux.routes[i].segs, mux.url)}
        hit == {i \in fit : mux.routes[i].method \in {"", mux.method}}
        path == PathOf(mux.url)
        is == SelectSeq([i \in DOMAIN path |-> i],
                        LAMBDA i : mux.routes[l.hit].segs[i] = <<":">>)
    IN  IF hit = {} THEN l.hit = 0 /\ l.err = IF fit = {} THEN 404 ELSE 405
        ELSE l.hit = Min(hit) /\ l.params = [j \in DOMAIN is |-> path[is[j]]]

-----------------------------------------------------------------------------
(***************************************************************************)
(* The C++ HTTP Router: routes, middleware layers, nested and merged       *)
(* routers, fallbacks, and the composition of a request's handler.  A      *)
(* handler, a layer and a fallback is the number of its registration; what *)
(* answers a request is the handler with the layers around it, the         *)
(* outermost first.  A router moved into another stays where it is in      *)
(* router.node, owned by its parent.                                       *)
(*                                                                         *)
(* router.node[n]  routes, nested <<prefix, node>>, fallback, layers;      *)
(*   `top`                                                                 *)
(*            while the program still has it                               *)
(* router.want[n]  what was asked of router n: its routes with their whole *)
(*            paths and the layers of the routers they were moved through  *)
(* router.count  registrations so far                                      *)
(* router.cur  the router being built: those after it are finished, and    *)
(*            routers do not share anything until one takes in another     *)
(***************************************************************************)

CONSTANTS MaxRouters, \* bound on routers
          Patterns,   \* paths of routes, as sequences of characters
          MountPoints,   \* prefixes given to nest
          Urls,       \* paths requested
          RouteVerbs, \* methods of routes, "" for any
          Verbs,      \* methods of requests
          MaxRegs     \* bound on registrations

VARIABLE router

Nodes == 1 .. MaxRouters
None == [id |-> 0, wrap |-> <<>>]
Empty == [routes |-> <<>>, nested |-> <<>>, fallback |-> None, layers |-> <<>>, top |-> TRUE]

-----------------------------------------------------------------------------
\* Segments between slashes, empty ones skipped, up to the query.
split_path(url) ==
    LET end == IF \E i \in DOMAIN url : url[i] = "?"
               THEN (CHOOSE i \in DOMAIN url : url[i] = "?" /\ \A j \in 1 .. i - 1 : url[j] # "?") - 1
               ELSE Len(url)
        starts == {i \in 1 .. end : url[i] # "/" /\ (i = 1 \/ url[i - 1] = "/")}
        stop(i) == CHOOSE j \in i .. end : /\ j = end \/ url[j + 1] = "/"
                                           /\ \A k \in i .. j : url[k] # "/"
    IN  [k \in 1 .. Cardinality(starts) |->
           LET i == SetToSortSeq(starts, <)[k] IN SubSeq(url, i, stop(i))]

\* A pattern is split alike; it has no query.
parse_pattern(pattern) == split_path(pattern)

IsParam(seg) == seg[1] = ":"

segments_match(segments, segs) ==
    /\ Len(segments) = Len(segs)
    /\ \A i \in DOMAIN segs : IsParam(segments[i]) \/ segments[i] = segs[i]

\* The captured segments, in pattern order.
Params(segments, segs) ==
    LET at == SetToSortSeq({i \in DOMAIN segments : IsParam(segments[i])}, <)
    IN  [k \in DOMAIN at |-> segs[at[k]]]

MethodOk(route, method) == route.method \in {"", method}

-----------------------------------------------------------------------------
NoMatch == [entry |-> None, params |-> <<>>, path_matched |-> FALSE, sub_fallback |-> None]

RECURSIVE match_segments(_, _, _)
match_segments(n, segs, method) ==
    LET node  == router.node[n]
        paths == {i \in DOMAIN node.routes : segments_match(node.routes[i].segments, segs)}
        hits  == {i \in paths : MethodOk(node.routes[i], method)}
        First(S) == CHOOSE i \in S : \A j \in S : i <= j
        \* One nested router after the other, until one has an entry.
        Nested(m, mount) ==
          LET psegs == split_path(mount.prefix)
          IN  IF m.entry # None \/ ~IsPrefix(psegs, segs) THEN m
              ELSE LET sub == match_segments(mount.router, SubSeq(segs, Len(psegs) + 1, Len(segs)),
                                             method)
                       own == router.node[mount.router].fallback
                   IN  IF sub.entry # None THEN sub
                       ELSE [m EXCEPT !.path_matched = @ \/ sub.path_matched,
                                      !.sub_fallback = IF sub.sub_fallback # None
                                                       THEN sub.sub_fallback
                                                       ELSE IF own # None THEN own ELSE @]
    IN  IF hits # {}
        THEN LET e == node.routes[First(hits)]
             IN  [NoMatch EXCEPT !.entry = [id |-> e.id, wrap |-> e.wrap],
                                 !.params = Params(e.segments, segs), !.path_matched = TRUE]
        ELSE FoldLeft(Nested, [NoMatch EXCEPT !.path_matched = paths # {}], node.nested)

\* What answers: a handler, 405, a fallback or 404, within this router's layers.
Composed(n, m) ==
    LET Within(what, e) == [what |-> what, id |-> e.id, wrap |-> router.node[n].layers \o e.wrap,
                            params |-> m.params]
    IN  CASE m.entry # None -> Within("handler", m.entry)
          [] m.entry = None /\ m.path_matched -> Within("405", None)
          [] m.entry = None /\ ~m.path_matched /\ m.sub_fallback # None ->
               Within("fallback", m.sub_fallback)
          [] OTHER -> IF router.node[n].fallback # None THEN Within("fallback", router.node[n].fallback)
                      ELSE Within("404", None)
compose(n, url, method) == Composed(n, match_segments(n, split_path(url), method))

-----------------------------------------------------------------------------
RouterInit ==
          router = [node |-> [n \in Nodes |-> Empty], count |-> 0, cur |-> MaxRouters,
                    want |-> [n \in Nodes |-> [routes |-> {}, fallbacks |-> {}]]]

Can(n) == n = router.cur /\ router.count < MaxRegs

\* The program starts on another router.
Another == router.cur > 1 /\ router.node[router.cur] # Empty /\ router' = [router EXCEPT !.cur = @ - 1]

route(n, pattern, method) ==
    LET id == router.count + 1
        segments == parse_pattern(pattern)
    IN  /\ Can(n)
        /\ router' = [router EXCEPT !.count = id,
                                    !.node[n].routes = Append(@, [id |-> id, method |-> method, wrap |-> <<>>,
                                                                  segments |-> segments]),
                                    !.want[n].routes = @ \cup {[id |-> id, method |-> method, chain |-> <<>>,
                                                                path |-> segments]}]

layer(n) ==
    /\ Can(n)
    /\ router' = [router EXCEPT !.count = @ + 1, !.node[n].layers = Append(@, router.count + 1)]

fallback(n) ==
    LET id == router.count + 1
    IN  /\ Can(n)
        /\ router' = [router EXCEPT !.count = id, !.node[n].fallback = [id |-> id, wrap |-> <<>>],
                                    !.want[n].fallbacks = {f \in @ : ~f.own}
                                           \cup {[id |-> id, path |-> <<>>, chain |-> <<>>, own |-> TRUE]}]

\* Every route, the fallback and the routers nested below get the layers
\* around what they have.
RECURSIVE wrap_subtree(_, _, _)
wrap_subtree(node, n, layers) ==
    LET around(e) == [e EXCEPT !.wrap = layers \o @]
        here == [node EXCEPT ![n].routes = [i \in DOMAIN @ |-> around(@[i])],
                             ![n].fallback = IF @ = None THEN None ELSE around(@)]
    IN  FoldLeft(LAMBDA acc, mount : wrap_subtree(acc, mount.router, layers), here, node[n].nested)


bake_layers(node, n) == [wrap_subtree(node, n, node[n].layers) EXCEPT ![n].layers = <<>>]

\* What is wanted of a router that takes in n under a prefix.
Under(prefix, n) ==
    LET moved(e) == [e EXCEPT !.path = prefix \o @, !.chain = router.node[n].layers \o @]
    IN  [routes |-> {moved(e) : e \in router.want[n].routes},
         fallbacks |-> {moved(e) : e \in router.want[n].fallbacks}]

nest(n, prefix, sub) ==
    LET baked == bake_layers(router.node, sub)
        under == Under(split_path(prefix), sub)
    IN  /\ n = router.cur /\ sub > n /\ router.node[sub].top
        /\ router' = [router EXCEPT !.node = [baked EXCEPT ![sub].top = FALSE,
                                                ![n].nested = Append(@, [prefix |-> prefix, router |-> sub])],
                                    !.want[n] = [routes |-> @.routes \cup under.routes,
                                                 fallbacks |-> @.fallbacks \cup
                                                    {[f EXCEPT !.own = FALSE] : f \in under.fallbacks}]]

merge(n, other) ==
    LET baked == bake_layers(router.node, other)
        under == Under(<<>>, other)
        adopts == router.node[n].fallback = None
        node  == [baked EXCEPT ![other] = [Empty EXCEPT !.top = FALSE],
                               ![n].routes = @ \o baked[other].routes,
                               ![n].nested = @ \o baked[other].nested,
                               ![n].fallback = IF adopts THEN baked[other].fallback ELSE @]
    IN  /\ n = router.cur /\ other > n /\ router.node[other].top
        /\ router' = [router EXCEPT !.node = node,
                                    !.want[n] = [routes |-> @.routes \cup under.routes,
                                                 fallbacks |-> @.fallbacks \cup
                                                    {f \in under.fallbacks : adopts \/ ~f.own}]]

RouterNext ==
          \/ Another
          \/ \E n \in Nodes :
             \/ \E p \in Patterns, v \in RouteVerbs : route(n, p, v)
             \/ layer(n) \/ fallback(n)
             \/ \E sub \in Nodes : merge(n, sub) \/ \E prefix \in MountPoints : nest(n, prefix, sub)

RouterSpec == RouterInit /\ [][RouterNext]_router
-----------------------------------------------------------------------------
RouterTypeOK == \A n \in Nodes : router.node[n].top \in BOOLEAN /\ router.count \in 0 .. MaxRegs

\* However a router was put together, a request is answered by a handler
\* exactly if some route asked of it has the path and the method, with the
\* parameters from the path; by 405 exactly if only the path is known; and
\* within the layers of all routers on its way, the outermost first (layer:
\* "the FIRST layer registered is the OUTERMOST").  A fallback answers only
\* below its own prefix, and 404 only where there is none.
RoutesRight ==
    \A n \in {router.cur}, url \in Urls, v \in Verbs :
      \A segs \in {split_path(url)}, answer \in {compose(n, url, v)} :
       LET paths  == {e \in router.want[n].routes : segments_match(e.path, segs)}
           hits   == {e \in paths : MethodOk(e, v)}
           falls  == {f \in router.want[n].fallbacks : IsPrefix(f.path, segs)}
           chain(e) == router.node[n].layers \o e.chain
       IN    CASE hits # {} -> \E e \in hits : /\ answer.what = "handler" /\ answer.id = e.id
                                               /\ answer.wrap = chain(e)
                                               /\ answer.params = Params(e.path, segs)
               [] hits = {} /\ paths # {} -> answer.what = "405"
               [] paths = {} /\ falls # {} -> \E f \in falls : /\ answer.what = "fallback"
                                                              /\ answer.id = f.id
                                                              /\ answer.wrap = chain(f)
               [] OTHER -> answer.what = "404" /\ answer.wrap = router.node[n].layers

-----------------------------------------------------------------------------
(***************************************************************************)
(* xUrlParse and xUrlPort on every short text after "scheme://", against   *)
(* the parts put together again.  Characters are themselves or "a" for any *)
(* character with no meaning to the parser; digits are numbers.            *)
(***************************************************************************)

CONSTANTS Chars,      \* characters of a text
          MaxUrlLen,  \* length of the text after "://"
          Digits,     \* digits of a port
          MaxDigits   \* length of a port

VARIABLES url

Free == [error |-> TRUE]
Absent == <<"none">>

\* The first position from i on holding one of `stop', or the end.
Find(s, i, stop) ==
    LET hits == {j \in i .. Len(s) : s[j] \in stop}
    IN  IF hits = {} THEN Len(s) + 1 ELSE CHOOSE j \in hits : \A h \in hits : j <= h

FindLast(s, i, j, ch) ==
    LET hits == {h \in i .. j : s[h] = ch}
    IN  IF hits = {} THEN 0 ELSE CHOOSE h \in hits : \A g \in hits : h >= g

Part(s, i, j) == SubSeq(s, i, j - 1)     \* [i, j)

\* Where the port's colon is in the authority [h, e), 0 if there is none.
PortColon(s, h, e) ==
    LET b == Find(s, h, {"]"})
    IN  IF s[h] = "[" THEN IF b + 1 < e /\ s[b + 1] = ":" THEN b + 1 ELSE 0
        ELSE FindLast(s, h, e - 1, ":")

xUrlParse(s) ==
    LET e    == Find(s, 1, {"/", "?", "#"})
        at   == Find(s, 1, {"@"})
        user == at < e
        h    == IF user THEN at + 1 ELSE 1
        v6   == h < e /\ s[h] = "["
        b    == Find(s, h, {"]"})
        pc   == IF h < e THEN PortColon(s, h, e) ELSE 0
        host == IF v6 THEN Part(s, h + 1, b)
                ELSE Part(s, h, IF pc # 0 THEN pc ELSE e)
        hasPath == e <= Len(s) /\ s[e] = "/"
        q    == IF hasPath THEN Find(s, e, {"?", "#"}) ELSE e
        hasQ == q <= Len(s) /\ s[q] = "?"
        f    == IF hasQ THEN Find(s, q + 1, {"#"}) ELSE q
    IN  IF e = 1 \/ (v6 /\ b >= e) \/ host = <<>> THEN Free
        ELSE [error    |-> FALSE, v6 |-> v6,
              userinfo |-> IF user THEN Part(s, 1, at) ELSE Absent,
              host     |-> host,
              port     |-> IF pc # 0 THEN Part(s, pc + 1, e) ELSE Absent,
              path     |-> IF hasPath THEN Part(s, e, q) ELSE <<>>,
              query    |-> IF hasQ THEN Part(s, q + 1, f) ELSE Absent,
              fragment |-> IF f <= Len(s) /\ s[f] = "#"
                           THEN Part(s, f + 1, Len(s) + 1) ELSE Absent]

\* The port of a URL that names one: 0 for what does not fit 16 bits.
xUrlPort(ds) ==
    LET p == FoldLeft(LAMBDA v, d : IF v = -1 \/ v * 10 + d > 65535 THEN -1
                                    ELSE v * 10 + d, 0, ds)
    IN  IF p = -1 THEN 0 ELSE p

-----------------------------------------------------------------------------
Texts == SeqOf(Chars, MaxUrlLen)
Ports == SeqOf(Digits, MaxDigits)

UrlInit == url \in [text : Texts, port : {<<>>}, read : {FALSE}]
                   \cup [text : {<<>>}, port : Ports, read : {FALSE}]

UrlNext == ~url.read /\ url' = [url EXCEPT !.read = TRUE]

UrlSpec == UrlInit /\ [][UrlNext]_url

-----------------------------------------------------------------------------
\* The URL written from its parts.
Rejoined(r) ==
    (IF r.userinfo = Absent THEN <<>> ELSE r.userinfo \o <<"@">>)
    \o (IF r.v6 THEN <<"[">> \o r.host \o <<"]">> ELSE r.host)
    \o (IF r.port = Absent THEN <<>> ELSE <<":">> \o r.port)
    \o r.path
    \o (IF r.query = Absent THEN <<>> ELSE <<"?">> \o r.query)
    \o (IF r.fragment = Absent THEN <<>> ELSE <<"#">> \o r.fragment)

\* Text between an address in brackets and what follows it is dropped.
Trailing(s, r) ==
    r.v6 /\ \E i \in 1 .. Len(s) - 1 : s[i] = "]" /\ s[i + 1] \notin {":", "/", "?", "#"}

Value(ds) == FoldLeft(LAMBDA v, d : v * 10 + d, 0, ds)

\* The parts of an accepted URL are all of it, a host without brackets and
\* its port hold no delimiter that belongs to another part, and a port is the
\* number written, or 0 when that is no port (url.c:35-203).
UrlRight ==
    LET r == xUrlParse(url.text) IN
    /\ ~r.error =>
          /\ Rejoined(r) = url.text \/ Trailing(url.text, r)
          /\ r.port # Absent => \A i \in 1 .. Len(r.port) : r.port[i] \notin {":", "/", "?", "#"} \/ r.v6
          /\ ~r.v6 => \A i \in 1 .. Len(r.host) : r.host[i] \notin {"/", "?", "#"}
    /\ xUrlPort(url.port) = IF Value(url.port) <= 65535 THEN Value(url.port) ELSE 0
=============================================================================
