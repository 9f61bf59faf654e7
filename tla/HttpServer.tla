------------------------------ MODULE HttpServer ------------------------------
(***************************************************************************)
(* handle() and dispatch() of server/mod.rs with the handlers they call:   *)
(* return locations, direct proxy_pass, static files, the forward proxy    *)
(* and CONNECT tunnels.  The forwarding to a named upstream is one await   *)
(* here and a module of its own, ProxyUpstream; the writing of the log     *)
(* line is left to AccessLog.                                              *)
(*                                                                         *)
(* A handler runs without interruption between two awaits; at each it may  *)
(* be dropped, when the client goes away.  What the awaits yield (names,   *)
(* connections, peers, the file system) is nondeterministic, and so is     *)
(* what only the text of a request decides.                                *)
(***************************************************************************)
EXTENDS Routing

CONSTANTS
    Request,    \* clients, each with one request at a time
    Site,       \* servers: whether forward_proxy is on, and the locations
    Char,       \* the characters of paths
    Path,       \* paths that are asked for
    IndexFiles  \* length of a static location's index list

\* The arms of dispatch(), and those of forward_proxy_request.
LocationRoute == {"return", "named_upstream", "missing_upstream", "direct", "static"}
ForwardRoute == {"connect", "absolute", "relative"}
AllRoutes == LocationRoute \cup ForwardRoute \cup {"no_location"}

ASSUME HttpAssumption ==
    /\ Path \subseteq Seq(Char)
    /\ \A s \in Site :
         /\ s.forward_proxy \in BOOLEAN
         /\ s.locations \in Seq([path : Seq(Char), action : LocationRoute])
    /\ IndexFiles \in Nat

VARIABLES
    req,     \* per client: the server and path of its request, the index of
             \* its location there (0: none), its route, where the handler is
             \* (pc), which index file it looks for (index), and, as history,
             \* whether its name was not resolved or its body not received
             \* (failed) and the status a peer gave it (said, 0: none)
    answer,  \* per client: the status of the response, 0 before there is one
    asked,   \* per client: whether a peer was sent the request
    tunnel   \* per client: the task that relays its CONNECT

httpVars == <<req, answer, asked, tunnel>>

Status == {200, 204, 400, 403, 404, 405, 500, 501, 502, 503, 504}

AtAwait == {"pool", "buffering", "resolving", "connecting", "asking",
            "stat", "index", "reading"}

NoSite == [forward_proxy |-> FALSE, locations |-> <<>>]

NewRequest(s, p, location, route) ==
    [site |-> s, path |-> p, location |-> location, route |-> route,
     index |-> 0, failed |-> FALSE, said |-> 0, pc |-> "idle"]

HttpTypeOK ==
    /\ req \in [Request ->
         [site : Site \cup {NoSite}, path : Path \cup {<<>>}, location : Nat,
          route : AllRoutes \cup {"none"}, index : 0..IndexFiles, failed : BOOLEAN,
          said : Status \cup {0},
          pc : AtAwait \cup {"idle", "answered", "delivered", "gone"}]]
    /\ answer \in [Request -> Status \cup {0}]
    /\ asked \in [Request -> BOOLEAN]
    /\ tunnel \in [Request -> {"none", "upgrading", "relaying", "client_done",
                               "peer_done", "closed"}]

HttpInit ==
    /\ req = [r \in Request |-> NewRequest(NoSite, <<>>, 0, "none")]
    /\ answer = [r \in Request |-> 0]
    /\ asked = [r \in Request |-> FALSE]
    /\ tunnel = [r \in Request |-> "none"]

-----------------------------------------------------------------------------

\* The end of handle(): the response is handed to hyper.
Finish(r, q, status) ==
    /\ req' = [req EXCEPT ![r] = [q EXCEPT !.pc = "answered"]]
    /\ answer' = [answer EXCEPT ![r] = status]

\* The handler goes on to its next await: there is no response as yet.
Await(r, q, pc) ==
    /\ req' = [req EXCEPT ![r] = [q EXCEPT !.pc = pc]]
    /\ answer' = [answer EXCEPT ![r] = 0]

\* The location of the request, and what is left of its path after it.
LocationOf(q) == q.site.locations[q.location]
Relative(q) == uri_to_relative(LocationOf(q).path, q.path)
EndsWithSlash(rel) == rel # <<>> /\ rel[Len(rel)] = "/"

\* static_files::serve, up to the metadata of the file: 405 to methods other
\* than GET and HEAD, then 403 to a path with "..".
ServeFile(r, q) ==
    \/ Finish(r, q, 405)
    \/ Relative(q) = {} /\ Finish(r, q, 404)
    \/ \E rel \in Relative(q) :
         IF safe_join(rel) = {} THEN Finish(r, q, 403) ELSE Await(r, q, "stat")

\* dispatch(), up to the first await of the handler it calls.  A return location
\* answers the status it is given, whichever that is.  A CONNECT over HTTP/2
\* gets 501, one without host and port 400.
Dispatch(r, q) ==
    \/ q.route = "no_location" /\ Finish(r, q, 404)
    \/ q.route = "return" /\ \E s \in Status : Finish(r, q, s)
    \/ q.route = "missing_upstream" /\ Finish(r, q, 502)
    \/ q.route = "named_upstream" /\ Await(r, q, "pool")
    \/ q.route = "direct" /\ Await(r, q, "buffering")
    \/ q.route = "static" /\ ServeFile(r, q)
    \/ q.route = "connect" /\ (Await(r, q, "resolving") \/ \E s \in {501, 400} : Finish(r, q, s))
    \/ q.route = "absolute" /\ Await(r, q, "resolving")
    \/ q.route = "relative" /\ Finish(r, q, 400)

\* The requests there are for the path p of the server s: in a forward proxy
\* its form decides, whatever the path, elsewhere the location.
Requests(s, p) ==
    IF s.forward_proxy
      THEN {NewRequest(s, <<>>, 0, route) : route \in ForwardRoute}
      ELSE LET i == match_location(p, s.locations) IN
           {NewRequest(s, p, i, IF i = 0 THEN "no_location" ELSE s.locations[i].action)}

\* A request arrives on a connection that has no tunnel.
Arrive(r) ==
    /\ req[r].pc \in {"idle", "delivered", "gone"}
    /\ tunnel[r] \in {"none", "closed"}
    /\ \E s \in Site, p \in Path : \E q \in Requests(s, p) : Dispatch(r, q)
    /\ asked' = [asked EXCEPT ![r] = FALSE]
    /\ tunnel' = [tunnel EXCEPT ![r] = "none"]

-----------------------------------------------------------------------------
(* The forwarding handlers after each of their awaits.                      *)

\* The name is not resolved, or the body of the request breaks off.
NotReceived(r) ==
    /\ req[r].pc \in {"resolving", "buffering"}
    /\ Finish(r, [req[r] EXCEPT !.failed = TRUE], 502)
    /\ UNCHANGED <<asked, tunnel>>

\* The connection fails, the peer gives no reply, or proxy_upstream none.
NoReply(r) ==
    /\ req[r].pc \in {"connecting", "asking", "pool"}
    /\ Finish(r, req[r], 502)
    /\ UNCHANGED <<asked, tunnel>>

\* resolve_host_port: next connect the tunnel, or buffer the request.
Resolved(r) ==
    /\ req[r].pc = "resolving"
    /\ Await(r, req[r], IF req[r].route = "connect" THEN "connecting" ELSE "buffering")
    /\ UNCHANGED <<asked, tunnel>>

\* The URI of the outbound request: build_upstream_uri gives it scheme and
\* authority, origin_uri_from_forward path and query alone.
OutboundForm(route) == IF route = "direct" THEN "absolute" ELSE "origin"

\* hyper-util's Client connects by the URI of the request, and fails at once
\* on one without scheme and authority.
ClientTakes(form) == form = "absolute"

\* The body is there, and the request is handed to the client, unless none can
\* be built: the path of OPTIONS * gives no URI with an authority before it.
BodyBuffered(r) ==
    /\ req[r].pc = "buffering"
    /\ \/ /\ ClientTakes(OutboundForm(req[r].route))
          /\ Await(r, req[r], "asking")
          /\ asked' = [asked EXCEPT ![r] = TRUE]
       \/ Finish(r, req[r], 502) /\ UNCHANGED asked
    /\ UNCHANGED tunnel

\* Mutant of peer_failure_status: an application's own error is one too.
AnyServerError(s) == s >= 500

\* The statuses that are taken for a failure of the peer.
peer_failure_status(s) == s \in {502, 503, 504}

\* A peer, or the last that proxy_upstream asked, replies: its response is
\* relayed, or bad_gateway() is in its stead.
PeerAnswers(r) ==
    /\ req[r].pc \in {"asking", "pool"}
    /\ \E s \in Status :
         Finish(r, [req[r] EXCEPT !.said = s], IF peer_failure_status(s) THEN 502 ELSE s)
    /\ UNCHANGED <<asked, tunnel>>

\* forward_connect: the upstream connection is handed to a task that awaits
\* the upgrade, and the handler answers 200.
Connected(r) ==
    /\ req[r].pc = "connecting"
    /\ Finish(r, req[r], 200)
    /\ tunnel' = [tunnel EXCEPT ![r] = "upgrading"]
    /\ UNCHANGED asked

-----------------------------------------------------------------------------
(* Static files: resolve_file and file_response.  The file system may       *)
(* change between any two awaits.                                           *)

\* Mutant of TryIndex: one name too many is tried.
TryIndexPastEnd(r, k) ==
    IF k > IndexFiles + 1 THEN Finish(r, req[r], 404)
    ELSE Await(r, [req[r] EXCEPT !.index = k], "index")

\* The k-th index file, if there are so many.
TryIndex(r, k) ==
    IF k > IndexFiles THEN Finish(r, req[r], 404)
    ELSE Await(r, [req[r] EXCEPT !.index = k], "index")

\* metadata(base): a file, a directory, for which the index files are tried,
\* nothing, for which they are if the path does not end in "/", or an error.
Stat(r) ==
    /\ req[r].pc = "stat"
    /\ \/ Await(r, req[r], "reading")
       \/ TryIndex(r, 1)
       \/ \E rel \in Relative(req[r]) :
            IF EndsWithSlash(rel) THEN Finish(r, req[r], 404) ELSE TryIndex(r, 1)
       \/ Finish(r, req[r], 404)
    /\ UNCHANGED <<asked, tunnel>>

\* Mutant of StatIndex: after the last name the first is tried again.
StatIndexCycles(r) ==
    /\ req[r].pc = "index"
    /\ Await(r, req[r], "reading") \/ TryIndex(r, (req[r].index % IndexFiles) + 1)
    /\ UNCHANGED <<asked, tunnel>>

\* metadata(base.join(name)): take it, whatever it is, or try the next.
StatIndex(r) ==
    /\ req[r].pc = "index"
    /\ Await(r, req[r], "reading") \/ TryIndex(r, req[r].index + 1)
    /\ UNCHANGED <<asked, tunnel>>

\* read(path) gives the bytes, or an error as for a directory.
Read(r) ==
    /\ req[r].pc = "reading"
    /\ \E s \in {200, 404} : Finish(r, req[r], s)
    /\ UNCHANGED <<asked, tunnel>>

-----------------------------------------------------------------------------
(* The connection, and the task of a tunnel.                                *)

\* hyper has written the response.
Deliver(r) ==
    /\ req[r].pc = "answered"
    /\ req' = [req EXCEPT ![r].pc = "delivered"]
    /\ UNCHANGED <<answer, asked, tunnel>>

\* The client goes away: hyper drops the handler, if it has not ended.
HangUp(r) ==
    /\ req[r].pc \in AtAwait \cup {"answered", "delivered"}
    /\ req' = [req EXCEPT ![r].pc = "gone"]
    /\ UNCHANGED <<answer, asked, tunnel>>

\* Mutant of UpgradeEnds: the failure of the upgrade goes unnoticed.
UpgradeOnlySucceeds(r) ==
    /\ tunnel[r] = "upgrading" /\ req[r].pc = "delivered"
    /\ tunnel' = [tunnel EXCEPT ![r] = "relaying"]
    /\ UNCHANGED <<req, answer, asked>>

\* hyper::upgrade::on resolves once the 200 is written, or fails with the
\* connection, and the task drops the upstream connection.
UpgradeEnds(r) ==
    /\ tunnel[r] = "upgrading"
    /\ \/ req[r].pc = "delivered" /\ tunnel' = [tunnel EXCEPT ![r] = "relaying"]
       \/ req[r].pc = "gone" /\ tunnel' = [tunnel EXCEPT ![r] = "closed"]
    /\ UNCHANGED <<req, answer, asked>>

\* copy_bidirectional passes the end of one side's data on to the other, and
\* ends when both sides have ended.
ClientEnds(r) ==
    /\ tunnel[r] \in {"relaying", "peer_done"}
    /\ tunnel' = [tunnel EXCEPT ![r] = IF @ = "relaying" THEN "client_done" ELSE "closed"]
    /\ UNCHANGED <<req, answer, asked>>

PeerEnds(r) ==
    /\ tunnel[r] \in {"relaying", "client_done"}
    /\ tunnel' = [tunnel EXCEPT ![r] = IF @ = "relaying" THEN "peer_done" ELSE "closed"]
    /\ UNCHANGED <<req, answer, asked>>

\* It ends at once on an error of either side.
TunnelBreaks(r) ==
    /\ tunnel[r] \in {"relaying", "client_done", "peer_done"}
    /\ tunnel' = [tunnel EXCEPT ![r] = "closed"]
    /\ UNCHANGED <<req, answer, asked>>

\* A handler's await is over.
Resume(r) ==
    \/ NotReceived(r) \/ NoReply(r) \/ Resolved(r) \/ BodyBuffered(r)
    \/ PeerAnswers(r) \/ Connected(r) \/ Stat(r) \/ StatIndex(r) \/ Read(r)

Tunnel(r) == UpgradeEnds(r) \/ ClientEnds(r) \/ PeerEnds(r) \/ TunnelBreaks(r)

HttpNext ==
    \E r \in Request : Arrive(r) \/ Resume(r) \/ Deliver(r) \/ HangUp(r) \/ Tunnel(r)

HttpSpec == HttpInit /\ [][HttpNext]_httpVars

\* The runtime polls what is ready; the end of a client that is gone is seen,
\* and an upstream that is told of it ends too.  Nothing is assumed of bodies,
\* names and peers: the code bounds the time of none of them.
HttpFairSpec ==
    /\ HttpSpec
    /\ \A r \in Request :
         /\ WF_httpVars(UpgradeEnds(r))
         /\ WF_httpVars(req[r].pc = "gone" /\ ClientEnds(r))
         /\ WF_httpVars(tunnel[r] = "client_done" /\ PeerEnds(r))

-----------------------------------------------------------------------------
(* Properties.                                                              *)

\* What a client of a route with a peer is answered comes from the peer: its
\* reply as it is, an application's own 500 too, but 502 for a 502, 503 or 504
\* and when there is no reply, whatever the reason: no peer, no connection, a
\* body that breaks off, a request that cannot be built (proxy_upstream,
\* forward, forward_proxy_request; wiki/config.md on proxy_pass).
RepliesRelayed ==
    \A r \in Request :
        (req[r].route \in {"named_upstream", "missing_upstream", "direct", "absolute"}
           /\ answer[r] # 0)
          => answer[r] = IF req[r].said \in {0, 502, 503, 504} THEN 502 ELSE req[r].said

\* How many awaits a handler has before it at most.
AwaitsLeft(q) ==
    CASE q.pc = "resolving" -> 3
      [] q.pc \in {"buffering", "connecting"} -> 2
      [] q.pc \in {"pool", "asking", "reading"} -> 1
      [] q.pc = "stat" -> IndexFiles + 2
      [] q.pc = "index" -> IndexFiles + 2 - q.index
      [] OTHER -> 0

\* A handler never turns back: each await that ends leaves it fewer than it
\* had, whatever the answer (a missing file, a directory, an index file that
\* is none), so that no handler goes round in circles among them (dispatch,
\* resolve_file, forward_proxy_request).
AwaitsRunOut ==
    [][\A r \in Request :
         (req[r].pc \in AtAwait /\ req'[r] # req[r])
           => AwaitsLeft(req'[r]) < AwaitsLeft(req[r])]_httpVars

\* A request goes to the location with most parts of those whose parts begin
\* its path: /api takes /api/x but not /apifoo, and leaves /api/x to a location
\* of that path, in whatever order the two stand (match_location).
RoutedToLongest ==
    \A r \in Request :
        LET q == req[r]
            best == MostParts(q.path, q.site.locations)
        IN ~q.site.forward_proxy =>
             IF best = {} THEN q.location = 0 ELSE q.location \in best

\* From the first look at a file to the last, a static location looks below its
\* root, at the names that the path has after the location's; a path is refused
\* for a ".." among those, and for nothing else (uri_to_relative, safe_join).
FilesBelowRoot ==
    \A r \in Request :
        LET q == req[r]
            rest == RestOf(LocationOf(q).path, q.path)
        IN /\ q.pc \in {"stat", "index", "reading"} =>
                 /\ DotDot \notin ToSet(rest)
                 /\ {safe_join(rel) : rel \in Relative(q)} = {{Without(rest, Unnamed)}}
           /\ (q.route = "static" /\ answer[r] = 403) => DotDot \in ToSet(rest)

\* The upstream connection of a CONNECT is closed in the end if the client
\* goes away, whether it does so before the 200 is written, before the task
\* has taken the connection over, or while it relays.
TunnelEnds ==
    \A r \in Request : req[r].pc = "gone" ~> tunnel[r] \in {"none", "closed"}

\* wiki/features.md: the forward proxy gets the body from the backend.  So a
\* request is not answered without its origin being asked, if its name is
\* resolved and its body received.
ForwardProxyForwards ==
    \A r \in Request :
        (req[r].route = "absolute" /\ answer[r] # 0 /\ ~req[r].failed) => asked[r]

=============================================================================
