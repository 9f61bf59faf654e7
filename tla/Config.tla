-------------------------------- MODULE Config --------------------------------
(***************************************************************************)
(* config/parser.rs: what the directives and blocks of a configuration     *)
(* file do, in the order in which they stand in it, and the checks made at *)
(* the end of each block and of the file.  A file is read once, by the     *)
(* master and again by each worker, and rejected at its first error.       *)
(*                                                                         *)
(* The grammar has been applied before (pest), so blocks are balanced.     *)
(* Arguments are abstracted to what later code tells apart: an address or  *)
(* a path is there or not, and one that does not parse is a Malformed      *)
(* statement like an unknown directive.                                    *)
(***************************************************************************)
EXTENDS Naturals, Sequences, FiniteSets

CONSTANTS
    UpstreamName,   \* names that upstream blocks and proxy_pass may use
    WorkerCounts,   \* arguments of worker_processes
    Intervals,      \* arguments of health_check interval
    MaxStatements   \* bound: statements of a file, blocks included

ASSUME ConfigAssumption ==
    /\ WorkerCounts \subseteq Nat /\ Intervals \subseteq Nat
    /\ MaxStatements \in Nat
    /\ {"none", "direct"} \cap UpstreamName = {}

VARIABLES
    at,     \* the block whose statements are being read, or how it ended
    left,   \* how many more statements there may be (bound)
    cfg,    \* what has been read: Config
    open    \* the local variables of the blocks that are being read

configVars == <<at, left, cfg, open>>

Scheme == {"http", "https"}
LogSetting == {"unset", "off", "path"}
Action == {"return", "proxy_pass", "root"}

\* No proxy_pass; health_check absent, and its default interval.
NoPass == [scheme |-> "none", ssl_verify |-> TRUE, target |-> "none"]
NoCheck == 0
DefaultInterval == 5

Pass == [scheme : Scheme, ssl_verify : BOOLEAN, target : UpstreamName \cup {"direct"}]

Location == [action : Action, pass : Pass \cup {NoPass}]

Upstream == [name : UpstreamName, health_check : Nat]

\* ssl is the set of the ssl flags of a server's listeners.
Server == [ssl : SUBSET BOOLEAN, tls : BOOLEAN, access_log : LogSetting,
           forward_proxy : BOOLEAN, locations : Seq(Location)]

NoHttp == [access_log |-> "unset", upstreams |-> {}, servers |-> <<>>]

NoConfig == [workers |-> 1, streams |-> 0, http |-> NoHttp]

\* The local variables of parse_server_block and the blocks inside it, of
\* parse_upstream_block and of parse_stream_server_block.
NewServer == [ssl |-> {}, cert |-> FALSE, key |-> FALSE, access_log |-> "unset",
              forward_proxy |-> FALSE, locations |-> <<>>]
NewLocation == [has |-> {}, pass |-> NoPass, proxy_ssl_verify |-> TRUE, index |-> FALSE]
NewUpstream == [name |-> "none", servers |-> FALSE, health_check |-> NoCheck]
NewEndpoint == [listen |-> FALSE, proxy_pass |-> FALSE]

NothingOpen == [server |-> NewServer, location |-> NewLocation,
                upstream |-> NewUpstream, endpoint |-> NewEndpoint]

Ended == {"loaded", "rejected"}
Block == {"file", "events", "http", "upstream", "server", "location",
          "stream", "stream_server"}

\* What has been read, and the local variables of each kind of block.
Http == [access_log : LogSetting, upstreams : SUBSET Upstream, servers : Seq(Server)]
Configs == [workers : Nat, streams : Nat, http : Http]
ServerVars == [ssl : SUBSET BOOLEAN, cert : BOOLEAN, key : BOOLEAN,
               access_log : LogSetting, forward_proxy : BOOLEAN,
               locations : Seq(Location)]
LocationVars == [has : SUBSET Action, pass : Pass \cup {NoPass},
                 proxy_ssl_verify : BOOLEAN, index : BOOLEAN]
UpstreamVars == [name : UpstreamName \cup {"none"}, servers : BOOLEAN,
                 health_check : Nat]
EndpointVars == [listen : BOOLEAN, proxy_pass : BOOLEAN]

ConfigTypeOK ==
    /\ at \in Block \cup Ended
    /\ left \in 0..MaxStatements
    /\ cfg \in Configs
    /\ open \in [server : ServerVars, location : LocationVars,
                 upstream : UpstreamVars, endpoint : EndpointVars]

ConfigInit ==
    /\ at = "file" /\ left = MaxStatements
    /\ cfg = NoConfig
    /\ open = NothingOpen

-----------------------------------------------------------------------------

\* The next statement of the block b.
Statement(b) == at = b /\ left > 0 /\ left' = left - 1

\* The closing brace of the block b, or the end of the file.
EndOf(b) == at = b /\ UNCHANGED left

\* The parse returns Err, and all that was read is dropped.
Reject == at' = "rejected" /\ cfg' = NoConfig /\ open' = NothingOpen

\* An unknown directive or block, or one whose arguments do not parse.
Malformed == (\E b \in Block : Statement(b)) /\ Reject

-----------------------------------------------------------------------------
(* The file, http and events blocks.                                        *)

WorkerProcesses(n) ==
    /\ Statement("file")
    /\ cfg' = [cfg EXCEPT !.workers = n]
    /\ UNCHANGED <<at, open>>

\* A second http or stream block replaces the first.
OpenTop(b) ==
    /\ Statement("file")
    /\ at' = b
    /\ cfg' = CASE b = "http" -> [cfg EXCEPT !.http = NoHttp]
                [] b = "stream" -> [cfg EXCEPT !.streams = 0]
                [] OTHER -> cfg
    /\ UNCHANGED open

\* worker_connections, whose value nobody reads, and a block where the
\* parser looks at directives alone: it is skipped with all it contains.
Skipped ==
    /\ \E b \in {"events", "upstream", "location", "stream_server"} : Statement(b)
    /\ UNCHANGED <<at, cfg, open>>

CloseEvents == EndOf("events") /\ at' = "file" /\ UNCHANGED <<cfg, open>>

CloseHttp == EndOf("http") /\ at' = "file" /\ UNCHANGED <<cfg, open>>

HttpAccessLog(s) ==
    /\ Statement("http")
    /\ cfg' = [cfg EXCEPT !.http.access_log = s]
    /\ UNCHANGED <<at, open>>

-----------------------------------------------------------------------------
(* stream blocks.                                                           *)

OpenStreamServer ==
    /\ Statement("stream")
    /\ at' = "stream_server" /\ open' = [open EXCEPT !.endpoint = NewEndpoint]
    /\ UNCHANGED cfg

StreamListen ==
    /\ Statement("stream_server")
    /\ open' = [open EXCEPT !.endpoint.listen = TRUE]
    /\ UNCHANGED <<at, cfg>>

StreamProxyPass ==
    /\ Statement("stream_server")
    /\ open' = [open EXCEPT !.endpoint.proxy_pass = TRUE]
    /\ UNCHANGED <<at, cfg>>

CloseStreamServer ==
    /\ EndOf("stream_server")
    /\ IF open.endpoint = [listen |-> TRUE, proxy_pass |-> TRUE]
         THEN /\ cfg' = [cfg EXCEPT !.streams = @ + 1]
              /\ at' = "stream" /\ open' = NothingOpen
         ELSE Reject

CloseStream ==
    /\ EndOf("stream")
    /\ IF cfg.streams = 0 THEN Reject ELSE at' = "file" /\ UNCHANGED <<cfg, open>>

-----------------------------------------------------------------------------
(* upstream blocks.                                                         *)

OpenUpstream(u) ==
    /\ Statement("http")
    /\ IF \E v \in cfg.http.upstreams : v.name = u THEN Reject
       ELSE /\ at' = "upstream"
            /\ open' = [open EXCEPT !.upstream = [NewUpstream EXCEPT !.name = u]]
            /\ UNCHANGED cfg

UpstreamServer ==
    /\ Statement("upstream")
    /\ open' = [open EXCEPT !.upstream.servers = TRUE]
    /\ UNCHANGED <<at, cfg>>

\* health_check without interval: the default, unless one was set before.
HealthCheck ==
    /\ Statement("upstream")
    /\ open' = [open EXCEPT !.upstream.health_check =
                  IF @ = NoCheck THEN DefaultInterval ELSE @]
    /\ UNCHANGED <<at, cfg>>

HealthInterval(n) ==
    /\ Statement("upstream")
    /\ IF n = 0 THEN Reject
       ELSE open' = [open EXCEPT !.upstream.health_check = n] /\ UNCHANGED <<at, cfg>>

CloseUpstream ==
    /\ EndOf("upstream")
    /\ IF ~open.upstream.servers THEN Reject
       ELSE /\ cfg' = [cfg EXCEPT !.http.upstreams = @ \cup
                         {[name |-> open.upstream.name,
                           health_check |-> open.upstream.health_check]}]
            /\ at' = "http" /\ open' = NothingOpen

-----------------------------------------------------------------------------
(* server blocks.                                                           *)

OpenServer ==
    /\ Statement("http")
    /\ at' = "server" /\ open' = [open EXCEPT !.server = NewServer]
    /\ UNCHANGED cfg

\* A directive of the server block gives one of its variables a new value.
ServerDirective(s) ==
    /\ Statement("server")
    /\ open' = [open EXCEPT !.server = s]
    /\ UNCHANGED <<at, cfg>>

Listen(ssl) == ServerDirective([open.server EXCEPT !.ssl = @ \cup {ssl}])

SslCertificate == ServerDirective([open.server EXCEPT !.cert = TRUE])

SslCertificateKey == ServerDirective([open.server EXCEPT !.key = TRUE])

AccessLog(s) == ServerDirective([open.server EXCEPT !.access_log = s])

ForwardProxy(b) == ServerDirective([open.server EXCEPT !.forward_proxy = b])

\* Mutant of SslCovered: a server is let pass if one listener is plain.
SslCoveredOrPlain(s) == (s.cert /\ s.key) \/ (~s.cert /\ ~s.key /\ s.ssl # {TRUE})

\* Certificate and key come together, and an ssl listener needs them.
SslCovered(s) == (s.cert /\ s.key) \/ (~s.cert /\ ~s.key /\ TRUE \notin s.ssl)

CloseServer ==
    LET s == open.server IN
    /\ EndOf("server")
    /\ IF \/ s.ssl = {}
          \/ ~SslCovered(s)
          \/ s.forward_proxy /\ s.locations # <<>>
         THEN Reject
         ELSE /\ cfg' = [cfg EXCEPT !.http.servers = Append(@,
                           [ssl |-> s.ssl, tls |-> s.cert, access_log |-> s.access_log,
                            forward_proxy |-> s.forward_proxy, locations |-> s.locations])]
              /\ at' = "http" /\ open' = NothingOpen

-----------------------------------------------------------------------------
(* location blocks.                                                         *)

OpenLocation ==
    /\ Statement("server")
    /\ at' = "location" /\ open' = [open EXCEPT !.location = NewLocation]
    /\ UNCHANGED cfg

\* Which of ret, proxy_pass and root are Some.
Some(a) == a \in open.location.has

\* A directive gives the location an action.
TakeAction(a, pass) ==
    /\ open' = [open EXCEPT !.location.has = @ \cup {a}, !.location.pass = pass]
    /\ UNCHANGED <<at, cfg>>

Return ==
    /\ Statement("location")
    /\ IF Some("return") \/ Some("proxy_pass") \/ Some("root")
         THEN Reject ELSE TakeAction("return", NoPass)

\* Mutant of ProxyPass: a root that stands before it is not looked for.
ProxyPassAfterRoot(s, t) ==
    /\ Statement("location")
    /\ IF Some("return") \/ Some("proxy_pass")
         THEN Reject
         ELSE TakeAction("proxy_pass", [scheme |-> s, target |-> t,
                                        ssl_verify |-> open.location.proxy_ssl_verify])

\* parse_proxy_pass, and the proxy_ssl_verify said so far.
ProxyPass(s, t) ==
    /\ Statement("location")
    /\ IF Some("return") \/ Some("proxy_pass") \/ Some("root")
         THEN Reject
         ELSE TakeAction("proxy_pass", [scheme |-> s, target |-> t,
                                        ssl_verify |-> open.location.proxy_ssl_verify])

Root ==
    /\ Statement("location")
    /\ IF Some("return") \/ Some("proxy_pass") \/ Some("root")
         THEN Reject ELSE TakeAction("root", NoPass)

\* Mutant of ProxySslVerify: it counts for a proxy_pass that follows only.
ProxySslVerifyAhead(v) ==
    /\ Statement("location")
    /\ open' = [open EXCEPT !.location.proxy_ssl_verify = v]
    /\ UNCHANGED <<at, cfg>>

\* Mutant of ProxySslVerify: it is written where there is no proxy_pass.
ProxySslVerifyAlways(v) ==
    /\ Statement("location")
    /\ open' = [open EXCEPT !.location.proxy_ssl_verify = v,
                            !.location.pass.ssl_verify = v]
    /\ UNCHANGED <<at, cfg>>

\* proxy_ssl_verify, which reaches back to a proxy_pass before it.
ProxySslVerify(v) ==
    /\ Statement("location")
    /\ open' = [open EXCEPT
         !.location.proxy_ssl_verify = v,
         !.location.pass.ssl_verify =
            IF "proxy_pass" \in open.location.has THEN v ELSE @]
    /\ UNCHANGED <<at, cfg>>

\* index needs a root before it, and is refused besides the other actions.
Index ==
    /\ Statement("location")
    /\ IF \/ ~Some("root") /\ ~Some("return") /\ ~Some("proxy_pass")
          \/ Some("return") \/ Some("proxy_pass")
         THEN Reject
         ELSE open' = [open EXCEPT !.location.index = TRUE] /\ UNCHANGED <<at, cfg>>

\* One action makes a location; none, or several ("conflicting directives"),
\* are errors.
CloseLocation ==
    LET q == open.location IN
    /\ EndOf("location")
    /\ \/ \E a \in Action :
            /\ q.has = {a}
            /\ open' = [open EXCEPT
                  !.server.locations = Append(@, [action |-> a, pass |-> q.pass]),
                  !.location = NewLocation]
            /\ at' = "server"
            /\ UNCHANGED cfg
       \/ (\A a \in Action : q.has # {a}) /\ Reject

-----------------------------------------------------------------------------
(* The end of the file.                                                     *)

\* The locations of all servers, and those that proxy to the upstream u.
Place(h) == UNION {{i} \X (1..Len(h.servers[i].locations)) : i \in 1..Len(h.servers)}
PassAt(h, p) == h.servers[p[1]].locations[p[2]].pass
Users(h, u) == {p \in Place(h) : PassAt(h, p).target = u}

\* Mutant of SchemesAgree: what was seen is forgotten at each server.
SchemesAgreePerServer(h) ==
    \A u \in UpstreamName : \A p, q \in Users(h, u) :
        p[1] = q[1] => /\ PassAt(h, p).scheme = PassAt(h, q).scheme
                       /\ PassAt(h, p).ssl_verify = PassAt(h, q).ssl_verify

\* validate_upstream_proxy_schemes.
SchemesAgree(h) ==
    \A u \in UpstreamName : \A p, q \in Users(h, u) :
        /\ PassAt(h, p).scheme = PassAt(h, q).scheme
        /\ PassAt(h, p).ssl_verify = PassAt(h, q).ssl_verify

EndOfFile ==
    /\ EndOf("file")
    /\ IF \/ cfg.http.servers = <<>> /\ cfg.streams = 0
          \/ cfg.http.servers # <<>> /\ ~SchemesAgree(cfg.http)
         THEN Reject
         ELSE at' = "loaded" /\ UNCHANGED <<cfg, open>>

ReadTop ==
    \/ \E n \in WorkerCounts : WorkerProcesses(n)
    \/ \E b \in {"events", "http", "stream"} : OpenTop(b)
    \/ Skipped \/ Malformed \/ CloseEvents \/ CloseHttp \/ EndOfFile
    \/ \E s \in {"off", "path"} : HttpAccessLog(s)

ReadStream ==
    \/ OpenStreamServer \/ StreamListen \/ StreamProxyPass
    \/ CloseStreamServer \/ CloseStream

ReadUpstream ==
    \/ \E u \in UpstreamName : OpenUpstream(u)
    \/ UpstreamServer \/ HealthCheck \/ CloseUpstream
    \/ \E n \in Intervals : HealthInterval(n)

ReadServer ==
    \/ OpenServer \/ SslCertificate \/ SslCertificateKey \/ CloseServer
    \/ \E b \in BOOLEAN : Listen(b) \/ ForwardProxy(b)
    \/ \E s \in {"off", "path"} : AccessLog(s)

ReadLocation ==
    \/ OpenLocation \/ Return \/ Root \/ Index \/ CloseLocation
    \/ \E s \in Scheme, t \in UpstreamName \cup {"direct"} : ProxyPass(s, t)
    \/ \E v \in BOOLEAN : ProxySslVerify(v)

ConfigNext == ReadTop \/ ReadStream \/ ReadUpstream \/ ReadServer \/ ReadLocation

ConfigSpec == ConfigInit /\ [][ConfigNext]_configVars

-----------------------------------------------------------------------------
(* What the server makes of a configuration that was loaded.                *)

\* WorkerHttp::client_for and client_for_probe.
ClientFor(c) == IF c.scheme = "https" /\ ~c.ssl_verify THEN "insecure" ELSE "verifying"

\* collect_probe_configs: the first location in the file that uses u.
Before(p, q) == p[1] < q[1] \/ (p[1] = q[1] /\ p[2] < q[2])
ProbeConfig(h, u) ==
    PassAt(h, CHOOSE p \in Users(h, u) : \A q \in Users(h, u) : p = q \/ Before(p, q))

\* run: the check that it has bound a listener (n is not 0).
Listens(c) == c.streams > 0 \/ \E i \in 1..Len(c.http.servers) : c.http.servers[i].ssl # {}

-----------------------------------------------------------------------------
(* Properties.                                                              *)

\* No directive of a location is taken and then without effect: in whatever
\* order they stand, the three that give an action each look for the other two,
\* so that there is one at most and the "conflicting directives" arm is never
\* reached, and index files are there for a root only.
OneAction ==
    /\ Cardinality(open.location.has) <= 1
    /\ open.location.index => open.location.has = {"root"}

\* proxy_ssl_verify works wherever it stands in its location: the proxy_pass
\* has the last value that was said, or the default.
VerifyReachesPass ==
    "proxy_pass" \in open.location.has =>
        open.location.pass.ssl_verify = open.location.proxy_ssl_verify

\* run() of a loaded configuration has something to listen on, its expect()
\* of a TLS acceptor holds for every ssl listener, and no location stands in
\* a forward proxy, where dispatch would never look at it.
LoadedCanRun ==
    at = "loaded" =>
        /\ Listens(cfg)
        /\ \A i \in 1..Len(cfg.http.servers) :
             LET s == cfg.http.servers[i] IN
               /\ TRUE \in s.ssl => s.tls
               /\ s.forward_proxy => s.locations = <<>>

\* The probe of an upstream, which looks at one location alone, speaks to
\* its peers the way the requests of every location do: same scheme, and the
\* same client, that verifies certificates or does not.
ProbesLikeRequests ==
    at = "loaded" =>
        \A u \in UpstreamName : \A p \in Users(cfg.http, u) :
            /\ PassAt(cfg.http, p).scheme = ProbeConfig(cfg.http, u).scheme
            /\ ClientFor(PassAt(cfg.http, p)) = ClientFor(ProbeConfig(cfg.http, u))

=============================================================================
