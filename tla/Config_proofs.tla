----------------------------- MODULE Config_proofs -----------------------------
(***************************************************************************)
(* Proofs about Config: however a file is written, a location has one      *)
(* action, and index files for a root only, proxy_ssl_verify reaches its   *)
(* proxy_pass, and what is loaded can be served, with probes that speak to *)
(* a peer as the requests do.                                              *)
(***************************************************************************)
EXTENDS Config, FiniteSetTheorems, WellFoundedInduction, TLAPS

\* Types, and that an upstream block that is being read has a name.
Typed ==
    /\ ConfigTypeOK
    /\ at = "upstream" => open.upstream.name \in UpstreamName

\* What is known of the location that is being read.
LocationInv ==
    /\ open.location.has = {} \/ \E a \in Action : open.location.has = {a}
    /\ open.location.index => open.location.has = {"root"}
    /\ "proxy_pass" \in open.location.has => open.location.pass \in Pass
    /\ VerifyReachesPass

\* What CloseServer has checked of a server.
Sound(s) ==
    /\ s.ssl # {}
    /\ TRUE \in s.ssl => s.tls
    /\ s.forward_proxy => s.locations = <<>>

ServersInv == \A i \in 1..Len(cfg.http.servers) : Sound(cfg.http.servers[i])

\* What EndOfFile has checked of the file.
LoadedInv ==
    at = "loaded" =>
        /\ cfg.http.servers # <<>> \/ cfg.streams # 0
        /\ cfg.http.servers # <<>> => SchemesAgree(cfg.http)

ConfigInv == Typed /\ LocationInv /\ ServersInv /\ LoadedInv

-----------------------------------------------------------------------------
(* Types.                                                                   *)

LEMMA NothingOpenTyped ==
  NothingOpen \in [server : ServerVars, location : LocationVars,
                   upstream : UpstreamVars, endpoint : EndpointVars]
BY DEF NothingOpen, NewServer, ServerVars, LogSetting, NewLocation, LocationVars,
       NewUpstream, UpstreamVars, NoCheck, NewEndpoint, EndpointVars

LEMMA RejectTyped ==
  ASSUME Typed, Reject, left' \in 0..MaxStatements
  PROVE  Typed'
<1>1. cfg' \in Configs
  BY DEF Reject, NoConfig, Configs, NoHttp, Http, LogSetting
<1> QED BY <1>1, NothingOpenTyped DEF Typed, ConfigTypeOK, Reject, Ended

\* After an error there is no location.
LEMMA RejectKeeps ==
  ASSUME Reject
  PROVE  LocationInv'
BY DEF Reject, NothingOpen, NewLocation, LocationInv, VerifyReachesPass

LEMMA LeftTyped ==
  ASSUME Typed,
         (\E b \in Block : Statement(b)) \/ UNCHANGED left
  PROVE  left' \in 0..MaxStatements
BY ConfigAssumption DEF Typed, ConfigTypeOK, Statement

\* Statements of the top, http, stream and upstream blocks.
LEMMA ReadTopTyped ==
  ASSUME Typed, ReadTop
  PROVE  Typed'
<1> USE DEF Typed, ConfigTypeOK
<1>1. ASSUME NEW n \in WorkerCounts, WorkerProcesses(n) PROVE Typed'
  BY <1>1, LeftTyped, ConfigAssumption DEF WorkerProcesses, Configs, Statement, Block
<1>2. ASSUME NEW b \in {"events", "http", "stream"}, OpenTop(b) PROVE Typed'
  <2>1. left' \in 0..MaxStatements /\ at' \in Block /\ UNCHANGED open
    BY <1>2, LeftTyped DEF OpenTop, Statement, Block
  <2>2. NoHttp \in Http
    BY DEF NoHttp, Http, LogSetting
  <2>3. CASE b = "http"
    BY <1>2, <2>1, <2>2, <2>3 DEF OpenTop, Configs
  <2>4. CASE b = "stream"
    BY <1>2, <2>1, <2>4 DEF OpenTop, Configs
  <2>5. CASE b = "events"
    BY <1>2, <2>1, <2>5 DEF OpenTop
  <2> QED BY <2>3, <2>4, <2>5
<1>3. CASE Skipped
  BY <1>3, LeftTyped DEF Skipped, Statement, Block
<1>4. CASE Malformed
  BY <1>4, LeftTyped, RejectTyped DEF Malformed
<1>5. CASE CloseEvents \/ CloseHttp
  BY <1>5 DEF CloseEvents, CloseHttp, EndOf, Block
<1>6. CASE EndOfFile
  BY <1>6, RejectTyped DEF EndOfFile, EndOf, Ended
<1>7. ASSUME NEW s \in {"off", "path"}, HttpAccessLog(s) PROVE Typed'
  BY <1>7, LeftTyped DEF HttpAccessLog, Configs, Http, Statement, Block, LogSetting
<1> QED BY <1>1, <1>2, <1>3, <1>4, <1>5, <1>6, <1>7 DEF ReadTop

\* Statements of stream and upstream blocks.
LEMMA ReadStreamTyped ==
  ASSUME Typed, ReadStream
  PROVE  Typed'
<1> USE DEF Typed, ConfigTypeOK
<1>1. CASE OpenStreamServer
  BY <1>1, LeftTyped DEF OpenStreamServer, Statement, Block, EndpointVars, NewEndpoint
<1>2. CASE StreamListen
  BY <1>2, LeftTyped DEF StreamListen, Statement, Block, EndpointVars
<1>3. CASE StreamProxyPass
  BY <1>3, LeftTyped DEF StreamProxyPass, Statement, Block, EndpointVars
<1>4. CASE CloseStreamServer
  <2>1. CASE open.endpoint = [listen |-> TRUE, proxy_pass |-> TRUE]
    BY <1>4, <2>1, NothingOpenTyped DEF CloseStreamServer, EndOf, Block, Configs
  <2>2. CASE open.endpoint # [listen |-> TRUE, proxy_pass |-> TRUE]
    BY <1>4, <2>2, RejectTyped DEF CloseStreamServer, EndOf
  <2> QED BY <2>1, <2>2
<1>5. CASE CloseStream
  BY <1>5, RejectTyped DEF CloseStream, EndOf, Block
<1> QED BY <1>1, <1>2, <1>3, <1>4, <1>5 DEF ReadStream

LEMMA ReadUpstreamTyped ==
  ASSUME Typed, ReadUpstream
  PROVE  Typed'
<1> USE DEF Typed, ConfigTypeOK
<1>1. ASSUME NEW u \in UpstreamName, OpenUpstream(u) PROVE Typed'
  <2>1. CASE \E v \in cfg.http.upstreams : v.name = u
    BY <1>1, <2>1, LeftTyped, RejectTyped DEF OpenUpstream, Statement, Block
  <2>2. CASE ~\E v \in cfg.http.upstreams : v.name = u
    <3>1. [NewUpstream EXCEPT !.name = u] \in UpstreamVars
      BY DEF NewUpstream, UpstreamVars, NoCheck
    <3>2. at' = "upstream" /\ open' = [open EXCEPT !.upstream = [NewUpstream EXCEPT !.name = u]]
      BY <1>1, <2>2 DEF OpenUpstream
    <3>3. open.upstream.name' = u
      BY <3>1, <3>2 DEF NewUpstream
    <3>4. left' \in 0..MaxStatements /\ cfg' = cfg
      BY <1>1, <2>2, LeftTyped DEF OpenUpstream, Statement, Block
    <3> QED BY <3>1, <3>2, <3>3, <3>4 DEF Block
  <2> QED BY <2>1, <2>2
<1>2. CASE UpstreamServer
  BY <1>2, LeftTyped DEF UpstreamServer, Statement, Block, UpstreamVars
<1>3. CASE HealthCheck
  BY <1>3, LeftTyped
  DEF HealthCheck, Statement, Block, UpstreamVars, DefaultInterval
<1>4. CASE CloseUpstream
  <2>1. CASE ~open.upstream.servers
    BY <1>4, <2>1, RejectTyped DEF CloseUpstream, EndOf
  <2>2. CASE open.upstream.servers
    <3>1. [name |-> open.upstream.name, health_check |-> open.upstream.health_check]
            \in Upstream
      BY <1>4, <2>2 DEF UpstreamVars, Upstream, CloseUpstream, EndOf
    <3> QED BY <1>4, <2>2, <3>1, NothingOpenTyped
            DEF CloseUpstream, EndOf, Block, Configs, Http
  <2> QED BY <2>1, <2>2
<1>5. ASSUME NEW n \in Intervals, HealthInterval(n) PROVE Typed'
  BY <1>5, LeftTyped, RejectTyped, ConfigAssumption
  DEF HealthInterval, Statement, Block, UpstreamVars
<1> QED BY <1>1, <1>2, <1>3, <1>4, <1>5 DEF ReadUpstream

LEMMA ServerDirectiveTyped ==
  ASSUME Typed, NEW s \in ServerVars, ServerDirective(s)
  PROVE  Typed'
BY LeftTyped DEF Typed, ConfigTypeOK, ServerDirective, Statement, Block

LEMMA ReadServerTyped ==
  ASSUME Typed, ReadServer
  PROVE  Typed'
<1> USE DEF Typed, ConfigTypeOK
<1> DEFINE s == open.server
<1>0. s \in ServerVars
  OBVIOUS
<1>1. CASE OpenServer
  <2>1. NewServer \in ServerVars
    BY DEF NewServer, ServerVars, LogSetting
  <2> QED BY <1>1, <2>1, LeftTyped DEF OpenServer, Statement, Block
<1>2. CASE SslCertificate \/ SslCertificateKey
  <2>1. /\ [s EXCEPT !.cert = TRUE] \in ServerVars
        /\ [s EXCEPT !.key = TRUE] \in ServerVars
    BY <1>0 DEF ServerVars
  <2> QED BY <1>2, <2>1, ServerDirectiveTyped DEF SslCertificate, SslCertificateKey
<1>3. CASE CloseServer
  <2> DEFINE new == [ssl |-> s.ssl, tls |-> s.cert, access_log |-> s.access_log,
                     forward_proxy |-> s.forward_proxy, locations |-> s.locations]
  <2>1. new \in Server
    BY <1>0 DEF ServerVars, Server
  <2>2. CASE Reject
    BY <1>3, <2>2, RejectTyped DEF CloseServer, EndOf
  <2>3. CASE /\ cfg' = [cfg EXCEPT !.http.servers = Append(@, new)]
             /\ at' = "http" /\ open' = NothingOpen
    <3>1. Append(cfg.http.servers, new) \in Seq(Server)
      BY <2>1 DEF Configs, Http
    <3>2. cfg' \in Configs
      BY <2>3, <3>1 DEF Configs, Http
    <3> QED BY <1>3, <2>3, <3>2, NothingOpenTyped DEF CloseServer, EndOf, Block
  <2> QED BY <1>3, <2>2, <2>3 DEF CloseServer
<1>4. ASSUME NEW b \in BOOLEAN, Listen(b) \/ ForwardProxy(b) PROVE Typed'
  <2>1. /\ [s EXCEPT !.ssl = @ \cup {b}] \in ServerVars
        /\ [s EXCEPT !.forward_proxy = b] \in ServerVars
    BY <1>0 DEF ServerVars
  <2> QED BY <1>4, <2>1, ServerDirectiveTyped DEF Listen, ForwardProxy
<1>5. ASSUME NEW l \in {"off", "path"}, AccessLog(l) PROVE Typed'
  <2>1. [s EXCEPT !.access_log = l] \in ServerVars
    BY <1>0 DEF ServerVars, LogSetting
  <2> QED BY <1>5, <2>1, ServerDirectiveTyped DEF AccessLog
<1> QED BY <1>1, <1>2, <1>3, <1>4, <1>5 DEF ReadServer

-----------------------------------------------------------------------------
(* Locations: their types and their part of the invariant together.         *)

\* An action that a location is given when it has none.
LEMMA TakeActionKeeps ==
  ASSUME Typed, LocationInv, NEW a \in Action, NEW pass \in Pass \cup {NoPass},
         a = "proxy_pass" =>
           pass \in Pass /\ pass.ssl_verify = open.location.proxy_ssl_verify,
         Statement("location"),
         IF Some("return") \/ Some("proxy_pass") \/ Some("root")
           THEN Reject ELSE TakeAction(a, pass)
  PROVE  Typed' /\ LocationInv'
<1>1. CASE Reject
  BY <1>1, LeftTyped, RejectTyped, RejectKeeps DEF Block
<1>2. CASE ~Reject
  <2>0. open.location.has = {} /\ TakeAction(a, pass)
    <3>1. ~Some("return") /\ ~Some("proxy_pass") /\ ~Some("root") /\ TakeAction(a, pass)
      BY <1>2
    <3> QED BY <3>1 DEF Some, LocationInv, Action
  <2>1. /\ open' = [open EXCEPT !.location.has = @ \cup {a}, !.location.pass = pass]
        /\ UNCHANGED <<at, cfg>> /\ at = "location" /\ left' \in 0..MaxStatements
    BY <2>0, LeftTyped DEF TakeAction, Statement, Block
  <2>2. /\ open.location.has' = {a} /\ open.location.pass' = pass
        /\ open.location.proxy_ssl_verify' = open.location.proxy_ssl_verify
        /\ open.location.index' = FALSE
    BY <2>0, <2>1 DEF Typed, ConfigTypeOK, LocationVars, LocationInv
  <2>3. open.location' \in LocationVars
    BY <2>1 DEF Typed, ConfigTypeOK, LocationVars
  <2>4. LocationInv'
    BY <2>2 DEF LocationInv, VerifyReachesPass
  <2> QED BY <2>1, <2>3, <2>4 DEF Typed, ConfigTypeOK
<1> QED BY <1>1, <1>2

\* index stays with a root.
LEMMA IndexKeeps ==
  ASSUME Typed, LocationInv, Index
  PROVE  Typed' /\ LocationInv'
<1>1. CASE Reject
  BY <1>1, LeftTyped, RejectTyped, RejectKeeps DEF Index, Block
<1>2. CASE ~Reject
  <2>1. /\ open' = [open EXCEPT !.location.index = TRUE]
        /\ UNCHANGED <<at, cfg>> /\ at = "location" /\ left' \in 0..MaxStatements
        /\ Some("root")
    BY <1>2, LeftTyped DEF Index, Statement, Block
  <2>2. open.location' = [open.location EXCEPT !.index = TRUE]
    BY <2>1 DEF Typed, ConfigTypeOK
  <2>3. open.location \in LocationVars /\ open.location' \in LocationVars
    BY <2>2 DEF Typed, ConfigTypeOK, LocationVars
  <2>4. /\ open.location.has' = open.location.has /\ open.location.pass' = open.location.pass
        /\ open.location.proxy_ssl_verify' = open.location.proxy_ssl_verify
    BY <2>2, <2>3 DEF LocationVars
  <2>5. open.location.has = {"root"}
    BY <2>1 DEF Some, LocationInv
  <2>6. LocationInv'
    BY <2>4, <2>5 DEF LocationInv, VerifyReachesPass, Action
  <2> QED BY <2>1, <2>3, <2>6 DEF Typed, ConfigTypeOK
<1> QED BY <1>1, <1>2

\* proxy_ssl_verify writes a proxy_pass if there is one.
LEMMA ProxySslVerifyKeeps ==
  ASSUME Typed, LocationInv, NEW v \in BOOLEAN, ProxySslVerify(v)
  PROVE  Typed' /\ LocationInv'
<1> DEFINE q == open.location
           seen == "proxy_pass" \in q.has
<1>1. /\ q' = [q EXCEPT !.proxy_ssl_verify = v,
                        !.pass.ssl_verify = IF seen THEN v ELSE @]
      /\ open' \in [server : {open.server}, location : {q'},
                    upstream : {open.upstream}, endpoint : {open.endpoint}]
      /\ UNCHANGED <<at, cfg>> /\ at = "location" /\ left' \in 0..MaxStatements
  BY LeftTyped DEF ProxySslVerify, Statement, Block, Typed, ConfigTypeOK
<1>2. q \in LocationVars
  BY DEF Typed, ConfigTypeOK
<1>3. (q.has)' = q.has /\ (q.index)' = q.index /\ (q.proxy_ssl_verify)' = v
  BY <1>1, <1>2 DEF LocationVars
<1>4. CASE seen
  <2>1. q.pass \in Pass
    BY <1>4 DEF LocationInv
  <2>2. (q.pass)' \in Pass /\ (q.pass.ssl_verify)' = v
    BY <1>1, <1>2, <1>4, <2>1 DEF LocationVars, Pass
  <2>3. q' \in LocationVars
    BY <1>1, <1>2, <1>4, <2>1, <2>2 DEF LocationVars, Pass
  <2> QED BY <1>1, <1>3, <2>2, <2>3
          DEF Typed, ConfigTypeOK, LocationInv, VerifyReachesPass
<1>5. CASE ~seen
  <2>1. (q.pass)' = q.pass
    BY <1>1, <1>2, <1>5 DEF LocationVars, Pass, NoPass
  <2>2. q' \in LocationVars
    BY <1>1, <1>2, <1>5, <2>1 DEF LocationVars
  <2> QED BY <1>1, <1>3, <1>5, <2>2
          DEF Typed, ConfigTypeOK, LocationInv, VerifyReachesPass
<1> QED BY <1>4, <1>5

LEMMA CloseLocationKeeps ==
  ASSUME Typed, LocationInv, CloseLocation
  PROVE  Typed' /\ LocationInv'
<1> DEFINE q == open.location
<1>1. CASE Reject
  BY <1>1, RejectTyped, RejectKeeps DEF CloseLocation, EndOf, Typed, ConfigTypeOK
<1>2. CASE ~Reject
  <2>1. PICK a \in Action :
          open' = [open EXCEPT
            !.server.locations = Append(@, [action |-> a, pass |-> q.pass]),
            !.location = NewLocation]
    BY <1>2 DEF CloseLocation
  <2>2. at' = "server" /\ UNCHANGED <<left, cfg>>
    BY <1>2 DEF CloseLocation, EndOf
  <2>3. [action |-> a, pass |-> q.pass] \in Location
    BY DEF Typed, ConfigTypeOK, LocationVars, Location, Action
  <2>4. NewLocation \in LocationVars
    BY DEF NewLocation, LocationVars
  <2>5. open.server' \in ServerVars
    <3> DEFINE new == [action |-> a, pass |-> q.pass]
    <3>1. open.server \in ServerVars
      BY DEF Typed, ConfigTypeOK
    <3>2. Append(open.server.locations, new) \in Seq(Location)
      BY <2>3, <3>1 DEF ServerVars
    <3>3. open.server' = [open.server EXCEPT !.locations = Append(open.server.locations, new)]
      BY <2>1 DEF Typed, ConfigTypeOK
    <3> HIDE DEF new
    <3> QED BY <3>1, <3>2, <3>3 DEF ServerVars
  <2>6. open.location' = NewLocation
    BY <2>1 DEF Typed, ConfigTypeOK
  <2>7. LocationInv'
    BY <2>6 DEF LocationInv, VerifyReachesPass, NewLocation
  <2>8. Typed'
    BY <2>1, <2>2, <2>4, <2>5, <2>6 DEF Typed, ConfigTypeOK, Block
  <2> QED BY <2>7, <2>8
<1> QED BY <1>1, <1>2

LEMMA ReadLocationKeeps ==
  ASSUME Typed, LocationInv, ReadLocation
  PROVE  Typed' /\ LocationInv'
<1>1. CASE OpenLocation
  <2>1. NewLocation \in LocationVars
    BY DEF NewLocation, LocationVars
  <2>2. Typed'
    BY <1>1, <2>1, LeftTyped DEF OpenLocation, Statement, Block, Typed, ConfigTypeOK
  <2>3. open.location' = NewLocation
    BY <1>1 DEF OpenLocation, Typed, ConfigTypeOK
  <2> QED BY <2>2, <2>3 DEF LocationInv, VerifyReachesPass, NewLocation
<1>2. CASE Return \/ Root
  BY <1>2, TakeActionKeeps DEF Return, Root, Action
<1>3. CASE Index
  BY <1>3, IndexKeeps
<1>4. CASE CloseLocation
  BY <1>4, CloseLocationKeeps
<1>5. ASSUME NEW s \in Scheme, NEW t \in UpstreamName \cup {"direct"}, ProxyPass(s, t)
      PROVE  Typed' /\ LocationInv'
  <2> DEFINE pass == [scheme |-> s, target |-> t,
                      ssl_verify |-> open.location.proxy_ssl_verify]
  <2>1. pass \in Pass
    BY DEF Pass, Typed, ConfigTypeOK, LocationVars
  <2> QED BY <1>5, <2>1, TakeActionKeeps DEF ProxyPass, Action
<1>6. ASSUME NEW v \in BOOLEAN, ProxySslVerify(v) PROVE Typed' /\ LocationInv'
  BY <1>6, ProxySslVerifyKeeps
<1> QED BY <1>1, <1>2, <1>3, <1>4, <1>5, <1>6 DEF ReadLocation

-----------------------------------------------------------------------------
(* The inductive invariant.                                                 *)

\* Outside of location blocks, and at the closing of other blocks, the
\* location is not touched or forgotten.
LEMMA OtherKeepsLocation ==
  ASSUME Typed, LocationInv, ReadTop \/ ReadStream \/ ReadUpstream \/ ReadServer
  PROVE  LocationInv'
<1>1. CASE UNCHANGED (open.location)
  BY <1>1 DEF LocationInv, VerifyReachesPass
<1>2. CASE open' = NothingOpen
  BY <1>2 DEF NothingOpen, NewLocation, LocationInv, VerifyReachesPass
<1>3. UNCHANGED (open.location) \/ open' = NothingOpen
  <2> USE DEF Typed, ConfigTypeOK, Reject
  <2>1. CASE ReadTop
    BY <2>1 DEF ReadTop, WorkerProcesses, OpenTop, Skipped, Malformed, CloseEvents,
                CloseHttp, EndOfFile, HttpAccessLog
  <2>2. CASE ReadStream
    BY <2>2 DEF ReadStream, OpenStreamServer, StreamListen, StreamProxyPass,
                CloseStreamServer, CloseStream
  <2>3. CASE ReadUpstream
    BY <2>3 DEF ReadUpstream, OpenUpstream, UpstreamServer, HealthCheck, CloseUpstream,
                HealthInterval
  <2>4. CASE ReadServer
    <3>1. CASE OpenServer \/ CloseServer
      BY <3>1 DEF OpenServer, CloseServer
    <3>2. ASSUME NEW s, ServerDirective(s) PROVE UNCHANGED (open.location)
      BY <3>2 DEF ServerDirective
    <3> QED BY <2>4, <3>1, <3>2
            DEF ReadServer, SslCertificate, SslCertificateKey, Listen, ForwardProxy,
                AccessLog
  <2> QED BY <2>1, <2>2, <2>3, <2>4
<1> QED BY <1>1, <1>2, <1>3

\* Only CloseServer adds a server, one that is sound; http and errors drop
\* what there was.
LEMMA ServersStaySound ==
  ASSUME Typed, ServersInv, [ConfigNext]_configVars
  PROVE  ServersInv'
<1> USE DEF Typed, ConfigTypeOK
<1>1. CASE UNCHANGED (cfg.http.servers)
  BY <1>1 DEF ServersInv, Sound
<1>2. CASE cfg.http.servers' = <<>>
  BY <1>2 DEF ServersInv
<1>3. CASE CloseServer /\ cfg' # NoConfig
  <2> DEFINE s == open.server
             new == [ssl |-> s.ssl, tls |-> s.cert, access_log |-> s.access_log,
                     forward_proxy |-> s.forward_proxy, locations |-> s.locations]
  <2>1. /\ cfg' = [cfg EXCEPT !.http.servers = Append(@, new)]
        /\ s.ssl # {} /\ SslCovered(s) /\ ~(s.forward_proxy /\ s.locations # <<>>)
    BY <1>3 DEF CloseServer, Reject
  <2>2. Sound(new)
    BY <2>1 DEF Sound, SslCovered, ServerVars
  <2>3. cfg.http.servers' = Append(cfg.http.servers, new)
    BY <2>1 DEF Configs, Http
  <2>4. new \in Server
    BY DEF ServerVars, Server
  <2>5. cfg.http.servers \in Seq(Server)
    BY DEF Configs, Http
  <2>6. ASSUME NEW i \in 1..Len(cfg.http.servers)' PROVE Sound((cfg.http.servers)'[i])
    <3>1. CASE i \in 1..Len(cfg.http.servers)
      BY <2>3, <2>5, <2>4, <3>1 DEF ServersInv
    <3>2. CASE i = Len(cfg.http.servers) + 1
      BY <2>2, <2>3, <2>5, <2>4, <3>2
    <3> QED BY <2>3, <2>4, <2>5, <2>6, <3>1, <3>2
  <2> QED BY <2>6 DEF ServersInv
<1>4. UNCHANGED (cfg.http.servers) \/ cfg.http.servers' = <<>>
        \/ (CloseServer /\ cfg' # NoConfig)
  <2>1. ASSUME cfg' = NoConfig PROVE cfg.http.servers' = <<>>
    BY <2>1 DEF NoConfig, NoHttp
  <2>2. CASE ReadTop
    <3>1. ASSUME NEW n \in WorkerCounts, WorkerProcesses(n)
          PROVE  UNCHANGED (cfg.http.servers)
      BY <3>1 DEF WorkerProcesses, Configs
    <3>2. ASSUME NEW b \in {"events", "http", "stream"}, OpenTop(b)
          PROVE  UNCHANGED (cfg.http.servers) \/ cfg.http.servers' = <<>>
      BY <3>2 DEF OpenTop, NoHttp, Configs
    <3>3. ASSUME NEW l \in {"off", "path"}, HttpAccessLog(l)
          PROVE  UNCHANGED (cfg.http.servers)
      BY <3>3 DEF HttpAccessLog, Configs, Http
    <3>4. CASE EndOfFile \/ Malformed \/ Skipped \/ CloseEvents \/ CloseHttp
      BY <2>1, <3>4 DEF EndOfFile, Malformed, Skipped, CloseEvents, CloseHttp, Reject
    <3> QED BY <2>2, <3>1, <3>2, <3>3, <3>4 DEF ReadTop
  <2>3. CASE ReadStream
    BY <2>1, <2>3 DEF ReadStream, OpenStreamServer, StreamListen, StreamProxyPass,
                CloseStreamServer, CloseStream, Reject, Configs
  <2>4. CASE ReadUpstream
    BY <2>1, <2>4 DEF ReadUpstream, OpenUpstream, UpstreamServer, HealthCheck,
                      CloseUpstream, HealthInterval, Reject, Configs, Http
  <2>5. CASE ReadServer
    BY <2>1, <2>5 DEF ReadServer, OpenServer, ServerDirective, SslCertificate,
                      SslCertificateKey, Listen, ForwardProxy, AccessLog, Reject
  <2>6. CASE ReadLocation
    BY <2>1, <2>6 DEF ReadLocation, OpenLocation, TakeAction, Return, Root, ProxyPass,
                      ProxySslVerify, Index, CloseLocation, Reject
  <2>7. CASE UNCHANGED configVars
    BY <2>7 DEF configVars
  <2> QED BY <2>2, <2>3, <2>4, <2>5, <2>6, <2>7 DEF ConfigNext
<1> QED BY <1>1, <1>2, <1>3, <1>4

\* Only EndOfFile loads a file, and nothing comes after.
LEMMA LoadedKept ==
  ASSUME LoadedInv, [ConfigNext]_configVars
  PROVE  LoadedInv'
<1>1. CASE UNCHANGED configVars
  BY <1>1 DEF LoadedInv, configVars
<1>2. CASE EndOfFile
  <2>1. CASE Reject
    BY <2>1 DEF Reject, LoadedInv
  <2>2. CASE ~Reject
    <3>1. /\ cfg' = cfg
          /\ cfg.http.servers # <<>> \/ cfg.streams # 0
          /\ cfg.http.servers # <<>> => SchemesAgree(cfg.http)
      BY <1>2, <2>2 DEF EndOfFile
    <3> QED BY <3>1 DEF LoadedInv
  <2> QED BY <2>1, <2>2
<1>3. CASE ConfigNext /\ ~EndOfFile
  <2>1. at' # "loaded"
    <3> USE DEF Statement, EndOf, Reject, Block
    <3>1. CASE ReadTop
      BY <1>3, <3>1 DEF ReadTop, WorkerProcesses, OpenTop, Skipped, Malformed,
                        CloseEvents, CloseHttp, HttpAccessLog
    <3>2. CASE ReadStream
      BY <3>2 DEF ReadStream, OpenStreamServer, StreamListen, StreamProxyPass,
                  CloseStreamServer, CloseStream
    <3>3. CASE ReadUpstream
      BY <3>3 DEF ReadUpstream, OpenUpstream, UpstreamServer, HealthCheck,
                  CloseUpstream, HealthInterval
    <3>4. CASE ReadServer
      BY <3>4 DEF ReadServer, OpenServer, CloseServer, ServerDirective, SslCertificate,
                  SslCertificateKey, Listen, ForwardProxy, AccessLog
    <3>5. CASE ReadLocation
      BY <3>5 DEF ReadLocation, OpenLocation, TakeAction, Return, Root, ProxyPass,
                  ProxySslVerify, Index, CloseLocation
    <3> QED BY <1>3, <3>1, <3>2, <3>3, <3>4, <3>5 DEF ConfigNext
  <2> QED BY <2>1 DEF LoadedInv
<1> QED BY <1>1, <1>2, <1>3

\* parser.rs, from the first statement to the end of any file: every step
\* keeps the types, what is known of an open location, and what the ends of
\* the server blocks and of the file have checked.
THEOREM ConfigInvariant == ConfigSpec => []ConfigInv
<1>1. ConfigInit => ConfigInv
  <2> SUFFICES ASSUME ConfigInit PROVE ConfigInv
    OBVIOUS
  <2>1. cfg \in Configs
    BY DEF ConfigInit, NoConfig, Configs, NoHttp, Http, LogSetting
  <2>2. Typed
    BY <2>1, NothingOpenTyped, ConfigAssumption DEF ConfigInit, Typed, ConfigTypeOK, Block
  <2>3. LocationInv
    BY DEF ConfigInit, NothingOpen, NewLocation, LocationInv, VerifyReachesPass
  <2>4. ServersInv
    BY DEF ConfigInit, NoConfig, NoHttp, ServersInv
  <2> QED BY <2>2, <2>3, <2>4 DEF ConfigInv, LoadedInv, ConfigInit
<1>2. ConfigInv /\ [ConfigNext]_configVars => ConfigInv'
  <2> SUFFICES ASSUME ConfigInv, [ConfigNext]_configVars PROVE ConfigInv'
    OBVIOUS
  <2>1. ServersInv' /\ LoadedInv'
    BY ServersStaySound, LoadedKept DEF ConfigInv
  <2>2. CASE UNCHANGED configVars
    BY <2>1, <2>2
    DEF ConfigInv, Typed, ConfigTypeOK, configVars, LocationInv, VerifyReachesPass
  <2>3. CASE ReadTop \/ ReadStream \/ ReadUpstream \/ ReadServer
    BY <2>1, <2>3, OtherKeepsLocation, ReadTopTyped, ReadStreamTyped,
       ReadUpstreamTyped, ReadServerTyped DEF ConfigInv
  <2>4. CASE ReadLocation
    BY <2>1, <2>4, ReadLocationKeeps DEF ConfigInv
  <2> QED BY <2>2, <2>3, <2>4 DEF ConfigNext
<1> QED BY <1>1, <1>2, PTL DEF ConfigSpec

-----------------------------------------------------------------------------
(* The properties.                                                          *)

\* The parser's state is well typed, for all names, arguments and lengths.
THEOREM ConfigTypeCorrect == ConfigSpec => []ConfigTypeOK
<1>1. ConfigInv => ConfigTypeOK
  BY DEF ConfigInv, Typed
<1> QED BY <1>1, ConfigInvariant, PTL

\* parse_location_block: no order of directives gives a location two actions,
\* so its last match arm is dead code, or index files for nothing.
THEOREM LocationsHaveOneAction == ConfigSpec => []OneAction
<1>1. ConfigInv => OneAction
  <2> SUFFICES ASSUME ConfigInv PROVE OneAction
    OBVIOUS
  <2>1. CASE open.location.has = {}
    BY <2>1, FS_EmptySet DEF OneAction, ConfigInv, LocationInv
  <2>2. ASSUME NEW a \in Action, open.location.has = {a} PROVE OneAction
    <3>1. Cardinality({a}) = 1
      BY FS_Singleton
    <3> QED BY <2>2, <3>1 DEF OneAction, ConfigInv, LocationInv
  <2> QED BY <2>1, <2>2 DEF ConfigInv, LocationInv
<1> QED BY <1>1, ConfigInvariant, PTL

\* parse_location_block: proxy_ssl_verify before, after or on both sides of
\* proxy_pass, the last value counts.
THEOREM VerifyAlwaysReachesPass == ConfigSpec => []VerifyReachesPass
<1>1. ConfigInv => VerifyReachesPass
  BY DEF ConfigInv, LocationInv
<1> QED BY <1>1, ConfigInvariant, PTL

\* What run() expects of a configuration is what the parser has checked.
THEOREM LoadedConfigurationsRun == ConfigSpec => []LoadedCanRun
<1>1. ConfigInv => LoadedCanRun
  <2> SUFFICES ASSUME ConfigInv, at = "loaded" PROVE
        /\ Listens(cfg)
        /\ \A i \in 1..Len(cfg.http.servers) : Sound(cfg.http.servers[i])
    BY DEF LoadedCanRun, Sound
  <2>1. \A i \in 1..Len(cfg.http.servers) : Sound(cfg.http.servers[i])
    BY DEF ConfigInv, ServersInv
  <2>2. cfg.streams \in Nat /\ cfg.http.servers \in Seq(Server)
    BY DEF ConfigInv, Typed, ConfigTypeOK, Configs, Http
  <2>3. cfg.streams # 0 \/ cfg.http.servers # <<>>
    BY DEF ConfigInv, LoadedInv
  <2>4. CASE cfg.http.servers # <<>>
    <3>1. 1 \in 1..Len(cfg.http.servers)
      BY <2>2, <2>4
    <3>2. cfg.http.servers[1].ssl # {}
      BY <2>1, <3>1 DEF Sound
    <3> QED BY <2>1, <3>1, <3>2 DEF Listens
  <2> QED BY <2>1, <2>2, <2>3, <2>4 DEF Listens
<1> QED BY <1>1, ConfigInvariant, PTL

\* A nonempty set of numbers has a least one.
LEMMA Least ==
  ASSUME NEW S \in SUBSET Nat, S # {}
  PROVE  \E i \in S : \A j \in S : i <= j
<1> DEFINE R == {ss \in Nat \X Nat : ss[1] < ss[2]}
<1>1. IsWellFoundedOn(R, Nat)
  BY NatLessThanWellFounded DEF OpToRel
<1> HIDE DEF R
<1>2. PICK i \in S : \A j \in S : ~(<<j, i>> \in R)
  BY <1>1, WFMin, S \subseteq Nat, Zenon
<1>3. ASSUME NEW j \in S PROVE i <= j
  <2>1. i \in Nat /\ j \in Nat
    OBVIOUS
  <2>2. <<j, i>> \in R <=> j < i
    BY <2>1 DEF R
  <2> QED BY <1>2, <2>1, <2>2
<1> QED BY <1>2, <1>3

\* Of a nonempty set of places in a file one comes before the others.
LEMMA FirstPlace ==
  ASSUME NEW S \in SUBSET (Nat \X Nat), S # {}
  PROVE  \E p \in S : \A q \in S : p = q \/ Before(p, q)
<1> DEFINE rows == {p[1] : p \in S}
<1>1. PICK i \in rows : \A j \in rows : i <= j
  <2>1. rows \in SUBSET Nat /\ rows # {}
    OBVIOUS
  <2> HIDE DEF rows
  <2> QED BY <2>1, Least
<1> DEFINE columns == {p[2] : p \in {q \in S : q[1] = i}}
<1>2. PICK k \in columns : \A j \in columns : k <= j
  <2>1. columns \in SUBSET Nat /\ columns # {}
    BY <1>1
  <2> HIDE DEF columns
  <2> QED BY <2>1, Least
<1>3. PICK p \in S : p[1] = i /\ p[2] = k
  BY <1>2
<1>4. ASSUME NEW q \in S PROVE p = q \/ Before(p, q)
  <2>1. q[1] \in Nat /\ q[2] \in Nat /\ i <= q[1] /\ q = <<q[1], q[2]>>
    BY <1>1
  <2>2. p = <<i, k>> /\ i \in Nat /\ k \in Nat
    BY <1>3
  <2>3. CASE q[1] = i
    <3>1. k <= q[2]
      BY <1>2, <2>3
    <3> QED BY <1>3, <2>1, <2>2, <2>3, <3>1 DEF Before
  <2>4. CASE q[1] # i
    BY <1>3, <2>1, <2>2, <2>4 DEF Before
  <2> QED BY <2>3, <2>4
<1> QED BY <1>4

\* The probe of an upstream, configured from the first location alone, and
\* the requests of all its locations use one scheme and one client.
THEOREM ProbesSpeakLikeRequests == ConfigSpec => []ProbesLikeRequests
<1>1. ConfigInv => ProbesLikeRequests
  <2> SUFFICES ASSUME ConfigInv, at = "loaded", NEW u \in UpstreamName,
                      NEW p \in Users(cfg.http, u)
               PROVE  /\ PassAt(cfg.http, p).scheme = ProbeConfig(cfg.http, u).scheme
                      /\ ClientFor(PassAt(cfg.http, p)) = ClientFor(ProbeConfig(cfg.http, u))
    BY DEF ProbesLikeRequests
  <2> DEFINE S == Users(cfg.http, u)
             first == CHOOSE f \in S : \A q \in S : f = q \/ Before(f, q)
  <2>1. S \in SUBSET (Nat \X Nat)
    BY DEF Users, Place
  <2>2. first \in S
    <3>1. \E f \in S : \A q \in S : f = q \/ Before(f, q)
      BY <2>1, FirstPlace
    <3> QED BY <3>1, Zenon
  <2>3. cfg.http.servers # <<>>
    BY DEF Users, Place
  <2>4. SchemesAgree(cfg.http)
    BY <2>3 DEF ConfigInv, LoadedInv
  <2>5. /\ PassAt(cfg.http, p).scheme = PassAt(cfg.http, first).scheme
        /\ PassAt(cfg.http, p).ssl_verify = PassAt(cfg.http, first).ssl_verify
    BY <2>2, <2>4 DEF SchemesAgree
  <2>6. ProbeConfig(cfg.http, u) = PassAt(cfg.http, first)
    BY Zenon DEF ProbeConfig
  <2> QED BY <2>5, <2>6, Zenon DEF ClientFor
<1> QED BY <1>1, ConfigInvariant, PTL

=============================================================================
