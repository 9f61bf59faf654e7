# A TLA+ model of qwewginx

qwewginx is a small nginx-like server: a master process spawns workers, and each
worker serves HTTP(S), proxies to upstreams with failover and health checks,
forwards as a proxy, tunnels CONNECT, serves files and relays TCP streams. This
directory models the parts of it that have state and interleavings, checks them
with TLC on small instances, and proves the properties that matter for every
number of peers, requests, workers and log entries, and for configuration files of
any length, with TLAPS.

Paths below are relative to `qwewginx-core/src/server/` unless they say otherwise.

## 1. The system

| component | state | operations | interacts with |
|---|---|---|---|
| upstream pool (`proxy.rs` 64-157) | per peer `down_until_ms`; the counter `next` | `pick`, `mark_down`, `mark_up`; expiry by the wall clock | shared by all requests to the upstream and its probe |
| upstream proxying (`proxy.rs` 367-437, 622-699) | per request: body, attempt, peer | buffer, pick, ask, mark, retry, answer | the pool; peers; the client, who may go away |
| health probe (`health_probe.rs`) | the ticker, the address being probed | tick, probe each peer in turn, mark | the pool; peers |
| worker (`mod.rs` 38-140, `proxy.rs` 160-202) | a pool and a probe per upstream | the above on one thread | nothing shared with other workers but the log file and the ports |
| master (`qwewginx/src/main.rs` 86-148) | its children | spawn, wait for a signal, kill, reap | workers, by SIGKILL and `wait`; the operator, by signals |
| access log (`access_log.rs`) | an append-mode file per worker | open, two `write()` per entry | other workers, through the file |
| HTTP server (`mod.rs` 73-250) | per connection: the handler at its await | accept, dispatch, log, answer, drop | all handlers below |
| forward proxy, CONNECT (`proxy.rs` 439-579) | per tunnel: the relaying task | resolve, connect, forward, upgrade, relay | names, origins, the client |
| static files (`static_files.rs`) | none but the file system | stat, index search, read | the file system |
| routing (`mod.rs` 252-267) | none | longest prefix match | dispatch |
| start-up and accept loops (`mod.rs` 38-131, `listen.rs`) | the step `run()` has come to; the listeners; the connections and their descriptors | open log, load TLS, bind, accept, handshake, close | the kernel's queues; every handler, through the descriptors |
| streams (`stream.rs`) | per connection: two copies | accept, connect, relay, end | TCP peers; the descriptors |
| configuration (`config/`) | the locals of each open block, what has been read | directives, defaults, checks of a block and across blocks | everything, once, at the start |
| TLS (`tls.rs`, `upstream_tls.rs`) | none after the start | load, handshake | start-up, connections |
| command line, tracing (`main.rs`) | none | parse, install | - |

A worker runs a current-thread runtime. What a task does between two awaits is
therefore atomic with respect to every other task of its worker, and one action
of a module is one such stretch of code. Workers are separate processes.

What is hard here, and what the properties are for:

* a counter and a set of deadlines that concurrent requests and a probe change
  between a request's failure and its retry;
* deadlines that expire with no step of the program, on a clock that somebody
  may set back, and log messages that depend on whether they have;
* replies that come late, or never, after their peer has been judged by others;
* handlers dropped at any await when the client goes away;
* processes killed between the two writes of a log entry, and files shared
  between processes that share no lock;
* signals and deaths at every point of the master's three loops;
* a start-up that fails after it has begun to listen;
* descriptors that run out, while what has been accepted needs a second one;
* directives that reach back to others in whatever order they are written, and
  code far from the parser that relies on what it has checked;
* paths and dates, where one character or one day decides.

`PROJECT.json` lists these one by one, with the line where each bites and the
properties that would catch it.

### What makes each component correct

* pool: marks of the same peer do not add up; no peer is skipped silently; a healthy
  peer is not passed over for ever; `None` means that nobody is healthy.
* proxying: retries leave the failed peer, are bounded, end, and amount to the
  failover a client is promised; an outage ends within a bound that is known when it
  begins, for only requests in flight already can put its end off.
* probe: every peer is probed; where it is on time, a peer comes back because somebody
  reached it, and never because its cooldown ran out.
* worker: requests and probe together use the pool as each does alone.
* master: a shutdown ends, reaps everyone and blocks on nobody.
* log: a line per entry; damage by concurrent writers and by faults is bounded.
* HTTP: a client gets its peer's reply, or 502; handlers do not turn back; tunnels
  end; the forward proxy forwards.
* start-up, accept loops, streams: whoever the kernel has put in a queue is accepted
  or reset, even if the start-up fails or descriptors run out; nothing is held for a
  client that is gone.
* routing and static files: the longest prefix by path segments wins in any
  order of the locations; a path names a file below the root or none.
* configuration: a location does one thing; an option works wherever it stands;
  what the start-up, the probes and dispatch take for granted has been checked.

## 2. The modules

    Failover                     what an upstream promises (abstract)
       ^ implemented by (INSTANCE ... WITH)
    UpstreamPool <- ProxyUpstream <-+
         ^                          +-- Worker
         +-------- HealthProbe <----+

                             Admission      what a worker promises (abstract)
                                ^ implemented by
    Routing <- HttpServer <- Serve          Config
               AccessLog, LogTime           Master

`X_proofs` holds the theorems about `X`, `MCX` its values for TLC. The theorems about
`HttpServer` are in `Serve_proofs`, those about `HealthProbe` in `Worker_proofs` and those
about `LogTime` in `AccessLog_proofs`.

**UpstreamPool** (`Peer`, `UpstreamPool`). `down_until` is `down_until_ms` per
slot, `next` the atomic counter with its width (`UsizeModulus`), `now` what
`now_ms()` reads. `Pick`, `MarkDown`, `MarkUp` are the methods. A retry marks and
picks without an await between, so `PoolRetry` is one step. `lastLog` stands for the
transition messages; `bypassed` is a history variable that no action reads.
`Entry` is the `find` by address, which stops at the first entry.

**ProxyUpstream** (`proxy_upstream` and what it calls). Each request is `idle`, or
awaits its client's body (`buffering`) or a peer (`waiting`), or has been `served`
or `refused`. `PeerOk`, `PeerRetry`, `PeerExhausted` are the arms of the loop,
`HangUp` the drop of the handler by hyper. A reply is a success, 502/503/504, some
other status, or an error of the transport; the second and last count as a
failure of the peer, as `peer_failure_status` and `forward_outbound` have it.

**Failover** says the same without counter, deadlines or clock: a request goes to
somebody in rotation, a failure takes its peer out and sends the request to
another in rotation, and refusal means no tries or nobody left. The refinement
mapping takes the rotation to be the healthy slots and the requests as they are.
`Spec` is for the requests by themselves, `SharedSpec` for those of a worker, where
others judge peers too: besides, anybody may leave the rotation at any time (`Expel`).

**HealthProbe** (`probe_loop`, `probe_peer`). `probing` is the place in the `for`,
`ticker` tokio's interval with `MissedTickBehavior::Delay`, on the monotonic clock
while deadlines are on the wall clock. Only 2xx is a success here. Probes reply when
they like; with `RoundsEnd` a round takes `RoundTime` at most and a tick that is due is
taken at once. `Meanwhile` is all that requests may do to the pool between two steps of
the loop: pick any time, and mark any peer up or down any time, as by a late reply.

**Worker** puts the two on one pool, and implements `Failover!SharedSpec`.

**Master** (`run_master`, `wait_shutdown_signal`). `next` is the index of each of
its loops in turn; a child is absent, starting, serving, dead (a zombie) or reaped.
`spawning` and `starting_runtime` come before the signal handler.

**AccessLog** (`write_line`). The file is the sequence of chunks that `write()`
calls put there. `writeln!` on a `File` is two of them. `owes` is the text whose newline a
worker has yet to write, `torn` (history) those that will never get theirs.

**LogTime** (`unix_to_utc`) is the date of a log line, and the Gregorian calendar by
its rules (`FollowsCalendar`) to compare it with.

**Config** (`config/parser.rs`, `ast.rs`). One action per directive, and one per
opening and closing of a block; `open` holds the local variables of the blocks that
are open, `cfg` what has been read, and a file is dropped at its first error. Any
sequence of statements that the grammar allows is a behaviour. `SchemesAgree` is
`validate_upstream_proxy_schemes`. At its end stand the functions that use the
result: `ProbeConfig` (`collect_probe_configs`), `ClientFor`, and `Listens`, the last check
of `run`. Each of `Return`, `ProxyPass`, `Root` and `Index` has the guard of its own arm.

**Routing** (`location_prefix_matches`, `match_location`, `uri_to_relative`,
`safe_join`). Pure operators over paths as sequences of characters; `Split`, `Without`
and `Components` (external: `Path::components`) are recursive functions of the number of
characters or parts. The reference goes by the parts between the slashes
(`MostParts`, `RestOf`), of which the comparison of prefixes knows nothing.

**HttpServer** (`handle`, `dispatch`, `forward_connect`, `forward_proxy_request`,
`forward`, `static_files::serve`). A request is for a path of a server, from which
`Routing` gives its location and so its route; it has an await it is at, what a peer
said, if one did, and an answer, and a CONNECT has a tunnel besides. A `return` location
answers any status. Proxying to a named upstream is one
await here (`pool`). What only the text of a request decides, as its method, is a
choice. External, and marked so: hyper-util's client, which connects by scheme
and authority of the URI it is given, and `copy_bidirectional`.

**Serve** (`run`, `stream::serve`, `relay_tcp`, `bind_reuseport`, `TlsAcceptorHandle::load`)
puts `HttpServer` on connections. `StartUp` is the list of what `run` does before it
serves; each step succeeds or ends the process. On the current-thread runtime none
of these steps suspends, so the accept loops that were spawned on the way run only
after the last, though the kernel completes connections to listeners that are
bound. A connection takes a descriptor, a relay or a CONNECT a second one; a connect
with none left fails, an `accept` with none left is tried again. Every action of a
handler is an action of `HttpServer` conjoined with the end of its connection
(`CloseIfOver`).

**Admission** is what is left of `Serve` for those who connect: a client queues, is let in by a
worker that serves if there is room, may be given a peer if there is room for that too,
and leaves, or is reset with the worker. The refinement mapping takes the worker from
`step` (`WorkerStage`), the client from the state of its connection (`Stage`), the peer from
its relay, its tunnel and its handler (`HasPeer`).

## 3. What TLC checks

| run | instance | shows |
|---|---|---|
| `proxy` | 2 requests, 3 peers, cooldown 2, time to 4, counter mod 6 | `BoundedBypass`, `ProxyTypeOK`, `PickServesSomeone`, `OutageBounded`, `RetryMovesOn`, `FailoverKept` |
| `probe` | 3 peers, interval 2, rounds of up to 1, cooldown 4, time to 8 | `ProbeTypeOK`, `OnlySuccessReturns`, `EveryPeerProbed` |
| `worker` | 2 requests and the probe, 2 peers, clock may be set back | `QuarantineIsLogged`, `PoolKept`, `SharedFailoverKept` |
| `worker_live` | 2 requests and the probe, 2 peers, time to 1 | `Answered` |
| `http` | 1 HTTP client, 2 of a stream, 2 descriptors; a server with log, certificate, a plain and a TLS listener; 3 sites, 11 paths | `HttpTypeOK`, `RepliesRelayed`, `RoutedToLongest`, `FilesBelowRoot`, `ServeTypeOK`, `HeldForClients`, `AwaitsRunOut`, `AdmissionKept`, `TunnelEnds`, `QueuedServed` |
| `config` | files of up to 10 statements, 1 upstream name | `ConfigTypeOK`, `OneAction`, `VerifyReachesPass`, `LoadedCanRun`, `ProbesLikeRequests` |
| `master` | 3 workers | `MasterTypeOK`, `CleanExit`, `ReapsOnlyDead`, `ShutdownEnds` |
| `log` | 3 workers, 7 chunks, faults; 146097 days | `LogTypeOK`, `NewlinesCountEntries`, `SharedLinesBounded`, `DatesRight` |
| `proxy_silent` | 1 request, 2 peers | finding 1 |
| `master_term` | 2 workers | finding 2 |
| `log_shared` | 2 workers, no faults | finding 3 |
| `http_forward` | the route `absolute` | finding 4 |

The bounds, and why they are enough.

* *Time.* One unit is an arbitrary length; `FAIL_TIMEOUT` is 10 s in the code, and only
  its order relative to the interval and to the end of time matters. `MaxTime` leaves room for a
  peer to fail, expire, fail again and expire again (for `worker_live`, to
  fail and expire once).
* *Probe.* A cooldown of 4 is the least that is longer than an interval of 2 and a round
  of 1; with 3 `OnlySuccessReturns` fails, so the bound is tight. A unit of time
  passes in a round or between two, at any of its places, and requests mark at all of them.
* *Counter.* `UsizeModulus` stands for 2^w. The runs take a small multiple of the
  number of peers, so that the counter wraps many times. With a number of peers
  that divides 2^w that is what the code does; the others see section 6.
* *Peers and requests.* With three peers a request can fail, skip and still move
  on; two requests are enough for one to change what the other retries over.
* *Log.* Seven chunks are three entries and an interruption of each kind. The
  calendar is checked for 400 years of days; the theorem is about all of them.
* *HTTP.* Handlers share descriptors alone, so one client of HTTP, which makes any
  number of requests on its connection, and two of a stream are enough for
  each to stand in the way of the others. With two descriptors either two
  connections are accepted and no relay can connect, or one relay has both.
  A client connects once. Two index files give a first, a last and a none. The
  three sites and eleven paths reach every arm of `dispatch`.
* *Paths.* The eleven have a prefix that ends on a boundary and one that does not, empty
  parts, a `.`, a `..` that is a part and one that is in a part, and the paths that are none (`*`
  and the empty one). `RoutedToLongest` and `FilesBelowRoot` are asked of every request in
  every state; the theorems are for every path of any length.
* *Config.* The shortest file in which two locations of two servers use one upstream
  has nine statements (`http`, two `server`, two `listen`, two `location`, two
  `proxy_pass`; they may name an upstream nobody declares), and the tenth is the
  `proxy_ssl_verify` by which they differ. The theorems are for files of any length.
* *Symmetry* is used for requests and for workers of the log, in runs whose
  properties are invariants, action properties or a specification without
  fairness, none of which names one of them. The runs of liveness have none.
* `CHECK_DEADLOCK FALSE` is given where the system really stops: a master that is
  gone, a worker that is, a log file that has reached the bound, and a
  configuration that has been read.

Fairness, and what justifies it. The runtime polls a task whose await is over
(`BodyBuffered`, `ProbeStep`, `UpgradeEnds`); a process that is not
blocked runs (`MasterStep`); clocks run (`ProbeClock`, `ProxyClock`). That the
client's body or a peer gives an answer of some kind is an
assumption about the surroundings: `worker_live` makes it of requests and not of
probes, `probe` of probes. `proxy_silent` and `http` do not make it, for no line of the
code bounds the wait: a handler of `http` may wait for ever, and what is claimed of it is
that it does not go round in circles (`AwaitsRunOut`). Nobody is obliged to
arrive, hang up, die or send a signal.

`ServeFairSpec` adds that `run` goes on, that the loops of listeners are polled and
give way to other tasks between two calls of `accept` (tokio's budget makes
even a loop whose `accept` fails at once yield), that a `connect` ends, and that a
peer which is told of its client's end ends too, as for tunnels. `QueuedServed` has a
premise besides, `ClientsLeave`: no client keeps its connection, or its half of a relay,
for ever. Nothing in the code makes it so, there being no timeout on an idle
connection (section 6); under it no descriptor is lost.

### Findings

1. `proxy_silent`. `client.request(..).await` (`proxy.rs:682`) has no timeout. A peer
   that accepts and stays silent holds its request for as long as the client
   stays, unmarked and unretried; `wiki/config.md:98` speaks of timeout errors.
2. `master_term`. The SIGTERM handler (`main.rs:134`) is installed after the
   workers are spawned; a SIGTERM before leaves those workers serving, where
   `wiki/features.md:166` has it stop them.
3. `log_shared`. Text and newline are two `write()` calls, so that entries of two
   workers can share a line, though `wiki/config.md:163` calls the file safe with
   multiple workers. `SharedLinesBounded` and `NewlinesCountEntries` say what remains true.
4. `http_forward`. `origin_uri_from_forward` (`proxy.rs:257`) strips scheme and
   authority, by which the client it hands the URI to connects; every plain
   forward-proxy request ends in 502, where `wiki/features.md:139` has the backend's body.

## 4. What is proved

Everything here is for every value of the constants but those an assumption excludes.

| theorem | from | argument |
|---|---|---|
| `PoolTypeCorrect` | - | inductive as it stands |
| `QuarantineAlwaysLogged` | - | a peer may be quarantined and expire between marks, so the property is not inductive; `DownIsLogged` is: a deadline that is not 0 goes with a warning as last message |
| `RoundRobinIsFair` | N divides the counter's modulus | `bypassed[i]` is at most the number of picks since the scan last started at `i` (`TurnBoundsBypass`): each pick moves the start by one, across the wrap too (`ModSucc`, `WrapSucc`), and a healthy slot at the start is the one picked |
| `PickFindsHealthyPeer` | the same | N offsets reach all N slots (`ScanReaches`), also across the wrap |
| `ProxyTypeCorrect` | - | a pick is in the slots, attempts are counted before they are used |
| `ProxyUsesPool` | - | every step of a handler is a step of `PoolSpec` |
| `RetryGoesElsewhere`, `WorkerRetryGoesElsewhere` | addresses distinct | the mark takes the slot out, the pick returns one that is in (`RetryAsksAnother`); the probe changes no request |
| `OutagesEnd` | distinct | of a peer that is down, each step keeps or clears the deadline and sends it nobody, or fails one of the requests in flight to it (`OutageStep`), and the new deadline is later by less than that request counted for (`PutOffByLess`) |
| `ProxyImplementsFailover` | distinct, N divides the modulus, clock not set back | init to init, each action to the action of the same purpose; expiry to `Rejoin` |
| `ProbeTypeCorrect` | - | |
| `OnlySuccessBringsBack`, `WorkerBringsBackOnSuccess` | rounds end in time, `Interval + RoundTime < FAIL_TIMEOUT` | `DeadlineOutlivesProbe`: a deadline lies beyond the moment by which the loop comes to its slot (`TimeToProbe`), which a step of a clock never puts off (`TimeFromPasses`); whoever marks, marks for longer than that; a step of a worker is one the probe allows for (`WorkerStepOfProbe`) |
| `WorkerTypeCorrect`, `WorkerUsesPool` | - | a step of the worker is one of its parts and leaves the other's variables alone |
| `WorkerQuarantineLogged`, `WorkerRoundRobinIsFair` | as for the pool | corollaries |
| `WorkerImplementsFailover` | distinct, N divides the modulus | steps of handlers as above (`HandlerKeepsPromise`); a probe's mark to `Rejoin` or `Expel`, and so the clock, which may be set back here (`WorkerStepPromised`) |
| `MasterTypeCorrect`, `MasterLoops`, `ExitIsClean`, `ReapingDoesNotBlock` | - | `LoopInv`: which children each of the three loops has dealt with |
| `LogTypeCorrect`, `LinesCountEntries` | finitely many workers | no two workers owe the same newline and none owes that of a torn text (`DebtsApart`), so each step moves one unit between the terms of the sum |
| `WorkersShareLinesBoundedly` | the same | a text at the end of the file with no newline after it is torn, or somebody owes it one (`TailOwed`), and each worker owes one at most |
| `OneWorkerKeepsLinesWhole` | one worker, no faults | nothing is torn, so a line holds one entry |
| `DatesAlwaysFollow` | - | a day is given by centuries, four-year cycles and years of its era (`DayOfYear`), which the divisions of `unix_to_utc` find (`YearFound`, `MonthFound`); the next day is the next of the year (`NextInYear`) or the first of the year after (`DayAfter`) |
| `ConfigInvariant`, `ConfigTypeCorrect`, `LocationsHaveOneAction`, `VerifyAlwaysReachesPass` | - | `LocationInv`: an open location has at most one action, index files with a root only, and its proxy_pass the value last said |
| `LoadedConfigurationsRun` | - | `ServersInv`, what the end of each server block has checked, and `LoadedInv`, what the end of the file has |
| `ProbesSpeakLikeRequests` | - | the locations that use an upstream, if there are any, have a first (`FirstPlace`), and `SchemesAgree` compares all of them with it |
| `MatchesByParts`, `AlwaysRoutedToLongest` | - | splitting is injective and goes on character by character (`SplitsInjective`, `SplitsAgree`), so a prefix that ends at a slash or with the path is one of parts, and the other way round; of two that match, the longer has more parts (`LongerHasMoreParts`) |
| `JoinsRestBelowRoot`, `AlwaysBelowRoot` | - | the parts of what is left of a path are those after the location's (`SplitConcat`), and none is made or lost by leaving out the empty ones and dots (`WithoutHas`, `RelativeHas`) |
| `OrderOfLocationsIrrelevant` | locations with the same path are the same | two matching prefixes of the same length are equal, so each list's choice is at least as long as the other's |
| `HttpTypeCorrect`, `RepliesAlwaysRelayed` | - | `HttpInv`, on the steps of a whole worker: besides the types, a request that awaits a name or its body has one of the routes that lead there, and no reply yet (`AwaitInv`) |
| `ServeTypeCorrect` | - | inductive as it stands, once the start-up is known to be a finite sequence of steps (`StartUpUnfolds`, `StartUpBinds`) |
| `NothingOutlivesItsClient` | - | `HeldInv`, what the state of a connection says of its handler, its tunnel or relay and the worker; the property by itself says nothing of requests that are delivered and of tunnels that are closed, on which the next step depends |
| `HandlersNeverTurnBack` | - | each resumed await leads to one with fewer after it (`ResumeGoes`); every other step leaves a handler alone or ends it |
| `WorkerAdmits` | - | with `HeldInv`, a step changes stage and peer of one client at most, in one of the ways of `Admission` (`OneClientAdmitted`), or ends the worker |

`ServeAssumption` says that there is a listener and that every TLS listener has a certificate:
the parser makes sure of both (`LoadedConfigurationsRun`). Without the first, `run` would
return an error where `Serve` has it serve nobody.

Model-checked only: liveness (`Answered`, `EveryPeerProbed`, `ShutdownEnds`,
`TunnelEnds`, `QueuedServed`), which needs fairness and ENABLED and is out of the
prover's reach. Every other property of a passing run is proved; `DatesRight`, which is
about 400 years, is an instance of `DatesAlwaysFollow`, which is about all.

Recursion is by functions on initial segments of the numbers (`Splits`, `Kept`, `StartUpOf`).
That a function with such a recursion exists, and what it has at each place, is proved in
`Routing_proofs` from the well-foundedness of the numbers, with sets for the predicates
(`LeastNumber`, `Induction`, `Iterates`): the library's induction theorems take an operator, which
the provers cannot instantiate.

## 5. What is not modelled

* The contents of requests and responses, headers and formats; the fields of a
  log line but its date, and when `handle` writes one.
* The relaying of a response's body after its head (hyper's), and so a body
  that breaks off; the bytes `copy_bidirectional` has read and not yet written.
* Several requests at a time on one HTTP/2 connection, and upstream connections that
  hyper-util's client keeps open: `Serve` counts the descriptors of clients, relays and
  CONNECTs alone.
* TLS beyond a step that may fail, a handshake that may fail and the choice of
  a client; ALPN; the verifier that accepts everything (`upstream_tls.rs`).
* The grammar (`nginx.pest`), strings and escapes, addresses.
* The command line and tracing: straight calls with no state kept.
* Several upstreams in one worker: they share nothing.
* Atomics' memory orders: one thread per worker uses them.

## 6. Limits: what the assumptions stand for

Each assumption of a theorem, and each choice of a run's constants, excludes a
behaviour the code does have. They were seen by giving the constants the other
value.

* N does not divide 2^w: the scan that straddles the wrap sees a slot twice and
  another never, and `pick` can return `None` with a healthy peer. In reach only
  where `usize` has 32 bits (2^32 picks by one worker); a build with overflow
  checks panics instead.
* The clock is set back by d: cooldowns under way last d longer, and those that ran out less
  than d ago begin again, without a message.
* An address is listed twice (`config/parser.rs:325` lets it): marks reach the first entry
  alone, so the second entry stays in rotation, a retry goes to the address that just
  failed, and requests are sent to it while it is down.
* The interval and a round are not together below the cooldown, or a probe hangs: a peer
  that fails every probe is back in rotation between two of them. While one probe hangs
  no peer of that upstream is probed. The code bounds neither: a probe has no timeout,
  and `interval` may be any number.
* A peer that fails its probes comes back by a request's success, though it may be one
  sent before the failure: `mark_up` asks for no more than that (`proxy.rs:405`).
* An outage may last longer than a cooldown: each request that was in flight when it began
  may put its end off, up to the latest moment that `OutageBounded` gives. In a worker the
  probe may too, as long as probes fail.
* An application's own 502, 503 and 504 is replaced by a 502 without its body and marks the
  peer down (`peer_failure_status`); `RepliesRelayed` says so.
* Fairness of the rotation is no more than `BoundedBypass` says: with a peer down
  the next healthy one gets its picks besides its own, so the load is uneven.
* A cooldown that expires logs nothing, so that a peer that keeps failing logs
  the warning again and again (`wiki/config.md:114` has messages only on a change
  of state, which is right if an expiry is one).
* A success under way when its peer was marked down ends the cooldown when it
  arrives. `Failover!Serve` allows it.
* A request may use up its attempts on peers that come back meanwhile and be
  refused with a healthy one unasked. `Failover!Try` allows it.
* A buffered request is sent again after a broken connection or a 502, 503 or 504,
  whatever its method, so that two peers may carry out one POST (`proxy.rs:682`).
* A handler that is dropped writes no log line; the file of a static answer is
  logged with 0 bytes; `Host` is always the upstream's (`wiki/config.md:95` has it set only
  when the client sent none).
* There is no timeout on a handshake, an idle connection or a relay: a client that
  stays silent keeps its descriptor, and with all of them kept nobody is
  accepted. `ClientsLeave` excludes it. Until then the accept loops try again
  and again and log each failure.
* With no descriptor left for a static file `read` fails and the answer is 404
  (`static_files.rs` 27-35), which `Read` allows as any other failure.
* Of two locations with the same path the last wins, although `wiki/config.md:70` says
  that the order does not matter; the theorem assumes distinct paths, and the parser does
  not reject equal ones.
* A location whose path ends in a slash (`/api/`) matches `/api/` and `/api//...` but not
  `/api/x`: the boundary is a slash after the prefix. `RoutedToLongest` counts the empty
  part before the end as a part, by which it is so.
* A missing file is answered with the index of the directory of that name if the path does not
  end in a slash, where there can be none unless the file system changes in between.
* A second `http` or `stream` block replaces the first without a word; `OpenTop` says so.
* Blocks inside `events`, `upstream`, `location` and a stream's `server` are skipped with all they
  contain (`Skipped`), where `wiki/config.md:64` calls an unknown directive an error.
* `n == 0` in `run` is never true of a configuration that was loaded (`LoadedCanRun`).

## 7. Plan

Done: the pool, its callers and their composition, the master, the log and its dates, the
life of a request, routing and files, start-up, connections and streams, the
configuration parser; the theorems above. What would add most after that:

1. Several requests at a time on one connection (HTTP/2) in `Serve`, and the pooled
   upstream connections, with their descriptors.
2. The body of a response after its head, so that a peer that breaks off half-way
   after it was marked up is in the model (`proxy.rs:405`).
3. An abstract log (a bag of lines) that `AccessLog` with one writer implements, and
   when `handle` writes to it.
4. An abstract master, of the lifetimes of its children alone, that `Master` implements.
