----------------------------- MODULE Serve_proofs -----------------------------
(***************************************************************************)
(* Proofs about HttpServer and Serve: the location that is found is the    *)
(* longest that matches, in whatever order they stand; a worker is well    *)
(* typed from its start to its end; what a peer replies is what its client *)
(* is answered; and every request goes to the location with most parts of  *)
(* those that fit, a static one looking below its root only.               *)
(***************************************************************************)
EXTENDS Serve, Routing_proofs, FiniteSetTheorems, TLAPS

-----------------------------------------------------------------------------
(* match_location.                                                          *)

Location == [path : Seq(Char), action : LocationRoute]
Locations == Seq(Location)

LEMMA LocationTyped ==
  ASSUME NEW locations \in Locations, NEW i \in 1..Len(locations)
  PROVE  locations[i].path \in Seq(Char) /\ locations[i].action \in LocationRoute
<1>1. locations[i] \in Location
  BY DEF Locations
<1> QED BY <1>1 DEF Location

\* A bounded set of numbers has a greatest one.
LEMMA GreatestNumber ==
  ASSUME NEW S \in SUBSET Nat, S # {}, NEW b \in Nat, \A i \in S : i <= b
  PROVE  \E i \in S : \A j \in S : j <= i
<1> DEFINE T == {b - i : i \in S}
<1>1. T \in SUBSET Nat /\ T # {}
  <2>1. \A i \in S : i \in Nat /\ b - i \in Nat
    OBVIOUS
  <2> QED BY <2>1
<1>2. PICK t \in T : \A u \in T : t <= u
  BY <1>1, LeastNumber
<1>3. PICK i \in S : t = b - i
  BY <1>2
<1>4. ASSUME NEW j \in S PROVE j <= i
  <2>1. t <= b - j
    BY <1>2
  <2> QED BY <1>3, <2>1
<1> QED BY <1>4

\* A location that matches is no longer than the path.
LEMMA MatchIsShort ==
  ASSUME NEW path \in Seq(Char), NEW prefix \in Seq(Char),
         location_prefix_matches(path, prefix)
  PROVE  Len(prefix) <= Len(path)
BY DEF location_prefix_matches, StartsWith, OnBoundary, Root

\* The location that is chosen matches, and is at least as long as the others
\* that do; of equally long ones it is the last.
LEMMA LongestIsChosen ==
  ASSUME NEW path \in Seq(Char), NEW locations \in Locations,
         Matching(path, locations) # {}
  PROVE  LET found == match_location(path, locations) IN
         /\ found \in Matching(path, locations)
         /\ \A j \in Matching(path, locations) :
              \/ Len(locations[j].path) < Len(locations[found].path)
              \/ Len(locations[j].path) = Len(locations[found].path) /\ j <= found
<1> DEFINE found == Matching(path, locations)
           L(i) == Len(locations[i].path)
           n == Len(locations)
<1>1. /\ found \in SUBSET Nat /\ n \in Nat
      /\ \A i \in found : i <= n /\ L(i) \in Nat /\ L(i) <= Len(path)
  <2>1. ASSUME NEW i \in found PROVE L(i) \in Nat /\ L(i) <= Len(path)
    <3>1. i \in 1..n /\ location_prefix_matches(path, locations[i].path)
      BY <2>1 DEF Matching
    <3>2. locations[i].path \in Seq(Char)
      BY <3>1, LocationTyped
    <3> QED BY <3>1, <3>2, MatchIsShort
  <2> QED BY <2>1 DEF Matching, Locations
<1>2. PICK m \in {L(i) : i \in found} : \A k \in {L(i) : i \in found} : k <= m
  <2>1. {L(i) : i \in found} \in SUBSET Nat /\ {L(i) : i \in found} # {}
    BY <1>1
  <2>2. \A k \in {L(i) : i \in found} : k <= Len(path)
    BY <1>1
  <2>3. Len(path) \in Nat
    OBVIOUS
  <2> HIDE DEF found, L
  <2> QED BY <2>1, <2>2, <2>3, GreatestNumber
<1>3. PICK i \in {k \in found : L(k) = m} : \A j \in {k \in found : L(k) = m} : j <= i
  <2>1. /\ {k \in found : L(k) = m} \in SUBSET Nat
        /\ {k \in found : L(k) = m} # {}
        /\ \A j \in {k \in found : L(k) = m} : j <= n
    BY <1>1, <1>2
  <2> HIDE DEF found, L, n
  <2> QED BY <1>1, <2>1, GreatestNumber
<1>4. \E c \in found : \A j \in found : L(j) < L(c) \/ (L(j) = L(c) /\ j <= c)
  <2>1. ASSUME NEW j \in found PROVE L(j) < L(i) \/ (L(j) = L(i) /\ j <= i)
    <3>1. L(j) \in Nat /\ L(i) \in Nat /\ L(j) <= m /\ L(i) = m
      BY <1>1, <1>2, <1>3
    <3>2. CASE L(j) = m
      BY <1>3, <3>1, <3>2
    <3> QED BY <3>1, <3>2
  <2> QED BY <2>1, <1>3
<1>5. match_location(path, locations) =
        CHOOSE c \in found : \A j \in found : L(j) < L(c) \/ (L(j) = L(c) /\ j <= c)
  BY Zenon DEF match_location
<1> QED BY <1>4, <1>5, Zenon

\* Two locations that match one path and are equally long are the same.
LEMMA EquallyLongIsEqual ==
  ASSUME NEW path \in Seq(Char), NEW p \in Seq(Char), NEW q \in Seq(Char),
         location_prefix_matches(path, p), location_prefix_matches(path, q),
         Len(p) = Len(q)
  PROVE  p = q
<1>1. ASSUME NEW r \in Seq(Char), location_prefix_matches(path, r)
      PROVE  Len(r) <= Len(path) /\ \A i \in 1..Len(r) : r[i] = path[i]
  <2>1. CASE r = Root
    <3>1. StartsWith(path, r)
      BY <1>1, <2>1 DEF location_prefix_matches
    <3> QED BY <3>1 DEF StartsWith
  <2>2. CASE r # Root
    BY <1>1, <2>2 DEF location_prefix_matches, OnBoundary, StartsWith
  <2> QED BY <2>1, <2>2
<1>2. \A i \in 1..Len(p) : p[i] = q[i]
  BY <1>1
<1> QED BY <1>2

\* wiki/config.md: "config order doesn't matter".  If no two locations of a
\* server have the same path, two servers with the same locations in any
\* orders send a path to the same location, or both to none.
THEOREM OrderOfLocationsIrrelevant ==
  ASSUME NEW path \in Seq(Char), NEW one \in Locations, NEW other \in Locations,
         {one[i] : i \in 1..Len(one)} = {other[i] : i \in 1..Len(other)},
         \A i, j \in 1..Len(one) : one[i].path = one[j].path => one[i] = one[j]
  PROVE  LET m == match_location(path, one)
             k == match_location(path, other)
         IN IF m = 0 THEN k = 0 ELSE k # 0 /\ one[m] = other[k]
<1> DEFINE m == match_location(path, one)
           k == match_location(path, other)
<1>1. ASSUME NEW a \in Locations, NEW b \in Locations,
             {a[i] : i \in 1..Len(a)} = {b[i] : i \in 1..Len(b)},
             NEW i \in Matching(path, a)
      PROVE  \E j \in Matching(path, b) : b[j] = a[i]
  <2>1. i \in 1..Len(a) /\ location_prefix_matches(path, a[i].path)
    BY <1>1 DEF Matching
  <2>2. PICK j \in 1..Len(b) : b[j] = a[i]
    BY <1>1, <2>1
  <2> QED BY <2>1, <2>2 DEF Matching
<1>2. CASE Matching(path, one) = {}
  <2>1. Matching(path, other) = {}
    BY <1>1, <1>2
  <2> QED BY <1>2, <2>1 DEF match_location
<1>3. CASE Matching(path, one) # {}
  <2>1. Matching(path, other) # {}
    BY <1>1, <1>3
  <2>2. m \in Matching(path, one) /\ k \in Matching(path, other)
    BY <1>3, <2>1, LongestIsChosen
  <2>3. /\ m \in 1..Len(one) /\ location_prefix_matches(path, one[m].path)
        /\ k \in 1..Len(other) /\ location_prefix_matches(path, other[k].path)
    BY <2>2 DEF Matching
  <2>4. /\ one[m].path \in Seq(Char) /\ other[k].path \in Seq(Char)
    BY <2>3, LocationTyped
  <2>5. PICK i \in Matching(path, one) : one[i] = other[k]
    BY <1>1, <2>2
  <2>6. PICK j \in Matching(path, other) : other[j] = one[m]
    BY <1>1, <2>2
  <2>7. Len(other[k].path) <= Len(one[m].path)
    <3>1. \/ Len(one[i].path) < Len(one[m].path)
          \/ Len(one[i].path) = Len(one[m].path)
      BY <1>3, LongestIsChosen
    <3> QED BY <2>4, <2>5, <3>1
  <2>8. Len(one[m].path) <= Len(other[k].path)
    <3>1. \/ Len(other[j].path) < Len(other[k].path)
          \/ Len(other[j].path) = Len(other[k].path)
      BY <2>1, LongestIsChosen
    <3> QED BY <2>4, <2>6, <3>1
  <2>9. one[m].path = other[k].path
    <3>1. Len(one[m].path) = Len(other[k].path)
      BY <2>4, <2>7, <2>8
    <3> QED BY <2>3, <2>4, <3>1, EquallyLongIsEqual
  <2>10. one[i] = one[m]
    <3>1. i \in 1..Len(one)
      BY DEF Matching
    <3> QED BY <2>3, <2>5, <2>9, <3>1
  <2> QED BY <2>3, <2>5, <2>10
<1> QED BY <1>2, <1>3

-----------------------------------------------------------------------------
(* HttpServer.                                                              *)

RequestRecord ==
    [site : Site \cup {NoSite}, path : Path \cup {<<>>}, location : Nat,
     route : AllRoutes \cup {"none"}, index : 0..IndexFiles, failed : BOOLEAN,
     said : Status \cup {0}, pc : AtAwait \cup {"idle", "answered", "delivered", "gone"}]

\* What a handler that is at an await was called for; no peer has replied.
PeerRoute == {"named_upstream", "missing_upstream", "direct", "absolute"}

Awaiting(q, pc) ==
    /\ q.said = 0
    /\ pc = "resolving" => q.route \in {"connect", "absolute"}
    /\ pc = "connecting" => q.route = "connect"
    /\ pc = "buffering" => q.route \in {"direct", "absolute"}
    /\ pc \in {"asking", "pool"} => q.route \in PeerRoute

AwaitInv == \A r \in Request : req[r].pc \in AtAwait => Awaiting(req[r], req[r].pc)

\* The answer to a request by what its peer said, if it has one.
FromPeer(q, status) ==
    q.route \in PeerRoute => status = IF q.said \in {0, 502, 503, 504} THEN 502 ELSE q.said

\* The location of a request is the one that match_location finds.
Sent(q) ==
    /\ ~q.site.forward_proxy => q.location = match_location(q.path, q.site.locations)
    /\ q.route = "static" => ~q.site.forward_proxy /\ q.location # 0

\* What safe_join says of what is left of its path.
Allowed(q) == q.route = "static" /\ \A rel \in Relative(q) : safe_join(rel) # {}
Refused(q) == q.route = "static" /\ \A rel \in Relative(q) : safe_join(rel) = {}

FileAwait == {"stat", "index", "reading"}

RoutedInv ==
    \A r \in Request :
        /\ Sent(req[r])
        /\ req[r].pc \in FileAwait => Allowed(req[r])
        /\ req[r].route = "static" /\ answer[r] = 403 => Refused(req[r])

HttpInv == HttpTypeOK /\ AwaitInv /\ RepliesRelayed /\ RoutedInv

\* The part of the invariant about requests and answers, after a step.
ReqKept ==
    /\ req' \in [Request -> RequestRecord]
    /\ answer' \in [Request -> Status \cup {0}]
    /\ AwaitInv' /\ RepliesRelayed' /\ RoutedInv'

\* All of this depends on what the handler was called for, and on no more.
LEMMA SameRequest ==
  ASSUME NEW p, NEW q, p.site = q.site, p.path = q.path, p.location = q.location,
         p.route = q.route
  PROVE  Sent(p) = Sent(q) /\ Allowed(p) = Allowed(q) /\ Refused(p) = Refused(q)
BY DEF Sent, Allowed, Refused, Relative, LocationOf

LEMMA RoutedNext ==
  ASSUME \A r \in Request :
           /\ Sent(req'[r])
           /\ req'[r].pc \in FileAwait => Allowed(req'[r])
           /\ req'[r].route = "static" /\ answer'[r] = 403 => Refused(req'[r])
  PROVE  RoutedInv'
BY DEF RoutedInv, Sent, Allowed, Refused, Relative, LocationOf

LEMMA RequestsStay ==
  ASSUME HttpInv, req' = req, answer' = answer
  PROVE  ReqKept
<1>1. RoutedInv'
  <2>1. RoutedInv
    BY DEF HttpInv
  <2> QED BY <2>1 DEF RoutedInv, Sent, Allowed, Refused, Relative, LocationOf
<1>2. AwaitInv' /\ RepliesRelayed'
  BY DEF HttpInv, AwaitInv, RepliesRelayed
<1>3. req' \in [Request -> RequestRecord] /\ answer' \in [Request -> Status \cup {0}]
  BY DEF HttpInv, HttpTypeOK, RequestRecord
<1> QED BY <1>1, <1>2, <1>3 DEF ReqKept

LEMMA FinishKeeps ==
  ASSUME HttpInv, NEW r \in Request, NEW q \in RequestRecord, NEW status \in Status,
         FromPeer(q, status), Sent(q), q.route = "static" /\ status = 403 => Refused(q),
         Finish(r, q, status)
  PROVE  ReqKept
<1> DEFINE new == [q EXCEPT !.pc = "answered"]
<1>1. new \in RequestRecord /\ new.said = q.said /\ new.route = q.route
        /\ new.pc = "answered"
  BY DEF RequestRecord
<1>7. Sent(new) /\ (new.route = "static" /\ status = 403 => Refused(new))
  <2>1. new.site = q.site /\ new.path = q.path /\ new.location = q.location /\ new.route = q.route
    BY DEF RequestRecord
  <2> HIDE DEF new
  <2> QED BY <2>1, SameRequest
<1> HIDE DEF new
<1>2. /\ req' = [req EXCEPT ![r] = new] /\ answer' = [answer EXCEPT ![r] = status]
  BY DEF Finish, new
<1>3. /\ req \in [Request -> RequestRecord]
      /\ answer \in [Request -> Status \cup {0}]
  BY DEF HttpInv, HttpTypeOK, RequestRecord
<1>4. /\ req' \in [Request -> RequestRecord]
      /\ answer' \in [Request -> Status \cup {0}]
  BY <1>1, <1>2, <1>3
<1>5. AwaitInv'
  BY <1>1, <1>2, <1>3 DEF AwaitInv, Awaiting, AtAwait, HttpInv
<1>6. RepliesRelayed'
  BY <1>1, <1>2, <1>3 DEF RepliesRelayed, FromPeer, PeerRoute, HttpInv
<1>8. RoutedInv'
  <2> SUFFICES ASSUME NEW c \in Request
               PROVE  /\ Sent(req'[c])
                      /\ req'[c].pc \in FileAwait => Allowed(req'[c])
                      /\ req'[c].route = "static" /\ answer'[c] = 403 => Refused(req'[c])
    BY RoutedNext
  <2>1. CASE c = r
    <3>1. req'[c] = new /\ answer'[c] = status
      BY <1>2, <1>3, <2>1
    <3> QED BY <1>1, <1>7, <3>1 DEF FileAwait
  <2>2. CASE c # r
    <3>1. req'[c] = req[c] /\ answer'[c] = answer[c]
      BY <1>2, <1>3, <2>2
    <3> QED BY <3>1 DEF HttpInv, RoutedInv
  <2> QED BY <2>1, <2>2
<1> QED BY <1>4, <1>5, <1>6, <1>8 DEF ReqKept

LEMMA AwaitKeeps ==
  ASSUME HttpInv, NEW r \in Request, NEW q \in RequestRecord, NEW pc \in AtAwait,
         Awaiting(q, pc), Sent(q), pc \in FileAwait => Allowed(q),
         Await(r, q, pc)
  PROVE  ReqKept
<1> DEFINE new == [q EXCEPT !.pc = pc]
<1>1. new \in RequestRecord /\ new.route = q.route /\ new.said = q.said /\ new.pc = pc
  BY DEF RequestRecord
<1>7. Sent(new) /\ (pc \in FileAwait => Allowed(new))
  <2>1. new.site = q.site /\ new.path = q.path /\ new.location = q.location /\ new.route = q.route
    BY DEF RequestRecord
  <2> HIDE DEF new
  <2> QED BY <2>1, SameRequest
<1> HIDE DEF new
<1>2. req' = [req EXCEPT ![r] = new] /\ answer' = [answer EXCEPT ![r] = 0]
  BY DEF Await, new
<1>3. /\ req \in [Request -> RequestRecord]
      /\ answer \in [Request -> Status \cup {0}]
  BY DEF HttpInv, HttpTypeOK, RequestRecord
<1>4. /\ req' \in [Request -> RequestRecord]
      /\ answer' \in [Request -> Status \cup {0}]
  BY <1>1, <1>2, <1>3
<1>5. AwaitInv'
  BY <1>1, <1>2, <1>3 DEF AwaitInv, Awaiting, HttpInv
<1>6. RepliesRelayed'
  BY <1>1, <1>2, <1>3 DEF RepliesRelayed, HttpInv
<1>8. RoutedInv'
  <2> SUFFICES ASSUME NEW c \in Request
               PROVE  /\ Sent(req'[c])
                      /\ req'[c].pc \in FileAwait => Allowed(req'[c])
                      /\ req'[c].route = "static" /\ answer'[c] = 403 => Refused(req'[c])
    BY RoutedNext
  <2>1. CASE c = r
    <3>1. req'[c] = new /\ answer'[c] = 0
      BY <1>2, <1>3, <2>1
    <3> QED BY <1>1, <1>7, <3>1 DEF FileAwait
  <2>2. CASE c # r
    <3>1. req'[c] = req[c] /\ answer'[c] = answer[c]
      BY <1>2, <1>3, <2>2
    <3> QED BY <3>1 DEF HttpInv, RoutedInv
  <2> QED BY <2>1, <2>2
<1> QED BY <1>4, <1>5, <1>6, <1>8 DEF ReqKept

\* A request that arrives is well typed, whichever location it goes to.
LEMMA RequestsTyped ==
  ASSUME NEW s \in Site, NEW p \in Path, NEW q \in Requests(s, p)
  PROVE  /\ q \in RequestRecord
         /\ q.route \in AllRoutes
         /\ q.said = 0
         /\ Sent(q)
<1>1. /\ p \in Seq(Char) /\ s.forward_proxy \in BOOLEAN /\ s.locations \in Locations
      /\ IndexFiles \in Nat
  BY HttpAssumption DEF Locations, Location
<1>2. ASSUME NEW path \in Path \cup {<<>>}, NEW i \in Nat, NEW route \in AllRoutes
      PROVE  /\ NewRequest(s, path, i, route) \in RequestRecord
             /\ NewRequest(s, path, i, route).route = route
             /\ NewRequest(s, path, i, route).said = 0
             /\ NewRequest(s, path, i, route).site = s
             /\ NewRequest(s, path, i, route).path = path
             /\ NewRequest(s, path, i, route).location = i
  <2>1. NewRequest(s, path, i, route) =
          [site |-> s, path |-> path, location |-> i, route |-> route, index |-> 0,
           failed |-> FALSE, said |-> 0, pc |-> "idle"]
    BY DEF NewRequest
  <2>2. 0 \in 0..IndexFiles
    BY <1>1
  <2> QED BY <2>1, <2>2 DEF RequestRecord
<1>3. CASE s.forward_proxy
  <2>1. PICK route \in ForwardRoute : q = NewRequest(s, <<>>, 0, route)
    BY <1>3 DEF Requests
  <2>2. q.site = s /\ q.route = route /\ q.said = 0 /\ q \in RequestRecord /\ route \in AllRoutes
    <3>1. route \in AllRoutes /\ <<>> \in Path \cup {<<>>} /\ 0 \in Nat
      BY DEF AllRoutes
    <3> DEFINE new == NewRequest(s, <<>>, 0, route)
    <3>2. new.site = s /\ new.route = route /\ new.said = 0 /\ new \in RequestRecord
      BY <1>2, <3>1
    <3> QED BY <2>1, <3>1, <3>2
  <2> QED BY <1>3, <2>1, <2>2 DEF Sent, ForwardRoute
<1>4. CASE ~s.forward_proxy
  <2> DEFINE i == match_location(p, s.locations)
             route == IF i = 0 THEN "no_location" ELSE s.locations[i].action
  <2>1. q = NewRequest(s, p, i, route)
    BY <1>4 DEF Requests
  <2>2. i \in Nat /\ route \in AllRoutes
    <3>1. CASE Matching(p, s.locations) = {}
      BY <3>1 DEF match_location, AllRoutes
    <3>2. CASE Matching(p, s.locations) # {}
      <4>1. i \in Matching(p, s.locations)
        BY <1>1, <3>2, LongestIsChosen
      <4>2. i \in 1..Len(s.locations)
        BY <4>1 DEF Matching
      <4>3. s.locations[i].action \in LocationRoute
        BY <1>1, <4>2, LocationTyped
      <4> QED BY <4>2, <4>3, <1>1 DEF AllRoutes
    <3> QED BY <3>1, <3>2
  <2>3. /\ q.site = s /\ q.path = p /\ q.location = i /\ q.route = route
        /\ q.said = 0 /\ q \in RequestRecord
    BY <1>2, <2>1, <2>2
  <2>4. Sent(q)
    BY <1>4, <2>3 DEF Sent
  <2> QED BY <2>2, <2>3, <2>4
<1> QED BY <1>1, <1>3, <1>4

LEMMA HttpInitially ==
  HttpInit => HttpInv
<1> SUFFICES ASSUME HttpInit PROVE HttpInv
  OBVIOUS
<1> DEFINE new == NewRequest(NoSite, <<>>, 0, "none")
<1>1. new \in RequestRecord /\ new.pc = "idle"
  <2>1. 0 \in 0..IndexFiles
    BY HttpAssumption
  <2> QED BY <2>1 DEF NewRequest, RequestRecord
<1>6. Sent(new)
  <2>1. /\ new.site.forward_proxy = FALSE /\ new.site.locations = <<>>
        /\ new.location = 0 /\ new.route = "none"
    BY DEF NewRequest, NoSite
  <2> HIDE DEF new
  <2>2. Matching(new.path, <<>>) = {}
    BY DEF Matching
  <2>3. match_location(new.path, <<>>) = 0
    BY <2>2 DEF match_location
  <2> QED BY <2>1, <2>3 DEF Sent
<1> HIDE DEF new
<1>2. req = [r \in Request |-> new]
  BY DEF HttpInit, new
<1>3. HttpTypeOK
  BY <1>1, <1>2 DEF HttpInit, HttpTypeOK, RequestRecord
<1>4. AwaitInv
  BY <1>1, <1>2 DEF AwaitInv, AtAwait
<1>5. RepliesRelayed
  BY DEF HttpInit, RepliesRelayed
<1>7. RoutedInv
  BY <1>1, <1>2, <1>6 DEF HttpInit, RoutedInv, FileAwait
<1> QED BY <1>3, <1>4, <1>5, <1>7 DEF HttpInv

\* What an action does to asked and tunnel is left to its proof.
LEMMA KeptTogether ==
  ASSUME ReqKept, asked' \in [Request -> BOOLEAN],
         tunnel' \in [Request -> {"none", "upgrading", "relaying", "client_done",
                                  "peer_done", "closed"}]
  PROVE  HttpInv'
BY DEF ReqKept, HttpInv, HttpTypeOK, RequestRecord

LEMMA RequestTyped ==
  ASSUME HttpInv, NEW r \in Request
  PROVE  req[r] \in RequestRecord
BY DEF HttpInv, HttpTypeOK, RequestRecord

\* static_files::serve refuses what safe_join refuses, and serves the rest.
LEMMA ServeFileKeeps ==
  ASSUME HttpInv, NEW r \in Request, NEW q \in RequestRecord, Sent(q), q.said = 0,
         q.route = "static", ServeFile(r, q)
  PROVE  ReqKept
<1>0. \A s : FromPeer(q, s)
  BY DEF FromPeer, PeerRoute
<1>1. ASSUME NEW s \in {404, 405}, Finish(r, q, s) PROVE ReqKept
  BY <1>0, <1>1, FinishKeeps DEF Status
<1>2. ASSUME NEW rel \in Relative(q),
             IF safe_join(rel) = {} THEN Finish(r, q, 403) ELSE Await(r, q, "stat")
      PROVE  ReqKept
  <2>1. \A other \in Relative(q) : other = rel
    BY <1>2 DEF Relative, uri_to_relative
  <2>2. CASE safe_join(rel) = {}
    <3>1. Refused(q)
      BY <2>1, <2>2 DEF Refused
    <3> QED BY <1>0, <1>2, <2>2, <3>1, FinishKeeps DEF Status
  <2>3. CASE safe_join(rel) # {}
    <3>1. Allowed(q)
      BY <2>1, <2>3 DEF Allowed
    <3> QED BY <1>2, <2>3, <3>1, AwaitKeeps DEF AtAwait, Awaiting
  <2> QED BY <2>2, <2>3
<1> QED BY <1>1, <1>2 DEF ServeFile

LEMMA DispatchKeeps ==
  ASSUME HttpInv, NEW r \in Request, NEW q \in RequestRecord, Sent(q), q.said = 0,
         Dispatch(r, q)
  PROVE  ReqKept
<1>1. CASE /\ q.route \in {"no_location", "return", "connect", "relative"}
           /\ \E s \in Status : Finish(r, q, s)
  <2>1. \A s : FromPeer(q, s)
    BY <1>1 DEF FromPeer, PeerRoute
  <2> QED BY <1>1, <2>1, FinishKeeps
<1>2. CASE q.route = "missing_upstream" /\ Finish(r, q, 502)
  <2>1. FromPeer(q, 502)
    BY DEF FromPeer
  <2> QED BY <1>2, <2>1, FinishKeeps DEF Status
<1>3. CASE q.route = "named_upstream" /\ Await(r, q, "pool")
  BY <1>3, AwaitKeeps DEF AtAwait, FileAwait, Awaiting, PeerRoute
<1>4. CASE q.route = "direct" /\ Await(r, q, "buffering")
  BY <1>4, AwaitKeeps DEF AtAwait, FileAwait, Awaiting
<1>5. CASE q.route \in {"connect", "absolute"} /\ Await(r, q, "resolving")
  BY <1>5, AwaitKeeps DEF AtAwait, FileAwait, Awaiting
<1>6. CASE q.route = "static" /\ ServeFile(r, q)
  BY <1>6, ServeFileKeeps
<1> QED BY <1>1, <1>2, <1>3, <1>4, <1>5, <1>6 DEF Dispatch, Status

LEMMA ArriveKeeps ==
  ASSUME HttpInv, NEW r \in Request, Arrive(r)
  PROVE  HttpInv'
<1>1. PICK s \in Site, p \in Path : \E q \in Requests(s, p) : Dispatch(r, q)
  BY DEF Arrive
<1>2. PICK q \in Requests(s, p) : Dispatch(r, q)
  BY <1>1
<1>3. ReqKept
  BY <1>2, RequestsTyped, DispatchKeeps
<1>4. asked' \in [Request -> BOOLEAN] /\ tunnel' \in
        [Request -> {"none", "upgrading", "relaying", "client_done", "peer_done", "closed"}]
  BY DEF Arrive, HttpInv, HttpTypeOK
<1> QED BY <1>3, <1>4, KeptTogether

LEMMA ResumeKeeps ==
  ASSUME HttpInv, NEW r \in Request, Resume(r)
  PROVE  HttpInv'
<1> DEFINE q == req[r]
<1>1. q \in RequestRecord /\ (q.pc \in AtAwait => Awaiting(q, q.pc)) /\ Sent(q)
  BY RequestTyped DEF HttpInv, RoutedInv, AwaitInv
<1>2. ASSUME NEW s \in Status \ {403}, Finish(r, q, s), q.route \notin PeerRoute PROVE ReqKept
  <2>1. FromPeer(q, s)
    BY <1>2 DEF FromPeer
  <2> QED BY <1>1, <1>2, <2>1, FinishKeeps
<1>3. ASSUME q.pc \in FileAwait PROVE Allowed(q) /\ q.said = 0 /\ q.route \notin PeerRoute
  <2>1. Allowed(q)
    BY <1>3 DEF HttpInv, RoutedInv
  <2> QED BY <1>1, <1>3, <2>1 DEF Allowed, PeerRoute, Awaiting, AtAwait, FileAwait
<1>4. ASSUME NEW k \in Nat, k > 0, TryIndex(r, k), q.pc \in FileAwait PROVE ReqKept
  <2>1. CASE k > IndexFiles
    BY <1>2, <1>3, <1>4, <2>1 DEF TryIndex, Status
  <2>2. CASE ~(k > IndexFiles)
    <3> DEFINE new == [q EXCEPT !.index = k]
    <3>0. k \in 0..IndexFiles /\ q \in RequestRecord
      BY <1>1, <1>4, <2>2, HttpAssumption
    <3>1. new \in RequestRecord
      BY <3>0 DEF RequestRecord
    <3>3. /\ new.site = q.site /\ new.path = q.path /\ new.location = q.location
          /\ new.route = q.route /\ new.said = q.said
      BY <1>1 DEF RequestRecord
    <3>2. Await(r, new, "index")
      BY <1>4, <2>2 DEF TryIndex
    <3> HIDE DEF new
    <3>5. Sent(new) /\ Allowed(new)
      BY <1>1, <1>3, <1>4, <3>3, SameRequest
    <3>6. Awaiting(new, "index")
      BY <1>3, <1>4, <3>3 DEF Awaiting
    <3> QED BY <3>1, <3>2, <3>5, <3>6, AwaitKeeps DEF AtAwait
  <2> QED BY <2>1, <2>2
<1>5. ReqKept
  <2>1. CASE NotReceived(r)
    <3> DEFINE new == [q EXCEPT !.failed = TRUE]
    <3>1. new \in RequestRecord
      BY <1>1 DEF RequestRecord
    <3>2. Finish(r, new, 502)
      BY <2>1 DEF NotReceived
    <3>3. /\ new.site = q.site /\ new.path = q.path /\ new.location = q.location
          /\ new.route = q.route /\ new.said = q.said
      BY <1>1 DEF RequestRecord
    <3>5. q.said = 0
      BY <1>1, <2>1 DEF NotReceived, Awaiting, AtAwait
    <3> HIDE DEF new
    <3>4. Sent(new) /\ FromPeer(new, 502)
      BY <1>1, <3>3, <3>5, SameRequest DEF FromPeer
    <3> QED BY <3>1, <3>2, <3>4, FinishKeeps DEF Status
  <2>9. CASE NoReply(r)
    <3>1. Finish(r, q, 502)
      BY <2>9 DEF NoReply
    <3>2. FromPeer(q, 502)
      BY <1>1, <2>9 DEF NoReply, FromPeer, Awaiting, AtAwait
    <3> QED BY <1>1, <3>1, <3>2, FinishKeeps DEF Status
  <2>2. CASE Resolved(r)
    <3>1. q.pc = "resolving" /\ q.route \in {"connect", "absolute"} /\ q.said = 0
      BY <1>1, <2>2 DEF Resolved, Awaiting, AtAwait
    <3>2. CASE q.route = "connect"
      <4>1. Await(r, q, "connecting")
        BY <2>2, <3>2 DEF Resolved
      <4> QED BY <1>1, <3>1, <3>2, <4>1, AwaitKeeps DEF AtAwait, FileAwait, Awaiting
    <3>3. CASE q.route = "absolute"
      <4>1. Await(r, q, "buffering")
        BY <2>2, <3>3 DEF Resolved
      <4> QED BY <1>1, <3>1, <3>3, <4>1, AwaitKeeps DEF AtAwait, FileAwait, Awaiting
    <3> QED BY <3>1, <3>2, <3>3
  <2>3. CASE BodyBuffered(r)
    <3>1. q.route \in PeerRoute /\ q.said = 0
      BY <1>1, <2>3 DEF BodyBuffered, Awaiting, AtAwait, PeerRoute
    <3>2. Await(r, q, "asking") \/ Finish(r, q, 502)
      BY <2>3 DEF BodyBuffered
    <3>3. Awaiting(q, "asking") /\ FromPeer(q, 502)
      BY <3>1 DEF Awaiting, FromPeer
    <3>4. CASE Await(r, q, "asking")
      BY <1>1, <3>3, <3>4, AwaitKeeps DEF AtAwait, FileAwait
    <3>5. CASE Finish(r, q, 502)
      BY <1>1, <3>3, <3>5, FinishKeeps DEF Status
    <3> QED BY <3>2, <3>4, <3>5
  <2>4. CASE PeerAnswers(r)
    <3>1. PICK s \in Status :
            Finish(r, [q EXCEPT !.said = s], IF peer_failure_status(s) THEN 502 ELSE s)
      BY <2>4 DEF PeerAnswers
    <3> DEFINE new == [q EXCEPT !.said = s]
               status == IF peer_failure_status(s) THEN 502 ELSE s
    <3>2. new \in RequestRecord /\ status \in Status
      BY <1>1 DEF RequestRecord, Status
    <3>3. /\ new.site = q.site /\ new.path = q.path /\ new.location = q.location
          /\ new.route = q.route /\ new.said = s
      BY <1>1 DEF RequestRecord
    <3>4. q.route \in PeerRoute
      BY <1>1, <2>4 DEF PeerAnswers, Awaiting, AtAwait
    <3>5. FromPeer(new, status)
      BY <3>3 DEF FromPeer, peer_failure_status, Status
    <3>6. Finish(r, new, status)
      BY <3>1
    <3> HIDE DEF new, status
    <3>7. Sent(new) /\ new.route # "static"
      BY <1>1, <3>3, <3>4, SameRequest DEF PeerRoute
    <3> QED BY <3>2, <3>5, <3>6, <3>7, FinishKeeps
  <2>5. CASE Connected(r)
    <3>1. q.route \notin PeerRoute /\ Finish(r, q, 200)
      BY <1>1, <2>5 DEF Connected, Awaiting, AtAwait, PeerRoute
    <3> QED BY <1>2, <3>1 DEF Status
  <2>10. ASSUME Await(r, q, "reading"), q.pc \in FileAwait PROVE ReqKept
    BY <1>1, <1>3, <2>10, AwaitKeeps DEF Awaiting, AtAwait
  <2>6. CASE Stat(r)
    <3>1. q.pc \in FileAwait
      BY <2>6 DEF Stat, FileAwait
    <3>2. Await(r, q, "reading") \/ TryIndex(r, 1) \/ Finish(r, q, 404)
      BY <2>6 DEF Stat
    <3> QED BY <1>2, <1>3, <1>4, <2>10, <3>1, <3>2 DEF Status
  <2>7. CASE StatIndex(r)
    <3>1. q.index + 1 \in Nat /\ q.index + 1 > 0
      BY <1>1, HttpAssumption DEF RequestRecord
    <3> QED BY <1>4, <2>7, <2>10, <3>1 DEF StatIndex, FileAwait
  <2>8. CASE Read(r)
    BY <1>2, <1>3, <2>8 DEF Read, Status, FileAwait
  <2> QED BY <2>1, <2>2, <2>3, <2>4, <2>5, <2>6, <2>7, <2>8, <2>9 DEF Resume
<1>6. /\ asked' = asked \/ asked' = [asked EXCEPT ![r] = TRUE]
      /\ tunnel' = tunnel \/ tunnel' = [tunnel EXCEPT ![r] = "upgrading"]
  <2>1. CASE \/ NotReceived(r) \/ NoReply(r) \/ Resolved(r) \/ PeerAnswers(r)
             \/ Stat(r) \/ StatIndex(r) \/ Read(r)
    BY <2>1 DEF NotReceived, NoReply, Resolved, PeerAnswers, Stat, StatIndex, Read
  <2>2. CASE BodyBuffered(r)
    BY <2>2 DEF BodyBuffered
  <2>3. CASE Connected(r)
    BY <2>3 DEF Connected
  <2> QED BY <2>1, <2>2, <2>3 DEF Resume
<1>7. asked' \in [Request -> BOOLEAN] /\ tunnel' \in
        [Request -> {"none", "upgrading", "relaying", "client_done", "peer_done", "closed"}]
  BY <1>6 DEF HttpInv, HttpTypeOK
<1> QED BY <1>5, <1>7, KeptTogether

\* The handler's state moves on or is dropped: its request and answer stay.
LEMMA MovesKeep ==
  ASSUME HttpInv, NEW S \in SUBSET Request, NEW pc \in {"delivered", "gone"},
         req' = [r \in Request |-> IF r \in S THEN [req[r] EXCEPT !.pc = pc] ELSE req[r]],
         answer' = answer
  PROVE  ReqKept
<1>1. ASSUME NEW r \in Request
      PROVE  /\ req'[r] \in RequestRecord
             /\ req'[r].route = req[r].route /\ req'[r].said = req[r].said
             /\ req'[r].pc = req[r].pc \/ req'[r].pc \in {"delivered", "gone"}
             /\ req'[r].site = req[r].site /\ req'[r].path = req[r].path
             /\ req'[r].location = req[r].location
  <2>1. req[r] \in RequestRecord
    BY RequestTyped
  <2> QED BY <2>1 DEF RequestRecord
<1>2. req' \in [Request -> RequestRecord]
  BY <1>1
<1>3. answer' \in [Request -> Status \cup {0}]
  BY DEF HttpInv, HttpTypeOK
<1>4. AwaitInv'
  BY <1>1 DEF AwaitInv, Awaiting, AtAwait, HttpInv
<1>5. RepliesRelayed'
  BY <1>1 DEF RepliesRelayed, HttpInv
<1>6. RoutedInv'
  <2> SUFFICES ASSUME NEW r \in Request
               PROVE  /\ Sent(req'[r])
                      /\ req'[r].pc \in FileAwait => Allowed(req'[r])
                      /\ req'[r].route = "static" /\ answer'[r] = 403 => Refused(req'[r])
    BY RoutedNext
  <2>1. /\ Sent(req'[r]) = Sent(req[r]) /\ Allowed(req'[r]) = Allowed(req[r])
        /\ Refused(req'[r]) = Refused(req[r])
    BY <1>1, SameRequest
  <2> QED BY <1>1, <2>1 DEF HttpInv, RoutedInv, FileAwait
<1> QED BY <1>2, <1>3, <1>4, <1>5, <1>6 DEF ReqKept

LEMMA ConnectionKeeps ==
  ASSUME HttpInv, NEW r \in Request, Deliver(r) \/ HangUp(r) \/ Tunnel(r)
  PROVE  HttpInv'
<1>1. req \in [Request -> RequestRecord]
  BY DEF HttpInv, HttpTypeOK, RequestRecord
<1>2. ReqKept
  <2>1. ASSUME NEW pc \in {"delivered", "gone"}, req' = [req EXCEPT ![r].pc = pc],
               answer' = answer
        PROVE  ReqKept
    <3>1. req' = [c \in Request |-> IF c \in {r} THEN [req[c] EXCEPT !.pc = pc] ELSE req[c]]
      BY <1>1, <2>1
    <3>2. {r} \in SUBSET Request
      OBVIOUS
    <3> QED BY <2>1, <3>1, <3>2, MovesKeep, Zenon
  <2>2. CASE Tunnel(r)
    <3>1. req' = req /\ answer' = answer
      BY <2>2 DEF Tunnel, UpgradeEnds, ClientEnds, PeerEnds, TunnelBreaks
    <3> QED BY <3>1, RequestsStay
  <2> QED BY <2>1, <2>2 DEF Deliver, HangUp
<1>3. asked' \in [Request -> BOOLEAN] /\ tunnel' \in
        [Request -> {"none", "upgrading", "relaying", "client_done", "peer_done", "closed"}]
  BY DEF Deliver, HangUp, Tunnel, UpgradeEnds, ClientEnds, PeerEnds, TunnelBreaks,
         HttpInv, HttpTypeOK
<1> QED BY <1>2, <1>3, KeptTogether

-----------------------------------------------------------------------------
(* Serve.                                                                   *)

LEMMA DiesKeepsHttp ==
  ASSUME HttpInv, NEW how, Dies(how)
  PROVE  HttpInv'
<1> DEFINE S == {r \in Request : req[r].pc # "idle"}
<1>1. req' = [r \in Request |-> IF r \in S THEN [req[r] EXCEPT !.pc = "gone"] ELSE req[r]]
  BY DEF Dies
<1>2. ReqKept
  BY <1>1, MovesKeep DEF Dies
<1>3. asked' \in [Request -> BOOLEAN] /\ tunnel' \in
        [Request -> {"none", "upgrading", "relaying", "client_done", "peer_done", "closed"}]
  BY DEF Dies, HttpInv, HttpTypeOK
<1> QED BY <1>2, <1>3, KeptTogether

\* A step of the worker keeps what holds of its requests.
LEMMA ServeKeepsHttp ==
  ASSUME HttpInv, [ServeNext]_allVars
  PROVE  HttpInv'
<1>1. CASE UNCHANGED httpVars
  <2>1. ReqKept
    BY <1>1, RequestsStay DEF httpVars
  <2>2. asked' \in [Request -> BOOLEAN] /\ tunnel' \in
          [Request -> {"none", "upgrading", "relaying", "client_done", "peer_done", "closed"}]
    BY <1>1 DEF httpVars, HttpInv, HttpTypeOK
  <2> QED BY <2>1, <2>2, KeptTogether
<1>2. CASE StepFails \/ Kill
  BY <1>2, DiesKeepsHttp DEF StepFails, Kill
<1>3. ASSUME NEW r \in Request, Http(r) PROVE HttpInv'
  <2>1. Arrive(r) \/ Resume(r) \/ Deliver(r) \/ HangUp(r) \/ Tunnel(r)
    BY <1>3 DEF Http, HttpArrive, HttpResume, HttpDeliver, HttpHangUp, HttpTunnel
  <2> QED BY <2>1, ArriveKeeps, ResumeKeeps, ConnectionKeeps
<1>4. ASSUME NEW c \in StreamClient, Relay(c) PROVE UNCHANGED httpVars
  BY <1>4 DEF Relay, RelayConnect, RelayConnected, RelayBreaks, RelayClientEnds,
              RelayPeerEnds
<1>5. ASSUME NEW c \in Client, Accept(c) \/ \E l \in Listener : Connect(c, l)
      PROVE  UNCHANGED httpVars
  BY <1>5 DEF Accept, Connect
<1>6. ASSUME NEW r \in Request, Handshake(r) \/ LeaveIdle(r) PROVE UNCHANGED httpVars
  BY <1>6 DEF Handshake, LeaveIdle
<1>7. CASE StepDone \/ UNCHANGED allVars
  BY <1>1, <1>7 DEF StepDone, allVars
<1> QED BY <1>1, <1>2, <1>3, <1>4, <1>5, <1>6, <1>7 DEF ServeNext

\* From the start of a worker to its end, whatever its clients, peers and
\* files do: the requests and tunnels of dispatch() are in one of the states
\* that HttpServer names.
THEOREM HttpTypeCorrect == ServeSpec => []HttpTypeOK
<1>1. ServeInit => HttpInv
  BY HttpInitially DEF ServeInit
<1>2. HttpInv /\ [ServeNext]_allVars => HttpInv'
  BY ServeKeepsHttp
<1>3. HttpInv => HttpTypeOK
  BY DEF HttpInv
<1> QED BY <1>1, <1>2, <1>3, PTL DEF ServeSpec

\* For every set of servers and locations, whenever clients leave, and peers and
\* the worker end: a peer's reply is the answer, or 502 is.
THEOREM RepliesAlwaysRelayed == ServeSpec => []RepliesRelayed
<1>1. ServeInit => HttpInv
  BY HttpInitially DEF ServeInit
<1>2. HttpInv /\ [ServeNext]_allVars => HttpInv'
  BY ServeKeepsHttp
<1>3. HttpInv => RepliesRelayed
  BY DEF HttpInv
<1> QED BY <1>1, <1>2, <1>3, PTL DEF ServeSpec

\* The location that is found has most parts of those whose parts begin the path.
LEMMA ChosenHasMostParts ==
  ASSUME NEW path \in Seq(Char), NEW locations \in Locations
  PROVE  LET found == match_location(path, locations)
             best == MostParts(path, locations)
         IN  IF best = {} THEN found = 0 ELSE found \in best
<1> DEFINE found == match_location(path, locations)
           P(i) == locations[i].path
<1>1. Matching(path, locations) = Fitting(path, locations)
  <2>1. ASSUME NEW i \in 1..Len(locations)
        PROVE  location_prefix_matches(path, P(i)) <=> Fits(P(i), path)
    <3>1. P(i) \in Seq(Char)
      BY LocationTyped
    <3> HIDE DEF P
    <3> QED BY <3>1, MatchesByParts
  <2> QED BY <2>1 DEF Matching, Fitting
<1>2. CASE Matching(path, locations) = {}
  BY <1>1, <1>2 DEF match_location, MostParts
<1>3. CASE Matching(path, locations) # {}
  <2>1. /\ found \in Matching(path, locations)
        /\ \A j \in Matching(path, locations) : Len(P(j)) <= Len(P(found))
    <3>1. \A j \in Matching(path, locations) : Len(P(j)) \in Nat
      BY LocationTyped DEF Matching
    <3> QED BY <1>3, <3>1, LongestIsChosen
  <2>2. ASSUME NEW j \in Matching(path, locations)
        PROVE  Len(PrefixParts(P(j))) <= Len(PrefixParts(P(found)))
    <3>1. /\ location_prefix_matches(path, P(j)) /\ location_prefix_matches(path, P(found))
          /\ P(j) \in Seq(Char) /\ P(found) \in Seq(Char) /\ Len(P(j)) <= Len(P(found))
      BY <2>1, LocationTyped DEF Matching
    <3> HIDE DEF P
    <3> QED BY <3>1, LongerHasMoreParts
  <2>3. found \in MostParts(path, locations)
    BY <1>1, <2>1, <2>2 DEF MostParts
  <2> QED BY <2>3
<1> QED BY <1>2, <1>3

LEMMA SitesTyped ==
  ASSUME HttpInv, NEW r \in Request
  PROVE  req[r].path \in Seq(Char) /\ req[r].site.locations \in Locations
<1>1. req[r].site \in Site \cup {NoSite} /\ req[r].path \in Path \cup {<<>>}
  BY RequestTyped DEF RequestRecord
<1>2. <<>> \in Seq(Char) /\ NoSite.locations = <<>> /\ <<>> \in Locations
  BY DEF NoSite, Locations
<1>3. \A s \in Site : s.locations \in Locations
  BY HttpAssumption DEF Locations, Location
<1> QED BY <1>1, <1>2, <1>3, HttpAssumption

\* For every path, and all servers and locations: requests go by whole parts,
\* and to the location with most of them.
THEOREM AlwaysRoutedToLongest == ServeSpec => []RoutedToLongest
<1>1. ServeInit => HttpInv
  BY HttpInitially DEF ServeInit
<1>2. HttpInv /\ [ServeNext]_allVars => HttpInv'
  BY ServeKeepsHttp
<1>3. ASSUME HttpInv PROVE RoutedToLongest
  <2> SUFFICES ASSUME NEW r \in Request, ~req[r].site.forward_proxy
               PROVE  IF MostParts(req[r].path, req[r].site.locations) = {}
                        THEN req[r].location = 0
                        ELSE req[r].location \in MostParts(req[r].path, req[r].site.locations)
    BY DEF RoutedToLongest
  <2>1. req[r].location = match_location(req[r].path, req[r].site.locations)
    BY <1>3 DEF HttpInv, RoutedInv, Sent
  <2> QED BY <1>3, <2>1, SitesTyped, ChosenHasMostParts
<1> QED BY <1>1, <1>2, <1>3, PTL DEF ServeSpec

\* For every path, and all servers and locations: a static location looks for
\* no file outside its root, and refuses nothing that is below it.
THEOREM AlwaysBelowRoot == ServeSpec => []FilesBelowRoot
<1>1. ServeInit => HttpInv
  BY HttpInitially DEF ServeInit
<1>2. HttpInv /\ [ServeNext]_allVars => HttpInv'
  BY ServeKeepsHttp
<1>3. ASSUME HttpInv PROVE FilesBelowRoot
  <2> SUFFICES ASSUME NEW r \in Request
               PROVE  LET q == req[r]
                          rest == RestOf(LocationOf(q).path, q.path)
                      IN /\ q.pc \in {"stat", "index", "reading"} =>
                              /\ DotDot \notin ToSet(rest)
                              /\ {safe_join(rel) : rel \in Relative(q)} = {{Without(rest, Unnamed)}}
                         /\ (q.route = "static" /\ answer[r] = 403) => DotDot \in ToSet(rest)
    BY DEF FilesBelowRoot
  <2> DEFINE q == req[r]
             prefix == LocationOf(q).path
             rest == RestOf(prefix, q.path)
  <2>1. ASSUME q.route = "static"
        PROVE  /\ Relative(q) # {}
               /\ \A rel \in Relative(q) :
                    safe_join(rel) = IF DotDot \in ToSet(rest) THEN {} ELSE {Without(rest, Unnamed)}
    <3>1. q.location = match_location(q.path, q.site.locations) /\ q.location # 0
      BY <1>3, <2>1 DEF HttpInv, RoutedInv, Sent
    <3>2. q.path \in Seq(Char) /\ q.site.locations \in Locations
      BY <1>3, SitesTyped
    <3>3. q.location \in Matching(q.path, q.site.locations)
      <4>1. Matching(q.path, q.site.locations) # {}
        BY <3>1 DEF match_location
      <4> QED BY <3>1, <3>2, <4>1, LongestIsChosen
    <3>4. prefix \in Seq(Char) /\ location_prefix_matches(q.path, prefix)
      BY <3>2, <3>3, LocationTyped DEF Matching, LocationOf
    <3> HIDE DEF prefix, q
    <3>5. /\ uri_to_relative(prefix, q.path) # {}
          /\ \A rel \in uri_to_relative(prefix, q.path) :
               safe_join(rel) = IF DotDot \in ToSet(rest) THEN {} ELSE {Without(rest, Unnamed)}
      BY <3>2, <3>4, JoinsRestBelowRoot
    <3> QED BY <3>5 DEF Relative, prefix
  <2> DEFINE joined == {Without(rest, Unnamed)}
             dots == DotDot \in ToSet(rest)
  <2>2. joined # {}
    OBVIOUS
  <2>3. /\ q.pc \in FileAwait => Allowed(q)
        /\ q.route = "static" /\ answer[r] = 403 => Refused(q)
    BY <1>3 DEF HttpInv, RoutedInv
  <2>4. Allowed(q) => ~dots /\ {safe_join(rel) : rel \in Relative(q)} = {joined}
    <3> HIDE DEF joined, rest, q
    <3> QED BY <2>1, <2>2 DEF Allowed, joined
  <2>5. Refused(q) => q.route = "static" /\ dots
    <3> HIDE DEF joined, rest, q
    <3> QED BY <2>1, <2>2 DEF Refused, joined
  <2> HIDE DEF joined, rest, q, dots
  <2>6. /\ q.pc \in {"stat", "index", "reading"} => ~dots /\ {safe_join(rel) : rel \in Relative(q)} = {joined}
        /\ (q.route = "static" /\ answer[r] = 403) => dots
    BY <2>3, <2>4, <2>5 DEF FileAwait
  <2> QED BY <2>6 DEF q, rest, joined, prefix, dots
<1> QED BY <1>1, <1>2, <1>3, PTL DEF ServeSpec

Step == [do : {"bind", "open_log", "load_tls"}, kind : {"none", "stream", "http", "https"}]

LEMMA ServerStepsTyped ==
  ASSUME NEW n \in 1..Len(Servers)
  PROVE  /\ ServerSteps(Servers[n]) \in Seq(Step)
         /\ Servers[n].listeners # <<>> => Len(ServerSteps(Servers[n])) > 0
<1> DEFINE s == Servers[n]
           log == IF s.log THEN <<[do |-> "open_log", kind |-> "none"]>> ELSE <<>>
           tls == IF s.tls THEN <<[do |-> "load_tls", kind |-> "none"]>> ELSE <<>>
           bound == [j \in 1..Len(s.listeners) |->
                       Bind(IF s.listeners[j] THEN "https" ELSE "http")]
<1>1. s \in [log : BOOLEAN, tls : BOOLEAN, listeners : Seq(BOOLEAN)]
  <2> DEFINE Server == [log : BOOLEAN, tls : BOOLEAN, listeners : Seq(BOOLEAN)]
  <2>1. Servers \in Seq(Server)
    BY ServeAssumption
  <2> HIDE DEF Server
  <2>2. Servers[n] \in Server
    BY <2>1
  <2> QED BY <2>2 DEF Server
<1>2. log \in Seq(Step) /\ tls \in Seq(Step)
  <2>1. ASSUME NEW x \in Step PROVE <<x>> \in Seq(Step)
    OBVIOUS
  <2>2. <<>> \in Seq(Step)
    OBVIOUS
  <2>3. [do |-> "open_log", kind |-> "none"] \in Step /\ [do |-> "load_tls", kind |-> "none"] \in Step
    BY DEF Step
  <2> HIDE DEF s
  <2> QED BY <2>1, <2>2, <2>3, Zenon
<1>3. bound \in Seq(Step)
  <2> DEFINE k == Len(s.listeners)
             name(j) == Bind(IF s.listeners[j] THEN "https" ELSE "http")
  <2>1. k \in Nat
    BY <1>1
  <2>2. \A j \in 1..k : name(j) \in Step
    BY DEF Bind, Step
  <2> HIDE DEF k, name
  <2>3. [j \in 1..k |-> name(j)] \in Seq(Step)
    BY <2>1, <2>2
  <2> QED BY <2>3 DEF k, name
<1>4. ServerSteps(s) = log \o tls \o bound
  BY DEF ServerSteps
<1>5. s.listeners # <<>> => Len(bound) > 0
  <2>1. Len(s.listeners) \in Nat /\ (s.listeners # <<>> => Len(s.listeners) > 0)
    BY <1>1
  <2>2. Len(bound) = Len(s.listeners)
    BY <2>1
  <2> QED BY <2>1, <2>2
<1> HIDE DEF log, tls, bound
<1>6. log \o tls \o bound \in Seq(Step) /\ Len(log \o tls \o bound) >= Len(bound)
  BY <1>2, <1>3
<1>7. Len(bound) \in Nat /\ Len(log \o tls \o bound) \in Nat
  BY <1>3, <1>6
<1> HIDE DEF s
<1>8. s.listeners # <<>> => Len(ServerSteps(s)) > 0
  BY <1>4, <1>5, <1>6, <1>7
<1> QED BY <1>4, <1>6, <1>8 DEF s

\* run() takes its steps server by server.
LEMMA StartUpUnfolds ==
  /\ StartUpOf[0] = [i \in 1..Streams |-> Bind("stream")]
  /\ \A n \in 1..Len(Servers) : StartUpOf[n] = StartUpOf[n - 1] \o ServerSteps(Servers[n])
  /\ \A n \in 0..Len(Servers) : StartUpOf[n] \in Seq(Step)
<1> DEFINE L == Len(Servers)
           S == Seq(Step)
           first == [i \in 1..Streams |-> Bind("stream")]
           more == [n \in Nat |-> [s \in S |-> IF n \in 1..L THEN s \o ServerSteps(Servers[n]) ELSE s]]
           R(f) == f = [n \in 0..L |-> IF n = 0 THEN first ELSE f[n - 1] \o ServerSteps(Servers[n])]
<1>1. L \in Nat
  BY ServeAssumption
<1>2. more \in [Nat -> [S -> S]]
  BY ServerStepsTyped
<1>3. first \in S
  <2>1. Streams \in Nat /\ \A i \in 1..Streams : Bind("stream") \in Step
    BY ServeAssumption DEF Bind, Step
  <2> QED BY <2>1
<1>4. PICK f \in [0..L -> S] : f[0] = first /\ \A n \in 1..L : f[n] = more[n][f[n - 1]]
  <2> HIDE DEF more, S, L, first
  <2>1. Iterable(S, first, more, L)
    BY <1>1, <1>2, <1>3 DEF Iterable
  <2>2. \E g : Iteration(g, S, first, more, L)
    BY <2>1, Iterates
  <2> QED BY <2>2 DEF Iteration
<1>5. ASSUME NEW n \in 1..L PROVE f[n] = f[n - 1] \o ServerSteps(Servers[n])
  <2>1. n \in Nat /\ f[n - 1] \in S
    BY <1>1, <1>4
  <2>2. more[n][f[n - 1]] = f[n - 1] \o ServerSteps(Servers[n])
    BY <2>1
  <2> QED BY <1>4, <2>2
<1>6. R(f)
  <2>1. f = [n \in 0..L |-> f[n]]
    OBVIOUS
  <2>2. ASSUME NEW n \in 0..L
        PROVE  f[n] = IF n = 0 THEN first ELSE f[n - 1] \o ServerSteps(Servers[n])
    <3>1. n = 0 \/ (n \in 1..L /\ n # 0)
      BY <1>1
    <3> HIDE DEF first, L
    <3> QED BY <1>4, <1>5, <3>1
  <2> HIDE DEF first
  <2> QED BY <2>1, <2>2, Zenon
<1>7. StartUpOf = CHOOSE g : R(g)
  BY DEF StartUpOf
<1>8. R(StartUpOf)
  <2> HIDE DEF R
  <2> QED BY <1>6, <1>7, Zenon
<1>9. \A n \in Nat : n \in {m \in Nat : m \in 0..L => StartUpOf[m] \in S}
  <2> DEFINE T == {m \in Nat : m \in 0..L => StartUpOf[m] \in S}
  <2>1. 0 \in T
    BY <1>3, <1>8
  <2>2. ASSUME NEW n \in Nat, n \in T PROVE n + 1 \in T
    <3>1. ASSUME n + 1 \in 0..L PROVE StartUpOf[n + 1] \in S
      <4>1. n + 1 \in 1..L /\ n \in 0..L /\ (n + 1) - 1 = n /\ n + 1 # 0
        BY <1>1, <3>1
      <4>2. StartUpOf[n] \in S /\ ServerSteps(Servers[n + 1]) \in S
        BY <2>2, <4>1, ServerStepsTyped
      <4>3. StartUpOf[n + 1] = StartUpOf[n] \o ServerSteps(Servers[n + 1])
        <5> HIDE DEF first
        <5> QED BY <1>8, <3>1, <4>1
      <4> QED BY <4>2, <4>3
    <3> QED BY <3>1
  <2>3. \A n \in Nat : n \in T
    <3> HIDE DEF T
    <3> QED BY <2>1, <2>2, Induction, Zenon
  <2> QED BY <2>3
<1>10. StartUpOf[0] = first
  BY <1>1, <1>8
<1>11. ASSUME NEW n \in 1..L PROVE StartUpOf[n] = StartUpOf[n - 1] \o ServerSteps(Servers[n])
  <2>1. n \in 0..L /\ n # 0
    BY <1>1
  <2> HIDE DEF first, L
  <2> QED BY <1>8, <2>1
<1>12. \A n \in 0..L : StartUpOf[n] \in S
  BY <1>1, <1>9
<1> HIDE DEF first, S, L
<1>13. /\ StartUpOf[0] = first
       /\ \A n \in 1..L : StartUpOf[n] = StartUpOf[n - 1] \o ServerSteps(Servers[n])
       /\ \A n \in 0..L : StartUpOf[n] \in S
  BY <1>10, <1>11, <1>12, Zenon
<1> QED BY <1>13, Zenon DEF first, S, L

\* It takes finitely many before it serves, and as there is something to listen
\* on, one at least.
LEMMA StartUpBinds == StartUp \in Seq(Step) /\ Len(StartUp) \in Nat \ {0}
<1> DEFINE L == Len(Servers)
           Bound(n) == Streams > 0 \/ \E i \in 1..n : Servers[i].listeners # <<>>
           T == {m \in Nat : m \in 0..L /\ Bound(m) => Len(StartUpOf[m]) > 0}
<1>1. L \in Nat
  BY ServeAssumption
<1>2. 0 \in T
  <2>1. Streams \in Nat /\ Len(StartUpOf[0]) = Streams
    BY StartUpUnfolds, ServeAssumption
  <2> QED BY <2>1
<1>3. ASSUME NEW n \in Nat, n \in T PROVE n + 1 \in T
  <2>1. ASSUME n + 1 \in 0..L, Bound(n + 1) PROVE Len(StartUpOf[n + 1]) > 0
    <3>1. n + 1 \in 1..L /\ n \in 0..L /\ (n + 1) - 1 = n
      BY <1>1, <2>1
    <3> DEFINE a == StartUpOf[n]
               b == ServerSteps(Servers[n + 1])
    <3>2. a \in Seq(Step) /\ b \in Seq(Step)
      BY <3>1, StartUpUnfolds, ServerStepsTyped
    <3>3. StartUpOf[n + 1] = a \o b
      BY <3>1, StartUpUnfolds
    <3>4. Bound(n) \/ Servers[n + 1].listeners # <<>>
      BY <2>1
    <3>5. Len(a) > 0 \/ Len(b) > 0
      BY <1>3, <3>1, <3>4, ServerStepsTyped
    <3> HIDE DEF a, b
    <3>6. Len(a) \in Nat /\ Len(b) \in Nat /\ Len(a \o b) = Len(a) + Len(b)
      BY <3>2
    <3> QED BY <3>3, <3>5, <3>6
  <2> QED BY <2>1
<1>4. \A n \in Nat : n \in T
  <2> HIDE DEF T
  <2> QED BY <1>2, <1>3, Induction, Zenon
<1>5. Bound(L)
  BY ServeAssumption
<1>6. StartUp \in Seq(Step) /\ StartUp = StartUpOf[L] /\ L \in 0..L
  BY <1>1, StartUpUnfolds DEF StartUp
<1>7. Len(StartUp) > 0
  BY <1>1, <1>4, <1>5, <1>6
<1>8. Len(StartUp) \in Nat
  BY <1>6
<1> QED BY <1>6, <1>7, <1>8

\* The steps of start-up that have a listener are steps.
LEMMA StepsTyped ==
  /\ Serving \in Nat /\ Serving > 1
  /\ Failed = Serving + 1 /\ Killed = Serving + 2
<1>1. Len(StartUp) \in Nat \ {0}
  BY StartUpBinds
<1> QED BY <1>1 DEF Serving, Failed, Killed

ConnRecord ==
    [state : {"none", "queued", "handshake", "open", "closed", "reset"},
     listener : Listener \cup {0}]

RelayState == {"none", "accepted", "connecting", "relaying", "client_done", "peer_done"}

LEMMA ConnTyped ==
  ASSUME ServeTypeOK, NEW c \in Client,
         NEW state \in {"none", "queued", "handshake", "open", "closed", "reset"},
         conn' = [conn EXCEPT ![c].state = state]
  PROVE  conn' \in [Client -> ConnRecord]
<1>1. conn \in [Client -> ConnRecord]
  BY DEF ServeTypeOK, ConnRecord
<1>2. [conn[c] EXCEPT !.state = state] \in ConnRecord
  BY <1>1 DEF ConnRecord
<1> QED BY <1>1, <1>2

\* Whatever is configured, and however start-up goes: each connection, relay
\* and step of the worker is in one of the states that Serve names.
THEOREM ServeTypeCorrect == ServeSpec => []ServeTypeOK
<1>1. ServeInit => ServeTypeOK
  <2> SUFFICES ASSUME ServeInit PROVE ServeTypeOK
    OBVIOUS
  <2>1. step \in 1..Killed
    BY StepsTyped DEF ServeInit
  <2>2. conn \in [Client -> ConnRecord]
    BY DEF ServeInit, NoConn, ConnRecord
  <2> QED BY <2>1, <2>2 DEF ServeInit, ServeTypeOK, ConnRecord
<1>2. ServeTypeOK /\ [ServeNext]_allVars => ServeTypeOK'
  <2> SUFFICES ASSUME ServeTypeOK, [ServeNext]_allVars PROVE ServeTypeOK'
    OBVIOUS
  <2>1. step \in 1..Killed /\ conn \in [Client -> ConnRecord]
          /\ relay \in [StreamClient -> RelayState]
    BY DEF ServeTypeOK, ConnRecord, RelayState
  <2>2. SUFFICES step' \in 1..Killed /\ conn' \in [Client -> ConnRecord]
                   /\ relay' \in [StreamClient -> RelayState]
    BY DEF ServeTypeOK, ConnRecord, RelayState
  <2>3. Request \subseteq Client /\ StreamClient \subseteq Client
    BY DEF Client
  <2>4. ASSUME NEW how \in {Failed, Killed}, Dies(how)
        PROVE  step' \in 1..Killed /\ conn' \in [Client -> ConnRecord]
                 /\ relay' \in [StreamClient -> RelayState]
    <3>1. ASSUME NEW c \in Client
          PROVE  conn[c] \in ConnRecord /\ [conn[c] EXCEPT !.state = "reset"] \in ConnRecord
      BY <2>1 DEF ConnRecord
    <3>2. conn' \in [Client -> ConnRecord]
      BY <2>4, <3>1 DEF Dies
    <3>3. relay' \in [StreamClient -> RelayState]
      BY <2>4 DEF Dies, RelayState
    <3> QED BY <2>4, <3>2, <3>3, StepsTyped DEF Dies
  <2>5. CASE StepDone
    BY <2>1, <2>5, StepsTyped DEF StepDone
  <2>6. CASE StepFails \/ Kill
    BY <2>4, <2>6 DEF StepFails, Kill
  <2>7. ASSUME NEW c \in Client, Accept(c)
        PROVE  step' = step /\ conn' \in [Client -> ConnRecord]
                 /\ relay' \in [StreamClient -> RelayState]
    <3>1. conn' \in [Client -> ConnRecord]
      BY <2>7, ConnTyped DEF Accept
    <3>2. relay' = relay \/ relay' = [relay EXCEPT ![c] = "accepted"]
      BY <2>7 DEF Accept
    <3>3. relay' \in [StreamClient -> RelayState]
      BY <2>1, <3>2 DEF RelayState
    <3> QED BY <2>7, <3>1, <3>3 DEF Accept
  <2>8. ASSUME NEW c \in Client, NEW l \in Listener, Connect(c, l)
        PROVE  step' = step /\ conn' \in [Client -> ConnRecord] /\ relay' = relay
    <3>1. [state |-> "queued", listener |-> l] \in ConnRecord
      BY DEF ConnRecord
    <3> QED BY <2>1, <2>8, <3>1 DEF Connect
  <2>9. ASSUME NEW r \in Request, Handshake(r) \/ LeaveIdle(r) \/ Http(r)
        PROVE  step' = step /\ conn' \in [Client -> ConnRecord] /\ relay' = relay
    <3>1. /\ step' = step /\ relay' = relay
          /\ conn' = conn \/ \E s \in {"open", "closed"} :
                               conn' = [conn EXCEPT ![r].state = s]
      <4>1. CASE Handshake(r)
        BY <4>1 DEF Handshake
      <4>2. CASE LeaveIdle(r)
        BY <4>2 DEF LeaveIdle
      <4>3. CASE Http(r)
        <5>1. CloseIfOver(r)
          BY <4>3 DEF Http, HttpArrive, HttpResume, HttpDeliver, HttpHangUp, HttpTunnel
        <5> QED BY <5>1 DEF CloseIfOver
      <4> QED BY <2>9, <4>1, <4>2, <4>3
    <3> QED BY <2>1, <2>3, <3>1, ConnTyped
  <2>10. ASSUME NEW c \in StreamClient, Relay(c)
         PROVE  step' = step /\ conn' \in [Client -> ConnRecord]
                  /\ relay' \in [StreamClient -> RelayState]
    <3>1. /\ step' = step
          /\ \/ conn' = conn
             \/ conn' = [conn EXCEPT ![c].state = "closed"]
          /\ \E s \in RelayState : relay' = [relay EXCEPT ![c] = s]
      BY <2>10 DEF Relay, RelayConnect, RelayConnected, RelayClientEnds, RelayPeerEnds,
                   RelayBreaks, Drop, RelayState
    <3> QED BY <2>1, <2>3, <3>1, ConnTyped
  <2>11. CASE UNCHANGED allVars
    BY <2>1, <2>11 DEF allVars, serveVars
  <2> QED BY <2>1, <2>5, <2>4, <2>6, <2>7, <2>8, <2>9, <2>10, <2>11 DEF ServeNext
<1> QED BY <1>1, <1>2, PTL DEF ServeSpec

-----------------------------------------------------------------------------
(* What a worker holds, and for whom.                                       *)

Relaying == {"relaying", "client_done", "peer_done"}

\* A request, by its pc, its tunnel, the state of its connection and the step
\* of the worker.  While the connection is open a tunnel belongs to a request
\* that is answered; once the worker has ended there is neither.
HeldRequest(pc, t, state, at) ==
    /\ pc \in AtAwait \cup {"answered"} => state = "open"
    /\ pc \in AtAwait \cup {"idle"} => t = "none"
    /\ t \in Relaying => state = "open" /\ pc \in {"delivered", "gone"}
    /\ t = "upgrading" =>
         \/ pc = "gone" /\ state = "closed"
         \/ pc \in {"answered", "delivered"} /\ state = "open"
    /\ t = "closed" => pc \in {"delivered", "gone"}
    /\ pc # "idle" => state \in {"open", "closed", "reset"}
    /\ pc = "delivered" => state \in {"open", "closed"}
    /\ at # Serving => state \notin {"handshake", "open"} /\ t \in {"none", "closed"}

\* A stream: its relay goes with its connection.
HeldRelay(task, state, at) ==
    /\ task # "none" => state \in {"handshake", "open"}
    /\ at # Serving => state \notin {"handshake", "open"}

HeldInv ==
    /\ \A r \in Request : HeldRequest(req[r].pc, tunnel[r], conn[r].state, step)
    /\ \A c \in StreamClient : HeldRelay(relay[c], conn[c].state, step)

LEMMA HeldNext ==
  ASSUME \A r \in Request : HeldRequest(req'[r].pc, tunnel'[r], conn'[r].state, step'),
         \A c \in StreamClient : HeldRelay(relay'[c], conn'[c].state, step')
  PROVE  HeldInv'
BY Zenon DEF HeldInv, HeldRequest, HeldRelay, Serving, StartUp, StartUpOf, ServerSteps, Bind

\* A step that is about one HTTP client.
LEMMA OneRequestHeld ==
  ASSUME HeldInv, NEW r \in Request, step' = step, relay' = relay,
         \A q \in Client \ {r} : conn'[q] = conn[q],
         \A q \in Request \ {r} : req'[q] = req[q] /\ tunnel'[q] = tunnel[q],
         HeldRequest(req'[r].pc, tunnel'[r], conn'[r].state, step)
  PROVE  HeldInv'
<1>1. ASSUME NEW q \in Request
      PROVE  HeldRequest(req'[q].pc, tunnel'[q], conn'[q].state, step')
  <2>1. CASE q = r
    BY <2>1
  <2>2. CASE q # r
    <3>1. req'[q] = req[q] /\ tunnel'[q] = tunnel[q] /\ conn'[q] = conn[q]
      BY <2>2 DEF Client
    <3> QED BY <3>1 DEF HeldInv
  <2> QED BY <2>1, <2>2
<1>2. ASSUME NEW c \in StreamClient
      PROVE  HeldRelay(relay'[c], conn'[c].state, step')
  <2>1. c \in Client \ {r}
    BY ServeAssumption DEF Client
  <2> QED BY <2>1 DEF HeldInv
<1> QED BY <1>1, <1>2, HeldNext

\* A step that is about one client of a stream.
LEMMA OneRelayHeld ==
  ASSUME HeldInv, NEW c \in StreamClient, step' = step, UNCHANGED httpVars,
         \A q \in Client \ {c} : conn'[q] = conn[q],
         \A q \in StreamClient \ {c} : relay'[q] = relay[q],
         HeldRelay(relay'[c], conn'[c].state, step)
  PROVE  HeldInv'
<1>1. ASSUME NEW q \in Request
      PROVE  HeldRequest(req'[q].pc, tunnel'[q], conn'[q].state, step')
  <2>1. q \in Client \ {c}
    BY ServeAssumption DEF Client
  <2> QED BY <2>1 DEF HeldInv, httpVars
<1>2. ASSUME NEW q \in StreamClient
      PROVE  HeldRelay(relay'[q], conn'[q].state, step')
  <2>1. CASE q = c
    BY <2>1
  <2>2. CASE q # c
    BY <2>2 DEF HeldInv, Client
  <2> QED BY <2>1, <2>2
<1> QED BY <1>1, <1>2, HeldNext

\* A handler ends or goes on: its request is the only one that changes.
LEMMA FinishAt ==
  ASSUME HttpTypeOK, NEW r \in Request, NEW q, "pc" \in DOMAIN q, NEW status,
         Finish(r, q, status)
  PROVE  req' = [req EXCEPT ![r] = req'[r]] /\ req'[r].pc = "answered"
BY DEF Finish, HttpTypeOK

LEMMA AwaitAt ==
  ASSUME HttpTypeOK, NEW r \in Request, NEW q, "pc" \in DOMAIN q, NEW pc, Await(r, q, pc)
  PROVE  /\ req' = [req EXCEPT ![r] = req'[r]] /\ req'[r].pc = pc
         /\ "index" \in DOMAIN q => req'[r].index = q.index
BY DEF Await, HttpTypeOK

LEMMA ArriveGoes ==
  ASSUME HttpTypeOK, NEW r \in Request, Arrive(r)
  PROVE  /\ req' = [req EXCEPT ![r] = req'[r]]
         /\ req'[r].pc \in {"pool", "buffering", "resolving", "stat", "answered"}
<1>1. PICK s \in Site, p \in Path : \E q \in Requests(s, p) : Dispatch(r, q)
  BY DEF Arrive
<1>2. PICK q \in Requests(s, p) : Dispatch(r, q)
  BY <1>1
<1>3. "pc" \in DOMAIN q
  BY DEF Requests, NewRequest
<1>4. \/ \E status : Finish(r, q, status)
      \/ \E pc \in {"pool", "buffering", "resolving", "stat"} : Await(r, q, pc)
  <2>1. CASE ServeFile(r, q)
    BY <2>1 DEF ServeFile
  <2>2. CASE ~ServeFile(r, q)
    BY <1>2, <2>2, SMT DEF Dispatch
  <2> QED BY <2>1, <2>2
<1>5. CASE \E status : Finish(r, q, status)
  BY <1>3, <1>5, FinishAt
<1>6. CASE \E pc \in {"pool", "buffering", "resolving", "stat"} : Await(r, q, pc)
  BY <1>3, <1>6, AwaitAt
<1> QED BY <1>4, <1>5, <1>6

\* A handler that is resumed was at an await, and has fewer before it now; it
\* leaves the tunnel alone but for the end of a CONNECT.
LEMMA ResumeGoes ==
  ASSUME HttpTypeOK, NEW r \in Request, Resume(r)
  PROVE  /\ req' = [req EXCEPT ![r] = req'[r]] /\ req[r].pc \in AtAwait
         /\ req'[r].pc \in AtAwait \cup {"answered"}
         /\ req'[r].pc = "connecting" => req[r].pc = "resolving"
         /\ \/ tunnel' = tunnel /\ req[r].pc # "connecting"
            \/ tunnel' = tunnel /\ req[r].pc = "connecting" /\ req'[r].pc = "answered"
            \/ /\ tunnel' = [tunnel EXCEPT ![r] = "upgrading"]
               /\ req[r].pc = "connecting" /\ req'[r].pc = "answered"
         /\ AwaitsLeft(req'[r]) < AwaitsLeft(req[r])
<1> DEFINE q == req[r]
           Goal == /\ req' = [req EXCEPT ![r] = req'[r]] /\ q.pc \in AtAwait
                   /\ req'[r].pc \in AtAwait \cup {"answered"}
                   /\ req'[r].pc = "connecting" => q.pc = "resolving"
                   /\ \/ tunnel' = tunnel /\ q.pc # "connecting"
                      \/ tunnel' = tunnel /\ q.pc = "connecting" /\ req'[r].pc = "answered"
                      \/ /\ tunnel' = [tunnel EXCEPT ![r] = "upgrading"]
                         /\ q.pc = "connecting" /\ req'[r].pc = "answered"
                   /\ AwaitsLeft(req'[r]) < AwaitsLeft(q)
<1>1. /\ q \in RequestRecord /\ "pc" \in DOMAIN q /\ "index" \in DOMAIN q
      /\ q.index \in Nat /\ q.index <= IndexFiles /\ IndexFiles \in Nat
  BY HttpAssumption DEF HttpTypeOK, RequestRecord
<1>2. ASSUME q.pc \in AtAwait PROVE AwaitsLeft(q) >= 1 /\ AwaitsLeft(q) \in Nat
  BY <1>1, <1>2 DEF AtAwait, AwaitsLeft
<1>3. ASSUME q.pc \in AtAwait, q.pc # "connecting", tunnel' = tunnel,
             \E x, status : "pc" \in DOMAIN x /\ Finish(r, x, status)
      PROVE  Goal
  <2>1. req' = [req EXCEPT ![r] = req'[r]] /\ req'[r].pc = "answered"
    BY <1>3, FinishAt
  <2>2. AwaitsLeft(req'[r]) = 0
    BY <2>1 DEF AwaitsLeft
  <2> QED BY <1>2, <1>3, <2>1, <2>2
<1>4. ASSUME q.pc \in AtAwait, q.pc # "connecting", tunnel' = tunnel,
             NEW pc \in AtAwait \ {"connecting", "index"}, Await(r, q, pc),
             AwaitsLeft([q EXCEPT !.pc = pc]) < AwaitsLeft(q)
      PROVE  Goal
  <2>1. req' = [req EXCEPT ![r] = req'[r]] /\ req'[r].pc = pc /\ req'[r] = [q EXCEPT !.pc = pc]
    BY <1>1, <1>4, AwaitAt DEF Await, HttpTypeOK
  <2> QED BY <1>4, <2>1
<1>5. ASSUME NEW k \in Nat, TryIndex(r, k), q.pc \in AtAwait, q.pc # "connecting",
             tunnel' = tunnel, IndexFiles + 2 - k < AwaitsLeft(q)
      PROVE  Goal
  <2>1. CASE k > IndexFiles
    BY <1>1, <1>3, <1>5, <2>1 DEF TryIndex
  <2>2. CASE ~(k > IndexFiles)
    <3>1. Await(r, [q EXCEPT !.index = k], "index")
      BY <1>5, <2>2 DEF TryIndex
    <3>2. /\ "pc" \in DOMAIN [q EXCEPT !.index = k] /\ "index" \in DOMAIN [q EXCEPT !.index = k]
          /\ [q EXCEPT !.index = k].index = k
      BY <1>1
    <3>3. req' = [req EXCEPT ![r] = req'[r]] /\ req'[r].pc = "index" /\ req'[r].index = k
      BY <3>1, <3>2, AwaitAt
    <3>4. AwaitsLeft(req'[r]) = IndexFiles + 2 - k
      BY <3>3 DEF AwaitsLeft
    <3> QED BY <1>5, <3>3, <3>4 DEF AtAwait
  <2> QED BY <2>1, <2>2
<1>6. ASSUME NEW pc PROVE "pc" \in DOMAIN [q EXCEPT !.pc = pc] /\ [q EXCEPT !.pc = pc].pc = pc
                          /\ "pc" \in DOMAIN [q EXCEPT !.failed = TRUE]
                          /\ "pc" \in DOMAIN [q EXCEPT !.said = pc]
  BY <1>1
<1>7. ASSUME NotReceived(r) \/ NoReply(r) PROVE Goal
  <2>1. q.pc \in AtAwait /\ tunnel' = tunnel /\ \E x, status : "pc" \in DOMAIN x /\ Finish(r, x, status)
    BY <1>1, <1>6, <1>7 DEF NotReceived, NoReply, AtAwait
  <2>2. CASE q.pc # "connecting"
    BY <1>3, <2>1, <2>2
  <2>3. CASE q.pc = "connecting"
    <3>1. req' = [req EXCEPT ![r] = req'[r]] /\ req'[r].pc = "answered"
      BY <2>1, FinishAt
    <3>2. AwaitsLeft(req'[r]) = 0
      BY <3>1 DEF AwaitsLeft
    <3> QED BY <1>2, <2>1, <2>3, <3>1, <3>2
  <2> QED BY <2>2, <2>3
<1>8. ASSUME Resolved(r) PROVE Goal
  <2>1. q.pc = "resolving" /\ q.pc \in AtAwait /\ tunnel' = tunnel
    BY <1>8 DEF Resolved, AtAwait
  <2>2. PICK pc \in {"connecting", "buffering"} : Await(r, q, pc)
    BY <1>8 DEF Resolved
  <2>3. req' = [req EXCEPT ![r] = req'[r]] /\ req'[r].pc = pc
    BY <1>1, <2>2, AwaitAt
  <2>4. AwaitsLeft(req'[r]) = 2 /\ AwaitsLeft(q) = 3
    BY <2>1, <2>3 DEF AwaitsLeft
  <2> QED BY <2>1, <2>3, <2>4 DEF AtAwait
<1>9. ASSUME BodyBuffered(r) PROVE Goal
  <2>1. q.pc = "buffering" /\ q.pc \in AtAwait /\ tunnel' = tunnel
    BY <1>9 DEF BodyBuffered, AtAwait
  <2>2. Await(r, q, "asking") \/ Finish(r, q, 502)
    BY <1>9 DEF BodyBuffered
  <2>3. AwaitsLeft([q EXCEPT !.pc = "asking"]) = 1 /\ AwaitsLeft(q) = 2
    BY <1>6, <2>1 DEF AwaitsLeft
  <2> QED BY <1>1, <1>3, <1>4, <2>1, <2>2, <2>3 DEF AtAwait
<1>10. ASSUME PeerAnswers(r) \/ Read(r) PROVE Goal
  <2>2. \A s : "pc" \in DOMAIN [q EXCEPT !.said = s]
    BY <1>6, Zenon
  <2>1. /\ q.pc \in {"pool", "asking", "reading"} /\ tunnel' = tunnel
        /\ \E x, status : "pc" \in DOMAIN x /\ Finish(r, x, status)
    <3>1. CASE PeerAnswers(r)
      <4>1. PICK s \in Status :
              Finish(r, [q EXCEPT !.said = s], IF peer_failure_status(s) THEN 502 ELSE s)
        BY <3>1 DEF PeerAnswers
      <4> HIDE DEF q
      <4>2. \E x, status : "pc" \in DOMAIN x /\ Finish(r, x, status)
        BY <2>2, <4>1, Zenon
      <4> QED BY <3>1, <4>2 DEF PeerAnswers, q
    <3>2. CASE Read(r)
      BY <1>1, <3>2 DEF Read
    <3> QED BY <1>10, <3>1, <3>2
  <2> QED BY <1>1, <1>3, <2>1 DEF AtAwait
<1>11. ASSUME Connected(r) PROVE Goal
  <2>1. /\ q.pc = "connecting" /\ q.pc \in AtAwait /\ Finish(r, q, 200)
        /\ tunnel' = [tunnel EXCEPT ![r] = "upgrading"]
    BY <1>11 DEF Connected, AtAwait
  <2>2. req' = [req EXCEPT ![r] = req'[r]] /\ req'[r].pc = "answered"
    BY <1>1, <2>1, FinishAt
  <2>3. AwaitsLeft(req'[r]) = 0
    BY <2>2 DEF AwaitsLeft
  <2> QED BY <1>2, <2>1, <2>2, <2>3
<1>12. ASSUME Stat(r) PROVE Goal
  <2>1. q.pc = "stat" /\ q.pc \in AtAwait /\ tunnel' = tunnel /\ AwaitsLeft(q) = IndexFiles + 2
    BY <1>12 DEF Stat, AtAwait, AwaitsLeft
  <2>2. Await(r, q, "reading") \/ TryIndex(r, 1) \/ Finish(r, q, 404)
    BY <1>12 DEF Stat
  <2>3. AwaitsLeft([q EXCEPT !.pc = "reading"]) = 1
    BY <1>6 DEF AwaitsLeft
  <2> QED BY <1>1, <1>3, <1>4, <1>5, <2>1, <2>2, <2>3 DEF AtAwait
<1>13. ASSUME StatIndex(r) PROVE Goal
  <2>1. q.pc = "index" /\ q.pc \in AtAwait /\ tunnel' = tunnel /\ AwaitsLeft(q) = IndexFiles + 2 - q.index
    BY <1>13 DEF StatIndex, AtAwait, AwaitsLeft
  <2>2. Await(r, q, "reading") \/ TryIndex(r, q.index + 1)
    BY <1>13 DEF StatIndex
  <2>3. AwaitsLeft([q EXCEPT !.pc = "reading"]) = 1
    BY <1>6 DEF AwaitsLeft
  <2> QED BY <1>1, <1>4, <1>5, <2>1, <2>2, <2>3 DEF AtAwait
<1> HIDE DEF q, Goal
<1>14. Goal
  BY <1>7, <1>8, <1>9, <1>10, <1>11, <1>12, <1>13 DEF Resume
<1> QED BY <1>14 DEF q, Goal

\* What a step of the handler or of the tunnel of r does to its connection
\* and to the others.
LEMMA OthersStay ==
  ASSUME HttpTypeOK, ServeTypeOK, NEW r \in Request, Http(r)
  PROVE  /\ step' = step /\ relay' = relay
         /\ \A q \in Client \ {r} : conn'[q] = conn[q]
         /\ conn'[r].state = IF Over(r) THEN "closed" ELSE conn[r].state
         /\ \A q \in Request \ {r} : req'[q] = req[q] /\ tunnel'[q] = tunnel[q]
<1>1. CloseIfOver(r)
  BY DEF Http, HttpArrive, HttpResume, HttpDeliver, HttpHangUp, HttpTunnel
<1>2. conn \in [Client -> ConnRecord] /\ r \in Client
  BY DEF ServeTypeOK, ConnRecord, Client
<1>3. /\ step' = step /\ relay' = relay
      /\ \A q \in Client \ {r} : conn'[q] = conn[q]
      /\ conn'[r].state = IF Over(r) THEN "closed" ELSE conn[r].state
  <2>1. CASE Over(r)
    BY <1>1, <1>2, <2>1 DEF CloseIfOver, ConnRecord
  <2>2. CASE ~Over(r)
    BY <1>1, <2>2 DEF CloseIfOver
  <2> QED BY <2>1, <2>2
<1>4. DOMAIN req = Request /\ DOMAIN tunnel = Request
  BY DEF HttpTypeOK
<1>5. /\ req' = req \/ \E q : req' = [req EXCEPT ![r] = q]
      /\ tunnel' = tunnel \/ \E t : tunnel' = [tunnel EXCEPT ![r] = t]
  <2>1. CASE Arrive(r)
    BY <2>1, ArriveGoes DEF Arrive
  <2>2. CASE Resume(r)
    BY <2>2, ResumeGoes
  <2>3. CASE Deliver(r) \/ HangUp(r)
    BY <2>3 DEF Deliver, HangUp
  <2>4. CASE Tunnel(r)
    BY <2>4 DEF Tunnel, UpgradeEnds, ClientEnds, PeerEnds, TunnelBreaks
  <2> QED BY <2>1, <2>2, <2>3, <2>4
          DEF Http, HttpArrive, HttpResume, HttpDeliver, HttpHangUp, HttpTunnel
<1>6. \A q \in Request \ {r} : req'[q] = req[q] /\ tunnel'[q] = tunnel[q]
  BY <1>4, <1>5
<1> QED BY <1>3, <1>6

LEMMA HttpHeld ==
  ASSUME HeldInv, HttpTypeOK, ServeTypeOK, NEW r \in Request, Http(r)
  PROVE  HeldInv'
<1> DEFINE pc == req[r].pc
           t == tunnel[r]
           s == conn[r].state
           pcN == req'[r].pc
           tN == tunnel'[r]
           sN == conn'[r].state
<1>1. HeldRequest(pc, t, s, step)
  BY DEF HeldInv
<1>2. t \in {"none", "upgrading", "relaying", "client_done", "peer_done", "closed"}
  BY DEF HttpTypeOK
<1>3. DOMAIN req = Request /\ DOMAIN tunnel = Request /\ "pc" \in DOMAIN req[r]
  BY DEF HttpTypeOK
<1>4. /\ Over(r) <=> \/ pcN = "gone" /\ tN \in {"none", "upgrading", "closed"}
                     \/ t # "none" /\ tN = "closed"
      /\ sN = IF Over(r) THEN "closed" ELSE s
  BY OthersStay DEF Over
<1>6. HeldRequest(pcN, tN, sN, step)
  <2>1. CASE HttpArrive(r)
    <3>1. s = "open" /\ t = "none" /\ tN = "none" /\ pcN \in AtAwait \cup {"answered"}
      BY <1>3, <2>1, ArriveGoes DEF HttpArrive, Arrive, AtAwait
    <3> HIDE DEF pc, t, s, pcN, tN, sN
    <3> QED BY <1>1, <1>4, <3>1 DEF HeldRequest, AtAwait, Relaying
  <2>2. CASE HttpResume(r)
    <3>1. /\ pc \in AtAwait /\ pcN \in AtAwait \cup {"answered"}
          /\ tN = t \/ (tN = "upgrading" /\ pcN = "answered")
      BY <1>3, <2>2, ResumeGoes DEF HttpResume
    <3> HIDE DEF pc, t, s, pcN, tN, sN
    <3> QED BY <1>1, <1>2, <1>4, <3>1 DEF HeldRequest, AtAwait, Relaying
  <2>3. CASE HttpDeliver(r)
    <3>1. pc = "answered" /\ pcN = "delivered" /\ tN = t
      BY <1>3, <2>3 DEF HttpDeliver, Deliver
    <3> HIDE DEF pc, t, s, pcN, tN, sN
    <3> QED BY <1>1, <1>2, <1>4, <3>1 DEF HeldRequest, AtAwait, Relaying
  <2>4. CASE HttpHangUp(r)
    <3>1. pc \in AtAwait \cup {"answered", "delivered"} /\ pcN = "gone" /\ tN = t
      BY <1>3, <2>4 DEF HttpHangUp, HangUp
    <3> HIDE DEF pc, t, s, pcN, tN, sN
    <3> QED BY <1>1, <1>2, <1>4, <3>1 DEF HeldRequest, AtAwait, Relaying
  <2>5. CASE HttpTunnel(r)
    <3>1. /\ pcN = pc
          /\ \/ t = "upgrading" /\ pc = "delivered" /\ tN = "relaying"
             \/ t = "upgrading" /\ pc = "gone" /\ tN = "closed"
             \/ t \in Relaying /\ tN \in {"client_done", "peer_done", "closed"}
      BY <1>3, <2>5
      DEF HttpTunnel, Tunnel, UpgradeEnds, ClientEnds, PeerEnds, TunnelBreaks, Relaying
    <3> HIDE DEF pc, t, s, pcN, tN, sN
    <3> QED BY <1>1, <1>2, <1>4, <3>1 DEF HeldRequest, AtAwait, Relaying
  <2> QED BY <2>1, <2>2, <2>3, <2>4, <2>5 DEF Http
<1> QED BY <1>6, OthersStay, OneRequestHeld

LEMMA DiesHeld ==
  ASSUME HeldInv, HttpTypeOK, ServeTypeOK, NEW how, Dies(how)
  PROVE  HeldInv'
<1>1. ASSUME NEW c \in Client
      PROVE  conn'[c].state = IF conn[c].state \in {"queued", "handshake", "open"}
                                THEN "reset" ELSE conn[c].state
  <2>1. conn \in [Client -> ConnRecord]
    BY DEF ServeTypeOK, ConnRecord
  <2> QED BY <2>1 DEF Dies, Accepted, ConnRecord
<1>2. ASSUME NEW r \in Request
      PROVE  HeldRequest(req'[r].pc, tunnel'[r], conn'[r].state, step')
  <2>1. HeldRequest(req[r].pc, tunnel[r], conn[r].state, step)
    BY DEF HeldInv
  <2>2. req'[r].pc = IF req[r].pc = "idle" THEN "idle" ELSE "gone"
    BY DEF Dies, HttpTypeOK
  <2>3. tunnel'[r] = IF tunnel[r] = "none" THEN "none" ELSE "closed"
    BY DEF Dies
  <2>4. conn'[r].state = IF conn[r].state \in {"queued", "handshake", "open"}
                           THEN "reset" ELSE conn[r].state
    BY <1>1 DEF Client
  <2> QED BY <2>1, <2>2, <2>3, <2>4 DEF HeldRequest, AtAwait, Relaying
<1>3. ASSUME NEW c \in StreamClient
      PROVE  HeldRelay(relay'[c], conn'[c].state, step')
  <2>1. relay'[c] = "none" /\ c \in Client
    BY DEF Dies, Client
  <2> QED BY <1>1, <2>1 DEF HeldRelay
<1> QED BY <1>2, <1>3, HeldNext

\* The steps of run(), of the kernel, and of relay_tcp.
LEMMA ConnectionsHeld ==
  ASSUME HeldInv, ServeTypeOK,
         \/ \E c \in Client : Accept(c) \/ \E l \in Listener : Connect(c, l)
         \/ \E r \in Request : Handshake(r) \/ LeaveIdle(r)
         \/ \E c \in StreamClient : Relay(c)
  PROVE  HeldInv'
<1>0. /\ conn \in [Client -> ConnRecord] /\ Request \subseteq Client
      /\ StreamClient \subseteq Client /\ relay \in [StreamClient -> RelayState]
  BY DEF ServeTypeOK, ConnRecord, Client, RelayState
<1>a. UNCHANGED httpVars /\ step' = step
  BY DEF Accept, Connect, Handshake, LeaveIdle, Relay, RelayConnect, RelayConnected,
         RelayClientEnds, RelayPeerEnds, RelayBreaks
<1>1. ASSUME NEW r \in Request, NEW state, relay' = relay,
             \/ \E l : conn' = [conn EXCEPT ![r] = [state |-> state, listener |-> l]]
             \/ conn' = [conn EXCEPT ![r].state = state],
             HeldRequest(req[r].pc, tunnel[r], state, step)
      PROVE  HeldInv'
  <2>1. conn'[r].state = state /\ \A q \in Client \ {r} : conn'[q] = conn[q]
    BY <1>0, <1>1 DEF ConnRecord
  <2> QED BY <1>1, <1>a, <2>1, OneRequestHeld DEF httpVars
<1>2. ASSUME NEW c \in StreamClient, NEW task, NEW state,
             \/ relay' = relay /\ relay[c] = task
             \/ relay' = [relay EXCEPT ![c] = task],
             \/ conn' = conn /\ conn[c].state = state
             \/ \E l : conn' = [conn EXCEPT ![c] = [state |-> state, listener |-> l]]
             \/ conn' = [conn EXCEPT ![c].state = state],
             HeldRelay(task, state, step)
      PROVE  HeldInv'
  <2>1. conn'[c].state = state /\ \A q \in Client \ {c} : conn'[q] = conn[q]
    BY <1>0, <1>2 DEF ConnRecord
  <2>2. relay'[c] = task /\ \A q \in StreamClient \ {c} : relay'[q] = relay[q]
    BY <1>0, <1>2
  <2> QED BY <1>2, <1>a, <2>1, <2>2, OneRelayHeld
<1>3. \A r \in Request : HeldRequest(req[r].pc, tunnel[r], conn[r].state, step)
  BY DEF HeldInv
<1>4. \A c \in StreamClient : HeldRelay(relay[c], conn[c].state, step)
  BY DEF HeldInv
<1>5. ASSUME NEW r \in Request, Handshake(r) \/ LeaveIdle(r) PROVE HeldInv'
  <2>1. PICK state \in {"open", "closed"} : conn' = [conn EXCEPT ![r].state = state]
    BY <1>5 DEF Handshake, LeaveIdle
  <2>2. \/ conn[r].state = "handshake"
        \/ state = "closed" /\ req[r].pc = "idle"
    <3>1. CASE LeaveIdle(r)
      <4>1. conn'[r].state = "closed" /\ conn'[r].state = state
        BY <1>0, <2>1, <3>1 DEF LeaveIdle, ConnRecord
      <4> QED BY <3>1, <4>1 DEF LeaveIdle
    <3>2. CASE Handshake(r)
      BY <3>2 DEF Handshake
    <3> QED BY <1>5, <3>1, <3>2
  <2>3. HeldRequest(req[r].pc, tunnel[r], state, step)
    BY <1>3, <2>2 DEF HeldRequest, AtAwait, Relaying
  <2>4. relay' = relay
    BY <1>5 DEF Handshake, LeaveIdle
  <2> QED BY <1>1, <2>1, <2>3, <2>4
<1>6. ASSUME NEW c \in Client, NEW l \in Listener, Connect(c, l) PROVE HeldInv'
  <2>1. /\ conn[c].state = "none" /\ relay' = relay
        /\ conn' = [conn EXCEPT ![c] = [state |-> "queued", listener |-> l]]
    BY <1>6 DEF Connect
  <2>2. CASE c \in Request
    <3>1. HeldRequest(req[c].pc, tunnel[c], "queued", step)
      BY <1>3, <2>1, <2>2 DEF HeldRequest, AtAwait, Relaying
    <3> QED BY <1>1, <2>1, <2>2, <3>1
  <2>3. CASE c \in StreamClient
    <3>1. HeldRelay(relay[c], "queued", step)
      BY <1>4, <2>1, <2>3 DEF HeldRelay
    <3> QED BY <1>2, <2>1, <2>3, <3>1
  <2> QED BY <2>2, <2>3 DEF Client
<1>7. ASSUME NEW c \in Client, Accept(c) PROVE HeldInv'
  <2>1. PICK state \in {"handshake", "open"} : conn' = [conn EXCEPT ![c].state = state]
    BY <1>7 DEF Accept
  <2>2. conn[c].state = "queued" /\ step = Serving
    BY <1>7 DEF Accept
  <2>3. CASE c \in Request
    <3>1. HeldRequest(req[c].pc, tunnel[c], state, step)
      BY <1>3, <2>2, <2>3 DEF HeldRequest, AtAwait, Relaying
    <3>2. relay' = relay
      BY <1>7, <2>3, ServeAssumption DEF Accept
    <3> QED BY <1>1, <2>1, <2>3, <3>1, <3>2
  <2>4. CASE c \in StreamClient
    <3>1. HeldRelay("accepted", state, step)
      BY <2>2 DEF HeldRelay
    <3>2. relay' = [relay EXCEPT ![c] = "accepted"]
      BY <1>7, <2>4 DEF Accept
    <3> QED BY <1>2, <2>1, <2>4, <3>1, <3>2
  <2> QED BY <2>3, <2>4 DEF Client
<1>8. ASSUME NEW c \in StreamClient, Relay(c) PROVE HeldInv'
  <2>1. CASE Drop(c)
    <3>1. HeldRelay("none", "closed", step)
      BY DEF HeldRelay
    <3> QED BY <1>2, <2>1, <3>1 DEF Drop
  <2>2. ASSUME ~Drop(c) PROVE HeldInv'
    <3>1. /\ relay[c] # "none" /\ conn' = conn
          /\ \E task : relay' = [relay EXCEPT ![c] = task]
      BY <1>8, <2>2 DEF Relay, RelayConnect, RelayConnected, RelayClientEnds, RelayPeerEnds,
                        RelayBreaks
    <3>2. PICK task : relay' = [relay EXCEPT ![c] = task]
      BY <3>1
    <3>3. HeldRelay(task, conn[c].state, step)
      BY <1>4, <3>1 DEF HeldRelay
    <3> QED BY <1>2, <3>1, <3>2, <3>3
  <2> QED BY <2>1, <2>2
<1> QED BY <1>5, <1>6, <1>7, <1>8

LEMMA HeldCorrect == ServeSpec => []HeldInv
<1>1. ServeInit => HeldInv
  BY DEF ServeInit, HttpInit, NewRequest, NoConn, HeldInv, HeldRequest, HeldRelay,
         AtAwait, Relaying, Client
<1>2. HeldInv /\ HttpTypeOK /\ ServeTypeOK /\ [ServeNext]_allVars => HeldInv'
  <2> SUFFICES ASSUME HeldInv, HttpTypeOK, ServeTypeOK, [ServeNext]_allVars
               PROVE  HeldInv'
    OBVIOUS
  <2>1. CASE StepFails \/ Kill
    BY <2>1, DiesHeld DEF StepFails, Kill
  <2>2. CASE StepDone
    <3>1. /\ step # Serving /\ req' = req /\ tunnel' = tunnel /\ conn' = conn /\ relay' = relay
      BY <2>2, StepsTyped DEF StepDone, httpVars, ServeTypeOK
    <3>2. \A r \in Request : HeldRequest(req[r].pc, tunnel[r], conn[r].state, step')
      BY <3>1 DEF HeldInv, HeldRequest
    <3>3. \A c \in StreamClient : HeldRelay(relay[c], conn[c].state, step')
      BY <3>1 DEF HeldInv, HeldRelay
    <3> QED BY <3>1, <3>2, <3>3, HeldNext
  <2>3. ASSUME NEW r \in Request, Http(r) PROVE HeldInv'
    BY <2>3, HttpHeld
  <2>4. CASE UNCHANGED allVars
    <3>1. req' = req /\ tunnel' = tunnel /\ conn' = conn /\ relay' = relay /\ step' = step
      BY <2>4 DEF allVars, serveVars, httpVars
    <3> QED BY <3>1, HeldNext DEF HeldInv
  <2> QED BY <2>1, <2>2, <2>3, <2>4, ConnectionsHeld DEF ServeNext
<1> QED BY <1>1, <1>2, HttpTypeCorrect, ServeTypeCorrect, PTL DEF ServeSpec

\* HeldForClients for every number of clients, servers and descriptors.
THEOREM NothingOutlivesItsClient == ServeSpec => []HeldForClients
<1>1. HeldInv /\ HttpTypeOK /\ ServeTypeOK => HeldForClients
  <2> SUFFICES ASSUME HeldInv, HttpTypeOK, ServeTypeOK PROVE HeldForClients
    OBVIOUS
  <2>1. ASSUME NEW r \in Request
        PROVE  /\ req[r].pc \in AtAwait \cup {"answered"} => conn[r].state = "open"
               /\ HasPeer(r) => Accepted(r) \/ (tunnel[r] = "upgrading" /\ req[r].pc = "gone")
               /\ step # Serving => ~Accepted(r) /\ ~HasPeer(r)
    <3>1. HeldRequest(req[r].pc, tunnel[r], conn[r].state, step)
      BY DEF HeldInv
    <3>2. r \notin StreamClient
      BY ServeAssumption
    <3>3. tunnel[r] \in {"none", "upgrading", "relaying", "client_done", "peer_done", "closed"}
      BY DEF HttpTypeOK
    <3> QED BY <3>1, <3>2, <3>3 DEF HeldRequest, HasPeer, Accepted, AtAwait, Relaying
  <2>2. ASSUME NEW c \in StreamClient
        PROVE  /\ HasPeer(c) => Accepted(c)
               /\ step # Serving => ~Accepted(c) /\ ~HasPeer(c)
    BY DEF HeldInv, HeldRelay, HasPeer, Accepted
  <2> QED BY <2>1, <2>2 DEF HeldForClients, Client
<1> QED BY <1>1, HeldCorrect, HttpTypeCorrect, ServeTypeCorrect, PTL

-----------------------------------------------------------------------------
(* What handlers and clients may do next.                                   *)

\* AwaitsRunOut in a worker: whatever becomes of the client, the connection or
\* the process, a handler that is at an await has fewer before it afterwards.
THEOREM HandlersNeverTurnBack == ServeSpec => AwaitsRunOut
<1> DEFINE Shorter(r) == (req[r].pc \in AtAwait /\ req'[r] # req[r])
                            => AwaitsLeft(req'[r]) < AwaitsLeft(req[r])
<1>1. ASSUME HttpTypeOK, NEW r \in Request, req[r].pc \in AtAwait, req'[r].pc = "gone"
      PROVE  AwaitsLeft(req'[r]) < AwaitsLeft(req[r])
  <2>1. AwaitsLeft(req'[r]) = 0
    BY <1>1 DEF AwaitsLeft
  <2>2. AwaitsLeft(req[r]) \in Nat \ {0}
    BY <1>1, HttpAssumption DEF HttpTypeOK, AwaitsLeft, AtAwait
  <2> QED BY <2>1, <2>2
<1>2. ASSUME HttpTypeOK, ServeTypeOK, NEW q \in Request, Http(q), NEW r \in Request
      PROVE  Shorter(r)
  <2>1. CASE r # q
    BY <1>2, <2>1, OthersStay
  <2>2. CASE r = q /\ Resume(q)
    BY <2>2, <1>2, ResumeGoes
  <2>3. CASE r = q /\ HangUp(q)
    <3>1. req'[r].pc = "gone"
      BY <2>3, <1>2 DEF HangUp, HttpTypeOK
    <3> QED BY <1>1, <1>2, <3>1
  <2>4. CASE r = q /\ (Arrive(q) \/ Deliver(q))
    BY <2>4 DEF Arrive, Deliver, AtAwait
  <2>5. CASE r = q /\ Tunnel(q)
    BY <2>5 DEF Tunnel, UpgradeEnds, ClientEnds, PeerEnds, TunnelBreaks
  <2> QED BY <1>2, <2>1, <2>2, <2>3, <2>4, <2>5
          DEF Http, HttpArrive, HttpResume, HttpDeliver, HttpHangUp, HttpTunnel
<1>3. ASSUME HttpTypeOK, NEW how, Dies(how), NEW r \in Request PROVE Shorter(r)
  <2>1. req[r].pc \in AtAwait => req'[r].pc = "gone"
    BY <1>3 DEF Dies, HttpTypeOK, AtAwait
  <2> QED BY <1>1, <1>3, <2>1
<1>4. HttpTypeOK /\ ServeTypeOK /\ [ServeNext]_allVars
        => [\A r \in Request : Shorter(r)]_httpVars
  <2> SUFFICES ASSUME HttpTypeOK, ServeTypeOK, [ServeNext]_allVars
               PROVE  UNCHANGED httpVars \/ \A r \in Request : Shorter(r)
    BY Zenon
  <2>1. CASE \E q \in Request : Http(q)
    BY <1>2, <2>1
  <2>2. CASE StepFails \/ Kill
    BY <1>3, <2>2 DEF StepFails, Kill
  <2>3. CASE \/ StepDone \/ UNCHANGED allVars
             \/ \E c \in Client : Accept(c) \/ \E l \in Listener : Connect(c, l)
             \/ \E r \in Request : Handshake(r) \/ LeaveIdle(r)
             \/ \E c \in StreamClient : Relay(c)
    BY <2>3 DEF allVars, StepDone, Accept, Connect, Handshake, LeaveIdle, Relay, RelayConnect,
                RelayConnected, RelayClientEnds, RelayPeerEnds, RelayBreaks
  <2> QED BY <2>1, <2>2, <2>3 DEF ServeNext
<1> QED BY <1>4, HttpTypeCorrect, ServeTypeCorrect, PTL DEF ServeSpec, AwaitsRunOut, Shorter

-----------------------------------------------------------------------------
(* The admission of clients.                                                *)

\* A step of which Admission sees one client at most: where the client is, and
\* whether it has a peer, before it and after it.
Admitted(at, s, p, sN, pN, room) ==
    \/ sN = s /\ pN = p
    \/ at # "down" /\ s = "out" /\ sN = "queued" /\ pN = p
    \/ at = "serving" /\ room /\ s = "queued" /\ sN = "in" /\ pN = p
    \/ room /\ s = "in" /\ sN = s /\ ~p /\ pN
    \/ s = "in" /\ sN = "left" /\ (pN = p \/ ~pN)
    \/ sN = s /\ p /\ ~pN

Alike(c) == Stage(c)' = Stage(c) /\ HasPeer(c)' = HasPeer(c)

LEMMA OneClientAdmitted ==
  ASSUME ServeTypeOK, WorkerStage' = WorkerStage, NEW c \in Client,
         \A d \in Client \ {c} : Alike(d),
         Admitted(WorkerStage, Stage(c), HasPeer(c), Stage(c)', HasPeer(c)', Fds < MaxFds)
  PROVE  [Promise!Next]_(Promise!vars)
<1> DEFINE client == [d \in Client |-> Stage(d)]
           peer == [d \in Client |-> HasPeer(d)]
<1>1. \A d \in Client : HasPeer(d) \in BOOLEAN /\ HasPeer(d)' \in BOOLEAN
  BY DEF HasPeer
<1>2. client' = [client EXCEPT ![c] = Stage(c)'] /\ peer' = [peer EXCEPT ![c] = HasPeer(c)']
  BY DEF Alike
<1>3. client[c] = Stage(c) /\ peer[c] = HasPeer(c)
  OBVIOUS
<1>4. Fds < MaxFds => Promise!Room
  <2>1. {d \in Client : client[d] = "in"} = {d \in Client : Accepted(d)}
    <3>1. ASSUME NEW d \in Client PROVE (Stage(d) = "in") <=> Accepted(d)
      BY DEF ServeTypeOK, Stage, Accepted
    <3> QED BY <3>1
  <2>2. {d \in Client : peer[d]} = {d \in Client : HasPeer(d)}
    OBVIOUS
  <2>3. \A S : Promise!Cardinality(S) = Cardinality(S)
    BY DEF Cardinality, Promise!Cardinality
  <2> HIDE DEF client, peer
  <2> QED BY <2>1, <2>2, <2>3 DEF Fds, Promise!Room, Promise!Used, client, peer
<1> HIDE DEF client, peer
<1>5. CASE Stage(c)' = Stage(c) /\ HasPeer(c)' = HasPeer(c)
  <2>1. client' = client /\ peer' = peer
    BY <1>1, <1>2, <1>3, <1>5 DEF client, peer
  <2> QED BY <2>1 DEF Promise!vars, client, peer
<1>6. CASE /\ WorkerStage # "down" /\ Stage(c) = "out" /\ Stage(c)' = "queued"
           /\ HasPeer(c)' = HasPeer(c)
  <2>1. peer' = peer
    BY <1>2, <1>3, <1>6 DEF peer
  <2>2. Promise!Queue(c)
    BY <1>2, <1>3, <1>6, <2>1 DEF Promise!Queue, client, peer
  <2> QED BY <2>2 DEF Promise!Next
<1>7. CASE /\ WorkerStage = "serving" /\ Fds < MaxFds /\ Stage(c) = "queued" /\ Stage(c)' = "in"
           /\ HasPeer(c)' = HasPeer(c)
  <2>1. peer' = peer
    BY <1>2, <1>3, <1>7 DEF peer
  <2>2. Promise!Admit(c)
    BY <1>2, <1>3, <1>4, <1>7, <2>1 DEF Promise!Admit, client, peer
  <2> QED BY <2>2 DEF Promise!Next
<1>8. CASE /\ Fds < MaxFds /\ Stage(c) = "in" /\ Stage(c)' = Stage(c)
           /\ ~HasPeer(c) /\ HasPeer(c)'
  <2>1. client' = client
    BY <1>2, <1>3, <1>8 DEF client
  <2>2. HasPeer(c)' = TRUE
    BY <1>1, <1>8
  <2>3. Promise!Reach(c)
    BY <1>2, <1>3, <1>4, <1>8, <2>1, <2>2 DEF Promise!Reach, client, peer
  <2> QED BY <2>3 DEF Promise!Next
<1>9. CASE /\ Stage(c) = "in" /\ Stage(c)' = "left"
           /\ HasPeer(c)' = HasPeer(c) \/ ~HasPeer(c)'
  <2>1. HasPeer(c)' = HasPeer(c) \/ HasPeer(c)' = FALSE
    BY <1>1, <1>9
  <2>2. peer' \in {peer, [peer EXCEPT ![c] = FALSE]}
    BY <1>2, <1>3, <2>1 DEF peer
  <2>3. Promise!Leave(c)
    BY <1>2, <1>3, <1>9, <2>2 DEF Promise!Leave, client, peer
  <2> QED BY <2>3 DEF Promise!Next
<1>10. CASE Stage(c)' = Stage(c) /\ HasPeer(c) /\ ~HasPeer(c)'
  <2>1. client' = client
    BY <1>2, <1>3, <1>10 DEF client
  <2>2. HasPeer(c)' = FALSE
    BY <1>1, <1>10
  <2>3. Promise!LoseTouch(c)
    BY <1>2, <1>3, <1>10, <2>1, <2>2 DEF Promise!LoseTouch, client, peer
  <2> QED BY <2>3 DEF Promise!Next
<1> QED BY <1>5, <1>6, <1>7, <1>8, <1>9, <1>10 DEF Admitted

\* A client of which the step leaves connection, request, tunnel and relay alone.
LEMMA AlikeIf ==
  ASSUME NEW c \in Client, conn'[c] = conn[c],
         c \in StreamClient => relay'[c] = relay[c],
         c \in Request => req'[c] = req[c] /\ tunnel'[c] = tunnel[c]
  PROVE  Alike(c)
BY DEF Alike, Stage, Accepted, HasPeer, Client

LEMMA RelayAdmitted ==
  ASSUME HeldInv, ServeTypeOK, NEW c \in StreamClient, Relay(c)
  PROVE  [Promise!Next]_(Promise!vars)
<1>1. /\ conn \in [Client -> ConnRecord] /\ c \in Client
      /\ relay \in [StreamClient -> RelayState]
  BY DEF ServeTypeOK, ConnRecord, Client, RelayState
<1>2. step' = step /\ UNCHANGED httpVars
  BY DEF Relay, RelayConnect, RelayConnected, RelayClientEnds, RelayPeerEnds, RelayBreaks
<1>3. /\ relay[c] # "none"
      /\ conn' = conn \/ conn' = [conn EXCEPT ![c].state = "closed"]
      /\ relay' = [relay EXCEPT ![c] = relay'[c]]
  BY <1>1 DEF Relay, RelayConnect, RelayConnected, RelayClientEnds, RelayPeerEnds, RelayBreaks,
              Drop, RelayState
<1>4. WorkerStage' = WorkerStage
  BY <1>2 DEF WorkerStage
<1>5. ASSUME NEW d \in Client \ {c} PROVE Alike(d)
  <2>1. conn'[d] = conn[d]
    BY <1>1, <1>3 DEF ConnRecord
  <2>2. d \in StreamClient => relay'[d] = relay[d]
    BY <1>1, <1>3
  <2> QED BY <1>2, <2>1, <2>2, AlikeIf DEF httpVars
<1>6. Stage(c) = "in"
  BY <1>3 DEF HeldInv, HeldRelay, Stage, Accepted
<1>7. HasPeer(c) <=> relay[c] \notin {"none", "accepted"}
  BY DEF HasPeer
<1>8. HasPeer(c)' <=> relay'[c] \notin {"none", "accepted"}
  BY DEF HasPeer
<1>9. CASE Drop(c)
  <2>1. Stage(c)' = "left" /\ ~HasPeer(c)'
    BY <1>1, <1>8, <1>9 DEF Drop, Stage, Accepted, ConnRecord, RelayState
  <2> QED BY <1>1, <1>4, <1>5, <1>6, <2>1, OneClientAdmitted DEF Admitted
<1>10. CASE ~Drop(c)
  <2>1. conn' = conn
    BY <1>10 DEF Relay, RelayConnect, RelayConnected, RelayClientEnds, RelayPeerEnds, RelayBreaks
  <2>2. Stage(c)' = Stage(c)
    BY <2>1 DEF Stage, Accepted
  <2>3. \/ relay[c] = "accepted" /\ relay'[c] = "connecting" /\ Fds < MaxFds
        \/ relay[c] \notin {"none", "accepted"} /\ relay'[c] \notin {"none", "accepted"}
    BY <1>1, <1>10 DEF Relay, RelayConnect, RelayConnected, RelayClientEnds, RelayPeerEnds,
                       RelayBreaks, RelayState
  <2> QED BY <1>1, <1>4, <1>5, <1>6, <1>7, <1>8, <2>2, <2>3, OneClientAdmitted DEF Admitted
<1> QED BY <1>9, <1>10

LEMMA HttpAdmitted ==
  ASSUME HeldInv, HttpTypeOK, ServeTypeOK, NEW r \in Request, Http(r)
  PROVE  [Promise!Next]_(Promise!vars)
<1> DEFINE pc == req[r].pc
           t == tunnel[r]
           s == conn[r].state
           pcN == req'[r].pc
           tN == tunnel'[r]
           sN == conn'[r].state
<1>1. HeldRequest(pc, t, s, step)
  BY DEF HeldInv
<1>2. t \in {"none", "upgrading", "relaying", "client_done", "peer_done", "closed"}
  BY DEF HttpTypeOK
<1>3. DOMAIN req = Request /\ DOMAIN tunnel = Request /\ "pc" \in DOMAIN req[r]
  BY DEF HttpTypeOK
<1>4. /\ Over(r) <=> \/ pcN = "gone" /\ tN \in {"none", "upgrading", "closed"}
                     \/ t # "none" /\ tN = "closed"
      /\ sN = IF Over(r) THEN "closed" ELSE s
  BY OthersStay DEF Over
<1>5. WorkerStage' = WorkerStage
  BY OthersStay DEF WorkerStage
<1>6. ASSUME NEW d \in Client \ {r} PROVE Alike(d)
  BY OthersStay, AlikeIf
<1>7. r \in Client /\ r \notin StreamClient
  BY ServeAssumption DEF Client
<1> DEFINE Linked(at, task) == task \notin {"none", "closed"} \/ at = "connecting"
<1>8. HasPeer(r) = Linked(pc, t) /\ HasPeer(r)' = Linked(pcN, tN)
  BY <1>7 DEF HasPeer
<1> DEFINE Placed(state) == CASE state = "none" -> "out"
                              [] state \in {"handshake", "open"} -> "in"
                              [] state = "closed" -> "left"
                              [] OTHER -> state
<1>9. Stage(r) = Placed(s) /\ Stage(r)' = Placed(sN)
  BY DEF Stage, Accepted
<1>10. Admitted(WorkerStage, Placed(s), Linked(pc, t), Placed(sN), Linked(pcN, tN), Fds < MaxFds)
  <2>1. CASE HttpArrive(r)
    <3>1. /\ s = "open" /\ t = "none" /\ tN = "none" /\ pc # "connecting"
          /\ pcN \notin {"connecting", "gone"}
      BY <1>3, <2>1, ArriveGoes DEF HttpArrive, Arrive
    <3> HIDE DEF pc, t, s, pcN, tN, sN
    <3> QED BY <1>4, <3>1 DEF Admitted
  <2>2. CASE HttpResume(r)
    <3>1. /\ pc \in AtAwait /\ pcN \in AtAwait \cup {"answered"}
          /\ pcN = "connecting" => pc = "resolving" /\ Fds < MaxFds
          /\ \/ tN = t /\ pc # "connecting"
             \/ tN \in {t, "upgrading"} /\ pc = "connecting" /\ pcN = "answered"
      BY <1>3, <2>2, ResumeGoes DEF HttpResume
    <3> HIDE DEF pc, t, s, pcN, tN, sN
    <3>2. s = "open" /\ t = "none" /\ sN = s
      BY <1>1, <1>4, <3>1 DEF HeldRequest, AtAwait
    <3> QED BY <3>1, <3>2 DEF Admitted, AtAwait
  <2>3. CASE HttpDeliver(r)
    <3>1. pc = "answered" /\ pcN = "delivered" /\ tN = t
      BY <1>3, <2>3 DEF HttpDeliver, Deliver
    <3> HIDE DEF pc, t, s, pcN, tN, sN
    <3>2. sN = s
      BY <1>1, <1>4, <3>1 DEF HeldRequest
    <3> QED BY <3>1, <3>2 DEF Admitted
  <2>4. CASE HttpHangUp(r)
    <3>1. pc \in AtAwait \cup {"answered", "delivered"} /\ pcN = "gone" /\ tN = t
      BY <1>3, <2>4 DEF HttpHangUp, HangUp
    <3> HIDE DEF pc, t, s, pcN, tN, sN
    <3>2. s = "open" \/ (s = "closed" /\ pc = "delivered")
      BY <1>1, <3>1 DEF HeldRequest
    <3>3. sN \in {s, "closed"}
      BY <1>4
    <3>4. sN = s => pc # "connecting"
      BY <1>1, <1>2, <1>4, <3>1 DEF HeldRequest, AtAwait
    <3> QED BY <3>1, <3>2, <3>3, <3>4 DEF Admitted
  <2>5. CASE HttpTunnel(r)
    <3>1. /\ pcN = pc
          /\ \/ t = "upgrading" /\ pc = "delivered" /\ tN = "relaying"
             \/ t = "upgrading" /\ pc = "gone" /\ tN = "closed"
             \/ t \in Relaying /\ tN \in {"client_done", "peer_done", "closed"}
      BY <1>3, <2>5
      DEF HttpTunnel, Tunnel, UpgradeEnds, ClientEnds, PeerEnds, TunnelBreaks, Relaying
    <3> HIDE DEF pc, t, s, pcN, tN, sN
    <3>2. pc # "connecting"
      BY <1>1, <3>1 DEF HeldRequest, Relaying
    <3>3. CASE t \in Relaying
      BY <1>1, <1>4, <3>1, <3>2, <3>3 DEF HeldRequest, Relaying, Admitted
    <3>4. CASE t = "upgrading"
      BY <1>1, <1>4, <3>1, <3>2, <3>4 DEF HeldRequest, Relaying, Admitted
    <3> QED BY <3>1, <3>3, <3>4
  <2> QED BY <2>1, <2>2, <2>3, <2>4, <2>5 DEF Http
<1> HIDE DEF Linked, Placed
<1> QED BY <1>5, <1>6, <1>7, <1>8, <1>9, <1>10, OneClientAdmitted

\* The steps of the kernel, and of the loops that accept.
LEMMA ConnectionAdmitted ==
  ASSUME HeldInv, ServeTypeOK, NEW c \in Client,
         \/ Accept(c) \/ \E l \in Listener : Connect(c, l)
         \/ c \in Request /\ (Handshake(c) \/ LeaveIdle(c))
  PROVE  [Promise!Next]_(Promise!vars)
<1>1. conn \in [Client -> ConnRecord] /\ relay \in [StreamClient -> RelayState]
  BY DEF ServeTypeOK, ConnRecord, RelayState
<1>2. step' = step /\ UNCHANGED httpVars
  BY DEF Accept, Connect, Handshake, LeaveIdle
<1>3. \/ relay' = relay
      \/ /\ c \in StreamClient /\ relay[c] \in {"none", "accepted"}
         /\ relay' = [relay EXCEPT ![c] = "accepted"]
  <2>1. c \in StreamClient /\ conn[c].state = "queued" => relay[c] = "none"
    BY DEF HeldInv, HeldRelay
  <2> QED BY <2>1 DEF Accept, Connect, Handshake, LeaveIdle
<1>4. WorkerStage' = WorkerStage
  BY <1>2 DEF WorkerStage
<1>5. ASSUME NEW d \in Client \ {c} PROVE Alike(d)
  <2>1. conn'[d] = conn[d]
    BY <1>1 DEF ConnRecord, Accept, Connect, Handshake, LeaveIdle
  <2>2. d \in StreamClient => relay'[d] = relay[d]
    BY <1>1, <1>3
  <2> QED BY <1>2, <2>1, <2>2, AlikeIf DEF httpVars
<1>6. HasPeer(c)' = HasPeer(c)
  BY <1>1, <1>2, <1>3 DEF HasPeer, httpVars
<1>7. \/ step = Serving /\ Fds < MaxFds /\ Stage(c) = "queued" /\ Stage(c)' = "in"
      \/ WorkerStage # "down" /\ Stage(c) = "out" /\ Stage(c)' = "queued"
      \/ Stage(c) = "in" /\ Stage(c)' \in {"in", "left"}
  <2>1. CASE Accept(c)
    <3>1. conn'[c].state \in {"handshake", "open"}
      BY <1>1, <2>1 DEF Accept, ConnRecord
    <3> QED BY <2>1, <3>1 DEF Accept, Stage, Accepted
  <2>2. CASE \E l \in Listener : Connect(c, l)
    <3>1. conn[c].state = "none" /\ conn'[c].state = "queued" /\ step <= Serving
      BY <1>1, <2>2 DEF Connect, ConnRecord
    <3> HIDE DEF Serving
    <3>2. WorkerStage # "down"
      BY <3>1, StepsTyped DEF WorkerStage, ServeTypeOK
    <3> QED BY <3>1, <3>2 DEF Stage, Accepted
  <2>3. CASE c \in Request /\ (Handshake(c) \/ LeaveIdle(c))
    <3>1. conn[c].state \in {"handshake", "open"} /\ conn'[c].state \in {"open", "closed"}
      BY <1>1, <2>3 DEF Handshake, LeaveIdle, ConnRecord, Accepted
    <3> QED BY <3>1 DEF Stage, Accepted
  <2> QED BY <2>1, <2>2, <2>3
<1>8. step = Serving => WorkerStage = "serving"
  BY StepsTyped DEF WorkerStage
<1>9. Admitted(WorkerStage, Stage(c), HasPeer(c), Stage(c)', HasPeer(c)', Fds < MaxFds)
  BY <1>6, <1>7, <1>8 DEF Admitted
<1> QED BY <1>4, <1>5, <1>9, OneClientAdmitted

LEMMA DiesAdmitted ==
  ASSUME HttpTypeOK, ServeTypeOK, NEW how \in {Failed, Killed}, step <= Serving, Dies(how)
  PROVE  Promise!Die
<1>1. WorkerStage # "down" /\ WorkerStage' = "down"
  BY StepsTyped DEF WorkerStage, ServeTypeOK, Dies, Failed, Killed, Serving
<1>2. ASSUME NEW c \in Client
      PROVE  Stage(c)' = IF Stage(c) \in {"queued", "in"} THEN "reset" ELSE Stage(c)
  <2>1. conn'[c].state = IF conn[c].state \in {"queued", "handshake", "open"}
                           THEN "reset" ELSE conn[c].state
    BY DEF ServeTypeOK, ConnRecord, Dies, Accepted
  <2>2. conn[c].state \in {"none", "queued", "handshake", "open", "closed", "reset"}
    BY DEF ServeTypeOK
  <2> QED BY <2>1, <2>2 DEF Stage, Accepted
<1>3. ASSUME NEW c \in Client PROVE HasPeer(c)' = FALSE
  <2>1. c \in StreamClient => relay'[c] = "none"
    BY DEF Dies
  <2>2. c \in Request => tunnel'[c] \in {"none", "closed"} /\ req'[c].pc \in {"idle", "gone"}
    BY DEF Dies, HttpTypeOK
  <2> QED BY <2>1, <2>2 DEF HasPeer, Client
<1> QED BY <1>1, <1>2, <1>3 DEF Promise!Die

LEMMA StepDoneAdmitted ==
  ASSUME ServeTypeOK, StepDone
  PROVE  [Promise!Next]_(Promise!vars)
<1>1. ASSUME NEW c \in Client PROVE Stage(c)' = Stage(c) /\ HasPeer(c)' = HasPeer(c)
  BY DEF StepDone, Stage, Accepted, HasPeer, httpVars
<1>2. WorkerStage = "starting" /\ WorkerStage' \in {"starting", "serving"}
  BY StepsTyped DEF StepDone, WorkerStage, ServeTypeOK, Serving
<1>3. /\ [c \in Client |-> Stage(c)]' = [c \in Client |-> Stage(c)]
      /\ [c \in Client |-> HasPeer(c)]' = [c \in Client |-> HasPeer(c)]
  BY <1>1
<1> QED BY <1>2, <1>3 DEF Promise!Next, Promise!Serve, Promise!vars

\* AdmissionKept for every number of clients, servers and descriptors: each step
\* of the worker is one of Admission, or one that it does not see.
THEOREM WorkerAdmits == ServeSpec => AdmissionKept
<1>1. ServeInit => Promise!Init
  <2> SUFFICES ASSUME ServeInit PROVE Promise!Init
    OBVIOUS
  <2>1. WorkerStage = "starting"
    BY StepsTyped DEF ServeInit, WorkerStage
  <2>2. ASSUME NEW c \in Client PROVE Stage(c) = "out" /\ HasPeer(c) = FALSE
    <3>1. conn[c].state = "none"
      BY DEF ServeInit, NoConn
    <3>2. c \in StreamClient => relay[c] = "none"
      BY DEF ServeInit
    <3>3. c \in Request => req[c].pc = "idle" /\ tunnel[c] = "none"
      BY DEF ServeInit, HttpInit, NewRequest
    <3> QED BY <3>1, <3>2, <3>3 DEF Stage, Accepted, HasPeer, Client
  <2> QED BY <2>1, <2>2 DEF Promise!Init
<1>2. HeldInv /\ HttpTypeOK /\ ServeTypeOK /\ [ServeNext]_allVars
        => [Promise!Next]_(Promise!vars)
  <2> SUFFICES ASSUME HeldInv, HttpTypeOK, ServeTypeOK, [ServeNext]_allVars
               PROVE  [Promise!Next]_(Promise!vars)
    OBVIOUS
  <2>1. CASE StepDone
    BY <2>1, StepDoneAdmitted
  <2>2. CASE StepFails \/ Kill
    <3>1. \E how \in {Failed, Killed} : step <= Serving /\ Dies(how)
      BY <2>2, StepsTyped DEF StepFails, Kill, Serving, ServeTypeOK
    <3>2. Promise!Die
      BY <3>1, DiesAdmitted
    <3> QED BY <3>2 DEF Promise!Next
  <2>3. ASSUME NEW c \in Client, Accept(c) \/ \E l \in Listener : Connect(c, l)
        PROVE  [Promise!Next]_(Promise!vars)
    BY <2>3, ConnectionAdmitted
  <2>4. ASSUME NEW r \in Request, Handshake(r) \/ LeaveIdle(r)
        PROVE  [Promise!Next]_(Promise!vars)
    BY <2>4, ConnectionAdmitted DEF Client
  <2>5. ASSUME NEW r \in Request, Http(r) PROVE [Promise!Next]_(Promise!vars)
    BY <2>5, HttpAdmitted
  <2>6. ASSUME NEW c \in StreamClient, Relay(c) PROVE [Promise!Next]_(Promise!vars)
    BY <2>6, RelayAdmitted
  <2>7. CASE UNCHANGED allVars
    <3>1. UNCHANGED <<step, conn, relay, req, tunnel>>
      BY <2>7 DEF allVars, serveVars, httpVars
    <3>2. ASSUME NEW c \in Client PROVE Stage(c)' = Stage(c) /\ HasPeer(c)' = HasPeer(c)
      BY <3>1 DEF Stage, Accepted, HasPeer
    <3>3. WorkerStage' = WorkerStage
      BY <3>1 DEF WorkerStage
    <3> QED BY <3>2, <3>3 DEF Promise!vars
  <2> QED BY <2>1, <2>2, <2>3, <2>4, <2>5, <2>6, <2>7 DEF ServeNext
<1> QED BY <1>1, <1>2, HeldCorrect, HttpTypeCorrect, ServeTypeCorrect, PTL
        DEF ServeSpec, AdmissionKept, Promise!Spec

=============================================================================
