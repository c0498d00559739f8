-------------------------- MODULE HttpServerLemmas --------------------------
(***************************************************************************)
(* The inductive invariant of HttpServer, and lemmas on the parts of its   *)
(* handlers, for any files, sizes and bounds.                              *)
(*                                                                         *)
(* The handlers compose as operators on states, so the invariant is a      *)
(* predicate of a state and of a set R of packages: those that a handler   *)
(* is working for and that wait for nothing at the moment.  Between two    *)
(* steps R is empty.                                                       *)
(***************************************************************************)
EXTENDS HttpServer, FiniteSetTheorems, WellFoundedInduction, TLAPS

(***************************************************************************)
(* The inductive invariant, of connections cs, packages ps, pending        *)
(* callbacks ts and entries of the cache es                                *)
(***************************************************************************)

\* The uris whose keys are different texts.  The invariant holds until another one
\* is asked for.
Plain == Uris \ Aliases

Header(uri) == <<uri, -1>>

Block(uri, offset) == <<uri, offset>>

Siblings(ps, p, q) == ps[p].ppg # NULL /\ ps[p].ppg = ps[q].ppg

\* A package and the packages that its links lead to.
LinksOf(cs, ps, p) ==
    /\ ps[p].cpn \in DOMAIN cs
    /\ ps[p].ppg = NULL => ps[p].uri = NoGet /\ ps[p].nsg = NULL /\ ps[p].wst = "UNO"
    /\ ps[p].ppg # NULL =>
          /\ ps[p].uri \in Plain \cup {BadGet}
          /\ ps[p].lcg = NULL
          /\ ps[p].ppg \in DOMAIN ps
          /\ ps[ps[p].ppg].ppg = NULL
          /\ ps[ps[p].ppg].cpn = ps[p].cpn
          /\ ps[ps[p].ppg].lcg # NULL
    /\ ps[p].nsg # NULL =>
          ps[p].nsg \in DOMAIN ps /\ ps[p].nsg > p /\ ps[ps[p].nsg].ppg = ps[p].ppg
    /\ ps[p].lcg # NULL =>
          ps[p].lcg \in DOMAIN ps /\ ps[ps[p].lcg].ppg = p /\ ps[ps[p].lcg].nsg = NULL

\* A connection has one root, and the children of a root are one list, in the
\* order of their addresses.
Linked(cs, ps) ==
    /\ \A p \in DOMAIN ps : LinksOf(cs, ps, p)
    /\ \A p, q \in DOMAIN ps :
          ps[p].ppg = NULL /\ ps[q].ppg = NULL /\ ps[p].cpn = ps[q].cpn => p = q
    /\ \A p, q \in DOMAIN ps :
          Siblings(ps, p, q) /\ p < q =>
              /\ ps[p].nsg # NULL /\ ps[p].nsg <= q
              /\ \E x \in DOMAIN ps : ps[x].nsg = q

\* It is the turn of this package (OnTurn).
First(ps, p) ==
    IF ps[p].ppg = NULL THEN ps[p].lcg = NULL
                        ELSE \A q \in DOMAIN ps : ps[q].nsg # p

BlockOf(pk) == Block(pk.uri, pk.bodykey)

InQueue(ps, es, p) ==
    /\ ps[p].ppg # NULL
    /\ BlockOf(ps[p]) \in DOMAIN es
    /\ p \in Range(es[BlockOf(ps[p])].queue)

\* Callbacks are for packages whose turn it is, one for each; the others on turn
\* wait in the queue of a slot.
Waiting(ps, ts, es, R) ==
    /\ \A p \in R : p \in DOMAIN ps /\ First(ps, p)
    /\ \A t \in ts : t.pk \in DOMAIN ps \ R /\ First(ps, t.pk)
    /\ \A t, u \in ts : t.pk = u.pk => t = u
    /\ \A p \in DOMAIN ps \ R :
          First(ps, p) => InQueue(ps, es, p) \/ \E t \in ts : t.pk = p

Writable(cs, pk) == cs[pk.cpn] \in {"CONNECTED", "CLOSING_W"}

Fresh(pk) ==
    /\ pk.tr_offset = 0 /\ pk.hsn = 0 /\ pk.hst = "UNKNOWN" /\ pk.wst = "UNO"
    /\ ~pk.headkey /\ pk.cbody = -1 /\ pk.hsent = 0

\* The package waits for a block.
Fetching(cs, pk) ==
    /\ pk.ppg # NULL /\ cs[pk.cpn] = "CONNECTED" /\ pk.uri \in Plain
    /\ pk.hst = "FETCHING" /\ pk.wst = "BODY" /\ pk.hsn = 200
    /\ pk.bodykey = pk.tr_offset /\ pk.hsent > 0

Answering400(pk) ==
    pk.uri = BadGet /\ pk.wst = "HEAD" /\ pk.hsn = 400 /\ ~pk.headkey /\ pk.cbody = -1

WritingBlock(es, pk) ==
    /\ pk.uri \in Plain /\ pk.wst = "BODY" /\ pk.hsn = 200 /\ pk.bodykey = pk.tr_offset
    /\ pk.hsent > 0
    /\ BlockOf(pk) \in DOMAIN es /\ es[BlockOf(pk)].status = "filled"

\* What a package is like when it waits for a handler.
Phase(cs, es, h, p, pk) ==
    /\ h \in {"svr_http_read", "svr_http_parse_aio"} => pk.ppg = NULL /\ Writable(cs, pk)
    /\ h = "svr_http_parse_aio" => pk.hst = "READING"
    /\ h = "svr_http_fetch" => pk.ppg # NULL /\ Writable(cs, pk) /\ Fresh(pk)
    /\ h = "svr_http_header_to_body_aio" =>
          /\ pk.ppg # NULL /\ cs[pk.cpn] = "CONNECTED" /\ pk.uri \in Plain
          /\ pk.hst = "WRITING" /\ pk.wst = "HEAD" /\ pk.headkey /\ pk.hsn \in {200, 404}
          /\ pk.tr_offset = 0 /\ pk.cbody = -1 /\ pk.hsent = 0
          /\ Header(pk.uri) \in DOMAIN es
    /\ h = "svr_http_body_rio" =>
          /\ pk.ppg # NULL /\ cs[pk.cpn] = "CONNECTED" /\ pk.hst = "WRITING"
          /\ Answering400(pk) \/ WritingBlock(es, pk)
    /\ h = "svr_http_body_pio" =>
          /\ Fetching(cs, pk) /\ pk.cbody = pk.bodykey
          /\ BlockOf(pk) \in DOMAIN es
          /\ es[BlockOf(pk)].status = "reserved" /\ es[BlockOf(pk)].queue[1] = p

Phases(cs, ps, ts, es) ==
    /\ \A t \in ts : Phase(cs, es, t.handler, t.pk, ps[t.pk])
    /\ \A p \in DOMAIN ps : ps[p].ppg # NULL /\ ~First(ps, p) => Fresh(ps[p])

Reader(p) == [handler |-> "svr_http_body_pio", pk |-> p]

HeadData == [hsn : {200, 404}, size : {HeadSize}]

BlockSize(k) ==
    LET left == FileSize[k[1]] - k[2] IN IF left < MAXWB THEN left ELSE MAXWB

\* A reserved slot is being read by the first package in its queue, and the others
\* wait for it.
Slot(cs, ps, ts, R, k, e) ==
    /\ k \in Plain \X (Nat \cup {-1})
    /\ k[2] = -1 => e.status = "filled" /\ e.data \in HeadData
    /\ k[2] # -1 => k[2] <= FileSize[k[1]]
    /\ k[2] # -1 /\ e.status = "filled" => e.data.size = BlockSize(k)
    /\ e.status # "reserved" => e.queue = <<>>
    /\ e.status = "reserved" =>
          /\ e.queue # <<>> /\ Reader(e.queue[1]) \in ts
          /\ IsInjective(e.queue)
          /\ \A p \in Range(e.queue) :
                /\ p \in DOMAIN ps \ R /\ First(ps, p)
                /\ Fetching(cs, ps[p]) /\ BlockOf(ps[p]) = k
                /\ \A t \in ts : t.pk = p => t = Reader(p)

Slots(cs, ps, ts, es, R) == \A k \in DOMAIN es : Slot(cs, ps, ts, R, k, es[k])

\* A package that has not marked its block as cached is still reading it, or is
\* ending because the read failed.
Blocks(ps, ts, es, R) ==
    \A p \in DOMAIN ps :
        ps[p].cbody # -1 /\ ~ps[p].cached =>
            LET k == Block(ps[p].uri, ps[p].cbody) IN
            /\ k \in DOMAIN es /\ es[k].status # "filled"
            /\ p \in R \/ Reader(p) \in ts

\* The package is writing from the entry.
Uses(pk, k) ==
    /\ pk.hst = "WRITING" /\ pk.uri = k[1]
    /\ IF k[2] = -1 THEN pk.wst = "HEAD" ELSE pk.wst = "BODY" /\ pk.bodykey = k[2]

Users(ps, R, k) == {p \in DOMAIN ps \ R : Uses(ps[p], k)}

\* References to headers that were written are kept.
Counts(ps, es, R) ==
    \A k \in DOMAIN es :
        /\ k[2] = -1 => es[k].refCount >= 1 + Cardinality(Users(ps, R, k))
        /\ k[2] # -1 /\ es[k].status # "cancelled" =>
              es[k].refCount = 1 + Cardinality(Users(ps, R, k))

PackagesIn(ps, cn) == {p \in DOMAIN ps : ps[p].cpn = cn}

Sizes(cs, n, ps) ==
    /\ n = Cardinality(DOMAIN cs)
    /\ \A cn \in DOMAIN cs : Cardinality(PackagesIn(ps, cn)) <= MaxPipeline + 1

Types(cs, n, ps, ts, es) ==
    /\ DOMAIN cs \subseteq 1 .. MaxConns
    /\ \A cn \in DOMAIN cs : cs[cn] \in {"CONNECTED", "CLOSING_R", "CLOSING_W", "CLOSING"}
    /\ n \in 0 .. MaxACCEPT + 1
    /\ DOMAIN ps \subseteq 1 .. MaxPkgs
    /\ \A p \in DOMAIN ps : ps[p] \in Package
    /\ ts \subseteq [handler : Handlers, pk : 1 .. MaxPkgs]
    /\ \A k \in DOMAIN es : es[k] \in Entry

Good(s, R) ==
    /\ Types(s.conn, s.nc, s.pkg, s.pending, s.cache)
    /\ Linked(s.conn, s.pkg)
    /\ Waiting(s.pkg, s.pending, s.cache, R)
    /\ Phases(s.conn, s.pkg, s.pending, s.cache)
    /\ Slots(s.conn, s.pkg, s.pending, s.cache, R)
    /\ Blocks(s.pkg, s.pending, s.cache, R)
    /\ Counts(s.pkg, s.cache, R)
    /\ Sizes(s.conn, s.nc, s.pkg)

Sound ==
    /\ TypeOK
    /\ abort = "none" => Good(State(TRUE, TRUE), {})
    /\ OnlyBadRequestsFailAssertions

\* Nothing is said any more once an alias has been asked for.
Inv == aliased \/ Sound

LEMMA PlainRequests ==
  /\ Plain \subseteq Uris /\ Plain \cap Aliases = {}
  /\ {BadGet, NoGet} \cap Plain = {} /\ BadGet # NoGet
BY RequestAssumption DEF Plain

LEMMA PlainSizes ==
  /\ FileSize \in [Uris -> Nat] /\ MAXWB \in Nat \ {0} /\ HeadSize \in Nat \ {0}
  /\ \A uri \in Plain : FileSize[uri] \in Nat
BY SizeAssumption DEF Plain

LEMMA PlainKeys ==
  ASSUME NEW uri \in Plain \cup {BadGet, NoGet}
  PROVE  HeadKey(uri) = Header(uri) /\ \A offset : BodyKey(uri, offset) = Block(uri, offset)
<1>1. uri \notin Aliases
  BY RequestAssumption, AliasAssumption DEF Plain
<1>2. QED
  BY <1>1 DEF HeadKey, BodyKey, Key, Header, Block

(***************************************************************************)
(* States as values                                                        *)
(***************************************************************************)

IsState(s) ==
    DOMAIN s = {"conn", "nc", "pkg", "pending", "cache", "abort", "openOk", "closeOk"}

\* The invariant holds while a handler works for the packages of R.
Ready(s, R) == IsState(s) /\ s.abort = "none" /\ Good(s, R)

\* Two states with the same connections, packages, callbacks, entries...
SameBut(s, t, changed) ==
    /\ IsState(t)
    /\ \A f \in {"conn", "nc", "pkg", "pending", "cache", "abort", "openOk", "closeOk"} \ changed :
          t[f] = s[f]

LEMMA PostFields ==
  ASSUME NEW s, IsState(s), NEW h, NEW p
  PROVE  /\ SameBut(s, Post(s, h, p), {"pending"})
         /\ Post(s, h, p).pending = s.pending \cup {[handler |-> h, pk |-> p]}
BY DEF Post, IsState, SameBut

LEMMA FailFields ==
  ASSUME NEW s, IsState(s), NEW why, s.abort = "none"
  PROVE  SameBut(s, Fail(s, why), {"abort"}) /\ Fail(s, why).abort = why
BY DEF Fail, IsState, SameBut

\* What changes when fields of one package do.
LEMMA MarkedIsPackage ==
  ASSUME NEW pk \in Package, NEW hst \in {"READING", "PARSING", "FETCHING", "WRITING", "UNKNOWN"},
         NEW wst \in {"HEAD", "BODY", "UNO"}
  PROVE  [pk EXCEPT !.hst = hst, !.wst = wst] \in Package
<1> DEFINE m == [pk EXCEPT !.hst = hst, !.wst = wst]
           a == [pk EXCEPT !.hst = hst]
<1>1. a \in Package
  BY SMTT(60) DEF Package
<1>2. m = [a EXCEPT !.wst = wst]
  BY DEF Package
<1> HIDE DEF a, m
<1>3. m \in Package
  BY <1>1, <1>2, SMTT(60) DEF Package
<1>4. QED
  BY <1>3 DEF m

LEMMA WithoutFacts ==
  ASSUME NEW f, NEW x
  PROVE  /\ DOMAIN Without(f, x) = DOMAIN f \ {x}
         /\ \A y \in DOMAIN f \ {x} : Without(f, x)[y] = f[y]
BY DEF Without

\* Deleting a package frees no block of the cache.
LEMMA DeleteFields ==
  ASSUME NEW s, NEW R, Ready(s, R), NEW p \in DOMAIN s.pkg
  PROVE  SameBut(s, Delete(s, p), {"pkg"}) /\ Delete(s, p).pkg = Without(s.pkg, p)
<1>1. ~(/\ s.pkg[p].cbody # -1 /\ ~s.pkg[p].cached
        /\ s.cache[Block(s.pkg[p].uri, s.pkg[p].cbody)].status = "filled")
  BY DEF Ready, Good, Blocks
<1>2. s.pkg[p].uri \in Plain \cup {BadGet, NoGet}
  BY DEF Ready, Good, Linked, LinksOf
<1>3. Delete(s, p) = [s EXCEPT !.pkg = Without(s.pkg, p)]
  BY <1>1, <1>2, PlainKeys DEF Delete
<1>4. QED
  BY <1>3 DEF Ready, IsState, SameBut

\* svr_http_final deletes the package; then it closes the connection, or lets the
\* next package of the connection go on.
Finalised(s, t, p) ==
    LET pk == s.pkg[p] IN
    /\ IsState(t) /\ t.abort = "none" /\ t.cache = s.cache
    /\ t.openOk = s.openOk /\ t.closeOk = s.closeOk
    /\ DOMAIN t.pkg = DOMAIN s.pkg \ {p}
    /\ \A q \in DOMAIN t.pkg : q # pk.ppg => t.pkg[q] = s.pkg[q]
    /\ pk.ppg = NULL =>
          /\ t.pending = s.pending
          /\ \/ t.conn = s.conn /\ t.nc = s.nc
             \/ t.conn = Without(s.conn, pk.cpn) /\ t.nc = s.nc - 1
    /\ pk.ppg # NULL => t.conn = s.conn /\ t.nc = s.nc
    /\ pk.ppg # NULL /\ pk.nsg = NULL =>
          /\ t.pkg[pk.ppg] = [s.pkg[pk.ppg] EXCEPT !.lcg = NULL]
          /\ t.pending = s.pending \cup {[handler |-> "svr_http_read", pk |-> pk.ppg]}
    /\ pk.ppg # NULL /\ pk.nsg # NULL =>
          /\ t.pkg[pk.ppg] = s.pkg[pk.ppg]
          /\ t.pending = s.pending \cup {[handler |-> "svr_http_fetch", pk |-> pk.nsg]}

LEMMA FinalFields ==
  ASSUME NEW s, NEW R, Ready(s, R), NEW p \in R
  PROVE  Finalised(s, svr_http_final(s, p), p)
<1> DEFINE t == svr_http_final(s, p)
           pk == s.pkg[p]
           rest == Delete(s, p)
<1>1. /\ IsState(s) /\ s.abort = "none" /\ p \in DOMAIN s.pkg
      /\ LinksOf(s.conn, s.pkg, p)
      /\ pk.ppg # NULL => pk.ppg \in DOMAIN s.pkg /\ pk.ppg # p /\ s.pkg[pk.ppg] \in Package
  BY DEF Ready, Good, Waiting, Linked, LinksOf, Types
<1>2. /\ SameBut(s, rest, {"pkg"})
      /\ DOMAIN rest.pkg = DOMAIN s.pkg \ {p}
      /\ \A q \in DOMAIN s.pkg \ {p} : rest.pkg[q] = s.pkg[q]
  <2>1. SameBut(s, rest, {"pkg"}) /\ rest.pkg = Without(s.pkg, p)
    BY <1>1, DeleteFields
  <2>2. QED
    BY <2>1 DEF Without
<1>3. IsState(rest)
  BY <1>2 DEF SameBut
<1> HIDE DEF rest
<1>4. CASE pk.ppg = NULL
  <2>1. t = svr_conn_close(rest, pk.cpn)
    BY <1>4 DEF svr_http_final, rest
  <2>2. CASE rest.closeOk
    BY <1>1, <1>2, <1>3, <1>4, <2>1, <2>2 DEF svr_conn_close, DeleteConn, SameBut, IsState, Finalised
  <2>3. CASE ~rest.closeOk
    BY <1>1, <1>2, <1>3, <1>4, <2>1, <2>3 DEF svr_conn_close, SameBut, IsState, Finalised
  <2>4. QED
    BY <2>2, <2>3
<1>5. CASE pk.ppg # NULL /\ pk.nsg = NULL
  <2> DEFINE u == [rest EXCEPT !.pkg[pk.ppg].lcg = NULL]
  <2>1. t = Post(u, "svr_http_read", pk.ppg)
    BY <1>5 DEF svr_http_final, rest
  <2>2. pk.ppg \in DOMAIN rest.pkg /\ rest.pkg[pk.ppg] = s.pkg[pk.ppg]
    BY <1>1, <1>2, <1>5
  <2>3. /\ SameBut(rest, u, {"pkg"})
        /\ DOMAIN u.pkg = DOMAIN rest.pkg
        /\ \A q \in DOMAIN u.pkg : q # pk.ppg => u.pkg[q] = rest.pkg[q]
        /\ u.pkg[pk.ppg] = [s.pkg[pk.ppg] EXCEPT !.lcg = NULL]
    BY <1>3, <2>2 DEF SameBut, IsState
  <2>4. SameBut(u, t, {"pending"})
        /\ t.pending = u.pending \cup {[handler |-> "svr_http_read", pk |-> pk.ppg]}
    BY <2>1, <2>3, PostFields DEF SameBut
  <2> HIDE DEF u, t
  <2>5. QED
    BY <1>1, <1>2, <1>5, <2>2, <2>3, <2>4 DEF SameBut, Finalised, t
<1>6. CASE pk.ppg # NULL /\ pk.nsg # NULL
  <2>1. t = Post(rest, "svr_http_fetch", pk.nsg)
    BY <1>6 DEF svr_http_final, rest
  <2>2. SameBut(rest, t, {"pending"})
        /\ t.pending = rest.pending \cup {[handler |-> "svr_http_fetch", pk |-> pk.nsg]}
    BY <1>3, <2>1, PostFields
  <2> HIDE DEF t
  <2>3. QED
    BY <1>1, <1>2, <1>6, <2>2 DEF SameBut, Finalised, t
<1>7. QED
  BY <1>4, <1>5, <1>6

(***************************************************************************)
(* The lists of packages                                                   *)
(***************************************************************************)

Addresses(ps) == DOMAIN ps \subseteq 1 .. MaxPkgs /\ \A p \in DOMAIN ps : ps[p] \in Package

LEMMA PkgsAreNumbers == MaxPkgs \in Nat /\ MaxConns \in Nat
BY BoundAssumption DEF MaxPkgs, MaxConns

\* A package is the next sibling of at most one.
LEMMA OneBefore ==
  ASSUME NEW cs, NEW ps, Addresses(ps), Linked(cs, ps), NEW x \in DOMAIN ps,
         NEW y \in DOMAIN ps, ps[x].nsg = ps[y].nsg, ps[x].nsg # NULL
  PROVE  x = y
<1>1. /\ LinksOf(cs, ps, x) /\ LinksOf(cs, ps, y)
      /\ x \in Int /\ y \in Int /\ ps[x].nsg \in Int
  BY PkgsAreNumbers DEF Addresses, Linked, Package
<1>2. Siblings(ps, x, y) /\ Siblings(ps, y, x)
  BY <1>1 DEF LinksOf, Siblings
<1>3. ~(x < y) /\ ~(y < x)
  BY <1>1, <1>2 DEF LinksOf, Linked
<1>4. QED
  BY <1>1, <1>3

\* The package on turn comes before its siblings.
LEMMA FirstIsLeast ==
  ASSUME NEW cs, NEW ps, Addresses(ps), Linked(cs, ps), NEW p \in DOMAIN ps,
         First(ps, p), NEW q \in DOMAIN ps, Siblings(ps, p, q)
  PROVE  p <= q
<1>1. p \in Int /\ q \in Int
  BY PkgsAreNumbers DEF Addresses
<1>2. ~(q < p)
  BY DEF First, Siblings, Linked
<1>3. QED
  BY <1>1, <1>2

\* It is the turn of one package of a connection.
LEMMA OneFirst ==
  ASSUME NEW cs, NEW ps, Addresses(ps), Linked(cs, ps), NEW p \in DOMAIN ps,
         NEW q \in DOMAIN ps, First(ps, p), First(ps, q), ps[p].cpn = ps[q].cpn
  PROVE  p = q
<1>1. LinksOf(cs, ps, p) /\ LinksOf(cs, ps, q)
  BY DEF Linked
<1>2. CASE ps[p].ppg = NULL
  <2>1. ps[q].ppg = NULL
    BY <1>1, <1>2 DEF LinksOf, First, Linked
  <2>2. QED
    BY <1>2, <2>1 DEF Linked
<1>3. CASE ps[p].ppg # NULL
  <2>1. ps[q].ppg # NULL
    BY <1>1, <1>3 DEF LinksOf, First, Linked
  <2>2. ps[p].ppg = ps[q].ppg
    BY <1>1, <1>3, <2>1 DEF LinksOf, Linked
  <2>3. Siblings(ps, p, q) /\ Siblings(ps, q, p)
    BY <1>3, <2>2 DEF Siblings
  <2>4. p <= q /\ q <= p
    BY <2>3, FirstIsLeast
  <2>5. QED
    BY <2>4, PkgsAreNumbers DEF Addresses
<1>4. QED
  BY <1>2, <1>3

\* The package whose turn is next.
Successor(ps, p) == IF ps[p].nsg # NULL THEN ps[p].nsg ELSE ps[p].ppg

\* The packages after p, whose turn it was, is deleted.
Removed(ps, ps2, p) ==
    /\ DOMAIN ps2 = DOMAIN ps \ {p}
    /\ \A q \in DOMAIN ps2 : q # ps[p].ppg => ps2[q] = ps[q]
    /\ ps[p].ppg # NULL =>
          ps2[ps[p].ppg] = IF ps[p].nsg = NULL THEN [ps[ps[p].ppg] EXCEPT !.lcg = NULL]
                                               ELSE ps[ps[p].ppg]

Kept(ps, ps2, p, q) ==
    /\ q \in DOMAIN ps /\ q # p
    /\ ps2[q].uri = ps[q].uri /\ ps2[q].cpn = ps[q].cpn
    /\ ps2[q].ppg = ps[q].ppg /\ ps2[q].nsg = ps[q].nsg
    /\ ps2[q].hst = ps[q].hst /\ ps2[q].wst = ps[q].wst
    /\ ps2[q].bodykey = ps[q].bodykey /\ ps2[q].cbody = ps[q].cbody
    /\ ps2[q].cached = ps[q].cached
    /\ ps[q].ppg # NULL => ps2[q] = ps[q]
    /\ ps2[q].lcg = IF q = ps[p].ppg /\ ps[p].nsg = NULL THEN NULL ELSE ps[q].lcg

LEMMA RemovedFields ==
  ASSUME NEW cs, NEW ps, NEW ps2, Addresses(ps), Linked(cs, ps), NEW p \in DOMAIN ps,
         First(ps, p), Removed(ps, ps2, p)
  PROVE  Addresses(ps2) /\ \A q \in DOMAIN ps2 : Kept(ps, ps2, p, q)
<1>1. LinksOf(cs, ps, p) /\ p # NULL
  BY DEF Linked, Addresses, NULL
<1>2. ASSUME NEW q \in DOMAIN ps2
      PROVE  /\ ps2[q] = [ps[q] EXCEPT !.lcg = ps2[q].lcg] /\ q \in DOMAIN ps /\ q # p
             /\ ps[q].ppg # NULL => ps2[q] = ps[q]
             /\ ps2[q].lcg = IF q = ps[p].ppg /\ ps[p].nsg = NULL THEN NULL ELSE ps[q].lcg
             /\ ps2[q].lcg \in Nat
  <2>1. q \in DOMAIN ps /\ q # p /\ ps[q] \in Package
    BY DEF Removed, Addresses
  <2>2. CASE q # ps[p].ppg
    BY <2>1, <2>2 DEF Removed, Package
  <2>3. CASE q = ps[p].ppg
    <3>1. ps[p].ppg # NULL /\ ps[q].ppg = NULL
      BY <1>1, <2>1, <2>3 DEF LinksOf, Addresses, NULL
    <3>2. CASE ps[p].nsg = NULL
      BY <2>1, <2>3, <3>1, <3>2 DEF Removed, Package, NULL
    <3>3. CASE ps[p].nsg # NULL
      BY <2>1, <2>3, <3>1, <3>3 DEF Removed, Package
    <3>4. QED
      BY <3>2, <3>3
  <2>4. QED
    BY <2>2, <2>3
<1>3. ASSUME NEW q \in DOMAIN ps2
      PROVE  /\ ps2[q] \in Package
             /\ q \in DOMAIN ps /\ q # p
             /\ ps2[q].uri = ps[q].uri /\ ps2[q].cpn = ps[q].cpn
             /\ ps2[q].ppg = ps[q].ppg /\ ps2[q].nsg = ps[q].nsg
             /\ ps2[q].hst = ps[q].hst /\ ps2[q].wst = ps[q].wst
             /\ ps2[q].bodykey = ps[q].bodykey /\ ps2[q].cbody = ps[q].cbody
             /\ ps2[q].cached = ps[q].cached
  <2>1. ps[q] \in Package
    BY <1>2 DEF Addresses
  <2>2. QED
    BY <1>2, <2>1 DEF Package
<1>4. DOMAIN ps2 \subseteq 1 .. MaxPkgs
  BY DEF Removed, Addresses
<1>5. QED
  BY <1>2, <1>3, <1>4 DEF Addresses, Kept

\* After p it is the turn of its successor, and nothing else changes.
LEMMA RemovedFirst ==
  ASSUME NEW cs, NEW ps, NEW ps2, Addresses(ps), Linked(cs, ps), NEW p \in DOMAIN ps,
         First(ps, p), Removed(ps, ps2, p), NEW q \in DOMAIN ps2
  PROVE  First(ps2, q) <=> First(ps, q) \/ q = Successor(ps, p)
<1>1. /\ LinksOf(cs, ps, p) /\ LinksOf(cs, ps, q)
      /\ q \in DOMAIN ps /\ q # p /\ q # NULL
      /\ ps2[q].ppg = ps[q].ppg
      /\ ps2[q].lcg = IF q = ps[p].ppg /\ ps[p].nsg = NULL THEN NULL ELSE ps[q].lcg
  <2>1. Kept(ps, ps2, p, q)
    BY RemovedFields
  <2>2. QED
    BY <2>1 DEF Kept, Linked, Addresses, NULL
<1>2. CASE ps[q].ppg = NULL
  <2>1. CASE q = ps[p].ppg /\ ps[p].nsg = NULL
    BY <1>1, <1>2, <2>1 DEF First, Successor
  <2>2. CASE q = ps[p].ppg /\ ps[p].nsg # NULL
    BY <1>1, <1>2, <2>2 DEF First, Successor, LinksOf
  <2>3. CASE q # ps[p].ppg
    <3>1. q # ps[p].nsg
      BY <1>1, <1>2, <2>3 DEF LinksOf
    <3>2. QED
      BY <1>1, <1>2, <2>3, <3>1 DEF First, Successor
  <2>4. QED
    BY <2>1, <2>2, <2>3
<1>3. CASE ps[q].ppg # NULL
  <2>1. First(ps2, q) <=> \A x \in DOMAIN ps \ {p} : ps[x].nsg # q
    <3>1. \A x \in DOMAIN ps2 : ps2[x].nsg = ps[x].nsg
      BY RemovedFields DEF Kept
    <3>2. QED
      BY <1>1, <1>3, <3>1 DEF First, Removed
  <2>2. First(ps, q) <=> \A x \in DOMAIN ps : ps[x].nsg # q
    BY <1>3 DEF First
  <2>3. CASE ps[p].nsg = q
    <3>1. \A x \in DOMAIN ps : ps[x].nsg = q => x = p
      BY <1>1, <2>3, OneBefore
    <3>2. q = Successor(ps, p)
      BY <1>1, <2>3 DEF Successor
    <3>3. QED
      BY <2>1, <3>1, <3>2
  <2>4. CASE ps[p].nsg # q
    <3>1. q # Successor(ps, p)
      BY <1>1, <1>3, <2>4 DEF Successor, LinksOf
    <3>2. QED
      BY <2>1, <2>2, <2>4, <3>1
  <2>5. QED
    BY <2>3, <2>4
<1>4. QED
  BY <1>2, <1>3

\* The lists stay lists.
LEMMA RemovedLinked ==
  ASSUME NEW cs, NEW cs2, NEW ps, NEW ps2, Addresses(ps), Linked(cs, ps),
         NEW p \in DOMAIN ps, First(ps, p), Removed(ps, ps2, p),
         \A cn \in DOMAIN cs :
            cn \in DOMAIN cs2 \/ (ps[p].ppg = NULL /\ cn = ps[p].cpn)
  PROVE  Linked(cs2, ps2)
<1> DEFINE SameLinks(q) ==
              /\ q \in DOMAIN ps /\ q # p /\ q # NULL
              /\ ps2[q].uri = ps[q].uri /\ ps2[q].cpn = ps[q].cpn /\ ps2[q].wst = ps[q].wst
              /\ ps2[q].ppg = ps[q].ppg /\ ps2[q].nsg = ps[q].nsg
              /\ ps2[q].lcg = IF q = ps[p].ppg /\ ps[p].nsg = NULL THEN NULL ELSE ps[q].lcg
<1>1. LinksOf(cs, ps, p) /\ p # NULL /\ \A q \in DOMAIN ps2 : LinksOf(cs, ps, q)
  BY DEF Linked, Addresses, NULL, Removed
<1>2. \A q \in DOMAIN ps2 : SameLinks(q)
  BY RemovedFields DEF Addresses, NULL, Kept
<1>3. ASSUME NEW q \in DOMAIN ps2
      PROVE  LinksOf(cs2, ps2, q)
  <2>1. q \in DOMAIN ps /\ LinksOf(cs, ps, q) /\ SameLinks(q)
    BY <1>1, <1>2
  <2>2. ps2[q].cpn \in DOMAIN cs2
    <3>1. SUFFICES ASSUME ps[p].ppg = NULL, ps[q].cpn = ps[p].cpn PROVE FALSE
      BY <2>1 DEF LinksOf
    <3>2. ps[q].ppg # NULL
      BY <2>1, <3>1 DEF Linked
    <3>3. ps[q].ppg = p
      BY <2>1, <3>1, <3>2 DEF LinksOf, Linked
    <3>4. QED
      BY <2>1, <3>1, <3>2, <3>3 DEF LinksOf, First
  <2>3. ASSUME ps[q].ppg # NULL
        PROVE  /\ ps[q].ppg \in DOMAIN ps2
               /\ ps2[ps[q].ppg].ppg = NULL
               /\ ps2[ps[q].ppg].cpn = ps[q].cpn
               /\ ps2[ps[q].ppg].lcg # NULL
    <3>1. ps[q].ppg # p
      BY <2>1, <2>3 DEF LinksOf, First
    <3>2. ps[q].ppg \in DOMAIN ps2
      BY <2>1, <2>3, <3>1 DEF LinksOf, Removed
    <3>3. ~(ps[q].ppg = ps[p].ppg /\ ps[p].nsg = NULL)
      <4>1. SUFFICES ASSUME ps[q].ppg = ps[p].ppg, ps[p].nsg = NULL PROVE FALSE
        OBVIOUS
      <4>2. Siblings(ps, p, q)
        BY <2>3, <4>1 DEF Siblings
      <4>3. p <= q /\ p # q /\ p \in Int /\ q \in Int
        BY <2>1, <4>2, FirstIsLeast, PkgsAreNumbers DEF Addresses
      <4>4. QED
        BY <2>1, <4>1, <4>2, <4>3 DEF Linked
    <3>4. QED
      BY <1>2, <2>1, <2>3, <3>2, <3>3 DEF LinksOf
  <2>4. ASSUME ps[q].nsg # NULL
        PROVE  ps[q].nsg \in DOMAIN ps2 /\ ps[q].nsg > q /\ ps2[ps[q].nsg].ppg = ps[q].ppg
    <3>1. ps[q].ppg # NULL
      BY <2>1, <2>4 DEF LinksOf
    <3>2. ps[q].nsg # p
      <4>1. CASE ps[p].ppg = NULL
        BY <2>1, <2>4, <3>1, <4>1 DEF LinksOf
      <4>2. CASE ps[p].ppg # NULL
        BY <2>1, <4>2 DEF First
      <4>3. QED
        BY <4>1, <4>2
    <3>3. ps[q].nsg \in DOMAIN ps2
      BY <2>1, <2>4, <3>2 DEF LinksOf, Removed
    <3>4. QED
      BY <1>2, <2>1, <2>4, <3>3 DEF LinksOf
  <2>5. ASSUME ps2[q].lcg # NULL
        PROVE  ps2[q].lcg \in DOMAIN ps2 /\ ps2[ps2[q].lcg].ppg = q /\ ps2[ps2[q].lcg].nsg = NULL
    <3>1. ps2[q].lcg = ps[q].lcg /\ ~(q = ps[p].ppg /\ ps[p].nsg = NULL)
      BY <2>1, <2>5
    <3>2. ps[q].lcg # p
      BY <2>1, <2>5, <3>1 DEF LinksOf
    <3>3. ps[q].lcg \in DOMAIN ps2
      BY <2>1, <2>5, <3>1, <3>2 DEF LinksOf, Removed
    <3>4. QED
      BY <1>2, <2>1, <2>5, <3>1, <3>3 DEF LinksOf
  <2>6. QED
    BY <2>1, <2>2, <2>3, <2>4, <2>5 DEF LinksOf
<1>4. ASSUME NEW x \in DOMAIN ps2, NEW y \in DOMAIN ps2, ps2[x].ppg = NULL, ps2[y].ppg = NULL,
             ps2[x].cpn = ps2[y].cpn
      PROVE  x = y
  BY <1>2, <1>4 DEF Linked
<1>5. ASSUME NEW x \in DOMAIN ps2, NEW y \in DOMAIN ps2, Siblings(ps2, x, y), x < y
      PROVE  /\ ps2[x].nsg # NULL /\ ps2[x].nsg <= y
             /\ \E z \in DOMAIN ps2 : ps2[z].nsg = y
  <2>1. Siblings(ps, x, y) /\ SameLinks(x) /\ SameLinks(y)
    BY <1>2, <1>5 DEF Siblings
  <2>2. ps[x].nsg # NULL /\ ps[x].nsg <= y
    BY <1>5, <2>1 DEF Linked
  <2>3. PICK z \in DOMAIN ps : ps[z].nsg = y
    BY <1>5, <2>1 DEF Linked
  <2>4. z # p
    <3>1. SUFFICES ASSUME z = p PROVE FALSE
      OBVIOUS
    <3>2. ps[p].ppg = ps[y].ppg /\ ps[y].ppg = ps[x].ppg /\ ps[x].ppg # NULL
      BY <1>1, <2>1, <2>3, <3>1 DEF LinksOf, Siblings
    <3>3. Siblings(ps, p, x)
      BY <3>2 DEF Siblings
    <3>4. p <= x /\ p # x /\ p \in Int /\ x \in Int /\ y \in Int
      BY <1>5, <2>1, <3>3, FirstIsLeast, PkgsAreNumbers DEF Addresses
    <3>5. ps[p].nsg <= x
      BY <2>1, <3>3, <3>4 DEF Linked
    <3>6. QED
      BY <1>5, <2>3, <3>1, <3>4, <3>5
  <2>5. z \in DOMAIN ps2 /\ ps2[z].nsg = y
    BY <1>2, <2>3, <2>4 DEF Removed
  <2>6. QED
    BY <2>1, <2>2, <2>5
<1>6. QED
  BY <1>3, <1>4, <1>5 DEF Linked

(***************************************************************************)
(* Cardinalities                                                           *)
(***************************************************************************)

LEMMA AddressSetsFinite ==
  ASSUME NEW ps, Addresses(ps)
  PROVE  \A S \in SUBSET DOMAIN ps : IsFiniteSet(S) /\ Cardinality(S) \in Nat
<1>1. IsFiniteSet(1 .. MaxPkgs)
  BY FS_Interval, PkgsAreNumbers
<1>2. ASSUME NEW S \in SUBSET DOMAIN ps
      PROVE  IsFiniteSet(S) /\ Cardinality(S) \in Nat
  <2>1. S \subseteq 1 .. MaxPkgs
    BY DEF Addresses
  <2>2. IsFiniteSet(S)
    BY <1>1, <2>1, FS_Subset
  <2>3. QED
    BY <2>2, FS_CardinalityType
<1>3. QED
  BY <1>2

LEMMA AddOne ==
  ASSUME NEW S, IsFiniteSet(S), NEW x, x \notin S
  PROVE  IsFiniteSet(S \cup {x}) /\ Cardinality(S \cup {x}) = Cardinality(S) + 1
BY FS_AddElement

LEMMA RemoveOne ==
  ASSUME NEW S, IsFiniteSet(S), NEW x \in S
  PROVE  IsFiniteSet(S \ {x}) /\ Cardinality(S \ {x}) = Cardinality(S) - 1
BY FS_RemoveElement

LEMMA ConnSetsFinite ==
  ASSUME NEW S \in SUBSET (1 .. MaxConns)
  PROVE  IsFiniteSet(S) /\ Cardinality(S) \in Nat
<1>1. IsFiniteSet(1 .. MaxConns)
  BY FS_Interval, PkgsAreNumbers
<1>2. IsFiniteSet(S)
  BY <1>1, FS_Subset
<1>3. QED
  BY <1>2, FS_CardinalityType

(***************************************************************************)
(* svr_http_final                                                          *)
(***************************************************************************)

\* What a package waits for does not depend on other connections.
LEMMA PhaseFrame ==
  ASSUME NEW cs, NEW cs2, NEW es, NEW h, NEW p, NEW pk, cs2[pk.cpn] = cs[pk.cpn],
         Phase(cs, es, h, p, pk)
  PROVE  Phase(cs2, es, h, p, pk)
BY DEF Phase, Writable, Fetching

LEMMA FinalKeeps ==
  ASSUME NEW s, NEW R, Ready(s, R), NEW p \in R,
         s.pkg[p].ppg # NULL => Writable(s.conn, s.pkg[p])
  PROVE  Ready(svr_http_final(s, p), R \ {p})
<1> DEFINE t == svr_http_final(s, p)
           cs == s.conn
           ps == s.pkg
           ts == s.pending
           es == s.cache
           cs2 == t.conn
           ps2 == t.pkg
           ts2 == t.pending
           R2 == R \ {p}
           pk == ps[p]
           nx == Successor(ps, p)
<1>1. /\ IsState(t) /\ t.abort = "none" /\ t.cache = es
      /\ DOMAIN ps2 = DOMAIN ps \ {p}
      /\ \A q \in DOMAIN ps2 : q # pk.ppg => ps2[q] = ps[q]
      /\ pk.ppg = NULL =>
            /\ ts2 = ts
            /\ \/ cs2 = cs /\ t.nc = s.nc
               \/ cs2 = Without(cs, pk.cpn) /\ t.nc = s.nc - 1
      /\ pk.ppg # NULL => cs2 = cs /\ t.nc = s.nc
      /\ pk.ppg # NULL /\ pk.nsg = NULL =>
            /\ ps2[pk.ppg] = [ps[pk.ppg] EXCEPT !.lcg = NULL]
            /\ ts2 = ts \cup {[handler |-> "svr_http_read", pk |-> pk.ppg]}
      /\ pk.ppg # NULL /\ pk.nsg # NULL =>
            /\ ps2[pk.ppg] = ps[pk.ppg]
            /\ ts2 = ts \cup {[handler |-> "svr_http_fetch", pk |-> pk.nsg]}
  <2>1. Finalised(s, t, p)
    BY FinalFields
  <2> HIDE DEF t
  <2>2. QED
    BY <2>1 DEF Finalised
<1> HIDE DEF t
<1>2. /\ p \in DOMAIN ps /\ First(ps, p) /\ Addresses(ps) /\ Linked(cs, ps)
      /\ Types(cs, s.nc, ps, ts, es) /\ Waiting(ps, ts, es, R) /\ Phases(cs, ps, ts, es)
      /\ Slots(cs, ps, ts, es, R) /\ Blocks(ps, ts, es, R) /\ Counts(ps, es, R)
      /\ Sizes(cs, s.nc, ps)
  BY DEF Ready, Good, Waiting, Types, Addresses
<1>3. Removed(ps, ps2, p)
  BY <1>1 DEF Removed
<1>4. LinksOf(cs, ps, p) /\ pk \in Package
  BY <1>2 DEF Linked, Addresses
<1>5. \A cn \in DOMAIN cs :
         \/ cn \in DOMAIN cs2 /\ cs2[cn] = cs[cn]
         \/ pk.ppg = NULL /\ cn = pk.cpn
  BY <1>1 DEF Without
<1>6. Linked(cs2, ps2)
  BY <1>2, <1>3, <1>5, RemovedLinked
<1>7. Addresses(ps2) /\ \A q \in DOMAIN ps2 : Kept(ps, ps2, p, q)
  BY <1>2, <1>3, RemovedFields
<1>8. \A q \in DOMAIN ps2 : First(ps2, q) <=> First(ps, q) \/ q = nx
  BY <1>2, <1>3, RemovedFirst
<1>9. ASSUME NEW q \in DOMAIN ps2, First(ps, q)
      PROVE  ps2[q] = ps[q] /\ cs2[ps[q].cpn] = cs[ps[q].cpn]
  <2>1. q \in DOMAIN ps /\ q # p /\ LinksOf(cs, ps, q)
    BY <1>2, <1>7 DEF Linked, Kept
  <2>2. q # pk.ppg
    BY <1>2, <1>4, <1>9, <2>1 DEF LinksOf, First, Addresses, NULL
  <2>3. ps[q].cpn # pk.cpn
    BY <1>2, <1>9, <2>1, OneFirst
  <2>4. QED
    BY <1>1, <1>5, <2>1, <2>2, <2>3 DEF LinksOf
<1>10. pk.ppg # NULL =>
          /\ nx \in DOMAIN ps2 /\ nx \in DOMAIN ps /\ ~First(ps, nx)
          /\ ps2[nx].cpn = pk.cpn
          /\ pk.nsg = NULL => ps[nx].ppg = NULL
          /\ pk.nsg # NULL => ps[nx].ppg # NULL /\ ps2[nx] = ps[nx]
  <2> SUFFICES ASSUME pk.ppg # NULL
               PROVE  /\ nx \in DOMAIN ps2 /\ nx \in DOMAIN ps /\ ~First(ps, nx)
                      /\ ps2[nx].cpn = pk.cpn
                      /\ pk.nsg = NULL => ps[nx].ppg = NULL
                      /\ pk.nsg # NULL => ps[nx].ppg # NULL /\ ps2[nx] = ps[nx]
    OBVIOUS
  <2>1. CASE pk.nsg = NULL
    <3>1. nx = pk.ppg
      BY <2>1 DEF Successor
    <3>2. nx \in DOMAIN ps /\ nx # p /\ ps[nx].ppg = NULL /\ ~First(ps, nx) /\ ps[nx].cpn = pk.cpn
      BY <1>4, <3>1 DEF LinksOf, First
    <3>3. nx \in DOMAIN ps2
      BY <1>1, <3>2
    <3>4. QED
      BY <1>7, <2>1, <3>2, <3>3 DEF Kept
  <2>2. CASE pk.nsg # NULL
    <3>1. nx = pk.nsg
      BY <2>2 DEF Successor
    <3>2. nx \in DOMAIN ps /\ ps[nx].ppg = pk.ppg
      BY <1>4, <2>2, <3>1 DEF LinksOf
    <3>3. nx # p
      BY <1>2, <1>4, <2>2, <3>1, PkgsAreNumbers DEF LinksOf, Addresses
    <3>4. nx \in DOMAIN ps2 /\ LinksOf(cs, ps, nx)
      BY <1>1, <1>2, <3>2, <3>3 DEF Linked
    <3>5. ~First(ps, nx)
      BY <1>2, <3>1, <3>2 DEF First
    <3>6. ps[nx].cpn = pk.cpn
      BY <1>4, <3>2, <3>4 DEF LinksOf
    <3>7. QED
      BY <1>7, <2>2, <3>2, <3>4, <3>5, <3>6 DEF Kept
  <2>3. QED
    BY <2>1, <2>2
<1>11. \A u \in ts2 : u \in ts \/ (pk.ppg # NULL /\ u.pk = nx)
  BY <1>1 DEF Successor
<1>12. ts \subseteq ts2 /\ (pk.ppg # NULL => \E u \in ts2 : u.pk = nx)
  <2>1. CASE pk.ppg = NULL
    BY <1>1, <2>1
  <2>2. CASE pk.ppg # NULL /\ pk.nsg = NULL
    <3>1. [handler |-> "svr_http_read", pk |-> nx] \in ts2
      BY <1>1, <2>2 DEF Successor
    <3>2. QED
      BY <1>1, <2>2, <3>1
  <2>3. CASE pk.ppg # NULL /\ pk.nsg # NULL
    <3>1. [handler |-> "svr_http_fetch", pk |-> nx] \in ts2
      BY <1>1, <2>3 DEF Successor
    <3>2. QED
      BY <1>1, <2>3, <3>1
  <2>4. QED
    BY <2>1, <2>2, <2>3
<1>13. Types(cs2, t.nc, ps2, ts2, es)
  <2>1. DOMAIN cs2 \subseteq 1 .. MaxConns
        /\ \A cn \in DOMAIN cs2 : cs2[cn] \in {"CONNECTED", "CLOSING_R", "CLOSING_W", "CLOSING"}
    BY <1>1, <1>2 DEF Types, Without
  <2>2. t.nc \in 0 .. MaxACCEPT + 1
    <3>1. Cardinality(DOMAIN cs) \in Nat /\ Cardinality(DOMAIN cs) # 0
      <4>1. IsFiniteSet(DOMAIN cs) /\ Cardinality(DOMAIN cs) \in Nat
        BY <1>2, ConnSetsFinite DEF Types
      <4>2. pk.cpn \in DOMAIN cs
        BY <1>4 DEF LinksOf
      <4>3. QED
        BY <4>1, <4>2, FS_EmptySet
    <3>2. s.nc > 0
      BY <1>2, <3>1 DEF Sizes
    <3>3. QED
      BY <1>1, <1>2, <3>2, BoundAssumption DEF Types
  <2>3. ts2 \subseteq [handler : Handlers, pk : 1 .. MaxPkgs]
    <3>1. pk.ppg # NULL => nx \in 1 .. MaxPkgs
      BY <1>2, <1>10 DEF Addresses
    <3>2. ts \subseteq [handler : Handlers, pk : 1 .. MaxPkgs]
      BY <1>2 DEF Types
    <3>3. QED
      BY <1>1, <3>1, <3>2 DEF Successor, Handlers
  <2>4. QED
    BY <1>2, <1>7, <2>1, <2>2, <2>3 DEF Types, Addresses, Kept
<1>14. Waiting(ps2, ts2, es, R2)
  <2>1. \A q \in R2 : q \in DOMAIN ps2 /\ First(ps2, q)
    BY <1>1, <1>2, <1>8 DEF Waiting
  <2>2. ASSUME NEW u \in ts2
        PROVE  u.pk \in DOMAIN ps2 \ R2 /\ First(ps2, u.pk)
    <3>1. CASE u \in ts
      BY <1>1, <1>2, <1>8, <3>1 DEF Waiting
    <3>2. CASE pk.ppg # NULL /\ u.pk = nx
      BY <1>2, <1>8, <1>10, <3>2 DEF Waiting
    <3>3. QED
      BY <1>11, <3>1, <3>2
  <2>3. ASSUME NEW u \in ts2, NEW v \in ts2, u.pk = v.pk
        PROVE  u = v
    <3>1. \A x \in ts : pk.ppg # NULL => x.pk # nx
      BY <1>2, <1>10 DEF Waiting
    <3>2. CASE u \in ts /\ v \in ts
      BY <1>2, <2>3, <3>2 DEF Waiting
    <3>3. CASE u \notin ts /\ v \notin ts
      BY <1>1, <3>3
    <3>4. CASE ~(u \in ts <=> v \in ts)
      BY <1>11, <2>3, <3>1, <3>4
    <3>5. QED
      BY <3>2, <3>3, <3>4
  <2>4. ASSUME NEW q \in DOMAIN ps2 \ R2, First(ps2, q)
        PROVE  InQueue(ps2, es, q) \/ \E u \in ts2 : u.pk = q
    <3>1. CASE First(ps, q)
      <4>1. q \in DOMAIN ps \ R
        BY <1>7 DEF Kept
      <4>2. InQueue(ps, es, q) \/ \E u \in ts : u.pk = q
        BY <1>2, <3>1, <4>1 DEF Waiting
      <4>3. ps2[q] = ps[q]
        BY <1>9, <3>1
      <4>4. QED
        BY <1>12, <4>2, <4>3 DEF InQueue
    <3>2. CASE q = nx
      <4>1. pk.ppg # NULL
        BY <1>4, <2>4, <1>7, <3>2 DEF Successor, LinksOf, Addresses, NULL, Kept
      <4>2. QED
        BY <1>12, <3>2, <4>1
    <3>3. QED
      BY <1>8, <2>4, <3>1, <3>2
  <2>5. QED
    BY <2>1, <2>2, <2>3, <2>4 DEF Waiting
<1>15. Phases(cs2, ps2, ts2, es)
  <2>1. ASSUME NEW u \in ts2
        PROVE  Phase(cs2, es, u.handler, u.pk, ps2[u.pk])
    <3>1. CASE u \in ts
      <4>1. u.pk \in DOMAIN ps2 /\ First(ps, u.pk)
        BY <1>1, <1>2, <3>1 DEF Waiting
      <4>2. ps2[u.pk] = ps[u.pk] /\ cs2[ps[u.pk].cpn] = cs[ps[u.pk].cpn]
        BY <1>9, <4>1
      <4>3. Phase(cs, es, u.handler, u.pk, ps[u.pk])
        BY <1>2, <3>1 DEF Phases
      <4>4. QED
        BY <4>2, <4>3, PhaseFrame
    <3>2. CASE u \notin ts /\ pk.nsg = NULL
      <4>1. pk.ppg # NULL /\ u = [handler |-> "svr_http_read", pk |-> nx]
        BY <1>1, <3>2 DEF Successor
      <4>2. ps2[nx].ppg = NULL /\ ps2[nx].cpn = pk.cpn
        BY <1>7, <1>10, <3>2, <4>1 DEF Kept
      <4>3. Writable(cs2, ps2[nx])
        BY <1>1, <4>1, <4>2 DEF Writable
      <4>4. QED
        BY <4>1, <4>2, <4>3 DEF Phase
    <3>3. CASE u \notin ts /\ pk.nsg # NULL
      <4>1. pk.ppg # NULL
        BY <1>4, <3>3 DEF LinksOf
      <4>2. u = [handler |-> "svr_http_fetch", pk |-> nx]
        BY <1>1, <3>3, <4>1 DEF Successor
      <4>3. Fresh(ps[nx]) /\ ps2[nx] = ps[nx] /\ ps[nx].ppg # NULL
        BY <1>2, <1>10, <3>3, <4>1 DEF Phases
      <4>4. Writable(cs2, ps2[nx])
        BY <1>1, <1>10, <4>1 DEF Writable
      <4>5. QED
        BY <4>2, <4>3, <4>4 DEF Phase
    <3>4. QED
      BY <3>1, <3>2, <3>3
  <2>2. ASSUME NEW q \in DOMAIN ps2, ps2[q].ppg # NULL, ~First(ps2, q)
        PROVE  Fresh(ps2[q])
    BY <1>2, <1>7, <1>8, <2>2 DEF Phases, Kept
  <2>3. QED
    BY <2>1, <2>2 DEF Phases
<1>16. Slots(cs2, ps2, ts2, es, R2)
  <2>1. ASSUME NEW k \in DOMAIN es, es[k].status = "reserved", NEW q \in Range(es[k].queue)
        PROVE  /\ q \in DOMAIN ps2 \ R2 /\ First(ps2, q)
               /\ Fetching(cs2, ps2[q]) /\ BlockOf(ps2[q]) = k
               /\ \A u \in ts2 : u.pk = q => u = Reader(q)
    <3>1. /\ q \in DOMAIN ps \ R /\ First(ps, q)
          /\ Fetching(cs, ps[q]) /\ BlockOf(ps[q]) = k
          /\ \A u \in ts : u.pk = q => u = Reader(q)
      BY <1>2, <2>1 DEF Slots, Slot
    <3>2. q \in DOMAIN ps2 \ R2
      BY <1>1, <3>1
    <3>3. First(ps2, q) /\ ps2[q] = ps[q] /\ cs2[ps[q].cpn] = cs[ps[q].cpn]
      BY <1>8, <1>9, <3>1, <3>2
    <3>4. \A u \in ts2 : u.pk = q => u = Reader(q)
      BY <1>10, <1>11, <3>1
    <3>5. Fetching(cs2, ps2[q]) /\ BlockOf(ps2[q]) = k
      BY <3>1, <3>3 DEF Fetching
    <3>6. QED
      BY <3>2, <3>3, <3>4, <3>5
  <2>2. QED
    BY <1>2, <1>12, <2>1 DEF Slots, Slot
<1>17. Blocks(ps2, ts2, es, R2)
  BY <1>2, <1>7, <1>12 DEF Blocks, Kept
<1>18. Counts(ps2, es, R2)
  <2>1. ASSUME NEW k
        PROVE  Users(ps2, R2, k) = Users(ps, R, k)
    <3>1. DOMAIN ps2 \ R2 = DOMAIN ps \ R
      BY <1>1
    <3>2. \A q \in DOMAIN ps2 : Uses(ps2[q], k) <=> Uses(ps[q], k)
      BY <1>7 DEF Uses, Kept
    <3>3. QED
      BY <3>1, <3>2 DEF Users
  <2>2. QED
    BY <1>2, <2>1 DEF Counts
<1>19. Sizes(cs2, t.nc, ps2)
  <2>1. t.nc = Cardinality(DOMAIN cs2)
    <3>1. IsFiniteSet(DOMAIN cs) /\ Cardinality(DOMAIN cs) \in Nat
      BY <1>2, ConnSetsFinite DEF Types
    <3>2. pk.cpn \in DOMAIN cs
      BY <1>4 DEF LinksOf
    <3>3. Cardinality(DOMAIN cs \ {pk.cpn}) = Cardinality(DOMAIN cs) - 1
      BY <3>1, <3>2, RemoveOne
    <3>4. CASE cs2 = cs /\ t.nc = s.nc
      BY <1>2, <3>4 DEF Sizes
    <3>5. CASE cs2 = Without(cs, pk.cpn) /\ t.nc = s.nc - 1
      <4>1. DOMAIN cs2 = DOMAIN cs \ {pk.cpn}
        BY <3>5 DEF Without
      <4>2. QED
        BY <1>2, <3>3, <3>5, <4>1 DEF Sizes
    <3>6. QED
      BY <1>1, <3>4, <3>5
  <2>2. ASSUME NEW cn \in DOMAIN cs2
        PROVE  Cardinality(PackagesIn(ps2, cn)) <= MaxPipeline + 1
    <3>1. cn \in DOMAIN cs
      BY <1>1 DEF Without
    <3>2. PackagesIn(ps2, cn) \subseteq PackagesIn(ps, cn)
      BY <1>7 DEF PackagesIn, Kept
    <3>3. IsFiniteSet(PackagesIn(ps, cn)) /\ Cardinality(PackagesIn(ps, cn)) \in Nat
      BY <1>2, AddressSetsFinite DEF PackagesIn
    <3>4. Cardinality(PackagesIn(ps2, cn)) \in Nat
      BY <1>7, AddressSetsFinite DEF PackagesIn, Kept
    <3>5. Cardinality(PackagesIn(ps2, cn)) <= Cardinality(PackagesIn(ps, cn))
      BY <3>2, <3>3, FS_Subset
    <3>6. Cardinality(PackagesIn(ps, cn)) <= MaxPipeline + 1
      BY <1>2, <3>1 DEF Sizes
    <3>7. QED
      BY <3>3, <3>4, <3>5, <3>6, BoundAssumption
  <2>3. QED
    BY <2>1, <2>2 DEF Sizes
<1>20. QED
  BY <1>1, <1>6, <1>13, <1>14, <1>15, <1>16, <1>17, <1>18, <1>19 DEF Ready, Good, t

(***************************************************************************)
(* A handler changes its own package                                       *)
(***************************************************************************)

Retouched(s, t, p) ==
    /\ SameBut(s, t, {"pkg"})
    /\ DOMAIN t.pkg = DOMAIN s.pkg
    /\ \A q \in DOMAIN s.pkg : q # p => t.pkg[q] = s.pkg[q]
    /\ t.pkg[p] \in Package
    /\ t.pkg[p].uri = s.pkg[p].uri /\ t.pkg[p].cpn = s.pkg[p].cpn
    /\ t.pkg[p].ppg = s.pkg[p].ppg /\ t.pkg[p].lcg = s.pkg[p].lcg
    /\ t.pkg[p].nsg = s.pkg[p].nsg
    /\ t.pkg[p].cbody = s.pkg[p].cbody /\ t.pkg[p].cached = s.pkg[p].cached
    /\ s.pkg[p].ppg = NULL => t.pkg[p].wst = "UNO"

LEMMA ReadyParts ==
  ASSUME NEW s, NEW R, Ready(s, R)
  PROVE  /\ IsState(s) /\ s.abort = "none" /\ Addresses(s.pkg)
         /\ Types(s.conn, s.nc, s.pkg, s.pending, s.cache)
         /\ Linked(s.conn, s.pkg)
         /\ Waiting(s.pkg, s.pending, s.cache, R)
         /\ Phases(s.conn, s.pkg, s.pending, s.cache)
         /\ Slots(s.conn, s.pkg, s.pending, s.cache, R)
         /\ Blocks(s.pkg, s.pending, s.cache, R)
         /\ Counts(s.pkg, s.cache, R)
         /\ Sizes(s.conn, s.nc, s.pkg)
BY DEF Ready, Good, Types, Addresses

LEMMA RunningFacts ==
  ASSUME NEW s, NEW R, Ready(s, R), NEW p \in R
  PROVE  /\ p \in DOMAIN s.pkg /\ s.pkg[p] \in Package /\ First(s.pkg, p)
         /\ LinksOf(s.conn, s.pkg, p) /\ p \in 1 .. MaxPkgs
         /\ \A t \in s.pending : t.pk # p
BY ReadyParts DEF Waiting, Linked, Addresses

LEMMA RetouchedReady ==
  ASSUME NEW s, NEW R, Ready(s, R), NEW p \in R, NEW t, Retouched(s, t, p)
  PROVE  Ready(t, R)
<1> DEFINE cs == s.conn
           ps == s.pkg
           ts == s.pending
           es == s.cache
           ps2 == t.pkg
<1>1. /\ IsState(t) /\ t.abort = "none" /\ t.conn = cs /\ t.nc = s.nc
      /\ t.pending = ts /\ t.cache = es
  BY ReadyParts DEF Retouched, SameBut
<1>2. /\ p \in DOMAIN ps /\ ps[p] \in Package /\ First(ps, p) /\ LinksOf(cs, ps, p)
      /\ \A u \in ts : u.pk # p
  BY RunningFacts
<1>3. /\ Types(cs, s.nc, ps, ts, es) /\ Linked(cs, ps) /\ Waiting(ps, ts, es, R)
      /\ Phases(cs, ps, ts, es) /\ Slots(cs, ps, ts, es, R)
      /\ Blocks(ps, ts, es, R) /\ Counts(ps, es, R) /\ Sizes(cs, s.nc, ps)
  BY ReadyParts
<1>4. /\ DOMAIN ps2 = DOMAIN ps
      /\ \A q \in DOMAIN ps : q # p => ps2[q] = ps[q]
      /\ \A q \in DOMAIN ps :
            /\ ps2[q].uri = ps[q].uri /\ ps2[q].cpn = ps[q].cpn
            /\ ps2[q].ppg = ps[q].ppg /\ ps2[q].lcg = ps[q].lcg /\ ps2[q].nsg = ps[q].nsg
            /\ ps2[q].cbody = ps[q].cbody /\ ps2[q].cached = ps[q].cached
            /\ ps[q].ppg = NULL => ps2[q].wst = "UNO"
  <2>1. \A q \in DOMAIN ps : ps[q].ppg = NULL => ps[q].wst = "UNO"
    BY <1>3 DEF Linked, LinksOf
  <2>2. QED
    BY <2>1 DEF Retouched
<1>5. \A q \in DOMAIN ps : First(ps2, q) <=> First(ps, q)
  BY <1>4 DEF First
<1>6. Types(cs, s.nc, ps2, ts, es)
  BY <1>3, <1>4 DEF Types, Retouched
<1>7. Linked(cs, ps2)
  <2>1. \A q \in DOMAIN ps2 : LinksOf(cs, ps2, q)
    BY <1>3, <1>4 DEF Linked, LinksOf
  <2>2. \A x, y \in DOMAIN ps2 : Siblings(ps2, x, y) <=> Siblings(ps, x, y)
    BY <1>4 DEF Siblings
  <2>3. QED
    BY <1>3, <1>4, <2>1, <2>2 DEF Linked
<1>8. Waiting(ps2, ts, es, R)
  BY <1>2, <1>3, <1>4, <1>5 DEF Waiting, InQueue
<1>9. Phases(cs, ps2, ts, es)
  <2>1. \A u \in ts : u.pk \in DOMAIN ps /\ ps2[u.pk] = ps[u.pk]
    BY <1>2, <1>3, <1>4 DEF Waiting
  <2>2. QED
    BY <1>2, <1>3, <1>4, <1>5, <2>1 DEF Phases
<1>10. Slots(cs, ps2, ts, es, R)
  <2>1. ASSUME NEW k \in DOMAIN es, es[k].status = "reserved", NEW q \in Range(es[k].queue)
        PROVE  q \in DOMAIN ps2 \ R /\ First(ps2, q) /\ ps2[q] = ps[q]
    BY <1>3, <1>4, <1>5, <2>1 DEF Slots, Slot
  <2>2. QED
    BY <1>3, <2>1 DEF Slots, Slot
<1>11. Blocks(ps2, ts, es, R)
  BY <1>3, <1>4 DEF Blocks
<1>12. Counts(ps2, es, R)
  <2>1. \A k : Users(ps2, R, k) = Users(ps, R, k)
    BY <1>2, <1>4 DEF Users
  <2>2. QED
    BY <1>3, <2>1 DEF Counts
<1>13. Sizes(cs, s.nc, ps2)
  <2>1. \A cn : PackagesIn(ps2, cn) = PackagesIn(ps, cn)
    BY <1>4 DEF PackagesIn
  <2>2. QED
    BY <1>3, <2>1 DEF Sizes
<1>14. QED
  BY <1>1, <1>6, <1>7, <1>8, <1>9, <1>10, <1>11, <1>12, <1>13 DEF Ready, Good

(***************************************************************************)
(* A handler ends by waiting for the next callback                         *)
(***************************************************************************)

\* Who writes from an entry waits for the end of the write, and the entry exists.
LEMMA UsersKnown ==
  ASSUME NEW s, NEW R, Ready(s, R), NEW q \in DOMAIN s.pkg \ R, NEW k, Uses(s.pkg[q], k),
         k \in Plain \X (Nat \cup {-1})
  PROVE  /\ k \in DOMAIN s.cache /\ s.cache[k].status = "filled"
         /\ k[2] # -1 => [handler |-> "svr_http_body_rio", pk |-> q] \in s.pending
<1> DEFINE cs == s.conn
           ps == s.pkg
           ts == s.pending
           es == s.cache
           pk == ps[q]
<1>1. /\ Types(cs, s.nc, ps, ts, es) /\ Linked(cs, ps) /\ Waiting(ps, ts, es, R)
      /\ Phases(cs, ps, ts, es) /\ Slots(cs, ps, ts, es, R) /\ Addresses(ps)
  BY ReadyParts
<1>2. /\ pk.hst = "WRITING" /\ pk.uri \in Plain /\ pk \in Package /\ LinksOf(cs, ps, q)
      /\ k = <<k[1], k[2]>> /\ k[1] = pk.uri
  BY <1>1 DEF Uses, Addresses, Linked
<1>3. pk.ppg # NULL
  BY <1>2, PlainRequests DEF LinksOf
<1>4. First(ps, q)
  BY <1>1, <1>2, <1>3 DEF Phases, Fresh
<1>5. ~InQueue(ps, es, q)
  <2>1. SUFFICES ASSUME InQueue(ps, es, q) PROVE FALSE
    OBVIOUS
  <2>2. BlockOf(pk) \in DOMAIN es /\ q \in Range(es[BlockOf(pk)].queue)
    BY <2>1 DEF InQueue
  <2>3. es[BlockOf(pk)].status = "reserved"
    BY <1>1, <2>2 DEF Slots, Slot, Range
  <2>4. Fetching(cs, pk)
    BY <1>1, <2>2, <2>3 DEF Slots, Slot
  <2>5. QED
    BY <1>2, <2>4 DEF Fetching
<1>6. PICK u \in ts : u.pk = q
  BY <1>1, <1>4, <1>5 DEF Waiting
<1>7. Phase(cs, es, u.handler, q, pk) /\ u = [handler |-> u.handler, pk |-> q] /\ u.handler \in Handlers
  <2>1. u \in [handler : Handlers, pk : 1 .. MaxPkgs]
    BY <1>1 DEF Types
  <2>2. QED
    BY <1>1, <1>6, <2>1 DEF Phases
<1>8. u.handler \in {"svr_http_header_to_body_aio", "svr_http_body_rio"}
  BY <1>2, <1>3, <1>7 DEF Phase, Fresh, Fetching, Handlers
<1>9. CASE u.handler = "svr_http_header_to_body_aio"
  <2>1. pk.wst = "HEAD" /\ Header(pk.uri) \in DOMAIN es
    BY <1>7, <1>9 DEF Phase
  <2>2. k[2] = -1
    BY <2>1 DEF Uses
  <2>3. k = Header(pk.uri)
    BY <1>2, <2>2 DEF Header
  <2>4. QED
    BY <1>1, <2>1, <2>2, <2>3 DEF Slots, Slot
<1>10. CASE u.handler = "svr_http_body_rio"
  <2>1. Answering400(pk) \/ WritingBlock(es, pk)
    BY <1>7, <1>10 DEF Phase
  <2>2. WritingBlock(es, pk)
    BY <1>2, <2>1, PlainRequests DEF Answering400
  <2>3. k[2] = pk.bodykey
    BY <2>2 DEF Uses, WritingBlock
  <2>4. k = BlockOf(pk)
    BY <1>2, <2>3 DEF BlockOf, Block
  <2>5. QED
    BY <1>7, <1>10, <2>2, <2>4 DEF WritingBlock
<1>11. QED
  BY <1>8, <1>9, <1>10

\* An entry that get finds, or that is filled at once: the others stay, and one
\* reference is added to the entry that the package will write from.
Referenced(es, es2, pk) ==
    /\ DOMAIN es \subseteq DOMAIN es2
    /\ \A k \in DOMAIN es2 :
          es2[k] \in Entry
    /\ \A k \in DOMAIN es :
          /\ es2[k].status = es[k].status /\ es2[k].data = es[k].data
          /\ es2[k].queue = es[k].queue
          /\ es[k].status # "cancelled" /\ Uses(pk, k) => es2[k].refCount = es[k].refCount + 1
          /\ es[k].status # "cancelled" /\ ~Uses(pk, k) => es2[k].refCount = es[k].refCount
    /\ \A k \in DOMAIN es2 \ DOMAIN es :
          /\ Uses(pk, k) /\ k \in Plain \X {-1}
          /\ es2[k].status = "filled" /\ es2[k].data \in HeadData /\ es2[k].queue = <<>>
          /\ es2[k].refCount = 2

LEMMA ResumeReady ==
  ASSUME NEW s, NEW R, Ready(s, R), NEW p \in R, NEW t,
         SameBut(s, t, {"pending", "cache"}),
         NEW h \in Handlers \ {"svr_http_body_pio"},
         t.pending = s.pending \cup {[handler |-> h, pk |-> p]},
         Referenced(s.cache, t.cache, s.pkg[p]),
         Phase(s.conn, t.cache, h, p, s.pkg[p]),
         s.pkg[p].cbody = -1 \/ s.pkg[p].cached
  PROVE  Ready(t, R \ {p})
<1> DEFINE cs == s.conn
           ps == s.pkg
           ts == s.pending
           es == s.cache
           ts2 == t.pending
           es2 == t.cache
           R2 == R \ {p}
           new == [handler |-> h, pk |-> p]
<1>1. IsState(t) /\ t.abort = "none" /\ t.conn = cs /\ t.nc = s.nc /\ t.pkg = ps
  BY ReadyParts DEF SameBut
<1>2. /\ p \in DOMAIN ps /\ ps[p] \in Package /\ First(ps, p) /\ LinksOf(cs, ps, p)
      /\ p \in 1 .. MaxPkgs /\ \A u \in ts : u.pk # p
  BY RunningFacts
<1>3. /\ Types(cs, s.nc, ps, ts, es) /\ Linked(cs, ps) /\ Waiting(ps, ts, es, R)
      /\ Phases(cs, ps, ts, es) /\ Slots(cs, ps, ts, es, R) /\ Addresses(ps)
      /\ Blocks(ps, ts, es, R) /\ Counts(ps, es, R) /\ Sizes(cs, s.nc, ps)
  BY ReadyParts
<1>4. /\ DOMAIN es \subseteq DOMAIN es2
      /\ \A k \in DOMAIN es :
            /\ es2[k].status = es[k].status /\ es2[k].data = es[k].data
            /\ es2[k].queue = es[k].queue
  BY DEF Referenced
<1>5. Types(cs, s.nc, ps, ts2, es2)
  <2>1. new \in [handler : Handlers, pk : 1 .. MaxPkgs]
    BY <1>2
  <2>2. QED
    BY <1>3, <2>1 DEF Types, Referenced
<1>6. Waiting(ps, ts2, es2, R2)
  <2>1. \A q \in R2 : q \in DOMAIN ps /\ First(ps, q)
    BY <1>3 DEF Waiting
  <2>2. \A u \in ts2 : u.pk \in DOMAIN ps \ R2 /\ First(ps, u.pk)
    BY <1>2, <1>3 DEF Waiting
  <2>3. \A u, v \in ts2 : u.pk = v.pk => u = v
    BY <1>2, <1>3 DEF Waiting
  <2>4. ASSUME NEW q \in DOMAIN ps \ R2, First(ps, q)
        PROVE  InQueue(ps, es2, q) \/ \E u \in ts2 : u.pk = q
    <3>1. CASE q = p
      <4>1. new \in ts2 /\ new.pk = p
        OBVIOUS
      <4>2. QED
        BY <3>1, <4>1
    <3>2. CASE q # p
      <4>1. InQueue(ps, es, q) \/ \E u \in ts : u.pk = q
        BY <1>3, <2>4, <3>2 DEF Waiting
      <4>2. InQueue(ps, es, q) => InQueue(ps, es2, q)
        BY <1>4 DEF InQueue
      <4>3. QED
        BY <4>1, <4>2
    <3>3. QED
      BY <3>1, <3>2
  <2>5. QED
    BY <2>1, <2>2, <2>3, <2>4 DEF Waiting
<1>7. Phases(cs, ps, ts2, es2)
  <2>1. ASSUME NEW u \in ts PROVE Phase(cs, es2, u.handler, u.pk, ps[u.pk])
    <3>1. Phase(cs, es, u.handler, u.pk, ps[u.pk])
      BY <1>3 DEF Phases
    <3>2. QED
      BY <1>4, <3>1 DEF Phase, WritingBlock
  <2>2. QED
    BY <1>3, <2>1 DEF Phases
<1>8. Slots(cs, ps, ts2, es2, R2)
  <2>1. ASSUME NEW k \in DOMAIN es, es[k].status = "reserved", NEW q \in Range(es[k].queue)
        PROVE  q \in DOMAIN ps \ R2 /\ \A u \in ts2 : u.pk = q => u = Reader(q)
    <3>1. q \in DOMAIN ps \ R /\ \A u \in ts : u.pk = q => u = Reader(q)
      BY <1>3, <2>1 DEF Slots, Slot
    <3>2. QED
      BY <1>2, <3>1
  <2>2. ASSUME NEW k \in DOMAIN es2, k \notin DOMAIN es
        PROVE  /\ k \in Plain \X (Nat \cup {-1}) /\ k[2] = -1
               /\ es2[k].status = "filled" /\ es2[k].data \in HeadData /\ es2[k].queue = <<>>
    BY <2>2 DEF Referenced
  <2>3. QED
    BY <1>3, <1>4, <2>1, <2>2 DEF Slots, Slot
<1>9. Blocks(ps, ts2, es2, R2)
  BY <1>3, <1>4 DEF Blocks
<1>10. Counts(ps, es2, R2)
  <2>1. ASSUME NEW k
        PROVE  /\ Uses(ps[p], k) => Users(ps, R2, k) = Users(ps, R, k) \cup {p}
               /\ ~Uses(ps[p], k) => Users(ps, R2, k) = Users(ps, R, k)
               /\ p \notin Users(ps, R, k)
    BY <1>2 DEF Users
  <2>2. ASSUME NEW k
        PROVE  IsFiniteSet(Users(ps, R, k)) /\ Cardinality(Users(ps, R, k)) \in Nat
    BY <1>3, AddressSetsFinite DEF Users
  <2>3. ASSUME NEW k
        PROVE  /\ Cardinality(Users(ps, R2, k)) \in Nat
               /\ Uses(ps[p], k) =>
                     Cardinality(Users(ps, R2, k)) = Cardinality(Users(ps, R, k)) + 1
               /\ ~Uses(ps[p], k) =>
                     Cardinality(Users(ps, R2, k)) = Cardinality(Users(ps, R, k))
    <3>1. CASE Uses(ps[p], k)
      <4> DEFINE U == Users(ps, R, k)
      <4>1. IsFiniteSet(U) /\ Cardinality(U) \in Nat /\ p \notin U
        BY <2>1, <2>2
      <4>2. Cardinality(U \cup {p}) = Cardinality(U) + 1
        BY <4>1, AddOne
      <4>3. Users(ps, R2, k) = U \cup {p}
        BY <2>1, <3>1
      <4>4. Cardinality(Users(ps, R2, k)) = Cardinality(U) + 1
        BY <4>2, <4>3
      <4> HIDE DEF U
      <4>5. Cardinality(Users(ps, R2, k)) \in Nat
        BY <4>1, <4>4
      <4>6. QED
        BY <3>1, <4>4, <4>5 DEF U
    <3>2. CASE ~Uses(ps[p], k)
      BY <2>1, <2>2, <3>2
    <3>3. QED
      BY <3>1, <3>2
  <2>4. ASSUME NEW k \in DOMAIN es
        PROVE  /\ k[2] = -1 => es2[k].refCount >= 1 + Cardinality(Users(ps, R2, k))
               /\ k[2] # -1 /\ es2[k].status # "cancelled" =>
                     es2[k].refCount = 1 + Cardinality(Users(ps, R2, k))
    <3> DEFINE m == Cardinality(Users(ps, R, k))
               m2 == Cardinality(Users(ps, R2, k))
               n == es[k].refCount
               n2 == es2[k].refCount
    <3>1. n \in Nat /\ m \in Nat /\ m2 \in Nat
      BY <1>3, <2>2, <2>3 DEF Types, Entry
    <3>2. k[2] = -1 => es[k].status = "filled"
      BY <1>3 DEF Slots, Slot
    <3>3. /\ es[k].status # "cancelled" /\ Uses(ps[p], k) => n2 = n + 1
          /\ es[k].status # "cancelled" /\ ~Uses(ps[p], k) => n2 = n
      BY DEF Referenced
    <3>4. /\ k[2] = -1 => n >= 1 + m
          /\ k[2] # -1 /\ es[k].status # "cancelled" => n = 1 + m
      BY <1>3 DEF Counts
    <3>5. /\ Uses(ps[p], k) => m2 = m + 1
          /\ ~Uses(ps[p], k) => m2 = m
      BY <2>3
    <3>6. es2[k].status = es[k].status
      BY <1>4
    <3> HIDE DEF m, m2, n, n2
    <3>7. CASE Uses(ps[p], k)
      <4>1. /\ k[2] = -1 => n2 >= 1 + m2
            /\ k[2] # -1 /\ es[k].status # "cancelled" => n2 = 1 + m2
        BY <3>1, <3>2, <3>3, <3>4, <3>5, <3>7
      <4>2. QED
        BY <3>6, <4>1 DEF n2, m2
    <3>8. CASE ~Uses(ps[p], k)
      <4>1. /\ k[2] = -1 => n2 >= 1 + m2
            /\ k[2] # -1 /\ es[k].status # "cancelled" => n2 = 1 + m2
        BY <3>1, <3>2, <3>3, <3>4, <3>5, <3>8
      <4>2. QED
        BY <3>6, <4>1 DEF n2, m2
    <3>9. QED
      BY <3>7, <3>8
  <2>5. ASSUME NEW k \in DOMAIN es2, k \notin DOMAIN es
        PROVE  k[2] = -1 /\ es2[k].refCount >= 1 + Cardinality(Users(ps, R2, k))
    <3>1. Uses(ps[p], k) /\ k \in Plain \X {-1} /\ es2[k].refCount = 2
      BY <2>5 DEF Referenced
    <3>2. k \in Plain \X (Nat \cup {-1}) /\ k[2] = -1
      BY <3>1
    <3>3. Users(ps, R, k) = {}
      BY <2>5, <3>2, UsersKnown DEF Users
    <3>4. Cardinality(Users(ps, R, k)) = 0
      BY <3>3, FS_EmptySet
    <3>5. Cardinality(Users(ps, R2, k)) = 1
      <4>1. Cardinality(Users(ps, R2, k)) = Cardinality(Users(ps, R, k)) + 1
        BY <2>3, <3>1
      <4>2. QED
        BY <3>4, <4>1
    <3>6. QED
      BY <3>1, <3>2, <3>5
  <2>6. QED
    BY <2>4, <2>5 DEF Counts
<1>11. QED
  BY <1>1, <1>3, <1>5, <1>6, <1>7, <1>8, <1>9, <1>10 DEF Ready, Good


(***************************************************************************)
(* A handler begins: its package no longer waits                           *)
(***************************************************************************)

\* The state of one connection changes.
Stopped(cs, cs2, cn) ==
    /\ DOMAIN cs2 = DOMAIN cs
    /\ \A c \in DOMAIN cs : c # cn => cs2[c] = cs[c]
    /\ cs2[cn] \in {"CONNECTED", "CLOSING_R", "CLOSING_W", "CLOSING"}

\* The package has given back its reference to a block, and at most one to a header.
Returned(es, es2, pk) ==
    /\ DOMAIN es2 = DOMAIN es
    /\ \A k \in DOMAIN es :
          /\ es2[k] \in Entry
          /\ es2[k].status = es[k].status /\ es2[k].data = es[k].data
          /\ es2[k].queue = es[k].queue
          /\ k[2] = -1 /\ Uses(pk, k) => es2[k].refCount >= es[k].refCount - 1
          /\ k[2] = -1 /\ ~Uses(pk, k) => es2[k].refCount >= es[k].refCount
          /\ k[2] # -1 /\ es[k].status # "cancelled" /\ Uses(pk, k) =>
                es2[k].refCount = es[k].refCount - 1
          /\ k[2] # -1 /\ es[k].status # "cancelled" /\ ~Uses(pk, k) =>
                es2[k].refCount = es[k].refCount

LEMMA StartReady ==
  ASSUME NEW s, Ready(s, {}), NEW cb \in s.pending, cb.handler # "svr_http_body_pio",
         NEW t, SameBut(s, t, {"conn", "pending", "cache"}),
         t.pending = s.pending \ {cb},
         Stopped(s.conn, t.conn, s.pkg[cb.pk].cpn),
         Returned(s.cache, t.cache, s.pkg[cb.pk])
  PROVE  Ready(t, {cb.pk})
<1> DEFINE cs == s.conn
           ps == s.pkg
           ts == s.pending
           es == s.cache
           cs2 == t.conn
           ts2 == t.pending
           es2 == t.cache
           p == cb.pk
           R2 == {p}
<1>1. IsState(t) /\ t.abort = "none" /\ t.nc = s.nc /\ t.pkg = ps
  BY ReadyParts DEF SameBut
<1>2. /\ Types(cs, s.nc, ps, ts, es) /\ Linked(cs, ps) /\ Waiting(ps, ts, es, {})
      /\ Phases(cs, ps, ts, es) /\ Slots(cs, ps, ts, es, {}) /\ Addresses(ps)
      /\ Blocks(ps, ts, es, {}) /\ Counts(ps, es, {}) /\ Sizes(cs, s.nc, ps)
  BY ReadyParts
<1>3. p \in DOMAIN ps /\ First(ps, p) /\ \A u \in ts : u.pk = p => u = cb
  BY <1>2 DEF Waiting
<1>4. /\ DOMAIN es2 = DOMAIN es
      /\ \A k \in DOMAIN es :
            /\ es2[k].status = es[k].status /\ es2[k].data = es[k].data
            /\ es2[k].queue = es[k].queue
  BY DEF Returned
<1>5. \A q \in DOMAIN ps : First(ps, q) /\ q # p => cs2[ps[q].cpn] = cs[ps[q].cpn]
  <2>1. \A q \in DOMAIN ps : ps[q].cpn \in DOMAIN cs
    BY <1>2 DEF Linked, LinksOf
  <2>2. QED
    BY <1>2, <1>3, <2>1, OneFirst DEF Stopped
<1>6. Types(cs2, s.nc, ps, ts2, es2)
  BY <1>2, <1>4 DEF Types, Stopped, Returned
<1>7. Linked(cs2, ps)
  <2>1. \A q \in DOMAIN ps : LinksOf(cs2, ps, q)
    <3>1. ASSUME NEW q \in DOMAIN ps PROVE LinksOf(cs2, ps, q)
      <4>1. LinksOf(cs, ps, q) /\ DOMAIN cs2 = DOMAIN cs
        BY <1>2 DEF Linked, Stopped
      <4>2. QED
        BY <4>1 DEF LinksOf
    <3>2. QED
      BY <3>1
  <2>2. QED
    BY <1>2, <2>1 DEF Linked
<1>8. ~(\E k \in DOMAIN es : es[k].status = "reserved" /\ p \in Range(es[k].queue))
  <2>1. cb # Reader(p)
    BY DEF Reader
  <2>2. QED
    BY <1>2, <2>1 DEF Slots, Slot
<1>9. \A q \in DOMAIN ps : InQueue(ps, es2, q) <=> InQueue(ps, es, q)
  BY <1>4 DEF InQueue
<1>10. Waiting(ps, ts2, es2, R2)
  <2>1. \A q \in R2 : q \in DOMAIN ps /\ First(ps, q)
    BY <1>3
  <2>2. \A u \in ts2 : u.pk \in DOMAIN ps \ R2 /\ First(ps, u.pk)
    BY <1>2, <1>3 DEF Waiting
  <2>3. \A u, v \in ts2 : u.pk = v.pk => u = v
    BY <1>2 DEF Waiting
  <2>4. ASSUME NEW q \in DOMAIN ps \ R2, First(ps, q)
        PROVE  InQueue(ps, es2, q) \/ \E u \in ts2 : u.pk = q
    BY <1>2, <1>9, <2>4 DEF Waiting
  <2>5. QED
    BY <2>1, <2>2, <2>3, <2>4 DEF Waiting
<1>11. Phases(cs2, ps, ts2, es2)
  <2>1. ASSUME NEW u \in ts2 PROVE Phase(cs2, es2, u.handler, u.pk, ps[u.pk])
    <3>1. Phase(cs, es, u.handler, u.pk, ps[u.pk])
      BY <1>2 DEF Phases
    <3>2. cs2[ps[u.pk].cpn] = cs[ps[u.pk].cpn]
      BY <1>2, <1>3, <1>5 DEF Waiting
    <3>3. Phase(cs2, es, u.handler, u.pk, ps[u.pk])
      BY <3>1, <3>2, PhaseFrame
    <3>4. QED
      BY <1>4, <3>3 DEF Phase, WritingBlock
  <2>2. QED
    BY <1>2, <2>1 DEF Phases
<1>12. Slots(cs2, ps, ts2, es2, R2)
  <2>1. ASSUME NEW k \in DOMAIN es, es[k].status = "reserved"
        PROVE  Reader(es[k].queue[1]) \in ts2
    BY <1>2, <2>1 DEF Slots, Slot, Reader
  <2>2. ASSUME NEW k \in DOMAIN es, es[k].status = "reserved", NEW q \in Range(es[k].queue)
        PROVE  q \in DOMAIN ps \ R2 /\ Fetching(cs2, ps[q])
    <3>1. q \in DOMAIN ps /\ First(ps, q) /\ Fetching(cs, ps[q]) /\ q # p
      BY <1>2, <1>8, <2>2 DEF Slots, Slot
    <3>2. cs2[ps[q].cpn] = cs[ps[q].cpn]
      BY <1>5, <3>1
    <3>3. QED
      BY <3>1, <3>2 DEF Fetching
  <2>3. QED
    BY <1>2, <1>4, <2>1, <2>2 DEF Slots, Slot
<1>13. Blocks(ps, ts2, es2, R2)
  BY <1>2, <1>4 DEF Blocks, Reader
<1>14. Counts(ps, es2, R2)
  <2>1. ASSUME NEW k \in DOMAIN es
        PROVE  /\ k[2] = -1 => es2[k].refCount >= 1 + Cardinality(Users(ps, R2, k))
               /\ k[2] # -1 /\ es2[k].status # "cancelled" =>
                     es2[k].refCount = 1 + Cardinality(Users(ps, R2, k))
    <3> DEFINE m == Cardinality(Users(ps, {}, k))
               m2 == Cardinality(Users(ps, R2, k))
               n == es[k].refCount
               n2 == es2[k].refCount
               U == Users(ps, {}, k)
    <3>1. IsFiniteSet(U) /\ m \in Nat /\ m2 \in Nat
      BY <1>2, AddressSetsFinite DEF Users
    <3>2. n \in Nat /\ n2 \in Nat
      BY <1>2 DEF Types, Returned, Entry
    <3>3. /\ k[2] = -1 => n >= 1 + m
          /\ k[2] # -1 /\ es[k].status # "cancelled" => n = 1 + m
      BY <1>2 DEF Counts
    <3>4. /\ k[2] = -1 /\ Uses(ps[p], k) => n2 >= n - 1
          /\ k[2] = -1 /\ ~Uses(ps[p], k) => n2 >= n
          /\ k[2] # -1 /\ es[k].status # "cancelled" /\ Uses(ps[p], k) => n2 = n - 1
          /\ k[2] # -1 /\ es[k].status # "cancelled" /\ ~Uses(ps[p], k) => n2 = n
      BY DEF Returned
    <3>5. es2[k].status = es[k].status
      BY <1>4
    <3>6. CASE Uses(ps[p], k)
      <4>1. p \in U /\ Users(ps, R2, k) = U \ {p}
        BY <1>3, <3>6 DEF Users
      <4>2. m2 = m - 1
        BY <3>1, <4>1, RemoveOne
      <4> HIDE DEF m, m2, n, n2, U
      <4>3. /\ k[2] = -1 => n2 >= 1 + m2
            /\ k[2] # -1 /\ es[k].status # "cancelled" => n2 = 1 + m2
        BY <3>1, <3>2, <3>3, <3>4, <3>6, <4>2
      <4>4. QED
        BY <3>5, <4>3 DEF n2, m2
    <3>7. CASE ~Uses(ps[p], k)
      <4>1. Users(ps, R2, k) = U
        BY <1>3, <3>7 DEF Users
      <4>2. m2 = m
        BY <4>1
      <4> HIDE DEF m, m2, n, n2, U
      <4>3. /\ k[2] = -1 => n2 >= 1 + m2
            /\ k[2] # -1 /\ es[k].status # "cancelled" => n2 = 1 + m2
        BY <3>1, <3>2, <3>3, <3>4, <3>7, <4>2
      <4>4. QED
        BY <3>5, <4>3 DEF n2, m2
    <3>8. QED
      BY <3>6, <3>7
  <2>2. QED
    BY <1>4, <2>1 DEF Counts
<1>15. Sizes(cs2, s.nc, ps)
  BY <1>2 DEF Sizes, Stopped
<1>16. QED
  BY <1>1, <1>6, <1>7, <1>10, <1>11, <1>12, <1>13, <1>14, <1>15 DEF Ready, Good

(***************************************************************************)
(* A handler ends by waiting for a block                                   *)
(***************************************************************************)

\* Nobody writes from a block that is not in the cache.
LEMMA UnusedBlock ==
  ASSUME NEW s, NEW R, Ready(s, R), NEW k \in Plain \X Nat, k \notin DOMAIN s.cache
  PROVE  Cardinality(Users(s.pkg, R, k)) = 0
<1>1. k \in Plain \X (Nat \cup {-1})
  OBVIOUS
<1>2. Users(s.pkg, R, k) = {}
  BY <1>1, UsersKnown DEF Users
<1>3. QED
  BY <1>2, FS_EmptySet

\* A package that waits for a block writes from no entry.
LEMMA FetchingUsesNothing ==
  ASSUME NEW cs, NEW pk, Fetching(cs, pk), NEW k
  PROVE  ~Uses(pk, k)
BY DEF Fetching, Uses

\* The package reserves the slot of its block and reads it.
LEMMA ReserveReady ==
  ASSUME NEW s, NEW R, Ready(s, R), NEW p \in R, NEW t,
         SameBut(s, t, {"pkg", "pending", "cache"}),
         Fetching(s.conn, s.pkg[p]),
         BlockOf(s.pkg[p]) \notin DOMAIN s.cache,
         s.pkg[p].tr_offset <= FileSize[s.pkg[p].uri],
         t.pkg = [s.pkg EXCEPT ![p].cbody = s.pkg[p].bodykey],
         t.pending = s.pending \cup {Reader(p)},
         t.cache = With(s.cache, BlockOf(s.pkg[p]),
                        [status |-> "reserved", data |-> [hsn |-> 0, size |-> 0],
                         refCount |-> 1, queue |-> <<p>>])
  PROVE  Ready(t, R \ {p})
<1> DEFINE cs == s.conn
           ps == s.pkg
           ts == s.pending
           es == s.cache
           ps2 == t.pkg
           ts2 == t.pending
           es2 == t.cache
           R2 == R \ {p}
           key == BlockOf(ps[p])
           entry == [status |-> "reserved", data |-> [hsn |-> 0, size |-> 0],
                     refCount |-> 1, queue |-> <<p>>]
<1>1. IsState(t) /\ t.abort = "none" /\ t.conn = cs /\ t.nc = s.nc
  BY ReadyParts DEF SameBut
<1>2. /\ p \in DOMAIN ps /\ ps[p] \in Package /\ First(ps, p) /\ LinksOf(cs, ps, p)
      /\ p \in 1 .. MaxPkgs /\ \A u \in ts : u.pk # p
  BY RunningFacts
<1>3. /\ Types(cs, s.nc, ps, ts, es) /\ Linked(cs, ps) /\ Waiting(ps, ts, es, R)
      /\ Phases(cs, ps, ts, es) /\ Slots(cs, ps, ts, es, R) /\ Addresses(ps)
      /\ Blocks(ps, ts, es, R) /\ Counts(ps, es, R) /\ Sizes(cs, s.nc, ps)
  BY ReadyParts
<1>4. /\ DOMAIN ps2 = DOMAIN ps
      /\ \A q \in DOMAIN ps : q # p => ps2[q] = ps[q]
      /\ ps2[p] = [ps[p] EXCEPT !.cbody = ps[p].bodykey]
  BY <1>2
<1>5. /\ ps2[p] \in Package /\ ps2[p].cbody = ps[p].bodykey
      /\ ps2[p].uri = ps[p].uri /\ ps2[p].cpn = ps[p].cpn
      /\ ps2[p].ppg = ps[p].ppg /\ ps2[p].lcg = ps[p].lcg /\ ps2[p].nsg = ps[p].nsg
      /\ ps2[p].wst = ps[p].wst /\ ps2[p].hst = ps[p].hst /\ ps2[p].hsn = ps[p].hsn
      /\ ps2[p].bodykey = ps[p].bodykey /\ ps2[p].tr_offset = ps[p].tr_offset
  BY <1>2, <1>4 DEF Package
<1>6. \A q \in DOMAIN ps :
            /\ ps2[q].uri = ps[q].uri /\ ps2[q].cpn = ps[q].cpn
            /\ ps2[q].ppg = ps[q].ppg /\ ps2[q].lcg = ps[q].lcg /\ ps2[q].nsg = ps[q].nsg
            /\ ps2[q].wst = ps[q].wst
  BY <1>4, <1>5
<1>7. \A q \in DOMAIN ps : First(ps2, q) <=> First(ps, q)
  BY <1>4, <1>6 DEF First
<1>8. /\ DOMAIN es2 = DOMAIN es \cup {key} /\ es2[key] = entry
      /\ \A k \in DOMAIN es : es2[k] = es[k] /\ k # key
  BY DEF With
<1>9. /\ Fetching(cs, ps2[p]) /\ BlockOf(ps2[p]) = key /\ key = <<ps[p].uri, ps[p].tr_offset>>
      /\ key \in Plain \X Nat /\ key[1] = ps[p].uri /\ key[2] = ps[p].tr_offset
  BY <1>2, <1>5 DEF Fetching, BlockOf, Block, Package
<1> HIDE DEF key
<1>10. Types(cs, s.nc, ps2, ts2, es2)
  <2>1. Reader(p) \in [handler : Handlers, pk : 1 .. MaxPkgs]
    BY <1>2 DEF Reader, Handlers
  <2>2. entry \in Entry
    BY <1>2 DEF Entry, Data
  <2>3. QED
    BY <1>3, <1>4, <1>5, <1>8, <2>1, <2>2 DEF Types
<1>11. Linked(cs, ps2)
  <2>1. ASSUME NEW q \in DOMAIN ps2
        PROVE  LinksOf(cs, ps2, q)
    <3>1. q \in DOMAIN ps /\ LinksOf(cs, ps, q)
      BY <1>3, <1>4 DEF Linked
    <3>2. QED
      BY <1>4, <1>6, <3>1 DEF LinksOf
  <2>2. \A x, y \in DOMAIN ps2 : Siblings(ps2, x, y) <=> Siblings(ps, x, y)
    BY <1>4, <1>6 DEF Siblings
  <2>3. \A x, y \in DOMAIN ps2 :
           ps2[x].ppg = NULL /\ ps2[y].ppg = NULL /\ ps2[x].cpn = ps2[y].cpn => x = y
    BY <1>3, <1>4, <1>6 DEF Linked
  <2>4. ASSUME NEW x \in DOMAIN ps2, NEW y \in DOMAIN ps2, Siblings(ps2, x, y), x < y
        PROVE  /\ ps2[x].nsg # NULL /\ ps2[x].nsg <= y
               /\ \E z \in DOMAIN ps2 : ps2[z].nsg = y
    <3>1. /\ ps[x].nsg # NULL /\ ps[x].nsg <= y
          /\ \E z \in DOMAIN ps : ps[z].nsg = y
      BY <1>3, <1>4, <2>2, <2>4 DEF Linked
    <3>2. QED
      BY <1>4, <1>6, <3>1
  <2>5. QED
    BY <2>1, <2>3, <2>4 DEF Linked
<1>12. Waiting(ps2, ts2, es2, R2)
  <2>1. \A q \in R2 : q \in DOMAIN ps2 /\ First(ps2, q)
    BY <1>3, <1>4, <1>7 DEF Waiting
  <2>2. \A u \in ts2 : u.pk \in DOMAIN ps2 \ R2 /\ First(ps2, u.pk)
    BY <1>2, <1>3, <1>4, <1>7 DEF Waiting, Reader
  <2>3. \A u, v \in ts2 : u.pk = v.pk => u = v
    BY <1>2, <1>3 DEF Waiting, Reader
  <2>4. ASSUME NEW q \in DOMAIN ps2 \ R2, First(ps2, q)
        PROVE  InQueue(ps2, es2, q) \/ \E u \in ts2 : u.pk = q
    <3>1. CASE q = p
      <4>1. Reader(p) \in ts2 /\ Reader(p).pk = p
        BY DEF Reader
      <4>2. QED
        BY <3>1, <4>1
    <3>2. CASE q # p
      <4>1. InQueue(ps, es, q) \/ \E u \in ts : u.pk = q
        BY <1>3, <1>4, <1>7, <2>4, <3>2 DEF Waiting
      <4>2. InQueue(ps, es, q) => InQueue(ps2, es2, q)
        BY <1>4, <1>8, <3>2, <2>4 DEF InQueue
      <4>3. QED
        BY <4>1, <4>2
    <3>3. QED
      BY <3>1, <3>2
  <2>5. QED
    BY <2>1, <2>2, <2>3, <2>4 DEF Waiting
<1>13. Phases(cs, ps2, ts2, es2)
  <2>1. ASSUME NEW u \in ts PROVE Phase(cs, es2, u.handler, u.pk, ps2[u.pk])
    <3>1. Phase(cs, es, u.handler, u.pk, ps[u.pk]) /\ ps2[u.pk] = ps[u.pk]
      BY <1>2, <1>3, <1>4 DEF Phases, Waiting
    <3>2. /\ DOMAIN es \subseteq DOMAIN es2
          /\ \A k \in DOMAIN es : es2[k].status = es[k].status /\ es2[k].queue = es[k].queue
      BY <1>8
    <3>3. Phase(cs, es2, u.handler, u.pk, ps[u.pk])
      BY <3>1, <3>2 DEF Phase, WritingBlock
    <3>4. QED
      BY <3>1, <3>3
  <2>2. Phase(cs, es2, "svr_http_body_pio", p, ps2[p])
    BY <1>5, <1>8, <1>9 DEF Phase
  <2>3. \A u \in ts2 : Phase(cs, es2, u.handler, u.pk, ps2[u.pk])
    BY <2>1, <2>2 DEF Reader
  <2>4. ASSUME NEW q \in DOMAIN ps2, ps2[q].ppg # NULL, ~First(ps2, q)
        PROVE  Fresh(ps2[q])
    BY <1>2, <1>3, <1>4, <1>6, <1>7, <2>4 DEF Phases
  <2>5. QED
    BY <2>3, <2>4 DEF Phases
<1>14. Slots(cs, ps2, ts2, es2, R2)
  <2>1. ASSUME NEW k \in DOMAIN es, es[k].status = "reserved", NEW q \in Range(es[k].queue)
        PROVE  /\ q \in DOMAIN ps2 \ R2 /\ First(ps2, q)
               /\ Fetching(cs, ps2[q]) /\ BlockOf(ps2[q]) = k
               /\ \A u \in ts2 : u.pk = q => u = Reader(q)
    <3>1. /\ q \in DOMAIN ps \ R /\ First(ps, q)
          /\ Fetching(cs, ps[q]) /\ BlockOf(ps[q]) = k
          /\ \A u \in ts : u.pk = q => u = Reader(q)
      BY <1>3, <2>1 DEF Slots, Slot
    <3>2. q # p /\ ps2[q] = ps[q]
      BY <1>4, <3>1
    <3>3. QED
      BY <1>4, <1>7, <3>1, <3>2 DEF Reader
  <2>2. Range(entry.queue) = {p} /\ entry.queue[1] = p
        /\ IsInjective(entry.queue) /\ entry.queue # <<>>
    <3>1. entry.queue = <<p>> /\ DOMAIN <<p>> = {1} /\ <<p>>[1] = p
      OBVIOUS
    <3>2. QED
      BY <3>1 DEF Range, IsInjective
  <2>3. \A u \in ts2 : u.pk = p => u = Reader(p)
    BY <1>2
  <2>4. ASSUME NEW k \in DOMAIN es PROVE Slot(cs, ps2, ts2, R2, k, es[k])
    BY <1>3, <2>1 DEF Slots, Slot
  <2>5. Slot(cs, ps2, ts2, R2, key, entry)
    <3>1. key \in Plain \X (Nat \cup {-1}) /\ key[2] # -1 /\ key[2] <= FileSize[key[1]]
      BY <1>2, <1>9 DEF Package
    <3>2. QED
      BY <1>2, <1>4, <1>7, <1>9, <2>2, <2>3, <3>1 DEF Slot
  <2>6. \A k \in DOMAIN es2 : k = key \/ (k \in DOMAIN es /\ es2[k] = es[k])
    BY <1>8
  <2>7. QED
    BY <1>8, <2>4, <2>5, <2>6 DEF Slots
<1>15. Blocks(ps2, ts2, es2, R2)
  <2>1. ASSUME NEW q \in DOMAIN ps2, q # p, ps2[q].cbody # -1, ~ps2[q].cached
        PROVE  LET k == Block(ps2[q].uri, ps2[q].cbody) IN
               /\ k \in DOMAIN es2 /\ es2[k].status # "filled"
               /\ q \in R2 \/ Reader(q) \in ts2
    BY <1>3, <1>4, <1>8, <2>1 DEF Blocks
  <2>2. Block(ps2[p].uri, ps2[p].cbody) = key
    BY <1>5, <1>9 DEF Block, BlockOf
  <2>3. QED
    BY <1>8, <2>1, <2>2 DEF Blocks
<1>16. Counts(ps2, es2, R2)
  <2>1. ASSUME NEW k PROVE Users(ps2, R2, k) = Users(ps, R, k)
    BY <1>4, <1>9, FetchingUsesNothing DEF Users
  <2>2. Cardinality(Users(ps, R, key)) = 0
    BY <1>8, <1>9, UnusedBlock DEF key
  <2>3. key[2] # -1 /\ es2[key].refCount = 1 + Cardinality(Users(ps2, R2, key))
    <3>1. key[2] \in Nat
      BY <1>9
    <3>2. Cardinality(Users(ps2, R2, key)) = 0
      BY <2>1, <2>2
    <3>3. es2[key].refCount = 1
      BY <1>8
    <3>4. QED
      BY <3>1, <3>2, <3>3
  <2>4. QED
    BY <1>3, <1>8, <2>1, <2>3 DEF Counts
<1>17. Sizes(cs, s.nc, ps2)
  <2>1. \A cn : PackagesIn(ps2, cn) = PackagesIn(ps, cn)
    BY <1>4, <1>6 DEF PackagesIn
  <2>2. QED
    BY <1>3, <2>1 DEF Sizes
<1>18. QED
  BY <1>1, <1>10, <1>11, <1>12, <1>13, <1>14, <1>15, <1>16, <1>17 DEF Ready, Good

LEMMA AppendFacts ==
  ASSUME NEW q \in Seq(1 .. MaxPkgs), NEW p \in 1 .. MaxPkgs, q # <<>>,
         IsInjective(q), p \notin Range(q)
  PROVE  /\ Append(q, p) \in Seq(1 .. MaxPkgs) /\ Range(Append(q, p)) = Range(q) \cup {p}
         /\ Append(q, p)[1] = q[1] /\ IsInjective(Append(q, p)) /\ Append(q, p) # <<>>
<1> DEFINE a == Append(q, p)
<1>1. /\ a \in Seq(1 .. MaxPkgs) /\ Len(q) \in Nat \ {0} /\ DOMAIN q = 1 .. Len(q)
      /\ Len(a) = Len(q) + 1 /\ DOMAIN a = 1 .. Len(a) /\ a[Len(q) + 1] = p
      /\ \A i \in DOMAIN q : a[i] = q[i]
  OBVIOUS
<1> HIDE DEF a
<1>2. DOMAIN a = DOMAIN q \cup {Len(q) + 1} /\ 1 \in DOMAIN q
  BY <1>1
<1>3. Range(a) = Range(q) \cup {p}
  BY <1>1, <1>2 DEF Range
<1>4. IsInjective(a)
  BY <1>1, <1>2 DEF IsInjective, Range
<1>5. QED
  BY <1>1, <1>2, <1>3, <1>4 DEF a

\* Another connection is reading the block: the package joins its queue.
LEMMA QueueReady ==
  ASSUME NEW s, NEW R, Ready(s, R), NEW p \in R, NEW t,
         SameBut(s, t, {"cache"}),
         Fetching(s.conn, s.pkg[p]), s.pkg[p].cbody = -1 \/ s.pkg[p].cached,
         BlockOf(s.pkg[p]) \in DOMAIN s.cache,
         s.cache[BlockOf(s.pkg[p])].status = "reserved",
         t.cache = [s.cache EXCEPT ![BlockOf(s.pkg[p])].queue = Append(@, p)]
  PROVE  Ready(t, R \ {p})
<1> DEFINE cs == s.conn
           ps == s.pkg
           ts == s.pending
           es == s.cache
           es2 == t.cache
           R2 == R \ {p}
           key == BlockOf(ps[p])
           old == es[key].queue
<1>1. IsState(t) /\ t.abort = "none" /\ t.conn = cs /\ t.nc = s.nc /\ t.pkg = ps /\ t.pending = ts
  BY ReadyParts DEF SameBut
<1>2. /\ p \in DOMAIN ps /\ ps[p] \in Package /\ First(ps, p) /\ LinksOf(cs, ps, p)
      /\ p \in 1 .. MaxPkgs /\ \A u \in ts : u.pk # p
  BY RunningFacts
<1>3. /\ Types(cs, s.nc, ps, ts, es) /\ Linked(cs, ps) /\ Waiting(ps, ts, es, R)
      /\ Phases(cs, ps, ts, es) /\ Slots(cs, ps, ts, es, R) /\ Addresses(ps)
      /\ Blocks(ps, ts, es, R) /\ Counts(ps, es, R) /\ Sizes(cs, s.nc, ps)
  BY ReadyParts
<1>4. /\ es[key] \in Entry
      /\ old \in Seq(1 .. MaxPkgs) /\ old # <<>> /\ IsInjective(old) /\ p \notin Range(old)
  BY <1>3 DEF Types, Slots, Slot, Entry
<1>5. /\ DOMAIN es2 = DOMAIN es
      /\ \A k \in DOMAIN es : k # key => es2[k] = es[k]
      /\ es2[key] = [es[key] EXCEPT !.queue = Append(old, p)]
  OBVIOUS
<1> HIDE DEF key, old
<1> DEFINE app == Append(old, p)
<1>6. /\ app \in Seq(1 .. MaxPkgs) /\ Range(app) = Range(old) \cup {p}
      /\ app[1] = old[1] /\ IsInjective(app) /\ app # <<>>
  <2>1. /\ old \in Seq(1 .. MaxPkgs) /\ p \in 1 .. MaxPkgs /\ old # <<>>
        /\ IsInjective(old) /\ p \notin Range(old)
    BY <1>2, <1>4
  <2>2. QED
    BY <2>1, AppendFacts
<1> HIDE DEF app
<1>7. /\ es2[key].status = es[key].status /\ es2[key].data = es[key].data
      /\ es2[key].refCount = es[key].refCount /\ es2[key].queue = app
      /\ es2[key] \in Entry
  BY <1>4, <1>5, <1>6 DEF app, old, Entry
<1>8. key \in DOMAIN es /\ es[key].status = "reserved"
  BY DEF key
<1>9. /\ DOMAIN es2 = DOMAIN es
      /\ \A k \in DOMAIN es :
            /\ es2[k].status = es[k].status /\ es2[k].data = es[k].data
            /\ es2[k].refCount = es[k].refCount
            /\ Range(es[k].queue) \subseteq Range(es2[k].queue)
            /\ Range(es2[k].queue) \subseteq Range(es[k].queue) \cup {p}
            /\ es[k].status = "reserved" => es2[k].queue[1] = es[k].queue[1]
            /\ k # key => es2[k] = es[k]
  BY <1>5, <1>6, <1>7 DEF old
<1>10. Types(cs, s.nc, ps, ts, es2)
  BY <1>3, <1>5, <1>7 DEF Types
<1>11. Waiting(ps, ts, es2, R2)
  <2>1. ASSUME NEW q \in DOMAIN ps \ R2, First(ps, q)
        PROVE  InQueue(ps, es2, q) \/ \E u \in ts : u.pk = q
    <3>1. CASE q = p
      <4>1. ps[p].ppg # NULL /\ key \in DOMAIN es2 /\ p \in Range(es2[key].queue)
        BY <1>6, <1>7, <1>8, <1>9 DEF Fetching
      <4>2. QED
        BY <3>1, <4>1 DEF InQueue, key
    <3>2. CASE q # p
      <4>1. InQueue(ps, es, q) \/ \E u \in ts : u.pk = q
        BY <1>3, <2>1, <3>2 DEF Waiting
      <4>2. InQueue(ps, es, q) => InQueue(ps, es2, q)
        BY <1>9 DEF InQueue
      <4>3. QED
        BY <4>1, <4>2
    <3>3. QED
      BY <3>1, <3>2
  <2>2. QED
    BY <1>3, <2>1 DEF Waiting
<1>12. Phases(cs, ps, ts, es2)
  <2>1. ASSUME NEW u \in ts PROVE Phase(cs, es2, u.handler, u.pk, ps[u.pk])
    <3>1. Phase(cs, es, u.handler, u.pk, ps[u.pk])
      BY <1>3 DEF Phases
    <3>2. QED
      BY <1>9, <3>1 DEF Phase, WritingBlock
  <2>2. QED
    BY <1>3, <2>1 DEF Phases
<1>13. Slots(cs, ps, ts, es2, R2)
  <2>1. ASSUME NEW k \in DOMAIN es, es[k].status = "reserved", NEW q \in Range(es2[k].queue)
        PROVE  /\ q \in DOMAIN ps \ R2 /\ First(ps, q)
               /\ Fetching(cs, ps[q]) /\ BlockOf(ps[q]) = k
               /\ \A u \in ts : u.pk = q => u = Reader(q)
    <3>1. CASE q \in Range(es[k].queue)
      BY <1>3, <2>1, <3>1 DEF Slots, Slot
    <3>2. CASE q \notin Range(es[k].queue)
      BY <1>2, <1>9, <2>1, <3>2 DEF key
    <3>3. QED
      BY <3>1, <3>2
  <2>2. \A k \in DOMAIN es :
           /\ es[k].status = "reserved" => es2[k].queue # <<>> /\ IsInjective(es2[k].queue)
           /\ es[k].status # "reserved" => es2[k].queue = <<>>
    <3>1. ASSUME NEW k \in DOMAIN es, k # key
          PROVE  /\ es[k].status = "reserved" => es[k].queue # <<>> /\ IsInjective(es[k].queue)
                 /\ es[k].status # "reserved" => es[k].queue = <<>>
      BY <1>3 DEF Slots, Slot
    <3>2. es2[key].queue # <<>> /\ IsInjective(es2[key].queue)
      BY <1>6, <1>7
    <3>3. QED
      BY <1>8, <1>9, <3>1, <3>2
  <2>3. ASSUME NEW k \in DOMAIN es
        PROVE  /\ k \in Plain \X (Nat \cup {-1})
               /\ k[2] = -1 => es2[k].status = "filled" /\ es2[k].data \in HeadData
               /\ k[2] # -1 => k[2] <= FileSize[k[1]]
               /\ k[2] # -1 /\ es2[k].status = "filled" => es2[k].data.size = BlockSize(k)
               /\ es2[k].status = "reserved" => Reader(es2[k].queue[1]) \in ts
    <3>1. /\ k \in Plain \X (Nat \cup {-1})
          /\ k[2] = -1 => es[k].status = "filled" /\ es[k].data \in HeadData
          /\ k[2] # -1 => k[2] <= FileSize[k[1]]
          /\ k[2] # -1 /\ es[k].status = "filled" => es[k].data.size = BlockSize(k)
          /\ es[k].status = "reserved" => Reader(es[k].queue[1]) \in ts
      BY <1>3 DEF Slots, Slot
    <3>2. QED
      BY <1>9, <3>1
  <2>4. ASSUME NEW k \in DOMAIN es
        PROVE  /\ es2[k].status # "reserved" => es2[k].queue = <<>>
               /\ es2[k].status = "reserved" =>
                  /\ es2[k].queue # <<>> /\ IsInjective(es2[k].queue)
                  /\ \A q \in Range(es2[k].queue) :
                        /\ q \in DOMAIN ps \ R2 /\ First(ps, q)
                        /\ Fetching(cs, ps[q]) /\ BlockOf(ps[q]) = k
                        /\ \A u \in ts : u.pk = q => u = Reader(q)
    <3>1. es2[k].status = es[k].status
      BY <1>9
    <3>2. QED
      BY <2>1, <2>2, <3>1
  <2>5. DOMAIN es2 = DOMAIN es
    BY <1>9
  <2>6. ASSUME NEW k \in DOMAIN es PROVE Slot(cs, ps, ts, R2, k, es2[k])
    <3>1. \A q \in Range(es2[k].queue) :
             es2[k].status = "reserved" =>
                 /\ q \in DOMAIN ps \ R2 /\ First(ps, q)
                 /\ Fetching(cs, ps[q]) /\ BlockOf(ps[q]) = k
                 /\ \A u \in ts : u.pk = q => u = Reader(q)
      BY <2>4
    <3>2. es2[k].status = "reserved" => es2[k].queue # <<>> /\ IsInjective(es2[k].queue)
      BY <2>4
    <3>3. es2[k].status # "reserved" => es2[k].queue = <<>>
      BY <2>4
    <3>4. /\ k \in Plain \X (Nat \cup {-1})
          /\ k[2] = -1 => es2[k].status = "filled" /\ es2[k].data \in HeadData
          /\ k[2] # -1 => k[2] <= FileSize[k[1]]
          /\ k[2] # -1 /\ es2[k].status = "filled" => es2[k].data.size = BlockSize(k)
          /\ es2[k].status = "reserved" => Reader(es2[k].queue[1]) \in ts
      BY <2>3
    <3> DEFINE e == es2[k]
    <3> HIDE DEF e
    <3>5. Slot(cs, ps, ts, R2, k, e)
      <4>1. CASE e.status = "reserved"
        BY <3>1, <3>2, <3>4, <4>1 DEF Slot, e
      <4>2. CASE e.status # "reserved"
        BY <3>3, <3>4, <4>2 DEF Slot, e
      <4>3. QED
        BY <4>1, <4>2
    <3>6. QED
      BY <3>5 DEF e
  <2>7. QED
    BY <2>5, <2>6 DEF Slots
<1>14. Blocks(ps, ts, es2, R2)
  <2>1. ASSUME NEW q \in DOMAIN ps, ps[q].cbody # -1, ~ps[q].cached
        PROVE  LET k == Block(ps[q].uri, ps[q].cbody) IN
               /\ k \in DOMAIN es /\ es[k].status # "filled"
               /\ q \in R2 \/ Reader(q) \in ts
    BY <1>3, <2>1 DEF Blocks
  <2>2. QED
    BY <1>9, <2>1 DEF Blocks
<1>15. Counts(ps, es2, R2)
  <2>1. ASSUME NEW k PROVE Users(ps, R2, k) = Users(ps, R, k)
    BY FetchingUsesNothing DEF Users
  <2>2. QED
    BY <1>3, <1>9, <2>1 DEF Counts
<1>16. QED
  BY <1>1, <1>3, <1>10, <1>11, <1>12, <1>13, <1>14, <1>15 DEF Ready, Good

(***************************************************************************)
(* Induction over the naturals, stated with sets                           *)
(***************************************************************************)

LEMMA LeastNatural ==
  ASSUME NEW T \in SUBSET Nat, T # {}
  PROVE  \E n \in T : \A m \in T : n <= m
<1> DEFINE less == OpToRel(<, Nat)
<1>1. IsWellFoundedOn(less, Nat)
  BY NatLessThanWellFounded, Zenon
<1>2. \A m, n \in Nat : m < n => <<m, n>> \in less
  BY DEF OpToRel
<1> HIDE DEF less
<1>3. PICK n \in T : \A m \in T : ~(<<m, n>> \in less)
  BY <1>1, WFMin
<1>4. \A m \in T : ~(m < n)
  BY <1>2, <1>3, Zenon
<1>5. \A m \in T : n <= m
  BY <1>4
<1>6. QED
  BY <1>5

\* A set that holds 0 and, with each number below N, the next one, holds 0 .. N.
LEMMA Induction ==
  ASSUME NEW N \in Nat, NEW S, 0 \in S, \A n \in 1 .. N : n - 1 \in S => n \in S
  PROVE  0 .. N \subseteq S
<1> DEFINE T == {n \in 0 .. N : n \notin S}
<1>1. SUFFICES ASSUME T # {} PROVE FALSE
  OBVIOUS
<1>2. T \in SUBSET Nat
  OBVIOUS
<1> HIDE DEF T
<1>3. PICK n \in T : \A m \in T : n <= m
  BY <1>1, <1>2, LeastNatural
<1>4. QED
  BY <1>3 DEF T

(***************************************************************************)
(* The callbacks in the queue of a slot                                    *)
(***************************************************************************)

\* f is the function of the states between the calls.
CallRun(f, n, s, queue, data) ==
    f = [i \in 0 .. n |-> IF i = 0 THEN s ELSE CallBack(f[i - 1], queue[i], data)]

LEMMA CallRunExists ==
  ASSUME NEW s, NEW queue, NEW data, NEW N \in Nat
  PROVE  \E f : CallRun(f, N, s, queue, data)
<1> DEFINE S == {n \in 0 .. N : \E f : CallRun(f, n, s, queue, data)}
<1>1. 0 \in S
  <2> DEFINE f == [i \in 0 .. 0 |-> s]
  <2>1. CallRun(f, 0, s, queue, data)
    BY DEF CallRun
  <2>2. QED
    BY <2>1
<1>2. ASSUME NEW n \in 1 .. N, n - 1 \in S
      PROVE  n \in S
  <2>1. PICK f : CallRun(f, n - 1, s, queue, data)
    BY <1>2
  <2> DEFINE last == CallBack(f[n - 1], queue[n], data)
             g == [i \in 0 .. n |-> IF i = n THEN last ELSE f[i]]
  <2>2. \A i \in 0 .. n - 1 : f[i] = IF i = 0 THEN s ELSE CallBack(f[i - 1], queue[i], data)
    BY <2>1 DEF CallRun
  <2>3. ASSUME NEW i \in 0 .. n
        PROVE  g[i] = IF i = 0 THEN s ELSE CallBack(g[i - 1], queue[i], data)
    <3>1. CASE i = n
      <4>1. i # 0 /\ i - 1 \in 0 .. n /\ i - 1 # n /\ i - 1 = n - 1
        BY <3>1
      <4>2. g[i - 1] = f[n - 1]
        BY <4>1
      <4>3. g[i] = last
        BY <3>1
      <4>4. QED
        BY <3>1, <4>1, <4>2, <4>3
    <3>2. CASE i # n
      <4>1. i \in 0 .. n - 1 /\ g[i] = f[i]
        BY <3>2
      <4>2. CASE i = 0
        BY <2>2, <4>1, <4>2
      <4>3. CASE i # 0
        <5>1. g[i - 1] = f[i - 1]
          BY <4>1, <4>3
        <5>2. QED
          BY <2>2, <4>1, <4>3, <5>1
      <4>4. QED
        BY <4>2, <4>3
    <3>3. QED
      BY <3>1, <3>2
  <2>4. g = [i \in 0 .. n |-> g[i]]
    OBVIOUS
  <2> HIDE DEF g
  <2>5. CallRun(g, n, s, queue, data)
    BY <2>3, <2>4 DEF CallRun
  <2>6. QED
    BY <2>5
<1> HIDE DEF S
<1>3. 0 .. N \subseteq S
  BY <1>1, <1>2, Induction
<1>4. QED
  BY <1>3 DEF S

LEMMA CallsInTurn ==
  ASSUME NEW s, NEW queue, NEW data, Len(queue) \in Nat
  PROVE  \E f : /\ f[0] = s
                /\ \A i \in 1 .. Len(queue) : f[i] = CallBack(f[i - 1], queue[i], data)
                /\ CallInTurn(s, queue, data) = f[Len(queue)]
<1> DEFINE n == Len(queue)
           F == CHOOSE f : CallRun(f, n, s, queue, data)
<1>1. CallRun(F, n, s, queue, data)
  <2>1. \E f : CallRun(f, n, s, queue, data)
    BY CallRunExists
  <2>2. QED
    BY <2>1, Zenon
<1>2. CallInTurn(s, queue, data) = F[n]
  BY DEF CallInTurn, CallRun
<1> HIDE DEF F
<1>3. F[0] = s /\ \A i \in 1 .. n : F[i] = CallBack(F[i - 1], queue[i], data)
  BY <1>1 DEF CallRun
<1>4. QED
  BY <1>2, <1>3

(***************************************************************************)
(* cancelReservation                                                       *)
(***************************************************************************)

Finals(s, queue) == CallInTurn(s, queue, NoData)


\* The read of a block failed: everybody who waits for it is told.
LEMMA CancelStarts ==
  ASSUME NEW s, Ready(s, {}), NEW p, Reader(p) \in s.pending,
         NEW t, SameBut(s, t, {"conn", "pending", "cache"}),
         t.pending = s.pending \ {Reader(p)},
         Stopped(s.conn, t.conn, s.pkg[p].cpn),
         t.cache = [s.cache EXCEPT ![BlockOf(s.pkg[p])].status = "cancelled",
                                   ![BlockOf(s.pkg[p])].queue = <<>>]
  PROVE  Ready(t, Range(s.cache[BlockOf(s.pkg[p])].queue))
<1> DEFINE cs == s.conn
           ps == s.pkg
           ts == s.pending
           es == s.cache
           cs2 == t.conn
           ts2 == t.pending
           es2 == t.cache
           key == BlockOf(ps[p])
           Q == Range(es[key].queue)
<1>1. IsState(t) /\ t.abort = "none" /\ t.nc = s.nc /\ t.pkg = ps
  BY ReadyParts DEF SameBut
<1>2. /\ Types(cs, s.nc, ps, ts, es) /\ Linked(cs, ps) /\ Waiting(ps, ts, es, {})
      /\ Phases(cs, ps, ts, es) /\ Slots(cs, ps, ts, es, {}) /\ Addresses(ps)
      /\ Blocks(ps, ts, es, {}) /\ Counts(ps, es, {}) /\ Sizes(cs, s.nc, ps)
  BY ReadyParts
<1>3. p \in DOMAIN ps /\ First(ps, p) /\ \A u \in ts : u.pk = p => u = Reader(p)
  BY <1>2 DEF Waiting, Reader
<1>4. /\ Fetching(cs, ps[p]) /\ key \in DOMAIN es
      /\ es[key].status = "reserved" /\ es[key].queue[1] = p
  <2>1. Phase(cs, es, "svr_http_body_pio", p, ps[p])
    BY <1>2 DEF Phases, Reader
  <2>2. QED
    BY <2>1 DEF Phase
<1>5. /\ es[key] \in Entry
      /\ es[key].queue \in Seq(1 .. MaxPkgs) /\ es[key].queue # <<>>
  BY <1>2, <1>4 DEF Types, Slots, Slot, Entry
<1>6. p \in Q
  <2>1. 1 \in DOMAIN es[key].queue
    BY <1>5
  <2>2. QED
    BY <1>4, <2>1 DEF Range
<1>7. \A q \in Q : /\ q \in DOMAIN ps /\ First(ps, q) /\ Fetching(cs, ps[q])
                   /\ BlockOf(ps[q]) = key /\ \A u \in ts : u.pk = q => u = Reader(q)
  BY <1>2, <1>4 DEF Slots, Slot
<1>8. /\ DOMAIN es2 = DOMAIN es
      /\ \A k \in DOMAIN es : k # key => es2[k] = es[k]
      /\ es2[key].status = "cancelled" /\ es2[key].queue = <<>>
      /\ es2[key].data = es[key].data /\ es2[key].refCount = es[key].refCount
      /\ es2[key] \in Entry
  <2> DEFINE e == [es[key] EXCEPT !.status = "cancelled", !.queue = <<>>]
  <2>1. es2 = [es EXCEPT ![key] = e]
    BY <1>4
  <2>2. /\ e.status = "cancelled" /\ e.queue = <<>>
        /\ e.data = es[key].data /\ e.refCount = es[key].refCount
        /\ e \in Entry
    <3> DEFINE x == es[key]
    <3>1. x \in Entry
      BY <1>5
    <3>2. <<>> \in Seq(1 .. MaxPkgs)
      OBVIOUS
    <3> HIDE DEF x
    <3>3. /\ [x EXCEPT !.status = "cancelled", !.queue = <<>>].status = "cancelled"
          /\ [x EXCEPT !.status = "cancelled", !.queue = <<>>].queue = <<>>
          /\ [x EXCEPT !.status = "cancelled", !.queue = <<>>].data = x.data
          /\ [x EXCEPT !.status = "cancelled", !.queue = <<>>].refCount = x.refCount
          /\ [x EXCEPT !.status = "cancelled", !.queue = <<>>]
                \in Entry
      BY <3>1, <3>2 DEF Entry
    <3>4. QED
      BY <3>3 DEF x
  <2> HIDE DEF e, key
  <2>3. QED
    BY <1>4, <2>1, <2>2
<1> HIDE DEF key, Q
<1>9. ASSUME NEW u \in ts2 PROVE u.pk \notin Q
  <2>1. SUFFICES ASSUME u.pk \in Q PROVE FALSE
    OBVIOUS
  <2>2. u = Reader(u.pk) /\ BlockOf(ps[u.pk]) = key
    BY <1>7, <2>1
  <2>3. Phase(cs, es, "svr_http_body_pio", u.pk, ps[u.pk])
    BY <1>2, <2>2 DEF Phases, Reader
  <2>4. u.pk = p
    BY <1>4, <2>2, <2>3 DEF Phase
  <2>5. QED
    BY <2>2, <2>4
<1>10. \A q \in DOMAIN ps : First(ps, q) /\ q # p => cs2[ps[q].cpn] = cs[ps[q].cpn]
  <2>1. \A q \in DOMAIN ps : ps[q].cpn \in DOMAIN cs
    BY <1>2 DEF Linked, LinksOf
  <2>2. QED
    BY <1>2, <1>3, <2>1, OneFirst DEF Stopped
<1>11. Types(cs2, s.nc, ps, ts2, es2)
  BY <1>2, <1>8 DEF Types, Stopped
<1>12. Linked(cs2, ps)
  <2>1. \A q \in DOMAIN ps : LinksOf(cs2, ps, q)
    <3>1. ASSUME NEW q \in DOMAIN ps PROVE LinksOf(cs2, ps, q)
      <4>1. LinksOf(cs, ps, q) /\ DOMAIN cs2 = DOMAIN cs
        BY <1>2 DEF Linked, Stopped
      <4>2. QED
        BY <4>1 DEF LinksOf
    <3>2. QED
      BY <3>1
  <2>2. QED
    BY <1>2, <2>1 DEF Linked
<1>13. Waiting(ps, ts2, es2, Q)
  <2>1. \A q \in Q : q \in DOMAIN ps /\ First(ps, q)
    BY <1>7
  <2>2. \A u \in ts2 : u.pk \in DOMAIN ps \ Q /\ First(ps, u.pk)
    BY <1>2, <1>9 DEF Waiting
  <2>3. \A u, v \in ts2 : u.pk = v.pk => u = v
    BY <1>2 DEF Waiting
  <2>4. ASSUME NEW q \in DOMAIN ps \ Q, First(ps, q)
        PROVE  InQueue(ps, es2, q) \/ \E u \in ts2 : u.pk = q
    <3>1. CASE \E u \in ts : u.pk = q
      BY <1>6, <2>4, <3>1 DEF Reader
    <3>2. CASE InQueue(ps, es, q)
      <4>1. BlockOf(ps[q]) # key
        BY <2>4, <3>2 DEF InQueue, Q
      <4>2. QED
        BY <1>8, <3>2, <4>1 DEF InQueue
    <3>3. QED
      BY <1>2, <2>4, <3>1, <3>2 DEF Waiting
  <2>5. QED
    BY <2>1, <2>2, <2>3, <2>4 DEF Waiting
<1>14. Phases(cs2, ps, ts2, es2)
  <2>1. ASSUME NEW u \in ts2 PROVE Phase(cs2, es2, u.handler, u.pk, ps[u.pk])
    <3>1. Phase(cs, es, u.handler, u.pk, ps[u.pk])
      BY <1>2 DEF Phases
    <3>2. u.pk \in DOMAIN ps /\ First(ps, u.pk) /\ u.pk # p
      BY <1>2, <1>3 DEF Waiting
    <3>3. Phase(cs2, es, u.handler, u.pk, ps[u.pk])
      BY <1>10, <3>1, <3>2, PhaseFrame
    <3>4. u.handler = "svr_http_body_pio" => BlockOf(ps[u.pk]) # key
      BY <1>4, <3>1, <3>2 DEF Phase
    <3>5. WritingBlock(es, ps[u.pk]) => WritingBlock(es2, ps[u.pk])
      BY <1>4, <1>8 DEF WritingBlock
    <3>6. QED
      BY <1>8, <3>3, <3>4, <3>5 DEF Phase
  <2>2. QED
    BY <1>2, <2>1 DEF Phases
<1>15. Slots(cs2, ps, ts2, es2, Q)
  <2>1. ASSUME NEW k \in DOMAIN es, k # key, es[k].status = "reserved"
        PROVE  /\ Reader(es[k].queue[1]) \in ts2
               /\ \A q \in Range(es[k].queue) : q \in DOMAIN ps \ Q /\ Fetching(cs2, ps[q])
    <3>1. /\ es[k].queue # <<>> /\ Reader(es[k].queue[1]) \in ts
          /\ \A q \in Range(es[k].queue) :
                /\ q \in DOMAIN ps /\ First(ps, q)
                /\ Fetching(cs, ps[q]) /\ BlockOf(ps[q]) = k
      BY <1>2, <2>1 DEF Slots, Slot
    <3>2. es[k].queue[1] \in Range(es[k].queue)
      <4>1. es[k].queue \in Seq(1 .. MaxPkgs)
        BY <1>2 DEF Types, Entry
      <4>2. 1 \in DOMAIN es[k].queue
        BY <3>1, <4>1
      <4>3. QED
        BY <4>2 DEF Range
    <3>3. \A q \in Range(es[k].queue) : q \notin Q /\ q # p
      BY <1>6, <1>7, <2>1, <3>1
    <3>4. Reader(es[k].queue[1]) # Reader(p)
      BY <3>2, <3>3 DEF Reader
    <3>5. \A q \in Range(es[k].queue) : Fetching(cs2, ps[q])
      BY <1>10, <3>1, <3>3 DEF Fetching
    <3>6. QED
      BY <3>1, <3>3, <3>4, <3>5
  <2>2. key \in Plain \X (Nat \cup {-1}) /\ key[2] # -1 /\ key[2] <= FileSize[key[1]]
    BY <1>2, <1>4 DEF Slots, Slot
  <2>3. ASSUME NEW k \in DOMAIN es, k # key
        PROVE  Slot(cs2, ps, ts2, Q, k, es[k])
    BY <1>2, <2>1, <2>3 DEF Slots, Slot
  <2>4. Slot(cs2, ps, ts2, Q, key, es2[key])
    BY <1>8, <2>2 DEF Slot
  <2>5. \A k \in DOMAIN es2 : k = key \/ (k \in DOMAIN es /\ k # key /\ es2[k] = es[k])
    BY <1>8
  <2>6. QED
    BY <2>3, <2>4, <2>5 DEF Slots
<1>16. Blocks(ps, ts2, es2, Q)
  <2>1. ASSUME NEW q \in DOMAIN ps, ps[q].cbody # -1, ~ps[q].cached
        PROVE  LET k == Block(ps[q].uri, ps[q].cbody) IN
               /\ k \in DOMAIN es /\ es[k].status # "filled"
               /\ q \in Q \/ Reader(q) \in ts2
    <3>1. Reader(q) \in ts
      BY <1>2, <2>1 DEF Blocks
    <3>2. Reader(q) \in ts2 \/ q = p
      BY <3>1 DEF Reader
    <3>3. QED
      BY <1>2, <1>6, <2>1, <3>2 DEF Blocks
  <2>2. QED
    BY <1>8, <2>1 DEF Blocks
<1>17. Counts(ps, es2, Q)
  <2>1. ASSUME NEW k PROVE Users(ps, Q, k) = Users(ps, {}, k)
    BY <1>7, FetchingUsesNothing DEF Users
  <2>2. key[2] # -1
    BY <1>2, <1>4 DEF Slots, Slot
  <2>3. QED
    BY <1>2, <1>8, <2>1, <2>2 DEF Counts
<1>18. Sizes(cs2, s.nc, ps)
  BY <1>2 DEF Sizes, Stopped
<1>19. QED
  BY <1>1, <1>11, <1>12, <1>13, <1>14, <1>15, <1>16, <1>17, <1>18 DEF Ready, Good, Q, key

\* The packages of a queue that are called after the i-th.
After(queue, i) == {queue[j] : j \in i + 1 .. Len(queue)}

\* The states between the calls: each package of the queue is as it was until its
\* turn comes.
LEMMA FinalsRun ==
  ASSUME NEW s, NEW queue \in Seq(1 .. MaxPkgs), IsInjective(queue), Ready(s, Range(queue)),
         \A q \in Range(queue) :
             s.pkg[q].ppg # NULL /\ Writable(s.conn, s.pkg[q]) /\ s.pkg[q].wst = "BODY"
  PROVE  \E f : /\ f[0] = s /\ Finals(s, queue) = f[Len(queue)]
                /\ Ready(f[Len(queue)], {})
                /\ \A i \in 1 .. Len(queue) :
                      /\ f[i] = svr_http_final(f[i - 1], queue[i])
                      /\ Ready(f[i - 1], After(queue, i - 1)) /\ queue[i] \in After(queue, i - 1)
                      /\ f[i - 1].pkg[queue[i]] = s.pkg[queue[i]] /\ f[i - 1].conn = s.conn
<1> DEFINE n == Len(queue)
           Rest(i) == After(queue, i)
           As(t, q) == t.pkg[q] = s.pkg[q] /\ t.conn = s.conn
<1>1. n \in Nat /\ DOMAIN queue = 1 .. n
  OBVIOUS
<1>2. PICK f : /\ f[0] = s
               /\ \A i \in 1 .. n : f[i] = CallBack(f[i - 1], queue[i], NoData)
               /\ Finals(s, queue) = f[n]
  BY <1>1, CallsInTurn DEF Finals
<1> DEFINE S == {i \in 0 .. n : Ready(f[i], Rest(i)) /\ \A q \in Rest(i) : As(f[i], q)}
<1>3. Rest(0) = Range(queue) /\ Rest(n) = {}
  BY <1>1 DEF Range, After
<1>4. 0 \in S
  <2>1. Ready(f[0], Rest(0)) /\ \A q \in Rest(0) : As(f[0], q)
    BY <1>2, <1>3
  <2> HIDE DEF Rest, As
  <2>2. QED
    BY <1>1, <2>1
<1>5. ASSUME NEW i \in 1 .. n, i - 1 \in S
      PROVE  i \in S
  <2> DEFINE a == f[i - 1]
             p == queue[i]
  <2>1. Ready(a, Rest(i - 1)) /\ \A q \in Rest(i - 1) : As(a, q)
    BY <1>5
  <2>2. p \in Rest(i - 1) /\ Rest(i) = Rest(i - 1) \ {p} /\ p \in Range(queue)
    <3>1. (i - 1) + 1 .. n = {i} \cup (i + 1 .. n) /\ i \notin i + 1 .. n
      BY <1>1
    <3>2. \A j \in i + 1 .. n : queue[j] # p
      <4>1. \A j \in i + 1 .. n : j \in DOMAIN queue /\ j # i
        BY <1>1
      <4>2. i \in DOMAIN queue
        BY <1>1
      <4>3. QED
        BY <4>1, <4>2 DEF IsInjective
    <3>3. QED
      BY <1>1, <3>1, <3>2 DEF Range, After
  <2> HIDE DEF Rest
  <2>3. a.pkg[p] = s.pkg[p] /\ a.conn = s.conn
    BY <2>1, <2>2
  <2>4. s.pkg[p].ppg # NULL /\ Writable(s.conn, s.pkg[p]) /\ s.pkg[p].wst = "BODY"
    BY <2>2
  <2>5. f[i] = svr_http_final(a, p)
    <3>1. f[i] = CallBack(a, p, NoData)
      BY <1>2
    <3>2. QED
      BY <2>3, <2>4, <3>1 DEF CallBack, svr_http_body_wio
  <2> HIDE DEF a, p
  <2>6. Ready(svr_http_final(a, p), Rest(i))
    <3>1. Ready(svr_http_final(a, p), Rest(i - 1) \ {p})
      BY <2>1, <2>2, <2>3, <2>4, FinalKeeps
    <3>2. QED
      BY <2>2, <3>1
  <2>7. ASSUME NEW q \in Rest(i) PROVE As(svr_http_final(a, p), q)
    <3>1. q \in Rest(i - 1) /\ q # p
      BY <2>2
    <3>2. a.pkg[q] = s.pkg[q] /\ s.pkg[q].ppg # NULL
      <4>1. q \in DOMAIN a.pkg /\ First(a.pkg, q)
        BY <2>1, <3>1, RunningFacts
      <4>2. q \in Range(queue)
        BY <1>1, <2>2, <2>7 DEF Rest, After, Range
      <4>3. QED
        BY <2>1, <3>1, <4>2
    <3>3. LinksOf(a.conn, a.pkg, p) /\ q \in DOMAIN a.pkg
      BY <2>1, <2>2, <3>1, RunningFacts
    <3>4. q # a.pkg[p].ppg
      BY <2>3, <2>4, <3>2, <3>3 DEF LinksOf
    <3>5. svr_http_final(a, p).pkg[q] = a.pkg[q] /\ svr_http_final(a, p).conn = a.conn
      <4> DEFINE b == svr_http_final(a, p)
      <4>1. /\ DOMAIN b.pkg = DOMAIN a.pkg \ {p}
            /\ \A x \in DOMAIN b.pkg : x # a.pkg[p].ppg => b.pkg[x] = a.pkg[x]
            /\ a.pkg[p].ppg # NULL => b.conn = a.conn
        <5>1. Finalised(a, b, p)
          BY <2>1, <2>2, FinalFields
        <5> HIDE DEF b
        <5>2. QED
          BY <5>1 DEF Finalised
      <4> HIDE DEF b
      <4>2. QED
        BY <2>3, <2>4, <3>1, <3>3, <3>4, <4>1 DEF b
    <3>6. QED
      BY <2>3, <3>2, <3>5
  <2>8. QED
    BY <2>5, <2>6, <2>7
<1> HIDE DEF S, Rest
<1>6. 0 .. n \subseteq S
  BY <1>1, <1>4, <1>5, Induction
<1>7. n \in S
  BY <1>1, <1>6
<1>8. Ready(f[n], {})
  BY <1>3, <1>7 DEF S
<1>9. ASSUME NEW i \in 1 .. n
      PROVE  /\ Ready(f[i - 1], Rest(i - 1)) /\ queue[i] \in Rest(i - 1)
             /\ f[i - 1].pkg[queue[i]] = s.pkg[queue[i]] /\ f[i - 1].conn = s.conn
             /\ f[i] = svr_http_final(f[i - 1], queue[i])
  <2>1. i - 1 \in S
    BY <1>1, <1>6
  <2>2. i \in i - 1 + 1 .. n
    BY <1>1
  <2>3. queue[i] \in Rest(i - 1)
    BY <2>2 DEF Rest, After
  <2>4. /\ Ready(f[i - 1], Rest(i - 1))
        /\ f[i - 1].pkg[queue[i]] = s.pkg[queue[i]] /\ f[i - 1].conn = s.conn
    BY <2>1, <2>3 DEF S
  <2>5. queue[i] \in Range(queue)
    BY <1>1 DEF Range
  <2>6. f[i] = CallBack(f[i - 1], queue[i], NoData) /\ f[i - 1].pkg[queue[i]].wst = "BODY"
    BY <1>2, <2>4, <2>5
  <2>7. f[i] = svr_http_final(f[i - 1], queue[i])
    BY <2>6 DEF CallBack, svr_http_body_wio
  <2>8. QED
    BY <2>3, <2>4, <2>7
<1>10. QED
  BY <1>2, <1>8, <1>9 DEF Rest

Cancelled(es, k) == [es EXCEPT ![k].status = "cancelled", ![k].queue = <<>>]

\* What cancelReservation does in state t, where package p of state s was the reader:
\* it cancels the slot and calls the packages of its queue from state u.
CancelFrom(s, p, t, u) ==
    LET key == BlockOf(s.pkg[p])
        queue == s.cache[key].queue
    IN  /\ Ready(u, Range(queue)) /\ u.pkg = s.pkg /\ u.conn = t.conn
        /\ u.cache = Cancelled(s.cache, key)
        /\ \A q \in Range(queue) :
              u.pkg[q].ppg # NULL /\ Writable(u.conn, u.pkg[q]) /\ u.pkg[q].wst = "BODY"
        /\ cancelReservation(t, key) = Finals(u, queue)

\* The error of the read of a block ends every package that waits for the block.
LEMMA CancelRuns ==
  ASSUME NEW s, Ready(s, {}), NEW p, Reader(p) \in s.pending,
         NEW t, SameBut(s, t, {"conn", "pending"}),
         t.pending = s.pending \ {Reader(p)},
         Stopped(s.conn, t.conn, s.pkg[p].cpn), Writable(t.conn, s.pkg[p])
  PROVE  \E u : CancelFrom(s, p, t, u)
<1> DEFINE key == BlockOf(s.pkg[p])
           queue == s.cache[key].queue
           u == [t EXCEPT !.cache[key].status = "cancelled", !.cache[key].queue = <<>>]
<1>1. /\ Types(s.conn, s.nc, s.pkg, s.pending, s.cache) /\ Linked(s.conn, s.pkg)
      /\ Waiting(s.pkg, s.pending, s.cache, {}) /\ Addresses(s.pkg)
      /\ Phases(s.conn, s.pkg, s.pending, s.cache)
      /\ Slots(s.conn, s.pkg, s.pending, s.cache, {})
  BY ReadyParts
<1>2. p \in DOMAIN s.pkg /\ First(s.pkg, p)
  BY <1>1 DEF Waiting, Reader
<1>3. key \in DOMAIN s.cache /\ s.cache[key].status = "reserved"
  <2>1. Phase(s.conn, s.cache, "svr_http_body_pio", p, s.pkg[p])
    BY <1>1 DEF Phases, Reader
  <2>2. QED
    BY <2>1 DEF Phase
<1>4. queue \in Seq(1 .. MaxPkgs) /\ IsInjective(queue)
  BY <1>1, <1>3 DEF Slots, Slot, Types, Entry
<1>5. t.cache = s.cache /\ t.pkg = s.pkg /\ IsState(t)
  BY DEF SameBut
<1>6. cancelReservation(t, key) = Finals(u, queue)
  BY <1>3, <1>5 DEF cancelReservation, Finals
<1> HIDE DEF key
<1>7. /\ SameBut(t, u, {"cache"})
      /\ u.cache = [s.cache EXCEPT ![key].status = "cancelled", ![key].queue = <<>>]
  BY <1>5 DEF SameBut, IsState
<1> HIDE DEF u
<1>8. SameBut(s, u, {"conn", "pending", "cache"}) /\ u.pending = t.pending /\ u.conn = t.conn
  BY <1>7 DEF SameBut
<1>9. Ready(u, Range(queue))
  BY <1>7, <1>8, CancelStarts DEF key
<1>10. ASSUME NEW q \in Range(queue)
       PROVE  u.pkg[q].ppg # NULL /\ Writable(u.conn, u.pkg[q]) /\ u.pkg[q].wst = "BODY"
  <2>1. q \in DOMAIN s.pkg /\ First(s.pkg, q) /\ Fetching(s.conn, s.pkg[q])
    BY <1>1, <1>3 DEF Slots, Slot
  <2>2. s.pkg[q].cpn \in DOMAIN s.conn
    BY <1>1, <2>1 DEF Linked, LinksOf
  <2>3. CASE s.pkg[q].cpn = s.pkg[p].cpn
    BY <1>8, <2>1, <2>3 DEF SameBut, Writable, Fetching
  <2>4. CASE s.pkg[q].cpn # s.pkg[p].cpn
    BY <1>8, <2>1, <2>2, <2>4 DEF SameBut, Writable, Fetching, Stopped
  <2>5. QED
    BY <2>3, <2>4
<1>11. u.pkg = s.pkg
  BY <1>8 DEF SameBut
<1>12. CancelFrom(s, p, t, u)
  BY <1>6, <1>7, <1>8, <1>9, <1>10, <1>11 DEF CancelFrom, key, Cancelled
<1>13. QED
  BY <1>12

(***************************************************************************)
(* put of a block                                                          *)
(***************************************************************************)

\* What a package becomes when its block is written.
Marked(pk) == [pk EXCEPT !.hst = "WRITING", !.wst = "BODY"]

Writer(p) == [handler |-> "svr_http_body_rio", pk |-> p]

\* The packages in Q have been called.
Called(s, t, Q) ==
    /\ SameBut(s, t, {"pkg", "pending"})
    /\ DOMAIN t.pkg = DOMAIN s.pkg
    /\ \A q \in Q : t.pkg[q] = Marked(s.pkg[q])
    /\ \A q \in DOMAIN s.pkg \ Q : t.pkg[q] = s.pkg[q]
    /\ t.pending = s.pending \cup {Writer(q) : q \in Q}

LEMMA WioFields ==
  ASSUME NEW s, IsState(s), NEW p \in DOMAIN s.pkg, s.pkg[p] \in Package,
         NEW data \in Data, s.pkg[p].wst = "BODY",
         s.conn[s.pkg[p].cpn] = "CONNECTED"
  PROVE  Called(s, CallBack(s, p, data), {p})
<1> DEFINE m == Mark(s, p, "WRITING", "BODY")
           t == Post(m, "svr_http_body_rio", p)
<1>1. CallBack(s, p, data) = t
  <2>1. data # NoData
    BY DEF Data, NoData
  <2>2. QED
    BY <2>1 DEF CallBack, svr_http_body_wio, WriteClosing, Cst
<1>2. /\ SameBut(s, m, {"pkg"}) /\ DOMAIN m.pkg = DOMAIN s.pkg
      /\ \A q \in DOMAIN s.pkg : q # p => m.pkg[q] = s.pkg[q]
      /\ m.pkg[p] = Marked(s.pkg[p])
  BY DEF Mark, IsState, SameBut, Package, Marked
<1> HIDE DEF m
<1>3. SameBut(m, t, {"pending"}) /\ t.pending = m.pending \cup {Writer(p)}
  BY <1>2, PostFields DEF SameBut, Writer
<1> HIDE DEF t
<1>4. Called(s, t, {p})
  BY <1>2, <1>3 DEF SameBut, Called
<1>5. QED
  BY <1>1, <1>4

LEMMA CalledNext ==
  ASSUME NEW s, NEW t, NEW u, NEW Q, NEW p, Called(s, t, Q), Called(t, u, {p}), p \notin Q,
         p \in DOMAIN s.pkg, Q \subseteq DOMAIN s.pkg
  PROVE  Called(s, u, Q \cup {p})
<1>1. SameBut(s, u, {"pkg", "pending"}) /\ DOMAIN u.pkg = DOMAIN s.pkg
  BY DEF Called, SameBut
<1>2. \A q \in Q \cup {p} : u.pkg[q] = Marked(s.pkg[q])
  BY DEF Called
<1>3. \A q \in DOMAIN s.pkg \ (Q \cup {p}) : u.pkg[q] = s.pkg[q]
  BY DEF Called
<1>4. u.pending = s.pending \cup {Writer(q) : q \in Q \cup {p}}
  <2>1. u.pending = (s.pending \cup {Writer(q) : q \in Q}) \cup {Writer(q) : q \in {p}}
    BY DEF Called
  <2>2. QED
    BY <2>1
<1>5. QED
  BY <1>1, <1>2, <1>3, <1>4 DEF Called

\* All packages in the queue are called.
LEMMA WiosCall ==
  ASSUME NEW s, IsState(s), NEW queue \in Seq(1 .. MaxPkgs), IsInjective(queue),
         NEW data \in Data,
         \A q \in Range(queue) :
             /\ q \in DOMAIN s.pkg /\ s.pkg[q] \in Package /\ s.pkg[q].wst = "BODY"
             /\ s.conn[s.pkg[q].cpn] = "CONNECTED",
         NEW f, CallRun(f, Len(queue), s, queue, data)
  PROVE  Called(s, f[Len(queue)], Range(queue))
<1> DEFINE n == Len(queue)
           Done(i) == {queue[j] : j \in 1 .. i}
           S == {i \in 0 .. n : Called(s, f[i], Done(i))}
<1>1. n \in Nat /\ DOMAIN queue = 1 .. n
  OBVIOUS
<1>2. f[0] = s /\ \A i \in 1 .. n : f[i] = CallBack(f[i - 1], queue[i], data)
  BY <1>1 DEF CallRun
<1>3. 0 \in S
  <2>1. Done(0) = {}
    OBVIOUS
  <2>2. SameBut(s, s, {"pkg", "pending"})
    BY DEF SameBut
  <2>3. Called(s, s, {})
    BY <2>2 DEF Called
  <2>4. Called(s, f[0], Done(0))
    BY <1>2, <2>1, <2>3
  <2> HIDE DEF Done
  <2>5. QED
    BY <1>1, <2>4
<1>4. ASSUME NEW i \in 1 .. n, i - 1 \in S
      PROVE  i \in S
  <2> DEFINE a == f[i - 1]
             p == queue[i]
  <2>1. Called(s, a, Done(i - 1))
    BY <1>4
  <2>2. p \in Range(queue) /\ p \notin Done(i - 1) /\ Done(i) = Done(i - 1) \cup {p}
        /\ Done(i - 1) \subseteq Range(queue)
    <3>1. 1 .. i = (1 .. i - 1) \cup {i} /\ \A j \in 1 .. i - 1 : j \in DOMAIN queue /\ j # i
      BY <1>1
    <3>2. i \in DOMAIN queue
      BY <1>1
    <3>3. \A j \in 1 .. i - 1 : queue[j] # p
      BY <3>1, <3>2 DEF IsInjective
    <3>4. QED
      BY <3>1, <3>2, <3>3 DEF Range
  <2>3. f[i] = CallBack(a, p, data)
    BY <1>2
  <2> HIDE DEF Done, a, p
  <2>4. /\ IsState(a) /\ p \in DOMAIN a.pkg /\ a.pkg[p] = s.pkg[p] /\ a.conn = s.conn
        /\ p \in DOMAIN s.pkg
    BY <2>1, <2>2 DEF Called, SameBut
  <2>5. Called(a, f[i], {p})
    <3>1. a.pkg[p] \in Package /\ a.pkg[p].wst = "BODY" /\ a.conn[a.pkg[p].cpn] = "CONNECTED"
      BY <2>2, <2>4
    <3>2. QED
      BY <2>3, <2>4, <3>1, WioFields
  <2>6. Called(s, f[i], Done(i))
    <3>1. Done(i - 1) \subseteq DOMAIN s.pkg
      BY <2>2
    <3>2. Called(s, f[i], Done(i - 1) \cup {p})
      BY <2>1, <2>2, <2>4, <2>5, <3>1, CalledNext
    <3>3. QED
      BY <2>2, <3>2
  <2>7. QED
    BY <2>6
<1> HIDE DEF S
<1>5. 0 .. n \subseteq S
  BY <1>1, <1>3, <1>4, Induction
<1>6. n \in S /\ Done(n) = Range(queue)
  BY <1>1, <1>5 DEF Range
<1>7. QED
  BY <1>6 DEF S

\* The entry is filled, with a reference for each of n callbacks.
Filled(es, es2, k, data, n) ==
    /\ DOMAIN es2 = DOMAIN es
    /\ \A x \in DOMAIN es : x # k => es2[x] = es[x]
    /\ es2[k] \in Entry
    /\ es2[k].status = "filled" /\ es2[k].data = data /\ es2[k].queue = <<>>
    /\ es2[k].refCount = es[k].refCount + n

Fill(x, data, n) ==
    [[x EXCEPT !.data = data, !.refCount = @ + n, !.queue = <<>>] EXCEPT !.status = "filled"]

LEMMA FilledEntry ==
  ASSUME NEW x \in Entry,
         NEW data \in Data, NEW n \in Nat
  PROVE  LET e == Fill(x, data, n)
         IN  /\ e \in Entry
             /\ e.status = "filled" /\ e.data = data /\ e.queue = <<>>
             /\ e.refCount = x.refCount + n
<1>1. x.refCount + n \in Nat /\ <<>> \in Seq(1 .. MaxPkgs)
  BY DEF Entry
<1>2. ASSUME NEW m \in Nat, NEW q \in Seq(1 .. MaxPkgs)
      PROVE  LET e == [x EXCEPT !.data = data, !.refCount = m, !.queue = q]
                 e2 == [e EXCEPT !.status = "filled"]
             IN  /\ e2 \in Entry
                 /\ e2.status = "filled" /\ e2.data = data /\ e2.queue = q
                 /\ e2.refCount = m
  BY DEF Entry
<1>3. QED
  BY <1>1, <1>2 DEF Fill

\* put fills the slot and calls everybody in its queue.
LEMMA PutBody ==
  ASSUME NEW s, IsState(s), NEW k \in DOMAIN s.cache, NEW data \in Data,
         s.cache[k] \in Entry,
         s.cache[k].status = "reserved", IsInjective(s.cache[k].queue),
         \A q \in Range(s.cache[k].queue) :
             /\ q \in DOMAIN s.pkg /\ s.pkg[q] \in Package /\ s.pkg[q].wst = "BODY"
             /\ s.conn[s.pkg[q].cpn] = "CONNECTED"
  PROVE  \E t : /\ Filled(s.cache, t.cache, k, data, Len(s.cache[k].queue))
                /\ Called([s EXCEPT !.cache = t.cache], t, Range(s.cache[k].queue))
                /\ put(s, k, data) = t
<1> DEFINE queue == s.cache[k].queue
           n == Len(queue)
           x == s.cache[k]
           filled == [s EXCEPT !.cache[k].data = data,
                               !.cache[k].refCount = @ + n,
                               !.cache[k].queue = <<>>]
           F == CHOOSE f : CallRun(f, n, filled, queue, data)
           a == F[n]
           t == [a EXCEPT !.cache[k].status = "filled"]
           e == [x EXCEPT !.data = data, !.refCount = @ + n, !.queue = <<>>]
           e2 == [e EXCEPT !.status = "filled"]
<1>1. queue \in Seq(1 .. MaxPkgs) /\ n \in Nat
  BY DEF Entry, Data
<1>2. put(s, k, data) = t
  BY DEF put, CallInTurn, CallRun
<1>3. CallRun(F, n, filled, queue, data)
  <2>1. \E f : CallRun(f, n, filled, queue, data)
    BY <1>1, CallRunExists
  <2>2. QED
    BY <2>1, Zenon
<1> HIDE DEF F
<1>4. SameBut(s, filled, {"cache"}) /\ filled.cache = [s.cache EXCEPT ![k] = e]
  <2> DEFINE c == [s.cache EXCEPT ![k].data = data, ![k].refCount = @ + n,
                                  ![k].queue = <<>>]
  <2>1. SameBut(s, filled, {"cache"}) /\ filled.cache = c
    BY DEF SameBut, IsState
  <2>2. c = [s.cache EXCEPT ![k] = e]
    OBVIOUS
  <2>3. QED
    BY <2>1, <2>2
<1> HIDE DEF filled
<1>5. Called(filled, a, Range(queue))
  <2>1. /\ IsState(filled)
        /\ \A q \in Range(queue) : /\ q \in DOMAIN filled.pkg /\ filled.pkg[q] \in Package
                                   /\ filled.pkg[q].wst = "BODY"
                                   /\ filled.conn[filled.pkg[q].cpn] = "CONNECTED"
    BY <1>4 DEF SameBut
  <2> HIDE DEF queue
  <2>2. QED
    BY <1>1, <1>3, <2>1, WiosCall DEF queue
<1> HIDE DEF a
<1>6. IsState(a) /\ a.cache = [s.cache EXCEPT ![k] = e]
  BY <1>4, <1>5 DEF Called, SameBut
<1>7. SameBut(a, t, {"cache"}) /\ t.cache = [s.cache EXCEPT ![k] = e2]
  <2> HIDE DEF e
  <2>1. QED
    BY <1>6 DEF SameBut, IsState
<1> HIDE DEF t
<1>8. Filled(s.cache, t.cache, k, data, n)
  <2>1. /\ e2 \in Entry
        /\ e2.status = "filled" /\ e2.data = data /\ e2.queue = <<>>
        /\ e2.refCount = x.refCount + n
    <3>1. x \in Entry /\ e2 = Fill(x, data, n)
      BY DEF Fill
    <3> HIDE DEF x, n, e2
    <3>2. QED
      BY <1>1, <3>1, FilledEntry
  <2> HIDE DEF e2
  <2>2. QED
    BY <1>7, <2>1 DEF Filled
<1>9. Called([s EXCEPT !.cache = t.cache], t, Range(queue))
  <2> DEFINE b == [s EXCEPT !.cache = t.cache]
  <2>1. /\ b.conn = s.conn /\ b.nc = s.nc /\ b.pkg = s.pkg /\ b.pending = s.pending
        /\ b.abort = s.abort /\ b.openOk = s.openOk /\ b.closeOk = s.closeOk
        /\ b.cache = t.cache
    BY DEF IsState
  <2> HIDE DEF b, queue
  <2>2. SameBut(b, t, {"pkg", "pending"}) /\ b.pkg = filled.pkg /\ b.pending = filled.pending
    BY <1>4, <1>5, <1>7, <2>1 DEF Called, SameBut
  <2>3. t.pkg = a.pkg /\ t.pending = a.pending
    BY <1>7 DEF SameBut
  <2>4. QED
    BY <1>5, <2>2, <2>3 DEF Called, b
<1>10. QED
  BY <1>2, <1>8, <1>9

LEMMA QueueLength ==
  ASSUME NEW queue \in Seq(1 .. MaxPkgs), IsInjective(queue)
  PROVE  IsFiniteSet(Range(queue)) /\ Cardinality(Range(queue)) = Len(queue)
<1>1. Len(queue) \in Nat /\ DOMAIN queue = 1 .. Len(queue)
  OBVIOUS
<1>2. queue \in Bijection(1 .. Len(queue), Range(queue))
  <2>1. queue \in [1 .. Len(queue) -> Range(queue)]
    BY <1>1 DEF Range
  <2>2. queue \in Injection(1 .. Len(queue), Range(queue))
    BY <1>1, <2>1 DEF Injection, IsInjective
  <2>3. queue \in Surjection(1 .. Len(queue), Range(queue))
    BY <1>1, <2>1 DEF Surjection, Range
  <2>4. QED
    BY <2>2, <2>3 DEF Bijection
<1>3. IsFiniteSet(1 .. Len(queue)) /\ Cardinality(1 .. Len(queue)) = Len(queue)
  BY <1>1, FS_Interval
<1>4. ExistsBijection(1 .. Len(queue), Range(queue))
  BY <1>2 DEF ExistsBijection
<1>5. QED
  BY <1>3, <1>4, FS_Bijection

LEMMA BlockKey ==
  ASSUME NEW pk, NEW k, BlockOf(pk) = k
  PROVE  k[1] = pk.uri /\ k[2] = pk.bodykey
BY DEF BlockOf, Block

LEMMA MarkedFields ==
  ASSUME NEW pk \in Package
  PROVE  LET m == Marked(pk) IN
         /\ m \in Package /\ m.hst = "WRITING" /\ m.wst = "BODY"
         /\ m.uri = pk.uri /\ m.cpn = pk.cpn /\ m.ppg = pk.ppg /\ m.lcg = pk.lcg
         /\ m.nsg = pk.nsg /\ m.hsn = pk.hsn /\ m.bodykey = pk.bodykey
         /\ m.tr_offset = pk.tr_offset /\ m.hsent = pk.hsent /\ m.cbody = pk.cbody
         /\ m.cached = pk.cached
<1> DEFINE m == Marked(pk)
<1>1. PICK hst \in {"WRITING"}, wst \in {"BODY"} : TRUE
  OBVIOUS
<1>2. m = [pk EXCEPT !.hst = hst, !.wst = wst]
  BY <1>1 DEF Marked
<1>3. m \in Package
  <2> DEFINE n == [pk EXCEPT !.hst = hst, !.wst = wst]
  <2>1. /\ hst \in {"READING", "PARSING", "FETCHING", "WRITING", "UNKNOWN"}
        /\ wst \in {"HEAD", "BODY", "UNO"}
    BY <1>1
  <2>2. n \in Package
    BY <2>1, MarkedIsPackage
  <2>3. m = n
    BY <1>2
  <2> HIDE DEF n, m
  <2>4. QED
    BY <2>2, <2>3
<1>4. /\ m.hst = "WRITING" /\ m.wst = "BODY"
      /\ m.uri = pk.uri /\ m.cpn = pk.cpn /\ m.ppg = pk.ppg /\ m.lcg = pk.lcg
      /\ m.nsg = pk.nsg /\ m.hsn = pk.hsn /\ m.bodykey = pk.bodykey
      /\ m.tr_offset = pk.tr_offset /\ m.hsent = pk.hsent /\ m.cbody = pk.cbody
      /\ m.cached = pk.cached
  BY DEF Marked, Package
<1> HIDE DEF m
<1>5. QED
  BY <1>3, <1>4 DEF m

\* How the packages change when a block has been read by p: the packages of Q
\* write it.
BlockGiven(ps, ps2, Q, p) ==
    /\ DOMAIN ps2 = DOMAIN ps
    /\ \A q \in DOMAIN ps \ Q : ps2[q] = ps[q]
    /\ \A q \in Q :
          /\ ps2[q] \in Package /\ ps2[q].hst = "WRITING" /\ ps2[q].wst = "BODY"
          /\ ps2[q].uri = ps[q].uri /\ ps2[q].cpn = ps[q].cpn /\ ps2[q].ppg = ps[q].ppg
          /\ ps2[q].lcg = ps[q].lcg /\ ps2[q].nsg = ps[q].nsg /\ ps2[q].hsn = ps[q].hsn
          /\ ps2[q].bodykey = ps[q].bodykey /\ ps2[q].tr_offset = ps[q].tr_offset
          /\ ps2[q].hsent = ps[q].hsent
          /\ ps2[q].cbody = ps[q].cbody
          /\ q # p => ps2[q].cached = ps[q].cached
    /\ ps2[p].cached

\* The block was read: everybody who waited for it writes it.
LEMMA FillReady ==
  ASSUME NEW s, Ready(s, {}), NEW p, Reader(p) \in s.pending, NEW t,
         SameBut(s, t, {"pkg", "pending", "cache"}),
         NEW key, key = BlockOf(s.pkg[p]), NEW Q, Q = Range(s.cache[key].queue),
         BlockGiven(s.pkg, t.pkg, Q, p),
         t.pending = (s.pending \ {Reader(p)}) \cup {Writer(q) : q \in Q},
         NEW data \in Data, data.size = BlockSize(key),
         Filled(s.cache, t.cache, key, data, Len(s.cache[key].queue))
  PROVE  Ready(t, {})
<1> DEFINE cs == s.conn
           ps == s.pkg
           ts == s.pending
           es == s.cache
           ps2 == t.pkg
           ts2 == t.pending
           es2 == t.cache
<1>1. IsState(t) /\ t.abort = "none" /\ t.nc = s.nc /\ t.conn = cs
  BY ReadyParts DEF SameBut
<1>2. /\ Types(cs, s.nc, ps, ts, es) /\ Linked(cs, ps) /\ Waiting(ps, ts, es, {})
      /\ Phases(cs, ps, ts, es) /\ Slots(cs, ps, ts, es, {}) /\ Addresses(ps)
      /\ Blocks(ps, ts, es, {}) /\ Counts(ps, es, {}) /\ Sizes(cs, s.nc, ps)
  BY ReadyParts
<1>3. p \in DOMAIN ps /\ First(ps, p) /\ \A u \in ts : u.pk = p => u = Reader(p)
  BY <1>2 DEF Waiting, Reader
<1>4. /\ Fetching(cs, ps[p]) /\ key \in DOMAIN es
      /\ es[key].status = "reserved" /\ es[key].queue[1] = p
  <2>1. Phase(cs, es, "svr_http_body_pio", p, ps[p])
    BY <1>2 DEF Phases, Reader
  <2>2. QED
    BY <2>1 DEF Phase
<1>5. /\ es[key].queue \in Seq(1 .. MaxPkgs) /\ es[key].queue # <<>>
      /\ es[key].refCount \in Nat /\ IsInjective(es[key].queue)
  BY <1>2, <1>4 DEF Types, Slots, Slot, Entry
<1>6. p \in Q
  <2>1. 1 \in DOMAIN es[key].queue
    BY <1>5
  <2>2. QED
    BY <1>4, <2>1 DEF Range
<1>7. \A q \in Q : /\ q \in DOMAIN ps /\ First(ps, q) /\ Fetching(cs, ps[q])
                   /\ BlockOf(ps[q]) = key /\ \A u \in ts : u.pk = q => u = Reader(q)
  BY <1>2, <1>4 DEF Slots, Slot
<1>8. /\ DOMAIN es2 = DOMAIN es
      /\ \A k \in DOMAIN es : k # key => es2[k] = es[k]
      /\ es2[key].status = "filled" /\ es2[key].queue = <<>>
      /\ es2[key].data.size = BlockSize(key)
      /\ es2[key] \in Entry
  BY DEF Filled
<1>9. key \in Plain \X (Nat \cup {-1}) /\ key[2] # -1 /\ key[2] <= FileSize[key[1]]
  BY <1>2, <1>4 DEF Slots, Slot
<1>10. ASSUME NEW u \in ts, u # Reader(p) PROVE u.pk \notin Q
  <2>1. SUFFICES ASSUME u.pk \in Q PROVE FALSE
    OBVIOUS
  <2>2. u = Reader(u.pk) /\ BlockOf(ps[u.pk]) = key
    BY <1>7, <2>1
  <2>3. Phase(cs, es, "svr_http_body_pio", u.pk, ps[u.pk])
    BY <1>2, <2>2 DEF Phases, Reader
  <2>4. u.pk = p
    BY <1>4, <2>2, <2>3 DEF Phase
  <2>5. QED
    BY <1>10, <2>2, <2>4
<1>11. /\ DOMAIN ps2 = DOMAIN ps
       /\ \A q \in DOMAIN ps \ Q : ps2[q] = ps[q]
       /\ \A q \in DOMAIN ps :
             /\ ps2[q] \in Package
             /\ ps2[q].uri = ps[q].uri /\ ps2[q].cpn = ps[q].cpn
             /\ ps2[q].ppg = ps[q].ppg /\ ps2[q].lcg = ps[q].lcg /\ ps2[q].nsg = ps[q].nsg
             /\ ps[q].ppg = NULL => ps2[q].wst = ps[q].wst
  <2>1. \A q \in Q : ps[q].ppg # NULL
    BY <1>7 DEF Fetching
  <2>2. QED
    BY <1>2, <2>1 DEF BlockGiven, Addresses
<1>12. \A q \in DOMAIN ps : First(ps2, q) <=> First(ps, q)
  BY <1>11 DEF First
<1>13. Types(cs, s.nc, ps2, ts2, es2)
  <2>1. ASSUME NEW q \in Q PROVE Writer(q) \in [handler : Handlers, pk : 1 .. MaxPkgs]
    BY <1>2, <1>7 DEF Writer, Handlers, Addresses
  <2>2. ts2 \subseteq [handler : Handlers, pk : 1 .. MaxPkgs]
    <3>1. ts \subseteq [handler : Handlers, pk : 1 .. MaxPkgs]
      BY <1>2 DEF Types
    <3>2. {Writer(q) : q \in Q} \subseteq [handler : Handlers, pk : 1 .. MaxPkgs]
      BY <2>1
    <3>3. QED
      BY <3>1, <3>2
  <2>3. \A k \in DOMAIN es2 :
           es2[k] \in Entry
    BY <1>2, <1>8 DEF Types
  <2>4. QED
    BY <1>2, <1>11, <2>2, <2>3 DEF Types
<1>14. Linked(cs, ps2)
  <2>1. \A q \in DOMAIN ps2 : LinksOf(cs, ps2, q)
    <3>1. ASSUME NEW q \in DOMAIN ps PROVE LinksOf(cs, ps2, q)
      <4>1. LinksOf(cs, ps, q)
        BY <1>2 DEF Linked
      <4>2. ps[q].ppg # NULL => ps[q].ppg \in DOMAIN ps
        BY <4>1 DEF LinksOf
      <4>3. ps[q].nsg # NULL => ps[q].nsg \in DOMAIN ps
        BY <4>1 DEF LinksOf
      <4>4. ps[q].lcg # NULL => ps[q].lcg \in DOMAIN ps
        BY <4>1 DEF LinksOf
      <4>5. QED
        BY <1>11, <4>1, <4>2, <4>3, <4>4 DEF LinksOf
    <3>2. QED
      BY <1>11, <3>1
  <2>2. \A x, y \in DOMAIN ps2 : Siblings(ps2, x, y) <=> Siblings(ps, x, y)
    BY <1>11 DEF Siblings
  <2>3. \A x, y \in DOMAIN ps2 :
           ps2[x].ppg = NULL /\ ps2[y].ppg = NULL /\ ps2[x].cpn = ps2[y].cpn => x = y
    BY <1>2, <1>11 DEF Linked
  <2>4. ASSUME NEW x \in DOMAIN ps2, NEW y \in DOMAIN ps2, Siblings(ps2, x, y), x < y
        PROVE  /\ ps2[x].nsg # NULL /\ ps2[x].nsg <= y
               /\ \E z \in DOMAIN ps2 : ps2[z].nsg = y
    <3>1. /\ ps[x].nsg # NULL /\ ps[x].nsg <= y
          /\ \E z \in DOMAIN ps : ps[z].nsg = y
      BY <1>2, <1>11, <2>2, <2>4 DEF Linked
    <3>2. QED
      BY <1>11, <3>1
  <2>5. QED
    BY <2>1, <2>3, <2>4 DEF Linked
<1>15. Waiting(ps2, ts2, es2, {})
  <2>1. \A u \in ts2 : u.pk \in DOMAIN ps2 /\ First(ps2, u.pk)
    BY <1>2, <1>7, <1>11, <1>12 DEF Waiting, Writer
  <2>2. ASSUME NEW u \in ts2, NEW v \in ts2, u.pk = v.pk PROVE u = v
    <3>1. \A x \in ts2 : x.pk \in Q => x = Writer(x.pk)
      BY <1>10 DEF Writer
    <3>2. \A x \in ts2 : x.pk \notin Q => x \in ts
      BY DEF Writer
    <3>3. QED
      BY <1>2, <2>2, <3>1, <3>2 DEF Waiting
  <2>3. ASSUME NEW q \in DOMAIN ps2, First(ps2, q)
        PROVE  InQueue(ps2, es2, q) \/ \E u \in ts2 : u.pk = q
    <3>1. CASE q \in Q
      <4>1. Writer(q) \in ts2 /\ Writer(q).pk = q
        BY <3>1 DEF Writer
      <4>2. QED
        BY <4>1
    <3>2. CASE q \notin Q
      <4>1. InQueue(ps, es, q) \/ \E u \in ts : u.pk = q
        BY <1>2, <1>11, <1>12, <2>3 DEF Waiting
      <4>2. CASE InQueue(ps, es, q)
        <5>1. BlockOf(ps[q]) # key
          BY <3>2, <4>2 DEF InQueue
        <5>2. QED
          BY <1>8, <1>11, <2>3, <3>2, <4>2, <5>1 DEF InQueue
      <4>3. CASE \E u \in ts : u.pk = q
        BY <1>6, <3>2, <4>3 DEF Reader
      <4>4. QED
        BY <4>1, <4>2, <4>3
    <3>3. QED
      BY <3>1, <3>2
  <2>4. QED
    BY <2>1, <2>2, <2>3 DEF Waiting
<1>16. Phases(cs, ps2, ts2, es2)
  <2>1. ASSUME NEW u \in ts, u # Reader(p)
        PROVE  Phase(cs, es2, u.handler, u.pk, ps2[u.pk])
    <3>1. Phase(cs, es, u.handler, u.pk, ps[u.pk])
      BY <1>2 DEF Phases
    <3>2. u.pk \in DOMAIN ps /\ u.pk # p /\ ps2[u.pk] = ps[u.pk]
      BY <1>2, <1>3, <1>10, <1>11, <2>1 DEF Waiting
    <3>3. u.handler = "svr_http_body_pio" => BlockOf(ps[u.pk]) # key
      BY <1>4, <3>1, <3>2 DEF Phase
    <3>4. WritingBlock(es, ps[u.pk]) => WritingBlock(es2, ps[u.pk])
      BY <1>4, <1>8 DEF WritingBlock
    <3>5. Phase(cs, es2, u.handler, u.pk, ps[u.pk])
      BY <1>8, <3>1, <3>3, <3>4 DEF Phase
    <3>6. QED
      BY <3>2, <3>5
  <2>2. ASSUME NEW q \in Q
        PROVE  Phase(cs, es2, "svr_http_body_rio", q, ps2[q])
    <3>1. /\ ps2[q].hst = "WRITING" /\ ps2[q].wst = "BODY" /\ ps2[q].uri = ps[q].uri
          /\ ps2[q].cpn = ps[q].cpn /\ ps2[q].ppg = ps[q].ppg /\ ps2[q].hsn = ps[q].hsn
          /\ ps2[q].bodykey = ps[q].bodykey /\ ps2[q].tr_offset = ps[q].tr_offset
          /\ ps2[q].hsent = ps[q].hsent
      BY DEF BlockGiven
    <3>2. Fetching(cs, ps[q]) /\ BlockOf(ps[q]) = key
      BY <1>7
    <3>3. BlockOf(ps2[q]) = key
      BY <3>1, <3>2 DEF BlockOf
    <3>4. WritingBlock(es2, ps2[q])
      BY <1>4, <1>8, <3>1, <3>2, <3>3 DEF WritingBlock, Fetching
    <3>5. QED
      BY <3>1, <3>2, <3>4 DEF Phase, Fetching
  <2>3. \A u \in ts2 : Phase(cs, es2, u.handler, u.pk, ps2[u.pk])
    BY <2>1, <2>2 DEF Writer
  <2>4. ASSUME NEW q \in DOMAIN ps2, ps2[q].ppg # NULL, ~First(ps2, q)
        PROVE  Fresh(ps2[q])
    BY <1>2, <1>7, <1>11, <1>12, <2>4 DEF Phases
  <2>5. QED
    BY <2>3, <2>4 DEF Phases
<1>17. Slots(cs, ps2, ts2, es2, {})
  <2>1. ASSUME NEW k \in DOMAIN es, k # key, es[k].status = "reserved",
               NEW q \in Range(es[k].queue)
        PROVE  /\ q \in DOMAIN ps2 /\ First(ps2, q) /\ q \notin Q
               /\ Fetching(cs, ps2[q]) /\ BlockOf(ps2[q]) = k
               /\ \A u \in ts2 : u.pk = q => u = Reader(q)
    <3>1. /\ q \in DOMAIN ps /\ First(ps, q) /\ Fetching(cs, ps[q])
          /\ BlockOf(ps[q]) = k /\ \A u \in ts : u.pk = q => u = Reader(q)
      BY <1>2, <2>1 DEF Slots, Slot
    <3>2. q \notin Q
      BY <1>7, <2>1, <3>1
    <3>3. \A u \in ts2 : u.pk = q => u \in ts
      BY <3>2 DEF Writer
    <3>4. QED
      BY <1>11, <1>12, <3>1, <3>2, <3>3
  <2>2. ASSUME NEW k \in DOMAIN es, k # key, es[k].status = "reserved"
        PROVE  Reader(es[k].queue[1]) \in ts2
    <3>1. es[k].queue \in Seq(1 .. MaxPkgs) /\ es[k].queue # <<>>
          /\ Reader(es[k].queue[1]) \in ts
      BY <1>2, <2>2 DEF Types, Slots, Slot, Entry
    <3>2. 1 \in DOMAIN es[k].queue
      BY <3>1
    <3>3. es[k].queue[1] \in Range(es[k].queue)
      BY <3>2 DEF Range
    <3>4. es[k].queue[1] # p
      BY <1>6, <2>1, <2>2, <3>3
    <3>5. QED
      BY <3>1, <3>4 DEF Reader
  <2>3. ASSUME NEW k \in DOMAIN es, k # key PROVE Slot(cs, ps2, ts2, {}, k, es[k])
    BY <1>2, <2>1, <2>2, <2>3 DEF Slots, Slot
  <2>4. Slot(cs, ps2, ts2, {}, key, es2[key])
    BY <1>8, <1>9 DEF Slot
  <2>5. \A k \in DOMAIN es2 : k = key \/ (k \in DOMAIN es /\ k # key /\ es2[k] = es[k])
    BY <1>8
  <2>6. QED
    BY <2>3, <2>4, <2>5 DEF Slots
<1>18. Blocks(ps2, ts2, es2, {})
  <2>1. ASSUME NEW q \in DOMAIN ps2, ps2[q].cbody # -1, ~ps2[q].cached
        PROVE  LET k == Block(ps2[q].uri, ps2[q].cbody) IN
               k \in DOMAIN es2 /\ es2[k].status # "filled" /\ Reader(q) \in ts2
    <3> DEFINE k == Block(ps[q].uri, ps[q].cbody)
    <3>1. q # p
      BY <2>1 DEF BlockGiven
    <3>2. ps2[q].cbody = ps[q].cbody /\ ps2[q].cached = ps[q].cached /\ ps2[q].uri = ps[q].uri
          /\ q \in DOMAIN ps
      BY <1>11, <3>1 DEF BlockGiven
    <3>3. k \in DOMAIN es /\ es[k].status # "filled" /\ Reader(q) \in ts
      BY <1>2, <2>1, <3>2 DEF Blocks
    <3>4. Phase(cs, es, "svr_http_body_pio", q, ps[q])
      BY <1>2, <3>3 DEF Phases, Reader
    <3>5. k = BlockOf(ps[q]) /\ es[k].queue[1] = q
      BY <3>4 DEF Phase, BlockOf
    <3>6. k # key
      BY <1>4, <3>1, <3>5
    <3>7. Reader(q) \in ts2
      BY <3>1, <3>3 DEF Reader
    <3> HIDE DEF k
    <3>8. k \in DOMAIN es2 /\ es2[k].status # "filled"
      BY <1>8, <3>3, <3>6
    <3>9. QED
      BY <3>2, <3>7, <3>8 DEF k
  <2>2. QED
    BY <2>1 DEF Blocks
<1>19. Counts(ps2, es2, {})
  <2>1. ASSUME NEW k \in DOMAIN es, k # key PROVE Users(ps2, {}, k) = Users(ps, {}, k)
    <3>1. k \in Plain \X (Nat \cup {-1})
      BY <1>2 DEF Slots, Slot
    <3>2. ASSUME NEW q \in Q PROVE ~Uses(ps2[q], k) /\ ~Uses(ps[q], k)
      <4>1. Fetching(cs, ps[q]) /\ BlockOf(ps[q]) = key
        BY <1>7
      <4>2. ~Uses(ps[q], k)
        BY <4>1, FetchingUsesNothing
      <4>3. ps2[q].wst = "BODY" /\ ps2[q].uri = ps[q].uri /\ ps2[q].bodykey = ps[q].bodykey
        BY DEF BlockGiven
      <4>4. k = <<k[1], k[2]>>
        BY <3>1
      <4>5. Uses(ps2[q], k) => k = BlockOf(ps[q])
        BY <4>3, <4>4 DEF Uses, BlockOf, Block
      <4>6. QED
        BY <2>1, <4>1, <4>2, <4>5
    <3>3. QED
      BY <1>11, <3>2 DEF Users
  <2>2. Users(ps2, {}, key) = Q
    <3>1. Users(ps, {}, key) = {}
      BY <1>4, <1>9, UsersKnown DEF Users
    <3>2. ASSUME NEW q \in Q PROVE Uses(ps2[q], key)
      <4>1. BlockOf(ps[q]) = key
        BY <1>7
      <4>2. /\ ps2[q].hst = "WRITING" /\ ps2[q].wst = "BODY" /\ ps2[q].uri = ps[q].uri
            /\ ps2[q].bodykey = ps[q].bodykey
        BY DEF BlockGiven
      <4>3. key[1] = ps[q].uri /\ key[2] = ps[q].bodykey
        BY <4>1, BlockKey
      <4>4. QED
        BY <1>9, <4>2, <4>3 DEF Uses
    <3>3. QED
      BY <1>7, <1>11, <3>1, <3>2 DEF Users
  <2>3. es[key].refCount = 1
    <3>1. Users(ps, {}, key) = {}
      BY <1>4, <1>9, UsersKnown DEF Users
    <3>2. Cardinality(Users(ps, {}, key)) = 0
      BY <3>1, FS_EmptySet
    <3>3. es[key].refCount = 1 + Cardinality(Users(ps, {}, key))
      BY <1>2, <1>4, <1>9 DEF Counts
    <3>4. QED
      BY <3>2, <3>3
  <2>4. Cardinality(Q) = Len(es[key].queue)
    BY <1>5, QueueLength
  <2>5. es2[key].refCount = 1 + Cardinality(Users(ps2, {}, key))
    BY <2>2, <2>3, <2>4 DEF Filled
  <2>6. QED
    BY <1>2, <1>8, <1>9, <2>1, <2>5 DEF Counts
<1>20. Sizes(cs, s.nc, ps2)
  <2>1. \A cn : PackagesIn(ps2, cn) = PackagesIn(ps, cn)
    BY <1>11 DEF PackagesIn
  <2>2. QED
    BY <1>2, <2>1 DEF Sizes
<1>21. QED
  BY <1>1, <1>13, <1>14, <1>15, <1>16, <1>17, <1>18, <1>19, <1>20 DEF Ready, Good

(***************************************************************************)
(* The handlers                                                            *)
(***************************************************************************)

\* Only the package p changes, and not its links.
Touched(ps, ps2, p) ==
    /\ DOMAIN ps2 = DOMAIN ps
    /\ \A q \in DOMAIN ps : q # p => ps2[q] = ps[q]
    /\ ps2[p] \in Package
    /\ ps2[p].uri = ps[p].uri /\ ps2[p].cpn = ps[p].cpn
    /\ ps2[p].ppg = ps[p].ppg /\ ps2[p].lcg = ps[p].lcg /\ ps2[p].nsg = ps[p].nsg
    /\ ps2[p].cbody = ps[p].cbody /\ ps2[p].cached = ps[p].cached
    /\ ps[p].ppg = NULL => ps2[p].wst = "UNO"

LEMMA TouchedReady ==
  ASSUME NEW s, NEW R, Ready(s, R), NEW p \in R, NEW t, SameBut(s, t, {"pkg"}),
         Touched(s.pkg, t.pkg, p)
  PROVE  Ready(t, R)
<1>1. Retouched(s, t, p)
  BY DEF Touched, Retouched
<1>2. QED
  BY <1>1, RetouchedReady

\* A handler changes its package and waits for the next callback.
LEMMA Resumes ==
  ASSUME NEW s, NEW R, Ready(s, R), NEW p \in R, NEW t,
         SameBut(s, t, {"pkg", "pending", "cache"}), Touched(s.pkg, t.pkg, p),
         NEW h \in Handlers \ {"svr_http_body_pio"},
         t.pending = s.pending \cup {[handler |-> h, pk |-> p]},
         Referenced(s.cache, t.cache, t.pkg[p]),
         Phase(s.conn, t.cache, h, p, t.pkg[p]),
         s.pkg[p].cbody = -1 \/ s.pkg[p].cached
  PROVE  Ready(t, R \ {p})
<1> DEFINE a == [t EXCEPT !.pending = s.pending, !.cache = s.cache]
<1>1. SameBut(s, a, {"pkg"}) /\ a.pkg = t.pkg /\ SameBut(a, t, {"pending", "cache"})
  BY DEF SameBut, IsState
<1>2. a.pending = s.pending /\ a.cache = s.cache /\ a.conn = s.conn
  BY <1>1 DEF SameBut
<1> HIDE DEF a
<1>3. Ready(a, R)
  BY <1>1, TouchedReady
<1>4. a.pkg[p].cbody = -1 \/ a.pkg[p].cached
  BY <1>1 DEF Touched
<1>5. QED
  BY <1>1, <1>2, <1>3, <1>4, ResumeReady

\* References to a cancelled slot do not matter.
LEMMA CancelledReference ==
  ASSUME NEW s, NEW R, Ready(s, R), NEW k \in DOMAIN s.cache, s.cache[k].status = "cancelled"
  PROVE  LET t == [s EXCEPT !.cache[k].refCount = @ + 1] IN
         SameBut(s, t, {"cache"}) /\ Ready(t, R)
<1> DEFINE t == [s EXCEPT !.cache[k].refCount = @ + 1]
           es == s.cache
           es2 == t.cache
           e == [es[k] EXCEPT !.refCount = @ + 1]
<1>1. /\ IsState(s) /\ s.abort = "none" /\ Types(s.conn, s.nc, s.pkg, s.pending, es)
      /\ Linked(s.conn, s.pkg)
      /\ Waiting(s.pkg, s.pending, es, R) /\ Phases(s.conn, s.pkg, s.pending, es)
      /\ Slots(s.conn, s.pkg, s.pending, es, R) /\ Blocks(s.pkg, s.pending, es, R)
      /\ Counts(s.pkg, es, R) /\ Sizes(s.conn, s.nc, s.pkg)
  BY ReadyParts
<1>2. SameBut(s, t, {"cache"}) /\ es2 = [es EXCEPT ![k] = e]
  BY <1>1 DEF SameBut, IsState
<1>3. /\ e.status = es[k].status /\ e.data = es[k].data /\ e.queue = es[k].queue
      /\ e \in Entry
  <2>1. es[k] \in Entry
    BY <1>1 DEF Types
  <2>2. QED
    BY <2>1 DEF Entry
<1> HIDE DEF t, e
<1>4. /\ DOMAIN es2 = DOMAIN es
      /\ \A x \in DOMAIN es :
            /\ es2[x].status = es[x].status /\ es2[x].data = es[x].data
            /\ es2[x].queue = es[x].queue
            /\ es2[x] \in Entry
            /\ x # k => es2[x] = es[x]
  BY <1>1, <1>2, <1>3 DEF Types
<1>5. Types(s.conn, s.nc, s.pkg, s.pending, es2)
  BY <1>1, <1>4 DEF Types
<1>6. Waiting(s.pkg, s.pending, es2, R)
  BY <1>1, <1>4 DEF Waiting, InQueue
<1>7. Phases(s.conn, s.pkg, s.pending, es2)
  <2>1. ASSUME NEW u \in s.pending
        PROVE  Phase(s.conn, es2, u.handler, u.pk, s.pkg[u.pk])
    <3>1. Phase(s.conn, es, u.handler, u.pk, s.pkg[u.pk])
      BY <1>1 DEF Phases
    <3>2. QED
      BY <1>4, <3>1 DEF Phase, WritingBlock
  <2>2. QED
    BY <1>1, <2>1 DEF Phases
<1>8. Slots(s.conn, s.pkg, s.pending, es2, R)
  <2>1. ASSUME NEW x \in DOMAIN es PROVE Slot(s.conn, s.pkg, s.pending, R, x, es2[x])
    <3>1. Slot(s.conn, s.pkg, s.pending, R, x, es[x])
      BY <1>1 DEF Slots
    <3>2. CASE x = k
      BY <1>4, <3>1, <3>2 DEF Slot
    <3>3. CASE x # k
      BY <1>4, <3>1, <3>3
    <3>4. QED
      BY <3>2, <3>3
  <2>2. QED
    BY <1>4, <2>1 DEF Slots
<1>9. Blocks(s.pkg, s.pending, es2, R)
  BY <1>1, <1>4 DEF Blocks
<1>10. Counts(s.pkg, es2, R)
  <2>1. k[2] # -1
    BY <1>1 DEF Slots, Slot
  <2>2. QED
    BY <1>1, <1>4, <2>1 DEF Counts
<1>11. Ready(t, R)
  BY <1>1, <1>2, <1>5, <1>6, <1>7, <1>8, <1>9, <1>10 DEF Ready, Good, SameBut
<1>12. QED
  BY <1>2, <1>11 DEF t

(***************************************************************************)
(* What a handler does for the client of its package                       *)
(***************************************************************************)

SameAnswer(pk, m) ==
    /\ m.cpn = pk.cpn /\ m.ppg = pk.ppg /\ m.uri = pk.uri
    /\ m.hsn = pk.hsn /\ m.tr_offset = pk.tr_offset /\ m.hsent = pk.hsent

BrokenIn(cs, cn) == cs[cn] \in {"CLOSING_W", "CLOSING"}

\* The files with a block that could not be read.
Lost(es) == {k[1] : k \in {x \in DOMAIN es : es[x].status = "cancelled"}}

LEMMA LostKept ==
  ASSUME NEW es, NEW es2,
         \A k \in DOMAIN es : es[k].status = "cancelled" =>
             k \in DOMAIN es2 /\ es2[k].status = "cancelled"
  PROVE  Lost(es) \subseteq Lost(es2)
BY DEF Lost

\* The slots keep their status.
StatusKept(es, es2) == \A k \in DOMAIN es : k \in DOMAIN es2 /\ es2[k].status = es[k].status

\* The handler has worked for package p alone; slots that were cancelled stay so.
Works(s, t, p) ==
    /\ t.conn = s.conn
    /\ DOMAIN t.pkg = DOMAIN s.pkg
    /\ \A q \in DOMAIN s.pkg : q # p => t.pkg[q] = s.pkg[q]
    /\ t.pkg[p].uri = s.pkg[p].uri /\ t.pkg[p].cpn = s.pkg[p].cpn
    /\ t.pkg[p].ppg = s.pkg[p].ppg /\ t.pkg[p].lcg = s.pkg[p].lcg
    /\ t.pkg[p].nsg = s.pkg[p].nsg
    /\ \A k \in DOMAIN s.cache :
          s.cache[k].status = "cancelled" =>
              k \in DOMAIN t.cache /\ t.cache[k].status = "cancelled"

\* The same, but its connection may have failed meanwhile.
Follows(a, s, p) ==
    /\ DOMAIN s.pkg = DOMAIN a.pkg
    /\ \A q \in DOMAIN a.pkg : q # p => SameAnswer(a.pkg[q], s.pkg[q])
    /\ s.pkg[p].cpn = a.pkg[p].cpn /\ s.pkg[p].ppg = a.pkg[p].ppg
    /\ s.pkg[p].uri = a.pkg[p].uri
    /\ \A cn \in DOMAIN a.conn : cn # a.pkg[p].cpn => s.conn[cn] = a.conn[cn]
    /\ BrokenIn(a.conn, a.pkg[p].cpn) => BrokenIn(s.conn, a.pkg[p].cpn)
    /\ Lost(a.cache) \subseteq Lost(s.cache)

\* The response is over, the connection broke, or the file has a block that could
\* not be read.
Over(pk, cs, es) ==
    \/ pk.hsn \in {400, 404}
    \/ pk.hsn = 200 /\ pk.hsent > 0 /\ pk.tr_offset = FileSize[pk.uri]
    \/ BrokenIn(cs, pk.cpn)
    \/ pk.uri \in Lost(es)

\* What a handler that goes on may have done for package p: nothing that the client
\* sees, a status, a header, or some bytes of the body.
GoesOn(a, s, p) ==
    LET pk == a.pkg[p]
        m == s.pkg[p]
    IN  \/ m.hsn = pk.hsn /\ m.tr_offset = pk.tr_offset /\ m.hsent = pk.hsent
        \/ /\ pk.ppg # NULL /\ ~BrokenIn(a.conn, pk.cpn)
           /\ pk.hsn = 0 /\ m.hsn \in {200, 404, 400}
           /\ m.tr_offset = pk.tr_offset /\ m.hsent = pk.hsent
           /\ m.hsn = 400 <=> pk.uri = BadGet
        \/ /\ pk.ppg # NULL /\ ~BrokenIn(a.conn, pk.cpn)
           /\ pk.hsn = 200 /\ m.hsn = 200 /\ m.tr_offset = pk.tr_offset
           /\ pk.hsent = 0 /\ m.hsent \in 1 .. HeadSize
        \/ /\ pk.ppg # NULL /\ ~BrokenIn(a.conn, pk.cpn)
           /\ pk.hsn = 200 /\ m.hsn = 200 /\ pk.hsent > 0 /\ m.hsent = pk.hsent
           /\ pk.tr_offset < m.tr_offset /\ m.tr_offset <= pk.tr_offset + MAXWB
           /\ m.tr_offset <= FileSize[pk.uri]

\* How a handler that works for package p alone leads from state a to state r: it
\* goes on with the response, or ends it.
Leads(a, r, p) ==
    \/ Works(a, r, p) /\ GoesOn(a, r, p)
    \/ \E u : /\ Ready(u, {p}) /\ Follows(a, u, p) /\ r = svr_http_final(u, p)
              /\ a.pkg[p].ppg # NULL => Over(a.pkg[p], u.conn, u.cache)

LEMMA WorksOn ==
  ASSUME NEW a, NEW s, NEW t, NEW p, Works(a, s, p), Works(s, t, p)
  PROVE  Works(a, t, p)
<1>1. \A q \in DOMAIN a.pkg : q # p => t.pkg[q] = a.pkg[q]
  BY DEF Works
<1>2. QED
  BY <1>1 DEF Works

LEMMA WorksFollows ==
  ASSUME NEW a, NEW s, NEW p, Works(a, s, p)
  PROVE  Follows(a, s, p)
<1>1. Lost(a.cache) \subseteq Lost(s.cache)
  BY LostKept DEF Works
<1>2. QED
  BY <1>1 DEF Works, Follows, SameAnswer

LEMMA WorksNothing ==
  ASSUME NEW s, NEW t, NEW p, t.conn = s.conn, t.pkg = s.pkg, t.cache = s.cache
  PROVE  Works(s, t, p)
BY DEF Works

\* Only callbacks are added or removed.
LEMMA PostWorks ==
  ASSUME NEW s, NEW t, NEW p, SameBut(s, t, {"pending"})
  PROVE  Works(s, t, p) /\ t.pkg = s.pkg
<1>1. t.conn = s.conn /\ t.pkg = s.pkg /\ t.cache = s.cache
  BY DEF SameBut
<1>2. QED
  BY <1>1, WorksNothing

\* How svr_http_body goes on: the package waits for the block or writes it, or it
\* ends because the block could not be read.
BodyLeads(s, r, p) ==
    \/ /\ Works(s, r, p)
       /\ r.pkg[p].hsn = s.pkg[p].hsn /\ r.pkg[p].tr_offset = s.pkg[p].tr_offset
       /\ r.pkg[p].hsent = s.pkg[p].hsent
    \/ \E u : /\ Ready(u, {p}) /\ Works(s, u, p) /\ r = svr_http_final(u, p)
              /\ s.pkg[p].uri \in Lost(u.cache)

\* What a package becomes when it needs the block at o.
Entered(pk, o) == [pk EXCEPT !.hst = "FETCHING", !.wst = "BODY", !.bodykey = o]

LEMMA EnteredFields ==
  ASSUME NEW pk \in Package, NEW o \in Int
  PROVE  LET m == Entered(pk, o) IN
         /\ m \in Package /\ m.uri = pk.uri /\ m.cpn = pk.cpn
         /\ m.ppg = pk.ppg /\ m.lcg = pk.lcg /\ m.nsg = pk.nsg
         /\ m.cbody = pk.cbody /\ m.cached = pk.cached /\ m.hsn = pk.hsn
         /\ m.hst = "FETCHING" /\ m.wst = "BODY"
         /\ m.bodykey = o /\ m.tr_offset = pk.tr_offset /\ m.hsent = pk.hsent
<1> DEFINE m == [pk EXCEPT !.hst = "FETCHING", !.wst = "BODY", !.bodykey = o]
<1>1. m \in Package
  <2> DEFINE a == [pk EXCEPT !.hst = "FETCHING", !.wst = "BODY"]
  <2>1. PICK hst \in {"FETCHING"}, wst \in {"BODY"} : TRUE
    OBVIOUS
  <2>2. a = [pk EXCEPT !.hst = hst, !.wst = wst]
    BY <2>1
  <2>3. a \in Package
    <3> DEFINE n == [pk EXCEPT !.hst = hst, !.wst = wst]
    <3>1. /\ hst \in {"READING", "PARSING", "FETCHING", "WRITING", "UNKNOWN"}
          /\ wst \in {"HEAD", "BODY", "UNO"}
      BY <2>1
    <3>2. n \in Package
      BY <3>1, MarkedIsPackage
    <3>3. a = n
      BY <2>2
    <3> HIDE DEF n, a
    <3>4. QED
      BY <3>2, <3>3
  <2>4. m = [a EXCEPT !.bodykey = o]
    BY DEF Package
  <2> HIDE DEF a, m
  <2>5. QED
    BY <2>3, <2>4 DEF Package
<1>2. /\ m.uri = pk.uri /\ m.cpn = pk.cpn
      /\ m.ppg = pk.ppg /\ m.lcg = pk.lcg /\ m.nsg = pk.nsg
      /\ m.cbody = pk.cbody /\ m.cached = pk.cached /\ m.hsn = pk.hsn
      /\ m.hst = "FETCHING" /\ m.wst = "BODY"
      /\ m.bodykey = o /\ m.tr_offset = pk.tr_offset /\ m.hsent = pk.hsent
  BY DEF Package
<1>3. m = Entered(pk, o)
  BY DEF Entered
<1> HIDE DEF m
<1>4. QED
  BY <1>1, <1>2, <1>3

\* A handler that needs the next block of a response ends well, however get finds
\* its slot.
LEMMA BodyKeeps ==
  ASSUME NEW s, NEW p, Ready(s, {p}), s.pkg[p].ppg # NULL, s.pkg[p].uri \in Plain,
         s.pkg[p].hsn = 200, s.pkg[p].hsent > 0, s.conn[s.pkg[p].cpn] = "CONNECTED",
         s.pkg[p].cbody = -1 \/ s.pkg[p].cached,
         s.pkg[p].tr_offset <= FileSize[s.pkg[p].uri]
  PROVE  Ready(svr_http_body(s, p), {}) /\ BodyLeads(s, svr_http_body(s, p), p)
<1> DEFINE pk == s.pkg[p]
           offset == pk.tr_offset
           k == Block(pk.uri, offset)
           t == [Mark(s, p, "FETCHING", "BODY") EXCEPT !.pkg[p].bodykey = offset]
           r == svr_http_body(s, p)
<1>1. /\ IsState(s) /\ s.abort = "none" /\ p \in DOMAIN s.pkg /\ pk \in Package
      /\ p \in 1 .. MaxPkgs
  BY ReadyParts, RunningFacts
<1>2. ~WriteClosing(s, p) /\ k = BodyKey(pk.uri, offset)
  BY PlainKeys DEF WriteClosing, Cst
<1>3. /\ SameBut(s, t, {"pkg"}) /\ DOMAIN t.pkg = DOMAIN s.pkg
      /\ \A q \in DOMAIN s.pkg : q # p => t.pkg[q] = s.pkg[q]
      /\ t.pkg[p] = Entered(pk, offset)
  BY <1>1 DEF Mark, IsState, SameBut, Package, Entered
<1> HIDE DEF t
<1>4. /\ t.pkg[p] \in Package /\ t.pkg[p].uri = pk.uri /\ t.pkg[p].cpn = pk.cpn
      /\ t.pkg[p].ppg = pk.ppg /\ t.pkg[p].lcg = pk.lcg /\ t.pkg[p].nsg = pk.nsg
      /\ t.pkg[p].cbody = pk.cbody /\ t.pkg[p].cached = pk.cached /\ t.pkg[p].hsn = pk.hsn
      /\ t.pkg[p].hst = "FETCHING" /\ t.pkg[p].wst = "BODY"
      /\ t.pkg[p].bodykey = offset /\ t.pkg[p].tr_offset = offset
      /\ t.pkg[p].hsent = pk.hsent
  <2>1. offset \in Int /\ pk.tr_offset = offset
    BY <1>1 DEF Package
  <2> HIDE DEF offset, pk
  <2>2. QED
    <3>1. t.pkg[p] = Entered(pk, offset)
      BY <1>3
    <3>2. pk \in Package
      BY <1>1
    <3>3. QED
      BY <2>1, <3>1, <3>2, EnteredFields
<1>5. Touched(s.pkg, t.pkg, p)
  BY <1>3, <1>4 DEF Touched
<1>6. Ready(t, {p}) /\ IsState(t) /\ t.conn = s.conn /\ t.cache = s.cache /\ t.pending = s.pending
  BY <1>3, <1>5, TouchedReady DEF SameBut
<1>7. Fetching(t.conn, t.pkg[p]) /\ BlockOf(t.pkg[p]) = k
  BY <1>4, <1>6 DEF Fetching, BlockOf
<1>8. {p} \ {p} = {}
  OBVIOUS
<1>9. CASE k \notin DOMAIN s.cache
  <2> DEFINE a == reserve(t, k, p)
             b == [a EXCEPT !.pkg[p].cbody = offset]
             entry == [status |-> "reserved", data |-> [hsn |-> 0, size |-> 0],
                       refCount |-> 1, queue |-> <<p>>]
  <2>1. r = Post(b, "svr_http_body_pio", p)
    BY <1>2, <1>9 DEF svr_http_body, t
  <2>2. SameBut(t, a, {"cache"}) /\ a.cache = With(s.cache, k, entry)
    BY <1>6 DEF reserve, SameBut, IsState
  <2> HIDE DEF a
  <2>3. SameBut(a, b, {"pkg"}) /\ b.pkg = [t.pkg EXCEPT ![p].cbody = offset]
    BY <2>2 DEF SameBut, IsState
  <2> HIDE DEF b
  <2>4. SameBut(b, r, {"pending"}) /\ r.pending = b.pending \cup {Reader(p)}
    BY <2>1, <2>3, PostFields DEF SameBut, Reader
  <2> HIDE DEF r
  <2>5. /\ SameBut(t, r, {"pkg", "pending", "cache"})
        /\ r.pkg = [t.pkg EXCEPT ![p].cbody = t.pkg[p].bodykey]
        /\ r.pending = t.pending \cup {Reader(p)}
        /\ r.cache = With(t.cache, BlockOf(t.pkg[p]), entry)
    BY <1>4, <1>6, <1>7, <2>2, <2>3, <2>4 DEF SameBut
  <2>6. t.pkg[p].tr_offset <= FileSize[t.pkg[p].uri] /\ BlockOf(t.pkg[p]) \notin DOMAIN t.cache
    BY <1>4, <1>6, <1>7, <1>9
  <2>7. Ready(r, {p} \ {p})
    BY <1>6, <1>7, <2>5, <2>6, ReserveReady
  <2>8. /\ DOMAIN r.pkg = DOMAIN s.pkg
        /\ \A q \in DOMAIN s.pkg : q # p => r.pkg[q] = s.pkg[q]
        /\ r.pkg[p] = [t.pkg[p] EXCEPT !.cbody = t.pkg[p].bodykey]
    BY <1>1, <1>3, <2>5
  <2>9. \A c : \A m \in Package : LET n == [m EXCEPT !.cbody = c] IN
           /\ n.uri = m.uri /\ n.cpn = m.cpn /\ n.ppg = m.ppg /\ n.lcg = m.lcg
           /\ n.nsg = m.nsg /\ n.hsn = m.hsn /\ n.tr_offset = m.tr_offset /\ n.hsent = m.hsent
    BY DEF Package
  <2>10. \A x \in DOMAIN s.cache : x \in DOMAIN r.cache /\ r.cache[x] = s.cache[x]
    <3>1. r.cache = With(s.cache, k, entry)
      BY <1>6, <1>7, <2>5
    <3> HIDE DEF k, entry
    <3>2. QED
      BY <1>9, <3>1 DEF With
  <2>11. r.conn = s.conn
    BY <1>6, <2>5 DEF SameBut
  <2> HIDE DEF entry
  <2>12. BodyLeads(s, r, p)
    BY <1>4, <2>8, <2>9, <2>10, <2>11 DEF BodyLeads, Works
  <2>13. QED
    BY <1>8, <2>7, <2>12 DEF r
<1>10. CASE k \in DOMAIN s.cache /\ s.cache[k].status = "reserved"
  <2>1. r = [t EXCEPT !.cache[k].queue = Append(@, p)]
    BY <1>2, <1>10 DEF svr_http_body, t
  <2>2. SameBut(t, r, {"cache"}) /\ r.cache = [t.cache EXCEPT ![k].queue = Append(@, p)]
    BY <1>6, <2>1 DEF SameBut, IsState
  <2> HIDE DEF r
  <2>3. Ready(r, {p} \ {p})
    <3>1. t.pkg[p].cbody = -1 \/ t.pkg[p].cached
      BY <1>4
    <3>2. k \in DOMAIN t.cache /\ t.cache[k].status = "reserved"
      BY <1>6, <1>10
    <3> HIDE DEF k
    <3>3. QED
      BY <1>6, <1>7, <2>2, <3>1, <3>2, QueueReady
  <2>4. \A x \in DOMAIN s.cache :
           s.cache[x].status = "cancelled" =>
               x \in DOMAIN r.cache /\ r.cache[x].status = "cancelled"
    <3> HIDE DEF k
    <3>1. QED
      BY <1>6, <1>10, <2>2
  <2>5. r.conn = s.conn /\ r.pkg = t.pkg
    BY <1>6, <2>2 DEF SameBut
  <2>6. BodyLeads(s, r, p)
    BY <1>3, <1>4, <2>4, <2>5 DEF BodyLeads, Works
  <2>7. QED
    BY <1>8, <2>3, <2>6 DEF r
<1>11. CASE k \in DOMAIN s.cache /\ s.cache[k].status = "filled"
  <2> DEFINE a == [t EXCEPT !.cache[k].refCount = @ + 1]
             e == [s.cache[k] EXCEPT !.refCount = @ + 1]
  <2>0. s.cache[k].data \in Data
    BY <1>11, ReadyParts DEF Types, Entry
  <2>1. r = svr_http_body_wio(a, p, s.cache[k].data)
    BY <1>2, <1>11 DEF svr_http_body, t, Given
  <2>2. SameBut(t, a, {"cache"}) /\ a.cache = [s.cache EXCEPT ![k] = e]
    <3> HIDE DEF k
    <3>1. QED
      BY <1>6, <1>11 DEF SameBut, IsState
  <2> HIDE DEF a
  <2>3. Called(a, r, {p})
    <3>1. IsState(a) /\ p \in DOMAIN a.pkg /\ a.pkg[p] \in Package
          /\ a.conn[a.pkg[p].cpn] = "CONNECTED" /\ a.pkg[p].wst = "BODY"
      <4>1. IsState(a) /\ a.pkg = t.pkg /\ a.conn = s.conn
        BY <1>6, <2>2 DEF SameBut
      <4>2. p \in DOMAIN t.pkg
        BY <1>1, <1>3
      <4>3. QED
        BY <1>4, <4>1, <4>2
    <3>2. r = CallBack(a, p, s.cache[k].data)
      BY <2>1, <3>1 DEF CallBack
    <3> HIDE DEF r, k
    <3>3. QED
      BY <2>0, <3>1, <3>2, WioFields
  <2> HIDE DEF r
  <2>4. /\ SameBut(s, r, {"pkg", "pending", "cache"}) /\ r.cache = [s.cache EXCEPT ![k] = e]
        /\ DOMAIN r.pkg = DOMAIN s.pkg /\ r.pkg[p] = Marked(t.pkg[p])
        /\ \A q \in DOMAIN s.pkg : q # p => r.pkg[q] = s.pkg[q]
        /\ r.pending = s.pending \cup {Writer(p)}
    <3>1. SameBut(s, r, {"pkg", "pending", "cache"}) /\ r.cache = [s.cache EXCEPT ![k] = e]
      BY <1>3, <2>2, <2>3 DEF SameBut, Called
    <3>2. a.pkg = t.pkg /\ a.pending = s.pending
      BY <1>6, <2>2 DEF SameBut
    <3>3. {Writer(q) : q \in {p}} = {Writer(p)}
      OBVIOUS
    <3>4. QED
      BY <1>3, <2>3, <3>1, <3>2, <3>3 DEF Called
  <2>5. LET m == r.pkg[p] IN
         /\ m \in Package /\ m.hst = "WRITING" /\ m.wst = "BODY"
         /\ m.uri = pk.uri /\ m.cpn = pk.cpn /\ m.ppg = pk.ppg /\ m.lcg = pk.lcg
         /\ m.nsg = pk.nsg /\ m.hsn = 200 /\ m.bodykey = offset
         /\ m.tr_offset = offset /\ m.cbody = pk.cbody /\ m.cached = pk.cached
         /\ m.hsent = pk.hsent
    BY <1>4, <2>4, MarkedFields
  <2>6. Touched(s.pkg, r.pkg, p)
    BY <2>4, <2>5 DEF Touched
  <2>7. s.cache[k] \in Entry
    BY <1>11, ReadyParts DEF Types
  <2>8. /\ e.status = s.cache[k].status /\ e.data = s.cache[k].data
        /\ e.queue = s.cache[k].queue /\ e.refCount = s.cache[k].refCount + 1
        /\ e \in Entry
    <3> HIDE DEF k
    <3>1. QED
      BY <2>7 DEF Entry
  <2>9. k[1] = pk.uri /\ k[2] = offset /\ offset # -1
    BY <1>1 DEF Block, Package
  <2>10. ASSUME NEW x \in DOMAIN s.cache PROVE Uses(r.pkg[p], x) <=> x = k
    <3>1. x \in Plain \X (Nat \cup {-1})
      BY ReadyParts DEF Slots, Slot
    <3>2. x = <<x[1], x[2]>>
      BY <3>1
    <3>3. Uses(r.pkg[p], x) => x = k
      BY <2>5, <3>2 DEF Uses, Block
    <3>4. x = k => Uses(r.pkg[p], x)
      BY <2>5, <2>9 DEF Uses
    <3>5. QED
      BY <3>3, <3>4
  <2> HIDE DEF k, e
  <2>11. Referenced(s.cache, r.cache, r.pkg[p])
    <3>1. DOMAIN r.cache = DOMAIN s.cache /\ r.cache[k] = e
          /\ \A x \in DOMAIN s.cache : x # k => r.cache[x] = s.cache[x]
      BY <1>11, <2>4
    <3>2. \A x \in DOMAIN s.cache :
             s.cache[x] \in Entry
      BY ReadyParts DEF Types
    <3>3. ASSUME NEW x \in DOMAIN s.cache
          PROVE  /\ r.cache[x].status = s.cache[x].status /\ r.cache[x].data = s.cache[x].data
                 /\ r.cache[x].queue = s.cache[x].queue
                 /\ Uses(r.pkg[p], x) => r.cache[x].refCount = s.cache[x].refCount + 1
                 /\ ~Uses(r.pkg[p], x) => r.cache[x].refCount = s.cache[x].refCount
                 /\ r.cache[x] \in Entry
      <4>1. CASE x = k
        BY <2>8, <2>10, <3>1, <4>1
      <4>2. CASE x # k
        BY <2>10, <3>1, <3>2, <4>2
      <4>3. QED
        BY <4>1, <4>2
    <3>4. QED
      BY <3>1, <3>3 DEF Referenced
  <2>12. Phase(s.conn, r.cache, "svr_http_body_rio", p, r.pkg[p])
    <3>1. BlockOf(r.pkg[p]) = k /\ k \in DOMAIN r.cache /\ r.cache[k].status = "filled"
      BY <1>11, <2>4, <2>5, <2>8 DEF BlockOf, k
    <3>2. WritingBlock(r.cache, r.pkg[p])
      BY <2>5, <3>1 DEF WritingBlock
    <3>3. QED
      BY <2>5, <3>2 DEF Phase
  <2>13. Ready(r, {p} \ {p})
    <3>1. PICK h : h = "svr_http_body_rio"
      OBVIOUS
    <3>2. h \in Handlers \ {"svr_http_body_pio"}
      BY <3>1 DEF Handlers
    <3>3. r.pending = s.pending \cup {[handler |-> h, pk |-> p]}
      BY <2>4, <3>1 DEF Writer
    <3>4. Phase(s.conn, r.cache, h, p, r.pkg[p])
      BY <2>12, <3>1
    <3>5. SameBut(s, r, {"pkg", "pending", "cache"})
      BY <2>4
    <3>6. PICK R : R = {p}
      OBVIOUS
    <3>7. Ready(s, R) /\ p \in R
      BY <3>6
    <3> HIDE DEF r, pk
    <3>8. Ready(r, R \ {p})
      BY <2>6, <2>11, <3>2, <3>3, <3>4, <3>5, <3>7, Resumes
    <3>9. QED
      BY <3>6, <3>8
  <2>14. \A x \in DOMAIN s.cache : x \in DOMAIN r.cache /\ r.cache[x].status = s.cache[x].status
    BY <2>11 DEF Referenced
  <2>15. r.conn = s.conn
    BY <2>4 DEF SameBut
  <2>16. BodyLeads(s, r, p)
    BY <2>4, <2>5, <2>14, <2>15 DEF BodyLeads, Works
  <2>17. QED
    BY <1>8, <2>13, <2>16 DEF r
<1>12. CASE k \in DOMAIN s.cache /\ s.cache[k].status = "cancelled"
  <2> DEFINE a == [t EXCEPT !.cache[k].refCount = @ + 1]
  <2>1. r = svr_http_final(a, p)
    BY <1>2, <1>12 DEF svr_http_body, t, Given, svr_http_body_wio
  <2>2. SameBut(t, a, {"cache"}) /\ Ready(a, {p})
    <3> HIDE DEF k
    <3>1. QED
      BY <1>6, <1>12, CancelledReference
  <2> HIDE DEF a
  <2>3. Writable(a.conn, a.pkg[p])
    BY <1>4, <1>6, <2>2 DEF SameBut, Writable
  <2>4. Ready(svr_http_final(a, p), {p} \ {p})
    BY <2>2, <2>3, FinalKeeps
  <2>5. /\ \A x \in DOMAIN s.cache : x \in DOMAIN a.cache /\ a.cache[x].status = s.cache[x].status
    <3> HIDE DEF k
    <3>1. a.cache = [t.cache EXCEPT ![k].refCount = @ + 1]
      BY <1>6 DEF a, IsState
    <3>2. \A x \in DOMAIN s.cache : DOMAIN s.cache[x] = {"status", "data", "refCount", "queue"}
      BY ReadyParts DEF Types, Entry
    <3>3. QED
      BY <1>6, <3>1, <3>2
  <2>6. a.conn = s.conn /\ a.pkg = t.pkg
    BY <1>6, <2>2 DEF SameBut
  <2>7. Works(s, a, p)
    BY <1>3, <1>4, <2>5, <2>6 DEF Works
  <2>8. k[1] = pk.uri
    BY DEF Block
  <2>9. k \in DOMAIN a.cache /\ a.cache[k].status = "cancelled"
    <3> HIDE DEF k
    <3>1. QED
      BY <1>12, <2>5
  <2> HIDE DEF k
  <2>10. BodyLeads(s, r, p)
    <3> HIDE DEF r
    <3>1. pk.uri \in Lost(a.cache)
      BY <2>8, <2>9 DEF Lost
    <3>2. QED
      BY <2>1, <2>2, <2>7, <3>1 DEF BodyLeads
  <2>11. QED
    BY <1>8, <2>1, <2>4, <2>10
<1>13. QED
  <2>1. k \in DOMAIN s.cache => s.cache[k].status \in {"reserved", "filled", "cancelled"}
    BY ReadyParts DEF Types, Entry
  <2>2. QED
    BY <1>9, <1>10, <1>11, <1>12, <2>1
=============================================================================
