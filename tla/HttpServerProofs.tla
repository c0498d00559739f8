-------------------------- MODULE HttpServerProofs --------------------------
(***************************************************************************)
(* The steps of HttpServer keep the invariant of HttpServerLemmas, and the *)
(* theorems that follow, for any files, sizes and bounds.  A step also     *)
(* serves each client as HttpSession promises: what a client sees of the   *)
(* packages of its connection is their View, and Moves says how it may     *)
(* change.                                                                 *)
(***************************************************************************)
EXTENDS HttpServerLemmas, SequenceTheorems, TLAPS


\* What a change of its state leaves of a package.
SameRequest(pk, m) ==
    /\ m \in Package
    /\ m.uri = pk.uri /\ m.cpn = pk.cpn /\ m.ppg = pk.ppg /\ m.lcg = pk.lcg
    /\ m.nsg = pk.nsg /\ m.tr_offset = pk.tr_offset /\ m.hsent = pk.hsent
    /\ m.bodykey = pk.bodykey
    /\ m.cbody = pk.cbody /\ m.cached = pk.cached

\* Only what package p is doing changes.
Changed(s, t, p) ==
    /\ SameBut(s, t, {"pkg"})
    /\ DOMAIN t.pkg = DOMAIN s.pkg
    /\ \A q \in DOMAIN s.pkg : q # p => t.pkg[q] = s.pkg[q]
    /\ SameRequest(s.pkg[p], t.pkg[p])

\* The fields that a change is about.
Doing(pk, hst, wst, hsn, headkey) ==
    pk.hst = hst /\ pk.wst = wst /\ pk.hsn = hsn /\ pk.headkey = headkey

\* The assignments of the handlers.
SetHsn(s, p, n) == [s EXCEPT !.pkg[p].hsn = n]

SetHeadkey(s, p) == [s EXCEPT !.pkg[p].headkey = TRUE]

SetHst(s, p, hst) == [s EXCEPT !.pkg[p].hst = hst]

LEMMA MarkPackage ==
  ASSUME NEW pk \in Package, NEW hst \in {"READING", "PARSING", "FETCHING", "WRITING", "UNKNOWN"},
         NEW wst \in {"HEAD", "BODY", "UNO"}
  PROVE  /\ SameRequest(pk, [pk EXCEPT !.hst = hst, !.wst = wst])
         /\ Doing([pk EXCEPT !.hst = hst, !.wst = wst], hst, wst, pk.hsn, pk.headkey)
<1> DEFINE m == [pk EXCEPT !.hst = hst, !.wst = wst]
<1>1. m \in Package
  BY MarkedIsPackage
<1>2. /\ m.uri = pk.uri /\ m.cpn = pk.cpn /\ m.ppg = pk.ppg /\ m.lcg = pk.lcg
      /\ m.nsg = pk.nsg /\ m.tr_offset = pk.tr_offset /\ m.hsent = pk.hsent
      /\ m.bodykey = pk.bodykey
      /\ m.cbody = pk.cbody /\ m.cached = pk.cached
  BY DEF Package
<1>3. Doing(m, hst, wst, pk.hsn, pk.headkey)
  BY DEF Package, Doing
<1> HIDE DEF m
<1>4. QED
  BY <1>1, <1>2, <1>3 DEF SameRequest, m

LEMMA MarkChanges ==
  ASSUME NEW s, IsState(s), NEW p \in DOMAIN s.pkg, s.pkg[p] \in Package,
         NEW hst \in {"READING", "PARSING", "FETCHING", "WRITING", "UNKNOWN"},
         NEW wst \in {"HEAD", "BODY", "UNO"}
  PROVE  /\ Changed(s, Mark(s, p, hst, wst), p)
         /\ Doing(Mark(s, p, hst, wst).pkg[p], hst, wst, s.pkg[p].hsn, s.pkg[p].headkey)
<1> DEFINE t == Mark(s, p, hst, wst)
           m == [s.pkg[p] EXCEPT !.hst = hst, !.wst = wst]
<1>1. /\ SameBut(s, t, {"pkg"}) /\ DOMAIN t.pkg = DOMAIN s.pkg
      /\ \A q \in DOMAIN s.pkg : q # p => t.pkg[q] = s.pkg[q]
      /\ t.pkg[p] = m
  BY DEF Mark, SetHsn, SetHeadkey, SetHst, IsState, SameBut, Package
<1>2. SameRequest(s.pkg[p], m) /\ Doing(m, hst, wst, s.pkg[p].hsn, s.pkg[p].headkey)
  BY MarkPackage
<1> HIDE DEF t, m
<1>3. QED
  BY <1>1, <1>2 DEF Changed, t

LEMMA HsnPackage ==
  ASSUME NEW pk \in Package, NEW n \in {200, 404, 400, 0}
  PROVE  /\ SameRequest(pk, [pk EXCEPT !.hsn = n])
         /\ Doing([pk EXCEPT !.hsn = n], pk.hst, pk.wst, n, pk.headkey)
<1> DEFINE m == [pk EXCEPT !.hsn = n]
<1>1. m \in Package
  BY SMTT(60) DEF Package
<1>2. /\ m.uri = pk.uri /\ m.cpn = pk.cpn /\ m.ppg = pk.ppg /\ m.lcg = pk.lcg
      /\ m.nsg = pk.nsg /\ m.tr_offset = pk.tr_offset /\ m.hsent = pk.hsent
      /\ m.bodykey = pk.bodykey
      /\ m.cbody = pk.cbody /\ m.cached = pk.cached
  BY DEF Package
<1>3. Doing(m, pk.hst, pk.wst, n, pk.headkey)
  BY DEF Package, Doing
<1> HIDE DEF m
<1>4. QED
  BY <1>1, <1>2, <1>3 DEF SameRequest, m

LEMMA HsnChanges ==
  ASSUME NEW s, IsState(s), NEW p \in DOMAIN s.pkg, s.pkg[p] \in Package,
         NEW n \in {200, 404, 400, 0}
  PROVE  /\ Changed(s, SetHsn(s, p, n), p)
         /\ Doing(SetHsn(s, p, n).pkg[p], s.pkg[p].hst, s.pkg[p].wst, n, s.pkg[p].headkey)
<1> DEFINE t == SetHsn(s, p, n)
           m == [s.pkg[p] EXCEPT !.hsn = n]
<1>1. /\ SameBut(s, t, {"pkg"}) /\ DOMAIN t.pkg = DOMAIN s.pkg
      /\ \A q \in DOMAIN s.pkg : q # p => t.pkg[q] = s.pkg[q]
      /\ t.pkg[p] = m
  BY DEF Mark, SetHsn, SetHeadkey, SetHst, IsState, SameBut, Package
<1>2. SameRequest(s.pkg[p], m) /\ Doing(m, s.pkg[p].hst, s.pkg[p].wst, n, s.pkg[p].headkey)
  BY HsnPackage
<1> HIDE DEF t, m
<1>3. QED
  BY <1>1, <1>2 DEF Changed, t

LEMMA HeadkeyIsPackage ==
  ASSUME NEW pk \in Package, NEW c \in BOOLEAN
  PROVE  [pk EXCEPT !.headkey = c] \in Package
BY DEF Package

LEMMA HeadkeyPackage ==
  ASSUME NEW pk \in Package
  PROVE  /\ SameRequest(pk, [pk EXCEPT !.headkey = TRUE])
         /\ Doing([pk EXCEPT !.headkey = TRUE], pk.hst, pk.wst, pk.hsn, TRUE)
<1> DEFINE m == [pk EXCEPT !.headkey = TRUE]
<1>1. m \in Package
  BY HeadkeyIsPackage
<1>2. /\ m.uri = pk.uri /\ m.cpn = pk.cpn /\ m.ppg = pk.ppg /\ m.lcg = pk.lcg
      /\ m.nsg = pk.nsg /\ m.tr_offset = pk.tr_offset /\ m.hsent = pk.hsent
      /\ m.bodykey = pk.bodykey
      /\ m.cbody = pk.cbody /\ m.cached = pk.cached
  BY DEF Package
<1>3. Doing(m, pk.hst, pk.wst, pk.hsn, TRUE)
  BY DEF Package, Doing
<1> HIDE DEF m
<1>4. QED
  BY <1>1, <1>2, <1>3 DEF SameRequest, m

LEMMA HeadkeyChanges ==
  ASSUME NEW s, IsState(s), NEW p \in DOMAIN s.pkg, s.pkg[p] \in Package
  PROVE  /\ Changed(s, SetHeadkey(s, p), p)
         /\ Doing(SetHeadkey(s, p).pkg[p], s.pkg[p].hst, s.pkg[p].wst, s.pkg[p].hsn, TRUE)
<1> DEFINE t == SetHeadkey(s, p)
           m == [s.pkg[p] EXCEPT !.headkey = TRUE]
<1>1. /\ SameBut(s, t, {"pkg"}) /\ DOMAIN t.pkg = DOMAIN s.pkg
      /\ \A q \in DOMAIN s.pkg : q # p => t.pkg[q] = s.pkg[q]
      /\ t.pkg[p] = m
  BY DEF Mark, SetHsn, SetHeadkey, SetHst, IsState, SameBut, Package
<1>2. SameRequest(s.pkg[p], m) /\ Doing(m, s.pkg[p].hst, s.pkg[p].wst, s.pkg[p].hsn, TRUE)
  BY HeadkeyPackage
<1> HIDE DEF t, m
<1>3. QED
  BY <1>1, <1>2 DEF Changed, t

LEMMA HstPackage ==
  ASSUME NEW pk \in Package, NEW hst \in {"READING", "PARSING"}
  PROVE  /\ SameRequest(pk, [pk EXCEPT !.hst = hst])
         /\ Doing([pk EXCEPT !.hst = hst], hst, pk.wst, pk.hsn, pk.headkey)
<1> DEFINE m == [pk EXCEPT !.hst = hst]
<1>1. m \in Package
  BY SMTT(60) DEF Package
<1>2. /\ m.uri = pk.uri /\ m.cpn = pk.cpn /\ m.ppg = pk.ppg /\ m.lcg = pk.lcg
      /\ m.nsg = pk.nsg /\ m.tr_offset = pk.tr_offset /\ m.hsent = pk.hsent
      /\ m.bodykey = pk.bodykey
      /\ m.cbody = pk.cbody /\ m.cached = pk.cached
  BY DEF Package
<1>3. Doing(m, hst, pk.wst, pk.hsn, pk.headkey)
  BY DEF Package, Doing
<1> HIDE DEF m
<1>4. QED
  BY <1>1, <1>2, <1>3 DEF SameRequest, m

LEMMA HstChanges ==
  ASSUME NEW s, IsState(s), NEW p \in DOMAIN s.pkg, s.pkg[p] \in Package,
         NEW hst \in {"READING", "PARSING"}
  PROVE  /\ Changed(s, SetHst(s, p, hst), p)
         /\ Doing(SetHst(s, p, hst).pkg[p], hst, s.pkg[p].wst, s.pkg[p].hsn, s.pkg[p].headkey)
<1> DEFINE t == SetHst(s, p, hst)
           m == [s.pkg[p] EXCEPT !.hst = hst]
<1>1. /\ SameBut(s, t, {"pkg"}) /\ DOMAIN t.pkg = DOMAIN s.pkg
      /\ \A q \in DOMAIN s.pkg : q # p => t.pkg[q] = s.pkg[q]
      /\ t.pkg[p] = m
  BY DEF Mark, SetHsn, SetHeadkey, SetHst, IsState, SameBut, Package
<1>2. SameRequest(s.pkg[p], m) /\ Doing(m, hst, s.pkg[p].wst, s.pkg[p].hsn, s.pkg[p].headkey)
  BY HstPackage
<1> HIDE DEF t, m
<1>3. QED
  BY <1>1, <1>2 DEF Changed, t

LEMMA ChangedAgain ==
  ASSUME NEW s, NEW t, NEW u, NEW p, Changed(s, t, p), Changed(t, u, p)
  PROVE  Changed(s, u, p)
<1>1. SameBut(s, u, {"pkg"})
  BY DEF Changed, SameBut
<1>2. QED
  BY <1>1 DEF Changed, SameRequest

LEMMA ChangedTouches ==
  ASSUME NEW s, NEW t, NEW p, Changed(s, t, p), s.pkg[p].ppg = NULL => t.pkg[p].wst = "UNO"
  PROVE  Touched(s.pkg, t.pkg, p)
BY DEF Changed, SameRequest, Touched

LEMMA ChangedWorks ==
  ASSUME NEW s, NEW t, NEW p, Changed(s, t, p)
  PROVE  Works(s, t, p) /\ t.pkg[p].tr_offset = s.pkg[p].tr_offset /\ t.pkg[p].hsent = s.pkg[p].hsent
BY DEF Changed, SameRequest, SameBut, Works

(***************************************************************************)
(* The header of a response                                                *)
(***************************************************************************)

\* svr_http_header_wio writes the header: only package p and its callback change.
LEMMA HeaderWioFields ==
  ASSUME NEW s, IsState(s), NEW p \in DOMAIN s.pkg, s.pkg[p] \in Package,
         NEW data \in Data, data.hsn \in {200, 404}, s.conn[s.pkg[p].cpn] = "CONNECTED"
  PROVE  \E u :
         /\ Changed(s, u, p)
         /\ Doing(u.pkg[p], "WRITING", "HEAD", data.hsn, s.pkg[p].headkey)
         /\ SameBut(u, svr_http_header_wio(s, p, data), {"pending"})
         /\ svr_http_header_wio(s, p, data).pending = s.pending \cup
               {[handler |-> "svr_http_header_to_body_aio", pk |-> p]}
<1> DEFINE m == Mark(s, p, "WRITING", "HEAD")
           u == SetHsn(m, p, data.hsn)
           t == Post(u, "svr_http_header_to_body_aio", p)
<1>1. svr_http_header_wio(s, p, data) = t
  <2>1. data # NoData /\ ~WriteClosing(s, p)
    BY DEF Data, NoData, WriteClosing, Cst
  <2>2. QED
    BY <2>1 DEF svr_http_header_wio, SetHsn
<1>2. Changed(s, m, p) /\ Doing(m.pkg[p], "WRITING", "HEAD", s.pkg[p].hsn, s.pkg[p].headkey)
  BY MarkChanges
<1> HIDE DEF m
<1>3. IsState(m) /\ p \in DOMAIN m.pkg /\ m.pkg[p] \in Package
  BY <1>2 DEF Changed, SameRequest, SameBut
<1>a. data.hsn \in {200, 404, 400, 0}
  OBVIOUS
<1>4. /\ Changed(m, u, p)
      /\ Doing(u.pkg[p], m.pkg[p].hst, m.pkg[p].wst, data.hsn, m.pkg[p].headkey)
  BY <1>3, <1>a, HsnChanges
<1> HIDE DEF u
<1>5. Changed(s, u, p) /\ Doing(u.pkg[p], "WRITING", "HEAD", data.hsn, s.pkg[p].headkey)
  <2>1. Changed(s, u, p)
    BY <1>2, <1>4, ChangedAgain
  <2>2. QED
    BY <1>2, <1>4, <2>1 DEF Doing
<1>6. IsState(u) /\ u.pending = s.pending
  BY <1>5 DEF Changed, SameBut
<1>7. /\ SameBut(u, t, {"pending"})
      /\ t.pending = s.pending \cup {[handler |-> "svr_http_header_to_body_aio", pk |-> p]}
  BY <1>6, PostFields
<1> HIDE DEF t
<1>8. QED
  BY <1>1, <1>5, <1>7

\* The slot while its callbacks are called.
Filling(s, k, data) ==
    [s EXCEPT !.cache[k].data = data, !.cache[k].refCount = @ + 1, !.cache[k].queue = <<>>]

FinishPut(s, k) == [s EXCEPT !.cache[k].status = "filled"]

\* put on a slot that only p waits for.
LEMMA PutHeader ==
  ASSUME NEW s, IsState(s), NEW k, NEW p, NEW data, s.cache[k].status = "reserved",
         s.cache[k].queue = <<p>>, s.pkg[p].wst = "HEAD"
  PROVE  put(s, k, data) =
            FinishPut(svr_http_header_wio(Filling(s, k, data), p, data), k)
<1> DEFINE filled == [s EXCEPT !.cache[k].data = data,
                               !.cache[k].refCount = @ + Len(s.cache[k].queue),
                               !.cache[k].queue = <<>>]
           queue == s.cache[k].queue
           Run(f) == f = [i \in 0 .. Len(queue) |->
                             IF i = 0 THEN filled ELSE CallBack(f[i - 1], queue[i], data)]
           F == CHOOSE f : Run(f)
           last == CallBack(filled, p, data)
           g == [i \in 0 .. 1 |-> IF i = 0 THEN filled ELSE last]
<1>1. put(s, k, data) = FinishPut(F[Len(queue)], k)
  BY DEF put, CallInTurn, FinishPut
<1>2. Len(queue) = 1 /\ queue[1] = p
  OBVIOUS
<1> HIDE DEF queue
<1> DEFINE fl == filled
<1>3. fl = Filling(s, k, data)
  BY <1>2 DEF queue, Filling
<1>4. Run(g)
  <2>1. g[0] = filled /\ g[1] = last /\ 0 .. 1 = {0, 1}
    OBVIOUS
  <2>2. ASSUME NEW i \in 0 .. 1
        PROVE  g[i] = IF i = 0 THEN filled ELSE CallBack(g[i - 1], queue[i], data)
    <3>1. CASE i = 0
      BY <2>1, <3>1
    <3>2. CASE i = 1
      BY <1>2, <2>1, <3>2
    <3>3. QED
      BY <3>1, <3>2
  <2>3. g = [i \in 0 .. 1 |-> g[i]]
    OBVIOUS
  <2> HIDE DEF g, filled
  <2>4. QED
    BY <1>2, <2>2, <2>3
<1>5. Run(F)
  <2> HIDE DEF Run
  <2>1. QED
    BY <1>4, Zenon
<1> HIDE DEF F
<1>6. F[0] = filled /\ F[1] = CallBack(F[0], p, data)
  <2> HIDE DEF filled
  <2>1. 0 \in 0 .. 1 /\ 1 \in 0 .. 1 /\ 1 - 1 = 0
    OBVIOUS
  <2>2. QED
    BY <1>2, <1>5, <2>1
<1>a. filled.pkg = s.pkg
  BY DEF IsState
<1> HIDE DEF filled
<1>7. F[Len(queue)] = CallBack(filled, p, data)
  BY <1>2, <1>6
<1>8. CallBack(filled, p, data) = svr_http_header_wio(filled, p, data)
  BY <1>a DEF CallBack
<1>9. QED
  BY <1>1, <1>3, <1>7, <1>8

\* A header is found, or put at once: a reference to it is added.
Headed(es, es2, k) ==
    /\ DOMAIN es2 = DOMAIN es \cup {k}
    /\ \A x \in DOMAIN es : x # k => es2[x] = es[x]
    /\ es2[k] \in Entry
    /\ k \in DOMAIN es =>
          /\ es2[k].status = es[k].status /\ es2[k].data = es[k].data
          /\ es2[k].queue = es[k].queue /\ es2[k].refCount = es[k].refCount + 1
    /\ k \notin DOMAIN es =>
          /\ es2[k].status = "filled" /\ es2[k].data \in HeadData
          /\ es2[k].queue = <<>> /\ es2[k].refCount = 2

\* Package p is writing the header.
HeaderSent(s, t, p, hsn) ==
    /\ SameBut(s, t, {"pkg", "pending", "cache"})
    /\ DOMAIN t.pkg = DOMAIN s.pkg
    /\ \A q \in DOMAIN s.pkg : q # p => t.pkg[q] = s.pkg[q]
    /\ SameRequest(s.pkg[p], t.pkg[p])
    /\ Doing(t.pkg[p], "WRITING", "HEAD", hsn, TRUE)
    /\ t.pending = s.pending \cup {[handler |-> "svr_http_header_to_body_aio", pk |-> p]}
    /\ Headed(s.cache, t.cache, Header(s.pkg[p].uri))

LEMMA HeaderResumes ==
  ASSUME NEW s, NEW p, Ready(s, {p}), s.pkg[p].ppg # NULL, s.pkg[p].uri \in Plain,
         s.conn[s.pkg[p].cpn] = "CONNECTED", s.pkg[p].cbody = -1, s.pkg[p].tr_offset = 0,
         s.pkg[p].hsent = 0, NEW r, NEW hsn \in {200, 404}, HeaderSent(s, r, p, hsn)
  PROVE  Ready(r, {})
<1> DEFINE pk == s.pkg[p]
           m == r.pkg[p]
           k == Header(pk.uri)
<1>1. /\ m \in Package /\ m.hst = "WRITING" /\ m.wst = "HEAD" /\ m.hsn = hsn /\ m.headkey
      /\ m.uri = pk.uri /\ m.cpn = pk.cpn /\ m.ppg = pk.ppg /\ m.lcg = pk.lcg
      /\ m.nsg = pk.nsg /\ m.tr_offset = pk.tr_offset /\ m.hsent = pk.hsent
      /\ m.cbody = pk.cbody /\ m.cached = pk.cached
  BY DEF HeaderSent, SameRequest, Doing
<1>2. Touched(s.pkg, r.pkg, p)
  BY <1>1 DEF HeaderSent, Touched
<1>3. k = <<pk.uri, -1>> /\ k[1] = pk.uri /\ k[2] = -1 /\ k \in Plain \X {-1}
  BY DEF Header
<1>4. Headed(s.cache, r.cache, k)
  BY DEF HeaderSent
<1>5. Uses(m, k)
  BY <1>1, <1>3 DEF Uses
<1>6. ASSUME NEW x \in DOMAIN s.cache, x # k PROVE ~Uses(m, x)
  <2>1. x \in Plain \X (Nat \cup {-1})
    BY ReadyParts DEF Slots, Slot
  <2>2. x = <<x[1], x[2]>>
    BY <2>1
  <2>3. QED
    BY <1>1, <1>3, <1>6, <2>2 DEF Uses
<1> HIDE DEF k, m, pk
<1>7. Referenced(s.cache, r.cache, m)
  <2>1. \A x \in DOMAIN s.cache :
           s.cache[x] \in Entry
    BY ReadyParts DEF Types
  <2>2. /\ DOMAIN r.cache = DOMAIN s.cache \cup {k}
        /\ \A x \in DOMAIN s.cache : x # k => r.cache[x] = s.cache[x]
    BY <1>4 DEF Headed
  <2>3. \A x \in DOMAIN r.cache :
           r.cache[x] \in Entry
    <3>1. r.cache[k] \in Entry
      BY <1>4 DEF Headed
    <3>2. QED
      BY <2>1, <2>2, <3>1
  <2>4. ASSUME NEW x \in DOMAIN s.cache
        PROVE  /\ r.cache[x].status = s.cache[x].status /\ r.cache[x].data = s.cache[x].data
               /\ r.cache[x].queue = s.cache[x].queue
               /\ Uses(m, x) => r.cache[x].refCount = s.cache[x].refCount + 1
               /\ ~Uses(m, x) => r.cache[x].refCount = s.cache[x].refCount
    <3>1. CASE x = k
      BY <1>4, <1>5, <3>1 DEF Headed
    <3>2. CASE x # k
      BY <1>6, <2>2, <3>2
    <3>3. QED
      BY <3>1, <3>2
  <2>5. ASSUME NEW x \in DOMAIN r.cache \ DOMAIN s.cache
        PROVE  /\ Uses(m, x) /\ x \in Plain \X {-1}
               /\ r.cache[x].status = "filled" /\ r.cache[x].data \in HeadData
               /\ r.cache[x].queue = <<>> /\ r.cache[x].refCount = 2
    <3>1. x = k
      BY <2>2
    <3>2. QED
      BY <1>3, <1>4, <1>5, <3>1 DEF Headed
  <2>6. QED
    BY <2>2, <2>3, <2>4, <2>5 DEF Referenced
<1>8. Phase(s.conn, r.cache, "svr_http_header_to_body_aio", p, m)
  <2>1. Header(m.uri) \in DOMAIN r.cache
    BY <1>1, <1>4 DEF Headed, k
  <2>2. QED
    BY <1>1, <2>1 DEF Phase, pk
<1>9. PICK h : h = "svr_http_header_to_body_aio"
  OBVIOUS
<1>10. h \in Handlers \ {"svr_http_body_pio"}
  BY <1>9 DEF Handlers
<1>11. r.pending = s.pending \cup {[handler |-> h, pk |-> p]}
  BY <1>9 DEF HeaderSent
<1>12. Phase(s.conn, r.cache, h, p, r.pkg[p]) /\ Referenced(s.cache, r.cache, r.pkg[p])
  BY <1>7, <1>8, <1>9 DEF m
<1>13. PICK R : R = {p}
  OBVIOUS
<1>14. Ready(s, R) /\ p \in R /\ (s.pkg[p].cbody = -1 \/ s.pkg[p].cached)
  BY <1>13
<1>15. SameBut(s, r, {"pkg", "pending", "cache"})
  BY DEF HeaderSent
<1>16. Ready(r, R \ {p})
  BY <1>2, <1>10, <1>11, <1>12, <1>14, <1>15, Resumes, SMTT(60)
<1>17. QED
  BY <1>13, <1>16

\* svr_http_header, where the header is in the cache already.
LEMMA HeaderFound ==
  ASSUME NEW s, NEW p, IsState(s), p \in DOMAIN s.pkg, s.pkg[p] \in Package,
         s.conn[s.pkg[p].cpn] = "CONNECTED", s.pkg[p].headkey, NEW k,
         k = Header(s.pkg[p].uri), k \in DOMAIN s.cache,
         s.cache[k] \in Entry,
         s.cache[k].data \in HeadData
  PROVE  HeaderSent(s, svr_http_header_wio([s EXCEPT !.cache[k].refCount = @ + 1],
                                           p, s.cache[k].data), p, s.cache[k].data.hsn)
<1> DEFINE a == [s EXCEPT !.cache[k].refCount = @ + 1]
           e == [s.cache[k] EXCEPT !.refCount = @ + 1]
           data == s.cache[k].data
           r == svr_http_header_wio(a, p, data)
<1>1. SameBut(s, a, {"cache"}) /\ a.cache = [s.cache EXCEPT ![k] = e]
  BY DEF SameBut, IsState
<1>2. /\ e.status = s.cache[k].status /\ e.data = s.cache[k].data
      /\ e.queue = s.cache[k].queue /\ e.refCount = s.cache[k].refCount + 1
      /\ e \in Entry
  <2>1. PICK x : x = s.cache[k]
    OBVIOUS
  <2>2. x \in Entry
    BY <2>1
  <2>3. QED
    BY <2>1, <2>2 DEF Entry
<1> HIDE DEF a, e
<1>3. /\ IsState(a) /\ p \in DOMAIN a.pkg /\ a.pkg[p] \in Package
      /\ a.conn[a.pkg[p].cpn] = "CONNECTED" /\ a.pkg = s.pkg /\ a.pending = s.pending
      /\ data \in Data /\ data.hsn \in {200, 404}
  BY <1>1, SizeAssumption DEF SameBut, HeadData, Data
<1> HIDE DEF data
<1>4. PICK u :
         /\ Changed(a, u, p)
         /\ Doing(u.pkg[p], "WRITING", "HEAD", data.hsn, a.pkg[p].headkey)
         /\ SameBut(u, r, {"pending"})
         /\ r.pending = a.pending \cup {[handler |-> "svr_http_header_to_body_aio", pk |-> p]}
  BY <1>3, HeaderWioFields
<1> HIDE DEF r
<1>5. /\ SameBut(s, r, {"pkg", "pending", "cache"}) /\ r.cache = a.cache /\ r.pkg = u.pkg
  BY <1>1, <1>4 DEF Changed, SameBut
<1>6. Headed(s.cache, r.cache, k)
  <2>1. DOMAIN r.cache = DOMAIN s.cache /\ r.cache[k] = e
        /\ \A x \in DOMAIN s.cache : x # k => r.cache[x] = s.cache[x]
    BY <1>1, <1>5
  <2>2. DOMAIN r.cache = DOMAIN s.cache \cup {k}
    BY <2>1
  <2>3. QED
    BY <1>2, <2>1, <2>2 DEF Headed
<1>7. Doing(r.pkg[p], "WRITING", "HEAD", data.hsn, TRUE)
  BY <1>3, <1>4, <1>5 DEF Doing
<1>8. HeaderSent(s, r, p, data.hsn)
  <2>1. /\ DOMAIN r.pkg = DOMAIN s.pkg
        /\ \A q \in DOMAIN s.pkg : q # p => r.pkg[q] = s.pkg[q]
        /\ SameRequest(s.pkg[p], r.pkg[p])
    BY <1>3, <1>4, <1>5 DEF Changed
  <2>2. r.pending = s.pending \cup {[handler |-> "svr_http_header_to_body_aio", pk |-> p]}
    BY <1>3, <1>4
  <2>3. Headed(s.cache, r.cache, Header(s.pkg[p].uri))
    BY <1>6
  <2>4. QED
    BY <1>5, <1>7, <2>1, <2>2, <2>3 DEF HeaderSent
<1>9. QED
  BY <1>8 DEF r, a, data

\* svr_http_header, where the header is not in the cache.
LEMMA HeaderMade ==
  ASSUME NEW s, NEW p, IsState(s), p \in DOMAIN s.pkg, s.pkg[p] \in Package,
         s.pkg[p].uri \in Plain,
         s.conn[s.pkg[p].cpn] = "CONNECTED", s.pkg[p].headkey, NEW k,
         k = Header(s.pkg[p].uri), k \notin DOMAIN s.cache
  PROVE  \E hsn \in {200, 404} :
            HeaderSent(s, svr_http_header_rio(reserve(s, k, p), p), p, hsn)
<1> DEFINE b == reserve(s, k, p)
           entry == [status |-> "reserved", data |-> [hsn |-> 0, size |-> 0],
                     refCount |-> 1, queue |-> <<p>>]
           hsn == IF b.openOk THEN 200 ELSE 404
           data == [hsn |-> hsn, size |-> HeadSize]
           m == Mark(b, p, "FETCHING", "HEAD")
           found == SetHsn(m, p, hsn)
           c == Filling(found, k, data)
           made == [status |-> "reserved", data |-> data, refCount |-> 2, queue |-> <<>>]
           w == svr_http_header_wio(c, p, data)
           r == FinishPut(w, k)
<1>1. /\ hsn \in {200, 404} /\ hsn \in {200, 404, 400, 0}
      /\ data \in Data /\ data \in HeadData /\ data.hsn = hsn
  BY SizeAssumption DEF Data, HeadData
<1>2. SameBut(s, b, {"cache"}) /\ b.cache = With(s.cache, k, entry)
  BY DEF reserve, SameBut, IsState
<1>3. /\ DOMAIN b.cache = DOMAIN s.cache \cup {k} /\ b.cache[k] = entry
      /\ \A x \in DOMAIN s.cache : x # k => b.cache[x] = s.cache[x]
  BY <1>2 DEF With
<1>4. svr_http_header_rio(b, p) =
         LET t == put(found, HeadKey(b.pkg[p].uri), data)
         IN  IF p \in DOMAIN t.pkg THEN t ELSE Fail(t, "freed")
  BY DEF svr_http_header_rio, SetHsn
<1> HIDE DEF b, hsn, data
<1>5. /\ IsState(b) /\ p \in DOMAIN b.pkg /\ b.pkg = s.pkg /\ b.pkg[p] \in Package
  BY <1>2 DEF SameBut
<1>6. Changed(b, m, p) /\ Doing(m.pkg[p], "FETCHING", "HEAD", b.pkg[p].hsn, b.pkg[p].headkey)
  BY <1>5, MarkChanges
<1> HIDE DEF m
<1>7. IsState(m) /\ p \in DOMAIN m.pkg /\ m.pkg[p] \in Package
  BY <1>5, <1>6 DEF Changed, SameRequest, SameBut
<1>8. /\ Changed(m, found, p)
      /\ Doing(found.pkg[p], m.pkg[p].hst, m.pkg[p].wst, hsn, m.pkg[p].headkey)
  BY <1>1, <1>7, HsnChanges
<1> HIDE DEF found
<1>9. Changed(b, found, p) /\ found.pkg[p].headkey /\ found.pkg[p].wst = "HEAD"
  <2>1. Changed(b, found, p)
    BY <1>6, <1>8, ChangedAgain
  <2>2. QED
    BY <1>5, <1>6, <1>8, <2>1 DEF Doing
<1>10. IsState(found) /\ found.cache = b.cache
  BY <1>9 DEF Changed, SameBut
<1>11. SameBut(found, c, {"cache"}) /\ c.cache = [b.cache EXCEPT ![k] = made]
  <2>1. SameBut(found, c, {"cache"})
        /\ c.cache = [b.cache EXCEPT ![k] = [[[b.cache[k] EXCEPT !.data = data]
                          EXCEPT !.refCount = @ + 1] EXCEPT !.queue = <<>>]]
    BY <1>3, <1>10 DEF Filling, SameBut, IsState
  <2>2. [[[entry EXCEPT !.data = data] EXCEPT !.refCount = @ + 1] EXCEPT !.queue = <<>>] = made
    <3> DEFINE e1 == [entry EXCEPT !.data = data]
               e2 == [e1 EXCEPT !.refCount = @ + 1]
    <3>1. e1 = [status |-> "reserved", data |-> data, refCount |-> 1, queue |-> <<p>>]
      OBVIOUS
    <3> HIDE DEF e1
    <3>2. e2 = [status |-> "reserved", data |-> data, refCount |-> 2, queue |-> <<p>>]
      BY <3>1
    <3> HIDE DEF e2
    <3>3. [e2 EXCEPT !.queue = <<>>] = made
      BY <3>2
    <3>4. QED
      BY <3>3 DEF e1, e2
  <2> HIDE DEF entry, made, c
  <2>3. QED
    BY <1>3, <2>1, <2>2
<1>12. put(found, k, data) = r
  <2>1. found.cache[k].status = "reserved" /\ found.cache[k].queue = <<p>>
    BY <1>3, <1>10
  <2>2. QED
    BY <1>9, <1>10, <2>1, PutHeader
<1> HIDE DEF c
<1>13. /\ IsState(c) /\ c.pkg = found.pkg /\ c.conn = s.conn /\ c.pending = s.pending
       /\ p \in DOMAIN c.pkg /\ c.pkg[p] \in Package /\ c.pkg[p].cpn = s.pkg[p].cpn
       /\ c.pkg[p].headkey
  BY <1>2, <1>5, <1>9, <1>11 DEF Changed, SameRequest, SameBut
<1>a. c.conn[c.pkg[p].cpn] = "CONNECTED" /\ data \in Data /\ data.hsn \in {200, 404}
  BY <1>1, <1>13
<1>b. IsState(c) /\ p \in DOMAIN c.pkg /\ c.pkg[p] \in Package
  BY <1>13
<1>14. PICK u :
          /\ Changed(c, u, p)
          /\ Doing(u.pkg[p], "WRITING", "HEAD", data.hsn, c.pkg[p].headkey)
          /\ SameBut(u, w, {"pending"})
          /\ w.pending = c.pending \cup {[handler |-> "svr_http_header_to_body_aio", pk |-> p]}
  BY <1>a, <1>b, HeaderWioFields
<1> HIDE DEF w
<1>15. IsState(w) /\ w.cache = c.cache /\ w.pkg = u.pkg
  BY <1>14 DEF Changed, SameBut
<1>16. /\ SameBut(w, r, {"cache"})
       /\ r.cache = [c.cache EXCEPT ![k] = [made EXCEPT !.status = "filled"]]
  <2>1. c.cache[k] = made /\ k \in DOMAIN c.cache
    BY <1>3, <1>11
  <2> HIDE DEF made
  <2>2. QED
    BY <1>15, <2>1 DEF FinishPut, SameBut, IsState
<1> HIDE DEF r
<1>17. Headed(s.cache, r.cache, k)
  <2> DEFINE e == [made EXCEPT !.status = "filled"]
  <2>1. /\ e.status = "filled" /\ e.data = data /\ e.queue = <<>> /\ e.refCount = 2
        /\ e \in Entry
    <3>1. e = [status |-> "filled", data |-> data, refCount |-> 2, queue |-> <<>>]
      OBVIOUS
    <3> HIDE DEF e
    <3>2. /\ e.status = "filled" /\ e.data = data /\ e.queue = <<>> /\ e.refCount = 2
      BY <3>1
    <3>3. e \in Entry
      BY <1>1, <3>1 DEF Entry
    <3>4. QED
      BY <3>2, <3>3
  <2> HIDE DEF e, made, entry
  <2>2. /\ DOMAIN r.cache = DOMAIN s.cache \cup {k} /\ r.cache[k] = e
        /\ \A x \in DOMAIN s.cache : x # k => r.cache[x] = s.cache[x]
    BY <1>3, <1>11, <1>16 DEF e
  <2>3. QED
    BY <1>1, <2>1, <2>2 DEF Headed
<1>18. r.pkg = u.pkg /\ r.pending = w.pending
  BY <1>15, <1>16 DEF SameBut
<1>19. SameBut(s, r, {"pkg", "pending", "cache"})
  BY <1>2, <1>9, <1>11, <1>14, <1>16 DEF Changed, SameBut
<1>20. /\ DOMAIN r.pkg = DOMAIN s.pkg
       /\ \A q \in DOMAIN s.pkg : q # p => r.pkg[q] = s.pkg[q]
       /\ SameRequest(s.pkg[p], r.pkg[p])
  BY <1>5, <1>9, <1>13, <1>14, <1>18 DEF Changed, SameRequest
<1>21. Doing(r.pkg[p], "WRITING", "HEAD", hsn, TRUE)
  <2>1. Doing(u.pkg[p], "WRITING", "HEAD", hsn, c.pkg[p].headkey)
    BY <1>1, <1>14
  <2>2. QED
    BY <1>13, <1>18, <2>1 DEF Doing
<1>22. HeaderSent(s, r, p, hsn)
  BY <1>13, <1>14, <1>17, <1>18, <1>19, <1>20, <1>21 DEF HeaderSent
<1>23. svr_http_header_rio(b, p) = r
  <2>1. HeadKey(b.pkg[p].uri) = k /\ p \in DOMAIN r.pkg
    BY <1>5, <1>20, PlainKeys
  <2>2. QED
    BY <1>4, <1>12, <2>1
<1>24. QED
  BY <1>1, <1>22, <1>23 DEF b

\* svr_http_header sends the header that open, or the cache, gives.
LEMMA HeaderLeads ==
  ASSUME NEW s, NEW p, Ready(s, {p}), s.pkg[p].ppg # NULL, s.pkg[p].uri \in Plain,
         s.conn[s.pkg[p].cpn] = "CONNECTED", s.pkg[p].cbody = -1, s.pkg[p].tr_offset = 0,
         s.pkg[p].hsent = 0
  PROVE  \E t : /\ Changed(s, t, p) /\ Ready(t, {p})
                /\ \E hsn \in {200, 404} : HeaderSent(t, svr_http_header(s, p), p, hsn)
<1> DEFINE k == Header(s.pkg[p].uri)
           m == Mark(s, p, "FETCHING", "HEAD")
           t == SetHeadkey(m, p)
           r == svr_http_header(s, p)
<1>1. IsState(s) /\ p \in DOMAIN s.pkg /\ s.pkg[p] \in Package
  BY ReadyParts, RunningFacts
<1>h. k = HeadKey(s.pkg[p].uri)
  BY PlainKeys
<1>f. k \in DOMAIN s.cache => s.cache[k].status = "filled" /\ s.cache[k].data \in HeadData
  <2>1. k[2] = -1
    BY DEF Header
  <2> HIDE DEF k
  <2>2. QED
    BY <2>1, ReadyParts DEF Slots, Slot
<1>2. Changed(s, m, p) /\ Doing(m.pkg[p], "FETCHING", "HEAD", s.pkg[p].hsn, s.pkg[p].headkey)
  BY <1>1, MarkChanges
<1>3. r = IF k \notin DOMAIN s.cache
             THEN svr_http_header_rio(reserve(t, k, p), p)
             ELSE svr_http_header_wio([t EXCEPT !.cache[k].refCount = @ + 1],
                                      p, s.cache[k].data)
  <2> DEFINE u == [m EXCEPT !.pkg[p].headkey = TRUE]
  <2>1. ~WriteClosing(s, p) /\ t = u
    BY DEF SetHeadkey, WriteClosing, Cst
  <2> HIDE DEF t, u, k
  <2>2. CASE k \notin DOMAIN s.cache
    BY <1>h, <2>1, <2>2 DEF svr_http_header, u
  <2>3. CASE k \in DOMAIN s.cache
    BY <1>h, <1>f, <2>1, <2>3 DEF svr_http_header, u, Given
  <2>4. QED
    BY <2>2, <2>3
<1> HIDE DEF m, r
<1>4. IsState(m) /\ p \in DOMAIN m.pkg /\ m.pkg[p] \in Package
  BY <1>1, <1>2 DEF Changed, SameRequest, SameBut
<1>5. /\ Changed(m, t, p)
      /\ Doing(t.pkg[p], m.pkg[p].hst, m.pkg[p].wst, m.pkg[p].hsn, TRUE)
  BY <1>4, HeadkeyChanges
<1> HIDE DEF t
<1>6. Changed(s, t, p) /\ t.pkg[p].headkey
  <2>1. Changed(s, t, p)
    BY <1>2, <1>5, ChangedAgain
  <2>2. QED
    BY <1>5, <2>1 DEF Doing
<1>7. /\ SameBut(s, t, {"pkg"}) /\ t.conn = s.conn /\ t.cache = s.cache /\ IsState(t)
      /\ p \in DOMAIN t.pkg /\ t.pkg[p] \in Package
      /\ t.pkg[p].uri = s.pkg[p].uri /\ t.pkg[p].cpn = s.pkg[p].cpn
      /\ t.pkg[p].ppg = s.pkg[p].ppg /\ t.pkg[p].cbody = -1 /\ t.pkg[p].tr_offset = 0
      /\ t.pkg[p].hsent = 0
  BY <1>1, <1>6 DEF Changed, SameRequest, SameBut
<1>8. Ready(t, {p})
  <2>1. Touched(s.pkg, t.pkg, p)
    BY <1>6, ChangedTouches
  <2>2. QED
    BY <1>7, <2>1, TouchedReady
<1>9. \E hsn \in {200, 404} : HeaderSent(t, r, p, hsn)
  <2> HIDE DEF k
  <2>1. k = Header(t.pkg[p].uri) /\ t.conn[t.pkg[p].cpn] = "CONNECTED"
    BY <1>7 DEF k
  <2>2. CASE k \in DOMAIN s.cache
    <3>1. /\ t.cache[k] \in Entry
          /\ t.cache[k].data \in HeadData /\ k \in DOMAIN t.cache
      <4>1. QED
        BY <1>7, <1>f, <2>2, ReadyParts DEF Types
    <3>2. r = svr_http_header_wio([t EXCEPT !.cache[k].refCount = @ + 1], p, t.cache[k].data)
      BY <1>3, <1>7, <2>2
    <3>3. HeaderSent(t, svr_http_header_wio([t EXCEPT !.cache[k].refCount = @ + 1],
                                            p, t.cache[k].data),
                        p, t.cache[k].data.hsn)
      BY <1>6, <1>7, <2>1, <3>1, HeaderFound
    <3>4. t.cache[k].data.hsn \in {200, 404}
      BY <3>1 DEF HeadData
    <3>5. QED
      BY <3>2, <3>3, <3>4
  <2>3. CASE k \notin DOMAIN s.cache
    <3>1. r = svr_http_header_rio(reserve(t, k, p), p) /\ k \notin DOMAIN t.cache
      BY <1>3, <1>7, <2>3
    <3>2. QED
      BY <1>6, <1>7, <2>1, <3>1, HeaderMade
  <2>4. QED
    BY <2>2, <2>3
<1>10. QED
  BY <1>6, <1>8, <1>9 DEF r

LEMMA HeaderKeeps ==
  ASSUME NEW s, NEW p, Ready(s, {p}), s.pkg[p].ppg # NULL, s.pkg[p].uri \in Plain,
         s.conn[s.pkg[p].cpn] = "CONNECTED", s.pkg[p].cbody = -1, s.pkg[p].tr_offset = 0,
         s.pkg[p].hsent = 0
  PROVE  LET r == svr_http_header(s, p) IN
         /\ Ready(r, {}) /\ Works(s, r, p)
         /\ r.pkg[p].hsn \in {200, 404}
         /\ r.pkg[p].tr_offset = s.pkg[p].tr_offset /\ r.pkg[p].hsent = s.pkg[p].hsent
<1> DEFINE r == svr_http_header(s, p)
<1>1. PICK t : /\ Changed(s, t, p) /\ Ready(t, {p})
               /\ \E hsn \in {200, 404} : HeaderSent(t, r, p, hsn)
  BY HeaderLeads
<1>2. /\ t.conn = s.conn /\ t.pkg[p].uri = s.pkg[p].uri /\ t.pkg[p].cpn = s.pkg[p].cpn
      /\ t.pkg[p].hsent = s.pkg[p].hsent
      /\ t.pkg[p].ppg = s.pkg[p].ppg /\ t.pkg[p].cbody = -1 /\ t.pkg[p].tr_offset = 0
      /\ t.pkg[p].hsent = 0
  BY <1>1 DEF Changed, SameRequest, SameBut
<1> HIDE DEF r
<1>3. t.pkg[p].ppg # NULL /\ t.pkg[p].uri \in Plain /\ t.conn[t.pkg[p].cpn] = "CONNECTED"
  BY <1>2
<1>4. Ready(r, {})
  BY <1>1, <1>2, <1>3, HeaderResumes
<1>5. PICK hsn \in {200, 404} : HeaderSent(t, r, p, hsn)
  BY <1>1
<1>6. /\ Works(t, r, p) /\ r.pkg[p].hsn = hsn
      /\ r.pkg[p].tr_offset = t.pkg[p].tr_offset /\ r.pkg[p].hsent = t.pkg[p].hsent
  <2>1. r.conn = t.conn /\ Headed(t.cache, r.cache, Header(t.pkg[p].uri))
    BY <1>5 DEF HeaderSent, SameBut
  <2>2. \A k \in DOMAIN t.cache : k \in DOMAIN r.cache /\ r.cache[k].status = t.cache[k].status
    BY <2>1 DEF Headed
  <2>3. QED
    BY <1>5, <2>1, <2>2 DEF HeaderSent, SameRequest, Doing, Works
<1>7. Works(s, r, p)
  BY <1>1, <1>6, ChangedWorks, WorksOn
<1>8. QED
  BY <1>2, <1>4, <1>6, <1>7 DEF r

LEMMA MarkHsn ==
  ASSUME NEW s, IsState(s), NEW p \in DOMAIN s.pkg, s.pkg[p] \in Package,
         NEW hst \in {"READING", "PARSING", "FETCHING", "WRITING", "UNKNOWN"},
         NEW wst \in {"HEAD", "BODY", "UNO"}, NEW n \in {200, 404, 400, 0}
  PROVE  /\ Changed(s, SetHsn(Mark(s, p, hst, wst), p, n), p)
         /\ Doing(SetHsn(Mark(s, p, hst, wst), p, n).pkg[p], hst, wst, n, s.pkg[p].headkey)
<1> DEFINE m == Mark(s, p, hst, wst)
           t == SetHsn(m, p, n)
<1>1. Changed(s, m, p) /\ Doing(m.pkg[p], hst, wst, s.pkg[p].hsn, s.pkg[p].headkey)
  BY MarkChanges
<1> HIDE DEF m
<1>2. IsState(m) /\ p \in DOMAIN m.pkg /\ m.pkg[p] \in Package
  BY <1>1 DEF Changed, SameRequest, SameBut
<1>3. Changed(m, t, p) /\ Doing(t.pkg[p], m.pkg[p].hst, m.pkg[p].wst, n, m.pkg[p].headkey)
  BY <1>2, HsnChanges
<1> HIDE DEF t
<1>4. Changed(s, t, p)
  BY <1>1, <1>3, ChangedAgain
<1>5. Doing(t.pkg[p], hst, wst, n, s.pkg[p].headkey)
  BY <1>1, <1>3 DEF Doing
<1>6. QED
  BY <1>4, <1>5 DEF t, m

\* The keys of the cache are those of the files.
LEMMA KeysOfFiles ==
  ASSUME NEW s, NEW R, Ready(s, R), NEW k \in DOMAIN s.cache
  PROVE  k \in Plain \X (Nat \cup {-1}) /\ k = <<k[1], k[2]>> /\ k[1] \in Plain
<1>1. k \in Plain \X (Nat \cup {-1})
  BY ReadyParts DEF Slots, Slot
<1>2. QED
  BY <1>1

\* Only a package that serves a file has read a block.
LEMMA NoBlock ==
  ASSUME NEW s, NEW R, Ready(s, R), NEW p \in DOMAIN s.pkg, s.pkg[p].uri \notin Plain
  PROVE  s.pkg[p].cbody = -1 \/ s.pkg[p].cached
<1> DEFINE k == Block(s.pkg[p].uri, s.pkg[p].cbody)
<1>1. s.pkg[p].cbody # -1 /\ ~s.pkg[p].cached => k \in DOMAIN s.cache
  BY ReadyParts DEF Blocks
<1>2. k[1] = s.pkg[p].uri
  BY DEF Block
<1> HIDE DEF k
<1>3. k \in DOMAIN s.cache => k[1] \in Plain
  BY KeysOfFiles
<1>4. QED
  BY <1>1, <1>2, <1>3

\* A handler that waits for the next callback without a reference to the cache.
LEMMA ResumesPlain ==
  ASSUME NEW s, NEW p, Ready(s, {p}), NEW u, NEW t, Changed(s, u, p),
         s.pkg[p].ppg = NULL => u.pkg[p].wst = "UNO",
         NEW h \in Handlers \ {"svr_http_body_pio"}, t = Post(u, h, p),
         \A k \in DOMAIN s.cache : ~Uses(u.pkg[p], k),
         Phase(s.conn, s.cache, h, p, u.pkg[p]),
         s.pkg[p].cbody = -1 \/ s.pkg[p].cached
  PROVE  Ready(t, {})
<1>1. SameBut(s, u, {"pkg"}) /\ Touched(s.pkg, u.pkg, p)
  BY ChangedTouches DEF Changed
<1>2. IsState(u) /\ u.pending = s.pending
  BY <1>1 DEF SameBut
<1>3. SameBut(u, t, {"pending"}) /\ t.pending = s.pending \cup {[handler |-> h, pk |-> p]}
  BY <1>2, PostFields
<1>4. SameBut(s, t, {"pkg", "pending", "cache"}) /\ t.pkg = u.pkg /\ t.cache = s.cache
  BY <1>1, <1>3 DEF SameBut
<1>5. Referenced(s.cache, t.cache, t.pkg[p])
  BY <1>4, ReadyParts DEF Types, Referenced
<1>6. PICK R : R = {p}
  OBVIOUS
<1>7. Ready(s, R) /\ p \in R
  BY <1>6
<1>8. Touched(s.pkg, t.pkg, p) /\ Phase(s.conn, t.cache, h, p, t.pkg[p])
  BY <1>1, <1>4
<1>9. SameBut(s, t, {"pkg", "pending", "cache"})
  BY <1>4
<1>10. Ready(t, R \ {p})
  BY <1>3, <1>5, <1>7, <1>8, <1>9, Resumes
<1>11. QED
  BY <1>6, <1>10

LEMMA Write400Keeps ==
  ASSUME NEW s, NEW p, Ready(s, {p}), s.pkg[p].ppg # NULL, s.pkg[p].uri = BadGet,
         s.conn[s.pkg[p].cpn] = "CONNECTED", s.pkg[p].cbody = -1, ~s.pkg[p].headkey
  PROVE  LET r == svr_http_write_400(s, p) IN
         /\ Ready(r, {}) /\ Works(s, r, p)
         /\ r.pkg[p].hsn = 400
         /\ r.pkg[p].tr_offset = s.pkg[p].tr_offset /\ r.pkg[p].hsent = s.pkg[p].hsent
<1> DEFINE u == SetHsn(Mark(s, p, "WRITING", "HEAD"), p, 400)
<1>1. IsState(s) /\ p \in DOMAIN s.pkg /\ s.pkg[p] \in Package
  BY ReadyParts, RunningFacts
<1>2. svr_http_write_400(s, p) = Post(u, "svr_http_body_rio", p)
  BY DEF svr_http_write_400, SetHsn, WriteClosing, Cst
<1>3. Changed(s, u, p) /\ Doing(u.pkg[p], "WRITING", "HEAD", 400, s.pkg[p].headkey)
  BY <1>1, MarkHsn
<1> HIDE DEF u
<1>4. /\ u.pkg[p].hst = "WRITING" /\ u.pkg[p].wst = "HEAD" /\ u.pkg[p].hsn = 400
      /\ ~u.pkg[p].headkey /\ u.pkg[p].uri = BadGet /\ u.pkg[p].cpn = s.pkg[p].cpn
      /\ u.pkg[p].ppg = s.pkg[p].ppg /\ u.pkg[p].cbody = -1
  BY <1>3 DEF Changed, SameRequest, Doing
<1>5. \A k \in DOMAIN s.cache : ~Uses(u.pkg[p], k)
  BY <1>4, KeysOfFiles, PlainRequests DEF Uses
<1>6. Phase(s.conn, s.cache, "svr_http_body_rio", p, u.pkg[p])
  BY <1>4 DEF Phase, Answering400
<1>7. PICK h : h = "svr_http_body_rio"
  OBVIOUS
<1>8. /\ h \in Handlers \ {"svr_http_body_pio"}
      /\ svr_http_write_400(s, p) = Post(u, h, p)
      /\ Phase(s.conn, s.cache, h, p, u.pkg[p])
  BY <1>2, <1>6, <1>7 DEF Handlers
<1>9. Changed(s, u, p)
  BY <1>3
<1>10. Ready(svr_http_write_400(s, p), {})
  BY <1>5, <1>8, <1>9, ResumesPlain
<1>11. SameBut(u, svr_http_write_400(s, p), {"pending"})
  <2>1. IsState(u)
    BY <1>9 DEF Changed, SameBut
  <2>2. QED
    BY <1>8, <2>1, PostFields
<1>12. /\ Works(s, u, p) /\ u.pkg[p].tr_offset = s.pkg[p].tr_offset
       /\ u.pkg[p].hsent = s.pkg[p].hsent
       /\ Works(u, svr_http_write_400(s, p), p) /\ svr_http_write_400(s, p).pkg = u.pkg
  BY <1>9, <1>11, ChangedWorks, PostWorks
<1>13. Works(s, svr_http_write_400(s, p), p)
  BY <1>12, WorksOn
<1>14. QED
  BY <1>4, <1>10, <1>12, <1>13

\* A handler that ends the response at once.
LEMMA EndLeads ==
  ASSUME NEW s, NEW p, Ready(s, {p}), s.pkg[p].ppg # NULL => Over(s.pkg[p], s.conn, s.cache)
  PROVE  Leads(s, svr_http_final(s, p), p)
<1>1. Works(s, s, p)
  BY WorksNothing
<1>2. QED
  BY <1>1, WorksFollows DEF Leads

\* A handler that goes on to the next block.
LEMMA BodyGoesOn ==
  ASSUME NEW s, NEW t, NEW r, NEW p, Works(s, t, p), GoesOn(s, t, p), BodyLeads(t, r, p)
  PROVE  Leads(s, r, p)
<1>1. CASE /\ Works(t, r, p)
           /\ r.pkg[p].hsn = t.pkg[p].hsn /\ r.pkg[p].tr_offset = t.pkg[p].tr_offset
           /\ r.pkg[p].hsent = t.pkg[p].hsent
  <2>1. Works(s, r, p)
    BY <1>1, WorksOn
  <2>2. GoesOn(s, r, p)
    BY <1>1 DEF GoesOn
  <2>3. QED
    BY <2>1, <2>2 DEF Leads
<1>2. CASE \E u : /\ Ready(u, {p}) /\ Works(t, u, p) /\ r = svr_http_final(u, p)
                  /\ t.pkg[p].uri \in Lost(u.cache)
  <2>1. PICK u : /\ Ready(u, {p}) /\ Works(t, u, p) /\ r = svr_http_final(u, p)
                 /\ t.pkg[p].uri \in Lost(u.cache)
    BY <1>2
  <2>2. Follows(s, u, p)
    BY <2>1, WorksOn, WorksFollows
  <2>3. t.pkg[p].uri = s.pkg[p].uri
    BY DEF Works
  <2>4. Over(s.pkg[p], u.conn, u.cache)
    BY <2>1, <2>3 DEF Over
  <2>5. QED
    BY <2>1, <2>2, <2>4 DEF Leads
<1>3. QED
  BY <1>1, <1>2 DEF BodyLeads

\* Callbacks do not matter.
LEMMA LeadsFrom ==
  ASSUME NEW a, NEW b, NEW r, NEW p, b.conn = a.conn, b.pkg = a.pkg, b.cache = a.cache,
         Leads(b, r, p)
  PROVE  Leads(a, r, p)
<1>1. \A u : Works(b, u, p) <=> Works(a, u, p)
  BY DEF Works
<1>2. \A u : Follows(b, u, p) <=> Follows(a, u, p)
  BY DEF Follows
<1>3. GoesOn(b, r, p) <=> GoesOn(a, r, p)
  BY DEF GoesOn
<1>4. QED
  BY <1>1, <1>2, <1>3 DEF Leads

LEMMA FetchKeeps ==
  ASSUME NEW s, NEW p, Ready(s, {p}), s.pkg[p].ppg # NULL, Fresh(s.pkg[p]),
         Writable(s.conn, s.pkg[p])
  PROVE  Ready(svr_http_fetch(s, p), {}) /\ Leads(s, svr_http_fetch(s, p), p)
<1> DEFINE t == SetHsn(Mark(s, p, "FETCHING", "HEAD"), p, 0)
           r == svr_http_fetch(s, p)
<1>1. /\ IsState(s) /\ p \in DOMAIN s.pkg /\ s.pkg[p] \in Package
      /\ s.pkg[p].uri \in Plain \cup {BadGet}
  BY ReadyParts, RunningFacts DEF LinksOf
<1>2. CASE s.conn[s.pkg[p].cpn] = "CLOSING_W"
  <2>1. r = svr_http_final(s, p)
    BY <1>2 DEF svr_http_fetch, WriteClosing, Cst
  <2>2. Ready(svr_http_final(s, p), {p} \ {p})
    BY FinalKeeps
  <2>3. Over(s.pkg[p], s.conn, s.cache)
    BY <1>2 DEF Over, BrokenIn
  <2>4. Leads(s, r, p)
    BY <2>1, <2>3, EndLeads
  <2>5. QED
    BY <2>1, <2>2, <2>4
<1>3. CASE s.conn[s.pkg[p].cpn] = "CONNECTED"
  <2>1. r = IF s.pkg[p].uri = BadGet THEN svr_http_write_400(t, p) ELSE svr_http_header(t, p)
    BY <1>3 DEF svr_http_fetch, SetHsn, WriteClosing, Cst
  <2>2. Changed(s, t, p) /\ Doing(t.pkg[p], "FETCHING", "HEAD", 0, s.pkg[p].headkey)
    BY <1>1, MarkHsn
  <2> HIDE DEF t, r
  <2>3. /\ t.pkg[p].uri = s.pkg[p].uri /\ t.pkg[p].cpn = s.pkg[p].cpn
        /\ t.pkg[p].hsent = 0 /\ s.pkg[p].hsent = 0
        /\ t.pkg[p].ppg = s.pkg[p].ppg /\ t.pkg[p].tr_offset = 0 /\ t.pkg[p].cbody = -1
        /\ ~t.pkg[p].headkey /\ t.conn = s.conn /\ SameBut(s, t, {"pkg"})
    BY <2>2 DEF Changed, SameRequest, Doing, SameBut, Fresh
  <2>4. Ready(t, {p})
    <3>1. Touched(s.pkg, t.pkg, p)
      BY <2>2, ChangedTouches
    <3>2. QED
      BY <2>3, <3>1, TouchedReady
  <2>5. t.conn[t.pkg[p].cpn] = "CONNECTED" /\ t.pkg[p].ppg # NULL
    BY <1>3, <2>3
  <2>6. /\ Ready(r, {}) /\ Works(t, r, p)
        /\ r.pkg[p].tr_offset = t.pkg[p].tr_offset /\ r.pkg[p].hsent = t.pkg[p].hsent
        /\ r.pkg[p].hsn \in {200, 404, 400}
        /\ r.pkg[p].hsn = 400 <=> s.pkg[p].uri = BadGet
    <3>1. CASE s.pkg[p].uri = BadGet
      <4>1. r = svr_http_write_400(t, p)
        BY <2>1, <3>1
      <4>2. QED
        BY <2>3, <2>4, <2>5, <3>1, <4>1, Write400Keeps
    <3>2. CASE s.pkg[p].uri # BadGet
      <4>1. r = svr_http_header(t, p)
        BY <2>1, <3>2
      <4>2. t.pkg[p].uri \in Plain
        BY <1>1, <2>3, <3>2
      <4>3. /\ Ready(r, {}) /\ Works(t, r, p) /\ r.pkg[p].hsn \in {200, 404}
            /\ r.pkg[p].tr_offset = t.pkg[p].tr_offset /\ r.pkg[p].hsent = t.pkg[p].hsent
        BY <2>3, <2>4, <2>5, <4>1, <4>2, HeaderKeeps
      <4>4. QED
        BY <3>2, <4>3
    <3>3. QED
      BY <3>1, <3>2
  <2>7. Works(s, r, p)
    BY <2>2, <2>6, ChangedWorks, WorksOn
  <2>8. GoesOn(s, r, p)
    <3>1. ~BrokenIn(s.conn, s.pkg[p].cpn) /\ s.pkg[p].hsn = 0
      BY <1>3 DEF BrokenIn, Fresh
    <3>2. r.pkg[p].tr_offset = s.pkg[p].tr_offset /\ r.pkg[p].hsent = s.pkg[p].hsent
      BY <2>3, <2>6 DEF Fresh
    <3>3. QED
      BY <2>6, <3>1, <3>2 DEF GoesOn
  <2>9. Leads(s, r, p)
    BY <2>7, <2>8 DEF Leads
  <2>10. QED
    BY <2>6, <2>9 DEF r
<1>4. QED
  BY <1>2, <1>3 DEF Writable

LEMMA ReadKeeps ==
  ASSUME NEW s, NEW p, Ready(s, {p}), s.pkg[p].ppg = NULL
  PROVE  Ready(svr_http_read(s, p), {}) /\ Leads(s, svr_http_read(s, p), p)
<1> DEFINE u == SetHst(s, p, "READING")
           r == svr_http_read(s, p)
<1>1. /\ IsState(s) /\ p \in DOMAIN s.pkg /\ s.pkg[p] \in Package
      /\ s.pkg[p].uri = NoGet /\ s.pkg[p].wst = "UNO" /\ s.pkg[p].cpn \in DOMAIN s.conn
  BY ReadyParts, RunningFacts DEF LinksOf
<1>2. CASE Cst(s, p) \in {"CLOSING", "CLOSING_R"}
  <2>1. r = svr_http_final(s, p)
    BY <1>2 DEF svr_http_read
  <2>2. Ready(svr_http_final(s, p), {p} \ {p})
    BY FinalKeeps
  <2>3. Leads(s, r, p)
    BY <2>1, EndLeads
  <2>4. QED
    BY <2>1, <2>2, <2>3
<1>3. CASE Cst(s, p) \notin {"CLOSING", "CLOSING_R"}
  <2>1. r = Post(u, "svr_http_parse_aio", p)
    BY <1>3 DEF svr_http_read, SetHst
  <2>2. /\ Changed(s, u, p)
        /\ Doing(u.pkg[p], "READING", s.pkg[p].wst, s.pkg[p].hsn, s.pkg[p].headkey)
    <3>1. "READING" \in {"READING", "PARSING"}
      OBVIOUS
    <3>2. QED
      BY <1>1, <3>1, HstChanges
  <2> HIDE DEF u, r
  <2>3. /\ u.pkg[p].hst = "READING" /\ u.pkg[p].wst = "UNO" /\ u.pkg[p].uri = NoGet
        /\ u.pkg[p].cpn = s.pkg[p].cpn /\ u.pkg[p].ppg = NULL
    BY <1>1, <2>2 DEF Changed, SameRequest, Doing
  <2>4. \A k \in DOMAIN s.cache : ~Uses(u.pkg[p], k)
    BY <2>3 DEF Uses
  <2>5. Writable(s.conn, u.pkg[p])
    BY <1>1, <1>3, <2>3, ReadyParts DEF Types, Writable, Cst
  <2>6. Phase(s.conn, s.cache, "svr_http_parse_aio", p, u.pkg[p])
    BY <2>3, <2>5 DEF Phase
  <2>7. PICK h : h = "svr_http_parse_aio"
    OBVIOUS
  <2>8. /\ h \in Handlers \ {"svr_http_body_pio"} /\ r = Post(u, h, p)
        /\ Phase(s.conn, s.cache, h, p, u.pkg[p])
    BY <2>1, <2>6, <2>7 DEF Handlers
  <2>9. Changed(s, u, p) /\ u.pkg[p].wst = "UNO"
    BY <2>2, <2>3
  <2>10. s.pkg[p].cbody = -1 \/ s.pkg[p].cached
    BY <1>1, NoBlock, PlainRequests
  <2>11. Ready(r, {})
    BY <2>4, <2>8, <2>9, <2>10, ResumesPlain
  <2>12. Works(s, r, p) /\ r.pkg = u.pkg
    <3>1. IsState(u)
      BY <2>2 DEF Changed, SameBut
    <3>2. SameBut(u, r, {"pending"})
      BY <2>1, <3>1, PostFields
    <3>3. QED
      BY <2>2, <3>2, ChangedWorks, PostWorks, WorksOn
  <2>13. GoesOn(s, r, p)
    BY <2>2, <2>12 DEF Changed, SameRequest, Doing, GoesOn
  <2>14. QED
    BY <2>11, <2>12, <2>13 DEF r, Leads
<1>4. QED
  BY <1>2, <1>3

\* What was written of the header.
SetHsent(s, p, n) == [s EXCEPT !.pkg[p].hsent = n]

LEMMA HsentPackage ==
  ASSUME NEW pk \in Package, NEW n \in Nat
  PROVE  LET m == [pk EXCEPT !.hsent = n] IN
         /\ m \in Package /\ m.uri = pk.uri /\ m.cpn = pk.cpn
         /\ m.ppg = pk.ppg /\ m.lcg = pk.lcg /\ m.nsg = pk.nsg
         /\ m.cbody = pk.cbody /\ m.cached = pk.cached /\ m.hsn = pk.hsn
         /\ m.wst = pk.wst /\ m.tr_offset = pk.tr_offset /\ m.hsent = n
<1> DEFINE m == [pk EXCEPT !.hsent = n]
<1>1. m \in Package
  BY SMTT(60) DEF Package
<1>2. /\ m.uri = pk.uri /\ m.cpn = pk.cpn
      /\ m.ppg = pk.ppg /\ m.lcg = pk.lcg /\ m.nsg = pk.nsg
      /\ m.cbody = pk.cbody /\ m.cached = pk.cached /\ m.hsn = pk.hsn
      /\ m.wst = pk.wst /\ m.tr_offset = pk.tr_offset /\ m.hsent = n
  BY DEF Package
<1> HIDE DEF m
<1>3. QED
  BY <1>1, <1>2 DEF m

\* The header of p was written, or n bytes of it.
LEMMA HeaderWrittenFacts ==
  ASSUME NEW s, NEW p, Ready(s, {p}), s.pkg[p].ppg # NULL, NEW n \in Nat
  PROVE  LET t == SetHsent(Mark(s, p, "UNKNOWN", "HEAD"), p, n)
             pk == s.pkg[p]
             m == t.pkg[p]
         IN  /\ Ready(t, {p}) /\ Works(s, t, p) /\ SameBut(s, t, {"pkg"})
             /\ m.uri = pk.uri /\ m.cpn = pk.cpn /\ m.ppg = pk.ppg
             /\ m.cbody = pk.cbody /\ m.hsn = pk.hsn /\ m.tr_offset = pk.tr_offset
             /\ m.hsent = n
<1> DEFINE a == Mark(s, p, "UNKNOWN", "HEAD")
           t == SetHsent(a, p, n)
           pk == s.pkg[p]
           m == t.pkg[p]
<1>1. IsState(s) /\ p \in DOMAIN s.pkg /\ pk \in Package
  BY ReadyParts, RunningFacts
<1>2. Changed(s, a, p) /\ Doing(a.pkg[p], "UNKNOWN", "HEAD", pk.hsn, pk.headkey)
  BY <1>1, MarkChanges
<1> HIDE DEF a
<1>3. /\ IsState(a) /\ DOMAIN a.pkg = DOMAIN s.pkg /\ a.pkg[p] \in Package
      /\ SameBut(s, a, {"pkg"})
      /\ a.pkg[p].uri = pk.uri /\ a.pkg[p].cpn = pk.cpn /\ a.pkg[p].ppg = pk.ppg
      /\ a.pkg[p].lcg = pk.lcg /\ a.pkg[p].nsg = pk.nsg /\ a.pkg[p].cbody = pk.cbody
      /\ a.pkg[p].cached = pk.cached /\ a.pkg[p].hsn = pk.hsn
      /\ a.pkg[p].tr_offset = pk.tr_offset
      /\ \A q \in DOMAIN s.pkg : q # p => a.pkg[q] = s.pkg[q]
  BY <1>2 DEF Changed, SameRequest, SameBut, Doing
<1>4. /\ SameBut(a, t, {"pkg"}) /\ DOMAIN t.pkg = DOMAIN a.pkg
      /\ \A q \in DOMAIN a.pkg : q # p => t.pkg[q] = a.pkg[q]
      /\ m = [a.pkg[p] EXCEPT !.hsent = n]
  BY <1>1, <1>3 DEF SetHsent, SameBut, IsState
<1> HIDE DEF t
<1>5. /\ m \in Package /\ m.uri = pk.uri /\ m.cpn = pk.cpn
      /\ m.ppg = pk.ppg /\ m.lcg = pk.lcg /\ m.nsg = pk.nsg
      /\ m.cbody = pk.cbody /\ m.cached = pk.cached /\ m.hsn = pk.hsn
      /\ m.tr_offset = pk.tr_offset /\ m.hsent = n
  BY <1>3, <1>4, HsentPackage
<1>6. SameBut(s, t, {"pkg"}) /\ t.conn = s.conn /\ t.cache = s.cache
  BY <1>3, <1>4 DEF SameBut
<1>7. Touched(s.pkg, t.pkg, p)
  BY <1>3, <1>4, <1>5 DEF Touched
<1>8. Ready(t, {p})
  BY <1>6, <1>7, TouchedReady
<1>9. Works(s, t, p)
  BY <1>3, <1>4, <1>5, <1>6 DEF Works
<1>10. QED
  BY <1>5, <1>6, <1>8, <1>9 DEF t, a

LEMMA HeaderToBodyKeeps ==
  ASSUME NEW s, NEW p, Ready(s, {p}), s.pkg[p].ppg # NULL, s.pkg[p].uri \in Plain,
         s.conn[s.pkg[p].cpn] = "CONNECTED", s.pkg[p].cbody = -1, s.pkg[p].tr_offset = 0,
         s.pkg[p].hsn \in {200, 404}, s.pkg[p].hsent = 0, NEW nbytes \in 1 .. HeadSize
  PROVE  /\ Ready(svr_http_header_to_body_aio(s, p, nbytes), {})
         /\ Leads(s, svr_http_header_to_body_aio(s, p, nbytes), p)
<1> DEFINE t == SetHsent(Mark(s, p, "UNKNOWN", "HEAD"), p, nbytes)
           r == svr_http_header_to_body_aio(s, p, nbytes)
<1>1. nbytes \in Nat /\ nbytes > 0
  BY SizeAssumption
<1>2. r = IF s.pkg[p].hsn = 200 THEN svr_http_body(t, p) ELSE svr_http_final(t, p)
  BY DEF svr_http_header_to_body_aio, SetHsent
<1>3. /\ Ready(t, {p}) /\ Works(s, t, p) /\ SameBut(s, t, {"pkg"})
      /\ t.pkg[p].uri = s.pkg[p].uri /\ t.pkg[p].cpn = s.pkg[p].cpn
      /\ t.pkg[p].ppg = s.pkg[p].ppg /\ t.pkg[p].tr_offset = 0 /\ t.pkg[p].cbody = -1
      /\ t.pkg[p].hsn = s.pkg[p].hsn /\ t.pkg[p].hsent = nbytes
  BY <1>1, HeaderWrittenFacts
<1> HIDE DEF t, r
<1>4. t.conn = s.conn
  BY <1>3 DEF SameBut
<1>5. t.conn[t.pkg[p].cpn] = "CONNECTED" /\ t.pkg[p].ppg # NULL /\ t.pkg[p].uri \in Plain
  BY <1>3, <1>4
<1>6. CASE s.pkg[p].hsn = 200
  <2>1. t.pkg[p].tr_offset <= FileSize[t.pkg[p].uri]
    BY <1>3, <1>5, PlainSizes
  <2>2. t.pkg[p].hsn = 200 /\ t.pkg[p].hsent > 0 /\ (t.pkg[p].cbody = -1 \/ t.pkg[p].cached)
    BY <1>1, <1>3, <1>6
  <2>3. Ready(svr_http_body(t, p), {}) /\ BodyLeads(t, svr_http_body(t, p), p)
    BY <1>3, <1>5, <2>1, <2>2, BodyKeeps
  <2>4. GoesOn(s, t, p)
    <3>1. ~BrokenIn(s.conn, s.pkg[p].cpn)
      BY DEF BrokenIn
    <3>2. QED
      BY <1>3, <1>6, <3>1 DEF GoesOn
  <2>5. Leads(s, svr_http_body(t, p), p)
    BY <1>3, <2>3, <2>4, BodyGoesOn
  <2>6. QED
    BY <1>2, <1>6, <2>3, <2>5 DEF r
<1>7. CASE s.pkg[p].hsn # 200
  <2>1. Writable(t.conn, t.pkg[p])
    BY <1>5 DEF Writable
  <2>2. Ready(svr_http_final(t, p), {p} \ {p})
    BY <1>3, <2>1, FinalKeeps
  <2>3. Follows(s, t, p)
    BY <1>3, WorksFollows
  <2>4. Over(s.pkg[p], t.conn, t.cache)
    BY <1>7 DEF Over
  <2>5. Leads(s, svr_http_final(t, p), p)
    BY <1>3, <2>3, <2>4 DEF Leads
  <2>6. QED
    BY <1>2, <1>7, <2>2, <2>5 DEF r
<1>8. QED
  BY <1>6, <1>7

(***************************************************************************)
(* The callbacks                                                           *)
(***************************************************************************)

Callback(h, p) == [handler |-> h, pk |-> p]

\* The state that the handler finds.
Begun(s, h, p) == [s EXCEPT !.pending = @ \ {[handler |-> h, pk |-> p]}]

LEMMA BegunFields ==
  ASSUME NEW s, IsState(s), NEW h, NEW p
  PROVE  /\ SameBut(s, Begun(s, h, p), {"pending"})
         /\ Begun(s, h, p).pending = s.pending \ {Callback(h, p)}
         /\ Begun(s, h, p).conn = s.conn /\ Begun(s, h, p).pkg = s.pkg
         /\ Begun(s, h, p).cache = s.cache /\ Begun(s, h, p).abort = s.abort
<1>1. /\ SameBut(s, Begun(s, h, p), {"pending"})
      /\ Begun(s, h, p).pending = s.pending \ {Callback(h, p)}
  BY DEF Begun, SameBut, IsState, Callback
<1>2. QED
  BY <1>1 DEF SameBut

LEMMA CallbackFacts ==
  ASSUME NEW s, Ready(s, {}), NEW h, NEW p, Callback(h, p) \in s.pending
  PROVE  /\ IsState(s) /\ p \in DOMAIN s.pkg /\ s.pkg[p] \in Package
         /\ First(s.pkg, p) /\ p \in 1 .. MaxPkgs
         /\ LinksOf(s.conn, s.pkg, p) /\ Phase(s.conn, s.cache, h, p, s.pkg[p])
         /\ s.pkg[p].cpn \in DOMAIN s.conn
<1>1. Callback(h, p).handler = h /\ Callback(h, p).pk = p
  BY DEF Callback
<1>2. /\ IsState(s) /\ Types(s.conn, s.nc, s.pkg, s.pending, s.cache)
      /\ Linked(s.conn, s.pkg) /\ Waiting(s.pkg, s.pending, s.cache, {})
      /\ Phases(s.conn, s.pkg, s.pending, s.cache)
  BY ReadyParts
<1>3. p \in DOMAIN s.pkg /\ First(s.pkg, p) /\ Phase(s.conn, s.cache, h, p, s.pkg[p])
  BY <1>1, <1>2 DEF Waiting, Phases
<1>4. s.pkg[p] \in Package /\ p \in 1 .. MaxPkgs /\ LinksOf(s.conn, s.pkg, p)
  BY <1>2, <1>3 DEF Types, Linked
<1>5. QED
  BY <1>2, <1>3, <1>4 DEF LinksOf

\* Unless it is reading a block, a package has marked its last one as cached.
LEMMA NotReading ==
  ASSUME NEW s, Ready(s, {}), NEW h, NEW p, Callback(h, p) \in s.pending,
         h # "svr_http_body_pio"
  PROVE  s.pkg[p].cbody = -1 \/ s.pkg[p].cached
<1>1. p \in DOMAIN s.pkg
  BY CallbackFacts
<1>2. Reader(p) \notin s.pending
  <2>1. Callback(h, p).pk = p /\ Reader(p).pk = p /\ Callback(h, p) # Reader(p)
    BY DEF Callback, Reader
  <2>2. QED
    BY <2>1, ReadyParts DEF Waiting
<1>3. QED
  BY <1>1, <1>2, ReadyParts DEF Blocks

\* A package writes from one entry at a time.
LEMMA UsesOne ==
  ASSUME NEW pk, NEW k \in Plain \X (Nat \cup {-1}), NEW x \in Plain \X (Nat \cup {-1}),
         Uses(pk, k), Uses(pk, x)
  PROVE  x = k
<1>1. k = <<k[1], k[2]>> /\ x = <<x[1], x[2]>>
  OBVIOUS
<1>2. k[1] = x[1] /\ k[2] = x[2]
  BY DEF Uses
<1>3. QED
  BY <1>1, <1>2

LEMMA NothingReturned ==
  ASSUME NEW s, Ready(s, {}), NEW pk,
         \A k \in DOMAIN s.cache : k[2] # -1 => ~Uses(pk, k)
  PROVE  Returned(s.cache, s.cache, pk)
<1>1. ASSUME NEW k \in DOMAIN s.cache
      PROVE  /\ s.cache[k] \in Entry
             /\ s.cache[k].refCount >= s.cache[k].refCount - 1
             /\ s.cache[k].refCount >= s.cache[k].refCount
  <2>1. s.cache[k] \in Entry
    BY ReadyParts DEF Types
  <2>2. s.cache[k].refCount \in Nat
    BY <2>1 DEF Entry
  <2>3. QED
    BY <2>1, <2>2
<1>2. QED
  BY <1>1 DEF Returned

\* A handler begins, after the state of its connection may have changed.
LEMMA BeginReady ==
  ASSUME NEW s, Ready(s, {}), NEW h, NEW p, Callback(h, p) \in s.pending,
         h # "svr_http_body_pio", NEW t, SameBut(s, t, {"conn", "pending"}),
         t.pending = s.pending \ {Callback(h, p)},
         Stopped(s.conn, t.conn, s.pkg[p].cpn),
         \A k \in DOMAIN s.cache : k[2] # -1 => ~Uses(s.pkg[p], k)
  PROVE  Ready(t, {p})
<1>1. PICK cb : cb = Callback(h, p)
  OBVIOUS
<1>2. cb \in s.pending /\ cb.handler # "svr_http_body_pio" /\ cb.pk = p
  BY <1>1 DEF Callback
<1>3. SameBut(s, t, {"conn", "pending", "cache"}) /\ t.cache = s.cache
  BY DEF SameBut
<1>4. Returned(s.cache, t.cache, s.pkg[cb.pk])
  BY <1>2, <1>3, NothingReturned
<1>5. t.pending = s.pending \ {cb} /\ Stopped(s.conn, t.conn, s.pkg[cb.pk].cpn)
  BY <1>1, <1>2
<1>6. SameBut(s, t, {"conn", "pending", "cache"})
  BY <1>3
<1>7. Ready(t, {cb.pk})
  BY <1>2, <1>4, <1>5, <1>6, StartReady
<1>8. QED
  BY <1>2, <1>7

\* A handler begins and returns the reference to what its package has written.
LEMMA ReturnReady ==
  ASSUME NEW s, Ready(s, {}), NEW h, NEW p, Callback(h, p) \in s.pending,
         h # "svr_http_body_pio", NEW t, SameBut(s, t, {"conn", "pending"}),
         t.pending = s.pending \ {Callback(h, p)},
         Stopped(s.conn, t.conn, s.pkg[p].cpn),
         NEW k \in Plain \X (Nat \cup {-1}), Uses(s.pkg[p], k)
  PROVE  /\ Ready(doneWith(t, k), {p}) /\ SameBut(t, doneWith(t, k), {"cache"})
         /\ StatusKept(s.cache, doneWith(t, k).cache)
<1> DEFINE r == doneWith(t, k)
           e == [s.cache[k] EXCEPT !.refCount = @ - 1]
<1>1. p \in DOMAIN s.pkg \ {}
  BY CallbackFacts
<1>2. k \in DOMAIN s.cache /\ s.cache[k].status = "filled"
  BY <1>1, UsersKnown
<1>3. s.cache[k] \in Entry
  BY <1>2, ReadyParts DEF Types
<1>4. s.cache[k].refCount > 0
  <2>1. IsFiniteSet(Users(s.pkg, {}, k))
    BY AddressSetsFinite, ReadyParts DEF Users
  <2>2. Cardinality(Users(s.pkg, {}, k)) \in Nat
    BY <2>1, FS_CardinalityType
  <2>3. s.cache[k].refCount \in Nat /\ s.cache[k].refCount >= 1 + Cardinality(Users(s.pkg, {}, k))
    <3>1. Counts(s.pkg, s.cache, {})
      BY ReadyParts
    <3>2. CASE k[2] = -1
      BY <1>2, <1>3, <3>1, <3>2 DEF Counts, Entry
    <3>3. CASE k[2] # -1
      <4>1. s.cache[k].refCount = 1 + Cardinality(Users(s.pkg, {}, k))
        BY <1>2, <3>1, <3>3 DEF Counts
      <4>2. QED
        BY <2>2, <4>1
    <3>4. QED
      BY <3>2, <3>3
  <2>4. QED
    BY <2>2, <2>3
<1>5. t.cache = s.cache /\ IsState(t)
  BY DEF SameBut
<1>6. SameBut(t, r, {"cache"}) /\ r.cache = [s.cache EXCEPT ![k] = e]
  <2>1. r = [t EXCEPT !.cache[k].refCount = @ - 1]
    BY <1>2, <1>4, <1>5 DEF doneWith
  <2>2. QED
    BY <1>2, <1>5, <2>1 DEF SameBut, IsState
<1>7. /\ e.status = s.cache[k].status /\ e.data = s.cache[k].data
      /\ e.queue = s.cache[k].queue /\ e.refCount = s.cache[k].refCount - 1
      /\ e \in Entry
  <2>1. PICK x : x = s.cache[k]
    OBVIOUS
  <2>2. /\ x \in Entry
        /\ x.refCount > 0
    BY <1>3, <1>4, <2>1
  <2>3. QED
    BY <2>1, <2>2 DEF Entry
<1> HIDE DEF r, e
<1>8. /\ DOMAIN r.cache = DOMAIN s.cache /\ r.cache[k] = e
      /\ \A x \in DOMAIN s.cache : x # k => r.cache[x] = s.cache[x]
  BY <1>2, <1>6
<1>9. Returned(s.cache, r.cache, s.pkg[p])
  <2>1. ASSUME NEW x \in DOMAIN s.cache
        PROVE  /\ r.cache[x] \in Entry
               /\ r.cache[x].status = s.cache[x].status /\ r.cache[x].data = s.cache[x].data
               /\ r.cache[x].queue = s.cache[x].queue
               /\ Uses(s.pkg[p], x) => r.cache[x].refCount = s.cache[x].refCount - 1
               /\ ~Uses(s.pkg[p], x) => r.cache[x].refCount = s.cache[x].refCount
    <3>1. CASE x = k
      BY <1>7, <1>8, <3>1
    <3>2. CASE x # k
      <4>1. ~Uses(s.pkg[p], x)
        BY <3>2, KeysOfFiles, UsesOne
      <4>2. QED
        BY <1>8, <3>2, <4>1, ReadyParts DEF Types
    <3>3. QED
      BY <3>1, <3>2
  <2>2. ASSUME NEW x \in DOMAIN s.cache PROVE s.cache[x].refCount \in Nat
    <3>1. s.cache[x] \in Entry
      BY ReadyParts DEF Types
    <3>2. QED
      BY <3>1 DEF Entry
  <2>3. \A x \in DOMAIN s.cache :
           /\ Uses(s.pkg[p], x) => r.cache[x].refCount >= s.cache[x].refCount - 1
           /\ ~Uses(s.pkg[p], x) => r.cache[x].refCount >= s.cache[x].refCount
    BY <2>1, <2>2
  <2>4. QED
    BY <1>8, <2>1, <2>3 DEF Returned
<1>10. PICK cb : cb = Callback(h, p)
  OBVIOUS
<1>11. cb \in s.pending /\ cb.handler # "svr_http_body_pio" /\ cb.pk = p
  BY <1>10 DEF Callback
<1>12. SameBut(s, r, {"conn", "pending", "cache"}) /\ r.pending = t.pending /\ r.conn = t.conn
  BY <1>6 DEF SameBut
<1>13. /\ SameBut(s, r, {"conn", "pending", "cache"}) /\ r.pending = s.pending \ {cb}
       /\ Stopped(s.conn, r.conn, s.pkg[cb.pk].cpn) /\ Returned(s.cache, r.cache, s.pkg[cb.pk])
  BY <1>9, <1>10, <1>11, <1>12
<1>14. Ready(r, {cb.pk})
  BY <1>11, <1>13, StartReady
<1>15. StatusKept(s.cache, r.cache)
  BY <1>9 DEF Returned, StatusKept
<1>16. QED
  BY <1>6, <1>11, <1>14, <1>15 DEF r

LEMMA BeginAgain ==
  ASSUME NEW s, Ready(s, {}), NEW h, NEW p, Callback(h, p) \in s.pending,
         h # "svr_http_body_pio",
         \A k \in DOMAIN s.cache : k[2] # -1 => ~Uses(s.pkg[p], k)
  PROVE  Ready(Begun(s, h, p), {p})
<1> DEFINE t == Begun(s, h, p)
<1>1. IsState(s) /\ s.pkg[p].cpn \in DOMAIN s.conn
  BY CallbackFacts
<1>2. /\ SameBut(s, t, {"pending"}) /\ t.pending = s.pending \ {Callback(h, p)}
      /\ t.conn = s.conn
  BY <1>1, BegunFields
<1> HIDE DEF t
<1>3. SameBut(s, t, {"conn", "pending"})
  BY <1>2 DEF SameBut
<1>4. Stopped(s.conn, t.conn, s.pkg[p].cpn)
  BY <1>1, <1>2, ReadyParts DEF Types, Stopped
<1>5. Ready(t, {p})
  BY <1>2, <1>3, <1>4, BeginReady
<1>6. QED
  BY <1>5 DEF t

LEMMA ReadRuns ==
  ASSUME NEW s, Ready(s, {}), NEW p, Callback("svr_http_read", p) \in s.pending
  PROVE  LET r == svr_http_read(Begun(s, "svr_http_read", p), p) IN
         Ready(r, {}) /\ Leads(s, r, p)
<1>1. PICK h : h = "svr_http_read"
  OBVIOUS
<1>2. Callback(h, p) \in s.pending /\ h # "svr_http_body_pio"
  BY <1>1
<1>3. IsState(s) /\ Phase(s.conn, s.cache, h, p, s.pkg[p]) /\ LinksOf(s.conn, s.pkg, p)
  BY <1>2, CallbackFacts
<1>4. s.pkg[p].ppg = NULL /\ s.pkg[p].wst = "UNO"
  BY <1>1, <1>3 DEF Phase, LinksOf
<1>5. \A k \in DOMAIN s.cache : k[2] # -1 => ~Uses(s.pkg[p], k)
  BY <1>4 DEF Uses
<1> DEFINE b == Begun(s, h, p)
<1>6. Ready(b, {p}) /\ b.pkg = s.pkg /\ b.conn = s.conn /\ b.cache = s.cache
  BY <1>2, <1>3, <1>5, BeginAgain, BegunFields
<1> HIDE DEF b
<1>7. Ready(svr_http_read(b, p), {}) /\ Leads(b, svr_http_read(b, p), p)
  BY <1>4, <1>6, ReadKeeps
<1>8. Leads(s, svr_http_read(b, p), p)
  BY <1>6, <1>7, LeadsFrom
<1>9. QED
  BY <1>1, <1>7, <1>8 DEF b

LEMMA FetchRuns ==
  ASSUME NEW s, Ready(s, {}), NEW p, Callback("svr_http_fetch", p) \in s.pending
  PROVE  LET r == svr_http_fetch(Begun(s, "svr_http_fetch", p), p) IN
         Ready(r, {}) /\ Leads(s, r, p)
<1>1. PICK h : h = "svr_http_fetch"
  OBVIOUS
<1>2. Callback(h, p) \in s.pending /\ h # "svr_http_body_pio"
  BY <1>1
<1>3. IsState(s) /\ Phase(s.conn, s.cache, h, p, s.pkg[p])
  BY <1>2, CallbackFacts
<1>4. s.pkg[p].ppg # NULL /\ Fresh(s.pkg[p]) /\ Writable(s.conn, s.pkg[p])
  BY <1>1, <1>3 DEF Phase
<1>5. \A k \in DOMAIN s.cache : k[2] # -1 => ~Uses(s.pkg[p], k)
  BY <1>4 DEF Uses, Fresh
<1> DEFINE b == Begun(s, h, p)
<1>6. Ready(b, {p}) /\ b.pkg = s.pkg /\ b.conn = s.conn /\ b.cache = s.cache
  BY <1>2, <1>3, <1>5, BeginAgain, BegunFields
<1> HIDE DEF b
<1>7. /\ Ready(svr_http_fetch(b, p), {})
      /\ Leads(b, svr_http_fetch(b, p), p)
  BY <1>4, <1>6, FetchKeeps
<1>8. Leads(s, svr_http_fetch(b, p), p)
  BY <1>6, <1>7, LeadsFrom
<1>9. QED
  BY <1>1, <1>7, <1>8 DEF b

LEMMA HeaderRuns ==
  ASSUME NEW s, Ready(s, {}), NEW p, Callback("svr_http_header_to_body_aio", p) \in s.pending,
         NEW n \in Written(s.cache[HeadKey(s.pkg[p].uri)].data.size)
  PROVE  LET r == svr_http_header_to_body_aio(Begun(s, "svr_http_header_to_body_aio", p), p, n)
         IN  Ready(r, {}) /\ Leads(s, r, p)
<1>1. PICK h : h = "svr_http_header_to_body_aio"
  OBVIOUS
<1>2. Callback(h, p) \in s.pending /\ h # "svr_http_body_pio"
  BY <1>1
<1>3. IsState(s) /\ Phase(s.conn, s.cache, h, p, s.pkg[p])
  BY <1>2, CallbackFacts
<1>4. /\ s.pkg[p].ppg # NULL /\ s.pkg[p].uri \in Plain /\ s.conn[s.pkg[p].cpn] = "CONNECTED"
      /\ s.pkg[p].cbody = -1 /\ s.pkg[p].tr_offset = 0 /\ s.pkg[p].wst = "HEAD"
      /\ s.pkg[p].hsn \in {200, 404} /\ s.pkg[p].hsent = 0
      /\ Header(s.pkg[p].uri) \in DOMAIN s.cache
  BY <1>1, <1>3 DEF Phase
<1>n. n \in 1 .. HeadSize
  <2> DEFINE k == Header(s.pkg[p].uri)
  <2>1. k = HeadKey(s.pkg[p].uri) /\ k[2] = -1
    BY <1>4, PlainKeys DEF Header
  <2>2. s.cache[k].data \in HeadData
    <3> HIDE DEF k
    <3>1. QED
      BY <1>4, <2>1, ReadyParts DEF Slots, Slot, k
  <2>3. s.cache[k].data.size = HeadSize
    BY <2>2 DEF HeadData
  <2> HIDE DEF k
  <2>4. QED
    BY <2>1, <2>3, SizeAssumption DEF Written
<1>5. \A k \in DOMAIN s.cache : k[2] # -1 => ~Uses(s.pkg[p], k)
  BY <1>4 DEF Uses
<1> DEFINE b == Begun(s, h, p)
<1>6. Ready(b, {p}) /\ b.pkg = s.pkg /\ b.conn = s.conn /\ b.cache = s.cache
  BY <1>2, <1>3, <1>5, BeginAgain, BegunFields
<1> HIDE DEF b
<1>7. /\ Ready(svr_http_header_to_body_aio(b, p, n), {})
      /\ Leads(b, svr_http_header_to_body_aio(b, p, n), p)
  BY <1>4, <1>6, <1>n, HeaderToBodyKeeps
<1>8. Leads(s, svr_http_header_to_body_aio(b, p, n), p)
  BY <1>6, <1>7, LeadsFrom
<1>9. QED
  BY <1>1, <1>7, <1>8 DEF b

\* tr_offset moves past what was written.
Moved(s, p, n) == [s EXCEPT !.pkg[p].tr_offset = @ + n]

LEMMA MovedFields ==
  ASSUME NEW s, IsState(s), NEW p \in DOMAIN s.pkg, s.pkg[p] \in Package, NEW n \in Nat,
         s.pkg[p].ppg # NULL
  PROVE  /\ SameBut(s, Moved(s, p, n), {"pkg"})
         /\ Touched(s.pkg, Moved(s, p, n).pkg, p)
         /\ Moved(s, p, n).pkg[p].tr_offset = s.pkg[p].tr_offset + n
         /\ Moved(s, p, n).pkg[p].hsn = s.pkg[p].hsn
         /\ Moved(s, p, n).pkg[p].hsent = s.pkg[p].hsent
<1> DEFINE t == Moved(s, p, n)
           m == [s.pkg[p] EXCEPT !.tr_offset = @ + n]
<1>1. /\ SameBut(s, t, {"pkg"}) /\ DOMAIN t.pkg = DOMAIN s.pkg
      /\ \A q \in DOMAIN s.pkg : q # p => t.pkg[q] = s.pkg[q]
      /\ t.pkg[p] = m
  BY DEF Moved, IsState, SameBut, Package
<1>2. PICK pk : pk = s.pkg[p]
  OBVIOUS
<1>3. pk \in Package /\ m = [pk EXCEPT !.tr_offset = pk.tr_offset + n]
  BY <1>2
<1>4. pk.tr_offset + n \in Nat
  BY <1>3 DEF Package
<1> HIDE DEF m, t
<1>5. m \in Package
  BY <1>3, <1>4, SMTT(60) DEF Package
<1>6. /\ m.uri = pk.uri /\ m.cpn = pk.cpn /\ m.ppg = pk.ppg /\ m.lcg = pk.lcg
      /\ m.nsg = pk.nsg /\ m.hsn = pk.hsn /\ m.tr_offset = pk.tr_offset + n
      /\ m.cbody = pk.cbody /\ m.cached = pk.cached /\ m.hsent = pk.hsent
  BY <1>3, <1>4 DEF Package
<1>7. Touched(s.pkg, t.pkg, p)
  BY <1>1, <1>2, <1>5, <1>6 DEF Touched
<1>8. QED
  BY <1>1, <1>2, <1>6, <1>7 DEF t

\* The size of what package p is writing, as BlockWritten gives it.
WriteSize(s, p) ==
    IF s.pkg[p].wst = "BODY" THEN s.cache[BodyKey(s.pkg[p].uri, s.pkg[p].bodykey)].data.size
                            ELSE HeadSize

LEMMA BlockWrittenRuns ==
  ASSUME NEW s, Ready(s, {}), NEW p, Callback("svr_http_body_rio", p) \in s.pending,
         NEW n \in Written(WriteSize(s, p))
  PROVE  LET r == svr_http_body_rio(Begun(s, "svr_http_body_rio", p), p, n) IN
         Ready(r, {}) /\ Leads(s, r, p)
<1> DEFINE pk == s.pkg[p]
           k == BlockOf(pk)
<1>1. PICK h : h = "svr_http_body_rio"
  OBVIOUS
<1>2. Callback(h, p) \in s.pending /\ h # "svr_http_body_pio"
  BY <1>1
<1> DEFINE b == Begun(s, h, p)
           r == svr_http_body_rio(b, p, n)
           returned == doneWith(b, BodyKey(b.pkg[p].uri, b.pkg[p].bodykey))
<1>3. /\ IsState(s) /\ p \in DOMAIN s.pkg /\ pk \in Package
      /\ Phase(s.conn, s.cache, h, p, pk) /\ pk.cpn \in DOMAIN s.conn
  BY <1>2, CallbackFacts
<1>4. /\ pk.ppg # NULL /\ s.conn[pk.cpn] = "CONNECTED" /\ pk.hst = "WRITING"
      /\ Answering400(pk) \/ WritingBlock(s.cache, pk)
  BY <1>1, <1>3 DEF Phase
<1>5. /\ SameBut(s, b, {"pending"}) /\ b.pending = s.pending \ {Callback(h, p)}
      /\ b.conn = s.conn /\ b.pkg = s.pkg /\ b.cache = s.cache
  BY <1>3, BegunFields
<1>6. /\ b.pkg[p].wst = "BODY" /\ n > 0 => r = svr_http_body(Moved(returned, p, n), p)
      /\ b.pkg[p].wst = "BODY" /\ n = 0 => r = svr_http_final(returned, p)
      /\ b.pkg[p].wst # "BODY" => r = svr_http_final(b, p)
  BY DEF svr_http_body_rio, Moved
<1>7. CASE Answering400(pk)
  <2>1. pk.wst # "BODY"
    BY <1>7 DEF Answering400
  <2>2. \A x \in DOMAIN s.cache : x[2] # -1 => ~Uses(s.pkg[p], x)
    BY <2>1 DEF Uses
  <2>3. Ready(b, {p})
    BY <1>2, <2>2, BeginAgain
  <2> HIDE DEF b, r
  <2>4. Writable(b.conn, b.pkg[p])
    BY <1>4, <1>5 DEF Writable
  <2>5. Ready(svr_http_final(b, p), {p} \ {p})
    BY <2>3, <2>4, FinalKeeps
  <2>6. r = svr_http_final(b, p)
    BY <1>5, <1>6, <2>1
  <2>7. Ready(r, {})
    BY <2>5, <2>6
  <2>8. Leads(s, r, p)
    <3>1. Over(b.pkg[p], b.conn, b.cache)
      BY <1>5, <1>7 DEF Over, Answering400
    <3>2. Leads(b, r, p)
      BY <2>3, <2>6, <3>1, EndLeads
    <3>3. QED
      BY <1>5, <3>2, LeadsFrom
  <2>9. QED
    BY <1>1, <2>7, <2>8 DEF r, b
<1>8. CASE WritingBlock(s.cache, pk)
  <2>1. /\ pk.uri \in Plain /\ pk.wst = "BODY" /\ pk.hsn = 200 /\ pk.bodykey = pk.tr_offset
        /\ k \in DOMAIN s.cache /\ s.cache[k].status = "filled" /\ pk.hsent > 0
        /\ k = BodyKey(pk.uri, pk.bodykey)
    BY <1>8, PlainKeys DEF WritingBlock, BlockOf
  <2>2. k \in Plain \X (Nat \cup {-1}) /\ k[1] = pk.uri /\ k[2] = pk.bodykey /\ k[2] # -1
    <3>1. pk.bodykey \in Nat
      BY <1>3, <2>1 DEF Package
    <3>2. k = <<pk.uri, pk.bodykey>>
      BY DEF BlockOf, Block
    <3> HIDE DEF k
    <3>3. QED
      BY <2>1, <3>1, <3>2
  <2>3. Uses(pk, k)
    BY <1>4, <2>1, <2>2 DEF Uses
  <2>4. /\ pk.tr_offset + n <= FileSize[pk.uri] /\ n \in Nat /\ n <= MAXWB
        /\ n = 0 => pk.tr_offset = FileSize[pk.uri]
    <3>1. k[2] <= FileSize[k[1]] /\ s.cache[k].data.size = BlockSize(k)
      BY <2>1, <2>2, ReadyParts DEF Slots, Slot
    <3>2. s.cache[k].data.size \in Nat
      <4>1. s.cache[k] \in Entry
        BY <2>1, ReadyParts DEF Types
      <4>2. QED
        BY <4>1 DEF Entry, Data
    <3>3. n \in Nat /\ n <= s.cache[k].data.size /\ (n = 0 => s.cache[k].data.size = 0)
      <4>1. WriteSize(s, p) = s.cache[k].data.size
        BY <2>1 DEF WriteSize
      <4> HIDE DEF k
      <4>2. QED
        BY <3>2, <4>1 DEF Written
    <3>4. FileSize[k[1]] \in Nat /\ k[2] \in Nat /\ MAXWB \in Nat \ {0}
      BY <1>3, <2>1, <2>2, PlainSizes DEF Package
    <3>5. /\ BlockSize(k) <= FileSize[k[1]] - k[2] /\ BlockSize(k) <= MAXWB
          /\ BlockSize(k) = 0 => k[2] = FileSize[k[1]]
      BY <3>1, <3>4 DEF BlockSize
    <3>6. QED
      BY <2>1, <2>2, <3>1, <3>2, <3>3, <3>4, <3>5
  <2>5. /\ Ready(returned, {p}) /\ SameBut(b, returned, {"cache"})
        /\ StatusKept(s.cache, returned.cache)
    <3>1. SameBut(s, b, {"conn", "pending"})
      BY <1>5 DEF SameBut
    <3>2. Stopped(s.conn, b.conn, s.pkg[p].cpn)
      BY <1>3, <1>5, ReadyParts DEF Types, Stopped
    <3>3. BodyKey(b.pkg[p].uri, b.pkg[p].bodykey) = k
      BY <1>5, <2>1
    <3> HIDE DEF b, k
    <3>4. /\ Ready(doneWith(b, k), {p}) /\ SameBut(b, doneWith(b, k), {"cache"})
          /\ StatusKept(s.cache, doneWith(b, k).cache)
      BY <1>2, <1>5, <2>2, <2>3, <3>1, <3>2, ReturnReady
    <3>5. QED
      BY <3>3, <3>4
  <2> HIDE DEF returned
  <2>6. returned.pkg = s.pkg /\ returned.conn = s.conn /\ IsState(returned)
    BY <1>5, <2>5 DEF SameBut
  <2>a. Works(s, returned, p)
    BY <2>5, <2>6 DEF Works, StatusKept
  <2> HIDE DEF b, r
  <2>7. CASE n = 0
    <3>1. Writable(returned.conn, returned.pkg[p])
      BY <1>4, <2>6 DEF Writable
    <3>2. Ready(svr_http_final(returned, p), {p} \ {p})
      BY <2>5, <3>1, FinalKeeps
    <3>3. r = svr_http_final(returned, p)
      BY <1>5, <1>6, <2>1, <2>7
    <3>4. Ready(r, {})
      BY <3>2, <3>3
    <3>5. Over(pk, returned.conn, returned.cache)
      BY <2>1, <2>4, <2>7 DEF Over
    <3>6. Leads(s, r, p)
      BY <2>5, <2>a, <3>3, <3>5, WorksFollows DEF Leads
    <3>7. QED
      BY <1>1, <3>4, <3>6 DEF r, b
  <2>8. CASE n # 0
    <3> DEFINE t == Moved(returned, p, n)
    <3>1. n > 0
      BY <2>4, <2>8
    <3>2. r = svr_http_body(t, p)
      BY <1>5, <1>6, <2>1, <3>1
    <3>3. /\ SameBut(returned, t, {"pkg"}) /\ Touched(returned.pkg, t.pkg, p)
          /\ t.pkg[p].tr_offset = pk.tr_offset + n /\ t.pkg[p].hsn = pk.hsn
          /\ t.pkg[p].hsent = pk.hsent
      BY <1>3, <1>4, <2>4, <2>6, MovedFields
    <3> HIDE DEF t
    <3>4. Ready(t, {p})
      BY <2>5, <3>3, TouchedReady
    <3>5. pk.cbody = -1 \/ pk.cached
      BY <1>2, NotReading
    <3>6. /\ t.pkg[p].ppg # NULL /\ t.pkg[p].uri \in Plain /\ t.pkg[p].hsn = 200
          /\ t.pkg[p].hsent > 0 /\ t.conn[t.pkg[p].cpn] = "CONNECTED"
          /\ t.pkg[p].cbody = -1 \/ t.pkg[p].cached
          /\ t.pkg[p].tr_offset <= FileSize[t.pkg[p].uri]
      <4>1. t.conn = s.conn
        BY <2>6, <3>3 DEF SameBut
      <4>2. /\ t.pkg[p].ppg = pk.ppg /\ t.pkg[p].uri = pk.uri /\ t.pkg[p].cpn = pk.cpn
            /\ t.pkg[p].cbody = pk.cbody /\ t.pkg[p].cached = pk.cached
        BY <2>6, <3>3 DEF Touched
      <4>3. QED
        BY <1>4, <2>1, <2>4, <3>3, <3>5, <4>1, <4>2
    <3>7. Ready(svr_http_body(t, p), {}) /\ BodyLeads(t, svr_http_body(t, p), p)
      BY <3>4, <3>6, BodyKeeps
    <3>8. Ready(r, {}) /\ BodyLeads(t, r, p)
      BY <3>2, <3>7
    <3>9. Works(s, t, p)
      <4>1. Works(returned, t, p)
        BY <3>3 DEF SameBut, Touched, Works
      <4>2. QED
        BY <2>a, <4>1, WorksOn
    <3>10. GoesOn(s, t, p)
      <4>1. ~BrokenIn(s.conn, pk.cpn) /\ pk.tr_offset \in Nat /\ MAXWB \in Nat
        BY <1>3, <1>4, PlainSizes DEF BrokenIn, Package
      <4>2. pk.tr_offset < pk.tr_offset + n /\ pk.tr_offset + n <= pk.tr_offset + MAXWB
        BY <2>4, <3>1, <4>1
      <4>3. QED
        BY <1>4, <2>1, <2>4, <3>3, <4>1, <4>2 DEF GoesOn
    <3>11. Leads(s, r, p)
      BY <3>8, <3>9, <3>10, BodyGoesOn
    <3>12. QED
      BY <1>1, <3>8, <3>11 DEF r, b
  <2>9. QED
    BY <2>7, <2>8
<1>9. QED
  BY <1>4, <1>7, <1>8

SetCached(s, p) == [s EXCEPT !.pkg[p].cached = TRUE]

LEMMA CachedPackage ==
  ASSUME NEW pk \in Package, NEW c \in BOOLEAN
  PROVE  [pk EXCEPT !.cached = c] \in Package
BY DEF Package

LEMMA CachedFields ==
  ASSUME NEW s, IsState(s), NEW p \in DOMAIN s.pkg, s.pkg[p] \in Package
  PROVE  LET m == SetCached(s, p).pkg[p] IN
         /\ SameBut(s, SetCached(s, p), {"pkg"}) /\ DOMAIN SetCached(s, p).pkg = DOMAIN s.pkg
         /\ \A q \in DOMAIN s.pkg : q # p => SetCached(s, p).pkg[q] = s.pkg[q]
         /\ m \in Package /\ m.cached /\ m.hst = s.pkg[p].hst /\ m.wst = s.pkg[p].wst
         /\ m.uri = s.pkg[p].uri /\ m.cpn = s.pkg[p].cpn /\ m.ppg = s.pkg[p].ppg
         /\ m.lcg = s.pkg[p].lcg /\ m.nsg = s.pkg[p].nsg /\ m.hsn = s.pkg[p].hsn
         /\ m.bodykey = s.pkg[p].bodykey /\ m.tr_offset = s.pkg[p].tr_offset
         /\ m.hsent = s.pkg[p].hsent
         /\ m.cbody = s.pkg[p].cbody
<1> DEFINE t == SetCached(s, p)
           m == [s.pkg[p] EXCEPT !.cached = TRUE]
<1>1. /\ SameBut(s, t, {"pkg"}) /\ DOMAIN t.pkg = DOMAIN s.pkg
      /\ \A q \in DOMAIN s.pkg : q # p => t.pkg[q] = s.pkg[q]
      /\ t.pkg[p] = m
  BY DEF SetCached, IsState, SameBut, Package
<1>2. PICK pk : pk = s.pkg[p]
  OBVIOUS
<1>3. pk \in Package /\ m = [pk EXCEPT !.cached = TRUE]
  BY <1>2
<1>4. m \in Package
  <2>1. \A c \in BOOLEAN : [pk EXCEPT !.cached = c] \in Package
    BY <1>3, CachedPackage
  <2>2. QED
    BY <1>3, <2>1
<1> HIDE DEF m, t
<1>a. m.cached
  BY <1>3 DEF Package
<1>5. /\ m.hst = pk.hst /\ m.wst = pk.wst
      /\ m.uri = pk.uri /\ m.cpn = pk.cpn /\ m.ppg = pk.ppg
      /\ m.lcg = pk.lcg /\ m.nsg = pk.nsg /\ m.hsn = pk.hsn
      /\ m.bodykey = pk.bodykey /\ m.tr_offset = pk.tr_offset /\ m.hsent = pk.hsent
      /\ m.cbody = pk.cbody
  BY <1>3 DEF Package
<1>6. QED
  BY <1>1, <1>2, <1>a, <1>4, <1>5 DEF t

\* No client sees the difference.
Unseen(s, t) ==
    /\ t.conn = s.conn
    /\ DOMAIN t.pkg = DOMAIN s.pkg
    /\ \A q \in DOMAIN s.pkg : SameAnswer(s.pkg[q], t.pkg[q])
    /\ Lost(s.cache) \subseteq Lost(t.cache)

LEMMA BlockReadRuns ==
  ASSUME NEW s, Ready(s, {}), NEW p, Callback("svr_http_body_pio", p) \in s.pending,
         NEW n, n = BlockSize(<<s.pkg[p].uri, s.pkg[p].tr_offset>>)
  PROVE  LET r == svr_http_body_pio(Begun(s, "svr_http_body_pio", p), p, n) IN
         Ready(r, {}) /\ Unseen(s, r)
<1>1. PICK h : h = "svr_http_body_pio"
  OBVIOUS
<1> DEFINE pk == s.pkg[p]
           key == BlockOf(pk)
           b == Begun(s, h, p)
           queue == s.cache[key].queue
           Q == Range(queue)
           r == svr_http_body_pio(b, p, n)
           data == [hsn |-> BlockStatus[pk.uri], size |-> n]
<1>2. Callback(h, p) \in s.pending /\ Reader(p) = Callback(h, p)
  BY <1>1 DEF Callback, Reader
<1>3. /\ IsState(s) /\ p \in DOMAIN s.pkg /\ pk \in Package
      /\ Phase(s.conn, s.cache, h, p, pk)
  BY <1>2, CallbackFacts
<1>4. /\ Fetching(s.conn, pk) /\ key \in DOMAIN s.cache
      /\ s.cache[key].status = "reserved" /\ queue[1] = p
  BY <1>1, <1>3 DEF Phase
<1>5. /\ SameBut(s, b, {"pending"}) /\ b.pending = s.pending \ {Reader(p)}
      /\ b.conn = s.conn /\ b.pkg = s.pkg /\ b.cache = s.cache /\ IsState(b)
  <2>1. /\ SameBut(s, b, {"pending"}) /\ b.pending = s.pending \ {Callback(h, p)}
        /\ b.conn = s.conn /\ b.pkg = s.pkg /\ b.cache = s.cache
    BY <1>3, BegunFields
  <2>2. QED
    BY <1>2, <2>1 DEF SameBut
<1>6. r = LET t == put(b, BodyKey(b.pkg[p].uri, b.pkg[p].bodykey), data)
          IN  IF p \in DOMAIN t.pkg THEN SetCached(t, p) ELSE Fail(t, "freed")
  BY <1>5 DEF svr_http_body_pio, SetCached
<1>7. BodyKey(b.pkg[p].uri, b.pkg[p].bodykey) = key /\ key = <<pk.uri, pk.tr_offset>>
  BY <1>4, <1>5, PlainKeys DEF BlockOf, Fetching, Block
<1> HIDE DEF b, r, key
<1>8. n = BlockSize(key) /\ n \in Nat
  <2>1. n = BlockSize(key)
    BY <1>7
  <2>2. key[1] = pk.uri /\ key[2] = pk.tr_offset /\ pk.tr_offset \in Nat /\ pk.uri \in Plain
    BY <1>3, <1>4, <1>7 DEF Fetching, Package
  <2>3. key[2] <= FileSize[key[1]]
    <3>1. key[2] # -1
      BY <2>2
    <3>2. QED
      BY <1>4, <3>1, ReadyParts DEF Slots, Slot
  <2>4. FileSize[key[1]] \in Nat /\ MAXWB \in Nat /\ key[2] \in Nat
    BY <2>2, PlainSizes
  <2>5. BlockSize(key) \in Nat
    BY <2>3, <2>4 DEF BlockSize
  <2>6. QED
    BY <2>1, <2>5
<1>d. data \in Data /\ data.size = BlockSize(key)
  <2>1. BlockStatus[pk.uri] \in {200, 404, 0}
    BY <1>4, StatusAssumption, PlainRequests DEF Fetching
  <2>2. QED
    BY <1>8, <2>1 DEF Data
<1> HIDE DEF data
<1>9. /\ s.cache[key] \in Entry
      /\ IsInjective(queue) /\ queue # <<>>
      /\ \A q \in Q : q \in DOMAIN s.pkg /\ Fetching(s.conn, s.pkg[q])
  BY <1>4, ReadyParts DEF Types, Slots, Slot
<1>10. p \in Q
  <2>1. queue \in Seq(1 .. MaxPkgs)
    BY <1>9 DEF Entry
  <2>2. 1 \in DOMAIN queue
    <3> HIDE DEF queue
    <3>1. QED
      BY <1>9, <2>1
  <2>3. QED
    BY <1>4, <2>2 DEF Range
<1>11. \A q \in Q : /\ q \in DOMAIN s.pkg /\ s.pkg[q] \in Package /\ s.pkg[q].wst = "BODY"
                    /\ s.conn[s.pkg[q].cpn] = "CONNECTED"
  BY <1>9, ReadyParts DEF Types, Fetching
<1> HIDE DEF Q
<1>12. PICK t : /\ Filled(s.cache, t.cache, key, data, Len(queue))
                /\ Called([b EXCEPT !.cache = t.cache], t, Q)
                /\ put(b, key, data) = t
  <2>1. /\ IsState(b) /\ key \in DOMAIN b.cache /\ b.cache[key].status = "reserved"
        /\ b.cache[key] \in Entry
        /\ IsInjective(b.cache[key].queue)
    BY <1>4, <1>5, <1>9
  <2>2. \A q \in Range(b.cache[key].queue) :
           /\ q \in DOMAIN b.pkg /\ b.pkg[q] \in Package /\ b.pkg[q].wst = "BODY"
           /\ b.conn[b.pkg[q].cpn] = "CONNECTED"
    BY <1>5, <1>11 DEF Q
  <2>3. \E t : /\ Filled(b.cache, t.cache, key, data, Len(b.cache[key].queue))
               /\ Called([b EXCEPT !.cache = t.cache], t, Range(b.cache[key].queue))
               /\ put(b, key, data) = t
    BY <1>d, <2>1, <2>2, PutBody
  <2>4. QED
    BY <1>5, <2>3 DEF Q
<1>13. /\ SameBut(s, t, {"pkg", "pending", "cache"}) /\ IsState(t)
       /\ DOMAIN t.pkg = DOMAIN s.pkg
       /\ \A q \in Q : t.pkg[q] = Marked(s.pkg[q])
       /\ \A q \in DOMAIN s.pkg \ Q : t.pkg[q] = s.pkg[q]
       /\ t.pending = (s.pending \ {Reader(p)}) \cup {Writer(q) : q \in Q}
  <2> DEFINE c == [b EXCEPT !.cache = t.cache]
  <2>1. SameBut(b, c, {"cache"}) /\ c.pkg = s.pkg /\ c.pending = s.pending \ {Reader(p)}
    BY <1>5 DEF SameBut, IsState
  <2>2. Called(c, t, Q)
    BY <1>12
  <2> HIDE DEF c
  <2>3. SameBut(c, t, {"pkg", "pending"})
    BY <2>2 DEF Called
  <2>4. SameBut(s, t, {"pkg", "pending", "cache"}) /\ IsState(t)
    BY <1>5, <2>1, <2>3 DEF SameBut
  <2>5. QED
    BY <2>1, <2>2, <2>4 DEF Called
<1>14. r = SetCached(t, p) /\ p \in DOMAIN t.pkg
  BY <1>3, <1>6, <1>7, <1>12, <1>13
<1>15. /\ t.pkg[p] \in Package
       /\ \A q \in Q : LET m == t.pkg[q] IN
            /\ m \in Package /\ m.hst = "WRITING" /\ m.wst = "BODY"
            /\ m.uri = s.pkg[q].uri /\ m.cpn = s.pkg[q].cpn /\ m.ppg = s.pkg[q].ppg
            /\ m.lcg = s.pkg[q].lcg /\ m.nsg = s.pkg[q].nsg /\ m.hsn = s.pkg[q].hsn
            /\ m.bodykey = s.pkg[q].bodykey /\ m.tr_offset = s.pkg[q].tr_offset
            /\ m.hsent = s.pkg[q].hsent
            /\ m.cbody = s.pkg[q].cbody /\ m.cached = s.pkg[q].cached
  <2>1. \A q \in Q : s.pkg[q] \in Package /\ t.pkg[q] = Marked(s.pkg[q])
    BY <1>11, <1>13
  <2>2. QED
    BY <1>10, <2>1, MarkedFields
<1>16. LET m == SetCached(t, p).pkg[p] IN
       /\ SameBut(t, SetCached(t, p), {"pkg"}) /\ DOMAIN SetCached(t, p).pkg = DOMAIN t.pkg
       /\ \A q \in DOMAIN t.pkg : q # p => SetCached(t, p).pkg[q] = t.pkg[q]
       /\ m \in Package /\ m.cached /\ m.hst = t.pkg[p].hst /\ m.wst = t.pkg[p].wst
       /\ m.uri = t.pkg[p].uri /\ m.cpn = t.pkg[p].cpn /\ m.ppg = t.pkg[p].ppg
       /\ m.lcg = t.pkg[p].lcg /\ m.nsg = t.pkg[p].nsg /\ m.hsn = t.pkg[p].hsn
       /\ m.bodykey = t.pkg[p].bodykey /\ m.tr_offset = t.pkg[p].tr_offset
       /\ m.hsent = t.pkg[p].hsent
       /\ m.cbody = t.pkg[p].cbody
  BY <1>13, <1>14, <1>15, CachedFields
<1>17. BlockGiven(s.pkg, r.pkg, Q, p)
  <2>1. DOMAIN r.pkg = DOMAIN s.pkg /\ \A q \in DOMAIN s.pkg \ Q : r.pkg[q] = s.pkg[q]
    BY <1>10, <1>13, <1>14, <1>16
  <2>2. r.pkg[p].cached
    BY <1>14, <1>16
  <2>3. ASSUME NEW q \in Q
        PROVE  /\ r.pkg[q] \in Package /\ r.pkg[q].hst = "WRITING" /\ r.pkg[q].wst = "BODY"
               /\ r.pkg[q].uri = s.pkg[q].uri /\ r.pkg[q].cpn = s.pkg[q].cpn
               /\ r.pkg[q].ppg = s.pkg[q].ppg
               /\ r.pkg[q].lcg = s.pkg[q].lcg /\ r.pkg[q].nsg = s.pkg[q].nsg
               /\ r.pkg[q].hsn = s.pkg[q].hsn
               /\ r.pkg[q].bodykey = s.pkg[q].bodykey
               /\ r.pkg[q].tr_offset = s.pkg[q].tr_offset /\ r.pkg[q].hsent = s.pkg[q].hsent
               /\ r.pkg[q].cbody = s.pkg[q].cbody
               /\ q # p => r.pkg[q].cached = s.pkg[q].cached
    <3>1. CASE q = p
      BY <1>10, <1>14, <1>15, <1>16, <3>1
    <3>2. CASE q # p
      <4>1. r.pkg[q] = t.pkg[q]
        BY <1>11, <1>13, <1>14, <1>16, <3>2
      <4>2. QED
        BY <1>15, <3>2, <4>1
    <3>3. QED
      BY <3>1, <3>2
  <2>4. QED
    BY <2>1, <2>2, <2>3 DEF BlockGiven
<1>18. /\ SameBut(s, r, {"pkg", "pending", "cache"}) /\ r.pending = t.pending
       /\ r.cache = t.cache
  BY <1>13, <1>14, <1>16 DEF SameBut
<1>19. Ready(r, {})
  <2>1. /\ SameBut(s, r, {"pkg", "pending", "cache"})
        /\ r.pending = (s.pending \ {Reader(p)}) \cup {Writer(q) : q \in Q}
        /\ data \in Data /\ data.size = BlockSize(key)
        /\ Filled(s.cache, r.cache, key, data, Len(s.cache[key].queue))
    BY <1>d, <1>12, <1>13, <1>18
  <2>2. key = BlockOf(s.pkg[p]) /\ Q = Range(s.cache[key].queue) /\ Reader(p) \in s.pending
    BY <1>2 DEF key, Q
  <2>3. QED
    BY <1>17, <2>1, <2>2, FillReady
<1>20. Unseen(s, r)
  <2>1. r.conn = s.conn
    BY <1>18 DEF SameBut
  <2>2. DOMAIN r.pkg = DOMAIN s.pkg /\ \A q \in DOMAIN s.pkg : SameAnswer(s.pkg[q], r.pkg[q])
    BY <1>17 DEF BlockGiven, SameAnswer
  <2>3. Lost(s.cache) \subseteq Lost(r.cache)
    <3>1. Filled(s.cache, r.cache, key, data, Len(queue))
      BY <1>12, <1>18
    <3>2. \A x \in DOMAIN s.cache : s.cache[x].status = "cancelled" =>
             x \in DOMAIN r.cache /\ r.cache[x].status = "cancelled"
      BY <1>4, <3>1 DEF Filled
    <3>3. QED
      BY <3>2, LostKept
  <2>4. QED
    BY <2>1, <2>2, <2>3 DEF Unseen
<1>21. QED
  BY <1>1, <1>19, <1>20 DEF r, b

(***************************************************************************)
(* Errors                                                                  *)
(***************************************************************************)

\* What a step may lead to: the assertion on headkey fails for a bad request, or
\* the invariant holds.
Outcome(r) ==
    \/ Ready(r, {})
    \/ /\ IsState(r) /\ Types(r.conn, r.nc, r.pkg, r.pending, r.cache)
       /\ Linked(r.conn, r.pkg) /\ r.abort = "headkey"
       /\ \E p \in DOMAIN r.pkg : r.pkg[p].uri = BadGet /\ r.pkg[p].hsn = 400

\* The state of a connection that met an error.
StopRead(s, cn) ==
    [s EXCEPT !.conn[cn] = IF @ = "CLOSING_W" THEN "CLOSING" ELSE "CLOSING_R"]

StopWrite(s, cn) ==
    [s EXCEPT !.conn[cn] = IF @ = "CLOSING_R" THEN "CLOSING" ELSE "CLOSING_W"]

LEMMA StopReadFields ==
  ASSUME NEW s, IsState(s), NEW cn \in DOMAIN s.conn
  PROVE  /\ SameBut(s, StopRead(s, cn), {"conn"}) /\ Stopped(s.conn, StopRead(s, cn).conn, cn)
         /\ s.conn[cn] = "CLOSING_W" => StopRead(s, cn).conn[cn] = "CLOSING"
<1> DEFINE t == StopRead(s, cn)
           c == IF s.conn[cn] = "CLOSING_W" THEN "CLOSING" ELSE "CLOSING_R"
<1>1. SameBut(s, t, {"conn"}) /\ t.conn = [s.conn EXCEPT ![cn] = c]
  BY DEF StopRead, SameBut, IsState
<1>2. /\ c \in {"CONNECTED", "CLOSING_R", "CLOSING_W", "CLOSING"}
      /\ s.conn[cn] = "CLOSING_W" => c = "CLOSING"
  OBVIOUS
<1> HIDE DEF t, c
<1>3. QED
  BY <1>1, <1>2 DEF Stopped, t

LEMMA StopWriteFields ==
  ASSUME NEW s, IsState(s), NEW cn \in DOMAIN s.conn
  PROVE  /\ SameBut(s, StopWrite(s, cn), {"conn"})
         /\ Stopped(s.conn, StopWrite(s, cn).conn, cn)
         /\ s.conn[cn] = "CONNECTED" => StopWrite(s, cn).conn[cn] = "CLOSING_W"
<1> DEFINE t == StopWrite(s, cn)
           c == IF s.conn[cn] = "CLOSING_R" THEN "CLOSING" ELSE "CLOSING_W"
<1>1. SameBut(s, t, {"conn"}) /\ t.conn = [s.conn EXCEPT ![cn] = c]
  BY DEF StopWrite, SameBut, IsState
<1>2. /\ c \in {"CONNECTED", "CLOSING_R", "CLOSING_W", "CLOSING"}
      /\ s.conn[cn] = "CONNECTED" => c = "CLOSING_W"
  OBVIOUS
<1> HIDE DEF t, c
<1>3. QED
  BY <1>1, <1>2 DEF Stopped, t

\* The end of a read, or its error.
LEMMA ReadFails ==
  ASSUME NEW s, Ready(s, {}), NEW p, Callback("svr_http_parse_aio", p) \in s.pending,
         NEW t, SameBut(Begun(s, "svr_http_parse_aio", p), t, {"pkg"}),
         Changed(Begun(s, "svr_http_parse_aio", p), t, p),
         t.pkg[p].hst \in {"READING", "PARSING"}, t.pkg[p].wst = "UNO"
  PROVE  Ready(svr_http_final_aio(t, p), {}) /\ Leads(s, svr_http_final_aio(t, p), p)
<1>1. PICK h : h = "svr_http_parse_aio"
  OBVIOUS
<1> DEFINE cn == s.pkg[p].cpn
           b == Begun(s, h, p)
           a == StopRead(b, cn)
           u == StopRead(t, cn)
<1>2. Callback(h, p) \in s.pending /\ h # "svr_http_body_pio"
  BY <1>1
<1>3. /\ IsState(s) /\ Phase(s.conn, s.cache, h, p, s.pkg[p]) /\ LinksOf(s.conn, s.pkg, p)
      /\ cn \in DOMAIN s.conn
  BY <1>2, CallbackFacts
<1>4. s.pkg[p].ppg = NULL /\ s.pkg[p].wst = "UNO" /\ Writable(s.conn, s.pkg[p])
  BY <1>1, <1>3 DEF Phase, LinksOf
<1>5. /\ SameBut(s, b, {"pending"}) /\ b.pending = s.pending \ {Callback(h, p)}
      /\ b.conn = s.conn /\ b.pkg = s.pkg /\ b.cache = s.cache
      /\ SameBut(b, t, {"pkg"}) /\ Changed(b, t, p)
  BY <1>1, <1>3, BegunFields
<1> HIDE DEF b
<1>6. IsState(b) /\ IsState(t) /\ t.conn = s.conn /\ t.pkg[p].cpn = cn
  BY <1>5 DEF SameBut, Changed, SameRequest
<1>7. svr_http_final_aio(t, p) = svr_http_final(u, p)
  <2>1. t.conn[t.pkg[p].cpn] # "CLOSING"
    BY <1>4, <1>6 DEF Writable
  <2>2. QED
    BY <1>6, <2>1 DEF svr_http_final_aio, StopRead
<1>8. /\ SameBut(b, a, {"conn"}) /\ Stopped(s.conn, a.conn, cn)
      /\ SameBut(t, u, {"conn"}) /\ Stopped(s.conn, u.conn, cn)
      /\ s.conn[cn] = "CLOSING_W" => u.conn[cn] = "CLOSING"
  BY <1>3, <1>5, <1>6, StopReadFields
<1>9. a.conn = u.conn
  BY <1>5, <1>6 DEF StopRead, IsState
<1> HIDE DEF a, u
<1>10. Ready(a, {p})
  <2>1. SameBut(s, a, {"conn", "pending"}) /\ a.pending = s.pending \ {Callback(h, p)}
    BY <1>5, <1>8 DEF SameBut
  <2>2. \A k \in DOMAIN s.cache : k[2] # -1 => ~Uses(s.pkg[p], k)
    BY <1>4 DEF Uses
  <2>3. QED
    BY <1>2, <1>8, <2>1, <2>2, BeginReady
<1>11. a.pkg = b.pkg /\ u.pkg = t.pkg
  BY <1>8 DEF SameBut
<1>12. SameBut(a, u, {"pkg"})
  BY <1>5, <1>8, <1>9 DEF SameBut
<1>13. Touched(a.pkg, u.pkg, p)
  <2>1. Touched(b.pkg, t.pkg, p)
    BY <1>5, ChangedTouches
  <2>2. QED
    BY <1>11, <2>1
<1>14. Ready(u, {p})
  BY <1>10, <1>12, <1>13, TouchedReady
<1>15. u.pkg[p].ppg = NULL
  BY <1>4, <1>5, <1>11 DEF Changed, SameRequest
<1>16. Ready(svr_http_final(u, p), {p} \ {p})
  BY <1>14, <1>15, FinalKeeps
<1>17. Follows(s, u, p)
  <2>1. /\ DOMAIN u.pkg = DOMAIN s.pkg /\ u.pkg[p].cpn = cn /\ u.pkg[p].ppg = s.pkg[p].ppg
        /\ u.pkg[p].uri = s.pkg[p].uri
        /\ \A q \in DOMAIN s.pkg : q # p => u.pkg[q] = s.pkg[q]
    BY <1>5, <1>11 DEF Changed, SameRequest
  <2>2. u.cache = s.cache
    BY <1>5, <1>8 DEF SameBut
  <2>3. \A x \in DOMAIN s.conn : x # cn => u.conn[x] = s.conn[x]
    BY <1>8 DEF Stopped
  <2>4. BrokenIn(s.conn, cn) => BrokenIn(u.conn, cn)
    BY <1>4, <1>8 DEF BrokenIn, Writable
  <2>5. QED
    BY <2>1, <2>2, <2>3, <2>4 DEF Follows, SameAnswer
<1>18. Leads(s, svr_http_final(u, p), p)
  BY <1>4, <1>14, <1>17 DEF Leads
<1>19. QED
  BY <1>7, <1>16, <1>18

\* The write of a header or of a block fails: its reference is returned.
LEMMA WriteFails ==
  ASSUME NEW s, Ready(s, {}), NEW h, NEW p, Callback(h, p) \in s.pending,
         h # "svr_http_body_pio", s.pkg[p].ppg # NULL,
         s.conn[s.pkg[p].cpn] = "CONNECTED",
         NEW k \in Plain \X (Nat \cup {-1}), Uses(s.pkg[p], k)
  PROVE  LET r == svr_http_final(doneWith(StopWrite(Begun(s, h, p), s.pkg[p].cpn), k), p) IN
         Ready(r, {}) /\ Leads(s, r, p)
<1> DEFINE cn == s.pkg[p].cpn
           b == Begun(s, h, p)
           a == StopWrite(b, cn)
           r == doneWith(a, k)
<1>1. IsState(s) /\ cn \in DOMAIN s.conn
  BY CallbackFacts
<1>2. /\ SameBut(s, b, {"pending"}) /\ b.pending = s.pending \ {Callback(h, p)}
      /\ b.conn = s.conn
  BY <1>1, BegunFields
<1> HIDE DEF b
<1>3. IsState(b)
  BY <1>2 DEF SameBut
<1>4. /\ SameBut(b, a, {"conn"}) /\ Stopped(s.conn, a.conn, cn) /\ a.conn[cn] = "CLOSING_W"
  BY <1>1, <1>2, <1>3, StopWriteFields
<1> HIDE DEF a
<1>5. /\ SameBut(s, a, {"conn", "pending"}) /\ a.pending = s.pending \ {Callback(h, p)}
      /\ a.pkg = s.pkg
  BY <1>2, <1>4 DEF SameBut
<1>6. /\ Ready(r, {p}) /\ SameBut(a, r, {"cache"})
      /\ StatusKept(s.cache, r.cache)
  BY <1>4, <1>5, ReturnReady
<1> HIDE DEF r
<1>7. Writable(r.conn, r.pkg[p])
  BY <1>4, <1>5, <1>6 DEF SameBut, Writable
<1>8. Ready(svr_http_final(r, p), {p} \ {p})
  BY <1>6, <1>7, FinalKeeps
<1>9. Follows(s, r, p) /\ Over(s.pkg[p], r.conn, r.cache)
  <2>1. r.pkg = s.pkg /\ r.conn = a.conn
    BY <1>5, <1>6 DEF SameBut
  <2>2. Lost(s.cache) \subseteq Lost(r.cache)
    BY <1>6, LostKept DEF StatusKept
  <2>3. BrokenIn(r.conn, cn) /\ \A x \in DOMAIN s.conn : x # cn => r.conn[x] = s.conn[x]
    BY <1>4, <2>1 DEF BrokenIn, Stopped
  <2>4. QED
    BY <2>1, <2>2, <2>3 DEF Follows, Over, SameAnswer
<1>10. Leads(s, svr_http_final(r, p), p)
  BY <1>6, <1>9 DEF Leads
<1>11. QED
  BY <1>8, <1>10 DEF r, a, b

LEMMA HeaderWriteFails ==
  ASSUME NEW s, Ready(s, {}), NEW h, h = "svr_http_header_to_body_aio", NEW p,
         Callback(h, p) \in s.pending
  PROVE  /\ Ready(svr_http_final_aio(Begun(s, h, p), p), {})
         /\ Leads(s, svr_http_final_aio(Begun(s, h, p), p), p)
<1> DEFINE pk == s.pkg[p]
           k == Header(pk.uri)
           b == Begun(s, h, p)
<1>1. IsState(s) /\ Phase(s.conn, s.cache, h, p, pk)
  BY CallbackFacts
<1>2. /\ pk.ppg # NULL /\ s.conn[pk.cpn] = "CONNECTED" /\ pk.uri \in Plain
      /\ pk.hst = "WRITING" /\ pk.wst = "HEAD" /\ pk.headkey /\ k = HeadKey(pk.uri)
  BY <1>1, PlainKeys DEF Phase
<1>3. b.conn = s.conn /\ b.pkg = s.pkg
  BY <1>1, BegunFields
<1> HIDE DEF b
<1>4. svr_http_final_aio(b, p) = svr_http_final(doneWith(StopWrite(b, pk.cpn), k), p)
  BY <1>2, <1>3 DEF svr_http_final_aio, StopWrite
<1>5. k \in Plain \X (Nat \cup {-1}) /\ k[1] = pk.uri /\ k[2] = -1
  BY <1>2 DEF Header
<1>6. Uses(pk, k)
  BY <1>2, <1>5 DEF Uses
<1> HIDE DEF k
<1>7. h # "svr_http_body_pio"
  OBVIOUS
<1>8. LET r == svr_http_final(doneWith(StopWrite(Begun(s, h, p), s.pkg[p].cpn), k), p) IN
      Ready(r, {}) /\ Leads(s, r, p)
  BY <1>2, <1>5, <1>6, <1>7, WriteFails
<1>9. QED
  BY <1>4, <1>8 DEF b

LEMMA BlockWriteFails ==
  ASSUME NEW s, Ready(s, {}), NEW h, h = "svr_http_body_rio", NEW p,
         Callback(h, p) \in s.pending, WritingBlock(s.cache, s.pkg[p])
  PROVE  /\ Ready(svr_http_final_aio(Begun(s, h, p), p), {})
         /\ Leads(s, svr_http_final_aio(Begun(s, h, p), p), p)
<1> DEFINE pk == s.pkg[p]
           k == BlockOf(pk)
           b == Begun(s, h, p)
<1>1. IsState(s) /\ Phase(s.conn, s.cache, h, p, pk) /\ pk \in Package
  BY CallbackFacts
<1>2. /\ pk.ppg # NULL /\ s.conn[pk.cpn] = "CONNECTED" /\ pk.uri \in Plain
      /\ pk.hst = "WRITING" /\ pk.wst = "BODY" /\ pk.bodykey = pk.tr_offset
      /\ k = BodyKey(pk.uri, pk.bodykey)
  BY <1>1, PlainKeys DEF Phase, WritingBlock, BlockOf
<1>3. pk.bodykey \in Nat /\ pk.bodykey # -1
  BY <1>1, <1>2 DEF Package
<1>4. b.conn = s.conn /\ b.pkg = s.pkg
  BY <1>1, BegunFields
<1> HIDE DEF b
<1>5. svr_http_final_aio(b, p) = svr_http_final(doneWith(StopWrite(b, pk.cpn), k), p)
  BY <1>2, <1>3, <1>4 DEF svr_http_final_aio, StopWrite, BlockOf
<1>6. k \in Plain \X (Nat \cup {-1}) /\ k[1] = pk.uri /\ k[2] = pk.bodykey
  BY <1>2, <1>3 DEF BlockOf, Block
<1>7. Uses(pk, k)
  BY <1>2, <1>3, <1>6 DEF Uses
<1> HIDE DEF k
<1>8. h # "svr_http_body_pio"
  OBVIOUS
<1>9. LET r == svr_http_final(doneWith(StopWrite(Begun(s, h, p), s.pkg[p].cpn), k), p) IN
      Ready(r, {}) /\ Leads(s, r, p)
  BY <1>2, <1>6, <1>7, <1>8, WriteFails
<1>10. QED
  BY <1>5, <1>9 DEF b

\* The one assertion that can fail: the answer to a bad request has no header key.
LEMMA BadRequestFails ==
  ASSUME NEW s, Ready(s, {}), NEW h, h = "svr_http_body_rio", NEW p,
         Callback(h, p) \in s.pending, Answering400(s.pkg[p])
  PROVE  LET r == svr_http_final_aio(Begun(s, h, p), p) IN
         /\ Outcome(r) /\ r.pkg = s.pkg /\ r.cache = s.cache
         /\ Stopped(s.conn, r.conn, s.pkg[p].cpn) /\ BrokenIn(r.conn, s.pkg[p].cpn)
<1> DEFINE pk == s.pkg[p]
           b == Begun(s, h, p)
           a == StopWrite(b, pk.cpn)
           r == Fail(a, "headkey")
<1>1. /\ IsState(s) /\ Phase(s.conn, s.cache, h, p, pk) /\ pk.cpn \in DOMAIN s.conn
      /\ p \in DOMAIN s.pkg
  BY CallbackFacts
<1>2. /\ s.conn[pk.cpn] = "CONNECTED" /\ pk.hst = "WRITING" /\ pk.wst = "HEAD"
      /\ ~pk.headkey /\ pk.uri = BadGet /\ pk.hsn = 400
  BY <1>1 DEF Phase, Answering400
<1>3. /\ SameBut(s, b, {"pending"}) /\ b.pending = s.pending \ {Callback(h, p)}
      /\ b.conn = s.conn /\ b.pkg = s.pkg
  BY <1>1, BegunFields
<1> HIDE DEF b
<1>4. svr_http_final_aio(b, p) = r
  BY <1>2, <1>3 DEF svr_http_final_aio, StopWrite
<1>5. IsState(b)
  BY <1>3 DEF SameBut
<1>6. SameBut(b, a, {"conn"}) /\ Stopped(s.conn, a.conn, pk.cpn) /\ a.conn[pk.cpn] = "CLOSING_W"
  BY <1>1, <1>2, <1>3, <1>5, StopWriteFields
<1> HIDE DEF a
<1>7. IsState(a) /\ a.abort = "none"
  BY <1>3, <1>6, ReadyParts DEF SameBut
<1>8. SameBut(a, r, {"abort"}) /\ r.abort = "headkey"
  BY <1>7, FailFields
<1> HIDE DEF r
<1>9. /\ IsState(r) /\ r.conn = a.conn /\ r.nc = s.nc /\ r.pkg = s.pkg
      /\ r.pending = s.pending \ {Callback(h, p)} /\ r.cache = s.cache
  BY <1>3, <1>6, <1>8 DEF SameBut
<1>10. Types(r.conn, r.nc, r.pkg, r.pending, r.cache)
  <2>1. Types(s.conn, s.nc, s.pkg, s.pending, s.cache)
    BY ReadyParts
  <2>2. DOMAIN r.conn = DOMAIN s.conn
        /\ \A c \in DOMAIN r.conn : r.conn[c] \in {"CONNECTED", "CLOSING_R", "CLOSING_W", "CLOSING"}
    BY <1>6, <1>9, <2>1 DEF Stopped, Types
  <2>3. QED
    BY <1>9, <2>1, <2>2 DEF Types
<1>11. Linked(r.conn, r.pkg)
  <2>1. Linked(s.conn, s.pkg) /\ DOMAIN r.conn = DOMAIN s.conn
    BY <1>6, <1>9, ReadyParts DEF Stopped
  <2>2. \A q \in DOMAIN s.pkg : LinksOf(s.conn, s.pkg, q) => LinksOf(r.conn, s.pkg, q)
    BY <2>1 DEF LinksOf
  <2>3. QED
    BY <1>9, <2>1, <2>2 DEF Linked
<1>12. Outcome(r)
  BY <1>1, <1>2, <1>8, <1>9, <1>10, <1>11 DEF Outcome
<1>13. BrokenIn(r.conn, pk.cpn)
  BY <1>6, <1>9 DEF BrokenIn
<1>14. QED
  BY <1>4, <1>6, <1>9, <1>12, <1>13 DEF b

(***************************************************************************)
(* Addresses of new packages and connections                               *)
(***************************************************************************)

LEMMA FreeSets ==
  ASSUME NEW N \in Nat, NEW used \in SUBSET (1 .. N)
  PROVE  /\ IsFiniteSet((1 .. N) \ used)
         /\ Cardinality((1 .. N) \ used) = N - Cardinality(used)
         /\ Cardinality(used) \in Nat
         /\ \A S \in SUBSET ((1 .. N) \ used) : IsFiniteSet(S) /\ Cardinality(S) \in Nat
<1>1. IsFiniteSet(1 .. N) /\ Cardinality(1 .. N) = N
  BY FS_Interval
<1>2. IsFiniteSet(used) /\ Cardinality(used) \in Nat
  BY <1>1, FS_Subset, FS_CardinalityType
<1>3. IsFiniteSet((1 .. N) \ used)
  BY <1>1, FS_Subset
<1>4. Cardinality((1 .. N) \ used) = N - Cardinality(used)
  <2>1. (1 .. N) \cap used = used
    OBVIOUS
  <2>2. Cardinality((1 .. N) \ used) = Cardinality(1 .. N) - Cardinality((1 .. N) \cap used)
    BY <1>1, FS_Difference
  <2>3. QED
    BY <1>1, <2>1, <2>2
<1>5. \A S \in SUBSET ((1 .. N) \ used) : IsFiniteSet(S) /\ Cardinality(S) \in Nat
  BY <1>3, FS_Subset, FS_CardinalityType
<1>6. QED
  BY <1>2, <1>3, <1>4, <1>5

Below(F, a) == {b \in F : b < a}

\* The i-th free address exists when that many are free.
LEMMA IthExists ==
  ASSUME NEW N \in Nat, NEW F \in SUBSET (1 .. N), NEW i \in Nat \ {0}, i <= Cardinality(F)
  PROVE  \E a \in F : Cardinality(Below(F, a)) = i - 1
<1> DEFINE T == {a \in 1 .. N + 1 : Cardinality(Below(F, a)) >= i}
<1>a. \A b \in F : b \in Nat /\ 1 <= b /\ b <= N
  OBVIOUS
<1>1. IsFiniteSet(F) /\ \A S \in SUBSET F : IsFiniteSet(S) /\ Cardinality(S) \in Nat
  <2>1. IsFiniteSet(1 .. N)
    BY FS_Interval
  <2>2. QED
    BY <2>1, FS_Subset, FS_CardinalityType
<1>2. \A a : Below(F, a) \in SUBSET F
  BY DEF Below
<1>3. N + 1 \in T
  <2>1. Below(F, N + 1) = F
    <3>1. \A b \in F : b < N + 1
      BY <1>a
    <3>2. QED
      BY <3>1 DEF Below
  <2>2. QED
    BY <2>1
<1>4. T \in SUBSET Nat /\ T # {}
  BY <1>3
<1>5. PICK x \in T : \A y \in T : x <= y
  BY <1>4, LeastNatural
<1>6. x \in 1 .. N + 1 /\ Cardinality(Below(F, x)) >= i /\ Cardinality(Below(F, x)) \in Nat
  BY <1>1, <1>2, <1>5
<1>7. x # 1
  <2>1. Below(F, 1) = {}
    <3>1. \A b \in F : ~(b < 1)
      BY <1>a
    <3>2. QED
      BY <3>1 DEF Below
  <2>2. Cardinality(Below(F, 1)) = 0
    BY <2>1, FS_EmptySet
  <2>3. QED
    BY <1>6, <2>2
<1> DEFINE y == x - 1
<1>8. y \in 1 .. N + 1 /\ ~(x <= y)
  BY <1>6, <1>7
<1>9. ~(Cardinality(Below(F, y)) >= i) /\ Cardinality(Below(F, y)) \in Nat
  <2>1. y \notin T
    BY <1>5, <1>8
  <2>2. Cardinality(Below(F, y)) \in Nat
    BY <1>1, <1>2
  <2>3. QED
    BY <1>8, <2>1, <2>2
<1>10. y \in F /\ Cardinality(Below(F, x)) = Cardinality(Below(F, y)) + 1
  <2>1. CASE y \in F
    <3>1. Below(F, x) = Below(F, y) \cup {y} /\ y \notin Below(F, y)
      <4>1. \A b \in F : b < x <=> b < y \/ b = y
        BY <1>a, <1>6
      <4>2. ~(y < y)
        BY <1>8
      <4> HIDE DEF y
      <4>3. QED
        BY <2>1, <4>1, <4>2 DEF Below
    <3>2. IsFiniteSet(Below(F, y))
      BY <1>1, <1>2
    <3> HIDE DEF y
    <3>3. QED
      BY <2>1, <3>1, <3>2, AddOne
  <2>2. CASE y \notin F
    <3>1. Below(F, x) = Below(F, y)
      <4>1. \A b \in F : b < x <=> b < y \/ b = y
        BY <1>a, <1>6
      <4> HIDE DEF y
      <4>2. QED
        BY <2>2, <4>1 DEF Below
    <3>2. QED
      BY <1>6, <1>9, <3>1
  <2>3. QED
    BY <2>1, <2>2
<1> HIDE DEF y
<1>11. Cardinality(Below(F, y)) = i - 1
  BY <1>6, <1>9, <1>10
<1>12. QED
  BY <1>10, <1>11

\* Objects that are allocated together get increasing addresses.
LEMMA AddressesIncrease ==
  ASSUME NEW N \in Nat, NEW used \in SUBSET (1 .. N), NEW n \in Nat,
         Cardinality(used) + n <= N
  PROVE  /\ \A i \in 1 .. n : Address(i, 1 .. N, used) \in (1 .. N) \ used
         /\ \A i, j \in 1 .. n : i < j => Address(i, 1 .. N, used) < Address(j, 1 .. N, used)
<1> DEFINE F == (1 .. N) \ used
           addr(i) == Address(i, 1 .. N, used)
<1>1. /\ F \in SUBSET (1 .. N) /\ Cardinality(F) = N - Cardinality(used)
      /\ Cardinality(used) \in Nat /\ IsFiniteSet(F)
      /\ \A S \in SUBSET F : IsFiniteSet(S) /\ Cardinality(S) \in Nat
  BY FreeSets
<1>2. \A a : Below(F, a) \in SUBSET F
  BY DEF Below
<1>3. ASSUME NEW i \in 1 .. n
      PROVE  addr(i) \in F /\ Cardinality(Below(F, addr(i))) = i - 1
  <2>1. i \in Nat \ {0} /\ i <= Cardinality(F)
    BY <1>1
  <2>2. \E a \in F : Cardinality(Below(F, a)) = i - 1
    <3> HIDE DEF F
    <3>1. QED
      BY <1>1, <2>1, IthExists
  <2>3. addr(i) = CHOOSE a \in F : Cardinality(Below(F, a)) = i - 1
    BY DEF Address, Below
  <2> HIDE DEF addr, F
  <2>4. QED
    BY <2>2, <2>3
<1> HIDE DEF addr, F
<1>4. ASSUME NEW i \in 1 .. n, NEW j \in 1 .. n, i < j
      PROVE  addr(i) < addr(j)
  <2>1. SUFFICES ASSUME ~(addr(i) < addr(j)) PROVE FALSE
    OBVIOUS
  <2>2. addr(i) \in Nat /\ addr(j) \in Nat /\ F \subseteq Nat
    <3>1. F \subseteq Nat
      BY DEF F
    <3>2. QED
      BY <1>3, <3>1
  <2>3. Below(F, addr(j)) \in SUBSET Below(F, addr(i))
    <3>1. addr(j) <= addr(i)
      BY <2>1, <2>2
    <3>2. \A b \in F : b < addr(j) => b < addr(i)
      BY <2>2, <3>1
    <3>3. QED
      BY <3>2 DEF Below
  <2>4. IsFiniteSet(Below(F, addr(i)))
    BY <1>1, <1>2
  <2>5. Cardinality(Below(F, addr(j))) <= Cardinality(Below(F, addr(i)))
    BY <2>3, <2>4, FS_Subset
  <2>6. QED
    BY <1>3, <1>4, <2>5
<1>5. QED
  BY <1>3, <1>4 DEF addr, F

LEMMA ImageBound ==
  ASSUME NEW n \in Nat, NEW f, DOMAIN f = 1 .. n
  PROVE  LET T == {f[i] : i \in 1 .. n} IN
         IsFiniteSet(T) /\ Cardinality(T) <= n /\ Cardinality(T) \in Nat
<1> DEFINE T == {f[i] : i \in 1 .. n}
           g == [i \in 1 .. n |-> f[i]]
<1>1. IsFiniteSet(1 .. n) /\ Cardinality(1 .. n) = n
  BY FS_Interval
<1>2. g \in Surjection(1 .. n, T)
  BY DEF Surjection
<1> HIDE DEF T, g
<1>3. IsFiniteSet(T) /\ Cardinality(T) <= n
  BY <1>1, <1>2, FS_Surjection
<1>4. QED
  BY <1>3, FS_CardinalityType DEF T

(***************************************************************************)
(* There is always room: a connection has at most MaxPipeline children     *)
(***************************************************************************)

Elsewhere(ps, cn, m) == {q \in DOMAIN ps : ps[q].cpn # cn /\ ps[q].cpn <= m}

LEMMA TimesNext ==
  ASSUME NEW x \in Nat, NEW y \in Nat
  PROVE  (x + 1) * y = x * y + y /\ x * y \in Nat
OBVIOUS

LEMMA Room ==
  ASSUME NEW s, NEW R, Ready(s, R), NEW cn \in 1 .. MaxConns
  PROVE  /\ Cardinality(DOMAIN s.pkg \ PackagesIn(s.pkg, cn)) <= MaxACCEPT * (MaxPipeline + 1)
         /\ MaxPkgs = MaxACCEPT * (MaxPipeline + 1) + (MaxPipeline + 1)
         /\ MaxACCEPT * (MaxPipeline + 1) \in Nat
<1> DEFINE ps == s.pkg
           w == MaxPipeline + 1
           bound(m) == IF m < cn THEN m ELSE m - 1
           S == {m \in 0 .. MaxConns : Cardinality(Elsewhere(ps, cn, m)) <= bound(m) * w}
<1>1. /\ Addresses(ps) /\ Types(s.conn, s.nc, ps, s.pending, s.cache) /\ Linked(s.conn, ps)
      /\ Sizes(s.conn, s.nc, ps)
  BY ReadyParts
<1>2. w \in Nat /\ MaxACCEPT \in Nat /\ MaxConns = MaxACCEPT + 1 /\ MaxConns \in Nat
  BY BoundAssumption DEF MaxConns
<1>3. \A q \in DOMAIN ps : ps[q].cpn \in 1 .. MaxConns /\ ps[q].cpn \in DOMAIN s.conn
  BY <1>1 DEF Linked, LinksOf, Types
<1>4. \A A \in SUBSET DOMAIN ps : IsFiniteSet(A) /\ Cardinality(A) \in Nat
  BY <1>1, AddressSetsFinite
<1>5. 0 \in S
  <2>1. Elsewhere(ps, cn, 0) = {}
    BY <1>2, <1>3 DEF Elsewhere
  <2>2. Cardinality(Elsewhere(ps, cn, 0)) = 0
    BY <2>1, FS_EmptySet
  <2>3. bound(0) = 0 /\ 0 * w = 0
    BY <1>2
  <2>4. QED
    BY <1>2, <2>2, <2>3
<1>6. ASSUME NEW m \in 1 .. MaxConns, m - 1 \in S PROVE m \in S
  <2> DEFINE A == Elsewhere(ps, cn, m - 1)
             B == PackagesIn(ps, m)
  <2>1. Cardinality(A) <= bound(m - 1) * w /\ Cardinality(A) \in Nat /\ IsFiniteSet(A)
    BY <1>4, <1>6 DEF Elsewhere
  <2>2. Cardinality(B) <= w /\ Cardinality(B) \in Nat /\ IsFiniteSet(B)
    <3>1. Cardinality(B) \in Nat /\ IsFiniteSet(B)
      BY <1>4 DEF PackagesIn
    <3>2. CASE m \in DOMAIN s.conn
      BY <1>1, <3>1, <3>2 DEF Sizes
    <3>3. CASE m \notin DOMAIN s.conn
      <4>1. B = {}
        BY <1>3, <3>3 DEF PackagesIn
      <4>2. Cardinality(B) = 0
        BY <4>1, FS_EmptySet
      <4>3. QED
        BY <1>2, <3>1, <4>2
    <3>4. QED
      BY <3>2, <3>3
  <2>3. CASE m = cn
    <3>1. Elsewhere(ps, cn, m) = A
      BY <1>2, <1>3, <2>3 DEF Elsewhere
    <3>2. bound(m) = bound(m - 1)
      BY <1>2, <2>3
    <3>3. QED
      BY <2>1, <3>1, <3>2
  <2>4. CASE m # cn
    <3>1. Elsewhere(ps, cn, m) = A \cup B /\ A \cap B = {}
      BY <1>2, <1>3, <2>4 DEF Elsewhere, PackagesIn
    <3>2. bound(m) = bound(m - 1) + 1 /\ bound(m - 1) \in Nat
      BY <1>2, <2>4
    <3> HIDE DEF A, B, bound, w, S
    <3>3. Cardinality(A \cup B) = Cardinality(A) + Cardinality(B)
      <4>1. Cardinality(A \cup B) = Cardinality(A) + Cardinality(B) - Cardinality(A \cap B)
        BY <2>1, <2>2, FS_Union
      <4>2. Cardinality(A \cap B) = 0
        BY <3>1, FS_EmptySet
      <4>3. QED
        BY <2>1, <2>2, <4>1, <4>2
    <3>4. bound(m) * w = bound(m - 1) * w + w /\ bound(m - 1) * w \in Nat
      BY <1>2, <3>2, TimesNext
    <3>5. Cardinality(Elsewhere(ps, cn, m)) <= bound(m) * w
      BY <1>2, <2>1, <2>2, <3>1, <3>3, <3>4
    <3>6. QED
      BY <3>5 DEF S
  <2>5. QED
    BY <2>3, <2>4
<1> HIDE DEF S
<1>7. 0 .. MaxConns \subseteq S
  BY <1>2, <1>5, <1>6, Induction
<1>8. Cardinality(Elsewhere(ps, cn, MaxConns)) <= bound(MaxConns) * w
  BY <1>2, <1>7 DEF S
<1>9. bound(MaxConns) = MaxACCEPT
  BY <1>2
<1>10. Elsewhere(ps, cn, MaxConns) = DOMAIN ps \ PackagesIn(ps, cn)
  BY <1>2, <1>3 DEF Elsewhere, PackagesIn
<1>11. MaxPkgs = MaxACCEPT * w + w /\ MaxACCEPT * w \in Nat
  <2>1. MaxPkgs = (MaxACCEPT + 1) * w
    BY DEF MaxPkgs
  <2> HIDE DEF w
  <2>2. QED
    BY <1>2, <2>1, TimesNext
<1>12. QED
  BY <1>8, <1>9, <1>10, <1>11

-----------------------------------------------------------------------------
(***************************************************************************)
(* The sessions.  The children of a connection are in the order of their   *)
(* addresses, so what a client sees is a function of the set of packages   *)
(* (View), and no handler needs an argument about lists.                   *)
(***************************************************************************)

\* The i-th member of a set of addresses.
Ith(K, i) == CHOOSE a \in K : Cardinality(Below(K, a)) = i - 1

Shown(todo, status, head, sent, broken) ==
    [todo |-> todo, status |-> status, head |-> head, sent |-> sent, broken |-> broken]

Nothing == Shown(<<>>, -1, 0, 0, FALSE)

Kids(ps, cn) == {p \in PackagesIn(ps, cn) : ps[p].ppg # NULL}

Todo(ps, cn) == [i \in 1 .. Cardinality(Kids(ps, cn)) |-> ps[Ith(Kids(ps, cn), i)].uri]

View(cs, ps, cn) ==
    IF PackagesIn(ps, cn) = {}
       THEN Nothing
       ELSE IF Kids(ps, cn) = {}
               THEN Shown(<<>>, 0, 0, 0, BrokenIn(cs, cn))
               ELSE Shown(Todo(ps, cn), ps[Ith(Kids(ps, cn), 1)].hsn,
                          ps[Ith(Kids(ps, cn), 1)].hsent,
                          ps[Ith(Kids(ps, cn), 1)].tr_offset, BrokenIn(cs, cn))

\* The sets that members of a set of addresses divide it into.
LEMMA BelowFacts ==
  ASSUME NEW N \in Nat, NEW K \in SUBSET (1 .. N)
  PROVE  /\ IsFiniteSet(K) /\ Cardinality(K) \in Nat
         /\ \A a : IsFiniteSet(Below(K, a)) /\ Cardinality(Below(K, a)) \in Nat
         /\ \A a, b \in K : a < b => Cardinality(Below(K, a)) < Cardinality(Below(K, b))
         /\ \A a, b \in K : Cardinality(Below(K, a)) = Cardinality(Below(K, b)) => a = b
<1>1. \A S \in SUBSET (1 .. N) : IsFiniteSet(S) /\ Cardinality(S) \in Nat
  <2>1. IsFiniteSet(1 .. N)
    BY FS_Interval
  <2>2. QED
    BY <2>1, FS_Subset, FS_CardinalityType
<1>2. \A a : Below(K, a) \in SUBSET (1 .. N)
  BY DEF Below
<1>3. ASSUME NEW a \in K, NEW b \in K, a < b
      PROVE  Cardinality(Below(K, a)) < Cardinality(Below(K, b))
  <2>1. a \in Nat /\ b \in Nat /\ \A c \in K : c \in Nat
    OBVIOUS
  <2>2. a \in Below(K, b) /\ a \notin Below(K, a) /\ Below(K, a) \subseteq Below(K, b)
    <3>1. \A c \in K : c < a => c < b
      BY <1>3, <2>1
    <3>2. ~(a < a)
      BY <2>1
    <3>3. QED
      BY <1>3, <3>1, <3>2 DEF Below
  <2>3. Below(K, a) # Below(K, b)
    BY <2>2
  <2>4. IsFiniteSet(Below(K, b)) /\ Cardinality(Below(K, b)) \in Nat
        /\ Cardinality(Below(K, a)) \in Nat
    BY <1>1, <1>2
  <2>5. /\ Cardinality(Below(K, a)) <= Cardinality(Below(K, b))
        /\ Cardinality(Below(K, a)) = Cardinality(Below(K, b)) => Below(K, a) = Below(K, b)
    BY <2>2, <2>4, FS_Subset
  <2>6. QED
    BY <2>3, <2>4, <2>5
<1>4. ASSUME NEW a \in K, NEW b \in K, Cardinality(Below(K, a)) = Cardinality(Below(K, b))
      PROVE  a = b
  <2>1. Cardinality(Below(K, a)) \in Nat /\ a \in Nat /\ b \in Nat
    BY <1>1, <1>2
  <2>2. ~(a < b) /\ ~(b < a)
    BY <1>3, <1>4, <2>1
  <2>3. QED
    BY <2>1, <2>2
<1>5. QED
  BY <1>1, <1>2, <1>3, <1>4

LEMMA IthIs ==
  ASSUME NEW N \in Nat, NEW K \in SUBSET (1 .. N), NEW i, NEW a \in K,
         Cardinality(Below(K, a)) = i - 1
  PROVE  Ith(K, i) = a
<1>1. \A b \in K : Cardinality(Below(K, b)) = i - 1 => b = a
  BY BelowFacts
<1>2. Ith(K, i) \in K /\ Cardinality(Below(K, Ith(K, i))) = i - 1
  BY DEF Ith
<1>3. QED
  BY <1>1, <1>2

LEMMA IthFacts ==
  ASSUME NEW N \in Nat, NEW K \in SUBSET (1 .. N), NEW i \in 1 .. Cardinality(K)
  PROVE  Ith(K, i) \in K /\ Cardinality(Below(K, Ith(K, i))) = i - 1
<1>1. Cardinality(K) \in Nat
  BY BelowFacts
<1>2. i \in Nat \ {0} /\ i <= Cardinality(K)
  BY <1>1
<1>3. \E a \in K : Cardinality(Below(K, a)) = i - 1
  BY <1>2, IthExists
<1>4. QED
  BY <1>3 DEF Ith

\* Without its least member, a set of addresses begins at its second.
LEMMA IthOfRest ==
  ASSUME NEW N \in Nat, NEW K \in SUBSET (1 .. N), NEW a \in K, \A b \in K : a <= b,
         NEW i \in 1 .. Cardinality(K) - 1
  PROVE  Ith(K \ {a}, i) = Ith(K, i + 1)
<1> DEFINE b == Ith(K, i + 1)
<1>1. Cardinality(K) \in Nat /\ i + 1 \in 1 .. Cardinality(K) /\ i \in Nat /\ i >= 1
  <2>1. Cardinality(K) \in Nat
    BY BelowFacts
  <2>2. QED
    BY <2>1
<1>2. b \in K /\ Cardinality(Below(K, b)) = (i + 1) - 1
  BY <1>1, IthFacts
<1>3. Cardinality(Below(K, a)) = 0
  <2>1. \A c \in K : ~(c < a)
    OBVIOUS
  <2>2. Below(K, a) = {}
    BY <2>1 DEF Below
  <2>3. QED
    BY <2>2, FS_EmptySet
<1> HIDE DEF b
<1>4. b # a
  BY <1>1, <1>2, <1>3
<1>5. a \in Below(K, b) /\ Below(K \ {a}, b) = Below(K, b) \ {a}
  <2>1. a < b
    <3>1. a <= b /\ a \in Nat /\ b \in Nat
      BY <1>2
    <3>2. QED
      BY <1>4, <3>1
  <2>2. QED
    BY <2>1 DEF Below
<1>6. Cardinality(Below(K \ {a}, b)) = i - 1
  <2>1. IsFiniteSet(Below(K, b))
    BY BelowFacts
  <2>2. Cardinality(Below(K, b) \ {a}) = Cardinality(Below(K, b)) - 1
    BY <1>5, <2>1, RemoveOne
  <2>3. (i + 1) - 1 = i
    BY <1>1
  <2>4. Cardinality(Below(K \ {a}, b)) = Cardinality(Below(K, b) \ {a})
    BY <1>5
  <2>5. QED
    BY <1>2, <2>2, <2>3, <2>4
<1>7. b \in K \ {a} /\ K \ {a} \in SUBSET (1 .. N)
  BY <1>2, <1>4
<1>8. Ith(K \ {a}, i) = b
  BY <1>6, <1>7, IthIs
<1>9. QED
  BY <1>8 DEF b

\* The children of a connection are the children of one root.
LEMMA KidsFacts ==
  ASSUME NEW cs, NEW ps, Addresses(ps), Linked(cs, ps), NEW cn
  PROVE  /\ Kids(ps, cn) \in SUBSET (1 .. MaxPkgs) /\ MaxPkgs \in Nat
         /\ Kids(ps, cn) \subseteq DOMAIN ps
         /\ \A p, q \in Kids(ps, cn) : Siblings(ps, p, q)
         /\ \A p \in Kids(ps, cn), q \in DOMAIN ps : ps[q].nsg = p => q \in Kids(ps, cn)
         /\ \A p \in Kids(ps, cn) : ps[p].nsg # NULL => ps[p].nsg \in Kids(ps, cn) /\ ps[p].nsg > p
<1>1. Kids(ps, cn) \subseteq DOMAIN ps /\ DOMAIN ps \subseteq 1 .. MaxPkgs
  BY DEF Kids, PackagesIn, Addresses
<1>2. ASSUME NEW p \in Kids(ps, cn)
      PROVE  /\ p \in DOMAIN ps /\ ps[p].cpn = cn /\ ps[p].ppg # NULL /\ LinksOf(cs, ps, p)
             /\ ps[p].ppg \in DOMAIN ps /\ ps[ps[p].ppg].ppg = NULL /\ ps[ps[p].ppg].cpn = cn
  BY DEF Kids, PackagesIn, Linked, LinksOf
<1>3. ASSUME NEW p \in Kids(ps, cn), NEW q \in Kids(ps, cn)
      PROVE  Siblings(ps, p, q)
  <2>1. ps[p].ppg = ps[q].ppg
    BY <1>2 DEF Linked
  <2>2. QED
    BY <1>2, <2>1 DEF Siblings
<1>4. ASSUME NEW p \in Kids(ps, cn), NEW q \in DOMAIN ps, ps[q].nsg = p
      PROVE  q \in Kids(ps, cn)
  <2>1. p # NULL
    BY <1>1 DEF NULL
  <2>2. LinksOf(cs, ps, q) /\ ps[p].ppg = ps[q].ppg
    BY <1>4, <2>1 DEF Linked, LinksOf
  <2>3. ps[q].ppg # NULL /\ ps[ps[q].ppg].cpn = ps[q].cpn
    BY <1>2, <2>2 DEF LinksOf
  <2>4. ps[q].cpn = cn
    BY <1>2, <2>2, <2>3
  <2>5. QED
    BY <2>3, <2>4 DEF Kids, PackagesIn
<1>5. ASSUME NEW p \in Kids(ps, cn), ps[p].nsg # NULL
      PROVE  ps[p].nsg \in Kids(ps, cn) /\ ps[p].nsg > p
  <2> DEFINE q == ps[p].nsg
  <2>1. q \in DOMAIN ps /\ q > p /\ ps[q].ppg = ps[p].ppg
    BY <1>2, <1>5 DEF LinksOf
  <2>2. LinksOf(cs, ps, q) /\ ps[q].ppg # NULL
    BY <1>2, <2>1 DEF Linked
  <2>3. ps[q].cpn = cn
    BY <1>2, <2>1, <2>2 DEF LinksOf
  <2>4. QED
    BY <2>1, <2>2, <2>3 DEF Kids, PackagesIn
<1>6. QED
  BY <1>1, <1>3, <1>4, <1>5, PkgsAreNumbers

\* The first child is the one whose turn it is.
LEMMA FirstKid ==
  ASSUME NEW cs, NEW ps, Addresses(ps), Linked(cs, ps), NEW p \in DOMAIN ps,
         ps[p].ppg # NULL, First(ps, p)
  PROVE  LET K == Kids(ps, ps[p].cpn) IN
         /\ p \in K /\ Ith(K, 1) = p /\ (\A q \in K : p <= q)
         /\ PackagesIn(ps, ps[p].cpn) # {}
<1> DEFINE K == Kids(ps, ps[p].cpn)
<1>1. p \in K /\ PackagesIn(ps, ps[p].cpn) # {}
  BY DEF Kids, PackagesIn
<1>2. K \in SUBSET (1 .. MaxPkgs) /\ MaxPkgs \in Nat /\ K \subseteq DOMAIN ps
      /\ \A q \in K : Siblings(ps, p, q)
  BY <1>1, KidsFacts
<1> HIDE DEF K
<1>3. \A q \in K : p <= q
  BY <1>2, FirstIsLeast
<1>4. Cardinality(Below(K, p)) = 0
  <2>1. \A q \in K : ~(q < p)
    BY <1>1, <1>2, <1>3
  <2>2. Below(K, p) = {}
    BY <2>1 DEF Below
  <2>3. QED
    BY <2>2, FS_EmptySet
<1>5. Ith(K, 1) = p
  <2>1. Cardinality(Below(K, p)) = 1 - 1
    BY <1>4
  <2>2. QED
    BY <1>1, <1>2, <2>1, IthIs
<1>6. QED
  BY <1>1, <1>3, <1>5 DEF K

LEMMA KidsBegin ==
  ASSUME NEW cs, NEW ps, Addresses(ps), Linked(cs, ps), NEW cn, Kids(ps, cn) # {}
  PROVE  LET p == CHOOSE p \in Kids(ps, cn) : \A q \in Kids(ps, cn) : ps[q].nsg # p IN
         p = Ith(Kids(ps, cn), 1)
<1> DEFINE K == Kids(ps, cn)
           Begins(p) == \A q \in K : ps[q].nsg # p
<1>1. /\ K \in SUBSET (1 .. MaxPkgs) /\ MaxPkgs \in Nat /\ K \subseteq DOMAIN ps
      /\ \A p \in K, q \in DOMAIN ps : ps[q].nsg = p => q \in K
      /\ \A p, q \in K : Siblings(ps, p, q)
  BY KidsFacts
<1>2. \A p \in K : ps[p].cpn = cn /\ ps[p].ppg # NULL
  BY DEF Kids, PackagesIn
<1> HIDE DEF K
<1>3. ASSUME NEW p \in K, Begins(p)
      PROVE  p = Ith(K, 1)
  <2>1. First(ps, p)
    BY <1>1, <1>2, <1>3 DEF First
  <2>2. QED
    BY <1>1, <1>2, <2>1, FirstKid DEF K
<1>4. \E p \in K : Begins(p)
  <2>1. K \in SUBSET Nat /\ K # {}
    BY <1>1 DEF K
  <2>2. PICK p \in K : \A q \in K : p <= q
    BY <2>1, LeastNatural
  <2>3. ASSUME NEW q \in K, ps[q].nsg = p
        PROVE  FALSE
    <3>1. p # NULL /\ p \in Nat /\ q \in Nat
      BY <1>1 DEF NULL
    <3>2. ps[q].nsg > q
      BY <2>3, <3>1, KidsFacts DEF K
    <3>3. QED
      BY <2>2, <2>3, <3>1, <3>2
  <2>4. QED
    BY <2>3
<1>5. Begins(CHOOSE p \in K : Begins(p)) /\ (CHOOSE p \in K : Begins(p)) \in K
  BY <1>4
<1>6. (CHOOSE p \in K : Begins(p)) = Ith(K, 1)
  BY <1>3, <1>5
<1>7. QED
  BY <1>6 DEF K

LEMMA KidsGoOn ==
  ASSUME NEW cs, NEW ps, Addresses(ps), Linked(cs, ps), NEW cn,
         NEW i \in 2 .. Cardinality(Kids(ps, cn))
  PROVE  ps[Ith(Kids(ps, cn), i - 1)].nsg = Ith(Kids(ps, cn), i)
<1> DEFINE K == Kids(ps, cn)
           C(a) == Cardinality(Below(K, a))
<1>1. /\ K \in SUBSET (1 .. MaxPkgs) /\ MaxPkgs \in Nat /\ K \subseteq DOMAIN ps
      /\ \A p, q \in K : Siblings(ps, p, q)
      /\ \A p \in K : ps[p].nsg # NULL => ps[p].nsg \in K /\ ps[p].nsg > p
  BY KidsFacts
<1> HIDE DEF K
<1>2. /\ IsFiniteSet(K) /\ Cardinality(K) \in Nat
      /\ \A a : IsFiniteSet(Below(K, a)) /\ C(a) \in Nat
      /\ \A a, b \in K : a < b => C(a) < C(b)
  BY <1>1, BelowFacts
<1>3. i \in Nat /\ i >= 2 /\ i \in 1 .. Cardinality(K) /\ i - 1 \in 1 .. Cardinality(K)
  BY <1>2 DEF K
<1> DEFINE a == Ith(K, i - 1)
           b == Ith(K, i)
           c == ps[a].nsg
<1>4. a \in K /\ C(a) = (i - 1) - 1 /\ b \in K /\ C(b) = i - 1
  BY <1>1, <1>3, IthFacts
<1> HIDE DEF a, b
<1>5. a \in Nat /\ b \in Nat
  BY <1>1, <1>4
<1>6. a < b
  <2>1. ~(b < a)
    BY <1>2, <1>3, <1>4
  <2>2. a # b
    BY <1>3, <1>4
  <2>3. QED
    BY <1>5, <2>1, <2>2
<1>7. c # NULL /\ c <= b
  BY <1>1, <1>4, <1>6 DEF Linked
<1>8. c \in K /\ c > a /\ c \in Nat
  <2>1. c \in K /\ c > a
    BY <1>1, <1>4, <1>7
  <2> HIDE DEF c
  <2>2. QED
    BY <1>1, <2>1
<1>9. c = b
  <2>1. C(a) < C(c)
    BY <1>2, <1>4, <1>5, <1>8
  <2>2. c < b => C(c) < C(b)
    BY <1>2, <1>4, <1>8
  <2>3. C(a) \in Nat /\ C(b) \in Nat /\ C(c) \in Nat
    BY <1>2
  <2> HIDE DEF C, c
  <2>4. ~(c < b)
    BY <1>3, <1>4, <2>1, <2>2, <2>3
  <2>5. QED
    BY <1>5, <1>7, <1>8, <2>4
<1>10. QED
  BY <1>9 DEF K, a, b

\* The list of children as Children computes it.
ChildrenIn(ps, cn) ==
    LET kids == {p \in {x \in DOMAIN ps : ps[x].cpn = cn} : ps[p].ppg # NULL}
        list[i \in 1 .. Cardinality(kids)] ==
            IF i = 1 THEN CHOOSE p \in kids : \A q \in kids : ps[q].nsg # p
                     ELSE ps[list[i - 1]].nsg
    IN  list

LEMMA ChildrenInOrder ==
  ASSUME NEW cs, NEW ps, Addresses(ps), Linked(cs, ps), NEW cn
  PROVE  ChildrenIn(ps, cn) = [i \in 1 .. Cardinality(Kids(ps, cn)) |-> Ith(Kids(ps, cn), i)]
<1> DEFINE K == Kids(ps, cn)
           n == Cardinality(K)
           begin == CHOOSE p \in K : \A q \in K : ps[q].nsg # p
           Is(f) == f = [i \in 1 .. n |-> IF i = 1 THEN begin ELSE ps[f[i - 1]].nsg]
           g == [i \in 1 .. n |-> Ith(K, i)]
<1>1. ChildrenIn(ps, cn) = CHOOSE f : Is(f)
  BY DEF ChildrenIn, Kids, PackagesIn
<1>2. K \in SUBSET (1 .. MaxPkgs) /\ MaxPkgs \in Nat
  BY KidsFacts
<1>3. n \in Nat /\ (n # 0 => K # {})
  BY <1>2, BelowFacts, FS_EmptySet
<1>4. n # 0 => begin = Ith(K, 1)
  BY <1>3, KidsBegin
<1>5. \A i \in 2 .. n : ps[Ith(K, i - 1)].nsg = Ith(K, i)
  BY KidsGoOn
<1> HIDE DEF K, n, begin
<1>6. Is(g)
  <2>1. ASSUME NEW i \in 1 .. n
        PROVE  g[i] = IF i = 1 THEN begin ELSE ps[g[i - 1]].nsg
    <3>1. CASE i = 1
      BY <1>3, <1>4, <3>1
    <3>2. CASE i # 1
      <4>1. i \in 2 .. n /\ i - 1 \in 1 .. n
        BY <1>3, <3>2
      <4>2. QED
        BY <1>5, <3>2, <4>1
    <3>3. QED
      BY <3>1, <3>2
  <2>2. g = [i \in 1 .. n |-> g[i]]
    OBVIOUS
  <2> HIDE DEF g
  <2>3. QED
    BY <2>1, <2>2
<1>7. ASSUME NEW f, Is(f)
      PROVE  f = g
  <2> DEFINE S == {0} \cup {i \in 1 .. n : f[i] = g[i]}
  <2>1. 0 \in S
    OBVIOUS
  <2>2. ASSUME NEW i \in 1 .. n, i - 1 \in S
        PROVE  i \in S
    <3>1. f[i] = IF i = 1 THEN begin ELSE ps[f[i - 1]].nsg
      BY <1>7
    <3>2. g[i] = IF i = 1 THEN begin ELSE ps[g[i - 1]].nsg
      BY <1>6
    <3> HIDE DEF g
    <3>3. i # 1 => f[i - 1] = g[i - 1]
      BY <1>3, <2>2
    <3>4. QED
      BY <3>1, <3>2, <3>3
  <2> HIDE DEF S
  <2>3. 0 .. n \subseteq S
    BY <1>3, <2>1, <2>2, Induction
  <2>4. \A i \in 1 .. n : f[i] = g[i]
    <3>1. \A i \in 1 .. n : i \in 0 .. n /\ i # 0
      BY <1>3
    <3>2. QED
      BY <2>3, <3>1 DEF S
  <2>5. f = [i \in 1 .. n |-> f[i]]
    BY <1>7
  <2>6. QED
    BY <2>4, <2>5
<1> HIDE DEF g, Is
<1>8. (CHOOSE f : Is(f)) = g
  BY <1>6, <1>7
<1>9. QED
  BY <1>1, <1>8 DEF g, K, n

\* The session of a connection is its view, before and after a step.
SessionIn(cs, ps, cn) ==
    LET kids == ChildrenIn(ps, cn)
        first == ps[kids[1]]
    IN  CASE {p \in DOMAIN ps : ps[p].cpn = cn} = {} ->
                [todo |-> <<>>, status |-> -1, head |-> 0, sent |-> 0, broken |-> FALSE]
          [] {p \in DOMAIN ps : ps[p].cpn = cn} # {} /\ kids = <<>> ->
                [todo |-> <<>>, status |-> 0, head |-> 0, sent |-> 0,
                 broken |-> cs[cn] \in {"CLOSING_W", "CLOSING"}]
          [] OTHER ->
                [todo |-> [i \in DOMAIN kids |-> ps[kids[i]].uri],
                 status |-> first.hsn, head |-> first.hsent, sent |-> first.tr_offset,
                 broken |-> cs[cn] \in {"CLOSING_W", "CLOSING"}]

LEMMA SessionOfIs ==
  ASSUME NEW cn
  PROVE  SessionOf(cn) = SessionIn(conn, pkg, cn) /\ SessionOf(cn)' = SessionIn(conn', pkg', cn)
<1>1. Children(cn) = ChildrenIn(pkg, cn)
  BY DEF Children, ChildrenIn, PackagesOf
<1>2. Children(cn)' = ChildrenIn(pkg', cn)
  BY DEF Children, ChildrenIn, PackagesOf
<1>3. SessionOf(cn) = SessionIn(conn, pkg, cn)
  BY <1>1 DEF SessionOf, SessionIn, PackagesOf
<1>4. SessionOf(cn)' = SessionIn(conn', pkg', cn)
  BY <1>2 DEF SessionOf, SessionIn, PackagesOf
<1>5. QED
  BY <1>3, <1>4

LEMMA SessionIsView ==
  ASSUME NEW cs, NEW ds, NEW ps, Addresses(ps), Linked(ds, ps), NEW cn
  PROVE  SessionIn(cs, ps, cn) = View(cs, ps, cn)
<1> DEFINE K == Kids(ps, cn)
           n == Cardinality(K)
           kids == ChildrenIn(ps, cn)
<1>1. kids = [i \in 1 .. n |-> Ith(K, i)]
  BY ChildrenInOrder
<1>2. K \in SUBSET (1 .. MaxPkgs) /\ MaxPkgs \in Nat
  BY KidsFacts
<1>3. n \in Nat /\ (n = 0 <=> K = {})
  BY <1>2, BelowFacts, FS_EmptySet
<1>4. {p \in DOMAIN ps : ps[p].cpn = cn} = PackagesIn(ps, cn)
  BY DEF PackagesIn
<1>5. CASE PackagesIn(ps, cn) = {}
  BY <1>4, <1>5 DEF SessionIn, View, Nothing, Shown
<1>6. CASE PackagesIn(ps, cn) # {} /\ K = {}
  <2>1. kids = <<>>
    <3>1. 1 .. n = {}
      BY <1>3, <1>6
    <3> HIDE DEF K, n, kids
    <3>2. QED
      BY <1>1, <3>1
  <2>2. QED
    BY <1>4, <1>6, <2>1 DEF SessionIn, View, Shown, BrokenIn
<1>7. CASE PackagesIn(ps, cn) # {} /\ K # {}
  <2>1. kids # <<>> /\ DOMAIN kids = 1 .. n /\ kids[1] = Ith(K, 1)
        /\ \A i \in 1 .. n : kids[i] = Ith(K, i)
    <3>1. 1 \in 1 .. n
      BY <1>3, <1>7
    <3> HIDE DEF K, n, kids
    <3>2. QED
      BY <1>1, <3>1
  <2>2. [i \in DOMAIN kids |-> ps[kids[i]].uri] = Todo(ps, cn)
    <3>1. [i \in DOMAIN kids |-> ps[kids[i]].uri] = [i \in 1 .. n |-> ps[Ith(K, i)].uri]
      <4> HIDE DEF K, n, kids
      <4>1. QED
        BY <2>1
    <3>2. QED
      BY <3>1 DEF Todo
  <2>3. SessionIn(cs, ps, cn) =
          [todo |-> [i \in DOMAIN kids |-> ps[kids[i]].uri],
           status |-> ps[kids[1]].hsn, head |-> ps[kids[1]].hsent,
           sent |-> ps[kids[1]].tr_offset,
           broken |-> cs[cn] \in {"CLOSING_W", "CLOSING"}]
    BY <1>4, <1>7, <2>1 DEF SessionIn
  <2>4. View(cs, ps, cn) = Shown(Todo(ps, cn), ps[Ith(K, 1)].hsn,
                                 ps[Ith(K, 1)].hsent, ps[Ith(K, 1)].tr_offset,
                                 BrokenIn(cs, cn))
    BY <1>7 DEF View
  <2> HIDE DEF kids, K
  <2>5. QED
    BY <2>1, <2>2, <2>3, <2>4 DEF Shown, BrokenIn
<1>8. QED
  BY <1>5, <1>6, <1>7

(***************************************************************************)
(* What changes views                                                      *)
(***************************************************************************)

\* The GETs that are left depend on which packages there are and what they ask for.
LEMMA TodoFrame ==
  ASSUME NEW ps, NEW ps2, NEW cn, Addresses(ps), PackagesIn(ps2, cn) = PackagesIn(ps, cn),
         \A q \in PackagesIn(ps, cn) : ps2[q].ppg = ps[q].ppg /\ ps2[q].uri = ps[q].uri
  PROVE  Kids(ps2, cn) = Kids(ps, cn) /\ Todo(ps2, cn) = Todo(ps, cn)
<1> DEFINE K == Kids(ps, cn)
<1>1. Kids(ps2, cn) = K
  BY DEF Kids
<1>2. K \in SUBSET (1 .. MaxPkgs) /\ MaxPkgs \in Nat /\ K \subseteq PackagesIn(ps, cn)
  BY PkgsAreNumbers DEF Kids, PackagesIn, Addresses
<1>3. \A i \in 1 .. Cardinality(K) : Ith(K, i) \in PackagesIn(ps, cn)
  BY <1>2, IthFacts
<1>4. Todo(ps2, cn) = Todo(ps, cn)
  BY <1>1, <1>3 DEF Todo
<1>5. QED
  BY <1>1, <1>4

\* What is shown of a connection does not depend on the packages of others.
LEMMA ViewFrame ==
  ASSUME NEW cs, NEW cs2, NEW ps, NEW ps2, NEW cn, Addresses(ps),
         PackagesIn(ps2, cn) = PackagesIn(ps, cn),
         \A q \in PackagesIn(ps, cn) : SameAnswer(ps[q], ps2[q]),
         PackagesIn(ps, cn) # {} => cs2[cn] = cs[cn]
  PROVE  View(cs2, ps2, cn) = View(cs, ps, cn)
<1>1. CASE PackagesIn(ps, cn) = {}
  BY <1>1 DEF View
<1>2. CASE PackagesIn(ps, cn) # {}
  <2> DEFINE K == Kids(ps, cn)
  <2>1. Kids(ps2, cn) = K /\ Todo(ps2, cn) = Todo(ps, cn)
    BY TodoFrame DEF SameAnswer
  <2>2. BrokenIn(cs2, cn) = BrokenIn(cs, cn)
    BY <1>2 DEF BrokenIn
  <2>3. K \in SUBSET (1 .. MaxPkgs) /\ MaxPkgs \in Nat /\ K \subseteq PackagesIn(ps, cn)
    BY PkgsAreNumbers DEF Kids, PackagesIn, Addresses
  <2>4. \A i \in 1 .. Cardinality(K) : Ith(K, i) \in PackagesIn(ps, cn)
    BY <2>3, IthFacts
  <2>6. K # {} => Ith(K, 1) \in PackagesIn(ps, cn)
    <3>1. K # {} => 1 \in 1 .. Cardinality(K)
      <4>1. Cardinality(K) \in Nat /\ IsFiniteSet(K)
        BY <2>3, BelowFacts
      <4>2. K # {} => Cardinality(K) # 0
        BY <4>1, FS_EmptySet
      <4>3. QED
        BY <4>1, <4>2
    <3>2. QED
      BY <2>4, <3>1
  <2> HIDE DEF K
  <2>7. K # {} => /\ ps2[Ith(K, 1)].hsn = ps[Ith(K, 1)].hsn
                  /\ ps2[Ith(K, 1)].hsent = ps[Ith(K, 1)].hsent
                  /\ ps2[Ith(K, 1)].tr_offset = ps[Ith(K, 1)].tr_offset
    BY <2>6 DEF SameAnswer
  <2>8. CASE K = {}
    BY <1>2, <2>1, <2>2, <2>8 DEF View, K
  <2>9. CASE K # {}
    BY <1>2, <2>1, <2>2, <2>7, <2>9 DEF View, K
  <2>10. QED
    BY <2>8, <2>9
<1>3. QED
  BY <1>1, <1>2

\* What is shown of a connection while the turn is with one of its children.
LEMMA ViewOnTurn ==
  ASSUME NEW cs, NEW ps, Addresses(ps), Linked(cs, ps), NEW p \in DOMAIN ps,
         ps[p].ppg # NULL, First(ps, p), NEW cs2
  PROVE  LET c == ps[p].cpn IN
         /\ View(cs2, ps, c) =
              Shown(Todo(ps, c), ps[p].hsn, ps[p].hsent, ps[p].tr_offset, BrokenIn(cs2, c))
         /\ Todo(ps, c) \in Seq(Plain \cup {BadGet}) /\ Todo(ps, c) # <<>>
         /\ Head(Todo(ps, c)) = ps[p].uri
<1> DEFINE c == ps[p].cpn
           K == Kids(ps, c)
           n == Cardinality(K)
<1>1. p \in K /\ Ith(K, 1) = p /\ PackagesIn(ps, c) # {}
  BY FirstKid
<1>2. K \in SUBSET (1 .. MaxPkgs) /\ MaxPkgs \in Nat /\ K \subseteq DOMAIN ps
  BY KidsFacts
<1>3. n \in Nat /\ n # 0
  BY <1>1, <1>2, BelowFacts, FS_EmptySet
<1>4. \A q \in K : ps[q].uri \in Plain \cup {BadGet}
  BY <1>2 DEF Kids, PackagesIn, Linked, LinksOf
<1>5. \A i \in 1 .. n : Ith(K, i) \in K
  BY <1>2, IthFacts
<1>6. Todo(ps, c) = [i \in 1 .. n |-> ps[Ith(K, i)].uri]
  BY DEF Todo
<1>7. View(cs2, ps, c) =
        Shown(Todo(ps, c), ps[p].hsn, ps[p].hsent, ps[p].tr_offset, BrokenIn(cs2, c))
  <2>1. Kids(ps, c) # {} /\ Ith(Kids(ps, c), 1) = p
    BY <1>1
  <2> HIDE DEF c, K
  <2>2. QED
    BY <1>1, <2>1 DEF View
<1> HIDE DEF K, n
<1> DEFINE todo == [i \in 1 .. n |-> ps[Ith(K, i)].uri]
<1>8. todo \in Seq(Plain \cup {BadGet}) /\ Len(todo) = n /\ todo[1] = ps[p].uri
  <2>1. \A i \in 1 .. n : ps[Ith(K, i)].uri \in Plain \cup {BadGet}
    BY <1>4, <1>5
  <2>2. todo \in [1 .. n -> Plain \cup {BadGet}]
    BY <2>1
  <2>3. 1 \in 1 .. n
    BY <1>3
  <2>4. todo[1] = ps[p].uri
    BY <1>1, <2>3
  <2> HIDE DEF todo
  <2>5. todo \in Seq(Plain \cup {BadGet}) /\ Len(todo) = n
    BY <1>3, <2>2
  <2>6. QED
    BY <2>4, <2>5
<1> HIDE DEF todo
<1>9. todo # <<>> /\ Head(todo) = ps[p].uri
  BY <1>3, <1>8
<1>10. QED
  BY <1>6, <1>7, <1>8, <1>9 DEF todo

\* What is shown of a connection that reads.
LEMMA ViewOfRoot ==
  ASSUME NEW cs, NEW ps, Addresses(ps), Linked(cs, ps), NEW p \in DOMAIN ps,
         ps[p].ppg = NULL, First(ps, p), NEW cs2
  PROVE  /\ View(cs2, ps, ps[p].cpn) = Shown(<<>>, 0, 0, 0, BrokenIn(cs2, ps[p].cpn))
         /\ PackagesIn(ps, ps[p].cpn) = {p}
<1> DEFINE c == ps[p].cpn
<1>1. ps[p].lcg = NULL
  BY DEF First
<1>2. ASSUME NEW q \in DOMAIN ps, ps[q].cpn = c, ps[q].ppg # NULL
      PROVE  FALSE
  <2>1. /\ ps[q].ppg \in DOMAIN ps /\ ps[ps[q].ppg].ppg = NULL
        /\ ps[ps[q].ppg].cpn = c /\ ps[ps[q].ppg].lcg # NULL
    BY <1>2 DEF Linked, LinksOf
  <2>2. ps[q].ppg = p
    BY <2>1 DEF Linked
  <2>3. QED
    BY <1>1, <2>1, <2>2
<1>3. Kids(ps, c) = {}
  BY <1>2 DEF Kids, PackagesIn
<1>4. PackagesIn(ps, c) = {p}
  BY <1>2 DEF PackagesIn, Linked
<1>5. QED
  BY <1>3, <1>4 DEF View

LEMMA SeqIsFunction ==
  ASSUME NEW S, NEW u \in Seq(S)
  PROVE  u = [i \in 1 .. Len(u) |-> u[i]]
  OBVIOUS

ViewOf(s, cn) == View(s.conn, s.pkg, cn)

\* svr_http_final shows the next GET, or closes the connection.
LEMMA FinalViews ==
  ASSUME NEW s, NEW R, Ready(s, R), NEW p \in R
  PROVE  LET t == svr_http_final(s, p)
             c == s.pkg[p].cpn
         IN  /\ t.cache = s.cache
             /\ \A cn : cn # c => ViewOf(t, cn) = ViewOf(s, cn)
             /\ s.pkg[p].ppg = NULL => ViewOf(t, c) = Nothing
             /\ s.pkg[p].ppg # NULL =>
                   ViewOf(t, c) = Shown(Tail(Todo(s.pkg, c)), 0, 0, 0, BrokenIn(s.conn, c))
<1> DEFINE t == svr_http_final(s, p)
           ps == s.pkg
           ps2 == t.pkg
           pk == ps[p]
           c == pk.cpn
<1>1. Finalised(s, t, p)
  BY FinalFields
<1>2. /\ Addresses(ps) /\ Linked(s.conn, ps) /\ Phases(s.conn, ps, s.pending, s.cache)
      /\ p \in DOMAIN ps /\ First(ps, p) /\ LinksOf(s.conn, ps, p)
  BY ReadyParts, RunningFacts
<1> HIDE DEF t
<1>3. t.cache = s.cache
  BY <1>1 DEF Finalised
<1>4. /\ DOMAIN ps2 = DOMAIN ps \ {p}
      /\ \A q \in DOMAIN ps2 : SameAnswer(ps[q], ps2[q])
  <2>1. DOMAIN ps2 = DOMAIN ps \ {p} /\ \A q \in DOMAIN ps2 : q # pk.ppg => ps2[q] = ps[q]
    BY <1>1 DEF Finalised
  <2>2. ASSUME pk.ppg # NULL
        PROVE  SameAnswer(ps[pk.ppg], ps2[pk.ppg])
    <3>1. pk.ppg \in DOMAIN ps /\ ps[pk.ppg] \in Package
      BY <1>2, <2>2 DEF LinksOf, Addresses
    <3>2. ps2[pk.ppg] = ps[pk.ppg] \/ ps2[pk.ppg] = [ps[pk.ppg] EXCEPT !.lcg = NULL]
      BY <1>1, <2>2 DEF Finalised
    <3> DEFINE x == ps[pk.ppg]
    <3>3. SameAnswer(x, x) /\ SameAnswer(x, [x EXCEPT !.lcg = NULL])
      <4> HIDE DEF x
      <4>1. x \in Package
        BY <3>1 DEF x
      <4>2. QED
        BY <4>1 DEF SameAnswer, Package
    <3>4. QED
      BY <3>2, <3>3
  <2>3. \A q \in DOMAIN ps2 : q # NULL
    BY <1>2, <2>1 DEF Addresses, NULL
  <2>4. ASSUME NEW q \in DOMAIN ps2 PROVE SameAnswer(ps[q], ps2[q])
    BY <2>1, <2>2, <2>3 DEF SameAnswer
  <2>5. QED
    BY <2>1, <2>4
<1>5. \A cn : PackagesIn(ps2, cn) = PackagesIn(ps, cn) \ {p}
  BY <1>4 DEF PackagesIn, SameAnswer
<1>6. ASSUME NEW cn, cn # c
      PROVE  ViewOf(t, cn) = ViewOf(s, cn)
  <2>1. PackagesIn(ps2, cn) = PackagesIn(ps, cn)
    BY <1>5, <1>6 DEF PackagesIn
  <2>2. \A q \in PackagesIn(ps, cn) : SameAnswer(ps[q], ps2[q])
    BY <1>4, <2>1 DEF PackagesIn
  <2>3. PackagesIn(ps, cn) # {} => cn \in DOMAIN s.conn
    BY <1>2 DEF PackagesIn, Linked, LinksOf
  <2>4. t.conn = s.conn \/ t.conn = Without(s.conn, c)
    BY <1>1 DEF Finalised
  <2>5. PackagesIn(ps, cn) # {} => t.conn[cn] = s.conn[cn]
    <3>1. \A y \in DOMAIN s.conn \ {c} : Without(s.conn, c)[y] = s.conn[y]
      BY WithoutFacts
    <3>2. QED
      BY <1>6, <2>3, <2>4, <3>1
  <2>6. QED
    BY <1>2, <2>1, <2>2, <2>5, ViewFrame DEF ViewOf
<1>7. ASSUME pk.ppg = NULL
      PROVE  ViewOf(t, c) = Nothing
  <2>1. PackagesIn(ps, c) = {p}
    BY <1>2, <1>7, ViewOfRoot
  <2>2. PackagesIn(ps2, c) = {}
    BY <1>5, <2>1
  <2>3. QED
    BY <2>2 DEF ViewOf, View
<1>8. ASSUME pk.ppg # NULL
      PROVE  ViewOf(t, c) = Shown(Tail(Todo(ps, c)), 0, 0, 0, BrokenIn(s.conn, c))
  <2> DEFINE K == Kids(ps, c)
             K2 == Kids(ps2, c)
             n == Cardinality(K)
             todo == Todo(ps, c)
  <2>1. K2 = K \ {p}
    BY <1>4, <1>5 DEF Kids, PackagesIn, SameAnswer
  <2>2. PackagesIn(ps2, c) # {}
    <3>1. pk.ppg \in DOMAIN ps /\ ps[pk.ppg].ppg = NULL /\ ps[pk.ppg].cpn = c
      BY <1>2, <1>8 DEF LinksOf
    <3>2. pk.ppg \in PackagesIn(ps, c) /\ pk.ppg # p
      BY <1>8, <3>1 DEF PackagesIn
    <3>3. QED
      BY <1>5, <3>2
  <2>3. t.conn = s.conn
    BY <1>1, <1>8 DEF Finalised
  <2>4. p \in K /\ (\A q \in K : p <= q)
    BY <1>2, <1>8, FirstKid
  <2>5. K \in SUBSET (1 .. MaxPkgs) /\ MaxPkgs \in Nat /\ K \subseteq DOMAIN ps
    BY <1>2, KidsFacts
  <2>6. n \in Nat /\ n # 0 /\ IsFiniteSet(K)
    BY <2>4, <2>5, BelowFacts, FS_EmptySet
  <2>7. Cardinality(K2) = n - 1
    BY <2>1, <2>4, <2>6, RemoveOne
  <2>8. K2 = {} <=> n = 1
    <3>1. IsFiniteSet(K2)
      BY <2>1, <2>6, FS_Subset
    <3>2. K2 = {} <=> Cardinality(K2) = 0
      BY <3>1, FS_EmptySet
    <3>3. QED
      BY <2>6, <2>7, <3>2
  <2>9. /\ todo \in Seq(Plain \cup {BadGet}) /\ todo # <<>>
        /\ todo = [i \in 1 .. n |-> ps[Ith(K, i)].uri]
    <3>1. todo \in Seq(Plain \cup {BadGet}) /\ todo # <<>>
      BY <1>2, <1>8, ViewOnTurn
    <3>2. QED
      BY <3>1 DEF Todo
  <2>10. Len(todo) = n /\ \A i \in 1 .. n : todo[i] = ps[Ith(K, i)].uri
    <3> HIDE DEF todo, K, n
    <3>1. QED
      BY <2>6, <2>9
  <2>11. Tail(todo) = [i \in 1 .. n - 1 |-> ps[Ith(K, i + 1)].uri]
    <3> HIDE DEF todo, K, n
    <3>1. Tail(todo) = [i \in 1 .. n - 1 |-> todo[i + 1]]
      <4>1. /\ Tail(todo) \in Seq(Plain \cup {BadGet}) /\ Len(Tail(todo)) = Len(todo) - 1
            /\ \A i \in 1 .. Len(Tail(todo)) : Tail(todo)[i] = todo[i + 1]
        BY <2>9, HeadTailProperties
      <4>2. Tail(todo) = [i \in 1 .. Len(Tail(todo)) |-> Tail(todo)[i]]
        BY <4>1, SeqIsFunction
      <4>3. QED
        BY <2>10, <4>1, <4>2
    <3>2. \A i \in 1 .. n - 1 : i + 1 \in 1 .. n
      BY <2>6
    <3>3. QED
      BY <2>10, <3>1, <3>2
  <2>12. CASE K2 = {}
    <3>1. Tail(todo) = <<>>
      <4>1. n = 1
        BY <2>8, <2>12
      <4> HIDE DEF todo, n
      <4>2. QED
        BY <2>9, <2>10, <4>1
    <3>2. ViewOf(t, c) = Shown(<<>>, 0, 0, 0, BrokenIn(s.conn, c))
      BY <2>2, <2>3, <2>12 DEF ViewOf, View
    <3>3. QED
      BY <3>1, <3>2
  <2>13. CASE K2 # {}
    <3> DEFINE q == Ith(K2, 1)
    <3>1. \A i \in 1 .. n - 1 : Ith(K2, i) = Ith(K, i + 1)
      BY <2>1, <2>4, <2>5, IthOfRest
    <3>2. \A i \in 1 .. n - 1 : Ith(K2, i) \in K2
      <4>1. K2 \in SUBSET (1 .. MaxPkgs)
        BY <2>1, <2>5
      <4>2. QED
        BY <2>5, <2>7, <4>1, IthFacts
    <3>3. \A x \in K2 : x \in DOMAIN ps2 /\ SameAnswer(ps[x], ps2[x])
      BY <1>4 DEF Kids, PackagesIn
    <3>4. Todo(ps2, c) = Tail(todo)
      <4>1. Todo(ps2, c) = [i \in 1 .. n - 1 |-> ps2[Ith(K2, i)].uri]
        BY <2>7 DEF Todo
      <4>2. \A i \in 1 .. n - 1 : ps2[Ith(K2, i)].uri = ps[Ith(K, i + 1)].uri
        BY <3>1, <3>2, <3>3 DEF SameAnswer
      <4> HIDE DEF K, K2, n, todo
      <4>3. QED
        BY <2>11, <4>1, <4>2
    <3>5. q \in K2
      <4>1. 1 \in 1 .. n - 1
        BY <2>6, <2>8, <2>13
      <4> HIDE DEF K2
      <4>2. QED
        BY <3>2, <4>1
    <3>6. Fresh(ps[q])
      <4>1. q \in DOMAIN ps /\ ps[q].cpn = c /\ ps[q].ppg # NULL /\ q # p
        BY <2>1, <3>5 DEF Kids, PackagesIn
      <4> HIDE DEF q
      <4>2. ~First(ps, q)
        BY <1>2, <4>1, OneFirst
      <4>3. QED
        BY <1>2, <4>1, <4>2 DEF Phases
    <3>7. ps2[q].hsn = 0 /\ ps2[q].hsent = 0 /\ ps2[q].tr_offset = 0
      BY <3>3, <3>5, <3>6 DEF Fresh, SameAnswer
    <3>8. ViewOf(t, c) = Shown(Todo(ps2, c), ps2[q].hsn, ps2[q].hsent, ps2[q].tr_offset,
                               BrokenIn(s.conn, c))
      BY <2>2, <2>3, <2>13 DEF ViewOf, View
    <3> HIDE DEF q
    <3>9. QED
      BY <3>4, <3>7, <3>8
  <2>14. QED
    BY <2>12, <2>13
<1>9. QED
  BY <1>3, <1>6, <1>7, <1>8 DEF t

(***************************************************************************)
(* Steps of a session, on views                                            *)
(***************************************************************************)

Answered(v) ==
    \/ v.status \in {400, 404}
    \/ v.status = 200 /\ v.head > 0 /\ v.sent = FileSize[Head(v.todo)]

Responds(v, w) ==
    /\ v.todo # <<>> /\ v.status = 0 /\ ~v.broken
    /\ w.status \in {200, 404, 400} /\ (w.status = 400 <=> Head(v.todo) = BadGet)
    /\ w = [v EXCEPT !.status = w.status]

Heads(v, w) ==
    /\ v.status = 200 /\ v.head = 0 /\ ~v.broken
    /\ w.head \in 1 .. HeadSize
    /\ w = [v EXCEPT !.head = w.head]

Sends(v, w) ==
    /\ v.status = 200 /\ v.head > 0 /\ ~v.broken
    /\ v.sent < w.sent /\ w.sent <= v.sent + MAXWB /\ w.sent <= FileSize[Head(v.todo)]
    /\ w = [v EXCEPT !.sent = w.sent]

Finishes(v, w, lost) ==
    /\ v.todo # <<>>
    /\ v.broken => w.broken
    /\ Answered(v) \/ w.broken \/ Head(v.todo) \in lost
    /\ w = Shown(Tail(v.todo), 0, 0, 0, w.broken)

Moves(v, w, lost) ==
    \/ w = v
    \/ v = Nothing /\ w = Shown(<<>>, 0, 0, 0, FALSE)
    \/ v = Shown(<<>>, 0, 0, 0, FALSE) /\ w.todo # <<>> /\ w = Shown(w.todo, 0, 0, 0, FALSE)
    \/ Responds(v, w)
    \/ Heads(v, w)
    \/ Sends(v, w)
    \/ Finishes(v, w, lost)
    \/ v # Nothing /\ w = [v EXCEPT !.broken = TRUE]
    \/ v # Nothing /\ v.todo = <<>> /\ w = Nothing

\* A handler leads from state s to state t.
Serves(s, t) ==
    /\ \A cn \in 1 .. MaxConns : Moves(ViewOf(s, cn), ViewOf(t, cn), Lost(t.cache))
    /\ Lost(s.cache) \subseteq Lost(t.cache)

LEMMA ShownFields ==
  ASSUME NEW todo, NEW status, NEW head, NEW sent, NEW broken
  PROVE  LET v == Shown(todo, status, head, sent, broken) IN
         /\ v.todo = todo /\ v.status = status /\ v.head = head /\ v.sent = sent
         /\ v.broken = broken
         /\ \A x : [v EXCEPT !.status = x] = Shown(todo, x, head, sent, broken)
         /\ \A x : [v EXCEPT !.head = x] = Shown(todo, status, x, sent, broken)
         /\ \A x : [v EXCEPT !.sent = x] = Shown(todo, status, head, x, broken)
         /\ \A x : [v EXCEPT !.broken = x] = Shown(todo, status, head, sent, x)
BY DEF Shown

LEMMA NothingIsNot ==
  ASSUME NEW todo, NEW status, NEW head, NEW sent, NEW broken, status # -1
  PROVE  Shown(todo, status, head, sent, broken) # Nothing
<1>1. Shown(todo, status, head, sent, broken).status = status
  BY ShownFields
<1>2. Nothing.status = -1
  BY DEF Nothing, Shown
<1>3. QED
  BY <1>1, <1>2

LEMMA FollowsViews ==
  ASSUME NEW a, NEW Q, Ready(a, Q), NEW s, NEW p \in DOMAIN a.pkg, Follows(a, s, p)
  PROVE  /\ \A cn : cn # a.pkg[p].cpn => ViewOf(s, cn) = ViewOf(a, cn)
         /\ Todo(s.pkg, a.pkg[p].cpn) = Todo(a.pkg, a.pkg[p].cpn)
<1>1. Addresses(a.pkg) /\ Linked(a.conn, a.pkg)
  BY ReadyParts
<1>2. \A cn : /\ PackagesIn(s.pkg, cn) = PackagesIn(a.pkg, cn)
              /\ \A q \in PackagesIn(a.pkg, cn) :
                    s.pkg[q].ppg = a.pkg[q].ppg /\ s.pkg[q].uri = a.pkg[q].uri
  BY DEF Follows, PackagesIn, SameAnswer
<1>3. ASSUME NEW cn, cn # a.pkg[p].cpn
      PROVE  ViewOf(s, cn) = ViewOf(a, cn)
  <2>1. PackagesIn(a.pkg, cn) # {} => cn \in DOMAIN a.conn
    BY <1>1 DEF PackagesIn, Linked, LinksOf
  <2>2. PackagesIn(a.pkg, cn) # {} => s.conn[cn] = a.conn[cn]
    BY <1>3, <2>1 DEF Follows
  <2>3. \A q \in PackagesIn(a.pkg, cn) : SameAnswer(a.pkg[q], s.pkg[q])
    BY <1>3 DEF Follows, PackagesIn
  <2>4. QED
    BY <1>1, <1>2, <2>2, <2>3, ViewFrame DEF ViewOf
<1>4. Todo(s.pkg, a.pkg[p].cpn) = Todo(a.pkg, a.pkg[p].cpn)
  BY <1>1, <1>2, TodoFrame
<1>5. QED
  BY <1>3, <1>4

LEMMA FinalServes ==
  ASSUME NEW a, NEW Q, Ready(a, Q), NEW s, NEW R, Ready(s, R), NEW p \in R,
         p \in DOMAIN a.pkg, First(a.pkg, p), Follows(a, s, p),
         a.pkg[p].ppg # NULL => Over(a.pkg[p], s.conn, s.cache)
  PROVE  Serves(a, svr_http_final(s, p))
<1> DEFINE t == svr_http_final(s, p)
           pk == a.pkg[p]
           c == pk.cpn
           v == ViewOf(a, c)
           w == ViewOf(t, c)
           todo == Todo(a.pkg, c)
<1>1. /\ s.pkg[p].cpn = c /\ s.pkg[p].ppg = pk.ppg
      /\ BrokenIn(a.conn, c) => BrokenIn(s.conn, c)
      /\ Lost(a.cache) \subseteq Lost(s.cache)
  BY DEF Follows
<1>2. /\ \A cn : cn # c => ViewOf(s, cn) = ViewOf(a, cn)
      /\ Todo(s.pkg, c) = todo
  BY FollowsViews
<1>3. /\ t.cache = s.cache
      /\ \A cn : cn # c => ViewOf(t, cn) = ViewOf(s, cn)
      /\ pk.ppg = NULL => w = Nothing
      /\ pk.ppg # NULL => w = Shown(Tail(todo), 0, 0, 0, BrokenIn(s.conn, c))
  BY <1>1, <1>2, FinalViews
<1>4. Addresses(a.pkg) /\ Linked(a.conn, a.pkg)
  BY ReadyParts
<1>5. Moves(v, w, Lost(t.cache))
  <2>1. CASE pk.ppg = NULL
    <3>1. v = Shown(<<>>, 0, 0, 0, BrokenIn(a.conn, c))
      BY <1>4, <2>1, ViewOfRoot DEF ViewOf
    <3>2. v # Nothing /\ v.todo = <<>>
      BY <3>1, NothingIsNot, ShownFields
    <3> HIDE DEF v, w
    <3>3. QED
      BY <1>3, <2>1, <3>2 DEF Moves
  <2>2. CASE pk.ppg # NULL
    <3>1. /\ v = Shown(todo, pk.hsn, pk.hsent, pk.tr_offset, BrokenIn(a.conn, c))
          /\ todo # <<>> /\ Head(todo) = pk.uri
      BY <1>4, <2>2, ViewOnTurn DEF ViewOf
    <3>2. /\ v.todo = todo /\ v.status = pk.hsn /\ v.head = pk.hsent /\ v.sent = pk.tr_offset
          /\ v.broken = BrokenIn(a.conn, c)
      BY <3>1, ShownFields
    <3>3. w = Shown(Tail(todo), 0, 0, 0, BrokenIn(s.conn, c)) /\ w.broken = BrokenIn(s.conn, c)
      BY <1>3, <2>2, ShownFields
    <3> HIDE DEF v, w
    <3>4. Answered(v) \/ w.broken \/ Head(v.todo) \in Lost(t.cache)
      BY <1>3, <2>2, <3>1, <3>2, <3>3 DEF Over, Answered
    <3>5. Finishes(v, w, Lost(t.cache))
      BY <1>1, <3>1, <3>2, <3>3, <3>4 DEF Finishes
    <3>6. QED
      BY <3>5 DEF Moves
  <2>3. QED
    BY <2>1, <2>2
<1>6. \A cn : cn # c => ViewOf(t, cn) = ViewOf(a, cn)
  BY <1>2, <1>3
<1> HIDE DEF t
<1>7. ASSUME NEW cn \in 1 .. MaxConns
      PROVE  Moves(ViewOf(a, cn), ViewOf(t, cn), Lost(t.cache))
  <2>1. CASE cn = c
    BY <1>5, <2>1
  <2>2. CASE cn # c
    BY <1>6, <2>2 DEF Moves
  <2>3. QED
    BY <2>1, <2>2
<1>8. Lost(a.cache) \subseteq Lost(t.cache)
  BY <1>1, <1>3
<1>9. QED
  BY <1>7, <1>8 DEF Serves, t

LEMMA FollowsServes ==
  ASSUME NEW a, NEW Q, Ready(a, Q), NEW s, NEW R, Ready(s, R), NEW p \in DOMAIN a.pkg,
         First(a.pkg, p), First(s.pkg, p), Follows(a, s, p), s.conn = a.conn, GoesOn(a, s, p)
  PROVE  Serves(a, s)
<1> DEFINE pk == a.pkg[p]
           m == s.pkg[p]
           c == pk.cpn
           v == ViewOf(a, c)
           w == ViewOf(s, c)
           todo == Todo(a.pkg, c)
<1>1. m.cpn = c /\ m.ppg = pk.ppg /\ Lost(a.cache) \subseteq Lost(s.cache) /\ p \in DOMAIN s.pkg
  BY DEF Follows
<1>2. (\A cn : cn # c => ViewOf(s, cn) = ViewOf(a, cn)) /\ Todo(s.pkg, c) = todo
  BY FollowsViews
<1>3. Addresses(a.pkg) /\ Linked(a.conn, a.pkg) /\ Addresses(s.pkg) /\ Linked(s.conn, s.pkg)
  BY ReadyParts
<1>4. Moves(v, w, Lost(s.cache))
  <2>1. CASE pk.ppg = NULL
    <3>1. v = Shown(<<>>, 0, 0, 0, BrokenIn(a.conn, c))
      BY <1>3, <2>1, ViewOfRoot DEF ViewOf
    <3>2. w = Shown(<<>>, 0, 0, 0, BrokenIn(a.conn, c))
      <4>1. View(s.conn, s.pkg, m.cpn) = Shown(<<>>, 0, 0, 0, BrokenIn(s.conn, m.cpn))
        BY <1>1, <1>3, <2>1, ViewOfRoot
      <4>2. QED
        BY <1>1, <4>1 DEF ViewOf
    <3> HIDE DEF v, w
    <3>3. QED
      BY <3>1, <3>2 DEF Moves
  <2>2. CASE pk.ppg # NULL
    <3> DEFINE b == BrokenIn(a.conn, c)
    <3>1. /\ v = Shown(todo, pk.hsn, pk.hsent, pk.tr_offset, b)
          /\ todo # <<>> /\ Head(todo) = pk.uri
      BY <1>3, <2>2, ViewOnTurn DEF ViewOf
    <3>2. w = Shown(todo, m.hsn, m.hsent, m.tr_offset, b)
      BY <1>1, <1>2, <1>3, <2>2, ViewOnTurn DEF ViewOf
    <3>3. /\ v.todo = todo /\ v.status = pk.hsn /\ v.head = pk.hsent /\ v.sent = pk.tr_offset
          /\ v.broken = b
          /\ \A x : [v EXCEPT !.status = x] = Shown(todo, x, pk.hsent, pk.tr_offset, b)
          /\ \A x : [v EXCEPT !.head = x] = Shown(todo, pk.hsn, x, pk.tr_offset, b)
          /\ \A x : [v EXCEPT !.sent = x] = Shown(todo, pk.hsn, pk.hsent, x, b)
          /\ w.status = m.hsn /\ w.head = m.hsent /\ w.sent = m.tr_offset
      BY <3>1, <3>2, ShownFields
    <3> HIDE DEF v, w, b, todo
    <3>4. CASE m.hsn = pk.hsn /\ m.tr_offset = pk.tr_offset /\ m.hsent = pk.hsent
      BY <3>1, <3>2, <3>4 DEF Moves
    <3>5. CASE /\ ~b /\ pk.hsn = 0 /\ m.hsn \in {200, 404, 400}
               /\ m.tr_offset = pk.tr_offset /\ m.hsent = pk.hsent
               /\ (m.hsn = 400 <=> pk.uri = BadGet)
      <4>1. Responds(v, w)
        BY <3>1, <3>2, <3>3, <3>5 DEF Responds
      <4>2. QED
        BY <4>1 DEF Moves
    <3>6. CASE /\ ~b /\ pk.hsn = 200 /\ m.hsn = 200 /\ m.tr_offset = pk.tr_offset
               /\ pk.hsent = 0 /\ m.hsent \in 1 .. HeadSize
      <4>1. Heads(v, w)
        BY <3>1, <3>2, <3>3, <3>6 DEF Heads
      <4>2. QED
        BY <4>1 DEF Moves
    <3>7. CASE /\ ~b /\ pk.hsn = 200 /\ m.hsn = 200 /\ pk.hsent > 0 /\ m.hsent = pk.hsent
               /\ pk.tr_offset < m.tr_offset /\ m.tr_offset <= pk.tr_offset + MAXWB
               /\ m.tr_offset <= FileSize[pk.uri]
      <4>1. Sends(v, w)
        BY <3>1, <3>2, <3>3, <3>7 DEF Sends
      <4>2. QED
        BY <4>1 DEF Moves
    <3>8. QED
      BY <3>4, <3>5, <3>6, <3>7 DEF GoesOn, b
  <2>3. QED
    BY <2>1, <2>2
<1>5. ASSUME NEW cn \in 1 .. MaxConns
      PROVE  Moves(ViewOf(a, cn), ViewOf(s, cn), Lost(s.cache))
  <2>1. CASE cn = c
    BY <1>4, <2>1
  <2>2. CASE cn # c
    BY <1>2, <2>2 DEF Moves
  <2>3. QED
    BY <2>1, <2>2
<1>6. QED
  BY <1>1, <1>5 DEF Serves

\* A handler that works for the package on turn serves its client.
LEMMA LeadsServes ==
  ASSUME NEW a, Ready(a, {}), NEW r, Ready(r, {}), NEW p \in DOMAIN a.pkg, First(a.pkg, p),
         Leads(a, r, p)
  PROVE  Serves(a, r)
<1>1. CASE Works(a, r, p) /\ GoesOn(a, r, p)
  <2>1. Follows(a, r, p) /\ r.conn = a.conn
    BY <1>1, WorksFollows DEF Works
  <2>2. First(r.pkg, p)
    <3>1. /\ DOMAIN r.pkg = DOMAIN a.pkg /\ r.pkg[p].ppg = a.pkg[p].ppg
          /\ r.pkg[p].lcg = a.pkg[p].lcg
          /\ \A q \in DOMAIN a.pkg : r.pkg[q].nsg = a.pkg[q].nsg
      BY <1>1 DEF Works
    <3>2. QED
      BY <3>1 DEF First
  <2>3. QED
    BY <1>1, <2>1, <2>2, FollowsServes
<1>2. CASE \E u : /\ Ready(u, {p}) /\ Follows(a, u, p) /\ r = svr_http_final(u, p)
                  /\ a.pkg[p].ppg # NULL => Over(a.pkg[p], u.conn, u.cache)
  <2>1. PICK u : /\ Ready(u, {p}) /\ Follows(a, u, p) /\ r = svr_http_final(u, p)
                 /\ a.pkg[p].ppg # NULL => Over(a.pkg[p], u.conn, u.cache)
    BY <1>2
  <2>2. p \in {p}
    OBVIOUS
  <2>3. Serves(a, svr_http_final(u, p))
    BY <2>1, <2>2, FinalServes
  <2>4. QED
    BY <2>1, <2>3
<1>3. QED
  BY <1>1, <1>2 DEF Leads

\* A handler after which every client sees the same.
LEMMA UnseenServes ==
  ASSUME NEW s, Ready(s, {}), NEW t, Unseen(s, t)
  PROVE  Serves(s, t)
<1>1. Addresses(s.pkg)
  BY ReadyParts
<1>2. ASSUME NEW cn PROVE ViewOf(t, cn) = ViewOf(s, cn)
  <2>1. /\ PackagesIn(t.pkg, cn) = PackagesIn(s.pkg, cn) /\ t.conn = s.conn
        /\ \A q \in PackagesIn(s.pkg, cn) : SameAnswer(s.pkg[q], t.pkg[q])
    BY DEF Unseen, PackagesIn, SameAnswer
  <2>2. QED
    BY <1>1, <2>1, ViewFrame DEF ViewOf
<1>3. Lost(s.cache) \subseteq Lost(t.cache)
  BY DEF Unseen
<1>4. QED
  BY <1>2, <1>3 DEF Serves, Moves

\* A connection that waits for something shows it.
LEMMA ShownOnTurn ==
  ASSUME NEW s, NEW R, Ready(s, R), NEW p \in DOMAIN s.pkg, First(s.pkg, p)
  PROVE  \E todo, status, head, sent :
            /\ status # -1
            /\ \A cs : View(cs, s.pkg, s.pkg[p].cpn) =
                         Shown(todo, status, head, sent, BrokenIn(cs, s.pkg[p].cpn))
<1>1. Addresses(s.pkg) /\ Linked(s.conn, s.pkg) /\ s.pkg[p] \in Package
  BY ReadyParts DEF Addresses
<1>2. CASE s.pkg[p].ppg = NULL
  <2> DEFINE c == s.pkg[p].cpn
  <2>1. \A cs : View(cs, s.pkg, c) = Shown(<<>>, 0, 0, 0, BrokenIn(cs, c))
    BY <1>1, <1>2, ViewOfRoot
  <2>2. 0 # -1
    OBVIOUS
  <2> HIDE DEF c
  <2>3. \E todo, status, head, sent :
           /\ status # -1
           /\ \A cs : View(cs, s.pkg, c) = Shown(todo, status, head, sent, BrokenIn(cs, c))
    BY <2>1, <2>2, Zenon
  <2>4. QED
    BY <2>3 DEF c
<1>3. CASE s.pkg[p].ppg # NULL
  <2>1. s.pkg[p].hsn # -1
    BY <1>1 DEF Package
  <2> DEFINE c == s.pkg[p].cpn
  <2>2. \A cs : View(cs, s.pkg, c) =
                   Shown(Todo(s.pkg, c), s.pkg[p].hsn, s.pkg[p].hsent, s.pkg[p].tr_offset,
                         BrokenIn(cs, c))
    BY <1>1, <1>3, ViewOnTurn
  <2> HIDE DEF c
  <2>3. \E todo, status, head, sent :
           /\ status # -1
           /\ \A cs : View(cs, s.pkg, c) = Shown(todo, status, head, sent, BrokenIn(cs, c))
    BY <2>1, <2>2, Zenon
  <2>4. QED
    BY <2>3 DEF c
<1>4. QED
  BY <1>2, <1>3

\* The connection of a package on turn breaks.
LEMMA BreakServes ==
  ASSUME NEW s, Ready(s, {}), NEW p \in DOMAIN s.pkg, First(s.pkg, p), NEW r,
         r.pkg = s.pkg, r.cache = s.cache, Stopped(s.conn, r.conn, s.pkg[p].cpn),
         BrokenIn(r.conn, s.pkg[p].cpn)
  PROVE  Serves(s, r)
<1> DEFINE c == s.pkg[p].cpn
<1>1. Addresses(s.pkg) /\ Linked(s.conn, s.pkg)
  BY ReadyParts
<1>2. PICK todo, status, head, sent :
         /\ status # -1
         /\ \A cs : View(cs, s.pkg, c) = Shown(todo, status, head, sent, BrokenIn(cs, c))
  BY ShownOnTurn
<1>3. Moves(ViewOf(s, c), ViewOf(r, c), Lost(r.cache))
  <2> DEFINE v == Shown(todo, status, head, sent, BrokenIn(s.conn, c))
  <2>1. ViewOf(s, c) = v /\ ViewOf(r, c) = Shown(todo, status, head, sent, BrokenIn(r.conn, c))
    BY <1>2 DEF ViewOf
  <2>2. BrokenIn(r.conn, c) = TRUE
    BY DEF BrokenIn
  <2>3. [v EXCEPT !.broken = TRUE] = Shown(todo, status, head, sent, TRUE)
    <3>1. PICK y, x : y = BrokenIn(s.conn, c) /\ x = TRUE
      OBVIOUS
    <3>2. [Shown(todo, status, head, sent, y) EXCEPT !.broken = x] =
            Shown(todo, status, head, sent, x)
      BY ShownFields
    <3>3. QED
      BY <3>1, <3>2, Zenon
  <2>4. v # Nothing
    BY <1>2, NothingIsNot
  <2> HIDE DEF v, c
  <2>5. v # Nothing /\ ViewOf(r, c) = [v EXCEPT !.broken = TRUE]
    BY <2>1, <2>2, <2>3, <2>4
  <2>6. QED
    BY <2>1, <2>5 DEF Moves
<1>4. ASSUME NEW cn, cn # c PROVE ViewOf(r, cn) = ViewOf(s, cn)
  <2>1. PackagesIn(s.pkg, cn) # {} => cn \in DOMAIN s.conn
    BY <1>1 DEF PackagesIn, Linked, LinksOf
  <2>2. PackagesIn(s.pkg, cn) # {} => r.conn[cn] = s.conn[cn]
    BY <1>4, <2>1 DEF Stopped
  <2>3. \A q \in PackagesIn(s.pkg, cn) : SameAnswer(s.pkg[q], r.pkg[q])
    BY DEF SameAnswer
  <2>4. QED
    BY <1>1, <2>2, <2>3, ViewFrame DEF ViewOf
<1> HIDE DEF c
<1>5. ASSUME NEW cn \in 1 .. MaxConns PROVE Moves(ViewOf(s, cn), ViewOf(r, cn), Lost(r.cache))
  <2>1. CASE cn = c
    BY <1>3, <2>1
  <2>2. CASE cn # c
    BY <1>4, <2>2 DEF Moves
  <2>3. QED
    BY <2>1, <2>2
<1>6. QED
  BY <1>5 DEF Serves

\* The GETs that wait for a block are on different connections; when they are ended
\* one after the other because the block could not be read, each client sees its
\* GET finished.
LEMMA FinalsServe ==
  ASSUME NEW s, Ready(s, {}), NEW u, NEW queue \in Seq(1 .. MaxPkgs), IsInjective(queue),
         Ready(u, Range(queue)), u.pkg = s.pkg,
         \A q \in Range(queue) :
             /\ s.pkg[q].ppg # NULL /\ s.pkg[q].wst = "BODY" /\ Writable(u.conn, u.pkg[q])
             /\ ~BrokenIn(s.conn, s.pkg[q].cpn) /\ s.pkg[q].uri \in Lost(u.cache),
         \A cn \in DOMAIN s.conn :
             u.conn[cn] = s.conn[cn] \/ \E q \in Range(queue) : s.pkg[q].cpn = cn,
         Lost(s.cache) \subseteq Lost(u.cache)
  PROVE  Ready(Finals(u, queue), {}) /\ Serves(s, Finals(u, queue))
<1> DEFINE n == Len(queue)
           lost == Lost(u.cache)
           conns(i) == {s.pkg[queue[j]].cpn : j \in 1 .. i}
<1>1. n \in Nat /\ DOMAIN queue = 1 .. n /\ \A i \in 1 .. n : queue[i] \in Range(queue)
  BY DEF Range
<1>2. \A q \in Range(queue) :
         u.pkg[q].ppg # NULL /\ Writable(u.conn, u.pkg[q]) /\ u.pkg[q].wst = "BODY"
  OBVIOUS
<1>3. PICK f : /\ f[0] = u /\ Finals(u, queue) = f[n] /\ Ready(f[n], {})
               /\ \A i \in 1 .. n :
                     /\ f[i] = svr_http_final(f[i - 1], queue[i])
                     /\ Ready(f[i - 1], After(queue, i - 1)) /\ queue[i] \in After(queue, i - 1)
                     /\ f[i - 1].pkg[queue[i]] = u.pkg[queue[i]] /\ f[i - 1].conn = u.conn
  BY <1>2, FinalsRun
<1> DEFINE Seen(i) == /\ f[i].cache = u.cache
                      /\ \A cn \in 1 .. MaxConns :
                            /\ cn \notin conns(i) => ViewOf(f[i], cn) = ViewOf(u, cn)
                            /\ cn \in conns(i) => Moves(ViewOf(s, cn), ViewOf(f[i], cn), lost)
           S == {i \in 0 .. n : Seen(i)}
<1>4. /\ Addresses(s.pkg) /\ Linked(s.conn, s.pkg) /\ Linked(u.conn, u.pkg)
      /\ \A q \in Range(queue) : q \in DOMAIN s.pkg /\ First(s.pkg, q)
  <2>1. \A q \in Range(queue) : q \in DOMAIN u.pkg /\ First(u.pkg, q)
    BY RunningFacts
  <2>2. QED
    BY <2>1, ReadyParts
<1>5. 0 \in S
  <2>1. conns(0) = {}
    OBVIOUS
  <2>2. Seen(0)
    BY <1>3, <2>1
  <2>3. QED
    BY <1>1, <2>2
<1>6. ASSUME NEW i \in 1 .. n, i - 1 \in S PROVE i \in S
  <2> DEFINE a == f[i - 1]
             b == f[i]
             p == queue[i]
             c == s.pkg[p].cpn
             R == After(queue, i - 1)
  <2>1. Seen(i - 1)
    BY <1>6
  <2>2. /\ Ready(a, R) /\ p \in R /\ a.pkg[p] = s.pkg[p] /\ a.conn = u.conn
        /\ b = svr_http_final(a, p)
    BY <1>3
  <2>3. p \in Range(queue) /\ p \in DOMAIN s.pkg /\ First(s.pkg, p) /\ s.pkg[p].ppg # NULL
    BY <1>1, <1>4
  <2>4. /\ ~BrokenIn(s.conn, c) /\ s.pkg[p].uri \in lost
    BY <2>3
  <2>5. conns(i) = conns(i - 1) \cup {c}
    <3>1. 1 .. i = (1 .. i - 1) \cup {i}
      BY <1>1
    <3>2. QED
      BY <3>1
  <2>6. c \notin conns(i - 1)
    <3>1. SUFFICES ASSUME NEW j \in 1 .. i - 1, s.pkg[queue[j]].cpn = c PROVE FALSE
      OBVIOUS
    <3>2. j \in 1 .. n /\ j # i
      BY <1>1
    <3>3. queue[j] \in DOMAIN s.pkg /\ First(s.pkg, queue[j])
      BY <1>1, <1>4, <3>2
    <3>4. queue[j] = p
      BY <1>4, <2>3, <3>1, <3>3, OneFirst
    <3>5. QED
      BY <1>1, <3>2, <3>4 DEF IsInjective
  <2>7. c \in 1 .. MaxConns
    BY <1>4, <2>3, ReadyParts DEF Linked, LinksOf, Types
  <2> HIDE DEF a, b, p, R
  <2>8. /\ b.cache = a.cache
        /\ \A cn : cn # c => ViewOf(b, cn) = ViewOf(a, cn)
        /\ ViewOf(b, c) = Shown(Tail(Todo(a.pkg, c)), 0, 0, 0, BrokenIn(a.conn, c))
    BY <2>2, <2>3, FinalViews
  <2>9. /\ ViewOf(u, c) = Shown(Todo(s.pkg, c), s.pkg[p].hsn, s.pkg[p].hsent,
                                s.pkg[p].tr_offset, BrokenIn(u.conn, c))
        /\ ViewOf(s, c) = Shown(Todo(s.pkg, c), s.pkg[p].hsn, s.pkg[p].hsent,
                                s.pkg[p].tr_offset, BrokenIn(s.conn, c))
        /\ Todo(s.pkg, c) # <<>> /\ Head(Todo(s.pkg, c)) = s.pkg[p].uri
    <3>1. p \in DOMAIN s.pkg /\ First(s.pkg, p) /\ s.pkg[p].ppg # NULL
      BY <2>3
    <3>2. ASSUME NEW cs
          PROVE  /\ View(cs, s.pkg, s.pkg[p].cpn) =
                       Shown(Todo(s.pkg, s.pkg[p].cpn), s.pkg[p].hsn, s.pkg[p].hsent,
                             s.pkg[p].tr_offset, BrokenIn(cs, s.pkg[p].cpn))
                 /\ Todo(s.pkg, s.pkg[p].cpn) # <<>>
                 /\ Head(Todo(s.pkg, s.pkg[p].cpn)) = s.pkg[p].uri
      <4> HIDE DEF c, conns
      <4>1. Addresses(s.pkg) /\ Linked(s.conn, s.pkg)
        BY <1>4
      <4>2. QED
        BY <3>1, <4>1, ViewOnTurn, SMTT(60)
    <3>3. u.pkg = s.pkg /\ c = s.pkg[p].cpn
      BY DEF c
    <3>4. QED
      BY <3>2, <3>3 DEF ViewOf
  <2>10. Todo(a.pkg, c) = Todo(s.pkg, c)
    <3>1. Addresses(a.pkg) /\ Linked(a.conn, a.pkg) /\ p \in DOMAIN a.pkg /\ First(a.pkg, p)
      BY <2>2, ReadyParts, RunningFacts
    <3>2. ViewOf(a, c) = Shown(Todo(a.pkg, c), s.pkg[p].hsn, s.pkg[p].hsent,
                               s.pkg[p].tr_offset, BrokenIn(a.conn, c))
      <4>1. a.pkg[p].ppg # NULL /\ a.pkg[p] = s.pkg[p]
        BY <2>2, <2>3
      <4> HIDE DEF c, conns
      <4>2. View(a.conn, a.pkg, a.pkg[p].cpn) =
              Shown(Todo(a.pkg, a.pkg[p].cpn), a.pkg[p].hsn, a.pkg[p].hsent,
                    a.pkg[p].tr_offset, BrokenIn(a.conn, a.pkg[p].cpn))
        BY <3>1, <4>1, ViewOnTurn, SMTT(60)
      <4>3. QED
        BY <4>1, <4>2 DEF ViewOf, c
    <3>3. ViewOf(a, c) = ViewOf(u, c)
      BY <2>1, <2>6, <2>7 DEF a
    <3>4. ViewOf(a, c).todo = Todo(a.pkg, c) /\ ViewOf(u, c).todo = Todo(s.pkg, c)
      BY <2>9, <3>2, ShownFields
    <3>5. QED
      BY <3>3, <3>4
  <2>11. Moves(ViewOf(s, c), ViewOf(b, c), lost)
    <3> DEFINE v == ViewOf(s, c)
               w == ViewOf(b, c)
               todo == Todo(s.pkg, c)
    <3>1. v.todo = todo /\ v.broken = BrokenIn(s.conn, c)
      BY <2>9, ShownFields
    <3>2. w = Shown(Tail(todo), 0, 0, 0, BrokenIn(a.conn, c)) /\ w.broken = BrokenIn(a.conn, c)
      BY <2>8, <2>10, ShownFields
    <3> HIDE DEF v, w, todo
    <3>3. Finishes(v, w, lost)
      BY <2>4, <2>9, <3>1, <3>2 DEF Finishes, todo
    <3>4. QED
      BY <3>3 DEF Moves, v, w
  <2> HIDE DEF conns, lost, c
  <2>12. ASSUME NEW cn \in 1 .. MaxConns
         PROVE  /\ cn \notin conns(i) => ViewOf(b, cn) = ViewOf(u, cn)
                /\ cn \in conns(i) => Moves(ViewOf(s, cn), ViewOf(b, cn), lost)
    <3>1. CASE cn = c
      BY <2>5, <2>11, <3>1
    <3>2. CASE cn # c
      <4>1. ViewOf(b, cn) = ViewOf(a, cn) /\ (cn \in conns(i) <=> cn \in conns(i - 1))
        BY <2>5, <2>8, <3>2
      <4>2. /\ cn \notin conns(i - 1) => ViewOf(a, cn) = ViewOf(u, cn)
            /\ cn \in conns(i - 1) => Moves(ViewOf(s, cn), ViewOf(a, cn), lost)
        BY <2>1 DEF a
      <4>3. QED
        BY <4>1, <4>2
    <3>3. QED
      BY <3>1, <3>2
  <2>13. b.cache = u.cache
    BY <2>1, <2>8 DEF a
  <2>14. Seen(i)
    BY <2>12, <2>13 DEF b
  <2>15. QED
    BY <1>1, <2>14
<1> HIDE DEF S, Seen
<1>7. 0 .. n \subseteq S
  BY <1>1, <1>5, <1>6, Induction
<1>8. Seen(n)
  <2>1. n \in 0 .. n
    BY <1>1
  <2>2. QED
    BY <1>7, <2>1 DEF S
<1>9. ASSUME NEW cn, cn \notin conns(n)
      PROVE  ViewOf(u, cn) = ViewOf(s, cn)
  <2>1. \A q \in Range(queue) : s.pkg[q].cpn # cn
    BY <1>1, <1>9 DEF Range
  <2>2. PackagesIn(s.pkg, cn) # {} => cn \in DOMAIN s.conn
    BY <1>4 DEF PackagesIn, Linked, LinksOf
  <2>3. PackagesIn(s.pkg, cn) # {} => u.conn[cn] = s.conn[cn]
    BY <2>1, <2>2
  <2>4. \A q \in PackagesIn(s.pkg, cn) : SameAnswer(s.pkg[q], u.pkg[q])
    BY DEF SameAnswer
  <2>5. QED
    BY <1>4, <2>3, <2>4, ViewFrame DEF ViewOf
<1>10. ASSUME NEW cn \in 1 .. MaxConns
       PROVE  Moves(ViewOf(s, cn), ViewOf(f[n], cn), Lost(f[n].cache))
  <2>1. f[n].cache = u.cache
    BY <1>8 DEF Seen
  <2>2. CASE cn \in conns(n)
    BY <1>8, <2>1, <2>2 DEF Seen
  <2>3. CASE cn \notin conns(n)
    <3>1. ViewOf(f[n], cn) = ViewOf(s, cn)
      BY <1>8, <1>9, <2>3 DEF Seen
    <3>2. QED
      BY <3>1 DEF Moves
  <2>4. QED
    BY <2>2, <2>3
<1>11. Serves(s, f[n])
  BY <1>8, <1>10 DEF Serves, Seen
<1>12. QED
  BY <1>3, <1>11

\* cancelReservation, after the read of a block failed.
LEMMA CancelServes ==
  ASSUME NEW s, Ready(s, {}), NEW p, Reader(p) \in s.pending,
         NEW t, SameBut(s, t, {"conn", "pending"}),
         t.pending = s.pending \ {Reader(p)},
         Stopped(s.conn, t.conn, s.pkg[p].cpn), Writable(t.conn, s.pkg[p])
  PROVE  /\ Ready(cancelReservation(t, BlockOf(s.pkg[p])), {})
         /\ Serves(s, cancelReservation(t, BlockOf(s.pkg[p])))
<1> DEFINE key == BlockOf(s.pkg[p])
           queue == s.cache[key].queue
           es2 == Cancelled(s.cache, key)
<1>1. /\ Waiting(s.pkg, s.pending, s.cache, {}) /\ Phases(s.conn, s.pkg, s.pending, s.cache)
      /\ Slots(s.conn, s.pkg, s.pending, s.cache, {})
      /\ Types(s.conn, s.nc, s.pkg, s.pending, s.cache)
  BY ReadyParts
<1>2. /\ key \in DOMAIN s.cache /\ s.cache[key].status = "reserved"
      /\ s.cache[key].queue[1] = p
  <2>1. Phase(s.conn, s.cache, "svr_http_body_pio", p, s.pkg[p])
    BY <1>1 DEF Phases, Reader
  <2>2. QED
    BY <2>1 DEF Phase
<1>3. queue \in Seq(1 .. MaxPkgs) /\ IsInjective(queue)
  BY <1>1, <1>2 DEF Slots, Slot, Types, Entry
<1>a. PICK u : CancelFrom(s, p, t, u)
  BY CancelRuns
<1>4. /\ Ready(u, Range(queue)) /\ u.pkg = s.pkg /\ u.conn = t.conn /\ u.cache = es2
      /\ \A q \in Range(queue) :
            u.pkg[q].ppg # NULL /\ Writable(u.conn, u.pkg[q]) /\ u.pkg[q].wst = "BODY"
      /\ cancelReservation(t, key) = Finals(u, queue)
  BY <1>a DEF CancelFrom
<1>5. /\ \A q \in Range(queue) : Fetching(s.conn, s.pkg[q]) /\ BlockOf(s.pkg[q]) = key
      /\ queue # <<>>
  BY <1>1, <1>2 DEF Slots, Slot
<1>6. p \in Range(queue)
  <2>1. 1 \in DOMAIN queue
    BY <1>3, <1>5
  <2>2. QED
    BY <1>2, <2>1 DEF Range
<1>7. DOMAIN es2 = DOMAIN s.cache /\ es2[key].status = "cancelled"
      /\ \A k \in DOMAIN s.cache : k # key => es2[k] = s.cache[k]
  <2>1. s.cache[key] \in Entry
    BY <1>1, <1>2 DEF Types
  <2> HIDE DEF key
  <2>2. QED
    BY <1>2, <2>1 DEF Cancelled
<1> HIDE DEF es2
<1>8. Lost(s.cache) \subseteq Lost(u.cache)
  BY <1>2, <1>4, <1>7, LostKept
<1>9. \A q \in Range(queue) : /\ s.pkg[q].ppg # NULL /\ s.pkg[q].wst = "BODY"
                              /\ Writable(u.conn, u.pkg[q])
                              /\ ~BrokenIn(s.conn, s.pkg[q].cpn) /\ s.pkg[q].uri \in Lost(u.cache)
  <2>1. key[1] \in Lost(u.cache)
    BY <1>2, <1>4, <1>7 DEF Lost
  <2>2. ASSUME NEW q \in Range(queue) PROVE s.pkg[q].uri = key[1]
    <3>1. BlockOf(s.pkg[q]) = key
      BY <1>5
    <3> HIDE DEF key
    <3>2. QED
      BY <3>1 DEF BlockOf, Block
  <2> HIDE DEF key
  <2>3. QED
    BY <1>4, <1>5, <2>1, <2>2 DEF Fetching, BrokenIn
<1>10. \A cn \in DOMAIN s.conn : u.conn[cn] = s.conn[cn] \/ \E q \in Range(queue) : s.pkg[q].cpn = cn
  BY <1>4, <1>6 DEF Stopped
<1> HIDE DEF key, queue
<1>11. Ready(Finals(u, queue), {}) /\ Serves(s, Finals(u, queue))
  BY <1>3, <1>4, <1>8, <1>9, <1>10, FinalsServe
<1>12. QED
  BY <1>4, <1>11 DEF key

LEMMA BlockReadFails ==
  ASSUME NEW s, Ready(s, {}), NEW h, h = "svr_http_body_pio", NEW p,
         Callback(h, p) \in s.pending
  PROVE  /\ Ready(svr_http_final_aio(Begun(s, h, p), p), {})
         /\ Serves(s, svr_http_final_aio(Begun(s, h, p), p))
<1> DEFINE pk == s.pkg[p]
           b == Begun(s, h, p)
           a == StopWrite(b, pk.cpn)
<1>1. IsState(s) /\ Phase(s.conn, s.cache, h, p, pk) /\ pk.cpn \in DOMAIN s.conn
  BY CallbackFacts
<1>2. s.conn[pk.cpn] = "CONNECTED" /\ pk.hst = "FETCHING" /\ pk.wst = "BODY"
  BY <1>1 DEF Phase, Fetching
<1>3. Reader(p) = Callback(h, p)
  BY DEF Reader, Callback
<1>4. /\ SameBut(s, b, {"pending"}) /\ b.pending = s.pending \ {Callback(h, p)}
      /\ b.conn = s.conn /\ b.pkg = s.pkg
  BY <1>1, BegunFields
<1> HIDE DEF b
<1>5. svr_http_final_aio(b, p) = cancelReservation(a, BlockOf(pk))
  <2>1. BodyKey(pk.uri, pk.bodykey) = BlockOf(pk)
    BY <1>1, PlainKeys DEF Phase, Fetching, BlockOf
  <2> HIDE DEF BlockOf
  <2>2. QED
    BY <1>2, <1>4, <2>1 DEF svr_http_final_aio, StopWrite
<1>6. IsState(b)
  BY <1>4 DEF SameBut
<1>7. SameBut(b, a, {"conn"}) /\ Stopped(s.conn, a.conn, pk.cpn) /\ a.conn[pk.cpn] = "CLOSING_W"
  BY <1>1, <1>2, <1>4, <1>6, StopWriteFields
<1> HIDE DEF a
<1>8. SameBut(s, a, {"conn", "pending"}) /\ a.pending = s.pending \ {Reader(p)}
  BY <1>3, <1>4, <1>7 DEF SameBut
<1>9. Writable(a.conn, s.pkg[p]) /\ Stopped(s.conn, a.conn, s.pkg[p].cpn)
      /\ Reader(p) \in s.pending
  BY <1>3, <1>7 DEF Writable
<1>10. /\ Ready(cancelReservation(a, BlockOf(s.pkg[p])), {})
       /\ Serves(s, cancelReservation(a, BlockOf(s.pkg[p])))
  BY <1>8, <1>9, CancelServes
<1>11. QED
  BY <1>5, <1>10 DEF b

\* svr_http_final_aio, whatever operation failed.
LEMMA FailRuns ==
  ASSUME NEW s, Ready(s, {}), NEW h \in Handlers \ {"svr_http_read", "svr_http_fetch"}, NEW p,
         Callback(h, p) \in s.pending
  PROVE  LET r == svr_http_final_aio(Begun(s, h, p), p) IN Outcome(r) /\ Serves(s, r)
<1> DEFINE b == Begun(s, h, p)
           r == svr_http_final_aio(b, p)
<1>1. /\ IsState(s) /\ p \in DOMAIN s.pkg /\ s.pkg[p] \in Package /\ First(s.pkg, p)
      /\ LinksOf(s.conn, s.pkg, p) /\ Phase(s.conn, s.cache, h, p, s.pkg[p])
  BY CallbackFacts
<1>2. ASSUME Ready(r, {}), Leads(s, r, p)
      PROVE  Outcome(r) /\ Serves(s, r)
  <2> HIDE DEF r
  <2>1. QED
    BY <1>1, <1>2, LeadsServes DEF Outcome
<1>3. CASE h = "svr_http_parse_aio"
  <2>1. s.pkg[p].hst = "READING" /\ s.pkg[p].wst = "UNO"
    BY <1>1, <1>3 DEF Phase, LinksOf
  <2>2. SameBut(s, b, {"pending"}) /\ b.pkg = s.pkg
    BY <1>1, BegunFields
  <2>3. b = Begun(s, "svr_http_parse_aio", p) /\ Callback("svr_http_parse_aio", p) \in s.pending
    BY <1>3
  <2> HIDE DEF b
  <2>4. SameBut(b, b, {"pkg"}) /\ Changed(b, b, p)
    BY <1>1, <2>2 DEF SameBut, Changed, SameRequest
  <2>5. b.pkg[p].hst \in {"READING", "PARSING"} /\ b.pkg[p].wst = "UNO"
    BY <2>1, <2>2
  <2>6. Ready(svr_http_final_aio(b, p), {}) /\ Leads(s, svr_http_final_aio(b, p), p)
    BY <2>3, <2>4, <2>5, ReadFails
  <2>7. QED
    BY <1>2, <2>6 DEF b
<1>4. CASE h = "svr_http_header_to_body_aio"
  BY <1>2, <1>4, HeaderWriteFails
<1>5. CASE h = "svr_http_body_rio"
  <2>1. Answering400(s.pkg[p]) \/ WritingBlock(s.cache, s.pkg[p])
    BY <1>1, <1>5 DEF Phase
  <2>2. CASE WritingBlock(s.cache, s.pkg[p])
    BY <1>2, <1>5, <2>2, BlockWriteFails
  <2>3. CASE Answering400(s.pkg[p])
    <3>1. /\ Outcome(r) /\ r.pkg = s.pkg /\ r.cache = s.cache
          /\ Stopped(s.conn, r.conn, s.pkg[p].cpn) /\ BrokenIn(r.conn, s.pkg[p].cpn)
      BY <1>5, <2>3, BadRequestFails
    <3> HIDE DEF r
    <3>2. Serves(s, r)
      BY <1>1, <3>1, BreakServes
    <3>3. QED
      BY <3>1, <3>2 DEF r
  <2>4. QED
    BY <2>1, <2>2, <2>3
<1>6. CASE h = "svr_http_body_pio"
  BY <1>6, BlockReadFails DEF Outcome
<1>7. QED
  BY <1>3, <1>4, <1>5, <1>6 DEF Handlers

\* A handler that changes what one client sees.
LEMMA OneServed ==
  ASSUME NEW a, Ready(a, {}), NEW r, NEW c, Lost(a.cache) \subseteq Lost(r.cache),
         \A x \in DOMAIN a.conn : x # c => r.conn[x] = a.conn[x],
         \A x : x # c =>
            /\ PackagesIn(r.pkg, x) = PackagesIn(a.pkg, x)
            /\ \A q \in PackagesIn(a.pkg, x) : SameAnswer(a.pkg[q], r.pkg[q]),
         Moves(ViewOf(a, c), ViewOf(r, c), Lost(r.cache))
  PROVE  Serves(a, r)
<1>1. Addresses(a.pkg) /\ Linked(a.conn, a.pkg)
  BY ReadyParts
<1>2. ASSUME NEW x, x # c PROVE ViewOf(r, x) = ViewOf(a, x)
  <2>1. PackagesIn(a.pkg, x) # {} => x \in DOMAIN a.conn
    BY <1>1 DEF PackagesIn, Linked, LinksOf
  <2>2. PackagesIn(a.pkg, x) # {} => r.conn[x] = a.conn[x]
    BY <1>2, <2>1
  <2>3. QED
    BY <1>1, <1>2, <2>2, ViewFrame DEF ViewOf
<1>3. ASSUME NEW x \in 1 .. MaxConns PROVE Moves(ViewOf(a, x), ViewOf(r, x), Lost(r.cache))
  <2>1. CASE x = c
    BY <2>1
  <2>2. CASE x # c
    BY <1>2, <2>2 DEF Moves
  <2>3. QED
    BY <2>1, <2>2
<1>4. QED
  BY <1>3 DEF Serves

\* GETs have been read.
LEMMA ReceiveServes ==
  ASSUME NEW a, Ready(a, {}), NEW p \in DOMAIN a.pkg, First(a.pkg, p), a.pkg[p].ppg = NULL,
         ~BrokenIn(a.conn, a.pkg[p].cpn),
         NEW r, Ready(r, {}), r.conn = a.conn, Lost(a.cache) \subseteq Lost(r.cache),
         NEW x \in DOMAIN r.pkg, First(r.pkg, x), r.pkg[x].ppg # NULL,
         r.pkg[x].cpn = a.pkg[p].cpn, Fresh(r.pkg[x]),
         \A c : c # a.pkg[p].cpn =>
            /\ PackagesIn(r.pkg, c) = PackagesIn(a.pkg, c)
            /\ \A q \in PackagesIn(a.pkg, c) : SameAnswer(a.pkg[q], r.pkg[q])
  PROVE  Serves(a, r)
<1> DEFINE c == a.pkg[p].cpn
           v == ViewOf(a, c)
           w == ViewOf(r, c)
           todo == Todo(r.pkg, c)
<1>1. Addresses(a.pkg) /\ Linked(a.conn, a.pkg) /\ Addresses(r.pkg) /\ Linked(r.conn, r.pkg)
  BY ReadyParts
<1>2. BrokenIn(a.conn, c) = FALSE /\ BrokenIn(r.conn, c) = FALSE
  BY DEF BrokenIn
<1>3. v = Shown(<<>>, 0, 0, 0, FALSE)
  <2>1. View(a.conn, a.pkg, a.pkg[p].cpn) = Shown(<<>>, 0, 0, 0, BrokenIn(a.conn, a.pkg[p].cpn))
    BY <1>1, ViewOfRoot
  <2>2. QED
    BY <1>2, <2>1 DEF ViewOf
<1>4. w = Shown(todo, 0, 0, 0, FALSE) /\ todo # <<>>
  <2>1. /\ View(r.conn, r.pkg, c) = Shown(todo, r.pkg[x].hsn, r.pkg[x].hsent,
                                         r.pkg[x].tr_offset, BrokenIn(r.conn, c))
        /\ todo # <<>>
    BY <1>1, ViewOnTurn
  <2>2. r.pkg[x].hsn = 0 /\ r.pkg[x].hsent = 0 /\ r.pkg[x].tr_offset = 0
    BY DEF Fresh
  <2>3. QED
    BY <1>2, <2>1, <2>2 DEF ViewOf
<1>5. w.todo = todo
  <2> HIDE DEF w, todo
  <2>1. QED
    BY <1>4 DEF Shown
<1>6. Moves(v, w, Lost(r.cache))
  <2> HIDE DEF v, w, todo
  <2>1. QED
    BY <1>3, <1>4, <1>5 DEF Moves
<1>7. QED
  BY <1>6, OneServed

\* A connection has been accepted.
LEMMA OpenServes ==
  ASSUME NEW a, Ready(a, {}), NEW r, Ready(r, {}), Lost(a.cache) \subseteq Lost(r.cache),
         NEW x \in DOMAIN r.pkg, First(r.pkg, x), r.pkg[x].ppg = NULL,
         NEW c, r.pkg[x].cpn = c, PackagesIn(a.pkg, c) = {}, r.conn[c] = "CONNECTED",
         \A y \in DOMAIN a.conn : y # c => r.conn[y] = a.conn[y],
         \A y : y # c =>
            /\ PackagesIn(r.pkg, y) = PackagesIn(a.pkg, y)
            /\ \A q \in PackagesIn(a.pkg, y) : SameAnswer(a.pkg[q], r.pkg[q])
  PROVE  Serves(a, r)
<1> DEFINE v == ViewOf(a, c)
           w == ViewOf(r, c)
<1>1. Addresses(r.pkg) /\ Linked(r.conn, r.pkg)
  BY ReadyParts
<1>2. BrokenIn(r.conn, c) = FALSE
  BY DEF BrokenIn
<1>3. v = Nothing
  BY DEF ViewOf, View
<1>4. w = Shown(<<>>, 0, 0, 0, FALSE)
  <2>1. View(r.conn, r.pkg, r.pkg[x].cpn) = Shown(<<>>, 0, 0, 0, BrokenIn(r.conn, r.pkg[x].cpn))
    BY <1>1, ViewOfRoot
  <2>2. QED
    BY <1>2, <2>1 DEF ViewOf
<1>5. Moves(v, w, Lost(r.cache))
  <2> HIDE DEF v, w
  <2>1. QED
    BY <1>3, <1>4 DEF Moves
<1>6. QED
  BY <1>5, OneServed

(***************************************************************************)
(* New packages                                                            *)
(***************************************************************************)

\* Packages and at most one connection are added, and x is the new package whose
\* turn it is.
Grown(s, t, R, x) ==
    /\ SameBut(s, t, {"conn", "nc", "pkg"})
    /\ Types(t.conn, t.nc, t.pkg, t.pending, t.cache)
    /\ Linked(t.conn, t.pkg) /\ Sizes(t.conn, t.nc, t.pkg)
    /\ \A c \in DOMAIN s.conn : c \in DOMAIN t.conn /\ t.conn[c] = s.conn[c]
    /\ DOMAIN s.pkg \subseteq DOMAIN t.pkg
    /\ \A q \in DOMAIN s.pkg \ R :
          t.pkg[q] = s.pkg[q] /\ (First(t.pkg, q) <=> First(s.pkg, q))
    /\ \A q \in R : t.pkg[q].ppg = NULL /\ ~First(t.pkg, q)
    /\ x \in DOMAIN t.pkg \ DOMAIN s.pkg /\ First(t.pkg, x)
    /\ \A q \in DOMAIN t.pkg \ DOMAIN s.pkg :
          Fresh(t.pkg[q]) /\ (q # x => ~First(t.pkg, q))

LEMMA GrownReady ==
  ASSUME NEW s, NEW R, Ready(s, R), NEW t, NEW x, Grown(s, t, R, x),
         \A q \in R : t.pkg[q].cbody = -1 \/ t.pkg[q].cached
  PROVE  Ready(t, {x})
<1> DEFINE cs == s.conn
           ps == s.pkg
           ts == s.pending
           es == s.cache
           cs2 == t.conn
           ps2 == t.pkg
<1>1. IsState(t) /\ t.abort = "none" /\ t.pending = ts /\ t.cache = es
  BY ReadyParts DEF Grown, SameBut
<1>2. /\ Types(cs, s.nc, ps, ts, es) /\ Linked(cs, ps) /\ Waiting(ps, ts, es, R)
      /\ Phases(cs, ps, ts, es) /\ Slots(cs, ps, ts, es, R)
      /\ Blocks(ps, ts, es, R) /\ Counts(ps, es, R)
  BY ReadyParts
<1>3. /\ Types(cs2, t.nc, ps2, ts, es) /\ Linked(cs2, ps2) /\ Sizes(cs2, t.nc, ps2)
  BY <1>1 DEF Grown
<1>4. /\ R \subseteq DOMAIN ps /\ DOMAIN ps \subseteq DOMAIN ps2
      /\ \A q \in DOMAIN ps \ R : ps2[q] = ps[q] /\ (First(ps2, q) <=> First(ps, q))
      /\ \A q \in R : ps2[q].ppg = NULL /\ ~First(ps2, q)
      /\ x \in DOMAIN ps2 \ DOMAIN ps /\ First(ps2, x)
      /\ \A q \in DOMAIN ps2 \ DOMAIN ps : Fresh(ps2[q]) /\ (q # x => ~First(ps2, q))
  BY <1>2 DEF Grown, Waiting
<1>5. \A q \in DOMAIN ps : cs2[ps[q].cpn] = cs[ps[q].cpn]
  BY <1>2 DEF Grown, Linked, LinksOf
<1>6. Waiting(ps2, ts, es, {x})
  <2>1. \A u \in ts : u.pk \in DOMAIN ps2 \ {x} /\ First(ps2, u.pk)
    BY <1>2, <1>4 DEF Waiting
  <2>2. ASSUME NEW q \in DOMAIN ps2 \ {x}, First(ps2, q)
        PROVE  InQueue(ps2, es, q) \/ \E u \in ts : u.pk = q
    <3>1. q \in DOMAIN ps \ R /\ First(ps, q) /\ ps2[q] = ps[q]
      BY <1>4, <2>2
    <3>2. InQueue(ps, es, q) \/ \E u \in ts : u.pk = q
      BY <1>2, <3>1 DEF Waiting
    <3>3. QED
      BY <3>1, <3>2 DEF InQueue
  <2>3. QED
    BY <1>2, <1>4, <2>1, <2>2 DEF Waiting
<1>7. Phases(cs2, ps2, ts, es)
  <2>1. ASSUME NEW u \in ts PROVE Phase(cs2, es, u.handler, u.pk, ps2[u.pk])
    <3>1. u.pk \in DOMAIN ps \ R /\ Phase(cs, es, u.handler, u.pk, ps[u.pk])
      BY <1>2 DEF Waiting, Phases
    <3>2. ps2[u.pk] = ps[u.pk] /\ cs2[ps[u.pk].cpn] = cs[ps[u.pk].cpn]
      BY <1>4, <1>5, <3>1
    <3>3. Phase(cs2, es, u.handler, u.pk, ps[u.pk])
      BY <3>1, <3>2, PhaseFrame
    <3>4. QED
      BY <3>2, <3>3
  <2>2. ASSUME NEW q \in DOMAIN ps2, ps2[q].ppg # NULL, ~First(ps2, q)
        PROVE  Fresh(ps2[q])
    <3>1. CASE q \in DOMAIN ps
      BY <1>2, <1>4, <2>2, <3>1 DEF Phases
    <3>2. CASE q \notin DOMAIN ps
      BY <1>4, <3>2
    <3>3. QED
      BY <3>1, <3>2
  <2>3. QED
    BY <2>1, <2>2 DEF Phases
<1>8. Slots(cs2, ps2, ts, es, {x})
  <2>1. ASSUME NEW k \in DOMAIN es PROVE Slot(cs2, ps2, ts, {x}, k, es[k])
    <3>1. Slot(cs, ps, ts, R, k, es[k])
      BY <1>2 DEF Slots
    <3>2. ASSUME es[k].status = "reserved", NEW q \in Range(es[k].queue)
          PROVE  /\ q \in DOMAIN ps2 \ {x} /\ First(ps2, q)
                 /\ Fetching(cs2, ps2[q]) /\ BlockOf(ps2[q]) = k
                 /\ \A u \in ts : u.pk = q => u = Reader(q)
      <4>1. /\ q \in DOMAIN ps \ R /\ First(ps, q)
            /\ Fetching(cs, ps[q]) /\ BlockOf(ps[q]) = k
            /\ \A u \in ts : u.pk = q => u = Reader(q)
        BY <3>1, <3>2 DEF Slot
      <4>2. ps2[q] = ps[q] /\ First(ps2, q) /\ q \in DOMAIN ps2 \ {x}
        BY <1>4, <4>1
      <4>3. Fetching(cs2, ps2[q])
        BY <1>5, <4>1, <4>2 DEF Fetching
      <4>4. QED
        BY <4>1, <4>2, <4>3
    <3>3. QED
      BY <3>1, <3>2 DEF Slot
  <2>2. QED
    BY <2>1 DEF Slots
<1>9. Blocks(ps2, ts, es, {x})
  <2>1. ASSUME NEW q \in DOMAIN ps2, ps2[q].cbody # -1, ~ps2[q].cached
        PROVE  q \in DOMAIN ps \ R
    BY <1>4, <2>1 DEF Fresh
  <2>2. ASSUME NEW q \in DOMAIN ps2, ps2[q].cbody # -1, ~ps2[q].cached
        PROVE  LET k == Block(ps2[q].uri, ps2[q].cbody) IN
               /\ k \in DOMAIN es /\ es[k].status # "filled"
               /\ q \in {x} \/ Reader(q) \in ts
    <3>1. q \in DOMAIN ps \ R
      BY <2>1, <2>2
    <3>2. ps2[q] = ps[q]
      BY <1>4, <3>1
    <3>3. QED
      BY <1>2, <2>2, <3>1, <3>2 DEF Blocks
  <2>3. QED
    BY <2>2 DEF Blocks
<1>10. Counts(ps2, es, {x})
  <2>1. ASSUME NEW k PROVE Users(ps2, {x}, k) = Users(ps, R, k)
    <3>1. \A q \in R : ~Uses(ps2[q], k)
      <4>1. \A q \in R : q \in DOMAIN ps2 /\ ps2[q].ppg = NULL
        BY <1>4
      <4>2. \A q \in R : ps2[q].wst = "UNO"
        BY <1>3, <4>1 DEF Linked, LinksOf
      <4>3. QED
        BY <4>2 DEF Uses
    <3>2. \A q \in DOMAIN ps2 \ DOMAIN ps : ~Uses(ps2[q], k)
      BY <1>4 DEF Fresh, Uses
    <3>3. QED
      BY <1>4, <3>1, <3>2 DEF Users
  <2>2. QED
    BY <1>2, <2>1 DEF Counts
<1>11. QED
  BY <1>1, <1>3, <1>6, <1>7, <1>8, <1>9, <1>10 DEF Ready, Good

\* The GETs of a read become the children of the root p.
Born(ps, ps2, p, requests, addr, n) ==
    /\ DOMAIN ps2 = DOMAIN ps \cup {addr[i] : i \in 1 .. n}
    /\ \A q \in DOMAIN ps : q # p => ps2[q] = ps[q]
    /\ ps2[p] = [ps[p] EXCEPT !.lcg = addr[n]]
    /\ \A i \in 1 .. n :
          ps2[addr[i]] = NewPackage(ps[p].cpn, requests[i], p,
                                    IF i = n THEN NULL ELSE addr[i + 1])

\* Addresses that were free, in increasing order.
Allocated(ps, addr, n) ==
    /\ \A i \in 1 .. n : addr[i] \in (1 .. MaxPkgs) \ DOMAIN ps
    /\ \A i, j \in 1 .. n : i < j => addr[i] < addr[j]

IsNew(m, cn, uri, parent, sibling) ==
    /\ m \in Package /\ Fresh(m) /\ m.uri = uri /\ m.cpn = cn
    /\ m.ppg = parent /\ m.lcg = NULL /\ m.nsg = sibling

LEMMA NewFields ==
  ASSUME NEW cn \in Nat, NEW uri \in Plain \cup {BadGet, NoGet}, NEW parent \in Nat,
         NEW sibling \in Nat
  PROVE  IsNew(NewPackage(cn, uri, parent, sibling), cn, uri, parent, sibling)
<1> DEFINE m == NewPackage(cn, uri, parent, sibling)
<1>1. /\ m.uri = uri /\ m.cpn = cn /\ m.ppg = parent /\ m.lcg = NULL /\ m.nsg = sibling
      /\ Fresh(m)
  BY DEF NewPackage, Fresh
<1>2. m \in Package
  <2>1. uri \in Uris \cup {BadGet, NoGet}
    BY PlainRequests
  <2>2. QED
    BY <2>1, SMTT(60) DEF NewPackage, Package, NULL
<1> HIDE DEF m
<1>3. QED
  BY <1>1, <1>2 DEF IsNew, m

LEMMA LcgFields ==
  ASSUME NEW pk \in Package, NEW c \in Nat
  PROVE  LET m == [pk EXCEPT !.lcg = c] IN
         /\ m \in Package /\ m.lcg = c /\ m.uri = pk.uri /\ m.cpn = pk.cpn
         /\ m.ppg = pk.ppg /\ m.nsg = pk.nsg /\ m.wst = pk.wst
         /\ m.cbody = pk.cbody /\ m.cached = pk.cached
<1> DEFINE m == [pk EXCEPT !.lcg = c]
<1>1. m \in Package
  BY SMTT(60) DEF Package
<1>2. /\ m.lcg = c /\ m.uri = pk.uri /\ m.cpn = pk.cpn
      /\ m.ppg = pk.ppg /\ m.nsg = pk.nsg /\ m.wst = pk.wst
      /\ m.cbody = pk.cbody /\ m.cached = pk.cached
  BY DEF Package
<1>3. QED
  BY <1>1, <1>2

\* A root without children is alone on its connection.
LEMMA RootAlone ==
  ASSUME NEW s, NEW p, Ready(s, {p}), s.pkg[p].ppg = NULL
  PROVE  /\ s.pkg[p].lcg = NULL
         /\ \A q \in DOMAIN s.pkg : s.pkg[q].ppg # p
         /\ PackagesIn(s.pkg, s.pkg[p].cpn) = {p}
<1> DEFINE ps == s.pkg
<1>1. p \in DOMAIN ps /\ First(ps, p) /\ Linked(s.conn, ps)
  BY ReadyParts, RunningFacts
<1>2. ps[p].lcg = NULL
  BY <1>1 DEF First
<1>3. \A q \in DOMAIN ps : LinksOf(s.conn, ps, q)
  BY <1>1 DEF Linked
<1>a. p # NULL
  BY <1>1, ReadyParts DEF Addresses, NULL
<1>4. \A q \in DOMAIN ps : ps[q].ppg # p
  BY <1>2, <1>3, <1>a DEF LinksOf
<1>5. ASSUME NEW q \in DOMAIN ps, ps[q].cpn = ps[p].cpn PROVE q = p
  <2>1. CASE ps[q].ppg = NULL
    BY <1>1, <1>5, <2>1 DEF Linked
  <2>2. CASE ps[q].ppg # NULL
    <3>1. ps[q].ppg \in DOMAIN ps /\ ps[ps[q].ppg].ppg = NULL /\ ps[ps[q].ppg].cpn = ps[p].cpn
      BY <1>3, <1>5, <2>2 DEF LinksOf
    <3>2. ps[q].ppg = p
      BY <1>1, <3>1 DEF Linked
    <3>3. QED
      BY <1>4, <3>2
  <2>3. QED
    BY <2>1, <2>2
<1>6. QED
  BY <1>1, <1>2, <1>4, <1>5 DEF PackagesIn

\* Field by field.
BornAs(ps, ps2, p, requests, addr, n) ==
    /\ \A q \in DOMAIN ps :
          /\ ps2[q] \in Package /\ ps2[q].uri = ps[q].uri
          /\ ps2[q].cpn = ps[q].cpn /\ ps2[q].ppg = ps[q].ppg
          /\ ps2[q].nsg = ps[q].nsg /\ ps2[q].wst = ps[q].wst
          /\ ps2[q].cbody = ps[q].cbody /\ ps2[q].cached = ps[q].cached
          /\ q # p => ps2[q].lcg = ps[q].lcg
    /\ ps2[p].lcg = addr[n]
    /\ \A i \in 1 .. n :
          /\ ps2[addr[i]] \in Package /\ Fresh(ps2[addr[i]])
          /\ ps2[addr[i]].uri = requests[i] /\ ps2[addr[i]].cpn = ps[p].cpn
          /\ ps2[addr[i]].ppg = p /\ ps2[addr[i]].lcg = NULL
          /\ ps2[addr[i]].nsg = IF i = n THEN NULL ELSE addr[i + 1]

LEMMA BornFields ==
  ASSUME NEW s, NEW p, Ready(s, {p}), s.pkg[p].ppg = NULL, NEW n \in Nat \ {0},
         NEW requests, \A i \in 1 .. n : requests[i] \in Plain \cup {BadGet},
         NEW addr, Allocated(s.pkg, addr, n), NEW ps2,
         Born(s.pkg, ps2, p, requests, addr, n)
  PROVE  BornAs(s.pkg, ps2, p, requests, addr, n)
<1>1. /\ p \in DOMAIN s.pkg /\ s.pkg[p] \in Package /\ p \in Nat
      /\ \A q \in DOMAIN s.pkg : s.pkg[q] \in Package
  BY ReadyParts, RunningFacts DEF Addresses
<1>2. \A i \in 1 .. n : addr[i] \in Nat
  BY DEF Allocated
<1>3. /\ ps2[p] \in Package /\ ps2[p].lcg = addr[n] /\ ps2[p].uri = s.pkg[p].uri
      /\ ps2[p].cpn = s.pkg[p].cpn /\ ps2[p].ppg = s.pkg[p].ppg
      /\ ps2[p].nsg = s.pkg[p].nsg /\ ps2[p].wst = s.pkg[p].wst
      /\ ps2[p].cbody = s.pkg[p].cbody /\ ps2[p].cached = s.pkg[p].cached
  <2>1. addr[n] \in Nat
    BY <1>2
  <2>2. ps2[p] = [s.pkg[p] EXCEPT !.lcg = addr[n]]
    BY DEF Born
  <2>3. QED
    BY <1>1, <2>1, <2>2, LcgFields
<1>4. ASSUME NEW i \in 1 .. n
      PROVE  /\ ps2[addr[i]] \in Package /\ Fresh(ps2[addr[i]])
             /\ ps2[addr[i]].uri = requests[i] /\ ps2[addr[i]].cpn = s.pkg[p].cpn
             /\ ps2[addr[i]].ppg = p /\ ps2[addr[i]].lcg = NULL
             /\ ps2[addr[i]].nsg = IF i = n THEN NULL ELSE addr[i + 1]
  <2> DEFINE sibling == IF i = n THEN NULL ELSE addr[i + 1]
  <2>1. ps2[addr[i]] = NewPackage(s.pkg[p].cpn, requests[i], p, sibling)
    BY DEF Born
  <2>2. sibling \in Nat
    <3>1. i # n => i + 1 \in 1 .. n
      OBVIOUS
    <3>2. QED
      BY <1>2, <3>1 DEF NULL
  <2>3. s.pkg[p].cpn \in Nat /\ requests[i] \in Plain \cup {BadGet, NoGet}
    BY <1>1 DEF Package
  <2> HIDE DEF sibling
  <2>4. p \in Nat
    BY <1>1
  <2>5. IsNew(NewPackage(s.pkg[p].cpn, requests[i], p, sibling),
              s.pkg[p].cpn, requests[i], p, sibling)
    BY <2>2, <2>3, <2>4, NewFields
  <2>6. QED
    BY <2>1, <2>5 DEF IsNew, sibling
<1>5. \A q \in DOMAIN s.pkg : q # p => ps2[q] = s.pkg[q]
  BY DEF Born
<1>6. QED
  BY <1>1, <1>3, <1>4, <1>5 DEF BornAs

LEMMA BornGrown ==
  ASSUME NEW s, NEW p, Ready(s, {p}), s.pkg[p].ppg = NULL, NEW n \in 1 .. MaxPipeline,
         NEW requests, \A i \in 1 .. n : requests[i] \in Plain \cup {BadGet},
         NEW addr, DOMAIN addr = 1 .. n, Allocated(s.pkg, addr, n), NEW t,
         SameBut(s, t, {"pkg"}), Born(s.pkg, t.pkg, p, requests, addr, n)
  PROVE  Grown(s, t, {p}, addr[1])
<1> DEFINE cs == s.conn
           ps == s.pkg
           ps2 == t.pkg
           cn == ps[p].cpn
           kids == {addr[i] : i \in 1 .. n}
<1>1. /\ Types(cs, s.nc, ps, s.pending, s.cache) /\ Linked(cs, ps) /\ Addresses(ps)
      /\ Sizes(cs, s.nc, ps) /\ p \in DOMAIN ps /\ LinksOf(cs, ps, p)
  BY ReadyParts, RunningFacts
<1>2. /\ t.conn = cs /\ t.nc = s.nc /\ t.pending = s.pending /\ t.cache = s.cache
  BY DEF SameBut
<1>3. n \in Nat \ {0} /\ 1 \in 1 .. n /\ n \in 1 .. n /\ MaxPipeline \in Nat
  BY BoundAssumption
<1>4. /\ ps[p].lcg = NULL /\ \A q \in DOMAIN ps : ps[q].ppg # p
      /\ PackagesIn(ps, cn) = {p}
  BY RootAlone
<1>a. BornAs(ps, ps2, p, requests, addr, n)
  BY <1>3, BornFields
<1>5. /\ \A q \in DOMAIN ps :
            /\ ps2[q] \in Package /\ ps2[q].uri = ps[q].uri
            /\ ps2[q].cpn = ps[q].cpn /\ ps2[q].ppg = ps[q].ppg
            /\ ps2[q].nsg = ps[q].nsg /\ ps2[q].wst = ps[q].wst
            /\ q # p => ps2[q].lcg = ps[q].lcg
      /\ ps2[p].lcg = addr[n]
  BY <1>a DEF BornAs
<1>6. \A i \in 1 .. n :
         /\ ps2[addr[i]] \in Package /\ Fresh(ps2[addr[i]])
         /\ ps2[addr[i]].uri = requests[i] /\ ps2[addr[i]].cpn = cn
         /\ ps2[addr[i]].ppg = p /\ ps2[addr[i]].lcg = NULL
         /\ ps2[addr[i]].nsg = IF i = n THEN NULL ELSE addr[i + 1]
  BY <1>a DEF BornAs
<1>7. DOMAIN ps2 = DOMAIN ps \cup kids
  BY DEF Born
<1>8. /\ \A i \in 1 .. n : addr[i] \in Nat \ {0} /\ addr[i] \in 1 .. MaxPkgs /\ addr[i] \notin DOMAIN ps
      /\ \A i, j \in 1 .. n : i < j => addr[i] < addr[j]
  BY DEF Allocated
<1>9. \A q \in DOMAIN ps : q \in Nat \ {0} /\ LinksOf(cs, ps, q)
  BY <1>1 DEF Addresses, Linked
<1>10. \A i \in 1 .. n : i # n => i + 1 \in 1 .. n /\ i < i + 1
  BY <1>3
<1>11. ASSUME NEW i \in 1 .. n, i # n
       PROVE  /\ ps2[addr[i]].nsg = addr[i + 1] /\ i + 1 \in 1 .. n
              /\ addr[i + 1] > addr[i] /\ addr[i + 1] \in kids
  <2>1. i + 1 \in 1 .. n /\ i < i + 1
    BY <1>10, <1>11
  <2>2. ps2[addr[i]].nsg = addr[i + 1]
    BY <1>6, <1>11
  <2>3. addr[i] < addr[i + 1] /\ addr[i] \in Nat /\ addr[i + 1] \in Nat
    BY <1>8, <2>1
  <2>4. QED
    BY <2>1, <2>2, <2>3
<1>12. ps2[addr[n]].nsg = NULL
  BY <1>3, <1>6
<1>13. Linked(cs, ps2)
  <2>1. ASSUME NEW q \in DOMAIN ps PROVE LinksOf(cs, ps2, q)
    <3>1. LinksOf(cs, ps, q)
      BY <1>9
    <3>2. ps2[q].ppg # NULL => ps2[ps2[q].ppg].lcg # NULL
      BY <1>4, <1>5, <3>1 DEF LinksOf
    <3>3. CASE q # p
      BY <1>5, <1>7, <3>1, <3>2, <3>3 DEF LinksOf
    <3>4. CASE q = p
      <4>1. addr[n] \in DOMAIN ps2 /\ ps2[addr[n]].ppg = p
        BY <1>3, <1>6, <1>7
      <4>2. QED
        BY <1>5, <1>12, <3>1, <3>4, <4>1 DEF LinksOf
    <3>5. QED
      BY <3>3, <3>4
  <2>2. ASSUME NEW i \in 1 .. n PROVE LinksOf(cs, ps2, addr[i])
    <3>1. /\ p \in DOMAIN ps2 /\ p # NULL /\ ps2[p].ppg = NULL /\ ps2[p].cpn = cn
          /\ cn \in DOMAIN cs
      BY <1>1, <1>5, <1>7, <1>9 DEF LinksOf, NULL
    <3>2. ps2[p].lcg # NULL
      BY <1>3, <1>5, <1>8 DEF NULL
    <3>3. ps2[addr[i]].nsg # NULL =>
             /\ ps2[addr[i]].nsg \in DOMAIN ps2 /\ ps2[addr[i]].nsg > addr[i]
             /\ ps2[ps2[addr[i]].nsg].ppg = p
      <4>1. CASE i = n
        BY <1>12, <4>1
      <4>2. CASE i # n
        BY <1>6, <1>7, <1>11, <4>2
      <4>3. QED
        BY <4>1, <4>2
    <3>4. ps2[addr[i]].uri \in Plain \cup {BadGet}
      BY <1>6
    <3>5. QED
      BY <1>6, <3>1, <3>2, <3>3, <3>4 DEF LinksOf
  <2>3. \A q \in DOMAIN ps2 : LinksOf(cs, ps2, q)
    BY <1>7, <2>1, <2>2
  <2>4. ASSUME NEW q \in DOMAIN ps2, ps2[q].ppg = NULL PROVE q \in DOMAIN ps
    BY <1>6, <1>7, <1>9, <1>1, <2>4 DEF NULL
  <2>5. \A q, r \in DOMAIN ps2 :
           ps2[q].ppg = NULL /\ ps2[r].ppg = NULL /\ ps2[q].cpn = ps2[r].cpn => q = r
    BY <1>1, <1>5, <2>4 DEF Linked
  <2>6. ASSUME NEW q \in DOMAIN ps2, NEW r \in DOMAIN ps2, Siblings(ps2, q, r), q < r
        PROVE  ps2[q].nsg # NULL /\ ps2[q].nsg <= r /\ \E x \in DOMAIN ps2 : ps2[x].nsg = r
    <3>1. CASE q \in DOMAIN ps /\ r \in DOMAIN ps
      <4>1. Siblings(ps, q, r)
        BY <1>5, <2>6, <3>1 DEF Siblings
      <4>2. ps[q].nsg # NULL /\ ps[q].nsg <= r /\ \E x \in DOMAIN ps : ps[x].nsg = r
        BY <1>1, <2>6, <3>1, <4>1 DEF Linked
      <4>3. QED
        BY <1>5, <1>7, <3>1, <4>2
    <3>2. CASE q \in DOMAIN ps /\ r \in kids
      BY <1>4, <1>5, <1>6, <2>6, <3>2 DEF Siblings
    <3>3. CASE q \in kids /\ r \in DOMAIN ps
      BY <1>4, <1>5, <1>6, <2>6, <3>3 DEF Siblings
    <3>4. CASE q \in kids /\ r \in kids
      <4>1. PICK i \in 1 .. n : q = addr[i]
        BY <3>4
      <4>2. PICK j \in 1 .. n : r = addr[j]
        BY <3>4
      <4>3. i < j
        <5>1. i \in Nat /\ j \in Nat /\ addr[i] \in Nat /\ addr[j] \in Nat
          BY <1>8
        <5>2. i = j \/ j < i => ~(addr[i] < addr[j])
          BY <1>8, <5>1
        <5>3. QED
          BY <2>6, <4>1, <4>2, <5>1, <5>2
      <4>4. i # n /\ i + 1 <= j /\ j - 1 \in 1 .. n /\ j - 1 # n /\ j - 1 + 1 = j
        BY <4>3
      <4>5. ps2[q].nsg = addr[i + 1] /\ addr[i + 1] \in Nat \ {0} /\ i + 1 \in 1 .. n
        BY <1>8, <1>11, <4>1, <4>4
      <4>6. addr[i + 1] <= r
        <5>1. i + 1 \in 1 .. n /\ (i + 1 = j \/ i + 1 < j) /\ addr[j] \in Nat
          BY <1>8, <4>4, <4>5
        <5>2. QED
          BY <1>8, <4>2, <4>5, <5>1
      <4>7. ps2[addr[j - 1]].nsg = r /\ addr[j - 1] \in DOMAIN ps2
        <5>1. ps2[addr[j - 1]].nsg = addr[j - 1 + 1]
          BY <1>11, <4>4
        <5>2. QED
          BY <1>7, <4>2, <4>4, <5>1
      <4>8. QED
        BY <4>5, <4>6, <4>7 DEF NULL
    <3>5. QED
      BY <1>7, <3>1, <3>2, <3>3, <3>4
  <2>7. QED
    BY <2>3, <2>5, <2>6 DEF Linked
<1>14. Types(cs, s.nc, ps2, s.pending, s.cache)
  <2>1. DOMAIN ps2 \subseteq 1 .. MaxPkgs /\ \A q \in DOMAIN ps2 : ps2[q] \in Package
    BY <1>1, <1>5, <1>6, <1>7, <1>8 DEF Types
  <2>2. QED
    BY <1>1, <2>1 DEF Types
<1>15. Sizes(cs, s.nc, ps2)
  <2>1. IsFiniteSet(kids) /\ Cardinality(kids) <= n /\ Cardinality(kids) \in Nat
    BY <1>3, ImageBound
  <2>2. ASSUME NEW c \in DOMAIN cs, c # cn PROVE PackagesIn(ps2, c) = PackagesIn(ps, c)
    BY <1>5, <1>6, <1>7, <2>2 DEF PackagesIn
  <2>3. PackagesIn(ps2, cn) = kids \cup {p} /\ p \notin kids
    <3>1. \A q \in DOMAIN ps : ps2[q].cpn = cn <=> q = p
      BY <1>4, <1>5 DEF PackagesIn
    <3>2. \A q \in kids : ps2[q].cpn = cn /\ q # p
      BY <1>1, <1>6, <1>8
    <3> HIDE DEF kids, cn
    <3>3. QED
      BY <1>1, <1>7, <3>1, <3>2 DEF PackagesIn
  <2> HIDE DEF kids
  <2>4. Cardinality(PackagesIn(ps2, cn)) = Cardinality(kids) + 1
    BY <2>1, <2>3, AddOne
  <2>5. Cardinality(PackagesIn(ps2, cn)) <= MaxPipeline + 1
    BY <1>3, <2>1, <2>4
  <2>6. QED
    BY <1>1, <2>2, <2>5 DEF Sizes
<1>16. ASSUME NEW q \in DOMAIN ps \ {p}
       PROVE  ps2[q] = ps[q] /\ (First(ps2, q) <=> First(ps, q))
  <2>1. ps2[q] = ps[q]
    BY DEF Born
  <2>2. \A i \in 1 .. n : ps2[addr[i]].nsg # q
    BY <1>8, <1>9, <1>11, <1>12 DEF NULL
  <2>3. \A y \in DOMAIN ps : ps2[y].nsg = ps[y].nsg
    BY <1>5
  <2>4. (\A y \in DOMAIN ps2 : ps2[y].nsg # q) <=> (\A y \in DOMAIN ps : ps[y].nsg # q)
    BY <1>7, <2>2, <2>3
  <2>5. QED
    BY <2>1, <2>4 DEF First
<1>17. ps2[p].ppg = NULL /\ ~First(ps2, p)
  BY <1>1, <1>3, <1>5, <1>8 DEF First, NULL
<1>18. addr[1] \in DOMAIN ps2 \ DOMAIN ps /\ First(ps2, addr[1])
  <2>1. addr[1] \in DOMAIN ps2 \ DOMAIN ps /\ ps2[addr[1]].ppg # NULL
    BY <1>1, <1>3, <1>6, <1>7, <1>8, <1>9 DEF NULL
  <2>2. ASSUME NEW y \in DOMAIN ps PROVE ps2[y].nsg # addr[1]
    <3>1. ps[y].nsg = NULL \/ ps[y].nsg \in DOMAIN ps
      BY <1>9 DEF LinksOf
    <3>2. QED
      BY <1>3, <1>5, <1>8, <3>1 DEF NULL
  <2>3. ASSUME NEW i \in 1 .. n PROVE ps2[addr[i]].nsg # addr[1]
    <3>1. CASE i = n
      BY <1>3, <1>8, <1>12, <3>1 DEF NULL
    <3>2. CASE i # n
      <4>1. ps2[addr[i]].nsg = addr[i + 1] /\ i + 1 \in 1 .. n /\ 1 < i + 1
        BY <1>11, <3>2
      <4>2. addr[1] < addr[i + 1] /\ addr[1] \in Nat
        BY <1>3, <1>8, <4>1
      <4>3. QED
        BY <4>1, <4>2
    <3>3. QED
      BY <3>1, <3>2
  <2>4. QED
    BY <1>7, <2>1, <2>2, <2>3 DEF First
<1>19. ASSUME NEW q \in DOMAIN ps2 \ DOMAIN ps
       PROVE  Fresh(ps2[q]) /\ (q # addr[1] => ~First(ps2, q))
  <2>1. PICK i \in 1 .. n : q = addr[i]
    BY <1>7
  <2>2. Fresh(ps2[q]) /\ ps2[q].ppg # NULL
    BY <1>1, <1>6, <1>9, <2>1 DEF NULL
  <2>3. CASE i # 1
    <3>1. i - 1 \in 1 .. n /\ i - 1 # n /\ i - 1 + 1 = i
      BY <2>3
    <3>2. ps2[addr[i - 1]].nsg = addr[i - 1 + 1] /\ addr[i - 1] \in DOMAIN ps2
      BY <1>7, <1>11, <3>1
    <3>3. QED
      BY <2>1, <2>2, <3>1, <3>2 DEF First
  <2>4. QED
    BY <2>1, <2>2, <2>3
<1>20. SameBut(s, t, {"conn", "nc", "pkg"})
  BY DEF SameBut
<1>21. QED
  BY <1>2, <1>7, <1>13, <1>14, <1>15, <1>16, <1>17, <1>18, <1>19, <1>20 DEF Grown

\* There are addresses for the packages of a read.
LEMMA ParseAllocates ==
  ASSUME NEW s, NEW p, Ready(s, {p}), s.pkg[p].ppg = NULL, NEW n \in 1 .. MaxPipeline,
         NEW addr, addr = [i \in 1 .. n |-> Address(i, 1 .. MaxPkgs, DOMAIN s.pkg)]
  PROVE  Allocated(s.pkg, addr, n)
<1> DEFINE ps == s.pkg
           cn == ps[p].cpn
           M == MaxACCEPT * (MaxPipeline + 1)
<1>1. /\ Addresses(ps) /\ Types(s.conn, s.nc, ps, s.pending, s.cache) /\ p \in DOMAIN ps
      /\ LinksOf(s.conn, ps, p)
  BY ReadyParts, RunningFacts
<1>2. cn \in 1 .. MaxConns
  BY <1>1 DEF Types, LinksOf
<1>3. PackagesIn(ps, cn) = {p}
  BY RootAlone
<1>4. Cardinality(DOMAIN ps \ {p}) <= M /\ MaxPkgs = M + (MaxPipeline + 1) /\ M \in Nat
  BY <1>2, <1>3, Room
<1> HIDE DEF M
<1>5. Cardinality(DOMAIN ps) \in Nat /\ Cardinality(DOMAIN ps \ {p}) = Cardinality(DOMAIN ps) - 1
  <2>1. IsFiniteSet(DOMAIN ps) /\ Cardinality(DOMAIN ps) \in Nat
    BY <1>1, AddressSetsFinite
  <2>2. QED
    BY <1>1, <2>1, RemoveOne
<1>6. n \in Nat /\ MaxPipeline \in Nat /\ n <= MaxPipeline /\ MaxPkgs \in Nat
  BY BoundAssumption, PkgsAreNumbers
<1>7. Cardinality(DOMAIN ps) + n <= MaxPkgs
  BY <1>4, <1>5, <1>6
<1>8. DOMAIN ps \in SUBSET (1 .. MaxPkgs)
  BY <1>1 DEF Addresses
<1>9. /\ \A i \in 1 .. n : Address(i, 1 .. MaxPkgs, DOMAIN ps) \in (1 .. MaxPkgs) \ DOMAIN ps
      /\ \A i, j \in 1 .. n : i < j =>
            Address(i, 1 .. MaxPkgs, DOMAIN ps) < Address(j, 1 .. MaxPkgs, DOMAIN ps)
  BY <1>6, <1>7, <1>8, AddressesIncrease
<1>10. \A i \in 1 .. n : addr[i] = Address(i, 1 .. MaxPkgs, DOMAIN ps)
  OBVIOUS
<1>11. QED
  BY <1>9, <1>10 DEF Allocated

\* The new packages, as svr_http_parse makes them.
NewChildren(s, p, requests, addr, n) ==
    LET gk(i) == NewPackage(s.pkg[p].cpn, requests[i], p,
                            IF i = n THEN NULL ELSE addr[i + 1])
    IN  [q \in DOMAIN s.pkg \cup {addr[i] : i \in 1 .. n} |->
            IF q \in DOMAIN s.pkg
               THEN s.pkg[q]
               ELSE gk(CHOOSE i \in 1 .. n : addr[i] = q)]

LEMMA ParseBorn ==
  ASSUME NEW s, NEW p \in DOMAIN s.pkg, NEW n \in Nat \ {0}, NEW requests, NEW addr,
         Allocated(s.pkg, addr, n), NEW ps2,
         ps2 = [NewChildren(s, p, requests, addr, n) EXCEPT ![p].lcg = addr[n]]
  PROVE  Born(s.pkg, ps2, p, requests, addr, n)
<1> DEFINE ps == s.pkg
           gk(i) == NewPackage(ps[p].cpn, requests[i], p, IF i = n THEN NULL ELSE addr[i + 1])
           kids == {addr[i] : i \in 1 .. n}
           b == NewChildren(s, p, requests, addr, n)
<1>1. /\ DOMAIN b = DOMAIN ps \cup kids
      /\ \A q \in DOMAIN ps : b[q] = ps[q]
      /\ \A q \in kids \ DOMAIN ps : b[q] = gk(CHOOSE i \in 1 .. n : addr[i] = q)
  BY DEF NewChildren
<1> HIDE DEF b, gk
<1>2. /\ DOMAIN ps2 = DOMAIN b /\ \A q \in DOMAIN b : q # p => ps2[q] = b[q]
      /\ ps2[p] = [b[p] EXCEPT !.lcg = addr[n]]
  <2>1. p \in DOMAIN b /\ ps2 = [b EXCEPT ![p].lcg = addr[n]]
    BY <1>1 DEF b
  <2>2. QED
    BY <2>1
<1>3. ASSUME NEW i \in 1 .. n PROVE ps2[addr[i]] = gk(i)
  <2>1. addr[i] \in kids \ DOMAIN ps /\ addr[i] # p
    BY DEF Allocated
  <2>2. \A j \in 1 .. n : addr[j] = addr[i] => j = i
    <3>1. \A j \in 1 .. n : addr[j] \in Nat
      BY DEF Allocated
    <3>2. ASSUME NEW j \in 1 .. n, addr[j] = addr[i] PROVE j = i
      <4>1. ~(i < j) /\ ~(j < i)
        BY <3>1, <3>2 DEF Allocated
      <4>2. QED
        BY <4>1
    <3>3. QED
      BY <3>2
  <2>3. (CHOOSE j \in 1 .. n : addr[j] = addr[i]) = i
    BY <2>2
  <2>4. b[addr[i]] = gk(i)
    BY <1>1, <2>1, <2>3
  <2>5. QED
    BY <1>1, <1>2, <2>1, <2>4
<1>4. \A q \in DOMAIN ps : q # p => ps2[q] = ps[q]
  BY <1>1, <1>2
<1>5. ps2[p] = [ps[p] EXCEPT !.lcg = addr[n]]
  BY <1>1, <1>2
<1>6. QED
  BY <1>1, <1>2, <1>3, <1>4, <1>5 DEF Born, gk

LEMMA Unchanged ==
  ASSUME NEW s, IsState(s), NEW p, s.pkg[p] \in Package
  PROVE  Changed(s, s, p)
BY DEF SameBut, Changed, SameRequest

LEMMA ParseKeeps ==
  ASSUME NEW s, NEW p, Ready(s, {p}), s.pkg[p].ppg = NULL, Writable(s.conn, s.pkg[p]),
         NEW n \in 0 .. MaxPipeline, NEW requests \in [1 .. n -> Plain \cup {BadGet}],
         NEW a, Ready(a, {}), p \in DOMAIN a.pkg, First(a.pkg, p), Works(a, s, p),
         s.pkg[p].hsn = a.pkg[p].hsn, s.pkg[p].tr_offset = a.pkg[p].tr_offset,
         s.pkg[p].hsent = a.pkg[p].hsent,
         ~BrokenIn(a.conn, a.pkg[p].cpn)
  PROVE  LET r == svr_http_parse(s, p, requests) IN Ready(r, {}) /\ Serves(a, r)
<1> DEFINE r == svr_http_parse(s, p, requests)
           addr == [i \in 1 .. n |-> Address(i, 1 .. MaxPkgs, DOMAIN s.pkg)]
           ps2 == [NewChildren(s, p, requests, addr, n) EXCEPT ![p].lcg = addr[n]]
           t == [s EXCEPT !.pkg = ps2]
<1>1. /\ IsState(s) /\ p \in DOMAIN s.pkg /\ s.pkg[p] \in Package
      /\ s.pkg[p].uri = NoGet /\ s.pkg[p].wst = "UNO" /\ s.pkg[p].cpn \in DOMAIN s.conn
  BY ReadyParts, RunningFacts DEF LinksOf
<1>2. s.pkg[p].lcg = NULL
  BY RootAlone
<1>3. Len(requests) = n /\ n \in Nat
  BY BoundAssumption
<1>4. s.pkg[p].cbody = -1 \/ s.pkg[p].cached
  BY <1>1, NoBlock, PlainRequests
<1>5. CASE n = 0
  <2>1. r = Post(s, "svr_http_read", p)
    BY <1>3, <1>5 DEF svr_http_parse
  <2>2. \A k \in DOMAIN s.cache : ~Uses(s.pkg[p], k)
    BY <1>1 DEF Uses
  <2>3. Phase(s.conn, s.cache, "svr_http_read", p, s.pkg[p])
    BY DEF Phase
  <2>4. PICK h : h = "svr_http_read"
    OBVIOUS
  <2> HIDE DEF r
  <2>5. /\ h \in Handlers \ {"svr_http_body_pio"} /\ r = Post(s, h, p)
        /\ Phase(s.conn, s.cache, h, p, s.pkg[p])
    BY <2>1, <2>3, <2>4 DEF Handlers
  <2>6. Changed(s, s, p) /\ s.pkg[p].wst = "UNO"
    BY <1>1, Unchanged
  <2>7. Ready(r, {})
    BY <1>4, <2>2, <2>5, <2>6, ResumesPlain
  <2>8. Serves(a, r)
    <3>1. SameBut(s, r, {"pending"})
      BY <1>1, <2>1, PostFields
    <3>2. Works(s, r, p) /\ r.pkg = s.pkg
      BY <3>1, PostWorks
    <3>3. Works(a, r, p) /\ GoesOn(a, r, p)
      BY <3>2, WorksOn DEF GoesOn
    <3>4. Leads(a, r, p)
      BY <3>3 DEF Leads
    <3>5. QED
      BY <2>7, <3>4, LeadsServes
  <2>9. QED
    BY <2>7, <2>8 DEF r
<1>6. CASE n # 0
  <2>1. n \in 1 .. MaxPipeline /\ n \in Nat \ {0}
    BY <1>3, <1>6
  <2>2. r = Post(t, "svr_http_fetch", addr[1])
    BY <1>2, <1>3, <1>6 DEF svr_http_parse, NewChildren
  <2>3. DOMAIN addr = 1 .. n
    OBVIOUS
  <2>4. Allocated(s.pkg, addr, n)
    BY <2>1, ParseAllocates
  <2> HIDE DEF addr
  <2>5. Born(s.pkg, ps2, p, requests, addr, n)
    BY <1>1, <2>1, <2>4, ParseBorn
  <2>6. SameBut(s, t, {"pkg"}) /\ t.pkg = ps2
    BY <1>1 DEF SameBut, IsState
  <2> HIDE DEF ps2, t, r
  <2>7. \A i \in 1 .. n : requests[i] \in Plain \cup {BadGet}
    OBVIOUS
  <2>8. SameBut(s, t, {"pkg"}) /\ Born(s.pkg, t.pkg, p, requests, addr, n)
    BY <2>5, <2>6
  <2>9. Grown(s, t, {p}, addr[1])
    BY <2>1, <2>3, <2>4, <2>7, <2>8, BornGrown
  <2>10. BornAs(s.pkg, t.pkg, p, requests, addr, n)
    BY <2>1, <2>4, <2>7, <2>8, BornFields
  <2>11. PICK x : x = addr[1]
    OBVIOUS
  <2>12. Ready(t, {x})
    <3>1. \A q \in {p} : t.pkg[q].cbody = -1 \/ t.pkg[q].cached
      BY <1>1, <1>4, <2>10 DEF BornAs
    <3>2. QED
      BY <2>9, <2>11, <3>1, GrownReady
  <2>13. /\ t.pkg[x].ppg # NULL /\ t.pkg[x].cpn = s.pkg[p].cpn /\ Fresh(t.pkg[x])
         /\ t.pkg[x] \in Package
    <3>1. 1 \in 1 .. n
      BY <2>1
    <3>2. p # NULL
      BY RunningFacts DEF NULL
    <3>3. QED
      BY <2>10, <2>11, <3>1, <3>2 DEF BornAs
  <2>14. t.conn = s.conn /\ IsState(t)
    BY <2>6 DEF SameBut
  <2>15. Writable(t.conn, t.pkg[x])
    BY <2>13, <2>14 DEF Writable
  <2>16. Phase(t.conn, t.cache, "svr_http_fetch", x, t.pkg[x])
    BY <2>13, <2>15 DEF Phase
  <2>17. PICK h : h = "svr_http_fetch"
    OBVIOUS
  <2>18. /\ h \in Handlers \ {"svr_http_body_pio"} /\ r = Post(t, h, x)
         /\ Phase(t.conn, t.cache, h, x, t.pkg[x])
    BY <2>2, <2>11, <2>16, <2>17 DEF Handlers
  <2>19. /\ \A k \in DOMAIN t.cache : ~Uses(t.pkg[x], k)
         /\ t.pkg[x].cbody = -1 \/ t.pkg[x].cached
    BY <2>13 DEF Uses, Fresh
  <2>20. Changed(t, t, x)
    BY <2>13, <2>14, Unchanged
  <2>21. Ready(r, {})
    BY <2>12, <2>13, <2>18, <2>19, <2>20, ResumesPlain
  <2>22. r.conn = a.conn /\ r.pkg = t.pkg /\ r.cache = s.cache
    <3>1. SameBut(t, r, {"pending"})
      BY <2>2, <2>14, PostFields
    <3>2. r.conn = t.conn /\ r.pkg = t.pkg /\ r.cache = t.cache /\ t.cache = s.cache
      BY <2>6, <3>1 DEF SameBut
    <3>3. QED
      BY <2>14, <3>2 DEF Works
  <2>23. Lost(a.cache) \subseteq Lost(r.cache)
    BY <2>22, LostKept DEF Works
  <2>24. x \in DOMAIN r.pkg /\ First(r.pkg, x)
    BY <2>9, <2>11, <2>22 DEF Grown
  <2>25. ASSUME NEW c, c # a.pkg[p].cpn
         PROVE  /\ PackagesIn(r.pkg, c) = PackagesIn(a.pkg, c)
                /\ \A q \in PackagesIn(a.pkg, c) : SameAnswer(a.pkg[q], r.pkg[q])
    <3>1. DOMAIN s.pkg = DOMAIN a.pkg /\ s.pkg[p].cpn = a.pkg[p].cpn
      BY DEF Works
    <3>2. \A q \in DOMAIN a.pkg : q # p => r.pkg[q] = a.pkg[q]
      BY <2>8, <2>22, <3>1 DEF Works, Born
    <3>3. r.pkg[p].cpn = a.pkg[p].cpn
      BY <1>1, <2>10, <2>22, <3>1 DEF BornAs
    <3>4. DOMAIN r.pkg = DOMAIN a.pkg \cup {addr[i] : i \in 1 .. n}
      BY <2>8, <2>22, <3>1 DEF Born
    <3>5. \A i \in 1 .. n : r.pkg[addr[i]].cpn = a.pkg[p].cpn
      BY <2>10, <2>22, <3>1 DEF BornAs
    <3>6. PackagesIn(r.pkg, c) = PackagesIn(a.pkg, c)
      BY <2>25, <3>2, <3>3, <3>4, <3>5 DEF PackagesIn
    <3>7. QED
      BY <2>25, <3>2, <3>6 DEF PackagesIn, SameAnswer
  <2>26. Serves(a, r)
    <3>1. /\ a.pkg[p].ppg = NULL /\ r.pkg[x].cpn = a.pkg[p].cpn /\ r.pkg[x].ppg # NULL
          /\ Fresh(r.pkg[x])
      BY <2>13, <2>22 DEF Works
    <3>2. QED
      BY <2>21, <2>22, <2>23, <2>24, <2>25, <3>1, ReceiveServes
  <2>27. QED
    BY <2>21, <2>26 DEF r
<1>7. QED
  BY <1>5, <1>6

LEMMA ParseRuns ==
  ASSUME NEW s, Ready(s, {}), NEW p, Callback("svr_http_parse_aio", p) \in s.pending,
         NEW eof \in BOOLEAN, NEW n \in 0 .. MaxPipeline,
         NEW requests \in [1 .. n -> Plain \cup {BadGet}]
  PROVE  LET r == svr_http_parse_aio(Begun(s, "svr_http_parse_aio", p), p, eof, requests)
         IN  Ready(r, {}) /\ Serves(s, r)
<1>1. PICK h : h = "svr_http_parse_aio"
  OBVIOUS
<1> DEFINE b == Begun(s, h, p)
           t == SetHst(b, p, "PARSING")
           r == svr_http_parse_aio(b, p, eof, requests)
<1>2. Callback(h, p) \in s.pending /\ h # "svr_http_body_pio"
  BY <1>1
<1>3. /\ IsState(s) /\ p \in DOMAIN s.pkg /\ s.pkg[p] \in Package
      /\ Phase(s.conn, s.cache, h, p, s.pkg[p]) /\ LinksOf(s.conn, s.pkg, p)
      /\ First(s.pkg, p)
  BY <1>2, CallbackFacts
<1>4. s.pkg[p].ppg = NULL /\ s.pkg[p].wst = "UNO" /\ Writable(s.conn, s.pkg[p])
  BY <1>1, <1>3 DEF Phase, LinksOf
<1>5. SameBut(s, b, {"pending"}) /\ b.conn = s.conn /\ b.pkg = s.pkg
      /\ b.cache = s.cache
  BY <1>3, BegunFields
<1>6. Ready(b, {p})
  <2>1. \A k \in DOMAIN s.cache : k[2] # -1 => ~Uses(s.pkg[p], k)
    BY <1>4 DEF Uses
  <2>2. QED
    BY <1>2, <2>1, BeginAgain
<1>7. r = CASE WriteClosing(b, p) -> svr_http_final(b, p)
            [] ~WriteClosing(b, p) /\ eof -> svr_http_final_aio(t, p)
            [] OTHER -> svr_http_parse(t, p, requests)
  BY DEF svr_http_parse_aio, SetHst
<1> HIDE DEF r
<1>8. b = Begun(s, "svr_http_parse_aio", p)
  BY <1>1
<1> HIDE DEF b
<1>9. IsState(b) /\ p \in DOMAIN b.pkg /\ b.pkg[p] \in Package
  BY <1>3, <1>5 DEF SameBut
<1>10. /\ Changed(b, t, p)
       /\ Doing(t.pkg[p], "PARSING", b.pkg[p].wst, b.pkg[p].hsn, b.pkg[p].headkey)
  <2>1. "PARSING" \in {"READING", "PARSING"}
    OBVIOUS
  <2>2. QED
    BY <1>9, <2>1, HstChanges
<1> HIDE DEF t
<1>11. /\ SameBut(b, t, {"pkg"}) /\ t.pkg[p].hst = "PARSING" /\ t.pkg[p].wst = "UNO"
       /\ t.pkg[p].ppg = NULL /\ t.pkg[p].cpn = s.pkg[p].cpn /\ t.conn = s.conn
  BY <1>4, <1>5, <1>10 DEF Changed, SameRequest, Doing, SameBut
<1>12. Ready(t, {p})
  <2>1. Touched(b.pkg, t.pkg, p)
    BY <1>10, <1>11, ChangedTouches
  <2>2. QED
    BY <1>6, <1>11, <2>1, TouchedReady
<1>13. CASE WriteClosing(b, p)
  <2>1. r = svr_http_final(b, p)
    BY <1>7, <1>13
  <2>2. b.pkg[p].ppg = NULL
    BY <1>4, <1>5
  <2>3. Ready(svr_http_final(b, p), {p} \ {p})
    BY <1>6, <2>2, FinalKeeps
  <2>4. Ready(r, {})
    BY <2>1, <2>3
  <2>5. Leads(b, r, p)
    BY <1>6, <2>1, <2>2, EndLeads
  <2>6. Leads(s, r, p)
    BY <1>5, <2>5, LeadsFrom
  <2>7. Serves(s, r)
    BY <1>3, <2>4, <2>6, LeadsServes
  <2>8. QED
    BY <1>8, <2>4, <2>7 DEF r
<1>14. CASE ~WriteClosing(b, p) /\ eof
  <2>1. r = svr_http_final_aio(t, p)
    BY <1>7, <1>14
  <2>2. Ready(svr_http_final_aio(t, p), {}) /\ Leads(s, svr_http_final_aio(t, p), p)
    <3>1. t.pkg[p].hst \in {"READING", "PARSING"} /\ t.pkg[p].wst = "UNO"
      BY <1>11
    <3>2. SameBut(b, t, {"pkg"}) /\ Changed(b, t, p)
      BY <1>10, <1>11
    <3>3. QED
      BY <1>8, <3>1, <3>2, ReadFails
  <2>3. Ready(r, {}) /\ Leads(s, r, p)
    BY <2>1, <2>2
  <2>4. Serves(s, r)
    BY <1>3, <2>3, LeadsServes
  <2>5. QED
    BY <1>8, <2>3, <2>4 DEF r
<1>15. CASE ~WriteClosing(b, p) /\ ~eof
  <2>1. r = svr_http_parse(t, p, requests)
    BY <1>7, <1>15
  <2>2. t.pkg[p].ppg = NULL /\ Writable(t.conn, t.pkg[p])
    BY <1>4, <1>11 DEF Writable
  <2>3. ~BrokenIn(s.conn, s.pkg[p].cpn)
    BY <1>5, <1>15 DEF WriteClosing, Cst, BrokenIn
  <2>4. /\ Works(s, t, p) /\ t.pkg[p].hsn = s.pkg[p].hsn
        /\ t.pkg[p].tr_offset = s.pkg[p].tr_offset /\ t.pkg[p].hsent = s.pkg[p].hsent
    <3>1. Works(s, b, p)
      BY <1>5, PostWorks
    <3>2. Works(b, t, p) /\ t.pkg[p].tr_offset = b.pkg[p].tr_offset
          /\ t.pkg[p].hsent = b.pkg[p].hsent
      BY <1>10, ChangedWorks
    <3>3. t.pkg[p].hsn = b.pkg[p].hsn
      BY <1>10 DEF Doing
    <3>4. QED
      BY <1>5, <3>1, <3>2, <3>3, WorksOn
  <2>5. Ready(svr_http_parse(t, p, requests), {}) /\ Serves(s, svr_http_parse(t, p, requests))
    BY <1>3, <1>12, <2>2, <2>3, <2>4, ParseKeeps
  <2>6. Ready(r, {}) /\ Serves(s, r)
    BY <2>1, <2>5
  <2>7. QED
    BY <1>8, <2>6 DEF r
<1>16. QED
  BY <1>13, <1>14, <1>15

(***************************************************************************)
(* svr_conn_accept                                                         *)
(***************************************************************************)

\* The new connection and its root package.
Accepted(s, cn, pk) ==
    [NewConn(s, cn) EXCEPT !.pkg = With(@, pk, NewPackage(cn, NoGet, NULL, NULL))]

LEMMA AcceptedFields ==
  ASSUME NEW s, IsState(s), NEW cn, NEW pk
  PROVE  /\ SameBut(s, Accepted(s, cn, pk), {"conn", "nc", "pkg"})
         /\ Accepted(s, cn, pk).conn = With(s.conn, cn, "CONNECTED")
         /\ Accepted(s, cn, pk).nc = s.nc + 1
         /\ Accepted(s, cn, pk).pkg = With(s.pkg, pk, NewPackage(cn, NoGet, NULL, NULL))
BY DEF Accepted, NewConn, IsState, SameBut

\* While nc is at most MaxACCEPT there is a descriptor and an address for the
\* root package.
LEMMA AcceptAllocates ==
  ASSUME NEW s, Ready(s, {}), s.nc <= MaxACCEPT,
         NEW cn, cn = Address(1, 1 .. MaxConns, DOMAIN s.conn),
         NEW pk, pk = Address(1, 1 .. MaxPkgs, DOMAIN s.pkg)
  PROVE  /\ cn \in (1 .. MaxConns) \ DOMAIN s.conn
         /\ pk \in (1 .. MaxPkgs) \ DOMAIN s.pkg
         /\ PackagesIn(s.pkg, cn) = {}
<1> DEFINE ps == s.pkg
           M == MaxACCEPT * (MaxPipeline + 1)
<1>1. /\ Addresses(ps) /\ Types(s.conn, s.nc, ps, s.pending, s.cache)
      /\ Sizes(s.conn, s.nc, ps) /\ Linked(s.conn, ps)
  BY ReadyParts
<1>2. /\ MaxACCEPT \in Nat /\ MaxPipeline \in Nat /\ MaxConns = MaxACCEPT + 1
      /\ MaxConns \in Nat /\ MaxPkgs \in Nat
  BY BoundAssumption, PkgsAreNumbers DEF MaxConns
<1>3. cn \in (1 .. MaxConns) \ DOMAIN s.conn
  <2>1. DOMAIN s.conn \in SUBSET (1 .. MaxConns) /\ Cardinality(DOMAIN s.conn) = s.nc
        /\ s.nc \in Nat
    BY <1>1 DEF Types, Sizes
  <2>2. Cardinality(DOMAIN s.conn) + 1 <= MaxConns /\ 1 \in Nat /\ 1 \in 1 .. 1
    BY <1>2, <2>1
  <2>3. Address(1, 1 .. MaxConns, DOMAIN s.conn) \in (1 .. MaxConns) \ DOMAIN s.conn
    BY <1>2, <2>1, <2>2, AddressesIncrease
  <2>4. QED
    BY <2>3
<1>4. PackagesIn(ps, cn) = {}
  <2>1. \A q \in DOMAIN ps : ps[q].cpn \in DOMAIN s.conn
    BY <1>1 DEF Linked, LinksOf
  <2>2. QED
    BY <1>3, <2>1 DEF PackagesIn
<1>5. pk \in (1 .. MaxPkgs) \ DOMAIN ps
  <2>1. cn \in 1 .. MaxConns
    BY <1>3
  <2>2. Cardinality(DOMAIN ps \ {}) <= M /\ MaxPkgs = M + (MaxPipeline + 1) /\ M \in Nat
    BY <1>4, <2>1, Room
  <2> HIDE DEF M
  <2>3. DOMAIN ps \ {} = DOMAIN ps /\ Cardinality(DOMAIN ps) \in Nat
    BY <1>1, AddressSetsFinite
  <2>4. Cardinality(DOMAIN ps) + 1 <= MaxPkgs /\ 1 \in Nat /\ 1 \in 1 .. 1
    BY <1>2, <2>2, <2>3
  <2>5. DOMAIN ps \in SUBSET (1 .. MaxPkgs)
    BY <1>1 DEF Addresses
  <2>6. Address(1, 1 .. MaxPkgs, DOMAIN ps) \in (1 .. MaxPkgs) \ DOMAIN ps
    BY <1>2, <2>4, <2>5, AddressesIncrease
  <2>7. QED
    BY <2>6
<1>6. QED
  BY <1>3, <1>4, <1>5

LEMMA AcceptGrown ==
  ASSUME NEW s, Ready(s, {}), s.nc <= MaxACCEPT,
         NEW cn \in (1 .. MaxConns) \ DOMAIN s.conn, NEW pk \in (1 .. MaxPkgs) \ DOMAIN s.pkg,
         PackagesIn(s.pkg, cn) = {}
  PROVE  Grown(s, Accepted(s, cn, pk), {}, pk) /\ Accepted(s, cn, pk).pkg[pk].ppg = NULL
<1> DEFINE t == Accepted(s, cn, pk)
           cs == s.conn
           ps == s.pkg
           cs2 == t.conn
           ps2 == t.pkg
           new == NewPackage(cn, NoGet, NULL, NULL)
<1>1. /\ Types(cs, s.nc, ps, s.pending, s.cache) /\ Linked(cs, ps) /\ Addresses(ps)
      /\ Sizes(cs, s.nc, ps) /\ IsState(s)
  BY ReadyParts
<1>2. /\ SameBut(s, t, {"conn", "nc", "pkg"})
      /\ cs2 = With(cs, cn, "CONNECTED") /\ t.nc = s.nc + 1 /\ ps2 = With(ps, pk, new)
  BY <1>1, AcceptedFields
<1> HIDE DEF t
<1>3. /\ DOMAIN cs2 = DOMAIN cs \cup {cn} /\ cs2[cn] = "CONNECTED"
      /\ \A c \in DOMAIN cs : cs2[c] = cs[c]
  <2>1. PICK v : v = "CONNECTED"
    OBVIOUS
  <2>2. cs2 = With(cs, cn, v)
    BY <1>2, <2>1
  <2>3. /\ DOMAIN With(cs, cn, v) = DOMAIN cs \cup {cn} /\ With(cs, cn, v)[cn] = v
        /\ \A c \in DOMAIN cs : c # cn => With(cs, cn, v)[c] = cs[c]
    BY DEF With
  <2>4. QED
    BY <2>1, <2>2, <2>3
<1>4. /\ DOMAIN ps2 = DOMAIN ps \cup {pk} /\ ps2[pk] = new
      /\ \A q \in DOMAIN ps : ps2[q] = ps[q]
  <2> HIDE DEF new
  <2>1. /\ DOMAIN With(ps, pk, new) = DOMAIN ps \cup {pk} /\ With(ps, pk, new)[pk] = new
        /\ \A q \in DOMAIN ps : q # pk => With(ps, pk, new)[q] = ps[q]
    BY DEF With
  <2>2. ps2 = With(ps, pk, new)
    BY <1>2
  <2>3. QED
    BY <2>1, <2>2
<1>5. /\ new \in Package /\ Fresh(new) /\ new.uri = NoGet /\ new.cpn = cn
      /\ new.ppg = NULL /\ new.lcg = NULL /\ new.nsg = NULL
  <2>1. cn \in Nat /\ NULL \in Nat /\ NoGet \in Plain \cup {BadGet, NoGet}
    BY DEF NULL
  <2> HIDE DEF new
  <2>2. IsNew(new, cn, NoGet, NULL, NULL)
    BY <2>1, NewFields DEF new
  <2>3. QED
    BY <2>2 DEF IsNew
<1> HIDE DEF new
<1>6. t.pending = s.pending /\ t.cache = s.cache
  BY <1>2 DEF SameBut
<1>7. \A q \in DOMAIN ps : LinksOf(cs, ps, q) /\ q \in Nat \ {0} /\ ps[q].cpn # cn
  BY <1>1 DEF Linked, LinksOf, Addresses
<1>8. pk \in Nat \ {0} /\ pk \notin DOMAIN ps
  OBVIOUS
<1>9. Linked(cs2, ps2)
  <2>1. ASSUME NEW q \in DOMAIN ps PROVE LinksOf(cs2, ps2, q)
    BY <1>3, <1>4, <1>7 DEF LinksOf
  <2>2. LinksOf(cs2, ps2, pk)
    BY <1>3, <1>4, <1>5 DEF LinksOf, Fresh
  <2>3. \A q \in DOMAIN ps2 : LinksOf(cs2, ps2, q)
    BY <1>4, <2>1, <2>2
  <2>4. \A q, r \in DOMAIN ps2 :
           ps2[q].ppg = NULL /\ ps2[r].ppg = NULL /\ ps2[q].cpn = ps2[r].cpn => q = r
    BY <1>1, <1>4, <1>5, <1>7 DEF Linked
  <2>5. ASSUME NEW q \in DOMAIN ps2, NEW r \in DOMAIN ps2, Siblings(ps2, q, r), q < r
        PROVE  ps2[q].nsg # NULL /\ ps2[q].nsg <= r /\ \E x \in DOMAIN ps2 : ps2[x].nsg = r
    <3>1. q \in DOMAIN ps /\ r \in DOMAIN ps
      BY <1>4, <1>5, <2>5 DEF Siblings
    <3>2. Siblings(ps, q, r)
      BY <1>4, <2>5, <3>1 DEF Siblings
    <3>3. ps[q].nsg # NULL /\ ps[q].nsg <= r /\ \E x \in DOMAIN ps : ps[x].nsg = r
      BY <1>1, <2>5, <3>1, <3>2 DEF Linked
    <3>4. QED
      BY <1>4, <3>1, <3>3
  <2>6. QED
    BY <2>3, <2>4, <2>5 DEF Linked
<1>10. Types(cs2, t.nc, ps2, t.pending, t.cache)
  <2>1. /\ DOMAIN ps2 \subseteq 1 .. MaxPkgs /\ \A q \in DOMAIN ps2 : ps2[q] \in Package
        /\ DOMAIN cs2 \subseteq 1 .. MaxConns
    BY <1>1, <1>3, <1>4, <1>5 DEF Types
  <2>2. t.nc \in 0 .. MaxACCEPT + 1
    BY <1>1, <1>2, BoundAssumption DEF Types
  <2>3. \A c \in DOMAIN cs2 : cs2[c] \in {"CONNECTED", "CLOSING_R", "CLOSING_W", "CLOSING"}
    BY <1>1, <1>3 DEF Types
  <2>4. QED
    BY <1>1, <1>6, <2>1, <2>2, <2>3 DEF Types
<1>11. Sizes(cs2, t.nc, ps2)
  <2>1. Cardinality(DOMAIN cs2) = Cardinality(DOMAIN cs) + 1
    <3>1. IsFiniteSet(DOMAIN cs) /\ cn \notin DOMAIN cs
      BY <1>1, ConnSetsFinite DEF Types
    <3>2. QED
      BY <1>3, <3>1, AddOne
  <2>2. t.nc = Cardinality(DOMAIN cs2)
    BY <1>1, <1>2, <2>1 DEF Sizes
  <2>3. ASSUME NEW c \in DOMAIN cs PROVE PackagesIn(ps2, c) = PackagesIn(ps, c)
    BY <1>4, <1>5 DEF PackagesIn
  <2>4. Cardinality(PackagesIn(ps2, cn)) <= MaxPipeline + 1
    <3>1. PackagesIn(ps2, cn) = {pk}
      BY <1>4, <1>5, <1>7 DEF PackagesIn
    <3>2. Cardinality({pk}) = 1
      BY FS_Singleton
    <3>3. QED
      BY <3>1, <3>2, BoundAssumption
  <2>5. QED
    BY <1>1, <1>3, <2>2, <2>3, <2>4 DEF Sizes
<1>12. ASSUME NEW q \in DOMAIN ps
       PROVE  ps2[q] = ps[q] /\ (First(ps2, q) <=> First(ps, q))
  <2>1. ps2[pk].nsg # q
    BY <1>4, <1>5, <1>7 DEF NULL
  <2>2. (\A y \in DOMAIN ps2 : ps2[y].nsg # q) <=> (\A y \in DOMAIN ps : ps[y].nsg # q)
    BY <1>4, <2>1
  <2>3. QED
    BY <1>4, <2>2 DEF First
<1>13. First(ps2, pk)
  BY <1>4, <1>5 DEF First
<1>14. \A c \in DOMAIN cs : c \in DOMAIN cs2 /\ cs2[c] = cs[c]
  BY <1>3
<1>15. /\ DOMAIN ps \subseteq DOMAIN ps2 /\ pk \in DOMAIN ps2 \ DOMAIN ps
       /\ \A q \in DOMAIN ps2 \ DOMAIN ps : Fresh(ps2[q]) /\ (q # pk => ~First(ps2, q))
  BY <1>4, <1>5
<1>16. Grown(s, t, {}, pk)
  BY <1>2, <1>9, <1>10, <1>11, <1>12, <1>13, <1>14, <1>15 DEF Grown
<1>17. QED
  BY <1>4, <1>5, <1>16 DEF t

LEMMA AcceptRuns ==
  ASSUME NEW s, Ready(s, {}), s.nc <= MaxACCEPT,
         NEW cn, cn = Address(1, 1 .. MaxConns, DOMAIN s.conn),
         NEW pk, pk = Address(1, 1 .. MaxPkgs, DOMAIN s.pkg)
  PROVE  LET r == svr_http_read(Accepted(s, cn, pk), pk) IN Ready(r, {}) /\ Serves(s, r)
<1>1. /\ cn \in (1 .. MaxConns) \ DOMAIN s.conn /\ pk \in (1 .. MaxPkgs) \ DOMAIN s.pkg
      /\ PackagesIn(s.pkg, cn) = {}
  BY AcceptAllocates
<1>2. Grown(s, Accepted(s, cn, pk), {}, pk) /\ Accepted(s, cn, pk).pkg[pk].ppg = NULL
  BY <1>1, AcceptGrown
<1>3. PICK t : t = Accepted(s, cn, pk)
  OBVIOUS
<1>4. Grown(s, t, {}, pk) /\ t.pkg[pk].ppg = NULL
  BY <1>2, <1>3
<1>5. Ready(t, {pk})
  BY <1>4, GrownReady
<1> DEFINE r == svr_http_read(t, pk)
           u == SetHst(t, pk, "READING")
<1>6. Ready(r, {})
  BY <1>4, <1>5, ReadKeeps
<1>7. /\ IsState(s) /\ IsState(t) /\ pk \in DOMAIN t.pkg /\ t.pkg[pk] \in Package
  BY <1>5, ReadyParts, RunningFacts
<1>8. /\ SameBut(s, t, {"conn", "nc", "pkg"}) /\ t.conn = With(s.conn, cn, "CONNECTED")
      /\ t.pkg = With(s.pkg, pk, NewPackage(cn, NoGet, NULL, NULL))
  BY <1>3, <1>7, AcceptedFields
<1>9. t.pkg[pk].cpn = cn /\ DOMAIN t.pkg = DOMAIN s.pkg \cup {pk}
      /\ \A q \in DOMAIN s.pkg : t.pkg[q] = s.pkg[q]
  <2> DEFINE new == NewPackage(cn, NoGet, NULL, NULL)
  <2>1. new.cpn = cn
    BY DEF NewPackage
  <2> HIDE DEF new
  <2>2. /\ DOMAIN t.pkg = DOMAIN s.pkg \cup {pk} /\ t.pkg[pk] = new
        /\ \A q \in DOMAIN s.pkg : q # pk => t.pkg[q] = s.pkg[q]
    <3>1. t.pkg = With(s.pkg, pk, new)
      BY <1>8 DEF new
    <3>2. QED
      BY <3>1 DEF With
  <2>3. QED
    BY <1>1, <2>1, <2>2
<1>10. t.conn[cn] = "CONNECTED" /\ \A y \in DOMAIN s.conn : y # cn => t.conn[y] = s.conn[y]
  <2>1. PICK v : v = "CONNECTED"
    OBVIOUS
  <2>2. t.conn = With(s.conn, cn, v)
    BY <1>8, <2>1
  <2>3. t.conn[cn] = v /\ \A y \in DOMAIN s.conn : y # cn => t.conn[y] = s.conn[y]
    BY <2>2 DEF With
  <2>4. QED
    BY <2>1, <2>3
<1>11. r = Post(u, "svr_http_parse_aio", pk)
  BY <1>9, <1>10 DEF svr_http_read, Cst, SetHst
<1>12. Changed(t, u, pk) /\ u.pkg[pk].hsn = t.pkg[pk].hsn
  <2>1. "READING" \in {"READING", "PARSING"}
    OBVIOUS
  <2>2. /\ Changed(t, u, pk)
        /\ Doing(u.pkg[pk], "READING", t.pkg[pk].wst, t.pkg[pk].hsn, t.pkg[pk].headkey)
    BY <1>7, <2>1, HstChanges
  <2>3. QED
    BY <2>2 DEF Doing
<1> HIDE DEF u
<1>13. Works(t, r, pk)
  <2>1. Works(t, u, pk)
    BY <1>12, ChangedWorks
  <2>2. SameBut(u, r, {"pending"})
    <3>1. IsState(u)
      BY <1>12 DEF Changed, SameBut
    <3>2. QED
      BY <1>11, <3>1, PostFields
  <2>3. QED
    BY <2>1, <2>2, PostWorks, WorksOn
<1> HIDE DEF r
<1>14. /\ r.conn = t.conn /\ pk \in DOMAIN r.pkg /\ r.pkg[pk].ppg = NULL /\ r.pkg[pk].cpn = cn
  BY <1>4, <1>7, <1>9, <1>13 DEF Works
<1>15. First(r.pkg, pk)
  <2>1. First(t.pkg, pk)
    BY <1>4 DEF Grown
  <2>2. r.pkg[pk].lcg = t.pkg[pk].lcg
    BY <1>13 DEF Works
  <2>3. QED
    BY <1>4, <1>14, <2>1, <2>2 DEF First
<1>16. Lost(s.cache) \subseteq Lost(r.cache)
  <2>1. t.cache = s.cache
    BY <1>8 DEF SameBut
  <2>2. QED
    BY <1>13, <2>1, LostKept DEF Works
<1>17. ASSUME NEW y, y # cn
       PROVE  /\ PackagesIn(r.pkg, y) = PackagesIn(s.pkg, y)
              /\ \A q \in PackagesIn(s.pkg, y) : SameAnswer(s.pkg[q], r.pkg[q])
  <2>1. \A q \in DOMAIN s.pkg : r.pkg[q] = s.pkg[q]
    BY <1>1, <1>9, <1>13 DEF Works
  <2>2. DOMAIN r.pkg = DOMAIN s.pkg \cup {pk}
    BY <1>9, <1>13 DEF Works
  <2>3. PackagesIn(r.pkg, y) = PackagesIn(s.pkg, y)
    BY <1>14, <1>17, <2>1, <2>2 DEF PackagesIn
  <2>4. QED
    BY <2>1, <2>3 DEF PackagesIn, SameAnswer
<1>18. Serves(s, r)
  BY <1>1, <1>6, <1>10, <1>14, <1>15, <1>16, <1>17, OpenServes
<1>19. QED
  BY <1>3, <1>6, <1>18 DEF r

(***************************************************************************)
(* The steps of the program                                                *)
(***************************************************************************)

\* The invariant is about what a step finds, whatever open and close will answer.
LEMMA StepBegins ==
  ASSUME Sound, abort = "none", NEW openOk, NEW closeOk
  PROVE  /\ Ready(State(openOk, closeOk), {})
         /\ State(openOk, closeOk).conn = conn /\ State(openOk, closeOk).nc = nc
         /\ State(openOk, closeOk).pkg = pkg /\ State(openOk, closeOk).pending = pending
         /\ State(openOk, closeOk).cache = cache
<1> DEFINE s == State(openOk, closeOk)
           u == State(TRUE, TRUE)
<1>1. /\ IsState(s) /\ s.conn = conn /\ s.nc = nc /\ s.pkg = pkg
      /\ s.pending = pending /\ s.cache = cache /\ s.abort = "none"
  BY DEF State, IsState
<1>2. /\ u.conn = conn /\ u.nc = nc /\ u.pkg = pkg /\ u.pending = pending /\ u.cache = cache
  BY DEF State
<1>3. Good(u, {})
  BY DEF Sound
<1> HIDE DEF s, u
<1>4. Good(s, {})
  BY <1>1, <1>2, <1>3 DEF Good
<1>5. Ready(s, {})
  BY <1>1, <1>4 DEF Ready
<1>6. QED
  BY <1>1, <1>5 DEF s

LEMMA BecomeFields ==
  ASSUME NEW r, Become(r)
  PROVE  /\ conn' = r.conn /\ nc' = r.nc /\ pkg' = r.pkg
         /\ pending' = r.pending /\ cache' = r.cache /\ abort' = r.abort
BY DEF Become

\* A step serves every client.
Served ==
    /\ \A cn \in 1 .. MaxConns : Moves(SessionOf(cn), SessionOf(cn)', Lost(cache'))
    /\ Lost(cache) \subseteq Lost(cache')

\* What a handler leaves is a state between two steps, and it has served the clients.
LEMMA StepEnds ==
  ASSUME Sound, abort = "none", NEW s, Ready(s, {}), s.conn = conn, s.pkg = pkg, s.cache = cache,
         NEW r, Outcome(r), Serves(s, r), Become(r), listener' = listener,
         gets' \in 0 .. MaxGets, aliased' \in BOOLEAN
  PROVE  Sound' /\ Served
<1>1. /\ conn' = r.conn /\ nc' = r.nc /\ pkg' = r.pkg
      /\ pending' = r.pending /\ cache' = r.cache /\ abort' = r.abort
  BY BecomeFields
<1>2. Types(r.conn, r.nc, r.pkg, r.pending, r.cache) /\ r.abort \in {"none", "headkey"}
  BY ReadyParts DEF Outcome
<1>3. TypeOK'
  <2>1. Types(conn', nc', pkg', pending', cache') /\ abort' \in {"none", "headkey"}
    BY <1>1, <1>2
  <2>2. listener \in {"none", "LISTENING", "failed"}
    BY DEF Sound, TypeOK
  <2>3. QED
    BY <2>1, <2>2 DEF TypeOK, Types
<1>4. ASSUME abort' = "none" PROVE Good(State(TRUE, TRUE), {})'
  <2>1. Good(r, {})
    BY <1>1, <1>4 DEF Outcome, Ready
  <2>2. PICK u : u = State(TRUE, TRUE)'
    OBVIOUS
  <2>3. /\ u.conn = conn' /\ u.nc = nc' /\ u.pkg = pkg' /\ u.pending = pending'
        /\ u.cache = cache'
    BY <2>2 DEF State
  <2>4. Good(u, {})
    BY <1>1, <2>1, <2>3 DEF Good
  <2>5. QED
    BY <2>2, <2>4
<1>5. OnlyBadRequestsFailAssertions'
  <2>1. ASSUME abort' # "none"
        PROVE  /\ abort' = "headkey"
               /\ \E p \in DOMAIN pkg' : pkg'[p].uri = BadGet /\ pkg'[p].hsn = 400
    BY <1>1, <2>1 DEF Outcome, Ready
  <2>2. QED
    BY <2>1 DEF OnlyBadRequestsFailAssertions
<1>6. Served
  <2>1. Addresses(pkg) /\ Linked(conn, pkg)
    BY ReadyParts
  <2>2. Addresses(pkg') /\ Linked(conn', pkg')
    <3>1. Linked(r.conn, r.pkg)
      BY ReadyParts DEF Outcome
    <3>2. Addresses(r.pkg)
      BY <1>2, PkgsAreNumbers DEF Types, Addresses
    <3>3. QED
      BY <1>1, <3>1, <3>2
  <2>3. ASSUME NEW cn \in 1 .. MaxConns
        PROVE  Moves(SessionOf(cn), SessionOf(cn)', Lost(cache'))
    <3>1. SessionOf(cn) = View(conn, pkg, cn)
      BY <2>1, SessionOfIs, SessionIsView
    <3>2. SessionOf(cn)' = View(conn', pkg', cn)
      BY <2>2, SessionOfIs, SessionIsView
    <3>3. Moves(View(conn, pkg, cn), View(conn', pkg', cn), Lost(cache'))
      BY <1>1 DEF Serves, ViewOf
    <3>4. QED
      BY <3>1, <3>2, <3>3
  <2>4. QED
    BY <1>1, <2>3 DEF Served, Serves
<1>7. QED
  BY <1>3, <1>4, <1>5, <1>6 DEF Sound

\* The same after a handler that works for one package.
LEMMA StepLed ==
  ASSUME Sound, abort = "none", NEW s, Ready(s, {}), s.conn = conn, s.pkg = pkg, s.cache = cache,
         NEW h, NEW p, Callback(h, p) \in s.pending,
         NEW r, Ready(r, {}), Leads(s, r, p), Become(r), listener' = listener,
         gets' \in 0 .. MaxGets, aliased' \in BOOLEAN
  PROVE  Sound' /\ Served
<1>1. p \in DOMAIN s.pkg /\ First(s.pkg, p)
  BY CallbackFacts
<1>2. Serves(s, r)
  BY <1>1, LeadsServes
<1>3. Outcome(r)
  BY DEF Outcome
<1>4. QED
  BY <1>2, <1>3, StepEnds

LEMMA HistoryKept ==
  ASSUME Sound, gets' = gets, aliased' = aliased
  PROVE  gets' \in 0 .. MaxGets /\ aliased' \in BOOLEAN
BY DEF Sound, TypeOK

LEMMA InitInv == Init => Inv
<1> SUFFICES ASSUME Init PROVE Inv
  OBVIOUS
<1>1. /\ DOMAIN conn = {} /\ DOMAIN pkg = {} /\ DOMAIN cache = {} /\ pending = {} /\ nc = 0
      /\ abort = "none" /\ gets = 0 /\ aliased = FALSE /\ listener = "none"
  BY DEF Init
<1>2. TypeOK
  <2>1. nc \in 0 .. MaxACCEPT + 1 /\ gets \in 0 .. MaxGets
    BY <1>1, BoundAssumption
  <2>2. aliased \in BOOLEAN
    BY <1>1
  <2>3. QED
    BY <1>1, <2>1, <2>2 DEF TypeOK
<1>3. PICK u : u = State(TRUE, TRUE)
  OBVIOUS
<1>4. u.conn = conn /\ u.nc = nc /\ u.pkg = pkg /\ u.pending = pending /\ u.cache = cache
  BY <1>3 DEF State
<1>5. Types(conn, nc, pkg, pending, cache) /\ Linked(conn, pkg)
  BY <1>1, BoundAssumption DEF Types, Linked
<1>6. Waiting(pkg, pending, cache, {}) /\ Phases(conn, pkg, pending, cache)
  BY <1>1 DEF Waiting, Phases
<1>7. /\ Slots(conn, pkg, pending, cache, {}) /\ Blocks(pkg, pending, cache, {})
      /\ Counts(pkg, cache, {})
  BY <1>1 DEF Slots, Blocks, Counts
<1>8. Sizes(conn, nc, pkg)
  BY <1>1, FS_EmptySet DEF Sizes
<1>9. Good(u, {})
  BY <1>4, <1>5, <1>6, <1>7, <1>8 DEF Good
<1>10. OnlyBadRequestsFailAssertions
  BY <1>1 DEF OnlyBadRequestsFailAssertions
<1>11. QED
  BY <1>2, <1>3, <1>9, <1>10 DEF Inv, Sound

\* svr_conn_accept: the new connection starts to read.
LEMMA AcceptStep ==
  ASSUME Sound, svr_conn_accept
  PROVE  Sound' /\ Served
<1>1. PICK s : s = State(TRUE, TRUE)
  OBVIOUS
<1>2. PICK cn : cn = Address(1, 1 .. MaxConns, DOMAIN conn)
  OBVIOUS
<1>3. PICK pk : pk = Address(1, 1 .. MaxPkgs, DOMAIN pkg)
  OBVIOUS
<1>4. /\ abort = "none" /\ nc <= MaxACCEPT /\ listener' = listener
      /\ gets' = gets /\ aliased' = aliased
      /\ Become(svr_http_read(Accepted(s, cn, pk), pk))
  BY <1>1, <1>2, <1>3 DEF svr_conn_accept, Accepted
<1>5. Ready(s, {}) /\ s.conn = conn /\ s.nc = nc /\ s.pkg = pkg /\ s.cache = cache
  BY <1>1, <1>4, StepBegins
<1>6. PICK r : r = svr_http_read(Accepted(s, cn, pk), pk)
  OBVIOUS
<1>7. Ready(r, {}) /\ Serves(s, r) /\ Become(r)
  BY <1>2, <1>3, <1>4, <1>5, <1>6, AcceptRuns
<1>8. Outcome(r)
  BY <1>7 DEF Outcome
<1>9. gets' \in 0 .. MaxGets /\ aliased' \in BOOLEAN
  BY <1>4, HistoryKept
<1>10. QED
  BY <1>4, <1>5, <1>7, <1>8, <1>9, StepEnds

\* RunRead: the dispatcher runs svr_http_read.
LEMMA RunReadStep ==
  ASSUME Sound, NEW p, RunRead(p)
  PROVE  Sound' /\ Served
<1>1. PICK closeOk \in CloseAnswers(p) : Call(p, "svr_http_read", TRUE, closeOk, svr_http_read)
  BY DEF RunRead
<1>2. listener' = listener /\ gets' = gets /\ aliased' = aliased
  BY DEF RunRead
<1>3. PICK s : s = State(TRUE, closeOk)
  OBVIOUS
<1>4. /\ abort = "none" /\ Callback("svr_http_read", p) \in pending
      /\ Become(svr_http_read(Begun(s, "svr_http_read", p), p))
  BY <1>1, <1>3 DEF Call, Callback, Begun
<1>5. Ready(s, {}) /\ s.pending = pending /\ s.conn = conn /\ s.pkg = pkg /\ s.cache = cache
  BY <1>3, <1>4, StepBegins
<1>6. PICK r : r = svr_http_read(Begun(s, "svr_http_read", p), p)
  OBVIOUS
<1>7. Ready(r, {}) /\ Leads(s, r, p) /\ Become(r)
  BY <1>4, <1>5, <1>6, ReadRuns
<1>8. gets' \in 0 .. MaxGets /\ aliased' \in BOOLEAN
  BY <1>2, HistoryKept
<1>9. QED
  BY <1>2, <1>4, <1>5, <1>7, <1>8, StepLed

\* RunFetch: the dispatcher runs svr_http_fetch.
LEMMA RunFetchStep ==
  ASSUME Sound, NEW p, RunFetch(p)
  PROVE  Sound' /\ Served
<1>1. PICK openOk \in BOOLEAN : Call(p, "svr_http_fetch", openOk, TRUE, svr_http_fetch)
  BY DEF RunFetch
<1>2. listener' = listener /\ gets' = gets /\ aliased' = aliased
  BY DEF RunFetch
<1>3. PICK s : s = State(openOk, TRUE)
  OBVIOUS
<1>4. /\ abort = "none" /\ Callback("svr_http_fetch", p) \in pending
      /\ Become(svr_http_fetch(Begun(s, "svr_http_fetch", p), p))
  BY <1>1, <1>3 DEF Call, Callback, Begun
<1>5. Ready(s, {}) /\ s.pending = pending /\ s.conn = conn /\ s.pkg = pkg /\ s.cache = cache
  BY <1>3, <1>4, StepBegins
<1>6. PICK r : r = svr_http_fetch(Begun(s, "svr_http_fetch", p), p)
  OBVIOUS
<1>7. Ready(r, {}) /\ Leads(s, r, p) /\ Become(r)
  BY <1>4, <1>5, <1>6, FetchRuns
<1>8. gets' \in 0 .. MaxGets /\ aliased' \in BOOLEAN
  BY <1>2, HistoryKept
<1>9. QED
  BY <1>2, <1>4, <1>5, <1>7, <1>8, StepLed

\* RequestRead: the socket was read, and no alias was asked for.
LEMMA RequestReadStep ==
  ASSUME Sound, NEW p, RequestRead(p), ~aliased'
  PROVE  Sound' /\ Served
<1>1. PICK n \in 0 .. MaxPipeline, eof \in BOOLEAN, closeOk \in CloseAnswers(p) :
         /\ gets + n <= MaxGets /\ gets' = gets + n /\ listener' = listener
         /\ \E requests \in [1 .. n -> Uris \cup {BadGet}] :
               /\ aliased' = (aliased \/ \E i \in 1 .. n : requests[i] \in Aliases)
               /\ Call(p, "svr_http_parse_aio", TRUE, closeOk,
                       LAMBDA s, q : svr_http_parse_aio(s, q, eof, requests))
  BY DEF RequestRead
<1>2. PICK requests \in [1 .. n -> Uris \cup {BadGet}] :
         /\ aliased' = (aliased \/ \E i \in 1 .. n : requests[i] \in Aliases)
         /\ Call(p, "svr_http_parse_aio", TRUE, closeOk,
                 LAMBDA s, q : svr_http_parse_aio(s, q, eof, requests))
  BY <1>1
<1>a. requests \in [1 .. n -> Plain \cup {BadGet}]
  <2>1. ~\E i \in 1 .. n : requests[i] \in Aliases
    BY <1>2, Zenon
  <2>2. \A i \in 1 .. n : requests[i] \in Plain \cup {BadGet}
    BY <2>1 DEF Plain
  <2>3. QED
    BY <2>2
<1>3. PICK s : s = State(TRUE, closeOk)
  OBVIOUS
<1>4. /\ abort = "none" /\ Callback("svr_http_parse_aio", p) \in pending
      /\ Become(svr_http_parse_aio(Begun(s, "svr_http_parse_aio", p), p, eof, requests))
  BY <1>2, <1>3 DEF Call, Callback, Begun
<1>5. Ready(s, {}) /\ s.pending = pending /\ s.conn = conn /\ s.pkg = pkg /\ s.cache = cache
  BY <1>3, <1>4, StepBegins
<1>6. PICK r : r = svr_http_parse_aio(Begun(s, "svr_http_parse_aio", p), p, eof, requests)
  OBVIOUS
<1>7. Ready(r, {}) /\ Serves(s, r) /\ Become(r)
  BY <1>a, <1>4, <1>5, <1>6, ParseRuns
<1>8. Outcome(r)
  BY <1>7 DEF Outcome
<1>9. gets' \in 0 .. MaxGets /\ aliased' \in BOOLEAN
  <2>1. gets \in 0 .. MaxGets /\ n \in Nat /\ MaxGets \in Nat
    BY BoundAssumption DEF Sound, TypeOK
  <2>2. gets + n <= MaxGets /\ gets' = gets + n
    BY <1>1, Zenon
  <2>3. gets' \in 0 .. MaxGets
    BY <2>1, <2>2
  <2>4. aliased' = FALSE
    OBVIOUS
  <2>5. QED
    BY <2>3, <2>4
<1>10. listener' = listener
  BY <1>1, Zenon
<1>11. QED
  BY <1>4, <1>5, <1>7, <1>8, <1>9, <1>10, StepEnds

\* HeaderWritten: the aio wrapper calls svr_http_header_to_body_aio.
LEMMA HeaderWrittenStep ==
  ASSUME Sound, NEW p, HeaderWritten(p)
  PROVE  Sound' /\ Served
<1> DEFINE h == "svr_http_header_to_body_aio"
<1>1. PICK s : s = State(TRUE, TRUE)
  OBVIOUS
<1>2. s.pkg = pkg /\ s.cache = cache
  BY <1>1 DEF State
<1>3. listener' = listener /\ gets' = gets /\ aliased' = aliased
  BY DEF HeaderWritten
<1>4. PICK n \in Written(s.cache[HeadKey(s.pkg[p].uri)].data.size) :
         Call(p, "svr_http_header_to_body_aio", TRUE, TRUE,
              LAMBDA u, q : svr_http_header_to_body_aio(u, q, n))
  BY <1>2 DEF HeaderWritten
<1>5. /\ abort = "none" /\ Callback(h, p) \in pending
      /\ Become(svr_http_header_to_body_aio(Begun(s, h, p), p, n))
  BY <1>1, <1>4 DEF Call, Callback, Begun
<1>6. Ready(s, {}) /\ s.pending = pending /\ s.conn = conn /\ s.pkg = pkg /\ s.cache = cache
  BY <1>1, <1>5, StepBegins
<1>7. PICK r : r = svr_http_header_to_body_aio(Begun(s, h, p), p, n)
  OBVIOUS
<1>8. Ready(r, {}) /\ Leads(s, r, p) /\ Become(r)
  BY <1>4, <1>5, <1>6, <1>7, HeaderRuns
<1>9. gets' \in 0 .. MaxGets /\ aliased' \in BOOLEAN
  BY <1>3, HistoryKept
<1>10. QED
  BY <1>3, <1>5, <1>6, <1>8, <1>9, StepLed

\* BlockWritten: a block, or some of it, or a 400 response was written.
LEMMA BlockWrittenStep ==
  ASSUME Sound, NEW p, BlockWritten(p)
  PROVE  Sound' /\ Served
<1> DEFINE h == "svr_http_body_rio"
<1>1. PICK s : s = State(TRUE, TRUE)
  OBVIOUS
<1>2. s.pkg = pkg /\ s.cache = cache
  BY <1>1 DEF State
<1>3. listener' = listener /\ gets' = gets /\ aliased' = aliased
  BY DEF BlockWritten
<1>4. PICK n \in Written(WriteSize(s, p)) :
         Call(p, "svr_http_body_rio", TRUE, TRUE,
              LAMBDA u, q : svr_http_body_rio(u, q, n))
  BY <1>2 DEF BlockWritten, WriteSize
<1>5. /\ abort = "none" /\ Callback(h, p) \in pending
      /\ Become(svr_http_body_rio(Begun(s, h, p), p, n))
  BY <1>1, <1>4 DEF Call, Callback, Begun
<1>6. Ready(s, {}) /\ s.pending = pending /\ s.conn = conn /\ s.pkg = pkg /\ s.cache = cache
  BY <1>1, <1>5, StepBegins
<1>7. PICK r : r = svr_http_body_rio(Begun(s, h, p), p, n)
  OBVIOUS
<1>8. Ready(r, {}) /\ Leads(s, r, p) /\ Become(r)
  BY <1>4, <1>5, <1>6, <1>7, BlockWrittenRuns
<1>9. gets' \in 0 .. MaxGets /\ aliased' \in BOOLEAN
  BY <1>3, HistoryKept
<1>10. QED
  BY <1>3, <1>5, <1>6, <1>8, <1>9, StepLed

\* The block that package p reads begins within the file.
LEMMA LeftOfFile ==
  ASSUME NEW s, Ready(s, {}), NEW p, Callback("svr_http_body_pio", p) \in s.pending
  PROVE  LET left == FileSize[s.pkg[p].uri] - s.pkg[p].tr_offset IN
         /\ left \in Nat
         /\ BlockSize(<<s.pkg[p].uri, s.pkg[p].tr_offset>>) =
               CASE left < 0 -> 0 [] left \in 0 .. MAXWB -> left [] OTHER -> MAXWB
<1> DEFINE pk == s.pkg[p]
           k == BlockOf(pk)
           left == FileSize[pk.uri] - pk.tr_offset
<1>1. pk \in Package /\ Phase(s.conn, s.cache, "svr_http_body_pio", p, pk)
  BY CallbackFacts
<1>2. pk.uri \in Plain /\ pk.bodykey = pk.tr_offset /\ k \in DOMAIN s.cache
  BY <1>1 DEF Phase, Fetching
<1>3. pk.tr_offset \in Nat /\ FileSize[pk.uri] \in Nat /\ MAXWB \in Nat
  BY <1>1, <1>2, PlainSizes DEF Package
<1>4. k = <<pk.uri, pk.tr_offset>> /\ k[1] = pk.uri /\ k[2] = pk.tr_offset
  BY <1>2 DEF BlockOf, Block
<1>5. pk.tr_offset <= FileSize[pk.uri]
  <2>1. Slot(s.conn, s.pkg, s.pending, {}, k, s.cache[k])
    BY <1>2, ReadyParts DEF Slots
  <2> HIDE DEF k, pk
  <2>2. k[2] # -1
    BY <1>3, <1>4
  <2>3. QED
    BY <1>4, <2>1, <2>2 DEF Slot
<1>6. left \in Nat
  BY <1>3, <1>5
<1>7. BlockSize(<<pk.uri, pk.tr_offset>>) = IF left < MAXWB THEN left ELSE MAXWB
  BY DEF BlockSize
<1> HIDE DEF left
<1>8. (IF left < MAXWB THEN left ELSE MAXWB) =
         CASE left < 0 -> 0 [] left \in 0 .. MAXWB -> left [] OTHER -> MAXWB
  BY <1>3, <1>6
<1>9. QED
  BY <1>6, <1>7, <1>8 DEF left

\* BlockRead: a block was read from the file.
LEMMA BlockReadStep ==
  ASSUME Sound, NEW p, BlockRead(p)
  PROVE  Sound' /\ Served
<1> DEFINE h == "svr_http_body_pio"
           left == FileSize[pkg[p].uri] - pkg[p].tr_offset
           n == CASE left < 0 -> 0 [] left \in 0 .. MAXWB -> left [] OTHER -> MAXWB
<1>1. PICK s : s = State(TRUE, TRUE)
  OBVIOUS
<1>2. /\ Call(p, h, TRUE, TRUE, LAMBDA u, q : svr_http_body_pio(u, q, n))
      /\ listener' = listener /\ gets' = gets /\ aliased' = aliased
  BY DEF BlockRead
<1> HIDE DEF n
<1>3. /\ abort = "none" /\ Callback(h, p) \in pending
      /\ Become(svr_http_body_pio(Begun(s, h, p), p, n))
  BY <1>1, <1>2 DEF Call, Callback, Begun
<1>4. Ready(s, {}) /\ s.pending = pending /\ s.conn = conn /\ s.pkg = pkg /\ s.cache = cache
  BY <1>1, <1>3, StepBegins
<1>5. n = BlockSize(<<s.pkg[p].uri, s.pkg[p].tr_offset>>)
  BY <1>3, <1>4, LeftOfFile DEF n
<1>6. PICK r : r = svr_http_body_pio(Begun(s, h, p), p, n)
  OBVIOUS
<1>7. Ready(r, {}) /\ Unseen(s, r) /\ Become(r)
  BY <1>3, <1>4, <1>5, <1>6, BlockReadRuns
<1>8. Outcome(r) /\ Serves(s, r)
  BY <1>4, <1>7, UnseenServes DEF Outcome
<1>9. gets' \in 0 .. MaxGets /\ aliased' \in BOOLEAN
  BY <1>2, HistoryKept
<1>10. QED
  BY <1>2, <1>3, <1>4, <1>7, <1>8, <1>9, StepEnds

\* IOFails: the error callback of an operation, svr_http_final_aio, runs.
LEMMA IOFailsStep ==
  ASSUME Sound, NEW p, IOFails(p)
  PROVE  Sound' /\ Served
<1>1. PICK h \in Handlers \ {"svr_http_read", "svr_http_fetch"}, closeOk \in CloseAnswers(p) :
         Call(p, h, TRUE, closeOk, svr_http_final_aio)
  BY DEF IOFails
<1>2. listener' = listener /\ gets' = gets /\ aliased' = aliased
  BY DEF IOFails
<1>3. PICK s : s = State(TRUE, closeOk)
  OBVIOUS
<1>4. /\ abort = "none" /\ Callback(h, p) \in pending
      /\ Become(svr_http_final_aio(Begun(s, h, p), p))
  BY <1>1, <1>3 DEF Call, Callback, Begun
<1>5. Ready(s, {}) /\ s.pending = pending /\ s.conn = conn /\ s.pkg = pkg /\ s.cache = cache
  BY <1>3, <1>4, StepBegins
<1>6. PICK r : r = svr_http_final_aio(Begun(s, h, p), p)
  OBVIOUS
<1>7. Outcome(r) /\ Serves(s, r) /\ Become(r)
  BY <1>4, <1>5, <1>6, FailRuns
<1>8. gets' \in 0 .. MaxGets /\ aliased' \in BOOLEAN
  BY <1>2, HistoryKept
<1>9. QED
  BY <1>2, <1>4, <1>5, <1>7, <1>8, StepEnds

LEMMA SoundKept ==
  ASSUME Sound, [Next]_vars, ~aliased'
  PROVE  Sound' /\ Served
<1>1. ASSUME UNCHANGED <<conn, nc, pkg, pending, cache, abort>>,
             aliased => aliased', TypeOK'
      PROVE  Sound' /\ Served
  <2>1. PICK u : u = State(TRUE, TRUE)'
    OBVIOUS
  <2>2. u = State(TRUE, TRUE)
    BY <1>1, <2>1 DEF State
  <2>3. abort' = "none" => Good(u, {})
    BY <1>1, <2>2 DEF Sound
  <2>4. OnlyBadRequestsFailAssertions'
    BY <1>1 DEF Sound, OnlyBadRequestsFailAssertions
  <2>5. \A cn : SessionOf(cn)' = SessionOf(cn)
    BY <1>1, SessionOfIs
  <2>6. Served
    BY <1>1, <2>5 DEF Served, Moves
  <2>7. QED
    BY <1>1, <2>1, <2>3, <2>4, <2>6 DEF Sound
<1>2. CASE svr_conn_listen
  <2>1. TypeOK'
    BY <1>2 DEF svr_conn_listen, Sound, TypeOK
  <2>2. QED
    BY <1>1, <1>2, <2>1 DEF svr_conn_listen
<1>3. CASE UNCHANGED vars
  <2>1. TypeOK'
    BY <1>3 DEF vars, Sound, TypeOK
  <2>2. QED
    BY <1>1, <1>3, <2>1 DEF vars
<1>4. CASE AcceptFails
  BY <1>3, <1>4 DEF AcceptFails
<1>5. CASE svr_conn_accept
  BY <1>5, AcceptStep
<1>6. ASSUME NEW p \in 1 .. MaxPkgs, Handle(p) PROVE Sound' /\ Served
  BY <1>6, RunReadStep, RunFetchStep, RequestReadStep, HeaderWrittenStep,
     BlockWrittenStep, BlockReadStep, IOFailsStep DEF Handle
<1>7. QED
  BY <1>2, <1>3, <1>4, <1>5, <1>6 DEF Next, svr_start

LEMMA AliasedStays == aliased /\ [Next]_vars => aliased'
BY DEF Next, svr_start, svr_conn_listen, AcceptFails, svr_conn_accept, Handle, RunRead,
       RunFetch, RequestRead, HeaderWritten, BlockWritten, BlockRead, IOFails, vars

LEMMA NextKeeps == Inv /\ [Next]_vars => Inv' /\ (aliased' \/ Served)
BY SoundKept, AliasedStays DEF Inv

LEMMA Invariance == SafetySpec => []Inv
BY InitInv, NextKeeps, PTL DEF SafetySpec

(***************************************************************************)
(* Theorems                                                                *)
(***************************************************************************)

\* The invariant of the running program, part by part.
LEMMA Parts ==
  ASSUME Sound, abort = "none"
  PROVE  /\ Types(conn, nc, pkg, pending, cache) /\ Linked(conn, pkg) /\ Addresses(pkg)
         /\ Waiting(pkg, pending, cache, {}) /\ Slots(conn, pkg, pending, cache, {})
         /\ Counts(pkg, cache, {})
<1>1. PICK s : s = State(TRUE, TRUE)
  OBVIOUS
<1>2. /\ Ready(s, {}) /\ s.conn = conn /\ s.nc = nc /\ s.pkg = pkg /\ s.pending = pending
      /\ s.cache = cache
  BY <1>1, StepBegins
<1>3. QED
  BY <1>2, ReadyParts

\* Nobody has asked for an alias.
LEMMA UrisArePlain ==
  ASSUME Sound, abort = "none"
  PROVE  \A p \in DOMAIN pkg : pkg[p].uri \in Plain \cup {BadGet, NoGet}
BY Parts DEF Linked, LinksOf

\* Until an alias is asked for, every variable keeps its type: descriptors and
\* package addresses within the bounds that MaxACCEPT and the GETs of one read set,
\* at most MaxACCEPT + 1 connections, reference counts never negative.
THEOREM TypeCorrect == SafetySpec => [](aliased \/ TypeOK)
<1>1. Inv => aliased \/ TypeOK
  BY DEF Inv, Sound
<1>2. QED
  BY <1>1, Invariance, PTL

\* Until an alias is asked for, and whatever the order of completions and errors, the
\* only assertion that can fail is the one on headkey in svr_http_final_aio, for a bad
\* request whose 400 response could not be written; no deleted package or block is
\* used, and no data that is NULL.
THEOREM OnlyHeadkeyFails == SafetySpec => [](aliased \/ OnlyBadRequestsFailAssertions)
<1>1. Inv => aliased \/ OnlyBadRequestsFailAssertions
  BY DEF Inv, Sound
<1>2. QED
  BY <1>1, Invariance, PTL

\* Until an alias is asked for, the references of a block of the cache are the
\* reserver's and one for each package between svr_http_body_wio and the doneWith of
\* svr_http_body_rio.
THEOREM ReferencesAreWriters == SafetySpec => []BlockReferencesAreWriters
<1>1. ASSUME Sound, abort = "none", NEW k \in DOMAIN cache, k[2] # -1,
             cache[k].status # "cancelled"
      PROVE  cache[k].refCount = 1 + Cardinality(
                {p \in DOMAIN pkg : /\ pkg[p].hst = "WRITING" /\ pkg[p].wst = "BODY"
                                    /\ k = BodyKey(pkg[p].uri, pkg[p].bodykey)})
  <2>1. cache[k].refCount = 1 + Cardinality(Users(pkg, {}, k))
    BY <1>1, Parts DEF Counts
  <2>2. k = <<k[1], k[2]>>
    <3>1. k \in Plain \X (Nat \cup {-1})
      BY <1>1, Parts DEF Slots, Slot
    <3>2. QED
      BY <3>1
  <2>3. ASSUME NEW pk PROVE k = Block(pk.uri, pk.bodykey) <=> pk.uri = k[1] /\ pk.bodykey = k[2]
    BY <2>2 DEF Block
  <2>4. \A p : Uses(pkg[p], k) <=> /\ pkg[p].hst = "WRITING" /\ pkg[p].wst = "BODY"
                                   /\ k = Block(pkg[p].uri, pkg[p].bodykey)
    BY <1>1, <2>3 DEF Uses
  <2>5. Users(pkg, {}, k) =
           {p \in DOMAIN pkg : /\ pkg[p].hst = "WRITING" /\ pkg[p].wst = "BODY"
                               /\ k = Block(pkg[p].uri, pkg[p].bodykey)}
    BY <2>4 DEF Users
  <2>6. \A p \in DOMAIN pkg :
           BodyKey(pkg[p].uri, pkg[p].bodykey) = Block(pkg[p].uri, pkg[p].bodykey)
    BY <1>1, UrisArePlain, PlainKeys
  <2>7. {p \in DOMAIN pkg : /\ pkg[p].hst = "WRITING" /\ pkg[p].wst = "BODY"
                            /\ k = BodyKey(pkg[p].uri, pkg[p].bodykey)} = Users(pkg, {}, k)
    BY <2>5, <2>6
  <2>8. QED
    BY <2>1, <2>7
<1>2. Inv => BlockReferencesAreWriters
  BY <1>1 DEF Inv, BlockReferencesAreWriters
<1>3. QED
  BY <1>2, Invariance, PTL

\* A package whose turn it is waits for one thing, and the others for nothing.
LEMMA OneAwaited ==
  ASSUME Sound, abort = "none", NEW p \in DOMAIN pkg
  PROVE  Cardinality(Awaited(p)) = IF OnTurn(p) THEN 1 ELSE 0
<1> DEFINE own == {t.handler : t \in {u \in pending : u.pk = p}}
           queued == \E k \in DOMAIN cache : p \in Range(cache[k].queue)
<1>1. OnTurn(p) <=> First(pkg, p)
  BY DEF OnTurn, First
<1>2. Waiting(pkg, pending, cache, {}) /\ Slots(conn, pkg, pending, cache, {})
  BY Parts
<1>3. ASSUME queued
      PROVE  First(pkg, p) /\ \A t \in pending : t.pk = p => t = Reader(p)
  <2>1. PICK k \in DOMAIN cache : p \in Range(cache[k].queue)
    BY <1>3
  <2>2. Slot(conn, pkg, pending, {}, k, cache[k])
    BY <1>2 DEF Slots
  <2>3. cache[k].status = "reserved"
    BY <2>1, <2>2 DEF Slot, Range
  <2>4. QED
    BY <2>1, <2>2, <2>3 DEF Slot
<1>4. Awaited(p) = IF queued /\ "svr_http_body_pio" \notin own
                      THEN own \cup {"svr_http_body_wio"} ELSE own
  BY DEF Awaited
<1>5. CASE ~First(pkg, p)
  <2>1. own = {} /\ ~queued
    BY <1>2, <1>3, <1>5 DEF Waiting
  <2>2. Awaited(p) = {}
    BY <1>4, <2>1
  <2>3. QED
    BY <1>1, <1>5, <2>2, FS_EmptySet
<1>6. CASE First(pkg, p) /\ \E t \in pending : t.pk = p
  <2>1. PICK t \in pending : t.pk = p
    BY <1>6
  <2>2. \A u \in pending : u.pk = p => u = t
    BY <1>2, <2>1 DEF Waiting
  <2>3. own = {t.handler}
    BY <2>1, <2>2
  <2>4. queued => t.handler = "svr_http_body_pio"
    BY <1>3, <2>1 DEF Reader
  <2>5. Awaited(p) = {t.handler}
    BY <1>4, <2>3, <2>4
  <2>6. QED
    BY <1>1, <1>6, <2>5, FS_Singleton
<1>7. CASE First(pkg, p) /\ ~\E t \in pending : t.pk = p
  <2>1. InQueue(pkg, cache, p)
    BY <1>2, <1>7 DEF Waiting
  <2>2. queued /\ own = {}
    BY <1>7, <2>1 DEF InQueue
  <2>3. Awaited(p) = {"svr_http_body_wio"}
    BY <1>4, <2>2
  <2>4. QED
    BY <1>1, <1>7, <2>3, FS_Singleton
<1>8. QED
  BY <1>5, <1>6, <1>7

\* It is the turn of one package of a connection: of the root, or of the child with
\* the lowest address.
LEMMA OneOnTurn ==
  ASSUME Sound, abort = "none", NEW cn, PackagesOf(cn) # {}
  PROVE  Cardinality({p \in PackagesOf(cn) : OnTurn(p)}) = 1
<1>1. Linked(conn, pkg) /\ Addresses(pkg) /\ \A p \in DOMAIN pkg : LinksOf(conn, pkg, p)
  BY Parts DEF Linked
<1>2. PICK q \in DOMAIN pkg : pkg[q].cpn = cn
  BY DEF PackagesOf
<1>3. PICK root \in DOMAIN pkg : pkg[root].cpn = cn /\ pkg[root].ppg = NULL
  BY <1>1, <1>2 DEF LinksOf
<1>4. \E p \in DOMAIN pkg : pkg[p].cpn = cn /\ First(pkg, p)
  <2>1. CASE pkg[root].lcg = NULL
    BY <1>3, <2>1 DEF First
  <2>2. CASE pkg[root].lcg # NULL
    <3> DEFINE kids == {x \in DOMAIN pkg : pkg[x].ppg = root}
    <3>1. kids \in SUBSET Nat /\ kids # {} /\ root # NULL
      BY <1>1, <1>3, <2>2 DEF Addresses, LinksOf, NULL
    <3>2. PICK m \in kids : \A x \in kids : m <= x
      <4> HIDE DEF kids
      <4>1. QED
        BY <3>1, LeastNatural
    <3>3. m \in DOMAIN pkg /\ pkg[m].ppg = root /\ m \in Nat /\ pkg[m].cpn = cn
      BY <1>1, <1>3, <3>1, <3>2 DEF LinksOf
    <3>4. ASSUME NEW x \in DOMAIN pkg, pkg[x].nsg = m PROVE FALSE
      <4>1. m # NULL /\ x \in Nat
        BY <1>1, <3>3 DEF Addresses, NULL
      <4>2. m > x /\ pkg[x].ppg = root
        BY <1>1, <3>3, <3>4, <4>1 DEF LinksOf
      <4>3. m <= x
        BY <3>2, <4>2
      <4>4. QED
        BY <3>3, <4>1, <4>2, <4>3
    <3>5. First(pkg, m)
      BY <3>1, <3>3, <3>4 DEF First
    <3>6. QED
      BY <3>3, <3>5
  <2>3. QED
    BY <2>1, <2>2
<1>5. PICK p \in DOMAIN pkg : pkg[p].cpn = cn /\ First(pkg, p)
  BY <1>4
<1>6. ASSUME NEW x \in DOMAIN pkg, pkg[x].cpn = cn, First(pkg, x) PROVE x = p
  BY <1>1, <1>5, <1>6, OneFirst
<1>7. \A x \in DOMAIN pkg : OnTurn(x) <=> First(pkg, x)
  BY DEF OnTurn, First
<1>8. {x \in PackagesOf(cn) : OnTurn(x)} = {p}
  BY <1>5, <1>6, <1>7 DEF PackagesOf
<1>9. QED
  BY <1>8, FS_Singleton

\* Until an alias is asked for, the callbacks of a connection form one thread of
\* control: one package of it is on turn and waits for one callback, and links and
\* callbacks lead to what exists.
THEOREM ConnectionsAreSerial == SafetySpec => [](aliased \/ OneThingAtATime)
<1>1. ASSUME Sound, abort = "none"
      PROVE  /\ \A t \in pending : t.pk \in DOMAIN pkg
             /\ \A k \in DOMAIN cache : Range(cache[k].queue) \subseteq DOMAIN pkg
  <2>1. Waiting(pkg, pending, cache, {}) /\ Slots(conn, pkg, pending, cache, {})
    BY <1>1, Parts
  <2>2. ASSUME NEW k \in DOMAIN cache PROVE Range(cache[k].queue) \subseteq DOMAIN pkg
    <3>1. Slot(conn, pkg, pending, {}, k, cache[k])
      BY <2>1 DEF Slots
    <3>2. CASE cache[k].status = "reserved"
      BY <3>1, <3>2 DEF Slot
    <3>3. CASE cache[k].status # "reserved"
      <4>1. cache[k].queue = <<>>
        BY <3>1, <3>3 DEF Slot
      <4>2. Range(cache[k].queue) = {}
        BY <4>1 DEF Range
      <4>3. QED
        BY <4>2
    <3>4. QED
      BY <3>2, <3>3
  <2>3. QED
    BY <2>1, <2>2 DEF Waiting
<1>2. ASSUME Sound, abort = "none", NEW p \in DOMAIN pkg
      PROVE  /\ pkg[p].cpn \in DOMAIN conn
             /\ {pkg[p].ppg, pkg[p].lcg, pkg[p].nsg} \subseteq DOMAIN pkg \cup {NULL}
  <2>1. LinksOf(conn, pkg, p)
    BY <1>2, Parts DEF Linked
  <2>2. QED
    BY <2>1 DEF LinksOf
<1>3. Inv => aliased \/ OneThingAtATime
  BY <1>1, <1>2, OneAwaited, OneOnTurn DEF Inv, OneThingAtATime
<1>4. QED
  BY <1>3, Invariance, PTL

(***************************************************************************)
(* What is promised to clients                                             *)
(***************************************************************************)

\* The session of one connection moves as HttpSession allows, or stays.
LEMMA SessionMoves ==
  ASSUME NEW cn \in 1 .. MaxConns, Moves(SessionOf(cn), SessionOf(cn)', Lost(cache'))
  PROVE  Session!Step(cn) \/ SessionOf(cn)' = SessionOf(cn)
<1> DEFINE v == SessionOf(cn)
           w == SessionOf(cn)'
           ss == [c \in 1 .. MaxConns |-> SessionOf(c)]
<1>1. ss[cn] = v /\ ss'[cn] = w
  OBVIOUS
<1>2. Moves(v, w, Lost(cache'))
  OBVIOUS
<1>3. Session!None = Nothing
  BY DEF Session!None, Session!Open, Nothing, Shown
<1>4. Session!Open(<<>>, 0, FALSE) = Shown(<<>>, 0, 0, 0, FALSE)
  BY DEF Session!Open, Shown
<1>5. CASE v = Nothing /\ w = Shown(<<>>, 0, 0, 0, FALSE)
  <2>1. Session!Accept(cn)
    BY <1>1, <1>3, <1>4, <1>5 DEF Session!Accept
  <2>2. QED
    BY <2>1 DEF Session!Step
<1>6. CASE v = Shown(<<>>, 0, 0, 0, FALSE) /\ w.todo # <<>> /\ w = Shown(w.todo, 0, 0, 0, FALSE)
  <2>1. w = Session!Open(w.todo, 0, FALSE)
    <3> HIDE DEF w
    <3>1. QED
      BY <1>6 DEF Session!Open, Shown
  <2>2. Session!Receive(cn)
    BY <1>1, <1>4, <1>6, <2>1 DEF Session!Receive
  <2>3. QED
    BY <2>2 DEF Session!Step
<1>7. CASE Responds(v, w)
  <2>1. Session!Respond(cn)
    BY <1>1, <1>7 DEF Session!Respond, Responds
  <2>2. QED
    BY <2>1 DEF Session!Step
<1>a. CASE Heads(v, w)
  <2>1. Session!SendHead(cn)
    BY <1>1, <1>a DEF Session!SendHead, Heads
  <2>2. QED
    BY <2>1 DEF Session!Step
<1>8. CASE Sends(v, w)
  <2>1. Session!Send(cn)
    BY <1>1, <1>8 DEF Session!Send, Sends
  <2>2. QED
    BY <2>1 DEF Session!Step
<1>9. CASE Finishes(v, w, Lost(cache'))
  <2>1. Session!Whole(v) <=> Answered(v)
    BY DEF Session!Whole, Answered
  <2>2. Session!Open(Tail(v.todo), 0, w.broken) = Shown(Tail(v.todo), 0, 0, 0, w.broken)
    BY DEF Session!Open, Shown
  <2>3. Session!Finish(cn)
    BY <1>1, <1>9, <2>1, <2>2 DEF Session!Finish, Finishes, Lost
  <2>4. QED
    BY <2>3 DEF Session!Step
<1>10. CASE v # Nothing /\ w = [v EXCEPT !.broken = TRUE]
  <2>1. Session!Break(cn)
    BY <1>1, <1>3, <1>10 DEF Session!Break
  <2>2. QED
    BY <2>1 DEF Session!Step
<1>11. CASE v # Nothing /\ v.todo = <<>> /\ w = Nothing
  <2>1. Session!Close(cn)
    BY <1>1, <1>3, <1>11 DEF Session!Close
  <2>2. QED
    BY <2>1 DEF Session!Step
<1>12. QED
  BY <1>2, <1>5, <1>6, <1>7, <1>a, <1>8, <1>9, <1>10, <1>11 DEF Moves

LEMMA SessionInit == Init => Session!Init
<1> SUFFICES ASSUME Init PROVE Session!Init
  OBVIOUS
<1>1. DOMAIN pkg = {} /\ DOMAIN cache = {} /\ aliased = FALSE
  BY DEF Init
<1>2. ASSUME NEW cn PROVE SessionOf(cn) = Session!None
  <2>1. PackagesOf(cn) = {}
    BY <1>1 DEF PackagesOf
  <2>2. QED
    BY <2>1 DEF SessionOf, Session!None, Session!Open
<1>3. [cn \in 1 .. MaxConns |-> SessionOf(cn)] = [cn \in 1 .. MaxConns |-> Session!None]
  BY <1>2
<1>4. {k[1] : k \in {x \in DOMAIN cache : cache[x].status = "cancelled"}} = {}
  BY <1>1
<1>5. QED
  BY <1>1, <1>3, <1>4 DEF Session!Init

LEMMA SessionStep == Inv /\ [Next]_vars => [Session!Next]_(Session!vars)
<1> SUFFICES ASSUME Inv, [Next]_vars, ~aliased' PROVE Session!Next
  BY DEF Session!Next
<1> DEFINE ss == [c \in 1 .. MaxConns |-> SessionOf(c)]
<1>1. Served /\ ~aliased
  BY NextKeeps, AliasedStays
<1>2. \A cn \in 1 .. MaxConns : Session!Step(cn) \/ SessionOf(cn)' = SessionOf(cn)
  BY <1>1, SessionMoves DEF Served
<1>3. \A cn \in 1 .. MaxConns : ss[cn] = SessionOf(cn) /\ ss'[cn] = SessionOf(cn)'
  OBVIOUS
<1>4. \A cn \in 1 .. MaxConns : Session!Step(cn) \/ ss'[cn] = ss[cn]
  BY <1>2, <1>3
<1>5. Lost(cache) \subseteq Lost(cache')
  BY <1>1 DEF Served
<1>6. QED
  BY <1>1, <1>4, <1>5 DEF Session!Next, Lost

\* Every client is answered as HttpSession promises, for any number of connections,
\* files and pipelined GETs, whatever short writes, errors and requests for the same
\* block by other connections happen: GETs in order and one at a time, a header that
\* is sent with one write, bodies without gaps, and no body cut short unless the
\* connection broke or a block of that file could not be read.  Nothing is promised
\* once an alias has been asked for.
THEOREM SessionsImplemented == SafetySpec => ImplementsSession
<1>1. QED
  BY SessionInit, SessionStep, Invariance, PTL
  DEF SafetySpec, ImplementsSession, Session!Spec
=============================================================================
