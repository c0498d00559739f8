----------------------------- MODULE HttpServer -----------------------------
(***************************************************************************)
(* The web server of webserver/: svr_tcp_ip.cc accepts connections and     *)
(* svr_http.cc serves each as a chain of callbacks.  A connection has a    *)
(* root package (HPKG) that reads, and a list of GET packages, its         *)
(* children, that are answered one after the other before the root reads   *)
(* again.  Headers and body blocks go through the shared cache.            *)
(*                                                                         *)
(* Every handler is one step: handlers that use the cache run in the       *)
(* CacheTaskID group, one at a time, and the others touch only their own   *)
(* connection.  A handler is an operator on the whole state, named after   *)
(* its function, so that calls compose as in the code.  A failed assertion *)
(* (DBGL is 0, so they are active) ends the program.                       *)
(*                                                                         *)
(* The cache is Cache.tla restricted to what this client does.  Slots are  *)
(* only filled by put after reserve, which leaves currentSize_ at 0: there *)
(* is never anything over the quota, hence no eviction, and a slot that    *)
(* was filled or cancelled keeps its key for ever.                         *)
(*                                                                         *)
(* Keys are texts, cut to 255 characters: the uri for a header, uri#offset *)
(* for a block of the body.  Different keys may be the same text: /f#0 is  *)
(* the header of the file /f#0 and the first block of /f, and a uri of 255 *)
(* characters or more leaves no room for its offsets.  Aliases are uris    *)
(* with such keys, so many that the keys of all others differ.  What equal *)
(* keys lead to is modelled; most properties hold until one of Aliases is  *)
(* asked for, which aliased remembers.                                     *)
(***************************************************************************)
EXTENDS Integers, FiniteSets, Sequences, Functions

CONSTANTS
    Uris,       \* files that clients ask for
    FileSize,   \* their sizes
    BadGet,     \* a GET without uri or version, or of an unknown version
    NoGet,      \* the uri of a root package
    BlockStatus,\* the status that their blocks have where a header has its own (0: none)
    Aliases,    \* uris with a key that is the same text as another; all others differ
    KeyText(_, _), \* that text, as one of the pairs of a uri and an offset that have it
    HeadSize,   \* size of a header
    MAXWB,      \* size of a body block
    MaxACCEPT,  \* MaxACCEPT
    MaxPipeline,\* bound of the model: GETs in one read
    MaxGets     \* bound of the model: GETs that all clients send together

ASSUME SizeAssumption ==
    FileSize \in [Uris -> Nat] /\ MAXWB \in Nat \ {0} /\ HeadSize \in Nat \ {0}
ASSUME StatusAssumption == BlockStatus \in [Uris -> {200, 404, 0}]
ASSUME RequestAssumption == {BadGet, NoGet} \cap Uris = {} /\ BadGet # NoGet
ASSUME AliasAssumption == Aliases \subseteq Uris
ASSUME BoundAssumption == MaxACCEPT \in Nat /\ MaxPipeline \in Nat /\ MaxGets \in Nat

VARIABLES
    listener,\* cst of the listening Conn; "failed" stands for what it is left with
             \* when svr_conn_listen fails
    conn,    \* cst of the Conn objects that exist, by cfd
    nc,      \* nc of the listening Conn
    pkg,     \* the HPKG objects that exist, by address
    pending, \* tasks, and operations of the aio wrapper by their okCB
    cache,   \* the entries of _cache, by key
    gets,    \* GETs received so far
    aliased, \* history: a uri of Aliases was asked for
    abort    \* the assertion that failed, or the undefined behaviour met

vars == <<listener, conn, nc, pkg, pending, cache, gets, aliased, abort>>

NULL == 0

MaxConns == MaxACCEPT + 1

MaxPkgs == (MaxACCEPT + 1) * (MaxPipeline + 1)

\* The address of the i-th object that is allocated next: the lowest that are free.
Address(i, addresses, used) ==
    CHOOSE a \in addresses \ used :
        Cardinality({b \in addresses \ used : b < a}) = i - 1

Key(uri, offset) == IF uri \in Aliases THEN KeyText(uri, offset) ELSE <<uri, offset>>

HeadKey(uri) == Key(uri, -1)

BodyKey(uri, offset) == Key(uri, offset)

\* What an entry holds: svr_http_header_wio looks for a status at byte 9.
Data == [hsn : {200, 404, 0}, size : Nat]

\* The NULL that callbacks are given for a cancelled slot.
NoData == [hsn |-> 0, size |-> -1]

Entry ==
    [status : {"reserved", "filled", "cancelled"}, data : Data, refCount : Nat,
     queue : Seq(1 .. MaxPkgs)]

Handlers ==
    {"svr_http_read", "svr_http_fetch", "svr_http_parse_aio",
     "svr_http_header_to_body_aio", "svr_http_body_rio", "svr_http_body_pio"}

Package ==
    [uri : Uris \cup {BadGet, NoGet}, cpn : Nat, tr_offset : Nat,
     hst : {"READING", "PARSING", "FETCHING", "WRITING", "UNKNOWN"},
     wst : {"HEAD", "BODY", "UNO"}, hsn : {200, 404, 400, 0},
     headkey : BOOLEAN, bodykey : Int, cbody : Int, cached : BOOLEAN,
     hsent : Nat, \* history: bytes of the header that were written
     ppg : Nat, lcg : Nat, nsg : Nat]

NewPackage(cn, uri, parent, sibling) ==
    [uri |-> uri, cpn |-> cn, tr_offset |-> 0, hst |-> "UNKNOWN", wst |-> "UNO",
     hsn |-> 0, headkey |-> FALSE, bodykey |-> -1, cbody |-> -1, cached |-> FALSE,
     hsent |-> 0, ppg |-> parent, lcg |-> NULL, nsg |-> sibling]

TypeOK ==
    /\ listener \in {"none", "LISTENING", "failed"}
    /\ DOMAIN conn \subseteq 1 .. MaxConns
    /\ \A cn \in DOMAIN conn :
          conn[cn] \in {"CONNECTED", "CLOSING_R", "CLOSING_W", "CLOSING"}
    /\ nc \in 0 .. MaxACCEPT + 1
    /\ DOMAIN pkg \subseteq 1 .. MaxPkgs
    /\ \A p \in DOMAIN pkg : pkg[p] \in Package
    /\ pending \subseteq [handler : Handlers, pk : 1 .. MaxPkgs]
    /\ \A k \in DOMAIN cache : cache[k] \in Entry
    /\ gets \in 0 .. MaxGets
    /\ aliased \in BOOLEAN
    /\ abort \in {"none", "cst", "headkey", "bodykey", "put", "doneWith",
                  "closing", "freed", "block", "null"}

-----------------------------------------------------------------------------
(* The state as a value that the handlers transform *)

\* With what open and close will answer when the step calls them.
State(openOk, closeOk) ==
    [conn |-> conn, nc |-> nc, pkg |-> pkg, pending |-> pending, cache |-> cache,
     abort |-> abort, openOk |-> openOk, closeOk |-> closeOk]

Become(result) ==
    \E s \in {result} :
        /\ conn' = s.conn /\ nc' = s.nc /\ pkg' = s.pkg
        /\ pending' = s.pending /\ cache' = s.cache /\ abort' = s.abort

Without(f, x) == [y \in DOMAIN f \ {x} |-> f[y]]

With(f, x, v) == [y \in DOMAIN f \cup {x} |-> IF y = x THEN v ELSE f[y]]

\* The program ends at the first failure.
Fail(s, why) == IF s.abort = "none" THEN [s EXCEPT !.abort = why] ELSE s

\* Dispatcher::enqueue, aio_read or aio_write.
Post(s, handler, p) ==
    [s EXCEPT !.pending = @ \cup {[handler |-> handler, pk |-> p]}]

Cst(s, p) == s.conn[s.pkg[p].cpn]

WriteClosing(s, p) == Cst(s, p) \in {"CLOSING", "CLOSING_W"}

Mark(s, p, hst, wst) == [s EXCEPT !.pkg[p].hst = hst, !.pkg[p].wst = wst]

-----------------------------------------------------------------------------
(* Closing *)

\* The constructor of Conn counts the connection in its parent, the listener.
NewConn(s, cn) == [s EXCEPT !.conn = With(@, cn, "CONNECTED"), !.nc = @ + 1]

\* Mutant: the destructor of Conn decrements the parent's counter twice.
DeleteConnTwice(s, cn) == [s EXCEPT !.conn = Without(@, cn), !.nc = @ - 2]

\* The destructor of Conn.
DeleteConn(s, cn) == [s EXCEPT !.conn = Without(@, cn), !.nc = @ - 1]

\* If close fails the Conn is leaked.
svr_conn_close(s, cn) == IF s.closeOk THEN DeleteConn(s, cn) ELSE s

\* The destructor of HPKG frees the buffer of the block it read last, unless
\* that was marked as cached: the cache must not own it then.
Delete(s, p) ==
    LET pk == s.pkg[p]
        k == BodyKey(pk.uri, pk.cbody)
        rest == [s EXCEPT !.pkg = Without(@, p)]
    IN  IF pk.cbody # -1 /\ ~pk.cached /\ s.cache[k].status = "filled"
           THEN Fail(rest, "block")
           ELSE rest

\* Mutant: the parent's list of children is not reset.
FinalKeepsChild(s, p) ==
    LET park == s.pkg[p].ppg
        fget == s.pkg[p].nsg
        rest == Delete(s, p)
    IN  CASE park = NULL -> svr_conn_close(rest, s.pkg[p].cpn)
          [] park # NULL /\ fget = NULL -> Post(rest, "svr_http_read", park)
          [] OTHER -> Post(rest, "svr_http_fetch", fget)

svr_http_final(s, p) ==
    LET park == s.pkg[p].ppg
        fget == s.pkg[p].nsg
        rest == Delete(s, p)
    IN  CASE park = NULL -> svr_conn_close(rest, s.pkg[p].cpn)
          [] park # NULL /\ fget = NULL ->
                Post([rest EXCEPT !.pkg[park].lcg = NULL], "svr_http_read", park)
          [] OTHER -> Post(rest, "svr_http_fetch", fget)

-----------------------------------------------------------------------------
(* The cache, as this client meets it *)

doneWith(s, k) ==
    IF k \in DOMAIN s.cache /\ s.cache[k].refCount > 0
       THEN [s EXCEPT !.cache[k].refCount = @ - 1]
       ELSE Fail(s, "doneWith")

\* The constructor gives the reserver a reference; its get is queued.
reserve(s, k, p) ==
    [s EXCEPT !.cache = With(@, k, [status |-> "reserved", data |-> [hsn |-> 0, size |-> 0],
                                    refCount |-> 1, queue |-> <<p>>])]

\* The status is looked for in data that may be NULL.
svr_http_header_wio(s, p, data) ==
    LET t == Mark(s, p, "WRITING", "HEAD")
    IN  CASE WriteClosing(s, p) -> svr_http_final(t, p)
          [] ~WriteClosing(s, p) /\ data = NoData -> Fail(t, "null")
          [] OTHER -> Post([t EXCEPT !.pkg[p].hsn = data.hsn],
                           "svr_http_header_to_body_aio", p)

\* With data, while the connection is closing, it would cancel the slot that its
\* caller is just handing out.
svr_http_body_wio(s, p, data) ==
    CASE data = NoData -> svr_http_final(s, p)
      [] data # NoData /\ WriteClosing(s, p) -> Fail(s, "closing")
      [] OTHER -> Post(Mark(s, p, "WRITING", "BODY"), "svr_http_body_rio", p)

\* The callback that the package has queued: it waits for its header or for a block.
CallBack(s, p, data) ==
    IF s.pkg[p].wst = "HEAD" THEN svr_http_header_wio(s, p, data)
                             ELSE svr_http_body_wio(s, p, data)

\* The callbacks in the queue of a slot are called one after the other (cache.cc:83-91
\* and 170-176).
CallInTurn(s, queue, data) ==
    LET after[i \in 0 .. Len(queue)] ==
            IF i = 0 THEN s ELSE CallBack(after[i - 1], queue[i], data)
    IN  after[Len(queue)]

\* Cache::put (cache.cc:65-101).
\* The callbacks run while the slot is still marked as reserved.  The pointers
\* that stay in the queue are forgotten here: nobody reserves the key again.
put(s, k, data) ==
    LET filled == [s EXCEPT !.cache[k].data = data,
                            !.cache[k].refCount = @ + Len(s.cache[k].queue),
                            !.cache[k].queue = <<>>]
        called == CallInTurn(filled, s.cache[k].queue, data)
    IN  IF s.cache[k].status = "reserved"
           THEN [called EXCEPT !.cache[k].status = "filled"]
           ELSE Fail(s, "put")

\* Mutant: the callbacks are not told.
CancelSilently(s, k) ==
    IF s.cache[k].status = "reserved"
       THEN [s EXCEPT !.cache[k].status = "cancelled", !.cache[k].queue = <<>>]
       ELSE s

cancelReservation(s, k) ==
    LET cancelled == [s EXCEPT !.cache[k].status = "cancelled",
                               !.cache[k].queue = <<>>]
    IN  IF s.cache[k].status = "reserved"
           THEN CallInTurn(cancelled, s.cache[k].queue, NoData)
           ELSE s

-----------------------------------------------------------------------------
(* I/O errors *)

svr_http_final_aio(s, p) ==
    LET pk == s.pkg[p]
        cn == pk.cpn
        stopRead == [s EXCEPT !.conn[cn] =
                        IF @ = "CLOSING_W" THEN "CLOSING" ELSE "CLOSING_R"]
        stopWrite == [s EXCEPT !.conn[cn] =
                        IF @ = "CLOSING_R" THEN "CLOSING" ELSE "CLOSING_W"]
    IN  CASE s.conn[cn] = "CLOSING" -> Fail(s, "cst")
          [] s.conn[cn] # "CLOSING" /\ pk.hst \in {"READING", "PARSING"} ->
                svr_http_final(stopRead, p)
          [] s.conn[cn] # "CLOSING" /\ pk.hst = "FETCHING" ->
                IF pk.wst = "BODY"
                   THEN cancelReservation(stopWrite, BodyKey(pk.uri, pk.bodykey))
                   ELSE svr_http_final(stopWrite, p)
          [] s.conn[cn] # "CLOSING" /\ pk.hst = "WRITING" /\ pk.wst = "HEAD" ->
                IF pk.headkey
                   THEN svr_http_final(doneWith(stopWrite, HeadKey(pk.uri)), p)
                   ELSE Fail(stopWrite, "headkey")
          [] s.conn[cn] # "CLOSING" /\ pk.hst = "WRITING" /\ pk.wst = "BODY" ->
                IF pk.bodykey # -1
                   THEN svr_http_final(doneWith(stopWrite, BodyKey(pk.uri, pk.bodykey)), p)
                   ELSE Fail(stopWrite, "bodykey")
          [] OTHER -> svr_http_final(s, p)

-----------------------------------------------------------------------------
(* The body of a response *)

\* What get gives the callback of an entry that is not reserved.
Given(entry) == IF entry.status = "filled" THEN entry.data ELSE NoData

\* get on a slot that was filled or cancelled calls back at once.
svr_http_body(s, p) ==
    LET offset == s.pkg[p].tr_offset
        k == BodyKey(s.pkg[p].uri, offset)
        t == [Mark(s, p, "FETCHING", "BODY") EXCEPT !.pkg[p].bodykey = offset]
        status == IF k \in DOMAIN s.cache THEN s.cache[k].status ELSE "absent"
    IN  CASE WriteClosing(s, p) -> svr_http_final(Mark(s, p, "FETCHING", "BODY"), p)
          [] ~WriteClosing(s, p) /\ status = "absent" ->
                Post([reserve(t, k, p) EXCEPT !.pkg[p].cbody = offset],
                     "svr_http_body_pio", p)
          [] ~WriteClosing(s, p) /\ status = "reserved" ->
                [t EXCEPT !.cache[k].queue = Append(@, p)]
          [] OTHER ->
                svr_http_body_wio([t EXCEPT !.cache[k].refCount = @ + 1],
                                  p, Given(s.cache[k]))

\* The block was read from the file.  The package is used after put returns.
svr_http_body_pio(s, p, nbytes) ==
    LET k == BodyKey(s.pkg[p].uri, s.pkg[p].bodykey)
        t == put(s, k, [hsn |-> BlockStatus[s.pkg[p].uri], size |-> nbytes])
    IN  IF p \in DOMAIN t.pkg
           THEN [t EXCEPT !.pkg[p].cached = TRUE]
           ELSE Fail(t, "freed")

\* Mutant: the reference to the block is not returned.
BodyRioKeepsReference(s, p, nbytes) ==
    CASE s.pkg[p].wst = "BODY" /\ nbytes > 0 ->
            svr_http_body([s EXCEPT !.pkg[p].tr_offset = @ + nbytes], p)
      [] OTHER -> svr_http_final(s, p)

\* Mutant: the rest of a block that was written in part is forgotten.
BodyRioWritesOnce(s, p, nbytes) ==
    IF s.pkg[p].wst = "BODY"
       THEN svr_http_final(doneWith(s, BodyKey(s.pkg[p].uri, s.pkg[p].bodykey)), p)
       ELSE svr_http_final(s, p)

\* nbytes of the block, or a 400 response, were written.
svr_http_body_rio(s, p, nbytes) ==
    LET returned == doneWith(s, BodyKey(s.pkg[p].uri, s.pkg[p].bodykey))
    IN  CASE s.pkg[p].wst = "BODY" /\ nbytes > 0 ->
                svr_http_body([returned EXCEPT !.pkg[p].tr_offset = @ + nbytes], p)
          [] s.pkg[p].wst = "BODY" /\ nbytes = 0 -> svr_http_final(returned, p)
          [] OTHER -> svr_http_final(s, p)

-----------------------------------------------------------------------------
(* The header of a response *)

\* The header was written, or nbytes of it: the rest is forgotten.  The reference
\* to it is not returned.
svr_http_header_to_body_aio(s, p, nbytes) ==
    LET t == [Mark(s, p, "UNKNOWN", "HEAD") EXCEPT !.pkg[p].hsent = nbytes]
    IN  IF s.pkg[p].hsn = 200 THEN svr_http_body(t, p) ELSE svr_http_final(t, p)

\* Opens the file and puts the header.  The package is used after put returns.
svr_http_header_rio(s, p) ==
    LET hsn == IF s.openOk THEN 200 ELSE 404
        found == [Mark(s, p, "FETCHING", "HEAD") EXCEPT !.pkg[p].hsn = hsn]
        t == put(found, HeadKey(s.pkg[p].uri), [hsn |-> hsn, size |-> HeadSize])
    IN  IF p \in DOMAIN t.pkg THEN t ELSE Fail(t, "freed")

\* Mutant: headkey is local to the function.
HeaderWithoutKey(s, p) ==
    LET k == HeadKey(s.pkg[p].uri)
        t == Mark(s, p, "FETCHING", "HEAD")
    IN  IF k \in DOMAIN s.cache
           THEN svr_http_header_wio([t EXCEPT !.cache[k].refCount = @ + 1], p,
                                    Given(s.cache[k]))
           ELSE svr_http_header_rio(reserve(t, k, p), p)

\* A slot that is reserved for a header is filled in the same step: get finds a
\* slot reserved or cancelled only if the key is also that of a block.
svr_http_header(s, p) ==
    LET k == HeadKey(s.pkg[p].uri)
        entered == Mark(s, p, "FETCHING", "HEAD")
        t == [entered EXCEPT !.pkg[p].headkey = TRUE]
        status == IF k \in DOMAIN s.cache THEN s.cache[k].status ELSE "absent"
    IN  CASE WriteClosing(s, p) -> svr_http_final(entered, p)
          [] ~WriteClosing(s, p) /\ status = "absent" ->
                svr_http_header_rio(reserve(t, k, p), p)
          [] ~WriteClosing(s, p) /\ status = "reserved" ->
                [t EXCEPT !.cache[k].queue = Append(@, p)]
          [] OTHER ->
                svr_http_header_wio([t EXCEPT !.cache[k].refCount = @ + 1],
                                    p, Given(s.cache[k]))

svr_http_write_400(s, p) ==
    LET t == [Mark(s, p, "WRITING", "HEAD") EXCEPT !.pkg[p].hsn = 400]
    IN  IF WriteClosing(s, p) THEN svr_http_final(t, p)
                              ELSE Post(t, "svr_http_body_rio", p)

svr_http_fetch(s, p) ==
    LET t == [Mark(s, p, "FETCHING", "HEAD") EXCEPT !.pkg[p].hsn = 0]
    IN  CASE WriteClosing(s, p) -> svr_http_final(s, p)
          [] ~WriteClosing(s, p) /\ s.pkg[p].uri = BadGet -> svr_http_write_400(t, p)
          [] OTHER -> svr_http_header(t, p)

-----------------------------------------------------------------------------
(* Requests *)

svr_http_read(s, p) ==
    IF Cst(s, p) \in {"CLOSING", "CLOSING_R"}
       THEN svr_http_final(s, p)
       ELSE Post([s EXCEPT !.pkg[p].hst = "READING"], "svr_http_parse_aio", p)

\* One new package for every GET, linked to the last child; fget is the first of
\* them unless there was a child already.
svr_http_parse(s, p, requests) ==
    LET n == Len(requests)
        addr == [i \in 1 .. n |-> Address(i, 1 .. MaxPkgs, DOMAIN s.pkg)]
        gk(i) == NewPackage(s.pkg[p].cpn, requests[i], p,
                            IF i = n THEN NULL ELSE addr[i + 1])
        born == [q \in DOMAIN s.pkg \cup {addr[i] : i \in 1 .. n} |->
                    IF q \in DOMAIN s.pkg
                       THEN s.pkg[q]
                       ELSE gk(CHOOSE i \in 1 .. n : addr[i] = q)]
        first == s.pkg[p].lcg = NULL
        linked == IF first THEN born
                  ELSE [born EXCEPT ![s.pkg[p].lcg].nsg = addr[1]]
    IN  IF n = 0
           THEN Post(s, "svr_http_read", p)
           ELSE LET t == [s EXCEPT !.pkg = [linked EXCEPT ![p].lcg = addr[n]]]
                IN  IF first THEN Post(t, "svr_http_fetch", addr[1])
                             ELSE Post(t, "svr_http_read", p)

\* Mutant: the state of the connection is not looked at.
ParseWhileClosing(s, p, eof, requests) ==
    LET t == [s EXCEPT !.pkg[p].hst = "PARSING"]
    IN  IF eof THEN svr_http_final_aio(t, p) ELSE svr_http_parse(t, p, requests)

svr_http_parse_aio(s, p, eof, requests) ==
    LET t == [s EXCEPT !.pkg[p].hst = "PARSING"]
    IN  CASE WriteClosing(s, p) -> svr_http_final(s, p)
          [] ~WriteClosing(s, p) /\ eof -> svr_http_final_aio(t, p)
          [] OTHER -> svr_http_parse(t, p, requests)

-----------------------------------------------------------------------------
(* The program *)

Init ==
    /\ listener = "none"
    /\ conn = <<>> /\ nc = 0 /\ pkg = <<>> /\ pending = {} /\ cache = <<>>
    /\ gets = 0 /\ aliased = FALSE /\ abort = "none"

\* svr_start calls svr_conn_listen.  If socket, bind or listen fails it returns an
\* error, but no ErrConn is below zero, so svr_start goes on to the accept loop.
svr_conn_listen ==
    /\ listener = "none"
    /\ listener' \in {"LISTENING", "failed"}
    /\ UNCHANGED <<conn, nc, pkg, pending, cache, gets, aliased, abort>>

\* svr_conn_accept returns an error: accept or setsockopt fails (the new
\* descriptor is leaked then), or there is no listening socket.
AcceptFails ==
    /\ abort = "none" /\ listener # "none"
    /\ nc <= MaxACCEPT
    /\ UNCHANGED vars

\* The accept loop: it sleeps while nc is too high, and reads nc without the lock.
svr_conn_accept ==
    LET cn == Address(1, 1 .. MaxConns, DOMAIN conn)
        pk == Address(1, 1 .. MaxPkgs, DOMAIN pkg)
        s == State(TRUE, TRUE)
    IN  /\ abort = "none" /\ listener = "LISTENING"
        /\ nc <= MaxACCEPT
        /\ Become(svr_http_read([NewConn(s, cn) EXCEPT
                                    !.pkg = With(@, pk, NewPackage(cn, NoGet, NULL, NULL))],
                                pk))
        /\ UNCHANGED <<listener, gets, aliased>>

\* The dispatcher or the aio wrapper calls back package p: the handler itself, or
\* what the operation has in its place for an error.
Call(p, handler, openOk, closeOk, Handler(_, _)) ==
    LET callback == [handler |-> handler, pk |-> p]
    IN  /\ abort = "none" /\ callback \in pending
        /\ \E s \in {[State(openOk, closeOk) EXCEPT !.pending = @ \ {callback}]} :
              Become(Handler(s, p))

\* Only a root package closes its connection.
CloseAnswers(p) ==
    IF p \in DOMAIN pkg /\ pkg[p].ppg = NULL THEN BOOLEAN ELSE {TRUE}

RunRead(p) ==
    /\ \E closeOk \in CloseAnswers(p) : Call(p, "svr_http_read", TRUE, closeOk, svr_http_read)
    /\ UNCHANGED <<listener, gets, aliased>>

RunFetch(p) ==
    /\ \E openOk \in BOOLEAN : Call(p, "svr_http_fetch", openOk, TRUE, svr_http_fetch)
    /\ UNCHANGED <<listener, gets, aliased>>

\* The socket was read: requests, or the end of the stream.  A connection that is
\* closing drops the requests, as if there were none.
RequestRead(p) ==
    /\ [handler |-> "svr_http_parse_aio", pk |-> p] \in pending
    /\ \E n \in 0 .. MaxPipeline, eof \in BOOLEAN, closeOk \in CloseAnswers(p) :
          /\ gets + n <= MaxGets /\ (eof => n = 0) /\ (n > 0 => closeOk)
          /\ gets' = gets + n
          /\ \E requests \in [1 .. n -> Uris \cup {BadGet}] :
                /\ aliased' = (aliased \/ \E i \in 1 .. n : requests[i] \in Aliases)
                /\ Call(p, "svr_http_parse_aio", TRUE, closeOk,
                        LAMBDA s, q : svr_http_parse_aio(s, q, eof, requests))
    /\ UNCHANGED listener

\* A write takes at least one byte of what it is given.
Written(size) == IF size = 0 THEN {0} ELSE 1 .. size

HeaderWritten(p) ==
    /\ p \in DOMAIN pkg /\ pkg[p].headkey
    /\ \E nbytes \in Written(cache[HeadKey(pkg[p].uri)].data.size) :
          Call(p, "svr_http_header_to_body_aio", TRUE, TRUE,
               LAMBDA s, q : svr_http_header_to_body_aio(s, q, nbytes))
    /\ UNCHANGED <<listener, gets, aliased>>

\* A block was written, or the header of a 400 response.
BlockWritten(p) ==
    /\ p \in DOMAIN pkg
    /\ LET pk == pkg[p]
           size == IF pk.wst = "BODY" THEN cache[BodyKey(pk.uri, pk.bodykey)].data.size
                                      ELSE HeadSize
       IN  \E nbytes \in Written(size) :
              Call(p, "svr_http_body_rio", TRUE, TRUE,
                   LAMBDA s, q : svr_http_body_rio(s, q, nbytes))
    /\ UNCHANGED <<listener, gets, aliased>>

\* aio_read returns a whole block, or what is left of the file.
BlockRead(p) ==
    /\ p \in DOMAIN pkg
    /\ LET left == FileSize[pkg[p].uri] - pkg[p].tr_offset
           nbytes == CASE left < 0 -> 0 [] left \in 0 .. MAXWB -> left [] OTHER -> MAXWB
       IN  Call(p, "svr_http_body_pio", TRUE, TRUE,
                LAMBDA s, q : svr_http_body_pio(s, q, nbytes))
    /\ UNCHANGED <<listener, gets, aliased>>

\* Every operation has svr_http_final_aio as its error callback.
IOFails(p) ==
    /\ \E okCB \in Handlers \ {"svr_http_read", "svr_http_fetch"}, closeOk \in CloseAnswers(p) :
          Call(p, okCB, TRUE, closeOk, svr_http_final_aio)
    /\ UNCHANGED <<listener, gets, aliased>>

Handle(p) ==
    \/ RunRead(p) \/ RunFetch(p) \/ RequestRead(p) \/ HeaderWritten(p)
    \/ BlockWritten(p) \/ BlockRead(p) \/ IOFails(p)

\* The main thread: the listener, and the accept loop.
svr_start == svr_conn_listen \/ AcceptFails \/ svr_conn_accept

Next ==
    \/ svr_start
    \/ \E p \in 1 .. MaxPkgs : Handle(p)

\* The dispatcher runs every task.  Reads end by ReadTimeoutSEC at the latest;
\* that writes end is an assumption on clients: they read or go away.
Fairness == \A p \in 1 .. MaxPkgs : WF_vars(Handle(p))

SafetySpec == Init /\ [][Next]_vars

Spec == SafetySpec /\ Fairness

-----------------------------------------------------------------------------
(* Properties *)

PackagesOf(cn) == {p \in DOMAIN pkg : pkg[p].cpn = cn}

\* The handlers that package p waits for.  The package that reads a block waits in
\* the queue of its own slot too, for what its own handler will put.
Awaited(p) ==
    LET own == {t.handler : t \in {u \in pending : u.pk = p}}
        queued == \E k \in DOMAIN cache : p \in Range(cache[k].queue)
    IN  IF queued /\ "svr_http_body_pio" \notin own
           THEN own \cup {"svr_http_body_wio"}
           ELSE own

\* The package of a connection whose turn it is: the first GET in the list, and
\* the root when there is none.
OnTurn(p) ==
    IF pkg[p].ppg = NULL
       THEN pkg[p].lcg = NULL
       ELSE \A q \in DOMAIN pkg : pkg[q].nsg # p

\* "FETCH IN SERIAL !": the callbacks of a connection form one thread of control.
\* A connection waits for exactly one thing, on behalf of the package whose turn
\* it is, so packages need no lock; the links and callbacks never lead to a
\* package or connection that was deleted, and no package is forgotten.
OneThingAtATime ==
    abort = "none" =>
        /\ \A t \in pending : t.pk \in DOMAIN pkg
        /\ \A k \in DOMAIN cache : Range(cache[k].queue) \subseteq DOMAIN pkg
        /\ \A p \in DOMAIN pkg :
              /\ pkg[p].cpn \in DOMAIN conn
              /\ {pkg[p].ppg, pkg[p].lcg, pkg[p].nsg} \subseteq DOMAIN pkg \cup {NULL}
              /\ Cardinality(Awaited(p)) = IF OnTurn(p) THEN 1 ELSE 0
        /\ \A cn \in DOMAIN conn :
              PackagesOf(cn) # {} =>
                  Cardinality({p \in PackagesOf(cn) : OnTurn(p)}) = 1

\* The references to a body block are the reserver's, which is never returned,
\* one for every package that is writing the block, and those that a cancelled
\* slot hands out with no data: a block is neither freed under a write that is
\* under way nor kept by a write that has ended, and doneWith finds a reference.
\* (Until an alias is asked for: the reference to a header is never returned, and
\* the header may then be a block.)
BlockReferencesAreWriters ==
    abort = "none" /\ ~aliased =>
        \A k \in DOMAIN cache :
            k[2] # -1 /\ cache[k].status # "cancelled" =>
                cache[k].refCount = 1 + Cardinality(
                    {p \in DOMAIN pkg : /\ pkg[p].hst = "WRITING" /\ pkg[p].wst = "BODY"
                                        /\ k = BodyKey(pkg[p].uri, pkg[p].bodykey)})

\* The assertions of the server and of the cache: no I/O error or order of
\* completions makes one fail, or reaches the branches that would use a deleted
\* package or callback, or free a block that the cache owns.
AssertionsHold == abort = "none"

\* What does hold: the only assertion that can fail is the one on headkey, for
\* the error of a write that answers a bad request, and NULL is read only when a
\* request for an alias finds a slot that was cancelled for a block.  In
\* particular a package that is deleted never takes a block with it that it has
\* put into the cache.
OnlyBadRequestsFailAssertions ==
    abort # "none" =>
        \/ abort = "headkey" /\ \E p \in DOMAIN pkg : pkg[p].uri = BadGet /\ pkg[p].hsn = 400
        \/ abort = "null" /\ aliased

-----------------------------------------------------------------------------
(* The sessions of the clients *)

\* The GETs of a connection that are not answered, in order: the first one is the
\* one that no other has as its next sibling.
Children(cn) ==
    LET kids == {p \in PackagesOf(cn) : pkg[p].ppg # NULL}
        list[i \in 1 .. Cardinality(kids)] ==
            IF i = 1 THEN CHOOSE p \in kids : \A q \in kids : pkg[q].nsg # p
                     ELSE pkg[list[i - 1]].nsg
    IN  list

SessionOf(cn) ==
    LET kids == Children(cn)
        first == pkg[kids[1]]
    IN  CASE PackagesOf(cn) = {} ->
                [todo |-> <<>>, status |-> -1, head |-> 0, sent |-> 0, broken |-> FALSE]
          [] PackagesOf(cn) # {} /\ kids = <<>> ->
                [todo |-> <<>>, status |-> 0, head |-> 0, sent |-> 0,
                 broken |-> conn[cn] \in {"CLOSING_W", "CLOSING"}]
          [] OTHER ->
                [todo |-> [i \in DOMAIN kids |-> pkg[kids[i]].uri],
                 status |-> first.hsn, head |-> first.hsent, sent |-> first.tr_offset,
                 broken |-> conn[cn] \in {"CLOSING_W", "CLOSING"}]

Session ==
    INSTANCE HttpSession WITH
        Conns <- 1 .. MaxConns,
        session <- [cn \in 1 .. MaxConns |-> SessionOf(cn)],
        lost <- {k[1] : k \in {x \in DOMAIN cache : cache[x].status = "cancelled"}},
        confused <- aliased

\* Every client is answered as HttpSession promises, whatever short writes, errors
\* and requests for the same block by other connections happen: GETs in order and
\* one at a time, a header that is sent once and may be cut, bodies without gaps,
\* and no body cut short unless the connection broke or a block of that file could
\* not be read.  (Until an alias is asked for, whose body may be a header.)
ImplementsSession == Session!Spec

\* Every GET ends, also one that waits for a block that another connection is
\* reading, whose read may fail: clients send MaxGets of them, so in the end none
\* is left.  (Unless an alias was asked for: a uri with one text for all its keys
\* is answered with its header again and again.)
RequestEnds == <>[](aliased \/ abort # "none" \/ \A p \in DOMAIN pkg : pkg[p].ppg = NULL)

\* A connection that met an error is closed, whatever the client still sends,
\* unless close fails.
ClosingConnectionCloses ==
    \A cn \in 1 .. MaxConns :
        (cn \in DOMAIN conn /\ conn[cn] # "CONNECTED")
            ~> (cn \notin DOMAIN conn \/ PackagesOf(cn) = {} \/ abort # "none")
=============================================================================
