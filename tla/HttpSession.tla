----------------------------- MODULE HttpSession -----------------------------
(***************************************************************************)
(* What the web server promises the client of each connection: GETs are    *)
(* answered one at a time in the order in which they were sent, a response *)
(* is a header and, for a file, all its bytes in order, and the server     *)
(* closes the connection between responses.  A header is sent with one     *)
(* write, and what that write leaves out is never sent.  A body is cut     *)
(* short only if the connection broke or a block of the file could not be  *)
(* read.                                                                   *)
(*                                                                         *)
(* One event may move several sessions: a failed read ends the responses   *)
(* of all connections that wait for the block.  Nothing is promised any    *)
(* more once the server is confused: files are asked for that it cannot    *)
(* tell apart.                                                             *)
(***************************************************************************)
EXTENDS Integers, Sequences

CONSTANTS
    Conns,      \* connections
    Uris,       \* files
    FileSize,   \* their sizes
    BadGet,     \* a GET that cannot be answered
    HeadSize,   \* size of a header
    MAXWB       \* most bytes that are written at a time

VARIABLES
    session,    \* what is under way on each connection
    lost,       \* files with a block that could not be read
    confused    \* nothing is promised any more

vars == <<session, lost, confused>>

Requests == Uris \cup {BadGet}

\* The GETs that are not answered yet, the status of the first of them (0: not
\* decided yet), the bytes of its header and of its body that were sent, and if
\* writing to the connection has failed.
Open(todo, status, broken) ==
    [todo |-> todo, status |-> status, head |-> 0, sent |-> 0, broken |-> broken]

None == Open(<<>>, -1, FALSE)

TypeOK ==
    /\ \A cn \in Conns :
          /\ session[cn].todo \in Seq(Requests)
          /\ session[cn].status \in {-1, 0, 200, 404, 400}
          /\ session[cn].head \in 0 .. HeadSize /\ session[cn].sent \in Nat
          /\ session[cn].broken \in BOOLEAN
    /\ lost \subseteq Uris
    /\ confused \in BOOLEAN

Init ==
    /\ session = [cn \in Conns |-> None]
    /\ lost = {}
    /\ confused = FALSE

Accept(cn) ==
    /\ session[cn] = None
    /\ session'[cn] = Open(<<>>, 0, FALSE)

\* More GETs are read only when all earlier ones have been answered.
Receive(cn) ==
    /\ session[cn] = Open(<<>>, 0, FALSE)
    /\ session'[cn].todo # <<>>
    /\ session'[cn] = Open(session'[cn].todo, 0, FALSE)

Respond(cn) ==
    LET s == session[cn]
        status == session'[cn].status
    IN  /\ s.todo # <<>> /\ s.status = 0 /\ ~s.broken
        /\ status \in {200, 404, 400}
        /\ status = 400 <=> Head(s.todo) = BadGet
        /\ session'[cn] = [s EXCEPT !.status = status]

\* The header, or a part of it that has to do.
SendHead(cn) ==
    LET s == session[cn]
        head == session'[cn].head
    IN  /\ s.status = 200 /\ s.head = 0 /\ ~s.broken
        /\ head \in 1 .. HeadSize
        /\ session'[cn] = [s EXCEPT !.head = head]

\* The next bytes of the body.
Send(cn) ==
    LET s == session[cn]
        sent == session'[cn].sent
    IN  /\ s.status = 200 /\ s.head > 0 /\ ~s.broken
        /\ s.sent < sent /\ sent <= s.sent + MAXWB /\ sent <= FileSize[Head(s.todo)]
        /\ session'[cn] = [s EXCEPT !.sent = sent]

Whole(s) ==
    \/ s.status \in {400, 404}
    \/ s.status = 200 /\ s.head > 0 /\ s.sent = FileSize[Head(s.todo)]

\* The first GET is done with.  A response that is only a header is sent in this step.
Finish(cn) ==
    LET s == session[cn]
        broken == session'[cn].broken
    IN  /\ s.todo # <<>>
        /\ s.broken => broken
        /\ Whole(s) \/ broken \/ Head(s.todo) \in lost'
        /\ session'[cn] = Open(Tail(s.todo), 0, broken)

Break(cn) ==
    /\ session[cn] # None
    /\ session'[cn] = [session[cn] EXCEPT !.broken = TRUE]

Close(cn) ==
    /\ session[cn] # None /\ session[cn].todo = <<>>
    /\ session'[cn] = None

Step(cn) ==
    \/ Accept(cn) \/ Receive(cn) \/ Respond(cn) \/ SendHead(cn) \/ Send(cn)
    \/ Finish(cn) \/ Break(cn) \/ Close(cn)

Next ==
    \/ confused'
    \/ /\ ~confused
       /\ \A cn \in Conns : Step(cn) \/ session'[cn] = session[cn]
       /\ lost \subseteq lost'

Spec == Init /\ [][Next]_vars
=============================================================================
