---------------------------- MODULE MCHttpServer ----------------------------
\* HttpServer with a small file /f, and an empty file /f#0, whose uri is the key of
\* the first block of /f.
EXTENDS HttpServer

CONSTANTS
    Size,   \* the size of /f
    f,      \* the uri /f
    f0      \* the uri /f#0

MCFileSize == [u \in Uris |-> IF u = f0 THEN 0 ELSE Size]

\* No block looks like a header.
MCBlockStatus == [u \in Uris |-> 0]

MCKeyText(uri, offset) ==
    IF uri = f0 /\ offset = -1 THEN <<f, 0>> ELSE <<uri, offset>>
=============================================================================
