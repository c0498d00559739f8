------------------------------ MODULE FastFIFO ------------------------------
(***************************************************************************)
(* webserver/fast_fifo.h: a doubly linked list with a sentinel at its      *)
(* tail, used as a queue from the middle of which a node can be removed.   *)
(* The links are functions on node addresses; an address that is freed     *)
(* keeps its old links and may be allocated again.  The payload of a node  *)
(* is written once, by its constructor, and stands for itself.             *)
(***************************************************************************)
EXTENDS Integers, Sequences, Functions

CONSTANTS
    Nodes,      \* addresses of nodes
    Sentinel,   \* tail_, allocated by the constructor
    NULL

ASSUME SentinelAssumption == Sentinel \notin Nodes
ASSUME NullAssumption == NULL \notin Nodes /\ NULL # Sentinel

VARIABLES
    head,           \* head_
    before, next,   \* the links of every node
    allocated,      \* the nodes that are not free
    queue           \* history: the nodes a queue would hold, oldest first

fifoVars == <<head, before, next, allocated, queue>>

Cells == Nodes \cup {Sentinel}

FIFOTypeOK ==
    /\ head \in Cells
    /\ before \in [Cells -> Cells \cup {NULL}]
    /\ next \in [Cells -> Cells \cup {NULL}]
    /\ allocated \in SUBSET Nodes
    /\ queue \in Seq(Nodes)

\* The constructor.
FIFOInit ==
    /\ head = Sentinel
    /\ before = [n \in Cells |-> NULL]
    /\ next = [n \in Cells |-> NULL]
    /\ allocated = {}
    /\ queue = <<>>

\* Mutant: the former last node is not linked to the new one.
pushUnlinked(n) ==
    /\ n \in Nodes \ allocated
    /\ allocated' = allocated \cup {n}
    /\ before' = [before EXCEPT ![n] = before[Sentinel], ![Sentinel] = n]
    /\ next' = [next EXCEPT ![n] = Sentinel]
    /\ head' = IF head = Sentinel THEN n ELSE head
    /\ queue' = Append(queue, n)

\* The links of the new node, of the former last node and of the sentinel, and
\* head_, in the order of the statements.
push(n) ==
    /\ n \in Nodes \ allocated
    /\ allocated' = allocated \cup {n}
    /\ before' = [before EXCEPT ![n] = before[Sentinel], ![Sentinel] = n]
    /\ next' = [c \in Cells |->
                   IF c = n THEN Sentinel
                   ELSE IF c = before[Sentinel] THEN n ELSE next[c]]
    /\ head' = IF head = Sentinel THEN n ELSE head
    /\ queue' = Append(queue, n)

\* Mutant: the node is not deleted.
unlinkLeaks(n) ==
    /\ head' = IF before[n] = NULL THEN next[n] ELSE head
    /\ next' = [c \in Cells |-> IF c = before[n] THEN next[n] ELSE next[c]]
    /\ before' = [c \in Cells |-> IF c = next[n] THEN before[n] ELSE before[c]]
    /\ UNCHANGED allocated

\* The body of removeNode: unlink the node and free it.
unlink(n) ==
    /\ head' = IF before[n] = NULL THEN next[n] ELSE head
    /\ next' = [c \in Cells |-> IF c = before[n] THEN next[n] ELSE next[c]]
    /\ before' = [c \in Cells |-> IF c = next[n] THEN before[n] ELSE before[c]]
    /\ allocated' = allocated \ {n}

\* The queue without its p-th node.
Without(p) ==
    [i \in 1 .. Len(queue) - 1 |-> IF i < p THEN queue[i] ELSE queue[i + 1]]

\* removeNode is called for a node that push returned and that is still queued.
removeNode(p) ==
    /\ unlink(queue[p])
    /\ queue' = Without(p)

\* A successful pop.  The destructor pops until the list is empty and leaves the
\* sentinel, which is not among the Nodes, allocated for good (lines 90-93).
pop ==
    /\ head # Sentinel
    /\ unlink(head)
    /\ queue' = Tail(queue)

\* On an empty list pop returns false.
popEmpty ==
    /\ head = Sentinel
    /\ UNCHANGED fifoVars

FIFONext ==
    \/ \E n \in Nodes : push(n)
    \/ \E p \in DOMAIN queue : removeNode(p)
    \/ pop
    \/ popEmpty

FIFOSpec == FIFOInit /\ [][FIFONext]_fifoVars

-----------------------------------------------------------------------------
(* Properties *)

Successor(i) == IF i = Len(queue) THEN Sentinel ELSE queue[i + 1]

Predecessor(i) == IF i = 1 THEN NULL ELSE queue[i - 1]

\* The links, followed in either direction, spell exactly the queue that the
\* operations so far leave behind, and end at the sentinel: after any mix of
\* push, pop and removeNode, pop takes the oldest node and no link of a queued
\* node leads to a freed one ("tail is always pointing to a sentinel").
LinksSpellQueue ==
    /\ head = IF queue = <<>> THEN Sentinel ELSE queue[1]
    /\ \A i \in 1 .. Len(queue) :
          next[queue[i]] = Successor(i) /\ before[queue[i]] = Predecessor(i)
    /\ before[Sentinel] = Predecessor(Len(queue) + 1)

\* Exactly the queued nodes are allocated and none is queued twice: no node that
\* push made is leaked or freed while it is linked, and removeNode's assertion
\* holds.  (The sentinel is no such node: the destructor leaks it.)
AllocatedAreQueued ==
    /\ allocated = Range(queue)
    /\ IsInjective(queue)
    /\ \A n \in allocated : next[n] # NULL
=============================================================================
