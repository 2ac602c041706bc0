------------------------------ MODULE SpanTree -------------------------------
(***************************************************************************)
(* build_tree: the flat span rows of a trace, whatever parents they name,  *)
(* become a tree and a list of orphan subtrees. One step is one turn of    *)
(* one of its loops: the rows are collected under their ids, the parent    *)
(* chains are walked for cycles, the nodes are linked, and subtrees below  *)
(* the greatest depth are detached.                                        *)
(***************************************************************************)
EXTENDS Integers, SequencesExt, SpanIds

CONSTANTS
    MaxRows,   \* bound of the number of rows of a trace
    MaxDepth   \* MAX_TREE_DEPTH

ASSUME SpanTreeAssumption == MaxRows \in Nat /\ MaxDepth \in Nat \ {0}

VARIABLES
    pc,        \* the loop it is in
    rows,      \* the rows not yet collected, in the order of their start
    order,     \* the ids collected, in the order of the dict
    parent,    \* parent_span_id of each span collected
    todo,      \* the ids that the present loop has still to do
    visited,   \* the spans that an earlier walk has marked done
    path,      \* the spans that this walk has in progress
    current,   \* where this walk stands
    cyclic,    \* the spans found on a cycle
    root, children, orphans,   \* the nodes as linked so far
    queue      \* the nodes to bound, each with its depth

input == <<rows, order, parent>>
walk == <<visited, path, current, cyclic>>
tree == <<root, children, orphans>>
vars == <<pc, input, todo, walk, tree, queue>>

Row == [id : Ids, parent : Ids \cup {None}]
Known == ToSet(order)

\* Nothing is collected, walked, linked or bounded yet.
Blank ==
    /\ order = <<>> /\ parent = [i \in Ids |-> None]
    /\ todo = <<>>
    /\ visited = {} /\ path = <<>> /\ current = None /\ cyclic = {}
    /\ root = None /\ children = [i \in Ids |-> <<>>] /\ orphans = <<>>
    /\ queue = <<>>

Init ==
    /\ pc = "collect"
    /\ \E n \in 1..MaxRows : rows \in [1..n -> Row]
    /\ Blank

\* The first row of an id wins: a span may be stored under several start times.
Collect ==
    /\ pc = "collect" /\ rows # <<>>
    /\ rows' = Tail(rows)
    /\ LET row == Head(rows) IN
       IF row.id \in Known THEN UNCHANGED <<order, parent>>
       ELSE /\ order' = Append(order, row.id)
            /\ parent' = [parent EXCEPT ![row.id] = row.parent]
    /\ UNCHANGED <<pc, todo, walk, tree, queue>>

StartWalks ==
    /\ pc = "collect" /\ rows = <<>>
    /\ pc' = "start" /\ todo' = order
    /\ UNCHANGED <<input, walk, tree, queue>>

-----------------------------------------------------------------------------
(* _spans_in_cycles.                                                       *)

SkipStart ==
    /\ pc = "start" /\ todo # <<>> /\ Head(todo) \in visited
    /\ todo' = Tail(todo)
    /\ UNCHANGED <<pc, input, walk, tree, queue>>

BeginWalk ==
    /\ pc = "start" /\ todo # <<>> /\ Head(todo) \notin visited
    /\ pc' = "follow" /\ current' = Head(todo) /\ todo' = Tail(todo)
    /\ UNCHANGED <<input, visited, path, cyclic, tree, queue>>

Follow ==
    /\ pc = "follow"
    /\ current \in Known \ (visited \cup ToSet(path))
    /\ path' = Append(path, current) /\ current' = parent[current]
    /\ UNCHANGED <<pc, input, todo, visited, cyclic, tree, queue>>

EndWalk ==
    /\ pc' = "start" /\ path' = <<>> /\ current' = None
    /\ visited' = visited \cup ToSet(path)
    /\ UNCHANGED <<input, todo, tree, queue>>

\* Mutant: the chain that leads into the cycle is taken for a part of it.
CloseCycle_whole_path ==
    /\ pc = "follow" /\ current \in ToSet(path)
    /\ cyclic' = cyclic \cup ToSet(path)
    /\ EndWalk

\* The walk meets itself: the path from there on is a cycle.
CloseCycle ==
    /\ pc = "follow" /\ current \in ToSet(path)
    /\ \E k \in DOMAIN path :
          /\ path[k] = current
          /\ cyclic' = cyclic \cup ToSet(SubSeq(path, k, Len(path)))
    /\ EndWalk

\* At a span without parent, at an absent one, or at one walked before.
LeaveChain ==
    /\ pc = "follow"
    /\ current \notin Known \/ current \in visited
    /\ EndWalk /\ UNCHANGED cyclic

-----------------------------------------------------------------------------
(* Linking the nodes.                                                      *)

StartLinks ==
    /\ pc = "start" /\ todo = <<>>
    /\ pc' = "link" /\ todo' = order
    /\ UNCHANGED <<input, walk, tree, queue>>

Linking ==
    /\ pc = "link" /\ todo # <<>>
    /\ todo' = Tail(todo)
    /\ UNCHANGED <<pc, input, walk, queue>>

\* On a cycle, a second root, or its parent is absent.
Misplaced(i) ==
    \/ i \in cyclic
    \/ parent[i] = None /\ root # None
    \/ parent[i] # None /\ parent[i] \notin Known

LinkRoot ==
    /\ Linking
    /\ parent[Head(todo)] = None /\ ~Misplaced(Head(todo))
    /\ root' = Head(todo)
    /\ UNCHANGED <<children, orphans>>

LinkOrphan ==
    /\ Linking
    /\ Misplaced(Head(todo))
    /\ orphans' = Append(orphans, Head(todo))
    /\ UNCHANGED <<root, children>>

LinkChild ==
    /\ Linking
    /\ parent[Head(todo)] # None /\ ~Misplaced(Head(todo))
    /\ children' = [children EXCEPT ![parent[Head(todo)]] = Append(@, Head(todo))]
    /\ UNCHANGED <<root, orphans>>

-----------------------------------------------------------------------------
(* _bound_depth.                                                           *)

Tops == (IF root = None THEN <<>> ELSE <<root>>) \o orphans
AtDepth(nodes, d) == [k \in DOMAIN nodes |-> [node |-> nodes[k], depth |-> d]]

StartBounding ==
    /\ pc = "link" /\ todo = <<>>
    /\ pc' = "bound" /\ queue' = AtDepth(Tops, 1)
    /\ UNCHANGED <<input, todo, walk, tree>>

\* The children stay; they are one level deeper. A leaf has none to queue.
Descend ==
    /\ pc = "bound" /\ queue # <<>>
    /\ LET top == Head(queue)
           nodes == children[top.node]
       IN  /\ nodes = <<>> \/ top.depth < MaxDepth
           /\ queue' = Tail(queue) \o AtDepth(nodes, top.depth + 1)
    /\ UNCHANGED <<pc, input, todo, walk, tree>>

\* Mutant: the children leave their parent and go nowhere.
Detach_drops ==
    /\ pc = "bound" /\ queue # <<>>
    /\ LET top == Head(queue)
           nodes == children[top.node]
       IN  /\ nodes # <<>> /\ top.depth >= MaxDepth
           /\ children' = [children EXCEPT ![top.node] = <<>>]
           /\ queue' = Tail(queue) \o AtDepth(nodes, 1)
    /\ UNCHANGED <<pc, input, todo, walk, root, orphans>>

\* The children become the tops of orphan subtrees, to be bounded in turn.
Detach ==
    /\ pc = "bound" /\ queue # <<>>
    /\ LET top == Head(queue)
           nodes == children[top.node]
       IN  /\ nodes # <<>> /\ top.depth >= MaxDepth
           /\ children' = [children EXCEPT ![top.node] = <<>>]
           /\ orphans' = orphans \o nodes
           /\ queue' = Tail(queue) \o AtDepth(nodes, 1)
    /\ UNCHANGED <<pc, input, todo, walk, root>>

Return ==
    /\ pc = "bound" /\ queue = <<>>
    /\ pc' = "returned"
    /\ UNCHANGED <<input, todo, walk, tree, queue>>

Next ==
    \/ Collect
    \/ StartWalks \/ SkipStart \/ BeginWalk \/ Follow \/ CloseCycle \/ LeaveChain
    \/ StartLinks \/ LinkRoot \/ LinkOrphan \/ LinkChild
    \/ StartBounding \/ Descend \/ Detach \/ Return

Spec == Init /\ [][Next]_vars
-----------------------------------------------------------------------------
(* Properties.                                                             *)

\* Every place of the answer, in the order of the dict.
Seats == Tops \o FlattenSeq([k \in DOMAIN order |-> children[order[k]]])

\* The nodes a reader of the answer meets at each depth.
Level ==
    LET level[d \in 1..Cardinality(Ids)] ==
            IF d = 1 THEN ToSet(Tops)
            ELSE UNION {ToSet(children[i]) : i \in level[d - 1]}
    IN  level

Readable == UNION {Level[d] : d \in 1..Cardinality(Ids)}

\* Nothing is dropped: once linked, a span has one place and one only, while
\* subtrees are moved too; and each one is met within the depth that can be
\* serialised, however the parents loop.
EverySpanReturned ==
    /\ pc \in {"link", "bound", "returned"} =>
          IsInjective(Seats) /\ ToSet(Seats) = Known \ ToSet(todo)
    /\ pc = "returned" =>
          /\ Readable = Known
          /\ \A d \in DOMAIN Level : d > MaxDepth => Level[d] = {}

\* The spans met by following n parents up from i.
Ancestor(i) ==
    LET up[n \in 0..Cardinality(Ids)] ==
            IF n = 0 THEN i
            ELSE IF up[n - 1] \in Known THEN parent[up[n - 1]] ELSE None
    IN  up
OnCycle(i) == \E n \in 1..Cardinality(Ids) : Ancestor(i)[n] = i

\* A span is under its parent unless that link can not be kept: a cycle, an
\* absent parent, a second root, or a parent at the greatest depth.
OnlyBrokenLinksCut ==
    pc = "returned" =>
        /\ \A i \in Known : \A j \in ToSet(children[i]) : parent[j] = i /\ ~OnCycle(j)
        /\ \A i \in ToSet(orphans) :
              \/ OnCycle(i)
              \/ parent[i] = None /\ root # None
              \/ parent[i] # None /\ parent[i] \notin Known
              \/ MaxDepth \in DOMAIN Level /\ parent[i] \in Level[MaxDepth]
=============================================================================
