-------------------------------- MODULE Map ---------------------------------
(***************************************************************************)
(* The map of core.c: 256 unbalanced binary search trees, one for each     *)
(* hash, whose nodes point to their children and to their parent.  Smaller *)
(* keys are under r, larger ones under l.  The map has no lock: an         *)
(* operation is one step, and its loops are recursive functions.           *)
(*                                                                         *)
(* A content, the octets of a key or of a value, is its rank in the order  *)
(* of as_smpp_variant_compare (the length first, then the octets).         *)
(***************************************************************************)
EXTENDS Integers, Functions

CONSTANTS
  Data,         \* the contents of keys and of values
  Hash,         \* the XOR of the octets of a content
  Cells,        \* the memory of the caller that variants may point to
  Contents,     \* bound: what the caller writes into each cell
  Entries,      \* bound: the keys and values the caller adds
  KeepsMemory,  \* the caller leaves alone the memory it passed to the map
  Nodes,        \* bound: the memory malloc hands out for nodes
  NULL

Variants ==
  [type : {"SCALAR"}, value : Data] \union [type : {"PTR"}, value : Cells]

ASSUME MapAssumption ==
  /\ Data \subseteq Int
  /\ Hash \in [Data -> 0..255]
  /\ Contents \in [Cells -> SUBSET Data]
  /\ Entries \subseteq [key : Variants, value : Variants]
  /\ KeepsMemory \in BOOLEAN
  /\ NULL \notin Nodes /\ NULL \notin Data

VARIABLES
  nodes,      \* a_map->nodes, for the hashes that occur
  heap,       \* the nodes that are allocated
  mem,        \* the caller's memory
  reply       \* the last call and what it returned

vars == <<nodes, heap, mem, reply>>

-----------------------------------------------------------------------------
(***************************************************************************)
(* Variants.                                                               *)
(***************************************************************************)
Content(v) == IF v.type = "PTR" THEN mem[v.value] ELSE v.value

as_smpp_variant_calc_hash(v) == Hash[Content(v)]

as_smpp_variant_compare(l, r) == Content(l) - Content(r)

(***************************************************************************)
(* as_smpp_map_create_node points the variants of the node to memory       *)
(* behind the node, but as_smpp_variant_copy then overwrites the pointer   *)
(* with that of the original and copies the original onto itself: the copy *)
(* still points to the caller's memory.                                    *)
(***************************************************************************)
as_smpp_variant_copy(v) == v

-----------------------------------------------------------------------------
(***************************************************************************)
(* The nodes.                                                              *)
(***************************************************************************)
Created(k, v, parent) ==
  [key |-> as_smpp_variant_copy(k), value |-> as_smpp_variant_copy(v),
   up |-> parent, r |-> NULL, l |-> NULL,
   keyHash |-> as_smpp_variant_calc_hash(k)]

\* The child of node n on the way to key k.
Side(n, k) == IF as_smpp_variant_compare(heap[n].key, k) > 0 THEN "r" ELSE "l"

\* The node at which the search for k from node n stops.
SearchEnd(n, k) ==
  LET end[m \in DOMAIN heap] ==
        IF \/ as_smpp_variant_compare(heap[m].key, k) = 0
           \/ heap[m][Side(m, k)] = NULL
        THEN m ELSE end[heap[m][Side(m, k)]]
  IN end[n]

\* Mutant of LastOn: the other subtree is hung without a walk to the end.
LastOnNoWalk(side, n) == n

\* The last node on the way from node n to one side.
LastOn(side, n) ==
  LET last[m \in DOMAIN heap] == IF heap[m][side] = NULL THEN m ELSE last[heap[m][side]]
  IN last[n]

\* Mutant of as_smpp_map_get_node: the node where the search stopped.
NearestNode(k) ==
  LET root == nodes[as_smpp_variant_calc_hash(k)]
  IN IF root = NULL THEN NULL ELSE SearchEnd(root, k)

\* The node of key k.
as_smpp_map_get_node(k) ==
  LET root == nodes[as_smpp_variant_calc_hash(k)]
  IN IF root = NULL THEN NULL
     ELSE LET n == SearchEnd(root, k)
          IN IF as_smpp_variant_compare(heap[n].key, k) = 0 THEN n ELSE NULL

-----------------------------------------------------------------------------
(***************************************************************************)
(* The operations.                                                         *)
(***************************************************************************)
Says(op, k, result) == reply' = [op |-> op, key |-> Content(k), result |-> result]

HeapWith(n, node) == [m \in DOMAIN heap \union {n} |-> IF m = n THEN node ELSE heap[m]]

Init ==
  /\ nodes = [h \in {Hash[d] : d \in Data} |-> NULL]
  /\ heap = [n \in {} |-> NULL]
  /\ mem \in {f \in [Cells -> Data] : \A c \in Cells : f[c] \in Contents[c]}
  /\ reply = [op |-> "init", key |-> NULL, result |-> NULL]

AddRoot(k, v) ==
  LET h == as_smpp_variant_calc_hash(k)
  IN /\ nodes[h] = NULL
     /\ \E n \in Nodes \ DOMAIN heap :
          /\ heap' = HeapWith(n, Created(k, v, NULL))
          /\ nodes' = [nodes EXCEPT ![h] = n]
     /\ Says("add", k, "NONE")
     /\ UNCHANGED mem

AddDuplicate(k) ==
  /\ as_smpp_map_get_node(k) # NULL
  /\ Says("add", k, "DUPLICATE")
  /\ UNCHANGED <<nodes, heap, mem>>

AddLeaf(k, v) ==
  LET root == nodes[as_smpp_variant_calc_hash(k)]
  IN /\ root # NULL
     /\ as_smpp_map_get_node(k) = NULL
     /\ LET parent == SearchEnd(root, k)
        IN \E n \in Nodes \ DOMAIN heap :
             heap' = [HeapWith(n, Created(k, v, parent)) EXCEPT ![parent][Side(parent, k)] = n]
     /\ Says("add", k, "NONE")
     /\ UNCHANGED <<nodes, mem>>

\* Mutant of as_smpp_map_add: a key that is there gets the new value.
AddOverwrites(k, v) ==
  LET n == as_smpp_map_get_node(k)
  IN \/ AddRoot(k, v)
     \/ AddLeaf(k, v)
     \/ /\ n # NULL
        /\ heap' = [heap EXCEPT ![n].value = as_smpp_variant_copy(v)]
        /\ Says("add", k, "DUPLICATE")
        /\ UNCHANGED <<nodes, mem>>

as_smpp_map_add(k, v) == AddRoot(k, v) \/ AddDuplicate(k) \/ AddLeaf(k, v)

\* A node with two children leaves one of them in its place, and hangs the
\* other under the end of that one's subtree; which one, the hash decides.
Stays(node) == IF node.keyHash % 2 # 0 THEN "l" ELSE "r"
Other(side) == IF side = "l" THEN "r" ELSE "l"

HasBoth(node) == node.l # NULL /\ node.r # NULL

ReplaceWith(node) ==
  IF HasBoth(node) THEN node[Stays(node)]
  ELSE IF node.r = NULL THEN node.l ELSE node.r

\* The heap after the children of the node were put together.
ChildrenJoined(node) ==
  IF HasBoth(node)
  THEN LET moves == Other(Stays(node))
           end == LastOn(moves, node[Stays(node)])
       IN [heap EXCEPT ![end][moves] = node[moves], ![node[moves]].up = end]
  ELSE heap

\* What points to node n from above points to its replacement.
LinkMoved(h, n) ==
  IF heap[n].up = NULL THEN h
  ELSE [h EXCEPT ![heap[n].up][IF heap[heap[n].up].r = n THEN "r" ELSE "l"] = ReplaceWith(heap[n])]

\* Mutant of UpMoved: the replacement still points to node n.
UpNotMoved(h, n) == h

\* The replacement points to the parent of node n.
UpMoved(h, n) ==
  IF ReplaceWith(heap[n]) = NULL THEN h
  ELSE [h EXCEPT ![ReplaceWith(heap[n])].up = heap[n].up]

as_smpp_map_destroy_node(h, n) == Restrict(h, DOMAIN h \ {n})

RemoveFound(k) ==
  LET n == as_smpp_map_get_node(k)
  IN /\ n # NULL
     /\ heap' = as_smpp_map_destroy_node(UpMoved(LinkMoved(ChildrenJoined(heap[n]), n), n), n)
     /\ nodes' = IF heap[n].up = NULL
                 THEN [nodes EXCEPT ![heap[n].keyHash] = ReplaceWith(heap[n])]
                 ELSE nodes
     /\ Says("remove", k, "NONE")
     /\ UNCHANGED mem

RemoveMissing(k) ==
  /\ as_smpp_map_get_node(k) = NULL
  /\ Says("remove", k, "NOT_FOUND")
  /\ UNCHANGED <<nodes, heap, mem>>

as_smpp_map_remove(k) == RemoveFound(k) \/ RemoveMissing(k)

as_smpp_map_get(k) ==
  LET n == as_smpp_map_get_node(k)
  IN /\ Says("get", k, IF n # NULL THEN Content(heap[n].value) ELSE NULL)
     /\ UNCHANGED <<nodes, heap, mem>>

-----------------------------------------------------------------------------
(***************************************************************************)
(* The caller writes into memory it passed, or will pass, as a key or as a *)
(* value.  With KeepsMemory it does so only while no node points there.    *)
(***************************************************************************)
PointsTo(node, c) == \E v \in {node.key, node.value} : v.type = "PTR" /\ v.value = c

CallerWrites ==
  /\ \E c \in Cells : \E d \in Contents[c] :
       /\ KeepsMemory => \A n \in DOMAIN heap : ~PointsTo(heap[n], c)
       /\ mem' = [mem EXCEPT ![c] = d]
  /\ UNCHANGED <<nodes, heap, reply>>

Next ==
  \/ \E e \in Entries : as_smpp_map_add(e.key, e.value)
  \/ \E k \in {e.key : e \in Entries} : as_smpp_map_remove(k) \/ as_smpp_map_get(k)
  \/ CallerWrites

Spec == Init /\ [][Next]_vars

-----------------------------------------------------------------------------
(***************************************************************************)
(* Correctness.                                                            *)
(***************************************************************************)
\* Every pointer of the map and of a live node is NULL or points to a live
\* node: as_smpp_map_remove leaves no pointer to the node it frees.
TypeOK ==
  LET Link == DOMAIN heap \union {NULL}
  IN /\ nodes \in [{Hash[d] : d \in Data} -> Link]
     /\ DOMAIN heap \subseteq Nodes
     /\ \A n \in DOMAIN heap :
          heap[n] \in [key : Variants, value : Variants, up : Link, r : Link, l : Link, keyHash : 0..255]
     /\ mem \in [Cells -> Data]

\* The links to node n from above: its tree, or a side of a parent.
LinksTo(n) ==
  {<<h>> : h \in {g \in DOMAIN nodes : nodes[g] = n}}
    \union {p \in (DOMAIN heap) \X {"l", "r"} : heap[p[1]][p[2]] = n}

\* Each node hangs in one place, the place its up pointer and its hash name:
\* after any sequence of add and remove, no node leaks, none is in two
\* places, and the next remove will correct the right pointer.
LinkedOnce ==
  \A n \in DOMAIN heap :
    LET up == heap[n].up
    IN \/ up = NULL /\ LinksTo(n) = {<<heap[n].keyHash>>}
       \/ \E s \in {"l", "r"} : up # NULL /\ LinksTo(n) = {<<up, s>>}

\* A value that as_smpp_map_get returned a pointer to stays where it is and
\* what it is until its key is removed: a remove or an add of other keys
\* moves pointers between nodes, and never content.
PointersStable ==
  [][\A n \in DOMAIN heap :
       \/ n \in DOMAIN heap' /\ heap'[n].key = heap[n].key /\ heap'[n].value = heap[n].value
       \/ reply' = [op |-> "remove", key |-> Content(heap[n].key), result |-> "NONE"]]_vars

\* The keys in the nodes with their values.
AbstractMap ==
  [d \in {Content(heap[n].key) : n \in DOMAIN heap} |->
     Content(heap[CHOOSE n \in DOMAIN heap : Content(heap[n].key) = d].value)]

\* The trees implement a finite map: keys that collide, trees of any shape
\* and removals of inner nodes do not show.
Abstract == INSTANCE MapSpec WITH map <- AbstractMap
ImplementsMap == Abstract!Spec
=============================================================================
