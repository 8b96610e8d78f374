------------------------------ MODULE MapProofs ------------------------------
(***************************************************************************)
(* Theorems about Map, for any contents, hashes, memory and entries.       *)
(*                                                                         *)
(* The trees are treated without recursion.  What is under a node is the   *)
(* least set of nodes that has the node and the children of its members;   *)
(* every way up and every way down ends, because the heap is finite; and   *)
(* an induction takes a lowest node for which a claim fails, a node none   *)
(* of whose children fail.  The three ways to change trees (a new leaf, a  *)
(* subtree hung elsewhere, a node spliced out) come first, then the loops  *)
(* of the code, the inductive invariant Inv, the operations, and that the  *)
(* trees implement a finite map.                                           *)
(***************************************************************************)
EXTENDS Map, FiniteSetTheorems, WellFoundedInduction, TLAPS

-----------------------------------------------------------------------------
(***************************************************************************)
(* Trees in a heap.                                                        *)
(***************************************************************************)
Sides == {"l", "r"}

\* The nodes of h form trees: children and parents agree, and every way up ends.
Tree(h) ==
  /\ IsFiniteSet(DOMAIN h) /\ NULL \notin DOMAIN h
  /\ \A m \in DOMAIN h :
       /\ h[m].up = NULL \/ (h[m].up \in DOMAIN h /\ \E s \in Sides : h[h[m].up][s] = m)
       /\ \A s \in Sides : h[m][s] = NULL \/ (h[m][s] \in DOMAIN h /\ h[h[m][s]].up = m)
       /\ h[m]["l"] = h[m]["r"] => h[m]["l"] = NULL
  /\ \A S \in SUBSET DOMAIN h : S # {} => \E m \in S : h[m].up \notin S

\* A set of nodes that has the children of its members.
Closed(h, C) == \A m \in C, s \in Sides : h[m][s] = NULL \/ h[m][s] \in C

\* The nodes of the tree with the root n.
Under(h, n) == {x \in DOMAIN h : \A C \in SUBSET DOMAIN h : n \in C /\ Closed(h, C) => x \in C}

\* Induction over finite sets: a family of them has a least member.
LEMMA LeastSet ==
  ASSUME NEW D, IsFiniteSet(D), NEW F, F \subseteq SUBSET D, F # {}
  PROVE  \E S \in F : \A T \in F : T \subseteq S => T = S
<1>1. F \subseteq FiniteSubsetsOf(D)
  BY FS_FiniteSubsetsOfFinite
<1>2. PICK S \in F : \A T \in F : <<T, S>> \notin StrictSubsetOrdering(D)
  BY <1>1, FS_StrictSubsetOrderingWellFounded, WFMin
<1>3. \A T \in F : T \subseteq S => T = S
  BY <1>2 DEF StrictSubsetOrdering
<1>4. QED
  BY <1>3

\* Every way down ends: no set of nodes has a child of each of its members.
\* A least one would have the parents of its members, too.
LEMMA WayDownEnds ==
  ASSUME NEW h, Tree(h), NEW S \in SUBSET DOMAIN h, S # {}
  PROVE  \E m \in S : \A s \in Sides : h[m][s] \notin S
<1> DEFINE F == {T \in SUBSET DOMAIN h : T # {} /\ \A m \in T : \E s \in Sides : h[m][s] \in T}
<1>1. SUFFICES ASSUME F # {} PROVE FALSE
  BY <1>1
<1>2. PICK T \in F : \A U \in F : U \subseteq T => U = T
  <2> HIDE DEF F
  <2>1. F \subseteq SUBSET DOMAIN h
    BY DEF F
  <2>2. IsFiniteSet(DOMAIN h)
    BY DEF Tree
  <2>3. QED
    BY <1>1, <2>1, <2>2, LeastSet
<1> DEFINE U == {x \in T : \E m \in T : \E s \in Sides : h[m][s] = x}
<1>3. U \in F
  <2>1. T \in SUBSET DOMAIN h /\ T # {} /\ \A m \in T : \E s \in Sides : h[m][s] \in T
    BY <1>2
  <2>2. \A m \in T : \E s \in Sides : h[m][s] \in U
    BY <2>1
  <2>3. U # {} /\ U \in SUBSET DOMAIN h
    BY <2>1, <2>2
  <2>4. \A m \in U : \E s \in Sides : h[m][s] \in U
    BY <2>2
  <2>5. QED
    BY <2>3, <2>4
<1>4. U = T
  BY <1>2, <1>3
<1>5. ASSUME NEW x \in T PROVE h[x].up \in T
  <2>1. PICK m \in T : \E s \in Sides : h[m][s] = x
    BY <1>4
  <2>2. T \in SUBSET DOMAIN h
    BY <1>2
  <2>3. QED
    BY <2>1, <2>2 DEF Tree
<1>6. QED
  BY <1>2, <1>5 DEF Tree

\* The nodes under n are the least set with n that has its members' children.
LEMMA UnderFacts ==
  ASSUME NEW h, NEW n \in DOMAIN h, Tree(h)
  PROVE  /\ n \in Under(h, n) /\ Under(h, n) \subseteq DOMAIN h
         /\ Closed(h, Under(h, n))
         /\ \A C \in SUBSET DOMAIN h : n \in C /\ Closed(h, C) => Under(h, n) \subseteq C
<1>1. n \in Under(h, n) /\ Under(h, n) \subseteq DOMAIN h
  BY DEF Under
<1>2. \A C \in SUBSET DOMAIN h : n \in C /\ Closed(h, C) => Under(h, n) \subseteq C
  BY DEF Under
<1>3. ASSUME NEW m \in Under(h, n), NEW s \in Sides, h[m][s] # NULL
      PROVE  h[m][s] \in Under(h, n)
  <2>1. h[m][s] \in DOMAIN h
    BY <1>1, <1>3 DEF Tree
  <2>2. ASSUME NEW C \in SUBSET DOMAIN h, n \in C, Closed(h, C) PROVE h[m][s] \in C
    BY <1>2, <1>3, <2>2 DEF Closed
  <2>3. QED
    BY <2>1, <2>2 DEF Under
<1>4. QED
  BY <1>1, <1>2, <1>3 DEF Closed

\* What is under a node of the tree of n is under n.
LEMMA UnderUnder ==
  ASSUME NEW h, NEW n \in DOMAIN h, Tree(h), NEW m \in Under(h, n)
  PROVE  m \in DOMAIN h /\ Under(h, m) \subseteq Under(h, n)
  BY UnderFacts

\* A node that is under n, and not n, has its parent there.
LEMMA ParentUnder ==
  ASSUME NEW h, NEW n \in DOMAIN h, Tree(h), NEW x \in Under(h, n), x # n
  PROVE  h[x].up \in Under(h, n)
<1> DEFINE C == Under(h, n) \ {x}
<1>1. SUFFICES ASSUME h[x].up \notin Under(h, n) PROVE FALSE
  OBVIOUS
<1>2. C \in SUBSET DOMAIN h /\ n \in C
  BY UnderFacts
<1>3. Closed(h, C)
  BY <1>1, UnderFacts DEF Closed, Tree
<1>4. QED
  BY <1>2, <1>3, UnderFacts

\* It is under one of the children of n.
LEMMA UnderChild ==
  ASSUME NEW h, NEW n \in DOMAIN h, Tree(h), NEW x \in Under(h, n), x # n
  PROVE  \E s \in Sides : h[n][s] \in DOMAIN h /\ x \in Under(h, h[n][s])
<1> DEFINE C == {n} \cup {y \in DOMAIN h : \E s \in Sides : h[n][s] \in DOMAIN h /\ y \in Under(h, h[n][s])}
<1>1. C \in SUBSET DOMAIN h /\ n \in C
  OBVIOUS
<1>2. ASSUME NEW m \in C, NEW s \in Sides, h[m][s] # NULL PROVE h[m][s] \in C
  <2>1. m \in DOMAIN h /\ h[m][s] \in DOMAIN h
    BY <1>1, <1>2 DEF Tree
  <2>2. CASE m = n
    BY <2>1, <2>2, UnderFacts
  <2>3. CASE m # n
    <3>1. PICK t \in Sides : h[n][t] \in DOMAIN h /\ m \in Under(h, h[n][t])
      BY <2>3
    <3>2. h[m][s] \in Under(h, h[n][t])
      BY <1>2, <3>1, UnderFacts DEF Closed
    <3>3. QED
      BY <2>1, <3>1, <3>2
  <2>4. QED
    BY <2>2, <2>3
<1>3. Closed(h, C)
  BY <1>2 DEF Closed
<1>4. x \in C
  BY <1>1, <1>3, UnderFacts
<1>5. QED
  BY <1>4

\* No node is under its child.
LEMMA NotUnderChild ==
  ASSUME NEW h, NEW n \in DOMAIN h, Tree(h), NEW s \in Sides, h[n][s] # NULL
  PROVE  h[n][s] \in DOMAIN h /\ n \notin Under(h, h[n][s])
<1>1. h[n][s] \in DOMAIN h /\ h[h[n][s]].up = n
  BY DEF Tree
<1>2. SUFFICES ASSUME n \in Under(h, h[n][s]) PROVE FALSE
  BY <1>1
<1>3. \A x \in Under(h, h[n][s]) : h[x].up \in Under(h, h[n][s])
  BY <1>1, <1>2, ParentUnder
<1>4. Under(h, h[n][s]) \in SUBSET DOMAIN h /\ Under(h, h[n][s]) # {}
  BY <1>1, UnderFacts
<1>5. QED
  BY <1>3, <1>4 DEF Tree

\* Of two nodes above a third, one is above the other.
LEMMA Comparable ==
  ASSUME NEW h, NEW c \in DOMAIN h, NEW d \in DOMAIN h, Tree(h),
         NEW x \in Under(h, c), x \in Under(h, d)
  PROVE  c \in Under(h, d) \/ d \in Under(h, c)
<1>1. SUFFICES ASSUME c \notin Under(h, d), d \notin Under(h, c) PROVE FALSE
  OBVIOUS
<1> DEFINE S == Under(h, c) \cap Under(h, d)
<1>2. \A y \in S : h[y].up \in S
  BY <1>1, ParentUnder
<1>3. S \in SUBSET DOMAIN h /\ S # {}
  BY UnderFacts
<1>4. QED
  BY <1>2, <1>3 DEF Tree

\* The trees of the two children of a node have no node in common.
LEMMA SidesDisjoint ==
  ASSUME NEW h, NEW n \in DOMAIN h, Tree(h), h[n]["l"] # NULL, h[n]["r"] # NULL
  PROVE  Under(h, h[n]["l"]) \cap Under(h, h[n]["r"]) = {}
<1> DEFINE l == h[n]["l"]
           r == h[n]["r"]
<1>1. /\ l \in DOMAIN h /\ r \in DOMAIN h /\ l # r
      /\ h[l].up = n /\ h[r].up = n
  BY DEF Tree, Sides
<1>2. n \notin Under(h, l) /\ n \notin Under(h, r)
  BY NotUnderChild DEF Sides
<1>3. l \notin Under(h, r) /\ r \notin Under(h, l)
  BY <1>1, <1>2, ParentUnder
<1>4. QED
  BY <1>1, <1>3, Comparable

\* The integer b is on side s of a.
Beyond(s, a, b) == IF s = "r" THEN a > b ELSE a < b

\* A search tree: what is under side s of a node is on that side of it.
Sorted(h, rank) ==
  \A m \in DOMAIN h, s \in Sides : h[m][s] # NULL =>
    \A x \in Under(h, h[m][s]) : Beyond(s, rank[m], rank[x])

-----------------------------------------------------------------------------
(***************************************************************************)
(* What the operations do to trees.  Of the heap g that they leave only    *)
(* the links are named.                                                    *)
(***************************************************************************)
\* A new node n becomes the child of p on side t, or a root.
IsAttached(h, g, n, p, t) ==
  /\ n \notin DOMAIN h /\ n # NULL
  /\ p # NULL => h[p][t] = NULL
  /\ DOMAIN g = DOMAIN h \cup {n}
  /\ g[n].up = p /\ g[n]["l"] = NULL /\ g[n]["r"] = NULL
  /\ \A m \in DOMAIN h : g[m].up = h[m].up
  /\ \A m \in DOMAIN h, s \in Sides : g[m][s] = IF m = p /\ s = t THEN n ELSE h[m][s]

\* A new leaf or a new root keeps trees trees, and is under what its parent
\* is under.
LEMMA Attached ==
  ASSUME NEW h, Tree(h), NEW g, NEW n, NEW p \in DOMAIN h \cup {NULL}, NEW t \in Sides,
         IsAttached(h, g, n, p, t)
  PROVE  /\ Tree(g)
         /\ \A c \in DOMAIN h : Under(g, c) \subseteq Under(h, c) \cup {n}
         /\ \A c \in DOMAIN h : n \in Under(g, c) => p \in Under(h, c)
         /\ Under(g, n) = {n}
<1> USE DEF IsAttached
<1>1. IsFiniteSet(DOMAIN g) /\ NULL \notin DOMAIN g
  BY FS_AddElement DEF Tree
<1>2. ASSUME NEW m \in DOMAIN g
      PROVE  /\ g[m].up = NULL \/ (g[m].up \in DOMAIN g /\ \E s \in Sides : g[g[m].up][s] = m)
             /\ \A s \in Sides : g[m][s] = NULL \/ (g[m][s] \in DOMAIN g /\ g[g[m][s]].up = m)
             /\ g[m]["l"] = g[m]["r"] => g[m]["l"] = NULL
  <2>1. CASE m = n
    <3>1. p = NULL \/ (p \in DOMAIN g /\ g[p][t] = n)
      OBVIOUS
    <3>2. QED
      BY <2>1, <3>1 DEF Sides
  <2>2. CASE m # n
    <3>1. m \in DOMAIN h /\ g[m].up = h[m].up
      BY <2>2
    <3>2. h[m].up = NULL \/ (h[m].up \in DOMAIN h /\ \E s \in Sides : h[h[m].up][s] = m)
      BY <3>1 DEF Tree
    <3>3. g[m].up = NULL \/ (g[m].up \in DOMAIN g /\ \E s \in Sides : g[g[m].up][s] = m)
      BY <3>1, <3>2 DEF Tree
    <3>4. \A s \in Sides : g[m][s] = NULL \/ (g[m][s] \in DOMAIN g /\ g[g[m][s]].up = m)
      BY <3>1 DEF Tree
    <3>5. g[m]["l"] = g[m]["r"] => g[m]["l"] = NULL
      <4>1. \A s \in Sides : h[m][s] # n
        BY <3>1 DEF Tree
      <4>2. "l" \in Sides /\ "r" \in Sides /\ (h[m]["l"] = h[m]["r"] => h[m]["l"] = NULL)
        BY <3>1 DEF Tree, Sides
      <4>3. QED
        BY <3>1, <4>1, <4>2
    <3>6. QED
      BY <3>3, <3>4, <3>5
  <2>3. QED
    BY <2>1, <2>2
<1>3. ASSUME NEW S \in SUBSET DOMAIN g, S # {} PROVE \E m \in S : g[m].up \notin S
  <2>1. CASE S \ {n} = {}
    BY <1>3, <2>1
  <2>2. CASE S \ {n} # {}
    <3>1. PICK m \in S \ {n} : h[m].up \notin S \ {n}
      BY <2>2 DEF Tree
    <3>2. g[m].up \notin S
      BY <3>1 DEF Tree
    <3>3. QED
      BY <3>1, <3>2
  <2>3. QED
    BY <2>1, <2>2
<1>4. Tree(g)
  BY <1>1, <1>2, <1>3 DEF Tree
<1>5. ASSUME NEW c \in DOMAIN h
      PROVE  /\ Under(g, c) \subseteq Under(h, c) \cup {n}
             /\ n \in Under(g, c) => p \in Under(h, c)
  <2> DEFINE C == Under(h, c) \cup (IF p \in Under(h, c) THEN {n} ELSE {})
  <2>1. C \in SUBSET DOMAIN g /\ c \in C
    BY UnderFacts
  <2>2. Closed(g, C)
    BY <2>1, UnderFacts DEF Closed, Sides
  <2>3. Under(g, c) \subseteq C
    BY <1>4, <2>1, <2>2, UnderFacts
  <2>4. n \notin Under(h, c)
    BY UnderFacts
  <2>5. QED
    BY <2>3, <2>4
<1>6. Under(g, n) = {n}
  <2>1. {n} \in SUBSET DOMAIN g /\ Closed(g, {n})
    BY DEF Closed, Sides
  <2>2. QED
    BY <1>4, <2>1, UnderFacts
<1>7. QED
  BY <1>4, <1>5, <1>6

\* The tree o on side b of n goes to side b of e, in the other tree of n.
IsRehung(h, g, n, b, o, e) ==
  /\ h[e][b] = NULL
  /\ DOMAIN g = DOMAIN h
  /\ \A m \in DOMAIN h : g[m].up = IF m = o THEN e ELSE h[m].up
  /\ \A m \in DOMAIN h, s \in Sides :
       g[m][s] = IF m = n /\ s = b THEN NULL
                 ELSE IF m = e /\ s = b THEN o ELSE h[m][s]

\* Hanging one tree of n into the other keeps trees trees.  What is under a
\* node that is not above e stays the same.
LEMMA Rehung ==
  ASSUME NEW h, Tree(h), NEW g, NEW n \in DOMAIN h, NEW b \in Sides,
         NEW o, o = h[n][b], o # NULL,
         NEW k, k = h[n][Other(b)], k # NULL,
         NEW e \in Under(h, k), IsRehung(h, g, n, b, o, e)
  PROVE  /\ Tree(g)
         /\ \A c \in DOMAIN h : Under(g, c) \subseteq Under(h, c) \cup Under(h, o)
         /\ \A c \in DOMAIN h : e \notin Under(h, c) => Under(g, c) \subseteq Under(h, c)
<1> USE DEF IsRehung
<1>1. /\ Other(b) \in Sides /\ Other(b) # b
      /\ o \in DOMAIN h /\ k \in DOMAIN h /\ o # k
      /\ h[o].up = n /\ h[k].up = n
  BY DEF Tree, Sides, Other
<1>2. /\ n \notin Under(h, k) /\ n \notin Under(h, o)
      /\ o \notin Under(h, k) /\ k \notin Under(h, o)
  <2>1. n \notin Under(h, k) /\ n \notin Under(h, o)
    BY <1>1, NotUnderChild
  <2>2. QED
    BY <1>1, <2>1, ParentUnder
<1>3. e \in DOMAIN h /\ e # n /\ e # o /\ e \notin Under(h, o) /\ n # NULL /\ n # o
  <2>1. e \in DOMAIN h /\ e # n
    BY <1>1, <1>2, UnderFacts
  <2>2. e \notin Under(h, o)
    BY <1>1, <1>2, Comparable
  <2>3. e # o
    BY <1>1, <2>2, UnderFacts
  <2>4. n # NULL /\ n # o
    BY <1>1, <1>2, UnderFacts DEF Tree
  <2>5. QED
    BY <2>1, <2>2, <2>3, <2>4
<1>4. ASSUME NEW m \in DOMAIN g
      PROVE  /\ g[m].up = NULL \/ (g[m].up \in DOMAIN g /\ \E s \in Sides : g[g[m].up][s] = m)
             /\ \A s \in Sides : g[m][s] = NULL \/ (g[m][s] \in DOMAIN g /\ g[g[m][s]].up = m)
             /\ g[m]["l"] = g[m]["r"] => g[m]["l"] = NULL
  <2>1. g[m].up = NULL \/ (g[m].up \in DOMAIN g /\ \E s \in Sides : g[g[m].up][s] = m)
    <3>1. CASE m = o
      <4>1. g[e][b] = o
        BY <1>3
      <4>2. QED
        BY <1>3, <3>1, <4>1
    <3>2. CASE m # o
      <4>1. g[m].up = h[m].up /\ m # NULL
        BY <3>2 DEF Tree
      <4>2. SUFFICES ASSUME h[m].up # NULL PROVE g[m].up \in DOMAIN g /\ \E s \in Sides : g[g[m].up][s] = m
        BY <4>1
      <4>3. PICK s \in Sides : h[m].up \in DOMAIN h /\ h[h[m].up][s] = m
        BY <4>2 DEF Tree
      <4>4. ~(h[m].up = n /\ s = b) /\ ~(h[m].up = e /\ s = b)
        BY <3>2, <4>1, <4>3
      <4>5. g[h[m].up][s] = m
        BY <4>3, <4>4
      <4>6. QED
        BY <4>1, <4>3, <4>5
    <3>3. QED
      BY <3>1, <3>2
  <2>2. ASSUME NEW s \in Sides, g[m][s] # NULL
        PROVE  g[m][s] \in DOMAIN g /\ g[g[m][s]].up = m
    <3>1. CASE m = e /\ s = b
      BY <1>1, <1>3, <3>1
    <3>2. CASE ~(m = e /\ s = b)
      <4>1. ~(m = n /\ s = b) /\ g[m][s] = h[m][s]
        BY <2>2, <3>2
      <4>2. h[m][s] \in DOMAIN h /\ h[h[m][s]].up = m
        BY <2>2, <4>1 DEF Tree
      <4>3. h[m][s] # o
        <5>1. SUFFICES ASSUME h[m][s] = o PROVE FALSE
          OBVIOUS
        <5>2. m = n /\ s = Other(b)
          BY <1>1, <4>1, <4>2, <5>1 DEF Sides, Other
        <5>3. QED
          BY <1>1, <5>1, <5>2
      <4>4. QED
        BY <4>1, <4>2, <4>3
    <3>3. QED
      BY <3>1, <3>2
  <2>3. g[m]["l"] = g[m]["r"] => g[m]["l"] = NULL
    <3>1. "l" \in Sides /\ "r" \in Sides /\ (h[m]["l"] = h[m]["r"] => h[m]["l"] = NULL)
      BY DEF Tree, Sides
    <3>2. h[e][Other(b)] # o
      BY <1>1, <1>3 DEF Tree
    <3>3. CASE b = "l"
      BY <1>3, <3>1, <3>2, <3>3 DEF Other
    <3>4. CASE b = "r"
      BY <1>3, <3>1, <3>2, <3>4 DEF Other
    <3>5. QED
      BY <3>3, <3>4 DEF Sides
  <2>4. QED
    BY <2>1, <2>2, <2>3
<1>5. ASSUME NEW S \in SUBSET DOMAIN g, S # {} PROVE \E m \in S : g[m].up \notin S
  <2>1. SUFFICES ASSUME \A m \in S : g[m].up \in S PROVE FALSE
    OBVIOUS
  <2>2. CASE o \notin S
    <3>1. \A m \in S : h[m].up \in S
      BY <2>1, <2>2
    <3>2. QED
      BY <1>5, <3>1 DEF Tree
  <2>3. CASE o \in S
    <3>1. e \in S
      BY <1>1, <2>1, <2>3
    <3>2. k \in S
      <4>1. SUFFICES ASSUME k \notin S PROVE FALSE
        OBVIOUS
      <4> DEFINE R == S \cap Under(h, k)
      <4>2. ASSUME NEW m \in R PROVE h[m].up \in R
        <5>1. h[m].up \in Under(h, k)
          BY <1>1, <4>1, ParentUnder
        <5>2. m # o
          BY <1>2
        <5>3. QED
          BY <2>1, <5>1, <5>2
      <4>3. R \in SUBSET DOMAIN h /\ e \in R
        BY <3>1
      <4>4. QED
        BY <4>2, <4>3 DEF Tree
    <3>3. n \in S
      BY <1>1, <2>1, <3>2
    <3>4. \A m \in S : h[m].up \in S
      BY <1>1, <2>1, <3>3
    <3>5. QED
      BY <1>5, <3>4 DEF Tree
  <2>4. QED
    BY <2>2, <2>3
<1>6. Tree(g)
  BY <1>4, <1>5 DEF Tree
<1>7. ASSUME NEW c \in DOMAIN h
      PROVE  /\ Under(g, c) \subseteq Under(h, c) \cup Under(h, o)
             /\ e \notin Under(h, c) => Under(g, c) \subseteq Under(h, c)
  <2> DEFINE C == Under(h, c) \cup (IF e \in Under(h, c) THEN Under(h, o) ELSE {})
  <2>1. /\ C \in SUBSET DOMAIN g /\ c \in C
        /\ o \in Under(h, o)
        /\ Closed(h, Under(h, c)) /\ Closed(h, Under(h, o))
    BY <1>1, UnderFacts
  <2>2. Closed(g, C)
    BY <1>3, <2>1 DEF Closed
  <2>3. Under(g, c) \subseteq C
    BY <1>6, <2>1, <2>2, UnderFacts
  <2>4. QED
    BY <2>3
<1>8. QED
  BY <1>6, <1>7

\* The node n, with one child k or none, is taken out.
IsSpliced(h, g, n, k) ==
  /\ DOMAIN g = DOMAIN h \ {n}
  /\ \A m \in DOMAIN g : g[m].up = IF m = k THEN h[n].up ELSE h[m].up
  /\ \A m \in DOMAIN g, s \in Sides : g[m][s] = IF h[m][s] = n THEN k ELSE h[m][s]

\* Taking out n keeps trees trees, and nothing comes under another node.
LEMMA Spliced ==
  ASSUME NEW h, Tree(h), NEW g, NEW n \in DOMAIN h, NEW k \in DOMAIN h \cup {NULL},
         \A s \in Sides : h[n][s] \in {k, NULL},
         k # NULL => h[k].up = n,
         IsSpliced(h, g, n, k)
  PROVE  Tree(g) /\ \A c \in DOMAIN g : Under(g, c) \subseteq Under(h, c)
<1> USE DEF IsSpliced
<1>1. /\ n # NULL /\ NULL \notin DOMAIN h /\ k # n
      /\ h[n].up # n /\ \A s \in Sides : h[n][s] # n
  <2>1. h[n].up # n
    <3>1. {n} \in SUBSET DOMAIN h /\ {n} # {}
      OBVIOUS
    <3>2. QED
      BY <3>1 DEF Tree
  <2>2. QED
    BY <2>1 DEF Tree
<1>2. IsFiniteSet(DOMAIN g) /\ NULL \notin DOMAIN g
  BY FS_RemoveElement DEF Tree
<1>3. ASSUME NEW m \in DOMAIN g
      PROVE  /\ g[m].up = NULL \/ (g[m].up \in DOMAIN g /\ \E s \in Sides : g[g[m].up][s] = m)
             /\ \A s \in Sides : g[m][s] = NULL \/ (g[m][s] \in DOMAIN g /\ g[g[m][s]].up = m)
             /\ g[m]["l"] = g[m]["r"] => g[m]["l"] = NULL
  <2>1. g[m].up = NULL \/ (g[m].up \in DOMAIN g /\ \E s \in Sides : g[g[m].up][s] = m)
    <3>1. SUFFICES ASSUME g[m].up # NULL PROVE g[m].up \in DOMAIN g /\ \E s \in Sides : g[g[m].up][s] = m
      OBVIOUS
    <3>2. CASE m = k
      <4>1. PICK s \in Sides : h[n].up \in DOMAIN h /\ h[h[n].up][s] = n
        BY <3>1, <3>2 DEF Tree
      <4>2. h[n].up \in DOMAIN g /\ g[h[n].up][s] = k
        BY <1>1, <4>1
      <4>3. QED
        BY <3>2, <4>2
    <3>3. CASE m # k
      <4>1. g[m].up = h[m].up /\ m \in DOMAIN h /\ m # n
        BY <3>3
      <4>2. PICK s \in Sides : h[m].up \in DOMAIN h /\ h[h[m].up][s] = m
        BY <3>1, <4>1 DEF Tree
      <4>3. h[m].up # n
        BY <1>1, <3>3, <4>1, <4>2
      <4>4. QED
        BY <4>1, <4>2, <4>3
    <3>4. QED
      BY <3>2, <3>3
  <2>2. ASSUME NEW s \in Sides, g[m][s] # NULL
        PROVE  g[m][s] \in DOMAIN g /\ g[g[m][s]].up = m
    <3>1. m \in DOMAIN h /\ m # n
      OBVIOUS
    <3>2. CASE h[m][s] = n
      <4>1. h[n].up = m
        BY <1>1, <3>1, <3>2 DEF Tree
      <4>2. QED
        BY <1>1, <2>2, <3>2, <4>1
    <3>3. CASE h[m][s] # n
      <4>1. g[m][s] = h[m][s] /\ h[m][s] \in DOMAIN h /\ h[h[m][s]].up = m
        BY <2>2, <3>1, <3>3 DEF Tree
      <4>2. h[m][s] # k
        BY <1>1, <3>1, <4>1
      <4>3. QED
        BY <3>3, <4>1, <4>2
    <3>4. QED
      BY <3>2, <3>3
  <2>3. g[m]["l"] = g[m]["r"] => g[m]["l"] = NULL
    <3>1. /\ "l" \in Sides /\ "r" \in Sides /\ m \in DOMAIN h /\ m # n
          /\ (h[m]["l"] = h[m]["r"] => h[m]["l"] = NULL)
      BY DEF Tree, Sides
    <3>2. k # NULL => \A s \in Sides : h[m][s] # k
      BY <1>1, <3>1 DEF Tree
    <3>3. QED
      BY <1>1, <3>1, <3>2
  <2>4. QED
    BY <2>1, <2>2, <2>3
<1>4. ASSUME NEW S \in SUBSET DOMAIN g, S # {} PROVE \E m \in S : g[m].up \notin S
  <2>1. SUFFICES ASSUME \A m \in S : g[m].up \in S PROVE FALSE
    OBVIOUS
  <2>2. CASE k \notin S
    <3>1. \A m \in S : h[m].up \in S
      BY <2>1, <2>2
    <3>2. S \in SUBSET DOMAIN h
      OBVIOUS
    <3>3. QED
      BY <1>4, <3>1, <3>2 DEF Tree
  <2>3. CASE k \in S
    <3>1. k # NULL /\ h[n].up \in S
      BY <1>2, <2>1, <2>3
    <3>2. \A m \in S \cup {n} : h[m].up \in S \cup {n}
      BY <2>1, <3>1
    <3>3. S \cup {n} \in SUBSET DOMAIN h /\ S \cup {n} # {}
      OBVIOUS
    <3>4. QED
      BY <3>2, <3>3 DEF Tree
  <2>4. QED
    BY <2>2, <2>3
<1>5. Tree(g)
  BY <1>2, <1>3, <1>4 DEF Tree
<1>6. ASSUME NEW c \in DOMAIN g PROVE Under(g, c) \subseteq Under(h, c)
  <2> DEFINE C == Under(h, c) \ {n}
  <2>1. C \in SUBSET DOMAIN g /\ c \in C /\ Closed(h, Under(h, c))
    BY UnderFacts
  <2>2. Closed(g, C)
    <3>1. SUFFICES ASSUME NEW m \in C, NEW s \in Sides, g[m][s] # NULL PROVE g[m][s] \in C
      BY DEF Closed
    <3>2. CASE h[m][s] = n
      <4>1. n \in Under(h, c)
        BY <1>1, <2>1, <3>2 DEF Closed
      <4>2. PICK t \in Sides : h[n][t] = k
        BY <2>1, <3>1, <3>2 DEF Tree, Sides
      <4>3. k \in Under(h, c)
        BY <2>1, <3>1, <3>2, <4>1, <4>2 DEF Closed
      <4>4. QED
        BY <1>1, <2>1, <3>2, <4>3
    <3>3. CASE h[m][s] # n
      BY <2>1, <3>1, <3>3 DEF Closed
    <3>4. QED
      BY <3>2, <3>3
  <2>3. QED
    BY <1>5, <2>1, <2>2, UnderFacts
<1>7. QED
  BY <1>5, <1>6

\* It stays a search tree when the new node is on the right side of all the
\* nodes above it.
LEMMA AttachedSorted ==
  ASSUME NEW h, Tree(h), NEW g, NEW n, NEW p \in DOMAIN h \cup {NULL}, NEW t \in Sides,
         IsAttached(h, g, n, p, t),
         NEW rank, Sorted(h, rank),
         \A m \in DOMAIN h, s \in Sides :
           h[m][s] # NULL /\ p \in Under(h, h[m][s]) => Beyond(s, rank[m], rank[n]),
         p # NULL => Beyond(t, rank[p], rank[n])
  PROVE  Sorted(g, rank)
<1> SUFFICES ASSUME NEW m \in DOMAIN g, NEW s \in Sides, g[m][s] # NULL,
                    NEW x \in Under(g, g[m][s])
             PROVE  Beyond(s, rank[m], rank[x])
  BY DEF Sorted
<1>1. m \in DOMAIN h /\ g[m][s] = IF m = p /\ s = t THEN n ELSE h[m][s]
  BY DEF IsAttached, Sides
<1>2. CASE m = p /\ s = t
  <2>1. x = n
    BY <1>1, <1>2, Attached
  <2>2. QED
    BY <1>1, <1>2, <2>1 DEF Tree
<1>3. CASE ~(m = p /\ s = t)
  <2>1. g[m][s] = h[m][s] /\ h[m][s] \in DOMAIN h
    BY <1>1, <1>3 DEF Tree
  <2>2. CASE x = n
    BY <1>1, <2>1, <2>2, Attached
  <2>3. CASE x # n
    <3>1. \A c \in DOMAIN h : Under(g, c) \subseteq Under(h, c) \cup {n}
      BY Attached
    <3>2. x \in Under(h, h[m][s])
      BY <2>1, <2>3, <3>1
    <3>3. QED
      BY <1>1, <2>1, <3>2 DEF Sorted
  <2>4. QED
    BY <2>2, <2>3
<1>4. QED
  BY <1>2, <1>3

\* The order is kept but for n, which has what is hung to e on the wrong side.
LEMMA RehungSorted ==
  ASSUME NEW h, Tree(h), NEW g, NEW n \in DOMAIN h, NEW b \in Sides,
         NEW o, o = h[n][b], o # NULL,
         NEW k, k = h[n][Other(b)], k # NULL,
         NEW e \in Under(h, k), IsRehung(h, g, n, b, o, e),
         NEW rank, Sorted(h, rank), \A m \in DOMAIN h : rank[m] \in Int,
         \A y \in Under(h, k) \ {e} : Beyond(b, rank[y], rank[e]),
         NEW m \in DOMAIN h \ {n}, NEW s \in Sides, g[m][s] # NULL,
         NEW x \in Under(g, g[m][s])
  PROVE  Beyond(s, rank[m], rank[x])
<1>1. /\ Other(b) \in Sides /\ Other(b) # b
      /\ o \in DOMAIN h /\ k \in DOMAIN h /\ h[o].up = n /\ h[k].up = n
      /\ e \in DOMAIN h /\ NULL \notin DOMAIN h
  BY UnderUnder DEF Tree, Sides, Other
<1>2. n \notin Under(h, k) /\ k \notin Under(h, o) /\ o \notin Under(h, k)
  <2>1. n \notin Under(h, k) /\ n \notin Under(h, o)
    BY <1>1, NotUnderChild
  <2>2. k # o
    BY <1>1 DEF Tree, Sides, Other
  <2>3. QED
    BY <1>1, <2>1, <2>2, ParentUnder
<1>3. e \notin Under(h, o)
  BY <1>1, <1>2, Comparable
<1>4. \A y \in Under(h, o) : y \in DOMAIN h /\ Beyond(b, rank[n], rank[y])
  BY <1>1, UnderUnder DEF Sorted
<1>5. \A y \in Under(h, k) : y \in DOMAIN h /\ Beyond(Other(b), rank[n], rank[y])
  BY <1>1, UnderUnder DEF Sorted
<1>6. \A y \in Under(h, k), z \in Under(h, o) : Beyond(b, rank[y], rank[z])
  <2> SUFFICES ASSUME NEW y \in Under(h, k), NEW z \in Under(h, o)
               PROVE  Beyond(b, rank[y], rank[z])
    OBVIOUS
  <2>1. rank[y] \in Int /\ rank[z] \in Int /\ rank[n] \in Int
    BY <1>4, <1>5
  <2>2. Beyond(b, rank[n], rank[z]) /\ Beyond(Other(b), rank[n], rank[y])
    BY <1>4, <1>5
  <2>3. QED
    BY <2>1, <2>2 DEF Beyond, Sides, Other
<1>7. CASE m = e /\ s = b
  <2>1. g[m][s] = o
    BY <1>1, <1>2, <1>7 DEF IsRehung
  <2>2. x \in Under(h, o)
    BY <1>1, <1>3, <2>1, Rehung
  <2>3. QED
    BY <1>6, <1>7, <2>2
<1>8. CASE ~(m = e /\ s = b)
  <2> DEFINE c == h[m][s]
  <2>1. g[m][s] = c /\ c \in DOMAIN h /\ c # NULL /\ h[c].up = m
    BY <1>8 DEF IsRehung, Tree
  <2>2. CASE x \in Under(h, c)
    BY <2>1, <2>2 DEF Sorted
  <2>3. CASE x \notin Under(h, c)
    <3>1. x \in Under(h, o) /\ e \in Under(h, c)
      BY <2>1, <2>3, Rehung
    <3>2. n \notin Under(h, c)
      <4>1. SUFFICES ASSUME n \in Under(h, c) PROVE FALSE
        OBVIOUS
      <4>2. o \in Under(h, c)
        BY <2>1, <4>1, UnderFacts DEF Closed
      <4>3. QED
        BY <2>1, <2>3, <3>1, <4>2, UnderUnder
    <3>3. c # k
      BY <1>1, <2>1
    <3>4. k \notin Under(h, c)
      BY <1>1, <2>1, <3>2, <3>3, ParentUnder
    <3>5. c \in Under(h, k)
      BY <1>1, <2>1, <3>1, <3>4, Comparable
    <3>6. m \in Under(h, k)
      BY <1>1, <2>1, <3>3, <3>5, ParentUnder
    <3>7. m # e
      BY <2>1, <3>1, NotUnderChild
    <3>8. Beyond(b, rank[m], rank[e]) /\ Beyond(s, rank[m], rank[e])
      BY <2>1, <3>1, <3>6, <3>7 DEF Sorted
    <3>9. s = b
      BY <1>1, <3>8 DEF Beyond, Sides
    <3>10. QED
      BY <1>6, <3>1, <3>6, <3>9
  <2>4. QED
    BY <2>2, <2>3
<1>9. QED
  BY <1>7, <1>8

\* Taking out n brings the order back: it was n alone that had lost it.
LEMMA SplicedSorted ==
  ASSUME NEW h, Tree(h), NEW g, NEW n \in DOMAIN h, NEW k \in DOMAIN h \cup {NULL},
         \A s \in Sides : h[n][s] \in {k, NULL},
         k # NULL => h[k].up = n,
         IsSpliced(h, g, n, k),
         NEW rank,
         \A m \in DOMAIN h \ {n}, s \in Sides : h[m][s] # NULL =>
           \A x \in Under(h, h[m][s]) : Beyond(s, rank[m], rank[x])
  PROVE  Sorted(g, rank)
<1> SUFFICES ASSUME NEW m \in DOMAIN g, NEW s \in Sides, g[m][s] # NULL,
                    NEW x \in Under(g, g[m][s])
             PROVE  Beyond(s, rank[m], rank[x])
  BY DEF Sorted
<1>1. /\ m \in DOMAIN h \ {n} /\ g[m][s] = IF h[m][s] = n THEN k ELSE h[m][s]
      /\ g[m][s] \in DOMAIN g /\ n # NULL
  <2>1. Tree(g)
    BY Spliced
  <2>2. QED
    BY <2>1 DEF IsSpliced, Tree
<1>2. x \in Under(h, g[m][s])
  BY <1>1, Spliced
<1>3. h[m][s] # NULL /\ Under(h, g[m][s]) \subseteq Under(h, h[m][s])
  <2>1. CASE h[m][s] = n
    <3>1. k # NULL /\ \E t \in Sides : h[n][t] = k
      BY <1>1, <2>1 DEF Tree
    <3>2. k \in Under(h, n)
      BY <3>1, UnderFacts DEF Closed
    <3>3. QED
      BY <1>1, <2>1, <3>2, UnderUnder
  <2>2. CASE h[m][s] # n
    BY <1>1, <2>2
  <2>3. QED
    BY <2>1, <2>2
<1>4. QED
  BY <1>1, <1>2, <1>3

-----------------------------------------------------------------------------
(***************************************************************************)
(* The loops of add, get and remove.                                       *)
(***************************************************************************)
\* A loop from node to node has a result for each node: the CHOOSE of its
\* recursive definition has a function to choose.
LEMMA WalkExists ==
  ASSUME NEW D, NULL \notin D, NEW next \in [D -> D \cup {NULL}]
  PROVE  \E f : f = [m \in D |-> IF next[m] = NULL THEN m ELSE f[next[m]]]
<1> DEFINE Follows(C) == \A x \in C : next[x] = NULL \/ next[x] \in C
           Ends(m) == {e \in D : /\ next[e] = NULL
                                 /\ \A C \in SUBSET D : m \in C /\ Follows(C) => e \in C}
           f == [m \in D |-> CHOOSE e : e \in Ends(m)]
<1>1. ASSUME NEW m \in D, next[m] = NULL PROVE f[m] = m
  <2>1. {m} \in SUBSET D /\ Follows({m})
    BY <1>1
  <2>2. Ends(m) = {m}
    BY <1>1, <2>1
  <2>3. QED
    BY <2>2
<1>2. ASSUME NEW m \in D, next[m] # NULL PROVE f[m] = f[next[m]]
  <2>1. next[m] \in D
    BY <1>2
  <2>2. ASSUME NEW e \in Ends(m) PROVE e \in Ends(next[m])
    <3>1. ASSUME NEW C \in SUBSET D, next[m] \in C, Follows(C) PROVE e \in C
      <4>1. C \cup {m} \in SUBSET D /\ Follows(C \cup {m})
        BY <3>1
      <4>2. e \in C \cup {m}
        BY <4>1
      <4>3. QED
        BY <1>2, <4>2
    <3>2. QED
      BY <3>1
  <2>3. ASSUME NEW e \in Ends(next[m]) PROVE e \in Ends(m)
    BY <1>2
  <2>4. Ends(m) = Ends(next[m])
    BY <2>2, <2>3
  <2>5. QED
    BY <2>1, <2>4
<1>3. ASSUME NEW m \in D PROVE f[m] = IF next[m] = NULL THEN m ELSE f[next[m]]
  <2> HIDE DEF f
  <2>1. QED
    BY <1>1, <1>2
<1>4. f = [m \in D |-> IF next[m] = NULL THEN m ELSE f[next[m]]]
  <2>1. f = [m \in D |-> f[m]]
    OBVIOUS
  <2> HIDE DEF f
  <2>2. QED
    BY <1>3, <2>1
<1>5. QED
  BY <1>4

\* The memory of the caller has contents in it.
Memory == mem \in [Cells -> Data]

\* The difference of two contents has the sign of their order.
LEMMA Compares ==
  ASSUME Memory, NEW a \in Variants, NEW b \in Variants
  PROVE  /\ Content(a) \in Data /\ Content(a) \in Int
         /\ as_smpp_variant_compare(a, b) = 0 <=> Content(a) = Content(b)
         /\ as_smpp_variant_compare(a, b) > 0 <=> Content(a) > Content(b)
<1>1. ASSUME NEW v \in Variants PROVE Content(v) \in Data /\ Content(v) \in Int
  BY MapAssumption DEF Variants, Content, Memory, MapAssumption
<1>2. QED
  BY <1>1 DEF as_smpp_variant_compare

\* The search stops at node m.
Stops(m, k) == as_smpp_variant_compare(heap[m].key, k) = 0 \/ heap[m][Side(m, k)] = NULL

\* A search goes to one of the two sides.
LEMMA SideOf == \A m, k : Side(m, k) \in Sides
  BY DEF Side, Sides

\* The search stops at n or goes on from the child on the side of k.
LEMMA SearchStep ==
  ASSUME Tree(heap), NEW k, NEW n \in DOMAIN heap
  PROVE  SearchEnd(n, k) = IF Stops(n, k) THEN n ELSE SearchEnd(heap[n][Side(n, k)], k)
<1> DEFINE E(end) == end = [m \in DOMAIN heap |->
                             IF \/ as_smpp_variant_compare(heap[m].key, k) = 0
                                \/ heap[m][Side(m, k)] = NULL
                             THEN m ELSE end[heap[m][Side(m, k)]]]
           next == [m \in DOMAIN heap |-> IF Stops(m, k) THEN NULL ELSE heap[m][Side(m, k)]]
<1>1. next \in [DOMAIN heap -> DOMAIN heap \cup {NULL}] /\ NULL \notin DOMAIN heap
  BY SideOf DEF Tree, Stops
<1>2. PICK f : f = [m \in DOMAIN heap |-> IF next[m] = NULL THEN m ELSE f[next[m]]]
  <2> HIDE DEF next
  <2>1. QED
    BY <1>1, WalkExists
<1>3. E(f)
  <2>1. \A m \in DOMAIN heap : (IF next[m] = NULL THEN m ELSE f[next[m]])
                                = IF Stops(m, k) THEN m ELSE f[heap[m][Side(m, k)]]
    BY <1>1 DEF Stops
  <2>2. f = [m \in DOMAIN heap |-> IF Stops(m, k) THEN m ELSE f[heap[m][Side(m, k)]]]
    BY <1>2, <2>1
  <2>3. QED
    BY <2>2 DEF Stops
<1>4. E(CHOOSE end : E(end))
  BY <1>3
<1>5. \A x : SearchEnd(x, k) = (CHOOSE end : E(end))[x]
  BY DEF SearchEnd
<1>6. QED
  BY <1>4, <1>5 DEF Stops

\* The walk to one side stops at n or goes on from the child on that side.
LEMMA LastStep ==
  ASSUME Tree(heap), NEW s \in Sides, NEW n \in DOMAIN heap
  PROVE  LastOn(s, n) = IF heap[n][s] = NULL THEN n ELSE LastOn(s, heap[n][s])
<1> DEFINE E(last) == last = [m \in DOMAIN heap |-> IF heap[m][s] = NULL THEN m ELSE last[heap[m][s]]]
           next == [m \in DOMAIN heap |-> heap[m][s]]
<1>1. next \in [DOMAIN heap -> DOMAIN heap \cup {NULL}] /\ NULL \notin DOMAIN heap
  BY DEF Tree
<1>2. PICK f : f = [m \in DOMAIN heap |-> IF next[m] = NULL THEN m ELSE f[next[m]]]
  <2> HIDE DEF next
  <2>1. QED
    BY <1>1, WalkExists
<1>3. E(f)
  BY <1>2
<1>4. E(CHOOSE last : E(last))
  BY <1>3
<1>5. \A x : LastOn(s, x) = (CHOOSE last : E(last))[x]
  BY DEF LastOn
<1>6. QED
  BY <1>4, <1>5

\* The place of a node in the order is the content of its key.
Rank(n) == Content(heap[n].key)

Ranks == [n \in DOMAIN heap |-> Rank(n)]

\* The keys are variants.
KeyTypes == \A n \in DOMAIN heap : heap[n].key \in Variants

\* The search ends under the node where it starts, and has a reason to end.
LEMMA SearchStays ==
  ASSUME Tree(heap), NEW k, NEW n \in DOMAIN heap
  PROVE  SearchEnd(n, k) \in Under(heap, n) /\ Stops(SearchEnd(n, k), k)
<1> DEFINE Bad == {m \in DOMAIN heap : ~(SearchEnd(m, k) \in Under(heap, m) /\ Stops(SearchEnd(m, k), k))}
<1>1. SUFFICES ASSUME Bad # {} PROVE FALSE
  OBVIOUS
<1>2. PICK m \in Bad : \A s \in Sides : heap[m][s] \notin Bad
  <2> HIDE DEF Bad
  <2>1. Bad \in SUBSET DOMAIN heap
    BY DEF Bad
  <2>2. QED
    BY <1>1, <2>1, WayDownEnds
<1>3. CASE Stops(m, k)
  BY <1>2, <1>3, SearchStep, UnderFacts
<1>4. CASE ~Stops(m, k)
  <2> DEFINE c == heap[m][Side(m, k)]
  <2>1. /\ Side(m, k) \in Sides /\ c # NULL /\ c \in DOMAIN heap /\ c \notin Bad
        /\ SearchEnd(m, k) = SearchEnd(c, k)
    BY <1>2, <1>4, SideOf, SearchStep DEF Stops, Tree
  <2>2. c \in Under(heap, m)
    BY <2>1, UnderFacts DEF Closed
  <2>3. QED
    BY <1>2, <2>1, <2>2, UnderUnder
<1>5. QED
  BY <1>3, <1>4

\* The search for k passes a node on the side of k.
LEMMA SearchPasses ==
  ASSUME Tree(heap), Memory, KeyTypes, NEW k \in Variants,
         NEW n \in DOMAIN heap, NEW a \in Under(heap, n), NEW s \in Sides,
         heap[a][s] # NULL, SearchEnd(n, k) \in Under(heap, heap[a][s])
  PROVE  Beyond(s, Rank(a), Content(k))
<1> DEFINE Passes(m) == a \in Under(heap, m) /\ SearchEnd(m, k) \in Under(heap, heap[a][s])
           Bad == {m \in DOMAIN heap : Passes(m)}
<1>1. SUFFICES ASSUME ~Beyond(s, Rank(a), Content(k)) PROVE FALSE
  OBVIOUS
<1>2. PICK m \in Bad : \A t \in Sides : heap[m][t] \notin Bad
  <2>1. n \in Bad
    OBVIOUS
  <2> HIDE DEF Bad
  <2>2. Bad \in SUBSET DOMAIN heap
    BY DEF Bad
  <2>3. QED
    BY <2>1, <2>2, WayDownEnds
<1>3. a \in DOMAIN heap /\ heap[a][s] \in DOMAIN heap /\ a \notin Under(heap, heap[a][s])
  BY NotUnderChild, UnderUnder
<1>4. CASE Stops(m, k)
  <2>1. m \in Under(heap, heap[a][s]) /\ a \in Under(heap, m)
    BY <1>2, <1>4, SearchStep
  <2>2. QED
    BY <1>3, <2>1, UnderUnder
<1>5. CASE ~Stops(m, k)
  <2> DEFINE t == Side(m, k)
             c == heap[m][t]
  <2>1. /\ t \in Sides /\ c # NULL /\ c \in DOMAIN heap /\ m \in DOMAIN heap
        /\ SearchEnd(m, k) = SearchEnd(c, k) /\ SearchEnd(m, k) \in Under(heap, c)
    BY <1>2, <1>5, SideOf, SearchStep, SearchStays DEF Stops, Tree
  <2>2. SearchEnd(m, k) \in Under(heap, heap[a][s]) /\ a \in Under(heap, m)
    BY <1>2
  <2>3. CASE a = m
    <3>1. s = t
      <4>1. SUFFICES ASSUME s # t PROVE FALSE
        OBVIOUS
      <4>2. Under(heap, heap[m]["l"]) \cap Under(heap, heap[m]["r"]) = {}
        BY <2>1, <2>3, <4>1, SidesDisjoint DEF Sides
      <4>3. QED
        BY <2>1, <2>2, <2>3, <4>1, <4>2 DEF Sides
    <3>2. /\ as_smpp_variant_compare(heap[m].key, k) # 0
          /\ t = IF as_smpp_variant_compare(heap[m].key, k) > 0 THEN "r" ELSE "l"
      BY <1>5 DEF Stops, Side
    <3>3. heap[m].key \in Variants /\ Rank(m) = Content(heap[m].key)
      BY <2>1 DEF KeyTypes, Rank
    <3>4. Beyond(t, Rank(m), Content(k))
      BY <3>2, <3>3, Compares DEF Beyond
    <3>5. QED
      BY <1>1, <2>3, <3>1, <3>4
  <2>4. CASE a # m
    <3>1. PICK u \in Sides : heap[m][u] \in DOMAIN heap /\ a \in Under(heap, heap[m][u])
      BY <2>1, <2>2, <2>4, UnderChild
    <3>2. u = t
      <4>1. SUFFICES ASSUME u # t PROVE FALSE
        OBVIOUS
      <4>2. heap[m][u] # NULL
        BY <3>1 DEF Tree
      <4>3. Under(heap, heap[m]["l"]) \cap Under(heap, heap[m]["r"]) = {}
        BY <2>1, <4>1, <4>2, SidesDisjoint DEF Sides
      <4>4. heap[a][s] \in Under(heap, heap[m][u])
        BY <1>3, <3>1, UnderFacts DEF Closed
      <4>5. SearchEnd(m, k) \in Under(heap, heap[m][u])
        BY <2>2, <3>1, <4>4, UnderUnder
      <4>6. QED
        BY <2>1, <4>1, <4>3, <4>5 DEF Sides
    <3>3. c \in Bad
      BY <2>1, <2>2, <3>1, <3>2
    <3>4. QED
      BY <1>2, <2>1, <3>3
  <2>5. QED
    BY <2>3, <2>4
<1>6. QED
  BY <1>4, <1>5

\* In a search tree it finds what is there.
LEMMA SearchFinds ==
  ASSUME Tree(heap), Memory, KeyTypes, Sorted(heap, Ranks), NEW k \in Variants,
         NEW n \in DOMAIN heap, NEW x \in Under(heap, n), Rank(x) = Content(k)
  PROVE  as_smpp_variant_compare(heap[SearchEnd(n, k)].key, k) = 0
<1> DEFINE Bad == {m \in DOMAIN heap : /\ x \in Under(heap, m)
                                       /\ as_smpp_variant_compare(heap[SearchEnd(m, k)].key, k) # 0}
<1>1. SUFFICES ASSUME n \in Bad PROVE FALSE
  OBVIOUS
<1>2. PICK m \in Bad : \A t \in Sides : heap[m][t] \notin Bad
  <2> HIDE DEF Bad
  <2>1. Bad \in SUBSET DOMAIN heap
    BY DEF Bad
  <2>2. QED
    BY <1>1, <2>1, WayDownEnds
<1>3. m \in DOMAIN heap /\ x \in Under(heap, m) /\ x \in DOMAIN heap
      /\ heap[m].key \in Variants /\ Rank(m) = Content(heap[m].key)
  BY <1>2, UnderUnder DEF KeyTypes, Rank
<1>4. CASE as_smpp_variant_compare(heap[m].key, k) = 0
  BY <1>2, <1>3, <1>4, SearchStep DEF Stops
<1>5. CASE as_smpp_variant_compare(heap[m].key, k) # 0
  <2>1. x # m
    BY <1>3, <1>5, Compares
  <2>2. PICK u \in Sides : heap[m][u] \in DOMAIN heap /\ x \in Under(heap, heap[m][u])
    BY <1>3, <2>1, UnderChild
  <2>3. heap[m][u] # NULL /\ Beyond(u, Rank(m), Rank(x))
    BY <1>3, <2>2 DEF Sorted, Ranks, Tree
  <2>4. u = Side(m, k)
    <3>1. Content(k) \in Int /\ Rank(m) \in Int
          /\ (as_smpp_variant_compare(heap[m].key, k) > 0 <=> Rank(m) > Content(k))
      BY <1>3, Compares
    <3>2. QED
      BY <2>3, <3>1 DEF Beyond, Side, Sides
  <2>5. SearchEnd(m, k) = SearchEnd(heap[m][u], k)
    BY <1>3, <1>5, <2>3, <2>4, SearchStep DEF Stops
  <2>6. heap[m][u] \in Bad
    BY <1>2, <2>2, <2>5
  <2>7. QED
    BY <1>2, <2>6
<1>6. QED
  BY <1>4, <1>5

\* The last node on a side has none on that side, and is the extreme one.
LEMMA LastIsExtreme ==
  ASSUME Tree(heap), NEW s \in Sides, NEW n \in DOMAIN heap
  PROVE  /\ LastOn(s, n) \in Under(heap, n)
         /\ heap[LastOn(s, n)][s] = NULL
         /\ Sorted(heap, Ranks) /\ Memory /\ KeyTypes =>
              \A y \in Under(heap, n) \ {LastOn(s, n)} : Beyond(s, Rank(y), Rank(LastOn(s, n)))
<1> DEFINE Extreme(m, e) ==
             Sorted(heap, Ranks) /\ Memory /\ KeyTypes =>
               \A y \in Under(heap, m) \ {e} : Beyond(s, Rank(y), Rank(e))
           Good(m) == /\ LastOn(s, m) \in Under(heap, m)
                      /\ heap[LastOn(s, m)][s] = NULL
                      /\ Extreme(m, LastOn(s, m))
           Bad == {m \in DOMAIN heap : ~Good(m)}
<1>1. SUFFICES ASSUME Bad # {} PROVE FALSE
  OBVIOUS
<1>2. PICK m \in Bad : \A t \in Sides : heap[m][t] \notin Bad
  <2> HIDE DEF Bad
  <2>1. Bad \in SUBSET DOMAIN heap
    BY DEF Bad
  <2>2. QED
    BY <1>1, <2>1, WayDownEnds
<1>3. ASSUME Sorted(heap, Ranks), Memory, KeyTypes,
             NEW y \in Under(heap, m), y # m
      PROVE  \E u \in Sides : /\ heap[m][u] \in DOMAIN heap /\ y \in Under(heap, heap[m][u])
                              /\ Beyond(u, Rank(m), Rank(y))
  <2>1. PICK u \in Sides : heap[m][u] \in DOMAIN heap /\ y \in Under(heap, heap[m][u])
    BY <1>2, <1>3, UnderChild
  <2>2. y \in DOMAIN heap /\ heap[m][u] # NULL
    BY <1>2, <2>1, UnderUnder DEF Tree
  <2>3. Beyond(u, Rank(m), Rank(y))
    BY <1>2, <1>3, <2>1, <2>2 DEF Sorted, Ranks
  <2>4. QED
    BY <2>1, <2>3
<1>4. ASSUME Memory, KeyTypes PROVE \A y \in DOMAIN heap : Rank(y) \in Int
  BY <1>4, Compares DEF KeyTypes, Rank
<1>5. CASE heap[m][s] = NULL
  <2>1. LastOn(s, m) = m /\ m \in Under(heap, m)
    BY <1>2, <1>5, LastStep, UnderFacts
  <2>2. ASSUME Sorted(heap, Ranks), Memory, KeyTypes, NEW y \in Under(heap, m), y # m
        PROVE  Beyond(s, Rank(y), Rank(m))
    <3>1. PICK u \in Sides : /\ heap[m][u] \in DOMAIN heap /\ y \in Under(heap, heap[m][u])
                            /\ Beyond(u, Rank(m), Rank(y))
      BY <1>3, <2>2
    <3>2. u # s
      BY <1>5, <3>1 DEF Tree
    <3>3. m \in DOMAIN heap /\ y \in DOMAIN heap
      BY <1>2, UnderUnder
    <3>4. QED
      BY <1>4, <2>2, <3>1, <3>2, <3>3 DEF Beyond, Sides
  <2>3. Extreme(m, m)
    BY <2>2
  <2>4. QED
    BY <1>2, <1>5, <2>1, <2>3
<1>6. CASE heap[m][s] # NULL
  <2> DEFINE c == heap[m][s]
             e == LastOn(s, c)
  <2>1. m \in DOMAIN heap /\ c \in DOMAIN heap /\ LastOn(s, m) = e
    BY <1>2, <1>6, LastStep DEF Tree
  <2>2. e \in Under(heap, c) /\ heap[e][s] = NULL /\ Extreme(c, e)
    BY <1>2, <2>1
  <2>3. e \in Under(heap, m) /\ e \in DOMAIN heap
    <3>1. c \in Under(heap, m)
      BY <1>6, <2>1, UnderFacts DEF Closed
    <3>2. QED
      BY <2>1, <2>2, <3>1, UnderUnder
  <2> HIDE DEF c, e
  <2>4. ASSUME Sorted(heap, Ranks), Memory, KeyTypes, NEW y \in Under(heap, m), y # e
        PROVE  Beyond(s, Rank(y), Rank(e))
    <3>1. Beyond(s, Rank(m), Rank(e))
      BY <1>6, <2>1, <2>2, <2>3, <2>4 DEF Sorted, Ranks, c
    <3>2. CASE y = m
      BY <3>1, <3>2
    <3>3. CASE y # m
      <4>1. PICK u \in Sides : /\ heap[m][u] \in DOMAIN heap /\ y \in Under(heap, heap[m][u])
                              /\ Beyond(u, Rank(m), Rank(y))
        BY <1>3, <2>4, <3>3
      <4>2. CASE u = s
        BY <2>2, <2>4, <4>1, <4>2 DEF c
      <4>3. CASE u # s
        <5>1. y \in DOMAIN heap /\ Rank(y) \in Int /\ Rank(m) \in Int /\ Rank(e) \in Int
          BY <1>4, <2>1, <2>3, <2>4, UnderUnder
        <5>2. QED
          BY <3>1, <4>1, <4>3, <5>1 DEF Beyond, Sides
      <4>4. QED
        BY <4>2, <4>3
    <3>4. QED
      BY <3>2, <3>3
  <2>5. Extreme(m, e)
    BY <2>4
  <2>6. QED
    BY <1>2, <2>1, <2>2, <2>3, <2>5
<1>7. QED
  BY <1>5, <1>6

-----------------------------------------------------------------------------
(***************************************************************************)
(* The invariant.                                                          *)
(***************************************************************************)
\* A heap of nodes with links to L.
Fields == {"key", "value", "up", "r", "l", "keyHash"}

Node(Link) ==
  [key : Variants, value : Variants, up : Link, r : Link, l : Link, keyHash : 0..255]

HeapOf(L, h) == \A m \in DOMAIN h : h[m] \in Node(L)

\* The hashes that occur.
Hashes == {Hash[d] : d \in Data}

\* The types of the variables.
Types ==
  /\ nodes \in [Hashes -> DOMAIN heap \cup {NULL}]
  /\ DOMAIN heap \subseteq Nodes
  /\ HeapOf(DOMAIN heap \cup {NULL}, heap)
  /\ Memory

\* Each tree hangs under its hash.
Hung(h, roots) ==
  /\ \A m \in DOMAIN h :
       /\ h[m].keyHash \in Hashes
       /\ IF h[m].up = NULL THEN roots[h[m].keyHash] = m
          ELSE h[h[m].up].keyHash = h[m].keyHash
  /\ \A g \in Hashes : roots[g] # NULL => h[roots[g]].up = NULL /\ h[roots[g]].keyHash = g

\* The content of v when the caller's memory is m.
ContentIn(m, v) == IF v.type = "PTR" THEN m[v.value] ELSE v.value

\* The order of the nodes when the caller's memory is m.
RanksIn(h, m) == [n \in DOMAIN h |-> ContentIn(m, h[n].key)]

\* The trees are search trees for the contents of the keys.
Searchable(h, m) ==
  /\ Sorted(h, RanksIn(h, m))
  /\ \A n \in DOMAIN h : h[n].keyHash = Hash[ContentIn(m, h[n].key)]

\* The inductive invariant.
Inv ==
  /\ Types
  /\ Tree(heap)
  /\ Hung(heap, nodes)
  /\ KeepsMemory => Searchable(heap, mem)

\* The contents of the model and those of a named memory.
LEMMA ContentIs ==
  /\ \A v : Content(v) = ContentIn(mem, v)
  /\ Ranks = RanksIn(heap, mem)
  BY DEF Content, ContentIn, Ranks, RanksIn, Rank

\* The keys of the nodes are variants.
LEMMA KeyTyped == Types => KeyTypes
  BY DEF Types, HeapOf, Node, KeyTypes

\* A pointer of a node is stored.
Store(h, n, f, v) == [h EXCEPT ![n][f] = v]

\* Of a heap h only field f of n is another in g, and g is a heap.
IsStored(L, h, g, n, f, v) ==
  /\ DOMAIN g = DOMAIN h
  /\ HeapOf(L, g)
  /\ \A m \in DOMAIN h, ff \in Fields : g[m][ff] = IF m = n /\ ff = f THEN v ELSE h[m][ff]

\* Storing a pointer in a field of a live node does just that.
LEMMA Stored ==
  ASSUME NEW L, NEW h, HeapOf(L, h), NEW n \in DOMAIN h, NEW f \in {"up", "l", "r"}, NEW v \in L
  PROVE  IsStored(L, h, Store(h, n, f, v), n, f, v)
<1> DEFINE g == Store(h, n, f, v)
<1>1. DOMAIN g = DOMAIN h /\ \A m \in DOMAIN h : g[m] = IF m = n THEN [h[n] EXCEPT ![f] = v] ELSE h[m]
  BY DEF Store
<1>2. h[n] \in Node(L)
  BY DEF HeapOf
<1>3. /\ [h[n] EXCEPT ![f] = v] \in Node(L)
      /\ \A ff \in Fields : [h[n] EXCEPT ![f] = v][ff] = IF ff = f THEN v ELSE h[n][ff]
  <2>1. CASE f = "up"
    BY <1>2, <2>1 DEF Node, Fields
  <2>2. CASE f = "l"
    BY <1>2, <2>2 DEF Node, Fields
  <2>3. CASE f = "r"
    BY <1>2, <2>3 DEF Node, Fields
  <2>4. QED
    BY <2>1, <2>2, <2>3
<1>4. QED
  BY <1>1, <1>3 DEF HeapOf, IsStored

\* All nodes of a tree have the hash of its root.
LEMMA SameHash ==
  ASSUME Tree(heap), Hung(heap, nodes), NEW n \in DOMAIN heap, NEW x \in Under(heap, n)
  PROVE  heap[x].keyHash = heap[n].keyHash
<1> DEFINE C == {y \in DOMAIN heap : heap[y].keyHash = heap[n].keyHash}
<1>1. C \in SUBSET DOMAIN heap /\ n \in C
  OBVIOUS
<1>2. Closed(heap, C)
  BY DEF Closed, Hung, Tree
<1>3. QED
  BY <1>1, <1>2, UnderFacts

\* A node is in the tree of its hash.
LEMMA UnderRoot ==
  ASSUME Types, Tree(heap), Hung(heap, nodes), NEW x \in DOMAIN heap
  PROVE  /\ heap[x].keyHash \in Hashes
         /\ nodes[heap[x].keyHash] \in DOMAIN heap
         /\ x \in Under(heap, nodes[heap[x].keyHash])
<1> DEFINE S == {y \in DOMAIN heap : ~ /\ nodes[heap[y].keyHash] \in DOMAIN heap
                                       /\ y \in Under(heap, nodes[heap[y].keyHash])}
<1>1. heap[x].keyHash \in Hashes
  BY DEF Hung
<1>2. SUFFICES ASSUME S # {} PROVE FALSE
  BY <1>1
<1>3. PICK y \in S : heap[y].up \notin S
  <2> HIDE DEF S
  <2>1. S \in SUBSET DOMAIN heap
    BY DEF S
  <2>2. QED
    BY <1>2, <2>1 DEF Tree
<1>4. CASE heap[y].up = NULL
  <2>1. nodes[heap[y].keyHash] = y
    BY <1>3, <1>4 DEF Hung
  <2>2. QED
    BY <1>3, <2>1, UnderFacts
<1>5. CASE heap[y].up # NULL
  <2> DEFINE z == heap[y].up
  <2>1. z \in DOMAIN heap /\ heap[z].keyHash = heap[y].keyHash /\ \E s \in Sides : heap[z][s] = y
    BY <1>3, <1>5 DEF Hung, Tree
  <2>2. nodes[heap[z].keyHash] \in DOMAIN heap /\ z \in Under(heap, nodes[heap[z].keyHash])
    BY <1>3, <2>1
  <2>3. y # NULL
    BY <1>3 DEF Tree
  <2>4. y \in Under(heap, nodes[heap[z].keyHash])
    BY <2>1, <2>2, <2>3, UnderFacts DEF Closed
  <2>5. QED
    BY <1>3, <2>1, <2>2, <2>4
<1>6. QED
  BY <1>4, <1>5

\* What as_smpp_map_get_node returns.
LEMMA GetNode ==
  ASSUME Inv, NEW k \in Variants
  PROVE  /\ as_smpp_variant_calc_hash(k) \in Hashes
         /\ nodes[as_smpp_variant_calc_hash(k)] \in DOMAIN heap \cup {NULL}
         /\ LET n == as_smpp_map_get_node(k) IN
             /\ n # NULL => n \in DOMAIN heap /\ Rank(n) = Content(k)
             /\ n = NULL /\ KeepsMemory => \A x \in DOMAIN heap : Rank(x) # Content(k)
<1> DEFINE h == as_smpp_variant_calc_hash(k)
           n == as_smpp_map_get_node(k)
           e == SearchEnd(nodes[h], k)
<1>1. Content(k) \in Data /\ Memory /\ KeyTypes /\ Types /\ Tree(heap) /\ Hung(heap, nodes)
  BY Compares, KeyTyped DEF Inv, Types
<1>2. h \in Hashes
  BY <1>1 DEF as_smpp_variant_calc_hash, Hashes
<1>3. nodes[h] \in DOMAIN heap \cup {NULL}
  BY <1>1, <1>2 DEF Types
<1>4. NULL \notin DOMAIN heap
  BY <1>1 DEF Tree
<1>5. n = IF nodes[h] = NULL THEN NULL
          ELSE IF as_smpp_variant_compare(heap[e].key, k) = 0 THEN e ELSE NULL
  BY DEF as_smpp_map_get_node
<1>6. nodes[h] # NULL => e \in DOMAIN heap
  BY <1>1, <1>3, SearchStays, UnderUnder
<1>7. n # NULL => n \in DOMAIN heap /\ Rank(n) = Content(k)
  BY <1>1, <1>5, <1>6, Compares DEF Rank, KeyTypes
<1>8. ASSUME n = NULL, KeepsMemory, NEW x \in DOMAIN heap, Rank(x) = Content(k) PROVE FALSE
  <2>1. heap[x].keyHash = h
    BY <1>8, ContentIs DEF Inv, Searchable, Rank, as_smpp_variant_calc_hash
  <2>2. nodes[h] \in DOMAIN heap /\ x \in Under(heap, nodes[h])
    BY <1>1, <2>1, UnderRoot
  <2>3. Sorted(heap, Ranks)
    BY <1>8, ContentIs DEF Inv, Searchable
  <2>4. as_smpp_variant_compare(heap[e].key, k) = 0
    BY <1>1, <1>8, <2>2, <2>3, SearchFinds
  <2>5. QED
    BY <1>4, <1>5, <1>6, <1>8, <2>2, <2>4
<1>9. QED
  BY <1>2, <1>3, <1>7, <1>8

-----------------------------------------------------------------------------
(***************************************************************************)
(* The steps.                                                              *)
(***************************************************************************)
\* The entry k, v is in the node.
IsEntry(node, k, v) ==
  node.key = k /\ node.value = v /\ node.keyHash = as_smpp_variant_calc_hash(k)

\* The nodes of h that are left in g have the entries they had.
SameEntries(h, g) ==
  \A m \in DOMAIN h \cap DOMAIN g, f \in {"key", "value", "keyHash"} : g[m][f] = h[m][f]

\* The heap h gets the entry k, v in a new node.
EntryAdded(h, g, k, v) ==
  /\ SameEntries(h, g)
  /\ \E n : /\ n \notin DOMAIN h /\ DOMAIN g = DOMAIN h \cup {n}
           /\ g[n].key = k /\ g[n].value = v

\* The heap h loses the node n and the entry in it.
EntryTaken(h, g, n) == SameEntries(h, g) /\ n \in DOMAIN h /\ DOMAIN g = DOMAIN h \ {n}

\* The heap with a new node n on side t of p, or as a root.
Grown(n, k, v, p, t) ==
  IF p = NULL THEN HeapWith(n, Created(k, v, p))
  ELSE [HeapWith(n, Created(k, v, p)) EXCEPT ![p][t] = n]

\* The heap with the new node is a heap of trees, with the entry in the node.
LEMMA Adds ==
  ASSUME Inv, NEW k \in Variants, NEW v \in Variants,
         NEW n \in Nodes \ DOMAIN heap, NEW p \in DOMAIN heap \cup {NULL}, NEW t \in Sides,
         NEW g, g = Grown(n, k, v, p, t),
         p # NULL => heap[p][t] = NULL /\ heap[p].keyHash = as_smpp_variant_calc_hash(k)
  PROVE  /\ IsAttached(heap, g, n, p, t)
         /\ Tree(g) /\ HeapOf(DOMAIN g \cup {NULL}, g)
         /\ DOMAIN g \subseteq Nodes
         /\ SameEntries(heap, g)
         /\ IsEntry(g[n], k, v)
<1> DEFINE L == DOMAIN heap \cup {n} \cup {NULL}
           h == HeapWith(n, Created(k, v, p))
<1>1. /\ n \notin DOMAIN heap /\ n # NULL /\ NULL \notin DOMAIN heap
      /\ Types /\ Tree(heap) /\ Hung(heap, nodes) /\ Memory
  BY MapAssumption DEF Inv, Types, Tree, MapAssumption
<1>2. as_smpp_variant_calc_hash(k) \in 0..255
  BY <1>1, Compares, MapAssumption DEF as_smpp_variant_calc_hash, MapAssumption
<1>3. Created(k, v, p) \in Node(L)
  BY <1>2 DEF Created, Node, as_smpp_variant_copy
<1>4. \A m \in DOMAIN heap : heap[m] \in Node(L)
  BY <1>1 DEF Types, HeapOf, Node
<1>5. /\ DOMAIN h = DOMAIN heap \cup {n} /\ h[n] = Created(k, v, p)
      /\ \A m \in DOMAIN heap : h[m] = heap[m]
  BY <1>1 DEF HeapWith
<1>6. HeapOf(L, h)
  BY <1>3, <1>4, <1>5 DEF HeapOf
<1>7. /\ DOMAIN g = DOMAIN heap \cup {n} /\ HeapOf(L, g)
      /\ \A m \in DOMAIN g, f \in Fields :
           g[m][f] = IF m = p /\ f = t THEN n ELSE h[m][f]
  <2>1. CASE p = NULL
    <3>1. g = h /\ p \notin DOMAIN g
      BY <1>1, <1>5, <2>1 DEF Grown
    <3>2. QED
      BY <1>5, <1>6, <3>1
  <2>2. CASE p # NULL
    <3>1. p \in DOMAIN h /\ t \in {"up", "l", "r"} /\ n \in L /\ g = Store(h, p, t, n)
      BY <1>5, <2>2 DEF Sides, Store, Grown
    <3> HIDE DEF h, L
    <3>2. /\ DOMAIN g = DOMAIN h /\ HeapOf(L, g)
          /\ \A m \in DOMAIN h, f \in Fields : g[m][f] = IF m = p /\ f = t THEN n ELSE h[m][f]
      <4>1. HeapOf(L, h) /\ p \in DOMAIN h
        BY <1>6, <3>1
      <4>2. t \in {"up", "l", "r"} /\ n \in L
        BY <3>1
      <4>3. g = Store(h, p, t, n)
        BY <3>1
      <4>4. IsStored(L, h, g, p, t, n)
        BY <4>1, <4>2, <4>3, Stored
      <4>5. QED
        BY <4>4 DEF IsStored
    <3>3. QED
      BY <1>5, <3>2
  <2>3. QED
    BY <2>1, <2>2
<1> HIDE DEF h
<1>8. /\ g[n].up = p /\ g[n]["l"] = NULL /\ g[n]["r"] = NULL
      /\ IsEntry(g[n], k, v)
  BY <1>1, <1>5, <1>7 DEF Fields, Created, as_smpp_variant_copy, IsEntry
<1>9. /\ \A m \in DOMAIN heap : g[m].up = heap[m].up
      /\ \A m \in DOMAIN heap, s \in Sides : g[m][s] = IF m = p /\ s = t THEN n ELSE heap[m][s]
  BY <1>5, <1>7 DEF Fields, Sides
<1>10. IsAttached(heap, g, n, p, t)
  BY <1>1, <1>7, <1>8, <1>9 DEF IsAttached
<1>11. Tree(g)
  BY <1>1, <1>10, Attached
<1>12. SameEntries(heap, g)
  BY <1>5, <1>7 DEF SameEntries, Fields, Sides
<1>13. DOMAIN g \subseteq Nodes
  BY <1>1, <1>7 DEF Types
<1>14. QED
  BY <1>7, <1>8, <1>10, <1>11, <1>12, <1>13

\* The ranks in a heap with one node more.
LEMMA AddsRanks ==
  ASSUME Inv, KeepsMemory, NEW k \in Variants, NEW n, n \notin DOMAIN heap,
         NEW g, DOMAIN g = DOMAIN heap \cup {n}, SameEntries(heap, g), g[n].key = k,
         g[n].keyHash = as_smpp_variant_calc_hash(k),
         Sorted(g, RanksIn(g, mem))
  PROVE  Searchable(g, mem)
<1>1. ASSUME NEW m \in DOMAIN heap PROVE g[m].keyHash = Hash[ContentIn(mem, g[m].key)]
  BY DEF Inv, Searchable, SameEntries
<1>2. g[n].keyHash = Hash[ContentIn(mem, g[n].key)]
  BY ContentIs DEF as_smpp_variant_calc_hash
<1>3. QED
  BY <1>1, <1>2 DEF Searchable

\* A search tree for one heap and one ranking is one for a ranking that agrees.
LEMMA SortedAgrees ==
  ASSUME NEW h, Tree(h), NEW r, NEW q, Sorted(h, r), \A m \in DOMAIN h : q[m] = r[m]
  PROVE  Sorted(h, q)
  BY UnderUnder DEF Sorted, Tree

\* The first key with its hash becomes a root.
LEMMA AddRootKeeps ==
  ASSUME Inv, NEW k \in Variants, NEW v \in Variants, AddRoot(k, v)
  PROVE  Inv' /\ EntryAdded(heap, heap', k, v)
<1> DEFINE h == as_smpp_variant_calc_hash(k)
<1>1. PICK n \in Nodes \ DOMAIN heap :
        /\ heap' = HeapWith(n, Created(k, v, NULL))
        /\ nodes' = [nodes EXCEPT ![h] = n]
  BY DEF AddRoot
<1>2. nodes[h] = NULL /\ mem' = mem /\ h \in Hashes
  BY GetNode DEF AddRoot
<1>3. /\ Types /\ Tree(heap) /\ Hung(heap, nodes) /\ Memory /\ NULL \notin DOMAIN heap
      /\ n # NULL
  BY MapAssumption DEF Inv, Types, Tree, MapAssumption
<1>4. "l" \in Sides /\ NULL \in DOMAIN heap \cup {NULL}
  BY DEF Sides
<1>5. /\ IsAttached(heap, heap', n, NULL, "l") /\ Tree(heap')
      /\ HeapOf(DOMAIN heap' \cup {NULL}, heap') /\ DOMAIN heap' \subseteq Nodes
      /\ SameEntries(heap, heap')
      /\ heap'[n].key = k /\ heap'[n].value = v /\ heap'[n].keyHash = h
  <2>1. heap' = Grown(n, k, v, NULL, "l")
    BY <1>1 DEF Grown
  <2>2. /\ IsAttached(heap, heap', n, NULL, "l") /\ Tree(heap')
        /\ HeapOf(DOMAIN heap' \cup {NULL}, heap') /\ DOMAIN heap' \subseteq Nodes
        /\ SameEntries(heap, heap') /\ IsEntry(heap'[n], k, v)
    BY <1>4, <2>1, Adds
  <2>3. QED
    BY <2>2 DEF IsEntry
<1>6. /\ DOMAIN heap' = DOMAIN heap \cup {n} /\ heap'[n].up = NULL /\ n \notin DOMAIN heap
      /\ \A m \in DOMAIN heap : heap'[m].up = heap[m].up /\ heap'[m].keyHash = heap[m].keyHash
  BY <1>5 DEF IsAttached, SameEntries
<1>7. nodes' \in [Hashes -> DOMAIN heap' \cup {NULL}] /\ nodes'[h] = n
      /\ \A g \in Hashes \ {h} : nodes'[g] = nodes[g]
  BY <1>1, <1>2, <1>3, <1>6 DEF Types
<1>8. Types'
  BY <1>2, <1>3, <1>5, <1>7 DEF Types, Memory
<1>9. Hung(heap', nodes')
  <2>1. ASSUME NEW m \in DOMAIN heap'
        PROVE  /\ heap'[m].keyHash \in Hashes
               /\ IF heap'[m].up = NULL THEN nodes'[heap'[m].keyHash] = m
                  ELSE heap'[heap'[m].up].keyHash = heap'[m].keyHash
    <3>1. CASE m = n
      BY <1>2, <1>5, <1>6, <1>7, <3>1
    <3>2. CASE m # n
      <4>1. /\ m \in DOMAIN heap /\ heap[m].keyHash \in Hashes
            /\ IF heap[m].up = NULL THEN nodes[heap[m].keyHash] = m
               ELSE heap[heap[m].up].keyHash = heap[m].keyHash
        BY <1>3, <1>6, <3>2 DEF Hung
      <4>2. heap[m].up = NULL => heap[m].keyHash # h
        BY <1>2, <1>3, <4>1
      <4>3. heap[m].up # NULL => heap[m].up \in DOMAIN heap
        BY <1>3, <4>1 DEF Tree
      <4>4. QED
        BY <1>6, <1>7, <4>1, <4>2, <4>3
    <3>3. QED
      BY <3>1, <3>2
  <2>2. ASSUME NEW g \in Hashes, nodes'[g] # NULL
        PROVE  heap'[nodes'[g]].up = NULL /\ heap'[nodes'[g]].keyHash = g
    <3>1. CASE g = h
      BY <1>5, <1>6, <1>7, <3>1
    <3>2. CASE g # h
      <4>1. nodes'[g] = nodes[g] /\ nodes[g] \in DOMAIN heap
        BY <1>3, <1>7, <2>2, <3>2 DEF Types
      <4>2. QED
        BY <1>3, <1>6, <2>2, <4>1 DEF Hung
    <3>3. QED
      BY <3>1, <3>2
  <2>3. QED
    BY <2>1, <2>2 DEF Hung
<1>10. ASSUME KeepsMemory PROVE Searchable(heap', mem')
  <2>1. Sorted(heap, RanksIn(heap, mem))
    BY <1>10 DEF Inv, Searchable
  <2>2. \A m \in DOMAIN heap : RanksIn(heap', mem)[m] = RanksIn(heap, mem)[m]
    BY <1>5, <1>6 DEF RanksIn, SameEntries
  <2>3. Sorted(heap, RanksIn(heap', mem))
    BY <1>3, <2>1, <2>2, SortedAgrees
  <2>4. \A m \in DOMAIN heap, s \in Sides : heap[m][s] # NULL => NULL \notin Under(heap, heap[m][s])
    BY <1>3, UnderFacts DEF Tree
  <2>5. Sorted(heap', RanksIn(heap', mem))
    BY <1>3, <1>4, <1>5, <2>3, <2>4, AttachedSorted
  <2>6. QED
    BY <1>2, <1>5, <1>6, <1>10, <2>5, AddsRanks
<1>11. EntryAdded(heap, heap', k, v)
  BY <1>5, <1>6 DEF EntryAdded
<1>12. QED
  BY <1>5, <1>8, <1>9, <1>10, <1>11 DEF Inv

\* Another key becomes a leaf where the search for it ended.  The search passed
\* every node above on the side of the key, so that it is found there again.
LEMMA AddLeafKeeps ==
  ASSUME Inv, NEW k \in Variants, NEW v \in Variants, AddLeaf(k, v)
  PROVE  Inv' /\ EntryAdded(heap, heap', k, v)
<1> DEFINE h == as_smpp_variant_calc_hash(k)
           root == nodes[h]
           p == SearchEnd(root, k)
           t == Side(p, k)
<1>1. PICK n \in Nodes \ DOMAIN heap :
        heap' = [HeapWith(n, Created(k, v, p)) EXCEPT ![p][t] = n]
  BY DEF AddLeaf
<1>2. /\ root # NULL /\ root \in DOMAIN heap /\ as_smpp_map_get_node(k) = NULL
      /\ mem' = mem /\ nodes' = nodes /\ h \in Hashes
  BY GetNode DEF AddLeaf
<1>3. /\ Types /\ Tree(heap) /\ Hung(heap, nodes) /\ Memory /\ KeyTypes /\ NULL \notin DOMAIN heap
      /\ n # NULL
  BY MapAssumption, KeyTyped DEF Inv, Types, Tree, MapAssumption
<1>4. p \in Under(heap, root) /\ Stops(p, k) /\ p \in DOMAIN heap /\ p # NULL
  BY <1>2, <1>3, SearchStays, UnderUnder
<1>5. as_smpp_variant_compare(heap[p].key, k) # 0
  BY <1>2, <1>4 DEF as_smpp_map_get_node
<1>6. t \in Sides /\ heap[p][t] = NULL
  BY <1>4, <1>5, SideOf DEF Stops
<1>7. heap[p].keyHash = h
  BY <1>2, <1>3, <1>4, SameHash DEF Hung
<1> HIDE DEF p, t
<1>8. /\ IsAttached(heap, heap', n, p, t) /\ Tree(heap')
      /\ HeapOf(DOMAIN heap' \cup {NULL}, heap') /\ DOMAIN heap' \subseteq Nodes
      /\ SameEntries(heap, heap')
      /\ heap'[n].key = k /\ heap'[n].value = v /\ heap'[n].keyHash = h
  <2>1. heap' = Grown(n, k, v, p, t)
    BY <1>1, <1>4 DEF Grown
  <2>2. /\ p \in DOMAIN heap \cup {NULL}
        /\ p # NULL => heap[p][t] = NULL /\ heap[p].keyHash = as_smpp_variant_calc_hash(k)
    BY <1>4, <1>6, <1>7
  <2>3. /\ IsAttached(heap, heap', n, p, t) /\ Tree(heap')
        /\ HeapOf(DOMAIN heap' \cup {NULL}, heap') /\ DOMAIN heap' \subseteq Nodes
        /\ SameEntries(heap, heap') /\ IsEntry(heap'[n], k, v)
    BY <1>6, <2>1, <2>2, Adds
  <2>4. QED
    BY <2>3 DEF IsEntry
<1>9. /\ DOMAIN heap' = DOMAIN heap \cup {n} /\ heap'[n].up = p /\ n \notin DOMAIN heap
      /\ \A m \in DOMAIN heap : heap'[m].up = heap[m].up /\ heap'[m].keyHash = heap[m].keyHash
  BY <1>8 DEF IsAttached, SameEntries
<1>10. Types'
  BY <1>2, <1>3, <1>8, <1>9 DEF Types, Memory
<1>11. Hung(heap', nodes')
  <2>1. ASSUME NEW m \in DOMAIN heap'
        PROVE  /\ heap'[m].keyHash \in Hashes
               /\ IF heap'[m].up = NULL THEN nodes'[heap'[m].keyHash] = m
                  ELSE heap'[heap'[m].up].keyHash = heap'[m].keyHash
    <3>1. CASE m = n
      BY <1>2, <1>4, <1>7, <1>8, <1>9, <3>1
    <3>2. CASE m # n
      <4>1. /\ m \in DOMAIN heap /\ heap[m].keyHash \in Hashes
            /\ IF heap[m].up = NULL THEN nodes[heap[m].keyHash] = m
               ELSE heap[heap[m].up].keyHash = heap[m].keyHash
        BY <1>3, <1>9, <3>2 DEF Hung
      <4>2. heap[m].up # NULL => heap[m].up \in DOMAIN heap
        BY <1>3, <4>1 DEF Tree
      <4>3. QED
        BY <1>2, <1>9, <4>1, <4>2
    <3>3. QED
      BY <3>1, <3>2
  <2>2. ASSUME NEW g \in Hashes, nodes'[g] # NULL
        PROVE  heap'[nodes'[g]].up = NULL /\ heap'[nodes'[g]].keyHash = g
    <3>1. nodes'[g] = nodes[g] /\ nodes[g] \in DOMAIN heap
      BY <1>2, <1>3, <2>2 DEF Types
    <3>2. QED
      BY <1>3, <1>9, <2>2, <3>1 DEF Hung
  <2>3. QED
    BY <2>1, <2>2 DEF Hung
<1>12. ASSUME KeepsMemory PROVE Searchable(heap', mem')
  <2> DEFINE rank == RanksIn(heap', mem)
  <2>1. Sorted(heap, RanksIn(heap, mem))
    BY <1>12 DEF Inv, Searchable
  <2>2. /\ \A m \in DOMAIN heap : rank[m] = RanksIn(heap, mem)[m] /\ rank[m] = Rank(m)
        /\ rank[n] = Content(k)
    BY <1>8, <1>9, ContentIs DEF RanksIn, SameEntries, Rank
  <2> HIDE DEF rank
  <2>3. Sorted(heap, rank)
    BY <1>3, <2>1, <2>2, SortedAgrees
  <2>4. ASSUME NEW m \in DOMAIN heap, NEW s \in Sides, heap[m][s] # NULL, p \in Under(heap, heap[m][s])
        PROVE  Beyond(s, rank[m], rank[n])
    <3>1. m \in Under(heap, root)
      <4>1. heap[m][s] \in DOMAIN heap /\ heap[heap[m][s]].up = m
        BY <1>3, <2>4 DEF Tree
      <4>2. heap[root].up = NULL
        BY <1>2, <1>3 DEF Hung
      <4>3. root \notin Under(heap, heap[m][s])
        BY <1>2, <1>3, <4>1, <4>2, ParentUnder, UnderFacts
      <4>4. heap[m][s] \in Under(heap, root) /\ heap[m][s] # root
        BY <1>2, <1>3, <1>4, <2>4, <4>1, <4>3, Comparable, UnderFacts
      <4>5. QED
        BY <1>2, <1>3, <4>1, <4>4, ParentUnder
    <3>2. Beyond(s, Rank(m), Content(k))
      BY <1>2, <1>3, <2>4, <3>1, SearchPasses DEF p
    <3>3. QED
      BY <2>2, <3>2
  <2>5. Beyond(t, rank[p], rank[n])
    <3>1. /\ heap[p].key \in Variants
          /\ t = IF as_smpp_variant_compare(heap[p].key, k) > 0 THEN "r" ELSE "l"
      BY <1>3, <1>4 DEF KeyTypes, t, Side
    <3>2. Beyond(t, Rank(p), Content(k))
      BY <1>3, <1>5, <3>1, Compares DEF Beyond, Rank
    <3>3. QED
      BY <1>4, <2>2, <3>2
  <2>6. Sorted(heap', rank)
    BY <1>3, <1>4, <1>6, <1>8, <2>3, <2>4, <2>5, AttachedSorted
  <2>7. QED
    BY <1>2, <1>8, <1>9, <1>12, <2>6, AddsRanks DEF rank
<1>13. EntryAdded(heap, heap', k, v)
  BY <1>8, <1>9 DEF EntryAdded
<1>14. QED
  BY <1>8, <1>10, <1>11, <1>12, <1>13 DEF Inv

\* The side of n's parent that n is on, for the code.
SideUp(n) == IF heap[heap[n].up].r = n THEN "r" ELSE "l"

\* The heap without n.
Removed(n) ==
  as_smpp_map_destroy_node(UpMoved(LinkMoved(ChildrenJoined(heap[n]), n), n), n)

\* What is hung to what, when n has both children.
MovesTo(n) == Other(Stays(heap[n]))
Moved(n) == heap[n][MovesTo(n)]
Last(n) == LastOn(MovesTo(n), heap[n][Stays(heap[n])])

\* The children of n: which one takes its place, which one moves, and where to.
LEMMA Children ==
  ASSUME Types, Tree(heap), NEW n \in DOMAIN heap
  PROVE  LET k == ReplaceWith(heap[n]) IN
         /\ k \in DOMAIN heap \cup {NULL} /\ k # n
         /\ k # NULL => heap[k].up = n
         /\ ~HasBoth(heap[n]) => \A s \in Sides : heap[n][s] \in {k, NULL}
         /\ HasBoth(heap[n]) =>
              /\ MovesTo(n) \in Sides /\ Other(MovesTo(n)) \in Sides
              /\ \A s \in Sides : s = MovesTo(n) \/ s = Other(MovesTo(n))
              /\ Moved(n) = heap[n][MovesTo(n)] /\ Moved(n) # NULL /\ Moved(n) \in DOMAIN heap
              /\ k = heap[n][Other(MovesTo(n))] /\ k # NULL /\ k # Moved(n)
              /\ Last(n) = LastOn(MovesTo(n), k)
              /\ Last(n) \in Under(heap, k) /\ Last(n) \in DOMAIN heap
              /\ heap[Last(n)][MovesTo(n)] = NULL
<1> DEFINE k == ReplaceWith(heap[n])
           b == MovesTo(n)
<1>1. /\ "l" \in Sides /\ "r" \in Sides /\ NULL \notin DOMAIN heap
      /\ \A s \in Sides : heap[n][s] = NULL \/ (heap[n][s] \in DOMAIN heap /\ heap[heap[n][s]].up = n)
      /\ heap[n]["l"] = heap[n]["r"] => heap[n]["l"] = NULL
  BY DEF Tree, Sides
<1>2. \E s \in Sides : k = heap[n][s]
  BY <1>1 DEF ReplaceWith, Stays, Sides
<1>3. k \in DOMAIN heap \cup {NULL} /\ (k # NULL => heap[k].up = n)
  BY <1>1, <1>2
<1>4. k # n
  <2>1. {n} \in SUBSET DOMAIN heap /\ {n} # {}
    OBVIOUS
  <2>2. \E m \in {n} : heap[m].up \notin {n}
    BY <2>1 DEF Tree
  <2>3. QED
    BY <1>1, <1>3, <2>2
<1>5. ASSUME ~HasBoth(heap[n]) PROVE \A s \in Sides : heap[n][s] \in {k, NULL}
  BY <1>5 DEF HasBoth, ReplaceWith, Sides
<1>6. ASSUME HasBoth(heap[n])
      PROVE  /\ b \in Sides /\ Other(b) \in Sides /\ Other(b) = Stays(heap[n])
             /\ \A s \in Sides : s = b \/ s = Other(b)
             /\ heap[n][b] # NULL /\ heap[n][b] \in DOMAIN heap
             /\ k = heap[n][Other(b)] /\ k # NULL /\ k # heap[n][b]
  <2>1. /\ b \in Sides /\ Other(b) \in Sides /\ Other(b) = Stays(heap[n]) /\ b # Other(b)
        /\ \A s \in Sides : s = b \/ s = Other(b)
    BY DEF MovesTo, Stays, Other, Sides
  <2>2. heap[n]["l"] # NULL /\ heap[n]["r"] # NULL
    BY <1>6 DEF HasBoth
  <2>3. k = heap[n][Other(b)]
    BY <1>6, <2>1 DEF ReplaceWith
  <2>4. QED
    BY <1>1, <2>1, <2>2, <2>3 DEF Sides
<1>7. ASSUME HasBoth(heap[n])
      PROVE  /\ Last(n) = LastOn(b, k) /\ Last(n) \in Under(heap, k) /\ Last(n) \in DOMAIN heap
             /\ heap[Last(n)][b] = NULL
  <2>1. Last(n) = LastOn(b, k) /\ b \in Sides /\ k \in DOMAIN heap
    BY <1>3, <1>6, <1>7 DEF Last
  <2> HIDE DEF b, k
  <2>2. QED
    BY <2>1, LastIsExtreme, UnderUnder
<1>8. QED
  BY <1>3, <1>4, <1>5, <1>6, <1>7 DEF Moved

\* The fields after the children were put together.
LEMMA JoinedFields ==
  ASSUME Types, Tree(heap), NEW n \in DOMAIN heap, NEW g, g = ChildrenJoined(heap[n])
  PROVE  /\ DOMAIN g = DOMAIN heap /\ HeapOf(DOMAIN heap \cup {NULL}, g)
         /\ \A m \in DOMAIN heap, f \in Fields :
              g[m][f] = IF HasBoth(heap[n]) /\ m = Moved(n) /\ f = "up" THEN Last(n)
                        ELSE IF HasBoth(heap[n]) /\ m = Last(n) /\ f = MovesTo(n) THEN Moved(n)
                        ELSE heap[m][f]
<1> DEFINE L == DOMAIN heap \cup {NULL}
<1>1. HeapOf(L, heap)
  BY DEF Types
<1>2. CASE ~HasBoth(heap[n])
  BY <1>1, <1>2 DEF ChildrenJoined
<1>3. CASE HasBoth(heap[n])
  <2> DEFINE h == Store(heap, Last(n), MovesTo(n), Moved(n))
  <2>1. /\ Last(n) \in DOMAIN heap /\ Moved(n) \in DOMAIN heap
        /\ MovesTo(n) \in {"up", "l", "r"} /\ "up" \in {"up", "l", "r"}
        /\ Moved(n) \in L /\ Last(n) \in L
    BY <1>3, Children DEF Sides
  <2>2. g = Store(h, Moved(n), "up", Last(n))
    <3>1. g = [heap EXCEPT ![Last(n)][MovesTo(n)] = Moved(n), ![Moved(n)].up = Last(n)]
      BY <1>3 DEF ChildrenJoined, Last, MovesTo, Moved
    <3>2. QED
      BY <3>1 DEF Store
  <2> HIDE DEF L
  <2>3. IsStored(L, heap, h, Last(n), MovesTo(n), Moved(n))
    BY <1>1, <2>1, Stored
  <2> HIDE DEF h
  <2>4. Moved(n) \in DOMAIN h /\ HeapOf(L, h)
    BY <2>1, <2>3 DEF IsStored
  <2>5. IsStored(L, h, g, Moved(n), "up", Last(n))
    BY <2>1, <2>2, <2>4, Stored
  <2>6. QED
    BY <1>3, <2>3, <2>5 DEF L, IsStored
<1>4. QED
  BY <1>2, <1>3

\* The fields after n was taken out.
LEMMA RemovedFields ==
  ASSUME Types, Tree(heap), NEW n \in DOMAIN heap, NEW g, g = Removed(n)
  PROVE  LET k == ReplaceWith(heap[n]) IN
         /\ DOMAIN g = DOMAIN heap \ {n} /\ HeapOf(DOMAIN heap \cup {NULL}, g)
         /\ \A m \in DOMAIN heap \ {n}, f \in Fields :
              g[m][f] = IF m = k /\ f = "up" THEN heap[n].up
                        ELSE IF heap[n].up # NULL /\ m = heap[n].up /\ f = SideUp(n) THEN k
                        ELSE ChildrenJoined(heap[n])[m][f]
<1> DEFINE L == DOMAIN heap \cup {NULL}
           k == ReplaceWith(heap[n])
           a == heap[n].up
           j == ChildrenJoined(heap[n])
           h1 == LinkMoved(j, n)
           h2 == UpMoved(h1, n)
<1>1. DOMAIN j = DOMAIN heap /\ HeapOf(L, j)
  BY JoinedFields
<1>2. /\ k \in L /\ k # n /\ a \in L /\ NULL \notin DOMAIN heap
      /\ SideUp(n) \in {"up", "l", "r"} /\ "up" \in {"up", "l", "r"}
  BY Children DEF Tree, SideUp
<1>3. /\ h1 = IF a = NULL THEN j ELSE Store(j, a, SideUp(n), k)
      /\ h2 = IF k = NULL THEN h1 ELSE Store(h1, k, "up", a)
      /\ g = [m \in DOMAIN h2 \ {n} |-> h2[m]]
  BY DEF LinkMoved, UpMoved, Removed, as_smpp_map_destroy_node, Restrict, Store, SideUp
<1> HIDE DEF j, h1, h2, k, a, L
<1>4. /\ DOMAIN h1 = DOMAIN heap /\ HeapOf(L, h1)
      /\ \A m \in DOMAIN heap, f \in Fields :
           h1[m][f] = IF a # NULL /\ m = a /\ f = SideUp(n) THEN k ELSE j[m][f]
  <2>1. CASE a = NULL
    BY <1>1, <1>3, <2>1
  <2>2. CASE a # NULL
    <3>1. a \in DOMAIN j
      BY <1>1, <1>2, <2>2 DEF L
    <3>2. h1 = Store(j, a, SideUp(n), k)
      BY <1>3, <2>2
    <3>3. IsStored(L, j, h1, a, SideUp(n), k)
      BY <1>1, <1>2, <3>1, <3>2, Stored
    <3>4. QED
      BY <1>1, <2>2, <3>3 DEF IsStored
  <2>3. QED
    BY <2>1, <2>2
<1>5. /\ DOMAIN h2 = DOMAIN heap /\ HeapOf(L, h2)
      /\ \A m \in DOMAIN heap, f \in Fields :
           h2[m][f] = IF m = k /\ f = "up" THEN a ELSE h1[m][f]
  <2>1. CASE k = NULL
    BY <1>2, <1>3, <1>4, <2>1
  <2>2. CASE k # NULL
    <3>1. k \in DOMAIN h1
      BY <1>2, <1>4, <2>2 DEF L
    <3>2. h2 = Store(h1, k, "up", a)
      BY <1>3, <2>2
    <3>3. IsStored(L, h1, h2, k, "up", a)
      BY <1>2, <1>4, <3>1, <3>2, Stored
    <3>4. QED
      BY <1>4, <2>2, <3>3 DEF IsStored
  <2>3. QED
    BY <2>1, <2>2
<1>6. DOMAIN g = DOMAIN heap \ {n} /\ HeapOf(L, g)
  BY <1>3, <1>5 DEF HeapOf
<1>7. ASSUME NEW m \in DOMAIN heap \ {n}, NEW f \in Fields
      PROVE  g[m][f] = IF m = k /\ f = "up" THEN a
                       ELSE IF a # NULL /\ m = a /\ f = SideUp(n) THEN k
                       ELSE j[m][f]
  BY <1>3, <1>4, <1>5
<1>8. QED
  BY <1>6, <1>7 DEF j, k, a, L

\* The heap of the joined children, n without the one that moved.
Cleared(n) ==
  IF HasBoth(heap[n]) THEN Store(ChildrenJoined(heap[n]), n, MovesTo(n), NULL) ELSE heap

\* The moved child was rehung.
LEMMA ClearedFields ==
  ASSUME Types, Tree(heap), NEW n \in DOMAIN heap, NEW c, c = Cleared(n)
  PROVE  /\ DOMAIN c = DOMAIN heap
         /\ \A m \in DOMAIN heap, f \in Fields :
              c[m][f] = IF HasBoth(heap[n]) /\ m = n /\ f = MovesTo(n) THEN NULL
                        ELSE ChildrenJoined(heap[n])[m][f]
         /\ HasBoth(heap[n]) => IsRehung(heap, c, n, MovesTo(n), Moved(n), Last(n))
<1> DEFINE L == DOMAIN heap \cup {NULL}
           j == ChildrenJoined(heap[n])
<1>1. CASE ~HasBoth(heap[n])
  BY <1>1 DEF Cleared, ChildrenJoined
<1>2. CASE HasBoth(heap[n])
  <2>1. DOMAIN j = DOMAIN heap /\ HeapOf(L, j)
    BY JoinedFields
  <2>2. MovesTo(n) \in Sides /\ MovesTo(n) \in {"up", "l", "r"} /\ NULL \in L
        /\ heap[Last(n)][MovesTo(n)] = NULL
    BY <1>2, Children DEF Sides
  <2>3. c = Store(j, n, MovesTo(n), NULL)
    BY <1>2 DEF Cleared
  <2> HIDE DEF j, L
  <2>4. IsStored(L, j, c, n, MovesTo(n), NULL)
    BY <2>1, <2>2, <2>3, Stored
  <2>5. /\ DOMAIN c = DOMAIN heap
        /\ \A m \in DOMAIN heap, f \in Fields :
             c[m][f] = IF m = n /\ f = MovesTo(n) THEN NULL ELSE j[m][f]
    BY <2>1, <2>4 DEF IsStored
  <2>6. \A m \in DOMAIN heap, f \in Fields :
          j[m][f] = IF m = Moved(n) /\ f = "up" THEN Last(n)
                    ELSE IF m = Last(n) /\ f = MovesTo(n) THEN Moved(n)
                    ELSE heap[m][f]
    BY <1>2, JoinedFields DEF j
  <2>7. "up" \in Fields /\ "up" \notin Sides /\ Sides \subseteq Fields
    BY DEF Fields, Sides
  <2>8. \A m \in DOMAIN heap : c[m].up = IF m = Moved(n) THEN Last(n) ELSE heap[m].up
    <3>1. ASSUME NEW m \in DOMAIN heap PROVE c[m]["up"] = IF m = Moved(n) THEN Last(n) ELSE heap[m]["up"]
      BY <2>2, <2>5, <2>6, <2>7
    <3>2. QED
      BY <3>1
  <2>9. \A m \in DOMAIN heap, s \in Sides :
          c[m][s] = IF m = n /\ s = MovesTo(n) THEN NULL
                    ELSE IF m = Last(n) /\ s = MovesTo(n) THEN Moved(n) ELSE heap[m][s]
    BY <2>5, <2>6, <2>7
  <2>10. IsRehung(heap, c, n, MovesTo(n), Moved(n), Last(n))
    BY <2>2, <2>5, <2>8, <2>9 DEF IsRehung
  <2>11. QED
    BY <1>2, <2>5, <2>10 DEF j
<1>3. QED
  BY <1>1, <1>2

\* After that n has at most one child, and one link to it from above is left.
LEMMA ClearedTree ==
  ASSUME Types, Tree(heap), NEW n \in DOMAIN heap, NEW c, c = Cleared(n)
  PROVE  LET k == ReplaceWith(heap[n]) IN
         /\ Tree(c)
         /\ \A s \in Sides : c[n][s] \in {k, NULL}
         /\ k # NULL => c[k].up = n
         /\ c[n].up = heap[n].up
         /\ \A m \in DOMAIN heap, s \in Sides :
              c[m][s] = n <=> heap[n].up # NULL /\ m = heap[n].up /\ s = SideUp(n)
<1> DEFINE k == ReplaceWith(heap[n])
           a == heap[n].up
<1>1. CASE ~HasBoth(heap[n])
  <2>1. c = heap
    BY <1>1 DEF Cleared
  <2>2. ASSUME NEW m \in DOMAIN heap, NEW s \in Sides
        PROVE  heap[m][s] = n <=> a # NULL /\ m = a /\ s = SideUp(n)
    BY DEF Tree, Sides, SideUp
  <2>3. (\A s \in Sides : heap[n][s] \in {k, NULL}) /\ (k # NULL => heap[k].up = n)
    BY <1>1, Children
  <2>4. QED
    BY <2>1, <2>2, <2>3
<1>2. CASE HasBoth(heap[n])
  <2> DEFINE b == MovesTo(n)
             o == Moved(n)
             e == Last(n)
  <2>1. /\ b \in Sides /\ o = heap[n][b] /\ o # NULL /\ o \in DOMAIN heap
        /\ k = heap[n][Other(b)] /\ k # NULL /\ k # o /\ k \in DOMAIN heap /\ heap[k].up = n
        /\ Other(b) \in Sides /\ \A s \in Sides : s = b \/ s = Other(b)
        /\ e \in Under(heap, k) /\ e \in DOMAIN heap
    BY <1>2, Children
  <2>2. IsRehung(heap, c, n, b, o, e)
    BY <1>2, ClearedFields
  <2> HIDE DEF b, o, e, k
  <2>3. Tree(c)
    BY <2>1, <2>2, Rehung
  <2>4. n \notin Under(heap, k) /\ n \notin Under(heap, o)
    BY <2>1, NotUnderChild
  <2>5. n # e /\ n # o
    BY <2>1, <2>4, UnderFacts
  <2>6. /\ DOMAIN c = DOMAIN heap
        /\ \A s \in Sides : c[n][s] = IF s = b THEN NULL ELSE heap[n][s]
        /\ c[n].up = a /\ c[k].up = n
        /\ \A m \in DOMAIN heap, s \in Sides : m # n /\ m # e => c[m][s] = heap[m][s]
    BY <2>1, <2>2, <2>5 DEF IsRehung
  <2>7. a # NULL => a \in DOMAIN heap /\ a # e /\ a # n /\ heap[a][SideUp(n)] = n /\ SideUp(n) \in Sides
    <3>1. ASSUME a # NULL
          PROVE  a \in DOMAIN heap /\ heap[a][SideUp(n)] = n /\ SideUp(n) \in Sides
      BY <3>1 DEF Tree, Sides, SideUp
    <3>2. ASSUME a # NULL, a = e PROVE FALSE
      BY <2>1, <2>4, <3>1, <3>2, UnderFacts DEF Closed, Tree
    <3>3. a # n
      <4>1. {n} \in SUBSET DOMAIN heap /\ {n} # {}
        OBVIOUS
      <4>2. \E m \in {n} : heap[m].up \notin {n}
        BY <4>1 DEF Tree
      <4>3. QED
        BY <4>2
    <3>4. QED
      BY <3>1, <3>2, <3>3
  <2>8. ASSUME NEW m \in DOMAIN heap, NEW s \in Sides, c[m][s] = n
        PROVE  a # NULL /\ m = a /\ s = SideUp(n)
    <3>1. m = a /\ a # NULL
      BY <2>3, <2>6, <2>8 DEF Tree
    <3>2. heap[a][s] = n
      BY <2>6, <2>7, <2>8, <3>1
    <3>3. QED
      BY <2>7, <3>1, <3>2 DEF Tree, Sides
  <2>9. a # NULL => c[a][SideUp(n)] = n
    BY <2>6, <2>7
  <2>10. \A s \in Sides : c[n][s] \in {k, NULL}
    BY <2>1, <2>6
  <2>11. QED
    BY <2>3, <2>6, <2>8, <2>9, <2>10 DEF k
<1>3. QED
  BY <1>1, <1>2

\* The rest of as_smpp_map_remove is then to splice out n.
LEMMA RemovedSpliced ==
  ASSUME Types, Tree(heap), NEW n \in DOMAIN heap, NEW c, c = Cleared(n), NEW g, g = Removed(n)
  PROVE  IsSpliced(c, g, n, ReplaceWith(heap[n]))
<1> DEFINE k == ReplaceWith(heap[n])
           a == heap[n].up
           j == ChildrenJoined(heap[n])
<1>1. /\ DOMAIN g = DOMAIN heap \ {n}
      /\ \A m \in DOMAIN heap \ {n}, f \in Fields :
           g[m][f] = IF m = k /\ f = "up" THEN a
                     ELSE IF a # NULL /\ m = a /\ f = SideUp(n) THEN k
                     ELSE j[m][f]
  BY RemovedFields
<1>2. /\ DOMAIN c = DOMAIN heap
      /\ \A m \in DOMAIN heap \ {n}, f \in Fields : c[m][f] = j[m][f]
  BY ClearedFields
<1>3. /\ c[n].up = a
      /\ \A m \in DOMAIN heap, s \in Sides : c[m][s] = n <=> a # NULL /\ m = a /\ s = SideUp(n)
  BY ClearedTree
<1>4. "up" \in Fields /\ "up" \notin Sides /\ Sides \subseteq Fields /\ SideUp(n) \in Sides
  BY DEF Fields, Sides, SideUp
<1> HIDE DEF k, a, j
<1>5. ASSUME NEW m \in DOMAIN g PROVE g[m]["up"] = IF m = k THEN a ELSE c[m]["up"]
  BY <1>1, <1>2, <1>4
<1>6. ASSUME NEW m \in DOMAIN g, NEW s \in Sides PROVE g[m][s] = IF c[m][s] = n THEN k ELSE c[m][s]
  BY <1>1, <1>2, <1>3, <1>4
<1>7. \A m \in DOMAIN g : g[m].up = IF m = k THEN c[n].up ELSE c[m].up
  BY <1>3, <1>5
<1>8. IsSpliced(c, g, n, k)
  BY <1>1, <1>2, <1>6, <1>7 DEF IsSpliced
<1>9. QED
  BY <1>8 DEF k

\* The parent of node m when n is gone.
UpWithout(n, m) ==
  IF m = ReplaceWith(heap[n]) THEN heap[n].up
  ELSE IF HasBoth(heap[n]) /\ m = Moved(n) THEN Last(n)
  ELSE heap[m].up

\* The heap without n is a heap of trees, with the entries of the other nodes.
LEMMA RemovedTree ==
  ASSUME Types, Tree(heap), NEW n \in DOMAIN heap, NEW g, g = Removed(n)
  PROVE  /\ Tree(g) /\ DOMAIN g = DOMAIN heap \ {n}
         /\ HeapOf(DOMAIN g \cup {NULL}, g)
         /\ SameEntries(heap, g)
         /\ \A m \in DOMAIN g : g[m].up = UpWithout(n, m)
<1> DEFINE k == ReplaceWith(heap[n])
           c == Cleared(n)
           j == ChildrenJoined(heap[n])
<1>1. /\ Tree(c) /\ DOMAIN c = DOMAIN heap
      /\ \A s \in Sides : c[n][s] \in {k, NULL}
      /\ k # NULL => c[k].up = n
  BY ClearedTree, ClearedFields
<1>2. k \in DOMAIN heap \cup {NULL}
  BY Children
<1>3. IsSpliced(c, g, n, k)
  BY RemovedSpliced
<1>4. Tree(g)
  <2> HIDE DEF c, k
  <2>1. QED
    BY <1>1, <1>2, <1>3, Spliced
<1>5. /\ DOMAIN g = DOMAIN heap \ {n} /\ HeapOf(DOMAIN heap \cup {NULL}, g)
      /\ \A m \in DOMAIN heap \ {n}, f \in Fields :
           g[m][f] = IF m = k /\ f = "up" THEN heap[n].up
                     ELSE IF heap[n].up # NULL /\ m = heap[n].up /\ f = SideUp(n) THEN k
                     ELSE j[m][f]
  BY RemovedFields
<1>6. \A m \in DOMAIN heap, f \in Fields :
        j[m][f] = IF HasBoth(heap[n]) /\ m = Moved(n) /\ f = "up" THEN Last(n)
                  ELSE IF HasBoth(heap[n]) /\ m = Last(n) /\ f = MovesTo(n) THEN Moved(n)
                  ELSE heap[m][f]
  BY JoinedFields
<1>7. SideUp(n) \in Sides /\ (HasBoth(heap[n]) => MovesTo(n) \in Sides)
  BY Children DEF SideUp, Sides
<1>8. HeapOf(DOMAIN g \cup {NULL}, g)
  <2>1. SUFFICES ASSUME NEW m \in DOMAIN g PROVE g[m] \in Node(DOMAIN g \cup {NULL})
    BY DEF HeapOf
  <2>2. g[m] \in Node(DOMAIN heap \cup {NULL})
    BY <1>5 DEF HeapOf
  <2>3. /\ g[m].up \in DOMAIN g \cup {NULL}
        /\ g[m].l \in DOMAIN g \cup {NULL} /\ g[m].r \in DOMAIN g \cup {NULL}
    BY <1>4 DEF Tree, Sides
  <2>4. QED
    BY <2>2, <2>3 DEF Node
<1> HIDE DEF k, j, c
<1>9. ASSUME NEW m \in DOMAIN g, NEW f \in {"key", "value", "keyHash"} PROVE g[m][f] = heap[m][f]
  <2>1. f \in Fields /\ f \notin Sides /\ f # "up"
    BY DEF Fields, Sides
  <2>2. QED
    BY <1>5, <1>6, <1>7, <2>1
<1>10. ASSUME NEW m \in DOMAIN g
       PROVE  g[m]["up"] = IF m = k THEN heap[n].up
                           ELSE IF HasBoth(heap[n]) /\ m = Moved(n) THEN Last(n)
                           ELSE heap[m]["up"]
  <2>1. "up" \in Fields /\ "up" \notin Sides
    BY DEF Fields, Sides
  <2>2. QED
    BY <1>5, <1>6, <1>7, <2>1
<1>11. SameEntries(heap, g)
  BY <1>5, <1>9 DEF SameEntries
<1>12. QED
  BY <1>4, <1>5, <1>8, <1>10, <1>11 DEF k, UpWithout

\* It is still a heap of search trees: the other child of n was hung under the
\* extreme node of the one that took the place of n.
LEMMA RemovedSorted ==
  ASSUME Inv, KeepsMemory, NEW n \in DOMAIN heap, NEW g, g = Removed(n)
  PROVE  Searchable(g, mem)
<1> DEFINE k == ReplaceWith(heap[n])
           c == Cleared(n)
<1>1. Types /\ Tree(heap) /\ Memory /\ KeyTypes
  BY KeyTyped DEF Inv, Types
<1>2. Sorted(heap, Ranks) /\ Searchable(heap, mem) /\ \A m \in DOMAIN heap : Ranks[m] \in Int
  BY <1>1, ContentIs, Compares DEF Inv, Searchable, Ranks, Rank, KeyTypes
<1>3. /\ Tree(g) /\ DOMAIN g = DOMAIN heap \ {n} /\ SameEntries(heap, g)
  BY <1>1, RemovedTree
<1>4. /\ Tree(c) /\ DOMAIN c = DOMAIN heap
      /\ \A s \in Sides : c[n][s] \in {k, NULL}
      /\ k # NULL => c[k].up = n
      /\ k \in DOMAIN heap \cup {NULL}
      /\ IsSpliced(c, g, n, k)
  BY <1>1, ClearedTree, ClearedFields, Children, RemovedSpliced
<1> HIDE DEF k, c
<1>5. ASSUME NEW m \in DOMAIN heap \ {n}, NEW s \in Sides, c[m][s] # NULL, NEW x \in Under(c, c[m][s])
      PROVE  Beyond(s, Ranks[m], Ranks[x])
  <2>1. CASE ~HasBoth(heap[n])
    <3>1. c = heap
      BY <2>1 DEF c, Cleared
    <3>2. QED
      BY <1>2, <1>5, <3>1 DEF Sorted
  <2>2. CASE HasBoth(heap[n])
    <3> DEFINE b == MovesTo(n)
               o == Moved(n)
               e == Last(n)
    <3>1. /\ b \in Sides /\ o = heap[n][b] /\ o # NULL
          /\ k = heap[n][Other(b)] /\ k # NULL /\ k \in DOMAIN heap
          /\ e = LastOn(b, k) /\ e \in Under(heap, k) /\ e \in DOMAIN heap
      BY <1>1, <2>2, Children DEF k
    <3>2. IsRehung(heap, c, n, b, o, e)
      BY <1>1, <2>2, ClearedFields DEF c
    <3> HIDE DEF b, o, e
    <3>3. \A y \in Under(heap, k) \ {e} : Beyond(b, Ranks[y], Ranks[e])
      <4>1. \A y \in Under(heap, k) \ {e} : Beyond(b, Rank(y), Rank(e))
        BY <1>1, <1>2, <3>1, LastIsExtreme
      <4>2. \A y \in Under(heap, k) : y \in DOMAIN heap
        BY <1>1, <3>1, UnderFacts
      <4>3. QED
        BY <3>1, <4>1, <4>2 DEF Ranks
    <3>4. QED
      BY <1>1, <1>2, <1>5, <3>1, <3>2, <3>3, RehungSorted
  <2>3. QED
    BY <2>1, <2>2
<1>6. Sorted(g, Ranks)
  BY <1>4, <1>5, SplicedSorted
<1>7. \A m \in DOMAIN g : RanksIn(g, mem)[m] = Ranks[m] /\ ContentIn(mem, g[m].key) = ContentIn(mem, heap[m].key)
  BY <1>3, ContentIs DEF RanksIn, SameEntries
<1>8. Sorted(g, RanksIn(g, mem))
  BY <1>3, <1>6, <1>7, SortedAgrees
<1>9. \A m \in DOMAIN g : g[m].keyHash = Hash[ContentIn(mem, g[m].key)]
  BY <1>2, <1>3 DEF Searchable, SameEntries
<1>10. QED
  BY <1>8, <1>9 DEF Searchable

\* Each tree still hangs under its hash: what is moved has the hash of n.
LEMMA RemovedHung ==
  ASSUME Inv, NEW n \in DOMAIN heap, NEW g, g = Removed(n),
         NEW roots, roots = IF heap[n].up = NULL
                            THEN [nodes EXCEPT ![heap[n].keyHash] = ReplaceWith(heap[n])]
                            ELSE nodes
  PROVE  Hung(g, roots) /\ roots \in [Hashes -> DOMAIN g \cup {NULL}]
<1> DEFINE k == ReplaceWith(heap[n])
           h == heap[n].keyHash
<1>1. Types /\ Tree(heap) /\ Hung(heap, nodes) /\ NULL \notin DOMAIN heap
  BY DEF Inv, Tree
<1>2. /\ Tree(g) /\ DOMAIN g = DOMAIN heap \ {n}
      /\ SameEntries(heap, g)
      /\ \A m \in DOMAIN g :
           g[m].up = IF m = k THEN heap[n].up
                     ELSE IF HasBoth(heap[n]) /\ m = Moved(n) THEN Last(n)
                     ELSE heap[m].up
  <2>1. /\ Tree(g) /\ DOMAIN g = DOMAIN heap \ {n} /\ SameEntries(heap, g)
        /\ \A m \in DOMAIN g : g[m].up = UpWithout(n, m)
    BY <1>1, RemovedTree
  <2>2. QED
    BY <2>1 DEF UpWithout
<1>3. \A m \in DOMAIN g : g[m].keyHash = heap[m].keyHash
  BY <1>2 DEF SameEntries
<1>4. /\ k \in DOMAIN heap \cup {NULL} /\ k # n
      /\ k # NULL => heap[k].up = n /\ heap[k].keyHash = h
  BY <1>1, Children DEF Hung
<1>5. ASSUME HasBoth(heap[n])
      PROVE  /\ Moved(n) \in DOMAIN heap /\ heap[Moved(n)].up = n /\ heap[Moved(n)].keyHash = h
             /\ Last(n) \in DOMAIN heap /\ heap[Last(n)].keyHash = h
  <2>1. /\ MovesTo(n) \in Sides /\ Moved(n) = heap[n][MovesTo(n)] /\ Moved(n) \in DOMAIN heap
        /\ k # NULL /\ Last(n) \in Under(heap, k) /\ Last(n) \in DOMAIN heap
    BY <1>1, <1>5, Children
  <2>2. heap[Moved(n)].up = n
    BY <1>1, <2>1 DEF Tree
  <2>3. heap[Moved(n)].keyHash = h
    BY <1>1, <2>1, <2>2 DEF Hung
  <2>4. heap[Last(n)].keyHash = h
    BY <1>1, <1>4, <2>1, SameHash
  <2>5. QED
    BY <2>1, <2>2, <2>3, <2>4
<1>6. /\ nodes \in [Hashes -> DOMAIN heap \cup {NULL}] /\ h \in Hashes
      /\ heap[n].up = NULL => nodes[h] = n
  BY <1>1 DEF Types, Hung
<1>7. ASSUME NEW x \in Hashes
      PROVE  \/ heap[n].up = NULL /\ x = h /\ roots[x] = k
             \/ ~(heap[n].up = NULL /\ x = h) /\ roots[x] = nodes[x]
  BY <1>6
<1> HIDE DEF k, h
<1>8. ASSUME NEW x \in Hashes, roots[x] # NULL
      PROVE  roots[x] \in DOMAIN g /\ g[roots[x]].up = NULL /\ g[roots[x]].keyHash = x
  <2>1. CASE heap[n].up = NULL /\ x = h /\ roots[x] = k
    BY <1>2, <1>3, <1>4, <1>8, <2>1
  <2>2. CASE ~(heap[n].up = NULL /\ x = h) /\ roots[x] = nodes[x]
    <3>1. nodes[x] \in DOMAIN heap /\ heap[nodes[x]].up = NULL /\ heap[nodes[x]].keyHash = x
      BY <1>1, <1>6, <1>8, <2>2 DEF Hung
    <3>2. nodes[x] # n
      BY <2>2, <3>1 DEF h
    <3>3. nodes[x] # k /\ ~(HasBoth(heap[n]) /\ nodes[x] = Moved(n))
      BY <1>1, <1>4, <1>5, <3>1
    <3>4. QED
      BY <1>2, <1>3, <2>2, <3>1, <3>2, <3>3
  <2>3. QED
    BY <1>7, <2>1, <2>2
<1>9. ASSUME NEW m \in DOMAIN g
      PROVE  /\ g[m].keyHash \in Hashes
             /\ IF g[m].up = NULL THEN roots[g[m].keyHash] = m
                ELSE g[g[m].up].keyHash = g[m].keyHash
  <2>1. /\ m \in DOMAIN heap /\ m # n /\ heap[m].keyHash \in Hashes
        /\ IF heap[m].up = NULL THEN nodes[heap[m].keyHash] = m
           ELSE heap[heap[m].up].keyHash = heap[m].keyHash
    BY <1>1, <1>2 DEF Hung
  <2>2. g[m].keyHash = heap[m].keyHash
    BY <1>3
  <2>3. ASSUME g[m].up = NULL PROVE roots[heap[m].keyHash] = m
    <3>1. CASE m = k
      BY <1>1, <1>2, <1>4, <1>7, <2>1, <2>3, <3>1
    <3>2. CASE m # k
      <4>1. heap[m].up = NULL
        BY <1>1, <1>2, <1>5, <2>3, <3>2
      <4>2. nodes[heap[m].keyHash] = m
        BY <2>1, <4>1
      <4>3. QED
        BY <1>6, <1>7, <2>1, <4>2
    <3>3. QED
      BY <3>1, <3>2
  <2>4. ASSUME g[m].up # NULL PROVE g[g[m].up].keyHash = heap[m].keyHash
    <3>1. g[m].up \in DOMAIN g
      BY <1>2, <2>4 DEF Tree
    <3>2. SUFFICES heap[g[m].up].keyHash = heap[m].keyHash
      BY <1>3, <3>1
    <3>3. CASE m = k
      <4>1. g[m].up = heap[n].up /\ heap[m].keyHash = h
        BY <1>1, <1>2, <1>4, <2>1, <3>3
      <4>2. QED
        BY <1>1, <2>4, <4>1 DEF Hung, h
    <3>4. CASE m # k
      BY <1>2, <1>5, <2>1, <2>4, <3>4
    <3>5. QED
      BY <3>3, <3>4
  <2>5. QED
    BY <2>1, <2>2, <2>3, <2>4
<1>10. Hung(g, roots)
  BY <1>8, <1>9 DEF Hung
<1>11. roots \in [Hashes -> DOMAIN g \cup {NULL}]
  <2>1. roots = [x \in Hashes |-> roots[x]]
    <3>1. CASE heap[n].up = NULL
      <4>1. roots = [nodes EXCEPT ![h] = k]
        BY <3>1 DEF k, h
      <4>2. QED
        BY <1>6, <4>1
    <3>2. CASE heap[n].up # NULL
      BY <1>6, <3>2
    <3>3. QED
      BY <3>1, <3>2
  <2>2. QED
    BY <1>8, <2>1
<1>12. QED
  BY <1>10, <1>11

\* as_smpp_map_remove keeps the invariant and frees the node of the key.
LEMMA RemoveFoundKeeps ==
  ASSUME Inv, NEW k \in Variants, RemoveFound(k)
  PROVE  Inv' /\ EntryTaken(heap, heap', as_smpp_map_get_node(k))
<1> DEFINE n == as_smpp_map_get_node(k)
<1>1. n \in DOMAIN heap
  BY GetNode DEF RemoveFound
<1>2. /\ heap' = Removed(n) /\ mem' = mem
      /\ nodes' = IF heap[n].up = NULL
                  THEN [nodes EXCEPT ![heap[n].keyHash] = ReplaceWith(heap[n])] ELSE nodes
  BY DEF RemoveFound, Removed
<1> SUFFICES Inv' /\ EntryTaken(heap, heap', n)
  OBVIOUS
<1> HIDE DEF n
<1>3. Types /\ Tree(heap)
  BY DEF Inv
<1>4. /\ Tree(heap') /\ DOMAIN heap' = DOMAIN heap \ {n}
      /\ HeapOf(DOMAIN heap' \cup {NULL}, heap')
      /\ SameEntries(heap, heap')
  BY <1>1, <1>2, <1>3, RemovedTree
<1>5. Hung(heap', nodes') /\ nodes' \in [Hashes -> DOMAIN heap' \cup {NULL}]
  BY <1>1, <1>2, RemovedHung
<1>6. KeepsMemory => Searchable(heap', mem')
  BY <1>1, <1>2, RemovedSorted
<1>7. Types'
  BY <1>2, <1>3, <1>4, <1>5 DEF Types, Memory
<1>8. EntryTaken(heap, heap', n)
  BY <1>1, <1>4 DEF EntryTaken
<1>9. QED
  BY <1>4, <1>5, <1>6, <1>7, <1>8 DEF Inv

\* A step that leaves the map and the memory alone.
LEMMA SameKeeps ==
  ASSUME Inv, UNCHANGED <<nodes, heap, mem>>
  PROVE  Inv'
<1>1. Types'
  BY DEF Inv, Types, Memory
<1>2. Tree(heap') /\ Hung(heap', nodes') /\ (KeepsMemory => Searchable(heap', mem'))
  BY DEF Inv
<1>3. QED
  BY <1>1, <1>2 DEF Inv

\* What the caller writes is not seen through the map.
LEMMA WritesKeeps ==
  ASSUME Inv, CallerWrites
  PROVE  /\ Inv'
         /\ KeepsMemory => \A n \in DOMAIN heap : \A v \in {heap[n].key, heap[n].value} :
                             ContentIn(mem', v) = ContentIn(mem, v)
<1>1. PICK c \in Cells : \E d \in Contents[c] :
        /\ KeepsMemory => \A n \in DOMAIN heap : ~PointsTo(heap[n], c)
        /\ mem' = [mem EXCEPT ![c] = d]
  BY DEF CallerWrites
<1>2. PICK d \in Contents[c] :
        /\ KeepsMemory => \A n \in DOMAIN heap : ~PointsTo(heap[n], c)
        /\ mem' = [mem EXCEPT ![c] = d]
  BY <1>1
<1>3. heap' = heap /\ nodes' = nodes
  BY DEF CallerWrites
<1>4. d \in Data /\ Types /\ Memory
  BY MapAssumption DEF Inv, Types, MapAssumption
<1>5. Types'
  BY <1>2, <1>3, <1>4 DEF Types, Memory
<1>6. ASSUME KeepsMemory, NEW n \in DOMAIN heap, NEW v \in {heap[n].key, heap[n].value}
      PROVE  ContentIn(mem', v) = ContentIn(mem, v)
  <2>1. v \in Variants
    BY <1>4 DEF Types, HeapOf, Node
  <2>2. v.type = "PTR" => v.value \in Cells /\ v.value # c
    BY <1>2, <1>6, <2>1 DEF PointsTo, Variants
  <2>3. QED
    BY <1>2, <1>4, <2>2 DEF ContentIn, Memory
<1>7. ASSUME KeepsMemory PROVE Searchable(heap', mem')
  <2>1. \A n \in DOMAIN heap : ContentIn(mem', heap[n].key) = ContentIn(mem, heap[n].key)
    BY <1>6, <1>7
  <2>2. RanksIn(heap, mem') = RanksIn(heap, mem)
    BY <2>1 DEF RanksIn
  <2>3. QED
    BY <1>3, <1>7, <2>1, <2>2 DEF Inv, Searchable
<1>8. Tree(heap') /\ Hung(heap', nodes')
  BY <1>3 DEF Inv
<1>9. QED
  BY <1>5, <1>6, <1>7, <1>8 DEF Inv

\* The empty map.
LEMMA InitInv == Init => Inv
<1> SUFFICES ASSUME Init PROVE Inv
  OBVIOUS
<1>1. DOMAIN heap = {} /\ nodes = [h \in Hashes |-> NULL]
  BY DEF Init, Hashes
<1>2. mem \in [Cells -> Data]
  BY DEF Init
<1>3. Types
  BY <1>1, <1>2 DEF Types, HeapOf, Memory
<1>4. Tree(heap)
  BY <1>1, FS_EmptySet DEF Tree
<1>5. Hung(heap, nodes)
  BY <1>1 DEF Hung
<1>6. Searchable(heap, mem)
  BY <1>1 DEF Searchable, Sorted
<1>7. QED
  BY <1>3, <1>4, <1>5, <1>6 DEF Inv

\* The entries are of variants.
LEMMA EntriesAre ==
  ASSUME NEW e \in Entries
  PROVE  e.key \in Variants /\ e.value \in Variants
  BY MapAssumption DEF MapAssumption

\* Each call, and each write of the caller, keeps the invariant.
LEMMA NextInv == Inv /\ [Next]_vars => Inv'
<1> SUFFICES ASSUME Inv, [Next]_vars PROVE Inv'
  OBVIOUS
<1>1. ASSUME NEW e \in Entries, as_smpp_map_add(e.key, e.value) PROVE Inv'
  <2>1. e.key \in Variants /\ e.value \in Variants
    BY EntriesAre
  <2>2. CASE AddRoot(e.key, e.value)
    BY <2>1, <2>2, AddRootKeeps
  <2>3. CASE AddDuplicate(e.key)
    BY <2>3, SameKeeps DEF AddDuplicate
  <2>4. CASE AddLeaf(e.key, e.value)
    BY <2>1, <2>4, AddLeafKeeps
  <2>5. QED
    BY <1>1, <2>2, <2>3, <2>4 DEF as_smpp_map_add
<1>2. ASSUME NEW e \in Entries, as_smpp_map_remove(e.key) PROVE Inv'
  <2>1. CASE RemoveFound(e.key)
    BY <2>1, EntriesAre, RemoveFoundKeeps
  <2>2. CASE RemoveMissing(e.key)
    BY <2>2, SameKeeps DEF RemoveMissing
  <2>3. QED
    BY <1>2, <2>1, <2>2 DEF as_smpp_map_remove
<1>3. ASSUME NEW e \in Entries, as_smpp_map_get(e.key) PROVE Inv'
  BY <1>3, SameKeeps DEF as_smpp_map_get
<1>4. CASE CallerWrites
  BY <1>4, WritesKeeps
<1>5. CASE UNCHANGED vars
  BY <1>5, SameKeeps DEF vars
<1>6. QED
  BY <1>1, <1>2, <1>3, <1>4, <1>5 DEF Next

\* Any sequence of calls keeps trees trees, each under its hash, and search
\* trees as long as the caller leaves alone the memory it passed.
THEOREM Invariance == Spec => []Inv
  BY InitInv, NextInv, PTL DEF Spec

\* Every pointer of the map and of its nodes is NULL or points to a live node,
\* for any contents, hashes and calls, and whatever the caller writes.
THEOREM TypeCorrect == Spec => []TypeOK
<1>1. Inv => TypeOK
  <2> SUFFICES ASSUME Inv PROVE TypeOK
    OBVIOUS
  <2>1. Types /\ mem \in [Cells -> Data]
    BY DEF Inv, Types, Memory
  <2>2. QED
    BY <2>1 DEF Types, HeapOf, Node, TypeOK, Hashes
<1>2. QED
  BY <1>1, Invariance, PTL

\* In a tree the links from above name one place.
LEMMA LinksOnce == Inv => LinkedOnce
<1> SUFFICES ASSUME Inv, NEW n \in DOMAIN heap
             PROVE  \/ heap[n].up = NULL /\ LinksTo(n) = {<<heap[n].keyHash>>}
                    \/ \E s \in {"l", "r"} : heap[n].up # NULL /\ LinksTo(n) = {<<heap[n].up, s>>}
  BY DEF LinkedOnce
<1> DEFINE up == heap[n].up
           Roots == {<<h>> : h \in {g \in DOMAIN nodes : nodes[g] = n}}
           Parents == {p \in (DOMAIN heap) \X {"l", "r"} : heap[p[1]][p[2]] = n}
<1>1. /\ Types /\ Tree(heap) /\ Hung(heap, nodes) /\ n # NULL
      /\ DOMAIN nodes = Hashes /\ Sides = {"l", "r"}
  BY DEF Inv, Tree, Types, Sides
<1>2. LinksTo(n) = Roots \cup Parents
  BY DEF LinksTo
<1>3. ASSUME NEW h \in Hashes, nodes[h] = n PROVE up = NULL /\ h = heap[n].keyHash
  BY <1>1, <1>3 DEF Hung
<1>4. ASSUME NEW m \in DOMAIN heap, NEW s \in Sides, heap[m][s] = n PROVE up = m /\ up # NULL
  BY <1>1, <1>4 DEF Tree
<1>5. CASE up = NULL
  <2>1. heap[n].keyHash \in Hashes /\ nodes[heap[n].keyHash] = n
    BY <1>1, <1>5 DEF Hung
  <2>2. Roots = {<<heap[n].keyHash>>}
    BY <1>1, <1>3, <2>1
  <2>3. Parents = {}
    BY <1>1, <1>4, <1>5
  <2>4. QED
    BY <1>2, <1>5, <2>2, <2>3
<1>6. CASE up # NULL
  <2>1. PICK s \in Sides : up \in DOMAIN heap /\ heap[up][s] = n
    BY <1>1, <1>6 DEF Tree
  <2>2. Roots = {}
    BY <1>1, <1>3, <1>6
  <2>3. \A t \in Sides : heap[up][t] = n => t = s
    BY <1>1, <2>1 DEF Tree
  <2>4. \A m \in DOMAIN heap, t \in Sides : heap[m][t] = n <=> m = up /\ t = s
    BY <1>4, <2>1, <2>3
  <2>5. Parents = {<<up, s>>}
    BY <1>1, <2>1, <2>4
  <2>6. QED
    BY <1>1, <1>2, <1>6, <2>2, <2>5
<1>7. QED
  BY <1>5, <1>6

\* Each node hangs in one place, the place that its parent pointer and its hash
\* name: no node leaks or is freed twice, whatever the caller writes.
THEOREM LinkedCorrect == Spec => []LinkedOnce
  BY Invariance, LinksOnce, PTL

\* A step keeps the entries, but for the node of a key that is removed.
LEMMA StepStable ==
  ASSUME Inv, Next, NEW n \in DOMAIN heap
  PROVE  \/ n \in DOMAIN heap' /\ heap'[n].key = heap[n].key /\ heap'[n].value = heap[n].value
         \/ reply' = [op |-> "remove", key |-> Content(heap[n].key), result |-> "NONE"]
<1>1. ASSUME NEW e \in Entries, as_smpp_map_add(e.key, e.value)
      PROVE  n \in DOMAIN heap' /\ heap'[n].key = heap[n].key /\ heap'[n].value = heap[n].value
  <2>1. heap' = heap \/ EntryAdded(heap, heap', e.key, e.value)
    BY <1>1, EntriesAre, AddRootKeeps, AddLeafKeeps DEF as_smpp_map_add, AddDuplicate
  <2>2. QED
    BY <2>1 DEF EntryAdded, SameEntries
<1>2. ASSUME NEW e \in Entries, as_smpp_map_remove(e.key)
      PROVE  \/ n \in DOMAIN heap' /\ heap'[n].key = heap[n].key /\ heap'[n].value = heap[n].value
             \/ reply' = [op |-> "remove", key |-> Content(heap[n].key), result |-> "NONE"]
  <2>1. CASE RemoveFound(e.key)
    <3> DEFINE r == as_smpp_map_get_node(e.key)
    <3>1. EntryTaken(heap, heap', r) /\ e.key \in Variants
      BY <2>1, EntriesAre, RemoveFoundKeeps
    <3>2. r # NULL /\ reply' = [op |-> "remove", key |-> Content(e.key), result |-> "NONE"]
      BY <2>1 DEF RemoveFound, Says
    <3>3. Rank(r) = Content(e.key)
      BY <3>1, <3>2, GetNode
    <3> HIDE DEF r
    <3>4. CASE n = r
      BY <3>2, <3>3, <3>4 DEF Rank
    <3>5. CASE n # r
      BY <3>1, <3>5 DEF EntryTaken, SameEntries
    <3>6. QED
      BY <3>4, <3>5
  <2>2. CASE RemoveMissing(e.key)
    BY <2>2 DEF RemoveMissing
  <2>3. QED
    BY <1>2, <2>1, <2>2 DEF as_smpp_map_remove
<1>3. QED
  BY <1>1, <1>2 DEF Next, as_smpp_map_get, CallerWrites

\* A node that as_smpp_map_get returned a pointer into keeps its key and its
\* value until its key is removed: remove moves pointers, and never content.
THEOREM StableCorrect == Spec => PointersStable
<1> DEFINE Stable == \A n \in DOMAIN heap :
             \/ n \in DOMAIN heap' /\ heap'[n].key = heap[n].key /\ heap'[n].value = heap[n].value
             \/ reply' = [op |-> "remove", key |-> Content(heap[n].key), result |-> "NONE"]
<1>1. Inv /\ [Next]_vars => [Stable]_vars
  BY StepStable
<1>2. QED
  BY <1>1, Invariance, PTL DEF Spec, PointersStable

-----------------------------------------------------------------------------
(***************************************************************************)
(* The refinement.                                                         *)
(***************************************************************************)
\* No two nodes have the same key.
Distinct(h, m) ==
  \A x, y \in DOMAIN h : ContentIn(m, h[x].key) = ContentIn(m, h[y].key) => x = y

\* The lowest node that is above both would have them on both of its sides,
\* or one of them beyond itself.
LEMMA DistinctKeys == Inv /\ KeepsMemory => Distinct(heap, mem)
<1> SUFFICES ASSUME Inv, KeepsMemory, NEW x \in DOMAIN heap, NEW y \in DOMAIN heap,
                    Rank(x) = Rank(y), x # y
             PROVE  FALSE
  BY ContentIs DEF Distinct, Rank
<1> DEFINE root == nodes[heap[x].keyHash]
           S == {m \in DOMAIN heap : x \in Under(heap, m) /\ y \in Under(heap, m)}
<1>1. /\ Types /\ Tree(heap) /\ Hung(heap, nodes) /\ Sorted(heap, Ranks)
      /\ \A m \in DOMAIN heap : Rank(m) \in Int
  BY KeyTyped, ContentIs, Compares DEF Inv, Searchable, Types, KeyTypes, Rank
<1>2. heap[x].keyHash = heap[y].keyHash
  BY ContentIs DEF Inv, Searchable, Rank
<1>3. root \in S
  BY <1>1, <1>2, UnderRoot
<1>4. PICK m \in S : \A s \in Sides : heap[m][s] \notin S
  <2> HIDE DEF S
  <2>1. S \in SUBSET DOMAIN heap /\ S # {}
    BY <1>3 DEF S
  <2>2. QED
    BY <1>1, <2>1, WayDownEnds
<1>5. m \in DOMAIN heap /\ x \in Under(heap, m) /\ y \in Under(heap, m)
  BY <1>4
<1>6. ASSUME NEW z \in Under(heap, m), z \in DOMAIN heap, z # m
      PROVE  \E s \in Sides : /\ heap[m][s] \in DOMAIN heap /\ z \in Under(heap, heap[m][s])
                              /\ Beyond(s, Rank(m), Rank(z))
  <2>1. PICK s \in Sides : heap[m][s] \in DOMAIN heap /\ z \in Under(heap, heap[m][s])
    BY <1>1, <1>5, <1>6, UnderChild
  <2>2. heap[m][s] # NULL
    BY <1>1, <2>1 DEF Tree
  <2>3. Beyond(s, Ranks[m], Ranks[z])
    BY <1>1, <1>5, <2>1, <2>2 DEF Sorted
  <2>4. QED
    BY <1>5, <1>6, <2>1, <2>3 DEF Ranks
<1>7. CASE x = m \/ y = m
  BY <1>1, <1>5, <1>6, <1>7 DEF Beyond
<1>8. CASE x # m /\ y # m
  <2>1. PICK s \in Sides : /\ heap[m][s] \in DOMAIN heap /\ x \in Under(heap, heap[m][s])
                           /\ Beyond(s, Rank(m), Rank(x))
    BY <1>5, <1>6, <1>8
  <2>2. PICK t \in Sides : /\ heap[m][t] \in DOMAIN heap /\ y \in Under(heap, heap[m][t])
                           /\ Beyond(t, Rank(m), Rank(y))
    BY <1>5, <1>6, <1>8
  <2>3. s = t
    BY <1>1, <1>5, <2>1, <2>2 DEF Beyond, Sides
  <2>4. heap[m][s] \in S
    BY <2>1, <2>2, <2>3
  <2>5. QED
    BY <1>4, <2>4
<1>9. QED
  BY <1>7, <1>8

\* As a predicate of a state.
DistinctNow == KeepsMemory => Distinct(heap, mem)

\* The same after a step.
LEMMA DistinctNext == Inv' /\ KeepsMemory => Distinct(heap', mem')
<1>1. Inv => DistinctNow
  BY DistinctKeys DEF DistinctNow
<1>2. Inv' => DistinctNow'
  BY <1>1, PTL
<1>3. QED
  BY <1>2 DEF DistinctNow

\* The map that the nodes of h are.
KeysOf(h, m) == {ContentIn(m, h[n].key) : n \in DOMAIN h}
MapOf(h, m) ==
  [d \in KeysOf(h, m) |->
     ContentIn(m, h[CHOOSE n \in DOMAIN h : ContentIn(m, h[n].key) = d].value)]

\* With distinct keys the map has the value of each node at its key.
LEMMA MapOfIs ==
  ASSUME NEW h, NEW m, Distinct(h, m), NEW n \in DOMAIN h
  PROVE  /\ ContentIn(m, h[n].key) \in DOMAIN MapOf(h, m)
         /\ MapOf(h, m)[ContentIn(m, h[n].key)] = ContentIn(m, h[n].value)
<1> DEFINE d == ContentIn(m, h[n].key)
           c == CHOOSE x \in DOMAIN h : ContentIn(m, h[x].key) = d
<1>1. c \in DOMAIN h /\ ContentIn(m, h[c].key) = d
  OBVIOUS
<1>2. c = n
  BY <1>1 DEF Distinct
<1>3. d \in KeysOf(h, m)
  BY DEF KeysOf
<1>4. MapOf(h, m)[d] = ContentIn(m, h[c].value)
  BY <1>3 DEF MapOf
<1>5. QED
  BY <1>2, <1>3, <1>4 DEF MapOf

\* The map f with key k, and without it.
MapWith(f, k, v) == [j \in DOMAIN f \union {k} |-> IF j = k THEN v ELSE f[j]]
MapWithout(f, k) == [j \in DOMAIN f \ {k} |-> f[j]]

\* An added entry is one key more.
LEMMA MapGrows ==
  ASSUME NEW h, NEW g, NEW m, NEW k, NEW v, EntryAdded(h, g, k, v),
         Distinct(h, m), Distinct(g, m)
  PROVE  MapOf(g, m) = MapWith(MapOf(h, m), ContentIn(m, k), ContentIn(m, v))
<1> DEFINE f == [d \in DOMAIN MapOf(h, m) \union {ContentIn(m, k)} |->
                   IF d = ContentIn(m, k) THEN ContentIn(m, v) ELSE MapOf(h, m)[d]]
<1>1. PICK n : /\ n \notin DOMAIN h /\ DOMAIN g = DOMAIN h \cup {n}
               /\ g[n].key = k /\ g[n].value = v
  BY DEF EntryAdded
<1>2. \A x \in DOMAIN h : g[x].key = h[x].key /\ g[x].value = h[x].value
  BY <1>1 DEF EntryAdded, SameEntries
<1>3. DOMAIN MapOf(g, m) = KeysOf(g, m) /\ DOMAIN MapOf(h, m) = KeysOf(h, m)
  BY DEF MapOf
<1>4. KeysOf(g, m) = KeysOf(h, m) \cup {ContentIn(m, k)}
  BY <1>1, <1>2 DEF KeysOf
<1>5. ASSUME NEW d \in KeysOf(g, m) PROVE MapOf(g, m)[d] = f[d]
  <2>1. PICK x \in DOMAIN g : d = ContentIn(m, g[x].key)
    BY <1>5 DEF KeysOf
  <2>2. MapOf(g, m)[d] = ContentIn(m, g[x].value)
    BY <2>1, MapOfIs
  <2>3. f[d] = IF d = ContentIn(m, k) THEN ContentIn(m, v) ELSE MapOf(h, m)[d]
    BY <1>3, <1>4, <1>5
  <2> HIDE DEF f
  <2>4. CASE x = n
    BY <1>1, <2>1, <2>2, <2>3, <2>4
  <2>5. CASE x # n
    <3>1. x \in DOMAIN h /\ d = ContentIn(m, h[x].key) /\ MapOf(g, m)[d] = ContentIn(m, h[x].value)
      BY <1>1, <1>2, <2>1, <2>2, <2>5
    <3>2. d # ContentIn(m, k)
      BY <1>1, <2>1, <2>5 DEF Distinct
    <3>3. MapOf(h, m)[d] = ContentIn(m, h[x].value)
      BY <3>1, MapOfIs
    <3>4. QED
      BY <2>3, <3>1, <3>2, <3>3
  <2>6. QED
    BY <2>4, <2>5
<1>6. MapOf(g, m) = [d \in KeysOf(g, m) |-> MapOf(g, m)[d]]
  BY DEF MapOf
<1>7. f = [d \in KeysOf(g, m) |-> f[d]]
  BY <1>3, <1>4
<1> HIDE DEF f
<1>8. MapOf(g, m) = f
  BY <1>5, <1>6, <1>7
<1>9. QED
  BY <1>8 DEF f, MapWith

\* A node that is taken is one key less.
LEMMA MapShrinks ==
  ASSUME NEW h, NEW g, NEW m, NEW n, EntryTaken(h, g, n),
         Distinct(h, m), Distinct(g, m)
  PROVE  MapOf(g, m) = MapWithout(MapOf(h, m), ContentIn(m, h[n].key))
<1> DEFINE f == [d \in DOMAIN MapOf(h, m) \ {ContentIn(m, h[n].key)} |-> MapOf(h, m)[d]]
<1>1. n \in DOMAIN h /\ DOMAIN g = DOMAIN h \ {n}
  BY DEF EntryTaken
<1>2. \A x \in DOMAIN g : g[x].key = h[x].key /\ g[x].value = h[x].value
  BY <1>1 DEF EntryTaken, SameEntries
<1>3. DOMAIN MapOf(g, m) = KeysOf(g, m) /\ DOMAIN MapOf(h, m) = KeysOf(h, m)
  BY DEF MapOf
<1>4. KeysOf(g, m) = KeysOf(h, m) \ {ContentIn(m, h[n].key)}
  BY <1>1, <1>2 DEF KeysOf, Distinct
<1>5. ASSUME NEW d \in KeysOf(g, m) PROVE MapOf(g, m)[d] = MapOf(h, m)[d]
  <2>1. PICK x \in DOMAIN g : d = ContentIn(m, g[x].key)
    BY <1>5 DEF KeysOf
  <2>2. MapOf(g, m)[d] = ContentIn(m, g[x].value)
    BY <2>1, MapOfIs
  <2>3. x \in DOMAIN h /\ d = ContentIn(m, h[x].key) /\ MapOf(g, m)[d] = ContentIn(m, h[x].value)
    BY <1>1, <1>2, <2>1, <2>2
  <2>4. MapOf(h, m)[d] = ContentIn(m, h[x].value)
    BY <2>3, MapOfIs
  <2>5. QED
    BY <2>3, <2>4
<1>6. MapOf(g, m) = [d \in KeysOf(g, m) |-> MapOf(g, m)[d]]
  BY DEF MapOf
<1>7. MapOf(g, m) = f
  BY <1>3, <1>4, <1>5, <1>6
<1>8. QED
  BY <1>7 DEF MapWithout

\* The abstract map, now and after a step.
LEMMA MapIs ==
  /\ AbstractMap = MapOf(heap, mem)
  /\ AbstractMap' = MapOf(heap', mem')
  BY DEF AbstractMap, MapOf, KeysOf, Content, ContentIn

\* The empty heap is the empty map.
LEMMA InitRefines == Init => Abstract!Init
<1> SUFFICES ASSUME Init PROVE Abstract!Init
  OBVIOUS
<1>1. DOMAIN heap = {}
  BY DEF Init
<1>2. KeysOf(heap, mem) = {}
  BY <1>1 DEF KeysOf
<1>3. AbstractMap = [k \in {} |-> NULL]
  BY <1>2, MapIs DEF MapOf
<1>4. reply = Abstract!NoReply
  BY DEF Init, Abstract!NoReply, Abstract!Reply
<1>5. QED
  BY <1>3, <1>4 DEF Abstract!Init

\* What as_smpp_map_get_node says of the abstract map.
LEMMA GetNodeMap ==
  ASSUME Inv, KeepsMemory, NEW k \in Variants
  PROVE  LET n == as_smpp_map_get_node(k) IN
         /\ Content(k) \in Data /\ Content(k) = ContentIn(mem, k)
         /\ n = NULL => Content(k) \notin DOMAIN AbstractMap
         /\ n # NULL => /\ n \in DOMAIN heap /\ Content(k) = ContentIn(mem, heap[n].key)
                        /\ Content(k) \in DOMAIN AbstractMap
                        /\ AbstractMap[Content(k)] = Content(heap[n].value)
<1> DEFINE n == as_smpp_map_get_node(k)
<1>1. /\ n # NULL => n \in DOMAIN heap /\ Rank(n) = Content(k)
      /\ n = NULL => \A x \in DOMAIN heap : Rank(x) # Content(k)
  BY GetNode
<1>2. Content(k) \in Data /\ Distinct(heap, mem)
  BY Compares, DistinctKeys DEF Inv, Types
<1> HIDE DEF n
<1>3. n = NULL => Content(k) \notin KeysOf(heap, mem)
  BY <1>1, ContentIs DEF Rank, KeysOf
<1>4. n = NULL => Content(k) \notin DOMAIN AbstractMap
  BY <1>3, MapIs DEF MapOf
<1>5. ASSUME n # NULL
      PROVE  /\ n \in DOMAIN heap /\ Content(k) = ContentIn(mem, heap[n].key)
             /\ Content(k) \in DOMAIN AbstractMap
             /\ AbstractMap[Content(k)] = Content(heap[n].value)
  <2>1. n \in DOMAIN heap /\ Content(k) = ContentIn(mem, heap[n].key)
    BY <1>1, <1>5, ContentIs DEF Rank
  <2>2. QED
    BY <1>2, <2>1, MapIs, MapOfIs, ContentIs
<1>6. QED
  BY <1>2, <1>4, <1>5, ContentIs DEF n

\* A new node is a new key.
LEMMA AddedRefines ==
  ASSUME Inv, Inv', KeepsMemory, NEW k \in Variants, NEW v \in Variants,
         as_smpp_map_get_node(k) = NULL, EntryAdded(heap, heap', k, v), mem' = mem,
         Says("add", k, "NONE")
  PROVE  Abstract!Add(Content(k), Content(v))
<1>1. Distinct(heap, mem) /\ Distinct(heap', mem)
  <2>1. Distinct(heap, mem)
    BY DistinctKeys
  <2>2. Distinct(heap', mem')
    BY DistinctNext
  <2>3. QED
    BY <2>1, <2>2
<1>2. Content(k) \notin DOMAIN AbstractMap
  BY GetNodeMap
<1>3. AbstractMap' = Abstract!With(Content(k), Content(v))
  <2>1. MapOf(heap', mem) = MapWith(MapOf(heap, mem), ContentIn(mem, k), ContentIn(mem, v))
    BY <1>1, MapGrows
  <2>2. AbstractMap' = MapWith(AbstractMap, Content(k), Content(v))
    BY <2>1, MapIs, ContentIs
  <2>3. QED
    BY <2>2 DEF MapWith, Abstract!With
<1>4. reply' = Abstract!Reply("add", Content(k), "NONE")
  BY DEF Says, Abstract!Reply
<1>5. QED
  BY <1>2, <1>3, <1>4 DEF Abstract!Add

\* as_smpp_map_remove removes a key that is there, and says so when it is not.
LEMMA RemoveRefines ==
  ASSUME Inv, Inv', KeepsMemory, NEW k \in Variants, as_smpp_map_remove(k)
  PROVE  Abstract!Remove(Content(k))
<1> DEFINE n == as_smpp_map_get_node(k)
<1>1. CASE RemoveFound(k)
  <2>1. EntryTaken(heap, heap', n)
    BY <1>1, RemoveFoundKeeps
  <2>2. n # NULL /\ mem' = mem /\ reply' = Abstract!Reply("remove", Content(k), "NONE")
    BY <1>1 DEF RemoveFound, Says, Abstract!Reply
  <2>3. Content(k) = ContentIn(mem, heap[n].key) /\ Content(k) \in DOMAIN AbstractMap
    BY <2>2, GetNodeMap
  <2> HIDE DEF n
  <2>4. Distinct(heap, mem) /\ Distinct(heap', mem)
    <3>1. Distinct(heap, mem)
      BY DistinctKeys
    <3>2. Distinct(heap', mem')
      BY DistinctNext
    <3>3. QED
      BY <2>2, <3>1, <3>2
  <2>5. AbstractMap' = Abstract!Without(Content(k))
    <3>1. MapOf(heap', mem) = MapWithout(MapOf(heap, mem), Content(k))
      BY <2>1, <2>3, <2>4, MapShrinks
    <3>2. AbstractMap' = MapWithout(AbstractMap, Content(k))
      BY <2>2, <3>1, MapIs
    <3>3. QED
      BY <3>2 DEF MapWithout, Abstract!Without
  <2>6. QED
    BY <2>2, <2>3, <2>5 DEF Abstract!Remove
<1>2. CASE RemoveMissing(k)
  <2>1. Content(k) \notin DOMAIN AbstractMap
    BY <1>2, GetNodeMap DEF RemoveMissing
  <2>2. AbstractMap' = AbstractMap /\ reply' = Abstract!Reply("remove", Content(k), "NOT_FOUND")
    BY <1>2, MapIs DEF RemoveMissing, Says, Abstract!Reply
  <2>3. QED
    BY <2>1, <2>2 DEF Abstract!Remove
<1>3. QED
  BY <1>1, <1>2 DEF as_smpp_map_remove

\* Each step is one of the finite map, or none.
LEMMA StepRefines ==
  Inv /\ Inv' /\ KeepsMemory /\ [Next]_vars => [Abstract!Next]_Abstract!vars
<1> SUFFICES ASSUME Inv, Inv', KeepsMemory, [Next]_vars
             PROVE  Abstract!Next \/ UNCHANGED Abstract!vars
  OBVIOUS
<1>1. ASSUME NEW e \in Entries, as_smpp_map_add(e.key, e.value)
      PROVE  Abstract!Add(Content(e.key), Content(e.value))
  <2>1. e.key \in Variants /\ e.value \in Variants
    BY EntriesAre
  <2>2. CASE AddRoot(e.key, e.value)
    <3>1. as_smpp_map_get_node(e.key) = NULL /\ mem' = mem /\ Says("add", e.key, "NONE")
      BY <2>2 DEF AddRoot, as_smpp_map_get_node
    <3>2. QED
      BY <2>1, <2>2, <3>1, AddRootKeeps, AddedRefines
  <2>3. CASE AddLeaf(e.key, e.value)
    <3>1. as_smpp_map_get_node(e.key) = NULL /\ mem' = mem /\ Says("add", e.key, "NONE")
      BY <2>3 DEF AddLeaf
    <3>2. QED
      BY <2>1, <2>3, <3>1, AddLeafKeeps, AddedRefines
  <2>4. CASE AddDuplicate(e.key)
    <3>1. Content(e.key) \in DOMAIN AbstractMap
      BY <2>1, <2>4, GetNodeMap DEF AddDuplicate
    <3>2. AbstractMap' = AbstractMap /\ reply' = Abstract!Reply("add", Content(e.key), "DUPLICATE")
      BY <2>4, MapIs DEF AddDuplicate, Says, Abstract!Reply
    <3>3. QED
      BY <3>1, <3>2 DEF Abstract!Add
  <2>5. QED
    BY <1>1, <2>2, <2>3, <2>4 DEF as_smpp_map_add
<1>2. ASSUME NEW e \in Entries, as_smpp_map_get(e.key) PROVE Abstract!Get(Content(e.key))
  <2>1. AbstractMap' = AbstractMap
    BY <1>2, MapIs DEF as_smpp_map_get
  <2>2. reply' = Abstract!Reply("get", Content(e.key),
                   IF Content(e.key) \in DOMAIN AbstractMap THEN AbstractMap[Content(e.key)] ELSE NULL)
    BY <1>2, EntriesAre, GetNodeMap DEF as_smpp_map_get, Says, Abstract!Reply
  <2>3. QED
    BY <2>1, <2>2 DEF Abstract!Get
<1>3. \A e \in Entries : Content(e.key) \in Data /\ Content(e.value) \in Data
  BY EntriesAre, GetNodeMap
<1>4. CASE CallerWrites
  <2>1. \A n \in DOMAIN heap : /\ ContentIn(mem', heap[n].key) = ContentIn(mem, heap[n].key)
                               /\ ContentIn(mem', heap[n].value) = ContentIn(mem, heap[n].value)
    BY <1>4, WritesKeeps
  <2>2. heap' = heap /\ reply' = reply
    BY <1>4 DEF CallerWrites
  <2>3. Distinct(heap, mem) /\ Distinct(heap, mem')
    BY <2>1, DistinctKeys DEF Distinct
  <2>4. KeysOf(heap, mem') = KeysOf(heap, mem)
    BY <2>1 DEF KeysOf
  <2>5. ASSUME NEW d \in KeysOf(heap, mem) PROVE MapOf(heap, mem')[d] = MapOf(heap, mem)[d]
    <3>1. PICK n \in DOMAIN heap : d = ContentIn(mem, heap[n].key)
      BY <2>5 DEF KeysOf
    <3>2. MapOf(heap, mem)[d] = ContentIn(mem, heap[n].value)
      BY <2>3, <3>1, MapOfIs
    <3>3. MapOf(heap, mem')[d] = ContentIn(mem', heap[n].value)
      BY <2>1, <2>3, <3>1, MapOfIs
    <3>4. QED
      BY <2>1, <3>2, <3>3
  <2>6. MapOf(heap, mem') = [d \in KeysOf(heap, mem) |-> MapOf(heap, mem')[d]]
        /\ MapOf(heap, mem) = [d \in KeysOf(heap, mem) |-> MapOf(heap, mem)[d]]
    BY <2>4 DEF MapOf
  <2>7. MapOf(heap, mem') = MapOf(heap, mem)
    BY <2>5, <2>6
  <2>8. QED
    BY <2>2, <2>7, MapIs DEF Abstract!vars
<1>5. CASE UNCHANGED vars
  BY <1>5, MapIs DEF vars, Abstract!vars
<1>6. ASSUME NEW e \in Entries, as_smpp_map_remove(e.key) PROVE Abstract!Remove(Content(e.key))
  BY <1>6, EntriesAre, RemoveRefines
<1>7. QED
  BY <1>1, <1>2, <1>3, <1>4, <1>5, <1>6 DEF Next, Abstract!Next

\* The trees are a finite map, if the caller leaves alone the memory it passed,
\* which the map does not copy.
THEOREM Refinement == ASSUME KeepsMemory PROVE Spec => ImplementsMap
<1>1. Inv /\ Inv' /\ [Next]_vars => [Abstract!Next]_Abstract!vars
  BY StepRefines
<1>2. QED
  BY <1>1, InitRefines, Invariance, PTL DEF Spec, ImplementsMap, Abstract!Spec

==============================================================================
