----------------------------- MODULE PduProofs -----------------------------
(***************************************************************************)
(* Theorems about Requests and Dispatch: what one side writes is what the  *)
(* other reads, for any base and width of numbers, any lengths of strings  *)
(* and any contents.                                                       *)
(*                                                                         *)
(* The lemmas go from a number to a string, a field, a TLV and a layout,   *)
(* each written and read back (IntegerRead, StringRead, FieldRead,         *)
(* TlvsRead, LayoutRead), and from there to the PDUs: a submit_sm and a    *)
(* bind that the peer reads, a deliver_sm and the responses that the       *)
(* worker reads.  The invariants, at the end of the parts on Requests and  *)
(* on Dispatch, add to this what a step leaves alone: the call and the PDU *)
(* it belongs to, what lies in the receive buffer, and how many calls and  *)
(* answers there are.                                                      *)
(***************************************************************************)
EXTENDS Dispatch, Requests, FiniteSetTheorems, WellFoundedInduction, TLAPS

-----------------------------------------------------------------------------
(***************************************************************************)
(* Induction: a set of numbers with 0 in it, and with each number the      *)
(* next, has all numbers in it.                                            *)
(***************************************************************************)
\* A set of numbers that is not empty has a least one.
LEMMA LeastNumber ==
  ASSUME NEW S \in SUBSET Nat, S # {}
  PROVE  \E x \in S : \A y \in S : x <= y
<1>1. PICK m \in S : TRUE
  OBVIOUS
<1> DEFINE F == {T \in SUBSET (0..m) : \E x \in S : T = 0..x}
<1>2. IsFiniteSet(0..m)
  BY <1>1, FS_Interval
<1>3. F \subseteq FiniteSubsetsOf(0..m) /\ F # {}
  <2>1. 0..m \in F
    BY <1>1
  <2>2. QED
    BY <1>2, <2>1, FS_FiniteSubsetsOfFinite
<1>4. PICK T \in F : \A U \in F : <<U, T>> \notin StrictSubsetOrdering(0..m)
  BY <1>2, <1>3, FS_StrictSubsetOrderingWellFounded, WFMin
<1>5. PICK x \in S : T = 0..x
  BY <1>4
<1>6. ASSUME NEW y \in S, y < x PROVE FALSE
  <2>1. 0..y \in F /\ 0..y \subseteq T /\ 0..y # T
    BY <1>4, <1>5, <1>6
  <2>2. QED
    BY <1>3, <1>4, <2>1 DEF StrictSubsetOrdering
<1>7. QED
  BY <1>6

\* A set with 0 in it, and with the next of each number in it, has every number in it.
LEMMA Induction ==
  ASSUME NEW S, 0 \in S, \A n \in Nat : n \in S => n + 1 \in S
  PROVE  \A n \in Nat : n \in S
<1> DEFINE Out == {n \in Nat : n \notin S}
<1>1. SUFFICES ASSUME Out # {} PROVE FALSE
  OBVIOUS
<1>2. PICK x \in Out : \A y \in Out : x <= y
  <2> HIDE DEF Out
  <2>1. Out \in SUBSET Nat
    BY DEF Out
  <2>2. QED
    BY <1>1, <2>1, LeastNumber
<1>3. x # 0 /\ x \in Nat
  BY <1>2
<1>4. x - 1 \in Nat /\ ~(x <= x - 1)
  BY <1>3
<1>5. x - 1 \in S
  BY <1>2, <1>4
<1>6. (x - 1) + 1 = x
  BY <1>3
<1>7. QED
  BY <1>2, <1>4, <1>5, <1>6

-----------------------------------------------------------------------------
(***************************************************************************)
(* What the operations of the growing buffer do to the data in it, for any *)
(* contents and sizes.                                                     *)
(***************************************************************************)
\* A function on 1..n is a sequence of length n.
LEMMA FunctionIsSeq ==
  ASSUME NEW S, NEW n \in Nat, NEW f \in [1..n -> S]
  PROVE  f \in Seq(S) /\ Len(f) = n
OBVIOUS

\* ensure_capacity makes room for the block and keeps what is in the memory;
\* it grows the memory only if the block does not fit.
LEMMA EnsureCapacity ==
  ASSUME Slack \in Nat, NEW Cell, Garbage \in Cell,
         NEW b \in B!BufferOf(Cell), NEW n \in Nat,
         NEW e, e = B!as_smpp_buffer_ensure_capacity(b, n)
  PROVE  /\ e \in B!BufferOf(Cell)
         /\ e.dataLen = b.dataLen
         /\ b.dataLen + n <= Len(e.ptr)
         /\ \A i \in 1..Len(b.ptr) : e.ptr[i] = b.ptr[i]
         /\ \/ Len(e.ptr) = Len(b.ptr)
            \/ Len(b.ptr) < b.dataLen + n /\ Len(e.ptr) = Len(b.ptr) + n + Slack
<1> DEFINE more == B!Fresh(n + Slack)
<1>1. more \in Seq(Cell) /\ Len(more) = n + Slack
  BY DEF B!Fresh
<1>2. /\ b.ptr \in Seq(Cell) /\ Len(b.ptr) \in Nat
      /\ b.dataLen \in Nat /\ b.dataLen <= Len(b.ptr)
  BY DEF B!BufferOf
<1>3. CASE b.dataLen + n <= Len(b.ptr)
  <2>1. ~(b.dataLen + n > Len(b.ptr))
    BY <1>2, <1>3
  <2>2. e = b
    BY <2>1 DEF B!as_smpp_buffer_ensure_capacity
  <2>3. QED
    BY <1>2, <1>3, <2>2
<1>4. CASE b.dataLen + n > Len(b.ptr)
  <2>1. e = [ptr |-> b.ptr \o more, dataLen |-> b.dataLen]
    BY <1>2, <1>4 DEF B!as_smpp_buffer_ensure_capacity
  <2> HIDE DEF more
  <2>2. e.ptr = b.ptr \o more /\ e.dataLen = b.dataLen
    BY <2>1
  <2>3. /\ e.ptr \in Seq(Cell)
        /\ Len(e.ptr) = Len(b.ptr) + n + Slack
        /\ \A i \in 1..Len(b.ptr) : e.ptr[i] = b.ptr[i]
    <3> DEFINE p == b.ptr
    <3>1. p \in Seq(Cell) /\ more \in Seq(Cell) /\ Len(more) = n + Slack
      BY <1>1, <1>2
    <3> HIDE DEF p
    <3>2. /\ p \o more \in Seq(Cell)
          /\ Len(p \o more) = Len(p) + Len(more)
          /\ \A i \in 1..Len(p) : (p \o more)[i] = p[i]
      BY <3>1
    <3>3. e.ptr = p \o more /\ Len(p) = Len(b.ptr)
      BY <2>2 DEF p
    <3>4. e.ptr \in Seq(Cell)
      BY <3>2, <3>3
    <3>5. Len(e.ptr) = Len(b.ptr) + n + Slack
      <4>1. Len(e.ptr) = Len(b.ptr) + (n + Slack)
        BY <3>1, <3>2, <3>3
      <4>2. ASSUME NEW k \in Nat PROVE k + (n + Slack) = k + n + Slack
        OBVIOUS
      <4>3. Len(b.ptr) \in Nat
        BY <1>2
      <4>4. QED
        BY <4>1, <4>2, <4>3
    <3>6. \A i \in 1..Len(b.ptr) : e.ptr[i] = b.ptr[i]
      BY <3>2, <3>3 DEF p
    <3>7. QED
      BY <3>4, <3>5, <3>6
  <2>4. e \in [ptr : Seq(Cell), dataLen : Nat]
    BY <2>1, <2>2, <2>3, <1>2 DEF B!BufferOf
  <2>5. QED
    BY <1>2, <1>4, <2>2, <2>3, <2>4 DEF B!BufferOf
<1>5. QED
  BY <1>2, <1>3, <1>4

\* copy appends the cells to the data, and stays inside the memory.
LEMMA CopyData ==
  ASSUME Slack \in Nat, NEW Cell, Garbage \in Cell,
         NEW b \in B!BufferOf(Cell), NEW s \in Seq(Cell),
         NEW c, c = B!as_smpp_buffer_copy(b, s)
  PROVE  /\ c \in B!BufferOf(Cell)
         /\ c.dataLen = b.dataLen + Len(s)
         /\ \A i \in 1..b.dataLen : c.ptr[i] = b.ptr[i]
         /\ \A i \in 1..Len(s) : c.ptr[b.dataLen + i] = s[i]
         /\ \A i \in 1..Len(b.ptr) : i > c.dataLen => c.ptr[i] = b.ptr[i]
         /\ \/ Len(c.ptr) = Len(b.ptr)
            \/ /\ Len(b.ptr) < b.dataLen + Len(s)
               /\ Len(c.ptr) = Len(b.ptr) + Len(s) + Slack
<1> DEFINE e == B!as_smpp_buffer_ensure_capacity(b, Len(s))
           end == b.dataLen + Len(s)
           m == [i \in 1..Len(e.ptr) |->
                   IF b.dataLen < i /\ i <= end THEN s[i - b.dataLen] ELSE e.ptr[i]]
<1>1. Len(s) \in Nat /\ b.dataLen \in Nat /\ b.dataLen <= Len(b.ptr) /\ b.ptr \in Seq(Cell)
  BY DEF B!BufferOf
<1>2. /\ e \in B!BufferOf(Cell)
      /\ end <= Len(e.ptr)
      /\ \A i \in 1..Len(b.ptr) : e.ptr[i] = b.ptr[i]
      /\ \/ Len(e.ptr) = Len(b.ptr)
         \/ Len(b.ptr) < end /\ Len(e.ptr) = Len(b.ptr) + Len(s) + Slack
  BY <1>1, EnsureCapacity
<1>3. e.ptr \in Seq(Cell) /\ Len(e.ptr) \in Nat
  BY <1>2 DEF B!BufferOf
<1>4. c = [ptr |-> m, dataLen |-> end]
  BY DEF B!as_smpp_buffer_copy
<1> HIDE DEF e
<1>5. m \in Seq(Cell) /\ Len(m) = Len(e.ptr)
  <2>1. m \in [1..Len(e.ptr) -> Cell]
    BY <1>1, <1>3
  <2> HIDE DEF m
  <2>2. QED
    BY <1>3, <2>1, FunctionIsSeq
<1>6. c \in B!BufferOf(Cell)
  BY <1>1, <1>2, <1>4, <1>5 DEF B!BufferOf
<1>7. Len(b.ptr) <= Len(e.ptr)
  BY <1>1, <1>2, <1>3
<1>8. c.dataLen = end /\ c.ptr = m
  BY <1>4
<1>9. \A i \in 1..b.dataLen : m[i] = b.ptr[i]
  BY <1>1, <1>2, <1>3, <1>7
<1>10. \A i \in 1..Len(s) : m[b.dataLen + i] = s[i]
  BY <1>1, <1>2, <1>3
<1>11. \A i \in 1..Len(b.ptr) : i > end => m[i] = b.ptr[i]
  BY <1>1, <1>2, <1>3, <1>7
<1> HIDE DEF m
<1>12. QED
  BY <1>1, <1>2, <1>5, <1>6, <1>8, <1>9, <1>10, <1>11

\* remove, at index 0, drops len cells from the front of the data, or all of it.
LEMMA RemoveData ==
  ASSUME NEW Cell, NEW b \in B!BufferOf(Cell), NEW len \in Nat,
         NEW r, r = B!as_smpp_buffer_remove(b, 0, len)
  PROVE  /\ r \in B!BufferOf(Cell)
         /\ r.dataLen = IF b.dataLen <= len THEN 0 ELSE b.dataLen - len
         /\ \A i \in 1..r.dataLen : r.ptr[i] = b.ptr[i + len]
         /\ Len(r.ptr) = Len(b.ptr)
<1>1. /\ b.ptr \in Seq(Cell) /\ Len(b.ptr) \in Nat
      /\ b.dataLen \in Nat /\ b.dataLen <= Len(b.ptr)
  BY DEF B!BufferOf
<1>2. CASE b.dataLen <= len
  BY <1>1, <1>2 DEF B!as_smpp_buffer_remove, B!BufferOf
<1>3. CASE b.dataLen > len
  <2> DEFINE end == 0 + b.dataLen - len
             m == [i \in 1..Len(b.ptr) |->
                     IF 0 < i /\ i <= end THEN b.ptr[i + len - 0] ELSE b.ptr[i]]
  <2>1. r = [ptr |-> m, dataLen |-> end]
    BY <1>1, <1>3 DEF B!as_smpp_buffer_remove
  <2>2. m \in Seq(Cell) /\ Len(m) = Len(b.ptr)
    <3>1. m \in [1..Len(b.ptr) -> Cell]
      BY <1>1, <1>3
    <3> HIDE DEF m
    <3>2. QED
      BY <1>1, <3>1, FunctionIsSeq
  <2>3. end \in Nat /\ end <= Len(m) /\ end = b.dataLen - len
    BY <1>1, <1>3, <2>2
  <2>4. \A i \in 1..end : m[i] = b.ptr[i + len]
    BY <1>1, <1>3
  <2> HIDE DEF m, end
  <2>5. r \in B!BufferOf(Cell) /\ r.ptr = m /\ r.dataLen = end
    BY <2>1, <2>2, <2>3 DEF B!BufferOf
  <2>6. QED
    BY <1>1, <1>3, <2>2, <2>3, <2>4, <2>5
<1>4. QED
  BY <1>1, <1>2, <1>3

-----------------------------------------------------------------------------
(***************************************************************************)
(* Integers.                                                               *)
(***************************************************************************)
\* The recursion of Shifted is well defined.
LEMMA ShiftedIs ==
  ASSUME NEW v \in Nat, NEW len \in Nat
  PROVE  /\ Shifted(v, len) \in [0..len -> Nat]
         /\ Shifted(v, len)[0] = v
         /\ \A k \in 1..len : Shifted(v, len)[k] = Shifted(v, len)[k - 1] \div Base
<1> DEFINE Is(f, n) == f = [k \in 0..n |-> IF k = 0 THEN v ELSE f[k - 1] \div Base]
           D == {n \in Nat : \E f : Is(f, n)}
<1>1. 0 \in D
  <2>1. Is([k \in 0..0 |-> v], 0)
    OBVIOUS
  <2>2. QED
    BY <2>1
<1>2. ASSUME NEW n \in Nat, n \in D PROVE n + 1 \in D
  <2>1. PICK f : Is(f, n)
    BY <1>2
  <2> DEFINE g == [k \in 0..(n + 1) |-> IF k = n + 1 THEN f[n] \div Base ELSE f[k]]
  <2>2. \A k \in 0..n : g[k] = f[k]
    OBVIOUS
  <2>3. g[n + 1] = g[n] \div Base
    OBVIOUS
  <2>4. \A k \in 0..n : g[k] = IF k = 0 THEN v ELSE g[k - 1] \div Base
    BY <2>1, <2>2
  <2>5. \A k \in 0..(n + 1) : g[k] = IF k = 0 THEN v ELSE g[k - 1] \div Base
    <3> HIDE DEF g
    <3>1. \A k \in 0..(n + 1) : k \in 0..n \/ (k = n + 1 /\ k # 0 /\ k - 1 = n)
      OBVIOUS
    <3>2. QED
      BY <2>3, <2>4, <3>1
  <2>6. g = [k \in 0..(n + 1) |-> g[k]]
    OBVIOUS
  <2>7. Is(g, n + 1)
    <3> HIDE DEF g
    <3>1. QED
      BY <2>5, <2>6
  <2>8. QED
    <3> HIDE DEF Is
    <3>1. QED
      BY <2>7
<1>3. len \in D
  <2> HIDE DEF D
  <2>1. QED
    BY <1>1, <1>2, Induction
<1>4. Is(Shifted(v, len), len)
  BY <1>3 DEF Shifted
<1> DEFINE E == {n \in Nat : n <= len => Shifted(v, len)[n] \in Nat}
<1> DEFINE s == Shifted(v, len)
<1>5. DOMAIN s = 0..len /\ s[0] = v /\ \A k \in 1..len : s[k] = s[k - 1] \div Base
  BY <1>4
<1>6. \A n \in Nat : n \in E
  <2> HIDE DEF s
  <2>1. 0 \in E
    BY <1>5 DEF s
  <2>2. ASSUME NEW n \in Nat, n \in E PROVE n + 1 \in E
    <3>1. n + 1 <= len => s[n + 1] = s[n] \div Base
      BY <1>5
    <3>2. n + 1 <= len => s[n] \in Nat
      BY <2>2 DEF s
    <3>3. QED
      BY <3>1, <3>2, OctetAssumption DEF s
  <2> HIDE DEF E
  <2>3. QED
    BY <2>1, <2>2, Induction
<1>7. QED
  BY <1>4, <1>5, <1>6

\* The recursion of Gathered is well defined.
LEMMA GatheredIs ==
  ASSUME NEW ptr, NEW at, NEW len \in Nat
  PROVE  /\ Gathered(ptr, at, len)[0] = 0
         /\ \A k \in 1..len :
              Gathered(ptr, at, len)[k] = Gathered(ptr, at, len)[k - 1] * Base + ptr[at + k]
<1> DEFINE Is(f, n) == f = [k \in 0..n |-> IF k = 0 THEN 0 ELSE f[k - 1] * Base + ptr[at + k]]
           D == {n \in Nat : \E f : Is(f, n)}
<1>1. 0 \in D
  <2>1. Is([k \in 0..0 |-> 0], 0)
    OBVIOUS
  <2>2. QED
    BY <2>1
<1>2. ASSUME NEW n \in Nat, n \in D PROVE n + 1 \in D
  <2>1. PICK f : Is(f, n)
    BY <1>2
  <2> DEFINE g == [k \in 0..(n + 1) |->
                     IF k = n + 1 THEN f[n] * Base + ptr[at + (n + 1)] ELSE f[k]]
  <2>2. \A k \in 0..n : g[k] = f[k]
    OBVIOUS
  <2>3. g[n + 1] = g[n] * Base + ptr[at + (n + 1)]
    OBVIOUS
  <2>4. \A k \in 0..n : g[k] = IF k = 0 THEN 0 ELSE g[k - 1] * Base + ptr[at + k]
    BY <2>1, <2>2
  <2>5. \A k \in 0..(n + 1) : g[k] = IF k = 0 THEN 0 ELSE g[k - 1] * Base + ptr[at + k]
    <3> HIDE DEF g
    <3>1. \A k \in 0..(n + 1) : k \in 0..n \/ (k = n + 1 /\ k # 0 /\ k - 1 = n)
      OBVIOUS
    <3>2. QED
      BY <2>3, <2>4, <3>1
  <2>6. g = [k \in 0..(n + 1) |-> g[k]]
    OBVIOUS
  <2>7. Is(g, n + 1)
    <3> HIDE DEF g
    <3>1. QED
      BY <2>5, <2>6
  <2>8. QED
    <3> HIDE DEF Is
    <3>1. QED
      BY <2>7
<1>3. len \in D
  <2> HIDE DEF D
  <2>1. QED
    BY <1>1, <1>2, Induction
<1>4. Is(Gathered(ptr, at, len), len)
  BY <1>3 DEF Gathered
<1>5. QED
  BY <1>4

\* A quotient and its remainder give the number back.
LEMMA DivMod ==
  ASSUME NEW x \in Nat, NEW d \in Nat, d > 0
  PROVE  x \div d \in Nat /\ x % d \in 0..(d - 1) /\ (x \div d) * d + (x % d) = x
BY SMTT(30)

\* The octets are in the memory, behind the first at octets of it.
Holds(ptr, at, octets) ==
  at + Len(octets) <= Len(ptr) /\ \A i \in 1..Len(octets) : ptr[at + i] = octets[i]

\* serialize_integer writes len octets.
LEMMA IntegerOctets ==
  ASSUME NEW v \in Nat, NEW len \in Nat
  PROVE  /\ as_smpp_serialize_integer(v, len) \in Seq(Octet)
         /\ Len(as_smpp_serialize_integer(v, len)) = len
         /\ \A i \in 1..len :
              as_smpp_serialize_integer(v, len)[i] = Shifted(v, len)[len - i] % Base
<1> DEFINE s == Shifted(v, len)
<1>1. s \in [0..len -> Nat]
  BY ShiftedIs
<1> HIDE DEF s
<1>2. \A i \in 1..len : s[len - i] % Base \in Octet
  <2>1. SUFFICES ASSUME NEW i \in 1..len PROVE s[len - i] % Base \in Octet
    OBVIOUS
  <2>2. s[len - i] \in Nat
    BY <1>1
  <2>3. QED
    BY <2>2, OctetAssumption, DivMod DEF Octet
<1> DEFINE f == [i \in 1..len |-> s[len - i] % Base]
<1>3. f \in [1..len -> Octet]
  BY <1>2
<1>4. as_smpp_serialize_integer(v, len) = f
  BY DEF as_smpp_serialize_integer, s
<1>5. \A i \in 1..len : f[i] = s[len - i] % Base
  OBVIOUS
<1> HIDE DEF f
<1>6. f \in Seq(Octet) /\ Len(f) = len
  BY <1>3
<1>7. QED
  BY <1>4, <1>5, <1>6 DEF s

\* A number that fits in its octets is read as it was written.
LEMMA IntegerRead ==
  ASSUME NEW v \in Nat, NEW len \in Nat, FitsIn(v, len), NEW ptr, NEW at \in Nat,
         Holds(ptr, at, as_smpp_serialize_integer(v, len))
  PROVE  as_smpp_deserialize_integer(ptr, at, len) = [value |-> v, index |-> at + len]
<1> DEFINE s == Shifted(v, len)
           g == Gathered(ptr, at, len)
           D == {k \in Nat : k <= len => g[k] = s[len - k]}
<1>1. /\ s \in [0..len -> Nat] /\ s[0] = v /\ s[len] = 0
      /\ \A k \in 1..len : s[k] = s[k - 1] \div Base
  BY ShiftedIs DEF FitsIn
<1>2. g[0] = 0 /\ \A k \in 1..len : g[k] = g[k - 1] * Base + ptr[at + k]
  BY GatheredIs
<1>3. \A k \in 1..len : ptr[at + k] = s[len - k] % Base
  BY IntegerOctets DEF Holds
<1> HIDE DEF s, g
<1>4. 0 \in D
  BY <1>1, <1>2
<1>5. ASSUME NEW k \in Nat, k \in D PROVE k + 1 \in D
  <2>1. SUFFICES ASSUME k + 1 <= len PROVE g[k + 1] = s[len - (k + 1)]
    OBVIOUS
  <2> DEFINE x == s[len - (k + 1)]
  <2>2. x \in Nat /\ s[len - k] = x \div Base
    <3>1. len - k \in 1..len /\ len - (k + 1) \in 0..len /\ (len - k) - 1 = len - (k + 1)
      BY <2>1
    <3>2. QED
      BY <1>1, <3>1
  <2>3. g[k] = x \div Base
    BY <1>5, <2>1, <2>2
  <2>4. k + 1 \in 1..len /\ (k + 1) - 1 = k
    BY <2>1
  <2>5. g[k + 1] = (x \div Base) * Base + (x % Base)
    BY <1>2, <1>3, <2>3, <2>4
  <2> HIDE DEF x
  <2>6. g[k + 1] = x
    BY <2>2, <2>5, OctetAssumption, DivMod
  <2>7. QED
    BY <2>6 DEF x
<1>6. len \in D
  <2> HIDE DEF D
  <2>1. QED
    BY <1>4, <1>5, Induction
<1>7. g[len] = v
  BY <1>1, <1>6
<1>8. QED
  BY <1>7 DEF as_smpp_deserialize_integer, g

\* A smaller number fits, too.
LEMMA SmallerFits ==
  ASSUME NEW v \in Nat, NEW w \in Nat, v <= w, NEW len \in Nat, FitsIn(w, len)
  PROVE  FitsIn(v, len)
<1> DEFINE s == Shifted(v, len)
           r == Shifted(w, len)
           D == {k \in Nat : k <= len => s[k] <= r[k]}
<1>1. /\ s \in [0..len -> Nat] /\ s[0] = v
      /\ \A k \in 1..len : s[k] = s[k - 1] \div Base
  BY ShiftedIs
<1>2. /\ r \in [0..len -> Nat] /\ r[0] = w /\ r[len] = 0
      /\ \A k \in 1..len : r[k] = r[k - 1] \div Base
  BY ShiftedIs DEF FitsIn
<1> HIDE DEF s, r
<1>3. 0 \in D
  BY <1>1, <1>2
<1>4. ASSUME NEW k \in Nat, k \in D PROVE k + 1 \in D
  <2>1. SUFFICES ASSUME k + 1 <= len PROVE s[k + 1] <= r[k + 1]
    OBVIOUS
  <2>2. s[k] \in Nat /\ r[k] \in Nat /\ s[k] <= r[k]
    BY <1>1, <1>2, <1>4, <2>1
  <2>3. s[k + 1] = s[k] \div Base /\ r[k + 1] = r[k] \div Base
    BY <1>1, <1>2, <2>1
  <2>4. ASSUME NEW x \in Nat, NEW y \in Nat, x <= y PROVE x \div Base <= y \div Base
    BY <2>4, OctetAssumption, SMTT(30)
  <2>5. QED
    BY <2>2, <2>3, <2>4
<1>5. len \in D
  <2> HIDE DEF D
  <2>1. QED
    BY <1>3, <1>4, Induction
<1>6. QED
  BY <1>1, <1>2, <1>5 DEF FitsIn, s

-----------------------------------------------------------------------------
(***************************************************************************)
(* Strings and the message.                                                *)
(***************************************************************************)
\* The octets that the memory holds are those a copy from there has.
LEMMA Copied ==
  ASSUME NEW S, NEW ptr \in Seq(S), NEW s \in Seq(S), NEW at \in Nat, Holds(ptr, at, s)
  PROVE  SubSeq(ptr, at + 1, at + Len(s)) = s
<1> DEFINE c == SubSeq(ptr, at + 1, at + Len(s))
<1>1. /\ Len(s) \in Nat /\ Len(ptr) \in Nat /\ at + Len(s) <= Len(ptr)
      /\ \A i \in 1..Len(s) : ptr[at + i] = s[i]
  BY DEF Holds
<1>2. c = [i \in 1..Len(s) |-> s[i]]
  <2>1. c \in Seq(S) /\ Len(c) = Len(s)
    BY <1>1
  <2>2. ASSUME NEW i \in 1..Len(s) PROVE c[i] = s[i]
    <3>1. c[i] = ptr[at + i]
      BY <1>1
    <3>2. QED
      BY <1>1, <3>1
  <2> HIDE DEF c
  <2>3. QED
    BY <2>1, <2>2
<1>3. s = [i \in 1..Len(s) |-> s[i]]
  OBVIOUS
<1>4. QED
  BY <1>2, <1>3

\* strlen finds the first zero.
LEMMA Strlen ==
  ASSUME NEW ptr \in Seq(Octet), NEW s \in Seq(Octet \ {0}), NEW at \in Nat,
         Holds(ptr, at, Append(s, 0))
  PROVE  strlen(ptr, at) = Len(s)
<1> DEFINE P(n) == /\ n = Len(ptr) - at \/ ptr[at + n + 1] = 0
                   /\ \A m \in 1..n : ptr[at + m] # 0
<1>1. /\ Len(s) \in Nat /\ Len(ptr) \in Nat /\ at + Len(s) + 1 <= Len(ptr)
      /\ \A i \in 1..Len(s) : ptr[at + i] = s[i] /\ s[i] # 0
      /\ ptr[at + (Len(s) + 1)] = 0
  <2>1. Len(Append(s, 0)) = Len(s) + 1 /\ Append(s, 0)[Len(s) + 1] = 0
    OBVIOUS
  <2>2. \A i \in 1..Len(s) : Append(s, 0)[i] = s[i] /\ s[i] # 0
    OBVIOUS
  <2>3. QED
    BY <2>1, <2>2 DEF Holds
<1>2. Len(s) \in 0..(Len(ptr) - at) /\ P(Len(s))
  BY <1>1
<1>3. ASSUME NEW n \in 0..(Len(ptr) - at), P(n) PROVE n = Len(s)
  <2>1. ~(n < Len(s))
    <3>1. SUFFICES ASSUME n < Len(s) PROVE FALSE
      OBVIOUS
    <3>2. n # Len(ptr) - at /\ n + 1 \in 1..Len(s)
      BY <1>1, <3>1
    <3>3. ptr[at + (n + 1)] # 0
      BY <1>1, <3>2
    <3>4. at + n + 1 = at + (n + 1)
      OBVIOUS
    <3>5. QED
      BY <1>3, <3>2, <3>3, <3>4
  <2>2. ~(n > Len(s))
    <3>1. SUFFICES ASSUME n > Len(s) PROVE FALSE
      OBVIOUS
    <3>2. Len(s) + 1 \in 1..n
      BY <1>1, <3>1
    <3>3. QED
      BY <1>1, <1>3, <3>2
  <2>3. QED
    BY <1>1, <2>1, <2>2
<1> HIDE DEF P
<1>4. strlen(ptr, at) = CHOOSE n \in 0..(Len(ptr) - at) : P(n)
  BY DEF strlen, P
<1>5. QED
  BY <1>2, <1>3, <1>4

\* as_smpp_deserialize_string reads the string that was written, up to behind its zero.
LEMMA StringRead ==
  ASSUME NEW ptr \in Seq(Octet), NEW s \in Seq(Octet \ {0}), NEW at \in Nat,
         Holds(ptr, at, Append(s, 0))
  PROVE  as_smpp_deserialize_string(ptr, at) = [value |-> s, index |-> at + Len(s) + 1]
<1>1. s \in Seq(Octet) /\ Holds(ptr, at, s)
  <2>1. Len(Append(s, 0)) = Len(s) + 1 /\ \A i \in 1..Len(s) : Append(s, 0)[i] = s[i]
    OBVIOUS
  <2>2. Len(s) \in Nat /\ Len(ptr) \in Nat
    OBVIOUS
  <2>3. QED
    BY <2>1, <2>2 DEF Holds
<1>2. SubSeq(ptr, at + 1, at + Len(s)) = s
  BY <1>1, Copied
<1>3. QED
  BY <1>2, Strlen DEF as_smpp_deserialize_string

\* What a C string says: nothing, if it is the null pointer.
TextOf(s) == IF s = NULL THEN <<>> ELSE s

\* serialize_string writes maxLen octets at most, and a string that leaves room
\* for its terminator with it.
LEMMA StringOctets ==
  ASSUME NEW s, Text(s), NEW maxLen \in Nat, maxLen > 0
  PROVE  /\ as_smpp_serialize_string(s, maxLen) \in Seq(Octet)
         /\ Len(as_smpp_serialize_string(s, maxLen)) <= maxLen
         /\ TextOf(s) \in Seq(Octet \ {0})
         /\ s = NULL \/ Len(s) < maxLen
              => as_smpp_serialize_string(s, maxLen) = Append(TextOf(s), 0)
<1>0. 0 \in Octet
  BY OctetAssumption DEF Octet
<1>1. CASE s = NULL
  <2>1. as_smpp_serialize_string(s, maxLen) = <<0>> /\ TextOf(s) = <<>>
    BY <1>1 DEF as_smpp_serialize_string, TextOf
  <2>2. <<0>> \in Seq(Octet) /\ Len(<<0>>) = 1 /\ Append(<<>>, 0) = <<0>>
    BY <1>0
  <2>3. <<>> \in Seq(Octet \ {0})
    OBVIOUS
  <2>4. QED
    BY <2>1, <2>2, <2>3
<1>2. CASE s # NULL
  <2>1. s \in Seq(Octet \ {0}) /\ TextOf(s) = s
    BY <1>2 DEF Text, TextOf
  <2> DEFINE a == Append(s, 0)
             n == IF Len(s) + 1 > maxLen THEN maxLen ELSE Len(s) + 1
  <2>2. a \in Seq(Octet) /\ Len(a) = Len(s) + 1 /\ Len(s) \in Nat
    BY <1>0, <2>1
  <2>3. n \in 1..Len(a) /\ n <= maxLen
    BY <2>2
  <2>4. as_smpp_serialize_string(s, maxLen) = SubSeq(a, 1, n)
    BY <1>2 DEF as_smpp_serialize_string
  <2>5. Len(s) < maxLen => n = Len(a)
    BY <2>2
  <2> HIDE DEF a, n
  <2>6. SubSeq(a, 1, n) \in Seq(Octet) /\ Len(SubSeq(a, 1, n)) = n
    BY <2>2, <2>3
  <2>7. n = Len(a) => SubSeq(a, 1, n) = a
    <3>1. SUFFICES ASSUME n = Len(a) PROVE SubSeq(a, 1, n) = a
      OBVIOUS
    <3>2. \A i \in 1..n : SubSeq(a, 1, n)[i] = a[i]
      BY <2>2, <2>3
    <3>3. QED
      BY <2>2, <2>6, <3>1, <3>2
  <2>8. QED
    BY <1>2, <2>1, <2>3, <2>4, <2>5, <2>6, <2>7 DEF a
<1>3. QED
  BY <1>1, <1>2

-----------------------------------------------------------------------------
(***************************************************************************)
(* Octets that were written one after the other.                           *)
(***************************************************************************)
LEMMA Concatenated ==
  ASSUME NEW S, NEW a \in Seq(S), NEW b \in Seq(S)
  PROVE  a \o b \in Seq(S) /\ Len(a \o b) = Len(a) + Len(b)
OBVIOUS

\* A memory holds a concatenation when it holds the one part and behind it the other.
LEMMA HoldsBoth ==
  ASSUME NEW S, NEW a \in Seq(S), NEW b \in Seq(S), NEW ptr, Len(ptr) \in Nat, NEW at \in Nat
  PROVE  Holds(ptr, at, a \o b) <=> Holds(ptr, at, a) /\ Holds(ptr, at + Len(a), b)
<1>1. /\ Len(a) \in Nat /\ Len(b) \in Nat /\ Len(a \o b) = Len(a) + Len(b)
      /\ \A i \in 1..Len(a) : (a \o b)[i] = a[i]
      /\ \A i \in 1..Len(b) : (a \o b)[Len(a) + i] = b[i]
  OBVIOUS
<1>2. ASSUME Holds(ptr, at, a \o b) PROVE Holds(ptr, at, a)
  BY <1>1, <1>2 DEF Holds
<1>3. ASSUME Holds(ptr, at, a \o b) PROVE Holds(ptr, at + Len(a), b)
  <2>1. \A i \in 1..Len(b) : Len(a) + i \in 1..Len(a \o b)
    BY <1>1
  <2>2. \A i \in 1..Len(b) : ptr[at + (Len(a) + i)] = b[i]
    BY <1>1, <1>3, <2>1 DEF Holds
  <2>3. \A i \in 1..Len(b) : at + (Len(a) + i) = at + Len(a) + i
    BY <1>1
  <2>4. QED
    BY <1>1, <1>3, <2>2, <2>3 DEF Holds
<1>4. ASSUME Holds(ptr, at, a), Holds(ptr, at + Len(a), b) PROVE Holds(ptr, at, a \o b)
  <2>1. ASSUME NEW i \in 1..Len(a \o b) PROVE ptr[at + i] = (a \o b)[i]
    <3>1. CASE i <= Len(a)
      BY <1>1, <1>4, <3>1 DEF Holds
    <3>2. CASE i > Len(a)
      <4>1. i - Len(a) \in 1..Len(b) /\ Len(a) + (i - Len(a)) = i
        BY <1>1, <3>2
      <4>2. at + Len(a) + (i - Len(a)) = at + i
        BY <1>1
      <4>3. QED
        BY <1>1, <1>4, <4>1, <4>2 DEF Holds
    <3>3. QED
      BY <1>1, <3>1, <3>2
  <2>2. at + Len(a \o b) <= Len(ptr)
    BY <1>1, <1>4 DEF Holds
  <2>3. QED
    BY <2>1, <2>2 DEF Holds
<1>5. QED
  BY <1>2, <1>3, <1>4

\* FlattenSeq appends the pieces one by one.
LEMMA FlattenIs ==
  ASSUME NEW S, NEW F \in Seq(Seq(S))
  PROVE  \E joined \in [0..Len(F) -> Seq(S)] :
           /\ joined[0] = <<>>
           /\ \A k \in 1..Len(F) : joined[k] = joined[k - 1] \o F[k]
           /\ joined[Len(F)] = FlattenSeq(F)
<1> DEFINE Is(f, n) == f = [i \in 1..n |-> IF i = 1 THEN F[i] ELSE f[i - 1] \o F[i]]
           D == {n \in Nat : \E f : Is(f, n)}
<1>0. Len(F) \in Nat /\ \A i \in 1..Len(F) : F[i] \in Seq(S)
  OBVIOUS
<1>1. 0 \in D
  <2>1. Is([i \in 1..0 |-> <<>>], 0)
    OBVIOUS
  <2>2. QED
    BY <2>1
<1>2. ASSUME NEW n \in Nat, n \in D PROVE n + 1 \in D
  <2>1. PICK f : Is(f, n)
    BY <1>2
  <2> DEFINE Latest == IF n + 1 = 1 THEN F[n + 1] ELSE f[n] \o F[n + 1]
             g == [i \in 1..(n + 1) |-> IF i = n + 1 THEN Latest ELSE f[i]]
  <2>2. \A i \in 1..n : g[i] = f[i]
    OBVIOUS
  <2>3. g[n + 1] = Latest
    OBVIOUS
  <2>4. \A i \in 1..n : g[i] = IF i = 1 THEN F[i] ELSE g[i - 1] \o F[i]
    <3>1. \A i \in 1..n : f[i] = IF i = 1 THEN F[i] ELSE f[i - 1] \o F[i]
      BY <2>1
    <3>2. \A i \in 1..n : i # 1 => i - 1 \in 1..n
      OBVIOUS
    <3> HIDE DEF g
    <3>3. QED
      BY <2>2, <3>1, <3>2
  <2>5. \A i \in 1..(n + 1) : g[i] = IF i = 1 THEN F[i] ELSE g[i - 1] \o F[i]
    <3>1. n + 1 # 1 => g[n] = f[n] /\ (n + 1) - 1 = n
      BY <2>2
    <3> HIDE DEF g
    <3>2. \A i \in 1..(n + 1) : i \in 1..n \/ i = n + 1
      OBVIOUS
    <3>3. g[n + 1] = IF n + 1 = 1 THEN F[n + 1] ELSE g[(n + 1) - 1] \o F[n + 1]
      BY <2>3, <3>1
    <3>4. QED
      BY <2>4, <3>2, <3>3
  <2>6. g = [i \in 1..(n + 1) |-> g[i]]
    OBVIOUS
  <2>7. Is(g, n + 1)
    <3> HIDE DEF g
    <3>1. QED
      BY <2>5, <2>6
  <2>8. QED
    <3> HIDE DEF Is
    <3>1. QED
      BY <2>7
<1>3. Len(F) \in D
  <2> HIDE DEF D
  <2>1. QED
    BY <1>0, <1>1, <1>2, Induction
<1>4. CASE Len(F) = 0
  <2>1. F = <<>> /\ FlattenSeq(F) = F
    BY <1>4 DEF FlattenSeq
  <2> DEFINE joined == [k \in 0..0 |-> <<>>]
  <2>2. joined \in [0..Len(F) -> Seq(S)] /\ joined[0] = <<>>
    BY <1>4
  <2> HIDE DEF joined
  <2>3. \A k \in 1..Len(F) : FALSE
    BY <1>4
  <2>4. QED
    BY <1>4, <2>1, <2>2, <2>3
<1>5. CASE Len(F) # 0
  <2> DEFINE flat == CHOOSE f : Is(f, Len(F))
  <2>1. Is(flat, Len(F))
    BY <1>3
  <2>2. FlattenSeq(F) = flat[Len(F)]
    BY <1>5 DEF FlattenSeq
  <2> HIDE DEF flat
  <2>3. \A k \in 1..Len(F) : flat[k] = IF k = 1 THEN F[k] ELSE flat[k - 1] \o F[k]
    BY <2>1
  <2> DEFINE joined == [k \in 0..Len(F) |-> IF k = 0 THEN <<>> ELSE flat[k]]
             E == {n \in Nat : n <= Len(F) => joined[n] \in Seq(S)}
  <2>4. joined[0] = <<>> /\ \A k \in 1..Len(F) : joined[k] = flat[k]
    BY <1>0
  <2>5. \A k \in 1..Len(F) : joined[k] = joined[k - 1] \o F[k]
    <3>1. SUFFICES ASSUME NEW k \in 1..Len(F) PROVE joined[k] = joined[k - 1] \o F[k]
      OBVIOUS
    <3>2. CASE k = 1
      <4>1. \A s \in Seq(S) : <<>> \o s = s
        OBVIOUS
      <4>2. QED
        BY <1>0, <2>3, <2>4, <3>2, <4>1
    <3>3. CASE k # 1
      <4>1. k - 1 \in 1..Len(F)
        BY <1>0, <3>3
      <4>2. joined[k] = flat[k] /\ joined[k - 1] = flat[k - 1]
        BY <2>4, <4>1
      <4>3. QED
        BY <2>3, <3>3, <4>2
    <3>4. QED
      BY <3>2, <3>3
  <2>6. DOMAIN joined = 0..Len(F) /\ joined = [k \in 0..Len(F) |-> joined[k]]
    OBVIOUS
  <2> HIDE DEF joined
  <2>7. 0 \in E
    <3>1. <<>> \in Seq(S)
      OBVIOUS
    <3>2. QED
      BY <2>4, <3>1
  <2>8. ASSUME NEW n \in Nat, n \in E PROVE n + 1 \in E
    <3>1. SUFFICES ASSUME n + 1 <= Len(F) PROVE joined[n + 1] \in Seq(S)
      OBVIOUS
    <3>2. n + 1 \in 1..Len(F) /\ (n + 1) - 1 = n /\ joined[n] \in Seq(S)
      BY <1>0, <2>8, <3>1
    <3>3. joined[n + 1] = joined[n] \o F[n + 1] /\ F[n + 1] \in Seq(S)
      BY <1>0, <2>5, <3>2
    <3>4. QED
      BY <3>2, <3>3
  <2>9. \A n \in Nat : n \in E
    <3> HIDE DEF E
    <3>1. QED
      BY <2>7, <2>8, Induction
  <2>10. joined \in [0..Len(F) -> Seq(S)]
    BY <2>6, <2>9
  <2>11. joined[Len(F)] = FlattenSeq(F)
    BY <1>0, <1>5, <2>2, <2>4
  <2>12. QED
    BY <2>4, <2>5, <2>10, <2>11
<1>6. QED
  BY <1>4, <1>5

\* The pieces lie in the memory one behind the other, from at up to end.
Placed(ptr, at, F, end) ==
  \E place \in [0..Len(F) -> Nat] :
    /\ place[0] = at /\ place[Len(F)] = end
    /\ \A k \in 1..Len(F) :
         place[k] = place[k - 1] + Len(F[k]) /\ Holds(ptr, place[k - 1], F[k])

\* What is held as one sequence of pieces is held piece by piece.
LEMMA FlattenPlaced ==
  ASSUME NEW S, NEW F \in Seq(Seq(S)), NEW ptr, Len(ptr) \in Nat, NEW at \in Nat,
         Holds(ptr, at, FlattenSeq(F))
  PROVE  Placed(ptr, at, F, at + Len(FlattenSeq(F)))
<1>1. PICK joined \in [0..Len(F) -> Seq(S)] :
        /\ joined[0] = <<>>
        /\ \A k \in 1..Len(F) : joined[k] = joined[k - 1] \o F[k]
        /\ joined[Len(F)] = FlattenSeq(F)
  BY FlattenIs
<1>2. Len(F) \in Nat /\ \A k \in 1..Len(F) : F[k] \in Seq(S)
  OBVIOUS
<1> DEFINE D == {n \in Nat : n <= Len(F) => Holds(ptr, at, joined[Len(F) - n])}
<1>3. 0 \in D
  BY <1>1, <1>2
<1>4. ASSUME NEW n \in Nat, n \in D PROVE n + 1 \in D
  <2>1. SUFFICES ASSUME n + 1 <= Len(F) PROVE Holds(ptr, at, joined[Len(F) - (n + 1)])
    OBVIOUS
  <2> DEFINE k == Len(F) - n
  <2>2. k \in 1..Len(F) /\ k - 1 \in 0..Len(F) /\ k - 1 = Len(F) - (n + 1)
    BY <1>2, <2>1
  <2>3. Holds(ptr, at, joined[k])
    BY <1>4, <2>1
  <2> HIDE DEF k
  <2>4. joined[k] = joined[k - 1] \o F[k] /\ joined[k - 1] \in Seq(S) /\ F[k] \in Seq(S)
    BY <1>1, <1>2, <2>2
  <2>5. Holds(ptr, at, joined[k - 1])
    BY <2>3, <2>4, HoldsBoth
  <2>6. QED
    BY <2>2, <2>5
<1>5. \A k \in 0..Len(F) : Holds(ptr, at, joined[k])
  <2>1. \A n \in Nat : n \in D
    <3> HIDE DEF D
    <3>1. QED
      BY <1>3, <1>4, Induction
  <2>2. \A k \in 0..Len(F) : Len(F) - k \in Nat /\ Len(F) - k <= Len(F) /\ Len(F) - (Len(F) - k) = k
    BY <1>2
  <2>3. QED
    BY <2>1, <2>2
<1> DEFINE place == [k \in 0..Len(F) |-> at + Len(joined[k])]
<1>6. place \in [0..Len(F) -> Nat] /\ \A k \in 0..Len(F) : place[k] = at + Len(joined[k])
  <2>1. \A k \in 0..Len(F) : Len(joined[k]) \in Nat
    BY <1>1
  <2>2. QED
    BY <2>1
<1>7. ASSUME NEW k \in 1..Len(F)
      PROVE  place[k] = place[k - 1] + Len(F[k]) /\ Holds(ptr, place[k - 1], F[k])
  <2>1. k \in 0..Len(F) /\ k - 1 \in 0..Len(F)
    BY <1>2
  <2>2. joined[k] = joined[k - 1] \o F[k] /\ joined[k - 1] \in Seq(S) /\ F[k] \in Seq(S)
    BY <1>1, <1>2, <2>1
  <2>3. Len(joined[k]) = Len(joined[k - 1]) + Len(F[k])
        /\ Len(joined[k - 1]) \in Nat /\ Len(F[k]) \in Nat
    BY <2>2
  <2>4. Holds(ptr, at + Len(joined[k - 1]), F[k])
    <3>1. Holds(ptr, at, joined[k])
      BY <1>5, <2>1
    <3>2. Holds(ptr, at, joined[k - 1] \o F[k])
      BY <2>2, <3>1
    <3>3. QED
      BY <2>2, <3>2, HoldsBoth
  <2>5. place[k] = at + Len(joined[k]) /\ place[k - 1] = at + Len(joined[k - 1])
    BY <1>6, <2>1
  <2> HIDE DEF place
  <2>6. place[k] = place[k - 1] + Len(F[k])
    <3>1. \A x, y \in Nat : at + (x + y) = at + x + y
      OBVIOUS
    <3>2. place[k] = at + (Len(joined[k - 1]) + Len(F[k]))
      BY <2>3, <2>5
    <3>3. place[k] = at + Len(joined[k - 1]) + Len(F[k])
      BY <2>3, <3>1, <3>2
    <3>4. QED
      BY <2>5, <3>3
  <2>7. QED
    BY <2>4, <2>5, <2>6
<1>8. place[0] = at /\ place[Len(F)] = at + Len(FlattenSeq(F))
  BY <1>1, <1>2, <1>6
<1> HIDE DEF place
<1>9. QED
  BY <1>6, <1>7, <1>8 DEF Placed

-----------------------------------------------------------------------------
(***************************************************************************)
(* Reading along a layout.                                                 *)
(***************************************************************************)
LEMMA DeserializeIs ==
  ASSUME NEW layout, Len(layout) \in Nat, NEW ptr, NEW at, NEW u
  PROVE  \E read :
           /\ read[0] = [value |-> [name \in {} |-> 0], index |-> at]
           /\ \A n \in 1..Len(layout) : read[n] = ReadNext(read[n - 1], layout[n], ptr, u)
           /\ read[Len(layout)] = Deserialize(layout, ptr, at, u)
<1> DEFINE start == [value |-> [name \in {} |-> 0], index |-> at]
           Step(r, n) == ReadNext(r, layout[n], ptr, u)
           Is(f, n) == f = [k \in 0..n |-> IF k = 0 THEN start ELSE Step(f[k - 1], k)]
           D == {n \in Nat : \E f : Is(f, n)}
<1>3. Len(layout) \in D
  <2> HIDE DEF start, Step
  <2>1. 0 \in D
    <3>1. Is([k \in 0..0 |-> start], 0)
      OBVIOUS
    <3>2. QED
      BY <3>1
  <2>2. ASSUME NEW n \in Nat, n \in D PROVE n + 1 \in D
    <3>1. PICK f : Is(f, n)
      BY <2>2
    <3> DEFINE g == [k \in 0..(n + 1) |-> IF k = n + 1 THEN Step(f[n], n + 1) ELSE f[k]]
    <3>2. \A k \in 0..n : g[k] = f[k]
      OBVIOUS
    <3>3. g[n + 1] = Step(g[n], n + 1)
      OBVIOUS
    <3>4. \A k \in 0..n : g[k] = IF k = 0 THEN start ELSE Step(g[k - 1], k)
      <4>1. \A k \in 0..n : k # 0 => k - 1 \in 0..n
        OBVIOUS
      <4>2. \A k \in 0..n : f[k] = IF k = 0 THEN start ELSE Step(f[k - 1], k)
        BY <3>1
      <4> HIDE DEF g
      <4>3. QED
        BY <3>2, <4>1, <4>2
    <3>5. \A k \in 0..(n + 1) : g[k] = IF k = 0 THEN start ELSE Step(g[k - 1], k)
      <4> HIDE DEF g
      <4>1. \A k \in 0..(n + 1) : k \in 0..n \/ (k = n + 1 /\ k # 0 /\ k - 1 = n)
        OBVIOUS
      <4>2. QED
        BY <3>3, <3>4, <4>1
    <3>6. g = [k \in 0..(n + 1) |-> g[k]]
      OBVIOUS
    <3>7. Is(g, n + 1)
      <4> HIDE DEF g
      <4>1. QED
        BY <3>5, <3>6
    <3>8. QED
      <4> HIDE DEF Is
      <4>1. QED
        BY <3>7
  <2>3. QED
    <3> HIDE DEF D
    <3>1. QED
      BY <2>1, <2>2, Induction
<1> DEFINE read == CHOOSE f : Is(f, Len(layout))
<1>4. Is(read, Len(layout))
  BY <1>3
<1>5. read[Len(layout)] = Deserialize(layout, ptr, at, u)
  BY DEF Deserialize
<1> HIDE DEF read
<1>6. \A k \in 0..Len(layout) : read[k] = IF k = 0 THEN start ELSE Step(read[k - 1], k)
  BY <1>4
<1>7. \A k \in 1..Len(layout) : k \in 0..Len(layout) /\ k # 0
  OBVIOUS
<1> HIDE DEF start, Step
<1>8. read[0] = start /\ \A k \in 1..Len(layout) : read[k] = Step(read[k - 1], k)
  BY <1>6, <1>7
<1>9. QED
  BY <1>5, <1>8 DEF start, Step

\* A field that is written as w is read as r; v is the value.
Pair(w, r, v) ==
  \/ w.kind = "integer" /\ r.kind = "integer" /\ w.len = r.len /\ w.len \in Nat /\ v \in Nat
  \/ w.kind = "integer" /\ r.kind = "flag" /\ w.len = 1 /\ v \in Nat
  \/ w.kind = "integer" /\ r.kind = "string" /\ w.len = 1 /\ v = 0
  \/ /\ w.kind = "string" /\ r.kind \in {"string", "datetime"}
     /\ w.len \in Nat /\ w.len > 0 /\ Text(v) /\ (v = NULL \/ Len(v) < w.len)
  \/ w.kind = "binary" /\ r.kind = "binary" /\ v \in Seq(Octet)

\* The reader has the value x for it.
ReadAs(w, r, v, x) ==
  /\ r.kind = "integer" /\ FitsIn(v, w.len) => x = v
  /\ r.kind = "flag" /\ FitsIn(v, w.len) => x = (v = 1)
  /\ r.kind = "string" /\ w.kind = "string" => x = TextOf(v)
  /\ r.kind = "binary" => x = v

\* One octet has the number, if it fits.
LEMMA OneOctet ==
  ASSUME NEW v \in Nat
  PROVE  /\ as_smpp_serialize_integer(v, 1) \in Seq(Octet)
         /\ Len(as_smpp_serialize_integer(v, 1)) = 1
         /\ as_smpp_serialize_integer(v, 1)[1] = v % Base
         /\ FitsIn(v, 1) => v % Base = v
<1> DEFINE one == 1
<1>1. one \in Nat /\ one \in 1..one /\ one - one = 0 /\ one - 1 = 0 /\ one = 1
  OBVIOUS
<1> HIDE DEF one
<1>2. /\ as_smpp_serialize_integer(v, one) \in Seq(Octet)
      /\ Len(as_smpp_serialize_integer(v, one)) = one
      /\ as_smpp_serialize_integer(v, one)[one] = Shifted(v, one)[one - one] % Base
  BY <1>1, IntegerOctets
<1>3. Shifted(v, one)[0] = v /\ Shifted(v, one)[one] = Shifted(v, one)[one - 1] \div Base
  BY <1>1, ShiftedIs
<1>4. FitsIn(v, one) => v % Base = v
  <2>1. SUFFICES ASSUME FitsIn(v, one) PROVE v % Base = v
    OBVIOUS
  <2>2. v \div Base = 0
    BY <1>1, <1>3, <2>1 DEF FitsIn
  <2>3. 0 * Base + (v % Base) = v /\ v % Base \in Nat
    BY <2>2, DivMod, OctetAssumption
  <2>4. QED
    BY <2>3, OctetAssumption
<1>5. QED
  BY <1>1, <1>2, <1>3, <1>4

\* The number 0 in one octet is a zero octet, which is how an empty string is written.
LEMMA ZeroOctet ==
  0 \in Octet /\ as_smpp_serialize_integer(0, 1) = <<0>>
<1>1. 0 \in Octet
  BY OctetAssumption DEF Octet
<1> DEFINE zero == 0
           s == as_smpp_serialize_integer(zero, 1)
<1>2. zero \in Nat /\ zero = 0
  OBVIOUS
<1> HIDE DEF zero
<1>3. s \in Seq(Octet) /\ Len(s) = 1 /\ s[1] = zero % Base
  BY <1>2, OneOctet
<1>4. \A b \in Nat : b > 1 => 0 % b = 0
  BY SMTT(30)
<1>5. s[1] = 0
  BY <1>2, <1>3, <1>4, OctetAssumption
<1> HIDE DEF s
<1>6. s = <<0>>
  BY <1>3, <1>5
<1>7. QED
  BY <1>1, <1>2, <1>6 DEF s

\* A field that is written as w says is read as r says, when the two fit together.
LEMMA FieldRead ==
  ASSUME NEW w, NEW r, NEW v, Pair(w, r, v),
         NEW ptr \in Seq(Octet), NEW at \in Nat, Holds(ptr, at, OctetsOf(w, v)),
         NEW pdu, r.kind = "binary" => pdu["messageLength"] = Len(v), NEW u
  PROVE  /\ ReadField(ptr, at, r, pdu, u).index = at + Len(OctetsOf(w, v))
         /\ ReadAs(w, r, v, ReadField(ptr, at, r, pdu, u).value)
<1> DEFINE x == ReadField(ptr, at, r, pdu, u)
<1>1. CASE w.kind = "integer" /\ r.kind = "integer" /\ w.len = r.len /\ w.len \in Nat /\ v \in Nat
  <2>1. OctetsOf(w, v) = as_smpp_serialize_integer(v, w.len)
    BY <1>1 DEF OctetsOf
  <2>2. x = as_smpp_deserialize_integer(ptr, at, w.len)
    BY <1>1 DEF ReadField
  <2>3. x.index = at + w.len
    BY <2>2 DEF as_smpp_deserialize_integer
  <2>4. FitsIn(v, w.len) => x = [value |-> v, index |-> at + w.len]
    BY <1>1, <2>1, <2>2, IntegerRead
  <2>5. Len(OctetsOf(w, v)) = w.len
    <3> DEFINE n == w.len
    <3>1. n \in Nat
      BY <1>1
    <3> HIDE DEF n
    <3>2. Len(as_smpp_serialize_integer(v, n)) = n
      BY <1>1, <3>1, IntegerOctets
    <3>3. QED
      BY <2>1, <3>2 DEF n
  <2> HIDE DEF x
  <2>6. QED
    BY <1>1, <2>3, <2>4, <2>5 DEF ReadAs, x
<1>2. CASE w.kind = "integer" /\ r.kind = "flag" /\ w.len = 1 /\ v \in Nat
  <2>1. OctetsOf(w, v) = as_smpp_serialize_integer(v, 1)
    BY <1>2 DEF OctetsOf
  <2>2. x = [value |-> ptr[at + 1] = 1, index |-> at + 1]
    BY <1>2 DEF ReadField
  <2>3. Len(OctetsOf(w, v)) = 1 /\ OctetsOf(w, v)[1] = v % Base
    BY <1>2, <2>1, OneOctet
  <2>4. ptr[at + 1] = v % Base
    BY <2>3 DEF Holds
  <2>5. FitsIn(v, 1) => ptr[at + 1] = v
    BY <1>2, <2>4, OneOctet
  <2>6. x.index = at + 1 /\ x.value = (ptr[at + 1] = 1)
    BY <2>2
  <2> HIDE DEF x
  <2>7. FitsIn(v, w.len) => x.value = (v = 1)
    BY <1>2, <2>5, <2>6
  <2>8. QED
    BY <1>2, <2>3, <2>6, <2>7 DEF ReadAs, x
<1>3. CASE w.kind = "integer" /\ r.kind = "string" /\ w.len = 1 /\ v = 0
  <2>1. OctetsOf(w, v) = Append(<<>>, 0) /\ Len(OctetsOf(w, v)) = 1
    BY <1>3, ZeroOctet DEF OctetsOf
  <2>2. <<>> \in Seq(Octet \ {0})
    OBVIOUS
  <2>3. x = [value |-> <<>>, index |-> at + 0 + 1]
    <3>1. as_smpp_deserialize_string(ptr, at) = [value |-> <<>>, index |-> at + Len(<<>>) + 1]
      BY <2>1, <2>2, StringRead
    <3>2. x = as_smpp_deserialize_string(ptr, at)
      BY <1>3 DEF ReadField
    <3>3. QED
      BY <3>1, <3>2
  <2>4. x.index = at + 1
    BY <2>3
  <2> HIDE DEF x
  <2>5. QED
    BY <1>3, <2>1, <2>4 DEF ReadAs, x
<1>4. CASE /\ w.kind = "string" /\ r.kind \in {"string", "datetime"}
           /\ w.len \in Nat /\ w.len > 0 /\ Text(v) /\ (v = NULL \/ Len(v) < w.len)
  <2>1. OctetsOf(w, v) = Append(TextOf(v), 0) /\ TextOf(v) \in Seq(Octet \ {0})
    BY <1>4, StringOctets DEF OctetsOf
  <2>2. as_smpp_deserialize_string(ptr, at) = [value |-> TextOf(v), index |-> at + Len(TextOf(v)) + 1]
    BY <2>1, StringRead
  <2>3. Len(OctetsOf(w, v)) = Len(TextOf(v)) + 1 /\ Len(TextOf(v)) \in Nat
    BY <2>1
  <2>4. CASE r.kind = "string"
    <3>1. x = as_smpp_deserialize_string(ptr, at)
      BY <2>4 DEF ReadField
    <3> HIDE DEF x
    <3>2. QED
      BY <1>4, <2>2, <2>3, <2>4, <3>1 DEF ReadAs, x
  <2>5. CASE r.kind = "datetime"
    <3>1. x = as_smpp_deserialize_datetime(ptr, at, u)
      BY <2>5 DEF ReadField
    <3>2. x.index = at + Len(TextOf(v)) + 1
      BY <2>2, <3>1 DEF as_smpp_deserialize_datetime
    <3> HIDE DEF x
    <3>3. QED
      BY <2>3, <2>5, <3>2 DEF ReadAs, x
  <2>6. QED
    BY <1>4, <2>4, <2>5
<1>5. CASE w.kind = "binary" /\ r.kind = "binary" /\ v \in Seq(Octet)
  <2>1. OctetsOf(w, v) = v
    BY <1>5 DEF OctetsOf
  <2>2. x = as_smpp_deserialize_binary(ptr, at, Len(v))
    BY <1>5 DEF ReadField
  <2>3. SubSeq(ptr, at + 1, at + Len(v)) = v
    BY <1>5, <2>1, Copied
  <2>4. x = [value |-> v, index |-> at + Len(v)]
    BY <2>2, <2>3 DEF as_smpp_deserialize_binary
  <2> HIDE DEF x
  <2>5. QED
    BY <1>5, <2>1, <2>4 DEF ReadAs, x
<1>6. QED
  BY <1>1, <1>2, <1>3, <1>4, <1>5 DEF Pair

\* What is written along W can be read along R.
Matches(W, R, pdu) ==
  /\ Len(W) \in Nat /\ Len(R) = Len(W)
  /\ \A k \in 1..Len(W) : R[k].name = W[k].name /\ Pair(W[k], R[k], pdu[W[k].name])
  /\ \A j, k \in 1..Len(W) : R[j].name = R[k].name => j = k
  /\ \A k \in 1..Len(W) : R[k].kind = "binary" =>
       \E j \in 1..(k - 1) :
         /\ R[j].name = "messageLength" /\ R[j].kind = "integer"
         /\ FitsIn(pdu["messageLength"], W[j].len)
         /\ pdu["messageLength"] = Len(pdu[R[k].name])

\* The octets of each field, along the layout.
Pieces(W, pdu) == [k \in 1..Len(W) |-> OctetsOf(W[k], pdu[W[k].name])]

\* The value of every field of R that was read.
AllRead(W, R, n, pdu, value) ==
  /\ DOMAIN value = {R[k].name : k \in 1..n}
  /\ \A k \in 1..n : ReadAs(W[k], R[k], pdu[R[k].name], value[R[k].name])

\* A field more.
LEMMA NextRead ==
  ASSUME NEW W, NEW R, NEW pdu, Matches(W, R, pdu), NEW n \in Nat, n + 1 <= Len(W),
         NEW ptr \in Seq(Octet), NEW read, read.index \in Nat, NEW u,
         AllRead(W, R, n, pdu, read.value),
         Holds(ptr, read.index, OctetsOf(W[n + 1], pdu[W[n + 1].name]))
  PROVE  /\ ReadNext(read, R[n + 1], ptr, u).index
              = read.index + Len(OctetsOf(W[n + 1], pdu[W[n + 1].name]))
         /\ AllRead(W, R, n + 1, pdu, ReadNext(read, R[n + 1], ptr, u).value)
<1> DEFINE next == ReadNext(read, R[n + 1], ptr, u)
<1> DEFINE field == R[n + 1]
           old == read.value
           r == ReadField(ptr, read.index, field, old, u)
           v == pdu[field.name]
           new == [name \in DOMAIN old \union {field.name} |->
                     IF name = field.name THEN r.value ELSE old[name]]
<1>1. /\ Len(W) \in Nat /\ n + 1 \in 1..Len(W) /\ \A k \in 1..n : k \in 1..Len(W)
      /\ \A k \in 1..(n + 1) : k \in 1..n \/ k = n + 1
      /\ \A k \in 1..n : k # n + 1 /\ k \in 1..(n + 1)
  BY DEF Matches
<1>2. field.name = W[n + 1].name /\ Pair(W[n + 1], field, v)
  BY <1>1 DEF Matches
<1>3. field.kind = "binary" => old["messageLength"] = Len(v)
  <2>1. SUFFICES ASSUME field.kind = "binary" PROVE old["messageLength"] = Len(v)
    OBVIOUS
  <2>2. (n + 1) - 1 = n
    OBVIOUS
  <2>3. PICK j \in 1..n :
          /\ R[j].name = "messageLength" /\ R[j].kind = "integer"
          /\ FitsIn(pdu["messageLength"], W[j].len)
          /\ pdu["messageLength"] = Len(v)
    <3> HIDE DEF old, r, new
    <3>1. \E j \in 1..((n + 1) - 1) :
            /\ R[j].name = "messageLength" /\ R[j].kind = "integer"
            /\ FitsIn(pdu["messageLength"], W[j].len)
            /\ pdu["messageLength"] = Len(v)
      BY <1>1, <2>1 DEF Matches
    <3>2. QED
      BY <2>2, <3>1
  <2>4. ReadAs(W[j], R[j], pdu[R[j].name], old[R[j].name])
    BY DEF AllRead
  <2>5. QED
    BY <2>3, <2>4 DEF ReadAs
<1>4. /\ r.index = read.index + Len(OctetsOf(W[n + 1], v))
      /\ ReadAs(W[n + 1], field, v, r.value)
  <2> HIDE DEF field, old, v
  <2>1. Holds(ptr, read.index, OctetsOf(W[n + 1], v))
    BY <1>2 DEF v, field
  <2>2. QED
    BY <1>2, <1>3, <2>1, FieldRead
<1>5. next = [value |-> new, index |-> r.index]
  BY DEF ReadNext
<1>6. next.value = new /\ next.index = r.index
  BY <1>5
<1>7. DOMAIN new = DOMAIN old \union {field.name} /\ new[field.name] = r.value
      /\ \A name \in DOMAIN old : name # field.name => new[name] = old[name]
  OBVIOUS
<1>8. DOMAIN new = {R[k].name : k \in 1..(n + 1)}
  <2> HIDE DEF new
  <2>1. DOMAIN old = {R[k].name : k \in 1..n}
    BY DEF AllRead
  <2>2. QED
    BY <1>1, <1>7, <2>1
<1>9. ASSUME NEW k \in 1..(n + 1) PROVE ReadAs(W[k], R[k], pdu[R[k].name], new[R[k].name])
  <2> HIDE DEF new, r
  <2>1. CASE k = n + 1
    BY <1>4, <1>7, <2>1
  <2>2. CASE k \in 1..n
    <3>1. R[k].name # field.name
      BY <1>1, <2>2 DEF Matches
    <3>2. R[k].name \in DOMAIN old /\ ReadAs(W[k], R[k], pdu[R[k].name], old[R[k].name])
      BY <2>2 DEF AllRead
    <3>3. QED
      BY <1>7, <3>1, <3>2
  <2>3. QED
    BY <1>1, <2>1, <2>2
<1> HIDE DEF new, r, next
<1>10. /\ next.index = read.index + Len(OctetsOf(W[n + 1], pdu[W[n + 1].name]))
       /\ AllRead(W, R, n + 1, pdu, next.value)
  BY <1>2, <1>4, <1>6, <1>8, <1>9 DEF AllRead
<1>11. QED
  BY <1>10 DEF next

\* All fields of the layout are read, up to the index end.
LayoutIsRead(W, R, pdu, end, d) == d.index = end /\ AllRead(W, R, Len(W), pdu, d.value)

\* Reading along R inverts writing along W.
LEMMA LayoutRead ==
  ASSUME NEW W, NEW R, NEW pdu, Matches(W, R, pdu), NEW ptr \in Seq(Octet),
         NEW at \in Nat, NEW end, Placed(ptr, at, Pieces(W, pdu), end), NEW u,
         NEW d, d = Deserialize(R, ptr, at, u)
  PROVE  LayoutIsRead(W, R, pdu, end, d)
<1>1. Len(W) \in Nat /\ Len(R) = Len(W)
  BY DEF Matches
<1>2. PICK read : /\ read[0] = [value |-> [name \in {} |-> 0], index |-> at]
                  /\ \A n \in 1..Len(R) : read[n] = ReadNext(read[n - 1], R[n], ptr, u)
                  /\ read[Len(R)] = d
  BY <1>1, DeserializeIs
<1> DEFINE F == Pieces(W, pdu)
<1>3. Len(F) = Len(W) /\ \A k \in 1..Len(W) : F[k] = OctetsOf(W[k], pdu[W[k].name])
  BY <1>1 DEF Pieces
<1> HIDE DEF F
<1>4. PICK place \in [0..Len(W) -> Nat] :
        /\ place[0] = at /\ place[Len(W)] = end
        /\ \A k \in 1..Len(W) :
             place[k] = place[k - 1] + Len(F[k]) /\ Holds(ptr, place[k - 1], F[k])
  <2>1. Placed(ptr, at, F, end)
    BY DEF F
  <2>2. QED
    BY <1>3, <2>1 DEF Placed
<1> DEFINE Good(n) == read[n].index = place[n] /\ AllRead(W, R, n, pdu, read[n].value)
           D == {n \in Nat : n <= Len(W) => Good(n)}
<1>5. Good(0)
  <2>1. read[0].index = place[0] /\ read[0].value = [name \in {} |-> 0]
    BY <1>2, <1>4
  <2>2. DOMAIN [name \in {} |-> 0] = {} /\ \A k \in 1..0 : FALSE
    OBVIOUS
  <2>3. QED
    BY <2>1, <2>2 DEF AllRead
<1>6. ASSUME NEW n \in Nat, n + 1 <= Len(W), Good(n) PROVE Good(n + 1)
  <2>1. n \in 0..Len(W) /\ n + 1 \in 1..Len(W) /\ (n + 1) - 1 = n
    BY <1>1, <1>6
  <2>2. read[n].index = place[n] /\ place[n] \in Nat /\ AllRead(W, R, n, pdu, read[n].value)
    BY <1>4, <1>6, <2>1
  <2>3. read[n + 1] = ReadNext(read[n], R[n + 1], ptr, u)
    BY <1>1, <1>2, <2>1
  <2>4. /\ place[n + 1] = place[n] + Len(OctetsOf(W[n + 1], pdu[W[n + 1].name]))
        /\ Holds(ptr, place[n], OctetsOf(W[n + 1], pdu[W[n + 1].name]))
    BY <1>3, <1>4, <2>1
  <2>5. /\ read[n + 1].index = read[n].index + Len(OctetsOf(W[n + 1], pdu[W[n + 1].name]))
        /\ AllRead(W, R, n + 1, pdu, read[n + 1].value)
    <3> DEFINE old == read[n]
    <3>1. /\ old.index \in Nat /\ AllRead(W, R, n, pdu, old.value)
          /\ Holds(ptr, old.index, OctetsOf(W[n + 1], pdu[W[n + 1].name]))
          /\ read[n + 1] = ReadNext(old, R[n + 1], ptr, u)
      BY <2>2, <2>3, <2>4
    <3> HIDE DEF old
    <3>2. /\ ReadNext(old, R[n + 1], ptr, u).index
               = old.index + Len(OctetsOf(W[n + 1], pdu[W[n + 1].name]))
          /\ AllRead(W, R, n + 1, pdu, ReadNext(old, R[n + 1], ptr, u).value)
      BY <1>6, <3>1, NextRead
    <3>3. QED
      BY <3>1, <3>2 DEF old
  <2>6. QED
    BY <2>2, <2>4, <2>5
<1>7. Len(W) \in D
  <2> HIDE DEF Good
  <2>1. 0 \in D
    BY <1>5
  <2>2. ASSUME NEW n \in Nat, n \in D PROVE n + 1 \in D
    BY <1>1, <1>6, <2>2
  <2> HIDE DEF D
  <2>3. QED
    BY <1>1, <2>1, <2>2, Induction
<1>8. Good(Len(W))
  <2> HIDE DEF Good
  <2>1. QED
    BY <1>1, <1>7
<1>9. QED
  BY <1>1, <1>2, <1>4, <1>8 DEF LayoutIsRead

-----------------------------------------------------------------------------
(***************************************************************************)
(* TLVs.                                                                   *)
(***************************************************************************)
\* The TLVs that are put into memory, and those whose numbers fit into two octets.
Tlv == [tag : Nat, data : Seq(Octet)]
TlvFits(t) == FitsIn(t.tag, 2) /\ FitsIn(Len(t.data), 2)

\* A TLV is two octets of a tag, two of a length and its data.
LEMMA TlvOctetsAre ==
  ASSUME NEW t \in Tlv
  PROVE  TlvOctets(t) \in Seq(Octet) /\ Len(TlvOctets(t)) = 4 + Len(t.data)
<1> DEFINE two == 2
           a == as_smpp_serialize_integer(t.tag, two)
           len == Len(t.data)
           b == as_smpp_serialize_integer(len, two)
           c == t.data
<1>1. two \in Nat /\ t.tag \in Nat /\ len \in Nat /\ c \in Seq(Octet) /\ two = 2
  BY DEF Tlv
<1> HIDE DEF two, len
<1>2. a \in Seq(Octet) /\ Len(a) = two /\ b \in Seq(Octet) /\ Len(b) = two
  BY <1>1, IntegerOctets
<1>3. TlvOctets(t) = (a \o b) \o c
  BY <1>1 DEF TlvOctets, len
<1>4. Len(c) = len
  BY DEF len
<1> HIDE DEF a, b, c
<1>5. a \o b \in Seq(Octet) /\ Len(a \o b) = two + two
  BY <1>2, Concatenated
<1>6. (a \o b) \o c \in Seq(Octet) /\ Len((a \o b) \o c) = (two + two) + len
  BY <1>1, <1>4, <1>5, Concatenated
<1>7. QED
  BY <1>1, <1>3, <1>6 DEF len

\* as_smpp_deserialize_tlv reads the TLV that is in the memory, and stops behind it.
LEMMA TlvRead ==
  ASSUME NEW t \in Tlv, TlvFits(t), NEW ptr \in Seq(Octet), NEW at \in Nat,
         Holds(ptr, at, TlvOctets(t))
  PROVE  TlvAt(ptr, at) = [value |-> t, index |-> at + Len(TlvOctets(t))]
<1> DEFINE two == 2
           a == as_smpp_serialize_integer(t.tag, two)
           tag == t.tag
           len == Len(t.data)
           b == as_smpp_serialize_integer(len, two)
           c == t.data
<1>1. /\ two \in Nat /\ tag \in Nat /\ len \in Nat /\ c \in Seq(Octet) /\ two = 2
      /\ FitsIn(tag, two) /\ FitsIn(len, two) /\ t = [tag |-> tag, data |-> c]
  BY DEF Tlv, TlvFits
<1>2. Len(TlvOctets(t)) = 4 + len
  BY TlvOctetsAre
<1>3. TlvOctets(t) = (a \o b) \o c
  BY <1>1 DEF TlvOctets
<1>4. Len(c) = len /\ a = as_smpp_serialize_integer(tag, two)
  OBVIOUS
<1> HIDE DEF two, tag, len, c
<1>5. a \in Seq(Octet) /\ Len(a) = two /\ b \in Seq(Octet) /\ Len(b) = two
  BY <1>1, <1>4, IntegerOctets
<1> HIDE DEF a, b
<1>6. a \o b \in Seq(Octet) /\ Len(a \o b) = two + two
  BY <1>5, Concatenated
<1>7. Len(ptr) \in Nat
  OBVIOUS
<1>8. Holds(ptr, at, a \o b) /\ Holds(ptr, at + Len(a \o b), c)
  <2> DEFINE ab == a \o b
  <2>1. ab \in Seq(Octet) /\ Holds(ptr, at, ab \o c)
    BY <1>3, <1>6
  <2> HIDE DEF ab
  <2>2. Holds(ptr, at, ab) /\ Holds(ptr, at + Len(ab), c)
    BY <1>1, <1>7, <2>1, HoldsBoth
  <2>3. QED
    BY <2>2 DEF ab
<1>9. Holds(ptr, at, a) /\ Holds(ptr, at + Len(a), b)
  BY <1>5, <1>7, <1>8, HoldsBoth
<1>10. as_smpp_deserialize_integer(ptr, at, two) = [value |-> tag, index |-> at + two]
  BY <1>1, <1>4, <1>9, IntegerRead
<1>11. as_smpp_deserialize_integer(ptr, at + 2, two).value = len
  <2> DEFINE i == at + 2
  <2>1. i \in Nat /\ Holds(ptr, i, as_smpp_serialize_integer(len, two))
    BY <1>1, <1>5, <1>9 DEF b
  <2> HIDE DEF i
  <2>2. as_smpp_deserialize_integer(ptr, i, two) = [value |-> len, index |-> i + two]
    BY <1>1, <2>1, IntegerRead
  <2>3. QED
    BY <2>2 DEF i
<1>12. as_smpp_deserialize_binary(ptr, at + 4, len).value = c
  <2> DEFINE i == at + 4
  <2>1. i \in Nat /\ Holds(ptr, i, c)
    BY <1>1, <1>6, <1>8
  <2> HIDE DEF i
  <2>2. SubSeq(ptr, i + 1, i + len) = c
    BY <1>1, <1>4, <2>1, Copied
  <2>3. QED
    BY <2>2 DEF as_smpp_deserialize_binary, i
<1>13. TlvAt(ptr, at) = [value |-> [tag |-> tag, data |-> c], index |-> at + 4 + len]
  <2>1. /\ as_smpp_deserialize_integer(ptr, at, 2).value = tag
        /\ as_smpp_deserialize_integer(ptr, at + 2, 2).value = len
    <3>1. as_smpp_deserialize_integer(ptr, at, two).value = tag
      BY <1>10
    <3>2. QED
      BY <1>1, <1>11, <3>1, Zenon
  <2>2. QED
    BY <1>12, <2>1, Zenon DEF TlvAt
<1>14. at + 4 + len = at + (4 + len)
  BY <1>1
<1>15. QED
  BY <1>1, <1>2, <1>13, <1>14

\* What as_smpp_deserialize_tlv has after each of its rounds.
TlvsAfter(read, ptr, at, pduLength) ==
  /\ read[0] = [value |-> <<>>, index |-> at]
  /\ \A n \in 1..pduLength : read[n] = ReadTlv(read[n - 1], ptr, pduLength)
  /\ read[pduLength] = as_smpp_deserialize_tlv(ptr, at, pduLength)

\* as_smpp_deserialize_tlv has such rounds.
LEMMA TlvRounds ==
  ASSUME NEW ptr, NEW at \in Nat, NEW pduLength \in Nat
  PROVE  \E read : TlvsAfter(read, ptr, at, pduLength)
<1> DEFINE start == [value |-> <<>>, index |-> at]
           Step(r) == ReadTlv(r, ptr, pduLength)
           Is(f, n) == f = [k \in 0..n |-> IF k = 0 THEN start ELSE Step(f[k - 1])]
           D == {n \in Nat : \E f : Is(f, n)}
<1>3. pduLength \in D
  <2> HIDE DEF start, Step
  <2>1. 0 \in D
    <3>1. Is([k \in 0..0 |-> start], 0)
      OBVIOUS
    <3>2. QED
      BY <3>1
  <2>2. ASSUME NEW n \in Nat, n \in D PROVE n + 1 \in D
    <3>1. PICK f : Is(f, n)
      BY <2>2
    <3> DEFINE g == [k \in 0..(n + 1) |-> IF k = n + 1 THEN Step(f[n]) ELSE f[k]]
    <3>2. \A k \in 0..n : g[k] = f[k]
      OBVIOUS
    <3>3. g[n + 1] = Step(g[n])
      OBVIOUS
    <3>4. \A k \in 0..n : g[k] = IF k = 0 THEN start ELSE Step(g[k - 1])
      <4>1. \A k \in 0..n : k # 0 => k - 1 \in 0..n
        OBVIOUS
      <4>2. \A k \in 0..n : f[k] = IF k = 0 THEN start ELSE Step(f[k - 1])
        BY <3>1
      <4> HIDE DEF g
      <4>3. QED
        BY <3>2, <4>1, <4>2
    <3>5. \A k \in 0..(n + 1) : g[k] = IF k = 0 THEN start ELSE Step(g[k - 1])
      <4> HIDE DEF g
      <4>1. \A k \in 0..(n + 1) : k \in 0..n \/ (k = n + 1 /\ k # 0 /\ k - 1 = n)
        OBVIOUS
      <4>2. QED
        BY <3>3, <3>4, <4>1
    <3>6. g = [k \in 0..(n + 1) |-> g[k]]
      OBVIOUS
    <3>7. Is(g, n + 1)
      <4> HIDE DEF g
      <4>1. QED
        BY <3>5, <3>6
    <3>8. QED
      <4> HIDE DEF Is
      <4>1. QED
        BY <3>7
  <2>3. QED
    <3> HIDE DEF D
    <3>1. QED
      BY <2>1, <2>2, Induction
<1> DEFINE read == CHOOSE f : Is(f, pduLength)
<1>4. Is(read, pduLength)
  BY <1>3
<1>5. read[pduLength] = as_smpp_deserialize_tlv(ptr, at, pduLength)
  BY DEF as_smpp_deserialize_tlv
<1> HIDE DEF read
<1>6. \A k \in 0..pduLength : read[k] = IF k = 0 THEN start ELSE Step(read[k - 1])
  BY <1>4
<1>7. \A k \in 1..pduLength : k \in 0..pduLength /\ k # 0
  OBVIOUS
<1> HIDE DEF start, Step
<1>8. read[0] = start /\ \A k \in 1..pduLength : read[k] = Step(read[k - 1])
  BY <1>6, <1>7
<1>9. TlvsAfter(read, ptr, at, pduLength)
  BY <1>5, <1>8 DEF TlvsAfter, start, Step
<1>10. QED
  BY <1>9

\* The octets of each TLV.
TlvPieces(tlvs) == [i \in 1..Len(tlvs) |-> TlvOctets(tlvs[i])]

\* The TLVs that were written up to the end of the PDU are the list that is read.
LEMMA TlvsRead ==
  ASSUME NEW tlvs \in Seq(Tlv), \A i \in 1..Len(tlvs) : TlvFits(tlvs[i]),
         NEW ptr \in Seq(Octet), NEW at \in Nat, NEW end \in Nat,
         Placed(ptr, at, TlvPieces(tlvs), end)
  PROVE  /\ as_smpp_deserialize_tlv(ptr, at, end).value = tlvs
         /\ as_smpp_deserialize_tlv(ptr, at, end).index = end
<1> DEFINE F == TlvPieces(tlvs)
           K == Len(tlvs)
<1>1. /\ K \in Nat /\ Len(F) = K
      /\ \A i \in 1..K : tlvs[i] \in Tlv /\ F[i] = TlvOctets(tlvs[i])
                           /\ Len(F[i]) \in Nat /\ Len(F[i]) >= 4
  <2>1. K \in Nat /\ Len(F) = K /\ \A i \in 1..K : tlvs[i] \in Tlv /\ F[i] = TlvOctets(tlvs[i])
    BY DEF TlvPieces
  <2>2. ASSUME NEW t \in Tlv PROVE Len(TlvOctets(t)) \in Nat /\ Len(TlvOctets(t)) >= 4
    <3>1. Len(t.data) \in Nat
      BY DEF Tlv
    <3>2. QED
      BY <3>1, TlvOctetsAre
  <2> HIDE DEF F, K
  <2>3. QED
    BY <2>1, <2>2
<1>2. PICK place \in [0..K -> Nat] :
        /\ place[0] = at /\ place[K] = end
        /\ \A k \in 1..K : place[k] = place[k - 1] + Len(F[k]) /\ Holds(ptr, place[k - 1], F[k])
  <2> HIDE DEF F, K
  <2>1. Placed(ptr, at, F, end)
    BY DEF F
  <2>2. QED
    BY <1>1, <2>1 DEF Placed
<1>20. PICK read : TlvsAfter(read, ptr, at, end)
  <2> HIDE DEF F, K
  <2>1. QED
    BY TlvRounds
<1>3. /\ read[0] = [value |-> <<>>, index |-> at]
      /\ \A n \in 1..end : read[n] = ReadTlv(read[n - 1], ptr, end)
      /\ read[end] = as_smpp_deserialize_tlv(ptr, at, end)
  BY <1>20 DEF TlvsAfter
<1> HIDE DEF F, K
\* The place of each TLV is before the end, by as many octets at least as there
\* are TLVs to come.
<1>4. \A k \in 0..K : place[k] + (K - k) <= end
  <2> DEFINE D == {n \in Nat : n <= K => place[K - n] + n <= end}
  <2>1. 0 \in D
    BY <1>1, <1>2
  <2>2. ASSUME NEW n \in Nat, n \in D PROVE n + 1 \in D
    <3>1. SUFFICES ASSUME n + 1 <= K PROVE place[K - (n + 1)] + (n + 1) <= end
      OBVIOUS
    <3> DEFINE k == K - n
    <3>2. k \in 1..K /\ k - 1 = K - (n + 1) /\ k \in 0..K /\ k - 1 \in 0..K
      BY <1>1, <3>1
    <3>3. place[k] + n <= end
      <4>1. n <= K
        BY <1>1, <3>1
      <4>2. QED
        BY <2>2, <4>1
    <3> HIDE DEF k
    <3>4. place[k] = place[k - 1] + Len(F[k]) /\ Len(F[k]) \in Nat /\ Len(F[k]) >= 4
          /\ place[k - 1] \in Nat
      BY <1>1, <1>2, <3>2
    <3>5. place[k - 1] + (n + 1) <= end
      BY <3>3, <3>4
    <3>6. QED
      BY <3>2, <3>5
  <2>3. \A n \in Nat : n \in D
    <3> HIDE DEF D
    <3>1. QED
      BY <2>1, <2>2, Induction
  <2>4. \A k \in 0..K : K - k \in Nat /\ K - k <= K /\ K - (K - k) = k
    BY <1>1
  <2>5. QED
    BY <2>3, <2>4
<1> DEFINE Good(n) == /\ read[n].index = place[n]
                      /\ read[n].value \in Seq(Tlv) /\ Len(read[n].value) = n
                      /\ \A i \in 1..n : read[n].value[i] = tlvs[i]
<1>5. Good(0)
  <2>1. read[0].index = at /\ read[0].value = <<>>
    BY <1>3
  <2>2. \A i \in 1..0 : FALSE
    OBVIOUS
  <2>3. QED
    BY <1>2, <2>1, <2>2
<1>6. ASSUME NEW n \in Nat, n + 1 <= K, Good(n) PROVE Good(n + 1)
  <2> DEFINE old == read[n]
             t == tlvs[n + 1]
             p == place[n]
  <2>1. /\ n \in 0..K /\ n + 1 \in 1..K /\ (n + 1) - 1 = n /\ n + 1 \in 0..K
        /\ \A i \in 1..(n + 1) : i \in 1..n \/ i = n + 1
    BY <1>1, <1>6
  <2>2. p \in Nat /\ p < end
    <3>1. p \in Nat /\ p + (K - n) <= end
      BY <1>2, <1>4, <2>1
    <3>2. K - n >= 1 /\ K - n \in Nat
      BY <1>1, <1>6
    <3>3. QED
      BY <3>1, <3>2
  <2>3. t \in Tlv /\ TlvFits(t) /\ Holds(ptr, p, TlvOctets(t)) /\ place[n + 1] = p + Len(TlvOctets(t))
    BY <1>1, <1>2, <2>1 DEF K
  <2>4. old.index = p /\ old.value \in Seq(Tlv) /\ Len(old.value) = n
        /\ \A i \in 1..n : old.value[i] = tlvs[i]
    BY <1>6
  <2>5. n + 1 \in 1..end
    <3>1. n + 1 <= end
      BY <1>1, <2>2, <1>4, <2>1, <1>2
    <3>2. QED
      BY <3>1
  <2>6. read[n + 1] = ReadTlv(old, ptr, end)
    BY <1>3, <2>1, <2>5
  <2> HIDE DEF old, t, p
  <2>7. TlvAt(ptr, p) = [value |-> t, index |-> p + Len(TlvOctets(t))]
    BY <2>2, <2>3, TlvRead
  <2>8. ReadTlv(old, ptr, end) = [value |-> Append(old.value, t), index |-> p + Len(TlvOctets(t))]
    <3>1. ~(p >= end)
      BY <2>2
    <3>2. QED
      BY <2>4, <2>7, <3>1 DEF ReadTlv
  <2>9. read[n + 1].index = place[n + 1] /\ read[n + 1].value = Append(old.value, t)
    BY <2>3, <2>6, <2>8
  <2>10. /\ Append(old.value, t) \in Seq(Tlv) /\ Len(Append(old.value, t)) = n + 1
         /\ \A i \in 1..n : Append(old.value, t)[i] = old.value[i]
         /\ Append(old.value, t)[n + 1] = t
    BY <2>3, <2>4
  <2>11. \A i \in 1..(n + 1) : Append(old.value, t)[i] = tlvs[i]
    BY <2>1, <2>4, <2>10 DEF t
  <2>12. QED
    BY <2>9, <2>10, <2>11
<1>7. Good(K)
  <2> DEFINE D == {n \in Nat : n <= K => Good(n)}
  <2> HIDE DEF Good
  <2>1. 0 \in D
    BY <1>5
  <2>2. ASSUME NEW n \in Nat, n \in D PROVE n + 1 \in D
    BY <1>1, <1>6, <2>2
  <2> HIDE DEF D
  <2>3. K \in D
    BY <1>1, <2>1, <2>2, Induction
  <2>4. QED
    BY <1>1, <2>3 DEF D
<1>8. read[K].index = end /\ read[K].value = tlvs
  <2>1. read[K].index = end
    BY <1>2, <1>7
  <2> DEFINE v == read[K].value
  <2>2. v \in Seq(Tlv) /\ Len(v) = K /\ \A i \in 1..K : v[i] = tlvs[i]
    BY <1>7
  <2> HIDE DEF v
  <2>3. v = tlvs
    BY <2>2 DEF K
  <2>4. QED
    BY <2>1, <2>3 DEF v
\* The rounds that are left do nothing.
<1>9. K <= end
  <2>1. place[0] \in Nat /\ place[0] + (K - 0) <= end
    BY <1>1, <1>2, <1>4
  <2>2. QED
    BY <1>1, <2>1
<1>10. read[end] = read[K]
  <2> DEFINE D == {n \in Nat : K + n <= end => read[K + n] = read[K]}
  <2>1. 0 \in D
    BY <1>1
  <2>2. ASSUME NEW n \in Nat, n \in D PROVE n + 1 \in D
    <3>1. SUFFICES ASSUME K + (n + 1) <= end PROVE read[K + (n + 1)] = read[K]
      OBVIOUS
    <3>2. K + (n + 1) \in 1..end /\ (K + (n + 1)) - 1 = K + n /\ K + n <= end
      BY <1>1, <3>1
    <3>3. read[K + n] = read[K]
      BY <2>2, <3>2
    <3>4. read[K + (n + 1)] = ReadTlv(read[K], ptr, end)
      BY <1>3, <3>2, <3>3
    <3>5. end >= end
      OBVIOUS
    <3>6. QED
      BY <1>8, <3>4, <3>5 DEF ReadTlv
  <2>3. end - K \in D
    <3>1. end - K \in Nat
      BY <1>1, <1>9
    <3> HIDE DEF D
    <3>2. QED
      BY <2>1, <2>2, <3>1, Induction
  <2>4. K + (end - K) = end
    BY <1>1
  <2>5. QED
    BY <1>1, <2>3, <2>4
<1>11. QED
  BY <1>3, <1>8, <1>10

-----------------------------------------------------------------------------
(***************************************************************************)
(* Writing along a layout.                                                 *)
(***************************************************************************)
\* The field's octets fit in the room that is made for them.
Writable(field, value) ==
  LET room == IF field.kind = "binary" THEN Len(value) ELSE field.len
  IN room \in Nat /\ OctetsOf(field, value) \in Seq(Octet) /\ Len(OctetsOf(field, value)) <= room

\* A field is written behind the data, and nothing else is touched.
LEMMA FieldWritten ==
  ASSUME NEW b \in B!BufferOf(Octet), NEW field, NEW value, Writable(field, value),
         NEW o, o = OctetsOf(field, value), NEW c, c = Written(b, field, value)
  PROVE  /\ c \in B!BufferOf(Octet)
         /\ c.dataLen = b.dataLen + Len(o)
         /\ Len(b.ptr) <= Len(c.ptr)
         /\ Holds(c.ptr, b.dataLen, o)
         /\ \A i \in 1..Len(b.ptr) : i <= b.dataLen \/ i > c.dataLen => c.ptr[i] = b.ptr[i]
<1> DEFINE room == IF field.kind = "binary" THEN Len(value) ELSE field.len
           e == B!as_smpp_buffer_ensure_capacity(b, room)
           end == b.dataLen + Len(o)
           m == [i \in 1..Len(e.ptr) |->
                   IF i - b.dataLen \in 1..Len(o) THEN o[i - b.dataLen] ELSE e.ptr[i]]
<1>1. room \in Nat /\ o \in Seq(Octet) /\ Len(o) <= room /\ Len(o) \in Nat
  BY DEF Writable
<1>2. b.ptr \in Seq(Octet) /\ Len(b.ptr) \in Nat /\ b.dataLen \in Nat /\ b.dataLen <= Len(b.ptr)
  BY DEF B!BufferOf
<1> HIDE DEF room
<1>3. /\ e \in B!BufferOf(Octet) /\ b.dataLen + room <= Len(e.ptr)
      /\ \A i \in 1..Len(b.ptr) : e.ptr[i] = b.ptr[i]
      /\ Len(b.ptr) <= Len(e.ptr)
  <2> HIDE DEF e
  <2>1. /\ e \in B!BufferOf(Octet)
        /\ b.dataLen + room <= Len(e.ptr)
        /\ \A i \in 1..Len(b.ptr) : e.ptr[i] = b.ptr[i]
        /\ \/ Len(e.ptr) = Len(b.ptr)
           \/ Len(b.ptr) < b.dataLen + room /\ Len(e.ptr) = Len(b.ptr) + room + Slack
    BY <1>1, MemoryAssumption, EnsureCapacity DEF e
  <2>2. QED
    BY <1>1, <1>2, <2>1, MemoryAssumption
<1>4. e.dataLen = b.dataLen
  BY DEF e, B!as_smpp_buffer_ensure_capacity
<1>5. c = [ptr |-> m, dataLen |-> end]
  <2>1. c = Stored(e, o)
    BY DEF Written, room
  <2> HIDE DEF e
  <2>2. QED
    BY <1>4, <2>1 DEF Stored
<1> HIDE DEF e
<1>6. e.ptr \in Seq(Octet) /\ Len(e.ptr) \in Nat
  BY <1>3 DEF B!BufferOf
<1>7. m \in [1..Len(e.ptr) -> Octet]
  <2>1. \A i \in 1..Len(e.ptr) : e.ptr[i] \in Octet
    BY <1>6
  <2>2. \A i \in 1..Len(o) : o[i] \in Octet
    BY <1>1
  <2>3. QED
    BY <2>1, <2>2
<1>8. end \in Nat /\ end <= Len(e.ptr)
  BY <1>1, <1>2, <1>3, <1>6
<1>9. \A i \in 1..Len(o) : m[b.dataLen + i] = o[i]
  <2>1. \A i \in 1..Len(o) : b.dataLen + i \in 1..Len(e.ptr) /\ (b.dataLen + i) - b.dataLen = i
    BY <1>1, <1>2, <1>6, <1>8
  <2>2. QED
    BY <2>1
<1>10. \A i \in 1..Len(b.ptr) : i <= b.dataLen \/ i > end => m[i] = b.ptr[i]
  <2>1. \A i \in 1..Len(b.ptr) : i \in 1..Len(e.ptr)
    BY <1>2, <1>3, <1>6
  <2>2. \A i \in 1..Len(b.ptr) : i <= b.dataLen \/ i > end => i - b.dataLen \notin 1..Len(o)
    BY <1>1, <1>2
  <2>3. \A i \in 1..Len(e.ptr) : i - b.dataLen \notin 1..Len(o) => m[i] = e.ptr[i]
    OBVIOUS
  <2> HIDE DEF m
  <2>4. QED
    BY <1>3, <2>1, <2>2, <2>3
<1> HIDE DEF m
<1>11. m \in Seq(Octet) /\ Len(m) = Len(e.ptr)
  BY <1>6, <1>7
<1>12. c.ptr = m /\ c.dataLen = end
  BY <1>5
<1>13. c \in B!BufferOf(Octet)
  BY <1>5, <1>8, <1>11 DEF B!BufferOf
<1>14. Holds(c.ptr, b.dataLen, o)
  BY <1>8, <1>9, <1>11, <1>12 DEF Holds
<1>15. QED
  BY <1>3, <1>10, <1>11, <1>12, <1>13, <1>14

\* What lies before the end of the data stays.
LEMMA StillHolds ==
  ASSUME NEW p, NEW q, NEW at \in Nat, NEW o, Len(o) \in Nat, NEW end \in Nat,
         Holds(p, at, o), at + Len(o) <= end, end <= Len(q), Len(q) \in Nat,
         \A i \in 1..end : q[i] = p[i]
  PROVE  Holds(q, at, o)
<1>1. \A i \in 1..Len(o) : at + i \in 1..end
  OBVIOUS
<1>2. QED
  BY <1>1 DEF Holds

\* The buffer after the first fields, after each of them.
Steps(written, b, W, pdu) ==
  /\ written[0] = b
  /\ \A n \in 1..Len(W) : written[n] = Written(written[n - 1], W[n], pdu[W[n].name])

\* The fields of a layout are written one after the other.
LEMMA WrittenIs ==
  ASSUME NEW b, NEW layout, Len(layout) \in Nat, NEW pdu
  PROVE  \E written :
           Steps(written, b, layout, pdu) /\ written[Len(layout)] = WrittenAlong(b, layout, pdu)
<1> DEFINE Step(r, n) == Written(r, layout[n], pdu[layout[n].name])
           Is(f, n) == f = [k \in 0..n |-> IF k = 0 THEN b ELSE Step(f[k - 1], k)]
           D == {n \in Nat : \E f : Is(f, n)}
<1>3. Len(layout) \in D
  <2> HIDE DEF Step
  <2>1. 0 \in D
    <3>1. Is([k \in 0..0 |-> b], 0)
      OBVIOUS
    <3>2. QED
      BY <3>1
  <2>2. ASSUME NEW n \in Nat, n \in D PROVE n + 1 \in D
    <3>1. PICK f : Is(f, n)
      BY <2>2
    <3> DEFINE g == [k \in 0..(n + 1) |-> IF k = n + 1 THEN Step(f[n], n + 1) ELSE f[k]]
    <3>2. \A k \in 0..n : g[k] = f[k]
      OBVIOUS
    <3>3. g[n + 1] = Step(g[n], n + 1)
      OBVIOUS
    <3>4. \A k \in 0..n : g[k] = IF k = 0 THEN b ELSE Step(g[k - 1], k)
      <4>1. \A k \in 0..n : k # 0 => k - 1 \in 0..n
        OBVIOUS
      <4>2. \A k \in 0..n : f[k] = IF k = 0 THEN b ELSE Step(f[k - 1], k)
        BY <3>1
      <4> HIDE DEF g
      <4>3. QED
        BY <3>2, <4>1, <4>2
    <3>5. \A k \in 0..(n + 1) : g[k] = IF k = 0 THEN b ELSE Step(g[k - 1], k)
      <4> HIDE DEF g
      <4>1. \A k \in 0..(n + 1) : k \in 0..n \/ (k = n + 1 /\ k # 0 /\ k - 1 = n)
        OBVIOUS
      <4>2. QED
        BY <3>3, <3>4, <4>1
    <3>6. g = [k \in 0..(n + 1) |-> g[k]]
      OBVIOUS
    <3>7. Is(g, n + 1)
      <4> HIDE DEF g
      <4>1. QED
        BY <3>5, <3>6
    <3>8. QED
      <4> HIDE DEF Is
      <4>1. QED
        BY <3>7
  <2>3. QED
    <3> HIDE DEF D
    <3>1. QED
      BY <2>1, <2>2, Induction
<1> DEFINE written == CHOOSE f : Is(f, Len(layout))
<1>4. Is(written, Len(layout))
  BY <1>3
<1>5. written[Len(layout)] = WrittenAlong(b, layout, pdu)
  BY DEF WrittenAlong
<1> HIDE DEF written
<1>6. \A k \in 0..Len(layout) : written[k] = IF k = 0 THEN b ELSE Step(written[k - 1], k)
  BY <1>4
<1>7. \A k \in 1..Len(layout) : k \in 0..Len(layout) /\ k # 0
  OBVIOUS
<1> HIDE DEF Step
<1>8. written[0] = b /\ \A k \in 1..Len(layout) : written[k] = Step(written[k - 1], k)
  BY <1>6, <1>7
<1>9. QED
  <2>1. Steps(written, b, layout, pdu)
    BY <1>8 DEF Steps, Step
  <2>2. QED
    BY <1>5, <2>1

\* Along a layout, the fields are placed one behind the other, behind the data,
\* which stays; how much they are is bounded by how much each is.
LEMMA AlongWritten ==
  ASSUME NEW b \in B!BufferOf(Octet), NEW W, Len(W) \in Nat, NEW pdu,
         \A k \in 1..Len(W) : Writable(W[k], pdu[W[k].name]),
         NEW c, c = WrittenAlong(b, W, pdu)
  PROVE  /\ c \in B!BufferOf(Octet)
         /\ b.dataLen <= c.dataLen
         /\ \A i \in 1..b.dataLen : c.ptr[i] = b.ptr[i]
         /\ Placed(c.ptr, b.dataLen, Pieces(W, pdu), c.dataLen)
<1> DEFINE N == Len(W)
           piece(k) == OctetsOf(W[k], pdu[W[k].name])
<1>1. PICK written : /\ written[0] = b
                     /\ \A n \in 1..N : written[n] = Written(written[n - 1], W[n], pdu[W[n].name])
                     /\ written[N] = c
  <2>1. \E written : Steps(written, b, W, pdu) /\ written[Len(W)] = WrittenAlong(b, W, pdu)
    BY WrittenIs
  <2>2. QED
    BY <2>1 DEF Steps
<1>2. \A k \in 1..N : Len(piece(k)) \in Nat
  BY DEF Writable
<1>3. b.dataLen \in Nat
  BY DEF B!BufferOf
<1> HIDE DEF piece, N
<1> DEFINE P(n) ==
      /\ written[n] \in B!BufferOf(Octet)
      /\ b.dataLen <= written[n].dataLen
      /\ \A i \in 1..b.dataLen : written[n].ptr[i] = b.ptr[i]
      /\ \A k \in 1..n :
           /\ written[k - 1].dataLen \in Nat /\ written[k].dataLen \in Nat
           /\ written[k].dataLen = written[k - 1].dataLen + Len(piece(k))
           /\ written[k].dataLen <= written[n].dataLen
           /\ Holds(written[n].ptr, written[k - 1].dataLen, piece(k))
<1>4. P(0)
  BY <1>1, <1>3
<1>5. ASSUME NEW n \in Nat, n + 1 <= N, P(n) PROVE P(n + 1)
  <2> DEFINE w == written[n]
             x == written[n + 1]
             o == piece(n + 1)
  <2>1. n + 1 \in 1..N /\ (n + 1) - 1 = n /\ N \in Nat
    BY <1>5 DEF N
  <2>2. w \in B!BufferOf(Octet) /\ b.dataLen <= w.dataLen
    BY <1>5
  <2>3. x = Written(w, W[n + 1], pdu[W[n + 1].name])
    BY <1>1, <2>1
  <2>4. Writable(W[n + 1], pdu[W[n + 1].name]) /\ o = OctetsOf(W[n + 1], pdu[W[n + 1].name])
    BY <2>1 DEF N, piece
  <2> HIDE DEF w, x, o
  <2>5. /\ x \in B!BufferOf(Octet)
        /\ x.dataLen = w.dataLen + Len(o)
        /\ Len(w.ptr) <= Len(x.ptr)
        /\ Holds(x.ptr, w.dataLen, o)
        /\ \A i \in 1..Len(w.ptr) : i <= w.dataLen \/ i > x.dataLen => x.ptr[i] = w.ptr[i]
    BY <2>2, <2>3, <2>4, FieldWritten
  <2>6. /\ w.dataLen \in Nat /\ Len(w.ptr) \in Nat /\ w.dataLen <= Len(w.ptr)
        /\ x.dataLen \in Nat /\ Len(x.ptr) \in Nat /\ x.dataLen <= Len(x.ptr)
        /\ Len(o) \in Nat
    <3>1. Len(o) \in Nat
      BY <1>2, <2>1 DEF o
    <3>2. QED
      BY <2>2, <2>5, <3>1 DEF B!BufferOf
  <2>7. \A i \in 1..w.dataLen : x.ptr[i] = w.ptr[i]
    BY <2>5, <2>6
  <2>8. b.dataLen <= x.dataLen /\ \A i \in 1..b.dataLen : x.ptr[i] = b.ptr[i]
    <3>1. \A i \in 1..b.dataLen : w.ptr[i] = b.ptr[i]
      BY <1>5 DEF w
    <3>2. QED
      BY <1>3, <2>2, <2>5, <2>6, <2>7, <3>1
  <2>9. ASSUME NEW k \in 1..n
        PROVE  /\ written[k - 1].dataLen \in Nat /\ written[k].dataLen \in Nat
               /\ written[k].dataLen = written[k - 1].dataLen + Len(piece(k))
               /\ written[k].dataLen <= x.dataLen
               /\ Holds(x.ptr, written[k - 1].dataLen, piece(k))
    <3> DEFINE low == written[k - 1].dataLen
               high == written[k].dataLen
               q == piece(k)
    <3>1. /\ low \in Nat /\ high \in Nat /\ high = low + Len(q) /\ high <= w.dataLen
          /\ Holds(w.ptr, low, q)
      BY <1>5 DEF w
    <3>2. Len(q) \in Nat
      BY <1>2, <2>1
    <3> HIDE DEF low, high, q
    <3>3. Holds(x.ptr, low, q)
      <4> DEFINE f == w.ptr
                 g == x.ptr
                 l == w.dataLen
      <4>1. l \in Nat /\ l <= Len(g) /\ Len(g) \in Nat /\ low + Len(q) <= l /\ Holds(f, low, q)
        BY <2>5, <2>6, <3>1, <3>2
      <4>2. \A i \in 1..l : g[i] = f[i]
        BY <2>7
      <4> HIDE DEF f, g, l
      <4>3. Holds(g, low, q)
        BY <3>1, <3>2, <4>1, <4>2, StillHolds
      <4>4. QED
        BY <4>3 DEF g
    <3>4. high <= x.dataLen
      BY <2>5, <2>6, <3>1
    <3>5. QED
      BY <3>1, <3>3, <3>4 DEF low, high, q
  <2>10. \A k \in 1..(n + 1) : k \in 1..n \/ (k = n + 1 /\ k - 1 = n)
    OBVIOUS
  <2>11. ASSUME NEW k \in 1..(n + 1)
         PROVE  /\ written[k - 1].dataLen \in Nat /\ written[k].dataLen \in Nat
                /\ written[k].dataLen = written[k - 1].dataLen + Len(piece(k))
                /\ written[k].dataLen <= x.dataLen
                /\ Holds(x.ptr, written[k - 1].dataLen, piece(k))
    <3>1. CASE k \in 1..n
      BY <2>9, <3>1
    <3>2. CASE k = n + 1 /\ k - 1 = n
      <4>1. written[k] = x /\ written[k - 1] = w /\ piece(k) = o
        BY <3>2 DEF x, w, o
      <4>2. QED
        BY <2>5, <2>6, <4>1
    <3>3. QED
      BY <2>10, <3>1, <3>2
  <2>12. QED
    BY <2>5, <2>8, <2>11 DEF x
<1>6. N \in Nat
  BY DEF N
<1>7. P(N)
  <2> DEFINE D == {n \in Nat : n <= N => P(n)}
  <2>1. 0 \in D
    <3> HIDE DEF P
    <3>1. QED
      BY <1>4
  <2>2. ASSUME NEW n \in Nat, n \in D PROVE n + 1 \in D
    <3> HIDE DEF P
    <3>1. n + 1 <= N => n <= N
      BY <1>6
    <3>2. QED
      BY <1>5, <2>2, <3>1
  <2>3. N \in D
    <3> HIDE DEF D
    <3>1. QED
      BY <1>6, <2>1, <2>2, Induction
  <2>4. QED
    <3> HIDE DEF P
    <3>1. QED
      BY <1>6, <2>3
<1>8. Placed(c.ptr, b.dataLen, Pieces(W, pdu), c.dataLen)
  <2> DEFINE place == [k \in 0..N |-> written[k].dataLen]
  <2>1. \A k \in 0..N : written[k].dataLen \in Nat
    <3>1. \A k \in 0..N : k = 0 \/ k \in 1..N
      BY <1>6
    <3>2. QED
      BY <1>1, <1>3, <1>7, <3>1
  <2>2. place \in [0..N -> Nat]
    BY <2>1
  <2>3. place[0] = b.dataLen /\ place[N] = c.dataLen
    BY <1>1, <1>6
  <2>4. \A k \in 1..N : Pieces(W, pdu)[k] = piece(k)
    BY DEF Pieces, N, piece
  <2>5. Len(Pieces(W, pdu)) = N
    BY <1>6 DEF Pieces, N
  <2>6. \A k \in 1..N : place[k] = written[k].dataLen /\ place[k - 1] = written[k - 1].dataLen
    BY <1>6
  <2> HIDE DEF place
  <2>7. \A k \in 1..N : place[k] = place[k - 1] + Len(piece(k))
                          /\ Holds(c.ptr, place[k - 1], piece(k))
    BY <1>1, <1>7, <2>6
  <2>8. QED
    BY <2>2, <2>3, <2>4, <2>5, <2>7 DEF Placed
<1>9. QED
  BY <1>1, <1>7, <1>8

-----------------------------------------------------------------------------
(***************************************************************************)
(* The layouts, field by field.                                            *)
(***************************************************************************)
\* The elements of a concatenation.
LEMMA Elements ==
  ASSUME NEW S, NEW a \in Seq(S), NEW b \in Seq(S)
  PROVE  /\ \A i \in 1..Len(a) : (a \o b)[i] = a[i]
         /\ \A i \in 1..Len(b) : (a \o b)[Len(a) + i] = b[i]
OBVIOUS

\* w is four parts, one behind the other.
Parts(w, a, b, c, d) ==
  /\ Len(w) = Len(a) + Len(b) + Len(c) + Len(d)
  /\ \A i \in 1..Len(a) : w[i] = a[i]
  /\ \A i \in 1..Len(b) : w[Len(a) + i] = b[i]
  /\ \A i \in 1..Len(c) : w[Len(a) + Len(b) + i] = c[i]
  /\ \A i \in 1..Len(d) : w[Len(a) + Len(b) + Len(c) + i] = d[i]

\* A layout of four parts.
LEMMA FourParts ==
  ASSUME NEW S, NEW a \in Seq(S), NEW b \in Seq(S), NEW c \in Seq(S), NEW d \in Seq(S),
         NEW w, w = a \o b \o c \o d
  PROVE  Parts(w, a, b, c, d)
<1> DEFINE ab == a \o b
           abc == ab \o c
<1>1. ab \in Seq(S) /\ Len(ab) = Len(a) + Len(b)
  BY Concatenated
<1>2. /\ \A i \in 1..Len(a) : ab[i] = a[i]
      /\ \A i \in 1..Len(b) : ab[Len(a) + i] = b[i]
  BY Elements
<1>3. w = abc \o d
  OBVIOUS
<1> HIDE DEF ab
<1>4. abc \in Seq(S) /\ Len(abc) = Len(a) + Len(b) + Len(c)
  <2>1. abc \in Seq(S) /\ Len(abc) = Len(ab) + Len(c)
    BY <1>1, Concatenated
  <2>2. QED
    BY <1>1, <2>1
<1>5. /\ \A i \in 1..Len(ab) : abc[i] = ab[i]
      /\ \A i \in 1..Len(c) : abc[Len(ab) + i] = c[i]
  BY <1>1, Elements
<1> HIDE DEF abc
<1>6. w \in Seq(S) /\ Len(w) = Len(abc) + Len(d)
  BY <1>3, <1>4, Concatenated
<1>7. /\ \A i \in 1..Len(abc) : w[i] = abc[i]
      /\ \A i \in 1..Len(d) : w[Len(abc) + i] = d[i]
  <2>1. /\ \A i \in 1..Len(abc) : (abc \o d)[i] = abc[i]
        /\ \A i \in 1..Len(d) : (abc \o d)[Len(abc) + i] = d[i]
    BY <1>4, Elements
  <2>2. QED
    BY <1>3, <2>1, Zenon
<1>8. Len(a) \in Nat /\ Len(b) \in Nat /\ Len(c) \in Nat /\ Len(d) \in Nat
  OBVIOUS
<1>9. \A i \in 1..Len(a) : w[i] = a[i]
  <2>1. \A i \in 1..Len(a) : i \in 1..Len(ab) /\ i \in 1..Len(abc)
    BY <1>1, <1>4, <1>8
  <2>2. QED
    BY <1>2, <1>5, <1>7, <2>1
<1>10. \A i \in 1..Len(b) : w[Len(a) + i] = b[i]
  <2>1. \A i \in 1..Len(b) : Len(a) + i \in 1..Len(ab) /\ Len(a) + i \in 1..Len(abc)
    BY <1>1, <1>4, <1>8
  <2>2. QED
    BY <1>2, <1>5, <1>7, <2>1
<1>11. \A i \in 1..Len(c) : w[Len(a) + Len(b) + i] = c[i]
  <2>1. \A i \in 1..Len(c) : Len(ab) + i \in 1..Len(abc)
    BY <1>1, <1>4, <1>8
  <2>2. \A i \in 1..Len(c) : w[Len(ab) + i] = c[i]
    BY <1>5, <1>7, <2>1
  <2>3. QED
    BY <1>1, <2>2
<1>12. \A i \in 1..Len(d) : w[Len(a) + Len(b) + Len(c) + i] = d[i]
  BY <1>4, <1>7
<1>13. Len(w) = Len(a) + Len(b) + Len(c) + Len(d)
  BY <1>4, <1>6
<1>14. QED
  BY <1>9, <1>10, <1>11, <1>12, <1>13 DEF Parts

\* The fields of a submit_sm.
SomeFields ==
  [kind : {"integer", "flag", "string", "datetime", "binary"},
   name : {"serviceType", "sourceTon", "sourceNpi", "source", "destinationTon",
           "destinationNpi", "destination", "esmClass", "protocolId", "priority",
           "scheduleDeliveryTime", "validityPeriod", "registeredDelivery",
           "replaceIfPresent", "dataCoding", "defaultMessageId", "messageLength",
           "message"},
   len : Nat]

\* Three elements are a sequence.
LEMMA Three ==
  ASSUME NEW S, NEW x \in S, NEW y \in S, NEW z \in S
  PROVE  <<x, y, z>> \in Seq(S) /\ Len(<<x, y, z>>) = 3
OBVIOUS

\* Eleven elements are a sequence.
LEMMA Eleven ==
  ASSUME NEW S, NEW e1 \in S, NEW e2 \in S, NEW e3 \in S, NEW e4 \in S, NEW e5 \in S,
         NEW e6 \in S, NEW e7 \in S, NEW e8 \in S, NEW e9 \in S, NEW e10 \in S, NEW e11 \in S
  PROVE  /\ <<e1, e2, e3, e4, e5, e6, e7, e8, e9, e10, e11>> \in Seq(S)
         /\ Len(<<e1, e2, e3, e4, e5, e6, e7, e8, e9, e10, e11>>) = 11
OBVIOUS

\* The parts of the layouts of submit_sm, and their fields in the concatenation.
LEMMA SubmitParts ==
  ASSUME NEW d \in Seq(SomeFields), Len(d) = 11,
         NEW w, w = <<String("serviceType", "serviceType")>>
                      \o Address("sourceTon", "sourceNpi", "source")
                      \o Address("destinationTon", "destinationNpi", "destination") \o d
  PROVE  /\ Len(w) = 18
         /\ w[1] = String("serviceType", "serviceType")
         /\ w[2] = Integer("sourceTon")
         /\ w[3] = Integer("sourceNpi")
         /\ w[4] = String("source", "address")
         /\ w[5] = Integer("destinationTon")
         /\ w[6] = Integer("destinationNpi")
         /\ w[7] = String("destination", "address")
         /\ \A i \in 1..11 : w[7 + i] = d[i]
<1> DEFINE a == <<String("serviceType", "serviceType")>>
           b == Address("sourceTon", "sourceNpi", "source")
           c == Address("destinationTon", "destinationNpi", "destination")
<1>1. MaxLen["serviceType"] \in Nat /\ MaxLen["address"] \in Nat
  BY StringAssumption
<1>2. a \in Seq(SomeFields) /\ Len(a) = 1 /\ a[1] = String("serviceType", "serviceType")
  <2>1. String("serviceType", "serviceType") \in SomeFields
    BY <1>1 DEF String, Field, SomeFields
  <2>2. QED
    BY <2>1
<1>3. /\ b \in Seq(SomeFields) /\ Len(b) = 3
      /\ b[1] = Integer("sourceTon") /\ b[2] = Integer("sourceNpi")
      /\ b[3] = String("source", "address")
  <2>1. /\ Integer("sourceTon") \in SomeFields /\ Integer("sourceNpi") \in SomeFields
        /\ String("source", "address") \in SomeFields
    BY <1>1 DEF Integer, String, Field, SomeFields
  <2>2. QED
    BY <2>1, Three DEF Address
<1>4. /\ c \in Seq(SomeFields) /\ Len(c) = 3
      /\ c[1] = Integer("destinationTon") /\ c[2] = Integer("destinationNpi")
      /\ c[3] = String("destination", "address")
  <2>1. /\ Integer("destinationTon") \in SomeFields /\ Integer("destinationNpi") \in SomeFields
        /\ String("destination", "address") \in SomeFields
    BY <1>1 DEF Integer, String, Field, SomeFields
  <2>2. QED
    BY <2>1, Three DEF Address
<1>5. w = a \o b \o c \o d
  OBVIOUS
<1> HIDE DEF a, b, c
<1>6. Parts(w, a, b, c, d)
  BY <1>2, <1>3, <1>4, <1>5, FourParts
<1>7. Len(w) = 18
  BY <1>2, <1>3, <1>4, <1>6 DEF Parts
<1>8. w[1] = a[1]
  BY <1>2, <1>6 DEF Parts
<1>9. w[2] = b[1] /\ w[3] = b[2] /\ w[4] = b[3]
  <2>1. \A i \in 1..3 : w[1 + i] = b[i]
    BY <1>2, <1>3, <1>6 DEF Parts
  <2>2. w[1 + 1] = b[1] /\ w[1 + 2] = b[2] /\ w[1 + 3] = b[3]
    BY <2>1
  <2>3. QED
    BY <2>2
<1>10. w[5] = c[1] /\ w[6] = c[2] /\ w[7] = c[3]
  <2>1. \A i \in 1..3 : w[4 + i] = c[i]
    <3>1. Len(a) + Len(b) = 4 /\ Len(c) = 3
      BY <1>2, <1>3, <1>4
    <3>2. QED
      BY <1>6, <3>1 DEF Parts
  <2>2. w[4 + 1] = c[1] /\ w[4 + 2] = c[2] /\ w[4 + 3] = c[3]
    BY <2>1
  <2>3. QED
    BY <2>2
<1>11. \A i \in 1..11 : w[7 + i] = d[i]
  <2>1. Len(a) + Len(b) + Len(c) = 7
    BY <1>2, <1>3, <1>4
  <2>2. QED
    BY <1>6, <2>1 DEF Parts
<1>12. QED
  BY <1>2, <1>3, <1>4, <1>7, <1>8, <1>9, <1>10, <1>11


\* The fields of WrittenSubmitSm.
LEMMA WrittenSubmitSmFields ==
         /\ Len(WrittenSubmitSm) = 18
         /\ WrittenSubmitSm[1] = String("serviceType", "serviceType")
         /\ WrittenSubmitSm[2] = Integer("sourceTon")
         /\ WrittenSubmitSm[3] = Integer("sourceNpi")
         /\ WrittenSubmitSm[4] = String("source", "address")
         /\ WrittenSubmitSm[5] = Integer("destinationTon")
         /\ WrittenSubmitSm[6] = Integer("destinationNpi")
         /\ WrittenSubmitSm[7] = String("destination", "address")
         /\ WrittenSubmitSm[8] = Integer("esmClass")
         /\ WrittenSubmitSm[9] = Integer("protocolId")
         /\ WrittenSubmitSm[10] = Integer("priority")
         /\ WrittenSubmitSm[11] = Integer("scheduleDeliveryTime")
         /\ WrittenSubmitSm[12] = Integer("validityPeriod")
         /\ WrittenSubmitSm[13] = Integer("registeredDelivery")
         /\ WrittenSubmitSm[14] = Integer("replaceIfPresent")
         /\ WrittenSubmitSm[15] = Integer("dataCoding")
         /\ WrittenSubmitSm[16] = Integer("defaultMessageId")
         /\ WrittenSubmitSm[17] = Integer("messageLength")
         /\ WrittenSubmitSm[18] = Field("binary", "message", 0)
<1> DEFINE d == <<Integer("esmClass"), Integer("protocolId"), Integer("priority"),
                  Integer("scheduleDeliveryTime"), Integer("validityPeriod"),
                  Integer("registeredDelivery"), Integer("replaceIfPresent"),
                  Integer("dataCoding"), Integer("defaultMessageId"),
                  Integer("messageLength"), Field("binary", "message", 0)>>
<1>1. MaxLen["dateTime"] \in Nat
  BY StringAssumption
<1>2. d \in Seq(SomeFields) /\ Len(d) = 11
  <2>1. /\ Integer("esmClass") \in SomeFields /\ Integer("protocolId") \in SomeFields
        /\ Integer("priority") \in SomeFields /\ Integer("registeredDelivery") \in SomeFields
        /\ Integer("dataCoding") \in SomeFields /\ Integer("defaultMessageId") \in SomeFields
        /\ Integer("messageLength") \in SomeFields /\ Field("binary", "message", 0) \in SomeFields
    BY DEF Integer, Field, SomeFields
  <2>2. /\ Integer("scheduleDeliveryTime") \in SomeFields
        /\ Integer("validityPeriod") \in SomeFields
        /\ Integer("replaceIfPresent") \in SomeFields
    BY <1>1 DEF Integer, Flag, Field, SomeFields
  <2>3. QED
    BY <2>1, <2>2, Eleven
<1>3. /\ d[1] = Integer("esmClass")
      /\ d[2] = Integer("protocolId")
      /\ d[3] = Integer("priority")
      /\ d[4] = Integer("scheduleDeliveryTime")
      /\ d[5] = Integer("validityPeriod")
      /\ d[6] = Integer("registeredDelivery")
      /\ d[7] = Integer("replaceIfPresent")
      /\ d[8] = Integer("dataCoding")
      /\ d[9] = Integer("defaultMessageId")
      /\ d[10] = Integer("messageLength")
      /\ d[11] = Field("binary", "message", 0)
  BY DEF Integer, Flag, Field
<1>4. WrittenSubmitSm = <<String("serviceType", "serviceType")>>
               \o Address("sourceTon", "sourceNpi", "source")
               \o Address("destinationTon", "destinationNpi", "destination") \o d
  BY DEF WrittenSubmitSm
<1> HIDE DEF d
<1> DEFINE w == WrittenSubmitSm
<1>5. w = <<String("serviceType", "serviceType")>>
               \o Address("sourceTon", "sourceNpi", "source")
               \o Address("destinationTon", "destinationNpi", "destination") \o d
  BY <1>4
<1> HIDE DEF w
<1>6. /\ Len(w) = 18
      /\ w[1] = String("serviceType", "serviceType")
      /\ w[2] = Integer("sourceTon")
      /\ w[3] = Integer("sourceNpi")
      /\ w[4] = String("source", "address")
      /\ w[5] = Integer("destinationTon")
      /\ w[6] = Integer("destinationNpi")
      /\ w[7] = String("destination", "address")
      /\ \A i \in 1..11 : w[7 + i] = d[i]
  BY <1>2, <1>5, SubmitParts
<1>7. /\ w[7 + 1] = d[1] /\ w[7 + 2] = d[2] /\ w[7 + 3] = d[3] /\ w[7 + 4] = d[4]
      /\ w[7 + 5] = d[5] /\ w[7 + 6] = d[6] /\ w[7 + 7] = d[7] /\ w[7 + 8] = d[8]
      /\ w[7 + 9] = d[9] /\ w[7 + 10] = d[10] /\ w[7 + 11] = d[11]
  BY <1>6
<1>8. /\ w[8] = d[1] /\ w[9] = d[2] /\ w[10] = d[3] /\ w[11] = d[4]
      /\ w[12] = d[5] /\ w[13] = d[6] /\ w[14] = d[7] /\ w[15] = d[8]
      /\ w[16] = d[9] /\ w[17] = d[10] /\ w[18] = d[11]
  BY <1>7
<1>9. QED
  BY <1>3, <1>6, <1>8, Zenon DEF w


\* The fields of ReadSubmitSm.
LEMMA ReadSubmitSmFields ==
         /\ Len(ReadSubmitSm) = 18
         /\ ReadSubmitSm[1] = String("serviceType", "serviceType")
         /\ ReadSubmitSm[2] = Integer("sourceTon")
         /\ ReadSubmitSm[3] = Integer("sourceNpi")
         /\ ReadSubmitSm[4] = String("source", "address")
         /\ ReadSubmitSm[5] = Integer("destinationTon")
         /\ ReadSubmitSm[6] = Integer("destinationNpi")
         /\ ReadSubmitSm[7] = String("destination", "address")
         /\ ReadSubmitSm[8] = Integer("esmClass")
         /\ ReadSubmitSm[9] = Integer("protocolId")
         /\ ReadSubmitSm[10] = Integer("priority")
         /\ ReadSubmitSm[11] = Field("datetime", "scheduleDeliveryTime", MaxLen["dateTime"])
         /\ ReadSubmitSm[12] = Field("datetime", "validityPeriod", MaxLen["dateTime"])
         /\ ReadSubmitSm[13] = Integer("registeredDelivery")
         /\ ReadSubmitSm[14] = Flag("replaceIfPresent")
         /\ ReadSubmitSm[15] = Integer("dataCoding")
         /\ ReadSubmitSm[16] = Integer("defaultMessageId")
         /\ ReadSubmitSm[17] = Integer("messageLength")
         /\ ReadSubmitSm[18] = Field("binary", "message", 0)
<1> DEFINE d == ReadBehindAddresses
<1>1. MaxLen["dateTime"] \in Nat
  BY StringAssumption
<1>2. d \in Seq(SomeFields) /\ Len(d) = 11
  <2>1. /\ Integer("esmClass") \in SomeFields /\ Integer("protocolId") \in SomeFields
        /\ Integer("priority") \in SomeFields /\ Integer("registeredDelivery") \in SomeFields
        /\ Integer("dataCoding") \in SomeFields /\ Integer("defaultMessageId") \in SomeFields
        /\ Integer("messageLength") \in SomeFields /\ Field("binary", "message", 0) \in SomeFields
    BY DEF Integer, Field, SomeFields
  <2>2. /\ Field("datetime", "scheduleDeliveryTime", MaxLen["dateTime"]) \in SomeFields
        /\ Field("datetime", "validityPeriod", MaxLen["dateTime"]) \in SomeFields
        /\ Flag("replaceIfPresent") \in SomeFields
    BY <1>1 DEF Integer, Flag, Field, SomeFields
  <2>3. QED
    BY <2>1, <2>2, Eleven DEF ReadBehindAddresses
<1>3. /\ d[1] = Integer("esmClass")
      /\ d[2] = Integer("protocolId")
      /\ d[3] = Integer("priority")
      /\ d[4] = Field("datetime", "scheduleDeliveryTime", MaxLen["dateTime"])
      /\ d[5] = Field("datetime", "validityPeriod", MaxLen["dateTime"])
      /\ d[6] = Integer("registeredDelivery")
      /\ d[7] = Flag("replaceIfPresent")
      /\ d[8] = Integer("dataCoding")
      /\ d[9] = Integer("defaultMessageId")
      /\ d[10] = Integer("messageLength")
      /\ d[11] = Field("binary", "message", 0)
  BY DEF Integer, Flag, Field, ReadBehindAddresses
<1>4. ReadSubmitSm = <<String("serviceType", "serviceType")>>
               \o Address("sourceTon", "sourceNpi", "source")
               \o Address("destinationTon", "destinationNpi", "destination") \o d
  BY DEF ReadSubmitSm
<1> HIDE DEF d
<1> DEFINE w == ReadSubmitSm
<1>5. w = <<String("serviceType", "serviceType")>>
               \o Address("sourceTon", "sourceNpi", "source")
               \o Address("destinationTon", "destinationNpi", "destination") \o d
  BY <1>4
<1> HIDE DEF w
<1>6. /\ Len(w) = 18
      /\ w[1] = String("serviceType", "serviceType")
      /\ w[2] = Integer("sourceTon")
      /\ w[3] = Integer("sourceNpi")
      /\ w[4] = String("source", "address")
      /\ w[5] = Integer("destinationTon")
      /\ w[6] = Integer("destinationNpi")
      /\ w[7] = String("destination", "address")
      /\ \A i \in 1..11 : w[7 + i] = d[i]
  BY <1>2, <1>5, SubmitParts
<1>7. /\ w[7 + 1] = d[1] /\ w[7 + 2] = d[2] /\ w[7 + 3] = d[3] /\ w[7 + 4] = d[4]
      /\ w[7 + 5] = d[5] /\ w[7 + 6] = d[6] /\ w[7 + 7] = d[7] /\ w[7 + 8] = d[8]
      /\ w[7 + 9] = d[9] /\ w[7 + 10] = d[10] /\ w[7 + 11] = d[11]
  BY <1>6
<1>8. /\ w[8] = d[1] /\ w[9] = d[2] /\ w[10] = d[3] /\ w[11] = d[4]
      /\ w[12] = d[5] /\ w[13] = d[6] /\ w[14] = d[7] /\ w[15] = d[8]
      /\ w[16] = d[9] /\ w[17] = d[10] /\ w[18] = d[11]
  BY <1>7
<1>9. QED
  BY <1>3, <1>6, <1>8, Zenon DEF w

-----------------------------------------------------------------------------
(***************************************************************************)
(* Moving what is placed in a memory.                                      *)
(***************************************************************************)
\* place[k] is where the pieces up to the k-th end.
Places(place, ptr, at, F, end) ==
  /\ place \in [0..Len(F) -> Nat]
  /\ place[0] = at /\ place[Len(F)] = end
  /\ \A k \in 1..Len(F) :
       place[k] = place[k - 1] + Len(F[k]) /\ Holds(ptr, place[k - 1], F[k])

\* The pieces are placed between the first index and the last.
LEMMA PlacedBetween ==
  ASSUME NEW F, Len(F) \in Nat, \A k \in 1..Len(F) : Len(F[k]) \in Nat,
         NEW ptr, NEW at, NEW end, NEW place, Places(place, ptr, at, F, end)
  PROVE  \A k \in 0..Len(F) : at <= place[k] /\ place[k] <= end
<1> DEFINE N == Len(F)
<1>1. N \in Nat /\ place \in [0..N -> Nat] /\ place[0] = at /\ place[N] = end
  BY DEF Places
<1>2. \A k \in 1..N : place[k - 1] <= place[k]
  <2>1. \A k \in 1..N : place[k] = place[k - 1] + Len(F[k]) /\ Len(F[k]) \in Nat
    BY DEF Places
  <2>2. \A k \in 1..N : place[k - 1] \in Nat /\ place[k] \in Nat
    BY <1>1
  <2>3. QED
    BY <2>1, <2>2
<1> HIDE DEF N
<1>3. ASSUME NEW n \in Nat PROVE n <= N => at <= place[n]
  <2> DEFINE D == {k \in Nat : k <= N => at <= place[k]}
  <2>1. 0 \in D
    BY <1>1
  <2>2. ASSUME NEW k \in Nat, k \in D PROVE k + 1 \in D
    <3>1. ASSUME k + 1 <= N PROVE at <= place[k + 1]
      <4>1. k + 1 \in 1..N /\ (k + 1) - 1 = k /\ k <= N /\ k \in 0..N /\ k + 1 \in 0..N
        BY <1>1, <3>1
      <4>2. place[k] <= place[k + 1] /\ at <= place[k] /\ place[k] \in Nat /\ place[k + 1] \in Nat
        BY <1>1, <1>2, <2>2, <4>1
      <4>3. at \in Nat
        BY <1>1
      <4>4. QED
        BY <4>2, <4>3
    <3>2. QED
      BY <3>1
  <2>3. QED
    <3> HIDE DEF D
    <3>1. n \in D
      BY <2>1, <2>2, Induction
    <3>2. QED
      BY <3>1 DEF D
<1>4. ASSUME NEW n \in Nat PROVE n <= N => place[N - n] <= end
  <2> DEFINE D == {k \in Nat : k <= N => place[N - k] <= end}
  <2>1. 0 \in D
    BY <1>1
  <2>2. ASSUME NEW k \in Nat, k \in D PROVE k + 1 \in D
    <3>1. ASSUME k + 1 <= N PROVE place[N - (k + 1)] <= end
      <4>1. N - k \in 1..N /\ (N - k) - 1 = N - (k + 1) /\ k <= N
            /\ N - k \in 0..N /\ N - (k + 1) \in 0..N
        BY <1>1, <3>1
      <4>2. /\ place[N - (k + 1)] <= place[N - k] /\ place[N - k] <= end
            /\ place[N - k] \in Nat /\ place[N - (k + 1)] \in Nat
        BY <1>1, <1>2, <2>2, <4>1
      <4>3. end \in Nat
        BY <1>1
      <4>4. QED
        BY <4>2, <4>3
    <3>2. QED
      BY <3>1
  <2>3. QED
    <3> HIDE DEF D
    <3>1. n \in D
      BY <2>1, <2>2, Induction
    <3>2. QED
      BY <3>1 DEF D
<1>5. ASSUME NEW k \in 0..N PROVE at <= place[k] /\ place[k] <= end
  <2>1. k \in Nat /\ k <= N /\ N - k \in Nat /\ N - k <= N /\ N - (N - k) = k
    BY <1>1
  <2>2. QED
    BY <1>3, <1>4, <2>1
<1>6. QED
  BY <1>5 DEF N

\* What is copied to another place, in the same memory or another, is placed there.
LEMMA PlacedMoved ==
  ASSUME NEW F, Len(F) \in Nat, \A k \in 1..Len(F) : Len(F[k]) \in Nat,
         NEW p, NEW at, NEW end, Placed(p, at, F, end),
         NEW q, Len(q) \in Nat, NEW to \in Nat, to + (end - at) <= Len(q),
         \A i \in 1..(end - at) : q[to + i] = p[at + i]
  PROVE  /\ at \in Nat /\ end \in Nat /\ at <= end
         /\ Placed(q, to, F, to + (end - at))
<1> DEFINE N == Len(F)
<1>1. PICK place : Places(place, p, at, F, end)
  BY DEF Placed, Places
<1>2. \A k \in 0..N : at <= place[k] /\ place[k] <= end
  BY <1>1, PlacedBetween
<1>3. N \in Nat /\ place \in [0..N -> Nat] /\ place[0] = at /\ place[N] = end
  BY <1>1 DEF Places
<1>4. at \in Nat /\ end \in Nat /\ at <= end
  BY <1>2, <1>3
<1> DEFINE there == [k \in 0..N |-> to + (place[k] - at)]
<1>5. there \in [0..N -> Nat] /\ there[0] = to /\ there[N] = to + (end - at)
  <2>1. \A k \in 0..N : to + (place[k] - at) \in Nat
    BY <1>2, <1>3, <1>4
  <2>2. to + (at - at) = to
    BY <1>4
  <2>3. QED
    BY <1>3, <2>1, <2>2
<1>6. ASSUME NEW k \in 1..N
      PROVE  there[k] = there[k - 1] + Len(F[k]) /\ Holds(q, there[k - 1], F[k])
  <2> DEFINE low == place[k - 1]
             high == place[k]
             f == F[k]
  <2>1. k \in 0..N /\ k - 1 \in 0..N
    BY <1>3
  <2>2. /\ low \in Nat /\ high \in Nat /\ at <= low /\ high <= end /\ high = low + Len(f)
        /\ Holds(p, low, f) /\ Len(f) \in Nat
    BY <1>1, <1>2, <1>3, <2>1 DEF Places
  <2>3. there[k] = to + (high - at) /\ there[k - 1] = to + (low - at)
    BY <2>1
  <2> HIDE DEF low, high, f, there
  <2>4. there[k] = there[k - 1] + Len(f)
    BY <1>4, <2>2, <2>3
  <2>5. ASSUME NEW i \in 1..Len(f) PROVE q[(to + (low - at)) + i] = f[i]
    <3>1. (low - at) + i \in 1..(end - at)
      BY <1>4, <2>2
    <3>2. q[to + ((low - at) + i)] = p[at + ((low - at) + i)]
      BY <3>1
    <3>3. to + ((low - at) + i) = (to + (low - at)) + i /\ at + ((low - at) + i) = low + i
      BY <1>4, <2>2
    <3>4. p[low + i] = f[i]
      BY <2>2 DEF Holds
    <3>5. QED
      BY <3>2, <3>3, <3>4
  <2>6. (to + (low - at)) + Len(f) <= Len(q)
    BY <1>4, <2>2
  <2>7. Holds(q, there[k - 1], f)
    BY <2>3, <2>5, <2>6 DEF Holds
  <2>8. QED
    BY <2>4, <2>7 DEF f
<1> HIDE DEF there
<1>7. Placed(q, to, F, to + (end - at))
  BY <1>5, <1>6 DEF Placed
<1>8. QED
  BY <1>4, <1>7

\* How far the pieces reach, if each is not longer than m.
LEMMA PlacedBound ==
  ASSUME NEW F, Len(F) \in Nat, NEW m \in Nat,
         \A k \in 1..Len(F) : Len(F[k]) \in Nat /\ Len(F[k]) <= m,
         NEW ptr, NEW at, NEW end, Placed(ptr, at, F, end)
  PROVE  at \in Nat /\ end \in Nat /\ end <= at + Len(F) * m
<1> DEFINE N == Len(F)
<1>1. PICK place : Places(place, ptr, at, F, end)
  BY DEF Placed, Places
<1>2. N \in Nat /\ place \in [0..N -> Nat] /\ place[0] = at /\ place[N] = end
  BY <1>1 DEF Places
<1>3. at \in Nat /\ end \in Nat
  BY <1>2
<1> DEFINE D == {k \in Nat : k <= N => place[k] <= at + k * m}
<1>4. 0 \in D
  BY <1>2, <1>3
<1>5. ASSUME NEW k \in Nat, k \in D PROVE k + 1 \in D
  <2>1. ASSUME k + 1 <= N PROVE place[k + 1] <= at + (k + 1) * m
    <3>1. k + 1 \in 1..N /\ (k + 1) - 1 = k /\ k <= N /\ k \in 0..N /\ k + 1 \in 0..N
      BY <1>2, <2>1
    <3>2. place[k + 1] = place[k] + Len(F[k + 1])
      BY <1>1, <3>1 DEF Places
    <3>3. place[k] <= at + k * m /\ place[k] \in Nat /\ place[k + 1] \in Nat
      BY <1>2, <1>5, <3>1
    <3>4. Len(F[k + 1]) \in Nat /\ Len(F[k + 1]) <= m
      BY <3>1
    <3>5. (k + 1) * m = k * m + m /\ k * m \in Nat
      OBVIOUS
    <3>6. QED
      BY <1>3, <3>2, <3>3, <3>4, <3>5
  <2>2. QED
    BY <2>1
<1>6. N \in D
  <2> HIDE DEF D
  <2>1. QED
    BY <1>2, <1>4, <1>5, Induction
<1>7. QED
  BY <1>2, <1>3, <1>6

\* Behind the first piece, the others are placed.
LEMMA PlacedTail ==
  ASSUME NEW F, NEW N \in Nat, Len(F) = N + 1, NEW ptr, NEW at, NEW end, Placed(ptr, at, F, end),
         NEW T, Len(T) = N, \A k \in 1..N : T[k] = F[k + 1]
  PROVE  Placed(ptr, at + Len(F[1]), T, end) /\ Holds(ptr, at, F[1])
<1>1. PICK place : Places(place, ptr, at, F, end)
  BY DEF Placed, Places
<1>2. place \in [0..(N + 1) -> Nat] /\ place[0] = at /\ place[N + 1] = end
  BY <1>1 DEF Places
<1>3. \A k \in 1..(N + 1) : place[k] = place[k - 1] + Len(F[k]) /\ Holds(ptr, place[k - 1], F[k])
  BY <1>1 DEF Places
<1>4. 1 \in 1..(N + 1) /\ 1 - 1 = 0
  OBVIOUS
<1>5. place[1] = at + Len(F[1]) /\ Holds(ptr, at, F[1])
  BY <1>2, <1>3, <1>4
<1> DEFINE rest == [k \in 0..N |-> place[k + 1]]
<1>6. rest \in [0..N -> Nat] /\ rest[0] = place[1] /\ rest[N] = end
  BY <1>2
<1>7. ASSUME NEW k \in 1..N
      PROVE  rest[k] = rest[k - 1] + Len(T[k]) /\ Holds(ptr, rest[k - 1], T[k])
  <2>1. k + 1 \in 1..(N + 1) /\ (k + 1) - 1 = k /\ k - 1 \in 0..N /\ (k - 1) + 1 = k /\ k \in 0..N
    OBVIOUS
  <2>2. rest[k] = place[k + 1] /\ rest[k - 1] = place[k]
    BY <2>1
  <2> HIDE DEF rest
  <2>3. QED
    BY <1>3, <2>1, <2>2
<1> HIDE DEF rest
<1>8. QED
  BY <1>5, <1>6, <1>7 DEF Placed

-----------------------------------------------------------------------------
(***************************************************************************)
(* The header.                                                             *)
(***************************************************************************)
\* The four numbers of a header, where they are in the memory.
HeaderHeld(ptr, length, id, status, no) ==
  /\ Holds(ptr, 0, as_smpp_serialize_integer(length, Width))
  /\ Holds(ptr, Width, as_smpp_serialize_integer(id, Width))
  /\ Holds(ptr, 2 * Width, as_smpp_serialize_integer(status, Width))
  /\ Holds(ptr, 3 * Width, as_smpp_serialize_integer(no, Width))

\* A header is read as it was written.
LEMMA HeaderRead ==
  ASSUME NEW length \in Nat, NEW id \in Nat, NEW status \in Nat, NEW no \in Nat,
         FitsIn(length, Width), FitsIn(id, Width), FitsIn(status, Width), FitsIn(no, Width),
         NEW ptr, HeaderHeld(ptr, length, id, status, no)
  PROVE  as_smpp_deserialize_pdu_header(ptr) =
           [commandLength |-> length, commandId |-> id, status |-> status, sequenceNo |-> no]
<1> DEFINE a0 == 0 * Width
           a1 == 1 * Width
           a2 == 2 * Width
           a3 == 3 * Width
<1>1. Width \in Nat
  BY OctetAssumption
<1>2. a0 = 0 /\ a1 = Width /\ a0 \in Nat /\ a1 \in Nat /\ a2 \in Nat /\ a3 \in Nat
  BY <1>1
<1>3. /\ Holds(ptr, a0, as_smpp_serialize_integer(length, Width))
      /\ Holds(ptr, a1, as_smpp_serialize_integer(id, Width))
      /\ Holds(ptr, a2, as_smpp_serialize_integer(status, Width))
      /\ Holds(ptr, a3, as_smpp_serialize_integer(no, Width))
  BY <1>2 DEF HeaderHeld
<1>4. as_smpp_deserialize_pdu_header(ptr) =
        [commandLength |-> as_smpp_deserialize_integer(ptr, a0, Width).value,
         commandId |-> as_smpp_deserialize_integer(ptr, a1, Width).value,
         status |-> as_smpp_deserialize_integer(ptr, a2, Width).value,
         sequenceNo |-> as_smpp_deserialize_integer(ptr, a3, Width).value]
  BY DEF as_smpp_deserialize_pdu_header
<1> HIDE DEF a0, a1, a2, a3
<1>5. as_smpp_deserialize_integer(ptr, a0, Width).value = length
  <2>1. as_smpp_deserialize_integer(ptr, a0, Width) = [value |-> length, index |-> a0 + Width]
    BY <1>1, <1>2, <1>3, IntegerRead
  <2>2. QED
    BY <2>1
<1>6. as_smpp_deserialize_integer(ptr, a1, Width).value = id
  <2>1. as_smpp_deserialize_integer(ptr, a1, Width) = [value |-> id, index |-> a1 + Width]
    BY <1>1, <1>2, <1>3, IntegerRead
  <2>2. QED
    BY <2>1
<1>7. as_smpp_deserialize_integer(ptr, a2, Width).value = status
  <2>1. as_smpp_deserialize_integer(ptr, a2, Width) = [value |-> status, index |-> a2 + Width]
    BY <1>1, <1>2, <1>3, IntegerRead
  <2>2. QED
    BY <2>1
<1>8. as_smpp_deserialize_integer(ptr, a3, Width).value = no
  <2>1. as_smpp_deserialize_integer(ptr, a3, Width) = [value |-> no, index |-> a3 + Width]
    BY <1>1, <1>2, <1>3, IntegerRead
  <2>2. QED
    BY <2>1
<1>9. QED
  BY <1>4, <1>5, <1>6, <1>7, <1>8

\* An octet fits in an octet, and 0 in any number of them.
LEMMA OctetFits ==
  ASSUME NEW v \in Octet
  PROVE  v \in Nat /\ FitsIn(v, 1)
<1> DEFINE one == 1
           s == Shifted(v, one)
<1>1. Base \in Nat /\ Base > 1 /\ v \in Nat /\ v < Base
  BY OctetAssumption DEF Octet
<1>2. one \in Nat /\ one \in 1..one /\ one - 1 = 0
  OBVIOUS
<1> HIDE DEF one
<1>3. s[0] = v /\ \A k \in 1..one : s[k] = s[k - 1] \div Base
  BY <1>1, <1>2, ShiftedIs
<1> HIDE DEF s
<1>4. s[one] = v \div Base
  BY <1>2, <1>3
<1>5. v \div Base = 0
  <2> DEFINE q == v \div Base
  <2>1. q \in Nat /\ q * Base + (v % Base) = v /\ v % Base \in Nat
    BY <1>1, DivMod
  <2> HIDE DEF q
  <2>2. q >= 1 => q * Base >= Base
    BY <1>1, <2>1
  <2>3. q * Base \in Nat
    BY <1>1, <2>1
  <2>4. q = 0
    BY <1>1, <2>1, <2>2, <2>3
  <2>5. QED
    BY <2>4 DEF q
<1>6. FitsIn(v, one)
  BY <1>4, <1>5 DEF FitsIn, s
<1>7. QED
  BY <1>1, <1>6 DEF one

-----------------------------------------------------------------------------
(***************************************************************************)
(* Requests: what is sent.                                                 *)
(***************************************************************************)
\* A number can be written in any number of octets.
LEMMA IntegerWritable ==
  ASSUME NEW field, field.kind = "integer", field.len \in Nat, NEW v \in Nat
  PROVE  /\ Writable(field, v)
         /\ OctetsOf(field, v) = as_smpp_serialize_integer(v, field.len)
         /\ Len(OctetsOf(field, v)) = field.len
<1> DEFINE len == field.len
           o == as_smpp_serialize_integer(v, len)
<1>1. OctetsOf(field, v) = o
  BY DEF OctetsOf
<1>2. len \in Nat
  OBVIOUS
<1> HIDE DEF len
<1>3. o \in Seq(Octet) /\ Len(o) = len
  BY <1>2, IntegerOctets
<1> HIDE DEF o
<1>4. len <= len
  BY <1>2
<1>5. QED
  BY <1>1, <1>2, <1>3, <1>4 DEF Writable, len, o

\* What holds in one memory holds in another that has the same octets there.
LEMMA HoldsMoved ==
  ASSUME NEW p, NEW q, NEW at, NEW o, Holds(p, at, o),
         at + Len(o) <= Len(q), \A i \in 1..Len(o) : q[at + i] = p[at + i]
  PROVE  Holds(q, at, o)
BY DEF Holds

\* Four numbers, one behind the other, are a header.
LEMMA HeaderPlaced ==
  ASSUME NEW a \in Nat, NEW b \in Nat, NEW c \in Nat, NEW d \in Nat,
         NEW F, Len(F) = 4, F[1] = as_smpp_serialize_integer(a, Width),
         F[2] = as_smpp_serialize_integer(b, Width), F[3] = as_smpp_serialize_integer(c, Width),
         F[4] = as_smpp_serialize_integer(d, Width), NEW ptr, NEW end, Placed(ptr, 0, F, end)
  PROVE  end = 4 * Width /\ HeaderHeld(ptr, a, b, c, d)
<1>1. Width \in Nat
  BY OctetAssumption
<1>2. Len(F[1]) = Width /\ Len(F[2]) = Width /\ Len(F[3]) = Width /\ Len(F[4]) = Width
  <2>1. /\ Len(as_smpp_serialize_integer(a, Width)) = Width
        /\ Len(as_smpp_serialize_integer(b, Width)) = Width
        /\ Len(as_smpp_serialize_integer(c, Width)) = Width
        /\ Len(as_smpp_serialize_integer(d, Width)) = Width
    BY <1>1, IntegerOctets
  <2>2. QED
    BY <2>1
<1>3. PICK place : Places(place, ptr, 0, F, end)
  BY DEF Placed, Places
<1>4. place[0] = 0 /\ place[4] = end
  BY <1>3 DEF Places
<1>5. \A k \in 1..4 : place[k] = place[k - 1] + Len(F[k]) /\ Holds(ptr, place[k - 1], F[k])
  BY <1>3 DEF Places
<1>6. /\ place[1] = place[0] + Len(F[1]) /\ Holds(ptr, place[0], F[1])
      /\ place[2] = place[1] + Len(F[2]) /\ Holds(ptr, place[1], F[2])
      /\ place[3] = place[2] + Len(F[3]) /\ Holds(ptr, place[2], F[3])
      /\ place[4] = place[3] + Len(F[4]) /\ Holds(ptr, place[3], F[4])
  <2>1. 1 \in 1..4 /\ 2 \in 1..4 /\ 3 \in 1..4 /\ 4 \in 1..4
    OBVIOUS
  <2>2. 1 - 1 = 0 /\ 2 - 1 = 1 /\ 3 - 1 = 2 /\ 4 - 1 = 3
    OBVIOUS
  <2>3. QED
    BY <1>5, <2>1, <2>2
<1>7. place[1] = Width /\ place[2] = 2 * Width /\ place[3] = 3 * Width /\ place[4] = 4 * Width
  BY <1>1, <1>2, <1>4, <1>6
<1>8. QED
  BY <1>4, <1>6, <1>7 DEF HeaderHeld

\* The buffer of a request before the length is written.
Composed(b, commandId, sequenceNo, W, pdu) ==
  WrittenAlong(WrittenAlong([b EXCEPT !.dataLen = 0], HeaderLayout, Header(commandId, sequenceNo)),
               W, pdu)

\* Behind a header that lacks its length, the fields of the body.
LEMMA RequestComposed ==
  ASSUME NEW b \in B!BufferOf(Octet), NEW commandId \in Nat, NEW sequenceNo \in Nat,
         NEW W, Len(W) \in Nat, NEW pdu, \A k \in 1..Len(W) : Writable(W[k], pdu[W[k].name]),
         NEW full, full = Composed(b, commandId, sequenceNo, W, pdu)
  PROVE  /\ full \in B!BufferOf(Octet) /\ HeaderLen <= full.dataLen
         /\ HeaderHeld(full.ptr, 0, commandId, ROK, sequenceNo)
         /\ Placed(full.ptr, HeaderLen, Pieces(W, pdu), full.dataLen)
<1> DEFINE empty == [b EXCEPT !.dataLen = 0]
           hdr == Header(commandId, sequenceNo)
           h == WrittenAlong(empty, HeaderLayout, hdr)
<1>1. Width \in Nat
  BY OctetAssumption
<1>2. empty \in B!BufferOf(Octet) /\ empty.dataLen = 0
  BY DEF B!BufferOf
<1>3. full = WrittenAlong(h, W, pdu)
  BY DEF Composed
<1>4. /\ Len(HeaderLayout) = 4
      /\ \A k \in 1..4 : Writable(HeaderLayout[k], hdr[HeaderLayout[k].name])
      /\ Len(Pieces(HeaderLayout, hdr)) = 4
      /\ Pieces(HeaderLayout, hdr)[1] = as_smpp_serialize_integer(0, Width)
      /\ Pieces(HeaderLayout, hdr)[2] = as_smpp_serialize_integer(commandId, Width)
      /\ Pieces(HeaderLayout, hdr)[3] = as_smpp_serialize_integer(ROK, Width)
      /\ Pieces(HeaderLayout, hdr)[4] = as_smpp_serialize_integer(sequenceNo, Width)
  <2> DEFINE f1 == Field("integer", "commandLength", Width)
             f2 == Field("integer", "commandId", Width)
             f3 == Field("integer", "status", Width)
             f4 == Field("integer", "sequenceNo", Width)
             L == HeaderLayout
             P == Pieces(HeaderLayout, hdr)
  <2>1. Len(L) = 4 /\ L[1] = f1 /\ L[2] = f2 /\ L[3] = f3 /\ L[4] = f4
    BY DEF HeaderLayout
  <2>2. /\ f1.kind = "integer" /\ f1.len = Width /\ f1.name = "commandLength"
        /\ f2.kind = "integer" /\ f2.len = Width /\ f2.name = "commandId"
        /\ f3.kind = "integer" /\ f3.len = Width /\ f3.name = "status"
        /\ f4.kind = "integer" /\ f4.len = Width /\ f4.name = "sequenceNo"
    BY DEF Field
  <2>3. /\ hdr["commandLength"] = 0 /\ hdr["commandId"] = commandId
        /\ hdr["status"] = ROK /\ hdr["sequenceNo"] = sequenceNo
    BY DEF Header
  <2>4. 0 \in Nat /\ ROK \in Nat
    BY DEF ROK
  <2> HIDE DEF f1, f2, f3, f4, hdr, L, empty, h
  <2>5. /\ Writable(f1, 0) /\ OctetsOf(f1, 0) = as_smpp_serialize_integer(0, f1.len)
        /\ Writable(f2, commandId)
        /\ OctetsOf(f2, commandId) = as_smpp_serialize_integer(commandId, f2.len)
        /\ Writable(f3, ROK) /\ OctetsOf(f3, ROK) = as_smpp_serialize_integer(ROK, f3.len)
        /\ Writable(f4, sequenceNo)
        /\ OctetsOf(f4, sequenceNo) = as_smpp_serialize_integer(sequenceNo, f4.len)
    <3> DEFINE zero == 0
    <3>1. zero \in Nat
      OBVIOUS
    <3> HIDE DEF zero
    <3>2. Writable(f1, zero) /\ OctetsOf(f1, zero) = as_smpp_serialize_integer(zero, f1.len)
      BY <1>1, <2>2, <3>1, IntegerWritable
    <3>3. /\ Writable(f2, commandId)
          /\ OctetsOf(f2, commandId) = as_smpp_serialize_integer(commandId, f2.len)
      BY <1>1, <2>2, IntegerWritable
    <3>4. Writable(f3, ROK) /\ OctetsOf(f3, ROK) = as_smpp_serialize_integer(ROK, f3.len)
      BY <1>1, <2>2, <2>4, IntegerWritable
    <3>5. /\ Writable(f4, sequenceNo)
          /\ OctetsOf(f4, sequenceNo) = as_smpp_serialize_integer(sequenceNo, f4.len)
      BY <1>1, <2>2, IntegerWritable
    <3>6. QED
      BY <3>2, <3>3, <3>4, <3>5 DEF zero
  <2>6. \A k \in 1..4 : k = 1 \/ k = 2 \/ k = 3 \/ k = 4
    OBVIOUS
  <2>7. \A k \in 1..4 : Writable(L[k], hdr[L[k].name])
    BY <2>1, <2>2, <2>3, <2>5, <2>6
  <2>8. Len(P) = 4 /\ \A k \in 1..4 : P[k] = OctetsOf(L[k], hdr[L[k].name])
    BY <2>1 DEF Pieces, L
  <2> HIDE DEF P
  <2>9. /\ P[1] = OctetsOf(L[1], hdr[L[1].name]) /\ P[2] = OctetsOf(L[2], hdr[L[2].name])
        /\ P[3] = OctetsOf(L[3], hdr[L[3].name]) /\ P[4] = OctetsOf(L[4], hdr[L[4].name])
    BY <2>8
  <2>10. /\ P[1] = as_smpp_serialize_integer(0, Width)
         /\ P[2] = as_smpp_serialize_integer(commandId, Width)
         /\ P[3] = as_smpp_serialize_integer(ROK, Width)
         /\ P[4] = as_smpp_serialize_integer(sequenceNo, Width)
    BY <2>1, <2>2, <2>3, <2>5, <2>9
  <2>11. QED
    BY <2>1, <2>7, <2>8, <2>10 DEF L, P
<1> HIDE DEF empty, hdr
<1>5. /\ h \in B!BufferOf(Octet)
      /\ Placed(h.ptr, 0, Pieces(HeaderLayout, hdr), h.dataLen)
  <2>1. Len(HeaderLayout) \in Nat
        /\ \A k \in 1..Len(HeaderLayout) : Writable(HeaderLayout[k], hdr[HeaderLayout[k].name])
    BY <1>4
  <2>2. /\ h \in B!BufferOf(Octet)
        /\ Placed(h.ptr, empty.dataLen, Pieces(HeaderLayout, hdr), h.dataLen)
    BY <1>2, <2>1, AlongWritten
  <2>3. QED
    BY <1>2, <2>2
<1> HIDE DEF h
<1>6. h.dataLen = 4 * Width /\ HeaderHeld(h.ptr, 0, commandId, ROK, sequenceNo)
  <2> DEFINE zero == 0
             F == Pieces(HeaderLayout, hdr)
  <2>1. zero \in Nat /\ ROK \in Nat
    BY DEF ROK
  <2>2. Placed(h.ptr, 0, F, h.dataLen) /\ Len(F) = 4
        /\ F[1] = as_smpp_serialize_integer(zero, Width)
        /\ F[2] = as_smpp_serialize_integer(commandId, Width)
        /\ F[3] = as_smpp_serialize_integer(ROK, Width)
        /\ F[4] = as_smpp_serialize_integer(sequenceNo, Width)
    BY <1>4, <1>5
  <2> HIDE DEF zero, F
  <2>3. h.dataLen = 4 * Width /\ HeaderHeld(h.ptr, zero, commandId, ROK, sequenceNo)
    BY <2>1, <2>2, HeaderPlaced
  <2>4. QED
    BY <2>3 DEF zero
<1>7. /\ full \in B!BufferOf(Octet) /\ h.dataLen <= full.dataLen
      /\ \A i \in 1..h.dataLen : full.ptr[i] = h.ptr[i]
      /\ Placed(full.ptr, h.dataLen, Pieces(W, pdu), full.dataLen)
  BY <1>3, <1>5, AlongWritten
<1>8. HeaderHeld(full.ptr, 0, commandId, ROK, sequenceNo)
  <2> DEFINE p == h.ptr
             q == full.ptr
             a == as_smpp_serialize_integer(0, Width)
             o == as_smpp_serialize_integer(commandId, Width)
             r == as_smpp_serialize_integer(ROK, Width)
             s == as_smpp_serialize_integer(sequenceNo, Width)
  <2>1. Len(a) = Width /\ Len(o) = Width /\ Len(r) = Width /\ Len(s) = Width
    BY <1>1, IntegerOctets DEF ROK
  <2>2. Len(q) \in Nat /\ 4 * Width <= Len(q) /\ \A i \in 1..(4 * Width) : q[i] = p[i]
    BY <1>1, <1>6, <1>7 DEF B!BufferOf
  <2>3. /\ Holds(p, 0, a) /\ Holds(p, Width, o)
        /\ Holds(p, 2 * Width, r) /\ Holds(p, 3 * Width, s)
    BY <1>6 DEF HeaderHeld
  <2> HIDE DEF p, q, a, o, r, s
  <2> DEFINE full4 == 4 * Width
             zero == 0
             two == 2 * Width
             three == 3 * Width
  <2>4. full4 \in Nat /\ zero \in Nat /\ two \in Nat /\ three \in Nat
        /\ zero + Width <= full4 /\ Width + Width <= full4 /\ two + Width <= full4
        /\ three + Width <= full4 /\ full4 <= Len(q)
    BY <1>1, <2>2
  <2>5. \A i \in 1..full4 : q[i] = p[i]
    BY <2>2
  <2>6. Holds(p, zero, a) /\ Holds(p, Width, o) /\ Holds(p, two, r) /\ Holds(p, three, s)
    BY <2>3
  <2> HIDE DEF full4, zero, two, three
  <2>7. Holds(q, zero, a)
    BY <1>1, <2>1, <2>2, <2>4, <2>5, <2>6, StillHolds
  <2>8. Holds(q, Width, o)
    BY <1>1, <2>1, <2>2, <2>4, <2>5, <2>6, StillHolds
  <2>9. Holds(q, two, r)
    BY <1>1, <2>1, <2>2, <2>4, <2>5, <2>6, StillHolds
  <2>10. Holds(q, three, s)
    BY <1>1, <2>1, <2>2, <2>4, <2>5, <2>6, StillHolds
  <2>11. QED
    BY <2>7, <2>8, <2>9, <2>10 DEF HeaderHeld, zero, two, three, a, o, r, s, q
<1>9. QED
  BY <1>6, <1>7, <1>8 DEF HeaderLen

\* What is sent is the header, with the length in it, and the fields of the body.
LEMMA RequestSent ==
  ASSUME NEW b \in B!BufferOf(Octet), NEW commandId \in Nat, NEW sequenceNo \in Nat,
         NEW W, Len(W) \in Nat, NEW pdu, \A k \in 1..Len(W) : Writable(W[k], pdu[W[k].name]),
         NEW s, s = LengthPatched(Composed(b, commandId, sequenceNo, W, pdu)),
         NEW octets, octets = Sent(s)
  PROVE  /\ s \in B!BufferOf(Octet)
         /\ octets \in Seq(Octet) /\ HeaderLen <= Len(octets)
         /\ HeaderHeld(octets, Len(octets), commandId, ROK, sequenceNo)
         /\ Placed(octets, HeaderLen, Pieces(W, pdu), Len(octets))
<1> DEFINE full == Composed(b, commandId, sequenceNo, W, pdu)
           z == [full EXCEPT !.dataLen = 0]
           n == full.dataLen
           f1 == HeaderLayout[1]
           o == OctetsOf(f1, n)
           c == Written(z, f1, n)
<1>1. Width \in Nat /\ HeaderLen \in Nat /\ HeaderLen = 4 * Width
  BY OctetAssumption DEF HeaderLen
<1>2. /\ full \in B!BufferOf(Octet) /\ HeaderLen <= n
      /\ HeaderHeld(full.ptr, 0, commandId, ROK, sequenceNo)
      /\ Placed(full.ptr, HeaderLen, Pieces(W, pdu), n)
  <2> HIDE DEF full
  <2>1. /\ full \in B!BufferOf(Octet) /\ HeaderLen <= full.dataLen
        /\ HeaderHeld(full.ptr, 0, commandId, ROK, sequenceNo)
        /\ Placed(full.ptr, HeaderLen, Pieces(W, pdu), full.dataLen)
    BY RequestComposed DEF full
  <2>2. QED
    BY <2>1
<1>3. s = [c EXCEPT !.dataLen = n]
  BY DEF LengthPatched
<1> HIDE DEF full
<1>4. n \in Nat /\ n <= Len(full.ptr) /\ Len(full.ptr) \in Nat
  BY <1>2 DEF B!BufferOf
<1>5. z \in B!BufferOf(Octet) /\ z.dataLen = 0 /\ z.ptr = full.ptr
  BY <1>2 DEF B!BufferOf
<1>6. f1.kind = "integer" /\ f1.len = Width
  BY DEF HeaderLayout, Field
<1> HIDE DEF n, f1, z
<1>7. Writable(f1, n) /\ o = as_smpp_serialize_integer(n, Width) /\ Len(o) = Width
  <2>1. /\ Writable(f1, n) /\ OctetsOf(f1, n) = as_smpp_serialize_integer(n, f1.len)
        /\ Len(OctetsOf(f1, n)) = f1.len
    BY <1>1, <1>4, <1>6, IntegerWritable
  <2>2. QED
    BY <1>6, <2>1
<1> HIDE DEF o, c
<1>8. /\ c \in B!BufferOf(Octet)
      /\ c.dataLen = z.dataLen + Len(o)
      /\ Len(z.ptr) <= Len(c.ptr)
      /\ Holds(c.ptr, z.dataLen, o)
      /\ \A i \in 1..Len(z.ptr) : i <= z.dataLen \/ i > c.dataLen => c.ptr[i] = z.ptr[i]
  BY <1>5, <1>7, FieldWritten DEF o, c
<1> DEFINE p == full.ptr
           q == c.ptr
<1>9. /\ q \in Seq(Octet) /\ Len(q) \in Nat /\ Len(p) \in Nat /\ n <= Len(p) /\ Len(p) <= Len(q)
      /\ Holds(q, 0, o) /\ \A i \in 1..n : i > Width => q[i] = p[i]
  <2>1. q \in Seq(Octet) /\ Len(q) \in Nat
    BY <1>8 DEF B!BufferOf
  <2>2. c.dataLen = Width
    BY <1>1, <1>5, <1>7, <1>8
  <2>3. \A i \in 1..n : i \in 1..Len(p)
    BY <1>4
  <2>4. QED
    BY <1>4, <1>5, <1>8, <2>1, <2>2, <2>3
<1>10. s.ptr = q /\ s.dataLen = n /\ s \in B!BufferOf(Octet)
  <2>1. c \in [ptr : Seq(Octet), dataLen : Nat]
    BY <1>8 DEF B!BufferOf
  <2>2. s.ptr = q /\ s.dataLen = n /\ s \in [ptr : Seq(Octet), dataLen : Nat]
    BY <1>3, <1>4, <2>1
  <2>3. n <= Len(q)
    BY <1>4, <1>9
  <2>4. QED
    BY <2>2, <2>3 DEF B!BufferOf
<1> HIDE DEF p, q
<1>11. octets \in Seq(Octet) /\ Len(octets) = n /\ \A i \in 1..n : octets[i] = q[i]
  <2>1. \A i \in 1..n : i \in DOMAIN q /\ q[i] \in Octet
    BY <1>4, <1>9
  <2>2. octets = [i \in 1..n |-> q[i]]
    BY <1>10, <2>1 DEF Sent
  <2>3. QED
    BY <1>4, <2>1, <2>2
<1>12. Placed(octets, HeaderLen, Pieces(W, pdu), Len(octets))
  <2> DEFINE F == Pieces(W, pdu)
             at == HeaderLen
  <2>1. Len(F) \in Nat /\ \A k \in 1..Len(F) : Len(F[k]) \in Nat
    <3>1. Len(F) = Len(W) /\ \A k \in 1..Len(W) : F[k] = OctetsOf(W[k], pdu[W[k].name])
      BY DEF Pieces
    <3>2. \A k \in 1..Len(W) : Len(OctetsOf(W[k], pdu[W[k].name])) \in Nat
      BY DEF Writable
    <3>3. QED
      BY <3>1, <3>2
  <2>2. at \in Nat /\ at <= n /\ Width <= at /\ Placed(p, at, F, n)
    BY <1>1, <1>2 DEF p
  <2> HIDE DEF F, at
  <2>3. \A i \in 1..(n - at) : octets[at + i] = p[at + i]
    <3>1. \A i \in 1..(n - at) : at + i \in 1..n /\ at + i > Width
      BY <1>1, <1>4, <2>2
    <3>2. QED
      BY <1>9, <1>11, <3>1
  <2>4. at + (n - at) = n /\ Len(octets) = n /\ Len(octets) \in Nat /\ at + (n - at) <= Len(octets)
    BY <1>4, <1>11, <2>2
  <2>5. Placed(octets, at, F, at + (n - at))
    BY <2>1, <2>2, <2>3, <2>4, PlacedMoved
  <2>6. QED
    BY <2>4, <2>5 DEF at, F
<1>13. HeaderHeld(octets, Len(octets), commandId, ROK, sequenceNo)
  <2> DEFINE zero == 0
             two == 2 * Width
             three == 3 * Width
             x == as_smpp_serialize_integer(commandId, Width)
             y == as_smpp_serialize_integer(ROK, Width)
             w == as_smpp_serialize_integer(sequenceNo, Width)
  <2>1. Len(x) = Width /\ Len(y) = Width /\ Len(w) = Width
    BY <1>1, IntegerOctets DEF ROK
  <2>2. Holds(p, Width, x) /\ Holds(p, two, y) /\ Holds(p, three, w) /\ Holds(q, 0, o)
    BY <1>2, <1>9 DEF HeaderHeld, p
  <2>3. 4 * Width <= n
    BY <1>1, <1>2 DEF n
  <2> HIDE DEF x, y, w
  <2>4. Holds(octets, Width, x)
    <3>1. Width + Width <= Len(octets) /\ \A i \in 1..Width : Width + i \in 1..n /\ Width + i > Width
      BY <1>1, <1>4, <1>11, <2>3
    <3>2. \A i \in 1..Width : octets[Width + i] = p[Width + i]
      BY <1>9, <1>11, <3>1
    <3>3. QED
      BY <2>1, <2>2, <3>1, <3>2, HoldsMoved
  <2>5. Holds(octets, two, y)
    <3>1. two + Width <= Len(octets) /\ \A i \in 1..Width : two + i \in 1..n /\ two + i > Width
      BY <1>1, <1>4, <1>11, <2>3
    <3> HIDE DEF two
    <3>2. \A i \in 1..Width : octets[two + i] = p[two + i]
      BY <1>9, <1>11, <3>1
    <3>3. QED
      BY <2>1, <2>2, <3>1, <3>2, HoldsMoved
  <2>6. Holds(octets, three, w)
    <3>1. three + Width <= Len(octets)
          /\ \A i \in 1..Width : three + i \in 1..n /\ three + i > Width
      BY <1>1, <1>4, <1>11, <2>3
    <3> HIDE DEF three
    <3>2. \A i \in 1..Width : octets[three + i] = p[three + i]
      BY <1>9, <1>11, <3>1
    <3>3. QED
      BY <2>1, <2>2, <3>1, <3>2, HoldsMoved
  <2>7. Holds(octets, zero, o)
    <3>1. zero + Width <= Len(octets) /\ \A i \in 1..Width : zero + i \in 1..n
      BY <1>1, <1>4, <1>11, <2>3
    <3>2. Holds(q, zero, o)
      BY <2>2
    <3> HIDE DEF zero
    <3>3. \A i \in 1..Width : octets[zero + i] = q[zero + i]
      BY <1>11, <3>1
    <3>4. QED
      BY <1>7, <3>1, <3>2, <3>3, HoldsMoved
  <2>8. o = as_smpp_serialize_integer(Len(octets), Width)
    BY <1>7, <1>11
  <2>9. QED
    BY <2>4, <2>5, <2>6, <2>7, <2>8 DEF HeaderHeld, x, y, w
<1>14. QED
  BY <1>2, <1>10, <1>11, <1>12, <1>13 DEF n

\* What the field is.
Is(f, kind, name, len) == f.kind = kind /\ f.name = name /\ f.len = len

\* The fields of WrittenSubmitSm, by their kinds, names and lengths.
LEMMA WrittenSubmitSmIs ==
         /\ Len(WrittenSubmitSm) = 18
         /\ Is(WrittenSubmitSm[1], "string", "serviceType", MaxLen["serviceType"])
         /\ Is(WrittenSubmitSm[2], "integer", "sourceTon", 1)
         /\ Is(WrittenSubmitSm[3], "integer", "sourceNpi", 1)
         /\ Is(WrittenSubmitSm[4], "string", "source", MaxLen["address"])
         /\ Is(WrittenSubmitSm[5], "integer", "destinationTon", 1)
         /\ Is(WrittenSubmitSm[6], "integer", "destinationNpi", 1)
         /\ Is(WrittenSubmitSm[7], "string", "destination", MaxLen["address"])
         /\ Is(WrittenSubmitSm[8], "integer", "esmClass", 1)
         /\ Is(WrittenSubmitSm[9], "integer", "protocolId", 1)
         /\ Is(WrittenSubmitSm[10], "integer", "priority", 1)
         /\ Is(WrittenSubmitSm[11], "integer", "scheduleDeliveryTime", 1)
         /\ Is(WrittenSubmitSm[12], "integer", "validityPeriod", 1)
         /\ Is(WrittenSubmitSm[13], "integer", "registeredDelivery", 1)
         /\ Is(WrittenSubmitSm[14], "integer", "replaceIfPresent", 1)
         /\ Is(WrittenSubmitSm[15], "integer", "dataCoding", 1)
         /\ Is(WrittenSubmitSm[16], "integer", "defaultMessageId", 1)
         /\ Is(WrittenSubmitSm[17], "integer", "messageLength", 1)
         /\ Is(WrittenSubmitSm[18], "binary", "message", 0)
BY WrittenSubmitSmFields DEF Is, String, Integer, Flag, Field

\* The fields of ReadSubmitSm, by their kinds, names and lengths.
LEMMA ReadSubmitSmIs ==
         /\ Len(ReadSubmitSm) = 18
         /\ Is(ReadSubmitSm[1], "string", "serviceType", MaxLen["serviceType"])
         /\ Is(ReadSubmitSm[2], "integer", "sourceTon", 1)
         /\ Is(ReadSubmitSm[3], "integer", "sourceNpi", 1)
         /\ Is(ReadSubmitSm[4], "string", "source", MaxLen["address"])
         /\ Is(ReadSubmitSm[5], "integer", "destinationTon", 1)
         /\ Is(ReadSubmitSm[6], "integer", "destinationNpi", 1)
         /\ Is(ReadSubmitSm[7], "string", "destination", MaxLen["address"])
         /\ Is(ReadSubmitSm[8], "integer", "esmClass", 1)
         /\ Is(ReadSubmitSm[9], "integer", "protocolId", 1)
         /\ Is(ReadSubmitSm[10], "integer", "priority", 1)
         /\ Is(ReadSubmitSm[11], "datetime", "scheduleDeliveryTime", MaxLen["dateTime"])
         /\ Is(ReadSubmitSm[12], "datetime", "validityPeriod", MaxLen["dateTime"])
         /\ Is(ReadSubmitSm[13], "integer", "registeredDelivery", 1)
         /\ Is(ReadSubmitSm[14], "flag", "replaceIfPresent", 1)
         /\ Is(ReadSubmitSm[15], "integer", "dataCoding", 1)
         /\ Is(ReadSubmitSm[16], "integer", "defaultMessageId", 1)
         /\ Is(ReadSubmitSm[17], "integer", "messageLength", 1)
         /\ Is(ReadSubmitSm[18], "binary", "message", 0)
BY ReadSubmitSmFields DEF Is, String, Integer, Flag, Field

\* The fields of PeerSubmitSm, by their kinds, names and lengths.
LEMMA PeerSubmitSmIs ==
         /\ Len(PeerSubmitSm) = 18
         /\ Is(PeerSubmitSm[1], "string", "serviceType", MaxLen["serviceType"])
         /\ Is(PeerSubmitSm[2], "integer", "sourceTon", 1)
         /\ Is(PeerSubmitSm[3], "integer", "sourceNpi", 1)
         /\ Is(PeerSubmitSm[4], "string", "source", MaxLen["address"])
         /\ Is(PeerSubmitSm[5], "integer", "destinationTon", 1)
         /\ Is(PeerSubmitSm[6], "integer", "destinationNpi", 1)
         /\ Is(PeerSubmitSm[7], "string", "destination", MaxLen["address"])
         /\ Is(PeerSubmitSm[8], "integer", "esmClass", 1)
         /\ Is(PeerSubmitSm[9], "integer", "protocolId", 1)
         /\ Is(PeerSubmitSm[10], "integer", "priority", 1)
         /\ Is(PeerSubmitSm[11], "string", "scheduleDeliveryTime", MaxLen["dateTime"])
         /\ Is(PeerSubmitSm[12], "string", "validityPeriod", MaxLen["dateTime"])
         /\ Is(PeerSubmitSm[13], "integer", "registeredDelivery", 1)
         /\ Is(PeerSubmitSm[14], "flag", "replaceIfPresent", 1)
         /\ Is(PeerSubmitSm[15], "integer", "dataCoding", 1)
         /\ Is(PeerSubmitSm[16], "integer", "defaultMessageId", 1)
         /\ Is(PeerSubmitSm[17], "integer", "messageLength", 1)
         /\ Is(PeerSubmitSm[18], "binary", "message", 0)
<1> DEFINE R == ReadSubmitSm
           P == PeerSubmitSm
<1>1. /\ Len(R) = 18
      /\ Is(R[1], "string", "serviceType", MaxLen["serviceType"])
      /\ Is(R[2], "integer", "sourceTon", 1)
      /\ Is(R[3], "integer", "sourceNpi", 1)
      /\ Is(R[4], "string", "source", MaxLen["address"])
      /\ Is(R[5], "integer", "destinationTon", 1)
      /\ Is(R[6], "integer", "destinationNpi", 1)
      /\ Is(R[7], "string", "destination", MaxLen["address"])
      /\ Is(R[8], "integer", "esmClass", 1)
      /\ Is(R[9], "integer", "protocolId", 1)
      /\ Is(R[10], "integer", "priority", 1)
      /\ Is(R[11], "datetime", "scheduleDeliveryTime", MaxLen["dateTime"])
      /\ Is(R[12], "datetime", "validityPeriod", MaxLen["dateTime"])
      /\ Is(R[13], "integer", "registeredDelivery", 1)
      /\ Is(R[14], "flag", "replaceIfPresent", 1)
      /\ Is(R[15], "integer", "dataCoding", 1)
      /\ Is(R[16], "integer", "defaultMessageId", 1)
      /\ Is(R[17], "integer", "messageLength", 1)
      /\ Is(R[18], "binary", "message", 0)
  BY ReadSubmitSmIs
<1>2. /\ Len(P) = 18
      /\ \A k \in 1..18 : R[k].kind # "datetime" => P[k] = R[k]
      /\ \A k \in 1..18 : R[k].kind = "datetime" => P[k] = [R[k] EXCEPT !.kind = "string"]
  BY <1>1 DEF PeerSubmitSm
<1>3. R[11] \in SomeFields /\ R[12] \in SomeFields
  <2>1. MaxLen["dateTime"] \in Nat
    BY StringAssumption
  <2>2. QED
    BY <2>1, ReadSubmitSmFields DEF Field, SomeFields
<1> HIDE DEF R, P
<1>4. P[11] = [R[11] EXCEPT !.kind = "string"] /\ P[12] = [R[12] EXCEPT !.kind = "string"]
  BY <1>1, <1>2 DEF Is
<1>5. /\ Is(P[11], "string", "scheduleDeliveryTime", MaxLen["dateTime"])
      /\ Is(P[12], "string", "validityPeriod", MaxLen["dateTime"])
  BY <1>1, <1>3, <1>4 DEF Is, SomeFields
<1>6. /\ P[1] = R[1]
      /\ P[2] = R[2]
      /\ P[3] = R[3]
      /\ P[4] = R[4]
      /\ P[5] = R[5]
      /\ P[6] = R[6]
      /\ P[7] = R[7]
      /\ P[8] = R[8]
      /\ P[9] = R[9]
      /\ P[10] = R[10]
      /\ P[13] = R[13]
      /\ P[14] = R[14]
      /\ P[15] = R[15]
      /\ P[16] = R[16]
      /\ P[17] = R[17]
      /\ P[18] = R[18]
  BY <1>1, <1>2 DEF Is
<1>7. QED
  BY <1>1, <1>2, <1>5, <1>6 DEF P

-----------------------------------------------------------------------------
(***************************************************************************)
(* Requests: the fields of submit_sm and bind.                             *)
(***************************************************************************)
\* A string, a number and a message that can be written.
StringGiven(f, value) == f.kind = "string" /\ f.len \in Nat /\ f.len > 0 /\ Text(value)
NumberGiven(f, value) == f.kind = "integer" /\ f.len = 1 /\ value \in Nat
MessageGiven(f, value) == f.kind = "binary" /\ value \in Seq(Octet)

\* The values of the fields that the application gives, and of the others.
LEMMA SubmitValues ==
  ASSUME NEW args \in SubmitArgs, NEW v, v = AllFields(args)
  PROVE
      /\ v["serviceType"] = args["serviceType"]
      /\ v["sourceTon"] = args["sourceTon"]
      /\ v["sourceNpi"] = args["sourceNpi"]
      /\ v["source"] = args["source"]
      /\ v["destinationTon"] = args["destinationTon"]
      /\ v["destinationNpi"] = args["destinationNpi"]
      /\ v["destination"] = args["destination"]
      /\ v["esmClass"] = 0
      /\ v["protocolId"] = 0
      /\ v["priority"] = 0
      /\ v["scheduleDeliveryTime"] = 0
      /\ v["validityPeriod"] = 0
      /\ v["registeredDelivery"] = 1
      /\ v["replaceIfPresent"] = 0
      /\ v["dataCoding"] = args["dataCoding"]
      /\ v["defaultMessageId"] = 0
      /\ v["messageLength"] = Len(args.message)
      /\ v["message"] = args["message"]
      /\ args.message \in Seq(Octet)
BY ArgumentAssumption DEF AllFields, SubmitArgument, RECEIPT_SUCCESS_OR_FAILURE

\* What kind of value each field has.
LEMMA SubmitGiven ==
  ASSUME NEW args \in SubmitArgs, NEW v, v = AllFields(args), NEW W, W = WrittenSubmitSm
  PROVE  \A k \in 1..18 :
           \/ k \in {1, 4, 7} /\ StringGiven(W[k], v[W[k].name])
           \/ k \in {2, 3, 5, 6, 8, 9, 10, 11, 12, 13, 14, 15, 16, 17}
                /\ NumberGiven(W[k], v[W[k].name])
           \/ k = 18 /\ MessageGiven(W[k], v[W[k].name])
<1>1. /\ Len(W) = 18
      /\ Is(W[1], "string", "serviceType", MaxLen["serviceType"])
      /\ Is(W[2], "integer", "sourceTon", 1)
      /\ Is(W[3], "integer", "sourceNpi", 1)
      /\ Is(W[4], "string", "source", MaxLen["address"])
      /\ Is(W[5], "integer", "destinationTon", 1)
      /\ Is(W[6], "integer", "destinationNpi", 1)
      /\ Is(W[7], "string", "destination", MaxLen["address"])
      /\ Is(W[8], "integer", "esmClass", 1)
      /\ Is(W[9], "integer", "protocolId", 1)
      /\ Is(W[10], "integer", "priority", 1)
      /\ Is(W[11], "integer", "scheduleDeliveryTime", 1)
      /\ Is(W[12], "integer", "validityPeriod", 1)
      /\ Is(W[13], "integer", "registeredDelivery", 1)
      /\ Is(W[14], "integer", "replaceIfPresent", 1)
      /\ Is(W[15], "integer", "dataCoding", 1)
      /\ Is(W[16], "integer", "defaultMessageId", 1)
      /\ Is(W[17], "integer", "messageLength", 1)
      /\ Is(W[18], "binary", "message", 0)
  BY WrittenSubmitSmIs
<1>2.
      /\ v["serviceType"] = args["serviceType"]
      /\ v["sourceTon"] = args["sourceTon"]
      /\ v["sourceNpi"] = args["sourceNpi"]
      /\ v["source"] = args["source"]
      /\ v["destinationTon"] = args["destinationTon"]
      /\ v["destinationNpi"] = args["destinationNpi"]
      /\ v["destination"] = args["destination"]
      /\ v["esmClass"] = 0
      /\ v["protocolId"] = 0
      /\ v["priority"] = 0
      /\ v["scheduleDeliveryTime"] = 0
      /\ v["validityPeriod"] = 0
      /\ v["registeredDelivery"] = 1
      /\ v["replaceIfPresent"] = 0
      /\ v["dataCoding"] = args["dataCoding"]
      /\ v["defaultMessageId"] = 0
      /\ v["messageLength"] = Len(args.message)
      /\ v["message"] = args["message"]
      /\ args.message \in Seq(Octet)
  BY SubmitValues
<1>3. /\ Text(args["serviceType"]) /\ Text(args["source"]) /\ Text(args["destination"])
      /\ args["sourceTon"] \in Nat /\ args["sourceNpi"] \in Nat
      /\ args["destinationTon"] \in Nat /\ args["destinationNpi"] \in Nat
      /\ args["dataCoding"] \in Nat /\ Len(args.message) \in Nat
      /\ args["message"] \in Seq(Octet)
  <2>1. SubmitArgument(args)
    BY ArgumentAssumption
  <2>2. \A n \in Octet : n \in Nat
    BY OctetAssumption DEF Octet
  <2>3. QED
    BY <2>1, <2>2 DEF SubmitArgument, Number
<1>4. /\ MaxLen["serviceType"] \in Nat /\ MaxLen["serviceType"] > 0
      /\ MaxLen["address"] \in Nat /\ MaxLen["address"] > 0
  BY StringAssumption
<1>5. /\ StringGiven(W[1], v[W[1].name]) /\ StringGiven(W[4], v[W[4].name])
      /\ StringGiven(W[7], v[W[7].name])
  BY <1>1, <1>2, <1>3, <1>4 DEF Is, StringGiven
<1>6. /\ NumberGiven(W[2], v[W[2].name])
      /\ NumberGiven(W[3], v[W[3].name])
      /\ NumberGiven(W[5], v[W[5].name])
      /\ NumberGiven(W[6], v[W[6].name])
      /\ NumberGiven(W[8], v[W[8].name])
      /\ NumberGiven(W[9], v[W[9].name])
      /\ NumberGiven(W[10], v[W[10].name])
      /\ NumberGiven(W[11], v[W[11].name])
      /\ NumberGiven(W[12], v[W[12].name])
      /\ NumberGiven(W[13], v[W[13].name])
      /\ NumberGiven(W[14], v[W[14].name])
      /\ NumberGiven(W[15], v[W[15].name])
      /\ NumberGiven(W[16], v[W[16].name])
      /\ NumberGiven(W[17], v[W[17].name])
  BY <1>1, <1>2, <1>3 DEF Is, NumberGiven
<1>7. MessageGiven(W[18], v[W[18].name])
  BY <1>1, <1>2, <1>3 DEF Is, MessageGiven
<1>8. \A k \in 1..18 : k \in {1, 4, 7} \/ k \in {2, 3, 5, 6, 8, 9, 10, 11, 12, 13, 14, 15, 16, 17} \/ k = 18
  OBVIOUS
<1>9. \A k \in {1, 4, 7} : StringGiven(W[k], v[W[k].name])
  BY <1>5
<1>10. \A k \in {2, 3, 5, 6, 8, 9, 10, 11, 12, 13, 14, 15, 16, 17} : NumberGiven(W[k], v[W[k].name])
  BY <1>6
<1>11. QED
  BY <1>7, <1>8, <1>9, <1>10

\* What is given can be written, in the room that is made for it.
LEMMA GivenWritable ==
  ASSUME NEW f, NEW value,
         StringGiven(f, value) \/ NumberGiven(f, value) \/ MessageGiven(f, value)
  PROVE  Writable(f, value)
<1>1. CASE StringGiven(f, value)
  <2> DEFINE len == f.len
             o == as_smpp_serialize_string(value, len)
  <2>1. len \in Nat /\ len > 0 /\ Text(value) /\ f.kind = "string"
    BY <1>1 DEF StringGiven
  <2> HIDE DEF len
  <2>2. o \in Seq(Octet) /\ Len(o) <= len
    BY <2>1, StringOctets
  <2>3. OctetsOf(f, value) = o
    BY <2>1 DEF OctetsOf, len
  <2> HIDE DEF o
  <2>4. QED
    BY <2>1, <2>2, <2>3 DEF Writable, len
<1>2. CASE NumberGiven(f, value)
  <2>1. f.kind = "integer" /\ f.len \in Nat /\ value \in Nat
    BY <1>2 DEF NumberGiven
  <2>2. QED
    BY <2>1, IntegerWritable
<1>3. CASE MessageGiven(f, value)
  <2>1. OctetsOf(f, value) = value /\ value \in Seq(Octet) /\ f.kind = "binary"
    BY <1>3 DEF MessageGiven, OctetsOf
  <2>2. Len(value) \in Nat /\ Len(value) <= Len(value)
    BY <2>1
  <2>3. QED
    BY <2>1, <2>2 DEF Writable
<1>4. QED
  BY <1>1, <1>2, <1>3

\* The fields of a submit_sm can be written.
LEMMA SubmitWritable ==
  ASSUME NEW args \in SubmitArgs
  PROVE  /\ Len(WrittenSubmitSm) = 18
         /\ \A k \in 1..18 : Writable(WrittenSubmitSm[k], AllFields(args)[WrittenSubmitSm[k].name])
<1>1. Len(WrittenSubmitSm) = 18
  BY WrittenSubmitSmIs
<1> DEFINE W == WrittenSubmitSm
           v == AllFields(args)
<1>2. ASSUME NEW k \in 1..18
      PROVE  \/ StringGiven(W[k], v[W[k].name]) \/ NumberGiven(W[k], v[W[k].name])
             \/ MessageGiven(W[k], v[W[k].name])
  <2> HIDE DEF W, v
  <2>1. W = WrittenSubmitSm /\ v = AllFields(args)
    BY DEF W, v
  <2>2. QED
    BY <2>1, SubmitGiven
<1> HIDE DEF W, v
<1>3. \A k \in 1..18 : Writable(W[k], v[W[k].name])
  BY <1>2, GivenWritable
<1>4. QED
  BY <1>1, <1>3 DEF W, v

\* No two fields of a submit_sm have the same name.
LEMMA NamesDiffer ==
  \A j, k \in 1..18 : WrittenSubmitSm[j].name = WrittenSubmitSm[k].name => j = k
<1> DEFINE W == WrittenSubmitSm
<1>1. /\ Len(W) = 18
      /\ Is(W[1], "string", "serviceType", MaxLen["serviceType"])
      /\ Is(W[2], "integer", "sourceTon", 1)
      /\ Is(W[3], "integer", "sourceNpi", 1)
      /\ Is(W[4], "string", "source", MaxLen["address"])
      /\ Is(W[5], "integer", "destinationTon", 1)
      /\ Is(W[6], "integer", "destinationNpi", 1)
      /\ Is(W[7], "string", "destination", MaxLen["address"])
      /\ Is(W[8], "integer", "esmClass", 1)
      /\ Is(W[9], "integer", "protocolId", 1)
      /\ Is(W[10], "integer", "priority", 1)
      /\ Is(W[11], "integer", "scheduleDeliveryTime", 1)
      /\ Is(W[12], "integer", "validityPeriod", 1)
      /\ Is(W[13], "integer", "registeredDelivery", 1)
      /\ Is(W[14], "integer", "replaceIfPresent", 1)
      /\ Is(W[15], "integer", "dataCoding", 1)
      /\ Is(W[16], "integer", "defaultMessageId", 1)
      /\ Is(W[17], "integer", "messageLength", 1)
      /\ Is(W[18], "binary", "message", 0)
  BY WrittenSubmitSmIs
<1> HIDE DEF W
<1> DEFINE number == [n \in {"serviceType", "sourceTon", "sourceNpi", "source",
                             "destinationTon", "destinationNpi", "destination",
                             "esmClass", "protocolId", "priority",
                             "scheduleDeliveryTime", "validityPeriod",
                             "registeredDelivery", "replaceIfPresent", "dataCoding",
                             "defaultMessageId", "messageLength", "message"} |->
         CASE n = "serviceType" -> 1
         [] n = "sourceTon" -> 2
         [] n = "sourceNpi" -> 3
         [] n = "source" -> 4
         [] n = "destinationTon" -> 5
         [] n = "destinationNpi" -> 6
         [] n = "destination" -> 7
         [] n = "esmClass" -> 8
         [] n = "protocolId" -> 9
         [] n = "priority" -> 10
         [] n = "scheduleDeliveryTime" -> 11
         [] n = "validityPeriod" -> 12
         [] n = "registeredDelivery" -> 13
         [] n = "replaceIfPresent" -> 14
         [] n = "dataCoding" -> 15
         [] n = "defaultMessageId" -> 16
         [] n = "messageLength" -> 17
         [] n = "message" -> 18]
<1>2. /\ number["serviceType"] = 1
      /\ number["sourceTon"] = 2
      /\ number["sourceNpi"] = 3
      /\ number["source"] = 4
      /\ number["destinationTon"] = 5
      /\ number["destinationNpi"] = 6
      /\ number["destination"] = 7
      /\ number["esmClass"] = 8
      /\ number["protocolId"] = 9
      /\ number["priority"] = 10
      /\ number["scheduleDeliveryTime"] = 11
      /\ number["validityPeriod"] = 12
      /\ number["registeredDelivery"] = 13
      /\ number["replaceIfPresent"] = 14
      /\ number["dataCoding"] = 15
      /\ number["defaultMessageId"] = 16
      /\ number["messageLength"] = 17
      /\ number["message"] = 18
  OBVIOUS
<1> HIDE DEF number
<1>3. \A k \in 1..18 : number[W[k].name] = k
  BY <1>1, <1>2 DEF Is
<1>4. QED
  BY <1>3 DEF W

\* A submit_sm whose strings and message fit is read as it was written.
LEMMA SubmitMatches ==
  ASSUME NEW args \in SubmitArgs, NEW call, call.commandId = SUBMIT_SM,
         call.args = args, Fits(call)
  PROVE  Matches(WrittenSubmitSm, PeerSubmitSm, AllFields(args))
<1> DEFINE W == WrittenSubmitSm
           R == PeerSubmitSm
           v == AllFields(args)
<1>1. /\ Len(W) = 18
      /\ Is(W[1], "string", "serviceType", MaxLen["serviceType"])
      /\ Is(W[2], "integer", "sourceTon", 1)
      /\ Is(W[3], "integer", "sourceNpi", 1)
      /\ Is(W[4], "string", "source", MaxLen["address"])
      /\ Is(W[5], "integer", "destinationTon", 1)
      /\ Is(W[6], "integer", "destinationNpi", 1)
      /\ Is(W[7], "string", "destination", MaxLen["address"])
      /\ Is(W[8], "integer", "esmClass", 1)
      /\ Is(W[9], "integer", "protocolId", 1)
      /\ Is(W[10], "integer", "priority", 1)
      /\ Is(W[11], "integer", "scheduleDeliveryTime", 1)
      /\ Is(W[12], "integer", "validityPeriod", 1)
      /\ Is(W[13], "integer", "registeredDelivery", 1)
      /\ Is(W[14], "integer", "replaceIfPresent", 1)
      /\ Is(W[15], "integer", "dataCoding", 1)
      /\ Is(W[16], "integer", "defaultMessageId", 1)
      /\ Is(W[17], "integer", "messageLength", 1)
      /\ Is(W[18], "binary", "message", 0)
  BY WrittenSubmitSmIs
<1>2. /\ Len(R) = 18
      /\ Is(R[1], "string", "serviceType", MaxLen["serviceType"])
      /\ Is(R[2], "integer", "sourceTon", 1)
      /\ Is(R[3], "integer", "sourceNpi", 1)
      /\ Is(R[4], "string", "source", MaxLen["address"])
      /\ Is(R[5], "integer", "destinationTon", 1)
      /\ Is(R[6], "integer", "destinationNpi", 1)
      /\ Is(R[7], "string", "destination", MaxLen["address"])
      /\ Is(R[8], "integer", "esmClass", 1)
      /\ Is(R[9], "integer", "protocolId", 1)
      /\ Is(R[10], "integer", "priority", 1)
      /\ Is(R[11], "string", "scheduleDeliveryTime", MaxLen["dateTime"])
      /\ Is(R[12], "string", "validityPeriod", MaxLen["dateTime"])
      /\ Is(R[13], "integer", "registeredDelivery", 1)
      /\ Is(R[14], "flag", "replaceIfPresent", 1)
      /\ Is(R[15], "integer", "dataCoding", 1)
      /\ Is(R[16], "integer", "defaultMessageId", 1)
      /\ Is(R[17], "integer", "messageLength", 1)
      /\ Is(R[18], "binary", "message", 0)
  BY PeerSubmitSmIs
<1>3. /\ v["serviceType"] = args["serviceType"] /\ v["source"] = args["source"]
      /\ v["destination"] = args["destination"] /\ v["scheduleDeliveryTime"] = 0
      /\ v["validityPeriod"] = 0 /\ v["messageLength"] = Len(args.message)
      /\ v["message"] = args["message"] /\ args.message \in Seq(Octet)
  <2> HIDE DEF v
  <2>1. v = AllFields(args)
    BY DEF v
  <2>2. QED
    BY <2>1, SubmitValues
<1>4. \A k \in 1..18 :
        \/ k \in {1, 4, 7} /\ StringGiven(W[k], v[W[k].name])
        \/ k \in {2, 3, 5, 6, 8, 9, 10, 11, 12, 13, 14, 15, 16, 17}
             /\ NumberGiven(W[k], v[W[k].name])
        \/ k = 18 /\ MessageGiven(W[k], v[W[k].name])
  <2> HIDE DEF W, v
  <2>1. W = WrittenSubmitSm /\ v = AllFields(args)
    BY DEF W, v
  <2>2. QED
    BY <2>1, SubmitGiven
<1>5. /\ args["serviceType"] = NULL \/ Len(args["serviceType"]) < MaxLen["serviceType"]
      /\ args["source"] = NULL \/ Len(args["source"]) < MaxLen["address"]
      /\ args["destination"] = NULL \/ Len(args["destination"]) < MaxLen["address"]
      /\ Len(args.message) < Base
  <2>1. /\ \A i \in DOMAIN W : W[i].kind = "string" =>
             args[W[i].name] = NULL \/ Len(args[W[i].name]) < W[i].len
        /\ Len(args.message) < Base
    BY DEF Fits
  <2>2. 1 \in DOMAIN W /\ 4 \in DOMAIN W /\ 7 \in DOMAIN W
    <3>1. DOMAIN W = 1..18
      BY <1>1 DEF WrittenSubmitSm, Address
    <3>2. QED
      BY <3>1
  <2> HIDE DEF W
  <2>3. QED
    BY <1>1, <2>1, <2>2 DEF Is
<1> HIDE DEF W, R, v
<1>6. \A k \in 1..18 : R[k].name = W[k].name
  BY <1>1, <1>2 DEF Is
<1>7. \A j, k \in 1..18 : R[j].name = R[k].name => j = k
  BY <1>6, NamesDiffer DEF W
<1>8. \A k \in {1, 4, 7} : Pair(W[k], R[k], v[W[k].name])
  <2>1. \A k \in {1, 4, 7} : StringGiven(W[k], v[W[k].name])
    BY <1>4
  <2>2. \A k \in {1, 4, 7} : R[k].kind = "string"
    BY <1>2 DEF Is
  <2>3. \A k \in {1, 4, 7} : v[W[k].name] = NULL \/ Len(v[W[k].name]) < W[k].len
    BY <1>1, <1>3, <1>5 DEF Is
  <2>4. QED
    BY <2>1, <2>2, <2>3 DEF StringGiven, Pair
<1>9. \A k \in {2, 3, 5, 6, 8, 9, 10, 11, 12, 13, 14, 15, 16, 17} : NumberGiven(W[k], v[W[k].name])
  BY <1>4
<1>10. \A k \in {2, 3, 5, 6, 8, 9, 10, 13, 15, 16, 17} : Pair(W[k], R[k], v[W[k].name])
  <2>1. \A k \in {2, 3, 5, 6, 8, 9, 10, 13, 15, 16, 17} : R[k].kind = "integer" /\ R[k].len = 1
    BY <1>2 DEF Is
  <2>2. \A k \in {2, 3, 5, 6, 8, 9, 10, 13, 15, 16, 17} :
          W[k].kind = "integer" /\ W[k].len = 1 /\ v[W[k].name] \in Nat
    BY <1>9 DEF NumberGiven
  <2>3. ASSUME NEW k \in {2, 3, 5, 6, 8, 9, 10, 13, 15, 16, 17}
        PROVE Pair(W[k], R[k], v[W[k].name])
    <3>1. /\ W[k].kind = "integer" /\ R[k].kind = "integer" /\ W[k].len = R[k].len
          /\ W[k].len \in Nat /\ v[W[k].name] \in Nat
      BY <2>1, <2>2
    <3>2. QED
      BY <3>1 DEF Pair
  <2>4. QED
    BY <2>3
<1>11. Pair(W[14], R[14], v[W[14].name])
  <2>1. R[14].kind = "flag"
    BY <1>2 DEF Is
  <2>2. QED
    BY <1>9, <2>1 DEF NumberGiven, Pair
<1>12. \A k \in {11, 12} : Pair(W[k], R[k], v[W[k].name])
  <2>1. \A k \in {11, 12} : R[k].kind = "string" /\ v[W[k].name] = 0
    BY <1>1, <1>2, <1>3 DEF Is
  <2>2. QED
    BY <1>9, <2>1 DEF NumberGiven, Pair
<1>13. Pair(W[18], R[18], v[W[18].name])
  <2>1. R[18].kind = "binary" /\ MessageGiven(W[18], v[W[18].name])
    BY <1>2, <1>4 DEF Is
  <2>2. QED
    BY <2>1 DEF MessageGiven, Pair
<1>14. \A k \in 1..18 : Pair(W[k], R[k], v[W[k].name])
  <2>1. \A k \in 1..18 : \/ k \in {1, 4, 7} \/ k \in {2, 3, 5, 6, 8, 9, 10, 13, 15, 16, 17}
                         \/ k \in {11, 12} \/ k = 14 \/ k = 18
    OBVIOUS
  <2>2. QED
    BY <1>8, <1>10, <1>11, <1>12, <1>13, <2>1
<1>15. /\ FitsIn(v["messageLength"], W[17].len)
       /\ v["messageLength"] = Len(v[R[18].name])
  <2>1. Len(args.message) \in Octet
    BY <1>3, <1>5, OctetAssumption DEF Octet
  <2>2. FitsIn(Len(args.message), 1)
    BY <2>1, OctetFits
  <2>3. W[17].len = 1 /\ R[18].name = "message"
    BY <1>1, <1>2 DEF Is
  <2>4. QED
    BY <1>3, <2>2, <2>3
<1>16. \A k \in 1..18 : R[k].kind = "binary" => k = 18
  BY <1>2 DEF Is
<1>17. R[17].name = "messageLength" /\ R[17].kind = "integer" /\ 17 \in 1..(18 - 1)
  BY <1>2 DEF Is
<1>18. \A k \in 1..Len(W) : R[k].kind = "binary" =>
         \E j \in 1..(k - 1) :
           /\ R[j].name = "messageLength" /\ R[j].kind = "integer"
           /\ FitsIn(v["messageLength"], W[j].len)
           /\ v["messageLength"] = Len(v[R[k].name])
  BY <1>1, <1>15, <1>16, <1>17
<1>19. Matches(W, R, v)
  <2>1. Len(W) = 18 /\ Len(R) = 18
    BY <1>1, <1>2
  <2>2. \A k \in 1..Len(W) : R[k].name = W[k].name /\ Pair(W[k], R[k], v[W[k].name])
    BY <1>6, <1>14, <2>1
  <2>3. \A j, k \in 1..Len(W) : R[j].name = R[k].name => j = k
    BY <1>7, <2>1
  <2>4. Len(W) \in Nat /\ Len(R) = Len(W)
    BY <2>1
  <2>5. QED
    BY <1>18, <2>2, <2>3, <2>4 DEF Matches
<1>20. QED
  BY <1>19 DEF W, R, v

\* All fields of a bind: the arguments and the version.
BindFields(args) ==
  [name \in DOMAIN args \union {"version"} |-> IF name = "version" THEN VERSION_3_4 ELSE args[name]]

\* The fields of a bind, by their kinds, names and lengths.
LEMMA WrittenBindIs ==
  ASSUME NEW W, W = WrittenBind \/ W = PeerBind
  PROVE  /\ Len(W) = 7
         /\ Is(W[1], "string", "systemId", MaxLen["systemId"])
         /\ Is(W[2], "string", "password", MaxLen["password"])
         /\ Is(W[3], "string", "systemType", MaxLen["systemType"])
         /\ Is(W[4], "integer", "version", 1)
         /\ Is(W[5], "integer", "addressTon", 1)
         /\ Is(W[6], "integer", "addressNpi", 1)
         /\ Is(W[7], "string", "addressRange", MaxLen["addressRange"])
BY DEF WrittenBind, PeerBind, Is, String, Integer, Field

\* What kind of value each field of a bind has.
LEMMA BindGiven ==
  ASSUME NEW args \in BindArgs, NEW v, v = BindFields(args), NEW W, W = WrittenBind
  PROVE  /\ \A k \in {1, 2, 3, 7} : StringGiven(W[k], v[W[k].name])
         /\ \A k \in {4, 5, 6} : NumberGiven(W[k], v[W[k].name])
         /\ \A name \in DOMAIN args : v[name] = args[name]
<1>1. /\ Len(W) = 7
      /\ Is(W[1], "string", "systemId", MaxLen["systemId"])
      /\ Is(W[2], "string", "password", MaxLen["password"])
      /\ Is(W[3], "string", "systemType", MaxLen["systemType"])
      /\ Is(W[4], "integer", "version", 1)
      /\ Is(W[5], "integer", "addressTon", 1)
      /\ Is(W[6], "integer", "addressNpi", 1)
      /\ Is(W[7], "string", "addressRange", MaxLen["addressRange"])
  BY WrittenBindIs
<1>2. BindArgument(args)
  BY ArgumentAssumption
<1>3. DOMAIN args = {"systemId", "password", "systemType", "addressTon", "addressNpi",
                     "addressRange"}
  BY <1>2 DEF BindArgument
<1>4. (\A name \in DOMAIN args : v[name] = args[name]) /\ v["version"] = VERSION_3_4
  BY <1>3 DEF BindFields
<1>5. /\ Text(v["systemId"]) /\ Text(v["password"]) /\ Text(v["systemType"])
      /\ Text(v["addressRange"]) /\ v["addressTon"] \in Nat /\ v["addressNpi"] \in Nat
      /\ v["version"] \in Nat
  <2>1. \A n \in Octet : n \in Nat
    BY OctetAssumption DEF Octet
  <2>2. /\ Text(args["systemId"]) /\ Text(args["password"]) /\ Text(args["systemType"])
        /\ Text(args["addressRange"]) /\ args["addressTon"] \in Nat /\ args["addressNpi"] \in Nat
    BY <1>2, <2>1 DEF BindArgument, Number
  <2>3. /\ v["systemId"] = args["systemId"] /\ v["password"] = args["password"]
        /\ v["systemType"] = args["systemType"] /\ v["addressRange"] = args["addressRange"]
        /\ v["addressTon"] = args["addressTon"] /\ v["addressNpi"] = args["addressNpi"]
    BY <1>3, <1>4
  <2>4. QED
    BY <1>4, <2>2, <2>3 DEF VERSION_3_4
<1>6. /\ MaxLen["systemId"] \in Nat /\ MaxLen["systemId"] > 0
      /\ MaxLen["password"] \in Nat /\ MaxLen["password"] > 0
      /\ MaxLen["systemType"] \in Nat /\ MaxLen["systemType"] > 0
      /\ MaxLen["addressRange"] \in Nat /\ MaxLen["addressRange"] > 0
  BY StringAssumption
<1>7. /\ StringGiven(W[1], v[W[1].name]) /\ StringGiven(W[2], v[W[2].name])
      /\ StringGiven(W[3], v[W[3].name]) /\ StringGiven(W[7], v[W[7].name])
  BY <1>1, <1>5, <1>6 DEF Is, StringGiven
<1>8. /\ NumberGiven(W[4], v[W[4].name]) /\ NumberGiven(W[5], v[W[5].name])
      /\ NumberGiven(W[6], v[W[6].name])
  BY <1>1, <1>5 DEF Is, NumberGiven
<1>9. QED
  BY <1>4, <1>7, <1>8

\* The fields of a bind can be written.
LEMMA BindWritable ==
  ASSUME NEW args \in BindArgs
  PROVE  /\ Len(WrittenBind) = 7
         /\ \A k \in 1..7 : Writable(WrittenBind[k], BindFields(args)[WrittenBind[k].name])
<1> DEFINE W == WrittenBind
           v == BindFields(args)
<1>1. Len(W) = 7
  BY WrittenBindIs
<1>2. W = WrittenBind /\ v = BindFields(args)
  OBVIOUS
<1> HIDE DEF W, v
<1>3. /\ \A k \in {1, 2, 3, 7} : StringGiven(W[k], v[W[k].name])
      /\ \A k \in {4, 5, 6} : NumberGiven(W[k], v[W[k].name])
  BY <1>2, BindGiven
<1>4. \A k \in 1..7 : k \in {1, 2, 3, 7} \/ k \in {4, 5, 6}
  OBVIOUS
<1>5. \A k \in 1..7 : Writable(W[k], v[W[k].name])
  BY <1>3, <1>4, GivenWritable
<1>6. QED
  BY <1>1, <1>5 DEF W, v

\* A bind whose strings fit is read as it was written.
LEMMA BindMatches ==
  ASSUME NEW args \in BindArgs, NEW call, call.commandId # SUBMIT_SM,
         call.args = args, Fits(call)
  PROVE  Matches(WrittenBind, PeerBind, BindFields(args))
<1> DEFINE W == WrittenBind
           R == PeerBind
           v == BindFields(args)
<1>1. /\ Len(W) = 7
      /\ Is(W[1], "string", "systemId", MaxLen["systemId"])
      /\ Is(W[2], "string", "password", MaxLen["password"])
      /\ Is(W[3], "string", "systemType", MaxLen["systemType"])
      /\ Is(W[4], "integer", "version", 1)
      /\ Is(W[5], "integer", "addressTon", 1)
      /\ Is(W[6], "integer", "addressNpi", 1)
      /\ Is(W[7], "string", "addressRange", MaxLen["addressRange"])
  BY WrittenBindIs
<1>2. /\ Len(R) = 7
      /\ Is(R[1], "string", "systemId", MaxLen["systemId"])
      /\ Is(R[2], "string", "password", MaxLen["password"])
      /\ Is(R[3], "string", "systemType", MaxLen["systemType"])
      /\ Is(R[4], "integer", "version", 1)
      /\ Is(R[5], "integer", "addressTon", 1)
      /\ Is(R[6], "integer", "addressNpi", 1)
      /\ Is(R[7], "string", "addressRange", MaxLen["addressRange"])
  BY WrittenBindIs
<1>3. DOMAIN W = 1..7
  BY DEF WrittenBind
<1>4. \A i \in DOMAIN W : W[i].kind = "string" =>
        args[W[i].name] = NULL \/ Len(args[W[i].name]) < W[i].len
  BY DEF Fits
<1>5. W = WrittenBind /\ v = BindFields(args)
  OBVIOUS
<1>6. DOMAIN args = {"systemId", "password", "systemType", "addressTon", "addressNpi",
                     "addressRange"}
  BY ArgumentAssumption DEF BindArgument
<1> HIDE DEF W, R, v
<1>7. /\ \A k \in {1, 2, 3, 7} : StringGiven(W[k], v[W[k].name])
      /\ \A k \in {4, 5, 6} : NumberGiven(W[k], v[W[k].name])
      /\ \A name \in DOMAIN args : v[name] = args[name]
  BY <1>5, BindGiven
<1>8. \A k \in 1..7 : R[k].name = W[k].name /\ R[k].kind = W[k].kind /\ R[k].len = W[k].len
  BY <1>1, <1>2 DEF Is
<1>9. \A j, k \in 1..7 : R[j].name = R[k].name => j = k
  <2> DEFINE number == [n \in {"systemId", "password", "systemType", "version",
                               "addressTon", "addressNpi", "addressRange"} |->
           CASE n = "systemId" -> 1
           [] n = "password" -> 2
           [] n = "systemType" -> 3
           [] n = "version" -> 4
           [] n = "addressTon" -> 5
           [] n = "addressNpi" -> 6
           [] n = "addressRange" -> 7]
  <2>1. /\ number["systemId"] = 1
        /\ number["password"] = 2
        /\ number["systemType"] = 3
        /\ number["version"] = 4
        /\ number["addressTon"] = 5
        /\ number["addressNpi"] = 6
        /\ number["addressRange"] = 7
    OBVIOUS
  <2> HIDE DEF number
  <2>2. \A k \in 1..7 : number[R[k].name] = k
    BY <1>2, <2>1 DEF Is
  <2>3. QED
    BY <2>2
<1>10. ASSUME NEW k \in {1, 2, 3, 7} PROVE Pair(W[k], R[k], v[W[k].name])
  <2>1. StringGiven(W[k], v[W[k].name])
    BY <1>7
  <2>2. k \in DOMAIN W /\ k \in 1..7
    BY <1>3
  <2>3. W[k].kind = "string" /\ R[k].kind = "string"
    BY <1>8, <2>1, <2>2 DEF StringGiven
  <2>4. W[k].name \in DOMAIN args
    BY <1>1, <1>6 DEF Is
  <2>5. v[W[k].name] = NULL \/ Len(v[W[k].name]) < W[k].len
    BY <1>4, <1>7, <2>2, <2>3, <2>4
  <2>6. QED
    BY <2>1, <2>3, <2>5 DEF StringGiven, Pair
<1>11. ASSUME NEW k \in {4, 5, 6} PROVE Pair(W[k], R[k], v[W[k].name])
  <2>1. W[k].kind = "integer" /\ W[k].len = 1 /\ v[W[k].name] \in Nat
    BY <1>7 DEF NumberGiven
  <2>2. /\ W[k].kind = "integer" /\ R[k].kind = "integer" /\ W[k].len = R[k].len
        /\ W[k].len \in Nat /\ v[W[k].name] \in Nat
    BY <1>8, <2>1
  <2>3. QED
    BY <2>2 DEF Pair
<1>12. \A k \in 1..7 : Pair(W[k], R[k], v[W[k].name])
  <2>1. \A k \in 1..7 : k \in {1, 2, 3, 7} \/ k \in {4, 5, 6}
    OBVIOUS
  <2>2. QED
    BY <1>10, <1>11, <2>1
<1>13. \A k \in 1..7 : R[k].kind # "binary"
  BY <1>2 DEF Is
<1>14. Matches(W, R, v)
  <2>1. Len(W) = 7 /\ Len(R) = 7
    BY <1>1, <1>2
  <2>2. \A k \in 1..Len(W) : R[k].name = W[k].name /\ Pair(W[k], R[k], v[W[k].name])
    BY <1>8, <1>12, <2>1
  <2>3. \A j, k \in 1..Len(W) : R[j].name = R[k].name => j = k
    BY <1>9, <2>1
  <2>4. Len(W) \in Nat /\ Len(R) = Len(W) /\ \A k \in 1..Len(W) : R[k].kind # "binary"
    BY <1>13, <2>1
  <2>5. QED
    BY <2>2, <2>3, <2>4 DEF Matches
<1>15. QED
  BY <1>14 DEF W, R, v

\* What was sent is still there when the peer reads it, with more octets behind it.
LEMMA ReceivedHolds ==
  ASSUME NEW octets \in Seq(Octet)
  PROVE  /\ Received(octets) \in Seq(Octet)
         /\ Len(octets) <= Len(Received(octets)) /\ Len(Received(octets)) \in Nat
         /\ \A i \in 1..Len(octets) : Received(octets)[i] = octets[i]
<1> DEFINE more == [i \in 1..More |-> 0]
<1>1. more \in Seq(Octet)
  <2>1. 0 \in Octet /\ More \in Nat
    BY OctetAssumption DEF Octet, More
  <2>2. QED
    BY <2>1
<1> HIDE DEF more
<1> DEFINE r == octets \o more
<1>2. r \in Seq(Octet) /\ Len(r) = Len(octets) + Len(more)
  BY <1>1, Concatenated
<1>3. \A i \in 1..Len(octets) : r[i] = octets[i]
  BY <1>1, Elements
<1>4. Received(octets) = r
  BY DEF Received, more
<1> HIDE DEF r
<1>5. Len(octets) \in Nat /\ Len(more) \in Nat
  BY <1>1
<1>6. QED
  BY <1>2, <1>3, <1>4, <1>5

\* The peer reads the fields of a body, and ends behind the last of them.
LEMMA BodyRead ==
  ASSUME NEW W, NEW R, NEW v, Matches(W, R, v),
         \A k \in 1..Len(W) : Writable(W[k], v[W[k].name]),
         NEW octets \in Seq(Octet), HeaderLen <= Len(octets),
         Placed(octets, HeaderLen, Pieces(W, v), Len(octets)),
         NEW d, d = Deserialize(R, Received(octets), HeaderLen, FALSE)
  PROVE  d.index = Len(octets) /\ AllRead(W, R, Len(W), v, d.value)
<1> DEFINE F == Pieces(W, v)
           at == HeaderLen
           q == Received(octets)
           n == Len(octets)
<1>1. Len(F) \in Nat /\ \A k \in 1..Len(F) : Len(F[k]) \in Nat
  <2>1. Len(W) \in Nat /\ \A k \in 1..Len(W) : F[k] = OctetsOf(W[k], v[W[k].name])
    BY DEF Matches, Pieces
  <2>2. Len(F) = Len(W)
    BY <2>1 DEF Pieces
  <2>3. \A k \in 1..Len(W) : Len(OctetsOf(W[k], v[W[k].name])) \in Nat
    BY DEF Writable
  <2>4. QED
    BY <2>1, <2>2, <2>3
<1>2. at \in Nat /\ n \in Nat /\ at <= n /\ at + (n - at) = n
  BY OctetAssumption DEF HeaderLen
<1>3. q \in Seq(Octet) /\ n <= Len(q) /\ Len(q) \in Nat /\ \A i \in 1..n : q[i] = octets[i]
  BY ReceivedHolds
<1>4. Placed(octets, at, F, n)
  OBVIOUS
<1> HIDE DEF F, at, q, n
<1>5. \A i \in 1..(n - at) : q[at + i] = octets[at + i]
  BY <1>2, <1>3
<1>6. at + (n - at) <= Len(q)
  BY <1>2, <1>3
<1>7. Placed(q, at, F, at + (n - at))
  BY <1>1, <1>2, <1>3, <1>4, <1>5, <1>6, PlacedMoved
<1>8. Placed(q, at, Pieces(W, v), n)
  BY <1>2, <1>7 DEF F
<1> DEFINE u == FALSE
<1>9. d = Deserialize(R, q, at, u)
  BY DEF q, at
<1> HIDE DEF u
<1>10. LayoutIsRead(W, R, v, n, d)
  BY <1>2, <1>3, <1>8, <1>9, LayoutRead
<1>11. QED
  BY <1>10 DEF n, LayoutIsRead

\* A field that is given has at most as many octets as an octet has values.
LEMMA GivenBound ==
  ASSUME NEW f, NEW value,
         \/ StringGiven(f, value) /\ f.len <= Base
         \/ NumberGiven(f, value)
         \/ MessageGiven(f, value) /\ Len(value) < Base
  PROVE  Len(OctetsOf(f, value)) \in Nat /\ Len(OctetsOf(f, value)) <= Base
<1>1. Base \in Nat /\ Base > 1
  BY OctetAssumption
<1>2. Writable(f, value)
  BY GivenWritable
<1> DEFINE o == OctetsOf(f, value)
<1> HIDE DEF o
<1>3. /\ Len(o) \in Nat
      /\ Len(o) <= IF f.kind = "binary" THEN Len(value) ELSE f.len
  BY <1>2 DEF Writable, o
<1>4. CASE StringGiven(f, value) /\ f.len <= Base
  <2>1. f.kind # "binary" /\ f.len \in Nat /\ f.len <= Base
    BY <1>4 DEF StringGiven
  <2>2. QED
    BY <1>1, <1>3, <2>1 DEF o
<1>5. CASE NumberGiven(f, value)
  <2>1. f.kind # "binary" /\ f.len = 1
    BY <1>5 DEF NumberGiven
  <2>2. QED
    BY <1>1, <1>3, <2>1 DEF o
<1>6. CASE MessageGiven(f, value) /\ Len(value) < Base
  <2>1. f.kind = "binary" /\ Len(value) < Base /\ Len(value) \in Nat
    BY <1>6 DEF MessageGiven
  <2>2. QED
    BY <1>1, <1>3, <2>1 DEF o
<1>7. QED
  BY <1>4, <1>5, <1>6

\* A body with fields of bounded length has a length that fits.
LEMMA LengthFits ==
  ASSUME NEW W, Len(W) \in Nat, Len(W) <= 18, NEW v,
         \A k \in 1..Len(W) : /\ Len(OctetsOf(W[k], v[W[k].name])) \in Nat
                              /\ Len(OctetsOf(W[k], v[W[k].name])) <= Base,
         NEW ptr, NEW end, Placed(ptr, HeaderLen, Pieces(W, v), end)
  PROVE  end \in Nat /\ FitsIn(end, Width)
<1> DEFINE F == Pieces(W, v)
           at == HeaderLen
           most == at + 18 * Base
<1>1. Base \in Nat /\ Width \in Nat /\ at \in Nat /\ most \in Nat /\ FitsIn(most, Width)
  BY OctetAssumption, LengthAssumption DEF HeaderLen
<1>2. Len(F) = Len(W) /\ Len(F) \in Nat
  BY DEF Pieces
<1>3. \A k \in 1..Len(F) : Len(F[k]) \in Nat /\ Len(F[k]) <= Base
  BY <1>2 DEF Pieces
<1>4. Placed(ptr, at, F, end)
  OBVIOUS
<1> HIDE DEF F, at
<1>5. end \in Nat /\ end <= at + Len(F) * Base
  BY <1>1, <1>2, <1>3, <1>4, PlacedBound
<1>6. Len(F) * Base <= 18 * Base
  BY <1>1, <1>2
<1>7. end <= most
  <2> DEFINE x == Len(F) * Base
             y == 18 * Base
  <2>1. x \in Nat /\ y \in Nat /\ x <= y /\ end <= at + x
    BY <1>1, <1>2, <1>5, <1>6
  <2> HIDE DEF x, y
  <2>2. end <= at + y
    BY <1>1, <1>5, <2>1
  <2>3. QED
    BY <2>2 DEF y
<1> HIDE DEF most
<1>8. QED
  BY <1>1, <1>5, <1>7, SmallerFits

\* The header that the peer reads.
LEMMA RequestHeaderRead ==
  ASSUME NEW octets \in Seq(Octet), FitsIn(Len(octets), Width),
         NEW commandId \in Nat, commandId <= RESPONSE_FLAG + ENQUIRE_LINK,
         NEW sequenceNo \in Nat, sequenceNo <= RESPONSE_FLAG + ENQUIRE_LINK,
         HeaderHeld(octets, Len(octets), commandId, ROK, sequenceNo)
  PROVE  as_smpp_deserialize_pdu_header(octets) =
           [commandLength |-> Len(octets), commandId |-> commandId, status |-> ROK,
            sequenceNo |-> sequenceNo]
<1> DEFINE n == Len(octets)
           most == RESPONSE_FLAG + ENQUIRE_LINK
<1>1. Width \in Nat /\ n \in Nat /\ most \in Nat /\ FitsIn(most, Width)
  BY OctetAssumption, CommandAssumption DEF ENQUIRE_LINK
<1>2. ROK \in Nat /\ ROK <= most
  BY CommandAssumption DEF ROK, ENQUIRE_LINK
<1>3. HeaderHeld(octets, n, commandId, ROK, sequenceNo) /\ FitsIn(n, Width)
      /\ commandId <= most /\ sequenceNo <= most
  OBVIOUS
<1> HIDE DEF n, most
<1>4. FitsIn(commandId, Width) /\ FitsIn(sequenceNo, Width) /\ FitsIn(ROK, Width)
  BY <1>1, <1>2, <1>3, SmallerFits
<1>5. as_smpp_deserialize_pdu_header(octets) =
        [commandLength |-> n, commandId |-> commandId, status |-> ROK, sequenceNo |-> sequenceNo]
  BY <1>1, <1>2, <1>3, <1>4, HeaderRead
<1>6. QED
  BY <1>5 DEF n

\* A submit_sm that fits is readable in what is sent for it.
LEMMA SubmitReadable ==
  ASSUME NEW args \in SubmitArgs, NEW sequenceNo \in Nat,
         sequenceNo <= RESPONSE_FLAG + ENQUIRE_LINK,
         NEW call, call = [commandId |-> SUBMIT_SM, sequenceNo |-> sequenceNo, args |-> args],
         Fits(call), NEW octets \in Seq(Octet), HeaderLen <= Len(octets),
         HeaderHeld(octets, Len(octets), SUBMIT_SM, ROK, sequenceNo),
         Placed(octets, HeaderLen, Pieces(WrittenSubmitSm, AllFields(args)), Len(octets))
  PROVE  Readable(call, octets)
<1> DEFINE W == WrittenSubmitSm
           R == PeerSubmitSm
           v == AllFields(args)
           d == Deserialize(R, Received(octets), HeaderLen, FALSE)
<1>1. call.commandId = SUBMIT_SM /\ call.args = args /\ call.sequenceNo = sequenceNo
  OBVIOUS
<1>2. Matches(W, R, v)
  BY <1>1, SubmitMatches
<1>3. Len(W) = 18 /\ \A k \in 1..18 : Writable(W[k], v[W[k].name])
  BY SubmitWritable
<1>4. W = WrittenSubmitSm /\ v = AllFields(args) /\ d = PeerReads(call, octets)
  BY <1>1 DEF PeerReads
<1>5. Placed(octets, HeaderLen, Pieces(W, v), Len(octets))
  OBVIOUS
<1>6. /\ Is(W[1], "string", "serviceType", MaxLen["serviceType"])
      /\ Is(W[4], "string", "source", MaxLen["address"])
      /\ Is(W[7], "string", "destination", MaxLen["address"])
      /\ Is(W[18], "binary", "message", 0)
  BY WrittenSubmitSmIs
<1>7. /\ Is(R[1], "string", "serviceType", MaxLen["serviceType"])
      /\ Is(R[2], "integer", "sourceTon", 1) /\ Is(R[3], "integer", "sourceNpi", 1)
      /\ Is(R[4], "string", "source", MaxLen["address"])
      /\ Is(R[5], "integer", "destinationTon", 1) /\ Is(R[6], "integer", "destinationNpi", 1)
      /\ Is(R[7], "string", "destination", MaxLen["address"])
      /\ Is(R[15], "integer", "dataCoding", 1) /\ Is(R[18], "binary", "message", 0)
  BY PeerSubmitSmIs
<1>8. Len(args.message) < Base
  BY <1>1 DEF Fits
<1> HIDE DEF W, R, v
<1>9. d.index = Len(octets) /\ AllRead(W, R, Len(W), v, d.value)
  BY <1>2, <1>3, <1>5, BodyRead
<1> HIDE DEF d
<1>10. \A k \in 1..18 :
        \/ k \in {1, 4, 7} /\ StringGiven(W[k], v[W[k].name])
        \/ k \in {2, 3, 5, 6, 8, 9, 10, 11, 12, 13, 14, 15, 16, 17}
             /\ NumberGiven(W[k], v[W[k].name])
        \/ k = 18 /\ MessageGiven(W[k], v[W[k].name])
  BY <1>4, SubmitGiven
<1>11. /\ v["serviceType"] = args["serviceType"] /\ v["source"] = args["source"]
       /\ v["sourceTon"] = args["sourceTon"] /\ v["sourceNpi"] = args["sourceNpi"]
       /\ v["destinationTon"] = args["destinationTon"]
       /\ v["destinationNpi"] = args["destinationNpi"]
       /\ v["destination"] = args["destination"] /\ v["dataCoding"] = args["dataCoding"]
       /\ v["message"] = args["message"]
  BY <1>4, SubmitValues
<1>12. ASSUME NEW k \in 1..18
       PROVE  Len(OctetsOf(W[k], v[W[k].name])) \in Nat
              /\ Len(OctetsOf(W[k], v[W[k].name])) <= Base
  <2>1. MaxLen["serviceType"] <= Base /\ MaxLen["address"] <= Base
    BY LengthAssumption, StringAssumption
  <2>2. /\ k \in {1, 4, 7} => W[k].len <= Base
        /\ k = 18 => v[W[k].name] = args["message"]
    BY <1>6, <1>11, <2>1 DEF Is
  <2>3. \/ StringGiven(W[k], v[W[k].name]) /\ W[k].len <= Base
        \/ NumberGiven(W[k], v[W[k].name])
        \/ MessageGiven(W[k], v[W[k].name]) /\ Len(v[W[k].name]) < Base
    BY <1>8, <1>10, <2>2
  <2>4. QED
    BY <2>3, GivenBound
<1>13. FitsIn(Len(octets), Width)
  <2>1. Len(W) \in Nat /\ Len(W) <= 18
    BY <1>3
  <2>2. QED
    BY <1>3, <1>5, <1>12, <2>1, LengthFits
<1>14. as_smpp_deserialize_pdu_header(octets) =
         [commandLength |-> Len(octets), commandId |-> call.commandId, status |-> ROK,
          sequenceNo |-> call.sequenceNo]
  <2>1. SUBMIT_SM \in Nat /\ SUBMIT_SM <= RESPONSE_FLAG + ENQUIRE_LINK
    BY CommandAssumption DEF SUBMIT_SM, ENQUIRE_LINK
  <2>2. QED
    BY <1>1, <1>13, <2>1, RequestHeaderRead
<1>15. \A k \in 1..18 : ReadAs(W[k], R[k], v[R[k].name], d.value[R[k].name])
  BY <1>3, <1>9 DEF AllRead
<1>16. ASSUME NEW k \in {1, 4, 7}
       PROVE  d.value[R[k].name] = TextOf(v[R[k].name])
  <2>1. W[k].kind = "string" /\ R[k].kind = "string" /\ k \in 1..18
    BY <1>6, <1>7 DEF Is
  <2>2. QED
    BY <1>15, <2>1 DEF ReadAs
<1>17. SubmitArgument(args)
  BY ArgumentAssumption
<1>18. \A n \in Octet : FitsIn(n, 1)
  BY OctetFits
<1>19. ASSUME NEW k \in {2, 3, 5, 6, 15}
       PROVE  d.value[R[k].name] = v[R[k].name] /\ v[R[k].name] # NULL
  <2>1. W[k].len = 1 /\ R[k].kind = "integer" /\ k \in 1..18
    <3>1. k \in 1..18 /\ k \notin {1, 4, 7} /\ k # 18
      OBVIOUS
    <3>2. NumberGiven(W[k], v[W[k].name])
      BY <1>10, <3>1
    <3>3. R[k].kind = "integer"
      BY <1>7 DEF Is
    <3>4. QED
      BY <3>1, <3>2, <3>3 DEF NumberGiven
  <2>2. v[R[k].name] \in Octet /\ v[R[k].name] # NULL
    BY <1>7, <1>11, <1>17 DEF Is, SubmitArgument, Number
  <2>3. FitsIn(v[R[k].name], W[k].len)
    BY <1>18, <2>1, <2>2
  <2>4. QED
    BY <1>15, <2>1, <2>2, <2>3 DEF ReadAs
<1>20. d.value["message"] = args["message"] /\ args["message"] # NULL
  <2>1. R[18].kind = "binary" /\ R[18].name = "message" /\ 18 \in 1..18
    BY <1>7 DEF Is
  <2>2. d.value["message"] = v["message"]
    BY <1>15, <2>1 DEF ReadAs
  <2>3. QED
    BY <1>11, <1>17, <2>2 DEF SubmitArgument
<1>21. /\ d.value["serviceType"] = TextOf(args["serviceType"])
       /\ d.value["source"] = TextOf(args["source"])
       /\ d.value["destination"] = TextOf(args["destination"])
  BY <1>7, <1>11, <1>16 DEF Is
<1>22. /\ d.value["sourceTon"] = args["sourceTon"] /\ args["sourceTon"] # NULL
       /\ d.value["sourceNpi"] = args["sourceNpi"] /\ args["sourceNpi"] # NULL
       /\ d.value["destinationTon"] = args["destinationTon"] /\ args["destinationTon"] # NULL
       /\ d.value["destinationNpi"] = args["destinationNpi"] /\ args["destinationNpi"] # NULL
       /\ d.value["dataCoding"] = args["dataCoding"] /\ args["dataCoding"] # NULL
  BY <1>7, <1>11, <1>19 DEF Is
<1>23. \A name \in DOMAIN args : d.value[name] = TextOf(args[name])
  BY <1>17, <1>20, <1>21, <1>22 DEF SubmitArgument, TextOf
<1>24. QED
  BY <1>1, <1>4, <1>9, <1>14, <1>23 DEF Readable, TextOf

\* A bind that fits is readable in what is sent for it.
LEMMA BindReadable ==
  ASSUME NEW args \in BindArgs, NEW commandId \in Binds, NEW sequenceNo \in Nat,
         sequenceNo <= RESPONSE_FLAG + ENQUIRE_LINK,
         NEW call, call = [commandId |-> commandId, sequenceNo |-> sequenceNo, args |-> args],
         Fits(call), NEW octets \in Seq(Octet), HeaderLen <= Len(octets),
         HeaderHeld(octets, Len(octets), commandId, ROK, sequenceNo),
         Placed(octets, HeaderLen, Pieces(WrittenBind, BindFields(args)), Len(octets))
  PROVE  Readable(call, octets)
<1> DEFINE W == WrittenBind
           R == PeerBind
           v == BindFields(args)
           d == Deserialize(R, Received(octets), HeaderLen, FALSE)
<1>1. /\ call.commandId = commandId /\ call.args = args
      /\ call.sequenceNo = sequenceNo
  OBVIOUS
<1>2. /\ commandId # SUBMIT_SM /\ commandId \in Nat
      /\ commandId <= RESPONSE_FLAG + ENQUIRE_LINK
  BY CommandAssumption
     DEF Binds, BIND_RECEIVER, BIND_TRANSMITTER, BIND_TRANSCEIVER, SUBMIT_SM, ENQUIRE_LINK
<1>3. Matches(W, R, v)
  BY <1>1, <1>2, BindMatches
<1>4. Len(W) = 7 /\ \A k \in 1..7 : Writable(W[k], v[W[k].name])
  BY BindWritable
<1>5. W = WrittenBind /\ v = BindFields(args) /\ d = PeerReads(call, octets)
  BY <1>1, <1>2 DEF PeerReads
<1>6. Placed(octets, HeaderLen, Pieces(W, v), Len(octets))
  OBVIOUS
<1>7. /\ Is(W[1], "string", "systemId", MaxLen["systemId"])
      /\ Is(W[2], "string", "password", MaxLen["password"])
      /\ Is(W[3], "string", "systemType", MaxLen["systemType"])
      /\ Is(W[7], "string", "addressRange", MaxLen["addressRange"])
  BY WrittenBindIs
<1>8. /\ Is(R[1], "string", "systemId", MaxLen["systemId"])
      /\ Is(R[2], "string", "password", MaxLen["password"])
      /\ Is(R[3], "string", "systemType", MaxLen["systemType"])
      /\ Is(R[5], "integer", "addressTon", 1) /\ Is(R[6], "integer", "addressNpi", 1)
      /\ Is(R[7], "string", "addressRange", MaxLen["addressRange"])
  BY WrittenBindIs
<1> HIDE DEF W, R, v
<1>9. d.index = Len(octets) /\ AllRead(W, R, Len(W), v, d.value)
  BY <1>3, <1>4, <1>6, BodyRead
<1> HIDE DEF d
<1>10. /\ \A k \in {1, 2, 3, 7} : StringGiven(W[k], v[W[k].name])
       /\ \A k \in {4, 5, 6} : NumberGiven(W[k], v[W[k].name])
       /\ \A name \in DOMAIN args : v[name] = args[name]
  BY <1>5, BindGiven
<1>11. ASSUME NEW k \in 1..7
       PROVE  Len(OctetsOf(W[k], v[W[k].name])) \in Nat
              /\ Len(OctetsOf(W[k], v[W[k].name])) <= Base
  <2>1. /\ MaxLen["systemId"] <= Base /\ MaxLen["password"] <= Base
        /\ MaxLen["systemType"] <= Base /\ MaxLen["addressRange"] <= Base
    BY LengthAssumption, StringAssumption
  <2>2. k \in {1, 2, 3, 7} => W[k].len <= Base
    BY <1>7, <2>1 DEF Is
  <2>3. k \in {1, 2, 3, 7} \/ k \in {4, 5, 6}
    OBVIOUS
  <2>4. \/ StringGiven(W[k], v[W[k].name]) /\ W[k].len <= Base
        \/ NumberGiven(W[k], v[W[k].name])
    BY <1>10, <2>2, <2>3
  <2>5. QED
    BY <2>4, GivenBound
<1>12. FitsIn(Len(octets), Width)
  <2>1. Len(W) \in Nat /\ Len(W) <= 18
    BY <1>4
  <2>2. QED
    BY <1>4, <1>6, <1>11, <2>1, LengthFits
<1>13. as_smpp_deserialize_pdu_header(octets) =
         [commandLength |-> Len(octets), commandId |-> call.commandId, status |-> ROK,
          sequenceNo |-> call.sequenceNo]
  BY <1>1, <1>2, <1>12, RequestHeaderRead
<1>14. \A k \in 1..7 : ReadAs(W[k], R[k], v[R[k].name], d.value[R[k].name])
  BY <1>4, <1>9 DEF AllRead
<1>15. ASSUME NEW k \in {1, 2, 3, 7}
       PROVE  d.value[R[k].name] = TextOf(v[R[k].name])
  <2>1. W[k].kind = "string" /\ R[k].kind = "string" /\ k \in 1..7
    BY <1>7, <1>8 DEF Is
  <2>2. QED
    BY <1>14, <2>1 DEF ReadAs
<1>16. BindArgument(args)
  BY ArgumentAssumption
<1>17. \A n \in Octet : FitsIn(n, 1)
  BY OctetFits
<1>18. ASSUME NEW k \in {5, 6}
       PROVE  d.value[R[k].name] = v[R[k].name] /\ v[R[k].name] # NULL
  <2>1. W[k].len = 1 /\ R[k].kind = "integer" /\ k \in 1..7
    <3>1. k \in 1..7 /\ k \in {4, 5, 6}
      OBVIOUS
    <3>2. R[k].kind = "integer"
      BY <1>8 DEF Is
    <3>3. QED
      BY <1>10, <3>1, <3>2 DEF NumberGiven
  <2>2. v[R[k].name] \in Octet /\ v[R[k].name] # NULL
    BY <1>8, <1>10, <1>16 DEF Is, BindArgument, Number
  <2>3. FitsIn(v[R[k].name], W[k].len)
    BY <1>17, <2>1, <2>2
  <2>4. QED
    BY <1>14, <2>1, <2>2, <2>3 DEF ReadAs
<1>19. /\ v["systemId"] = args["systemId"] /\ v["password"] = args["password"]
       /\ v["systemType"] = args["systemType"] /\ v["addressRange"] = args["addressRange"]
       /\ v["addressTon"] = args["addressTon"] /\ v["addressNpi"] = args["addressNpi"]
  BY <1>10, <1>16 DEF BindArgument
<1>20. /\ d.value["systemId"] = TextOf(args["systemId"])
       /\ d.value["password"] = TextOf(args["password"])
       /\ d.value["systemType"] = TextOf(args["systemType"])
       /\ d.value["addressRange"] = TextOf(args["addressRange"])
  BY <1>8, <1>15, <1>19 DEF Is
<1>21. /\ d.value["addressTon"] = args["addressTon"] /\ args["addressTon"] # NULL
       /\ d.value["addressNpi"] = args["addressNpi"] /\ args["addressNpi"] # NULL
  BY <1>8, <1>18, <1>19 DEF Is
<1>22. \A name \in DOMAIN args : d.value[name] = TextOf(args[name])
  BY <1>16, <1>20, <1>21 DEF BindArgument, TextOf
<1>23. QED
  BY <1>1, <1>5, <1>9, <1>13, <1>22 DEF Readable, TextOf

-----------------------------------------------------------------------------
(***************************************************************************)
(* Requests: the invariant.                                                *)
(***************************************************************************)
\* The calls are recorded with their arguments, and what was sent for each.
RequestTyped ==
  /\ session \in [mode : Modes, maxSmLength : {maxSmLength}, sequenceNo : Nat]
  /\ session.sequenceNo <= RESPONSE_FLAG + ENQUIRE_LINK
  /\ requests = <<>> => session.sequenceNo = 1
  /\ sendBuffer \in B!BufferOf(Octet)
  /\ requests \in Seq([commandId : Nat, sequenceNo : Nat, args : BindArgs \union SubmitArgs])
  /\ wire \in Seq(Seq(Octet))
  /\ Len(wire) = Len(requests)

\* What the peer reads of every call whose arguments fit.
AllReadable == \A i \in 1..Len(requests) : Fits(requests[i]) => Readable(requests[i], wire[i])

\* The inductive invariant of Requests.
RequestInv == RequestTyped /\ AllReadable

\* The invariant holds at first.
LEMMA RequestInvInit == RequestInit => RequestInv
<1> SUFFICES ASSUME RequestInit PROVE RequestInv
  OBVIOUS
<1>1. sendBuffer \in B!BufferOf(Octet)
  <2>1. sendBuffer = [ptr |-> [i \in 1..InitCapacity |-> Garbage], dataLen |-> 0]
    BY DEF RequestInit, B!as_smpp_buffer_init, B!Fresh
  <2>2. [i \in 1..InitCapacity |-> Garbage] \in Seq(Octet)
        /\ Len([i \in 1..InitCapacity |-> Garbage]) = InitCapacity
    BY MemoryAssumption
  <2>3. QED
    BY <2>1, <2>2, MemoryAssumption DEF B!BufferOf
<1>2. session \in [mode : Modes, maxSmLength : {maxSmLength}, sequenceNo : Nat]
      /\ session.sequenceNo = 1
  BY DEF RequestInit
<1>3. 1 <= RESPONSE_FLAG + ENQUIRE_LINK
  BY CommandAssumption DEF ENQUIRE_LINK
<1>4. requests = <<>> /\ wire = <<>>
  BY DEF RequestInit
<1>5. RequestTyped
  BY <1>1, <1>2, <1>3, <1>4 DEF RequestTyped
<1>6. AllReadable
  BY <1>4 DEF AllReadable
<1>7. QED
  BY <1>5, <1>6 DEF RequestInv

\* A call appends a request and the octets sent for it: if these are readable,
\* the invariant still holds.
LEMMA OneMore ==
  ASSUME RequestInv,
         NEW call \in [commandId : Nat, sequenceNo : Nat, args : BindArgs \union SubmitArgs],
         NEW octets \in Seq(Octet), requests' = Append(requests, call),
         wire' = Append(wire, octets), Fits(call) => Readable(call, octets),
         session' \in [mode : Modes, maxSmLength : {maxSmLength}, sequenceNo : Nat],
         session'.sequenceNo <= RESPONSE_FLAG + ENQUIRE_LINK,
         sendBuffer' \in B!BufferOf(Octet)
  PROVE  RequestInv'
<1> DEFINE n == Len(requests)
<1>1. /\ requests \in Seq([commandId : Nat, sequenceNo : Nat, args : BindArgs \union SubmitArgs])
      /\ wire \in Seq(Seq(Octet)) /\ Len(wire) = n /\ n \in Nat
  BY DEF RequestInv, RequestTyped
<1>2. /\ requests' \in Seq([commandId : Nat, sequenceNo : Nat, args : BindArgs \union SubmitArgs])
      /\ Len(requests') = n + 1 /\ requests'[n + 1] = call
      /\ \A i \in 1..n : requests'[i] = requests[i]
  <2> DEFINE C == [commandId : Nat, sequenceNo : Nat, args : BindArgs \union SubmitArgs]
  <2>1. requests \in Seq(C) /\ call \in C /\ requests' = Append(requests, call)
    BY <1>1
  <2> HIDE DEF C
  <2>2. requests' \in Seq(C)
    BY ONLY <2>1
  <2>3. /\ Len(requests') = n + 1 /\ requests'[n + 1] = call
        /\ \A i \in 1..n : requests'[i] = requests[i]
    BY ONLY <2>1 DEF n
  <2>4. QED
    BY <2>2, <2>3 DEF C
<1>3. /\ wire' \in Seq(Seq(Octet)) /\ Len(wire') = n + 1 /\ wire'[n + 1] = octets
      /\ \A i \in 1..n : wire'[i] = wire[i]
  BY <1>1
<1> HIDE DEF n
<1>4. requests' # <<>>
  <2>1. Len(requests') # 0
    BY <1>1, <1>2
  <2>2. QED
    BY ONLY <2>1
<1>5. RequestTyped'
  BY <1>2, <1>3, <1>4 DEF RequestTyped
<1>6. ASSUME NEW i \in 1..(n + 1), Fits(requests'[i]) PROVE Readable(requests'[i], wire'[i])
  <2>1. CASE i = n + 1
    BY <1>2, <1>3, <1>6, <2>1
  <2>2. CASE i \in 1..n
    BY <1>2, <1>3, <1>6, <2>2 DEF RequestInv, AllReadable, n
  <2>3. i = n + 1 \/ i \in 1..n
    BY <1>1
  <2>4. QED
    BY <2>1, <2>2, <2>3
<1>7. AllReadable'
  BY <1>2, <1>6 DEF AllReadable
<1>8. QED
  BY <1>5, <1>7 DEF RequestInv

\* A bind keeps the invariant.
LEMMA BindStep ==
  ASSUME RequestInv, Bind
  PROVE  RequestInv'
<1>1. PICK args \in BindArgs : as_smpp_bind(args)
  BY DEF Bind
<1> DEFINE no == session.sequenceNo
           command == BindCommand
           s == LengthPatched(Composed(sendBuffer, command, no, WrittenBind, BindFields(args)))
           octets == Sent(s)
           call == [commandId |-> command, sequenceNo |-> no, args |-> args]
<1>2. /\ no = 1 /\ sendBuffer \in B!BufferOf(Octet)
      /\ session \in [mode : Modes, maxSmLength : {maxSmLength}, sequenceNo : Nat]
  BY DEF Bind, RequestInv, RequestTyped
<1>3. /\ no \in Nat /\ no <= RESPONSE_FLAG + ENQUIRE_LINK
      /\ no + 1 \in Nat /\ no + 1 <= RESPONSE_FLAG + ENQUIRE_LINK
  BY <1>2, CommandAssumption DEF ENQUIRE_LINK
<1>4. command \in Binds /\ command \in Nat
  BY DEF BindCommand, Binds, BIND_RECEIVER, BIND_TRANSMITTER, BIND_TRANSCEIVER
<1>5. /\ sendBuffer' = s
      /\ wire' = Append(wire, Sent(sendBuffer'))
  BY <1>1 DEF as_smpp_bind, Send, Composed, BindFields
<1>6. session' = [session EXCEPT !.sequenceNo = no + 1] /\ requests' = Append(requests, call)
  BY <1>1 DEF as_smpp_bind, Request
<1>7. Len(WrittenBind) = 7
      /\ \A k \in 1..7 : Writable(WrittenBind[k], BindFields(args)[WrittenBind[k].name])
  BY BindWritable
<1> HIDE DEF no, command
<1>8. /\ s \in B!BufferOf(Octet)
      /\ octets \in Seq(Octet) /\ HeaderLen <= Len(octets)
      /\ HeaderHeld(octets, Len(octets), command, ROK, no)
      /\ Placed(octets, HeaderLen, Pieces(WrittenBind, BindFields(args)), Len(octets))
  <2> DEFINE W == WrittenBind
             v == BindFields(args)
             b == sendBuffer
  <2>1. /\ Len(W) \in Nat /\ \A k \in 1..Len(W) : Writable(W[k], v[W[k].name])
        /\ b \in B!BufferOf(Octet)
    BY <1>2, <1>7
  <2>2. s = LengthPatched(Composed(b, command, no, W, v)) /\ octets = Sent(s)
    OBVIOUS
  <2> HIDE DEF W, v, b, s, octets
  <2>3. /\ s \in B!BufferOf(Octet)
        /\ octets \in Seq(Octet) /\ HeaderLen <= Len(octets)
        /\ HeaderHeld(octets, Len(octets), command, ROK, no)
        /\ Placed(octets, HeaderLen, Pieces(W, v), Len(octets))
    BY <1>3, <1>4, <2>1, <2>2, RequestSent
  <2>4. QED
    BY <2>3 DEF W, v
<1> HIDE DEF s, octets
<1>9. Fits(call) => Readable(call, octets)
  <2> DEFINE r == call
  <2>1. r = [commandId |-> command, sequenceNo |-> no, args |-> args]
    OBVIOUS
  <2> HIDE DEF r, call
  <2>2. Fits(r) => Readable(r, octets)
    BY <1>3, <1>4, <1>8, <2>1, BindReadable
  <2>3. QED
    BY <2>2 DEF r
<1>10. call \in [commandId : Nat, sequenceNo : Nat, args : BindArgs \union SubmitArgs]
  BY <1>3, <1>4
<1>11. wire' = Append(wire, octets) /\ sendBuffer' \in B!BufferOf(Octet)
  <2>1. Sent(s) = octets
    BY DEF octets
  <2>2. QED
    BY <1>5, <1>8, <2>1
<1>12. /\ session' \in [mode : Modes, maxSmLength : {maxSmLength}, sequenceNo : Nat]
       /\ session'.sequenceNo <= RESPONSE_FLAG + ENQUIRE_LINK
  BY <1>2, <1>3, <1>6
<1> HIDE DEF call
<1>13. QED
  BY <1>6, <1>8, <1>9, <1>10, <1>11, <1>12, OneMore

\* A submit_sm keeps the invariant.
LEMMA SubmitStep ==
  ASSUME RequestInv, Submit
  PROVE  RequestInv'
<1>1. PICK args \in SubmitArgs : as_smpp_submit_sm(args)
  BY DEF Submit
<1> DEFINE no == session.sequenceNo
           command == SUBMIT_SM
           s == LengthPatched(Composed(sendBuffer, command, no, WrittenSubmitSm, AllFields(args)))
           octets == Sent(s)
           call == [commandId |-> command, sequenceNo |-> no, args |-> args]
<1>2. /\ no \in Nat /\ no <= RESPONSE_FLAG + ENQUIRE_LINK /\ sendBuffer \in B!BufferOf(Octet)
      /\ session \in [mode : Modes, maxSmLength : {maxSmLength}, sequenceNo : Nat]
  BY DEF RequestInv, RequestTyped
<1>3. command = SUBMIT_SM /\ command \in Nat
  BY DEF SUBMIT_SM
<1>4. /\ sendBuffer' = s
      /\ wire' = Append(wire, Sent(sendBuffer'))
  BY <1>1 DEF as_smpp_submit_sm, Send, Composed
<1>5. session' = [session EXCEPT !.sequenceNo = IF no + 1 >= INT32_MAX THEN 1 ELSE no + 1]
      /\ requests' = Append(requests, call)
  BY <1>1 DEF as_smpp_submit_sm, Request
<1>6. Len(WrittenSubmitSm) = 18
      /\ \A k \in 1..18 :
           Writable(WrittenSubmitSm[k], AllFields(args)[WrittenSubmitSm[k].name])
  BY SubmitWritable
<1> HIDE DEF no, command
<1>7. /\ s \in B!BufferOf(Octet)
      /\ octets \in Seq(Octet) /\ HeaderLen <= Len(octets)
      /\ HeaderHeld(octets, Len(octets), command, ROK, no)
      /\ Placed(octets, HeaderLen, Pieces(WrittenSubmitSm, AllFields(args)), Len(octets))
  <2> DEFINE W == WrittenSubmitSm
             v == AllFields(args)
             b == sendBuffer
  <2>1. /\ Len(W) \in Nat /\ \A k \in 1..Len(W) : Writable(W[k], v[W[k].name])
        /\ b \in B!BufferOf(Octet)
    BY <1>2, <1>6
  <2>2. s = LengthPatched(Composed(b, command, no, W, v)) /\ octets = Sent(s)
    OBVIOUS
  <2> HIDE DEF W, v, b, s, octets
  <2>3. /\ s \in B!BufferOf(Octet)
        /\ octets \in Seq(Octet) /\ HeaderLen <= Len(octets)
        /\ HeaderHeld(octets, Len(octets), command, ROK, no)
        /\ Placed(octets, HeaderLen, Pieces(W, v), Len(octets))
    BY <1>2, <1>3, <2>1, <2>2, RequestSent
  <2>4. QED
    BY <2>3 DEF W, v
<1> HIDE DEF s, octets
<1>8. Fits(call) => Readable(call, octets)
  <2> DEFINE r == call
  <2>1. r = [commandId |-> SUBMIT_SM, sequenceNo |-> no, args |-> args]
    BY <1>3
  <2>2. HeaderHeld(octets, Len(octets), SUBMIT_SM, ROK, no)
    BY <1>3, <1>7
  <2> HIDE DEF r, call
  <2>3. Fits(r) => Readable(r, octets)
    BY <1>2, <1>7, <2>1, <2>2, SubmitReadable
  <2>4. QED
    BY <2>3 DEF r
<1>9. call \in [commandId : Nat, sequenceNo : Nat, args : BindArgs \union SubmitArgs]
  BY <1>2, <1>3
<1>10. wire' = Append(wire, octets) /\ sendBuffer' \in B!BufferOf(Octet)
  <2>1. Sent(s) = octets
    BY DEF octets
  <2>2. QED
    BY <1>4, <1>7, <2>1
<1>11. /\ session' \in [mode : Modes, maxSmLength : {maxSmLength}, sequenceNo : Nat]
       /\ session'.sequenceNo <= RESPONSE_FLAG + ENQUIRE_LINK
  <2> DEFINE next == IF no + 1 >= INT32_MAX THEN 1 ELSE no + 1
  <2>1. INT32_MAX = RESPONSE_FLAG - 1
    BY DEF INT32_MAX, RESPONSE_FLAG
  <2>2. next \in Nat /\ next <= RESPONSE_FLAG + ENQUIRE_LINK
    BY <1>2, <2>1, CommandAssumption DEF ENQUIRE_LINK
  <2>3. session' = [session EXCEPT !.sequenceNo = next]
    BY <1>5
  <2> HIDE DEF next
  <2>4. QED
    BY <1>2, <2>2, <2>3
<1> HIDE DEF call
<1>12. QED
  BY <1>5, <1>7, <1>8, <1>9, <1>10, <1>11, OneMore

\* What the peer reads in the octets of the requests whose arguments fit are the
\* requests, for any lengths of fields and any arguments, whatever was in the
\* memory of the buffer; and no octet is written past this memory.
THEOREM RequestsAreReadable == RequestSpec => []RequestsReadable
<1>1. RequestInv /\ [RequestNext]_requestVars => RequestInv'
  <2>1. CASE Bind
    BY <2>1, BindStep
  <2>2. CASE Submit
    BY <2>2, SubmitStep
  <2>3. CASE UNCHANGED requestVars
    BY <2>3 DEF requestVars, RequestInv, RequestTyped, AllReadable
  <2>4. QED
    BY <2>1, <2>2, <2>3 DEF RequestNext
<1>2. RequestInv => RequestsReadable
  <2> SUFFICES ASSUME RequestInv PROVE RequestsReadable
    OBVIOUS
  <2>1. sendBuffer.dataLen <= Len(sendBuffer.ptr) /\ Len(wire) = Len(requests)
    BY DEF RequestInv, RequestTyped, B!BufferOf
  <2>2. \A i \in 1..Len(requests) : Fits(requests[i]) => Readable(requests[i], wire[i])
    BY DEF RequestInv, AllReadable
  <2>3. DOMAIN requests = 1..Len(requests)
    BY DEF RequestInv, RequestTyped
  <2>4. QED
    BY <2>1, <2>2, <2>3 DEF RequestsReadable
<1>3. QED
  BY <1>1, <1>2, RequestInvInit, PTL DEF RequestSpec

-----------------------------------------------------------------------------
(***************************************************************************)
(* Dispatch: the octets of the PDUs that the SMSC sends.                   *)
(***************************************************************************)
\* The response ids lie above those of the requests.
LEMMA CommandsDiffer ==
  /\ RESPONSE_FLAG \in Nat /\ RESPONSE_FLAG > 21 /\ HeaderLen \in Nat /\ HeaderLen > 0
  /\ BindResponses = {RESPONSE_FLAG + 1, RESPONSE_FLAG + 2, RESPONSE_FLAG + 9}
  /\ SubmitResponse = RESPONSE_FLAG + 4 /\ DELIVER_SM = 5 /\ ENQUIRE_LINK = 21
BY CommandAssumption, OctetAssumption
   DEF HeaderLen, BindResponses, Binds, BIND_RECEIVER, BIND_TRANSMITTER, BIND_TRANSCEIVER,
       SubmitResponse, SUBMIT_SM, DELIVER_SM, ENQUIRE_LINK

\* The fields of a deliver_sm as the SMSC writes them.
LEMMA SmscDeliverIs ==
  ASSUME NEW D, D = SmscLayout(DELIVER_SM)
  PROVE  /\ Len(D) = 18
         /\ Is(D[1], "string", "serviceType", MaxLen["serviceType"])
         /\ Is(D[2], "integer", "sourceTon", 1)
         /\ Is(D[3], "integer", "sourceNpi", 1)
         /\ Is(D[4], "string", "source", MaxLen["address"])
         /\ Is(D[5], "integer", "destinationTon", 1)
         /\ Is(D[6], "integer", "destinationNpi", 1)
         /\ Is(D[7], "string", "destination", MaxLen["address"])
         /\ Is(D[8], "integer", "esmClass", 1)
         /\ Is(D[9], "integer", "protocolId", 1)
         /\ Is(D[10], "integer", "priority", 1)
         /\ Is(D[11], "string", "scheduleDeliveryTime", MaxLen["dateTime"])
         /\ Is(D[12], "string", "validityPeriod", MaxLen["dateTime"])
         /\ Is(D[13], "integer", "registeredDelivery", 1)
         /\ Is(D[14], "integer", "replaceIfPresent", 1)
         /\ Is(D[15], "integer", "dataCoding", 1)
         /\ Is(D[16], "integer", "defaultMessageId", 1)
         /\ Is(D[17], "integer", "messageLength", 1)
         /\ Is(D[18], "binary", "message", 0)
<1> DEFINE W == WrittenSubmitSm
<1>1. /\ Len(W) = 18
      /\ Is(W[1], "string", "serviceType", MaxLen["serviceType"])
      /\ Is(W[2], "integer", "sourceTon", 1)
      /\ Is(W[3], "integer", "sourceNpi", 1)
      /\ Is(W[4], "string", "source", MaxLen["address"])
      /\ Is(W[5], "integer", "destinationTon", 1)
      /\ Is(W[6], "integer", "destinationNpi", 1)
      /\ Is(W[7], "string", "destination", MaxLen["address"])
      /\ Is(W[8], "integer", "esmClass", 1)
      /\ Is(W[9], "integer", "protocolId", 1)
      /\ Is(W[10], "integer", "priority", 1)
      /\ Is(W[11], "integer", "scheduleDeliveryTime", 1)
      /\ Is(W[12], "integer", "validityPeriod", 1)
      /\ Is(W[13], "integer", "registeredDelivery", 1)
      /\ Is(W[14], "integer", "replaceIfPresent", 1)
      /\ Is(W[15], "integer", "dataCoding", 1)
      /\ Is(W[16], "integer", "defaultMessageId", 1)
      /\ Is(W[17], "integer", "messageLength", 1)
      /\ Is(W[18], "binary", "message", 0)
  BY WrittenSubmitSmIs
<1>2. DELIVER_SM \notin BindResponses /\ DELIVER_SM # SubmitResponse
  BY CommandsDiffer
<1>3. D = [i \in 1..Len(W) |-> IF W[i].name \in {"scheduleDeliveryTime", "validityPeriod"}
                                THEN String(W[i].name, "dateTime") ELSE W[i]]
  BY <1>2 DEF SmscLayout
<1> HIDE DEF W
<1>4. /\ Len(D) = 18
      /\ \A k \in 1..18 : W[k].name \notin {"scheduleDeliveryTime", "validityPeriod"} => D[k] = W[k]
      /\ \A k \in 1..18 : W[k].name \in {"scheduleDeliveryTime", "validityPeriod"} =>
                            D[k] = String(W[k].name, "dateTime")
  BY <1>1, <1>3
<1>5. /\ Is(D[11], "string", "scheduleDeliveryTime", MaxLen["dateTime"])
      /\ Is(D[12], "string", "validityPeriod", MaxLen["dateTime"])
  <2>1. W[11].name = "scheduleDeliveryTime" /\ W[12].name = "validityPeriod"
    BY <1>1 DEF Is
  <2>2. /\ D[11] = String("scheduleDeliveryTime", "dateTime")
        /\ D[12] = String("validityPeriod", "dateTime")
    BY <1>4, <2>1
  <2>3. QED
    BY <2>2 DEF String, Field, Is
<1>6. /\ D[1] = W[1]
      /\ D[2] = W[2]
      /\ D[3] = W[3]
      /\ D[4] = W[4]
      /\ D[5] = W[5]
      /\ D[6] = W[6]
      /\ D[7] = W[7]
      /\ D[8] = W[8]
      /\ D[9] = W[9]
      /\ D[10] = W[10]
      /\ D[13] = W[13]
      /\ D[14] = W[14]
      /\ D[15] = W[15]
      /\ D[16] = W[16]
      /\ D[17] = W[17]
      /\ D[18] = W[18]
  BY <1>1, <1>4 DEF Is
<1>7. QED
  BY <1>1, <1>4, <1>5, <1>6

\* The fields of a layout that can be written.
WellFormed(f) ==
  \/ f.kind = "integer" /\ f.len = 1
  \/ f.kind = "string" /\ f.len \in Nat /\ f.len > 0
  \/ f.kind = "binary"

\* The layouts of the SMSC have such fields.
LEMMA SmscWellFormed ==
  ASSUME NEW c, NEW L, L = SmscLayout(c)
  PROVE  /\ Len(L) \in Nat /\ DOMAIN L = 1..Len(L)
         /\ \A k \in 1..Len(L) : WellFormed(L[k])
<1>1. /\ \A f \in DOMAIN MaxLen : MaxLen[f] \in Nat /\ MaxLen[f] > 0
      /\ DOMAIN MaxLen = {"systemId", "password", "systemType", "addressRange", "serviceType",
                          "address", "messageId", "dateTime"}
  BY StringAssumption
<1>2. CASE c \in BindResponses
  <2>1. L = <<String("systemId", "systemId")>>
    BY <1>2 DEF SmscLayout
  <2>2. WellFormed(String("systemId", "systemId"))
    BY <1>1 DEF WellFormed, String, Field
  <2>3. QED
    BY <2>1, <2>2
<1>3. CASE c \notin BindResponses /\ c = SubmitResponse
  <2>1. L = <<String("messageId", "messageId")>>
    BY <1>3 DEF SmscLayout
  <2>2. WellFormed(String("messageId", "messageId"))
    BY <1>1 DEF WellFormed, String, Field
  <2>3. QED
    BY <2>1, <2>2
<1>4. CASE c = DELIVER_SM
  <2>1. L = SmscLayout(DELIVER_SM)
    BY <1>4
  <2>2. DOMAIN L = 1..Len(L)
    <3>1. c \notin BindResponses /\ c # SubmitResponse
      BY <1>4, CommandsDiffer
    <3>2. Len(WrittenSubmitSm) = 18
      BY WrittenSubmitSmIs
    <3> DEFINE W == WrittenSubmitSm
    <3>3. L = [i \in 1..Len(W) |-> IF W[i].name \in {"scheduleDeliveryTime", "validityPeriod"}
                                  THEN String(W[i].name, "dateTime") ELSE W[i]]
      BY <1>4, <3>1 DEF SmscLayout
    <3>4. DOMAIN L = 1..18
      BY <3>2, <3>3
    <3>5. Len(L) = 18
      BY <2>1, SmscDeliverIs
    <3>6. QED
      BY <3>4, <3>5
  <2>3. /\ Len(L) = 18
        /\ Is(L[1], "string", "serviceType", MaxLen["serviceType"])
        /\ Is(L[2], "integer", "sourceTon", 1)
        /\ Is(L[3], "integer", "sourceNpi", 1)
        /\ Is(L[4], "string", "source", MaxLen["address"])
        /\ Is(L[5], "integer", "destinationTon", 1)
        /\ Is(L[6], "integer", "destinationNpi", 1)
        /\ Is(L[7], "string", "destination", MaxLen["address"])
        /\ Is(L[8], "integer", "esmClass", 1)
        /\ Is(L[9], "integer", "protocolId", 1)
        /\ Is(L[10], "integer", "priority", 1)
        /\ Is(L[11], "string", "scheduleDeliveryTime", MaxLen["dateTime"])
        /\ Is(L[12], "string", "validityPeriod", MaxLen["dateTime"])
        /\ Is(L[13], "integer", "registeredDelivery", 1)
        /\ Is(L[14], "integer", "replaceIfPresent", 1)
        /\ Is(L[15], "integer", "dataCoding", 1)
        /\ Is(L[16], "integer", "defaultMessageId", 1)
        /\ Is(L[17], "integer", "messageLength", 1)
        /\ Is(L[18], "binary", "message", 0)
    BY <2>1, SmscDeliverIs
  <2>4. /\ MaxLen["serviceType"] \in Nat /\ MaxLen["serviceType"] > 0
        /\ MaxLen["address"] \in Nat /\ MaxLen["address"] > 0
        /\ MaxLen["dateTime"] \in Nat /\ MaxLen["dateTime"] > 0
    BY <1>1
  <2>5. \A k \in {1, 4, 7, 11, 12} : WellFormed(L[k])
    BY <2>3, <2>4 DEF Is, WellFormed
  <2>6. \A k \in {2, 3, 5, 6, 8, 9, 10, 13, 14, 15, 16, 17} : WellFormed(L[k])
    BY <2>3 DEF Is, WellFormed
  <2>7. WellFormed(L[18])
    BY <2>3 DEF Is, WellFormed
  <2>8. \A k \in 1..18 : \/ k \in {1, 4, 7, 11, 12} \/ k = 18
                         \/ k \in {2, 3, 5, 6, 8, 9, 10, 13, 14, 15, 16, 17}
    OBVIOUS
  <2>9. QED
    BY <2>2, <2>3, <2>5, <2>6, <2>7, <2>8
<1>5. CASE c \notin BindResponses /\ c # SubmitResponse /\ c # DELIVER_SM
  <2>1. L = <<>>
    BY <1>5 DEF SmscLayout
  <2>2. QED
    BY <2>1
<1>6. QED
  BY <1>2, <1>3, <1>4, <1>5

\* The octets of an allowed field.
LEMMA AllowedOctets ==
  ASSUME NEW f, WellFormed(f), NEW fields, FieldAllowed(f, fields)
  PROVE  /\ OctetsOf(f, fields[f.name]) \in Seq(Octet)
         /\ f.kind = "string" => /\ fields[f.name] \in Seq(Octet \ {0})
                                 /\ OctetsOf(f, fields[f.name]) = Append(fields[f.name], 0)
<1> DEFINE v == fields[f.name]
           o == OctetsOf(f, v)
<1>1. CASE f.kind = "integer" /\ f.len = 1
  <2>1. v \in Nat
    BY <1>1, OctetAssumption DEF FieldAllowed, Octet
  <2>2. f.len \in Nat
    BY <1>1
  <2>3. Writable(f, v)
    BY <1>1, <2>1, <2>2, IntegerWritable
  <2>4. QED
    BY <1>1, <2>3 DEF Writable
<1>2. CASE f.kind = "string" /\ f.len \in Nat /\ f.len > 0
  <2> DEFINE len == f.len
  <2>1. v \in Seq(Octet \ {0}) /\ Len(v) < len /\ v # NULL /\ len \in Nat /\ len > 0
    BY <1>2 DEF FieldAllowed
  <2>2. Text(v) /\ TextOf(v) = v
    BY <2>1 DEF Text, TextOf
  <2>3. o = as_smpp_serialize_string(v, len)
    BY <1>2 DEF OctetsOf
  <2> HIDE DEF v, o, len
  <2>4. /\ as_smpp_serialize_string(v, len) \in Seq(Octet)
        /\ v = NULL \/ Len(v) < len => as_smpp_serialize_string(v, len) = Append(TextOf(v), 0)
    BY <2>1, <2>2, StringOctets
  <2>5. o \in Seq(Octet) /\ o = Append(v, 0)
    BY <2>1, <2>2, <2>3, <2>4
  <2>6. QED
    BY <2>1, <2>5 DEF v, o
<1>3. CASE f.kind = "binary"
  <2>1. o = v /\ v \in Seq(Octet)
    BY <1>3 DEF OctetsOf, FieldAllowed
  <2>2. QED
    BY <1>3, <2>1
<1>4. QED
  BY <1>1, <1>2, <1>3 DEF WellFormed

\* The octets of all fields of a PDU that has a body.
LEMMA FieldOctetsAre ==
  ASSUME NEW p \in Pdus, p.hasBody, NEW F, F = Pieces(SmscLayout(p.commandId), p.fields)
  PROVE  /\ F \in Seq(Seq(Octet)) /\ Len(F) = Len(SmscLayout(p.commandId))
         /\ \A k \in 1..Len(F) : F[k] = OctetsOf(SmscLayout(p.commandId)[k],
                                                 p.fields[SmscLayout(p.commandId)[k].name])
         /\ FieldOctets(p) = FlattenSeq(F)
         /\ FieldOctets(p) \in Seq(Octet)
<1> DEFINE L == SmscLayout(p.commandId)
<1>1. /\ Len(L) \in Nat /\ DOMAIN L = 1..Len(L)
      /\ \A k \in 1..Len(L) : WellFormed(L[k])
  BY SmscWellFormed
<1>2. \A k \in 1..Len(L) : FieldAllowed(L[k], p.fields)
  BY <1>1, PduAssumption DEF Allowed
<1>3. F = [k \in 1..Len(L) |-> OctetsOf(L[k], p.fields[L[k].name])]
  BY DEF Pieces
<1>4. FieldOctets(p) = FlattenSeq(F)
  BY <1>3 DEF FieldOctets, Serialize
<1> HIDE DEF L
<1>5. \A k \in 1..Len(L) : OctetsOf(L[k], p.fields[L[k].name]) \in Seq(Octet)
  BY <1>1, <1>2, AllowedOctets
<1>6. F \in [1..Len(L) -> Seq(Octet)]
  BY <1>3, <1>5
<1>7. F \in Seq(Seq(Octet)) /\ Len(F) = Len(L)
  BY <1>1, <1>6
<1>8. FlattenSeq(F) \in Seq(Octet)
  <2>1. \E joined \in [0..Len(F) -> Seq(Octet)] : joined[Len(F)] = FlattenSeq(F)
    BY <1>7, FlattenIs
  <2>2. QED
    BY <1>1, <1>7, <2>1
<1>9. QED
  BY <1>3, <1>4, <1>7, <1>8 DEF L

\* The octets of all TLVs of a PDU.
LEMMA AllTlvOctetsAre ==
  ASSUME NEW p \in Pdus
  PROVE  /\ p.tlvs \in Seq(Tlv) /\ \A i \in 1..Len(p.tlvs) : TlvFits(p.tlvs[i])
         /\ TlvPieces(p.tlvs) \in Seq(Seq(Octet))
         /\ AllTlvOctets(p.tlvs) = FlattenSeq(TlvPieces(p.tlvs))
         /\ AllTlvOctets(p.tlvs) \in Seq(Octet)
<1> DEFINE tlvs == p.tlvs
           F == TlvPieces(tlvs)
<1>1. tlvs \in Seq(Tlv)
  BY PduAssumption DEF Allowed, Tlv
<1>2. \A i \in DOMAIN tlvs : TlvFits(tlvs[i])
  BY PduAssumption DEF Allowed, TlvFits
<1>3. AllTlvOctets(tlvs) = FlattenSeq(F)
  BY DEF AllTlvOctets, TlvPieces
<1> HIDE DEF tlvs
<1>4. Len(tlvs) \in Nat /\ DOMAIN tlvs = 1..Len(tlvs) /\ \A i \in 1..Len(tlvs) : tlvs[i] \in Tlv
  BY <1>1
<1>5. \A i \in 1..Len(tlvs) : TlvOctets(tlvs[i]) \in Seq(Octet)
  BY <1>4, TlvOctetsAre
<1>6. F \in [1..Len(tlvs) -> Seq(Octet)]
  BY <1>5 DEF TlvPieces
<1>7. F \in Seq(Seq(Octet))
  BY <1>4, <1>6
<1> HIDE DEF F
<1>8. FlattenSeq(F) \in Seq(Octet)
  <2>1. \E joined \in [0..Len(F) -> Seq(Octet)] : joined[Len(F)] = FlattenSeq(F)
    BY <1>7, FlattenIs
  <2>2. Len(F) \in Nat
    BY <1>7
  <2>3. QED
    BY <2>1, <2>2
<1>9. QED
  BY <1>1, <1>2, <1>3, <1>4, <1>7, <1>8 DEF tlvs, F

\* The body of a PDU.
LEMMA BodyOctetsAre ==
  ASSUME NEW p \in Pdus
  PROVE  /\ BodyOctets(p) \in Seq(Octet)
         /\ p.hasBody => BodyOctets(p) = FieldOctets(p) \o AllTlvOctets(p.tlvs)
<1>1. CASE p.hasBody
  <2>1. BodyOctets(p) = FieldOctets(p) \o AllTlvOctets(p.tlvs)
    BY <1>1 DEF BodyOctets
  <2>2. FieldOctets(p) \in Seq(Octet)
    BY <1>1, FieldOctetsAre
  <2>3. AllTlvOctets(p.tlvs) \in Seq(Octet)
    BY AllTlvOctetsAre
  <2>4. QED
    BY <2>1, <2>2, <2>3, Concatenated
<1>2. CASE ~p.hasBody
  BY <1>2 DEF BodyOctets
<1>3. QED
  BY <1>1, <1>2

\* What the worker reads in the header of a PDU.
HeaderOf(p) ==
  [commandLength |-> Len(WireOctets(p)), commandId |-> p.commandId, status |-> p.status,
   sequenceNo |-> p.sequenceNo]

\* Four numbers and a rest, one behind the other.
HeaderAndRest(w, a, b, c, d, e) ==
  /\ w \in Seq(Octet) /\ Len(w) = HeaderLen + Len(e)
  /\ \A ptr : Len(ptr) \in Nat /\ Holds(ptr, 0, w) =>
       HeaderHeld(ptr, a, b, c, d) /\ Holds(ptr, HeaderLen, e)

\* Four numbers of the width of a header, and what follows them, are held one by one.
LEMMA HeaderHoldsAll ==
  ASSUME NEW a \in Nat, NEW b \in Nat, NEW c \in Nat, NEW d \in Nat, NEW e \in Seq(Octet),
         NEW w, w = as_smpp_serialize_integer(a, Width) \o as_smpp_serialize_integer(b, Width)
                      \o as_smpp_serialize_integer(c, Width)
                      \o as_smpp_serialize_integer(d, Width) \o e
  PROVE  HeaderAndRest(w, a, b, c, d, e)
<1> DEFINE A == as_smpp_serialize_integer(a, Width)
           B1 == as_smpp_serialize_integer(b, Width)
           C == as_smpp_serialize_integer(c, Width)
           D == as_smpp_serialize_integer(d, Width)
           AB == A \o B1
           ABC == AB \o C
           ABCD == ABC \o D
<1>1. Width \in Nat
  BY OctetAssumption
<1>2. A \in Seq(Octet) /\ Len(A) = Width
  BY <1>1, IntegerOctets
<1>3. B1 \in Seq(Octet) /\ Len(B1) = Width
  BY <1>1, IntegerOctets
<1>4. C \in Seq(Octet) /\ Len(C) = Width
  BY <1>1, IntegerOctets
<1>5. D \in Seq(Octet) /\ Len(D) = Width
  BY <1>1, IntegerOctets
<1>6. w = ABCD \o e
  OBVIOUS
<1> HIDE DEF A, B1, C, D
<1>7. AB \in Seq(Octet) /\ Len(AB) = Width + Width
  <2>1. AB \in Seq(Octet) /\ Len(AB) = Len(A) + Len(B1)
    BY <1>2, <1>3, Concatenated
  <2>2. QED
    BY <1>2, <1>3, <2>1
<1>8. \A ptr : Len(ptr) \in Nat /\ Holds(ptr, 0, AB) =>
          Holds(ptr, 0, A) /\ Holds(ptr, 0 + Len(A), B1)
  <2> DEFINE zero == 0
  <2>1. zero \in Nat
    OBVIOUS
  <2> HIDE DEF zero
  <2>2. \A ptr : Len(ptr) \in Nat /\ Holds(ptr, zero, A \o B1) =>
          Holds(ptr, zero, A) /\ Holds(ptr, zero + Len(A), B1)
    BY <1>2, <1>3, <2>1, HoldsBoth
  <2>3. QED
    BY <2>2 DEF zero
<1> HIDE DEF AB
<1>9. ABC \in Seq(Octet) /\ Len(ABC) = Width + Width + Width
  <2>1. ABC \in Seq(Octet) /\ Len(ABC) = Len(AB) + Len(C)
    BY <1>4, <1>7, Concatenated
  <2>2. QED
    BY <1>4, <1>7, <2>1
<1>10. \A ptr : Len(ptr) \in Nat /\ Holds(ptr, 0, ABC) =>
           Holds(ptr, 0, AB) /\ Holds(ptr, 0 + Len(AB), C)
  <2> DEFINE zero == 0
  <2>1. zero \in Nat
    OBVIOUS
  <2> HIDE DEF zero
  <2>2. \A ptr : Len(ptr) \in Nat /\ Holds(ptr, zero, AB \o C) =>
          Holds(ptr, zero, AB) /\ Holds(ptr, zero + Len(AB), C)
    BY <1>4, <1>7, <2>1, HoldsBoth
  <2>3. QED
    BY <2>2 DEF zero
<1> HIDE DEF ABC
<1>11. ABCD \in Seq(Octet) /\ Len(ABCD) = Width + Width + Width + Width
  <2>1. ABC \in Seq(Octet) /\ D \in Seq(Octet)
    BY <1>5, <1>9
  <2> HIDE DEF D
  <2>3. ABCD \in Seq(Octet) /\ Len(ABCD) = Len(ABC) + Len(D)
    BY ONLY <2>1, Concatenated
  <2>2. QED
    BY <1>5, <1>9, <2>3
<1>12. \A ptr : Len(ptr) \in Nat /\ Holds(ptr, 0, ABCD) =>
         Holds(ptr, 0, ABC) /\ Holds(ptr, 0 + Len(ABC), D)
  <2> DEFINE zero == 0
  <2>1. zero \in Nat
    OBVIOUS
  <2> HIDE DEF zero
  <2>2. \A ptr : Len(ptr) \in Nat /\ Holds(ptr, zero, ABC \o D) =>
          Holds(ptr, zero, ABC) /\ Holds(ptr, zero + Len(ABC), D)
    BY <1>5, <1>9, <2>1, HoldsBoth
  <2>3. QED
    BY <2>2 DEF zero
<1> HIDE DEF ABCD
<1>13. w \in Seq(Octet) /\ Len(w) = Len(ABCD) + Len(e)
  BY <1>6, <1>11, Concatenated
<1>14. \A ptr : Len(ptr) \in Nat /\ Holds(ptr, 0, w) =>
         Holds(ptr, 0, ABCD) /\ Holds(ptr, 0 + Len(ABCD), e)
  <2> DEFINE zero == 0
  <2>1. zero \in Nat
    OBVIOUS
  <2> HIDE DEF zero
  <2>2. \A ptr : Len(ptr) \in Nat /\ Holds(ptr, zero, ABCD \o e) =>
          Holds(ptr, zero, ABCD) /\ Holds(ptr, zero + Len(ABCD), e)
    BY <1>11, <2>1, HoldsBoth
  <2>3. QED
    BY <1>6, <2>2 DEF zero
<1>15. /\ 0 + Len(A) = Width /\ 0 + Len(AB) = 2 * Width /\ 0 + Len(ABC) = 3 * Width
       /\ 0 + Len(ABCD) = HeaderLen /\ Len(ABCD) = HeaderLen
  BY <1>1, <1>2, <1>7, <1>9, <1>11 DEF HeaderLen
<1>16. ASSUME NEW ptr, Len(ptr) \in Nat, Holds(ptr, 0, w)
       PROVE  HeaderHeld(ptr, a, b, c, d) /\ Holds(ptr, HeaderLen, e)
  <2>1. Holds(ptr, 0, ABCD) /\ Holds(ptr, HeaderLen, e)
    BY <1>14, <1>15, <1>16
  <2>2. Holds(ptr, 0, ABC) /\ Holds(ptr, 3 * Width, D)
    BY <1>12, <1>15, <1>16, <2>1
  <2>3. Holds(ptr, 0, AB) /\ Holds(ptr, 2 * Width, C)
    BY <1>10, <1>15, <1>16, <2>2
  <2>4. Holds(ptr, 0, A) /\ Holds(ptr, Width, B1)
    BY <1>8, <1>15, <1>16, <2>3
  <2>5. QED
    BY <2>1, <2>2, <2>3, <2>4 DEF HeaderHeld, A, B1, C, D
<1>17. QED
  BY <1>13, <1>15, <1>16 DEF HeaderAndRest

\* The octets of a PDU, and what the worker finds in its header.
LEMMA WireRead ==
  ASSUME NEW p \in Pdus
  PROVE  /\ WireOctets(p) \in Seq(Octet)
         /\ Len(WireOctets(p)) = HeaderLen + Len(BodyOctets(p))
         /\ \A ptr : Len(ptr) \in Nat /\ Holds(ptr, 0, WireOctets(p)) =>
              /\ as_smpp_deserialize_pdu_header(ptr) = HeaderOf(p)
              /\ Holds(ptr, HeaderLen, BodyOctets(p))
<1> DEFINE body == BodyOctets(p)
           a == HeaderLen + Len(body)
           b == p.commandId
           c == p.status
           d == p.sequenceNo
           w == WireOctets(p)
<1>1. body \in Seq(Octet)
  BY BodyOctetsAre
<1>2. a \in Nat
  BY <1>1, CommandsDiffer
<1>3. /\ b \in Nat /\ c \in Nat /\ d \in Nat /\ Len(w) \in Nat
      /\ FitsIn(b, Width) /\ FitsIn(c, Width) /\ FitsIn(d, Width) /\ FitsIn(Len(w), Width)
  BY PduAssumption DEF Allowed
<1>4. w = as_smpp_serialize_integer(a, Width) \o as_smpp_serialize_integer(b, Width)
            \o as_smpp_serialize_integer(c, Width) \o as_smpp_serialize_integer(d, Width) \o body
  BY DEF WireOctets
<1>5. HeaderOf(p) = [commandLength |-> Len(w), commandId |-> b, status |-> c, sequenceNo |-> d]
  BY DEF HeaderOf
<1> HIDE DEF body, b, c, d, w
<1>6. a = HeaderLen + Len(body)
  OBVIOUS
<1> HIDE DEF a
<1>7. /\ w \in Seq(Octet) /\ Len(w) = HeaderLen + Len(body)
      /\ \A ptr : Len(ptr) \in Nat /\ Holds(ptr, 0, w) =>
           HeaderHeld(ptr, a, b, c, d) /\ Holds(ptr, HeaderLen, body)
  <2>1. HeaderAndRest(w, a, b, c, d, body)
    BY <1>1, <1>2, <1>3, <1>4, HeaderHoldsAll
  <2>2. QED
    BY <2>1 DEF HeaderAndRest
<1>8. ASSUME NEW ptr, Len(ptr) \in Nat, Holds(ptr, 0, w)
      PROVE  as_smpp_deserialize_pdu_header(ptr) = HeaderOf(p) /\ Holds(ptr, HeaderLen, body)
  <2>1. HeaderHeld(ptr, a, b, c, d) /\ Holds(ptr, HeaderLen, body)
    BY <1>7, <1>8
  <2>2. a = Len(w) /\ FitsIn(a, Width)
    BY <1>3, <1>6, <1>7
  <2>3. as_smpp_deserialize_pdu_header(ptr) =
          [commandLength |-> a, commandId |-> b, status |-> c, sequenceNo |-> d]
    BY <1>2, <1>3, <2>1, <2>2, HeaderRead
  <2>4. QED
    BY <1>5, <2>1, <2>2, <2>3
<1>9. QED
  BY <1>7, <1>8 DEF body, w

\* A deliver_sm of the SMSC is read as it was written.
LEMMA DeliverMatches ==
  ASSUME NEW p \in Pdus, p.commandId = DELIVER_SM
  PROVE  p.hasBody /\ Matches(SmscLayout(DELIVER_SM), ReadSubmitSm, p.fields)
<1> DEFINE W == SmscLayout(DELIVER_SM)
           R == ReadSubmitSm
           v == p.fields
<1>1. /\ Len(W) = 18
      /\ Is(W[1], "string", "serviceType", MaxLen["serviceType"])
      /\ Is(W[2], "integer", "sourceTon", 1)
      /\ Is(W[3], "integer", "sourceNpi", 1)
      /\ Is(W[4], "string", "source", MaxLen["address"])
      /\ Is(W[5], "integer", "destinationTon", 1)
      /\ Is(W[6], "integer", "destinationNpi", 1)
      /\ Is(W[7], "string", "destination", MaxLen["address"])
      /\ Is(W[8], "integer", "esmClass", 1)
      /\ Is(W[9], "integer", "protocolId", 1)
      /\ Is(W[10], "integer", "priority", 1)
      /\ Is(W[11], "string", "scheduleDeliveryTime", MaxLen["dateTime"])
      /\ Is(W[12], "string", "validityPeriod", MaxLen["dateTime"])
      /\ Is(W[13], "integer", "registeredDelivery", 1)
      /\ Is(W[14], "integer", "replaceIfPresent", 1)
      /\ Is(W[15], "integer", "dataCoding", 1)
      /\ Is(W[16], "integer", "defaultMessageId", 1)
      /\ Is(W[17], "integer", "messageLength", 1)
      /\ Is(W[18], "binary", "message", 0)
  BY SmscDeliverIs
<1>2. /\ Len(R) = 18
      /\ Is(R[1], "string", "serviceType", MaxLen["serviceType"])
      /\ Is(R[2], "integer", "sourceTon", 1)
      /\ Is(R[3], "integer", "sourceNpi", 1)
      /\ Is(R[4], "string", "source", MaxLen["address"])
      /\ Is(R[5], "integer", "destinationTon", 1)
      /\ Is(R[6], "integer", "destinationNpi", 1)
      /\ Is(R[7], "string", "destination", MaxLen["address"])
      /\ Is(R[8], "integer", "esmClass", 1)
      /\ Is(R[9], "integer", "protocolId", 1)
      /\ Is(R[10], "integer", "priority", 1)
      /\ Is(R[11], "datetime", "scheduleDeliveryTime", MaxLen["dateTime"])
      /\ Is(R[12], "datetime", "validityPeriod", MaxLen["dateTime"])
      /\ Is(R[13], "integer", "registeredDelivery", 1)
      /\ Is(R[14], "flag", "replaceIfPresent", 1)
      /\ Is(R[15], "integer", "dataCoding", 1)
      /\ Is(R[16], "integer", "defaultMessageId", 1)
      /\ Is(R[17], "integer", "messageLength", 1)
      /\ Is(R[18], "binary", "message", 0)
  BY ReadSubmitSmIs
<1>3. p.hasBody
  BY CommandsDiffer, PduAssumption DEF Allowed
<1>4. \A k \in 1..18 : FieldAllowed(W[k], v)
  <2>1. DOMAIN W = 1..18
    <3> HIDE DEF W
    <3>1. W = SmscLayout(DELIVER_SM)
      BY DEF W
    <3>2. QED
      BY <1>1, <3>1, SmscWellFormed
  <2>2. QED
    BY <1>3, <2>1, PduAssumption DEF Allowed
<1> HIDE DEF W, R, v
<1>5. \A k \in 1..18 : R[k].name = W[k].name
  BY <1>1, <1>2 DEF Is
<1>6. \A j, k \in 1..18 : R[j].name = R[k].name => j = k
  <2>1. \A k \in 1..18 : R[k].name = WrittenSubmitSm[k].name
    BY <1>2, WrittenSubmitSmIs DEF Is
  <2>2. QED
    BY <2>1, NamesDiffer
<1>7. \A k \in {1, 4, 7, 11, 12} : Pair(W[k], R[k], v[W[k].name])
  <2>1. \A k \in {1, 4, 7, 11, 12} : W[k].kind = "string" /\ W[k].len \in Nat /\ W[k].len > 0
    BY <1>1, StringAssumption DEF Is
  <2>2. \A k \in {1, 4, 7, 11, 12} : R[k].kind \in {"string", "datetime"}
    BY <1>2 DEF Is
  <2>3. ASSUME NEW k \in {1, 4, 7, 11, 12} PROVE Pair(W[k], R[k], v[W[k].name])
    <3>1. v[W[k].name] \in Seq(Octet \ {0}) /\ Len(v[W[k].name]) < W[k].len
      <4>1. FieldAllowed(W[k], v) /\ W[k].kind = "string"
        BY <1>4, <2>1
      <4>2. QED
        BY <4>1 DEF FieldAllowed
    <3>2. QED
      BY <2>1, <2>2, <3>1 DEF Pair, Text
  <2>4. QED
    BY <2>3
<1>8. \A k \in {2, 3, 5, 6, 8, 9, 10, 13, 14, 15, 16, 17} :
        W[k].kind = "integer" /\ W[k].len = 1 /\ v[W[k].name] \in Octet
  <2>1. \A k \in {2, 3, 5, 6, 8, 9, 10, 13, 14, 15, 16, 17} : W[k].kind = "integer" /\ W[k].len = 1
    BY <1>1 DEF Is
  <2>2. ASSUME NEW k \in {2, 3, 5, 6, 8, 9, 10, 13, 14, 15, 16, 17} PROVE v[W[k].name] \in Octet
    <3>1. FieldAllowed(W[k], v) /\ W[k].kind = "integer"
      BY <1>4, <2>1
    <3>2. QED
      BY <3>1 DEF FieldAllowed
  <2>3. QED
    BY <2>1, <2>2
<1>9. \A k \in {2, 3, 5, 6, 8, 9, 10, 13, 14, 15, 16, 17} : Pair(W[k], R[k], v[W[k].name])
  <2>1. \A k \in {2, 3, 5, 6, 8, 9, 10, 13, 15, 16, 17} : R[k].kind = "integer" /\ R[k].len = 1
    BY <1>2 DEF Is
  <2>2. R[14].kind = "flag"
    BY <1>2 DEF Is
  <2>3. ASSUME NEW k \in {2, 3, 5, 6, 8, 9, 10, 13, 14, 15, 16, 17}
        PROVE Pair(W[k], R[k], v[W[k].name])
    <3>1. W[k].kind = "integer" /\ W[k].len = 1 /\ v[W[k].name] \in Nat
      BY <1>8, OctetFits
    <3>2. \/ R[k].kind = "integer" /\ R[k].len = 1
          \/ R[k].kind = "flag"
      BY <2>1, <2>2
    <3>3. QED
      BY <3>1, <3>2 DEF Pair
  <2>4. QED
    BY <2>3
<1>10. /\ Pair(W[18], R[18], v[W[18].name])
       /\ FitsIn(v["messageLength"], W[17].len) /\ v["messageLength"] = Len(v[R[18].name])
  <2>1. R[18].kind = "binary" /\ W[18].kind = "binary" /\ R[18].name = W[18].name
        /\ W[17].name = "messageLength" /\ W[17].len = 1
    BY <1>1, <1>2 DEF Is
  <2>2. v[W[18].name] \in Seq(Octet) /\ v["messageLength"] = Len(v[W[18].name])
    BY <1>4, <2>1 DEF FieldAllowed
  <2>3. v[W[17].name] \in Octet
    BY <1>8
  <2>4. FitsIn(v["messageLength"], 1)
    BY <2>1, <2>3, OctetFits
  <2>5. QED
    BY <2>1, <2>2, <2>4 DEF Pair
<1>11. \A k \in 1..18 : Pair(W[k], R[k], v[W[k].name])
  <2>1. \A k \in 1..18 : \/ k \in {1, 4, 7, 11, 12} \/ k = 18
                         \/ k \in {2, 3, 5, 6, 8, 9, 10, 13, 14, 15, 16, 17}
    OBVIOUS
  <2>2. QED
    BY <1>7, <1>9, <1>10, <2>1
<1>12. \A k \in 1..18 : R[k].kind = "binary" => k = 18
  BY <1>2 DEF Is
<1>13. R[17].name = "messageLength" /\ R[17].kind = "integer" /\ 17 \in 1..(18 - 1)
  BY <1>2 DEF Is
<1>14. \A k \in 1..Len(W) : R[k].kind = "binary" =>
         \E j \in 1..(k - 1) :
           /\ R[j].name = "messageLength" /\ R[j].kind = "integer"
           /\ FitsIn(v["messageLength"], W[j].len)
           /\ v["messageLength"] = Len(v[R[k].name])
  BY <1>1, <1>10, <1>12, <1>13
<1>15. Matches(W, R, v)
  <2>1. Len(W) = 18 /\ Len(R) = 18
    BY <1>1, <1>2
  <2>2. \A k \in 1..Len(W) : R[k].name = W[k].name /\ Pair(W[k], R[k], v[W[k].name])
    BY <1>5, <1>11, <2>1
  <2>3. \A j, k \in 1..Len(W) : R[j].name = R[k].name => j = k
    BY <1>6, <2>1
  <2>4. Len(W) \in Nat /\ Len(R) = Len(W)
    BY <2>1
  <2>5. QED
    BY <1>14, <2>2, <2>3, <2>4 DEF Matches
<1>16. QED
  BY <1>3, <1>15 DEF W, R, v

\* Where the fields and the TLVs of a PDU are in a memory that begins with it.
LEMMA BodyPlaced ==
  ASSUME NEW p \in Pdus, p.hasBody, NEW ptr, Len(ptr) \in Nat, Holds(ptr, 0, WireOctets(p)),
         NEW F, F = Pieces(SmscLayout(p.commandId), p.fields),
         NEW mid, mid = HeaderLen + Len(FieldOctets(p))
  PROVE  /\ mid \in Nat /\ Len(WireOctets(p)) \in Nat
         /\ Len(WireOctets(p)) = mid + Len(AllTlvOctets(p.tlvs))
         /\ Placed(ptr, HeaderLen, F, mid)
         /\ Placed(ptr, mid, TlvPieces(p.tlvs), Len(WireOctets(p)))
<1> DEFINE a == FieldOctets(p)
           b == AllTlvOctets(p.tlvs)
           T == TlvPieces(p.tlvs)
           h == HeaderLen
<1>1. a \in Seq(Octet) /\ a = FlattenSeq(F) /\ F \in Seq(Seq(Octet))
  BY FieldOctetsAre
<1>2. b \in Seq(Octet) /\ b = FlattenSeq(T) /\ T \in Seq(Seq(Octet))
  BY AllTlvOctetsAre
<1>3. BodyOctets(p) = a \o b
  BY BodyOctetsAre
<1>4. Holds(ptr, h, a \o b) /\ Len(WireOctets(p)) = h + Len(BodyOctets(p))
  BY <1>3, WireRead
<1>5. h \in Nat
  BY CommandsDiffer
<1> HIDE DEF a, b, T, h
<1>6. Len(a \o b) = Len(a) + Len(b) /\ Len(a) \in Nat /\ Len(b) \in Nat
  BY <1>1, <1>2, Concatenated
<1>7. Holds(ptr, h, a) /\ Holds(ptr, h + Len(a), b)
  BY <1>1, <1>2, <1>4, <1>5, HoldsBoth
<1>8. Placed(ptr, h, F, h + Len(a))
  BY <1>1, <1>5, <1>7, FlattenPlaced
<1> DEFINE m == h + Len(a)
<1>9. m \in Nat
  BY <1>5, <1>6
<1>10. m = mid
  BY DEF a, h
<1> HIDE DEF m
<1>11. Holds(ptr, m, FlattenSeq(T))
  BY <1>2, <1>7 DEF m
<1>12. Placed(ptr, m, T, m + Len(b))
  BY <1>2, <1>9, <1>11, FlattenPlaced
<1>13. Len(WireOctets(p)) = m + Len(b)
  BY <1>3, <1>4, <1>5, <1>6 DEF m
<1>14. Placed(ptr, h, F, mid)
  BY <1>8, <1>10 DEF m
<1>15. Placed(ptr, mid, T, Len(WireOctets(p)))
  BY <1>10, <1>12, <1>13
<1>16. mid \in Nat /\ Len(WireOctets(p)) = mid + Len(b) /\ Len(WireOctets(p)) \in Nat
  BY <1>6, <1>9, <1>10, <1>13
<1>17. QED
  BY <1>14, <1>15, <1>16 DEF b, T, h

\* The dates: what the reader keeps of them is not their text.
Dates == {"scheduleDeliveryTime", "validityPeriod"}

\* The values of a deliver_sm are those that the SMSC wrote, the dates left out.
AsSent(value, p) ==
  \A name \in DOMAIN value \ Dates :
    value[name] = IF name = "replaceIfPresent" THEN p.fields[name] = 1 ELSE p.fields[name]

\* The body of a deliver_sm is read to its end, as the SMSC wrote it.
LEMMA DeliverRead ==
  ASSUME NEW p \in Pdus, p.commandId = DELIVER_SM, NEW ptr \in Seq(Octet),
         Holds(ptr, 0, WireOctets(p)), NEW u,
         NEW d, d = Deserialize(ReadSubmitSm, ptr, HeaderLen, u)
  PROVE  d.index = HeaderLen + Len(FieldOctets(p)) /\ AsSent(d.value, p)
<1> DEFINE W == SmscLayout(DELIVER_SM)
           R == ReadSubmitSm
           v == p.fields
           h == HeaderLen
           mid == HeaderLen + Len(FieldOctets(p))
<1>1. p.hasBody /\ Matches(W, R, v)
  BY DeliverMatches
<1>2. h \in Nat
  BY CommandsDiffer
<1>3. Placed(ptr, h, Pieces(W, v), mid)
  BY <1>1, BodyPlaced
<1>4. d = Deserialize(R, ptr, h, u)
  OBVIOUS
<1>5. Len(W) = 18 /\ \A k \in 1..18 : R[k].kind = "string" => W[k].kind = "string"
  BY SmscDeliverIs, ReadSubmitSmIs, SMTT(40) DEF Is
<1>6. /\ \A k \in 1..18 : R[k].kind \in {"integer", "flag", "string", "datetime", "binary"}
      /\ \A k \in 1..18 : R[k].kind = "datetime" <=> R[k].name \in Dates
      /\ \A k \in 1..18 : R[k].kind = "flag" <=> R[k].name = "replaceIfPresent"
  <2>1. \A k \in 1..18 : R[k].kind \in {"integer", "flag", "string", "datetime", "binary"}
    BY ReadSubmitSmIs, SMTT(40) DEF Is
  <2>2. \A k \in 1..18 : R[k].kind = "flag" <=> k = 14
    BY ReadSubmitSmIs, SMTT(40) DEF Is
  <2>3. \A k \in 1..18 : R[k].kind = "datetime" <=> k \in {11, 12}
    BY ReadSubmitSmIs, SMTT(40) DEF Is
  <2>4. \A k \in 1..18 : R[k].name \in Dates <=> k \in {11, 12}
    <3>1. R[11].name \in Dates /\ R[12].name \in Dates
      BY ReadSubmitSmIs DEF Is, Dates
    <3>2. \A k \in 1..18 \ {11, 12} : R[k].name \notin Dates
      <4>1. \A k \in 1..6 : R[k].name \notin Dates
        BY ReadSubmitSmIs DEF Is, Dates
      <4>2. \A k \in 7..10 : R[k].name \notin Dates
        BY ReadSubmitSmIs DEF Is, Dates
      <4>3. \A k \in 13..18 : R[k].name \notin Dates
        BY ReadSubmitSmIs DEF Is, Dates
      <4>4. \A k \in 1..18 \ {11, 12} : k \in 1..6 \/ k \in 7..10 \/ k \in 13..18
        OBVIOUS
      <4> HIDE DEF R
      <4>5. QED
        BY <4>1, <4>2, <4>3, <4>4
    <3>3. QED
      BY <3>1, <3>2
  <2>5. \A k \in 1..18 : R[k].name = "replaceIfPresent" <=> k = 14
    BY ReadSubmitSmIs, SMTT(40) DEF Is
  <2> HIDE DEF R
  <2>6. QED
    BY <2>1, <2>2, <2>3, <2>4, <2>5
<1>7. \A k \in 1..18 : FieldAllowed(W[k], v) /\ (W[k].kind = "integer" => W[k].len = 1)
  <2>1. DOMAIN W = 1..18
    BY <1>5, SmscWellFormed
  <2>2. \A k \in 1..18 : FieldAllowed(W[k], v)
    BY <1>1, <2>1, PduAssumption DEF Allowed
  <2>3. \A k \in 1..18 : W[k].kind = "integer" => W[k].len = 1
    BY SmscDeliverIs, SMTT(40) DEF Is
  <2>4. QED
    BY <2>2, <2>3
<1> HIDE DEF W, R, v, h, mid
<1>8. LayoutIsRead(W, R, v, mid, d)
  BY <1>1, <1>2, <1>3, <1>4, LayoutRead
<1>9. d.index = mid /\ AllRead(W, R, 18, v, d.value)
  BY <1>5, <1>8 DEF LayoutIsRead
<1>10. \A k \in 1..18 : R[k].name = W[k].name /\ Pair(W[k], R[k], v[W[k].name])
  BY <1>1, <1>5 DEF Matches
<1>11. ASSUME NEW name \in DOMAIN d.value \ Dates
       PROVE  d.value[name] = IF name = "replaceIfPresent" THEN v[name] = 1 ELSE v[name]
  <2>1. PICK k \in 1..18 : name = R[k].name
    BY <1>9 DEF AllRead
  <2>2. ReadAs(W[k], R[k], v[name], d.value[name])
    BY <1>9, <2>1 DEF AllRead
  <2>3. FieldAllowed(W[k], v) /\ W[k].name = name /\ Pair(W[k], R[k], v[name])
    BY <1>7, <1>10, <2>1
  <2>4. R[k].kind \in {"integer", "flag", "string", "binary"}
    BY <1>6, <2>1
  <2>5. name = "replaceIfPresent" <=> R[k].kind = "flag"
    BY <1>6, <2>1
  <2>6. CASE R[k].kind \in {"integer", "flag"}
    <3>1. W[k].kind = "integer" /\ (R[k].kind = "flag" => W[k].len = 1)
      BY <2>3, <2>6 DEF Pair
    <3>2. v[name] \in Octet
      BY <2>3, <3>1 DEF FieldAllowed
    <3>3. W[k].len = 1
      BY <1>7, <3>1
    <3>4. FitsIn(v[name], W[k].len)
      BY <3>2, <3>3, OctetFits
    <3>5. QED
      BY <2>2, <2>5, <2>6, <3>4 DEF ReadAs
  <2>7. CASE R[k].kind = "string"
    <3>1. W[k].kind = "string"
      BY <1>5, <2>7
    <3>2. v[name] # NULL
      BY <2>3 DEF FieldAllowed
    <3>3. QED
      BY <2>2, <2>5, <2>7, <3>1, <3>2 DEF ReadAs, TextOf
  <2>8. CASE R[k].kind = "binary"
    BY <2>2, <2>5, <2>8 DEF ReadAs
  <2>9. QED
    BY <2>4, <2>6, <2>7, <2>8
<1>12. QED
  BY <1>9, <1>11 DEF AsSent, v, mid

\* The TLVs of a PDU are read up to its last octet.
LEMMA TlvsOfPdu ==
  ASSUME NEW p \in Pdus, p.hasBody, NEW ptr \in Seq(Octet), Holds(ptr, 0, WireOctets(p)),
         NEW r, r = as_smpp_deserialize_tlv(ptr, HeaderLen + Len(FieldOctets(p)),
                                            Len(WireOctets(p)))
  PROVE  r.value = p.tlvs /\ r.index = Len(WireOctets(p))
<1> DEFINE mid == HeaderLen + Len(FieldOctets(p))
           end == Len(WireOctets(p))
           tlvs == p.tlvs
           F == Pieces(SmscLayout(p.commandId), p.fields)
<1>1. mid \in Nat /\ end \in Nat /\ Placed(ptr, mid, TlvPieces(tlvs), end)
  <2>1. F = Pieces(SmscLayout(p.commandId), p.fields)
    OBVIOUS
  <2> HIDE DEF F
  <2>2. Len(ptr) \in Nat
    OBVIOUS
  <2>3. QED
    BY <2>1, <2>2, BodyPlaced
<1>2. tlvs \in Seq(Tlv) /\ \A i \in 1..Len(tlvs) : TlvFits(tlvs[i])
  BY AllTlvOctetsAre
<1>3. r = as_smpp_deserialize_tlv(ptr, mid, end)
  OBVIOUS
<1> HIDE DEF mid, end, tlvs
<1>4. r.value = tlvs /\ r.index = end
  BY <1>1, <1>2, <1>3, TlvsRead
<1>5. QED
  BY <1>4 DEF tlvs, end

\* A PDU without fields ends, but for its TLVs, with its header.
LEMMA NoFieldsRead ==
  ASSUME NEW p \in Pdus, p.hasBody, SmscLayout(p.commandId) = <<>>,
         NEW ptr, Len(ptr) \in Nat, Holds(ptr, 0, WireOctets(p))
  PROVE  HeaderLen = Len(WireOctets(p)) - Len(AllTlvOctets(p.tlvs))
<1> DEFINE F == Pieces(SmscLayout(p.commandId), p.fields)
           mid == HeaderLen + Len(FieldOctets(p))
           t == Len(AllTlvOctets(p.tlvs))
<1>1. mid \in Nat /\ Len(WireOctets(p)) = mid + t /\ Placed(ptr, HeaderLen, F, mid)
  BY BodyPlaced
<1>2. Len(F) = 0
  BY DEF Pieces
<1>3. t \in Nat /\ HeaderLen \in Nat
  BY AllTlvOctetsAre, CommandsDiffer
<1> HIDE DEF F, mid, t
<1>4. HeaderLen = mid
  BY <1>1, <1>2 DEF Placed
<1>5. QED
  BY <1>1, <1>3, <1>4 DEF t

\* The string of a response is read as it was written.
LEMMA ResponseRead ==
  ASSUME NEW p \in Pdus, p.hasBody, p.commandId \in BindResponses \union {SubmitResponse},
         NEW ptr \in Seq(Octet), Holds(ptr, 0, WireOctets(p)),
         NEW r, r = as_smpp_deserialize_string(ptr, HeaderLen)
  PROVE  /\ r.index = Len(WireOctets(p)) - Len(AllTlvOctets(p.tlvs))
         /\ p.commandId = SubmitResponse => r.value = p.fields["messageId"]
<1> DEFINE L == SmscLayout(p.commandId)
           F == Pieces(L, p.fields)
           h == HeaderLen
           mid == HeaderLen + Len(FieldOctets(p))
           t == Len(AllTlvOctets(p.tlvs))
           s == p.fields[L[1].name]
<1>1. mid \in Nat /\ Len(WireOctets(p)) = mid + t /\ Placed(ptr, h, F, mid)
  BY BodyPlaced
<1>2. t \in Nat /\ h \in Nat
  BY AllTlvOctetsAre, CommandsDiffer
<1>3. \/ L = <<String("systemId", "systemId")>>
      \/ L = <<String("messageId", "messageId")>>
  BY DEF SmscLayout
<1>4. p.commandId = SubmitResponse => L = <<String("messageId", "messageId")>>
  BY CommandsDiffer DEF SmscLayout
<1>5. Len(L) = 1 /\ DOMAIN L = {1} /\ L[1].kind = "string"
  BY <1>3 DEF String, Field
<1>6. WellFormed(L[1])
  BY <1>5, SmscWellFormed
<1>7. FieldAllowed(L[1], p.fields)
  BY <1>5, PduAssumption DEF Allowed
<1>8. s \in Seq(Octet \ {0}) /\ OctetsOf(L[1], s) = Append(s, 0)
  BY <1>5, <1>6, <1>7, AllowedOctets
<1>9. Len(F) = 1 /\ F[1] = OctetsOf(L[1], s)
  BY <1>5 DEF Pieces
<1>10. p.commandId = SubmitResponse => s = p.fields["messageId"]
  BY <1>4 DEF String, Field
<1>11. r = as_smpp_deserialize_string(ptr, h)
  OBVIOUS
<1> HIDE DEF L, F, h, mid, t, s
<1>12. Len(F[1]) = Len(s) + 1 /\ Len(s) \in Nat
  BY <1>8, <1>9
<1>13. Holds(ptr, h, Append(s, 0)) /\ mid = h + Len(F[1])
  <2>1. PICK place : Places(place, ptr, h, F, mid)
    BY <1>1 DEF Placed, Places
  <2>2. place[0] = h /\ place[1] = mid
    BY <1>9, <2>1 DEF Places
  <2>3. place[1] = place[0] + Len(F[1]) /\ Holds(ptr, place[0], F[1])
    <3>1. 1 \in 1..Len(F) /\ 1 - 1 = 0
      BY <1>9
    <3>2. QED
      BY <2>1, <3>1 DEF Places
  <2>4. QED
    BY <1>8, <1>9, <2>2, <2>3
<1>14. r = [value |-> s, index |-> h + Len(s) + 1]
  BY <1>2, <1>8, <1>11, <1>13, StringRead
<1>15. r.index = mid /\ r.value = s
  BY <1>2, <1>12, <1>13, <1>14
<1>16. QED
  BY <1>1, <1>2, <1>10, <1>15 DEF t

\* The header that the library writes.
LEMMA HeaderWritten ==
  ASSUME NEW a \in Nat, NEW b \in Nat, NEW c \in Nat, NEW d \in Nat,
         NEW h, h = as_smpp_serialize_pdu_header(a, b, c, d)
  PROVE  h \in Seq(Octet) /\ Len(h) = HeaderLen /\ HeaderHeld(h, a, b, c, d)
<1> DEFINE A == as_smpp_serialize_integer(a, Width)
           B1 == as_smpp_serialize_integer(b, Width)
           C == as_smpp_serialize_integer(c, Width)
           D == as_smpp_serialize_integer(d, Width)
<1>1. Width \in Nat
  BY OctetAssumption
<1>2. A \in Seq(Octet) /\ Len(A) = Width
  BY <1>1, IntegerOctets
<1>3. B1 \in Seq(Octet) /\ Len(B1) = Width
  BY <1>1, IntegerOctets
<1>4. C \in Seq(Octet) /\ Len(C) = Width
  BY <1>1, IntegerOctets
<1>5. D \in Seq(Octet) /\ Len(D) = Width
  BY <1>1, IntegerOctets
<1>6. h = A \o B1 \o C \o D
  BY DEF as_smpp_serialize_pdu_header
<1> HIDE DEF A, B1, C, D
<1>7. A \in Seq(Octet) /\ B1 \in Seq(Octet) /\ C \in Seq(Octet) /\ D \in Seq(Octet)
  BY <1>2, <1>3, <1>4, <1>5
<1>8. h \in Seq(Octet)
  <2>1. A \o B1 \in Seq(Octet)
    BY ONLY <1>7, Concatenated
  <2>2. A \o B1 \o C \in Seq(Octet)
    BY ONLY <1>7, <2>1, Concatenated
  <2>3. A \o B1 \o C \o D \in Seq(Octet)
    BY ONLY <1>7, <2>2, Concatenated
  <2>4. QED
    BY <1>6, <2>3
<1>9. Parts(h, A, B1, C, D)
  BY ONLY <1>6, <1>7, FourParts
<1>10. Len(h) = Width + Width + Width + Width
  BY <1>2, <1>3, <1>4, <1>5, <1>9 DEF Parts
<1>11. Len(h) = 4 * Width
  BY <1>1, <1>10
<1>12. Holds(h, 0, A) /\ Holds(h, Width, B1) /\ Holds(h, 2 * Width, C) /\ Holds(h, 3 * Width, D)
  <2>1. \A i \in 1..Width : h[0 + i] = A[i]
    BY <1>1, <1>2, <1>9 DEF Parts
  <2>2. \A i \in 1..Width : h[Width + i] = B1[i]
    BY <1>1, <1>2, <1>3, <1>9 DEF Parts
  <2>3. \A i \in 1..Width : h[2 * Width + i] = C[i]
    <3>1. Width + Width = 2 * Width
      BY <1>1
    <3>2. QED
      BY <1>2, <1>3, <1>4, <1>9, <3>1 DEF Parts
  <2>4. \A i \in 1..Width : h[3 * Width + i] = D[i]
    <3>1. Width + Width + Width = 3 * Width
      BY <1>1
    <3>2. QED
      BY <1>2, <1>3, <1>4, <1>5, <1>9, <3>1 DEF Parts
  <2>5. /\ 0 + Width <= Len(h) /\ Width + Width <= Len(h) /\ 2 * Width + Width <= Len(h)
        /\ 3 * Width + Width <= Len(h)
    BY <1>1, <1>11
  <2>6. QED
    BY <1>2, <1>3, <1>4, <1>5, <2>1, <2>2, <2>3, <2>4, <2>5 DEF Holds
<1>13. QED
  BY <1>8, <1>11, <1>12 DEF HeaderHeld, HeaderLen, A, B1, C, D

\* The length is written over the first field of a PDU, and the rest is left.
LEMMA PatchedRead ==
  ASSUME NEW octets \in Seq(Octet), HeaderLen <= Len(octets), FitsIn(Len(octets), Width),
         NEW a \in Nat, NEW b \in Nat, NEW c \in Nat, NEW d \in Nat,
         FitsIn(b, Width), FitsIn(c, Width), FitsIn(d, Width),
         HeaderHeld(octets, a, b, c, d), NEW w, w = Patched(octets)
  PROVE  /\ w \in Seq(Octet)
         /\ as_smpp_deserialize_pdu_header(w) =
              [commandLength |-> Len(w), commandId |-> b, status |-> c, sequenceNo |-> d]
<1> DEFINE n == Len(octets)
           A == as_smpp_serialize_integer(n, Width)
           B1 == as_smpp_serialize_integer(b, Width)
           C == as_smpp_serialize_integer(c, Width)
           D == as_smpp_serialize_integer(d, Width)
           rest == SubSeq(octets, Width + 1, n)
<1>1. Width \in Nat /\ Width > 0 /\ n \in Nat /\ 4 * Width <= n
  BY OctetAssumption DEF HeaderLen
<1>2. A \in Seq(Octet) /\ Len(A) = Width
  BY <1>1, IntegerOctets
<1>3. Len(B1) = Width
  BY <1>1, IntegerOctets
<1>4. Len(C) = Width
  BY <1>1, IntegerOctets
<1>5. Len(D) = Width
  BY <1>1, IntegerOctets
<1>6. w = A \o rest
  BY DEF Patched
<1>7. /\ rest \in Seq(Octet) /\ Len(rest) = n - Width
      /\ \A i \in 1..(n - Width) : rest[i] = octets[Width + i]
  BY <1>1
<1>8. Holds(octets, Width, B1) /\ Holds(octets, 2 * Width, C) /\ Holds(octets, 3 * Width, D)
  BY DEF HeaderHeld
<1> HIDE DEF A, B1, C, D, rest
<1>9. w \in Seq(Octet) /\ Len(w) = Len(A) + Len(rest)
  BY ONLY <1>2, <1>6, <1>7, Concatenated
<1>10. Len(w) = n
  BY <1>1, <1>2, <1>7, <1>9
<1>11. /\ \A i \in 1..Len(A) : w[i] = A[i]
       /\ \A i \in 1..Len(rest) : w[Len(A) + i] = rest[i]
  BY ONLY <1>2, <1>6, <1>7, Elements
<1>12. \A i \in (Width + 1)..n : w[i] = octets[i]
  <2>1. ASSUME NEW i \in (Width + 1)..n PROVE w[i] = octets[i]
    <3>1. i - Width \in 1..(n - Width) /\ Width + (i - Width) = i
      BY <1>1
    <3>2. QED
      BY <1>2, <1>7, <1>11, <3>1
  <2>2. QED
    BY <2>1
<1>13. Holds(w, 0, A)
  BY <1>1, <1>2, <1>10, <1>11 DEF Holds
<1>14. Holds(w, Width, B1)
  <2>1. Width + Len(B1) <= Len(w) /\ \A i \in 1..Len(B1) : Width + i \in (Width + 1)..n
    BY <1>1, <1>3, <1>10
  <2>2. \A i \in 1..Len(B1) : w[Width + i] = octets[Width + i]
    BY <1>12, <2>1
  <2>3. QED
    BY <1>8, <2>1, <2>2, HoldsMoved
<1>15. Holds(w, 2 * Width, C)
  <2>1. 2 * Width + Len(C) <= Len(w) /\ \A i \in 1..Len(C) : 2 * Width + i \in (Width + 1)..n
    BY <1>1, <1>4, <1>10
  <2>2. \A i \in 1..Len(C) : w[2 * Width + i] = octets[2 * Width + i]
    BY <1>12, <2>1
  <2>3. QED
    BY <1>8, <2>1, <2>2, HoldsMoved
<1>16. Holds(w, 3 * Width, D)
  <2>1. 3 * Width + Len(D) <= Len(w) /\ \A i \in 1..Len(D) : 3 * Width + i \in (Width + 1)..n
    BY <1>1, <1>5, <1>10
  <2>2. \A i \in 1..Len(D) : w[3 * Width + i] = octets[3 * Width + i]
    BY <1>12, <2>1
  <2>3. QED
    BY <1>8, <2>1, <2>2, HoldsMoved
<1>17. HeaderHeld(w, n, b, c, d)
  BY <1>13, <1>14, <1>15, <1>16 DEF HeaderHeld, A, B1, C, D
<1>18. n \in Nat /\ FitsIn(n, Width)
  BY <1>1
<1> HIDE DEF n
<1>19. as_smpp_deserialize_pdu_header(w) =
         [commandLength |-> n, commandId |-> b, status |-> c, sequenceNo |-> d]
  BY <1>17, <1>18, HeaderRead
<1>20. QED
  BY <1>9, <1>10, <1>19

\* An answer of the library: an octet behind the header, or none.
AnswerTo(answer, sequenceNo) ==
  as_smpp_deserialize_pdu_header(answer) =
    [commandLength |-> Len(answer), commandId |-> ENQUIRE_LINK + RESPONSE_FLAG,
     status |-> ROK, sequenceNo |-> sequenceNo]

\* The answers can be read by the SMSC.
LEMMA AnswerRead ==
  ASSUME NEW no \in Nat, FitsIn(no, Width),
         NEW h, h = as_smpp_serialize_pdu_header(0, ENQUIRE_LINK + RESPONSE_FLAG, ROK, no),
         NEW octets, \/ octets = h
                     \/ octets = h \o as_smpp_serialize_string(NULL, MaxLen["messageId"]),
         NEW w, w = Patched(octets)
  PROVE  w \in Seq(Octet) /\ AnswerTo(w, no)
<1> DEFINE zero == 0
           id == ENQUIRE_LINK + RESPONSE_FLAG
           tail == as_smpp_serialize_string(NULL, MaxLen["messageId"])
<1>1. Width \in Nat /\ Base \in Nat /\ Base > 1 /\ HeaderLen \in Nat
  BY OctetAssumption DEF HeaderLen
<1>2. zero \in Nat /\ id \in Nat /\ FitsIn(id, Width)
  BY CommandAssumption DEF ENQUIRE_LINK
<1>3. FitsIn(zero, Width)
  <2> HIDE DEF zero, id
  <2>1. zero <= id
    BY <1>2 DEF zero
  <2>2. QED
    BY <1>1, <1>2, <2>1, SmallerFits
<1>4. zero = ROK /\ h = as_smpp_serialize_pdu_header(zero, id, zero, no)
  BY DEF ROK
<1>5. tail = <<0>> /\ 0 \in Octet
  BY ZeroOctet DEF as_smpp_serialize_string
<1> HIDE DEF zero, id, tail
<1>6. h \in Seq(Octet) /\ Len(h) = HeaderLen /\ HeaderHeld(h, zero, id, zero, no)
  BY ONLY <1>2, <1>4, HeaderWritten
<1>7. tail \in Seq(Octet) /\ Len(tail) = 1
  BY <1>5
<1>8. /\ octets \in Seq(Octet) /\ HeaderLen <= Len(octets) /\ Len(octets) <= HeaderLen + 1
      /\ HeaderHeld(octets, zero, id, zero, no)
  <2>1. CASE octets = h
    BY <1>1, <1>6, <2>1
  <2>2. CASE octets = h \o tail
    <3>1. octets \in Seq(Octet) /\ Len(octets) = Len(h) + Len(tail)
      BY ONLY <1>6, <1>7, <2>2, Concatenated
    <3>2. \A i \in 1..Len(h) : octets[i] = h[i]
      BY ONLY <1>6, <1>7, <2>2, Elements
    <3>3. Len(octets) = HeaderLen + 1 /\ Len(h) <= Len(octets) /\ Len(h) \in Nat
          /\ Len(octets) \in Nat /\ Len(h) = 4 * Width
      BY <1>1, <1>6, <1>7, <3>1 DEF HeaderLen
    <3>4. ASSUME NEW at \in Nat, at + Width <= 4 * Width, NEW o, Len(o) = Width, Holds(h, at, o)
          PROVE  Holds(octets, at, o)
      <4>1. Len(o) \in Nat /\ at + Len(o) <= Len(h)
        BY <1>1, <3>3, <3>4
      <4>2. QED
        BY <3>2, <3>3, <3>4, <4>1, StillHolds
    <3>5. /\ Len(as_smpp_serialize_integer(zero, Width)) = Width
          /\ Len(as_smpp_serialize_integer(id, Width)) = Width
          /\ Len(as_smpp_serialize_integer(no, Width)) = Width
      BY <1>1, <1>2, IntegerOctets
    <3>6. /\ 0 \in Nat /\ Width \in Nat /\ 2 * Width \in Nat /\ 3 * Width \in Nat
          /\ 0 + Width <= 4 * Width /\ Width + Width <= 4 * Width
          /\ 2 * Width + Width <= 4 * Width /\ 3 * Width + Width <= 4 * Width
      BY <1>1
    <3>7. HeaderHeld(octets, zero, id, zero, no)
      BY <1>6, <3>4, <3>5, <3>6 DEF HeaderHeld
    <3>8. QED
      BY <1>1, <3>1, <3>3, <3>7
  <2>3. QED
    BY <2>1, <2>2 DEF tail
<1>9. FitsIn(Len(octets), Width)
  <2> DEFINE most == HeaderLen + 18 * Base
             n == Len(octets)
  <2>1. most \in Nat /\ n \in Nat /\ n <= most
    BY <1>1, <1>8
  <2>2. FitsIn(most, Width)
    BY LengthAssumption
  <2> HIDE DEF most, n
  <2>3. FitsIn(n, Width)
    BY <1>1, <2>1, <2>2, SmallerFits
  <2>4. QED
    BY <2>3 DEF n
<1>10. /\ w \in Seq(Octet)
       /\ as_smpp_deserialize_pdu_header(w) =
            [commandLength |-> Len(w), commandId |-> id, status |-> zero, sequenceNo |-> no]
  BY <1>2, <1>3, <1>8, <1>9, PatchedRead
<1>11. QED
  BY <1>4, <1>10 DEF AnswerTo, id

\* The members of T among the first n numbers.
Upto(T, n) == {k \in 1..n : k \in T}

\* They are finitely many, one more if the next number is a member.
LEMMA Counted ==
  ASSUME NEW T, NEW n \in Nat
  PROVE  /\ IsFiniteSet(Upto(T, n)) /\ Cardinality(Upto(T, n)) \in Nat
         /\ n + 1 \notin T => Upto(T, n + 1) = Upto(T, n)
         /\ n + 1 \in T => /\ Upto(T, n + 1) = Upto(T, n) \union {n + 1}
                           /\ Cardinality(Upto(T, n + 1)) = Cardinality(Upto(T, n)) + 1
<1> DEFINE U == Upto(T, n)
<1>1. IsFiniteSet(1..n)
  BY FS_Interval
<1>2. U \subseteq 1..n
  BY DEF Upto
<1>3. IsFiniteSet(U)
  BY <1>1, <1>2, FS_Subset
<1>4. Cardinality(U) \in Nat
  BY <1>3, FS_CardinalityType
<1>5. n + 1 \notin T => Upto(T, n + 1) = U
  BY DEF Upto
<1>6. n + 1 \in T => Upto(T, n + 1) = U \union {n + 1}
  BY DEF Upto
<1>7. n + 1 \notin U
  BY <1>2
<1> HIDE DEF U
<1>8. Cardinality(U \union {n + 1}) = Cardinality(U) + 1
  BY <1>3, <1>7, FS_AddElement
<1>9. QED
  BY <1>3, <1>4, <1>5, <1>6, <1>8 DEF U

\* The count grows, and at every member it grows by it.
LEMMA CountGrows ==
  ASSUME NEW T, NEW m \in Nat, NEW n \in Nat, m <= n
  PROVE  /\ Cardinality(Upto(T, m)) <= Cardinality(Upto(T, n))
         /\ m < n /\ n \in T => Cardinality(Upto(T, m)) < Cardinality(Upto(T, n))
<1>1. ASSUME NEW k \in Nat, m <= k
      PROVE  Cardinality(Upto(T, m)) <= Cardinality(Upto(T, k))
  <2>1. Upto(T, m) \subseteq Upto(T, k)
    BY <1>1 DEF Upto
  <2>2. IsFiniteSet(Upto(T, k))
    BY Counted
  <2>3. QED
    BY <2>1, <2>2, FS_Subset
<1>2. ASSUME m < n, n \in T PROVE Cardinality(Upto(T, m)) < Cardinality(Upto(T, n))
  <2> DEFINE k == n - 1
  <2>1. k \in Nat /\ m <= k /\ n = k + 1
    BY <1>2
  <2> HIDE DEF k
  <2>2. Cardinality(Upto(T, m)) <= Cardinality(Upto(T, k))
    BY <1>1, <2>1
  <2>3. /\ Cardinality(Upto(T, k)) \in Nat
        /\ Cardinality(Upto(T, k + 1)) = Cardinality(Upto(T, k)) + 1
    BY <1>2, <2>1, Counted
  <2>4. Cardinality(Upto(T, m)) \in Nat
    BY Counted
  <2>5. QED
    BY <2>1, <2>2, <2>3, <2>4
<1>3. QED
  BY <1>1, <1>2

\* A member of T has a number between 1 and the count of those up to it.
LEMMA Numbered ==
  ASSUME NEW T, NEW n \in Nat, NEW k \in Upto(T, n)
  PROVE  /\ k \in Nat /\ k \in 1..n /\ k \in T
         /\ Cardinality(Upto(T, k)) \in 1..Cardinality(Upto(T, n))
<1>1. k \in Nat /\ k > 0 /\ k <= n /\ k \in T
  BY DEF Upto
<1> DEFINE zero == 0
           a == Cardinality(Upto(T, k))
           b == Cardinality(Upto(T, n))
           z == Cardinality(Upto(T, zero))
<1>2. zero \in Nat /\ zero < k
  BY <1>1
<1> HIDE DEF zero
<1>3. z \in Nat /\ a \in Nat /\ b \in Nat
  BY <1>1, <1>2, Counted
<1>4. z < a /\ a <= b
  <2>1. zero <= k
    BY <1>1, <1>2
  <2>2. z < a
    BY <1>1, <1>2, <2>1, CountGrows
  <2>3. a <= b
    BY <1>1, CountGrows
  <2>4. QED
    BY <2>2, <2>3
<1> HIDE DEF a, b, z
<1>5. a \in 1..b
  BY <1>3, <1>4
<1>6. QED
  BY <1>1, <1>5 DEF a, b

\* At the end of a log of things, one more.
LEMMA LogGrows ==
  ASSUME NEW S, NEW log \in Seq(S), NEW x, NEW more, more = Append(log, x)
  PROVE  /\ more \in Seq(S \union {x})
         /\ Len(more) = Len(log) + 1
         /\ \A i \in 1..Len(log) : more[i] = log[i]
         /\ more[Len(log) + 1] = x
<1>1. log \in Seq(S \union {x})
  <2>1. Len(log) \in Nat /\ log \in [1..Len(log) -> S]
    OBVIOUS
  <2>2. log \in [1..Len(log) -> S \union {x}]
    BY <2>1
  <2>3. QED
    BY <2>1, <2>2
<1>2. QED
  BY <1>1

\* The PDUs whose handler is set, and those that are requests to be answered.
ForHandlers(s, h) == {k \in Nat : HandlerFor(s[k]) \in h}
ForAnswer(s) == {k \in Nat : s[k].commandId \in {ENQUIRE_LINK, DELIVER_SM}}

\* The calls are those for the first n PDUs of s.
CallsFor(log, s, h, n) ==
  /\ Len(log) = Cardinality(Upto(ForHandlers(s, h), n))
  /\ \A k \in Upto(ForHandlers(s, h), n) :
       Delivered(log[Cardinality(Upto(ForHandlers(s, h), k))], s[k])

\* The answers are those to the first n PDUs of s.
AnswersFor(log, s, n) ==
  /\ Len(log) = Cardinality(Upto(ForAnswer(s), n))
  /\ \A k \in Upto(ForAnswer(s), n) :
       AnswerTo(log[Cardinality(Upto(ForAnswer(s), k))], s[k].sequenceNo)

\* The state that the response to a bind leaves.
BoundWith(commandId, st) ==
  \/ commandId = RESPONSE_FLAG + BIND_RECEIVER /\ st = "BOUND_RX"
  \/ commandId = RESPONSE_FLAG + BIND_TRANSMITTER /\ st = "BOUND_TX"
  \/ commandId = RESPONSE_FLAG + BIND_TRANSCEIVER /\ st = "BOUND_TRX"

\* The state is that of the last bind among the first n PDUs of s.
BoundAfter(st, s, n) ==
  \A k \in 1..n :
    HandlerFor(s[k]) = "bind" /\ (\A j \in (k + 1)..n : HandlerFor(s[j]) # "bind") =>
      BoundWith(s[k].commandId, st)

\* A PDU whose handler is called adds its call to the log, another adds none.
LEMMA CallsGrow ==
  ASSUME NEW S, NEW log \in Seq(S), NEW s, NEW h, NEW n \in Nat, CallsFor(log, s, h, n),
         NEW x, HandlerFor(s[n + 1]) \in h => Delivered(x, s[n + 1]), NEW more,
         more = IF HandlerFor(s[n + 1]) \in h THEN Append(log, x) ELSE log
  PROVE  CallsFor(more, s, h, n + 1)
<1> DEFINE T == ForHandlers(s, h)
           m == n + 1
<1>1. m \in Nat /\ m = n + 1
  OBVIOUS
<1>2. n + 1 \in T <=> HandlerFor(s[n + 1]) \in h
  BY <1>1 DEF ForHandlers
<1>3. /\ Len(log) = Cardinality(Upto(T, n))
      /\ \A k \in Upto(T, n) : Delivered(log[Cardinality(Upto(T, k))], s[k])
  BY DEF CallsFor
<1> HIDE DEF T, m
<1>4. CASE n + 1 \notin T
  <2>1. Upto(T, n + 1) = Upto(T, n) /\ more = log
    BY <1>2, <1>4, Counted
  <2>2. QED
    BY <1>3, <2>1 DEF CallsFor, T
<1>5. CASE n + 1 \in T
  <2>1. /\ Upto(T, n + 1) = Upto(T, n) \union {n + 1}
        /\ Cardinality(Upto(T, n + 1)) = Cardinality(Upto(T, n)) + 1
        /\ Cardinality(Upto(T, n)) \in Nat
    BY <1>5, Counted
  <2>2. more = Append(log, x)
    BY <1>2, <1>5
  <2>3. /\ Len(more) = Len(log) + 1 /\ more[Len(log) + 1] = x
        /\ \A i \in 1..Len(log) : more[i] = log[i]
    BY ONLY log \in Seq(S), <2>2, LogGrows
  <2>4. ASSUME NEW k \in Upto(T, n) PROVE Delivered(more[Cardinality(Upto(T, k))], s[k])
    <3>1. Cardinality(Upto(T, k)) \in 1..Len(log)
      BY <1>3, Numbered
    <3>2. QED
      BY <1>3, <2>3, <3>1
  <2>5. Delivered(more[Cardinality(Upto(T, n + 1))], s[n + 1])
    BY <1>2, <1>3, <1>5, <2>1, <2>3
  <2>6. \A k \in Upto(T, n + 1) : Delivered(more[Cardinality(Upto(T, k))], s[k])
    BY <2>1, <2>4, <2>5
  <2>7. Len(more) = Cardinality(Upto(T, n + 1))
    BY <1>3, <2>1, <2>3
  <2>8. QED
    BY <2>6, <2>7 DEF CallsFor, T
<1>6. QED
  BY <1>4, <1>5

\* A request adds its answer, another PDU adds none.
LEMMA AnswersGrow ==
  ASSUME NEW S, NEW log \in Seq(S), NEW s, NEW n \in Nat, AnswersFor(log, s, n),
         NEW x, s[n + 1].commandId \in {ENQUIRE_LINK, DELIVER_SM} =>
             AnswerTo(x, s[n + 1].sequenceNo),
         NEW more,
         more = IF s[n + 1].commandId \in {ENQUIRE_LINK, DELIVER_SM} THEN Append(log, x) ELSE log
  PROVE  AnswersFor(more, s, n + 1)
<1> DEFINE T == ForAnswer(s)
<1>1. n + 1 \in T <=> s[n + 1].commandId \in {ENQUIRE_LINK, DELIVER_SM}
  BY DEF ForAnswer
<1>2. /\ Len(log) = Cardinality(Upto(T, n))
      /\ \A k \in Upto(T, n) : AnswerTo(log[Cardinality(Upto(T, k))], s[k].sequenceNo)
  BY DEF AnswersFor
<1> HIDE DEF T
<1>3. CASE n + 1 \notin T
  <2>1. Upto(T, n + 1) = Upto(T, n) /\ more = log
    BY <1>1, <1>3, Counted
  <2>2. QED
    BY <1>2, <2>1 DEF AnswersFor, T
<1>4. CASE n + 1 \in T
  <2>1. /\ Upto(T, n + 1) = Upto(T, n) \union {n + 1}
        /\ Cardinality(Upto(T, n + 1)) = Cardinality(Upto(T, n)) + 1
        /\ Cardinality(Upto(T, n)) \in Nat
    BY <1>4, Counted
  <2>2. more = Append(log, x)
    BY <1>1, <1>4
  <2>3. /\ Len(more) = Len(log) + 1 /\ more[Len(log) + 1] = x
        /\ \A i \in 1..Len(log) : more[i] = log[i]
    BY ONLY log \in Seq(S), <2>2, LogGrows
  <2>4. ASSUME NEW k \in Upto(T, n)
        PROVE  AnswerTo(more[Cardinality(Upto(T, k))], s[k].sequenceNo)
    <3>1. Cardinality(Upto(T, k)) \in 1..Len(log)
      BY <1>2, Numbered
    <3>2. QED
      BY <1>2, <2>3, <3>1
  <2>5. AnswerTo(more[Cardinality(Upto(T, n + 1))], s[n + 1].sequenceNo)
    BY <1>1, <1>2, <1>4, <2>1, <2>3
  <2>6. \A k \in Upto(T, n + 1) : AnswerTo(more[Cardinality(Upto(T, k))], s[k].sequenceNo)
    BY <2>1, <2>4, <2>5
  <2>7. Len(more) = Cardinality(Upto(T, n + 1))
    BY <1>2, <2>1, <2>3
  <2>8. QED
    BY <2>6, <2>7 DEF AnswersFor, T
<1>5. QED
  BY <1>3, <1>4

\* A bind response sets the state, another PDU leaves it.
LEMMA BoundGrows ==
  ASSUME NEW s, NEW n \in Nat, NEW st, BoundAfter(st, s, n), NEW now,
         IF HandlerFor(s[n + 1]) = "bind" THEN BoundWith(s[n + 1].commandId, now) ELSE now = st
  PROVE  BoundAfter(now, s, n + 1)
<1> SUFFICES ASSUME NEW k \in 1..(n + 1), HandlerFor(s[k]) = "bind",
                    \A j \in (k + 1)..(n + 1) : HandlerFor(s[j]) # "bind"
             PROVE  BoundWith(s[k].commandId, now)
  BY DEF BoundAfter
<1>1. CASE k = n + 1
  BY <1>1
<1>2. CASE k \in 1..n
  <2>1. n + 1 \in (k + 1)..(n + 1)
    BY <1>2
  <2>2. HandlerFor(s[n + 1]) # "bind"
    BY <2>1
  <2>3. \A j \in (k + 1)..n : HandlerFor(s[j]) # "bind"
    OBVIOUS
  <2>4. now = st
    BY <2>2
  <2>5. BoundWith(s[k].commandId, st)
    BY <1>2, <2>3 DEF BoundAfter
  <2>6. QED
    BY <2>4, <2>5
<1>3. QED
  BY <1>1, <1>2

\* What the SMSC sends later does not change what was done before.
LEMMA LogsKept ==
  ASSUME NEW s, NEW t, NEW n \in Nat, \A k \in 1..n : t[k] = s[k],
         NEW calling, NEW h, NEW answering, NEW st
  PROVE  /\ CallsFor(calling, s, h, n) => CallsFor(calling, t, h, n)
         /\ AnswersFor(answering, s, n) => AnswersFor(answering, t, n)
         /\ BoundAfter(st, s, n) => BoundAfter(st, t, n)
<1>1. \A k \in 1..n : k \in Nat /\ \A i \in 1..k : i \in 1..n
  OBVIOUS
<1>2. \A k \in 1..n : Upto(ForHandlers(t, h), k) = Upto(ForHandlers(s, h), k)
  BY <1>1 DEF Upto, ForHandlers
<1>3. Upto(ForHandlers(t, h), n) = Upto(ForHandlers(s, h), n)
  BY DEF Upto, ForHandlers
<1>4. Upto(ForHandlers(s, h), n) \subseteq 1..n
  BY DEF Upto
<1>5. CallsFor(calling, s, h, n) => CallsFor(calling, t, h, n)
  BY <1>2, <1>3, <1>4 DEF CallsFor
<1>6. \A k \in 1..n : Upto(ForAnswer(t), k) = Upto(ForAnswer(s), k)
  BY <1>1 DEF Upto, ForAnswer
<1>7. Upto(ForAnswer(t), n) = Upto(ForAnswer(s), n)
  BY DEF Upto, ForAnswer
<1>8. Upto(ForAnswer(s), n) \subseteq 1..n
  BY DEF Upto
<1>9. AnswersFor(answering, s, n) => AnswersFor(answering, t, n)
  BY <1>6, <1>7, <1>8 DEF AnswersFor
<1>10. BoundAfter(st, s, n) => BoundAfter(st, t, n)
  BY DEF BoundAfter
<1>11. QED
  BY <1>5, <1>9, <1>10

\* The PDUs that arrived and were not removed.
Behind(s, r, a) == [k \in 1..(a - r) |-> WireOctets(s[r + k])]

\* The first of them is at the beginning of the memory, and the others behind it.
LEMMA AtFront ==
  ASSUME NEW s \in Seq(Pdus), NEW r \in Nat, NEW a \in Nat, r < a, a <= Len(s),
         NEW b \in B!BufferOf(Octet), Placed(b.ptr, 0, Behind(s, r, a), b.dataLen)
  PROVE  /\ s[r + 1] \in Pdus /\ b.ptr \in Seq(Octet) /\ Len(b.ptr) \in Nat
         /\ Holds(b.ptr, 0, WireOctets(s[r + 1]))
         /\ Placed(b.ptr, Len(WireOctets(s[r + 1])), Behind(s, r + 1, a), b.dataLen)
<1> DEFINE F == Behind(s, r, a)
           T == Behind(s, r + 1, a)
           N == a - r - 1
           zero == 0
           ptr == b.ptr
           end == b.dataLen
<1>1. ptr \in Seq(Octet) /\ Len(ptr) \in Nat /\ s[r + 1] \in Pdus
  BY DEF B!BufferOf
<1>2. N \in Nat /\ a - r = N + 1 /\ a - (r + 1) = N
  OBVIOUS
<1>3. Len(F) = N + 1 /\ Len(T) = N
  BY <1>2 DEF Behind
<1>4. F[1] = WireOctets(s[r + 1])
  BY <1>2 DEF Behind
<1>5. \A k \in 1..N : T[k] = F[k + 1]
  <2>1. ASSUME NEW k \in 1..N PROVE T[k] = F[k + 1]
    <3>1. k + 1 \in 1..(a - r) /\ k \in 1..(a - (r + 1)) /\ r + 1 + k = r + (k + 1)
      BY <1>2
    <3>2. QED
      BY <3>1 DEF Behind
  <2>2. QED
    BY <2>1
<1>6. Placed(ptr, zero, F, end)
  OBVIOUS
<1>7. Len(WireOctets(s[r + 1])) \in Nat
  BY <1>1, WireRead, PduAssumption DEF Allowed
<1> HIDE DEF F, T, N, zero, ptr, end
<1>8. Placed(ptr, zero + Len(F[1]), T, end) /\ Holds(ptr, zero, F[1])
  BY <1>2, <1>3, <1>5, <1>6, PlacedTail
<1>9. zero + Len(F[1]) = Len(WireOctets(s[r + 1]))
  BY <1>4, <1>7 DEF zero
<1>10. QED
  BY <1>1, <1>4, <1>8, <1>9 DEF T, ptr, end, zero

\* The memory is used up exactly if nothing is behind.
LEMMA NothingBehind ==
  ASSUME NEW s \in Seq(Pdus), NEW r \in Nat, NEW a \in Nat, r <= a, a <= Len(s),
         NEW b \in B!BufferOf(Octet), Placed(b.ptr, 0, Behind(s, r, a), b.dataLen)
  PROVE  b.dataLen = 0 <=> r = a
<1>1. CASE r = a
  <2>1. Len(Behind(s, r, a)) = 0
    BY <1>1 DEF Behind
  <2>2. QED
    BY <1>1, <2>1 DEF Placed
<1>2. CASE r < a
  <2> DEFINE n == Len(WireOctets(s[r + 1]))
             T == Behind(s, r + 1, a)
  <2>1. s[r + 1] \in Pdus /\ Placed(b.ptr, n, T, b.dataLen)
    BY <1>2, AtFront
  <2>2. n \in Nat /\ n > 0
    <3>1. n = HeaderLen + Len(BodyOctets(s[r + 1])) /\ BodyOctets(s[r + 1]) \in Seq(Octet)
      BY <2>1, WireRead, BodyOctetsAre
    <3>2. QED
      BY <3>1, CommandsDiffer
  <2>3. Len(T) \in Nat /\ \A k \in 1..Len(T) : Len(T[k]) \in Nat
    <3>1. Len(T) = a - (r + 1) /\ a - (r + 1) \in Nat
      BY <1>2 DEF Behind
    <3>2. ASSUME NEW k \in 1..(a - (r + 1)) PROVE Len(T[k]) \in Nat
      <4>1. s[r + 1 + k] \in Pdus /\ T[k] = WireOctets(s[r + 1 + k])
        BY DEF Behind
      <4>2. WireOctets(s[r + 1 + k]) \in Seq(Octet)
        BY <4>1, WireRead
      <4>3. QED
        BY <4>1, <4>2
    <3>3. QED
      BY <3>1, <3>2
  <2> HIDE DEF n, T
  <2>4. PICK place : Places(place, b.ptr, n, T, b.dataLen)
    BY <2>1 DEF Placed, Places
  <2> DEFINE end == b.dataLen
             ptr == b.ptr
  <2>5. Places(place, ptr, n, T, end)
    BY <2>4
  <2>6. end \in Nat
    BY DEF B!BufferOf
  <2> HIDE DEF end, ptr
  <2>7. \A k \in 0..Len(T) : n <= place[k] /\ place[k] <= end
    BY <2>3, <2>5, PlacedBetween
  <2>8. n <= place[0] /\ place[0] <= end /\ place[0] = n
    BY <2>3, <2>5, <2>7 DEF Places
  <2>9. end # 0
    BY <2>2, <2>6, <2>8
  <2>10. QED
    BY <1>2, <2>9 DEF end
<1>3. QED
  BY <1>1, <1>2

\* What recv returned is behind what was there.
LEMMA Arrives ==
  ASSUME NEW s \in Seq(Pdus), NEW r \in Nat, NEW n \in Nat, n <= Len(s), r <= n,
         NEW b \in B!BufferOf(Octet), b.dataLen = 0,
         NEW c, c = B!as_smpp_buffer_copy(b, FlattenSeq(Behind(s, r, n)))
  PROVE  /\ c \in B!BufferOf(Octet)
         /\ Placed(c.ptr, 0, Behind(s, r, n), c.dataLen)
<1> DEFINE F == Behind(s, r, n)
           octets == FlattenSeq(F)
           zero == 0
<1>1. F \in Seq(Seq(Octet))
  <2>1. n - r \in Nat
    OBVIOUS
  <2>2. ASSUME NEW k \in 1..(n - r) PROVE WireOctets(s[r + k]) \in Seq(Octet)
    <3>1. s[r + k] \in Pdus
      OBVIOUS
    <3>2. QED
      BY <3>1, WireRead
  <2>3. F \in [1..(n - r) -> Seq(Octet)]
    BY <2>2 DEF Behind
  <2>4. QED
    BY <2>1, <2>3
<1> HIDE DEF F
<1>2. octets \in Seq(Octet)
  <2>1. \E joined \in [0..Len(F) -> Seq(Octet)] : joined[Len(F)] = FlattenSeq(F)
    BY <1>1, FlattenIs
  <2>2. Len(F) \in Nat
    BY <1>1
  <2>3. QED
    BY <2>1, <2>2
<1>3. c = B!as_smpp_buffer_copy(b, octets)
  BY DEF F
<1>4. octets = FlattenSeq(F)
  OBVIOUS
<1> HIDE DEF octets
<1>5. /\ c \in B!BufferOf(Octet) /\ c.dataLen = b.dataLen + Len(octets)
      /\ \A i \in 1..Len(octets) : c.ptr[b.dataLen + i] = octets[i]
  BY <1>2, <1>3, MemoryAssumption, CopyData
<1>6. Len(c.ptr) \in Nat /\ c.dataLen <= Len(c.ptr) /\ Len(octets) \in Nat
  BY <1>2, <1>5 DEF B!BufferOf
<1>7. c.dataLen = 0 + Len(octets) /\ Holds(c.ptr, 0, octets)
  BY <1>5, <1>6 DEF Holds
<1> DEFINE ptr == c.ptr
<1>8. zero \in Nat /\ Len(ptr) \in Nat /\ Holds(ptr, zero, FlattenSeq(F))
  BY <1>4, <1>6, <1>7
<1> HIDE DEF zero, ptr
<1>9. Placed(ptr, zero, F, zero + Len(FlattenSeq(F)))
  BY <1>1, <1>8, FlattenPlaced
<1>10. Placed(ptr, zero, F, c.dataLen)
  BY <1>4, <1>7, <1>9 DEF zero
<1>11. QED
  BY <1>5, <1>10 DEF zero, ptr, F

\* The first PDU is removed, and the others move to the beginning of the memory.
LEMMA Removes ==
  ASSUME NEW s \in Seq(Pdus), NEW r \in Nat, NEW a \in Nat, r < a, a <= Len(s),
         NEW b \in B!BufferOf(Octet), Placed(b.ptr, 0, Behind(s, r, a), b.dataLen),
         NEW c, c = B!as_smpp_buffer_remove(b, 0, Len(WireOctets(s[r + 1])))
  PROVE  /\ c \in B!BufferOf(Octet)
         /\ Placed(c.ptr, 0, Behind(s, r + 1, a), c.dataLen)
<1> DEFINE n == Len(WireOctets(s[r + 1]))
           T == Behind(s, r + 1, a)
           zero == 0
           p == b.ptr
           q == c.ptr
           end == b.dataLen
<1>1. s[r + 1] \in Pdus /\ Placed(p, n, T, end)
  BY AtFront
<1>2. n \in Nat
  BY <1>1, WireRead
<1>3. Len(T) \in Nat /\ \A k \in 1..Len(T) : Len(T[k]) \in Nat
  <2>1. Len(T) = a - (r + 1) /\ a - (r + 1) \in Nat
    BY DEF Behind
  <2>2. ASSUME NEW k \in 1..(a - (r + 1)) PROVE Len(T[k]) \in Nat
    <3>1. s[r + 1 + k] \in Pdus /\ T[k] = WireOctets(s[r + 1 + k])
      BY DEF Behind
    <3>2. WireOctets(s[r + 1 + k]) \in Seq(Octet)
      BY <3>1, WireRead
    <3>3. QED
      BY <3>1, <3>2
  <2>3. QED
    BY <2>1, <2>2
<1>4. c = B!as_smpp_buffer_remove(b, 0, n)
  OBVIOUS
<1> HIDE DEF n, T
<1>5. /\ c \in B!BufferOf(Octet)
      /\ c.dataLen = IF end <= n THEN 0 ELSE end - n
      /\ \A i \in 1..c.dataLen : q[i] = p[i + n]
      /\ Len(q) = Len(p)
  BY <1>2, <1>4, RemoveData
<1>6. end \in Nat /\ Len(q) \in Nat /\ c.dataLen <= Len(q)
  BY <1>5 DEF B!BufferOf
<1>7. n <= end
  <2> HIDE DEF p, end
  <2>1. PICK place : Places(place, p, n, T, end)
    BY <1>1 DEF Placed, Places
  <2>2. \A k \in 0..Len(T) : n <= place[k] /\ place[k] <= end
    BY <1>3, <2>1, PlacedBetween
  <2>3. place[0] = n /\ place[0] <= end
    BY <1>3, <2>1, <2>2 DEF Places
  <2>4. QED
    BY <2>3
<1>8. c.dataLen = end - n
  BY <1>2, <1>5, <1>6, <1>7
<1>9. zero \in Nat /\ zero + (end - n) <= Len(q) /\ zero + (end - n) = c.dataLen
  BY <1>2, <1>6, <1>7, <1>8
<1>10. \A i \in 1..(end - n) : q[zero + i] = p[n + i]
  <2>1. ASSUME NEW i \in 1..(end - n) PROVE q[zero + i] = p[n + i]
    <3>1. zero + i = i /\ n + i = i + n
      BY <1>2, <1>6
    <3>2. QED
      BY <1>5, <1>8, <3>1
  <2>2. QED
    BY <2>1
<1> HIDE DEF zero, p, q, end
<1>11. Placed(q, zero, T, zero + (end - n))
  BY <1>1, <1>3, <1>6, <1>9, <1>10, PlacedMoved
<1>12. QED
  BY <1>5, <1>9, <1>11 DEF zero, q, T

-----------------------------------------------------------------------------
(***************************************************************************)
(* The invariant of Dispatch.  The memory begins with the PDUs that        *)
(* arrived and were not removed; the header is that of the first of them   *)
(* while the worker is at it; index is where the code has read to; and the *)
(* calls, the state and the answers are those for the PDUs that are done.  *)
(***************************************************************************)
\* The points at which the worker has a PDU whose header it read.
Busy == {"dispatch", "tlv", "walk", "handler", "free", "answer", "remove"}

\* What arrived and was not removed lies in the memory, PDU by PDU.
Traffic ==
  /\ handlers \in HandlerSets
  /\ sent \in Seq(Pdus)
  /\ removed \in Nat /\ arrived \in Nat /\ removed <= arrived /\ arrived <= Len(sent)
  /\ receiveBuffer \in B!BufferOf(Octet)
  /\ Placed(receiveBuffer.ptr, 0, Behind(sent, removed, arrived), receiveBuffer.dataLen)

\* The worker is at a PDU that arrived, and the header it read is that of this PDU.
AtPdu ==
  /\ pc \in Busy \union {"recv", "parse"}
  /\ pc = "recv" => removed = arrived
  /\ pc \in Busy => removed < arrived /\ header = HeaderOf(Current)

\* Where the reading of a PDU ends.
EndsAt(p, i) ==
  p.hasBody /\ (HandlerFor(p) # "none" \/ p.commandId = ENQUIRE_LINK) =>
    i = Len(WireOctets(p))
          - (IF p.commandId = DELIVER_SM THEN 0 ELSE Len(AllTlvOctets(p.tlvs)))

\* How far the worker has read, and what it has read so far.
Reading ==
  /\ pc = "dispatch" => index = HeaderLen
  /\ pc = "tlv" => index = HeaderLen + Len(FieldOctets(Current))
  /\ pc \in {"tlv", "walk", "handler", "free", "answer"} => Current.commandId = DELIVER_SM
  /\ pc \in {"walk", "handler", "free", "answer"} => index = Len(WireOctets(Current))
  /\ pc = "walk" => tlv = Current.tlvs
  /\ pc \in {"tlv", "walk", "handler"} => AsSent(request, Current)
  /\ pc = "remove" => EndsAt(Current, index)

\* The number of PDUs whose handlers were called, and of those that were answered.
Done == IF pc \in {"free", "answer", "remove"} THEN removed + 1 ELSE removed
Replied == IF pc = "remove" THEN removed + 1 ELSE removed

\* Calls, answers and state are those for the PDUs that are done.
Logged ==
  /\ \E S : calls \in Seq(S)
  /\ answers \in Seq(Seq(Octet))
  /\ CallsFor(calls, sent, handlers, Done)
  /\ BoundAfter(state, sent, Done)
  /\ AnswersFor(answers, sent, Replied)

\* The inductive invariant of Dispatch.
DispatchInv == Traffic /\ AtPdu /\ Reading /\ Logged

\* No PDU, no call and no answer at the start.
LEMMA DispatchInvInit == Init => DispatchInv
<1> SUFFICES ASSUME Init PROVE DispatchInv
  OBVIOUS
<1>1. /\ handlers \in HandlerSets /\ sent = <<>> /\ arrived = 0 /\ removed = 0
      /\ receiveBuffer = B!as_smpp_buffer_init(InitCapacity)
      /\ calls = <<>> /\ answers = <<>> /\ pc = "recv"
  BY DEF Init
<1>2. receiveBuffer \in B!BufferOf(Octet) /\ receiveBuffer.dataLen = 0
  <2>1. receiveBuffer = [ptr |-> [i \in 1..InitCapacity |-> Garbage], dataLen |-> 0]
    BY <1>1 DEF B!as_smpp_buffer_init, B!Fresh
  <2> DEFINE m == [i \in 1..InitCapacity |-> Garbage]
  <2>2. m \in Seq(Octet) /\ Len(m) = InitCapacity
    BY MemoryAssumption
  <2> HIDE DEF m
  <2>3. receiveBuffer.ptr = m /\ receiveBuffer.dataLen = 0
        /\ receiveBuffer \in [ptr : Seq(Octet), dataLen : Nat]
    BY <2>1, <2>2 DEF m
  <2>4. QED
    BY <2>2, <2>3, MemoryAssumption DEF B!BufferOf
<1>3. Placed(receiveBuffer.ptr, 0, Behind(sent, removed, arrived), receiveBuffer.dataLen)
  <2> DEFINE F == Behind(sent, removed, arrived)
             place == [k \in 0..0 |-> 0]
  <2>1. Len(F) = 0
    BY <1>1 DEF Behind
  <2>2. place \in [0..0 -> Nat] /\ place[0] = 0
    OBVIOUS
  <2> HIDE DEF F, place
  <2>3. Placed(receiveBuffer.ptr, 0, F, 0)
    BY <2>1, <2>2 DEF Placed
  <2>4. QED
    BY <1>2, <2>3 DEF F
<1>4. Traffic
  BY <1>1, <1>2, <1>3 DEF Traffic
<1>5. AtPdu /\ Reading
  BY <1>1 DEF AtPdu, Reading, Busy
<1>6. \A T : Upto(T, 0) = {}
  BY DEF Upto
<1>7. Done = 0 /\ Replied = 0
  BY <1>1 DEF Done, Replied
<1>8. CallsFor(calls, sent, handlers, 0) /\ AnswersFor(answers, sent, 0)
  BY <1>1, <1>6, FS_EmptySet DEF CallsFor, AnswersFor
<1>9. BoundAfter(state, sent, 0)
  BY DEF BoundAfter
<1>10. calls \in Seq({}) /\ answers \in Seq(Seq(Octet))
  BY <1>1
<1>11. Logged
  BY <1>7, <1>8, <1>9, <1>10 DEF Logged
<1>12. QED
  BY <1>4, <1>5, <1>11 DEF DispatchInv

\* The PDU that the worker is at.
LEMMA AtCurrent ==
  ASSUME Traffic, AtPdu, pc \in Busy
  PROVE  /\ Current \in Pdus /\ header = HeaderOf(Current)
         /\ receiveBuffer.ptr \in Seq(Octet) /\ Len(receiveBuffer.ptr) \in Nat
         /\ Holds(receiveBuffer.ptr, 0, WireOctets(Current))
         /\ removed \in Nat /\ Current = sent[removed + 1]
<1>1. removed < arrived /\ header = HeaderOf(Current) /\ Current = sent[removed + 1]
  BY DEF AtPdu, Current
<1>2. /\ sent \in Seq(Pdus) /\ removed \in Nat /\ arrived \in Nat /\ arrived <= Len(sent)
      /\ receiveBuffer \in B!BufferOf(Octet)
      /\ Placed(receiveBuffer.ptr, 0, Behind(sent, removed, arrived), receiveBuffer.dataLen)
  BY DEF Traffic
<1> DEFINE s == sent
           r == removed
           a == arrived
           b == receiveBuffer
<1>3. /\ s \in Seq(Pdus) /\ r \in Nat /\ a \in Nat /\ r < a /\ a <= Len(s)
      /\ b \in B!BufferOf(Octet) /\ Placed(b.ptr, 0, Behind(s, r, a), b.dataLen)
  BY <1>1, <1>2
<1> HIDE DEF s, r, a, b
<1>4. /\ s[r + 1] \in Pdus /\ b.ptr \in Seq(Octet) /\ Len(b.ptr) \in Nat
      /\ Holds(b.ptr, 0, WireOctets(s[r + 1]))
  BY ONLY <1>3, AtFront
<1>5. QED
  BY <1>1, <1>2, <1>4 DEF s, r, b

\* A step at a PDU leaves it and the memory alone.
LEMMA SamePdu ==
  ASSUME DispatchInv, pc \in Busy, pc' \in Busy,
         UNCHANGED <<handlers, sent, arrived, removed, receiveBuffer, header>>
  PROVE  Traffic' /\ AtPdu' /\ Current' = Current
<1>1. Current' = Current
  BY DEF Current
<1>2. Traffic'
  BY DEF DispatchInv, Traffic
<1>3. AtPdu'
  <2>1. pc' # "recv"
    BY DEF Busy
  <2>2. QED
    BY <1>1, <2>1 DEF DispatchInv, AtPdu
<1>4. QED
  BY <1>1, <1>2, <1>3

\* The handlers, by the command of a PDU.
LEMMA HandlerIs ==
  ASSUME NEW p \in Pdus
  PROVE  /\ p.commandId \in Nat /\ p.status \in Nat /\ p.sequenceNo \in Nat
         /\ FitsIn(p.sequenceNo, Width)
         /\ p.commandId \in BindResponses =>
              HandlerFor(p) = "bind" /\ p.commandId \notin {ENQUIRE_LINK, DELIVER_SM}
         /\ p.commandId = SubmitResponse =>
              HandlerFor(p) = "submit" /\ p.commandId \notin {ENQUIRE_LINK, DELIVER_SM}
         /\ p.commandId = DELIVER_SM => HandlerFor(p) = "deliver"
         /\ p.commandId \notin BindResponses \union {SubmitResponse, DELIVER_SM} =>
              HandlerFor(p) = "none"
         /\ \A h \in HandlerSets : "none" \notin h
<1>1. /\ p.commandId \in Nat /\ p.status \in Nat /\ p.sequenceNo \in Nat
      /\ FitsIn(p.sequenceNo, Width)
  BY PduAssumption DEF Allowed
<1>2. \A h \in HandlerSets : "none" \notin h
  BY HandlerAssumption
<1>3. p.commandId \in BindResponses =>
        HandlerFor(p) = "bind" /\ p.commandId \notin {ENQUIRE_LINK, DELIVER_SM}
  BY CommandsDiffer DEF HandlerFor
<1>4. p.commandId = SubmitResponse =>
        HandlerFor(p) = "submit" /\ p.commandId \notin {ENQUIRE_LINK, DELIVER_SM}
  BY CommandsDiffer DEF HandlerFor
<1>5. p.commandId = DELIVER_SM => HandlerFor(p) = "deliver"
  BY CommandsDiffer DEF HandlerFor
<1>6. p.commandId \notin BindResponses \union {SubmitResponse, DELIVER_SM} =>
        HandlerFor(p) = "none"
  BY DEF HandlerFor
<1>7. QED
  BY <1>1, <1>2, <1>3, <1>4, <1>5, <1>6

\* The SMSC sends one more PDU, which nobody has seen yet.
LEMMA SmscSendStep ==
  ASSUME DispatchInv, SmscSend
  PROVE  DispatchInv'
<1>1. PICK p \in Pdus : sent' = Append(sent, p)
  BY DEF SmscSend
<1>2. /\ handlers' = handlers /\ arrived' = arrived /\ removed' = removed
      /\ receiveBuffer' = receiveBuffer /\ header' = header /\ index' = index
      /\ request' = request /\ tlv' = tlv /\ calls' = calls /\ state' = state
      /\ answers' = answers /\ pc' = pc
  BY DEF SmscSend, memory, locals, effects
<1>3. /\ handlers \in HandlerSets /\ sent \in Seq(Pdus) /\ removed \in Nat /\ arrived \in Nat
      /\ removed <= arrived /\ arrived <= Len(sent) /\ receiveBuffer \in B!BufferOf(Octet)
      /\ Placed(receiveBuffer.ptr, 0, Behind(sent, removed, arrived), receiveBuffer.dataLen)
  BY DEF DispatchInv, Traffic
<1>4. /\ sent' \in Seq(Pdus) /\ Len(sent') = Len(sent) + 1 /\ Len(sent) \in Nat
      /\ \A k \in 1..Len(sent) : sent'[k] = sent[k]
  BY <1>1, <1>3
<1>5. Behind(sent', removed, arrived) = Behind(sent, removed, arrived)
  <2>1. \A k \in 1..(arrived - removed) : removed + k \in 1..Len(sent)
    BY <1>3, <1>4
  <2>2. \A k \in 1..(arrived - removed) :
          WireOctets(sent'[removed + k]) = WireOctets(sent[removed + k])
    BY <1>4, <2>1
  <2>3. QED
    BY <2>2 DEF Behind
<1>6. Traffic'
  <2>1. arrived' <= Len(sent')
    BY <1>2, <1>3, <1>4
  <2>2. Placed(receiveBuffer'.ptr, 0, Behind(sent', removed', arrived'), receiveBuffer'.dataLen)
    BY <1>2, <1>3, <1>5
  <2>3. QED
    BY <1>2, <1>3, <1>4, <2>1, <2>2 DEF Traffic
<1>7. pc \in Busy => Current' = Current /\ removed + 1 \in 1..Len(sent)
  <2>1. pc \in Busy => removed + 1 \in 1..Len(sent)
    BY <1>3, <1>4 DEF DispatchInv, AtPdu
  <2>2. QED
    BY <1>2, <1>4, <2>1 DEF Current
<1>8. AtPdu'
  BY <1>2, <1>7 DEF DispatchInv, AtPdu
<1>9. Reading'
  <2>1. pc \notin Busy => pc \notin {"dispatch", "tlv", "walk", "handler", "free", "answer",
                                     "remove"}
    BY DEF Busy
  <2>2. CASE pc \in Busy
    BY <1>2, <1>7, <2>2 DEF DispatchInv, Reading
  <2>3. CASE pc \notin Busy
    BY <1>2, <2>1, <2>3 DEF Reading
  <2>4. QED
    BY <2>2, <2>3
<1>10. /\ Done' = Done /\ Replied' = Replied
       /\ Done \in Nat /\ Replied \in Nat /\ Done <= Len(sent) /\ Replied <= Len(sent)
  <2>1. pc \notin Busy => Done = removed /\ Replied = removed
    BY DEF Busy, Done, Replied
  <2>2. Done \in {removed, removed + 1} /\ Replied \in {removed, removed + 1}
    BY DEF Done, Replied
  <2>3. Done' = Done /\ Replied' = Replied
    BY <1>2 DEF Done, Replied
  <2>4. QED
    BY <1>3, <1>4, <1>7, <2>1, <2>2, <2>3
<1>11. Logged'
  <2>1. /\ CallsFor(calls, sent, handlers, Done) /\ BoundAfter(state, sent, Done)
        /\ AnswersFor(answers, sent, Replied)
        /\ \E S : calls \in Seq(S)
        /\ answers \in Seq(Seq(Octet))
    BY DEF DispatchInv, Logged
  <2> DEFINE s == sent
             t == sent'
             m == Done
             n == Replied
  <2>2. /\ m \in Nat /\ \A k \in 1..m : t[k] = s[k]
        /\ n \in Nat /\ \A k \in 1..n : t[k] = s[k]
    BY <1>4, <1>10
  <2>3. /\ CallsFor(calls, s, handlers, m) /\ BoundAfter(state, s, m)
        /\ AnswersFor(answers, s, n)
    BY <2>1
  <2> HIDE DEF s, t, m, n
  <2>4. CallsFor(calls, t, handlers, m) /\ BoundAfter(state, t, m)
    BY <2>2, <2>3, LogsKept
  <2>5. AnswersFor(answers, t, n)
    BY <2>2, <2>3, LogsKept
  <2>6. QED
    BY <1>2, <1>10, <2>1, <2>4, <2>5 DEF Logged, t, m, n
<1>12. QED
  BY <1>6, <1>8, <1>9, <1>11 DEF DispatchInv

\* recv returns PDUs when the memory is used up.
LEMMA ReceiveStep ==
  ASSUME DispatchInv, Receive
  PROVE  DispatchInv'
<1>1. pc = "recv" /\ pc' = "parse"
  BY DEF Receive
<1>2. PICK n \in (arrived + 1)..Len(sent) :
        /\ receiveBuffer' = B!as_smpp_buffer_copy(receiveBuffer,
             FlattenSeq([i \in 1..(n - arrived) |-> WireOctets(sent[arrived + i])]))
        /\ arrived' = n
  BY DEF Receive
<1>3. /\ handlers' = handlers /\ sent' = sent /\ removed' = removed
      /\ calls' = calls /\ state' = state /\ answers' = answers
  BY DEF Receive, environment, effects
<1>4. /\ handlers \in HandlerSets /\ sent \in Seq(Pdus) /\ removed \in Nat /\ arrived \in Nat
      /\ removed = arrived /\ arrived <= Len(sent) /\ receiveBuffer \in B!BufferOf(Octet)
      /\ Placed(receiveBuffer.ptr, 0, Behind(sent, removed, arrived), receiveBuffer.dataLen)
  BY <1>1 DEF DispatchInv, Traffic, AtPdu
<1>5. n \in Nat /\ n <= Len(sent) /\ removed <= n
  BY <1>4
<1> DEFINE s == sent
           r == removed
           b == receiveBuffer
           c == receiveBuffer'
<1>6. b.dataLen = 0
  <2> DEFINE a == arrived
  <2>1. /\ s \in Seq(Pdus) /\ r \in Nat /\ a \in Nat /\ r <= a /\ a <= Len(s) /\ r = a
        /\ b \in B!BufferOf(Octet) /\ Placed(b.ptr, 0, Behind(s, r, a), b.dataLen)
    BY <1>4
  <2> HIDE DEF s, r, a, b
  <2>2. QED
    BY ONLY <2>1, NothingBehind
<1>7. c = B!as_smpp_buffer_copy(b, FlattenSeq(Behind(s, r, n)))
  BY <1>2, <1>4 DEF Behind
<1>8. s \in Seq(Pdus) /\ r \in Nat /\ n \in Nat /\ n <= Len(s) /\ r <= n /\ b \in B!BufferOf(Octet)
  BY <1>4, <1>5
<1> HIDE DEF s, r, b, c
<1>9. c \in B!BufferOf(Octet) /\ Placed(c.ptr, 0, Behind(s, r, n), c.dataLen)
  BY ONLY <1>6, <1>7, <1>8, Arrives
<1>10. Traffic'
  BY <1>2, <1>3, <1>4, <1>5, <1>9 DEF Traffic, c, s, r
<1>11. AtPdu' /\ Reading'
  BY <1>1 DEF AtPdu, Reading, Busy
<1>12. Logged'
  BY <1>1, <1>3 DEF DispatchInv, Logged, Done, Replied
<1>13. QED
  BY <1>10, <1>11, <1>12 DEF DispatchInv

\* The inner loop ends when nothing is left.
LEMMA DrainedStep ==
  ASSUME DispatchInv, Drained
  PROVE  DispatchInv'
<1>1. pc = "parse" /\ pc' = "recv" /\ receiveBuffer.dataLen = 0
  BY DEF Drained
<1>2. /\ handlers' = handlers /\ sent' = sent /\ removed' = removed /\ arrived' = arrived
      /\ receiveBuffer' = receiveBuffer /\ calls' = calls /\ state' = state
      /\ answers' = answers
  BY DEF Drained, environment, memory, effects
<1>3. removed = arrived
  <2> DEFINE s == sent
             r == removed
             a == arrived
             b == receiveBuffer
  <2>1. /\ s \in Seq(Pdus) /\ r \in Nat /\ a \in Nat /\ r <= a /\ a <= Len(s) /\ b.dataLen = 0
        /\ b \in B!BufferOf(Octet) /\ Placed(b.ptr, 0, Behind(s, r, a), b.dataLen)
    BY <1>1 DEF DispatchInv, Traffic
  <2> HIDE DEF s, r, a, b
  <2>2. r = a
    BY ONLY <2>1, NothingBehind
  <2>3. QED
    BY <2>2 DEF r, a
<1>4. Traffic'
  BY <1>2 DEF DispatchInv, Traffic
<1>5. AtPdu' /\ Reading'
  BY <1>1, <1>2, <1>3 DEF AtPdu, Reading, Busy
<1>6. Logged'
  BY <1>1, <1>2 DEF DispatchInv, Logged, Done, Replied
<1>7. QED
  BY <1>4, <1>5, <1>6 DEF DispatchInv

\* The header that is read is that of the PDU at the beginning of the memory.
LEMMA ParseHeaderStep ==
  ASSUME DispatchInv, ParseHeader
  PROVE  DispatchInv'
<1>1. /\ pc = "parse" /\ pc' = "dispatch" /\ receiveBuffer.dataLen > 0 /\ index' = HeaderLen
      /\ header' = as_smpp_deserialize_pdu_header(receiveBuffer.ptr)
  BY DEF ParseHeader
<1>2. /\ handlers' = handlers /\ sent' = sent /\ removed' = removed /\ arrived' = arrived
      /\ receiveBuffer' = receiveBuffer /\ calls' = calls /\ state' = state
      /\ answers' = answers
  BY DEF ParseHeader, environment, memory, effects
<1> DEFINE s == sent
           r == removed
           a == arrived
           b == receiveBuffer
<1>3. /\ s \in Seq(Pdus) /\ r \in Nat /\ a \in Nat /\ r <= a /\ a <= Len(s)
      /\ b \in B!BufferOf(Octet) /\ Placed(b.ptr, 0, Behind(s, r, a), b.dataLen)
  BY DEF DispatchInv, Traffic
<1>4. b.dataLen # 0
  BY <1>1
<1> HIDE DEF s, r, a, b
<1>5. r < a
  <2>1. b.dataLen = 0 <=> r = a
    BY ONLY <1>3, NothingBehind
  <2>2. QED
    BY <1>3, <1>4, <2>1
<1>6. s[r + 1] \in Pdus /\ Len(b.ptr) \in Nat /\ Holds(b.ptr, 0, WireOctets(s[r + 1]))
  BY ONLY <1>3, <1>5, AtFront
<1>7. as_smpp_deserialize_pdu_header(b.ptr) = HeaderOf(s[r + 1])
  BY <1>6, WireRead
<1>8. Current' = s[r + 1]
  BY <1>2 DEF Current, s, r
<1>9. Traffic'
  BY <1>2 DEF DispatchInv, Traffic
<1>10. AtPdu'
  BY <1>1, <1>2, <1>5, <1>7, <1>8 DEF AtPdu, Busy, r, a, b
<1>11. Reading'
  BY <1>1 DEF Reading
<1>12. Logged'
  BY <1>1, <1>2 DEF DispatchInv, Logged, Done, Replied
<1>13. QED
  BY <1>9, <1>10, <1>11, <1>12 DEF DispatchInv

\* The worker is at the dispatch: what the last PDUs did is logged, and what this
\* one does is not.
LEMMA AtDispatch ==
  ASSUME DispatchInv, pc = "dispatch"
  PROVE  /\ Current \in Pdus /\ header = HeaderOf(Current) /\ index = HeaderLen
         /\ receiveBuffer.ptr \in Seq(Octet)
         /\ Holds(receiveBuffer.ptr, 0, WireOctets(Current))
         /\ removed \in Nat /\ Current = sent[removed + 1]
         /\ handlers \in HandlerSets /\ answers \in Seq(Seq(Octet))
         /\ CallsFor(calls, sent, handlers, removed)
         /\ BoundAfter(state, sent, removed)
         /\ AnswersFor(answers, sent, removed)
<1>1. Traffic /\ AtPdu /\ pc \in Busy
  BY DEF DispatchInv, Busy
<1>2. /\ Current \in Pdus /\ header = HeaderOf(Current)
      /\ receiveBuffer.ptr \in Seq(Octet)
      /\ Holds(receiveBuffer.ptr, 0, WireOctets(Current))
      /\ removed \in Nat /\ Current = sent[removed + 1]
  BY <1>1, AtCurrent
<1>3. index = HeaderLen
  BY DEF DispatchInv, Reading
<1>4. Done = removed /\ Replied = removed
  BY DEF Done, Replied
<1>5. /\ handlers \in HandlerSets /\ answers \in Seq(Seq(Octet))
      /\ CallsFor(calls, sent, handlers, removed) /\ BoundAfter(state, sent, removed)
      /\ AnswersFor(answers, sent, removed)
  BY <1>4 DEF DispatchInv, Traffic, Logged
<1>6. QED
  BY <1>2, <1>3, <1>5

\* The worker goes from the dispatch to the end of a PDU.
LEMMA Passes ==
  ASSUME DispatchInv, pc = "dispatch", pc' = "remove",
         UNCHANGED <<handlers, sent, arrived, removed, receiveBuffer, header>>,
         EndsAt(Current, index'), \E S : calls' \in Seq(S), answers' \in Seq(Seq(Octet)),
         CallsFor(calls', sent, handlers, removed + 1),
         BoundAfter(state', sent, removed + 1),
         AnswersFor(answers', sent, removed + 1)
  PROVE  DispatchInv'
<1>1. pc \in Busy /\ pc' \in Busy
  BY DEF Busy
<1>2. Traffic' /\ AtPdu' /\ Current' = Current
  BY <1>1, SamePdu
<1>3. Reading'
  BY <1>2 DEF Reading
<1>4. Done' = removed + 1 /\ Replied' = removed + 1
  BY DEF Done, Replied
<1>5. Logged'
  BY <1>4 DEF Logged
<1>6. QED
  BY <1>2, <1>3, <1>5 DEF DispatchInv

\* A PDU without a handler and without an answer changes nothing.
LEMMA IgnoreStep ==
  ASSUME DispatchInv, Ignore
  PROVE  DispatchInv'
<1>1. /\ pc = "dispatch" /\ pc' = "remove"
      /\ UNCHANGED <<handlers, sent, arrived, removed, receiveBuffer, header>>
      /\ index' = index /\ calls' = calls /\ state' = state /\ answers' = answers
  BY DEF Ignore, environment, memory, locals, effects
<1> DEFINE p == Current
           n == removed
<1>2. /\ p \in Pdus /\ header = HeaderOf(p) /\ n \in Nat /\ p = sent[n + 1]
      /\ handlers \in HandlerSets /\ answers \in Seq(Seq(Octet))
      /\ CallsFor(calls, sent, handlers, n) /\ BoundAfter(state, sent, n)
      /\ AnswersFor(answers, sent, n)
  BY <1>1, AtDispatch
<1> HIDE DEF p, n
<1>3. header.commandId = p.commandId /\ p.commandId \in Nat
  BY <1>2, HandlerIs DEF HeaderOf
<1>4. /\ p.commandId \notin BindResponses \union {SubmitResponse, DELIVER_SM}
      /\ p.commandId \notin {ENQUIRE_LINK, DELIVER_SM}
  <2>1. \/ p.commandId = RESPONSE_FLAG
        \/ p.commandId >= RESPONSE_FLAG /\ p.commandId - RESPONSE_FLAG \notin {1, 2, 9, 4}
        \/ p.commandId < RESPONSE_FLAG /\ p.commandId \notin {21, 5}
    BY <1>3 DEF Ignore, IsResponse, IsRequest, Command, Binds, NACK, ENQUIRE_LINK, DELIVER_SM,
       BIND_RECEIVER, BIND_TRANSMITTER, BIND_TRANSCEIVER, SUBMIT_SM
  <2> DEFINE c == p.commandId
             f == RESPONSE_FLAG
  <2>2. /\ c \in Nat /\ f \in Nat /\ f > 21 /\ BindResponses = {f + 1, f + 2, f + 9}
        /\ SubmitResponse = f + 4 /\ DELIVER_SM = 5 /\ ENQUIRE_LINK = 21
    BY <1>3, CommandsDiffer
  <2>3. \/ c = f
        \/ c >= f /\ c - f \notin {1, 2, 9, 4}
        \/ c < f /\ c \notin {21, 5}
    BY <2>1
  <2> HIDE DEF c, f
  <2>4. c \notin {f + 1, f + 2, f + 9, f + 4, 5, 21}
    BY <2>2, <2>3
  <2>5. QED
    BY <2>2, <2>4 DEF c
<1>5. HandlerFor(p) = "none" /\ HandlerFor(p) \notin handlers /\ p.commandId # ENQUIRE_LINK
  BY <1>2, <1>4, HandlerIs
<1>6. EndsAt(p, index')
  BY <1>5 DEF EndsAt
<1>7. \E S : calls \in Seq(S)
  BY DEF DispatchInv, Logged
<1>8. CallsFor(calls, sent, handlers, n + 1)
  <2>1. PICK S : calls \in Seq(S)
    BY <1>7
  <2> DEFINE x == 0
  <2>2. /\ HandlerFor(sent[n + 1]) \in handlers => Delivered(x, sent[n + 1])
        /\ calls = IF HandlerFor(sent[n + 1]) \in handlers THEN Append(calls, x) ELSE calls
    BY <1>2, <1>5
  <2> HIDE DEF x
  <2>3. QED
    BY <1>2, <2>1, <2>2, CallsGrow
<1>9. BoundAfter(state, sent, n + 1)
  <2>1. IF HandlerFor(sent[n + 1]) = "bind" THEN BoundWith(sent[n + 1].commandId, state)
        ELSE state = state
    BY <1>2, <1>5
  <2>2. QED
    BY <1>2, <2>1, BoundGrows
<1>10. AnswersFor(answers, sent, n + 1)
  <2> DEFINE x == 0
  <2>1. /\ sent[n + 1].commandId \in {ENQUIRE_LINK, DELIVER_SM} =>
             AnswerTo(x, sent[n + 1].sequenceNo)
        /\ answers = IF sent[n + 1].commandId \in {ENQUIRE_LINK, DELIVER_SM}
                       THEN Append(answers, x) ELSE answers
    BY <1>2, <1>4
  <2> HIDE DEF x
  <2>2. QED
    BY <1>2, <2>1, AnswersGrow
<1>11. QED
  BY <1>1, <1>2, <1>6, <1>7, <1>8, <1>9, <1>10, Passes DEF p, n

\* The command of a response, without its flag.
LEMMA ResponseIs ==
  ASSUME NEW p \in Pdus, header = HeaderOf(p), IsResponse
  PROVE  /\ p.commandId = RESPONSE_FLAG + Command
         /\ Command \in Binds => p.commandId \in BindResponses
         /\ Command = SUBMIT_SM => p.commandId = SubmitResponse
<1>1. p.commandId \in Nat /\ header.commandId = p.commandId /\ RESPONSE_FLAG \in Nat
  BY HandlerIs, CommandsDiffer DEF HeaderOf
<1>2. p.commandId = RESPONSE_FLAG + Command
  BY <1>1 DEF Command
<1>3. QED
  BY <1>2 DEF BindResponses, SubmitResponse

\* The handler of a bind response is called, and the state is set.
LEMMA BindResponseStep ==
  ASSUME DispatchInv, HandleBindResponse
  PROVE  DispatchInv'
<1> DEFINE p == Current
           n == removed
           x == [handler |-> "bind", sequenceNo |-> header.sequenceNo,
                 status |-> header.status, pdu |-> NULL]
<1>1. /\ pc = "dispatch" /\ pc' = "remove" /\ IsResponse /\ Command \in Binds
      /\ UNCHANGED <<handlers, sent, arrived, removed, receiveBuffer, header>>
      /\ answers' = answers
      /\ index' = as_smpp_deserialize_string(receiveBuffer.ptr, index).index
      /\ state' = BoundAs(Command)
      /\ calls' = IF "bind" \in handlers THEN Append(calls, x) ELSE calls
  BY DEF HandleBindResponse, environment, memory, CallHandler
<1>2. /\ p \in Pdus /\ header = HeaderOf(p) /\ n \in Nat /\ p = sent[n + 1]
      /\ handlers \in HandlerSets /\ answers \in Seq(Seq(Octet))
      /\ receiveBuffer.ptr \in Seq(Octet) /\ Holds(receiveBuffer.ptr, 0, WireOctets(p))
      /\ index = HeaderLen
      /\ CallsFor(calls, sent, handlers, n) /\ BoundAfter(state, sent, n)
      /\ AnswersFor(answers, sent, n)
  BY <1>1, AtDispatch
<1> HIDE DEF p, n
<1>3. p.commandId = RESPONSE_FLAG + Command /\ p.commandId \in BindResponses
  BY <1>1, <1>2, ResponseIs
<1>4. HandlerFor(p) = "bind" /\ p.commandId \notin {ENQUIRE_LINK, DELIVER_SM}
  BY <1>2, <1>3, HandlerIs
<1>5. EndsAt(p, index')
  <2>1. CASE p.hasBody
    <3> DEFINE r == as_smpp_deserialize_string(receiveBuffer.ptr, HeaderLen)
               ptr == receiveBuffer.ptr
    <3>1. /\ p \in Pdus /\ p.commandId \in BindResponses \union {SubmitResponse}
          /\ ptr \in Seq(Octet) /\ Holds(ptr, 0, WireOctets(p))
          /\ r = as_smpp_deserialize_string(ptr, HeaderLen)
      BY <1>2, <1>3
    <3> HIDE DEF r, ptr
    <3>2. r.index = Len(WireOctets(p)) - Len(AllTlvOctets(p.tlvs))
      BY <2>1, <3>1, ResponseRead
    <3>3. QED
      BY <1>1, <1>2, <1>4, <3>2 DEF EndsAt, r
  <2>2. CASE ~p.hasBody
    BY <2>2 DEF EndsAt
  <2>3. QED
    BY <2>1, <2>2
<1>6. Delivered(x, p)
  BY <1>2, <1>4 DEF Delivered, HeaderOf
<1> HIDE DEF x
<1>7. PICK S : calls \in Seq(S)
  BY DEF DispatchInv, Logged
<1>8. \E T : calls' \in Seq(T)
  <2>1. Append(calls, x) \in Seq(S \union {x})
    BY <1>7, LogGrows
  <2>2. QED
    BY <1>1, <1>7, <2>1
<1>9. CallsFor(calls', sent, handlers, n + 1)
  <2>1. /\ HandlerFor(sent[n + 1]) \in handlers => Delivered(x, sent[n + 1])
        /\ calls' = IF HandlerFor(sent[n + 1]) \in handlers THEN Append(calls, x) ELSE calls
    BY <1>1, <1>2, <1>4, <1>6
  <2>2. QED
    BY <1>2, <1>7, <2>1, CallsGrow
<1>10. BoundAfter(state', sent, n + 1)
  <2>1. BoundWith(p.commandId, BoundAs(Command))
    BY <1>1, <1>3, CommandsDiffer DEF BoundWith, BoundAs, Binds, BIND_RECEIVER, BIND_TRANSMITTER,
       BIND_TRANSCEIVER
  <2>2. IF HandlerFor(sent[n + 1]) = "bind" THEN BoundWith(sent[n + 1].commandId, state')
        ELSE state' = state
    BY <1>1, <1>2, <1>4, <2>1
  <2>3. QED
    BY <1>2, <2>2, BoundGrows
<1>11. AnswersFor(answers', sent, n + 1)
  <2>1. /\ sent[n + 1].commandId \in {ENQUIRE_LINK, DELIVER_SM} =>
             AnswerTo(x, sent[n + 1].sequenceNo)
        /\ answers' = IF sent[n + 1].commandId \in {ENQUIRE_LINK, DELIVER_SM}
                        THEN Append(answers, x) ELSE answers
    BY <1>1, <1>2, <1>4
  <2>2. QED
    BY <1>2, <2>1, AnswersGrow
<1>12. QED
  BY <1>1, <1>2, <1>5, <1>8, <1>9, <1>10, <1>11, Passes DEF p, n

\* The handler of a submit_sm response is called with the message id.
LEMMA SubmitResponseStep ==
  ASSUME DispatchInv, HandleSubmitResponse
  PROVE  DispatchInv'
<1> DEFINE p == Current
           n == removed
           messageId == as_smpp_deserialize_string(receiveBuffer.ptr, index)
           x == [handler |-> "submit", sequenceNo |-> header.sequenceNo,
                 status |-> header.status, pdu |-> messageId.value]
<1>1. /\ pc = "dispatch" /\ pc' = "remove" /\ IsResponse /\ Command = SUBMIT_SM
      /\ UNCHANGED <<handlers, sent, arrived, removed, receiveBuffer, header>>
      /\ answers' = answers /\ state' = state
      /\ index' = messageId.index
      /\ calls' = IF "submit" \in handlers THEN Append(calls, x) ELSE calls
  BY DEF HandleSubmitResponse, environment, memory, CallHandler
<1>2. /\ p \in Pdus /\ header = HeaderOf(p) /\ n \in Nat /\ p = sent[n + 1]
      /\ handlers \in HandlerSets /\ answers \in Seq(Seq(Octet))
      /\ receiveBuffer.ptr \in Seq(Octet) /\ Holds(receiveBuffer.ptr, 0, WireOctets(p))
      /\ index = HeaderLen
      /\ CallsFor(calls, sent, handlers, n) /\ BoundAfter(state, sent, n)
      /\ AnswersFor(answers, sent, n)
  BY <1>1, AtDispatch
<1> HIDE DEF p, n
<1>3. p.commandId = SubmitResponse
  BY <1>1, <1>2, ResponseIs
<1>4. HandlerFor(p) = "submit" /\ p.commandId \notin {ENQUIRE_LINK, DELIVER_SM}
  BY <1>2, <1>3, HandlerIs
<1>5. p.hasBody => /\ messageId.index = Len(WireOctets(p)) - Len(AllTlvOctets(p.tlvs))
                   /\ messageId.value = p.fields["messageId"]
  <2>1. CASE p.hasBody
    <3> DEFINE ptr == receiveBuffer.ptr
    <3>1. /\ p \in Pdus /\ p.commandId \in BindResponses \union {SubmitResponse}
          /\ ptr \in Seq(Octet) /\ Holds(ptr, 0, WireOctets(p))
          /\ messageId = as_smpp_deserialize_string(ptr, HeaderLen)
      BY <1>2, <1>3
    <3> HIDE DEF messageId, ptr
    <3>2. QED
      BY <1>3, <2>1, <3>1, ResponseRead
  <2>2. QED
    BY <2>1
<1> HIDE DEF messageId
<1>6. EndsAt(p, index')
  BY <1>1, <1>4, <1>5 DEF EndsAt
<1>7. Delivered(x, p)
  BY <1>2, <1>4, <1>5 DEF Delivered, HeaderOf
<1> HIDE DEF x
<1>8. PICK S : calls \in Seq(S)
  BY DEF DispatchInv, Logged
<1>9. \E T : calls' \in Seq(T)
  <2>1. Append(calls, x) \in Seq(S \union {x})
    BY <1>8, LogGrows
  <2>2. QED
    BY <1>1, <1>8, <2>1
<1>10. CallsFor(calls', sent, handlers, n + 1)
  <2>1. /\ HandlerFor(sent[n + 1]) \in handlers => Delivered(x, sent[n + 1])
        /\ calls' = IF HandlerFor(sent[n + 1]) \in handlers THEN Append(calls, x) ELSE calls
    BY <1>1, <1>2, <1>4, <1>7
  <2>2. QED
    BY <1>2, <1>8, <2>1, CallsGrow
<1>11. BoundAfter(state', sent, n + 1)
  <2>1. IF HandlerFor(sent[n + 1]) = "bind" THEN BoundWith(sent[n + 1].commandId, state')
        ELSE state' = state
    BY <1>1, <1>2, <1>4
  <2>2. QED
    BY <1>2, <2>1, BoundGrows
<1>12. AnswersFor(answers', sent, n + 1)
  <2>1. /\ sent[n + 1].commandId \in {ENQUIRE_LINK, DELIVER_SM} =>
             AnswerTo(x, sent[n + 1].sequenceNo)
        /\ answers' = IF sent[n + 1].commandId \in {ENQUIRE_LINK, DELIVER_SM}
                        THEN Append(answers, x) ELSE answers
    BY <1>1, <1>2, <1>4
  <2>2. QED
    BY <1>2, <2>1, AnswersGrow
<1>13. QED
  BY <1>1, <1>2, <1>6, <1>9, <1>10, <1>11, <1>12, Passes DEF p, n

\* An enquire_link is answered.
LEMMA EnquireLinkStep ==
  ASSUME DispatchInv, HandleEnquireLink
  PROVE  DispatchInv'
<1> DEFINE p == Current
           n == removed
           x == Patched(AnswerHeader)
<1>1. /\ pc = "dispatch" /\ pc' = "remove" /\ header.commandId = ENQUIRE_LINK
      /\ UNCHANGED <<handlers, sent, arrived, removed, receiveBuffer, header>>
      /\ calls' = calls /\ state' = state /\ index' = index
      /\ answers' = Append(answers, x)
  BY DEF HandleEnquireLink, environment, memory, locals
<1>2. /\ p \in Pdus /\ header = HeaderOf(p) /\ n \in Nat /\ p = sent[n + 1]
      /\ handlers \in HandlerSets /\ answers \in Seq(Seq(Octet))
      /\ receiveBuffer.ptr \in Seq(Octet) /\ Holds(receiveBuffer.ptr, 0, WireOctets(p))
      /\ index = HeaderLen
      /\ CallsFor(calls, sent, handlers, n) /\ BoundAfter(state, sent, n)
      /\ AnswersFor(answers, sent, n)
  BY <1>1, AtDispatch
<1> HIDE DEF p, n
<1>3. p.commandId = ENQUIRE_LINK /\ header.sequenceNo = p.sequenceNo
  BY <1>1, <1>2 DEF HeaderOf
<1>4. /\ p.commandId \notin BindResponses \union {SubmitResponse, DELIVER_SM}
      /\ SmscLayout(p.commandId) = <<>>
  BY <1>3, CommandsDiffer DEF SmscLayout
<1>5. HandlerFor(p) = "none" /\ HandlerFor(p) \notin handlers
  BY <1>2, <1>4, HandlerIs
<1>6. EndsAt(p, index')
  <2>1. CASE p.hasBody
    <3>1. Len(receiveBuffer.ptr) \in Nat
      BY <1>2
    <3>2. HeaderLen = Len(WireOctets(p)) - Len(AllTlvOctets(p.tlvs))
      BY <1>2, <1>4, <2>1, <3>1, NoFieldsRead
    <3>3. QED
      BY <1>1, <1>2, <1>4, <3>2 DEF EndsAt
  <2>2. CASE ~p.hasBody
    BY <2>2 DEF EndsAt
  <2>3. QED
    BY <2>1, <2>2
<1>7. x \in Seq(Octet) /\ AnswerTo(x, p.sequenceNo)
  <2> DEFINE no == p.sequenceNo
             h == AnswerHeader
  <2>1. no \in Nat /\ FitsIn(no, Width)
    BY <1>2, HandlerIs
  <2>2. h = as_smpp_serialize_pdu_header(0, ENQUIRE_LINK + RESPONSE_FLAG, ROK, no)
    BY <1>3 DEF AnswerHeader
  <2>3. x = Patched(h)
    OBVIOUS
  <2> HIDE DEF x, no, h
  <2>4. x \in Seq(Octet) /\ AnswerTo(x, no)
    BY <2>1, <2>2, <2>3, AnswerRead
  <2>5. QED
    BY <2>4 DEF no
<1> HIDE DEF x
<1>8. \E S : calls \in Seq(S)
  BY DEF DispatchInv, Logged
<1>9. CallsFor(calls, sent, handlers, n + 1)
  <2>1. PICK S : calls \in Seq(S)
    BY <1>8
  <2>2. /\ HandlerFor(sent[n + 1]) \in handlers => Delivered(x, sent[n + 1])
        /\ calls = IF HandlerFor(sent[n + 1]) \in handlers THEN Append(calls, x) ELSE calls
    BY <1>2, <1>5
  <2>3. QED
    BY <1>2, <2>1, <2>2, CallsGrow
<1>10. BoundAfter(state, sent, n + 1)
  <2>1. IF HandlerFor(sent[n + 1]) = "bind" THEN BoundWith(sent[n + 1].commandId, state)
        ELSE state = state
    BY <1>2, <1>5
  <2>2. QED
    BY <1>2, <2>1, BoundGrows
<1>11. AnswersFor(answers', sent, n + 1)
  <2>1. /\ sent[n + 1].commandId \in {ENQUIRE_LINK, DELIVER_SM} =>
             AnswerTo(x, sent[n + 1].sequenceNo)
        /\ answers' = IF sent[n + 1].commandId \in {ENQUIRE_LINK, DELIVER_SM}
                        THEN Append(answers, x) ELSE answers
    BY <1>1, <1>2, <1>3, <1>7
  <2>2. QED
    BY <1>2, <2>1, AnswersGrow
<1>12. answers' \in Seq(Seq(Octet))
  BY <1>1, <1>2, <1>7
<1>13. QED
  BY <1>1, <1>2, <1>6, <1>8, <1>9, <1>10, <1>11, <1>12, Passes DEF p, n

\* The fields of a deliver_sm are read.
LEMMA ReadDeliverSmStep ==
  ASSUME DispatchInv, ReadDeliverSm
  PROVE  DispatchInv'
<1> DEFINE p == Current
<1>1. /\ pc = "dispatch" /\ pc' = "tlv" /\ header.commandId = DELIVER_SM
      /\ UNCHANGED <<handlers, sent, arrived, removed, receiveBuffer, header>>
      /\ calls' = calls /\ state' = state /\ answers' = answers
  BY DEF ReadDeliverSm, environment, memory, effects
<1>2. PICK u \in BOOLEAN :
        /\ request' = Deserialize(ReadSubmitSm, receiveBuffer.ptr, index, u).value
        /\ index' = Deserialize(ReadSubmitSm, receiveBuffer.ptr, index, u).index
  BY DEF ReadDeliverSm
<1>3. /\ p \in Pdus /\ header = HeaderOf(p) /\ index = HeaderLen
      /\ receiveBuffer.ptr \in Seq(Octet) /\ Holds(receiveBuffer.ptr, 0, WireOctets(p))
  BY <1>1, AtDispatch
<1>4. pc \in Busy /\ pc' \in Busy
  BY <1>1 DEF Busy
<1>5. Traffic' /\ AtPdu' /\ Current' = p
  BY <1>1, <1>4, SamePdu
<1> HIDE DEF p
<1>6. p.commandId = DELIVER_SM
  BY <1>1, <1>3 DEF HeaderOf
<1>7. index' = HeaderLen + Len(FieldOctets(p)) /\ AsSent(request', p)
  <2> DEFINE ptr == receiveBuffer.ptr
             d == Deserialize(ReadSubmitSm, ptr, HeaderLen, u)
  <2>1. /\ ptr \in Seq(Octet) /\ Holds(ptr, 0, WireOctets(p))
        /\ d = Deserialize(ReadSubmitSm, ptr, HeaderLen, u)
        /\ request' = d.value /\ index' = d.index
    BY <1>2, <1>3
  <2> HIDE DEF ptr, d
  <2>2. d.index = HeaderLen + Len(FieldOctets(p)) /\ AsSent(d.value, p)
    BY <1>3, <1>6, <2>1, DeliverRead
  <2>3. QED
    BY <2>1, <2>2
<1>8. Reading'
  BY <1>1, <1>5, <1>6, <1>7 DEF Reading
<1>9. Logged'
  BY <1>1 DEF DispatchInv, Logged, Done, Replied
<1>10. QED
  BY <1>5, <1>8, <1>9 DEF DispatchInv

\* The worker is at a deliver_sm.
LEMMA AtDeliver ==
  ASSUME DispatchInv, pc \in {"tlv", "walk", "handler", "free", "answer"}
  PROVE  /\ Current \in Pdus /\ Current.commandId = DELIVER_SM /\ pc \in Busy
         /\ header = HeaderOf(Current)
         /\ receiveBuffer.ptr \in Seq(Octet)
         /\ Holds(receiveBuffer.ptr, 0, WireOctets(Current))
         /\ removed \in Nat /\ Current = sent[removed + 1]
<1>1. Traffic /\ AtPdu /\ pc \in Busy
  BY DEF DispatchInv, Busy
<1>2. /\ Current \in Pdus /\ header = HeaderOf(Current)
      /\ receiveBuffer.ptr \in Seq(Octet)
      /\ Holds(receiveBuffer.ptr, 0, WireOctets(Current))
      /\ removed \in Nat /\ Current = sent[removed + 1]
  BY <1>1, AtCurrent
<1>3. Current.commandId = DELIVER_SM
  BY DEF DispatchInv, Reading
<1>4. QED
  BY <1>1, <1>2, <1>3

\* The TLVs are read up to the end of the PDU.
LEMMA ReadTlvsStep ==
  ASSUME DispatchInv, ReadTlvs
  PROVE  DispatchInv'
<1> DEFINE p == Current
           ptr == receiveBuffer.ptr
           r == as_smpp_deserialize_tlv(ptr, index, header.commandLength)
<1>1. /\ pc = "tlv" /\ pc' = "walk" /\ tlv' = r.value /\ index' = r.index
      /\ UNCHANGED <<handlers, sent, arrived, removed, receiveBuffer, header>>
      /\ calls' = calls /\ state' = state /\ answers' = answers /\ request' = request
  BY DEF ReadTlvs, environment, memory
<1>2. /\ p \in Pdus /\ p.commandId = DELIVER_SM /\ pc \in Busy /\ header = HeaderOf(p)
      /\ ptr \in Seq(Octet) /\ Holds(ptr, 0, WireOctets(p))
  BY <1>1, AtDeliver
<1>3. pc' \in Busy
  BY <1>1 DEF Busy
<1>4. Traffic' /\ AtPdu' /\ Current' = p
  BY <1>1, <1>2, <1>3, SamePdu
<1>5. index = HeaderLen + Len(FieldOctets(p)) /\ AsSent(request, p)
  BY <1>1 DEF DispatchInv, Reading
<1> HIDE DEF p, ptr
<1>6. r = as_smpp_deserialize_tlv(ptr, HeaderLen + Len(FieldOctets(p)), Len(WireOctets(p)))
  BY <1>2, <1>5 DEF HeaderOf
<1>7. p.hasBody
  BY <1>2, DeliverMatches
<1> HIDE DEF r
<1>8. r.value = p.tlvs /\ r.index = Len(WireOctets(p))
  BY <1>2, <1>6, <1>7, TlvsOfPdu
<1>9. Reading'
  BY <1>1, <1>2, <1>4, <1>5, <1>8 DEF Reading
<1>10. Logged'
  BY <1>1 DEF DispatchInv, Logged, Done, Replied
<1>11. QED
  BY <1>4, <1>9, <1>10 DEF DispatchInv

\* The TLVs are walked over.
LEMMA WalkTlvsStep ==
  ASSUME DispatchInv, WalkTlvs
  PROVE  DispatchInv'
<1>1. /\ pc = "walk" /\ pc' = "handler"
      /\ UNCHANGED <<handlers, sent, arrived, removed, receiveBuffer, header>>
      /\ calls' = calls /\ state' = state /\ answers' = answers /\ request' = request
      /\ index' = index
  BY DEF WalkTlvs, environment, memory, effects
<1>2. pc \in Busy /\ pc' \in Busy
  BY <1>1 DEF Busy
<1>3. Traffic' /\ AtPdu' /\ Current' = Current
  BY <1>1, <1>2, SamePdu
<1>4. Reading'
  BY <1>1, <1>3 DEF DispatchInv, Reading
<1>5. Logged'
  BY <1>1 DEF DispatchInv, Logged, Done, Replied
<1>6. QED
  BY <1>3, <1>4, <1>5 DEF DispatchInv

\* The handler of a deliver_sm is called with what was read.
LEMMA CallDeliverStep ==
  ASSUME DispatchInv, CallDeliver
  PROVE  DispatchInv'
<1> DEFINE p == Current
           n == removed
           x == [handler |-> "deliver", sequenceNo |-> header.sequenceNo,
                 status |-> header.status, pdu |-> request]
<1>1. /\ pc = "handler" /\ pc' = "free"
      /\ UNCHANGED <<handlers, sent, arrived, removed, receiveBuffer, header>>
      /\ state' = state /\ answers' = answers /\ index' = index
      /\ calls' = IF "deliver" \in handlers THEN Append(calls, x) ELSE calls
  BY DEF CallDeliver, environment, memory, locals, CallHandler
<1>2. /\ p \in Pdus /\ p.commandId = DELIVER_SM /\ pc \in Busy /\ header = HeaderOf(p)
      /\ n \in Nat /\ p = sent[n + 1]
  BY <1>1, AtDeliver
<1>3. pc' \in Busy
  BY <1>1 DEF Busy
<1>4. Traffic' /\ AtPdu' /\ Current' = p
  BY <1>1, <1>2, <1>3, SamePdu
<1>5. AsSent(request, p) /\ index = Len(WireOctets(p))
  BY <1>1 DEF DispatchInv, Reading
<1>6. /\ Done = n /\ Replied = n /\ Done' = n + 1 /\ Replied' = n
  BY <1>1 DEF Done, Replied
<1>7. /\ CallsFor(calls, sent, handlers, n) /\ BoundAfter(state, sent, n)
      /\ AnswersFor(answers, sent, n) /\ answers \in Seq(Seq(Octet))
  BY <1>6 DEF DispatchInv, Logged
<1> HIDE DEF p, n
<1>8. HandlerFor(p) = "deliver"
  BY <1>2, HandlerIs
<1>9. Delivered(x, p)
  BY <1>2, <1>5, <1>8 DEF Delivered, HeaderOf, AsSent, Dates
<1> HIDE DEF x
<1>10. PICK S : calls \in Seq(S)
  BY DEF DispatchInv, Logged
<1>11. \E T : calls' \in Seq(T)
  <2>1. Append(calls, x) \in Seq(S \union {x})
    BY <1>10, LogGrows
  <2>2. QED
    BY <1>1, <1>10, <2>1
<1>12. CallsFor(calls', sent, handlers, n + 1)
  <2>1. /\ HandlerFor(sent[n + 1]) \in handlers => Delivered(x, sent[n + 1])
        /\ calls' = IF HandlerFor(sent[n + 1]) \in handlers THEN Append(calls, x) ELSE calls
    BY <1>1, <1>2, <1>8, <1>9
  <2>2. QED
    BY <1>2, <1>7, <1>10, <2>1, CallsGrow
<1>13. BoundAfter(state', sent, n + 1)
  <2>1. IF HandlerFor(sent[n + 1]) = "bind" THEN BoundWith(sent[n + 1].commandId, state')
        ELSE state' = state
    BY <1>1, <1>2, <1>8
  <2>2. QED
    BY <1>2, <1>7, <2>1, BoundGrows
<1>14. Reading'
  BY <1>1, <1>2, <1>4, <1>5 DEF Reading
<1>15. Logged'
  BY <1>1, <1>6, <1>7, <1>11, <1>12, <1>13 DEF Logged
<1>16. QED
  BY <1>4, <1>14, <1>15 DEF DispatchInv

\* The list of TLVs is freed.
LEMMA FreeTlvsStep ==
  ASSUME DispatchInv, FreeTlvs
  PROVE  DispatchInv'
<1>1. /\ pc = "free" /\ pc' = "answer"
      /\ UNCHANGED <<handlers, sent, arrived, removed, receiveBuffer, header>>
      /\ calls' = calls /\ state' = state /\ answers' = answers /\ index' = index
  BY DEF FreeTlvs, environment, memory, locals
<1>2. pc \in Busy /\ pc' \in Busy
  BY <1>1 DEF Busy
<1>3. Traffic' /\ AtPdu' /\ Current' = Current
  BY <1>1, <1>2, SamePdu
<1>4. Reading'
  BY <1>1, <1>3 DEF DispatchInv, Reading
<1>5. Logged'
  BY <1>1 DEF DispatchInv, Logged, Done, Replied
<1>6. QED
  BY <1>3, <1>4, <1>5 DEF DispatchInv

\* A deliver_sm is answered.
LEMMA AnswerDeliverStep ==
  ASSUME DispatchInv, AnswerDeliver
  PROVE  DispatchInv'
<1> DEFINE p == Current
           n == removed
           h == AnswerHeader
           octets == h \o as_smpp_serialize_string(NULL, MaxLen["messageId"])
           x == Patched(octets)
<1>1. /\ pc = "answer" /\ pc' = "remove"
      /\ UNCHANGED <<handlers, sent, arrived, removed, receiveBuffer, header>>
      /\ calls' = calls /\ state' = state /\ index' = index
      /\ answers' = Append(answers, x)
  BY DEF AnswerDeliver, environment, memory, locals
<1>2. /\ p \in Pdus /\ p.commandId = DELIVER_SM /\ pc \in Busy /\ header = HeaderOf(p)
      /\ n \in Nat /\ p = sent[n + 1]
  BY <1>1, AtDeliver
<1>3. pc' \in Busy
  BY <1>1 DEF Busy
<1>4. Traffic' /\ AtPdu' /\ Current' = p
  BY <1>1, <1>2, <1>3, SamePdu
<1>5. index = Len(WireOctets(p)) /\ Len(WireOctets(p)) \in Nat
  <2>1. index = Len(WireOctets(p))
    BY <1>1 DEF DispatchInv, Reading
  <2>2. WireOctets(p) \in Seq(Octet)
    BY <1>2, WireRead
  <2>3. QED
    BY <2>1, <2>2
<1>6. /\ Done = n + 1 /\ Replied = n /\ Done' = n + 1 /\ Replied' = n + 1
  BY <1>1 DEF Done, Replied
<1>7. /\ CallsFor(calls, sent, handlers, n + 1) /\ BoundAfter(state, sent, n + 1)
      /\ AnswersFor(answers, sent, n) /\ answers \in Seq(Seq(Octet))
      /\ \E S : calls \in Seq(S)
  BY <1>6 DEF DispatchInv, Logged
<1> HIDE DEF p, n
<1>8. EndsAt(p, index)
  BY <1>2, <1>5 DEF EndsAt
<1>9. x \in Seq(Octet) /\ AnswerTo(x, p.sequenceNo)
  <2> DEFINE no == p.sequenceNo
  <2>1. no \in Nat /\ FitsIn(no, Width) /\ header.sequenceNo = no
    BY <1>2, HandlerIs DEF HeaderOf
  <2>2. h = as_smpp_serialize_pdu_header(0, ENQUIRE_LINK + RESPONSE_FLAG, ROK, no)
    BY <2>1 DEF AnswerHeader
  <2>3. x = Patched(octets) /\ octets = h \o as_smpp_serialize_string(NULL, MaxLen["messageId"])
    OBVIOUS
  <2> HIDE DEF x, no, h, octets
  <2>4. x \in Seq(Octet) /\ AnswerTo(x, no)
    BY <2>1, <2>2, <2>3, AnswerRead
  <2>5. QED
    BY <2>4 DEF no
<1> HIDE DEF x
<1>10. AnswersFor(answers', sent, n + 1)
  <2>1. /\ sent[n + 1].commandId \in {ENQUIRE_LINK, DELIVER_SM} =>
             AnswerTo(x, sent[n + 1].sequenceNo)
        /\ answers' = IF sent[n + 1].commandId \in {ENQUIRE_LINK, DELIVER_SM}
                        THEN Append(answers, x) ELSE answers
    BY <1>1, <1>2, <1>9
  <2>2. QED
    BY <1>2, <1>7, <2>1, AnswersGrow
<1>11. answers' \in Seq(Seq(Octet))
  BY <1>1, <1>7, <1>9
<1>12. Reading'
  BY <1>1, <1>4, <1>8 DEF Reading
<1>13. Logged'
  BY <1>1, <1>6, <1>7, <1>10, <1>11 DEF Logged
<1>14. QED
  BY <1>4, <1>12, <1>13 DEF DispatchInv

\* The PDU is removed, and the next one is at the beginning of the memory.
LEMMA RemovePduStep ==
  ASSUME DispatchInv, RemovePdu
  PROVE  DispatchInv'
<1>1. /\ pc = "remove" /\ pc' = "parse" /\ removed' = removed + 1
      /\ receiveBuffer' = B!as_smpp_buffer_remove(receiveBuffer, 0, header.commandLength)
      /\ handlers' = handlers /\ sent' = sent /\ arrived' = arrived
      /\ calls' = calls /\ state' = state /\ answers' = answers
  BY DEF RemovePdu, environment, effects
<1>2. removed < arrived /\ header.commandLength = Len(WireOctets(sent[removed + 1]))
  BY <1>1 DEF DispatchInv, AtPdu, Busy, HeaderOf, Current
<1>3. /\ handlers \in HandlerSets /\ sent \in Seq(Pdus) /\ removed \in Nat /\ arrived \in Nat
      /\ arrived <= Len(sent) /\ receiveBuffer \in B!BufferOf(Octet)
      /\ Placed(receiveBuffer.ptr, 0, Behind(sent, removed, arrived), receiveBuffer.dataLen)
  BY DEF DispatchInv, Traffic
<1> DEFINE s == sent
           r == removed
           a == arrived
           b == receiveBuffer
           c == receiveBuffer'
<1>4. /\ s \in Seq(Pdus) /\ r \in Nat /\ a \in Nat /\ r < a /\ a <= Len(s)
      /\ b \in B!BufferOf(Octet) /\ Placed(b.ptr, 0, Behind(s, r, a), b.dataLen)
      /\ c = B!as_smpp_buffer_remove(b, 0, Len(WireOctets(s[r + 1])))
  BY <1>1, <1>2, <1>3
<1> HIDE DEF s, r, a, b, c
<1>5. c \in B!BufferOf(Octet) /\ Placed(c.ptr, 0, Behind(s, r + 1, a), c.dataLen)
  BY ONLY <1>4, Removes
<1>6. removed + 1 \in Nat /\ removed + 1 <= arrived
  BY <1>2, <1>3
<1>7. Traffic'
  BY <1>1, <1>3, <1>5, <1>6 DEF Traffic, s, r, a, c
<1>8. AtPdu' /\ Reading'
  BY <1>1 DEF AtPdu, Reading, Busy
<1>9. Done = removed + 1 /\ Replied = removed + 1 /\ Done' = removed + 1 /\ Replied' = removed + 1
  BY <1>1 DEF Done, Replied
<1>10. Logged'
  BY <1>1, <1>9 DEF DispatchInv, Logged
<1>11. QED
  BY <1>7, <1>8, <1>10 DEF DispatchInv

\* Every step of the worker, the SMSC and the application preserves the invariant.
LEMMA DispatchInvNext == DispatchInv /\ [Next]_vars => DispatchInv'
<1> SUFFICES ASSUME DispatchInv, [Next]_vars PROVE DispatchInv'
  OBVIOUS
<1>1. CASE SmscSend
  BY <1>1, SmscSendStep
<1>2. CASE Receive
  BY <1>2, ReceiveStep
<1>3. CASE Drained
  BY <1>3, DrainedStep
<1>4. CASE ParseHeader
  BY <1>4, ParseHeaderStep
<1>5. CASE Ignore
  BY <1>5, IgnoreStep
<1>6. CASE HandleBindResponse
  BY <1>6, BindResponseStep
<1>7. CASE HandleSubmitResponse
  BY <1>7, SubmitResponseStep
<1>8. CASE HandleEnquireLink
  BY <1>8, EnquireLinkStep
<1>9. CASE ReadDeliverSm
  BY <1>9, ReadDeliverSmStep
<1>10. CASE ReadTlvs
  BY <1>10, ReadTlvsStep
<1>11. CASE WalkTlvs
  BY <1>11, WalkTlvsStep
<1>12. CASE CallDeliver
  BY <1>12, CallDeliverStep
<1>13. CASE FreeTlvs
  BY <1>13, FreeTlvsStep
<1>14. CASE AnswerDeliver
  BY <1>14, AnswerDeliverStep
<1>15. CASE RemovePdu
  BY <1>15, RemovePduStep
<1>16. CASE UNCHANGED vars
  BY <1>16 DEF vars, environment, memory, locals, effects, DispatchInv, Traffic, AtPdu, Reading,
     Logged, Done, Replied, Current
<1>17. QED
  BY <1>1, <1>2, <1>3, <1>4, <1>5, <1>6, <1>7, <1>8, <1>9, <1>10, <1>11, <1>12, <1>13, <1>14,
     <1>15, <1>16 DEF Next, Dispatch

\* The invariant holds in every state.
LEMMA DispatchInvHolds == Spec => []DispatchInv
<1>1. Init => DispatchInv
  BY DispatchInvInit
<1>2. DispatchInv /\ [Next]_vars => DispatchInv'
  BY DispatchInvNext
<1>3. QED
  BY <1>1, <1>2, PTL DEF Spec

\* The handlers that are set are called for the PDUs of their kind, once and in
\* order, with what the SMSC wrote, and a session whose last bind was accepted is
\* bound as that bind was: for any PDUs of the SMSC and any way they arrive.
THEOREM HandlersCalledAsSent == Spec => []CalledAsSent
<1>1. DispatchInv => CalledAsSent
  <2> SUFFICES ASSUME DispatchInv PROVE CalledAsSent
    OBVIOUS
  <2> DEFINE T == ForHandlers(sent, handlers)
             n == Done
             a == arrived
  <2>1. n \in Nat /\ a \in Nat /\ n <= a
    <3>1. removed \in Nat /\ arrived \in Nat /\ removed <= arrived
      BY DEF DispatchInv, Traffic
    <3>2. pc \in {"free", "answer", "remove"} => removed < arrived
      BY DEF DispatchInv, AtPdu, Busy
    <3>3. QED
      BY <3>1, <3>2 DEF Done
  <2>2. /\ Len(calls) = Cardinality(Upto(T, n))
        /\ \A k \in Upto(T, n) : Delivered(calls[Cardinality(Upto(T, k))], sent[k])
        /\ BoundAfter(state, sent, n)
    BY DEF DispatchInv, Logged, CallsFor
  <2>3. \A m \in Nat : ToHandle(m) = Upto(T, m) /\ Handled(m) = Cardinality(Upto(T, m))
    <3>1. \A m \in Nat : ToHandle(m) = Upto(T, m)
      BY DEF ToHandle, Upto, ForHandlers
    <3>2. QED
      BY <3>1 DEF Handled
  <2> HIDE DEF T, n, a
  <2>4. Len(calls) <= Handled(a)
    BY <2>1, <2>2, <2>3, CountGrows
  <2>5. ASSUME NEW k \in ToHandle(a), Handled(k) <= Len(calls)
        PROVE  Delivered(calls[Handled(k)], sent[k])
    <3>1. k \in Upto(T, a) /\ k \in Nat /\ k \in T
      BY <2>1, <2>3, Numbered
    <3>2. Cardinality(Upto(T, k)) <= Cardinality(Upto(T, n)) /\ Cardinality(Upto(T, k)) \in Nat
          /\ Cardinality(Upto(T, n)) \in Nat
      <4>1. Cardinality(Upto(T, k)) <= Cardinality(Upto(T, n))
        BY <2>2, <2>3, <2>5, <3>1
      <4>2. Cardinality(Upto(T, k)) \in Nat
        BY <3>1, Counted
      <4>3. Cardinality(Upto(T, n)) \in Nat
        BY <2>1, Counted
      <4>4. QED
        BY <4>1, <4>2, <4>3
    <3>3. CASE n < k
      <4>1. n <= k
        BY <2>1, <3>1, <3>3
      <4>2. Cardinality(Upto(T, n)) < Cardinality(Upto(T, k))
        BY <2>1, <3>1, <3>3, <4>1, CountGrows
      <4>3. QED
        BY <3>2, <4>2
    <3>4. CASE k <= n
      <4>1. k \in Upto(T, n)
        BY <2>1, <3>1, <3>4 DEF Upto
      <4>2. QED
        BY <2>2, <2>3, <3>1, <4>1
    <3>5. QED
      BY <2>1, <3>1, <3>3, <3>4
  <2>6. ASSUME pc \in {"recv", "parse"}
        PROVE  /\ Len(calls) = Handled(removed)
               /\ \A k \in 1..removed :
                    HandlerFor(sent[k]) = "bind" /\ sent[k].status = ROK
                      /\ (\A j \in (k + 1)..removed : HandlerFor(sent[j]) # "bind") =>
                      BoundWith(sent[k].commandId, state)
    <3>1. n = removed
      BY <2>6 DEF n, Done
    <3>2. QED
      BY <2>1, <2>2, <2>3, <3>1 DEF BoundAfter
  <2>7. QED
    BY <2>4, <2>5, <2>6 DEF CalledAsSent, BoundWith, a
<1>2. QED
  BY <1>1, DispatchInvHolds, PTL

\* The TLVs of a deliver_sm are those that the SMSC wrote, and the reading of a PDU
\* ends where the PDU does.
THEOREM PdusReadToTheEnd == Spec => []ReadToTheEnd
<1>1. DispatchInv => ReadToTheEnd
  <2> SUFFICES ASSUME DispatchInv PROVE ReadToTheEnd
    OBVIOUS
  <2>1. pc = "walk" => tlv = Current.tlvs
    BY DEF DispatchInv, Reading
  <2>2. pc = "remove" => EndsAt(Current, index) /\ header.commandLength = Len(WireOctets(Current))
    BY DEF DispatchInv, Reading, AtPdu, Busy, HeaderOf
  <2>3. QED
    BY <2>1, <2>2 DEF ReadToTheEnd, EndsAt
<1>2. QED
  BY <1>1, DispatchInvHolds, PTL

\* What AnswerTo says of the fields of an answer.
LEMMA AnswerFields ==
  ASSUME NEW answer, NEW sequenceNo, AnswerTo(answer, sequenceNo)
  PROVE  LET read == as_smpp_deserialize_pdu_header(answer)
         IN /\ read.commandLength = Len(answer)
            /\ read.status = ROK
            /\ read.sequenceNo = sequenceNo
            /\ read.commandId = ENQUIRE_LINK + RESPONSE_FLAG
  BY DEF AnswerTo

\* Every request of the SMSC has one answer, with its number and its length; that
\* of an enquire_link has the command id of its response.
THEOREM RequestsAreAnswered == Spec => []AnswersReadable
<1>1. DispatchInv => AnswersReadable
  <2> SUFFICES ASSUME DispatchInv, pc = "recv"
               PROVE  /\ Len(answers) = Answered(removed)
                      /\ \A k \in ToAnswer(removed) :
                           AnswerTo(answers[Answered(k)], sent[k].sequenceNo)
    BY AnswerFields DEF AnswersReadable
  <2> DEFINE T == ForAnswer(sent)
             n == removed
  <2>1. Replied = n /\ n \in Nat
    BY DEF Replied, DispatchInv, Traffic
  <2>2. /\ Len(answers) = Cardinality(Upto(T, n))
        /\ \A k \in Upto(T, n) :
             AnswerTo(answers[Cardinality(Upto(T, k))], sent[k].sequenceNo)
    BY <2>1 DEF DispatchInv, Logged, AnswersFor
  <2>3. \A m \in Nat : ToAnswer(m) = Upto(T, m) /\ Answered(m) = Cardinality(Upto(T, m))
    <3>1. \A m \in Nat : ToAnswer(m) = Upto(T, m)
      BY DEF ToAnswer, Upto, ForAnswer
    <3>2. QED
      BY <3>1 DEF Answered
  <2> HIDE DEF T, n
  <2>4. \A k \in Upto(T, n) : k \in Nat
    BY <2>1, Numbered
  <2>5. QED
    BY <2>1, <2>2, <2>3, <2>4 DEF n
<1>2. QED
  BY <1>1, DispatchInvHolds, PTL
=============================================================================
