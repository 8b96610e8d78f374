--------------------------- MODULE ConverterProofs ---------------------------
(***************************************************************************)
(* Theorems about Converter, for texts of any length.                      *)
(*                                                                         *)
(* The loop over a GSM text skips octets as it goes; that it finds the     *)
(* same characters as a look at each octet and its neighbours (Second)     *)
(* rests on a fact about the tables, that an octet which begins an         *)
(* extended character does not end one (EscapesApart).  The loop is always *)
(* at an octet that is not the second of two, and has put out the          *)
(* characters of all such octets before it (Decoding).                     *)
(***************************************************************************)
EXTENDS Converter, FiniteSetTheorems, SequenceTheorems,
        WellFoundedInduction, TLAPS

\* No octet that decodes like an escape is in the extension table.
EscapesApart ==
  \A g \in Octet : as_smpp_CharMapGsmToLatin1[g] = NotMapped
                     => as_smpp_CharMapGsmXToLatin1[g] = NotMapped

Ready == pc \in {"ready", "loop", "done"}

\* The tables for decoding take the characters of both alphabets back.
TakenBack ==
  /\ as_smpp_CharMapLatin1ToGsm = [c \in Octet |-> GsmOf(c)]
  /\ as_smpp_CharMapGsmToLatin1[\h1b] = NotMapped
  /\ \A c \in InBoth :
       /\ GsmOf(c) < 256 => as_smpp_CharMapGsmToLatin1[GsmOf(c)] = c
       /\ GsmOf(c) >= 256 => as_smpp_CharMapGsmXToLatin1[GsmOf(c) % 256] = c

Tables ==
  /\ pc \in {"static", "encoding"} => as_smpp_CharMapGsmToLatin1 = Table(0)
  /\ pc = "encoding" =>
       /\ as_smpp_CharMapLatin1ToGsm = [c \in Octet |-> GsmOf(c)]
       /\ as_smpp_CharMapGsmXToLatin1 = Table(NotMapped)
  /\ Ready =>
       /\ as_smpp_CharMapGsmToLatin1 \in [Octet -> Octet]
       /\ as_smpp_CharMapGsmXToLatin1 \in [Octet -> Octet]
       /\ EscapesApart /\ TakenBack

Calls ==
  /\ pc \in {"static", "encoding", "ready", "loop", "done"}
  /\ ~(pc \in {"loop", "done"}) => i = 1
  /\ pc \in {"loop", "done"} =>
       \/ op = "gsm_to_latin1" /\ input \in GsmTexts /\ out \in Seq(Octet)
       \/ op = "latin1_to_gsm" /\ input \in Latin1Texts
       \/ op \in {"ucs2 little", "ucs2 big"} /\ input \in UnicodeTexts

\* The characters up to the position n are out.
OutUpTo(n) ==
  /\ Len(out) = Cardinality({j \in Firsts : j < n})
  /\ \A k \in Firsts : k < n => out[Place(k)] = CharacterAt(k)

Decoding ==
  op = "gsm_to_latin1" /\ pc = "loop" =>
    /\ i \in 1..(Len(input) + 1)
    /\ ~Second(i)
    /\ OutUpTo(i)

\* The input is a text that both alphabets have, in the octets the table has for it.
Given(text) == (\A k \in DOMAIN text : text[k] \in InBoth) /\ Encodes(text)

\* The loop is at the octets of the character behind those that are out.
Reading ==
  op = "gsm_to_latin1" /\ pc = "loop" =>
    \A text \in CommonTexts : Given(text) =>
      /\ Len(out) <= Len(text) /\ i = Start(text, Len(out) + 1)
      /\ \A k \in 1..Len(out) : out[k] = text[k]

\* The position of the terminator.
End == Min({k \in DOMAIN input : input[k] = 0})

Swapping ==
  /\ op = "ucs2 little" /\ pc \in {"loop", "done"} =>
       /\ i \in 1..End
       /\ out = [k \in DOMAIN input |-> IF k < i THEN Swapped(input[k]) ELSE input[k]]
       /\ pc = "done" => i = End
  /\ op = "ucs2 big" /\ pc \in {"loop", "done"} => out = input

Inv == Tables /\ Calls /\ Decoding /\ DecodedByPosition
       /\ Reading /\ DecodesWhatWasEncoded /\ Swapping

-----------------------------------------------------------------------------
(***************************************************************************)
(* Greatest and least members of sets of numbers.                          *)
(***************************************************************************)
\* A set of natural numbers has a least member.
LEMMA MinIsLeast ==
  ASSUME NEW S \in SUBSET Nat, S # {}
  PROVE  Min(S) \in S /\ \A x \in S : Min(S) <= x
<1>1. PICK m \in S : TRUE
  OBVIOUS
<1> DEFINE F == {T \in SUBSET (0..m) : \E x \in S : T = 0..x}
<1>2. IsFiniteSet(0..m)
  BY <1>1, FS_Interval
<1>3. F \subseteq FiniteSubsetsOf(0..m) /\ F # {}
  <2>1. 0..m \in F
    BY <1>1
  <2>2. QED
    BY <1>2, <2>1, FS_FiniteSubsetsOfFinite
<1>4. PICK T \in F : \A U \in F : <<U, T>> \notin StrictSubsetOrdering(0..m)
  BY <1>2, <1>3, FS_StrictSubsetOrderingWellFounded, WFMin
<1>5. PICK x \in S : T = 0..x
  BY <1>4
<1>6. ASSUME NEW y \in S, y < x PROVE FALSE
  <2>1. 0..y \in F /\ 0..y \subseteq T /\ 0..y # T
    BY <1>4, <1>5, <1>6
  <2>2. QED
    BY <1>3, <1>4, <2>1 DEF StrictSubsetOrdering
<1>7. \A y \in S : x <= y
  BY <1>6
<1>8. QED
  BY <1>7 DEF Min

\* A set of octets has a greatest member.
LEMMA MaxIsGreatest ==
  ASSUME NEW S \in SUBSET Octet, S # {}
  PROVE  Max(S) \in S /\ \A x \in S : Max(S) >= x
<1> DEFINE T == {255 - x : x \in S}
<1>1. T \in SUBSET Nat /\ T # {}
  BY DEF Octet
<1>2. Min(T) \in T /\ \A x \in T : Min(T) <= x
  <2> HIDE DEF T
  <2>1. QED
    BY <1>1, MinIsLeast
<1>3. PICK x \in S : Min(T) = 255 - x
  BY <1>2
<1>4. \A y \in S : 255 - x <= 255 - y
  BY <1>2, <1>3
<1>5. \A y \in S : x >= y
  BY <1>4 DEF Octet
<1>6. QED
  BY <1>5 DEF Max

-----------------------------------------------------------------------------
(***************************************************************************)
(* The tables.                                                             *)
(***************************************************************************)
\* A character has one octet, its value, or an escape and another octet, that
\* neither is an escape nor decodes like one.
LEMMA GsmOctet ==
  ASSUME NEW c \in Octet
  PROVE  /\ GsmOf(c) \in Nat
         /\ GsmOf(c) >= 256 => /\ GsmOf(c) \div 256 = \h1b
                               /\ GsmOf(c) % 256 \in Octet \ {\h1b, \hff}
         /\ c = 255 => GsmOf(c) = 255
<1>1. ASSUME NEW g, <<c, g>> \in Different
      PROVE  /\ c # 255 /\ g \in Nat
             /\ g >= 256 => g \div 256 = \h1b /\ g % 256 \in Octet \ {\h1b, \hff}
  BY <1>1 DEF Different, Octet
<1>2. CASE \E g \in Codes : <<c, g>> \in Different
  <2>1. <<c, GsmOf(c)>> \in Different
    BY <1>2 DEF GsmOf
  <2>2. QED
    BY <1>1, <2>1
<1>3. CASE ~\E g \in Codes : <<c, g>> \in Different
  BY <1>3 DEF GsmOf, Octet
<1>4. QED
  BY <1>2, <1>3

\* The value of a character is in the list of those that are not their own code,
\* or it is the code of the character, which then is not in the list.
LEMMA GsmChoice ==
  ASSUME NEW c \in Octet
  PROVE  \/ <<c, GsmOf(c)>> \in Different
         \/ GsmOf(c) = c /\ \A g : <<c, g>> \notin Different
<1>1. \A g : <<c, g>> \in Different => g \in Codes
  <2>1. SUFFICES ASSUME NEW g, <<c, g>> \in Different PROVE g \in Codes
    OBVIOUS
  <2>2. <<c, g>>[2] = g
    OBVIOUS
  <2>3. QED
    BY <2>1, <2>2 DEF Codes
<1>2. CASE \E g \in Codes : <<c, g>> \in Different
  BY <1>2 DEF GsmOf
<1>3. CASE ~\E g \in Codes : <<c, g>> \in Different
  BY <1>1, <1>3 DEF GsmOf
<1>4. QED
  BY <1>2, <1>3

\* No other character has the second octet of an extended one.  The character
\* \h1b alone is the octet of an escape, which begins the last extended one.
LEMMA GsmExtended ==
  ASSUME NEW c \in Octet, NEW d \in Octet
  PROVE  /\ GsmOf(c) >= 256 /\ GsmOf(d) >= 256 /\ GsmOf(d) % 256 = GsmOf(c) % 256 => d = c
         /\ GsmOf(c) = \h1b => c = \h1b
         /\ c = \h7e => GsmOf(c) >= 256
<1>1. <<\h7e, \h1b3d>> \in Different
  BY DEF Different
<1>2. c = \h7e => <<c, GsmOf(c)>> \in Different
  BY <1>1, GsmChoice
<1>3. c = \h7e => GsmOf(c) >= 256
  BY <1>2 DEF Different
<1>4. ASSUME GsmOf(c) = \h1b PROVE c = \h1b
  <2>1. <<c, \h1b>> \notin Different
    BY DEF Different
  <2>2. QED
    BY <1>4, <2>1, GsmChoice
<1>5. ASSUME GsmOf(c) >= 256, GsmOf(d) >= 256, GsmOf(d) % 256 = GsmOf(c) % 256 PROVE d = c
  <2>1. <<c, GsmOf(c)>> \in Different /\ <<d, GsmOf(d)>> \in Different
    <3>1. \A x \in Octet : GsmOf(x) = x => ~(GsmOf(x) >= 256)
      BY DEF Octet
    <3>2. QED
      BY <1>5, <3>1, GsmChoice
  <2>2. \A g, h : /\ <<c, g>> \in Different /\ <<d, h>> \in Different
                 /\ g >= 256 /\ h >= 256 /\ h % 256 = g % 256 => d = c
    BY DEF Different
  <2>3. QED
    BY <1>5, <2>1, <2>2
<1>6. QED
  BY <1>3, <1>4, <1>5

\* Of the characters that have the octet of one that both alphabets have, it is
\* the greatest, which the loop stores last.
LEMMA GsmPlain ==
  ASSUME NEW c \in InBoth, NEW d \in Octet, GsmOf(c) < 256
  PROVE  /\ c \in Octet /\ c # \hff /\ GsmOf(c) # \h1b
         /\ GsmOf(d) = GsmOf(c) => d <= c
<1>1. c \in Octet /\ c # \hff /\ c # \h1b
  BY DEF InBoth, Octet
<1>2. GsmOf(c) # \h1b
  BY <1>1, GsmExtended
<1>3. ASSUME GsmOf(d) = GsmOf(c) PROVE d <= c
  <2>1. CASE <<c, GsmOf(c)>> \in Different /\ <<d, GsmOf(d)>> \in Different
    <3>1. \A g : /\ <<c, g>> \in Different /\ <<d, g>> \in Different => d = c
      BY DEF Different
    <3>2. QED
      BY <1>1, <1>3, <2>1, <3>1 DEF Octet
  <2>2. CASE <<c, GsmOf(c)>> \in Different /\ GsmOf(d) = d
    <3>1. \A g : <<c, g>> \in Different /\ g < 256 => g <= c
      BY DEF Different
    <3>2. QED
      BY <1>3, <2>2, <3>1
  <2>3. CASE GsmOf(c) = c /\ (\A g : <<c, g>> \notin Different) /\ <<d, GsmOf(d)>> \in Different
    <3>1. <<d, c>> \in Different
      BY <1>3, <2>3
    <3>2. <<\h40, 0>> \in Different /\ <<\h24, 2>> \in Different /\ <<\h0c, \h1b0a>> \in Different
      BY DEF Different
    <3>3. c \notin {\h40, \h24, \h0c}
      BY <2>3, <3>2
    <3>4. c \notin {\h11, 0, 1, 2, 3, 4, 5, 6, 7, 8, 9, \h0b, \h0e, \h0f}
      BY DEF InBoth
    <3>5. QED
      BY <1>1, <3>1, <3>3, <3>4 DEF Different, Octet
  <2>4. CASE GsmOf(c) = c /\ GsmOf(d) = d
    BY <1>1, <1>3, <2>4 DEF Octet
  <2>5. QED
    BY <1>1, <2>1, <2>2, <2>3, <2>4, GsmChoice
<1>4. QED
  BY <1>1, <1>2, <1>3

\* The tables for decoding, as the second pass leaves them.
LEMMA TablesReady ==
  ASSUME Tables, InitGsmToLatin1
  PROVE  /\ as_smpp_CharMapGsmToLatin1' \in [Octet -> Octet]
         /\ as_smpp_CharMapGsmXToLatin1' \in [Octet -> Octet]
         /\ EscapesApart' /\ TakenBack'
<1> DEFINE S(g) == {c \in Octet : FirstOctet(c) = g}
           X(g) == {c \in Octet \ Plain : as_smpp_CharMapLatin1ToGsm[c] % 256 = g}
           To == as_smpp_CharMapGsmToLatin1'
           XTo == as_smpp_CharMapGsmXToLatin1'
<1>1. /\ as_smpp_CharMapLatin1ToGsm = [c \in Octet |-> GsmOf(c)]
      /\ as_smpp_CharMapGsmXToLatin1 = [g \in Octet |-> 255]
      /\ as_smpp_CharMapGsmToLatin1 = [g \in Octet |-> 0]
  BY DEF Tables, InitGsmToLatin1, Table, NotMapped
<1>2. \A g \in Octet : /\ S(g) # {} => StoredLast(S(g)) \in S(g)
                       /\ X(g) # {} => StoredLast(X(g)) \in X(g)
  BY MaxIsGreatest DEF StoredLast
<1>3. /\ To = [g \in Octet |-> IF S(g) = {} THEN 0
                               ELSE IF StoredLast(S(g)) \in Plain THEN StoredLast(S(g)) ELSE 255]
      /\ XTo = [g \in Octet |-> IF X(g) = {} THEN 255 ELSE StoredLast(X(g))]
  BY <1>1 DEF InitGsmToLatin1, NotMapped
<1>4. \A c \in Octet : as_smpp_CharMapLatin1ToGsm[c] = GsmOf(c)
  BY <1>1
<1>5. ASSUME NEW g \in Octet, To[g] = 255 PROVE XTo[g] = 255
  <2>1. S(g) # {} /\ (StoredLast(S(g)) \notin Plain \/ StoredLast(S(g)) = 255)
    BY <1>3, <1>5
  <2>2. PICK c \in Octet : FirstOctet(c) = g /\ (c \notin Plain \/ c = 255)
    BY <1>2, <2>1
  <2>3. GsmOf(c) >= 256 => g = \h1b
    BY <1>4, <2>2, GsmOctet DEF FirstOctet, Plain
  <2>4. GsmOf(c) < 256 => g = \hff
    BY <1>4, <2>2, GsmOctet DEF FirstOctet, Plain
  <2>5. ASSUME NEW d \in X(g) PROVE FALSE
    <3>1. d \in Octet /\ GsmOf(d) >= 256 /\ GsmOf(d) % 256 = g
      BY <1>4, GsmOctet DEF Plain
    <3>2. GsmOf(d) % 256 \in Octet \ {\h1b, \hff}
      BY <3>1, GsmOctet
    <3>3. GsmOf(c) >= 256 \/ GsmOf(c) < 256
      BY GsmOctet
    <3>4. QED
      BY <2>3, <2>4, <3>1, <3>2, <3>3
  <2>6. QED
    BY <1>3, <2>5
<1>6. To \in [Octet -> Octet] /\ XTo \in [Octet -> Octet]
  <2>1. \A g \in Octet : To[g] \in Octet /\ XTo[g] \in Octet
    <3>1. 0 \in Octet /\ 255 \in Octet
      BY DEF Octet
    <3>2. \A g \in Octet : S(g) \subseteq Octet /\ X(g) \subseteq Octet
      OBVIOUS
    <3>3. QED
      <4> HIDE DEF S, X
      <4>1. QED
        BY <1>2, <1>3, <3>1, <3>2
  <2>2. QED
    BY <1>3, <2>1
<1>7. \A c \in Octet : /\ GsmOf(c) \in Nat /\ (c \in Plain <=> GsmOf(c) < 256)
                       /\ c \in Plain => FirstOctet(c) = GsmOf(c)
                       /\ c \notin Plain => FirstOctet(c) = \h1b
                       /\ \A g : c \in S(g) <=> FirstOctet(c) = g
                       /\ \A g : c \in X(g) <=> c \notin Plain /\ GsmOf(c) % 256 = g
  BY <1>4, GsmOctet DEF Plain, FirstOctet
<1>8. \A g : /\ S(g) \in SUBSET Octet /\ X(g) \in SUBSET Octet
             /\ S(g) # {} => StoredLast(S(g)) \in S(g) /\ \A x \in S(g) : StoredLast(S(g)) >= x
             /\ X(g) # {} => StoredLast(X(g)) \in X(g)
  BY MaxIsGreatest DEF StoredLast
<1>9. \h1b \in Octet /\ \h7e \in Octet /\ \A c \in Octet : c \in Nat
  BY DEF Octet
<1> HIDE DEF S, X, To, XTo
<1>10. To[\h1b] = 255
  <2>1. \h7e \notin Plain /\ \h7e \in S(\h1b)
    <3>1. GsmOf(\h7e) >= 256
      BY <1>9, GsmExtended
    <3>2. QED
      BY <1>7, <1>9, <3>1
  <2>2. StoredLast(S(\h1b)) \in S(\h1b) /\ StoredLast(S(\h1b)) >= \h7e
    BY <1>8, <2>1
  <2>3. StoredLast(S(\h1b)) \notin Plain
    <3>1. \A c \in Octet : c \in Plain /\ c \in S(\h1b) => c = \h1b
      BY <1>7, GsmExtended
    <3>2. QED
      BY <1>8, <2>2, <3>1
  <2>4. QED
    BY <1>3, <1>9, <2>1, <2>3
<1>11. ASSUME NEW c \in InBoth, GsmOf(c) < 256 PROVE To[GsmOf(c)] = c
  <2>1. c \in Octet
    BY DEF InBoth, Octet
  <2>2. c \in Plain /\ c \in S(GsmOf(c)) /\ GsmOf(c) \in Octet
    <3>1. GsmOf(c) \in Nat /\ c \in Plain /\ FirstOctet(c) = GsmOf(c)
      BY <1>7, <1>11, <2>1
    <3>2. c \in S(GsmOf(c))
      BY <1>7, <2>1, <3>1
    <3>3. GsmOf(c) \in Octet
      BY <1>11, <3>1 DEF Octet
    <3>4. QED
      BY <3>1, <3>2, <3>3
  <2>3. \A d \in S(GsmOf(c)) : d <= c
    <3>1. SUFFICES ASSUME NEW d \in S(GsmOf(c)) PROVE d <= c
      OBVIOUS
    <3>2. d \in Octet
      BY <1>8
    <3>3. FirstOctet(d) = GsmOf(c)
      BY <1>7, <3>2
    <3>4. GsmOf(d) = GsmOf(c)
      BY <1>7, <1>11, <3>2, <3>3, GsmPlain
    <3>5. QED
      BY <1>11, <3>2, <3>4, GsmPlain
  <2>4. StoredLast(S(GsmOf(c))) = c
    <3>1. StoredLast(S(GsmOf(c))) \in Octet /\ StoredLast(S(GsmOf(c))) >= c
          /\ StoredLast(S(GsmOf(c))) <= c
      BY <1>8, <2>2, <2>3
    <3>2. QED
      BY <1>9, <2>1, <3>1
  <2>5. QED
    BY <1>3, <2>2, <2>4
<1>12. ASSUME NEW c \in InBoth, GsmOf(c) >= 256 PROVE XTo[GsmOf(c) % 256] = c
  <2>1. c \in Octet
    BY DEF InBoth, Octet
  <2>2. ~(GsmOf(c) < 256) /\ GsmOf(c) % 256 \in Octet
    BY <1>7, <1>12, <2>1, GsmOctet
  <2>3. c \in X(GsmOf(c) % 256)
    BY <1>7, <2>1, <2>2
  <2>4. \A d \in X(GsmOf(c) % 256) : d = c
    <3>1. SUFFICES ASSUME NEW d \in X(GsmOf(c) % 256) PROVE d = c
      OBVIOUS
    <3>2. d \in Octet
      BY <1>8
    <3>3. GsmOf(d) >= 256 /\ GsmOf(d) % 256 = GsmOf(c) % 256
      BY <1>7, <3>2
    <3>4. QED
      BY <1>12, <2>1, <3>2, <3>3, GsmExtended
  <2>5. StoredLast(X(GsmOf(c) % 256)) = c
    BY <1>8, <2>3, <2>4
  <2>6. QED
    BY <1>3, <2>2, <2>3, <2>5
<1>13. TakenBack'
  BY <1>1, <1>10, <1>11, <1>12 DEF TakenBack, NotMapped, InitGsmToLatin1, To, XTo
<1>14. QED
  BY <1>5, <1>6, <1>13 DEF To, XTo, EscapesApart, NotMapped

-----------------------------------------------------------------------------
(***************************************************************************)
(* Decoding.                                                               *)
(***************************************************************************)
\* A number of a set has the place behind the numbers below it.
LEMMA PlaceInSet ==
  ASSUME NEW S \in SUBSET Nat, IsFiniteSet(S), NEW m \in S
  PROVE  Cardinality({j \in S : j <= m}) = Cardinality({j \in S : j < m}) + 1
<1> DEFINE Under == {j \in S : j < m}
<1>1. Under \in SUBSET S
  OBVIOUS
<1>2. m \notin Under /\ {j \in S : j <= m} = Under \cup {m}
  <2>1. m \in Nat /\ \A j \in S : j \in Nat
    OBVIOUS
  <2>2. \A j \in S : j <= m <=> j < m \/ j = m
    BY <2>1
  <2>3. ~(m < m)
    BY <2>1
  <2>4. QED
    BY <2>2, <2>3
<1> HIDE DEF Under
<1>3. IsFiniteSet(Under)
  BY <1>1, FS_Subset
<1>4. Cardinality(Under \cup {m}) = Cardinality(Under) + 1
  BY <1>2, <1>3, FS_AddElement
<1>5. QED
  BY <1>2, <1>4 DEF Under

\* The places of the numbers below n are the numbers up to how many there are.
LEMMA PlaceBelow ==
  ASSUME NEW S \in SUBSET Nat, IsFiniteSet(S), NEW n \in Nat, NEW k \in S, k < n
  PROVE  Cardinality({j \in S : j <= k}) \in 1..Cardinality({j \in S : j < n})
<1> DEFINE UpK == {j \in S : j <= k}
           UnderN == {j \in S : j < n}
           Under == {j \in S : j < k}
<1>1. IsFiniteSet(UpK) /\ IsFiniteSet(UnderN) /\ IsFiniteSet(Under)
  <2>1. UpK \in SUBSET S /\ UnderN \in SUBSET S /\ Under \in SUBSET S
    OBVIOUS
  <2> HIDE DEF UpK, UnderN, Under
  <2>2. QED
    BY <2>1, FS_Subset
<1>2. Cardinality(UpK) <= Cardinality(UnderN)
  <2>1. UpK \in SUBSET UnderN
    <3>1. k \in Nat /\ \A j \in S : j \in Nat
      OBVIOUS
    <3>2. \A j \in S : j <= k => j < n
      BY <3>1
    <3>3. QED
      BY <3>2
  <2> HIDE DEF UpK, UnderN
  <2>2. QED
    BY <1>1, <2>1, FS_Subset
<1>3. Cardinality(UpK) = Cardinality(Under) + 1
  BY PlaceInSet
<1>4. Cardinality(Under) \in Nat /\ Cardinality(UnderN) \in Nat
  BY <1>1, FS_CardinalityType
<1>5. QED
  BY <1>2, <1>3, <1>4

\* The members of a set of numbers below a number, and up to it.
Below(S, n) == {j \in S : j < n}
UpTo(S, n) == {j \in S : j <= n}

\* The sequence o holds f[k] at the place of k for the numbers k in S below n.
Placed(o, S, n, f) ==
  /\ Len(o) = Cardinality(Below(S, n))
  /\ \A k \in Below(S, n) : o[Cardinality(UpTo(S, k))] = f[k]

\* What holds the f[k] for those below m does, with f[m] behind it, for those up to m.
LEMMA OneMore ==
  ASSUME NEW S \in SUBSET Nat, IsFiniteSet(S), NEW m \in S, NEW n \in Nat,
         Below(S, n) = UpTo(S, m),
         NEW f, f[m] \in Octet, NEW o \in Seq(Octet),
         Placed(o, S, m, f)
  PROVE  Placed(Append(o, f[m]), S, n, f)
<1>0. /\ Len(o) = Cardinality(Below(S, m))
      /\ \A k \in Below(S, m) : o[Cardinality(UpTo(S, k))] = f[k]
  BY DEF Placed
<1>1. Cardinality(UpTo(S, m)) = Len(o) + 1
  BY <1>0, PlaceInSet DEF UpTo, Below
<1>2. ASSUME NEW k \in Below(S, n)
      PROVE  Append(o, f[m])[Cardinality(UpTo(S, k))] = f[k]
  <2>1. k \in S /\ k <= m /\ k \in Nat /\ m \in Nat
    <3>1. k \in UpTo(S, m)
      BY <1>2
    <3>2. QED
      BY <3>1 DEF UpTo
  <2>2. CASE k = m
    BY <1>1, <2>2
  <2>3. CASE k < m
    <3>1. Cardinality(UpTo(S, k)) \in 1..Len(o)
      BY <1>0, <2>1, <2>3, PlaceBelow DEF UpTo, Below
    <3>2. \A x \in 1..Len(o) : Append(o, f[m])[x] = o[x]
      OBVIOUS
    <3>3. k \in Below(S, m)
      BY <2>1, <2>3 DEF Below
    <3>4. QED
      BY <1>0, <3>1, <3>2, <3>3
  <2>4. k = m \/ k < m
    BY <2>1
  <2>5. QED
    BY <2>2, <2>3, <2>4
<1>3. Len(Append(o, f[m])) = Len(o) + 1
  OBVIOUS
<1>4. QED
  BY <1>1, <1>2, <1>3 DEF Placed

\* Firsts are positions, and a position in the text is one of them or a second.
LEMMA FirstsArePositions ==
  ASSUME input \in Seq(Octet)
  PROVE  Firsts \in SUBSET Nat /\ IsFiniteSet(Firsts) /\ Firsts \subseteq 1..Len(input)
<1>1. Firsts \subseteq 1..Len(input)
  BY DEF Firsts
<1>2. IsFiniteSet(1..Len(input))
  BY FS_Interval
<1>3. IsFiniteSet(Firsts)
  BY <1>1, <1>2, FS_Subset
<1>4. QED
  BY <1>1, <1>3

\* Where nothing changes but out and i, the characters and their places stay.
LEMMA SameText ==
  ASSUME UNCHANGED <<tables, input>>
  PROVE  /\ \A k : Second(k)' <=> Second(k)
         /\ \A k : CharacterAt(k)' = CharacterAt(k)
         /\ Firsts' = Firsts
         /\ \A k : Place(k)' = Place(k)
BY DEF Second, CharacterAt, Firsts, Place, tables

\* What a step of the loop needs of the invariant.
LEMMA InLoop ==
  ASSUME Inv, In("gsm_to_latin1")
  PROVE  /\ input \in Seq(Octet) /\ out \in Seq(Octet)
         /\ i \in 1..(Len(input) + 1) /\ ~Second(i) /\ OutUpTo(i)
         /\ as_smpp_CharMapGsmToLatin1 \in [Octet -> Octet]
         /\ as_smpp_CharMapGsmXToLatin1 \in [Octet -> Octet]
         /\ EscapesApart
         /\ \A k \in 1..Len(input) : input[k] \in Octet
<1>1. input \in GsmTexts /\ out \in Seq(Octet)
  BY DEF Inv, Calls, In
<1>2. input \in Seq(Octet)
  BY <1>1, TextAssumption DEF TextAssumption
<1>3. \A k \in 1..Len(input) : input[k] \in Octet
  BY <1>2
<1>4. QED
  BY <1>1, <1>2, <1>3 DEF Inv, Tables, Decoding, Ready, In

\* A step that puts out the character at i, and goes on to the next that is
\* not the second of two.
LEMMA PutOut ==
  ASSUME Inv, In("gsm_to_latin1"), i <= Len(input), NEW n \in {i + 1, i + 2},
         \A k \in Firsts : k < n => k <= i,
         CharacterAt(i) \in Octet,
         out' = Append(out, CharacterAt(i)), UNCHANGED <<tables, input>>
  PROVE  /\ Len(out') = Cardinality({j \in Firsts' : j < n})
         /\ \A k \in Firsts' : k < n => out'[Place(k)'] = CharacterAt(k)'
<1> DEFINE f == [k \in Firsts |-> CharacterAt(k)]
<1>1. i \in Firsts /\ i \in Nat /\ n \in Nat /\ i < n
  BY InLoop DEF Firsts
<1>2. Firsts \in SUBSET Nat /\ IsFiniteSet(Firsts)
  BY InLoop, FirstsArePositions
<1>3. \A k \in Firsts : k < n <=> k <= i
  BY <1>1, <1>2
<1>4. Below(Firsts, n) = UpTo(Firsts, i)
  BY <1>3 DEF Below, UpTo
<1>5. f[i] = CharacterAt(i) /\ \A k \in Firsts : f[k] = CharacterAt(k)
  BY <1>1
<1>6. out \in Seq(Octet) /\ Placed(out, Firsts, i, f)
  BY <1>5, InLoop DEF OutUpTo, Place, Placed, Below, UpTo
<1> HIDE DEF f
<1>7. Placed(Append(out, f[i]), Firsts, n, f)
  BY <1>1, <1>2, <1>4, <1>5, <1>6, OneMore
<1>8. QED
  BY <1>5, <1>7, SameText DEF Place, Placed, Below, UpTo

-----------------------------------------------------------------------------
(***************************************************************************)
(* The inductive invariant.                                                *)
(***************************************************************************)
LEMMA InitInv == Init => Inv
BY DEF Init, Inv, Tables, Calls, Decoding, DecodedByPosition, Decoded, Swapping, Ready, Table,
       Reading, DecodesWhatWasEncoded

\* What no step of a call changes.
LEMMA TablesStay ==
  ASSUME Inv, UNCHANGED tables, Ready, Ready' PROVE Tables'
BY DEF Inv, Tables, tables, Ready, EscapesApart, TakenBack

LEMMA KeepsTables ==
  ASSUME Inv, [Next]_vars PROVE Tables'
<1>1. CASE InitLatin1ToGsm
  BY <1>1 DEF Inv, Tables, InitLatin1ToGsm, Ready
<1>2. CASE InitGsmToLatin1
  <2>1. Tables
    BY DEF Inv
  <2>2. pc' = "ready"
    BY <1>2 DEF InitGsmToLatin1
  <2>3. QED
    BY <1>2, <2>1, <2>2, TablesReady DEF Tables, Ready
<1>3. CASE Call \/ DecodeExtended \/ DecodeOne \/ DecodeEnd \/ Encode \/ EncodeEnd
             \/ SwapUnit \/ SwapEnd
  BY <1>3, TablesStay
     DEF Call, DecodeExtended, DecodeOne, DecodeEnd, Encode, EncodeEnd, SwapUnit, SwapEnd,
         In, Ready
<1>4. CASE UNCHANGED vars
  BY <1>4 DEF Inv, Tables, vars, tables, Ready, EscapesApart, TakenBack
<1>5. QED
  BY <1>1, <1>2, <1>3, <1>4 DEF Next

LEMMA KeepsCalls ==
  ASSUME Inv, [Next]_vars PROVE Calls'
<1>1. CASE InitLatin1ToGsm \/ InitGsmToLatin1
  BY <1>1 DEF Inv, Calls, InitLatin1ToGsm, InitGsmToLatin1, call
<1>2. CASE Call
  <2>1. pc' = "loop" /\ \/ op' = "gsm_to_latin1" /\ input' \in GsmTexts /\ out' = <<>>
                        \/ op' = "latin1_to_gsm" /\ input' \in Latin1Texts
                        \/ op' \in {"ucs2 little", "ucs2 big"} /\ input' \in UnicodeTexts
    BY <1>2 DEF Call
  <2>2. <<>> \in Seq(Octet)
    OBVIOUS
  <2>3. QED
    BY <2>1, <2>2 DEF Calls
<1>3. CASE DecodeExtended \/ DecodeOne \/ DecodeEnd
  <2>1. /\ out \in Seq(Octet) /\ i \in 1..(Len(input) + 1)
        /\ \A k \in 1..Len(input) : /\ input[k] \in Octet
                                     /\ as_smpp_CharMapGsmToLatin1[input[k]] \in Octet
                                     /\ as_smpp_CharMapGsmXToLatin1[input[k]] \in Octet
        /\ Len(input) \in Nat
    BY <1>3, InLoop DEF DecodeExtended, DecodeOne, DecodeEnd
  <2>2. PICK o : out' = Append(out, o) /\ o \in Octet
    <3>1. CASE DecodeExtended
      BY <2>1, <3>1 DEF DecodeExtended, Extended
    <3>2. CASE DecodeOne
      BY <2>1, <3>2 DEF DecodeOne
    <3>3. CASE DecodeEnd
      <4>1. out' = Append(out, 0) /\ 0 \in Octet
        BY <3>3 DEF DecodeEnd, Octet
      <4>2. QED
        BY <4>1
    <3>4. QED
      BY <1>3, <3>1, <3>2, <3>3
  <2>3. out' \in Seq(Octet)
    BY <2>1, <2>2
  <2>4. QED
    BY <1>3, <2>3 DEF Inv, Calls, DecodeExtended, DecodeOne, DecodeEnd, In
<1>4. CASE Encode \/ EncodeEnd \/ SwapUnit \/ SwapEnd
  BY <1>4 DEF Inv, Calls, Encode, EncodeEnd, SwapUnit, SwapEnd, In
<1>5. CASE UNCHANGED vars
  BY <1>5 DEF Inv, Calls, vars, call
<1>6. QED
  BY <1>1, <1>2, <1>3, <1>4, <1>5 DEF Next

\* The loop over a GSM text: each step puts out the character at i, and goes on
\* to the next octet that is not the second of two.
LEMMA KeepsDecoding ==
  ASSUME Inv, [Next]_vars PROVE Decoding' /\ DecodedByPosition'
<1>1. CASE InitLatin1ToGsm \/ InitGsmToLatin1
  BY <1>1 DEF InitLatin1ToGsm, InitGsmToLatin1, Decoding, DecodedByPosition, Decoded
<1>2. CASE Call
  <2>1. ASSUME op' = "gsm_to_latin1"
        PROVE  (i \in 1..(Len(input) + 1) /\ ~Second(i) /\ OutUpTo(i))'
    <3>1. i' = 1 /\ out' = <<>> /\ input' \in Seq(Octet)
      BY <1>2, <2>1, TextAssumption DEF Inv, Calls, Call, TextAssumption
    <3>2. \A k \in Firsts' : k \in Nat /\ ~(k < 1)
      BY <3>1 DEF Firsts
    <3>3. {j \in Firsts' : j < 1} = {}
      BY <3>2
    <3>4. Len(out') = Cardinality({j \in Firsts' : j < 1})
      BY <3>1, <3>3, FS_EmptySet
    <3>5. OutUpTo(i)'
      BY <3>1, <3>2, <3>4 DEF OutUpTo
    <3>6. QED
      BY <3>1, <3>5 DEF Second
  <2>2. QED
    BY <1>2, <2>1 DEF Call, Decoding, DecodedByPosition, Decoded
<1>3. CASE DecodeExtended
  <2>1. /\ In("gsm_to_latin1") /\ i <= Len(input) /\ UNCHANGED <<tables, input, op, pc>>
        /\ as_smpp_CharMapGsmToLatin1[input[i]] = NotMapped /\ i < Len(input)
        /\ as_smpp_CharMapGsmXToLatin1[input[i + 1]] # NotMapped
        /\ out' = Append(out, as_smpp_CharMapGsmXToLatin1[input[i + 1]]) /\ i' = i + 2
    BY <1>3 DEF DecodeExtended, Extended, Escape
  <2>2. i \in 1..Len(input) /\ i + 1 \in 1..Len(input) /\ Len(input) \in Nat
    BY <2>1, InLoop
  <2>3. Second(i + 1)
    BY <2>1, <2>2 DEF Second
  <2>4. CharacterAt(i) = as_smpp_CharMapGsmXToLatin1[input[i + 1]] /\ CharacterAt(i) \in Octet
    BY <2>1, <2>2, <2>3, InLoop DEF CharacterAt
  <2>5. \A k \in Firsts : k < i + 2 => k <= i
    BY <2>2, <2>3 DEF Firsts
  <2>6. /\ Len(out') = Cardinality({j \in Firsts' : j < i + 2})
        /\ \A k \in Firsts' : k < i + 2 => out'[Place(k)'] = CharacterAt(k)'
    BY <2>1, <2>4, <2>5, PutOut
  <2>7. ~Second(i + 2)
    <3>1. as_smpp_CharMapGsmToLatin1[input[i + 1]] # NotMapped
      BY <2>1, <2>2, InLoop DEF EscapesApart
    <3>2. QED
      BY <2>2, <3>1 DEF Second
  <2>8. OutUpTo(i)'
    <3>1. {j \in Firsts' : j < i'} = {j \in Firsts' : j < i + 2}
      BY <2>1
    <3>2. \A x \in Firsts' : x < i' <=> x < i + 2
      BY <2>1
    <3>3. QED
      BY <2>6, <3>1, <3>2 DEF OutUpTo
  <2>9. ~Second(i)' /\ i' \in 1..(Len(input') + 1)
    <3>1. ~Second(i)'
      BY <2>1, <2>7 DEF Second, tables
    <3>2. i' \in 1..(Len(input') + 1)
      BY <2>1, <2>2
    <3>3. QED
      BY <3>1, <3>2
  <2>10. QED
    BY <2>1, <2>8, <2>9 DEF Decoding, DecodedByPosition, Decoded, In
<1>4. CASE DecodeOne
  <2>1. /\ In("gsm_to_latin1") /\ i <= Len(input) /\ UNCHANGED <<tables, input, op, pc>>
        /\ ~Extended
        /\ out' = Append(out, IF Escape /\ i < Len(input) THEN input[i]
                              ELSE as_smpp_CharMapGsmToLatin1[input[i]])
        /\ i' = i + 1
    BY <1>4 DEF DecodeOne
  <2>2. i \in 1..Len(input) /\ Len(input) \in Nat
    BY <2>1, InLoop
  <2>3. ~Second(i + 1)
    BY <2>1, <2>2 DEF Second, Extended, Escape
  <2>4. /\ out' = Append(out, CharacterAt(i))
        /\ CharacterAt(i) \in Octet
    BY <2>1, <2>2, <2>3, InLoop DEF CharacterAt, Escape
  <2>5. \A k \in Firsts : k < i + 1 => k <= i
    BY <2>2 DEF Firsts
  <2>6. /\ Len(out') = Cardinality({j \in Firsts' : j < i + 1})
        /\ \A k \in Firsts' : k < i + 1 => out'[Place(k)'] = CharacterAt(k)'
    BY <2>1, <2>4, <2>5, PutOut
  <2>7. OutUpTo(i)'
    <3>1. {j \in Firsts' : j < i'} = {j \in Firsts' : j < i + 1}
      BY <2>1
    <3>2. \A x \in Firsts' : x < i' <=> x < i + 1
      BY <2>1
    <3>3. QED
      BY <2>6, <3>1, <3>2 DEF OutUpTo
  <2>8. ~Second(i)' /\ i' \in 1..(Len(input') + 1)
    <3>1. ~Second(i)'
      BY <2>1, <2>3 DEF Second, tables
    <3>2. i' \in 1..(Len(input') + 1)
      BY <2>1, <2>2
    <3>3. QED
      BY <3>1, <3>2
  <2>9. QED
    BY <2>1, <2>7, <2>8 DEF Decoding, DecodedByPosition, Decoded, In
<1>5. CASE DecodeEnd
  <2>1. /\ In("gsm_to_latin1") /\ i > Len(input) /\ UNCHANGED <<tables, input>>
        /\ out' = Append(out, 0) /\ pc' = "done"
    BY <1>5 DEF DecodeEnd
  <2>2. i \in Nat /\ Firsts \in SUBSET Nat /\ IsFiniteSet(Firsts) /\ out \in Seq(Octet)
    BY <2>1, InLoop, FirstsArePositions
  <2>3. \A k \in Firsts : k < i
    BY <2>1, InLoop, FirstsArePositions
  <2>4. {j \in Firsts : j < i} = Firsts
    BY <2>3
  <2>5. Len(out) = Cardinality(Firsts) /\ \A k \in Firsts : out[Place(k)] = CharacterAt(k)
    BY <2>1, <2>3, <2>4, InLoop DEF OutUpTo
  <2>6. \A k \in Firsts : Place(k) \in 1..Len(out)
    BY <2>2, <2>3, <2>4, <2>5, PlaceBelow DEF Place
  <2>7. /\ Len(out') = Len(out) + 1 /\ out'[Len(out')] = 0
        /\ \A x \in 1..Len(out) : out'[x] = out[x]
    BY <2>1, <2>2
  <2>8. DecodedByPosition'
    BY <2>1, <2>5, <2>6, <2>7, SameText DEF DecodedByPosition, Last
  <2>9. QED
    BY <2>1, <2>8 DEF Decoding
<1>6. CASE Encode \/ EncodeEnd \/ SwapUnit \/ SwapEnd
  BY <1>6 DEF Encode, EncodeEnd, SwapUnit, SwapEnd, In, Decoding, DecodedByPosition, Decoded
<1>7. CASE UNCHANGED vars
  <2>1. UNCHANGED <<tables, input, op, i, out, pc>>
    BY <1>7 DEF vars, call
  <2>2. QED
    BY <2>1, SameText DEF Inv, Decoding, DecodedByPosition, Decoded, OutUpTo
<1>8. QED
  BY <1>1, <1>2, <1>3, <1>4, <1>5, <1>6, <1>7 DEF Next

-----------------------------------------------------------------------------
(***************************************************************************)
(* Decoding what was encoded.                                              *)
(***************************************************************************)
\* The octets of a character begin behind those of the one before it.
LEMMA StartStep ==
  ASSUME NEW text, NEW k \in Nat \ {0}
  PROVE  /\ Start(text, k) \in Nat
         /\ Start(text, k + 1)
              = Start(text, k) + IF Len(GsmOctets(text[k])) = 2 THEN 2 ELSE 1
<1> DEFINE S == {j \in 1..(k - 1) : Len(GsmOctets(text[j])) = 2}
           T == {j \in 1..((k + 1) - 1) : Len(GsmOctets(text[j])) = 2}
<1>1. IsFiniteSet(S)
  <2>1. S \in SUBSET (1..(k - 1)) /\ IsFiniteSet(1..(k - 1))
    BY FS_Interval
  <2> HIDE DEF S
  <2>2. QED
    BY <2>1, FS_Subset
<1>2. k \notin S
  OBVIOUS
<1>3. \A j : j \in 1..((k + 1) - 1) <=> j \in 1..(k - 1) \/ j = k
  OBVIOUS
<1>4. Start(text, k) = k + Cardinality(S) /\ Start(text, k + 1) = k + 1 + Cardinality(T)
  BY DEF Start
<1>5. CASE Len(GsmOctets(text[k])) = 2
  <2>1. T = S \cup {k}
    BY <1>3, <1>5
  <2> HIDE DEF S, T
  <2>2. Cardinality(T) = Cardinality(S) + 1 /\ Cardinality(S) \in Nat
    BY <1>1, <1>2, <2>1, FS_AddElement, FS_CardinalityType
  <2>3. QED
    BY <1>4, <1>5, <2>2
<1>6. CASE Len(GsmOctets(text[k])) # 2
  <2>1. T = S
    BY <1>3, <1>6
  <2> HIDE DEF S, T
  <2>2. Cardinality(S) \in Nat
    BY <1>1, FS_CardinalityType
  <2>3. QED
    BY <1>4, <1>6, <2>1, <2>2
<1>7. QED
  BY <1>5, <1>6

\* A character begins before those that come later.
LEMMA StartRises ==
  ASSUME NEW text, NEW k \in Nat \ {0}, NEW m \in Nat \ {0}, k <= m
  PROVE  Start(text, k) \in Nat /\ Start(text, m) \in Nat /\ Start(text, k) <= Start(text, m)
<1> DEFINE S == {j \in 1..(k - 1) : Len(GsmOctets(text[j])) = 2}
           T == {j \in 1..(m - 1) : Len(GsmOctets(text[j])) = 2}
<1>1. IsFiniteSet(T) /\ S \in SUBSET T
  <2>1. T \in SUBSET (1..(m - 1)) /\ IsFiniteSet(1..(m - 1))
    BY FS_Interval
  <2>2. \A j : j \in 1..(k - 1) => j \in 1..(m - 1)
    OBVIOUS
  <2>3. S \in SUBSET T
    BY <2>2
  <2> HIDE DEF S, T
  <2>4. QED
    BY <2>1, <2>3, FS_Subset
<1>2. Start(text, k) = k + Cardinality(S) /\ Start(text, m) = m + Cardinality(T)
  BY DEF Start
<1> HIDE DEF S, T
<1>3. Cardinality(S) <= Cardinality(T) /\ Cardinality(S) \in Nat /\ Cardinality(T) \in Nat
  BY <1>1, FS_Subset, FS_CardinalityType
<1>4. QED
  BY <1>2, <1>3

\* The octets of a character in the table for encoding.
LEMMA OctetsOfCharacter ==
  ASSUME TakenBack, NEW c \in InBoth
  PROVE  /\ c \in Octet /\ c # NotMapped /\ GsmOf(c) \in Nat
         /\ GsmOf(c) < 256 => GsmOctets(c) = <<GsmOf(c)>> /\ Len(GsmOctets(c)) # 2
         /\ GsmOf(c) >= 256 => GsmOctets(c) = <<\h1b, GsmOf(c) % 256>> /\ Len(GsmOctets(c)) = 2
<1>1. c \in Octet /\ c # NotMapped
  BY DEF InBoth, Octet, NotMapped
<1>2. as_smpp_CharMapLatin1ToGsm[c] = GsmOf(c) /\ GsmOf(c) \in Nat
  BY <1>1, GsmOctet DEF TakenBack
<1>3. CASE GsmOf(c) < 256
  <2>1. GsmOctets(c) = <<GsmOf(c)>>
    BY <1>2, <1>3 DEF GsmOctets
  <2>2. Len(<<GsmOf(c)>>) # 2
    OBVIOUS
  <2>3. QED
    BY <1>1, <1>2, <1>3, <2>1, <2>2
<1>4. CASE GsmOf(c) >= 256
  <2>1. GsmOctets(c) = <<GsmOf(c) \div 256, GsmOf(c) % 256>>
    BY <1>2, <1>4 DEF GsmOctets
  <2>2. GsmOf(c) \div 256 = \h1b
    BY <1>1, <1>4, GsmOctet
  <2>3. Len(<<\h1b, GsmOf(c) % 256>>) = 2
    OBVIOUS
  <2>4. QED
    BY <1>1, <1>2, <1>4, <2>1, <2>2, <2>3
<1>5. QED
  BY <1>2, <1>3, <1>4

\* What the loop reads where the n-th character of a given text begins.
LEMMA AtCharacter ==
  ASSUME Inv, In("gsm_to_latin1"), NEW text \in CommonTexts, Given(text),
         NEW n \in 1..Len(text), i = Start(text, n)
  PROVE  /\ i <= Len(input)
         /\ \/ /\ ~Escape /\ as_smpp_CharMapGsmToLatin1[input[i]] = text[n]
               /\ Start(text, n + 1) = i + 1
            \/ /\ Extended /\ as_smpp_CharMapGsmXToLatin1[input[i + 1]] = text[n]
               /\ Start(text, n + 1) = i + 2
<1> DEFINE c == text[n]
<1>1. /\ DOMAIN text = 1..Len(text) /\ Len(text) \in Nat
  BY TextAssumption DEF TextAssumption
<1>2. c \in InBoth /\ TakenBack
  BY <1>1 DEF Given, Inv, Tables, Ready, In
<1>3. /\ Len(input) = Start(text, Len(text) + 1) - 1
      /\ \A j \in DOMAIN GsmOctets(c) : input[Start(text, n) + j - 1] = GsmOctets(c)[j]
  BY <1>1 DEF Given, Encodes
<1>4. n \in Nat \ {0} /\ n + 1 \in Nat \ {0} /\ Len(text) + 1 \in Nat \ {0}
      /\ n + 1 <= Len(text) + 1
  BY <1>1
<1>5. /\ i \in Nat
      /\ Start(text, n + 1) = i + IF Len(GsmOctets(c)) = 2 THEN 2 ELSE 1
  BY <1>4, StartStep
<1>6. Start(text, n + 1) <= Len(input) + 1 /\ Len(input) \in Int
  <2>1. /\ Start(text, n + 1) \in Nat /\ Start(text, Len(text) + 1) \in Nat
        /\ Start(text, n + 1) <= Start(text, Len(text) + 1)
    BY <1>4, StartRises
  <2>2. QED
    BY <1>3, <2>1
<1> HIDE DEF c
<1>7. CASE GsmOf(c) < 256
  <2>1. GsmOctets(c) = <<GsmOf(c)>> /\ Start(text, n + 1) = i + 1 /\ c # NotMapped
    BY <1>2, <1>5, <1>7, OctetsOfCharacter
  <2>2. input[i + 1 - 1] = GsmOf(c)
    BY <1>3, <2>1
  <2>3. input[i] = GsmOf(c)
    BY <1>5, <2>2
  <2>4. as_smpp_CharMapGsmToLatin1[input[i]] = c
    BY <1>2, <1>7, <2>3 DEF TakenBack
  <2>5. QED
    BY <1>5, <1>6, <2>1, <2>4 DEF Escape, c
<1>8. CASE GsmOf(c) >= 256
  <2>1. /\ GsmOctets(c) = <<\h1b, GsmOf(c) % 256>> /\ Start(text, n + 1) = i + 2
        /\ c # NotMapped
    BY <1>2, <1>5, <1>8, OctetsOfCharacter
  <2>2. input[i + 1 - 1] = \h1b /\ input[i + 2 - 1] = GsmOf(c) % 256
    BY <1>3, <2>1
  <2>3. input[i] = \h1b /\ input[i + 1] = GsmOf(c) % 256
    BY <1>5, <2>2
  <2>4. Escape /\ as_smpp_CharMapGsmXToLatin1[input[i + 1]] = c
    BY <1>2, <1>8, <2>3 DEF TakenBack, Escape
  <2>5. i < Len(input)
    BY <1>5, <1>6, <2>1
  <2>6. QED
    BY <1>5, <2>1, <2>4, <2>5 DEF Extended, c
<1>9. QED
  BY <1>2, <1>7, <1>8, OctetsOfCharacter

\* What Reading says of one text.
ReadOf(text) ==
  /\ Len(out) <= Len(text) /\ i = Start(text, Len(out) + 1)
  /\ \A k \in 1..Len(out) : out[k] = text[k]

\* A step of the loop puts out the next character of a given text.
LEMMA ReadsOn ==
  ASSUME Inv, DecodeExtended \/ DecodeOne, NEW text \in CommonTexts, Given(text)
  PROVE  ReadOf(text)'
<1>1. In("gsm_to_latin1") /\ i <= Len(input) /\ UNCHANGED <<tables, input>>
  BY DEF DecodeExtended, DecodeOne
<1>2. /\ Len(out) <= Len(text) /\ i = Start(text, Len(out) + 1)
      /\ \A k \in 1..Len(out) : out[k] = text[k]
  BY <1>1 DEF Inv, Reading, In
<1>3. out \in Seq(Octet) /\ Len(out) \in Nat
  BY <1>1, InLoop
<1> DEFINE n == Len(out) + 1
<1>4. Len(text) \in Nat
  BY TextAssumption DEF TextAssumption
<1>5. n \in 1..Len(text)
  <2>1. Len(out) # Len(text)
    <3>1. ASSUME Len(out) = Len(text) PROVE FALSE
      <4>1. i = Start(text, Len(text) + 1) /\ Len(input) = Start(text, Len(text) + 1) - 1
        BY <1>2, <3>1 DEF Given, Encodes
      <4>2. Start(text, Len(text) + 1) \in Nat
        BY <1>4, StartStep
      <4>3. QED
        BY <1>1, <4>1, <4>2
    <3>2. QED
      BY <3>1
  <2>2. QED
    BY <1>2, <1>3, <1>4, <2>1
<1>6. out' = Append(out, text[n]) /\ i' = Start(text, n + 1)
  <2>1. \/ /\ ~Escape /\ as_smpp_CharMapGsmToLatin1[input[i]] = text[n]
           /\ Start(text, n + 1) = i + 1
        \/ /\ Extended /\ as_smpp_CharMapGsmXToLatin1[input[i + 1]] = text[n]
           /\ Start(text, n + 1) = i + 2
    BY <1>1, <1>2, <1>5, AtCharacter
  <2>2. Extended => Escape
    BY DEF Extended
  <2>3. CASE DecodeExtended
    BY <2>1, <2>2, <2>3 DEF DecodeExtended
  <2>4. CASE DecodeOne
    BY <2>1, <2>2, <2>4 DEF DecodeOne
  <2>5. QED
    BY <2>3, <2>4
<1>7. Len(out') = n /\ \A k \in 1..n : out'[k] = text[k]
  <2>1. Len(out') = n /\ out'[n] = text[n] /\ \A k \in 1..Len(out) : out'[k] = out[k]
    BY <1>3, <1>6
  <2>2. QED
    BY <1>2, <1>3, <2>1
<1>8. i' = Start(text, Len(out) + 1)'
  <2>1. \A j : GsmOctets(text[j])' = GsmOctets(text[j])
    BY <1>1 DEF GsmOctets, tables
  <2>2. {j \in 1..((Len(out') + 1) - 1) : Len(GsmOctets(text[j])') = 2}
          = {j \in 1..((n + 1) - 1) : Len(GsmOctets(text[j])) = 2}
    BY <1>7, <2>1
  <2>3. QED
    BY <1>6, <1>7, <2>2 DEF Start
<1>9. Len(out') <= Len(text)
  BY <1>4, <1>5, <1>7
<1>10. \A k \in 1..Len(out') : out'[k] = text[k]
  BY <1>7
<1>11. QED
  BY <1>8, <1>9, <1>10 DEF ReadOf

LEMMA KeepsReading ==
  ASSUME Inv, [Next]_vars PROVE Reading' /\ DecodesWhatWasEncoded'
<1>1. CASE InitLatin1ToGsm \/ InitGsmToLatin1
  BY <1>1 DEF InitLatin1ToGsm, InitGsmToLatin1, Reading, DecodesWhatWasEncoded, Decoded
<1>2. CASE Call
  <2>1. pc' = "loop"
    BY <1>2 DEF Call
  <2>2. ASSUME op' = "gsm_to_latin1", NEW text \in CommonTexts PROVE ReadOf(text)'
    <3>1. out' = <<>> /\ i' = 1
      BY <1>2, <2>2 DEF Call, Inv, Calls
    <3>2. Len(text) \in Nat
      BY TextAssumption DEF TextAssumption
    <3>3. Start(text, Len(out) + 1)' = 1
      <4>1. Len(out') = 0
        BY <3>1
      <4>2. {j \in 1..((Len(out') + 1) - 1) : Len(GsmOctets(text[j])') = 2} = {}
        BY <4>1
      <4>3. QED
        BY <4>1, <4>2, FS_EmptySet DEF Start
    <3>4. Len(out') = 0
      BY <3>1
    <3>5. QED
      BY <3>1, <3>2, <3>3, <3>4 DEF ReadOf
  <2>3. QED
    BY <2>1, <2>2 DEF Reading, ReadOf, DecodesWhatWasEncoded, Decoded
<1>3. CASE DecodeExtended \/ DecodeOne
  <2>1. pc' = "loop" /\ UNCHANGED <<tables, input>>
    BY <1>3 DEF DecodeExtended, DecodeOne, In
  <2>2. ASSUME NEW text \in CommonTexts, Given(text)' PROVE ReadOf(text)'
    <3>1. Given(text)
      BY <2>1, <2>2 DEF Given, Encodes, Start, GsmOctets, tables
    <3>2. QED
      BY <1>3, <3>1, ReadsOn
  <2>3. QED
    BY <2>1, <2>2 DEF Reading, ReadOf, DecodesWhatWasEncoded, Decoded
<1>4. CASE DecodeEnd
  <2>1. /\ In("gsm_to_latin1") /\ i > Len(input) /\ out' = Append(out, 0) /\ pc' = "done"
        /\ UNCHANGED <<tables, op, input, i>>
    BY <1>4 DEF DecodeEnd
  <2>2. ASSUME NEW text \in CommonTexts, Given(text)' PROVE out' = text \o <<0>>
    <3>1. Given(text)
      <4>1. UNCHANGED <<tables, input>>
        BY <2>1
      <4>2. QED
        BY <2>2, <4>1 DEF Given, Encodes, Start, GsmOctets, tables
    <3>2. ReadOf(text)
      BY <2>1, <3>1 DEF Inv, Reading, ReadOf, In
    <3>3. out \in Seq(Octet)
      BY <2>1, InLoop
    <3>4. text \in Seq(Nat)
      <4>1. text \in Seq(Octet)
        BY TextAssumption DEF TextAssumption
      <4>2. Octet \subseteq Nat
        BY DEF Octet
      <4>3. QED
        BY <4>1, <4>2, SeqMonotonic, Zenon
    <3>5. ASSUME Len(out) # Len(text) PROVE FALSE
      <4>1. Len(out) + 1 \in 1..Len(text) /\ i = Start(text, Len(out) + 1)
        BY <3>2, <3>3, <3>4, <3>5 DEF ReadOf
      <4>2. i <= Len(input)
        BY <2>1, <3>1, <4>1, AtCharacter
      <4>3. Len(input) \in Nat /\ i \in Nat
        BY <2>1, InLoop
      <4>4. QED
        BY <2>1, <4>2, <4>3
    <3>6. out = text
      BY <3>2, <3>3, <3>4, <3>5 DEF ReadOf
    <3>7. QED
      BY <2>1, <3>3, <3>6
  <2>3. QED
    BY <2>1, <2>2 DEF Reading, DecodesWhatWasEncoded, Decoded, Given
<1>5. CASE Encode \/ EncodeEnd \/ SwapUnit \/ SwapEnd
  BY <1>5 DEF Encode, EncodeEnd, SwapUnit, SwapEnd, In, Reading, DecodesWhatWasEncoded, Decoded
<1>6. CASE UNCHANGED vars
  <2>1. UNCHANGED <<tables, input, op, i, out, pc>>
    BY <1>6 DEF vars, call
  <2>2. \A text : Given(text)' <=> Given(text)
    BY <2>1 DEF Given, Encodes, Start, GsmOctets, tables
  <2>3. \A text : ReadOf(text)' <=> ReadOf(text)
    BY <2>1 DEF ReadOf, Start, GsmOctets, tables
  <2>4. Reading'
    BY <2>1, <2>2, <2>3 DEF Inv, Reading, ReadOf
  <2>5. DecodesWhatWasEncoded'
    BY <2>1, <2>2 DEF Inv, DecodesWhatWasEncoded, Decoded, Given
  <2>6. QED
    BY <2>4, <2>5
<1>7. QED
  BY <1>1, <1>2, <1>3, <1>4, <1>5, <1>6 DEF Next

-----------------------------------------------------------------------------
(***************************************************************************)
(* Exchanging the octets of units.                                         *)
(***************************************************************************)
\* The terminator is in the text, and nothing before it is a terminator.
LEMMA EndIsFirst ==
  ASSUME NEW text \in UnicodeTexts, NEW end,
         end = Min({k \in DOMAIN text : text[k] = 0})
  PROVE  /\ text \in Seq(Unit) /\ DOMAIN text = 1..Len(text) /\ Len(text) \in Nat
         /\ \A k \in 1..Len(text) : text[k] \in Unit
         /\ end \in 1..Len(text) /\ text[end] = 0
         /\ \A k \in 1..Len(text) : text[k] = 0 => end <= k
<1> DEFINE S == {k \in DOMAIN text : text[k] = 0}
<1>1. text \in Seq(Unit) /\ \E k \in DOMAIN text : text[k] = 0
  BY TextAssumption DEF TextAssumption
<1>2. /\ DOMAIN text = 1..Len(text) /\ Len(text) \in Nat
      /\ \A k \in 1..Len(text) : text[k] \in Unit
  BY <1>1
<1>3. S \in SUBSET Nat /\ S # {}
  BY <1>1, <1>2
<1>4. Min(S) \in S /\ \A x \in S : Min(S) <= x
  <2> HIDE DEF S
  <2>1. QED
    BY <1>3, MinIsLeast
<1>5. QED
  BY <1>1, <1>2, <1>4

\* The facts of EndIsFirst for the text of a call.
LEMMA TextOfCall ==
  ASSUME Inv, op \in {"ucs2 little", "ucs2 big"}, pc \in {"loop", "done"}
  PROVE  /\ DOMAIN input = 1..Len(input) /\ Len(input) \in Nat
         /\ \A k \in 1..Len(input) : input[k] \in Unit
         /\ End \in 1..Len(input) /\ input[End] = 0
         /\ \A k \in 1..Len(input) : input[k] = 0 => End <= k
<1>1. input \in UnicodeTexts
  BY DEF Inv, Calls
<1>2. QED
  BY <1>1, EndIsFirst DEF End

LEMMA KeepsSwapping ==
  ASSUME Inv, [Next]_vars PROVE Swapping'
<1>1. CASE InitLatin1ToGsm \/ InitGsmToLatin1
  BY <1>1 DEF InitLatin1ToGsm, InitGsmToLatin1, Swapping
<1>2. CASE Call
  <2>1. CASE op' = "ucs2 little"
    <3>1. input' \in UnicodeTexts /\ out' = input' /\ i' = 1 /\ pc' = "loop"
      BY <1>2, <2>1 DEF Call, Inv, Calls
    <3>2. /\ input' \in Seq(Unit) /\ DOMAIN input' = 1..Len(input') /\ Len(input') \in Nat
          /\ End' \in 1..Len(input')
      BY <3>1, EndIsFirst DEF End
    <3>3. \A k \in DOMAIN input' : ~(k < i')
      BY <3>1, <3>2
    <3>4. input' = [k \in DOMAIN input' |-> input'[k]]
      BY <3>2
    <3>5. out' = [k \in DOMAIN input' |-> IF k < i' THEN Swapped(input'[k]) ELSE input'[k]]
      BY <3>1, <3>3, <3>4
    <3>6. i' \in 1..End'
      BY <3>1, <3>2
    <3>7. QED
      BY <2>1, <3>1, <3>5, <3>6 DEF Swapping
  <2>2. CASE op' # "ucs2 little"
    BY <1>2, <2>2 DEF Call, Swapping
  <2>3. QED
    BY <2>1, <2>2
<1>3. CASE DecodeExtended \/ DecodeOne \/ DecodeEnd \/ Encode \/ EncodeEnd
  BY <1>3 DEF DecodeExtended, DecodeOne, DecodeEnd, Encode, EncodeEnd, In, Swapping
<1>4. CASE SwapUnit
  <2>1. /\ op = "ucs2 little" /\ pc = "loop" /\ out[i] # 0
        /\ out' = [out EXCEPT ![i] = Swapped(out[i])] /\ i' = i + 1
        /\ UNCHANGED <<op, input, pc>>
    BY <1>4 DEF SwapUnit, In, AtTerminator
  <2>2. /\ i \in 1..End
        /\ out = [k \in DOMAIN input |-> IF k < i THEN Swapped(input[k]) ELSE input[k]]
    BY <2>1 DEF Inv, Swapping
  <2>3. /\ DOMAIN input = 1..Len(input) /\ Len(input) \in Nat
        /\ End \in 1..Len(input) /\ input[End] = 0
    BY <2>1, TextOfCall
  <2>4. i \in 1..Len(input) /\ out[i] = input[i]
    BY <2>2, <2>3
  <2>5. i' \in 1..End
    <3>1. i # End
      BY <2>1, <2>3, <2>4
    <3>2. i \in Nat /\ End \in Nat /\ 1 <= i /\ i <= End
      BY <2>2, <2>3
    <3>3. i' = i + 1
      BY <1>4 DEF SwapUnit
    <3>4. QED
      BY <3>1, <3>2, <3>3
  <2>6. out' = [k \in DOMAIN input |-> IF k < i' THEN Swapped(input[k]) ELSE input[k]]
    <3>1. out' = [k \in DOMAIN input |-> IF k = i THEN Swapped(out[i]) ELSE out[k]]
      BY <2>1, <2>2
    <3>2. ASSUME NEW k \in DOMAIN input
          PROVE  (IF k = i THEN Swapped(out[i]) ELSE out[k])
                   = IF k < i' THEN Swapped(input[k]) ELSE input[k]
      <4>1. k \in Nat /\ i \in Nat /\ i' = i + 1
        <5>1. i' = i + 1
          BY <1>4 DEF SwapUnit
        <5>2. k \in Nat /\ i \in Nat
          BY <2>3, <2>4, <3>2
        <5>3. QED
          BY <5>1, <5>2
      <4>2. k < i' <=> k < i \/ k = i
        BY <4>1
      <4>3. out[k] = IF k < i THEN Swapped(input[k]) ELSE input[k]
        BY <2>2, <3>2
      <4>4. ~(i < i)
        BY <4>1
      <4>5. QED
        BY <2>4, <4>2, <4>3, <4>4
    <3>3. QED
      BY <3>1, <3>2
  <2>7. End' = End
    BY <2>1 DEF End
  <2>8. QED
    BY <2>1, <2>5, <2>6, <2>7 DEF Swapping
<1>5. CASE SwapEnd
  <2>1. CASE op = "ucs2 little"
    <3>1. /\ pc = "loop" /\ out[i] = 0 /\ UNCHANGED <<op, input, i, out>>
      BY <1>5, <2>1 DEF SwapEnd, In, AtTerminator
    <3>2. /\ i \in 1..End
          /\ out = [k \in DOMAIN input |-> IF k < i THEN Swapped(input[k]) ELSE input[k]]
      BY <2>1, <3>1 DEF Inv, Swapping
    <3>3. /\ DOMAIN input = 1..Len(input) /\ Len(input) \in Nat /\ End \in 1..Len(input)
          /\ \A k \in 1..Len(input) : input[k] = 0 => End <= k
      BY <2>1, <3>1, TextOfCall
    <3>4. i \in 1..Len(input) /\ out[i] = input[i]
      BY <3>2, <3>3
    <3>5. i = End
      BY <3>1, <3>2, <3>3, <3>4
    <3>6. End' = End
      BY <3>1 DEF End
    <3>7. QED
      BY <2>1, <3>1, <3>2, <3>5, <3>6 DEF Swapping
  <2>2. CASE op = "ucs2 big"
    BY <1>5, <2>2 DEF SwapEnd, In, Inv, Swapping
  <2>3. QED
    BY <1>5, <2>1, <2>2 DEF SwapEnd, In
<1>6. CASE UNCHANGED vars
  BY <1>6 DEF vars, call, Inv, Swapping, End
<1>7. QED
  BY <1>1, <1>2, <1>3, <1>4, <1>5, <1>6 DEF Next

\* Two digits, exchanged.
LEMMA ExchangedDigits ==
  ASSUME NEW b \in Nat, b > 0, NEW u \in 0..(b * b - 1),
         NEW s, s = (u % b) * b + u \div b
  PROVE  s % b = u \div b /\ s \div b = u % b
<1>1. u \in Nat /\ u < b * b
  OBVIOUS
<1>2. u \div b \in 0..(b - 1) /\ u % b \in 0..(b - 1)
  BY <1>1
<1>3. \A h, l \in 0..(b - 1) : (l * b + h) % b = h /\ (l * b + h) \div b = l
  OBVIOUS
<1>4. QED
  BY <1>2, <1>3

\* The octets of a unit, exchanged, in the order of the other platform.
LEMMA SwappedUnit ==
  \A u \in Unit : Swapped(u) % 256 = u \div 256 /\ Swapped(u) \div 256 = u % 256
<1> DEFINE b == 256
<1>1. b \in Nat /\ b > 0
  OBVIOUS
<1>2. Unit = 0..(b * b - 1)
  BY DEF Unit
<1>3. \A u : Swapped(u) = (u % b) * b + u \div b
  BY DEF Swapped
<1> HIDE DEF b
<1>4. \A u \in 0..(b * b - 1) : Swapped(u) % b = u \div b /\ Swapped(u) \div b = u % b
  BY <1>1, <1>3, ExchangedDigits
<1>5. QED
  BY <1>2, <1>4, Zenon DEF b

-----------------------------------------------------------------------------
(***************************************************************************)
(* The theorems.                                                           *)
(***************************************************************************)
\* Inv holds in every state: the tables are complete before the first call, and
\* every loop has done the part of its work that is behind its position.
THEOREM InvCorrect == Spec => []Inv
<1>1. Inv /\ [Next]_vars => Inv'
  BY KeepsTables, KeepsCalls, KeepsDecoding, KeepsReading, KeepsSwapping DEF Inv
<1>2. QED
  BY <1>1, InitInv, PTL DEF Spec

\* A GSM text of any length is decoded to one character for each octet that is
\* not the second of two, in their order, and a terminator
\* (as_smpp_converter_gsm_to_latin1).
THEOREM DecodingCorrect == Spec => []DecodedByPosition
<1>1. Inv => DecodedByPosition
  BY DEF Inv
<1>2. QED
  BY <1>1, InvCorrect, PTL

\* A text of any length of characters that both alphabets have, in the octets the
\* table for encoding has for them, is decoded to itself
\* (as_smpp_converter_gsm_to_latin1).
THEOREM InverseCorrect == Spec => []DecodesWhatWasEncoded
<1>1. Inv => DecodesWhatWasEncoded
  BY DEF Inv
<1>2. QED
  BY <1>1, InvCorrect, PTL

\* On either platform the units of a text of any length before its terminator
\* end up with the high octet first, and what lies behind it is left alone
\* (as_smpp_converter_transcode_unicode_to_ucs2_be).
THEOREM Ucs2Correct == Spec => []Ucs2IsBigEndian
<1>1. ASSUME Inv PROVE Ucs2IsBigEndian
  <2>1. SUFFICES ASSUME op \in {"ucs2 little", "ucs2 big"}, pc = "done", NEW k \in DOMAIN input
                 PROVE  Memory(out[k]) = IF k < End THEN <<input[k] \div 256, input[k] % 256>>
                                         ELSE Memory(input[k])
    BY <1>1 DEF Ucs2IsBigEndian, End
  <2>2. /\ DOMAIN input = 1..Len(input) /\ input[k] \in Unit
    BY <1>1, <2>1, TextOfCall
  <2>3. CASE op = "ucs2 big"
    BY <1>1, <2>1, <2>3 DEF Inv, Swapping, Memory
  <2>4. CASE op = "ucs2 little"
    <3>1. out[k] = IF k < End THEN Swapped(input[k]) ELSE input[k]
      BY <1>1, <2>1, <2>4 DEF Inv, Swapping
    <3>2. CASE k < End
      <4>1. out[k] = Swapped(input[k])
        BY <3>1, <3>2
      <4>2. Memory(out[k]) = <<out[k] % 256, out[k] \div 256>>
        BY <2>4 DEF Memory
      <4>3. QED
        BY <2>2, <3>2, <4>1, <4>2, SwappedUnit
    <3>3. CASE ~(k < End)
      BY <3>1, <3>3
    <3>4. QED
      BY <3>2, <3>3
  <2>5. QED
    BY <2>1, <2>3, <2>4
<1>2. QED
  BY <1>1, InvCorrect, PTL

=============================================================================
