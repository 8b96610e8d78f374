----------------------------- MODULE Converter ------------------------------
(***************************************************************************)
(* converter.c: texts in GSM 03.38, Latin-1 and UCS-2.  A step is one      *)
(* iteration of the loop of a function; the functions keep no state beyond *)
(* the tables, so that one call is all there is to look at.                *)
(***************************************************************************)
EXTENDS Integers, SequencesExt, FiniteSetsExt

CONSTANTS
  GsmTexts,       \* contents of a_gsm, sequences of octets
  Latin1Texts,    \* strings a_latin1, without their terminator
  CommonTexts,    \* texts that the result of a decoding is compared with
  UnicodeTexts,   \* strings a_text: 16-bit units, with what lies behind the terminator
  MaxOut          \* bound: the octets as_smpp_converter_latin1_to_gsm puts out

Octet == 0..255
Unit == 0..(256 * 256 - 1)

ASSUME TextAssumption ==
  /\ GsmTexts \subseteq Seq(Octet)
  /\ Latin1Texts \subseteq Seq(1..127)  \* char may be signed, and is an index
  /\ CommonTexts \subseteq Seq(Octet)
  /\ UnicodeTexts \subseteq Seq(Unit)
  /\ \A text \in UnicodeTexts : \E i \in DOMAIN text : text[i] = 0
  /\ MaxOut \in Nat

VARIABLES
  as_smpp_CharMapLatin1ToGsm,   \* the tables in static memory
  as_smpp_CharMapGsmToLatin1,
  as_smpp_CharMapGsmXToLatin1,
  op,         \* the function that was called, with the byte order of the platform
  input,      \* its argument
  i,          \* its position in it, from 1
  out,        \* the data of the buffer it fills, or the memory it changes
  pc          \* "static" and "encoding" before it, "ready" for a call, "loop" or "done"

tables == <<as_smpp_CharMapLatin1ToGsm, as_smpp_CharMapGsmToLatin1, as_smpp_CharMapGsmXToLatin1>>
call == <<op, input, i, out>>
vars == <<tables, call, pc>>

Table(value) == [g \in Octet |-> value]

Init ==
  /\ as_smpp_CharMapLatin1ToGsm = Table(0)
  /\ as_smpp_CharMapGsmToLatin1 = Table(0)
  /\ as_smpp_CharMapGsmXToLatin1 = Table(0)
  /\ op = "none" /\ input = <<>> /\ i = 1 /\ out = <<>>
  /\ pc = "static"

-----------------------------------------------------------------------------
NotMapped == \hff

\* The characters whose GSM octets are not their own code, with these octets:
\* two in one value for the extended ones.
Different ==
  {<<\h5f, \h11>>, <<\h40, 0>>, <<\ha3, 1>>, <<\h24, 2>>, <<\ha5, 3>>,
   <<\he8, 4>>, <<\he9, 5>>, <<\hf9, 6>>, <<\hec, 7>>, <<\hf2, 8>>,
   <<\hc7, 9>>, <<\hd8, \h0b>>, <<\hf8, \h0c>>, <<\hc5, \h0e>>,
   <<\he5, \h0f>>, <<\h0c, \h1b0a>>, <<\h5e, \h1b14>>, <<\h7b, \h1b28>>,
   <<\h7d, \h1b29>>, <<\h5c, \h1b2f>>, <<\h5b, \h1b3c>>, <<\h7e, \h1b3d>>,
   <<\h5d, \h1b3e>>, <<\h7c, \h1b40>>, <<\ha4, \h24>>, <<\ha1, \h40>>}

Codes == {p[2] : p \in Different}

GsmOf(c) ==
  IF \E g \in Codes : <<c, g>> \in Different
  THEN CHOOSE g \in Codes : <<c, g>> \in Different
  ELSE c

\* Mutant of StoredLast: the loop runs down.
StoredFirst(S) == Min(S)

\* Of the characters in S, the one for which the loop over 0..255 stores last.
StoredLast(S) == Max(S)

\* as_smpp_converter_init: first the table for encoding.
InitLatin1ToGsm ==
  /\ pc = "static"
  /\ as_smpp_CharMapLatin1ToGsm' = [c \in Octet |-> GsmOf(c)]
  /\ as_smpp_CharMapGsmXToLatin1' = Table(NotMapped)
  /\ pc' = "encoding"
  /\ UNCHANGED <<as_smpp_CharMapGsmToLatin1, call>>

Plain == {c \in Octet : as_smpp_CharMapLatin1ToGsm[c] < 256}
FirstOctet(c) == as_smpp_CharMapLatin1ToGsm[c] \div (IF c \in Plain THEN 1 ELSE 256)

\* Then those for decoding.  An octet that no character has keeps the 0 of
\* static memory; the octet that begins the extended characters is marked.
InitGsmToLatin1 ==
  /\ pc = "encoding"
  /\ as_smpp_CharMapGsmToLatin1' =
       [g \in Octet |->
          LET S == {c \in Octet : FirstOctet(c) = g}
          IN IF S = {} THEN as_smpp_CharMapGsmToLatin1[g]
             ELSE IF StoredLast(S) \in Plain THEN StoredLast(S) ELSE NotMapped]
  /\ as_smpp_CharMapGsmXToLatin1' =
       [g \in Octet |->
          LET S == {c \in Octet \ Plain : as_smpp_CharMapLatin1ToGsm[c] % 256 = g}
          IN IF S = {} THEN as_smpp_CharMapGsmXToLatin1[g] ELSE StoredLast(S)]
  /\ pc' = "ready"
  /\ UNCHANGED <<as_smpp_CharMapLatin1ToGsm, call>>

Call ==
  /\ pc = "ready"
  /\ \/ op' = "gsm_to_latin1" /\ input' \in GsmTexts /\ out' = <<>>
     \/ op' = "latin1_to_gsm" /\ input' \in Latin1Texts /\ out' = <<>>
     \/ op' \in {"ucs2 little", "ucs2 big"} /\ input' \in UnicodeTexts /\ out' = input'
  /\ pc' = "loop"
  /\ UNCHANGED <<tables, i>>

In(function) == op = function /\ pc = "loop"

\* as_smpp_converter_gsm_to_latin1, an iteration for each character.
Escape == as_smpp_CharMapGsmToLatin1[input[i]] = NotMapped

\* Mutant of Extended: each escape takes the next octet.
ExtendedAlways == Escape /\ i < Len(input)

\* The octets at i and i + 1 are one character.
Extended ==
  /\ Escape /\ i < Len(input)
  /\ as_smpp_CharMapGsmXToLatin1[input[i + 1]] # NotMapped

DecodeExtended ==
  /\ In("gsm_to_latin1") /\ i <= Len(input)
  /\ Extended
  /\ out' = Append(out, as_smpp_CharMapGsmXToLatin1[input[i + 1]])
  /\ i' = i + 2
  /\ UNCHANGED <<tables, op, input, pc>>

\* An escape before an octet that is not in the extension table stays as it is.
DecodeOne ==
  /\ In("gsm_to_latin1") /\ i <= Len(input)
  /\ ~Extended
  /\ out' = Append(out, IF Escape /\ i < Len(input) THEN input[i]
                        ELSE as_smpp_CharMapGsmToLatin1[input[i]])
  /\ i' = i + 1
  /\ UNCHANGED <<tables, op, input, pc>>

DecodeEnd ==
  /\ In("gsm_to_latin1") /\ i > Len(input)
  /\ out' = Append(out, 0)
  /\ pc' = "done"
  /\ UNCHANGED <<tables, op, input, i>>

\* The octets of a character.
GsmOctets(c) ==
  LET ch == as_smpp_CharMapLatin1ToGsm[c]
  IN IF ch > 255 THEN <<ch \div 256, ch % 256>> ELSE <<ch>>

\* as_smpp_converter_latin1_to_gsm: the pointer into the string stays where it is.
Encode ==
  /\ In("latin1_to_gsm") /\ i <= Len(input)
  /\ Len(out) < MaxOut
  /\ out' = out \o GsmOctets(input[i])
  /\ UNCHANGED <<tables, op, input, i, pc>>

EncodeEnd ==
  /\ In("latin1_to_gsm") /\ i > Len(input)
  /\ pc' = "done"
  /\ UNCHANGED <<tables, op, input, i, out>>

\* as_smpp_converter_transcode_unicode_to_ucs2_be.
Swapped(u) == (u % 256) * 256 + u \div 256

\* Mutant of AtTerminator: an octet is looked at, not a unit.
AtTerminatorOctet == out[i] % 256 = 0

AtTerminator == out[i] = 0

SwapUnit ==
  /\ In("ucs2 little") /\ ~AtTerminator
  /\ out' = [out EXCEPT ![i] = Swapped(@)]
  /\ i' = i + 1
  /\ UNCHANGED <<tables, op, input, pc>>

SwapEnd ==
  /\ In("ucs2 big") \/ (In("ucs2 little") /\ AtTerminator)
  /\ pc' = "done"
  /\ UNCHANGED <<tables, op, input, i, out>>

Next ==
  \/ InitLatin1ToGsm \/ InitGsmToLatin1 \/ Call
  \/ DecodeExtended \/ DecodeOne \/ DecodeEnd
  \/ Encode \/ EncodeEnd
  \/ SwapUnit \/ SwapEnd

Spec == Init /\ [][Next]_vars

-----------------------------------------------------------------------------
(***************************************************************************)
(* Properties.                                                             *)
(***************************************************************************)
Decoded == op = "gsm_to_latin1" /\ pc = "done"

(***************************************************************************)
(* The second octet of an extended character is one behind an escape, and  *)
(* in the extension table.  No escape is in that table, so that this does  *)
(* not depend on where the decoding of the text began.                     *)
(***************************************************************************)
Second(k) ==
  /\ k \in 2..Len(input)
  /\ as_smpp_CharMapGsmToLatin1[input[k - 1]] = NotMapped
  /\ as_smpp_CharMapGsmXToLatin1[input[k]] # NotMapped

CharacterAt(k) ==
  IF Second(k + 1) THEN as_smpp_CharMapGsmXToLatin1[input[k + 1]]
  ELSE IF k < Len(input) /\ as_smpp_CharMapGsmToLatin1[input[k]] = NotMapped THEN input[k]
  ELSE as_smpp_CharMapGsmToLatin1[input[k]]

\* The octets that are not the second of two, and the place of the one at k.
Firsts == {k \in DOMAIN input : ~Second(k)}
Place(k) == Cardinality({j \in Firsts : j <= k})

(***************************************************************************)
(* The loop, which skips octets as it goes, puts out one character for     *)
(* each octet that is not the second of two, in their order, and a         *)
(* terminator.                                                             *)
(***************************************************************************)
DecodedByPosition ==
  Decoded =>
    /\ Len(out) = Cardinality(Firsts) + 1 /\ Last(out) = 0
    /\ \A k \in Firsts : out[Place(k)] = CharacterAt(k)

\* The characters of Latin-1 the library has a GSM octet of their own for.
InBoth ==
  (\h20..\h7e) \union {\h0a, \h0c, \h0d}
    \union {\ha1, \ha3, \ha4, \ha5, \hc5, \hc7, \hd8, \he5, \he8, \he9, \hec, \hf2, \hf8, \hf9}

\* Where the octets of the k-th character begin, in the encoding of a text.
Start(text, k) == k + Cardinality({j \in 1..(k - 1) : Len(GsmOctets(text[j])) = 2})

\* The input is what the table has for the characters of the text.
Encodes(text) ==
  /\ Len(input) = Start(text, Len(text) + 1) - 1
  /\ \A k \in DOMAIN text :
       LET octets == GsmOctets(text[k])
       IN \A j \in DOMAIN octets : input[Start(text, k) + j - 1] = octets[j]

(***************************************************************************)
(* A text of characters that both alphabets have, in the octets that the   *)
(* table has for them, is decoded to itself: the two tables for decoding,  *)
(* which the code derives from the one for encoding in a single pass over  *)
(* values that collide, are its inverse.                                   *)
(***************************************************************************)
DecodesWhatWasEncoded ==
  Decoded =>
    \A text \in CommonTexts :
      /\ \A k \in DOMAIN text : text[k] \in InBoth
      /\ Encodes(text)
      => out = text \o <<0>>

\* The two octets of a unit in the memory of the platform.
Memory(u) ==
  IF op = "ucs2 big" THEN <<u \div 256, u % 256>> ELSE <<u % 256, u \div 256>>

(***************************************************************************)
(* On either platform the units before the terminator end up with the high *)
(* octet first, units that contain a zero octet too, and the rest of the   *)
(* memory stays as it was.                                                 *)
(***************************************************************************)
Ucs2IsBigEndian ==
  op \in {"ucs2 little", "ucs2 big"} /\ pc = "done" =>
    LET end == Min({k \in DOMAIN input : input[k] = 0})
    IN \A k \in DOMAIN input :
         Memory(out[k]) = IF k < end THEN <<input[k] \div 256, input[k] % 256>>
                          ELSE Memory(input[k])
=============================================================================
