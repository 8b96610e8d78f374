---------------------------- MODULE MCConverter -----------------------------
(***************************************************************************)
(* All texts of one and two octets, longer ones over the octets that the   *)
(* tables treat in different ways, and strings of both kinds of units.     *)
(***************************************************************************)
EXTENDS Converter

\* An escape, the octet that decodes like one, an octet with no character,
\* the second octets of two extended characters, and plain octets.
Kinds == {\h1b, \hff, \h5b, \h0a, \h3c, \h40, \h41, \h00}

MCGsmTexts ==
  {<<>>} \union {<<a>> : a \in Octet} \union {<<a, b>> : a \in 0..127, b \in 0..127}
    \union [1..3 -> Kinds] \union [1..4 -> Kinds \ {\h5b, \h00}]

\* @, _, [, |, $, form feed and a letter
MCLatin1Texts == {<<>>} \union UNION {[1..n -> {\h40, \h5f, \h5b, \h7c, \h24, \h0c, \h41}] : n \in 1..2}

\* Texts of one and two characters, with those above and a pound sign and an e
\* with a grave accent, and each character that both alphabets have.
MCCommonTexts ==
  {<<c>> : c \in InBoth}
    \union UNION {[1..n -> {\h40, \h5f, \h5b, \h7c, \h24, \h0c, \h41, \ha3, \he8}] : n \in {0, 2}}

MCUnicodeTexts ==
  UNION {{text \in [1..n -> {0, 1, \h41, \h100, \h4100, \hd83d}] : \E k \in 1..n : text[k] = 0} :
           n \in 1..4}
=============================================================================
