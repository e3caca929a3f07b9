--------------------------- MODULE MCSentencesParser --------------------------
(* Every text of up to MaxLen characters, and some longer ones: comments and  *)
(* literals around a delimiter, and literals over several lines.             *)
EXTENDS SentencesParser

CONSTANTS MaxLen, MaxLonger

Characters == {"x", " ", "\n", ";", "'", "tick", "\\", "-", "#", "/", "*"}

OfLength(lengths, chars) == UNION {[1 .. n -> chars] : n \in lengths}

SomeTexts ==
    OfLength(0 .. MaxLen, Characters)
        \cup OfLength(MaxLen + 1 .. MaxLonger, {";", "'", "/", "*"})
        \cup OfLength(MaxLen + 1 .. MaxLonger, {"\n", ";", "'", "#"})
=============================================================================
