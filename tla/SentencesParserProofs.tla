------------------------- MODULE SentencesParserProofs ------------------------
(***************************************************************************)
(* Theorems about the two scanners, for texts of any length over any         *)
(* characters.                                                              *)
(***************************************************************************)
EXTENDS SentencesParser, TLAPS

Sentences == [position : Nat, text : Seq(Chars)]
Tokens    == [from : Nat, to : Nat, type : Modes]

LEMMA TextType == TypeOK => Len(text) \in Nat /\ text \in Seq(Chars)
  BY DEF TypeOK

(* Two characters that are there both lie within the text.                   *)
LEMMA TwoCharacters ==
  ASSUME TypeOK, StartsBig \/ EndsBig
  PROVE  i + 2 <= Len(text)
<1>1. i \in Nat /\ Len(text) \in Nat
  BY DEF TypeOK
<1>2. At(i + 1) # "null"
  BY DEF StartsBig, EndsBig, Ahead
<1> QED
  BY <1>1, <1>2 DEF At

LEMMA ModeAfterType == TypeOK => ModeAfter \in Modes
<1> SUFFICES ASSUME TypeOK PROVE ModeAfter \in Modes
  OBVIOUS
<1>1. Opens => Here \in Modes
  BY DEF Opens, Modes, Open
<1>2. {"code", "line", "big", mode} \subseteq Modes
  BY DEF TypeOK, Modes, Open
<1> QED
  BY <1>1, <1>2 DEF ModeAfter

LEMMA SentenceType ==
  ASSUME TypeOK, NEW p \in Nat, NEW e \in Nat, p <= e, e <= Len(text)
  PROVE  /\ SentenceAt(p, e) \in Sentences
         /\ SentenceAt(p, e).position = p
         /\ SentenceAt(p, e).text = SubSeq(text, p + 1, e)
         /\ EndOf(SentenceAt(p, e)) = e
<1>1. text \in Seq(Chars) /\ Len(text) \in Nat
  BY TextType
<1>2. SubSeq(text, p + 1, e) \in Seq(Chars) /\ Len(SubSeq(text, p + 1, e)) = e - p
  BY <1>1
<1> QED
  BY <1>2 DEF SentenceAt, Sentences, EndOf

LEMMA TypeSplit == TypeOK /\ Split => TypeOK'
<1> SUFFICES ASSUME TypeOK, Split PROVE TypeOK'
  OBVIOUS
<1>t. i \in Nat /\ left \in Nat /\ Len(text) \in Nat /\ left <= Len(text) /\ i <= Len(text)
  BY TextType DEF TypeOK
<1>1. CASE InSentence \/ EmptySentence
  <2>1. /\ i < Len(text) /\ i' = i + 1 /\ mode' \in Modes /\ esc' \in BOOLEAN
        /\ UNCHANGED <<text, stage, left, sentences, start, tokens, blockState>>
    BY <1>1, ModeAfterType DEF InSentence, EmptySentence, NextChar, splitVars, highlightVars
  <2> QED
    BY <1>t, <2>1 DEF TypeOK
<1>2. CASE EndSentence
  <2>1. /\ i < Len(text) /\ i' = i + 1 /\ mode' \in Modes /\ esc' \in BOOLEAN
        /\ UNCHANGED <<text, stage, start, tokens, blockState>>
    BY <1>2, ModeAfterType DEF EndSentence, NextChar, highlightVars
  <2>2. left' \in 0 .. Len(text)
    <3>1. left' = i + 1
      BY <1>2 DEF EndSentence, LeftAfter
    <3> QED
      BY <1>t, <2>1, <3>1
  <2>3. sentences' \in Seq(Sentences)
    <3>1. PICK p \in left .. Right, e \in left .. Right :
              /\ Bounds(p, e)
              /\ sentences' = IF e = p + 1 /\ At(p) = ";" THEN sentences
                              ELSE Append(sentences, SentenceAt(p, e))
      BY <1>2 DEF EndSentence
    <3>2. p \in Nat /\ e \in Nat /\ p <= e /\ e <= Len(text)
      <4>1. Right \in Nat /\ Right <= Len(text)
        BY <1>t, <2>1 DEF Right
      <4>2. p \in left .. Right - 1 /\ e \in p + 1 .. Right
        BY <3>1 DEF Bounds
      <4> QED
        BY <1>t, <4>1, <4>2
    <3>3. SentenceAt(p, e) \in Sentences /\ sentences \in Seq(Sentences)
      BY <3>2, SentenceType DEF TypeOK, Sentences
    <3>4. Append(sentences, SentenceAt(p, e)) \in Seq(Sentences)
      BY <3>3
    <3> QED
      BY <3>1, <3>3, <3>4
  <2> QED
    BY <1>t, <2>1, <2>2, <2>3 DEF TypeOK, Sentences
<1>3. CASE StartHighlight
  <2>1. /\ i' = 0 /\ mode' = "code" /\ esc' = FALSE /\ stage' = "highlight"
        /\ UNCHANGED <<text, left, sentences, start, tokens, blockState>>
    BY <1>3 DEF StartHighlight, splitVars, highlightVars
  <2>2. "code" \in Modes /\ 0 \in 0 .. Len(text)
    BY <1>t DEF Modes
  <2> QED
    BY <1>t, <2>1, <2>2 DEF TypeOK
<1> QED
  BY <1>1, <1>2, <1>3 DEF Split

(* A step inside a block keeps the types if the token that it ends does.     *)
LEMMA EndTokenType ==
  ASSUME TypeOK, NEW to \in Nat, to <= Len(text), EndToken(to)
  PROVE  tokens' \in Seq(Tokens) /\ start' \in 0 .. Len(text) + 1
<1>1. tokens \in Seq(Tokens) /\ start \in Nat /\ mode \in Modes /\ Len(text) \in Nat
  BY TextType DEF TypeOK, Tokens
<1>2. [from |-> start, to |-> to, type |-> mode] \in Tokens
  BY <1>1 DEF Tokens
<1> QED
  BY <1>1, <1>2 DEF EndToken

LEMMA TypeHighlight == TypeOK /\ Highlight => TypeOK'
<1> SUFFICES ASSUME TypeOK, Highlight PROVE TypeOK'
  OBVIOUS
<1>0. i \in Nat /\ Len(text) \in Nat /\ i <= Len(text)
  BY TextType DEF TypeOK
<1>1. InBlock => i < Len(text) /\ UNCHANGED <<text, stage, left, sentences, blockState>>
  BY <1>0 DEF InBlock, EndOfBlock, splitVars
<1>2. ASSUME InBlock, mode' \in Modes, esc' \in BOOLEAN, i' \in Nat, i' <= Len(text),
             tokens' \in Seq(Tokens), start' \in 0 .. Len(text) + 1
      PROVE  TypeOK'
  BY <1>0, <1>1, <1>2 DEF TypeOK, Tokens
<1>3. CASE EnterLineComment
  <2>1. EndToken(i) /\ i \in Nat /\ i <= Len(text)
    BY <1>0, <1>1, <1>3 DEF EnterLineComment
  <2>2. tokens' \in Seq(Tokens) /\ start' \in 0 .. Len(text) + 1
    BY <2>1, EndTokenType
  <2>3. InBlock /\ mode' \in Modes /\ esc' = FALSE /\ i' \in Nat /\ i' <= Len(text)
    BY <1>0, <1>1, <1>3 DEF EnterLineComment, Modes, Open
  <2> QED
    BY <1>2, <2>2, <2>3
<1>4. CASE EnterBigComment
  <2>1. EndToken(i) /\ i \in Nat /\ i <= Len(text)
    BY <1>0, <1>1, <1>4, TwoCharacters DEF EnterBigComment
  <2>2. tokens' \in Seq(Tokens) /\ start' \in 0 .. Len(text) + 1
    BY <2>1, EndTokenType
  <2>3. InBlock /\ mode' \in Modes /\ esc' = FALSE /\ i' \in Nat /\ i' <= Len(text)
    BY <1>0, <1>1, <1>4, TwoCharacters DEF EnterBigComment, Modes, Open
  <2> QED
    BY <1>2, <2>2, <2>3
<1>5. CASE LeaveBigComment
  <2>1. EndToken((i + 2)) /\ (i + 2) \in Nat /\ (i + 2) <= Len(text)
    BY <1>0, <1>1, <1>5, TwoCharacters DEF LeaveBigComment
  <2>2. tokens' \in Seq(Tokens) /\ start' \in 0 .. Len(text) + 1
    BY <2>1, EndTokenType
  <2>3. InBlock /\ mode' \in Modes /\ esc' = FALSE /\ i' \in Nat /\ i' <= Len(text)
    BY <1>0, <1>1, <1>5, TwoCharacters DEF LeaveBigComment, Modes, Open
  <2> QED
    BY <1>2, <2>2, <2>3
<1>6. CASE EnterString
  <2>1. EndToken(i) /\ i \in Nat /\ i <= Len(text)
    BY <1>0, <1>1, <1>6 DEF EnterString
  <2>2. tokens' \in Seq(Tokens) /\ start' \in 0 .. Len(text) + 1
    BY <2>1, EndTokenType
  <2>3. InBlock /\ mode' \in Modes /\ esc' = FALSE /\ i' \in Nat /\ i' <= Len(text)
    BY <1>0, <1>1, <1>6 DEF EnterString, Opens, Modes, Open
  <2> QED
    BY <1>2, <2>2, <2>3
<1>7. CASE LeaveString
  <2>1. EndToken((i + 1)) /\ (i + 1) \in Nat /\ (i + 1) <= Len(text)
    BY <1>0, <1>1, <1>7 DEF LeaveString
  <2>2. tokens' \in Seq(Tokens) /\ start' \in 0 .. Len(text) + 1
    BY <2>1, EndTokenType
  <2>3. InBlock /\ mode' \in Modes /\ esc' = FALSE /\ i' \in Nat /\ i' <= Len(text)
    BY <1>0, <1>1, <1>7 DEF LeaveString, Modes, Open
  <2> QED
    BY <1>2, <2>2, <2>3
<1>8. CASE InToken
  BY <1>0, <1>1, <1>2, <1>8 DEF InToken, TypeOK, Tokens
<1>9. CASE EndBlock
  <2>1. StateAfter \in Open \cup {"code"} /\ StateAfter \in Modes
    BY DEF StateAfter, TypeOK, Modes
  <2>a. i + 1 \in 0 .. Len(text) + 1
    BY <1>0
  <2>2. /\ UNCHANGED <<text, left, sentences>> /\ start' = i + 1 /\ esc' = FALSE
        /\ blockState' = StateAfter /\ mode' = StateAfter
        /\ i' \in 0 .. Len(text) /\ stage' \in {"highlight", "done"}
    BY <1>0, <1>9 DEF EndBlock, splitVars
  <2>3. tokens' \in Seq(Tokens)
    <3>1. tokens \in Seq(Tokens) /\ start \in Nat /\ mode \in Modes
      BY DEF TypeOK, Tokens
    <3>2. [from |-> start, to |-> i, type |-> mode] \in Tokens
      BY <1>0, <3>1 DEF Tokens
    <3> QED
      BY <1>9, <3>1, <3>2 DEF EndBlock
  <2> QED
    BY <2>1, <2>a, <2>2, <2>3 DEF TypeOK, Tokens
<1> QED
  BY <1>3, <1>4, <1>5, <1>6, <1>7, <1>8, <1>9 DEF Highlight

(* The types hold for texts of any length: no index leaves the text, a comment *)
(* sign of two characters at its end included.                              *)
THEOREM TypeCorrect == Spec => []TypeOK
<1>1. Init => TypeOK
  <2> SUFFICES ASSUME Init PROVE TypeOK
    OBVIOUS
  <2>1. text \in Seq(Chars)
    BY TextsAssumption DEF Init
  <2>2. "code" \in Modes /\ 0 \in 0 .. Len(text) /\ 0 \in 0 .. Len(text) + 1
    BY <2>1 DEF Modes
  <2>3. \A S : <<>> \in Seq(S)
    OBVIOUS
  <2>4. /\ sentences \in Seq([position : Nat, text : Seq(Chars)])
        /\ tokens \in Seq([from : Nat, to : Nat, type : Modes])
    BY <2>3 DEF Init
  <2> QED
    BY <2>1, <2>2, <2>4 DEF Init, TypeOK
<1>2. TypeOK /\ [Next]_vars => TypeOK'
  <2> SUFFICES ASSUME TypeOK, [Next]_vars PROVE TypeOK'
    OBVIOUS
  <2>1. CASE Terminated \/ UNCHANGED vars
    BY <2>1 DEF Terminated, vars, splitVars, highlightVars, TypeOK
  <2> QED
    BY <2>1, TypeSplit, TypeHighlight DEF Next
<1> QED
  BY <1>1, <1>2, PTL DEF Spec
-----------------------------------------------------------------------------
Solid(p) == At(p) \notin Space \cup {";"}
Taken(p) == \E k \in DOMAIN sentences : Covers(sentences[k], p)

(* The sentences are what the text holds at their positions, apart from each  *)
(* other and before lastLeftOffset.                                         *)
ListInv ==
    /\ stage = "split" => left <= i
    /\ \A k \in 1 .. Len(sentences) :
           /\ EndOf(sentences[k]) <= left
           /\ stage = "split" /\ i < Len(text) => EndOf(sentences[k]) < left
           /\ sentences[k].text = SubSeq(text, sentences[k].position + 1, EndOf(sentences[k]))
    /\ \A j, k \in 1 .. Len(sentences) :
           j < k => EndOf(sentences[j]) < sentences[k].position

(* What is before lastLeftOffset has been taken; at the end, everything.      *)
TakenInv ==
    /\ \A p \in 0 .. left - 1 : Solid(p) => Taken(p)
    /\ stage # "split" \/ i = Len(text) =>
           \A p \in 0 .. Len(text) - 1 : Solid(p) => Taken(p)

(* The end of a sentence, for the two invariants.                            *)
LEMMA SentenceEnded ==
  ASSUME TypeOK, ListInv, EndSentence
  PROVE  \E p, e \in Nat :
             /\ left <= p /\ p < e /\ e <= Right /\ Right <= Len(text) /\ Right <= i + 1
             /\ (i + 1 = Len(text) \/ Right = i)
             /\ Blank(left, p) /\ Blank(e, Right) /\ At(p) \notin Space
             /\ \/ e = p + 1 /\ At(p) = ";" /\ sentences' = sentences
                \/ sentences' = Append(sentences, SentenceAt(p, e))
<1>1. i \in Nat /\ left \in Nat /\ Len(text) \in Nat /\ i < Len(text) /\ Cut
  <2>1. i < Len(text) /\ Cut
    BY DEF EndSentence, NextChar
  <2> QED
    BY <2>1, TextType DEF TypeOK
<1>2. Right \in Nat /\ Right <= Len(text) /\ Right <= i + 1 /\ (i + 1 = Len(text) \/ Right = i)
  BY <1>1 DEF Right, Cut
<1>3. PICK p \in left .. Right, e \in left .. Right :
          /\ Bounds(p, e)
          /\ sentences' = IF e = p + 1 /\ At(p) = ";" THEN sentences
                          ELSE Append(sentences, SentenceAt(p, e))
  BY DEF EndSentence
<1>4. /\ p \in Nat /\ e \in Nat /\ left <= p /\ p < e /\ e <= Right
      /\ Blank(left, p) /\ Blank(e, Right) /\ At(p) \notin Space
  <2>1. /\ p \in left .. Right - 1 /\ e \in p + 1 .. Right
        /\ Blank(left, p) /\ Blank(e, Right) /\ At(p) \notin Space
    BY <1>3 DEF Bounds
  <2> QED
    BY <1>1, <1>2, <2>1
<1> QED
  BY <1>2, <1>3, <1>4

LEMMA ListNext == TypeOK /\ ListInv /\ [Next]_vars => ListInv'
<1> SUFFICES ASSUME TypeOK, ListInv, [Next]_vars PROVE ListInv'
  OBVIOUS
<1>t. /\ i \in Nat /\ left \in Nat /\ Len(text) \in Nat /\ left <= Len(text)
      /\ sentences \in Seq(Sentences)
  BY TextType DEF TypeOK, Sentences
<1>e. \A k \in 1 .. Len(sentences) : EndOf(sentences[k]) \in Nat /\ sentences[k].position \in Nat
  <2> SUFFICES ASSUME NEW k \in 1 .. Len(sentences)
               PROVE  EndOf(sentences[k]) \in Nat /\ sentences[k].position \in Nat
    OBVIOUS
  <2>1. sentences[k] \in Sentences
    BY <1>t
  <2>2. sentences[k].position \in Nat /\ Len(sentences[k].text) \in Nat
    BY <2>1 DEF Sentences
  <2> QED
    BY <2>2 DEF EndOf
<1>1. ASSUME UNCHANGED <<text, left, sentences>>,
             stage' = "split" => stage = "split" /\ i <= i' /\ i' \in Nat /\ (i' < Len(text) => i < Len(text))
      PROVE  ListInv'
  BY <1>t, <1>1 DEF ListInv, EndOf
<1>2. CASE InSentence \/ EmptySentence
  <2>1. UNCHANGED <<text, left, sentences>> /\ stage = "split" /\ i' = i + 1 /\ i < Len(text)
    BY <1>2 DEF InSentence, EmptySentence, NextChar, splitVars
  <2> QED
    BY <1>t, <1>1, <2>1
<1>3. CASE EndSentence
  <2>1. /\ stage = "split" /\ stage' = stage /\ i < Len(text) /\ i' = i + 1 /\ text' = text
        /\ left' = i + 1
    BY <1>3 DEF EndSentence, NextChar, LeftAfter
  <2>2. left <= i
    BY <2>1 DEF ListInv
  <2>3. PICK p, e \in Nat :
            /\ left <= p /\ p < e /\ e <= Right /\ Right <= Len(text) /\ Right <= i + 1
            /\ (i + 1 = Len(text) \/ Right = i)
            /\ \/ sentences' = sentences
               \/ sentences' = Append(sentences, SentenceAt(p, e))
    BY <1>3, SentenceEnded
  <2>4. \A k \in 1 .. Len(sentences) : EndOf(sentences[k]) < left
    BY <2>1 DEF ListInv
  <2>r. Right \in Nat
    BY <1>t DEF Right
  <2>5. CASE sentences' = sentences
    BY <1>t, <1>e, <2>1, <2>2, <2>4, <2>5 DEF ListInv, EndOf
  <2>6. CASE sentences' = Append(sentences, SentenceAt(p, e))
    <3> DEFINE new == SentenceAt(p, e)
               n   == Len(sentences) + 1
    <3>1. new \in Sentences /\ new.position = p /\ EndOf(new) = e
          /\ new.text = SubSeq(text, p + 1, e)
      BY <1>t, <2>3, <2>r, SentenceType
    <3>2. Len(sentences') = n /\ n \in Nat /\ sentences'[n] = new
      BY <1>t, <2>6, <3>1
    <3>3. \A k \in 1 .. Len(sentences) : sentences'[k] = sentences[k]
      BY <1>t, <2>6, <3>1
    <3>4. \A k \in 1 .. n : k = n \/ k \in 1 .. Len(sentences)
      BY <1>t
    <3>5. e <= i + 1 /\ (i + 1 < Len(text) => e < i + 1)
      BY <1>t, <2>3, <2>r
    <3> HIDE DEF new, n
    <3>6. ASSUME NEW k \in 1 .. n
          PROVE  /\ EndOf(sentences'[k]) <= i + 1
                 /\ i + 1 < Len(text) => EndOf(sentences'[k]) < i + 1
                 /\ sentences'[k].text = SubSeq(text, sentences'[k].position + 1, EndOf(sentences'[k]))
      <4>1. CASE k = n
        BY <3>1, <3>2, <3>5, <4>1
      <4>2. CASE k \in 1 .. Len(sentences)
        <5>1. EndOf(sentences[k]) < left /\ EndOf(sentences[k]) \in Nat
              /\ sentences[k].text = SubSeq(text, sentences[k].position + 1, EndOf(sentences[k]))
          BY <1>e, <2>4, <4>2 DEF ListInv
        <5> QED
          BY <1>t, <2>2, <3>3, <4>2, <5>1
      <4> QED
        BY <3>4, <4>1, <4>2
    <3>7. ASSUME NEW j \in 1 .. n, NEW k \in 1 .. n, j < k
          PROVE  EndOf(sentences'[j]) < sentences'[k].position
      <4>1. j \in 1 .. Len(sentences)
        BY <1>t, <3>2, <3>4, <3>7
      <4>2. CASE k = n
        BY <1>e, <1>t, <2>3, <2>4, <3>1, <3>2, <3>3, <4>1, <4>2
      <4>3. CASE k \in 1 .. Len(sentences)
        BY <3>3, <3>7, <4>1, <4>3 DEF ListInv
      <4> QED
        BY <3>4, <4>2, <4>3
    <3>8. \A s : EndOf(s)' = EndOf(s)
      BY DEF EndOf
    <3> QED
      BY <1>t, <2>1, <3>2, <3>6, <3>7 DEF ListInv, EndOf
  <2> QED
    BY <2>3, <2>5, <2>6
<1>4. CASE ~(InSentence \/ EmptySentence \/ EndSentence)
  <2>1. stage' # "split" \/ UNCHANGED vars
    BY <1>4 DEF Next, Split, StartHighlight, Highlight, EnterLineComment, EnterBigComment,
                LeaveBigComment, EnterString, LeaveString, InToken, EndBlock, InBlock, Terminated
  <2>2. UNCHANGED <<text, left, sentences>>
    BY <1>4 DEF Next, Split, StartHighlight, Highlight, EnterLineComment, EnterBigComment,
                LeaveBigComment, EnterString, LeaveString, InToken, EndBlock, InBlock, Terminated,
                vars, splitVars
  <2> QED
    BY <1>t, <1>1, <2>1, <2>2 DEF vars
<1> QED
  BY <1>2, <1>3, <1>4

LEMMA ListCorrect == Spec => [](TypeOK /\ ListInv)
<1>1. Init => ListInv
  BY DEF Init, ListInv
<1>2. TypeOK /\ TypeOK' /\ ListInv /\ [Next]_vars => ListInv'
  BY ListNext
<1> QED
  BY <1>1, <1>2, TypeCorrect, PTL DEF Spec

LEMMA CursorOfList == TypeOK /\ ListInv => CursorRunsItsSentence
<1> SUFFICES ASSUME TypeOK, ListInv,
                    NEW k \in DOMAIN sentences,
                    NEW p \in sentences[k].position .. EndOf(sentences[k])
             PROVE  Chosen(p) = k
  <2>1. DOMAIN sentences = 1 .. Len(sentences)
    BY DEF TypeOK
  <2> QED
    BY <2>1 DEF CursorRunsItsSentence, ListInv
<1>1. /\ sentences \in Seq(Sentences) /\ DOMAIN sentences = 1 .. Len(sentences)
      /\ Len(sentences) \in Nat
  BY DEF TypeOK, Sentences
<1>2. ASSUME NEW j \in DOMAIN sentences
      PROVE  sentences[j].position \in Nat /\ EndOf(sentences[j]) \in Nat
  <2>1. sentences[j] \in Sentences
    BY <1>1
  <2>2. sentences[j].position \in Nat /\ Len(sentences[j].text) \in Nat
    BY <2>1 DEF Sentences
  <2> QED
    BY <2>2 DEF EndOf
<1>3. sentences[k].position <= p /\ p <= EndOf(sentences[k]) /\ p \in Nat
  BY <1>2
<1>4. ASSUME NEW j \in Around(p) PROVE j = k
  <2>1. j \in DOMAIN sentences /\ sentences[j].position <= p /\ p <= EndOf(sentences[j])
    BY DEF Around
  <2>2. j < k => EndOf(sentences[j]) < sentences[k].position
    BY <1>1, <2>1 DEF ListInv
  <2>3. k < j => EndOf(sentences[k]) < sentences[j].position
    BY <1>1, <2>1 DEF ListInv
  <2>4. j \in Nat /\ k \in Nat
    BY <1>1, <2>1
  <2> QED
    BY <1>2, <1>3, <2>1, <2>2, <2>3, <2>4
<1>5. k \in Around(p) /\ k <= k
  BY <1>1, <1>3 DEF Around
<1>6. Around(p) = {k}
  BY <1>4, <1>5
<1> QED
  BY <1>5, <1>6 DEF Chosen

(* In a text of any length, the cursor runs the sentence it is in or right    *)
(* behind: sentences never touch, and their texts are at their positions.     *)
THEOREM CursorCorrect == Spec => []CursorRunsItsSentence
  BY ListCorrect, CursorOfList, PTL
-----------------------------------------------------------------------------
LEMMA TakenNext == TypeOK /\ ListInv /\ TakenInv /\ [Next]_vars => TakenInv'
<1> SUFFICES ASSUME TypeOK, ListInv, TakenInv, [Next]_vars PROVE TakenInv'
  OBVIOUS
<1>t. /\ i \in Nat /\ left \in Nat /\ Len(text) \in Nat /\ left <= Len(text)
      /\ sentences \in Seq(Sentences)
  BY TextType DEF TypeOK, Sentences
<1>1. ASSUME text' = text PROVE \A p : Solid(p)' <=> Solid(p)
  BY <1>1 DEF Solid, At
<1>2. ASSUME sentences' = sentences PROVE \A p : Taken(p)' <=> Taken(p)
  BY <1>2 DEF Taken, Covers, EndOf
<1>3. CASE InSentence \/ EmptySentence
  <2>1. /\ UNCHANGED <<text, left, sentences, stage>> /\ stage = "split" /\ i' = i + 1
        /\ i < Len(text)
    BY <1>3 DEF InSentence, EmptySentence, NextChar, splitVars
  <2>2. ASSUME i' = Len(text), NEW p \in 0 .. Len(text) - 1, Solid(p) PROVE Taken(p)
    <3>1. CASE p < left
      BY <1>t, <3>1, <2>2 DEF TakenInv
    <3>2. CASE left <= p
      <4>1. Cut
        BY <1>t, <2>1, <2>2 DEF Cut
      <4>2. Blank(left, Right)
        BY <1>3, <4>1 DEF InSentence, EmptySentence
      <4>a. /\ p \in Nat /\ p <= i /\ At(p) \notin Space
            /\ \A k \in left .. Right - 1 : At(k) \in Space
        <5>1. p \in Nat /\ p <= i
          BY <1>t, <2>1, <2>2
        <5>2. At(p) \notin Space
          BY <2>2 DEF Solid
        <5> QED
          BY <4>2, <5>1, <5>2 DEF Blank
      <4>b. ~(p < Right)
        BY <1>t, <3>2, <4>a DEF Right
      <4>3. p = Right /\ OnDelim
        BY <1>t, <4>a, <4>b DEF Right
      <4> QED
        BY <1>t, <2>2, <4>3 DEF OnDelim, Here, Right, Solid
    <3> QED
      BY <1>t, <3>1, <3>2
  <2> QED
    BY <1>t, <1>1, <1>2, <2>1, <2>2 DEF TakenInv
<1>4. CASE EndSentence
  <2>1. /\ stage = "split" /\ stage' = stage /\ i < Len(text) /\ i' = i + 1 /\ text' = text
        /\ left' = i + 1
    BY <1>4 DEF EndSentence, NextChar, LeftAfter
  <2>d. OnDelim => At(i) = ";"
    BY DEF OnDelim, Here
  <2>e. Right = IF OnDelim THEN i ELSE i + 1
    BY DEF Right
  <2>r. Right \in Nat
    BY <1>t, <2>e
  <2>2. PICK p, e \in Nat :
             /\ left <= p /\ p < e /\ e <= Right /\ Right <= Len(text) /\ Right <= i + 1
             /\ Blank(left, p) /\ Blank(e, Right)
             /\ \/ e = p + 1 /\ At(p) = ";" /\ sentences' = sentences
                \/ sentences' = Append(sentences, SentenceAt(p, e))
    BY <1>4, SentenceEnded
  <2>b. /\ \A k \in left .. p - 1 : At(k) \in Space
        /\ \A k \in e .. Right - 1 : At(k) \in Space
    BY <2>2 DEF Blank
  <2>o. left <= p /\ p < e /\ e <= Right /\ Right <= Len(text)
    BY <2>2
  <2>c. left <= p /\ p < e /\ e <= Right /\ e <= Len(text)
    BY <1>t, <2>o, <2>r
  <2>new. /\ SentenceAt(p, e) \in Sentences /\ SentenceAt(p, e).position = p
          /\ EndOf(SentenceAt(p, e)) = e
    BY <2>c, SentenceType
  <2>3. ASSUME NEW q, Taken(q) PROVE Taken(q)'
    <3>1. PICK k \in 1 .. Len(sentences) : Covers(sentences[k], q)
      BY <1>t, <2>3 DEF Taken
    <3>2. k \in DOMAIN sentences' /\ sentences'[k] = sentences[k]
      <4>1. CASE sentences' = sentences
        BY <1>t, <3>1, <4>1
      <4>2. CASE sentences' = Append(sentences, SentenceAt(p, e))
        BY <1>t, <2>new, <3>1, <4>2
      <4> QED
        BY <2>2, <4>1, <4>2
    <3> QED
      BY <3>1, <3>2 DEF Taken, Covers, EndOf
  <2>4. ASSUME NEW q \in 0 .. i, Solid(q) PROVE Taken(q)'
    <3>q. q \in Nat /\ q <= i
      BY <1>t
    <3>s. At(q) \notin Space
      BY <2>4 DEF Solid
    <3>d. At(q) # ";"
      BY <2>4 DEF Solid
    <3>1. CASE q < left
      BY <1>t, <2>3, <2>4, <3>1 DEF TakenInv
    <3>2. CASE left <= q /\ q < p
      BY <1>t, <2>b, <3>q, <3>s, <3>2
    <3>3. CASE p <= q /\ q < e
      <4>1. CASE e = p + 1 /\ At(p) = ";"
        <5>1. q = p
          <6>1. e = p + 1
            BY <4>1
          <6> QED
            BY <3>q, <3>3, <6>1
        <5> QED
          BY <3>d, <4>1, <5>1
      <4>2. CASE sentences' = Append(sentences, SentenceAt(p, e))
        <5>1. /\ Len(sentences) + 1 \in DOMAIN sentences'
              /\ sentences'[Len(sentences) + 1] = SentenceAt(p, e)
          BY <1>t, <2>new, <4>2
        <5>2. /\ sentences'[Len(sentences) + 1].position = p
              /\ EndOf(sentences'[Len(sentences) + 1]) = e
          BY <2>new, <5>1
        <5> QED
          BY <3>3, <5>1, <5>2 DEF Taken, Covers, EndOf
      <4> QED
        BY <2>2, <4>1, <4>2
    <3>4. CASE e <= q /\ q < Right
      BY <2>b, <2>r, <3>q, <3>s, <3>4
    <3>5. CASE Right <= q
      <4>1. q = i /\ OnDelim
        BY <1>t, <2>e, <3>q, <3>5
      <4> QED
        BY <2>d, <3>d, <4>1
    <3> QED
      BY <1>t, <2>c, <2>r, <3>q, <3>1, <3>2, <3>3, <3>4, <3>5
  <2> QED
    BY <1>t, <1>1, <2>1, <2>4 DEF TakenInv
<1>5. CASE ~(InSentence \/ EmptySentence \/ EndSentence)
  <2>1. (stage' # "split" => stage # "split" \/ i = Len(text)) /\ (stage' = "split" => UNCHANGED vars)
    BY <1>5 DEF Next, Split, StartHighlight, Highlight, EnterLineComment, EnterBigComment,
                LeaveBigComment, EnterString, LeaveString, InToken, EndBlock, InBlock, Terminated, vars
  <2>2. UNCHANGED <<text, left, sentences>>
    BY <1>5 DEF Next, Split, StartHighlight, Highlight, EnterLineComment, EnterBigComment,
                LeaveBigComment, EnterString, LeaveString, InToken, EndBlock, InBlock, Terminated,
                vars, splitVars
  <2> QED
    BY <1>1, <1>2, <2>1, <2>2 DEF TakenInv, vars
<1> QED
  BY <1>3, <1>4, <1>5

(* In a text of any length, whatever is not a space or a delimiter is run.     *)
THEOREM NothingIsDropped == Spec => []NothingDropped
<1>1. Init => TakenInv
  <2> SUFFICES ASSUME Init PROVE TakenInv
    OBVIOUS
  <2>1. text \in Seq(Chars)
    BY TextsAssumption DEF Init
  <2> QED
    BY <2>1 DEF Init, TakenInv
<1>2. TypeOK /\ ListInv /\ TakenInv /\ [Next]_vars => TakenInv'
  BY TakenNext
<1>3. TakenInv => NothingDropped
  BY DEF TakenInv, NothingDropped, Solid, Taken
<1> QED
  BY <1>1, <1>2, <1>3, ListCorrect, PTL DEF Spec
-----------------------------------------------------------------------------
Coloured(p) == \E k \in DOMAIN tokens : tokens[k].from <= p /\ p < tokens[k].to

Feeds(from, to) == \A p \in from .. to - 1 : At(p) = "\n"

(* What is before the current token has been coloured, up to it.             *)
TileInv ==
    /\ stage = "split" => start = 0
    /\ stage = "highlight" => start <= i
    /\ stage = "done" => Len(text) <= start
    /\ \A p \in 0 .. start - 1 : p < Len(text) => At(p) = "\n" \/ Coloured(p)
    /\ \A k \in 1 .. Len(tokens) : tokens[k].from < tokens[k].to
    /\ \A k \in 1 .. Len(tokens) - 1 :
           tokens[k].to = tokens[k + 1].from \/ Feeds(tokens[k].to, tokens[k + 1].from)
    /\ Len(tokens) > 0 /\ stage # "done" =>
           tokens[Len(tokens)].to = start \/ Feeds(tokens[Len(tokens)].to, start)

(* The current token joins the list, unless it is empty.                     *)
LEMMA TokenEnded ==
  ASSUME TypeOK, TileInv, stage # "done", text' = text,
         NEW to \in Nat, start <= to, to <= Len(text),
         tokens' = IF to > start THEN Append(tokens, [from |-> start, to |-> to, type |-> mode])
                   ELSE tokens
  PROVE  /\ \A p \in 0 .. to - 1 : At(p) = "\n" \/ Coloured(p)'
         /\ \A k \in 1 .. Len(tokens') : tokens'[k].from < tokens'[k].to
         /\ \A k \in 1 .. Len(tokens') - 1 :
                tokens'[k].to = tokens'[k + 1].from \/ Feeds(tokens'[k].to, tokens'[k + 1].from)
         /\ Len(tokens') > 0 => tokens'[Len(tokens')].to = to \/ Feeds(tokens'[Len(tokens')].to, to)
         /\ tokens' \in Seq(Tokens)
<1>1. tokens \in Seq(Tokens) /\ start \in Nat /\ mode \in Modes /\ Len(text) \in Nat
      /\ Len(tokens) \in Nat
  BY TextType DEF TypeOK, Tokens
<1>2. CASE ~(to > start)
  <2>1. to = start /\ tokens' = tokens
    BY <1>1, <1>2
  <2>2. \A p : Coloured(p)' <=> Coloured(p)
    BY <2>1 DEF Coloured
  <2>3. \A p \in 0 .. to - 1 : At(p) = "\n" \/ Coloured(p)
    BY <1>1, <2>1 DEF TileInv
  <2> QED
    BY <1>1, <2>1, <2>2, <2>3 DEF TileInv
<1>3. CASE to > start
  <2> DEFINE new == [from |-> start, to |-> to, type |-> mode]
             n   == Len(tokens) + 1
  <2>1. new \in Tokens /\ new.from = start /\ new.to = to
    BY <1>1 DEF Tokens
  <2>2. tokens' = Append(tokens, new)
    BY <1>3
  <2> HIDE DEF new
  <2>3. Len(tokens') = n /\ tokens'[n] = new /\ tokens' \in Seq(Tokens)
    BY <1>1, <2>1, <2>2
  <2>4. \A k \in 1 .. Len(tokens) : tokens'[k] = tokens[k]
    BY <1>1, <2>1, <2>2
  <2>5. ASSUME NEW p \in 0 .. to - 1 PROVE At(p) = "\n" \/ Coloured(p)'
    <3>1. CASE start <= p
      <4>1. n \in DOMAIN tokens' /\ tokens'[n].from <= p /\ p < tokens'[n].to
        BY <1>1, <2>1, <2>3, <3>1
      <4> QED
        BY <4>1 DEF Coloured
    <3>2. CASE p < start
      <4>1. At(p) = "\n" \/ Coloured(p)
        <5>1. p \in 0 .. start - 1 /\ p < Len(text)
          BY <1>1, <3>2
        <5> QED
          BY <5>1 DEF TileInv
      <4>2. ASSUME NEW k \in DOMAIN tokens, tokens[k].from <= p, p < tokens[k].to
            PROVE  Coloured(p)'
        <5>1. k \in DOMAIN tokens' /\ tokens'[k] = tokens[k]
          BY <1>1, <2>3, <2>4
        <5> QED
          BY <4>2, <5>1 DEF Coloured
      <4> QED
        BY <4>1, <4>2 DEF Coloured
    <3> QED
      BY <1>1, <3>1, <3>2
  <2>6. ASSUME NEW k \in 1 .. n PROVE tokens'[k].from < tokens'[k].to
    <3>1. CASE k = n
      BY <1>3, <2>1, <2>3, <3>1
    <3>2. CASE k # n
      <4>1. k \in 1 .. Len(tokens)
        BY <1>1, <3>2
      <4> QED
        BY <2>4, <4>1 DEF TileInv
    <3> QED
      BY <3>1, <3>2
  <2>7. ASSUME NEW k \in 1 .. n - 1
        PROVE  tokens'[k].to = tokens'[k + 1].from \/ Feeds(tokens'[k].to, tokens'[k + 1].from)
    <3>0. k \in 1 .. Len(tokens)
      BY <1>1
    <3>1. CASE k = Len(tokens)
      <4>1. tokens'[k + 1].from = start /\ Len(tokens) > 0
        BY <1>1, <2>1, <2>3, <3>1
      <4> QED
        BY <2>4, <3>0, <3>1, <4>1 DEF TileInv
    <3>2. CASE k # Len(tokens)
      <4>1. k \in 1 .. Len(tokens) - 1 /\ k + 1 \in 1 .. Len(tokens)
        BY <1>1, <3>2
      <4> QED
        BY <2>4, <3>0, <4>1 DEF TileInv
    <3> QED
      BY <3>1, <3>2
  <2> QED
    BY <2>1, <2>3, <2>5, <2>6, <2>7
<1> QED
  BY <1>2, <1>3

LEMMA TileHighlight == TypeOK /\ TileInv /\ Highlight => TileInv'
<1> SUFFICES ASSUME TypeOK, TileInv, Highlight PROVE TileInv'
  OBVIOUS
<1>t. i \in Nat /\ start \in Nat /\ Len(text) \in Nat /\ i <= Len(text)
  BY TextType DEF TypeOK
<1>f. ASSUME text' = text PROVE \A from, to : Feeds(from, to)' <=> Feeds(from, to)
  BY <1>f DEF Feeds, At
<1>1. ASSUME InBlock, NEW to \in Nat, start <= to, to <= Len(text), EndToken(to),
             i' \in Nat, to <= i'
      PROVE  TileInv'
  <2>1. text' = text /\ stage = "highlight" /\ stage' = "highlight" /\ start' = to
    BY <1>1 DEF InBlock, EndToken
  <2>2. tokens' = IF to > start THEN Append(tokens, [from |-> start, to |-> to, type |-> mode])
                  ELSE tokens
    BY <1>1 DEF EndToken
  <2>3. \A p : At(p)' = At(p)
    BY <2>1 DEF At
  <2> QED
    BY <1>1, <1>f, <2>1, <2>2, <2>3, TokenEnded DEF TileInv
<1>2. InBlock => stage = "highlight" /\ start <= i /\ i < Len(text)
  BY <1>t DEF InBlock, EndOfBlock, TileInv
<1>3. CASE EnterLineComment
  <2>1. InBlock /\ EndToken(i) /\ i' = i + 1
    BY <1>3 DEF EnterLineComment
  <2> QED
    BY <1>t, <1>1, <1>2, <2>1
<1>4. CASE EnterBigComment
  <2>1. InBlock /\ EndToken(i) /\ i' = i + 2
    BY <1>4 DEF EnterBigComment
  <2> QED
    BY <1>t, <1>1, <1>2, <2>1
<1>5. CASE LeaveBigComment
  <2>1. InBlock /\ EndToken(i + 2) /\ i' = i + 2 /\ i + 2 <= Len(text)
    BY <1>5, TwoCharacters DEF LeaveBigComment
  <2> QED
    BY <1>t, <1>1, <1>2, <2>1
<1>6. CASE EnterString
  <2>1. InBlock /\ EndToken(i) /\ i' = i + 1
    BY <1>6 DEF EnterString
  <2> QED
    BY <1>t, <1>1, <1>2, <2>1
<1>7. CASE LeaveString
  <2>1. InBlock /\ EndToken(i + 1) /\ i' = i + 1
    BY <1>7 DEF LeaveString
  <2> QED
    BY <1>t, <1>1, <1>2, <2>1
<1>8. CASE InToken
  <2>1. UNCHANGED <<text, stage, start, tokens>> /\ i' = i + 1 /\ InBlock
    BY <1>8 DEF InToken, InBlock
  <2>2. \A p : At(p)' = At(p) /\ (Coloured(p)' <=> Coloured(p))
    BY <2>1 DEF At, Coloured
  <2> QED
    BY <1>t, <1>2, <1>f, <2>1, <2>2 DEF TileInv
<1>9. CASE EndBlock
  <2>1. /\ text' = text /\ stage = "highlight" /\ start' = i + 1 /\ start <= i
        /\ i = Len(text) \/ At(i) = "\n"
        /\ \/ i = Len(text) /\ stage' = "done"
           \/ i' = i + 1 /\ stage' = "highlight"
    BY <1>9 DEF EndBlock, EndOfBlock, Here, TileInv
  <2>2. tokens' = IF i > start THEN Append(tokens, [from |-> start, to |-> i, type |-> mode])
                  ELSE tokens
    BY <1>9 DEF EndBlock
  <2>3. /\ \A p \in 0 .. i - 1 : At(p) = "\n" \/ Coloured(p)'
        /\ \A k \in 1 .. Len(tokens') : tokens'[k].from < tokens'[k].to
        /\ \A k \in 1 .. Len(tokens') - 1 :
               tokens'[k].to = tokens'[k + 1].from \/ Feeds(tokens'[k].to, tokens'[k + 1].from)
        /\ Len(tokens') > 0 => tokens'[Len(tokens')].to = i \/ Feeds(tokens'[Len(tokens')].to, i)
        /\ tokens' \in Seq(Tokens)
    BY <1>t, <2>1, <2>2, TokenEnded
  <2>4. \A p : At(p)' = At(p)
    BY <2>1 DEF At
  <2>5. \A p \in 0 .. start' - 1 : p < Len(text') => At(p)' = "\n" \/ Coloured(p)'
    <3> SUFFICES ASSUME NEW p \in 0 .. i, p < Len(text) PROVE At(p) = "\n" \/ Coloured(p)'
      BY <1>t, <2>1, <2>4
    <3>1. CASE p = i
      BY <1>t, <2>1, <3>1
    <3>2. CASE p # i
      BY <1>t, <2>3, <3>2
    <3> QED
      BY <3>1, <3>2
  <2>6. ASSUME Len(tokens') > 0, stage' # "done"
        PROVE  tokens'[Len(tokens')].to = i + 1 \/ Feeds(tokens'[Len(tokens')].to, i + 1)
    <3> DEFINE to == tokens'[Len(tokens')].to
    <3>1. to = i \/ Feeds(to, i)
      BY <2>3, <2>6
    <3>2. to \in Nat
      <4>1. tokens'[Len(tokens')] \in Tokens
        BY <2>3, <2>6
      <4> QED
        BY <4>1 DEF Tokens
    <3>3. At(i) = "\n" \/ i = Len(text)
      BY <2>1
    <3> HIDE DEF to
    <3>4. CASE At(i) = "\n"
      <4>1. \A p \in to .. i : p \in to .. i - 1 \/ p = i
        BY <1>t, <3>2
      <4>2. \A p \in to .. i : At(p) = "\n"
        BY <3>1, <3>4, <4>1, <1>t, <3>2 DEF Feeds
      <4>3. \A p \in to .. (i + 1) - 1 : p \in to .. i
        BY <1>t, <3>2
      <4> QED
        <5>1. Feeds(to, i + 1)
          BY <4>2, <4>3 DEF Feeds
        <5> QED
          BY <5>1 DEF to
    <3>5. CASE i = Len(text) /\ At(i) # "\n"
      <4>1. stage' = "done"
        BY <2>1, <3>5, <1>9 DEF EndBlock
      <4> QED
        BY <2>6, <4>1
    <3> QED
      BY <3>3, <3>4, <3>5
  <2> QED
    BY <1>t, <1>f, <2>1, <2>3, <2>5, <2>6 DEF TileInv
<1> QED
  BY <1>3, <1>4, <1>5, <1>6, <1>7, <1>8, <1>9 DEF Highlight

LEMMA TileNext == TypeOK /\ TileInv /\ [Next]_vars => TileInv'
<1> SUFFICES ASSUME TypeOK, TileInv, [Next]_vars PROVE TileInv'
  OBVIOUS
<1>1. CASE Split \/ Terminated \/ UNCHANGED vars
  <2>0. i \in Nat
    BY TextType DEF TypeOK
  <2>a. Split => UNCHANGED <<text, start, tokens>> /\ i' \in Nat
    <3>1. NextChar => UNCHANGED <<text, start, tokens>> /\ i' = i + 1
      BY DEF NextChar, highlightVars
    <3>2. StartHighlight => UNCHANGED <<text, start, tokens>> /\ i' = 0
      BY DEF StartHighlight, highlightVars
    <3>3. Split => NextChar \/ StartHighlight
      BY DEF Split, InSentence, EmptySentence, EndSentence
    <3> QED
      BY <2>0, <3>1, <3>2, <3>3
  <2>b. Terminated \/ UNCHANGED vars => UNCHANGED <<text, start, tokens>> /\ i' \in Nat
    BY <2>0 DEF Terminated, vars, highlightVars
  <2>1. UNCHANGED <<text, start, tokens>> /\ i' \in Nat
    BY <1>1, <2>a, <2>b
  <2>2. \/ stage = "split" /\ stage' \in {"split", "highlight"}
        \/ UNCHANGED <<stage, i>>
    BY <1>1 DEF Split, InSentence, EmptySentence, EndSentence, NextChar, StartHighlight, Terminated, vars
  <2>3. \A p : At(p)' = At(p) /\ (Coloured(p)' <=> Coloured(p))
    BY <2>1 DEF At, Coloured
  <2>4. \A from, to : Feeds(from, to)' <=> Feeds(from, to)
    BY <2>1 DEF At, Feeds
  <2> QED
    BY <2>1, <2>2, <2>3, <2>4 DEF TileInv
<1> QED
  BY <1>1, TileHighlight DEF Next

(* Lines of any number and length are coloured without gap or overlap.        *)
THEOREM TokensAreTiled == Spec => []TokensTile
<1>1. Init => TileInv
  <2> SUFFICES ASSUME Init PROVE TileInv
    OBVIOUS
  <2> QED
    BY DEF Init, TileInv
<1>2. TypeOK /\ TileInv /\ [Next]_vars => TileInv'
  BY TileNext
<1>3. TypeOK /\ TileInv => TokensTile
  <2> SUFFICES ASSUME TypeOK, TileInv PROVE TokensTile
    OBVIOUS
  <2>1. DOMAIN tokens = 1 .. Len(tokens) /\ Len(text) \in Nat /\ start \in Nat
    BY TextType DEF TypeOK
  <2>2. ASSUME stage = "done", NEW p \in 0 .. Len(text) - 1, At(p) # "\n" PROVE Coloured(p)
    <3>1. p \in 0 .. start - 1 /\ p < Len(text)
      BY <2>1, <2>2 DEF TileInv
    <3> QED
      BY <2>2, <3>1 DEF TileInv
  <2> QED
    BY <2>1, <2>2 DEF TileInv, TokensTile, Coloured, Feeds
<1> QED
  BY <1>1, <1>2, <1>3, TypeCorrect, PTL DEF Spec
-----------------------------------------------------------------------------
(* Both scanners and the flags of the first one at every position, the path.   *)

(* The flags after the character at k; ModeAfter for any position.            *)
ModeFrom(m, e, k) ==
    CASE m = "code" /\ (At(k) = "#" \/ (At(k) = "-" /\ At(k + 1) = "-")) -> "line"
      [] m = "code" /\ At(k) = "/" /\ At(k + 1) = "*" -> "big"
      [] m = "big" /\ At(k) = "*" /\ At(k + 1) = "/" -> "code"
      [] m = "code" /\ At(k) \in Quotes /\ ~e -> At(k)
      [] m \in Quotes /\ At(k) = m /\ At(k) \in Quotes /\ ~e -> "code"
      [] m = "line" /\ At(k) = "\n" /\ At(k + 1) # "\n" -> "code"
      [] OTHER -> m

EscFrom(e, k) == ~e /\ At(k) = "\\"

PathTo(path, n) ==
    /\ path[0].mode = "code" /\ path[0].esc = FALSE
    /\ \A k \in 0 .. n - 1 : /\ path[k + 1].mode = ModeFrom(path[k].mode, path[k].esc, k)
                             /\ path[k + 1].esc = EscFrom(path[k].esc, k)

CodeDelim(path, q)   == At(q) = ";" /\ path[q].mode = "code"
HiddenDelim(path, q) == At(q) = ";" /\ path[q].mode # "code"

(* What the sentences have to do with the path: a delimiter since              *)
(* lastLeftOffset ended nothing but spaces, a comment or a literal has been    *)
(* opened since, a delimiter can only be the first character of a sentence,    *)
(* and one that is none is in a sentence.                                   *)
SplitPath(path) ==
    /\ PathTo(path, IF stage = "split" THEN i ELSE Len(text))
    /\ stage = "split" => path[i].mode = mode /\ path[i].esc = esc
    /\ stage = "split" =>
           \A q \in left .. i - 1 : CodeDelim(path, q) => Blank(left, q)
    /\ stage = "split" =>
           \A q \in left .. i : q < Len(text) /\ path[q].mode # "code" =>
               \E s \in left .. q - 1 : Solid(s)
    /\ \A k \in 1 .. Len(sentences) : \A q \in Nat :
           CodeDelim(path, q) /\ Covers(sentences[k], q) => sentences[k].position = q
    /\ \A q \in 0 .. left - 1 : HiddenDelim(path, q) => Taken(q)
    /\ stage # "split" \/ i = Len(text) =>
           \A q \in 0 .. Len(text) - 1 : HiddenDelim(path, q) => Taken(q)

(* At the line feeds after a line comment the first scanner is still in it.     *)
Follows(path) ==
    \/ path[i].mode = mode
    \/ path[i].mode = "line" /\ mode = "code" /\ Here = "\n"

(* The second scanner follows the first, and what it colours is on the path.    *)
ShowPath(path) ==
    /\ stage = "split" => blockState = "code" /\ tokens = <<>> /\ start = 0
    /\ \A k \in 1 .. Len(tokens) : tokens[k].to <= start
    /\ stage = "highlight" =>
           /\ Follows(path) /\ path[i].esc = esc
           /\ mode = "line" => ~EmptyBlock
           /\ EmptyBlock => mode = blockState
    /\ stage = "highlight" =>
           \A p \in 0 .. i - 1 : At(p) = ";" =>
               (path[p].mode = "code" <=> Shown(p) \/ (start <= p /\ mode = "code"))
    /\ stage = "done" =>
           \A p \in 0 .. Len(text) - 1 : At(p) = ";" =>
               (path[p].mode = "code" <=> Shown(p))


Paths == [Nat -> [mode : Modes, esc : BOOLEAN]]

(* ModeFrom is ModeAfter, a delimiter changes no flag, and what opens a        *)
(* comment or a literal is neither a space nor a delimiter.                  *)
LEMMA ModeAfterFacts ==
  ASSUME TypeOK
  PROVE  /\ ModeAfter = ModeFrom(mode, esc, i)
         /\ Here = ";" => ModeAfter = mode
         /\ mode = "code" /\ ModeAfter # "code" => Solid(i)
<1>1. ModeAfter = ModeFrom(mode, esc, i)
  BY DEF ModeAfter, ModeFrom, StartsLine, StartsBig, EndsBig, Opens, Closes, Here, Ahead
<1>2. Here = ";" => ModeAfter = mode
  BY DEF ModeAfter, StartsLine, StartsBig, EndsBig, Opens, Closes, Quotes
<1>3. mode = "code" /\ ModeAfter # "code" => Here \notin Space \cup {";"}
  BY DEF ModeAfter, StartsLine, StartsBig, EndsBig, Opens, Closes, Quotes, Space
<1> QED
  BY <1>1, <1>2, <1>3 DEF Solid, Here

(* The path of a text that has been scanned up to i is that of one more.      *)
LEMMA PathStep ==
  ASSUME TypeOK, ListInv, NEW path \in Paths, SplitPath(path), NextChar
  PROVE  \E path2 \in Paths :
            /\ SplitPath(path2)
            /\ path2[i + 1].mode = ModeAfter /\ path2[i + 1].esc = (~esc /\ Here = "\\")
<1>t. /\ i \in Nat /\ left \in Nat /\ left <= i /\ i < Len(text) /\ stage = "split"
      /\ Len(text) \in Nat
  BY TextType DEF TypeOK, NextChar, ListInv
<1> DEFINE last == [mode |-> ModeAfter, esc |-> (~esc /\ Here = "\\")]
           path2 == [n \in Nat |-> IF n <= i THEN path[n] ELSE last]
<1>1. last \in [mode : Modes, esc : BOOLEAN]
  BY ModeAfterType
<1>2. path2 \in Paths /\ path2[i + 1] = last
  BY <1>t, <1>1 DEF Paths
<1>3. \A n \in Nat : n <= i => path2[n] = path[n]
  BY <1>t
<1> HIDE DEF path2
<1>4. PathTo(path2, i)
  <2>1. PathTo(path, i)
    BY <1>t DEF SplitPath
  <2>2. \A k \in 0 .. i - 1 : k \in Nat /\ k <= i /\ k + 1 \in Nat /\ k + 1 <= i
    BY <1>t
  <2>3. path2[0] = path[0]
    BY <1>t, <1>3
  <2> QED
    BY <1>3, <2>1, <2>2, <2>3 DEF PathTo
<1>5. path2[i].mode = mode /\ path2[i].esc = esc
  BY <1>t, <1>3 DEF SplitPath
<1>6. /\ \A q \in left .. i - 1 : CodeDelim(path2, q) => Blank(left, q)
      /\ \A q \in left .. i : q < Len(text) /\ path2[q].mode # "code" =>
             \E s \in left .. q - 1 : Solid(s)
      /\ \A q \in 0 .. left - 1 : HiddenDelim(path2, q) => Taken(q)
  <2>1. \A q \in left .. i : q \in Nat /\ q <= i
    BY <1>t
  <2>2. \A q \in 0 .. left - 1 : q \in Nat /\ q <= i
    BY <1>t
  <2>3. \A q \in left .. i - 1 : q \in left .. i
    BY <1>t
  <2> QED
    BY <1>t, <1>3, <2>1, <2>2, <2>3 DEF SplitPath, CodeDelim, HiddenDelim
<1>7. ASSUME NEW k \in 1 .. Len(sentences), NEW q \in Nat,
             CodeDelim(path2, q), Covers(sentences[k], q)
      PROVE  sentences[k].position = q
  <2>1. EndOf(sentences[k]) <= left /\ EndOf(sentences[k]) \in Nat
    <3>1. sentences \in Seq(Sentences)
      BY DEF TypeOK, Sentences
    <3>2. sentences[k] \in Sentences
      BY <3>1
    <3>3. EndOf(sentences[k]) \in Nat
      BY <3>2 DEF Sentences, EndOf
    <3> QED
      BY <3>3 DEF ListInv
  <2>2. q <= i
    BY <1>t, <1>7, <2>1 DEF Covers
  <2> QED
    BY <1>3, <1>7, <2>2 DEF SplitPath, CodeDelim
<1>8. SplitPath(path2)
  BY <1>t, <1>4, <1>5, <1>6, <1>7 DEF SplitPath
<1> QED
  BY <1>2, <1>8

(* A character of the first scanner.                                        *)
LEMMA SplitStep ==
  ASSUME TypeOK, ListInv, NEW path \in Paths, SplitPath(path),
         InSentence \/ EmptySentence \/ EndSentence,
         path[i + 1].mode = mode', path[i + 1].esc = esc'
  PROVE  SplitPath(path)'
<1>1. /\ stage = "split" /\ stage' = "split" /\ i' = i + 1 /\ text' = text
      /\ mode' = ModeAfter /\ esc' = (~esc /\ Here = "\\")
  BY DEF InSentence, EmptySentence, EndSentence, NextChar
<1>l. i < Len(text) /\ left <= i
  BY <1>1 DEF InSentence, EmptySentence, EndSentence, NextChar, ListInv
<1>t. i \in Nat /\ left \in Nat /\ Len(text) \in Nat
  BY TextType DEF TypeOK
<1>s. sentences \in Seq(Sentences)
  BY DEF TypeOK, Sentences
<1>2. path[i].mode = mode /\ path[i].esc = esc /\ PathTo(path, i)
  BY <1>1 DEF SplitPath
<1>a. /\ \A k : At(k)' = At(k)
      /\ \A k : Solid(k)' <=> Solid(k)
      /\ \A q, r : Blank(q, r)' <=> Blank(q, r)
      /\ \A q : CodeDelim(path, q)' <=> CodeDelim(path, q)
      /\ \A q : HiddenDelim(path, q)' <=> HiddenDelim(path, q)
      /\ \A s, q : Covers(s, q)' <=> Covers(s, q)
  BY <1>1 DEF At, Solid, Blank, CodeDelim, HiddenDelim, Covers, EndOf
<1>p. PathTo(path, i)'
  <2>1. PathTo(path, i + 1)
    <3>1. \A k \in 0 .. (i + 1) - 1 : k \in 0 .. i - 1 \/ k = i
      BY <1>t
    <3>2. /\ path[i + 1].mode = ModeFrom(path[i].mode, path[i].esc, i)
          /\ path[i + 1].esc = EscFrom(path[i].esc, i)
      BY <1>1, <1>2, ModeAfterFacts DEF EscFrom, Here
    <3> QED
      BY <1>2, <3>1, <3>2 DEF PathTo
  <2>2. \A m, e, k : ModeFrom(m, e, k)' = ModeFrom(m, e, k) /\ EscFrom(e, k)' = EscFrom(e, k)
    BY <1>a DEF ModeFrom, EscFrom
  <2> QED
    BY <1>1, <2>1, <2>2 DEF PathTo
<1>d. OnDelim <=> CodeDelim(path, i)
  BY <1>2, ModeAfterFacts DEF OnDelim, CodeDelim, Here
<1>o. \A q \in left .. i : path[q].mode # "code" => \E s \in left .. q - 1 : Solid(s)
  BY <1>t, <1>l, <1>1 DEF SplitPath
<1>b. \A q \in left .. i - 1 : CodeDelim(path, q) => Blank(left, q)
  BY <1>1 DEF SplitPath
<1>r. (OnDelim => Right = i) /\ (~OnDelim => Right = i + 1)
  BY DEF Right
<1>h. ASSUME NEW q \in Nat, q <= i, At(q) = ";", ~CodeDelim(path, q)
      PROVE  q < Right
  <2>0. q <= i
    BY <1>h
  <2>1. CASE OnDelim
    <3>1. q # i
      BY <1>d, <1>h, <2>1
    <3>2. Right = i
      BY <1>r, <2>1
    <3> QED
      BY <1>t, <2>0, <3>1, <3>2
  <2>2. CASE ~OnDelim
    <3>1. Right = i + 1
      BY <1>r, <2>2
    <3> QED
      BY <1>t, <2>0, <3>1
  <2> QED
    BY <2>1, <2>2
<1>3. CASE InSentence \/ EmptySentence
  <2>1. /\ left' = left /\ sentences' = sentences
        /\ \/ ~Cut
           \/ Cut /\ Blank(left, Right)
    BY <1>3 DEF InSentence, EmptySentence, splitVars
  <2>2. \A q \in left .. i : CodeDelim(path, q) => Blank(left, q)
    <3>1. CodeDelim(path, i) => Blank(left, i)
      BY <1>d, <1>r, <2>1 DEF Cut
    <3>2. \A q \in left .. i : q = i \/ q \in left .. i - 1
      BY <1>t
    <3> QED
      BY <1>b, <3>1, <3>2
  <2>3. ASSUME NEW q \in left .. i + 1, path[q].mode # "code"
        PROVE  \E s \in left .. q - 1 : Solid(s)
    <3>1. CASE q \in left .. i
      BY <1>o, <2>3, <3>1
    <3>2. CASE q = i + 1 /\ mode = "code"
      <4>1. Solid(i)
        BY <1>1, <2>3, <3>2, ModeAfterFacts
      <4>2. i \in left .. q - 1
        BY <1>t, <1>l, <3>2
      <4> QED
        BY <4>1, <4>2
    <3>3. CASE q = i + 1 /\ mode # "code"
      <4>1. PICK s \in left .. i - 1 : Solid(s)
        BY <1>t, <1>l, <1>o, <1>2, <3>3
      <4>2. s \in left .. q - 1
        BY <1>t, <1>l, <3>3, <4>1
      <4> QED
        BY <4>1, <4>2
    <3> QED
      BY <1>t, <1>l, <3>1, <3>2, <3>3
  <2>4. i + 1 = Len(text) => \A q \in 0 .. Len(text) - 1 : HiddenDelim(path, q) => Taken(q)
    <3> SUFFICES ASSUME i + 1 = Len(text), NEW q \in 0 .. Len(text) - 1, HiddenDelim(path, q)
                 PROVE  Taken(q)
      OBVIOUS
    <3>1. Blank(left, Right)
      BY <2>1 DEF Cut
    <3>2. At(q) = ";" /\ ~CodeDelim(path, q)
      BY DEF HiddenDelim, CodeDelim
    <3>3. CASE left <= q
      <4>1. q \in left .. Right - 1
        <5>1. q \in Nat /\ q <= i
          BY <1>t
        <5>2. q < Right
          BY <1>h, <3>2, <5>1
        <5>3. Right \in Nat
          BY <1>t, <1>r
        <5> QED
          BY <1>t, <3>3, <5>1, <5>2, <5>3
      <4> QED
        BY <3>1, <3>2, <4>1 DEF Blank, Space
    <3>4. CASE q < left
      BY <1>t, <1>l, <3>4 DEF SplitPath
    <3> QED
      BY <1>t, <1>l, <3>3, <3>4
  <2>5. \A q : Taken(q)' <=> Taken(q)
    BY <1>a, <2>1 DEF Taken
  <2>6. \A q \in 0 .. left - 1 : HiddenDelim(path, q) => Taken(q)
    BY DEF SplitPath
  <2>7. \A k \in 1 .. Len(sentences) : \A q \in Nat :
           CodeDelim(path, q) /\ Covers(sentences[k], q) => sentences[k].position = q
    BY DEF SplitPath
  <2> QED
    BY <1>t, <1>l, <1>1, <1>a, <1>p, <2>1, <2>2, <2>3, <2>4, <2>5, <2>6, <2>7 DEF SplitPath
<1>4. CASE EndSentence
  <2>1. left' = i + 1 /\ Cut
    BY <1>4 DEF EndSentence, LeftAfter
  <2>r. Right \in Nat
    BY <1>t, <1>l, <1>r
  <2>2. PICK p, e \in Nat :
             /\ left <= p /\ p < e /\ e <= Right /\ Right <= Len(text) /\ Right <= i + 1
             /\ Blank(left, p) /\ Blank(e, Right) /\ At(p) \notin Space
             /\ \/ e = p + 1 /\ At(p) = ";" /\ sentences' = sentences
                \/ sentences' = Append(sentences, SentenceAt(p, e))
    BY <1>4, SentenceEnded
  <2>o. left <= p /\ p < e /\ e <= Right /\ Right <= Len(text) /\ Right <= i + 1
    BY <2>2
  <2>z. \/ e = p + 1 /\ At(p) = ";" /\ sentences' = sentences
        \/ sentences' = Append(sentences, SentenceAt(p, e))
    BY <2>2
  <2>b. /\ \A k \in left .. p - 1 : At(k) \in Space
        /\ \A k \in e .. Right - 1 : At(k) \in Space
    BY <2>2 DEF Blank
  <2>new. /\ SentenceAt(p, e) \in Sentences /\ SentenceAt(p, e).position = p
          /\ EndOf(SentenceAt(p, e)) = e
    <3>1. p <= e /\ e <= Len(text)
      BY <1>t, <2>o, <2>r
    <3> QED
      BY <3>1, SentenceType
  <2>s. /\ \A k \in 1 .. Len(sentences) : k \in 1 .. Len(sentences') /\ sentences'[k] = sentences[k]
        /\ \A k \in 1 .. Len(sentences') :
              k \in 1 .. Len(sentences) \/ sentences'[k] = SentenceAt(p, e)
        /\ sentences' \in Seq(Sentences)
    <3>1. CASE sentences' = sentences
      BY <1>s, <3>1
    <3>2. CASE sentences' = Append(sentences, SentenceAt(p, e))
      <4>1. SentenceAt(p, e) \in Sentences
        BY <2>new
      <4> HIDE DEF Sentences
      <4> QED
        BY <1>s, <3>2, <4>1
    <3> QED
      BY <2>z, <3>1, <3>2
  <2>3. ASSUME NEW k \in 1 .. Len(sentences'), NEW q \in Nat,
               CodeDelim(path, q), Covers(sentences'[k], q)
        PROVE  sentences'[k].position = q
    <3>1. CASE k \in 1 .. Len(sentences)
      BY <2>3, <2>s, <3>1 DEF SplitPath
    <3>2. CASE sentences'[k] = SentenceAt(p, e)
      <4>1. p <= q /\ q < e
        BY <2>3, <2>new, <3>2 DEF Covers
      <4>2. q # i
        BY <1>t, <1>d, <1>r, <2>o, <2>r, <2>3, <4>1
      <4>3. q \in left .. i - 1
        BY <1>t, <2>o, <2>r, <4>1, <4>2
      <4>4. Blank(left, q)
        BY <1>b, <2>3, <4>3
      <4>5. ~(p < q)
        <5>1. \A n \in left .. q - 1 : At(n) \in Space
          BY <4>4 DEF Blank
        <5>2. ASSUME p < q PROVE p \in left .. q - 1
          BY <1>t, <2>o, <5>2
        <5>3. At(p) \notin Space
          BY <2>2
        <5> QED
          BY <5>1, <5>2, <5>3
      <4> QED
        BY <2>new, <3>2, <4>1, <4>5
    <3> QED
      BY <2>s, <3>1, <3>2
  <2>4. ASSUME NEW q, Taken(q) PROVE Taken(q)'
    <3>1. PICK k \in 1 .. Len(sentences) : Covers(sentences[k], q)
      BY <1>t, <1>l, <2>4 DEF Taken
    <3>2. k \in DOMAIN sentences' /\ sentences'[k] = sentences[k]
      BY <2>s, <3>1
    <3> QED
      BY <1>a, <3>1, <3>2 DEF Taken
  <2>5. ASSUME NEW q \in 0 .. i, HiddenDelim(path, q) PROVE Taken(q)'
    <3>q. q \in Nat /\ q <= i
      BY <1>t
    <3>1. At(q) = ";" /\ path[q].mode # "code" /\ ~CodeDelim(path, q) /\ At(q) \notin Space
      BY <2>5 DEF HiddenDelim, CodeDelim, Space
    <3>2. CASE q < left
      <4>1. q \in 0 .. left - 1
        BY <1>t, <1>l, <3>2
      <4> QED
        BY <2>4, <2>5, <4>1 DEF SplitPath
    <3>3. CASE left <= q
      <4>1. q < Right
        BY <1>h, <3>1, <3>q
      <4>2. p <= q /\ q < e
        <5>1. ~(q < p)
          <6>1. q < p => q \in left .. p - 1
            BY <1>t, <3>q, <3>3
          <6> QED
            BY <2>b, <3>1, <6>1
        <5>2. ~(e <= q)
          <6>1. e <= q => q \in e .. Right - 1
            BY <2>r, <3>q, <4>1
          <6> QED
            BY <2>b, <3>1, <6>1
        <5> QED
          BY <3>q, <5>1, <5>2
      <4>3. PICK s \in left .. q - 1 : Solid(s)
        <5>1. q \in left .. i
          BY <1>t, <3>q, <3>3
        <5> QED
          BY <1>o, <3>1, <5>1
      <4>4. q # p
        <5>1. At(s) \notin Space
          BY <4>3 DEF Solid
        <5> QED
          BY <2>b, <4>3, <5>1
      <4>5. sentences' = Append(sentences, SentenceAt(p, e))
        <5>1. e # p + 1
          BY <2>o, <3>q, <4>2, <4>4
        <5> QED
          BY <2>z, <5>1
      <4>6. /\ Len(sentences) + 1 \in DOMAIN sentences'
            /\ sentences'[Len(sentences) + 1] = SentenceAt(p, e)
        BY <1>t, <1>l, <2>new, <4>5
      <4>7. Covers(SentenceAt(p, e), q)
        BY <2>new, <4>2 DEF Covers
      <4> QED
        BY <1>a, <4>6, <4>7 DEF Taken
    <3> QED
      BY <1>t, <1>l, <3>2, <3>3
  <2>6. i + 1 < Len(text) => path[i + 1].mode = "code"
    <3>1. i + 1 < Len(text) => i + 1 # Len(text)
      BY <1>t
    <3>2. i + 1 < Len(text) => ModeAfter = "code"
      BY <2>1, <3>1 DEF Cut, OnDelim
    <3> QED
      BY <1>1, <3>2
  <2> QED
    BY <1>t, <1>l, <1>1, <1>a, <1>p, <2>1, <2>3, <2>5, <2>6 DEF SplitPath
<1> QED
  BY <1>3, <1>4


(* What is left of the path once the text has been split.                     *)
LEMMA SplitKept ==
  ASSUME TypeOK, NEW path \in Paths, SplitPath(path), UNCHANGED <<text, left, sentences>>,
         stage' # "split", stage # "split" \/ i = Len(text)
  PROVE  SplitPath(path)'
<1>1. /\ \A k : At(k)' = At(k)
      /\ \A s, q : Covers(s, q)' <=> Covers(s, q)
  BY DEF At, Covers, EndOf
<1>2. /\ \A q : CodeDelim(path, q)' <=> CodeDelim(path, q)
      /\ \A q : HiddenDelim(path, q)' <=> HiddenDelim(path, q)
      /\ \A q : Taken(q)' <=> Taken(q)
  BY <1>1 DEF CodeDelim, HiddenDelim, Taken
<1>6. \A m, e, k : ModeFrom(m, e, k)' = ModeFrom(m, e, k) /\ EscFrom(e, k)' = EscFrom(e, k)
  BY <1>1 DEF ModeFrom, EscFrom
<1>3. PathTo(path, Len(text))
  BY DEF SplitPath
<1>4. PathTo(path, Len(text))'
  BY <1>3, <1>6 DEF PathTo
<1>5. /\ \A k \in 1 .. Len(sentences) : \A q \in Nat :
             CodeDelim(path, q) /\ Covers(sentences[k], q) => sentences[k].position = q
      /\ \A q \in 0 .. left - 1 : HiddenDelim(path, q) => Taken(q)
      /\ \A q \in 0 .. Len(text) - 1 : HiddenDelim(path, q) => Taken(q)
  BY DEF SplitPath
<1> QED
  BY <1>1, <1>2, <1>4, <1>5 DEF SplitPath

(* The delimiters that the list shows as code after a token has joined it.     *)
LEMMA TokenShown ==
  ASSUME TypeOK, NEW to \in Nat, start <= to,
         \A k \in 1 .. Len(tokens) : tokens[k].to <= start,
         tokens' = IF to > start THEN Append(tokens, [from |-> start, to |-> to, type |-> mode])
                   ELSE tokens
  PROVE  /\ \A p \in Nat : Shown(p)' <=> Shown(p) \/ (start <= p /\ p < to /\ mode = "code")
         /\ \A k \in 1 .. Len(tokens') : tokens'[k].to <= to
<1>1. tokens \in Seq(Tokens) /\ start \in Nat /\ mode \in Modes /\ Len(tokens) \in Nat
  BY DEF TypeOK, Tokens
<1>0. \A k \in 1 .. Len(tokens) : tokens[k].to \in Nat
  <2> SUFFICES ASSUME NEW k \in 1 .. Len(tokens) PROVE tokens[k].to \in Nat
    OBVIOUS
  <2>1. tokens[k] \in Tokens
    BY <1>1
  <2> QED
    BY <2>1 DEF Tokens
<1>2. CASE ~(to > start)
  <2>1. to = start /\ tokens' = tokens
    BY <1>1, <1>2
  <2>2. \A p \in Nat : ~(start <= p /\ p < to)
    BY <1>1, <2>1
  <2>3. \A p : Shown(p)' <=> Shown(p)
    BY <2>1 DEF Shown
  <2>4. \A k \in 1 .. Len(tokens') : tokens'[k].to <= to
    BY <2>1
  <2> QED
    BY <2>2, <2>3, <2>4
<1>3. CASE to > start
  <2> DEFINE new == [from |-> start, to |-> to, type |-> mode]
             n   == Len(tokens) + 1
  <2>1. new \in Tokens /\ new.from = start /\ new.to = to /\ new.type = mode
    BY <1>1 DEF Tokens
  <2>2. tokens' = Append(tokens, new)
    BY <1>3
  <2> HIDE DEF new
  <2>3. Len(tokens') = n /\ tokens'[n] = new /\ tokens' \in Seq(Tokens)
    BY <1>1, <2>1, <2>2
  <2>4. \A k \in 1 .. Len(tokens) : tokens'[k] = tokens[k]
    BY <1>1, <2>1, <2>2
  <2>5. \A k \in 1 .. n : k = n \/ k \in 1 .. Len(tokens)
    BY <1>1
  <2>6. /\ DOMAIN tokens = 1 .. Len(tokens) /\ DOMAIN tokens' = 1 .. n
        /\ n \in 1 .. n /\ \A k \in 1 .. Len(tokens) : k \in 1 .. n
    BY <1>1, <2>3
  <2> HIDE DEF n
  <2>7. ASSUME NEW p \in Nat
        PROVE  Shown(p)' <=> Shown(p) \/ (start <= p /\ p < to /\ mode = "code")
    <3>1. ASSUME Shown(p)' PROVE Shown(p) \/ (start <= p /\ p < to /\ mode = "code")
      <4>1. PICK k \in 1 .. n : tokens'[k].from <= p /\ p < tokens'[k].to /\ tokens'[k].type = "code"
        BY <2>6, <3>1 DEF Shown
      <4>2. CASE k = n
        BY <2>1, <2>3, <4>1, <4>2
      <4>3. CASE k \in 1 .. Len(tokens)
        BY <2>4, <2>6, <4>1, <4>3 DEF Shown
      <4> QED
        BY <2>5, <4>2, <4>3
    <3>2. ASSUME Shown(p) PROVE Shown(p)'
      <4>1. PICK k \in 1 .. Len(tokens) :
                tokens[k].from <= p /\ p < tokens[k].to /\ tokens[k].type = "code"
        BY <2>6, <3>2 DEF Shown
      <4>2. k \in DOMAIN tokens' /\ tokens'[k] = tokens[k]
        BY <2>4, <2>6
      <4> QED
        BY <4>1, <4>2 DEF Shown
    <3>3. ASSUME start <= p, p < to, mode = "code" PROVE Shown(p)'
      <4>1. n \in DOMAIN tokens' /\ tokens'[n].from <= p /\ p < tokens'[n].to
            /\ tokens'[n].type = "code"
        BY <2>1, <2>3, <2>6, <3>3
      <4> QED
        BY <4>1 DEF Shown
    <3> QED
      BY <3>1, <3>2, <3>3
  <2>8. ASSUME NEW k \in 1 .. Len(tokens') PROVE tokens'[k].to <= to
    <3>1. CASE k = n
      BY <2>1, <2>3, <3>1
    <3>2. CASE k \in 1 .. Len(tokens)
      <4>1. tokens[k].to <= start /\ tokens[k].to \in Nat
        BY <1>0, <3>2
      <4> QED
        BY <1>1, <1>3, <2>4, <3>2, <4>1
    <3> QED
      BY <2>3, <2>5, <3>1, <3>2
  <2> QED
    BY <2>7, <2>8
<1> QED
  BY <1>2, <1>3

(* Where the second scanner stands on the path, and what is next on it.       *)
LEMMA PathAhead ==
  ASSUME TypeOK, NEW path \in Paths, PathTo(path, Len(text)), i < Len(text), path[i].esc = esc
  PROVE  /\ path[i + 1].mode = ModeFrom(path[i].mode, esc, i)
         /\ path[i + 1].esc = (~esc /\ Here = "\\")
<1>1. i \in 0 .. Len(text) - 1
  BY TextType DEF TypeOK
<1> QED
  BY <1>1 DEF PathTo, EscFrom, Here

Dull(from, to) == \A p \in from .. to - 1 : At(p) \notin {";", "\n"}

(* A step within a line that stays on the path keeps what is shown.          *)
LEMMA ShowMove ==
  ASSUME TypeOK, TileInv, NEW path \in Paths, ShowPath(path), InBlock,
         NEW to \in Nat, i <= to, EndToken(to),
         NEW next \in Nat, i' = next, to <= next, i < next, Dull(i, next),
         path[next].mode = mode', path[next].esc = esc'
  PROVE  ShowPath(path)'
<1>1. /\ stage = "highlight" /\ stage' = stage /\ text' = text /\ start' = to /\ start <= i
      /\ tokens' = IF to > start THEN Append(tokens, [from |-> start, to |-> to, type |-> mode])
                   ELSE tokens
  BY DEF InBlock, EndToken, TileInv
<1>t. i \in Nat /\ start \in Nat
  BY TextType DEF TypeOK
<1>2. /\ \A p \in Nat : Shown(p)' <=> Shown(p) \/ (start <= p /\ p < to /\ mode = "code")
      /\ \A k \in 1 .. Len(tokens') : tokens'[k].to <= to
  <2>1. \A k \in 1 .. Len(tokens) : tokens[k].to <= start
    BY DEF ShowPath
  <2>2. start <= to
    BY <1>t, <1>1
  <2> QED
    BY <1>1, <2>1, <2>2, TokenShown
<1>3. \A k : At(k)' = At(k)
  BY <1>1 DEF At
<1>4. ~EmptyBlock'
  <2>1. next - 1 \in i .. next - 1 /\ next # 0
    BY <1>t
  <2>2. At(next - 1) # "\n"
    BY <2>1 DEF Dull
  <2> QED
    BY <1>3, <2>1, <2>2 DEF EmptyBlock
<1>5. ASSUME NEW p \in 0 .. next - 1, At(p) = ";"
      PROVE  path[p].mode = "code" <=> Shown(p)' \/ (to <= p /\ mode' = "code")
  <2>1. p \in 0 .. i - 1
    <3>1. p \notin i .. next - 1
      BY <1>5 DEF Dull
    <3> QED
      BY <1>t, <3>1
  <2>2. path[p].mode = "code" <=> Shown(p) \/ (start <= p /\ mode = "code")
    BY <1>1, <1>5, <2>1 DEF ShowPath
  <2>3. p \in Nat /\ p < to /\ ~(to <= p)
    BY <1>t, <2>1
  <2> QED
    BY <1>2, <2>2, <2>3
<1>6. Follows(path)'
  BY DEF Follows
<1> QED
  BY <1>1, <1>2, <1>3, <1>4, <1>5, <1>6 DEF ShowPath


(* Unless two signs share a character, the second scanner stays on the path   *)
(* of the first.                                                           *)
LEMMA ShowBlock ==
  ASSUME TypeOK, TileInv, NEW path \in Paths, PathTo(path, Len(text)), ShowPath(path),
         ~SharedSlash, InBlock,
         \/ EnterLineComment \/ EnterBigComment \/ LeaveBigComment
         \/ EnterString \/ LeaveString \/ InToken
  PROVE  ShowPath(path)'
<1>t. i \in Nat /\ start \in Nat /\ Len(text) \in Nat
  BY TextType DEF TypeOK
<1>l. i < Len(text)
  <2>1. i # Len(text) /\ i <= Len(text)
    BY <1>t DEF InBlock, EndOfBlock, TypeOK
  <2> QED
    BY <1>t, <2>1
<1>1. /\ Here # "\n" /\ stage = "highlight"
      /\ path[i].mode = mode /\ path[i].esc = esc
  BY DEF InBlock, EndOfBlock, ShowPath, Follows
<1>2. path[i + 1].mode = ModeAfter /\ path[i + 1].esc = (~esc /\ Here = "\\")
  BY <1>l, <1>1, ModeAfterFacts, PathAhead
<1>e. Here # "\\" => path[i + 1].esc = FALSE
  <2>1. Here # "\\" => (~esc /\ Here = "\\") = FALSE
    OBVIOUS
  <2> QED
    BY <1>2, <2>1
<1>o. Here \notin {";", "\n"} => Dull(i, i + 1)
  <2>1. \A p \in i .. (i + 1) - 1 : p = i
    BY <1>t
  <2> QED
    BY <2>1 DEF Dull, Here
<1>n. i <= i /\ i + 1 \in Nat /\ i <= i + 1 /\ i < i + 1 /\ i + 2 \in Nat /\ i <= i + 2 /\ i < i + 2
  BY <1>t
<1>p. ASSUME StartsBig \/ EndsBig
      PROVE  /\ Dull(i, i + 2) /\ i + 1 < Len(text)
             /\ path[i + 2].mode = ModeFrom(ModeAfter, FALSE, i + 1) /\ path[i + 2].esc = FALSE
  <2>1. i + 2 <= Len(text)
    BY <1>p, TwoCharacters
  <2>2. \A p \in i .. (i + 2) - 1 : p = i \/ p = i + 1
    BY <1>t
  <2>3. Here \in {"/", "*"} /\ Ahead \in {"/", "*"}
    BY <1>p DEF StartsBig, EndsBig
  <2>4. Dull(i, i + 2)
    BY <2>2, <2>3 DEF Dull, Here, Ahead
  <2>5. i + 1 \in 0 .. Len(text) - 1 /\ (i + 1) + 1 = i + 2
    BY <1>t, <2>1
  <2>6. path[i + 1].esc = FALSE
    BY <1>2, <2>3
  <2>7. EscFrom(FALSE, i + 1) = FALSE
    BY <2>3 DEF EscFrom, Ahead
  <2>8. /\ path[(i + 1) + 1].mode = ModeFrom(path[i + 1].mode, path[i + 1].esc, i + 1)
        /\ path[(i + 1) + 1].esc = EscFrom(path[i + 1].esc, i + 1)
    BY <2>5 DEF PathTo
  <2>9. i + 1 < Len(text)
    BY <1>t, <2>1
  <2> QED
    BY <1>2, <2>4, <2>5, <2>6, <2>7, <2>8, <2>9
<1>s. /\ StartsBig => At(i + 2) # "/"
      /\ EndsBig => At(i + 2) # "*"
  <2>1. ASSUME \/ StartsBig /\ At(i + 2) = "/"
               \/ EndsBig /\ At(i + 2) = "*"
        PROVE  FALSE
    <3>1. At(i + 2) # "null"
      BY <2>1
    <3>2. i + 2 < Len(text)
      BY <3>1 DEF At
    <3>3. i \in 0 .. Len(text) - 3
      BY <1>t, <3>2
    <3> QED
      BY <2>1, <3>3 DEF SharedSlash, StartsBig, EndsBig, Here, Ahead
  <2> QED
    BY <2>1
<1>3. CASE EnterLineComment
  <2>1. mode = "code" /\ StartsLine /\ EndToken(i) /\ mode' = "line" /\ i' = i + 1 /\ esc' = FALSE
    BY <1>3 DEF EnterLineComment
  <2>2. Here \in {"#", "-"}
    BY <2>1 DEF StartsLine
  <2>3. ModeAfter = "line"
    BY <2>1, <2>2 DEF ModeAfter, StartsLine, StartsBig, Opens, Quotes
  <2>4. Dull(i, i + 1) /\ path[i + 1].mode = mode' /\ path[i + 1].esc = esc'
    <3>1. Dull(i, i + 1)
      BY <1>o, <2>2
    <3>2. path[i + 1].mode = mode'
      BY <1>2, <2>1, <2>3
    <3>3. path[i + 1].esc = FALSE
      BY <1>e, <2>2
    <3> QED
      BY <2>1, <3>1, <3>2, <3>3, Zenon
  <2> QED
    BY <1>t, <1>n, <2>1, <2>4, ShowMove
<1>4. CASE EnterBigComment
  <2>1. mode = "code" /\ StartsBig /\ EndToken(i) /\ mode' = "big" /\ i' = i + 2 /\ esc' = FALSE
    BY <1>4 DEF EnterBigComment
  <2>2. ModeAfter = "big"
    BY <2>1 DEF ModeAfter, StartsLine, StartsBig, Opens, Quotes
  <2>3. ModeFrom("big", FALSE, i + 1) = "big"
    <3>1. ~(At(i + 1) = "*" /\ At((i + 1) + 1) = "/")
      BY <1>t, <1>s, <2>1
    <3> QED
      BY <3>1 DEF ModeFrom, Quotes
  <2>4. /\ Dull(i, i + 2)
        /\ path[i + 2].mode = mode' /\ path[i + 2].esc = esc'
    <3>1. Dull(i, i + 2) /\ path[i + 2].mode = ModeFrom(ModeAfter, FALSE, i + 1) /\ path[i + 2].esc = FALSE
      BY <1>p, <2>1
    <3>2. path[i + 2].mode = mode'
      BY <2>1, <2>2, <2>3, <3>1
    <3> QED
      BY <2>1, <3>1, <3>2, Zenon
  <2> QED
    BY <1>t, <1>n, <2>1, <2>4, ShowMove
<1>5. CASE LeaveBigComment
  <2>1. mode = "big" /\ EndsBig /\ EndToken(i + 2) /\ mode' = "code" /\ i' = i + 2 /\ esc' = FALSE
    BY <1>5 DEF LeaveBigComment
  <2>2. ModeAfter = "code"
    BY <2>1 DEF ModeAfter
  <2>3. ModeFrom("code", FALSE, i + 1) = "code"
    <3>1. ~(At(i + 1) = "/" /\ At((i + 1) + 1) = "*")
      BY <1>t, <1>s, <2>1
    <3>2. At(i + 1) = "/"
      BY <2>1 DEF EndsBig, Ahead
    <3> QED
      BY <3>1, <3>2 DEF ModeFrom, Quotes
  <2>4. i + 2 <= i + 2
    BY <1>t
  <2> QED
    BY <1>t, <1>n, <1>p, <2>1, <2>2, <2>3, <2>4, ShowMove
<1>6. CASE EnterString
  <2>1. mode = "code" /\ Opens /\ EndToken(i) /\ mode' = Here /\ i' = i + 1 /\ esc' = FALSE
    BY <1>6 DEF EnterString
  <2>2. Here \in Quotes
    BY <2>1 DEF Opens
  <2>3. ModeAfter = Here
    BY <2>1, <2>2 DEF ModeAfter, StartsLine, StartsBig, Quotes
  <2>4. Here \notin {";", "\n", "\\"}
    BY <2>2 DEF Quotes
  <2>5. Dull(i, i + 1) /\ path[i + 1].mode = mode' /\ path[i + 1].esc = esc'
    <3>1. Dull(i, i + 1)
      BY <1>o, <2>4
    <3>2. path[i + 1].mode = mode'
      BY <1>2, <2>1, <2>3
    <3>3. path[i + 1].esc = FALSE
      BY <1>e, <2>4
    <3> QED
      BY <2>1, <3>1, <3>2, <3>3, Zenon
  <2> QED
    BY <1>t, <1>n, <2>1, <2>5, ShowMove
<1>7. CASE LeaveString
  <2>1. mode \in Quotes /\ Closes /\ EndToken(i + 1) /\ mode' = "code" /\ i' = i + 1 /\ esc' = FALSE
    BY <1>7 DEF LeaveString
  <2>2. ModeAfter = "code"
    BY <2>1 DEF ModeAfter, Quotes
  <2>4. Here \notin {";", "\n", "\\"}
    BY <2>1 DEF Closes, Opens, Quotes
  <2>5. i + 1 <= i + 1
    BY <1>t
  <2> QED
    BY <1>t, <1>n, <1>o, <1>2, <2>1, <2>2, <2>4, <2>5, ShowMove
<1>8. CASE InToken
  <2>1. /\ i' = i + 1 /\ esc' = (~esc /\ Here = "\\") /\ mode' = mode
        /\ UNCHANGED <<text, stage, start, tokens, blockState>>
    BY <1>8 DEF InToken, InBlock
  <2>2. ModeAfter = mode
    BY <1>1, <1>8 DEF InToken, ModeAfter
  <2>3. Follows(path)' /\ path[i'].esc = esc'
    BY <1>2, <2>1, <2>2 DEF Follows
  <2>4. \A k : At(k)' = At(k) /\ (Shown(k)' <=> Shown(k))
    BY <2>1 DEF At, Shown
  <2>5. ~EmptyBlock'
    <3>1. i + 1 # 0 /\ (i + 1) - 1 = i
      BY <1>t
    <3> QED
      BY <1>1, <2>1, <2>4, <3>1 DEF EmptyBlock, Here
  <2>6. \A k \in 1 .. Len(tokens) : tokens[k].to <= start
    BY DEF ShowPath
  <2>7. ASSUME NEW p \in 0 .. i, At(p) = ";"
        PROVE  path[p].mode = "code" <=> Shown(p) \/ (start <= p /\ mode = "code")
    <3>1. CASE p = i
      <4>1. ~Shown(i)
        <5>1. ASSUME NEW k \in DOMAIN tokens, i < tokens[k].to PROVE FALSE
          <6>0. tokens \in Seq(Tokens)
            BY DEF TypeOK, Tokens
          <6>1. k \in 1 .. Len(tokens) /\ tokens[k] \in Tokens
            BY <6>0
          <6>2. tokens[k].to \in Nat /\ tokens[k].to <= start
            BY <2>6, <6>1 DEF Tokens
          <6>3. start <= i
            BY <1>1 DEF TileInv
          <6> QED
            BY <1>t, <5>1, <6>2, <6>3
        <5> QED
          BY <5>1 DEF Shown
      <4>2. start <= i
        BY <1>1 DEF TileInv
      <4> QED
        BY <1>1, <3>1, <4>1, <4>2
    <3>2. CASE p # i
      <4>1. p \in 0 .. i - 1
        BY <1>t, <3>2
      <4> QED
        BY <1>1, <2>7, <4>1 DEF ShowPath
    <3> QED
      BY <3>1, <3>2
  <2>8. \A p \in 0 .. (i + 1) - 1 : p \in 0 .. i
    BY <1>t
  <2> QED
    BY <1>1, <2>1, <2>3, <2>4, <2>5, <2>6, <2>7, <2>8 DEF ShowPath
<1> QED
  BY <1>3, <1>4, <1>5, <1>6, <1>7, <1>8


(* At the end of a line the second scanner may leave a line comment before     *)
(* the first does, and only between line feeds.                              *)
LEMMA ShowEnd ==
  ASSUME TypeOK, TileInv, NEW path \in Paths, PathTo(path, Len(text)), ShowPath(path), EndBlock
  PROVE  ShowPath(path)'
<1>t. i \in Nat /\ start \in Nat /\ Len(text) \in Nat /\ i <= Len(text)
  BY TextType DEF TypeOK
<1>1. /\ stage = "highlight" /\ text' = text /\ start <= i /\ start' = i + 1
      /\ mode' = StateAfter /\ blockState' = StateAfter /\ esc' = FALSE
      /\ tokens' = IF i > start THEN Append(tokens, [from |-> start, to |-> i, type |-> mode])
                   ELSE tokens
      /\ \/ i = Len(text) /\ stage' = "done"
         \/ i < Len(text) /\ Here = "\n" /\ i' = i + 1 /\ stage' = "highlight"
  <2>1. stage = "highlight" /\ EndOfBlock
    BY DEF EndBlock
  <2>2. i < Len(text) <=> i # Len(text)
    BY <1>t
  <2> QED
    BY <2>1, <2>2 DEF EndBlock, EndOfBlock, TileInv
<1>2. /\ Follows(path) /\ path[i].esc = esc
      /\ EmptyBlock => mode = blockState
      /\ mode \in Modes /\ blockState \in Open \cup {"code"}
  BY <1>1 DEF ShowPath, TypeOK
<1>3. /\ \A p \in Nat : Shown(p)' <=> Shown(p) \/ (start <= p /\ p < i /\ mode = "code")
      /\ \A k \in 1 .. Len(tokens') : tokens'[k].to <= i
  <2>1. \A k \in 1 .. Len(tokens) : tokens[k].to <= start
    BY DEF ShowPath
  <2> QED
    BY <1>t, <1>1, <2>1, TokenShown
<1>4. \A k : At(k)' = At(k)
  BY <1>1 DEF At
<1>5. ASSUME NEW p \in 0 .. i - 1, At(p) = ";"
      PROVE  path[p].mode = "code" <=> Shown(p)'
  <2>1. path[p].mode = "code" <=> Shown(p) \/ (start <= p /\ mode = "code")
    BY <1>1, <1>5 DEF ShowPath
  <2>2. p \in Nat /\ p < i
    BY <1>t
  <2> QED
    BY <1>3, <2>1, <2>2
<1>6. \A k \in 1 .. Len(tokens') : tokens'[k].to <= i + 1
  <2>1. tokens' \in Seq(Tokens)
    BY <1>t, <1>1, TokenEnded
  <2> SUFFICES ASSUME NEW k \in 1 .. Len(tokens') PROVE tokens'[k].to <= i + 1
    OBVIOUS
  <2>2. tokens'[k].to \in Nat
    <3>1. tokens'[k] \in Tokens
      BY <2>1
    <3> QED
      BY <3>1 DEF Tokens
  <2>3. tokens'[k].to <= i
    BY <1>3
  <2> QED
    BY <1>t, <2>2, <2>3
<1>7. CASE stage' = "done"
  <2>1. i = Len(text)
    BY <1>1, <1>7
  <2> QED
    BY <1>1, <1>4, <1>5, <1>6, <1>7, <2>1 DEF ShowPath
<1>8. CASE stage' = "highlight"
  <2>1. i < Len(text) /\ Here = "\n" /\ i' = i + 1
    BY <1>1, <1>8
  <2>2. path[i + 1].mode = ModeFrom(path[i].mode, esc, i) /\ path[i + 1].esc = FALSE
    <3>1. (~esc /\ Here = "\\") = FALSE
      BY <2>1
    <3> QED
      BY <1>2, <2>1, <3>1, PathAhead
  <2>3. \A m : ModeFrom(m, esc, i) = IF m = "line" /\ At(i + 1) # "\n" THEN "code" ELSE m
    BY <2>1 DEF ModeFrom, Here, Quotes
  <2>4. StateAfter = IF mode = "line" THEN "code" ELSE mode
    <3>1. CASE EmptyBlock
      BY <1>2, <3>1 DEF StateAfter, Open, Quotes
    <3>2. CASE ~EmptyBlock
      BY <1>2, <3>2 DEF StateAfter, Modes, Open, Quotes
    <3> QED
      BY <3>1, <3>2
  <2>5. Follows(path)'
    <3>1. \/ path[i + 1].mode = StateAfter
          \/ path[i + 1].mode = "line" /\ StateAfter = "code" /\ At(i + 1) = "\n"
      BY <1>2, <2>2, <2>3, <2>4 DEF Follows
    <3> QED
      BY <1>1, <1>4, <2>1, <3>1 DEF Follows, Here
  <2>6. StateAfter # "line"
    BY <2>4
  <2>7. ASSUME NEW p \in 0 .. i, At(p) = ";"
        PROVE  path[p].mode = "code" <=> Shown(p)' \/ (i + 1 <= p /\ StateAfter = "code")
    <3>1. p \in 0 .. i - 1
      <4>1. p # i
        BY <2>1, <2>7 DEF Here
      <4> QED
        BY <1>t, <4>1
    <3>2. ~(i + 1 <= p)
      BY <1>t
    <3> QED
      BY <1>5, <2>7, <3>1, <3>2
  <2>8. \A p \in 0 .. (i + 1) - 1 : p \in 0 .. i
    BY <1>t
  <2> QED
    BY <1>1, <1>4, <1>6, <1>8, <2>1, <2>2, <2>5, <2>6, <2>7, <2>8 DEF ShowPath
<1> QED
  BY <1>1, <1>7, <1>8
-----------------------------------------------------------------------------
(* There is a path that both scanners follow.                               *)
PathInv == \E path \in Paths : SplitPath(path) /\ (~SharedSlash => ShowPath(path))

LEMMA PathInit == Init => PathInv
<1> SUFFICES ASSUME Init PROVE PathInv
  OBVIOUS
<1> DEFINE path == [n \in Nat |-> [mode |-> "code", esc |-> FALSE]]
<1>1. path \in Paths /\ path[0] = [mode |-> "code", esc |-> FALSE]
  BY DEF Paths, Modes
<1>2. Len(text) \in Nat
  BY TextsAssumption DEF Init
<1> HIDE DEF path
<1>3. SplitPath(path)
  <2>1. PathTo(path, 0)
    BY <1>1 DEF PathTo
  <2>2. \A q \in 0 .. 0 : path[q].mode = "code"
    BY <1>1
  <2>3. stage = "split" /\ i = 0 /\ mode = "code" /\ esc = FALSE /\ left = 0 /\ sentences = <<>>
    BY DEF Init
  <2>4. Len(sentences) = 0
    BY <2>3
  <2>5. \A q \in left .. i : q \in 0 .. 0
    BY <2>3
  <2>6. /\ ~\E q : q \in left .. i - 1
        /\ ~\E q : q \in 0 .. left - 1
        /\ i = Len(text) => ~\E q : q \in 0 .. Len(text) - 1
        /\ ~\E k : k \in 1 .. Len(sentences)
    BY <1>2, <2>3, <2>4
  <2>7. PathTo(path, IF stage = "split" THEN i ELSE Len(text))
    BY <2>1, <2>3
  <2>8. path[i].mode = mode /\ path[i].esc = esc
    <3>1. path[i].mode = "code" /\ path[i].esc = FALSE
      BY <1>1, <2>3
    <3> QED
      BY <2>3, <3>1, Zenon
  <2> QED
    BY <2>2, <2>3, <2>5, <2>6, <2>7, <2>8 DEF SplitPath
<1>4. ShowPath(path)
  BY DEF Init, ShowPath
<1> QED
  BY <1>1, <1>3, <1>4 DEF PathInv

LEMMA PathNext == TypeOK /\ ListInv /\ TileInv /\ PathInv /\ [Next]_vars => PathInv'
<1> SUFFICES ASSUME TypeOK, ListInv, TileInv, PathInv, [Next]_vars PROVE PathInv'
  OBVIOUS
<1>1. PICK path \in Paths : SplitPath(path) /\ (~SharedSlash => ShowPath(path))
  BY DEF PathInv
<1>2. text' = text
  BY DEF Next, Split, InSentence, EmptySentence, EndSentence, NextChar, StartHighlight, Highlight,
         EnterLineComment, EnterBigComment, LeaveBigComment, EnterString, LeaveString, InToken,
         EndBlock, InBlock, Terminated, vars
<1>3. SharedSlash' <=> SharedSlash
  BY <1>2 DEF SharedSlash, At
<1>4. CASE InSentence \/ EmptySentence \/ EndSentence
  <2>1. /\ NextChar /\ stage = "split" /\ stage' = "split" /\ i' = i + 1
        /\ mode' = ModeAfter /\ esc' = (~esc /\ Here = "\\")
        /\ UNCHANGED <<start, tokens, blockState>>
    BY <1>4 DEF InSentence, EmptySentence, EndSentence, NextChar, highlightVars
  <2>2. PICK path2 \in Paths : /\ SplitPath(path2)
                               /\ path2[i + 1].mode = mode' /\ path2[i + 1].esc = esc'
    BY <1>1, <2>1, PathStep
  <2>3. SplitPath(path2)'
    BY <1>4, <2>2, SplitStep
  <2>4. ~SharedSlash => ShowPath(path2)'
    BY <1>1, <2>1 DEF ShowPath
  <2> QED
    BY <1>3, <2>3, <2>4 DEF PathInv
<1>5. CASE StartHighlight
  <2>1. /\ stage = "split" /\ i = Len(text) /\ stage' = "highlight" /\ i' = 0
        /\ mode' = "code" /\ esc' = FALSE
        /\ UNCHANGED <<text, left, sentences, start, tokens, blockState>>
    BY <1>5 DEF StartHighlight, splitVars, highlightVars
  <2>2. SplitPath(path)'
    BY <1>1, <2>1, SplitKept
  <2>3. path[0].mode = "code" /\ path[0].esc = FALSE
    BY <1>1 DEF SplitPath, PathTo
  <2>4. ASSUME ShowPath(path) PROVE ShowPath(path)'
    <3>1. tokens' = <<>> /\ start' = 0 /\ blockState' = "code"
      BY <2>1, <2>4 DEF ShowPath
    <3>2. Follows(path)' /\ path[i'].esc = esc'
      BY <2>1, <2>3 DEF Follows
    <3> QED
      BY <2>1, <3>1, <3>2 DEF ShowPath
  <2> QED
    BY <1>1, <1>3, <2>2, <2>4 DEF PathInv
<1>6. CASE Highlight
  <2>1. /\ stage = "highlight" /\ stage' # "split"
        /\ UNCHANGED <<text, left, sentences>>
    BY <1>6 DEF Highlight, EnterLineComment, EnterBigComment, LeaveBigComment, EnterString,
                LeaveString, InToken, EndBlock, InBlock, splitVars
  <2>2. SplitPath(path)'
    BY <1>1, <2>1, SplitKept
  <2>3. PathTo(path, Len(text))
    BY <1>1, <2>1 DEF SplitPath
  <2>4. ASSUME ~SharedSlash, ShowPath(path) PROVE ShowPath(path)'
    <3>1. CASE EndBlock
      BY <2>3, <2>4, <3>1, ShowEnd
    <3>2. CASE ~EndBlock
      <4>1. \/ EnterLineComment \/ EnterBigComment \/ LeaveBigComment
            \/ EnterString \/ LeaveString \/ InToken
        BY <1>6, <3>2 DEF Highlight
      <4>2. InBlock
        BY <4>1 DEF EnterLineComment, EnterBigComment, LeaveBigComment, EnterString,
                    LeaveString, InToken
      <4> QED
        BY <2>3, <2>4, <4>1, <4>2, ShowBlock
    <3> QED
      BY <3>1, <3>2
  <2> QED
    BY <1>1, <1>3, <2>2, <2>4 DEF PathInv
<1>7. CASE Terminated \/ UNCHANGED vars
  <2>1. UNCHANGED vars
    BY <1>7 DEF Terminated
  <2>2. UNCHANGED <<text, stage, i, mode, esc, left, sentences, start, tokens, blockState>>
    BY <2>1 DEF vars, splitVars, highlightVars
  <2>3. \A k : At(k)' = At(k)
    BY <2>2 DEF At
  <2>4. /\ \A s, q : Covers(s, q)' <=> Covers(s, q)
        /\ \A q : CodeDelim(path, q)' <=> CodeDelim(path, q)
        /\ \A q : HiddenDelim(path, q)' <=> HiddenDelim(path, q)
        /\ \A q, r : Blank(q, r)' <=> Blank(q, r)
        /\ \A q : Solid(q)' <=> Solid(q)
        /\ \A q : Shown(q)' <=> Shown(q)
    BY <2>2, <2>3 DEF Covers, EndOf, CodeDelim, HiddenDelim, Blank, Solid, Shown
  <2>5. \A q : Taken(q)' <=> Taken(q)
    BY <2>2, <2>4 DEF Taken
  <2>6. \A m, e, k : ModeFrom(m, e, k)' = ModeFrom(m, e, k) /\ EscFrom(e, k)' = EscFrom(e, k)
    BY <2>3 DEF ModeFrom, EscFrom
  <2>7. \A n : PathTo(path, n)' <=> PathTo(path, n)
    BY <2>6 DEF PathTo
  <2>8. SplitPath(path)'
    BY <1>1, <2>2, <2>4, <2>5, <2>7 DEF SplitPath
  <2>9. ShowPath(path) => ShowPath(path)'
    BY <2>2, <2>3, <2>4 DEF ShowPath, Follows, Here, EmptyBlock
  <2> QED
    BY <1>1, <1>3, <2>8, <2>9 DEF PathInv
<1> QED
  BY <1>4, <1>5, <1>6, <1>7 DEF Next, Split

(* The colours tell what a delimiter does, in texts of any length: unless two  *)
(* comment signs share a character, one that is coloured as code is never      *)
(* inside a query, and one that is coloured as part of a comment or a literal  *)
(* always is.                                                              *)
THEOREM ColoursAreTrue == Spec => []SplitAsShown
<1>0. ASSUME TypeOK
      PROVE  DOMAIN sentences = 1 .. Len(sentences) /\ \A p \in 0 .. Len(text) - 1 : p \in Nat
  <2>1. sentences \in Seq(Sentences) /\ Len(text) \in Nat
    BY <1>0, TextType DEF TypeOK, Sentences
  <2> QED
    BY <2>1
<1>1. TypeOK /\ PathInv => SplitAsShown
  <2> SUFFICES ASSUME TypeOK, PathInv, stage = "done", ~SharedSlash,
                      NEW p \in 0 .. Len(text) - 1, At(p) = ";"
               PROVE  IF Shown(p)
                      THEN \A k \in DOMAIN sentences :
                               Covers(sentences[k], p) => sentences[k].position = p
                      ELSE \E k \in DOMAIN sentences : Covers(sentences[k], p)
    BY DEF SplitAsShown
  <2>1. PICK path \in Paths : SplitPath(path) /\ ShowPath(path)
    BY DEF PathInv
  <2>2. path[p].mode = "code" <=> Shown(p)
    BY <2>1 DEF ShowPath
  <2>3. DOMAIN sentences = 1 .. Len(sentences) /\ p \in Nat
    BY <1>0
  <2>4. CASE Shown(p)
    <3>1. CodeDelim(path, p)
      BY <2>2, <2>4 DEF CodeDelim
    <3> QED
      BY <2>1, <2>3, <2>4, <3>1 DEF SplitPath
  <2>5. CASE ~Shown(p)
    <3>1. HiddenDelim(path, p)
      BY <2>2, <2>5 DEF HiddenDelim
    <3>2. Taken(p)
      BY <2>1, <3>1 DEF SplitPath
    <3> QED
      BY <2>5, <3>2 DEF Taken
  <2> QED
    BY <2>4, <2>5
<1>2. Spec => []TileInv
  <2>1. Init => TileInv
    BY DEF Init, TileInv
  <2> QED
    BY <2>1, TileNext, TypeCorrect, PTL DEF Spec
<1> QED
  BY <1>1, <1>2, PathInit, PathNext, ListCorrect, TypeCorrect, PTL DEF Spec

=============================================================================
