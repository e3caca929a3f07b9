---------------------------- MODULE SentencesParser ---------------------------
(***************************************************************************)
(* SentencesParser, the two scanners of a query's text, and what is made of   *)
(* their results: CentralRightQueryPresenter::execQueries runs the sentences  *)
(* of parseByDelimiter, or the one under the cursor, and SQLSyntaxHighlighter *)
(* colours the tokens that parseToTokens finds in each line.                 *)
(*                                                                         *)
(* The two scanners have been written twice, and the user trusts one of them  *)
(* (the colours) to know what the other one (the splitting) will do.         *)
(* A behaviour scans one text with the first, a character at a time, and then *)
(* with the second, a line at a time.  Positions count from 0.               *)
(***************************************************************************)
EXTENDS Integers, Sequences

CONSTANTS Chars,  \* characters, as strings; "tick" stands for the backtick
          Texts   \* the texts of a query tab

ASSUME TextsAssumption == Texts \subseteq Seq(Chars) /\ "null" \notin Chars

VARIABLES
    text,       \* the text that is scanned
    stage,      \* "split", "highlight", "done"
    i,          \* the loop's index
    mode,       \* "code", "line", "big" (comments), or the encloser of a literal
    esc,        \* inEscape
    left,       \* lastLeftOffset
    sentences,  \* the list of parseByDelimiter, [position, text]
    start,      \* where the current token starts
    tokens,     \* the tokens of all the lines so far, [from, to, type]
    blockState  \* the state of the previous block: a mode, "code" for none

splitVars     == <<left, sentences>>
highlightVars == <<start, tokens, blockState>>
vars          == <<text, stage, i, mode, esc, splitVars, highlightVars>>
-----------------------------------------------------------------------------
Space  == {" ", "\n"}
Quotes == {"'", "\"", "tick"}
Open   == Quotes \cup {"big"}  \* what a line may leave open

At(k) == IF k < Len(text) THEN text[k + 1] ELSE "null"
Here  == At(i)
Ahead == At(i + 1)

StartsLine == Here = "#" \/ (Here = "-" /\ Ahead = "-")
StartsBig  == Here = "/" /\ Ahead = "*"
EndsBig    == Here = "*" /\ Ahead = "/"
Opens      == Here \in Quotes /\ ~esc
Closes     == Here = mode /\ Opens

Init ==
    /\ text \in Texts /\ stage = "split"
    /\ i = 0 /\ mode = "code" /\ esc = FALSE
    /\ left = 0 /\ sentences = <<>>
    /\ start = 0 /\ tokens = <<>> /\ blockState = "code"
-----------------------------------------------------------------------------
(* A mutant of ModeAfter: a backslash does not escape an encloser.           *)
ModeUnescaped ==
    CASE mode = "code" /\ StartsLine     -> "line"
      [] mode = "code" /\ StartsBig      -> "big"
      [] mode = "big" /\ EndsBig         -> "code"
      [] mode = "code" /\ Here \in Quotes -> Here
      [] mode \in Quotes /\ Here = mode   -> "code"
      [] mode = "line" /\ Here = "\n" /\ Ahead # "\n" -> "code"
      [] OTHER -> mode

(* The flags inLineComment, inBigComment and inString after a character of    *)
(* parseByDelimiter; at most one of them is set.                            *)
ModeAfter ==
    CASE mode = "code" /\ StartsLine -> "line"
      [] mode = "code" /\ StartsBig  -> "big"
      [] mode = "big" /\ EndsBig     -> "code"
      [] mode = "code" /\ Opens      -> Here
      [] mode \in Quotes /\ Closes   -> "code"
      [] mode = "line" /\ Here = "\n" /\ Ahead # "\n" -> "code"
      [] OTHER -> mode

OnDelim == ModeAfter = "code" /\ Here = ";"

(* A mutant of Cut: what follows the last delimiter is forgotten.            *)
CutAtDelim == OnDelim

(* A query may end here.                                                    *)
Cut   == OnDelim \/ i + 1 = Len(text)
Right == IF OnDelim THEN i ELSE i + 1

Blank(from, to) == \A k \in from .. to - 1 : At(k) \in Space

NextChar ==
    /\ stage = "split" /\ i < Len(text)
    /\ i' = i + 1 /\ mode' = ModeAfter
    /\ esc' = (~esc /\ Here = "\\")
    /\ UNCHANGED <<text, stage, highlightVars>>

InSentence == NextChar /\ ~Cut /\ UNCHANGED splitVars

(* Nothing but spaces: lastLeftOffset stays, in front of the delimiter.       *)
EmptySentence == NextChar /\ Cut /\ Blank(left, Right) /\ UNCHANGED splitVars

(* [p, e) is what the segment from left to Right is without the spaces around. *)
Bounds(p, e) ==
    /\ p \in left .. Right - 1 /\ e \in p + 1 .. Right
    /\ Blank(left, p) /\ At(p) \notin Space
    /\ Blank(e, Right) /\ At(e - 1) \notin Space

(* A mutant of SentenceAt: the leading spaces are not counted.               *)
SentenceAtLeft(p, e) == [position |-> left, text |-> SubSeq(text, p + 1, e)]
SentenceAt(p, e)     == [position |-> p, text |-> SubSeq(text, p + 1, e)]

LeftAfter == i + 1

EndSentence ==
    /\ NextChar /\ Cut
    /\ \E p, e \in left .. Right :
           /\ Bounds(p, e)
           /\ sentences' = IF e = p + 1 /\ At(p) = ";" THEN sentences
                           ELSE Append(sentences, SentenceAt(p, e))
    /\ left' = LeftAfter

StartHighlight ==
    /\ stage = "split" /\ i = Len(text)
    /\ stage' = "highlight"
    /\ i' = 0 /\ mode' = "code" /\ esc' = FALSE
    /\ UNCHANGED <<text, splitVars, highlightVars>>

Split == InSentence \/ EmptySentence \/ EndSentence \/ StartHighlight
-----------------------------------------------------------------------------
(* A block of the document is a line without its line feed.                  *)
EndOfBlock == i = Len(text) \/ Here = "\n"

InBlock == stage = "highlight" /\ ~EndOfBlock /\ UNCHANGED <<text, stage, splitVars, blockState>>

(* The current token ends before a position and joins the list; another      *)
(* one starts there.  The end of a line comment at a line feed is not        *)
(* reached: a block holds none.                                             *)
EndToken(to) ==
    /\ tokens' = IF to > start THEN Append(tokens, [from |-> start, to |-> to, type |-> mode])
                 ELSE tokens
    /\ start' = to

EnterLineComment ==
    /\ InBlock /\ mode = "code" /\ StartsLine
    /\ EndToken(i)
    /\ mode' = "line" /\ i' = i + 1 /\ esc' = FALSE

(* Both characters of a comment's start, or of its end, are consumed.        *)
EnterBigComment ==
    /\ InBlock /\ mode = "code" /\ StartsBig
    /\ EndToken(i)
    /\ mode' = "big" /\ i' = i + 2 /\ esc' = FALSE

LeaveBigComment ==
    /\ InBlock /\ mode = "big" /\ EndsBig
    /\ EndToken(i + 2)
    /\ mode' = "code" /\ i' = i + 2 /\ esc' = FALSE

EnterString ==
    /\ InBlock /\ mode = "code" /\ Opens
    /\ EndToken(i)
    /\ mode' = Here /\ i' = i + 1 /\ esc' = FALSE

(* A mutant of LeaveString: the closing encloser is in no token.             *)
LeaveStringShort ==
    /\ InBlock /\ mode \in Quotes /\ Closes
    /\ tokens' = Append(tokens, [from |-> start, to |-> i, type |-> mode])
    /\ start' = i + 1
    /\ mode' = "code" /\ i' = i + 1 /\ esc' = FALSE

LeaveString ==
    /\ InBlock /\ mode \in Quotes /\ Closes
    /\ EndToken(i + 1)
    /\ mode' = "code" /\ i' = i + 1 /\ esc' = FALSE

InToken ==
    /\ InBlock
    /\ ~(mode = "code" /\ (StartsLine \/ StartsBig \/ Opens))
    /\ ~(mode = "big" /\ EndsBig)
    /\ ~(mode \in Quotes /\ Closes)
    /\ i' = i + 1 /\ esc' = (~esc /\ Here = "\\")
    /\ UNCHANGED <<mode, start, tokens>>

(* The block has no tokens.                                                 *)
EmptyBlock == i = 0 \/ At(i - 1) = "\n"

(* The state highlightBlock leaves.                                         *)
StateAfter ==
    IF EmptyBlock THEN blockState ELSE IF mode \in Open THEN mode ELSE "code"

(* The last token of a block, and the first state of the next one.           *)
EndBlock ==
    /\ stage = "highlight" /\ EndOfBlock
    /\ tokens' = IF i > start THEN Append(tokens, [from |-> start, to |-> i, type |-> mode])
                 ELSE tokens
    /\ blockState' = StateAfter /\ mode' = StateAfter /\ esc' = FALSE
    /\ start' = i + 1
    /\ IF i = Len(text) THEN stage' = "done" /\ UNCHANGED i ELSE i' = i + 1 /\ UNCHANGED stage
    /\ UNCHANGED <<text, splitVars>>

Highlight ==
    \/ EnterLineComment \/ EnterBigComment \/ LeaveBigComment
    \/ EnterString \/ LeaveString \/ InToken \/ EndBlock

Terminated == stage = "done" /\ UNCHANGED vars

Next == Split \/ Highlight \/ Terminated

Spec == Init /\ [][Next]_vars
-----------------------------------------------------------------------------
Modes == Open \cup {"code", "line"}

(* The indices stay within the text, and the lists hold what they should.    *)
TypeOK ==
    /\ text \in Seq(Chars) /\ stage \in {"split", "highlight", "done"}
    /\ i \in 0 .. Len(text) /\ mode \in Modes /\ esc \in BOOLEAN
    /\ left \in 0 .. Len(text)
    /\ sentences \in Seq([position : Nat, text : Seq(Chars)])
    /\ start \in 0 .. Len(text) + 1
    /\ tokens \in Seq([from : Nat, to : Nat, type : Modes])
    /\ blockState \in Open \cup {"code"}

EndOf(s)     == s.position + Len(s.text)
Covers(s, p) == s.position <= p /\ p < EndOf(s)

(* execQueries for a cursor position: the first sentence around it is run.    *)
Around(p) == {k \in DOMAIN sentences :
                  sentences[k].position <= p /\ p <= EndOf(sentences[k])}
Chosen(p) == CHOOSE k \in Around(p) : \A other \in Around(p) : k <= other

(* "Run the current query" runs the text the cursor is in, or right behind:    *)
(* the sentence whose position is around it, never one before it that reaches  *)
(* as far, and its text is the one at that position.                         *)
CursorRunsItsSentence ==
    \A k \in DOMAIN sentences :
        LET s == sentences[k] IN
        /\ s.text = SubSeq(text, s.position + 1, EndOf(s))
        /\ \A p \in s.position .. EndOf(s) : Chosen(p) = k

(* Running everything runs everything: a character that is neither a space    *)
(* nor a delimiter is in a sentence, after empty statements and without a      *)
(* last delimiter too.                                                      *)
NothingDropped ==
    stage # "split" =>
        \A p \in 0 .. Len(text) - 1 :
            At(p) \notin Space \cup {";"} => \E k \in DOMAIN sentences : Covers(sentences[k], p)

(* The lines are coloured without a gap and without an overlap.              *)
TokensTile ==
    /\ \A k \in 1 .. Len(tokens) - 1 :
           tokens[k].to = tokens[k + 1].from
             \/ \A p \in tokens[k].to .. tokens[k + 1].from - 1 : At(p) = "\n"
    /\ \A k \in DOMAIN tokens : tokens[k].from < tokens[k].to
    /\ stage = "done" =>
           \A p \in 0 .. Len(text) - 1 :
               At(p) # "\n" => \E k \in DOMAIN tokens : tokens[k].from <= p /\ p < tokens[k].to

Shown(p) == \E k \in DOMAIN tokens :
                tokens[k].from <= p /\ p < tokens[k].to /\ tokens[k].type = "code"

(* parseByDelimiter takes one character for the end of one comment sign and   *)
(* the start of another: it closes a comment at "/*/", and opens one at "*/*". *)
SharedSlash ==
    \E p \in 0 .. Len(text) - 3 :
        \/ At(p) = "/" /\ At(p + 1) = "*" /\ At(p + 2) = "/"
        \/ At(p) = "*" /\ At(p + 1) = "/" /\ At(p + 2) = "*"

(* A delimiter that is coloured as part of a comment or a literal is passed    *)
(* on within its query, and one that is not ends the query before it ("so a    *)
(* query delimiter can be ignored").  Two exceptions are the code's: signs     *)
(* that share a character, and a delimiter after an empty statement, which     *)
(* becomes the first character of the next sentence.                        *)
SplitAsShown ==
    stage = "done" /\ ~SharedSlash =>
        \A p \in 0 .. Len(text) - 1 :
            At(p) = ";" =>
                IF Shown(p)
                THEN \A k \in DOMAIN sentences :
                         Covers(sentences[k], p) => sentences[k].position = p
                ELSE \E k \in DOMAIN sentences : Covers(sentences[k], p)
=============================================================================
