------------------------------- MODULE Scanner -------------------------------
(***************************************************************************)
(* Scanner::get() (src/scanner.cc) on the rules of src/expr.lxx.           *)
(*                                                                         *)
(* Flex reads the file in blocks into a buffer of its own and matches the  *)
(* longest text it can.  The rule for comments reads on in the file behind *)
(* flex's back.  Tokens are kept in a map by their text; what the parser   *)
(* gets are raw pointers to its entries.                                   *)
(*                                                                         *)
(* Characters stand for their class: "x" is a letter (the one of 0x), "0"  *)
(* and "1" are digits, "nl" and "space" white space, "nul" is 0; "quote"   *)
(* and "apos" begin strings and character constants.  Keywords and the     *)
(* other operators are read like names and "*"; the prefixes and suffixes  *)
(* of constants and the escapes in them change neither where a token ends  *)
(* nor its value.  Of a token's value only an integer's is kept.           *)
(***************************************************************************)
EXTENDS Integers, Sequences, FiniteSets

CONSTANTS
  Files,      \* the texts of the files to scan
  Blocks,     \* the numbers of characters that flex may read at a time
  MaxEnds,    \* bound on the calls of get() at the end of the file
  IntMax, LongMax  \* the largest values of the C types int and long

Chars == {"/", "*", "0", "1", "x", "dot", "quote", "apos", "nl", "space", "nul"}

ASSUME ScannerAssumption ==
  /\ \A f \in Files : f \in Seq(Chars)
  /\ Blocks \subseteq Nat \ {0}
  /\ MaxEnds \in Nat
  /\ IntMax \in Nat /\ LongMax \in Nat /\ LongMax >= IntMax

VARIABLES
  file,    \* the text of the file
  block,   \* how much flex reads at a time
  at,      \* the position of yyin: the next character to read from the file
  buf,     \* what flex has read and not matched yet
  line, col,  \* lex_lineno and lex_colno, where reports say an error is
  mode,    \* "idle", "match" (yylex), "comment" or "stars" (comment()), "abort"
  opened,  \* the position of yyin when comment() was last called
  clean,   \* whether all comments so far were read from where they begin
  heap,    \* the tokens made so far
  tokens,  \* the scanner's map: a token's text to its place in heap
  handed   \* the tokens returned so far: places in heap

vars == <<file, block, at, buf, line, col, mode, opened, clean, heap, tokens, handed>>

Digits == {"0", "1"}
Eof    == <<"[eof]">>

AllIn(s, chars) == \A i \in DOMAIN s : s[i] \in chars
Quotes(s)       == Cardinality({i \in DOMAIN s : s[i] = "quote"})
-----------------------------------------------------------------------------
(* The rules, on texts that are not empty.                                 *)

LineComment(s) == Len(s) > 1 /\ s[1] = "/" /\ s[2] = "/" /\ \A i \in DOMAIN s : s[i] # "nl"
Identifier(s)  == s[1] = "x" /\ AllIn(s, Digits \cup {"x"})
Hexadecimal(s) == Len(s) > 2 /\ s[1] = "0" /\ s[2] = "x" /\ AllIn(Tail(Tail(s)), Digits)
Number(s)      == AllIn(s, Digits) \/ Hexadecimal(s)

(* A character constant, of any number of characters, and the beginning of *)
(* one.                                                                    *)
OpenCharacter(s) == s[1] = "apos" /\ \A i \in 2..Len(s) : s[i] \notin {"apos", "nl"}
Character(s) ==
  /\ Len(s) > 2 /\ s[1] = "apos" /\ s[Len(s)] = "apos"
  /\ \A i \in 2..(Len(s) - 1) : s[i] \notin {"apos", "nl"}

Dots(s)     == Cardinality({i \in DOMAIN s : s[i] = "dot"})
Floating(s) == AllIn(s, Digits \cup {"dot"}) /\ Dots(s) = 1 /\ Len(s) > 1

(* The beginning of a hexadecimal floating constant; there is none with    *)
(* all of it, for want of an exponent.                                     *)
HexFloating(s) ==
  /\ Len(s) > 1 /\ s[1] = "0" /\ s[2] = "x"
  /\ AllIn(Tail(Tail(s)), Digits \cup {"dot"}) /\ Dots(s) <= 1

(* String literals with white space behind each, the last one perhaps      *)
(* still open.                                                             *)
Strings(s) ==
  /\ s[1] = "quote"
  /\ \A i \in DOMAIN s :
       LET inside == Quotes(SubSeq(s, 1, i)) % 2 = 1
       IN s[i] = "quote" \/ (IF inside THEN s[i] # "nl" ELSE s[i] \in {"nl", "space"})

Rule(s) ==
  CASE s = <<"/", "*">> -> "comment"
    [] LineComment(s)   -> "skip"
    [] Identifier(s)    -> "NAME"
    [] Number(s)        -> "I_CONSTANT"
    [] Character(s)     -> "I_CONSTANT"
    [] Floating(s)      -> "F_CONSTANT"
    [] Strings(s) /\ Quotes(s) % 2 = 0 -> "STRING_LITERAL"
    [] s = <<"*">>      -> "MULT"
    [] s = <<"/">>      -> "DIVIDE"
    [] Len(s) = 1 /\ s[1] \in {"dot", "quote", "apos", "nl", "space", "nul"} -> "skip"
    [] OTHER            -> "none"

(* May a longer text match, so that yylex looks at the next character?     *)
Open(s) ==
  \/ s \in {<<>>, <<"/">>, <<"dot">>}
  \/ s # <<>> /\ (LineComment(s) \/ Identifier(s) \/ Number(s)
                   \/ OpenCharacter(s)
                   \/ Floating(s) \/ HexFloating(s) \/ Strings(s))

(* The length of the longest text at the beginning of s that has a rule.   *)
Longest(s) ==
  CHOOSE k \in DOMAIN s :
    /\ Rule(SubSeq(s, 1, k)) # "none"
    /\ \A j \in (k + 1)..Len(s) : Rule(SubSeq(s, 1, j)) = "none"
-----------------------------------------------------------------------------
(* strtol and the conversion of its result to int.                         *)

(* The value of digits in a base.                                          *)
ValueOf(digits, base) ==
  LET value[n \in 0..Len(digits)] ==
        IF n = 0 THEN 0
        ELSE base * value[n - 1] + (IF digits[n] = "1" THEN 1 ELSE 0)
  IN value[Len(digits)]

(* Wrong: the long is stored as it is.                                     *)
ToIntUntruncated(n) == n

(* The low bits of n, the highest of them as the sign.                     *)
ToInt(n) ==
  LET low == n % (2 * IntMax + 2) IN IF low <= IntMax THEN low ELSE low - (2 * IntMax + 2)

(* The digits up to the first character that is none, at most LongMax.     *)
StrToL(s, base) ==
  LET n == CHOOSE k \in 0..Len(s) : /\ AllIn(SubSeq(s, 1, k), Digits)
                                    /\ k = Len(s) \/ s[k + 1] \notin Digits
      value == ValueOf(SubSeq(s, 1, n), base)
  IN IF value \in 0..LongMax THEN value ELSE LongMax

(* Wrong: every constant is taken for an octal one.                        *)
ConvertedOctal(s) == ToInt(StrToL(s, 8))

Converted(s) == ToInt(StrToL(s, 10))
-----------------------------------------------------------------------------
Init ==
  /\ file \in Files
  /\ block \in Blocks
  /\ at = 1 /\ buf = <<>> /\ line = 1 /\ col = 1
  /\ mode = "idle"
  /\ opened = 0 /\ clean = TRUE
  /\ heap = <<>> /\ tokens = <<>> /\ handed = <<>>

input == <<file, block, at, buf, line, col>>
cache == <<heap, tokens, handed>>

(* Wrong: the scanner's map takes a new token for every text it reads.     *)
DeliverNew(id, text) ==
  /\ heap' = Append(heap, [id |-> id, text |-> text,
                           value |-> IF id = "I_CONSTANT" THEN Converted(text) ELSE 0])
  /\ tokens' = [t \in DOMAIN tokens \cup {text} |->
                  IF t = text THEN Len(heap) + 1 ELSE tokens[t]]
  /\ handed' = Append(handed, Len(heap) + 1)
  /\ mode' = "idle"

(* What get() takes of yytext, a C string: a character constant is cut off *)
(* at a NUL in it.                                                         *)
CString(text) ==
  IF \E i \in DOMAIN text : text[i] = "nul"
  THEN SubSeq(text, 1, (CHOOSE i \in DOMAIN text :
                          text[i] = "nul" /\ \A j \in 1..(i - 1) : text[j] # "nul") - 1)
  ELSE text

(* A token is made the first time its text is read; END every time.        *)
Deliver(id, text) ==
  /\ IF text \in DOMAIN tokens /\ id # "END"
     THEN /\ handed' = Append(handed, tokens[text])
          /\ UNCHANGED <<heap, tokens>>
     ELSE /\ heap' = Append(heap, [id |-> id, text |-> text,
                                   value |-> IF id = "I_CONSTANT" THEN Converted(text) ELSE 0])
          /\ tokens' = [t \in DOMAIN tokens \cup {text} |->
                          IF t = text THEN Len(heap) + 1 ELSE tokens[t]]
          /\ handed' = Append(handed, Len(heap) + 1)
  /\ mode' = "idle"

(* The parser asks for a token.                                            *)
Get ==
  /\ mode = "idle"
  /\ Cardinality({i \in DOMAIN heap : heap[i].id = "END"}) < MaxEnds
  /\ mode' = "match"
  /\ UNCHANGED <<input, opened, clean, cache>>

(* What flex reads at position p.                                          *)
BlockAt(p) == SubSeq(file, p, IF p + block - 1 <= Len(file) THEN p + block - 1 ELSE Len(file))

(* Wrong: what was read when a match ran into the end of the buffer is     *)
(* taken for the whole of it.                                              *)
FillDropsStart ==
  /\ mode = "match"
  /\ Open(buf) /\ at <= Len(file)
  /\ buf' = BlockAt(at)
  /\ at' = at + Len(BlockAt(at))
  /\ UNCHANGED <<file, block, line, col, mode, opened, clean, cache>>

(* The text in the buffer may be only the beginning of a match.            *)
Fill ==
  /\ mode = "match"
  /\ Open(buf) /\ at <= Len(file)
  /\ buf' = buf \o BlockAt(at)
  /\ at' = at + Len(BlockAt(at))
  /\ UNCHANGED <<file, block, line, col, mode, opened, clean, cache>>

(* Wrong: a newline is matched by the rule for white space.                *)
CountColumns(text) == line' = line /\ col' = col + Len(text)

(* colup() and the rule for newlines, which starts again at 0.             *)
Count(text) ==
  IF text = <<"nl">> THEN line' = line + 1 /\ col' = 0
  ELSE line' = line /\ col' = col + Len(text)

Match ==
  /\ mode = "match"
  /\ buf # <<>> /\ (~Open(buf) \/ at > Len(file))
  /\ LET k    == Longest(buf)
         text == SubSeq(buf, 1, k)
         rest == SubSeq(buf, k + 1, Len(buf))
         rule == Rule(text)
     IN /\ buf' = rest
        /\ Count(text)
        /\ \/ /\ rule = "skip"
              /\ UNCHANGED <<mode, opened, clean, cache>>
           \/ /\ rule = "comment"
              /\ mode' = "comment"
              /\ opened' = at
              /\ clean' = (clean /\ rest = <<>>)
              /\ UNCHANGED cache
           \/ /\ rule = "STRING_LITERAL"
              /\ mode' = "abort"
              /\ UNCHANGED <<opened, clean, cache>>
           \/ /\ rule \notin {"skip", "comment", "STRING_LITERAL"}
              /\ Deliver(rule, CString(text))
              /\ UNCHANGED <<opened, clean>>
  /\ UNCHANGED <<file, block, at>>

AtEnd == mode = "match" /\ buf = <<>> /\ at > Len(file)

(* Wrong: yywrap() says that there is more input.                          *)
WrapGoesOn == AtEnd /\ UNCHANGED vars

(* yywrap() says that there is not.                                        *)
Wrap ==
  /\ AtEnd
  /\ Deliver("END", Eof)
  /\ UNCHANGED <<input, opened, clean>>

(* What fgetc() returns; -1 at the end of the file, for ever.              *)
Fgetc == IF at <= Len(file) THEN file[at] ELSE "EOF"
Next1 == IF at <= Len(file) THEN at + 1 ELSE at

(* Wrong: the star behind a star does not count.                           *)
CommentCharOneStar ==
  /\ mode \in {"comment", "stars"}
  /\ Fgetc # "nul"
  /\ at' = Next1
  /\ mode' = CASE mode = "stars" /\ Fgetc = "/" -> "match"
               [] mode = "comment" /\ Fgetc = "*" -> "stars"
               [] OTHER -> "comment"
  /\ UNCHANGED <<file, block, buf, line, col, opened, clean, cache>>

(* One character of a comment; mode "stars" is the inner loop.             *)
CommentChar ==
  /\ mode \in {"comment", "stars"}
  /\ Fgetc # "nul"
  /\ at' = Next1
  /\ mode' = CASE Fgetc = "*" -> "stars"
               [] Fgetc = "/" /\ mode = "stars" -> "match"
               [] OTHER -> "comment"
  /\ UNCHANGED <<file, block, buf, line, col, opened, clean, cache>>

(* "unterminated comment": a character is taken from flex's buffer, which  *)
(* is filled first if it is empty, and a space put in its place.           *)
CommentNul ==
  /\ mode \in {"comment", "stars"}
  /\ Fgetc = "nul"
  /\ LET more == IF buf = <<>> THEN BlockAt(at + 1) ELSE <<>>
         text == buf \o more
     IN /\ at' = at + 1 + Len(more)
        /\ buf' = <<"space">> \o (IF text = <<>> THEN <<>> ELSE Tail(text))
  /\ mode' = "match"
  /\ clean' = FALSE
  /\ UNCHANGED <<file, block, line, col, opened, cache>>

Step == Fill \/ Match \/ Wrap \/ CommentChar \/ CommentNul

Stopped ==
  /\ mode \in {"idle", "abort"}
  /\ UNCHANGED vars

Next == Get \/ Step \/ Stopped

(* A call of get() is sequential code that waits for nothing; when the     *)
(* next one comes is up to the parser.                                     *)
Spec == Init /\ [][Next]_vars /\ WF_vars(Step)
-----------------------------------------------------------------------------
Tokens ==
  [id    : {"NAME", "I_CONSTANT", "F_CONSTANT", "MULT", "DIVIDE", "END"},
   text  : Seq(Chars) \cup {Eof},
   value : -(IntMax + 1)..IntMax]

InputOK ==
  /\ file \in Files /\ block \in Blocks
  /\ at \in 1..(Len(file) + 1)
  /\ buf \in Seq(Chars)
  /\ line \in Nat /\ col \in Nat
  /\ mode \in {"idle", "match", "comment", "stars", "abort"}
  /\ opened \in 0..(Len(file) + 1)
  /\ clean \in BOOLEAN

CacheOK ==
  /\ heap \in Seq(Tokens)
  /\ \A i \in DOMAIN heap : /\ heap[i].text \in DOMAIN tokens
                            /\ heap[i].id = "END" <=> heap[i].text = Eof
  /\ \A t \in DOMAIN tokens : tokens[t] \in DOMAIN heap /\ heap[tokens[t]].text = t
  /\ handed \in Seq(DOMAIN heap)

TypeOK == InputOK /\ CacheOK

(* A token the parser got stays what it was for as long as the parser may  *)
(* hold the pointer, across any number of calls of get(): the map never    *)
(* lets go of a token but END, and of END only when it hands out another.  *)
(* The same text is always the same token.                                 *)
HeldTokensLive ==
  \A i \in DOMAIN handed :
    LET token == heap[handed[i]] IN
    \/ tokens[token.text] = handed[i]
    \/ token.id = "END" /\ \E j \in (i + 1)..Len(handed) : heap[handed[j]].id = "END"

(* comment() reads to the first end of a comment behind the place where it *)
(* began to read and no further, stars in front of it included, and stops  *)
(* at a NUL.  So when it keeps reading at the end of the file, no end      *)
(* stands behind that place: the comment has none, or flex had it in its   *)
(* buffer already.                                                         *)
CommentNotOverrun ==
  mode \in {"comment", "stars"} =>
    \A k \in opened..(at - 1) :
      file[k] # "nul" /\ ~(k > opened /\ file[k - 1] = "*" /\ file[k] = "/")

(* What is written behind a comment that begins in front of position i,    *)
(* and from position i on, if from has what is written behind it.          *)
BehindComment(text, from, i) ==
  LET ends == {j \in (i + 1)..Len(text) : text[j - 1] = "*" /\ text[j] = "/"}
  IN IF ends = {} THEN <<>> ELSE from[1 + CHOOSE j \in ends : \A k \in ends : j <= k]

Following(text, from, i) ==
  LET rest  == SubSeq(text, i, Len(text))
      match == SubSeq(rest, 1, Longest(rest))
  IN CASE i > Len(text) -> [n \in 1..MaxEnds |-> [id |-> "END", text |-> Eof]]
       [] i <= Len(text) /\ Rule(match) = "skip" -> from[i + Len(match)]
       [] i <= Len(text) /\ Rule(match) = "comment" -> BehindComment(text, from, i + 2)
       [] i <= Len(text) /\ Rule(match) = "STRING_LITERAL" -> <<>>
       [] OTHER -> <<[id |-> Rule(match), text |-> CString(match)]>> \o from[i + Len(match)]

(* The tokens of a text read from left to right in one piece, followed by  *)
(* END; none behind a comment that does not end, or a string.              *)
WrittenFrom(text) ==
  LET from[i \in 1..(Len(text) + 1)] == Following(text, from, i) IN from

Written(text) == WrittenFrom(text)[1]

(* Where the blocks end does not matter: the parser gets the tokens of the *)
(* text, each once and in order, unless a comment began in the middle of   *)
(* what flex had buffered (or was cut short by a NUL).                     *)
LexesAsWritten ==
  clean /\ mode = "idle" =>
    LET tokensOf == Written(file) IN
    /\ Len(handed) <= Len(tokensOf)
    /\ \A i \in DOMAIN handed :
         /\ heap[handed[i]].id = tokensOf[i].id
         /\ heap[handed[i]].text = tokensOf[i].text

(* As long as no comment was read, reports point to what was scanned last: *)
(* the line, and the characters since it began, one more on the first.     *)
(* Behind comments the line may be too small, never too large, as long as  *)
(* every comment was read from where it begins.                            *)
PositionsAreThere ==
  LET end  == at - 1 - Len(buf)
      ends == {i \in 1..end : file[i] = "nl"}
      from == IF ends = {} THEN 0 ELSE CHOOSE i \in ends : \A j \in ends : j <= i
  IN /\ opened = 0 /\ mode # "abort" =>
          /\ line = 1 + Cardinality(ends)
          /\ col = end - from + (IF ends = {} THEN 1 ELSE 0)
     /\ clean => line <= 1 + Cardinality(ends)

(* What an integer constant says in C.                                     *)
Denotes(s) ==
  CASE Hexadecimal(s) -> ValueOf(Tail(Tail(s)), 16)
    [] ~Hexadecimal(s) /\ s[1] = "0" -> ValueOf(s, 8)
    [] OTHER -> ValueOf(s, 10)

(* A character constant is 0, whatever its characters: strtol finds no     *)
(* digit in it.  Of the others, only one with a prefix (0 or 0x), or one   *)
(* too large for an int, has another value than it says.                   *)
ConstantsExact ==
  \A i \in DOMAIN heap :
    LET s == heap[i].text
        n == heap[i].value
    IN heap[i].id = "I_CONSTANT" =>
         IF s[1] = "apos" THEN n = 0
         ELSE n # Denotes(s) => (s[1] = "0" /\ Len(s) > 1) \/ Denotes(s) > IntMax

(* Every call of get() returns, or ends the program, unless comment() has  *)
(* run into the end of the file: it takes EOF for a character of the       *)
(* comment and never returns.                                              *)
GetReturns ==
  mode = "match" ~> mode \in {"idle", "abort"} \/ (mode = "comment" /\ Fgetc = "EOF")

(* comment() comes to an end: it finds the end of the comment, or it says  *)
(* "unterminated comment" (src/expr.lxx:115) and yylex goes on.            *)
CommentsEnd == mode \in {"comment", "stars"} ~> mode = "match"
=============================================================================
