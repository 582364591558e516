------------------------------ MODULE Scanner -------------------------------
(***************************************************************************)
(* getToken of IFJ/scanner.c, one action per state of its automaton and    *)
(* character read.  The text is chosen as it is read; a character that is  *)
(* pushed back is read again by the next call.  What numbers and the codes *)
(* of \u{...} amount to is left out.                                       *)
(***************************************************************************)
EXTENDS Naturals, SequencesExt, FiniteSetsExt

CONSTANTS
  MaxString,  \* bound on the characters of a name or a string
  MaxNumber   \* and of a number

Quote == "\""
Digits == {"0"}
HexLetters == {"e"}  \* also the exponent's letter
OtherLetters == {"n", "u", "g"}
OneCharacter == {"+", "*", "{", "}"}
\* What makes an operator of two characters; the last two are none without it.
Second == [op \in {"-", "<", ">", "=", "!", "?"} |->
             CASE op = "-" -> ">" [] op = "?" -> "?" [] OTHER -> "="]
Characters ==
  Digits \cup HexLetters \cup OtherLetters \cup OneCharacter \cup DOMAIN Second
    \cup {" ", "NL", "EOF", ".", "/", Quote, "\\", "@"}
InName == Digits \cup HexLetters \cup OtherLetters
Control == {"NL", "EOF"}  \* c < 32

VARIABLES
  lexState,  \* state; "built" when getToken has returned, "refused" after an error
  token,     \* token->type
  text,      \* history: the characters of the token, without those pushed back
             \* and the digits in \u{...}
  word,      \* history: whether its name is a "name", a "keyword" or a "type"
  string,    \* how many characters string holds
  hexDigits, \* how many hex holds
  unread     \* the character that was pushed back, or ""

scanVars == <<lexState, token, text, word, string, hexDigits, unread>>

scanner_init ==
  /\ lexState = "S_START" /\ token = "L_EMPTY" /\ text = <<>> /\ word = "name"
  /\ string = 0 /\ hexDigits = 0 /\ unread = ""

getc(c) == IF unread = "" THEN c \in Characters ELSE c = unread
AfterReading(c) == IF c = "EOF" THEN c ELSE ""  \* the end of the file is read again

\* The character is part of the token, and n more are in its string.
Takes(c, next, n) ==
  /\ string + n <= IF text # <<>> /\ text[1] \in Digits THEN MaxNumber ELSE MaxString
  /\ lexState' = next /\ text' = Append(text, c) /\ string' = string + n
  /\ unread' = AfterReading(c)
  /\ UNCHANGED <<token, word, hexDigits>>

\* ungetc(), and the automaton goes on in another state.
PushesBack(c, next) ==
  /\ lexState' = next /\ unread' = c
  /\ UNCHANGED <<token, text, word, string, hexDigits>>

\* The character is no part of a token.
Skips(c, next) ==
  /\ lexState' = next /\ unread' = AfterReading(c) /\ text' = <<>>
  /\ UNCHANGED <<token, word, string, hexDigits>>

\* The token is built, with the character in it or with the character pushed back.
Builds(type, c, taken) ==
  /\ lexState' = "built" /\ token' = type
  /\ text' = IF taken THEN Append(text, c) ELSE text
  /\ unread' = IF taken THEN "" ELSE c
  /\ UNCHANGED <<word, string, hexDigits>>

exitFree ==
  /\ lexState' = "refused"
  /\ UNCHANGED <<token, text, word, string, hexDigits, unread>>

-----------------------------------------------------------------------------
StartState(c) ==
  /\ lexState = "S_START"
  /\ CASE c \in {" ", "NL"} -> Skips(c, "S_START")
       [] c \in OneCharacter \cup DOMAIN Second -> Takes(c, "S_OPERATOR", 0)
       [] c = "/" -> Takes(c, "S_DIVIDE", 0)
       [] c = Quote -> Takes(c, "S_STRING_CHECK_0", 0)
       [] c = "EOF" -> Skips(c, "S_EOF")
       [] c \in Digits -> PushesBack(c, "S_INT")
       [] c \in InName \ Digits -> PushesBack(c, "S_ID")
       [] OTHER -> exitFree

\* Mutant: the second character is left to the next token.
OperatorStateShort(c) ==
  lexState = "S_OPERATOR" /\ Builds("L_OPERATOR", c, FALSE)

\* S_PLUS to S_NIL_OPERATOR; which operator it is is its text.
OperatorState(c) ==
  /\ lexState = "S_OPERATOR"
  /\ LET first == text[1] IN
     CASE first \in DOMAIN Second /\ c = Second[first] -> Builds("L_OPERATOR", c, TRUE)
       [] first \in {"!", "?"} /\ c # Second[first] -> exitFree
       [] OTHER -> Builds("L_OPERATOR", c, FALSE)

EndState(c) == lexState = "S_EOF" /\ Builds("L_EOF", c, FALSE)

\* checkKeyword: which names are keywords is left out.
NameState(c) ==
  /\ lexState = "S_ID"
  /\ IF c \in InName THEN Takes(c, "S_ID", 1)
     ELSE \E kind \in {"name", "keyword", "type"} :
       /\ lexState' = "built"
       /\ word' = kind
       /\ LET taken == (kind = "type" /\ c = "?") \/ (kind = "name" /\ c = "!") IN
          /\ token' = CASE kind = "name" -> IF taken THEN "L_ID_EXMARK" ELSE "L_ID"
                        [] OTHER -> IF taken THEN "L_KEYWORD_QMARK" ELSE "L_KEYWORD"
          /\ text' = IF taken THEN Append(text, c) ELSE text
          /\ unread' = IF taken THEN "" ELSE c
       /\ UNCHANGED <<string, hexDigits>>

NumberState(c) ==
  \/ /\ lexState = "S_INT"
     /\ CASE c \in Digits -> Takes(c, "S_INT", 1)
          [] c = "." -> Takes(c, "S_DOUBLE", 1)
          [] c = "e" -> Takes(c, "S_EXP_DOUBLE", 1)
          [] OTHER -> Builds("L_INT", c, FALSE)
  \/ /\ lexState = "S_DOUBLE"
     /\ IF c \in Digits THEN PushesBack(c, "S_DOUBLE_1") ELSE exitFree
  \/ /\ lexState = "S_DOUBLE_1"
     /\ CASE c \in Digits -> Takes(c, "S_DOUBLE_1", 1)
          [] c = "e" -> Takes(c, "S_EXP_DOUBLE", 1)
          [] OTHER -> Builds("L_DOUBLE", c, FALSE)
  \/ /\ lexState = "S_EXP_DOUBLE"
     /\ CASE c \in {"+", "-"} -> Takes(c, "S_EXP_DOUBLE_1", 1)
          [] c \in Digits -> PushesBack(c, "S_EXP_DOUBLE_1")
          [] OTHER -> exitFree
  \/ /\ lexState = "S_EXP_DOUBLE_1"
     /\ IF c \in Digits THEN Takes(c, "S_EXP_DOUBLE_2", 1) ELSE exitFree
  \/ /\ lexState = "S_EXP_DOUBLE_2"
     /\ IF c \in Digits THEN Takes(c, "S_EXP_DOUBLE_2", 1) ELSE Builds("L_EXP", c, FALSE)

\* One line, or the first line of several.
StringState(c) ==
  \/ /\ lexState = "S_STRING_CHECK_0"
     /\ IF c = Quote THEN Takes(c, "S_STRING_CHECK_1", 0) ELSE PushesBack(c, "S_STRING")
  \/ /\ lexState = "S_STRING_CHECK_1"
     /\ IF c = Quote THEN Takes(c, "S_STRING_CHECK_2", 0) ELSE Builds("L_STRING", c, FALSE)
  \/ /\ lexState = "S_STRING_CHECK_2"
     /\ IF c # "NL" THEN exitFree
        ELSE /\ lexState' = "S_STRING_PLUS" /\ token' = "L_STRING_PLUS"
             /\ text' = Append(text, c) /\ unread' = ""
             /\ UNCHANGED <<word, string, hexDigits>>
  \/ /\ lexState = "S_STRING"
     /\ CASE c \in Control -> exitFree
          [] c = Quote -> Takes(c, "S_STRING_END", 0)
          [] c = "\\" -> Takes(c, "S_STRING_ESC", 0)
          [] OTHER -> Takes(c, "S_STRING", 1)
  \/ lexState = "S_STRING_END" /\ Builds("L_STRING", c, FALSE)

\* Whatever follows a new line, or a new line and quotes, is taken as it is: an
\* empty line keeps the quotes below it from ending the string.
LinesState(c) ==
  \/ /\ lexState = "S_STRING_PLUS"
     /\ CASE c = "NL" -> Takes(c, "S_STRING_CHECKOUT_0", 0)
          [] c = "\\" -> Takes(c, "S_STRING_ESC", 0)
          [] c = "EOF" -> exitFree
          [] OTHER -> Takes(c, "S_STRING_PLUS", 1)
  \/ /\ lexState = "S_STRING_CHECKOUT_0"
     /\ IF c = Quote THEN Takes(c, "S_STRING_CHECKOUT_1", 0) ELSE Takes(c, "S_STRING_PLUS", 2)
  \/ /\ lexState = "S_STRING_CHECKOUT_1"
     /\ IF c = Quote THEN Takes(c, "S_STRING_CHECKOUT_2", 0) ELSE Takes(c, "S_STRING_PLUS", 2)
  \/ /\ lexState = "S_STRING_CHECKOUT_2"
     /\ IF c = Quote THEN Builds("L_STRING_PLUS", c, TRUE) ELSE Takes(c, "S_STRING_PLUS", 3)

InString == IF token = "L_STRING_PLUS" THEN "S_STRING_PLUS" ELSE "S_STRING"

EscapeState(c) ==
  \/ /\ lexState = "S_STRING_ESC"
     /\ CASE c \in {"\\", Quote, "n"} -> Takes(c, InString, 1)
          [] c = "u" -> Takes(c, "S_HEX_OPEN", 0)
          [] OTHER -> exitFree
  \/ /\ lexState = "S_HEX_OPEN"
     /\ IF c # "{" THEN exitFree
        ELSE /\ lexState' = "S_HEX" /\ hexDigits' = 0
             /\ text' = Append(text, c) /\ unread' = ""
             /\ UNCHANGED <<token, word, string>>
  \/ /\ lexState = "S_HEX" /\ c \in Digits \cup HexLetters
     /\ hexDigits < 9 /\ hexDigits' = hexDigits + 1  \* more are refused as 9 are
     /\ unread' = ""
     /\ UNCHANGED <<lexState, token, text, word, string>>
  \/ /\ lexState = "S_HEX" /\ c \notin Digits \cup HexLetters
     /\ IF c = "}" /\ hexDigits < 9 THEN Takes(c, InString, 1) ELSE exitFree

\* A comment of several lines does not end with two asterisks and a slash.
CommentState(c) ==
  \/ /\ lexState = "S_DIVIDE"
     /\ CASE c = "/" -> Skips(c, "S_COMMENT_LINE")
          [] c = "*" -> Skips(c, "S_COMMENT_LINES")
          [] OTHER -> Builds("L_OPERATOR", c, FALSE)
  \/ /\ lexState = "S_COMMENT_LINE"
     /\ Skips(c, IF c \in Control THEN "S_START" ELSE "S_COMMENT_LINE")
  \/ /\ lexState = "S_COMMENT_LINES"
     /\ CASE c = "EOF" -> exitFree
          [] c = "*" -> Skips(c, "S_COMMENT_LINES_END")
          [] OTHER -> Skips(c, "S_COMMENT_LINES")
  \/ /\ lexState = "S_COMMENT_LINES_END"
     /\ CASE c = "EOF" -> exitFree
          [] c = "/" -> Skips(c, "S_START")
          [] OTHER -> Skips(c, "S_COMMENT_LINES")

\* The next call of getToken, until the end of the file.
NextToken ==
  /\ lexState = "built" /\ token # "L_EOF"
  /\ lexState' = "S_START" /\ token' = "L_EMPTY" /\ text' = <<>> /\ word' = "name"
  /\ string' = 0 /\ hexDigits' = 0
  /\ UNCHANGED unread

getToken ==
  \/ \E c \in Characters : getc(c) /\
       \/ StartState(c) \/ OperatorState(c) \/ EndState(c) \/ NameState(c)
       \/ NumberState(c) \/ StringState(c) \/ LinesState(c) \/ EscapeState(c)
       \/ CommentState(c)
  \/ NextToken

scannerSpec == scanner_init /\ [][getToken]_scanVars

-----------------------------------------------------------------------------
(* Properties.                                                             *)

\* Backslashes just before place i, and whether they escape what is there.
Backslashes(s, i) ==
  Cardinality({j \in 1 .. i - 1 : \A k \in j .. i - 1 : s[k] = "\\"})
Escaped(s, i) == Backslashes(s, i) % 2 = 1
Escaping(s) == {i \in DOMAIN s : s[i] = "\\" /\ ~Escaped(s, i)}

Only(s, from, to, set) == from <= to /\ \A i \in from .. to : s[i] \in set

\* Digits, then an optional fraction and an optional exponent.
IsInteger(s) == Only(s, 1, Len(s), Digits)
IsDecimal(s) ==
  \E dot \in DOMAIN s :
    s[dot] = "." /\ Only(s, 1, dot - 1, Digits) /\ Only(s, dot + 1, Len(s), Digits)
IsExponential(s) ==
  \E e \in DOMAIN s :
    /\ s[e] = "e"
    /\ IsInteger(SubSeq(s, 1, e - 1)) \/ IsDecimal(SubSeq(s, 1, e - 1))
    /\ \/ Only(s, e + 1, Len(s), Digits)
       \/ e < Len(s) /\ s[e + 1] \in {"+", "-"} /\ Only(s, e + 2, Len(s), Digits)

IsName(s) == Only(s, 1, Len(s), InName) /\ s[1] \notin Digits

IsOperator(s) ==
  \/ Len(s) = 1 /\ s[1] \in OneCharacter \cup {"-", "<", ">", "=", "/"}
  \/ Len(s) = 2 /\ s[1] \in DOMAIN Second /\ s[2] = Second[s[1]]

\* On one line, between quotes that are not escaped.
IsString(s) ==
  /\ Len(s) > 1 /\ s[1] = Quote /\ Last(s) = Quote
  /\ \A i \in 2 .. Len(s) : (s[i] = Quote /\ ~Escaped(s, i)) = (i = Len(s))
  /\ \A i \in DOMAIN s : s[i] \notin Control

\* On several lines, between three quotes on lines of their own.
IsLines(s) ==
  LET open == <<Quote, Quote, Quote, "NL">> IN
  Len(s) > 7 /\ SubSeq(s, 1, 4) = open /\ SubSeq(s, Len(s) - 3, Len(s)) = Reverse(open)

IsLexeme(type, s, kind) ==
  CASE type = "L_OPERATOR" -> IsOperator(s)
    [] type = "L_ID" -> IsName(s) /\ kind = "name"
    [] type = "L_KEYWORD" -> IsName(s) /\ kind # "name"
    [] type = "L_ID_EXMARK" -> s # <<>> /\ Last(s) = "!" /\ IsName(Front(s)) /\ kind = "name"
    [] type = "L_KEYWORD_QMARK" -> s # <<>> /\ Last(s) = "?" /\ IsName(Front(s)) /\ kind = "type"
    [] type = "L_INT" -> IsInteger(s)
    [] type = "L_DOUBLE" -> IsDecimal(s)
    [] type = "L_EXP" -> IsExponential(s)
    [] type = "L_STRING" -> IsString(s)
    [] type = "L_STRING_PLUS" -> IsLines(s)
    [] type = "L_EOF" -> s = <<>>

TokenTypes == {"L_OPERATOR", "L_ID", "L_KEYWORD", "L_ID_EXMARK", "L_KEYWORD_QMARK",
               "L_INT", "L_DOUBLE", "L_EXP", "L_STRING", "L_STRING_PLUS"}

\* A token is a lexeme of its type that the character behind it does not continue, in
\* this or another type (characters further on are not tried); that character is left
\* to the next call, and a string has as many characters as its escapes stand for,
\* whatever stood before and in whichever state the last one was left.
LongestToken ==
  lexState = "built" =>
    /\ IsLexeme(token, text, word)
    /\ unread # "" =>
         \A type \in TokenTypes : ~IsLexeme(type, Append(text, unread), word)
    /\ token = "L_STRING" /\ "u" \notin ToSet(text) =>
         string = Len(text) - 2 - Cardinality(Escaping(text))
=============================================================================
