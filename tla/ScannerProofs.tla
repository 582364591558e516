--------------------------- MODULE ScannerProofs ---------------------------
(* The automaton of IFJ/scanner.c, for names, numbers and strings of any length: what  *)
(* has been read in each of its states, and that the tokens it builds are the longest. *)
EXTENDS Scanner, SequenceTheorems, FiniteSetTheorems, TLAPS

\* A string that is open: it has begun, and no quotes in it but escaped ones.
OpenString(s) ==
  /\ Len(s) >= 1 /\ s[1] = Quote
  /\ \A i \in 2 .. Len(s) : s[i] = Quote => Escaped(s, i)
  /\ \A i \in 1 .. Len(s) : s[i] \notin Control

\* The characters that the string holds, n of the text being its quotes.
Counted(s, held, n) == "u" \notin ToSet(s) => held = Len(s) - n - Cardinality(Escaping(s))

\* Nothing but n quotes.
Quotes(s, n) == Len(s) = n /\ \A i \in 1 .. n : s[i] = Quote

\* Three quotes and a new line begin several lines.
OpenLines(s) ==
  /\ Len(s) >= 4
  /\ s[1] = Quote /\ s[2] = Quote /\ s[3] = Quote /\ s[4] = "NL"

\* An exponent's letter at place e behind a number.
Exponent(s, e) ==
  /\ e \in 2 .. Len(s) /\ s[e] = "e"
  /\ IsInteger(SubSeq(s, 1, e - 1)) \/ IsDecimal(SubSeq(s, 1, e - 1))

Blank == {"S_START", "S_COMMENT_LINE", "S_COMMENT_LINES", "S_COMMENT_LINES_END"}
Escapes == {"S_STRING_ESC", "S_HEX_OPEN", "S_HEX"}
Lines == {"S_STRING_PLUS", "S_STRING_CHECKOUT_0", "S_STRING_CHECKOUT_1", "S_STRING_CHECKOUT_2"}

\* Names, numbers and operators: the text s that was read, c is pushed back.
ReadsWord(state, s, c) ==
  /\ state = "S_OPERATOR" => Len(s) = 1 /\ s[1] \in OneCharacter \cup DOMAIN Second
  /\ state = "S_EOF" => Len(s) = 0 /\ c = "EOF"
  /\ state = "S_ID" =>
       /\ \A i \in 1 .. Len(s) : s[i] \in InName
       /\ Len(s) = 0 => c \in InName \ Digits
       /\ Len(s) # 0 => s[1] \notin Digits
  /\ state = "S_INT" =>
       (\A i \in 1 .. Len(s) : s[i] \in Digits) /\ (Len(s) = 0 => c \in Digits)
  /\ state = "S_DOUBLE" =>
       /\ Len(s) >= 2 /\ s[Len(s)] = "."
       /\ \A i \in 1 .. Len(s) - 1 : s[i] \in Digits
  /\ state = "S_DOUBLE_1" =>
       \E dot \in 2 .. Len(s) :
         /\ s[dot] = "." /\ (dot = Len(s) => c \in Digits)
         /\ \A i \in 1 .. dot - 1 : s[i] \in Digits
         /\ \A i \in dot + 1 .. Len(s) : s[i] \in Digits
  /\ state = "S_EXP_DOUBLE" => Exponent(s, Len(s))
  /\ state = "S_EXP_DOUBLE_1" =>
       \/ Exponent(s, Len(s)) /\ c \in Digits
       \/ Exponent(s, Len(s) - 1) /\ s[Len(s)] \in {"+", "-"}
  /\ state = "S_EXP_DOUBLE_2" => IsExponential(s)

\* Strings, of which held characters are in the string; type tells several lines.
ReadsString(state, s, held, type) ==
  /\ state \in Blank => Len(s) = 0 /\ held = 0 /\ type = "L_EMPTY"
  /\ state = "S_DIVIDE" => Len(s) = 1 /\ s[1] = "/" /\ held = 0 /\ type = "L_EMPTY"
  /\ state = "S_STRING_CHECK_0" => Quotes(s, 1) /\ held = 0 /\ type = "L_EMPTY"
  /\ state = "S_STRING_CHECK_1" => Quotes(s, 2) /\ held = 0 /\ type = "L_EMPTY"
  /\ state = "S_STRING_CHECK_2" => Quotes(s, 3) /\ type = "L_EMPTY"
  /\ state = "S_STRING" =>
       /\ type # "L_STRING_PLUS" /\ OpenString(s) /\ ~Escaped(s, Len(s) + 1)
       /\ Counted(s, held, 1)
  /\ state \in Escapes /\ type # "L_STRING_PLUS" => OpenString(s) /\ Counted(s, held, 1)
  /\ state = "S_STRING_ESC" /\ type # "L_STRING_PLUS" => Escaped(s, Len(s) + 1)
  /\ state \in {"S_HEX_OPEN", "S_HEX"} => "u" \in ToSet(s) /\ s[Len(s)] # "\\"
  /\ state = "S_STRING_END" => IsString(s) /\ Counted(s, held, 2)
  /\ state \in Lines => type = "L_STRING_PLUS"
  /\ state \in Lines \cup Escapes /\ type = "L_STRING_PLUS" => OpenLines(s)
  /\ state = "S_STRING_CHECKOUT_0" => Len(s) >= 5 /\ s[Len(s)] = "NL"
  /\ state = "S_STRING_CHECKOUT_1" =>
       Len(s) >= 6 /\ s[Len(s) - 1] = "NL" /\ s[Len(s)] = Quote
  /\ state = "S_STRING_CHECKOUT_2" =>
       Len(s) >= 7 /\ s[Len(s) - 2] = "NL" /\ s[Len(s) - 1] = Quote /\ s[Len(s)] = Quote

ScanInv ==
  /\ text \in Seq(Characters) /\ unread \in Characters \cup {""} /\ string \in Nat
  /\ ReadsWord(lexState, text, unread) /\ ReadsString(lexState, text, string, token)
  /\ LongestToken

-----------------------------------------------------------------------------
(* What is read: one character more, and which of them are escaped.        *)

\* A character is read: the text is longer by it.
LEMMA CharacterAdded ==
  ASSUME NEW s \in Seq(Characters), NEW c \in Characters
  PROVE  /\ Append(s, c) \in Seq(Characters) /\ Len(Append(s, c)) = Len(s) + 1
         /\ Len(s) \in Nat
         /\ \A i \in 1 .. Len(s) : Append(s, c)[i] = s[i]
         /\ Append(s, c)[Len(s) + 1] = c
BY AppendProperties

\* The parity of the next number.
LEMMA NextParity == \A n \in Nat : ((n + 1) % 2 = 1) = ~(n % 2 = 1)
OBVIOUS

\* What is not longer than the text is the same when a character is read.
LEMMA EscapedKept ==
  ASSUME NEW s \in Seq(Characters), NEW c \in Characters, NEW i \in 1 .. Len(s) + 1
  PROVE  Escaped(Append(s, c), i) = Escaped(s, i)
<1>1. \A j \in 1 .. i - 1 : \A k \in j .. i - 1 : Append(s, c)[k] = s[k]
  BY CharacterAdded
<1>2. {j \in 1 .. i - 1 : \A k \in j .. i - 1 : Append(s, c)[k] = "\\"}
        = {j \in 1 .. i - 1 : \A k \in j .. i - 1 : s[k] = "\\"}
  BY <1>1
<1> QED BY <1>2 DEF Escaped, Backslashes

\* A place is escaped when an unescaped backslash stands before it.
LEMMA EscapedBy ==
  ASSUME NEW s \in Seq(Characters), NEW i \in 2 .. Len(s) + 1
  PROVE  Escaped(s, i) = (s[i - 1] = "\\" /\ ~Escaped(s, i - 1))
<1> DEFINE before(p) == {j \in 1 .. p - 1 : \A k \in j .. p - 1 : s[k] = "\\"}
<1>1. \A p \in Nat : IsFiniteSet(before(p)) /\ Cardinality(before(p)) \in Nat
  <2> TAKE p \in Nat
  <2>1. IsFiniteSet(1 .. p - 1)
    BY FS_Interval
  <2>2. before(p) \in SUBSET (1 .. p - 1)
    OBVIOUS
  <2> HIDE DEF before
  <2> QED BY <2>1, <2>2, FS_Subset, FS_CardinalityType
<1>2. i \in Nat /\ i - 1 \in Nat /\ i - 1 >= 1 /\ Len(s) \in Nat
  OBVIOUS
<1>3. CASE s[i - 1] # "\\"
  <2>1. before(i) = {}
    BY <1>2, <1>3
  <2>2. Backslashes(s, i) = 0
    BY <2>1, FS_EmptySet DEF Backslashes
  <2> QED BY <2>2, <1>3 DEF Escaped
<1>4. CASE s[i - 1] = "\\"
  <2>1. before(i) = before(i - 1) \cup {i - 1}
    <3>1. ASSUME NEW j \in before(i) PROVE j \in before(i - 1) \cup {i - 1}
      BY <1>2, <3>1
    <3>2. ASSUME NEW j \in before(i - 1) PROVE j \in before(i)
      <4>1. j \in 1 .. i - 1
        BY <1>2
      <4>2. ASSUME NEW k \in j .. i - 1 PROVE s[k] = "\\"
        <5>1. k = i - 1 \/ k \in j .. (i - 1) - 1
          BY <1>2, <4>1
        <5> QED BY <5>1, <1>4
      <4> QED BY <4>1, <4>2
    <3>3. i - 1 \in before(i)
      BY <1>2, <1>4
    <3> QED BY <3>1, <3>2, <3>3
  <2>2. i - 1 \notin before(i - 1)
    BY <1>2
  <2>3. Cardinality(before(i)) = Cardinality(before(i - 1)) + 1
    <3> HIDE DEF before
    <3> QED BY <2>1, <2>2, <1>1, <1>2, FS_AddElement
  <2>4. Backslashes(s, i) = Backslashes(s, i - 1) + 1 /\ Backslashes(s, i - 1) \in Nat
    BY <2>3, <1>1, <1>2 DEF Backslashes
  <2> QED BY <2>4, <1>4, NextParity DEF Escaped
<1> QED BY <1>3, <1>4

\* Nothing stands before the first place.
LEMMA FirstNotEscaped == ASSUME NEW s PROVE ~Escaped(s, 1)
<1>1. {j \in 1 .. 1 - 1 : \A k \in j .. 1 - 1 : s[k] = "\\"} = {}
  OBVIOUS
<1>2. Backslashes(s, 1) = 0
  BY <1>1, FS_EmptySet DEF Backslashes
<1> QED BY <1>2 DEF Escaped

\* The place behind the text once a character is read.
LEMMA EscapesNext ==
  ASSUME NEW s \in Seq(Characters), NEW c \in Characters
  PROVE  Escaped(Append(s, c), Len(s) + 2) = (c = "\\" /\ ~Escaped(s, Len(s) + 1))
<1> DEFINE t == Append(s, c)
           n == Len(s)
<1>1. t \in Seq(Characters) /\ Len(t) = n + 1 /\ n \in Nat /\ t[n + 1] = c
  BY CharacterAdded
<1>2. Escaped(t, n + 1) = Escaped(s, n + 1)
  BY <1>1, EscapedKept
<1> HIDE DEF t
<1>3. n + 2 \in 2 .. Len(t) + 1 /\ (n + 2) - 1 = n + 1
  BY <1>1
<1>4. Escaped(t, n + 2) = (t[n + 1] = "\\" /\ ~Escaped(t, n + 1))
  BY <1>1, <1>3, EscapedBy
<1> QED BY <1>1, <1>2, <1>4 DEF t

\* The escaping backslashes once a character is read.
LEMMA EscapingGrows ==
  ASSUME NEW s \in Seq(Characters), NEW c \in Characters
  PROVE  /\ Cardinality(Escaping(s)) \in Nat
         /\ c = "\\" /\ ~Escaped(s, Len(s) + 1) =>
              Cardinality(Escaping(Append(s, c))) = Cardinality(Escaping(s)) + 1
         /\ ~(c = "\\" /\ ~Escaped(s, Len(s) + 1)) =>
              Cardinality(Escaping(Append(s, c))) = Cardinality(Escaping(s))
<1> DEFINE t == Append(s, c)
           n == Len(s)
<1>1. /\ t \in Seq(Characters) /\ Len(t) = n + 1 /\ n \in Nat /\ t[n + 1] = c
      /\ \A i \in 1 .. n : t[i] = s[i]
  BY CharacterAdded
<1>2. \A i \in 1 .. n + 1 : Escaped(t, i) = Escaped(s, i)
  BY EscapedKept
<1>3. DOMAIN s = 1 .. n /\ DOMAIN t = 1 .. n + 1
  BY <1>1
<1>4. IsFiniteSet(Escaping(s)) /\ Cardinality(Escaping(s)) \in Nat
  <2>1. Escaping(s) \in SUBSET (1 .. n)
    BY <1>3 DEF Escaping
  <2>2. IsFiniteSet(1 .. n)
    BY <1>1, FS_Interval
  <2> QED BY <2>1, <2>2, FS_Subset, FS_CardinalityType
<1>5. n + 1 \notin Escaping(s)
  BY <1>1, <1>3 DEF Escaping
<1> HIDE DEF t, n
<1>6. CASE c = "\\" /\ ~Escaped(s, n + 1)
  <2>1. Escaping(t) = Escaping(s) \cup {n + 1}
    BY <1>1, <1>2, <1>3, <1>6 DEF Escaping
  <2> QED BY <2>1, <1>4, <1>5, <1>6, FS_AddElement DEF t, n
<1>7. CASE ~(c = "\\" /\ ~Escaped(s, n + 1))
  <2>1. Escaping(t) = Escaping(s)
    BY <1>1, <1>2, <1>3, <1>7 DEF Escaping
  <2> QED BY <2>1, <1>4, <1>7 DEF t, n
<1> QED BY <1>6, <1>7 DEF n

\* The characters of the text once a character is read.
LEMMA CharactersGrow ==
  ASSUME NEW s \in Seq(Characters), NEW c \in Characters
  PROVE  ToSet(Append(s, c)) = ToSet(s) \cup {c}
<1> DEFINE t == Append(s, c)
           n == Len(s)
<1>1. /\ t \in Seq(Characters) /\ Len(t) = n + 1 /\ n \in Nat /\ t[n + 1] = c
      /\ \A i \in 1 .. n : t[i] = s[i]
  BY CharacterAdded
<1>2. DOMAIN s = 1 .. n /\ DOMAIN t = 1 .. n + 1
  BY <1>1
<1> HIDE DEF t, n
<1>3. \A i \in 1 .. n + 1 : i \in 1 .. n \/ i = n + 1
  BY <1>1
<1>4. n + 1 \in 1 .. n + 1 /\ \A i \in 1 .. n : i \in 1 .. n + 1
  BY <1>1
<1>5. ToSet(t) = ToSet(s) \cup {c}
  BY <1>1, <1>2, <1>3, <1>4 DEF ToSet
<1> QED BY <1>5 DEF t

\* A prefix of the text is the same once a character is read.
LEMMA PrefixKept ==
  ASSUME NEW s \in Seq(Characters), NEW c \in Characters, NEW n \in 0 .. Len(s)
  PROVE  /\ SubSeq(Append(s, c), 1, n) = SubSeq(s, 1, n)
         /\ SubSeq(s, 1, n) \in Seq(Characters) /\ Len(SubSeq(s, 1, n)) = n
         /\ \A i \in 1 .. n : SubSeq(s, 1, n)[i] = s[i]
<1> DEFINE t == Append(s, c)
           u == SubSeq(s, 1, n)
           w == SubSeq(t, 1, n)
<1>1. /\ t \in Seq(Characters) /\ Len(t) = Len(s) + 1 /\ Len(s) \in Nat
      /\ \A i \in 1 .. Len(s) : t[i] = s[i]
  BY CharacterAdded
<1>2. n \in Nat /\ n <= Len(s)
  BY <1>1
<1>3. \A i \in 1 .. n : s[i] \in Characters /\ t[i] = s[i]
  BY <1>1, <1>2
<1>4. \A i \in 1 .. n : t[i] \in Characters
  BY <1>3
<1> HIDE DEF t
<1>5. u \in Seq(Characters) /\ Len(u) = n /\ \A i \in 1 .. n : u[i] = s[i]
  BY <1>2, <1>3, SubSeqProperties
<1>6. w \in Seq(Characters) /\ Len(w) = n /\ \A i \in 1 .. n : w[i] = t[i]
  BY <1>2, <1>4, SubSeqProperties
<1> HIDE DEF u, w
<1>7. w = u
  BY <1>3, <1>5, <1>6, SeqEqual
<1> QED BY <1>5, <1>7 DEF t, u, w

\* What was appended is behind the front.
LEMMA FrontOfLonger ==
  ASSUME NEW s \in Seq(Characters), NEW c \in Characters
  PROVE  Front(Append(s, c)) = s /\ Last(Append(s, c)) = c
<1>1. Len(Append(s, c)) = Len(s) + 1 /\ Len(s) \in Nat /\ Append(s, c)[Len(s) + 1] = c
  BY CharacterAdded
<1>2. SubSeq(Append(s, c), 1, Len(s)) = SubSeq(s, 1, Len(s))
  BY <1>1, PrefixKept
<1>3. SubSeq(s, 1, Len(s)) = s
  BY SubSeqFull
<1> QED BY <1>1, <1>2, <1>3 DEF Front, Last

\* The text before the exponent's letter.
LEMMA PrefixIs ==
  ASSUME NEW s \in Seq(Characters), NEW n \in 0 .. Len(s)
  PROVE  /\ SubSeq(s, 1, n) \in Seq(Characters) /\ Len(SubSeq(s, 1, n)) = n
         /\ \A i \in 1 .. n : SubSeq(s, 1, n)[i] = s[i]
<1>1. n \in Int /\ \A i \in 1 .. n : s[i] \in Characters
  OBVIOUS
<1> QED BY <1>1, SubSeqProperties

\* A number begins and ends with a digit.
LEMMA NumberEnds ==
  ASSUME NEW s \in Seq(Characters), IsInteger(s) \/ IsDecimal(s) \/ IsExponential(s)
  PROVE  Len(s) >= 1 /\ s[1] \in Digits /\ s[Len(s)] \in Digits
<1>1. \A t \in Seq(Characters) :
        IsInteger(t) \/ IsDecimal(t) => Len(t) >= 1 /\ t[1] \in Digits /\ t[Len(t)] \in Digits
  <2> SUFFICES ASSUME NEW t \in Seq(Characters), IsInteger(t) \/ IsDecimal(t)
               PROVE  Len(t) >= 1 /\ t[1] \in Digits /\ t[Len(t)] \in Digits
    OBVIOUS
  <2>1. Len(t) \in Nat /\ DOMAIN t = 1 .. Len(t)
    OBVIOUS
  <2>2. CASE IsInteger(t)
    BY <2>1, <2>2 DEF IsInteger, Only
  <2>3. CASE IsDecimal(t)
    <3>1. PICK dot \in 1 .. Len(t) :
            Only(t, 1, dot - 1, Digits) /\ Only(t, dot + 1, Len(t), Digits)
      BY <2>1, <2>3 DEF IsDecimal
    <3> QED BY <2>1, <3>1 DEF Only
  <2> QED BY <2>2, <2>3
<1>2. Len(s) \in Nat /\ DOMAIN s = 1 .. Len(s)
  OBVIOUS
<1>3. CASE IsExponential(s)
  <2>1. PICK e \in 1 .. Len(s) :
          /\ IsInteger(SubSeq(s, 1, e - 1)) \/ IsDecimal(SubSeq(s, 1, e - 1))
          /\ \/ Only(s, e + 1, Len(s), Digits)
             \/ e < Len(s) /\ Only(s, e + 2, Len(s), Digits)
    BY <1>2, <1>3 DEF IsExponential
  <2> DEFINE u == SubSeq(s, 1, e - 1)
  <2>2. e - 1 \in 0 .. Len(s)
    BY <1>2
  <2>3. u \in Seq(Characters) /\ Len(u) = e - 1 /\ \A i \in 1 .. e - 1 : u[i] = s[i]
    BY <2>2, PrefixIs
  <2> HIDE DEF u
  <2>4. Len(u) >= 1 /\ u[1] \in Digits
    BY <2>1, <2>3, <1>1 DEF u
  <2>5. s[1] \in Digits /\ Len(s) >= 1
    BY <1>2, <2>3, <2>4
  <2>6. s[Len(s)] \in Digits
    BY <1>2, <2>1 DEF Only
  <2> QED BY <2>5, <2>6
<1> QED BY <1>1, <1>3

\* What a token of each type begins and ends with.
LEMMA WordShape ==
  ASSUME NEW s \in Seq(Characters), NEW kind, NEW type, IsLexeme(type, s, kind)
  PROVE  /\ type = "L_OPERATOR" =>
              /\ Len(s) = 1 \/ (Len(s) = 2 /\ s[1] \in DOMAIN Second /\ s[2] = Second[s[1]])
              /\ s[1] \in OneCharacter \cup DOMAIN Second \cup {"/"}
         /\ type \in {"L_ID", "L_KEYWORD"} =>
              Len(s) >= 1 /\ s[1] \in InName \ Digits /\ s[Len(s)] \in InName
         /\ type = "L_ID_EXMARK" =>
              /\ Len(s) >= 2 /\ s[1] \in InName \ Digits /\ s[Len(s)] = "!"
              /\ kind = "name"
         /\ type = "L_KEYWORD_QMARK" =>
              /\ Len(s) >= 2 /\ s[1] \in InName \ Digits /\ s[Len(s)] = "?"
              /\ kind = "type"
         /\ type \in {"L_INT", "L_DOUBLE", "L_EXP"} =>
              Len(s) >= 1 /\ s[1] \in Digits /\ s[Len(s)] \in Digits
<1>1. Len(s) \in Nat
  OBVIOUS
<1>2. \A t \in Seq(Characters) :
        IsName(t) => /\ Len(t) >= 1 /\ t[1] \in InName \ Digits /\ t[Len(t)] \in InName
  BY DEF IsName, Only
<1>3. CASE type = "L_OPERATOR"
  <2>1. IsOperator(s)
    BY <1>3 DEF IsLexeme
  <2>2. {"-", "<", ">", "="} \subseteq DOMAIN Second
    BY DEF Second
  <2> QED BY <2>1, <2>2, <1>3 DEF IsOperator
<1>4. CASE type = "L_ID"
  BY <1>2, <1>4 DEF IsLexeme
<1>5. CASE type = "L_KEYWORD"
  BY <1>2, <1>5 DEF IsLexeme
<1>6. ASSUME IsName(Front(s)), s # <<>>
      PROVE  Len(s) >= 2 /\ s[1] \in InName \ Digits
  <2>1. Len(s) >= 1
    BY <1>1, <1>6, EmptySeq
  <2>2. Len(s) - 1 \in 0 .. Len(s)
    BY <1>1, <2>1
  <2> DEFINE u == SubSeq(s, 1, Len(s) - 1)
  <2>3. /\ u \in Seq(Characters) /\ Len(u) = Len(s) - 1
        /\ \A i \in 1 .. Len(s) - 1 : u[i] = s[i]
    BY <2>2, PrefixIs
  <2>4. IsName(u)
    BY <1>6 DEF Front
  <2> HIDE DEF u
  <2>5. Len(u) >= 1 /\ u[1] \in InName \ Digits
    BY <1>2, <2>3, <2>4
  <2> QED BY <1>1, <2>3, <2>5
<1>7. CASE type = "L_ID_EXMARK"
  BY <1>6, <1>7 DEF IsLexeme, Last
<1>8. CASE type = "L_KEYWORD_QMARK"
  BY <1>6, <1>8 DEF IsLexeme, Last
<1>9. CASE type \in {"L_INT", "L_DOUBLE", "L_EXP"}
  <2>1. IsInteger(s) \/ IsDecimal(s) \/ IsExponential(s)
    BY <1>9 DEF IsLexeme
  <2> QED BY <2>1, <1>9, NumberEnds
<1> QED BY <1>3, <1>4, <1>5, <1>7, <1>8, <1>9

\* And the strings.
LEMMA StringShape ==
  ASSUME NEW s \in Seq(Characters), NEW kind, NEW type, IsLexeme(type, s, kind)
  PROVE  /\ type \in {"L_STRING", "L_STRING_PLUS"} => Len(s) >= 2 /\ s[1] = Quote
         /\ type = "L_STRING" =>
              /\ \A i \in 2 .. Len(s) : s[i] = Quote /\ ~Escaped(s, i) => i = Len(s)
              /\ s[Len(s)] = Quote /\ ~Escaped(s, Len(s))
              /\ \A i \in 1 .. Len(s) : s[i] \notin Control
         /\ type = "L_STRING_PLUS" => Len(s) >= 8 /\ s[4] = "NL"
<1>1. Len(s) \in Nat /\ DOMAIN s = 1 .. Len(s)
  OBVIOUS
<1>2. CASE type = "L_STRING"
  <2>1. IsString(s)
    BY <1>2 DEF IsLexeme
  <2>2. Len(s) > 1 /\ s[1] = Quote
    BY <2>1 DEF IsString
  <2>3. \A i \in 2 .. Len(s) : (s[i] = Quote /\ ~Escaped(s, i)) = (i = Len(s))
    BY <2>1, Zenon DEF IsString
  <2>4. \A i \in 1 .. Len(s) : s[i] \notin Control
    BY <1>1, <2>1, Zenon DEF IsString
  <2>5. \A i \in 2 .. Len(s) : s[i] = Quote /\ ~Escaped(s, i) => i = Len(s)
    BY <2>3, Zenon
  <2>6. Len(s) \in 2 .. Len(s)
    BY <1>1, <2>2
  <2>7. s[Len(s)] = Quote /\ ~Escaped(s, Len(s))
    BY <2>3, <2>6, Zenon
  <2>8. Len(s) >= 2
    BY <1>1, <2>2
  <2> HIDE DEF Control
  <2> QED BY <1>2, <2>2, <2>4, <2>5, <2>7, <2>8
<1>3. CASE type = "L_STRING_PLUS"
  <2> DEFINE open == <<Quote, Quote, Quote, "NL">>
             four == SubSeq(s, 1, 4)
  <2>1. Len(s) > 7 /\ four = open
    BY <1>3 DEF IsLexeme, IsLines
  <2>2. open[1] = Quote /\ open[4] = "NL"
    OBVIOUS
  <2> HIDE DEF open
  <2>3. 4 \in 0 .. Len(s) /\ 1 \in 1 .. 4 /\ 4 \in 1 .. 4
    BY <1>1, <2>1
  <2>4. \A i \in 1 .. 4 : four[i] = s[i]
    BY <2>3, PrefixIs
  <2> HIDE DEF four
  <2>5. s[1] = Quote /\ s[4] = "NL"
    BY <2>1, <2>2, <2>3, <2>4
  <2>6. Len(s) >= 8
    BY <1>1, <2>1
  <2> QED BY <1>3, <2>5, <2>6
<1> QED BY <1>2, <1>3

\* Whatever a token of more than one character may begin with.
LEMMA Quotation ==
  /\ Quote \notin InName /\ Quote \notin OneCharacter /\ Quote \notin DOMAIN Second
  /\ Quote \notin Digits /\ Quote \notin Control /\ Quote \in Characters
  /\ Quote \notin {"/", " ", "\\", "u", "n", "NL", "{", "}", "."}
<1>1. /\ Quote # "0" /\ Quote # "e" /\ Quote # "n" /\ Quote # "u" /\ Quote # "g"
      /\ Quote # "+" /\ Quote # "*" /\ Quote # "{" /\ Quote # "}" /\ Quote # "-"
      /\ Quote # "<" /\ Quote # ">" /\ Quote # "=" /\ Quote # "!" /\ Quote # "?"
      /\ Quote # "NL" /\ Quote # "EOF" /\ Quote # "/" /\ Quote # " " /\ Quote # "\\"
      /\ Quote # "."
  BY Zenon DEF Quote
<1>2. Quote \in Characters
  BY DEF Characters
<1> QED
  BY <1>1, <1>2 DEF InName, Digits, HexLetters, OtherLetters, OneCharacter, Second, Control

\* Names and numbers do not begin as operators do.
LEMMA Beginnings ==
  /\ Digits \subseteq InName
  /\ \A c \in InName : c \notin OneCharacter \cup DOMAIN Second \cup {"/", "EOF"}
  /\ "EOF" \notin OneCharacter \cup DOMAIN Second \cup {"/"}
BY DEF InName, Digits, HexLetters, OtherLetters, OneCharacter, Second

\* No token begins with all of s and the character behind it.
Alone(s, c, kind) == \A type \in TokenTypes : ~IsLexeme(type, Append(s, c), kind)

\* An operator is longer only by the character that makes it one of two.
LEMMA OperatorAlone ==
  ASSUME NEW s \in Seq(Characters), NEW c \in Characters, NEW kind, Len(s) = 1,
         s[1] \in OneCharacter \cup DOMAIN Second \cup {"/"},
         s[1] \in DOMAIN Second => c # Second[s[1]]
  PROVE  Alone(s, c, kind)
<1> DEFINE t == Append(s, c)
<1>1. t \in Seq(Characters) /\ Len(t) = 2 /\ t[1] = s[1] /\ t[2] = c
  <2>1. /\ t \in Seq(Characters) /\ Len(t) = Len(s) + 1 /\ t[Len(s) + 1] = c
        /\ \A i \in 1 .. Len(s) : t[i] = s[i]
    BY CharacterAdded
  <2>2. 1 \in 1 .. Len(s) /\ Len(s) + 1 = 2
    OBVIOUS
  <2> HIDE DEF t
  <2> QED BY <2>1, <2>2
<1>2. t[1] \notin InName /\ t[1] # Quote /\ Digits \subseteq InName
  BY <1>1, Quotation, Beginnings
<1> HIDE DEF t
<1>3. ~IsLexeme("L_OPERATOR", t, kind)
  BY <1>1, WordShape
<1>4. \A type \in TokenTypes : type # "L_OPERATOR" => ~IsLexeme(type, t, kind)
  BY <1>1, <1>2, WordShape, StringShape DEF TokenTypes
<1> QED BY <1>3, <1>4 DEF Alone, t

\* A name goes on with a character of names, or with the mark of its kind.
LEMMA NameAlone ==
  ASSUME NEW s \in Seq(Characters), NEW c \in Characters, NEW kind, Len(s) >= 1,
         s[1] \in InName \ Digits, c \notin InName,
         kind = "name" => c # "!", kind = "type" => c # "?"
  PROVE  Alone(s, c, kind)
<1> DEFINE t == Append(s, c)
<1>1. t \in Seq(Characters) /\ Len(t) >= 2 /\ t[1] = s[1] /\ t[Len(t)] = c
  BY CharacterAdded
<1>2. t[1] \notin OneCharacter \cup DOMAIN Second \cup {"/"} /\ t[1] # Quote
  BY <1>1, Quotation, Beginnings
<1> HIDE DEF t
<1>3. \A type \in TokenTypes : ~IsLexeme(type, t, kind)
  BY <1>1, <1>2, WordShape, StringShape DEF TokenTypes
<1> QED BY <1>3 DEF Alone, t

\* A number does not end with anything but a digit.
LEMMA NumberAlone ==
  ASSUME NEW s \in Seq(Characters), NEW c \in Characters, NEW kind, Len(s) >= 1,
         s[1] \in Digits, c \notin Digits
  PROVE  Alone(s, c, kind)
<1> DEFINE t == Append(s, c)
<1>1. t \in Seq(Characters) /\ Len(t) >= 2 /\ t[1] = s[1] /\ t[Len(t)] = c
  BY CharacterAdded
<1>2. t[1] \notin OneCharacter \cup DOMAIN Second \cup {"/"} /\ t[1] # Quote
  BY <1>1, Quotation, Beginnings
<1> HIDE DEF t
<1>3. \A type \in TokenTypes : ~IsLexeme(type, t, kind)
  BY <1>1, <1>2, WordShape, StringShape DEF TokenTypes
<1> QED BY <1>3 DEF Alone, t

\* Nothing is behind the quotes that end a string, and no new line is in it.
LEMMA StringAlone ==
  ASSUME NEW s \in Seq(Characters), NEW c \in Characters, NEW kind, IsString(s)
  PROVE  Alone(s, c, kind)
<1> DEFINE t == Append(s, c)
           n == Len(s)
<1>1. IsLexeme("L_STRING", s, kind)
  BY DEF IsLexeme
<1>2. /\ n \in Nat /\ n >= 2 /\ s[1] = Quote /\ s[n] = Quote /\ ~Escaped(s, n)
      /\ \A i \in 1 .. n : s[i] \notin Control
  BY <1>1, StringShape
<1>3. /\ t \in Seq(Characters) /\ Len(t) = n + 1
      /\ \A i \in 1 .. n : t[i] = s[i]
  BY CharacterAdded
<1>4. ~Escaped(t, n)
  BY <1>2, EscapedKept
<1>5. t[1] = Quote /\ t[n] = Quote /\ \A i \in 1 .. n : t[i] # "NL"
  BY <1>2, <1>3 DEF Control
<1> HIDE DEF t, n
<1>6. t[1] \notin InName /\ t[1] \notin OneCharacter \cup DOMAIN Second \cup {"/"}
      /\ t[1] \notin Digits
  BY <1>5, Quotation
<1>7. ~IsLexeme("L_STRING", t, kind)
  <2>1. SUFFICES ASSUME IsLexeme("L_STRING", t, kind) PROVE FALSE
    OBVIOUS
  <2>2. n \in 2 .. Len(t) /\ n # Len(t)
    BY <1>2, <1>3
  <2> QED BY <2>1, <2>2, <1>3, <1>4, <1>5, StringShape
<1>8. ~IsLexeme("L_STRING_PLUS", t, kind)
  <2>1. SUFFICES ASSUME IsLexeme("L_STRING_PLUS", t, kind) PROVE FALSE
    OBVIOUS
  <2>2. Len(t) >= 8 /\ t[4] = "NL"
    BY <2>1, <1>3, StringShape
  <2> QED BY <2>2, <1>2, <1>3, <1>5
<1>9. \A type \in TokenTypes \ {"L_STRING", "L_STRING_PLUS"} : ~IsLexeme(type, t, kind)
  BY <1>3, <1>6, WordShape DEF TokenTypes
<1> QED BY <1>7, <1>8, <1>9 DEF Alone, t

\* Nothing is behind the end of the file.
LEMMA EndAlone ==
  ASSUME NEW s \in Seq(Characters), NEW kind, Len(s) = 0, "EOF" \in Characters
  PROVE  Alone(s, "EOF", kind)
<1> DEFINE t == Append(s, "EOF")
<1>1. t \in Seq(Characters) /\ Len(t) = 1 /\ t[1] = "EOF"
  BY CharacterAdded
<1>2. /\ t[1] \notin OneCharacter \cup DOMAIN Second \cup {"/"}
      /\ t[1] \notin InName /\ t[1] \notin Digits
  BY <1>1, Beginnings
<1> HIDE DEF t
<1>3. \A type \in TokenTypes : ~IsLexeme(type, t, kind)
  BY <1>1, <1>2, WordShape, StringShape DEF TokenTypes
<1> QED BY <1>3 DEF Alone, t

\* What has been read of an exponent stays what it is.
LEMMA ExponentKept ==
  ASSUME NEW s \in Seq(Characters), NEW c \in Characters, NEW e, Exponent(s, e)
  PROVE  Exponent(Append(s, c), e)
<1> DEFINE t == Append(s, c)
<1>1. e \in 2 .. Len(s) /\ s[e] = "e" /\ Len(s) \in Nat
  BY DEF Exponent
<1>2. e - 1 \in 0 .. Len(s)
  BY <1>1
<1>3. SubSeq(t, 1, e - 1) = SubSeq(s, 1, e - 1)
  BY <1>2, PrefixKept
<1>4. t[e] = "e" /\ e \in 2 .. Len(t)
  BY <1>1, CharacterAdded
<1> HIDE DEF t
<1>5. Exponent(t, e)
  BY <1>3, <1>4 DEF Exponent
<1> QED BY <1>5 DEF t

\* An exponent's letter behind a number.
LEMMA ExponentBegins ==
  ASSUME NEW s \in Seq(Characters), NEW c \in Characters, c = "e",
         IsInteger(s) \/ IsDecimal(s)
  PROVE  Exponent(Append(s, c), Len(s) + 1)
<1> DEFINE t == Append(s, c)
<1>1. Len(s) >= 1 /\ Len(s) \in Nat
  BY NumberEnds
<1>2. SubSeq(t, 1, Len(s)) = SubSeq(s, 1, Len(s)) /\ SubSeq(s, 1, Len(s)) = s
  BY <1>1, PrefixKept, SubSeqFull
<1>3. t[Len(s) + 1] = "e" /\ Len(s) + 1 \in 2 .. Len(t)
  BY <1>1, CharacterAdded
<1>4. (Len(s) + 1) - 1 = Len(s)
  BY <1>1
<1> HIDE DEF t
<1>5. Exponent(t, Len(s) + 1)
  BY <1>2, <1>3, <1>4 DEF Exponent
<1> QED BY <1>5 DEF t

\* A digit behind the letter, behind its sign or behind other digits.
LEMMA ExponentialGrows ==
  ASSUME NEW s \in Seq(Characters), NEW c \in Characters, c \in Digits,
         \/ Exponent(s, Len(s))
         \/ Exponent(s, Len(s) - 1) /\ s[Len(s)] \in {"+", "-"}
         \/ IsExponential(s)
  PROVE  IsExponential(Append(s, c))
<1> DEFINE t == Append(s, c)
           n == Len(s)
<1>1. /\ n \in Nat /\ t \in Seq(Characters) /\ Len(t) = n + 1
      /\ t[n + 1] = c /\ \A i \in 1 .. n : t[i] = s[i]
  BY CharacterAdded
<1>2. \A m \in 0 .. n : SubSeq(t, 1, m) = SubSeq(s, 1, m)
  BY PrefixKept
<1>3. DOMAIN t = 1 .. n + 1 /\ DOMAIN s = 1 .. n
  BY <1>1
<1>4. SUFFICES \E e \in 1 .. n :
        /\ s[e] = "e"
        /\ IsInteger(SubSeq(s, 1, e - 1)) \/ IsDecimal(SubSeq(s, 1, e - 1))
        /\ \/ \A i \in e + 1 .. n : s[i] \in Digits
           \/ e < n /\ s[e + 1] \in {"+", "-"} /\ \A i \in e + 2 .. n : s[i] \in Digits
  <2>1. PICK e \in 1 .. n :
        /\ s[e] = "e"
        /\ IsInteger(SubSeq(s, 1, e - 1)) \/ IsDecimal(SubSeq(s, 1, e - 1))
        /\ \/ \A i \in e + 1 .. n : s[i] \in Digits
           \/ e < n /\ s[e + 1] \in {"+", "-"} /\ \A i \in e + 2 .. n : s[i] \in Digits
    BY <1>4
  <2>2. e - 1 \in 0 .. n /\ e \in 1 .. n + 1
    BY <1>1
  <2>3. IsInteger(SubSeq(t, 1, e - 1)) \/ IsDecimal(SubSeq(t, 1, e - 1))
    BY <2>1, <2>2, <1>2
  <2>4. t[e] = "e"
    BY <1>1, <2>1
  <2> HIDE DEF t, n
  <2>5. CASE \A i \in e + 1 .. n : s[i] \in Digits
    <3>1. \A i \in e + 1 .. n + 1 : t[i] \in Digits
      BY <1>1, <2>5
    <3>2. Only(t, e + 1, Len(t), Digits) /\ e \in DOMAIN t
      BY <1>1, <1>3, <2>2, <3>1 DEF Only
    <3>3. IsExponential(t)
      BY <2>3, <2>4, <3>2 DEF IsExponential
    <3> QED BY <3>3 DEF t
  <2>6. CASE e < n /\ s[e + 1] \in {"+", "-"} /\ \A i \in e + 2 .. n : s[i] \in Digits
    <3>1. \A i \in e + 2 .. n + 1 : t[i] \in Digits
      BY <1>1, <2>6
    <3>2. t[e + 1] \in {"+", "-"} /\ e < n + 1
      BY <1>1, <2>6
    <3>3. Only(t, e + 2, Len(t), Digits) /\ e \in DOMAIN t /\ e < Len(t)
      BY <1>1, <1>3, <2>2, <2>6, <3>1 DEF Only
    <3>4. IsExponential(t)
      BY <2>3, <2>4, <3>2, <3>3 DEF IsExponential
    <3> QED BY <3>4 DEF t
  <2> QED BY <2>1, <2>5, <2>6
<1> HIDE DEF t
<1>5. CASE Exponent(s, n)
  <2>1. \A i \in n + 1 .. n : s[i] \in Digits
    BY <1>1
  <2> QED BY <1>1, <1>5, <2>1 DEF Exponent
<1>6. CASE Exponent(s, n - 1) /\ s[n] \in {"+", "-"}
  <2>1. n - 1 \in 1 .. n /\ (n - 1) + 1 = n /\ n - 1 < n
    BY <1>1, <1>6 DEF Exponent
  <2>2. \A i \in (n - 1) + 2 .. n : s[i] \in Digits
    BY <1>1
  <2> QED BY <1>6, <2>1, <2>2 DEF Exponent
<1>7. CASE IsExponential(s)
  BY <1>1, <1>3, <1>7 DEF IsExponential, Only
<1> QED BY <1>5, <1>6, <1>7

\* The digits that were read, and the fraction's place.
LEMMA DecimalRead ==
  ASSUME NEW s \in Seq(Characters), NEW c, c \notin Digits, ReadsWord("S_DOUBLE_1", s, c)
  PROVE  IsDecimal(s)
<1>1. PICK dot \in 2 .. Len(s) :
        /\ s[dot] = "." /\ (dot = Len(s) => c \in Digits)
        /\ \A i \in 1 .. dot - 1 : s[i] \in Digits
        /\ \A i \in dot + 1 .. Len(s) : s[i] \in Digits
  BY DEF ReadsWord
<1>2. dot \in DOMAIN s /\ 1 <= dot - 1 /\ dot + 1 <= Len(s)
  BY <1>1
<1> QED BY <1>1, <1>2 DEF IsDecimal, Only

-----------------------------------------------------------------------------
(* The automaton, state by state.                                          *)

\* What is known in each state.
LEMMA StateRead ==
  ASSUME ScanInv
  PROVE  /\ text \in Seq(Characters) /\ string \in Nat
         /\ ReadsWord(lexState, text, unread) /\ ReadsString(lexState, text, string, token)
BY DEF ScanInv

\* The character belongs to the token, and the automaton goes on.
LEMMA TakesOn ==
  ASSUME ScanInv, NEW c \in Characters, NEW n \in Nat, NEW next, next # "built",
         Takes(c, next, n), ReadsWord(next, Append(text, c), AfterReading(c)),
         ReadsString(next, Append(text, c), string + n, token)
  PROVE  ScanInv'
<1>1. text \in Seq(Characters) /\ string \in Nat
  BY DEF ScanInv
<1>2. /\ lexState' = next /\ text' = Append(text, c) /\ string' = string + n
      /\ unread' = AfterReading(c) /\ token' = token
  BY DEF Takes
<1>3. Append(text, c) \in Seq(Characters) /\ AfterReading(c) \in Characters \cup {""}
  BY <1>1, CharacterAdded DEF AfterReading
<1>4. LongestToken'
  BY <1>2 DEF LongestToken
<1>5. ReadsWord(lexState', text', unread') /\ ReadsString(lexState', text', string', token')
  BY <1>2
<1>6. string + n \in Nat
  BY <1>1
<1> QED BY <1>2, <1>3, <1>4, <1>5, <1>6 DEF ScanInv

\* It does not, and another state reads it again.
LEMMA PushesOn ==
  ASSUME ScanInv, NEW c \in Characters, NEW next, next # "built", PushesBack(c, next),
         ReadsWord(next, text, c), ReadsString(next, text, string, token)
  PROVE  ScanInv'
<1>1. /\ lexState' = next /\ text' = text /\ string' = string
      /\ unread' = c /\ token' = token
  BY DEF PushesBack
<1>2. LongestToken'
  BY <1>1 DEF LongestToken
<1> QED BY <1>1, <1>2 DEF ScanInv

\* Between the tokens nothing is kept.
LEMMA SkipsOn ==
  ASSUME ScanInv, NEW c \in Characters, NEW next, Skips(c, next), next \in Blank \cup {"S_EOF"},
         next = "S_EOF" => c = "EOF", string = 0, token = "L_EMPTY"
  PROVE  ScanInv'
<1> DEFINE none == <<>>
<1>1. /\ lexState' = next /\ text' = none /\ string' = string
      /\ unread' = AfterReading(c) /\ token' = token
  BY DEF Skips
<1>2. none \in Seq(Characters) /\ Len(none) = 0
  OBVIOUS
<1>3. next # "built"
  BY DEF Blank
<1>4. LongestToken'
  BY <1>1, <1>3 DEF LongestToken
<1> HIDE DEF none
<1>5. AfterReading(c) \in Characters \cup {""} /\ (c = "EOF" => AfterReading(c) = "EOF")
  BY DEF AfterReading
<1>6. ReadsWord(next, none, AfterReading(c))
  BY <1>2, <1>5 DEF ReadsWord, Blank
<1>7. ReadsString(next, none, 0, "L_EMPTY")
  BY <1>2 DEF ReadsString, Blank, Lines, Escapes
<1> QED BY <1>1, <1>2, <1>4, <1>5, <1>6, <1>7 DEF ScanInv

\* In the states that end a call nothing is read.
LEMMA NothingRead ==
  ASSUME NEW state \in {"built", "refused"}, NEW s, NEW c, NEW held, NEW type
  PROVE  ReadsWord(state, s, c) /\ ReadsString(state, s, held, type)
BY DEF ReadsWord, ReadsString, Blank, Lines, Escapes

\* A token is built with the character.
LEMMA BuiltWith ==
  ASSUME ScanInv, NEW c \in Characters, NEW type, Builds(type, c, TRUE), type # "L_STRING",
         IsLexeme(type, Append(text, c), word)
  PROVE  ScanInv'
<1>1. /\ lexState' = "built" /\ text' = Append(text, c) /\ string' = string
      /\ unread' = "" /\ token' = type /\ word' = word
  BY DEF Builds
<1>2. text' \in Seq(Characters) /\ string' \in Nat /\ unread' \in Characters \cup {""}
  BY <1>1, CharacterAdded DEF ScanInv
<1>3. LongestToken'
  BY <1>1, Zenon DEF LongestToken
<1>4. ReadsWord(lexState', text', unread') /\ ReadsString(lexState', text', string', token')
  BY <1>1, NothingRead
<1> QED BY <1>2, <1>3, <1>4 DEF ScanInv

\* And without it.
LEMMA BuiltWithout ==
  ASSUME ScanInv, NEW c \in Characters, NEW type, Builds(type, c, FALSE),
         IsLexeme(type, text, word), Alone(text, c, word),
         type = "L_STRING" => Counted(text, string, 2)
  PROVE  ScanInv'
<1>1. /\ lexState' = "built" /\ text' = text /\ string' = string
      /\ unread' = c /\ token' = type /\ word' = word
  BY DEF Builds
<1>2. text' \in Seq(Characters) /\ string' \in Nat /\ unread' \in Characters \cup {""}
  BY <1>1 DEF ScanInv
<1>3. LongestToken'
  BY <1>1 DEF LongestToken, Alone, Counted
<1>4. ReadsWord(lexState', text', unread') /\ ReadsString(lexState', text', string', token')
  BY <1>1, NothingRead
<1> QED BY <1>2, <1>3, <1>4 DEF ScanInv

\* An error ends the program.
LEMMA ExitsOn ==
  ASSUME ScanInv, exitFree
  PROVE  ScanInv'
<1>1. /\ lexState' = "refused" /\ text' = text /\ string' = string
      /\ unread' = unread /\ token' = token
  BY DEF exitFree
<1>2. LongestToken'
  BY <1>1 DEF LongestToken
<1>3. ReadsWord(lexState', text', unread') /\ ReadsString(lexState', text', string', token')
  BY <1>1, NothingRead
<1> QED BY <1>1, <1>2, <1>3 DEF ScanInv

\* A character that was pushed back is the one that is read.
LEMMA ReadsAgain ==
  ASSUME NEW c \in Characters, getc(c)
  PROVE  /\ unread \in InName \cup Digits => c = unread
         /\ unread = "EOF" => c = unread
<1>1. \A d \in InName \cup Digits \cup {"EOF"} : d # ""
  BY DEF InName, Digits, HexLetters, OtherLetters
<1>2. c = unread \/ unread = ""
  BY DEF getc
<1> QED BY <1>1, <1>2

\* A text of one character.
LEMMA FirstCharacter ==
  ASSUME NEW s \in Seq(Characters), NEW c \in Characters, Len(s) = 0
  PROVE  Len(Append(s, c)) = 1 /\ Append(s, c)[1] = c
<1> DEFINE t == Append(s, c)
<1>1. Len(t) = Len(s) + 1 /\ t[Len(s) + 1] = c
  BY CharacterAdded
<1>2. Len(s) + 1 = 1
  OBVIOUS
<1> HIDE DEF t
<1>3. Len(t) = 1 /\ t[1] = c
  BY <1>1, <1>2
<1> QED BY <1>3 DEF t

\* The state in which every token begins.
LEMMA StartKeeps ==
  ASSUME ScanInv, NEW c \in Characters, getc(c), StartState(c)
  PROVE  ScanInv'
<1> DEFINE t == Append(text, c)
<1>1. lexState = "S_START"
  BY DEF StartState
<1>2. text \in Seq(Characters) /\ Len(text) = 0 /\ string = 0 /\ token = "L_EMPTY"
  BY <1>1, StateRead DEF ReadsString, Blank
<1>3. Len(t) = 1 /\ t[1] = c
  BY <1>2, FirstCharacter
<1>4. string + 0 = 0
  BY <1>2
<1>5. \/ Skips(c, "S_START")
      \/ c \in OneCharacter \cup DOMAIN Second /\ Takes(c, "S_OPERATOR", 0)
      \/ c = "/" /\ Takes(c, "S_DIVIDE", 0)
      \/ c = Quote /\ Takes(c, "S_STRING_CHECK_0", 0)
      \/ c = "EOF" /\ Skips(c, "S_EOF")
      \/ c \in Digits /\ PushesBack(c, "S_INT")
      \/ c \in InName \ Digits /\ PushesBack(c, "S_ID")
      \/ exitFree
  BY Zenon DEF StartState
<1> HIDE DEF t
<1>6. CASE Skips(c, "S_START")
  BY <1>2, <1>6, SkipsOn DEF Blank
<1>7. CASE c \in OneCharacter \cup DOMAIN Second /\ Takes(c, "S_OPERATOR", 0)
  <2>1. ReadsWord("S_OPERATOR", t, AfterReading(c))
    BY <1>3, <1>7 DEF ReadsWord
  <2>2. ReadsString("S_OPERATOR", t, 0, token)
    BY DEF ReadsString, Blank, Lines, Escapes
  <2> QED BY <1>4, <1>7, <2>1, <2>2, TakesOn DEF t
<1>8. CASE c = "/" /\ Takes(c, "S_DIVIDE", 0)
  <2>1. ReadsWord("S_DIVIDE", t, AfterReading(c))
    BY DEF ReadsWord
  <2>2. ReadsString("S_DIVIDE", t, 0, token)
    BY <1>2, <1>3, <1>8 DEF ReadsString, Blank, Lines, Escapes
  <2> QED BY <1>4, <1>8, <2>1, <2>2, TakesOn DEF t
<1>9. CASE c = Quote /\ Takes(c, "S_STRING_CHECK_0", 0)
  <2>1. ReadsWord("S_STRING_CHECK_0", t, AfterReading(c))
    BY DEF ReadsWord
  <2>2. ReadsString("S_STRING_CHECK_0", t, 0, token)
    BY <1>2, <1>3, <1>9 DEF ReadsString, Blank, Lines, Escapes, Quotes
  <2> QED BY <1>4, <1>9, <2>1, <2>2, TakesOn DEF t
<1>10. CASE c = "EOF" /\ Skips(c, "S_EOF")
  BY <1>2, <1>10, SkipsOn
<1>11. CASE c \in Digits /\ PushesBack(c, "S_INT")
  <2>1. ReadsWord("S_INT", text, c)
    BY <1>2, <1>11 DEF ReadsWord
  <2>2. ReadsString("S_INT", text, string, token)
    BY DEF ReadsString, Blank, Lines, Escapes
  <2> QED BY <1>11, <2>1, <2>2, PushesOn
<1>12. CASE c \in InName \ Digits /\ PushesBack(c, "S_ID")
  <2>1. ReadsWord("S_ID", text, c)
    BY <1>2, <1>12 DEF ReadsWord
  <2>2. ReadsString("S_ID", text, string, token)
    BY DEF ReadsString, Blank, Lines, Escapes
  <2> QED BY <1>12, <2>1, <2>2, PushesOn
<1>13. CASE exitFree
  BY <1>13, ExitsOn
<1> QED BY <1>5, <1>6, <1>7, <1>8, <1>9, <1>10, <1>11, <1>12, <1>13

\* Operators of one character and of two.
LEMMA OperatorKeeps ==
  ASSUME ScanInv, NEW c \in Characters, OperatorState(c)
  PROVE  ScanInv'
<1> DEFINE t == Append(text, c)
<1>1. lexState = "S_OPERATOR"
  BY DEF OperatorState
<1>2. /\ text \in Seq(Characters) /\ Len(text) = 1
      /\ text[1] \in OneCharacter \cup DOMAIN Second
  BY <1>1, StateRead DEF ReadsWord
<1>3. \/ text[1] \in DOMAIN Second /\ c = Second[text[1]] /\ Builds("L_OPERATOR", c, TRUE)
      \/ exitFree
      \/ /\ text[1] \in DOMAIN Second => c # Second[text[1]]
         /\ text[1] \notin {"!", "?"} /\ Builds("L_OPERATOR", c, FALSE)
  <2>1. {"!", "?"} \subseteq DOMAIN Second
    BY DEF Second
  <2> QED BY <2>1 DEF OperatorState
<1>4. CASE text[1] \in DOMAIN Second /\ c = Second[text[1]] /\ Builds("L_OPERATOR", c, TRUE)
  <2>1. /\ Len(t) = Len(text) + 1 /\ t[Len(text) + 1] = c
        /\ \A i \in 1 .. Len(text) : t[i] = text[i]
    BY <1>2, CharacterAdded
  <2> HIDE DEF t
  <2>2. Len(t) = 2 /\ t[1] = text[1] /\ t[2] = c
    BY <1>2, <2>1
  <2>3. IsLexeme("L_OPERATOR", t, word)
    BY <1>4, <2>2 DEF IsLexeme, IsOperator
  <2> QED BY <1>4, <2>3, BuiltWith DEF t
<1>5. CASE exitFree
  BY <1>5, ExitsOn
<1>6. CASE /\ text[1] \in DOMAIN Second => c # Second[text[1]]
           /\ text[1] \notin {"!", "?"} /\ Builds("L_OPERATOR", c, FALSE)
  <2>1. text[1] \in OneCharacter \cup {"-", "<", ">", "=", "/"}
    BY <1>2, <1>6 DEF Second
  <2>2. IsLexeme("L_OPERATOR", text, word)
    BY <1>2, <2>1 DEF IsLexeme, IsOperator
  <2>3. Alone(text, c, word)
    BY <1>2, <1>6, OperatorAlone
  <2> QED BY <1>6, <2>2, <2>3, BuiltWithout
<1> QED BY <1>3, <1>4, <1>5, <1>6

\* The end of the file.
LEMMA EndKeeps ==
  ASSUME ScanInv, NEW c \in Characters, getc(c), EndState(c)
  PROVE  ScanInv'
<1>1. lexState = "S_EOF" /\ Builds("L_EOF", c, FALSE)
  BY DEF EndState
<1>2. text \in Seq(Characters) /\ Len(text) = 0 /\ unread = "EOF"
  BY <1>1, StateRead DEF ReadsWord
<1>3. c = "EOF"
  BY <1>2, ReadsAgain
<1>4. text = <<>>
  BY <1>2, EmptySeq
<1>5. IsLexeme("L_EOF", text, word)
  BY <1>4 DEF IsLexeme
<1>6. Alone(text, c, word)
  BY <1>2, <1>3, EndAlone
<1> QED BY <1>1, <1>5, <1>6, BuiltWithout

\* Names, keywords and types.
LEMMA NameKeeps ==
  ASSUME ScanInv, NEW c \in Characters, getc(c), NameState(c)
  PROVE  ScanInv'
<1> DEFINE t == Append(text, c)
<1>1. lexState = "S_ID"
  BY DEF NameState
<1>2. /\ text \in Seq(Characters) /\ Len(text) \in Nat
      /\ \A i \in 1 .. Len(text) : text[i] \in InName
      /\ Len(text) = 0 => unread \in InName \ Digits
      /\ Len(text) # 0 => text[1] \notin Digits
  BY <1>1, StateRead DEF ReadsWord
<1>3. Len(text) = 0 => c \in InName \ Digits
  BY <1>2, ReadsAgain
<1>4. /\ t \in Seq(Characters) /\ Len(t) = Len(text) + 1 /\ t[Len(text) + 1] = c
      /\ \A i \in 1 .. Len(text) : t[i] = text[i]
  BY <1>2, CharacterAdded
<1>5. CASE c \in InName
  <2>1. Takes(c, "S_ID", 1)
    BY <1>5 DEF NameState
  <2> HIDE DEF t
  <2>2. \A i \in 1 .. Len(t) : t[i] \in InName
    BY <1>2, <1>4, <1>5
  <2>3. Len(t) # 0 /\ t[1] \notin Digits
    <3>1. CASE Len(text) = 0
      <4>1. Len(text) + 1 = 1
        BY <3>1
      <4> QED BY <1>3, <1>4, <3>1, <4>1
    <3>2. CASE Len(text) # 0
      BY <1>2, <1>4, <3>2
    <3> QED BY <3>1, <3>2
  <2>4. ReadsWord("S_ID", t, AfterReading(c))
    BY <2>2, <2>3 DEF ReadsWord
  <2>5. ReadsString("S_ID", t, string + 1, token)
    BY DEF ReadsString, Blank, Lines, Escapes
  <2> QED BY <2>1, <2>4, <2>5, TakesOn DEF t
<1>6. CASE c \notin InName
  <2>1. PICK kind \in {"name", "keyword", "type"} :
       /\ lexState' = "built"
       /\ word' = kind
       /\ LET taken == (kind = "type" /\ c = "?") \/ (kind = "name" /\ c = "!") IN
          /\ token' = CASE kind = "name" -> IF taken THEN "L_ID_EXMARK" ELSE "L_ID"
                        [] OTHER -> IF taken THEN "L_KEYWORD_QMARK" ELSE "L_KEYWORD"
          /\ text' = IF taken THEN t ELSE text
          /\ unread' = IF taken THEN "" ELSE c
       /\ string' = string
    BY <1>6 DEF NameState
  <2>2. Len(text) >= 1 /\ text[1] \in InName \ Digits
    BY <1>2, <1>3, <1>6
  <2>3. IsName(text)
    BY <1>2, <2>2 DEF IsName, Only
  <2>4. Front(t) = text /\ Last(t) = c /\ t # <<>>
    BY <1>2, <1>4, FrontOfLonger
  <2>5. ReadsWord(lexState', text', unread') /\ ReadsString(lexState', text', string', token')
    BY <2>1, NothingRead
  <2>6. CASE (kind = "type" /\ c = "?") \/ (kind = "name" /\ c = "!")
    <3>1. text' = t /\ unread' = ""
      BY <2>1, <2>6
    <3> HIDE DEF t
    <3>2. \/ kind = "type" /\ c = "?" /\ token' = "L_KEYWORD_QMARK"
          \/ kind = "name" /\ c = "!" /\ token' = "L_ID_EXMARK"
      BY <2>1, <2>6
    <3>3. IsLexeme(token', t, kind)
      BY <2>3, <2>4, <3>2 DEF IsLexeme
    <3>4. LongestToken'
      BY <2>1, <3>1, <3>2, <3>3 DEF LongestToken
    <3> QED BY <1>4, <2>1, <2>5, <3>1, <3>4 DEF ScanInv
  <2>7. CASE ~((kind = "type" /\ c = "?") \/ (kind = "name" /\ c = "!"))
    <3>1. text' = text /\ unread' = c
      BY <2>1, <2>7
    <3>2. \/ kind # "name" /\ token' = "L_KEYWORD"
          \/ kind = "name" /\ token' = "L_ID"
      BY <2>1, <2>7
    <3>3. IsLexeme(token', text, kind)
      BY <2>3, <3>2 DEF IsLexeme
    <3>4. Alone(text, c, kind)
      BY <1>2, <1>6, <2>2, <2>7, NameAlone
    <3>5. LongestToken'
      BY <2>1, <3>1, <3>2, <3>3, <3>4 DEF LongestToken, Alone
    <3> QED BY <1>2, <2>1, <2>5, <3>1, <3>5 DEF ScanInv
  <2> QED BY <2>6, <2>7
<1> QED BY <1>5, <1>6

\* Numbers: integers, fractions and exponents.
LEMMA IntegerKeeps ==
  ASSUME ScanInv, NEW c \in Characters, getc(c), lexState \in {"S_INT", "S_DOUBLE"},
         NumberState(c)
  PROVE  ScanInv'
<1> DEFINE t == Append(text, c)
           n == Len(text)
<1>1. text \in Seq(Characters) /\ string \in Nat
  BY StateRead
<1>2. /\ t \in Seq(Characters) /\ Len(t) = n + 1 /\ t[n + 1] = c /\ n \in Nat
      /\ \A i \in 1 .. n : t[i] = text[i]
  BY <1>1, CharacterAdded
<1> HIDE DEF t
<1>3. CASE lexState = "S_INT"
  <2>1. /\ \A i \in 1 .. n : text[i] \in Digits
        /\ n = 0 => unread \in Digits
    BY <1>3, StateRead DEF ReadsWord
  <2>2. n = 0 => c \in Digits
    BY <2>1, ReadsAgain
  <2> "." \notin Digits /\ "e" \notin Digits
    BY DEF Digits
  <2>3. \/ c \in Digits /\ Takes(c, "S_INT", 1)
        \/ c \notin Digits /\ c = "." /\ Takes(c, "S_DOUBLE", 1)
        \/ c \notin Digits /\ c = "e" /\ Takes(c, "S_EXP_DOUBLE", 1)
        \/ c \notin Digits /\ Builds("L_INT", c, FALSE)
    BY <1>3 DEF NumberState
  <2>4. c \notin Digits => n >= 1 /\ IsInteger(text) /\ text[1] \in Digits
    BY <1>2, <2>1, <2>2 DEF IsInteger, Only
  <2>5. CASE c \in Digits /\ Takes(c, "S_INT", 1)
    <3>1. \A i \in 1 .. Len(t) : t[i] \in Digits
      BY <1>2, <2>1, <2>5
    <3>2. ReadsWord("S_INT", t, AfterReading(c))
      BY <1>2, <3>1 DEF ReadsWord
    <3>3. ReadsString("S_INT", t, string + 1, token)
      BY DEF ReadsString, Blank, Lines, Escapes
    <3> QED BY <2>5, <3>2, <3>3, TakesOn DEF t
  <2>6. CASE c \notin Digits /\ c = "." /\ Takes(c, "S_DOUBLE", 1)
    <3>1. Len(t) >= 2 /\ t[Len(t)] = "." /\ \A i \in 1 .. Len(t) - 1 : t[i] \in Digits
      BY <1>2, <2>1, <2>4, <2>6
    <3>2. ReadsWord("S_DOUBLE", t, AfterReading(c))
      BY <3>1 DEF ReadsWord
    <3>3. ReadsString("S_DOUBLE", t, string + 1, token)
      BY DEF ReadsString, Blank, Lines, Escapes
    <3> QED BY <2>6, <3>2, <3>3, TakesOn DEF t
  <2>7. CASE c \notin Digits /\ c = "e" /\ Takes(c, "S_EXP_DOUBLE", 1)
    <3>1. Exponent(t, Len(t))
      BY <1>1, <1>2, <2>4, <2>7, ExponentBegins DEF t
    <3>2. ReadsWord("S_EXP_DOUBLE", t, AfterReading(c))
      BY <3>1 DEF ReadsWord
    <3>3. ReadsString("S_EXP_DOUBLE", t, string + 1, token)
      BY DEF ReadsString, Blank, Lines, Escapes
    <3> QED BY <2>7, <3>2, <3>3, TakesOn DEF t
  <2>8. CASE c \notin Digits /\ Builds("L_INT", c, FALSE)
    <3>1. IsLexeme("L_INT", text, word)
      BY <2>4, <2>8 DEF IsLexeme
    <3>2. Alone(text, c, word)
      BY <1>1, <2>4, <2>8, NumberAlone
    <3> QED BY <2>8, <3>1, <3>2, BuiltWithout
  <2> QED BY <2>3, <2>5, <2>6, <2>7, <2>8
<1>4. CASE lexState = "S_DOUBLE"
  <2>1. n >= 2 /\ text[n] = "." /\ \A i \in 1 .. n - 1 : text[i] \in Digits
    BY <1>4, StateRead DEF ReadsWord
  <2>2. (c \in Digits /\ PushesBack(c, "S_DOUBLE_1")) \/ exitFree
    BY <1>4 DEF NumberState
  <2>3. CASE c \in Digits /\ PushesBack(c, "S_DOUBLE_1")
    <3>1. \A i \in n + 1 .. n : text[i] \in Digits
      BY <1>2
    <3>2. n \in 2 .. n
      BY <1>2, <2>1
    <3>3. ReadsWord("S_DOUBLE_1", text, c)
      BY <2>1, <2>3, <3>1, <3>2 DEF ReadsWord
    <3>4. ReadsString("S_DOUBLE_1", text, string, token)
      BY DEF ReadsString, Blank, Lines, Escapes
    <3> QED BY <2>3, <3>3, <3>4, PushesOn
  <2> QED BY <2>2, <2>3, ExitsOn
<1> QED BY <1>3, <1>4

\* The digits of a fraction, and the exponent.
LEMMA ExponentKeeps ==
  ASSUME ScanInv, NEW c \in Characters, getc(c), NumberState(c),
         lexState \in {"S_DOUBLE_1", "S_EXP_DOUBLE", "S_EXP_DOUBLE_1", "S_EXP_DOUBLE_2"}
  PROVE  ScanInv'
<1> DEFINE t == Append(text, c)
           n == Len(text)
<1>1. text \in Seq(Characters) /\ string \in Nat
  BY StateRead
<1>2. /\ t \in Seq(Characters) /\ Len(t) = n + 1 /\ t[n + 1] = c /\ n \in Nat
      /\ \A i \in 1 .. n : t[i] = text[i]
  BY <1>1, CharacterAdded
<1> HIDE DEF t
<1>3. CASE lexState = "S_DOUBLE_1"
  <2>1. PICK dot \in 2 .. n :
          /\ text[dot] = "." /\ (dot = n => unread \in Digits)
          /\ \A i \in 1 .. dot - 1 : text[i] \in Digits
          /\ \A i \in dot + 1 .. n : text[i] \in Digits
    BY <1>3, StateRead DEF ReadsWord
  <2>2. dot = n => c \in Digits
    BY <2>1, ReadsAgain
  <2> "e" \notin Digits
    BY DEF Digits
  <2>3. \/ c \in Digits /\ Takes(c, "S_DOUBLE_1", 1)
        \/ c \notin Digits /\ c = "e" /\ Takes(c, "S_EXP_DOUBLE", 1)
        \/ c \notin Digits /\ Builds("L_DOUBLE", c, FALSE)
    BY <1>3 DEF NumberState
  <2>4. ReadsWord("S_DOUBLE_1", text, c)
    BY <2>1, <2>2 DEF ReadsWord
  <2>5. c \notin Digits => IsDecimal(text)
    BY <2>4, <1>1, DecimalRead
  <2>6. CASE c \in Digits /\ Takes(c, "S_DOUBLE_1", 1)
    <3>1. /\ dot \in 2 .. Len(t) /\ t[dot] = "." /\ dot # Len(t)
          /\ \A i \in 1 .. dot - 1 : t[i] \in Digits
          /\ \A i \in dot + 1 .. Len(t) : t[i] \in Digits
      BY <1>2, <2>1, <2>6
    <3>2. ReadsWord("S_DOUBLE_1", t, AfterReading(c))
      BY <3>1 DEF ReadsWord
    <3>3. ReadsString("S_DOUBLE_1", t, string + 1, token)
      BY DEF ReadsString, Blank, Lines, Escapes
    <3> QED BY <2>6, <3>2, <3>3, TakesOn DEF t
  <2>7. CASE c \notin Digits /\ c = "e" /\ Takes(c, "S_EXP_DOUBLE", 1)
    <3>1. Exponent(t, Len(t))
      BY <1>1, <1>2, <2>5, <2>7, ExponentBegins DEF t
    <3>2. ReadsWord("S_EXP_DOUBLE", t, AfterReading(c))
      BY <3>1 DEF ReadsWord
    <3>3. ReadsString("S_EXP_DOUBLE", t, string + 1, token)
      BY DEF ReadsString, Blank, Lines, Escapes
    <3> QED BY <2>7, <3>2, <3>3, TakesOn DEF t
  <2>8. CASE c \notin Digits /\ Builds("L_DOUBLE", c, FALSE)
    <3>1. IsLexeme("L_DOUBLE", text, word)
      BY <2>5, <2>8 DEF IsLexeme
    <3>2. Alone(text, c, word)
      BY <1>1, <2>5, <2>8, NumberEnds, NumberAlone
    <3> QED BY <2>8, <3>1, <3>2, BuiltWithout
  <2> QED BY <2>3, <2>6, <2>7, <2>8
<1>4. CASE lexState = "S_EXP_DOUBLE"
  <2>1. Exponent(text, n)
    BY <1>4, StateRead DEF ReadsWord
  <2>2. \/ c \in {"+", "-"} /\ Takes(c, "S_EXP_DOUBLE_1", 1)
        \/ c \in Digits /\ PushesBack(c, "S_EXP_DOUBLE_1")
        \/ exitFree
    BY <1>4 DEF NumberState
  <2>3. CASE c \in {"+", "-"} /\ Takes(c, "S_EXP_DOUBLE_1", 1)
    <3>1. Exponent(t, n)
      BY <1>1, <2>1, ExponentKept DEF t
    <3>2. Len(t) - 1 = n /\ t[Len(t)] \in {"+", "-"}
      BY <1>2, <2>3
    <3>3. ReadsWord("S_EXP_DOUBLE_1", t, AfterReading(c))
      BY <3>1, <3>2 DEF ReadsWord
    <3>4. ReadsString("S_EXP_DOUBLE_1", t, string + 1, token)
      BY DEF ReadsString, Blank, Lines, Escapes
    <3> QED BY <2>3, <3>3, <3>4, TakesOn DEF t
  <2>4. CASE c \in Digits /\ PushesBack(c, "S_EXP_DOUBLE_1")
    <3>1. ReadsWord("S_EXP_DOUBLE_1", text, c)
      BY <2>1, <2>4 DEF ReadsWord
    <3>2. ReadsString("S_EXP_DOUBLE_1", text, string, token)
      BY DEF ReadsString, Blank, Lines, Escapes
    <3> QED BY <2>4, <3>1, <3>2, PushesOn
  <2> QED BY <2>2, <2>3, <2>4, ExitsOn
<1>5. ASSUME c \in Digits, Takes(c, "S_EXP_DOUBLE_2", 1),
             \/ Exponent(text, n)
             \/ Exponent(text, n - 1) /\ text[n] \in {"+", "-"}
             \/ IsExponential(text)
      PROVE  ScanInv'
  <2>1. IsExponential(t)
    BY <1>1, <1>5, ExponentialGrows DEF t
  <2>2. ReadsWord("S_EXP_DOUBLE_2", t, AfterReading(c))
    BY <2>1 DEF ReadsWord
  <2>3. ReadsString("S_EXP_DOUBLE_2", t, string + 1, token)
    BY DEF ReadsString, Blank, Lines, Escapes
  <2> QED BY <1>5, <2>2, <2>3, TakesOn DEF t
<1>6. CASE lexState = "S_EXP_DOUBLE_1"
  <2>1. Exponent(text, n) \/ (Exponent(text, n - 1) /\ text[n] \in {"+", "-"})
    BY <1>6, StateRead DEF ReadsWord
  <2>2. (c \in Digits /\ Takes(c, "S_EXP_DOUBLE_2", 1)) \/ exitFree
    BY <1>6 DEF NumberState
  <2> QED BY <1>5, <2>1, <2>2, ExitsOn
<1>7. CASE lexState = "S_EXP_DOUBLE_2"
  <2>1. IsExponential(text)
    BY <1>7, StateRead DEF ReadsWord
  <2>2. \/ c \in Digits /\ Takes(c, "S_EXP_DOUBLE_2", 1)
        \/ c \notin Digits /\ Builds("L_EXP", c, FALSE)
    BY <1>7 DEF NumberState
  <2>3. CASE c \notin Digits /\ Builds("L_EXP", c, FALSE)
    <3>1. IsLexeme("L_EXP", text, word)
      BY <2>1 DEF IsLexeme
    <3>2. Alone(text, c, word)
      BY <1>1, <2>1, <2>3, NumberEnds, NumberAlone
    <3> QED BY <2>3, <3>1, <3>2, BuiltWithout
  <2> QED BY <1>5, <2>1, <2>2, <2>3
<1> QED BY <1>3, <1>4, <1>6, <1>7

\* A string stays open until quotes that are not escaped.
LEMMA OpenGrows ==
  ASSUME NEW s \in Seq(Characters), NEW c \in Characters, OpenString(s), c \notin Control,
         c = Quote => Escaped(s, Len(s) + 1)
  PROVE  OpenString(Append(s, c))
<1> DEFINE t == Append(s, c)
           n == Len(s)
<1>1. /\ t \in Seq(Characters) /\ Len(t) = n + 1 /\ t[n + 1] = c /\ n \in Nat
      /\ \A i \in 1 .. n : t[i] = s[i]
  BY CharacterAdded
<1>2. \A i \in 1 .. n + 1 : Escaped(t, i) = Escaped(s, i)
  BY EscapedKept
<1>3. /\ n >= 1 /\ s[1] = Quote
      /\ \A i \in 2 .. n : s[i] = Quote => Escaped(s, i)
      /\ \A i \in 1 .. n : s[i] \notin Control
  BY DEF OpenString
<1> HIDE DEF t, n
<1>4. \A i \in 1 .. n + 1 : i \in 1 .. n \/ i = n + 1
  BY <1>1
<1>5. \A i \in 1 .. n + 1 : t[i] \notin Control
  BY <1>1, <1>3, <1>4
<1>6. ASSUME NEW i \in 2 .. n + 1, t[i] = Quote PROVE Escaped(t, i)
  <2>1. i \in 1 .. n + 1 /\ (i \in 2 .. n \/ i = n + 1)
    BY <1>1
  <2>2. Escaped(s, i)
    <3>1. CASE i \in 2 .. n
      <4>1. i \in 1 .. n
        BY <1>1, <3>1
      <4>2. s[i] = Quote
        BY <1>1, <1>6, <4>1
      <4> QED BY <1>3, <3>1, <4>2
    <3>2. CASE i = n + 1
      <4>1. c = Quote
        BY <1>1, <1>6, <3>2
      <4> QED BY <3>2, <4>1 DEF n
    <3> QED BY <2>1, <3>1, <3>2
  <2> QED BY <1>2, <2>1, <2>2, Zenon
<1>7. Len(t) >= 1 /\ t[1] = Quote
  BY <1>1, <1>3
<1>8. OpenString(t)
  BY <1>1, <1>5, <1>6, <1>7 DEF OpenString
<1> QED BY <1>8 DEF t

\* Quotes are not escaped by quotes.
LEMMA QuotesAre ==
  ASSUME NEW s \in Seq(Characters), NEW n \in 1 .. 3, Quotes(s, n)
  PROVE  /\ \A i \in 1 .. n + 1 : ~Escaped(s, i)
         /\ Counted(s, 0, n)
         /\ n = 1 => OpenString(s)
         /\ n = 2 => IsString(s)
<1>1. Len(s) = n /\ n \in Nat /\ n >= 1 /\ n <= 3 /\ \A i \in 1 .. n : s[i] = Quote
  BY DEF Quotes
<1>2. DOMAIN s = 1 .. n
  BY <1>1
<1>3. Quote # "\\" /\ Quote \notin Control /\ Quote # "u"
  BY Quotation
<1>4. ASSUME NEW i \in 1 .. n + 1 PROVE ~Escaped(s, i)
  <2>1. CASE i = 1
    BY <2>1, FirstNotEscaped
  <2>2. CASE i # 1
    <3>1. i \in 2 .. Len(s) + 1 /\ i - 1 \in 1 .. n
      BY <1>1, <2>2
    <3>2. s[i - 1] # "\\"
      BY <1>1, <1>3, <3>1
    <3> QED BY <3>1, <3>2, EscapedBy
  <2> QED BY <2>1, <2>2
<1>5. Counted(s, 0, n)
  <2>1. Escaping(s) = {}
    BY <1>1, <1>2, <1>3 DEF Escaping
  <2>2. Cardinality(Escaping(s)) = 0
    BY <2>1, FS_EmptySet
  <2>3. 0 = Len(s) - n - Cardinality(Escaping(s))
    BY <1>1, <2>2
  <2> QED BY <2>3 DEF Counted
<1>6. n = 1 => OpenString(s)
  BY <1>1, <1>3 DEF OpenString
<1>7. n = 2 => IsString(s)
  <2>1. SUFFICES ASSUME n = 2 PROVE IsString(s)
    OBVIOUS
  <2>2. Len(s) > 1 /\ s[1] = Quote /\ Last(s) = Quote
    BY <1>1, <2>1 DEF Last
  <2>3. \A i \in 2 .. Len(s) : s[i] = Quote /\ ~Escaped(s, i) /\ i = Len(s)
    BY <1>1, <1>4, <2>1
  <2>4. \A i \in 2 .. Len(s) : (s[i] = Quote /\ ~Escaped(s, i)) = (i = Len(s))
    BY <2>3, Zenon
  <2>5. \A i \in DOMAIN s : s[i] \notin Control
    BY <1>1, <1>2, <1>3
  <2> QED BY <2>2, <2>4, <2>5, Zenon DEF IsString
<1> QED BY <1>4, <1>5, <1>6, <1>7

\* A string ends with the first quotes that are not escaped.
LEMMA StringEnds ==
  ASSUME NEW s \in Seq(Characters), OpenString(s), ~Escaped(s, Len(s) + 1)
  PROVE  IsString(Append(s, Quote))
<1> DEFINE t == Append(s, Quote)
           n == Len(s)
<1>1. /\ t \in Seq(Characters) /\ Len(t) = n + 1 /\ t[n + 1] = Quote /\ n \in Nat
      /\ \A i \in 1 .. n : t[i] = s[i]
  BY Quotation, CharacterAdded
<1>2. \A i \in 1 .. n + 1 : Escaped(t, i) = Escaped(s, i)
  BY Quotation, EscapedKept
<1>3. /\ n >= 1 /\ s[1] = Quote
      /\ \A i \in 2 .. n : s[i] = Quote => Escaped(s, i)
      /\ \A i \in 1 .. n : s[i] \notin Control
  BY DEF OpenString
<1>4. DOMAIN t = 1 .. n + 1
  BY <1>1
<1>5. n + 1 \in 1 .. n + 1
  BY <1>1
<1>6. ~Escaped(t, n + 1)
  BY <1>2, <1>5, Zenon
<1> HIDE DEF t, n
<1>7. Len(t) > 1 /\ t[1] = Quote /\ Last(t) = Quote
  BY <1>1, <1>3 DEF Last
<1>8. ASSUME NEW i \in 2 .. Len(t)
      PROVE  (t[i] = Quote /\ ~Escaped(t, i)) = (i = Len(t))
  <2>1. CASE i = n + 1
    BY <1>1, <1>6, <2>1
  <2>2. CASE i # n + 1
    <3>1. i \in 2 .. n /\ i \in 1 .. n /\ i \in 1 .. n + 1 /\ i # Len(t)
      BY <1>1, <2>2
    <3>2. t[i] = s[i]
      BY <1>1, <3>1
    <3>3. t[i] = Quote => Escaped(t, i)
      BY <1>2, <1>3, <3>1, <3>2, Zenon
    <3> QED BY <3>1, <3>3, Zenon
  <2> QED BY <2>1, <2>2
<1>9. \A i \in DOMAIN t : t[i] \notin Control
  <2>1. \A i \in 1 .. n + 1 : i \in 1 .. n \/ i = n + 1
    BY <1>1
  <2> QED BY <1>1, <1>3, <1>4, <2>1, Quotation
<1>10. IsString(t)
  BY <1>7, <1>8, <1>9, Zenon DEF IsString
<1> QED BY <1>10 DEF t

\* An escaping backslash is not held, and neither are the quotes around the string.
LEMMA CountGrows ==
  ASSUME NEW s \in Seq(Characters), NEW c \in Characters, NEW held \in Nat, NEW n \in Nat,
         Counted(s, held, n)
  PROVE  /\ c = "\\" /\ ~Escaped(s, Len(s) + 1) => Counted(Append(s, c), held, n)
         /\ ~(c = "\\" /\ ~Escaped(s, Len(s) + 1)) =>
              Counted(Append(s, c), held + 1, n) /\ Counted(Append(s, c), held, n + 1)
<1> DEFINE t == Append(s, c)
<1>1. Len(t) = Len(s) + 1 /\ Len(s) \in Nat /\ ToSet(t) = ToSet(s) \cup {c}
  BY CharacterAdded, CharactersGrow
<1>2. Cardinality(Escaping(s)) \in Nat
  BY EscapingGrows
<1>3. "u" \notin ToSet(t) => held = Len(s) - n - Cardinality(Escaping(s))
  BY <1>1 DEF Counted
<1>4. CASE c = "\\" /\ ~Escaped(s, Len(s) + 1)
  <2>1. Cardinality(Escaping(t)) = Cardinality(Escaping(s)) + 1
    BY <1>4, EscapingGrows
  <2> HIDE DEF t
  <2>2. "u" \notin ToSet(t) => held = Len(t) - n - Cardinality(Escaping(t))
    BY <1>1, <1>2, <1>3, <2>1
  <2>3. Counted(t, held, n)
    BY <2>2 DEF Counted
  <2> QED BY <1>4, <2>3 DEF t
<1>5. CASE ~(c = "\\" /\ ~Escaped(s, Len(s) + 1))
  <2>1. Cardinality(Escaping(t)) = Cardinality(Escaping(s))
    BY <1>5, EscapingGrows
  <2> HIDE DEF t
  <2>2. "u" \notin ToSet(t) =>
          /\ held + 1 = Len(t) - n - Cardinality(Escaping(t))
          /\ held = Len(t) - (n + 1) - Cardinality(Escaping(t))
    BY <1>1, <1>2, <1>3, <2>1
  <2>3. Counted(t, held + 1, n) /\ Counted(t, held, n + 1)
    BY <2>2 DEF Counted
  <2> QED BY <1>5, <2>3 DEF t
<1> QED BY <1>4, <1>5

\* The quotes that begin a string: one, two that are an empty one, or three.
LEMMA QuotesKeep ==
  ASSUME ScanInv, NEW c \in Characters, StringState(c),
         lexState \in {"S_STRING_CHECK_0", "S_STRING_CHECK_1", "S_STRING_CHECK_2"}
  PROVE  ScanInv'
<1> DEFINE t == Append(text, c)
           n == Len(text)
<1>1. text \in Seq(Characters) /\ string \in Nat
  BY StateRead
<1>2. /\ t \in Seq(Characters) /\ Len(t) = n + 1 /\ t[n + 1] = c /\ n \in Nat
      /\ \A i \in 1 .. n : t[i] = text[i]
  BY <1>1, CharacterAdded
<1>3. \A m \in 1 .. 3 : Quotes(text, m) /\ c = Quote => Quotes(t, m + 1)
  <2> SUFFICES ASSUME NEW m \in 1 .. 3, Quotes(text, m), c = Quote
               PROVE  Quotes(t, m + 1)
    OBVIOUS
  <2> HIDE DEF t
  <2>1. n = m /\ \A i \in 1 .. m : text[i] = Quote
    BY DEF Quotes
  <2>2. \A i \in 1 .. m + 1 : i \in 1 .. m \/ i = m + 1
    OBVIOUS
  <2> QED BY <1>2, <2>1, <2>2 DEF Quotes
<1> HIDE DEF t
<1>4. CASE lexState = "S_STRING_CHECK_0"
  <2>1. Quotes(text, 1) /\ string = 0 /\ token = "L_EMPTY"
    BY <1>4, StateRead DEF ReadsString
  <2>2. \/ c = Quote /\ Takes(c, "S_STRING_CHECK_1", 0)
        \/ PushesBack(c, "S_STRING")
    BY <1>4 DEF StringState
  <2>3. CASE c = Quote /\ Takes(c, "S_STRING_CHECK_1", 0)
    <3>1. Quotes(t, 2) /\ string + 0 = 0
      BY <1>3, <2>1, <2>3
    <3>2. ReadsWord("S_STRING_CHECK_1", t, AfterReading(c))
      BY DEF ReadsWord
    <3>3. ReadsString("S_STRING_CHECK_1", t, 0, token)
      BY <2>1, <3>1 DEF ReadsString, Blank, Lines, Escapes
    <3> QED BY <2>3, <3>1, <3>2, <3>3, TakesOn DEF t
  <2>4. CASE PushesBack(c, "S_STRING")
    <3>1. n = 1
      BY <2>1 DEF Quotes
    <3>2. OpenString(text) /\ ~Escaped(text, n + 1) /\ Counted(text, 0, 1)
      BY <1>1, <2>1, <3>1, QuotesAre
    <3>3. ReadsWord("S_STRING", text, c)
      BY DEF ReadsWord
    <3>4. ReadsString("S_STRING", text, string, token)
      BY <2>1, <3>2 DEF ReadsString, Blank, Lines, Escapes
    <3> QED BY <2>4, <3>3, <3>4, PushesOn
  <2> QED BY <2>2, <2>3, <2>4
<1>5. CASE lexState = "S_STRING_CHECK_1"
  <2>1. Quotes(text, 2) /\ string = 0 /\ token = "L_EMPTY"
    BY <1>5, StateRead DEF ReadsString
  <2>2. \/ c = Quote /\ Takes(c, "S_STRING_CHECK_2", 0)
        \/ Builds("L_STRING", c, FALSE)
    BY <1>5 DEF StringState
  <2>3. CASE c = Quote /\ Takes(c, "S_STRING_CHECK_2", 0)
    <3>1. Quotes(t, 3) /\ string + 0 = 0
      BY <1>3, <2>1, <2>3
    <3>2. ReadsWord("S_STRING_CHECK_2", t, AfterReading(c))
      BY DEF ReadsWord
    <3>3. ReadsString("S_STRING_CHECK_2", t, 0, token)
      BY <2>1, <3>1 DEF ReadsString, Blank, Lines, Escapes
    <3> QED BY <2>3, <3>1, <3>2, <3>3, TakesOn DEF t
  <2>4. CASE Builds("L_STRING", c, FALSE)
    <3>1. IsString(text) /\ Counted(text, string, 2)
      BY <1>1, <2>1, QuotesAre
    <3>2. IsLexeme("L_STRING", text, word)
      BY <3>1 DEF IsLexeme
    <3> QED BY <1>1, <2>4, <3>1, <3>2, StringAlone, BuiltWithout
  <2> QED BY <2>2, <2>3, <2>4
<1>6. CASE lexState = "S_STRING_CHECK_2"
  <2>1. Quotes(text, 3) /\ token = "L_EMPTY"
    BY <1>6, StateRead DEF ReadsString
  <2>2. \/ exitFree
        \/ /\ c = "NL" /\ lexState' = "S_STRING_PLUS" /\ token' = "L_STRING_PLUS"
           /\ text' = t /\ unread' = "" /\ string' = string
    BY <1>6 DEF StringState, t
  <2>3. CASE /\ c = "NL" /\ lexState' = "S_STRING_PLUS" /\ token' = "L_STRING_PLUS"
             /\ text' = t /\ unread' = "" /\ string' = string
    <3>1. n = 3 /\ text[1] = Quote /\ text[2] = Quote /\ text[3] = Quote
      BY <2>1 DEF Quotes
    <3>2. n + 1 = 4 /\ 1 \in 1 .. n /\ 2 \in 1 .. n /\ 3 \in 1 .. n
      BY <3>1
    <3>3. OpenLines(t)
      <4>1. c = "NL"
        BY <2>3
      <4> QED BY <1>2, <3>1, <3>2, <4>1 DEF OpenLines
    <3>4. ReadsWord("S_STRING_PLUS", t, "")
      BY DEF ReadsWord
    <3>5. ReadsString("S_STRING_PLUS", t, string, "L_STRING_PLUS")
      BY <3>3 DEF ReadsString, Blank, Lines, Escapes
    <3>6. LongestToken'
      BY <2>3 DEF LongestToken
    <3> QED BY <1>1, <1>2, <2>3, <3>4, <3>5, <3>6 DEF ScanInv
  <2> QED BY <2>2, <2>3, ExitsOn
<1> QED BY <1>4, <1>5, <1>6

\* A string on one line.
LEMMA LineKeeps ==
  ASSUME ScanInv, NEW c \in Characters, StringState(c),
         lexState \in {"S_STRING", "S_STRING_END"}
  PROVE  ScanInv'
<1> DEFINE t == Append(text, c)
           n == Len(text)
<1>1. text \in Seq(Characters) /\ string \in Nat
  BY StateRead
<1>2. /\ t \in Seq(Characters) /\ Len(t) = n + 1 /\ t[n + 1] = c /\ n \in Nat
  BY <1>1, CharacterAdded
<1>3. CASE lexState = "S_STRING"
  <2>1. /\ token # "L_STRING_PLUS" /\ OpenString(text) /\ ~Escaped(text, n + 1)
        /\ Counted(text, string, 1)
    BY <1>3, StateRead DEF ReadsString
  <2>2. Quote \notin Control /\ Quote # "\\" /\ "\\" \notin Control
    BY Quotation DEF Control
  <2>3. \/ exitFree
        \/ c \notin Control /\ c = Quote /\ Takes(c, "S_STRING_END", 0)
        \/ c \notin Control /\ c = "\\" /\ Takes(c, "S_STRING_ESC", 0)
        \/ c \notin Control /\ c # Quote /\ c # "\\" /\ Takes(c, "S_STRING", 1)
    BY <1>3, <2>2 DEF StringState
  <2>4. string + 0 = string
    BY <1>1
  <2>5. /\ c = "\\" => Escaped(t, n + 2) /\ Counted(t, string, 1)
        /\ c # "\\" => /\ ~Escaped(t, n + 2) /\ Counted(t, string + 1, 1)
                       /\ Counted(t, string, 2)
    <3>1. /\ c = "\\" => Counted(t, string, 1)
          /\ c # "\\" => Counted(t, string + 1, 1) /\ Counted(t, string, 1 + 1)
      BY <1>1, <2>1, CountGrows
    <3>2. (c = "\\") = Escaped(t, n + 2)
      BY <1>1, <2>1, EscapesNext
    <3>3. (c = "\\" => Escaped(t, n + 2)) /\ (c # "\\" => ~Escaped(t, n + 2))
      BY <3>2, Zenon
    <3>4. 1 + 1 = 2
      OBVIOUS
    <3> QED BY <3>1, <3>3, <3>4
  <2>6. c \notin Control /\ c # Quote => OpenString(t)
    BY <1>1, <2>1, OpenGrows
  <2>7. c = Quote => IsString(t)
    BY <1>1, <2>1, StringEnds
  <2>8. Len(t) + 1 = n + 2
    BY <1>2
  <2> HIDE DEF t
  <2>9. CASE c = Quote /\ Takes(c, "S_STRING_END", 0)
    <3>1. ReadsWord("S_STRING_END", t, AfterReading(c))
      BY DEF ReadsWord
    <3>2. ReadsString("S_STRING_END", t, string, token)
      BY <2>2, <2>5, <2>7, <2>9 DEF ReadsString, Blank, Lines, Escapes
    <3> QED BY <2>4, <2>9, <3>1, <3>2, TakesOn DEF t
  <2>10. CASE c \notin Control /\ c = "\\" /\ Takes(c, "S_STRING_ESC", 0)
    <3>1. ReadsWord("S_STRING_ESC", t, AfterReading(c))
      BY DEF ReadsWord
    <3>2. ReadsString("S_STRING_ESC", t, string, token)
      BY <2>1, <2>2, <2>5, <2>6, <2>8, <2>10 DEF ReadsString, Blank, Lines, Escapes
    <3> QED BY <2>4, <2>10, <3>1, <3>2, TakesOn DEF t
  <2>11. CASE /\ c \notin Control /\ c # Quote /\ c # "\\" /\ Takes(c, "S_STRING", 1)
    <3>1. ReadsWord("S_STRING", t, AfterReading(c))
      BY DEF ReadsWord
    <3>2. ReadsString("S_STRING", t, string + 1, token)
      BY <2>1, <2>5, <2>6, <2>8, <2>11 DEF ReadsString, Blank, Lines, Escapes
    <3> QED BY <2>11, <3>1, <3>2, TakesOn DEF t
  <2> QED BY <2>3, <2>9, <2>10, <2>11, ExitsOn
<1>4. CASE lexState = "S_STRING_END"
  <2>1. IsString(text) /\ Counted(text, string, 2)
    BY <1>4, StateRead DEF ReadsString
  <2>2. Builds("L_STRING", c, FALSE)
    BY <1>4 DEF StringState
  <2>3. IsLexeme("L_STRING", text, word)
    BY <2>1 DEF IsLexeme
  <2> QED BY <1>1, <2>1, <2>2, <2>3, StringAlone, BuiltWithout
<1> QED BY <1>3, <1>4

\* The three quotes and the new line that several lines began with are kept.
LEMMA LinesGrow ==
  ASSUME NEW s \in Seq(Characters), NEW c \in Characters, OpenLines(s)
  PROVE  OpenLines(Append(s, c))
<1> DEFINE t == Append(s, c)
<1>1. Len(t) = Len(s) + 1 /\ Len(s) \in Nat /\ \A i \in 1 .. Len(s) : t[i] = s[i]
  BY CharacterAdded
<1> HIDE DEF t
<1>2. Len(s) >= 4 /\ s[1] = Quote /\ s[2] = Quote /\ s[3] = Quote /\ s[4] = "NL"
  BY DEF OpenLines
<1>3. 1 \in 1 .. Len(s) /\ 2 \in 1 .. Len(s) /\ 3 \in 1 .. Len(s) /\ 4 \in 1 .. Len(s)
  BY <1>1, <1>2
<1>4. Len(t) >= 4
  BY <1>1, <1>2
<1>5. OpenLines(t)
  BY <1>1, <1>2, <1>3, <1>4 DEF OpenLines
<1> QED BY <1>5 DEF t

\* Several lines end with a new line and three quotes.
LEMMA LinesEnd ==
  ASSUME NEW s \in Seq(Characters), OpenLines(s), Len(s) >= 8,
         s[Len(s) - 3] = "NL", s[Len(s) - 2] = Quote, s[Len(s) - 1] = Quote,
         s[Len(s)] = Quote
  PROVE  IsLines(s)
<1> DEFINE open == <<Quote, Quote, Quote, "NL">>
           n == Len(s)
           first == SubSeq(s, 1, 4)
           last == SubSeq(s, n - 3, n)
           close == Reverse(open)
<1>1. n \in Nat /\ n >= 8
  OBVIOUS
<1>2. /\ open \in Seq(Characters) /\ Len(open) = 4
      /\ open[1] = Quote /\ open[2] = Quote /\ open[3] = Quote /\ open[4] = "NL"
  <2>1. Quote \in Characters /\ "NL" \in Characters
    BY Quotation DEF Characters
  <2> QED BY <2>1
<1> HIDE DEF open
<1>3. /\ close \in Seq(Characters) /\ Len(close) = 4
      /\ close[1] = "NL" /\ close[2] = Quote /\ close[3] = Quote /\ close[4] = Quote
  BY <1>2 DEF Reverse
<1>4. /\ first \in Seq(Characters) /\ Len(first) = 4
      /\ \A i \in 1 .. 4 : first[i] = s[i]
  <2>1. 4 \in 0 .. n
    BY <1>1
  <2> QED BY <2>1, PrefixIs
<1>5. /\ last \in Seq(Characters) /\ Len(last) = 4
      /\ \A i \in 1 .. 4 : last[i] = s[(n - 3) + i - 1]
  <2>1. \A i \in n - 3 .. n : s[i] \in Characters
    BY <1>1
  <2>2. n - 3 \in Int /\ n \in Int /\ n - 3 <= n /\ n - (n - 3) + 1 = 4
    BY <1>1
  <2> QED BY <2>1, <2>2, SubSeqProperties
<1>6. s[1] = Quote /\ s[2] = Quote /\ s[3] = Quote /\ s[4] = "NL"
  BY DEF OpenLines
<1>7. \A i \in 1 .. 4 : i = 1 \/ i = 2 \/ i = 3 \/ i = 4
  OBVIOUS
<1>8. last[1] = "NL" /\ last[2] = Quote /\ last[3] = Quote /\ last[4] = Quote
  <2>1. /\ (n - 3) + 1 - 1 = n - 3 /\ (n - 3) + 2 - 1 = n - 2
        /\ (n - 3) + 3 - 1 = n - 1 /\ (n - 3) + 4 - 1 = n
    BY <1>1
  <2>2. 1 \in 1 .. 4 /\ 2 \in 1 .. 4 /\ 3 \in 1 .. 4 /\ 4 \in 1 .. 4
    OBVIOUS
  <2> HIDE DEF last
  <2> QED BY <1>5, <2>1, <2>2
<1> HIDE DEF first, last, close, n
<1>9. first = open
  <2>1. \A i \in 1 .. 4 : first[i] = open[i]
    BY <1>2, <1>4, <1>6, <1>7
  <2> QED BY <1>2, <1>4, <2>1, SeqEqual
<1>10. last = close
  <2>1. \A i \in 1 .. 4 : last[i] = close[i]
    BY <1>3, <1>7, <1>8
  <2> QED BY <1>3, <1>5, <2>1, SeqEqual
<1>11. n > 7
  BY <1>1
<1> QED BY <1>9, <1>10, <1>11 DEF IsLines, first, last, close, open, n

\* A place two further on.
LEMMA TwoMore == \A n \in Nat : (n + 1) + 1 = n + 2
OBVIOUS

\* A string of several lines.
LEMMA LinesKeep ==
  ASSUME ScanInv, NEW c \in Characters, LinesState(c)
  PROVE  ScanInv'
<1> DEFINE t == Append(text, c)
           n == Len(text)
<1>1. text \in Seq(Characters) /\ string \in Nat
  BY StateRead
<1>2. /\ t \in Seq(Characters) /\ Len(t) = n + 1 /\ t[n + 1] = c /\ n \in Nat
      /\ \A i \in 1 .. n : t[i] = text[i]
  BY <1>1, CharacterAdded
<1>3. lexState \in Lines
  BY DEF LinesState, Lines
<1>4. token = "L_STRING_PLUS" /\ OpenLines(text)
  BY <1>3, StateRead DEF ReadsString
<1>5. OpenLines(t)
  BY <1>1, <1>4, LinesGrow
<1>6. n >= 4
  BY <1>4 DEF OpenLines
<1>7. ASSUME NEW k \in Nat, Takes(c, "S_STRING_PLUS", k) PROVE ScanInv'
  <2>1. ReadsWord("S_STRING_PLUS", t, AfterReading(c))
    BY DEF ReadsWord
  <2> HIDE DEF t
  <2>2. ReadsString("S_STRING_PLUS", t, string + k, token)
    BY <1>4, <1>5 DEF ReadsString, Blank, Lines, Escapes
  <2> QED BY <1>7, <2>1, <2>2, TakesOn DEF t
<1> HIDE DEF t
<1>8. CASE lexState = "S_STRING_PLUS"
  <2>1. \/ c = "NL" /\ Takes(c, "S_STRING_CHECKOUT_0", 0)
        \/ Takes(c, "S_STRING_ESC", 0)
        \/ exitFree
        \/ Takes(c, "S_STRING_PLUS", 1)
    BY <1>8 DEF LinesState
  <2>2. CASE c = "NL" /\ Takes(c, "S_STRING_CHECKOUT_0", 0)
    <3>1. Len(t) >= 5 /\ t[Len(t)] = "NL"
      BY <1>2, <1>6, <2>2
    <3>2. ReadsWord("S_STRING_CHECKOUT_0", t, AfterReading(c))
      BY DEF ReadsWord
    <3>3. ReadsString("S_STRING_CHECKOUT_0", t, string + 0, token)
      BY <1>4, <1>5, <3>1 DEF ReadsString, Blank, Lines, Escapes
    <3> QED BY <2>2, <3>2, <3>3, TakesOn DEF t
  <2>3. CASE Takes(c, "S_STRING_ESC", 0)
    <3>1. ReadsWord("S_STRING_ESC", t, AfterReading(c))
      BY DEF ReadsWord
    <3>2. ReadsString("S_STRING_ESC", t, string + 0, token)
      BY <1>4, <1>5 DEF ReadsString, Blank, Lines, Escapes
    <3> QED BY <2>3, <3>1, <3>2, TakesOn DEF t
  <2> QED BY <1>7, <2>1, <2>2, <2>3, ExitsOn
<1>9. CASE lexState = "S_STRING_CHECKOUT_0"
  <2>1. n >= 5 /\ text[n] = "NL"
    BY <1>9, StateRead DEF ReadsString
  <2>2. \/ c = Quote /\ Takes(c, "S_STRING_CHECKOUT_1", 0)
        \/ Takes(c, "S_STRING_PLUS", 2)
    BY <1>9 DEF LinesState
  <2>3. CASE c = Quote /\ Takes(c, "S_STRING_CHECKOUT_1", 0)
    <3>1. Len(t) >= 6 /\ Len(t) - 1 = n /\ t[n] = "NL" /\ t[Len(t)] = Quote
      BY <1>2, <2>1, <2>3
    <3>2. ReadsWord("S_STRING_CHECKOUT_1", t, AfterReading(c))
      BY DEF ReadsWord
    <3>3. ReadsString("S_STRING_CHECKOUT_1", t, string + 0, token)
      BY <1>4, <1>5, <3>1 DEF ReadsString, Blank, Lines, Escapes
    <3> QED BY <2>3, <3>2, <3>3, TakesOn DEF t
  <2> QED BY <1>7, <2>2, <2>3
<1>10. CASE lexState = "S_STRING_CHECKOUT_1"
  <2>1. n >= 6 /\ text[n - 1] = "NL" /\ text[n] = Quote
    BY <1>10, StateRead DEF ReadsString
  <2>2. \/ c = Quote /\ Takes(c, "S_STRING_CHECKOUT_2", 0)
        \/ Takes(c, "S_STRING_PLUS", 2)
    BY <1>10 DEF LinesState
  <2>3. CASE c = Quote /\ Takes(c, "S_STRING_CHECKOUT_2", 0)
    <3>1. /\ Len(t) >= 7 /\ Len(t) - 1 = n /\ Len(t) - 2 = n - 1
          /\ t[n - 1] = "NL" /\ t[n] = Quote /\ t[Len(t)] = Quote
      BY <1>2, <2>1, <2>3
    <3>2. ReadsWord("S_STRING_CHECKOUT_2", t, AfterReading(c))
      BY DEF ReadsWord
    <3>3. ReadsString("S_STRING_CHECKOUT_2", t, string + 0, token)
      BY <1>4, <1>5, <3>1 DEF ReadsString, Blank, Lines, Escapes
    <3> QED BY <2>3, <3>2, <3>3, TakesOn DEF t
  <2> QED BY <1>7, <2>2, <2>3
<1>11. CASE lexState = "S_STRING_CHECKOUT_2"
  <2>1. n >= 7 /\ text[n - 2] = "NL" /\ text[n - 1] = Quote /\ text[n] = Quote
    BY <1>11, StateRead DEF ReadsString
  <2>2. \/ c = Quote /\ Builds("L_STRING_PLUS", c, TRUE)
        \/ Takes(c, "S_STRING_PLUS", 3)
    BY <1>11 DEF LinesState
  <2>3. CASE c = Quote /\ Builds("L_STRING_PLUS", c, TRUE)
    <3>1. /\ Len(t) >= 8 /\ Len(t) - 3 = n - 2 /\ Len(t) - 2 = n - 1 /\ Len(t) - 1 = n
          /\ t[n - 2] = "NL" /\ t[n - 1] = Quote /\ t[n] = Quote /\ t[Len(t)] = Quote
      BY <1>2, <2>1, <2>3
    <3>2. IsLines(t)
      BY <1>2, <1>5, <3>1, LinesEnd
    <3>3. IsLexeme("L_STRING_PLUS", t, word)
      BY <3>2 DEF IsLexeme
    <3> QED BY <2>3, <3>3, BuiltWith DEF t
  <2> QED BY <1>7, <2>2, <2>3
<1>12. \/ lexState = "S_STRING_PLUS" \/ lexState = "S_STRING_CHECKOUT_0"
       \/ lexState = "S_STRING_CHECKOUT_1" \/ lexState = "S_STRING_CHECKOUT_2"
  BY DEF LinesState
<1> QED BY <1>8, <1>9, <1>10, <1>11, <1>12

\* Whatever an escape stands for, the string goes on behind it.
LEMMA EscapeEnds ==
  ASSUME ScanInv, NEW c \in Characters, lexState \in Escapes, Takes(c, InString, 1),
         lexState = "S_STRING_ESC" => c \in {"\\", Quote, "n"},
         lexState = "S_STRING_ESC" \/ (lexState = "S_HEX" /\ c = "}")
  PROVE  ScanInv'
<1> DEFINE t == Append(text, c)
           n == Len(text)
<1>1. text \in Seq(Characters) /\ string \in Nat
  BY StateRead
<1>2. /\ t \in Seq(Characters) /\ Len(t) = n + 1 /\ t[n + 1] = c /\ n \in Nat
  BY <1>1, CharacterAdded
<1>3. c \notin Control /\ c # "u" /\ (c = Quote => lexState = "S_STRING_ESC")
  BY Quotation DEF Control
<1>4. CASE token = "L_STRING_PLUS"
  <2>1. InString = "S_STRING_PLUS"
    BY <1>4 DEF InString
  <2>2. OpenLines(text)
    BY <1>4, StateRead DEF ReadsString
  <2>3. OpenLines(t)
    BY <1>1, <2>2, LinesGrow
  <2> HIDE DEF t
  <2>4. ReadsWord("S_STRING_PLUS", t, AfterReading(c))
    BY DEF ReadsWord
  <2>5. ReadsString("S_STRING_PLUS", t, string + 1, token)
    BY <1>4, <2>3 DEF ReadsString, Blank, Lines, Escapes
  <2> QED BY <2>1, <2>4, <2>5, TakesOn DEF t
<1>5. CASE token # "L_STRING_PLUS"
  <2>1. InString = "S_STRING"
    BY <1>5 DEF InString
  <2>2. OpenString(text) /\ Counted(text, string, 1)
    BY <1>5, StateRead DEF ReadsString
  <2>3. CASE lexState = "S_STRING_ESC"
    <3>1. Escaped(text, n + 1)
      BY <1>5, <2>3, StateRead DEF ReadsString
    <3>2. OpenString(t)
      BY <1>1, <1>3, <2>2, <3>1, OpenGrows
    <3>3. Counted(t, string + 1, 1)
      BY <1>1, <2>2, <3>1, CountGrows
    <3>4. ~Escaped(t, n + 2)
      BY <1>1, <3>1, EscapesNext
    <3>5. Len(t) + 1 = n + 2
      BY <1>2, TwoMore, Zenon
    <3> HIDE DEF t
    <3>6. ReadsWord("S_STRING", t, AfterReading(c))
      BY DEF ReadsWord
    <3>7. ReadsString("S_STRING", t, string + 1, token)
      BY <1>5, <3>2, <3>3, <3>4, <3>5 DEF ReadsString, Blank, Lines, Escapes
    <3> QED BY <2>1, <3>6, <3>7, TakesOn DEF t
  <2>4. CASE lexState = "S_HEX" /\ c = "}"
    <3>1. "u" \in ToSet(text)
      BY <2>4, StateRead DEF ReadsString
    <3>2. OpenString(t)
      BY <1>1, <1>3, <2>2, <2>4, OpenGrows
    <3>3. "u" \in ToSet(t)
      BY <1>1, <3>1, CharactersGrow
    <3>4. ~Escaped(t, n + 2)
      BY <1>1, <2>4, EscapesNext
    <3>5. Len(t) + 1 = n + 2
      BY <1>2, TwoMore, Zenon
    <3> HIDE DEF t
    <3>6. Counted(t, string + 1, 1)
      BY <3>3 DEF Counted
    <3>7. ReadsWord("S_STRING", t, AfterReading(c))
      BY DEF ReadsWord
    <3>8. ReadsString("S_STRING", t, string + 1, token)
      BY <1>5, <3>2, <3>4, <3>5, <3>6 DEF ReadsString, Blank, Lines, Escapes
    <3> QED BY <2>1, <3>7, <3>8, TakesOn DEF t
  <2> QED BY <2>3, <2>4
<1> QED BY <1>4, <1>5

\* The codes of characters: what is counted does not matter once there is one.
LEMMA CodeGoesOn ==
  ASSUME ScanInv, NEW c \in Characters, lexState \in Escapes,
         \/ lexState = "S_STRING_ESC" /\ c = "u"
         \/ lexState = "S_HEX_OPEN" /\ c = "{",
         NEW next \in {"S_HEX_OPEN", "S_HEX"}
  PROVE  ReadsString(next, Append(text, c), string, token)
<1> DEFINE t == Append(text, c)
           n == Len(text)
<1>1. text \in Seq(Characters) /\ string \in Nat
  BY StateRead
<1>2. /\ t \in Seq(Characters) /\ Len(t) = n + 1 /\ t[n + 1] = c /\ n \in Nat
  BY <1>1, CharacterAdded
<1>3. "u" \in ToSet(t)
  <2>1. "u" \in ToSet(text) \/ c = "u"
    BY StateRead DEF ReadsString
  <2> QED BY <1>1, <2>1, CharactersGrow
<1>4. t[Len(t)] # "\\"
  BY <1>2
<1>5. c \notin Control /\ c # Quote
  BY Quotation DEF Control
<1>6. token # "L_STRING_PLUS" => OpenString(t)
  <2>1. token # "L_STRING_PLUS" => OpenString(text)
    BY StateRead DEF ReadsString
  <2> QED BY <1>1, <1>5, <2>1, OpenGrows
<1>7. token = "L_STRING_PLUS" => OpenLines(t)
  <2>1. token = "L_STRING_PLUS" => OpenLines(text)
    BY StateRead DEF ReadsString
  <2> QED BY <1>1, <2>1, LinesGrow
<1>8. Counted(t, string, 1)
  BY <1>3 DEF Counted
<1> HIDE DEF t
<1>9. ReadsString(next, t, string, token)
  BY <1>3, <1>4, <1>6, <1>7, <1>8 DEF ReadsString, Blank, Lines, Escapes
<1> QED BY <1>9 DEF t

\* Escapes, in a string of one line or of several.
LEMMA EscapeKeeps ==
  ASSUME ScanInv, NEW c \in Characters, EscapeState(c)
  PROVE  ScanInv'
<1> DEFINE t == Append(text, c)
<1>1. text \in Seq(Characters) /\ string \in Nat
  BY StateRead
<1>2. t \in Seq(Characters)
  BY <1>1, CharacterAdded
<1>3. lexState \in Escapes
  BY DEF EscapeState, Escapes
<1>4. \/ lexState = "S_STRING_ESC" /\ c \in {"\\", Quote, "n"} /\ Takes(c, InString, 1)
      \/ lexState = "S_STRING_ESC" /\ c = "u" /\ Takes(c, "S_HEX_OPEN", 0)
      \/ exitFree
      \/ /\ lexState = "S_HEX_OPEN" /\ c = "{" /\ lexState' = "S_HEX" /\ text' = t
         /\ unread' = "" /\ token' = token /\ string' = string
      \/ /\ lexState = "S_HEX" /\ lexState' = "S_HEX" /\ text' = text
         /\ unread' = "" /\ token' = token /\ string' = string
      \/ lexState = "S_HEX" /\ c = "}" /\ Takes(c, InString, 1)
  BY Zenon DEF EscapeState
<1>5. CASE lexState = "S_STRING_ESC" /\ c \in {"\\", Quote, "n"} /\ Takes(c, InString, 1)
  BY <1>3, <1>5, EscapeEnds
<1>6. CASE lexState = "S_STRING_ESC" /\ c = "u" /\ Takes(c, "S_HEX_OPEN", 0)
  <2>1. ReadsString("S_HEX_OPEN", t, string, token)
    BY <1>3, <1>6, CodeGoesOn
  <2>2. ReadsWord("S_HEX_OPEN", t, AfterReading(c))
    BY DEF ReadsWord
  <2>3. string + 0 = string
    BY <1>1
  <2> QED BY <1>6, <2>1, <2>2, <2>3, TakesOn
<1>7. CASE exitFree
  BY <1>7, ExitsOn
<1>8. CASE /\ lexState = "S_HEX_OPEN" /\ c = "{" /\ lexState' = "S_HEX" /\ text' = t
           /\ unread' = "" /\ token' = token /\ string' = string
  <2>1. ReadsString("S_HEX", t, string, token)
    BY <1>3, <1>8, CodeGoesOn
  <2> HIDE DEF t
  <2>2. ReadsWord("S_HEX", t, "")
    BY DEF ReadsWord
  <2>3. LongestToken'
    BY <1>8 DEF LongestToken
  <2> QED BY <1>1, <1>2, <1>8, <2>1, <2>2, <2>3 DEF ScanInv
<1>9. CASE /\ lexState = "S_HEX" /\ lexState' = "S_HEX" /\ text' = text
           /\ unread' = "" /\ token' = token /\ string' = string
  <2>1. ReadsString("S_HEX", text, string, token)
    BY <1>9, StateRead
  <2>2. ReadsWord("S_HEX", text, "")
    BY DEF ReadsWord
  <2>3. LongestToken'
    BY <1>9 DEF LongestToken
  <2> QED BY <1>1, <1>9, <2>1, <2>2, <2>3 DEF ScanInv
<1>10. CASE lexState = "S_HEX" /\ c = "}" /\ Takes(c, InString, 1)
  BY <1>3, <1>10, EscapeEnds
<1> QED BY <1>4, <1>5, <1>6, <1>7, <1>8, <1>9, <1>10

\* Comments, of which nothing is kept, and the division that begins as they do.
LEMMA CommentKeeps ==
  ASSUME ScanInv, NEW c \in Characters, CommentState(c)
  PROVE  ScanInv'
<1>1. text \in Seq(Characters)
  BY StateRead
<1>2. lexState \in Blank \cup {"S_DIVIDE"}
  BY DEF CommentState, Blank
<1>3. string = 0 /\ token = "L_EMPTY"
  BY <1>2, StateRead DEF ReadsString
<1>4. \/ \E next \in Blank : Skips(c, next)
      \/ exitFree
      \/ lexState = "S_DIVIDE" /\ c \notin {"/", "*"} /\ Builds("L_OPERATOR", c, FALSE)
  BY DEF CommentState, Blank
<1>5. CASE \E next \in Blank : Skips(c, next)
  <2>1. PICK next \in Blank : Skips(c, next)
    BY <1>5
  <2>2. next # "S_EOF"
    BY DEF Blank
  <2> QED BY <1>3, <2>1, <2>2, SkipsOn
<1>6. CASE lexState = "S_DIVIDE" /\ c \notin {"/", "*"} /\ Builds("L_OPERATOR", c, FALSE)
  <2>1. Len(text) = 1 /\ text[1] = "/"
    BY <1>6, StateRead DEF ReadsString
  <2>2. "/" \notin DOMAIN Second
    BY DEF Second
  <2>3. IsLexeme("L_OPERATOR", text, word)
    BY <2>1 DEF IsLexeme, IsOperator
  <2>4. Alone(text, c, word)
    BY <1>1, <2>1, <2>2, OperatorAlone
  <2> QED BY <1>6, <2>3, <2>4, BuiltWithout
<1> QED BY <1>4, <1>5, <1>6, ExitsOn

\* The next token is begun from nothing.
LEMMA NextKeeps ==
  ASSUME ScanInv, NextToken
  PROVE  ScanInv'
<1> DEFINE none == <<>>
<1>1. /\ lexState' = "S_START" /\ token' = "L_EMPTY" /\ text' = none
      /\ string' = 0 /\ unread' = unread
  BY DEF NextToken
<1>2. none \in Seq(Characters) /\ Len(none) = 0
  OBVIOUS
<1> HIDE DEF none
<1>3. ReadsWord("S_START", none, unread)
  BY DEF ReadsWord
<1>4. ReadsString("S_START", none, 0, "L_EMPTY")
  BY <1>2 DEF ReadsString, Blank, Lines, Escapes
<1>5. LongestToken'
  BY <1>1 DEF LongestToken
<1> QED BY <1>1, <1>2, <1>3, <1>4, <1>5 DEF ScanInv

\* At the beginning nothing has been read.
LEMMA ScanInitial == scanner_init => ScanInv
<1> SUFFICES ASSUME scanner_init PROVE ScanInv
  OBVIOUS
<1>1. /\ lexState = "S_START" /\ token = "L_EMPTY" /\ text = <<>> /\ string = 0
      /\ unread = ""
  BY DEF scanner_init
<1>2. text \in Seq(Characters) /\ Len(text) = 0
  <2>1. <<>> \in Seq(Characters) /\ Len(<<>>) = 0
    OBVIOUS
  <2> QED BY <1>1, <2>1, Zenon
<1>3. ReadsWord(lexState, text, unread)
  BY <1>1 DEF ReadsWord
<1>4. ReadsString(lexState, text, string, token)
  BY <1>1, <1>2 DEF ReadsString, Blank, Lines, Escapes
<1>5. LongestToken
  BY <1>1 DEF LongestToken
<1> QED BY <1>1, <1>2, <1>3, <1>4, <1>5 DEF ScanInv

\* Every state of the automaton.
LEMMA ScanStep == ScanInv /\ [getToken]_scanVars => ScanInv'
<1> SUFFICES ASSUME ScanInv, [getToken]_scanVars PROVE ScanInv'
  OBVIOUS
<1>1. ASSUME NEW c \in Characters, getc(c),
             \/ StartState(c) \/ OperatorState(c) \/ EndState(c) \/ NameState(c)
             \/ NumberState(c) \/ StringState(c) \/ LinesState(c) \/ EscapeState(c)
             \/ CommentState(c)
      PROVE  ScanInv'
  <2>1. CASE NumberState(c)
    <3>1. lexState \in {"S_INT", "S_DOUBLE", "S_DOUBLE_1", "S_EXP_DOUBLE", "S_EXP_DOUBLE_1",
                        "S_EXP_DOUBLE_2"}
      BY <2>1 DEF NumberState
    <3> QED BY <1>1, <2>1, <3>1, IntegerKeeps, ExponentKeeps
  <2>2. CASE StringState(c)
    <3>1. lexState \in {"S_STRING_CHECK_0", "S_STRING_CHECK_1", "S_STRING_CHECK_2",
                        "S_STRING", "S_STRING_END"}
      BY <2>2 DEF StringState
    <3> QED BY <1>1, <2>2, <3>1, QuotesKeep, LineKeeps
  <2> QED BY <1>1, <2>1, <2>2, StartKeeps, OperatorKeeps, EndKeeps, NameKeeps, LinesKeep,
             EscapeKeeps, CommentKeeps
<1>2. CASE UNCHANGED scanVars
  <2>1. /\ lexState' = lexState /\ token' = token /\ text' = text /\ word' = word
        /\ string' = string /\ unread' = unread
    BY <1>2 DEF scanVars
  <2>2. LongestToken'
    <3>1. LongestToken
      BY DEF ScanInv
    <3> QED BY <2>1, <3>1 DEF LongestToken
  <2> QED BY <2>1, <2>2 DEF ScanInv
<1> QED BY <1>1, <1>2, NextKeeps DEF getToken

\* Each token that getToken builds is the longest one that the text begins with, the
\* character behind it is left to the next call, and a string holds as many characters
\* as its escapes stand for: for names, numbers and strings of any length, and whatever
\* was read before.
THEOREM TokensAreLongest == scannerSpec => []LongestToken
<1>1. ScanInv => LongestToken
  BY DEF ScanInv
<1> QED BY <1>1, ScanInitial, ScanStep, PTL DEF scannerSpec
=============================================================================
