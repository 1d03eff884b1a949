------------------------------ MODULE ExprField ------------------------------
(***************************************************************************)
(* The address field with the debugger's parser in it (Parse <- parse,     *)
(* Evaluate <- evaluate).  What the parser makes of a text is compared     *)
(* with what the text means, and the meaning is defined here without a     *)
(* definition of ExprParser's lexer or parser: a lexical grammar (the      *)
(* longest lexeme counts, a numeral has a form and a place value) and an   *)
(* expression grammar (the table of operators of C).  Through the field    *)
(* both meet every text a user can type.                                   *)
(***************************************************************************)
EXTENDS AddressField, ExprParser

LOCAL INSTANCE TLC
LOCAL INSTANCE FiniteSetsExt
LOCAL INSTANCE SequencesExt

-----------------------------------------------------------------------------
(* The lexical grammar.                                                    *)

Marks == {" ", ",", "@", "(", ")", "[", "]", "?", ":", "+", "-", "*", "/",
          "%", "^", "~", "&", "|", "=", "!", "<", ">", "$", "#"}

\* The operators of two characters and how they are written.
Written == "&&" :> <<"&", "&">> @@ "||" :> <<"|", "|">> @@ "==" :> <<"=", "=">>
        @@ "!=" :> <<"!", "=">> @@ "<=" :> <<"<", "=">> @@ ">=" :> <<">", "=">>
        @@ "<<" :> <<"<", "<">> @@ ">>" :> <<">", ">">>

IsWord(w) == w # <<>> /\ \A i \in DOMAIN w : w[i] \notin Marks

IsHashWord(w) == Len(w) > 1 /\ w[1] \in {"$", "#"} /\ IsWord(Tail(w))

IsLexeme(w) ==
    \/ IsWord(w) \/ IsHashWord(w)
    \/ Len(w) = 1 /\ w[1] \in Marks
    \/ \E op \in DOMAIN Written : w = Written[op]

\* The pieces a text is cut into: each is the longest lexeme where it starts.
RECURSIVE Pieces(_)
Pieces(text) ==
    IF text = <<>> THEN <<>>
    ELSE LET n == Max({k \in DOMAIN text : IsLexeme(SubSeq(text, 1, k))})
         IN  <<SubSeq(text, 1, n)>> \o Pieces(SubSeq(text, n + 1, Len(text)))

Worth == "0" :> 0 @@ "1" :> 1 @@ "2" :> 2 @@ "3" :> 3 @@ "4" :> 4 @@ "5" :> 5
      @@ "6" :> 6 @@ "7" :> 7 @@ "8" :> 8 @@ "9" :> 9 @@ "a" :> 10 @@ "b" :> 11
      @@ "c" :> 12 @@ "d" :> 13 @@ "e" :> 14 @@ "f" :> 15

BaseOf == "x" :> 16 @@ "b" :> 2 @@ "o" :> 8

IsNumeral(w) ==
    \/ IsHashWord(w)
    \/ IsWord(w) /\ w[1] \in DOMAIN Worth /\ Worth[w[1]] < 10

\* The base of a numeral and where its digits are: 0x, 0b and 0o say the base,
\* $ and # say hexadecimal, and so does an h at the end.  A plain numeral is
\* decimal, unless it ends the text: then it is hexadecimal, which is what the
\* code does and the parser's tests deny (tests/test.cpp:157, 261, 280).
NumeralForm(w, last) ==
    LET n == Len(w)
        H == IF w[n] = "h" THEN n - 1 ELSE n
    IN  CASE IsHashWord(w) -> <<16, 2, H>>
          [] n > 1 /\ w[1] = "0" /\ w[2] \in DOMAIN BaseOf ->
                <<BaseOf[w[2]], 3, IF w[2] = "x" THEN H ELSE n>>
          [] OTHER -> <<IF w[n] = "h" \/ last THEN 16 ELSE 10, 1, H>>

\* The value of digits by their places, in two's complement.
PlaceValue(digits, base) ==
    LET n == Len(digits)
        u == MapThenSumSet(LAMBDA i : Worth[digits[i]] * base ^ (n - i), 1 .. n) % 2 ^ Width
    IN  IF u < 2 ^ (Width - 1) THEN u ELSE u - 2 ^ Width

\* The tokens a piece can stand for: one, or none if it is a bad numeral.
TokensOf(w, last) ==
    IF IsNumeral(w) THEN
        LET form == NumeralForm(w, last)
            digits == SubSeq(w, form[2], form[3])
        IN  {[id |-> "number", number |-> PlaceValue(d, form[1])] :
                d \in {x \in {digits} : x # <<>> /\ \A i \in DOMAIN x :
                           x[i] \in DOMAIN Worth /\ Worth[x[i]] < form[1]}}
    ELSE IF IsWord(w) THEN {[id |-> "ident", text |-> w]}
    ELSE IF Len(w) = 1 THEN {[id |-> w[1]]}
    ELSE {[id |-> op] : op \in {x \in DOMAIN Written : Written[x] = w}}

\* The readings of a text: the sequences of tokens its pieces stand for.
Readings(text) ==
    LET pieces == Pieces(text)
        last == Len(pieces)
        words == {i \in 1 .. last : pieces[i] # <<" ">>}
        at == SetToSortSeq(words, <)
        Tokens(k) == TokensOf(pieces[at[k]], at[k] = last)
    IN  IF \E k \in DOMAIN at : Tokens(k) = {} THEN {}
        ELSE {[k \in DOMAIN at |-> CHOOSE t \in Tokens(k) : TRUE]}

-----------------------------------------------------------------------------
(* The grammar: the trees of exactly these tokens.                         *)

\* The binary operators of C as its table of precedence lists them, the
\* tightest first; a plain = compares.
Precedence == << {"*", "/", "%"}, {"+", "-"}, {"<<", ">>"}, {"<", "<=", ">", ">="},
                 {"=", "==", "!="}, {"&"}, {"^"}, {"|"}, {"&&"}, {"||"} >>
Conditional == Len(Precedence) + 1
Sign == {"-", "!", "~"}

Sub(ts, i, j) == SubSeq(ts, i, j)

RECURSIVE Trees(_, _)

Primaries(ts) ==
    LET n == Len(ts)
        Inside(from, open, close) ==
            IF n > from /\ ts[from].id = open /\ ts[n].id = close
            THEN Trees(Conditional, Sub(ts, from + 1, n - 1)) ELSE {}
        Sizes == IF n > 2 /\ ts[1].id = "ident" /\ ts[2].id = "@" /\ Len(ts[1].text) = 1
                 THEN {"b", "w", "d"} \cap {ts[1].text[1]} ELSE {}
    IN  {<<"number", ts[1].number>> : i \in {x \in {1} : n = 1 /\ ts[x].id = "number"}}
        \cup {<<"pc">> : i \in {x \in {1} : n = 1 /\ ts[x].id = "$"}}
        \cup Inside(1, "(", ")")
        \cup {<<"mem", "b", e>> : e \in Inside(1, "[", "]")}
        \cup {<<"mem", s, e>> : s \in Sizes, e \in Inside(3, "[", "]")}

\* Strength 0 is a sign or what needs none, strength k a row of the table.
Trees(k, ts) ==
    LET n == Len(ts)
        Tighter == Trees(k - 1, ts)
    IN  IF n = 0 THEN {}
        ELSE IF k = 0 THEN
            Primaries(ts) \cup (IF ts[1].id \notin Sign THEN {}
                                ELSE {<<ts[1].id, e>> : e \in Trees(0, Tail(ts))})
        ELSE IF k < Conditional THEN
            Tighter \cup UNION {
                {<<ts[o].id, a, b>> : a \in Trees(k, Sub(ts, 1, o - 1)),
                                      b \in Trees(k - 1, Sub(ts, o + 1, n))} :
                o \in {i \in 1 .. n : ts[i].id \in Precedence[k]}}
        ELSE
            Tighter \cup UNION {
                {<<"?", c, t, f>> : c \in Trees(k - 1, Sub(ts, 1, q - 1)),
                                    t \in Trees(k, Sub(ts, q + 1, o - 1)),
                                    f \in Trees(k, Sub(ts, o + 1, n))} :
                <<q, o>> \in {p \in (1 .. n) \X (1 .. n) :
                    p[1] < p[2] /\ ts[p[1]].id = "?" /\ ts[p[2]].id = ":"}}

\* The trees the two grammars give a text.
Meanings(text) == UNION {Trees(Conditional, ts) : ts \in Readings(text)}

-----------------------------------------------------------------------------
\* The tree the field holds is the one meaning of the text that stands in it:
\* the text is cut where the lexical grammar cuts it, each numeral has the
\* base its form says and its value by places, the operators bind and
\* associate as in C, no text has two meanings, and a text without a meaning
\* leaves no tree, the one of the text before it neither.
TreeIsTheMeaning ==
    Meanings(strVal) = IF parsedExpr = NoExpr THEN {} ELSE {parsedExpr}
=============================================================================
