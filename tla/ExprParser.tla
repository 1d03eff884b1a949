----------------------------- MODULE ExprParser -----------------------------
(***************************************************************************)
(* The expression parser of the debugger (libs/exprParser) with the        *)
(* resolver and the evaluator the debugger plugs into it (exprValue.cpp).  *)
(* A text is a sequence of one-character strings.  Lex turns it into       *)
(* tokens, Parse is the recursive descent over them and Outcome walks the  *)
(* tree.  Every ExprError is one outcome: the text of the message is left  *)
(* out, and so is the allocation of tokens and nodes.                      *)
(***************************************************************************)
EXTENDS Integers, Sequences

LOCAL INSTANCE SequencesExt
LOCAL INSTANCE FiniteSetsExt
Bits == INSTANCE Bitwise

CONSTANT Width        \* bits of an ExprValue (32 in the code)

ASSUME WidthAssumption == Width \in Nat /\ Width >= 4

(* ------------------------------- the lexer ----------------------------- *)

Digit == {"0", "1", "2", "3", "4", "5", "6", "7", "8", "9"}
HexDigit == Digit \cup {"a", "b", "c", "d", "e", "f"}
Letter == {"a", "b", "c", "d", "e", "f", "h", "o", "w", "x", "z"}
Ident == Digit \cup Letter \cup {"_", "."}

hexValue(c) ==
    CHOOSE n \in 0 .. 15 :
        c = <<"0", "1", "2", "3", "4", "5", "6", "7", "8", "9",
              "a", "b", "c", "d", "e", "f">>[n + 1]

\* int arithmetic: a result is folded into the signed range of the word.
Wrap(n) == ((n + 2 ^ (Width - 1)) % 2 ^ Width) - 2 ^ (Width - 1)

\* Faulty: the loop of the decimal numbers stands in all of them.
NumeralInTens(s, base) == FoldLeft(LAMBDA v, c : Wrap(v * 10 + hexValue(c)), 0, s)

Numeral(s, base) == FoldLeft(LAMBDA v, c : Wrap(v * base + hexValue(c)), 0, s)

\* How many characters at the start of s are in the class C.
Run(s, C) == Max({n \in 0 .. Len(s) : \A i \in 1 .. n : s[i] \in C})

After(s, n) == SubSeq(s, n + 1, Len(s))
StartsWith(s, C) == s # <<>> /\ s[1] \in C

Number(v) == [id |-> "number", number |-> v]
Symbol(c) == [id |-> c]
LexError == [id |-> "error"]

\* One token and what is left of the text behind it.
Emit(t, rest) == [token |-> t, rest |-> rest]

\* The digits of a number: none is an error, an identifier character behind
\* them too.
Digits(s, C, base, Tail_h) ==
    LET n == Run(s, C)
        rest == After(s, n)
    IN  IF n > 0 /\ Tail_h /\ StartsWith(rest, {"h"})
        THEN Emit(Number(Numeral(SubSeq(s, 1, n), base)), Tail(rest))
        ELSE IF n = 0 \/ StartsWith(rest, Ident) THEN Emit(LexError, <<>>)
        ELSE Emit(Number(Numeral(SubSeq(s, 1, n), base)), rest)

\* "00A1h": hexadecimal digits up to an h, or up to the end of the text.
check_hex_with_tail_h(s) ==
    LET n == Run(s, HexDigit) IN n = Len(s) \/ s[n + 1] = "h"

Numeric(s) ==
    IF s[1] = "0" /\ StartsWith(Tail(s), {"x"}) THEN Digits(After(s, 2), HexDigit, 16, TRUE)
    ELSE IF s[1] = "0" /\ StartsWith(Tail(s), {"b"}) THEN Digits(After(s, 2), {"0", "1"}, 2, FALSE)
    ELSE IF s[1] = "0" /\ StartsWith(Tail(s), {"o"}) THEN Digits(After(s, 2), Digit \ {"8", "9"}, 8, FALSE)
    ELSE IF check_hex_with_tail_h(s) THEN Digits(s, HexDigit, 16, TRUE)
    ELSE Digits(s, Digit, 10, FALSE)

Word(s) ==
    LET n == Run(s, Ident) IN Emit([id |-> "ident", text |-> SubSeq(s, 1, n)], After(s, n))

\* Two characters that the lexer takes together, and the operator they are.
Pair == [p \in {"&&", "||", "==", "!=", "<=", "<<", ">=", ">>"} |->
            CASE p = "&&" -> <<"&", "&">> [] p = "||" -> <<"|", "|">>
              [] p = "==" -> <<"=", "=">> [] p = "!=" -> <<"!", "=">>
              [] p = "<=" -> <<"<", "=">> [] p = "<<" -> <<"<", "<">>
              [] p = ">=" -> <<">", "=">> [] p = ">>" -> <<">", ">">>]

\* Faulty: no look at the second character.
OperatorSplits(s) == Emit(Symbol(s[1]), Tail(s))

Operator(s) ==
    LET two == {p \in DOMAIN Pair : IsPrefix(Pair[p], s)}
    IN  IF two # {} THEN Emit(Symbol(CHOOSE p \in two : TRUE), After(s, 2))
        ELSE Emit(Symbol(s[1]), Tail(s))

exprToken(s) ==
    IF s[1] \in Digit THEN Numeric(s)
    ELSE IF s[1] \in Ident THEN Word(s)
    ELSE IF s[1] \in {"$", "#"} /\ StartsWith(Tail(s), HexDigit)
         THEN Digits(Tail(s), HexDigit, 16, TRUE)
    ELSE Operator(s)

\* The tokens of a text; the lexer throws at the first character it rejects.
RECURSIVE exprLexer(_)
exprLexer(s) ==
    IF s = <<>> THEN <<Symbol("end")>>
    ELSE IF s[1] = " " THEN exprLexer(Tail(s))
    ELSE LET t == exprToken(s)
         IN  IF t.token = LexError THEN <<LexError>>
             ELSE <<t.token>> \o exprLexer(t.rest)

(* ------------------------------- the parser ---------------------------- *)

NoTree == <<>>                      \* no expression: m_pParsedExpr is null

\* What a parse function returns: its tree and the tokens from curToken on.
Done(tree, rest) == [tree |-> tree, rest |-> rest]
Fail == Done(NoTree, <<>>)          \* an ExprError was thrown
Failed(r) == r.tree = NoTree

\* The levels of left-associative operators, the loosest first.
Binary == << {"||"}, {"&&"}, {"|"}, {"^"}, {"&"}, {"=", "==", "!="},
             {"<", "<=", ">", ">="}, {"<<", ">>"}, {"+", "-"}, {"*", "/", "%"} >>
UnaryLevel == Len(Binary) + 1
Unary == {"-", "!", "~"}

At(r, c) == r.rest[1].id = c

RECURSIVE Level(_, _)

\* expression up to the closing token, wrapped by the tree constructor Made
Enclosed(ts, close, Made(_)) ==
    LET e == Level(0, ts)
    IN  IF Failed(e) \/ ~At(e, close) THEN Fail ELSE Done(Made(e.tree), Tail(e.rest))

\* No name is a variable with a value and no name is a function for the
\* debugger's resolver: an identifier only serves as the size of an access.
primaryExpression(ts) ==
    LET t == ts[1]
        Sized(e) == IF t.text \in {<<"b">>, <<"w">>, <<"d">>}
                    THEN <<"mem", t.text[1], e>> ELSE NoTree
    IN  CASE t.id = "(" -> Enclosed(Tail(ts), ")", LAMBDA e : e)
          [] t.id = "[" -> Enclosed(Tail(ts), "]", LAMBDA e : <<"mem", "b", e>>)
          [] t.id = "$" -> Done(<<"pc">>, Tail(ts))
          [] t.id = "number" -> Done(<<"number", t.number>>, Tail(ts))
          [] t.id = "ident" ->
                IF ts[2].id = "@" /\ ts[3].id = "[" THEN Enclosed(After(ts, 3), "]", Sized)
                ELSE Fail
          [] OTHER -> Fail

RECURSIVE unaryExpression(_)
unaryExpression(ts) ==
    IF ts[1].id \notin Unary THEN primaryExpression(ts)
    ELSE LET r == unaryExpression(Tail(ts))
         IN  IF Failed(r) THEN Fail ELSE Done(<<ts[1].id, r.tree>>, r.rest)

\* Faulty: the operators of a level associate to the right.
LoopRight(level, left) ==
    IF Failed(left) \/ left.rest[1].id \notin Binary[level] THEN left
    ELSE LET right == Level(level, Tail(left.rest))
         IN  IF Failed(right) THEN Fail
             ELSE Done(<<left.rest[1].id, left.tree, right.tree>>, right.rest)

\* The loop of a binary level: left grows while an operator of it follows.
RECURSIVE Loop(_, _)
Loop(level, left) ==
    IF Failed(left) \/ left.rest[1].id \notin Binary[level] THEN left
    ELSE LET right == Level(level + 1, Tail(left.rest))
         IN  IF Failed(right) THEN Fail
             ELSE Loop(level, Done(<<left.rest[1].id, left.tree, right.tree>>, right.rest))

conditionalExpression(ts) ==
    LET c == Level(1, ts)
        t == Level(0, Tail(c.rest))
        f == Level(0, Tail(t.rest))
    IN  IF Failed(c) \/ ~At(c, "?") THEN c
        ELSE IF Failed(t) \/ ~At(t, ":") \/ Failed(f) THEN Fail
        ELSE Done(<<"?", c.tree, t.tree, f.tree>>, f.rest)

Level(level, ts) ==
    IF level = 0 THEN conditionalExpression(ts)
    ELSE IF level = UnaryLevel THEN unaryExpression(ts)
    ELSE Loop(level, Level(level + 1, ts))

\* Expr::parse: the whole text is one expression.
parse(text) ==
    LET ts == exprLexer(text)
        e == Level(0, ts)
    IN  IF ts[Len(ts)].id = "error" \/ Failed(e) \/ ~At(e, "end") THEN NoTree
        ELSE e.tree

(* ------------------------------ evaluation ----------------------------- *)

\* ExprError("division by zero."), or the trap of the processor on the one
\* quotient that does not fit.
Throws == <<>>
Value(n) == << Wrap(n) >>
Truth(b) == Value(IF b THEN 1 ELSE 0)
Unsigned(n) == n % 2 ^ Width

\* The memory the evaluator of the address fields shows (AmDbgEvaluator).
memory(size, a) ==
    CASE size = "b" -> Value((a + 16) % 2 ^ 8)
      [] size = "w" -> Value((a - 176) % 2 ^ 16)
      [] size = "d" -> Value(a * 4)

\* The processor takes a shift count modulo the width of the word.
Shift(c) == 2 ^ (c % Width)

\* C divides towards zero.
Quotient(a, b) ==
    LET q == (IF a < 0 THEN -a ELSE a) \div (IF b < 0 THEN -b ELSE b)
    IN  IF (a < 0) # (b < 0) THEN -q ELSE q

Divides(a, b) == b # 0 /\ Quotient(a, b) < 2 ^ (Width - 1)

Apply1(op, a) ==
    CASE op = "-" -> Value(-a)
      [] op = "!" -> Truth(a = 0)
      [] op = "~" -> Value(-a - 1)

Apply2(op, a, b) ==
    CASE op = "|" -> Value(Bits!|(Unsigned(a), Unsigned(b)))
      [] op = "^" -> Value(Bits!^^(Unsigned(a), Unsigned(b)))
      [] op = "&" -> Value(Bits!&(Unsigned(a), Unsigned(b)))
      [] op \in {"=", "=="} -> Truth(a = b)
      [] op = "!=" -> Truth(a # b)
      [] op = "<" -> Truth(a < b)
      [] op = "<=" -> Truth(a <= b)
      [] op = ">" -> Truth(a > b)
      [] op = ">=" -> Truth(a >= b)
      [] op = "<<" -> Value((Unsigned(a) % (2 ^ Width \div Shift(b))) * Shift(b))
      [] op = ">>" -> Value(Unsigned(a) \div Shift(b))
      [] op = "+" -> Value(a + b)
      [] op = "-" -> Value(a - b)
      [] op = "*" -> Value(a * b)
      [] op = "/" -> IF Divides(a, b) THEN Value(Quotient(a, b)) ELSE Throws
      [] op = "%" -> IF Divides(a, b) THEN Value(a - b * Quotient(a, b)) ELSE Throws

\* Expr::evaluate with pc 0: the value of the tree, or Throws.
RECURSIVE evaluate(_)
evaluate(tree) ==
    LET op == tree[1]
        Arg(i) == evaluate(tree[i + 1])
        IsTrue(r) == r # Throws /\ r[1] # 0
        Bool(r) == IF r = Throws THEN Throws ELSE Truth(IsTrue(r))
    IN  CASE op = "number" -> << tree[2] >>
          [] op = "pc" -> Value(0)
          [] op = "mem" -> LET a == Arg(2) IN IF a = Throws THEN Throws ELSE memory(tree[2], a[1])
          [] op = "?" -> LET c == Arg(1)
                         IN  IF c = Throws THEN Throws ELSE IF IsTrue(c) THEN Arg(2) ELSE Arg(3)
          [] op = "&&" -> IF IsTrue(Arg(1)) THEN Bool(Arg(2)) ELSE Bool(Arg(1))
          [] op = "||" -> LET l == Arg(1)
                          IN  IF l = Throws \/ IsTrue(l) THEN Bool(l) ELSE Bool(Arg(2))
          [] OTHER ->
               LET l == Arg(1)
                   r == Arg(2)
               IN  IF l = Throws THEN Throws
                   ELSE IF Len(tree) = 2 THEN Apply1(op, l[1])
                   ELSE IF r = Throws THEN Throws
                   ELSE Apply2(op, l[1], r[1])
=============================================================================
