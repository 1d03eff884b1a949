---------------------------- MODULE AddressField ----------------------------
(***************************************************************************)
(* The address field of a debugger window: an amD::ExprValStr behind an    *)
(* input line and the address the view is pinned to, as the Copper window  *)
(* keeps them (copper_wnd.cpp; the code and memory windows do the same).   *)
(*                                                                         *)
(* The parser and the evaluator behind the field are parameters: what the  *)
(* field promises, it promises with any.  ExprField puts in the parser of  *)
(* the debugger.                                                           *)
(***************************************************************************)
EXTENDS Integers, Sequences

CONSTANTS
    Alphabets,        \* the sets of characters a user picks the text from
    MaxText,          \* bound: the longest text
    Words,            \* how many values a word has (2^32 in the code)
    Parse(_),         \* Expr::parse: the tree of a text, or NoExpr
    Evaluate(_)       \* Expr::evaluate: <<value>>, or Exception

NoExpr == <<>>        \* m_pParsedExpr is null
Exception == <<>>     \* an ExprError was thrown

Texts == UNION {UNION {[1 .. n -> a] : n \in 0 .. MaxText} : a \in Alphabets}

\* The empty text is no expression, and the value of a tree is a number.
ASSUME FieldAssumption ==
    /\ MaxText \in Nat /\ Words \in Nat \ {0}
    /\ Parse(<<>>) = NoExpr
    /\ \A text \in Texts :
          LET r == Evaluate(Parse(text))
          IN  Parse(text) # NoExpr /\ r # Exception => r[1] \in Int

VARIABLES
    alphabet,         \* the characters of this behaviour
    strVal,           \* m_strVal
    parsedExpr,       \* m_pParsedExpr, or NoExpr
    viewBaseAddr,     \* m_viewBaseAddr: <<address>>, or <<>> when it is not set
    running           \* FALSE once an exception left evaluate()

vars == <<alphabet, strVal, parsedExpr, viewBaseAddr, running>>

Init ==
    /\ alphabet \in Alphabets
    /\ strVal = <<>>
    /\ parsedExpr = NoExpr
    /\ viewBaseAddr = <<>>
    /\ running = TRUE

\* Faulty: a text that does not parse leaves the tree of the text before it.
setStrValKeepsTree(text) ==
    /\ strVal' = text
    /\ parsedExpr' = IF Parse(text) = NoExpr THEN parsedExpr ELSE Parse(text)

\* ExprValStr::setStrVal: an equal text keeps the tree, another one is parsed.
setStrVal(text) ==
    /\ strVal' = text
    /\ parsedExpr' = IF text = strVal THEN parsedExpr ELSE Parse(text)

\* Faulty: without the cast to uint32_t.
Signed(n) == n

\* static_cast<AddrRef>(val.getU32())
Address(n) == n % Words

\* Enter in the input line: set the text, evaluate, pin the view.  Nobody
\* catches what evaluate() throws.
Enter(text) ==
    /\ running
    /\ setStrVal(text)
    /\ \/ /\ parsedExpr' = NoExpr
          /\ viewBaseAddr' = <<>>
          /\ UNCHANGED running
       \/ /\ parsedExpr' # NoExpr /\ Evaluate(parsedExpr') = Exception
          /\ running' = FALSE
          /\ UNCHANGED viewBaseAddr
       \/ /\ parsedExpr' # NoExpr /\ Evaluate(parsedExpr') # Exception
          /\ viewBaseAddr' = << Address(Evaluate(parsedExpr')[1]) >>
          /\ UNCHANGED running
    /\ UNCHANGED alphabet

\* The texts of two Enters in a row differ by at most one character (a bound;
\* Escape clears the line).
EnterMore ==
    /\ Len(strVal) < MaxText
    /\ \E c \in alphabet : Enter(Append(strVal, c))

EnterLess == strVal # <<>> /\ Enter(SubSeq(strVal, 1, Len(strVal) - 1))

EnterAgain == Enter(strVal)

EnterNothing == strVal # <<>> /\ Enter(<<>>)

\* The PC button, or the Copper's own program counter moved.
SnapToPc ==
    /\ running
    /\ viewBaseAddr' = <<>>
    /\ UNCHANGED <<alphabet, strVal, parsedExpr, running>>

Next == EnterMore \/ EnterLess \/ EnterAgain \/ EnterNothing \/ SnapToPc

Spec == Init /\ [][Next]_vars

-----------------------------------------------------------------------------
\* The text is made of the characters that were typed, and a pinned address
\* is a word.
TypeOK ==
    /\ alphabet \in Alphabets
    /\ strVal \in Seq(alphabet) /\ Len(strVal) <= MaxText
    /\ viewBaseAddr = <<>> \/ viewBaseAddr \in [{1} -> 0 .. Words - 1]
    /\ running \in BOOLEAN

\* While the view is pinned, its address is the value of the text that stands
\* in the field: no address of an earlier text outlives a text that is no
\* expression, and Enter on an unchanged text finds its tree again.
ViewIsTheText ==
    viewBaseAddr # <<>> /\ running =>
        /\ Parse(strVal) # NoExpr /\ Evaluate(Parse(strVal)) # Exception
        /\ viewBaseAddr = << Address(Evaluate(Parse(strVal))[1]) >>
=============================================================================
