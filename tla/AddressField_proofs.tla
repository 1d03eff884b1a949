------------------------- MODULE AddressField_proofs ------------------------
(***************************************************************************)
(* What the address field promises with any parser and any evaluator: the  *)
(* tree it keeps is the tree of the text that stands in it, although an    *)
(* equal text is never parsed again, and so the address a view is pinned   *)
(* to is the value of that text.                                           *)
(***************************************************************************)
EXTENDS AddressField, SequenceTheorems, TLAPS

\* m_pParsedExpr is always up to date.
TreeOfTheText == parsedExpr = Parse(strVal)

IInv == TypeOK /\ TreeOfTheText /\ ViewIsTheText

LEMMA InitInv == Init => IInv
<1> SUFFICES ASSUME Init PROVE IInv
  OBVIOUS
<1>1. strVal \in Seq(alphabet) /\ Len(strVal) = 0
  BY DEF Init
<1>2. running \in BOOLEAN
  BY Zenon DEF Init
<1> QED
  BY <1>1, <1>2, FieldAssumption DEF Init, IInv, TypeOK, TreeOfTheText, ViewIsTheText

\* A text that was typed is one of the texts the assumption speaks of.
LEMMA TypedText ==
  ASSUME NEW a \in Alphabets, NEW text \in Seq(a), Len(text) <= MaxText
  PROVE  text \in Texts
<1>1. Len(text) \in 0 .. MaxText /\ text \in [1 .. Len(text) -> a]
  BY FieldAssumption, LenProperties
<1>2. text \in UNION {[1 .. n -> a] : n \in 0 .. MaxText}
  BY <1>1
<1> QED
  BY <1>2 DEF Texts

\* The cast to uint32_t makes an address of every number.
LEMMA AddressType == \A n \in Int : Address(n) \in 0 .. Words - 1
BY FieldAssumption DEF Address

LEMMA EnterInv ==
  ASSUME IInv, NEW text \in Seq(alphabet), Len(text) <= MaxText, Enter(text)
  PROVE  IInv'
<1>1. alphabet' = alphabet /\ alphabet \in Alphabets /\ strVal' = text
  BY DEF Enter, setStrVal, IInv, TypeOK
<1>2. TreeOfTheText'
  BY DEF Enter, setStrVal, IInv, TreeOfTheText
<1>3. CASE parsedExpr' = NoExpr /\ viewBaseAddr' = <<>> /\ UNCHANGED running
  BY <1>1, <1>2, <1>3 DEF IInv, TypeOK, ViewIsTheText
<1>4. CASE running' = FALSE /\ UNCHANGED viewBaseAddr
  BY <1>1, <1>2, <1>4 DEF IInv, TypeOK, ViewIsTheText
<1>5. CASE /\ parsedExpr' # NoExpr /\ Evaluate(parsedExpr') # Exception
           /\ viewBaseAddr' = << Address(Evaluate(parsedExpr')[1]) >>
           /\ UNCHANGED running
  <2>1. parsedExpr' = Parse(text)
    BY <1>1, <1>2 DEF TreeOfTheText
  <2>2. text \in Texts
    BY <1>1, TypedText
  <2>3. Evaluate(Parse(text))[1] \in Int
    BY <1>5, <2>1, <2>2, FieldAssumption
  <2>4. Address(Evaluate(Parse(text))[1]) \in 0 .. Words - 1
    BY <2>3, AddressType
  <2>5. viewBaseAddr' \in [{1} -> 0 .. Words - 1]
    BY <1>5, <2>1, <2>4
  <2>6. TypeOK'
    BY <1>1, <1>5, <2>5 DEF IInv, TypeOK
  <2>7. ViewIsTheText'
    BY <1>1, <1>5, <2>1 DEF ViewIsTheText
  <2> QED
    BY <1>2, <2>6, <2>7 DEF IInv
<1> QED
  BY <1>3, <1>4, <1>5 DEF Enter

LEMMA NextInv == IInv /\ [Next]_vars => IInv'
<1> SUFFICES ASSUME IInv, [Next]_vars PROVE IInv'
  OBVIOUS
<1>1. strVal \in Seq(alphabet) /\ Len(strVal) \in Nat /\ Len(strVal) <= MaxText
  BY LenProperties DEF IInv, TypeOK
<1>2. CASE EnterMore
  <2>1. PICK c \in alphabet : Enter(Append(strVal, c))
    BY <1>2 DEF EnterMore
  <2>2. Append(strVal, c) \in Seq(alphabet) /\ Len(Append(strVal, c)) = Len(strVal) + 1
    BY <1>1, AppendProperties
  <2>3. Len(Append(strVal, c)) <= MaxText
    BY <1>1, <1>2, <2>2, FieldAssumption DEF EnterMore
  <2> QED
    BY <2>1, <2>2, <2>3, EnterInv
<1>3. CASE EnterLess
  <2> DEFINE text == SubSeq(strVal, 1, Len(strVal) - 1)
  <2>1. Len(strVal) >= 1
    BY <1>1, <1>3, EmptySeq DEF EnterLess
  <2>2. text \in Seq(alphabet) /\ Len(text) = Len(strVal) - 1
    <3>1. \A i \in 1 .. Len(strVal) - 1 : strVal[i] \in alphabet
      BY <1>1, <2>1, ElementOfSeq
    <3>2. 1 \in Int /\ Len(strVal) - 1 \in Int
      BY <1>1
    <3>3. /\ text \in Seq(alphabet)
          /\ Len(text) = IF 1 <= Len(strVal) - 1 THEN Len(strVal) - 1 - 1 + 1 ELSE 0
      BY <3>1, <3>2, SubSeqProperties
    <3> HIDE DEF text
    <3>4. Len(strVal) - 1 = IF 1 <= Len(strVal) - 1 THEN Len(strVal) - 1 - 1 + 1 ELSE 0
      <4>1. \A k \in Nat : k >= 1 => k - 1 = IF 1 <= k - 1 THEN k - 1 - 1 + 1 ELSE 0
        OBVIOUS
      <4> QED
        BY <1>1, <2>1, <4>1
    <3> QED
      BY <3>3, <3>4
  <2>3. Len(text) <= MaxText
    BY <1>1, <2>2, FieldAssumption
  <2>4. Enter(text)
    BY <1>3 DEF EnterLess
  <2> HIDE DEF text
  <2> QED
    BY <2>2, <2>3, <2>4, EnterInv
<1>4. CASE EnterAgain
  BY <1>1, <1>4, EnterInv DEF EnterAgain
<1>5. CASE EnterNothing
  <2>1. <<>> \in Seq(alphabet) /\ Len(<<>>) <= MaxText
    BY FieldAssumption
  <2> QED
    BY <1>5, <2>1, EnterInv DEF EnterNothing
<1>6. CASE SnapToPc
  BY <1>6 DEF SnapToPc, IInv, TypeOK, TreeOfTheText, ViewIsTheText
<1>7. CASE UNCHANGED vars
  BY <1>7 DEF vars, IInv, TypeOK, TreeOfTheText, ViewIsTheText
<1> QED
  BY <1>2, <1>3, <1>4, <1>5, <1>6, <1>7 DEF Next

LEMMA AlwaysInv == Spec => []IInv
BY InitInv, NextInv, PTL DEF Spec

\* The field keeps what was typed, and every address it pins is a word,
\* whatever sign the value has: the cast in drawContentImp.
THEOREM TypeCorrect == Spec => []TypeOK
<1>1. IInv => TypeOK
  BY DEF IInv
<1> QED
  BY <1>1, AlwaysInv, PTL

\* ExprValStr never holds the tree of another text, although setStrVal skips
\* the parser for an equal one.
THEOREM TreeAlwaysOfTheText == Spec => []TreeOfTheText
<1>1. IInv => TreeOfTheText
  BY DEF IInv
<1> QED
  BY <1>1, AlwaysInv, PTL

\* A pinned view shows the address that stands in its field, with every
\* parser and evaluator.
THEOREM ViewAlwaysIsTheText == Spec => []ViewIsTheText
<1>1. IInv => ViewIsTheText
  BY DEF IInv
<1> QED
  BY <1>1, AlwaysInv, PTL
=============================================================================
