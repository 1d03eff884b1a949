--------------------------- MODULE MCAddressField ---------------------------
(* The address field with small alphabets: each pair of neighbouring       *)
(* levels, the levels apart from each other, each special form, and each   *)
(* form of a numeral next to what could split it or change its base.       *)
EXTENDS ExprField

MCAlphabets == {
    {"3", "|", "&"}, {"3", "|", "^"}, {"6", "^", "&"}, {"5", "&", "=", "!"},
    {"2", "=", "<"}, {"7", "<", ">", "-"}, {"2", "+", "<"}, {"3", "+", "-", "*"},
    {"7", "%", "*", "/"}, {"1", "?", ":", "="}, {"2", "(", ")", "-"},
    {"1", "0", " ", "+"}, {"1", "b", "@", "[", "]"}, {"9", "$", "~", "("},
    {"0", "x", "a", "h"}, {"1", "d", "w", "[", "]"},
    {"0", "1", "b", "h"}, {"0", "o", "7", "8"}, {"#", "9", "c", " "},
    {"0", "7", "c", ")"} }
=============================================================================
