------------------------------ MODULE MacroParser ------------------------------
(***************************************************************************)
(* The grammar of macros (Macro.g4): sources and libraries as macros and     *)
(* lines, and a line as its labels, its instruction and its parameters.  A    *)
(* rule within a line leads from a token to the one behind, or is 0.          *)
(***************************************************************************)
EXTENDS AsmLexer

other == {"+", "-", "(", ")"}
l_sep == other \cup {" ", ","}
p_sep == other \cup {" "}

\* From one apostrophe to the next it is a character constant, not two nonces.
MacroTokens(l) ==
    LET nonces == {i \in DOMAIN l : l[i].type = "'"}
        from == Min(nonces)
        to == Min(nonces \ {from})
    IN IF Cardinality(nonces) < 2 THEN l
       ELSE SubSeq(l, 1, from - 1) \o <<Numbered("CHAR", to - from)>> \o SubSeq(l, to + 1, Len(l))

macro_text(l, i) == i \in DOMAIN l /\ l[i].type \in WordTypes \cup {"NUMBER", "STRING", "CHAR"}
macro_param(l, i) == Has(l, i, "$") /\ Has(l, i + 1, "NUMBER")
macro_nonce(l, i) == Has(l, i, "'")
macro_piece(l, i) == IF macro_text(l, i) \/ macro_nonce(l, i) THEN i + 1
                     ELSE IF macro_param(l, i) THEN i + 2 ELSE 0

\* Behind the pieces from i on, and behind the pieces, variables and separators.
PiecesEnd(l, i) == LET end[j \in 0 .. Len(l) + 1] == IF macro_piece(l, j) = 0 THEN j ELSE end[macro_piece(l, j)]
                   IN end[i]
macro_variable(l, i) ==
    IF Has(l, i, "?") /\ macro_piece(l, i + 1) # 0 THEN PiecesEnd(l, i + 1) ELSE 0
ItemEnd(l, i, separators) ==
    LET end[j \in 0 .. Len(l) + 1] ==
            IF macro_piece(l, j) # 0 THEN end[macro_piece(l, j)]
            ELSE IF macro_variable(l, j) # 0 THEN end[macro_variable(l, j)]
            ELSE IF j \in DOMAIN l /\ l[j].type \in separators THEN end[j + 1] ELSE j
    IN end[i]

label(l, i) ==
    LET end == ItemEnd(l, i, l_sep) IN IF Has(l, end, ":") \/ Has(l, end, ">") THEN end + 1 ELSE 0
labels(l) ==
    LET end[i \in 0 .. Len(l) + 1] ==
            LET next == label(l, i) IN IF next # 0 THEN end[next] ELSE IF Has(l, i, " ") THEN i + 1 ELSE i
    IN end[1]
instruction(l) == ItemEnd(l, labels(l), other)
first_param(l) ==
    LET end == instruction(l)
    IN IF Has(l, end, " ") /\ end > labels(l) THEN ItemEnd(l, end, p_sep) ELSE end
param(l, i) == ItemEnd(l, i + 1, p_sep)

\* Where the parameters behind the first begin, with their commas.
Params(l) ==
    LET at[i \in 0 .. Len(l) + 1] == IF Has(l, i, ",") THEN <<i>> \o at[param(l, i)] ELSE <<>>
    IN at[first_param(l)]
line(l) ==
    LET commas == Params(l)
    IN Len(l) + 1 = IF commas = <<>> THEN first_param(l) ELSE param(l, Last(commas))

Unblank(l) == SelectSeq(l, LAMBDA token : token # Blank)
IsHeader(l, first) ==
    LET h == Unblank(l)
    IN /\ Len(h) = 4 /\ h[1].type = first /\ h[2].type \in WordTypes \ {"macro"}
       /\ Has(h, 3, "/") /\ Has(h, 4, "NUMBER")
macro_header(l) == IsHeader(l, "macro")
mlb_header(l) == IsHeader(l, "*")

\* Up to the first line from i on that cannot belong to the body.
macro_body(t, i) ==
    LET end[j \in 1 .. Len(t) + 1] == IF j \in DOMAIN t /\ line(t[j]) THEN end[j + 1] ELSE j IN end[i]
macro(t, i) == LET end == macro_body(t, i + 1) IN IF end \in DOMAIN t /\ t[end] = <<Mark("mend")>> THEN end ELSE 0
mlb_macro(t, i) == macro_body(t, i + 1) - 1

\* The macros and lines of a source, each with its first and its last line.
program(t) ==
    LET items[i \in 1 .. Len(t) + 1] ==
            IF i > Len(t) THEN [error |-> FALSE, list |-> <<>>]
            ELSE LET at == IF line(t[i]) THEN i ELSE IF macro_header(t[i]) THEN macro(t, i) ELSE 0
                 IN IF at = 0 THEN [error |-> TRUE, list |-> <<>>]
                    ELSE [items[at + 1] EXCEPT !.list = <<[first |-> i, last |-> at]>> \o @]
    IN items[1]

\* Those of a library; one that is not well-formed is read as far as it makes sense.
mlb(t) ==
    LET items[i \in 1 .. Len(t) + 1] ==
            IF i > Len(t) THEN <<>>
            ELSE IF mlb_header(t[i]) THEN <<[first |-> i, last |-> mlb_macro(t, i)]>> \o items[mlb_macro(t, i) + 1]
            ELSE items[i + 1]
    IN items[1]

================================================================================
