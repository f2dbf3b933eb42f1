-------------------------------- MODULE AsmLexer -------------------------------
(***************************************************************************)
(* The tokens of assembler texts (AsmLexer.g4).  A text is a sequence of     *)
(* lines, a line a sequence of tokens.  In a source, and in what its macros   *)
(* expand to, blanks are tokens too (Macro.g4), and a word may still be in    *)
(* pieces; reading the text makes one token of them and drops the blanks.      *)
(***************************************************************************)
EXTENDS AstNodes, TLC

Keywords == {"asect", "break", "continue", "do", "else", "end", "ext", "fi", "if", "is",
             "macro", "rsect", "stays", "then", "tplate", "until", "wend", "while"}

\* A token has a text or a number: a value, a register's, the bytes of a string.
Token(type, text) == [type |-> type, text |-> text, n |-> 0]
Numbered(type, n) == [type |-> type, text |-> "", n |-> n]
Word(w) == Token(IF w \in Keywords THEN w
                 ELSE IF w \in DOMAIN Dotted \cup {"."} THEN "WORD_WITH_DOTS" ELSE "WORD", w)
Number(n) == Numbered("NUMBER", n)
Reg(n) == Numbered("REGISTER", n)
Mark(p) == Token(p, p)
Blank == Mark(" ")

Has(l, i, type) == i \in DOMAIN l /\ l[i].type = type

\* Words and numbers without a blank between them are one word.
WordTypes == Keywords \cup {"WORD", "WORD_WITH_DOTS", "REGISTER"}
Characters(token) ==
    CASE token.type = "NUMBER" -> ToString(token.n)
      [] token.type = "REGISTER" -> "r" \o ToString(token.n)
      [] OTHER -> token.text
Registers == {Reg(n) : n \in 0 .. 15}
WordOf(w) ==
    IF \E r \in Registers : Characters(r) = w THEN CHOOSE r \in Registers : Characters(r) = w ELSE Word(w)

Tens(n) == Min({k \in {10, 100, 1000, 10000} : n < k})
Glues(a, b) == \/ a.type \in WordTypes /\ b.type \in WordTypes \cup {"NUMBER"}
               \/ a.type = "NUMBER" /\ b.type = "NUMBER"
OneToken(a, b) == IF a.type = "NUMBER" THEN Number(a.n * Tens(b.n) + b.n)
                  ELSE WordOf(Characters(a) \o Characters(b))
Glued(l) ==
    LET Put(line, token) == IF line # <<>> /\ Glues(Last(line), token)
                            THEN Append(Front(line), OneToken(Last(line), token))
                            ELSE Append(line, token)
    IN FoldLeft(Put, <<>>, l)

Lexed(l) == SelectSeq(Glued(l), LAMBDA token : token # Blank)

================================================================================
