-------------------------------- MODULE AsmText --------------------------------
(***************************************************************************)
(* The text a program is written as, one way of writing it: what reading must *)
(* undo.  And the order in which the instructions of structured lines are      *)
(* executed, which the branches made for them must keep.                      *)
(***************************************************************************)
EXTENDS AstBuilder

--------------------------------------------------------------------------------
Comma == Mark(",")
Separated(parts) ==
    Flat([i \in DOMAIN parts |-> IF i = 1 THEN parts[i] ELSE <<Comma>> \o parts[i]])

WrittenSum(a) ==
    LET plus == [i \in DOMAIN a.add |-> <<Mark("+"), Word(a.add[i])>>]
        minus == [i \in DOMAIN a.sub |-> <<Mark("-"), Word(a.sub[i])>>]
        const == IF a.const = 0 THEN <<>> ELSE IF a.const > 0 THEN <<Mark("+"), Number(a.const)>>
                 ELSE <<Mark("-"), Number(-a.const)>>
        all == Flat(plus) \o Flat(minus) \o const
    IN IF all = <<>> THEN <<Number(0)>> ELSE IF all[1].type = "+" THEN Tail(all) ELSE all

WrittenArg(a) ==
    CASE a.arg = "register" -> <<Reg(a.n)>>
      [] a.arg = "string" -> <<Numbered("STRING", a.n)>>
      [] a.byte # "" -> <<Word(a.byte), Mark("(")>> \o WrittenSum(a) \o <<Mark(")")>>
      [] OTHER -> WrittenSum(a)

RECURSIVE WrittenLines(_)

WrittenConditions(list) ==
    Flat([i \in DOMAIN list |->
        WrittenLines(list[i].lines) \o
        << <<Word("is"), Word(list[i].mnemonic)>> \o
           IF list[i].conjunction = "" THEN <<>> ELSE <<Comma, Word(list[i].conjunction)>> >>])

WrittenNode(n) ==
    CASE n.node = "label" ->
            << <<Word(n.name), Mark(IF n.entry THEN ">" ELSE ":")>> \o
               IF n.external THEN <<Word("ext")>> ELSE <<>> >>
      [] n.node = "instruction" ->
            << <<Word(n.mnemonic)>> \o Separated([i \in DOMAIN n.args |-> WrittenArg(n.args[i])]) >>
      [] n.node = "if" ->
            << <<Word("if")>> >> \o WrittenConditions(n.conditions) \o WrittenLines(n.then) \o
            (IF n.else = <<>> THEN <<>> ELSE << <<Word("else")>> >> \o WrittenLines(n.else)) \o << <<Word("fi")>> >>
      [] n.node = "while" ->
            << <<Word("while")>> >> \o WrittenLines(n.condition) \o
            << <<Word("stays"), Word(n.mnemonic)>> >> \o WrittenLines(n.lines) \o << <<Word("wend")>> >>
      [] n.node = "until" ->
            << <<Word("do")>> >> \o WrittenLines(n.lines) \o << <<Word("until"), Word(n.mnemonic)>> >>
      [] OTHER -> << <<Word(n.node)>> >>

WrittenLines(lines) == Flat([i \in DOMAIN lines |-> WrittenNode(lines[i])])

WrittenSections(pn) ==
    LET Of(list, H(_)) == Flat([i \in DOMAIN list |-> <<H(list[i])>> \o WrittenLines(list[i].lines)])
    IN Of(pn.asects, LAMBDA s : <<Word("asect"), Number(s.address)>>) \o
       Of(pn.rsects, LAMBDA s : <<Word("rsect"), Word(s.name)>>) \o
       Of(pn.templates, LAMBDA s : <<Word("tplate"), Word(s.name)>>) \o << <<Word("end")>> >>

\* Characters are kept as strings.
Kept(l) == [i \in DOMAIN l |-> IF l[i].type = "CHAR" THEN Numbered("STRING", l[i].n) ELSE l[i]]

\* A line one thing a line: every label, then the instruction.
Apart(l) ==
    LET colon == Max({0} \cup {j \in DOMAIN l : l[j].type \in {":", ">"}})
        rest == SubSeq(l, colon + 1, Len(l))
        outside == IF Only(rest, "ext") THEN rest ELSE <<>>
    IN [n \in 1 .. colon \div 2 |-> <<l[2 * n - 1], l[colon]>> \o outside] \o
       IF rest = outside THEN <<>> ELSE <<rest>>

\* The lines of the sections that say something: not those of an else clause without
\* lines, which is not kept, nor what follows end.
Plain(t) ==
    LET first == Min({i \in DOMAIN t : Header(t[i])} \cup {Len(t) + 1})
        last == Min({i \in first .. Len(t) : Has(t[i], 1, "end")} \cup {Len(t)})
        Says(l) == ~(l = <<>> \/ line_mark(l) \/ Only(l, "then"))
        said == Append(SelectSeq(SubSeq(t, first, last - 1), Says), <<Word("end")>>)
        lines == Flat([n \in DOMAIN said |-> Apart(Kept(said[n]))])
        kept == {i \in DOMAIN lines : ~(Only(lines[i], "else") /\ Only(LineAt(lines, i + 1), "fi"))}
    IN Sequence([n \in 1 .. Cardinality(kept) |-> lines[Ordered(kept)[n]]])

\* The tree does not keep the order of sections of different kinds.
Rank == [asect |-> 1, rsect |-> 2, tplate |-> 3]
ByKind(t) ==
    \A i, j \in DOMAIN t : (i < j /\ Header(t[i]) /\ Header(t[j])) => Rank[t[i][1].type] <= Rank[t[j][1].type]

--------------------------------------------------------------------------------
(* Structured lines.  A point is a line that is executed: an instruction or the   *)
(* test of a statement.  begin(lines, next, brk, cont) is the first point of lines *)
(* when next follows them and a break and a continue lead to brk and cont.        *)

Point(loc) == loc.line
End == 0

\* A shift by 0 is left out.
Idle(n) == n.mnemonic = "shl" /\ n.args # <<>> /\ WrittenArg(Last(n.args)) = <<Number(0)>>
Executed(n) ==
    n.node = "instruction" /\ n.mnemonic \notin {"ds", "dc", "db", "dw", "align"} /\ ~Idle(n)

RECURSIVE Begins(_, _, _, _)
Begins(lines, next, brk, cont) ==
    IF lines = <<>> THEN next ELSE
    LET n == Head(lines) rest == Begins(Tail(lines), next, brk, cont) IN
    CASE n.node = "break" -> brk
      [] n.node = "continue" -> cont
      [] n.node = "if" -> Begins(n.conditions[1].lines, Point(n.conditions[1].loc), brk, cont)
      [] n.node = "while" -> Begins(n.condition, Point(n.stays), rest, 0 - 1)
      [] n.node = "until" -> Begins(n.lines, Point(n.loc), rest, Point(n.loc))
      [] Executed(n) -> Point(n.loc)
      [] OTHER -> rest

\* Which point follows which, after an instruction or with the outcome of a test.
Step(p, outcome, q) == <<p, outcome, q>>

RECURSIVE Steps(_, _, _, _)
ConditionSteps(n, then, else, brk, cont) ==
    LET c == n.conditions
        To(i) == Begins(c[i].lines, Point(c[i].loc), brk, cont)
        OrsFrom(i) == {k \in i .. Len(c) - 1 : c[k].conjunction = "or"}
        Holds(i) == IF i = Len(c) \/ c[i].conjunction = "or" THEN then ELSE To(i + 1)
        Not(i) == IF OrsFrom(i) = {} THEN else ELSE To(Min(OrsFrom(i)) + 1)
    IN UNION {Steps(c[i].lines, Point(c[i].loc), brk, cont) \cup
              {Step(Point(c[i].loc), "true", Holds(i)), Step(Point(c[i].loc), "false", Not(i))} :
                i \in DOMAIN c}

Steps(lines, next, brk, cont) ==
    IF lines = <<>> THEN {} ELSE
    LET n == Head(lines)
        rest == Begins(Tail(lines), next, brk, cont)
        again == Begins(<<n>>, rest, brk, cont)
        own == CASE n.node = "if" ->
                      ConditionSteps(n, Begins(n.then, rest, brk, cont), Begins(n.else, rest, brk, cont), brk, cont)
                      \cup Steps(n.then, rest, brk, cont) \cup Steps(n.else, rest, brk, cont)
                 [] n.node = "while" ->
                      Steps(n.condition, Point(n.stays), rest, again) \cup Steps(n.lines, again, rest, again) \cup
                      {Step(Point(n.stays), "true", Begins(n.lines, again, rest, again)),
                       Step(Point(n.stays), "false", rest)}
                 [] n.node = "until" ->
                      Steps(n.lines, Point(n.loc), rest, Point(n.loc)) \cup
                      {Step(Point(n.loc), "true", rest), Step(Point(n.loc), "false", again)}
                 [] Executed(n) -> {Step(Point(n.loc), "next", rest)}
                 [] OTHER -> {}
    IN own \cup Steps(Tail(lines), next, brk, cont)

================================================================================
