------------------------------ MODULE MCAssembler ------------------------------
(***************************************************************************)
(* Texts for the assembler: every small nesting of statements, segments of    *)
(* varying length in every order, one line of every instruction, programs of  *)
(* several sections, and texts with something missing or said twice.          *)
(***************************************************************************)
EXTENDS AssembledText

MCNames == {"main", "aux"}
MCLabels == {"a", "b", "c", "x", "y", "T.x", "U.x"} \cup {"m" \o ToString(n) : n \in 1 .. 9}
Split(template, field) == [template |-> template, field |-> field]
MCDotted == [w \in {"T.x", "T._", "T.n", "U.x"} |->
    CASE w = "T.x" -> Split("T", "x") [] w = "T._" -> Split("T", "_")
      [] w = "T.n" -> Split("T", "n") [] w = "U.x" -> Split("U", "x")]

\* The stages before the sections.
MCExpanded(s) == LET made == Macros!expand_source(s) IN made
MCTree(t) == LET ast == build_ast(t) IN ast
MCSections(pn) == LET made == generate_sections(pn) IN made

--------------------------------------------------------------------------------
Say(m, args) == InstructionNode(m, args, NoLocation)
Declare(w) == LabelDeclarationNode(w, FALSE, FALSE, NoLocation)
Enter(w) == LabelDeclarationNode(w, TRUE, FALSE, NoLocation)
Extern(w) == LabelDeclarationNode(w, FALSE, TRUE, NoLocation)
Sum(add, sub, const) == RelocatableExpressionNode("", add, sub, const)
To(w) == Sum(<<w>>, <<>>, 0)
Const(n) == Sum(<<>>, <<>>, n)
Far(v, w) == Sum(<<v>>, <<w>>, 0)
r0 == RegisterNode(0)

Rel(w, lines) == RelocatableSectionNode(lines, w)
At(n, lines) == AbsoluteSectionNode(lines, n)
Tpl(lines) == TemplateSectionNode(lines, "T")
Program(as, rs, ts) == [asects |-> as, rsects |-> rs, templates |-> ts]

\* Words have blanks between them, one each.
Apart2(a, b) == a.type \in WordTypes \cup {"NUMBER"} /\ b.type \in WordTypes \cup {"NUMBER", "STRING", "CHAR"}
Spaced(l) ==
    LET Put(said, token) == CASE said = <<>> -> <<token>>
                              [] said # <<>> /\ token = Blank /\ Last(said) = Blank -> said
                              [] said # <<>> /\ Apart2(Last(said), token) -> said \o <<Blank, token>>
                              [] OTHER -> Append(said, token)
    IN FoldLeft(Put, <<>>, l)
TextOf(pn) == LET t == WrittenSections(pn) IN Sequence([i \in DOMAIN t |-> Spaced(t[i])])
Relocatable(lines) == TextOf(Program(<<>>, <<Rel("main", lines)>>, <<>>))
Absolute(n, lines) == TextOf(Program(<<At(n, lines)>>, <<>>, <<>>))

--------------------------------------------------------------------------------
(* Statements in statements.                                                    *)

ins == Say("ei", <<>>)
brk == BreakStatementNode(NoLocation)
cont == ContinueStatementNode(NoLocation)
If1(c, m, then, else) ==
    ConditionalStatementNode(<<ConditionNode(c, m, "", NoLocation)>>, then, else, NoLocation)
If3(c, one, two, then, else) ==
    ConditionalStatementNode(
        <<ConditionNode(c, "eq", one, NoLocation), ConditionNode(<<ins>>, "gt", two, NoLocation),
          ConditionNode(<<>>, "lo", "", NoLocation)>>, then, else, NoLocation)
Loop(c, body) == WhileLoopNode(c, "ne", body, NoLocation, NoLocation)
Until(body) == UntilLoopNode(body, "mi", NoLocation)

Conj == {"and", "or"}
Inner ==
    {If1(c, "ls", then, else) : c \in {<<>>, <<ins>>}, then \in {<<ins>>, <<brk>>, <<cont>>},
                                else \in {<<>>, <<ins>>, <<brk>>}} \cup
    {If3(<<ins>>, one, two, <<ins>>, else) : one \in Conj, two \in Conj, else \in {<<>>, <<cont>>}} \cup
    {Loop(c, body) : c \in {<<>>, <<ins>>, <<ins, brk>>}, body \in {<<>>, <<brk>>, <<ins, cont>>}} \cup
    {Until(body) : body \in {<<>>, <<ins>>, <<brk>>, <<cont, ins>>}}

Outer(s) ==
    {Loop(<<ins>>, <<s>>), Loop(<<ins>>, <<ins, s, ins>>), Loop(<<ins, s>>, <<ins, cont>>),
     Until(<<s, ins>>), Until(<<ins, s>>),
     Loop(<<>>, <<If1(<<ins, s>>, "vs", <<ins>>, <<brk>>)>>),
     Until(<<ins, If3(<<>>, "or", "and", <<s, ins>>, <<s>>), ins>>)}

Nested == {Relocatable(<<ins, s, ins>>) : s \in UNION {Outer(i) : i \in Inner}}
Alone == {Relocatable(<<s>>) : s \in Inner}

--------------------------------------------------------------------------------
(* Segments of varying length.                                                  *)

Space(n) == Say("ds", <<Const(n)>>)
Align(n) == Say("align", <<Const(n)>>)
ldi(e) == Say("ldi", <<r0, e>>)
FirstOnes == {ldi(To("b")), ldi(Far("b", "a")), Say("br", <<To("b")>>), Align(4)}
Middle == {ldi(To("a")), Say("jsr", <<To("b")>>), Space(60), Space(1020), Align(4), Align(64),
           Say("dc", <<Far("b", "a")>>)}
LastOnes == {Say("beq", <<To("a")>>), ldi(Far("a", "b")), Say("dc", <<To("a")>>),
             Say("cmp", <<r0, Far("b", "a")>>), Align(4)}

Layout == {<<one, Declare("a"), two, three, Enter("b"), four>> :
            one \in FirstOnes, two \in Middle, three \in Middle, four \in LastOnes}
\* One that grows makes the ones before it grow.
Chain == {<<one, Say(m, <<To("c")>>), Align(k), Declare("a"), Space(n), two, two, Enter("b"), two,
            Declare("c"), three>> :
            one \in {Say("br", <<To("b")>>), ldi(Far("c", "b")), ins}, m \in {"br", "jsr"}, k \in {2, 4},
            n \in {1008, 1010, 1012, 1014}, two \in {ldi(To("b")), Say("beq", <<To("a")>>)},
            three \in {Say("br", <<To("a")>>), Say("dc", <<To("a")>>)}}
Layouts == {Relocatable(lines) : lines \in Chain} \cup {Relocatable(lines) : lines \in Layout} \cup
           {Absolute(0, lines) : lines \in {l \in Layout : l[1] # Align(4) /\ l[3] # l[4]}}

--------------------------------------------------------------------------------
(* One line of every kind.                                                      *)

OfRegisters == {Say(m, [i \in 1 .. n |-> r0]) : n \in 0 .. 3,
    m \in {"halt", "pop", "move", "ldw", "neg", "and", "shl", "add", "cmp", "push", "addsp", "save", "jsr"}}
OfNumbers == {Say(m, <<r0, Const(n)>>) : n \in {-65, -64, -1, 0, 1, 63, 64, 128},
              m \in {"ldi", "add", "sub", "cmp", "lsb", "lsw", "shl"}} \cup
             {Say(m, <<Const(n)>>) : n \in {-2, 0, 2, 3, 510, 512, 70000},
              m \in {"ds", "db", "dw", "align", "push", "addsp", "int", "reset", "br", "jsr"}}
OfLabels == {Say(m, <<e>>) : m \in {"dc", "db", "jsr", "bge", "push"},
             e \in {To("a"), To("x"), Far("b", "a"), Far("x", "a"), Sum(<<"a", "b">>, <<>>, 0), To("y"),
                    Sum(<<"a">>, <<>>, 2), Sum(<<"x">>, <<>>, -3), Sum(<<"x", "x">>, <<>>, 0),
                    Sum(<<"a", "a">>, <<"b">>, 1), Sum(<<>>, <<"x">>, 0), To("U.x"),
                    [To("a") EXCEPT !.byte = "low"]}} \cup
            {Say(m, <<r0, e>>) : m \in {"ldi", "ssw", "sub"},
             e \in {To("a"), To("x"), Far("b", "a"), Far("a", "b"), To("fp")}}
Others == {Say("dc", <<StringLiteralNode(3), Const(1), To("b")>>), Say("dc", <<>>), Say("dc", <<r0>>),
           Say("dw", <<StringLiteralNode(1)>>), Say("align", <<>>), Say("reset", <<>>),
           Say("move", <<To("fp"), RegisterNode(8)>>), Say("bxx", <<To("a")>>), Say("nop", <<>>),
           brk, cont, Declare("a"), Declare("U.x"), If1(<<>>, "xx", <<>>, <<>>)}
EachKind == OfRegisters \cup OfNumbers \cup OfLabels \cup Others
Line(n) == <<Extern("x"), Declare("a"), n, Say("align", <<>>), Enter("b"), ins>>
Lines == {Relocatable(Line(n)) : n \in EachKind} \cup {Absolute(512, Line(n)) : n \in EachKind}

--------------------------------------------------------------------------------
(* Several sections.                                                            *)

Fields == Tpl(<<Space(3), Declare("x"), Say("dc", <<Const(1)>>)>>)
UsesOf(e) == <<ldi(e), Say("dc", <<e>>), If1(<<>>, "eq", <<Say("add", <<r0, Const(1)>>)>>, <<>>)>>
Several ==
    {Program(<<At(512, <<Declare("c"), Say("br", <<To("a")>>)>>), At(0, <<Declare("a")>> \o UsesOf(To("c")))>>,
             <<Rel("main", <<Say("jsr", <<To(w)>>), ldi(Far("c", "a")), ldi(To(w))>>), Rel(n, p)>>, <<>>) :
        w \in {"a", "c", "y"}, n \in MCNames,
        p \in {<<Say("db", <<Const(1)>>)>>, <<Align(8), Enter("b"), Say("dc", <<To("b")>>)>>}} \cup
    {Program(<<>>, <<Rel("main", <<Space(3), Enter("a")>>), Rel(n, <<ins, Enter(w), Align(6), Say("dc", <<To(w)>>)>>),
                     Rel("main", <<Extern("x"), Align(4), Say("dc", <<To("x")>>)>>)>>, <<>>) :
        n \in MCNames, w \in {"a", "b"}} \cup
    {Program(<<>>, <<Rel("main", lines)>>, fields) : fields \in {<<Fields>>, <<Fields, Fields>>, <<>>},
        lines \in {UsesOf(Sum(<<w>>, <<>>, 1)) : w \in {"T.x", "T._", "T.n", "U.x"}} \cup
                  {UsesOf(Sum(<<>>, <<"T.x">>, 0)), <<Declare("T.x")>>, <<Declare("U.x"), ldi(To("U.x"))>>,
                   <<ins, If1(<<>>, "eq", <<ldi(To("T.x"))>>, <<>>)>>}} \cup
    {Program(<<>>, <<Rel("main", <<ins>>)>>, <<Tpl(<<Declare("x"), n>>)>>) :
        n \in {Declare("x"), Enter("y"), Extern("y"), ins, Say("dc", <<>>), Say("save", <<r0>>)}} \cup
    {Program(<<>>, <<Rel("main", lines)>>, <<>>) :
        lines \in {<<Say("save", <<r0>>), Say("restore", <<>>), Say("restore", <<r0>>)>>,
                   <<Say("save", <<r0>>), Say("save", <<r0>>), Say("restore", <<r0>>), Say("restore", <<>>)>>}}

Written == Nested \cup Alone \cup Layouts \cup Lines \cup {TextOf(pn) : pn \in Several}

--------------------------------------------------------------------------------
(* Macros.                                                                      *)

Dollar(n) == <<Mark("$"), Number(n)>>
Quote == Mark("'")
Own(w) == <<Word(w), Quote>>
Var(w) == <<Mark("?"), Word(w)>>
Call(w, args) == <<Blank, Word(w)>> \o IF args = <<>> THEN <<>> ELSE <<Blank>> \o Separated(args)
Header2(first, w, n) == <<first, Blank, Word(w), Mark("/"), Number(n)>>
Macro(w, n, body) == <<Header2(Word("macro"), w, n)>> \o body \o << <<Mark("mend")>> >>
InLib(w, n, body) == <<Header2(Mark("*"), w, n)>> \o body

Inc == << Call("add", <<Dollar(1), <<Number(1)>>>>) >>
Standard == InLib("inc", 1, Inc) \o << <<>> >> \o InLib("nop", 0, << Own("m") \o <<Mark(":")>>, Call("bfalse", <<Own("m")>>) >>) \o
            InLib("define", 2, << <<Word("asect"), Blank>> \o Dollar(2), Dollar(1) \o <<Mark(":")>> >>)
Libraries == {<<>>, << InLib("inc", 1, << <<>>, Tail(Inc[1]) >>) >>, << InLib("inc", 2, Inc) >>,
              << InLib("nop", 0, << <<Word("ei")>> >>) >>, << InLib("dec", 0, Inc) \o InLib("dec", 0, <<>>) >>}

Twice == Macro("twice", 1, << Call("inc", <<Dollar(1)>>), <<Word("a"), Quote, Mark(":")>> \o Call("inc", <<Dollar(1)>>) >>)
Swap == Macro("swap", 2, << <<Word("b"), Quote, Mark(":")>> \o Call("unique", <<Dollar(1), Dollar(2), <<Word("t")>>, <<Word("u")>>>>),
            Call("move", <<Dollar(1), Var("t")>>), <<>>, Call("nop", <<>>), Call("move", <<Var("t"), Var("u")>>),
            Call("fresh", <<Dollar(0)>>) >>)
Fresh == Macro("fresh", 1, << Call("unique", <<Dollar(1), Own("t")>>), Call("push", <<Var("t") \o <<Quote>> >>) >>)
Pair == Macro("pair", 0, << Own("b") \o <<Mark(":")>> \o Call("unique", <<Own("t")>>), Call("push", <<Var("t") \o <<Quote>> >>) >>)
Apply == Macro("apply", 2, << <<Blank>> \o Dollar(1) \o <<Blank>> \o Dollar(2), Call("nop", <<>>) >>)
Empty == Macro("none", 0, << <<>>, <<Blank>> >>)
Endless == Macro("more", 1, << Call("more", <<Dollar(1)>>) >>)
Quoted == Macro("quoted", 0, << Own("m") \o <<Mark(":")>> \o Call("br", <<Own("m")>>) >>)
Wrong == Macro("wrong", 1, << Call("dc", <<Dollar(2)>>) >>) \o Macro("unknown", 0, << Call("push", <<Var("q")>>) >>)
Definitions == Twice \o Swap \o Fresh \o Pair \o Apply \o Empty \o Endless \o Quoted \o Wrong

r(n) == <<Reg(n)>>
GoodCalls == {Call("inc", <<r(1)>>), Call("nop", <<>>), <<Word("c"), Mark(":")>> \o Call("twice", <<r(2)>>),
              Call("swap", <<r(0), r(3)>>), Call("swap", <<r(3), <<Word("v")>>>>), Call("none", <<>>),
              Call("apply", <<<<Word("inc")>>, r(0)>>), Call("apply", <<<<Word("twice")>>, r(1)>>),
              Call("apply", <<<<Word("nop")>>, <<>>>>), Call("ei", <<>>), <<>>}
BadCalls == {Call("pair", <<>>), Call("swap", <<r(0), r(0)>>), Call("swap", <<r(4), r(1)>>), Call("swap", << <<Word("v")>>, <<Word("w")>> >>),
             Call("more", <<r(0)>>), Call("quoted", <<>>), Call("wrong", <<r(0)>>), Call("unknown", <<>>),
             Call("apply", << <<Word("inc"), Blank, Reg(0)>>, <<>> >>), Call("define", << <<Word("a")>>, <<Number(8)>> >>),
             Call("inc", <<r(0), r(1)>>), Call("ei", << Dollar(1) >>)}
Begin2 == <<Word("rsect"), Blank, Word("main")>>
End2 == <<Word("end")>>
Source(lines, libraries) == [lines |-> lines, libraries |-> <<Standard>> \o libraries]
Plainly(lines) == [lines |-> lines, libraries |-> << <<>> >>]
Program2(one, two, three) == Definitions \o <<Begin2, one, two>> \o Macro("third", 0, << three >>) \o
                             << Call("ei", <<>>), Call("third", <<>>), End2 >>
FewCalls == {Call("inc", <<r(1)>>), Call("swap", <<r(0), r(3)>>), Call("nop", <<>>)}
Calling == {Source(Program2(one, two, three), <<>>) : one \in GoodCalls, two \in GoodCalls, three \in FewCalls} \cup
           {Source(<<Begin2, one, End2>>, << InLib("inc", 1, << <<>>, Tail(Inc[1]) >>) >>) :
                one \in {Call("inc", <<r(2)>>), Call("nop", <<>>)}}
Miscalling ==
    {Source(Program2(one, two, <<>>), libraries) : one \in FewCalls, two \in BadCalls, libraries \in Libraries} \cup
    {Source(<<one>> \o Twice \o <<two, Begin2, one, End2>>, libraries) :
        one \in BadCalls, two \in {Call("define", << <<Word("a")>>, <<Number(8)>> >>), <<>>}, libraries \in Libraries} \cup
    {Source(Definitions \o Twice \o <<Begin2, one, End2>>, <<>>) : one \in GoodCalls} \cup
    {Source(Definitions \o Macro("twice", 1, body) \o <<Begin2, End2>>, <<>>) : body \in {<<>>, Inc, << Call("add", << r(1) >>) >>}}

--------------------------------------------------------------------------------
(* Damaged texts.                                                               *)

Inserted(t, i, l) == SubSeq(t, 1, i) \o <<l>> \o SubSeq(t, i + 1, Len(t))

Sample == Relocatable(
    <<Declare("a"), If3(<<ins>>, "and", "or", <<Loop(<<>>, <<brk>>)>>, <<Until(<<cont>>)>>),
      Say("dc", <<Sum(<<"a">>, <<"b">>, -3), StringLiteralNode(2)>>), Enter("b"), ldi(Const(4))>>)
Top == <<Spaced(<<Word("x"), Comma, Word("y"), Mark(":"), Word("ext")>>)>> \o Sample
Two == TextOf(Program(<<At(8, <<Say("br", <<Const(8)>>)>>)>>, <<Rel("aux", <<Extern("x"), ldi(To("x"))>>)>>,
                      <<Tpl(<<Declare("x"), Space(1)>>)>>))
Calls == Macro("put", 2, << <<Word("b"), Quote, Mark(":")>> \o Call("inc", <<Dollar(1)>>), Call("ldi", <<Dollar(1), Dollar(2)>>) >>) \o
         <<Begin2, Call("put", <<r(0), <<Number(3)>>>>), Call("nop", <<>>), End2>>
OneLine == <<Begin2, Spaced(<<Word("a"), Comma, Word("b"), Mark(">"), Word("jsr"), Word("a")>>), End2>>
WithBlanks == {Inserted(Sample, i, <<>>) : i \in DOMAIN Sample}

WithoutLine(t) == {RemoveAt(t, i) : i \in DOMAIN t}
LineTwice(t) == {Inserted(t, i, t[i]) : i \in DOMAIN t}
WithoutToken(t) == {[t EXCEPT ![p[1]] = Spaced(RemoveAt(@, p[2]))] : p \in UNION {{i} \X DOMAIN t[i] : i \in DOMAIN t}}
TokenTwice(t) == {[t EXCEPT ![p[1]] = Spaced(InsertAt(@, p[2], @[p[2]]))] : p \in UNION {{i} \X DOMAIN t[i] : i \in DOMAIN t}}
Changed(texts) == UNION {WithoutLine(t) \cup LineTwice(t) \cup WithoutToken(t) \cup TokenTwice(t) : t \in texts}
Within(lines) == Inserted(Sample, 1, lines)
Odd == {<< <<>> >>, Append(Sample, <<Word("ei")>>), Inserted(Sample, 0, <<Word("ei")>>), Inserted(Sample, 0, <<Word("a"), Mark(":")>>),
        Within(<<Word("."), Mark(":")>>), Within(<<Word("b"), Mark(">"), Word("ext")>>),
        Within(Spaced(<<Word("dc"), Numbered("CHAR", 2)>>)), Within(Spaced(<<Word("dc"), Numbered("CHAR", 1)>>)),
        Within(Spaced(<<Word("dc"), Numbered("STRING", -1)>>)), <<Top[1]>> \o Calls}

Sound == Written \cup {Sample, Top, Two, Calls, OneLine, Inserted(Sample, 8, <<Word("then")>>)} \cup WithBlanks
MCWellFormed == LET all == Calling \cup {Plainly(t) : t \in Sound \ {Calls}} \cup {Source(Calls, <<>>)} IN all
MCDamaged == LET all == Miscalling \cup {Plainly(t) : t \in Changed({Sample, Top, Two}) \cup Odd} \cup
                    {Source(t, <<>>) : t \in Changed({Calls})} IN all \ MCWellFormed

================================================================================
