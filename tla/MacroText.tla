-------------------------------- MODULE MacroText ------------------------------
(***************************************************************************)
(* What macros mean, as a rewriting of texts: as long as a line is a call,    *)
(* its first one is replaced by the text of the macro.                        *)
(***************************************************************************)
EXTENDS MacroProcessor

RECURSIVE Instance(_, _, _, _)

\* A line of a macro with its parameters, nonce and variables filled in as texts; $0 is the
\* last parameter.
Instance(l, args, nonce, vars) ==
    LET text[i \in 0 .. Len(l) + 1] ==
            IF i > Len(l) THEN <<>>
            ELSE IF Has(l, i, "$")
            THEN args[IF l[i + 1].n = 0 THEN Len(args) ELSE l[i + 1].n] \o text[i + 2]
            ELSE IF Has(l, i, "'") THEN <<Number(nonce)>> \o text[i + 1]
            ELSE IF ~Has(l, i, "?") THEN <<l[i]>> \o text[i + 1]
            ELSE LET name == Glued(Instance(SubSeq(l, i + 1, macro_variable(l, i) - 1), args, nonce, vars))
                 IN vars[name] \o text[macro_variable(l, i)]
    IN text[1]

\* The lines of a macro; a line unique gives registers to the lines below it.
Body(lines, args, nonce) ==
    LET Add(r, l) ==
            LET said == visitLine(Instance(l, args, nonce, r.vars))
            IN IF said.instruction = <<Word("unique")>>
               THEN [lines |-> Append(r.lines, said.label), vars |-> unique(said.params).vars @@ r.vars]
               ELSE [r EXCEPT !.lines = Append(@, Instance(l, args, nonce, r.vars))]
    IN FoldLeft(Add, [lines |-> <<>>, vars |-> <<>>], lines).lines

\* The lines of a source, one by one, and its macros, each with the line it begins in.
Written(t, items) ==
    Sequence([n \in DOMAIN items |->
        [at |-> items[n].first, line |-> t[items[n].first],
         body |-> SelectSeq(SubSeq(t, items[n].first + 1, items[n].last), line)]])
With(macros, item) ==
    add_macro(macros, [name |-> Unblank(item.line)[2], arity |-> Unblank(item.line)[4].n, body |-> item.body])
InLibraries(libraries) ==
    LET Items(n) == Written(AllTokens(libraries[n]), mlb(AllTokens(libraries[n])))
    IN FoldLeft(With, <<>>, Flat([n \in DOMAIN libraries |-> Items(n)]))

RECURSIVE Rewritten(_, _, _)
Rewritten(todo, macros, nonce) ==
    IF todo = <<>> THEN <<>> ELSE
    LET next == Head(todo)
        said == visitLine(next.line)
        At(l) == [next EXCEPT !.line = l]
        made == Body(macros[said.instruction[1]][Len(said.params)].body, said.params, nonce)
        lines == Sequence([n \in 1 .. Len(made) + 1 |-> At(IF n = 1 THEN said.label ELSE made[n - 1])])
    IN IF ~line(next.line)
       THEN Rewritten(Tail(todo), With(macros, next), nonce)
       ELSE IF IsCall(said, macros) THEN Rewritten(lines \o Tail(todo), macros, nonce + 1)
       ELSE <<next>> \o Rewritten(Tail(todo), macros, nonce)

\* The lines a source means, each with the line of the source that it comes from.
Meant(source, libraries) ==
    Rewritten(Written(AllTokens(source), program(AllTokens(source)).list), InLibraries(libraries), 1)

\* A call may not give a macro a parameter of several words: only texts that are rewritten
\* anew would see a call in it.
Simple(lines) == \A l \in ToSet(lines) : line(l) => \A p \in ToSet(visitLine(l).params) : Blank \notin ToSet(p)

\* A library that has a name of an earlier one hides its macros, whatever their arity.
Hides(libraries) ==
    \E m, n \in DOMAIN libraries : m < n /\
        LET one == InLibraries(<<libraries[m]>>) two == InLibraries(<<libraries[n]>>)
        IN \E name \in DOMAIN one \cap DOMAIN two : ~(DOMAIN one[name] \subseteq DOMAIN two[name])

================================================================================
