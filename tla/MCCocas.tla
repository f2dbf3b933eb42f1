-------------------------------- MODULE MCCocas --------------------------------
(* Builds for Cocas: the programs of MCLinker, a module for each piece, and all     *)
(* pairs of some modules that are hard for object files.                           *)
EXTENDS MCLinker, Cocas

\* The object files of ObjectFile.
MCExport(objs, target, debug) == LET text == export_object(objs, target, debug) IN text
MCImport(text, params) == LET read == visitObject_file(text, params) IN read

Source == [absolute |-> TRUE, canonical |-> FALSE]
Below == [absolute |-> FALSE, canonical |-> FALSE]
WithLines(s, path) == [s EXCEPT !.locations = [at \in {0, 1} |-> [file |-> path, line |-> at + 4, column |-> 1]]]

MCModule(abs, rel) == [file |-> Source, asects |-> abs, rsects |-> rel]
Options(base, realpath) == [base |-> base, realpath |-> realpath]

MCBuild(objs, way, debug, targets, options) ==
    [objs |-> objs, way |-> way, debug |-> debug, target |-> targets[1], reader |-> targets[2],
     options |-> options]

\* The first module has the absolute sections, every other one a piece.
ModulesOf(p) ==
    <<MCModule(p.asects, <<p.pieces[1]>>)>> \o
    [n \in 1 .. Len(p.pieces) - 1 |-> MCModule(<<>>, <<p.pieces[n + 1]>>)]

\* Every program is linked directly, three pieces between two sections also from a library.
MCLinked ==
    {MCBuild(ModulesOf(p), "direct", FALSE, <<"cdm16", "cdm16">>, Options("none", FALSE)) : p \in MCPrograms} \cup
    {MCBuild(ModulesOf(p), "library", TRUE, <<"cdm16", "cdm16">>, Options("none", FALSE)) :
        p \in {q \in MCPrograms : Len(q.pieces) = 3 /\ q.asects = Ends}}

\* Hard modules: fields of every kind, the same section again, nothing but
\* templates, two absolute sections at one address, a label outside its section, a
\* label called like a record.
Rich == MCModule(<<WithLines(MCAbs(0, 2, Empty, <<Whole("f", 0, 1)>>), Source)>>,
                 <<WithLines(MCPiece("a", <<4, 3>>, <<At("f", 1), <<High("g", 1, 6), Low(Null, 2, 3), Whole("g", 0, 5)>>>>),
                             Source),
                   MCPiece("b", <<2, 2>>, <<At("g", 0), <<High(Null, 0, 7)>>>>)>>)
Plain == MCModule(<<>>, <<MCPiece("a", <<2, 1>>, <<Empty, <<>>>>)>>)
Templates == MCModule(<<>>, <<>>)
Twice == MCModule(<<MCAbs(2, 2, Empty, <<Whole("h", 2, 3)>>), MCAbs(2, 0, At("g", 2), <<>>)>>, <<>>)
Outside == [file |-> Below, rsects |-> <<>>, asects |->
                <<MCAbs(4, 1, At("g", 1), <<>>), WithLines(MCAbs(2, 2, At("h", 7), <<>>), Below), MCAbs(6, 0, Empty, <<>>)>>]
Reserved == MCModule(<<>>, <<MCPiece("b", <<2, 1>>, <<At("DATA", 0), <<>>>>)>>)

MCHard == {Rich, Plain, Templates, Twice, Outside, Reserved}
MCLists == [1 .. 1 -> MCHard] \cup [1 .. 2 -> MCHard]

MCWritten ==
    {MCBuild(objs, way, debug, <<t, t>>, Options("none", FALSE)) :
        objs \in MCLists, way \in Ways, debug \in BOOLEAN, t \in {"cdm16", "cdm8e"}}
MCConverted ==
    {MCBuild(objs, way, debug, <<"cdm16", "cdm16">>, Options(base, realpath)) :
        objs \in [1 .. 2 -> {Rich, Outside}], way \in Ways \ {"direct"}, debug \in BOOLEAN,
        base \in {"none", "relative", "absolute"}, realpath \in BOOLEAN}
MCMixed ==
    {MCBuild(<<Plain>>, way, FALSE, targets, Options("none", FALSE)) :
        way \in Ways, targets \in (DOMAIN TargetParams) \X (DOMAIN TargetParams)}

MCBuilds == MCLinked \cup MCWritten \cup MCConverted \cup MCMixed
================================================================================
