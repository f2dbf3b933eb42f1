-------------------------------- MODULE MCLinker --------------------------------
(* Programs for Linker: up to two pieces of every kind, or three of some, with   *)
(* absolute sections that leave gaps of several lengths, overlap or do not fit.  *)
EXTENDS Linker

Empty == [l \in {} |-> 0]
At(label, address) == [l \in {label} |-> address]

Whole(label, offset, const) == [label |-> label, offset |-> offset, start |-> 0, stop |-> 2,
                                data |-> const, lower |-> 0, full |-> TRUE, const |-> const]
Low(label, offset, const) == [label |-> label, offset |-> offset, start |-> 0, stop |-> 1,
                              data |-> const % Byte, lower |-> 0, full |-> FALSE, const |-> const]
High(label, offset, const) == [label |-> label, offset |-> offset, start |-> 1, stop |-> 2,
                               data |-> const \div Byte, lower |-> const % Byte, full |-> FALSE, const |-> const]

MCAbs(address, size, entries, fields) ==
    [address |-> address, size |-> size, entries |-> entries, fields |-> fields,
     locations |-> Empty]
MCPiece(name, shape, content) ==
    [name |-> name, size |-> shape[1], alignment |-> shape[2], entries |-> content[1], fields |-> content[2],
     locations |-> Empty]

Code == MCAbs(0, 2, Empty, <<Whole("f", 0, 1)>>)
Ends == <<MCAbs(7, 1, At("h", 7), <<>>), MCAbs(0, 1, Empty, <<Low("f", 0, 1)>>)>>
MCAsects == {
    <<Code>>,
    Ends,
    <<MCAbs(5, 1, At("h", 5), <<>>), Code, MCAbs(5, 0, Empty, <<>>)>>,
    <<Code, MCAbs(1, 1, Empty, <<>>)>>,
    <<MCAbs(3, 6, Empty, <<>>)>>}

MCContents == {
    <<Empty, <<>>>>,
    <<At("f", 0), <<Low("g", 1, 2)>>>>,
    <<At("f", 1), <<Whole(Null, 0, 1), Whole("h", 2, 0)>>>>,
    <<At("g", 0), <<High(Null, 0, 3), High("f", 1, 2)>>>>}
MCShapes == {<<2, 1>>, <<3, 1>>, <<3, 2>>, <<4, 3>>}

\* A field is inside its section.
MCFits(p) == \A f \in Range(p.fields) : f.offset + f.stop - f.start <= p.size

MCPieces == {p \in {MCPiece(n, shape, content) :
                        n \in {"a", "b"}, shape \in MCShapes, content \in MCContents} : MCFits(p)}
MCSimple ==
    {MCPiece("a", shape, <<At("f", 0), <<Low("g", 0, 2)>>>>) : shape \in {<<1, 1>>, <<1, 2>>}} \cup
    {MCPiece("b", shape, <<At("g", 0), <<Whole(Null, 0, 1)>>>>) : shape \in {<<3, 2>>, <<2, 1>>}} \cup
    {MCPiece(n, shape, <<Empty, <<Whole(Null, 0, 1)>>>>) : n \in {"a", "b"}, shape \in {<<2, 2>>, <<2, 1>>}} \cup
    {MCPiece("b", <<0, 1>>, <<At("g", 0), <<>>>>)}

MCPrograms ==
    {[asects |-> a, pieces |-> p] :
        a \in MCAsects,
        p \in [1 .. 1 -> MCPieces] \cup [1 .. 2 -> MCPieces] \cup [1 .. 3 -> MCSimple]}
================================================================================
