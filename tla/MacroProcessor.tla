----------------------------- MODULE MacroProcessor ----------------------------
(***************************************************************************)
(* ExpandMacrosVisitor: the text a source becomes when its macros are         *)
(* expanded, with the line marks that say which line of which file follows.   *)
(* Python's exceptions and the errors of the program are all called errors.    *)
(***************************************************************************)
EXTENDS MacroParser

CONSTANT
    MaxDepth    \* calls of macros in macros before Python gives up (RecursionError)

Strip(l) == LET said == {i \in DOMAIN l : l[i] # Blank}
            IN IF said = {} THEN <<>> ELSE SubSeq(l, Min(said), Max(said))
Rstrip(l) == IF l # <<>> /\ Last(l) = Blank THEN Front(l) ELSE l
Text(l) == Glued(Strip(l))

\* Registers for the parameters that name none; a name given twice has the last one.
unique(params) ==
    LET IsReg(p) == Len(p) = 1 /\ p[1].type = "REGISTER" /\ p[1].n < 10
        regs == SelectSeq(params, IsReg)
        var_params == SelectSeq(params, LAMBDA p : ~IsReg(p))
        available == (0 .. 3) \ {r[1].n : r \in ToSet(regs)}
        Nth(k) == CHOOSE n \in available : Cardinality({m \in available : m < n}) = k - 1
        LastOf(p) == Max({k \in DOMAIN var_params : var_params[k] = p})
    IN IF \/ ~IsInjective(regs) \/ Len(var_params) > Cardinality(available)
          \/ \E r \in ToSet(regs) : r[1].n > 3
       THEN [error |-> TRUE]
       ELSE [error |-> FALSE, vars |-> [p \in ToSet(var_params) |-> <<Reg(Nth(LastOf(p)))>>]]

--------------------------------------------------------------------------------
(* Pieces: tokens, the nonce, parameters, and variables with the pieces of their  *)
(* names.                                                                         *)

MacroVariable(name_pieces) == [type |-> "?", name_pieces |-> name_pieces]
MacroParameter(n) == Numbered("$", n)
MacroNonce == Mark("'")

visitMacro_piece(l, i) == IF macro_param(l, i) THEN MacroParameter(l[i + 1].n) ELSE l[i]
visitMacro_variable(l, i) ==
    LET pieces[j \in 0 .. Len(l) + 1] ==
            IF macro_piece(l, j) = 0 THEN <<>> ELSE <<visitMacro_piece(l, j)>> \o pieces[macro_piece(l, j)]
    IN MacroVariable(pieces[i + 1])

\* visitLabels, visitFirst_param, visitMacro_item of a part of a line.
visitMacro_item(l) ==
    LET pieces[i \in 0 .. Len(l) + 1] ==
            IF i > Len(l) THEN <<>>
            ELSE IF macro_variable(l, i) # 0 THEN <<visitMacro_variable(l, i)>> \o pieces[macro_variable(l, i)]
            ELSE <<visitMacro_piece(l, i)>> \o pieces[IF macro_piece(l, i) = 0 THEN i + 1 ELSE macro_piece(l, i)]
    IN pieces[1]

\* The parameters of a line: what is between the commas, first what is before them.
ParamsOf(l) ==
    LET commas == Params(l)
        begin == instruction(l)
        From(k) == IF k = 0 THEN begin ELSE commas[k] + 1
        To(k) == IF k = Len(commas) THEN Len(l) ELSE commas[k + 1] - 1
    IN Sequence([k \in 1 .. Len(commas) + 1 |-> SubSeq(l, From(k - 1), To(k - 1))])
LabelsOf(l) == SubSeq(l, 1, labels(l) - 1)
InstructionOf(l) == SubSeq(l, labels(l), instruction(l) - 1)
EachOf(parts, F(_)) == Sequence([k \in DOMAIN parts |-> F(parts[k])])

MacroLine(l) ==
    [label_pieces |-> visitMacro_item(LabelsOf(l)), instruction_pieces |-> visitMacro_item(InstructionOf(l)),
     parameter_pieces |-> EachOf(ParamsOf(l), visitMacro_item)]

\* The pieces as a text, or an error: no such parameter, no such variable.  The parameter
\* $0 is the last one.
Bad == <<Mark("error")>>
RECURSIVE substitute_piece(_, _, _, _)
Joined(pieces, params, nonce, variables) ==
    Flat([i \in DOMAIN pieces |-> substitute_piece(pieces[i], params, nonce, variables)])
substitute_piece(piece, params, nonce, variables) ==
    LET n == IF piece.n = 0 THEN Len(params) ELSE piece.n
        var_name == Glued(Joined(piece.name_pieces, params, nonce, variables))
    IN CASE piece.type = "$" -> IF n \in DOMAIN params THEN params[n] ELSE Bad
         [] piece.type = "'" -> <<Number(nonce)>>
         [] piece.type = "?" -> IF var_name \in DOMAIN variables THEN variables[var_name] ELSE Bad
         [] OTHER -> <<piece>>

substitute_pieces_in_line(ml, params, nonce, variables) ==
    LET All(pieces) == Joined(pieces, params, nonce, variables)
    IN [label |-> All(ml.label_pieces), instruction |-> All(ml.instruction_pieces),
        params |-> EachOf(ml.parameter_pieces, All)]

--------------------------------------------------------------------------------
(* Macros by name and arity.                                                     *)

WithoutBlanks(ml) ==
    [ml EXCEPT !.label_pieces = Unblank(@), !.instruction_pieces = Unblank(@),
               !.parameter_pieces = EachOf(@, Unblank)]
SameBody(a, b) == [n \in DOMAIN a.lines |-> WithoutBlanks(a.lines[n])] = [n \in DOMAIN b.lines |-> WithoutBlanks(b.lines[n])]

\* The macro that begins in line first of the text t of a file.  Blank lines do not count.
visitMacro_body(t, first, last) ==
    LET said == SelectSeq(SubSeq(t, first + 1, last), LAMBDA l : Unblank(l) # <<>> /\ line(l))
    IN Sequence([n \in DOMAIN said |-> MacroLine(said[n])])
visitMacro(t, item, file) ==
    LET header == Unblank(t[item.first])
    IN [name |-> header[2], arity |-> header[4].n, lines |-> visitMacro_body(t, item.first, item.last),
        location |-> CodeLocation(file, item.first + 1)]

Known(macros, name, arity) == name \in DOMAIN macros /\ arity \in DOMAIN macros[name]
Redefined(macros, defn) ==
    Known(macros, defn.name, defn.arity) /\ ~SameBody(macros[defn.name][defn.arity], defn)
add_macro(macros, defn) ==
    LET others == IF defn.name \in DOMAIN macros THEN macros[defn.name] ELSE <<>>
    IN (defn.name :> ((defn.arity :> defn) @@ others)) @@ macros

--------------------------------------------------------------------------------
(* Calls.                                                                        *)

_generate_location_line(file, at, info) ==
    <<Mark("-|"), Number(at), Token("BASE64", file)>> \o IF info = "" THEN <<>> ELSE <<Word(info)>>

\* A label of a call has a line of its own.
LabelLine(l) == << Rstrip(l) >>

\* The lines of a call; each line of the macro makes one, but for a call in it.
RECURSIVE expand_macro(_, _, _, _, _)

expand_line(r, ml, defn, params, nonce, macros, depth) ==
    LET parts == substitute_pieces_in_line(ml, params, nonce, r.variables)
        stripped == EachOf(parts.params, Text)
        parameters == IF stripped = << <<>> >> THEN <<>> ELSE stripped
        called == Glued(parts.instruction)
        made == unique(parameters)
        inner == expand_macro(called, parameters, macros, r.nonce, depth + 1)
        back == _generate_location_line(defn.location.file, defn.location.line + r.line_number + 1, "")
        text == parts.label \o parts.instruction \o
                Flat([k \in DOMAIN parts.params |-> IF k = 1 THEN parts.params[1] ELSE <<Mark(",")>> \o parts.params[k]])
        next == [r EXCEPT !.line_number = @ + 1]
    IN IF r.error \/ Bad[1] \in ToSet(text) THEN [r EXCEPT !.error = TRUE]
       ELSE IF called = <<Word("unique")>>
            THEN IF made.error THEN [r EXCEPT !.error = TRUE]
                 ELSE [next EXCEPT !.out = @ \o LabelLine(parts.label), !.variables = made.vars @@ @]
       ELSE IF Len(called) = 1 /\ Known(macros, called[1], Len(parameters))
            THEN [next EXCEPT !.error = inner.error, !.nonce = inner.nonce,
                              !.out = @ \o LabelLine(parts.label) \o inner.out \o << <<>>, back >>]
       ELSE [next EXCEPT !.out = Append(@, text)]

\* Mutant: the nonce of a macro is not used up.
expand_macro_again(name, params, macros, nonce, depth) ==
    LET defn == macros[name[1]][Len(params)]
        begin == [error |-> depth > MaxDepth, nonce |-> nonce, variables |-> <<>>, line_number |-> 0,
                  out |-> << _generate_location_line(defn.location.file, defn.location.line, "") >>]
        More(r, ml) == expand_line(r, ml, defn, params, nonce + 1, macros, depth)
    IN FoldLeft(More, begin, IF begin.error THEN <<>> ELSE defn.lines)

expand_macro(name, params, macros, nonce, depth) ==
    LET defn == macros[name[1]][Len(params)]
        begin == [error |-> depth > MaxDepth, nonce |-> nonce + 1, variables |-> <<>>, line_number |-> 0,
                  out |-> << _generate_location_line(defn.location.file, defn.location.line, "") >>]
        More(r, ml) == expand_line(r, ml, defn, params, nonce + 1, macros, depth)
    IN FoldLeft(More, begin, IF begin.error THEN <<>> ELSE defn.lines)

--------------------------------------------------------------------------------
(* Sources and libraries.                                                        *)

\* What a line says: its labels, its instruction and its parameters.
visitLine(l) ==
    LET parameters == EachOf(ParamsOf(l), Text)
    IN [label |-> Rstrip(LabelsOf(l)), instruction |-> Glued(InstructionOf(l)),
        params |-> IF parameters = << <<>> >> THEN <<>> ELSE parameters]
IsCall(said, macros) == Len(said.instruction) = 1 /\ Known(macros, said.instruction[1], Len(said.params))

\* What is behind a macro or a call has a mark of its own.
MarkBehind(item, file) == _generate_location_line(file, item.last + 1, "")

\* A mark waits for the line behind it; TokenStreamRewriter puts a call before it.
visitCall(r, item, said, file) ==
    LET call == expand_macro(said.instruction, said.params, r.macros, r.nonce, 1)
        own == IF said.label = <<>> THEN <<>> ELSE <<said.label>>
    IN [r EXCEPT !.error = call.error, !.nonce = call.nonce, !.mark = <<>>,
        !.out = @ \o << _generate_location_line(file, item.first, "mstart") >> \o own \o call.out \o
                << Append(MarkBehind(item, file), Word("mstop")) >> \o r.mark]

visitItem(r, t, item, file) ==
    LET l == t[item.first]
        defn == visitMacro(t, item, file)
        said == visitLine(l)
    IN IF r.error THEN r
       ELSE IF ~line(l)
            THEN [r EXCEPT !.error = Redefined(r.macros, defn), !.macros = add_macro(@, defn),
                           !.out = @ \o r.mark, !.mark = <<MarkBehind(item, file)>>]
       ELSE IF IsCall(said, r.macros) THEN visitCall(r, item, said, file)
       ELSE [r EXCEPT !.out = Append(@ \o r.mark, l), !.mark = <<>>]

visitProgram(t, items, library_macros, file) ==
    FoldLeft(LAMBDA r, item : visitItem(r, t, item, file),
             [error |-> FALSE, macros |-> library_macros, nonce |-> 0, out |-> <<>>,
              mark |-> << _generate_location_line(file, 1, "") >>], items)

AllTokens(source) == EachOf(source, MacroTokens)

\* The text of a source with the given macros, or an error.
process_macros(source, library_macros, file) ==
    LET t == AllTokens(source)
        tree == program(t)
        r == visitProgram(t, tree.list, library_macros, file)
    IN IF tree.error \/ r.error THEN [error |-> TRUE]
       ELSE [error |-> FALSE, text |-> EachOf(r.out \o r.mark, Lexed)]

read_mlb(source, file) ==
    LET t == AllTokens(source)
        Add(r, item) == [error |-> r.error \/ Redefined(r.macros, visitMacro(t, item, file)),
                         macros |-> add_macro(r.macros, visitMacro(t, item, file))]
    IN FoldLeft(Add, [error |-> FALSE, macros |-> <<>>], mlb(t))

\* assemble_files: a library replaces all macros of a name it has, of every arity.
WithLibrary(r, lib) ==
    LET differs == \E name \in DOMAIN lib.macros \cap DOMAIN r.macros :
                    \E n \in DOMAIN lib.macros[name] : Redefined(r.macros, lib.macros[name][n])
    IN [error |-> r.error \/ lib.error \/ differs, macros |-> lib.macros @@ r.macros]
MacrosOf(libraries) == FoldLeft(WithLibrary, Head(libraries), Tail(libraries))

\* assemble_files, of one source; the first library is the standard one.
expand_source(source) ==
    LET libs == Sequence([n \in DOMAIN source.libraries |-> read_mlb(source.libraries[n], "library" \o ToString(n))])
        known == MacrosOf(libs)
    IN IF known.error THEN [error |-> TRUE] ELSE process_macros(source.lines, known.macros, "main")

================================================================================
