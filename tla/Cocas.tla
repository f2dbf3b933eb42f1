--------------------------------- MODULE Cocas ---------------------------------
(***************************************************************************)
(* The program cocas behind its assembler: compiled modules are linked       *)
(* directly, or written into object files, one each or all in one, perhaps   *)
(* merged into a library, read back and then linked (main.py).               *)
(***************************************************************************)
EXTENDS Linker, ObjectFile

CONSTANTS
    Builds,                 \* how modules are built: objs, way, debug, target, reader, options
    object_export(_, _, _), \* export_object and visitObject_file of ObjectFile, as constants: what
    object_import(_, _)     \* a file looks like is no matter of the actions below

Ways == {"direct", "separate", "together", "library"}

FileExceptions == {"syntax error", "object error", "wrong target", "no source file"}

\* Object modules as compiled, and lists of them.
IsModule(obj) ==
    /\ IsList(obj.asects) /\ \A s \in Range(obj.asects) : IsAbs(s)
    /\ IsList(obj.rsects) /\ \A s \in Range(obj.rsects) : IsRel(s)
Modules(objs) == objs \in Seq(Range(objs)) /\ \A obj \in Range(objs) : IsModule(obj)

\* What reading a file makes of it, and the modules that are kept of that.
Opened(b, file) == object_import(file, TargetParams[b.reader])
NoSource(b, read) == NeedsFile(b.options) /\ \E obj \in Range(read.objs) : obj.file = Null
Kept(b, read) == [n \in DOMAIN read.objs |-> ConvertPaths(read.objs[n], b.options)]

\* The files of a build: those of cocas -c, and the library, which has what is kept of them.
FileOf(b, n) == object_export(<<b.objs[n]>>, b.target, b.debug)
ReadOf(b, n) == Opened(b, FileOf(b, n))
Readable(b, read) == read.error = "" /\ ~NoSource(b, read)
KeptOfFirst(b) ==
    LET kept[n \in 0 .. Len(b.objs)] == IF n = 0 THEN <<>> ELSE kept[n - 1] \o Kept(b, ReadOf(b, n))
    IN kept
Library(b) == object_export(KeptOfFirst(b)[Len(b.objs)], b.target, TRUE)
FilesOf(b) ==
    UNION {IF b.way \in {"separate", "library"} THEN {FileOf(b, n) : n \in DOMAIN b.objs} ELSE {},
           IF b.way = "together" THEN {object_export(b.objs, b.target, b.debug)} ELSE {},
           IF b.way = "library" /\ \A n \in DOMAIN b.objs : Readable(b, ReadOf(b, n))
           THEN {Library(b)} ELSE {}}

\* A build has an object module at least (main.py:50; macro libraries alone, which have none,
\* are left out), and what is read of a file that modules were written into are modules, if
\* not an error.
ASSUME FilesAssumption ==
    \A b \in Builds :
        /\ b.way \in Ways /\ Modules(b.objs) /\ b.objs # <<>>
        /\ \A file \in FilesOf(b) :
            LET read == Opened(b, file) IN
            /\ read.error \in FileExceptions \cup {""}
            /\ Readable(b, read) => Modules(Kept(b, read))

VARIABLES
    build,      \* the one of Builds that is done
    files,      \* the object files to be read
    written,    \* build.objs[1 .. written] are in their files
    loaded,     \* the modules read
    merged      \* they were read from the library

fileVars == <<build, files, written, loaded, merged>>
linkVars == <<asects, pieces, rsects, used, todo, placeVars, fieldVars>>

Reading == "reading"

CocasInit ==
    /\ build \in Builds /\ stage = Reading
    /\ files = <<>> /\ written = 0 /\ merged = FALSE
    /\ loaded = IF build.way = "direct" THEN build.objs ELSE <<>>
    /\ asects = <<>> /\ pieces = <<>> /\ rsects = <<>>
    /\ used = {Abs} /\ todo = {Abs} /\ binned = 0 /\ lastBinBegin = 0 /\ bins = <<>>
    /\ addresses = <<>> /\ jobs = {} /\ lowerParts = [pos \in {} |-> 0] /\ image = <<>>

AllWritten == build.way = "direct" \/ written = Len(build.objs)

\* cocas -c: a file for each module.
Compile ==
    /\ stage = Reading /\ build.way \in {"separate", "library"} /\ ~AllWritten
    /\ written' = written + 1
    /\ files' = Append(files, FileOf(build, written'))
    /\ UNCHANGED <<stage, build, loaded, merged, linkVars>>

\* cocas -c -o file.
CompileTogether ==
    /\ stage = Reading /\ build.way = "together" /\ ~AllWritten
    /\ written' = Len(build.objs)
    /\ files' = <<object_export(build.objs, build.target, build.debug)>>
    /\ UNCHANGED <<stage, build, loaded, merged, linkVars>>

\* read_object_files, one file.
Read ==
    /\ stage = Reading /\ AllWritten /\ files # <<>> /\ files' = Tail(files)
    /\ LET read == Opened(build, Head(files))
       IN IF read.error # "" THEN stage' = read.error /\ UNCHANGED loaded
          ELSE IF NoSource(build, read) THEN stage' = "no source file" /\ UNCHANGED loaded
          ELSE loaded' = loaded \o Kept(build, read) /\ UNCHANGED stage
    /\ UNCHANGED <<build, written, merged, linkVars>>

AllRead == AllWritten /\ files = <<>>

\* cocas -m: what was read goes into one file, with debug information.
Merge ==
    /\ stage = Reading /\ AllRead /\ build.way = "library" /\ ~merged /\ merged' = TRUE
    /\ files' = <<object_export(loaded, build.target, TRUE)>> /\ loaded' = <<>>
    /\ UNCHANGED <<stage, build, written, linkVars>>

\* target_link
Link ==
    /\ stage = Reading /\ AllRead /\ (build.way = "library" => merged) /\ stage' = "concat"
    /\ asects' = FlattenSeq([n \in DOMAIN loaded |-> loaded[n].asects])
    /\ pieces' = FlattenSeq([n \in DOMAIN loaded |-> loaded[n].rsects])
    /\ UNCHANGED <<rsects, used, todo, placeVars, fieldVars, fileVars>>

CocasNext ==
    \/ Compile \/ CompileTogether \/ Read \/ Merge \/ Link
    \/ Next /\ UNCHANGED fileVars

cocasVars == <<vars, fileVars>>
CocasSpec == CocasInit /\ [][CocasNext]_cocasVars

--------------------------------------------------------------------------------
(* Properties.                                                                  *)

\* The lists of main.py and of link.
TypeOK ==
    /\ stage \in {Reading} \cup LinkStages \cup FileExceptions
    /\ build.way \in Ways /\ written \in 0 .. Len(build.objs) /\ merged \in BOOLEAN
    /\ Len(files) <= Len(build.objs)
    /\ \A obj \in Range(loaded) : \A s \in Range(obj.asects) \cup Range(obj.rsects) : IsRecord(s)
    /\ LinkTypeOK

\* Names that an object file can hold: none is a word that begins its lines.
NamesOf(obj) ==
    UNION {DOMAIN s.entries \cup {f.label : f \in Range(s.fields)} : s \in Range(obj.asects) \cup Range(obj.rsects)}
    \cup {s.name : s \in Range(obj.rsects)}

\* A module of its own object file comes back: it has something to write, no two
\* absolute sections at one address, and no name that the lexer takes for a keyword.
Writable(obj) ==
    /\ obj.rsects # <<>> \/ \E s \in Range(obj.asects) : asect_useful(s)
    /\ NamesOf(obj) \cap Keywords = {}
    /\ \A i, j \in DOMAIN obj.asects : obj.asects[i].address = obj.asects[j].address => i = j

\* Several modules in one file are told apart by their source files.
Faithful ==
    /\ \A obj \in Range(build.objs) : Writable(obj)
    /\ build.reader = build.target
    /\ LET located == build.debug /\ \A obj \in Range(build.objs) : obj.file # Null
       IN /\ build.way \in {"together", "library"} /\ Len(build.objs) > 1 => located
          /\ build.way # "direct" /\ NeedsFile(build.options) => located

AllOf(sects, Get(_)) == UNION {Get(s) : s \in Range(sects)}
SameEntries(s) == {<<l, s.entries[l]>> : l \in DOMAIN s.entries}
SameFields(s) == {[f EXCEPT !.const = 0] : f \in Range(s.fields)}

Useful(obj) == {s \in Range(obj.asects) : asect_useful(s)}

\* The same code: relocatable sections one by one, absolute ones by what they put where.
SameCode(a, b) ==
    /\ Len(a.rsects) = Len(b.rsects)
    /\ \A n \in DOMAIN a.rsects :
        LET s == a.rsects[n] t == b.rsects[n] IN
        /\ <<s.name, s.size, s.alignment>> = <<t.name, t.size, t.alignment>>
        /\ SameEntries(s) = SameEntries(t) /\ SameFields(s) = SameFields(t)
    /\ {<<s.address, s.size>> : s \in Useful(a)} = {<<s.address, s.size>> : s \in Useful(b)}
    /\ AllOf(a.asects, SameEntries) = AllOf(b.asects, SameEntries)
    /\ AllOf(a.asects, SameFields) = AllOf(b.asects, SameFields)

Lines(s) == [at \in DOMAIN s.locations |-> <<s.locations[at].line, s.locations[at].column>>]
LinesOf(obj) == <<{<<s.name, Lines(s)>> : s \in Range(obj.rsects)},
                  {<<s.address, Lines(s)>> : s \in Useful(obj)}>>

\* What was compiled is what is linked, whichever files it went through, when the
\* files can hold it: every module with its code, and with its lines if it was
\* written with them (object_export, object_import).
LinkedAsCompiled ==
    Faithful =>
        /\ stage \notin FileExceptions
        /\ stage = "concat" =>
            /\ Len(loaded) = Len(build.objs)
            /\ \A n \in DOMAIN loaded :
                /\ SameCode(build.objs[n], loaded[n])
                /\ loaded[n].file # Null => LinesOf(build.objs[n]) = LinesOf(loaded[n])

================================================================================
