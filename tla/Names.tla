-------------------------------- MODULE Names -------------------------------
(***************************************************************************)
(* Names and paths (naming.rs, and `logical_path`, `resolve` of            *)
(* hierarchy.rs), links (links.rs) and media types (media_types.rs).       *)
(*                                                                         *)
(* A text is a sequence of characters, one character of each class the     *)
(* code tells apart; `Path::join` and the walk of a file system are the    *)
(* operators Join and Walk.                                                *)
(***************************************************************************)
EXTENDS Integers, Sequences, FiniteSets, SequencesExt

Lower == {"a", "b"}
Upper == {"A", "B"}
Digit == {"1"}
NonAscii == {"e-acute"}     \* a lower-case letter outside ASCII
Letter == Lower \cup Upper \cup NonAscii
Alphanumeric == Letter \cup Digit
Blank == {" "}
Control == {"NUL"}
Forbidden == {"#", "/", ":"}

All(s, set) == \A i \in DOMAIN s : s[i] \in set
LowerCase(c) == CASE c = "A" -> "a" [] c = "B" -> "b" [] OTHER -> c
Folded(s) == [i \in DOMAIN s |-> LowerCase(s[i])]
\* guard_eq: what decides which file a name points at folds ASCII case.
GuardEq(s, t) == Folded(s) = Folded(t)

\* str::split: the parts between the separators, at least one, read from left
\* to right.
Split(s, sep) ==
    LET parts[n \in 0 .. Len(s)] ==
            IF n = 0 THEN <<(<<>>)>>
            ELSE LET before == parts[n - 1]
                 IN  IF s[n] = sep THEN Append(before, <<>>)
                     ELSE [before EXCEPT ![Len(before)] = Append(@, s[n])]
    IN  parts[Len(s)]

-----------------------------------------------------------------------------
(* Components and paths                                                    *)

\* CaseRule::matches, the letters that are no ASCII included.
Letters(s) == SelectSeq(s, LAMBDA c : c \in Letter)
UpperLetters == Upper
LowerLetters == Lower \cup NonAscii
Segmented(s, sep) == All(s, Alphanumeric \cup {sep}) /\ \A p \in ToSet(Split(s, sep)) : p # <<>>
Starts(s, set) == Letters(s) = <<>> \/ Letters(s)[1] \in set
MatchesCase(rule, stem) ==
    CASE rule = "PascalCase" -> All(stem, Alphanumeric) /\ Starts(stem, UpperLetters)
      [] rule = "camelCase" -> All(stem, Alphanumeric) /\ Starts(stem, LowerLetters)
      [] rule = "Snake_case" -> /\ Segmented(stem, "_")
                                /\ \/ All(Letters(stem), LowerLetters)
                                   \/ All(Letters(stem), UpperLetters)
      [] rule = "kebab-case" -> Segmented(stem, "-") /\ All(Letters(stem), LowerLetters)
CaseRules == {"PascalCase", "camelCase", "Snake_case", "kebab-case"}
Classify(name) == {rule \in CaseRules : MatchesCase(rule, name)}

ValidComponent(name) == name # <<>> /\ All(name, (Alphanumeric \cup {"_", "-", ".", "|"}))

Relative(path) == IF path # <<>> /\ path[1] = "/" THEN Tail(path) ELSE path
Dots == {<<".">>, <<".", ".">>}
ValidPath(path) ==
    /\ path # <<>>
    /\ \/ Relative(path) = <<>>
       \/ \A part \in ToSet(Split(Relative(path), "/")) : ValidComponent(part) /\ part \notin Dots

\* The last dot, unless it leads the name.
SplitExtension(name) ==
    LET dots == {i \in 2 .. Len(name) : name[i] = "."}
        last == CHOOSE i \in dots : \A j \in dots : j <= i
    IN  IF dots = {} THEN [stem |-> name, extension |-> {}]
        ELSE [stem |-> SubSeq(name, 1, last - 1), extension |-> {SubSeq(name, last + 1, Len(name))}]

\* StyleGuide: reserved stems are exempt from the case rule, spelled exactly.
StyleAccepts(rule, reserved, name) ==
    /\ ValidComponent(name)
    /\ SplitExtension(name).stem \in reserved \/ MatchesCase(rule, SplitExtension(name).stem)
StyleAcceptsPath(rule, reserved, path) ==
    /\ ValidPath(path)
    /\ Relative(path) = <<>> \/ \A p \in ToSet(Split(Relative(path), "/")) : StyleAccepts(rule, reserved, p)

\* known_extension of the Name7 table, for the extensions of the instance.
FileWarnings(name, known) ==
    {w \in {"NonAscii", "NonSpecExtension"} :
        \/ w = "NonAscii" /\ ~All(name, {c \in ToSet(name) : c \notin NonAscii})
        \/ w = "NonSpecExtension" /\ \E e \in SplitExtension(name).extension : Folded(e) \notin known}

LogicalPath(path) == <<"/">> \o Relative(path)

\* reserved_tree_of: the first component, letter case folded.
TrimStart(path) ==
    LET others == {i \in DOMAIN path : path[i] # "/"}
    IN  IF others = {} THEN <<>>
        ELSE SubSeq(path, CHOOSE i \in others : \A j \in others : i <= j, Len(path))
ReservedTreeOf(path, trees) == {t \in trees : GuardEq(Split(TrimStart(path), "/")[1], t)}

-----------------------------------------------------------------------------
(* The file system: joining an absolute path replaces what it is joined to, *)
(* "." and empty parts stay, ".." goes up.  <<"root">> is the datastore.   *)

Join(path) == IF path # <<>> /\ path[1] = "/" THEN <<>> ELSE <<"root">>
Enter(at, part) ==
    IF part \in {<<>>, <<".">>} THEN at
    ELSE IF part = <<".", ".">> THEN (IF at = <<>> THEN at ELSE Front(at))
    ELSE Append(at, part)
Walk(path) ==
    LET parts == Split(path, "/")
        at[n \in 0 .. Len(parts)] == IF n = 0 THEN Join(path) ELSE Enter(at[n - 1], parts[n])
    IN  at[Len(parts)]
\* DatastoreLayout::resolve
Resolve(path) == Walk(Relative(path))

\* A path that is accepted stays in the datastore whatever its spelling, at a
\* place below its root for every component (Requirement File2-B); and its
\* logical form is another spelling of it.
StaysInside(path) ==
    ValidPath(path) =>
        /\ Resolve(path) # <<>> /\ Resolve(path)[1] = "root"
        /\ Relative(path) # <<>> => Len(Resolve(path)) = Len(Split(Relative(path), "/")) + 1
        /\ LogicalPath(LogicalPath(path)) = LogicalPath(path) /\ ValidPath(LogicalPath(path))
        /\ Resolve(LogicalPath(path)) = Resolve(path)

\* One place has one logical path, however it is spelled.
OneForm(path, other) ==
    ValidPath(path) /\ ValidPath(other) =>
        (Resolve(path) = Resolve(other) <=> LogicalPath(path) = LogicalPath(other))

\* A path that reaches a reserved tree on a file system that folds letter case
\* is fenced, however it is spelled.
Fenced(path, trees) ==
    ValidPath(path) /\ Len(Resolve(path)) > 1 =>
        ((ReservedTreeOf(path, trees) # {}) <=> \E t \in trees : GuardEq(Resolve(path)[2], t))

-----------------------------------------------------------------------------
(* Links and media types                                                   *)

Excluded == {"|"}
Scheme(s) == s # <<>> /\ s[1] \in Lower \cup Upper /\ All(s, Lower \cup Upper \cup Digit \cup {"-", "."})
ClassifyHref(href) ==
    LET colons == {i \in DOMAIN href : href[i] = ":"}
        first == CHOOSE i \in colons : \A j \in colons : i <= j
    IN  IF href = <<>> \/ \E i \in DOMAIN href : href[i] \in Blank \cup Control \cup Excluded
        THEN "invalid"
        ELSE IF colons = {} \/ ~Scheme(SubSeq(href, 1, first - 1)) THEN "relative"
        ELSE IF first = Len(href) THEN "invalid" ELSE "absolute"
LinkValid(link) == ClassifyHref(link.href) # "invalid" /\ link.rel # <<>>

\* MediaType: a string of the table is its entry, any other is kept as it is.
SpecTable ==
    {"model/flt", "application/geo+json", "application/geopackage+sqlite3",
     "image/tiff; application=geotiff", "application/gltf-buffer", "model/gltf-binary",
     "model/gltf+json", "application/gml+xml", "image/jp2", "application/json", "image/png",
     "application/vnd.shp", "image/tiff", "application/xml"}
ParseMediaType(value) ==
    IF value \in SpecTable THEN [entry |-> TRUE, text |-> value] ELSE [entry |-> FALSE, text |-> value]
ForExtension(extension) ==
    CASE extension = "flt" -> "model/flt" [] extension = "gpkg" -> "application/geopackage+sqlite3"
      [] extension = "jp2" -> "image/jp2" [] extension = "json" -> "application/json"
      [] extension = "png" -> "image/png" [] extension \in {"shp", "shx"} -> "application/vnd.shp"
      [] extension = "tif" -> "image/tiff" [] extension \in {"xml", "xsd"} -> "application/xml"
      [] extension = "glb" -> "model/gltf-binary" [] extension = "gltf" -> "model/gltf+json"
=============================================================================
