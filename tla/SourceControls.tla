--------------------------- MODULE SourceControls ---------------------------
(***************************************************************************)
(* The control files of a CDB 1.x source: their discovery                  *)
(* (cdb_migrator/src/reader.rs), the supported subset of Version.xml and   *)
(* Configuration.xml (cdb_migrator/src/version_meta.rs) and what planning  *)
(* refuses (`validate_controls` of cdb_migrator/src/plan.rs).              *)
(*                                                                         *)
(* A document is the sequence of events of the XML reader: [kind, name,    *)
(* attrs], the attributes a sequence of keys and values.  A start tag has  *)
(* kind "start" or "empty", character data "text", "cdata" or "reference", *)
(* "blank" white space only; "bad" is an error of the reader itself.       *)
(***************************************************************************)
EXTENDS Integers, Sequences, FiniteSets, SequencesExt

Undeclared == "absent"
Blank == {"", " "}
KnownSpecification == {"1.0", "1.1", "1.2", "3.0", "3.1", "3.2"}

-----------------------------------------------------------------------------
(* Documents                                                               *)

\* start_node: the elements that may stand in an element, under a root.
Permitted(root, parents) ==
    IF parents = <<>> THEN {root}
    ELSE CASE Last(parents).name = "Configuration" -> {"Comment", "Version"}
           [] Last(parents).name = "Version" ->
                {"Comment", "Specification", "Metadata", "Extension"}
                    \cup (IF root = "Version" THEN {"PreviousIncrementalRootDirectory"}
                          ELSE {"Folder"})
           [] OTHER -> {}
AllowedAttributes(name) ==
    CASE name = "Specification" -> {"version", "authority", "update"}
      [] name = "Metadata" -> {"standard"}
      [] name = "Extension" -> {"name", "version"}
      [] name = "PreviousIncrementalRootDirectory" -> {"name"}
      [] name = "Folder" -> {"path"}
      [] OTHER -> {}
\* attributes: known ones, none of them twice.
AttributesFit(event) ==
    /\ \A i \in DOMAIN event.attrs : event.attrs[i][1] \in AllowedAttributes(event.name)
    /\ \A i, j \in DOMAIN event.attrs : i # j => event.attrs[i][1] # event.attrs[j][1]
Attribute(node, key) ==
    LET at == {i \in DOMAIN node.attrs : node.attrs[i][1] = key}
    IN  IF at = {} THEN Undeclared ELSE node.attrs[CHOOSE i \in at : TRUE][2]

\* Mutant: a second element of a kind replaces the first.
StartsAnywhere(root, at, event) ==
    event.name \in Permitted(root, at.stack) /\ AttributesFit(event)
Starts(root, at, event) ==
    /\ event.name \in Permitted(root, at.stack)
    /\ at.stack # <<>> /\ event.name # "Version" =>
          \A i \in DOMAIN Last(at.stack).children : Last(at.stack).children[i].name # event.name
    /\ AttributesFit(event)

Refused == [ok |-> FALSE, stack |-> <<>>, root |-> <<>>]
Open(at, event) ==
    [at EXCEPT !.stack =
        Append(@, [name |-> event.name, attrs |-> event.attrs, children |-> <<>>])]
\* finish_node
Close(at) ==
    LET node == Last(at.stack)
        rest == Front(at.stack)
    IN  IF at.stack = <<>> THEN Refused
        ELSE IF rest # <<>>
        THEN [at EXCEPT !.stack = [rest EXCEPT ![Len(rest)].children = Append(@, node)]]
        ELSE IF at.root # <<>> THEN Refused
        ELSE [at EXCEPT !.stack = <<>>, !.root = <<node>>]

\* One event; `first` tells whether it is at the very start.
Accept(root, at, event, first) ==
    CASE event.kind \in {"start", "empty"} ->
            IF (at.root # <<>> /\ at.stack = <<>>) \/ ~Starts(root, at, event) THEN Refused
            ELSE IF event.kind = "empty" THEN Close(Open(at, event)) ELSE Open(at, event)
      [] event.kind = "end" ->      \* the reader compares the name with the open tag
            IF at.stack # <<>> /\ Last(at.stack).name = event.name THEN Close(at) ELSE Refused
      [] event.kind \in {"text", "cdata", "reference"} ->   \* text_content
            IF at.stack # <<>> /\ Last(at.stack).name = "Comment" THEN at ELSE Refused
      [] event.kind \in {"blank", "comment"} -> at
      [] event.kind = "declaration" -> IF first THEN at ELSE Refused
      [] OTHER -> Refused       \* DTDs, processing instructions, malformed text

\* document
Document(events, root) ==
    LET Read(at, i) == IF at.ok THEN Accept(root, at, events[i], i = 1) ELSE at
        final == FoldLeft(Read, [ok |-> TRUE, stack |-> <<>>, root |-> <<>>],
                          [i \in DOMAIN events |-> i])
    IN  IF final.ok /\ final.stack = <<>> THEN final.root ELSE <<>>

-----------------------------------------------------------------------------
(* Declarations: a set, empty when the element is refused.                 *)

Child(node, name) == SelectSeq(node.children, LAMBDA c : c.name = name)
Required(node, name, key) ==
    Child(node, name) # <<>> => Attribute(Child(node, name)[1], key) # Undeclared
Given(node, name, key) ==
    IF Child(node, name) = <<>> THEN Undeclared ELSE Attribute(Child(node, name)[1], key)
\* declaration: a version or a standard may be blank, the previous root not.
Declaration(node) ==
    IF /\ Required(node, "Specification", "version")
       /\ Required(node, "PreviousIncrementalRootDirectory", "name")
       /\ Given(node, "PreviousIncrementalRootDirectory", "name") \notin Blank
       /\ Required(node, "Metadata", "standard")
       /\ Required(node, "Extension", "name") /\ Required(node, "Extension", "version")
    THEN {[specification |-> Given(node, "Specification", "version"),
           previous |-> Given(node, "PreviousIncrementalRootDirectory", "name"),
           standard |-> Given(node, "Metadata", "standard"),
           extension |-> Given(node, "Extension", "name")]}
    ELSE {}
ParseVersion(events) ==
    LET root == Document(events, "Version")
    IN  IF root = <<>> THEN {} ELSE Declaration(root[1])

\* ConfigurationXml::parse: every Version has a Folder.
ParseConfiguration(events) ==
    LET root == Document(events, "Configuration")
        versions == Child(root[1], "Version")
        Selected(v) == [folder |-> Given(v, "Folder", "path"),
                        declaration |-> CHOOSE d \in Declaration(v) : TRUE]
    IN  IF /\ root # <<>>
           /\ \A i \in DOMAIN versions :
                 /\ Given(versions[i], "Folder", "path") \notin Blank \cup {Undeclared}
                 /\ Declaration(versions[i]) # {}
        THEN {[i \in DOMAIN versions |-> Selected(versions[i])]}
        ELSE {}

-----------------------------------------------------------------------------
(* Discovery.  A source has the entries of its root that are called        *)
(* Metadata in some letter case, each [type, version, configuration], the  *)
(* last two the sets of its entries with those names, each [type, events]. *)

\* control_path: two names that fold to one are ambiguous, and none is read.
Found(entries) == IF Cardinality(entries) = 1 THEN entries ELSE {}
Ambiguous(entries) == Cardinality(entries) > 1
Directory(source) == {d \in Found(source) : d.type = "directory"}
VersionFile(source) == UNION {Found(d.version) : d \in Directory(source)}
ConfigurationFile(source) == UNION {Found(d.configuration) : d \in Directory(source)}
Version(source) ==
    UNION {ParseVersion(f.events) : f \in {x \in VersionFile(source) : x.type = "regular"}}
Configuration(source) ==
    UNION {ParseConfiguration(f.events) :
              f \in {x \in ConfigurationFile(source) : x.type = "regular"}}

\* discover_controls, read_control, control_metadata_safe.
ControlsSafe(source) ==
    /\ ~Ambiguous(source) /\ \A d \in Found(source) : d.type = "directory"
    /\ \A d \in Directory(source) : ~Ambiguous(d.version) /\ ~Ambiguous(d.configuration)
    /\ VersionFile(source) # {} => Version(source) # {}
    /\ ConfigurationFile(source) # {} => Configuration(source) # {}

\* The findings of declaration_findings and open that do not refuse.
DeclarationFindings(d) ==
    {k \in {"MissingSpecification", "UnknownSpecification", "ExtensionDeclaration"} :
        \/ k = "MissingSpecification" /\ d.specification = Undeclared
        \/ k = "UnknownSpecification" /\ d.specification \notin KnownSpecification \cup {Undeclared}
        \/ k = "ExtensionDeclaration" /\ d.extension # Undeclared}
MissingVersion(source) == VersionFile(source) = {} /\ ControlsSafe(source)

\* validate_controls: the folder, joined to the root, must be the root.
SelectsRoot(folder) == folder = "."
ControlsPass(source) ==
    /\ ControlsSafe(source)
    /\ \A v \in Version(source) : v.previous = Undeclared
    /\ \A c \in Configuration(source) :
          /\ \A i \in DOMAIN c : c[i].declaration.previous = Undeclared
          /\ Len(c) = 1 /\ SelectsRoot(c[1].folder)
Effective(source) ==
    IF Configuration(source) # {} THEN {c[1].declaration : c \in Configuration(source)}
    ELSE Version(source)

-----------------------------------------------------------------------------
\* A source that passes is a whole datastore in one directory, and nothing
\* that was written down about it is overlooked: every file that could be a
\* control was read, no text of it names a previous increment or a second
\* folder, and what it says of itself is said once, in the file that counts.
Mentions(events, name) ==
    {i \in DOMAIN events : events[i].kind \in {"start", "empty"} /\ events[i].name = name}
Controls(source) == UNION {d.version \cup d.configuration : d \in source}
Counts(source) ==
    LET chosen == UNION {d.configuration : d \in source}
    IN  IF chosen # {} THEN chosen ELSE UNION {d.version : d \in source}
ControlsHold(source) ==
    ControlsPass(source) =>
        /\ \A f \in Controls(source) :
              /\ f.type = "regular"
              /\ Mentions(f.events, "PreviousIncrementalRootDirectory") = {}
              /\ \A i \in Mentions(f.events, "Folder") : f.events[i].attrs = << <<"path", ".">> >>
        /\ Effective(source) = {} <=> Controls(source) = {}
        /\ \A d \in Effective(source) : \A f \in Counts(source) :
              LET said == Mentions(f.events, "Specification")
              IN  /\ Cardinality(said) <= 1
                  /\ said = {} <=> d.specification = Undeclared
                  /\ \A i \in said : \E k \in DOMAIN f.events[i].attrs :
                        f.events[i].attrs[k] = <<"version", d.specification>>
=============================================================================
