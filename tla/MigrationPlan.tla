---------------------------- MODULE MigrationPlan ----------------------------
(***************************************************************************)
(* From the listing of a CDB 1.x source to the moves of its migration:     *)
(* `classify` of cdb_migrator/src/reader.rs and `plan` of                  *)
(* cdb_migrator/src/plan.rs.                                               *)
(*                                                                         *)
(* A path is a sequence of components, and a component a word in lower or  *)
(* in upper case: two that differ only by case are one after folding.      *)
(* What the words of directories and tile files stand for is given by      *)
(* tables; TileNames reads them character by character.                    *)
(***************************************************************************)
EXTENDS Integers, Sequences, FiniteSets, SequencesExt

CONSTANTS
    TileOf,      \* by word of a tile file: its record (TileFileName)
    CellOf,      \* by words of two directories: their geocell
    CodeOf,      \* by word: dataset code of a directory
    LodDirOf,    \* by word: the level of a level directory
    UrefOf,      \* by word: the number of a U directory
    Addressed,   \* the tile files whose U and R are in range
    Portable,    \* words that, in lower case, conform to the profile's style
    Payloads,    \* words of files a metadata directory would capture
    Dotted       \* words that end with a dot

Lower(word) == [word |-> word, upper |-> FALSE]
Fold(path) == [i \in DOMAIN path |-> Lower(path[i].word)]
Is(part, word) == part.word = word
Dir(path) == Front(path)

ResourceWord == <<"resource_00000000.json", "resource_00000001.json", "resource_00000002.json",
                  "resource_00000003.json">>
RecordTarget(n) == <<Lower("metadata"), Lower(ResourceWord[n + 1])>>
Generated ==
    {<<Lower("global_metadata"), Lower("global_metadata.json")>>,
     <<Lower("global_metadata"), Lower("crs.wkt")>>,
     <<Lower("global_metadata"), Lower("vector_attributes.json")>>,
     <<Lower("cdb_migrator-descriptor.json")>>,
     <<Lower("cdb_migrator-migration-report.json")>>}

-----------------------------------------------------------------------------
(* The reader                                                              *)

\* classify and classify_leaf, of a leaf [path, type].
GlobalWord == {"gtmodel", "mmodel", "navigation"}
Classify(leaf) ==
    LET path == leaf.path
    IN  CASE leaf.type # "regular" -> "unsafe"
          [] leaf.type = "regular" /\ path[1].word = "tiles" ->
                IF Len(path) = 7 /\ path[7].word \in DOMAIN TileOf THEN "tile" ELSE "unrecognized"
          [] leaf.type = "regular" /\ path[1].word \in GlobalWord /\ Len(path) >= 2 -> "global"
          [] leaf.type = "regular" /\ path[1].word = "metadata" /\ Len(path) >= 2 -> "metadata"
          [] OTHER -> "unrecognized"

\* classify_tile: directories that disagree with the file are findings.
Disagreements(path) ==
    LET tile == TileOf[path[7].word]
    IN  {d \in {"geocell", "dataset", "lod", "uref", "range"} :
            \/ /\ d = "geocell"
               /\ \/ <<path[2].word, path[3].word>> \notin DOMAIN CellOf
                  \/ CellOf[<<path[2].word, path[3].word>>] # tile.geocell
            \/ /\ d = "dataset"
               /\ path[4].word \notin DOMAIN CodeOf \/ CodeOf[path[4].word] # tile.dataset
            \/ /\ d = "lod"
               /\ path[5].word \notin DOMAIN LodDirOf \/ LodDirOf[path[5].word] # tile.lod
            \/ /\ d = "uref"
               /\ path[6].word \notin DOMAIN UrefOf \/ UrefOf[path[6].word] # tile.uref
            \/ d = "range" /\ path[7].word \notin Addressed}

-----------------------------------------------------------------------------
(* Targets                                                                 *)

Bucket(class) == CASE class = "tile" -> "tile" [] class = "global" -> "global" [] OTHER -> "extra"
DefaultTarget(leaf) ==
    CASE Classify(leaf) \in {"tile", "global"} -> Fold(leaf.path)
      [] Classify(leaf) = "metadata" ->
            <<Lower("extras"), Lower("source_metadata")>> \o Fold(Tail(leaf.path))
      [] OTHER -> <<Lower("extras")>> \o Fold(leaf.path)
Target(input, leaf) ==
    IF leaf.path \in DOMAIN input.renames THEN input.renames[leaf.path] ELSE DefaultTarget(leaf)

\* Lower-case words that the style guide accepts; a name after the last dot.
Conforms(path) ==
    /\ \A i \in DOMAIN path : ~path[i].upper /\ path[i].word \in Portable
    /\ Last(path).word \notin Dotted

\* is_resource_metadata of the migration profile: a metadata file whose
\* directory is a metadata directory, whatever the letter case.
CapturedAsMetadata(path) ==
    Len(path) > 1 /\ Is(path[Len(path) - 1], "metadata") /\ Last(path).word \in Payloads
ReservedWord ==
    {"global_metadata", "versions", "metadata", "cdb_migrator-descriptor.json",
     "cdb_migrator-migration-report.json"}
Reserved(path) == path[1].word \in ReservedWord \/ CapturedAsMetadata(path)

\* check_tile: the address of the file; of an override, the file and all its
\* directories too.
CheckTile(leaf, target, explicit) ==
    /\ Last(leaf.path).word \in Addressed
    /\ explicit =>
          /\ Len(target) = 7 /\ target[1] = Lower("tiles")
          /\ target[7].word \in DOMAIN TileOf
          /\ TileOf[target[7].word] = TileOf[Last(leaf.path).word]
          /\ target[6].upper = FALSE
          /\ Disagreements(target) = {}

-----------------------------------------------------------------------------
(* Collisions                                                              *)

\* directory_collisions: for every directory of a source, the branch of the
\* target that stands for it, and the directory the file arrives in.
Branches(source, target, depth) ==
    LET same == {k \in 0 .. Len(Dir(source)) - depth :
                    /\ k <= Len(Dir(target))
                    /\ \A i \in 0 .. k - 1 :
                          Is(Dir(target)[Len(Dir(target)) - i],
                             Dir(source)[Len(Dir(source)) - i].word)}
        longest == CHOOSE k \in same : \A j \in same : j <= k
    IN  {Fold(SubSeq(Dir(target), 1, Len(Dir(target)) - longest)), Fold(Dir(target))}
Registered(moves) ==
    UNION {{[original |-> SubSeq(m.source, 1, depth), branch |-> b] :
                b \in Branches(m.source, m.target, depth)} :
            <<m, depth>> \in {<<x, d>> \in moves \X (1 .. 7) : d < Len(x.source)}}
DirectoriesCollide(moves) ==
    \E r, s \in Registered(moves) :
        r.branch = s.branch /\ r.original # s.original /\ Fold(r.original) = Fold(s.original)

\* collisions: one path from two origins, or a path that is another's ancestor.
Outputs(moves, resources) ==
    {[kind |-> "move", source |-> m.source, path |-> Fold(m.target)] : m \in moves}
        \cup {[kind |-> "record", source |-> r.source, path |-> r.target] : r \in resources}
        \cup {[kind |-> "generated", source |-> p, path |-> p] : p \in Generated}
\* Mutant: a file where another's directory must be is not looked for.
SamePathOnly(outputs) == \E a, b \in outputs : a.path = b.path /\ a # b
PathsCollide(outputs) ==
    \E a, b \in outputs :
        \/ a.path = b.path /\ a # b
        \/ Len(a.path) < Len(b.path) /\ IsPrefix(a.path, b.path)

-----------------------------------------------------------------------------
(* plan: an input has the leaves in the reader's order, the extras policy, *)
(* the rename map and the declarations of the metadata manifest.           *)

Paths(input) == {leaf.path : leaf \in ToSet(input.leaves)}
Unrecognized(input) == {leaf \in ToSet(input.leaves) : Classify(leaf) = "unrecognized"}
Skipped(input) ==
    IF input.extras = "skip" THEN {leaf.path : leaf \in Unrecognized(input)} ELSE {}
Carried(input) == SelectSeq(input.leaves, LAMBDA leaf : leaf.path \notin Skipped(input))
MoveOf(input, leaf) ==
    [source |-> leaf.path, target |-> Target(input, leaf), bucket |-> Bucket(Classify(leaf))]
Moves(input) == {MoveOf(input, leaf) : leaf \in ToSet(Carried(input))}

\* One record for every tile and global payload, numbered as they come.
Recorded(input) ==
    SelectSeq(Carried(input), LAMBDA leaf : Bucket(Classify(leaf)) \in {"tile", "global"})
Resources(input) ==
    {[source |-> Recorded(input)[n].path, number |-> n,
      payload |-> Target(input, Recorded(input)[n]), target |-> RecordTarget(n - 1)] :
        n \in DOMAIN Recorded(input)}

\* validate_for_dataset: the raster datasets are coverages.
DeclarationFits(d, leaf) ==
    Classify(leaf) = "tile" /\ TileOf[Last(leaf.path).word].dataset \in 1 .. 5 => d.coverage

Problem ==
    {"manifest", "unsafe", "duplicate id", "rename key", "extras policy", "skipped rename", "target",
     "reserved", "tile", "missing declaration", "unfit declaration", "surplus declaration",
     "directory collision", "collision"}
Fails(input, problem) ==
    LET leaves == ToSet(input.leaves)
        Declared(leaf) == {d \in input.declared : d.source = leaf.path}
    IN  CASE problem = "manifest" ->
                \E d, e \in input.declared : ~d.valid \/ (d # e /\ d.source = e.source)
          [] problem = "unsafe" -> \E leaf \in leaves : Classify(leaf) = "unsafe"
          [] problem = "duplicate id" -> \E d, e \in input.declared : d # e /\ d.id = e.id
          [] problem = "rename key" -> ~(DOMAIN input.renames \subseteq Paths(input))
          [] problem = "extras policy" -> input.extras = "unspecified" /\ Unrecognized(input) # {}
          [] problem = "skipped rename" -> DOMAIN input.renames \cap Skipped(input) # {}
          [] problem = "target" -> \E m \in Moves(input) : ~Conforms(m.target)
          [] problem = "reserved" -> \E m \in Moves(input) : Reserved(m.target)
          [] problem = "tile" ->
                \E leaf \in leaves :
                    /\ Classify(leaf) = "tile"
                    /\ ~CheckTile(leaf, Target(input, leaf), leaf.path \in DOMAIN input.renames)
          [] problem = "missing declaration" ->
                \E n \in DOMAIN Recorded(input) : Declared(Recorded(input)[n]) = {}
          [] problem = "unfit declaration" ->
                \E n \in DOMAIN Recorded(input) : \E d \in Declared(Recorded(input)[n]) :
                    ~DeclarationFits(d, Recorded(input)[n])
          [] problem = "surplus declaration" ->
                \E d \in input.declared :
                    d.source \notin {leaf.path : leaf \in ToSet(Recorded(input))}
          [] problem = "directory collision" -> DirectoriesCollide(Moves(input))
          [] problem = "collision" ->
                PathsCollide(Outputs(Moves(input), Resources(input)))
Planned(input) == \A problem \in Problem : ~Fails(input, problem)

-----------------------------------------------------------------------------
\* A plan that is accepted can be carried out as it says, on a file system
\* that folds letter case too: every leaf is moved or was to be skipped, no two
\* files meet in one place and none is where another's directory must be; two
\* source directories stay two; the datastore's own files are left alone; every
\* payload has one record, which no move overwrites; and every tile, read back
\* from where it went, is the same tile, without a disagreement of its own.
PlanHolds(input) ==
    Planned(input) =>
        LET moves == Moves(input)
            resources == Resources(input)
            places == {Fold(m.target) : m \in moves} \cup {r.target : r \in resources} \cup Generated
        IN  /\ {m.source : m \in moves} \cup Skipped(input) = Paths(input)
            /\ Cardinality(places)
                   = Cardinality(moves) + Cardinality(resources) + Cardinality(Generated)
            /\ \A p, q \in places : ~(p # q /\ IsPrefix(p, q))
            /\ \A m, n \in moves :
                  Fold(Dir(m.source)) = Fold(Dir(n.source)) /\ Dir(m.source) # Dir(n.source)
                      => Dir(m.target) # Dir(n.target)
            /\ \A m \in moves : m.target[1].word \notin {"global_metadata", "versions", "metadata"}
            /\ \A m \in moves : m.bucket # "extra" =>
                  Cardinality({r \in resources : r.source = m.source /\ r.payload = m.target}) = 1
            /\ \A m \in moves : m.bucket = "tile" =>
                  LET there == [path |-> m.target, type |-> "regular"]
                  IN  /\ Classify(there) = "tile"
                      /\ TileOf[Last(m.target).word] = TileOf[Last(m.source).word]
                      /\ Disagreements(m.target) \subseteq Disagreements(m.source)
=============================================================================
