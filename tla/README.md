# OpenCDB: specifications, model checking and proofs

TLA+ specifications of this repository: a CDB datastore's creation and its
versioning facade, the topology graph and its clipping, the two global grids,
the conformance validator, the command lines `cdb-lint` and `cdb_migrator`, and
the texts, names and records that all of them read from outside. TLC checks them
on small instances; TLAPS proves the invariants that matter most for every value
of the constants.

## The system

OpenCDB is a Rust workspace: `src/` (the library `opencdb`), `cdb-lint/` (a
command line around the validator) and `cdb_migrator/` (a command line that
turns a CDB 1.x tree into a datastore). Nothing runs in the background and no
lock is taken: every operation is a synchronous call of its client. What makes
the system hard is that its state is a directory tree that outlives calls, that
other processes can change, and that a call changes one file at a time.

| Part | State | Operations | Interacts with | What makes it correct |
| --- | --- | --- | --- | --- |
| versioning facade (`datastore.rs`, `versioning.rs`) | live tree, `versions/` with one directory per collection, global record | `apply_collection[_at]`, `rollback_collection[_at]`, `rollback_to[_at]`, `versions`, `asset_state` | metadata codecs, naming | the journal is gapless and readable, committed collections are final, prior bytes are in the archive, a rollback restores |
| datastore facade (`datastore.rs`, `hierarchy.rs`, `crs/mod.rs`) | folder skeleton, global record, storage CRS, records | `create`, `open`, `write_global_metadata`, `write_to` of a CRS, `write_resource_metadata`, `write_attribute_model` | hierarchy, profile | one encoding, what was acknowledged is read, nothing of another's is replaced |
| metadata (`metadata/`) | one file per record, in JSON, XML or GeoPackage | parse, validate, write | facade, validator | a record that is built reads back; a container altered by others is judged as what it is |
| topology (`topology.rs`) | maps of nodes, edges, faces, directed nodes, two id counters | `insert_*`, `clip_edge_to_tile`, (de)serialization | geometry, tiling | directed nodes mirror edges, faces stay rings, ids are never reused, a clip is all or nothing, parts chain |
| global grids (`tiling/`) | none (pure) | `tile_at`, `parent`, `children`, `extent`, keys | migrator, clipping | every point is owned by one tile of a level, children partition their parent, addresses and keys are one to one |
| naming, links, media types, CRS, geometry, coverage, attribution | none (values) | parse, validate, write | all | what is accepted reads back as itself, a path stays inside, no z or m is lost |
| profiles (`profiles/`, `cdb-lint/profile.rs`) | none | constant answers; a descriptor is loaded | facade, validator | a descriptor that loads can be matched and does not fail later |
| validator and report (`conformance/`) | the report under construction, signals kept between stages | `validate` in eight stages | all of the above | no false green, no fault twice, errors only for what cannot be read |
| `cdb-lint` | a baseline file between runs | `check`, `--baseline`, exit codes, argument grammar | validator | a pass is never owed to a torn or foreign baseline; artifact and exit code agree |
| `cdb_migrator` | plan with stamps and fingerprints, output tree, staged companions | `inventory`, `plan`, `migrate`; control files, manifest, rename map, arguments | CDB1 grid, facade, validator, cdb-lint's descriptor | no two files meet in one place, each copy is what the source held under the plan, outputs never mix, the report comes last |

The hard behaviours: interruption between any two file-system steps and retries
after it; writes that are not atomic; checks made before state that is used
after them; another process changing the source or the output; ids at the end of
their range; borders where zones of different width meet; signals taken by one
stage and trusted by a later one. `PROJECT.json` lists them by line.

## The modules

| Module | Models | How |
| --- | --- | --- |
| `VersionStore` | versioning facade | `tree`, `slot`, `global` are the disk; `call` is the program counter with the locals of the running call; `Advance` takes one file-system step, `Interrupt` ends a call anywhere, leaving torn what was being written in place; its properties and the inductive invariant are at the end |
| `VersionHistory` | what the facade promises | a log of revisions; a revision and its effect appear in one step |
| `VersionStoreProofs` | | theorems about its journal, about collections and rollbacks, and about the history |
| `CreateDatastore` | the facade before and beside versioning | a call is a list of steps on the disk; any step may fail and a process may die between two; `fs::write` is a truncation and a filling, a container is looked at, staged and renamed, and another program may place one of its own between any two steps |
| `CreateDatastoreProofs` | | theorems |
| `TopoGraph` | topology graph | maps as functions over the ids in use, the directed edges of a node as the list that the code keeps, in its order; a clip is begun, then one action per minted node and per inserted part, as in the source, so that a failure in the middle would show |
| `TopoGraphProofs` | | theorems |
| `EdgeClip` | the polyline walk of `clip_edge_to_tile` | operators on exact lattice coordinates |
| `TileClipping` | repeated clipping | each part against each tile, in any order |
| `ClipProofs` | | theorems about the walk and about repeated clipping |
| `Cdb1Grid`, `GnosisGrid` | the grids, and the migrator's addresses | operators on integer coordinates; the addresses, with the migrator's own zone table, are the second half of `Cdb1Grid` |
| `TileWalk` | a client of a grid | from tile to parent and child while following a point |
| `AddressProofs` | | theorems about both grids, the addresses and logical paths (`Names`) |
| `Migration` | `plan` and `migrate` | one process per migrator, one action per file-system step: a walk lists one directory at a time and reads one file at a time; the source changes between any two steps |
| `MigrationPromise` | what a report promises | what may have been seen of a source that changes while it is looked at; a report appears once, of a plan that five looks have verified |
| `MigrationProofs` | | theorems |
| `Conformance` | `validate` and the report | one action per stage, per record and per optional class; two calls with different profiles on one datastore, so that verdicts can be compared |
| `ConformanceProofs` | | theorems |
| `LintRatchet` | `cdb-lint check` | one process per run, one action per access to the datastore, the baseline file and the streams; what the validator finds is data |
| `LintRatchetProofs` | | theorems |
| `WktCrs` | WKT-2 and the storage CRS (`crs/`) | parser and printer over tokens, a node is a tuple; a number is its thousandths, or too large for an `f64` |
| `Names` | `naming.rs`, logical paths and `resolve`, `links.rs`, `media_types.rs` | a text is a sequence of characters, one of each class the code tells apart |
| `MetadataRecords` | `metadata/mod.rs`, `temporal.rs` | builder, writer and reader of the global record, temporal extents, language tags |
| `GpkgContainer` | `metadata/gpkg/` | the reader's inspection of a container, in the order of its checks |
| `Json`, `Attribution`, `ManifestInput` | JSON values, `attribution.rs`, `coverage.rs`, `metadata_input.rs` | an object keeps its pairs as the text has them, repeated keys included |
| `Geometry` | `geometry.rs` | types, lengths of coordinate and value lists, collections |
| `TileNames` | `grammar.rs` | names character by character, over the addresses of `Cdb1Grid` |
| `MigrationPlan` | `classify` of `reader.rs`, `plan.rs` | from a listing to moves, records and the problems found |
| `SourceControls` | control files: `reader.rs`, `version_meta.rs`, `validate_controls` | a stack machine over the events of the XML reader |
| `CommandLines` | both `cli.rs` | the scan over an argument list and the command it makes |
| `LintDescriptor` | `cdb-lint/profile.rs` | from a descriptor to the profile that `validate` asks |
| `Documents` | | the composition: a document of any kind above, edited step by step |

`MC*` modules hold the instances (`TileClipping` its own). Definitions have the names of the source where
TLA+ allows; `PROJECT.json` maps each to its lines. Definitions marked *Mutant*
are deliberate bugs that show each property can fail.

`VersionStore` composes with what it uses through constants: `At` is `resolve`,
`Above` the ancestors of a location, `Gpkg` chooses between documents that are
written in place and documents that are renamed into place. A file is its
content: bytes are model values, and a metadata record is its `updated` element,
the only part another component changes. `TopoGraph` takes the splitting of a
line as the constant `Splitting`, under an assumption (`SplitAssumption`) that
`ClipProofs` proves of the real walk. `TileWalk` extends one grid and instances
the other, and asks whichever is walked.
`Documents` gives each component its alphabet and puts them together where the
code does: a descriptor is judged with the WKT reader, the attribute model and
the naming rules it calls. What is pure in the code is an operator here; the
behaviour of `Documents` is what others do to a text between two readings, an
edit at a time, and every text on the way is judged.
`Migration` takes a journalled write as one step, since `VersionStore` has its
inside; a stamp and the bytes it belongs to are read in one step, since the code
reads the stamp on both sides of the bytes and compares.

## What the runs show

Versioning facade. Two assets, one record, two contents.

- `store`: six collections that create, replace and delete assets, set and clear
  states, link the record and delete it, GeoPackage metadata, up to five
  committed collections and two interruptions anywhere, so that a `rollback_to`
  can be interrupted between two inverses, resumed and itself rolled back. No
  call whose checks passed is refused half way; archives hold the prior
  bytes and no bytes are lost; each inverse's preconditions hold when its turn
  comes; a rollback that completes restores files and asset states; the pipeline
  implements `VersionHistory`; every call returns.
- `store_paths`: JSON metadata, assets below other assets, aliases, reserved
  paths, torn documents, two interruptions, two instants: even then the journal
  has no gap and committed directories never change; the archive of a committed
  collection holds what its attempt found where it replaced or deleted a file, two
  spellings of one place and left-overs of interrupted attempts included
  (`ArchivedAsFound`); and from a commit until the next attempt begins, the global
  record and the records the collection linked have the instant of that collection,
  not one that an earlier collection left there (`TimestampsAgree`).

Creation and direct writes. Two callers, three seeds (one whose year has five
digits), profiles of every outcome, two CRSs.

- `create_open`: four calls, of which `create`s may overlap while the others run
  one at a time; two failures, deaths or containers that another program puts
  where a resource record may be, between any two steps. All metadata files begun
  have one encoding (`OneEncoding`); what was acknowledged is read afterwards,
  whatever later calls were refused or cut short (`AcknowledgedReads`); a storage
  CRS is not replaced, and a foreign container only by a call that had looked at
  its place before it came and renames over it now (`NothingReplaced`): a call that
  looks later is refused, and one that dies leaves no other that right.

Documents.

- `documents`: seventeen kinds, each from what the program itself writes and a
  few more, with as many edits as it takes for two of them to meet: tokens, WKT,
  paths, intervals, records, tile and dataset names, containers, sources with
  renames, control files, declarations, manifests, attribute models, geometries,
  the two command lines, descriptors. What is accepted reads back as itself
  (`ReadsBack`), a storage CRS with the epoch that its two decimals can say, and
  but for an epoch that rounds to 10000 and a number too large for an `f64`; what
  was said is not overlooked (`NothingOverlooked`), which for containers is the
  class of result that the table of `docs/GPKG_METADATA.md` gives each alteration; an accepted path leads to a
  place of its own (`PathsHold`); no z or m value is dropped (`GeometryKept`).

Topology, ids up to 8.

- `topo_clip`: inserts and clips of loops, shared junctions, faces, with ids at
  the top of the range, where minting must be refused, and geometries a clip has
  to refuse; reload at any time. At rest and in the middle of a clip adjacency
  mirrors the edges, faces are rings, parts chain, no clip is left half done; what
  is written out loads, with the same primitives, ids to come and directed nodes,
  their lists in the order of the ids (`ReloadKeeps`).
- `tile_clipping`: every polyline of a small lattice, including corner touches
  and runs along a border, cut by neighbouring tiles in every order. The pieces
  are the line, each on its side of the border (`PiecesTrue`), a line is cut once
  (`ClipsOnce`), and the order is immaterial (`OrderIrrelevant`). Two or three
  vertices are enough for every way a segment, or a vertex between two, can meet a
  tile; longer lines and other tiles are left to the proofs.

Grids.

- `grids`: for either grid, a lattice of half the finest tile, which includes
  corners, edges and centres; every row from pole to pole, and in longitude the
  columns beside the antimeridian, at least as many as the widest tile coalesces
  (CDB 1.x), or the first quarter of the turn and its end (GNOSIS): both grids
  repeat eastwards. Levels from the coarsest to one where each coalescence rule
  applies. Ownership, parents and children agree, and names and keys are one to
  one (`NamedOneToOne`).

Migration, two files.

- `migration`: four circumstances in one run. One migrator meets up to three
  changes: files are written, touched, removed or moved, and empty directories are
  removed. Or it meets up to eleven moves of files between two directories, which is
  what it takes for a file to escape all six walks in turn; two migrators meet an
  edit, or a failure and a foreign companion. Whatever the source did, the report
  keeps the promise of `MigrationPromise` (`KeepsPromise`); outputs never mix,
  nothing published is replaced, the report is last; and undisturbed, one of the
  two is published.

  The promise is weaker than a snapshot, as the code's documents say. A look
  walks one directory after the other, so a file that is moved from one the walk
  has still to come to into one it has left behind is not found, though the source
  was never without it. What a report stands for is a plan such that each
  file was, at some moment of the look that planned it and again of each of the
  five that verified it, as the plan has it: with the planned bytes, or absent;
  and that the files it has did all stand together, with these bytes, at the
  moment the plan was made.

Conformance. Datastores that differ from a sound one in at most two of seven
aspects (the report is a union over aspects, and no stage reads more than two of
them together), every profile that drops one class.

- `conformance`: a conformant report leaves no governed content unmentioned
  (`NoSilentPass`), `checked` means all of it was judged and is sound
  (`CheckedMeansJudged`), declaring less earns nothing (`LessIsNotGreener`), and
  one fault is one finding while only what cannot be read ends a validation
  (`FaultsAnswered`). Reserved folders may have another spelling; the case rule
  of the profile rejects it (`Admitted = {}`).

`cdb-lint`. A datastore of two sites, two violations (one of them of the
encoding) and a warning, the two encodings of one profile, which share its name,
and a descriptor; twelve command lines, those that ratchet against the file they
write included.

- `lint_ratchet`: two runs at a time, three in all, an edit, runs killed
  anywhere. A run that a baseline lets pass found nothing that one earlier,
  whole report of the same profile name had not counted (`NothingNewAbsorbed`);
  verdict line, SARIF marks and exit code agree (`CodeIsExplained`). Three runs
  are a mint, a second writer and a run that reads between them. The property
  speaks of the name and of counts, as the code does: another encoding of the
  same profile, or a fix that offsets an arrival, is absorbed, which
  `snapshot.rs` (34 to 41, 67 to 84) says too. A run whose output is its own
  baseline replaces it before its verdict, so what it reports as new is known to
  the next one.

Where the code departs from what it says. Two runs check a quoted promise and
TLC finds a behaviour that breaks it.

- `torn_manifest`: a JSON or XML manifest is written in place; a crash inside
  the write leaves a journal nobody can read.
- `undo_order`: undoing a deletion is refused where a deeper asset, deleted
  earlier, left its directory.

Other departures met while modelling have no run of their own. The first three are
stated in the modules, and TLC refutes each within seconds when it is added to the
configuration named:

- The lists of directed nodes keep insertion order and take part in equality,
  while `Deserialize` inserts edges in the order of their ids: the graph read back
  need not equal the one written, which the test of the round trip asserts of a
  graph that happens to be in order (`topology.rs`, 756 and 1274).
  `ReloadIsIdentity`, with `topo_clip.cfg`.
- A container that arrives between the look at a destination and the rename over
  it is replaced (`gpkg/io.rs`, 90), where `docs/GPKG_METADATA.md` (225) has
  unsupported content preserved. `UnsupportedPreserved`, with `create_open.cfg`.
- An epoch is written with two decimals and compared as it was given
  (`crs/mod.rs`, 143 and 321), so writing a CRS with a finer epoch a second time is
  refused as "already defined", where the comment at 319 has rewriting the same CRS
  idempotent. `RewriteIsIdempotent`, with `create_open.cfg` and `Crs <- FineCrs`.
- Two spellings of one path pass the one-change-per-asset check, which compares
  logical paths as spelled (`versioning.rs`, 665) while `resolve` joins their
  segments. `store_paths` offers such collections.
- With JSON or XML metadata the linked record is read after the first mutation
  (`datastore.rs`, 830), so a record the same collection deletes, or one that is
  no record, fails the call half way: `NoLateFailure` does not hold in the
  instance of `store_paths`.
- Where the case rule of a profile admits `Versions/`, as PascalCase does, a
  journal there is listed by the walk and never read, and the class is shown as
  checked (`stages.rs`, 305): `CheckedMeansJudged` fails for
  `Admitted = {"journal"}`.
- An epoch that rounds to 10000 is written as 10000.00, which the reader refuses as
  out of range (`crs/mod.rs`, 143 and 178); a finer one reads back rounded, by at
  most five thousandths. A number too large for an `f64`, such as `1e999`, is
  displayed as `inf`, which reads back as a keyword (`wkt2.rs`, 82 and 232).
  `ReadsBack` says exactly this of them.
- A creation year of more than four digits is written with a sign, which no
  RFC 3339 reader takes: `create` succeeds and the JSON or XML record cannot be
  read; as GeoPackage the write is refused after the root folder exists.
  `AcknowledgedReads` excepts such records.
- A `resource_metadata_dir` or reserved name with a dot in it is convicted by the
  guide that reserves it, which compares stems, although `style_guide`
  (`profile.rs`, 441) reserves the directory "because a yardstick that convicted
  the layout its own `resource_metadata_dir` declares would contradict itself".
  `.` and `..` load, too. `YardstickLives` is about the others.
- Where it admits `GLOBAL_METADATA/`, an attribute model there is not found and
  no naming finding says so (`stages.rs`, 96): `NoSilentPass`
  fails for `Admitted = {"folder"}`.

Deadlock is checked wherever a client can always act; `CHECK_DEADLOCK FALSE`
marks the runs whose processes end (a migration, a validation, a check, a line
cut up).

## Fairness

`store` assumes weak fairness of the running call's steps (for
`CallReturns`), and `migration` of each process's steps (for `SomeReport`):
both are straight-line code of one thread that waits for nobody. Nothing is assumed
of clients, of interruptions or of changes of the source.

## What is proved

`VersionStoreProofs`, for all sets of spellings, places, contents and offered
collections, every `SequenceMax` and any number of interruptions:

- of the journal: `TypeCorrect`, `JournalHasNoGap`, `ArchivesAsFound`,
  `PublishedIsFinal`, `GpkgAlwaysReadable`;
- of collections: `OneInstant`, `ArchivesArePrior`, `GpkgLosesNothing`;
- with a place for each asset (`OwnPlaces`): `CheckedCallsComplete` (for a
  GeoPackage), `RollbackIsExact`, `TailCanBeUndone`, and `Refinement`: the
  facade implements `VersionHistory`.

The properties of the journal are not inductive alone. `IInv` adds what links the running call
to the disk: the attempt works in the first uncommitted directory
(`CallConsistent`), everything archived so far equals the tree the attempt began
on, and nothing is mutated before everything is archived (`ArchiveProgress`);
hence when the manifest is published its archives are complete. `Contiguous`
follows because a call commits exactly at `Length + 1`, and finality because no
step writes a directory that has a manifest. `NeverTorn` is the part where the
way of writing documents matters.

The invariants of the rest come in layers on `IInv`. `KInv` is what an attempt knows: the
tree it began on, that nothing it checked has changed since, which records are
refreshed by now. `HInv` is what it has done: where every asset and directory is
allowed to be (`Housed`), and the tree as an effect of the changes so far
(`Effects`); together with `KInv` a commit is one step of the history. `RInv` is
what a rollback finds: each manifest documents exactly the difference between
two trees of the history (`Documents`), and the inverses applied so far have
gone back along it (`Rolling`).

`OwnPlaces` says that no file has two spellings in use, that no asset lies below
another, and that the assets are not directories to begin with. It is needed:
`undo_order` shows a rollback that is refused in the middle without it. TLC
evaluates it on the instance of `store`. `Gpkg` is needed where it stands:
JSON and XML records are rewritten in place, so that a crash can tear one that is
not archived, as it can the manifest (`torn_manifest`), and the next attempt may
then fail on it after its checks.

`TopoGraphProofs`, for every id range, set of positions, lines and tiles and
every splitting under `SplitAssumption`:

- `TypeCorrect`, `DirectedNodesExact`, `EndpointsAlwaysExist`, `FacesStayRings`,
  `ClipsNeverTear`, `ReloadsKeepTheGraph`, `RoutesAlwaysChain`.

`IInv` adds that the counters are ahead of every id in use, and exactly one past
the largest (`NodeCounter`, `EdgeCounter`), and for a clip under way how many ids
are still free, which nodes were minted and where the next part starts
(`ClipInv`). The headroom check establishes that count, each insert uses one, so
no insert of a clip can be refused. `ReloadsKeepTheGraph` follows from the
exactness of adjacency and counters: what is rebuilt is what was there, but for
the order of the lists, which is that of the ids from then on.

`RoutesAlwaysChain` looks at the graph in the middle of a clip too, when the edge
is already gone and its parts are not all there. `RouteInv` therefore counts the
edge being clipped as still laid, with its old ends, until its last part is in,
and `PartsInv` says that the parts so far run along the junctions of the clip. The
step that inserts the last one puts the parts in the edge's place in its route;
that the result is a chain in which every edge has one place is a fact about
sequences (`SplicedElements` and the lemmas after it).

`ClipProofs`, for all sets of polylines and of tiles on a lattice that is fine enough
(`ClippingAssumption`):

- `PiecesTrueAlways`, `ClipsOnceAlways`, `OrderIrrelevantAlways`;
- of one clip, `SplitIsSplitting`, which is `SplitAssumption` of the graph, and
  `AssertionsHold`, which is the three `debug_assert_eq!` of `clip_edge_to_tile`.

The lattice is fine enough if a segment that meets the line of a tile's side does so
at a lattice point (`Fine`). Any rational coordinates can be scaled to such a
lattice, and it stays one for the parts (`FineSub`), so the theorems are about exact
arithmetic, and rounding is outside of them.

The argument has two halves. The first is one clip. The runs of the walk are laid end
to end along one path (`Laid`), which follows the line (`Trail`) and each segment of
which is in the tile or has at most a point in it (`Sorted`); `Underway` is the
conjunction, kept by every step of the walk because the slab interval is exactly the
places of the points inside (`InsideIs`) and `point_at` finds its ends
(`EnterPointIs`, `ExitPointIs`). A touch is a run without a segment of the path, so
dropping it and joining its neighbours leaves the path as it is (`DropKeeps`).
The walk, the join and the drops are recursive functions; that they keep an invariant
is shown from a least counterexample (`Least`).

The second is any number of clips. `Sane` says that the parts are a walk along the
original (`Tracked`, with the segment that each vertex is reached by), each on its
side of every tile it was clipped against (`Filed`), and that neighbours are on
different sides of some tile (`Apart`). A clip keeps it: a walk along a part of a walk
is a walk (`TrackSpliced`), sides pass to what follows a line (`FiledTraced`), and
clipping a line on one side gives the line (`SplitWhole`, hence `ClipsOnce`).
`OrderIrrelevant` needs one idea more. Where a line changes sides is said of the line
and the tile alone (`Turnings`: just before the point it is on one side, just after
it on the other), and any walk along it in parts on their sides has its meetings of
different sides exactly there (`TurningsAre`). That holds of the runs of one clip
and of the parts after all of them, and `Apart` says that no node is left over.

`LintRatchetProofs`, for any jobs, sites, defects, yardsticks and command lines:

- `TypeCorrect`, `NothingNewIsAbsorbed`, `CodeAlwaysExplained`.

`NothingNewAbsorbed` is about runs that ended. `RatchetInv` adds what a run under
way is held to (`HeldToAJudgement`) and that a file that reads as a report is one
a run wrote whole (`FileIsMinted`); with the comparison of counts
(`PassMeansNothingNew`) the verdict step follows. For `CodeIsExplained` it is
enough that code and artifact are made from the same report and the same baseline
(`CodeIsVerdict`); that they then tell one story is a comparison of three
definitions of the code (`FlagDecides`, `MarksDecide`), for any findings.

`CreateDatastoreProofs`, for any callers, identities, policies, CRSs, calls and
faults:

- `OneEncodingAlways`, `NothingReplacedEver`;
- `AcknowledgedAlwaysReads`, where every CRS in use has a valid epoch of at most two
  decimals (`EpochsExact`).

The first two are about checks that a later step relies on. For `OneEncoding`,
`EncodingInv` says that no other call writes while one does (`OneWriter`: only
the create that made the root goes on), that all a call has left to write is of
the encoding of what is there (`OneEncodingLeft`), and that every other metadata
file has a global record of its encoding beside it (`Described`,
`NamedAsDeclared`), so the check of the global record alone is enough. For
`NothingReplaced`, `ReplaceInv` adds that the steps a call has left are linked:
a step that relies on a check follows the step that makes it, and when it is next
what was checked is true, except of a container where another program has placed
one since: of the calls in that position, `late` has all, and a call that begins
or looks anew is not among them (`CallLooksAgain`). A CRS compared equal may be written again because an
epoch that was rounded once is not rounded again (`RoundedOnce`).

`AckInv` follows each document a call was given. Its last write is ahead, or it is
stored and no step on its place is left (`Progress`), so a call that returns has
stored all of them; a document that was acknowledged stays so until a later write
of its place, which is in doubt from its first step on (`RecordHeld`, `CrsHeld`),
and an interrupted one leaves it in doubt. That the record is found and not
ambiguous is `OneEncoding` again (`OnlyGlobal`). `EpochsExact` is needed: an epoch of
three decimals is written with two and then reads otherwise than it was given. TLC
evaluates it on the instance of `create_open`.

`MigrationProofs`, for any processes, files, contents, changes of the source,
failures and foreign files:

- `TypeCorrect`, `ReportComesLast`, `NothingPublishedIsReplaced`,
  `OutputsNeverMix`, and `Refinement`: the migration implements
  `MigrationPromise`.

No step sees the source at one instant. Of a walk under way `IInv` says that
every file was found, or is in or below something still to be listed, or was
absent at some moment since the walk began (`WalkHeld`): a move takes a file out
of one place and puts it in another, but the file at the place it left is
absent then, and so is seen to have been (`SeenHeld`). What is found is read one
file after the other, so each file of the plan had the bytes of the plan at a
moment of the look. That those of the plan stood together follows from the look
that verifies it: a file found as in the snapshot has been so ever since, for a
change gives it a stamp that no snapshot has (`Stamps`, `PlanHeld`). `CopyHeld`
says the same of the copies, `Owns` that one process made the datastore.

`ConformanceProofs`, for any number of calls, any datastores, records, attribute
models and profiles:

- `TypeCorrect`, `EachFaultOnce`, `DeclaringLessEarnsNothing`;
- `GreenLeavesNothingOut`, where no profile's case rule admits another spelling of
  `global_metadata/` (`FolderRejected`);
- `CheckedIsTrue`, where besides no journal lies under another spelling that the
  profile admits (`JournalFound`).

The properties speak of complete reports; `IInv` says of a report under way what
the stages behind it have made of it. It is without findings exactly if what
they judged is without faults (`Verdict`), a class is marked as what its stage
came across (`Marks`), a record has the findings it will have (`Filed`), and what
the late stages are told by the early ones is what is in the datastore (`Kept`).
For every stage one lemma says what it does to the report (`...Effect`) and one
that the invariant survives it (`...Keeps`). `DoneFacts` and `DoneVerdict` are the
invariant at the end, and from there each property is a comparison of what the
stages looked at with what is there: the sweep and the stage of a class look at
the same things (`Signalled`, `CameAcross`).

The two conditions are needed: without them the properties fail, as said above.
The rule of both built-in profiles, PascalCase, has no name with an underscore,
so `FolderRejected` holds of them; it does admit `Versions/`, so that
`JournalFound` is a condition on the datastore. In the instance of `conformance`
both hold of every profile.

`AddressProofs`, for every number of levels of either grid (`LodMin`, `LodMax`,
`LevelMax`), every point of the lattice and every key:

- `WalkAlwaysAgrees`, `ChildrenAlwaysPartition`, `AlwaysNamedOneToOne`;

and for logical paths of any length over any characters:

- `PathsStayInside`, `OnePlaceOnePath`, `ReservedAlwaysFenced`.

The inductive invariant `WalkInv` is short: the tile at hand is an address in range
and aligned, and owns the point. The work is in the arithmetic below it. A tile is
a box of whole rows and columns; of the boxes of a level one, no more, holds a
point (`OneBox`, `TileAtOwns`), because a row has one factor and that factor
divides the number of columns. A child's box is a part of its parent's
(`QuarterWithin`), so owning passes to the parent, and from there to exactly one
child. For CDB 1.x the factor is a matter of the geocell, which parent and child
share (`SameFactor`). For GNOSIS it is a matter of the level: a row of children is
coalesced as its parent's or, at a pole, twice as much, and then one child stands
for two (`GnosisNextFactor`, from the bit lengths of their distances to the pole).
Names go through the place of a tile in its geocell (`Places`), from which name and
tile can both be read.
What concerns powers of two for all levels is shown from a least
counterexample (`Least`), so that no induction over an operator is needed.

A path is read character by character (`Split`) and walked part by part (`Walk`),
with `..` and the absolute path that replaces what it is joined to. A part that is
accepted is a name, and every name leads a step down (`NamesLeadDown`); a path
that began with a second slash would have an empty part (`LeadingSeparator`), so
none is absolute after the first is stripped. From the parts the text can be told
(`SplitInjective`), from the place the parts, hence one place has one logical path
(where letter case is told apart). Collections are checked by the spelling, not by
the logical path, which is why two spellings of one asset pass in one collection:
`ArchivedAsFound` says what holds of it even so.

The assumptions are the named `ASSUME`s of the modules, which TLC evaluates on
the instances. `Sane` itself speaks of walks and of all points of the lattice, which
TLC cannot enumerate; what it checks on the instance are its consequences
`PiecesTrue` and `ClipsOnce`.

Model-checked only: the four properties of `Documents` (`ReadsBack`,
`NothingOverlooked`, `PathsHold`, `GeometryKept`), which are about readers and
writers that are recursive over the text, by operators the prover cannot use (the
half of `PathsHold` that is about logical paths is `PathsStayInside` and
`ReservedAlwaysFenced`); and liveness, `CallReturns` and `SomeReport` (`ENABLED` is
outside the prover).

## Bounds

- `SequenceMax`: ids of collections; also the end of the `v######` range, so
  running out of ids is covered.
- `MaxFaults`: two interruptions allow an interrupted retry, and a death between
  the two steps of a write followed by another failure. In `CreateDatastore` a
  container placed by another program counts as one.
- `MaxCalls` of `CreateDatastore`: four calls are a create that is cut short, a
  second one, and two writes after it.
- `MaxId`: 8 leaves room for two clips and reaches the top of the range.
- `MCCircumstances` of `Migration`: two changes alter a file and put it back, so
  that only its stamp tells, and one is left for another file; eleven moves carry a
  file past each of six walks, one move to escape and one to return; one foreign
  companion either is there or is not.
- `MaxRuns`, three, and `MaxEdits`, one, of `LintRatchet`: as above.
- `Deviations`, two, as above.
- Edits of `Documents`: two from a whole document, so that one edit can hide
  another; paths, geometries, token sequences and sources from nothing, up to
  five. Nesting of WKT up to four, three files of a source and two renames.
- Grid levels and lattice: small enough to enumerate, with every zone.

## What is not modelled

- Rounding of binary64 coordinates: the geometry and the grids are exact, so that
  a crossing point may in truth lie a rounding error off a tile's border.
- The characters of a JSON, XML or WKT text below the level of values, events and
  tokens, and the SQL below the level of what the container's reader asks.
- In `Conformance` the rules of one name, record or scheme are one Boolean each;
  `Documents` has the rules themselves.
- SHOULD warnings in `Conformance`: they decide nothing. `LintRatchet` has them.
- The abstract tiling module (three comparisons of a scheme with constants), the
  two built-in profiles (constant answers), the registry of media types, the
  catalogue of finding codes that `explain` prints, the layout and wording of
  reports and diagnostics: tables and formatting.
- Two writers on one datastore, once it exists: the facade is documented for one.
- In `Migration`: link and disjointness checks of paths, the limit on the
  number of files, and directories of the source that are moved with the files in
  them, which `plan.rs` excludes (files keep their stamps then).
- Containers of another program at the place of the global record: they appear
  where a resource record may be.

## Plan

1. Done: versioning facade, creation and direct writes, topology, clipping, grids
   and addresses, migration with its planning and inputs, conformance, the lint
   ratchet, command lines and descriptors, the values of the library; proofs of
   the versioning facade and its history, the topology graph, the clipping, the
   ratchet, the creation, the migration, the validator and the grids.
2. Proofs: of `Documents` the values without recursion, with the readers and
   writers as recursive functions; the rounding of a crossing, with an interval for
   the coordinate that is not pinned.
3. The abstract tiling scheme beside `WktCrs` and `Conformance`; `explain`'s
   lookup over the catalogue.
