-------------------------- MODULE CreateDatastore ---------------------------
(***************************************************************************)
(* The facade before and beside versioning (src/datastore.rs): `create`,   *)
(* `open`, and the direct writes of the global record, the storage CRS,    *)
(* the attribute model and a resource record, down to the folders and      *)
(* files they make (hierarchy.rs, metadata/mod.rs, crs/mod.rs and the      *)
(* GeoPackage container of metadata/gpkg).                                 *)
(*                                                                         *)
(* A call is a list of steps.  A step may fail, which ends the call, and   *)
(* a process may die between two steps; nothing is undone.  `fs::write` is *)
(* two steps, for it truncates the file before it fills it; a GeoPackage   *)
(* is staged in a temporary file and renamed.  Several callers may create  *)
(* at once; any other call of this library starts when no call is running. *)
(* Another program places a container of its own at any time.              *)
(***************************************************************************)
EXTENDS Integers, Sequences, FiniteSets

CONSTANTS
    Caller,
    Seed,           \* identities: [id, complete, fourDigitYear]
    Profile,        \* policies: [language, encoding, crs, crsValid, model, rootName]
    Crs,            \* [name, epoch], the epoch in thousandths of a year
    NoEpoch,
    GpkgFeature,    \* is the `gpkg-metadata` feature compiled in?
    MaxCalls, MaxFaults

Encoding == {"json", "xml", "gpkg"}
ASSUME DatastoreAssumption ==
    /\ \A p \in Profile : p.encoding \in Encoding
    /\ \A x \in Crs \cup {p.crs : p \in Profile} :
          x = [name |-> x.name, epoch |-> x.epoch] /\ x.epoch \in Int \cup {NoEpoch}

GlobalFile(e) == <<"global_metadata", e>>
ModelFile(e) == <<"vector_attributes", e>>
ResourceFile(e) == <<"resource", e>>
CrsFile == <<"crs", "wkt">>
StageFile == <<"temporary", "gpkg">>
File ==
    {GlobalFile(e) : e \in Encoding} \cup {ResourceFile(e) : e \in Encoding}
        \cup {ModelFile(e) : e \in {"json", "xml"}} \cup {CrsFile, StageFile}

\* What a file holds: nothing, an interrupted write, a container this library
\* did not write, or a whole document.
Nothing == [is |-> "absent", what |-> <<>>]
Torn == [is |-> "torn", what |-> <<>>]
Foreign == [is |-> "foreign", what |-> <<>>]
Whole(what) == [is |-> "whole", what |-> what]

VARIABLES
    root,     \* the path of the root folder: "absent", "file" or "dir"
    folder,   \* is there a global_metadata folder?
    content,  \* by file
    handle,   \* the callers that hold an open datastore
    call,     \* by caller: the call it runs or ran last
    todo,     \* by caller: the steps left of it
    result,   \* by caller: how the call ended
    maker,    \* history: the caller whose call made the root folder
    given,    \* history: the global record and the CRS acknowledged last
    doubt,    \* history: records and CRSs whose write began and was not acknowledged
    late,     \* history: the callers that had looked before a foreign container was placed
    calls, faults

disk == <<root, folder, content>>
history == <<maker, given, doubt>>
vars == <<disk, handle, call, todo, result, history, late, calls, faults>>

Record == [kind : {"record"}, seed : Seed, encoding : Encoding]
CrsDoc == [kind : {"crs"}, crs : Crs]
NoCall == [op |-> "none", doc |-> <<>>]
Ids == Caller \cup {"nobody"}

-----------------------------------------------------------------------------
(* Readers.  A reader parses what the writer wrote: a creation instant     *)
(* whose year has more than four digits is written with a sign and is not  *)
(* an RFC 3339 timestamp; an epoch is written with two decimals.           *)

Is(f) == content[f].is
Parses(f) == Is(f) = "whole" /\ (f[2] = "gpkg" => GpkgFeature)
Unread == [ok |-> FALSE, what |-> <<>>]
Reads(what) == [ok |-> TRUE, what |-> what]

\* locate_global: JSON before XML; a container beside another is ambiguous.
Candidates == {e \in Encoding : Is(GlobalFile(e)) # "absent"}
Located ==
    IF Candidates = {} \/ ("gpkg" \in Candidates /\ Candidates # {"gpkg"}) THEN {}
    ELSE IF "json" \in Candidates THEN {"json"} ELSE Candidates

ReadGlobal ==
    LET readable == {e \in Located : Parses(GlobalFile(e))
                        /\ content[GlobalFile(e)].what.seed.fourDigitYear}
    IN  IF readable = {} THEN Unread
        ELSE Reads(content[GlobalFile(CHOOSE e \in readable : TRUE)].what)

Declared == ReadGlobal.what.encoding

\* Epoch::new, and Display with two decimals.
ValidEpoch(e) == e = NoEpoch \/ (1582000 <= e /\ e < 10000000)
Written(e) == IF e = NoEpoch THEN NoEpoch ELSE ((e + 5) \div 10) * 10
ToWkt(doc) == [doc EXCEPT !.crs.epoch = Written(@)]

ReadCrs ==
    IF Parses(CrsFile) /\ ValidEpoch(content[CrsFile].what.crs.epoch)
    THEN Reads(content[CrsFile].what) ELSE Unread

\* DatastoreLayout::validate: its violation, and the empty folders it warns of.
MissingGlobalMetadata == ~folder
EmptyFolders ==
    IF ~folder THEN {"root"}
    ELSE IF \A f \in File : f[1] # "resource" => Is(f) = "absent"
         THEN {"global_metadata"} ELSE {}

-----------------------------------------------------------------------------
(* The steps of a write                                                    *)

Do(step, f, what) == [do |-> step, file |-> f, what |-> what]
Overwrite(f, what) == <<Do("truncate", f, what), Do("fill", f, what)>>

\* Mutant: the container is written in place.
WriteInPlace(f, what) == Overwrite(f, what)

\* A container is built and checked in memory, staged beside its target and
\* renamed over it; text is written in place.
WriteDocument(f, what) ==
    IF f[2] = "gpkg"
    THEN <<Do("prepare", f, what), Do("stage", f, what), Do("persist", f, what)>>
    ELSE Overwrite(f, what)
WriteRecord(r) == WriteDocument(GlobalFile(r.encoding), r)
WriteCrs(doc) == <<Do("same_crs", CrsFile, doc)>> \o Overwrite(CrsFile, ToWkt(doc))

Running == {c \in Caller : todo[c] # <<>>}
Finish(c, how) ==
    /\ result' = [result EXCEPT ![c] = how]
    /\ todo' = [todo EXCEPT ![c] = <<>>]

\* A call with nothing to do ends at once with `how`; another begins.
Start(c, op, doc, how, steps) ==
    /\ calls < MaxCalls
    /\ calls' = calls + 1
    /\ c \notin Running
    /\ call' = [call EXCEPT ![c] = [op |-> op, doc |-> doc]]
    /\ result' = [result EXCEPT ![c] = how]
    /\ todo' = [todo EXCEPT ![c] = steps]
    /\ late' = late \ {c}
    /\ UNCHANGED <<disk, history, faults>>

-----------------------------------------------------------------------------
(* The calls                                                               *)

\* Everything `create` checks before it touches the disk.
PolicyHolds(s, p) ==
    /\ p.language /\ s.complete
    /\ p.crsValid
    /\ p.encoding = "gpkg" => GpkgFeature /\ ~p.model
    /\ p.rootName

Create(c, s, p) ==
    LET record == [kind |-> "record", seed |-> s, encoding |-> p.encoding]
        steps == <<Do("make_root", CrsFile, <<>>), Do("make_folder", CrsFile, <<>>)>>
                    \o WriteRecord(record) \o WriteCrs([kind |-> "crs", crs |-> p.crs])
    IN  /\ \A d \in Running : call[d].op = "create"
        /\ IF PolicyHolds(s, p)
           THEN Start(c, "create", <<record, p.crs>>, "running", steps)
           ELSE Start(c, "create", <<record, p.crs>>, "invalid", <<>>)
        /\ UNCHANGED handle

Open(c) ==
    /\ Running = {}
    /\ Start(c, "open", <<>>, IF root = "dir" THEN "ok" ELSE "refused", <<>>)
    /\ handle' = IF root = "dir" THEN handle \cup {c} ELSE handle

\* A call on an open datastore: refused, or begun with `steps`.
Use(c, op, doc, accepted, steps) ==
    /\ Running = {} /\ c \in handle
    /\ IF accepted THEN Start(c, op, doc, "running", steps)
       ELSE Start(c, op, doc, "refused", <<>>)
    /\ UNCHANGED handle

\* Mutant: the check of the other encodings forgets the container.
OtherGlobalNoGpkg(e) == {o \in {"json", "xml"} \ {e} : Is(GlobalFile(o)) # "absent"}

\* check_global_metadata_encoding
OtherGlobal(e) == {o \in Encoding \ {e} : Is(GlobalFile(o)) # "absent"}

WriteGlobalMetadata(c, r) ==
    Use(c, "global", r, OtherGlobal(r.encoding) = {} /\ r.seed.complete, WriteRecord(r))

WriteStorageCrs(c, crs) ==
    LET doc == [kind |-> "crs", crs |-> crs] IN Use(c, "crs", doc, TRUE, WriteCrs(doc))

\* The model goes to the declared encoding, which must be a text.
WriteAttributeModel(c, valid) ==
    LET textual == ReadGlobal.ok /\ Declared # "gpkg"
        clear == \A e \in {"json", "xml"} \ {Declared} : Is(ModelFile(e)) = "absent"
    IN  IF textual
        THEN Use(c, "model", <<>>, valid /\ clear, Overwrite(ModelFile(Declared), <<>>))
        ELSE Use(c, "model", <<>>, FALSE, <<>>)

\* The extension must denote the declared encoding.
WriteResourceMetadata(c, e, valid) ==
    Use(c, "resource", <<>>, valid /\ ReadGlobal.ok /\ e = Declared,
        WriteDocument(ResourceFile(e), <<>>))

-----------------------------------------------------------------------------
(* The steps                                                               *)

Next1(c) == Head(todo[c])
Doing(c, step) == todo[c] # <<>> /\ Next1(c).do = step

\* The step succeeds: the call goes on, or returns Ok and acknowledges what
\* it was given.  `touched` are the documents the step may have changed.
Advance(c, touched) ==
    LET rest == Tail(todo[c])
        kept == IF call[c].op = "create"
                THEN {call[c].doc[1], [kind |-> "crs", crs |-> call[c].doc[2]]} ELSE {call[c].doc}
        new(kind) == {d \in kept : d # <<>> /\ d.kind = kind}
        latest(kind) == IF new(kind) = {} THEN given[kind] ELSE new(kind)
    IN  /\ todo' = [todo EXCEPT ![c] = rest]
        /\ IF rest # <<>>
           THEN doubt' = doubt \cup touched /\ UNCHANGED <<result, handle, given>>
           ELSE /\ result' = [result EXCEPT ![c] = "ok"]
                /\ handle' = handle \cup {c}
                /\ given' = [record |-> latest("record"), crs |-> latest("crs")]
                /\ doubt' = {d \in doubt \cup touched : new(d.kind) = {}}
        /\ UNCHANGED <<call, late, calls, faults>>

Refused(c, how) ==
    /\ Finish(c, how)
    /\ UNCHANGED <<disk, handle, call, history, late, calls, faults>>

MakeRoot(c) ==
    /\ Doing(c, "make_root")
    /\ \/ root = "absent" /\ Advance(c, {}) /\ root' = "dir" /\ maker' = c
            /\ UNCHANGED <<folder, content>>
       \/ root # "absent" /\ Refused(c, "exists")

MakeFolder(c) ==
    /\ Doing(c, "make_folder")
    /\ Advance(c, {})
    /\ folder' = TRUE
    /\ UNCHANGED <<root, content, maker>>

Touched(c) == {Next1(c).what} \ {<<>>}
Put(f, what) == content' = [content EXCEPT ![f] = what]

\* fs::write after create_dir_all
Truncate(c) ==
    /\ Doing(c, "truncate")
    /\ Advance(c, Touched(c))
    /\ Put(Next1(c).file, Torn)
    /\ folder' = (folder \/ Next1(c).file[1] # "resource")
    /\ UNCHANGED <<root, maker>>

Fill(c) ==
    /\ Doing(c, "fill")
    /\ Advance(c, {})
    /\ Put(Next1(c).file, Whole(Next1(c).what))
    /\ UNCHANGED <<root, folder, maker>>

\* prepare_write: a container in place must be readable, and the new one
\* must read back, its timestamp having 24 characters.
Prepare(c) ==
    /\ Doing(c, "prepare")
    /\ LET s == Next1(c)
           fits == s.what # <<>> => s.what.seed.fourDigitYear
           replaceable == Is(s.file) \in {"absent", "whole"}
       IN  \/ GpkgFeature /\ replaceable /\ fits /\ Advance(c, {})
                /\ UNCHANGED <<disk, maker>>
           \/ ~(GpkgFeature /\ replaceable) /\ Refused(c, "refused")
           \/ GpkgFeature /\ replaceable /\ ~fits /\ Refused(c, "invalid")

Stage(c) ==
    /\ Doing(c, "stage")
    /\ Advance(c, {})
    /\ Put(StageFile, Whole(<<>>))
    /\ folder' = (folder \/ Next1(c).file[1] # "resource")
    /\ UNCHANGED <<root, maker>>

Persist(c) ==
    /\ Doing(c, "persist")
    /\ Advance(c, Touched(c))
    /\ content' = [content EXCEPT ![StageFile] = Nothing,
                                  ![Next1(c).file] = Whole(Next1(c).what)]
    /\ UNCHANGED <<root, folder, maker>>

\* Mutant: the CRS in place is not compared.
SameCrsAlways(c) ==
    /\ Doing(c, "same_crs") /\ Advance(c, {}) /\ UNCHANGED <<disk, maker>>

\* StorageCrs::write_to: a CRS in place must be the same one.
SameCrs(c) ==
    /\ Doing(c, "same_crs")
    /\ \/ Is(CrsFile) = "absent" /\ Advance(c, {}) /\ UNCHANGED <<disk, maker>>
       \/ Is(CrsFile) # "absent" /\ ReadCrs = Reads(Next1(c).what) /\ Advance(c, {})
            /\ UNCHANGED <<disk, maker>>
       \/ Is(CrsFile) # "absent" /\ ReadCrs # Reads(Next1(c).what)
            /\ Refused(c, IF ReadCrs.ok THEN "already_defined" ELSE "refused")

\* An input/output failure: the call ends, a staged file is removed.
Fail(c) ==
    /\ faults < MaxFaults /\ todo[c] # <<>>
    /\ faults' = faults + 1
    /\ Finish(c, "io")
    /\ IF Doing(c, "persist") THEN Put(StageFile, Nothing) ELSE UNCHANGED content
    /\ UNCHANGED <<root, folder, handle, call, history, late, calls>>

\* The process dies: its handle goes, a staged file stays.
Die(c) ==
    /\ faults < MaxFaults /\ todo[c] # <<>>
    /\ faults' = faults + 1
    /\ Finish(c, "died")
    /\ handle' = handle \ {c}
    /\ UNCHANGED <<disk, call, history, late, calls>>

\* Another program puts a container of its own where a resource record may
\* be, in the middle of a call as well: between the look of `prepare_write` at
\* the target and the rename over it, which looks no more.
PastLook(c, f) ==
    todo[c] # <<>> /\ Next1(c).do \in {"stage", "persist"} /\ Next1(c).file = f
PlaceForeign ==
    /\ faults < MaxFaults
    /\ root = "dir" /\ Is(ResourceFile("gpkg")) # "foreign"
    /\ faults' = faults + 1
    /\ Put(ResourceFile("gpkg"), Foreign)
    /\ late' = {c \in Caller : PastLook(c, ResourceFile("gpkg"))}
    /\ UNCHANGED <<root, folder, handle, call, todo, result, history, calls>>

-----------------------------------------------------------------------------
Init ==
    /\ root \in {"absent", "file"}
    /\ folder = FALSE
    /\ content = [f \in File |-> Nothing]
    /\ handle = {}
    /\ call = [c \in Caller |-> NoCall]
    /\ todo = [c \in Caller |-> <<>>]
    /\ result = [c \in Caller |-> "none"]
    /\ maker = "nobody"
    /\ given = [record |-> {}, crs |-> {}]
    /\ doubt = {} /\ late = {}
    /\ calls = 0 /\ faults = 0

Call(c) ==
    \/ \E s \in Seed, p \in Profile : Create(c, s, p)
    \/ Open(c)
    \/ \E r \in Record : WriteGlobalMetadata(c, r)
    \/ \E crs \in Crs : WriteStorageCrs(c, crs)
    \/ \E valid \in BOOLEAN :
          WriteAttributeModel(c, valid) \/ \E e \in Encoding : WriteResourceMetadata(c, e, valid)

Step(c) ==
    \/ MakeRoot(c) \/ MakeFolder(c)
    \/ Truncate(c) \/ Fill(c)
    \/ Prepare(c) \/ Stage(c) \/ Persist(c)
    \/ SameCrs(c)

Next ==
    \/ \E c \in Caller : Call(c) \/ Step(c) \/ Fail(c) \/ Die(c)
    \/ PlaceForeign

Spec == Init /\ [][Next]_vars

-----------------------------------------------------------------------------
(* Properties                                                              *)

Asset == File \ {CrsFile, StageFile}
Ours(f) == f \in Asset /\ Is(f) \in {"torn", "whole"}

\* One metadata encoding per datastore (Requirement Metadata5): whatever calls
\* succeeded, failed half-way or were cut short, all metadata files this
\* library has begun to write have one encoding.
OneEncoding == \A f, g \in Asset : Ours(f) /\ Ours(g) => f[2] = g[2]

\* Every CRS in use carries a valid epoch of at most two decimals, so that it is
\* read back as it was given.
EpochsExact ==
    \A x \in Crs \cup {p.crs : p \in {q \in Profile : q.crsValid}} :
        ValidEpoch(x.epoch) /\ Written(x.epoch) = x.epoch

Texts == {d \in doubt : d.kind = "record" /\ d.encoding # "gpkg"}

\* What `create` or a write acknowledged is what the readers return, also
\* after other creates were refused.  Only a text record whose rewrite was cut
\* short may be unreadable, or one of a year that has no RFC 3339 text; a
\* container is the old record or the new one.  (The CRS under EpochsExact.)
AcknowledgedReads ==
    /\ \A r \in given.record :
          \/ Texts # {} \/ (r.encoding # "gpkg" /\ ~r.seed.fourDigitYear)
          \/ ~MissingGlobalMetadata /\ EmptyFolders = {}
                /\ ReadGlobal \in {Reads(d) : d \in {r} \cup doubt}
    /\ \A d \in given.crs : ReadCrs = Reads(d) \/ \E e \in doubt : e.kind = "crs"

\* A storage CRS is never replaced by another one (Requirement CRS3): one that
\* reads stays as it is, or a write of that very CRS opens its file.  And a
\* container that another program wrote is written over by one call only: a
\* call that had looked at its target before the container was placed there.
\* A call that looks later is refused, and a call that dies or fails past its
\* look leaves no other call the right to rename.
NothingReplaced ==
    [][/\ ReadCrs.ok =>
             \/ ReadCrs' = ReadCrs
             \/ \E c \in Running : Next1(c) = Do("truncate", CrsFile, ReadCrs.what)
       /\ \A f \in File :
             content[f] = Foreign =>
                 \/ content'[f] = Foreign
                 \/ \E c \in late : PastLook(c, f) /\ Next1(c).do = "persist"]_vars

\* "Existing destinations are inspected first; unsupported or corrupt content
\* is preserved" (docs/GPKG_METADATA.md).  Refuted on the instance of
\* create_open: it is not when it arrives between the inspection and the rename.
UnsupportedPreserved == [][\A f \in File : content[f] = Foreign => content'[f] = Foreign]_vars

\* "Rewriting the same CRS is idempotent" (crs/mod.rs, write_to): a CRS that a
\* call acknowledged may be written again.  Refuted where an epoch has more than
\* two decimals (Crs <- FineCrs).
RewriteIsIdempotent ==
    \A c \in Caller :
        call[c].op = "crs" /\ result[c] = "already_defined" => call[c].doc \notin given.crs
=============================================================================
