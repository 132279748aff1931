----------------------- MODULE CreateDatastoreProofs ------------------------
(***************************************************************************)
(* For every set of callers, identities, policies and CRSs, every number   *)
(* of calls and every number of failures and deaths: a datastore's         *)
(* metadata has one encoding, neither its storage CRS nor a foreign        *)
(* container is ever replaced, and what a call acknowledged is read.       *)
(*                                                                         *)
(* OneEncoding is not inductive: a call checks the encodings once and then *)
(* writes in several steps.  What carries it from the check to the write   *)
(* is that no other call writes meanwhile (OneWriter), that what the       *)
(* running call has left is of the encoding of all that is there           *)
(* (OneEncodingLeft), and that the check of the global record alone speaks *)
(* for the other files (Described) and for itself (NamedAsDeclared).       *)
(* NothingReplaced needs the same of each check inside a call: see Linked. *)
(* AcknowledgedReads needs what a call has done and has yet to do for each *)
(* document it was given: see Progress.                                    *)
(***************************************************************************)
EXTENDS CreateDatastore, SequenceTheorems, TLAPS

-----------------------------------------------------------------------------
(* The inductive invariant *)

CrsDocs == [kind : {"crs"}, crs : Crs \cup {p.crs : p \in Profile}]
Payload == {<<>>} \cup Record \cup CrsDocs \cup {ToWkt(d) : d \in CrsDocs}
IsGlobal(f) == f[1] = "global_metadata"

\* A step; a step that writes a global record writes it where it belongs.
Work ==
    {s \in [do : {"make_root", "make_folder", "same_crs", "truncate", "fill",
                  "prepare", "stage", "persist"}, file : File, what : Payload] :
        IsGlobal(s.file) => s.what.encoding = s.file[2]}

TypeInv ==
    /\ root \in {"absent", "file", "dir"}
    /\ DOMAIN content = File
    /\ handle \subseteq Caller
    /\ todo \in [Caller -> Seq(Work)]

Left(c) == {todo[c][i] : i \in DOMAIN todo[c]}

\* A create that has not made the root folder yet may still be refused.
Fresh(c) == Doing(c, "make_root")

\* Metadata, open datastores and writes past the root are in a root folder.
Rooted ==
    \/ root = "dir"
    \/ handle = {} /\ (\A f \in Asset : ~Ours(f)) /\ (\A c \in Running : Fresh(c))

OneWriter == \A c, d \in Running : c = d \/ Fresh(c) \/ Fresh(d)

NamedAsDeclared ==
    \A e \in Encoding :
        Is(GlobalFile(e)) = "whole" => content[GlobalFile(e)].what.encoding = e

\* Whatever else is begun or about to be written has a global record beside it.
Described ==
    \A f \in Asset :
        ~IsGlobal(f) /\ (Ours(f) \/ \E c \in Caller : \E s \in Left(c) : s.file = f)
            => Is(GlobalFile(f[2])) # "absent"

OneEncodingLeft ==
    \A c \in Caller : \A s \in Left(c) :
        s.file \in Asset =>
            /\ \A t \in Left(c) : t.file \in Asset => t.file[2] = s.file[2]
            /\ Fresh(c) \/ \A f \in Asset : Ours(f) => f[2] = s.file[2]

EncodingInv ==
    TypeInv /\ Rooted /\ OneWriter /\ NamedAsDeclared /\ Described /\ OneEncodingLeft /\ OneEncoding

-----------------------------------------------------------------------------
(* Files *)

LEMMA Files ==
    /\ CrsFile \in File \ Asset /\ StageFile \in File \ Asset /\ Asset \subseteq File
    /\ \A e \in Encoding : GlobalFile(e) \in Asset /\ ResourceFile(e) \in Asset
    /\ \A f \in Asset : f[2] \in Encoding
    /\ \A f \in Asset : IsGlobal(f) => f = GlobalFile(f[2])
    /\ \A e \in Encoding : IsGlobal(GlobalFile(e)) /\ GlobalFile(e)[2] = e
    /\ \A e \in Encoding : ~IsGlobal(ResourceFile(e)) /\ ResourceFile(e)[2] = e
    /\ \A e \in {"json", "xml"} :
          ModelFile(e) \in Asset /\ ~IsGlobal(ModelFile(e)) /\ ModelFile(e)[2] = e
    /\ ~IsGlobal(CrsFile)
BY DEF Asset, File, CrsFile, StageFile, Encoding, GlobalFile, ResourceFile, ModelFile, IsGlobal

\* A call's list loses its first step.
LEMMA FirstStep ==
    ASSUME TypeInv, NEW c \in Caller, todo[c] # <<>>
    PROVE  /\ Next1(c) \in Left(c) /\ Next1(c) \in Work
           /\ Tail(todo[c]) \in Seq(Work)
           /\ \A i \in DOMAIN Tail(todo[c]) : Tail(todo[c])[i] \in Left(c)
<1>1. todo[c] \in Seq(Work)
  BY DEF TypeInv
<1>2. /\ Len(todo[c]) \in Nat /\ Len(todo[c]) # 0 /\ DOMAIN todo[c] = 1 .. Len(todo[c])
      /\ Head(todo[c]) = todo[c][1]
  BY <1>1
<1>3. /\ Tail(todo[c]) \in Seq(Work) /\ Len(Tail(todo[c])) = Len(todo[c]) - 1
      /\ \A i \in 1 .. Len(Tail(todo[c])) : Tail(todo[c])[i] = todo[c][i + 1]
      /\ Head(todo[c]) \in Work
  BY <1>1, HeadTailProperties
<1>4. DOMAIN Tail(todo[c]) = 1 .. Len(Tail(todo[c]))
  BY <1>3, LenProperties
<1>. QED BY <1>2, <1>3, <1>4 DEF Left, Next1

-----------------------------------------------------------------------------
(* The three things that happen to a call *)

\* A call past the root folder takes its next step: at most the step's own
\* file is written, with what the step carries, and stays.
LEMMA StepKeeps ==
    ASSUME EncodingInv, NEW c \in Caller, todo[c] # <<>>, ~Fresh(c),
           todo' = [todo EXCEPT ![c] = Tail(todo[c])],
           root' = root, handle' \subseteq handle \cup {c}, DOMAIN content' = File,
           \A f \in Asset :
               \/ content'[f] = content[f]
               \/ /\ f = Next1(c).file /\ Is(f)' \in {"torn", "whole"}
                  /\ Is(f)' = "whole" => content'[f].what = Next1(c).what
    PROVE  EncodingInv'
<1> DEFINE g == Next1(c).file
<1>1. /\ Next1(c) \in Left(c) /\ Next1(c) \in Work /\ Tail(todo[c]) \in Seq(Work)
      /\ \A d \in Caller : d # c => todo'[d] = todo[d]
      /\ todo'[c] = Tail(todo[c])
      /\ \A d \in Caller : Left(d)' \subseteq Left(d)
  <2>1. /\ Next1(c) \in Left(c) /\ Next1(c) \in Work /\ Tail(todo[c]) \in Seq(Work)
        /\ \A i \in DOMAIN Tail(todo[c]) : Tail(todo[c])[i] \in Left(c)
    BY FirstStep DEF EncodingInv
  <2>2. \A d \in Caller : todo'[d] = IF d = c THEN Tail(todo[c]) ELSE todo[d]
    BY DEF EncodingInv, TypeInv
  <2>. QED BY <2>1, <2>2 DEF Left
<1>2. c \in Running /\ root = "dir"
  BY DEF Running, EncodingInv, Rooted
<1>3. TypeInv'
  BY <1>1, <1>2 DEF EncodingInv, TypeInv
<1>4. Rooted'
  BY <1>2 DEF Rooted
<1>5. \A d \in Running' : d \in Running /\ (d # c => Fresh(d)')
  BY <1>1, <1>2 DEF Running, EncodingInv, OneWriter, Fresh, Doing, Next1
<1>6. OneWriter'
  BY <1>5 DEF OneWriter, Running
<1>7. NamedAsDeclared'
  <2>1. SUFFICES ASSUME NEW e \in Encoding, Is(GlobalFile(e))' = "whole"
                 PROVE  content'[GlobalFile(e)].what.encoding = e
    BY DEF NamedAsDeclared
  <2>2. GlobalFile(e) \in Asset /\ IsGlobal(GlobalFile(e)) /\ GlobalFile(e)[2] = e
    BY Files
  <2>3. CASE content'[GlobalFile(e)] = content[GlobalFile(e)]
    BY <2>1, <2>3 DEF Is, EncodingInv, NamedAsDeclared
  <2>4. CASE g = GlobalFile(e) /\ content'[GlobalFile(e)].what = Next1(c).what
    BY <1>1, <2>2, <2>4 DEF Work
  <2>. QED BY <2>1, <2>2, <2>3, <2>4
<1>8. \A f \in Asset : Is(f) # "absent" => Is(f)' # "absent"
  BY DEF Is
<1>9. \A f \in Asset : Ours(f)' => Ours(f) \/ f = g
  BY DEF Is, Ours
<1>10. Described'
  <2>1. SUFFICES ASSUME NEW f \in Asset, ~IsGlobal(f),
                        Ours(f)' \/ \E d \in Caller : \E s \in Left(d)' : s.file = f
                 PROVE  Is(GlobalFile(f[2]))' # "absent"
    BY DEF Described
  <2>2. Ours(f) \/ \E d \in Caller : \E s \in Left(d) : s.file = f
    BY <1>1, <1>9, <2>1
  <2>3. Is(GlobalFile(f[2])) # "absent"
    BY <2>1, <2>2 DEF EncodingInv, Described
  <2>4. GlobalFile(f[2]) \in Asset
    BY Files
  <2>. QED BY <1>8, <2>3, <2>4
<1>11. \A f \in Asset : g \in Asset /\ Ours(f) => f[2] = g[2]
  BY <1>1 DEF EncodingInv, OneEncodingLeft
<1>12. OneEncoding'
  BY <1>9, <1>11 DEF EncodingInv, OneEncoding
<1>13. OneEncodingLeft'
  <2>1. SUFFICES ASSUME NEW d \in Caller, NEW s \in Left(d)', s.file \in Asset
                 PROVE  /\ \A t \in Left(d)' : t.file \in Asset => t.file[2] = s.file[2]
                        /\ Fresh(d)' \/ \A f \in Asset : Ours(f)' => f[2] = s.file[2]
    BY DEF OneEncodingLeft
  <2>2. s \in Left(d)
    BY <1>1
  <2>3. \A t \in Left(d) : t.file \in Asset => t.file[2] = s.file[2]
    BY <2>1, <2>2 DEF EncodingInv, OneEncodingLeft
  <2>4. CASE d # c
    <3>1. todo'[d] # <<>>
      BY <2>1, <1>3 DEF Left, TypeInv
    <3>. QED BY <1>1, <1>5, <2>3, <2>4, <3>1 DEF Running
  <2>5. CASE d = c
    <3>1. \A f \in Asset : Ours(f) => f[2] = s.file[2]
      BY <2>1, <2>2, <2>5 DEF EncodingInv, OneEncodingLeft
    <3>2. g \in Asset => g[2] = s.file[2]
      BY <1>1, <2>3, <2>5
    <3>. QED BY <1>1, <1>9, <2>3, <3>1, <3>2
  <2>. QED BY <2>4, <2>5
<1>. QED BY <1>3, <1>4, <1>6, <1>7, <1>10, <1>12, <1>13 DEF EncodingInv

\* A call ends without having done its next step, or there is nothing to do.
LEMMA EndKeeps ==
    ASSUME EncodingInv, NEW c \in Caller, todo' = [todo EXCEPT ![c] = <<>>],
           root' = root, handle' \subseteq handle \/ (root = "dir" /\ handle' \subseteq Caller),
           DOMAIN content' = File, \A f \in Asset : content'[f] = content[f]
    PROVE  EncodingInv'
<1>1. /\ \A d \in Caller : d # c => todo'[d] = todo[d]
      /\ todo'[c] = <<>>
  BY DEF EncodingInv, TypeInv
<1>2. TypeInv'
  <2>1. <<>> \in Seq(Work)
    OBVIOUS
  <2>. QED BY <2>1 DEF EncodingInv, TypeInv
<1>3. /\ Running' \subseteq Running /\ c \notin Running'
      /\ \A d \in Running' : Fresh(d)' <=> Fresh(d)
      /\ \A d \in Caller : Left(d)' \subseteq Left(d)
      /\ \A d \in Caller : Left(d)' # {} => d # c
  BY <1>1 DEF Running, Fresh, Doing, Next1, Left
<1>4. /\ \A f \in Asset : Is(f)' = Is(f) /\ (Ours(f)' <=> Ours(f))
      /\ \A e \in Encoding : GlobalFile(e) \in Asset
      /\ \A f \in Asset : f[2] \in Encoding
  BY Files DEF Is, Ours
<1>5. Rooted' /\ OneWriter'
  BY <1>3, <1>4 DEF EncodingInv, Rooted, OneWriter
<1>6. NamedAsDeclared' /\ OneEncoding'
  BY <1>4 DEF EncodingInv, NamedAsDeclared, OneEncoding
<1>7. Described'
  BY <1>3, <1>4 DEF EncodingInv, Described
<1>8. OneEncodingLeft'
  <2>1. SUFFICES ASSUME NEW d \in Caller, NEW s \in Left(d)', s.file \in Asset
                 PROVE  /\ \A t \in Left(d)' : t.file \in Asset => t.file[2] = s.file[2]
                        /\ Fresh(d)' \/ \A f \in Asset : Ours(f)' => f[2] = s.file[2]
    BY DEF OneEncodingLeft
  <2>2. s \in Left(d) /\ d # c
    BY <1>3
  <2>3. Fresh(d)' <=> Fresh(d)
    BY <1>1, <2>2 DEF Fresh, Doing, Next1
  <2>. QED BY <1>3, <1>4, <2>1, <2>2, <2>3 DEF EncodingInv, OneEncodingLeft
<1>. QED BY <1>2, <1>5, <1>6, <1>7, <1>8 DEF EncodingInv

\* A call begins: a create that has yet to make the root, beside creates like
\* it; or alone, a write in the encoding of all that is there.
LEMMA BeginKeeps ==
    ASSUME EncodingInv, NEW c \in Caller \ Running, NEW steps \in Seq(Work),
           NEW e \in Encoding,
           todo' = [todo EXCEPT ![c] = steps],
           UNCHANGED <<root, content>>, handle' \subseteq handle,
           \A i \in DOMAIN steps : steps[i].file \in Asset =>
               /\ steps[i].file[2] = e
               /\ IsGlobal(steps[i].file) \/ Is(GlobalFile(e)) # "absent",
           \/ steps = <<>>
           \/ Head(steps).do = "make_root"
           \/ /\ Running = {} /\ c \in handle
              /\ \A f \in Asset : Ours(f) => f[2] = e
    PROVE  EncodingInv'
<1>1. /\ \A d \in Caller : d # c => todo'[d] = todo[d] /\ (Fresh(d)' <=> Fresh(d))
      /\ todo'[c] = steps
      /\ \A d \in Caller : d # c => Left(d)' = Left(d)
      /\ \A s \in Left(c)' : \E i \in DOMAIN steps : s = steps[i]
      /\ Left(c) = {}
  <2>1. \A d \in Caller : todo'[d] = IF d = c THEN steps ELSE todo[d]
    BY DEF EncodingInv, TypeInv
  <2>2. todo[c] = <<>>
    BY DEF Running
  <2>. QED BY <2>1, <2>2 DEF Left, Fresh, Doing, Next1
<1>2. TypeInv'
  BY DEF EncodingInv, TypeInv
<1>3. /\ \A f \in Asset : Is(f)' = Is(f) /\ (Ours(f)' <=> Ours(f))
      /\ NamedAsDeclared' /\ OneEncoding'
  BY DEF EncodingInv, Is, Ours, NamedAsDeclared, OneEncoding
<1>4. /\ Running' \subseteq Running \cup {c} 
      /\ c \in Running' => Fresh(c)' \/ (Running = {} /\ root = "dir")
  BY <1>1 DEF Running, Fresh, Doing, Next1, EncodingInv, Rooted
<1>5. Rooted'
  BY <1>1, <1>3, <1>4 DEF EncodingInv, Rooted, Running
<1>6. OneWriter'
  BY <1>1, <1>4 DEF EncodingInv, OneWriter, Running
<1>7. Described'
  <2>1. SUFFICES ASSUME NEW f \in Asset, ~IsGlobal(f),
                        Ours(f)' \/ \E d \in Caller : \E s \in Left(d)' : s.file = f
                 PROVE  Is(GlobalFile(f[2]))' # "absent"
    BY DEF Described
  <2>2. CASE Ours(f) \/ \E d \in Caller : \E s \in Left(d) : s.file = f
    BY <2>1, <2>2 DEF EncodingInv, Described, Is
  <2>3. CASE \E s \in Left(c)' : s.file = f
    BY <1>1, <2>1, <2>3 DEF Is
  <2>. QED BY <1>1, <1>3, <2>1, <2>2, <2>3
<1>8. OneEncodingLeft'
  <2>1. SUFFICES ASSUME NEW d \in Caller, NEW s \in Left(d)', s.file \in Asset
                 PROVE  /\ \A t \in Left(d)' : t.file \in Asset => t.file[2] = s.file[2]
                        /\ Fresh(d)' \/ \A f \in Asset : Ours(f)' => f[2] = s.file[2]
    BY DEF OneEncodingLeft
  <2>2. CASE d # c
    BY <1>1, <1>3, <2>1, <2>2 DEF EncodingInv, OneEncodingLeft
  <2>3. CASE d = c
    <3>1. steps # <<>> /\ s.file[2] = e
      BY <1>1, <2>1, <2>3
    <3>2. Fresh(c)' \/ \A f \in Asset : Ours(f)' => f[2] = e
      BY <1>1, <1>3, <3>1 DEF Fresh, Doing, Next1
    <3>. QED BY <1>1, <2>3, <3>1, <3>2
  <2>. QED BY <2>2, <2>3
<1>. QED BY <1>2, <1>3, <1>5, <1>6, <1>7, <1>8 DEF EncodingInv

-----------------------------------------------------------------------------
(* The lists of steps *)

\* Steps that write only the given files.
WorkOn(steps, files) ==
    steps \in Seq(Work) /\ \A i \in DOMAIN steps : steps[i].file \in files

LEMMA Joined ==
    ASSUME NEW F, NEW s, NEW t, WorkOn(s, F), WorkOn(t, F), s # <<>>
    PROVE  WorkOn(s \o t, F) /\ s \o t # <<>> /\ Head(s \o t) = Head(s)
<1>1. /\ s \in Seq(Work) /\ t \in Seq(Work)
      /\ Len(s) \in Nat \ {0} /\ Len(t) \in Nat
      /\ DOMAIN s = 1 .. Len(s) /\ DOMAIN t = 1 .. Len(t)
  BY EmptySeq, LenProperties DEF WorkOn
<1>2. /\ s \o t \in Seq(Work) /\ Len(s \o t) = Len(s) + Len(t)
      /\ \A i \in 1 .. Len(s) + Len(t) :
            (s \o t)[i] = IF i <= Len(s) THEN s[i] ELSE t[i - Len(s)]
  BY <1>1, ConcatProperties
<1>3. DOMAIN (s \o t) = 1 .. Len(s) + Len(t)
  BY <1>2, LenProperties
<1>4. \A i \in DOMAIN (s \o t) : (s \o t)[i].file \in F
  BY <1>1, <1>2, <1>3 DEF WorkOn
<1>5. (s \o t)[1] = s[1] /\ Head(s) = s[1]
  BY <1>1, <1>2
<1>6. s \o t # <<>> /\ Head(s \o t) = (s \o t)[1]
  BY <1>1, <1>2
<1>. QED BY <1>2, <1>4, <1>5, <1>6 DEF WorkOn

\* A document is written in steps on its own file.
LEMMA DocumentSteps ==
    ASSUME NEW f \in Asset, NEW what \in Record \cup {<<>>},
           IsGlobal(f) => what \in Record /\ what.encoding = f[2]
    PROVE  /\ WorkOn(WriteDocument(f, what), {f}) /\ WorkOn(Overwrite(f, what), {f})
           /\ WriteDocument(f, what) # <<>> /\ Overwrite(f, what) # <<>>
<1>1. \A step \in {"truncate", "fill", "prepare", "stage", "persist"} :
          Do(step, f, what) \in Work /\ Do(step, f, what).file = f
  BY Files DEF Do, Work, Payload
<1>2. /\ Overwrite(f, what) \in Seq(Work)
      /\ <<Do("prepare", f, what), Do("stage", f, what), Do("persist", f, what)>> \in Seq(Work)
  BY <1>1 DEF Overwrite
<1>. QED BY <1>1, <1>2 DEF WorkOn, Overwrite, WriteDocument

LEMMA CrsSteps ==
    ASSUME NEW doc \in CrsDocs
    PROVE  WorkOn(WriteCrs(doc), {CrsFile}) /\ WriteCrs(doc) # <<>>
<1>1. /\ Do("same_crs", CrsFile, doc) \in Work
      /\ \A step \in {"truncate", "fill"} : Do(step, CrsFile, ToWkt(doc)) \in Work
  BY Files DEF Do, Work, Payload
<1>2. /\ WorkOn(<<Do("same_crs", CrsFile, doc)>>, {CrsFile})
      /\ WorkOn(Overwrite(CrsFile, ToWkt(doc)), {CrsFile})
  BY <1>1 DEF WorkOn, Overwrite, Do
<1>. QED BY <1>2, Joined DEF WriteCrs

\* A create begins with the root folder and writes one global record.
LEMMA CreateSteps ==
    ASSUME NEW record \in Record, NEW doc \in CrsDocs,
           NEW steps,
           steps = <<Do("make_root", CrsFile, <<>>), Do("make_folder", CrsFile, <<>>)>>
                       \o WriteRecord(record) \o WriteCrs(doc)
    PROVE  /\ WorkOn(steps, {CrsFile, GlobalFile(record.encoding)})
           /\ Head(steps).do = "make_root"
<1> DEFINE F == {CrsFile, GlobalFile(record.encoding)}
           make == <<Do("make_root", CrsFile, <<>>), Do("make_folder", CrsFile, <<>>)>>
<1>1. GlobalFile(record.encoding) \in Asset /\ GlobalFile(record.encoding)[2] = record.encoding
  BY Files DEF Record
<1>2. WorkOn(make, F) /\ make # <<>> /\ Head(make).do = "make_root"
  <2>1. /\ Do("make_root", CrsFile, <<>>) \in Work /\ Do("make_folder", CrsFile, <<>>) \in Work
    BY Files DEF Do, Work, Payload
  <2>. QED BY <2>1 DEF WorkOn, Do
<1>3. WorkOn(WriteRecord(record), F)
  BY <1>1, DocumentSteps DEF WriteRecord, WorkOn
<1>4. WorkOn(WriteCrs(doc), F)
  BY CrsSteps DEF WorkOn
<1> HIDE DEF F, make
<1>5. WorkOn(make \o WriteRecord(record), F) /\ make \o WriteRecord(record) # <<>>
      /\ Head(make \o WriteRecord(record)) = Head(make)
  BY <1>2, <1>3, Joined
<1>6. WorkOn(make \o WriteRecord(record) \o WriteCrs(doc), F)
      /\ Head(make \o WriteRecord(record) \o WriteCrs(doc)) = Head(make)
  BY <1>4, <1>5, Joined
<1>. QED BY <1>2, <1>6 DEF F, make

-----------------------------------------------------------------------------
(* The calls *)

\* A record that reads is where its encoding says, and speaks for all files.
LEMMA DeclaredSpeaks ==
    ASSUME EncodingInv, ReadGlobal.ok
    PROVE  /\ Declared \in Encoding /\ Is(GlobalFile(Declared)) = "whole"
           /\ \A f \in Asset : Ours(f) => f[2] = Declared
<1> DEFINE readable == {e \in Located : Parses(GlobalFile(e))
                          /\ content[GlobalFile(e)].what.seed.fourDigitYear}
           e0 == CHOOSE e \in readable : TRUE
<1>1. readable # {} /\ ReadGlobal = Reads(content[GlobalFile(e0)].what)
  <2>1. ReadGlobal = IF readable = {} THEN Unread ELSE Reads(content[GlobalFile(e0)].what)
    BY DEF ReadGlobal
  <2>2. Unread.ok = FALSE
    BY DEF Unread
  <2> HIDE DEF readable, e0
  <2>. QED BY <2>1, <2>2
<1>2. e0 \in readable
  BY <1>1
<1>3. e0 \in Encoding /\ Is(GlobalFile(e0)) = "whole"
  BY <1>2 DEF Located, Candidates, Parses, Encoding
<1>4. Declared = e0
  <2>1. content[GlobalFile(e0)].what.encoding = e0
    BY <1>3 DEF EncodingInv, NamedAsDeclared
  <2>2. Declared = content[GlobalFile(e0)].what.encoding
    BY <1>1 DEF Declared, Reads
  <2>. QED BY <2>1, <2>2
<1>5. Ours(GlobalFile(e0)) /\ GlobalFile(e0) \in Asset /\ GlobalFile(e0)[2] = e0
  BY <1>3, Files DEF Ours
<1> HIDE DEF e0
<1>. QED BY <1>3, <1>4, <1>5 DEF EncodingInv, OneEncoding

LEMMA StartKeeps ==
    ASSUME EncodingInv, NEW c \in Caller, NEW op, NEW doc, NEW how,
           NEW e \in Encoding, NEW file \in Asset, file[2] = e,
           NEW steps, WorkOn(steps, {file, CrsFile}),
           Start(c, op, doc, how, steps), UNCHANGED handle,
           \A i \in DOMAIN steps :
               steps[i].file = file => IsGlobal(file) \/ Is(GlobalFile(e)) # "absent",
           \/ steps = <<>>
           \/ Head(steps).do = "make_root"
           \/ /\ Running = {} /\ c \in handle
              /\ \A f \in Asset : Ours(f) => f[2] = e
    PROVE  EncodingInv'
<1>1. /\ c \in Caller \ Running /\ todo' = [todo EXCEPT ![c] = steps]
      /\ UNCHANGED <<root, content>> /\ handle' \subseteq handle
  BY DEF Start, disk
<1>2. steps \in Seq(Work) /\ \A i \in DOMAIN steps : steps[i].file \in {file, CrsFile}
  BY DEF WorkOn
<1>3. \A i \in DOMAIN steps : steps[i].file \in Asset =>
          /\ steps[i].file[2] = e
          /\ IsGlobal(steps[i].file) \/ Is(GlobalFile(e)) # "absent"
  BY <1>2, Files
<1>. QED BY <1>1, <1>2, <1>3, BeginKeeps

\* A call that was refused has no steps.
LEMMA RefusedKeeps ==
    ASSUME EncodingInv, NEW c \in Caller, NEW op, NEW doc, NEW how,
           Start(c, op, doc, how, <<>>), UNCHANGED handle
    PROVE  EncodingInv'
<1>1. WorkOn(<<>>, {GlobalFile("json"), CrsFile})
  BY DEF WorkOn
<1>2. /\ GlobalFile("json") \in Asset /\ GlobalFile("json")[2] = "json" /\ "json" \in Encoding
  BY Files DEF Encoding
<1>. QED BY <1>1, <1>2, StartKeeps

LEMMA CreateKeeps ==
    ASSUME EncodingInv, NEW c \in Caller, NEW s \in Seed, NEW p \in Profile, Create(c, s, p)
    PROVE  EncodingInv'
<1> DEFINE record == [kind |-> "record", seed |-> s, encoding |-> p.encoding]
           doc == [kind |-> "crs", crs |-> p.crs]
           steps == <<Do("make_root", CrsFile, <<>>), Do("make_folder", CrsFile, <<>>)>>
                        \o WriteRecord(record) \o WriteCrs(doc)
<1>1. CASE PolicyHolds(s, p)
  <2>1. Start(c, "create", <<record, p.crs>>, "running", steps) /\ UNCHANGED handle
    BY <1>1 DEF Create
  <2>2. record \in Record /\ doc \in CrsDocs /\ record.encoding \in Encoding
    BY DatastoreAssumption DEF DatastoreAssumption, Record, CrsDocs
  <2> HIDE DEF record, doc
  <2>3. /\ WorkOn(steps, {CrsFile, GlobalFile(record.encoding)})
        /\ Head(steps).do = "make_root"
    BY <2>2, CreateSteps
  <2>4. /\ GlobalFile(record.encoding) \in Asset /\ IsGlobal(GlobalFile(record.encoding))
        /\ GlobalFile(record.encoding)[2] = record.encoding
    BY <2>2, Files
  <2>5. WorkOn(steps, {GlobalFile(record.encoding), CrsFile})
    BY <2>3 DEF WorkOn
  <2> HIDE DEF steps
  <2>. QED BY <2>1, <2>2, <2>3, <2>4, <2>5, StartKeeps
<1>2. CASE ~PolicyHolds(s, p)
  BY <1>2, RefusedKeeps DEF Create
<1>. QED BY <1>1, <1>2

LEMMA UseKeeps ==
    ASSUME EncodingInv, NEW c \in Caller, NEW op, NEW doc, NEW accepted, NEW steps,
           Use(c, op, doc, accepted, steps),
           NEW e \in Encoding, NEW file \in Asset, file[2] = e,
           accepted =>
               /\ WorkOn(steps, {file, CrsFile})
               /\ \A f \in Asset : Ours(f) => f[2] = e
               /\ \A i \in DOMAIN steps :
                      steps[i].file = file => IsGlobal(file) \/ Is(GlobalFile(e)) # "absent"
    PROVE  EncodingInv'
<1>1. CASE accepted
  <2>1. Start(c, op, doc, "running", steps) /\ UNCHANGED handle /\ Running = {} /\ c \in handle
    BY <1>1 DEF Use
  <2>. QED BY <1>1, <2>1, StartKeeps
<1>2. CASE ~accepted
  <2>1. Start(c, op, doc, "refused", <<>>) /\ UNCHANGED handle
    BY <1>2 DEF Use
  <2>. QED BY <2>1, RefusedKeeps
<1>. QED BY <1>1, <1>2

LEMMA CallKeeps ==
    ASSUME EncodingInv, NEW c \in Caller, Call(c)
    PROVE  EncodingInv'
<1>1. ASSUME NEW s \in Seed, NEW p \in Profile, Create(c, s, p)
      PROVE  EncodingInv'
  BY <1>1, CreateKeeps
<1>2. CASE Open(c)
  <2>1. /\ todo' = [todo EXCEPT ![c] = <<>>] /\ UNCHANGED <<root, content>>
        /\ handle' \subseteq handle \/ (root = "dir" /\ handle' \subseteq Caller)
    BY <1>2 DEF Open, Start, disk, EncodingInv, TypeInv
  <2>. QED BY <2>1, EndKeeps DEF EncodingInv, TypeInv
<1>3. ASSUME NEW r \in Record, WriteGlobalMetadata(c, r)
      PROVE  EncodingInv'
  <2> DEFINE file == GlobalFile(r.encoding)
             clear == OtherGlobal(r.encoding) = {} /\ r.seed.complete
  <2>1. r.encoding \in Encoding /\ file \in Asset /\ IsGlobal(file) /\ file[2] = r.encoding
    BY Files DEF Record
  <2>2. WorkOn(WriteRecord(r), {file, CrsFile})
    BY <2>1, DocumentSteps DEF WriteRecord, WorkOn
  <2>3. ASSUME clear, NEW f \in Asset, Ours(f)
        PROVE  f[2] = r.encoding
    <3>1. f[2] \in Encoding
      BY Files
    <3>2. Is(GlobalFile(f[2])) # "absent"
      <4>1. CASE IsGlobal(f)
        <5>1. f = GlobalFile(f[2])
          BY <4>1, Files
        <5>. QED BY <2>3, <5>1 DEF Ours
      <4>2. CASE ~IsGlobal(f)
        BY <2>3, <4>2 DEF EncodingInv, Described
      <4>. QED BY <4>1, <4>2
    <3>. QED BY <2>1, <2>3, <3>1, <3>2 DEF OtherGlobal
  <2>4. Use(c, "global", r, clear, WriteRecord(r))
    BY <1>3 DEF WriteGlobalMetadata
  <2> HIDE DEF file, clear
  <2>. QED BY <2>1, <2>2, <2>3, <2>4, UseKeeps
<1>4. ASSUME NEW crs \in Crs, WriteStorageCrs(c, crs)
      PROVE  EncodingInv'
  <2> DEFINE doc == [kind |-> "crs", crs |-> crs]
  <2>1. PICK e \in Encoding : \A f \in Asset : Ours(f) => f[2] = e
    <3>1. CASE \E f \in Asset : Ours(f)
      BY <3>1, Files DEF EncodingInv, OneEncoding
    <3>2. CASE ~ \E f \in Asset : Ours(f)
      BY <3>2 DEF Encoding
    <3>. QED BY <3>1, <3>2
  <2>2. GlobalFile(e) \in Asset /\ GlobalFile(e)[2] = e /\ IsGlobal(GlobalFile(e))
    BY <2>1, Files
  <2>3. doc \in CrsDocs
    BY DEF CrsDocs
  <2> HIDE DEF doc
  <2>4. WorkOn(WriteCrs(doc), {GlobalFile(e), CrsFile})
    BY <2>3, CrsSteps DEF WorkOn
  <2> DEFINE accepted == TRUE
  <2>5. Use(c, "crs", doc, accepted, WriteCrs(doc))
    BY <1>4 DEF WriteStorageCrs, doc
  <2> HIDE DEF accepted
  <2>. QED BY <2>1, <2>2, <2>4, <2>5, UseKeeps
<1>5. ASSUME NEW valid \in BOOLEAN, WriteAttributeModel(c, valid)
      PROVE  EncodingInv'
  <2>1. CASE ReadGlobal.ok /\ Declared # "gpkg"
    <3> DEFINE clear == \A e \in {"json", "xml"} \ {Declared} : Is(ModelFile(e)) = "absent"
               file == ModelFile(Declared)
    <3>1. /\ Declared \in Encoding /\ Is(GlobalFile(Declared)) # "absent"
          /\ \A f \in Asset : Ours(f) => f[2] = Declared
      BY <2>1, DeclaredSpeaks
    <3>2. Declared \in {"json", "xml"}
      BY <2>1, <3>1 DEF Encoding
    <3>3. file \in Asset /\ ~IsGlobal(file) /\ file[2] = Declared
      BY <3>2, Files
    <3>4. Use(c, "model", <<>>, valid /\ clear, Overwrite(file, <<>>))
      BY <1>5, <2>1 DEF WriteAttributeModel
    <3> HIDE DEF file, clear
    <3>5. WorkOn(Overwrite(file, <<>>), {file, CrsFile})
      BY <3>3, DocumentSteps DEF WorkOn
    <3>. QED BY <3>1, <3>3, <3>4, <3>5, UseKeeps
  <2>2. CASE ~(ReadGlobal.ok /\ Declared # "gpkg")
    <3>1. Use(c, "model", <<>>, FALSE, <<>>)
      BY <1>5, <2>2 DEF WriteAttributeModel
    <3>. QED BY <3>1, RefusedKeeps DEF Use
  <2>. QED BY <2>1, <2>2
<1>6. ASSUME NEW valid \in BOOLEAN, NEW e \in Encoding, WriteResourceMetadata(c, e, valid)
      PROVE  EncodingInv'
  <2> DEFINE file == ResourceFile(e)
             accepted == valid /\ ReadGlobal.ok /\ e = Declared
  <2>1. file \in Asset /\ ~IsGlobal(file) /\ file[2] = e
    BY Files
  <2>2. accepted => /\ Is(GlobalFile(e)) # "absent"
                    /\ \A f \in Asset : Ours(f) => f[2] = e
    BY DeclaredSpeaks
  <2>3. Use(c, "resource", <<>>, accepted, WriteDocument(file, <<>>))
    BY <1>6 DEF WriteResourceMetadata
  <2> HIDE DEF file, accepted
  <2>4. WorkOn(WriteDocument(file, <<>>), {file, CrsFile})
    BY <2>1, DocumentSteps DEF WorkOn
  <2>. QED BY <2>1, <2>2, <2>3, <2>4, UseKeeps
<1>. QED BY <1>1, <1>2, <1>3, <1>4, <1>5, <1>6 DEF Call

-----------------------------------------------------------------------------
(* The steps, failures and other programs *)

LEMMA Advances ==
    ASSUME EncodingInv, NEW c \in Caller, NEW touched, todo[c] # <<>>, Advance(c, touched)
    PROVE  /\ todo' = [todo EXCEPT ![c] = Tail(todo[c])]
           /\ handle' \subseteq handle \cup {c}
BY DEF Advance

LEMMA WorkDone ==
    ASSUME EncodingInv, NEW c \in Caller, todo[c] # <<>>, ~Fresh(c), NEW touched,
           Advance(c, touched), root' = root, UNCHANGED content
    PROVE  EncodingInv'
<1>1. DOMAIN content' = File /\ \A f \in Asset : content'[f] = content[f]
  BY DEF EncodingInv, TypeInv
<1>. QED BY <1>1, Advances, StepKeeps

LEMMA GivesUp ==
    ASSUME EncodingInv, NEW c \in Caller, NEW how, Refused(c, how)
    PROVE  EncodingInv'
BY EndKeeps DEF Refused, Finish, disk, EncodingInv, TypeInv

\* The first to make the root folder finds no metadata in it, and no call past it.
LEMMA MakeRootKeeps ==
    ASSUME EncodingInv, NEW c \in Caller, MakeRoot(c)
    PROVE  EncodingInv'
<1>1. CASE root # "absent" /\ Refused(c, "exists")
  BY <1>1, GivesUp
<1>2. CASE /\ root = "absent" /\ Advance(c, {}) /\ root' = "dir"
           /\ UNCHANGED <<folder, content>>
  <2>1. todo[c] # <<>> /\ Fresh(c)
    BY DEF MakeRoot, Doing, Fresh
  <2>2. /\ \A f \in Asset : ~Ours(f) /\ ~Ours(f)'
        /\ \A d \in Running : Fresh(d)
    BY <1>2 DEF EncodingInv, Rooted, Ours, Is
  <2>3. /\ todo' = [todo EXCEPT ![c] = Tail(todo[c])] /\ handle' \subseteq handle \cup {c}
        /\ Tail(todo[c]) \in Seq(Work)
        /\ \A i \in DOMAIN Tail(todo[c]) : Tail(todo[c])[i] \in Left(c)
    BY <1>2, <2>1, Advances, FirstStep DEF EncodingInv
  <2>4. \A d \in Caller : todo'[d] = IF d = c THEN Tail(todo[c]) ELSE todo[d]
    BY <2>3 DEF EncodingInv, TypeInv
  <2>5. \A d \in Caller : Left(d)' \subseteq Left(d) /\ (d # c => (Fresh(d)' <=> Fresh(d)))
    BY <2>3, <2>4 DEF Left, Fresh, Doing, Next1
  <2>6. TypeInv' /\ Rooted'
    BY <1>2, <2>3 DEF EncodingInv, TypeInv, Rooted
  <2>7. OneWriter'
    BY <2>1, <2>2, <2>4, <2>5 DEF OneWriter, Running
  <2>8. NamedAsDeclared' /\ OneEncoding'
    BY <1>2, <2>2 DEF EncodingInv, NamedAsDeclared, OneEncoding, Is
  <2>9. Described'
    BY <1>2, <2>2, <2>5 DEF EncodingInv, Described, Is
  <2>10. OneEncodingLeft'
    BY <2>2, <2>5 DEF EncodingInv, OneEncodingLeft
  <2>. QED BY <2>6, <2>7, <2>8, <2>9, <2>10 DEF EncodingInv
<1>. QED BY <1>1, <1>2 DEF MakeRoot

LEMMA WritingKeeps ==
    ASSUME EncodingInv, NEW c \in Caller, Truncate(c) \/ Fill(c) \/ Stage(c) \/ Persist(c)
    PROVE  EncodingInv'
<1>1. /\ todo[c] # <<>> /\ ~Fresh(c) /\ root' = root
      /\ \E touched : Advance(c, touched)
  BY DEF Truncate, Fill, Stage, Persist, Doing, Fresh
<1>2. Next1(c).file \in File /\ DOMAIN content = File
  BY <1>1, FirstStep DEF EncodingInv, TypeInv, Work
<1>3. DOMAIN content' = File
  BY <1>2 DEF Truncate, Fill, Stage, Persist, Put
<1>4. ASSUME NEW f \in Asset
      PROVE  \/ content'[f] = content[f]
             \/ /\ f = Next1(c).file /\ Is(f)' \in {"torn", "whole"}
                /\ Is(f)' = "whole" => content'[f].what = Next1(c).what
  <2>1. f \in File /\ f # StageFile
    BY Files
  <2>2. CASE Truncate(c)
    BY <1>2, <2>1, <2>2 DEF Truncate, Put, Torn, Is
  <2>3. CASE Fill(c)
    BY <1>2, <2>1, <2>3 DEF Fill, Put, Whole, Is
  <2>4. CASE Stage(c)
    BY <1>2, <2>1, <2>4 DEF Stage, Put
  <2>5. CASE Persist(c)
    BY <1>2, <2>1, <2>5 DEF Persist, Whole, Is
  <2>. QED BY <2>2, <2>3, <2>4, <2>5
<1>. QED BY <1>1, <1>3, <1>4, Advances, StepKeeps

LEMMA OtherStepKeeps ==
    ASSUME EncodingInv, NEW c \in Caller, MakeFolder(c) \/ Prepare(c) \/ SameCrs(c)
    PROVE  EncodingInv'
<1>1. todo[c] # <<>> /\ ~Fresh(c)
  BY DEF MakeFolder, Prepare, SameCrs, Doing, Fresh
<1>2. CASE \E how : Refused(c, how)
  BY <1>2, GivesUp
<1>3. CASE \E touched : Advance(c, touched) /\ root' = root /\ UNCHANGED content
  BY <1>1, <1>3, WorkDone
<1>4. CASE MakeFolder(c)
  BY <1>3, <1>4 DEF MakeFolder
<1>5. CASE Prepare(c)
  BY <1>2, <1>3, <1>5 DEF Prepare, disk
<1>6. CASE SameCrs(c)
  BY <1>2, <1>3, <1>6 DEF SameCrs, disk
<1>. QED BY <1>4, <1>5, <1>6

LEMMA FaultKeeps ==
    ASSUME EncodingInv, NEW c \in Caller, Fail(c) \/ Die(c)
    PROVE  EncodingInv'
<1>1. DOMAIN content' = File /\ \A f \in Asset : content'[f] = content[f]
  BY Files DEF Fail, Die, Put, disk, EncodingInv, TypeInv
<1>. QED BY <1>1, EndKeeps DEF Fail, Die, Finish, disk

LEMMA PlaceForeignKeeps ==
    ASSUME EncodingInv, PlaceForeign
    PROVE  EncodingInv'
<1> DEFINE foreign == ResourceFile("gpkg")
<1>1. foreign \in Asset /\ ~IsGlobal(foreign) /\ foreign \in File
  BY Files DEF Encoding
<1>2. /\ ~Ours(foreign)' /\ DOMAIN content' = File
      /\ \A f \in Asset : f # foreign => content'[f] = content[f]
  BY <1>1 DEF PlaceForeign, Put, EncodingInv, TypeInv, Ours, Is, Foreign
<1>3. UNCHANGED <<root, handle, todo>>
  BY DEF PlaceForeign
<1> HIDE DEF foreign
<1>4. \A f \in Asset : (Ours(f)' => Ours(f)) /\ (IsGlobal(f) => Is(f)' = Is(f))
  BY <1>1, <1>2 DEF Ours, Is
<1>5. /\ Running' = Running
      /\ \A c \in Caller : (Fresh(c)' <=> Fresh(c)) /\ Left(c)' = Left(c)
  BY <1>3 DEF Running, Fresh, Doing, Next1, Left
<1>6. TypeInv' /\ OneWriter'
  BY <1>2, <1>3, <1>5 DEF EncodingInv, TypeInv, OneWriter, Running
<1>7. Rooted'
  BY <1>3, <1>4, <1>5 DEF EncodingInv, Rooted, Running
<1>8. OneEncoding' /\ OneEncodingLeft'
  BY <1>4, <1>5 DEF EncodingInv, OneEncoding, OneEncodingLeft
<1>9. NamedAsDeclared'
  BY <1>1, <1>2, Files DEF EncodingInv, NamedAsDeclared, Is
<1>10. Described'
  BY <1>4, <1>5, Files DEF EncodingInv, Described
<1>. QED BY <1>6, <1>7, <1>8, <1>9, <1>10 DEF EncodingInv

-----------------------------------------------------------------------------
LEMMA EncodingInit == Init => EncodingInv
<1> SUFFICES ASSUME Init PROVE EncodingInv
  OBVIOUS
<1>1. TypeInv
  <2>1. <<>> \in Seq(Work)
    OBVIOUS
  <2>. QED BY <2>1 DEF Init, TypeInv
<1>2. /\ Running = {} /\ \A c \in Caller : Left(c) = {}
      /\ \A f \in Asset : ~Ours(f)
  BY Files DEF Init, Running, Left, Ours, Is, Nothing
<1>3. NamedAsDeclared
  BY Files DEF Init, NamedAsDeclared, Is, Nothing
<1>4. Rooted
  BY <1>2 DEF Init, Rooted
<1>. QED BY <1>1, <1>2, <1>3, <1>4
        DEF EncodingInv, OneWriter, Described, OneEncodingLeft, OneEncoding

LEMMA EncodingNext == EncodingInv /\ [Next]_vars => EncodingInv'
<1> SUFFICES ASSUME EncodingInv, [Next]_vars PROVE EncodingInv'
  OBVIOUS
<1>1. ASSUME NEW c \in Caller, Call(c) PROVE EncodingInv'
  BY <1>1, CallKeeps
<1>2. ASSUME NEW c \in Caller, Step(c) PROVE EncodingInv'
  BY <1>2, MakeRootKeeps, WritingKeeps, OtherStepKeeps DEF Step
<1>3. ASSUME NEW c \in Caller, Fail(c) \/ Die(c) PROVE EncodingInv'
  BY <1>3, FaultKeeps
<1>4. CASE PlaceForeign
  BY <1>4, PlaceForeignKeeps
<1>5. CASE UNCHANGED vars
  BY <1>5 DEF vars, disk, history, EncodingInv, TypeInv, Rooted, OneWriter, NamedAsDeclared,
     Described, OneEncodingLeft, OneEncoding, Running, Fresh, Doing, Next1, Left, Is, Ours
<1>. QED BY <1>1, <1>2, <1>3, <1>4, <1>5 DEF Next

\* Whatever calls succeeded, were refused, failed half-way or were cut short by
\* a death, the global record, the attribute model and the resource records
\* that this library has begun to write are of one encoding (Metadata5).
THEOREM OneEncodingAlways == Spec => []OneEncoding
<1>1. Init => EncodingInv
  BY EncodingInit
<1>2. EncodingInv /\ [Next]_vars => EncodingInv'
  BY EncodingNext
<1>3. EncodingInv => OneEncoding
  BY DEF EncodingInv
<1>. QED BY <1>1, <1>2, <1>3, PTL DEF Spec

-----------------------------------------------------------------------------
(* Nothing is replaced: a check made by one step holds until the step it    *)
(* was made for.  The steps a call has left are linked: each step that      *)
(* relies on a check follows the step that made it (Before), and when it    *)
(* comes to the front what was checked is true (Ready): of a container, that *)
(* no foreign one was there when the call looked.                           *)

CrsWrite(s) == s.file = CrsFile /\ s.do \in {"truncate", "fill"}
Guarded(s) == CrsWrite(s) \/ s.do \in {"stage", "persist"}

Before(p, s) ==
    /\ CrsWrite(s) /\ s.do = "truncate" => p.do = "same_crs" /\ s.what = ToWkt(p.what)
    /\ CrsWrite(s) /\ s.do = "fill" => p.do = "truncate" /\ p.file = CrsFile
    /\ s.do = "stage" => p.do = "prepare" /\ p.file = s.file
    /\ s.do = "persist" => p.do = "stage" /\ p.file = s.file

Ready(c, s) ==
    /\ CrsWrite(s) /\ s.do = "truncate" => Is(CrsFile) = "absent" \/ ReadCrs = Reads(s.what)
    /\ CrsWrite(s) /\ s.do = "fill" => Is(CrsFile) = "torn"
    /\ s.do \in {"stage", "persist"} => content[s.file] # Foreign \/ c \in late

\* Text goes to text files, a container to a container's, and a CRS is
\* written as it will be read.
InPlace(s) ==
    /\ s.file # StageFile
    /\ s.do \in {"stage", "persist"} => s.file # CrsFile
    /\ s.do \in {"truncate", "fill"} => s.file # ResourceFile("gpkg")
    /\ CrsWrite(s) => ToWkt(s.what) = s.what

Linked(steps) ==
    \A i \in DOMAIN steps :
        InPlace(steps[i]) /\ (i > 1 => Before(steps[i - 1], steps[i]))

ReplaceInv ==
    /\ EncodingInv
    /\ \A c \in Caller : Linked(todo[c]) /\ (c \in Running => Ready(c, Next1(c)))
    /\ \A f \in File : content[f] = Foreign => f = ResourceFile("gpkg")
    /\ Is(CrsFile) = "whole" => ToWkt(content[CrsFile].what) = content[CrsFile].what

-----------------------------------------------------------------------------
\* An epoch that was rounded once is not rounded again.
LEMMA RoundedOnce ==
    ASSUME NEW doc \in CrsDocs
    PROVE  ToWkt(ToWkt(doc)) = ToWkt(doc)
<1>1. PICK x \in Crs \cup {p.crs : p \in Profile} : doc = [kind |-> "crs", crs |-> x]
  BY DEF CrsDocs
<1>2. x = [name |-> x.name, epoch |-> x.epoch] /\ x.epoch \in Int \cup {NoEpoch}
  BY DatastoreAssumption DEF DatastoreAssumption
<1>3. Written(Written(x.epoch)) = Written(x.epoch)
  <2>1. CASE x.epoch = NoEpoch
    BY <2>1 DEF Written
  <2>2. CASE x.epoch \in Int /\ x.epoch # NoEpoch
    <3> DEFINE k == (x.epoch + 5) \div 10
    <3>1. k \in Int /\ Written(x.epoch) = k * 10
      BY <2>2 DEF Written
    <3> HIDE DEF k
    <3>2. (k * 10 + 5) \div 10 = k
      BY <3>1
    <3>. QED BY <3>1, <3>2 DEF Written
  <2>. QED BY <1>2, <2>1, <2>2
<1>4. \A y, e : y = [kind |-> "crs", crs |-> [name |-> x.name, epoch |-> e]] =>
          ToWkt(y) = [kind |-> "crs", crs |-> [name |-> x.name, epoch |-> Written(e)]]
  BY DEF ToWkt
<1>. QED BY <1>1, <1>2, <1>3, <1>4

LEMMA Links ==
    ASSUME NEW s \in Seq(Work), NEW t \in Seq(Work), Linked(s), Linked(t),
           s # <<>>, t # <<>> => Before(s[Len(s)], t[1])
    PROVE  Linked(s \o t)
<1>1. /\ Len(s) \in Nat \ {0} /\ Len(t) \in Nat
      /\ DOMAIN s = 1 .. Len(s) /\ DOMAIN t = 1 .. Len(t)
  BY EmptySeq, LenProperties
<1>2. /\ s \o t \in Seq(Work) /\ Len(s \o t) = Len(s) + Len(t)
      /\ \A i \in 1 .. Len(s) + Len(t) :
            (s \o t)[i] = IF i <= Len(s) THEN s[i] ELSE t[i - Len(s)]
  BY ConcatProperties
<1>3. DOMAIN (s \o t) = 1 .. Len(s) + Len(t)
  BY <1>2, LenProperties
<1>4. SUFFICES ASSUME NEW i \in 1 .. Len(s) + Len(t)
               PROVE  /\ InPlace((s \o t)[i])
                      /\ i > 1 => Before((s \o t)[i - 1], (s \o t)[i])
  BY <1>3 DEF Linked
<1>5. CASE i <= Len(s)
  <2>1. (s \o t)[i] = s[i] /\ (i > 1 => (s \o t)[i - 1] = s[i - 1]) /\ i \in DOMAIN s
    BY <1>1, <1>2, <1>4, <1>5
  <2>. QED BY <2>1 DEF Linked
<1>6. CASE i = Len(s) + 1
  <2>1. /\ (s \o t)[i] = t[1] /\ (s \o t)[i - 1] = s[Len(s)] /\ 1 \in DOMAIN t /\ t # <<>>
    BY <1>1, <1>2, <1>4, <1>6
  <2>. QED BY <2>1 DEF Linked
<1>7. CASE i > Len(s) + 1
  <2>1. /\ (s \o t)[i] = t[i - Len(s)] /\ (s \o t)[i - 1] = t[(i - Len(s)) - 1]
        /\ i - Len(s) \in DOMAIN t /\ i - Len(s) > 1
    BY <1>1, <1>2, <1>4, <1>7
  <2>. QED BY <2>1 DEF Linked
<1>. QED BY <1>1, <1>4, <1>5, <1>6, <1>7

\* A list that a call begins with: linked, and its first step relies on nothing.
Begins(steps) ==
    steps \in Seq(Work) /\ Linked(steps) /\ (steps # <<>> => ~Guarded(steps[1]))

LEMMA DocumentLinks ==
    ASSUME NEW f \in Asset, NEW what \in Record \cup {<<>>},
           IsGlobal(f) => what \in Record /\ what.encoding = f[2]
    PROVE  /\ Begins(WriteDocument(f, what))
           /\ f[2] # "gpkg" => Begins(Overwrite(f, what))
<1>1. /\ WriteDocument(f, what) \in Seq(Work) /\ Overwrite(f, what) \in Seq(Work)
  BY DocumentSteps DEF WorkOn
<1>2. /\ f # CrsFile /\ f # StageFile /\ (f[2] # "gpkg" => f # ResourceFile("gpkg"))
  BY Files DEF ResourceFile
<1>3. f[2] # "gpkg" => Begins(Overwrite(f, what))
  <2> SUFFICES ASSUME f[2] # "gpkg" PROVE Begins(Overwrite(f, what))
    OBVIOUS
  <2>1. /\ Overwrite(f, what)[1] = Do("truncate", f, what)
        /\ Overwrite(f, what)[2] = Do("fill", f, what)
        /\ DOMAIN Overwrite(f, what) = {1, 2}
    BY DEF Overwrite
  <2>. QED BY <1>1, <1>2, <2>1 DEF Begins, Linked, InPlace, Before, Guarded, CrsWrite, Do
<1>4. f[2] = "gpkg" => Begins(WriteDocument(f, what))
  <2> SUFFICES ASSUME f[2] = "gpkg" PROVE Begins(WriteDocument(f, what))
    OBVIOUS
  <2>1. /\ WriteDocument(f, what)[1] = Do("prepare", f, what)
        /\ WriteDocument(f, what)[2] = Do("stage", f, what)
        /\ WriteDocument(f, what)[3] = Do("persist", f, what)
        /\ DOMAIN WriteDocument(f, what) = {1, 2, 3}
    BY DEF WriteDocument
  <2>. QED BY <1>1, <1>2, <2>1 DEF Begins, Linked, InPlace, Before, Guarded, CrsWrite, Do
<1>. QED BY <1>3, <1>4 DEF WriteDocument

LEMMA CrsLinks ==
    ASSUME NEW doc \in CrsDocs
    PROVE  Begins(WriteCrs(doc)) /\ WriteCrs(doc) # <<>>
<1> DEFINE same == <<Do("same_crs", CrsFile, doc)>>
           over == Overwrite(CrsFile, ToWkt(doc))
<1>1. same \in Seq(Work) /\ over \in Seq(Work)
  BY Files DEF Do, Work, Payload, Overwrite
<1>2. ToWkt(ToWkt(doc)) = ToWkt(doc) /\ CrsFile # StageFile /\ CrsFile # ResourceFile("gpkg")
  BY RoundedOnce DEF CrsFile, StageFile, ResourceFile
<1>3. /\ same[1] = Do("same_crs", CrsFile, doc) /\ DOMAIN same = {1} /\ Len(same) = 1
      /\ same # <<>>
      /\ over[1] = Do("truncate", CrsFile, ToWkt(doc))
      /\ over[2] = Do("fill", CrsFile, ToWkt(doc)) /\ DOMAIN over = {1, 2}
  BY DEF Overwrite
<1> HIDE DEF same, over
<1>4. Linked(same) /\ Linked(over) /\ Before(same[1], over[1])
  BY <1>2, <1>3 DEF Linked, InPlace, Before, CrsWrite, Do
<1>5. Linked(same \o over)
  BY <1>1, <1>3, <1>4, Links
<1>6. same \o over \in Seq(Work) /\ same \o over # <<>> /\ (same \o over)[1] = same[1]
  BY <1>1, <1>3, ConcatProperties
<1>7. ~Guarded(same[1])
  BY <1>3 DEF Guarded, CrsWrite, Do
<1>. QED BY <1>5, <1>6, <1>7 DEF Begins, WriteCrs, same, over

\* Lists that rely on nothing may follow any list.
LEMMA BeginsAfter ==
    ASSUME NEW s, NEW t, Begins(s), Begins(t), s # <<>>
    PROVE  Begins(s \o t) /\ s \o t # <<>>
<1>1. s \in Seq(Work) /\ t \in Seq(Work) /\ Linked(s) /\ Linked(t)
  BY DEF Begins
<1>2. t # <<>> => Before(s[Len(s)], t[1])
  BY DEF Begins, Guarded, CrsWrite, Before
<1>3. Linked(s \o t)
  BY <1>1, <1>2, Links
<1>4. s \o t \in Seq(Work) /\ s \o t # <<>> /\ (s \o t)[1] = s[1]
  <2>1. Len(s) \in Nat \ {0} /\ Len(t) \in Nat
    BY <1>1, EmptySeq, LenProperties
  <2>. QED BY <1>1, <2>1, ConcatProperties
<1>. QED BY <1>3, <1>4 DEF Begins

LEMMA CreateLinks ==
    ASSUME NEW record \in Record, NEW doc \in CrsDocs
    PROVE  Begins(<<Do("make_root", CrsFile, <<>>), Do("make_folder", CrsFile, <<>>)>>
                      \o WriteRecord(record) \o WriteCrs(doc))
<1> DEFINE make == <<Do("make_root", CrsFile, <<>>), Do("make_folder", CrsFile, <<>>)>>
<1>1. Begins(make) /\ make # <<>>
  <2>1. make \in Seq(Work)
    BY Files DEF Do, Work, Payload
  <2>2. /\ make[1] = Do("make_root", CrsFile, <<>>) /\ make[2] = Do("make_folder", CrsFile, <<>>)
        /\ DOMAIN make = {1, 2} /\ make # <<>>
    OBVIOUS
  <2>3. CrsFile # StageFile
    BY DEF CrsFile, StageFile
  <2> HIDE DEF make
  <2>. QED BY <2>1, <2>2, <2>3 DEF Begins, Linked, InPlace, Before, Guarded, CrsWrite, Do
<1>2. Begins(WriteRecord(record))
  <2>1. /\ GlobalFile(record.encoding) \in Asset
        /\ GlobalFile(record.encoding)[2] = record.encoding
    BY Files DEF Record
  <2>. QED BY <2>1, DocumentLinks DEF WriteRecord
<1>3. Begins(WriteCrs(doc))
  BY CrsLinks
<1> HIDE DEF make
<1>4. Begins(make \o WriteRecord(record)) /\ make \o WriteRecord(record) # <<>>
  BY <1>1, <1>2, BeginsAfter
<1>5. Begins(make \o WriteRecord(record) \o WriteCrs(doc))
  BY <1>3, <1>4, BeginsAfter
<1>. QED BY <1>5 DEF make

\* A call begins with a list that relies on nothing, and changes no file.
LEMMA CallBegins ==
    ASSUME EncodingInv, NEW c \in Caller, Call(c)
    PROVE  /\ UNCHANGED content /\ c \notin Running
           /\ \E steps : Begins(steps) /\ todo' = [todo EXCEPT ![c] = steps]
<1>1. Begins(<<>>)
  BY DEF Begins, Linked
<1>2. ASSUME NEW op, NEW doc, NEW how, NEW steps, Start(c, op, doc, how, steps)
      PROVE  UNCHANGED content /\ c \notin Running /\ todo' = [todo EXCEPT ![c] = steps]
  BY <1>2 DEF Start, disk
<1>3. ASSUME NEW op, NEW doc, NEW accepted, NEW steps, Use(c, op, doc, accepted, steps),
             accepted => Begins(steps)
      PROVE  /\ UNCHANGED content /\ c \notin Running
             /\ \E list : Begins(list) /\ todo' = [todo EXCEPT ![c] = list]
  <2>1. CASE accepted
    BY <1>2, <1>3, <2>1 DEF Use
  <2>2. CASE ~accepted
    BY <1>1, <1>2, <1>3, <2>2 DEF Use
  <2>. QED BY <2>1, <2>2
<1>4. ASSUME NEW s \in Seed, NEW p \in Profile, Create(c, s, p)
      PROVE  /\ UNCHANGED content /\ c \notin Running
             /\ \E steps : Begins(steps) /\ todo' = [todo EXCEPT ![c] = steps]
  <2> DEFINE record == [kind |-> "record", seed |-> s, encoding |-> p.encoding]
             doc == [kind |-> "crs", crs |-> p.crs]
             steps == <<Do("make_root", CrsFile, <<>>), Do("make_folder", CrsFile, <<>>)>>
                          \o WriteRecord(record) \o WriteCrs(doc)
  <2>1. \/ Start(c, "create", <<record, p.crs>>, "running", steps)
        \/ Start(c, "create", <<record, p.crs>>, "invalid", <<>>)
    BY <1>4 DEF Create
  <2>2. record \in Record /\ doc \in CrsDocs
    BY DatastoreAssumption DEF DatastoreAssumption, Record, CrsDocs
  <2> HIDE DEF record, doc
  <2>3. Begins(steps)
    BY <2>2, CreateLinks
  <2> HIDE DEF steps
  <2>. QED BY <1>1, <1>2, <2>1, <2>3
<1>5. CASE Open(c)
  BY <1>1, <1>2, <1>5 DEF Open
<1>6. ASSUME NEW r \in Record, WriteGlobalMetadata(c, r)
      PROVE  /\ UNCHANGED content /\ c \notin Running
             /\ \E steps : Begins(steps) /\ todo' = [todo EXCEPT ![c] = steps]
  <2>1. GlobalFile(r.encoding) \in Asset /\ GlobalFile(r.encoding)[2] = r.encoding
    BY Files DEF Record
  <2>2. Begins(WriteRecord(r))
    BY <2>1, DocumentLinks DEF WriteRecord
  <2> DEFINE accepted == OtherGlobal(r.encoding) = {} /\ r.seed.complete
  <2>3. Use(c, "global", r, accepted, WriteRecord(r))
    BY <1>6 DEF WriteGlobalMetadata
  <2> HIDE DEF accepted
  <2>. QED BY <1>3, <2>2, <2>3
<1>7. ASSUME NEW crs \in Crs, WriteStorageCrs(c, crs)
      PROVE  /\ UNCHANGED content /\ c \notin Running
             /\ \E steps : Begins(steps) /\ todo' = [todo EXCEPT ![c] = steps]
  <2> DEFINE doc == [kind |-> "crs", crs |-> crs]
             accepted == TRUE
  <2>1. Use(c, "crs", doc, accepted, WriteCrs(doc))
    BY <1>7 DEF WriteStorageCrs
  <2>2. doc \in CrsDocs
    BY DEF CrsDocs
  <2> HIDE DEF doc, accepted
  <2>. QED BY <1>3, <2>1, <2>2, CrsLinks
<1>8. ASSUME NEW valid \in BOOLEAN, WriteAttributeModel(c, valid)
      PROVE  /\ UNCHANGED content /\ c \notin Running
             /\ \E steps : Begins(steps) /\ todo' = [todo EXCEPT ![c] = steps]
  <2>1. CASE ReadGlobal.ok /\ Declared # "gpkg"
    <3> DEFINE accepted ==
                   valid /\ \A e \in {"json", "xml"} \ {Declared} : Is(ModelFile(e)) = "absent"
               file == ModelFile(Declared)
    <3>1. Declared \in {"json", "xml"}
      BY <2>1, DeclaredSpeaks DEF Encoding
    <3>2. file \in Asset /\ ~IsGlobal(file) /\ file[2] = Declared /\ Declared # "gpkg"
      BY <3>1, Files
    <3>3. Use(c, "model", <<>>, accepted, Overwrite(file, <<>>))
      BY <1>8, <2>1 DEF WriteAttributeModel
    <3> HIDE DEF file, accepted
    <3>4. Begins(Overwrite(file, <<>>))
      BY <3>2, DocumentLinks
    <3>. QED BY <1>3, <3>3, <3>4
  <2>2. CASE ~(ReadGlobal.ok /\ Declared # "gpkg")
    <3> DEFINE accepted == FALSE
    <3>1. Use(c, "model", <<>>, accepted, <<>>)
      BY <1>8, <2>2 DEF WriteAttributeModel
    <3> HIDE DEF accepted
    <3>. QED BY <1>1, <1>3, <3>1
  <2>. QED BY <2>1, <2>2
<1>9. ASSUME NEW valid \in BOOLEAN, NEW e \in Encoding, WriteResourceMetadata(c, e, valid)
      PROVE  /\ UNCHANGED content /\ c \notin Running
             /\ \E steps : Begins(steps) /\ todo' = [todo EXCEPT ![c] = steps]
  <2> DEFINE accepted == valid /\ ReadGlobal.ok /\ e = Declared
             file == ResourceFile(e)
  <2>1. Use(c, "resource", <<>>, accepted, WriteDocument(file, <<>>))
    BY <1>9 DEF WriteResourceMetadata
  <2>2. file \in Asset /\ ~IsGlobal(file)
    BY Files
  <2> HIDE DEF accepted, file
  <2>3. Begins(WriteDocument(file, <<>>))
    BY <2>2, DocumentLinks
  <2>. QED BY <1>3, <2>1, <2>3
<1>. QED BY <1>4, <1>5, <1>6, <1>7, <1>8, <1>9 DEF Call

-----------------------------------------------------------------------------
(* What happens to a call keeps the links *)

LEMMA Unguarded ==
    ASSUME NEW c, NEW s, ~Guarded(s)
    PROVE  Ready(c, s) /\ Ready(c, s)' /\ \A p : Before(p, s)
BY DEF Guarded, Ready, Before, CrsWrite

\* A call begins or ends; no file changes but the staged one.
LEMMA NewListKeeps ==
    ASSUME ReplaceInv, EncodingInv', NEW c \in Caller, NEW steps, Begins(steps),
           todo' = [todo EXCEPT ![c] = steps], late' \in {late, late \ {c}},
           \A f \in File \ {StageFile} : content'[f] = content[f],
           content'[StageFile] # Foreign
    PROVE  ReplaceInv'
<1>1. \A d \in Caller : todo'[d] = IF d = c THEN steps ELSE todo[d]
  BY DEF ReplaceInv, EncodingInv, TypeInv
<1>2. /\ CrsFile \in File \ {StageFile} /\ Is(CrsFile)' = Is(CrsFile)
      /\ content'[CrsFile] = content[CrsFile]
  BY Files DEF CrsFile, StageFile, Is
<1>3. ReadCrs' = ReadCrs
  BY <1>2 DEF ReadCrs, Parses, Is
<1>4. ASSUME NEW d \in Caller
      PROVE  Linked(todo'[d]) /\ (d \in Running' => Ready(d, Next1(d))')
  <2>1. CASE d = c
    <3>1. Linked(steps) /\ (steps # <<>> => ~Guarded(Head(steps)))
      BY DEF Begins
    <3>. QED BY <1>1, <2>1, <3>1, Unguarded DEF Running, Next1
  <2>2. CASE d # c
    <3>1. Linked(todo[d]) /\ todo'[d] = todo[d] /\ (d \in Running' => Ready(d, Next1(d)))
      BY <1>1, <2>2 DEF ReplaceInv, Running
    <3>2. todo[d] # <<>> => Next1(d) \in Work /\ InPlace(Next1(d))
      <4>1. todo[d] \in Seq(Work)
        BY DEF ReplaceInv, EncodingInv, TypeInv
      <4>2. todo[d] # <<>> => 1 \in DOMAIN todo[d] /\ Head(todo[d]) = todo[d][1]
        BY <4>1
      <4>3. todo[d] # <<>> => Head(todo[d]) \in Work
        BY <4>1, HeadTailProperties
      <4>. QED BY <3>1, <4>2, <4>3 DEF Linked, Next1
    <3>3. todo[d] # <<>> => content'[Next1(d).file] = content[Next1(d).file]
      BY <3>2 DEF Work, InPlace
    <3>4. Next1(d)' = Next1(d)
      BY <3>1 DEF Next1
    <3>5. d \in late => d \in late'
      BY <2>2
    <3>. QED BY <1>2, <1>3, <3>1, <3>3, <3>4, <3>5 DEF Ready, Running
  <2>. QED BY <2>1, <2>2
<1>5. \A f \in File : content'[f] = Foreign => f = ResourceFile("gpkg")
  BY DEF ReplaceInv
<1>6. Is(CrsFile)' = "whole" => (ToWkt(content[CrsFile].what) = content[CrsFile].what)'
  BY <1>2 DEF ReplaceInv
<1>. QED BY <1>4, <1>5, <1>6 DEF ReplaceInv

\* A running call does its next step, which makes true what the one after it
\* relies on.
LEMMA OnwardKeeps ==
    ASSUME ReplaceInv, EncodingInv', NEW c \in Caller, todo[c] # <<>>,
           todo' = [todo EXCEPT ![c] = Tail(todo[c])], late' = late,
           ~Fresh(c) \/ UNCHANGED content,
           \A s \in Work : Before(Next1(c), s) /\ InPlace(s) => Ready(c, s)',
           \A f \in File : content'[f] = Foreign => f = ResourceFile("gpkg"),
           \/ content'[CrsFile] = content[CrsFile]
           \/ Is(CrsFile)' = "torn"
           \/ ToWkt(content'[CrsFile].what) = content'[CrsFile].what
    PROVE  ReplaceInv'
<1>1. \A d \in Caller : todo'[d] = IF d = c THEN Tail(todo[c]) ELSE todo[d]
  BY DEF ReplaceInv, EncodingInv, TypeInv
<1>2. /\ todo[c] \in Seq(Work) /\ Tail(todo[c]) \in Seq(Work) /\ Linked(todo[c])
      /\ Len(todo[c]) \in Nat \ {0} /\ DOMAIN todo[c] = 1 .. Len(todo[c])
      /\ Next1(c) = todo[c][1]
  BY FirstStep DEF ReplaceInv, EncodingInv, TypeInv, Next1
<1>3. /\ DOMAIN Tail(todo[c]) = 1 .. Len(todo[c]) - 1
      /\ \A i \in 1 .. Len(todo[c]) - 1 : Tail(todo[c])[i] = todo[c][i + 1]
  BY <1>2, HeadTailProperties, LenProperties
<1>4. Linked(Tail(todo[c]))
  <2> SUFFICES ASSUME NEW i \in 1 .. Len(todo[c]) - 1
               PROVE  /\ InPlace(Tail(todo[c])[i])
                      /\ i > 1 => Before(Tail(todo[c])[i - 1], Tail(todo[c])[i])
    BY <1>3 DEF Linked
  <2>1. /\ i + 1 \in DOMAIN todo[c] /\ i + 1 > 1 /\ (i + 1) - 1 = i
        /\ Tail(todo[c])[i] = todo[c][i + 1]
        /\ i > 1 => Tail(todo[c])[i - 1] = todo[c][i]
    BY <1>2, <1>3
  <2>. QED BY <1>2, <2>1 DEF Linked
<1>5. ASSUME c \in Running'
      PROVE  Ready(c, Next1(c))'
  <2>1. todo'[c] = Tail(todo[c]) /\ Tail(todo[c]) # <<>>
    BY <1>1, <1>5 DEF Running
  <2>2. 1 \in 1 .. Len(todo[c]) - 1 /\ Head(Tail(todo[c])) = Tail(todo[c])[1]
    BY <1>2, <1>3, <2>1, EmptySeq, LenProperties
  <2>3. 2 \in DOMAIN todo[c] /\ Tail(todo[c])[1] = todo[c][2] /\ todo[c][2] \in Work
    BY <1>2, <1>3, <2>2, ElementOfSeq
  <2>4. PICK next \in Work : next = todo[c][2]
    BY <2>3
  <2>5. Before(Next1(c), next) /\ InPlace(next)
    <3>1. Before(todo[c][2 - 1], todo[c][2]) /\ InPlace(todo[c][2])
      BY <1>2, <2>3 DEF Linked
    <3>. QED BY <1>2, <2>4, <3>1
  <2>6. Ready(c, next)'
    BY <2>5
  <2>7. Next1(c)' = next
    BY <2>1, <2>2, <2>3, <2>4 DEF Next1
  <2>. QED BY <2>6, <2>7 DEF Ready, CrsWrite
<1>6. ASSUME NEW d \in Caller \ {c}
      PROVE  Linked(todo'[d]) /\ (d \in Running' => Ready(d, Next1(d))')
  <2>1. todo'[d] = todo[d] /\ Linked(todo[d]) /\ (d \in Running' => Ready(d, Next1(d)))
    BY <1>1, <1>6 DEF ReplaceInv, Running
  <2>2. Next1(d)' = Next1(d)
    BY <2>1 DEF Next1
  <2>3. CASE UNCHANGED content
    BY <2>1, <2>2, <2>3 DEF Ready, ReadCrs, Parses, Is
  <2>4. CASE ~Fresh(c)
    <3>1. d \in Running' => Fresh(d)
      BY <1>6, <2>1, <2>4 DEF Running, ReplaceInv, EncodingInv, OneWriter
    <3>2. Fresh(d) => ~Guarded(Next1(d))
      BY DEF Fresh, Doing, Guarded, CrsWrite
    <3>. QED BY <2>1, <2>2, <3>1, <3>2, Unguarded
  <2>. QED BY <2>3, <2>4
<1>7. \A d \in Caller : Linked(todo'[d]) /\ (d \in Running' => Ready(d, Next1(d))')
  BY <1>1, <1>4, <1>5, <1>6
<1>8. Is(CrsFile)' = "whole" => (ToWkt(content[CrsFile].what) = content[CrsFile].what)'
  BY DEF ReplaceInv, Is
<1>. QED BY <1>7, <1>8 DEF ReplaceInv

-----------------------------------------------------------------------------
(* Each step replaces nothing *)

ReplacesNothing ==
    /\ ReadCrs.ok =>
          \/ ReadCrs' = ReadCrs
          \/ \E c \in Running : Next1(c) = Do("truncate", CrsFile, ReadCrs.what)
    /\ \A f \in File :
          content[f] = Foreign =>
              \/ content'[f] = Foreign
              \/ \E c \in late : PastLook(c, f) /\ Next1(c).do = "persist"

LEMMA CrsUntouched ==
    ASSUME content'[CrsFile] = content[CrsFile]
    PROVE  ReadCrs' = ReadCrs
BY DEF ReadCrs, Parses, Is

LEMMA OnlyStaged ==
    ASSUME ReplaceInv, \A f \in File \ {StageFile} : content'[f] = content[f]
    PROVE  ReplacesNothing
<1>1. CrsFile \in File \ {StageFile} /\ ResourceFile("gpkg") # StageFile
  BY Files DEF CrsFile, StageFile, ResourceFile
<1>. QED BY <1>1, CrsUntouched DEF ReplacesNothing, ReplaceInv

\* What the links say of the step at the front.
LEMMA Front ==
    ASSUME ReplaceInv, NEW c \in Caller, todo[c] # <<>>
    PROVE  /\ Next1(c) \in Work /\ InPlace(Next1(c)) /\ Ready(c, Next1(c))
           /\ Next1(c) = [do |-> Next1(c).do, file |-> Next1(c).file, what |-> Next1(c).what]
<1>1. todo[c] \in Seq(Work) /\ Next1(c) \in Work
  BY FirstStep DEF ReplaceInv, EncodingInv, TypeInv
<1>2. 1 \in DOMAIN todo[c] /\ Head(todo[c]) = todo[c][1]
  BY <1>1
<1>. QED BY <1>1, <1>2 DEF ReplaceInv, Linked, Running, Next1, Work

LEMMA EndReplaces ==
    ASSUME ReplaceInv, EncodingInv', NEW c \in Caller, todo' = [todo EXCEPT ![c] = <<>>],
           late' = late,
           \A f \in File \ {StageFile} : content'[f] = content[f],
           content'[StageFile] # Foreign
    PROVE  ReplaceInv' /\ ReplacesNothing
<1>1. Begins(<<>>)
  BY DEF Begins, Linked
<1>. QED BY <1>1, NewListKeeps, OnlyStaged

LEMMA NoForeignStage ==
    ASSUME ReplaceInv PROVE content[StageFile] # Foreign
BY Files DEF ReplaceInv, StageFile, ResourceFile

\* A caller that begins a call has not looked yet.
LEMMA CallLooksAgain ==
    ASSUME NEW c \in Caller, Call(c)
    PROVE  late' = late \ {c}
BY DEF Call, Create, Open, WriteGlobalMetadata, WriteStorageCrs, WriteAttributeModel,
       WriteResourceMetadata, Use, Start

LEMMA CallReplaces ==
    ASSUME ReplaceInv, EncodingInv', NEW c \in Caller, Call(c)
    PROVE  ReplaceInv' /\ ReplacesNothing
BY CallBegins, CallLooksAgain, NewListKeeps, OnlyStaged, NoForeignStage DEF ReplaceInv

LEMMA GivesUpReplaces ==
    ASSUME ReplaceInv, EncodingInv', NEW c \in Caller, NEW how, Refused(c, how)
    PROVE  ReplaceInv' /\ ReplacesNothing
BY EndReplaces, NoForeignStage DEF Refused, Finish, disk

\* A step that writes nothing, and what it has checked.
LEMMA CheckReplaces ==
    ASSUME ReplaceInv, EncodingInv', NEW c \in Caller, todo[c] # <<>>,
           NEW touched, Advance(c, touched), UNCHANGED content,
           \A s \in Work : Before(Next1(c), s) /\ InPlace(s) => Ready(c, s)
    PROVE  ReplaceInv' /\ ReplacesNothing
<1>1. \A s \in Work : Ready(c, s)' <=> Ready(c, s)
  BY CrsUntouched DEF Ready, Is, Advance
<1>2. todo' = [todo EXCEPT ![c] = Tail(todo[c])] /\ late' = late
  BY DEF Advance
<1>. QED BY <1>1, <1>2, OnwardKeeps, OnlyStaged DEF ReplaceInv

LEMMA MakingReplaces ==
    ASSUME ReplaceInv, EncodingInv', NEW c \in Caller, MakeRoot(c) \/ MakeFolder(c)
    PROVE  ReplaceInv' /\ ReplacesNothing
<1>1. todo[c] # <<>> /\ Next1(c).do \in {"make_root", "make_folder"}
  BY DEF MakeRoot, MakeFolder, Doing
<1>2. \A s \in Work : Before(Next1(c), s) => Ready(c, s)
  BY <1>1 DEF Before, Ready, CrsWrite
<1>3. CASE \E how : Refused(c, how)
  BY <1>3, GivesUpReplaces
<1>4. CASE Advance(c, {}) /\ UNCHANGED content
  BY <1>1, <1>2, <1>4, CheckReplaces
<1>. QED BY <1>3, <1>4 DEF MakeRoot, MakeFolder

LEMMA PrepareReplaces ==
    ASSUME ReplaceInv, EncodingInv', NEW c \in Caller, Prepare(c)
    PROVE  ReplaceInv' /\ ReplacesNothing
<1>1. todo[c] # <<>> /\ Next1(c).do = "prepare"
  BY DEF Prepare, Doing
<1>2. CASE \E how : Refused(c, how)
  BY <1>2, GivesUpReplaces
<1>3. CASE Advance(c, {}) /\ UNCHANGED disk /\ Is(Next1(c).file) \in {"absent", "whole"}
  <2>1. content[Next1(c).file] # Foreign
    BY <1>3 DEF Is, Foreign
  <2>2. \A s \in Work : Before(Next1(c), s) => Ready(c, s)
    BY <1>1, <2>1 DEF Before, Ready, CrsWrite
  <2>. QED BY <1>1, <1>3, <2>2, CheckReplaces DEF disk
<1>. QED BY <1>2, <1>3 DEF Prepare

\* A CRS that compares equal was written, hence rounded: what would be written
\* over it is the same.
LEMMA SameCrsReplaces ==
    ASSUME ReplaceInv, EncodingInv', NEW c \in Caller, SameCrs(c)
    PROVE  ReplaceInv' /\ ReplacesNothing
<1>1. todo[c] # <<>> /\ Next1(c).do = "same_crs"
  BY DEF SameCrs, Doing
<1>2. CASE \E how : Refused(c, how)
  BY <1>2, GivesUpReplaces
<1>3. CASE /\ Advance(c, {}) /\ UNCHANGED disk
           /\ Is(CrsFile) = "absent" \/ ReadCrs = Reads(Next1(c).what)
  <2>1. ReadCrs = Reads(Next1(c).what) => ToWkt(Next1(c).what) = Next1(c).what
    BY DEF ReadCrs, Reads, Unread, Parses, ReplaceInv
  <2>2. \A s \in Work : Before(Next1(c), s) => Ready(c, s)
    BY <1>1, <1>3, <2>1 DEF Before, Ready, CrsWrite
  <2>. QED BY <1>1, <1>3, <2>2, CheckReplaces DEF disk
<1>. QED BY <1>2, <1>3 DEF SameCrs

LEMMA TruncateReplaces ==
    ASSUME ReplaceInv, EncodingInv', NEW c \in Caller, Truncate(c)
    PROVE  ReplaceInv' /\ ReplacesNothing
<1> DEFINE f == Next1(c).file
<1>1. /\ todo[c] # <<>> /\ Next1(c).do = "truncate" /\ ~Fresh(c) /\ c \in Running
      /\ todo' = [todo EXCEPT ![c] = Tail(todo[c])] /\ late' = late
  BY DEF Truncate, Doing, Fresh, Advance, Running
<1>2. /\ f \in File /\ f # ResourceFile("gpkg") /\ f # StageFile /\ Ready(c, Next1(c))
      /\ Next1(c) = [do |-> "truncate", file |-> f, what |-> Next1(c).what]
  BY <1>1, Front DEF InPlace, Work
<1>3. /\ content'[f] = Torn /\ \A g \in File \ {f} : content'[g] = content[g]
      /\ CrsFile \in File
  BY <1>2, Files DEF Truncate, Put, ReplaceInv, EncodingInv, TypeInv
<1>4. \A s \in Work : Before(Next1(c), s) /\ InPlace(s) => Ready(c, s)'
  BY <1>1, <1>3 DEF Before, Ready, CrsWrite, Is, Torn
<1>5. \A g \in File : content'[g] = Foreign => g = ResourceFile("gpkg")
  BY <1>3 DEF ReplaceInv, Torn, Foreign
<1>6. content'[CrsFile] = content[CrsFile] \/ Is(CrsFile)' = "torn"
  BY <1>3 DEF Is, Torn
<1>7. ReplaceInv'
  BY <1>1, <1>4, <1>5, <1>6, OnwardKeeps
<1>8. CASE f # CrsFile
  <2>1. ReadCrs' = ReadCrs
    BY <1>3, <1>8, CrsUntouched
  <2>. QED BY <1>2, <1>3, <1>7, <2>1 DEF ReplacesNothing, ReplaceInv
<1>9. CASE f = CrsFile
  <2>1. Is(CrsFile) = "absent" \/ ReadCrs = Reads(Next1(c).what)
    BY <1>1, <1>2, <1>9 DEF Ready, CrsWrite
  <2>2. ReadCrs.ok => Next1(c) = Do("truncate", CrsFile, ReadCrs.what)
    BY <1>2, <1>9, <2>1 DEF ReadCrs, Reads, Unread, Parses, Do
  <2>. QED BY <1>1, <1>2, <1>3, <1>7, <2>2 DEF ReplacesNothing, ReplaceInv
<1>. QED BY <1>8, <1>9

LEMMA FillReplaces ==
    ASSUME ReplaceInv, EncodingInv', NEW c \in Caller, Fill(c)
    PROVE  ReplaceInv' /\ ReplacesNothing
<1> DEFINE f == Next1(c).file
<1>1. /\ todo[c] # <<>> /\ Next1(c).do = "fill" /\ ~Fresh(c)
      /\ todo' = [todo EXCEPT ![c] = Tail(todo[c])] /\ late' = late
  BY DEF Fill, Doing, Fresh, Advance
<1>2. f \in File /\ f # ResourceFile("gpkg") /\ Ready(c, Next1(c)) /\ InPlace(Next1(c))
  BY <1>1, Front DEF InPlace, Work
<1>3. /\ content'[f] = Whole(Next1(c).what) /\ \A g \in File \ {f} : content'[g] = content[g]
      /\ CrsFile \in File
  BY <1>2, Files DEF Fill, Put, ReplaceInv, EncodingInv, TypeInv
<1>4. \A s \in Work : Before(Next1(c), s) /\ InPlace(s) => Ready(c, s)'
  BY <1>1 DEF Before, Ready, CrsWrite
<1>5. \A g \in File : content'[g] = Foreign => g = ResourceFile("gpkg")
  BY <1>3 DEF ReplaceInv, Whole, Foreign
<1>6. \/ content'[CrsFile] = content[CrsFile]
      \/ ToWkt(content'[CrsFile].what) = content'[CrsFile].what
  BY <1>1, <1>2, <1>3 DEF InPlace, CrsWrite, Whole
<1>7. ReplaceInv'
  BY <1>1, <1>4, <1>5, <1>6, OnwardKeeps
<1>8. ReadCrs.ok => ReadCrs' = ReadCrs
  <2>1. CASE f # CrsFile
    BY <1>3, <2>1, CrsUntouched
  <2>2. CASE f = CrsFile
    BY <1>1, <1>2, <2>2 DEF Ready, CrsWrite, ReadCrs, Unread, Parses
  <2>. QED BY <2>1, <2>2
<1>. QED BY <1>2, <1>3, <1>7, <1>8 DEF ReplacesNothing, ReplaceInv

LEMMA StageReplaces ==
    ASSUME ReplaceInv, EncodingInv', NEW c \in Caller, Stage(c)
    PROVE  ReplaceInv' /\ ReplacesNothing
<1>1. /\ todo[c] # <<>> /\ Next1(c).do = "stage" /\ ~Fresh(c)
      /\ todo' = [todo EXCEPT ![c] = Tail(todo[c])] /\ late' = late
  BY DEF Stage, Doing, Fresh, Advance
<1>2. /\ Next1(c).file \in File \ {StageFile}
      /\ content[Next1(c).file] # Foreign \/ c \in late
  BY <1>1, Front DEF InPlace, Work, Ready
<1>3. /\ content'[StageFile] # Foreign /\ CrsFile \in File \ {StageFile}
      /\ \A g \in File \ {StageFile} : content'[g] = content[g]
  BY Files DEF Stage, Put, Whole, Foreign, CrsFile, StageFile, ReplaceInv, EncodingInv, TypeInv
<1>4. \A s \in Work : Before(Next1(c), s) /\ InPlace(s) => Ready(c, s)'
  BY <1>1, <1>2, <1>3 DEF Before, Ready, CrsWrite
<1>5. \A g \in File : content'[g] = Foreign => g = ResourceFile("gpkg")
  BY <1>3 DEF ReplaceInv
<1>. QED BY <1>1, <1>3, <1>4, <1>5, OnwardKeeps, OnlyStaged

LEMMA PersistReplaces ==
    ASSUME ReplaceInv, EncodingInv', NEW c \in Caller, Persist(c)
    PROVE  ReplaceInv' /\ ReplacesNothing
<1> DEFINE f == Next1(c).file
<1>1. /\ todo[c] # <<>> /\ Next1(c).do = "persist" /\ ~Fresh(c)
      /\ todo' = [todo EXCEPT ![c] = Tail(todo[c])] /\ late' = late
  BY DEF Persist, Doing, Fresh, Advance
<1>2. f \in File \ {StageFile, CrsFile} /\ (content[f] # Foreign \/ c \in late)
  BY <1>1, Front DEF InPlace, Work, Ready
<1>3. /\ content'[f] = Whole(Next1(c).what) /\ content'[StageFile] = Nothing
      /\ \A g \in File \ {f, StageFile} : content'[g] = content[g]
  BY <1>2, Files DEF Persist, ReplaceInv, EncodingInv, TypeInv
<1>4. CrsFile \in File \ {StageFile}
  BY Files DEF CrsFile, StageFile
<1>5. \A s \in Work : Before(Next1(c), s) /\ InPlace(s) => Ready(c, s)'
  BY <1>1 DEF Before, Ready, CrsWrite
<1>6. \A g \in File : content'[g] = Foreign => g = ResourceFile("gpkg")
  BY <1>3 DEF ReplaceInv, Whole, Nothing, Foreign
<1>7. ReplaceInv' /\ ReadCrs' = ReadCrs
  BY <1>1, <1>2, <1>3, <1>4, <1>5, <1>6, OnwardKeeps, CrsUntouched
<1>8. c \in late => PastLook(c, f) /\ Next1(c).do = "persist"
  BY <1>1 DEF PastLook
<1>. QED BY <1>2, <1>3, <1>7, <1>8, NoForeignStage DEF ReplacesNothing

LEMMA FaultReplaces ==
    ASSUME ReplaceInv, EncodingInv', NEW c \in Caller, Fail(c) \/ Die(c)
    PROVE  ReplaceInv' /\ ReplacesNothing
<1>1. todo' = [todo EXCEPT ![c] = <<>>] /\ late' = late
  BY DEF Fail, Die, Finish
<1>2. /\ \A f \in File \ {StageFile} : content'[f] = content[f]
      /\ content'[StageFile] # Foreign
  BY NoForeignStage, Files
     DEF Fail, Die, Put, disk, Nothing, Foreign, ReplaceInv, EncodingInv, TypeInv
<1>. QED BY <1>1, <1>2, EndReplaces

LEMMA PlaceForeignReplaces ==
    ASSUME ReplaceInv, EncodingInv', PlaceForeign
    PROVE  ReplaceInv' /\ ReplacesNothing
<1> DEFINE foreign == ResourceFile("gpkg")
<1>1. /\ foreign \in File /\ foreign # CrsFile /\ CrsFile \in File
      /\ todo' = todo /\ content[foreign] # Foreign
      /\ late' = {c \in Caller : PastLook(c, foreign)}
      /\ \A f \in File \ {foreign} : content'[f] = content[f]
  BY Files DEF PlaceForeign, Put, Is, Foreign, ResourceFile, CrsFile, Encoding, ReplaceInv,
     EncodingInv, TypeInv
<1>2. ReadCrs' = ReadCrs /\ Is(CrsFile)' = Is(CrsFile) /\ content'[CrsFile] = content[CrsFile]
  BY <1>1, CrsUntouched DEF Is
<1> HIDE DEF foreign
<1>3. \A c \in Running' : Ready(c, Next1(c))'
  <2>1. SUFFICES ASSUME NEW c \in Caller, todo[c] # <<>>
                 PROVE  Ready(c, Next1(c))'
    BY <1>1 DEF Running
  <2>2. /\ Next1(c) \in Work /\ Ready(c, Next1(c)) /\ Next1(c)' = Next1(c)
    BY <1>1, <2>1, Front DEF Next1
  <2>3. ASSUME Next1(c).do \in {"stage", "persist"}
        PROVE  content'[Next1(c).file] # Foreign \/ c \in late'
    <3>1. CASE Next1(c).file = foreign
      BY <1>1, <2>1, <2>3, <3>1 DEF PastLook
    <3>2. CASE Next1(c).file # foreign
      <4>1. Next1(c).file \in File \ {foreign}
        BY <2>2, <3>2 DEF Work
      <4>2. Next1(c).file # ResourceFile("gpkg")
        BY <3>2 DEF foreign
      <4>. QED BY <1>1, <4>1, <4>2 DEF ReplaceInv
    <3>. QED BY <3>1, <3>2
  <2>. QED BY <1>2, <2>2, <2>3 DEF Ready, CrsWrite
<1>4. Running' = Running /\ foreign = ResourceFile("gpkg")
  BY <1>1 DEF Running, foreign
<1>. QED BY <1>1, <1>2, <1>3, <1>4 DEF ReplaceInv, ReplacesNothing, Running

-----------------------------------------------------------------------------
LEMMA ReplaceInit == Init => ReplaceInv
<1> SUFFICES ASSUME Init PROVE ReplaceInv
  OBVIOUS
<1>1. Running = {} /\ \A c \in Caller : todo[c] = <<>>
  BY DEF Init, Running
<1>2. \A f \in File : content[f] = Nothing
  BY DEF Init
<1>3. Is(CrsFile) = "absent" /\ Nothing # Foreign
  BY <1>2, Files DEF Is, Nothing, Foreign
<1>. QED BY <1>1, <1>2, <1>3, EncodingInit DEF ReplaceInv, Linked

LEMMA ReplaceNext == ReplaceInv /\ [Next]_vars => ReplaceInv' /\ [ReplacesNothing]_vars
<1> SUFFICES ASSUME ReplaceInv, [Next]_vars
             PROVE  ReplaceInv' /\ [ReplacesNothing]_vars
  OBVIOUS
<1>1. EncodingInv'
  BY EncodingNext DEF ReplaceInv
<1>2. ASSUME NEW c \in Caller, Call(c) PROVE ReplaceInv' /\ ReplacesNothing
  BY <1>1, <1>2, CallReplaces
<1>3. ASSUME NEW c \in Caller, Step(c) PROVE ReplaceInv' /\ ReplacesNothing
  BY <1>1, <1>3, MakingReplaces, TruncateReplaces, FillReplaces, PrepareReplaces,
     StageReplaces, PersistReplaces, SameCrsReplaces DEF Step
<1>4. ASSUME NEW c \in Caller, Fail(c) \/ Die(c) PROVE ReplaceInv' /\ ReplacesNothing
  BY <1>1, <1>4, FaultReplaces
<1>5. CASE PlaceForeign
  BY <1>1, <1>5, PlaceForeignReplaces
<1>6. CASE UNCHANGED vars
  BY <1>1, <1>6 DEF vars, disk, history, ReplaceInv, Ready, Running, Next1, ReadCrs, Parses, Is
<1>. QED BY <1>2, <1>3, <1>4, <1>5, <1>6 DEF Next

\* A storage CRS that reads is never replaced by another one (CRS3), whatever
\* other calls were refused, failed or died; only a write of that very CRS
\* opens its file.  A container of another program, placed at any time, is
\* written over only by a call that had looked before it was there.
THEOREM NothingReplacedEver == Spec => NothingReplaced
<1>1. Init => ReplaceInv
  BY ReplaceInit
<1>2. ReplaceInv /\ [Next]_vars => ReplaceInv' /\ [ReplacesNothing]_vars
  BY ReplaceNext
<1>. QED BY <1>1, <1>2, PTL DEF Spec, NothingReplaced, ReplacesNothing

-----------------------------------------------------------------------------
(* What was acknowledged reads.  A call stores what it was given in the one *)
(* place of each document (Place), and is never done with a document whose  *)
(* last write is ahead of it (Progress); so when it returns all of them are *)
(* stored, and from then on every write of a later call is in doubt from    *)
(* its first step on (Prepared, RecordHeld, CrsHeld).                       *)

\* The documents a call acknowledges when it returns.
DocumentsOf(c) ==
    IF c.op = "create"
    THEN {c.doc[1], [kind |-> "crs", crs |-> c.doc[2]]} ELSE {c.doc}
Documents(c) == DocumentsOf(call[c])
Accepted ==
    Record \cup [kind : {"crs"}, crs : Crs \cup {p.crs : p \in {q \in Profile : q.crsValid}}]

Place(d) == IF d.kind = "record" THEN GlobalFile(d.encoding) ELSE CrsFile
Holds(f) == IsGlobal(f) \/ f = CrsFile   \* a place of documents

Final(s) == s.do \in {"fill", "persist"}
Writes(s, f) == s.file = f /\ s.do \notin {"make_root", "make_folder"}

\* A step works for one of the call's documents, in its place and in its way.
Serves(s, docs) ==
    /\ Holds(s.file) /\ Writes(s, s.file) =>
          s.what \in docs \ {<<>>} /\ s.file = Place(s.what)
    /\ ~Holds(s.file) => s.what = <<>>
    /\ s.do \in {"prepare", "stage", "persist"} => s.file # CrsFile
    /\ IsGlobal(s.file) => (s.file[2] = "gpkg" <=> s.do \in {"prepare", "stage", "persist"})

After(p, s) ==
    /\ s.do # "make_root"
    /\ s.do = "fill" => p = [s EXCEPT !.do = "truncate"]
    /\ s.do = "stage" => p = [s EXCEPT !.do = "prepare"]
    /\ s.do = "persist" => p = [s EXCEPT !.do = "stage"]

\* The last write of a place is followed by no other one.
Ordered(steps, docs) ==
    \A i \in DOMAIN steps :
        /\ Serves(steps[i], docs)
        /\ i > 1 => After(steps[i - 1], steps[i])
        /\ Final(steps[i]) => \A j \in DOMAIN steps : j > i => ~Writes(steps[j], steps[i].file)

\* What the steps before have left behind for this one.
Prepared(s) ==
    /\ s.do = "fill" /\ Holds(s.file) => s.what \in doubt /\ (IsGlobal(s.file) => folder)
    /\ s.do \in {"stage", "persist"} /\ IsGlobal(s.file) =>
          GpkgFeature /\ s.what.seed.fourDigitYear
    /\ s.do = "persist" /\ IsGlobal(s.file) => folder

Stored(d) ==
    /\ content[Place(d)] = Whole(d)
    /\ d.kind = "record" =>
          folder /\ (d.encoding = "gpkg" => GpkgFeature /\ d.seed.fourDigitYear)

Pending(c, d) == \E s \in Left(c) : Final(s) /\ s.file = Place(d)
StoredBy(c, d) == Stored(d) /\ \A s \in Left(c) : ~Writes(s, Place(d))
Progress(c) ==
    \A d \in Documents(c) \ {<<>>} : Pending(c, d) \/ (~Fresh(c) /\ StoredBy(c, d))

RecordHeld(r) ==
    IF r.encoding = "gpkg"
    THEN /\ folder /\ GpkgFeature
         /\ \E d \in {r} \cup doubt :
               /\ content[GlobalFile("gpkg")] = Whole(d)
               /\ d.kind = "record" /\ d.seed.fourDigitYear
    ELSE Texts # {} \/ (folder /\ content[GlobalFile(r.encoding)] = Whole(r))
CrsHeld(d) == content[CrsFile] = Whole(d) \/ \E e \in doubt : e.kind = "crs"

OnePlaceEach(docs) == \A x, y \in docs \ {<<>>} : Place(x) = Place(y) => x = y
KnownDocuments ==
    /\ DOMAIN call = Caller
    /\ \A c \in Running : Documents(c) \subseteq Accepted \cup {<<>>} /\ OnePlaceEach(Documents(c))
    /\ given.record \cup given.crs \cup doubt \subseteq Accepted
    /\ \A r \in given.record : r.kind = "record"
    /\ \A d \in given.crs : d.kind = "crs"
    /\ \A e \in Encoding : Is(GlobalFile(e)) \in {"absent", "torn", "whole"}

AckInv ==
    /\ EncodingInv
    /\ KnownDocuments
    /\ \A c \in Caller : Ordered(todo[c], Documents(c))
    /\ \A c \in Running : Progress(c) /\ Prepared(Next1(c))
    /\ \A r \in given.record : RecordHeld(r)
    /\ \A d \in given.crs : CrsHeld(d)

-----------------------------------------------------------------------------
LEMMA AcceptedDocuments ==
    ASSUME NEW d \in Accepted
    PROVE  /\ d # <<>> /\ d.kind \in {"record", "crs"}
           /\ d.kind = "record" => d \in Record /\ Place(d) = GlobalFile(d.encoding)
                                   /\ IsGlobal(Place(d)) /\ d.encoding \in Encoding
           /\ d.kind = "crs" => d \in CrsDocs /\ Place(d) = CrsFile
                                   /\ \E p \in Crs \cup {q.crs : q \in {r \in Profile : r.crsValid}} :
                                         d = [kind |-> "crs", crs |-> p]
           /\ Place(d) \in File \ {StageFile} /\ Holds(Place(d))
<1>1. d # <<>>
  <2>1. "kind" \in DOMAIN d
    BY DEF Accepted, Record
  <2>2. "kind" \notin DOMAIN <<>>
    OBVIOUS
  <2>. QED BY <2>1, <2>2
<1>2. CASE d \in Record
  <2>1. d.kind = "record" /\ d.encoding \in Encoding
    BY <1>2 DEF Record
  <2>2. GlobalFile(d.encoding) \in File \ {StageFile} /\ IsGlobal(GlobalFile(d.encoding))
    BY <2>1, Files
  <2>. QED BY <1>1, <1>2, <2>1, <2>2 DEF Place, Holds
<1>3. CASE d \in [kind : {"crs"}, crs : Crs \cup {p.crs : p \in {q \in Profile : q.crsValid}}]
  <2>1. PICK p \in Crs \cup {q.crs : q \in {r \in Profile : r.crsValid}} :
            d = [kind |-> "crs", crs |-> p]
    BY <1>3
  <2>2. d.kind = "crs" /\ d \in CrsDocs
    BY <2>1 DEF CrsDocs
  <2>3. CrsFile \in File \ {StageFile}
    BY Files DEF CrsFile, StageFile
  <2>. QED BY <1>1, <2>1, <2>2, <2>3 DEF Place, Holds
<1>. QED BY <1>2, <1>3 DEF Accepted

\* A CRS in use is written as it was given and read as it was written.
LEMMA ExactCrs ==
    ASSUME EpochsExact, NEW d \in Accepted, d.kind = "crs"
    PROVE  ToWkt(d) = d /\ ValidEpoch(d.crs.epoch)
<1>1. PICK p \in Crs \cup {q.crs : q \in {r \in Profile : r.crsValid}} :
          d = [kind |-> "crs", crs |-> p]
  BY AcceptedDocuments
<1>2. p = [name |-> p.name, epoch |-> p.epoch]
  BY DatastoreAssumption DEF DatastoreAssumption
<1>3. ValidEpoch(p.epoch) /\ Written(p.epoch) = p.epoch
  BY DEF EpochsExact
<1>4. \A y, e : y = [kind |-> "crs", crs |-> [name |-> p.name, epoch |-> e]] =>
          ToWkt(y) = [kind |-> "crs", crs |-> [name |-> p.name, epoch |-> Written(e)]]
  BY DEF ToWkt
<1>. QED BY <1>1, <1>2, <1>3, <1>4

-----------------------------------------------------------------------------
(* The lists a call begins with *)

\* Each document has its last write ahead, and the first step needs nothing.
Plan(steps, docs) ==
    /\ steps \in Seq(Work) /\ steps # <<>>
    /\ Ordered(steps, docs)
    /\ \A d \in docs \ {<<>>} :
           \E i \in DOMAIN steps : Final(steps[i]) /\ steps[i].file = Place(d)
    /\ Head(steps).do \notin {"fill", "stage", "persist"}

LEMMA RecordPlan ==
    ASSUME NEW f \in Asset, NEW what \in Record \cup {<<>>},
           IF IsGlobal(f) THEN what \in Record /\ what.encoding = f[2] ELSE what = <<>>
    PROVE  /\ Plan(WriteDocument(f, what), {what})
           /\ f[2] # "gpkg" => Plan(Overwrite(f, what), {what})
<1>1. /\ WriteDocument(f, what) \in Seq(Work) /\ Overwrite(f, what) \in Seq(Work)
  BY DocumentSteps DEF WorkOn
<1>2. f # CrsFile /\ (Holds(f) => IsGlobal(f))
  BY Files DEF Holds
<1>3. (Holds(f) => what # <<>> /\ f = Place(what)) /\ (~Holds(f) => what = <<>>)
  <2>1. what \in Record => what \in Accepted /\ what.kind = "record"
    BY DEF Accepted, Record
  <2>2. ~Holds(f) => what = <<>>
    BY DEF Holds
  <2>. QED BY <1>2, <2>1, <2>2, AcceptedDocuments, Files
<1>4. what # <<>> => f = Place(what)
  <2>1. what # <<>> => IsGlobal(f)
    OBVIOUS
  <2>. QED BY <1>3, <2>1 DEF Holds
<1>5. f[2] # "gpkg" => Plan(Overwrite(f, what), {what})
  <2> SUFFICES ASSUME f[2] # "gpkg" PROVE Plan(Overwrite(f, what), {what})
    OBVIOUS
  <2>1. /\ Overwrite(f, what)[1] = Do("truncate", f, what)
        /\ Overwrite(f, what)[2] = Do("fill", f, what)
        /\ DOMAIN Overwrite(f, what) = {1, 2} /\ Overwrite(f, what) # <<>>
        /\ Head(Overwrite(f, what)) = Do("truncate", f, what)
    BY DEF Overwrite
  <2>2. Serves(Do("truncate", f, what), {what}) /\ Serves(Do("fill", f, what), {what})
    BY <1>2, <1>3 DEF Serves, Do, Writes
  <2>3. After(Do("truncate", f, what), Do("fill", f, what)) /\ ~Final(Do("truncate", f, what))
        /\ Final(Do("fill", f, what)) /\ Do("fill", f, what).file = f
        /\ Do("truncate", f, what).do = "truncate"
    BY DEF After, Do, Final
  <2>4. Ordered(Overwrite(f, what), {what})
    BY <2>1, <2>2, <2>3 DEF Ordered
  <2>. QED BY <1>1, <1>4, <2>1, <2>3, <2>4 DEF Plan
<1>6. f[2] = "gpkg" => Plan(WriteDocument(f, what), {what})
  <2> SUFFICES ASSUME f[2] = "gpkg" PROVE Plan(WriteDocument(f, what), {what})
    OBVIOUS
  <2> DEFINE p == Do("prepare", f, what)
             s == Do("stage", f, what)
             q == Do("persist", f, what)
             list == WriteDocument(f, what)
  <2>1. /\ list[1] = p /\ list[2] = s /\ list[3] = q
        /\ DOMAIN list = {1, 2, 3} /\ list # <<>> /\ Head(list) = p
    BY DEF WriteDocument
  <2>2. Serves(p, {what}) /\ Serves(s, {what}) /\ Serves(q, {what})
    BY <1>2, <1>3 DEF Serves, Do, Writes
  <2>3. /\ After(p, s) /\ After(s, q) /\ ~Final(p) /\ ~Final(s) /\ Final(q)
        /\ q.file = f /\ p.do = "prepare"
    BY DEF After, Do, Final
  <2> HIDE DEF p, s, q, list
  <2>4. Ordered(list, {what})
    BY <2>1, <2>2, <2>3 DEF Ordered
  <2>. QED BY <1>1, <1>4, <2>1, <2>3, <2>4 DEF Plan, list
<1>. QED BY <1>5, <1>6 DEF WriteDocument

LEMMA CrsPlan ==
    ASSUME NEW doc \in CrsDocs, ToWkt(doc) = doc, doc # <<>>, Place(doc) = CrsFile
    PROVE  Plan(WriteCrs(doc), {doc}) /\ Head(WriteCrs(doc)) = Do("same_crs", CrsFile, doc)
<1> DEFINE s == Do("same_crs", CrsFile, doc)
           t == Do("truncate", CrsFile, doc)
           f == Do("fill", CrsFile, doc)
           list == WriteCrs(doc)
<1>1. list \in Seq(Work)
  BY CrsSteps DEF WorkOn
<1>2. list = <<s>> \o <<t, f>>
  BY DEF WriteCrs, Overwrite
<1>3. /\ list[1] = s /\ list[2] = t /\ list[3] = f
      /\ DOMAIN list = {1, 2, 3} /\ list # <<>> /\ Head(list) = s
  <2>1. <<s>> \in Seq({s, t, f}) /\ <<t, f>> \in Seq({s, t, f})
    OBVIOUS
  <2>2. /\ Len(list) = 3
        /\ \A i \in 1 .. 3 : list[i] = IF i <= 1 THEN <<s>>[i] ELSE <<t, f>>[i - 1]
    BY <1>2, <2>1, ConcatProperties
  <2>3. list[1] = s /\ list[2] = t /\ list[3] = f
    BY <2>2
  <2> HIDE DEF list
  <2>4. DOMAIN list = 1 .. 3 /\ list # <<>>
    <3>1. DOMAIN list = 1 .. Len(list)
      BY <1>1, LenProperties
    <3>2. list = <<>> => Len(list) = 0
      BY EmptySeq
    <3>. QED BY <2>2, <3>1, <3>2
  <2>5. 1 .. 3 = {1, 2, 3} /\ Head(list) = list[1]
    BY <1>1, <2>4
  <2>. QED BY <2>3, <2>4, <2>5
<1>4. Serves(s, {doc}) /\ Serves(t, {doc}) /\ Serves(f, {doc})
  BY Files DEF Serves, Do, Writes, Holds
<1>5. /\ After(s, t) /\ After(t, f) /\ ~Final(s) /\ ~Final(t) /\ Final(f)
      /\ f.file = CrsFile /\ s.do = "same_crs"
  BY DEF After, Do, Final
<1> HIDE DEF s, t, f, list
<1>6. Ordered(list, {doc})
  BY <1>3, <1>4, <1>5 DEF Ordered
<1>. QED BY <1>1, <1>3, <1>5, <1>6 DEF Plan, list, s

LEMMA OrderedJoin ==
    ASSUME NEW s \in Seq(Work), NEW t \in Seq(Work), s # <<>>, t # <<>>,
           NEW D, NEW E, Ordered(s, D), Ordered(t, E),
           Head(t).do \notin {"make_root", "fill", "stage", "persist"},
           \A i \in DOMAIN s, j \in DOMAIN t : Final(s[i]) => ~Writes(t[j], s[i].file)
    PROVE  /\ Ordered(s \o t, D \cup E)
           /\ s \o t \in Seq(Work) /\ s \o t # <<>> /\ Head(s \o t) = Head(s)
           /\ \A i \in DOMAIN s : \E j \in DOMAIN (s \o t) : (s \o t)[j] = s[i]
           /\ \A i \in DOMAIN t : \E j \in DOMAIN (s \o t) : (s \o t)[j] = t[i]
           /\ \A j \in DOMAIN (s \o t) :
                  \/ \E i \in DOMAIN s : (s \o t)[j] = s[i]
                  \/ \E i \in DOMAIN t : (s \o t)[j] = t[i]
<1>1. PICK m \in Nat : m = Len(s) /\ m > 0 /\ DOMAIN s = 1 .. m
  BY EmptySeq, LenProperties
<1>2. PICK n \in Nat : n = Len(t) /\ n > 0 /\ DOMAIN t = 1 .. n
  BY EmptySeq, LenProperties
<1>3. /\ s \o t \in Seq(Work) /\ Len(s \o t) = m + n
      /\ \A i \in 1 .. m + n : (s \o t)[i] = IF i <= m THEN s[i] ELSE t[i - m]
  BY <1>1, <1>2, ConcatProperties
<1>4. DOMAIN (s \o t) = 1 .. m + n
  BY <1>3, LenProperties
<1>5. PICK u \in Seq(Work) : u = s \o t
  BY <1>3
<1>6. /\ DOMAIN u = 1 .. m + n /\ m + n > 0
      /\ \A i \in 1 .. m : u[i] = s[i]
      /\ \A i \in 1 .. n : u[m + i] = t[i]
  BY <1>1, <1>2, <1>3, <1>4, <1>5
<1>7. \A k \in DOMAIN u : k \in 1 .. m \/ \E i \in 1 .. n : k = m + i
  <2>1. \A k \in 1 .. m + n : k \in 1 .. m \/ k - m \in 1 .. n
    BY <1>1, <1>2
  <2>2. \A k \in 1 .. m + n : k = m + (k - m)
    BY <1>1, <1>2
  <2>3. DOMAIN u = 1 .. m + n
    BY <1>6
  <2>. QED BY <2>1, <2>2, <2>3
<1>8. u # <<>> /\ Head(u) = s[1] /\ Head(s) = s[1] /\ Head(t) = t[1]
  <2>1. Len(u) = m + n /\ m + n # 0
    BY <1>1, <1>2, <1>3, <1>5
  <2>2. u # <<>>
    BY <2>1
  <2>3. 1 \in 1 .. m
    BY <1>1
  <2>4. u[1] = s[1]
    BY <1>6, <2>3
  <2>. QED BY <2>2, <2>4
<1>9. ASSUME NEW k \in DOMAIN u
      PROVE  /\ Serves(u[k], D \cup E)
             /\ k > 1 => After(u[k - 1], u[k])
  <2>1. CASE k \in 1 .. m
    <3>1. u[k] = s[k] /\ (k > 1 => u[k - 1] = s[k - 1])
      BY <1>1, <1>6, <2>1
    <3>. QED BY <1>1, <2>1, <3>1 DEF Ordered, Serves
  <2>2. CASE k = m + 1
    <3>1. u[k] = t[1] /\ 1 \in DOMAIN t
      BY <1>1, <1>2, <1>6, <2>2
    <3>. QED BY <1>8, <3>1 DEF Ordered, Serves, After
  <2>3. ASSUME NEW i \in 1 .. n, i > 1, k = m + i
        PROVE  /\ Serves(u[k], D \cup E)
               /\ k > 1 => After(u[k - 1], u[k])
    <3>1. i - 1 \in 1 .. n /\ k - 1 = m + (i - 1)
      BY <1>1, <1>2, <2>3
    <3>2. u[k] = t[i] /\ u[k - 1] = t[i - 1]
      BY <1>6, <2>3, <3>1
    <3>3. Serves(t[i], E) /\ After(t[i - 1], t[i])
      BY <1>2, <2>3 DEF Ordered
    <3>4. Serves(t[i], D \cup E)
      BY <3>3 DEF Serves
    <3>. QED BY <3>2, <3>3, <3>4
  <2>4. \A i \in 1 .. n : i = 1 \/ i > 1
    BY <1>2
  <2>. QED BY <1>7, <2>1, <2>2, <2>3, <2>4
<1>10. ASSUME NEW k \in DOMAIN u, Final(u[k]), NEW j \in DOMAIN u, j > k
       PROVE  ~Writes(u[j], u[k].file)
  <2>1. CASE k \in 1 .. m /\ j \in 1 .. m
    <3>1. u[k] = s[k] /\ u[j] = s[j]
      BY <1>6, <2>1
    <3>. QED BY <1>1, <1>10, <2>1, <3>1 DEF Ordered
  <2>2. ASSUME NEW i \in 1 .. n, j = m + i, k \in 1 .. m
        PROVE  ~Writes(u[j], u[k].file)
    BY <1>1, <1>2, <1>6, <1>10, <2>2
  <2>3. ASSUME NEW i \in 1 .. n, j = m + i, NEW h \in 1 .. n, k = m + h
        PROVE  ~Writes(u[j], u[k].file)
    <3>1. u[k] = t[h] /\ u[j] = t[i] /\ i > h
      BY <1>1, <1>6, <1>10, <2>3
    <3>. QED BY <1>2, <1>10, <3>1 DEF Ordered
  <2>4. ASSUME NEW h \in 1 .. n, k = m + h, j \in 1 .. m
        PROVE  FALSE
    BY <1>1, <1>10, <2>4
  <2>. QED BY <1>7, <2>1, <2>2, <2>3, <2>4
<1>11. Ordered(u, D \cup E)
  BY <1>9, <1>10 DEF Ordered
<1>12. \A i \in 1 .. m : i \in DOMAIN u
  BY <1>1, <1>2, <1>6
<1>13. \A i \in 1 .. n : m + i \in DOMAIN u
  BY <1>1, <1>2, <1>6
<1>14. \A i \in DOMAIN s : \E j \in DOMAIN u : u[j] = s[i]
  BY <1>1, <1>6, <1>12
<1>15. \A i \in DOMAIN t : \E j \in DOMAIN u : u[j] = t[i]
  BY <1>2, <1>6, <1>13
<1>16. \A j \in DOMAIN u :
           (\E i \in DOMAIN s : u[j] = s[i]) \/ \E i \in DOMAIN t : u[j] = t[i]
  <2>1. \A j \in DOMAIN u : j \in DOMAIN s \/ \E i \in DOMAIN t : j = m + i
    BY <1>1, <1>2, <1>7
  <2>. QED BY <1>1, <1>2, <1>6, <2>1
<1>. QED BY <1>5, <1>8, <1>11, <1>14, <1>15, <1>16

LEMMA CreatePlan ==
    ASSUME NEW record \in Record, NEW doc \in CrsDocs,
           ToWkt(doc) = doc, doc # <<>>, Place(doc) = CrsFile
    PROVE  Plan(<<Do("make_root", CrsFile, <<>>), Do("make_folder", CrsFile, <<>>)>>
                    \o WriteRecord(record) \o WriteCrs(doc), {record, doc})
<1> DEFINE root0 == Do("make_root", CrsFile, <<>>)
           folder0 == Do("make_folder", CrsFile, <<>>)
           make == <<root0, folder0>>
           w == WriteRecord(record)
           v == WriteCrs(doc)
           g == GlobalFile(record.encoding)
<1>1. g \in Asset /\ IsGlobal(g) /\ g[2] = record.encoding /\ g # CrsFile
  BY Files DEF Record
<1>2. Plan(w, {record}) /\ Plan(v, {doc})
  BY <1>1, RecordPlan, CrsPlan DEF WriteRecord
<1>3. WorkOn(w, {g}) /\ WorkOn(v, {CrsFile})
  BY <1>1, DocumentSteps, CrsSteps DEF WriteRecord
<1>4. make \in Seq(Work) /\ make # <<>> /\ Ordered(make, {}) /\ Head(make) = root0
      /\ \A i \in DOMAIN make : ~Final(make[i])
  <2>1. root0 \in Work /\ folder0 \in Work
    BY Files DEF Do, Work, Payload
  <2>2. /\ Serves(root0, {}) /\ Serves(folder0, {}) /\ After(root0, folder0)
        /\ ~Final(root0) /\ ~Final(folder0)
    BY Files DEF Serves, Do, Writes, After, Final
  <2> HIDE DEF root0, folder0
  <2>3. /\ make[1] = root0 /\ make[2] = folder0 /\ DOMAIN make = {1, 2}
        /\ make # <<>> /\ Head(make) = root0
    OBVIOUS
  <2>4. make \in Seq(Work)
    BY <2>1
  <2> HIDE DEF make
  <2>. QED BY <2>2, <2>3, <2>4 DEF Ordered
<1>5. root0.do = "make_root"
  BY DEF Do
<1>6. /\ Head(w).do \notin {"make_root", "fill", "stage", "persist"}
      /\ Head(v).do \notin {"make_root", "fill", "stage", "persist"}
  <2>1. Head(w).do \in {"prepare", "truncate"}
    BY DEF WriteRecord, WriteDocument, Overwrite, Do
  <2>2. Head(v) = Do("same_crs", CrsFile, doc)
    BY CrsPlan
  <2>. QED BY <2>1, <2>2 DEF Do
<1> HIDE DEF root0, make, w, v, g
<1>7. /\ Ordered(make \o w, {} \cup {record})
      /\ make \o w \in Seq(Work) /\ make \o w # <<>> /\ Head(make \o w) = Head(make)
      /\ \A i \in DOMAIN w : \E j \in DOMAIN (make \o w) : (make \o w)[j] = w[i]
      /\ \A j \in DOMAIN (make \o w) :
             \/ \E i \in DOMAIN make : (make \o w)[j] = make[i]
             \/ \E i \in DOMAIN w : (make \o w)[j] = w[i]
  BY <1>2, <1>4, <1>6, OrderedJoin DEF Plan
<1>8. PICK x \in Seq(Work) : x = make \o w
  BY <1>7
<1>9. \A i \in DOMAIN x, j \in DOMAIN v : Final(x[i]) => ~Writes(v[j], x[i].file)
  <2>1. \A i \in DOMAIN x : Final(x[i]) => x[i].file = g
    BY <1>3, <1>4, <1>7, <1>8 DEF WorkOn
  <2>2. \A j \in DOMAIN v : v[j].file = CrsFile
    BY <1>3 DEF WorkOn
  <2>. QED BY <1>1, <2>1, <2>2 DEF Writes
<1>10. /\ Ordered(x \o v, {record} \cup {doc})
       /\ x \o v \in Seq(Work) /\ x \o v # <<>> /\ Head(x \o v) = Head(x)
       /\ \A i \in DOMAIN x : \E j \in DOMAIN (x \o v) : (x \o v)[j] = x[i]
       /\ \A i \in DOMAIN v : \E j \in DOMAIN (x \o v) : (x \o v)[j] = v[i]
  <2>1. Ordered(x, {record}) /\ x # <<>>
    <3>1. {} \cup {record} = {record}
      OBVIOUS
    <3>. QED BY <1>7, <1>8, <3>1
  <2>. QED BY <1>2, <1>6, <1>9, <2>1, OrderedJoin DEF Plan
<1>11. \A d \in {record, doc} \ {<<>>} :
           \E i \in DOMAIN (x \o v) : Final((x \o v)[i]) /\ (x \o v)[i].file = Place(d)
  <2>1. record \in Accepted /\ record # <<>>
    BY AcceptedDocuments DEF Accepted
  <2>2. PICK i \in DOMAIN w : Final(w[i]) /\ w[i].file = Place(record)
    BY <1>2, <2>1 DEF Plan
  <2>3. PICK j \in DOMAIN x : x[j] = w[i]
    BY <1>7, <1>8
  <2>4. \E k \in DOMAIN (x \o v) : Final((x \o v)[k]) /\ (x \o v)[k].file = Place(record)
    BY <1>10, <2>2, <2>3
  <2>5. PICK h \in DOMAIN v : Final(v[h]) /\ v[h].file = Place(doc)
    BY <1>2 DEF Plan
  <2>6. \E k \in DOMAIN (x \o v) : Final((x \o v)[k]) /\ (x \o v)[k].file = Place(doc)
    BY <1>10, <2>5
  <2>. QED BY <2>4, <2>6
<1>12. {record} \cup {doc} = {record, doc}
  OBVIOUS
<1>13. Plan(x \o v, {record, doc})
  BY <1>4, <1>5, <1>7, <1>8, <1>10, <1>11, <1>12 DEF Plan
<1>. QED BY <1>8, <1>13 DEF root0, make, w, v

-----------------------------------------------------------------------------
(* A running call *)

\* What is known of the step at the front and of the list behind it.
LEMMA FrontOf ==
    ASSUME AckInv, NEW c \in Caller, todo[c] # <<>>
    PROVE  /\ c \in Running /\ Next1(c) \in Left(c) /\ Next1(c) \in Work
           /\ Serves(Next1(c), Documents(c))
           /\ Tail(todo[c]) \in Seq(Work) /\ Ordered(Tail(todo[c]), Documents(c))
           /\ Tail(todo[c]) # <<>> =>
                 After(Next1(c), Head(Tail(todo[c]))) /\ Head(Tail(todo[c])) \in Work
           /\ Left(c) = {Next1(c)} \cup {Tail(todo[c])[i] : i \in DOMAIN Tail(todo[c])}
           /\ Final(Next1(c)) => \A i \in DOMAIN Tail(todo[c]) :
                                     ~Writes(Tail(todo[c])[i], Next1(c).file)
<1>1. PICK s \in Seq(Work) : s = todo[c] /\ s # <<>>
  BY DEF AckInv, EncodingInv, TypeInv
<1>2. PICK n \in Nat : n = Len(s) /\ n > 0 /\ DOMAIN s = 1 .. n
  BY <1>1, EmptySeq, LenProperties
<1>3. PICK t \in Seq(Work) : t = Tail(s)
  BY <1>1, HeadTailProperties
<1>4. /\ DOMAIN t = 1 .. n - 1 /\ Len(t) = n - 1
      /\ \A i \in 1 .. n - 1 : t[i] = s[i + 1]
  BY <1>1, <1>2, <1>3, HeadTailProperties, LenProperties
<1>5. Next1(c) = s[1] /\ s[1] \in Work /\ 1 \in DOMAIN s
  BY <1>1, <1>2, ElementOfSeq DEF Next1
<1>6. Ordered(s, Documents(c))
  BY <1>1 DEF AckInv
<1>7. \A i \in 1 .. n - 1 : i + 1 \in 1 .. n /\ i + 1 > 1 /\ (i + 1) - 1 = i
  BY <1>2
<1>8. \A k \in 1 .. n : k = 1 \/ (k - 1 \in 1 .. n - 1 /\ k = (k - 1) + 1)
  BY <1>2
<1>9. Ordered(t, Documents(c))
  <2>1. ASSUME NEW i \in DOMAIN t
        PROVE  Serves(t[i], Documents(c)) /\ (i > 1 => After(t[i - 1], t[i]))
    <3>1. t[i] = s[i + 1] /\ i + 1 \in DOMAIN s /\ i + 1 > 1 /\ (i + 1) - 1 = i
      BY <1>2, <1>4, <1>7, <2>1
    <3>2. Serves(t[i], Documents(c)) /\ After(s[i], t[i])
      BY <1>6, <3>1 DEF Ordered
    <3>3. i > 1 => t[i - 1] = s[i]
      <4>1. i > 1 => i - 1 \in 1 .. n - 1 /\ (i - 1) + 1 = i
        BY <1>2, <1>4, <2>1
      <4>. QED BY <1>4, <4>1
    <3>. QED BY <3>2, <3>3
  <2>2. ASSUME NEW i \in DOMAIN t, Final(t[i]), NEW j \in DOMAIN t, j > i
        PROVE  ~Writes(t[j], t[i].file)
    <3>1. /\ t[i] = s[i + 1] /\ i + 1 \in DOMAIN s /\ t[j] = s[j + 1] /\ j + 1 \in DOMAIN s
      BY <1>2, <1>4, <1>7, <2>2
    <3>2. j + 1 > i + 1
      BY <1>2, <1>4, <2>2
    <3>. QED BY <1>6, <2>2, <3>1, <3>2 DEF Ordered
  <2>. QED BY <2>1, <2>2 DEF Ordered
<1>10. t # <<>> => After(Next1(c), Head(t)) /\ Head(t) \in Work
  <2> SUFFICES ASSUME t # <<>> PROVE After(Next1(c), Head(t)) /\ Head(t) \in Work
    OBVIOUS
  <2>1. 1 \in DOMAIN t /\ Head(t) = t[1] /\ t[1] \in Work
    BY <1>3, ElementOfSeq
  <2>2. t[1] = s[2] /\ 2 \in DOMAIN s
    BY <1>2, <1>4, <2>1
  <2>3. After(s[2 - 1], s[2])
    BY <1>6, <2>2 DEF Ordered
  <2>. QED BY <1>5, <2>1, <2>2, <2>3
<1>11. Left(c) = {s[1]} \cup {t[i] : i \in DOMAIN t}
  <2>1. Left(c) = {s[k] : k \in 1 .. n}
    BY <1>1, <1>2 DEF Left
  <2>2. \A k \in 1 .. n : s[k] \in {s[1]} \cup {t[i] : i \in DOMAIN t}
    <3>1. \A k \in 1 .. n : k = 1 \/ (k - 1 \in DOMAIN t /\ t[k - 1] = s[k])
      BY <1>4, <1>8
    <3>. QED BY <3>1
  <2>3. \A i \in DOMAIN t : t[i] \in {s[k] : k \in 1 .. n}
    BY <1>4, <1>7
  <2>. QED BY <1>2, <1>5, <2>1, <2>2, <2>3
<1>12. Final(Next1(c)) => \A i \in DOMAIN t : ~Writes(t[i], Next1(c).file)
  <2>1. \A i \in DOMAIN t : t[i] = s[i + 1] /\ i + 1 \in DOMAIN s /\ i + 1 > 1
    BY <1>2, <1>4, <1>7
  <2>. QED BY <1>5, <1>6, <2>1 DEF Ordered
<1>13. c \in Running /\ Next1(c) \in Left(c) /\ Serves(Next1(c), Documents(c))
  BY <1>1, <1>5, <1>6, <1>11 DEF Running, Ordered
<1>. QED BY <1>1, <1>3, <1>5, <1>9, <1>10, <1>11, <1>12, <1>13

\* A call that has yet to make the root folder has all its writes ahead.
LEMMA FreshTold ==
    ASSUME AckInv, NEW d \in Running, Fresh(d), todo'[d] = todo[d]
    PROVE  Prepared(Next1(d))' /\ \A x \in Documents(d) \ {<<>>} : Pending(d, x)
<1>1. Next1(d)'.do = "make_root"
  BY DEF Fresh, Doing, Next1
<1>2. Prepared(Next1(d))'
  BY <1>1 DEF Prepared
<1>. QED BY <1>2 DEF AckInv, Progress

\* Everything that is not of the record or of the CRS may change.
LEMMA NothingToldKeeps ==
    ASSUME AckInv, UNCHANGED <<given, doubt>>, folder => folder',
           \A f \in File : Holds(f) => content'[f] = content[f]
    PROVE  /\ \A e \in Encoding : Is(GlobalFile(e))' \in {"absent", "torn", "whole"}
           /\ \A r \in given.record : RecordHeld(r)'
           /\ \A d \in given.crs : CrsHeld(d)'
           /\ \A d \in Accepted : Stored(d) => Stored(d)'
<1>1. /\ \A e \in Encoding : content'[GlobalFile(e)] = content[GlobalFile(e)]
      /\ content'[CrsFile] = content[CrsFile]
  BY Files DEF Holds
<1>2. \A r \in given.record : r.encoding \in Encoding
  BY AcceptedDocuments DEF AckInv, KnownDocuments
<1>3. ASSUME NEW r \in given.record PROVE RecordHeld(r)'
  <2>1. RecordHeld(r)
    BY DEF AckInv
  <2>2. CASE r.encoding = "gpkg"
    BY <1>1, <2>1, <2>2 DEF RecordHeld, Encoding
  <2>3. CASE r.encoding # "gpkg"
    BY <1>1, <1>2, <2>1, <2>3 DEF RecordHeld, Texts
  <2>. QED BY <2>2, <2>3
<1>4. ASSUME NEW d \in given.crs PROVE CrsHeld(d)'
  BY <1>1 DEF AckInv, CrsHeld
<1>5. ASSUME NEW d \in Accepted, Stored(d) PROVE Stored(d)'
  <2>1. Place(d) \in File /\ Holds(Place(d))
    BY AcceptedDocuments
  <2>2. Place(d)' = Place(d)
    BY DEF Place
  <2>. QED BY <1>5, <2>1 DEF Stored, Place
<1>6. \A e \in Encoding : Is(GlobalFile(e))' \in {"absent", "torn", "whole"}
  BY <1>1 DEF AckInv, KnownDocuments, Is
<1>. QED BY <1>3, <1>4, <1>5, <1>6

\* A call begins with a plan, or without anything to do.
LEMMA BeginTold ==
    ASSUME AckInv, EncodingInv', NEW c \in Caller \ Running, NEW entry, NEW steps,
           todo' = [todo EXCEPT ![c] = steps], call' = [call EXCEPT ![c] = entry],
           UNCHANGED <<given, doubt, content, folder>>,
           \/ steps = <<>>
           \/ /\ Plan(steps, DocumentsOf(entry)) /\ OnePlaceEach(DocumentsOf(entry))
              /\ DocumentsOf(entry) \subseteq Accepted \cup {<<>>}
    PROVE  AckInv'
<1>1. /\ \A d \in Caller : todo'[d] = IF d = c THEN steps ELSE todo[d]
      /\ \A d \in Caller : call'[d] = IF d = c THEN entry ELSE call[d]
      /\ DOMAIN call' = Caller
  BY DEF AckInv, EncodingInv, TypeInv, KnownDocuments
<1>2. /\ \A d \in Caller \ {c} : Documents(d)' = Documents(d) /\ Left(d)' = Left(d)
                                 /\ (Fresh(d)' <=> Fresh(d)) /\ Next1(d)' = Next1(d)
      /\ Documents(c)' = DocumentsOf(entry)
      /\ Running' \ {c} = Running \ {c}
  BY <1>1 DEF Documents, DocumentsOf, Left, Fresh, Doing, Next1, Running
<1>3. c \in Running' => steps # <<>> /\ Plan(steps, DocumentsOf(entry))
                        /\ OnePlaceEach(DocumentsOf(entry))
                        /\ DocumentsOf(entry) \subseteq Accepted \cup {<<>>}
  BY <1>1 DEF Running
<1>4. KnownDocuments'
  <2>1. ASSUME NEW d \in Running'
        PROVE  Documents(d)' \subseteq Accepted \cup {<<>>} /\ OnePlaceEach(Documents(d))'
    <3>1. CASE d = c
      BY <1>2, <1>3, <2>1, <3>1 DEF OnePlaceEach, Place
    <3>2. CASE d # c
      <4>1. d \in Running /\ d \in Caller
        BY <1>2, <2>1, <3>2 DEF Running
      <4>. QED BY <1>2, <3>2, <4>1 DEF AckInv, KnownDocuments, OnePlaceEach, Place
    <3>. QED BY <3>1, <3>2
  <2>2. \A e \in Encoding : Is(GlobalFile(e))' \in {"absent", "torn", "whole"}
    BY DEF AckInv, KnownDocuments, Is
  <2>. QED BY <1>1, <2>1, <2>2 DEF AckInv, KnownDocuments
<1>5. ASSUME NEW d \in Caller PROVE Ordered(todo[d], Documents(d))'
  <2>1. CASE d = c
    <3>1. Ordered(<<>>, DocumentsOf(entry))
      BY DEF Ordered
    <3>2. Ordered(steps, DocumentsOf(entry))
      BY <3>1 DEF Plan
    <3>. QED BY <1>1, <1>2, <2>1, <3>2 DEF Ordered
  <2>2. CASE d # c
    <3>1. Ordered(todo[d], Documents(d))
      BY DEF AckInv
    <3>. QED BY <1>1, <1>2, <2>2, <3>1 DEF Ordered
  <2>. QED BY <2>1, <2>2
<1>6. ASSUME NEW d \in Running' PROVE Progress(d)' /\ Prepared(Next1(d))'
  <2>1. CASE d = c
    <3>1. Left(c)' = {steps[i] : i \in DOMAIN steps} /\ Next1(c)' = Head(steps)
      BY <1>1 DEF Left, Next1
    <3>2. ASSUME NEW x \in Documents(c)' \ {<<>>}
          PROVE  \E s \in Left(c)' : Final(s) /\ s.file = Place(x)
      BY <1>2, <1>3, <2>1, <3>1 DEF Plan
    <3>3. Progress(c)'
      BY <3>2 DEF Progress, Pending, Final, Place
    <3>4. Prepared(Next1(c))'
      BY <1>3, <2>1, <3>1 DEF Plan, Prepared
    <3>. QED BY <2>1, <3>3, <3>4
  <2>2. CASE d # c
    <3>1. d \in Running /\ d \in Caller /\ Progress(d) /\ Prepared(Next1(d))
      BY <1>2, <2>2 DEF AckInv, Running
    <3>2. Progress(d)'
      BY <1>2, <2>2, <3>1 DEF Progress, Pending, StoredBy, Stored, Writes, Place, Final
    <3>3. Prepared(Next1(d))'
      BY <1>2, <2>2, <3>1 DEF Prepared
    <3>. QED BY <3>2, <3>3
  <2>. QED BY <2>1, <2>2
<1>7. /\ \A r \in given'.record : RecordHeld(r)'
      /\ \A d \in given'.crs : CrsHeld(d)'
  BY DEF AckInv, RecordHeld, CrsHeld, Texts
<1>. QED BY <1>4, <1>5, <1>6, <1>7 DEF AckInv

\* A call ends before its time: what it has not stored it does not acknowledge.
LEMMA EndTold ==
    ASSUME AckInv, EncodingInv', NEW c \in Caller, todo' = [todo EXCEPT ![c] = <<>>],
           UNCHANGED <<call, given, doubt, folder>>,
           \A f \in File : Holds(f) => content'[f] = content[f]
    PROVE  AckInv'
<1>1. \A d \in Caller : todo'[d] = IF d = c THEN <<>> ELSE todo[d]
  BY DEF AckInv, EncodingInv, TypeInv
<1>2. /\ \A d \in Caller : Documents(d)' = Documents(d)
      /\ \A d \in Caller \ {c} : Left(d)' = Left(d) /\ (Fresh(d)' <=> Fresh(d))
                                 /\ Next1(d)' = Next1(d)
      /\ Running' = Running \ {c}
  BY <1>1 DEF Documents, Left, Fresh, Doing, Next1, Running
<1>3. /\ \A e \in Encoding : Is(GlobalFile(e))' \in {"absent", "torn", "whole"}
      /\ \A r \in given.record : RecordHeld(r)'
      /\ \A d \in given.crs : CrsHeld(d)'
      /\ \A d \in Accepted : Stored(d) => Stored(d)'
  BY NothingToldKeeps
<1>4. KnownDocuments'
  <2>1. \A d \in Running' : d \in Running /\ d \in Caller
    BY <1>2 DEF Running
  <2>. QED BY <1>2, <1>3, <2>1 DEF AckInv, KnownDocuments, OnePlaceEach, Place
<1>5. ASSUME NEW d \in Caller PROVE Ordered(todo[d], Documents(d))'
  <2>1. CASE d = c
    BY <1>1, <2>1 DEF Ordered
  <2>2. CASE d # c
    <3>1. Ordered(todo[d], Documents(d))
      BY DEF AckInv
    <3>. QED BY <1>1, <1>2, <2>2, <3>1 DEF Ordered
  <2>. QED BY <2>1, <2>2
<1>6. ASSUME NEW d \in Running' PROVE Progress(d)' /\ Prepared(Next1(d))'
  <2>1. /\ d \in Running /\ d \in Caller \ {c} /\ Progress(d) /\ Prepared(Next1(d))
        /\ Documents(d) \subseteq Accepted \cup {<<>>}
    BY <1>2 DEF AckInv, Running, KnownDocuments
  <2>2. ASSUME NEW x \in Documents(d)' \ {<<>>}
        PROVE  Pending(d, x)' \/ (~Fresh(d)' /\ StoredBy(d, x)')
    <3>1. x \in Accepted /\ x \in Documents(d) \ {<<>>}
      BY <1>2, <2>1
    <3>2. Stored(x) => Stored(x)'
      BY <1>3, <3>1
    <3>3. Pending(d, x) \/ (~Fresh(d) /\ StoredBy(d, x))
      BY <2>1, <3>1 DEF Progress
    <3>. QED BY <1>2, <2>1, <3>2, <3>3 DEF Pending, StoredBy, Writes, Place, Final
  <2>3. Progress(d)'
    BY <2>2 DEF Progress
  <2>4. Prepared(Next1(d))'
    BY <1>2, <2>1 DEF Prepared
  <2>. QED BY <2>3, <2>4
<1>. QED BY <1>3, <1>4, <1>5, <1>6 DEF AckInv

\* A running call does its next step.  What it changes of the places of
\* documents it may have in doubt; a last write stores its document.
LEMMA OnwardTold ==
    ASSUME AckInv, EncodingInv', NEW c \in Caller, todo[c] # <<>>, NEW s, s = Next1(c),
           \A d \in Running : d = c \/ Fresh(d),
           NEW touched \in SUBSET Accepted, Advance(c, touched), folder => folder',
           \A f \in File : Holds(f) =>
               \/ content'[f] = content[f]
               \/ /\ Writes(s, f) /\ s.what \in doubt \cup touched
                  /\ \/ content'[f] = Torn /\ (IsGlobal(f) => f[2] # "gpkg")
                     \/ Final(s),
           Final(s) /\ Holds(s.file) => Stored(s.what)',
           \A u \in Work : Tail(todo[c]) # <<>> /\ After(s, u) => Prepared(u)'
    PROVE  AckInv'
<1>1. PICK tail \in Seq(Work) :
          /\ tail = Tail(todo[c])
          /\ c \in Running /\ s \in Left(c) /\ s \in Work
          /\ Serves(s, Documents(c))
          /\ Ordered(tail, Documents(c))
          /\ tail # <<>> => After(s, Head(tail)) /\ Head(tail) \in Work
          /\ Left(c) = {s} \cup {tail[i] : i \in DOMAIN tail}
          /\ Final(s) => \A i \in DOMAIN tail : ~Writes(tail[i], s.file)
  BY FrontOf
<1>2. /\ \A d \in Caller : todo'[d] = IF d = c THEN tail ELSE todo[d]
      /\ call' = call
  BY <1>1 DEF Advance, AckInv, EncodingInv, TypeInv
<1>3. /\ \A d \in Caller : Documents(d)' = Documents(d)
      /\ \A d \in Caller \ {c} : Left(d)' = Left(d) /\ (Fresh(d)' <=> Fresh(d))
      /\ Running' \subseteq Running
      /\ Left(c)' = {tail[i] : i \in DOMAIN tail}
      /\ Next1(c)' = Head(tail)
      /\ c \in Running' <=> tail # <<>>
  <2>1. \A d \in Caller : Documents(d)' = Documents(d)
    BY <1>2 DEF Documents
  <2>2. \A d \in Caller \ {c} : Left(d)' = Left(d) /\ (Fresh(d)' <=> Fresh(d))
    BY <1>2 DEF Left, Fresh, Doing, Next1
  <2>3. todo'[c] = tail
    BY <1>2
  <2>4. Running' \subseteq Running /\ (c \in Running' <=> tail # <<>>)
    BY <1>1, <1>2 DEF Running
  <2>. QED BY <2>1, <2>2, <2>3, <2>4 DEF Left, Next1
<1>4. /\ Documents(c) \subseteq Accepted \cup {<<>>} /\ OnePlaceEach(Documents(c))
      /\ Progress(c)
  BY <1>1 DEF AckInv, KnownDocuments
<1>5. ASSUME Final(s), Holds(s.file)
      PROVE  /\ s.what \in Documents(c) \ {<<>>} /\ s.file = Place(s.what)
             /\ Stored(s.what)' /\ Writes(s, s.file)
  <2>1. Writes(s, s.file)
    BY <1>5 DEF Final, Writes
  <2>. QED BY <1>1, <1>5, <2>1 DEF Serves
<1>6. ASSUME NEW d \in Documents(c) \ {<<>>}
      PROVE  \/ Pending(c, d)'
             \/ Stored(d)' /\ \A u \in Left(c)' : ~Writes(u, Place(d))
  <2>1. d \in Accepted /\ Place(d) \in File /\ Holds(Place(d)) /\ Place(d)' = Place(d)
    BY <1>4, <1>6, AcceptedDocuments DEF Place
  <2>2. CASE Pending(c, d)
    <3>1. PICK u \in Left(c) : Final(u) /\ u.file = Place(d)
      BY <2>2 DEF Pending
    <3>2. CASE u \in Left(c)'
      BY <2>1, <3>1, <3>2 DEF Pending, Final
    <3>3. CASE u = s
      <4>1. s.what = d /\ Stored(d)'
        BY <1>4, <1>5, <1>6, <2>1, <3>1, <3>3 DEF OnePlaceEach
      <4>. QED BY <1>1, <1>3, <3>1, <3>3, <4>1
    <3>. QED BY <1>1, <1>3, <3>1, <3>2, <3>3
  <2>3. CASE StoredBy(c, d)
    <3>1. content'[Place(d)] = content[Place(d)]
      BY <1>1, <2>1, <2>3 DEF StoredBy
    <3>2. Stored(d)'
      BY <2>1, <2>3, <3>1 DEF StoredBy, Stored
    <3>. QED BY <1>1, <1>3, <2>3, <3>2 DEF StoredBy
  <2>. QED BY <1>4, <1>6, <2>2, <2>3 DEF Progress
<1>7. ASSUME tail = <<>>, NEW d \in Documents(c) \ {<<>>}
      PROVE  Stored(d)'
  <2>1. Left(c)' = {}
    BY <1>3, <1>7
  <2>. QED BY <1>6, <1>7, <2>1 DEF Pending
<1>8. /\ doubt' \subseteq doubt \cup touched
      /\ tail # <<>> => given' = given /\ doubt' = doubt \cup touched
      /\ tail = <<>> =>
            /\ given'.record = {d \in Documents(c) : d # <<>> /\ d.kind = "record"}
               \/ /\ given'.record = given.record
                  /\ \A x \in doubt \cup touched : x.kind = "record" => x \in doubt'
            /\ given'.crs = {d \in Documents(c) : d # <<>> /\ d.kind = "crs"}
               \/ /\ given'.crs = given.crs
                  /\ \A x \in doubt \cup touched : x.kind = "crs" => x \in doubt'
  BY <1>1 DEF Advance, Documents, DocumentsOf
<1>9. /\ given'.record \cup given'.crs \cup doubt' \subseteq Accepted
      /\ \A r \in given'.record : r.kind = "record"
      /\ \A r \in given'.crs : r.kind = "crs"
  BY <1>4, <1>8 DEF AckInv, KnownDocuments
<1>10. /\ \/ \A r \in given'.record : Stored(r)'
          \/ /\ given'.record = given.record
             /\ \A x \in doubt \cup touched : x.kind = "record" => x \in doubt'
       /\ \/ \A r \in given'.crs : Stored(r)'
          \/ /\ given'.crs = given.crs
             /\ \A x \in doubt \cup touched : x.kind = "crs" => x \in doubt'
  BY <1>7, <1>8
<1>11. \A f \in File : Holds(f) =>
           \/ content'[f] = content[f]
           \/ /\ s.what \in doubt \cup touched /\ s.what \in Accepted /\ f = Place(s.what)
              /\ \/ content'[f] = Torn /\ (IsGlobal(f) => f[2] # "gpkg")
                 \/ content'[f] = Whole(s.what) /\ Stored(s.what)'
  <2>1. doubt \cup touched \subseteq Accepted
    BY DEF AckInv, KnownDocuments
  <2>2. ASSUME NEW f \in File, Holds(f), Writes(s, f)
        PROVE  s.file = f /\ f = Place(s.what)
    BY <1>1, <2>2 DEF Serves, Writes
  <2>3. ASSUME Final(s), Holds(s.file)
        PROVE  content'[s.file] = Whole(s.what) /\ Stored(s.what)'
    BY <1>5, <2>3 DEF Stored, Place
  <2>. QED BY <2>1, <2>2, <2>3
<1>12. ASSUME NEW r \in given'.record
       PROVE  RecordHeld(r)'
  <2>1. /\ r \in Accepted /\ r.kind = "record" /\ r.encoding \in Encoding
        /\ Place(r) = GlobalFile(r.encoding) /\ Place(r) \in File /\ Holds(Place(r))
    BY <1>9, <1>12, AcceptedDocuments
  <2>2. CASE Stored(r)'
    BY <2>1, <2>2 DEF RecordHeld, Stored, Place
  <2>3. CASE /\ given'.record = given.record
             /\ \A x \in doubt \cup touched : x.kind = "record" => x \in doubt'
    <3>1. RecordHeld(r)
      BY <1>12, <2>3 DEF AckInv
    <3>2. \A x \in Texts : x \in Texts'
      BY <2>3 DEF Texts
    <3>3. CASE content'[Place(r)] = content[Place(r)]
      <4>1. CASE r.encoding = "gpkg"
        <5>1. PICK d \in {r} \cup doubt :
                  /\ content[GlobalFile("gpkg")] = Whole(d)
                  /\ d.kind = "record" /\ d.seed.fourDigitYear
          BY <3>1, <4>1 DEF RecordHeld
        <5>2. d = r \/ d \in doubt'
          BY <2>3, <5>1
        <5>. QED BY <2>1, <3>1, <3>3, <4>1, <5>1, <5>2 DEF RecordHeld
      <4>2. CASE r.encoding # "gpkg"
        BY <2>1, <3>1, <3>2, <3>3, <4>2 DEF RecordHeld
      <4>. QED BY <4>1, <4>2
    <3>4. CASE /\ s.what \in doubt \cup touched /\ s.what \in Accepted
               /\ Place(r) = Place(s.what)
               /\ \/ content'[Place(r)] = Torn
                     /\ (IsGlobal(Place(r)) => Place(r)[2] # "gpkg")
                  \/ content'[Place(r)] = Whole(s.what) /\ Stored(s.what)'
      <4>1. /\ s.what.kind = "record" /\ s.what.encoding = r.encoding
            /\ IsGlobal(Place(r)) /\ Place(r)[2] = r.encoding
        <5>1. IsGlobal(Place(r)) /\ Place(r)[2] = r.encoding
          BY <2>1, Files
        <5>2. s.what.kind = "record"
          BY <3>4, <5>1, AcceptedDocuments, Files
        <5>3. Place(s.what) = GlobalFile(s.what.encoding) /\ s.what.encoding \in Encoding
          BY <3>4, <5>2, AcceptedDocuments
        <5>. QED BY <3>4, <5>1, <5>2, <5>3, Files
      <4>2. s.what \in doubt'
        BY <2>3, <3>4, <4>1
      <4>3. CASE r.encoding = "gpkg"
        <5>1. content'[Place(r)] = Whole(s.what) /\ Stored(s.what)'
          BY <3>4, <4>1, <4>3
        <5>2. /\ folder' /\ GpkgFeature /\ s.what.seed.fourDigitYear
          BY <4>1, <4>3, <5>1 DEF Stored
        <5>. QED BY <2>1, <4>1, <4>2, <4>3, <5>1, <5>2 DEF RecordHeld
      <4>4. CASE r.encoding # "gpkg"
        BY <4>1, <4>2, <4>4 DEF RecordHeld, Texts
      <4>. QED BY <4>3, <4>4
    <3>. QED BY <1>11, <2>1, <3>3, <3>4
  <2>. QED BY <1>10, <1>12, <2>2, <2>3
<1>13. ASSUME NEW d \in given'.crs
       PROVE  CrsHeld(d)'
  <2>1. d.kind = "crs" /\ Place(d) = CrsFile /\ CrsFile \in File /\ Holds(CrsFile)
    BY <1>9, <1>13, AcceptedDocuments
  <2>2. CASE Stored(d)'
    BY <2>1, <2>2 DEF CrsHeld, Stored, Place
  <2>3. CASE /\ given'.crs = given.crs
             /\ \A x \in doubt \cup touched : x.kind = "crs" => x \in doubt'
    <3>1. CrsHeld(d)
      BY <1>13, <2>3 DEF AckInv
    <3>2. CASE content'[CrsFile] = content[CrsFile]
      BY <2>3, <3>1, <3>2 DEF CrsHeld
    <3>3. CASE s.what \in doubt \cup touched /\ s.what \in Accepted /\ CrsFile = Place(s.what)
      <4>1. s.what.kind = "crs"
        BY <3>3, AcceptedDocuments, Files
      <4>. QED BY <2>3, <3>3, <4>1 DEF CrsHeld
    <3>. QED BY <1>11, <2>1, <3>2, <3>3
  <2>. QED BY <1>10, <1>13, <2>2, <2>3
<1>14. KnownDocuments'
  <2>1. \A e \in Encoding : Is(GlobalFile(e))' \in {"absent", "torn", "whole"}
    <3>1. \A e \in Encoding : GlobalFile(e) \in File /\ Holds(GlobalFile(e))
      BY Files DEF Holds
    <3>. QED BY <1>11, <3>1 DEF AckInv, KnownDocuments, Is, Torn, Whole
  <2>2. \A d \in Running' : d \in Running /\ d \in Caller
    BY <1>3 DEF Running
  <2>3. \A d \in Running' : Documents(d)' \subseteq Accepted \cup {<<>>} /\ OnePlaceEach(Documents(d))'
    BY <1>3, <2>2 DEF AckInv, KnownDocuments, OnePlaceEach, Place
  <2>4. DOMAIN call' = Caller
    BY <1>2 DEF AckInv, KnownDocuments
  <2>. QED BY <1>9, <2>1, <2>3, <2>4 DEF KnownDocuments
<1>15. ASSUME NEW d \in Caller PROVE Ordered(todo[d], Documents(d))'
  <2>1. Ordered(todo'[d], Documents(d))
    BY <1>1, <1>2 DEF AckInv
  <2>. QED BY <1>3, <2>1 DEF Ordered
<1>16. ASSUME NEW d \in Running' PROVE Progress(d)' /\ Prepared(Next1(d))'
  <2>1. d \in Running /\ d \in Caller
    BY <1>3 DEF Running
  <2>2. CASE d = c
    <3>1. tail # <<>>
      BY <1>3, <2>2
    <3>2. After(s, Head(tail)) /\ Head(tail) \in Work
      BY <1>1, <3>1
    <3>3. ~Fresh(c)'
      BY <1>3, <3>2 DEF After, Fresh, Doing
    <3>4. Progress(c)'
      BY <1>3, <1>6, <3>3 DEF Progress, StoredBy, Writes, Place
    <3>5. Prepared(Head(tail))'
      BY <1>1, <3>1, <3>2
    <3>6. Prepared(Next1(c))'
      BY <1>3, <3>5 DEF Prepared
    <3>. QED BY <2>2, <3>4, <3>6
  <2>3. CASE d # c
    <3>1. Prepared(Next1(d))' /\ \A x \in Documents(d) \ {<<>>} : Pending(d, x)
      BY <1>2, <2>1, <2>3, FreshTold
    <3>2. \A x \in Documents(d)' \ {<<>>} : Pending(d, x)'
      BY <1>3, <2>1, <2>3, <3>1 DEF Pending, Final, Place
    <3>. QED BY <3>1, <3>2 DEF Progress
  <2>. QED BY <2>2, <2>3
<1>. QED BY <1>12, <1>13, <1>14, <1>15, <1>16 DEF AckInv

-----------------------------------------------------------------------------
(* The calls *)

LEMMA StartTold ==
    ASSUME AckInv, EncodingInv', NEW c \in Caller, NEW op, NEW doc, NEW how, NEW steps,
           Start(c, op, doc, how, steps),
           LET docs == DocumentsOf([op |-> op, doc |-> doc])
           IN  \/ steps = <<>>
               \/ Plan(steps, docs) /\ OnePlaceEach(docs) /\ docs \subseteq Accepted \cup {<<>>}
    PROVE  AckInv'
<1>1. /\ c \in Caller \ Running
      /\ todo' = [todo EXCEPT ![c] = steps] /\ call' = [call EXCEPT ![c] = [op |-> op, doc |-> doc]]
      /\ UNCHANGED <<given, doubt, content, folder>>
  BY DEF Start, disk, history
<1>. QED BY <1>1, BeginTold

LEMMA UseTold ==
    ASSUME AckInv, EncodingInv', NEW c \in Caller, NEW op, op # "create",
           NEW doc \in Accepted \cup {<<>>}, NEW accepted, NEW steps,
           Use(c, op, doc, accepted, steps), accepted => Plan(steps, {doc})
    PROVE  AckInv'
<1>1. DocumentsOf([op |-> op, doc |-> doc]) = {doc}
  BY DEF DocumentsOf
<1>2. OnePlaceEach({doc}) /\ {doc} \subseteq Accepted \cup {<<>>}
  BY DEF OnePlaceEach
<1>. QED BY <1>1, <1>2, StartTold DEF Use

LEMMA CreateTold ==
    ASSUME EpochsExact, AckInv, EncodingInv', NEW c \in Caller,
           NEW s \in Seed, NEW p \in Profile, Create(c, s, p)
    PROVE  AckInv'
<1> DEFINE record == [kind |-> "record", seed |-> s, encoding |-> p.encoding]
           doc == [kind |-> "crs", crs |-> p.crs]
           entry == [op |-> "create", doc |-> <<record, p.crs>>]
           steps == <<Do("make_root", CrsFile, <<>>), Do("make_folder", CrsFile, <<>>)>>
                        \o WriteRecord(record) \o WriteCrs(doc)
<1>1. CASE ~PolicyHolds(s, p)
  BY <1>1, StartTold DEF Create
<1>2. CASE PolicyHolds(s, p)
  <2>1. Start(c, "create", <<record, p.crs>>, "running", steps)
    BY <1>2 DEF Create
  <2>2. record \in Record /\ record \in Accepted /\ record.kind = "record"
    BY DatastoreAssumption DEF DatastoreAssumption, Record, Accepted
  <2>3. doc \in Accepted /\ doc.kind = "crs" /\ doc \in CrsDocs
    BY <1>2 DEF PolicyHolds, Accepted, CrsDocs
  <2>4. DocumentsOf(entry) = {record, doc}
    BY DEF DocumentsOf
  <2> HIDE DEF record, doc, entry, steps
  <2>5. ToWkt(doc) = doc /\ doc # <<>> /\ Place(doc) = CrsFile
    BY <2>3, ExactCrs, AcceptedDocuments
  <2>6. Plan(steps, {record, doc})
    BY <2>2, <2>3, <2>5, CreatePlan DEF steps
  <2>7. OnePlaceEach({record, doc})
    <3>1. Place(record) # Place(doc)
      BY <2>2, <2>5, AcceptedDocuments, Files
    <3>. QED BY <3>1 DEF OnePlaceEach
  <2>8. {record, doc} \subseteq Accepted \cup {<<>>}
    BY <2>2, <2>3
  <2>9. DocumentsOf([op |-> "create", doc |-> <<record, p.crs>>]) = {record, doc}
    BY <2>4 DEF entry
  <2>. QED BY <2>1, <2>6, <2>7, <2>8, <2>9, StartTold
<1>. QED BY <1>1, <1>2

LEMMA CallTold ==
    ASSUME EpochsExact, AckInv, EncodingInv', NEW c \in Caller, Call(c)
    PROVE  AckInv'
<1>1. ASSUME NEW s \in Seed, NEW p \in Profile, Create(c, s, p)
      PROVE  AckInv'
  BY <1>1, CreateTold
<1>2. CASE Open(c)
  BY <1>2, StartTold DEF Open
<1>3. ASSUME NEW r \in Record, WriteGlobalMetadata(c, r)
      PROVE  AckInv'
  <2>1. /\ GlobalFile(r.encoding) \in Asset /\ IsGlobal(GlobalFile(r.encoding))
        /\ GlobalFile(r.encoding)[2] = r.encoding
    BY Files DEF Record
  <2>2. Plan(WriteRecord(r), {r})
    BY <2>1, RecordPlan DEF WriteRecord
  <2> DEFINE accepted == OtherGlobal(r.encoding) = {} /\ r.seed.complete
  <2>3. Use(c, "global", r, accepted, WriteRecord(r))
    BY <1>3 DEF WriteGlobalMetadata
  <2> HIDE DEF accepted
  <2>4. r \in Accepted \cup {<<>>}
    BY DEF Accepted
  <2>. QED BY <2>2, <2>3, <2>4, UseTold
<1>4. ASSUME NEW crs \in Crs, WriteStorageCrs(c, crs)
      PROVE  AckInv'
  <2> DEFINE doc == [kind |-> "crs", crs |-> crs]
             accepted == TRUE
  <2>1. Use(c, "crs", doc, accepted, WriteCrs(doc))
    BY <1>4 DEF WriteStorageCrs
  <2>2. doc \in CrsDocs /\ doc \in Accepted /\ doc.kind = "crs"
    BY DEF CrsDocs, Accepted
  <2> HIDE DEF doc, accepted
  <2>3. ToWkt(doc) = doc /\ doc # <<>> /\ Place(doc) = CrsFile
    BY <2>2, ExactCrs, AcceptedDocuments
  <2>4. Plan(WriteCrs(doc), {doc})
    BY <2>2, <2>3, CrsPlan
  <2>. QED BY <2>1, <2>2, <2>4, UseTold
<1>5. ASSUME NEW valid \in BOOLEAN, WriteAttributeModel(c, valid)
      PROVE  AckInv'
  <2>1. CASE ReadGlobal.ok /\ Declared # "gpkg"
    <3> DEFINE accepted ==
                   valid /\ \A e \in {"json", "xml"} \ {Declared} : Is(ModelFile(e)) = "absent"
               file == ModelFile(Declared)
    <3>1. Declared \in {"json", "xml"}
      BY <2>1, DeclaredSpeaks DEF Encoding, AckInv
    <3>2. file \in Asset /\ ~IsGlobal(file) /\ file[2] # "gpkg"
      BY <3>1, Files
    <3>3. Use(c, "model", <<>>, accepted, Overwrite(file, <<>>))
      BY <1>5, <2>1 DEF WriteAttributeModel
    <3> HIDE DEF file, accepted
    <3>4. Plan(Overwrite(file, <<>>), {<<>>})
      BY <3>2, RecordPlan
    <3>. QED BY <3>3, <3>4, UseTold
  <2>2. CASE ~(ReadGlobal.ok /\ Declared # "gpkg")
    <3> DEFINE accepted == FALSE
    <3>1. Use(c, "model", <<>>, accepted, <<>>)
      BY <1>5, <2>2 DEF WriteAttributeModel
    <3>. QED BY <3>1, UseTold
  <2>. QED BY <2>1, <2>2
<1>6. ASSUME NEW valid \in BOOLEAN, NEW e \in Encoding, WriteResourceMetadata(c, e, valid)
      PROVE  AckInv'
  <2> DEFINE accepted == valid /\ ReadGlobal.ok /\ e = Declared
             file == ResourceFile(e)
  <2>1. Use(c, "resource", <<>>, accepted, WriteDocument(file, <<>>))
    BY <1>6 DEF WriteResourceMetadata
  <2>2. file \in Asset /\ ~IsGlobal(file)
    BY Files
  <2> HIDE DEF accepted, file
  <2>3. Plan(WriteDocument(file, <<>>), {<<>>})
    BY <2>2, RecordPlan
  <2>. QED BY <2>1, <2>3, UseTold
<1>. QED BY <1>1, <1>2, <1>3, <1>4, <1>5, <1>6 DEF Call

-----------------------------------------------------------------------------
(* The steps *)

LEMMA GivesUpTold ==
    ASSUME AckInv, EncodingInv', NEW c \in Caller, NEW how, Refused(c, how)
    PROVE  AckInv'
BY EndTold DEF Refused, Finish, disk, history

\* A step that writes nothing of a record or of the CRS, and leaves it to the
\* steps it is followed by to be prepared for.
LEMMA QuietTold ==
    ASSUME AckInv, EncodingInv', NEW c \in Caller, todo[c] # <<>>,
           \A d \in Running : d = c \/ Fresh(d),
           ~Final(Next1(c)), Advance(c, {}), folder => folder',
           \A f \in File : Holds(f) => content'[f] = content[f],
           \A u \in Work : After(Next1(c), u) => Prepared(u)'
    PROVE  AckInv'
<1>1. PICK s \in Work : s = Next1(c)
  BY FrontOf
<1>2. ~Final(s) /\ \A u \in Work : After(s, u) => Prepared(u)'
  BY <1>1
<1>. QED BY <1>1, <1>2, OnwardTold

\* Past the root folder a call is the only one to write.
LEMMA AloneTold ==
    ASSUME AckInv, NEW c \in Running, ~Fresh(c)
    PROVE  \A d \in Running : d = c \/ Fresh(d)
BY DEF AckInv, EncodingInv, OneWriter

\* Which step comes after which.
LEMMA AfterWhat ==
    ASSUME NEW s \in Work, NEW u \in Work, After(s, u)
    PROVE  /\ u.do = "fill" => s.do = "truncate" /\ u.file = s.file /\ u.what = s.what
           /\ u.do = "stage" => s.do = "prepare" /\ u.file = s.file /\ u.what = s.what
           /\ u.do = "persist" => s.do = "stage" /\ u.file = s.file /\ u.what = s.what
<1>1. DOMAIN u = {"do", "file", "what"}
  BY DEF Work
<1>. QED BY <1>1 DEF After

LEMMA MakeRootTold ==
    ASSUME AckInv, EncodingInv', NEW c \in Caller, MakeRoot(c)
    PROVE  AckInv'
<1>1. CASE root # "absent" /\ Refused(c, "exists")
  BY <1>1, GivesUpTold
<1>2. CASE root = "absent" /\ Advance(c, {}) /\ UNCHANGED <<folder, content>>
  <2>1. todo[c] # <<>> /\ Next1(c).do = "make_root" /\ Next1(c) \in Work
    BY FrontOf DEF MakeRoot, Doing
  <2>2. \A d \in Running : Fresh(d)
    BY <1>2 DEF AckInv, EncodingInv, Rooted
  <2>3. ~Final(Next1(c))
    BY <2>1 DEF Final
  <2>4. \A u \in Work : After(Next1(c), u) => Prepared(u)'
    BY <2>1, AfterWhat DEF Prepared
  <2>. QED BY <1>2, <2>1, <2>2, <2>3, <2>4, QuietTold
<1>. QED BY <1>1, <1>2 DEF MakeRoot

LEMMA CheckingTold ==
    ASSUME AckInv, EncodingInv', NEW c \in Caller, MakeFolder(c) \/ SameCrs(c)
    PROVE  AckInv'
<1>1. /\ todo[c] # <<>> /\ Next1(c).do \in {"make_folder", "same_crs"} /\ Next1(c) \in Work
      /\ c \in Running /\ ~Fresh(c)
  BY FrontOf DEF MakeFolder, SameCrs, Doing, Fresh
<1>2. CASE \E how : Refused(c, how)
  BY <1>2, GivesUpTold
<1>3. CASE Advance(c, {}) /\ UNCHANGED content /\ (folder => folder')
  <2>1. ~Final(Next1(c))
    BY <1>1 DEF Final
  <2>2. \A u \in Work : After(Next1(c), u) => Prepared(u)'
    BY <1>1, AfterWhat DEF Prepared
  <2>. QED BY <1>1, <1>3, <2>1, <2>2, AloneTold, QuietTold
<1>. QED BY <1>2, <1>3 DEF MakeFolder, SameCrs, disk

LEMMA PrepareTold ==
    ASSUME AckInv, EncodingInv', NEW c \in Caller, Prepare(c)
    PROVE  AckInv'
<1>1. /\ todo[c] # <<>> /\ Next1(c).do = "prepare" /\ Next1(c) \in Work
      /\ c \in Running /\ ~Fresh(c) /\ Serves(Next1(c), Documents(c))
  BY FrontOf DEF Prepare, Doing, Fresh
<1>2. CASE \E how : Refused(c, how)
  BY <1>2, GivesUpTold
<1>3. CASE /\ GpkgFeature /\ (Next1(c).what # <<>> => Next1(c).what.seed.fourDigitYear)
           /\ Advance(c, {}) /\ UNCHANGED disk
  <2>1. ~Final(Next1(c))
    BY <1>1 DEF Final
  <2>2. IsGlobal(Next1(c).file) => Next1(c).what # <<>>
    BY <1>1 DEF Serves, Holds, Writes
  <2>3. ASSUME NEW u \in Work, After(Next1(c), u)
        PROVE  Prepared(u)'
    <3>1. /\ u.do = "stage" => u.file = Next1(c).file /\ u.what = Next1(c).what
          /\ u.do # "fill" /\ u.do # "persist"
      BY <1>1, <2>3, AfterWhat
    <3>. QED BY <1>3, <2>2, <3>1 DEF Prepared
  <2>. QED BY <1>1, <1>3, <2>1, <2>3, AloneTold, QuietTold DEF disk
<1>. QED BY <1>2, <1>3 DEF Prepare

LEMMA StageTold ==
    ASSUME AckInv, EncodingInv', NEW c \in Caller, Stage(c)
    PROVE  AckInv'
<1>1. /\ todo[c] # <<>> /\ Next1(c).do = "stage" /\ Next1(c) \in Work
      /\ c \in Running /\ ~Fresh(c) /\ Prepared(Next1(c))
  BY FrontOf DEF Stage, Doing, Fresh, AckInv
<1>2. ~Final(Next1(c))
  BY <1>1 DEF Final
<1>3. \A f \in File : Holds(f) => content'[f] = content[f]
  <2>1. ~Holds(StageFile)
    BY DEF Holds, IsGlobal, StageFile, CrsFile
  <2>. QED BY <2>1 DEF Stage, Put, AckInv, EncodingInv, TypeInv
<1>4. IsGlobal(Next1(c).file) => folder'
  BY DEF Stage, IsGlobal
<1>5. ASSUME NEW u \in Work, After(Next1(c), u)
      PROVE  Prepared(u)'
  <2>1. /\ u.do = "persist" => u.file = Next1(c).file /\ u.what = Next1(c).what
        /\ u.do # "fill" /\ u.do # "stage"
    BY <1>1, <1>5, AfterWhat
  <2>2. u.do = "persist" /\ IsGlobal(u.file) =>
            GpkgFeature /\ u.what.seed.fourDigitYear /\ folder'
    BY <1>1, <1>4, <2>1 DEF Prepared
  <2>. QED BY <2>1, <2>2 DEF Prepared
<1>. QED BY <1>1, <1>2, <1>3, <1>5, AloneTold, QuietTold DEF Stage

LEMMA TruncateTold ==
    ASSUME AckInv, EncodingInv', NEW c \in Caller, Truncate(c)
    PROVE  AckInv'
<1>1. PICK s \in Work :
          /\ s = Next1(c) /\ todo[c] # <<>> /\ s.do = "truncate"
          /\ c \in Running /\ ~Fresh(c) /\ Serves(s, Documents(c))
          /\ Documents(c) \subseteq Accepted \cup {<<>>}
  BY FrontOf DEF Truncate, Doing, Fresh, AckInv, KnownDocuments
<1>2. /\ Advance(c, {s.what} \ {<<>>}) /\ (folder => folder')
      /\ \A f \in File : content'[f] = IF f = s.file THEN Torn ELSE content[f]
  BY <1>1 DEF Truncate, Touched, Put, AckInv, EncodingInv, TypeInv
<1>3. /\ Holds(s.file) => s.what # <<>> /\ s.what \in Accepted
      /\ ~Holds(s.file) => s.what = <<>>
      /\ IsGlobal(s.file) => s.file[2] # "gpkg"
      /\ Writes(s, s.file)
  BY <1>1 DEF Serves, Writes
<1>4. {s.what} \ {<<>>} \in SUBSET Accepted
  BY <1>3
<1>5. IsGlobal(s.file) => folder'
  BY <1>1 DEF Truncate, IsGlobal
<1>6. ASSUME NEW u \in Work, Tail(todo[c]) # <<>>, After(s, u)
      PROVE  Prepared(u)'
  <2>1. /\ u.do = "fill" => u.file = s.file /\ u.what = s.what
        /\ u.do # "persist" /\ u.do # "stage"
    BY <1>1, <1>6, AfterWhat
  <2>2. Holds(s.file) => s.what \in doubt'
    BY <1>2, <1>3, <1>6 DEF Advance
  <2>. QED BY <1>5, <2>1, <2>2 DEF Prepared
<1>7. ~Final(s)
  BY <1>1 DEF Final
<1>8. \A f \in File : Holds(f) =>
          \/ content'[f] = content[f]
          \/ /\ Writes(s, f) /\ s.what \in doubt \cup ({s.what} \ {<<>>})
             /\ \/ content'[f] = Torn /\ (IsGlobal(f) => f[2] # "gpkg")
                \/ Final(s)
  BY <1>2, <1>3
<1>. QED BY <1>1, <1>2, <1>4, <1>6, <1>7, <1>8, AloneTold, OnwardTold

LEMMA FillTold ==
    ASSUME AckInv, EncodingInv', NEW c \in Caller, Fill(c)
    PROVE  AckInv'
<1>1. PICK s \in Work :
          /\ s = Next1(c) /\ todo[c] # <<>> /\ s.do = "fill"
          /\ c \in Running /\ ~Fresh(c) /\ Serves(s, Documents(c)) /\ Prepared(s)
          /\ Documents(c) \subseteq Accepted \cup {<<>>}
  BY FrontOf DEF Fill, Doing, Fresh, AckInv, KnownDocuments
<1>2. /\ Advance(c, {}) /\ folder' = folder
      /\ \A f \in File : content'[f] = IF f = s.file THEN Whole(s.what) ELSE content[f]
  BY <1>1 DEF Fill, Put, AckInv, EncodingInv, TypeInv
<1>3. /\ Writes(s, s.file) /\ Final(s) /\ s.file \in File
      /\ IsGlobal(s.file) => s.file[2] # "gpkg"
  BY <1>1 DEF Serves, Writes, Final, Work
<1>4. ASSUME Holds(s.file)
      PROVE  s.what \in doubt /\ Stored(s.what)'
  <2>1. s.what \in Accepted /\ s.file = Place(s.what) /\ s.what \in doubt
        /\ (IsGlobal(s.file) => folder)
    BY <1>1, <1>3, <1>4 DEF Serves, Prepared
  <2>2. s.what.kind = "record" => IsGlobal(s.file) /\ s.what.encoding = s.file[2]
    BY <2>1, AcceptedDocuments, Files
  <2>. QED BY <1>2, <1>3, <2>1, <2>2 DEF Stored, Place
<1>5. \A u \in Work : After(s, u) => Prepared(u)'
  BY <1>1, AfterWhat DEF Prepared
<1>6. \A f \in File : Holds(f) =>
          \/ content'[f] = content[f]
          \/ /\ Writes(s, f) /\ s.what \in doubt \cup {}
             /\ \/ content'[f] = Torn /\ (IsGlobal(f) => f[2] # "gpkg")
                \/ Final(s)
  BY <1>2, <1>3, <1>4
<1>7. {} \in SUBSET Accepted
  OBVIOUS
<1>. QED BY <1>1, <1>2, <1>4, <1>5, <1>6, <1>7, AloneTold, OnwardTold

LEMMA PersistTold ==
    ASSUME AckInv, EncodingInv', NEW c \in Caller, Persist(c)
    PROVE  AckInv'
<1>1. PICK s \in Work :
          /\ s = Next1(c) /\ todo[c] # <<>> /\ s.do = "persist"
          /\ c \in Running /\ ~Fresh(c) /\ Serves(s, Documents(c)) /\ Prepared(s)
          /\ Documents(c) \subseteq Accepted \cup {<<>>}
  BY FrontOf DEF Persist, Doing, Fresh, AckInv, KnownDocuments
<1>2. ~Holds(StageFile)
  BY DEF Holds, IsGlobal, StageFile, CrsFile
<1>3. /\ Advance(c, {s.what} \ {<<>>}) /\ folder' = folder
      /\ \A f \in File : Holds(f) =>
             content'[f] = IF f = s.file THEN Whole(s.what) ELSE content[f]
  BY <1>1, <1>2 DEF Persist, Touched, AckInv, EncodingInv, TypeInv
<1>4. /\ Writes(s, s.file) /\ Final(s) /\ s.file \in File /\ s.file # CrsFile
      /\ Holds(s.file) => s.what # <<>> /\ s.what \in Accepted /\ s.file = Place(s.what)
      /\ ~Holds(s.file) => s.what = <<>>
  BY <1>1 DEF Serves, Writes, Final, Work
<1>5. ASSUME Holds(s.file) PROVE Stored(s.what)'
  <2>1. IsGlobal(s.file)
    BY <1>4, <1>5 DEF Holds
  <2>2. folder /\ GpkgFeature /\ s.what.seed.fourDigitYear
    BY <1>1, <2>1 DEF Prepared
  <2>. QED BY <1>3, <1>4, <1>5, <2>2 DEF Stored, Place
<1>6. \A u \in Work : After(s, u) => Prepared(u)'
  BY <1>1, AfterWhat DEF Prepared
<1>7. \A f \in File : Holds(f) =>
          \/ content'[f] = content[f]
          \/ /\ Writes(s, f) /\ s.what \in doubt \cup ({s.what} \ {<<>>})
             /\ \/ content'[f] = Torn /\ (IsGlobal(f) => f[2] # "gpkg")
                \/ Final(s)
  BY <1>3, <1>4
<1>8. {s.what} \ {<<>>} \in SUBSET Accepted
  BY <1>4
<1>. QED BY <1>1, <1>3, <1>5, <1>6, <1>7, <1>8, AloneTold, OnwardTold

LEMMA FaultTold ==
    ASSUME AckInv, EncodingInv', NEW c \in Caller, Fail(c) \/ Die(c)
    PROVE  AckInv'
<1>1. ~Holds(StageFile)
  BY DEF Holds, IsGlobal, StageFile, CrsFile
<1>2. \A f \in File : Holds(f) => content'[f] = content[f]
  BY <1>1 DEF Fail, Die, Put, disk, AckInv, EncodingInv, TypeInv
<1>3. /\ todo' = [todo EXCEPT ![c] = <<>>] /\ UNCHANGED <<call, given, doubt, folder>>
  BY DEF Fail, Die, Finish, disk, history
<1>. QED BY <1>2, <1>3, EndTold

LEMMA PlaceForeignTold ==
    ASSUME AckInv, EncodingInv', PlaceForeign
    PROVE  AckInv'
<1>1. ~Holds(ResourceFile("gpkg"))
  BY DEF Holds, IsGlobal, ResourceFile, CrsFile
<1>2. \A f \in File : Holds(f) => content'[f] = content[f]
  BY <1>1 DEF PlaceForeign, Put, AckInv, EncodingInv, TypeInv
<1>3. UNCHANGED <<todo, call, given, doubt, folder>>
  BY DEF PlaceForeign, history
<1>4. /\ \A e \in Encoding : Is(GlobalFile(e))' \in {"absent", "torn", "whole"}
      /\ \A r \in given.record : RecordHeld(r)'
      /\ \A d \in given.crs : CrsHeld(d)'
  BY <1>2, <1>3, NothingToldKeeps
<1>5. /\ Running' = Running
      /\ \A d \in Caller : /\ Documents(d)' = Documents(d) /\ Left(d)' = Left(d)
                           /\ (Fresh(d)' <=> Fresh(d)) /\ Next1(d)' = Next1(d)
  BY <1>3 DEF Running, Documents, Left, Fresh, Doing, Next1
<1>6. KnownDocuments'
  <2>1. \A d \in Running' : d \in Running /\ d \in Caller
    BY <1>5 DEF Running
  <2>. QED BY <1>3, <1>4, <1>5, <2>1 DEF AckInv, KnownDocuments, OnePlaceEach, Place
<1>7. \A d \in Caller : Ordered(todo[d], Documents(d))'
  BY <1>3, <1>5 DEF AckInv, Ordered
<1>8. ASSUME NEW d \in Running' PROVE Progress(d)' /\ Prepared(Next1(d))'
  <2>1. /\ d \in Running /\ d \in Caller /\ Progress(d) /\ Prepared(Next1(d))
        /\ Documents(d) \subseteq Accepted \cup {<<>>}
    BY <1>5 DEF AckInv, Running, KnownDocuments
  <2>2. ASSUME NEW x \in Documents(d)' \ {<<>>}
        PROVE  Pending(d, x)' \/ (~Fresh(d)' /\ StoredBy(d, x)')
    <3>1. x \in Accepted /\ x \in Documents(d) \ {<<>>}
      BY <1>5, <2>1
    <3>2. Stored(x) => Stored(x)'
      BY <1>2, <1>3, <3>1, NothingToldKeeps
    <3>3. Pending(d, x) \/ (~Fresh(d) /\ StoredBy(d, x))
      BY <2>1, <3>1 DEF Progress
    <3>. QED BY <1>5, <2>1, <3>2, <3>3 DEF Pending, StoredBy, Writes, Place, Final
  <2>3. Progress(d)'
    BY <2>2 DEF Progress
  <2>4. Prepared(Next1(d))'
    BY <1>3, <1>5, <2>1 DEF Prepared
  <2>. QED BY <2>3, <2>4
<1>. QED BY <1>3, <1>4, <1>6, <1>7, <1>8 DEF AckInv

LEMMA UnchangedTold == AckInv /\ EncodingInv' /\ UNCHANGED vars => AckInv'
<1> SUFFICES ASSUME AckInv, EncodingInv', UNCHANGED vars PROVE AckInv'
  OBVIOUS
<1>1. UNCHANGED <<todo, call, given, doubt, folder, content>>
  BY DEF vars, disk, history
<1>2. /\ Running' = Running
      /\ \A d \in Caller : /\ Documents(d)' = Documents(d) /\ Left(d)' = Left(d)
                           /\ (Fresh(d)' <=> Fresh(d)) /\ Next1(d)' = Next1(d)
  BY <1>1 DEF Running, Documents, Left, Fresh, Doing, Next1
<1>3. \A d \in Running : d \in Caller
  BY DEF Running
<1>4. KnownDocuments'
  BY <1>1, <1>2, <1>3 DEF AckInv, KnownDocuments, Is, OnePlaceEach, Place
<1>5. \A d \in Caller : Ordered(todo[d], Documents(d))'
  BY <1>1, <1>2 DEF AckInv, Ordered
<1>6. \A d \in Running' : Progress(d)' /\ Prepared(Next1(d))'
  BY <1>1, <1>2, <1>3
     DEF AckInv, Progress, Prepared, Pending, StoredBy, Stored, Writes, Final, Place
<1>7. (\A r \in given.record : RecordHeld(r)) => \A r \in given'.record : RecordHeld(r)'
  BY <1>1 DEF RecordHeld, Texts
<1>8. (\A d \in given.crs : CrsHeld(d)) => \A d \in given'.crs : CrsHeld(d)'
  BY <1>1 DEF CrsHeld
<1>. QED BY <1>4, <1>5, <1>6, <1>7, <1>8 DEF AckInv

-----------------------------------------------------------------------------
LEMMA AckInit == Init => AckInv
<1> SUFFICES ASSUME Init PROVE AckInv
  OBVIOUS
<1>1. /\ Running = {} /\ given.record = {} /\ given.crs = {} /\ doubt = {}
      /\ DOMAIN call = Caller /\ \A c \in Caller : todo[c] = <<>>
  BY DEF Init, Running
<1>2. \A e \in Encoding : Is(GlobalFile(e)) = "absent"
  BY Files DEF Init, Is, Nothing
<1>3. KnownDocuments
  BY <1>1, <1>2 DEF KnownDocuments
<1>. QED BY <1>1, <1>3, EncodingInit DEF AckInv, Ordered

LEMMA AckNext == EpochsExact /\ AckInv /\ [Next]_vars => AckInv'
<1> SUFFICES ASSUME EpochsExact, AckInv, [Next]_vars PROVE AckInv'
  OBVIOUS
<1>1. EncodingInv'
  BY EncodingNext DEF AckInv
<1>2. ASSUME NEW c \in Caller, Call(c) PROVE AckInv'
  BY <1>1, <1>2, CallTold
<1>3. ASSUME NEW c \in Caller, Step(c) PROVE AckInv'
  BY <1>1, <1>3, MakeRootTold, CheckingTold, TruncateTold, FillTold, PrepareTold, StageTold,
     PersistTold DEF Step
<1>4. ASSUME NEW c \in Caller, Fail(c) \/ Die(c) PROVE AckInv'
  BY <1>1, <1>4, FaultTold
<1>5. CASE PlaceForeign
  BY <1>1, <1>5, PlaceForeignTold
<1>6. CASE UNCHANGED vars
  BY <1>1, <1>6, UnchangedTold
<1>. QED BY <1>2, <1>3, <1>4, <1>5, <1>6 DEF Next

\* The one global record that is there is the one that is read.
LEMMA OnlyGlobal ==
    ASSUME AckInv, NEW e \in Encoding, NEW d, content[GlobalFile(e)] = Whole(d),
           e = "gpkg" => GpkgFeature, d.seed.fourDigitYear
    PROVE  ReadGlobal = Reads(d) /\ (folder => EmptyFolders = {})
<1>1. /\ GlobalFile(e) \in Asset /\ GlobalFile(e) \in File /\ GlobalFile(e)[2] = e
      /\ GlobalFile(e)[1] = "global_metadata" /\ Is(GlobalFile(e)) = "whole"
      /\ content[GlobalFile(e)].what = d
  BY Files DEF Is, Whole, IsGlobal
<1>2. Candidates = {e}
  <2>1. ASSUME NEW o \in Encoding, Is(GlobalFile(o)) # "absent"
        PROVE  o = e
    <3>1. Is(GlobalFile(o)) \in {"torn", "whole"}
      BY <2>1 DEF AckInv, KnownDocuments
    <3>2. Ours(GlobalFile(o)) /\ Ours(GlobalFile(e)) /\ GlobalFile(o)[2] = o
      BY <1>1, <3>1, Files DEF Ours
    <3>. QED BY <1>1, <3>2, Files DEF AckInv, EncodingInv, OneEncoding
  <2>. QED BY <1>1, <2>1 DEF Candidates
<1>3. Located = {e}
  BY <1>2 DEF Located, Encoding
<1>4. Parses(GlobalFile(e))
  BY <1>1 DEF Parses
<1> DEFINE readable == {o \in Located : Parses(GlobalFile(o))
                          /\ content[GlobalFile(o)].what.seed.fourDigitYear}
<1>5. readable = {e}
  BY <1>1, <1>3, <1>4
<1>6. ReadGlobal = IF readable = {} THEN Unread
                   ELSE Reads(content[GlobalFile(CHOOSE o \in readable : TRUE)].what)
  BY DEF ReadGlobal
<1> HIDE DEF readable
<1>7. (CHOOSE o \in readable : TRUE) = e
  BY <1>5
<1>8. ReadGlobal = Reads(d)
  BY <1>1, <1>5, <1>6, <1>7
<1>9. folder => EmptyFolders = {}
  BY <1>1 DEF EmptyFolders
<1>. QED BY <1>8, <1>9

LEMMA ToldIsRead == EpochsExact /\ AckInv => AcknowledgedReads
<1> SUFFICES ASSUME EpochsExact, AckInv PROVE AcknowledgedReads
  OBVIOUS
<1>1. ASSUME NEW r \in given.record,
             Texts = {}, r.encoding # "gpkg" => r.seed.fourDigitYear
      PROVE  /\ ~MissingGlobalMetadata /\ EmptyFolders = {}
             /\ ReadGlobal \in {Reads(d) : d \in {r} \cup doubt}
  <2>1. RecordHeld(r) /\ r.encoding \in Encoding
    BY AcceptedDocuments DEF AckInv, KnownDocuments
  <2>2. CASE r.encoding = "gpkg"
    <3>1. PICK d \in {r} \cup doubt :
              content[GlobalFile("gpkg")] = Whole(d) /\ d.seed.fourDigitYear
      BY <2>1, <2>2 DEF RecordHeld
    <3>2. folder /\ GpkgFeature /\ "gpkg" \in Encoding
      BY <2>1, <2>2 DEF RecordHeld
    <3>3. ReadGlobal = Reads(d) /\ EmptyFolders = {}
      BY <3>1, <3>2, OnlyGlobal
    <3>. QED BY <3>2, <3>3 DEF MissingGlobalMetadata
  <2>3. CASE r.encoding # "gpkg"
    <3>1. folder /\ content[GlobalFile(r.encoding)] = Whole(r)
      BY <1>1, <2>1, <2>3 DEF RecordHeld
    <3>2. ReadGlobal = Reads(r) /\ EmptyFolders = {}
      BY <1>1, <2>1, <2>3, <3>1, OnlyGlobal
    <3>. QED BY <3>1, <3>2 DEF MissingGlobalMetadata
  <2>. QED BY <2>2, <2>3
<1>2. ASSUME NEW d \in given.crs, ~ \E e \in doubt : e.kind = "crs"
      PROVE  ReadCrs = Reads(d)
  <2>1. content[CrsFile] = Whole(d) /\ ValidEpoch(d.crs.epoch)
    BY <1>2, ExactCrs DEF AckInv, KnownDocuments, CrsHeld
  <2>2. Parses(CrsFile) /\ content[CrsFile].what = d
    BY <2>1 DEF Parses, Is, Whole, CrsFile
  <2>. QED BY <2>1, <2>2 DEF ReadCrs
<1>. QED BY <1>1, <1>2 DEF AcknowledgedReads

\* Whatever calls run, fail or die after it was acknowledged, and whatever
\* creates were refused beside it, a global record or a CRS reads, or one whose
\* writing has begun since: the record in its one file and not ambiguous, and a
\* container always as a whole (datastore.rs, create and the direct writes).
THEOREM AcknowledgedAlwaysReads ==
    ASSUME EpochsExact PROVE Spec => []AcknowledgedReads
<1>1. Init => AckInv
  BY AckInit
<1>2. AckInv /\ [Next]_vars => AckInv'
  BY AckNext
<1>3. AckInv => AcknowledgedReads
  BY ToldIsRead
<1>. QED BY <1>1, <1>2, <1>3, PTL DEF Spec
=============================================================================
