---------------------------- MODULE MCConformance ----------------------------
(***************************************************************************)
(* TLC instances of the validation: datastores that differ from a sound    *)
(* one in a bounded number of aspects, and pairs of profiles of which the  *)
(* second declares no more than the first.                                 *)
(***************************************************************************)
EXTENDS Conformance

CONSTANTS
    Admitted,   \* the other spellings of reserved folders that a case rule may admit
    Deviations, \* in how many aspects a datastore may differ from the sound one
    SchemeA, SchemeB

MCValidation == {1, 2}

SoundRecord ==
    [status |-> "ok", encoding |-> "json", elements |-> {}, covers |-> TRUE, keywords |-> TRUE]
Records ==
    {SoundRecord,
     [SoundRecord EXCEPT !.elements = {"domainSet"}],
     [SoundRecord EXCEPT !.elements = {"domainSet"}, !.covers = FALSE],
     [SoundRecord EXCEPT !.elements = {"uom", "windingOrder"}],
     [SoundRecord EXCEPT !.keywords = FALSE],
     [SoundRecord EXCEPT !.encoding = "xml"],
     [SoundRecord EXCEPT !.status = "malformed", !.elements = {"domainSet"}, !.covers = FALSE],
     [SoundRecord EXCEPT !.status = "badlink", !.encoding = "xml"],
     [SoundRecord EXCEPT !.status = "unreadable"]}

SoundGlobal ==
    [status |-> "read", encoding |-> "json", scheme |-> NoScheme, sound |-> TRUE, agrees |-> TRUE]
Globals ==
    {SoundGlobal,
     [SoundGlobal EXCEPT !.scheme = SchemeA],
     [SoundGlobal EXCEPT !.scheme = SchemeB],
     [SoundGlobal EXCEPT !.scheme = SchemeA, !.sound = FALSE],
     [SoundGlobal EXCEPT !.agrees = FALSE],
     [SoundGlobal EXCEPT !.encoding = "xml"],
     [SoundGlobal EXCEPT !.status = "malformed", !.scheme = SchemeA],
     [SoundGlobal EXCEPT !.status = "missing"],
     [SoundGlobal EXCEPT !.status = "unreadable"]}

Json(content) == [folder |-> "canonical", name |-> "json", content |-> content]
Models ==
    {{}, {Json("agreed")}, {Json("other")}, {Json("invalid")}, {Json("unreadable")},
     {[Json("agreed") EXCEPT !.name = "xml"]},
     {[Json("agreed") EXCEPT !.name = "xsd"]},
     {Json("agreed"), [Json("agreed") EXCEPT !.name = "xsd"]},
     {[Json("agreed") EXCEPT !.folder = "variant"]}}

JournalContent == {"absent", "sound", "broken", "unreadable"}
Journals ==
    {j \in [Spelling -> JournalContent] : j["variant"] # "unreadable"}

Sound ==
    [folder |-> TRUE, misnamed |-> 0, journal |-> [s \in Spelling |-> "absent"],
     models |-> {}, global |-> SoundGlobal, crs |-> "agreed", records |-> <<>>]
Differing(s) == Cardinality({a \in DOMAIN Sound : s[a] # Sound[a]})
\* The storage CRS, the global record and the models live in the folder.
Coherent(s) == s.folder \/ (s.global.status = "missing" /\ s.crs = "missing" /\ s.models = {})

MCStores ==
    {s \in [folder : BOOLEAN, misnamed : {0, 2}, journal : Journals, models : Models,
            global : Globals, crs : {"agreed", "other", "missing", "unreadable"},
            records : {<<>>} \cup {<<r>> : r \in Records} \cup {<<q, r>> : q, r \in Records}] :
        Differing(s) <= Deviations /\ Coherent(s)}

Yardstick(declared, scheme, model, admits) ==
    [declared |-> declared, encoding |-> "json", scheme |-> scheme, model |-> model,
     admits |-> admits]
\* The second profile drops one class, or none.
MCProfiles(s) ==
    {<<Yardstick(Class, scheme, model, admits),
       Yardstick(Class \ dropped, scheme, model, admits)>> :
        scheme \in IF s.global.scheme = NoScheme THEN {NoScheme} ELSE {NoScheme, SchemeA},
        model \in IF s.models = {} THEN {NoModel} ELSE {NoModel, "agreed"},
        admits \in {{}} \cup {{w} : w \in Admitted},
        dropped \in {{c} : c \in Class}}
=============================================================================
