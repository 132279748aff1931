-------------------------------- MODULE Json --------------------------------
(***************************************************************************)
(* JSON values as serde_json has them, for the records that are read from  *)
(* and written to JSON.  An object keeps its pairs as the text has them,   *)
(* repeated keys included.  Texts are sequences of characters.             *)
(***************************************************************************)
EXTENDS Naturals, Sequences, SequencesExt

Pair(key, value) == [key |-> key, value |-> value]
Object(pairs) == [json |-> "object", pairs |-> pairs]
Array(items) == [json |-> "array", items |-> items]
Text(text) == [json |-> "string", text |-> text]
\* Numbers are told apart by what readers ask of them.
Number(number) == [json |-> "number", number |-> number]
Boolean(truth) == [json |-> "bool", truth |-> truth]
Null == [json |-> "null"]
Missing == [json |-> "missing"]

KeysOf(object) == {object.pairs[i].key : i \in DOMAIN object.pairs}
\* Of a repeated key, a plain serde_json::Value keeps the last value.
Member(object, key) ==
    LET found == SelectSeq(object.pairs, LAMBDA p : p.key = key)
    IN  IF found = <<>> THEN Missing ELSE Last(found).value
\* How a field of an Option type sees an absent or a null member.
Given(value) == value \notin {Missing, Null}

\* The values directly inside one.
Inside(value) ==
    CASE value.json = "object" -> [i \in DOMAIN value.pairs |-> value.pairs[i].value]
      [] value.json = "array" -> value.items
      [] OTHER -> <<>>
UniqueKeys(value) ==
    value.json = "object" =>
        \A i, j \in DOMAIN value.pairs :
            i # j => value.pairs[i].key # value.pairs[j].key

\* StrictValue of cdb_migrator/src/metadata_input.rs: no object, at any depth,
\* has a key twice.
RECURSIVE Strict(_)
Strict(value) ==
    UniqueKeys(value) /\ \A i \in DOMAIN Inside(value) : Strict(Inside(value)[i])
=============================================================================
