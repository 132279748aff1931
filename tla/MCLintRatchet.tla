--------------------------- MODULE MCLintRatchet ----------------------------
(***************************************************************************)
(* A TLC instance of LintRatchet: the two encodings of one built-in        *)
(* profile, which share its name, and a descriptor that judges by rules of *)
(* its own; a datastore of two sites; and the command lines of a job that  *)
(* mints a baseline, ratchets against it, or does both at once.            *)
(***************************************************************************)
EXTENDS LintRatchet, TLC

CONSTANTS
    j1, j2, s1, s2,
    bad, dull, wrong,           \* defects
    v, e, w,                    \* two violations, e of the encoding, and a warning
    simJson, simXml, acme,      \* yardsticks
    simulation, house           \* the names they report

MCNameOf == simJson :> simulation @@ simXml :> simulation @@ acme :> house
MCConvicts ==
    simJson :> (bad :> {v} @@ dull :> {w} @@ wrong :> {e})
    @@ simXml :> (bad :> {v} @@ dull :> {w} @@ wrong :> {})
    @@ acme :> (bad :> {} @@ dull :> {v} @@ wrong :> {v, w})

Line(y, format, output, ratchet, deny) ==
    [yardstick |-> y, format |-> format, output |-> output, ratchet |-> ratchet, deny |-> deny]
MCRequests ==
    {Line(y, "json", "baseline", FALSE, FALSE) : y \in {simJson, simXml, acme}}
    \cup {Line(simJson, "text", "stdout", ratchet, deny) : ratchet \in BOOLEAN, deny \in BOOLEAN}
    \cup {Line(simJson, "sarif", "stdout", TRUE, deny) : deny \in BOOLEAN}
    \cup {Line(simJson, "json", "baseline", TRUE, FALSE),
          Line(simXml, "text", "baseline", FALSE, FALSE),
          Line(acme, "text", "stdout", TRUE, TRUE)}

Interchangeable == Permutations({j1, j2}) \cup Permutations({s1, s2})
=============================================================================
