--------------------------- MODULE VersionHistory ---------------------------
(***************************************************************************)
(* What the versioning facade promises, without its steps: a history of    *)
(* revisions that only grows, and the content of the datastore.  A         *)
(* revision is appended together with its effect, and the documented       *)
(* changes are exactly that effect.  A call that stops half way may damage *)
(* content, but it appends nothing.                                        *)
(***************************************************************************)
EXTENDS Integers, Sequences

CONSTANTS
    Asset, Place, At,
    None          \* the content of a place that holds no file

VARIABLES
    log,      \* the documented revisions, in order
    content   \* place -> the content of the file there

Touching(changes, p, actions) ==
    {i \in DOMAIN changes : At[changes[i].asset] = p
                            /\ changes[i].action \in actions}
FileActions == {"created", "replaced", "deleted"}

\* `after` is `before` with the documented changes made, and nothing else.
Documents(changes, before, after) ==
    \A p \in Place :
        /\ Touching(changes, p, {"created"}) # {}
              => before[p] = None /\ after[p] # None
        /\ Touching(changes, p, {"replaced"}) # {}
              => before[p] # None /\ after[p] # None
        /\ Touching(changes, p, {"deleted"}) # {}
              => before[p] # None /\ after[p] = None
        /\ Touching(changes, p, FileActions) = {} => after[p] = before[p]

Commit ==
    /\ Len(log') = Len(log) + 1
    /\ SubSeq(log', 1, Len(log)) = log
    /\ Documents(log'[Len(log')].changes, content, content')

Damage == UNCHANGED log

Init == log = <<>>
Next == Commit \/ Damage
Spec == Init /\ [][Next]_<<log, content>>

=============================================================================
