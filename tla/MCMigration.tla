---------------------------- MODULE MCMigration -----------------------------
(***************************************************************************)
(* TLC instances of the migration: two files, each in a directory of its   *)
(* own, walked in one order and copied in the other, either or both of     *)
(* which may be absent.  One migration meets changes of the source, or     *)
(* files that are moved from one directory to the other and back, often    *)
(* enough to escape every look; two race while one thing happens to them.  *)
(***************************************************************************)
EXTENDS Migration

CONSTANTS f1, f2, d0, d1, d2, m1, m2, old, new
MCAbove ==
    [x \in {f1, f2, d0, d1, d2} |->
        CASE x = f1 -> {d0, d1} [] x = f2 -> {d0, d2} [] x = d0 -> {} [] OTHER -> {d0}]
MCWalkOrder == <<d0, d1, f1, d2, f2>>
MCCopyOrder == <<f2, f1>>

Alone ==
    [migrators |-> {m1}, bytes |-> {old, new}, kinds |-> {"edit", "move"}, edits |-> 3,
     faults |-> 0, foreign |-> 0]
Shuttle ==
    [migrators |-> {m1}, bytes |-> {old}, kinds |-> {"move"}, edits |-> 11,
     faults |-> 0, foreign |-> 0]
Racing ==
    [migrators |-> {m1, m2}, bytes |-> {old}, kinds |-> {"edit"}, edits |-> 1,
     faults |-> 0, foreign |-> 0]
Failing ==
    [migrators |-> {m1, m2}, bytes |-> {old}, kinds |-> {}, edits |-> 0,
     faults |-> 1, foreign |-> 1]
MCCircumstances == {Alone, Shuttle, Racing, Failing}
=============================================================================
