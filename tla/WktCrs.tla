------------------------------- MODULE WktCrs -------------------------------
(***************************************************************************)
(* The WKT-2 reader (crs/wkt2.rs), the storage CRS (crs/mod.rs) and the    *)
(* vertical CRS (crs/vertical.rs).                                         *)
(*                                                                         *)
(* A text is a sequence of tokens: white space is left out, a keyword is   *)
(* upper case, a number has one token for each value, and one that does    *)
(* not parse is the token "bad".  A node is <<"node", keyword, arguments>> *)
(* and a token that is an argument stands for itself, as <<token>>.        *)
(***************************************************************************)
EXTENDS Integers, Sequences, FiniteSets, SequencesExt

CONSTANTS
    Keywords, Texts, MaxDepth,
    Value,      \* of a number, in thousandths
    Overflow    \* what is displayed for a number read as an infinity

Numbers == DOMAIN Value \cup DOMAIN Overflow

Opening == {"[", "("}
Close(open) == IF open = "[" THEN "]" ELSE ")"
At(s, i) == IF i <= Len(s) THEN s[i] ELSE "end"

Bad == [ok |-> FALSE, value |-> <<>>, next |-> 0]
Good(value, i) == [ok |-> TRUE, value |-> value, next |-> i]

RECURSIVE ParseNode(_, _, _), ParseArguments(_, _, _, _, _)

\* A quoted string, a number, a bare keyword, or a node one level deeper.
ParseValue(s, i, depth) ==
    IF At(s, i) \in Texts \cup Numbers THEN Good(<<s[i]>>, i + 1)
    ELSE IF At(s, i) \notin Keywords THEN Bad
    ELSE IF At(s, i + 1) \in Opening THEN ParseNode(s, i, depth + 1)
    ELSE Good(<<s[i]>>, i + 1)

ParseNode(s, i, depth) ==
    IF depth > MaxDepth \/ At(s, i) \notin Keywords \/ At(s, i + 1) \notin Opening THEN Bad
    ELSE IF At(s, i + 2) = Close(s[i + 1]) THEN Good(<<"node", s[i], <<>>>>, i + 3)
    ELSE ParseArguments(s, i + 2, depth, i, <<>>)

\* One argument and what follows it: the closing bracket of the node, a comma,
\* or leniently the next argument; `start` is where the node begins.
ParseArguments(s, i, depth, start, before) ==
    LET value == ParseValue(s, i, depth)
        arguments == Append(before, value.value)
        after == At(s, value.next)
    IN  IF ~value.ok THEN Bad
        ELSE IF after = Close(s[start + 1]) THEN Good(<<"node", s[start], arguments>>, value.next + 1)
        ELSE IF after = "," THEN ParseArguments(s, value.next + 1, depth, start, arguments)
        ELSE IF after \in {"]", ")", "end"} THEN Bad
        ELSE ParseArguments(s, value.next, depth, start, arguments)

\* parse: one definition, and nothing after it.
Parse(s) ==
    LET node == ParseNode(s, 1, 0) IN IF node.ok /\ node.next = Len(s) + 1 THEN node ELSE Bad

\* Display: the canonical form.  A finite number is displayed so that it reads
\* as the same one, an infinity as `inf` or `-inf`.
Display(token) == IF token \in DOMAIN Overflow THEN Overflow[token] ELSE token
RECURSIVE Written(_)
Written(value) ==
    IF value[1] # "node" THEN <<Display(value[1])>>
    ELSE LET parts == [i \in DOMAIN value[3] |->
                          (IF i > 1 THEN <<",">> ELSE <<>>) \o Written(value[3][i])]
         IN  <<value[2], "[">> \o FlattenSeq(parts) \o <<"]">>

\* Whatever the reader accepts is read back from its canonical form as the
\* same tree: the lenient spellings (a missing comma, round brackets) lose
\* nothing, which rewriting a CRS on disk relies on.  Only a number that
\* overflowed is lost: it comes back as the keyword INF, or the text no longer
\* reads.
WktReadsBack(s) ==
    LET again == Parse(Written(Parse(s).value))
        displayed == Parse([i \in DOMAIN s |-> Display(s[i])])
    IN  Parse(s).ok => again.ok = displayed.ok /\ again.value = displayed.value
Finite(s) == \A i \in DOMAIN s : s[i] \notin DOMAIN Overflow

-----------------------------------------------------------------------------
(* Trees                                                                   *)

IsNode(v) == v[1] = "node"
ChildNodes(node) == SelectSeq(node[3], IsNode)
Find(node, keyword) == SelectSeq(ChildNodes(node), LAMBDA n : n[2] = keyword)
AtMostOne(s) == IF s = <<>> THEN <<>> ELSE <<Head(s)>>
FirstOf(node, kinds) == AtMostOne(SelectSeq(node[3], LAMBDA v : v[1] \in kinds))
Name(node) == FirstOf(node, Texts)
FirstNumber(node) == FirstOf(node, Numbers)

KindOf ==
    [GEODCRS |-> "geodetic", GEODETICCRS |-> "geodetic",
     GEOGCRS |-> "geographic", GEOGRAPHICCRS |-> "geographic",
     PROJCRS |-> "projected", PROJECTEDCRS |-> "projected",
     VERTCRS |-> "vertical", VERTICALCRS |-> "vertical",
     ENGCRS |-> "engineering", ENGINEERINGCRS |-> "engineering",
     COMPOUNDCRS |-> "compound", TIMECRS |-> "temporal", PARAMETRICCRS |-> "parametric"]
Classify(node) == IF node[2] \in DOMAIN KindOf THEN KindOf[node[2]] ELSE "other"
IsCrs(node) == Classify(node) # "other"

IsDynamic(crs) == Find(crs, "DYNAMIC") # <<>>
FrameEpoch(crs) ==
    IsDynamic(crs) /\ LET f == Find(Find(crs, "DYNAMIC")[1], "FRAMEEPOCH")
                      IN  f # <<>> /\ FirstNumber(f[1]) # <<>>

UnitKind ==
    [ANGLEUNIT |-> "angle", LENGTHUNIT |-> "length", SCALEUNIT |-> "scale",
     TIMEUNIT |-> "time", PARAMETRICUNIT |-> "parametric", UNIT |-> "generic"]
IsUnit(node) == node[2] \in DOMAIN UnitKind
UnitOf(node) == [kind |-> UnitKind[node[2]], name |-> Name(node), factor |-> FirstNumber(node)]
UnitsIn(node) ==
    LET units == SelectSeq(ChildNodes(node), IsUnit) IN [i \in DOMAIN units |-> UnitOf(units[i])]
\* The units of the component itself, then those of its axes.
CoordinateUnits(crs) ==
    LET axes == Find(crs, "AXIS")
    IN  UnitsIn(crs) \o FlattenSeq([i \in DOMAIN axes |-> UnitsIn(axes[i])])

\* Equal names, or equal factors when both are given: the difference is small
\* beside the larger of them, and beside an infinity all but its like is small.
Infinite(factor) == factor[1][1] \in DOMAIN Overflow
Compatible(a, b) ==
    \/ a.name = b.name
    \/ /\ a.factor # <<>> /\ b.factor # <<>>
       /\ (a.factor = b.factor) # (Infinite(a.factor) \/ Infinite(b.factor))
UnitsAgree(crs) ==
    LET units == CoordinateUnits(crs)
        first(i) == CHOOSE j \in 1 .. i : units[j].kind = units[i].kind
                        /\ \A k \in 1 .. j - 1 : units[k].kind # units[i].kind
    IN  \A i \in DOMAIN units : Compatible(units[first(i)], units[i])

-----------------------------------------------------------------------------
(* StorageCrs::new                                                         *)

Unwrapped(root) ==
    IF root[2] # "COORDINATEMETADATA" THEN <<root>> ELSE AtMostOne(ChildNodes(root))

\* The first number of the wrapper's epoch, if it has one; and Epoch::new.
WrapperEpoch(root) ==
    LET epochs == Find(root, "EPOCH")
    IN  IF root[2] # "COORDINATEMETADATA" \/ epochs = <<>> THEN <<>> ELSE FirstNumber(epochs[1])
ValidEpoch(e) == e \in DOMAIN Value /\ 1582000 <= Value[e] /\ Value[e] < 10000000

Members(crs) == SelectSeq(ChildNodes(crs), IsCrs)
Horizontal == {"geodetic", "geographic"}
Components(crs) == IF Classify(crs) = "compound" THEN Members(crs) ELSE <<crs>>

\* CRS4: a non-projected horizontal CRS, alone or first in a compound whose
\* other members are not projected, engineering or compound.
KindAllowed(crs) ==
    \/ Classify(crs) \in Horizontal
    \/ /\ Classify(crs) = "compound" /\ Members(crs) # <<>>
       /\ Classify(Members(crs)[1]) \in Horizontal
       /\ \A m \in ToSet(Members(crs)) :
             Classify(m) \notin {"projected", "engineering", "compound"}

Accepts(root, epochGiven) ==
    /\ Unwrapped(root) # <<>>
    /\ \A e \in ToSet(WrapperEpoch(root)) : ValidEpoch(e[1])
    /\ LET crs == Unwrapped(root)[1]
           components == ToSet(Components(crs))
       IN  /\ KindAllowed(crs)
           /\ \A c \in components : UnitsAgree(c)
           /\ (\E c \in components : IsDynamic(c)) =>
                 epochGiven \/ WrapperEpoch(root) # <<>> \/ \E c \in components : FrameEpoch(c)

\* StorageCrs::from_wkt and to_wkt, with the epoch of the wrapper or none; an
\* epoch is displayed with two decimals.
FromWkt(s) == IF Parse(s).ok /\ Accepts(Parse(s).value, FALSE) THEN Parse(s).value ELSE <<>>
TwoDecimals(e) ==
    CHOOSE shown \in DOMAIN Value : Value[shown] = ((Value[e] + 5) \div 10) * 10
ToWkt(root) ==
    LET crs == Written(Unwrapped(root)[1])
    IN  IF WrapperEpoch(root) = <<>> THEN crs
        ELSE <<"COORDINATEMETADATA", "[">> \o crs \o <<",", "EPOCH", "[">>
                 \o <<TwoDecimals(WrapperEpoch(root)[1][1]), "]", "]">>

\* A storage CRS that was accepted is accepted again from what is written for
\* it, as the same CRS (CRS3 compares the two) with its epoch (CRS7 needs it):
\* with the very epoch when that has two decimals, with one at most five
\* thousandths away when it has more.  Only an epoch that rounds up to the year
\* 10000 makes what was accepted unreadable.
SameEpoch(e, again) ==
    /\ Value[e] - 5 <= Value[again] /\ Value[again] <= Value[e] + 5
    /\ Value[e] % 10 = 0 => again = e
CrsReadsBack(s) ==
    LET crs == FromWkt(s)
        epoch == WrapperEpoch(crs)
        again == FromWkt(ToWkt(crs))
    IN  crs # <<>> /\ Finite(s) =>
            \/ again = <<>> /\ epoch # <<>> /\ Value[epoch[1][1]] >= 9999995
            \/ /\ again # <<>> /\ Unwrapped(again) = Unwrapped(crs)
               /\ Len(WrapperEpoch(again)) = Len(epoch)
               /\ \A i \in DOMAIN epoch : SameEpoch(epoch[i][1], WrapperEpoch(again)[i][1])

\* VerticalCrs::parse, and its unit: a length or an unqualified unit, or metres.
VerticalAccepts(root) == Classify(root) = "vertical" /\ UnitsAgree(root)
VerticalUnit(root) ==
    LET units == SelectSeq(CoordinateUnits(root), LAMBDA u : u.kind \in {"length", "generic"})
    IN  IF units = <<>> THEN [kind |-> "length", name |-> <<"metre">>, factor |-> <<"1">>]
        ELSE units[1]
=============================================================================
