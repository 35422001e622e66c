-------------------------- MODULE MCIntegrityCheck --------------------------
(***************************************************************************)
(* A directory <<1>> with three names: <<1, 1>> may be a directory with an *)
(* object in it, or a mount point; <<1, 2>>, which may be a directory too, *)
(* has a rule of its own, without its children.  The rules are what        *)
(* CreateFCOSpecs makes of such a policy: each start point is a stop point *)
(* of the rules above it.                                                  *)
(***************************************************************************)
EXTENDS IntegrityCheck

CONSTANTS a, b

MCContent == {a, b}
\* In a parent's rule and one of its own, one named twice, two below a stop point.
MCObjectLists == {<<<<1, 1>>>>, <<<<1, 2>>, <<1>>, <<1, 2>>>>, <<<<1, 1, 1>>, <<1, 3>>, <<1, 2, 1>>>>}
MCRules   == <<StopPoints(<<1>>, {<<1, 2>>}, Infinite), NoChildren(<<1, 2>>)>>

\* A tree of a part for each of the names in <<1>>.
Joined(root, s) == [n \in {<<1>>} \cup DOMAIN s |-> IF n = <<1>> THEN root ELSE s[n]]
Leaf(n, v)   == [m \in {n} |-> v]
Both(s, t)   == [n \in DOMAIN s \cup DOMAIN t |->
                   IF n \in DOMAIN s THEN s[n] ELSE t[n]]
Nothing      == [m \in {} |-> NoData]
Pair(n, v, w) == Both(Leaf(n, v), Leaf(Append(n, 1), w))

FsParts == {Nothing, Leaf(<<1, 1>>, a), Leaf(<<1, 1>>, Mount), Pair(<<1, 1>>, Dir, a)}
FsRest  == {Both(s, t) : s \in {Nothing, Pair(<<1, 2>>, Dir, a)},
                         t \in {Nothing, Leaf(<<1, 3>>, a)}}
MCInitialFs == {Nothing} \cup {Joined(Dir, Both(s, t)) : s \in FsParts, t \in FsRest}

DbParts == {Nothing, Leaf(<<1, 1>>, a), Pair(<<1, 1>>, Dir, a), Pair(<<1, 1>>, NoData, b)}
DbRest  == {Both(s, t) : s \in {Nothing, Leaf(<<1, 2>>, Dir)},
                         t \in {Nothing, Leaf(<<1, 3>>, a)}}
MCInitialDb == {Joined(r, Both(s, t)) : r \in {Dir, NoData}, s \in DbParts, t \in DbRest}
=============================================================================
