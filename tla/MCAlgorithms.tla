---------------------------- MODULE MCAlgorithms ----------------------------
(***************************************************************************)
(* Inputs of bounded size for the pure algorithms and the limit index.     *)
(***************************************************************************)
EXTENDS Algorithms

CONSTANTS MaxLabels,  \* labels in a hostname
          MaxList     \* limits in a list

\* Hostnames of up to MaxLabels labels, and hosts of one label more.
TwoLabels == {"a", "b"}
Names ==
    [wild : {FALSE}, labels : SeqOf(TwoLabels, MaxLabels) \ {<< >>}]
        \cup [wild : {TRUE}, labels : SeqOf(TwoLabels, MaxLabels)]
TwoNames == SeqOf(Names, 2)
OneName == SeqOf(Names, 1)
LongerHosts == SeqOf(TwoLabels, MaxLabels + 1) \ {<< >>}

\* Matches with every combination of method, kind of path and other conditions;
\* paths that differ by a slash at the end, or go on within an element.
TwoMethods == {"GET", "PUT"}
TwoHostnames == {"h", "i"}
SomeCharacters == {"/", "a", "b"}
AnyHost == "*"
NoneOrOne == {{}, {"h"}}
Values == {None, <<"/">>, <<"/", "a">>, <<"/", "a", "/">>}
Paths == {None} \cup
    [type : {None, "PathPrefix", "Exact", "RegularExpression"}, value : Values]
Matches == [method : {None, "GET"}, path : Paths, others : BOOLEAN]
OneOrTwoMatches == {{m, n} : m, n \in Matches}
SomeRequests ==
    [host : TwoHostnames, method : TwoMethods,
     path : {<<"/">> \o s : s \in SeqOf(SomeCharacters, 2)}, others : BOOLEAN]

\* Limits that differ late in the comparison, or only in the length of a list.
Limit(c, v) == [max |-> 1, seconds |-> 60, conditions |-> c, variables |-> v]
SomeLimits ==
    {Limit(<<1>>, <<2>>), Limit(<<1>>, << >>), Limit(<<1>>, <<3>>), Limit(<<1, 1>>, << >>)}
TwoLimits == {Limit(<<1>>, <<2>>), Limit(<<1>>, <<3>>)}
ShortLists == SeqOf(SomeLimits, MaxList)

Gateways == {<<"ns", "g1">>, <<"ns", "g2">>}
TwoDomains == {"d1", "d2"}
SmallWants ==
    {w \in [TwoDomains -> SeqOf(TwoLimits, 2)] : Len(w["d1"]) + 2 * Len(w["d2"]) <= 3}
NoGateway == {[namespace |-> <<<<"other">>>>, limit |-> Limit(<<1>>, <<2>>)]}
=============================================================================
