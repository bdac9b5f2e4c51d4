------------------------------ MODULE MCPaths ------------------------------
(* Instances of Paths for TLC.                                             *)
EXTENDS Paths, TLC

a  == <<"a">>
b  == <<"b">>
ab == <<"a", "b">>
p  == <<"p">>

FewPlaces == {<<a>>, <<b>>, <<a, b>>, <<b, b>>, <<b, ab>>}

(* Directories and files; or links, some of which go round in a circle.    *)
Plain == [x \in FewPlaces |-> Real]
FewTrees ==
  {Plain,
   [Plain EXCEPT ![<<a, b>>] = Link(FALSE, <<DotDot, b>>), ![<<b, b>>] = Link(FALSE, <<ab>>)],
   [Plain EXCEPT ![<<a>>] = Link(TRUE, <<b, Dot>>), ![<<b, ab>>] = Link(TRUE, <<a, ab>>)],
   [Plain EXCEPT ![<<b>>] = None]}

FewChanges ==
  {[at |-> <<a>>, to |-> Link(FALSE, <<b>>)], [at |-> <<a>>, to |-> Real],
   [at |-> <<b>>, to |-> Link(TRUE, <<a>>)], [at |-> <<b, b>>, to |-> Link(FALSE, <<b, b>>)]}

FewArgs ==
  {[abs |-> TRUE, names |-> <<a, b>>], [abs |-> TRUE, names |-> <<a, b, ab>>],
   [abs |-> TRUE, names |-> <<b, Nothing, Dot, b>>], [abs |-> TRUE, names |-> <<a, DotDot, b, ab>>],
   [abs |-> FALSE, names |-> <<b>>], [abs |-> TRUE, names |-> <<p, b>>],
   [abs |-> TRUE, names |-> <<a, b, DotDot, ab>>]}

FewDirs == {<<>>, <<b>>}
FewSkipped == {p}

FewPolicies ==
  {<<<<AnyPath, b>>, <<a>>>>, <<<<b>>, <<AnyPath, <<"*", "b">>>>>>,
   <<<<a, <<"?">>, ab>>, <<<<"*">>, AnyPath, ab>>, <<b, Dot>>>>, <<<<<<"?", "*", "?">>>>>>}
=============================================================================
