-------------------------- MODULE MCRequiredState --------------------------
(* Instances of RequiredState: two members and three widgets, and configs   *)
(* that grow, shrink and change shape.                                      *)
EXTENDS RequiredState

Widget(k) == <<"widget", k>>
Mem(k) == <<Member, k>>
Room == {Mem("me"), Mem("bob"), Widget("a"), Widget("b"), Widget("c")}

Menu ==
  { <<<<Widget("a")>>>>,
    <<<<Widget("a"), Widget("b")>>>>,
    <<<<Mem(LazyKey)>>, <<Widget("c")>>>>,
    <<<<Mem("*")>>, <<Widget("b")>>>>,
    <<<<Widget("c")>>, <<<<"*", "a">>>>>>,
    <<<<Widget("*"), Widget("a"), Mem(MeKey)>>>>,
    <<<<Mem("me")>>, <<<<"*", "*">>, Widget("a")>>>> }

LazyMenu == { <<<<Widget("a")>>>>, <<<<Widget("a"), Mem(LazyKey), Mem(MeKey)>>>> }
=============================================================================
