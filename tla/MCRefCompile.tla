---------------------------- MODULE MCRefCompile ----------------------------
(* An instance of RefCompile.  A target has keys derived from one another in *)
(* either order, in a circle, two in one string, or none.                    *)
EXTENDS RefCompile

CONSTANTS t1, t2, a, b, c, d

Of(path, from) == [path |-> path, from |-> from]
Str(tags) == [string |-> TRUE, tags |-> tags]
List(tags) == [string |-> FALSE, tags |-> tags]

A == Of(a, Generator)
B == Of(b, a)
C == Of(c, b)
D == Of(d, Generator)

Chains == {<<Str(<<A>>), Str(<<B>>), Str(<<C>>)>>, <<Str(<<C>>), Str(<<B>>), Str(<<A>>)>>,
           <<Str(<<A, B>>), Str(<<C>>)>>, <<Str(<<C, A>>), Str(<<B>>), List(<<A, B>>)>>,
           <<Str(<<B>>), Str(<<Of(a, None)>>)>>, <<Str(<<B>>), Str(<<Of(a, b)>>)>>,
           <<Str(<<B>>), Str(<<>>), Str(<<C>>), Str(<<A>>)>>}
Lone == {<<List(<<D>>), Str(<<Of(d, None)>>)>>}

OwnRefs == [t \in Targets |-> IF t = t1 THEN Chains ELSE Lone]
=============================================================================
