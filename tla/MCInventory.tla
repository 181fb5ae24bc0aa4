---------------------------- MODULE MCInventory ----------------------------
\* Two targets of the same base name, two classes, one of them in a linked directory,
\* a pattern that matches both and one that matches the other, and a reference.
EXTENDS Inventory

MCClassOrder == <<"a", "b">>

MCMatching == [star |-> {"a", "b"}, cstar |-> {"b"}, ref |-> {}]

MCClassLists ==
  {<<>>, <<"a">>, <<"b", "star">>, <<"star", "ref">>, <<"cstar">>, <<"a", "b", "a">>}

MCBaseName == [dev |-> "dev", eudev |-> "dev"]

MCFirstTree ==
  [dev |-> [classes |-> <<"b", "star">>, form |-> "escaped"],
   a   |-> [classes |-> <<"cstar">>, form |-> "plain"],
   b   |-> [classes |-> <<>>, form |-> "colon"]]
=============================================================================
