----------------------------- MODULE MCDiscovery -----------------------------
(* Discovery with products whose names and ids clash: "a" is the id of one and *)
(* the name of the other.                                                      *)
EXTENDS Discovery

P == [id |-> "a", name |-> "x"]
Q == [id |-> "b", name |-> "a"]

MCCatalogs == {<<>>, <<P>>, <<Q, P>>}
MCContexts == {<<>>, <<"u", "v">>}
==============================================================================
