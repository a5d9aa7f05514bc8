------------------------------ MODULE MCPosts ------------------------------
(* Instances of Posts for TLC. *)
EXTENDS Posts, TLC

\* The titles "Foo" and "Foo 2": the second one's slug is a candidate of the
\* first one's.
MCRoots == {"foo"}
Foo == [root |-> "foo", suffix |-> <<>>]
Foo2 == [root |-> "foo", suffix |-> <<2>>]
MCBases == {Foo, Foo2}
OneBase == {Foo}

\* Requests and ids are interchangeable: nothing compares them but by equality.
Symmetry == Permutations(Requests) \cup Permutations(Ids)
=============================================================================
