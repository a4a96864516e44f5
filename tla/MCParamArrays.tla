---------------------------- MODULE MCParamArrays ----------------------------
(* Small instances of ParamArrays for TLC. *)
EXTENDS ParamArrays

Letters == {"a", "b", "x", "y"}

\* Two names of the same size, one that is a prefix of another, one too long.
SomeNames == {<<"a">>, <<"b">>, <<"a", "b">>, <<"a", "b", "a">>}

\* Strings of two sizes, and the empty one; to the other types, three values.
SomeValues == {<<>>, <<"x">>, <<"x", "y">>}
=============================================================================
