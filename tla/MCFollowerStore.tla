-------------------------- MODULE MCFollowerStore --------------------------
EXTENDS FollowerStore

\* Every part has one character.
MCPartLen(part) == IF part = "" THEN 0 ELSE 1

\* "p" and "p//b": one key is a prefix of the other.
NestedKeys == {<<"p">>, <<"p", "", "b">>}
=============================================================================
