-------------------------- MODULE MCSegmentStore --------------------------
EXTENDS SegmentStore

\* Every part has one character, except for a long one and one that fills a
\* SegmentRemap record.
MCPartLen(part) == CASE part = "" -> 0
                     [] part = "long" -> 40
                     [] part = "wide" -> PAYLOAD_MAX - 33
                     [] OTHER -> 1

\* "p" and "p//b": one key is a prefix of the other.
NestedKeys == {<<"p">>, <<"p", "", "b">>}

\* A key whose list of prefixes is too long for an AggDelta record.
DeepKey == {<<"d", "e", "e", "p">>}
ShallowAndDeepKey == {<<"p">>} \cup DeepKey

\* A key that leaves a SegmentRemap record no room for another one, and a key
\* too long for a Put record.
WideAndLongKey == {<<"wide">>, <<"long">>}

Symmetry == Permutations(Threads)
=============================================================================
