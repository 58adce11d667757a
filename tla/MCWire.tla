------------------------------- MODULE MCWire -------------------------------
EXTENDS Wire

MCBytes == [prompt |-> 1, text |-> 2, full |-> 3, stub |-> 1, summary |-> 1, missing |-> 1]

T(n) == [k |-> "text", tool |-> "", n |-> n]
C(tool, n) == [k |-> "call", tool |-> tool, n |-> n]

\* Text, a call after text, and two calls of which one has no arguments.
MCShapes == {<<T(1)>>, <<T(1), C("see", 2)>>, <<C("see", 2), C("look", 0)>>}
=============================================================================
