----------------------------- MODULE MCSession -----------------------------
EXTENDS Session

MCBytes == [text |-> 1, full |-> 3, stub |-> 1, missing |-> 1,
            summary |-> 1, prompt |-> 1]
MCBatches == {<<"screen">>, <<"shell", "screen">>}
MCSymmetry == Permutations(Models)
=============================================================================
