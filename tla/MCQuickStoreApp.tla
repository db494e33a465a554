-------------------------- MODULE MCQuickStoreApp --------------------------
(* QuickStoreApp, and the functions it is built on, on small instances.     *)
EXTENDS QuickStoreApp, TLC

CONSTANTS k1, k2, t1, t2

\* Bytes of length 0, and an integer.
SomeInputs == { [type |-> "int64", value |-> <<-1>>],
                [type |-> "bytes", value |-> <<>>] }

SomeEdits == {[type |-> "int64", value |-> <<-1>>]}

\* The Editor has at most two edits at a time, a clear being one.
FewEdits == Len(pending) + Cardinality({TRUE} \cap {clearRequested}) <= 2

KeyLists == {<<k1, k2, k1>>}

\* Lengths of one and of two bytes, and a key that begins like a record.
SomeLogKeys == {<<1>>, [i \in 1 .. Group |-> 1]}
SomeLogBlobs == {<<>>, <<1>>, [i \in 1 .. Group |-> 0]}

\* Characters of one, two and four bytes, alone and next to each other.
SomeKeyStrings == {<<1>>, <<1, 2>>, <<1, 1, 2>>, <<1, 2, 1>>, <<1, 2, 3, 4>>}
=============================================================================
