---------------------------- MODULE MCObservable ----------------------------
(* Model checking of Observable: the collections and how they are observed. *)
EXTENDS Observable

\* One mirror of each kind of collection, and every mutator.
OneMirror(kind, initial) ==
    [kind |-> kind, initial |-> initial, source |-> [i \in {1} |-> 0],
     modes |-> [i \in {1} |-> {"value", "incremental"}], buffer |-> 2, maxSize |-> 3,
     changes |-> 2, ops |-> {"done"}]
OneMap == OneMirror("hash_map", [k \in {1} |-> 1])
OneSet == [OneMirror("hash_set", {1, 2}) EXCEPT !.maxSize = 1, !.buffer = 1]
OneVec == OneMirror("vec", <<1, 2>>)
OneDeque == OneMirror("vec_deque", <<1, 2>>)

\* A mirror of a mirror; the collection and the mirrors may be dropped.
Chain ==
    [kind |-> "hash_set", initial |-> {1}, source |-> [i \in {1, 2} |-> i - 1],
     modes |-> [i \in {1, 2} |-> {"value", "incremental"}], buffer |-> 1, maxSize |-> 3,
     changes |-> 1, ops |-> {"done", "drop", "drop_mirror"}]

\* A connection may be lost.
Lossy == [OneSet EXCEPT !.maxSize = 3, !.buffer = 2, !.ops = {"done", "drop", "lose"}]

\* A broadcast receiver that reads on after it has lagged.
Raw ==
    [OneSet EXCEPT !.initial = {}, !.modes = [i \in {1} |-> {"raw"}], !.changes = 3,
                   !.ops = {"done", "drop"}]

\* A list with two mirrors, and one that is borrowed and waited for.
TwoOnList ==
    [kind |-> "list", initial |-> <<1>>, source |-> [i \in {1, 2} |-> 0],
     modes |-> [i \in {1, 2} |-> {"incremental"}], buffer |-> 1, maxSize |-> 2, changes |-> 1,
     ops |-> {"done", "drop"}]
BorrowedList ==
    [TwoOnList EXCEPT !.source = [i \in {1} |-> 0], !.modes = [i \in {1} |-> {"incremental"}],
                      !.ops = {"done", "drop_mirror", "lose", "closed", "borrow"}]

AllSetups == {OneMap, OneSet, OneVec, OneDeque, Chain, Lossy, Raw, TwoOnList, BorrowedList}
=============================================================================
