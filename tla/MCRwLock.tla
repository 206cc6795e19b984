------------------------------ MODULE MCRwLock ------------------------------
(* Model checking of RwLock: the set-ups of the locks and their tasks. *)
EXTENDS RwLock

\* The first two tasks share a lock.
Shared == [t \in Tasks |-> IF t = 3 THEN "b" ELSE "a"]
Apart == [t \in Tasks |-> IF t = 1 THEN "a" ELSE "b"]

Calls(r, w) ==
    [lock |-> Shared, reads |-> r, writes |-> w, faults |-> {}]

\* Two readers of one lock and a writer.
OneWriter == Calls(<<2, 1, 1>>, <<0, 0, 1>>)
\* Everybody writes.
Writers == [Calls(<<1, 0, 1>>, <<1, 1, 1>>) EXCEPT !.lock = Apart]
\* Calls are given up, connections are lost, the Owner is dropped.
Cancelled == [Calls(<<1, 1, 0>>, <<0, 1, 1>>) EXCEPT !.faults = {"cancel"}]
Lost == [Calls(<<2, 0, 1>>, <<0, 0, 1>>) EXCEPT !.faults = {"lose"}]
\* Requests, values and confirmations are not transferred.
Untransferable == [Calls(<<1, 0, 1>>, <<1, 0, 1>>) EXCEPT !.faults = {"transfer"}]
Dropped == [Calls(<<1, 1, 0>>, <<1, 0, 1>>) EXCEPT !.faults = {"drop"}]

FaultFree == {OneWriter}
AllSetups == {OneWriter, Writers, Cancelled, Untransferable, Lost, Dropped}
=============================================================================
