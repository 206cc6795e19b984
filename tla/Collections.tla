---------------------------- MODULE Collections ----------------------------
(***************************************************************************)
(* The observable collections of robs as pure operators.                   *)
(*                                                                         *)
(* A mutator of an observable collection changes the contents with the     *)
(* operations of the standard library and announces the change with        *)
(* events (send_event); a mirror applies each event to its own copy        *)
(* (handle_event).  A mutator is described here by the set of its possible *)
(* outcomes: the events in the order they are sent, each with the contents *)
(* the collection has once the change it announces was made.  A change     *)
(* that is made without an event has the event Unannounced.  Positions     *)
(* count from zero, as in the code.                                        *)
(***************************************************************************)
EXTENDS Integers, Sequences, FiniteSets, SequencesExt

CONSTANTS
    Keys,       \* keys of a hash map, elements of a hash set
    Values,     \* values of a hash map, elements of the sequences
    MaxLen      \* bound on the length of a sequence

Kinds == {"hash_map", "hash_set", "vec", "vec_deque", "list"}

Event(op) == [op |-> op]
ValueEvent(op, x) == [op |-> op, value |-> x]
IndexEvent(op, n) == [op |-> op, index |-> n]
IndexValueEvent(op, n, x) == [op |-> op, index |-> n, value |-> x]
RetainEvent(op, positions) == [op |-> op, positions |-> positions]
Done == Event("Done")
InitialComplete == Event("InitialComplete")
Unannounced == Event("Unannounced")

\* A change announced by one event.
Change(event, after) == <<[event |-> event, after |-> after]>>

-----------------------------------------------------------------------------
(* The standard library *)

MapInsert(m, k, x) == [j \in DOMAIN m \cup {k} |-> IF j = k THEN x ELSE m[j]]
MapRemove(m, k) == [j \in DOMAIN m \ {k} |-> m[j]]
PutAt(v, n, x) == [v EXCEPT ![n + 1] = x]
DropAt(v, n) == RemoveAt(v, n + 1)
PutBefore(v, n, x) == InsertAt(v, n + 1, x)
SwapDropBack(v, n) == Front([v EXCEPT ![n + 1] = Last(v)])
SwapDropFront(v, n) == Tail([v EXCEPT ![n + 1] = Head(v)])
Truncated(v, n) == IF n < Len(v) THEN SubSeq(v, 1, n) ELSE v
Resized(v, n, x) == [j \in 1..n |-> IF j <= Len(v) THEN v[j] ELSE x]
Filled(v, x) == [j \in 1..Len(v) |-> x]
KeepAt(v, positions) ==
    LET kept == SetToSortSeq({j \in 1..Len(v) : j - 1 \in positions}, LAMBDA a, b : a < b)
    IN [j \in 1..Len(kept) |-> v[kept[j]]]
Positions(v) == 0..(Len(v) - 1)

-----------------------------------------------------------------------------
(* ObservableHashMap *)

MapInserts(m) == {Change([op |-> "Set", key |-> k, value |-> x], MapInsert(m, k, x)) :
                    k \in Keys, x \in Values}
MapRemoves(m) == {Change([op |-> "Remove", key |-> k], MapRemove(m, k)) : k \in DOMAIN m}
MapClear(m) == {Change(Event("Clear"), <<>>) : k \in DOMAIN m}

\* The entries order[1], ..., order[j] have been visited; kept has the values afterwards of
\* the entries that stay.
Visited(m, kept, order, j) ==
    LET seen == {order[l] : l \in 1..j}
    IN [event |-> IF order[j] \in DOMAIN kept THEN Unannounced ELSE [op |-> "Remove", key |-> order[j]],
        after |-> [k \in DOMAIN m \ (seen \ DOMAIN kept) |-> IF k \in seen THEN kept[k] ELSE m[k]]]

\* One Remove event for each entry that goes, in the order of the map.  The predicate has
\* a mutable reference to the value, and what it changes in an entry that stays has no
\* event.
MapRetain(m) ==
    UNION {{[j \in 1..Len(order) |-> Visited(m, kept, order, j)] :
              order \in SetToSeqs({k \in DOMAIN m : k \notin DOMAIN kept \/ kept[k] # m[k]})} :
           kept \in UNION {[stay -> Values] : stay \in SUBSET DOMAIN m}} \ {<<>>}

\* A RefMut announces its value when it is dropped, if it was changed.
MapRefMut(m, k) == {Change([op |-> "Set", key |-> k, value |-> x], MapInsert(m, k, x)) :
                      x \in Values}
MapGetMut(m) == UNION {MapRefMut(m, k) : k \in DOMAIN m}

\* Entry: and_modify changes an entry that exists, or_insert adds one that does not.
MapOccupied(m, k) ==
    MapRefMut(m, k) \cup {Change([op |-> "Remove", key |-> k], MapRemove(m, k))}
MapVacant(m, k) ==
    {Change([op |-> "Set", key |-> k, value |-> x], MapInsert(m, k, x)) : x \in Values}
MapEntry(m) ==
    UNION {IF k \in DOMAIN m THEN MapOccupied(m, k) ELSE MapVacant(m, k) : k \in Keys}

MapMutations(m) ==
    MapInserts(m) \cup MapRemoves(m) \cup MapClear(m) \cup MapRetain(m) \cup MapGetMut(m)
        \cup MapEntry(m) \cup {Change(Event("ShrinkToFit"), m)}

\* The events that build up the contents of an incremental subscription, in the
\* order in which the map happens to be iterated.
MapBuildUp(m) ==
    {[j \in 1..Len(order) |-> [op |-> "Set", key |-> order[j], value |-> m[order[j]]]] :
       order \in SetToSeqs(DOMAIN m)}

\* Result of handle_event: the new contents, or the contents at the error.
Applied(c) == [contents |-> c, error |-> "none"]
AppliedUpTo(c, size, maxSize) ==
    [contents |-> c, error |-> IF size > maxSize THEN "MaxSizeExceeded" ELSE "none"]
InvalidIndex(c) == [contents |-> c, error |-> "InvalidIndex"]

MapHandleEvent(m, e, maxSize) ==
    CASE e.op = "Set" ->
           LET n == MapInsert(m, e.key, e.value)
           IN AppliedUpTo(n, Cardinality(DOMAIN n), maxSize)
      [] e.op = "Remove" -> Applied(MapRemove(m, e.key))
      [] e.op = "Clear" -> Applied(<<>>)
      [] OTHER -> Applied(m)

-----------------------------------------------------------------------------
(* ObservableHashSet *)

SetInserts(s) == {Change([op |-> "Set", key |-> k], s \cup {k}) : k \in Keys}
SetRemoves(s) == {Change([op |-> "Remove", key |-> k], s \ {k}) : k \in s}
SetClear(s) == {Change(Event("Clear"), {}) : k \in s}
SetRetain(s) ==
    {[j \in 1..Len(order) |->
        [event |-> [op |-> "Remove", key |-> order[j]],
         after |-> s \ {order[l] : l \in 1..j}]] :
       order \in UNION {SetToSeqs(gone) : gone \in SUBSET s \ {{}}}}

SetMutations(s) ==
    SetInserts(s) \cup SetRemoves(s) \cup SetClear(s) \cup SetRetain(s)
        \cup {Change(Event("ShrinkToFit"), s)}

SetBuildUp(s) ==
    {[j \in 1..Len(order) |-> [op |-> "Set", key |-> order[j]]] : order \in SetToSeqs(s)}

SetHandleEvent(s, e, maxSize) ==
    CASE e.op = "Set" -> AppliedUpTo(s \cup {e.key}, Cardinality(s \cup {e.key}), maxSize)
      [] e.op = "Remove" -> Applied(s \ {e.key})
      [] e.op = "Clear" -> Applied({})
      [] OTHER -> Applied(s)

-----------------------------------------------------------------------------
(* ObservableVec *)

VecPush(v) == {Change(ValueEvent("Push", x), Append(v, x)) : x \in Values}
VecPop(v) == {Change(Event("Pop"), Front(v)) : n \in {0} \cap Positions(v)}
VecRefMut(v, n) == {Change(IndexValueEvent("Set", n, x), PutAt(v, n, x)) : x \in Values}
VecGetMut(v) == UNION {VecRefMut(v, n) : n \in Positions(v)}
\* Mutant: the position is announced counted from one.
VecInsertFromOne(v) == {Change(IndexValueEvent("Insert", n + 1, x), PutBefore(v, n, x)) :
                          n \in 0..Len(v), x \in Values}

VecInsert(v) == {Change(IndexValueEvent("Insert", n, x), PutBefore(v, n, x)) :
                   n \in 0..Len(v), x \in Values}
VecRemove(v) == {Change(IndexEvent("Remove", n), DropAt(v, n)) : n \in Positions(v)}
VecSwapRemove(v) == {Change(IndexEvent("SwapRemove", n), SwapDropBack(v, n)) :
                       n \in Positions(v)}
VecFill(v) == {Change(ValueEvent("Fill", x), Filled(v, x)) : x \in Values}
VecResize(v) == {Change(IndexValueEvent("Resize", n, x), Resized(v, n, x)) :
                   n \in (0..MaxLen) \ {Len(v)}, x \in Values}
VecTruncate(v) == {Change(IndexEvent("Truncate", n), Truncated(v, n)) : n \in Positions(v)}
VecClear(v) == {Change(Event("Clear"), <<>>) : n \in {0} \cap Positions(v)}

\* Mutant: the wrong one of the two events is chosen.
VecRetainSwapped(v) ==
    {Change(IF Cardinality(keep) < Len(v) - Cardinality(keep)
            THEN RetainEvent("RetainNot", keep)
            ELSE RetainEvent("RetainNot", Positions(v) \ keep),
            KeepAt(v, keep)) : keep \in SUBSET Positions(v) \ {Positions(v)}}

\* The smaller one of the two sets of positions is announced.
VecRetain(v) ==
    {Change(IF Cardinality(keep) < Len(v) - Cardinality(keep)
            THEN RetainEvent("Retain", keep)
            ELSE RetainEvent("RetainNot", Positions(v) \ keep),
            KeepAt(v, keep)) : keep \in SUBSET Positions(v) \ {Positions(v)}}

VecMutations(v) ==
    VecPush(v) \cup VecPop(v) \cup VecGetMut(v) \cup VecInsert(v) \cup VecRemove(v)
        \cup VecSwapRemove(v) \cup VecFill(v) \cup VecResize(v) \cup VecTruncate(v)
        \cup VecClear(v) \cup VecRetain(v) \cup {Change(Event("ShrinkToFit"), v)}

VecBuildUp(v) == {[j \in 1..Len(v) |-> ValueEvent("Push", v[j])]}

VecHandleEvent(v, e, maxSize) ==
    CASE e.op = "Push" -> AppliedUpTo(Append(v, e.value), Len(v) + 1, maxSize)
      [] e.op = "Pop" -> Applied(IF v = <<>> THEN v ELSE Front(v))
      [] e.op = "Insert" ->
           IF e.index > Len(v) THEN InvalidIndex(v) ELSE Applied(PutBefore(v, e.index, e.value))
      [] e.op \in {"Set", "Remove", "SwapRemove"} /\ e.index >= Len(v) -> InvalidIndex(v)
      [] e.op = "Set" -> Applied(PutAt(v, e.index, e.value))
      [] e.op = "Remove" -> Applied(DropAt(v, e.index))
      [] e.op = "SwapRemove" -> Applied(SwapDropBack(v, e.index))
      [] e.op = "Fill" -> Applied(Filled(v, e.value))
      [] e.op = "Resize" -> Applied(Resized(v, e.index, e.value))
      [] e.op = "Truncate" -> Applied(Truncated(v, e.index))
      [] e.op = "Retain" -> Applied(KeepAt(v, e.positions))
      [] e.op = "RetainNot" -> Applied(KeepAt(v, Positions(v) \ e.positions))
      [] e.op = "Clear" -> Applied(<<>>)
      [] OTHER -> Applied(v)

-----------------------------------------------------------------------------
(* ObservableVecDeque: both ends, and the rest as ObservableVec *)

DequePush(v) ==
    {Change(ValueEvent("PushBack", x), Append(v, x)) : x \in Values}
        \cup {Change(ValueEvent("PushFront", x), <<x>> \o v) : x \in Values}
DequePop(v) ==
    {Change(Event("PopBack"), Front(v)) : n \in {0} \cap Positions(v)}
        \cup {Change(Event("PopFront"), Tail(v)) : n \in {0} \cap Positions(v)}
DequeSwapRemove(v) ==
    {Change(IndexEvent("SwapRemoveBack", n), SwapDropBack(v, n)) : n \in Positions(v)}
        \cup {Change(IndexEvent("SwapRemoveFront", n), SwapDropFront(v, n)) : n \in Positions(v)}
DequeRefMut(v, n) == {Change(IndexValueEvent("Set", n, x), PutAt(v, n, x)) : x \in Values}
DequeGetMut(v) == UNION {DequeRefMut(v, n) : n \in Positions(v)}
DequeInsert(v) == {Change(IndexValueEvent("Insert", n, x), PutBefore(v, n, x)) :
                     n \in 0..Len(v), x \in Values}
DequeRemove(v) == {Change(IndexEvent("Remove", n), DropAt(v, n)) : n \in Positions(v)}
DequeResize(v) == {Change(IndexValueEvent("Resize", n, x), Resized(v, n, x)) :
                     n \in (0..MaxLen) \ {Len(v)}, x \in Values}
DequeTruncate(v) == {Change(IndexEvent("Truncate", n), Truncated(v, n)) : n \in Positions(v)}
DequeClear(v) == {Change(Event("Clear"), <<>>) : n \in {0} \cap Positions(v)}
DequeRetain(v) ==
    {Change(IF Cardinality(keep) < Len(v) - Cardinality(keep)
            THEN RetainEvent("Retain", keep)
            ELSE RetainEvent("RetainNot", Positions(v) \ keep),
            KeepAt(v, keep)) : keep \in SUBSET Positions(v) \ {Positions(v)}}

DequeMutations(v) ==
    DequePush(v) \cup DequePop(v) \cup DequeSwapRemove(v) \cup DequeGetMut(v) \cup DequeInsert(v)
        \cup DequeRemove(v) \cup DequeResize(v) \cup DequeTruncate(v) \cup DequeClear(v)
        \cup DequeRetain(v) \cup {Change(Event("ShrinkToFit"), v)}

DequeBuildUp(v) == {[j \in 1..Len(v) |-> ValueEvent("PushBack", v[j])]}

DequeHandleEvent(v, e, maxSize) ==
    CASE e.op = "PushBack" -> AppliedUpTo(Append(v, e.value), Len(v) + 1, maxSize)
      [] e.op = "PushFront" -> AppliedUpTo(<<e.value>> \o v, Len(v) + 1, maxSize)
      [] e.op = "PopBack" -> Applied(IF v = <<>> THEN v ELSE Front(v))
      [] e.op = "PopFront" -> Applied(IF v = <<>> THEN v ELSE Tail(v))
      [] e.op = "Insert" ->
           IF e.index > Len(v) THEN InvalidIndex(v) ELSE Applied(PutBefore(v, e.index, e.value))
      [] e.op \in {"Set", "Remove", "SwapRemoveBack", "SwapRemoveFront"} /\ e.index >= Len(v) ->
           InvalidIndex(v)
      [] e.op = "Set" -> Applied(PutAt(v, e.index, e.value))
      [] e.op = "Remove" -> Applied(DropAt(v, e.index))
      [] e.op = "SwapRemoveBack" -> Applied(SwapDropBack(v, e.index))
      [] e.op = "SwapRemoveFront" -> Applied(SwapDropFront(v, e.index))
      [] e.op = "Resize" -> Applied(Resized(v, e.index, e.value))
      [] e.op = "Truncate" -> Applied(Truncated(v, e.index))
      [] e.op = "Retain" -> Applied(KeepAt(v, e.positions))
      [] e.op = "RetainNot" -> Applied(KeepAt(v, Positions(v) \ e.positions))
      [] e.op = "Clear" -> Applied(<<>>)
      [] OTHER -> Applied(v)

-----------------------------------------------------------------------------
(* Any collection *)

\* The mutators, within the bound on the length.
Mutations(kind, c) ==
    CASE kind = "hash_map" -> MapMutations(c)
      [] kind = "hash_set" -> SetMutations(c)
      [] kind = "vec" -> {m \in VecMutations(c) : Len(m[1].after) <= MaxLen}
      [] kind = "vec_deque" -> {m \in DequeMutations(c) : Len(m[1].after) <= MaxLen}

HandleEvent(kind, c, e, maxSize) ==
    CASE kind = "hash_map" -> MapHandleEvent(c, e, maxSize)
      [] kind = "hash_set" -> SetHandleEvent(c, e, maxSize)
      [] kind \in {"vec", "list"} -> VecHandleEvent(c, e, maxSize)
      [] kind = "vec_deque" -> DequeHandleEvent(c, e, maxSize)

EmptyOf(kind) == IF kind = "hash_set" THEN {} ELSE <<>>

BuildUp(kind, c) ==
    CASE kind = "hash_map" -> MapBuildUp(c)
      [] kind = "hash_set" -> SetBuildUp(c)
      [] kind = "vec" -> VecBuildUp(c)
      [] kind = "vec_deque" -> DequeBuildUp(c)
=============================================================================
