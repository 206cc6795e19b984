----------------------------- MODULE Observable -----------------------------
(***************************************************************************)
(* Observable collections, their subscriptions and their mirrors (robs),   *)
(* on top of the broadcast channel of rch.                                 *)
(*                                                                         *)
(* Node 0 is the observable collection.  Node i is a subscription and the  *)
(* mirror that is built from it; it observes node setup.source[i], which   *)
(* is the collection or another mirror.  A broadcast channel hands every   *)
(* event to the queue of each subscriber; a subscriber whose queue is full *)
(* misses events until a task of its own has put a Lagged notice into the  *)
(* queue and has found room again.  An observable list has no broadcast    *)
(* channel: a task keeps the position of every subscriber.                 *)
(*                                                                         *)
(* The entries of the queues carry, as a history variable, the index in    *)
(* log of the contents that they lead to.                                  *)
(***************************************************************************)
EXTENDS Collections

CONSTANTS
    Subs,       \* subscribers
    Setups      \* how the collection is set up and used

\* kind, initial: the collection; source: the node each subscriber observes;
\* modes: how it may subscribe; buffer: send buffer of a subscriber;
\* maxSize: limit of a mirror; changes: bound on the calls of mutators;
\* ops: other operations and faults that occur.
ASSUME ObservableAssumption ==
    \A c \in Setups :
        /\ c.kind \in Kinds /\ c.buffer \in Nat \ {0} /\ c.maxSize \in Nat /\ c.changes \in Nat
        /\ DOMAIN c.source \subseteq Subs /\ DOMAIN c.modes = DOMAIN c.source
        /\ \A i \in DOMAIN c.modes : c.modes[i] \subseteq {"value", "incremental", "raw"}
        /\ c.ops \subseteq {"done", "drop", "drop_mirror", "lose", "borrow", "closed"}

VARIABLES
    setup,      \* the set-up of this behaviour
    coll,       \* contents of the observable collection
    log,        \* history: all contents it had
    silent,     \* history: indices in log of contents that came about without an event
    done,       \* ObservableX::done was called
    alive,      \* the observable collection exists
    todo,       \* what the running mutator still has to change and announce
    bc,         \* where the broadcast channel has each subscriber
    permit,     \* the task of a lagging subscriber holds a permit of its queue
    queue,      \* events and errors sent to each subscriber
    sub,        \* subscriptions
    mirror,     \* mirrors
    got,        \* history: what a plain broadcast receiver has received
    list        \* task of an observable list

vars == <<setup, coll, log, silent, done, alive, todo, bc, permit, queue, sub, mirror, got, list>>
collVars == <<coll, log, silent, done, alive, todo>>

Kind == setup.kind
Source(i) == setup.source[i]
Active == DOMAIN setup.source

Entry(event, at) == [event |-> event, at |-> at]
Lagged == Entry(Event("Lagged"), 0)
Lost == Entry(Event("Lost"), 0)

NoSub == [on |-> FALSE, mode |-> "value", len |-> 0, pending |-> <<>>, complete |-> FALSE,
          open |-> FALSE, done |-> FALSE, base |-> 0, since |-> 0, late |-> FALSE,
          lost |-> FALSE]
NoMirror == [state |-> "none", v |-> <<>>, complete |-> FALSE, done |-> FALSE,
             error |-> "none", pos |-> 0]

Init ==
    /\ setup \in Setups
    /\ coll = setup.initial
    /\ log = <<setup.initial>> /\ silent = {}
    /\ done = FALSE /\ alive = TRUE /\ todo = <<>>
    /\ bc = [i \in Subs |-> "none"]
    /\ permit = [i \in Subs |-> FALSE]
    /\ queue = [i \in Subs |-> <<>>]
    /\ sub = [i \in Subs |-> NoSub]
    /\ mirror = [i \in Subs |-> NoMirror]
    /\ got = [i \in Subs |-> <<>>]
    /\ list = [reqs |-> <<>>, dist |-> <<>>, buffer |-> coll, done |-> FALSE, guard |-> "unused",
               ended |-> FALSE, subs |-> <<>>, distributor |-> TRUE, distEnded |-> FALSE,
               over |-> FALSE, closed |-> "no", notify |-> FALSE]

Running(i) == mirror[i].state = "run"

\* The broadcast sender of a node exists; the task of a mirror owns the one of the mirror.
SourceAlive(n) == IF n = 0 THEN alive ELSE Running(n)

-----------------------------------------------------------------------------
(* The broadcast channel *)

\* The receiving end exists and is connected.
Listening(i) == Running(i) /\ ~sub[i].lost

Full(i) == Len(queue[i]) + (IF permit[i] THEN 1 ELSE 0) >= setup.buffer

\* Sender::send hands an entry to one subscriber.  Subscribers that have become
\* ready again are fetched first; one that has no room is left to a task.
Hand(i, entry) ==
    CASE bc[i] \notin {"ready", "back"} -> [bc |-> bc[i], queue |-> queue[i]]
      [] bc[i] \in {"ready", "back"} /\ ~Listening(i) -> [bc |-> "removed", queue |-> queue[i]]
      [] bc[i] \in {"ready", "back"} /\ Listening(i) /\ Full(i) ->
           [bc |-> "lagging", queue |-> queue[i]]
      [] OTHER -> [bc |-> "ready", queue |-> Append(queue[i], entry)]

Broadcast(n, entry) ==
    /\ bc' = [i \in Subs |-> IF i \in Active /\ Source(i) = n THEN Hand(i, entry).bc ELSE bc[i]]
    /\ queue' = [i \in Subs |->
                   IF i \in Active /\ Source(i) = n THEN Hand(i, entry).queue ELSE queue[i]]

\* Mutant: the subscriber is not told.
SendLaggedSilently(i) ==
    /\ bc[i] = "lagging" /\ (Full(i) => ~Listening(i))
    /\ bc' = [bc EXCEPT ![i] = "reserving"]
    /\ UNCHANGED <<setup, coll, log, silent, done, alive, todo, permit, queue, sub, mirror, got, list>>

\* The task of a lagging subscriber: it sends Lagged, waits for room for one more
\* entry, returns the subscriber and then gives up the room.
SendLagged(i) ==
    /\ bc[i] = "lagging" /\ (Full(i) => ~Listening(i))
    /\ bc' = [bc EXCEPT ![i] = "reserving"]
    /\ queue' = [queue EXCEPT ![i] = IF Listening(i) THEN Append(@, Lagged) ELSE @]
    /\ UNCHANGED <<setup, coll, log, silent, done, alive, todo, permit, sub, mirror, got, list>>

ReturnReady(i) ==
    /\ bc[i] = "reserving" /\ ~permit[i] /\ (Full(i) => ~Listening(i))
    /\ bc' = [bc EXCEPT ![i] = IF SourceAlive(Source(i)) THEN "back" ELSE "removed"]
    /\ permit' = [permit EXCEPT ![i] = Listening(i)]
    /\ UNCHANGED <<setup, coll, log, silent, done, alive, todo, queue, sub, mirror, got, list>>

DropPermit(i) ==
    /\ permit[i]
    /\ permit' = [permit EXCEPT ![i] = FALSE]
    /\ UNCHANGED <<setup, coll, log, silent, done, alive, todo, bc, queue, sub, mirror, got, list>>

\* Some sender for the queue of the subscriber exists.
SenderHeld(i) ==
    IF Kind = "list"
    THEN /\ ~list.over
         /\ \/ \E k \in DOMAIN list.subs : list.subs[k].id = i
            \/ \E k \in DOMAIN list.dist : list.dist[k] = i
    ELSE \/ bc[i] \in {"lagging", "reserving"} \/ permit[i]
         \/ bc[i] \in {"ready", "back"} /\ SourceAlive(Source(i))

-----------------------------------------------------------------------------
(* The observable collection *)

\* The next change of a mutator is made and announced.
Announce(changes) ==
    /\ coll' = Head(changes).after
    /\ log' = Append(log, Head(changes).after)
    /\ todo' = Tail(changes)
    /\ IF Head(changes).event = Unannounced
       THEN silent' = silent \cup {Len(log) + 1} /\ UNCHANGED <<bc, queue>>
       ELSE Broadcast(0, Entry(Head(changes).event, Len(log) + 1)) /\ UNCHANGED silent
    /\ UNCHANGED <<setup, done, alive, permit, sub, mirror, got, list>>

Mutate ==
    /\ alive /\ ~done /\ todo = <<>> /\ Kind # "list"
    /\ Len(log) <= setup.changes
    /\ \E changes \in Mutations(Kind, coll) : Announce(changes)

\* A mutator that announces several events borrows the collection until it is finished.
MutateMore == todo # <<>> /\ Announce(todo)

\* Mutant: subscribers are not told.
MarkDoneSilently ==
    /\ "done" \in setup.ops /\ alive /\ ~done /\ todo = <<>>
    /\ done' = TRUE
    /\ UNCHANGED <<setup, coll, log, silent, alive, todo, bc, permit, queue, sub, mirror, got, list>>

MarkDone ==
    /\ "done" \in setup.ops /\ alive /\ ~done /\ todo = <<>>
    /\ done' = TRUE
    /\ IF Kind = "list"
       THEN /\ list' = [list EXCEPT !.reqs = Append(@, Done)]
            /\ UNCHANGED <<bc, queue>>
       ELSE Broadcast(0, Entry(Done, Len(log))) /\ UNCHANGED list
    /\ UNCHANGED <<setup, coll, log, silent, alive, todo, permit, sub, mirror, got>>

\* The collection is dropped, or taken out by into_inner.
DropCollection ==
    /\ "drop" \in setup.ops /\ alive /\ todo = <<>>
    /\ alive' = FALSE
    /\ UNCHANGED <<setup, coll, log, silent, done, todo, bc, permit, queue, sub, mirror, got, list>>

-----------------------------------------------------------------------------
(* Subscriptions *)

\* The collection or mirror that is observed, as subscribe finds it; since is the index in
\* log of the contents that it goes back to.
Observed(n) ==
    IF n = 0 THEN [v |-> coll, done |-> done, pos |-> Len(log), since |-> Len(log), late |-> FALSE]
    ELSE [v |-> mirror[n].v, done |-> mirror[n].done, pos |-> mirror[n].pos,
          since |-> sub[n].since, late |-> sub[n].late]

MaySubscribe(i) ==
    /\ i \in Active /\ ~sub[i].on
    /\ IF Source(i) = 0 THEN alive /\ todo = <<>>
       ELSE mirror[Source(i)].state \in {"run", "stopped"} /\ mirror[Source(i)].error = "none"

\* subscribe and subscribe_incremental, of a collection or of a mirror, followed by mirror.
\* The subscription of a collection that is done has no events.
Subscribe(i, mode, buildUp) ==
    LET o == Observed(Source(i))
        incremental == mode = "incremental"
    IN /\ MaySubscribe(i)
       /\ sub' = [sub EXCEPT ![i] =
             [NoSub EXCEPT !.on = TRUE, !.mode = mode, !.open = ~o.done, !.base = o.pos,
                           !.since = o.since,
                           !.complete = ~incremental,
                           !.len = Len(buildUp), !.pending = buildUp,
                           !.late = o.late \/ (incremental /\ o.done)]]
       /\ mirror' = [mirror EXCEPT ![i] =
             [NoMirror EXCEPT !.state = "run",
                              !.v = IF incremental THEN EmptyOf(Kind) ELSE o.v,
                              !.complete = ~incremental, !.done = o.done,
                              !.pos = IF incremental THEN 0 ELSE o.pos]]
       /\ bc' = [bc EXCEPT ![i] = IF o.done THEN "none" ELSE "ready"]
       /\ UNCHANGED <<setup, coll, log, silent, done, alive, todo, permit, queue, got, list>>

SubscribeValue(i) ==
    "value" \in setup.modes[i] /\ Kind # "list" /\ Subscribe(i, "value", <<>>)

SubscribeIncremental(i) ==
    /\ "incremental" \in setup.modes[i] /\ MaySubscribe(i) /\ Kind # "list"
    /\ \E b \in BuildUp(Kind, Observed(Source(i)).v) : Subscribe(i, "incremental", b)

\* A receiver of the broadcast channel itself, which reads on after a Lagged notice.
SubscribeRaw(i) ==
    "raw" \in setup.modes[i] /\ Kind # "list" /\ ~done /\ Subscribe(i, "raw", <<>>)

\* The connection to the subscriber is lost, together with the entries under way.
LoseConnection(i) ==
    /\ "lose" \in setup.ops /\ Running(i) /\ ~sub[i].lost
    /\ \E n \in 0..Len(queue[i]), m \in 0..Len(sub[i].pending) :
         /\ queue' = [queue EXCEPT ![i] = Append(SubSeq(@, 1, n), Lost)]
         /\ sub' = [sub EXCEPT ![i].pending = SubSeq(@, 1, m), ![i].lost = TRUE]
    /\ UNCHANGED <<setup, coll, log, silent, done, alive, todo, bc, permit, mirror, got, list>>

\* What recv provides next: an entry, and the subscription and its queue afterwards.
\* A failure is an entry with an error as its event, the end of events "None".
Provide(entry, s, q) == {[entry |-> entry, sub |-> s, queue |-> q]}
Failure(error) == Entry(ValueEvent("Error", error), 0)
Failed(e) == e.op = "Error"

RecvInitial(i) ==
    LET s == sub[i]
    IN CASE s.len > 0 /\ s.pending # <<>> ->
              Provide(Entry(Head(s.pending), 0),
                      [s EXCEPT !.len = @ - 1, !.pending = Tail(@)], queue[i])
         [] s.len > 0 /\ s.pending = <<>> -> Provide(Failure("Lost"), s, queue[i])
         [] OTHER -> Provide(Entry(InitialComplete, s.base), [s EXCEPT !.complete = TRUE], queue[i])

RecvDone(i, s, q) ==
    IF s.done THEN Provide(Entry(Event("None"), 0), s, q)
    ELSE Provide(Entry(Done, 0), [s EXCEPT !.done = TRUE], q)

\* Mutant: the end of the channel is taken for the Done event.
RecvEventEndIsDone(i) ==
    LET s == sub[i]
        q == queue[i]
    IN CASE ~s.open \/ (q = <<>> /\ ~SenderHeld(i)) -> RecvDone(i, s, q)
         [] s.open /\ q = <<>> /\ SenderHeld(i) -> {}
         [] s.open /\ q # <<>> /\ Head(q) = Lagged -> Provide(Failure("Lagged"), s, Tail(q))
         [] s.open /\ q # <<>> /\ Head(q) = Lost -> Provide(Failure("Lost"), s, q)
         [] s.open /\ q # <<>> /\ Head(q).event = Done ->
              RecvDone(i, [s EXCEPT !.open = FALSE], Tail(q))
         [] OTHER -> Provide(Head(q), s, Tail(q))

RecvEvent(i) ==
    LET s == sub[i]
        q == queue[i]
        head == Head(q).event
    IN CASE ~s.open -> RecvDone(i, s, q)
         [] s.open /\ q = <<>> -> IF SenderHeld(i) THEN {} ELSE Provide(Failure("Closed"), s, q)
         [] s.open /\ q # <<>> /\ head.op = "Lagged" -> Provide(Failure("Lagged"), s, Tail(q))
         [] s.open /\ q # <<>> /\ head.op = "Lost" -> Provide(Failure("Lost"), s, q)
         [] s.open /\ q # <<>> /\ head = Done -> RecvDone(i, [s EXCEPT !.open = FALSE], Tail(q))
         [] OTHER -> Provide(Head(q), s, Tail(q))

\* ListSubscription::recv; len counts the items that are missing from the initial ones.
RecvList(i) ==
    LET s == sub[i]
        q == queue[i]
    IN CASE s.len = 0 /\ ~s.complete ->
              Provide(Entry(InitialComplete, s.base), [s EXCEPT !.complete = TRUE], q)
         [] s.len # 0 \/ s.complete ->
              {[r EXCEPT !.sub.len = IF r.entry.event.op = "Push" /\ @ > 0 THEN @ - 1 ELSE @] :
                 r \in RecvEvent(i)}

Recv(i) ==
    CASE Kind = "list" -> RecvList(i)
      [] Kind # "list" /\ ~sub[i].complete -> RecvInitial(i)
      [] OTHER -> RecvEvent(i)

-----------------------------------------------------------------------------
(* Mirrors *)

\* handle_event with the events that every collection has.
Handle(m, entry) ==
    LET e == entry.event
        applied == HandleEvent(Kind, m.v, e, setup.maxSize)
        pos == IF entry.at > 0 THEN entry.at ELSE m.pos
    IN CASE e = Done -> [m EXCEPT !.done = TRUE, !.pos = pos]
         [] e = InitialComplete -> [m EXCEPT !.complete = TRUE, !.pos = pos]
         [] OTHER -> [m EXCEPT !.v = applied.contents, !.error = applied.error, !.pos = pos]

\* The task ends with an error, and once the mirror is done.
Stopped(m) == [m EXCEPT !.state = IF m.error # "none" \/ m.done THEN "stopped" ELSE @]

\* One turn of the loop of the mirror task: an event is passed on to the
\* subscribers of the mirror and then applied.
MirrorEvent(i) ==
    /\ Running(i) /\ sub[i].mode # "raw"
    /\ \E r \in Recv(i) :
         LET e == r.entry.event
             next == CASE Failed(e) -> [mirror[i] EXCEPT !.error = e.value]
                       [] e.op = "None" -> [mirror[i] EXCEPT !.state = "stopped"]
                       [] OTHER -> Handle(mirror[i], r.entry)
             others == {j \in Active : Source(j) = i /\ ~Failed(e) /\ e.op # "None"}
         IN /\ mirror' = [mirror EXCEPT ![i] = Stopped(next)]
            /\ sub' = [sub EXCEPT ![i] = r.sub]
            /\ bc' = [j \in Subs |-> IF j \in others THEN Hand(j, r.entry).bc ELSE bc[j]]
            /\ queue' = [j \in Subs |-> CASE j = i -> r.queue
                                          [] j \in others -> Hand(j, r.entry).queue
                                          [] OTHER -> queue[j]]
    /\ UNCHANGED <<setup, coll, log, silent, done, alive, todo, permit, got, list>>

\* broadcast::Receiver::recv by somebody who goes on after a Lagged notice.
RawEvent(i) ==
    /\ Running(i) /\ sub[i].mode = "raw"
    /\ \E r \in RecvEvent(i) :
         /\ got' = [got EXCEPT ![i] = Append(@, r.entry.at)]
         /\ queue' = [queue EXCEPT ![i] = r.queue]
         /\ mirror' = [mirror EXCEPT ![i].state =
                         IF Failed(r.entry.event) /\ r.entry.event.value # "Lagged" THEN "stopped" ELSE @]
    /\ UNCHANGED <<setup, coll, log, silent, done, alive, todo, bc, permit, sub, list>>

\* The mirror is dropped or detached; its task notices before it takes the next event.
DropMirror(i) ==
    /\ "drop_mirror" \in setup.ops /\ Running(i)
    /\ mirror' = [mirror EXCEPT ![i].state = "gone"]
    /\ UNCHANGED <<setup, coll, log, silent, done, alive, todo, bc, permit, queue, sub, got, list>>

-----------------------------------------------------------------------------
(* The task of an observable list *)

\* The beginning of a turn: subscribers that are finished are let go once no
\* more items can arrive, and closed calls are answered when none is left.
Settled(l) ==
    LET Stays(s) == IF l.done THEN ~s.done ELSE s.pos < Len(l.buffer)
        subs == IF l.ended THEN SelectSeq(l.subs, Stays) ELSE l.subs
        answer == subs = <<>> /\ l.notify
    IN [l EXCEPT !.subs = subs, !.notify = @ /\ ~answer,
                 !.closed = IF answer THEN "returned" ELSE @]

\* Positions of the subscribers that an item or Done is to be sent to.
Due == {k \in DOMAIN list.subs : \/ list.subs[k].pos < Len(list.buffer)
                                 \/ list.done /\ ~list.subs[k].done}

ListPush ==
    /\ Kind = "list" /\ alive /\ ~done /\ Len(log) <= setup.changes
    /\ \E x \in Values :
         /\ coll' = Append(coll, x)
         /\ log' = Append(log, Append(coll, x))
         /\ list' = [list EXCEPT !.reqs = Append(@, ValueEvent("Push", x))]
    /\ UNCHANGED <<setup, silent, done, alive, todo, bc, permit, queue, sub, mirror, got>>

\* ObservableList::borrow asks the task for the buffer and keeps it locked.  Once, as
\* an application that borrows again and again keeps the task from its other work.
ListBorrow ==
    /\ Kind = "list" /\ "borrow" \in setup.ops /\ alive
    /\ list.guard = "unused"
    /\ list' = [list EXCEPT !.reqs = Append(@, Event("Borrow")), !.guard = "requested"]
    /\ UNCHANGED <<setup, coll, log, silent, done, alive, todo, bc, permit, queue, sub, mirror, got>>

ListRelease ==
    /\ list.guard = "held"
    /\ list' = [list EXCEPT !.guard = "returned"]
    /\ UNCHANGED <<setup, coll, log, silent, done, alive, todo, bc, permit, queue, sub, mirror, got>>

\* ObservableListDistributor::subscribe, also through the list itself.
ListSubscribe(i) ==
    /\ Kind = "list" /\ i \in Active /\ ~sub[i].on /\ list.distributor
    /\ list' = [list EXCEPT !.dist = Append(@, i)]
    /\ sub' = [sub EXCEPT ![i] = [NoSub EXCEPT !.on = TRUE, !.mode = "incremental", !.open = TRUE,
                                               !.len = Len(coll), !.base = Len(log)]]
    /\ mirror' = [mirror EXCEPT ![i] = [NoMirror EXCEPT !.state = "run"]]
    /\ UNCHANGED <<setup, coll, log, silent, done, alive, todo, bc, permit, queue, got>>

\* ObservableListDistributor::closed
ListClosed ==
    /\ Kind = "list" /\ "closed" \in setup.ops /\ list.distributor /\ list.closed = "no"
    /\ list' = [list EXCEPT !.closed = "waiting", !.dist = Append(@, 0)]
    /\ UNCHANGED <<setup, coll, log, silent, done, alive, todo, bc, permit, queue, sub, mirror, got>>

DropDistributor ==
    /\ Kind = "list" /\ ~alive /\ list.distributor
    /\ list' = [list EXCEPT !.distributor = FALSE]
    /\ UNCHANGED <<setup, coll, log, silent, done, alive, todo, bc, permit, queue, sub, mirror, got>>

TaskReady == Kind = "list" /\ ~list.over /\ list.guard # "held"
ReqsWait == list.reqs # <<>> \/ (~alive /\ ~list.ended)
DistWaits == list.dist # <<>> \/ (~list.distributor /\ ~list.distEnded)

TaskRequest ==
    /\ TaskReady /\ ReqsWait
    /\ LET rest == [list EXCEPT !.reqs = IF @ = <<>> THEN @ ELSE Tail(@)]
       IN list' = IF list.reqs = <<>> THEN Settled([rest EXCEPT !.ended = TRUE])
                  ELSE LET req == Head(list.reqs)
                       IN CASE req = Event("Borrow") -> [rest EXCEPT !.guard = "held"]
                            [] req = Done -> Settled([rest EXCEPT !.done = TRUE])
                            [] OTHER -> Settled([rest EXCEPT !.buffer = Append(@, req.value)])
    /\ UNCHANGED <<setup, coll, log, silent, done, alive, todo, bc, permit, queue, sub, mirror, got>>

TaskDistribute ==
    /\ TaskReady /\ ~ReqsWait /\ DistWaits
    /\ list' = Settled(
         IF list.dist = <<>> THEN [list EXCEPT !.distEnded = TRUE]
         ELSE LET req == Head(list.dist)
                  rest == [list EXCEPT !.dist = Tail(@)]
              IN IF req = 0 THEN [rest EXCEPT !.notify = TRUE]
                 ELSE [rest EXCEPT !.subs = Append(@, [id |-> req, pos |-> 0, done |-> FALSE])])
    /\ UNCHANGED <<setup, coll, log, silent, done, alive, todo, bc, permit, queue, sub, mirror, got>>

\* A subscriber has room for the next item or has gone away.
TaskPermit ==
    /\ TaskReady /\ ~ReqsWait /\ ~DistWaits
    /\ \E k \in Due :
         LET s == list.subs[k]
             n == s.pos + 1
             at == n + 1 - Len(setup.initial)
         IN \/ /\ Listening(s.id) /\ Len(queue[s.id]) < setup.buffer
               /\ queue' = [queue EXCEPT ![s.id] = Append(@,
                     IF s.pos < Len(list.buffer)
                     THEN Entry(ValueEvent("Push", list.buffer[n]), IF at > 0 THEN at ELSE 0)
                     ELSE Entry(Done, Len(log)))]
               /\ list' = Settled(IF s.pos < Len(list.buffer)
                                  THEN [list EXCEPT !.subs[k].pos = n]
                                  ELSE [list EXCEPT !.subs[k].done = TRUE])
            \/ /\ ~Listening(s.id)
               /\ list' = Settled([list EXCEPT !.subs =
                     IF k = Len(@) THEN Front(@) ELSE SwapDropBack(@, k - 1)])
               /\ UNCHANGED queue
    /\ UNCHANGED <<setup, coll, log, silent, done, alive, todo, bc, permit, sub, mirror, got>>

TaskEnd ==
    /\ TaskReady /\ ~ReqsWait /\ ~DistWaits /\ list.ended /\ list.distEnded /\ Due = {}
    /\ list' = [list EXCEPT !.over = TRUE, !.subs = <<>>]
    /\ UNCHANGED <<setup, coll, log, silent, done, alive, todo, bc, permit, queue, sub, mirror, got>>

-----------------------------------------------------------------------------
Owner == Mutate \/ MarkDone \/ DropCollection \/ ListPush \/ ListBorrow \/ ListClosed \/ DropDistributor
LaggingTask(i) == SendLagged(i) \/ ReturnReady(i) \/ DropPermit(i)
MirrorTask(i) == MirrorEvent(i) \/ RawEvent(i)
ListTask == TaskRequest \/ TaskDistribute \/ TaskPermit \/ TaskEnd

Next ==
    \/ Owner \/ MutateMore \/ ListRelease \/ ListTask
    \/ \E i \in Active :
         \/ SubscribeValue(i) \/ SubscribeIncremental(i) \/ SubscribeRaw(i) \/ ListSubscribe(i)
         \/ LoseConnection(i) \/ LaggingTask(i) \/ MirrorTask(i) \/ DropMirror(i)

Spec == Init /\ [][Next]_vars

\* Spawned tasks keep running, a mutator returns and a borrowed list is given back.
Fairness ==
    /\ WF_vars(MutateMore \/ ListRelease) /\ WF_vars(ListTask)
    /\ \A i \in Subs : WF_vars(i \in Active /\ LaggingTask(i)) /\ WF_vars(i \in Active /\ MirrorTask(i))
FairSpec == Spec /\ Fairness

-----------------------------------------------------------------------------
(* Properties *)

Sound(i) == mirror[i].state \in {"run", "stopped"} /\ mirror[i].error = "none"

\* Keys of a hash map whose values have changed without an event, up to position n and
\* after the contents that the mirror goes back to.
Untold(i, n) ==
    UNION {{key \in DOMAIN log[k] : log[k - 1][key] # log[k][key]} :
             k \in {l \in silent : sub[i].since < l /\ l <= n}}

\* The mirror has the contents that the collection had at position n; only the value of
\* a key may differ that was changed without an event.
Mirrors(i, n) ==
    LET v == mirror[i].v
    IN \/ v = log[n]
       \/ /\ Untold(i, n) # {} /\ DOMAIN v = DOMAIN log[n]
          /\ \A key \in DOMAIN v \ Untold(i, n) : v[key] = log[n][key]

\* A mirror without an error has contents that the collection had: those after
\* the last event the mirror has handled, all earlier ones included.  Only the values
\* that HashMap retain has changed, of which no event is sent, may be older.
MirrorIsSnapshot ==
    \A i \in Subs : Sound(i) /\ sub[i].mode # "raw" /\ mirror[i].pos > 0
                      => Mirrors(i, mirror[i].pos)

\* A mirror that is done and complete has the final contents of the collection, and
\* the collection really was marked as done.  Mirrors that go back to an incremental
\* subscription of a collection that was already done are left out, and values that
\* HashMap retain has changed may be older.
DoneIsFinal ==
    \A i \in Subs : Sound(i) /\ mirror[i].done /\ mirror[i].complete /\ ~sub[i].late
                      => done /\ Mirrors(i, Len(log))

\* "The observable hash map sends a change event each time a change is performed on it."
\* (hash_map.rs:4): a mirror of a collection at rest that has handled all events has the
\* contents of the collection.
ChangesAreAnnounced ==
    \A i \in Active : (/\ Sound(i) /\ mirror[i].complete /\ Source(i) = 0 /\ bc[i] = "ready"
                       /\ queue[i] = <<>> /\ todo = <<>>)
                      => mirror[i].v = coll

\* What is_done of a mirror promises: the collection was marked as done and no further
\* changes can occur.  A mirror whose task has ended that way has the final contents.
DoneMirrorIsFinal ==
    \A i \in Subs : Sound(i) /\ mirror[i].state = "stopped" /\ mirror[i].done
                      => mirror[i].v = coll

\* A mirror fails for a reason: it has missed events, it has outgrown its limit, or
\* the collection, the mirror that it observes or the connection is gone.  It never
\* meets a position that does not exist.
ErrorHasCause ==
    \A i \in Active : LET m == mirror[i] IN
        /\ m.error # "InvalidIndex"
        /\ m.error = "Closed" => ~SourceAlive(Source(i))
        /\ m.error = "Lagged" => Len(log) + (IF done THEN 1 ELSE 0) > m.pos
        /\ m.error = "Lost" => sub[i].lost

\* A broadcast receiver never misses a value silently: between two values that do
\* not follow each other it is told that it lagged.
GapsAreReported ==
    \A i \in Subs : \A k \in 1..(Len(got[i]) - 1) :
        got[i][k] > 0 /\ got[i][k + 1] > 0 => got[i][k + 1] = got[i][k] + 1

\* Once a collection is done or has been dropped, every mirror gets to know.
MirrorSettles ==
    \A i \in Subs : (sub[i].mode # "raw" /\ Running(i) /\ (done \/ ~alive)) ~> ~Running(i)

\* closed of an observable list returns once the list is done and every subscriber
\* has received all of it.
ListClosedReturns ==
    (list.closed = "waiting" /\ done /\ (\A i \in Active : sub[i].on /\ ~Running(i)))
        ~> list.closed = "returned"
=============================================================================
