------------------------------- MODULE RwLock -------------------------------
(***************************************************************************)
(* The remote read/write lock of robj: the task of the Owner, the RwLocks  *)
(* on the endpoints with the values they cache, and the tasks that read    *)
(* and write through them.                                                 *)
(*                                                                         *)
(* A value is handed out together with an invalidation channel and a clone *)
(* of a channel whose end tells the owner that all copies are gone.  Both  *)
(* are replaced for every write: an epoch.  Requests and answers travel    *)
(* independently.  A value is the number of writes it contains.            *)
(***************************************************************************)
EXTENDS Integers, FiniteSets, Sequences

CONSTANTS
    Tasks,       \* tasks that use the locks
    Locks,       \* RwLocks, each with a cache that its clones share
    Setups,      \* what the tasks do and what can go wrong
    None

\* lock: the lock of each task; reads, writes: bounds on the calls of each task;
\* faults: what happens besides.
ASSUME RwLockAssumption ==
    /\ None \notin Tasks
    /\ None \notin {"sent", "lost", "held", "committed", "released"}
    /\ None \notin [value : Nat, epoch : Nat]
    /\ \A c \in Setups :
         /\ c.lock \in [Tasks -> Locks]
         /\ c.reads \in [Tasks -> Nat] /\ c.writes \in [Tasks -> Nat]
         /\ c.faults \subseteq {"cancel", "transfer", "lose", "drop"}

VARIABLES
    setup,
    reads, writes, \* calls of each task that are left
    task,          \* what each task does
    held,          \* the value in the guard of each task
    untransferred, \* history: tasks in a call of which something could not be transferred
    link,          \* the connection of each lock to the owner: "up", "down", "noticed"
    cache,         \* the cached Value of each lock
    seen,          \* epochs that each lock knows to be invalid
    queue,         \* those who wait for the cache of each lock, in order
    monitors,      \* epochs whose invalidation a task at each lock waits for
    readReqs,      \* read requests that the owner has not answered
    answers,       \* answers to them under way
    writeReqs,     \* write requests the owner has not received
    orphans,       \* number of those whose writers have given up
    confirms,      \* confirmations under way
    owner,         \* what the owner does: "serving", "draining", "writing", "gone"
    writer,        \* the task whose write request the owner handles
    grant,         \* what became of the value sent to it
    value,         \* the shared value
    epoch,         \* epoch of the values handed out
    errors         \* errors that read, write and commit returned

taskVars == <<setup, reads, writes, task, held, untransferred, errors>>
lockVars == <<link, cache, seen, queue, monitors>>
netVars == <<readReqs, answers, writeReqs, orphans, confirms>>
ownerVars == <<owner, writer, grant, value, epoch>>
vars == <<taskVars, lockVars, netVars, ownerVars>>

Init ==
    /\ setup \in Setups
    /\ reads = setup.reads /\ writes = setup.writes
    /\ task = [t \in Tasks |-> "idle"] /\ held = [t \in Tasks |-> None]
    /\ untransferred = {} /\ errors = {}
    /\ link = [l \in Locks |-> "up"]
    /\ cache = [l \in Locks |-> None] /\ seen = [l \in Locks |-> {}]
    /\ queue = [l \in Locks |-> <<>>] /\ monitors = [l \in Locks |-> {}]
    /\ readReqs = {} /\ answers = {} /\ writeReqs = {} /\ orphans = 0 /\ confirms = {}
    /\ owner = "serving" /\ writer = None /\ grant = None
    /\ value = 0 /\ epoch = 0

-----------------------------------------------------------------------------

LockOf(t) == setup.lock[t]
At(l) == {t \in Tasks : LockOf(t) = l}
Up(t) == link[LockOf(t)] = "up"

\* The cache of a lock is a tokio RwLock: first come, first served.
Readers(l) == {t \in At(l) : task[t] = "reading"}
Fetching(l) == {t \in At(l) : task[t] = "asked"}
Wait(l, who) == queue' = [queue EXCEPT ![l] = Append(@, who)]
ReadWaits(t) == [who |-> t, mode |-> "read"]
WriteWaits(t) == [who |-> t, mode |-> "write"]
MonitorWaits(e) == [who |-> e, mode |-> "monitor"]
\* A task waits for the cache at most once.
Without(s, t) ==
    LET Mine == {i \in 1..Len(s) : s[i] \in {ReadWaits(t), WriteWaits(t)}}
        k == CHOOSE i \in Mine : TRUE
    IN  IF Mine = {} THEN s ELSE [i \in 1..(Len(s) - 1) |-> IF i < k THEN s[i] ELSE s[i + 1]]
IsFirst(l, w) == queue[l] # <<>> /\ Head(queue[l]) = w
Served(l) == queue' = [queue EXCEPT ![l] = Tail(@)]

\* Value::is_valid of the cached value.
Valid(l) == cache[l] # None /\ cache[l].epoch \notin seen[l]

Goes(t, st) ==
    /\ task' = [task EXCEPT ![t] = st]
    /\ untransferred' = untransferred \ {t}

\* The Owner is gone, the connection is lost, or the request, the value or the confirmation
\* of the call could not be transferred.
Excused(t) == owner = "gone" \/ ~Up(t) \/ t \in untransferred
Fails(t, call) ==
    /\ Goes(t, "idle")
    /\ errors' = errors \cup {[call |-> call, excused |-> Excused(t)]}

-----------------------------------------------------------------------------
(* Reading *)

\* read: waits for the cache.
Read(t) ==
    /\ task[t] = "idle" /\ reads[t] > 0
    /\ reads' = [reads EXCEPT ![t] = @ - 1]
    /\ Goes(t, "reader")
    /\ Wait(LockOf(t), ReadWaits(t))
    /\ UNCHANGED <<setup, writes, held, errors, link, cache, seen, monitors, netVars, ownerVars>>

\* fetch: the cached value is returned if it is valid, otherwise the cache is locked.
ReadCache(t) ==
    LET l == LockOf(t) IN
    /\ IsFirst(l, ReadWaits(t)) /\ Fetching(l) = {}
    /\ IF Valid(l)
       THEN /\ Goes(t, "reading")
            /\ held' = [held EXCEPT ![t] = cache[l].value]
            /\ Served(l)
       ELSE /\ queue' = [queue EXCEPT ![l] = Append(Tail(@), WriteWaits(t))]
            /\ UNCHANGED <<task, held, untransferred>>
    /\ UNCHANGED <<setup, reads, writes, errors, link, cache, seen, monitors, netVars, ownerVars>>

\* fetch: the cache is locked and the value requested.
RequestValue(t) ==
    LET l == LockOf(t) IN
    /\ IsFirst(l, WriteWaits(t)) /\ Fetching(l) = {} /\ Readers(l) = {}
    /\ Served(l)
    /\ Goes(t, "asked")
    /\ readReqs' = IF Up(t) /\ owner # "gone" THEN readReqs \cup {t} ELSE readReqs
    /\ UNCHANGED <<setup, reads, writes, held, errors, link, cache, seen, monitors,
                   answers, writeReqs, orphans, confirms, ownerVars>>

\* fetch: the value is stored in the cache and its monitor is started.
ReceiveValue(a) ==
    LET t == a.task  l == LockOf(t) IN
    /\ a \in answers
    /\ answers' = answers \ {a}
    /\ cache' = [cache EXCEPT ![l] = [value |-> a.value, epoch |-> a.epoch]]
    /\ monitors' = [monitors EXCEPT ![l] = @ \cup {a.epoch}]
    /\ Goes(t, "reading")
    /\ held' = [held EXCEPT ![t] = a.value]
    /\ UNCHANGED <<setup, reads, writes, errors, link, seen, queue,
                   readReqs, writeReqs, orphans, confirms, ownerVars>>

\* fetch: no answer will come.
ReadFails(t) ==
    /\ task[t] = "asked"
    /\ \/ link[LockOf(t)] = "noticed"
       \/ Up(t) /\ t \notin readReqs /\ \A a \in answers : a.task # t
    /\ Fails(t, "read")
    /\ UNCHANGED <<setup, reads, writes, held, lockVars, netVars, ownerVars>>

\* ReadGuard::drop
DropReadGuard(t) ==
    /\ task[t] = "reading"
    /\ Goes(t, "idle")
    /\ held' = [held EXCEPT ![t] = None]
    /\ UNCHANGED <<setup, reads, writes, errors, lockVars, netVars, ownerVars>>

\* The future of read is dropped.  A request that nobody waits for has no effect.
CancelRead(t) ==
    LET l == LockOf(t) IN
    /\ "cancel" \in setup.faults /\ task[t] \in {"reader", "asked"}
    /\ Goes(t, "idle")
    /\ queue' = [queue EXCEPT ![l] = Without(@, t)]
    /\ readReqs' = readReqs \ {t}
    /\ answers' = {a \in answers : a.task # t}
    /\ UNCHANGED <<setup, reads, writes, held, errors, link, cache, seen, monitors,
                   writeReqs, orphans, confirms, ownerVars>>

-----------------------------------------------------------------------------
(* Invalidation at a lock *)

\* A lock gets to know that its cached value is invalid: by the invalidation channel, by
\* the end of the channel for dropped values, or by the loss of the connection.
Invalidated(l) ==
    /\ Valid(l)
    /\ \/ link[l] = "noticed"
       \/ link[l] = "up" /\ (owner = "gone" \/ cache[l].epoch < epoch \/ owner = "draining")
    /\ seen' = [seen EXCEPT ![l] = @ \cup {cache[l].epoch}]
    /\ UNCHANGED <<taskVars, link, cache, queue, monitors, netVars, ownerVars>>

\* Mutant: the monitor of a value ends when it becomes invalid.
MonitorWakesNot(l, e) ==
    /\ e \in monitors[l]
    /\ e \in seen[l] \/ link[l] = "noticed" \/ (link[l] = "up" /\ owner = "gone")
    /\ monitors' = [monitors EXCEPT ![l] = @ \ {e}]
    /\ UNCHANGED <<taskVars, link, cache, seen, queue, netVars, ownerVars>>

\* The monitor of a value learns that it is invalid, or that the invalidation channel
\* has ended, and waits for the cache.
MonitorWakes(l, e) ==
    /\ e \in monitors[l]
    /\ e \in seen[l] \/ link[l] = "noticed" \/ (link[l] = "up" /\ owner = "gone")
    /\ monitors' = [monitors EXCEPT ![l] = @ \ {e}]
    /\ Wait(l, MonitorWaits(e))
    /\ UNCHANGED <<taskVars, link, cache, seen, netVars, ownerVars>>

\* Mutant: the monitor does not wait for the guards.
MonitorClearsHeld(l) ==
    /\ queue[l] # <<>> /\ Head(queue[l]).mode = "monitor"
    /\ Fetching(l) = {}
    /\ Served(l)
    /\ cache' = IF Valid(l) THEN cache ELSE [cache EXCEPT ![l] = None]
    /\ UNCHANGED <<taskVars, link, seen, monitors, netVars, ownerVars>>

\* The monitor has the cache: an invalid value is removed.
MonitorClears(l) ==
    /\ queue[l] # <<>> /\ Head(queue[l]).mode = "monitor"
    /\ Fetching(l) = {} /\ Readers(l) = {}
    /\ Served(l)
    /\ cache' = IF Valid(l) THEN cache ELSE [cache EXCEPT ![l] = None]
    /\ UNCHANGED <<taskVars, link, seen, monitors, netVars, ownerVars>>

-----------------------------------------------------------------------------
(* Writing *)

\* write: the request is sent.
Write(t) ==
    /\ task[t] = "idle" /\ writes[t] > 0
    /\ writes' = [writes EXCEPT ![t] = @ - 1]
    /\ Goes(t, "writer")
    /\ writeReqs' = IF Up(t) /\ owner # "gone" THEN writeReqs \cup {t} ELSE writeReqs
    /\ UNCHANGED <<setup, reads, held, errors, lockVars, readReqs, answers, orphans, confirms,
                   ownerVars>>

\* write: the value arrives and the guard is made.
ReceiveGrant(t) ==
    /\ task[t] = "writer" /\ writer = t /\ grant = "sent"
    /\ Goes(t, "writing")
    /\ held' = [held EXCEPT ![t] = value]
    /\ grant' = "held"
    /\ UNCHANGED <<setup, reads, writes, errors, lockVars, netVars, owner, writer, value, epoch>>

\* What becomes of the write the owner handles when its writer goes away.
LetGo == writer' = None /\ grant' = IF owner = "writing" THEN "released" ELSE grant

\* write: no value will come.
WriteFails(t) ==
    /\ task[t] = "writer"
    /\ \/ link[LockOf(t)] = "noticed"
       \/ Up(t) /\ t \notin writeReqs /\ ~(writer = t /\ (owner # "gone" \/ grant = "sent"))
       \/ writer = t /\ grant = "lost"
    /\ Fails(t, "write")
    /\ IF writer = t THEN LetGo ELSE UNCHANGED <<writer, grant>>
    /\ UNCHANGED <<setup, reads, writes, held, lockVars, netVars, owner, value, epoch>>

\* The future of write is dropped: the request stays.
CancelWrite(t) ==
    /\ "cancel" \in setup.faults /\ task[t] = "writer"
    /\ Goes(t, "idle")
    /\ writeReqs' = writeReqs \ {t}
    /\ orphans' = IF t \in writeReqs THEN orphans + 1 ELSE orphans
    /\ IF writer = t THEN LetGo ELSE UNCHANGED <<writer, grant>>
    /\ UNCHANGED <<setup, reads, writes, held, errors, lockVars, readReqs, answers, confirms,
                   owner, value, epoch>>

\* WriteGuard::drop
DropWriteGuard(t) ==
    /\ task[t] = "writing"
    /\ Goes(t, "idle")
    /\ held' = [held EXCEPT ![t] = None]
    /\ IF writer = t THEN LetGo ELSE UNCHANGED <<writer, grant>>
    /\ UNCHANGED <<setup, reads, writes, errors, lockVars, netVars, owner, value, epoch>>

\* commit: the new value is sent.
Commit(t) ==
    /\ task[t] = "writing"
    /\ Goes(t, "committing")
    /\ held' = [held EXCEPT ![t] = None]
    /\ grant' = IF writer = t /\ owner = "writing" THEN "committed" ELSE grant
    /\ UNCHANGED <<setup, reads, writes, errors, lockVars, netVars, owner, writer, value, epoch>>

\* commit: the confirmation arrives.
Confirmed(t) ==
    /\ t \in confirms
    /\ confirms' = confirms \ {t}
    /\ Goes(t, "idle")
    /\ UNCHANGED <<setup, reads, writes, held, errors, lockVars,
                   readReqs, answers, writeReqs, orphans, ownerVars>>

\* commit: no confirmation will come.
CommitFails(t) ==
    /\ task[t] = "committing"
    /\ \/ link[LockOf(t)] = "noticed"
       \/ Up(t) /\ t \notin confirms /\ ~(writer = t /\ owner # "gone")
    /\ Fails(t, "commit")
    /\ UNCHANGED <<setup, reads, writes, held, lockVars, netVars, ownerVars>>

-----------------------------------------------------------------------------
(* Owner *)

\* Mutant: reads are answered at any time.
AnswerReadAlways(t) ==
    /\ owner # "gone" /\ t \in readReqs
    /\ readReqs' = readReqs \ {t}
    /\ answers' = answers \cup {[task |-> t, value |-> value, epoch |-> epoch]}
    /\ UNCHANGED <<taskVars, lockVars, writeReqs, orphans, confirms, ownerVars>>

\* owner_task: a read request is answered with the value and its channels.
AnswerRead(t) ==
    /\ owner = "serving" /\ t \in readReqs
    /\ readReqs' = readReqs \ {t}
    /\ answers' = answers \cup {[task |-> t, value |-> value, epoch |-> epoch]}
    /\ UNCHANGED <<taskVars, lockVars, writeReqs, orphans, confirms, ownerVars>>

\* owner_task: a write request invalidates the values handed out.
TakeWrite(t) ==
    /\ owner = "serving" /\ t \in writeReqs
    /\ writeReqs' = writeReqs \ {t}
    /\ owner' = "draining" /\ writer' = t
    /\ UNCHANGED <<taskVars, lockVars, readReqs, answers, orphans, confirms, grant, value, epoch>>

TakeOrphan ==
    /\ owner = "serving" /\ orphans > 0
    /\ orphans' = orphans - 1
    /\ owner' = "draining" /\ writer' = None
    /\ UNCHANGED <<taskVars, lockVars, readReqs, answers, writeReqs, confirms, grant, value, epoch>>

\* The copies of the current value at a lock or on the way to it.
Copies(l) ==
    \/ cache[l] # None /\ cache[l].epoch = epoch
    \/ \E a \in answers : LockOf(a.task) = l /\ a.epoch = epoch

\* owner_task: all copies are dropped, or out of reach.  The channels are replaced and
\* the value is sent to the writer.
Drained ==
    /\ owner = "draining"
    /\ \A l \in Locks : link[l] = "up" => ~Copies(l)
    /\ owner' = "writing"
    /\ epoch' = epoch + 1
    /\ grant' = IF writer = None THEN "released" ELSE "sent"
    /\ UNCHANGED <<taskVars, lockVars, netVars, writer, value>>

\* Mutant: the confirmation is forgotten.
StoreValueSilently ==
    /\ owner = "writing" /\ grant = "committed"
    /\ value' = value + 1
    /\ owner' = "serving" /\ writer' = None /\ grant' = None
    /\ UNCHANGED <<taskVars, lockVars, netVars, epoch>>

\* owner_task: the new value is stored and confirmed.
StoreValue ==
    /\ owner = "writing" /\ grant = "committed"
    /\ value' = value + 1
    /\ confirms' = IF writer = None THEN confirms ELSE confirms \cup {writer}
    /\ owner' = "serving" /\ writer' = None /\ grant' = None
    /\ UNCHANGED <<taskVars, lockVars, readReqs, answers, writeReqs, orphans, epoch>>

\* owner_task: no new value comes.
KeepValue ==
    /\ owner = "writing" /\ grant = "released"
    /\ owner' = "serving" /\ writer' = None /\ grant' = None
    /\ UNCHANGED <<taskVars, lockVars, netVars, value, epoch>>

-----------------------------------------------------------------------------
(* Transfers that fail: serialization, the size limit, deserialization *)

Untransferred(t) == "transfer" \in setup.faults /\ untransferred' = untransferred \cup {t}

\* owner_task: a request that cannot be received is skipped, and its channels are rejected.
SkipRequest(t) ==
    /\ t \in readReqs \cup writeReqs
    /\ Untransferred(t)
    /\ readReqs' = readReqs \ {t} /\ writeReqs' = writeReqs \ {t}
    /\ UNCHANGED <<setup, reads, writes, task, held, errors, lockVars, answers, orphans, confirms,
                   ownerVars>>

\* owner_task: the value does not reach the reader; the owner goes on.
AnswerLost(a) ==
    /\ a \in answers
    /\ Untransferred(a.task)
    /\ answers' = answers \ {a}
    /\ UNCHANGED <<setup, reads, writes, task, held, errors, lockVars, readReqs, writeReqs, orphans,
                   confirms, ownerVars>>

\* owner_task: the value does not reach the writer, for which the owner waits.
GrantLost ==
    /\ writer # None /\ grant = "sent"
    /\ Untransferred(writer)
    /\ grant' = "lost"
    /\ UNCHANGED <<setup, reads, writes, task, held, errors, lockVars, netVars, owner, writer,
                   value, epoch>>

\* commit: the new value does not reach the owner, which keeps the one it has.
CommitLost ==
    /\ writer # None /\ grant = "committed" /\ owner = "writing"
    /\ Untransferred(writer)
    /\ grant' = "released"
    /\ UNCHANGED <<setup, reads, writes, task, held, errors, lockVars, netVars, owner, writer,
                   value, epoch>>

\* owner_task: the new value is stored, but the confirmation does not arrive.
ConfirmationLost(t) ==
    /\ t \in confirms
    /\ Untransferred(t)
    /\ confirms' = confirms \ {t}
    /\ UNCHANGED <<setup, reads, writes, task, held, errors, lockVars, readReqs, answers, writeReqs,
                   orphans, ownerVars>>

-----------------------------------------------------------------------------
(* Owner and connections that go away *)

\* The Owner is dropped or into_inner is called: its task ends wherever it is.
DropOwner ==
    /\ "drop" \in setup.faults /\ owner # "gone"
    /\ owner' = "gone"
    /\ readReqs' = {} /\ writeReqs' = {} /\ orphans' = 0
    /\ UNCHANGED <<taskVars, lockVars, answers, confirms, writer, grant, value, epoch>>

\* The connection of a lock is lost, with everything under way.
Lose(l) ==
    /\ "lose" \in setup.faults /\ link[l] = "up"
    /\ link' = [link EXCEPT ![l] = "down"]
    /\ readReqs' = readReqs \ At(l)
    /\ answers' = {a \in answers : a.task \notin At(l)}
    /\ writeReqs' = writeReqs \ At(l)
    /\ confirms' = confirms \ At(l)
    /\ IF writer \in At(l) THEN LetGo ELSE UNCHANGED <<writer, grant>>
    /\ UNCHANGED <<taskVars, cache, seen, queue, monitors, orphans, owner, value, epoch>>

\* The endpoint of the lock notices the loss.
NoticeLoss(l) ==
    /\ link[l] = "down"
    /\ link' = [link EXCEPT ![l] = "noticed"]
    /\ UNCHANGED <<taskVars, cache, seen, queue, monitors, netVars, ownerVars>>

-----------------------------------------------------------------------------

Reading(t) == Read(t) \/ DropReadGuard(t) \/ CancelRead(t)
Writing(t) == Write(t) \/ DropWriteGuard(t) \/ Commit(t) \/ CancelWrite(t)
Fetch(t) == ReadCache(t) \/ RequestValue(t) \/ ReadFails(t) \/ \E a \in answers : a.task = t /\ ReceiveValue(a)
Await(t) == ReceiveGrant(t) \/ WriteFails(t) \/ Confirmed(t) \/ CommitFails(t)
Monitor(l) == Invalidated(l) \/ MonitorClears(l) \/ \E e \in monitors[l] : MonitorWakes(l, e)
OwnerTask ==
    \/ TakeOrphan \/ Drained \/ StoreValue \/ KeepValue
    \/ \E t \in Tasks : AnswerRead(t) \/ TakeWrite(t)

TransferFails ==
    \/ GrantLost \/ CommitLost
    \/ \E a \in answers : AnswerLost(a)
    \/ \E t \in Tasks : SkipRequest(t) \/ ConfirmationLost(t)

Next ==
    \/ \E t \in Tasks : Reading(t) \/ Writing(t) \/ Fetch(t) \/ Await(t)
    \/ \E l \in Locks : Monitor(l) \/ Lose(l) \/ NoticeLoss(l)
    \/ OwnerTask \/ TransferFails \/ DropOwner

Spec == Init /\ [][Next]_vars

\* All tasks run, guards are dropped or committed some time, losses are noticed.
Fairness ==
    /\ WF_vars(OwnerTask)
    /\ \A t \in Tasks : WF_vars(Fetch(t)) /\ WF_vars(Await(t)) /\ WF_vars(DropReadGuard(t))
                        /\ WF_vars(Commit(t) \/ DropWriteGuard(t))
    /\ \A l \in Locks : WF_vars(Monitor(l)) /\ WF_vars(NoticeLoss(l))
FairSpec == Spec /\ Fairness

-----------------------------------------------------------------------------
(* Properties *)

\* While a read guard is held, the shared value is the one it shows (rw_lock.rs:245), as
\* long as its endpoint is connected.
GuardIsCurrent == \A t \in Tasks : task[t] = "reading" /\ Up(t) => held[t] = value

\* Write access is exclusive: nobody else has a guard at an endpoint that is connected,
\* and the value to be changed is the current one, so that no write is lost.
WriteIsExclusive ==
    \A t \in Tasks : task[t] = "writing" /\ Up(t) =>
        /\ held[t] = value
        /\ \A u \in Tasks \ {t} : task[u] \in {"reading", "writing"} => ~Up(u)

\* read, write and commit fail only when the Owner is gone, the connection is lost or a
\* value of the call could not be transferred (rw_lock.rs:19-28, :407-409).
ErrorsHaveCause == \A r \in errors : r.excused

\* A value in the cache that the owner waits for is locked by a fetch, whose request the
\* owner will not answer.
FetchBlocksOwner(l) ==
    owner = "draining" /\ link[l] = "up" /\ Fetching(l) # {} /\ Copies(l)

\* Every read, write and commit returns, unless a fetch blocks the owner.
CallsReturn ==
    \A t \in Tasks :
        task[t] \in {"reader", "asked", "writer", "committing"} ~>
            (task[t] \in {"idle", "reading", "writing"} \/ \E l \in Locks : FetchBlocksOwner(l))

\* Write access is granted once all guards have been dropped (rw_lock.rs:368).
WriteIsGranted == \A t \in Tasks : task[t] = "writer" ~> task[t] # "writer"
=============================================================================
