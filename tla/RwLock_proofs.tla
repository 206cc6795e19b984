--------------------------- MODULE RwLock_proofs ---------------------------
(***************************************************************************)
(* What a guard of the remote read/write lock shows is the shared value,   *)
(* write access is exclusive, and calls fail only for a reason, for every  *)
(* number of tasks and locks and every course of calls and faults.         *)
(***************************************************************************)
EXTENDS RwLock, TLAPS

Value == [value : Nat, epoch : Nat]

TypeOK ==
    /\ setup \in Setups
    /\ reads \in [Tasks -> Nat] /\ writes \in [Tasks -> Nat]
    /\ task \in [Tasks -> {"idle", "reader", "asked", "reading", "writer", "writing",
                           "committing"}]
    /\ held \in [Tasks -> Nat \cup {None}]
    /\ untransferred \subseteq Tasks
    /\ link \in [Locks -> {"up", "down", "noticed"}]
    /\ cache \in [Locks -> Value \cup {None}]
    /\ seen \in [Locks -> SUBSET Nat]
    /\ monitors \in [Locks -> SUBSET Nat]
    /\ readReqs \subseteq Tasks
    /\ answers \subseteq [task : Tasks, value : Nat, epoch : Nat]
    /\ writeReqs \subseteq Tasks
    /\ orphans \in Nat
    /\ confirms \subseteq Tasks
    /\ owner \in {"serving", "draining", "writing", "gone"}
    /\ writer \in Tasks \cup {None}
    /\ grant \in {None, "sent", "lost", "held", "committed", "released"}
    /\ value \in Nat
    /\ epoch \in Nat

\* A copy of the shared value that nobody is changing.
Current(v) == v.value = value /\ v.epoch = epoch /\ grant = None

\* The value is granted to a writer after the owner has waited for all copies, and
\* before it serves the next request.
GrantFollowsOwner ==
    /\ owner \in {"serving", "draining"} => grant = None
    /\ owner = "writing" => grant # None

\* Answers are under way to connected locks only, and they are current.
AnswersCurrent ==
    /\ \A t \in readReqs : Up(t)
    /\ \A a \in answers : Up(a.task) /\ Current(a)

\* A connected lock has a current value or knows that its value is invalid ...
CachesCurrent ==
    \A l \in Locks : link[l] = "up" /\ cache[l] # None =>
        Current(cache[l]) \/ cache[l].epoch \in seen[l]

\* ... and while a guard shows its value, it is current.
ReadersCurrent ==
    \A t \in Tasks : task[t] = "reading" /\ Up(t) =>
        /\ held[t] = value
        /\ cache[LockOf(t)] # None
        /\ cache[LockOf(t)].epoch = epoch
        /\ grant = None

\* A connected task with a write guard is the one that the owner waits for.
WriterGranted ==
    \A t \in Tasks : task[t] = "writing" /\ Up(t) =>
        held[t] = value /\ writer = t /\ grant = "held"

Coherence ==
    GrantFollowsOwner /\ AnswersCurrent /\ CachesCurrent /\ ReadersCurrent /\ WriterGranted

-----------------------------------------------------------------------------

\* Who waits for the cache of a lock is a reader at it, and waits once.
Waiter == [who : Tasks \cup Nat, mode : {"read", "write", "monitor"}]
QueueOK(s, l) ==
    \A i \in 1..Len(s) : s[i].mode # "monitor" =>
        /\ s[i].who \in Tasks /\ LockOf(s[i].who) = l /\ task[s[i].who] = "reader"
        /\ \A j \in 1..Len(s) : s[j].mode # "monitor" /\ s[j].who = s[i].who => i = j
QueuesOK ==
    /\ queue \in [Locks -> Seq(Waiter)]
    /\ \A l \in Locks : QueueOK(queue[l], l)

\* Requests, answers and confirmations belong to calls that wait for them.
MessagesMatch ==
    /\ \A t \in readReqs : task[t] = "asked" /\ \A a \in answers : a.task # t
    /\ \A a \in answers : task[a.task] = "asked"
    /\ \A a, b \in answers : a.task = b.task => a = b
    /\ \A t \in writeReqs : task[t] = "writer" /\ Up(t) /\ writer # t
    /\ \A t \in confirms : task[t] = "committing" /\ Up(t) /\ writer # t

\* The task whose write the owner handles is where the owner expects it.
WriterExpected ==
    /\ owner = "serving" => writer = None
    /\ writer # None => Up(writer)
    /\ writer # None /\ owner # "gone" =>
         /\ grant \in {None, "sent", "lost"} => task[writer] = "writer"
         /\ grant = "held" => task[writer] = "writing"
         /\ grant \in {"committed", "released"} => task[writer] = "committing"
         /\ grant \in {"lost", "released"} => writer \in untransferred

\* Unless the owner is gone, every call of a connected task will be answered, if all
\* that belongs to it can be transferred.
CallsPending ==
    owner # "gone" => \A t \in Tasks : Up(t) /\ t \notin untransferred =>
        /\ task[t] = "asked" => t \in readReqs \/ \E a \in answers : a.task = t
        /\ task[t] = "writer" => t \in writeReqs \/ writer = t
        /\ task[t] = "committing" => t \in confirms \/ writer = t

IInv ==
    /\ TypeOK
    /\ Coherence
    /\ QueuesOK /\ MessagesMatch /\ WriterExpected /\ CallsPending
    /\ ErrorsHaveCause

-----------------------------------------------------------------------------
(* Types and coherence of the copies. *)

LEMMA LockTypes == TypeOK /\ [Next]_vars => TypeOK'
<1> SUFFICES ASSUME TypeOK, [Next]_vars PROVE TypeOK'
  OBVIOUS
<1> USE RwLockAssumption
     DEF TypeOK, Value, Goes, Fails, LetGo, Untransferred, taskVars, lockVars, netVars, ownerVars, LockOf
<1>1. ASSUME NEW t \in Tasks, Read(t) PROVE TypeOK'
  BY <1>1 DEF Read
<1>2. ASSUME NEW t \in Tasks, DropReadGuard(t) PROVE TypeOK'
  BY <1>2 DEF DropReadGuard
<1>3. ASSUME NEW t \in Tasks, CancelRead(t) PROVE TypeOK'
  BY <1>3 DEF CancelRead
<1>4. ASSUME NEW t \in Tasks, Write(t) PROVE TypeOK'
  BY <1>4 DEF Write
<1>5. ASSUME NEW t \in Tasks, DropWriteGuard(t) PROVE TypeOK'
  BY <1>5 DEF DropWriteGuard
<1>6. ASSUME NEW t \in Tasks, Commit(t) PROVE TypeOK'
  BY <1>6 DEF Commit
<1>7. ASSUME NEW t \in Tasks, CancelWrite(t) PROVE TypeOK'
  BY <1>7 DEF CancelWrite
<1>8. ASSUME NEW t \in Tasks, ReadCache(t) PROVE TypeOK'
  <2>1. LockOf(t) \in Locks
    OBVIOUS
  <2>2. Valid(LockOf(t)) => cache[LockOf(t)] \in Value
    BY <2>1 DEF Valid
  <2>3. QED
    BY ZenonT(60), <1>8, <2>1, <2>2 DEF ReadCache
<1>9. ASSUME NEW t \in Tasks, RequestValue(t) PROVE TypeOK'
  BY <1>9 DEF RequestValue
<1>10. ASSUME NEW t \in Tasks, ReadFails(t) PROVE TypeOK'
  BY <1>10 DEF ReadFails
<1>11. ASSUME NEW t \in Tasks, NEW a \in answers, a.task = t, ReceiveValue(a) PROVE TypeOK'
  BY <1>11 DEF ReceiveValue
<1>12. ASSUME NEW t \in Tasks, ReceiveGrant(t) PROVE TypeOK'
  BY <1>12 DEF ReceiveGrant
<1>13. ASSUME NEW t \in Tasks, WriteFails(t) PROVE TypeOK'
  BY <1>13 DEF WriteFails
<1>14. ASSUME NEW t \in Tasks, Confirmed(t) PROVE TypeOK'
  BY <1>14 DEF Confirmed
<1>15. ASSUME NEW t \in Tasks, CommitFails(t) PROVE TypeOK'
  BY <1>15 DEF CommitFails
<1>16. ASSUME NEW l \in Locks, Invalidated(l) PROVE TypeOK'
  <2>1. cache[l].epoch \in Nat
    BY <1>16 DEF Invalidated, Valid
  <2>2. QED
    BY <1>16, <2>1 DEF Invalidated
<1>17. ASSUME NEW l \in Locks, MonitorClears(l) PROVE TypeOK'
  BY <1>17 DEF MonitorClears
<1>18. ASSUME NEW l \in Locks, NEW e \in monitors[l], MonitorWakes(l, e) PROVE TypeOK'
  BY <1>18 DEF MonitorWakes
<1>19. ASSUME NEW l \in Locks, Lose(l) PROVE TypeOK'
  BY <1>19 DEF Lose
<1>20. ASSUME NEW l \in Locks, NoticeLoss(l) PROVE TypeOK'
  BY <1>20 DEF NoticeLoss
<1>21. CASE TakeOrphan
  BY <1>21 DEF TakeOrphan
<1>22. CASE Drained
  BY <1>22 DEF Drained
<1>23. CASE StoreValue
  BY <1>23 DEF StoreValue
<1>24. CASE KeepValue
  BY <1>24 DEF KeepValue
<1>25. ASSUME NEW t \in Tasks, AnswerRead(t) PROVE TypeOK'
  BY <1>25 DEF AnswerRead
<1>26. ASSUME NEW t \in Tasks, TakeWrite(t) PROVE TypeOK'
  BY <1>26 DEF TakeWrite
<1>27. CASE DropOwner
  BY <1>27 DEF DropOwner
<1>28. ASSUME NEW t \in Tasks, SkipRequest(t) PROVE TypeOK'
  BY <1>28 DEF SkipRequest
<1>29. ASSUME NEW a \in answers, AnswerLost(a) PROVE TypeOK'
  BY <1>29 DEF AnswerLost
<1>30. CASE GrantLost
  BY <1>30 DEF GrantLost
<1>31. CASE CommitLost
  BY <1>31 DEF CommitLost
<1>32. ASSUME NEW t \in Tasks, ConfirmationLost(t) PROVE TypeOK'
  BY <1>32 DEF ConfirmationLost
<1>33. CASE UNCHANGED vars
  BY <1>33 DEF vars
<1>34. QED
  BY <1>1, <1>2, <1>3, <1>4, <1>5, <1>6, <1>7, <1>8, <1>9, <1>10, <1>11, <1>12, <1>13, <1>14,
     <1>15, <1>16, <1>17, <1>18, <1>19, <1>20, <1>21, <1>22, <1>23, <1>24, <1>25, <1>26,
     <1>27, <1>28, <1>29, <1>30, <1>31, <1>32, <1>33
     DEF Next, Reading, Writing, Fetch, Await, Monitor, OwnerTask, TransferFails

\* The copies stay coherent: a guard is made only from a current copy, and the owner
\* grants write access only when no connected lock has one.
LEMMA LockCoherence == TypeOK /\ Coherence /\ [Next]_vars => Coherence'
<1> SUFFICES ASSUME TypeOK, Coherence, [Next]_vars PROVE Coherence'
  OBVIOUS
<1> USE RwLockAssumption
     DEF TypeOK, Value, Goes, Fails, LetGo, Untransferred, taskVars, lockVars, netVars, ownerVars, LockOf, Up,
         At, Coherence, GrantFollowsOwner, AnswersCurrent, CachesCurrent, ReadersCurrent,
         WriterGranted, Current
<1>1. ASSUME NEW t \in Tasks, Read(t) PROVE Coherence'
  BY <1>1 DEF Read
<1>2. ASSUME NEW t \in Tasks, DropReadGuard(t) PROVE Coherence'
  BY <1>2 DEF DropReadGuard
<1>3. ASSUME NEW t \in Tasks, CancelRead(t) PROVE Coherence'
  BY <1>3 DEF CancelRead
<1>4. ASSUME NEW t \in Tasks, Write(t) PROVE Coherence'
  BY <1>4 DEF Write
<1>5. ASSUME NEW t \in Tasks, DropWriteGuard(t) PROVE Coherence'
  BY <1>5 DEF DropWriteGuard
<1>6. ASSUME NEW t \in Tasks, Commit(t) PROVE Coherence'
  BY <1>6 DEF Commit
<1>7. ASSUME NEW t \in Tasks, CancelWrite(t) PROVE Coherence'
  BY <1>7 DEF CancelWrite
<1>8. ASSUME NEW t \in Tasks, ReadCache(t) PROVE Coherence'
  <2>1. CASE Valid(LockOf(t))
    <3>1. UNCHANGED <<setup, link, cache, seen, readReqs, answers, owner, writer, grant,
                     value, epoch>>
      BY <1>8 DEF ReadCache
    <3>2. Up(t) => Current(cache[LockOf(t)])
      BY <2>1 DEF Valid
    <3>3. /\ task' = [task EXCEPT ![t] = "reading"]
          /\ held' = [held EXCEPT ![t] = cache[LockOf(t)].value]
      BY <1>8, <2>1 DEF ReadCache
    <3>4. cache[LockOf(t)] # None
      BY <2>1 DEF Valid
    <3>5. ReadersCurrent'
      BY <3>1, <3>2, <3>3, <3>4
    <3>6. WriterGranted'
      BY <3>1, <3>2, <3>3, <3>4
    <3>7. QED
      BY <3>1, <3>5, <3>6
  <2>2. CASE ~Valid(LockOf(t))
    BY <1>8, <2>2 DEF ReadCache
  <2>3. QED
    BY <2>1, <2>2
<1>9. ASSUME NEW t \in Tasks, RequestValue(t) PROVE Coherence'
  BY <1>9 DEF RequestValue
<1>10. ASSUME NEW t \in Tasks, ReadFails(t) PROVE Coherence'
  BY <1>10 DEF ReadFails
<1>11. ASSUME NEW t \in Tasks, NEW a \in answers, a.task = t, ReceiveValue(a) PROVE Coherence'
  BY <1>11 DEF ReceiveValue
<1>12. ASSUME NEW t \in Tasks, ReceiveGrant(t) PROVE Coherence'
  BY <1>12 DEF ReceiveGrant
<1>13. ASSUME NEW t \in Tasks, WriteFails(t) PROVE Coherence'
  BY <1>13 DEF WriteFails
<1>14. ASSUME NEW t \in Tasks, Confirmed(t) PROVE Coherence'
  BY <1>14 DEF Confirmed
<1>15. ASSUME NEW t \in Tasks, CommitFails(t) PROVE Coherence'
  BY <1>15 DEF CommitFails
<1>16. ASSUME NEW l \in Locks, Invalidated(l) PROVE Coherence'
  BY <1>16 DEF Invalidated
<1>17. ASSUME NEW l \in Locks, MonitorClears(l) PROVE Coherence'
  <2>1. UNCHANGED <<setup, task, held, link, seen, readReqs, answers, owner, writer,
                   grant, value, epoch>>
    BY <1>17 DEF MonitorClears
  <2>2. /\ \A k \in Locks : cache'[k] # None => cache'[k] = cache[k]
        /\ \A k \in Locks : k # l => cache'[k] = cache[k]
    BY <1>17 DEF MonitorClears
  <2>3. \A t \in Tasks : LockOf(t) = l => task[t] # "reading"
    BY <1>17 DEF MonitorClears, Readers
  <2>4. CachesCurrent'
    BY <2>1, <2>2
  <2>5. ReadersCurrent'
    BY <2>1, <2>2, <2>3
  <2>6. QED
    BY <2>1, <2>4, <2>5
<1>18. ASSUME NEW l \in Locks, NEW e \in monitors[l], MonitorWakes(l, e) PROVE Coherence'
  BY <1>18 DEF MonitorWakes
<1>19. ASSUME NEW l \in Locks, Lose(l) PROVE Coherence'
  BY <1>19 DEF Lose
<1>20. ASSUME NEW l \in Locks, NoticeLoss(l) PROVE Coherence'
  BY <1>20 DEF NoticeLoss
<1>21. CASE TakeOrphan
  BY <1>21 DEF TakeOrphan
<1>22. CASE Drained
  <2>1. /\ owner = "draining" /\ owner' = "writing" /\ grant' # None /\ grant = None
        /\ UNCHANGED <<setup, task, held, link, cache, seen, readReqs, answers, value>>
    BY <1>22 DEF Drained
  <2>2. \A l \in Locks : link[l] = "up" /\ cache[l] # None => cache[l].epoch # epoch
    BY <1>22 DEF Drained, Copies
  <2>3. \A a \in answers : Up(a.task) => a.epoch # epoch
    BY <1>22 DEF Drained, Copies
  <2>4. answers = {}
    BY <2>3
  <2>5. QED
    BY <2>1, <2>2, <2>4
<1>23. CASE StoreValue
  BY <1>23 DEF StoreValue
<1>24. CASE KeepValue
  BY <1>24 DEF KeepValue
<1>25. ASSUME NEW t \in Tasks, AnswerRead(t) PROVE Coherence'
  BY <1>25 DEF AnswerRead
<1>26. ASSUME NEW t \in Tasks, TakeWrite(t) PROVE Coherence'
  BY <1>26 DEF TakeWrite
<1>27. CASE DropOwner
  BY <1>27 DEF DropOwner
<1>28. ASSUME NEW t \in Tasks, SkipRequest(t) PROVE Coherence'
  BY <1>28 DEF SkipRequest
<1>29. ASSUME NEW a \in answers, AnswerLost(a) PROVE Coherence'
  BY <1>29 DEF AnswerLost
<1>30. CASE GrantLost
  <2>1. /\ grant = "sent" /\ grant' = "lost"
        /\ UNCHANGED <<setup, reads, writes, task, held, errors, lockVars, netVars, owner, writer,
                       value, epoch>>
    BY <1>30 DEF GrantLost
  <2>2. QED
    BY <2>1, SMTT(40)
<1>31. CASE CommitLost
  BY <1>31 DEF CommitLost
<1>32. ASSUME NEW t \in Tasks, ConfirmationLost(t) PROVE Coherence'
  BY <1>32 DEF ConfirmationLost
<1>33. CASE UNCHANGED vars
  BY <1>33 DEF vars
<1>34. QED
  BY <1>1, <1>2, <1>3, <1>4, <1>5, <1>6, <1>7, <1>8, <1>9, <1>10, <1>11, <1>12, <1>13, <1>14,
     <1>15, <1>16, <1>17, <1>18, <1>19, <1>20, <1>21, <1>22, <1>23, <1>24, <1>25, <1>26,
     <1>27, <1>28, <1>29, <1>30, <1>31, <1>32, <1>33
     DEF Next, Reading, Writing, Fetch, Await, Monitor, OwnerTask, TransferFails

-----------------------------------------------------------------------------
(* Calls and their answers. *)

\* The first in the queue of a lock is a task that reads.
LEMMA FirstReads ==
    ASSUME TypeOK, QueuesOK, NEW t \in Tasks,
           IsFirst(LockOf(t), ReadWaits(t)) \/ IsFirst(LockOf(t), WriteWaits(t))
    PROVE  task[t] = "reader"
<1>1. LockOf(t) \in Locks
  BY RwLockAssumption DEF TypeOK, LockOf
<1> DEFINE s == queue[LockOf(t)]
<1>2. s \in Seq(Waiter) /\ s # <<>> /\ QueueOK(s, LockOf(t))
  BY <1>1 DEF QueuesOK, IsFirst
<1>3. 1 \in 1..Len(s) /\ Head(s) = s[1]
  BY <1>2
<1>4. s[1].mode # "monitor" /\ s[1].who = t
  BY <1>3 DEF IsFirst, ReadWaits, WriteWaits
<1>5. QED
  BY <1>2, <1>3, <1>4 DEF QueueOK

\* Every message belongs to a call that waits for it.
LEMMA LockMessages ==
    TypeOK /\ QueuesOK /\ MessagesMatch /\ WriterExpected /\ Coherence /\ [Next]_vars =>
        MessagesMatch'
<1> SUFFICES ASSUME TypeOK, QueuesOK, MessagesMatch, WriterExpected, Coherence, [Next]_vars
             PROVE MessagesMatch'
  OBVIOUS
<1> USE RwLockAssumption
     DEF TypeOK, Goes, Fails, LetGo, Untransferred, taskVars, lockVars, netVars, ownerVars, LockOf, Up, At,
         MessagesMatch
<1>1. ASSUME NEW t \in Tasks, Read(t) PROVE MessagesMatch'
  BY <1>1 DEF Read
<1>2. ASSUME NEW t \in Tasks, DropReadGuard(t) PROVE MessagesMatch'
  BY <1>2 DEF DropReadGuard
<1>3. ASSUME NEW t \in Tasks, CancelRead(t) PROVE MessagesMatch'
  BY <1>3 DEF CancelRead
<1>4. ASSUME NEW t \in Tasks, Write(t) PROVE MessagesMatch'
  BY <1>4 DEF Write, WriterExpected
<1>5. ASSUME NEW t \in Tasks, DropWriteGuard(t) PROVE MessagesMatch'
  BY <1>5 DEF DropWriteGuard
<1>6. ASSUME NEW t \in Tasks, Commit(t) PROVE MessagesMatch'
  BY <1>6 DEF Commit
<1>7. ASSUME NEW t \in Tasks, CancelWrite(t) PROVE MessagesMatch'
  BY <1>7 DEF CancelWrite
<1>8. ASSUME NEW t \in Tasks, ReadCache(t) PROVE MessagesMatch'
  <2>1. task[t] = "reader"
    BY <1>8, FirstReads DEF ReadCache
  <2>2. QED
    BY <1>8, <2>1 DEF ReadCache
<1>9. ASSUME NEW t \in Tasks, RequestValue(t) PROVE MessagesMatch'
  <2>1. task[t] = "reader"
    BY <1>9, FirstReads DEF RequestValue
  <2>2. QED
    BY <1>9, <2>1 DEF RequestValue
<1>10. ASSUME NEW t \in Tasks, ReadFails(t) PROVE MessagesMatch'
  BY <1>10 DEF ReadFails, Coherence, AnswersCurrent
<1>11. ASSUME NEW t \in Tasks, NEW a \in answers, a.task = t, ReceiveValue(a)
       PROVE MessagesMatch'
  BY <1>11 DEF ReceiveValue
<1>12. ASSUME NEW t \in Tasks, ReceiveGrant(t) PROVE MessagesMatch'
  BY <1>12 DEF ReceiveGrant
<1>13. ASSUME NEW t \in Tasks, WriteFails(t) PROVE MessagesMatch'
  BY <1>13 DEF WriteFails
<1>14. ASSUME NEW t \in Tasks, Confirmed(t) PROVE MessagesMatch'
  BY <1>14 DEF Confirmed
<1>15. ASSUME NEW t \in Tasks, CommitFails(t) PROVE MessagesMatch'
  BY <1>15 DEF CommitFails
<1>16. ASSUME NEW l \in Locks, Invalidated(l) PROVE MessagesMatch'
  BY <1>16 DEF Invalidated
<1>17. ASSUME NEW l \in Locks, MonitorClears(l) PROVE MessagesMatch'
  BY <1>17 DEF MonitorClears
<1>18. ASSUME NEW l \in Locks, NEW e \in monitors[l], MonitorWakes(l, e) PROVE MessagesMatch'
  BY <1>18 DEF MonitorWakes
<1>19. ASSUME NEW l \in Locks, Lose(l) PROVE MessagesMatch'
  BY <1>19 DEF Lose
<1>20. ASSUME NEW l \in Locks, NoticeLoss(l) PROVE MessagesMatch'
  BY <1>20 DEF NoticeLoss
<1>21. CASE TakeOrphan
  BY <1>21 DEF TakeOrphan
<1>22. CASE Drained
  BY <1>22 DEF Drained
<1>23. CASE StoreValue
  BY <1>23 DEF StoreValue, WriterExpected
<1>24. CASE KeepValue
  BY <1>24 DEF KeepValue
<1>25. ASSUME NEW t \in Tasks, AnswerRead(t) PROVE MessagesMatch'
  BY <1>25 DEF AnswerRead
<1>26. ASSUME NEW t \in Tasks, TakeWrite(t) PROVE MessagesMatch'
  BY <1>26 DEF TakeWrite
<1>27. CASE DropOwner
  BY <1>27 DEF DropOwner
<1>28. ASSUME NEW t \in Tasks, SkipRequest(t) PROVE MessagesMatch'
  BY <1>28 DEF SkipRequest
<1>29. ASSUME NEW a \in answers, AnswerLost(a) PROVE MessagesMatch'
  BY <1>29 DEF AnswerLost
<1>30. CASE GrantLost
  BY <1>30 DEF GrantLost
<1>31. CASE CommitLost
  BY <1>31 DEF CommitLost
<1>32. ASSUME NEW t \in Tasks, ConfirmationLost(t) PROVE MessagesMatch'
  BY <1>32 DEF ConfirmationLost
<1>33. CASE UNCHANGED vars
  BY <1>33 DEF vars
<1>34. QED
  BY <1>1, <1>2, <1>3, <1>4, <1>5, <1>6, <1>7, <1>8, <1>9, <1>10, <1>11, <1>12, <1>13, <1>14,
     <1>15, <1>16, <1>17, <1>18, <1>19, <1>20, <1>21, <1>22, <1>23, <1>24, <1>25, <1>26,
     <1>27, <1>28, <1>29, <1>30, <1>31, <1>32, <1>33
     DEF Next, Reading, Writing, Fetch, Await, Monitor, OwnerTask, TransferFails

\* The writer that the owner deals with is a connected task at the right point of write.
LEMMA LockWriter ==
    TypeOK /\ QueuesOK /\ MessagesMatch /\ WriterExpected /\ Coherence /\ [Next]_vars =>
        WriterExpected'
<1> SUFFICES ASSUME TypeOK, QueuesOK, MessagesMatch, WriterExpected, Coherence, [Next]_vars
             PROVE WriterExpected'
  OBVIOUS
<1> USE RwLockAssumption
     DEF TypeOK, Goes, Fails, LetGo, Untransferred, taskVars, lockVars, netVars, ownerVars, LockOf, Up, At,
         MessagesMatch, WriterExpected
<1>1. ASSUME NEW t \in Tasks, Read(t) PROVE WriterExpected'
  BY <1>1 DEF Read
<1>2. ASSUME NEW t \in Tasks, DropReadGuard(t) PROVE WriterExpected'
  BY <1>2 DEF DropReadGuard
<1>3. ASSUME NEW t \in Tasks, CancelRead(t) PROVE WriterExpected'
  BY <1>3 DEF CancelRead
<1>4. ASSUME NEW t \in Tasks, Write(t) PROVE WriterExpected'
  BY <1>4 DEF Write
<1>5. ASSUME NEW t \in Tasks, DropWriteGuard(t) PROVE WriterExpected'
  BY <1>5 DEF DropWriteGuard
<1>6. ASSUME NEW t \in Tasks, Commit(t) PROVE WriterExpected'
  BY <1>6 DEF Commit, Coherence, GrantFollowsOwner
<1>7. ASSUME NEW t \in Tasks, CancelWrite(t) PROVE WriterExpected'
  BY <1>7 DEF CancelWrite
<1>8. ASSUME NEW t \in Tasks, ReadCache(t) PROVE WriterExpected'
  <2>1. task[t] = "reader"
    BY <1>8, FirstReads DEF ReadCache
  <2>2. QED
    BY <1>8, <2>1 DEF ReadCache
<1>9. ASSUME NEW t \in Tasks, RequestValue(t) PROVE WriterExpected'
  <2>1. task[t] = "reader"
    BY <1>9, FirstReads DEF RequestValue
  <2>2. QED
    BY <1>9, <2>1 DEF RequestValue
<1>10. ASSUME NEW t \in Tasks, ReadFails(t) PROVE WriterExpected'
  BY <1>10 DEF ReadFails
<1>11. ASSUME NEW t \in Tasks, NEW a \in answers, a.task = t, ReceiveValue(a)
       PROVE WriterExpected'
  BY <1>11 DEF ReceiveValue
<1>12. ASSUME NEW t \in Tasks, ReceiveGrant(t) PROVE WriterExpected'
  BY <1>12 DEF ReceiveGrant
<1>13. ASSUME NEW t \in Tasks, WriteFails(t) PROVE WriterExpected'
  BY <1>13 DEF WriteFails
<1>14. ASSUME NEW t \in Tasks, Confirmed(t) PROVE WriterExpected'
  BY <1>14 DEF Confirmed
<1>15. ASSUME NEW t \in Tasks, CommitFails(t) PROVE WriterExpected'
  BY <1>15 DEF CommitFails
<1>16. ASSUME NEW l \in Locks, Invalidated(l) PROVE WriterExpected'
  BY <1>16 DEF Invalidated
<1>17. ASSUME NEW l \in Locks, MonitorClears(l) PROVE WriterExpected'
  BY <1>17 DEF MonitorClears
<1>18. ASSUME NEW l \in Locks, NEW e \in monitors[l], MonitorWakes(l, e) PROVE WriterExpected'
  BY <1>18 DEF MonitorWakes
<1>19. ASSUME NEW l \in Locks, Lose(l) PROVE WriterExpected'
  BY <1>19 DEF Lose
<1>20. ASSUME NEW l \in Locks, NoticeLoss(l) PROVE WriterExpected'
  BY <1>20 DEF NoticeLoss
<1>21. CASE TakeOrphan
  BY <1>21 DEF TakeOrphan
<1>22. CASE Drained
  BY <1>22 DEF Drained, Coherence, GrantFollowsOwner
<1>23. CASE StoreValue
  BY <1>23 DEF StoreValue
<1>24. CASE KeepValue
  BY <1>24 DEF KeepValue
<1>25. ASSUME NEW t \in Tasks, AnswerRead(t) PROVE WriterExpected'
  <2>1. UNCHANGED <<task, untransferred, link, setup, owner, writer, grant>>
    BY <1>25 DEF AnswerRead
  <2>2. QED
    BY <2>1
<1>26. ASSUME NEW t \in Tasks, TakeWrite(t) PROVE WriterExpected'
  BY <1>26 DEF TakeWrite, Coherence, GrantFollowsOwner
<1>27. CASE DropOwner
  BY <1>27 DEF DropOwner
<1>28. ASSUME NEW t \in Tasks, SkipRequest(t) PROVE WriterExpected'
  BY <1>28 DEF SkipRequest
<1>29. ASSUME NEW a \in answers, AnswerLost(a) PROVE WriterExpected'
  BY <1>29 DEF AnswerLost
<1>30. CASE GrantLost
  BY <1>30 DEF GrantLost
<1>31. CASE CommitLost
  BY <1>31 DEF CommitLost
<1>32. ASSUME NEW t \in Tasks, ConfirmationLost(t) PROVE WriterExpected'
  BY <1>32 DEF ConfirmationLost
<1>33. CASE UNCHANGED vars
  BY <1>33 DEF vars
<1>34. QED
  BY <1>1, <1>2, <1>3, <1>4, <1>5, <1>6, <1>7, <1>8, <1>9, <1>10, <1>11, <1>12, <1>13, <1>14,
     <1>15, <1>16, <1>17, <1>18, <1>19, <1>20, <1>21, <1>22, <1>23, <1>24, <1>25, <1>26,
     <1>27, <1>28, <1>29, <1>30, <1>31, <1>32, <1>33
     DEF Next, Reading, Writing, Fetch, Await, Monitor, OwnerTask, TransferFails

\* No call of a connected task is forgotten.
LEMMA LockPending ==
    TypeOK /\ QueuesOK /\ MessagesMatch /\ WriterExpected /\ CallsPending /\ Coherence /\ [Next]_vars =>
        CallsPending'
<1> SUFFICES ASSUME TypeOK, QueuesOK, MessagesMatch, WriterExpected, CallsPending, Coherence,
    [Next]_vars
             PROVE CallsPending'
  OBVIOUS
<1> USE RwLockAssumption
     DEF TypeOK, Goes, Fails, LetGo, Untransferred, taskVars, lockVars, netVars, ownerVars, LockOf, Up, At,
         MessagesMatch, WriterExpected, CallsPending
<1>1. ASSUME NEW t \in Tasks, Read(t) PROVE CallsPending'
  BY <1>1 DEF Read
<1>2. ASSUME NEW t \in Tasks, DropReadGuard(t) PROVE CallsPending'
  BY <1>2 DEF DropReadGuard
<1>3. ASSUME NEW t \in Tasks, CancelRead(t) PROVE CallsPending'
  BY <1>3 DEF CancelRead
<1>4. ASSUME NEW t \in Tasks, Write(t) PROVE CallsPending'
  BY <1>4 DEF Write
<1>5. ASSUME NEW t \in Tasks, DropWriteGuard(t) PROVE CallsPending'
  BY <1>5 DEF DropWriteGuard
<1>6. ASSUME NEW t \in Tasks, Commit(t) PROVE CallsPending'
  BY <1>6 DEF Commit, Coherence, WriterGranted
<1>7. ASSUME NEW t \in Tasks, CancelWrite(t) PROVE CallsPending'
  BY <1>7 DEF CancelWrite
<1>8. ASSUME NEW t \in Tasks, ReadCache(t) PROVE CallsPending'
  <2>1. task[t] = "reader"
    BY <1>8, FirstReads DEF ReadCache
  <2>2. UNCHANGED <<setup, link, readReqs, answers, writeReqs, confirms, owner, writer>>
    BY <1>8 DEF ReadCache
  <2>3. \/ UNCHANGED <<task, untransferred>>
        \/ task' = [task EXCEPT ![t] = "reading"] /\ untransferred' = untransferred \ {t}
    BY <1>8 DEF ReadCache
  <2>4. CASE UNCHANGED <<task, untransferred>>
    BY <2>2, <2>4
  <2>5. CASE task' = [task EXCEPT ![t] = "reading"] /\ untransferred' = untransferred \ {t}
    BY <2>1, <2>2, <2>5, SMTT(30)
  <2>6. QED
    BY <2>3, <2>4, <2>5
<1>9. ASSUME NEW t \in Tasks, RequestValue(t) PROVE CallsPending'
  <2>1. task[t] = "reader"
    BY <1>9, FirstReads DEF RequestValue
  <2>2. QED
    BY <1>9, <2>1 DEF RequestValue
<1>10. ASSUME NEW t \in Tasks, ReadFails(t) PROVE CallsPending'
  BY <1>10 DEF ReadFails
<1>11. ASSUME NEW t \in Tasks, NEW a \in answers, a.task = t, ReceiveValue(a)
       PROVE CallsPending'
  BY <1>11 DEF ReceiveValue
<1>12. ASSUME NEW t \in Tasks, ReceiveGrant(t) PROVE CallsPending'
  BY <1>12 DEF ReceiveGrant
<1>13. ASSUME NEW t \in Tasks, WriteFails(t) PROVE CallsPending'
  BY <1>13 DEF WriteFails
<1>14. ASSUME NEW t \in Tasks, Confirmed(t) PROVE CallsPending'
  BY <1>14 DEF Confirmed
<1>15. ASSUME NEW t \in Tasks, CommitFails(t) PROVE CallsPending'
  BY <1>15 DEF CommitFails
<1>16. ASSUME NEW l \in Locks, Invalidated(l) PROVE CallsPending'
  BY <1>16 DEF Invalidated
<1>17. ASSUME NEW l \in Locks, MonitorClears(l) PROVE CallsPending'
  BY <1>17 DEF MonitorClears
<1>18. ASSUME NEW l \in Locks, NEW e \in monitors[l], MonitorWakes(l, e) PROVE CallsPending'
  BY <1>18 DEF MonitorWakes
<1>19. ASSUME NEW l \in Locks, Lose(l) PROVE CallsPending'
  BY <1>19 DEF Lose
<1>20. ASSUME NEW l \in Locks, NoticeLoss(l) PROVE CallsPending'
  BY <1>20 DEF NoticeLoss
<1>21. CASE TakeOrphan
  BY <1>21 DEF TakeOrphan
<1>22. CASE Drained
  BY <1>22 DEF Drained
<1>23. CASE StoreValue
  BY <1>23 DEF StoreValue
<1>24. CASE KeepValue
  BY <1>24 DEF KeepValue
<1>25. ASSUME NEW t \in Tasks, AnswerRead(t) PROVE CallsPending'
  <2>1. /\ readReqs' = readReqs \ {t} /\ \A a \in answers : a \in answers'
        /\ \E a \in answers' : a.task = t
    <3> DEFINE a0 == [task |-> t, value |-> value, epoch |-> epoch]
    <3>1. readReqs' = readReqs \ {t} /\ answers' = answers \cup {a0}
      BY <1>25 DEF AnswerRead
    <3>2. a0 \in answers' /\ a0.task = t
      BY <3>1
    <3>3. QED
      BY <3>1, <3>2
  <2>2. UNCHANGED <<setup, task, untransferred, link, writeReqs, confirms, owner, writer>>
    BY <1>25 DEF AnswerRead
  <2>3. QED
    BY <2>1, <2>2
<1>26. ASSUME NEW t \in Tasks, TakeWrite(t) PROVE CallsPending'
  BY <1>26 DEF TakeWrite
<1>27. CASE DropOwner
  BY <1>27 DEF DropOwner
<1>28. ASSUME NEW t \in Tasks, SkipRequest(t) PROVE CallsPending'
  BY <1>28 DEF SkipRequest
<1>29. ASSUME NEW a \in answers, AnswerLost(a) PROVE CallsPending'
  BY <1>29 DEF AnswerLost
<1>30. CASE GrantLost
  BY <1>30 DEF GrantLost
<1>31. CASE CommitLost
  BY <1>31 DEF CommitLost
<1>32. ASSUME NEW t \in Tasks, ConfirmationLost(t) PROVE CallsPending'
  BY <1>32 DEF ConfirmationLost
<1>33. CASE UNCHANGED vars
  BY <1>33 DEF vars
<1>34. QED
  BY <1>1, <1>2, <1>3, <1>4, <1>5, <1>6, <1>7, <1>8, <1>9, <1>10, <1>11, <1>12, <1>13, <1>14,
     <1>15, <1>16, <1>17, <1>18, <1>19, <1>20, <1>21, <1>22, <1>23, <1>24, <1>25, <1>26,
     <1>27, <1>28, <1>29, <1>30, <1>31, <1>32, <1>33
     DEF Next, Reading, Writing, Fetch, Await, Monitor, OwnerTask, TransferFails

\* A step that changes no queue keeps them in order, if it disturbs nobody who waits.
LEMMA QueuesKept ==
    ASSUME TypeOK, QueuesOK, UNCHANGED <<setup, queue>>,
           \A u \in Tasks : task[u] = "reader" => task'[u] = "reader"
    PROVE  QueuesOK'
  BY DEF QueuesOK, QueueOK, LockOf

\* A step that changes the queue of one lock disturbs none of the others.
LEMMA QueuesStep ==
    ASSUME TypeOK, QueuesOK, NEW l \in Locks,
           queue' = [queue EXCEPT ![l] = queue'[l]], queue'[l] \in Seq(Waiter),
           setup' = setup,
           \A u \in Tasks : LockOf(u) # l /\ task[u] = "reader" => task'[u] = "reader",
           QueueOK(queue[l], l)'
    PROVE  QueuesOK'
<1>1. queue' \in [Locks -> Seq(Waiter)]
  BY DEF QueuesOK
<1>2. ASSUME NEW k \in Locks, k # l PROVE QueueOK(queue[k], k)'
  <2>1. queue'[k] = queue[k]
    BY <1>2 DEF QueuesOK
  <2>2. /\ QueueOK(queue[k], k) /\ \A u \in Tasks : LockOf(u)' = LockOf(u)
        /\ \A u \in Tasks : LockOf(u) = k /\ task[u] = "reader" => task'[u] = "reader"
    BY <1>2 DEF QueuesOK, LockOf
  <2>3. QED
    BY <2>1, <2>2 DEF QueueOK
<1>3. QED
  BY <1>1, <1>2 DEF QueuesOK

\* The first in a queue leaves it, with or without what it was waiting for.
LEMMA TailOK ==
    ASSUME TypeOK, QueuesOK, NEW l \in Locks, queue[l] # <<>>
    PROVE  LET s == queue[l]  r == Tail(queue[l]) IN
           /\ s \in Seq(Waiter) /\ s[1] \in Waiter /\ Head(s) = s[1]
           /\ r \in Seq(Waiter) /\ Len(r) \in Nat /\ Len(s) = Len(r) + 1
           /\ \A i \in 1..Len(r) : r[i] = s[i + 1] /\ r[i] \in Waiter
           /\ QueueOK(r, l)
           /\ s[1].mode # "monitor" =>
                \A i \in 1..Len(r) : r[i].mode # "monitor" => r[i].who # s[1].who
<1> DEFINE s == queue[l]
           r == Tail(queue[l])
<1>1. s \in Seq(Waiter) /\ s # <<>> /\ QueueOK(s, l)
  BY DEF QueuesOK
<1>2. /\ s[1] \in Waiter /\ Head(s) = s[1]
      /\ r \in Seq(Waiter) /\ Len(r) \in Nat /\ Len(s) = Len(r) + 1
      /\ \A i \in 1..Len(r) : r[i] = s[i + 1] /\ r[i] \in Waiter
  BY <1>1
<1> HIDE DEF s, r
<1>3. QueueOK(r, l)
  BY SMTT(40), <1>1, <1>2 DEF QueueOK
<1>4. s[1].mode # "monitor" => \A i \in 1..Len(r) : r[i].mode # "monitor" => r[i].who # s[1].who
  BY <1>1, <1>2 DEF QueueOK
<1>5. QED
  BY <1>1, <1>2, <1>3, <1>4 DEF s, r

\* A task that gives up leaves the queue.
LEMMA WithoutOK ==
    ASSUME NEW l, NEW s \in Seq(Waiter), QueueOK(s, l), NEW t \in Tasks
    PROVE  LET r == Without(s, t) IN
           /\ r \in Seq(Waiter) /\ QueueOK(r, l)
           /\ \A i \in 1..Len(r) : r[i].mode # "monitor" => r[i].who # t
<1> DEFINE Mine == {i \in 1..Len(s) : s[i] \in {ReadWaits(t), WriteWaits(t)}}
           r == Without(s, t)
<1>1. /\ Len(s) \in Nat /\ \A i \in 1..Len(s) : s[i] \in Waiter
  OBVIOUS
<1>2. \A i \in 1..Len(s) : s[i].mode # "monitor" /\ s[i].who = t => i \in Mine
  BY <1>1 DEF Waiter, ReadWaits, WriteWaits
<1>3. CASE Mine = {}
  <2>1. r = s
    BY <1>3 DEF Without
  <2>2. QED
    BY <1>2, <1>3, <2>1
<1>4. CASE Mine # {}
  <2> DEFINE k == CHOOSE i \in Mine : TRUE
  <2>1. k \in Mine /\ r = [i \in 1..(Len(s) - 1) |-> IF i < k THEN s[i] ELSE s[i + 1]]
    BY <1>4 DEF Without
  <2>2. k \in 1..Len(s) /\ s[k].mode # "monitor" /\ s[k].who = t
    BY <2>1 DEF ReadWaits, WriteWaits
  <2> HIDE DEF Mine, k, r
  <2>3. Len(s) - 1 \in Nat /\ \A i \in 1..(Len(s) - 1) : r[i] = IF i < k THEN s[i] ELSE s[i + 1]
    BY <1>1, <2>1, <2>2
  <2>4. r \in Seq(Waiter) /\ Len(r) = Len(s) - 1
    <3>1. \A i \in 1..(Len(s) - 1) : r[i] \in Waiter
      BY <1>1, <2>2, <2>3
    <3>2. r \in [1..(Len(s) - 1) -> Waiter]
      BY <2>1, <3>1
    <3>3. QED
      BY <2>3, <3>2
  <2>5. \A i \in 1..Len(r) : r[i].mode # "monitor" => r[i].who # t
    BY <1>1, <2>2, <2>3, <2>4 DEF QueueOK
  <2>6. QueueOK(r, l)
    <3> DEFINE from(i) == IF i < k THEN i ELSE i + 1
    <3>1. \A i \in 1..Len(r) : from(i) \in 1..Len(s) /\ r[i] = s[from(i)]
      BY <1>1, <2>2, <2>3, <2>4
    <3>2. \A i, j \in 1..Len(r) : from(i) = from(j) => i = j
      BY <2>2, <2>4
    <3> HIDE DEF from
    <3>3. QED
      BY SMTT(40), <3>1, <3>2 DEF QueueOK
  <2>7. QED
    BY <2>4, <2>5, <2>6 DEF r
<1>5. QED
  BY <1>3, <1>4

\* No step leaves a task in a queue in which it does not wait.
LEMMA LockQueues == TypeOK /\ QueuesOK /\ MessagesMatch /\ [Next]_vars => QueuesOK'
<1> SUFFICES ASSUME TypeOK, QueuesOK, MessagesMatch, [Next]_vars PROVE QueuesOK'
  OBVIOUS
<1> USE RwLockAssumption DEF Goes, Fails, taskVars, lockVars, netVars, ownerVars
<1>1. ASSUME NEW t \in Tasks, Read(t) PROVE QueuesOK'
  <2>0. PICK l \in Locks : l = LockOf(t)
    BY DEF TypeOK, LockOf
  <2> DEFINE s == queue[l]
             r == queue'[l]
  <2>1. /\ l \in Locks /\ s \in Seq(Waiter) /\ QueueOK(s, l) /\ ReadWaits(t) \in Waiter
        /\ \A u \in Tasks \ {t} : task'[u] = task[u]
        /\ task[t] = "idle" /\ task'[t] = "reader" /\ setup' = setup
        /\ queue' = [queue EXCEPT ![l] = Append(s, ReadWaits(t))]
    BY <1>1, <2>0 DEF Read, TypeOK, QueuesOK, Wait, ReadWaits, Waiter, LockOf
  <2>2. r = Append(s, ReadWaits(t))
    BY <2>1 DEF QueuesOK
  <2>3. /\ r \in Seq(Waiter) /\ Len(r) = Len(s) + 1 /\ r[Len(r)] = ReadWaits(t)
        /\ Len(s) \in Nat /\ \A i \in 1..Len(s) : r[i] = s[i]
    BY <2>1, <2>2
  <2>4. \A i \in 1..Len(s) : s[i].mode # "monitor" => s[i].who # t
    BY <2>1 DEF QueueOK
  <2>5. queue' = [queue EXCEPT ![l] = queue'[l]]
    BY <2>1, <2>2
  <2>6. \A u \in Tasks : LockOf(u) # l /\ task[u] = "reader" => task'[u] = "reader"
    BY <2>0, <2>1
  <2> HIDE DEF r, s
  <2>7. QueueOK(queue[l], l)'
    BY SMTT(90), <2>0, <2>1, <2>3, <2>4 DEF QueueOK, ReadWaits, r, LockOf
  <2>8. QED
    BY <2>1, <2>3, <2>5, <2>6, <2>7, QueuesStep DEF r
<1>2. ASSUME NEW t \in Tasks, DropReadGuard(t) PROVE QueuesOK'
  BY <1>2, QueuesKept DEF DropReadGuard, TypeOK
<1>3. ASSUME NEW t \in Tasks, CancelRead(t) PROVE QueuesOK'
  <2>0. PICK l \in Locks : l = LockOf(t)
    BY DEF TypeOK, LockOf
  <2> DEFINE s == queue[l]
             r == Without(s, t)
  <2>1. /\ l \in Locks /\ s \in Seq(Waiter) /\ QueueOK(s, l) /\ setup' = setup
        /\ \A u \in Tasks \ {t} : task'[u] = task[u]
        /\ queue' = [queue EXCEPT ![l] = r]
    BY <1>3, <2>0 DEF CancelRead, TypeOK, QueuesOK, LockOf
  <2>2. /\ r \in Seq(Waiter) /\ QueueOK(r, l)
        /\ \A i \in 1..Len(r) : r[i].mode # "monitor" => r[i].who # t
    BY <2>1, WithoutOK
  <2>3. \A u \in Tasks : LockOf(u) # l /\ task[u] = "reader" => task'[u] = "reader"
    BY <2>0, <2>1
  <2>4. queue'[l] = r /\ queue' = [queue EXCEPT ![l] = queue'[l]]
    BY <2>1 DEF QueuesOK
  <2> HIDE DEF r, s
  <2>5. QueueOK(queue[l], l)'
    BY <2>1, <2>2, <2>4 DEF QueueOK, LockOf
  <2>6. QED
    BY <2>1, <2>2, <2>3, <2>4, <2>5, QueuesStep
<1>4. ASSUME NEW t \in Tasks, Write(t) PROVE QueuesOK'
  BY <1>4, QueuesKept DEF Write, TypeOK
<1>5. ASSUME NEW t \in Tasks, DropWriteGuard(t) PROVE QueuesOK'
  BY <1>5, QueuesKept DEF DropWriteGuard, TypeOK
<1>6. ASSUME NEW t \in Tasks, Commit(t) PROVE QueuesOK'
  BY <1>6, QueuesKept DEF Commit, TypeOK
<1>7. ASSUME NEW t \in Tasks, CancelWrite(t) PROVE QueuesOK'
  BY <1>7, QueuesKept DEF CancelWrite, TypeOK
<1>8. ASSUME NEW t \in Tasks, ReadCache(t) PROVE QueuesOK'
  <2>0. PICK l \in Locks : l = LockOf(t)
    BY DEF TypeOK, LockOf
  <2> DEFINE s == queue[l]
             r == Tail(s)
  <2>1. /\ l \in Locks /\ s # <<>> /\ Head(s).mode # "monitor" /\ Head(s).who = t
        /\ setup' = setup /\ \A u \in Tasks \ {t} : task'[u] = task[u]
    BY <1>8, <2>0 DEF ReadCache, IsFirst, ReadWaits, WriteWaits, TypeOK, LockOf
  <2>2. /\ r \in Seq(Waiter) /\ Len(r) \in Nat /\ QueueOK(r, l)
        /\ \A i \in 1..Len(r) : r[i].mode # "monitor" => r[i].who # t
    BY <2>1, TailOK
  <2>3. \A u \in Tasks : LockOf(u) # l /\ task[u] = "reader" => task'[u] = "reader"
    BY <2>0, <2>1
  <2> HIDE DEF r, s
  <2>4. ASSUME queue' = [queue EXCEPT ![l] = r] PROVE QueuesOK'
    <3>1. queue'[l] = r /\ queue' = [queue EXCEPT ![l] = queue'[l]]
      BY <2>1, <2>4 DEF QueuesOK
    <3>2. QueueOK(queue[l], l)'
      BY <2>1, <2>2, <3>1 DEF QueueOK, LockOf
    <3>3. QED
      BY <2>1, <2>2, <2>3, <3>1, <3>2, QueuesStep
  <2>5. ASSUME queue' = [queue EXCEPT ![l] = Append(r, WriteWaits(t))], task' = task
        PROVE QueuesOK'
    <3> DEFINE q == Append(r, WriteWaits(t))
    <3>1. queue'[l] = q /\ queue' = [queue EXCEPT ![l] = queue'[l]]
      BY <2>1, <2>5 DEF QueuesOK
    <3>2. WriteWaits(t) \in Waiter
      BY DEF WriteWaits, Waiter
    <3>3. /\ q \in Seq(Waiter) /\ Len(q) = Len(r) + 1 /\ q[Len(q)] = WriteWaits(t)
          /\ \A i \in 1..Len(r) : q[i] = r[i]
      BY <2>2, <3>2
    <3>4. task[t] = "reader"
      BY <1>8, FirstReads DEF ReadCache
    <3> HIDE DEF q
    <3>5. QueueOK(queue[l], l)'
      BY <2>0, <2>1, <2>2, <2>5, <3>1, <3>3, <3>4 DEF QueueOK, WriteWaits, LockOf
    <3>6. QED
      BY <2>1, <2>3, <3>1, <3>3, <3>5, QueuesStep
  <2>6. QED
    BY <1>8, <2>0, <2>4, <2>5 DEF ReadCache, Served, r, s
<1>9. ASSUME NEW t \in Tasks, RequestValue(t) PROVE QueuesOK'
  <2>0. PICK l \in Locks : l = LockOf(t)
    BY DEF TypeOK, LockOf
  <2> DEFINE s == queue[l]
             r == Tail(s)
  <2>1. /\ l \in Locks /\ s # <<>> /\ Head(s).mode # "monitor" /\ Head(s).who = t
        /\ setup' = setup /\ \A u \in Tasks \ {t} : task'[u] = task[u]
    BY <1>9, <2>0 DEF RequestValue, IsFirst, ReadWaits, WriteWaits, TypeOK, LockOf
  <2>2. /\ r \in Seq(Waiter) /\ Len(r) \in Nat /\ QueueOK(r, l)
        /\ \A i \in 1..Len(r) : r[i].mode # "monitor" => r[i].who # t
    BY <2>1, TailOK
  <2>3. \A u \in Tasks : LockOf(u) # l /\ task[u] = "reader" => task'[u] = "reader"
    BY <2>0, <2>1
  <2> HIDE DEF r, s
  <2>4. ASSUME queue' = [queue EXCEPT ![l] = r] PROVE QueuesOK'
    <3>1. queue'[l] = r /\ queue' = [queue EXCEPT ![l] = queue'[l]]
      BY <2>1, <2>4 DEF QueuesOK
    <3>2. QueueOK(queue[l], l)'
      BY <2>1, <2>2, <3>1 DEF QueueOK, LockOf
    <3>3. QED
      BY <2>1, <2>2, <2>3, <3>1, <3>2, QueuesStep
  <2>5. QED
    BY <1>9, <2>0, <2>4 DEF RequestValue, Served, r, s
<1>10. ASSUME NEW t \in Tasks, ReadFails(t) PROVE QueuesOK'
  BY <1>10, QueuesKept DEF ReadFails, TypeOK
<1>11. ASSUME NEW t \in Tasks, NEW a \in answers, a.task = t, ReceiveValue(a) PROVE QueuesOK'
  BY <1>11, QueuesKept DEF ReceiveValue, MessagesMatch, TypeOK
<1>12. ASSUME NEW t \in Tasks, ReceiveGrant(t) PROVE QueuesOK'
  BY <1>12, QueuesKept DEF ReceiveGrant, TypeOK
<1>13. ASSUME NEW t \in Tasks, WriteFails(t) PROVE QueuesOK'
  BY <1>13, QueuesKept DEF WriteFails, TypeOK
<1>14. ASSUME NEW t \in Tasks, Confirmed(t) PROVE QueuesOK'
  BY <1>14, QueuesKept DEF Confirmed, MessagesMatch, TypeOK
<1>15. ASSUME NEW t \in Tasks, CommitFails(t) PROVE QueuesOK'
  BY <1>15, QueuesKept DEF CommitFails, TypeOK
<1>16. ASSUME NEW l \in Locks, Invalidated(l) PROVE QueuesOK'
  BY <1>16, QueuesKept DEF Invalidated, TypeOK
<1>17. ASSUME NEW l \in Locks, MonitorClears(l) PROVE QueuesOK'
  <2> DEFINE r == Tail(queue[l])
  <2>1. queue[l] # <<>> /\ UNCHANGED <<setup, task>> /\ queue' = [queue EXCEPT ![l] = r]
    BY <1>17 DEF MonitorClears, Served
  <2>2. r \in Seq(Waiter) /\ QueueOK(r, l)
    BY <2>1, TailOK
  <2>3. queue'[l] = r /\ queue' = [queue EXCEPT ![l] = queue'[l]]
    BY <2>1 DEF QueuesOK
  <2> HIDE DEF r
  <2>4. QueueOK(queue[l], l)'
    <3>1. \A u \in Tasks : LockOf(u)' = LockOf(u)
      BY <2>1 DEF LockOf
    <3>2. QED
      BY <2>1, <2>2, <2>3, <3>1 DEF QueueOK
  <2>5. QED
    BY <2>1, <2>2, <2>3, <2>4, QueuesStep
<1>18. ASSUME NEW l \in Locks, NEW e \in monitors[l], MonitorWakes(l, e) PROVE QueuesOK'
  <2> DEFINE s == queue[l]
             r == Append(s, MonitorWaits(e))
  <2>1. UNCHANGED <<setup, task>> /\ queue' = [queue EXCEPT ![l] = r]
    BY <1>18 DEF MonitorWakes, Wait
  <2>2. s \in Seq(Waiter) /\ QueueOK(s, l) /\ MonitorWaits(e) \in Waiter
    BY DEF QueuesOK, TypeOK, MonitorWaits, Waiter
  <2>3. /\ r \in Seq(Waiter) /\ Len(r) = Len(s) + 1 /\ r[Len(r)] = MonitorWaits(e)
        /\ Len(s) \in Nat /\ \A i \in 1..Len(s) : r[i] = s[i]
    BY <2>2
  <2>4. queue'[l] = r /\ queue' = [queue EXCEPT ![l] = queue'[l]]
    BY <2>1 DEF QueuesOK
  <2> HIDE DEF r, s
  <2>5. QueueOK(queue[l], l)'
    <3>1. \A u \in Tasks : LockOf(u)' = LockOf(u)
      BY <2>1 DEF LockOf
    <3>2. QED
      BY SMTT(40), <2>1, <2>2, <2>3, <2>4, <3>1 DEF QueueOK, MonitorWaits
  <2>6. QED
    BY <2>1, <2>3, <2>4, <2>5, QueuesStep
<1>19. ASSUME NEW l \in Locks, Lose(l) PROVE QueuesOK'
  BY <1>19, QueuesKept DEF Lose, TypeOK
<1>20. ASSUME NEW l \in Locks, NoticeLoss(l) PROVE QueuesOK'
  BY <1>20, QueuesKept DEF NoticeLoss, TypeOK
<1>21. CASE TakeOrphan
  BY <1>21, QueuesKept DEF TakeOrphan, TypeOK
<1>22. CASE Drained
  BY <1>22, QueuesKept DEF Drained, TypeOK
<1>23. CASE StoreValue
  BY <1>23, QueuesKept DEF StoreValue, TypeOK
<1>24. CASE KeepValue
  BY <1>24, QueuesKept DEF KeepValue, TypeOK
<1>25. ASSUME NEW t \in Tasks, AnswerRead(t) PROVE QueuesOK'
  BY <1>25, QueuesKept DEF AnswerRead, TypeOK
<1>26. ASSUME NEW t \in Tasks, TakeWrite(t) PROVE QueuesOK'
  BY <1>26, QueuesKept DEF TakeWrite, TypeOK
<1>27. CASE DropOwner
  BY <1>27, QueuesKept DEF DropOwner, TypeOK
<1>28. ASSUME NEW t \in Tasks, SkipRequest(t) PROVE QueuesOK'
  BY <1>28, QueuesKept DEF SkipRequest, Untransferred, TypeOK
<1>29. ASSUME NEW a \in answers, AnswerLost(a) PROVE QueuesOK'
  BY <1>29, QueuesKept DEF AnswerLost, Untransferred, TypeOK
<1>30. CASE GrantLost
  BY <1>30, QueuesKept DEF GrantLost, Untransferred, TypeOK
<1>31. CASE CommitLost
  BY <1>31, QueuesKept DEF CommitLost, Untransferred, TypeOK
<1>32. ASSUME NEW t \in Tasks, ConfirmationLost(t) PROVE QueuesOK'
  BY <1>32, QueuesKept DEF ConfirmationLost, Untransferred, TypeOK
<1>33. CASE UNCHANGED vars
  BY <1>33, QueuesKept DEF vars
<1>34. QED
  BY <1>1, <1>2, <1>3, <1>4, <1>5, <1>6, <1>7, <1>8, <1>9, <1>10, <1>11, <1>12, <1>13, <1>14,
     <1>15, <1>16, <1>17, <1>18, <1>19, <1>20, <1>21, <1>22, <1>23, <1>24, <1>25, <1>26,
     <1>27, <1>28, <1>29, <1>30, <1>31, <1>32, <1>33
     DEF Next, Reading, Writing, Fetch, Await, Monitor, OwnerTask, TransferFails

\* What a call that fails for a reason reports.
LEMMA FailsExcused ==
    ASSUME ErrorsHaveCause, NEW t \in Tasks, NEW c, Excused(t), Fails(t, c)
    PROVE  ErrorsHaveCause'
<1> DEFINE b == owner = "gone" \/ ~Up(t) \/ t \in untransferred
<1>1. b = TRUE
  BY DEF Excused
<1>2. errors' = errors \cup {[call |-> c, excused |-> b]}
  BY DEF Fails, Excused
<1> HIDE DEF b
<1>3. errors' = errors \cup {[call |-> c, excused |-> TRUE]}
  BY <1>1, <1>2
<1>4. QED
  BY <1>3 DEF ErrorsHaveCause

LEMMA LockErrors ==
    TypeOK /\ CallsPending /\ WriterExpected /\ ErrorsHaveCause /\ [Next]_vars => ErrorsHaveCause'
<1> SUFFICES ASSUME TypeOK, CallsPending, WriterExpected, ErrorsHaveCause, [Next]_vars
             PROVE ErrorsHaveCause'
  OBVIOUS
<1>1. ASSUME NEW t \in Tasks, ReadFails(t) PROVE ErrorsHaveCause'
  <2>1. Excused(t)
    BY <1>1 DEF ReadFails, CallsPending, Up, TypeOK, Excused
  <2>2. QED
    BY <1>1, <2>1, FailsExcused DEF ReadFails
<1>2. ASSUME NEW t \in Tasks, WriteFails(t) PROVE ErrorsHaveCause'
  <2>1. Excused(t)
    BY <1>2, RwLockAssumption DEF WriteFails, CallsPending, WriterExpected, Up, TypeOK, Excused
  <2>2. QED
    BY <1>2, <2>1, FailsExcused DEF WriteFails
<1>3. ASSUME NEW t \in Tasks, CommitFails(t) PROVE ErrorsHaveCause'
  <2>1. Excused(t)
    BY <1>3 DEF CommitFails, CallsPending, Up, TypeOK, Excused
  <2>2. QED
    BY <1>3, <2>1, FailsExcused DEF CommitFails
<1>4. CASE errors' = errors
  BY <1>4 DEF ErrorsHaveCause
<1>5. QED
  <2>1. CASE UNCHANGED vars
    BY <1>4, <2>1 DEF vars, taskVars
  <2>2. ASSUME NEW t \in Tasks, Reading(t) \/ Writing(t) \/ Fetch(t) \/ Await(t)
        PROVE  ErrorsHaveCause'
    BY <1>1, <1>2, <1>3, <1>4, <2>2
       DEF Reading, Read, DropReadGuard, CancelRead, Writing, Write, DropWriteGuard, Commit,
           CancelWrite, Fetch, ReadCache, RequestValue, ReceiveValue, Await, ReceiveGrant, Confirmed
  <2>3. ASSUME NEW l \in Locks, Monitor(l) \/ Lose(l) \/ NoticeLoss(l) PROVE ErrorsHaveCause'
    BY <1>4, <2>3 DEF Monitor, Invalidated, MonitorClears, MonitorWakes, Lose, NoticeLoss, taskVars
  <2>4. CASE OwnerTask \/ DropOwner
    BY <1>4, <2>4 DEF OwnerTask, TakeOrphan, Drained, StoreValue, KeepValue, AnswerRead,
                      TakeWrite, DropOwner, taskVars
  <2>5. CASE TransferFails
    BY <1>4, <2>5 DEF TransferFails, SkipRequest, AnswerLost, GrantLost, CommitLost, ConfirmationLost
  <2>6. QED
    BY <2>1, <2>2, <2>3, <2>4, <2>5 DEF Next

-----------------------------------------------------------------------------
(* The theorems. *)

LEMMA LockInit == Init => IInv
<1> SUFFICES ASSUME Init PROVE IInv
  OBVIOUS
<1> USE RwLockAssumption
<1>1. TypeOK
  BY DEF Init, TypeOK
<1>2. Coherence
  BY DEF Init, Coherence, GrantFollowsOwner, AnswersCurrent, CachesCurrent, ReadersCurrent,
         WriterGranted
<1>3. QueuesOK
  BY DEF Init, QueuesOK, QueueOK
<1>4. MessagesMatch /\ WriterExpected /\ CallsPending /\ ErrorsHaveCause
  BY DEF Init, MessagesMatch, WriterExpected, CallsPending, ErrorsHaveCause
<1>5. QED
  BY <1>1, <1>2, <1>3, <1>4 DEF IInv

LEMMA LockInvariant == Spec => []IInv
<1>1. IInv /\ [Next]_vars => IInv'
  BY LockTypes, LockCoherence, LockQueues, LockMessages, LockWriter, LockPending, LockErrors
     DEF IInv
<1>2. QED
  BY <1>1, LockInit, PTL DEF Spec

\* While a read guard is held at a connected endpoint, the shared value is the one it
\* shows: the owner waits for every copy before it lets a writer change the value.
THEOREM GuardsShowTheValue == Spec => []GuardIsCurrent
<1>1. IInv => GuardIsCurrent
  BY DEF IInv, Coherence, ReadersCurrent, GuardIsCurrent
<1>2. QED
  BY <1>1, LockInvariant, PTL

\* A write guard at a connected endpoint excludes all other guards at connected
\* endpoints, and it shows the current value, so that no write is lost.
THEOREM WritesExclude == Spec => []WriteIsExclusive
<1>1. IInv => WriteIsExclusive
  BY RwLockAssumption DEF IInv, Coherence, ReadersCurrent, WriterGranted, WriteIsExclusive
<1>2. QED
  BY <1>1, LockInvariant, PTL

\* read, write and commit fail only when the Owner is gone, the connection is lost or a
\* value of the call could not be transferred: every other call is in a queue of the owner,
\* being handled by it, or answered.
THEOREM FailuresHaveCause == Spec => []ErrorsHaveCause
<1>1. IInv => ErrorsHaveCause
  BY DEF IInv
<1>2. QED
  BY <1>1, LockInvariant, PTL
=============================================================================
