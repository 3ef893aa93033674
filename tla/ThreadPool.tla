----------------------------- MODULE ThreadPool -----------------------------
(***************************************************************************)
(* kernel/common/concurrency: ThreadPool, the only concurrency primitive   *)
(* of the repository (the delayed frees of FilePool run on one).           *)
(*                                                                         *)
(* Worker q has a queue, a mutex and a condition variable of its own       *)
(* (ThreadSrc).  AddTask deals tasks round robin to the queues; Stop       *)
(* clears status_, wakes every worker and joins it.  status_ is read       *)
(* without any mutex.  One action is one critical section or one unlocked  *)
(* read; a worker that has evaluated its wait predicate but not yet gone   *)
(* to sleep still holds its mutex (wpc = "drowsy"), every other critical   *)
(* section is one action.  Start runs before any task is added.            *)
(***************************************************************************)
EXTENDS Integers, Sequences, FiniteSets

CONSTANTS Workers,   \* worker_size_
          QueueSize, \* queue_size_, the capacity of each queue
          Clients,   \* threads that call AddTask
          TasksPer,  \* bound: tasks per client
          Empty,     \* a moved-from std::function
          NoTask     \* a worker that has not run any task

ASSUME ThreadAssumption ==
    /\ Workers \in Nat \ {0} /\ QueueSize \in Nat \ {0}
    /\ TasksPer \in Nat

Queues == 1 .. Workers
Task == Clients \X (1 .. TasksPer)

ASSUME TaskAssumption == Empty \notin Task /\ NoTask \notin Task

VARIABLES status,    \* status_: 1 between Start and Stop
          phase,     \* where the owner is: "new", "up", "notifying", "joining", "stopped";
                     \* "dead" once a worker has let an exception escape
          toNotify,  \* index of Stop's notify loop
          counter,   \* counter_ modulo the number of queues
          queue,     \* srcs_[q]->queue
          wpc,       \* where worker q is in ThreadBody
          task,      \* task_union of worker q
          cpc,       \* a client is "out" of AddTask or at its critical section ("push")
          slot,      \* the queue AddTask has claimed for the client
          number,    \* the client's current task is <<client, number>>
          moved,     \* the client's std::function has been moved from
          refused,   \* history: the tasks a full queue has refused and their client offers again
          accepted,  \* history: the tasks AddTask returned true for, by queue
          promised,  \* history: those accepted whole, and while status_ was 1
          ran        \* history: the tasks a worker has run

workerVars == <<wpc, task, ran>>
clientVars == <<cpc, slot, number, moved, refused, accepted, promised>>
ownerVars == <<status, phase, toNotify>>
vars == <<ownerVars, counter, queue, workerVars, clientVars>>

-----------------------------------------------------------------------------
(* The owner: Start and Stop *)

Start ==
    /\ phase = "new"
    /\ status' = 1
    /\ phase' = "up"
    /\ wpc' = [q \in Queues |-> "wait"]
    /\ UNCHANGED <<toNotify, counter, queue, task, ran, clientVars>>

\* Stop: the compare-and-swap of status_, outside every mutex.
StopCas ==
    /\ phase = "up"
    /\ status' = 0
    /\ phase' = "notifying"
    /\ toNotify' = 1
    /\ UNCHANGED <<counter, queue, workerVars, clientVars>>

Woken(q) == [wpc EXCEPT ![q] = IF @ = "asleep" THEN "wait" ELSE @]

\* Mutant: notify_all without taking the mutex.
StopNotifyUnlocked ==
    /\ phase = "notifying"
    /\ wpc' = Woken(toNotify)
    /\ toNotify' = toNotify + 1
    /\ phase' = IF toNotify = Workers THEN "joining" ELSE phase
    /\ UNCHANGED <<status, counter, queue, task, ran, clientVars>>

StopNotify ==
    /\ phase = "notifying"
    /\ wpc[toNotify] # "drowsy"
    /\ wpc' = Woken(toNotify)
    /\ toNotify' = toNotify + 1
    /\ phase' = IF toNotify = Workers THEN "joining" ELSE phase
    /\ UNCHANGED <<status, counter, queue, task, ran, clientVars>>

StopJoined ==
    /\ phase = "joining"
    /\ \A q \in Queues : wpc[q] = "done"
    /\ phase' = "stopped"
    /\ UNCHANGED <<status, toNotify, counter, queue, workerVars, clientVars>>

-----------------------------------------------------------------------------
(* ThreadBody *)

\* cond.wait: the mutex is taken and the predicate evaluated.
WaitTest(q) ==
    /\ wpc[q] = "wait"
    /\ wpc' = [wpc EXCEPT ![q] = IF status = 0 \/ queue[q] # <<>> THEN "test" ELSE "drowsy"]
    /\ UNCHANGED <<ownerVars, counter, queue, task, ran, clientVars>>

\* cond.wait: asleep, the mutex released.
Sleep(q) ==
    /\ wpc[q] = "drowsy"
    /\ wpc' = [wpc EXCEPT ![q] = "asleep"]
    /\ UNCHANGED <<ownerVars, counter, queue, task, ran, clientVars>>

\* A condition variable may wake without a notification.
SpuriousWakeup(q) ==
    /\ wpc[q] = "asleep"
    /\ wpc' = Woken(q)
    /\ UNCHANGED <<ownerVars, counter, queue, task, ran, clientVars>>

\* Mutant: the worker leaves as soon as the pool is stopped.
TestStatus(q) ==
    /\ wpc[q] = "test"
    /\ wpc' = [wpc EXCEPT ![q] = IF status = 0 THEN "done" ELSE "pop"]
    /\ UNCHANGED <<ownerVars, counter, queue, task, ran, clientVars>>

\* The unlocked test: an empty queue ends the worker.
Test(q) ==
    /\ wpc[q] = "test"
    /\ wpc' = [wpc EXCEPT ![q] = IF queue[q] = <<>> THEN "done" ELSE "pop"]
    /\ UNCHANGED <<ownerVars, counter, queue, task, ran, clientVars>>

\* The pop, under the mutex; the loop around it goes back to the wait when there is
\* nothing left.
Pop(q) ==
    /\ wpc[q] = "pop"
    /\ IF queue[q] = <<>>
       THEN /\ wpc' = [wpc EXCEPT ![q] = "wait"]
            /\ UNCHANGED <<queue, task>>
       ELSE /\ wpc' = [wpc EXCEPT ![q] = "run"]
            /\ task' = [task EXCEPT ![q] = Head(queue[q])]
            /\ queue' = [queue EXCEPT ![q] = Tail(@)]
    /\ UNCHANGED <<ownerVars, counter, ran, clientVars>>

\* task_union.task(), outside the mutex.  Calling an empty std::function throws, and
\* nothing catches it: the process terminates.
RunTask(q) ==
    /\ wpc[q] = "run"
    /\ IF task[q] = Empty
       THEN /\ phase' = "dead"
            /\ UNCHANGED <<wpc, ran>>
       ELSE /\ wpc' = [wpc EXCEPT ![q] = "wait"]
            /\ ran' = [ran EXCEPT ![q] = Append(@, task[q])]
            /\ phase' = phase
    /\ UNCHANGED <<status, toNotify, counter, queue, task, clientVars>>

-----------------------------------------------------------------------------
(* AddTask *)

Current(c) == <<c, number[c]>>

\* AddTask has returned.  The client goes on to its next task, or, when this one was not
\* added, it may offer it again, as the loop of the unit test does.
Advance(c) ==
    /\ number' = [number EXCEPT ![c] = @ + 1]
    /\ moved' = [moved EXCEPT ![c] = FALSE]
    /\ UNCHANGED refused
OfferAgain(c) ==
    /\ number' = number
    /\ moved' = [moved EXCEPT ![c] = TRUE]
    /\ refused' = refused \cup {Current(c)}

\* AddTask of a pool that is not running returns before it touches the task, and to
\* offer it again changes nothing.
AddTaskRefused(c) ==
    /\ cpc[c] = "out" /\ number[c] <= TasksPer
    /\ status = 0
    /\ Advance(c)
    /\ UNCHANGED <<ownerVars, counter, queue, workerVars, cpc, slot, accepted, promised>>

\* AddTask up to the mutex: status_ is read, then counter_ claims a queue.
AddTask(c) ==
    /\ cpc[c] = "out" /\ number[c] <= TasksPer
    /\ status = 1
    /\ cpc' = [cpc EXCEPT ![c] = "push"]
    /\ slot' = [slot EXCEPT ![c] = counter + 1]
    /\ counter' = (counter + 1) % Workers
    /\ UNCHANGED <<ownerVars, queue, workerVars, number, moved, refused, accepted, promised>>

\* The push of a queue with room.
Enqueue(c, q) ==
    /\ queue' = [queue EXCEPT ![q] = Append(@, IF moved[c] THEN Empty ELSE Current(c))]
    /\ accepted' = [accepted EXCEPT ![q] = Append(@, Current(c))]
    /\ promised' = IF status = 1 /\ ~moved[c] THEN promised \cup {Current(c)} ELSE promised
    /\ cpc' = [cpc EXCEPT ![c] = "out"]
    /\ Advance(c)

\* Mutants: no notify_one after the push; a full queue is not reported.
PushQuietly(c) ==
    LET q == slot[c] IN
    /\ cpc[c] = "push" /\ wpc[q] # "drowsy"
    /\ Len(queue[q]) < QueueSize
    /\ Enqueue(c, q)
    /\ UNCHANGED <<ownerVars, counter, wpc, task, ran, slot>>
PushFullAccepted(c) ==
    LET q == slot[c] IN
    /\ cpc[c] = "push" /\ wpc[q] # "drowsy"
    /\ Len(queue[q]) >= QueueSize
    /\ accepted' = [accepted EXCEPT ![q] = Append(@, Current(c))]
    /\ cpc' = [cpc EXCEPT ![c] = "out"]
    /\ Advance(c)
    /\ UNCHANGED <<ownerVars, counter, queue, workerVars, slot, promised>>

\* The critical section of AddTask: the push and notify_one.
Push(c) ==
    LET q == slot[c] IN
    /\ cpc[c] = "push" /\ wpc[q] # "drowsy"
    /\ Len(queue[q]) < QueueSize
    /\ Enqueue(c, q)
    /\ wpc' = Woken(q)
    /\ UNCHANGED <<ownerVars, counter, task, ran, slot>>

\* The queue is full; the TaskUnion built for the push has taken the function with it.
PushFull(c) ==
    LET q == slot[c] IN
    /\ cpc[c] = "push" /\ wpc[q] # "drowsy"
    /\ Len(queue[q]) >= QueueSize
    /\ cpc' = [cpc EXCEPT ![c] = "out"]
    /\ Advance(c) \/ OfferAgain(c)
    /\ UNCHANGED <<ownerVars, counter, queue, workerVars, slot, accepted, promised>>

-----------------------------------------------------------------------------
Init ==
    /\ status = 0 /\ phase = "new" /\ toNotify = 1 /\ counter = 0
    /\ queue = [q \in Queues |-> <<>>]
    /\ wpc = [q \in Queues |-> "unborn"]
    /\ task = [q \in Queues |-> NoTask]
    /\ cpc = [c \in Clients |-> "out"]
    /\ slot = [c \in Clients |-> 1]
    /\ number = [c \in Clients |-> 1]
    /\ moved = [c \in Clients |-> FALSE]
    /\ refused = {}
    /\ accepted = [q \in Queues |-> <<>>]
    /\ promised = {}
    /\ ran = [q \in Queues |-> <<>>]

Owner == Start \/ StopCas \/ StopNotify \/ StopJoined
Worker(q) == WaitTest(q) \/ Sleep(q) \/ Test(q) \/ Pop(q) \/ RunTask(q)
Client(c) == AddTaskRefused(c) \/ AddTask(c) \/ Push(c) \/ PushFull(c)

Next ==
    /\ phase # "dead"
    /\ \/ Owner
       \/ \E q \in Queues : Worker(q) \/ SpuriousWakeup(q)
       \/ \E c \in Clients : Client(c)

Spec == Init /\ [][Next]_vars

\* The scheduler runs every worker thread, tasks return, and a Stop that has begun goes
\* on.  Nothing obliges the owner to call Stop or the clients to call AddTask.
Fairness ==
    /\ \A q \in Queues : WF_vars(phase # "dead" /\ Worker(q))
    /\ WF_vars(phase # "dead" /\ (StopNotify \/ StopJoined))

FairSpec == Spec /\ Fairness

-----------------------------------------------------------------------------
(* Properties *)

\* The members and locals of the code have these types, the queues their capacity.
TypeOK ==
    /\ status \in {0, 1}
    /\ phase \in {"new", "up", "notifying", "joining", "stopped", "dead"}
    /\ toNotify \in 1 .. Workers + 1
    /\ phase = "notifying" => toNotify <= Workers
    /\ counter \in 0 .. Workers - 1
    /\ queue \in [Queues -> Seq(Task \cup {Empty})]
    /\ \A q \in Queues : Len(queue[q]) <= QueueSize
    /\ wpc \in [Queues -> {"unborn", "wait", "drowsy", "asleep", "test", "pop", "run", "done"}]
    /\ task \in [Queues -> Task \cup {Empty, NoTask}]
    /\ cpc \in [Clients -> {"out", "push"}]
    /\ slot \in [Clients -> Queues]
    /\ number \in [Clients -> 1 .. TasksPer + 1]
    /\ \A c \in Clients : cpc[c] = "push" => number[c] <= TasksPer
    /\ moved \in [Clients -> BOOLEAN]
    /\ refused \subseteq Task
    /\ accepted \in [Queues -> Seq(Task)]
    /\ promised \subseteq Task
    /\ ran \in [Queues -> Seq(Task)]

\* The task worker q has popped and not finished.
InHand(q) == IF wpc[q] = "run" THEN <<task[q]>> ELSE <<>>

\* What became of the tasks of queue q, oldest first.
Handled(q) == ran[q] \o InHand(q) \o queue[q]

\* A task for which AddTask returned true is run exactly once and in the order of its
\* queue: what a queue accepted is what its worker has run, holds and has still queued.
\* None is lost, none runs twice, none overtakes (AddTask, Push, Pop, ThreadBody), except
\* that a task which a full queue has refused before is an empty function when its client
\* offers it again: AddTask had moved it away.
AcceptedInOrder == \A q \in Queues :
    /\ Len(Handled(q)) = Len(accepted[q])
    /\ \A i \in DOMAIN accepted[q] :
          \/ Handled(q)[i] = accepted[q][i]
          \/ Handled(q)[i] = Empty /\ accepted[q][i] \in refused

\* No lost wakeup: a worker sleeps only on an empty queue of a running pool, or when the
\* notification of a Stop under way is still to come (the mutex in Stop and AddTask).
NoLostWakeup == phase # "dead" => \A q \in Queues :
    wpc[q] = "asleep" => /\ queue[q] = <<>>
                         /\ status = 0 => phase = "notifying" /\ toNotify <= q

\* Stop drains: when it returns, every task accepted before it cleared status_ has run.
\* FilePool::Release relies on this to have every delayed free in the list it dumps.
StopDrains ==
    phase = "stopped" => \A t \in promised : \E q \in Queues : \E i \in DOMAIN ran[q] : ran[q][i] = t

\* Stop returns: the workers, asleep or not when it begins, all come to their end (or an
\* empty function has ended the process).
StopReturns == phase = "notifying" ~> phase \in {"stopped", "dead"}

\* Every task accepted by a running pool is run, whether or not a Stop ever comes, unless
\* an empty function ends the process first.
PromisedRun == []<>(\/ \A t \in promised : \E q \in Queues : \E i \in DOMAIN ran[q] : ran[q][i] = t
                    \/ phase = "dead" /\ refused # {})

=============================================================================
