-------------------------- MODULE ThreadPoolProofs --------------------------
(***************************************************************************)
(* Proofs about ThreadPool for any number of workers, clients and tasks    *)
(* and any queue size: type correctness, that accepted tasks are handled   *)
(* once and in order, that no wakeup is lost and that Stop drains.         *)
(***************************************************************************)
EXTENDS ThreadPool, SequenceTheorems, TLAPS

-----------------------------------------------------------------------------
(* Sequences *)

\* A task pushed at the end of a queue comes after everything handled so far.
LEMMA HandledPush ==
    ASSUME NEW S, NEW r \in Seq(S), NEW h \in Seq(S), NEW s \in Seq(S), NEW x \in S
    PROVE  r \o h \o Append(s, x) = Append(r \o h \o s, x)
  <1>1. r \o h \in Seq(S)
    BY ConcatProperties
  <1>2. <<x>> \in Seq(S)
    OBVIOUS
  <1>3. Append(s, x) = s \o <<x>>
    BY AppendIsConcat
  <1>4. r \o h \o s \in Seq(S)
    BY <1>1, ConcatProperties
  <1>5. Append(r \o h \o s, x) = (r \o h \o s) \o <<x>>
    BY <1>4, AppendIsConcat
  <1>6. (r \o h) \o (s \o <<x>>) = (r \o h \o s) \o <<x>>
    BY <1>1, <1>2, ConcatAssociative
  <1>7. QED
    BY <1>3, <1>5, <1>6

\* The head of a queue, taken in hand, keeps its place.
LEMMA HandledPop ==
    ASSUME NEW S, NEW r \in Seq(S), NEW s \in Seq(S), s # <<>>
    PROVE  r \o <<Head(s)>> \o Tail(s) = r \o <<>> \o s
  <1>1. Head(s) \in S /\ Tail(s) \in Seq(S) /\ s = <<Head(s)>> \o Tail(s)
    <2>1. Head(s) \in S /\ Tail(s) \in Seq(S)
      BY HeadTailProperties
    <2>2. Len(<<Head(s)>> \o Tail(s)) = Len(s)
      BY <2>1, HeadTailProperties, ConcatProperties
    <2>3. \A i \in 1 .. Len(s) : s[i] = (<<Head(s)>> \o Tail(s))[i]
      BY <2>1, HeadTailProperties, ConcatProperties
    <2>4. QED
      BY <2>1, <2>2, <2>3, SeqEqual, ConcatProperties
  <1>2. <<Head(s)>> \in Seq(S)
    BY <1>1
  <1>3. r \o <<Head(s)>> \o Tail(s) = r \o (<<Head(s)>> \o Tail(s))
    BY <1>1, <1>2, ConcatAssociative
  <1>4. r \o <<>> = r
    BY ConcatEmptySeq
  <1>5. QED
    BY <1>1, <1>3, <1>4

\* A task that has run keeps its place.
LEMMA HandledRun ==
    ASSUME NEW S, NEW r \in Seq(S), NEW s \in Seq(S), NEW x \in S
    PROVE  Append(r, x) \o <<>> \o s = r \o <<x>> \o s
  <1>1. Append(r, x) \in Seq(S) /\ Append(r, x) = r \o <<x>>
    BY AppendProperties, AppendIsConcat
  <1>2. Append(r, x) \o <<>> = Append(r, x)
    BY <1>1, ConcatEmptySeq
  <1>3. QED
    BY <1>1, <1>2

-----------------------------------------------------------------------------
(* Type correctness *)

\* A worker that runs has popped something from its queue, and none does before Start.
Holding ==
    /\ \A q \in Queues : wpc[q] = "run" => task[q] \in Task \cup {Empty}
    /\ phase = "new" => \A q \in Queues : wpc[q] = "unborn"

TInv == TypeOK /\ Holding

LEMMA Modulo == ASSUME NEW n \in Nat \ {0}, NEW x \in Int PROVE (x % n) \in 0 .. n - 1
  OBVIOUS

LEMMA CurrentTask ==
    ASSUME NEW c \in Clients, TypeOK, number[c] <= TasksPer
    PROVE  Current(c) \in Task
  BY ThreadAssumption DEF TypeOK, Current, Task, ThreadAssumption

\* Waking a worker keeps it one of the places of ThreadBody and starts none on a task.
LEMMA WokenPlaces ==
    ASSUME TInv, NEW q
    PROVE  /\ Woken(q) \in [Queues -> {"unborn", "wait", "drowsy", "asleep", "test", "pop", "run", "done"}]
           /\ \A p \in Queues : Woken(q)[p] = IF p = q /\ wpc[p] = "asleep" THEN "wait" ELSE wpc[p]
  BY DEF TInv, TypeOK, Woken

LEMMA InitTInv == Init => TInv
  BY ThreadAssumption DEF Init, TInv, TypeOK, Holding, Queues, ThreadAssumption

LEMMA StopNotifyTInv == TInv /\ StopNotify => TInv'
  <1>. SUFFICES ASSUME TInv, StopNotify PROVE TInv'
    OBVIOUS
  <1>1. toNotify' \in 1 .. Workers + 1 /\ (phase' = "notifying" => toNotify' <= Workers)
    BY ThreadAssumption DEF ThreadAssumption, TInv, TypeOK, StopNotify
  <1>2. phase' \in {"notifying", "joining"}
    BY DEF StopNotify
  <1>3. task' = task /\ wpc' = Woken(toNotify)
    BY DEF StopNotify
  <1>4. Holding'
    BY <1>2, <1>3, WokenPlaces DEF TInv, Holding
  <1>5. QED
    BY <1>1, <1>2, <1>3, <1>4, WokenPlaces DEF StopNotify, TInv, TypeOK, clientVars

LEMMA OwnerTInv == TInv /\ Owner => TInv'
  <1>. USE ThreadAssumption DEF ThreadAssumption, TInv, TypeOK, Holding, Queues, workerVars, clientVars
  <1>1. TInv /\ Start => TInv'
    BY DEF Start
  <1>2. TInv /\ StopCas => TInv'
    BY DEF StopCas
  <1>3. TInv /\ StopNotify => TInv'
    BY StopNotifyTInv
  <1>4. TInv /\ StopJoined => TInv'
    BY DEF StopJoined
  <1>5. QED
    BY <1>1, <1>2, <1>3, <1>4 DEF Owner

LEMMA PopTInv == ASSUME TInv, NEW q \in Queues, Pop(q) PROVE TInv'
  <1>1. CASE queue[q] = <<>>
    BY <1>1 DEF Pop, TInv, TypeOK, Holding, ownerVars, clientVars
  <1>2. CASE queue[q] # <<>>
    <2>1. queue[q] \in Seq(Task \cup {Empty}) /\ Len(queue[q]) <= QueueSize /\ Len(queue[q]) \in Nat
      BY LenProperties DEF TInv, TypeOK
    <2>2. /\ Head(queue[q]) \in Task \cup {Empty}
          /\ Tail(queue[q]) \in Seq(Task \cup {Empty})
          /\ Len(Tail(queue[q])) <= QueueSize
      BY <1>2, <2>1, HeadTailProperties, ThreadAssumption DEF ThreadAssumption
    <2>3. /\ wpc' = [wpc EXCEPT ![q] = "run"]
          /\ task' = [task EXCEPT ![q] = Head(queue[q])]
          /\ queue' = [queue EXCEPT ![q] = Tail(@)]
          /\ UNCHANGED <<ownerVars, counter, ran, clientVars>>
      BY <1>2 DEF Pop
    <2>4. Holding'
      <3>1. phase' = phase /\ phase # "new"
        BY <2>3 DEF Pop, TInv, Holding, ownerVars
      <3>2. QED
        BY <2>2, <2>3, <3>1 DEF TInv, TypeOK, Holding
    <2>5. /\ queue' \in [Queues -> Seq(Task \cup {Empty})]
          /\ \A p \in Queues : Len(queue'[p]) <= QueueSize
      BY <2>2, <2>3 DEF TInv, TypeOK
    <2>6. QED
      BY <2>2, <2>3, <2>4, <2>5 DEF TInv, TypeOK, ownerVars, clientVars
  <1>3. QED
    BY <1>1, <1>2

LEMMA AddTaskTInv == ASSUME TInv, NEW c \in Clients, AddTask(c) PROVE TInv'
  <1>1. counter \in Int /\ counter + 1 \in 1 .. Workers
    BY ThreadAssumption DEF ThreadAssumption, TInv, TypeOK
  <1>2. counter' \in 0 .. Workers - 1
    BY <1>1, Modulo, ThreadAssumption DEF ThreadAssumption, AddTask
  <1>3. slot' \in [Clients -> Queues]
    BY <1>1 DEF TInv, TypeOK, AddTask, Queues
  <1>4. cpc' \in [Clients -> {"out", "push"}] /\ (\A d \in Clients : cpc'[d] = "push" => number[d] <= TasksPer)
    BY DEF TInv, TypeOK, AddTask
  <1>5. QED
    BY <1>2, <1>3, <1>4 DEF TInv, TypeOK, Holding, AddTask, ownerVars, workerVars

LEMMA PushTInv == ASSUME TInv, NEW c \in Clients, Push(c) PROVE TInv'
  <1>. DEFINE q == slot[c]
              x == IF moved[c] THEN Empty ELSE Current(c)
  <1>1. q \in Queues /\ Current(c) \in Task /\ x \in Task \cup {Empty}
    BY CurrentTask DEF Push, TInv, TypeOK
  <1>2. /\ Len(queue[q]) < QueueSize
        /\ queue' = [queue EXCEPT ![q] = Append(@, x)]
        /\ accepted' = [accepted EXCEPT ![q] = Append(@, Current(c))]
        /\ wpc' = Woken(q)
    BY DEF Push, Enqueue
  <1>. HIDE DEF q, x
  <1>3. queue[q] \in Seq(Task \cup {Empty}) /\ Len(queue[q]) \in Nat /\ accepted[q] \in Seq(Task)
    BY <1>1, LenProperties DEF TInv, TypeOK
  <1>4. /\ Append(queue[q], x) \in Seq(Task \cup {Empty})
        /\ Len(Append(queue[q], x)) <= QueueSize
        /\ Append(accepted[q], Current(c)) \in Seq(Task)
    BY <1>1, <1>2, <1>3, AppendProperties, ThreadAssumption DEF ThreadAssumption
  <1>5. /\ queue' \in [Queues -> Seq(Task \cup {Empty})]
        /\ \A p \in Queues : Len(queue'[p]) <= QueueSize
        /\ accepted' \in [Queues -> Seq(Task)]
    BY <1>1, <1>2, <1>4 DEF TInv, TypeOK
  <1>6. cpc' \in [Clients -> {"out", "push"}] /\ moved' \in [Clients -> BOOLEAN]
    BY DEF TInv, TypeOK, Push, Enqueue, Advance
  <1>7. number[c] + 1 \in 1 .. TasksPer + 1
    BY ThreadAssumption DEF ThreadAssumption, TInv, TypeOK, Push
  <1>8. number' \in [Clients -> 1 .. TasksPer + 1] /\ (\A d \in Clients : cpc'[d] = "push" => number'[d] <= TasksPer)
    BY <1>7 DEF TInv, TypeOK, Push, Enqueue, Advance
  <1>9. promised' \subseteq Task
    BY <1>1 DEF TInv, TypeOK, Push, Enqueue
  <1>10. Holding'
    BY <1>2, WokenPlaces DEF Push, TInv, Holding, ownerVars
  <1>11. QED
    BY <1>2, <1>5, <1>6, <1>8, <1>9, <1>10, WokenPlaces DEF TInv, TypeOK, Push, Enqueue, Advance, ownerVars

LEMMA WorkerTInv == ASSUME TInv, NEW q \in Queues, Worker(q) \/ SpuriousWakeup(q) PROVE TInv'
  <1>. USE ThreadAssumption DEF ThreadAssumption, TInv, TypeOK, Holding, ownerVars, clientVars
  <1>1. CASE WaitTest(q)
    BY <1>1 DEF WaitTest
  <1>2. CASE Sleep(q)
    BY <1>2 DEF Sleep
  <1>3. CASE Test(q)
    BY <1>3 DEF Test
  <1>4. CASE Pop(q)
    BY <1>4, PopTInv
  <1>5. CASE RunTask(q)
    <2>1. CASE task[q] = Empty
      BY <1>5, <2>1 DEF RunTask
    <2>2. CASE task[q] # Empty
      <3>1. task[q] \in Task
        BY <1>5, <2>2 DEF RunTask
      <3>2. Append(ran[q], task[q]) \in Seq(Task)
        BY <3>1, AppendProperties
      <3>3. QED
        BY <1>5, <2>2, <3>2 DEF RunTask
    <2>3. QED
      BY <2>1, <2>2
  <1>6. CASE SpuriousWakeup(q)
    BY <1>6 DEF SpuriousWakeup, Woken
  <1>7. QED
    BY <1>1, <1>2, <1>3, <1>4, <1>5, <1>6 DEF Worker

LEMMA ClientTInv == ASSUME TInv, NEW c \in Clients, Client(c) PROVE TInv'
  <1>. USE ThreadAssumption DEF ThreadAssumption, TInv, TypeOK, Holding, ownerVars, workerVars
  <1>1. CASE AddTaskRefused(c)
    BY <1>1 DEF AddTaskRefused, Advance
  <1>2. CASE AddTask(c)
    BY <1>2, AddTaskTInv
  <1>3. CASE Push(c)
    BY <1>3, PushTInv
  <1>4. CASE PushFull(c)
    <2>1. Current(c) \in Task
      BY <1>4, CurrentTask DEF PushFull
    <2>2. number[c] + 1 \in 1 .. TasksPer + 1
      BY <1>4 DEF PushFull
    <2>3. cpc' = [cpc EXCEPT ![c] = "out"] /\ UNCHANGED <<ownerVars, counter, queue, workerVars, slot, accepted, promised>>
      BY <1>4 DEF PushFull
    <2>4. CASE Advance(c)
      BY <2>2, <2>3, <2>4 DEF Advance
    <2>5. CASE OfferAgain(c)
      BY <2>1, <2>3, <2>5 DEF OfferAgain
    <2>6. QED
      BY <1>4, <2>4, <2>5 DEF PushFull
  <1>5. QED
    BY <1>1, <1>2, <1>3, <1>4 DEF Client

LEMMA NextTInv == TInv /\ [Next]_vars => TInv'
  <1>1. TInv /\ Next => TInv'
    BY OwnerTInv, WorkerTInv, ClientTInv DEF Next
  <1>2. TInv /\ UNCHANGED vars => TInv'
    BY DEF TInv, TypeOK, Holding, vars, ownerVars, workerVars, clientVars
  <1>3. QED
    BY <1>1, <1>2

\* The members and locals of the pool, its workers and its clients keep their types, and
\* no queue exceeds its capacity.
THEOREM TypeCorrect == Spec => []TInv
  <1>1. QED
    BY InitTInv, NextTInv, PTL DEF Spec

-----------------------------------------------------------------------------
(* What becomes of the accepted tasks *)

\* A client offers an empty function only for a task that was refused before.
Refused == \A c \in Clients : moved[c] => Current(c) \in refused

OrderInv == TInv /\ Refused /\ AcceptedInOrder

\* The steps that leave queue q as it is handle the same tasks, those of the worker of q
\* too, which only move a task from the queue into its hand and on to what has run.
LEMMA HandledKept ==
    ASSUME TInv, NEW q \in Queues, Worker(q) \/ SpuriousWakeup(q)
    PROVE  \A p \in Queues : Handled(p)' = Handled(p)
  <1>1. \A p \in Queues \ {q} :
            queue'[p] = queue[p] /\ wpc'[p] = wpc[p] /\ task'[p] = task[p] /\ ran'[p] = ran[p]
    BY DEF TInv, TypeOK, Worker, WaitTest, Sleep, Test, Pop, RunTask, SpuriousWakeup, Woken
  <1>2. \A p \in Queues \ {q} : Handled(p)' = Handled(p)
    BY <1>1 DEF Handled, InHand
  <1>. DEFINE S == Task \cup {Empty}
  <1>3. queue[q] \in Seq(S) /\ ran[q] \in Seq(Task) /\ Seq(Task) \subseteq Seq(S)
    BY SeqMonotonic DEF TInv, TypeOK
  <1>4. ran[q] \in Seq(S)
    BY <1>3
  <1>. HIDE DEF S
  <1>5. CASE WaitTest(q) \/ Sleep(q) \/ Test(q) \/ SpuriousWakeup(q)
    <2>1. queue' = queue /\ ran' = ran /\ task' = task /\ wpc[q] # "run" /\ wpc'[q] # "run"
      BY <1>5 DEF WaitTest, Sleep, Test, SpuriousWakeup, Woken, TInv, TypeOK
    <2>2. Handled(q)' = Handled(q)
      BY <2>1 DEF Handled, InHand
    <2>3. QED
      BY <1>2, <2>2
  <1>6. CASE Pop(q)
    <2>1. CASE queue[q] = <<>>
      <3>1. queue' = queue /\ ran' = ran /\ task' = task /\ wpc[q] # "run" /\ wpc'[q] # "run"
        BY <1>6, <2>1 DEF Pop, TInv, TypeOK
      <3>2. Handled(q)' = Handled(q)
        BY <3>1 DEF Handled, InHand
      <3>3. QED
        BY <1>2, <3>2
    <2>2. CASE queue[q] # <<>>
      <3>1. /\ ran' = ran /\ wpc[q] # "run" /\ wpc'[q] = "run"
            /\ task'[q] = Head(queue[q]) /\ queue'[q] = Tail(queue[q])
        BY <1>6, <2>2 DEF Pop, TInv, TypeOK
      <3>2. Handled(q)' = ran[q] \o <<Head(queue[q])>> \o Tail(queue[q])
        BY <3>1 DEF Handled, InHand
      <3>3. Handled(q) = ran[q] \o <<>> \o queue[q]
        BY <3>1 DEF Handled, InHand
      <3>4. Handled(q)' = Handled(q)
        BY <1>3, <1>4, <2>2, <3>2, <3>3, HandledPop
      <3>5. QED
        BY <1>2, <3>4
    <2>3. QED
      BY <2>1, <2>2
  <1>7. CASE RunTask(q)
    <2>1. CASE task[q] = Empty
      <3>1. queue' = queue /\ ran' = ran /\ task' = task /\ wpc' = wpc
        BY <1>7, <2>1 DEF RunTask, clientVars
      <3>2. QED
        BY <1>2, <3>1 DEF Handled, InHand
    <2>2. CASE task[q] # Empty
      <3>1. /\ queue' = queue /\ wpc[q] = "run" /\ wpc'[q] = "wait"
            /\ ran'[q] = Append(ran[q], task[q])
        BY <1>7, <2>2 DEF RunTask, TInv, TypeOK
      <3>2. Handled(q)' = Append(ran[q], task[q]) \o <<>> \o queue[q]
        BY <3>1 DEF Handled, InHand
      <3>3. Handled(q) = ran[q] \o <<task[q]>> \o queue[q]
        BY <3>1 DEF Handled, InHand
      <3>4. task[q] \in S
        BY <3>1 DEF TInv, Holding, S
      <3>5. Handled(q)' = Handled(q)
        BY <1>3, <1>4, <3>2, <3>3, <3>4, HandledRun
      <3>6. QED
        BY <1>2, <3>5
    <2>3. QED
      BY <2>1, <2>2
  <1>8. QED
    BY <1>5, <1>6, <1>7 DEF Worker

\* A queue's history is a sequence of tasks and empty functions.
LEMMA HandledType == TInv => \A q \in Queues : Handled(q) \in Seq(Task \cup {Empty})
  <1>. SUFFICES ASSUME TInv, NEW q \in Queues
                PROVE  Handled(q) \in Seq(Task \cup {Empty})
    OBVIOUS
  <1>. DEFINE S == Task \cup {Empty}
  <1>1. queue[q] \in Seq(S) /\ ran[q] \in Seq(Task) /\ Seq(Task) \subseteq Seq(S)
    BY SeqMonotonic DEF TInv, TypeOK
  <1>2. wpc[q] = "run" => task[q] \in S
    BY DEF TInv, Holding
  <1>. HIDE DEF S
  <1>3. InHand(q) \in Seq(S)
    BY <1>2 DEF InHand
  <1>4. ran[q] \o InHand(q) \in Seq(S)
    BY <1>1, <1>3, ConcatProperties
  <1>5. QED
    BY <1>1, <1>4, ConcatProperties DEF Handled, S

\* Push appends to what one queue has accepted and handled, and to no other.
LEMMA PushHandled ==
    ASSUME TInv, NEW c \in Clients, Push(c), NEW q \in Queues, q = slot[c]
    PROVE  /\ \A p \in Queues \ {q} : Handled(p)' = Handled(p) /\ accepted'[p] = accepted[p]
           /\ Handled(q)' = Append(Handled(q), IF moved[c] THEN Empty ELSE Current(c))
           /\ accepted'[q] = Append(accepted[q], Current(c))
  <1>. DEFINE x == IF moved[c] THEN Empty ELSE Current(c)
              S == Task \cup {Empty}
  <1>1. Current(c) \in Task /\ x \in S
    BY CurrentTask DEF Push, TInv, TypeOK
  <1>2. /\ queue' = [queue EXCEPT ![q] = Append(@, x)]
        /\ accepted' = [accepted EXCEPT ![q] = Append(@, Current(c))]
        /\ wpc' = Woken(q) /\ task' = task /\ ran' = ran
    BY DEF Push, Enqueue
  <1>3. queue[q] \in Seq(S) /\ ran[q] \in Seq(Task) /\ Seq(Task) \subseteq Seq(S)
    BY <1>1, SeqMonotonic DEF TInv, TypeOK
  <1>4. wpc[q] = "run" => task[q] \in S
    BY <1>1 DEF TInv, Holding
  <1>. HIDE DEF x, S
  <1>5. InHand(q) \in Seq(S)
    BY <1>4 DEF InHand
  <1>6. \A p \in Queues : (wpc'[p] = "run") <=> (wpc[p] = "run")
    BY <1>2, WokenPlaces
  <1>7. \A p \in Queues : InHand(p)' = InHand(p)
    BY <1>2, <1>6 DEF InHand
  <1>8. \A p \in Queues \ {q} : Handled(p)' = Handled(p) /\ accepted'[p] = accepted[p]
    BY <1>2, <1>7 DEF Handled, TInv, TypeOK
  <1>9. queue'[q] = Append(queue[q], x) /\ accepted'[q] = Append(accepted[q], Current(c))
    BY <1>1, <1>2 DEF TInv, TypeOK
  <1>10. Handled(q)' = ran[q] \o InHand(q) \o Append(queue[q], x)
    BY <1>1, <1>2, <1>7, <1>9 DEF Handled
  <1>11. Handled(q)' = Append(Handled(q), x)
    <2>1. ran[q] \in Seq(S) /\ queue[q] \in Seq(S) /\ x \in S
      BY <1>1, <1>3
    <2>2. PICK r \in Seq(S) : r = ran[q]
      BY <2>1
    <2>3. PICK h \in Seq(S) : h = InHand(q)
      BY <1>5
    <2>4. PICK s \in Seq(S) : s = queue[q]
      BY <2>1
    <2>5. PICK y \in S : y = x
      BY <2>1
    <2>6. r \o h \o Append(s, y) = Append(r \o h \o s, y)
      BY HandledPush
    <2>7. Handled(q)' = r \o h \o Append(s, y)
      BY <1>10, <2>2, <2>3, <2>4, <2>5
    <2>8. Handled(q) = r \o h \o s
      BY <2>2, <2>3, <2>4 DEF Handled
    <2>9. QED
      BY <2>5, <2>6, <2>7, <2>8
  <1>12. QED
    BY <1>1, <1>8, <1>9, <1>11 DEF x

LEMMA InitOrderInv == Init => OrderInv
  <1>. SUFFICES ASSUME Init PROVE OrderInv
    OBVIOUS
  <1>1. TInv /\ Refused
    BY InitTInv DEF Init, Refused
  <1>2. \A q \in Queues : Handled(q) = <<>> /\ accepted[q] = <<>>
    BY DEF Init, Handled, InHand
  <1>3. QED
    BY <1>1, <1>2 DEF OrderInv, AcceptedInOrder

LEMMA RefusedKept == OrderInv /\ [Next]_vars => Refused'
  <1>. SUFFICES ASSUME OrderInv, [Next]_vars PROVE Refused'
    OBVIOUS
  <1>. USE DEF OrderInv, TInv, TypeOK, Refused, Current
  <1>1. ASSUME NEW c \in Clients, AddTaskRefused(c) PROVE Refused'
    BY <1>1 DEF AddTaskRefused, Advance
  <1>2. ASSUME NEW c \in Clients, AddTask(c) PROVE Refused'
    BY <1>2 DEF AddTask
  <1>3. ASSUME NEW c \in Clients, Push(c) PROVE Refused'
    BY <1>3 DEF Push, Enqueue, Advance
  <1>4. ASSUME NEW c \in Clients, PushFull(c) PROVE Refused'
    <2>1. CASE Advance(c)
      BY <2>1 DEF Advance
    <2>2. CASE OfferAgain(c)
      BY <2>2 DEF OfferAgain
    <2>3. QED
      BY <1>4, <2>1, <2>2 DEF PushFull
  <1>5. CASE UNCHANGED clientVars
    BY <1>5 DEF clientVars
  <1>6. CASE UNCHANGED vars
    BY <1>6 DEF vars, clientVars
  <1>7. Owner => UNCHANGED clientVars
    BY DEF Owner, Start, StopCas, StopNotify, StopJoined
  <1>8. ASSUME NEW q \in Queues, Worker(q) \/ SpuriousWakeup(q) PROVE UNCHANGED clientVars
    BY <1>8 DEF Worker, WaitTest, Sleep, Test, Pop, RunTask, SpuriousWakeup
  <1>9. QED
    BY <1>1, <1>2, <1>3, <1>4, <1>5, <1>6, <1>7, <1>8 DEF Next, Client

\* Every step but a push keeps what is handled and what is accepted.
LEMMA QuietSteps ==
    ASSUME TInv, [Next]_vars, \A c \in Clients : ~Push(c)
    PROVE  (\A q \in Queues : Handled(q)' = Handled(q)) /\ accepted' = accepted
  <1>1. CASE Owner
    <2>1. queue' = queue /\ ran' = ran /\ task' = task /\ accepted' = accepted
      BY <1>1 DEF Owner, Start, StopCas, StopNotify, StopJoined, workerVars, clientVars
    <2>2. CASE Start
      <3>1. \A q \in Queues : InHand(q) = <<>> /\ InHand(q)' = <<>>
        BY <2>2 DEF Start, InHand, TInv, Holding
      <3>2. QED
        BY <2>1, <3>1 DEF Handled
    <2>3. CASE StopCas \/ StopNotify \/ StopJoined
      <3>1. \A q \in Queues : (wpc'[q] = "run") <=> (wpc[q] = "run")
        BY <2>3, WokenPlaces DEF StopCas, StopNotify, StopJoined, workerVars
      <3>2. QED
        BY <2>1, <3>1 DEF Handled, InHand
    <2>4. QED
      BY <1>1, <2>2, <2>3 DEF Owner
  <1>2. ASSUME NEW q \in Queues, Worker(q) \/ SpuriousWakeup(q)
        PROVE  (\A p \in Queues : Handled(p)' = Handled(p)) /\ accepted' = accepted
    BY <1>2, HandledKept DEF Worker, WaitTest, Sleep, Test, Pop, RunTask, SpuriousWakeup, clientVars
  <1>3. ASSUME NEW c \in Clients, Client(c)
        PROVE  UNCHANGED <<queue, ran, task, wpc, accepted>>
    BY <1>3 DEF Client, AddTaskRefused, AddTask, PushFull, workerVars
  <1>4. CASE UNCHANGED <<queue, ran, task, wpc, accepted>>
    BY <1>4 DEF Handled, InHand
  <1>5. UNCHANGED vars => UNCHANGED <<queue, ran, task, wpc, accepted>>
    BY DEF vars, workerVars, clientVars
  <1>6. QED
    BY <1>1, <1>2, <1>3, <1>4, <1>5 DEF Next

LEMMA OrderKept == OrderInv /\ [Next]_vars => AcceptedInOrder'
  <1>. SUFFICES ASSUME OrderInv, [Next]_vars PROVE AcceptedInOrder'
    OBVIOUS
  <1>0. TInv
    BY DEF OrderInv
  <1>1. refused \subseteq refused'
    BY DEF Next, Owner, Start, StopCas, StopNotify, StopJoined, Worker, WaitTest, Sleep, Test, Pop,
           RunTask, SpuriousWakeup, Client, AddTaskRefused, AddTask, Push, Enqueue, PushFull, Advance,
           OfferAgain, vars, clientVars
  <1>2. CASE \A c \in Clients : ~Push(c)
    BY <1>0, <1>1, <1>2, QuietSteps DEF OrderInv, AcceptedInOrder
  <1>3. ASSUME NEW c \in Clients, Push(c) PROVE AcceptedInOrder'
    <2>0. PICK q \in Queues : q = slot[c]
      BY <1>0, <1>3 DEF TInv, TypeOK
    <2>. DEFINE x == IF moved[c] THEN Empty ELSE Current(c)
    <2>1. /\ \A p \in Queues \ {q} : Handled(p)' = Handled(p) /\ accepted'[p] = accepted[p]
          /\ Handled(q)' = Append(Handled(q), x)
          /\ accepted'[q] = Append(accepted[q], Current(c))
      BY <1>0, <1>3, <2>0, PushHandled
    <2>2. x = Current(c) \/ (x = Empty /\ Current(c) \in refused)
      BY DEF OrderInv, Refused
    <2>3. Current(c) \in Task /\ x \in Task \cup {Empty}
      BY <1>0, <1>3, CurrentTask DEF TInv, TypeOK, Push
    <2>4. Handled(q) \in Seq(Task \cup {Empty}) /\ accepted[q] \in Seq(Task)
      BY <1>0, <2>1, HandledType DEF TInv, TypeOK
    <2>. HIDE DEF x
    <2>5. /\ Len(Handled(q)') = Len(Handled(q)) + 1
          /\ Len(accepted'[q]) = Len(accepted[q]) + 1
          /\ \A i \in 1 .. Len(Handled(q)) : Handled(q)'[i] = Handled(q)[i]
          /\ \A i \in 1 .. Len(accepted[q]) : accepted'[q][i] = accepted[q][i]
          /\ Handled(q)'[Len(Handled(q)) + 1] = x
          /\ accepted'[q][Len(accepted[q]) + 1] = Current(c)
      BY <2>1, <2>3, <2>4, AppendProperties
    <2>6. /\ Len(Handled(q)) = Len(accepted[q]) /\ Len(accepted[q]) \in Nat
          /\ DOMAIN accepted[q] = 1 .. Len(accepted[q])
          /\ DOMAIN accepted'[q] = 1 .. (Len(accepted[q]) + 1)
      <3>1. Append(accepted[q], Current(c)) \in Seq(Task)
        BY <2>3, <2>4, AppendProperties
      <3>2. QED
        BY <2>1, <2>4, <2>5, <3>1, LenProperties DEF OrderInv, AcceptedInOrder
    <2>7. \A i \in DOMAIN accepted[q] :
              Handled(q)[i] = accepted[q][i] \/ (Handled(q)[i] = Empty /\ accepted[q][i] \in refused)
      BY <2>1 DEF OrderInv, AcceptedInOrder
    <2>8. \A i \in DOMAIN accepted'[q] :
              Handled(q)'[i] = accepted'[q][i] \/ (Handled(q)'[i] = Empty /\ accepted'[q][i] \in refused')
      <3>1. ASSUME NEW i \in DOMAIN accepted'[q]
            PROVE  i \in 1 .. Len(accepted[q]) \/ i = Len(accepted[q]) + 1
        BY <2>6, <3>1
      <3>2. ASSUME NEW i \in 1 .. Len(accepted[q])
            PROVE  Handled(q)'[i] = accepted'[q][i] \/ (Handled(q)'[i] = Empty /\ accepted'[q][i] \in refused')
        BY <1>1, <2>5, <2>6, <2>7, <3>2
      <3>3. QED
        BY <1>1, <2>2, <2>5, <2>6, <3>1, <3>2
    <2>9. ASSUME NEW p \in Queues
          PROVE  /\ Len(Handled(p)') = Len(accepted'[p])
                 /\ \A i \in DOMAIN accepted'[p] :
                       Handled(p)'[i] = accepted'[p][i] \/ (Handled(p)'[i] = Empty /\ accepted'[p][i] \in refused')
      <3>1. CASE p = q
        BY <2>5, <2>6, <2>8, <3>1
      <3>2. CASE p # q
        BY <1>1, <2>1, <3>2 DEF OrderInv, AcceptedInOrder
      <3>3. QED
        BY <3>1, <3>2
    <2>10. QED
      BY <2>9 DEF AcceptedInOrder
  <1>4. QED
    BY <1>2, <1>3

LEMMA NextOrderInv == OrderInv /\ [Next]_vars => OrderInv'
  BY NextTInv, RefusedKept, OrderKept DEF OrderInv

\* Every accepted task is run, in hand or queued exactly once and in the order of its
\* queue, whatever the interleaving of clients, workers and Stop; only a task refused
\* before may stand there as an empty function (AddTask, ThreadBody).
THEOREM TasksInOrder == Spec => []AcceptedInOrder
  <1>1. OrderInv => AcceptedInOrder
    BY DEF OrderInv
  <1>2. QED
    BY InitOrderInv, NextOrderInv, <1>1, PTL DEF Spec

-----------------------------------------------------------------------------
(* No wakeup is lost *)

\* A worker that has decided to sleep, asleep already or not, has nothing to do: its
\* queue is empty and the pool runs, or the notification of Stop is still to come.
Idle(q) ==
    /\ queue[q] = <<>>
    /\ status = 0 => phase = "notifying" /\ toNotify <= q

Drowsing == phase # "dead" => \A q \in Queues : wpc[q] \in {"drowsy", "asleep"} => Idle(q)

WakeInv == TInv /\ Drowsing

\* A step that leaves the owner, the workers and the queues alone keeps Drowsing.
LEMMA DrowsingQuiet == Drowsing /\ UNCHANGED <<ownerVars, wpc, queue>> => Drowsing'
  BY DEF Drowsing, Idle, ownerVars

LEMMA DrowsingOwner == TInv /\ Drowsing /\ Owner => Drowsing'
  <1>. SUFFICES ASSUME TInv, Drowsing PROVE Owner => Drowsing'
    OBVIOUS
  <1>1. Start => Drowsing'
    BY DEF Start, Drowsing, Idle
  <1>2. StopCas => Drowsing'
    BY DEF StopCas, Drowsing, Idle, workerVars, Queues
  <1>3. ASSUME StopNotify PROVE Drowsing'
    <2>1. /\ phase = "notifying" /\ phase' \in {"notifying", "joining"}
          /\ toNotify' = toNotify + 1 /\ toNotify \in 1 .. Workers
          /\ phase' = IF toNotify = Workers THEN "joining" ELSE "notifying"
          /\ status' = status /\ queue' = queue /\ wpc' = Woken(toNotify)
          /\ wpc[toNotify] # "drowsy"
      BY <1>3, ThreadAssumption DEF StopNotify, TInv, TypeOK, ThreadAssumption
    <2>2. ASSUME NEW q \in Queues, wpc'[q] \in {"drowsy", "asleep"} PROVE Idle(q)'
      <3>1. q # toNotify /\ wpc[q] \in {"drowsy", "asleep"}
        BY <2>1, <2>2, WokenPlaces
      <3>2. Idle(q)
        BY <2>1, <3>1 DEF Drowsing
      <3>3. status = 0 => toNotify + 1 <= q /\ toNotify # Workers
        BY <2>1, <3>1, <3>2, ThreadAssumption DEF Idle, Queues, ThreadAssumption
      <3>4. QED
        BY <2>1, <3>2, <3>3 DEF Idle
    <2>3. QED
      BY <2>2 DEF Drowsing
  <1>4. StopJoined => Drowsing'
    BY DEF StopJoined, Drowsing, workerVars
  <1>5. QED
    BY <1>1, <1>2, <1>3, <1>4 DEF Owner

LEMMA DrowsingWorker ==
    ASSUME TInv, Drowsing, phase # "dead", NEW q \in Queues, Worker(q) \/ SpuriousWakeup(q)
    PROVE  Drowsing'
  <1>. USE DEF TInv, TypeOK, Drowsing, Idle, ownerVars
  <1>1. CASE WaitTest(q)
    BY <1>1 DEF WaitTest
  <1>2. CASE Sleep(q)
    BY <1>2 DEF Sleep
  <1>3. CASE Test(q)
    BY <1>3 DEF Test
  <1>4. CASE Pop(q)
    BY <1>4 DEF Pop
  <1>5. CASE RunTask(q)
    BY <1>5 DEF RunTask
  <1>6. CASE SpuriousWakeup(q)
    BY <1>6 DEF SpuriousWakeup, Woken
  <1>7. QED
    BY <1>1, <1>2, <1>3, <1>4, <1>5, <1>6 DEF Worker

LEMMA DrowsingPush == ASSUME TInv, Drowsing, NEW c \in Clients, Push(c) PROVE Drowsing'
  <1>1. PICK q \in Queues : q = slot[c]
    BY DEF TInv, TypeOK
  <1>2. /\ wpc[q] # "drowsy" /\ wpc' = Woken(q) /\ UNCHANGED ownerVars
        /\ \A p \in Queues \ {q} : queue'[p] = queue[p]
    BY <1>1 DEF Push, Enqueue, TInv, TypeOK
  <1>3. ASSUME NEW p \in Queues, wpc'[p] \in {"drowsy", "asleep"}
        PROVE  p # q /\ wpc[p] \in {"drowsy", "asleep"}
    BY <1>2, <1>3, WokenPlaces
  <1>4. QED
    BY <1>2, <1>3 DEF Drowsing, Idle, ownerVars

LEMMA NextWakeInv == WakeInv /\ [Next]_vars => WakeInv'
  <1>. SUFFICES ASSUME WakeInv, [Next]_vars PROVE Drowsing'
    BY NextTInv DEF WakeInv
  <1>0. TInv /\ Drowsing
    BY DEF WakeInv
  <1>1. CASE phase # "dead" /\ Owner
    BY <1>0, <1>1, DrowsingOwner
  <1>2. ASSUME phase # "dead", NEW q \in Queues, Worker(q) \/ SpuriousWakeup(q) PROVE Drowsing'
    BY <1>0, <1>2, DrowsingWorker
  <1>3. ASSUME NEW c \in Clients, Client(c) PROVE Drowsing'
    <2>1. CASE Push(c)
      BY <1>0, <2>1, DrowsingPush
    <2>2. CASE AddTaskRefused(c) \/ AddTask(c) \/ PushFull(c)
      BY <1>0, <2>2, DrowsingQuiet DEF AddTaskRefused, AddTask, PushFull, workerVars
    <2>3. QED
      BY <1>3, <2>1, <2>2 DEF Client
  <1>4. CASE UNCHANGED vars
    BY <1>0, <1>4, DrowsingQuiet DEF vars, workerVars
  <1>5. QED
    BY <1>1, <1>2, <1>3, <1>4 DEF Next

\* No wakeup is lost: in every reachable state a sleeping worker has an empty queue, and
\* once status_ is 0 the notification of Stop is still on its way to it (the mutex around
\* the wait, the push and the notification).
THEOREM NoWakeupLost == Spec => []NoLostWakeup
  <1>1. Init => WakeInv
    BY InitTInv DEF Init, WakeInv, Drowsing
  <1>2. WakeInv => NoLostWakeup
    BY DEF WakeInv, Drowsing, Idle, NoLostWakeup
  <1>3. QED
    BY <1>1, <1>2, NextWakeInv, PTL DEF Spec

-----------------------------------------------------------------------------
(* Stop drains *)

\* A worker passes its wait only with something to do or after Stop, and ends only after
\* Stop, which returns when all have ended.
Ending ==
    /\ \A q \in Queues : wpc[q] = "test" => status = 0 \/ queue[q] # <<>>
    /\ \A q \in Queues : wpc[q] = "done" => status = 0
    /\ phase = "stopped" => \A q \in Queues : wpc[q] = "done"

HasRun(t, q) == \E i \in DOMAIN ran[q] : ran[q][i] = t
IsHandled(t, q) == \E i \in DOMAIN Handled(q) : Handled(q)[i] = t

\* A promised task is somewhere between a queue and its worker's past, and in that past
\* once the worker has ended.
Kept(t) == \E q \in Queues : IsHandled(t, q) /\ (wpc[q] = "done" => HasRun(t, q))

DrainInv == TInv /\ Ending /\ \A t \in promised : Kept(t)

\* A push leaves no queue empty that was not.
LEMMA PushedNotEmpty ==
    ASSUME TInv, NEW q \in Queues, NEW x \in Task \cup {Empty},
           queue' = [queue EXCEPT ![q] = Append(queue[q], x)]
    PROVE  \A p \in Queues : queue[p] # <<>> => queue'[p] # <<>>
  <1>1. queue[q] \in Seq(Task \cup {Empty})
    BY DEF TInv, TypeOK
  <1>2. Append(queue[q], x) # <<>>
    BY <1>1, AppendProperties
  <1>3. queue'[q] = Append(queue[q], x) /\ \A p \in Queues \ {q} : queue'[p] = queue[p]
    BY DEF TInv, TypeOK
  <1>4. QED
    BY <1>2, <1>3

LEMMA EndingKept == TInv /\ Ending /\ [Next]_vars => Ending'
  <1>. SUFFICES ASSUME TInv, Ending, [Next]_vars PROVE Ending'
    OBVIOUS
  <1>. USE DEF TInv, TypeOK, Holding, Ending
  <1>1. Start => Ending'
    BY DEF Start
  <1>2. StopCas => Ending'
    BY DEF StopCas, workerVars
  <1>3. StopNotify => Ending'
    BY WokenPlaces DEF StopNotify
  <1>4. StopJoined => Ending'
    BY DEF StopJoined, workerVars
  <1>5. ASSUME NEW q \in Queues, Worker(q) \/ SpuriousWakeup(q) PROVE Ending'
    <2>1. CASE WaitTest(q)
      BY <2>1 DEF WaitTest, ownerVars
    <2>2. CASE Sleep(q)
      BY <2>2 DEF Sleep, ownerVars
    <2>3. CASE Test(q)
      BY <2>3 DEF Test, ownerVars
    <2>4. CASE Pop(q)
      BY <2>4 DEF Pop, ownerVars
    <2>5. CASE RunTask(q)
      BY <2>5 DEF RunTask, ownerVars
    <2>6. CASE SpuriousWakeup(q)
      BY <2>6 DEF SpuriousWakeup, Woken, ownerVars
    <2>7. QED
      BY <1>5, <2>1, <2>2, <2>3, <2>4, <2>5, <2>6 DEF Worker
  <1>6. ASSUME NEW c \in Clients, Client(c) PROVE Ending'
    <2>1. ASSUME Push(c) PROVE Ending'
      <3>1. PICK q \in Queues : q = slot[c]
        OBVIOUS
      <3>2. Current(c) \in Task
        BY <2>1, CurrentTask DEF Push
      <3>3. PICK x \in Task \cup {Empty} : queue' = [queue EXCEPT ![q] = Append(queue[q], x)]
        BY <2>1, <3>1, <3>2 DEF Push, Enqueue
      <3>4. \A p \in Queues : queue[p] # <<>> => queue'[p] # <<>>
        BY <3>3, PushedNotEmpty
      <3>5. wpc' = Woken(q) /\ UNCHANGED ownerVars
        BY <2>1, <3>1 DEF Push
      <3>6. QED
        BY <3>4, <3>5, WokenPlaces DEF ownerVars
    <2>2. CASE AddTaskRefused(c) \/ AddTask(c) \/ PushFull(c)
      BY <2>2 DEF AddTaskRefused, AddTask, PushFull, ownerVars, workerVars
    <2>3. QED
      BY <1>6, <2>1, <2>2 DEF Client
  <1>7. UNCHANGED vars => Ending'
    BY DEF vars, ownerVars, workerVars
  <1>8. QED
    BY <1>1, <1>2, <1>3, <1>4, <1>5, <1>6, <1>7 DEF Next, Owner

\* A worker that ends, or has ended, runs nothing in the step, and it ends with nothing in
\* hand or queued.
LEMMA DoneStep ==
    ASSUME TInv, [Next]_vars, NEW q \in Queues, wpc'[q] = "done"
    PROVE  ran'[q] = ran[q] /\ (wpc[q] = "done" \/ Handled(q) = ran[q])
  <1>. USE DEF TInv, TypeOK
  <1>1. CASE Owner
    <2>1. ~Start
      BY <1>1 DEF Start
    <2>2. CASE StopNotify
      BY <2>2, WokenPlaces DEF StopNotify
    <2>3. CASE StopCas \/ StopJoined
      BY <2>3 DEF StopCas, StopJoined, workerVars
    <2>4. QED
      BY <1>1, <2>1, <2>2, <2>3 DEF Owner
  <1>2. ASSUME NEW p \in Queues, Worker(p) \/ SpuriousWakeup(p)
        PROVE  ran'[q] = ran[q] /\ (wpc[q] = "done" \/ Handled(q) = ran[q])
    <2>1. CASE p # q
      BY <1>2, <2>1 DEF Worker, WaitTest, Sleep, Test, Pop, RunTask, SpuriousWakeup, Woken
    <2>2. CASE p = q /\ Test(q)
      <3>1. queue[q] = <<>> /\ wpc[q] = "test" /\ ran' = ran
        BY <2>2 DEF Test
      <3>2. Handled(q) = ran[q] \o <<>> \o <<>>
        BY <3>1 DEF Handled, InHand
      <3>3. ran[q] \in Seq(Task)
        OBVIOUS
      <3>4. ran[q] \o <<>> = ran[q]
        BY <3>3, ConcatEmptySeq
      <3>5. QED
        BY <3>1, <3>2, <3>4
    <2>3. CASE p = q /\ ~Test(q)
      <3>1. ~WaitTest(q) /\ ~Sleep(q) /\ ~Pop(q) /\ ~SpuriousWakeup(q)
        BY DEF WaitTest, Sleep, Pop, SpuriousWakeup, Woken
      <3>2. ~RunTask(q)
        BY DEF RunTask
      <3>3. QED
        BY <1>2, <2>3, <3>1, <3>2 DEF Worker
    <2>4. QED
      BY <2>1, <2>2, <2>3
  <1>3. ASSUME NEW c \in Clients, Client(c) PROVE ran' = ran /\ wpc[q] = "done"
    <2>1. CASE Push(c)
      BY <2>1, WokenPlaces DEF Push
    <2>2. CASE AddTaskRefused(c) \/ AddTask(c) \/ PushFull(c)
      BY <2>2 DEF AddTaskRefused, AddTask, PushFull, workerVars
    <2>3. QED
      BY <1>3, <2>1, <2>2 DEF Client
  <1>4. UNCHANGED vars => ran' = ran /\ wpc' = wpc
    BY DEF vars, workerVars
  <1>5. QED
    BY <1>1, <1>2, <1>3, <1>4 DEF Next

\* What a queue's history holds, it goes on holding.
LEMMA HandledStays ==
    ASSUME TInv, [Next]_vars, NEW t, NEW q \in Queues, IsHandled(t, q)
    PROVE  IsHandled(t, q)'
  <1>1. CASE \A c \in Clients : ~Push(c)
    <2>1. Handled(q)' = Handled(q)
      BY <1>1, QuietSteps
    <2>2. QED
      BY <2>1 DEF IsHandled
  <1>2. ASSUME NEW c \in Clients, Push(c) PROVE IsHandled(t, q)'
    <2>1. CASE q # slot[c]
      <3>1. PICK p \in Queues : p = slot[c]
        BY DEF TInv, TypeOK
      <3>2. Handled(q)' = Handled(q)
        BY <1>2, <2>1, <3>1, PushHandled
      <3>3. QED
        BY <3>2 DEF IsHandled
    <2>2. CASE q = slot[c]
      <3>1. Current(c) \in Task
        BY <1>2, CurrentTask DEF Push, TInv, TypeOK
      <3>2. PICK x \in Task \cup {Empty} : Handled(q)' = Append(Handled(q), x)
        BY <1>2, <2>2, <3>1, PushHandled
      <3>3. Handled(q) \in Seq(Task \cup {Empty})
        BY HandledType
      <3>4. DOMAIN Handled(q) = 1 .. Len(Handled(q)) /\ Len(Handled(q)) \in Nat
        BY <3>3, LenProperties
      <3>5. PICK i \in 1 .. Len(Handled(q)) : Handled(q)[i] = t
        BY <3>4 DEF IsHandled
      <3>6. /\ Append(Handled(q), x) \in Seq(Task \cup {Empty})
            /\ Len(Append(Handled(q), x)) = Len(Handled(q)) + 1
            /\ Append(Handled(q), x)[i] = Handled(q)[i]
        BY <3>3, <3>5, AppendProperties
      <3>7. i \in DOMAIN Append(Handled(q), x)
        BY <3>4, <3>5, <3>6, LenProperties
      <3>8. QED
        BY <3>2, <3>5, <3>6, <3>7 DEF IsHandled
    <2>3. QED
      BY <2>1, <2>2
  <1>3. QED
    BY <1>1, <1>2

\* A promised task stays kept.
LEMMA KeptStays ==
    ASSUME TInv, [Next]_vars, NEW t, Kept(t)
    PROVE  Kept(t)'
  <1>1. PICK q \in Queues : IsHandled(t, q) /\ (wpc[q] = "done" => HasRun(t, q))
    BY DEF Kept
  <1>2. IsHandled(t, q)'
    BY <1>1, HandledStays
  <1>3. ASSUME wpc'[q] = "done" PROVE HasRun(t, q)'
    <2>1. ran'[q] = ran[q] /\ (wpc[q] = "done" \/ Handled(q) = ran[q])
      BY <1>3, DoneStep
    <2>2. HasRun(t, q)
      BY <1>1, <2>1 DEF IsHandled, HasRun
    <2>3. QED
      BY <2>1, <2>2 DEF HasRun
  <1>4. QED
    BY <1>2, <1>3 DEF Kept

\* A push that promises its task puts it, whole, behind a worker that has not ended.
LEMMA PromiseKept ==
    ASSUME TInv, Ending, NEW c \in Clients, Push(c), status = 1, ~moved[c],
           NEW t \in Task, t = Current(c)
    PROVE  Kept(t)'
  <1>1. PICK q \in Queues : q = slot[c]
    BY DEF TInv, TypeOK
  <1>2. Handled(q)' = Append(Handled(q), t)
    BY <1>1, PushHandled
  <1>3. Handled(q) \in Seq(Task \cup {Empty})
    BY HandledType
  <1>4. /\ Len(Handled(q)) \in Nat
        /\ Append(Handled(q), t) \in Seq(Task \cup {Empty})
        /\ Len(Append(Handled(q), t)) = Len(Handled(q)) + 1
        /\ Append(Handled(q), t)[Len(Handled(q)) + 1] = t
    BY <1>3, AppendProperties, LenProperties
  <1>5. Len(Handled(q)) + 1 \in DOMAIN Append(Handled(q), t)
    BY <1>4, LenProperties
  <1>6. IsHandled(t, q)'
    BY <1>2, <1>4, <1>5 DEF IsHandled
  <1>7. wpc'[q] # "done"
    <2>1. wpc[q] # "done"
      BY DEF Ending
    <2>2. wpc' = Woken(q)
      BY <1>1 DEF Push
    <2>3. QED
      BY <2>1, <2>2, WokenPlaces
  <1>8. QED
    BY <1>6, <1>7 DEF Kept

LEMMA NextDrainInv == DrainInv /\ [Next]_vars => DrainInv'
  <1>. SUFFICES ASSUME DrainInv, [Next]_vars PROVE \A t \in promised' : Kept(t)'
    BY NextTInv, EndingKept DEF DrainInv
  <1>1. TInv /\ Ending
    BY DEF DrainInv
  <1>2. TAKE t \in promised'
  <1>3. CASE t \in promised
    BY <1>1, <1>3, KeptStays DEF DrainInv
  <1>4. CASE t \notin promised
    <2>1. promised' # promised
      BY <1>4
    <2>2. PICK c \in Clients : Push(c)
      BY <2>1 DEF Next, Owner, Start, StopCas, StopNotify, StopJoined, Worker, WaitTest, Sleep, Test,
                  Pop, RunTask, SpuriousWakeup, Client, AddTaskRefused, AddTask, PushFull, vars, clientVars
    <2>3. status = 1 /\ ~moved[c] /\ t = Current(c)
      BY <1>4, <2>2 DEF Push, Enqueue
    <2>4. t \in Task
      BY <1>1, <2>2, <2>3, CurrentTask DEF Push, TInv, TypeOK
    <2>5. QED
      BY <1>1, <2>2, <2>3, <2>4, PromiseKept
  <1>5. QED
    BY <1>3, <1>4

\* Stop drains: when it has returned, every task that was accepted while status_ was 1,
\* and whole, has run.  The delayed frees of FilePool::Release rest on it.
THEOREM StopRunsAll == Spec => []StopDrains
  <1>1. Init => DrainInv
    BY InitTInv DEF Init, DrainInv, Ending
  <1>2. DrainInv => StopDrains
    BY DEF DrainInv, Ending, Kept, HasRun, StopDrains
  <1>3. QED
    BY <1>1, <1>2, NextDrainInv, PTL DEF Spec

=============================================================================
