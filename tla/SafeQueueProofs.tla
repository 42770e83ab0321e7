--------------------------- MODULE SafeQueueProofs ---------------------------
(***************************************************************************)
(* For any number of producers and consumers, and whatever ends their      *)
(* waits: what the mutex gives, and how long pop() is correct, which is    *)
(* until a second consumer calls it or a wait ends without a signal.       *)
(***************************************************************************)
EXTENDS SafeQueue, SequenceTheorems, TLAPS

(* The initial states are well typed.                                      *)
LEMMA InitInv == Init => QueueInv
BY EmptySeq, ThreadsAssumption DEF Init, QueueInv, LockInv, TypeOK, Thread

(* A producer keeps the lock discipline: it touches the queue only while   *)
(* it holds the mutex.                                                     *)
LEMMA ProducerLocks ==
  ASSUME LockInv, NEW p \in Producers, ProducerStep(p)
  PROVE  LockInv'
<1> USE ThreadsAssumption DEF LockInv, Thread, Step
<1>1. CASE PushLock(p)
  BY <1>1 DEF TypeOK, PushLock, Lock
<1>2. CASE Push(p)
  <2>1. pushes[p] + 1 \in 1 .. MaxPushes /\ pushes' = [pushes EXCEPT ![p] = @ + 1]
    BY <1>2 DEF TypeOK, Push
  <2>2. <<p, pushes'[p]>> \in Item
    BY <2>1 DEF TypeOK, Item
  <2>3. q' \in Seq(Item)
    BY <1>2, <2>2, AppendProperties DEF TypeOK, Push
  <2>4. /\ pc' = [pc EXCEPT ![p] = "signal"] /\ pc[p] = "push"
        /\ UNCHANGED <<owner, taken, callers, spurious>>
    BY <1>2 DEF Push
  <2>5. TypeOK'
    BY <2>1, <2>3, <2>4 DEF TypeOK
  <2>6. \A t \in Thread :
          pc'[t] \in {"push", "signal", "unlock", "test", "front", "leave"} <=> t \in owner'
    BY <2>4 DEF TypeOK
  <2>7. \A r \in Producers : pc'[r] = "push" => pushes'[r] < MaxPushes
    BY <2>1, <2>4 DEF TypeOK
  <2>8. \A c \in Consumers : pc'[c] # "idle" => c \in callers'
    BY <2>4 DEF TypeOK
  <2>9. QED
    BY <2>5, <2>6, <2>7, <2>8
<1>3. CASE Signal(p)
  BY <1>3 DEF TypeOK, Signal, Waiting
<1>4. CASE PushUnlock(p)
  BY <1>4 DEF TypeOK, PushUnlock, Unlock
<1>5. QED
  BY <1>1, <1>2, <1>3, <1>4 DEF ProducerStep

(* A consumer keeps it too: pthread_cond_wait() gives the mutex up and     *)
(* takes it back, signalled or not.                                        *)
LEMMA ConsumerLocks ==
  ASSUME LockInv, NEW c \in Consumers, ConsumerStep(c) \/ PopSpurious(c)
  PROVE  LockInv'
<1> USE ThreadsAssumption DEF LockInv, Thread, Step
<1>1. CASE PopLock(c)
  BY <1>1 DEF TypeOK, PopLock, Lock
<1>2. CASE PopWait(c)
  BY <1>2 DEF TypeOK, PopWait, Unlock
<1>3. CASE PopReady(c)
  BY <1>3 DEF TypeOK, PopReady
<1>4. CASE PopWoken(c)
  BY <1>4 DEF TypeOK, PopWoken, Lock
<1>5. CASE PopFront(c)
  <2>1. q' \in Seq(Item) /\ taken' \in Seq(Item \cup {Undefined})
    BY <1>5, HeadTailProperties, AppendProperties, ElementOfSeq DEF PopFront, TypeOK
  <2>2. QED
    BY <1>5, <2>1 DEF TypeOK, PopFront
<1>6. CASE PopUnlock(c)
  BY <1>6 DEF TypeOK, PopUnlock, Unlock
<1>7. CASE PopSpurious(c)
  BY <1>7 DEF TypeOK, PopSpurious
<1>8. QED
  BY <1>1, <1>2, <1>3, <1>4, <1>5, <1>6, <1>7 DEF ConsumerStep

LEMMA NextLocks == LockInv /\ [Next]_vars => LockInv'
<1>1. ASSUME LockInv, UNCHANGED vars
      PROVE  LockInv'
  BY <1>1 DEF LockInv, TypeOK, vars
<1>2. QED
  BY <1>1, ProducerLocks, ConsumerLocks DEF Next

(***************************************************************************)
(* For any number of producers and consumers, and however often a wait     *)
(* ends without a signal, every look at the queue is made with the mutex.  *)
(***************************************************************************)
THEOREM LocksKept == Spec => []LockInv
<1>1. Init => LockInv
  BY InitInv DEF QueueInv
<1>2. QED
  BY <1>1, NextLocks, PTL DEF Spec

-----------------------------------------------------------------------------
(* A consumer that is alone.                                               *)

(* A step leaves a consumer alone only if it was alone before.             *)
LEMMA AloneBefore ==
  ASSUME LockInv, [Next]_vars, Alone'
  PROVE  Alone
<1>1. callers \subseteq callers'
  BY DEF Next, ProducerStep, ConsumerStep, PushLock, Push, Signal, PushUnlock, PopLock,
         PopWait, PopReady, PopWoken, PopFront, PopUnlock, PopSpurious, vars
<1>2. spurious' = 0 => spurious = 0
  BY DEF Next, ProducerStep, ConsumerStep, PushLock, Push, Signal, PushUnlock, PopLock,
         PopWait, PopReady, PopWoken, PopFront, PopUnlock, PopSpurious, vars, LockInv, TypeOK
<1>3. QED
  BY <1>1, <1>2 DEF Alone

(* What QueueInv adds to LockInv.                                          *)
ItemKept ==
  /\ \A p \in Producers : pc[p] = "signal" => q # <<>>
  /\ \A c \in Consumers : pc[c] \in {"woken", "front"} => q # <<>>

LEMMA InvParts == QueueInv <=> LockInv /\ (Alone => ItemKept)
BY DEF QueueInv, ItemKept

(* A producer leaves a signalled consumer its item: it only adds to the    *)
(* queue, and signals after it has.                                        *)
LEMMA ProducerKeeps ==
  ASSUME LockInv, ItemKept, NEW p \in Producers, ProducerStep(p)
  PROVE  ItemKept'
<1>1. CASE PushLock(p)
  BY <1>1, ThreadsAssumption DEF ItemKept, LockInv, TypeOK, Thread, Step, PushLock
<1>2. CASE Push(p)
  <2>1. pushes[p] + 1 \in 1 .. MaxPushes /\ pushes' = [pushes EXCEPT ![p] = @ + 1]
    BY <1>2, ThreadsAssumption DEF LockInv, TypeOK, Step, Push
  <2>2. <<p, pushes'[p]>> \in Item
    BY <2>1 DEF LockInv, TypeOK, Item
  <2>3. q' # <<>>
    BY <1>2, <2>2, AppendProperties DEF LockInv, TypeOK, Push
  <2>4. QED
    BY <2>3 DEF ItemKept
<1>3. CASE Signal(p)
  BY <1>3, ThreadsAssumption DEF ItemKept, LockInv, TypeOK, Thread, Signal, Waiting
<1>4. CASE PushUnlock(p)
  BY <1>4, ThreadsAssumption DEF ItemKept, LockInv, TypeOK, Thread, Step, PushUnlock
<1>5. QED
  BY <1>1, <1>2, <1>3, <1>4 DEF ProducerStep

(* A consumer that is alone keeps it: nobody else removes an item.         *)
LEMMA ConsumerKeeps ==
  ASSUME LockInv, ItemKept, Alone', NEW c \in Consumers, ConsumerStep(c)
  PROVE  ItemKept'
<1>1. \A d \in Consumers : pc'[d] # "idle" => d = c
  <2>1. LockInv'
    BY ConsumerLocks
  <2>2. c \in callers'
    BY DEF LockInv, ConsumerStep, PopLock, PopWait, PopReady, PopWoken, PopFront, PopUnlock,
           Step
  <2>3. QED
    BY <2>1, <2>2 DEF LockInv, Alone
<1>2. \A p \in Producers : pc'[p] = pc[p]
  BY ThreadsAssumption DEF LockInv, TypeOK, Thread, ConsumerStep, PopLock, PopWait, PopReady,
                           PopWoken, PopFront, PopUnlock, Step
<1>3. \A p \in Producers : pc[p] = "signal" => ~ PopFront(c)
  <2>1. \A p \in Producers : pc[p] = "signal" => p \in owner
    BY DEF LockInv, Thread
  <2>2. PopFront(c) => c \in owner
    BY DEF LockInv, Thread, PopFront, Step
  <2>3. QED
    BY <2>1, <2>2, ThreadsAssumption DEF LockInv, TypeOK
<1>4. PopFront(c) \/ q' = q
  BY DEF ConsumerStep, PopLock, PopWait, PopReady, PopWoken, PopFront, PopUnlock
<1>5. pc'[c] \in {"woken", "front"} => q # <<>> /\ ~ PopFront(c)
  BY DEF ItemKept, LockInv, TypeOK, Thread, ConsumerStep, PopLock, PopWait, PopReady, PopWoken,
         PopFront, PopUnlock, Step
<1>6. QED
  BY <1>1, <1>2, <1>3, <1>4, <1>5 DEF ItemKept

LEMMA NextInv == QueueInv /\ [Next]_vars => QueueInv'
<1>1. ASSUME LockInv, ItemKept, [Next]_vars, Alone'
      PROVE  ItemKept'
  <2>1. ASSUME NEW c \in Consumers
        PROVE  ~ PopSpurious(c)
    BY <1>1 DEF PopSpurious, LockInv, TypeOK, Alone
  <2>2. CASE UNCHANGED vars
    BY <1>1, <2>2 DEF ItemKept, vars
  <2>3. QED
    BY <1>1, <2>1, <2>2, ProducerKeeps, ConsumerKeeps DEF Next
<1>2. ASSUME QueueInv, [Next]_vars
      PROVE  QueueInv'
  <2>1. LockInv /\ LockInv'
    BY <1>2, NextLocks, InvParts
  <2>2. Alone' => ItemKept'
    BY <1>1, <1>2, <2>1, AloneBefore, InvParts
  <2>3. QED
    BY <2>1, <2>2 DEF QueueInv, ItemKept
<1>3. QED
  BY <1>2

(***************************************************************************)
(* A consumer that is alone still has the item it was signalled for.       *)
(***************************************************************************)
THEOREM QueueConsistent == Spec => []QueueInv
BY InitInv, NextInv, PTL DEF Spec

(***************************************************************************)
(* No pop() takes from an empty queue before a second consumer calls it or *)
(* a wait has ended without a signal, whatever the consumers and the       *)
(* spurious returns to come.  Run Queue2 shows what comes after.           *)
(***************************************************************************)
THEOREM FrontDefinedWhileAlone == Spec => []FrontWhileAlone
<1>1. QueueInv => FrontWhileAlone
  BY DEF QueueInv, FrontWhileAlone, FrontDefined
<1>2. QED
  BY <1>1, QueueConsistent, PTL

-----------------------------------------------------------------------------
(* The queue implements the abstract one.                                  *)

(* Every step but a take from the empty queue is a step of the blocking    *)
(* queue, or none of its business.                                         *)
LEMMA StepMapped ==
  ASSUME LockInv, Next
  PROVE  \/ Abstract!Next \/ UNCHANGED <<q, taken>>
         \/ q = <<>> /\ \E c \in Consumers : PopFront(c)
<1> USE DEF Abstract!Next
<1>1. CASE \E p \in Producers : Push(p)
  <2>1. PICK p \in Producers : Push(p)
    BY <1>1
  <2>2. <<p, pushes'[p]>> \in Item
    BY <2>1, ThreadsAssumption DEF Push, Step, LockInv, TypeOK, Item
  <2>3. Abstract!Put(<<p, pushes'[p]>>)
    BY <2>1 DEF Push, Abstract!Put
  <2>4. QED
    BY <2>2, <2>3
<1>2. CASE q # <<>> /\ \E c \in Consumers : PopFront(c)
  <2>1. PICK c \in Consumers : PopFront(c)
    BY <1>2
  <2>2. Abstract!Take
    BY <1>2, <2>1 DEF PopFront, Abstract!Take
  <2>3. QED
    BY <2>2
<1>3. CASE /\ ~ \E p \in Producers : Push(p)
           /\ ~ \E c \in Consumers : PopFront(c)
  BY <1>3 DEF Next, ProducerStep, ConsumerStep, PushLock, Signal, PushUnlock, PopLock,
              PopWait, PopReady, PopWoken, PopUnlock, PopSpurious
<1>4. QED
  BY <1>1, <1>2, <1>3

(* A take from the empty queue leaves its mark.                            *)
LEMMA UndefinedMarked ==
  ASSUME LockInv, q = <<>>, NEW c \in Consumers, PopFront(c)
  PROVE  TakenUndefined'
<1>1. taken \in Seq(Item \cup {Undefined}) /\ taken' = Append(taken, Undefined)
  BY DEF LockInv, TypeOK, PopFront
<1>2. Len(taken') = Len(taken) + 1 /\ taken'[Len(taken) + 1] = Undefined /\ Len(taken) \in Nat
  BY <1>1, AppendProperties, LenProperties
<1>3. QED
  BY <1>2 DEF TakenUndefined

(***************************************************************************)
(* For any number of consumers, and however their waits end: as long as no *)
(* pop() has taken from an empty queue, the locked queue is a blocking     *)
(* queue, and items come out in the order they went in, each once.         *)
(***************************************************************************)
THEOREM QueueUntilFirstUndefined == Spec => QueueUntilUndefined
<1>1. Init => Abstract!Init
  BY DEF Init, Abstract!Init
<1>2. LockInv /\ [Next]_vars => [TakenUndefined' \/ Abstract!Next]_<<q, taken>>
  BY StepMapped, UndefinedMarked DEF vars
<1>3. QED
  BY <1>1, <1>2, LocksKept, PTL DEF Spec, QueueUntilUndefined

(* The steps a consumer is still alone after are the blocking queue's.     *)
QueueWhileAlone == Abstract!Init /\ [][Alone' => Abstract!Next]_<<q, taken>>

(***************************************************************************)
(* As long as one consumer only has called pop() and every wait has ended  *)
(* by a signal, SafeQueue implements the blocking queue.                   *)
(***************************************************************************)
THEOREM QueueImplemented == Spec => QueueWhileAlone
<1>1. Init => Abstract!Init
  BY DEF Init, Abstract!Init
<1>2. QueueInv /\ [Next]_vars => [Alone' => Abstract!Next]_<<q, taken>>
  <2>1. QueueInv /\ [Next]_vars /\ Alone' => Alone
    BY AloneBefore, InvParts
  <2>2. QueueInv /\ Alone /\ q = <<>> => ~ \E c \in Consumers : PopFront(c)
    BY DEF QueueInv, PopFront, Step
  <2>3. QED
    BY <2>1, <2>2, StepMapped, InvParts DEF vars
<1>3. QED
  BY <1>1, <1>2, QueueConsistent, PTL DEF Spec, QueueWhileAlone
=============================================================================
