----------------------------- MODULE SafeQueue -----------------------------
(***************************************************************************)
(* inc/SafeQueue.h: a std::queue behind a pthread mutex and one condition  *)
(* variable.  A thread is preempted between any two pthread calls, and     *)
(* pthread_cond_wait() may return without a signal, as POSIX allows.       *)
(***************************************************************************)
EXTENDS Naturals, Sequences, FiniteSets

CONSTANTS
  Producers, Consumers,
  MaxPushes,   \* bound: items one producer pushes
  MaxSpurious  \* bound: returns of pthread_cond_wait() without a signal

ASSUME ThreadsAssumption ==
  /\ Producers \cap Consumers = {}
  /\ MaxPushes \in Nat
  /\ MaxSpurious \in Nat

VARIABLES
  q,        \* the std::queue
  owner,    \* the threads that hold the mutex: none or one
  pc,       \* where each thread is in push() or pop()
  pushes,   \* items each producer has pushed
  taken,    \* history: the items pop() has handed out, in order
  callers,  \* history: the consumers that have called pop()
  spurious  \* history: returns of pthread_cond_wait() without a signal

vars == <<q, owner, pc, pushes, taken, callers, spurious>>

Thread == Producers \cup Consumers
Item == Producers \X (1 .. MaxPushes)
Undefined == <<"undefined", 0>>

Init ==
  /\ q = <<>>
  /\ owner = {}
  /\ pc = [t \in Thread |-> "idle"]
  /\ pushes = [p \in Producers |-> 0]
  /\ taken = <<>>
  /\ callers = {}
  /\ spurious = 0

Step(t, from, to) == pc[t] = from /\ pc' = [pc EXCEPT ![t] = to]

Lock(t)   == owner = {} /\ owner' = {t}
Unlock(t) == owner' = owner \ {t}

-----------------------------------------------------------------------------
(* push()                                                                  *)

PushLock(p) ==
  /\ pushes[p] < MaxPushes
  /\ Step(p, "idle", "push") /\ Lock(p)
  /\ UNCHANGED <<q, pushes, taken, callers, spurious>>

Push(p) ==
  /\ Step(p, "push", "signal")
  /\ pushes' = [pushes EXCEPT ![p] = @ + 1]
  /\ q' = Append(q, <<p, pushes'[p]>>)
  /\ UNCHANGED <<owner, taken, callers, spurious>>

Waiting == {c \in Consumers : pc[c] = "waiting"}

(* Mutant: no signal.                                                      *)
SignalNobody(p) ==
  /\ pc[p] = "signal"
  /\ pc' = [pc EXCEPT ![p] = "unlock"]
  /\ UNCHANGED <<q, owner, pushes, taken, callers, spurious>>

(* pthread_cond_signal() wakes one waiting thread, if there is one.        *)
Signal(p) ==
  /\ pc[p] = "signal"
  /\ IF Waiting = {}
       THEN pc' = [pc EXCEPT ![p] = "unlock"]
       ELSE \E c \in Waiting : pc' = [pc EXCEPT ![p] = "unlock", ![c] = "woken"]
  /\ UNCHANGED <<q, owner, pushes, taken, callers, spurious>>

PushUnlock(p) ==
  /\ Step(p, "unlock", "idle") /\ Unlock(p)
  /\ UNCHANGED <<q, pushes, taken, callers, spurious>>

-----------------------------------------------------------------------------
(* pop()                                                                   *)

PopLock(c) ==
  /\ Step(c, "idle", "test") /\ Lock(c)
  /\ callers' = callers \cup {c}
  /\ UNCHANGED <<q, pushes, taken, spurious>>

(* Mutant: pop() does not wait.                                            *)
PopWaitSkipped(c) ==
  /\ q = <<>>
  /\ Step(c, "test", "front")
  /\ UNCHANGED <<q, owner, pushes, taken, callers, spurious>>

(* pthread_cond_wait() releases the mutex.                                 *)
PopWait(c) ==
  /\ q = <<>>
  /\ Step(c, "test", "waiting") /\ Unlock(c)
  /\ UNCHANGED <<q, pushes, taken, callers, spurious>>

PopReady(c) ==
  /\ q # <<>>
  /\ Step(c, "test", "front")
  /\ UNCHANGED <<q, owner, pushes, taken, callers, spurious>>

(* The wait ends with no signal: the environment's choice, not a step of   *)
(* the program's.                                                          *)
PopSpurious(c) ==
  /\ spurious < MaxSpurious
  /\ Step(c, "waiting", "woken")
  /\ spurious' = spurious + 1
  /\ UNCHANGED <<q, owner, pushes, taken, callers>>

(* Mutant: pop() returns from the wait without taking the mutex back.      *)
PopWokenUnlocked(c) ==
  /\ Step(c, "woken", "front")
  /\ UNCHANGED <<q, owner, pushes, taken, callers, spurious>>

(* Back from pthread_cond_wait() with the mutex: "if", not "while", so the *)
(* queue is not looked at again.                                           *)
PopWoken(c) ==
  /\ Step(c, "woken", "front") /\ Lock(c)
  /\ UNCHANGED <<q, pushes, taken, callers, spurious>>

(* Mutant: the item is handed out and stays.                               *)
PopFrontKept(c) ==
  /\ Step(c, "front", "leave")
  /\ taken' = Append(taken, IF q = <<>> THEN Undefined ELSE Head(q))
  /\ UNCHANGED <<q, owner, pushes, callers, spurious>>

(* front() and pop() of an empty std::queue are undefined: whatever the    *)
(* memory holds comes out.  Of the queue after that nothing is claimed.    *)
PopFront(c) ==
  /\ Step(c, "front", "leave")
  /\ taken' = Append(taken, IF q = <<>> THEN Undefined ELSE Head(q))
  /\ q' = IF q = <<>> THEN q ELSE Tail(q)
  /\ UNCHANGED <<owner, pushes, callers, spurious>>

PopUnlock(c) ==
  /\ Step(c, "leave", "idle") /\ Unlock(c)
  /\ UNCHANGED <<q, pushes, taken, callers, spurious>>

ProducerStep(p) == PushLock(p) \/ Push(p) \/ Signal(p) \/ PushUnlock(p)
ConsumerStep(c) ==
  PopLock(c) \/ PopWait(c) \/ PopReady(c) \/ PopWoken(c) \/ PopFront(c) \/ PopUnlock(c)

Next ==
  \/ \E p \in Producers : ProducerStep(p)
  \/ \E c \in Consumers : ConsumerStep(c) \/ PopSpurious(c)

(* A thread inside push() or pop() goes on; a consumer keeps calling pop(), *)
(* a producer need not call push().                                        *)
Fairness ==
  /\ \A p \in Producers : WF_vars(Push(p) \/ Signal(p) \/ PushUnlock(p))
  /\ \A c \in Consumers : WF_vars(ConsumerStep(c))

Spec == Init /\ [][Next]_vars /\ Fairness

-----------------------------------------------------------------------------
(* Every variable of the queue keeps its type.                             *)
TypeOK ==
  /\ q \in Seq(Item)
  /\ taken \in Seq(Item \cup {Undefined})
  /\ owner \in {{}} \cup {{t} : t \in Thread}
  /\ pc \in [Thread -> {"idle", "push", "signal", "unlock", "test", "waiting", "woken",
                        "front", "leave"}]
  /\ pushes \in [Producers -> 0 .. MaxPushes]
  /\ callers \subseteq Consumers
  /\ spurious \in 0 .. MaxSpurious

(***************************************************************************)
(* The mutex covers every look at the queue, for any number of consumers   *)
(* and whatever ends their waits: a thread between the lock and the unlock *)
(* of push() or pop() holds it, the way through pthread_cond_wait()        *)
(* included.                                                               *)
(***************************************************************************)
LockInv ==
  /\ TypeOK
  /\ \A t \in Thread :
       pc[t] \in {"push", "signal", "unlock", "test", "front", "leave"} <=> t \in owner
  /\ \A p \in Producers : pc[p] = "push" => pushes[p] < MaxPushes
  /\ \A c \in Consumers : pc[c] # "idle" => c \in callers

(***************************************************************************)
(* A thread about to call front() finds an item: pop() of an empty queue   *)
(* waits until the next push, says inc/SafeQueue.h:43.  The code tests the *)
(* queue with "if", so it does not say more than FrontWhileAlone.          *)
(***************************************************************************)
FrontDefined == \A c \in Consumers : pc[c] = "front" => q # <<>>

(* One consumer only has called pop() so far, and every wait that ended,   *)
(* ended by a signal.                                                      *)
Alone == spurious = 0 /\ \A c, d \in callers : c = d

(***************************************************************************)
(* front() is called on an empty queue only when a second consumer calls   *)
(* pop(), which may take the item between the signal and the end of the    *)
(* wait, or when a wait has ended without a signal (inc/SafeQueue.h:44).   *)
(***************************************************************************)
FrontWhileAlone == Alone => FrontDefined

(***************************************************************************)
(* Why a consumer that is alone is safe: it still has the item it was      *)
(* signalled for.                                                          *)
(***************************************************************************)
QueueInv ==
  /\ LockInv
  /\ \A p \in Producers : Alone /\ pc[p] = "signal" => q # <<>>
  /\ \A c \in Consumers : Alone /\ pc[c] \in {"woken", "front"} => q # <<>>

(***************************************************************************)
(* push() and pop() implement a blocking queue, first in, first out, each  *)
(* item once, as long as no pop() has taken from an empty queue: several   *)
(* consumers and waits that end without a signal do that kind of harm only.*)
(***************************************************************************)
Abstract == INSTANCE BlockingQueue WITH Values <- Item, items <- q, taken <- taken

TakenUndefined == \E n \in 1 .. Len(taken) : taken[n] = Undefined

QueueUntilUndefined ==
  Abstract!Init /\ [][TakenUndefined' \/ Abstract!Next]_<<q, taken>>

(***************************************************************************)
(* Every pushed item is handed out in the end, unless some pop() takes     *)
(* from an empty queue: no wakeup is lost between the test of the queue    *)
(* and pthread_cond_wait(), nor by a signal to a consumer that finds the   *)
(* item gone.                                                              *)
(***************************************************************************)
EverythingTaken ==
  \A i \in Item :
    (pushes[i[1]] >= i[2]) ~> (TakenUndefined \/ \E n \in 1 .. Len(taken) : taken[n] = i)
=============================================================================
