-------------------------- MODULE ActionBufferQueue --------------------------
(***************************************************************************)
(* core/action_buffer_queue.h: the ring that carries the clients' actions  *)
(* to the worker threads.  EnqueueBulk is serialised by sem_enqueue_,      *)
(* Dequeue by sem_dequeue_, and sem_ counts the slices a Dequeue may take. *)
(* Every atomic operation and every slot access is a step of its own.      *)
(*                                                                         *)
(* The queue never compares the number of slices it holds with its size:   *)
(* it relies on its caller.  The caller modelled here is AsyncLitePool     *)
(* used as documented, one outstanding action for each env; `holder' says  *)
(* who is responsible for that action.                                     *)
(***************************************************************************)
EXTENDS Integers, Sequences, FiniteSets, Functions

CONSTANTS Clients,   \* threads that call Send or Reset
          Workers,   \* threads of the pool
          Envs,      \* env ids; a slice is identified by its env id
          NumEnvs,   \* constructor argument
          None,      \* no env
          Idle,      \* holder of an env without an outstanding action
          InQueue,   \* holder of an env whose slice is in the ring
          MaxAlloc   \* bound on alloc_ptr_

ASSUME ConstantsAssumption ==
  /\ IsFiniteSet(Envs) /\ IsFiniteSet(Workers)
  /\ NumEnvs \in Nat \ {0}
  /\ NumEnvs = Cardinality(Envs)
  /\ None \notin Envs
  /\ Clients \cap Workers = {}
  /\ Idle # InQueue
  /\ {Idle, InQueue} \cap (Clients \cup Workers) = {}
  /\ MaxAlloc \in Nat

\* Mutants (see the README): the ring shorter than the outstanding actions,
\* and an enqueue semaphore that admits two clients.
ShortRing == IF NumEnvs = 1 THEN 1 ELSE NumEnvs - 1
TwoEnqueuers == 2

queue_size_ == NumEnvs * 2

\* The initial count of sem_enqueue_.
enqueueSlots == 1

VARIABLES alloc_ptr_, done_ptr_, queue_, sem_, sem_enqueue_, sem_dequeue_,
          pc,        \* where each thread is
          action,    \* action[c]: the argument of c's EnqueueBulk
          pos,       \* pos[c]: the local pos
          i,         \* i[c]: the local loop counter
          ptr,       \* ptr[w]: the local ptr
          ret,       \* ret[w]: the local ret
          holder,    \* who holds the outstanding action of an env
          sent       \* history: every slice, in the order positions were claimed

clientVars == <<action, pos, i>>
workerVars == <<ptr, ret>>
locks == <<sem_enqueue_, sem_dequeue_>>
vars == <<alloc_ptr_, done_ptr_, queue_, sem_, sem_enqueue_, sem_dequeue_,
          pc, action, pos, i, ptr, ret, holder, sent>>

Init ==
  /\ alloc_ptr_ = 0 /\ done_ptr_ = 0
  /\ queue_ = [k \in 0 .. queue_size_ - 1 |-> None]
  /\ sem_ = 0 /\ sem_enqueue_ = enqueueSlots /\ sem_dequeue_ = 1
  /\ pc = [t \in Clients \cup Workers |-> "idle"]
  /\ action = [c \in Clients |-> <<>>]
  /\ pos = [c \in Clients |-> 0]
  /\ i = [c \in Clients |-> 0]
  /\ ptr = [w \in Workers |-> 0]
  /\ ret = [w \in Workers |-> None]
  /\ holder = [e \in Envs |-> Idle]
  /\ sent = <<>>

Goto(t, from, to) ==
  /\ pc[t] = from
  /\ pc' = [pc EXCEPT ![t] = to]

-----------------------------------------------------------------------------
(* EnqueueBulk(action), run by a client. *)

\* The call: a batch of distinct envs, none of which has an action outstanding.
Call(c, b) ==
  /\ Goto(c, "idle", "lock")
  /\ b # <<>> /\ IsInjective(b)
  /\ \A k \in DOMAIN b : holder[b[k]] = Idle
  /\ action' = [action EXCEPT ![c] = b]
  /\ holder' = [e \in Envs |-> IF \E k \in DOMAIN b : b[k] = e THEN c ELSE holder[e]]
  /\ UNCHANGED <<alloc_ptr_, done_ptr_, queue_, sem_, locks, pos, i, workerVars, sent>>

LockEnqueue(c) ==
  /\ Goto(c, "lock", "claim")
  /\ alloc_ptr_ + Len(action[c]) <= MaxAlloc
  /\ sem_enqueue_ > 0
  /\ sem_enqueue_' = sem_enqueue_ - 1
  /\ UNCHANGED <<alloc_ptr_, done_ptr_, queue_, sem_, sem_dequeue_, clientVars,
                 workerVars, holder, sent>>

Claim(c) ==
  /\ Goto(c, "claim", "write")
  /\ pos' = [pos EXCEPT ![c] = alloc_ptr_]
  /\ alloc_ptr_' = alloc_ptr_ + Len(action[c])
  /\ i' = [i EXCEPT ![c] = 0]
  /\ sent' = sent \o action[c]
  /\ holder' = [e \in Envs |-> IF holder[e] = c THEN InQueue ELSE holder[e]]
  /\ UNCHANGED <<done_ptr_, queue_, sem_, locks, action, workerVars>>

Write(c) ==
  /\ Goto(c, "write", "write")
  /\ i[c] < Len(action[c])
  /\ queue_' = [queue_ EXCEPT ![(pos[c] + i[c]) % queue_size_] = action[c][i[c] + 1]]
  /\ i' = [i EXCEPT ![c] = i[c] + 1]
  /\ UNCHANGED <<alloc_ptr_, done_ptr_, sem_, locks, action, pos, workerVars,
                 holder, sent>>

\* Mutant: signal() instead of signal(action.size()).
SignalOnce(c) ==
  /\ Goto(c, "write", "unlock")
  /\ i[c] = Len(action[c])
  /\ sem_' = sem_ + 1
  /\ UNCHANGED <<alloc_ptr_, done_ptr_, queue_, locks, clientVars, workerVars,
                 holder, sent>>

Signal(c) ==
  /\ Goto(c, "write", "unlock")
  /\ i[c] = Len(action[c])
  /\ sem_' = sem_ + Len(action[c])
  /\ UNCHANGED <<alloc_ptr_, done_ptr_, queue_, locks, clientVars, workerVars,
                 holder, sent>>

UnlockEnqueue(c) ==
  /\ Goto(c, "unlock", "idle")
  /\ sem_enqueue_' = sem_enqueue_ + 1
  /\ UNCHANGED <<alloc_ptr_, done_ptr_, queue_, sem_, sem_dequeue_, clientVars,
                 workerVars, holder, sent>>

-----------------------------------------------------------------------------
(* Dequeue(), run by a worker. *)

WaitSem(w) ==
  /\ Goto(w, "idle", "lock")
  /\ sem_ > 0
  /\ sem_' = sem_ - 1
  /\ UNCHANGED <<alloc_ptr_, done_ptr_, queue_, locks, clientVars, workerVars,
                 holder, sent>>

LockDequeue(w) ==
  /\ Goto(w, "lock", "fetch")
  /\ sem_dequeue_ > 0
  /\ sem_dequeue_' = sem_dequeue_ - 1
  /\ UNCHANGED <<alloc_ptr_, done_ptr_, queue_, sem_, sem_enqueue_, clientVars,
                 workerVars, holder, sent>>

\* Mutant: the position is read but not advanced.
FetchWithoutAdvance(w) ==
  /\ Goto(w, "fetch", "read")
  /\ ptr' = [ptr EXCEPT ![w] = done_ptr_]
  /\ UNCHANGED <<alloc_ptr_, done_ptr_, queue_, sem_, locks, clientVars, ret, holder, sent>>

Fetch(w) ==
  /\ Goto(w, "fetch", "read")
  /\ ptr' = [ptr EXCEPT ![w] = done_ptr_]
  /\ done_ptr_' = done_ptr_ + 1
  /\ UNCHANGED <<alloc_ptr_, queue_, sem_, locks, clientVars, ret, holder, sent>>

Read(w) ==
  /\ Goto(w, "read", "unlock")
  /\ ret' = [ret EXCEPT ![w] = queue_[ptr[w] % queue_size_]]
  /\ holder' = [holder EXCEPT ![sent[ptr[w] + 1]] = w]
  /\ UNCHANGED <<alloc_ptr_, done_ptr_, queue_, sem_, locks, clientVars, ptr, sent>>

UnlockDequeue(w) ==
  /\ Goto(w, "unlock", "work")
  /\ sem_dequeue_' = sem_dequeue_ + 1
  /\ UNCHANGED <<alloc_ptr_, done_ptr_, queue_, sem_, sem_enqueue_, clientVars,
                 workerVars, holder, sent>>

\* Outside the queue: the worker steps the env and the client receives its
\* state, after which a new action for the env may be sent.
Finish(w) ==
  /\ Goto(w, "work", "idle")
  /\ holder' = [e \in Envs |-> IF holder[e] = w THEN Idle ELSE holder[e]]
  /\ ret' = [ret EXCEPT ![w] = None]
  /\ UNCHANGED <<alloc_ptr_, done_ptr_, queue_, sem_, locks, clientVars, ptr, sent>>

-----------------------------------------------------------------------------
EnqueueStep(c) == LockEnqueue(c) \/ Claim(c) \/ Write(c) \/ Signal(c) \/ UnlockEnqueue(c)
DequeueStep(w) ==
  WaitSem(w) \/ LockDequeue(w) \/ Fetch(w) \/ Read(w) \/ UnlockDequeue(w) \/ Finish(w)

\* The batches a client can pass: sequences of envs without repetition.
Batches == {b \in UNION {[1 .. n -> Envs] : n \in 1 .. NumEnvs} : IsInjective(b)}

Next ==
  \/ \E c \in Clients : EnqueueStep(c) \/ \E b \in Batches : Call(c, b)
  \/ \E w \in Workers : DequeueStep(w)

Spec == Init /\ [][Next]_vars

\* A thread inside a call keeps running; nobody has to make a call.
Fairness ==
  /\ \A c \in Clients : WF_vars(EnqueueStep(c))
  /\ \A w \in Workers : WF_vars(DequeueStep(w))

FairSpec == Spec /\ Fairness

-----------------------------------------------------------------------------
(* Properties *)

Threads == Clients \cup Workers

TypeOK ==
  /\ alloc_ptr_ \in Nat /\ done_ptr_ \in Nat
  /\ queue_ \in [0 .. queue_size_ - 1 -> Envs \cup {None}]
  /\ sem_ \in Nat /\ sem_enqueue_ \in {0, 1} /\ sem_dequeue_ \in {0, 1}
  /\ pc \in [Threads -> {"idle", "lock", "claim", "write", "fetch", "read",
                         "unlock", "work"}]
  /\ action \in [Clients -> Seq(Envs)]
  /\ pos \in [Clients -> Nat]
  /\ i \in [Clients -> Nat]
  /\ ptr \in [Workers -> Nat]
  /\ ret \in [Workers -> Envs \cup {None}]
  /\ holder \in [Envs -> {Idle, InQueue} \cup Threads]
  /\ sent \in Seq(Envs)

Writing == {c \in Clients : pc[c] = "write"}
Granted == {w \in Workers : pc[w] \in {"lock", "fetch"}}

\* The end of what has been signalled: a batch being written is not part of it.
published == IF Writing = {} THEN alloc_ptr_ ELSE pos[CHOOSE c \in Writing : TRUE]

\* FIFO, exactly once: Dequeue number p returns slice number p, whatever
\* other enqueues and dequeues are in progress and however often the ring
\* has wrapped (Dequeue, lines 76-77).
FIFODelivery ==
  \A w \in Workers : pc[w] \in {"unlock", "work"} => ret[w] = sent[ptr[w] + 1]

\* The copy out of a slot never races a write into it (lines 65 and 77),
\* although the two sides take different locks.
NoSlotRace ==
  \A c \in Writing, w \in Workers :
    pc[w] = "read" /\ i[c] < Len(action[c])
      => (pos[c] + i[c]) % queue_size_ # ptr[w] % queue_size_

\* Each token of sem_ stands for exactly one slice that is written and not
\* yet claimed by a Dequeue (lines 67 and 72).
TokensMatchSlices ==
  LET tokens == done_ptr_ + sem_ + Cardinality(Granted)
  IN  /\ Writing = {} => tokens = alloc_ptr_
      /\ \A c \in Writing : tokens = pos[c]

\* With one action for each env the ring is never more than half full: the
\* factor 2 of the constructor (line 53) leaves num_envs slots in reserve,
\* which the pool's destructor uses for its stop slices.
HalfFull == alloc_ptr_ - done_ptr_ <= NumEnvs

\* An action that has a place in the ring is taken out by some worker.
EveryActionDequeued ==
  \A e \in Envs : holder[e] = InQueue ~> holder[e] # InQueue

\* What ActionFIFO sees of the ring.
handed ==
  [c \in Clients |-> IF pc[c] \in {"lock", "claim", "write"} THEN action[c] ELSE <<>>]
visible ==
  [k \in 1 .. published - done_ptr_ |-> queue_[(done_ptr_ + k - 1) % queue_size_]]
dequeued ==
  [w \in Workers |-> CASE pc[w] = "read" -> queue_[ptr[w] % queue_size_]
                       [] pc[w] \in {"unlock", "work"} -> ret[w]
                       [] OTHER -> None]

\* The ring implements the first-in-first-out queue of ActionFIFO: a batch
\* takes effect when sem_ is signalled, a Dequeue when done_ptr_ is advanced.
FIFO == INSTANCE ActionFIFO WITH hands <- handed, pending <- visible, taken <- dequeued

ImplementsFIFO == FIFO!Spec

-----------------------------------------------------------------------------
(* The inductive invariant of the proofs. *)

InEnqueue == {c \in Clients : pc[c] \in {"claim", "write", "unlock"}}
InDequeue == {w \in Workers : pc[w] \in {"fetch", "read", "unlock"}}

PcInv ==
  /\ \A c \in Clients : pc[c] \in {"idle", "lock", "claim", "write", "unlock"}
  /\ \A w \in Workers : pc[w] \in {"idle", "lock", "fetch", "read", "unlock", "work"}

\* The two binary semaphores exclude.
LockInv ==
  /\ \A c, d \in InEnqueue : c = d
  /\ InEnqueue # {} => sem_enqueue_ = 0
  /\ \A v, w \in InDequeue : v = w
  /\ InDequeue # {} => sem_dequeue_ = 0

\* `sent' records the claimed positions; the batch being written is its end.
ClaimInv ==
  /\ Len(sent) = alloc_ptr_
  /\ \A c \in Writing :
       /\ i[c] <= Len(action[c])
       /\ pos[c] + Len(action[c]) = alloc_ptr_
       /\ \A k \in 1 .. Len(action[c]) : sent[pos[c] + k] = action[c][k]

\* The oldest slot still needed: a worker about to copy keeps its slot alive.
oldest == IF \E w \in Workers : pc[w] = "read" THEN done_ptr_ - 1 ELSE done_ptr_

ReaderInv ==
  \A w \in Workers :
    /\ pc[w] = "read" => done_ptr_ = ptr[w] + 1
    /\ pc[w] \in {"read", "unlock", "work"} => ptr[w] < done_ptr_

\* An env is in the ring once, or in the hands of one caller, never both.
HolderInv ==
  /\ \A c \in Clients : pc[c] \in {"lock", "claim"} =>
       /\ IsInjective(action[c])
       /\ \A k \in DOMAIN action[c] : holder[action[c][k]] = c
  /\ \A k \in oldest + 1 .. Len(sent) : holder[sent[k]] = InQueue
  /\ \A j, k \in oldest + 1 .. Len(sent) : sent[j] = sent[k] => j = k

Written(k) == \A c \in Writing : k < pos[c] + i[c]

\* A written slot holds its slice until the slice has been copied out.
ContentInv ==
  \A k \in oldest .. alloc_ptr_ - 1 :
    Written(k) => queue_[k % queue_size_] = sent[k + 1]

IInv ==
  /\ TypeOK /\ PcInv /\ LockInv /\ ClaimInv /\ ReaderInv /\ HolderInv
  /\ ContentInv /\ TokensMatchSlices /\ FIFODelivery
=============================================================================
