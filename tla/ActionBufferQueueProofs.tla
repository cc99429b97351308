----------------------- MODULE ActionBufferQueueProofs -----------------------
(***************************************************************************)
(* Proofs about ActionBufferQueue for any number of clients, workers and   *)
(* envs.                                                                   *)
(***************************************************************************)
EXTENDS ActionBufferQueue, CommonFacts, FiniteSetTheorems, TLAPS

\* Two positions of a window of n positions are less than 2 * n apart.
LEMMA WithinRing ==
  ASSUME NEW n \in Nat \ {0}, NEW lo \in Nat, NEW hi \in Nat, hi - lo <= n,
         NEW j \in Nat, lo <= j, j < hi, NEW k \in Nat, lo <= k, k < hi
  PROVE  k < j + n * 2 /\ j < k + n * 2 /\ n * 2 \in Nat \ {0}
OBVIOUS

\* The slot of a position is a slot of the ring.
LEMMA SlotInRing ==
  ASSUME NEW k \in Nat
  PROVE  k % queue_size_ \in 0 .. queue_size_ - 1
BY ConstantsAssumption DEF queue_size_

\* What the invariant says of the counters.
LEMMA Bounds ==
  ASSUME IInv
  PROVE  /\ Cardinality(Granted) \in Nat /\ IsFiniteSet(Granted)
         /\ oldest \in Nat /\ oldest <= done_ptr_ /\ done_ptr_ <= alloc_ptr_
         /\ \A c \in Writing : done_ptr_ <= pos[c]
         /\ Len(sent) = alloc_ptr_
<1> USE DEF IInv
<1>1. Cardinality(Granted) \in Nat /\ IsFiniteSet(Granted)
  <2>1. Granted \in SUBSET Workers
    BY DEF Granted
  <2> QED
    BY <2>1, ConstantsAssumption, FS_Subset, FS_CardinalityType
<1>2. \A c \in Writing : done_ptr_ <= pos[c] /\ pos[c] <= alloc_ptr_
  BY <1>1 DEF TypeOK, TokensMatchSlices, ClaimInv, Writing
<1>3. done_ptr_ <= alloc_ptr_
  <2>1. CASE Writing = {}
    BY <1>1, <2>1 DEF TypeOK, TokensMatchSlices
  <2>2. CASE Writing # {}
    BY <1>2, <2>2 DEF TypeOK, Writing
  <2> QED
    BY <2>1, <2>2
<1>4. oldest \in Nat /\ oldest <= done_ptr_
  BY DEF oldest, ReaderInv, TypeOK
<1> QED
  BY <1>1, <1>2, <1>3, <1>4 DEF ClaimInv

\* The slices still needed belong to different envs, so they are at most num_envs.
LEMMA InRingBound ==
  ASSUME IInv
  PROVE  alloc_ptr_ - oldest <= NumEnvs
<1>1. /\ oldest \in Nat /\ oldest <= alloc_ptr_ /\ Len(sent) = alloc_ptr_
      /\ alloc_ptr_ \in Nat /\ sent \in Seq(Envs)
  BY Bounds DEF IInv, TypeOK
<1>2. SUFFICES ASSUME alloc_ptr_ - oldest > NumEnvs
               PROVE  FALSE
  BY <1>1, ConstantsAssumption
<1> DEFINE S == oldest + 1 .. alloc_ptr_
           f == [k \in S |-> sent[k]]
<1>3. IsFiniteSet(S) /\ Cardinality(S) = alloc_ptr_ - oldest
  BY <1>1, <1>2, FS_Interval, ConstantsAssumption
<1>4. f \in [S -> Envs]
  BY <1>1
<1>5. \E x, y \in S : x # y /\ f[x] = f[y]
  <2> HIDE DEF S, f
  <2> QED
    BY <1>1, <1>2, <1>3, <1>4, ConstantsAssumption, FS_PigeonHole
<1> QED
  BY <1>1, <1>5 DEF IInv, HolderInv

LEMMA LockEnqueueStep ==
  ASSUME IInv, NEW c \in Clients, LockEnqueue(c)
  PROVE  IInv'
<1> USE ConstantsAssumption DEF IInv, TypeOK, Threads, LockEnqueue, Goto, clientVars, workerVars, locks
<1>1. TypeOK'
  BY DEF TypeOK, Threads, queue_size_
<1>2. PcInv'
  BY DEF PcInv
<1>3. LockInv'
  BY DEF PcInv, LockInv, InEnqueue, InDequeue
<1>4. ClaimInv'
  BY DEF ClaimInv, LockInv, InEnqueue, PcInv, Writing
<1>5. ReaderInv'
  BY DEF ReaderInv, LockInv, InDequeue, PcInv
<1>6. HolderInv'
  BY DEF HolderInv, oldest, PcInv, ClaimInv,Threads
<1>7. ContentInv'
  BY DEF ContentInv, oldest, Written, Writing, PcInv, ClaimInv
<1>8. TokensMatchSlices'
  <2>1. Writing' = Writing /\ Granted' = Granted
    BY DEF Writing, Granted
  <2> QED
    BY <2>1 DEF TokensMatchSlices, Writing
<1>9. FIFODelivery'
  BY DEF FIFODelivery, PcInv, ReaderInv, ClaimInv
<1> QED
  BY <1>1, <1>2, <1>3, <1>4, <1>5, <1>6, <1>7, <1>8, <1>9 DEF IInv

LEMMA ClaimStep ==
  ASSUME IInv, NEW c \in Clients, Claim(c)
  PROVE  IInv'
<1> USE ConstantsAssumption DEF IInv, TypeOK, Threads, Claim, Goto, clientVars, workerVars, locks
<1>1. TypeOK'
  <2>1. sent \o action[c] \in Seq(Envs) /\ Len(action[c]) \in Nat
    OBVIOUS
  <2>2. sent' \in Seq(Envs) /\ alloc_ptr_' \in Nat
    BY <2>1
  <2>3. pos' \in [Clients -> Nat] /\ i' \in [Clients -> Nat]
    OBVIOUS
  <2>4. holder' \in [Envs -> {Idle, InQueue} \cup Threads]
    OBVIOUS
  <2>5. pc' \in [Threads -> {"idle", "lock", "claim", "write", "fetch", "read",
                            "unlock", "work"}]
    OBVIOUS
  <2> QED
    BY <2>2, <2>3, <2>4, <2>5 DEF TypeOK
<1>2. PcInv'
  BY DEF PcInv
<1>3. LockInv'
  BY DEF PcInv, LockInv, InEnqueue, InDequeue
<1>4. ClaimInv'
  <2>1. Writing' = {c}
    BY DEF Writing, LockInv, InEnqueue
  <2>2. /\ sent' = sent \o action[c]
        /\ Len(sent') = Len(sent) + Len(action[c])
        /\ \A k \in 1 .. Len(action[c]) : sent'[Len(sent) + k] = action[c][k]
    OBVIOUS
  <2>3. Len(sent) = alloc_ptr_ /\ pos'[c] = alloc_ptr_ /\ i'[c] = 0 /\ action' = action
    BY DEF ClaimInv
  <2> QED
    BY <2>1, <2>2, <2>3 DEF ClaimInv
<1>5. ReaderInv'
  BY DEF ReaderInv, LockInv, InDequeue, PcInv
<1>6. HolderInv'
  <2>1. oldest' = oldest /\ oldest \in Int
    BY DEF oldest
  <2>2. Len(sent') = Len(sent) + Len(action[c])
    OBVIOUS
  <2>3. /\ \A k \in 1 .. Len(sent) : sent'[k] = sent[k] /\ sent[k] \in Envs
        /\ \A k \in Len(sent) + 1 .. Len(sent') :
             /\ k - Len(sent) \in DOMAIN action[c]
             /\ sent'[k] = action[c][k - Len(sent)]
             /\ sent'[k] \in Envs
    <3>1. sent' = sent \o action[c] /\ sent \in Seq(Envs) /\ action[c] \in Seq(Envs)
      OBVIOUS
    <3> HIDE DEF IInv, TypeOK, Claim, Goto
    <3> QED
      BY <3>1, <2>2
  <2>4. \A k \in oldest + 1 .. Len(sent) : k \in 1 .. Len(sent) /\ holder[sent[k]] = InQueue
    <3>1. oldest \in Nat /\ HolderInv /\ Len(sent) \in Nat
      BY Bounds
    <3> HIDE DEF IInv, TypeOK, Claim, Goto
    <3> QED
      BY <3>1 DEF HolderInv
  <2>5. \A k \in Len(sent) + 1 .. Len(sent') : holder[sent'[k]] = c
    BY <2>3 DEF HolderInv
  <2>6. /\ \A e \in Envs : holder'[e] = IF holder[e] = c THEN InQueue ELSE holder[e]
        /\ oldest \in Int /\ Len(sent) \in Nat /\ Len(action[c]) \in Nat
        /\ action' = action /\ HolderInv /\ pc[c] = "claim"
        /\ InQueue # c /\ pc'[c] = "write" /\ \A d \in Clients : d # c => pc'[d] = pc[d]
        /\ action \in [Clients -> Seq(Envs)]
    BY <2>1
  <2> HIDE DEF IInv, TypeOK, Claim, Goto, Threads
  <2>7. \A k \in oldest + 1 .. Len(sent') : holder'[sent'[k]] = InQueue
    <3> SUFFICES ASSUME NEW k \in oldest + 1 .. Len(sent')
                 PROVE  holder'[sent'[k]] = InQueue
      OBVIOUS
    <3>1. CASE k <= Len(sent)
      <4>1. sent'[k] = sent[k] /\ sent[k] \in Envs /\ holder[sent[k]] = InQueue
        BY <3>1, <2>2, <2>3, <2>4, <2>6
      <4> QED
        BY <4>1, <2>6
    <3>2. CASE k > Len(sent)
      <4>1. sent'[k] \in Envs /\ holder[sent'[k]] = c
        BY <3>2, <2>2, <2>3, <2>5, <2>6
      <4> QED
        BY <4>1, <2>6
    <3> QED
      BY <3>1, <3>2, <2>2, <2>6
  <2>8. \A j, k \in oldest + 1 .. Len(sent') : sent'[j] = sent'[k] => j = k
    <3> SUFFICES ASSUME NEW j \in oldest + 1 .. Len(sent'),
                        NEW k \in oldest + 1 .. Len(sent'),
                        sent'[j] = sent'[k]
                 PROVE  j = k
      OBVIOUS
    <3>1. CASE j <= Len(sent) /\ k <= Len(sent)
      BY <3>1, <2>1, <2>2, <2>3, <2>4, <2>6 DEF HolderInv
    <3>2. CASE j > Len(sent) /\ k > Len(sent)
      <4>1. /\ j - Len(sent) \in DOMAIN action[c] /\ k - Len(sent) \in DOMAIN action[c]
            /\ action[c][j - Len(sent)] = action[c][k - Len(sent)]
        BY <3>2, <2>2, <2>3, <2>6
      <4>2. IsInjective(action[c])
        BY <2>6 DEF HolderInv
      <4> QED
        BY <4>1, <4>2, <2>1, <2>2, <2>6 DEF IsInjective
    <3>3. CASE j <= Len(sent) /\ k > Len(sent)
      <4>1. j \in oldest + 1 .. Len(sent) /\ k \in Len(sent) + 1 .. Len(sent')
        BY <3>3, <2>1, <2>2
      <4>2. sent'[j] = sent[j] /\ holder[sent[j]] = InQueue
        BY <4>1, <2>3, <2>4
      <4>3. holder[sent'[k]] = c
        BY <4>1, <2>5
      <4> QED
        BY <2>6, <4>2, <4>3
    <3>4. CASE j > Len(sent) /\ k <= Len(sent)
      <4>1. k \in oldest + 1 .. Len(sent) /\ j \in Len(sent) + 1 .. Len(sent')
        BY <3>4, <2>1, <2>2
      <4>2. holder[sent'[k]] = InQueue /\ holder[sent'[j]] = c
        BY <4>1, <2>3, <2>4, <2>5
      <4> QED
        BY <2>6, <4>2
    <3> QED
      BY <3>1, <3>2, <3>3, <3>4, <2>1, <2>2, <2>6
  <2>9. ASSUME NEW d \in Clients, pc'[d] \in {"lock", "claim"}
        PROVE  /\ IsInjective(action'[d])
               /\ \A k \in DOMAIN action'[d] : holder'[action'[d][k]] = d
    <3>1. /\ d # c /\ pc[d] \in {"lock", "claim"} /\ action[d] \in Seq(Envs)
      BY <2>6, <2>9
    <3>2. IsInjective(action[d]) /\ \A k \in DOMAIN action[d] : holder[action[d][k]] = d
      BY <2>6, <3>1 DEF HolderInv
    <3>3. \A k \in DOMAIN action[d] : action[d][k] \in Envs
      BY <3>1
    <3> QED
      BY <2>6, <3>1, <3>2, <3>3
  <2> QED
    BY <2>1, <2>7, <2>9, <2>8 DEF HolderInv
<1>7. ContentInv'
  <2>1. Writing' = {c} /\ Writing = {}
    BY DEF Writing, LockInv, InEnqueue
  <2>2. oldest' = oldest /\ oldest \in Nat
    BY Bounds DEF oldest
  <2>3. \A k \in 1 .. Len(sent) : sent'[k] = sent[k]
    OBVIOUS
  <2>4. \A k \in Nat : Written(k)' => k < alloc_ptr_
    BY <2>1 DEF Written
  <2> QED
    BY <2>1, <2>2, <2>3, <2>4 DEF ContentInv, ClaimInv, Written
<1>8. TokensMatchSlices'
  <2>1. Writing' = {c} /\ Writing = {} /\ Granted' = Granted
    BY DEF Writing, Granted, LockInv, InEnqueue
  <2> QED
    BY <2>1 DEF TokensMatchSlices
<1>9. FIFODelivery'
  <2>1. \A k \in 1 .. Len(sent) : sent'[k] = sent[k]
    OBVIOUS
  <2>2. ASSUME NEW w \in Workers, pc'[w] \in {"unlock", "work"}
        PROVE  ret[w] = sent[ptr[w] + 1] /\ ptr[w] + 1 \in 1 .. Len(sent)
    <3>1. pc[w] \in {"unlock", "work"}
      BY <2>2
    <3>2. ptr[w] \in Nat /\ ptr[w] < done_ptr_
      BY <3>1 DEF ReaderInv
    <3>3. done_ptr_ <= Len(sent) /\ Len(sent) \in Nat /\ done_ptr_ \in Nat
      BY Bounds
    <3>4. ptr[w] + 1 \in 1 .. Len(sent)
      BY <3>2, <3>3
    <3> QED
      BY <3>1, <3>4 DEF FIFODelivery
  <2> QED
    BY <2>1, <2>2 DEF FIFODelivery
<1> QED
  BY <1>1, <1>2, <1>3, <1>4, <1>5, <1>6, <1>7, <1>8, <1>9 DEF IInv

LEMMA WriteStep ==
  ASSUME IInv, NEW c \in Clients, Write(c)
  PROVE  IInv'
<1> USE ConstantsAssumption DEF IInv, TypeOK, Threads, Write, Goto, clientVars, workerVars, locks
<1>1. TypeOK'
  <2>1. action[c][i[c] + 1] \in Envs
    OBVIOUS
  <2>2. queue_' \in [0 .. queue_size_ - 1 -> Envs \cup {None}]
    BY <2>1
  <2>3. i' \in [Clients -> Nat]
    OBVIOUS
  <2> QED
    BY <2>2, <2>3 DEF TypeOK
<1>2. PcInv'
  BY DEF PcInv
<1>3. LockInv'
  BY DEF PcInv, LockInv, InEnqueue, InDequeue
<1>4. ClaimInv'
  BY DEF ClaimInv, LockInv, InEnqueue, PcInv, Writing
<1>5. ReaderInv'
  BY DEF ReaderInv, LockInv, InDequeue, PcInv
<1>6. HolderInv'
  BY DEF HolderInv, oldest, PcInv, ClaimInv,Threads
<1>7. ContentInv'
  <2> DEFINE p == pos[c] + i[c]
  <2>1. Writing' = {c} /\ Writing = {c}
    BY DEF Writing, LockInv, InEnqueue
  <2>2. oldest' = oldest /\ oldest \in Nat /\ alloc_ptr_ - oldest <= NumEnvs
    BY Bounds, InRingBound DEF oldest
  <2>3. p \in Nat /\ p < alloc_ptr_ /\ oldest <= p /\ sent[p + 1] = action[c][i[c] + 1]
    <3>1. /\ pos[c] \in Nat /\ i[c] \in Nat /\ Len(action[c]) \in Nat
          /\ i[c] + 1 \in 1 .. Len(action[c])
          /\ pos[c] + Len(action[c]) = alloc_ptr_
          /\ oldest \in Nat /\ oldest <= pos[c]
      BY <2>1, Bounds, SMTT(20) DEF ClaimInv
    <3>2. sent[pos[c] + (i[c] + 1)] = action[c][i[c] + 1]
      BY <2>1, <3>1 DEF ClaimInv
    <3>3. pos[c] + (i[c] + 1) = p + 1
      BY <3>1
    <3> QED
      BY <3>1, <3>2, <3>3
  <2> SUFFICES ASSUME NEW k \in oldest .. alloc_ptr_ - 1, Written(k)'
               PROVE  queue_'[k % queue_size_] = sent[k + 1]
    BY <2>2 DEF ContentInv
  <2>4. k \in Nat /\ k % queue_size_ \in DOMAIN queue_ /\ p % queue_size_ \in DOMAIN queue_
    BY <2>2, <2>3, SlotInRing, SMTT(20)
  <2>5. CASE k = p
    BY <2>3, <2>4, <2>5
  <2>6. CASE k # p
    <3>1. Written(k)
      BY <2>1, <2>2, <2>3, <2>4, <2>6, SMTT(20) DEF Written
    <3>2. k % queue_size_ # p % queue_size_
      <4>1. queue_size_ \in Nat \ {0} /\ k < p + queue_size_ /\ p < k + queue_size_
        <5>1. NumEnvs \in Nat \ {0} /\ alloc_ptr_ \in Nat /\ k < alloc_ptr_ /\ oldest <= k
          BY <2>2, ConstantsAssumption
        <5> QED
          BY <2>2, <2>3, <2>4, <5>1, WithinRing DEF queue_size_
      <4> QED
        BY <4>1, <2>3, <2>4, <2>6, SlotsDiffer
    <3> QED
      BY <3>1, <3>2, <2>4 DEF ContentInv
  <2> QED
    BY <2>5, <2>6
<1>8. TokensMatchSlices'
  <2>1. Writing' = Writing /\ Granted' = Granted
    BY DEF Writing, Granted
  <2> QED
    BY <2>1 DEF TokensMatchSlices, Writing
<1>9. FIFODelivery'
  BY DEF FIFODelivery, PcInv, ReaderInv, ClaimInv
<1> QED
  BY <1>1, <1>2, <1>3, <1>4, <1>5, <1>6, <1>7, <1>8, <1>9 DEF IInv

LEMMA SignalStep ==
  ASSUME IInv, NEW c \in Clients, Signal(c)
  PROVE  IInv'
<1> USE ConstantsAssumption DEF IInv, TypeOK, Threads, Signal, Goto, clientVars, workerVars, locks
<1>1. TypeOK'
  BY DEF TypeOK, Threads, queue_size_
<1>2. PcInv'
  BY DEF PcInv
<1>3. LockInv'
  BY DEF PcInv, LockInv, InEnqueue, InDequeue
<1>4. ClaimInv'
  BY DEF ClaimInv, LockInv, InEnqueue, PcInv, Writing
<1>5. ReaderInv'
  BY DEF ReaderInv, LockInv, InDequeue, PcInv
<1>6. HolderInv'
  BY DEF HolderInv, oldest, PcInv, ClaimInv,Threads
<1>7. ContentInv'
  <2>1. Writing = {c} /\ Writing' = {} /\ oldest' = oldest /\ oldest \in Nat
    BY Bounds DEF Writing, LockInv, InEnqueue, oldest
  <2>2. \A k \in oldest .. alloc_ptr_ - 1 : Written(k)
    BY <2>1 DEF Written, ClaimInv
  <2> QED
    BY <2>1, <2>2 DEF ContentInv
<1>8. TokensMatchSlices'
  <2>1. Writing = {c} /\ Writing' = {} /\ Granted' = Granted
    BY DEF Writing, Granted, LockInv, InEnqueue
  <2>2. Cardinality(Granted) \in Nat
    BY Bounds
  <2> QED
    BY <2>1, <2>2 DEF TokensMatchSlices, ClaimInv
<1>9. FIFODelivery'
  BY DEF FIFODelivery, PcInv, ReaderInv, ClaimInv
<1> QED
  BY <1>1, <1>2, <1>3, <1>4, <1>5, <1>6, <1>7, <1>8, <1>9 DEF IInv

LEMMA UnlockEnqueueStep ==
  ASSUME IInv, NEW c \in Clients, UnlockEnqueue(c)
  PROVE  IInv'
<1> USE ConstantsAssumption DEF IInv, TypeOK, Threads, UnlockEnqueue, Goto, clientVars, workerVars, locks
<1>1. TypeOK'
  BY DEF TypeOK, LockInv, InEnqueue
<1>2. PcInv'
  BY DEF PcInv
<1>3. LockInv'
  BY DEF PcInv, LockInv, InEnqueue, InDequeue
<1>4. ClaimInv'
  BY DEF ClaimInv, LockInv, InEnqueue, PcInv, Writing
<1>5. ReaderInv'
  BY DEF ReaderInv, LockInv, InDequeue, PcInv
<1>6. HolderInv'
  BY DEF HolderInv, oldest, PcInv, ClaimInv,Threads
<1>7. ContentInv'
  BY DEF ContentInv, oldest, Written, Writing, PcInv, ClaimInv
<1>8. TokensMatchSlices'
  <2>1. Writing' = Writing /\ Granted' = Granted
    BY DEF Writing, Granted
  <2> QED
    BY <2>1 DEF TokensMatchSlices, Writing
<1>9. FIFODelivery'
  BY DEF FIFODelivery, PcInv, ReaderInv, ClaimInv
<1> QED
  BY <1>1, <1>2, <1>3, <1>4, <1>5, <1>6, <1>7, <1>8, <1>9 DEF IInv

LEMMA WaitSemStep ==
  ASSUME IInv, NEW w \in Workers, WaitSem(w)
  PROVE  IInv'
<1> USE ConstantsAssumption DEF IInv, TypeOK, Threads, WaitSem, Goto, clientVars, workerVars, locks
<1>1. TypeOK'
  BY DEF TypeOK, Threads, queue_size_
<1>2. PcInv'
  BY DEF PcInv
<1>3. LockInv'
  BY DEF PcInv, LockInv, InEnqueue, InDequeue
<1>4. ClaimInv'
  BY DEF ClaimInv, LockInv, InEnqueue, PcInv, Writing
<1>5. ReaderInv'
  BY DEF ReaderInv, LockInv, InDequeue, PcInv
<1>6. HolderInv'
  BY DEF HolderInv, oldest, PcInv, ClaimInv,Threads
<1>7. ContentInv'
  BY DEF ContentInv, oldest, Written, Writing, PcInv, ClaimInv
<1>8. TokensMatchSlices'
  <2>1. Writing' = Writing /\ Granted' = Granted \cup {w} /\ w \notin Granted
    BY DEF Writing, Granted
  <2>2. Cardinality(Granted') = Cardinality(Granted) + 1 /\ Cardinality(Granted) \in Nat
    BY <2>1, Bounds, FS_AddElement
  <2>3. done_ptr_' + sem_' + Cardinality(Granted') = done_ptr_ + sem_ + Cardinality(Granted)
    BY <2>2
  <2>4. alloc_ptr_' = alloc_ptr_ /\ pos' = pos
    OBVIOUS
  <2> QED
    BY <2>1, <2>3, <2>4 DEF TokensMatchSlices
<1>9. FIFODelivery'
  BY DEF FIFODelivery, PcInv, ReaderInv, ClaimInv
<1> QED
  BY <1>1, <1>2, <1>3, <1>4, <1>5, <1>6, <1>7, <1>8, <1>9 DEF IInv

LEMMA LockDequeueStep ==
  ASSUME IInv, NEW w \in Workers, LockDequeue(w)
  PROVE  IInv'
<1> USE ConstantsAssumption DEF IInv, TypeOK, Threads, LockDequeue, Goto, clientVars, workerVars, locks
<1>1. TypeOK'
  BY DEF TypeOK, Threads, queue_size_
<1>2. PcInv'
  BY DEF PcInv
<1>3. LockInv'
  BY DEF PcInv, LockInv, InEnqueue, InDequeue
<1>4. ClaimInv'
  BY DEF ClaimInv, LockInv, InEnqueue, PcInv, Writing
<1>5. ReaderInv'
  BY DEF ReaderInv, LockInv, InDequeue, PcInv
<1>6. HolderInv'
  BY DEF HolderInv, oldest, PcInv, ClaimInv,Threads
<1>7. ContentInv'
  BY DEF ContentInv, oldest, Written, Writing, PcInv, ClaimInv
<1>8. TokensMatchSlices'
  <2>1. Writing' = Writing /\ Granted' = Granted
    BY DEF Writing, Granted
  <2> QED
    BY <2>1 DEF TokensMatchSlices, Writing
<1>9. FIFODelivery'
  BY DEF FIFODelivery, PcInv, ReaderInv, ClaimInv
<1> QED
  BY <1>1, <1>2, <1>3, <1>4, <1>5, <1>6, <1>7, <1>8, <1>9 DEF IInv

LEMMA FetchStep ==
  ASSUME IInv, NEW w \in Workers, Fetch(w)
  PROVE  IInv'
<1> USE ConstantsAssumption DEF IInv, TypeOK, Threads, Fetch, Goto, clientVars, workerVars, locks
<1>1. TypeOK'
  BY DEF TypeOK, Threads, queue_size_
<1>2. PcInv'
  BY DEF PcInv
<1>3. LockInv'
  BY DEF PcInv, LockInv, InEnqueue, InDequeue
<1>4. ClaimInv'
  BY DEF ClaimInv, LockInv, InEnqueue, PcInv, Writing
<1>5. ReaderInv'
  BY DEF ReaderInv, LockInv, InDequeue, PcInv
<1>6. HolderInv'
  BY DEF HolderInv, oldest, PcInv, ClaimInv,Threads
<1>7. ContentInv'
  <2>1. oldest = done_ptr_ /\ oldest' = done_ptr_
    BY DEF oldest, LockInv, InDequeue
  <2>2. \A k \in Nat : Written(k)' <=> Written(k)
    BY DEF Written, Writing
  <2> QED
    BY <2>1, <2>2 DEF ContentInv
<1>8. TokensMatchSlices'
  <2>1. Writing' = Writing /\ Granted' = Granted \ {w} /\ w \in Granted
    BY DEF Writing, Granted
  <2>2. Cardinality(Granted') = Cardinality(Granted) - 1 /\ Cardinality(Granted) \in Nat
    BY <2>1, Bounds, FS_RemoveElement
  <2>3. done_ptr_' + sem_' + Cardinality(Granted') = done_ptr_ + sem_ + Cardinality(Granted)
    BY <2>2
  <2>4. alloc_ptr_' = alloc_ptr_ /\ pos' = pos
    OBVIOUS
  <2> QED
    BY <2>1, <2>3, <2>4 DEF TokensMatchSlices
<1>9. FIFODelivery'
  BY DEF FIFODelivery, PcInv, ReaderInv, ClaimInv
<1> QED
  BY <1>1, <1>2, <1>3, <1>4, <1>5, <1>6, <1>7, <1>8, <1>9 DEF IInv

LEMMA ReadStep ==
  ASSUME IInv, NEW w \in Workers, Read(w)
  PROVE  IInv'
<1> USE ConstantsAssumption DEF IInv, TypeOK, Threads, Read, Goto, clientVars, workerVars, locks
<1>1. TypeOK'
  <2>1. queue_[ptr[w] % queue_size_] \in Envs \cup {None}
    BY SlotInRing
  <2> QED
    BY <2>1 DEF TypeOK
<1>2. PcInv'
  BY DEF PcInv
<1>3. LockInv'
  BY DEF PcInv, LockInv, InEnqueue, InDequeue
<1>4. ClaimInv'
  BY DEF ClaimInv, LockInv, InEnqueue, PcInv, Writing
<1>5. ReaderInv'
  BY DEF ReaderInv, LockInv, InDequeue, PcInv
<1>6. HolderInv'
  <2>1. oldest = ptr[w] /\ oldest' = ptr[w] + 1 /\ ptr[w] < Len(sent)
    <3>1. done_ptr_ = ptr[w] + 1 /\ ptr[w] < Len(sent)
      BY Bounds DEF ReaderInv
    <3>2. \A v \in Workers : pc[v] = "read" => v = w
      BY DEF LockInv, InDequeue
    <3>3. ~ \E v \in Workers : pc'[v] = "read"
      BY <3>2
    <3> QED
      BY <3>1, <3>3 DEF oldest
  <2>2. sent[ptr[w] + 1] \in Envs /\ holder[sent[ptr[w] + 1]] = InQueue
    BY <2>1 DEF HolderInv
  <2>3. \A k \in oldest' + 1 .. Len(sent) : sent[k] \in Envs /\ sent[k] # sent[ptr[w] + 1]
    BY <2>1, SMTT(20) DEF HolderInv
  <2>4. ASSUME NEW c \in Clients, pc'[c] \in {"lock", "claim"}
        PROVE  /\ IsInjective(action'[c])
               /\ \A k \in DOMAIN action'[c] : holder'[action'[c][k]] = c
    BY <2>2, <2>4 DEF HolderInv, IsInjective
  <2> QED
    BY <2>1, <2>3, <2>4 DEF HolderInv
<1>7. ContentInv'
  BY DEF ContentInv, oldest, Written, Writing, PcInv, ClaimInv
<1>8. TokensMatchSlices'
  <2>1. Writing' = Writing /\ Granted' = Granted
    BY DEF Writing, Granted
  <2> QED
    BY <2>1 DEF TokensMatchSlices, Writing
<1>9. FIFODelivery'
  <2>1. ptr[w] \in oldest .. alloc_ptr_ - 1 /\ Written(ptr[w])
    BY Bounds DEF oldest, ReaderInv, Written, Writing
  <2>2. queue_[ptr[w] % queue_size_] = sent[ptr[w] + 1]
    BY <2>1 DEF ContentInv
  <2> QED
    BY <2>2 DEF FIFODelivery
<1> QED
  BY <1>1, <1>2, <1>3, <1>4, <1>5, <1>6, <1>7, <1>8, <1>9 DEF IInv

LEMMA UnlockDequeueStep ==
  ASSUME IInv, NEW w \in Workers, UnlockDequeue(w)
  PROVE  IInv'
<1> USE ConstantsAssumption DEF IInv, TypeOK, Threads, UnlockDequeue, Goto, clientVars, workerVars, locks
<1>1. TypeOK'
  BY DEF TypeOK, LockInv, InDequeue
<1>2. PcInv'
  BY DEF PcInv
<1>3. LockInv'
  BY DEF PcInv, LockInv, InEnqueue, InDequeue
<1>4. ClaimInv'
  BY DEF ClaimInv, LockInv, InEnqueue, PcInv, Writing
<1>5. ReaderInv'
  BY DEF ReaderInv, LockInv, InDequeue, PcInv
<1>6. HolderInv'
  BY DEF HolderInv, oldest, PcInv, ClaimInv,Threads
<1>7. ContentInv'
  BY DEF ContentInv, oldest, Written, Writing, PcInv, ClaimInv
<1>8. TokensMatchSlices'
  <2>1. Writing' = Writing /\ Granted' = Granted
    BY DEF Writing, Granted
  <2> QED
    BY <2>1 DEF TokensMatchSlices, Writing
<1>9. FIFODelivery'
  BY DEF FIFODelivery, PcInv, ReaderInv, ClaimInv
<1> QED
  BY <1>1, <1>2, <1>3, <1>4, <1>5, <1>6, <1>7, <1>8, <1>9 DEF IInv

LEMMA FinishStep ==
  ASSUME IInv, NEW w \in Workers, Finish(w)
  PROVE  IInv'
<1> USE ConstantsAssumption DEF IInv, TypeOK, Threads, Finish, Goto, clientVars, workerVars, locks
<1>1. TypeOK'
  BY DEF TypeOK, Threads, queue_size_
<1>2. PcInv'
  BY DEF PcInv
<1>3. LockInv'
  BY DEF PcInv, LockInv, InEnqueue, InDequeue
<1>4. ClaimInv'
  BY DEF ClaimInv, LockInv, InEnqueue, PcInv, Writing
<1>5. ReaderInv'
  BY DEF ReaderInv, LockInv, InDequeue, PcInv
<1>6. HolderInv'
  <2>1. oldest' = oldest
    BY DEF oldest
  <2>2. ASSUME NEW c \in Clients, pc'[c] \in {"lock", "claim"}
        PROVE  /\ IsInjective(action'[c])
               /\ \A k \in DOMAIN action'[c] : holder'[action'[c][k]] = c
    BY <2>2 DEF HolderInv, IsInjective
  <2>3. \A k \in oldest + 1 .. Len(sent) : holder'[sent[k]] = InQueue
    BY Bounds DEF HolderInv
  <2> QED
    BY <2>1, <2>2, <2>3 DEF HolderInv
<1>7. ContentInv'
  BY DEF ContentInv, oldest, Written, Writing, PcInv, ClaimInv
<1>8. TokensMatchSlices'
  <2>1. Writing' = Writing /\ Granted' = Granted
    BY DEF Writing, Granted
  <2> QED
    BY <2>1 DEF TokensMatchSlices, Writing
<1>9. FIFODelivery'
  BY DEF FIFODelivery, PcInv, ReaderInv, ClaimInv
<1> QED
  BY <1>1, <1>2, <1>3, <1>4, <1>5, <1>6, <1>7, <1>8, <1>9 DEF IInv

\* The batches a client passes are sequences of distinct envs.
LEMMA BatchIsSequence ==
  ASSUME NEW b \in Batches
  PROVE  b \in Seq(Envs) /\ IsInjective(b)
<1>1. PICK n \in 1 .. NumEnvs : b \in [1 .. n -> Envs]
  BY Zenon DEF Batches
<1>2. IsInjective(b)
  BY DEF Batches
<1> QED
  BY <1>1, <1>2, ConstantsAssumption

LEMMA CallStep ==
  ASSUME IInv, NEW c \in Clients, NEW b \in Batches, Call(c, b)
  PROVE  IInv'
<1> USE ConstantsAssumption DEF IInv, TypeOK, Threads, Call, Goto, clientVars, workerVars, locks
<1>0. b \in Seq(Envs) /\ IsInjective(b)
  BY BatchIsSequence
<1>1. TypeOK'
  BY <1>0 DEF TypeOK, Threads
<1>2. PcInv'
  BY DEF PcInv
<1>3. LockInv'
  BY DEF PcInv, LockInv, InEnqueue, InDequeue
<1>4. ClaimInv'
  BY DEF ClaimInv, LockInv, InEnqueue, PcInv, Writing
<1>5. ReaderInv'
  BY DEF ReaderInv, LockInv, InDequeue, PcInv
<1>6. HolderInv'
  <2>1. oldest' = oldest /\ oldest \in Nat /\ Len(sent) = alloc_ptr_
    BY Bounds DEF oldest
  <2>2. ASSUME NEW d \in Clients, pc'[d] \in {"lock", "claim"}
        PROVE  /\ IsInjective(action'[d])
               /\ \A k \in DOMAIN action'[d] : holder'[action'[d][k]] = d
    <3>1. CASE d = c
      BY <1>0, <3>1
    <3>2. CASE d # c
      BY <2>2, <3>2 DEF HolderInv, IsInjective
    <3> QED
      BY <3>1, <3>2
  <2>3. \A k \in oldest + 1 .. Len(sent) : holder'[sent[k]] = InQueue
    BY <2>1 DEF HolderInv
  <2>4. \A j, k \in oldest + 1 .. Len(sent) : sent[j] = sent[k] => j = k
    BY DEF HolderInv
  <2>5. sent' = sent
    OBVIOUS
  <2> HIDE DEF IInv, TypeOK, Call, Goto
  <2> QED
    BY <2>1, <2>2, <2>3, <2>4, <2>5 DEF HolderInv
<1>7. ContentInv'
  BY DEF ContentInv, oldest, Written, Writing, PcInv, ClaimInv
<1>8. TokensMatchSlices'
  <2>1. Writing' = Writing /\ Granted' = Granted
    BY DEF Writing, Granted
  <2> QED
    BY <2>1 DEF TokensMatchSlices, Writing
<1>9. FIFODelivery'
  BY DEF FIFODelivery, PcInv, ReaderInv, ClaimInv
<1> QED
  BY <1>1, <1>2, <1>3, <1>4, <1>5, <1>6, <1>7, <1>8, <1>9 DEF IInv

LEMMA InitIInv == Init => IInv
<1> SUFFICES ASSUME Init PROVE IInv
  OBVIOUS
<1> USE ConstantsAssumption DEF Init, enqueueSlots
<1>1. TypeOK /\ PcInv
  BY DEF TypeOK, Threads, queue_size_, PcInv
<1>2. LockInv /\ ClaimInv /\ ReaderInv /\ FIFODelivery
  BY DEF LockInv, ClaimInv, ReaderInv, FIFODelivery, InEnqueue, InDequeue, Writing
<1>3. HolderInv /\ ContentInv
  BY DEF HolderInv, ContentInv, oldest
<1>4. TokensMatchSlices
  <2>1. Granted = {} /\ Writing = {}
    BY DEF Granted, Writing
  <2> QED
    BY <2>1, FS_EmptySet DEF TokensMatchSlices
<1> QED
  BY <1>1, <1>2, <1>3, <1>4 DEF IInv

LEMMA StutterStep ==
  ASSUME IInv, UNCHANGED vars
  PROVE  IInv'
BY DEF IInv, vars, TypeOK, PcInv, LockInv, ClaimInv, ReaderInv, HolderInv, ContentInv,
   TokensMatchSlices, FIFODelivery, InEnqueue, InDequeue, Writing, Granted, Written, oldest

\* The invariant holds in every reachable state, for all constants.
THEOREM Invariance == Spec => []IInv
<1>1. IInv /\ [Next]_vars => IInv'
  <2> SUFFICES ASSUME IInv, [Next]_vars PROVE IInv'
    OBVIOUS
  <2>1. ASSUME NEW c \in Clients, EnqueueStep(c) PROVE IInv'
    BY <2>1, LockEnqueueStep, ClaimStep, WriteStep, SignalStep, UnlockEnqueueStep
       DEF EnqueueStep
  <2>2. ASSUME NEW c \in Clients, NEW b \in Batches, Call(c, b) PROVE IInv'
    BY <2>2, CallStep
  <2>3. ASSUME NEW w \in Workers, DequeueStep(w) PROVE IInv'
    BY <2>3, WaitSemStep, LockDequeueStep, FetchStep, ReadStep, UnlockDequeueStep, FinishStep
       DEF DequeueStep
  <2>4. CASE UNCHANGED vars
    BY <2>4, StutterStep
  <2> QED
    BY <2>1, <2>2, <2>3, <2>4 DEF Next
<1> QED
  BY InitIInv, <1>1, PTL DEF Spec

\* Every variable keeps its type.
THEOREM TypeCorrect == Spec => []TypeOK
<1>1. IInv => TypeOK
  BY DEF IInv
<1> QED
  BY <1>1, Invariance, PTL

\* First in, first out, exactly once: Dequeue number p returns slice number p,
\* for any number of clients, workers and envs (Dequeue, lines 75-78).
THEOREM FIFOCorrect == Spec => []FIFODelivery
<1>1. IInv => FIFODelivery
  BY DEF IInv
<1> QED
  BY <1>1, Invariance, PTL

\* sem_ never grants a Dequeue that has no written slice to take.
THEOREM TokensCorrect == Spec => []TokensMatchSlices
<1>1. IInv => TokensMatchSlices
  BY DEF IInv
<1> QED
  BY <1>1, Invariance, PTL

\* The ring is never more than half full (line 52).
THEOREM HalfFullCorrect == Spec => []HalfFull
<1>1. IInv => HalfFull
  <2> SUFFICES ASSUME IInv PROVE HalfFull
    OBVIOUS
  <2>1. /\ alloc_ptr_ - oldest <= NumEnvs /\ oldest <= done_ptr_ /\ oldest \in Nat
        /\ alloc_ptr_ \in Nat /\ done_ptr_ \in Nat
    BY InRingBound, Bounds DEF IInv, TypeOK
  <2> QED
    BY <2>1, ConstantsAssumption DEF HalfFull
<1> QED
  BY <1>1, Invariance, PTL

\* A slot is never written while a worker copies out of it, although the two
\* sides hold different locks (lines 66 and 77).
THEOREM NoSlotRaceCorrect == Spec => []NoSlotRace
<1>1. IInv => NoSlotRace
  <2> SUFFICES ASSUME IInv, NEW c \in Writing, NEW w \in Workers,
                      pc[w] = "read", i[c] < Len(action[c])
               PROVE  (pos[c] + i[c]) % queue_size_ # ptr[w] % queue_size_
    BY DEF NoSlotRace
  <2>1. /\ pos[c] \in Nat /\ i[c] \in Nat /\ ptr[w] \in Nat /\ Len(action[c]) \in Nat
        /\ alloc_ptr_ \in Nat /\ done_ptr_ \in Nat
    BY DEF IInv, TypeOK, Writing
  <2>2. /\ oldest = ptr[w] /\ ptr[w] + 1 = done_ptr_
        /\ done_ptr_ <= pos[c] /\ pos[c] + Len(action[c]) = alloc_ptr_
    BY <2>1, Bounds DEF IInv, ReaderInv, ClaimInv, oldest
  <2>3. alloc_ptr_ - ptr[w] <= NumEnvs
    BY <2>2, InRingBound
  <2>4. ptr[w] < pos[c] + i[c] /\ pos[c] + i[c] < alloc_ptr_ /\ ptr[w] < alloc_ptr_
    BY <2>1, <2>2
  <2>5. NumEnvs \in Nat \ {0} /\ queue_size_ = NumEnvs * 2 /\ pos[c] + i[c] \in Nat
    BY <2>1, ConstantsAssumption DEF queue_size_
  <2>6. pos[c] + i[c] < ptr[w] + queue_size_ /\ queue_size_ \in Nat \ {0}
    BY <2>1, <2>3, <2>4, <2>5, WithinRing
  <2> QED
    BY <2>1, <2>4, <2>5, <2>6, SlotsDiffer
<1> QED
  BY <1>1, Invariance, PTL

-----------------------------------------------------------------------------
(* The refinement of ActionFIFO. *)

\* Seen from ActionFIFO the ring is a window of `sent': the positions from
\* done_ptr_ to what has been signalled.
Window ==
  /\ published \in Nat /\ done_ptr_ <= published /\ published <= Len(sent)
  /\ published = done_ptr_ + sem_ + Cardinality(Granted)
  /\ Writing = {} => published = alloc_ptr_
  /\ \A c \in Writing : published = pos[c]
  /\ visible = [k \in 1 .. published - done_ptr_ |-> sent[done_ptr_ + k]]
  /\ \A w \in Workers : pc[w] \in {"read", "unlock", "work"} => ptr[w] \in 0 .. Len(sent) - 1
  /\ dequeued = [w \in Workers |-> IF pc[w] \in {"read", "unlock", "work"} THEN sent[ptr[w] + 1]
                                   ELSE None]

LEMMA WindowCorrect == IInv => Window
<1> SUFFICES ASSUME IInv PROVE Window
  OBVIOUS
<1>1. /\ TypeOK /\ PcInv /\ LockInv /\ ClaimInv /\ ReaderInv /\ ContentInv /\ TokensMatchSlices
      /\ FIFODelivery
  BY DEF IInv
<1>2. /\ Cardinality(Granted) \in Nat /\ oldest \in Nat /\ oldest <= done_ptr_
      /\ done_ptr_ <= alloc_ptr_ /\ Len(sent) = alloc_ptr_
      /\ \A c \in Writing : done_ptr_ <= pos[c]
  BY Bounds
<1>3. /\ alloc_ptr_ \in Nat /\ done_ptr_ \in Nat /\ sem_ \in Nat /\ sent \in Seq(Envs)
      /\ \A c \in Clients : pos[c] \in Nat /\ i[c] \in Nat /\ Len(action[c]) \in Nat
      /\ \A w \in Workers : ptr[w] \in Nat
  BY <1>1 DEF TypeOK
<1>4. \A c, d \in Writing : c = d /\ c \in Clients
  BY <1>1 DEF LockInv, InEnqueue, Writing
<1>5. /\ published \in Nat /\ done_ptr_ <= published /\ published <= alloc_ptr_
      /\ published = done_ptr_ + sem_ + Cardinality(Granted)
      /\ Writing = {} => published = alloc_ptr_
      /\ \A c \in Writing : published = pos[c]
  <2>1. CASE Writing = {}
    BY <1>1, <1>2, <1>3, <2>1 DEF published, TokensMatchSlices
  <2>2. CASE Writing # {}
    <3>1. PICK d \in Writing : d = CHOOSE c \in Writing : TRUE
      BY <2>2
    <3>2. published = pos[d] /\ d \in Clients
      BY <1>4, <2>2, <3>1 DEF published
    <3>3. pos[d] + Len(action[d]) = alloc_ptr_
      BY <1>1 DEF ClaimInv
    <3>4. published = done_ptr_ + sem_ + Cardinality(Granted)
      BY <1>1, <3>2 DEF TokensMatchSlices
    <3>5. \A c \in Writing : c = d
      BY <1>4
    <3>6. published \in Nat /\ done_ptr_ <= published /\ published <= alloc_ptr_
      BY <1>2, <1>3, <3>2, <3>3
    <3> QED
      BY <2>2, <3>2, <3>4, <3>5, <3>6
  <2> QED
    BY <2>1, <2>2
<1>6. \A k \in oldest .. published - 1 : queue_[k % queue_size_] = sent[k + 1]
  <2> TAKE k \in oldest .. published - 1
  <2>1. \A c \in Writing : pos[c] \in Nat /\ i[c] \in Nat /\ k < pos[c] + i[c]
    BY <1>2, <1>3, <1>4, <1>5
  <2>2. Written(k) /\ k \in oldest .. alloc_ptr_ - 1
    BY <1>2, <1>3, <1>5, <2>1 DEF Written
  <2> QED
    BY <1>1, <2>2 DEF ContentInv
<1>7. visible = [k \in 1 .. published - done_ptr_ |-> sent[done_ptr_ + k]]
  <2>1. ASSUME NEW k \in 1 .. published - done_ptr_
        PROVE  queue_[(done_ptr_ + k - 1) % queue_size_] = sent[done_ptr_ + k]
    <3>1. done_ptr_ + k - 1 \in oldest .. published - 1 /\ (done_ptr_ + k - 1) + 1 = done_ptr_ + k
      BY <1>2, <1>3, <1>5
    <3> QED
      BY <1>6, <3>1
  <2> QED
    BY <2>1 DEF visible
<1>8. \A w \in Workers : pc[w] \in {"read", "unlock", "work"} => ptr[w] \in 0 .. Len(sent) - 1
  BY <1>1, <1>2, <1>3 DEF ReaderInv
<1>9. \A w \in Workers : pc[w] = "read" => queue_[ptr[w] % queue_size_] = sent[ptr[w] + 1]
  <2> SUFFICES ASSUME NEW w \in Workers, pc[w] = "read"
               PROVE  queue_[ptr[w] % queue_size_] = sent[ptr[w] + 1]
    OBVIOUS
  <2>1. done_ptr_ = ptr[w] + 1 /\ oldest = done_ptr_ - 1
    BY <1>1 DEF ReaderInv, oldest
  <2>2. ptr[w] \in oldest .. published - 1
    <3>1. PICK p \in Nat, n \in Nat : p = ptr[w] /\ n = published
      BY <1>3, <1>5
    <3>2. p + 1 <= n /\ oldest = p
      BY <1>5, <2>1, <3>1
    <3> QED
      BY <3>1, <3>2
  <2> QED
    BY <1>6, <2>2
<1>10. dequeued = [w \in Workers |-> IF pc[w] \in {"read", "unlock", "work"} THEN sent[ptr[w] + 1]
                                    ELSE None]
  <2>1. \A w \in Workers : pc[w] \in {"unlock", "work"} => ret[w] = sent[ptr[w] + 1]
    BY <1>1 DEF FIFODelivery
  <2>2. \A w \in Workers :
          (CASE pc[w] = "read" -> queue_[ptr[w] % queue_size_]
             [] pc[w] \in {"unlock", "work"} -> ret[w]
             [] OTHER -> None)
          = IF pc[w] \in {"read", "unlock", "work"} THEN sent[ptr[w] + 1] ELSE None
    BY <1>9, <2>1
  <2> QED
    BY <2>2 DEF dequeued
<1> QED
  BY <1>2, <1>5, <1>7, <1>8, <1>10 DEF Window

\* What stays the same when few things change.
LEMMA SamePublished ==
  ASSUME Window, Window', Writing' = Writing, alloc_ptr_' = alloc_ptr_, pos' = pos
  PROVE  published' = published
<1>1. CASE Writing = {}
  BY <1>1 DEF Window
<1>2. CASE Writing # {}
  <2>1. PICK c \in Writing : TRUE
    BY <1>2
  <2>2. published = pos[c] /\ published' = pos'[c]
    BY DEF Window
  <2> QED
    BY <2>2
<1> QED
  BY <1>1, <1>2

LEMMA SameVisible ==
  ASSUME Window, Window', published' = published, done_ptr_' = done_ptr_, done_ptr_ \in Nat,
         Len(sent) \in Nat, \A k \in 1 .. Len(sent) : sent'[k] = sent[k]
  PROVE  visible' = visible
<1>1. published \in Nat /\ published <= Len(sent)
  BY DEF Window
<1>2. \A k \in 1 .. published - done_ptr_ : sent'[done_ptr_ + k] = sent[done_ptr_ + k]
  BY <1>1
<1>3. /\ visible = [k \in 1 .. published - done_ptr_ |-> sent[done_ptr_ + k]]
      /\ visible' = [k \in 1 .. published - done_ptr_ |-> sent'[done_ptr_ + k]]
  BY DEF Window
<1> QED
  BY <1>2, <1>3

LEMMA SameDequeued ==
  ASSUME Window, Window', Len(sent) \in Nat, \A k \in 1 .. Len(sent) : sent'[k] = sent[k],
         \A w \in Workers :
           /\ pc'[w] \in {"read", "unlock", "work"} <=> pc[w] \in {"read", "unlock", "work"}
           /\ pc[w] \in {"read", "unlock", "work"} => ptr'[w] = ptr[w]
  PROVE  dequeued' = dequeued
<1>1. \A w \in Workers : pc[w] \in {"read", "unlock", "work"} => sent'[ptr[w] + 1] = sent[ptr[w] + 1]
  BY DEF Window
<1>2. /\ dequeued = [w \in Workers |-> IF pc[w] \in {"read", "unlock", "work"} THEN sent[ptr[w] + 1]
                                       ELSE None]
      /\ dequeued' = [w \in Workers |-> IF pc'[w] \in {"read", "unlock", "work"}
                                        THEN sent'[ptr'[w] + 1] ELSE None]
  BY DEF Window
<1> QED
  BY <1>1, <1>2

\* The steps that ActionFIFO does not see.
LEMMA HiddenEnqueue ==
  ASSUME IInv, Window, Window', NEW c \in Clients,
         LockEnqueue(c) \/ Claim(c) \/ Write(c) \/ UnlockEnqueue(c)
  PROVE  UNCHANGED FIFO!vars
<1>1. /\ pc \in [Threads -> {"idle", "lock", "claim", "write", "fetch", "read", "unlock", "work"}]
      /\ alloc_ptr_ \in Nat /\ done_ptr_ \in Nat /\ sent \in Seq(Envs) /\ action \in [Clients -> Seq(Envs)]
      /\ pos \in [Clients -> Nat] /\ c \in Threads /\ c \notin Workers
  BY ConstantsAssumption DEF IInv, TypeOK, Threads
<1>2. /\ done_ptr_' = done_ptr_ /\ ptr' = ptr /\ action' = action
      /\ \E x \in {"claim", "write", "idle"} : pc' = [pc EXCEPT ![c] = x]
      /\ pc[c] \in {"lock", "claim", "write", "unlock"}
  BY DEF LockEnqueue, Claim, Write, UnlockEnqueue, Goto, clientVars, workerVars
<1>3. \A t \in Threads \ {c} : pc'[t] = pc[t]
  BY <1>1, <1>2
<1>4. \A w \in Workers : pc'[w] = pc[w] /\ ptr'[w] = ptr[w]
  BY <1>1, <1>2, <1>3 DEF Threads
<1>5. Len(sent) \in Nat /\ \A k \in 1 .. Len(sent) : sent'[k] = sent[k]
  <2>1. CASE Claim(c)
    <3>1. sent' = sent \o action[c] /\ action[c] \in Seq(Envs)
      BY <1>1, <2>1 DEF Claim
    <3> QED
      BY <1>1, <3>1
  <2>2. CASE LockEnqueue(c) \/ Write(c) \/ UnlockEnqueue(c)
    BY <1>1, <2>2 DEF LockEnqueue, Write, UnlockEnqueue
  <2> QED
    BY <2>1, <2>2
<1>6. handed' = handed
  <2>1. \A d \in Clients \ {c} : pc'[d] = pc[d]
    BY <1>3 DEF Threads
  <2>2. pc[c] \in {"lock", "claim", "write"} <=> pc'[c] \in {"lock", "claim", "write"}
    BY <1>1 DEF LockEnqueue, Claim, Write, UnlockEnqueue, Goto
  <2> QED
    BY <1>2, <2>1, <2>2 DEF handed
<1>7. published' = published
  <2>1. CASE Claim(c)
    <3>1. Writing = {}
      BY <2>1 DEF Claim, Goto, IInv, LockInv, InEnqueue, Writing
    <3>2. c \in Writing'
      BY <1>1, <2>1 DEF Claim, Goto, Writing
    <3>3. published = alloc_ptr_ /\ published' = pos'[c]
      BY <3>1, <3>2 DEF Window
    <3> QED
      BY <1>1, <2>1, <3>3 DEF Claim
  <2>2. CASE LockEnqueue(c) \/ Write(c) \/ UnlockEnqueue(c)
    <3>1. alloc_ptr_' = alloc_ptr_ /\ pos' = pos
      BY <2>2 DEF LockEnqueue, Write, UnlockEnqueue, clientVars
    <3>2. pc[c] = "write" <=> pc'[c] = "write"
      BY <1>1, <2>2 DEF LockEnqueue, Write, UnlockEnqueue, Goto
    <3>3. Writing' = Writing
      BY <1>3, <3>2 DEF Writing, Threads
    <3> QED
      BY <3>1, <3>3, SamePublished
  <2> QED
    BY <2>1, <2>2
<1>8. visible' = visible
  BY <1>1, <1>2, <1>5, <1>7, SameVisible
<1>9. dequeued' = dequeued
  BY <1>4, <1>5, SameDequeued
<1> QED
  BY <1>6, <1>8, <1>9 DEF FIFO!vars

\* A step of a worker leaves the clients' side.
LEMMA WorkerSide ==
  ASSUME IInv, Window, Window', NEW w \in Workers, DequeueStep(w)
  PROVE  /\ handed' = handed /\ published' = published /\ sent' = sent
         /\ Len(sent) \in Nat /\ done_ptr_ \in Nat
         /\ pc \in [Threads -> {"idle", "lock", "claim", "write", "fetch", "read", "unlock", "work"}]
         /\ w \in Threads /\ \A v \in Workers \ {w} : pc'[v] = pc[v] /\ ptr'[v] = ptr[v]
<1>1. /\ pc \in [Threads -> {"idle", "lock", "claim", "write", "fetch", "read", "unlock", "work"}]
      /\ sent \in Seq(Envs) /\ done_ptr_ \in Nat /\ w \in Threads /\ w \notin Clients
      /\ ptr \in [Workers -> Nat]
  BY ConstantsAssumption DEF IInv, TypeOK, Threads
<1>2. /\ sent' = sent /\ alloc_ptr_' = alloc_ptr_ /\ pos' = pos /\ action' = action
      /\ \E x : pc' = [pc EXCEPT ![w] = x]
      /\ ptr' = ptr \/ ptr' = [ptr EXCEPT ![w] = done_ptr_]
  BY DEF DequeueStep, WaitSem, LockDequeue, Fetch, Read, UnlockDequeue, Finish, Goto, clientVars,
     workerVars
<1>3. \A t \in Threads \ {w} : pc'[t] = pc[t]
  BY <1>1, <1>2
<1>4. \A d \in Clients : pc'[d] = pc[d]
  BY <1>1, <1>3 DEF Threads
<1>5. Writing' = Writing /\ handed' = handed
  BY <1>2, <1>4 DEF Writing, handed
<1>6. published' = published
  BY <1>2, <1>5, SamePublished
<1>7. \A v \in Workers \ {w} : pc'[v] = pc[v] /\ ptr'[v] = ptr[v]
  BY <1>1, <1>2, <1>3 DEF Threads
<1> QED
  BY <1>1, <1>2, <1>5, <1>6, <1>7

LEMMA HiddenDequeue ==
  ASSUME IInv, Window, Window', NEW w \in Workers,
         WaitSem(w) \/ LockDequeue(w) \/ Read(w) \/ UnlockDequeue(w)
  PROVE  UNCHANGED FIFO!vars
<1>1. /\ handed' = handed /\ published' = published /\ sent' = sent
      /\ Len(sent) \in Nat /\ done_ptr_ \in Nat
      /\ pc \in [Threads -> {"idle", "lock", "claim", "write", "fetch", "read", "unlock", "work"}]
      /\ w \in Threads /\ \A v \in Workers \ {w} : pc'[v] = pc[v] /\ ptr'[v] = ptr[v]
  BY WorkerSide DEF DequeueStep
<1>2. /\ done_ptr_' = done_ptr_ /\ ptr' = ptr
      /\ pc[w] \in {"read", "unlock", "work"} <=> pc'[w] \in {"read", "unlock", "work"}
  BY <1>1 DEF WaitSem, LockDequeue, Read, UnlockDequeue, Goto, workerVars
<1>3. visible' = visible
  BY <1>1, <1>2, SameVisible
<1>4. dequeued' = dequeued
  BY <1>1, <1>2, SameDequeued
<1> QED
  BY <1>1, <1>3, <1>4 DEF FIFO!vars

\* A call hands its batch over, ...
LEMMA CallIsCall ==
  ASSUME IInv, Window, Window', NEW c \in Clients, NEW b \in Batches, Call(c, b)
  PROVE  FIFO!Call(c)
<1>1. /\ pc \in [Threads -> {"idle", "lock", "claim", "write", "fetch", "read", "unlock", "work"}]
      /\ done_ptr_ \in Nat /\ sent \in Seq(Envs) /\ action \in [Clients -> Seq(Envs)]
      /\ c \in Threads /\ c \notin Workers /\ b \in Seq(Envs)
  BY ConstantsAssumption, BatchIsSequence DEF IInv, TypeOK, Threads
<1>2. /\ pc[c] = "idle" /\ pc' = [pc EXCEPT ![c] = "lock"] /\ action' = [action EXCEPT ![c] = b]
      /\ UNCHANGED <<alloc_ptr_, done_ptr_, pos, ptr, sent>>
  BY DEF Call, Goto, workerVars
<1>3. pc'[c] = "lock" /\ \A t \in Threads \ {c} : pc'[t] = pc[t]
  BY <1>1, <1>2
<1>4. handed[c] = <<>> /\ handed' = [handed EXCEPT ![c] = b] /\ handed'[c] = b
  <2>1. \A d \in Clients \ {c} : pc'[d] = pc[d] /\ action'[d] = action[d]
    BY <1>1, <1>2, <1>3 DEF Threads
  <2>2. action'[c] = b
    BY <1>1, <1>2
  <2> QED
    BY <1>2, <1>3, <2>1, <2>2 DEF handed
<1>5. Writing' = Writing
  BY <1>2, <1>3 DEF Writing, Threads
<1>6. visible' = visible
  BY <1>1, <1>2, <1>5, SamePublished, SameVisible
<1>7. \A w \in Workers : pc'[w] = pc[w] /\ ptr'[w] = ptr[w]
  BY <1>1, <1>2, <1>3 DEF Threads
<1>8. dequeued' = dequeued
  BY <1>1, <1>2, <1>7, SameDequeued
<1> QED
  BY <1>1, <1>4, <1>6, <1>8 DEF FIFO!Call

\* ... which becomes visible as a whole when sem_ is signalled.
LEMMA SignalIsPublish ==
  ASSUME IInv, Window, Window', NEW c \in Clients, Signal(c)
  PROVE  FIFO!Publish(c) \/ UNCHANGED FIFO!vars
<1>1. /\ pc \in [Threads -> {"idle", "lock", "claim", "write", "fetch", "read", "unlock", "work"}]
      /\ done_ptr_ \in Nat /\ alloc_ptr_ \in Nat /\ sent \in Seq(Envs)
      /\ action \in [Clients -> Seq(Envs)]
      /\ pos \in [Clients -> Nat] /\ c \in Threads /\ c \notin Workers
  BY ConstantsAssumption DEF IInv, TypeOK, Threads
<1>2. /\ pc[c] = "write" /\ pc' = [pc EXCEPT ![c] = "unlock"]
      /\ UNCHANGED <<alloc_ptr_, done_ptr_, action, ptr, sent>>
  BY DEF Signal, Goto, clientVars, workerVars
<1>3. pc'[c] = "unlock" /\ \A t \in Threads \ {c} : pc'[t] = pc[t]
  BY <1>1, <1>2
<1>4. PICK a \in Seq(Envs), n \in Nat : a = action[c] /\ n = Len(a)
  BY <1>1
<1>5. handed[c] = a /\ handed' = [handed EXCEPT ![c] = <<>>]
  <2>1. \A d \in Clients \ {c} : pc'[d] = pc[d]
    BY <1>3 DEF Threads
  <2> QED
    BY <1>2, <1>3, <1>4, <2>1 DEF handed
<1>6. Writing = {c} /\ Writing' = {}
  <2>1. c \in Writing /\ \A d \in Writing : d = c
    BY <1>2 DEF IInv, LockInv, InEnqueue, Writing
  <2> QED
    BY <1>3, <2>1 DEF Writing, Threads
<1>7. /\ published = pos[c] /\ published' = alloc_ptr_ /\ pos[c] + n = alloc_ptr_
      /\ Len(sent) = alloc_ptr_
      /\ \A k \in 1 .. n : sent[pos[c] + k] = a[k]
  BY <1>2, <1>4, <1>6 DEF Window, IInv, ClaimInv
<1>8. PICK m \in Nat : m = published - done_ptr_
  BY <1>1 DEF Window
<1>9. published' - done_ptr_' = m + n
  BY <1>1, <1>2, <1>4, <1>7, <1>8
<1>10. /\ visible = [k \in 1 .. m |-> sent[done_ptr_ + k]]
       /\ visible' = [k \in 1 .. m + n |-> sent[done_ptr_ + k]]
  BY <1>2, <1>8, <1>9 DEF Window
<1>11. visible' = visible \o a
  <2>1. \A k \in 1 .. m + n : sent[done_ptr_ + k] \in Envs
    BY <1>1, <1>4, <1>7, <1>8
  <2>2. visible \in Seq(Envs) /\ Len(visible) = m
    BY <1>10, <2>1
  <2>3. visible' \in Seq(Envs) /\ Len(visible') = m + n
    BY <1>10, <2>1
  <2>4. \A k \in 1 .. m + n : visible'[k] = (visible \o a)[k]
    <3> TAKE k \in 1 .. m + n
    <3>1. CASE k <= m
      BY <1>4, <1>10, <2>2, <3>1
    <3>2. CASE k > m
      <4>1. PICK j \in 1 .. n : k = m + j
        BY <3>2
      <4>2. done_ptr_ + k = pos[c] + j
        <5>1. PICK p \in Nat : p = pos[c] /\ p = published
          BY <1>1, <1>7
        <5>2. PICK d \in Nat : d = done_ptr_ /\ m = p - d
          BY <1>1, <1>8, <5>1
        <5>3. d + k = p + j
          BY <1>4, <1>8, <4>1, <5>1, <5>2
        <5> QED
          BY <5>1, <5>2, <5>3
      <4>3. visible'[k] = a[j]
        BY <1>7, <1>10, <4>1, <4>2
      <4>4. (visible \o a)[k] = a[j]
        BY <1>4, <2>2, <4>1
      <4> QED
        BY <4>3, <4>4
    <3>3. k \in Int /\ m \in Int
      BY <1>4, <1>8
    <3>4. k <= m \/ k > m
      BY <3>3
    <3> QED
      BY <3>1, <3>2, <3>4
  <2>5. visible \o a \in Seq(Envs) /\ Len(visible \o a) = m + n
    BY <1>4, <2>2
  <2> QED
    BY <2>3, <2>4, <2>5
<1>12. \A w \in Workers : pc'[w] = pc[w] /\ ptr'[w] = ptr[w]
  BY <1>1, <1>2, <1>3 DEF Threads
<1>13. dequeued' = dequeued
  BY <1>1, <1>2, <1>12, SameDequeued
<1>14. CASE a = <<>>
  <2>1. handed' = handed
    BY <1>5, <1>14 DEF handed
  <2>2. n = 0
    BY <1>4, <1>14
  <2>3. visible' = visible
    BY <1>10, <2>2
  <2> QED
    BY <1>13, <2>1, <2>3 DEF FIFO!vars
<1>15. CASE a # <<>>
  BY <1>5, <1>11, <1>13, <1>15 DEF FIFO!Publish
<1> QED
  BY <1>14, <1>15

\* A Dequeue takes the first slice when it advances done_ptr_ ...
LEMMA FetchIsTake ==
  ASSUME IInv, Window, Window', NEW w \in Workers, Fetch(w)
  PROVE  FIFO!Take(w)
<1>1. /\ handed' = handed /\ published' = published /\ sent' = sent
      /\ Len(sent) \in Nat /\ done_ptr_ \in Nat
      /\ pc \in [Threads -> {"idle", "lock", "claim", "write", "fetch", "read", "unlock", "work"}]
      /\ w \in Threads /\ \A v \in Workers \ {w} : pc'[v] = pc[v] /\ ptr'[v] = ptr[v]
  BY WorkerSide DEF DequeueStep
<1>2. /\ pc[w] = "fetch" /\ pc' = [pc EXCEPT ![w] = "read"]
      /\ ptr' = [ptr EXCEPT ![w] = done_ptr_] /\ done_ptr_' = done_ptr_ + 1
  BY DEF Fetch, Goto
<1>3. pc'[w] = "read" /\ ptr'[w] = done_ptr_
  BY <1>1, <1>2 DEF IInv, TypeOK
<1>4. done_ptr_ < published /\ published \in Nat /\ published <= Len(sent)
  <2>1. w \in Granted /\ Granted \in SUBSET Workers
    BY <1>2 DEF Granted
  <2>2. IsFiniteSet(Granted) /\ Granted # {}
    BY <2>1, ConstantsAssumption, FS_Subset
  <2>3. Cardinality(Granted) # 0 /\ Cardinality(Granted) \in Nat
    BY <2>2, FS_EmptySet, FS_CardinalityType
  <2>4. sem_ \in Nat
    BY DEF IInv, TypeOK
  <2> QED
    BY <1>1, <2>3, <2>4 DEF Window
<1>5. PICK m \in Nat : published - done_ptr_ = m + 1
  BY <1>1, <1>4
<1>6. published' - done_ptr_' = m
  BY <1>1, <1>2, <1>4, <1>5
<1>7. /\ visible = [k \in 1 .. m + 1 |-> sent[done_ptr_ + k]]
      /\ visible' = [k \in 1 .. m |-> sent[(done_ptr_ + 1) + k]]
  BY <1>1, <1>2, <1>5, <1>6 DEF Window
<1>8. visible \in Seq(Envs) /\ Len(visible) = m + 1
  <2>1. \A k \in 1 .. m + 1 : sent[done_ptr_ + k] \in Envs
    <3>1. sent \in Seq(Envs)
      BY DEF IInv, TypeOK
    <3> QED
      BY <1>1, <1>4, <1>5, <3>1
  <2> QED
    BY <1>7, <2>1
<1>9. visible # <<>> /\ Head(visible) = sent[done_ptr_ + 1]
  BY <1>7, <1>8
<1>10. visible' = Tail(visible)
  <2>1. \A k \in 1 .. m : Tail(visible)[k] = visible[k + 1]
    BY <1>8
  <2>2. \A k \in 1 .. m : visible[k + 1] = sent[(done_ptr_ + 1) + k]
    BY <1>1, <1>7
  <2>3. Tail(visible) \in Seq(Envs) /\ Len(Tail(visible)) = m
    BY <1>8, <1>9
  <2>4. Tail(visible) = [k \in 1 .. m |-> Tail(visible)[k]]
    <3>1. PICK s \in Seq(Envs) : s = Tail(visible) /\ Len(s) = m
      BY <2>3
    <3>2. s \in [1 .. Len(s) -> Envs]
      OBVIOUS
    <3>3. s = [k \in 1 .. m |-> s[k]]
      BY <3>1, <3>2
    <3> QED
      BY <3>1, <3>3
  <2> QED
    BY <1>7, <2>1, <2>2, <2>4
<1>11. /\ dequeued[w] = None
       /\ dequeued' = [dequeued EXCEPT ![w] = sent[done_ptr_ + 1]]
  <2>1. /\ dequeued = [v \in Workers |-> IF pc[v] \in {"read", "unlock", "work"} THEN sent[ptr[v] + 1]
                                         ELSE None]
        /\ dequeued' = [v \in Workers |-> IF pc'[v] \in {"read", "unlock", "work"}
                                          THEN sent[ptr'[v] + 1] ELSE None]
    BY <1>1 DEF Window
  <2> QED
    BY <1>1, <1>2, <1>3, <2>1
<1> QED
  BY <1>1, <1>9, <1>10, <1>11 DEF FIFO!Take

\* ... and is done with it after the env was stepped.
LEMMA FinishIsReturn ==
  ASSUME IInv, Window, Window', NEW w \in Workers, Finish(w)
  PROVE  FIFO!Return(w)
<1>1. /\ handed' = handed /\ published' = published /\ sent' = sent
      /\ Len(sent) \in Nat /\ done_ptr_ \in Nat
      /\ pc \in [Threads -> {"idle", "lock", "claim", "write", "fetch", "read", "unlock", "work"}]
      /\ w \in Threads /\ \A v \in Workers \ {w} : pc'[v] = pc[v] /\ ptr'[v] = ptr[v]
  BY WorkerSide DEF DequeueStep
<1>2. /\ pc[w] = "work" /\ pc' = [pc EXCEPT ![w] = "idle"] /\ done_ptr_' = done_ptr_
      /\ pc'[w] = "idle"
  BY <1>1 DEF Finish, Goto
<1>3. visible' = visible
  BY <1>1, <1>2, SameVisible
<1>4. sent[ptr[w] + 1] # None
  <2>1. ptr[w] \in 0 .. Len(sent) - 1
    BY <1>2 DEF Window
  <2>2. sent \in Seq(Envs)
    BY DEF IInv, TypeOK
  <2>3. sent[ptr[w] + 1] \in Envs
    BY <1>1, <2>1, <2>2
  <2> QED
    BY <2>3, ConstantsAssumption
<1>5. dequeued[w] # None /\ dequeued' = [dequeued EXCEPT ![w] = None]
  <2>1. /\ dequeued = [v \in Workers |-> IF pc[v] \in {"read", "unlock", "work"} THEN sent[ptr[v] + 1]
                                         ELSE None]
        /\ dequeued' = [v \in Workers |-> IF pc'[v] \in {"read", "unlock", "work"}
                                          THEN sent[ptr'[v] + 1] ELSE None]
    BY <1>1 DEF Window
  <2> QED
    BY <1>1, <1>2, <1>4, <2>1
<1> QED
  BY <1>1, <1>3, <1>5 DEF FIFO!Return

\* The ring implements the queue that the pool is modelled with: a batch of
\* EnqueueBulk becomes visible at once and in its order, and Dequeue takes the
\* oldest slice (action_buffer_queue.h, lines 59-80).
THEOREM ImplementsFIFOCorrect == Spec => ImplementsFIFO
<1>1. Init => FIFO!Init
  <2> SUFFICES ASSUME Init PROVE FIFO!Init
    OBVIOUS
  <2>1. Writing = {} /\ published = 0
    BY ConstantsAssumption DEF Init, Writing, published
  <2>2. visible = <<>>
    BY <2>1 DEF visible, Init
  <2>3. handed = [c \in Clients |-> <<>>] /\ dequeued = [w \in Workers |-> None]
    BY DEF handed, dequeued, Init
  <2> QED
    BY <2>2, <2>3 DEF FIFO!Init
<1>2. IInv /\ Window /\ Window' /\ [Next]_vars => [FIFO!Next]_(FIFO!vars)
  <2> SUFFICES ASSUME IInv, Window, Window', [Next]_vars PROVE FIFO!Next \/ UNCHANGED FIFO!vars
    OBVIOUS
  <2>1. ASSUME NEW c \in Clients, EnqueueStep(c) PROVE FIFO!Next \/ UNCHANGED FIFO!vars
    BY <2>1, HiddenEnqueue, SignalIsPublish DEF EnqueueStep, FIFO!Next
  <2>2. ASSUME NEW c \in Clients, NEW b \in Batches, Call(c, b) PROVE FIFO!Next
    BY <2>2, CallIsCall DEF FIFO!Next
  <2>3. ASSUME NEW w \in Workers, DequeueStep(w) PROVE FIFO!Next \/ UNCHANGED FIFO!vars
    BY <2>3, HiddenDequeue, FetchIsTake, FinishIsReturn DEF DequeueStep, FIFO!Next
  <2>4. CASE UNCHANGED vars
    BY <2>4 DEF vars, FIFO!vars, handed, visible, dequeued, published, Writing
  <2> QED
    BY <2>1, <2>2, <2>3, <2>4 DEF Next
<1> QED
  BY <1>1, <1>2, WindowCorrect, Invariance, PTL DEF Spec, ImplementsFIFO, FIFO!Spec
=============================================================================
