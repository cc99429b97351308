------------------------- MODULE AsyncLitePoolProofs -------------------------
(***************************************************************************)
(* Proofs about AsyncLitePool for any number of clients, workers and envs, *)
(* sync and async, also while the pool is being destroyed.                 *)
(***************************************************************************)
EXTENDS AsyncLitePool, FiniteSetTheorems, TLAPS

(* The inductive invariant. *)

\* The envs on their way from Send to Recv, by the place where they are.
EnvsOf(s) == {e \in Envs : \E k \in DOMAIN s : s[k].env_id = e}
Handed == {e \in Envs : \E c \in Clients : e \in EnvsOf(hands[c])}
Queued == EnvsOf(pending)
AtWork == {w \in Workers : wpc[w] \in {"test", "step"}}
Worked == {e \in Envs : \E w \in AtWork : taken[w].env_id = e}
Kept == {e \in Envs : \E k \in DOMAIN reserved : reserved[k].env = e}
Returned == {e \in Envs : \E k \in DOMAIN batch : batch[k] = e}

\* No env is in two places.
DisjointInv ==
  /\ Handed \cap (Queued \cup Worked \cup Kept \cup Returned) = {}
  /\ Queued \cap (Worked \cup Kept \cup Returned) = {}
  /\ Worked \cap (Kept \cup Returned) = {}
  /\ Kept \cap Returned = {}

\* No env is in one place twice.
NamesOnce(s) ==
  \A j, k \in DOMAIN s : s[j].env_id = s[k].env_id /\ s[j].env_id # Null => j = k
OnceInv ==
  /\ \A c \in Clients : NamesOnce(hands[c])
  /\ \A c, d \in Clients : c # d => EnvsOf(hands[c]) \cap EnvsOf(hands[d]) = {}
  /\ NamesOnce(pending)
  /\ \A v, w \in AtWork : taken[v].env_id = taken[w].env_id /\ taken[v].env_id # Null => v = w
  /\ \A j, k \in DOMAIN reserved : reserved[j].env = reserved[k].env => j = k
  /\ \A j, k \in DOMAIN batch : batch[j] = batch[k] => j = k

\* The envs in some place are those with an action; some are dropped when the
\* pool is destroyed.
WholeInv ==
  /\ Handed \cup Queued \cup Worked \cup Kept \cup Returned \subseteq Outstanding
  /\ ~stop_ => Outstanding \subseteq Handed \cup Queued \cup Worked \cup Kept \cup Returned

\* The env of a worker that has reserved a row is among the reserved ones until
\* the worker finishes it.
FinishInv ==
  /\ finished \subseteq Kept
  /\ \A w \in Workers : wpc[w] = "finish" => taken[w].env_id \in Kept \ finished
  /\ \A v, w \in Workers :
       wpc[v] = "finish" /\ wpc[w] = "finish" /\ taken[v].env_id = taken[w].env_id => v = w

\* Slices without an env come from the destructor only, and nobody runs them.
RealSlices(s) == \A k \in DOMAIN s : s[k].env_id \in Envs
SliceInv ==
  /\ \A w \in Workers : wpc[w] # "dequeue" => taken[w] \in ActionSlice
  /\ \A w \in Workers : wpc[w] \in {"step", "finish"} => taken[w].env_id \in Envs
  /\ ~stop_ => /\ \A c \in Clients : RealSlices(hands[c])
               /\ RealSlices(pending)
               /\ \A w \in AtWork : taken[w].env_id \in Envs

\* A slice says whether its env was asked to reset.
AsksWell(slice) ==
  slice.env_id \in Envs => slice.force_reset = (asked[slice.env_id] = ForceReset)
AskInv ==
  /\ \A c \in Clients : \A k \in DOMAIN hands[c] : AsksWell(hands[c][k])
  /\ \A k \in DOMAIN pending : AsksWell(pending[k])
  /\ \A w \in AtWork : AsksWell(taken[w])
  /\ \A e \in Envs : asked[e] \in Actions => seen[e] # Null /\ action_[e] = asked[e]
  /\ \A w \in Workers : wpc[w] = "step" => reset[w] = needsReset(w)

\* What env e says of itself, and the answer to what it was asked.
Current(e) == [elapsed_step |-> current_step_[e], done |-> done[e]]
Answers(e) ==
  IF asked[e] = ForceReset \/ seen[e].done
  THEN row[e].reset /\ row[e].elapsed_step = 0
  ELSE /\ ~row[e].reset /\ row[e].action = asked[e]
       /\ row[e].elapsed_step = seen[e].elapsed_step + 1

\* Until its next step an env is as the client saw it last; from then on its
\* row has the answer.
AnswerInv ==
  /\ \A e \in Envs \ (Kept \cup Returned) : seen[e] # Null => seen[e] = Current(e)
  /\ \A e \in Kept \cup Returned : Answers(e) /\ Outcome(row[e]) = Current(e)
  /\ \A e \in Envs : done[e] \/ current_step_[e] < MaxEpisode

\* In sync mode the calls follow each other, and the count is that of the
\* envs with an action, but for the batch a client is about to count.
SyncInv ==
  /\ ~is_sync_ => stepping_env_num_ = 0 /\ \A c \in Clients : cpc[c] # "count"
  /\ is_sync_ =>
       /\ \A c, d \in Clients : cpc[c] # "idle" /\ cpc[d] # "idle" => c = d
       /\ \A c \in Clients : cpc[c] = "count" =>
            stepping_env_num_ + Len(hands[c]) = Cardinality(Outstanding)
       /\ (\A c \in Clients : cpc[c] # "count") => stepping_env_num_ = Cardinality(Outstanding)

IInv ==
  /\ TypeOK /\ DisjointInv /\ OnceInv /\ WholeInv /\ FinishInv /\ SliceInv
  /\ AskInv /\ AnswerInv /\ SyncInv

-----------------------------------------------------------------------------
(* Sequences and sets. *)

\* A sequence without repetition is as long as its range is large.
LEMMA CountInjective ==
  ASSUME NEW n \in Nat, NEW f, \A j, k \in 1 .. n : f[j] = f[k] => j = k,
         NEW T, \A k \in 1 .. n : f[k] \in T, \A t \in T : \E k \in 1 .. n : f[k] = t
  PROVE  IsFiniteSet(T) /\ Cardinality(T) = n
<1> DEFINE g == [k \in 1 .. n |-> f[k]]
<1>1. /\ g \in [1 .. n -> T] /\ (\A j, k \in 1 .. n : g[j] = g[k] => j = k)
      /\ (\A t \in T : \E k \in 1 .. n : g[k] = t)
  OBVIOUS
<1> HIDE DEF g
<1>2. g \in Bijection(1 .. n, T)
  BY <1>1 DEF Bijection, Injection, Surjection, IsInjective
<1>3. ExistsBijection(1 .. n, T)
  BY <1>2 DEF ExistsBijection
<1> QED
  BY <1>3, FS_CountingElements, FS_NatBijection

LEMMA FiniteEnvs ==
  ASSUME NEW S \in SUBSET Envs
  PROVE  /\ IsFiniteSet(S) /\ Cardinality(S) \in 0 .. num_envs_
<1>1. IsFiniteSet(S) /\ Cardinality(S) <= Cardinality(Envs)
  BY PoolAssumption, FS_Subset
<1>2. Cardinality(S) \in Nat /\ Cardinality(Envs) \in Nat
  BY <1>1, PoolAssumption, FS_CardinalityType
<1> QED
  BY <1>1, <1>2, PoolAssumption

\* Adding to and removing from a set of envs.
LEMMA CountApart ==
  ASSUME NEW S \in SUBSET Envs, NEW T \in SUBSET Envs, S \cap T = {}
  PROVE  Cardinality(S \cup T) = Cardinality(S) + Cardinality(T)
<1>1. Cardinality(S \cap T) = 0
  BY FS_EmptySet
<1>2. IsFiniteSet(S) /\ IsFiniteSet(T) /\ Cardinality(S) \in Nat /\ Cardinality(T) \in Nat
  BY FiniteEnvs
<1>3. Cardinality(S \cup T) = Cardinality(S) + Cardinality(T) - Cardinality(S \cap T)
  BY <1>2, FS_Union
<1> QED
  BY <1>1, <1>2, <1>3

LEMMA CountWithout ==
  ASSUME NEW S \in SUBSET Envs, NEW T \in SUBSET S
  PROVE  Cardinality(S \ T) = Cardinality(S) - Cardinality(T)
<1>1. (S \ T) \cup T = S /\ (S \ T) \cap T = {}
  OBVIOUS
<1>2. Cardinality(S) = Cardinality(S \ T) + Cardinality(T)
  BY <1>1, CountApart
<1> QED
  BY <1>2, FiniteEnvs

\* The env ids of a call name different envs without an action.
LEMMA BatchFacts ==
  ASSUME NEW S \in SUBSET Envs, NEW ids \in Batch(S)
  PROVE  /\ ids \in Seq(Envs) /\ Len(ids) \in 1 .. num_envs_ /\ DOMAIN ids = 1 .. Len(ids)
         /\ \A j, k \in 1 .. Len(ids) : ids[j] = ids[k] => j = k
         /\ Range(ids) \in SUBSET (S \ Outstanding)
         /\ Cardinality(Range(ids)) = Len(ids)
<1>1. PICK s \in SUBSET (S \ Outstanding) : ids \in SetToSeqs(s)
  BY DEF Batch, SetToAllKPermutations
<1>2. IsFiniteSet(s) /\ Cardinality(s) \in 0 .. num_envs_
  BY FiniteEnvs
<1>3. /\ ids \in [1 .. Cardinality(s) -> s]
      /\ \A j, k \in 1 .. Cardinality(s) : j # k => ids[j] # ids[k]
  BY <1>1 DEF SetToSeqs
<1>4. ids \in Seq(s) /\ Len(ids) = Cardinality(s) /\ DOMAIN ids = 1 .. Len(ids)
  BY <1>2, <1>3
<1>5. ids # <<>>
  BY DEF Batch
<1>6. Len(ids) # 0
  BY <1>4, <1>5
<1>7. Range(ids) = {ids[k] : k \in 1 .. Len(ids)}
  BY <1>4 DEF Range
<1>8. Cardinality(Range(ids)) = Len(ids)
  <2>1. /\ Len(ids) \in Nat /\ \A j, k \in 1 .. Len(ids) : ids[j] = ids[k] => j = k
        /\ \A k \in 1 .. Len(ids) : ids[k] \in Range(ids)
        /\ \A e \in Range(ids) : \E k \in 1 .. Len(ids) : ids[k] = e
    BY <1>2, <1>3, <1>4, <1>7
  <2> QED
    BY <2>1, CountInjective
<1>9. Range(ids) \in SUBSET (S \ Outstanding)
  BY <1>3, <1>4, <1>7
<1>10. ids \in Seq(Envs)
  BY <1>4
<1> QED
  BY <1>2, <1>3, <1>4, <1>6, <1>8, <1>9, <1>10

\* The slices of a call name its envs.
LEMMA SlicesFacts ==
  ASSUME NEW S \in SUBSET Envs, NEW ids \in Batch(S), NEW force \in BOOLEAN
  PROVE  /\ Slices(ids, force) \in Seq(ActionSlice) /\ DOMAIN Slices(ids, force) = 1 .. Len(ids)
         /\ Len(Slices(ids, force)) = Len(ids)
         /\ \A k \in 1 .. Len(ids) :
              /\ Slices(ids, force)[k].env_id = ids[k]
              /\ Slices(ids, force)[k].force_reset = force
         /\ EnvsOf(Slices(ids, force)) = Range(ids)
         /\ NamesOnce(Slices(ids, force)) /\ RealSlices(Slices(ids, force))
<1>1. /\ ids \in Seq(Envs) /\ Len(ids) \in 1 .. num_envs_ /\ DOMAIN ids = 1 .. Len(ids)
      /\ \A j, k \in 1 .. Len(ids) : ids[j] = ids[k] => j = k
  BY BatchFacts
<1>2. num_envs_ \in Nat
  BY PoolAssumption, FS_CardinalityType
<1> DEFINE s == Slices(ids, force)
<1>3. s = [k \in 1 .. Len(ids) |->
             [env_id |-> ids[k], order |-> IF is_sync_ THEN k - 1 ELSE NoOrder,
              force_reset |-> force]]
  BY <1>1 DEF Slices
<1>4. s \in [1 .. Len(ids) -> ActionSlice]
  BY <1>1, <1>2, <1>3 DEF ActionSlice
<1>5. s \in Seq(ActionSlice) /\ Len(s) = Len(ids) /\ DOMAIN s = 1 .. Len(ids)
  BY <1>1, <1>2, <1>4
<1>6. \A k \in 1 .. Len(ids) :
        s[k].env_id = ids[k] /\ s[k].force_reset = force /\ ids[k] \in Envs
  BY <1>1, <1>3
<1> HIDE DEF s
<1>7. EnvsOf(s) = Range(ids)
  BY <1>1, <1>5, <1>6 DEF EnvsOf, Range
<1>8. NamesOnce(s) /\ RealSlices(s)
  BY <1>1, <1>5, <1>6 DEF NamesOnce, RealSlices
<1> QED
  BY <1>5, <1>6, <1>7, <1>8 DEF s

-----------------------------------------------------------------------------
(* Send and Reset.  What both do: hand over slices for some envs without an   *)
(* action, and remember what was asked of them.                               *)

Submit(c, ids, force) ==
  /\ MaySubmit
  /\ Goto(c, "idle", IF is_sync_ THEN "count" ELSE "enqueue")
  /\ hands' = [hands EXCEPT ![c] = Slices(ids, force)] /\ FIFO!Call(c)
  /\ action_' \in [Envs -> Actions \cup {Null}]
  /\ asked' \in [Envs -> Actions \cup {ForceReset, Null}]
  /\ \A e \in Envs \ Range(ids) : action_'[e] = action_[e] /\ asked'[e] = asked[e]
  /\ \A e \in Range(ids) :
       IF force THEN asked'[e] = ForceReset
       ELSE asked'[e] \in Actions /\ action_'[e] = asked'[e] /\ seen[e] # Null
  /\ UNCHANGED <<stop_, stepping_env_num_, batchVars, workerVars, envVars, additional, seen>>

LEMMA SubmitStep ==
  ASSUME IInv, NEW c \in Clients, NEW S \in SUBSET Envs, NEW ids \in Batch(S),
         NEW force \in BOOLEAN, Submit(c, ids, force)
  PROVE  IInv'
<1> DEFINE N == Range(ids)
           s == Slices(ids, force)
<1> USE DEF IInv, Submit, Goto, FIFO!Call, batchVars, workerVars, envVars
<1>1. /\ N \in SUBSET Envs /\ N \cap Outstanding = {} /\ Cardinality(N) = Len(ids)
      /\ s \in Seq(ActionSlice) /\ DOMAIN s = 1 .. Len(ids) /\ Len(s) = Len(ids)
      /\ Len(ids) \in Nat /\ EnvsOf(s) = N /\ NamesOnce(s) /\ RealSlices(s)
      /\ \A k \in DOMAIN s : s[k].env_id \in N /\ s[k].force_reset = force
  <2>1. /\ Len(ids) \in 1 .. num_envs_ /\ DOMAIN ids = 1 .. Len(ids)
        /\ N \in SUBSET (S \ Outstanding) /\ Cardinality(N) = Len(ids)
    BY BatchFacts
  <2>2. num_envs_ \in Nat
    BY PoolAssumption, FS_CardinalityType
  <2>3. \A k \in 1 .. Len(ids) : ids[k] \in N
    BY <2>1 DEF Range
  <2>4. /\ s \in Seq(ActionSlice) /\ DOMAIN s = 1 .. Len(ids) /\ Len(s) = Len(ids)
        /\ \A k \in 1 .. Len(ids) : s[k].env_id = ids[k] /\ s[k].force_reset = force
        /\ EnvsOf(s) = N /\ NamesOnce(s) /\ RealSlices(s)
    BY SlicesFacts
  <2> HIDE DEF N, s, IInv, Submit
  <2> QED
    BY <2>1, <2>2, <2>3, <2>4
<1>2. /\ hands[c] = <<>> /\ hands' = [hands EXCEPT ![c] = s] /\ ~stop_
      /\ hands' \in [Clients -> Seq(ActionSlice)]
      /\ UNCHANGED <<pending, taken>> /\ DOMAIN hands[c] = {}
  BY <1>1 DEF TypeOK, MaySubmit
<1>3. Outstanding' = Outstanding \cup N
  BY <1>1, PoolAssumption DEF Outstanding
<1>4. /\ Queued' = Queued /\ Worked' = Worked /\ Kept' = Kept /\ Returned' = Returned
      /\ AtWork' = AtWork
  BY <1>2 DEF Queued, AtWork, Worked, Kept, Returned, EnvsOf
<1>5. /\ EnvsOf(hands'[c]) = N /\ EnvsOf(hands[c]) = {}
      /\ \A d \in Clients \ {c} : hands'[d] = hands[d]
  BY <1>1, <1>2 DEF TypeOK, EnvsOf
<1>6. Handed' = Handed \cup N
  <2>1. \A d \in Clients \ {c} : EnvsOf(hands'[d]) = EnvsOf(hands[d])
    BY <1>5
  <2> QED
    BY <1>1, <1>5, <2>1 DEF Handed
<1>7. TypeOK'
  BY <1>2 DEF TypeOK, is_sync_
<1>8. DisjointInv' /\ WholeInv'
  BY <1>1, <1>2, <1>3, <1>4, <1>6 DEF DisjointInv, WholeInv
<1>9. OnceInv'
  <2>1. \A d \in Clients : NamesOnce(hands'[d])
    BY <1>1, <1>2, <1>5 DEF OnceInv
  <2>2. \A d, e \in Clients : d # e => EnvsOf(hands'[d]) \cap EnvsOf(hands'[e]) = {}
    <3>1. \A d \in Clients \ {c} : EnvsOf(hands'[d]) \cap N = {}
      BY <1>1, <1>5 DEF Handed, WholeInv
    <3> QED
      BY <1>5, <3>1 DEF OnceInv
  <2>3. OnceInv
    OBVIOUS
  <2>4. UNCHANGED <<reserved, batch, pending, taken, AtWork>>
    BY <1>2, <1>4
  <2> HIDE DEF IInv, Submit, Goto, FIFO!Call, N, s
  <2> QED
    BY <2>1, <2>2, <2>3, <2>4 DEF OnceInv, NamesOnce, EnvsOf
<1>10. FinishInv'
  BY <1>2, <1>4 DEF FinishInv
<1>11. SliceInv'
  BY <1>1, <1>2, <1>4, <1>5 DEF SliceInv
<1>12. AskInv'
  <2>1. /\ \A e \in Envs \ N : asked'[e] = asked[e] /\ action_'[e] = action_[e]
        /\ \A e \in N : IF force THEN asked'[e] = ForceReset
                        ELSE asked'[e] \in Actions /\ action_'[e] = asked'[e] /\ seen[e] # Null
        /\ UNCHANGED <<seen, wpc, reset>> /\ AskInv
    OBVIOUS
  <2>2. WholeInv
    OBVIOUS
  <2> HIDE DEF IInv, Submit, Goto, FIFO!Call, N, s
  <2>3. ASSUME NEW slice, AsksWell(slice), slice.env_id \notin N
        PROVE  slice.env_id \in Envs => slice.force_reset = (asked'[slice.env_id] = ForceReset)
    BY <2>1, <2>3 DEF AsksWell
  <2>4. ASSUME NEW slice, slice.env_id \in N, slice.force_reset = force
        PROVE  slice.force_reset = (asked'[slice.env_id] = ForceReset)
    BY <2>1, <2>4, PoolAssumption
  <2>5. N \cap (Handed \cup Queued \cup Worked) = {}
    BY <1>1, <2>2 DEF WholeInv
  <2>6. \A d \in Clients : \A k \in DOMAIN hands'[d] : AsksWell(hands[d][k])'
    <3> SUFFICES ASSUME NEW d \in Clients, NEW k \in DOMAIN hands'[d]
                 PROVE  AsksWell(hands[d][k])'
      OBVIOUS
    <3>1. CASE d = c
      <4>1. hands'[d] = s
        BY <1>1, <1>2, <3>1, <1>7 DEF TypeOK
      <4> QED
        BY <1>1, <2>4, <4>1 DEF AsksWell
    <3>2. CASE d # c
      <4>1. hands'[d] = hands[d]
        BY <1>5, <3>2
      <4>2. AsksWell(hands[d][k])
        BY <2>1, <4>1 DEF AskInv
      <4>3. hands[d][k].env_id \notin N
        BY <1>1, <2>5, <4>1 DEF Handed, EnvsOf
      <4> QED
        BY <2>3, <4>1, <4>2, <4>3 DEF AsksWell
    <3> QED
      BY <3>1, <3>2
  <2>7. \A k \in DOMAIN pending : AsksWell(pending[k])'
    <3> SUFFICES ASSUME NEW k \in DOMAIN pending PROVE AsksWell(pending[k])'
      OBVIOUS
    <3>1. pending[k].env_id \notin N
      BY <1>1, <2>5 DEF Queued, EnvsOf
    <3>2. AsksWell(pending[k])
      BY <2>1 DEF AskInv
    <3> QED
      BY <1>2, <2>3, <3>1, <3>2 DEF AsksWell
  <2>8. \A w \in AtWork : AsksWell(taken[w])'
    <3> SUFFICES ASSUME NEW w \in AtWork PROVE AsksWell(taken[w])'
      OBVIOUS
    <3>1. taken[w].env_id \notin N
      BY <1>1, <2>5 DEF Worked
    <3>2. AsksWell(taken[w])
      BY <2>1 DEF AskInv
    <3> QED
      BY <1>2, <2>3, <3>1, <3>2 DEF AsksWell
  <2>9. \A e \in Envs : asked'[e] \in Actions => seen'[e] # Null /\ action_'[e] = asked'[e]
    BY <1>1, <2>1, PoolAssumption DEF AskInv
  <2>10. \A w \in Workers : wpc'[w] = "step" => reset'[w] = needsReset(w)'
    <3>1. done' = done /\ taken' = taken
      BY <1>2 DEF Submit, envVars
    <3> QED
      BY <2>1, <3>1 DEF AskInv, needsReset
  <2> QED
    BY <1>2, <1>4, <2>6, <2>7, <2>8, <2>9, <2>10 DEF AskInv
<1>13. AnswerInv'
  <2>1. \A e \in Kept \cup Returned : e \in Envs \ N
    BY <1>1 DEF WholeInv, Outstanding
  <2>2. /\ \A e \in Envs \ N : asked'[e] = asked[e]
        /\ UNCHANGED <<seen, row, done, current_step_>> /\ AnswerInv
    OBVIOUS
  <2> HIDE DEF IInv, Submit, Goto, FIFO!Call, N, s
  <2>3. \A e \in Kept \cup Returned : Answers(e)'
    BY <2>1, <2>2 DEF AnswerInv, Answers
  <2> QED
    BY <1>4, <2>2, <2>3 DEF AnswerInv, Current, Outcome
<1>14. SyncInv'
  <2>1. Cardinality(Outstanding') = Cardinality(Outstanding) + Len(ids)
    <3>1. Outstanding \in SUBSET Envs
      BY DEF Outstanding
    <3> HIDE DEF IInv, Submit, Goto, FIFO!Call, N, s
    <3>2. Cardinality(Outstanding \cup N) = Cardinality(Outstanding) + Cardinality(N)
      BY <1>1, <3>1, CountApart
    <3> QED
      BY <1>1, <1>3, <3>2
  <2>2. /\ is_sync_' = is_sync_ /\ DOMAIN cpc = Clients
        /\ cpc' = [cpc EXCEPT ![c] = IF is_sync_ THEN "count" ELSE "enqueue"]
    BY DEF is_sync_, TypeOK
  <2>3. is_sync_ => \A d \in Clients : cpc[d] = "idle"
    BY DEF MaySubmit, InUse
  <2>4. Len(hands'[c]) = Len(ids)
    BY <1>1, <1>2 DEF TypeOK
  <2>5. is_sync_ => stepping_env_num_ = Cardinality(Outstanding)
    BY <2>2, <2>3 DEF SyncInv
  <2> HIDE DEF IInv, Submit, Goto, FIFO!Call
  <2>6. stepping_env_num_' = stepping_env_num_ /\ SyncInv
    BY DEF IInv, Submit
  <2> QED
    BY <2>1, <2>2, <2>3, <2>4, <2>5, <2>6 DEF SyncInv
<1> QED
  BY <1>7, <1>8, <1>9, <1>10, <1>11, <1>12, <1>13, <1>14

LEMMA SendStep ==
  ASSUME IInv, NEW c \in Clients, Send(c)
  PROVE  IInv'
<1> DEFINE S == {e \in Envs : seen[e] # Null}
<1>1. PICK ids \in Batch(S) : \E a \in [Range(ids) -> Actions] :
        /\ MaySubmit
        /\ Goto(c, "idle", IF is_sync_ THEN "count" ELSE "enqueue")
        /\ hands' = [hands EXCEPT ![c] = Slices(ids, FALSE)] /\ FIFO!Call(c)
        /\ action_' = [e \in Envs |-> IF e \in Range(ids) THEN a[e] ELSE action_[e]]
        /\ asked' = [e \in Envs |-> IF e \in Range(ids) THEN a[e] ELSE asked[e]]
        /\ UNCHANGED <<stop_, stepping_env_num_, batchVars, workerVars, envVars, additional, seen>>
  BY DEF Send
<1>2. Range(ids) \in SUBSET S /\ S \in SUBSET Envs
  BY BatchFacts
<1>3. Submit(c, ids, FALSE)
  BY <1>1, <1>2 DEF Submit, IInv, TypeOK
<1> QED
  BY <1>1, <1>2, <1>3, SubmitStep

LEMMA ResetStep ==
  ASSUME IInv, NEW c \in Clients, Reset(c)
  PROVE  IInv'
<1>1. PICK ids \in Batch(Envs) :
        /\ MaySubmit
        /\ Goto(c, "idle", IF is_sync_ THEN "count" ELSE "enqueue")
        /\ hands' = [hands EXCEPT ![c] = Slices(ids, TRUE)] /\ FIFO!Call(c)
        /\ asked' = [e \in Envs |-> IF e \in Range(ids) THEN ForceReset ELSE asked[e]]
        /\ UNCHANGED <<stop_, stepping_env_num_, batchVars, workerVars, action_, envVars,
                       additional, seen>>
  BY DEF Reset
<1>2. Range(ids) \in SUBSET Envs
  BY BatchFacts
<1>3. Submit(c, ids, TRUE)
  BY <1>1, <1>2 DEF Submit, IInv, TypeOK
<1> QED
  BY <1>1, <1>3, SubmitStep

-----------------------------------------------------------------------------
(* The other calls. *)

\* The parts of the invariant that a step of a call leaves alone.
LEMMA CallFrame ==
  ASSUME IInv,
         UNCHANGED <<stop_, fifoVars, batchVars, workerVars, action_, envVars, asked, seen>>
  PROVE  /\ DisjointInv' /\ OnceInv' /\ WholeInv' /\ FinishInv' /\ SliceInv' /\ AskInv'
         /\ AnswerInv' /\ Outstanding' = Outstanding
<1>1. /\ UNCHANGED <<hands, pending, taken, reserved, finished, batch, wpc, reset, action_, done,
                     current_step_, row, asked, seen, stop_>>
  BY DEF fifoVars, batchVars, workerVars, envVars
<1>2. /\ UNCHANGED <<Handed, Queued, AtWork, Worked, Kept, Returned, Outstanding>>
  BY <1>1 DEF Handed, Queued, AtWork, Worked, Kept, Returned, Outstanding, EnvsOf
<1>3. DisjointInv' /\ WholeInv'
  BY <1>1, <1>2 DEF IInv, DisjointInv, WholeInv
<1>4. OnceInv'
  BY <1>1, <1>2 DEF IInv, OnceInv, NamesOnce, EnvsOf
<1>5. FinishInv' /\ SliceInv'
  BY <1>1, <1>2 DEF IInv, FinishInv, SliceInv, RealSlices
<1>6. AskInv'
  BY <1>1, <1>2 DEF IInv, AskInv, AsksWell, needsReset
<1>7. AnswerInv'
  BY <1>1, <1>2 DEF IInv, AnswerInv, Answers, Outcome, Current
<1> QED
  BY <1>2, <1>3, <1>4, <1>5, <1>6, <1>7

LEMMA CountSteppingStep ==
  ASSUME IInv, NEW c \in Clients, CountStepping(c)
  PROVE  IInv'
<1>1. /\ cpc[c] = "count" /\ cpc' = [cpc EXCEPT ![c] = "enqueue"]
      /\ UNCHANGED <<batch_, stop_, hands, pending, taken, reserved, finished, batch, wpc, reset,
                     action_, done, current_step_, row, asked, seen, additional>>
      /\ stepping_env_num_' = stepping_env_num_ + Len(hands[c])
  BY DEF CountStepping, Goto, fifoVars, batchVars, workerVars, envVars
<1>2. /\ DisjointInv' /\ OnceInv' /\ WholeInv' /\ FinishInv' /\ SliceInv' /\ AskInv'
      /\ AnswerInv' /\ Outstanding' = Outstanding
  BY <1>1, CallFrame DEF fifoVars, batchVars, workerVars, envVars
<1>3. is_sync_ /\ is_sync_' = is_sync_
  BY <1>1 DEF IInv, SyncInv, is_sync_
<1>4. stepping_env_num_' = Cardinality(Outstanding)
  BY <1>1, <1>3 DEF IInv, SyncInv
<1>5. TypeOK'
  <2>1. Cardinality(Outstanding) \in 0 .. num_envs_
    BY FiniteEnvs DEF Outstanding
  <2> QED
    BY <1>1, <1>4, <2>1 DEF IInv, TypeOK
<1>6. SyncInv'
  <2>1. \A d \in Clients \ {c} : cpc[d] = "idle" /\ cpc'[d] = "idle"
    BY <1>1, <1>3 DEF IInv, SyncInv, TypeOK
  <2>2. cpc'[c] = "enqueue"
    BY <1>1 DEF IInv, TypeOK
  <2> QED
    BY <1>2, <1>3, <1>4, <2>1, <2>2 DEF SyncInv
<1> QED
  BY <1>2, <1>5, <1>6 DEF IInv

\* A step of a call keeps the count if no count is due and the calls of a sync
\* pool keep following each other.
LEMMA KeepsCount ==
  ASSUME IInv, NEW c \in Clients, NEW x, x # "count", cpc[c] # "count",
         cpc' = [cpc EXCEPT ![c] = x],
         UNCHANGED <<batch_, stepping_env_num_>>, Outstanding' = Outstanding,
         is_sync_ => cpc[c] # "idle" \/ \A d \in Clients : cpc[d] = "idle"
  PROVE  SyncInv'
<1>1. is_sync_' = is_sync_ /\ SyncInv /\ DOMAIN cpc = Clients
  BY DEF is_sync_, IInv, TypeOK
<1>2. is_sync_ => \A d \in Clients \ {c} : cpc[d] = "idle"
  BY <1>1 DEF SyncInv
<1>3. \A d \in Clients : cpc'[d] = IF d = c THEN x ELSE cpc[d]
  BY <1>1
<1>4. CASE ~is_sync_
  BY <1>1, <1>3, <1>4 DEF SyncInv
<1>5. CASE is_sync_
  <2>1. \A d \in Clients : cpc[d] # "count" /\ cpc'[d] # "count"
    BY <1>2, <1>3, <1>5
  <2>2. stepping_env_num_' = Cardinality(Outstanding')
    BY <1>1, <1>5, <2>1 DEF SyncInv
  <2>3. \A d, e \in Clients : cpc'[d] # "idle" /\ cpc'[e] # "idle" => d = e
    BY <1>2, <1>3, <1>5
  <2> QED
    BY <1>1, <1>5, <2>1, <2>2, <2>3 DEF SyncInv
<1> QED
  BY <1>4, <1>5

LEMMA RecvStep ==
  ASSUME IInv, NEW c \in Clients, Recv(c)
  PROVE  IInv'
<1>1. /\ cpc[c] = "idle" /\ cpc' = [cpc EXCEPT ![c] = "wait"]
      /\ UNCHANGED <<batch_, stop_, hands, pending, taken, reserved, finished, batch, wpc, reset,
                     action_, done, current_step_, row, asked, seen, stepping_env_num_>>
      /\ additional' = [additional EXCEPT ![c] = additional_wait]
      /\ is_sync_ => \A d \in Clients : cpc[d] = "idle"
  BY DEF Recv, Goto, InUse, fifoVars, batchVars, workerVars, envVars
<1>2. /\ DisjointInv' /\ OnceInv' /\ WholeInv' /\ FinishInv' /\ SliceInv' /\ AskInv'
      /\ AnswerInv' /\ Outstanding' = Outstanding
  BY <1>1, CallFrame DEF fifoVars, batchVars, workerVars, envVars
<1>3. TypeOK'
  <2>1. num_envs_ \in Nat
    BY PoolAssumption, FS_CardinalityType
  <2>2. batch_ \in Nat /\ stepping_env_num_ \in Nat
    BY <2>1 DEF IInv, TypeOK
  <2>3. additional_wait \in 0 .. batch_
    BY <2>2 DEF additional_wait
  <2> QED
    BY <1>1, <2>3 DEF IInv, TypeOK
<1>4. SyncInv'
  BY <1>1, <1>2, KeepsCount
<1> QED
  BY <1>2, <1>3, <1>4 DEF IInv

LEMMA JoinStep ==
  ASSUME IInv, NEW c \in Clients, Join(c)
  PROVE  IInv'
<1>1. /\ cpc[c] = "join" /\ cpc' = [cpc EXCEPT ![c] = "gone"]
      /\ UNCHANGED <<batch_, stop_, hands, pending, taken, reserved, finished, batch, wpc, reset,
                     action_, done, current_step_, row, asked, seen, stepping_env_num_,
                     additional>>
  BY DEF Join, Goto, fifoVars, batchVars, workerVars, envVars
<1>2. /\ DisjointInv' /\ OnceInv' /\ WholeInv' /\ FinishInv' /\ SliceInv' /\ AskInv'
      /\ AnswerInv' /\ Outstanding' = Outstanding
  BY <1>1, CallFrame DEF fifoVars, batchVars, workerVars, envVars
<1>3. TypeOK'
  BY <1>1 DEF IInv, TypeOK
<1>4. SyncInv'
  BY <1>1, <1>2, KeepsCount
<1> QED
  BY <1>2, <1>3, <1>4 DEF IInv

\* The slices of two sequences, one after the other.
LEMMA ConcatFacts ==
  ASSUME NEW s \in Seq(ActionSlice), NEW t \in Seq(ActionSlice)
  PROVE  /\ s \o t \in Seq(ActionSlice)
         /\ \A k \in DOMAIN (s \o t) :
              \/ k \in DOMAIN s /\ (s \o t)[k] = s[k]
              \/ k \notin DOMAIN s /\ k - Len(s) \in DOMAIN t /\ (s \o t)[k] = t[k - Len(s)]
         /\ EnvsOf(s \o t) = EnvsOf(s) \cup EnvsOf(t)
         /\ NamesOnce(s) /\ NamesOnce(t) /\ EnvsOf(s) \cap EnvsOf(t) = {} => NamesOnce(s \o t)
<1> DEFINE u == s \o t
<1>1. /\ u \in Seq(ActionSlice) /\ DOMAIN u = 1 .. Len(s) + Len(t)
      /\ DOMAIN s = 1 .. Len(s) /\ DOMAIN t = 1 .. Len(t) /\ Len(s) \in Nat /\ Len(t) \in Nat
      /\ \A k \in 1 .. Len(s) + Len(t) : u[k] = IF k <= Len(s) THEN s[k] ELSE t[k - Len(s)]
  OBVIOUS
<1> HIDE DEF u
<1>2. \A k \in DOMAIN u :
        \/ k \in DOMAIN s /\ u[k] = s[k]
        \/ k \notin DOMAIN s /\ k - Len(s) \in DOMAIN t /\ u[k] = t[k - Len(s)]
  BY <1>1
<1>3. /\ \A k \in DOMAIN s : k \in DOMAIN u /\ u[k] = s[k]
      /\ \A k \in DOMAIN t : k + Len(s) \in DOMAIN u /\ u[k + Len(s)] = t[k]
  BY <1>1
<1>4. EnvsOf(u) = EnvsOf(s) \cup EnvsOf(t)
  BY <1>2, <1>3 DEF EnvsOf
<1>5. ASSUME NamesOnce(s), NamesOnce(t), EnvsOf(s) \cap EnvsOf(t) = {}
      PROVE  NamesOnce(u)
  <2> SUFFICES ASSUME NEW j \in DOMAIN u, NEW k \in DOMAIN u, u[j].env_id = u[k].env_id,
                      u[j].env_id # Null
               PROVE  j = k
    BY DEF NamesOnce
  <2>0. u[j] \in ActionSlice
    BY <1>1
  <2>1. u[j].env_id \in Envs
    BY <2>0 DEF ActionSlice
  <2>2. CASE j \in DOMAIN s /\ k \in DOMAIN s
    BY <1>2, <1>5, <2>2 DEF NamesOnce
  <2>3. CASE j \notin DOMAIN s /\ k \notin DOMAIN s
    <3>1. j - Len(s) = k - Len(s)
      BY <1>2, <1>5, <2>3 DEF NamesOnce
    <3> QED
      BY <1>1, <3>1
  <2>4. CASE j \in DOMAIN s /\ k \notin DOMAIN s
    <3>1. u[j].env_id \in EnvsOf(s) /\ u[k].env_id \in EnvsOf(t)
      BY <1>2, <2>1, <2>4 DEF EnvsOf
    <3> QED
      BY <1>5, <3>1
  <2>5. CASE j \notin DOMAIN s /\ k \in DOMAIN s
    <3>1. u[j].env_id \in EnvsOf(t) /\ u[k].env_id \in EnvsOf(s)
      BY <1>2, <2>1, <2>5 DEF EnvsOf
    <3> QED
      BY <1>5, <3>1
  <2> QED
    BY <2>2, <2>3, <2>4, <2>5
<1> QED
  BY <1>1, <1>2, <1>4, <1>5 DEF u

\* The batch of a client becomes visible to the workers.
LEMMA PublishStep ==
  ASSUME IInv, NEW c \in Clients, NEW x, FIFO!Publish(c),
         cpc[c] # "count", cpc[c] # "idle", x # "count",
         x \in {"idle", "join"}, cpc' = [cpc EXCEPT ![c] = x],
         UNCHANGED <<batch_, stop_, stepping_env_num_, batchVars, workerVars, action_, envVars,
                     additional, asked, seen>>
  PROVE  IInv'
<1> DEFINE h == hands[c]
<1>1. /\ pending' = pending \o h /\ hands' = [hands EXCEPT ![c] = <<>>] /\ taken' = taken
      /\ UNCHANGED <<batch_, stop_, stepping_env_num_, reserved, finished, batch, wpc, reset,
                     action_, done, current_step_, row, additional, asked, seen>>
  BY DEF FIFO!Publish, batchVars, workerVars, envVars
<1>2. /\ TypeOK /\ DisjointInv /\ OnceInv /\ WholeInv /\ FinishInv /\ SliceInv /\ AskInv
      /\ AnswerInv /\ SyncInv
  BY DEF IInv
<1>3. /\ pending \in Seq(ActionSlice) /\ h \in Seq(ActionSlice)
      /\ hands'[c] = <<>> /\ \A d \in Clients \ {c} : hands'[d] = hands[d]
      /\ hands' \in [Clients -> Seq(ActionSlice)]
  BY <1>1, <1>2 DEF TypeOK
<1>4. /\ pending' \in Seq(ActionSlice)
      /\ \A k \in DOMAIN pending' :
           \/ k \in DOMAIN pending /\ pending'[k] = pending[k]
           \/ \E l \in DOMAIN h : pending'[k] = h[l]
      /\ EnvsOf(pending') = EnvsOf(pending) \cup EnvsOf(h)
      /\ NamesOnce(pending) /\ NamesOnce(h) /\ EnvsOf(pending) \cap EnvsOf(h) = {}
           => NamesOnce(pending')
  BY <1>1, <1>3, ConcatFacts
<1> HIDE DEF h, IInv
<1>5. /\ UNCHANGED <<AtWork, Worked, Kept, Returned, Outstanding>>
  BY <1>1 DEF AtWork, Worked, Kept, Returned, Outstanding
<1>6. EnvsOf(hands'[c]) = {} /\ NamesOnce(hands'[c]) /\ RealSlices(hands'[c])
  <2>1. DOMAIN hands'[c] = {}
    BY <1>3
  <2> QED
    BY <2>1 DEF EnvsOf, NamesOnce, RealSlices
<1>7. /\ EnvsOf(h) \subseteq Handed
      /\ \A d \in Clients \ {c} : EnvsOf(hands[d]) \cap EnvsOf(h) = {}
  BY <1>2 DEF Handed, EnvsOf, OnceInv, h
<1>8. Handed' = Handed \ EnvsOf(h) /\ Queued' = Queued \cup EnvsOf(h)
  <2>1. Handed' = {e \in Envs : \E d \in Clients : e \in EnvsOf(hands'[d])}
    BY DEF Handed, EnvsOf
  <2>2. Handed' = {e \in Envs : \E d \in Clients \ {c} : e \in EnvsOf(hands[d])}
    BY <1>3, <1>6, <2>1
  <2>3. Handed' = Handed \ EnvsOf(h)
    BY <1>7, <2>2 DEF Handed, h
  <2>4. Queued' = EnvsOf(pending')
    BY DEF Queued, EnvsOf
  <2> QED
    BY <1>4, <2>3, <2>4 DEF Queued
<1>9. TypeOK'
  BY <1>1, <1>2, <1>3, <1>4 DEF TypeOK
<1>10. DisjointInv' /\ WholeInv'
  BY <1>1, <1>2, <1>5, <1>7, <1>8 DEF DisjointInv, WholeInv
<1>11. OnceInv'
  <2>1. \A d \in Clients : NamesOnce(hands'[d])
    BY <1>2, <1>3, <1>6 DEF OnceInv
  <2>2. \A d, e \in Clients : d # e => EnvsOf(hands'[d]) \cap EnvsOf(hands'[e]) = {}
    BY <1>2, <1>3, <1>6 DEF OnceInv
  <2>3. NamesOnce(pending')
    BY <1>2, <1>4, <1>7 DEF OnceInv, DisjointInv, Queued, h
  <2> QED
    BY <1>1, <1>2, <1>5, <2>1, <2>2, <2>3 DEF OnceInv, NamesOnce, EnvsOf
<1>12. FinishInv'
  BY <1>1, <1>2, <1>5 DEF FinishInv
<1>13. SliceInv'
  <2>1. ~stop_ => RealSlices(h) /\ RealSlices(pending)
    BY <1>2 DEF SliceInv, h
  <2>2. ~stop_ => RealSlices(pending')
    BY <1>4, <2>1 DEF RealSlices
  <2>3. ~stop_ => \A d \in Clients : RealSlices(hands'[d])
    BY <1>2, <1>3, <1>6 DEF SliceInv
  <2> QED
    BY <1>1, <1>2, <1>5, <2>2, <2>3 DEF SliceInv, RealSlices
<1>14. AskInv'
  <2>1. \A slice : AsksWell(slice) =>
          (slice.env_id \in Envs => slice.force_reset = (asked'[slice.env_id] = ForceReset))
    BY <1>1 DEF AsksWell
  <2>2. \A k \in DOMAIN pending' : AsksWell(pending[k])'
    <3> SUFFICES ASSUME NEW k \in DOMAIN pending' PROVE AsksWell(pending[k])'
      OBVIOUS
    <3>1. AsksWell(pending'[k])
      BY <1>2, <1>4 DEF AskInv, h
    <3> QED
      BY <2>1, <3>1 DEF AsksWell
  <2>3. \A d \in Clients : \A k \in DOMAIN hands'[d] : AsksWell(hands[d][k])'
    <3> SUFFICES ASSUME NEW d \in Clients, NEW k \in DOMAIN hands'[d]
                 PROVE  AsksWell(hands[d][k])'
      OBVIOUS
    <3>1. hands'[d] = hands[d]
      BY <1>3
    <3>2. AsksWell(hands[d][k])
      BY <1>2, <3>1 DEF AskInv
    <3> QED
      BY <2>1, <3>1, <3>2 DEF AsksWell
  <2>4. \A w \in AtWork : AsksWell(taken[w])'
    BY <1>1, <1>2 DEF AskInv, AsksWell
  <2>5. /\ \A e \in Envs : asked'[e] \in Actions => seen'[e] # Null /\ action_'[e] = asked'[e]
        /\ \A w \in Workers : wpc'[w] = "step" => reset'[w] = needsReset(w)'
    BY <1>1, <1>2 DEF AskInv, needsReset
  <2> QED
    BY <1>5, <2>2, <2>3, <2>4, <2>5 DEF AskInv
<1>15. AnswerInv'
  BY <1>1, <1>2, <1>5 DEF AnswerInv, Answers, Outcome, Current
<1>16. SyncInv'
  BY <1>1, <1>5, KeepsCount
<1> QED
  BY <1>9, <1>10, <1>11, <1>12, <1>13, <1>14, <1>15, <1>16 DEF IInv

LEMMA EnqueueStep ==
  ASSUME IInv, NEW c \in Clients, Enqueue(c) \/ ClearWorkers(c)
  PROVE  IInv'
<1>1. CASE Enqueue(c)
  BY <1>1, PublishStep DEF Enqueue, Goto
<1>2. CASE ClearWorkers(c)
  BY <1>2, PublishStep DEF ClearWorkers, Goto
<1> QED
  BY <1>1, <1>2

-----------------------------------------------------------------------------
(* The workers. *)

\* The first slice of a sequence and the rest.
LEMMA HeadFacts ==
  ASSUME NEW s \in Seq(ActionSlice), s # <<>>, NamesOnce(s)
  PROVE  /\ Head(s) \in ActionSlice /\ Tail(s) \in Seq(ActionSlice)
         /\ 1 \in DOMAIN s /\ Head(s) = s[1]
         /\ \A k \in DOMAIN Tail(s) : k + 1 \in DOMAIN s /\ Tail(s)[k] = s[k + 1]
         /\ NamesOnce(Tail(s))
         /\ EnvsOf(Tail(s)) = EnvsOf(s) \ {Head(s).env_id}
         /\ Head(s).env_id \in Envs => Head(s).env_id \in EnvsOf(s)
<1> DEFINE t == Tail(s)
           h == Head(s)
<1>1. /\ Len(s) \in Nat \ {0} /\ DOMAIN s = 1 .. Len(s) /\ t \in Seq(ActionSlice)
      /\ h = s[1] /\ h \in ActionSlice
      /\ DOMAIN t = 1 .. Len(s) - 1 /\ \A k \in 1 .. Len(s) - 1 : t[k] = s[k + 1]
  OBVIOUS
<1> HIDE DEF t, h
<1>2. /\ 1 \in DOMAIN s
      /\ \A k \in DOMAIN t : k \in Int /\ k + 1 \in DOMAIN s /\ t[k] = s[k + 1] /\ k + 1 # 1
      /\ \A k \in DOMAIN s : k # 1 => \E l \in DOMAIN t : k = l + 1 /\ s[k] = t[l]
  <2>1. \A k \in DOMAIN s : k # 1 => k - 1 \in DOMAIN t /\ k = (k - 1) + 1 /\ s[k] = t[k - 1]
    BY <1>1
  <2> QED
    BY <1>1, <2>1
<1>3. NamesOnce(t)
  <2> SUFFICES ASSUME NEW j \in DOMAIN t, NEW k \in DOMAIN t, t[j].env_id = t[k].env_id,
                      t[j].env_id # Null
               PROVE  j = k
    BY DEF NamesOnce
  <2>1. j + 1 = k + 1
    BY <1>2 DEF NamesOnce
  <2> QED
    BY <1>2, <2>1
<1>4. \A k \in DOMAIN t : t[k].env_id \in Envs => t[k].env_id # h.env_id
  BY <1>1, <1>2, PoolAssumption DEF NamesOnce
<1>5. EnvsOf(t) = EnvsOf(s) \ {h.env_id}
  <2>1. ASSUME NEW e \in EnvsOf(s), e # h.env_id
        PROVE  e \in EnvsOf(t)
    <3>1. PICK k \in DOMAIN s : s[k].env_id = e
      BY DEF EnvsOf
    <3> QED
      BY <1>1, <1>2, <2>1, <3>1 DEF EnvsOf
  <2>2. EnvsOf(t) \subseteq EnvsOf(s)
    BY <1>2 DEF EnvsOf
  <2>3. h.env_id \notin EnvsOf(t)
    BY <1>4 DEF EnvsOf
  <2> QED
    BY <2>1, <2>2, <2>3
<1>6. h.env_id \in Envs => h.env_id \in EnvsOf(s)
  BY <1>1, <1>2 DEF EnvsOf
<1> QED
  BY <1>1, <1>2, <1>3, <1>5, <1>6 DEF t, h

\* What a step of a worker never touches.
LEMMA WorkerFrame ==
  ASSUME SyncInv, UNCHANGED <<batch_, stop_, stepping_env_num_, clientVars, action_, hands>>
  PROVE  /\ SyncInv' /\ UNCHANGED <<Outstanding, Handed>>
         /\ UNCHANGED <<cpc, additional, asked, seen>>
<1>1. UNCHANGED <<cpc, additional, asked, seen>>
  BY DEF clientVars
<1>2. UNCHANGED <<Outstanding, Handed, is_sync_>>
  BY <1>1 DEF Outstanding, Handed, is_sync_, EnvsOf
<1> QED
  BY <1>1, <1>2 DEF SyncInv

LEMMA DequeueStep ==
  ASSUME IInv, NEW w \in Workers, Dequeue(w)
  PROVE  IInv'
<1> DEFINE h == Head(pending)
<1>1. /\ TypeOK /\ DisjointInv /\ OnceInv /\ WholeInv /\ FinishInv /\ SliceInv /\ AskInv
      /\ AnswerInv /\ SyncInv
  BY DEF IInv
<1>2. /\ wpc[w] = "dequeue" /\ wpc' = [wpc EXCEPT ![w] = "test"]
      /\ pending # <<>> /\ taken' = [taken EXCEPT ![w] = h] /\ pending' = Tail(pending)
      /\ UNCHANGED <<batch_, stop_, stepping_env_num_, clientVars, action_, hands, reserved,
                     finished, batch, reset, done, current_step_, row>>
  BY DEF Dequeue, WorkerAt, FIFO!Take, batchVars, envVars
<1>3. /\ SyncInv' /\ UNCHANGED <<Outstanding, Handed>>
      /\ UNCHANGED <<cpc, additional, asked, seen>>
  BY <1>1, <1>2, WorkerFrame
<1>4. /\ h \in ActionSlice /\ pending' \in Seq(ActionSlice) /\ 1 \in DOMAIN pending
      /\ h = pending[1]
      /\ \A k \in DOMAIN pending' : k + 1 \in DOMAIN pending /\ pending'[k] = pending[k + 1]
      /\ NamesOnce(pending') /\ EnvsOf(pending') = Queued \ {h.env_id}
      /\ h.env_id \in Envs => h.env_id \in Queued
  <2>1. pending \in Seq(ActionSlice) /\ NamesOnce(pending) /\ pending # <<>>
    BY <1>1, <1>2 DEF TypeOK, OnceInv
  <2> QED
    BY <1>2, <2>1, HeadFacts DEF Queued
<1> HIDE DEF h, IInv
<1>5. /\ wpc'[w] = "test" /\ taken'[w] = h
      /\ \A v \in Workers \ {w} : wpc'[v] = wpc[v] /\ taken'[v] = taken[v]
  BY <1>1, <1>2 DEF TypeOK
<1>6. /\ Queued' = Queued \ {h.env_id} /\ UNCHANGED <<Kept, Returned>>
      /\ AtWork' = AtWork \cup {w} /\ w \notin AtWork
      /\ Worked' = Worked \cup ({h.env_id} \cap Envs)
  <2>1. Queued' = EnvsOf(pending')
    BY DEF Queued, EnvsOf
  <2>2. AtWork' = AtWork \cup {w} /\ w \notin AtWork
    BY <1>2, <1>5 DEF AtWork
  <2>3. \A v \in AtWork : taken'[v] = taken[v]
    BY <1>5, <2>2 DEF AtWork
  <2>4. Worked' = Worked \cup ({h.env_id} \cap Envs)
    BY <1>5, <2>2, <2>3 DEF Worked
  <2> QED
    BY <1>2, <1>4, <2>1, <2>2, <2>4 DEF Kept, Returned
<1>7. TypeOK'
  <2>1. /\ taken' \in [Workers -> ActionSlice \cup {Null}]
        /\ wpc' \in [Workers -> {"dequeue", "test", "step", "finish", "exited"}]
        /\ pending' \in Seq(ActionSlice)
    BY <1>1, <1>2, <1>4 DEF TypeOK
  <2> QED
    BY <1>1, <1>2, <1>3, <2>1 DEF TypeOK
<1>8. DisjointInv' /\ WholeInv'
  <2>1. /\ Queued' \cup Worked' = Queued \cup Worked /\ Queued' \subseteq Queued
        /\ Queued' \cap ({h.env_id} \cap Envs) = {} /\ {h.env_id} \cap Envs \subseteq Queued
    <3>1. Queued \subseteq Envs
      BY DEF Queued, EnvsOf
    <3> QED
      BY <1>4, <1>6, <3>1
  <2>2. UNCHANGED <<Handed, Kept, Returned, Outstanding, stop_>>
    BY <1>2, <1>3, <1>6
  <2>3. DisjointInv'
    BY <1>1, <1>6, <2>1, <2>2 DEF DisjointInv
  <2>4. WholeInv'
    BY <1>1, <2>1, <2>2 DEF WholeInv
  <2> QED
    BY <2>3, <2>4
<1>9. OnceInv'
  <2>1. /\ \A c \in Clients : NamesOnce(hands'[c])
        /\ \A c, d \in Clients : c # d => EnvsOf(hands'[c]) \cap EnvsOf(hands'[d]) = {}
        /\ \A j, k \in DOMAIN reserved' : reserved'[j].env = reserved'[k].env => j = k
        /\ \A j, k \in DOMAIN batch' : batch'[j] = batch'[k] => j = k
    BY <1>1, <1>2 DEF OnceInv
  <2>2. \A v \in AtWork : taken'[v] = taken[v] /\ taken[v].env_id # Null /\ h \in ActionSlice
                            => taken[v].env_id # h.env_id
    <3>1. \A v \in AtWork : taken[v] \in ActionSlice
      BY <1>1 DEF SliceInv, AtWork
    <3>2. \A v \in AtWork : taken[v].env_id \in Envs \cup {Null}
      BY <3>1 DEF ActionSlice
    <3>3. \A v \in AtWork : taken[v].env_id \in Envs => taken[v].env_id \in Worked
      BY DEF Worked
    <3> QED
      BY <1>1, <1>4, <3>2, <3>3 DEF DisjointInv
  <2>3. \A v \in AtWork : v \in Workers \ {w}
    BY <1>6 DEF AtWork
  <2>4. \A u, v \in AtWork' : taken'[u].env_id = taken'[v].env_id /\ taken'[u].env_id # Null
                                => u = v
    BY <1>1, <1>4, <1>5, <1>6, <2>2, <2>3 DEF OnceInv
  <2> QED
    BY <1>4, <2>1, <2>4 DEF OnceInv, NamesOnce, EnvsOf
<1>10. FinishInv'
  BY <1>1, <1>2, <1>5, <1>6 DEF FinishInv
<1>11. SliceInv'
  <2>1. ~stop_ => RealSlices(pending') /\ h.env_id \in Envs
    BY <1>1, <1>4 DEF SliceInv, RealSlices
  <2>2. ~stop_ => \A v \in AtWork' : taken'[v].env_id \in Envs
    <3>1. \A v \in AtWork : v \in Workers \ {w}
      BY <1>6 DEF AtWork
    <3> QED
      BY <1>1, <1>5, <1>6, <2>1, <3>1 DEF SliceInv
  <2>3. /\ \A v \in Workers : wpc'[v] # "dequeue" => taken'[v] \in ActionSlice
        /\ \A v \in Workers : wpc'[v] \in {"step", "finish"} => taken'[v].env_id \in Envs
    BY <1>1, <1>4, <1>5 DEF SliceInv
  <2>4. ~stop_ => \A c \in Clients : RealSlices(hands'[c])
    BY <1>1, <1>2 DEF SliceInv
  <2> QED
    BY <1>2, <2>1, <2>2, <2>3, <2>4 DEF SliceInv, RealSlices
<1>12. AskInv'
  <2>1. \A slice : AsksWell(slice) =>
          (slice.env_id \in Envs => slice.force_reset = (asked'[slice.env_id] = ForceReset))
    BY <1>3 DEF AsksWell
  <2>2. \A k \in DOMAIN pending' : AsksWell(pending[k])'
    <3> SUFFICES ASSUME NEW k \in DOMAIN pending' PROVE AsksWell(pending[k])'
      OBVIOUS
    <3>1. AsksWell(pending'[k])
      BY <1>1, <1>4 DEF AskInv
    <3> QED
      BY <2>1, <3>1 DEF AsksWell
  <2>3. \A c \in Clients : \A k \in DOMAIN hands'[c] : AsksWell(hands[c][k])'
    BY <1>1, <1>2, <1>3 DEF AskInv, AsksWell
  <2>4. \A v \in AtWork' : AsksWell(taken[v])'
    <3> SUFFICES ASSUME NEW v \in AtWork' PROVE AsksWell(taken[v])'
      OBVIOUS
    <3>1. AsksWell(taken'[v])
      <4>1. CASE v = w
        BY <1>1, <1>4, <1>5, <4>1 DEF AskInv
      <4>2. CASE v # w
        BY <1>1, <1>5, <1>6, <4>2 DEF AskInv, AtWork
      <4> QED
        BY <4>1, <4>2
    <3> QED
      BY <2>1, <3>1 DEF AsksWell
  <2>5. \A e \in Envs : asked'[e] \in Actions => seen'[e] # Null /\ action_'[e] = asked'[e]
    BY <1>1, <1>2, <1>3 DEF AskInv
  <2>6. \A v \in Workers : wpc'[v] = "step" => reset'[v] = needsReset(v)'
    BY <1>1, <1>2, <1>5 DEF AskInv, needsReset
  <2> QED
    BY <2>2, <2>3, <2>4, <2>5, <2>6 DEF AskInv
<1>13. AnswerInv'
  BY <1>1, <1>2, <1>3, <1>6 DEF AnswerInv, Answers, Outcome, Current
<1> QED
  BY <1>3, <1>7, <1>8, <1>9, <1>10, <1>11, <1>12, <1>13 DEF IInv

\* Before it runs an env, a worker that finds stop_ set exits, and the others
\* go on.
LEMMA TestStep ==
  ASSUME IInv, NEW w \in Workers, Stop(w) \/ TestDone(w)
  PROVE  IInv'
<1>1. /\ TypeOK /\ DisjointInv /\ OnceInv /\ WholeInv /\ FinishInv /\ SliceInv /\ AskInv
      /\ AnswerInv /\ SyncInv
  BY DEF IInv
<1>2. /\ wpc[w] = "test"
      /\ UNCHANGED <<batch_, stop_, stepping_env_num_, clientVars, action_, hands, pending, taken,
                     reserved, finished, batch, done, current_step_, row>>
      /\ \/ stop_ /\ wpc' = [wpc EXCEPT ![w] = "exited"] /\ reset' = reset
         \/ ~stop_ /\ wpc' = [wpc EXCEPT ![w] = "step"]
            /\ reset' = [reset EXCEPT ![w] = needsReset(w)]
  BY DEF Stop, TestDone, WorkerAt, fifoVars, batchVars, envVars
<1>3. /\ SyncInv' /\ UNCHANGED <<Outstanding, Handed>>
      /\ UNCHANGED <<cpc, additional, asked, seen>>
  BY <1>1, <1>2, WorkerFrame
<1> HIDE DEF IInv
<1>4. /\ \A v \in Workers \ {w} : wpc'[v] = wpc[v] /\ reset'[v] = reset[v]
      /\ stop_ => wpc'[w] = "exited"
      /\ ~stop_ => wpc'[w] = "step" /\ reset'[w] = needsReset(w)
  BY <1>1, <1>2 DEF TypeOK
<1>5. /\ UNCHANGED <<Queued, Kept, Returned>> /\ AtWork' \subseteq AtWork
      /\ ~stop_ => AtWork' = AtWork
  BY <1>2, <1>4 DEF Queued, Kept, Returned, AtWork, EnvsOf
<1>6. Worked' \subseteq Worked /\ (~stop_ => Worked' = Worked)
  BY <1>2, <1>5 DEF Worked
<1>7. TypeOK'
  <2>1. needsReset(w) \in BOOLEAN
    <3>1. taken[w] \in ActionSlice
      BY <1>1, <1>2 DEF SliceInv
    <3> QED
      BY <3>1 DEF needsReset, ActionSlice
  <2>2. /\ reset' \in [Workers -> BOOLEAN]
        /\ wpc' \in [Workers -> {"dequeue", "test", "step", "finish", "exited"}]
    BY <1>1, <1>2, <2>1 DEF TypeOK
  <2> QED
    BY <1>1, <1>2, <1>3, <2>2 DEF TypeOK
<1>8. DisjointInv' /\ WholeInv'
  BY <1>1, <1>2, <1>3, <1>5, <1>6 DEF DisjointInv, WholeInv
<1>9. OnceInv'
  BY <1>1, <1>2, <1>5 DEF OnceInv, NamesOnce, EnvsOf
<1>10. FinishInv'
  BY <1>1, <1>2, <1>4, <1>5 DEF FinishInv
<1>11. SliceInv'
  <2>1. w \in AtWork
    BY <1>2 DEF AtWork
  <2>2. /\ \A v \in Workers : wpc'[v] # "dequeue" => taken'[v] \in ActionSlice
        /\ \A v \in Workers : wpc'[v] \in {"step", "finish"} => taken'[v].env_id \in Envs
    BY <1>1, <1>2, <1>4, <2>1 DEF SliceInv
  <2> QED
    BY <1>1, <1>2, <1>5, <2>2 DEF SliceInv, RealSlices
<1>12. AskInv'
  <2>1. /\ \A c \in Clients : \A k \in DOMAIN hands'[c] : AsksWell(hands[c][k])'
        /\ \A k \in DOMAIN pending' : AsksWell(pending[k])'
        /\ \A v \in AtWork' : AsksWell(taken[v])'
        /\ \A e \in Envs : asked'[e] \in Actions => seen'[e] # Null /\ action_'[e] = asked'[e]
    BY <1>1, <1>2, <1>3, <1>5 DEF AskInv, AsksWell
  <2>2. \A v \in Workers : wpc'[v] = "step" => reset'[v] = needsReset(v)'
    BY <1>1, <1>2, <1>4 DEF AskInv, needsReset
  <2> QED
    BY <2>1, <2>2 DEF AskInv
<1>13. AnswerInv'
  BY <1>1, <1>2, <1>3, <1>5 DEF AnswerInv, Answers, Outcome, Current
<1> QED
  BY <1>3, <1>7, <1>8, <1>9, <1>10, <1>11, <1>12, <1>13 DEF IInv

\* The env of a worker runs and its row is reserved: from now on the env is
\* among the reserved ones.
LEMMA EnvStepStep ==
  ASSUME IInv, NEW w \in Workers, EnvStep(w)
  PROVE  IInv'
<1>0. PICK e : e = taken[w].env_id
  OBVIOUS
<1> DEFINE elapsed == IF reset[w] THEN 0 ELSE current_step_[e] + 1
<1>1. /\ TypeOK /\ DisjointInv /\ OnceInv /\ WholeInv /\ FinishInv /\ SliceInv /\ AskInv
      /\ AnswerInv /\ SyncInv
  BY DEF IInv
<1>2. PICK d \in BOOLEAN :
        /\ wpc[w] = "step" /\ wpc' = [wpc EXCEPT ![w] = "finish"]
        /\ (reset[w] => ~d) /\ (elapsed >= MaxEpisode => d \/ reset[w])
        /\ current_step_' = [current_step_ EXCEPT ![e] = elapsed]
        /\ done' = [done EXCEPT ![e] = d]
        /\ row' = [row EXCEPT ![e] =
             [reset |-> reset[w], action |-> IF reset[w] THEN Null ELSE action_[e],
              elapsed_step |-> elapsed, done |-> d]]
        /\ reserved' = Append(reserved, [env |-> e, order |-> taken[w].order])
        /\ UNCHANGED <<batch_, stop_, stepping_env_num_, clientVars, action_, hands, pending,
                       taken, finished, batch, reset>>
  BY <1>0 DEF EnvStep, WorkerAt, Batches!Reserve, fifoVars
<1>3. /\ SyncInv' /\ UNCHANGED <<Outstanding, Handed>>
      /\ UNCHANGED <<cpc, additional, asked, seen>>
  BY <1>1, <1>2, WorkerFrame
<1>4. /\ taken[w] \in ActionSlice /\ e \in Envs
      /\ taken[w].order \in {NoOrder} \cup 0 .. num_envs_ - 1
      /\ w \in AtWork /\ e \in Worked /\ e # Null
  <2>1. taken[w] \in ActionSlice /\ e \in Envs
    BY <1>0, <1>1, <1>2 DEF SliceInv
  <2> QED
    BY <1>0, <1>2, <2>1, PoolAssumption DEF AtWork, Worked, ActionSlice
<1> HIDE DEF IInv
<1>5. /\ wpc'[w] = "finish" /\ \A v \in Workers \ {w} : wpc'[v] = wpc[v]
      /\ \A f \in Envs \ {e} : done'[f] = done[f] /\ current_step_'[f] = current_step_[f]
                                 /\ row'[f] = row[f]
      /\ done'[e] = d /\ current_step_'[e] = elapsed
      /\ row'[e] = [reset |-> reset[w], action |-> IF reset[w] THEN Null ELSE action_[e],
                    elapsed_step |-> elapsed, done |-> d]
  BY <1>1, <1>2, <1>4 DEF TypeOK
<1>6. /\ e \notin Kept /\ e \notin Returned /\ e \notin finished /\ e \in Outstanding
  BY <1>1, <1>4 DEF DisjointInv, FinishInv, WholeInv
<1>7. /\ DOMAIN reserved = 1 .. Len(reserved) /\ Len(reserved) \in Nat
      /\ DOMAIN reserved' = 1 .. Len(reserved) + 1
      /\ \A k \in 1 .. Len(reserved) : reserved'[k] = reserved[k]
      /\ reserved'[Len(reserved) + 1] = [env |-> e, order |-> taken[w].order]
      /\ reserved' \in Seq([env : Envs, order : {NoOrder} \cup 0 .. num_envs_ - 1])
  <2>1. [env |-> e, order |-> taken[w].order] \in
           [env : Envs, order : {NoOrder} \cup 0 .. num_envs_ - 1]
    BY <1>4
  <2> QED
    BY <1>1, <1>2, <2>1 DEF TypeOK
<1>8. Kept' = Kept \cup {e} /\ Returned' = Returned /\ Queued' = Queued
  <2>1. \A f \in Envs : (\E k \in DOMAIN reserved' : reserved'[k].env = f)
                           <=> (\E k \in DOMAIN reserved : reserved[k].env = f) \/ f = e
    BY <1>7
  <2> QED
    BY <1>2, <1>4, <2>1 DEF Kept, Returned, Queued
<1>9. AtWork' = AtWork \ {w}
  BY <1>2, <1>4, <1>5 DEF AtWork
<1>10. \A v \in AtWork' : taken[v].env_id # e
  BY <1>0, <1>1, <1>4, <1>9 DEF OnceInv
<1>11. Worked' = Worked \ {e}
  <2>1. Worked' = {f \in Envs : \E v \in AtWork' : taken[v].env_id = f}
    BY <1>2 DEF Worked
  <2>2. \A v \in AtWork \ AtWork' : taken[v].env_id = e
    BY <1>0, <1>9
  <2> QED
    BY <1>9, <1>10, <2>1, <2>2 DEF Worked
<1>12. /\ reset[w] <=> (asked[e] = ForceReset \/ done[e])
       /\ asked[e] # Null /\ (asked[e] = ForceReset \/ asked[e] \in Actions)
  <2>1. AsksWell(taken[w])
    BY <1>1, <1>4 DEF AskInv
  <2>2. taken[w].force_reset = (asked[e] = ForceReset)
    BY <1>0, <1>4, <2>1 DEF AsksWell
  <2>3. reset[w] = (taken[w].force_reset \/ done[e])
    BY <1>0, <1>1, <1>2 DEF AskInv, needsReset
  <2> QED
    BY <1>1, <1>4, <1>6, <2>2, <2>3 DEF Outstanding, TypeOK
<1>13. /\ seen[e] # Null => seen[e] = Current(e)
       /\ asked[e] \in Actions => seen[e] # Null /\ action_[e] = asked[e]
       /\ done[e] \/ current_step_[e] < MaxEpisode
  BY <1>1, <1>4, <1>6 DEF AnswerInv, AskInv
<1>14. /\ current_step_[e] \in -1 .. MaxEpisode /\ MaxEpisode \in Nat \ {0}
       /\ reset[w] \in BOOLEAN /\ done[e] \in BOOLEAN
  BY <1>1, <1>4, PoolAssumption DEF TypeOK
<1>15. elapsed \in 0 .. MaxEpisode /\ elapsed \in Int
  BY <1>12, <1>13, <1>14
<1>16. elapsed >= MaxEpisode => d
  BY <1>2, <1>14
<1> HIDE DEF elapsed
<1>17. TypeOK'
  <2>1. /\ current_step_' \in [Envs -> -1 .. MaxEpisode] /\ done' \in [Envs -> BOOLEAN]
    BY <1>1, <1>2, <1>4, <1>14, <1>15 DEF TypeOK
  <2>2. row' \in [Envs -> RowType]
    <3>1. row'[e] \in RowType
      BY <1>1, <1>4, <1>5, <1>14, <1>15 DEF TypeOK, RowType
    <3> QED
      BY <1>1, <1>2, <1>4, <1>5, <3>1 DEF TypeOK
  <2>3. wpc' \in [Workers -> {"dequeue", "test", "step", "finish", "exited"}]
    BY <1>1, <1>2 DEF TypeOK
  <2> QED
    BY <1>1, <1>2, <1>3, <1>7, <2>1, <2>2, <2>3 DEF TypeOK
<1>18. DisjointInv' /\ WholeInv'
  BY <1>1, <1>2, <1>3, <1>4, <1>6, <1>8, <1>11 DEF DisjointInv, WholeInv
<1>19. OnceInv'
  <2>1. \A k \in 1 .. Len(reserved) : reserved[k].env # e
    BY <1>4, <1>6, <1>7 DEF Kept
  <2>2. \A j, k \in DOMAIN reserved' : reserved'[j].env = reserved'[k].env => j = k
    <3>1. \A k \in DOMAIN reserved' : k \in 1 .. Len(reserved) \/ k = Len(reserved) + 1
      BY <1>7
    <3>2. \A j, k \in 1 .. Len(reserved) : reserved[j].env = reserved[k].env => j = k
      BY <1>1, <1>7 DEF OnceInv
    <3> QED
      BY <1>7, <2>1, <3>1, <3>2
  <2> QED
    BY <1>1, <1>2, <1>9, <2>2 DEF OnceInv, NamesOnce, EnvsOf
<1>20. FinishInv'
  <2>1. \A v \in Workers \ {w} : wpc[v] = "finish" => taken[v].env_id # e
    BY <1>1, <1>6 DEF FinishInv
  <2> QED
    BY <1>0, <1>1, <1>2, <1>4, <1>5, <1>6, <1>8, <2>1 DEF FinishInv
<1>21. SliceInv'
  BY <1>0, <1>1, <1>2, <1>4, <1>5, <1>9 DEF SliceInv, RealSlices
<1>22. AskInv'
  <2>1. /\ \A c \in Clients : \A k \in DOMAIN hands'[c] : AsksWell(hands[c][k])'
        /\ \A k \in DOMAIN pending' : AsksWell(pending[k])'
        /\ \A v \in AtWork' : AsksWell(taken[v])'
        /\ \A f \in Envs : asked'[f] \in Actions => seen'[f] # Null /\ action_'[f] = asked'[f]
    BY <1>1, <1>2, <1>3, <1>9 DEF AskInv, AsksWell
  <2>2. ASSUME NEW v \in Workers, wpc'[v] = "step"
        PROVE  reset'[v] = needsReset(v)'
    <3>1. v # w /\ wpc[v] = "step"
      BY <1>5, <2>2
    <3>2. taken[v].env_id \in Envs \ {e}
      BY <1>1, <1>9, <1>10, <3>1 DEF SliceInv, AtWork
    <3>3. reset[v] = needsReset(v)
      BY <1>1, <3>1 DEF AskInv
    <3> QED
      BY <1>2, <1>5, <3>2, <3>3 DEF needsReset
  <2> QED
    BY <2>1, <2>2 DEF AskInv
<1>23. AnswerInv'
  <2>1. Answers(e)'
    <3>1. seen[e] # Null => seen[e].done = done[e] /\ seen[e].elapsed_step = current_step_[e]
      BY <1>13 DEF Current
    <3>2. row'[e].reset = reset[w] /\ row'[e].elapsed_step = elapsed
          /\ row'[e].action = (IF reset[w] THEN Null ELSE action_[e])
      BY <1>5
    <3>3. asked'[e] = asked[e] /\ seen'[e] = seen[e]
      BY <1>3
    <3>4. CASE reset[w]
      <4>1. elapsed = 0
        BY <3>4 DEF elapsed
      <4>2. asked[e] = ForceReset \/ seen[e].done
        BY <1>12, <1>13, <3>1, <3>4
      <4> QED
        BY <3>2, <3>3, <3>4, <4>1, <4>2 DEF Answers
    <3>5. CASE ~reset[w]
      <4>1. asked[e] \in Actions /\ asked[e] # ForceReset /\ ~done[e]
        BY <1>12, <3>5
      <4>2. seen[e] # Null /\ ~seen[e].done /\ action_[e] = asked[e]
        BY <1>13, <3>1, <4>1
      <4>3. elapsed = seen[e].elapsed_step + 1
        BY <3>1, <3>5, <4>2 DEF elapsed
      <4> QED
        BY <3>2, <3>3, <3>5, <4>1, <4>2, <4>3 DEF Answers
    <3> QED
      BY <3>4, <3>5, <1>14
  <2>2. Outcome(row[e])' = Current(e)'
    BY <1>5 DEF Outcome, Current
  <2>3. \A f \in Envs \ {e} : /\ Answers(f)' <=> Answers(f)
                              /\ Current(f)' = Current(f) /\ Outcome(row[f])' = Outcome(row[f])
    BY <1>3, <1>5 DEF Answers, Outcome, Current
  <2>4. done'[e] \/ current_step_'[e] < MaxEpisode
    BY <1>5, <1>14, <1>15, <1>16
  <2>5. \A f \in Envs : done'[f] \/ current_step_'[f] < MaxEpisode
    BY <1>1, <1>5, <2>4 DEF AnswerInv
  <2>6. Kept \subseteq Envs /\ Returned \subseteq Envs
    BY DEF Kept, Returned
  <2> QED
    BY <1>1, <1>3, <1>4, <1>8, <2>1, <2>2, <2>3, <2>5, <2>6 DEF AnswerInv
<1> QED
  BY <1>3, <1>17, <1>18, <1>19, <1>20, <1>21, <1>22, <1>23 DEF IInv

LEMMA PostProcessStep ==
  ASSUME IInv, NEW w \in Workers, PostProcess(w)
  PROVE  IInv'
<1> DEFINE e == taken[w].env_id
<1>1. /\ TypeOK /\ DisjointInv /\ OnceInv /\ WholeInv /\ FinishInv /\ SliceInv /\ AskInv
      /\ AnswerInv /\ SyncInv
  BY DEF IInv
<1>2. /\ wpc[w] = "finish" /\ wpc' = [wpc EXCEPT ![w] = "dequeue"]
      /\ finished' = finished \cup {e} /\ taken' = [taken EXCEPT ![w] = Null]
      /\ reset' = [reset EXCEPT ![w] = FALSE]
      /\ UNCHANGED <<batch_, stop_, stepping_env_num_, clientVars, action_, hands, pending,
                     reserved, batch, done, current_step_, row>>
  BY DEF PostProcess, WorkerAt, Batches!Finish, FIFO!Return, envVars
<1>3. /\ SyncInv' /\ UNCHANGED <<Outstanding, Handed>>
      /\ UNCHANGED <<cpc, additional, asked, seen>>
  BY <1>1, <1>2, WorkerFrame
<1>4. e \in Kept /\ e \notin finished /\ Kept \subseteq Envs
  BY <1>1, <1>2 DEF FinishInv, Kept
<1> HIDE DEF IInv
<1>5. /\ wpc'[w] = "dequeue"
      /\ \A v \in Workers \ {w} : wpc'[v] = wpc[v] /\ taken'[v] = taken[v] /\ reset'[v] = reset[v]
  BY <1>1, <1>2 DEF TypeOK
<1>6. /\ UNCHANGED <<Queued, Kept, Returned>> /\ AtWork' = AtWork /\ w \notin AtWork
  <2>1. AtWork' = AtWork /\ w \notin AtWork
    BY <1>2, <1>5 DEF AtWork
  <2> QED
    BY <1>2, <2>1 DEF Queued, Kept, Returned, EnvsOf
<1>7. \A v \in AtWork : taken'[v] = taken[v] /\ reset'[v] = reset[v]
  BY <1>5, <1>6 DEF AtWork
<1>8. Worked' = Worked
  BY <1>6, <1>7 DEF Worked
<1>9. TypeOK'
  <2>1. /\ taken' \in [Workers -> ActionSlice \cup {Null}] /\ reset' \in [Workers -> BOOLEAN]
        /\ wpc' \in [Workers -> {"dequeue", "test", "step", "finish", "exited"}]
        /\ finished' \subseteq Envs
    BY <1>1, <1>2, <1>4 DEF TypeOK
  <2> QED
    BY <1>1, <1>2, <1>3, <2>1 DEF TypeOK
<1>10. DisjointInv' /\ WholeInv'
  BY <1>1, <1>2, <1>3, <1>6, <1>8 DEF DisjointInv, WholeInv
<1>11. OnceInv'
  BY <1>1, <1>2, <1>6, <1>7 DEF OnceInv, NamesOnce, EnvsOf
<1>12. FinishInv'
  <2>1. \A v \in Workers \ {w} : wpc[v] = "finish" => taken[v].env_id # e
    BY <1>1, <1>2 DEF FinishInv
  <2> QED
    BY <1>1, <1>2, <1>4, <1>5, <1>6, <2>1 DEF FinishInv
<1>13. SliceInv'
  <2>1. /\ \A v \in Workers : wpc'[v] # "dequeue" => taken'[v] \in ActionSlice
        /\ \A v \in Workers : wpc'[v] \in {"step", "finish"} => taken'[v].env_id \in Envs
    BY <1>1, <1>5 DEF SliceInv
  <2> QED
    BY <1>1, <1>2, <1>6, <1>7, <2>1 DEF SliceInv, RealSlices
<1>14. AskInv'
  <2>1. /\ \A c \in Clients : \A k \in DOMAIN hands'[c] : AsksWell(hands[c][k])'
        /\ \A k \in DOMAIN pending' : AsksWell(pending[k])'
        /\ \A f \in Envs : asked'[f] \in Actions => seen'[f] # Null /\ action_'[f] = asked'[f]
    BY <1>1, <1>2, <1>3 DEF AskInv, AsksWell
  <2>2. \A v \in AtWork' : AsksWell(taken[v])'
    BY <1>1, <1>3, <1>6, <1>7 DEF AskInv, AsksWell
  <2>3. \A v \in Workers : wpc'[v] = "step" => reset'[v] = needsReset(v)'
    BY <1>1, <1>2, <1>5 DEF AskInv, needsReset
  <2> QED
    BY <2>1, <2>2, <2>3 DEF AskInv
<1>15. AnswerInv'
  BY <1>1, <1>2, <1>3, <1>6 DEF AnswerInv, Answers, Outcome, Current
<1> QED
  BY <1>3, <1>9, <1>10, <1>11, <1>12, <1>13, <1>14, <1>15 DEF IInv

-----------------------------------------------------------------------------
(* The batch on its way to the client. *)

LEMMA ArrangementFacts ==
  ASSUME NEW S, NEW s \in Batches!Arrangements(S)
  PROVE  s \in [1 .. Cardinality(S) -> S] /\ \A r \in S : \E k \in DOMAIN s : s[k] = r
BY DEF Batches!Arrangements, Cardinality, Batches!Cardinality, IsFiniteSet, Batches!IsFiniteSet

\* What a Recv of n envs takes: the first n reservations, all of them finished,
\* each in one row of the batch.
LEMMA TakeFacts ==
  ASSUME TypeOK, OnceInv, NEW n, Batches!Take(n)
  PROVE  LET T == {reserved[k].env : k \in 1 .. n} IN
         /\ batch = <<>> /\ T \subseteq Kept /\ T \subseteq finished
         /\ Kept' = Kept \ T /\ Returned' = T /\ finished' = finished \ T
         /\ batch' \in Seq(Envs) /\ \A j, k \in DOMAIN batch' : batch'[j] = batch'[k] => j = k
         /\ reserved' \in Seq([env : Envs, order : {NoOrder} \cup 0 .. num_envs_ - 1])
         /\ \A j, k \in DOMAIN reserved' : reserved'[j].env = reserved'[k].env => j = k
<1> DEFINE Reservation == [env : Envs, order : {NoOrder} \cup 0 .. num_envs_ - 1]
           L == Len(reserved)
           first == {reserved[k] : k \in 1 .. n}
           T == {reserved[k].env : k \in 1 .. n}
<1>1. /\ reserved \in Seq(Reservation) /\ L \in Nat /\ DOMAIN reserved = 1 .. L
      /\ \A k \in 1 .. L : reserved[k] \in Reservation /\ reserved[k].env \in Envs
      /\ \A j, k \in 1 .. L : reserved[j].env = reserved[k].env => j = k
  <2>1. reserved \in Seq(Reservation)
    BY DEF TypeOK
  <2>2. \A r \in Reservation : r.env \in Envs
    OBVIOUS
  <2>3. \A j, k \in DOMAIN reserved : reserved[j].env = reserved[k].env => j = k
    BY DEF OnceInv
  <2> HIDE DEF Reservation
  <2> QED
    BY <2>1, <2>2, <2>3
<1> HIDE DEF Reservation
<1>2. /\ n \in 1 .. L /\ n \in Nat /\ batch = <<>> /\ \A k \in 1 .. n : k \in 1 .. L
      /\ \A k \in 1 .. n : reserved[k].env \in finished
      /\ \E s \in Batches!Arrangements(first) : batch' = [k \in 1 .. n |-> s[k].env]
      /\ finished' = finished \ T
      /\ reserved' = SubSeq(reserved, n + 1, L)
  <2>1. {r.env : r \in first} = T
    OBVIOUS
  <2>2. n \in 1 .. L /\ batch = <<>> /\ reserved' = SubSeq(reserved, n + 1, L)
    BY DEF Batches!Take, Batches!NoBatch
  <2>3. \A r \in first : r.env \in finished
    BY DEF Batches!Take
  <2>4. \E s \in Batches!Arrangements(first) : batch' = [k \in 1 .. n |-> s[k].env]
    BY DEF Batches!Take
  <2>5. finished' = finished \ {r.env : r \in first}
    BY DEF Batches!Take
  <2>6. \A k \in 1 .. n : reserved[k].env \in finished
    BY <2>3
  <2> HIDE DEF T, first, L
  <2>7. n \in Nat /\ \A k \in 1 .. n : k \in 1 .. L
    BY <1>1, <2>2
  <2> QED
    BY <2>1, <2>2, <2>4, <2>5, <2>6, <2>7
<1>3. /\ \A k \in 1 .. n : reserved[k] \in first /\ reserved[k].env \in T
      /\ \A r \in first : \E k \in 1 .. n : reserved[k] = r
      /\ \A e \in T : \E k \in 1 .. n : reserved[k].env = e
  OBVIOUS
<1> HIDE DEF T, first
<1>4. T \subseteq Envs /\ T \subseteq finished /\ T \subseteq Kept
  <2>1. \A k \in 1 .. n : k \in DOMAIN reserved /\ reserved[k].env \in Envs
    BY <1>1, <1>2
  <2> QED
    BY <1>2, <1>3, <2>1 DEF Kept
<1>5. IsFiniteSet(first) /\ Cardinality(first) = n
  <2>1. n \in Nat /\ \A j, k \in 1 .. n : reserved[j] = reserved[k] => j = k
    BY <1>1, <1>2
  <2>2. /\ \A k \in 1 .. n : reserved[k] \in first
        /\ \A r \in first : \E k \in 1 .. n : reserved[k] = r
    BY <1>3
  <2> QED
    BY <2>1, <2>2, CountInjective
<1>6. PICK s \in Batches!Arrangements(first) : batch' = [k \in 1 .. n |-> s[k].env]
  BY <1>2
<1>7. /\ \A k \in 1 .. n : s[k] \in first
      /\ \A r \in first : \E k \in 1 .. n : s[k] = r
  <2>1. /\ s \in [1 .. Cardinality(first) -> first]
        /\ \A r \in first : \E k \in DOMAIN s : s[k] = r
    BY <1>6, ArrangementFacts
  <2> QED
    BY <1>5, <2>1
<1>8. /\ batch' \in [1 .. n -> T]
      /\ \A e \in T : \E k \in 1 .. n : batch'[k] = e
  <2>1. \A k \in 1 .. n : s[k].env \in T
    BY <1>3, <1>7
  <2>2. \A e \in T : \E k \in 1 .. n : s[k].env = e
    BY <1>3, <1>7
  <2> QED
    BY <1>6, <2>1, <2>2
<1>9. IsFiniteSet(T) /\ Cardinality(T) = n
  <2> DEFINE f == [k \in 1 .. n |-> reserved[k].env]
  <2>1. /\ \A j, k \in 1 .. n : f[j] = f[k] => j = k
        /\ \A k \in 1 .. n : f[k] \in T
        /\ \A e \in T : \E k \in 1 .. n : f[k] = e
    BY <1>1, <1>2, <1>3
  <2> HIDE DEF f, T, first
  <2> QED
    BY <1>2, <2>1, CountInjective
<1>10. \A j, k \in 1 .. n : batch'[j] = batch'[k] => j = k
  <2> HIDE DEF T, first
  <2>1. batch' \in Surjection(1 .. n, T)
    BY <1>8 DEF Surjection
  <2>2. IsFiniteSet(1 .. n) /\ Cardinality(1 .. n) = n
    BY <1>2, FS_Interval
  <2>3. batch' \in Injection(1 .. n, T)
    BY <1>9, <2>1, <2>2, FS_SurjSameCardinalityImpliesInj
  <2> QED
    BY <2>3 DEF Injection, IsInjective
<1>11. /\ DOMAIN batch' = 1 .. n /\ batch' \in Seq(Envs)
       /\ Returned' = T
  <2>1. batch' \in [1 .. n -> Envs]
    BY <1>4, <1>8
  <2>2. DOMAIN batch' = 1 .. n /\ batch' \in Seq(Envs)
    BY <1>2, <2>1
  <2>3. Returned' = {e \in Envs : \E k \in 1 .. n : batch'[k] = e}
    BY <2>2 DEF Returned
  <2> HIDE DEF T
  <2> QED
    BY <1>4, <1>8, <2>2, <2>3
<1>12. /\ DOMAIN reserved' = 1 .. L - n /\ \A k \in 1 .. L - n : reserved'[k] = reserved[k + n]
       /\ reserved' \in Seq(Reservation)
  <2>1. /\ Len(reserved') = L - n
        /\ \A k \in 1 .. L - n : reserved'[k] = reserved[n + k]
    BY <1>1, <1>2
  <2>2. \A k \in 1 .. L - n : reserved'[k] \in Reservation
    <3>1. \A k \in 1 .. L - n : n + k \in 1 .. L
      BY <1>1, <1>2
    <3> HIDE DEF L
    <3> QED
      BY <1>1, <2>1, <3>1
  <2> HIDE DEF L
  <2>3. L - n \in Nat
    BY <1>1, <1>2
  <2>4. reserved' = [k \in 1 .. L - n |-> reserved[n + k]]
    BY <1>1, <1>2 DEF L
  <2> QED
    BY <1>1, <1>2, <2>1, <2>2, <2>3, <2>4
<1>13. \A j, k \in DOMAIN reserved' : reserved'[j].env = reserved'[k].env => j = k
  <2>1. \A k \in 1 .. L - n : k + n \in 1 .. L
    BY <1>1, <1>2
  <2>2. \A j, k \in 1 .. L - n : j + n = k + n => j = k
    BY <1>1, <1>2
  <2> QED
    BY <1>1, <1>12, <2>1, <2>2
<1>14. Kept' = Kept \ T
  <2>1. Kept' = {e \in Envs : \E k \in 1 .. L - n : reserved[k + n].env = e}
    BY <1>12 DEF Kept
  <2>2. \A k \in 1 .. L - n : k + n \in 1 .. L /\ k + n \notin 1 .. n
    BY <1>1, <1>2
  <2>3. \A k \in 1 .. L : k \in 1 .. n \/ (k - n \in 1 .. L - n /\ (k - n) + n = k)
    BY <1>1, <1>2
  <2>4. \A k \in 1 .. L : reserved[k].env \in T <=> k \in 1 .. n
    <3>1. /\ \A j \in 1 .. n : j \in 1 .. L
          /\ \A j, k \in 1 .. L : reserved[j].env = reserved[k].env => j = k
      BY <1>1, <1>2
    <3>2. /\ \A k \in 1 .. n : reserved[k].env \in T
          /\ \A e \in T : \E k \in 1 .. n : reserved[k].env = e
      BY <1>3
    <3> HIDE DEF L
    <3> QED
      BY <3>1, <3>2
  <2>5. Kept = {e \in Envs : \E k \in 1 .. L : reserved[k].env = e}
    BY <1>1 DEF Kept
  <2> HIDE DEF T, L
  <2> QED
    BY <2>1, <2>2, <2>3, <2>4, <2>5
<1> QED
  BY <1>2, <1>4, <1>10, <1>11, <1>12, <1>13, <1>14 DEF T, Reservation

LEMMA WaitStep ==
  ASSUME IInv, NEW c \in Clients, Wait(c)
  PROVE  IInv'
<1>1. /\ TypeOK /\ DisjointInv /\ OnceInv /\ WholeInv /\ FinishInv /\ SliceInv /\ AskInv
      /\ AnswerInv /\ SyncInv
  BY DEF IInv
<1>2. /\ cpc[c] = "wait" /\ cpc' = [cpc EXCEPT ![c] = "return"]
      /\ Batches!Take(batch_ - additional[c])
      /\ UNCHANGED <<batch_, stop_, stepping_env_num_, hands, pending, taken, wpc, reset, action_,
                     done, current_step_, row, additional, asked, seen>>
  BY DEF Wait, Goto, fifoVars, workerVars, envVars
<1>3. PICK T :
        /\ batch = <<>> /\ T \subseteq Kept /\ T \subseteq finished
        /\ Kept' = Kept \ T /\ Returned' = T /\ finished' = finished \ T
        /\ batch' \in Seq(Envs) /\ \A j, k \in DOMAIN batch' : batch'[j] = batch'[k] => j = k
        /\ reserved' \in Seq([env : Envs, order : {NoOrder} \cup 0 .. num_envs_ - 1])
        /\ \A j, k \in DOMAIN reserved' : reserved'[j].env = reserved'[k].env => j = k
  BY <1>1, <1>2, TakeFacts
<1> HIDE DEF IInv
<1>4. Returned = {}
  BY <1>3 DEF Returned
<1>5. UNCHANGED <<Handed, Queued, AtWork, Worked, Outstanding>>
  BY <1>2 DEF Handed, Queued, AtWork, Worked, Outstanding, EnvsOf
<1>6. TypeOK'
  <2>1. cpc' \in [Clients -> {"idle", "count", "enqueue", "wait", "return", "clear", "join", "gone"}]
        /\ finished' \subseteq Envs
    BY <1>1, <1>2, <1>3 DEF TypeOK
  <2> QED
    BY <1>1, <1>2, <1>3, <2>1 DEF TypeOK
<1>7. DisjointInv' /\ WholeInv'
  BY <1>1, <1>2, <1>3, <1>4, <1>5 DEF DisjointInv, WholeInv
<1>8. OnceInv'
  BY <1>1, <1>2, <1>3, <1>5 DEF OnceInv, NamesOnce, EnvsOf
<1>9. FinishInv'
  BY <1>1, <1>2, <1>3 DEF FinishInv
<1>10. SliceInv'
  BY <1>1, <1>2, <1>5 DEF SliceInv, RealSlices
<1>11. AskInv'
  BY <1>1, <1>2, <1>5 DEF AskInv, AsksWell, needsReset
<1>12. AnswerInv'
  <2>1. Kept' \cup Returned' = Kept \cup Returned
    BY <1>3, <1>4
  <2> QED
    BY <1>1, <1>2, <2>1 DEF AnswerInv, Answers, Outcome, Current
<1>13. SyncInv'
  BY <1>2, <1>5, KeepsCount
<1> QED
  BY <1>6, <1>7, <1>8, <1>9, <1>10, <1>11, <1>12, <1>13 DEF IInv

LEMMA ReturnStep ==
  ASSUME IInv, NEW c \in Clients, ReturnBatch(c)
  PROVE  IInv'
<1> DEFINE T == Range(batch)
<1>1. /\ TypeOK /\ DisjointInv /\ OnceInv /\ WholeInv /\ FinishInv /\ SliceInv /\ AskInv
      /\ AnswerInv /\ SyncInv
  BY DEF IInv
<1>2. /\ cpc[c] = "return" /\ cpc' = [cpc EXCEPT ![c] = "idle"]
      /\ batch' = <<>>
      /\ stepping_env_num_' = stepping_env_num_ - noLongerStepping
      /\ additional' = [additional EXCEPT ![c] = 0]
      /\ asked' = [e \in Envs |-> IF e \in T THEN Null ELSE asked[e]]
      /\ seen' = [e \in Envs |-> IF e \in T THEN Outcome(row[e]) ELSE seen[e]]
      /\ row' = [e \in Envs |-> IF e \in T THEN NoRow ELSE row[e]]
      /\ UNCHANGED <<batch_, stop_, hands, pending, taken, wpc, reset, action_,
                     done, current_step_, reserved, finished>>
  BY DEF ReturnBatch, Goto, Batches!Return, Batches!NoBatch, fifoVars, workerVars
<1> HIDE DEF IInv, T
<1>3. T = Returned /\ T \subseteq Envs
  <2>1. batch \in Seq(Envs)
    BY <1>1 DEF TypeOK
  <2>2. \A k \in DOMAIN batch : batch[k] \in Envs
    BY <2>1
  <2> QED
    BY <2>2 DEF T, Range, Returned
<1>4. Returned' = {}
  BY <1>2 DEF Returned
<1>5. UNCHANGED <<Handed, Queued, AtWork, Worked, Kept>>
  BY <1>2 DEF Handed, Queued, AtWork, Worked, Kept, EnvsOf
<1>6. Outstanding' = Outstanding \ T /\ T \subseteq Outstanding
  BY <1>1, <1>2, <1>3 DEF Outstanding, WholeInv
<1>7. /\ \A e \in T : asked'[e] = Null /\ seen'[e] = Outcome(row[e])
      /\ \A e \in Envs \ T : asked'[e] = asked[e] /\ seen'[e] = seen[e] /\ row'[e] = row[e]
      /\ \A e \in T : Outcome(row[e]) = Current(e)
  BY <1>1, <1>2, <1>3 DEF AnswerInv
<1>8. Cardinality(Outstanding') = Cardinality(Outstanding) - Len(batch)
  <2>1. /\ Len(batch) \in Nat /\ DOMAIN batch = 1 .. Len(batch)
        /\ \A j, k \in 1 .. Len(batch) : batch[j] = batch[k] => j = k
    BY <1>1 DEF TypeOK, OnceInv
  <2>2. /\ \A k \in 1 .. Len(batch) : batch[k] \in T
        /\ \A e \in T : \E k \in 1 .. Len(batch) : batch[k] = e
    BY <2>1 DEF T, Range
  <2>3. Cardinality(T) = Len(batch)
    BY <2>1, <2>2, CountInjective
  <2>4. Outstanding \in SUBSET Envs
    BY DEF Outstanding
  <2> QED
    BY <1>6, <2>3, <2>4, CountWithout
<1>9. SyncInv' /\ stepping_env_num_' \in 0 .. num_envs_
  <2>1. is_sync_' = is_sync_ /\ stepping_env_num_ \in 0 .. num_envs_ /\ DOMAIN cpc = Clients
    BY <1>1, <1>2 DEF is_sync_, TypeOK
  <2>2. cpc'[c] = "idle" /\ \A d \in Clients \ {c} : cpc'[d] = cpc[d]
    BY <1>2, <2>1
  <2>3. CASE ~is_sync_
    <3>1. noLongerStepping = 0 /\ stepping_env_num_ = 0
      BY <1>1, <2>3 DEF noLongerStepping, SyncInv
    <3>2. stepping_env_num_' = 0
      BY <1>2, <3>1
    <3>3. \A d \in Clients : cpc'[d] # "count"
      BY <1>1, <2>2, <2>3 DEF SyncInv
    <3>4. num_envs_ \in Nat
      BY PoolAssumption, FS_CardinalityType
    <3> QED
      BY <2>1, <2>3, <3>2, <3>3, <3>4 DEF SyncInv
  <2>4. CASE is_sync_
    <3>1. \A d \in Clients \ {c} : cpc[d] = "idle" /\ cpc'[d] = "idle"
      BY <1>1, <1>2, <2>2, <2>4 DEF SyncInv
    <3>2. stepping_env_num_ = Cardinality(Outstanding) /\ noLongerStepping = Len(batch)
      BY <1>1, <1>2, <2>4, <3>1 DEF SyncInv, noLongerStepping
    <3>3. stepping_env_num_' = Cardinality(Outstanding')
      BY <1>2, <1>8, <3>2
    <3>4. Outstanding' \in SUBSET Envs
      BY DEF Outstanding
    <3>5. Cardinality(Outstanding') \in 0 .. num_envs_
      BY <3>4, FiniteEnvs
    <3> QED
      BY <2>1, <2>2, <2>4, <3>1, <3>3, <3>5 DEF SyncInv
  <2> QED
    BY <2>3, <2>4
<1>10. TypeOK'
  <2>1. num_envs_ \in Nat
    BY PoolAssumption, FS_CardinalityType
  <2>2. /\ additional' \in [Clients -> 0 .. batch_] /\ batch' \in Seq(Envs)
        /\ cpc' \in [Clients -> {"idle", "count", "enqueue", "wait", "return", "clear", "join",
                                 "gone"}]
    BY <1>1, <1>2, <2>1 DEF TypeOK
  <2>3. /\ asked' \in [Envs -> Actions \cup {ForceReset, Null}]
        /\ row' \in [Envs -> RowType]
        /\ seen' \in [Envs -> [elapsed_step : Int, done : BOOLEAN] \cup {Null}]
    <3>1. \A e \in Envs : Outcome(row[e]) \in [elapsed_step : Int, done : BOOLEAN]
      BY <1>1 DEF TypeOK, RowType, Outcome
    <3>2. NoRow \in RowType
      BY DEF NoRow, RowType
    <3> QED
      BY <1>1, <1>2, <3>1, <3>2 DEF TypeOK
  <2> QED
    BY <1>1, <1>2, <1>9, <2>2, <2>3 DEF TypeOK
<1>11. DisjointInv' /\ WholeInv'
  BY <1>1, <1>2, <1>3, <1>4, <1>5, <1>6 DEF DisjointInv, WholeInv
<1>12. OnceInv'
  BY <1>1, <1>2, <1>5 DEF OnceInv, NamesOnce, EnvsOf
<1>13. FinishInv'
  BY <1>1, <1>2, <1>5 DEF FinishInv
<1>14. SliceInv'
  BY <1>1, <1>2, <1>5 DEF SliceInv, RealSlices
<1>15. AskInv'
  <2>1. \A slice : slice.env_id \notin T /\ AsksWell(slice) =>
          (slice.env_id \in Envs => slice.force_reset = (asked'[slice.env_id] = ForceReset))
    BY <1>7 DEF AsksWell
  <2>2. T \cap (Handed \cup Queued \cup Worked) = {}
    BY <1>1, <1>3 DEF DisjointInv
  <2>3. \A d \in Clients : \A k \in DOMAIN hands'[d] : AsksWell(hands[d][k])'
    <3> SUFFICES ASSUME NEW d \in Clients, NEW k \in DOMAIN hands'[d]
                 PROVE  AsksWell(hands[d][k])'
      OBVIOUS
    <3>1. AsksWell(hands[d][k]) /\ hands[d][k].env_id \notin T
      BY <1>1, <1>2, <1>3, <2>2 DEF AskInv, Handed, EnvsOf
    <3> QED
      BY <1>2, <2>1, <3>1 DEF AsksWell
  <2>4. \A k \in DOMAIN pending' : AsksWell(pending[k])'
    <3> SUFFICES ASSUME NEW k \in DOMAIN pending' PROVE AsksWell(pending[k])'
      OBVIOUS
    <3>1. AsksWell(pending[k]) /\ pending[k].env_id \notin T
      BY <1>1, <1>2, <1>3, <2>2 DEF AskInv, Queued, EnvsOf
    <3> QED
      BY <1>2, <2>1, <3>1 DEF AsksWell
  <2>5. \A w \in AtWork : AsksWell(taken[w])'
    <3> SUFFICES ASSUME NEW w \in AtWork PROVE AsksWell(taken[w])'
      OBVIOUS
    <3>1. AsksWell(taken[w]) /\ taken[w].env_id \notin T
      BY <1>1, <1>3, <2>2 DEF AskInv, Worked
    <3> QED
      BY <1>2, <2>1, <3>1 DEF AsksWell
  <2>6. \A e \in Envs : asked'[e] \in Actions => seen'[e] # Null /\ action_'[e] = asked'[e]
    <3>1. Null \notin Actions
      BY PoolAssumption
    <3> QED
      BY <1>1, <1>2, <1>7, <3>1 DEF AskInv
  <2>7. \A w \in Workers : wpc'[w] = "step" => reset'[w] = needsReset(w)'
    BY <1>1, <1>2 DEF AskInv, needsReset
  <2> QED
    BY <1>5, <2>3, <2>4, <2>5, <2>6, <2>7 DEF AskInv
<1>16. AnswerInv'
  <2>1. Kept \cap T = {} /\ Kept \subseteq Envs
    BY <1>1, <1>3 DEF DisjointInv, Kept
  <2>2. \A e \in Kept : Answers(e)' /\ Outcome(row[e])' = Current(e)'
    BY <1>1, <1>2, <1>7, <2>1 DEF AnswerInv, Answers, Outcome, Current
  <2>3. \A e \in Envs : Current(e)' = Current(e)
    BY <1>2 DEF Current
  <2>4. \A e \in Envs \ Kept : seen'[e] # Null => seen'[e] = Current(e)
    BY <1>1, <1>3, <1>7 DEF AnswerInv
  <2>5. \A e \in Envs : done'[e] \/ current_step_'[e] < MaxEpisode
    BY <1>1, <1>2 DEF AnswerInv
  <2> QED
    BY <1>4, <1>5, <2>2, <2>3, <2>4, <2>5 DEF AnswerInv
<1> QED
  BY <1>9, <1>10, <1>11, <1>12, <1>13, <1>14, <1>15, <1>16 DEF IInv

-----------------------------------------------------------------------------
(* The destructor hands over slices without an env. *)

LEMMA DestroyStep ==
  ASSUME IInv, NEW c \in Clients, Destroy(c)
  PROVE  IInv'
<1>1. /\ TypeOK /\ DisjointInv /\ OnceInv /\ WholeInv /\ FinishInv /\ SliceInv /\ AskInv
      /\ AnswerInv /\ SyncInv
  BY DEF IInv
<1> DEFINE s == [k \in 1 .. stopSlices |-> EmptySlice]
<1>2. /\ cpc[c] = "idle" /\ cpc' = [cpc EXCEPT ![c] = "clear"] /\ stop_' = TRUE
      /\ hands[c] = <<>> /\ hands' = [hands EXCEPT ![c] = s]
      /\ \A d \in Clients : cpc[d] = "idle"
      /\ UNCHANGED <<batch_, stepping_env_num_, pending, taken, reserved, finished, batch, wpc,
                     reset, action_, done, current_step_, row, additional, asked, seen>>
  BY DEF Destroy, InUse, Goto, FIFO!Call, batchVars, workerVars, envVars
<1>3. /\ s \in Seq(ActionSlice) /\ \A k \in DOMAIN s : s[k] = EmptySlice
  <2>1. stopSlices \in Nat
    BY PoolAssumption, FS_CardinalityType DEF stopSlices
  <2>2. 0 \in 0 .. num_envs_ - 1
    <3>1. num_envs_ \in Nat /\ batch_ \in 1 .. num_envs_
      BY <1>1, PoolAssumption, FS_CardinalityType DEF TypeOK
    <3> QED
      BY <3>1
  <2>3. EmptySlice \in ActionSlice
    BY <2>2 DEF EmptySlice, ActionSlice
  <2> QED
    BY <2>1, <2>3
<1>4. EmptySlice.env_id = Null /\ Null \notin Envs
  BY PoolAssumption DEF EmptySlice
<1> HIDE DEF s, IInv
<1>5. EnvsOf(s) = {} /\ NamesOnce(s) /\ \A k \in DOMAIN s : s[k].env_id \notin Envs
  BY <1>3, <1>4 DEF EnvsOf, NamesOnce
<1>6. /\ hands'[c] = s /\ \A d \in Clients \ {c} : hands'[d] = hands[d]
      /\ EnvsOf(hands[c]) = {}
  <2>1. DOMAIN hands[c] = {}
    BY <1>2
  <2> QED
    BY <1>1, <1>2, <2>1 DEF TypeOK, EnvsOf
<1>7. \A d \in Clients : EnvsOf(hands'[d]) = EnvsOf(hands[d])
  BY <1>5, <1>6
<1>8. UNCHANGED <<Handed, Queued, AtWork, Worked, Kept, Returned, Outstanding>>
  <2>1. Handed' = {e \in Envs : \E d \in Clients : e \in EnvsOf(hands'[d])}
    BY DEF Handed, EnvsOf
  <2>2. Handed' = Handed
    BY <1>7, <2>1 DEF Handed
  <2> QED
    BY <1>2, <2>2 DEF Queued, AtWork, Worked, Kept, Returned, Outstanding, EnvsOf
<1>9. TypeOK'
  <2>1. hands' \in [Clients -> Seq(ActionSlice)]
    BY <1>1, <1>2, <1>3 DEF TypeOK
  <2> QED
    BY <1>1, <1>2, <2>1 DEF TypeOK
<1>10. DisjointInv' /\ WholeInv'
  BY <1>1, <1>2, <1>8 DEF DisjointInv, WholeInv
<1>11. OnceInv'
  <2>1. \A d \in Clients : NamesOnce(hands'[d])
    BY <1>1, <1>5, <1>6 DEF OnceInv
  <2>2. \A d, e \in Clients : d # e => EnvsOf(hands'[d]) \cap EnvsOf(hands'[e]) = {}
    BY <1>1, <1>7 DEF OnceInv
  <2> QED
    BY <1>1, <1>2, <1>8, <2>1, <2>2 DEF OnceInv, NamesOnce, EnvsOf
<1>12. FinishInv'
  BY <1>1, <1>2, <1>8 DEF FinishInv
<1>13. SliceInv'
  BY <1>1, <1>2 DEF SliceInv
<1>14. AskInv'
  <2>1. \A d \in Clients : \A k \in DOMAIN hands'[d] : AsksWell(hands[d][k])'
    <3> SUFFICES ASSUME NEW d \in Clients, NEW k \in DOMAIN hands'[d]
                 PROVE  AsksWell(hands[d][k])'
      OBVIOUS
    <3>1. CASE d = c
      BY <1>5, <1>6, <3>1 DEF AsksWell
    <3>2. CASE d # c
      BY <1>1, <1>2, <1>6, <3>2 DEF AskInv, AsksWell
    <3> QED
      BY <3>1, <3>2
  <2> QED
    BY <1>1, <1>2, <1>8, <2>1 DEF AskInv, AsksWell, needsReset
<1>15. AnswerInv'
  BY <1>1, <1>2, <1>8 DEF AnswerInv, Answers, Outcome, Current
<1>16. SyncInv'
  BY <1>2, <1>8, KeepsCount
<1> QED
  BY <1>9, <1>10, <1>11, <1>12, <1>13, <1>14, <1>15, <1>16 DEF IInv

-----------------------------------------------------------------------------
(* The invariant is inductive. *)

LEMMA InitInv == Init => IInv
<1> SUFFICES ASSUME Init PROVE IInv
  OBVIOUS
<1>1. /\ batch_ \in 1 .. num_envs_ /\ stop_ = FALSE /\ stepping_env_num_ = 0
      /\ hands = [c \in Clients |-> <<>>] /\ pending = <<>> /\ taken = [w \in Workers |-> Null]
      /\ reserved = <<>> /\ finished = {} /\ batch = <<>>
      /\ wpc = [w \in Workers |-> "dequeue"] /\ reset = [w \in Workers |-> FALSE]
      /\ action_ = [e \in Envs |-> Null] /\ done \in [Envs -> BOOLEAN]
      /\ current_step_ = [e \in Envs |-> -1] /\ row = [e \in Envs |-> NoRow]
      /\ cpc = [c \in Clients |-> "idle"] /\ additional = [c \in Clients |-> 0]
      /\ asked = [e \in Envs |-> Null] /\ seen = [e \in Envs |-> Null]
  BY DEF Init, FIFO!Init, Batches!Init, Batches!NoBatch
<1>2. num_envs_ \in Nat /\ MaxEpisode \in Nat \ {0}
  BY PoolAssumption, FS_CardinalityType
<1>3. \A c \in Clients : DOMAIN hands[c] = {}
  BY <1>1
<1>4. /\ Outstanding = {} /\ Handed = {} /\ Queued = {} /\ AtWork = {} /\ Worked = {}
      /\ Kept = {} /\ Returned = {}
  BY <1>1, <1>3 DEF Outstanding, Handed, Queued, AtWork, Worked, Kept, Returned, EnvsOf
<1>5. TypeOK
  <2>1. NoRow \in RowType
    BY DEF NoRow, RowType
  <2>2. /\ hands \in [Clients -> Seq(ActionSlice)] /\ pending \in Seq(ActionSlice)
        /\ reserved \in Seq([env : Envs, order : {NoOrder} \cup 0 .. num_envs_ - 1])
        /\ batch \in Seq(Envs)
    BY <1>1
  <2>3. /\ -1 \in -1 .. MaxEpisode /\ 0 \in 0 .. num_envs_ /\ 0 \in 0 .. batch_
    BY <1>1, <1>2
  <2>4. /\ current_step_ \in [Envs -> -1 .. MaxEpisode] /\ row \in [Envs -> RowType]
        /\ additional \in [Clients -> 0 .. batch_]
    BY <1>1, <2>1, <2>3
  <2> QED
    BY <1>1, <2>2, <2>3, <2>4 DEF TypeOK
<1>6. DisjointInv /\ WholeInv
  BY <1>4 DEF DisjointInv, WholeInv
<1>7. OnceInv
  BY <1>1, <1>3, <1>4 DEF OnceInv, NamesOnce, EnvsOf
<1>8. FinishInv /\ SliceInv
  BY <1>1, <1>3, <1>4 DEF FinishInv, SliceInv, RealSlices
<1>9. AskInv
  <2>1. Null \notin Actions
    BY PoolAssumption
  <2> QED
    BY <1>1, <1>3, <1>4, <2>1 DEF AskInv
<1>10. AnswerInv
  BY <1>1, <1>2, <1>4 DEF AnswerInv
<1>11. SyncInv
  <2>1. Cardinality(Outstanding) = 0
    BY <1>4, FS_EmptySet
  <2> QED
    BY <1>1, <2>1 DEF SyncInv
<1> QED
  BY <1>5, <1>6, <1>7, <1>8, <1>9, <1>10, <1>11 DEF IInv

LEMMA StepInv == IInv /\ [Next]_vars => IInv'
<1> SUFFICES ASSUME IInv, [Next]_vars PROVE IInv'
  OBVIOUS
<1>1. CASE UNCHANGED vars
  <2>1. /\ UNCHANGED <<batch_, stepping_env_num_, cpc, additional, stop_, fifoVars, batchVars,
                       workerVars, action_, envVars, asked, seen>>
    BY <1>1 DEF vars, clientVars
  <2>2. /\ DisjointInv' /\ OnceInv' /\ WholeInv' /\ FinishInv' /\ SliceInv' /\ AskInv'
        /\ AnswerInv' /\ Outstanding' = Outstanding
    BY <2>1, CallFrame
  <2>3. TypeOK'
    BY <2>1 DEF IInv, TypeOK, fifoVars, batchVars, workerVars, envVars
  <2>4. SyncInv'
    BY <2>1, <2>2 DEF IInv, SyncInv, is_sync_, fifoVars
  <2> QED
    BY <2>2, <2>3, <2>4 DEF IInv
<1>2. ASSUME NEW c \in Clients, Send(c) \/ Reset(c) \/ Recv(c) \/ Destroy(c)
      PROVE  IInv'
  BY <1>2, SendStep, ResetStep, RecvStep, DestroyStep
<1>3. ASSUME NEW c \in Clients, InCall(c)
      PROVE  IInv'
  BY <1>3, CountSteppingStep, EnqueueStep, WaitStep, ReturnStep, JoinStep DEF InCall
<1>4. ASSUME NEW w \in Workers, WorkerStep(w)
      PROVE  IInv'
  BY <1>4, DequeueStep, TestStep, EnvStepStep, PostProcessStep DEF WorkerStep
<1> QED
  BY <1>1, <1>2, <1>3, <1>4 DEF Next

THEOREM Invariance == Spec => []IInv
BY InitInv, StepInv, PTL DEF Spec

-----------------------------------------------------------------------------
(* The results. *)

\* The pool's variables keep their types, and the number of stepping envs is
\* never negative nor larger than the number of envs (lines 75 and 173), however
\* clients and workers interleave.
THEOREM TypeCorrect == Spec => []TypeOK
<1>1. IInv => TypeOK
  BY DEF IInv
<1> QED
  BY <1>1, Invariance, PTL

\* No two workers ever run the same env: its members need no lock (the loop
\* of the workers, lines 118-129).
THEOREM OneWorkerPerEnvCorrect == Spec => []OneWorkerPerEnv
<1>1. ASSUME IInv, NEW v \in Workers, NEW w \in Workers, v # w,
             wpc[v] \in {"step", "finish"}, wpc[w] \in {"step", "finish"}
      PROVE  taken[v].env_id # taken[w].env_id
  <2>1. /\ OnceInv /\ DisjointInv /\ FinishInv
        /\ taken[v].env_id \in Envs /\ taken[w].env_id \in Envs
    BY <1>1 DEF IInv, SliceInv
  <2>2. \A u \in Workers : wpc[u] = "step" /\ taken[u].env_id \in Envs
                             => u \in AtWork /\ taken[u].env_id \in Worked
    BY DEF AtWork, Worked
  <2>3. \A u \in Workers : wpc[u] = "finish" => taken[u].env_id \in Kept
    BY <2>1 DEF FinishInv
  <2>4. CASE wpc[v] = "step" /\ wpc[w] = "step"
    BY <1>1, <2>1, <2>2, <2>4, PoolAssumption DEF OnceInv
  <2>5. CASE wpc[v] = "finish" /\ wpc[w] = "finish"
    BY <1>1, <2>1, <2>5 DEF FinishInv
  <2>6. CASE wpc[v] # wpc[w]
    BY <1>1, <2>1, <2>2, <2>3, <2>6 DEF DisjointInv
  <2> QED
    BY <1>1, <2>4, <2>5, <2>6
<1>2. IInv => OneWorkerPerEnv
  BY <1>1 DEF OneWorkerPerEnv
<1> QED
  BY <1>2, Invariance, PTL

\* Whatever the workers do meanwhile, every row Recv returns answers what was
\* last asked of its env, with the action that was sent with it (lines 67 and
\* 118-129, env.h:162-172).
THEOREM AnswersMatchCorrect == Spec => []AnswersMatch
<1>1. ASSUME IInv, NEW e \in Range(batch)
      PROVE  asked[e] # Null /\ Answers(e)
  <2>1. batch \in Seq(Envs)
    BY <1>1 DEF IInv, TypeOK
  <2>2. e \in Returned
    BY <2>1 DEF Range, Returned
  <2> QED
    BY <1>1, <2>2 DEF IInv, WholeInv, AnswerInv, Outstanding
<1>2. IInv => AnswersMatch
  BY <1>1 DEF AnswersMatch, Answers
<1> QED
  BY <1>2, Invariance, PTL

\* A set of at most one element.
LEMMA OneOrNone ==
  ASSUME NEW S, \A x, y \in S : x = y
  PROVE  Cardinality(S) = IF S = {} THEN 0 ELSE 1
<1>1. CASE S = {}
  BY <1>1, FS_EmptySet
<1>2. CASE S # {}
  <2>1. PICK x \in S : TRUE
    BY <1>2
  <2>2. S = {x}
    BY <2>1
  <2> QED
    BY <1>2, <2>2, FS_Singleton
<1> QED
  BY <1>1, <1>2

\* Until the pool is destroyed, an env with an action is in exactly one place
\* on its way from Send to Recv, and any other env in none: between the two
\* queues and the workers no action is lost or carried out twice.
THEOREM NothingLostCorrect == Spec => []NothingLost
<1>1. ASSUME IInv, ~stop_, NEW e \in Envs
      PROVE  places(e) = IF asked[e] = Null THEN 0 ELSE 1
  <2> DEFINE P == {k \in DOMAIN pending : pending[k].env_id = e}
             R == {k \in DOMAIN reserved : reserved[k].env = e}
             B == {k \in DOMAIN batch : batch[k] = e}
  <2>1. TypeOK /\ OnceInv /\ DisjointInv /\ WholeInv /\ e # Null
    BY <1>1, PoolAssumption DEF IInv
  <2>2. \A c \in Clients : Names(hands[c], e) > 0 <=> e \in EnvsOf(hands[c])
    <3> SUFFICES ASSUME NEW c \in Clients
                 PROVE  Names(hands[c], e) > 0 <=> e \in EnvsOf(hands[c])
      OBVIOUS
    <3> DEFINE K == {k \in DOMAIN hands[c] : hands[c][k].env_id = e}
    <3>1. \A j, k \in K : j = k
      BY <2>1 DEF OnceInv, NamesOnce
    <3>2. K # {} <=> e \in EnvsOf(hands[c])
      BY DEF EnvsOf
    <3>3. Names(hands[c], e) = Cardinality(K)
      BY DEF Names
    <3> HIDE DEF K
    <3> QED
      BY <3>1, <3>2, <3>3, OneOrNone
  <2>3. Cardinality(InHands(e)) = IF e \in Handed THEN 1 ELSE 0
    <3>1. \A c, d \in InHands(e) : c = d
      BY <2>1, <2>2 DEF InHands, OnceInv
    <3>2. InHands(e) # {} <=> e \in Handed
      BY <2>2 DEF InHands, Handed
    <3> QED
      BY <3>1, <3>2, OneOrNone
  <2>4. Names(pending, e) = IF e \in Queued THEN 1 ELSE 0
    <3>1. \A j, k \in P : j = k
      BY <2>1 DEF OnceInv, NamesOnce
    <3>2. P # {} <=> e \in Queued
      BY DEF Queued, EnvsOf
    <3>3. Names(pending, e) = Cardinality(P)
      BY DEF Names
    <3> HIDE DEF P
    <3> QED
      BY <3>1, <3>2, <3>3, OneOrNone
  <2>5. Cardinality(InWork(e)) = IF e \in Worked THEN 1 ELSE 0
    <3>1. InWork(e) = {w \in AtWork : taken[w].env_id = e}
      BY DEF InWork, AtWork
    <3>2. \A v, w \in InWork(e) : v = w
      BY <2>1, <3>1 DEF OnceInv
    <3>3. InWork(e) # {} <=> e \in Worked
      BY <3>1 DEF Worked
    <3> QED
      BY <3>2, <3>3, OneOrNone
  <2>6. Cardinality(R) = IF e \in Kept THEN 1 ELSE 0
    <3>1. \A j, k \in R : j = k
      BY <2>1 DEF OnceInv
    <3>2. R # {} <=> e \in Kept
      BY DEF Kept
    <3> HIDE DEF R
    <3> QED
      BY <3>1, <3>2, OneOrNone
  <2>7. Cardinality(B) = IF e \in Returned THEN 1 ELSE 0
    <3>1. \A j, k \in B : j = k
      BY <2>1 DEF OnceInv
    <3>2. B # {} <=> e \in Returned
      BY DEF Returned
    <3> HIDE DEF B
    <3> QED
      BY <3>1, <3>2, OneOrNone
  <2>8. places(e) = Cardinality(InHands(e)) + Names(pending, e) + Cardinality(InWork(e))
                      + Cardinality(R) + Cardinality(B)
    BY DEF places
  <2>9. /\ asked[e] = Null => e \notin Handed \cup Queued \cup Worked \cup Kept \cup Returned
        /\ asked[e] # Null => e \in Handed \cup Queued \cup Worked \cup Kept \cup Returned
    BY <1>1, <2>1 DEF WholeInv, Outstanding
  <2>10. /\ e \in Handed => e \notin Queued \cup Worked \cup Kept \cup Returned
         /\ e \in Queued => e \notin Worked \cup Kept \cup Returned
         /\ e \in Worked => e \notin Kept \cup Returned
         /\ e \in Kept => e \notin Returned
    BY <2>1 DEF DisjointInv
  <2> HIDE DEF P, R, B
  <2> QED
    BY <2>3, <2>4, <2>5, <2>6, <2>7, <2>8, <2>9, <2>10
<1>2. IInv => NothingLost
  BY <1>1 DEF NothingLost
<1> QED
  BY <1>2, Invariance, PTL

\* Between the calls of a sync client the count from which Recv computes how
\* many envs are missing is the number of envs with an action (lines 75,
\* 165-166 and 173).
THEOREM SteppingCountCorrect == Spec => []SteppingCount
<1>1. IInv => SteppingCount
  BY DEF IInv, SyncInv, SteppingCount, InUse
<1> QED
  BY <1>1, Invariance, PTL
=============================================================================
