---------------------------- MODULE AsyncLitePool ----------------------------
(***************************************************************************)
(* core/async_litepool.h with the Env of core/env.h: clients call Send,    *)
(* Reset and Recv, workers run the envs, and the destructor stops them.    *)
(*                                                                         *)
(* The two queues between clients and workers are what their own modules   *)
(* show them to be: ActionFIFO (implemented by ActionBufferQueue) and      *)
(* BatchQueue (implemented by StateBufferQueue).                           *)
(*                                                                         *)
(* Clients keep the discipline the pool is written for: an env gets a new  *)
(* action only after its last answer was returned, and is reset before its *)
(* first action; one thread at a time is in Recv; in sync mode the calls   *)
(* follow each other, and one Recv follows each Send or Reset.             *)
(***************************************************************************)
EXTENDS Integers, Sequences, FiniteSets, SequencesExt

CONSTANTS Clients, Workers, Envs,
          num_envs_,
          max_num_players_,
          Actions,          \* what an action may be
          Null,             \* no env, no action
          Destroys,         \* whether a client may run the destructor
          MaxEpisode        \* bound on current_step_: the env is done by then

\* What a client asks for by a call of Reset.
ForceReset == "reset"

ASSUME PoolAssumption ==
  /\ IsFiniteSet(Envs) /\ num_envs_ = Cardinality(Envs)
  /\ max_num_players_ \in Nat \ {0}
  /\ IsFiniteSet(Workers) /\ Clients \cap Workers = {}
  /\ Null \notin Envs \cup Actions \cup {ForceReset} /\ ForceReset \notin Actions
  /\ Destroys \in BOOLEAN /\ MaxEpisode \in Nat \ {0}

NoOrder == -1

VARIABLES batch_,        \* the batch size the pool was constructed with
          stop_, stepping_env_num_,
          hands, pending, taken,      \* action_buffer_queue_
          reserved, finished, batch,  \* state_buffer_queue_
          wpc,           \* where each worker is in its loop
          reset,         \* reset[w]: the local reset of the loop
          action_,       \* action_[e]: the action set in env e
          done,          \* done[e]: IsDone of env e
          current_step_,
          row,           \* row[e]: what env e wrote into its slice
          cpc,           \* where each client is
          additional,    \* additional[c]: the local additional_wait of Recv
          asked,         \* asked[e]: the action of e that has no answer yet
          seen           \* seen[e]: the outcome in the last row of e that Recv returned

is_sync_ == batch_ = num_envs_ /\ max_num_players_ = 1

fifoVars == <<hands, pending, taken>>
batchVars == <<reserved, finished, batch>>
workerVars == <<wpc, reset>>
envVars == <<done, current_step_, row>>
clientVars == <<cpc, additional, asked, seen>>
vars == <<batch_, stop_, stepping_env_num_, fifoVars, batchVars, workerVars, action_, envVars,
          clientVars>>

ActionSlice ==
  [env_id : Envs \cup {Null}, order : {NoOrder} \cup 0 .. num_envs_ - 1, force_reset : BOOLEAN]

FIFO == INSTANCE ActionFIFO WITH
  Envs <- ActionSlice, None <- Null
Batches == INSTANCE BatchQueue

NoRow == [reset |-> TRUE, action |-> Null, elapsed_step |-> -1, done |-> FALSE]

Init ==
  /\ batch_ \in 1 .. num_envs_
  /\ stop_ = FALSE /\ stepping_env_num_ = 0
  /\ FIFO!Init /\ Batches!Init
  /\ wpc = [w \in Workers |-> "dequeue"]
  /\ reset = [w \in Workers |-> FALSE]
  /\ action_ = [e \in Envs |-> Null]
  /\ done \in [Envs -> BOOLEAN]  \* RlTraderEnv starts as done, DummyEnv does not
  /\ current_step_ = [e \in Envs |-> -1]
  /\ row = [e \in Envs |-> NoRow]
  /\ cpc = [c \in Clients |-> "idle"]
  /\ additional = [c \in Clients |-> 0]
  /\ asked = [e \in Envs |-> Null]
  /\ seen = [e \in Envs |-> Null]

Outstanding == {e \in Envs : asked[e] # Null}

-----------------------------------------------------------------------------
(* Send and Reset *)

Goto(c, from, to) ==
  /\ cpc[c] = from
  /\ cpc' = [cpc EXCEPT ![c] = to]
  /\ UNCHANGED batch_

InUse == \E c \in Clients : cpc[c] # "idle"

\* The env ids the discipline lets a client pass to Send or Reset: some of S.
Batch(S) == SetToAllKPermutations(S \ Outstanding) \ {<<>>}
MaySubmit == ~stop_ /\ (is_sync_ => ~InUse /\ Outstanding = {})

\* Mutant (see the README): the index is not advanced.
SlicesOfFirst(ids, force) ==
  [k \in DOMAIN ids |-> [env_id |-> ids[1], order |-> NoOrder, force_reset |-> force]]

\* The slice of each env, numbered in sync mode.
Slices(ids, force) ==
  [k \in DOMAIN ids |->
     [env_id |-> ids[k], order |-> IF is_sync_ THEN k - 1 ELSE NoOrder,
      force_reset |-> force]]

\* SendImpl up to the count: SetAction and the slice of each env.
Send(c) ==
  /\ cpc[c] = "idle" /\ MaySubmit
  /\ \E ids \in Batch({e \in Envs : seen[e] # Null}) : \E a \in [Range(ids) -> Actions] :
       /\ Goto(c, "idle", IF is_sync_ THEN "count" ELSE "enqueue")
       /\ hands' = [hands EXCEPT ![c] = Slices(ids, FALSE)] /\ FIFO!Call(c)
       /\ action_' = [e \in Envs |-> IF e \in Range(ids) THEN a[e] ELSE action_[e]]
       /\ asked' = [e \in Envs |-> IF e \in Range(ids) THEN a[e] ELSE asked[e]]
       /\ UNCHANGED <<stop_, stepping_env_num_, batchVars, workerVars, envVars, additional,
                      seen>>

Reset(c) ==
  /\ cpc[c] = "idle" /\ MaySubmit
  /\ \E ids \in Batch(Envs) :
       /\ Goto(c, "idle", IF is_sync_ THEN "count" ELSE "enqueue")
       /\ hands' = [hands EXCEPT ![c] = Slices(ids, TRUE)] /\ FIFO!Call(c)
       /\ asked' = [e \in Envs |-> IF e \in Range(ids) THEN ForceReset ELSE asked[e]]
       /\ UNCHANGED <<stop_, stepping_env_num_, batchVars, workerVars, action_, envVars,
                      additional, seen>>

\* Sync mode only.
CountStepping(c) ==
  /\ Goto(c, "count", "enqueue")
  /\ stepping_env_num_' = stepping_env_num_ + Len(hands[c])
  /\ UNCHANGED <<stop_, fifoVars, batchVars, workerVars, action_, envVars, additional, asked,
                 seen>>

Enqueue(c) ==
  /\ Goto(c, "enqueue", "idle")
  /\ FIFO!Publish(c)
  /\ UNCHANGED <<stop_, stepping_env_num_, batchVars, workerVars, action_, envVars,
                 additional, asked, seen>>

-----------------------------------------------------------------------------
(* Recv *)

\* Mutants (see the README).
NoneMissing == 0
NotCounted == 0

\* The envs that Recv does not wait for.
additional_wait ==
  IF is_sync_ /\ stepping_env_num_ < batch_ THEN batch_ - stepping_env_num_ ELSE 0

\* The envs that stop stepping when the batch is returned.
noLongerStepping == IF is_sync_ THEN Len(batch) ELSE 0

InRecv(c) == cpc[c] \in {"wait", "return"}

Recv(c) ==
  /\ ~stop_ /\ \A d \in Clients : ~InRecv(d)
  /\ is_sync_ => ~InUse /\ Outstanding # {}
  /\ Goto(c, "idle", "wait")
  /\ additional' = [additional EXCEPT ![c] = additional_wait]
  /\ UNCHANGED <<stop_, stepping_env_num_, fifoVars, batchVars, workerVars, action_, envVars,
                 asked, seen>>

Wait(c) ==
  /\ Goto(c, "wait", "return")
  /\ Batches!Take(batch_ - additional[c])
  /\ UNCHANGED <<stop_, stepping_env_num_, fifoVars, workerVars, action_, envVars,
                 additional, asked, seen>>

\* What the client remembers of a row.
Outcome(r) == [elapsed_step |-> r.elapsed_step, done |-> r.done]

\* The count, and the return of the batch to the caller.
ReturnBatch(c) ==
  /\ Goto(c, "return", "idle")
  /\ Batches!Return
  /\ stepping_env_num_' = stepping_env_num_ - noLongerStepping
  /\ additional' = [additional EXCEPT ![c] = 0]
  /\ asked' = [e \in Envs |-> IF e \in Range(batch) THEN Null ELSE asked[e]]
  /\ seen' = [e \in Envs |-> IF e \in Range(batch) THEN Outcome(row[e]) ELSE seen[e]]
  /\ row' = [e \in Envs |-> IF e \in Range(batch) THEN NoRow ELSE row[e]]
  /\ UNCHANGED <<stop_, fifoVars, workerVars, action_, done, current_step_>>

-----------------------------------------------------------------------------
(* The workers *)

WorkerAt(w, from, to) ==
  /\ wpc[w] = from
  /\ wpc' = [wpc EXCEPT ![w] = to]
  /\ UNCHANGED <<batch_, stop_, stepping_env_num_, clientVars, action_>>

Dequeue(w) ==
  /\ WorkerAt(w, "dequeue", "test")
  /\ FIFO!Take(w)
  /\ UNCHANGED <<batchVars, reset, envVars>>

Stop(w) ==
  /\ stop_
  /\ WorkerAt(w, "test", "exited")
  /\ UNCHANGED <<fifoVars, batchVars, reset, envVars>>

\* Mutant (see the README).
ForcedOnly(w) == taken[w].force_reset

needsReset(w) == taken[w].force_reset \/ done[taken[w].env_id]

TestDone(w) ==
  /\ ~stop_
  /\ WorkerAt(w, "test", "step")
  /\ reset' = [reset EXCEPT ![w] = needsReset(w)]
  /\ UNCHANGED <<fifoVars, batchVars, envVars>>

\* EnvStep: PreProcess, Reset or Step of the env, and its Allocate, which
\* reads current_step_ and IsDone.  Whether a step ends the episode is up to
\* the env; a reset starts a new one.
EnvStep(w) ==
  LET e == taken[w].env_id
      elapsed == IF reset[w] THEN 0 ELSE current_step_[e] + 1
  IN  \E d \in BOOLEAN :
        /\ WorkerAt(w, "step", "finish")
        /\ (reset[w] => ~d) /\ (elapsed >= MaxEpisode => d \/ reset[w])
        /\ current_step_' = [current_step_ EXCEPT ![e] = elapsed]
        /\ done' = [done EXCEPT ![e] = d]
        /\ row' = [row EXCEPT ![e] =
             [reset |-> reset[w], action |-> IF reset[w] THEN Null ELSE action_[e],
              elapsed_step |-> elapsed, done |-> d]]
        /\ Batches!Reserve(e, taken[w].order)
        /\ UNCHANGED <<fifoVars, reset>>

PostProcess(w) ==
  /\ WorkerAt(w, "finish", "dequeue")
  /\ Batches!Finish(taken[w].env_id)
  /\ FIFO!Return(w)
  /\ reset' = [reset EXCEPT ![w] = FALSE]
  /\ UNCHANGED envVars

WorkerStep(w) == Dequeue(w) \/ Stop(w) \/ TestDone(w) \/ EnvStep(w) \/ PostProcess(w)

-----------------------------------------------------------------------------
(* The destructor *)

\* Mutant (see the README).
OneStop == 1

stopSlices == Cardinality(Workers)

\* A value-initialized slice.  No worker reads it: stop_ is set.
EmptySlice == [env_id |-> Null, order |-> 0, force_reset |-> FALSE]

Destroy(c) ==
  /\ Destroys /\ ~InUse
  /\ Goto(c, "idle", "clear")
  /\ stop_' = TRUE
  /\ hands' = [hands EXCEPT ![c] = [k \in 1 .. stopSlices |-> EmptySlice]] /\ FIFO!Call(c)
  /\ UNCHANGED <<stepping_env_num_, batchVars, workerVars, action_, envVars, additional,
                 asked, seen>>

ClearWorkers(c) ==
  /\ Goto(c, "clear", "join")
  /\ FIFO!Publish(c)
  /\ UNCHANGED <<stop_, stepping_env_num_, batchVars, workerVars, action_, envVars,
                 additional, asked, seen>>

Join(c) ==
  /\ Goto(c, "join", "gone")
  /\ \A w \in Workers : wpc[w] = "exited"
  /\ UNCHANGED <<stop_, stepping_env_num_, fifoVars, batchVars, workerVars, action_, envVars,
                 additional, asked, seen>>

-----------------------------------------------------------------------------
InCall(c) ==
  CountStepping(c) \/ Enqueue(c) \/ Wait(c) \/ ReturnBatch(c) \/ ClearWorkers(c) \/ Join(c)

Next ==
  \/ \E c \in Clients : Send(c) \/ Reset(c) \/ Recv(c) \/ Destroy(c) \/ InCall(c)
  \/ \E w \in Workers : WorkerStep(w)

Spec == Init /\ [][Next]_vars

\* Workers run until they exit and calls run to their end.
Fairness ==
  /\ \A c \in Clients : WF_vars(InCall(c))
  /\ \A w \in Workers : WF_vars(WorkerStep(w))

FairSpec == Spec /\ Fairness

\* A client that goes on using the pool: it keeps sending and receiving.
UserSpec ==
  FairSpec /\ WF_vars(\E c \in Clients : Send(c) \/ Reset(c)) /\ WF_vars(\E c \in Clients : Recv(c))
-----------------------------------------------------------------------------
(* Properties *)

RowType == [reset : BOOLEAN, action : Actions \cup {Null}, elapsed_step : Int, done : BOOLEAN]

TypeOK ==
  /\ batch_ \in 1 .. num_envs_
  /\ stop_ \in BOOLEAN /\ stepping_env_num_ \in 0 .. num_envs_
  /\ hands \in [Clients -> Seq(ActionSlice)] /\ pending \in Seq(ActionSlice)
  /\ taken \in [Workers -> ActionSlice \cup {Null}]
  /\ reserved \in Seq([env : Envs, order : {NoOrder} \cup 0 .. num_envs_ - 1])
  /\ finished \subseteq Envs /\ batch \in Seq(Envs)
  /\ wpc \in [Workers -> {"dequeue", "test", "step", "finish", "exited"}]
  /\ reset \in [Workers -> BOOLEAN]
  /\ action_ \in [Envs -> Actions \cup {Null}]
  /\ done \in [Envs -> BOOLEAN] /\ current_step_ \in [Envs -> -1 .. MaxEpisode]
  /\ row \in [Envs -> RowType]
  /\ cpc \in [Clients -> {"idle", "count", "enqueue", "wait", "return", "clear", "join", "gone"}]
  /\ additional \in [Clients -> 0 .. batch_]
  /\ asked \in [Envs -> Actions \cup {ForceReset, Null}]
  /\ seen \in [Envs -> [elapsed_step : Int, done : BOOLEAN] \cup {Null}]

\* No two workers run the same env: its members are plain variables (the loop
\* of the workers, lines 118-129).
OneWorkerPerEnv ==
  \A v, w \in Workers :
    wpc[v] \in {"step", "finish"} /\ wpc[w] \in {"step", "finish"} /\ v # w
      => taken[v].env_id # taken[w].env_id

\* Every row that Recv returns is the answer to what the client last asked of
\* its env: a reset if it asked for one or if the last row it saw ended the
\* episode, and else the next step of the episode, taken with its action
\* (SetAction, line 67; the worker loop, line 126; EnvStep, env.h:162-172).
AnswersMatch ==
  \A e \in Range(batch) :
    /\ asked[e] # Null
    /\ IF asked[e] = ForceReset \/ seen[e].done
       THEN row[e].reset /\ row[e].elapsed_step = 0
       ELSE /\ ~row[e].reset /\ row[e].action = asked[e]
            /\ row[e].elapsed_step = seen[e].elapsed_step + 1

Names(s, e) == Cardinality({k \in DOMAIN s : s[k].env_id = e})

\* Where env e is on its way from Send to Recv.
InHands(e) == {c \in Clients : Names(hands[c], e) > 0}
InWork(e) == {w \in Workers : wpc[w] \in {"test", "step"} /\ taken[w].env_id = e}
places(e) ==
  Cardinality(InHands(e)) + Names(pending, e) + Cardinality(InWork(e))
    + Cardinality({k \in DOMAIN reserved : reserved[k].env = e})
    + Cardinality({k \in DOMAIN batch : batch[k] = e})

\* An env with an action is in exactly one place between Send and Recv, any
\* other env in none: no action is lost or carried out twice.
NothingLost == ~stop_ => \A e \in Envs : places(e) = IF asked[e] = Null THEN 0 ELSE 1

\* The count from which a sync Recv computes the envs that are missing is the
\* number of envs that are stepping (lines 75, 165-166 and 173).
SteppingCount == is_sync_ /\ ~InUse => stepping_env_num_ = Cardinality(Outstanding)

\* A sync Recv returns without any help of its client: what it waits for is
\* what was sent.
RecvReturns == \A c \in Clients : is_sync_ /\ InRecv(c) ~> ~InRecv(c)

\* As long as the clients keep sending and receiving, every action is answered,
\* unless the pool is destroyed.
NobodyStarves == \A e \in Envs : asked[e] # Null ~> asked[e] = Null \/ stop_

\* The destructor stops every worker, whatever is left in the queues (lines
\* 145-155).
DestructorReturns == \A c \in Clients : cpc[c] = "clear" ~> cpc[c] = "gone"
=============================================================================
