----------------------------- MODULE BatchQueue -----------------------------
(***************************************************************************)
(* What the state buffer queue promises the pool.  Envs reserve rows in    *)
(* some order; Recv number n returns the envs that reserved the rows of    *)
(* batch n, once all of them have finished.  In sync mode the batch is all *)
(* the envs that are stepping, however few, and each is in the row of its  *)
(* action; otherwise it is exactly batch_ envs, in any row.                *)
(***************************************************************************)
EXTENDS Integers, Sequences, FiniteSets, SequencesExt

CONSTANTS Envs,
          NoOrder    \* the order of an env that takes any row

\* The configuration of the pool, which no step changes.
VARIABLES batch_,
          is_sync_   \* whether rows are numbered and batches may be short

VARIABLES reserved,  \* what is reserved and not yet returned: env and order
          finished,  \* the envs among them that have called done_write
          batch      \* what the current Recv returns, row by row

vars == <<batch_, is_sync_, reserved, finished, batch>>

NoBatch == <<>>

Init ==
  /\ reserved = <<>>
  /\ finished = {}
  /\ batch = NoBatch

Reserving == {r.env : r \in Range(reserved)}

Reserve(e, order) ==
  /\ e \notin Reserving
  /\ reserved' = Append(reserved, [env |-> e, order |-> order])
  /\ UNCHANGED <<finished, batch>>

Finish(e) ==
  /\ e \in Reserving \ finished
  /\ finished' = finished \cup {e}
  /\ UNCHANGED <<reserved, batch>>

\* The sequences that put each reservation of the set S in a row it may have;
\* rows are numbered from 0.
Arrangements(S) ==
  {s \in [1 .. Cardinality(S) -> S] :
     /\ \A r \in S : \E k \in DOMAIN s : s[k] = r
     /\ \A k \in DOMAIN s : s[k].order \in {NoOrder, k - 1}}

\* A Recv of n envs.
Take(n) ==
  /\ batch = NoBatch
  /\ n = batch_ \/ (is_sync_ /\ n = Len(reserved))
  /\ n \in 1 .. Len(reserved)
  /\ LET first == {reserved[k] : k \in 1 .. n}
     IN  /\ \A r \in first : r.env \in finished
         /\ \E s \in Arrangements(first) : batch' = [k \in 1 .. n |-> s[k].env]
         /\ finished' = finished \ {r.env : r \in first}
  /\ reserved' = SubSeq(reserved, n + 1, Len(reserved))

Return ==
  /\ batch # NoBatch
  /\ batch' = NoBatch
  /\ UNCHANGED <<reserved, finished>>

Next ==
  \/ \E e \in Envs, order \in {NoOrder} \cup 0 .. batch_ - 1 : Reserve(e, order)
  \/ \E e \in Envs : Finish(e)
  \/ \E n \in 1 .. batch_ : Take(n)
  \/ Return

Spec == Init /\ [][Next /\ UNCHANGED <<batch_, is_sync_>>]_vars
=============================================================================
