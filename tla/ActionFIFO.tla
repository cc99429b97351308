----------------------------- MODULE ActionFIFO -----------------------------
(***************************************************************************)
(* What the action buffer queue promises the pool: a first-in-first-out    *)
(* queue of env ids.  A client hands over a whole batch at once, a worker  *)
(* takes one id at a time, nothing is lost, repeated or reordered.         *)
(***************************************************************************)
EXTENDS Sequences

CONSTANTS Clients, Workers, Envs, None

VARIABLES hands,     \* hands[c]: the batch c has passed to EnqueueBulk
          pending,   \* the ids that can be dequeued, oldest first
          taken      \* taken[w]: the id w's Dequeue has taken, or None

vars == <<hands, pending, taken>>

Init ==
  /\ hands = [c \in Clients |-> <<>>]
  /\ pending = <<>>
  /\ taken = [w \in Workers |-> None]

Call(c) ==
  /\ hands[c] = <<>>
  /\ hands'[c] \in Seq(Envs)
  /\ hands' = [hands EXCEPT ![c] = hands'[c]]
  /\ UNCHANGED <<pending, taken>>

\* The whole batch becomes visible in one step, in its own order.
Publish(c) ==
  /\ hands[c] # <<>>
  /\ pending' = pending \o hands[c]
  /\ hands' = [hands EXCEPT ![c] = <<>>]
  /\ UNCHANGED taken

Take(w) ==
  /\ taken[w] = None
  /\ pending # <<>>
  /\ taken' = [taken EXCEPT ![w] = Head(pending)]
  /\ pending' = Tail(pending)
  /\ UNCHANGED hands

Return(w) ==
  /\ taken[w] # None
  /\ taken' = [taken EXCEPT ![w] = None]
  /\ UNCHANGED <<hands, pending>>

Next ==
  \/ \E c \in Clients : Call(c) \/ Publish(c)
  \/ \E w \in Workers : Take(w) \/ Return(w)

Spec == Init /\ [][Next]_vars
=============================================================================
