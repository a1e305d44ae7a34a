---------------------------- MODULE MCPostCommit ----------------------------
(***************************************************************************)
(* Two transitions end at once.  The first has two activities with a retry *)
(* policy, of which the second is not registered.  Each bus and each       *)
(* runner is used in one of the kits, the first without an activity store. *)
(***************************************************************************)
EXTENDS PostCommit

CONSTANTS t1, t2, k1, k2

Two == {t1, t2}
Readers == {k1, k2}

Work2 == (t1 :> 2) @@ (t2 :> 0)
Invoked == {<<t1, 1>>, <<t1, 2>>}
Unknown == {<<t1, 2>>}
Retries == [i \in Invoked |-> 1]

Combinations ==
    {[bus |-> "nats", runner |-> "mem", store |-> FALSE],
     [bus |-> "redis", runner |-> "goroutine", store |-> TRUE],
     [bus |-> "chan", runner |-> "asynq", store |-> TRUE]}

\* The queue alone, whose retries are in question.
QueueKit == {[bus |-> "chan", runner |-> "asynq", store |-> TRUE]}
=============================================================================
