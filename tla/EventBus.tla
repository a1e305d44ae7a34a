------------------------------ MODULE EventBus ------------------------------
(***************************************************************************)
(* The event bus adapters.  natsbus and redisbus publish to a broker from  *)
(* which the consumers of one group read; chanbus calls its handlers       *)
(* itself, in the goroutine of the caller of Emit.                         *)
(*                                                                         *)
(* The broker is modelled by what the adapters ask of it.                  *)
(***************************************************************************)
EXTENDS Naturals, SequencesExt, FiniteSetsExt

CONSTANTS
    Events,
    Consumers,    \* subscribers: of one consumer group, or handlers of chanbus
    Batch,        \* messages one XREADGROUP returns at most
    MaxExpiries   \* bound on acknowledgements that come too late

ASSUME BatchAssumption == Batch \in Nat

VARIABLES
    broker,    \* the adapter in use: "nats", "redis" or "chan"
    stream,    \* Redis: the entries of the stream, in order
    cursor,    \* Redis: the last entry delivered to the group
    msg,       \* event -> "none", "ready", "delivered" or "acked"
    inbox,     \* consumer -> messages handed to it and not finished
    acking,    \* consumer -> its handler has succeeded for the first of them
    seen,      \* consumer -> event -> times handled with success (2: or more)
    handlers,  \* chanbus: the handlers subscribed, in order
    expiries   \* acknowledgements that came too late so far

busVars == <<broker, stream, cursor, msg, inbox, acking, seen, handlers, expiries>>

BusInit ==
    /\ stream = <<>>
    /\ cursor = 0
    /\ msg = [e \in Events |-> "none"]
    /\ inbox = [k \in Consumers |-> <<>>]
    /\ acking = [k \in Consumers |-> FALSE]
    /\ seen = [k \in Consumers |-> [e \in Events |-> 0]]
    /\ handlers = <<>>
    /\ expiries = 0

saw(k, e) == seen' = [seen EXCEPT ![k][e] = Min({@ + 1, 2})]

\* A durable NATS consumer is bound to one subscription.
Bound == CHOOSE k \in Consumers : TRUE

----------------------------------------------------------------------------
(* Emit *)

\* XADD or js.Publish
Publish(e) ==
    /\ stream' = IF broker = "redis" THEN Append(stream, e) ELSE stream
    /\ msg' = [msg EXCEPT ![e] = "ready"]
    /\ UNCHANGED <<broker, cursor, inbox, acking, seen, handlers, expiries>>

\* chanbus.Subscribe, at any time.
SubscribeHandler(k) ==
    /\ broker = "chan"
    /\ ~Contains(handlers, k)
    /\ handlers' = Append(handlers, k)
    /\ UNCHANGED <<broker, stream, cursor, msg, inbox, acking, seen, expiries>>

----------------------------------------------------------------------------
(* Subscribe: the consumers of the group *)

\* Mutant: XREADGROUP with an id reads entries that are pending as well.
XReadGroup_pending(k) ==
    LET read == SelectSeq(stream, LAMBDA e : msg[e] # "acked")
    IN  /\ broker = "redis"
        /\ inbox[k] = <<>>
        /\ read # <<>>
        /\ inbox' = [inbox EXCEPT ![k] = read]
        /\ UNCHANGED <<broker, stream, cursor, msg, acking, seen, handlers, expiries>>

\* XREADGROUP with ">": entries never delivered to the group.
XReadGroup(k) ==
    LET n == Min({Batch, Len(stream) - cursor})
        read == SubSeq(stream, cursor + 1, cursor + n)
    IN  /\ broker = "redis"
        /\ inbox[k] = <<>>
        /\ n > 0
        /\ inbox' = [inbox EXCEPT ![k] = read]
        /\ cursor' = cursor + n
        /\ msg' = [e \in Events |-> IF Contains(read, e) THEN "delivered" ELSE msg[e]]
        /\ UNCHANGED <<broker, stream, acking, seen, handlers, expiries>>

\* NATS pushes a message to the subscription.
Deliver(e) ==
    /\ broker = "nats"
    /\ msg[e] = "ready"
    /\ inbox' = [inbox EXCEPT ![Bound] = Append(@, e)]
    /\ msg' = [msg EXCEPT ![e] = "delivered"]
    /\ UNCHANGED <<broker, stream, cursor, acking, seen, handlers, expiries>>

\* The message the consumer works on is e, and its handler has not run.
handling(k, e) == inbox[k] # <<>> /\ Head(inbox[k]) = e /\ ~acking[k]

\* Mutant: the message is acknowledged before the handler has run.
HandleOk_late(k, e) ==
    /\ handling(k, e)
    /\ acking' = [acking EXCEPT ![k] = TRUE]
    /\ UNCHANGED <<broker, stream, cursor, msg, inbox, seen, handlers, expiries>>

\* The handler succeeds.
HandleOk(k, e) ==
    /\ handling(k, e)
    /\ saw(k, e)
    /\ acking' = [acking EXCEPT ![k] = TRUE]
    /\ UNCHANGED <<broker, stream, cursor, msg, inbox, handlers, expiries>>

\* The handler fails: natsbus answers Nak, redisbus goes on to the next entry.
HandleFail(k, e) ==
    /\ handling(k, e)
    /\ inbox' = [inbox EXCEPT ![k] = Tail(@)]
    /\ msg' = IF broker = "nats" /\ msg[e] = "delivered"
              THEN [msg EXCEPT ![e] = "ready"] ELSE msg
    /\ UNCHANGED <<broker, stream, cursor, acking, seen, handlers, expiries>>

\* Ack or XACK, whose error is ignored.
Acknowledge(k) ==
    /\ acking[k]
    /\ msg' \in {msg, [msg EXCEPT ![Head(inbox[k])] = "acked"]}
    /\ inbox' = [inbox EXCEPT ![k] = Tail(@)]
    /\ acking' = [acking EXCEPT ![k] = FALSE]
    /\ UNCHANGED <<broker, stream, cursor, seen, handlers, expiries>>

inHand(e) == \E k \in Consumers : Contains(inbox[k], e)

\* NATS delivers again what was not acknowledged in time, because the consumer
\* has gone, the acknowledgement was lost, or the handler is slow.
Expire(e) ==
    /\ broker = "nats"
    /\ msg[e] = "delivered"
    /\ inHand(e) => expiries < MaxExpiries
    /\ expiries' = IF inHand(e) THEN expiries + 1 ELSE expiries
    /\ msg' = [msg EXCEPT ![e] = "ready"]
    /\ UNCHANGED <<broker, stream, cursor, inbox, acking, seen, handlers>>

\* Mutant: the consumer made by the next Subscribe starts at new messages.
Resubscribe_new(k) ==
    /\ inbox[k] # <<>> \/ (broker = "nats" /\ k = Bound)
    /\ inbox' = [inbox EXCEPT ![k] = <<>>]
    /\ acking' = [acking EXCEPT ![k] = FALSE]
    /\ msg' = [e \in Events |-> IF broker = "redis" \/ msg[e] \in {"none", "acked"}
                               THEN msg[e] ELSE "skipped"]
    /\ UNCHANGED <<broker, stream, cursor, seen, handlers, expiries>>

\* The context is cancelled, the read fails or the process of the consumer
\* dies, and Subscribe is called again.  Unsubscribe may take the durable NATS
\* consumer along, and the next one starts at the first message.
Resubscribe(k) ==
    /\ inbox[k] # <<>> \/ (broker = "nats" /\ k = Bound)
    /\ inbox' = [inbox EXCEPT ![k] = <<>>]
    /\ acking' = [acking EXCEPT ![k] = FALSE]
    /\ \/ UNCHANGED msg
       \/ /\ broker = "nats"
          /\ msg' = [e \in Events |-> IF msg[e] = "none" THEN "none" ELSE "ready"]
    /\ UNCHANGED <<broker, stream, cursor, seen, handlers, expiries>>

----------------------------------------------------------------------------

BusNext ==
    \/ \E e \in Events : Deliver(e) \/ Expire(e)
    \/ \E k \in Consumers :
          \/ SubscribeHandler(k) \/ XReadGroup(k) \/ Acknowledge(k)
          \/ \E e \in Events : HandleOk(k, e) \/ HandleFail(k, e)

\* Consumers go on reading, and no handler fails for ever on one event.
BusFairness ==
    /\ \A e \in Events :
          /\ WF_busVars(Deliver(e))
          /\ WF_busVars(Expire(e))
          /\ \A k \in Consumers : SF_busVars(HandleOk(k, e))
    /\ \A k \in Consumers : WF_busVars(XReadGroup(k)) /\ WF_busVars(Acknowledge(k))

\* Some consumer of the group has handled e.
handled(e) == \E k \in Consumers : seen[k][e] > 0
=============================================================================
