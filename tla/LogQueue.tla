------------------------------- MODULE LogQueue -------------------------------
(***************************************************************************)
(* What a logging back end promises, with no word about the flush thread,  *)
(* its two buffers or its condition variable:                              *)
(*                                                                         *)
(*   - a message is accepted at most once;                                 *)
(*   - accepted messages are delivered in the order of acceptance, each    *)
(*     once, to every sink attached at that moment;                        *)
(*   - when a sink fails, or after a fatal message, delivery ends: what is *)
(*     still pending is never delivered, and nothing is delivered later.   *)
(*                                                                         *)
(* Logger implements this specification.                                   *)
(***************************************************************************)
EXTENDS Sequences

CONSTANTS Messages, Sinks,
          Fatal       \* the messages that end delivery

VARIABLES pending,    \* accepted and not yet delivered, oldest first
          seen,       \* every message ever accepted
          attached,   \* the sinks that receive what is delivered
          out,        \* what each sink has received
          open        \* FALSE once delivery has ended

vars == <<pending, seen, attached, out, open>>

Init ==
    /\ pending = <<>>
    /\ seen = {}
    /\ attached = {}
    /\ out = [s \in Sinks |-> <<>>]
    /\ open = TRUE

\* out after m has been handed to the sinks of S.
Received(m, S) ==
    [s \in Sinks |-> IF s \in S THEN Append(out[s], m) ELSE out[s]]

Accept(m) ==
    /\ m \notin seen
    /\ seen' = seen \cup {m}
    /\ pending' = Append(pending, m)
    /\ UNCHANGED <<attached, out, open>>

Attach(s) ==
    /\ attached' = attached \cup {s}
    /\ UNCHANGED <<pending, seen, out, open>>

Deliver ==
    /\ open
    /\ pending # <<>>
    /\ Head(pending) \notin Fatal
    /\ out' = Received(Head(pending), attached)
    /\ pending' = Tail(pending)
    /\ UNCHANGED <<seen, attached, open>>

\* The fatal message has reached every sink: delivery is over, what was
\* accepted after it is forgotten and the sinks are let go.
DeliverLast ==
    /\ open
    /\ pending # <<>>
    /\ Head(pending) \in Fatal
    /\ out' = Received(Head(pending), attached)
    /\ pending' = <<>>
    /\ attached' = {}
    /\ open' = FALSE
    /\ UNCHANGED seen

\* Delivery ends half-way through a message, or between two.
Fail ==
    /\ open
    /\ \/ UNCHANGED out
       \/ /\ pending # <<>>
          /\ \E S \in SUBSET attached : out' = Received(Head(pending), S)
    /\ open' = FALSE
    /\ UNCHANGED <<pending, seen, attached>>

Next ==
    \/ \E m \in Messages : Accept(m)
    \/ \E s \in Sinks : Attach(s)
    \/ Deliver
    \/ DeliverLast
    \/ Fail

Spec == Init /\ [][Next]_vars

===============================================================================
