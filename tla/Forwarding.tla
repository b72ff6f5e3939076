----------------------------- MODULE Forwarding -----------------------------
(***************************************************************************)
(* What WebhookForwarder (webhook.py) promises whoever enqueues events:    *)
(* an accepted event waits in line, the line is served in order, and every *)
(* event leaves it exactly once, counted as delivered, given up on, or     *)
(* displaced by a newer one while Capacity events wait.  Closing the line  *)
(* discards what is left of it.                                            *)
(***************************************************************************)
EXTENDS Naturals, Sequences

CONSTANTS
    Events,   \* the events that can be enqueued
    Capacity  \* MAX_WEBHOOK_QUEUE

VARIABLES
    line,  \* accepted events that have not left, the oldest first
    left,  \* how many events left the line, by the counter that says so
    open   \* events are still accepted

vars == <<line, left, open>>

Init ==
    /\ line = <<>>
    /\ left = [delivered |-> 0, failed |-> 0, dropped |-> 0]
    /\ open \in BOOLEAN

\* One may be on its way beside the Capacity that wait.
Accept(e) ==
    /\ open /\ Len(line) <= Capacity
    /\ line' = Append(line, e) /\ UNCHANGED <<left, open>>

\* The head of the line may be on its way already; then the second goes.
Displace(e) ==
    /\ open /\ line # <<>> /\ Len(line) >= Capacity
    /\ \/ line' = Append(Tail(line), e)
       \/ /\ Len(line) > 1
          /\ line' = <<Head(line)>> \o Append(Tail(Tail(line)), e)
    /\ left' = [left EXCEPT !.dropped = @ + 1]
    /\ UNCHANGED open

Serve(counter) ==
    /\ line # <<>> /\ line' = Tail(line)
    /\ left' = [left EXCEPT ![counter] = @ + 1]
    /\ UNCHANGED open

Close == open /\ open' = FALSE /\ UNCHANGED <<line, left>>
Discard == ~open /\ line' = <<>> /\ UNCHANGED <<left, open>>

Next ==
    \/ \E e \in Events : Accept(e) \/ Displace(e)
    \/ \E counter \in {"delivered", "failed"} : Serve(counter)
    \/ Close
    \/ Discard

Spec == Init /\ [][Next]_vars
=============================================================================
