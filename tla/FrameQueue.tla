------------------------------ MODULE FrameQueue ------------------------------
(***************************************************************************)
(* What a driver's ring promises: a bounded queue without a lock.  Frames  *)
(* leave one at a time, the oldest first, each into the hands of a single  *)
(* consumer; no frame is lost, repeated or overtaken on the way, except    *)
(* that all are discarded while the queue is down.                         *)
(***************************************************************************)
EXTENDS Naturals, Sequences

CONSTANTS
    Frames,
    None,     \* no frame
    Capacity  \* how many frames it may hold

VARIABLES
    queue,  \* oldest first
    out,    \* the frame in the consumer's hands
    up

Init == queue = <<>> /\ out = None /\ up = TRUE

\* One frame or several join at the end.
Accept ==
    /\ queue' \in Seq(Frames) /\ Len(queue) < Len(queue') /\ Len(queue') <= Capacity
    /\ \A i \in 1..Len(queue) : queue'[i] = queue[i]
    /\ UNCHANGED <<out, up>>
Leave ==
    /\ queue # <<>> /\ out = None
    /\ out' = Head(queue) /\ queue' = Tail(queue)
    /\ UNCHANGED up
Consume == out' = None /\ UNCHANGED <<queue, up>>

UpOrDown == up' \in BOOLEAN /\ UNCHANGED <<queue, out>>
Discard == ~up /\ queue' = <<>> /\ UNCHANGED <<out, up>>

Next == Accept \/ Leave \/ Consume \/ UpOrDown \/ Discard

Spec == Init /\ [][Next]_<<queue, out, up>>
=============================================================================
