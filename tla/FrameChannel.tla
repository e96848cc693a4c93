---------------------------- MODULE FrameChannel ----------------------------
(***************************************************************************)
(* What pigeon_frame_pipe.h promises of the pipe between the tunnel and    *)
(* the link: in each direction a bounded queue of frames.  A frame that is *)
(* pushed joins the end of the queue, or is lost if the queue is full at   *)
(* that moment; a reader gets the oldest frame; a reset empties a queue.   *)
(* The same frame is never in two places at once.                          *)
(***************************************************************************)
EXTENDS Integers, Sequences

CONSTANTS Directions, Frames, NoFrame, Capacity

VARIABLES
    queue,      \* direction -> the frames pushed and not yet popped
    offered,    \* direction -> the frame its writer is about to push
    delivered   \* direction -> the frame its reader popped and still uses

vars == <<queue, offered, delivered>>

InQueue(d) == {queue[d][k] : k \in DOMAIN queue[d]}

InUse == (UNION {InQueue(d) : d \in Directions})
           \cup {offered[d] : d \in Directions}
           \cup {delivered[d] : d \in Directions}

Init ==
    /\ queue = [d \in Directions |-> <<>>]
    /\ offered = [d \in Directions |-> NoFrame]
    /\ delivered = [d \in Directions |-> NoFrame]

Offer(d, f) ==
    /\ offered[d] = NoFrame
    /\ f \notin InUse
    /\ offered' = [offered EXCEPT ![d] = f]
    /\ UNCHANGED <<queue, delivered>>

Transfer(d) ==
    /\ offered[d] # NoFrame
    /\ Len(queue[d]) < Capacity
    /\ queue' = [queue EXCEPT ![d] = Append(queue[d], offered[d])]
    /\ offered' = [offered EXCEPT ![d] = NoFrame]
    /\ UNCHANGED delivered

Overflow(d) ==
    /\ offered[d] # NoFrame
    /\ Len(queue[d]) = Capacity
    /\ offered' = [offered EXCEPT ![d] = NoFrame]
    /\ UNCHANGED <<queue, delivered>>

Deliver(d) ==
    /\ delivered[d] = NoFrame
    /\ queue[d] # <<>>
    /\ delivered' = [delivered EXCEPT ![d] = Head(queue[d])]
    /\ queue' = [queue EXCEPT ![d] = Tail(queue[d])]
    /\ UNCHANGED offered

Release(d) ==
    /\ delivered[d] # NoFrame
    /\ delivered' = [delivered EXCEPT ![d] = NoFrame]
    /\ UNCHANGED <<queue, offered>>

Clear(d) ==
    /\ queue' = [queue EXCEPT ![d] = <<>>]
    /\ UNCHANGED <<offered, delivered>>

Next ==
    \E d \in Directions :
        \/ \E f \in Frames : Offer(d, f)
        \/ Transfer(d)
        \/ Overflow(d)
        \/ Deliver(d)
        \/ Release(d)
        \/ Clear(d)

Spec == Init /\ [][Next]_vars

=============================================================================
