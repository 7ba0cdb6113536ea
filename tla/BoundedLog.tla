----------------------------- MODULE BoundedLog -----------------------------
(***************************************************************************)
(* What the ring buffer logger promises: a queue of at most Capacity       *)
(* events that forgets its oldest event when a new one does not fit.       *)
(***************************************************************************)
EXTENDS Integers, Sequences

CONSTANTS Capacity, Events, Nothing

VARIABLES
  queue,   \* unread events, oldest first
  result,  \* what the last pop returned
  file     \* what a drop flushed

vars == <<queue, result, file>>

Init == queue = <<>> /\ result = Nothing /\ file = <<>>

Push(e) ==
  /\ queue' = Append(IF Len(queue) = Capacity THEN Tail(queue) ELSE queue, e)
  /\ UNCHANGED <<result, file>>

Pop ==
  /\ IF queue = <<>> THEN result' = Nothing /\ UNCHANGED queue
                     ELSE result' = Head(queue) /\ queue' = Tail(queue)
  /\ UNCHANGED file

(* drain_all, and the flush of a drop.                                     *)
Drain ==
  /\ queue' = <<>>
  /\ UNCHANGED <<result, file>>

Flush ==
  /\ queue' = <<>>
  /\ file' = file \o queue
  /\ UNCHANGED result

Next == (\E e \in Events : Push(e)) \/ Pop \/ Drain \/ Flush

Spec == Init /\ [][Next]_vars
=============================================================================
