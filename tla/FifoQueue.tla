----------------------------- MODULE FifoQueue -----------------------------
(***************************************************************************)
(* What a queue promises its callers: a pop returns the oldest item that   *)
(* was pushed and not popped yet, and nothing only if there is none.       *)
(***************************************************************************)
EXTENDS Sequences

CONSTANTS Consumers, Items, None

VARIABLES fifo,    \* the items in the queue, oldest first
          result   \* result[c]: what the last pop of c returned

vars == <<fifo, result>>

Init == /\ fifo = <<>>
        /\ result = [c \in Consumers |-> None]

Push(v) == /\ fifo' = Append(fifo, v)
           /\ UNCHANGED result

Pop(c) == /\ fifo # <<>>
          /\ result' = [result EXCEPT ![c] = Head(fifo)]
          /\ fifo' = Tail(fifo)

PopNone(c) == /\ fifo = <<>>
              /\ result' = [result EXCEPT ![c] = None]
              /\ UNCHANGED fifo

Next == \/ \E v \in Items : Push(v)
        \/ \E c \in Consumers : Pop(c) \/ PopNone(c)

Spec == Init /\ [][Next]_vars
=============================================================================
