------------------------------ MODULE FifoSpec ------------------------------
(***************************************************************************)
(* What the queue module of HW_04_kernel_fifo promises: a first-in         *)
(* first-out queue of at most cap values, used one callback at a time.     *)
(***************************************************************************)
EXTENDS Integers, Sequences

CONSTANTS Values,    \* what users enqueue
          Caps       \* capacities a queue can be opened with: that of the buffer, which
                     \* is rounded, and not the size that was asked for

VARIABLES open, cap, queue,
          call,      \* the request that is being served
          answer     \* what the last request was answered

fvars == <<open, cap, queue, call, answer>>

NoCall   == [op |-> "none", arg |-> 0]
Requests == [op : {"enqueue"}, arg : Values]
            \cup [op : {"dequeue", "peek", "size", "available", "is_empty", "is_full", "clear"},
                  arg : {0}]

Init == /\ open = FALSE /\ cap = 0 /\ queue = <<>>
        /\ call = NoCall /\ answer = <<"none">>

Open == /\ ~open
        /\ open' = TRUE
        /\ cap' \in Caps
        /\ queue' = <<>>
        /\ UNCHANGED <<call, answer>>

Close == /\ open /\ call = NoCall
         /\ open' = FALSE
         /\ cap' = 0
         /\ queue' = <<>>
         /\ UNCHANGED <<call, answer>>

Start == /\ open /\ call = NoCall
         /\ call' \in Requests
         /\ UNCHANGED <<open, cap, queue, answer>>

\* The request takes effect and is answered.
Serve(op, q, a) == /\ call.op = op
                   /\ queue' = q
                   /\ answer' = a
                   /\ call' = NoCall
                   /\ UNCHANGED <<open, cap>>

\* How a number of the queue is reported.  The answers for a missing queue, an
\* empty one and other errors are negative numbers, too: an element -1 or -4
\* cannot be told from them.
Reported(v) == CASE v = -1 -> <<"empty">>
                 [] v = -4 -> <<"uninit">>
                 [] v < 0 /\ v # -1 /\ v # -4 -> <<"error", v>>
                 [] v >= 0 -> <<"value", v>>

Enqueue == \/ Len(queue) < cap /\ Serve("enqueue", Append(queue, call.arg), <<"ok">>)
           \/ Len(queue) = cap /\ Serve("enqueue", queue, <<"refused">>)

Dequeue == \/ queue # <<>> /\ Serve("dequeue", Tail(queue), Reported(Head(queue)))
           \/ queue = <<>> /\ Serve("dequeue", queue, <<"empty">>)

Peek == \/ queue # <<>> /\ Serve("peek", queue, Reported(Head(queue)))
        \/ queue = <<>> /\ Serve("peek", queue, <<"empty">>)

Flag(b) == IF b THEN 1 ELSE 0

Query == \/ Serve("size", queue, <<"size", Len(queue)>>)
         \/ Serve("available", queue, <<"available", cap - Len(queue)>>)
         \/ Serve("is_empty", queue, <<"is_empty", Flag(queue = <<>>)>>)
         \/ Serve("is_full", queue, <<"is_full", Flag(Len(queue) = cap)>>)

Clear == Serve("clear", <<>>, <<"ok">>)

\* A call while there is no queue.
NoQueue == /\ ~open
           /\ answer' \in {<<"refused">>, <<"uninit">>, <<"error", -4>>, <<"ok">>}
           /\ UNCHANGED <<open, cap, queue, call>>

\* An enqueue of text that is no number.
BadText == /\ call = NoCall
           /\ answer' = <<"invalid">>
           /\ UNCHANGED <<open, cap, queue, call>>

Next == \/ Open \/ Close \/ Start \/ NoQueue \/ BadText
        \/ Enqueue \/ Dequeue \/ Peek \/ Query \/ Clear

Spec == Init /\ [][Next]_fvars
=============================================================================
