----------------------------- MODULE StackSpec -----------------------------
(***************************************************************************)
(* What the stack module of HW_03_kernel_stack promises to a user of its   *)
(* sysfs files: a last-in first-out stack.  A call takes effect between    *)
(* its start and its answer.                                               *)
(***************************************************************************)
EXTENDS Integers, Sequences

CONSTANTS Users, Values

VARIABLES stack,    \* the values, top first
          call,     \* the call each user is in
          outcome,  \* the result of a call that has taken effect
          answer    \* the last answer each user got

svars == <<stack, call, outcome, answer>>

NoCall == [op |-> "none", arg |-> 0]
Requests == [op : {"push"}, arg : Values]
            \cup [op : {"pop", "peek", "size", "is_empty", "clear"}, arg : {0}]

Init == /\ stack = <<>>
        /\ call = [u \in Users |-> NoCall]
        /\ outcome = [u \in Users |-> <<"none">>]
        /\ answer = [u \in Users |-> <<"none">>]

Start(u) == /\ call[u] = NoCall
            /\ \E r \in Requests : call' = [call EXCEPT ![u] = r]
            /\ UNCHANGED <<stack, outcome, answer>>

\* The call has taken effect and is still to answer r ...
Yield(u, r) == /\ outcome[u] = <<"none">>
               /\ outcome' = [outcome EXCEPT ![u] = r]
               /\ UNCHANGED <<call, answer>>

\* ... or takes effect and answers at once.
Finish(u, r) == /\ outcome[u] = <<"none">>
                /\ answer' = [answer EXCEPT ![u] = r]
                /\ call' = [call EXCEPT ![u] = NoCall]
                /\ UNCHANGED outcome

Push(u) == /\ call[u].op = "push"
           /\ \/ stack' = <<call[u].arg>> \o stack /\ Yield(u, <<"ok">>)
              \/ UNCHANGED stack /\ Finish(u, <<"nomem">>)

Pop(u) == /\ call[u].op = "pop"
          /\ \/ stack = <<>> /\ UNCHANGED stack /\ Finish(u, <<"empty">>)
             \/ stack # <<>> /\ stack' = Tail(stack) /\ Yield(u, <<"value", Head(stack)>>)

Look(u) ==
  /\ \/ /\ call[u].op = "peek"
        /\ Finish(u, IF stack = <<>> THEN <<"empty">> ELSE <<"value", Head(stack)>>)
     \/ /\ call[u].op = "size"
        /\ Finish(u, <<"value", Len(stack)>>)
     \/ /\ call[u].op = "is_empty"
        /\ Finish(u, <<"value", IF stack = <<>> THEN 1 ELSE 0>>)
  /\ UNCHANGED stack

\* Clearing drops one element after the other.
Drop(u) == /\ call[u].op = "clear" /\ stack # <<>>
           /\ stack' = Tail(stack)
           /\ UNCHANGED <<call, outcome, answer>>

Cleared(u) == /\ call[u].op = "clear" /\ stack = <<>>
              /\ Finish(u, <<"ok">>)
              /\ UNCHANGED stack

Reply(u) == /\ outcome[u] # <<"none">>
            /\ answer' = [answer EXCEPT ![u] = outcome[u]]
            /\ outcome' = [outcome EXCEPT ![u] = <<"none">>]
            /\ call' = [call EXCEPT ![u] = NoCall]
            /\ UNCHANGED stack

\* A push of text that is no number.
BadText(u) == /\ call[u] = NoCall
              /\ answer' = [answer EXCEPT ![u] = <<"invalid">>]
              /\ UNCHANGED <<stack, call, outcome>>

\* The module's exit drops what is left.
Unload == /\ \A u \in Users : call[u] = NoCall
          /\ stack # <<>>
          /\ stack' = Tail(stack)
          /\ UNCHANGED <<call, outcome, answer>>

Next == \/ Unload
        \/ \E u \in Users : \/ Start(u) \/ Push(u) \/ Pop(u) \/ Look(u) \/ Drop(u)
                            \/ Cleared(u) \/ Reply(u) \/ BadText(u)

Spec == Init /\ [][Next]_svars
=============================================================================
