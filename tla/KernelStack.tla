---------------------------- MODULE KernelStack ----------------------------
(***************************************************************************)
(* The stack module Linux_kernel/HW_03_kernel_stack: lib/stack_ops.c over  *)
(* the kernel's list.h, the sysfs files of src/sysfs.c, and src/main.c.    *)
(*                                                                         *)
(* The code has no lock and sysfs lets the callbacks of different files,   *)
(* and of different openings of one file, run at the same time.  A         *)
(* callback is modelled with the reads and writes of shared memory that    *)
(* another one can come between.  Serial restricts users to one call at a  *)
(* time.  The module's exit is a process of its own, Rmmod, that runs      *)
(* stack_clear like a callback.                                            *)
(*                                                                         *)
(* Operators named X_y are variants of X with a plausible mistake; no      *)
(* other definition uses them.                                             *)
(***************************************************************************)
EXTENDS Integers, Sequences, FiniteSets

CONSTANTS Users, Rmmod,
          Entries,      \* memory for struct stack_entry (positive numbers)
          Values,       \* numbers written to push
          Serial,       \* one call at a time
          EarlyUse      \* files used before sysfs_create_group has returned

Head0  == 0     \* the list head in struct stack
Poison == -1    \* LIST_POISON1 and LIST_POISON2
Nodes  == Entries \cup {Head0, Poison}
Procs  == Users \cup {Rmmod}

ASSUME StackAssumption ==
  /\ Entries \subseteq Nat \ {0} /\ IsFiniteSet(Entries)
  /\ Values \subseteq Int
  /\ Rmmod \notin Users
  /\ Serial \in BOOLEAN /\ EarlyUse \in BOOLEAN

VARIABLES
  phase,              \* where the loading process is
  next, prev,         \* struct list_head of the head and of each entry
  data, allocated,    \* entry->data; the entries that kmalloc handed out
  size,               \* struct stack: size
  pc, call,           \* each process and its call
  entry, other, number,   \* its locals: entry; next or tmp; value, size
  answer              \* what the last callback of each process returned

memory == <<next, prev, data, allocated, size>>
locals == <<entry, other, number>>
vars == <<phase, memory, pc, call, locals, answer>>

NoCall == [op |-> "none", arg |-> 0]
Idle(p) == pc[p] = "idle"
list_empty == next[Head0] = Head0

Init ==
  /\ phase = "absent"
  /\ next = [n \in Nodes |-> Head0] /\ prev = [n \in Nodes |-> Head0]
  /\ data = [e \in Nodes |-> 0] /\ allocated = {} /\ size = 0
  /\ pc = [p \in Procs |-> "idle"] /\ call = [p \in Procs |-> NoCall]
  /\ entry = [p \in Procs |-> Head0] /\ other = [p \in Procs |-> Head0]
  /\ number = [p \in Procs |-> 0]
  /\ answer = [p \in Procs |-> <<"none">>]

Return(p, a) ==
  /\ answer' = [answer EXCEPT ![p] = a]
  /\ pc' = [pc EXCEPT ![p] = "idle"]
  /\ call' = [call EXCEPT ![p] = NoCall]
  /\ entry' = [entry EXCEPT ![p] = Head0]
  /\ other' = [other EXCEPT ![p] = Head0]
  /\ number' = [number EXCEPT ![p] = 0]

Goto(p, where) == pc' = [pc EXCEPT ![p] = where]
-----------------------------------------------------------------------------
(* src/main.c and the set-up in src/sysfs.c *)

\* stack_init, then kobject_create_and_add: no files yet.
InitStack ==
  /\ phase = "absent"
  /\ next' = [next EXCEPT ![Head0] = Head0]
  /\ prev' = [prev EXCEPT ![Head0] = Head0]
  /\ size' = 0
  /\ phase' \in {"files", "absent"}
  /\ UNCHANGED <<data, allocated, pc, call, locals, answer>>

\* sysfs_create_group makes the files one by one; when it fails it removes
\* them, which waits for their callers, and init returns the error.
InitGroup ==
  /\ phase = "files"
  /\ \/ phase' = "live"
     \/ phase' = "absent" /\ \A u \in Users : Idle(u)
  /\ UNCHANGED <<memory, pc, call, locals, answer>>

\* kernel_stack_exit: sysfs_remove_group waits for the callers, then stack_clear.
ExitModule ==
  /\ phase = "live"
  /\ \A u \in Users : Idle(u)
  /\ phase' = "going"
  /\ Goto(Rmmod, "clear")
  /\ call' = [call EXCEPT ![Rmmod] = [op |-> "clear", arg |-> 0]]
  /\ UNCHANGED <<memory, locals, answer>>

ExitDone ==
  /\ phase = "going"
  /\ Idle(Rmmod)
  /\ phase' = "absent"
  /\ UNCHANGED <<memory, pc, call, locals, answer>>
-----------------------------------------------------------------------------
(* src/sysfs.c: the start of a callback *)

Callable(u) == /\ Idle(u)
               /\ phase = "live" \/ (EarlyUse /\ phase = "files")
               /\ Serial => \A v \in Users : Idle(v)

Begin(u, op, arg) ==
  /\ Callable(u)
  /\ call' = [call EXCEPT ![u] = [op |-> op, arg |-> arg]]
  /\ Goto(u, op)
  /\ UNCHANGED <<phase, memory, locals, answer>>

\* push_store with text that kstrtoint refuses.
PushText(u) ==
  /\ Callable(u)
  /\ Return(u, <<"invalid">>)
  /\ UNCHANGED <<phase, memory>>
-----------------------------------------------------------------------------
(* lib/stack_ops.c *)

\* stack_push: kmalloc and the data; without memory push_store returns -ENOMEM.
PushAlloc(p) ==
  /\ pc[p] = "push"
  /\ \/ Return(p, <<"nomem">>) /\ UNCHANGED memory
     \/ /\ \E e \in Entries \ allocated :
             /\ allocated' = allocated \cup {e}
             /\ data' = [data EXCEPT ![e] = call[p].arg]
             /\ entry' = [entry EXCEPT ![p] = e]
        /\ Goto(p, "link")
        /\ UNCHANGED <<next, prev, size, call, other, number, answer>>
  /\ UNCHANGED phase

\* list_add: read head->next ...
PushRead(p) ==
  /\ pc[p] = "link"
  /\ other' = [other EXCEPT ![p] = next[Head0]]
  /\ Goto(p, "link2")
  /\ UNCHANGED <<phase, memory, call, entry, number, answer>>

PushLink_oneway(p) ==
  /\ pc[p] = "link2"
  /\ next' = [next EXCEPT ![entry[p]] = other[p], ![Head0] = entry[p]]
  /\ prev' = [prev EXCEPT ![entry[p]] = Head0]
  /\ Goto(p, "count")
  /\ UNCHANGED <<phase, data, allocated, size, call, locals, answer>>

PushLink_tail(p) ==
  /\ pc[p] = "link2"
  /\ next' = [next EXCEPT ![prev[Head0]] = entry[p], ![entry[p]] = Head0]
  /\ prev' = [prev EXCEPT ![entry[p]] = prev[Head0], ![Head0] = entry[p]]
  /\ Goto(p, "count")
  /\ UNCHANGED <<phase, data, allocated, size, call, locals, answer>>

\* ... then the four assignments of __list_add.
PushLink(p) ==
  /\ pc[p] = "link2"
  /\ next' = [next EXCEPT ![entry[p]] = other[p], ![Head0] = entry[p]]
  /\ prev' = [prev EXCEPT ![other[p]] = entry[p], ![entry[p]] = Head0]
  /\ Goto(p, "count")
  /\ UNCHANGED <<phase, data, allocated, size, call, locals, answer>>

\* stack_pop and stack_peek: list_empty ...
Test(p) ==
  /\ pc[p] \in {"pop", "peek"}
  /\ \/ list_empty /\ Return(p, <<"empty">>)
     \/ ~list_empty /\ Goto(p, "first") /\ UNCHANGED <<call, locals, answer>>
  /\ UNCHANGED <<phase, memory>>

\* ... list_first_entry and its data; stack_peek returns it.
First(p) ==
  /\ pc[p] = "first"
  /\ LET e == next[Head0]
     IN  \/ call[p].op = "peek" /\ Return(p, <<"value", data[e]>>)
         \/ /\ call[p].op = "pop"
            /\ entry' = [entry EXCEPT ![p] = e]
            /\ number' = [number EXCEPT ![p] = data[e]]
            /\ Goto(p, "unlink")
            /\ UNCHANGED <<call, other, answer>>
  /\ UNCHANGED <<phase, memory>>

\* list_del joins the neighbours and poisons the entry.
list_del(e) ==
  /\ next' = [next EXCEPT ![prev[e]] = next[e], ![e] = Poison]
  /\ prev' = [prev EXCEPT ![next[e]] = prev[e], ![e] = Poison]

PopUnlink(p) ==
  /\ pc[p] = "unlink"
  /\ list_del(entry[p])
  /\ Goto(p, "count")
  /\ UNCHANGED <<phase, data, allocated, size, call, locals, answer>>

\* s->size++ and s->size-- read the number ...
CountRead(p) ==
  /\ pc[p] = "count"
  /\ other' = [other EXCEPT ![p] = size]
  /\ Goto(p, "count2")
  /\ UNCHANGED <<phase, memory, call, entry, number, answer>>

\* ... and write it back; stack_pop then frees the entry.
CountWrite(p) ==
  /\ pc[p] = "count2"
  /\ \/ /\ call[p].op = "push"
        /\ size' = other[p] + 1
        /\ Return(p, <<"ok">>)
        /\ UNCHANGED allocated
     \/ /\ call[p].op = "pop"
        /\ size' = other[p] - 1
        /\ allocated' = allocated \ {entry[p]}
        /\ Return(p, <<"value", number[p]>>)
  /\ UNCHANGED <<phase, next, prev, data>>

\* stack_size and stack_is_empty.
Query(p) ==
  /\ \/ pc[p] = "size" /\ Return(p, <<"value", size>>)
     \/ pc[p] = "is_empty" /\ Return(p, <<"value", IF list_empty THEN 1 ELSE 0>>)
  /\ UNCHANGED <<phase, memory>>

\* stack_clear: list_for_each_entry_safe reads the first entry and the one
\* after it ...
ClearFirst(p) ==
  /\ pc[p] = "clear"
  /\ entry' = [entry EXCEPT ![p] = next[Head0]]
  /\ other' = [other EXCEPT ![p] = next[next[Head0]]]
  /\ Goto(p, "each")
  /\ UNCHANGED <<phase, memory, call, number, answer>>

ClearEach_unsafe(p) ==
  /\ pc[p] = "each" /\ entry[p] # Head0
  /\ list_del(entry[p])
  /\ allocated' = allocated \ {entry[p]}
  /\ entry' = [entry EXCEPT ![p] = next'[entry[p]]]
  /\ UNCHANGED <<phase, data, size, pc, call, other, number, answer>>

\* ... unlinks and frees one, goes on with the saved one ...
ClearEach(p) ==
  /\ pc[p] = "each" /\ entry[p] # Head0
  /\ list_del(entry[p])
  /\ allocated' = allocated \ {entry[p]}
  /\ entry' = [entry EXCEPT ![p] = other[p]]
  /\ other' = [other EXCEPT ![p] = next'[other[p]]]
  /\ UNCHANGED <<phase, data, size, pc, call, number, answer>>

ClearDone_keepsize(p) ==
  /\ pc[p] = "each" /\ entry[p] = Head0
  /\ Return(p, <<"ok">>)
  /\ UNCHANGED <<phase, memory>>

\* ... and sets the size.
ClearDone(p) ==
  /\ pc[p] = "each" /\ entry[p] = Head0
  /\ size' = 0
  /\ Return(p, <<"ok">>)
  /\ UNCHANGED <<phase, next, prev, data, allocated>>
-----------------------------------------------------------------------------
Step(p) == \/ PushAlloc(p) \/ PushRead(p) \/ PushLink(p)
           \/ Test(p) \/ First(p) \/ PopUnlink(p)
           \/ CountRead(p) \/ CountWrite(p)
           \/ Query(p)
           \/ ClearFirst(p) \/ ClearEach(p) \/ ClearDone(p)

Next == \/ InitStack \/ InitGroup \/ ExitModule \/ ExitDone
        \/ \E u \in Users : \/ \E v \in Values : Begin(u, "push", v)
                            \/ \E op \in {"pop", "peek", "size", "is_empty", "clear"} :
                                 Begin(u, op, 0)
                            \/ PushText(u)
        \/ \E p \in Procs : Step(p)

Spec == Init /\ [][Next]_vars
-----------------------------------------------------------------------------
(* Properties *)

(***************************************************************************)
(* Type invariant of struct stack, the entries and the processes' locals.  *)
(***************************************************************************)
TypeOK ==
  /\ phase \in {"absent", "files", "live", "going"}
  /\ next \in [Nodes -> Nodes] /\ prev \in [Nodes -> Nodes]
  /\ data \in [Nodes -> Values \cup {0}]
  /\ allocated \subseteq Entries
  /\ size \in 0 .. Cardinality(Entries)
  /\ pc \in [Procs -> {"idle", "push", "link", "link2", "pop", "first", "unlink", "count",
                       "count2", "peek", "size", "is_empty", "clear", "each"}]
  /\ entry \in [Procs -> Nodes]

\* The list from the head, top of the stack first.
Chain ==
  LET at[k \in 0 .. Cardinality(Entries) + 1] == IF k = 0 THEN next[Head0] ELSE next[at[k - 1]]
      len == CHOOSE k \in 0 .. Cardinality(Entries) + 1 :
               at[k] = Head0 /\ \A j \in 0 .. (k - 1) : at[j] # Head0
  IN  [k \in 1 .. len |-> at[k - 1]]

Quiet == \A p \in Procs : Idle(p)

\* The users call one at a time, and none before the files are all there.  The
\* code has nothing that makes them: runs with Serial and without EarlyUse are
\* so, and ListWhole, EntriesAlive and ImplementsStackSpec are claimed of no others.
TakingTurns ==
  /\ \A u, v \in Users : ~Idle(u) /\ ~Idle(v) => u = v
  /\ phase = "files" => \A u \in Users : Idle(u)

\* Between calls "size" is the number of elements that are in the list, whoever
\* called at the same time: what kernel_stack_task.md says of the file.  Users that
\* do not take turns break it (run stack_race).
SizeExact == Quiet /\ phase = "live" => size = Len(Chain)

\* When the users take turns, between calls the list holds exactly the entries
\* that are allocated, as many as "size" says, and its two directions agree: push,
\* pop and clear lose and keep no entry.
ListWhole ==
  /\ SizeExact
  /\ Quiet /\ phase = "live" =>
       LET c == Chain
       IN  /\ {c[k] : k \in 1 .. Len(c)} = allocated
           /\ \A n \in allocated \cup {Head0} : prev[next[n]] = n

\* When the users take turns, no caller holds an entry that an earlier step of
\* push, pop or clear has freed, and none is left when the module is out.
EntriesAlive ==
  /\ \A p \in Procs : pc[p] \in {"link", "link2", "unlink", "each"} =>
       entry[p] \in allocated \/ (pc[p] = "each" /\ entry[p] = Head0)
  /\ phase = "absent" => allocated = {}

AbsOutcome(p) ==
  CASE pc[p] \in {"count", "count2"} /\ call[p].op = "push" -> <<"ok">>
    [] pc[p] \in {"count", "count2"} /\ call[p].op = "pop"  -> <<"value", number[p]>>
    [] OTHER -> <<"none">>

\* What a user can tell of the state.
AbsStack  == [k \in 1 .. Len(Chain) |-> data[Chain[k]]]
AbsCall   == [u \in Users |-> call[u]]
AbsResult == [u \in Users |-> AbsOutcome(u)]
AbsAnswer == [u \in Users |-> answer[u]]

Abstract == INSTANCE StackSpec WITH
  stack <- AbsStack, call <- AbsCall, outcome <- AbsResult, answer <- AbsAnswer

\* When the users take turns, the module is a last-in first-out stack with the right
\* answers, through clear, lack of memory and reload.
ImplementsStackSpec == Abstract!Spec
=============================================================================
