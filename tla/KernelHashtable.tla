-------------------------- MODULE KernelHashtable --------------------------
(***************************************************************************)
(* The search module Linux_kernel/HW_06_binary_hashtable/src: build.c      *)
(* (filling and clearing the hash table), search.c (binary search in a     *)
(* sorted copy of a bucket), params.c and main.c.                          *)
(*                                                                         *)
(* The kernel runs the parameter callbacks of a module one at a time, so   *)
(* there is one current call.  A fill adds one entry per step, in init or  *)
(* in the rebuild callback.  RacyLifecycle lets callbacks run while init   *)
(* or exit is half done.                                                   *)
(*                                                                         *)
(* A bucket is the sequence of the values of its entries, newest first.    *)
(* Operators named X_y are variants of X with a plausible mistake; no      *)
(* other definition uses them.                                             *)
(***************************************************************************)
EXTENDS Integers, Sequences, FiniteSetsExt, Functions

CONSTANTS HASH_TABLE_SIZE,  \* 64
          ArraySizes,       \* values of the module parameter array_size
          Searches,         \* numbers written to search
          BucketIds,        \* numbers written to bucket_id
          RADIX,            \* 10: numbers are printed in this base
          ROOM,             \* characters of a page after "bucket=%u len=%d:"
          RandomFrom,       \* bound of the model: values that get_random_u32 yields
          RacyLifecycle     \* parameter files used while init or exit runs

ASSUME HashtableAssumption ==
  /\ HASH_TABLE_SIZE \in Nat \ {0}
  /\ ArraySizes \subseteq Nat /\ Searches \subseteq Nat /\ BucketIds \subseteq Nat
  /\ RADIX \in Nat \ {0, 1} /\ ROOM \in Nat /\ RandomFrom \subseteq Nat
  /\ RacyLifecycle \in BOOLEAN

VARIABLES
  phase,                    \* where the loading process is
  ctx,                      \* what g_ctx points to
  array_size, htable,       \* struct bucket_search_ctx
  last_found, last_value, last_bucket, current_bucket_id,
  filler, i,                \* who runs ht_build, and its loop counter
  call,                     \* the current callback
  exact,                    \* history: value of last_found had memory sufficed
  answer                    \* what the last callback returned

fields == <<last_found, last_value, last_bucket, current_bucket_id>>
vars == <<phase, ctx, array_size, htable, fields, filler, i, call, exact, answer>>

Buckets == 0 .. (HASH_TABLE_SIZE - 1)
Empty   == [b \in Buckets |-> <<>>]
Idle    == [op |-> "none", arg |-> 0]
-----------------------------------------------------------------------------
(* search.c, with the kernel's hash_min, sort and bsearch *)

\* hash_min: any function of the value onto the buckets would do.
hash_min(x) == (3 * x + 1) % HASH_TABLE_SIZE

cmp_entry_ptr_equal(a, b) == 0

\* The order of the entries for sort(): the sign of the comparison.
cmp_entry_ptr(a, b) == IF a < b THEN -1 ELSE IF a > b THEN 1 ELSE 0

cmp_key_entry_reversed(k, e) == IF k < e THEN 1 ELSE IF k > e THEN -1 ELSE 0

\* The key against an entry, for bsearch().
cmp_key_entry(k, e) == IF k < e THEN -1 ELSE IF k > e THEN 1 ELSE 0

\* sort(): the elements in an order that cmp_entry_ptr agrees with.
Orders(s) == {p \in Bijection(1 .. Len(s), 1 .. Len(s)) :
                \A j, k \in 1 .. Len(s) : j < k => cmp_entry_ptr(s[p[j]], s[p[k]]) <= 0}
sort(s) == LET p == CHOOSE p \in Orders(s) : TRUE
           IN  [k \in 1 .. Len(s) |-> s[p[k]]]

\* bsearch(): halve the window [base, base + num) around its middle.
Windows(n) == {w \in (1 .. n + 1) \X (0 .. n) : w[1] + w[2] <= n + 1}
bsearch(key, s) ==
  LET found[w \in Windows(Len(s))] ==
        LET base  == w[1]
            num   == w[2]
            pivot == base + (num \div 2)
            c     == cmp_key_entry(key, s[pivot])
        IN  IF num = 0 THEN FALSE
            ELSE IF c = 0 THEN TRUE
            ELSE IF c > 0 THEN found[<<pivot + 1, (num - 1) \div 2>>]
            ELSE found[<<base, num \div 2>>]
  IN  found[<<1, Len(s)>>]

\* Digits of an unsigned int, which has at most ten.
Width(v) == 1 + Cardinality({d \in 1 .. 9 : RADIX ^ d <= v})

\* Characters that the numbers of s take, each with a blank before it.
Chars(s) == Cardinality({c \in (1 .. Len(s)) \X (0 .. 10) : c[2] <= Width(s[c[1]])})

\* The loop of scnprintf over the numbers: the one that reaches the end of the
\* page is cut, at any of its digits.
Printed(s) ==
  LET whole == Max({n \in 0 .. Len(s) : Chars(SubSeq(s, 1, n)) <= ROOM})
      text  == SubSeq(s, 1, whole)
      left  == (ROOM - Chars(text)) - 1
  IN  IF whole < Len(s) /\ left > 0
      THEN Append(text, s[whole + 1] \div (RADIX ^ (Width(s[whole + 1]) - left)))
      ELSE text

\* collect_bucket: pointers to all entries of the bucket.
collect_bucket(b) == htable[b]

\* The values in the table, in any bucket.
Stored == UNION {Range(htable[b]) : b \in Buckets}
\* The number of entries in all buckets.
Slots   == UNION {{b} \X (1 .. Len(htable[b])) : b \in Buckets}
Entries == Cardinality(Slots)
-----------------------------------------------------------------------------
Init ==
  /\ phase = "absent" /\ ctx = "null"
  /\ array_size = 0 /\ htable = Empty
  /\ last_found = 0 /\ last_value = 0 /\ last_bucket = 0 /\ current_bucket_id = 0
  /\ filler = "none" /\ i = 0
  /\ call = Idle /\ exact = 0 /\ answer = <<"none">>

\* insmod with a value of array_size; the parameter files appear.
Insmod ==
  /\ phase = "absent"
  /\ array_size' \in ArraySizes
  /\ phase' = "loading"
  /\ UNCHANGED <<ctx, htable, fields, filler, i, call, exact, answer>>

\* kernel_hashtable_init: array_size and the kzalloc of the context, which
\* callbacks can see from now on.
InitContext ==
  /\ phase = "loading"
  /\ \/ /\ phase' = "failed"    \* array_size is 0, or no memory
        /\ UNCHANGED <<ctx, htable, fields, filler, i, exact>>
     \/ /\ array_size > 0
        /\ phase' = "building"
        /\ ctx' = "there"
        /\ htable' = Empty
        /\ last_found' = 0 /\ last_value' = 0 /\ last_bucket' = 0
        /\ current_bucket_id' = 0
        /\ filler' = "init" /\ i' = 0
        /\ exact' = 0
  /\ UNCHANGED <<array_size, call, answer>>

\* One turn of the loop in ht_build: a random value is added to its bucket.
BuildAdd ==
  /\ filler # "none" /\ i < array_size
  /\ \E r \in RandomFrom :
       LET v == r % array_size
       IN  htable' = [htable EXCEPT ![hash_min(v)] = <<v>> \o @]
  /\ i' = i + 1
  /\ UNCHANGED <<phase, ctx, array_size, fields, filler, call, exact, answer>>

\* The loop is over.
BuildDone ==
  /\ filler # "none" /\ i = array_size
  /\ \/ filler = "init" /\ phase' = "live" /\ UNCHANGED <<call, answer>>
     \/ filler = "rebuild" /\ call' = Idle /\ answer' = <<"ok">> /\ UNCHANGED phase
  /\ filler' = "none" /\ i' = 0
  /\ UNCHANGED <<ctx, array_size, htable, fields, exact>>

\* kmalloc fails: ht_clear; init also frees the context.
BuildFail ==
  /\ filler # "none" /\ i < array_size
  /\ htable' = Empty
  /\ \/ /\ filler = "init"
        /\ phase' = "failed" /\ ctx' = "null"
        /\ UNCHANGED <<call, answer>>
     \/ /\ filler = "rebuild"
        /\ call' = Idle /\ answer' = <<"nomem">>
        /\ UNCHANGED <<phase, ctx>>
  /\ filler' = "none" /\ i' = 0
  /\ UNCHANGED <<array_size, fields, exact>>

\* kernel_hashtable_exit: ht_clear, then kfree and g_ctx = NULL.
ExitClear ==
  /\ phase = "live"
  /\ RacyLifecycle \/ call = Idle
  /\ phase' = "going"
  /\ ctx' = "freed"
  /\ htable' = Empty
  /\ UNCHANGED <<array_size, fields, filler, i, call, exact, answer>>

ExitFree ==
  /\ phase = "going"
  /\ phase' = "gone"
  /\ ctx' = "null"
  /\ UNCHANGED <<array_size, htable, fields, filler, i, call, exact, answer>>

\* The parameter files are removed.
Teardown ==
  /\ phase \in {"gone", "failed"}
  /\ call = Idle
  /\ phase' = "absent"
  /\ array_size' = 0
  /\ UNCHANGED <<ctx, htable, fields, filler, i, call, exact, answer>>
-----------------------------------------------------------------------------
(* params.c *)

Callable == /\ call = Idle
            /\ phase # "absent"
            /\ RacyLifecycle \/ phase \notin {"building", "going"}

\* A callback starts and tests g_ctx.
Enter(op, arg) ==
  /\ Callable
  /\ \/ ctx = "null" /\ answer' = <<"invalid">> /\ UNCHANGED call
     \/ ctx # "null" /\ call' = [op |-> op, arg |-> arg] /\ UNCHANGED answer
  /\ UNCHANGED <<phase, ctx, array_size, htable, fields, filler, i, exact>>

\* Text that kstrtouint refuses, on search, rebuild or bucket_id.
EnterText ==
  /\ Callable
  /\ answer' = <<"invalid">>
  /\ UNCHANGED <<phase, ctx, array_size, htable, fields, filler, i, call, exact>>

Finish(a) == /\ answer' = a
             /\ call' = Idle
             /\ UNCHANGED <<phase, ctx, array_size, filler, i>>

\* ht_search: beyond array_size nothing is looked up; without memory for the
\* copy of the bucket the result stays "not found".
SearchFor(x, enough) ==
  /\ last_value' = x
  /\ last_bucket' = IF x < array_size THEN hash_min(x) ELSE 0
  /\ last_found' = IF /\ x < array_size
                      /\ enough
                      /\ bsearch(x, sort(collect_bucket(hash_min(x))))
                   THEN 1 ELSE 0

\* param_set_search answers 0 whatever ht_search returns.
Search ==
  /\ call.op = "search"
  /\ \E enough \in BOOLEAN :
       /\ enough \/ (call.arg < array_size /\ htable[hash_min(call.arg)] # <<>>)
       /\ SearchFor(call.arg, enough)
       /\ exact' = IF enough THEN 1 ELSE 0
  /\ Finish(<<"ok">>)
  /\ UNCHANGED <<htable, current_bucket_id>>

GetResult ==
  /\ call.op = "result"
  /\ Finish(<<"result", last_found, last_value, last_bucket>>)
  /\ UNCHANGED <<htable, fields, exact>>

Rebuild_noclear ==
  /\ call.op = "rebuild" /\ filler = "none"
  /\ \/ call.arg = 0 /\ Finish(<<"ok">>) /\ UNCHANGED <<htable, exact>>
     \/ /\ call.arg # 0
        /\ filler' = "rebuild" /\ i' = 0 /\ exact' = 0
        /\ UNCHANGED <<phase, ctx, array_size, htable, call, answer>>
  /\ UNCHANGED fields

\* param_set_rebuild: zero is ignored, else ht_clear, hash_init and ht_build.
Rebuild ==
  /\ call.op = "rebuild" /\ filler = "none"
  /\ \/ call.arg = 0 /\ Finish(<<"ok">>) /\ UNCHANGED <<htable, exact>>
     \/ /\ call.arg # 0
        /\ htable' = Empty
        /\ filler' = "rebuild" /\ i' = 0 /\ exact' = 0
        /\ UNCHANGED <<phase, ctx, array_size, call, answer>>
  /\ UNCHANGED fields

SetBucketId_off ==
  /\ call.op = "bucket_id"
  /\ \/ /\ call.arg <= HASH_TABLE_SIZE
        /\ current_bucket_id' = call.arg
        /\ Finish(<<"ok">>)
     \/ /\ call.arg > HASH_TABLE_SIZE
        /\ Finish(<<"invalid">>)
        /\ UNCHANGED current_bucket_id
  /\ UNCHANGED <<htable, last_found, last_value, last_bucket, exact>>

SetBucketId ==
  /\ call.op = "bucket_id"
  /\ \/ /\ call.arg < HASH_TABLE_SIZE
        /\ current_bucket_id' = call.arg
        /\ Finish(<<"ok">>)
     \/ /\ call.arg >= HASH_TABLE_SIZE
        /\ Finish(<<"invalid">>)
        /\ UNCHANGED current_bucket_id
  /\ UNCHANGED <<htable, last_found, last_value, last_bucket, exact>>

\* ht_bucket_dump: the sorted bucket, as far as the page goes; lack of memory
\* shows as "error: invalid bucket_id".
BucketDump ==
  /\ call.op = "bucket_dump"
  /\ LET s == sort(collect_bucket(current_bucket_id))
     IN  \/ Finish(<<"dump", Len(s), Printed(s)>>)
         \/ s # <<>> /\ Finish(<<"dump error", current_bucket_id>>)
  /\ UNCHANGED <<htable, fields, exact>>
-----------------------------------------------------------------------------
Loader == \/ Insmod \/ InitContext \/ ExitClear \/ ExitFree \/ Teardown

Build == BuildAdd \/ BuildDone \/ BuildFail

Use == Search \/ GetResult \/ Rebuild \/ SetBucketId \/ BucketDump

Next == \/ Loader
        \/ Build
        \/ \E x \in Searches : Enter("search", x)
        \/ \E v \in {0, 1} : Enter("rebuild", v)
        \/ \E b \in BucketIds : Enter("bucket_id", b)
        \/ \E op \in {"result", "bucket_dump"} : Enter(op, 0)
        \/ EnterText
        \/ Use

Spec == Init /\ [][Next]_vars
-----------------------------------------------------------------------------
(* Properties *)

(***************************************************************************)
(* Type invariant of struct bucket_search_ctx and the current callback.    *)
(***************************************************************************)
TypeOK ==
  /\ phase \in {"absent", "loading", "building", "live", "failed", "going", "gone"}
  /\ ctx \in {"null", "there", "freed"}
  /\ array_size \in ArraySizes \cup {0}
  /\ htable \in [Buckets -> Seq(Nat)]
  /\ last_found \in {0, 1} /\ last_value \in Nat
  /\ last_bucket \in Buckets /\ current_bucket_id \in Buckets
  /\ filler \in {"none", "init", "rebuild"}
  /\ i \in Nat /\ exact \in {0, 1}

\* Every value lies in the one bucket in which ht_search looks for it, and is
\* one that a search does not turn away as out of range.
Placed == \A b \in Buckets : \A v \in Range(htable[b]) : b = hash_min(v) /\ v < array_size

\* A callback finds the context allocated, and in it a table that was filled all
\* or nothing: between fills it has array_size entries, or none after a rebuild
\* that ran out of memory; entries are where a search looks; none is left in a
\* context that is gone.
TableWhole ==
  /\ call # Idle => ctx = "there"
  /\ filler = "none" => Entries \in {0, array_size}
  /\ ctx # "there" => Entries = 0
  /\ Placed

\* The result of a search that had memory is right: it says "found" exactly
\* when some bucket holds the value, until the table is filled anew.
SearchExact == ctx = "there" /\ exact = 1 => (last_found = 1 <=> last_value \in Stored)

\* v is the k-th value of s in ascending order.
Ranked(s, k, v) ==
  /\ Cardinality({j \in 1 .. Len(s) : s[j] < v}) < k
  /\ Cardinality({j \in 1 .. Len(s) : s[j] <= v}) >= k

\* bucket_dump shows the bucket in ascending order, each value as often as it
\* occurs.  As many values as fit are whole; after them comes at most one more
\* number, the first digits of the next value.
DumpRight ==
  LET b     == htable[current_bucket_id]
      shown == answer'[3]
  IN  call.op = "bucket_dump" /\ call' = Idle /\ answer'[1] = "dump" =>
        /\ answer'[2] = Len(b)
        /\ \E whole \in 0 .. Len(shown) :
             LET text == SubSeq(shown, 1, whole)
             IN  /\ \A k \in 1 .. whole : Ranked(b, k, text[k])
                 /\ Chars(text) <= ROOM
                 /\ \/ whole = Len(b) /\ whole = Len(shown)
                    \/ \E v \in Range(b) :
                         /\ Ranked(b, whole + 1, v) /\ Chars(Append(text, v)) > ROOM
                         /\ \/ whole = Len(shown)
                            \/ /\ Len(shown) = whole + 1
                               /\ \E d \in 1 .. Width(v) - 1 :
                                    shown[whole + 1] = v \div (RADIX ^ d)

\* Every dump is such.
DumpExact == [][DumpRight]_vars
=============================================================================
