---------------------------- MODULE SqliteDeque ----------------------------
(***************************************************************************)
(* The persistent queue of mcubridge/state/storage.py: class SqliteDeque,   *)
(* a table of rows on disk and _length, a count kept in memory.             *)
(*                                                                         *)
(* An operation is a set of outcomes, one for each way it can end: d is the  *)
(* deque afterwards, res is "ok", "index" (IndexError) or "error"            *)
(* (aiosqlite.Error or OSError), item is what it returned, fault says that   *)
(* the database failed at least once, and lost are the rows deleted then.    *)
(***************************************************************************)
EXTENDS Integers, Sequences, SequencesExt

CONSTANTS MaxLen,     \* maxlen
          NoItem      \* no item returned

ASSUME DequeConstants == MaxLen \in Nat

\* __init__ opens or creates the table and counts its rows.
Opened(rows) == [rows |-> rows, length |-> Len(rows)]

Success(d, res, item) == [d |-> d, res |-> res, item |-> item, fault |-> FALSE, lost |-> {}]

\* _append_impl: the insertion, and the deletion of the oldest rows beyond maxlen by the count,
\* which takes the new row too when maxlen is 0, or when the count exceeds the rows.
append_impl(d, x) ==
    IF d.length + 1 > MaxLen
    THEN [rows   |-> SubSeq(d.rows \o <<x>>, d.length + 2 - MaxLen, Len(d.rows) + 1),
          length |-> MaxLen]
    ELSE [rows |-> Append(d.rows, x), length |-> d.length + 1]

\* Mutant: the count is not kept from becoming negative.
popleft_implNegative(d) ==
    IF d.rows = <<>> THEN Success(d, "index", NoItem)
    ELSE Success([rows |-> Tail(d.rows), length |-> d.length - 1], "ok", Head(d.rows))

popleft_impl(d) ==
    IF d.rows = <<>> THEN Success(d, "index", NoItem)
    ELSE Success([rows   |-> Tail(d.rows),
                  length |-> IF d.length = 0 THEN 0 ELSE d.length - 1],
                 "ok", Head(d.rows))

peek_impl(d) ==
    IF d.rows = <<>> THEN Success(d, "index", NoItem)
    ELSE Success(d, "ok", Head(d.rows))

\* _recreate_db deletes the files, or fails to and logs it; _length is 0 either way.
recreate_db(d) == {[rows |-> <<>>, length |-> 0], [rows |-> d.rows, length |-> 0]}

\* What an operation may find: the deque, or a new one after a failure.
Found(d) == {d} \cup recreate_db(d)

\* _execute: any error of the first attempt recreates the database and runs the
\* operation once more; an error of the second attempt is the caller's, and leaves in
\* _length what the operation had added to it, at most `added`, before its rollback.
execute(d, impl, added) ==
    {impl[d]}
    \cup UNION {LET failed(o) == [o EXCEPT !.fault = TRUE, !.lost = ToSet(d.rows) \ ToSet(r.rows)]
                    error(n)  == Success([r EXCEPT !.length = @ + n], "error", NoItem)
                IN {failed(impl[r])} \cup {failed(error(n)) : n \in 0 .. added}
                : r \in recreate_db(d)}

append(d, x) ==
    execute(d, [e \in Found(d) |-> Success(append_impl(e, x), "ok", NoItem)], 1)

popleft(d) == execute(d, [e \in Found(d) |-> popleft_impl(e)], 0)

peek(d) == execute(d, [e \in Found(d) |-> peek_impl(e)], 0)

vacuum(d) == execute(d, [e \in Found(d) |-> Success(e, "ok", NoItem)], 0)
============================================================================
