------------------------------- MODULE Cursor -------------------------------
(***************************************************************************)
(* What an iterator of the store promises (trait DbIterator,               *)
(* src/src/db_iter/db_iterator.rs): a cursor over a fixed set of entries   *)
(* in key order.  An entry is a pair <<key, value>>; `at' is the entry the *)
(* cursor is on, or End when valid() is false; `call' is the call that     *)
(* runs, <<>> between calls.  next() and prev() ask for a valid cursor.    *)
(***************************************************************************)
EXTENDS Integers

CONSTANT Targets                \* the keys seek() may be called with

VARIABLES elems, at, call

End == <<>>

LeastOf(S) == IF S = {} THEN End ELSE CHOOSE e \in S : \A d \in S : e[1] <= d[1]
GreatestOf(S) == IF S = {} THEN End ELSE CHOOSE e \in S : \A d \in S : e[1] >= d[1]

Calls ==
    {<<"first">>, <<"last">>} \cup {<<"seek", t>> : t \in Targets}
        \cup (IF at = End THEN {} ELSE {<<"next">>, <<"prev">>})

Result ==
    CASE call[1] = "first" -> LeastOf(elems)
      [] call[1] = "last" -> GreatestOf(elems)
      [] call[1] = "seek" -> LeastOf({e \in elems : e[1] >= call[2]})
      [] call[1] = "next" -> LeastOf({e \in elems : e[1] > at[1]})
      [] call[1] = "prev" -> GreatestOf({e \in elems : e[1] < at[1]})

Invoke == call = <<>> /\ call' \in Calls /\ UNCHANGED <<elems, at>>
Return == call # <<>> /\ call' = <<>> /\ at' = Result /\ UNCHANGED elems

Init == at = End /\ call = <<>>
Next == Invoke \/ Return
Spec == Init /\ [][Next]_<<elems, at, call>>

=============================================================================
