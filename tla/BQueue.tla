------------------------------- MODULE BQueue -------------------------------
(***************************************************************************)
(* The bounded queue of unitree_sdk2py/utils/bqueue.py as a value: the     *)
(* deque and the length the class counts beside it. Every method holds the *)
(* condition's lock from end to end, except for the wait of Get, so each   *)
(* operator is one step of the module that uses it; the waiting, and being *)
(* notified, are states of the thread that waits.                          *)
(***************************************************************************)
EXTENDS Naturals, Sequences

NewQueue == [items |-> << >>, curLen |-> 0]

Empty(q) == q.items = << >>

Full(q, maxLen) == q.curLen >= maxLen

(* Whether Put appends, and therefore notifies.                            *)
Accepts(q, replace, maxLen) == replace \/ ~Full(q, maxLen)

Popped(q) == [items |-> Tail(q.items), curLen |-> q.curLen - 1]

(* appendleft for append.                                                  *)
Mut_AppendLeft(q, x) == [items |-> <<x>> \o q.items, curLen |-> q.curLen + 1]

Appended(q, x) == [items |-> Append(q.items, x), curLen |-> q.curLen + 1]

(* A full queue refuses the new item, or gives up its oldest for it.       *)
Put(q, x, replace, maxLen) ==
    IF ~Accepts(q, replace, maxLen) THEN q
    ELSE Appended(IF Full(q, maxLen) THEN Popped(q) ELSE q, x)

(* The reset of the count is forgotten.                                    *)
Mut_ClearItemsOnly(q) == [q EXCEPT !.items = << >>]

Clear(q) == IF Empty(q) THEN q ELSE NewQueue
=============================================================================
