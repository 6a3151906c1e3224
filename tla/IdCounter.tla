----------------------------- MODULE IdCounter -----------------------------
(***************************************************************************)
(* What NextID promises: an atomic fetch-and-add on one counter.  Taking   *)
(* an ID moves the counter on by one; a taken ID is later returned to its  *)
(* caller, or lost when the caller dies first.  No ID is ever taken twice, *)
(* so none is returned twice.  IdAlloc is shown to implement this.         *)
(***************************************************************************)
EXTENDS Naturals, Sequences

VARIABLES
  last,     \* the counter: the last ID taken, or no number if id.json is unusable
  taken,    \* IDs taken and not yet returned or lost
  issued    \* IDs returned to callers, in the order of their return

vars == <<last, taken, issued>>

Init ==
  /\ taken = {}
  /\ issued = <<>>

Take ==
  /\ last \in Nat
  /\ last' = last + 1
  /\ taken' = taken \cup {last + 1}
  /\ UNCHANGED issued

Return(id) ==
  /\ id \in taken
  /\ taken' = taken \ {id}
  /\ issued' = Append(issued, id)
  /\ UNCHANGED last

Lose(id) ==
  /\ id \in taken
  /\ taken' = taken \ {id}
  /\ UNCHANGED <<last, issued>>

Next == Take \/ \E id \in taken : Return(id) \/ Lose(id)

Spec == Init /\ [][Next]_vars
=============================================================================
