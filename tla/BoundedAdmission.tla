-------------------------- MODULE BoundedAdmission --------------------------
(***************************************************************************)
(* What the slots of a managed runtime promise their callers: at most Limit *)
(* calls at a time, a bounded waiting line served first come first served, *)
(* nobody overtaking the line, and a call leaving the line only to start or *)
(* because the whole line is dismissed.  There is no counter here: what    *)
(* counts is who holds a slot.                                             *)
(***************************************************************************)
EXTENDS Naturals, Sequences, FiniteSets

CONSTANTS Callers, Limit, Bound

VARIABLES holders, waiting

admissionVars == <<holders, waiting>>

Init == holders = {} /\ waiting = <<>>

Take(r) ==
  /\ r \notin holders
  /\ waiting = <<>> /\ Cardinality(holders) < Limit
  /\ holders' = holders \cup {r}
  /\ UNCHANGED waiting

Join(r) ==
  /\ r \notin holders /\ \A i \in 1..Len(waiting) : waiting[i] # r
  /\ Cardinality(holders) = Limit /\ Len(waiting) < Bound
  /\ waiting' = Append(waiting, r)
  /\ UNCHANGED holders

(* The slot of a call that ends goes straight to the head of the line.     *)
Leave(r) ==
  /\ r \in holders
  /\ \/ /\ waiting = <<>>
        /\ holders' = holders \ {r}
        /\ UNCHANGED waiting
     \/ /\ waiting # <<>>
        /\ holders' = (holders \ {r}) \cup {Head(waiting)}
        /\ waiting' = Tail(waiting)

Dismiss ==
  /\ waiting # <<>>
  /\ waiting' = <<>>
  /\ UNCHANGED holders

Next == Dismiss \/ \E r \in Callers : Take(r) \/ Join(r) \/ Leave(r)

Spec == Init /\ [][Next]_admissionVars
=============================================================================
