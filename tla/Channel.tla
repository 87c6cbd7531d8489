------------------------------ MODULE Channel ------------------------------
(***************************************************************************)
(* What a first-in first-out channel promises: items come out in the order *)
(* they went in, each at most once, none invented.  A channel that may     *)
(* drop skips items; no channel says beforehand which it is going to skip. *)
(* The serial framing of the daemon is compared with it.                   *)
(***************************************************************************)
EXTENDS Naturals, Sequences

CONSTANT Items  \* what can be put in, of Nat \ {0}: numbered in order

VARIABLES
  mayDrop,  \* whether this channel may drop items
  input,    \* history: every item put in, in order
  output    \* history: every item taken out, in order

vars == <<mayDrop, input, output>>

Init ==
  /\ mayDrop \in BOOLEAN
  /\ input = <<>>
  /\ output = <<>>

Put(x) ==
  /\ input' = Append(input, x)
  /\ UNCHANGED <<mayDrop, output>>

\* The place in the input after the last item taken.
Passed == IF output = <<>> THEN 0
          ELSE CHOOSE n \in 1..Len(input) : input[n] = output[Len(output)]

\* The next item comes out, or a later one and those before it are dropped.
Take(n) ==
  /\ Passed < n
  /\ ~mayDrop => n = Passed + 1
  /\ output' = Append(output, input[n])
  /\ UNCHANGED <<mayDrop, input>>

Next ==
  \/ \E x \in Items : Put(x)
  \/ \E n \in 1..Len(input) : Take(n)

Spec == Init /\ [][Next]_vars

=============================================================================
