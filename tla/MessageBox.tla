----------------------------- MODULE MessageBox -----------------------------
(***************************************************************************)
(* What one connection's message queue promises, with no ring, no lock and *)
(* no memory: a bounded first-in-first-out box of message identifiers.     *)
(* MessageQueue, the module of the code, implements it.                    *)
(***************************************************************************)
EXTENDS Naturals, Sequences

CONSTANT Capacity           \* messages the box holds at most

VARIABLES
  box,      \* identifiers waiting for the recipient, oldest first
  taken,    \* identifiers handed to the recipient, in that order
  issued    \* the largest identifier given out so far

boxVars == <<box, taken, issued>>

BoxInit ==
  /\ box = <<>>
  /\ taken = <<>>
  /\ issued = 0

\* An identifier is given out, for this box or for another use.
Issue ==
  /\ issued' = issued + 1
  /\ UNCHANGED <<box, taken>>

\* A message joins the box under an identifier that was given out and is
\* newer than every one the box has ever held.
Post ==
  /\ Len(box) < Capacity
  /\ \E m \in 1 .. issued :
       /\ \A i \in 1 .. Len(box) : box[i] < m
       /\ \A i \in 1 .. Len(taken) : taken[i] < m
       /\ box' = Append(box, m)
  /\ UNCHANGED <<taken, issued>>

\* The oldest message goes to the recipient.
Take ==
  /\ box # <<>>
  /\ taken' = Append(taken, Head(box))
  /\ box' = Tail(box)
  /\ UNCHANGED issued

\* The connection ends: what is left is dropped.
Discard ==
  /\ box' = <<>>
  /\ UNCHANGED <<taken, issued>>

BoxNext == Issue \/ Post \/ Take \/ Discard

BoxSpec == BoxInit /\ [][BoxNext]_boxVars

-----------------------------------------------------------------------------

BoxTypeOK ==
  /\ box \in Seq(Nat)
  /\ taken \in Seq(Nat)
  /\ issued \in Nat

\* Nothing waits that is older than something delivered, and what was
\* delivered came in increasing order: no duplicate, no overtaking.
InOrder ==
  /\ \A i, j \in 1 .. Len(taken) : i < j => taken[i] < taken[j]
  /\ \A i, j \in 1 .. Len(box) : i < j => box[i] < box[j]
  /\ \A i \in 1 .. Len(taken) : \A j \in 1 .. Len(box) : taken[i] < box[j]
=============================================================================
