---------------------------- MODULE ReplayPromise ----------------------------
(***************************************************************************)
(* What answering resend requests promises the counterparty, whatever the  *)
(* store holds and however the work is cut into steps: the ranges owed are *)
(* answered one after the other, each from its first number to its end by  *)
(* frames that follow one another without a hole, and a message under a    *)
(* new number is written only when no range is owed.  A session that ends  *)
(* may drop what it still owes.                                            *)
(***************************************************************************)
EXTENDS Integers, Sequences

CONSTANT LastNumber     \* the numbers are 1 .. LastNumber

VARIABLES
  owed,     \* the ranges owed, oldest first, as [next, to]: `next` .. `to` - 1
  said,     \* the kind of the last frame written
  over      \* the session has ended

promiseVars == <<owed, said, over>>

Ranges == { r \in [next : 1 .. LastNumber, to : 2 .. LastNumber + 1] : r.next < r.to }

Promise == /\ owed \in {<<>>} \cup { <<r>> : r \in Ranges }
           /\ said = "none"
           /\ over = FALSE

\* A range is asked for.
Ask == /\ \E r \in Ranges : owed' = Append(owed, r)
       /\ UNCHANGED <<said, over>>

\* A range is asked for and joins the last one owed, which is not the one
\* being answered.
Join ==
  /\ Len(owed) > 1
  /\ \E r \in Ranges :
       LET last == owed[Len(owed)]
       IN owed' = [owed EXCEPT ![Len(owed)] =
                     [next |-> IF r.next < last.next THEN r.next ELSE last.next,
                      to   |-> IF r.to > last.to THEN r.to ELSE last.to]]
  /\ UNCHANGED <<said, over>>

\* The next frame of the range being answered: a message under its own number,
\* or a gap fill that stays within the range.
Answer ==
  /\ owed # <<>>
  /\ \E to \in owed[1].next + 1 .. owed[1].to, kind \in {"replay", "fill"} :
       /\ kind = "replay" => to = owed[1].next + 1
       /\ said' = kind
       /\ owed' \in {[owed EXCEPT ![1].next = to]}
                      \cup (IF to = owed[1].to THEN {Tail(owed)} ELSE {})
  /\ over' = over

\* A range answered to its end is forgotten.
Forget == /\ owed # <<>>
          /\ owed[1].next = owed[1].to
          /\ owed' = Tail(owed)
          /\ UNCHANGED <<said, over>>

\* A message under a new number.
Say == /\ owed = <<>>
       /\ said' = "new"
       /\ over' \in BOOLEAN
       /\ UNCHANGED owed

\* The session ends, whatever is owed, with a last message or without one.
End == /\ ~over
       /\ over' = TRUE
       /\ owed' = <<>>
       /\ said' \in {said, "new"}

Keep == ~over /\ (Ask \/ Join \/ Answer \/ Forget \/ Say \/ End)

PromiseSpec == Promise /\ [][Keep]_promiseVars
=============================================================================
