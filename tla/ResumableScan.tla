---------------------------- MODULE ResumableScan ----------------------------
(***************************************************************************)
(* What a resumable scan promises, whatever its loop, its goroutines and   *)
(* its checkpoint file look like: work that was dealt with stays dealt     *)
(* with, what is saved never claims more than that, and a scan finishes    *)
(* only when every retry went over every unit in one and the same order.   *)
(***************************************************************************)
EXTENDS Integers

CONSTANTS
  Retries,  \* how often the whole range is gone over
  Orders,   \* the orders in which a retry may go over it
  Units,    \* the positions of an order
  Exempt    \* <<order, unit>> that nobody has to deal with, in any retry

VARIABLES
  status,  \* "scanning", "finished" or "down"
  done,    \* <<retry, order, unit>> dealt with
  saved    \* what a later process is told: whole retries, and some units

vars == <<status, done, saved>>

Nothing == [retries |-> 0, units |-> {}]

Settled(r, o, u) == <<o, u>> \in Exempt \/ <<r, o, u>> \in done

Complete(r) == \E o \in Orders : \A u \in Units : Settled(r, o, u)

Init ==
  /\ status = "scanning"
  /\ done = {}
  /\ saved = Nothing

\* Some unit is dealt with.
Progress ==
  /\ status = "scanning"
  /\ done \subseteq done'
  /\ UNCHANGED <<status, saved>>

\* At any time a process may be told all that is done, or less, ...
Save ==
  /\ status # "down"
  /\ \A c \in saved'.units : Settled(c[1], c[2], c[3])
  /\ \A r \in 0 .. (saved'.retries - 1) : Complete(r)
  /\ UNCHANGED <<status, done>>

\* ... or nothing at all.
Forget ==
  /\ saved' = Nothing
  /\ UNCHANGED <<status, done>>

Finish ==
  /\ status = "scanning"
  /\ \A r \in 0 .. (Retries - 1) : Complete(r)
  /\ status' = "finished"
  /\ UNCHANGED <<done, saved>>

Stop ==
  /\ status' = "down"
  /\ UNCHANGED <<done, saved>>

Resume ==
  /\ status = "down"
  /\ status' = "scanning"
  /\ UNCHANGED <<done, saved>>

Next == Progress \/ Save \/ Forget \/ Finish \/ Stop \/ Resume

Spec == Init /\ [][Next]_vars
=============================================================================
