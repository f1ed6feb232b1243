------------------------------- MODULE Pipes -------------------------------
(***************************************************************************)
(* What the parties expect of NetIOMP (src/src/io/netmp.h): one reliable   *)
(* first-in first-out pipe per ordered pair of parties, and a sync that is *)
(* a barrier.  A pipe has two halves.  What is sent may first be held back *)
(* by the sender; it must be on its way, where the receiver can get it     *)
(* with no further step of the sender, when the sender leaves a sync.      *)
(*                                                                         *)
(* The n-th unit a party sends to another is the number n.                 *)
(***************************************************************************)
EXTENDS Integers, Sequences

CONSTANTS NP,      \* number of parties, 0 .. NP - 1, at least one
          MaxSend  \* bound for TLC: units per send, a natural number

Party == 0 .. (NP - 1)
Pair  == {d \in Party \X Party : d[1] # d[2]}     \* <<sender, receiver>>

VARIABLES held,     \* held[d]: sent, and still with the sender
          onWay,    \* onWay[d]: on its way to the receiver
          wrote,    \* wrote[d]: number of units sent so far
          got,      \* got[d]: what the receiver was given
          entered,  \* number of syncs each party has entered
          left      \* number of syncs each party has left

vars == <<held, onWay, wrote, got, entered, left>>

Init == /\ held = [d \in Pair |-> <<>>] /\ onWay = [d \in Pair |-> <<>>]
        /\ wrote = [d \in Pair |-> 0]   /\ got = [d \in Pair |-> <<>>]
        /\ entered = [p \in Party |-> 0] /\ left = [p \in Party |-> 0]

Put(d, n) ==
  /\ held'  = [held EXCEPT ![d] = @ \o [i \in 1 .. n |-> wrote[d] + i]]
  /\ wrote' = [wrote EXCEPT ![d] = @ + n]
  /\ UNCHANGED <<onWay, got, entered, left>>

Pass(d) ==
  /\ held[d] # <<>>
  /\ held'  = [held EXCEPT ![d] = Tail(@)]
  /\ onWay' = [onWay EXCEPT ![d] = Append(@, Head(held[d]))]
  /\ UNCHANGED <<wrote, got, entered, left>>

Take(d) ==
  /\ onWay[d] # <<>>
  /\ onWay' = [onWay EXCEPT ![d] = Tail(@)]
  /\ got'   = [got EXCEPT ![d] = Append(@, Head(onWay[d]))]
  /\ UNCHANGED <<held, wrote, entered, left>>

Enter(p) ==
  /\ entered[p] = left[p]
  /\ entered' = [entered EXCEPT ![p] = @ + 1]
  /\ UNCHANGED <<held, onWay, wrote, got, left>>

(* Nobody leaves a sync that somebody has not entered, nor while something *)
(* it has sent is still held back.                                         *)
Leave(p) ==
  /\ left[p] < entered[p]
  /\ \A q \in Party : left[p] < entered[q]
  /\ \A d \in Pair : d[1] = p => held[d] = <<>>
  /\ left' = [left EXCEPT ![p] = @ + 1]
  /\ UNCHANGED <<held, onWay, wrote, got, entered>>

Next == \/ \E d \in Pair : Pass(d) \/ Take(d) \/ \E n \in 0 .. MaxSend : Put(d, n)
        \/ \E p \in Party : Enter(p) \/ Leave(p)

Spec == Init /\ [][Next]_vars
=============================================================================
