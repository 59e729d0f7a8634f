----------------------------- MODULE BoardPool -----------------------------
(***************************************************************************)
(* What an allocator promises (allocator.py): the boards it hands out are  *)
(* working and belong to one allocation at a time, and boards given back   *)
(* are handed out again only after they have been left alone for a while   *)
(* (seconds_before_free).                                                  *)
(*                                                                         *)
(* The promise is not kept for boards whose triad is shared by single      *)
(* boards when the working boards of the machine change: they are suspect. *)
(***************************************************************************)
EXTENDS Sequences, Naturals

CONSTANTS Board, Id

VARIABLES
  lent,     \* the boards of each live allocation
  cooling,  \* the boards given back, the first first
  ripe,     \* how many of these have been left alone for long enough
  dead,     \* the boards that do not work
  suspect

vars == <<lent, cooling, ripe, dead, suspect>>

Entrusted(B) == B \ suspect

Init ==
  /\ lent = [i \in {} |-> {}] /\ cooling = <<>> /\ ripe = 0
  /\ dead \subseteq Board /\ suspect = {}

Collected(n) ==
  /\ cooling' = SubSeq(cooling, n + 1, Len(cooling))
  /\ ripe' = ripe - n

\* Some of the boards that may be handed out again are collected.
Collect(n) ==
  /\ n \in 1 .. ripe
  /\ Collected(n)
  /\ UNCHANGED <<lent, dead, suspect>>

\* All of them are, and some boards are handed out.
Take(i) ==
  /\ i \in Id \ DOMAIN lent
  /\ lent' \in [DOMAIN lent \cup {i} -> SUBSET Board]
  /\ \A k \in DOMAIN lent : lent'[k] = lent[k]
  /\ lent'[i] # {}
  /\ Entrusted(lent'[i]) \cap dead = {}
  /\ \A k \in DOMAIN lent : Entrusted(lent'[i]) \cap lent[k] = {}
  /\ \A n \in ripe + 1 .. Len(cooling) : Entrusted(lent'[i]) \cap cooling[n] = {}
  /\ Collected(ripe)
  /\ UNCHANGED <<dead, suspect>>

Return(i) ==
  /\ i \in DOMAIN lent
  /\ cooling' = Append(cooling, lent[i])
  /\ lent' = [k \in DOMAIN lent \ {i} |-> lent[k]]
  /\ UNCHANGED <<ripe, dead, suspect>>

Ripen ==
  /\ ripe < Len(cooling)
  /\ ripe' = ripe + 1
  /\ UNCHANGED <<lent, cooling, dead, suspect>>

\* The machine is described anew.
Change ==
  /\ dead' \in SUBSET Board
  /\ suspect' \in SUBSET Board /\ suspect \subseteq suspect'
  /\ UNCHANGED <<lent, cooling, ripe>>

Next ==
  \/ \E n \in 1 .. ripe : Collect(n)
  \/ \E i \in Id : Take(i) \/ Return(i)
  \/ Ripen
  \/ Change

Spec == Init /\ [][Next]_vars

-----------------------------------------------------------------------------

\* Two allocations never hold the same board, and what an allocation holds is
\* not at the same time about to be handed out again (Allocator.alloc, free,
\* check_free).
Exclusive ==
  /\ \A i, k \in DOMAIN lent : i # k => Entrusted(lent[i]) \cap lent[k] = {}
  /\ \A i \in DOMAIN lent : \A n \in 1 .. Len(cooling) :
       Entrusted(lent[i]) \cap cooling[n] = {}
=============================================================================
