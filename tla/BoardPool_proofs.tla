-------------------------- MODULE BoardPool_proofs --------------------------
(***************************************************************************)
(* What the allocator promises is worth having: in whatever order boards   *)
(* are handed out, given back, collected and found dead, no two            *)
(* allocations hold one board.                                             *)
(***************************************************************************)
EXTENDS BoardPool, TLAPS

PTypeOK ==
  /\ lent \in [DOMAIN lent -> SUBSET Board]
  /\ cooling \in Seq(SUBSET Board)
  /\ ripe \in 0 .. Len(cooling)
  /\ suspect \subseteq Board

PInv == PTypeOK /\ Exclusive

\* What is left of the boards given back once the first n are collected.
LEMMA CollectedRest ==
  ASSUME PTypeOK, NEW n \in 0 .. ripe, Collected(n)
  PROVE  /\ cooling' \in Seq(SUBSET Board)
         /\ ripe' \in 0 .. Len(cooling')
         /\ \A k \in 1 .. Len(cooling') :
              n + k \in n + 1 .. Len(cooling) /\ cooling'[k] = cooling[n + k]
  BY DEF PTypeOK, Collected

LEMMA InitPInv == Init => PInv
  BY DEF Init, PInv, PTypeOK, Exclusive

LEMMA CollectPInv ==
  ASSUME PInv, NEW n \in 1 .. ripe, Collect(n)
  PROVE  PInv'
<1>1. PTypeOK /\ n \in 0 .. ripe /\ Collected(n) /\ UNCHANGED <<lent, dead, suspect>>
  BY DEF PInv, Collect, PTypeOK
<1>2. PTypeOK'
  BY <1>1, CollectedRest DEF PTypeOK
<1>3. Exclusive'
  BY <1>1, CollectedRest DEF PInv, PTypeOK, Exclusive, Entrusted
<1> QED BY <1>2, <1>3 DEF PInv

\* What is handed out is in no other allocation, and was not being left alone.
LEMMA TakePInv ==
  ASSUME PInv, NEW i \in Id, Take(i)
  PROVE  PInv'
<1>1. /\ PTypeOK /\ Exclusive /\ Collected(ripe) /\ UNCHANGED <<dead, suspect>>
      /\ ripe \in 0 .. ripe
  BY DEF PInv, PTypeOK, Take
<1>2. /\ lent' \in [DOMAIN lent \cup {i} -> SUBSET Board]
      /\ i \notin DOMAIN lent
      /\ \A k \in DOMAIN lent : lent'[k] = lent[k]
  BY DEF Take
<1>3. PTypeOK'
  BY <1>1, <1>2, CollectedRest DEF PTypeOK
<1>4. ASSUME NEW j \in DOMAIN lent', NEW k \in DOMAIN lent', j # k
      PROVE  Entrusted(lent'[j]) \cap lent'[k] = {}
  <2>1. \A k2 \in DOMAIN lent : Entrusted(lent'[i]) \cap lent[k2] = {}
    BY DEF Take
  <2> QED BY <1>1, <1>2, <1>4, <2>1 DEF Exclusive, Entrusted
<1>5. ASSUME NEW j \in DOMAIN lent', NEW n \in 1 .. Len(cooling')
      PROVE  Entrusted(lent'[j]) \cap cooling'[n] = {}
  <2>1. ripe + n \in ripe + 1 .. Len(cooling) /\ cooling'[n] = cooling[ripe + n]
    BY <1>1, <1>5, CollectedRest
  <2>2. ripe + n \in 1 .. Len(cooling)
    BY <1>1, <2>1 DEF PTypeOK
  <2>3. CASE j = i
    BY <2>1, <2>3 DEF Take
  <2>4. CASE j # i
    BY <1>1, <1>2, <2>1, <2>2, <2>4 DEF Exclusive
  <2> QED BY <2>3, <2>4
<1>6. Exclusive'
  BY <1>1, <1>4, <1>5 DEF Exclusive, Entrusted
<1> QED BY <1>3, <1>6 DEF PInv

LEMMA ReturnPInv ==
  ASSUME PInv, NEW i \in Id, Return(i)
  PROVE  PInv'
<1>1. /\ PTypeOK /\ Exclusive
      /\ i \in DOMAIN lent
      /\ cooling' = Append(cooling, lent[i])
      /\ lent' = [k \in DOMAIN lent \ {i} |-> lent[k]]
      /\ UNCHANGED <<ripe, dead, suspect>>
  BY DEF PInv, Return
<1>2. PTypeOK'
  BY <1>1 DEF PTypeOK
<1>3. ASSUME NEW k \in DOMAIN lent', NEW n \in 1 .. Len(cooling')
      PROVE  Entrusted(lent'[k]) \cap cooling'[n] = {}
  <2>1. CASE n = Len(cooling) + 1
    BY <1>1, <2>1 DEF PTypeOK, Exclusive
  <2>2. CASE n \in 1 .. Len(cooling)
    BY <1>1, <2>2 DEF PTypeOK, Exclusive
  <2> QED BY <1>1, <1>3, <2>1, <2>2 DEF PTypeOK
<1>4. Exclusive'
  BY <1>1, <1>3 DEF Exclusive, Entrusted
<1> QED BY <1>2, <1>4 DEF PInv

LEMMA NextPInv == PInv /\ [Next]_vars => PInv'
<1> SUFFICES ASSUME PInv, [Next]_vars
             PROVE  PInv'
  OBVIOUS
<1>1. CASE Ripen
  BY <1>1 DEF Ripen, PInv, PTypeOK, Exclusive, Entrusted
<1>2. CASE Change
  BY <1>2 DEF Change, PInv, PTypeOK, Exclusive, Entrusted
<1>3. CASE UNCHANGED vars
  BY <1>3 DEF vars, PInv, PTypeOK, Exclusive, Entrusted
<1> QED BY <1>1, <1>2, <1>3, CollectPInv, TakePInv, ReturnPInv DEF Next

\* However many boards and allocations there are, a board in working order is
\* never in two allocations, nor in one while it is being left alone.
THEOREM PoolIsExclusive == Spec => []Exclusive
<1>1. PInv => Exclusive
  BY DEF PInv
<1> QED BY <1>1, InitPInv, NextPInv, PTL DEF Spec
=============================================================================
