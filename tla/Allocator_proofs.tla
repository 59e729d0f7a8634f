-------------------------- MODULE Allocator_proofs --------------------------
(***************************************************************************)
(* The allocator never loses or shares a board, and the PackTree it cuts   *)
(* its machine up with never holds more cuts than it needs.  Proved here   *)
(* for machines of any size, with any faults, requests and number of       *)
(* allocations.                                                            *)
(*                                                                         *)
(* The library has no induction that these provers can use, but it has     *)
(* that every set of numbers has a least one: what is shown of every step  *)
(* of a recursion is shown of the first step at which it would not hold.   *)
(***************************************************************************)
EXTENDS Allocator, FiniteSetTheorems, WellFoundedInduction, TLAPS

\* What induction over numbers is done with here: a set of numbers that is not
\* empty has a least one.
LEMMA LeastNat ==
  ASSUME NEW T, T \subseteq Nat, T # {}
  PROVE  \E n \in T : \A k \in T : n <= k
<1> DEFINE R == OpToRel(<, Nat)
<1>1. PICK n \in T : \A k \in T : <<k, n>> \notin R
  <2>1. IsWellFoundedOn(R, Nat)
    BY NatLessThanWellFounded
  <2> HIDE DEF R
  <2> QED BY <2>1, WFMin
<1>2. ASSUME NEW k \in T
      PROVE  n <= k
  <2>1. n \in Nat /\ k \in Nat
    OBVIOUS
  <2>2. <<k, n>> \notin {ss \in Nat \X Nat : ss[1] < ss[2]}
    BY <1>1 DEF OpToRel
  <2>3. ~ (k < n)
    BY <2>1, <2>2
  <2> QED BY <2>1, <2>3
<1> QED BY <1>2

-----------------------------------------------------------------------------
(* Rectangles.                                                             *)

Box == [x : Int, y : Int, w : Nat \ {0}, h : Nat \ {0}]

Size(r) == r.w + r.h

\* They have no point in common.
Apart(r, s) ==
  \/ r.x + r.w <= s.x \/ s.x + s.w <= r.x
  \/ r.y + r.h <= s.y \/ s.y + s.h <= r.y

\* Rectangle r is cut into c, at the left or the bottom, and d.
CutInto(r, c, d) ==
  \/ /\ c.x = r.x /\ d.x = r.x + c.w /\ c.w + d.w = r.w
     /\ c.y = r.y /\ d.y = r.y /\ c.h = r.h /\ d.h = r.h
  \/ /\ c.x = r.x /\ d.x = r.x /\ c.w = r.w /\ d.w = r.w
     /\ c.y = r.y /\ d.y = r.y + c.h /\ c.h + d.h = r.h

LEMMA BoxFields ==
  ASSUME NEW r \in Box
  PROVE  /\ r.x \in Int /\ r.y \in Int
         /\ r.w \in Nat \ {0} /\ r.h \in Nat \ {0}
         /\ r = Rect(r.x, r.y, r.w, r.h)
         /\ Size(r) \in Nat /\ Size(r) >= 2
  BY DEF Box, Rect, Size

LEMMA RectFields ==
  ASSUME NEW x \in Int, NEW y \in Int, NEW w \in Nat \ {0}, NEW h \in Nat \ {0}
  PROVE  /\ Rect(x, y, w, h) \in Box
         /\ Rect(x, y, w, h).x = x /\ Rect(x, y, w, h).y = y
         /\ Rect(x, y, w, h).w = w /\ Rect(x, y, w, h).h = h
  BY DEF Box, Rect

LEMMA BoxEqual ==
  ASSUME NEW r \in Box, NEW s \in Box, r.x = s.x, r.y = s.y, r.w = s.w, r.h = s.h
  PROVE  r = s
  BY BoxFields

LEMMA WithinTransitive ==
  ASSUME NEW r \in Box, NEW s \in Box, NEW q \in Box, Within(r, s), Within(s, q)
  PROVE  Within(r, q)
<1>1. /\ r.x \in Int /\ r.y \in Int /\ r.w \in Nat /\ r.h \in Nat
      /\ s.x \in Int /\ s.y \in Int /\ s.w \in Nat /\ s.h \in Nat
      /\ q.x \in Int /\ q.y \in Int /\ q.w \in Nat /\ q.h \in Nat
  BY BoxFields
<1> QED BY <1>1 DEF Within

LEMMA WithinItself ==
  ASSUME NEW r \in Box
  PROVE  Within(r, r)
<1>1. r.x \in Int /\ r.y \in Int /\ r.w \in Nat /\ r.h \in Nat
  BY BoxFields
<1> QED BY <1>1 DEF Within

LEMMA WithinSmaller ==
  ASSUME NEW r \in Box, NEW s \in Box, Within(r, s), r # s
  PROVE  Size(r) < Size(s) /\ ~ Within(s, r)
<1>1. /\ r.x \in Int /\ r.y \in Int /\ r.w \in Nat /\ r.h \in Nat
      /\ s.x \in Int /\ s.y \in Int /\ s.w \in Nat /\ s.h \in Nat
  BY BoxFields
<1>2. ~ (r.x = s.x /\ r.y = s.y /\ r.w = s.w /\ r.h = s.h)
  BY BoxEqual
<1>3. /\ s.x <= r.x /\ r.x + r.w <= s.x + s.w
      /\ s.y <= r.y /\ r.y + r.h <= s.y + s.h
  BY DEF Within
<1>4. r.w <= s.w /\ r.h <= s.h
  BY <1>1, <1>3
<1>5. ~ (r.w = s.w /\ r.h = s.h)
  BY <1>1, <1>2, <1>3
<1>6. Size(r) < Size(s)
  BY <1>1, <1>4, <1>5 DEF Size
<1>7. ASSUME Within(s, r)
      PROVE  FALSE
  <2>1. /\ r.x <= s.x /\ s.x + s.w <= r.x + r.w
        /\ r.y <= s.y /\ s.y + s.h <= r.y + r.h
    BY <1>7 DEF Within
  <2> QED BY <1>1, <1>3, <1>5, <2>1
<1> QED BY <1>6, <1>7

LEMMA ApartWithin ==
  ASSUME NEW r \in Box, NEW s \in Box, NEW p \in Box, NEW q \in Box,
         Apart(r, s), Within(p, r), Within(q, s)
  PROVE  Apart(p, q) /\ Apart(q, p) /\ p # q /\ ~ Within(p, q) /\ ~ Within(q, p)
<1>1. /\ r.x \in Int /\ r.y \in Int /\ r.w \in Nat \ {0} /\ r.h \in Nat \ {0}
      /\ s.x \in Int /\ s.y \in Int /\ s.w \in Nat \ {0} /\ s.h \in Nat \ {0}
      /\ p.x \in Int /\ p.y \in Int /\ p.w \in Nat \ {0} /\ p.h \in Nat \ {0}
      /\ q.x \in Int /\ q.y \in Int /\ q.w \in Nat \ {0} /\ q.h \in Nat \ {0}
  BY BoxFields
<1>2. Apart(p, q)
  BY <1>1 DEF Within, Apart
<1>3. Apart(q, p)
  BY <1>1, <1>2 DEF Apart
<1>4. ~ Within(p, q) /\ ~ Within(q, p)
  BY <1>1, <1>2 DEF Within, Apart
<1> QED BY <1>2, <1>3, <1>4, WithinItself

LEMMA ContainsWithin ==
  ASSUME NEW r \in Box, NEW s \in Box, NEW xy \in Int \X Int, Within(r, s), Contains(r, xy)
  PROVE  Contains(s, xy)
<1>1. /\ r.x \in Int /\ r.y \in Int /\ r.w \in Nat /\ r.h \in Nat
      /\ s.x \in Int /\ s.y \in Int /\ s.w \in Nat /\ s.h \in Nat
      /\ xy[1] \in Int /\ xy[2] \in Int
  BY BoxFields
<1> QED BY <1>1 DEF Within, Contains

LEMMA ContainsApart ==
  ASSUME NEW r \in Box, NEW s \in Box, NEW xy \in Int \X Int,
         Contains(r, xy), Contains(s, xy)
  PROVE  ~ Apart(r, s)
<1>1. /\ r.x \in Int /\ r.y \in Int /\ r.w \in Nat /\ r.h \in Nat
      /\ s.x \in Int /\ s.y \in Int /\ s.w \in Nat /\ s.h \in Nat
      /\ xy[1] \in Int /\ xy[2] \in Int
  BY BoxFields
<1> QED BY <1>1 DEF Apart, Contains

LEMMA CutFacts ==
  ASSUME NEW r \in Box, NEW c \in Box, NEW d \in Box, CutInto(r, c, d)
  PROVE  /\ Within(c, r) /\ Within(d, r) /\ c # r /\ d # r /\ c # d
         /\ Apart(c, d) /\ Apart(d, c)
         /\ Size(c) < Size(r) /\ Size(d) < Size(r)
         /\ \A xy \in Int \X Int :
              Contains(r, xy) <=> Contains(c, xy) \/ Contains(d, xy)
<1>1. /\ r.x \in Int /\ r.y \in Int /\ r.w \in Nat \ {0} /\ r.h \in Nat \ {0}
      /\ c.x \in Int /\ c.y \in Int /\ c.w \in Nat \ {0} /\ c.h \in Nat \ {0}
      /\ d.x \in Int /\ d.y \in Int /\ d.w \in Nat \ {0} /\ d.h \in Nat \ {0}
  BY BoxFields
<1>2. /\ Within(c, r) /\ Within(d, r) /\ Size(c) < Size(r) /\ Size(d) < Size(r)
      /\ Apart(c, d) /\ Apart(d, c)
  <2>1. CASE /\ c.x = r.x /\ d.x = r.x + c.w /\ c.w + d.w = r.w
             /\ c.y = r.y /\ d.y = r.y /\ c.h = r.h /\ d.h = r.h
    BY <1>1, <2>1 DEF Within, Size, Apart
  <2>2. CASE /\ c.x = r.x /\ d.x = r.x /\ c.w = r.w /\ d.w = r.w
             /\ c.y = r.y /\ d.y = r.y + c.h /\ c.h + d.h = r.h
    BY <1>1, <2>2 DEF Within, Size, Apart
  <2> QED BY <2>1, <2>2 DEF CutInto
<1>3. c # r /\ d # r /\ c # d
  <2>1. ~ (Size(r) < Size(r)) /\ ~ Apart(c, c)
    BY <1>1 DEF Size, Apart
  <2> QED BY <1>2, <2>1
<1>4. ASSUME NEW xy \in Int \X Int
      PROVE  Contains(r, xy) <=> Contains(c, xy) \/ Contains(d, xy)
  <2>1. xy[1] \in Int /\ xy[2] \in Int
    OBVIOUS
  <2> QED BY <1>1, <2>1 DEF CutInto, Contains
<1> QED BY <1>2, <1>3, <1>4

\* One of a set of rectangles is the smallest.
LEMMA SmallestBox ==
  ASSUME NEW T, T \subseteq Box, T # {}
  PROVE  \E r \in T : \A s \in T : Size(r) <= Size(s)
<1> DEFINE Sizes == {Size(r) : r \in T}
<1>1. Sizes \subseteq Nat /\ Sizes # {}
  BY BoxFields
<1>2. PICK n \in Sizes : \A k \in Sizes : n <= k
  <2> HIDE DEF Sizes
  <2> QED BY <1>1, LeastNat
<1> QED BY <1>2

-----------------------------------------------------------------------------
(* Nodes of a tree.                                                        *)

Under(N, r) == {s \in N : s # r /\ Within(s, r)}

Cut(N, r) == \E s \in N : s # r /\ Within(s, r)

\* Node r is cut into nodes c and d, and what is under it lies in these.
Parts(N, r, c, d) ==
  /\ CutInto(r, c, d)
  /\ \A s \in Under(N, r) : Within(s, c) \/ Within(s, d)

\* The nodes in N are those of a binary tree.
Binary(N) ==
  /\ N \subseteq Box
  /\ \E root \in N : \A s \in N : Within(s, root)
  /\ \A r \in N : Cut(N, r) => \E c, d \in N : Parts(N, r, c, d)

\* Two nodes lie one in the other, or are apart.
LEMMA Nested ==
  ASSUME NEW N, Binary(N), NEW a \in N, NEW b \in N
  PROVE  Within(a, b) \/ Within(b, a) \/ (Apart(a, b) /\ Apart(b, a))
<1>1. N \subseteq Box
  BY DEF Binary
<1> DEFINE Both == {r \in N : Within(a, r) /\ Within(b, r)}
<1>2. PICK r \in Both : \A s \in Both : Size(r) <= Size(s)
  <2>1. Both # {}
    BY DEF Binary
  <2>2. Both \subseteq Box
    BY <1>1
  <2> HIDE DEF Both
  <2> QED BY <2>1, <2>2, SmallestBox
<1>3. r \in N /\ r \in Box /\ Within(a, r) /\ Within(b, r) /\ a \in Box /\ b \in Box
  BY <1>1, <1>2
<1>4. CASE a = r \/ b = r
  BY <1>3, <1>4
<1>5. CASE a # r /\ b # r
  <2>1. Cut(N, r)
    BY <1>3, <1>5 DEF Cut
  <2>2. PICK c \in N, d \in N : Parts(N, r, c, d)
    BY <1>3, <2>1 DEF Binary
  <2>3. c \in Box /\ d \in Box /\ CutInto(r, c, d)
    BY <1>1, <2>2 DEF Parts
  <2>4. Apart(c, d) /\ Apart(d, c) /\ Size(c) < Size(r) /\ Size(d) < Size(r)
    BY <1>3, <2>3, CutFacts
  <2>5. (Within(a, c) \/ Within(a, d)) /\ (Within(b, c) \/ Within(b, d))
    BY <1>3, <1>5, <2>2 DEF Parts, Under
  <2>6. ~ (Within(a, c) /\ Within(b, c)) /\ ~ (Within(a, d) /\ Within(b, d))
    <3>1. Size(c) \in Nat /\ Size(d) \in Nat /\ Size(r) \in Nat
      BY <1>3, <2>3, BoxFields
    <3> QED BY <1>2, <2>4, <3>1
  <2> QED BY <1>3, <2>3, <2>4, <2>5, <2>6, ApartWithin
<1> QED BY <1>4, <1>5

\* Two leaves are apart.
LEMMA LeavesApart ==
  ASSUME NEW N, Binary(N), NEW a \in N, NEW b \in N, ~ Cut(N, a), ~ Cut(N, b), a # b
  PROVE  Apart(a, b)
  BY Nested DEF Cut

\* The smallest node around xy is a leaf, and lies in every node around it.
LEMMA AroundFacts ==
  ASSUME NEW N, Binary(N), NEW xy \in Int \X Int, NEW n \in N, Contains(n, xy)
  PROVE  /\ Around(N, xy) \in N /\ Contains(Around(N, xy), xy) /\ ~ Cut(N, Around(N, xy))
         /\ \A p \in N : Contains(p, xy) => Within(Around(N, xy), p)
         /\ \A p \in N : Contains(p, xy) /\ ~ Cut(N, p) => p = Around(N, xy)
<1>1. N \subseteq Box
  BY DEF Binary
<1> DEFINE T == {p \in N : Contains(p, xy)}
<1>2. PICK s \in T : \A p \in T : Size(s) <= Size(p)
  <2>1. T # {} /\ T \subseteq Box
    BY <1>1
  <2> HIDE DEF T
  <2> QED BY <2>1, SmallestBox
<1>3. s \in N /\ s \in Box /\ Contains(s, xy)
  BY <1>1, <1>2
<1>4. ~ Cut(N, s)
  <2> SUFFICES ASSUME Cut(N, s) PROVE FALSE
    OBVIOUS
  <2>1. PICK c \in N, d \in N : Parts(N, s, c, d)
    BY <1>3 DEF Binary
  <2>2. c \in Box /\ d \in Box /\ CutInto(s, c, d)
    BY <1>1, <2>1 DEF Parts
  <2>3. /\ Contains(c, xy) \/ Contains(d, xy)
        /\ Size(c) < Size(s) /\ Size(d) < Size(s)
    BY <1>3, <2>2, CutFacts
  <2>4. Size(c) \in Nat /\ Size(d) \in Nat /\ Size(s) \in Nat
    BY <1>3, <2>2, BoxFields
  <2> QED BY <1>2, <2>3, <2>4
<1>5. ASSUME NEW p \in N, Contains(p, xy)
      PROVE  Within(s, p)
  <2>1. ~ Apart(s, p)
    BY <1>1, <1>3, <1>5, ContainsApart
  <2>2. Within(s, p) \/ Within(p, s)
    BY <1>3, <2>1, Nested
  <2>3. Within(p, s) => p = s
    BY <1>4 DEF Cut
  <2> QED BY <1>3, <2>2, <2>3, WithinItself
<1>6. Around(N, xy) = s
  <2>1. ASSUME NEW q \in N, Contains(q, xy), \A p \in N : Contains(p, xy) => Within(q, p)
        PROVE  q = s
    <3>1. Within(q, s)
      BY <1>3, <2>1
    <3> QED BY <1>4, <3>1 DEF Cut
  <2> QED BY <1>3, <1>5, <2>1 DEF Around
<1>7. ASSUME NEW p \in N, Contains(p, xy), ~ Cut(N, p)
      PROVE  p = s
  BY <1>3, <1>5, <1>7 DEF Cut
<1> QED BY <1>3, <1>4, <1>5, <1>6, <1>7

LEMMA BelowUnder ==
  ASSUME NEW t, NEW r
  PROVE  Below(t, r) = Under(t.nodes, r)
  BY DEF Below, Under, Cut

LEMMA LeavesUnder ==
  ASSUME NEW t
  PROVE  Leaves(t) = {r \in t.nodes : ~ Cut(t.nodes, r)}
  BY BelowUnder DEF Leaves, Under, Cut

LEMMA ChildrenFacts ==
  ASSUME NEW t, Binary(t.nodes), NEW r \in t.nodes, NEW c \in t.nodes, NEW d \in t.nodes,
         Parts(t.nodes, r, c, d)
  PROVE  Children(t, r) = {c, d}
<1>1. r \in Box /\ c \in Box /\ d \in Box /\ t.nodes \subseteq Box
  BY DEF Binary
<1>2. /\ Within(c, r) /\ Within(d, r) /\ c # r /\ d # r /\ Apart(c, d)
  BY <1>1, CutFacts DEF Parts
<1>3. c \in Under(t.nodes, r) /\ d \in Under(t.nodes, r)
  BY <1>2 DEF Under
<1>4. Within(c, c) /\ Within(d, d) /\ ~ Within(c, d) /\ ~ Within(d, c)
  BY <1>1, <1>2, WithinItself, ApartWithin
<1>5. \A s \in Under(t.nodes, r) : Within(s, c) \/ Within(s, d)
  BY DEF Parts
<1>6. ASSUME NEW s \in Under(t.nodes, r), \A o \in Under(t.nodes, r) : Within(s, o) => o = s
      PROVE  s \in {c, d}
  BY <1>3, <1>5, <1>6
<1>7. ASSUME NEW s \in {c, d}, NEW o \in Under(t.nodes, r), Within(s, o)
      PROVE  o = s
  <2>1. o \in Box /\ s \in Box
    BY <1>1 DEF Under
  <2>2. Within(o, s)
    <3>1. Within(o, c) \/ Within(o, d)
      BY <1>5
    <3> QED BY <1>1, <1>4, <1>7, <2>1, <3>1, WithinTransitive
  <2> QED BY <1>7, <2>1, <2>2, WithinSmaller
<1> QED BY <1>3, <1>6, <1>7, BelowUnder DEF Children

\* A leaf is cut in two.
LEMMA SplitBinary ==
  ASSUME NEW N, Binary(N), NEW r \in N, ~ Cut(N, r),
         NEW c \in Box, NEW d \in Box, CutInto(r, c, d)
  PROVE  /\ Binary(N \cup {c, d})
         /\ ~ Cut(N \cup {c, d}, c) /\ ~ Cut(N \cup {c, d}, d)
         /\ \A q \in N : q # r /\ ~ Cut(N, q) => ~ Cut(N \cup {c, d}, q)
         /\ \A q \in N : q # r /\ Cut(N \cup {c, d}, q) => Cut(N, q)
<1> DEFINE M == N \cup {c, d}
<1>1. N \subseteq Box /\ r \in Box /\ M \subseteq Box
  BY DEF Binary
<1>2. /\ Within(c, r) /\ Within(d, r) /\ c # r /\ d # r /\ c # d
      /\ Apart(c, d) /\ Apart(d, c)
  BY <1>1, CutFacts
<1>3. Within(c, c) /\ Within(d, d) /\ ~ Within(c, d) /\ ~ Within(d, c)
  BY <1>2, WithinItself, ApartWithin
<1>4. ASSUME NEW p \in {c, d}, NEW q \in N, q # r, Within(p, q)
      PROVE  Within(r, q)
  <2>1. Within(q, r) => FALSE
    BY <1>4 DEF Cut
  <2>2. Apart(q, r) => FALSE
    <3>1. p \in Box /\ q \in Box /\ Within(p, r)
      BY <1>1, <1>2
    <3>2. Within(p, p)
      BY <3>1, WithinItself
    <3> QED BY <1>1, <1>4, <3>1, <3>2, ApartWithin
  <2> QED BY <2>1, <2>2, Nested
<1>5. ASSUME NEW p \in {c, d}, NEW q \in N
      PROVE  ~ Within(q, p)
  <2> SUFFICES ASSUME Within(q, p) PROVE FALSE
    OBVIOUS
  <2>1. p \in Box /\ q \in Box /\ Within(p, r) /\ p # r
    BY <1>1, <1>2
  <2>2. Within(q, r)
    BY <1>1, <2>1, WithinTransitive
  <2>3. q = r
    BY <2>2 DEF Cut
  <2> QED BY <1>1, <2>1, <2>3, WithinSmaller
<1>6. ~ Cut(M, c) /\ ~ Cut(M, d)
  BY <1>3, <1>5 DEF Cut
<1>7. ASSUME NEW q \in N, q # r, Cut(M, q)
      PROVE  Cut(N, q)
  BY <1>4, <1>7 DEF Cut
<1>8. \E root \in M : \A s \in M : Within(s, root)
  <2>1. PICK root \in N : \A s \in N : Within(s, root)
    BY DEF Binary
  <2>2. \A s \in M : Within(s, root)
    BY <1>1, <1>2, <2>1, WithinTransitive
  <2> QED BY <2>1, <2>2
<1>9. ASSUME NEW q \in M, Cut(M, q)
      PROVE  \E p1, p2 \in M : Parts(M, q, p1, p2)
  <2>1. q \in N
    BY <1>6, <1>9
  <2>2. CASE q = r
    <3>1. \A s \in Under(M, q) : Within(s, c) \/ Within(s, d)
      BY <1>3, <2>2 DEF Under, Cut
    <3> QED BY <2>2, <3>1 DEF Parts
  <2>3. CASE q # r
    <3>1. PICK p1 \in N, p2 \in N : Parts(N, q, p1, p2)
      BY <1>7, <1>9, <2>1, <2>3 DEF Binary
    <3>2. ASSUME NEW s \in {c, d}, Within(s, q)
          PROVE  Within(s, p1) \/ Within(s, p2)
      <4>1. Within(r, q)
        BY <1>4, <2>1, <2>3, <3>2
      <4>2. Within(r, p1) \/ Within(r, p2)
        BY <2>3, <3>1, <4>1 DEF Parts, Under
      <4>3. s \in Box /\ p1 \in Box /\ p2 \in Box /\ Within(s, r)
        BY <1>1, <1>2, <3>1
      <4> QED BY <1>1, <4>2, <4>3, WithinTransitive
    <3>3. \A s \in Under(M, q) : Within(s, p1) \/ Within(s, p2)
      BY <3>1, <3>2 DEF Parts, Under
    <3> QED BY <3>1, <3>3 DEF Parts
  <2> QED BY <2>2, <2>3
<1>10. Binary(M)
  <2> HIDE DEF M
  <2> QED BY <1>1, <1>8, <1>9 DEF Binary
<1> QED BY <1>6, <1>7, <1>10

\* What is left of nodes N when those in J become leaves.
Pruned(N, J) == {s \in N : \A n \in J : s \notin Under(N, n)}

LEMMA PruneBinary ==
  ASSUME NEW N, Binary(N), NEW J, J \subseteq N
  PROVE  /\ Binary(Pruned(N, J))
         /\ \A r \in Pruned(N, J) : Cut(Pruned(N, J), r) => Cut(N, r) /\ r \notin J
         /\ \A r \in N : (\A s \in N : Within(s, r)) => r \in Pruned(N, J)
<1> DEFINE M == Pruned(N, J)
<1>1. N \subseteq Box /\ J \subseteq Box
  BY DEF Binary
<1>2. \A s : s \in M <=> s \in N /\ \A n \in J : ~ (s # n /\ Within(s, n))
  BY DEF Pruned, Under
<1> HIDE DEF M
<1>3. M \subseteq N
  BY <1>2
<1>4. ASSUME NEW r \in N, \A s \in N : Within(s, r)
      PROVE  r \in M
  <2>1. ASSUME NEW n \in J, r # n, Within(r, n)
        PROVE  FALSE
    <3>1. r \in Box /\ n \in Box /\ Within(n, r)
      BY <1>1, <1>4
    <3> QED BY <2>1, <3>1, WithinSmaller
  <2> QED BY <1>2, <2>1
<1>5. ASSUME NEW r \in M, Cut(M, r)
      PROVE  Cut(N, r) /\ r \notin J
  BY <1>2, <1>3, <1>5 DEF Cut
<1>6. ASSUME NEW r \in M, Cut(M, r)
      PROVE  \E c, d \in M : Parts(M, r, c, d)
  <2>1. r \in N /\ Cut(N, r) /\ r \notin J
    BY <1>3, <1>5, <1>6
  <2>2. PICK c \in N, d \in N : Parts(N, r, c, d)
    BY <2>1 DEF Binary
  <2>3. r \in Box /\ c \in Box /\ d \in Box
    BY <1>1, <2>1, <2>2
  <2>4. /\ Within(c, r) /\ Within(d, r) /\ c # r /\ d # r
        /\ Apart(c, d) /\ Apart(d, c)
    BY <2>2, <2>3, CutFacts DEF Parts
  <2>5. ASSUME NEW p \in {c, d}, NEW n \in J, p # n, Within(p, n)
        PROVE  FALSE
    <3>1. n \in N /\ n \in Box /\ p \in Box /\ p \in N /\ n # r /\ Within(p, r)
      BY <1>1, <2>1, <2>3, <2>4
    <3>2. ~ Within(r, n)
      BY <1>2, <1>6, <3>1
    <3>3. Apart(n, r) => FALSE
      BY <2>3, <2>5, <3>1, WithinItself, ApartWithin
    <3>4. Within(n, r)
      BY <2>1, <3>1, <3>2, <3>3, Nested
    <3>5. PICK q \in {c, d} : Within(n, q)
      BY <2>2, <3>1, <3>4 DEF Parts, Under
    <3>6. q \in Box
      BY <2>3
    <3>7. CASE q = p
      BY <2>5, <3>1, <3>5, <3>7, WithinSmaller
    <3>8. CASE q # p
      <4>1. Within(p, q)
        BY <2>5, <3>1, <3>5, <3>6, WithinTransitive
      <4>2. Apart(p, q)
        BY <2>4, <3>8
      <4> QED BY <3>1, <3>6, <4>1, <4>2, WithinItself, ApartWithin
    <3> QED BY <3>7, <3>8
  <2>6. c \in M /\ d \in M
    BY <1>2, <2>2, <2>5
  <2>7. Parts(M, r, c, d)
    BY <1>3, <2>2 DEF Parts, Under
  <2> QED BY <2>6, <2>7
<1>7. \E root \in M : \A s \in M : Within(s, root)
  BY <1>3, <1>4 DEF Binary
<1>8. Binary(M)
  BY <1>1, <1>3, <1>6, <1>7 DEF Binary
<1> QED BY <1>4, <1>5, <1>8 DEF M

\* What is allocated are leaves, and every node that was cut has some of it.
Packed(t) ==
  /\ Binary(t.nodes)
  /\ t.allocated \subseteq t.nodes
  /\ \A a \in t.allocated : ~ Cut(t.nodes, a)
  /\ \A r \in t.nodes : Cut(t.nodes, r) =>
       \E a \in t.allocated : Within(a, r)

\* What is left of the tree when the leaf at xy is freed.
LEMMA FreeFacts ==
  ASSUME NEW t, Packed(t), NEW xy \in Int \X Int,
         NEW n0 \in t.nodes, Contains(n0, xy)
  PROVE  /\ Packed(free(t, xy))
         /\ free(t, xy).nodes \subseteq t.nodes
         /\ free(t, xy).allocated = t.allocated \ {Around(t.nodes, xy)}
         /\ \A r \in t.nodes : (\A s \in t.nodes : Within(s, r)) => r \in free(t, xy).nodes
<1> DEFINE N == t.nodes
           leaf == Around(N, xy)
           path == {n \in N : Contains(n, xy)}
           Beside(n) == {s \in Children(t, n) : ~ Contains(s, xy)}
           joined == {n \in path \ {leaf} :
                        \A m \in path \ {leaf} : Within(m, n) =>
                          Beside(m) \subseteq Leaves(t) \ t.allocated}
           M == Pruned(N, joined)
<1>1. free(t, xy) = [nodes |-> M, allocated |-> t.allocated \ {leaf}]
  BY BelowUnder DEF free, Pruned
<1>2. Binary(N) /\ N \subseteq Box
  BY DEF Packed, Binary
<1>3. /\ leaf \in N /\ Contains(leaf, xy) /\ ~ Cut(N, leaf)
      /\ \A p \in N : Contains(p, xy) => Within(leaf, p)
  BY <1>2, AroundFacts
<1>4. joined \subseteq N /\ joined \subseteq path \ {leaf}
  OBVIOUS
<1>5. \A n \in joined, m \in path \ {leaf} : Within(m, n) =>
        Beside(m) \subseteq Leaves(t) \ t.allocated
  OBVIOUS
<1>6. \A n \in path \ {leaf} : n \notin joined =>
        \E m \in path \ {leaf} : Within(m, n) /\ ~ (Beside(m) \subseteq Leaves(t) \ t.allocated)
  OBVIOUS
<1>7. /\ Binary(M)
      /\ \A r \in M : Cut(M, r) => Cut(N, r) /\ r \notin joined
      /\ \A r \in N : (\A s \in N : Within(s, r)) => r \in M
  <2> HIDE DEF joined
  <2> QED BY <1>2, <1>4, PruneBinary
<1>8. \A s : s \in M <=> s \in N /\ \A n \in joined : ~ (s # n /\ Within(s, n))
  BY DEF Pruned, Under
<1> HIDE DEF M, joined, leaf
<1>9. ASSUME NEW m \in path \ {leaf}
      PROVE  \E c \in path, d \in N :
               /\ Children(t, m) = {c, d} /\ Beside(m) = {d}
               /\ Size(c) < Size(m)
               /\ Within(c, m) /\ Within(d, m) /\ c # m /\ d # m
               /\ \A s \in N : s # m /\ Within(s, m) => Within(s, c) \/ Within(s, d)
  <2>1. m \in N /\ m \in Box /\ Contains(m, xy) /\ m # leaf
    BY <1>2
  <2>2. Cut(N, m)
    BY <1>3, <2>1 DEF Cut
  <2>3. PICK c \in N, d \in N : Parts(N, m, c, d)
    BY <1>2, <2>1, <2>2 DEF Binary
  <2>4. c \in Box /\ d \in Box /\ CutInto(m, c, d)
    BY <1>2, <2>3 DEF Parts
  <2>5. /\ Within(c, m) /\ Within(d, m) /\ c # m /\ d # m
        /\ Size(c) < Size(m) /\ Size(d) < Size(m)
        /\ Apart(c, d) /\ (Contains(c, xy) \/ Contains(d, xy))
    BY <2>1, <2>4, CutFacts
  <2>6. ~ (Contains(c, xy) /\ Contains(d, xy))
    BY <2>4, <2>5, ContainsApart
  <2>7. Children(t, m) = {c, d}
    BY <1>2, <2>1, <2>3, ChildrenFacts
  <2>8. \A s \in N : s # m /\ Within(s, m) => Within(s, c) \/ Within(s, d)
    BY <2>3 DEF Parts, Under
  <2>9. CASE Contains(c, xy)
    <3>1. c \in path /\ Beside(m) = {d}
      BY <2>6, <2>7, <2>9
    <3> QED BY <2>5, <2>7, <2>8, <3>1
  <2>10. CASE Contains(d, xy)
    <3>1. d \in path /\ Beside(m) = {c}
      BY <2>6, <2>7, <2>10
    <3>2. Children(t, m) = {d, c}
      BY <2>7
    <3> QED BY <2>5, <2>8, <3>1, <3>2
  <2> QED BY <2>5, <2>9, <2>10
<1>10. t.allocated \subseteq N /\ \A a \in t.allocated : ~ Cut(N, a)
  BY DEF Packed
<1>11. ASSUME NEW a \in t.allocated, a # leaf, NEW n \in joined, Within(a, n), a # n
       PROVE  FALSE
  <2> DEFINE T == {m \in path \ {leaf} : Within(m, n) /\ Within(a, m)}
  <2>1. n \in T
    <3>1. n \in Box
      BY <1>2, <1>4
    <3> QED BY <1>4, <1>11, <3>1, WithinItself
  <2>2. PICK m \in T : \A k \in T : Size(m) <= Size(k)
    <3>1. T \subseteq Box
      BY <1>2
    <3> HIDE DEF T
    <3> QED BY <2>1, <3>1, SmallestBox
  <2>3. m \in path \ {leaf} /\ m \in N /\ Within(m, n) /\ Within(a, m) /\ m \in Box
    BY <1>2, <2>2
  <2>4. PICK c \in path, d \in N :
          /\ Children(t, m) = {c, d} /\ Beside(m) = {d} /\ Size(c) < Size(m)
          /\ Within(c, m) /\ Within(d, m) /\ c # m /\ d # m
          /\ \A s \in N : s # m /\ Within(s, m) => Within(s, c) \/ Within(s, d)
    BY <1>9, <2>3
  <2>5. a # m
    <3>1. Cut(N, m)
      BY <1>3, <2>3 DEF Cut
    <3> QED BY <1>10, <3>1
  <2>6. Within(a, c) \/ Within(a, d)
    BY <1>10, <2>3, <2>4, <2>5
  <2>7. d \in Leaves(t) \ t.allocated
    BY <1>5, <2>3, <2>4
  <2>8. ~ Within(a, d)
    BY <1>10, <2>7, LeavesUnder DEF Cut
  <2>9. c \in Box /\ n \in Box /\ Within(c, n)
    BY <1>2, <1>4, <2>3, <2>4, WithinTransitive
  <2>10. c # leaf
    BY <1>3, <1>10, <1>11, <2>6, <2>8 DEF Cut
  <2>11. c \in T
    BY <2>4, <2>6, <2>8, <2>9, <2>10
  <2>12. Size(c) \in Nat /\ Size(m) \in Nat
    BY <2>3, <2>9, BoxFields
  <2> HIDE DEF T
  <2> QED BY <2>2, <2>4, <2>11, <2>12
<1>12. t.allocated \ {leaf} \subseteq M
  BY <1>8, <1>10, <1>11
<1>13. \A a \in t.allocated \ {leaf} : ~ Cut(M, a)
  BY <1>8, <1>10 DEF Cut
<1>14. ASSUME NEW r \in M, Cut(M, r)
       PROVE  \E a \in t.allocated \ {leaf} : Within(a, r)
  <2>1. r \in N /\ r \in Box /\ Cut(N, r) /\ r \notin joined
    BY <1>2, <1>7, <1>8, <1>14
  <2>2. PICK a \in t.allocated : Within(a, r)
    BY <2>1 DEF Packed
  <2>3. CASE a # leaf
    BY <2>2, <2>3
  <2>4. CASE a = leaf
    <3>1. Contains(r, xy) /\ leaf \in Box
      BY <1>2, <1>3, <2>1, <2>2, <2>4, ContainsWithin
    <3>2. r \in path \ {leaf}
      BY <1>3, <2>1, <3>1
    <3>3. PICK m \in path \ {leaf} :
            Within(m, r) /\ ~ (Beside(m) \subseteq Leaves(t) \ t.allocated)
      BY <1>6, <2>1, <3>2
    <3>4. PICK d \in N : Within(d, m) /\ Beside(m) = {d}
      BY <1>9, <3>3
    <3>5. ~ Contains(d, xy) /\ d \in Box /\ m \in Box
      BY <1>2, <3>3, <3>4
    <3>6. Within(d, r)
      BY <2>1, <3>3, <3>4, <3>5, WithinTransitive
    <3>7. d \notin Leaves(t) \/ d \in t.allocated
      BY <3>3, <3>4
    <3>8. PICK b \in t.allocated : Within(b, d)
      <4>1. CASE d \in t.allocated
        BY <3>5, <4>1, WithinItself
      <4>2. CASE d \notin t.allocated
        <5>1. Cut(N, d)
          BY <3>4, <3>7, <4>2, LeavesUnder
        <5> QED BY <3>4, <5>1 DEF Packed
      <4> QED BY <4>1, <4>2
    <3>9. b \in Box
      BY <1>2, <1>10
    <3>10. b # leaf
      BY <1>3, <3>5, <3>8, <3>9, ContainsWithin
    <3>11. Within(b, r)
      BY <2>1, <3>5, <3>6, <3>8, <3>9, WithinTransitive
    <3> QED BY <3>10, <3>11
  <2> QED BY <2>3, <2>4
<1> DEFINE u == [nodes |-> M, allocated |-> t.allocated \ {leaf}]
<1>15. Packed(u)
  <2>1. u.nodes = M /\ u.allocated = t.allocated \ {leaf}
    OBVIOUS
  <2> HIDE DEF u
  <2> QED BY <1>7, <1>12, <1>13, <1>14, <2>1 DEF Packed
<1>16. M \subseteq N
  BY <1>8
<1> QED BY <1>1, <1>7, <1>15, <1>16 DEF leaf

-----------------------------------------------------------------------------
(* How leaves are cut.                                                     *)

LEMMA VSplitFacts ==
  ASSUME NEW r \in Box, NEW x \in Int, r.x < x, x < r.x + r.w
  PROVE  LET c == Rect(r.x, r.y, x - r.x, r.h)
             d == Rect(x, r.y, r.x + r.w - x, r.h)
         IN  /\ vsplit(r, x) = {c, d} /\ c \in Box /\ d \in Box /\ CutInto(r, c, d)
             /\ c.x = r.x /\ c.y = r.y /\ c.w = x - r.x /\ c.h = r.h
             /\ d.x = x /\ d.y = r.y /\ d.w = r.x + r.w - x /\ d.h = r.h
<1> DEFINE c == Rect(r.x, r.y, x - r.x, r.h)
           d == Rect(x, r.y, r.x + r.w - x, r.h)
<1>1. r.x \in Int /\ r.y \in Int /\ r.w \in Nat \ {0} /\ r.h \in Nat \ {0}
  BY BoxFields
<1>2. x - r.x \in Nat \ {0} /\ r.x + r.w - x \in Nat \ {0}
  BY <1>1
<1>3. /\ c \in Box /\ d \in Box
      /\ c.x = r.x /\ c.y = r.y /\ c.w = x - r.x /\ c.h = r.h
      /\ d.x = x /\ d.y = r.y /\ d.w = r.x + r.w - x /\ d.h = r.h
  BY <1>1, <1>2 DEF Box, Rect
<1>4. vsplit(r, x) = {c, d}
  BY DEF vsplit
<1> HIDE DEF c, d
<1>5. CutInto(r, c, d)
  BY <1>1, <1>3 DEF CutInto
<1> QED BY <1>3, <1>4, <1>5 DEF c, d

LEMMA HSplitFacts ==
  ASSUME NEW r \in Box, NEW y \in Int, r.y < y, y < r.y + r.h
  PROVE  LET c == Rect(r.x, r.y, r.w, y - r.y)
             d == Rect(r.x, y, r.w, r.y + r.h - y)
         IN  /\ hsplit(r, y) = {c, d} /\ c \in Box /\ d \in Box /\ CutInto(r, c, d)
             /\ c.x = r.x /\ c.y = r.y /\ c.w = r.w /\ c.h = y - r.y
             /\ d.x = r.x /\ d.y = y /\ d.w = r.w /\ d.h = r.y + r.h - y
<1> DEFINE c == Rect(r.x, r.y, r.w, y - r.y)
           d == Rect(r.x, y, r.w, r.y + r.h - y)
<1>1. r.x \in Int /\ r.y \in Int /\ r.w \in Nat \ {0} /\ r.h \in Nat \ {0}
  BY BoxFields
<1>2. y - r.y \in Nat \ {0} /\ r.y + r.h - y \in Nat \ {0}
  BY <1>1
<1>3. /\ c \in Box /\ d \in Box
      /\ c.x = r.x /\ c.y = r.y /\ c.w = r.w /\ c.h = y - r.y
      /\ d.x = r.x /\ d.y = y /\ d.w = r.w /\ d.h = r.y + r.h - y
  BY <1>1, <1>2 DEF Box, Rect
<1>4. hsplit(r, y) = {c, d}
  BY DEF hsplit
<1> HIDE DEF c, d
<1>5. CutInto(r, c, d)
  BY <1>1, <1>3 DEF CutInto
<1> QED BY <1>3, <1>4, <1>5 DEF c, d

\* Rectangle a is in a corner of r.
InCorner(a, r) ==
  /\ Within(a, r)
  /\ a.x = r.x \/ a.x + a.w = r.x + r.w
  /\ a.y = r.y \/ a.y + a.h = r.y + r.h

\* S are the halves into which r is cut, and a is in a corner of half p.
Parting(r, a, S, p) ==
  \E c, d \in Box :
    /\ S = {c, d} /\ CutInto(r, c, d)
    /\ p \in {c, d} /\ InCorner(a, p)

LEMMA VParting ==
  ASSUME NEW r \in Box, NEW a \in Box, InCorner(a, r), a.w # r.w
  PROVE  \E p \in Box : /\ Parting(r, a, vsplit(r, CutX(r, a)), p)
                        /\ p.w = a.w /\ p.h = r.h
<1>1. /\ r.x \in Int /\ r.y \in Int /\ r.w \in Nat \ {0} /\ r.h \in Nat \ {0}
      /\ a.x \in Int /\ a.y \in Int /\ a.w \in Nat \ {0} /\ a.h \in Nat \ {0}
  BY BoxFields
<1>2. /\ r.x <= a.x /\ a.x + a.w <= r.x + r.w
      /\ r.y <= a.y /\ a.y + a.h <= r.y + r.h
      /\ a.x = r.x \/ a.x + a.w = r.x + r.w
      /\ a.y = r.y \/ a.y + a.h = r.y + r.h
  BY DEF InCorner, Within
<1> DEFINE x == CutX(r, a)
           c == Rect(r.x, r.y, x - r.x, r.h)
           d == Rect(x, r.y, r.x + r.w - x, r.h)
<1>3. x = IF a.x # r.x THEN a.x ELSE r.x + a.w
  BY DEF CutX
<1> HIDE DEF x
<1>4. x \in Int /\ r.x < x /\ x < r.x + r.w
  BY <1>1, <1>2, <1>3
<1>5. /\ vsplit(r, x) = {c, d} /\ c \in Box /\ d \in Box /\ CutInto(r, c, d)
      /\ c.x = r.x /\ c.y = r.y /\ c.w = x - r.x /\ c.h = r.h
      /\ d.x = x /\ d.y = r.y /\ d.w = r.x + r.w - x /\ d.h = r.h
  BY <1>4, VSplitFacts
<1> HIDE DEF c, d
<1>6. CASE a.x # r.x
  <2>1. InCorner(a, d) /\ d.w = a.w
    BY <1>1, <1>2, <1>3, <1>5, <1>6 DEF InCorner, Within
  <2> QED BY <1>5, <2>1 DEF Parting, x
<1>7. CASE a.x = r.x
  <2>1. InCorner(a, c) /\ c.w = a.w
    BY <1>1, <1>2, <1>3, <1>5, <1>7 DEF InCorner, Within
  <2> QED BY <1>5, <2>1 DEF Parting, x
<1> QED BY <1>6, <1>7

LEMMA HParting ==
  ASSUME NEW r \in Box, NEW a \in Box, InCorner(a, r), a.h # r.h
  PROVE  \E p \in Box : /\ Parting(r, a, hsplit(r, CutY(r, a)), p)
                        /\ p.h = a.h /\ p.w = r.w
<1>1. /\ r.x \in Int /\ r.y \in Int /\ r.w \in Nat \ {0} /\ r.h \in Nat \ {0}
      /\ a.x \in Int /\ a.y \in Int /\ a.w \in Nat \ {0} /\ a.h \in Nat \ {0}
  BY BoxFields
<1>2. /\ r.x <= a.x /\ a.x + a.w <= r.x + r.w
      /\ r.y <= a.y /\ a.y + a.h <= r.y + r.h
      /\ a.x = r.x \/ a.x + a.w = r.x + r.w
      /\ a.y = r.y \/ a.y + a.h = r.y + r.h
  BY DEF InCorner, Within
<1> DEFINE y == CutY(r, a)
           c == Rect(r.x, r.y, r.w, y - r.y)
           d == Rect(r.x, y, r.w, r.y + r.h - y)
<1>3. y = IF a.y # r.y THEN a.y ELSE r.y + a.h
  BY DEF CutY
<1> HIDE DEF y
<1>4. y \in Int /\ r.y < y /\ y < r.y + r.h
  BY <1>1, <1>2, <1>3
<1>5. /\ hsplit(r, y) = {c, d} /\ c \in Box /\ d \in Box /\ CutInto(r, c, d)
      /\ c.x = r.x /\ c.y = r.y /\ c.w = r.w /\ c.h = y - r.y
      /\ d.x = r.x /\ d.y = y /\ d.w = r.w /\ d.h = r.y + r.h - y
  BY <1>4, HSplitFacts
<1> HIDE DEF c, d
<1>6. CASE a.y # r.y
  <2>1. InCorner(a, d) /\ d.h = a.h
    BY <1>1, <1>2, <1>3, <1>5, <1>6 DEF InCorner, Within
  <2> QED BY <1>5, <2>1 DEF Parting, y
<1>7. CASE a.y = r.y
  <2>1. InCorner(a, c) /\ c.h = a.h
    BY <1>1, <1>2, <1>3, <1>5, <1>7 DEF InCorner, Within
  <2> QED BY <1>5, <2>1 DEF Parting, y
<1> QED BY <1>6, <1>7

LEMMA PartingChild ==
  ASSUME NEW r \in Box, NEW a \in Box, NEW S, NEW p \in Box, Parting(r, a, S, p)
  PROVE  (CHOOSE c \in S : Within(a, c)) = p
<1>1. PICK c \in Box, d \in Box :
        S = {c, d} /\ CutInto(r, c, d) /\ p \in {c, d} /\ InCorner(a, p)
  BY DEF Parting
<1>2. Apart(c, d) /\ Apart(d, c)
  BY <1>1, CutFacts
<1>3. Within(a, p) /\ p \in S
  BY <1>1 DEF InCorner
<1>4. ASSUME NEW q \in S, Within(a, q)
      PROVE  q = p
  BY <1>1, <1>2, <1>3, <1>4, ApartWithin
<1> QED BY <1>3, <1>4

LEMMA AllOfIt ==
  ASSUME NEW r \in Box, NEW a \in Box, InCorner(a, r), r.w = a.w, r.h = a.h
  PROVE  a = r
<1>1. /\ r.x \in Int /\ r.y \in Int /\ r.w \in Nat \ {0} /\ r.h \in Nat \ {0}
      /\ a.x \in Int /\ a.y \in Int /\ a.w \in Nat \ {0} /\ a.h \in Nat \ {0}
  BY BoxFields
<1>2. a.x = r.x /\ a.y = r.y
  BY <1>1 DEF InCorner, Within
<1> QED BY <1>2, BoxEqual

\* It takes no cut, one or two to part a rectangle in a corner from the rest.
LEMMA CutsShape ==
  ASSUME NEW r \in Box, NEW a \in Box, InCorner(a, r)
  PROVE  \/ a = r /\ Cuts(r, a) = {}
         \/ Parting(r, a, Cuts(r, a), a)
         \/ \E p \in Box : \E S, T : /\ Cuts(r, a) = S \cup T
                                     /\ Parting(r, a, S, p) /\ Parting(p, a, T, a)
<1>1. /\ r.x \in Int /\ r.y \in Int /\ r.w \in Nat \ {0} /\ r.h \in Nat \ {0}
      /\ a.x \in Int /\ a.y \in Int /\ a.w \in Nat \ {0} /\ a.h \in Nat \ {0}
  BY BoxFields
<1>2. /\ r.x <= a.x /\ a.x + a.w <= r.x + r.w
      /\ r.y <= a.y /\ a.y + a.h <= r.y + r.h
  BY DEF InCorner, Within
<1> DEFINE first == IF r.h - a.h > r.w - a.w
                      THEN hsplit(r, CutY(r, a)) ELSE vsplit(r, CutX(r, a))
           child == CHOOSE c \in first : Within(a, c)
<1>3. Cuts(r, a) =
        CASE a = r -> {}
          [] a # r /\ child.w # a.w -> first \cup vsplit(child, CutX(child, a))
          [] a # r /\ child.w = a.w /\ child.h # a.h ->
               first \cup hsplit(child, CutY(child, a))
          [] OTHER -> first
  BY DEF Cuts
<1>4. CASE a = r
  <2> HIDE DEF child, first
  <2> QED BY <1>3, <1>4
<1>5. CASE a # r
  <2>1. ~ (r.w = a.w /\ r.h = a.h)
    BY <1>5, AllOfIt
  <2>2. \E p \in Box : Parting(r, a, first, p) /\ (p.w = a.w \/ p.h = a.h)
    <3>1. CASE r.h - a.h > r.w - a.w
      <4>1. a.h # r.h
        BY <1>1, <1>2, <3>1
      <4> QED BY <3>1, <4>1, HParting
    <3>2. CASE ~ (r.h - a.h > r.w - a.w)
      <4>1. a.w # r.w
        <5>1. a.h <= r.h
          BY <1>1, <1>2
        <5>2. ~ (r.h - a.h > 0) => a.h = r.h
          BY <1>1, <5>1
        <5>3. a.w = r.w => r.w - a.w = 0
          BY <1>1
        <5> QED BY <2>1, <3>2, <5>2, <5>3
      <4> QED BY <3>2, <4>1, VParting
    <3> QED BY <3>1, <3>2
  <2> HIDE DEF first
  <2>3. PICK p \in Box : Parting(r, a, first, p) /\ (p.w = a.w \/ p.h = a.h)
    BY <2>2
  <2>4. child = p
    BY <2>3, PartingChild
  <2>5. InCorner(a, p)
    BY <2>3 DEF Parting
  <2> HIDE DEF child
  <2>6. CASE p.w # a.w
    <3>1. PICK q \in Box : /\ Parting(p, a, vsplit(p, CutX(p, a)), q)
                           /\ q.w = a.w /\ q.h = p.h
      BY <2>5, <2>6, VParting
    <3>2. q = a
      BY <2>3, <2>6, <3>1, AllOfIt DEF Parting
    <3>3. Cuts(r, a) = first \cup vsplit(p, CutX(p, a))
      BY <1>3, <1>5, <2>4, <2>6
    <3> QED BY <2>3, <3>1, <3>2, <3>3
  <2>7. CASE p.w = a.w /\ p.h # a.h
    <3>1. PICK q \in Box : /\ Parting(p, a, hsplit(p, CutY(p, a)), q)
                           /\ q.h = a.h /\ q.w = p.w
      BY <2>5, <2>7, HParting
    <3>2. q = a
      BY <2>7, <3>1, AllOfIt DEF Parting
    <3>3. Cuts(r, a) = first \cup hsplit(p, CutY(p, a))
      BY <1>3, <1>5, <2>4, <2>7
    <3> QED BY <2>3, <3>1, <3>2, <3>3
  <2>8. CASE p.w = a.w /\ p.h = a.h
    <3>1. p = a
      BY <2>5, <2>8, AllOfIt
    <3>2. Cuts(r, a) = first
      BY <1>3, <1>5, <2>4, <2>8
    <3> QED BY <2>3, <3>1, <3>2
  <2> QED BY <2>6, <2>7, <2>8
<1> QED BY <1>4, <1>5

-----------------------------------------------------------------------------

\* The nodes M come from N by cutting leaf r, and then what is cut off of it,
\* until p is left; each node that is cut has p in it.
Grows(N, r, p, M) ==
  /\ Binary(N) /\ r \in N /\ ~ Cut(N, r)
  /\ Binary(M) /\ N \subseteq M
  /\ p \in M /\ ~ Cut(M, p) /\ Within(p, r)
  /\ \A s \in M : s \in N \/ Within(s, r)
  /\ \A s \in M : Cut(M, s) => (s \in N /\ Cut(N, s)) \/ Within(p, s)
  /\ \A s \in N : s # r /\ ~ Cut(N, s) => ~ Cut(M, s)

LEMMA GrowsNone ==
  ASSUME NEW N, Binary(N), NEW r \in N, ~ Cut(N, r)
  PROVE  Grows(N, r, r, N)
<1>1. r \in Box
  BY DEF Binary
<1> QED BY <1>1, WithinItself DEF Grows

LEMMA GrowsOnce ==
  ASSUME NEW N, NEW r, NEW s, NEW M, Grows(N, r, s, M),
         NEW c \in Box, NEW d \in Box, CutInto(s, c, d), NEW p \in {c, d}
  PROVE  Grows(N, r, p, M \cup {c, d}) /\ Size(p) < Size(s)
<1> DEFINE Q == M \cup {c, d}
<1>1. /\ Binary(N) /\ r \in N /\ ~ Cut(N, r)
      /\ Binary(M) /\ N \subseteq M
      /\ s \in M /\ ~ Cut(M, s) /\ Within(s, r)
      /\ \A q \in M : q \in N \/ Within(q, r)
      /\ \A q \in M : Cut(M, q) => (q \in N /\ Cut(N, q)) \/ Within(s, q)
      /\ \A q \in N : q # r /\ ~ Cut(N, q) => ~ Cut(M, q)
  BY DEF Grows
<1>2. s \in Box /\ r \in Box /\ M \subseteq Box
  BY <1>1 DEF Binary
<1>3. /\ Within(c, s) /\ Within(d, s)
      /\ Size(c) < Size(s) /\ Size(d) < Size(s)
  BY <1>2, CutFacts
<1>4. /\ Binary(Q) /\ ~ Cut(Q, c) /\ ~ Cut(Q, d)
      /\ \A q \in M : q # s /\ ~ Cut(M, q) => ~ Cut(Q, q)
      /\ \A q \in M : q # s /\ Cut(Q, q) => Cut(M, q)
  BY <1>1, <1>2, SplitBinary
<1>5. Within(c, r) /\ Within(d, r)
  BY <1>1, <1>2, <1>3, WithinTransitive
<1>6. ASSUME NEW q \in Q
      PROVE  q \in N \/ Within(q, r)
  BY <1>1, <1>5
<1>7. ASSUME NEW q \in Q, Cut(Q, q)
      PROVE  (q \in N /\ Cut(N, q)) \/ Within(p, q)
  <2>1. q \in M /\ q \in Box
    BY <1>2, <1>4, <1>7
  <2>2. q = s \/ Cut(M, q)
    BY <1>4, <1>7, <2>1
  <2>3. CASE q = s
    BY <1>3, <2>3
  <2>4. CASE Within(s, q)
    <3>1. Within(p, s)
      BY <1>3
    <3> QED BY <1>2, <2>1, <2>4, <3>1, WithinTransitive
  <2> QED BY <1>1, <2>1, <2>2, <2>3, <2>4
<1>8. ASSUME NEW q \in N, q # r, ~ Cut(N, q)
      PROVE  ~ Cut(Q, q)
  <2>1. q # s
    <3>1. Within(q, r) => FALSE
      BY <1>1, <1>8 DEF Cut
    <3> QED BY <1>1, <3>1
  <2> QED BY <1>1, <1>4, <1>8, <2>1
<1>9. p \in Q /\ ~ Cut(Q, p) /\ Within(p, r) /\ N \subseteq Q
  BY <1>1, <1>4, <1>5
<1> HIDE DEF Q
<1>10. Grows(N, r, p, Q)
  BY <1>1, <1>4, <1>6, <1>7, <1>8, <1>9 DEF Grows
<1> QED BY <1>3, <1>10 DEF Q

LEMMA CutsGrow ==
  ASSUME NEW N, Binary(N), NEW r \in N, ~ Cut(N, r), NEW a \in Box, InCorner(a, r)
  PROVE  Grows(N, r, a, N \cup Cuts(r, a))
<1>1. r \in Box /\ Grows(N, r, r, N)
  BY GrowsNone DEF Binary
<1>2. CASE a = r /\ Cuts(r, a) = {}
  <2>1. N \cup {} = N
    OBVIOUS
  <2> QED BY <1>1, <1>2, <2>1
<1>3. ASSUME NEW q, NEW M, Grows(N, r, q, M), NEW p \in Box, NEW S, Parting(q, a, S, p)
      PROVE  Grows(N, r, p, M \cup S)
  <2>1. PICK c \in Box, d \in Box : S = {c, d} /\ CutInto(q, c, d) /\ p \in {c, d}
    BY <1>3 DEF Parting
  <2> QED BY <1>3, <2>1, GrowsOnce
<1>4. CASE Parting(r, a, Cuts(r, a), a)
  BY <1>1, <1>3, <1>4
<1>5. ASSUME NEW p \in Box, NEW S, NEW T, Cuts(r, a) = S \cup T,
             Parting(r, a, S, p), Parting(p, a, T, a)
      PROVE  Grows(N, r, a, N \cup Cuts(r, a))
  <2>1. Grows(N, r, p, N \cup S)
    BY <1>1, <1>3, <1>5
  <2>2. Grows(N, r, a, (N \cup S) \cup T)
    BY <1>3, <1>5, <2>1
  <2>3. (N \cup S) \cup T = N \cup Cuts(r, a)
    BY <1>5
  <2> QED BY <2>2, <2>3
<1> QED BY <1>1, <1>2, <1>4, <1>5, CutsShape

\* When rectangle a is cut out of a free leaf, it can be allocated.
LEMMA GrownPacked ==
  ASSUME NEW t, Packed(t), NEW r \in t.nodes \ t.allocated,
         NEW a, NEW M, Grows(t.nodes, r, a, M)
  PROVE  /\ Packed([nodes |-> M, allocated |-> t.allocated \cup {a}])
         /\ \A b \in t.allocated : Apart(a, b)
<1> DEFINE u == [nodes |-> M, allocated |-> t.allocated \cup {a}]
<1>1. /\ Binary(M) /\ t.nodes \subseteq M /\ ~ Cut(t.nodes, r)
      /\ a \in M /\ ~ Cut(M, a) /\ Within(a, r)
      /\ \A s \in M : Cut(M, s) => (s \in t.nodes /\ Cut(t.nodes, s)) \/ Within(a, s)
      /\ \A s \in t.nodes : s # r /\ ~ Cut(t.nodes, s) => ~ Cut(M, s)
  BY DEF Grows
<1>2. /\ t.allocated \subseteq t.nodes
      /\ \A b \in t.allocated : ~ Cut(t.nodes, b)
      /\ \A s \in t.nodes : Cut(t.nodes, s) => \E b \in t.allocated : Within(b, s)
  BY DEF Packed
<1>3. ASSUME NEW b \in t.allocated
      PROVE  b \in M /\ ~ Cut(M, b) /\ b # a
  <2>1. b \in t.nodes /\ b # r
    BY <1>2
  <2> QED BY <1>1, <1>2, <2>1 DEF Cut
<1>4. \A b \in t.allocated : Apart(a, b)
  BY <1>1, <1>3, LeavesApart
<1>5. u.nodes = M /\ u.allocated = t.allocated \cup {a}
  OBVIOUS
<1> HIDE DEF u
<1>6. \A s \in M : Cut(M, s) => \E b \in t.allocated \cup {a} : Within(b, s)
  BY <1>1, <1>2
<1>7. Packed(u)
  BY <1>1, <1>3, <1>5, <1>6 DEF Packed
<1> QED BY <1>4, <1>7 DEF u

LEMMA AreaFacts ==
  ASSUME NEW r \in Box
  PROVE  /\ Area(r) \in Nat
         /\ Area(r) = 1 => r.w = 1 /\ r.h = 1
         /\ r.w = 1 /\ r.h = 1 => Area(r) = 1
<1>1. r.w \in Nat \ {0} /\ r.h \in Nat \ {0}
  BY BoxFields
<1>2. ASSUME NEW w \in Nat \ {0}, NEW h \in Nat \ {0}
      PROVE  w * h \in Nat /\ (w * h = 1 => w = 1 /\ h = 1) /\ (w = 1 /\ h = 1 => w * h = 1)
  <2>1. w * h \in Nat
    OBVIOUS
  <2>2. w = 1 \/ w >= 2
    OBVIOUS
  <2>3. CASE w = 1
    BY <2>3
  <2>4. CASE w >= 2
    <3>1. w * h >= 2 * h
      BY <2>4
    <3>2. 2 * h >= 2
      OBVIOUS
    <3> QED BY <2>1, <2>4, <3>1, <3>2
  <2> QED BY <2>1, <2>2, <2>3, <2>4
<1> QED BY <1>1, <1>2 DEF Area

LEMMA AreaOfUnit ==
  ASSUME NEW r \in Box, Area(r) = 1
  PROVE  r.w = 1 /\ r.h = 1
  BY AreaFacts

\* A leaf that is larger than a triad is cut beside the triad at xy.
LEMMA HalvesFacts ==
  ASSUME NEW r \in Box, NEW xy \in Int \X Int, Contains(r, xy), Area(r) # 1
  PROVE  \E c \in Box, d \in Box : Halves(r, xy) = {c, d} /\ CutInto(r, c, d)
<1> DEFINE left == xy[1] - r.x
           right == r.x + r.w - xy[1] - 1
           above == r.y + r.h - xy[2] - 1
           below == xy[2] - r.y
           Largest(n) == \A m \in {left, right, above, below} : n >= m
<1>1. /\ r.x \in Int /\ r.y \in Int /\ r.w \in Nat \ {0} /\ r.h \in Nat \ {0}
      /\ xy[1] \in Int /\ xy[2] \in Int
  BY BoxFields
<1>2. /\ r.x <= xy[1] /\ xy[1] < r.x + r.w
      /\ r.y <= xy[2] /\ xy[2] < r.y + r.h
  BY DEF Contains
<1>3. left \in Nat /\ right \in Nat /\ above \in Nat /\ below \in Nat
  BY <1>1, <1>2
<1>4. left > 0 \/ right > 0 \/ above > 0 \/ below > 0
  <2>1. r.w # 1 \/ r.h # 1
    BY AreaFacts
  <2> QED BY <1>1, <1>2, <2>1
<1>5. Halves(r, xy) =
        CASE Largest(left) -> vsplit(r, xy[1])
          [] ~Largest(left) /\ Largest(right) -> vsplit(r, xy[1] + 1)
          [] ~Largest(left) /\ ~Largest(right) /\ Largest(above) -> hsplit(r, xy[2] + 1)
          [] OTHER -> hsplit(r, xy[2])
  BY DEF Halves
<1>6. \A n : Largest(n) => n >= left /\ n >= right /\ n >= above /\ n >= below
  OBVIOUS
<1>7. Largest(left) \/ Largest(right) \/ Largest(above) \/ Largest(below)
  <2> HIDE DEF left, right, above, below
  <2> QED BY <1>3
<1> HIDE DEF Largest
<1>8. CASE Largest(left)
  <2>1. left > 0
    <3> HIDE DEF left, right, above, below
    <3> QED BY <1>3, <1>4, <1>6, <1>8
  <2>2. r.x < xy[1] /\ Halves(r, xy) = vsplit(r, xy[1])
    BY <1>1, <1>5, <1>8, <2>1
  <2> QED BY <1>1, <1>2, <2>2, VSplitFacts
<1>9. CASE ~ Largest(left) /\ Largest(right)
  <2>1. right > 0
    <3> HIDE DEF left, right, above, below
    <3> QED BY <1>3, <1>4, <1>6, <1>9
  <2>2. /\ xy[1] + 1 \in Int /\ r.x < xy[1] + 1 /\ xy[1] + 1 < r.x + r.w
        /\ Halves(r, xy) = vsplit(r, xy[1] + 1)
    BY <1>1, <1>2, <1>5, <1>9, <2>1
  <2> QED BY <2>2, VSplitFacts
<1>10. CASE ~ Largest(left) /\ ~ Largest(right) /\ Largest(above)
  <2>1. above > 0
    <3> HIDE DEF left, right, above, below
    <3> QED BY <1>3, <1>4, <1>6, <1>10
  <2>2. /\ xy[2] + 1 \in Int /\ r.y < xy[2] + 1 /\ xy[2] + 1 < r.y + r.h
        /\ Halves(r, xy) = hsplit(r, xy[2] + 1)
    BY <1>1, <1>2, <1>5, <1>10, <2>1
  <2> QED BY <2>2, HSplitFacts
<1>11. CASE ~ Largest(left) /\ ~ Largest(right) /\ ~ Largest(above)
  <2>1. below > 0
    <3> HIDE DEF left, right, above, below
    <3> QED BY <1>3, <1>4, <1>6, <1>7, <1>11
  <2>2. r.y < xy[2] /\ Halves(r, xy) = hsplit(r, xy[2])
    BY <1>1, <1>5, <1>11, <2>1
  <2> QED BY <1>1, <1>2, <2>2, HSplitFacts
<1> QED BY <1>8, <1>9, <1>10, <1>11

\* The nodes S of a leaf that is being cut, after one more cut.
CutOnce(S, xy) ==
  LET s == Around(S, xy) IN S \cup IF Area(s) = 1 THEN {} ELSE Halves(s, xy)

CutStep(S, n, r, xy) == IF n = 0 THEN {r} ELSE CutOnce(S[n - 1], xy)

CutRun(S, n, r, xy) == S = [k \in 0 .. n |-> CutStep(S, k, r, xy)]

LEMMA CutsExist ==
  ASSUME NEW r, NEW xy, NEW n \in Nat
  PROVE  \E S : CutRun(S, n, r, xy)
<1> DEFINE Bad == {m \in Nat : ~ \E S : CutRun(S, m, r, xy)}
<1> SUFFICES ASSUME Bad # {} PROVE FALSE
  OBVIOUS
<1>1. PICK m \in Bad : \A j \in Bad : m <= j
  <2>1. Bad \subseteq Nat
    OBVIOUS
  <2> HIDE DEF Bad
  <2> QED BY <2>1, LeastNat
<1>2. m \in Nat /\ ~ \E S : CutRun(S, m, r, xy)
  BY <1>1
<1>3. CASE m = 0
  <2> DEFINE S == [k \in 0 .. 0 |-> {r}]
  <2>1. S = [k \in 0 .. 0 |-> CutStep(S, k, r, xy)]
    BY DEF CutStep
  <2> QED BY <1>2, <1>3, <2>1 DEF CutRun
<1>4. CASE m # 0
  <2>1. m - 1 \in Nat /\ m - 1 \notin Bad
    BY <1>1, <1>2, <1>4
  <2>2. PICK B : B = [k \in 0 .. m - 1 |-> CutStep(B, k, r, xy)]
    BY <2>1 DEF CutRun
  <2> DEFINE S == [k \in 0 .. m |-> IF k < m THEN B[k] ELSE CutStep(B, m, r, xy)]
  <2>3. ASSUME NEW k \in 0 .. m
        PROVE  S[k] = CutStep(S, k, r, xy)
    <3>1. CASE k = 0
      <4>1. S[0] = B[0] /\ B[0] = CutStep(B, 0, r, xy)
        BY <1>2, <1>4, <2>1, <2>2
      <4> QED BY <3>1, <4>1 DEF CutStep
    <3>2. CASE k # 0
      <4>1. k - 1 \in 0 .. m - 1 /\ S[k - 1] = B[k - 1]
        BY <1>2, <2>1, <3>2
      <4>2. CutStep(S, k, r, xy) = CutStep(B, k, r, xy)
        BY <3>2, <4>1 DEF CutStep
      <4>3. CASE k = m
        BY <1>2, <4>2, <4>3
      <4>4. CASE k < m
        <5>1. k \in 0 .. m - 1 /\ S[k] = B[k]
          BY <1>2, <4>4
        <5>2. B[k] = CutStep(B, k, r, xy)
          BY <2>2, <5>1
        <5> QED BY <4>2, <5>1, <5>2
      <4> QED BY <1>2, <4>3, <4>4
    <3> QED BY <3>1, <3>2
  <2>4. S = [k \in 0 .. m |-> CutStep(S, k, r, xy)]
    <3>1. S = [k \in 0 .. m |-> S[k]]
      OBVIOUS
    <3> QED BY <2>3, <3>1
  <2> QED BY <1>2, <2>4 DEF CutRun
<1> QED BY <1>3, <1>4

LEMMA CarvedRun ==
  ASSUME NEW r \in Box, NEW xy
  PROVE  \E S : CutRun(S, r.w + r.h, r, xy) /\ Carved(r, xy) = S[r.w + r.h]
<1> DEFINE Cutting == CHOOSE S : CutRun(S, r.w + r.h, r, xy)
<1>1. r.w + r.h \in Nat
  BY BoxFields
<1>2. CutRun(Cutting, r.w + r.h, r, xy)
  BY <1>1, CutsExist
<1>3. Carved(r, xy) = Cutting[r.w + r.h]
  BY Zenon DEF Carved, CutStep, CutOnce, CutRun
<1> QED BY <1>2, <1>3

\* After n cuts, a leaf around xy is left, which is small.
CarvedTo(N, r, xy, S, n) ==
  \E s \in S :
    /\ Contains(s, xy) /\ Grows(N, r, s, N \cup S)
    /\ Size(s) = 2 \/ Size(s) + n <= Size(r)

LEMMA CutOnceFacts ==
  ASSUME NEW N, NEW r, NEW xy \in Int \X Int, NEW S, NEW n \in Nat,
         CarvedTo(N, r, xy, S, n), r \in Box
  PROVE  CarvedTo(N, r, xy, CutOnce(S, xy), n + 1)
<1>1. PICK s \in S :
        /\ Contains(s, xy) /\ Grows(N, r, s, N \cup S)
        /\ Size(s) = 2 \/ Size(s) + n <= Size(r)
  BY DEF CarvedTo
<1> DEFINE M == N \cup S
<1>2. Binary(M) /\ M \subseteq Box /\ s \in M /\ ~ Cut(M, s) /\ s \in Box
  BY <1>1 DEF Grows, Binary
<1>3. Around(S, xy) = s
  <2>1. ASSUME NEW q \in S, Contains(q, xy)
        PROVE  Within(s, q)
    <3>1. s = Around(M, xy)
      BY <1>1, <1>2, AroundFacts
    <3>2. \A p \in M : Contains(p, xy) => Within(Around(M, xy), p)
      BY <1>1, <1>2, AroundFacts
    <3> QED BY <2>1, <3>1, <3>2
  <2>2. ASSUME NEW q \in S, Contains(q, xy), \A p \in S : Contains(p, xy) => Within(q, p)
        PROVE  q = s
    BY <1>1, <1>2, <2>1, <2>2, WithinSmaller
  <2> QED BY <1>1, <2>1, <2>2 DEF Around
<1>4. CASE Area(s) = 1
  <2>1. CutOnce(S, xy) = S
    BY <1>3, <1>4 DEF CutOnce
  <2>2. s.w = 1 /\ s.h = 1
    BY <1>2, <1>4, AreaOfUnit
  <2>3. Size(s) = 2
    BY <2>2 DEF Size
  <2> QED BY <1>1, <2>1, <2>3 DEF CarvedTo
<1>5. CASE Area(s) # 1
  <2>1. PICK c \in Box, d \in Box : Halves(s, xy) = {c, d} /\ CutInto(s, c, d)
    BY <1>1, <1>2, <1>5, HalvesFacts
  <2>2. PICK p \in {c, d} : Contains(p, xy)
    BY <1>1, <1>2, <2>1, CutFacts
  <2>3. CutOnce(S, xy) = S \cup {c, d}
    BY <1>3, <1>5, <2>1 DEF CutOnce
  <2>4. Grows(N, r, p, M \cup {c, d}) /\ Size(p) < Size(s)
    <3> HIDE DEF M
    <3>1. Grows(N, r, s, M)
      BY <1>1 DEF M
    <3> QED BY <2>1, <3>1, GrowsOnce
  <2>5. M \cup {c, d} = N \cup (S \cup {c, d})
    OBVIOUS
  <2>6. Size(p) \in Nat /\ Size(p) >= 2 /\ Size(s) \in Nat /\ Size(r) \in Nat
    BY <1>2, BoxFields
  <2>7. Size(p) = 2 \/ Size(p) + (n + 1) <= Size(r)
    BY <1>1, <2>4, <2>6
  <2>8. p \in S \cup {c, d} /\ Grows(N, r, p, N \cup (S \cup {c, d}))
    BY <2>4, <2>5
  <2> HIDE DEF M
  <2> QED BY <2>2, <2>3, <2>7, <2>8 DEF CarvedTo
<1> QED BY <1>4, <1>5

LEMMA CarvedGrows ==
  ASSUME NEW N, Binary(N), NEW r \in N, ~ Cut(N, r),
         NEW xy \in Int \X Int, Contains(r, xy)
  PROVE  Grows(N, r, Rect(xy[1], xy[2], 1, 1), N \cup Carved(r, xy))
<1>1. r \in Box /\ Size(r) \in Nat /\ Size(r) = r.w + r.h
  BY BoxFields DEF Binary, Size
<1>2. PICK S : CutRun(S, Size(r), r, xy) /\ Carved(r, xy) = S[Size(r)]
  BY <1>1, CarvedRun
<1> DEFINE Bad == {n \in 0 .. Size(r) : ~ CarvedTo(N, r, xy, S[n], n)}
<1>3. Bad = {}
  <2> SUFFICES ASSUME Bad # {} PROVE FALSE
    OBVIOUS
  <2>1. PICK n \in Bad : \A k \in Bad : n <= k
    <3>1. Bad \subseteq Nat
      BY <1>1
    <3> HIDE DEF Bad
    <3> QED BY <3>1, LeastNat
  <2>2. n \in 0 .. Size(r) /\ n \in Nat /\ S[n] = CutStep(S, n, r, xy)
    BY <1>1, <1>2 DEF CutRun
  <2>3. CASE n = 0
    <3>1. S[n] = {r} /\ N \cup {r} = N
      BY <2>2, <2>3 DEF CutStep
    <3>2. Grows(N, r, r, N)
      BY GrowsNone
    <3>3. Size(r) + n <= Size(r)
      BY <1>1, <2>3
    <3> QED BY <3>1, <3>2, <3>3 DEF CarvedTo
  <2>4. CASE n # 0
    <3>1. n - 1 \in 0 .. Size(r) /\ n - 1 \in Nat /\ n - 1 \notin Bad /\ (n - 1) + 1 = n
      BY <1>1, <2>1, <2>2, <2>4
    <3>2. CarvedTo(N, r, xy, S[n - 1], n - 1)
      BY <3>1
    <3>3. S[n] = CutOnce(S[n - 1], xy)
      BY <2>2, <2>4 DEF CutStep
    <3>4. CarvedTo(N, r, xy, S[n], (n - 1) + 1)
      BY <1>1, <3>1, <3>2, <3>3, CutOnceFacts
    <3> QED BY <3>1, <3>4
  <2> QED BY <2>3, <2>4
<1>4. CarvedTo(N, r, xy, S[Size(r)], Size(r))
  BY <1>1, <1>3
<1>5. PICK s \in S[Size(r)] :
        /\ Contains(s, xy) /\ Grows(N, r, s, N \cup S[Size(r)])
        /\ Size(s) = 2 \/ Size(s) + Size(r) <= Size(r)
  BY <1>4 DEF CarvedTo
<1>6. s \in Box /\ Size(s) = 2
  BY <1>1, <1>5, BoxFields DEF Grows, Binary
<1>7. s = Rect(xy[1], xy[2], 1, 1)
  <2>1. /\ s.x \in Int /\ s.y \in Int /\ s.w \in Nat \ {0} /\ s.h \in Nat \ {0}
        /\ s = Rect(s.x, s.y, s.w, s.h)
    BY <1>6, BoxFields
  <2>2. s.w = 1 /\ s.h = 1
    BY <1>6, <2>1 DEF Size
  <2>3. s.x = xy[1] /\ s.y = xy[2]
    BY <1>5, <2>1, <2>2 DEF Contains
  <2> QED BY <2>1, <2>2, <2>3
<1> QED BY <1>2, <1>5, <1>7

\* Rectangle a of a free leaf of tree t is allocated, which makes tree u.
Grown(t, u, a) ==
  /\ Packed(u) /\ a \in Box
  /\ t.nodes \subseteq u.nodes
  /\ u.allocated = t.allocated \cup {a}
  /\ \A b \in t.allocated : Apart(a, b)
  /\ \E r \in t.nodes : \A s \in u.nodes : s \in t.nodes \/ Within(s, r)

LEMMA GrownFacts ==
  ASSUME NEW t, Packed(t), NEW r \in t.nodes \ t.allocated,
         NEW a, NEW M, Grows(t.nodes, r, a, M)
  PROVE  Grown(t, [nodes |-> M, allocated |-> t.allocated \cup {a}], a)
<1> DEFINE u == [nodes |-> M, allocated |-> t.allocated \cup {a}]
<1>1. Packed(u) /\ \A b \in t.allocated : Apart(a, b)
  BY GrownPacked
<1>2. u.nodes = M /\ u.allocated = t.allocated \cup {a}
  OBVIOUS
<1>3. /\ t.nodes \subseteq M /\ a \in Box
      /\ \A s \in M : s \in t.nodes \/ Within(s, r)
  BY DEF Grows, Binary
<1> HIDE DEF u
<1>4. Grown(t, u, a)
  BY <1>1, <1>2, <1>3 DEF Grown
<1> QED BY <1>4 DEF u

\* The triad at xy is cut out, unless the leaf around it is allocated.
LEMMA RequestFacts ==
  ASSUME NEW t, Packed(t), NEW xy \in Int \X Int,
         NEW n \in t.nodes, Contains(n, xy), request(t, xy) # None
  PROVE  /\ request(t, xy).rect = Rect(xy[1], xy[2], 1, 1)
         /\ Grown(t, request(t, xy).tree, request(t, xy).rect)
<1> DEFINE r == Around(t.nodes, xy)
           a == Rect(xy[1], xy[2], 1, 1)
           u == [nodes |-> t.nodes \cup Carved(r, xy), allocated |-> t.allocated \cup {a}]
<1>1. Binary(t.nodes)
  BY DEF Packed
<1>2. r \in t.nodes /\ Contains(r, xy) /\ ~ Cut(t.nodes, r)
  BY <1>1, AroundFacts
<1>3. r \notin t.allocated
  BY DEF request
<1>4. request(t, xy) = [tree |-> u, rect |-> a]
  BY <1>3 DEF request
<1>5. Grows(t.nodes, r, a, t.nodes \cup Carved(r, xy))
  <2> HIDE DEF r
  <2> QED BY <1>1, <1>2, CarvedGrows
<1>6. Grown(t, u, a)
  <2> HIDE DEF r, a
  <2> QED BY <1>2, <1>3, <1>5, GrownFacts
<1> HIDE DEF u, a
<1> QED BY <1>4, <1>6 DEF a

-----------------------------------------------------------------------------
(* alloc and alloc_area                                                    *)

\* One of the leaves in a set comes before the others.
LEMMA FirstLeaf ==
  ASSUME NEW t, Binary(t.nodes), NEW root \in t.nodes,
         \A s \in t.nodes : Within(s, root),
         NEW fit, fit \subseteq t.nodes, fit # {}, \A r \in fit : ~ Cut(t.nodes, r)
  PROVE  \E r \in fit : \A s \in fit \ {r} : Before(t, r, s)
<1> DEFINE First(n) == \E r \in fit : /\ Within(r, n)
                                      /\ \A s \in fit \ {r} : Within(s, n) => Before(t, r, s)
           Bad == {n \in t.nodes : (\E r \in fit : Within(r, n)) /\ ~ First(n)}
<1>1. t.nodes \subseteq Box
  BY DEF Binary
<1>2. Bad = {}
  <2> SUFFICES ASSUME Bad # {} PROVE FALSE
    OBVIOUS
  <2>1. PICK n \in Bad : \A m \in Bad : Size(n) <= Size(m)
    <3>1. Bad \subseteq Box
      BY <1>1
    <3> HIDE DEF Bad
    <3> QED BY <3>1, SmallestBox
  <2>2. n \in t.nodes /\ n \in Box /\ ~ First(n)
    BY <1>1, <2>1
  <2>3. PICK r0 \in fit : Within(r0, n)
    BY <2>1
  <2>4. CASE ~ Cut(t.nodes, n)
    <3>1. \A r \in fit : Within(r, n) => r = n
      BY <2>2, <2>4 DEF Cut
    <3> QED BY <2>2, <2>3, <3>1
  <2>5. CASE Cut(t.nodes, n)
    <3>1. PICK c \in t.nodes, d \in t.nodes : Parts(t.nodes, n, c, d)
      BY <2>2, <2>5 DEF Binary
    <3>2. /\ c \in Box /\ d \in Box /\ CutInto(n, c, d)
          /\ Within(c, n) /\ Within(d, n) /\ c # n /\ d # n /\ c # d
      BY <1>1, <2>2, <3>1, CutFacts DEF Parts
    <3>3. Children(t, n) = {c, d}
      BY <2>2, <3>1, ChildrenFacts
    <3>4. \A r \in fit : Within(r, n) => Within(r, c) \/ Within(r, d)
      BY <2>2, <2>5, <3>1 DEF Under, Parts
    <3>5. \/ Area(c) < Area(d) \/ (Area(c) = Area(d) /\ c.x <= d.x /\ c.y <= d.y)
          \/ Area(d) < Area(c)
      <4>1. Area(c) \in Int /\ Area(d) \in Int /\ c.x <= d.x /\ c.y <= d.y
        BY <2>2, <3>2, BoxFields DEF CutInto, Area
      <4> QED BY <4>1
    <3>6. ASSUME NEW p \in {c, d}, NEW q \in {c, d}, p # q,
                 \/ Area(p) < Area(q)
                 \/ Area(p) = Area(q) /\ p.x <= q.x /\ p.y <= q.y
          PROVE  FALSE
      <4>1. ASSUME NEW a \in fit, NEW b \in fit, Within(a, p), Within(b, q)
            PROVE  Before(t, a, b)
        <5>1. a \in Box /\ b \in Box /\ p \in Box /\ q \in Box
          BY <1>1, <3>2
        <5>2. Within(a, n) /\ Within(b, n)
          BY <2>2, <3>2, <4>1, <5>1, WithinTransitive
        <5>3. p \in Children(t, n) /\ q \in Children(t, n)
          BY <3>3
        <5> QED BY <2>2, <3>6, <4>1, <5>2, <5>3 DEF Before
      <4>2. \A m \in {p, q} : (\E r \in fit : Within(r, m)) => First(m)
        <5>1. ASSUME NEW m \in {p, q}, \E r \in fit : Within(r, m), ~ First(m)
              PROVE  FALSE
          <6>1. m \in t.nodes /\ m \in Box /\ Within(m, n) /\ m # n
            BY <1>1, <3>2
          <6>2. m \in Bad
            BY <5>1, <6>1
          <6>3. Size(m) < Size(n)
            BY <2>2, <6>1, WithinSmaller
          <6> HIDE DEF Bad
          <6> QED BY <2>1, <2>2, <6>1, <6>2, <6>3, BoxFields
        <5> QED BY <5>1
      <4>3. CASE \E r \in fit : Within(r, p)
        <5>1. PICK r \in fit : /\ Within(r, p)
                               /\ \A s \in fit \ {r} : Within(s, p) => Before(t, r, s)
          BY <4>2, <4>3
        <5>2. Within(r, n)
          BY <1>1, <2>2, <3>2, <5>1, WithinTransitive
        <5>3. \A s \in fit \ {r} : Within(s, n) => Before(t, r, s)
          BY <3>4, <3>6, <4>1, <5>1
        <5> QED BY <2>2, <5>1, <5>2, <5>3
      <4>4. CASE ~ \E r \in fit : Within(r, p)
        <5>1. \A s \in fit : Within(s, n) => Within(s, q)
          BY <3>4, <3>6, <4>4
        <5>2. PICK r \in fit : /\ Within(r, q)
                               /\ \A s \in fit \ {r} : Within(s, q) => Before(t, r, s)
          BY <2>3, <4>2, <5>1
        <5>3. Within(r, n)
          BY <1>1, <2>2, <3>2, <5>2, WithinTransitive
        <5> QED BY <2>2, <5>1, <5>2, <5>3
      <4> QED BY <4>3, <4>4
    <3> QED BY <3>2, <3>5, <3>6
  <2> QED BY <2>4, <2>5
<1>3. \A r \in fit : Within(r, root)
  OBVIOUS
<1>4. First(root)
  BY <1>2, <1>3
<1> QED BY <1>3, <1>4

\* Where there is room in leaf r, it is in a corner.
LEMMA CornerFacts ==
  ASSUME NEW r \in Box, NEW w, NEW h, NEW ok, ok \subseteq Box,
         w <= r.w, h <= r.h, Acceptable(r, w, h, ok) # {}
  PROVE  LET xy == _find_acceptable(r, w, h, ok)
             a == Rect(xy[1], xy[2], w, h)
         IN  a \in ok /\ InCorner(a, r)
<1> DEFINE S == Acceptable(r, w, h, ok)
           i == CHOOSE i \in S : \A k \in S : i <= k
           xy == _find_acceptable(r, w, h, ok)
           a == Rect(xy[1], xy[2], w, h)
<1>1. S \subseteq 1 .. 4 /\ S # {}
  BY DEF Acceptable
<1>2. i \in S
  <2>1. S \subseteq Nat
    BY <1>1
  <2> HIDE DEF S
  <2>2. \E j \in S : \A k \in S : j <= k
    BY <1>1, <2>1, LeastNat
  <2> QED BY <2>2
<1>3. xy = Corners(r, w, h)[i] /\ i \in 1 .. 4
  BY <1>1, <1>2 DEF _find_acceptable
<1>4. a \in ok
  <2> HIDE DEF i
  <2> QED BY <1>2, <1>3 DEF Acceptable
<1>5. /\ a.x = xy[1] /\ a.y = xy[2] /\ a.w = w /\ a.h = h
      /\ a.x \in Int /\ a.y \in Int /\ a.w \in Nat \ {0} /\ a.h \in Nat \ {0}
      /\ r.x \in Int /\ r.y \in Int /\ r.w \in Nat \ {0} /\ r.h \in Nat \ {0}
  <2>1. a.x = xy[1] /\ a.y = xy[2] /\ a.w = w /\ a.h = h
    BY DEF Rect
  <2>2. a \in Box
    BY <1>4
  <2> HIDE DEF a, xy
  <2> QED BY <2>1, <2>2, BoxFields
<1>6. /\ xy[1] = r.x \/ xy[1] = r.x + r.w - w
      /\ xy[2] = r.y \/ xy[2] = r.y + r.h - h
  <2> HIDE DEF xy, i
  <2>1. i = 1 \/ i = 2 \/ i = 3 \/ i = 4
    BY <1>3
  <2> QED BY <1>3, <2>1 DEF Corners
<1>7. InCorner(a, r)
  <2> HIDE DEF a, xy
  <2> QED BY <1>5, <1>6 DEF InCorner, Within
<1> QED BY <1>4, <1>7

LEMMA PlacedFacts ==
  ASSUME NEW t, Packed(t), NEW root \in t.nodes, \A s \in t.nodes : Within(s, root),
         NEW want, NEW ok, ok \subseteq Box, Placed(t, want, ok) # None
  PROVE  /\ Placed(t, want, ok).rect \in ok
         /\ Grown(t, Placed(t, want, ok).tree, Placed(t, want, ok).rect)
<1> DEFINE fit == Fitting(t, want, ok)
           r == CHOOSE r \in fit : \A s \in fit \ {r} : Before(t, r, s)
           xy == _find_acceptable(r, want[r][1], want[r][2], ok)
           a == Rect(xy[1], xy[2], want[r][1], want[r][2])
           u == [nodes |-> t.nodes \cup Cuts(r, a), allocated |-> t.allocated \cup {a}]
<1>1. fit # {}
  BY DEF Placed
<1>2. Placed(t, want, ok) = [tree |-> u, rect |-> a]
  BY <1>1 DEF Placed
<1>3. r \in fit
  <2>1. fit \subseteq t.nodes /\ \A q \in fit : ~ Cut(t.nodes, q)
    BY LeavesUnder DEF Fitting, Cut, Under
  <2>2. Binary(t.nodes)
    BY DEF Packed
  <2> HIDE DEF fit
  <2>3. \E q \in fit : \A s \in fit \ {q} : Before(t, q, s)
    BY <1>1, <2>1, <2>2, FirstLeaf
  <2> QED BY <2>3
<1>4. /\ r \in t.nodes \ t.allocated /\ ~ Cut(t.nodes, r) /\ r \in Box
      /\ want[r][1] <= r.w /\ want[r][2] <= r.h
      /\ Acceptable(r, want[r][1], want[r][2], ok) # {}
  <2> HIDE DEF r
  <2> QED BY <1>3, LeavesUnder DEF Fitting, Cut, Under, Packed, Binary
<1>5. a \in ok /\ InCorner(a, r)
  <2> HIDE DEF r
  <2> QED BY <1>4, CornerFacts
<1>6. Grown(t, u, a)
  <2> HIDE DEF r, a
  <2>1. Grows(t.nodes, r, a, t.nodes \cup Cuts(r, a))
    BY <1>4, <1>5, CutsGrow DEF Packed
  <2> QED BY <1>4, <2>1, GrownFacts
<1> HIDE DEF u, a
<1> QED BY <1>2, <1>5, <1>6

-----------------------------------------------------------------------------
(* The tree of a machine.                                                  *)

Root == Rect(0, 0, Width, Height)

\* Where it is that the allocator knows rectangle a by.
Home(a) == <<a.x, a.y>>

LEMMA RootFacts == Root \in Box /\ Root.x = 0 /\ Root.y = 0 /\ Root.w = Width /\ Root.h = Height
  BY SizeAssumption, RectFields DEF Root

\* The rectangles of the machine are those that lie in it.
LEMMA AllRectsAre == AllRects = {a \in Box : Within(a, Root)}
<1>1. ASSUME NEW a \in AllRects
      PROVE  a \in Box /\ Within(a, Root)
  <2>1. PICK w \in 1 .. Width, h \in 1 .. Height : a \in Rects(w, h)
    BY DEF AllRects
  <2>2. PICK x \in 0 .. Width - w, y \in 0 .. Height - h : a = Rect(x, y, w, h)
    BY <2>1 DEF Rects
  <2>3. /\ x \in Int /\ y \in Int /\ w \in Nat \ {0} /\ h \in Nat \ {0}
        /\ 0 <= x /\ x + w <= Width /\ 0 <= y /\ y + h <= Height
    BY SizeAssumption
  <2>4. a \in Box /\ a.x = x /\ a.y = y /\ a.w = w /\ a.h = h
    BY <2>2, <2>3 DEF Box, Rect
  <2> QED BY <2>3, <2>4, RootFacts, SizeAssumption DEF Within
<1>2. ASSUME NEW a \in Box, Within(a, Root)
      PROVE  a \in AllRects
  <2>1. /\ a.x \in Int /\ a.y \in Int /\ a.w \in Nat \ {0} /\ a.h \in Nat \ {0}
        /\ a = Rect(a.x, a.y, a.w, a.h)
    BY BoxFields
  <2>2. /\ 0 <= a.x /\ a.x + a.w <= Width /\ 0 <= a.y /\ a.y + a.h <= Height
    BY <1>2, <2>1, RootFacts, SizeAssumption DEF Within
  <2>3. /\ a.w \in 1 .. Width /\ a.h \in 1 .. Height
        /\ a.x \in 0 .. Width - a.w /\ a.y \in 0 .. Height - a.h
    BY <2>1, <2>2, SizeAssumption
  <2>4. a \in Rects(a.w, a.h)
    BY <2>1, <2>3 DEF Rects
  <2> QED BY <2>3, <2>4 DEF AllRects
<1> QED BY <1>1, <1>2

LEMMA HomeFacts ==
  ASSUME NEW a \in AllRects
  PROVE  Home(a) \in Triad /\ Home(a) \in Int \X Int /\ Contains(a, Home(a)) /\ a \in Box
<1>1. a \in Box /\ Within(a, Root)
  BY AllRectsAre
<1>2. /\ a.x \in Int /\ a.y \in Int /\ a.w \in Nat \ {0} /\ a.h \in Nat \ {0}
  BY <1>1, BoxFields
<1>3. /\ 0 <= a.x /\ a.x + a.w <= Width /\ 0 <= a.y /\ a.y + a.h <= Height
  BY <1>1, <1>2, RootFacts, SizeAssumption DEF Within
<1>4. Home(a)[1] = a.x /\ Home(a)[2] = a.y
  BY DEF Home
<1> QED BY <1>1, <1>2, <1>3, <1>4, SizeAssumption DEF Home, Triad, Contains

LEMMA TriadFacts ==
  ASSUME NEW xy \in Triad
  PROVE  /\ xy \in Int \X Int /\ xy = <<xy[1], xy[2]>> /\ Contains(Root, xy)
         /\ Rect(xy[1], xy[2], 1, 1) \in AllRects
         /\ Home(Rect(xy[1], xy[2], 1, 1)) = xy
         /\ Contains(Rect(xy[1], xy[2], 1, 1), xy)
<1> DEFINE u == Rect(xy[1], xy[2], 1, 1)
<1>1. /\ xy[1] \in Int /\ xy[2] \in Int /\ xy = <<xy[1], xy[2]>>
      /\ 0 <= xy[1] /\ xy[1] <= Width - 1 /\ 0 <= xy[2] /\ xy[2] <= Height - 1
  BY SizeAssumption DEF Triad
<1>2. u \in Box /\ u.x = xy[1] /\ u.y = xy[2] /\ u.w = 1 /\ u.h = 1
  BY <1>1 DEF Box, Rect
<1> HIDE DEF u
<1>3. Contains(Root, xy) /\ Within(u, Root) /\ Contains(u, xy)
  BY <1>1, <1>2, RootFacts, SizeAssumption DEF Contains, Within
<1>4. Home(u) = xy /\ u \in AllRects /\ xy \in Int \X Int
  BY <1>1, <1>2, <1>3, AllRectsAre DEF Home
<1> QED BY <1>1, <1>3, <1>4 DEF u

Covers(t) ==
  /\ Packed(t)
  /\ Root \in t.nodes /\ t.nodes \subseteq AllRects

LEMMA CoversFacts ==
  ASSUME NEW t, Covers(t)
  PROVE  /\ Binary(t.nodes) /\ t.nodes \subseteq Box
         /\ \A s \in t.nodes : Within(s, Root)
         /\ t.allocated \subseteq t.nodes /\ t.allocated \subseteq AllRects
         /\ t.allocated \subseteq Leaves(t)
  BY AllRectsAre, LeavesUnder DEF Covers, Packed, Binary, Cut, Under

\* No two rectangles that are allocated have a corner in common.
LEMMA HomeUnique ==
  ASSUME NEW t, Covers(t), NEW a \in t.allocated, NEW b \in t.allocated, Home(a) = Home(b)
  PROVE  a = b
<1>1. /\ a \in t.nodes /\ b \in t.nodes /\ ~ Cut(t.nodes, a) /\ ~ Cut(t.nodes, b)
      /\ a \in AllRects /\ b \in AllRects
  BY CoversFacts DEF Covers, Packed
<1>2. ~ Apart(a, b)
  BY <1>1, HomeFacts, ContainsApart
<1> QED BY <1>1, <1>2, CoversFacts, LeavesApart

\* What is allocated at xy is what free frees.
LEMMA AroundHome ==
  ASSUME NEW t, Covers(t), NEW a \in t.allocated
  PROVE  Around(t.nodes, Home(a)) = a
<1>1. a \in t.nodes /\ ~ Cut(t.nodes, a) /\ a \in AllRects
  BY CoversFacts DEF Covers, Packed
<1>2. Home(a) \in Int \X Int /\ Contains(a, Home(a))
  BY <1>1, HomeFacts
<1> QED BY <1>1, <1>2, CoversFacts, AroundFacts

LEMMA FreeCovers ==
  ASSUME NEW t, Covers(t), NEW a \in t.allocated
  PROVE  /\ Covers(free(t, Home(a)))
         /\ free(t, Home(a)).allocated = t.allocated \ {a}
<1>1. a \in t.nodes /\ a \in AllRects
  BY CoversFacts
<1>2. Home(a) \in Int \X Int /\ Contains(a, Home(a))
  BY <1>1, HomeFacts
<1>3. /\ Packed(free(t, Home(a)))
      /\ free(t, Home(a)).nodes \subseteq t.nodes
      /\ free(t, Home(a)).allocated = t.allocated \ {Around(t.nodes, Home(a))}
      /\ Root \in free(t, Home(a)).nodes
  BY <1>1, <1>2, FreeFacts, CoversFacts DEF Covers
<1> QED BY <1>3, AroundHome DEF Covers

LEMMA GrownCovers ==
  ASSUME NEW t, Covers(t), NEW u, NEW a, Grown(t, u, a)
  PROVE  /\ Covers(u) /\ u.allocated = t.allocated \cup {a} /\ a \in AllRects
         /\ a \notin t.allocated
         /\ \A b \in t.allocated : Home(b) # Home(a)
<1>1. /\ Packed(u) /\ Root \in u.nodes /\ u.nodes \subseteq Box
      /\ u.allocated = t.allocated \cup {a} /\ a \in u.nodes
  BY DEF Grown, Covers, Packed, Binary
<1>2. PICK r \in t.nodes : \A s \in u.nodes : s \in t.nodes \/ Within(s, r)
  BY DEF Grown
<1>3. u.nodes \subseteq AllRects
  <2>1. ASSUME NEW s \in u.nodes
        PROVE  s \in Box /\ Within(s, Root)
    BY <1>1, <1>2, CoversFacts, RootFacts, WithinTransitive
  <2> QED BY <2>1, AllRectsAre
<1>4. ASSUME NEW b \in t.allocated
      PROVE  Home(b) # Home(a) /\ b # a
  <2>1. Apart(a, b) /\ a \in AllRects /\ b \in AllRects
    BY <1>1, <1>3, CoversFacts DEF Grown
  <2> QED BY <2>1, HomeFacts, ContainsApart
<1> QED BY <1>1, <1>3, <1>4 DEF Covers

-----------------------------------------------------------------------------
(* What the stores owe to those who hold boards, u being the boards that   *)
(* cannot be trusted and f the faults.                                     *)

Unit(xy) == Rect(xy[1], xy[2], 1, 1)
At(xy, z) == <<xy[1], xy[2], z>>

SharedBy(s) == s.full \cup DOMAIN s.singles
SpareOf(s, xy) == IF xy \in s.full THEN {} ELSE s.singles[xy]

\* The triad was not in use when its dead boards changed.
Trusted(u, xy) == BoardsOf(xy) \cap u = {}

\* What is held, L being live and Q what is left of to_free after n entries:
\* each entry with where it is.
Holdings(L, Q, n) ==
  {<<L[i], "live", i>> : i \in DOMAIN L}
    \cup {<<Q[k], "cooling", k>> : k \in n + 1 .. Len(Q)}

IsBlock(g) == g[1].type = "triads"
IsSingle(g) == g[1].type = "board"
Corner(g) == TriadOf(g[1].board)

\* Board b is out on its own.
IsOut(H, b) == \E g \in H : IsSingle(g) /\ g[1].board = b

StoresSound(s) ==
  /\ s = [tree |-> s.tree, singles |-> s.singles, full |-> s.full]
  /\ Covers(s.tree)
  /\ DOMAIN s.singles \subseteq Triad
  /\ s.singles \in [DOMAIN s.singles -> (SUBSET (0 .. 2)) \ {{}}]
  /\ s.full \subseteq Triad \ DOMAIN s.singles

HoldingsSound(H) ==
  \A g \in H : g[1] \in EntryType /\ (IsSingle(g) => g[1].boards = {g[1].board})

\* Each leaf that is allocated is that of one block, or a triad for single
\* boards.
BlocksSound(s, H) ==
  /\ \A g \in H : IsBlock(g) =>
       \E a \in s.tree.allocated :
         /\ Home(a) = Corner(g) /\ Home(a) \notin SharedBy(s)
         /\ \A b \in g[1].boards : Contains(a, TriadOf(b))
  /\ \A xy \in SharedBy(s) : Unit(xy) \in s.tree.allocated
  /\ \A a \in s.tree.allocated :
       Home(a) \in SharedBy(s) \/ \E g \in H : IsBlock(g) /\ Corner(g) = Home(a)
  /\ \A g, h \in H : IsBlock(g) /\ IsBlock(h) /\ g # h => Corner(g) # Corner(h)

\* Each board of a triad for single boards, but for the dead boards in f, is to
\* spare or out once.
SinglesSound(s, H, f, u) ==
  /\ \A g \in H : IsSingle(g) /\ Trusted(u, Corner(g)) => Corner(g) \in SharedBy(s)
  /\ \A g, h \in H : IsSingle(g) /\ IsSingle(h) /\ g # h /\ Trusted(u, Corner(g)) =>
       g[1].board # h[1].board
  /\ \A xy \in SharedBy(s) : Trusted(u, xy) =>
       \A z \in 0 .. 2 :
         /\ At(xy, z) \notin f.boards <=> z \in SpareOf(s, xy) \/ IsOut(H, At(xy, z))
         /\ ~ (z \in SpareOf(s, xy) /\ IsOut(H, At(xy, z)))

\* None of these triads, but those in X, is all to spare.
InUse(s, H, u, X) ==
  \A xy \in SharedBy(s) \ X : Trusted(u, xy) => \E z \in 0 .. 2 : IsOut(H, At(xy, z))

Sound(s, H, f, u, X) ==
  /\ StoresSound(s) /\ HoldingsSound(H)
  /\ BlocksSound(s, H) /\ SinglesSound(s, H, f, u) /\ InUse(s, H, u, X)

LEMMA SpareSets ==
  ASSUME NEW B
  PROVE  B \in (SUBSET (0 .. 2)) \ {{}} <=> B \subseteq 0 .. 2 /\ B # {}
  BY Zenon

LEMMA BoardFacts ==
  ASSUME NEW b \in Board
  PROVE  /\ TriadOf(b) \in Triad /\ b[3] \in 0 .. 2
         /\ b = At(TriadOf(b), b[3]) /\ b \in BoardsOf(TriadOf(b))
  BY DEF Board, TriadOf, At, BoardsOf, Triad

LEMMA AtFacts ==
  ASSUME NEW xy \in Triad, NEW z \in 0 .. 2
  PROVE  At(xy, z) \in Board /\ TriadOf(At(xy, z)) = xy /\ At(xy, z)[3] = z
  BY DEF Board, TriadOf, At, Triad

LEMMA EntryFacts ==
  ASSUME NEW H, HoldingsSound(H), NEW g \in H
  PROVE  /\ g[1] \in EntryType /\ g[1].board \in Board /\ g[1].boards \subseteq Board
         /\ Corner(g) \in Triad
         /\ IsBlock(g) \/ IsSingle(g)
         /\ ~ (IsBlock(g) /\ IsSingle(g))
<1>1. g[1] \in EntryType
  BY DEF HoldingsSound
<1>2. /\ g[1].board \in Board /\ g[1].boards \subseteq Board
      /\ g[1].type = "triads" \/ g[1].type = "board"
  BY <1>1 DEF EntryType
<1> QED BY <1>1, <1>2, BoardFacts DEF IsBlock, IsSingle, Corner

-----------------------------------------------------------------------------
(* What is freed.                                                          *)

\* A block of triads.
LEMMA BlockReleased ==
  ASSUME NEW s, NEW H, NEW f, NEW u, Sound(s, H, f, u, {}),
         NEW g \in H, IsBlock(g)
  PROVE  Sound([s EXCEPT !.tree = free(@, Corner(g))], H \ {g}, f, u, {})
<1> DEFINE n == [s EXCEPT !.tree = free(@, Corner(g))]
           K == H \ {g}
<1>1. /\ StoresSound(s) /\ HoldingsSound(H) /\ BlocksSound(s, H)
      /\ SinglesSound(s, H, f, u) /\ InUse(s, H, u, {})
  BY DEF Sound
<1>2. /\ n.tree = free(s.tree, Corner(g)) /\ n.singles = s.singles /\ n.full = s.full
      /\ n = [tree |-> n.tree, singles |-> n.singles, full |-> n.full]
  BY <1>1 DEF StoresSound
<1>3. PICK a \in s.tree.allocated : Home(a) = Corner(g) /\ Home(a) \notin SharedBy(s)
  BY <1>1 DEF BlocksSound
<1>4. Covers(s.tree)
  BY <1>1 DEF StoresSound
<1> HIDE DEF n
<1>5. Covers(n.tree) /\ n.tree.allocated = s.tree.allocated \ {a}
  BY <1>2, <1>3, <1>4, FreeCovers
<1>6. SharedBy(n) = SharedBy(s) /\ \A xy : SpareOf(n, xy) = SpareOf(s, xy)
  BY <1>2 DEF SharedBy, SpareOf
<1>7. StoresSound(n) /\ HoldingsSound(K)
  BY <1>1, <1>2, <1>5 DEF StoresSound, HoldingsSound
<1>8. BlocksSound(n, K)
  <2>1. ASSUME NEW h \in K, IsBlock(h)
        PROVE  \E b \in n.tree.allocated :
                 /\ Home(b) = Corner(h) /\ Home(b) \notin SharedBy(n)
                 /\ \A c \in h[1].boards : Contains(b, TriadOf(c))
    <3>1. PICK b \in s.tree.allocated :
            /\ Home(b) = Corner(h) /\ Home(b) \notin SharedBy(s)
            /\ \A c \in h[1].boards : Contains(b, TriadOf(c))
      BY <1>1, <2>1 DEF BlocksSound
    <3>2. Corner(h) # Corner(g)
      BY <1>1, <2>1 DEF BlocksSound
    <3> QED BY <1>3, <1>5, <1>6, <3>1, <3>2
  <2>2. ASSUME NEW xy \in SharedBy(n)
        PROVE  Unit(xy) \in n.tree.allocated
    <3>1. xy \in Triad /\ xy \in SharedBy(s) /\ Unit(xy) \in s.tree.allocated
      BY <1>1, <1>6 DEF StoresSound, SharedBy, BlocksSound
    <3>2. Home(Unit(xy)) = xy
      BY <3>1, TriadFacts DEF Unit
    <3> QED BY <1>3, <1>5, <3>1, <3>2
  <2>3. ASSUME NEW b \in n.tree.allocated
        PROVE  Home(b) \in SharedBy(n) \/ \E h \in K : IsBlock(h) /\ Corner(h) = Home(b)
    <3>1. b \in s.tree.allocated /\ b # a
      BY <1>5
    <3>2. Home(b) # Corner(g)
      BY <1>3, <1>4, <3>1, HomeUnique
    <3> QED BY <1>1, <1>6, <3>1, <3>2 DEF BlocksSound
  <2>4. \A h, j \in K : IsBlock(h) /\ IsBlock(j) /\ h # j => Corner(h) # Corner(j)
    BY <1>1 DEF BlocksSound
  <2> HIDE DEF K
  <2> QED BY <2>1, <2>2, <2>3, <2>4 DEF BlocksSound
<1>9. \A b : IsOut(K, b) <=> IsOut(H, b)
  BY DEF IsOut, IsBlock, IsSingle
<1>10. SinglesSound(n, K, f, u) /\ InUse(n, K, u, {})
  BY <1>1, <1>6, <1>9 DEF SinglesSound, InUse
<1>11. Sound(n, K, f, u, {})
  BY <1>7, <1>8, <1>10 DEF Sound
<1> QED BY <1>11 DEF n

WorkingOf(f, xy) == {z \in 0 .. 2 : At(xy, z) \notin f.boards}

\* What there is to spare of its triad once the board held as g is back.
BackWith(s, g) == {g[1].board[3]} \cup SpareOf(s, Corner(g))

LEMMA SpareFacts ==
  ASSUME NEW s, StoresSound(s), NEW xy \in SharedBy(s)
  PROVE  /\ SpareOf(s, xy) \subseteq 0 .. 2 /\ xy \in Triad
         /\ Unit(xy) \in AllRects /\ Home(Unit(xy)) = xy
  BY TriadFacts DEF StoresSound, SharedBy, SpareOf, Unit

\* When one of the boards that are out is no longer.
LEMMA OutBut ==
  ASSUME NEW H, HoldingsSound(H), NEW g \in H, IsSingle(g),
         NEW b, IsOut(H, b), b # g[1].board
  PROVE  IsOut(H \ {g}, b)
  BY DEF IsOut

\* In a triad that can be trusted, no board is out twice.
LEMMA OutOnce ==
  ASSUME NEW s, NEW H, NEW f, NEW u, SinglesSound(s, H, f, u),
         NEW g \in H, IsSingle(g), Trusted(u, Corner(g))
  PROVE  ~ IsOut(H \ {g}, g[1].board)
  BY DEF IsOut, SinglesSound, Corner

\* A board of a triad that now goes back to the tree.
LEMMA TriadReleased ==
  ASSUME NEW s, NEW H, NEW f, NEW u, Sound(s, H, f, u, {}),
         NEW g \in H, IsSingle(g), Corner(g) \in SharedBy(s),
         BackWith(s, g) = WorkingOf(f, Corner(g))
  PROVE  Sound([tree |-> free(s.tree, Corner(g)), singles |-> Drop(s.singles, Corner(g)),
                full |-> s.full \ {Corner(g)}], H \ {g}, f, u, {})
<1> DEFINE xy == Corner(g)
           n == [tree |-> free(s.tree, xy), singles |-> Drop(s.singles, xy),
                 full |-> s.full \ {xy}]
           K == H \ {g}
<1>1. /\ StoresSound(s) /\ HoldingsSound(H) /\ BlocksSound(s, H)
      /\ SinglesSound(s, H, f, u) /\ InUse(s, H, u, {})
  BY DEF Sound
<1>2. /\ n.tree = free(s.tree, xy) /\ n.singles = Drop(s.singles, xy) /\ n.full = s.full \ {xy}
      /\ n = [tree |-> n.tree, singles |-> n.singles, full |-> n.full]
  OBVIOUS
<1>3. /\ xy \in SharedBy(s) /\ Unit(xy) \in s.tree.allocated /\ Home(Unit(xy)) = xy
      /\ Covers(s.tree)
  BY <1>1, SpareFacts DEF BlocksSound, StoresSound
<1>4. g[1].board \in Board /\ g[1].board = At(xy, g[1].board[3]) /\ g[1].board[3] \in 0 .. 2
  BY <1>1, EntryFacts, BoardFacts DEF Corner
<1>5. BackWith(s, g) = WorkingOf(f, xy)
  OBVIOUS
<1> HIDE DEF n, xy
<1>6. Covers(n.tree) /\ n.tree.allocated = s.tree.allocated \ {Unit(xy)}
  BY <1>2, <1>3, FreeCovers
<1>7. /\ SharedBy(n) = SharedBy(s) \ {xy}
      /\ \A p \in SharedBy(n) : SpareOf(n, p) = SpareOf(s, p)
  BY <1>1, <1>2 DEF SharedBy, SpareOf, Drop, StoresSound
<1>8. StoresSound(n) /\ HoldingsSound(K)
  <2>1. /\ DOMAIN n.singles \subseteq Triad
        /\ n.singles \in [DOMAIN n.singles -> (SUBSET (0 .. 2)) \ {{}}]
        /\ n.full \subseteq Triad \ DOMAIN n.singles
    BY <1>1, <1>2 DEF StoresSound, Drop
  <2> QED BY <1>1, <1>2, <1>6, <2>1 DEF StoresSound, HoldingsSound
<1>9. BlocksSound(n, K)
  <2>1. ASSUME NEW h \in K, IsBlock(h)
        PROVE  \E b \in n.tree.allocated :
                 /\ Home(b) = Corner(h) /\ Home(b) \notin SharedBy(n)
                 /\ \A c \in h[1].boards : Contains(b, TriadOf(c))
    <3>1. PICK b \in s.tree.allocated :
            /\ Home(b) = Corner(h) /\ Home(b) \notin SharedBy(s)
            /\ \A c \in h[1].boards : Contains(b, TriadOf(c))
      BY <1>1, <2>1 DEF BlocksSound
    <3> QED BY <1>3, <1>6, <1>7, <3>1
  <2>2. ASSUME NEW p \in SharedBy(n)
        PROVE  Unit(p) \in n.tree.allocated
    <3>1. p \in SharedBy(s) /\ p # xy /\ Unit(p) \in s.tree.allocated
      BY <1>1, <1>7 DEF BlocksSound
    <3>2. Home(Unit(p)) = p
      BY <1>1, <3>1, SpareFacts
    <3> QED BY <1>3, <1>6, <3>1, <3>2
  <2>3. ASSUME NEW b \in n.tree.allocated
        PROVE  Home(b) \in SharedBy(n) \/ \E h \in K : IsBlock(h) /\ Corner(h) = Home(b)
    <3>1. b \in s.tree.allocated /\ b # Unit(xy)
      BY <1>6
    <3>2. Home(b) # xy
      BY <1>3, <3>1, HomeUnique
    <3>3. \A h \in H : IsBlock(h) => h \in K
      BY DEF IsBlock, IsSingle
    <3> QED BY <1>1, <1>7, <3>1, <3>2, <3>3 DEF BlocksSound
  <2>4. \A h, j \in K : IsBlock(h) /\ IsBlock(j) /\ h # j => Corner(h) # Corner(j)
    BY <1>1 DEF BlocksSound
  <2> HIDE DEF K
  <2> QED BY <2>1, <2>2, <2>3, <2>4 DEF BlocksSound
<1>10. \A p, z : p # xy /\ p \in Triad /\ z \in 0 .. 2 => (IsOut(K, At(p, z)) <=> IsOut(H, At(p, z)))
  <2>1. ASSUME NEW p \in Triad, p # xy, NEW z \in 0 .. 2
        PROVE  At(p, z) # g[1].board
    BY <2>1, AtFacts DEF xy, Corner
  <2>2. \A b : IsOut(K, b) => IsOut(H, b)
    BY DEF IsOut
  <2> QED BY <1>1, <2>1, <2>2, OutBut
<1>11. SinglesSound(n, K, f, u)
  <2>1. ASSUME NEW h \in K, IsSingle(h), Trusted(u, Corner(h))
        PROVE  Corner(h) \in SharedBy(n)
    <3>1. Corner(h) \in SharedBy(s)
      BY <1>1, <2>1 DEF SinglesSound
    <3>2. ASSUME Corner(h) = xy
          PROVE  FALSE
      <4>1. h[1].board = At(xy, h[1].board[3]) /\ h[1].board[3] \in 0 .. 2
        BY <1>1, <3>2, EntryFacts, BoardFacts DEF Corner
      <4>2. h[1].board # g[1].board
        BY <1>1, <2>1 DEF SinglesSound
      <4>3. IsOut(H, h[1].board)
        BY <2>1 DEF IsOut
      <4>4. /\ h[1].board[3] \in WorkingOf(f, xy)
            /\ h[1].board[3] \notin SpareOf(s, xy)
        BY <1>1, <1>3, <2>1, <3>2, <4>1, <4>3 DEF SinglesSound, WorkingOf
      <4>5. h[1].board[3] # g[1].board[3]
        BY <1>4, <4>1, <4>2
      <4> QED BY <1>5, <4>4, <4>5 DEF BackWith, xy
    <3> QED BY <1>7, <3>1, <3>2
  <2>2. \A h, j \in K : IsSingle(h) /\ IsSingle(j) /\ h # j /\ Trusted(u, Corner(h)) =>
          h[1].board # j[1].board
    BY <1>1 DEF SinglesSound
  <2>3. ASSUME NEW p \in SharedBy(n), Trusted(u, p), NEW z \in 0 .. 2
        PROVE  /\ At(p, z) \notin f.boards <=> z \in SpareOf(n, p) \/ IsOut(K, At(p, z))
               /\ ~ (z \in SpareOf(n, p) /\ IsOut(K, At(p, z)))
    <3>1. p \in SharedBy(s) /\ p # xy /\ p \in Triad /\ SpareOf(n, p) = SpareOf(s, p)
      BY <1>1, <1>7, <2>3, SpareFacts
    <3> QED BY <1>1, <1>10, <2>3, <3>1 DEF SinglesSound
  <2> HIDE DEF K
  <2> QED BY <2>1, <2>2, <2>3 DEF SinglesSound
<1>12. InUse(n, K, u, {})
  <2>1. ASSUME NEW p \in SharedBy(n), Trusted(u, p)
        PROVE  \E z \in 0 .. 2 : IsOut(K, At(p, z))
    <3>1. p \in SharedBy(s) /\ p # xy /\ p \in Triad
      BY <1>1, <1>7, <2>1, SpareFacts
    <3>2. PICK z \in 0 .. 2 : IsOut(H, At(p, z))
      BY <1>1, <2>1, <3>1 DEF InUse
    <3> QED BY <1>10, <3>1, <3>2
  <2> HIDE DEF K
  <2> QED BY <2>1 DEF InUse
<1>13. Sound(n, K, f, u, {})
  BY <1>8, <1>9, <1>11, <1>12 DEF Sound
<1> QED BY <1>13 DEF n, xy

\* A board of a triad that still has some out.
LEMMA BoardReleased ==
  ASSUME NEW s, NEW H, NEW f, NEW u, Sound(s, H, f, u, {}),
         NEW g \in H, IsSingle(g), Corner(g) \in SharedBy(s),
         BackWith(s, g) # WorkingOf(f, Corner(g))
  PROVE  Sound([tree |-> s.tree, singles |-> Put(s.singles, Corner(g), BackWith(s, g)),
                full |-> s.full \ {Corner(g)}], H \ {g}, f, u, {})
<1> DEFINE xy == Corner(g)
           back == BackWith(s, g)
           n == [tree |-> s.tree, singles |-> Put(s.singles, xy, back), full |-> s.full \ {xy}]
           K == H \ {g}
<1>1. /\ StoresSound(s) /\ HoldingsSound(H) /\ BlocksSound(s, H)
      /\ SinglesSound(s, H, f, u) /\ InUse(s, H, u, {})
  BY DEF Sound
<1>2. /\ n.tree = s.tree /\ n.singles = Put(s.singles, xy, back) /\ n.full = s.full \ {xy}
      /\ n = [tree |-> n.tree, singles |-> n.singles, full |-> n.full]
  OBVIOUS
<1>3. xy \in SharedBy(s) /\ xy \in Triad /\ SpareOf(s, xy) \subseteq 0 .. 2
  BY <1>1, SpareFacts
<1>4. g[1].board \in Board /\ g[1].board = At(xy, g[1].board[3]) /\ g[1].board[3] \in 0 .. 2
  BY <1>1, EntryFacts, BoardFacts DEF Corner
<1>5. /\ back = {g[1].board[3]} \cup SpareOf(s, xy) /\ back # WorkingOf(f, xy)
      /\ back \subseteq 0 .. 2 /\ back # {}
  BY <1>3, <1>4 DEF BackWith
<1> HIDE DEF n, xy, back
<1>6. /\ SharedBy(n) = SharedBy(s)
      /\ \A p \in SharedBy(n) : p # xy => SpareOf(n, p) = SpareOf(s, p)
      /\ SpareOf(n, xy) = back
  BY <1>1, <1>2, <1>3 DEF SharedBy, SpareOf, Put, StoresSound
<1>7. StoresSound(n) /\ HoldingsSound(K)
  <2>1. /\ DOMAIN n.singles \subseteq Triad
        /\ n.singles \in [DOMAIN n.singles -> (SUBSET (0 .. 2)) \ {{}}]
        /\ n.full \subseteq Triad \ DOMAIN n.singles
    <3>1. back \in (SUBSET (0 .. 2)) \ {{}}
      BY <1>5, SpareSets
    <3>2. Put(s.singles, xy, back) \in [DOMAIN s.singles \cup {xy} -> (SUBSET (0 .. 2)) \ {{}}]
      BY <1>1, <3>1 DEF StoresSound, Put
    <3>3. DOMAIN n.singles = DOMAIN s.singles \cup {xy}
      BY <1>2 DEF Put
    <3> QED BY <1>1, <1>2, <1>3, <3>2, <3>3 DEF StoresSound
  <2> QED BY <1>1, <1>2, <2>1 DEF StoresSound, HoldingsSound
<1>8. BlocksSound(n, K)
  <2>1. \A h \in H : IsBlock(h) => h \in K
    BY DEF IsBlock, IsSingle
  <2> QED BY <1>1, <1>2, <1>6, <2>1 DEF BlocksSound
<1>9. \A p, z : p # xy /\ p \in Triad /\ z \in 0 .. 2 => (IsOut(K, At(p, z)) <=> IsOut(H, At(p, z)))
  <2>1. ASSUME NEW p \in Triad, p # xy, NEW z \in 0 .. 2
        PROVE  At(p, z) # g[1].board
    BY <2>1, AtFacts DEF xy, Corner
  <2>2. \A b : IsOut(K, b) => IsOut(H, b)
    BY DEF IsOut
  <2> QED BY <1>1, <2>1, <2>2, OutBut
<1>10. ASSUME Trusted(u, xy), NEW z \in 0 .. 2
       PROVE  /\ IsOut(K, At(xy, z)) <=> IsOut(H, At(xy, z)) /\ z # g[1].board[3]
              /\ IsOut(H, At(xy, g[1].board[3]))
  <2>1. IsOut(H, g[1].board)
    BY DEF IsOut
  <2>2. ~ IsOut(K, g[1].board)
    BY <1>1, <1>10, OutOnce DEF xy
  <2>3. z # g[1].board[3] => At(xy, z) # g[1].board
    BY <1>3, <1>4, AtFacts
  <2>4. IsOut(K, At(xy, z)) => IsOut(H, At(xy, z))
    BY DEF IsOut
  <2> QED BY <1>1, <1>4, <2>1, <2>2, <2>3, <2>4, OutBut
<1>11. SinglesSound(n, K, f, u)
  <2>1. \A h \in K : IsSingle(h) /\ Trusted(u, Corner(h)) => Corner(h) \in SharedBy(n)
    BY <1>1, <1>6 DEF SinglesSound
  <2>2. \A h, j \in K : IsSingle(h) /\ IsSingle(j) /\ h # j /\ Trusted(u, Corner(h)) =>
          h[1].board # j[1].board
    BY <1>1 DEF SinglesSound
  <2>3. ASSUME NEW p \in SharedBy(n), Trusted(u, p), NEW z \in 0 .. 2
        PROVE  /\ At(p, z) \notin f.boards <=> z \in SpareOf(n, p) \/ IsOut(K, At(p, z))
               /\ ~ (z \in SpareOf(n, p) /\ IsOut(K, At(p, z)))
    <3>1. p \in SharedBy(s) /\ p \in Triad
      BY <1>1, <1>6, <2>3, SpareFacts
    <3>2. /\ At(p, z) \notin f.boards <=> z \in SpareOf(s, p) \/ IsOut(H, At(p, z))
          /\ ~ (z \in SpareOf(s, p) /\ IsOut(H, At(p, z)))
      BY <1>1, <2>3, <3>1 DEF SinglesSound
    <3>3. CASE p # xy
      BY <1>6, <1>9, <2>3, <3>1, <3>2, <3>3
    <3>4. CASE p = xy
      BY <1>5, <1>6, <1>10, <2>3, <3>2, <3>4
    <3> QED BY <3>3, <3>4
  <2> HIDE DEF K
  <2> QED BY <2>1, <2>2, <2>3 DEF SinglesSound
<1>12. InUse(n, K, u, {})
  <2>1. ASSUME NEW p \in SharedBy(n), Trusted(u, p)
        PROVE  \E z \in 0 .. 2 : IsOut(K, At(p, z))
    <3>1. p \in SharedBy(s) /\ p \in Triad
      BY <1>1, <1>6, <2>1, SpareFacts
    <3>2. CASE p # xy
      BY <1>1, <1>9, <2>1, <3>1, <3>2 DEF InUse
    <3>3. CASE p = xy
      <4>1. \A z \in 0 .. 2 : At(xy, z) \notin f.boards <=> z \in back \/ IsOut(K, At(xy, z))
        BY <1>6, <1>11, <2>1, <3>3 DEF SinglesSound
      <4>2. ASSUME \A z \in 0 .. 2 : ~ IsOut(K, At(xy, z))
            PROVE  back = WorkingOf(f, xy)
        BY <1>5, <4>1, <4>2 DEF WorkingOf
      <4> QED BY <1>5, <3>3, <4>2
    <3> QED BY <3>2, <3>3
  <2> HIDE DEF K
  <2> QED BY <2>1 DEF InUse
<1>13. Sound(n, K, f, u, {})
  BY <1>7, <1>8, <1>11, <1>12 DEF Sound
<1> QED BY <1>13 DEF n, xy, back

\* A board whose triad has gone back already: it cannot be trusted.
LEMMA BoardDropped ==
  ASSUME NEW s, NEW H, NEW f, NEW u, Sound(s, H, f, u, {}),
         NEW g \in H, IsSingle(g), Corner(g) \notin SharedBy(s)
  PROVE  Sound(s, H \ {g}, f, u, {})
<1> DEFINE K == H \ {g}
<1>1. /\ StoresSound(s) /\ HoldingsSound(H) /\ BlocksSound(s, H)
      /\ SinglesSound(s, H, f, u) /\ InUse(s, H, u, {})
  BY DEF Sound
<1>2. BlocksSound(s, K) /\ HoldingsSound(K)
  <2>1. \A h \in H : IsBlock(h) => h \in K
    BY DEF IsBlock, IsSingle
  <2> QED BY <1>1, <2>1 DEF BlocksSound, HoldingsSound
<1>3. ASSUME NEW p \in SharedBy(s), NEW z \in 0 .. 2
      PROVE  IsOut(K, At(p, z)) <=> IsOut(H, At(p, z))
  <2>1. p \in Triad /\ p # Corner(g)
    BY <1>1, SpareFacts
  <2>2. At(p, z) # g[1].board
    BY <2>1, AtFacts DEF Corner
  <2>3. IsOut(K, At(p, z)) => IsOut(H, At(p, z))
    BY DEF IsOut
  <2> QED BY <1>1, <2>2, <2>3, OutBut
<1>4. SinglesSound(s, K, f, u) /\ InUse(s, K, u, {})
  <2>1. \A h \in K : IsSingle(h) /\ Trusted(u, Corner(h)) => Corner(h) \in SharedBy(s)
    BY <1>1 DEF SinglesSound
  <2>2. \A h, j \in K : IsSingle(h) /\ IsSingle(j) /\ h # j /\ Trusted(u, Corner(h)) =>
          h[1].board # j[1].board
    BY <1>1 DEF SinglesSound
  <2> HIDE DEF K
  <2> QED BY <1>1, <1>3, <2>1, <2>2 DEF SinglesSound, InUse
<1> QED BY <1>1, <1>2, <1>4 DEF Sound

-----------------------------------------------------------------------------
(* What is handed out.                                                     *)

\* A block of triads in leaf a, which is held as h.
LEMMA BlockTaken ==
  ASSUME NEW s, NEW H, NEW f, NEW u, Sound(s, H, f, u, {}),
         NEW t, NEW a, Grown(s.tree, t, a),
         NEW h, h \notin H, h[1] \in EntryType, IsBlock(h), Corner(h) = Home(a),
         \A b \in h[1].boards : Contains(a, TriadOf(b))
  PROVE  Sound([s EXCEPT !.tree = t], H \cup {h}, f, u, {})
<1> DEFINE n == [s EXCEPT !.tree = t]
           K == H \cup {h}
<1>1. /\ StoresSound(s) /\ HoldingsSound(H) /\ BlocksSound(s, H)
      /\ SinglesSound(s, H, f, u) /\ InUse(s, H, u, {})
  BY DEF Sound
<1>2. /\ n.tree = t /\ n.singles = s.singles /\ n.full = s.full
      /\ n = [tree |-> n.tree, singles |-> n.singles, full |-> n.full]
  BY <1>1 DEF StoresSound
<1> HIDE DEF n
<1>3. /\ Covers(n.tree) /\ n.tree.allocated = s.tree.allocated \cup {a} /\ a \in AllRects
      /\ a \notin s.tree.allocated
      /\ \A b \in s.tree.allocated : Home(b) # Home(a)
  BY <1>1, <1>2, GrownCovers DEF StoresSound
<1>4. SharedBy(n) = SharedBy(s) /\ \A xy : SpareOf(n, xy) = SpareOf(s, xy)
  BY <1>2 DEF SharedBy, SpareOf
<1>5. ~ IsSingle(h)
  BY DEF IsBlock, IsSingle
<1>6. StoresSound(n) /\ HoldingsSound(K)
  BY <1>1, <1>2, <1>3, <1>5 DEF StoresSound, HoldingsSound
<1>7. Home(a) \notin SharedBy(s)
  <2> SUFFICES ASSUME Home(a) \in SharedBy(s) PROVE FALSE
    OBVIOUS
  <2>1. Unit(Home(a)) \in s.tree.allocated /\ Home(Unit(Home(a))) = Home(a)
    BY <1>1, SpareFacts DEF BlocksSound
  <2> QED BY <1>3, <2>1
<1>8. ASSUME NEW g \in H, IsBlock(g)
      PROVE  Corner(g) # Home(a)
  <2>1. PICK b \in s.tree.allocated : Home(b) = Corner(g)
    BY <1>1, <1>8 DEF BlocksSound
  <2> QED BY <1>3, <2>1
<1>9. BlocksSound(n, K)
  <2>1. \A g \in K : IsBlock(g) =>
          \E b \in n.tree.allocated :
            /\ Home(b) = Corner(g) /\ Home(b) \notin SharedBy(n)
            /\ \A c \in g[1].boards : Contains(b, TriadOf(c))
    BY <1>1, <1>3, <1>4, <1>7 DEF BlocksSound
  <2>2. \A xy \in SharedBy(n) : Unit(xy) \in n.tree.allocated
    BY <1>1, <1>3, <1>4 DEF BlocksSound
  <2>3. \A b \in n.tree.allocated :
          Home(b) \in SharedBy(n) \/ \E g \in K : IsBlock(g) /\ Corner(g) = Home(b)
    BY <1>1, <1>3, <1>4 DEF BlocksSound
  <2>4. \A g, j \in K : IsBlock(g) /\ IsBlock(j) /\ g # j => Corner(g) # Corner(j)
    BY <1>1, <1>8 DEF BlocksSound
  <2> HIDE DEF K
  <2> QED BY <2>1, <2>2, <2>3, <2>4 DEF BlocksSound
<1>10. \A b : IsOut(K, b) <=> IsOut(H, b)
  BY <1>5 DEF IsOut
<1>11. SinglesSound(n, K, f, u) /\ InUse(n, K, u, {})
  BY <1>1, <1>4, <1>5, <1>10 DEF SinglesSound, InUse
<1>12. Sound(n, K, f, u, {})
  BY <1>6, <1>9, <1>11 DEF Sound
<1> QED BY <1>12 DEF n

\* Triad xy is cut out for single boards.
LEMMA TriadOpened ==
  ASSUME NEW s, NEW H, NEW f, NEW u, Sound(s, H, f, u, {}),
         NEW xy \in Triad, NEW t, Grown(s.tree, t, Unit(xy)), WorkingOf(f, xy) # {}
  PROVE  Sound([tree |-> t, singles |-> Put(s.singles, xy, WorkingOf(f, xy)), full |-> s.full],
               H, f, u, {xy})
<1> DEFINE back == WorkingOf(f, xy)
           n == [tree |-> t, singles |-> Put(s.singles, xy, back), full |-> s.full]
<1>1. /\ StoresSound(s) /\ HoldingsSound(H) /\ BlocksSound(s, H)
      /\ SinglesSound(s, H, f, u) /\ InUse(s, H, u, {})
  BY DEF Sound
<1>2. /\ n.tree = t /\ n.singles = Put(s.singles, xy, back) /\ n.full = s.full
      /\ n = [tree |-> n.tree, singles |-> n.singles, full |-> n.full]
  OBVIOUS
<1>3. back \in (SUBSET (0 .. 2)) \ {{}} /\ Home(Unit(xy)) = xy
  <2>1. back \subseteq 0 .. 2 /\ back # {}
    BY DEF WorkingOf
  <2>2. back \in (SUBSET (0 .. 2)) \ {{}}
    BY <2>1, SpareSets
  <2>3. Home(Unit(xy)) = xy
    BY TriadFacts DEF Unit
  <2> QED BY <2>2, <2>3
<1>4. back = WorkingOf(f, xy)
  OBVIOUS
<1> HIDE DEF n, back
<1>5. /\ Covers(n.tree) /\ n.tree.allocated = s.tree.allocated \cup {Unit(xy)}
      /\ \A b \in s.tree.allocated : Home(b) # xy
  BY <1>1, <1>2, <1>3, GrownCovers DEF StoresSound
<1>6. xy \notin SharedBy(s)
  <2> SUFFICES ASSUME xy \in SharedBy(s) PROVE FALSE
    OBVIOUS
  <2>1. Unit(xy) \in s.tree.allocated
    BY <1>1 DEF BlocksSound
  <2> QED BY <1>3, <1>5, <2>1
<1>7. /\ SharedBy(n) = SharedBy(s) \cup {xy}
      /\ \A p \in SharedBy(s) : SpareOf(n, p) = SpareOf(s, p)
      /\ SpareOf(n, xy) = back
  BY <1>1, <1>2, <1>6 DEF SharedBy, SpareOf, Put, StoresSound
<1>8. StoresSound(n)
  <2>1. Put(s.singles, xy, back) \in [DOMAIN s.singles \cup {xy} -> (SUBSET (0 .. 2)) \ {{}}]
    BY <1>1, <1>3 DEF StoresSound, Put
  <2>2. DOMAIN n.singles = DOMAIN s.singles \cup {xy}
    BY <1>2 DEF Put
  <2> QED BY <1>1, <1>2, <1>5, <1>6, <2>1, <2>2 DEF StoresSound, SharedBy
<1>9. ASSUME NEW g \in H, IsBlock(g)
      PROVE  Corner(g) # xy
  <2>1. PICK b \in s.tree.allocated : Home(b) = Corner(g)
    BY <1>1, <1>9 DEF BlocksSound
  <2> QED BY <1>5, <2>1
<1>10. BlocksSound(n, H)
  <2>1. \A g \in H : IsBlock(g) =>
          \E b \in n.tree.allocated :
            /\ Home(b) = Corner(g) /\ Home(b) \notin SharedBy(n)
            /\ \A c \in g[1].boards : Contains(b, TriadOf(c))
    BY <1>1, <1>5, <1>7, <1>9 DEF BlocksSound
  <2>2. \A p \in SharedBy(n) : Unit(p) \in n.tree.allocated
    BY <1>1, <1>5, <1>7 DEF BlocksSound
  <2>3. \A b \in n.tree.allocated :
          Home(b) \in SharedBy(n) \/ \E g \in H : IsBlock(g) /\ Corner(g) = Home(b)
    BY <1>1, <1>3, <1>5, <1>7 DEF BlocksSound
  <2> QED BY <1>1, <2>1, <2>2, <2>3 DEF BlocksSound
<1>11. SinglesSound(n, H, f, u)
  <2>1. \A g \in H : IsSingle(g) /\ Trusted(u, Corner(g)) => Corner(g) \in SharedBy(n)
    BY <1>1, <1>7 DEF SinglesSound
  <2>2. ASSUME NEW p \in SharedBy(n), Trusted(u, p), NEW z \in 0 .. 2
        PROVE  /\ At(p, z) \notin f.boards <=> z \in SpareOf(n, p) \/ IsOut(H, At(p, z))
               /\ ~ (z \in SpareOf(n, p) /\ IsOut(H, At(p, z)))
    <3>1. CASE p \in SharedBy(s)
      BY <1>1, <1>7, <2>2, <3>1 DEF SinglesSound
    <3>2. CASE p = xy
      <4>1. ~ IsOut(H, At(xy, z))
        <5> SUFFICES ASSUME NEW g \in H, IsSingle(g), g[1].board = At(xy, z)
                     PROVE  FALSE
          BY DEF IsOut
        <5>1. Corner(g) = xy
          BY AtFacts DEF Corner
        <5> QED BY <1>1, <1>6, <2>2, <3>2, <5>1 DEF SinglesSound
      <4> QED BY <1>4, <1>7, <3>2, <4>1 DEF WorkingOf
    <3> QED BY <1>7, <3>1, <3>2
  <2> QED BY <1>1, <2>1, <2>2 DEF SinglesSound
<1>12. InUse(n, H, u, {xy})
  BY <1>1, <1>7 DEF InUse
<1>13. Sound(n, H, f, u, {xy})
  BY <1>1, <1>8, <1>10, <1>11, <1>12 DEF Sound
<1> QED BY <1>13 DEF n, back

\* Board b of a triad with boards to spare, which is held as h.
LEMMA BoardTakenSound ==
  ASSUME NEW s, NEW H, NEW f, NEW u, NEW X, Sound(s, H, f, u, X),
         NEW b \in Board, TriadOf(b) \in DOMAIN s.singles,
         X \subseteq {TriadOf(b)}, b[3] \in s.singles[TriadOf(b)],
         NEW h, h \notin H, h[1] \in EntryType, IsSingle(h),
         h[1].board = b, h[1].boards = {b}
  PROVE  Sound(BoardTaken(s, b).stores, H \cup {h}, f, u, {})
<1> DEFINE xy == TriadOf(b)
           left == s.singles[xy] \ {b[3]}
           n == BoardTaken(s, b).stores
           K == H \cup {h}
<1>1. /\ StoresSound(s) /\ HoldingsSound(H) /\ BlocksSound(s, H)
      /\ SinglesSound(s, H, f, u) /\ InUse(s, H, u, X)
  BY DEF Sound
<1>2. n = IF left = {} THEN [s EXCEPT !.singles = Drop(@, xy), !.full = @ \cup {xy}]
                       ELSE [s EXCEPT !.singles[xy] = left]
  BY DEF BoardTaken
<1>3. /\ xy \in Triad /\ b[3] \in 0 .. 2 /\ b = At(xy, b[3])
      /\ xy \in DOMAIN s.singles /\ b[3] \in s.singles[xy]
      /\ s.singles[xy] \subseteq 0 .. 2 /\ xy \notin s.full
  BY <1>1, BoardFacts DEF StoresSound
<1> DEFINE left2 == left
<1>4. left2 = s.singles[xy] \ {b[3]} /\ left2 \subseteq 0 .. 2
  BY <1>3
<1> HIDE DEF n, left2, xy
<1>5. /\ n.tree = s.tree
      /\ n = [tree |-> n.tree, singles |-> n.singles, full |-> n.full]
      /\ left2 = {} => n.singles = Drop(s.singles, xy) /\ n.full = s.full \cup {xy}
      /\ left2 # {} => n.singles = [s.singles EXCEPT ![xy] = left2] /\ n.full = s.full
  BY <1>1, <1>2 DEF StoresSound, left2
<1>6. /\ SharedBy(n) = SharedBy(s) /\ xy \in SharedBy(s)
      /\ \A p \in SharedBy(s) : p # xy => SpareOf(n, p) = SpareOf(s, p)
      /\ SpareOf(n, xy) = left2 /\ SpareOf(s, xy) = s.singles[xy]
  <2>1. CASE left2 = {}
    BY <1>1, <1>3, <1>5, <2>1 DEF SharedBy, SpareOf, Drop, StoresSound
  <2>2. CASE left2 # {}
    BY <1>1, <1>3, <1>5, <2>2 DEF SharedBy, SpareOf, StoresSound
  <2> QED BY <2>1, <2>2
<1>7. StoresSound(n) /\ HoldingsSound(K)
  <2>1. CASE left2 = {}
    <3>1. Drop(s.singles, xy) \in [DOMAIN s.singles \ {xy} -> (SUBSET (0 .. 2)) \ {{}}]
      BY <1>1 DEF StoresSound, Drop
    <3> QED BY <1>1, <1>3, <1>5, <2>1, <3>1 DEF StoresSound, HoldingsSound
  <2>2. CASE left2 # {}
    <3>1. /\ [s.singles EXCEPT ![xy] = left2] \in [DOMAIN s.singles -> (SUBSET (0 .. 2)) \ {{}}]
      BY <1>1, <1>4, <2>2 DEF StoresSound
    <3> QED BY <1>1, <1>3, <1>5, <2>2, <3>1 DEF StoresSound, HoldingsSound
  <2> QED BY <2>1, <2>2
<1>8. BlocksSound(n, K)
  <2>1. \A g \in K : IsBlock(g) => g \in H
    BY DEF IsBlock, IsSingle
  <2> QED BY <1>1, <1>5, <1>6, <2>1 DEF BlocksSound
<1>9. \A c : IsOut(K, c) <=> IsOut(H, c) \/ c = b
  BY DEF IsOut
<1>10. ASSUME Trusted(u, xy)
       PROVE  ~ IsOut(H, b) /\ b \notin f.boards
  BY <1>1, <1>3, <1>6, <1>10 DEF SinglesSound
<1>11. Corner(h) = xy
  BY DEF Corner, xy
<1>12. SinglesSound(n, K, f, u)
  <2>1. \A g \in K : IsSingle(g) /\ Trusted(u, Corner(g)) => Corner(g) \in SharedBy(n)
    BY <1>1, <1>6, <1>11 DEF SinglesSound
  <2>2. ASSUME NEW g \in K, NEW j \in K, IsSingle(g), IsSingle(j), g # j,
               Trusted(u, Corner(g)), g[1].board = j[1].board
        PROVE  FALSE
    <3>1. Corner(g) = Corner(j)
      BY <2>2 DEF Corner
    <3>2. CASE g \in H /\ j \in H
      BY <1>1, <2>2, <3>2 DEF SinglesSound
    <3>3. CASE g = h \/ j = h
      BY <1>10, <1>11, <2>2, <3>1, <3>3 DEF IsOut
    <3> QED BY <3>2, <3>3
  <2>3. ASSUME NEW p \in SharedBy(n), Trusted(u, p), NEW z \in 0 .. 2
        PROVE  /\ At(p, z) \notin f.boards <=> z \in SpareOf(n, p) \/ IsOut(K, At(p, z))
               /\ ~ (z \in SpareOf(n, p) /\ IsOut(K, At(p, z)))
    <3>1. p \in SharedBy(s) /\ p \in Triad
      BY <1>1, <1>6, <2>3, SpareFacts
    <3>2. /\ At(p, z) \notin f.boards <=> z \in SpareOf(s, p) \/ IsOut(H, At(p, z))
          /\ ~ (z \in SpareOf(s, p) /\ IsOut(H, At(p, z)))
      BY <1>1, <2>3, <3>1 DEF SinglesSound
    <3>3. At(p, z) = b <=> p = xy /\ z = b[3]
      BY <1>3, <3>1, AtFacts
    <3>4. CASE p # xy
      BY <1>6, <1>9, <3>1, <3>2, <3>3, <3>4
    <3>5. CASE p = xy
      <4>1. /\ SpareOf(n, p) = s.singles[xy] \ {b[3]} /\ SpareOf(s, p) = s.singles[xy]
            /\ IsOut(K, At(p, z)) <=> IsOut(H, At(p, z)) \/ z = b[3]
        BY <1>4, <1>6, <1>9, <3>3, <3>5
      <4>2. CASE z = b[3]
        <5>1. At(p, z) = b /\ ~ IsOut(H, b) /\ b \notin f.boards
          BY <1>10, <2>3, <3>3, <3>5, <4>2
        <5> QED BY <4>1, <4>2, <5>1
      <4>3. CASE z # b[3]
        BY <3>2, <4>1, <4>3
      <4> QED BY <4>2, <4>3
    <3> QED BY <3>4, <3>5
  <2> HIDE DEF K
  <2> QED BY <2>1, <2>2, <2>3 DEF SinglesSound
<1>13. InUse(n, K, u, {})
  <2>1. ASSUME NEW p \in SharedBy(n), Trusted(u, p)
        PROVE  \E z \in 0 .. 2 : IsOut(K, At(p, z))
    <3>1. CASE p = xy
      BY <1>3, <1>9, <3>1
    <3>2. CASE p # xy
      BY <1>1, <1>6, <1>9, <2>1, <3>2 DEF InUse, xy
    <3> QED BY <3>1, <3>2
  <2> HIDE DEF K
  <2> QED BY <2>1 DEF InUse
<1>14. Sound(n, K, f, u, {})
  BY <1>7, <1>8, <1>12, <1>13 DEF Sound
<1> QED BY <1>14 DEF n

-----------------------------------------------------------------------------
(* check_free.                                                             *)

\* The stores after each of the first n entries, as the code goes through them.
RunStep(A, k) == IF k = 0 THEN Stores ELSE Released(A[k - 1], toFree[k])
Run(A, n) == A = [k \in 0 .. n |-> RunStep(A, k)]
TheRun(n) == CHOOSE A : Run(A, n)

LEMMA RunsExist ==
  ASSUME NEW n \in Nat
  PROVE  \E A : Run(A, n)
<1> DEFINE Bad == {m \in Nat : ~ \E A : Run(A, m)}
<1> SUFFICES ASSUME Bad # {} PROVE FALSE
  OBVIOUS
<1>1. PICK m \in Bad : \A j \in Bad : m <= j
  <2>1. Bad \subseteq Nat
    OBVIOUS
  <2> HIDE DEF Bad
  <2> QED BY <2>1, LeastNat
<1>2. m \in Nat /\ ~ \E A : Run(A, m)
  BY <1>1
<1>3. CASE m = 0
  <2> DEFINE A == [k \in 0 .. 0 |-> Stores]
  <2>1. A = [k \in 0 .. 0 |-> RunStep(A, k)]
    BY DEF RunStep
  <2> QED BY <1>2, <1>3, <2>1 DEF Run
<1>4. CASE m # 0
  <2>1. m - 1 \in Nat /\ m - 1 \notin Bad
    BY <1>1, <1>2, <1>4
  <2>2. PICK B : B = [k \in 0 .. m - 1 |-> RunStep(B, k)]
    BY <2>1 DEF Run
  <2> DEFINE A == [k \in 0 .. m |-> IF k < m THEN B[k] ELSE RunStep(B, m)]
  <2>3. ASSUME NEW k \in 0 .. m
        PROVE  A[k] = RunStep(A, k)
    <3>1. CASE k = 0
      <4>1. A[0] = B[0] /\ B[0] = RunStep(B, 0)
        BY <1>2, <1>4, <2>1, <2>2
      <4> QED BY <3>1, <4>1 DEF RunStep
    <3>2. CASE k # 0
      <4>1. k - 1 \in 0 .. m - 1 /\ A[k - 1] = B[k - 1]
        BY <1>2, <2>1, <3>2
      <4>2. RunStep(A, k) = RunStep(B, k)
        BY <3>2, <4>1 DEF RunStep
      <4>3. CASE k = m
        BY <1>2, <4>2, <4>3
      <4>4. CASE k < m
        <5>1. k \in 0 .. m - 1 /\ A[k] = B[k]
          BY <1>2, <4>4
        <5>2. B[k] = RunStep(B, k)
          BY <2>2, <5>1
        <5> QED BY <4>2, <5>1, <5>2
      <4> QED BY <1>2, <4>3, <4>4
    <3> QED BY <3>1, <3>2
  <2>4. A = [k \in 0 .. m |-> RunStep(A, k)]
    <3>1. A = [k \in 0 .. m |-> A[k]]
      OBVIOUS
    <3> QED BY <2>3, <3>1
  <2> QED BY <1>2, <2>4 DEF Run
<1> QED BY <1>3, <1>4

LEMMA RunsAgree ==
  ASSUME NEW n \in Nat, NEW m \in Nat, n <= m, NEW A, Run(A, n), NEW B, Run(B, m)
  PROVE  A[n] = B[n]
<1> DEFINE Bad == {k \in 0 .. n : A[k] # B[k]}
<1>1. Bad = {}
  <2> SUFFICES ASSUME Bad # {} PROVE FALSE
    OBVIOUS
  <2>1. PICK k \in Bad : \A j \in Bad : k <= j
    <3>1. Bad \subseteq Nat
      OBVIOUS
    <3> HIDE DEF Bad
    <3> QED BY <3>1, LeastNat
  <2>2. k \in 0 .. n /\ k \in 0 .. m /\ A[k] # B[k]
    BY <2>1
  <2>3. A[k] = RunStep(A, k) /\ B[k] = RunStep(B, k)
    BY <2>2 DEF Run
  <2>4. k # 0
    BY <2>2, <2>3 DEF RunStep
  <2>5. k - 1 \in 0 .. n /\ k - 1 \notin Bad
    BY <2>1, <2>2, <2>4
  <2>6. A[k - 1] = B[k - 1]
    BY <2>5
  <2> QED BY <2>2, <2>3, <2>4, <2>6 DEF RunStep
<1> QED BY <1>1

LEMMA AfterRuns == After = [n \in 0 .. ripe |-> TheRun(n)[n]]
  BY Zenon DEF After, TheRun, Run, RunStep

\* What check_free does with one entry after the other.
LEMMA AfterFacts ==
  ASSUME ripe \in Nat
  PROVE  /\ After[0] = Stores
         /\ \A n \in 1 .. ripe : After[n] = Released(After[n - 1], toFree[n])
<1>1. \A n \in Nat : Run(TheRun(n), n)
  BY RunsExist DEF TheRun
<1>2. \A n \in 0 .. ripe : After[n] = TheRun(n)[n] /\ TheRun(n)[n] = RunStep(TheRun(n), n)
  <2>1. ASSUME NEW n \in 0 .. ripe
        PROVE  After[n] = TheRun(n)[n] /\ TheRun(n)[n] = RunStep(TheRun(n), n)
    <3>1. Run(TheRun(n), n) /\ n \in Nat /\ n \in 0 .. n
      BY <1>1
    <3>2. TheRun(n)[n] = RunStep(TheRun(n), n)
      BY <3>1 DEF Run
    <3> QED BY <2>1, <3>2, AfterRuns
  <2> QED BY <2>1
<1>3. After[0] = Stores
  BY <1>2 DEF RunStep
<1>4. ASSUME NEW n \in 1 .. ripe
      PROVE  After[n] = Released(After[n - 1], toFree[n])
  <2>1. n \in Nat /\ n - 1 \in Nat /\ n - 1 <= n /\ n # 0 /\ n - 1 \in 0 .. ripe /\ n \in 0 .. ripe
    BY <1>4
  <2>2. TheRun(n - 1)[n - 1] = TheRun(n)[n - 1]
    BY <1>1, <2>1, RunsAgree
  <2>3. After[n - 1] = TheRun(n)[n - 1]
    BY <1>2, <2>1, <2>2
  <2> QED BY <1>2, <2>1, <2>3 DEF RunStep
<1> QED BY <1>3, <1>4

\* The entry at k of to_free, as it is held.
Entry(k) == <<toFree[k], "cooling", k>>
Held0(n) == Holdings(live, toFree, n)

LEMMA NextHeld ==
  ASSUME toFree \in Seq(EntryType), NEW n \in 1 .. Len(toFree)
  PROVE  /\ Entry(n) \in Held0(n - 1)
         /\ Held0(n) = Held0(n - 1) \ {Entry(n)}
<1> DEFINE Live == {<<live[i], "live", i>> : i \in DOMAIN live}
           C(m) == {<<toFree[k], "cooling", k>> : k \in m + 1 .. Len(toFree)}
<1>1. Held0(n) = Live \cup C(n) /\ Held0(n - 1) = Live \cup C(n - 1)
  BY DEF Held0, Holdings
<1>2. n - 1 + 1 = n /\ Len(toFree) \in Nat
  OBVIOUS
<1>3. Entry(n) \in C(n - 1) /\ C(n) = C(n - 1) \ {Entry(n)}
  <2>1. Entry(n) \in C(n - 1)
    BY <1>2 DEF Entry
  <2>2. \A g : g \in C(n) <=> g \in C(n - 1) /\ g # Entry(n)
    <3>1. ASSUME NEW g \in C(n)
          PROVE  g \in C(n - 1) /\ g # Entry(n)
      <4>1. PICK k \in n + 1 .. Len(toFree) : g = <<toFree[k], "cooling", k>>
        OBVIOUS
      <4>2. k \in n - 1 + 1 .. Len(toFree) /\ k # n
        BY <1>2
      <4> QED BY <4>1, <4>2 DEF Entry
    <3>2. ASSUME NEW g \in C(n - 1), g # Entry(n)
          PROVE  g \in C(n)
      <4>1. PICK k \in n - 1 + 1 .. Len(toFree) : g = <<toFree[k], "cooling", k>>
        OBVIOUS
      <4>2. k # n /\ k \in n + 1 .. Len(toFree)
        BY <1>2, <3>2, <4>1 DEF Entry
      <4> QED BY <4>1, <4>2
    <3> QED BY <3>1, <3>2
  <2> HIDE DEF C
  <2> QED BY <2>1, <2>2
<1>4. Entry(n) \notin Live
  BY DEF Entry
<1> HIDE DEF Live, C
<1> QED BY <1>1, <1>3, <1>4

\* _free_next: an entry that raises nothing.
LEMMA ReleasedSound ==
  ASSUME NEW s, NEW H, NEW u, Sound(s, H, fault, u, {}),
         NEW g \in H, ~ Raises(s, g[1])
  PROVE  Sound(Released(s, g[1]), H \ {g}, fault, u, {})
<1> DEFINE xy == TriadOf(g[1].board)
           back == {g[1].board[3]} \cup IF xy \in s.full THEN {} ELSE s.singles[xy]
<1>1. HoldingsSound(H)
  BY DEF Sound
<1>2. xy = Corner(g) /\ back = BackWith(s, g) /\ Working(xy) = WorkingOf(fault, xy)
  BY DEF Corner, BackWith, SpareOf, Working, WorkingOf, At
<1>3. Released(s, g[1]) =
        IF g[1].type = "triads" THEN [s EXCEPT !.tree = free(@, xy)]
        ELSE IF back = Working(xy)
        THEN [tree |-> free(s.tree, xy), singles |-> Drop(s.singles, xy),
              full |-> s.full \ {xy}]
        ELSE [tree |-> s.tree, singles |-> Put(s.singles, xy, back),
              full |-> s.full \ {xy}]
  BY DEF Released
<1> HIDE DEF xy, back
<1>4. CASE IsBlock(g)
  BY <1>2, <1>3, <1>4, BlockReleased DEF IsBlock
<1>5. CASE IsSingle(g)
  <2>1. xy \in SharedBy(s) /\ g[1].type # "triads"
    BY <1>2, <1>5 DEF Raises, SharedBy, IsSingle, Corner
  <2>2. CASE back = Working(xy)
    <3>1. Released(s, g[1]) =
            [tree |-> free(s.tree, Corner(g)), singles |-> Drop(s.singles, Corner(g)),
             full |-> s.full \ {Corner(g)}]
      BY <1>2, <1>3, <2>1, <2>2
    <3>2. Corner(g) \in SharedBy(s) /\ BackWith(s, g) = WorkingOf(fault, Corner(g))
      BY <1>2, <2>1, <2>2
    <3> QED BY <1>5, <3>1, <3>2, TriadReleased
  <2>3. CASE back # Working(xy)
    BY <1>2, <1>3, <1>5, <2>1, <2>3, BoardReleased
  <2> QED BY <2>2, <2>3
<1> QED BY <1>1, <1>4, <1>5, EntryFacts

\* check_free keeps the stores sound, whatever is freed and in whatever order.
LEMMA AfterSound ==
  ASSUME toFree \in Seq(EntryType), ripe \in 0 .. Len(toFree),
         Sound(Stores, Held0(0), fault, suspect, {}),
         NEW n \in 0 .. ripe, Smooth(n)
  PROVE  Sound(After[n], Held0(n), fault, suspect, {})
<1> DEFINE Good(k) == Sound(After[k], Held0(k), fault, suspect, {})
           Bad == {k \in 0 .. n : ~ Good(k)}
<1>1. Bad = {}
  <2> SUFFICES ASSUME Bad # {} PROVE FALSE
    OBVIOUS
  <2>1. PICK k \in Bad : \A j \in Bad : k <= j
    <3>1. Bad \subseteq Nat
      OBVIOUS
    <3> HIDE DEF Bad
    <3> QED BY <3>1, LeastNat
  <2>2. k \in 0 .. n /\ ~ Good(k) /\ ripe \in Nat
    BY <2>1
  <2>3. k # 0
    BY <2>2, AfterFacts
  <2>4. k - 1 \in 0 .. n /\ k - 1 \notin Bad /\ k \in 1 .. n /\ k \in 1 .. ripe /\ k \in 1 .. Len(toFree)
    BY <2>1, <2>2, <2>3
  <2>5. Good(k - 1)
    BY <2>4
  <2> HIDE DEF Bad
  <2>6. ~ Raises(After[k - 1], toFree[k])
    BY <2>4 DEF Smooth
  <2>7. Entry(k)[1] = toFree[k] /\ Entry(k) \in Held0(k - 1) /\ Held0(k) = Held0(k - 1) \ {Entry(k)}
    BY <2>4, NextHeld DEF Entry
  <2>8. After[k] = Released(After[k - 1], toFree[k])
    BY <2>2, <2>4, AfterFacts
  <2>9. Sound(Released(After[k - 1], Entry(k)[1]), Held0(k - 1) \ {Entry(k)}, fault, suspect, {})
    BY <2>5, <2>6, <2>7, ReleasedSound
  <2> QED BY <2>2, <2>7, <2>8, <2>9
<1>2. n \in 0 .. n
  OBVIOUS
<1> QED BY <1>1, <1>2

-----------------------------------------------------------------------------
(* What is held moves from one place to another.                           *)

Moved(m, H, H2) ==
  /\ m \in [H -> H2] /\ \A g \in H : m[g][1] = g[1]
  /\ \A g \in H2 : \E h \in H : m[h] = g

LEMMA MovedSound ==
  ASSUME NEW s, NEW H, NEW f, NEW u, NEW X, Sound(s, H, f, u, X),
         NEW m, NEW H2, Moved(m, H, H2)
  PROVE  Sound(s, H2, f, u, X)
<1>1. /\ StoresSound(s) /\ HoldingsSound(H) /\ BlocksSound(s, H)
      /\ SinglesSound(s, H, f, u) /\ InUse(s, H, u, X)
  BY DEF Sound
<1>2. \A g \in H : /\ m[g] \in H2 /\ m[g][1] = g[1]
                   /\ IsBlock(m[g]) <=> IsBlock(g)
                   /\ IsSingle(m[g]) <=> IsSingle(g)
                   /\ Corner(m[g]) = Corner(g)
  BY DEF Moved, IsBlock, IsSingle, Corner
<1>3. \A g \in H2 : \E h \in H : m[h] = g
  BY DEF Moved
<1>4. \A b : IsOut(H2, b) <=> IsOut(H, b)
  BY <1>2, <1>3 DEF IsOut
<1>5. HoldingsSound(H2)
  BY <1>1, <1>2, <1>3 DEF HoldingsSound
<1>6. BlocksSound(s, H2)
  <2>1. ASSUME NEW g \in H2, IsBlock(g)
        PROVE  \E a \in s.tree.allocated :
                 /\ Home(a) = Corner(g) /\ Home(a) \notin SharedBy(s)
                 /\ \A b \in g[1].boards : Contains(a, TriadOf(b))
    <3>1. PICK h \in H : m[h] = g
      BY <1>3
    <3>2. IsBlock(h) /\ Corner(h) = Corner(g) /\ h[1] = g[1]
      BY <1>2, <2>1, <3>1
    <3> QED BY <1>1, <3>2 DEF BlocksSound
  <2>2. ASSUME NEW a \in s.tree.allocated
        PROVE  Home(a) \in SharedBy(s) \/ \E g \in H2 : IsBlock(g) /\ Corner(g) = Home(a)
    BY <1>1, <1>2 DEF BlocksSound
  <2>3. ASSUME NEW g \in H2, NEW h \in H2, IsBlock(g), IsBlock(h), g # h
        PROVE  Corner(g) # Corner(h)
    <3>1. PICK g1 \in H : m[g1] = g
      BY <1>3
    <3>2. PICK h1 \in H : m[h1] = h
      BY <1>3
    <3>3. g1 # h1 /\ IsBlock(g1) /\ IsBlock(h1)
      BY <1>2, <2>3, <3>1, <3>2
    <3>4. Corner(g1) # Corner(h1)
      BY <1>1, <3>3 DEF BlocksSound
    <3> QED BY <1>2, <3>1, <3>2, <3>4
  <2> QED BY <1>1, <2>1, <2>2, <2>3 DEF BlocksSound
<1>7. SinglesSound(s, H2, f, u)
  <2>1. ASSUME NEW g \in H2, IsSingle(g), Trusted(u, Corner(g))
        PROVE  Corner(g) \in SharedBy(s)
    <3>1. PICK h \in H : m[h] = g
      BY <1>3
    <3>2. IsSingle(h) /\ Corner(h) = Corner(g)
      BY <1>2, <2>1, <3>1
    <3> QED BY <1>1, <2>1, <3>2 DEF SinglesSound
  <2>2. ASSUME NEW g \in H2, NEW h \in H2, IsSingle(g), IsSingle(h), g # h,
               Trusted(u, Corner(g))
        PROVE  g[1].board # h[1].board
    <3>1. PICK g1 \in H : m[g1] = g
      BY <1>3
    <3>2. PICK h1 \in H : m[h1] = h
      BY <1>3
    <3>3. g1 # h1 /\ IsSingle(g1) /\ IsSingle(h1) /\ Trusted(u, Corner(g1))
      BY <1>2, <2>2, <3>1, <3>2
    <3>4. g1[1].board # h1[1].board
      BY <1>1, <3>3 DEF SinglesSound
    <3> QED BY <1>2, <3>1, <3>2, <3>4
  <2> QED BY <1>1, <1>4, <2>1, <2>2 DEF SinglesSound
<1>8. InUse(s, H2, u, X)
  BY <1>1, <1>4 DEF InUse
<1> QED BY <1>1, <1>5, <1>6, <1>7, <1>8 DEF Sound

\* The first n entries are dropped from to_free.
LEMMA PoppedSound ==
  ASSUME NEW s, NEW f, NEW u, NEW X, NEW L, NEW Q \in Seq(EntryType),
         NEW n \in 0 .. Len(Q), Sound(s, Holdings(L, Q, n), f, u, X)
  PROVE  Sound(s, Holdings(L, SubSeq(Q, n + 1, Len(Q)), 0), f, u, X)
<1> DEFINE R == SubSeq(Q, n + 1, Len(Q))
           H == Holdings(L, Q, n)
           H2 == Holdings(L, R, 0)
           m == [g \in H |-> IF g[2] = "live" THEN g ELSE <<g[1], "cooling", g[3] - n>>]
<1>1. /\ Len(Q) \in Nat /\ n \in Nat /\ Len(R) = Len(Q) - n
      /\ \A k \in 1 .. Len(R) : R[k] = Q[k + n]
  OBVIOUS
<1> HIDE DEF R
<1>2. ASSUME NEW g \in H
      PROVE  m[g] \in H2 /\ m[g][1] = g[1]
  <2>1. CASE \E i \in DOMAIN L : g = <<L[i], "live", i>>
    BY <2>1 DEF Holdings
  <2>2. CASE \E k \in n + 1 .. Len(Q) : g = <<Q[k], "cooling", k>>
    <3>1. PICK k \in n + 1 .. Len(Q) : g = <<Q[k], "cooling", k>>
      BY <2>2
    <3>2. k - n \in 0 + 1 .. Len(R) /\ k - n \in 1 .. Len(R) /\ k - n + n = k
      BY <1>1
    <3>3. R[k - n] = Q[k]
      BY <1>1, <3>2
    <3>4. m[g] = <<Q[k], "cooling", k - n>>
      BY <3>1
    <3>5. <<R[k - n], "cooling", k - n>> \in H2
      BY <3>2 DEF Holdings
    <3> QED BY <3>1, <3>3, <3>4, <3>5
  <2> QED BY <2>1, <2>2 DEF Holdings
<1>3. ASSUME NEW g \in H2
      PROVE  \E h \in H : m[h] = g
  <2>1. CASE \E i \in DOMAIN L : g = <<L[i], "live", i>>
    <3>1. g \in H /\ g[2] = "live"
      BY <2>1 DEF Holdings
    <3> QED BY <3>1
  <2>2. CASE \E k \in 0 + 1 .. Len(R) : g = <<R[k], "cooling", k>>
    <3>1. PICK k \in 0 + 1 .. Len(R) : g = <<R[k], "cooling", k>>
      BY <2>2
    <3>2. k + n \in n + 1 .. Len(Q) /\ k \in 1 .. Len(R) /\ k + n - n = k
      BY <1>1
    <3>3. R[k] = Q[k + n]
      BY <1>1, <3>2
    <3> DEFINE h == <<Q[k + n], "cooling", k + n>>
    <3>4. h \in H
      BY <3>2 DEF Holdings
    <3>5. m[h] = <<Q[k + n], "cooling", k + n - n>>
      BY <3>4
    <3> QED BY <3>1, <3>2, <3>3, <3>4, <3>5
  <2> QED BY <2>1, <2>2 DEF Holdings
<1>4. m \in [H -> H2]
  <2>1. \A g \in H : m[g] \in H2
    BY <1>2
  <2> HIDE DEF H, H2
  <2> QED BY <2>1
<1>5. Moved(m, H, H2)
  <2> HIDE DEF m, H, H2
  <2> QED BY <1>2, <1>3, <1>4 DEF Moved
<1> HIDE DEF m, H2
<1>6. Sound(s, H2, f, u, X)
  BY <1>5, MovedSound
<1> QED BY <1>6 DEF H2, R

\* A live allocation is put at the end of to_free.
LEMMA FreedSound ==
  ASSUME NEW s, NEW f, NEW u, NEW X, NEW L, NEW Q \in Seq(EntryType),
         NEW i \in DOMAIN L, L[i] \in EntryType, Sound(s, Holdings(L, Q, 0), f, u, X)
  PROVE  Sound(s, Holdings(Drop(L, i), Append(Q, L[i]), 0), f, u, X)
<1> DEFINE L2 == Drop(L, i)
           Q2 == Append(Q, L[i])
           H == Holdings(L, Q, 0)
           H2 == Holdings(L2, Q2, 0)
           old == <<L[i], "live", i>>
           new == <<L[i], "cooling", Len(Q) + 1>>
           m == [g \in H |-> IF g = old THEN new ELSE g]
<1>1. /\ Len(Q) \in Nat /\ Len(Q2) = Len(Q) + 1 /\ Q2[Len(Q) + 1] = L[i]
      /\ \A k \in 1 .. Len(Q) : Q2[k] = Q[k]
      /\ DOMAIN L2 = DOMAIN L \ {i} /\ \A j \in DOMAIN L2 : L2[j] = L[j]
  BY DEF Drop
<1> HIDE DEF L2, Q2
<1>2. old \in H /\ new \in H2
  <2>1. Len(Q) + 1 \in 0 + 1 .. Len(Q2)
    BY <1>1
  <2> QED BY <1>1, <2>1 DEF Holdings
<1>3. ASSUME NEW g \in H, g # old
      PROVE  g \in H2
  <2>1. CASE \E j \in DOMAIN L : g = <<L[j], "live", j>>
    <3>1. PICK j \in DOMAIN L : g = <<L[j], "live", j>>
      BY <2>1
    <3>2. j \in DOMAIN L2 /\ L2[j] = L[j]
      BY <1>1, <1>3, <3>1
    <3> QED BY <3>1, <3>2 DEF Holdings
  <2>2. CASE \E k \in 0 + 1 .. Len(Q) : g = <<Q[k], "cooling", k>>
    <3>1. PICK k \in 0 + 1 .. Len(Q) : g = <<Q[k], "cooling", k>>
      BY <2>2
    <3>2. k \in 0 + 1 .. Len(Q2) /\ k \in 1 .. Len(Q)
      BY <1>1
    <3>3. Q2[k] = Q[k]
      BY <1>1, <3>2
    <3> QED BY <3>1, <3>2, <3>3 DEF Holdings
  <2> QED BY <2>1, <2>2 DEF Holdings
<1>4. ASSUME NEW g \in H2
      PROVE  g = new \/ (g \in H /\ g # old)
  <2>1. CASE \E j \in DOMAIN L2 : g = <<L2[j], "live", j>>
    <3>1. PICK j \in DOMAIN L2 : g = <<L2[j], "live", j>>
      BY <2>1
    <3>2. j \in DOMAIN L /\ j # i /\ L2[j] = L[j]
      BY <1>1
    <3>3. g # old
      BY <3>1, <3>2
    <3> QED BY <3>1, <3>2, <3>3 DEF Holdings
  <2>2. CASE \E k \in 0 + 1 .. Len(Q2) : g = <<Q2[k], "cooling", k>>
    <3>1. PICK k \in 0 + 1 .. Len(Q2) : g = <<Q2[k], "cooling", k>>
      BY <2>2
    <3>2. k = Len(Q) + 1 \/ (k \in 0 + 1 .. Len(Q) /\ k \in 1 .. Len(Q))
      BY <1>1
    <3>3. CASE k = Len(Q) + 1
      BY <1>1, <3>1, <3>3
    <3>4. CASE k \in 0 + 1 .. Len(Q) /\ k \in 1 .. Len(Q)
      <4>1. Q2[k] = Q[k]
        BY <1>1, <3>4
      <4>2. g \in H /\ g # old
        BY <3>1, <3>4, <4>1 DEF Holdings
      <4> QED BY <4>2
    <3> QED BY <3>2, <3>3, <3>4
  <2> QED BY <2>1, <2>2 DEF Holdings
<1>5. \A g \in H : m[g] = IF g = old THEN new ELSE g
  OBVIOUS
<1>6. old[1] = new[1]
  OBVIOUS
<1> DEFINE o == old
           e == new
<1>7. /\ o \in H /\ e \in H2 /\ o[1] = e[1]
      /\ \A g \in H : m[g] = IF g = o THEN e ELSE g
      /\ \A g \in H : g # o => g \in H2
      /\ \A g \in H2 : g = e \/ (g \in H /\ g # o)
  BY <1>2, <1>3, <1>4, <1>5, <1>6
<1>8. m \in [H -> H2]
  <2>1. \A g \in H : m[g] \in H2
    BY <1>7
  <2> HIDE DEF H, H2
  <2> QED BY <2>1
<1>9. Moved(m, H, H2)
  <2> HIDE DEF m, H, H2, o, e
  <2> QED BY <1>7, <1>8 DEF Moved
<1> HIDE DEF m, H2
<1>10. Sound(s, H2, f, u, X)
  BY <1>9, MovedSound
<1> QED BY <1>10 DEF H2, L2, Q2

\* What is lent is held besides what was.
LEMMA LentHeld ==
  ASSUME NEW L, NEW Q, NEW n, NEW i, i \notin DOMAIN L, NEW e
  PROVE  /\ Holdings(Put(L, i, e), Q, n) = Holdings(L, Q, n) \cup {<<e, "live", i>>}
         /\ <<e, "live", i>> \notin Holdings(L, Q, n)
<1> DEFINE L2 == Put(L, i, e)
<1>1. /\ DOMAIN L2 = DOMAIN L \cup {i} /\ L2[i] = e
      /\ \A j \in DOMAIN L : L2[j] = L[j]
  BY DEF Put
<1> HIDE DEF L2
<1>2. {<<L2[j], "live", j>> : j \in DOMAIN L2} =
        {<<L[j], "live", j>> : j \in DOMAIN L} \cup {<<e, "live", i>>}
  BY <1>1
<1>3. <<e, "live", i>> \notin {<<L[j], "live", j>> : j \in DOMAIN L}
  OBVIOUS
<1>4. <<e, "live", i>> \notin {<<Q[k], "cooling", k>> : k \in n + 1 .. Len(Q)}
  OBVIOUS
<1>5. Holdings(L2, Q, n) = Holdings(L, Q, n) \cup {<<e, "live", i>>}
  BY <1>2 DEF Holdings
<1> QED BY <1>3, <1>4, <1>5 DEF Holdings, L2

-----------------------------------------------------------------------------
(* The boards of a rectangle.                                              *)

LEMMA ForwardFacts ==
  /\ Forward[0] = << <<0, -1, 2>>, <<0, 0, 1>>, <<0, 0, 2>> >>
  /\ Forward[1] = << <<1, 0, -1>>, <<1, 0, 1>>, <<1, 1, -1>> >>
  /\ Forward[2] = << <<0, 0, -1>>, <<1, 1, -2>>, <<0, 1, -1>> >>
  /\ \A z \in 0 .. 2, k \in 1 .. 3 :
       /\ Forward[z][k][1] \in Int /\ Forward[z][k][2] \in Int /\ Forward[z][k][3] \in Int
       /\ z + Forward[z][k][3] \in 0 .. 2
<1>1. /\ Forward[0] = << <<0, -1, 2>>, <<0, 0, 1>>, <<0, 0, 2>> >>
      /\ Forward[1] = << <<1, 0, -1>>, <<1, 0, 1>>, <<1, 1, -1>> >>
      /\ Forward[2] = << <<0, 0, -1>>, <<1, 1, -2>>, <<0, 1, -1>> >>
  BY DEF Forward
<1>2. ASSUME NEW z \in 0 .. 2, NEW k \in 1 .. 3
      PROVE  /\ Forward[z][k][1] \in Int /\ Forward[z][k][2] \in Int
             /\ Forward[z][k][3] \in Int /\ z + Forward[z][k][3] \in 0 .. 2
  <2>1. CASE z = 0
    BY <1>1, <2>1
  <2>2. CASE z = 1
    BY <1>1, <2>2
  <2>3. CASE z = 2
    BY <1>1, <2>3
  <2> QED BY <2>1, <2>2, <2>3
<1> QED BY <1>1, <1>2

\* A link leads to one of the three boards of a triad.
LEMMA VectorFacts ==
  ASSUME NEW zl \in (0 .. 2) \X Link
  PROVE  LET v == link_to_vector[zl]
         IN  v[1] \in Int /\ v[2] \in Int /\ zl[1] + v[3] \in 0 .. 2
<1> DEFINE z == zl[1]
           l == zl[2]
           v == link_to_vector[zl]
           from == CHOOSE y \in 0 .. 2 : y + Forward[y][opposite(l) + 1][3] = z
           w == Forward[from][opposite(l) + 1]
<1>1. v = IF l < 3 THEN Forward[z][l + 1] ELSE <<-w[1], -w[2], -w[3]>>
  BY DEF link_to_vector
<1>2. z \in 0 .. 2 /\ l \in 0 .. 5
  BY DEF Link
<1> SUFFICES v[1] \in Int /\ v[2] \in Int /\ z + v[3] \in 0 .. 2
  OBVIOUS
<1> HIDE DEF v, w
<1>3. CASE l < 3
  <2>1. l + 1 \in 1 .. 3
    BY <1>2, <1>3
  <2> QED BY <1>1, <1>2, <1>3, <2>1, ForwardFacts
<1>4. CASE ~ (l < 3)
  <2> DEFINE k == opposite(l) + 1
  <2>1. k \in 1 .. 3
    <3>1. l = 3 \/ l = 4 \/ l = 5
      BY <1>2, <1>4
    <3> QED BY <3>1 DEF opposite
  <2>2. \E y \in 0 .. 2 : y + Forward[y][k][3] = z
    <3> DEFINE Leads(j, y, e) == y + Forward[y][j][3] = e
    <3>1. /\ Leads(1, 1, 0) /\ Leads(1, 2, 1) /\ Leads(1, 0, 2)
          /\ Leads(2, 2, 0) /\ Leads(2, 0, 1) /\ Leads(2, 1, 2)
          /\ Leads(3, 1, 0) /\ Leads(3, 2, 1) /\ Leads(3, 0, 2)
      BY ForwardFacts
    <3> HIDE DEF Leads, k, z
    <3>2. \E y \in 0 .. 2 : Leads(k, y, z)
      <4>1. k = 1 \/ k = 2 \/ k = 3
        BY <2>1
      <4>2. z = 0 \/ z = 1 \/ z = 2
        BY <1>2
      <4> QED BY <3>1, <4>1, <4>2
    <3> QED BY <3>2 DEF Leads
  <2>3. from \in 0 .. 2 /\ from + Forward[from][k][3] = z
    <3>1. from = CHOOSE y \in 0 .. 2 : y + Forward[y][k][3] = z
      OBVIOUS
    <3> HIDE DEF from, k, z
    <3> QED BY <2>2, <3>1
  <2>4. w = Forward[from][k]
    BY DEF w
  <2> HIDE DEF from, k, z, l
  <2>5. w[1] \in Int /\ w[2] \in Int /\ w[3] \in Int /\ from + w[3] = z
    BY <2>1, <2>3, <2>4, ForwardFacts
  <2>6. v[1] = - w[1] /\ v[2] = - w[2] /\ v[3] = - w[3]
    BY <1>1, <1>4
  <2>7. z + v[3] = from
    BY <1>2, <2>3, <2>5, <2>6
  <2> QED BY <2>3, <2>5, <2>6, <2>7
<1> QED BY <1>3, <1>4

LEMMA ModFacts == ASSUME NEW n \in Int, NEW m \in Nat \ {0} PROVE n % m \in 0 .. m - 1
  OBVIOUS

\* A link leads from a board of the machine to a board of the machine.
LEMMA DownFacts ==
  ASSUME NEW b \in Board, NEW l \in Link
  PROVE  board_down_link[<<b, l>>] \in Board
<1> DEFINE zl == <<b[3], l>>
           v == link_to_vector[zl]
<1>1. /\ b[1] \in Int /\ b[2] \in Int /\ b[3] \in 0 .. 2
  <2>1. PICK xy \in Triad, z \in 0 .. 2 : b = <<xy[1], xy[2], z>>
    BY DEF Board
  <2> QED BY <2>1, SizeAssumption DEF Triad
<1>2. zl \in (0 .. 2) \X Link /\ zl[1] = b[3]
  BY <1>1
<1>3. board_down_link[<<b, l>>] =
        <<(b[1] + v[1]) % Width, (b[2] + v[2]) % Height, b[3] + v[3]>>
  BY DEF board_down_link
<1> HIDE DEF zl
<1>4. v[1] \in Int /\ v[2] \in Int /\ b[3] + v[3] \in 0 .. 2
  BY <1>2, VectorFacts
<1> HIDE DEF v
<1>5. b[1] + v[1] \in Int /\ b[2] + v[2] \in Int
  BY <1>1, <1>4
<1>6. (b[1] + v[1]) % Width \in 0 .. Width - 1 /\ (b[2] + v[2]) % Height \in 0 .. Height - 1
  BY <1>5, ModFacts, SizeAssumption
<1> DEFINE xy == <<(b[1] + v[1]) % Width, (b[2] + v[2]) % Height>>
<1>7. xy \in Triad /\ board_down_link[<<b, l>>] = <<xy[1], xy[2], b[3] + v[3]>>
  BY <1>3, <1>6 DEF Triad
<1> HIDE DEF xy
<1> QED BY <1>4, <1>7 DEF Board

OkIn(f, a, B) == {b \in B \ f.boards : Contains(a, TriadOf(b))}

DownFrom(f, B) == {board_down_link[bl] : bl \in (B \X Link) \ f.links}

Spread(f, a, B) == B \cup OkIn(f, a, DownFrom(f, B))

SpreadStep(f, a, R, k) ==
  IF k = 0 THEN OkIn(f, a, {<<a.x, a.y, 0>>}) ELSE Spread(f, a, R[k - 1])

SpreadRun(f, a, R, n) == R = [k \in 0 .. n |-> SpreadStep(f, a, R, k)]

LEMMA SpreadsExist ==
  ASSUME NEW f, NEW a, NEW n \in Nat
  PROVE  \E R : SpreadRun(f, a, R, n)
<1> DEFINE Bad == {m \in Nat : ~ \E R : SpreadRun(f, a, R, m)}
<1> SUFFICES ASSUME Bad # {} PROVE FALSE
  OBVIOUS
<1>1. PICK m \in Bad : \A j \in Bad : m <= j
  <2>1. Bad \subseteq Nat
    OBVIOUS
  <2> HIDE DEF Bad
  <2> QED BY <2>1, LeastNat
<1>2. m \in Nat /\ ~ \E R : SpreadRun(f, a, R, m)
  BY <1>1
<1>3. CASE m = 0
  <2> DEFINE R == [k \in 0 .. 0 |-> OkIn(f, a, {<<a.x, a.y, 0>>})]
  <2>1. R = [k \in 0 .. 0 |-> SpreadStep(f, a, R, k)]
    BY DEF SpreadStep
  <2> QED BY <1>2, <1>3, <2>1 DEF SpreadRun
<1>4. CASE m # 0
  <2>1. m - 1 \in Nat /\ m - 1 \notin Bad
    BY <1>1, <1>2, <1>4
  <2>2. PICK B : B = [k \in 0 .. m - 1 |-> SpreadStep(f, a, B, k)]
    BY <2>1 DEF SpreadRun
  <2> DEFINE R == [k \in 0 .. m |-> IF k < m THEN B[k] ELSE SpreadStep(f, a, B, m)]
  <2>3. ASSUME NEW k \in 0 .. m
        PROVE  R[k] = SpreadStep(f, a, R, k)
    <3>1. CASE k = 0
      <4>1. R[0] = B[0] /\ B[0] = SpreadStep(f, a, B, 0)
        BY <1>2, <1>4, <2>1, <2>2
      <4> QED BY <3>1, <4>1 DEF SpreadStep
    <3>2. CASE k # 0
      <4>1. k - 1 \in 0 .. m - 1 /\ R[k - 1] = B[k - 1]
        BY <1>2, <2>1, <3>2
      <4>2. SpreadStep(f, a, R, k) = SpreadStep(f, a, B, k)
        BY <3>2, <4>1 DEF SpreadStep
      <4>3. CASE k = m
        BY <1>2, <4>2, <4>3
      <4>4. CASE k < m
        <5>1. k \in 0 .. m - 1 /\ R[k] = B[k]
          BY <1>2, <4>4
        <5>2. B[k] = SpreadStep(f, a, B, k)
          BY <2>2, <5>1
        <5> QED BY <4>2, <5>1, <5>2
      <4> QED BY <1>2, <4>3, <4>4
    <3> QED BY <3>1, <3>2
  <2>4. R = [k \in 0 .. m |-> SpreadStep(f, a, R, k)]
    <3>1. R = [k \in 0 .. m |-> R[k]]
      OBVIOUS
    <3> QED BY <2>3, <3>1
  <2> QED BY <1>2, <2>4 DEF SpreadRun
<1> QED BY <1>3, <1>4

LEMMA EnumerateRun ==
  ASSUME NEW f, NEW a \in Box
  PROVE  /\ 3 * Area(a) \in Nat
         /\ \E R : SpreadRun(f, a, R, 3 * Area(a)) /\ _enumerate_boards(f, a) = R[3 * Area(a)]
<1> DEFINE The == CHOOSE R : SpreadRun(f, a, R, 3 * Area(a))
<1>1. 3 * Area(a) \in Nat
  <2>1. Area(a) \in Nat
    BY AreaFacts
  <2> QED BY <2>1
<1>2. SpreadRun(f, a, The, 3 * Area(a))
  <2>1. \E R : SpreadRun(f, a, R, 3 * Area(a))
    BY <1>1, SpreadsExist
  <2> QED BY <2>1
<1>3. _enumerate_boards(f, a) = The[3 * Area(a)]
  BY Zenon DEF _enumerate_boards, SpreadStep, Spread, OkIn, DownFrom, SpreadRun
<1> HIDE DEF The
<1> QED BY <1>1, <1>2, <1>3

\* What a block of triads is given is its own, and works.
LEMMA EnumerateFacts ==
  ASSUME NEW f, NEW a \in AllRects
  PROVE  _enumerate_boards(f, a) \subseteq OkIn(f, a, Board)
<1>1. a \in Box /\ Home(a) \in Triad
  BY HomeFacts
<1>2. PICK R : SpreadRun(f, a, R, 3 * Area(a)) /\ _enumerate_boards(f, a) = R[3 * Area(a)]
  BY <1>1, EnumerateRun
<1>3. 3 * Area(a) \in Nat
  BY <1>1, EnumerateRun
<1> DEFINE N == 3 * Area(a)
           Bad == {k \in 0 .. N : ~ (R[k] \subseteq OkIn(f, a, Board))}
<1>4. Bad = {}
  <2> SUFFICES ASSUME Bad # {} PROVE FALSE
    OBVIOUS
  <2>1. PICK k \in Bad : \A j \in Bad : k <= j
    <3>1. Bad \subseteq Nat
      BY <1>3
    <3> HIDE DEF Bad
    <3> QED BY <3>1, LeastNat
  <2>2. k \in 0 .. N /\ ~ (R[k] \subseteq OkIn(f, a, Board)) /\ N \in Nat
    BY <1>3, <2>1
  <2>3. R[k] = SpreadStep(f, a, R, k)
    BY <1>2, <2>2 DEF SpreadRun
  <2>4. CASE k = 0
    <3>1. R[k] = OkIn(f, a, {<<a.x, a.y, 0>>})
      BY <2>3, <2>4 DEF SpreadStep
    <3>2. <<a.x, a.y, 0>> \in Board
      BY <1>1 DEF Board, Home
    <3> QED BY <2>2, <3>1, <3>2 DEF OkIn
  <2>5. CASE k # 0
    <3>1. k - 1 \in 0 .. N /\ k - 1 \notin Bad
      BY <2>1, <2>2, <2>5
    <3>2. R[k - 1] \subseteq OkIn(f, a, Board)
      BY <3>1
    <3>3. R[k] = Spread(f, a, R[k - 1])
      BY <2>3, <2>5 DEF SpreadStep
    <3>4. DownFrom(f, R[k - 1]) \subseteq Board
      <4> SUFFICES ASSUME NEW bl \in R[k - 1] \X Link
                   PROVE  board_down_link[bl] \in Board
        BY DEF DownFrom
      <4>1. bl = <<bl[1], bl[2]>> /\ bl[1] \in Board /\ bl[2] \in Link
        BY <3>2 DEF OkIn
      <4>2. board_down_link[<<bl[1], bl[2]>>] \in Board
        BY <4>1, DownFacts
      <4> QED BY <4>1, <4>2
    <3>5. OkIn(f, a, DownFrom(f, R[k - 1])) \subseteq OkIn(f, a, Board)
      BY <3>4 DEF OkIn
    <3> QED BY <2>2, <3>2, <3>3, <3>5 DEF Spread
  <2> QED BY <2>4, <2>5
<1>5. N \in 0 .. N
  BY <1>3
<1> QED BY <1>2, <1>4, <1>5

LEMMA CandidateFacts ==
  ASSUME fault \in Fault, NEW a \in AllRects
  PROVE  \A b \in Candidate[fault, a].boards :
           b \in Board /\ b \notin fault.boards /\ Contains(a, TriadOf(b))
<1>1. Candidate[fault, a].boards = _enumerate_boards(fault, a)
  BY DEF Candidate
<1>2. Candidate[fault, a].boards \subseteq OkIn(fault, a, Board)
  BY <1>1, EnumerateFacts
<1>3. \A b \in OkIn(fault, a, Board) :
        b \in Board /\ b \notin fault.boards /\ Contains(a, TriadOf(b))
  BY DEF OkIn
<1> QED BY <1>2, <1>3

-----------------------------------------------------------------------------
(* alloc.                                                                  *)

\* What alloc returns, as it is held from then on.
Lent(p) == [type |-> p.type, board |-> p.board, boards |-> p.boards]
LentAs(p, i) == <<Lent(p), "live", i>>

\* A triad in use is either trusted or not.
WholeTriads(u) == \A b \in u : BoardsOf(TriadOf(b)) \subseteq u

\* What an allocation makes of the stores, and what it is given.
Granted(p, H, i) ==
  /\ Sound(p.stores, H \cup {LentAs(p, i)}, fault, suspect, {})
  /\ Lent(p) \in EntryType /\ p.boards # {}
  /\ (p.boards \ suspect) \cap fault.boards = {}

LEMMA WorkingIs == ASSUME NEW xy PROVE Working(xy) = WorkingOf(fault, xy)
  BY DEF Working, WorkingOf, At

\* Board b of a triad with boards to spare.
LEMMA TakenGranted ==
  ASSUME NEW s, NEW H, NEW X, Sound(s, H, fault, suspect, X), WholeTriads(suspect),
         NEW b \in Board, TriadOf(b) \in DOMAIN s.singles,
         X \subseteq {TriadOf(b)}, b[3] \in s.singles[TriadOf(b)],
         NEW i, LentAs(BoardTaken(s, b), i) \notin H
  PROVE  Granted(BoardTaken(s, b), H, i)
<1> DEFINE p == BoardTaken(s, b)
           h == LentAs(p, i)
           xy == TriadOf(b)
<1>1. p.type = "board" /\ p.board = b /\ p.boards = {b}
  BY DEF BoardTaken
<1> HIDE DEF p
<1>2. /\ h[1] = Lent(p) /\ Lent(p) \in EntryType
      /\ h[1].type = "board" /\ h[1].board = b /\ h[1].boards = {b}
  BY <1>1 DEF Lent, LentAs, EntryType
<1>3. h \notin H
  BY DEF p
<1> HIDE DEF h
<1>4. IsSingle(h)
  BY <1>2 DEF IsSingle
<1>5. Sound(p.stores, H \cup {h}, fault, suspect, {})
  BY <1>2, <1>3, <1>4, BoardTakenSound DEF p
<1>6. b \in suspect \/ b \notin fault.boards
  <2>1. /\ StoresSound(s) /\ SinglesSound(s, H, fault, suspect)
    BY DEF Sound
  <2>2. /\ xy \in Triad /\ b[3] \in 0 .. 2 /\ b = At(xy, b[3]) /\ b \in BoardsOf(xy)
    BY BoardFacts
  <2>3. CASE Trusted(suspect, xy)
    <3>1. xy \in SharedBy(s) /\ b[3] \in SpareOf(s, xy)
      BY <2>1 DEF SharedBy, SpareOf, StoresSound
    <3>2. At(xy, b[3]) \notin fault.boards
      BY <2>1, <2>2, <2>3, <3>1 DEF SinglesSound
    <3> QED BY <2>2, <3>2
  <2>4. CASE ~ Trusted(suspect, xy)
    <3>1. PICK c \in suspect : c \in BoardsOf(xy)
      BY <2>4 DEF Trusted
    <3>2. TriadOf(c) = xy
      BY <2>2, <3>1 DEF BoardsOf, TriadOf, Triad
    <3> QED BY <2>2, <3>1, <3>2 DEF WholeTriads
  <2> QED BY <2>3, <2>4
<1>7. Granted(p, H, i)
  BY <1>1, <1>2, <1>5, <1>6 DEF Granted, h
<1> QED BY <1>7 DEF p

\* A triad is cut out and board b of it taken.
LEMMA OpenedGranted ==
  ASSUME NEW s, NEW H, Sound(s, H, fault, suspect, {}), WholeTriads(suspect),
         NEW xy \in Triad, NEW p, p.rect = Unit(xy), Grown(s.tree, p.tree, p.rect),
         NEW b \in Board, TriadOf(b) = xy, b[3] \in Opened(s, p).singles[xy],
         NEW i, LentAs(BoardTaken(Opened(s, p), b), i) \notin H
  PROVE  Granted(BoardTaken(Opened(s, p), b), H, i)
<1> DEFINE n == Opened(s, p)
<1>1. <<p.rect.x, p.rect.y>> = xy
  BY TriadFacts DEF Unit, Home
<1>2. n = [tree |-> p.tree, singles |-> Put(s.singles, xy, WorkingOf(fault, xy)),
           full |-> s.full]
  BY <1>1, WorkingIs DEF Opened
<1>3. xy \in DOMAIN n.singles /\ n.singles[xy] = WorkingOf(fault, xy)
  BY <1>2 DEF Put
<1>4. WorkingOf(fault, xy) # {}
  BY <1>3
<1> HIDE DEF n
<1>5. Sound(n, H, fault, suspect, {xy})
  BY <1>2, <1>4, TriadOpened
<1>6. b[3] \in n.singles[TriadOf(b)] /\ TriadOf(b) \in DOMAIN n.singles
  BY <1>3 DEF n
<1>7. Granted(BoardTaken(n, b), H, i)
  <2>1. LentAs(BoardTaken(n, b), i) \notin H
    BY DEF n
  <2> QED BY <1>5, <1>6, <2>1, TakenGranted
<1> QED BY <1>7 DEF n

\* _alloc_board
LEMMA AnyGranted ==
  ASSUME NEW s, NEW H, Sound(s, H, fault, suspect, {}), WholeTriads(suspect),
         NEW p \in AnyBoard(s), NEW i, LentAs(p, i) \notin H
  PROVE  Granted(p, H, i)
<1> DEFINE ok == {a \in Rects(1, 1) : Working(<<a.x, a.y>>) # {}}
           q == alloc(s.tree, 1, 1, ok)
<1>1. CASE DOMAIN s.singles # {}
  <2>1. PICK b \in Board : /\ p = BoardTaken(s, b) /\ TriadOf(b) \in DOMAIN s.singles
                           /\ b[3] \in s.singles[TriadOf(b)]
    BY <1>1 DEF AnyBoard, AnyTaken
  <2> QED BY <2>1, TakenGranted
<1>2. CASE DOMAIN s.singles = {}
  <2>1. q # None /\ p \in AnyTaken(Opened(s, q))
    BY <1>2 DEF AnyBoard
  <2> HIDE DEF ok
  <2>2. PICK b \in Board : /\ p = BoardTaken(Opened(s, q), b)
                           /\ TriadOf(b) \in DOMAIN Opened(s, q).singles
                           /\ b[3] \in Opened(s, q).singles[TriadOf(b)]
    BY <2>1 DEF AnyTaken
  <2>3. Covers(s.tree)
    BY DEF Sound, StoresSound
  <2>4. ok \subseteq AllRects /\ \A a \in ok : a = Unit(Home(a))
    <3>1. ASSUME NEW a \in Rects(1, 1)
          PROVE  a \in AllRects /\ a = Unit(Home(a))
      <4>1. 1 \in 1 .. Width /\ 1 \in 1 .. Height
        BY SizeAssumption
      <4>2. PICK x \in 0 .. Width - 1, y \in 0 .. Height - 1 : a = Rect(x, y, 1, 1)
        BY DEF Rects
      <4>3. a.x = x /\ a.y = y
        BY <4>2 DEF Rect
      <4> QED BY <4>1, <4>2, <4>3 DEF AllRects, Unit, Home
    <3> QED BY <3>1 DEF ok
  <2>5. ok \subseteq Box
    BY <2>4, AllRectsAre
  <2>6. q.rect \in ok /\ Grown(s.tree, q.tree, q.rect)
    <3> DEFINE want == [r \in Leaves(s.tree) |-> <<1, 1>>]
    <3>1. q = Placed(s.tree, want, ok)
      BY DEF alloc
    <3> HIDE DEF want, q
    <3>2. Root \in s.tree.nodes /\ Packed(s.tree) /\ \A r \in s.tree.nodes : Within(r, Root)
      BY <2>3, CoversFacts DEF Covers
    <3> QED BY <2>1, <2>5, <3>1, <3>2, PlacedFacts
  <2> DEFINE xy == Home(q.rect)
  <2> HIDE DEF q
  <2>7. xy \in Triad /\ q.rect = Unit(xy)
    BY <2>4, <2>6, HomeFacts
  <2>8. TriadOf(b) = xy
    <3>1. DOMAIN Opened(s, q).singles = {xy}
      BY <1>2 DEF Opened, Put, Home
    <3> QED BY <2>2, <3>1
  <2> HIDE DEF xy
  <2>9. Granted(BoardTaken(Opened(s, q), b), H, i)
    BY <2>2, <2>6, <2>7, <2>8, OpenedGranted
  <2> QED BY <2>2, <2>9
<1> QED BY <1>1, <1>2

LEMMA ThisGranted ==
  ASSUME NEW s, NEW H, Sound(s, H, fault, suspect, {}), WholeTriads(suspect),
         NEW b \in Board, NEW p \in ThisBoard(s, b), NEW i, LentAs(p, i) \notin H
  PROVE  Granted(p, H, i)
<1> DEFINE xy == TriadOf(b)
           q == request(s.tree, xy)
<1>1. b \notin fault.boards
  BY DEF ThisBoard
<1>2. CASE xy \in DOMAIN s.singles /\ b[3] \in s.singles[xy]
  <2>1. p = BoardTaken(s, b)
    BY <1>1, <1>2 DEF ThisBoard
  <2> QED BY <1>2, <2>1, TakenGranted
<1>3. CASE ~ (xy \in DOMAIN s.singles /\ b[3] \in s.singles[xy])
  <2>1. q # None /\ p = BoardTaken(Opened(s, q), b)
    BY <1>1, <1>3 DEF ThisBoard
  <2>2. xy \in Triad /\ b[3] \in 0 .. 2 /\ b = At(xy, b[3])
    BY BoardFacts
  <2>3. Covers(s.tree)
    BY DEF Sound, StoresSound
  <2> HIDE DEF xy
  <2>4. q.rect = Unit(xy) /\ Grown(s.tree, q.tree, q.rect)
    <3>1. Root \in s.tree.nodes /\ Packed(s.tree)
      BY <2>3 DEF Covers
    <3>2. xy \in Int \X Int /\ Contains(Root, xy)
      BY <2>2, TriadFacts
    <3> QED BY <2>1, <3>1, <3>2, RequestFacts DEF Unit
  <2> HIDE DEF q
  <2>5. b[3] \in Opened(s, q).singles[xy]
    <3>1. <<q.rect.x, q.rect.y>> = xy
      BY <2>2, <2>4, TriadFacts DEF Unit, Home
    <3>2. Opened(s, q).singles[xy] = WorkingOf(fault, xy)
      BY <3>1, WorkingIs DEF Opened, Put
    <3> QED BY <1>1, <2>2, <3>2 DEF WorkingOf
  <2>6. TriadOf(b) = xy
    BY DEF xy
  <2>7. Granted(BoardTaken(Opened(s, q), b), H, i)
    BY <2>1, <2>2, <2>4, <2>5, <2>6, OpenedGranted
  <2> QED BY <2>1, <2>7
<1> QED BY <1>2, <1>3

\* What the filter finds in a rectangle.
BoardsIn(a) == Candidate[fault, a].boards

LEMMA BoardsInFacts ==
  ASSUME fault \in Fault, NEW a \in AllRects
  PROVE  \A b \in BoardsIn(a) :
           b \in Board /\ b \notin fault.boards /\ Contains(a, TriadOf(b))
  BY Zenon, CandidateFacts DEF BoardsIn

\* A block of triads, wherever the PackTree has put it.
LEMMA TriadsGranted ==
  ASSUME NEW s, NEW H, Sound(s, H, fault, suspect, {}), fault \in Fault,
         NEW q, q # None, q.rect \in AllRects, BoardsIn(q.rect) # {},
         Grown(s.tree, q.tree, q.rect),
         NEW p \in TriadsTaken(s, q), NEW i, LentAs(p, i) \notin H
  PROVE  Granted(p, H, i)
<1> DEFINE B == BoardsIn(q.rect)
           b == <<q.rect.x, q.rect.y, 0>>
           h == LentAs(p, i)
<1>1. p = [type |-> "triads", board |-> b, boards |-> B, stores |-> [s EXCEPT !.tree = q.tree]]
  BY Zenon DEF TriadsTaken, BoardsIn
<1>2. p.type = "triads" /\ p.board = b /\ p.boards = B /\ p.stores = [s EXCEPT !.tree = q.tree]
  BY <1>1
<1>3. \A c \in B : c \in Board /\ c \notin fault.boards /\ Contains(q.rect, TriadOf(c))
  BY BoardsInFacts
<1>4. b \in Board /\ TriadOf(b) = Home(q.rect)
  <2>1. Home(q.rect) \in Triad /\ At(Home(q.rect), 0) = b
    BY HomeFacts DEF Home, At
  <2> HIDE DEF b
  <2> QED BY <2>1, AtFacts
<1>5. B # {}
  OBVIOUS
<1> HIDE DEF B, b
<1>6. /\ h[1] = Lent(p) /\ Lent(p) \in EntryType
      /\ h[1].type = "triads" /\ h[1].board = b /\ h[1].boards = B
  <2>1. B \in SUBSET Board
    BY <1>3
  <2> QED BY <1>2, <1>4, <2>1 DEF Lent, LentAs, EntryType
<1>7. h \notin H
  OBVIOUS
<1> HIDE DEF h
<1>8. IsBlock(h) /\ Corner(h) = Home(q.rect)
  BY <1>4, <1>6 DEF IsBlock, Corner
<1>9. Sound([s EXCEPT !.tree = q.tree], H \cup {h}, fault, suspect, {})
  BY <1>3, <1>6, <1>7, <1>8, BlockTaken
<1>10. (p.boards \ suspect) \cap fault.boards = {} /\ p.boards # {}
  BY <1>2, <1>3, <1>5
<1> QED BY <1>2, <1>6, <1>9, <1>10 DEF Granted, h

LEMMA PlacedGranted ==
  ASSUME NEW s, NEW H, Sound(s, H, fault, suspect, {}), fault \in Fault,
         NEW ok, ok \subseteq AllRects, \A a \in ok : BoardsIn(a) # {},
         NEW want, NEW p \in TriadsTaken(s, Placed(s.tree, want, ok)),
         NEW i, LentAs(p, i) \notin H
  PROVE  Granted(p, H, i)
<1> DEFINE q == Placed(s.tree, want, ok)
<1>1. q # None
  BY DEF TriadsTaken
<1>2. Covers(s.tree)
  BY DEF Sound, StoresSound
<1>3. Root \in s.tree.nodes /\ Packed(s.tree) /\ \A r \in s.tree.nodes : Within(r, Root)
  BY <1>2, CoversFacts DEF Covers
<1>4. ok \subseteq Box
  BY AllRectsAre
<1>5. q.rect \in ok /\ Grown(s.tree, q.tree, q.rect)
  BY <1>1, <1>3, <1>4, PlacedFacts
<1> HIDE DEF q
<1> QED BY <1>1, <1>5, TriadsGranted DEF q

\* alloc
LEMMA GrantsSound ==
  ASSUME NEW s, NEW H, Sound(s, H, fault, suspect, {}), WholeTriads(suspect),
         fault \in Fault, NEW r \in Request,
         NEW p \in Grants(s, r), NEW i, LentAs(p, i) \notin H
  PROVE  Granted(p, H, i)
<1>1. r \in RequestType
  BY AllocatorAssumption
<1>2. /\ r.kind = "triads" \/ r.kind = "boards" \/ r.kind = "board" \/ r.kind = "this"
      /\ r.kind = "this" => r.board \in Board
  BY <1>1 DEF RequestType
<1>3. CASE r.kind = "triads"
  <2> DEFINE ok == {a \in AllRects : Accepts(r, 3 * Area(a), a)}
             want == [q \in Leaves(s.tree) |-> <<r.w, r.h>>]
  <2>1. p \in TriadsTaken(s, Placed(s.tree, want, ok))
    BY <1>3 DEF Grants, SomeTriads, alloc
  <2>2. ok \subseteq AllRects /\ \A a \in ok : BoardsIn(a) # {}
    BY Zenon DEF Accepts, BoardsIn
  <2> HIDE DEF ok, want
  <2> QED BY <2>1, <2>2, PlacedGranted
<1>4. CASE r.kind = "boards"
  <2> DEFINE ok == {a \in AllRects : Accepts(r, r.n, a)}
             want == [q \in Leaves(s.tree) |->
                        area_to_rect(TriadsFor(r.n), q.w, q.h, r.min_ratio)]
  <2>1. p \in TriadsTaken(s, Placed(s.tree, want, ok))
    BY <1>4 DEF Grants, SomeBoards, alloc_area
  <2>2. ok \subseteq AllRects /\ \A a \in ok : BoardsIn(a) # {}
    BY Zenon DEF Accepts, BoardsIn
  <2> HIDE DEF ok, want
  <2> QED BY <2>1, <2>2, PlacedGranted
<1>5. CASE r.kind = "board"
  <2>1. p \in AnyBoard(s)
    BY <1>5 DEF Grants
  <2> QED BY <2>1, AnyGranted
<1>6. CASE r.kind = "this"
  <2>1. p \in ThisBoard(s, r.board)
    BY <1>6 DEF Grants
  <2> QED BY <1>2, <1>6, <2>1, ThisGranted
<1> QED BY <1>2, <1>3, <1>4, <1>5, <1>6

-----------------------------------------------------------------------------
(* The invariant.                                                          *)

AInv ==
  /\ DOMAIN live \subseteq Id /\ live \in [DOMAIN live -> EntryType]
  /\ toFree \in Seq(EntryType) /\ Len(toFree) <= MaxCooling
  /\ ripe \in 0 .. Len(toFree)
  /\ fault \in Fault /\ suspect \subseteq Board /\ WholeTriads(suspect)
  /\ Sound(Stores, Held0(0), fault, suspect, {})

LEMMA BecomeFacts ==
  ASSUME NEW s, StoresSound(s), Become(s)
  PROVE  Stores' = s
  BY DEF StoresSound, Become, Stores

LEMMA NewSound ==
  ASSUME NEW t, t = NewTree(Width, Height), NEW sg, DOMAIN sg = {}, NEW f, NEW u
  PROVE  Sound([tree |-> t, singles |-> sg, full |-> {}], {}, f, u, {})
<1> DEFINE s == [tree |-> t, singles |-> sg, full |-> {}]
<1>1. /\ s.tree = t /\ s.singles = sg /\ s.full = {} /\ s = [tree |-> s.tree, singles |-> s.singles, full |-> s.full]
      /\ t.nodes = {Root} /\ t.allocated = {}
  BY DEF NewTree, Root
<1>2. Covers(t)
  <2>1. Root \in Box /\ Within(Root, Root)
    BY RootFacts, WithinItself
  <2>2. Root \in AllRects
    BY <2>1, AllRectsAre
  <2>3. Binary({Root})
    BY <2>1 DEF Binary, Cut
  <2> QED BY <1>1, <2>2, <2>3 DEF Covers, Packed, Cut
<1> HIDE DEF s
<1>3. SharedBy(s) = {}
  BY <1>1 DEF SharedBy
<1>4. StoresSound(s)
  <2>1. sg \in [DOMAIN sg -> (SUBSET (0 .. 2)) \ {{}}]
    <3>1. sg \in [{} -> (SUBSET (0 .. 2)) \ {{}}]
      OBVIOUS
    <3> QED BY <3>1
  <2> QED BY <1>1, <1>2, <2>1 DEF StoresSound
<1>5. HoldingsSound({}) /\ BlocksSound(s, {}) /\ SinglesSound(s, {}, f, u) /\ InUse(s, {}, u, {})
  BY <1>1, <1>3 DEF HoldingsSound, BlocksSound, SinglesSound, InUse
<1>6. Sound(s, {}, f, u, {})
  BY <1>4, <1>5 DEF Sound
<1> QED BY <1>6 DEF s

\* Init
LEMMA InitSound == Init => AInv
<1> SUFFICES ASSUME Init PROVE AInv
  OBVIOUS
<1>1. /\ tree = NewTree(Width, Height) /\ DOMAIN singles = {} /\ full = {}
      /\ DOMAIN live = {} /\ toFree = <<>> /\ ripe = 0 /\ fault \in Fault /\ suspect = {}
  BY DEF Init
<1>2. live \in [DOMAIN live -> EntryType]
  <2>1. live \in [{} -> EntryType]
    BY DEF Init
  <2> QED BY <1>1, <2>1
<1>3. Held0(0) = {}
  <2>1. Len(toFree) = 0
    BY <1>1
  <2>2. 0 + 1 .. Len(toFree) = {}
    BY <2>1
  <2> QED BY <1>1, <2>2 DEF Held0, Holdings
<1>4. Sound(Stores, {}, fault, suspect, {})
  BY <1>1, NewSound DEF Stores
<1>5. /\ toFree \in Seq(EntryType) /\ Len(toFree) = 0
  BY <1>1
<1>6. Len(toFree) <= MaxCooling /\ ripe \in 0 .. Len(toFree)
  BY <1>1, <1>5, AllocatorAssumption
<1>7. DOMAIN live \subseteq Id /\ suspect \subseteq Board /\ WholeTriads(suspect)
  BY <1>1 DEF WholeTriads
<1> QED BY <1>1, <1>2, <1>3, <1>4, <1>5, <1>6, <1>7 DEF AInv

\* What is left of to_free.
LEMMA PoppedFacts ==
  ASSUME AInv, NEW n \in 0 .. ripe, Popped(n)
  PROVE  /\ toFree' \in Seq(EntryType) /\ Len(toFree') = Len(toFree) - n
         /\ Len(toFree') <= MaxCooling
         /\ ripe' \in 0 .. Len(toFree')
         /\ n \in 0 .. Len(toFree)
<1>1. /\ toFree \in Seq(EntryType) /\ Len(toFree) \in Nat /\ ripe \in 0 .. Len(toFree)
      /\ Len(toFree) <= MaxCooling /\ MaxCooling \in Nat
  BY AllocatorAssumption DEF AInv
<1>2. toFree' = SubSeq(toFree, n + 1, Len(toFree)) /\ ripe' = ripe - n
  BY DEF Popped
<1>3. /\ toFree' \in Seq(EntryType) /\ Len(toFree') = Len(toFree) - n
  BY <1>1, <1>2
<1> QED BY <1>1, <1>2, <1>3

LEMMA CheckFreeSound == ASSUME AInv, CheckFree PROVE AInv'
<1>1. /\ ripe > 0 /\ Smooth(ripe) /\ Become(After[ripe]) /\ Popped(ripe)
      /\ live' = live /\ fault' = fault /\ suspect' = suspect
  BY DEF CheckFree
<1>2. /\ toFree \in Seq(EntryType) /\ ripe \in 0 .. Len(toFree)
      /\ Sound(Stores, Held0(0), fault, suspect, {}) /\ ripe \in 0 .. ripe
  BY DEF AInv
<1>3. Sound(After[ripe], Held0(ripe), fault, suspect, {})
  BY <1>1, <1>2, AfterSound
<1>4. Sound(After[ripe], Holdings(live, SubSeq(toFree, ripe + 1, Len(toFree)), 0),
            fault, suspect, {})
  BY <1>2, <1>3, PoppedSound DEF Held0
<1>5. Stores' = After[ripe]
  BY <1>1, <1>3, BecomeFacts DEF Sound
<1>6. Sound(Stores', Held0(0)', fault', suspect', {})
  BY <1>1, <1>4, <1>5 DEF Held0, Popped
<1> QED BY <1>1, <1>2, <1>6, PoppedFacts DEF AInv

LEMMA CheckFreeRaisesSound == ASSUME AInv, NEW n, CheckFreeRaises(n) PROVE AInv'
<1>1. /\ n \in 1 .. ripe /\ Smooth(n - 1) /\ Raises(After[n - 1], toFree[n])
      /\ Become(After[n - 1]) /\ Popped(n)
      /\ live' = live /\ fault' = fault /\ suspect' = suspect
  BY DEF CheckFreeRaises
<1>2. /\ toFree \in Seq(EntryType) /\ ripe \in 0 .. Len(toFree)
      /\ Sound(Stores, Held0(0), fault, suspect, {})
  BY DEF AInv
<1>3. n - 1 \in 0 .. ripe /\ n \in 1 .. Len(toFree) /\ n \in 0 .. ripe /\ n \in 0 .. Len(toFree)
  BY <1>1, <1>2
<1>4. Sound(After[n - 1], Held0(n - 1), fault, suspect, {})
  BY <1>1, <1>2, <1>3, AfterSound
<1>5. Entry(n) \in Held0(n - 1) /\ Held0(n) = Held0(n - 1) \ {Entry(n)} /\ Entry(n)[1] = toFree[n]
  BY <1>2, <1>3, NextHeld DEF Entry
<1>6. IsSingle(Entry(n)) /\ Corner(Entry(n)) \notin SharedBy(After[n - 1])
  BY <1>1, <1>5 DEF Raises, IsSingle, Corner, SharedBy
<1>7. Sound(After[n - 1], Held0(n), fault, suspect, {})
  BY <1>4, <1>5, <1>6, BoardDropped
<1>8. Sound(After[n - 1], Holdings(live, SubSeq(toFree, n + 1, Len(toFree)), 0),
            fault, suspect, {})
  BY <1>2, <1>3, <1>7, PoppedSound DEF Held0
<1>9. Stores' = After[n - 1]
  BY <1>1, <1>4, BecomeFacts DEF Sound
<1>10. Sound(Stores', Held0(0)', fault', suspect', {})
  BY <1>1, <1>8, <1>9 DEF Held0, Popped
<1> QED BY <1>1, <1>3, <1>10, PoppedFacts DEF AInv

\* What an alloc is granted.
LEMMA AllocGranted ==
  ASSUME AInv, NEW i, NEW r \in Request, i \in Id \ DOMAIN live, Smooth(ripe),
         NEW p \in Grants(After[ripe], r)
  PROVE  Granted(p, Held0(ripe), i)
<1>1. /\ toFree \in Seq(EntryType) /\ ripe \in 0 .. Len(toFree)
      /\ Sound(Stores, Held0(0), fault, suspect, {}) /\ ripe \in 0 .. ripe
      /\ WholeTriads(suspect) /\ fault \in Fault
  BY DEF AInv
<1>2. Sound(After[ripe], Held0(ripe), fault, suspect, {})
  BY <1>1, AfterSound
<1>3. LentAs(p, i) \notin Held0(ripe)
  BY LentHeld DEF LentAs, Held0
<1> QED BY <1>1, <1>2, <1>3, GrantsSound

LEMMA AllocSound ==
  ASSUME AInv, NEW i, NEW r \in Request, Alloc(i, r)
  PROVE  AInv'
<1>1. /\ i \in Id \ DOMAIN live /\ Smooth(ripe) /\ Popped(ripe)
      /\ fault' = fault /\ suspect' = suspect
  BY DEF Alloc
<1>2. PICK p \in Grants(After[ripe], r) : Become(p.stores) /\ live' = Put(live, i, Lent(p))
  BY DEF Alloc, Lent
<1>3. Granted(p, Held0(ripe), i)
  BY <1>1, <1>2, AllocGranted
<1>4. /\ Sound(p.stores, Held0(ripe) \cup {LentAs(p, i)}, fault, suspect, {})
      /\ Lent(p) \in EntryType
  BY <1>3 DEF Granted
<1>5. Holdings(Put(live, i, Lent(p)), toFree, ripe) = Held0(ripe) \cup {LentAs(p, i)}
  <2>1. i \notin DOMAIN live
    BY <1>1
  <2>2. ASSUME NEW e
        PROVE  /\ Holdings(Put(live, i, e), toFree, ripe) =
                    Holdings(live, toFree, ripe) \cup {<<e, "live", i>>}
               /\ <<e, "live", i>> \notin Holdings(live, toFree, ripe)
    BY <2>1, LentHeld, Zenon
  <2> QED BY <2>2 DEF LentAs, Held0
<1>6. /\ toFree \in Seq(EntryType) /\ ripe \in 0 .. Len(toFree)
      /\ DOMAIN live \subseteq Id /\ live \in [DOMAIN live -> EntryType]
      /\ ripe \in 0 .. ripe
  BY DEF AInv
<1>7. Sound(p.stores, Holdings(live', SubSeq(toFree, ripe + 1, Len(toFree)), 0),
            fault, suspect, {})
  BY <1>2, <1>4, <1>5, <1>6, PoppedSound
<1>8. Stores' = p.stores
  BY <1>2, <1>4, BecomeFacts DEF Sound
<1>9. Sound(Stores', Held0(0)', fault', suspect', {})
  BY <1>1, <1>7, <1>8 DEF Held0, Popped
<1>10. DOMAIN live' \subseteq Id /\ live' \in [DOMAIN live' -> EntryType]
  BY <1>1, <1>2, <1>4, <1>6 DEF Put
<1> QED BY <1>1, <1>6, <1>9, <1>10, PoppedFacts DEF AInv

LEMMA FreeSound == ASSUME AInv, NEW i, Free(i) PROVE AInv'
<1>1. /\ i \in DOMAIN live /\ Len(toFree) < MaxCooling
      /\ toFree' = Append(toFree, live[i]) /\ live' = Drop(live, i)
      /\ Stores' = Stores /\ ripe' = ripe /\ fault' = fault /\ suspect' = suspect
  BY DEF Free, stores, Stores
<1>2. /\ toFree \in Seq(EntryType) /\ ripe \in 0 .. Len(toFree) /\ Len(toFree) \in Nat
      /\ Sound(Stores, Held0(0), fault, suspect, {})
      /\ DOMAIN live \subseteq Id /\ live \in [DOMAIN live -> EntryType]
      /\ MaxCooling \in Nat
  BY AllocatorAssumption DEF AInv
<1>3. live[i] \in EntryType
  BY <1>1, <1>2
<1>4. Sound(Stores, Holdings(Drop(live, i), Append(toFree, live[i]), 0), fault, suspect, {})
  BY <1>1, <1>2, <1>3, FreedSound DEF Held0
<1>5. Sound(Stores', Held0(0)', fault', suspect', {})
  BY <1>1, <1>4 DEF Held0
<1>6. DOMAIN live' \subseteq Id /\ live' \in [DOMAIN live' -> EntryType]
  BY <1>1, <1>2 DEF Drop
<1>7. /\ toFree' \in Seq(EntryType) /\ Len(toFree') = Len(toFree) + 1
  BY <1>1, <1>2, <1>3
<1>8. Len(toFree') <= MaxCooling /\ ripe' \in 0 .. Len(toFree')
  BY <1>1, <1>2, <1>7
<1> QED BY <1>1, <1>5, <1>6, <1>7, <1>8 DEF AInv

LEMMA TimePassesSound == ASSUME AInv, TimePasses PROVE AInv'
<1>1. /\ ripe < Len(toFree) /\ ripe' = ripe + 1
      /\ Stores' = Stores /\ Held0(0)' = Held0(0)
      /\ live' = live /\ toFree' = toFree /\ fault' = fault /\ suspect' = suspect
  BY DEF TimePasses, stores, Stores, Held0
<1>2. ripe' \in 0 .. Len(toFree)
  BY <1>1 DEF AInv
<1> QED BY <1>1, <1>2 DEF AInv

\* The boards of triads that are no longer trusted once the faults are g.
Doubted(s, f, g) ==
  UNION {BoardsOf(xy) : xy \in {TriadOf(b) : b \in (g.boards \ f.boards) \cup (f.boards \ g.boards)}
                                 \cap SharedBy(s)}

LEMMA DoubtedSound ==
  ASSUME NEW s, NEW H, NEW f, NEW u, Sound(s, H, f, u, {}), NEW g
  PROVE  Sound(s, H, g, u \cup Doubted(s, f, g), {})
<1> DEFINE odd == (g.boards \ f.boards) \cup (f.boards \ g.boards)
           v == u \cup Doubted(s, f, g)
<1>1. /\ StoresSound(s) /\ HoldingsSound(H) /\ BlocksSound(s, H)
      /\ SinglesSound(s, H, f, u) /\ InUse(s, H, u, {})
  BY DEF Sound
<1>2. \A xy : Trusted(v, xy) => Trusted(u, xy)
  BY DEF Trusted
<1>3. ASSUME NEW xy \in SharedBy(s), Trusted(v, xy), NEW z \in 0 .. 2
      PROVE  At(xy, z) \notin g.boards <=> At(xy, z) \notin f.boards
  <2> SUFFICES ASSUME At(xy, z) \in odd PROVE FALSE
    OBVIOUS
  <2>1. xy \in Triad
    BY <1>1, SpareFacts
  <2>2. TriadOf(At(xy, z)) = xy
    BY <2>1, AtFacts
  <2>3. xy \in {TriadOf(b) : b \in odd} \cap SharedBy(s)
    BY <2>2
  <2>4. BoardsOf(xy) \subseteq v
    BY <2>3 DEF Doubted
  <2>5. At(xy, z) \in BoardsOf(xy)
    BY DEF At, BoardsOf
  <2> QED BY <1>3, <2>4, <2>5 DEF Trusted
<1> HIDE DEF v
<1>4. SinglesSound(s, H, g, v) /\ InUse(s, H, v, {})
  BY <1>1, <1>2, <1>3 DEF SinglesSound, InUse
<1>5. Sound(s, H, g, v, {})
  BY <1>1, <1>4 DEF Sound
<1> QED BY <1>5 DEF v

LEMMA ModifyMachineSound ==
  ASSUME AInv, NEW f \in Fault, ModifyMachine(f)
  PROVE  AInv'
<1>1. /\ fault' = f /\ suspect' = suspect \cup Doubted(Stores, fault, f)
      /\ Stores' = Stores /\ Held0(0)' = Held0(0)
      /\ live' = live /\ toFree' = toFree /\ ripe' = ripe
  BY DEF ModifyMachine, Doubted, SharedBy, stores, Stores, Held0
<1>2. Sound(Stores, Held0(0), fault, suspect, {}) /\ suspect \subseteq Board /\ WholeTriads(suspect)
  BY DEF AInv
<1>3. Sound(Stores', Held0(0)', fault', suspect', {})
  BY <1>1, <1>2, DoubtedSound
<1>4. ASSUME NEW b \in Doubted(Stores, fault, f)
      PROVE  b \in Board /\ BoardsOf(TriadOf(b)) \subseteq suspect'
  <2>1. PICK xy \in SharedBy(Stores) : b \in BoardsOf(xy) /\ BoardsOf(xy) \subseteq Doubted(Stores, fault, f)
    BY DEF Doubted
  <2>2. xy \in Triad
    BY <1>2, SpareFacts DEF Sound
  <2>3. PICK z \in 0 .. 2 : b = At(xy, z)
    BY <2>1 DEF BoardsOf, At
  <2>4. b \in Board /\ TriadOf(b) = xy
    BY <2>2, <2>3, AtFacts
  <2> QED BY <1>1, <2>1, <2>4
<1>5. suspect' \subseteq Board
  BY <1>1, <1>2, <1>4
<1>6. WholeTriads(suspect')
  BY <1>1, <1>2, <1>4 DEF WholeTriads
<1> QED BY <1>1, <1>3, <1>5, <1>6 DEF AInv

LEMMA NextSound == AInv /\ [Next]_vars => AInv'
<1> SUFFICES ASSUME AInv, [Next]_vars PROVE AInv'
  OBVIOUS
<1>1. ASSUME NEW i \in Id, NEW r \in Request, Alloc(i, r) PROVE AInv'
  BY <1>1, AllocSound
<1>2. ASSUME NEW i \in Id, Free(i) PROVE AInv'
  BY <1>2, FreeSound
<1>3. CASE CheckFree
  BY <1>3, CheckFreeSound
<1>4. ASSUME NEW n \in 1 .. MaxCooling, CheckFreeRaises(n) PROVE AInv'
  BY <1>4, CheckFreeRaisesSound
<1>5. CASE TimePasses
  BY <1>5, TimePassesSound
<1>6. ASSUME NEW f \in Fault, ModifyMachine(f) PROVE AInv'
  BY <1>6, ModifyMachineSound
<1>7. CASE UNCHANGED vars
  BY <1>7 DEF vars, AInv, Stores, Held0
<1> QED BY <1>1, <1>2, <1>3, <1>4, <1>5, <1>6, <1>7 DEF Next

\* The inductive invariant of the allocator: each allocated leaf of its PackTree
\* is one block's or a triad's for single boards, and each of the boards of
\* those triads is to spare or out just once (Allocator.alloc, free,
\* check_free, _free_next).
THEOREM AllocatorInvariant == Spec => []AInv
<1>1. Init => AInv
  BY InitSound
<1>2. AInv /\ [Next]_vars => AInv'
  BY NextSound
<1> QED BY <1>1, <1>2, PTL DEF Spec

-----------------------------------------------------------------------------
(* What follows from the invariant.                                        *)

LEMMA StoresFields == Stores.tree = tree /\ Stores.singles = singles /\ Stores.full = full
  BY DEF Stores

LEMMA InvTypes == AInv => ATypeOK
<1> SUFFICES ASSUME AInv PROVE ATypeOK
  OBVIOUS
<1>1. StoresSound(Stores)
  BY DEF AInv, Sound
<1>2. Covers(tree)
  BY <1>1, StoresFields DEF StoresSound
<1>3. tree.nodes \subseteq AllRects /\ tree.allocated \subseteq AllRects
  BY <1>2, CoversFacts DEF Covers
<1>4. /\ DOMAIN singles \subseteq Triad
      /\ singles \in [DOMAIN singles -> (SUBSET (0 .. 2)) \ {{}}]
      /\ full \subseteq Triad \ DOMAIN singles
  BY <1>1, StoresFields DEF StoresSound
<1> QED BY <1>3, <1>4 DEF AInv, ATypeOK

LEMMA TwoOfThem == ASSUME NEW c, NEW d, c # d PROVE Cardinality({c, d}) = 2
<1>1. IsFiniteSet({c}) /\ Cardinality({c}) = 1
  BY FS_Singleton
<1>2. Cardinality({c} \cup {d}) = 1 + 1
  BY <1>1, FS_AddElement
<1>3. {c, d} = {c} \cup {d}
  OBVIOUS
<1> QED BY <1>2, <1>3

LEMMA CutAreas ==
  ASSUME NEW r \in Box, NEW c \in Box, NEW d \in Box, CutInto(r, c, d)
  PROVE  /\ Area(c) + Area(d) = Area(r) /\ Area(d) + Area(c) = Area(r)
         /\ c.x + c.w = d.x \/ c.y + c.h = d.y
<1>1. /\ r.x \in Int /\ r.y \in Int /\ r.w \in Nat \ {0} /\ r.h \in Nat \ {0}
      /\ c.x \in Int /\ c.y \in Int /\ c.w \in Nat \ {0} /\ c.h \in Nat \ {0}
      /\ d.x \in Int /\ d.y \in Int /\ d.w \in Nat \ {0} /\ d.h \in Nat \ {0}
  BY BoxFields
<1>2. /\ \A m, n, k \in Nat : m * k + n * k = (m + n) * k
      /\ \A m, n, k \in Nat : k * m + k * n = k * (m + n)
  OBVIOUS
<1>3. /\ Area(c) = c.w * c.h /\ Area(d) = d.w * d.h /\ Area(r) = r.w * r.h
      /\ Area(c) \in Nat /\ Area(d) \in Nat
  BY <1>1, AreaFacts DEF Area
<1>4. CASE /\ c.x = r.x /\ d.x = r.x + c.w /\ c.w + d.w = r.w
           /\ c.y = r.y /\ d.y = r.y /\ c.h = r.h /\ d.h = r.h
  <2>1. c.w * r.h + d.w * r.h = r.w * r.h
    BY <1>1, <1>2, <1>4
  <2> QED BY <1>1, <1>3, <1>4, <2>1
<1>5. CASE /\ c.x = r.x /\ d.x = r.x /\ c.w = r.w /\ d.w = r.w
           /\ c.y = r.y /\ d.y = r.y + c.h /\ c.h + d.h = r.h
  <2>1. r.w * c.h + r.w * d.h = r.w * r.h
    BY <1>1, <1>2, <1>5
  <2> QED BY <1>1, <1>3, <1>5, <2>1
<1> QED BY <1>4, <1>5 DEF CutInto

LEMMA InvPacked == AInv => WellPacked
<1> SUFFICES ASSUME AInv PROVE WellPacked
  OBVIOUS
<1>1. Covers(tree)
  BY StoresFields DEF AInv, Sound, StoresSound
<1>2. Packed(tree) /\ Binary(tree.nodes) /\ tree.nodes \subseteq Box
      /\ Rect(0, 0, Width, Height) \in tree.nodes /\ tree.allocated \subseteq tree.nodes
  BY <1>1, CoversFacts DEF Covers, Root
<1>3. ASSUME NEW r \in tree.nodes, Below(tree, r) # {}
      PROVE  /\ r \notin tree.allocated
             /\ Cardinality(Children(tree, r)) = 2
             /\ \A c, d \in Children(tree, r) : c # d =>
                  /\ Area(c) + Area(d) = Area(r)
                  /\ \/ c.x + c.w = d.x \/ d.x + d.w = c.x
                     \/ c.y + c.h = d.y \/ d.y + d.h = c.y
             /\ Below(tree, r) \cap tree.allocated # {}
  <2>1. Cut(tree.nodes, r)
    BY <1>3, BelowUnder DEF Under, Cut
  <2>2. r \notin tree.allocated
    BY <1>2, <2>1 DEF Packed
  <2>3. PICK c \in tree.nodes, d \in tree.nodes : Parts(tree.nodes, r, c, d)
    BY <1>2, <2>1 DEF Binary
  <2>4. c \in Box /\ d \in Box /\ r \in Box /\ CutInto(r, c, d)
    BY <1>2, <2>3 DEF Parts
  <2>5. Children(tree, r) = {c, d} /\ c # d
    BY <1>2, <2>3, <2>4, ChildrenFacts, CutFacts
  <2>6. Cardinality(Children(tree, r)) = 2
    <3>1. Cardinality({c, d}) = 2
      BY <2>5, TwoOfThem, Zenon
    <3> QED BY <2>5, <3>1
  <2>7. /\ Area(c) + Area(d) = Area(r) /\ Area(d) + Area(c) = Area(r)
        /\ c.x + c.w = d.x \/ c.y + c.h = d.y
    BY <2>4, CutAreas
  <2>8. PICK a \in tree.allocated : Within(a, r)
    BY <1>2, <2>1 DEF Packed
  <2>9. a \in Below(tree, r)
    BY <1>2, <2>2, <2>8 DEF Below
  <2> QED BY <2>2, <2>5, <2>6, <2>7, <2>9
<1> QED BY <1>2, <1>3 DEF WellPacked

\* An entry that is held, with or without where it is.
LEMMA HeldHas ==
  ASSUME toFree \in Seq(EntryType)
  PROVE  /\ \A g \in Held0(0) : g[1] \in Held
         /\ \A e \in Held : \E g \in Held0(0) : g[1] = e
<1>1. DOMAIN toFree = 1 .. Len(toFree) /\ 0 + 1 .. Len(toFree) = 1 .. Len(toFree)
  OBVIOUS
<1>2. Held0(0) = {<<live[i], "live", i>> : i \in DOMAIN live}
                   \cup {<<toFree[k], "cooling", k>> : k \in DOMAIN toFree}
  BY <1>1 DEF Held0, Holdings
<1>3. ASSUME NEW g \in Held0(0)
      PROVE  g[1] \in Held
  BY <1>2 DEF Held
<1>4. ASSUME NEW e \in Held
      PROVE  \E g \in Held0(0) : g[1] = e
  <2>1. CASE \E i \in DOMAIN live : e = live[i]
    <3>1. PICK i \in DOMAIN live : e = live[i]
      BY <2>1
    <3>2. <<live[i], "live", i>> \in Held0(0) /\ <<live[i], "live", i>>[1] = e
      BY <1>2, <3>1
    <3> QED BY <3>2
  <2>2. CASE \E k \in DOMAIN toFree : e = toFree[k]
    <3>1. PICK k \in DOMAIN toFree : e = toFree[k]
      BY <2>2
    <3>2. <<toFree[k], "cooling", k>> \in Held0(0) /\ <<toFree[k], "cooling", k>>[1] = e
      BY <1>2, <3>1
    <3> QED BY <3>2
  <2> QED BY <2>1, <2>2 DEF Held
<1> QED BY <1>3, <1>4

LEMMA InvOwned == AInv => LeavesOwned
<1> SUFFICES ASSUME AInv PROVE LeavesOwned
  OBVIOUS
<1> DEFINE Blocks == {e \in Held : e.type = "triads"}
           Shared == full \cup DOMAIN singles
           Owned(a) == {e \in Blocks : TriadOf(e.board) = <<a.x, a.y>>}
           H == Held0(0)
<1>1. /\ StoresSound(Stores) /\ BlocksSound(Stores, H) /\ toFree \in Seq(EntryType)
      /\ Covers(tree)
  BY StoresFields DEF AInv, Sound, StoresSound
<1>2. Shared = SharedBy(Stores)
  BY StoresFields DEF SharedBy
<1>3. /\ \A g \in H : g[1] \in Held
      /\ \A e \in Held : \E g \in H : g[1] = e
  BY <1>1, HeldHas
<1>4. ASSUME NEW e \in Blocks
      PROVE  \E a \in tree.allocated : Home(a) = TriadOf(e.board) /\ Home(a) \notin Shared
  <2>1. PICK g \in H : g[1] = e
    BY <1>3
  <2>2. IsBlock(g) /\ Corner(g) = TriadOf(e.board)
    BY <2>1 DEF IsBlock, Corner
  <2>3. PICK a \in Stores.tree.allocated : Home(a) = Corner(g) /\ Home(a) \notin SharedBy(Stores)
    BY <1>1, <2>2 DEF BlocksSound
  <2> QED BY <1>2, <2>2, <2>3, StoresFields
<1>5. ASSUME NEW e \in Blocks
      PROVE  CanFree(tree, TriadOf(e.board))
  <2>1. PICK a \in tree.allocated : Home(a) = TriadOf(e.board)
    BY <1>4
  <2>2. a \in tree.allocated \cap Leaves(tree)
    BY <1>1, CoversFacts
  <2>3. a.x = TriadOf(e.board)[1] /\ a.y = TriadOf(e.board)[2]
    BY <2>1 DEF Home, TriadOf
  <2> QED BY <2>2, <2>3 DEF CanFree
<1>6. \A xy \in Shared : Rect(xy[1], xy[2], 1, 1) \in tree.allocated
  BY <1>1, <1>2, StoresFields DEF BlocksSound, Unit
<1>7. ASSUME NEW a \in tree.allocated
      PROVE  Cardinality(Owned(a)) = IF <<a.x, a.y>> \in Shared THEN 0 ELSE 1
  <2>1. Home(a) = <<a.x, a.y>>
    BY DEF Home
  <2>2. CASE <<a.x, a.y>> \in Shared
    <3>1. Owned(a) = {}
      <4> SUFFICES ASSUME NEW e \in Blocks, TriadOf(e.board) = <<a.x, a.y>> PROVE FALSE
        OBVIOUS
      <4> QED BY <1>4, <2>2
    <3>2. Cardinality(Owned(a)) = 0
      BY <3>1, FS_EmptySet
    <3> QED BY <2>2, <3>2
  <2>3. CASE <<a.x, a.y>> \notin Shared
    <3>1. PICK g \in H : IsBlock(g) /\ Corner(g) = Home(a)
      BY <1>1, <1>2, <2>1, <2>3, StoresFields DEF BlocksSound
    <3>2. g[1] \in Owned(a)
      BY <1>3, <2>1, <3>1 DEF IsBlock, Corner
    <3>3. ASSUME NEW e \in Owned(a)
          PROVE  e = g[1]
      <4>1. PICK h \in H : h[1] = e
        BY <1>3, <3>3
      <4>2. IsBlock(h) /\ Corner(h) = Corner(g)
        BY <2>1, <3>1, <3>3, <4>1 DEF IsBlock, Corner
      <4> QED BY <1>1, <3>1, <4>1, <4>2 DEF BlocksSound
    <3>4. Owned(a) = {g[1]}
      <4> HIDE DEF Owned
      <4> QED BY <3>2, <3>3
    <3>5. Cardinality(Owned(a)) = 1
      <4> HIDE DEF Owned
      <4> QED BY <3>4, FS_Singleton
    <3> QED BY <2>3, <3>5
  <2> QED BY <2>2, <2>3
<1> QED BY <1>5, <1>6, <1>7 DEF LeavesOwned

LEMMA InvAccounted == AInv => SinglesAccounted
<1> SUFFICES ASSUME AInv, NEW xy \in full \cup DOMAIN singles, BoardsOf(xy) \cap suspect = {}
             PROVE  LET out == {e.board[3] : e \in {e \in Held : e.type = "board"
                                                       /\ TriadOf(e.board) = xy}}
                        spare == IF xy \in full THEN {} ELSE singles[xy]
                    IN  /\ out # {} /\ out \cap spare = {}
                        /\ out \cup spare = Working(xy)
  BY DEF SinglesAccounted
<1> DEFINE Out == {e \in Held : e.type = "board" /\ TriadOf(e.board) = xy}
           out == {e.board[3] : e \in Out}
           spare == IF xy \in full THEN {} ELSE singles[xy]
           H == Held0(0)
<1>1. /\ StoresSound(Stores) /\ HoldingsSound(H) /\ SinglesSound(Stores, H, fault, suspect)
      /\ InUse(Stores, H, suspect, {}) /\ toFree \in Seq(EntryType)
  BY DEF AInv, Sound
<1>2. xy \in SharedBy(Stores) /\ Trusted(suspect, xy) /\ spare = SpareOf(Stores, xy)
  BY StoresFields DEF SharedBy, SpareOf, Trusted
<1>3. xy \in Triad /\ spare \subseteq 0 .. 2
  BY <1>1, <1>2, SpareFacts
<1>4. /\ \A g \in H : g[1] \in Held
      /\ \A e \in Held : \E g \in H : g[1] = e
  BY <1>1, HeldHas
<1> HIDE DEF spare
<1>5. ASSUME NEW e \in Out
      PROVE  e.board[3] \in 0 .. 2 /\ IsOut(H, At(xy, e.board[3]))
  <2>1. PICK g \in H : g[1] = e
    BY <1>4
  <2>2. IsSingle(g) /\ g[1].board \in Board /\ TriadOf(g[1].board) = xy
    BY <1>1, <2>1, EntryFacts DEF IsSingle
  <2>3. g[1].board = At(xy, e.board[3]) /\ e.board[3] \in 0 .. 2
    BY <2>1, <2>2, BoardFacts
  <2> QED BY <2>2, <2>3 DEF IsOut
<1>6. ASSUME NEW z \in 0 .. 2, IsOut(H, At(xy, z))
      PROVE  z \in out
  <2>1. PICK g \in H : IsSingle(g) /\ g[1].board = At(xy, z)
    BY <1>6 DEF IsOut
  <2>2. g[1] \in Out
    BY <1>3, <1>4, <2>1, AtFacts DEF IsSingle
  <2>3. g[1].board[3] = z
    BY <2>1 DEF At
  <2> QED BY <2>2, <2>3
<1>7. \A z : z \in out <=> z \in 0 .. 2 /\ IsOut(H, At(xy, z))
  <2>1. \A z \in out : z \in 0 .. 2 /\ IsOut(H, At(xy, z))
    BY <1>5
  <2> HIDE DEF out
  <2> QED BY <1>6, <2>1
<1> HIDE DEF out
<1>8. out # {}
  BY <1>1, <1>2, <1>7 DEF InUse
<1>9. \A z \in 0 .. 2 :
        /\ z \in Working(xy) <=> z \in spare \/ z \in out
        /\ ~ (z \in spare /\ z \in out)
  <2>1. \A z \in 0 .. 2 :
          /\ At(xy, z) \notin fault.boards <=> z \in spare \/ IsOut(H, At(xy, z))
          /\ ~ (z \in spare /\ IsOut(H, At(xy, z)))
    BY <1>1, <1>2 DEF SinglesSound
  <2> QED BY <1>7, <2>1, WorkingIs DEF WorkingOf
<1>10. Working(xy) \subseteq 0 .. 2
  BY DEF Working
<1>11. out \cap spare = {} /\ out \cup spare = Working(xy)
  BY <1>3, <1>7, <1>9, <1>10
<1> QED BY <1>8, <1>11 DEF out, spare

\* Types hold whatever is asked of the allocator and in whatever order; a triad
\* for single boards is full or has boards to spare, not both
\* (single_board_triads, full_single_board_triads).
THEOREM AllocatorTypes == Spec => []ATypeOK
  BY AllocatorInvariant, InvTypes, PTL

\* On a machine of any size, whatever is allocated and freed in whatever order,
\* the nodes of the PackTree are those of a binary tree without gaps or
\* overlaps, and no space stays cut up with nothing allocated in it
\* (PackTree.hsplit, vsplit, alloc, request, free).
THEOREM AlwaysWellPacked == Spec => []WellPacked
  BY AllocatorInvariant, InvPacked, PTL

\* Every leaf that is allocated belongs to one allocation, or is a triad for
\* single boards, and free finds what it is to free
\* (Allocator.alloc, free, _free_next; PackTree.free).
THEOREM LeavesAlwaysOwned == Spec => []LeavesOwned
  BY AllocatorInvariant, InvOwned, PTL

\* No working board of a triad for single boards is lost or given out twice,
\* and no such triad is kept with none of its boards out, unless its dead boards
\* changed meanwhile (Allocator._alloc_board, _free_next, modify_machine).
THEOREM SinglesAlwaysAccounted == Spec => []SinglesAccounted
  BY AllocatorInvariant, InvAccounted, PTL

-----------------------------------------------------------------------------
(* The allocator implements BoardPool.                                     *)

\* Around a point there is one leaf that is allocated.
LEMMA OneLeaf ==
  ASSUME NEW t, Covers(t), NEW a \in t.allocated, NEW b \in t.allocated,
         NEW xy \in Triad, Contains(a, xy), Contains(b, xy)
  PROVE  a = b
<1>1. /\ a \in t.nodes /\ b \in t.nodes /\ ~ Cut(t.nodes, a) /\ ~ Cut(t.nodes, b)
      /\ a \in Box /\ b \in Box /\ Binary(t.nodes)
  BY CoversFacts, HomeFacts DEF Covers, Packed
<1>2. ~ Apart(a, b)
  BY <1>1, TriadFacts, ContainsApart
<1> QED BY <1>1, <1>2, LeavesApart

\* No board that can be trusted is held twice.
LEMMA HeldOnce ==
  ASSUME NEW s, NEW H, NEW f, NEW u, Sound(s, H, f, u, {}), WholeTriads(u),
         NEW g \in H, NEW h \in H, g # h, NEW b \in g[1].boards, b \in h[1].boards
  PROVE  b \in u
<1> SUFFICES ASSUME b \notin u PROVE FALSE
  OBVIOUS
<1> DEFINE xy == TriadOf(b)
<1>1. /\ StoresSound(s) /\ HoldingsSound(H) /\ BlocksSound(s, H) /\ SinglesSound(s, H, f, u)
      /\ Covers(s.tree)
  BY DEF Sound, StoresSound
<1>2. /\ b \in Board /\ xy \in Triad
  BY <1>1, EntryFacts, BoardFacts
<1>3. Trusted(u, xy)
  <2> SUFFICES ASSUME NEW c \in BoardsOf(xy), c \in u PROVE FALSE
    BY DEF Trusted
  <2>1. TriadOf(c) = xy
    BY <1>2 DEF BoardsOf, TriadOf, Triad
  <2>2. b \in BoardsOf(xy)
    BY <1>2, BoardFacts
  <2> QED BY <2>1, <2>2 DEF WholeTriads
<1> HIDE DEF xy
<1>4. ASSUME NEW e \in H, b \in e[1].boards, IsSingle(e)
      PROVE  /\ e[1].board = b /\ Corner(e) = xy /\ xy \in SharedBy(s)
             /\ Unit(xy) \in s.tree.allocated
             /\ Contains(Unit(xy), xy) /\ Home(Unit(xy)) = xy
  <2>1. e[1].board = b
    BY <1>1, <1>4 DEF HoldingsSound
  <2>2. Corner(e) = xy
    BY <2>1 DEF Corner, xy
  <2>3. xy \in SharedBy(s)
    BY <1>1, <1>3, <1>4, <2>2 DEF SinglesSound
  <2>4. Contains(Unit(xy), xy) /\ Home(Unit(xy)) = xy
    BY <1>2, TriadFacts DEF Unit
  <2> QED BY <1>1, <2>1, <2>2, <2>3, <2>4 DEF BlocksSound
<1>5. ASSUME NEW e \in H, b \in e[1].boards, IsBlock(e)
      PROVE  \E a \in s.tree.allocated :
               Home(a) = Corner(e) /\ Home(a) \notin SharedBy(s) /\ Contains(a, xy)
  BY <1>1, <1>5 DEF BlocksSound, xy
<1>6. ASSUME NEW d \in H, NEW e \in H, b \in d[1].boards, b \in e[1].boards,
             IsSingle(d), IsBlock(e)
      PROVE  FALSE
  <2>1. PICK a \in s.tree.allocated :
          Home(a) = Corner(e) /\ Home(a) \notin SharedBy(s) /\ Contains(a, xy)
    BY <1>5, <1>6
  <2>2. /\ Unit(xy) \in s.tree.allocated /\ Contains(Unit(xy), xy)
        /\ Home(Unit(xy)) = xy /\ xy \in SharedBy(s)
    BY <1>4, <1>6
  <2>3. a = Unit(xy)
    BY <1>1, <1>2, <2>1, <2>2, OneLeaf
  <2> QED BY <2>1, <2>2, <2>3
<1>7. CASE IsBlock(g) /\ IsBlock(h)
  <2>1. PICK a \in s.tree.allocated : Home(a) = Corner(g) /\ Contains(a, xy)
    BY <1>5, <1>7
  <2>2. PICK c \in s.tree.allocated : Home(c) = Corner(h) /\ Contains(c, xy)
    BY <1>5, <1>7
  <2>3. a = c
    BY <1>1, <1>2, <2>1, <2>2, OneLeaf
  <2> QED BY <1>1, <1>7, <2>1, <2>2, <2>3 DEF BlocksSound
<1>8. CASE IsSingle(g) /\ IsSingle(h)
  <2>1. g[1].board = b /\ h[1].board = b /\ Trusted(u, Corner(g))
    BY <1>3, <1>4, <1>8
  <2> QED BY <1>1, <1>8, <2>1 DEF SinglesSound
<1> QED BY <1>1, <1>6, <1>7, <1>8, EntryFacts

-----------------------------------------------------------------------------

\* The boards of each entry of a queue.
BoardsOfEach(Q) == [n \in DOMAIN Q |-> Q[n].boards]

LEMMA Remaining ==
  ASSUME NEW S, NEW Q \in Seq(S), NEW n \in 0 .. Len(Q)
  PROVE  LET R == SubSeq(Q, n + 1, Len(Q))
             k == Len(Q) - n
         IN  /\ k \in Nat /\ R \in Seq(S) /\ Len(R) = k /\ DOMAIN R = 1 .. k
             /\ \A j \in 1 .. k : R[j] = Q[n + j] /\ n + j \in 1 .. Len(Q)
<1> DEFINE R == SubSeq(Q, n + 1, Len(Q))
           k == Len(Q) - n
<1>1. Len(Q) \in Nat /\ k \in Nat
  OBVIOUS
<1>2. R \in Seq(S) /\ Len(R) = k
  BY <1>1
<1>3. \A P \in Seq(S) : DOMAIN P = 1 .. Len(P)
  OBVIOUS
<1>4. \A j \in 1 .. k : R[j] = Q[n + j] /\ n + j \in 1 .. Len(Q)
  BY <1>1
<1>5. DOMAIN R = 1 .. k
  BY <1>2, <1>3
<1> QED BY <1>1, <1>2, <1>4, <1>5

LEMMA Appended ==
  ASSUME NEW S, NEW Q \in Seq(S), NEW e \in S
  PROVE  /\ Append(Q, e) \in Seq(S) /\ Len(Append(Q, e)) = Len(Q) + 1
         /\ DOMAIN Append(Q, e) = 1 .. Len(Q) + 1
<1>1. Append(Q, e) \in Seq(S) /\ Len(Append(Q, e)) = Len(Q) + 1
  OBVIOUS
<1>2. \A R \in Seq(S) : DOMAIN R = 1 .. Len(R)
  OBVIOUS
<1> QED BY <1>1, <1>2

LEMMA QueueFacts ==
  ASSUME NEW Q \in Seq(EntryType)
  PROVE  /\ BoardsOfEach(Q) \in Seq(SUBSET Board) /\ Len(BoardsOfEach(Q)) = Len(Q)
         /\ \A n \in 1 .. Len(Q) : BoardsOfEach(Q)[n] = Q[n].boards
         /\ \A e \in EntryType : BoardsOfEach(Append(Q, e)) = Append(BoardsOfEach(Q), e.boards)
         /\ \A n \in 0 .. Len(Q) :
              BoardsOfEach(SubSeq(Q, n + 1, Len(Q))) = SubSeq(BoardsOfEach(Q), n + 1, Len(BoardsOfEach(Q)))
<1> DEFINE M == BoardsOfEach(Q)
<1>1. /\ Len(Q) \in Nat /\ DOMAIN Q = 1 .. Len(Q)
      /\ \A n \in 1 .. Len(Q) : Q[n] \in EntryType
  OBVIOUS
<1>2. \A e \in EntryType : e.boards \in SUBSET Board
  BY DEF EntryType
<1>3. M = [n \in 1 .. Len(Q) |-> Q[n].boards]
  BY <1>1 DEF BoardsOfEach
<1> HIDE DEF M
<1>4. M \in Seq(SUBSET Board) /\ Len(M) = Len(Q)
  <2>1. M \in [1 .. Len(Q) -> SUBSET Board]
    BY <1>1, <1>2, <1>3
  <2> QED BY <1>1, <2>1
<1>5. \A n \in 1 .. Len(Q) : M[n] = Q[n].boards
  BY <1>3
<1>6. ASSUME NEW e \in EntryType
      PROVE  BoardsOfEach(Append(Q, e)) = Append(M, e.boards)
  <2> DEFINE A == BoardsOfEach(Append(Q, e))
             B == Append(M, e.boards)
  <2>1. /\ Append(Q, e) \in Seq(EntryType) /\ Len(Append(Q, e)) = Len(Q) + 1
        /\ DOMAIN Append(Q, e) = 1 .. Len(Q) + 1
    BY <1>1, <1>6, Appended
  <2>2. A = [n \in 1 .. Len(Q) + 1 |-> Append(Q, e)[n].boards]
    BY <2>1 DEF BoardsOfEach
  <2>3. B \in Seq(SUBSET Board) /\ Len(B) = Len(Q) + 1
    BY <1>2, <1>4
  <2>4. ASSUME NEW n \in 1 .. Len(Q) + 1
        PROVE  Append(Q, e)[n].boards = B[n]
    <3>1. CASE n = Len(Q) + 1
      BY <1>1, <1>4, <3>1
    <3>2. CASE n # Len(Q) + 1
      <4>1. n \in 1 .. Len(Q)
        BY <1>1, <3>2
      <4>2. Append(Q, e)[n] = Q[n] /\ B[n] = M[n]
        BY <1>4, <4>1
      <4> QED BY <1>5, <4>1, <4>2
    <3> QED BY <3>1, <3>2
  <2>5. B = [n \in 1 .. Len(Q) + 1 |-> B[n]]
    <3> HIDE DEF B
    <3> QED BY <2>3
  <2> HIDE DEF A, B
  <2>6. A = B
    BY <2>2, <2>4, <2>5
  <2> QED BY <2>6 DEF A, B
<1>7. ASSUME NEW n \in 0 .. Len(Q)
      PROVE  BoardsOfEach(SubSeq(Q, n + 1, Len(Q))) = SubSeq(M, n + 1, Len(M))
  <2> DEFINE R == SubSeq(Q, n + 1, Len(Q))
             A == BoardsOfEach(R)
             B == SubSeq(M, n + 1, Len(M))
             k == Len(Q) - n
  <2>1. /\ k \in Nat /\ R \in Seq(EntryType) /\ Len(R) = k /\ DOMAIN R = 1 .. k
        /\ \A j \in 1 .. k : R[j] = Q[n + j] /\ n + j \in 1 .. Len(Q)
    BY Remaining
  <2>2. /\ B \in Seq(SUBSET Board) /\ Len(B) = k
        /\ \A j \in 1 .. k : B[j] = M[n + j]
    <3>1. n \in 0 .. Len(M) /\ k = Len(M) - n
      BY <1>4
    <3> HIDE DEF k
    <3> QED BY <1>4, <3>1, Remaining
  <2> HIDE DEF R, B, k
  <2>3. A = [j \in 1 .. k |-> R[j].boards]
    BY <2>1 DEF BoardsOfEach
  <2>4. B = [j \in 1 .. k |-> B[j]]
    BY <2>2
  <2>5. \A j \in 1 .. k : R[j].boards = B[j]
    BY <1>5, <2>1, <2>2
  <2> HIDE DEF A
  <2>6. A = B
    BY <2>3, <2>4, <2>5
  <2> QED BY <2>6 DEF A, B, R
<1> QED BY <1>4, <1>5, <1>6, <1>7 DEF M

\* The variables of BoardPool.
LentBoards == [i \in DOMAIN live |-> live[i].boards]
Cooling == BoardsOfEach(toFree)

LEMMA LentFacts ==
  ASSUME AInv
  PROVE  /\ DOMAIN LentBoards = DOMAIN live
         /\ \A i \in DOMAIN live : LentBoards[i] = live[i].boards /\ live[i].boards \in SUBSET Board
<1>1. \A e \in EntryType : e.boards \in SUBSET Board
  BY DEF EntryType
<1> QED BY <1>1 DEF AInv, LentBoards

LEMMA PoolCollected ==
  ASSUME AInv, NEW n \in 0 .. ripe, Popped(n)
  PROVE  Cooling' = SubSeq(Cooling, n + 1, Len(Cooling)) /\ ripe' = ripe - n
<1>1. toFree \in Seq(EntryType) /\ n \in 0 .. Len(toFree)
  BY PoppedFacts DEF AInv
<1> QED BY <1>1, QueueFacts DEF Popped, Cooling

\* What is lent was not lent, nor is it being left alone.
LEMMA LentApart ==
  ASSUME AInv, NEW i \in Id \ DOMAIN live, NEW p, Granted(p, Held0(ripe), i)
  PROVE  /\ \A k \in DOMAIN live : (p.boards \ suspect) \cap live[k].boards = {}
         /\ \A n \in ripe + 1 .. Len(toFree) : (p.boards \ suspect) \cap toFree[n].boards = {}
<1> DEFINE g == LentAs(p, i)
           H == Held0(ripe)
           K == H \cup {g}
<1>1. Sound(p.stores, K, fault, suspect, {}) /\ WholeTriads(suspect) /\ g \in K
  BY DEF Granted, AInv
<1>2. g[1].boards = p.boards
  BY DEF LentAs, Lent
<1>3. g \notin H
  BY LentHeld DEF LentAs, Held0
<1>4. ASSUME NEW h \in H
      PROVE  (p.boards \ suspect) \cap h[1].boards = {}
  <2>1. h \in K /\ h # g
    BY <1>3
  <2> HIDE DEF K, g
  <2>2. \A b \in g[1].boards : b \in h[1].boards => b \in suspect
    BY <1>1, <2>1, HeldOnce
  <2> QED BY <1>2, <2>2
<1>5. ASSUME NEW k \in DOMAIN live
      PROVE  (p.boards \ suspect) \cap live[k].boards = {}
  <2>1. <<live[k], "live", k>> \in H /\ <<live[k], "live", k>>[1] = live[k]
    BY DEF Held0, Holdings
  <2> QED BY <1>4, <2>1
<1>6. ASSUME NEW n \in ripe + 1 .. Len(toFree)
      PROVE  (p.boards \ suspect) \cap toFree[n].boards = {}
  <2>1. <<toFree[n], "cooling", n>> \in H /\ <<toFree[n], "cooling", n>>[1] = toFree[n]
    BY DEF Held0, Holdings
  <2> QED BY <1>4, <2>1
<1> QED BY <1>5, <1>6

\* An alloc hands out boards as BoardPool does.
LEMMA TakeImplements ==
  ASSUME AInv, NEW i \in Id, NEW r \in Request, Alloc(i, r)
  PROVE  Pool!Take(i)
<1>1. /\ i \in Id \ DOMAIN live /\ Smooth(ripe) /\ Popped(ripe)
      /\ fault' = fault /\ suspect' = suspect
  BY DEF Alloc
<1>2. PICK p \in Grants(After[ripe], r) :
        live' = Put(live, i, [type |-> p.type, board |-> p.board, boards |-> p.boards])
  BY DEF Alloc
<1>3. Granted(p, Held0(ripe), i)
  BY <1>1, AllocGranted
<1>4. /\ p.boards # {} /\ p.boards \subseteq Board
      /\ (p.boards \ suspect) \cap fault.boards = {}
  <2>1. Lent(p) \in EntryType /\ Lent(p).boards = p.boards
    BY <1>3 DEF Granted, Lent
  <2>2. \A e \in EntryType : e.boards \subseteq Board
    BY DEF EntryType
  <2> QED BY <1>3, <2>1, <2>2 DEF Granted
<1>5. /\ DOMAIN live' = DOMAIN live \cup {i} /\ live'[i].boards = p.boards
      /\ \A k \in DOMAIN live : live'[k] = live[k]
  BY <1>1, <1>2 DEF Put
<1>6. /\ LentBoards' \in [DOMAIN LentBoards \cup {i} -> SUBSET Board]
      /\ \A k \in DOMAIN LentBoards : LentBoards'[k] = LentBoards[k]
      /\ LentBoards'[i] = p.boards
  <2>1. LentBoards' = [k \in DOMAIN live' |-> live'[k].boards]
    BY DEF LentBoards
  <2>2. \A k \in DOMAIN live \cup {i} : LentBoards'[k] = live'[k].boards
    BY <1>5, <2>1
  <2>3. \A k \in DOMAIN live : LentBoards[k] = live[k].boards /\ live[k].boards \in SUBSET Board
    BY LentFacts
  <2>4. DOMAIN LentBoards = DOMAIN live
    BY LentFacts
  <2>5. \A k \in DOMAIN live \cup {i} : live'[k].boards \in SUBSET Board
    BY <1>4, <1>5, <2>3
  <2>6. LentBoards' \in [DOMAIN live \cup {i} -> SUBSET Board]
    BY <1>5, <2>1, <2>5
  <2> QED BY <1>5, <2>2, <2>3, <2>4, <2>6
<1>7. \A k \in DOMAIN LentBoards : (p.boards \ suspect) \cap LentBoards[k] = {}
  BY <1>1, <1>3, LentApart, LentFacts
<1>8. \A n \in ripe + 1 .. Len(Cooling) : (p.boards \ suspect) \cap Cooling[n] = {}
  <2>1. toFree \in Seq(EntryType) /\ ripe \in 0 .. Len(toFree)
    BY DEF AInv
  <2>2. /\ Len(Cooling) = Len(toFree)
        /\ \A n \in 1 .. Len(toFree) : Cooling[n] = toFree[n].boards
    BY <2>1, QueueFacts DEF Cooling
  <2>3. \A n \in ripe + 1 .. Len(toFree) : n \in 1 .. Len(toFree)
    BY <2>1
  <2> QED BY <1>1, <1>3, <2>2, <2>3, LentApart
<1>9. Cooling' = SubSeq(Cooling, ripe + 1, Len(Cooling)) /\ ripe' = ripe - ripe
  <2>1. ripe \in 0 .. ripe
    BY DEF AInv
  <2> QED BY <1>1, <2>1, PoolCollected
<1>10. i \in Id \ DOMAIN LentBoards
  BY <1>1, LentFacts
<1>11. fault.boards' = fault.boards
  BY <1>1
<1> QED BY <1>1, <1>4, <1>6, <1>7, <1>8, <1>9, <1>10, <1>11, Zenon
        DEF Pool!Take, Pool!Entrusted, Pool!Collected, LentBoards, Cooling, BoardsOfEach

\* A free gives them back.
LEMMA ReturnImplements ==
  ASSUME AInv, NEW i \in Id, Free(i)
  PROVE  Pool!Return(i)
<1>1. /\ i \in DOMAIN live /\ toFree' = Append(toFree, live[i]) /\ live' = Drop(live, i)
      /\ ripe' = ripe /\ fault' = fault /\ suspect' = suspect
  BY DEF Free
<1>2. toFree \in Seq(EntryType) /\ live[i] \in EntryType
  BY <1>1 DEF AInv
<1>3. Cooling' = Append(Cooling, live[i].boards)
  BY <1>1, <1>2, QueueFacts DEF Cooling
<1>4. LentBoards' = [k \in DOMAIN LentBoards \ {i} |-> LentBoards[k]]
  <2>1. DOMAIN live' = DOMAIN live \ {i} /\ \A k \in DOMAIN live \ {i} : live'[k] = live[k]
    BY <1>1 DEF Drop
  <2>2. DOMAIN LentBoards = DOMAIN live /\ \A k \in DOMAIN live : LentBoards[k] = live[k].boards
    BY LentFacts
  <2>3. LentBoards' = [k \in DOMAIN live' |-> live'[k].boards]
    BY DEF LentBoards
  <2> HIDE DEF LentBoards
  <2> QED BY <2>1, <2>2, <2>3
<1>5. i \in DOMAIN LentBoards /\ LentBoards[i] = live[i].boards
  BY <1>1, LentFacts
<1>6. Cooling' = Append(Cooling, LentBoards[i])
  BY <1>3, <1>5
<1>7. fault.boards' = fault.boards
  BY <1>1
<1> QED BY <1>1, <1>4, <1>5, <1>6, <1>7, Zenon
        DEF Pool!Return, LentBoards, Cooling, BoardsOfEach

\* A check_free collects some, whether it raises an exception or not.
LEMMA CollectImplements ==
  ASSUME AInv, NEW n \in 1 .. ripe, Popped(n), UNCHANGED <<live, fault, suspect>>
  PROVE  Pool!Collect(n)
<1>1. Cooling' = SubSeq(Cooling, n + 1, Len(Cooling)) /\ ripe' = ripe - n
  <2>1. n \in 0 .. ripe
    BY DEF AInv
  <2> QED BY <2>1, PoolCollected
<1>2. LentBoards' = LentBoards /\ fault.boards' = fault.boards
  BY DEF LentBoards
<1> QED BY <1>1, <1>2, Zenon
        DEF Pool!Collect, Pool!Collected, LentBoards, Cooling, BoardsOfEach

LEMMA StepImplements ==
  ASSUME AInv, AInv', [Next]_vars
  PROVE  [Pool!Next]_(Pool!vars)
<1>1. ASSUME NEW i \in Id, NEW r \in Request, Alloc(i, r) PROVE Pool!Next
  BY <1>1, TakeImplements DEF Pool!Next
<1>2. ASSUME NEW i \in Id, Free(i) PROVE Pool!Next
  BY <1>2, ReturnImplements DEF Pool!Next
<1>3. ASSUME CheckFree PROVE Pool!Next
  <2>1. ripe \in 1 .. ripe
    BY <1>3 DEF AInv, CheckFree
  <2> QED BY <1>3, <2>1, CollectImplements DEF CheckFree, Pool!Next
<1>4. ASSUME NEW n \in 1 .. MaxCooling, CheckFreeRaises(n) PROVE Pool!Next
  <2>1. n \in 1 .. ripe
    BY <1>4 DEF CheckFreeRaises
  <2> QED BY <1>4, <2>1, CollectImplements DEF CheckFreeRaises, Pool!Next
<1>5. ASSUME TimePasses PROVE Pool!Ripen
  <2>1. Len(Cooling) = Len(toFree)
    BY QueueFacts DEF AInv, Cooling
  <2>2. ripe < Len(Cooling) /\ ripe' = ripe + 1
    BY <1>5, <2>1 DEF TimePasses
  <2>3. LentBoards' = LentBoards /\ Cooling' = Cooling /\ fault.boards' = fault.boards
        /\ suspect' = suspect
    BY <1>5 DEF TimePasses, LentBoards, Cooling
  <2> QED BY <2>2, <2>3, Zenon DEF Pool!Ripen, LentBoards, Cooling, BoardsOfEach
<1>6. ASSUME NEW f \in Fault, ModifyMachine(f) PROVE Pool!Change
  <2>1. /\ fault.boards' \in SUBSET Board
        /\ suspect' \in SUBSET Board /\ suspect \subseteq suspect'
    BY <1>6, AllocatorAssumption DEF ModifyMachine, AInv
  <2>2. LentBoards' = LentBoards /\ Cooling' = Cooling /\ ripe' = ripe
    BY <1>6 DEF ModifyMachine, LentBoards, Cooling
  <2> QED BY <2>1, <2>2, Zenon DEF Pool!Change, LentBoards, Cooling, BoardsOfEach
<1>7. ASSUME UNCHANGED vars PROVE UNCHANGED Pool!vars
  BY <1>7 DEF vars, Pool!vars
<1> QED BY <1>1, <1>2, <1>3, <1>4, <1>5, <1>6, <1>7 DEF Next, Pool!Next

\* For a machine of any size and whatever is asked of it, boards are handed out
\* and given back as BoardPool says (Allocator.alloc, free, check_free).
THEOREM AllocatorImplementsPool == Spec => ImplementsPool
<1>1. Init => Pool!Init
  <2> SUFFICES ASSUME Init PROVE Pool!Init
    OBVIOUS
  <2>1. /\ live = [i \in {} |-> {}] /\ toFree = <<>> /\ ripe = 0
        /\ fault \in Fault /\ suspect = {}
    BY DEF Init
  <2>2. LentBoards = [i \in {} |-> {}]
    BY <2>1 DEF LentBoards
  <2>3. Cooling = <<>>
    BY <2>1 DEF Cooling, BoardsOfEach
  <2>4. fault.boards \subseteq Board
    BY <2>1, AllocatorAssumption
  <2> QED BY <2>1, <2>2, <2>3, <2>4, Zenon DEF Pool!Init, LentBoards, Cooling, BoardsOfEach
<1>2. AInv /\ AInv' /\ [Next]_vars => [Pool!Next]_(Pool!vars)
  BY StepImplements
<1> QED BY <1>1, <1>2, AllocatorInvariant, PTL DEF Spec, ImplementsPool, Pool!Spec

\* So two allocations never have one board in working order, nor does one have a
\* board that is to be freed (Allocator.alloc, free).
THEOREM AllocationsApart == Spec => []Pool!Exclusive
<1>1. ASSUME AInv PROVE Pool!Exclusive
  <2> DEFINE H == Held0(0)
  <2>1. Sound(Stores, H, fault, suspect, {}) /\ WholeTriads(suspect)
    BY <1>1 DEF AInv
  <2>2. toFree \in Seq(EntryType)
    BY <1>1 DEF AInv
  <2>3. \A i \in DOMAIN live : <<live[i], "live", i>> \in H /\ LentBoards[i] = live[i].boards
    BY <1>1, LentFacts DEF Held0, Holdings
  <2>4. \A n \in 1 .. Len(toFree) : <<toFree[n], "cooling", n>> \in H
    BY DEF Held0, Holdings
  <2>5. /\ Len(Cooling) = Len(toFree)
        /\ \A n \in 1 .. Len(toFree) : Cooling[n] = toFree[n].boards
    BY <2>2, QueueFacts DEF Cooling
  <2> HIDE DEF H
  <2>6. ASSUME NEW g \in H, NEW h \in H, g # h
        PROVE  (g[1].boards \ suspect) \cap h[1].boards = {}
    <3>1. \A b \in g[1].boards : b \in h[1].boards => b \in suspect
      BY <2>1, <2>6, HeldOnce
    <3> QED BY <3>1
  <2>7. DOMAIN LentBoards = DOMAIN live
    BY <1>1, LentFacts
  <2>8. ASSUME NEW i \in DOMAIN live, NEW k \in DOMAIN live, i # k
        PROVE  (LentBoards[i] \ suspect) \cap LentBoards[k] = {}
    <3> DEFINE g == <<live[i], "live", i>>
               h == <<live[k], "live", k>>
    <3>1. g # h /\ g \in H /\ h \in H /\ g[1] = live[i] /\ h[1] = live[k]
      BY <2>3, <2>8
    <3> HIDE DEF g, h
    <3>2. LentBoards[i] = g[1].boards /\ LentBoards[k] = h[1].boards
      BY <2>3, <3>1
    <3>3. (g[1].boards \ suspect) \cap h[1].boards = {}
      BY <2>6, <3>1
    <3> QED BY <3>2, <3>3, Zenon
  <2>9. ASSUME NEW i \in DOMAIN live, NEW n \in 1 .. Len(toFree)
        PROVE  (LentBoards[i] \ suspect) \cap Cooling[n] = {}
    <3> DEFINE g == <<live[i], "live", i>>
               h == <<toFree[n], "cooling", n>>
    <3>1. g # h /\ g \in H /\ h \in H /\ g[1] = live[i] /\ h[1] = toFree[n]
      BY <2>3, <2>4
    <3> HIDE DEF g, h
    <3>2. LentBoards[i] = g[1].boards /\ Cooling[n] = h[1].boards
      BY <2>3, <2>5, <3>1
    <3>3. (g[1].boards \ suspect) \cap h[1].boards = {}
      BY <2>6, <3>1
    <3> QED BY <3>2, <3>3, Zenon
  <2> QED BY <2>5, <2>7, <2>8, <2>9, Zenon
          DEF Pool!Exclusive, Pool!Entrusted, LentBoards, Cooling, BoardsOfEach
<1> QED BY <1>1, AllocatorInvariant, PTL

-----------------------------------------------------------------------------
(* area_to_rect.py                                                         *)

Positive == Nat \ {0}
Ratio == Nat \X Positive

LEMMA CeilDivFacts ==
  ASSUME NEW a \in Positive, NEW b \in Positive
  PROVE  /\ CeilDiv(a, b) \in Positive
         /\ CeilDiv(a, b) * b >= a
         /\ \A n \in Nat : a <= n * b => CeilDiv(a, b) <= n
<1> DEFINE q == CeilDiv(a, b)
           c == a + b - 1
<1>1. a \in Int /\ b \in Int /\ 1 <= a /\ 1 <= b /\ c \in Int /\ c >= b /\ c >= 0
  BY DEF Positive
<1>2. q = c \div b
  BY DEF CeilDiv
<1> HIDE DEF q, c
<1>3. q \in Int /\ q * b <= c /\ c < q * b + b
  BY <1>1, <1>2
<1>4. q * b >= a
  BY <1>1, <1>3 DEF c
<1>5. q >= 1
  <2> SUFFICES ASSUME q <= 0 PROVE FALSE
    BY <1>3
  <2>1. q * b <= 0 /\ q * b \in Int
    BY <1>1, <1>3
  <2>2. q * b >= 1
    BY <1>1, <1>4, <2>1
  <2> QED BY <2>1, <2>2
<1>6. ASSUME NEW n \in Nat, a <= n * b
      PROVE  q <= n
  <2> SUFFICES ASSUME q >= n + 1 PROVE FALSE
    BY <1>3
  <2>1. q * b >= (n + 1) * b
    BY <1>1, <1>3
  <2>2. (n + 1) * b = n * b + b /\ n * b \in Int
    BY <1>1
  <2> QED BY <1>1, <1>3, <1>6, <2>1, <2>2 DEF c
<1>7. q \in Positive
  BY <1>3, <1>5 DEF Positive
<1> QED BY <1>4, <1>6, <1>7 DEF q

LEMMA DivFacts ==
  ASSUME NEW a \in Positive, NEW b \in Positive, a % b = 0
  PROVE  a \div b \in Positive /\ (a \div b) * b = a
<1>1. a \in Int /\ b \in Int /\ 1 <= a /\ 1 <= b
  BY DEF Positive
<1>2. a \div b \in Int /\ (a \div b) * b = a
  BY <1>1
<1>3. a \div b >= 1
  <2> DEFINE q == a \div b
  <2> HIDE DEF q
  <2> SUFFICES ASSUME q <= 0 PROVE FALSE
    BY <1>2 DEF q
  <2>1. q \in Int /\ q * b = a
    BY <1>2 DEF q
  <2>2. q * b <= 0
    BY <1>1, <2>1
  <2> QED BY <1>1, <2>1, <2>2
<1> QED BY <1>2, <1>3 DEF Positive

\* squarest_rectangle
LEMMA SquarestFacts ==
  ASSUME NEW area \in Positive
  PROVE  \E w \in Positive, h \in Positive :
           squarest_rectangle(area) = <<w, h>> /\ w * h >= area
<1> DEFINE Sides == {h \in 1 .. area : h * h <= area /\ area % h = 0}
           T == {area - h : h \in Sides}
<1>1. area \in Int /\ 1 <= area
  BY DEF Positive
<1>2. 1 \in Sides
  <2>1. 1 \in 1 .. area /\ 1 * 1 <= area /\ area % 1 = 0
    BY <1>1
  <2> QED BY <2>1
<1>3. T \subseteq Nat /\ T # {}
  BY <1>1, <1>2
<1> HIDE DEF T
<1>4. PICK n \in T : \A k \in T : n <= k
  BY <1>3, LeastNat
<1>5. PICK h \in Sides : n = area - h
  BY <1>4 DEF T
<1>6. \A g \in h + 1 .. area : g * g <= area => area % g # 0
  <2> SUFFICES ASSUME NEW g \in h + 1 .. area, g * g <= area, area % g = 0 PROVE FALSE
    OBVIOUS
  <2>1. g \in 1 .. area
    BY <1>5
  <2>2. g \in Sides
    BY <2>1
  <2>3. area - g \in T
    BY <2>2 DEF T
  <2> QED BY <1>1, <1>4, <1>5, <2>1, <2>3
<1> DEFINE Best(g) == /\ g * g <= area /\ area % g = 0
                      /\ \A k \in g + 1 .. area : k * k <= area => area % k # 0
           s == CHOOSE g \in 1 .. area : Best(g)
<1>7. s \in 1 .. area /\ Best(s)
  <2>1. h \in 1 .. area /\ Best(h)
    BY <1>5, <1>6
  <2> HIDE DEF Best
  <2> QED BY <2>1
<1>8. squarest_rectangle(area) = <<area \div s, s>>
  BY DEF squarest_rectangle
<1> HIDE DEF s
<1>9. s \in Positive /\ area % s = 0
  BY <1>1, <1>7 DEF Positive
<1> DEFINE w == area \div s
<1>10. w \in Positive /\ w * s = area
  BY <1>9, DivFacts
<1>11. squarest_rectangle(area) = <<w, s>>
  BY <1>8
<1> HIDE DEF w
<1>12. w * s >= area
  BY <1>1, <1>10
<1> QED BY <1>9, <1>10, <1>11, <1>12

\* rectangle_with_aspect_ratio
LEMMA AspectFacts ==
  ASSUME NEW area \in Positive, NEW p \in Positive, NEW q \in Positive, p <= q
  PROVE  \E w \in Positive, h \in Positive :
           rectangle_with_aspect_ratio(area, <<p, q>>) = <<w, h>> /\ w * h >= area
<1> DEFINE T == {h \in 1 .. area : h * h * q >= area * p}
<1>1. area \in Int /\ 1 <= area /\ p \in Int /\ 1 <= p /\ q \in Int
  BY DEF Positive
<1>2. area \in T
  <2>1. area * area >= area
    BY <1>1
  <2>2. area * area \in Int /\ area * area * q >= area * q
    BY <1>1, <2>1
  <2>3. area * q >= area * p
    BY <1>1
  <2>4. area * area * q \in Int /\ area * q \in Int /\ area * p \in Int
    BY <1>1, <2>2
  <2> QED BY <1>1, <2>2, <2>3, <2>4
<1>3. T \subseteq Nat /\ T # {}
  BY <1>1, <1>2
<1> HIDE DEF T
<1>4. PICK h \in T : \A k \in T : h <= k
  BY <1>3, LeastNat
<1>5. h \in 1 .. area /\ h * h * q >= area * p
  BY <1>4 DEF T
<1>6. (h - 1) * (h - 1) * q < area * p
  <2>1. CASE h = 1
    <3>1. area * p >= 1
      BY <1>1
    <3>2. (h - 1) * (h - 1) * q = 0
      BY <1>1, <2>1
    <3> QED BY <1>1, <3>1, <3>2
  <2>2. CASE h # 1
    <3>0. h \in Int /\ 1 <= h /\ h <= area
      BY <1>1, <1>5
    <3>1. h - 1 \in 1 .. area /\ h - 1 < h
      BY <1>1, <2>2, <3>0
    <3>2. h - 1 \notin T
      BY <1>4, <1>5, <3>1
    <3>3. ~ ((h - 1) * (h - 1) * q >= area * p)
      BY <3>1, <3>2 DEF T
    <3>4. (h - 1) * (h - 1) \in Int /\ area * p \in Int
      BY <1>1, <3>1
    <3>5. (h - 1) * (h - 1) * q \in Int
      BY <1>1, <3>4
    <3> QED BY <3>3, <3>4, <3>5
  <2> QED BY <2>1, <2>2
<1> DEFINE Best(g) == g * g * q >= area * p /\ (g - 1) * (g - 1) * q < area * p
           s == CHOOSE g \in 1 .. area : Best(g)
           w == CeilDiv(area, s)
           v == IF w < s THEN s ELSE w
<1>7. s \in 1 .. area /\ Best(s)
  <2>1. h \in 1 .. area /\ Best(h)
    BY <1>5, <1>6
  <2> HIDE DEF Best
  <2> QED BY <2>1
<1>8. rectangle_with_aspect_ratio(area, <<p, q>>) = <<v, s>>
  BY DEF rectangle_with_aspect_ratio
<1> HIDE DEF s
<1>9. s \in Positive
  BY <1>1, <1>7 DEF Positive
<1>10. w \in Positive /\ w * s >= area
  BY <1>9, CeilDivFacts
<1> HIDE DEF w
<1>11. v \in Positive /\ v * s >= area
  <2>1. CASE w < s
    <3>1. s * s >= w * s
      BY <1>9, <1>10, <2>1 DEF Positive
    <3>2. w * s \in Int /\ s * s \in Int
      BY <1>9, <1>10 DEF Positive
    <3> QED BY <1>1, <1>9, <1>10, <2>1, <3>1, <3>2
  <2>2. CASE ~ (w < s)
    BY <1>10, <2>2
  <2> QED BY <2>1, <2>2
<1> QED BY <1>8, <1>9, <1>11

\* A ratio is turned so that it is at most one.
LEMMA LandscapeFacts ==
  ASSUME NEW ratio \in Ratio
  PROVE  \E p \in Nat, q \in Positive : Landscape(ratio) = <<p, q>> /\ p <= q
<1>1. PICK p \in Nat, q \in Positive : ratio = <<p, q>>
  BY DEF Ratio
<1>2. CASE p > q
  <2>1. Landscape(ratio) = <<q, p>> /\ q \in Nat /\ p \in Positive /\ q <= p
    BY <1>1, <1>2 DEF Landscape, Positive
  <2> QED BY <2>1
<1>3. CASE ~ (p > q)
  <2>1. Landscape(ratio) = <<p, q>> /\ p <= q
    BY <1>1, <1>3 DEF Landscape, Positive
  <2> QED BY <2>1
<1> QED BY <1>2, <1>3

\* It is squished into the bounds.
LEMMA SquishedFacts ==
  ASSUME NEW area \in Positive, NEW bw \in Positive, NEW bh \in Positive, area <= bw * bh,
         NEW w \in Positive, NEW h \in Positive, NEW ratio,
         Squished(area, w, h, bw, bh, ratio) # None
  PROVE  \E u \in 1 .. bw, v \in 1 .. bh :
           Squished(area, w, h, bw, bh, ratio) = <<u, v>> /\ u * v >= area
<1>1. /\ bw \in 1 .. bw /\ bh \in 1 .. bh /\ bw * bh = bh * bw
      /\ area \in Int /\ bw \in Int /\ bh \in Int
  BY DEF Positive
<1>2. CASE w > bw
  <2> DEFINE v == CeilDiv(area, bw)
  <2>1. v \in Positive /\ v * bw >= area /\ v <= bh
    <3>1. bh \in Nat /\ area <= bh * bw
      BY <1>1 DEF Positive
    <3> QED BY <3>1, CeilDivFacts
  <2>2. Squished(area, w, h, bw, bh, ratio) = <<bw, v>>
    BY <1>2 DEF Squished
  <2> HIDE DEF v
  <2>3. v \in 1 .. bh /\ bw * v >= area
    BY <1>1, <2>1 DEF Positive
  <2> QED BY <1>1, <2>2, <2>3
<1>3. CASE ~ (w > bw)
  <2> DEFINE v == CeilDiv(area, bh)
  <2>1. v \in Positive /\ v * bh >= area /\ v <= bw
    <3>1. bw \in Nat
      BY DEF Positive
    <3> QED BY <3>1, CeilDivFacts
  <2>2. Squished(area, w, h, bw, bh, ratio) = <<v, bh>>
    BY <1>3 DEF Squished
  <2> HIDE DEF v
  <2>3. v \in 1 .. bw
    BY <1>1, <2>1 DEF Positive
  <2> QED BY <1>1, <2>1, <2>2, <2>3
<1> QED BY <1>2, <1>3

\* The rectangle chosen for an area is large enough, and lies within the bounds
\* (area_to_rect).
THEOREM RectIsLargeEnough ==
  ASSUME NEW area \in Nat \ {0}, NEW bw \in Nat \ {0}, NEW bh \in Nat \ {0},
         NEW ratio \in Nat \X (Nat \ {0}), area_to_rect(area, bw, bh, ratio) # None
  PROVE  \E w \in 1 .. bw, h \in 1 .. bh :
           area_to_rect(area, bw, bh, ratio) = <<w, h>> /\ w * h >= area
<1> DEFINE R == Landscape(ratio)
           ideal == squarest_rectangle(area)
           wide == IF Square(ideal[1], ideal[2], R)
                     THEN ideal ELSE rectangle_with_aspect_ratio(area, R)
           turn == bw > bh /\ wide[1] > wide[2]
           w == IF turn THEN wide[2] ELSE wide[1]
           h == IF turn THEN wide[1] ELSE wide[2]
           A == area_to_rect(area, bw, bh, ratio)
<1>1. area \in Positive /\ bw \in Positive /\ bh \in Positive /\ ratio \in Ratio
  BY DEF Positive, Ratio
<1>2. /\ A = CASE area > bw * bh -> None
               [] area <= bw * bh /\ w <= bw /\ h <= bh -> <<w, h>>
               [] OTHER -> Squished(area, w, h, bw, bh, R)
  BY DEF area_to_rect
<1>3. PICK p \in Nat, q \in Positive : R = <<p, q>> /\ p <= q
  BY <1>1, LandscapeFacts
<1>4. PICK iw \in Positive, ih \in Positive : ideal = <<iw, ih>> /\ iw * ih >= area
  BY <1>1, SquarestFacts
<1> HIDE DEF R, ideal
<1>5. \E ww \in Positive, wh \in Positive : wide = <<ww, wh>> /\ ww * wh >= area
  <2>1. CASE Square(iw, ih, R)
    BY <1>4, <2>1
  <2>2. CASE ~ Square(iw, ih, R)
    <3>1. p \in Positive
      <4> SUFFICES ASSUME p = 0 PROVE FALSE
        BY <1>3 DEF Positive
      <4> DEFINE short == IF iw < ih THEN iw ELSE ih
      <4>1. short \in Nat /\ short \in Int /\ iw + ih - short \in Int
        BY <1>4 DEF Positive
      <4>2. Square(iw, ih, R) <=> short * q >= (iw + ih - short) * p
        BY <1>3 DEF Square
      <4> HIDE DEF short
      <4>3. (iw + ih - short) * p = 0 /\ short * q >= 0
        BY <1>3, <4>1 DEF Positive
      <4> QED BY <2>2, <4>2, <4>3
    <3>2. wide = rectangle_with_aspect_ratio(area, <<p, q>>)
      BY <1>3, <1>4, <2>2
    <3> HIDE DEF wide
    <3> QED BY <1>1, <1>3, <3>1, <3>2, AspectFacts
  <2> QED BY <2>1, <2>2
<1> HIDE DEF wide
<1>6. PICK ww \in Positive, wh \in Positive : wide = <<ww, wh>> /\ ww * wh >= area
  BY <1>5
<1>7. w \in Positive /\ h \in Positive /\ w * h >= area
  <2>1. ww * wh = wh * ww
    BY DEF Positive
  <2> QED BY <1>6, <2>1
<1> HIDE DEF w, h
<1>8. area <= bw * bh
  <2>1. bw * bh \in Int
    OBVIOUS
  <2>2. ~ (area > bw * bh)
    BY <1>2 DEF A
  <2> QED BY <2>1, <2>2
<1>9. CASE w <= bw /\ h <= bh
  <2>1. A = <<w, h>>
    BY <1>2, <1>8, <1>9
  <2>2. w \in 1 .. bw /\ h \in 1 .. bh
    BY <1>7, <1>9 DEF Positive
  <2> QED BY <1>7, <2>1, <2>2
<1>10. CASE ~ (w <= bw /\ h <= bh)
  <2>1. ~ (area > bw * bh)
    BY <1>8
  <2>2. A = Squished(area, w, h, bw, bh, R)
    BY <1>2, <1>10, <2>1
  <2>3. Squished(area, w, h, bw, bh, R) # None
    BY <2>2
  <2>4. PICK u \in 1 .. bw, v \in 1 .. bh :
          Squished(area, w, h, bw, bh, R) = <<u, v>> /\ u * v >= area
    BY <1>1, <1>7, <1>8, <2>3, SquishedFacts
  <2> QED BY <2>2, <2>4
<1> QED BY <1>9, <1>10

-----------------------------------------------------------------------------
(* The machine when everything has been given back.                        *)

\* The machine is one free space.
Whole(s) ==
  /\ s.tree.nodes = {Root} /\ s.tree.allocated = {}
  /\ DOMAIN s.singles = {} /\ s.full = {}

LEMMA NothingHeld ==
  ASSUME NEW s, NEW f, Sound(s, {}, f, {}, {})
  PROVE  Whole(s)
<1>1. SharedBy(s) = {}
  <2> SUFFICES ASSUME NEW xy \in SharedBy(s) PROVE FALSE
    OBVIOUS
  <2>1. Trusted({}, xy)
    BY DEF Trusted
  <2> QED BY <2>1 DEF Sound, InUse, IsOut
<1>2. s.tree.allocated = {}
  BY <1>1 DEF Sound, BlocksSound
<1>3. Covers(s.tree)
  BY DEF Sound, StoresSound
<1>4. \A r \in s.tree.nodes : ~ Cut(s.tree.nodes, r)
  BY <1>2, <1>3 DEF Covers, Packed
<1>5. Root \in s.tree.nodes /\ \A r \in s.tree.nodes : Within(r, Root)
  BY <1>3, CoversFacts DEF Covers
<1>6. s.tree.nodes = {Root}
  BY <1>4, <1>5 DEF Cut
<1> QED BY <1>1, <1>2, <1>6 DEF Whole, SharedBy

LEMMA IdleIsWhole ==
  ASSUME AInv, live = <<>>, toFree = <<>>, suspect = {}
  PROVE  Whole(Stores)
<1>1. DOMAIN live = {} /\ Len(toFree) = 0
  OBVIOUS
<1>2. Held0(0) = {}
  <2>1. 0 + 1 .. Len(toFree) = {}
    BY <1>1
  <2> QED BY <1>1, <2>1 DEF Held0, Holdings
<1>3. Sound(Stores, {}, fault, {}, {})
  BY <1>2 DEF AInv
<1> QED BY <1>3, NothingHeld

\* A rectangle of w x h triads is accepted in a corner of the machine.
AtACorner(w, h, ok) ==
  \E x \in {0, Width - w}, y \in {0, Height - h} : Rect(x, y, w, h) \in ok

LEMMA AcceptableCorner ==
  ASSUME NEW w \in Int, NEW h \in Int, NEW ok
  PROVE  Acceptable(Root, w, h, ok) # {} <=> AtACorner(w, h, ok)
<1> DEFINE C == Corners(Root, w, h)
           R(i) == Rect(C[i][1], C[i][2], w, h)
<1>1. Acceptable(Root, w, h, ok) = {i \in 1 .. 4 : R(i) \in ok}
  BY DEF Acceptable
<1>2. /\ Root.x = 0 /\ Root.y = 0
      /\ Root.x + Root.w - w = Width - w /\ Root.y + Root.h - h = Height - h
  BY RootFacts, SizeAssumption
<1>3. C = << <<0, 0>>, <<0, Height - h>>, <<Width - w, 0>>, <<Width - w, Height - h>> >>
  BY <1>2 DEF Corners
<1>4. /\ R(1) = Rect(0, 0, w, h) /\ R(2) = Rect(0, Height - h, w, h)
      /\ R(3) = Rect(Width - w, 0, w, h) /\ R(4) = Rect(Width - w, Height - h, w, h)
  BY <1>3
<1> HIDE DEF R
<1>5. 1 .. 4 = {1, 2, 3, 4}
  OBVIOUS
<1>6. Acceptable(Root, w, h, ok) # {} <=> R(1) \in ok \/ R(2) \in ok \/ R(3) \in ok \/ R(4) \in ok
  BY <1>1, <1>5
<1>7. AtACorner(w, h, ok) <=>
        \/ Rect(0, 0, w, h) \in ok \/ Rect(0, Height - h, w, h) \in ok
        \/ Rect(Width - w, 0, w, h) \in ok \/ Rect(Width - w, Height - h, w, h) \in ok
  BY DEF AtACorner
<1> QED BY <1>4, <1>6, <1>7

LEMMA WholeLeaves ==
  ASSUME NEW s, Whole(s)
  PROVE  Leaves(s.tree) = {Root}
  BY DEF Whole, Leaves, Below

\* What can be placed in the machine when it is one free space.
LEMMA WholePlaces ==
  ASSUME NEW s, Whole(s), NEW want, NEW ok,
         want[Root] # None => want[Root][1] \in Int /\ want[Root][2] \in Int
  PROVE  Placed(s.tree, want, ok) # None <=>
           /\ want[Root] # None /\ want[Root][1] <= Width /\ want[Root][2] <= Height
           /\ AtACorner(want[Root][1], want[Root][2], ok)
<1> DEFINE fit == Fitting(s.tree, want, ok)
<1>1. fit # {} <=>
        /\ want[Root] # None /\ want[Root][1] <= Width /\ want[Root][2] <= Height
        /\ Acceptable(Root, want[Root][1], want[Root][2], ok) # {}
  <2>1. Leaves(s.tree) \ s.tree.allocated = {Root}
    BY WholeLeaves DEF Whole
  <2> DEFINE Fits(r) == /\ want[r] # None /\ want[r][1] <= r.w /\ want[r][2] <= r.h
                        /\ Acceptable(r, want[r][1], want[r][2], ok) # {}
  <2>2. fit = {r \in {Root} : Fits(r)}
    BY <2>1 DEF Fitting
  <2>3. fit # {} <=> Fits(Root)
    <3> HIDE DEF Fits, fit
    <3> QED BY <2>2
  <2> HIDE DEF fit
  <2> QED BY <2>3, RootFacts
<1>2. Placed(s.tree, want, ok) # None <=> fit # {}
  <2>1. fit = {} => Placed(s.tree, want, ok) = None
    BY Zenon DEF Placed
  <2>2. ASSUME fit # {} PROVE Placed(s.tree, want, ok) # None
    <3>1. PICK u, a : Placed(s.tree, want, ok) = [tree |-> u, rect |-> a]
      BY <2>2, Zenon DEF Placed
    <3>2. [tree |-> u, rect |-> a] # <<>>
      OBVIOUS
    <3> QED BY <3>1, <3>2 DEF None
  <2> QED BY <2>1, <2>2
<1> HIDE DEF fit
<1>3. CASE want[Root] = None
  BY <1>1, <1>2, <1>3
<1>4. CASE want[Root] # None
  <2>1. Acceptable(Root, want[Root][1], want[Root][2], ok) # {} <=>
          AtACorner(want[Root][1], want[Root][2], ok)
    BY <1>4, AcceptableCorner
  <2> QED BY <1>1, <1>2, <2>1
<1> QED BY <1>3, <1>4

LEMMA CornerRects ==
  ASSUME NEW w \in 1 .. Width, NEW h \in 1 .. Height,
         NEW x \in {0, Width - w}, NEW y \in {0, Height - h}
  PROVE  /\ Rect(x, y, w, h) \in AllRects /\ Rect(x, y, w, h) \in Rects(w, h)
         /\ Area(Rect(x, y, w, h)) = w * h
<1>1. x \in 0 .. Width - w /\ y \in 0 .. Height - h
  BY SizeAssumption
<1>2. Rect(x, y, w, h) \in Rects(w, h)
  BY <1>1 DEF Rects
<1>3. Rect(x, y, w, h) \in AllRects
  BY <1>2 DEF AllRects
<1>4. Rect(x, y, w, h).w = w /\ Rect(x, y, w, h).h = h
  BY DEF Rect
<1> QED BY <1>2, <1>3, <1>4 DEF Area

LEMMA SomeTaken ==
  ASSUME NEW s, NEW p
  PROVE  TriadsTaken(s, p) # {} <=> p # None
  BY DEF TriadsTaken

\* _alloc_triads and _alloc_triads_possible
LEMMA TriadsBack ==
  ASSUME NEW s, Whole(s), NEW r, r.w \in Int, r.h \in Int, r.kind = "triads"
  PROVE  SomeTriads(s, r) # {} <=> AllocPossible(r)
<1> DEFINE ok == {a \in AllRects : Accepts(r, 3 * Area(a), a)}
           want == [q \in Leaves(s.tree) |-> <<r.w, r.h>>]
           fits == r.w \in 1 .. Width /\ r.h \in 1 .. Height
           torus == r.require_torus => <<r.w, r.h>> = <<Width, Height>>
<1>1. SomeTriads(s, r) = IF ~ torus \/ r.w <= 0 \/ r.h <= 0 THEN {}
                         ELSE TriadsTaken(s, Placed(s.tree, want, ok))
  BY DEF SomeTriads, alloc
<1>2. AllocPossible(r) <=> fits /\ torus /\ InACorner(r, 3 * r.w * r.h, r.w, r.h)
  BY DEF AllocPossible
<1>3. want[Root] = <<r.w, r.h>>
  BY WholeLeaves
<1>4. fits => (AtACorner(r.w, r.h, ok) <=> InACorner(r, 3 * r.w * r.h, r.w, r.h))
  <2> SUFFICES ASSUME fits PROVE AtACorner(r.w, r.h, ok) <=> InACorner(r, 3 * r.w * r.h, r.w, r.h)
    OBVIOUS
  <2>1. \A x \in {0, Width - r.w}, y \in {0, Height - r.h} :
          Rect(x, y, r.w, r.h) \in ok <=> Accepts(r, 3 * r.w * r.h, Rect(x, y, r.w, r.h))
    <3> SUFFICES ASSUME NEW x \in {0, Width - r.w}, NEW y \in {0, Height - r.h}
                 PROVE Rect(x, y, r.w, r.h) \in ok <=> Accepts(r, 3 * r.w * r.h, Rect(x, y, r.w, r.h))
      OBVIOUS
    <3>1. Rect(x, y, r.w, r.h) \in AllRects /\ Area(Rect(x, y, r.w, r.h)) = r.w * r.h
      BY CornerRects
    <3>2. 3 * (r.w * r.h) = 3 * r.w * r.h
      OBVIOUS
    <3>3. 3 * Area(Rect(x, y, r.w, r.h)) = 3 * r.w * r.h
      BY <3>1, <3>2
    <3> QED BY <3>1, <3>3, Zenon
  <2> HIDE DEF ok
  <2> QED BY <2>1 DEF AtACorner, InACorner
<1> HIDE DEF ok, want
<1>5. Placed(s.tree, want, ok) # None <=>
        r.w <= Width /\ r.h <= Height /\ AtACorner(r.w, r.h, ok)
  <2>1. want[Root] # None /\ want[Root][1] = r.w /\ want[Root][2] = r.h
    BY <1>3 DEF None
  <2>2. Placed(s.tree, want, ok) # None <=>
          /\ want[Root] # None /\ want[Root][1] <= Width /\ want[Root][2] <= Height
          /\ AtACorner(want[Root][1], want[Root][2], ok)
    BY <2>1, WholePlaces
  <2> QED BY <2>1, <2>2
<1>6. fits <=> r.w <= Width /\ r.h <= Height /\ ~ (r.w <= 0) /\ ~ (r.h <= 0)
  BY SizeAssumption
<1> HIDE DEF fits, torus
<1>7. SomeTriads(s, r) # {} <=> torus /\ ~ (r.w <= 0) /\ ~ (r.h <= 0) /\ Placed(s.tree, want, ok) # None
  BY <1>1, SomeTaken
<1> QED BY <1>2, <1>4, <1>5, <1>6, <1>7

\* _alloc_boards and _alloc_boards_possible
LEMMA BoardsBack ==
  ASSUME NEW s, Whole(s), NEW r, r.n \in Int, r.min_ratio \in Ratio, r.kind = "boards"
  PROVE  SomeBoards(s, r) # {} <=> AllocPossible(r)
<1> DEFINE ok == {a \in AllRects : Accepts(r, r.n, a)}
           k == TriadsFor(r.n)
           want == [q \in Leaves(s.tree) |-> area_to_rect(k, q.w, q.h, r.min_ratio)]
           wh == area_to_rect(k, Width, Height, r.min_ratio)
           torus == r.require_torus => k = Width * Height
<1>1. SomeBoards(s, r) = IF k <= 0 \/ ~ torus THEN {}
                         ELSE TriadsTaken(s, Placed(s.tree, want, ok))
  BY DEF SomeBoards, alloc_area
<1>2. AllocPossible(r) <=> k > 0 /\ torus /\ wh # None /\ InACorner(r, r.n, wh[1], wh[2])
  BY DEF AllocPossible
<1>3. k \in Int
  BY DEF TriadsFor, CeilDiv
<1>4. want[Root] = wh
  BY WholeLeaves, RootFacts
<1>5. SomeBoards(s, r) # {} <=> k > 0 /\ torus /\ Placed(s.tree, want, ok) # None
  <2> HIDE DEF k, torus, want, ok
  <2> QED BY <1>1, <1>3, SomeTaken
<1>6. CASE ~ (k > 0)
  BY <1>2, <1>5, <1>6
<1>7. CASE k > 0
  <2>1. wh # None => /\ wh[1] \in 1 .. Width /\ wh[2] \in 1 .. Height
    <3> HIDE DEF k
    <3>1. k \in Nat \ {0} /\ r.min_ratio \in Nat \X (Nat \ {0})
      BY <1>3, <1>7 DEF Ratio, Positive
    <3> QED BY <3>1, SizeAssumption, RectIsLargeEnough
  <2> HIDE DEF wh, want, torus
  <2>2. Placed(s.tree, want, ok) # None <=>
          wh # None /\ wh[1] <= Width /\ wh[2] <= Height /\ AtACorner(wh[1], wh[2], ok)
    <3> HIDE DEF ok
    <3> QED BY <1>4, <2>1, WholePlaces
  <2>3. wh # None => (AtACorner(wh[1], wh[2], ok) <=> InACorner(r, r.n, wh[1], wh[2]))
    <3> SUFFICES ASSUME wh # None
                 PROVE AtACorner(wh[1], wh[2], ok) <=> InACorner(r, r.n, wh[1], wh[2])
      OBVIOUS
    <3>1. \A x \in {0, Width - wh[1]}, y \in {0, Height - wh[2]} :
            Rect(x, y, wh[1], wh[2]) \in AllRects
      BY <2>1, CornerRects
    <3> QED BY <3>1, Zenon DEF AtACorner, InACorner
  <2>4. wh # None => wh[1] <= Width /\ wh[2] <= Height
    BY <2>1, SizeAssumption
  <2> HIDE DEF ok
  <2> QED BY <1>2, <1>5, <1>7, <2>2, <2>3, <2>4
<1> QED BY <1>6, <1>7

\* Opened triad xy has a board to spare.
LEMMA OpenedSpare ==
  ASSUME NEW s, NEW xy \in Triad, NEW p, p.rect = Unit(xy), NEW z \in Working(xy)
  PROVE  /\ At(xy, z) \in Board
         /\ TriadOf(At(xy, z)) \in DOMAIN Opened(s, p).singles
         /\ At(xy, z)[3] \in Opened(s, p).singles[TriadOf(At(xy, z))]
<1>1. <<p.rect.x, p.rect.y>> = xy
  BY TriadFacts DEF Unit, Home
<1>2. z \in 0 .. 2
  BY DEF Working
<1>3. At(xy, z) \in Board /\ TriadOf(At(xy, z)) = xy /\ At(xy, z)[3] = z
  BY <1>2, AtFacts
<1>4. Opened(s, p).singles = Put(s.singles, xy, Working(xy))
  BY <1>1 DEF Opened
<1>5. xy \in DOMAIN Opened(s, p).singles /\ Opened(s, p).singles[xy] = Working(xy)
  BY <1>4 DEF Put
<1> QED BY <1>3, <1>5

\* Some corner of the machine has a working board.
CornerOk == \E x \in {0, Width - 1}, y \in {0, Height - 1} : Working(<<x, y>>) # {}

\* _alloc_board and _alloc_board_possible
LEMMA AnyBoardBack ==
  ASSUME NEW s, Whole(s), Covers(s.tree)
  PROVE  AnyBoard(s) # {} <=> CornerOk
<1> DEFINE ok == {a \in Rects(1, 1) : Working(<<a.x, a.y>>) # {}}
           want == [r \in Leaves(s.tree) |-> <<1, 1>>]
           p == alloc(s.tree, 1, 1, ok)
<1>1. p = Placed(s.tree, want, ok)
  BY DEF alloc
<1>2. want[Root] = <<1, 1>>
  BY WholeLeaves
<1>3. 1 \in 1 .. Width /\ 1 \in 1 .. Height
  BY SizeAssumption
<1>4. AtACorner(1, 1, ok) <=> CornerOk
  <2>1. ASSUME NEW x \in {0, Width - 1}, NEW y \in {0, Height - 1}
        PROVE  Rect(x, y, 1, 1) \in ok <=> Working(<<x, y>>) # {}
    <3>1. Rect(x, y, 1, 1) \in Rects(1, 1)
      BY <1>3, CornerRects
    <3>2. Rect(x, y, 1, 1).x = x /\ Rect(x, y, 1, 1).y = y
      BY DEF Rect
    <3> QED BY <3>1, <3>2
  <2> HIDE DEF ok
  <2> QED BY <2>1 DEF AtACorner, CornerOk
<1>5. ok \subseteq AllRects
  BY <1>3 DEF AllRects
<1>6. \A a \in ok : Working(Home(a)) # {} /\ a = Unit(Home(a))
  <2> SUFFICES ASSUME NEW a \in ok PROVE Working(Home(a)) # {} /\ a = Unit(Home(a))
    OBVIOUS
  <2>1. PICK x \in 0 .. Width - 1, y \in 0 .. Height - 1 : a = Rect(x, y, 1, 1)
    BY DEF Rects
  <2>2. a.x = x /\ a.y = y
    BY <2>1 DEF Rect
  <2> QED BY <2>1, <2>2 DEF Unit, Home
<1> HIDE DEF ok, want
<1>7. p # None <=> CornerOk
  <2>1. want[Root] # None /\ want[Root][1] = 1 /\ want[Root][2] = 1
    BY <1>2 DEF None
  <2>2. Placed(s.tree, want, ok) # None <=>
          /\ want[Root] # None /\ want[Root][1] <= Width /\ want[Root][2] <= Height
          /\ AtACorner(want[Root][1], want[Root][2], ok)
    BY <2>1, WholePlaces
  <2> QED BY <1>1, <1>3, <1>4, <2>1, <2>2, SizeAssumption
<1>8. p # None => AnyTaken(Opened(s, p)) # {}
  <2> SUFFICES ASSUME p # None PROVE AnyTaken(Opened(s, p)) # {}
    OBVIOUS
  <2>1. p.rect \in ok
    <3>1. Root \in s.tree.nodes /\ Packed(s.tree) /\ \A r \in s.tree.nodes : Within(r, Root)
      BY CoversFacts DEF Covers
    <3>2. ok \subseteq Box
      BY <1>5, AllRectsAre
    <3> HIDE DEF p
    <3> QED BY <1>1, <3>1, <3>2, PlacedFacts
  <2> DEFINE xy == Home(p.rect)
  <2>2. xy \in Triad /\ p.rect = Unit(xy) /\ Working(xy) # {}
    BY <1>5, <1>6, <2>1, HomeFacts
  <2> HIDE DEF p, xy
  <2>3. PICK z \in Working(xy) : TRUE
    BY <2>2
  <2>4. /\ At(xy, z) \in Board
        /\ TriadOf(At(xy, z)) \in DOMAIN Opened(s, p).singles
        /\ At(xy, z)[3] \in Opened(s, p).singles[TriadOf(At(xy, z))]
    BY <2>2, OpenedSpare
  <2>5. BoardTaken(Opened(s, p), At(xy, z)) \in AnyTaken(Opened(s, p))
    BY <2>4 DEF AnyTaken
  <2> QED BY <2>5
<1>9. AnyBoard(s) = IF p # None THEN AnyTaken(Opened(s, p)) ELSE {}
  <2>1. DOMAIN s.singles = {}
    BY DEF Whole
  <2> QED BY <2>1 DEF AnyBoard, ok
<1> QED BY <1>7, <1>8, <1>9

LEMMA ThisBoardBack ==
  ASSUME NEW s, Whole(s), Covers(s.tree), NEW b \in Board
  PROVE  ThisBoard(s, b) # {} <=> b \notin fault.boards
<1> DEFINE xy == TriadOf(b)
           p == request(s.tree, xy)
<1>1. xy \in Triad
  BY BoardFacts
<1>2. p # None
  <2>1. Around(s.tree.nodes, xy) \notin s.tree.allocated
    BY DEF Whole
  <2> QED BY <2>1 DEF request, None
<1>3. DOMAIN s.singles = {}
  BY DEF Whole
<1> QED BY <1>2, <1>3 DEF ThisBoard

LEMMA InvGivenBack == AInv => AllGivenBack
<1> DEFINE Idle == live = <<>> /\ toFree = <<>> /\ suspect = {}
<1> SUFFICES ASSUME AInv, Idle, NEW r \in Request
             PROVE  AllocPossible(r) /\ (r.kind = "board" => CornerOk) <=> Grants(Stores, r) # {}
  BY DEF AllGivenBack, CornerOk
<1>1. Whole(Stores) /\ Covers(Stores.tree)
  BY IdleIsWhole DEF AInv, Sound, StoresSound
<1>2. r \in RequestType
  BY AllocatorAssumption
<1>3. CASE r.kind = "triads"
  <2>1. r.w \in Int /\ r.h \in Int
    BY <1>2, <1>3 DEF RequestType
  <2>2. Grants(Stores, r) = SomeTriads(Stores, r)
    BY <1>3 DEF Grants
  <2> QED BY <1>1, <1>3, <2>1, <2>2, TriadsBack
<1>4. CASE r.kind = "boards"
  <2>1. r.n \in Int /\ r.min_ratio \in Ratio
    BY <1>2, <1>4 DEF RequestType, Ratio, Positive
  <2>2. Grants(Stores, r) = SomeBoards(Stores, r)
    BY <1>4 DEF Grants
  <2> QED BY <1>1, <1>4, <2>1, <2>2, BoardsBack
<1>5. CASE r.kind = "board"
  <2>1. Grants(Stores, r) = AnyBoard(Stores) /\ (AllocPossible(r) <=> fault.boards # Board)
    BY <1>5 DEF Grants, AllocPossible
  <2>2. CornerOk => fault.boards # Board
    <3> SUFFICES ASSUME CornerOk PROVE fault.boards # Board
      OBVIOUS
    <3>1. PICK x \in {0, Width - 1}, y \in {0, Height - 1} : Working(<<x, y>>) # {}
      BY DEF CornerOk
    <3>2. PICK z \in 0 .. 2 : <<x, y, z>> \notin fault.boards
      BY <3>1 DEF Working
    <3>3. <<x, y>> \in Triad
      BY SizeAssumption DEF Triad
    <3>4. At(<<x, y>>, z) \in Board /\ At(<<x, y>>, z) = <<x, y, z>>
      BY <3>3, AtFacts DEF At
    <3> QED BY <3>2, <3>4
  <2> QED BY <1>1, <1>5, <2>1, <2>2, AnyBoardBack
<1>6. CASE r.kind = "this"
  <2>1. r.board \in Board
    BY <1>2, <1>6 DEF RequestType
  <2>2. Grants(Stores, r) = ThisBoard(Stores, r.board)
        /\ (AllocPossible(r) <=> r.board \notin fault.boards)
    BY <1>6 DEF Grants, AllocPossible
  <2> QED BY <1>1, <1>6, <2>1, <2>2, ThisBoardBack
<1>7. r.kind = "triads" \/ r.kind = "boards" \/ r.kind = "board" \/ r.kind = "this"
  BY <1>2 DEF RequestType
<1> QED BY <1>3, <1>4, <1>5, <1>6, <1>7

\* Once everything has been given back all of the machine can be had again:
\* just those requests are granted that alloc_possible lets into a queue.
THEOREM EverythingIsGivenBack == Spec => []AllGivenBack
<1>1. AInv => AllGivenBack
  BY InvGivenBack
<1> QED BY <1>1, AllocatorInvariant, PTL
=============================================================================
