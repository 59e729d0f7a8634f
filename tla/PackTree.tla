------------------------------ MODULE PackTree ------------------------------
(***************************************************************************)
(* The data structure that packs rectangles into a fixed space             *)
(* (pack_tree.py) and the choice of a rectangle for an area                *)
(* (area_to_rect.py).                                                      *)
(*                                                                         *)
(* A node is known by its rectangle: a split always makes two smaller      *)
(* ones.  A tree is the set of its nodes with the set of those that are    *)
(* allocated; the children of a node are the largest ones within it.       *)
(* Aspect ratios are fractions <<p, q>>.                                   *)
(***************************************************************************)
EXTENDS Integers

None == <<>>

Rect(x, y, w, h) == [x |-> x, y |-> y, w |-> w, h |-> h]

Area(r) == r.w * r.h

\* __contains__
Contains(r, xy) ==
  /\ r.x <= xy[1] /\ xy[1] < r.x + r.w
  /\ r.y <= xy[2] /\ xy[2] < r.y + r.h

\* Node s lies in node r.
Within(s, r) ==
  /\ r.x <= s.x /\ s.x + s.w <= r.x + r.w
  /\ r.y <= s.y /\ s.y + s.h <= r.y + r.h

\* The space is one free leaf.
NewTree(w, h) == [nodes |-> {Rect(0, 0, w, h)}, allocated |-> {}]

Below(t, r) == {s \in t.nodes : s # r /\ Within(s, r)}

Leaves(t) == {r \in t.nodes : Below(t, r) = {}}

Children(t, r) ==
  {s \in Below(t, r) : \A o \in Below(t, r) : Within(s, o) => o = s}

-----------------------------------------------------------------------------
(* area_to_rect.py                                                         *)

CeilDiv(a, b) == (a + b - 1) \div b

Landscape(ratio) ==
  IF ratio[1] > ratio[2] THEN <<ratio[2], ratio[1]>> ELSE ratio

squarest_rectangle(area) ==
  LET h == CHOOSE h \in 1 .. area :
             /\ h * h <= area /\ area % h = 0
             /\ \A g \in h + 1 .. area : g * g <= area => area % g # 0
  IN  <<area \div h, h>>

\* The height is the square root of area * ratio, rounded up.
rectangle_with_aspect_ratio(area, ratio) ==
  LET h == CHOOSE h \in 1 .. area :
             /\ h * h * ratio[2] >= area * ratio[1]
             /\ (h - 1) * (h - 1) * ratio[2] < area * ratio[1]
      w == CeilDiv(area, h)
  IN  <<IF w < h THEN h ELSE w, h>>

\* At least as square as the ratio.
Square(w, h, ratio) ==
  LET short == IF w < h THEN w ELSE h
  IN  short * ratio[2] >= (w + h - short) * ratio[1]

\* The rectangle that is as wide, or else as high, as the bounds.
Squished(area, w, h, bw, bh, ratio) ==
  LET s == IF w > bw THEN <<bw, CeilDiv(area, bw)>> ELSE <<CeilDiv(area, bh), bh>>
  IN  IF Square(s[1], s[2], ratio) THEN s ELSE None

area_to_rect(area, bw, bh, min_ratio) ==
  LET ratio == Landscape(min_ratio)
      ideal == squarest_rectangle(area)
      wide == IF Square(ideal[1], ideal[2], ratio)
                THEN ideal ELSE rectangle_with_aspect_ratio(area, ratio)
      turn == bw > bh /\ wide[1] > wide[2]
      w == IF turn THEN wide[2] ELSE wide[1]
      h == IF turn THEN wide[1] ELSE wide[2]
  IN  CASE area > bw * bh -> None
        [] area <= bw * bh /\ w <= bw /\ h <= bh -> <<w, h>>
        [] OTHER -> Squished(area, w, h, bw, bh, ratio)

-----------------------------------------------------------------------------
(* alloc and alloc_area                                                    *)

\* Leaf a is tried before leaf b: of the two children that part them, the
\* smaller comes first, or else the one at the left or at the bottom.
Before(t, a, b) ==
  \E r \in {r \in t.nodes : Within(a, r) /\ Within(b, r)} :
  \E c, d \in Children(t, r) :
    /\ c # d /\ Within(a, c) /\ Within(b, d)
    /\ \/ Area(c) < Area(d)
       \/ Area(c) = Area(d) /\ c.x <= d.x /\ c.y <= d.y

\* The corner of leaf r at which a w x h rectangle is accepted by the filter ok
\* (a set of rectangles), the bottom left one being tried first and the bottom
\* right one third.
Corners(r, w, h) ==
  << <<r.x, r.y>>, <<r.x, r.y + r.h - h>>,
     <<r.x + r.w - w, r.y>>, <<r.x + r.w - w, r.y + r.h - h>> >>

Acceptable(r, w, h, ok) ==
  {i \in 1 .. 4 :
     LET c == Corners(r, w, h)[i] IN Rect(c[1], c[2], w, h) \in ok}

_find_acceptable(r, w, h, ok) ==
  Corners(r, w, h)[CHOOSE i \in Acceptable(r, w, h, ok) :
                     \A k \in Acceptable(r, w, h, ok) : i <= k]

\* Where r is cut to part a from the rest.
CutX(r, a) == IF a.x # r.x THEN a.x ELSE r.x + a.w
CutY(r, a) == IF a.y # r.y THEN a.y ELSE r.y + a.h

vsplit(r, x) == {Rect(r.x, r.y, x - r.x, r.h), Rect(x, r.y, r.x + r.w - x, r.h)}
hsplit(r, y) == {Rect(r.x, r.y, r.w, y - r.y), Rect(r.x, y, r.w, r.y + r.h - y)}

\* The nodes made in leaf r for rectangle a in one of its corners: it is split
\* along the axis that leaves the largest free space, and once more if need be.
Cuts(r, a) ==
  LET first == IF r.h - a.h > r.w - a.w
                 THEN hsplit(r, CutY(r, a)) ELSE vsplit(r, CutX(r, a))
      child == CHOOSE c \in first : Within(a, c)
  IN  CASE a = r -> {}
        [] a # r /\ child.w # a.w -> first \cup vsplit(child, CutX(child, a))
        [] a # r /\ child.w = a.w /\ child.h # a.h ->
             first \cup hsplit(child, CutY(child, a))
        [] OTHER -> first

\* The free leaves in which a rectangle of the size wanted there is accepted.
Fitting(t, want, ok) ==
  {r \in Leaves(t) \ t.allocated :
     /\ want[r] # None /\ want[r][1] <= r.w /\ want[r][2] <= r.h
     /\ Acceptable(r, want[r][1], want[r][2], ok) # {}}

\* The first of them makes room.
Placed(t, want, ok) ==
  LET fit == Fitting(t, want, ok)
      r == CHOOSE r \in fit : \A s \in fit \ {r} : Before(t, r, s)
      xy == _find_acceptable(r, want[r][1], want[r][2], ok)
      a == Rect(xy[1], xy[2], want[r][1], want[r][2])
  IN  IF fit = {} THEN None
      ELSE [tree |-> [nodes |-> t.nodes \cup Cuts(r, a),
                      allocated |-> t.allocated \cup {a}],
            rect |-> a]

alloc(t, w, h, ok) == Placed(t, [r \in Leaves(t) |-> <<w, h>>], ok)

alloc_area(t, area, min_ratio, ok) ==
  Placed(t, [r \in Leaves(t) |-> area_to_rect(area, r.w, r.h, min_ratio)], ok)

-----------------------------------------------------------------------------
(* request and free                                                        *)

\* The side with the most space is cut off.
Halves(r, xy) ==
  LET left == xy[1] - r.x
      right == r.x + r.w - xy[1] - 1
      above == r.y + r.h - xy[2] - 1
      below == xy[2] - r.y
      Largest(n) == \A m \in {left, right, above, below} : n >= m
  IN  CASE Largest(left) -> vsplit(r, xy[1])
        [] ~Largest(left) /\ Largest(right) -> vsplit(r, xy[1] + 1)
        [] ~Largest(left) /\ ~Largest(right) /\ Largest(above) ->
             hsplit(r, xy[2] + 1)
        [] OTHER -> hsplit(r, xy[2])

\* The smallest of nodes S around xy.
Around(S, xy) ==
  CHOOSE r \in S : Contains(r, xy) /\ \A s \in S : Contains(s, xy) => Within(r, s)

\* Leaf r is cut until nothing but xy is left of it.
Carved(r, xy) ==
  LET S[n \in 0 .. r.w + r.h] ==
        IF n = 0 THEN {r}
        ELSE LET s == Around(S[n - 1], xy)
             IN  S[n - 1] \cup IF Area(s) = 1 THEN {} ELSE Halves(s, xy)
  IN  S[r.w + r.h]

request(t, xy) ==
  LET r == Around(t.nodes, xy)
      a == Rect(xy[1], xy[2], 1, 1)
  IN  IF r \in t.allocated THEN None
      ELSE [tree |-> [nodes |-> t.nodes \cup Carved(r, xy),
                      allocated |-> t.allocated \cup {a}],
            rect |-> a]

\* Mutant: only the parents of two free leaves are joined, not theirs.
free_JoinsOnce(t, xy) ==
  LET leaf == Around(t.nodes, xy)
      up == {n \in t.nodes : Contains(n, xy) /\ leaf \in Children(t, n)}
      joined == {n \in up : \A s \in Children(t, n) \ {leaf} :
                   s \in Leaves(t) \ t.allocated}
  IN  [nodes |-> {s \in t.nodes : \A n \in joined : s \notin Below(t, n)},
       allocated |-> t.allocated \ {leaf}]

\* The leaf at xy is free again.  Going up from there, a node both of whose
\* children are free leaves becomes one itself.
free(t, xy) ==
  LET path == {n \in t.nodes : Contains(n, xy)}
      leaf == Around(t.nodes, xy)
      Beside(n) == {s \in Children(t, n) : ~Contains(s, xy)}
      joined == {n \in path \ {leaf} :
                   \A m \in path \ {leaf} : Within(m, n) =>
                     Beside(m) \subseteq Leaves(t) \ t.allocated}
  IN  [nodes |-> {s \in t.nodes : \A n \in joined : s \notin Below(t, n)},
       allocated |-> t.allocated \ {leaf}]

\* Anything else raises FreeError.
CanFree(t, xy) ==
  \E a \in t.allocated \cap Leaves(t) : a.x = xy[1] /\ a.y = xy[2]
=============================================================================
