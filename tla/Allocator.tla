----------------------------- MODULE Allocator -----------------------------
(***************************************************************************)
(* The allocator of the boards of one machine (allocator.py): rectangles   *)
(* of triads are cut out of a PackTree, single boards come from triads     *)
(* taken for that purpose, and what is freed becomes available after       *)
(* seconds_before_free.                                                    *)
(*                                                                         *)
(* Which of the triads with boards to spare, and which board in it, is     *)
(* used next is up to the order of a dictionary and of a set: any may be.  *)
(***************************************************************************)
EXTENDS Geometry, PackTree, FiniteSets, Sequences

CONSTANTS
  Request,    \* the arguments of alloc
  Fault,      \* what may be broken: [boards, links], links as <<board, link>>
  Id,         \* allocation ids; each may be used again
  MaxCooling  \* bound: allocations waiting to be freed

\* A limit of the code that is None is a number too large to matter.
RequestType ==
  [kind : {"triads"}, w : Int, h : Int, max_dead_boards : Nat,
   max_dead_links : Nat, require_torus : BOOLEAN]
    \cup
  [kind : {"boards"}, n : Int, min_ratio : Nat \X (Nat \ {0}), max_dead_boards : Nat,
   max_dead_links : Nat, require_torus : BOOLEAN]
    \cup [kind : {"board"}] \cup [kind : {"this"}, board : Board]

ASSUME AllocatorAssumption ==
  /\ Request \subseteq RequestType
  /\ Fault \subseteq [boards : SUBSET Board, links : SUBSET (Board \X Link)]
  /\ MaxCooling \in Nat

VARIABLES
  tree,     \* pack_tree
  singles,  \* single_board_triads: the boards to spare of some triads
  full,     \* full_single_board_triads
  live,     \* allocation_types and allocation_board, with the boards given
  toFree,   \* to_free
  ripe,     \* how many of these have waited for seconds_before_free
  fault,    \* dead_boards and dead_links
  suspect   \* history: boards of triads in use when their dead boards changed

stores == <<tree, singles, full>>
vars == <<tree, singles, full, live, toFree, ripe, fault, suspect>>

TriadOf(b) == <<b[1], b[2]>>
BoardsOf(xy) == {<<xy[1], xy[2], z>> : z \in 0 .. 2}

\* The z of the working boards of a triad.
Working(xy) == {z \in 0 .. 2 : <<xy[1], xy[2], z>> \notin fault.boards}

-----------------------------------------------------------------------------
(* _CandidateFilter                                                        *)

Rects(w, h) ==
  {Rect(x, y, w, h) : x \in 0 .. Width - w, y \in 0 .. Height - h}

AllRects == UNION {Rects(w, h) : w \in 1 .. Width, h \in 1 .. Height}

\* With faults f, the working boards in rectangle a that can be reached within
\* it, over working links, from the one at its bottom left.
_enumerate_boards(f, a) ==
  LET Ok(B) == {b \in B \ f.boards : Contains(a, TriadOf(b))}
      Down(B) == {board_down_link[bl] : bl \in (B \X Link) \ f.links}
      Reached[n \in 0 .. 3 * Area(a)] ==
        IF n = 0 THEN Ok({<<a.x, a.y, 0>>})
                 ELSE Reached[n - 1] \cup Ok(Down(Reached[n - 1]))
  IN  Reached[3 * Area(a)]

\* The links between boards of B, with those that wrap around and those that
\* do not work.
_classify_links(f, B) ==
  LET internal == {bl \in B \X Link : board_down_link[bl] \in B}
      wraps == {bl \in internal : WrapAround[bl] # {}}
  IN  [wraps |-> wraps # {},
       dead |-> Cardinality((internal \ wraps) \cap f.links),
       deadWraps |-> Cardinality(wraps \cap f.links)]

\* What the filter finds out about a rectangle.
Candidate ==
  [fa \in Fault \X AllRects |->
     LET B == _enumerate_boards(fa[1], fa[2])
     IN  [boards |-> B, links |-> _classify_links(fa[1], B)]]

\* __call__: dead links are counted once for each direction.
Accepts(r, expected, a) ==
  LET c == Candidate[fault, a]
  IN  /\ c.boards # {} /\ expected <= r.max_dead_boards + Cardinality(c.boards)
      /\ r.require_torus => c.links.wraps
      /\ c.links.dead + (IF r.require_torus THEN c.links.deadWraps ELSE 0)
           <= r.max_dead_links

-----------------------------------------------------------------------------
(* The stores: s is a record of tree, singles and full.                    *)

Stores == [tree |-> tree, singles |-> singles, full |-> full]

Become(s) == tree' = s.tree /\ singles' = s.singles /\ full' = s.full

Put(f, x, y) == [k \in DOMAIN f \cup {x} |-> IF k = x THEN y ELSE f[k]]
Drop(f, x) == [k \in DOMAIN f \ {x} |-> f[k]]

\* Mutant: its dead boards are given out too.
Opened_All(s, p) ==
  LET xy == <<p.rect.x, p.rect.y>>
  IN  [tree |-> p.tree, singles |-> Put(s.singles, xy, 0 .. 2), full |-> s.full]

\* A free triad is cut out for single boards.
Opened(s, p) ==
  LET xy == <<p.rect.x, p.rect.y>>
  IN  [tree |-> p.tree, singles |-> Put(s.singles, xy, Working(xy)),
       full |-> s.full]

\* Board b is taken from its triad.
BoardTaken(s, b) ==
  LET xy == TriadOf(b)
      left == s.singles[xy] \ {b[3]}
  IN  [type |-> "board", board |-> b, boards |-> {b},
       stores |-> IF left = {}
                    THEN [s EXCEPT !.singles = Drop(@, xy), !.full = @ \cup {xy}]
                    ELSE [s EXCEPT !.singles[xy] = left]]

AnyTaken(s) ==
  {BoardTaken(s, b) : b \in {b \in Board : TriadOf(b) \in DOMAIN s.singles
                                            /\ b[3] \in s.singles[TriadOf(b)]}}

\* _alloc_board without a board
AnyBoard(s) ==
  LET p == alloc(s.tree, 1, 1,
                 {a \in Rects(1, 1) : Working(<<a.x, a.y>>) # {}})
  IN  CASE DOMAIN s.singles # {} -> AnyTaken(s)
        [] DOMAIN s.singles = {} /\ p # None -> AnyTaken(Opened(s, p))
        [] OTHER -> {}

\* _alloc_board of a certain one
ThisBoard(s, b) ==
  LET xy == TriadOf(b)
      p == request(s.tree, xy)
  IN  CASE b \in fault.boards -> {}
        [] b \notin fault.boards /\ xy \in DOMAIN s.singles
             /\ b[3] \in s.singles[xy] -> {BoardTaken(s, b)}
        [] OTHER -> IF p = None THEN {} ELSE {BoardTaken(Opened(s, p), b)}

TriadsTaken(s, p) ==
  IF p = None THEN {}
  ELSE {[type |-> "triads", board |-> <<p.rect.x, p.rect.y, 0>>,
         boards |-> Candidate[fault, p.rect].boards,
         stores |-> [s EXCEPT !.tree = p.tree]]}

TriadsFor(n) == CeilDiv(n, 3)

\* _alloc_triads
SomeTriads(s, r) ==
  IF \/ r.require_torus /\ <<r.w, r.h>> # <<Width, Height>>
     \/ r.w <= 0 \/ r.h <= 0 THEN {}
  ELSE TriadsTaken(s, alloc(s.tree, r.w, r.h,
         {a \in AllRects : Accepts(r, 3 * Area(a), a)}))

\* _alloc_boards
SomeBoards(s, r) ==
  IF \/ TriadsFor(r.n) <= 0
     \/ r.require_torus /\ TriadsFor(r.n) # Width * Height THEN {}
  ELSE TriadsTaken(s, alloc_area(s.tree, TriadsFor(r.n), r.min_ratio,
         {a \in AllRects : Accepts(r, r.n, a)}))

\* What alloc may return, given the stores.
Grants(s, r) ==
  CASE r.kind = "triads" -> SomeTriads(s, r)
    [] r.kind = "boards" -> SomeBoards(s, r)
    [] r.kind = "board"  -> AnyBoard(s)
    [] r.kind = "this"   -> ThisBoard(s, r.board)

-----------------------------------------------------------------------------
(* alloc_possible                                                          *)

\* Mutant: only the bottom left corner of the machine is looked at.
InACorner_First(r, expected, w, h) == Accepts(r, expected, Rect(0, 0, w, h))

\* A block would be accepted in one of the corners of the machine.
InACorner(r, expected, w, h) ==
  \E x \in {0, Width - w}, y \in {0, Height - h} :
    Accepts(r, expected, Rect(x, y, w, h))

\* _alloc_triads_possible, _alloc_boards_possible, _alloc_board_possible
AllocPossible(r) ==
  CASE r.kind = "triads" ->
         /\ r.w \in 1 .. Width /\ r.h \in 1 .. Height
         /\ r.require_torus => <<r.w, r.h>> = <<Width, Height>>
         /\ InACorner(r, 3 * r.w * r.h, r.w, r.h)
    [] r.kind = "boards" ->
         LET wh == area_to_rect(TriadsFor(r.n), Width, Height, r.min_ratio)
         IN  /\ TriadsFor(r.n) > 0
             /\ r.require_torus => TriadsFor(r.n) = Width * Height
             /\ wh # None
             /\ InACorner(r, r.n, wh[1], wh[2])
    [] r.kind = "board" -> fault.boards # Board
    [] r.kind = "this"  -> r.board \notin fault.boards

-----------------------------------------------------------------------------
(* Freeing                                                                 *)

\* Mutant: a triad goes back when all three of its boards are there.
Released_AllThree(s, e) ==
  LET xy == TriadOf(e.board)
      back == {e.board[3]} \cup IF xy \in s.full THEN {} ELSE s.singles[xy]
  IN  IF e.type = "triads" THEN [s EXCEPT !.tree = free(@, xy)]
      ELSE IF back = 0 .. 2
      THEN [tree |-> free(s.tree, xy), singles |-> Drop(s.singles, xy),
            full |-> s.full \ {xy}]
      ELSE [tree |-> s.tree, singles |-> Put(s.singles, xy, back),
            full |-> s.full \ {xy}]

\* Mutant: a triad that was full stays among the full ones.
Released_StaysFull(s, e) ==
  LET xy == TriadOf(e.board)
      back == {e.board[3]} \cup IF xy \in s.full THEN {} ELSE s.singles[xy]
  IN  IF e.type = "triads" THEN [s EXCEPT !.tree = free(@, xy)]
      ELSE IF back = Working(xy)
      THEN [tree |-> free(s.tree, xy), singles |-> Drop(s.singles, xy),
            full |-> s.full \ {xy}]
      ELSE [tree |-> s.tree, singles |-> Put(s.singles, xy, back),
            full |-> s.full]

\* Mutant: the entry of a triad that goes back is kept.
Released_KeepsEntry(s, e) ==
  LET xy == TriadOf(e.board)
      back == {e.board[3]} \cup IF xy \in s.full THEN {} ELSE s.singles[xy]
  IN  IF e.type = "triads" THEN [s EXCEPT !.tree = free(@, xy)]
      ELSE [tree |-> IF back = Working(xy) THEN free(s.tree, xy) ELSE s.tree,
            singles |-> Put(s.singles, xy, back), full |-> s.full \ {xy}]

\* _free_next: entry e of to_free
Released(s, e) ==
  LET xy == TriadOf(e.board)
      back == {e.board[3]} \cup IF xy \in s.full THEN {} ELSE s.singles[xy]
  IN  IF e.type = "triads" THEN [s EXCEPT !.tree = free(@, xy)]
      ELSE IF back = Working(xy)
      THEN [tree |-> free(s.tree, xy), singles |-> Drop(s.singles, xy),
            full |-> s.full \ {xy}]
      ELSE [tree |-> s.tree, singles |-> Put(s.singles, xy, back),
            full |-> s.full \ {xy}]

\* single_board_triads has no such key.
Raises(s, e) ==
  e.type = "board" /\ TriadOf(e.board) \notin s.full \cup DOMAIN s.singles

\* The stores after the first n entries.
After ==
  [n \in 0 .. ripe |->
     LET A[k \in 0 .. n] == IF k = 0 THEN Stores ELSE Released(A[k - 1], toFree[k])
     IN  A[n]]

\* The first n entries can be freed.
Smooth(n) == \A k \in 1 .. n : ~Raises(After[k - 1], toFree[k])

-----------------------------------------------------------------------------

Popped(n) ==
  /\ toFree' = SubSeq(toFree, n + 1, Len(toFree))
  /\ ripe' = ripe - n

\* check_free, called by the server's loop or by an alloc that finds nothing.
CheckFree ==
  /\ ripe > 0 /\ Smooth(ripe)
  /\ Become(After[ripe]) /\ Popped(ripe)
  /\ UNCHANGED <<live, fault, suspect>>

\* It raises a KeyError, having popped the entry concerned.
CheckFreeRaises(n) ==
  /\ n \in 1 .. ripe
  /\ Smooth(n - 1) /\ Raises(After[n - 1], toFree[n])
  /\ Become(After[n - 1]) /\ Popped(n)
  /\ UNCHANGED <<live, fault, suspect>>

\* alloc
Alloc(i, r) ==
  /\ i \in Id \ DOMAIN live /\ Smooth(ripe)
  /\ \E g \in Grants(After[ripe], r) :
       /\ Become(g.stores)
       /\ live' = Put(live, i, [type |-> g.type, board |-> g.board,
                                boards |-> g.boards])
  /\ Popped(ripe)
  /\ UNCHANGED <<fault, suspect>>

\* free
Free(i) ==
  /\ i \in DOMAIN live
  /\ Len(toFree) < MaxCooling  \* bound
  /\ toFree' = Append(toFree, live[i])
  /\ live' = Drop(live, i)
  /\ UNCHANGED <<stores, ripe, fault, suspect>>

TimePasses ==
  /\ ripe < Len(toFree)
  /\ ripe' = ripe + 1
  /\ UNCHANGED <<stores, live, toFree, fault, suspect>>

\* JobQueue.modify_machine
ModifyMachine(f) ==
  /\ f # fault
  /\ fault' = f
  /\ LET odd == (f.boards \ fault.boards) \cup (fault.boards \ f.boards)
     IN  suspect' = suspect \cup
           UNION {BoardsOf(xy) : xy \in {TriadOf(b) : b \in odd} \cap
                                        (full \cup DOMAIN singles)}
  /\ UNCHANGED <<stores, live, toFree, ripe>>

Init ==
  /\ tree = NewTree(Width, Height)
  /\ singles = [xy \in {} |-> {}] /\ full = {}
  /\ live = [i \in {} |-> {}] /\ toFree = <<>> /\ ripe = 0
  /\ fault \in Fault
  /\ suspect = {}

Next ==
  \/ \E i \in Id : (\E r \in Request : Alloc(i, r)) \/ Free(i)
  \/ CheckFree
  \/ \E n \in 1 .. MaxCooling : CheckFreeRaises(n)
  \/ TimePasses
  \/ \E f \in Fault : ModifyMachine(f)

Spec == Init /\ [][Next]_vars

-----------------------------------------------------------------------------
(* Properties                                                              *)

EntryType == [type : {"triads", "board"}, board : Board, boards : SUBSET Board]

\* Types.  A triad for single boards is full or has boards to spare.
ATypeOK ==
  /\ tree.nodes \subseteq AllRects /\ tree.allocated \subseteq AllRects
  /\ DOMAIN singles \subseteq Triad
  /\ singles \in [DOMAIN singles -> (SUBSET (0 .. 2)) \ {{}}]
  /\ full \subseteq Triad \ DOMAIN singles
  /\ DOMAIN live \subseteq Id /\ live \in [DOMAIN live -> EntryType]
  /\ toFree \in Seq(EntryType) /\ Len(toFree) <= MaxCooling
  /\ ripe \in 0 .. Len(toFree)
  /\ fault \in Fault /\ suspect \subseteq Board

\* The nodes of the PackTree cut up the machine without gaps or overlaps, and
\* no space stays cut up with nothing allocated in it: whatever order things
\* are freed in, free joins them into the largest rectangles there can be
\* (PackTree.hsplit, vsplit, request, free).
WellPacked ==
  /\ Rect(0, 0, Width, Height) \in tree.nodes /\ tree.allocated \subseteq tree.nodes
  /\ \A r \in tree.nodes : Below(tree, r) # {} =>
       LET parts == Children(tree, r)
       IN  /\ r \notin tree.allocated
           /\ Cardinality(parts) = 2
           /\ \A c, d \in parts : c # d =>
                /\ Area(c) + Area(d) = Area(r)
                /\ \/ c.x + c.w = d.x \/ d.x + d.w = c.x
                   \/ c.y + c.h = d.y \/ d.y + d.h = c.y
           /\ Below(tree, r) \cap tree.allocated # {}

Held == {live[i] : i \in DOMAIN live} \cup {toFree[n] : n \in DOMAIN toFree}

\* Every leaf that is allocated will be free again: it belongs to just one
\* allocation that is live or waiting to be freed, or is a triad for single
\* boards (Allocator.alloc, free, _free_next).  So free finds what it is to
\* free, and raises no FreeError.
LeavesOwned ==
  LET Blocks == {e \in Held : e.type = "triads"}
      Shared == full \cup DOMAIN singles
      Owned(a) == {e \in Blocks : TriadOf(e.board) = <<a.x, a.y>>}
  IN  /\ \A e \in Blocks : CanFree(tree, TriadOf(e.board))
      /\ \A xy \in Shared : Rect(xy[1], xy[2], 1, 1) \in tree.allocated
      /\ \A a \in tree.allocated :
           Cardinality(Owned(a)) = IF <<a.x, a.y>> \in Shared THEN 0 ELSE 1

\* A triad for single boards that was left alone by modify_machine accounts
\* for each of its working boards, as one to spare or as one that is out; and
\* at least one is out (_alloc_board, _free_next).
SinglesAccounted ==
  \A xy \in full \cup DOMAIN singles :
    LET out == {e.board[3] : e \in {e \in Held : e.type = "board"
                                               /\ TriadOf(e.board) = xy}}
        spare == IF xy \in full THEN {} ELSE singles[xy]
    IN  BoardsOf(xy) \cap suspect = {} =>
          /\ out # {} /\ out \cap spare = {}
          /\ out \cup spare = Working(xy)

Pool == INSTANCE BoardPool WITH
  lent <- [i \in DOMAIN live |-> live[i].boards],
  cooling <- [n \in DOMAIN toFree |-> toFree[n].boards],
  dead <- fault.boards

\* However rectangles and single boards are mixed, freed and cut out again,
\* boards are handed out as BoardPool says: working ones, to one allocation at
\* a time, and not before they have been left alone (Allocator.alloc, free).
ImplementsPool == Pool!Spec

\* When everything has been given back, every request that is possible is
\* granted, and no other: nothing is lost of the machine, and a job that
\* alloc_possible lets into a queue does not block it for ever.  Where no corner
\* of the machine has a working board, a job for any single board may.
AllGivenBack ==
  LET Idle == live = <<>> /\ toFree = <<>> /\ suspect = {}
      CornerWorks == \E x \in {0, Width - 1}, y \in {0, Height - 1} : Working(<<x, y>>) # {}
  IN  Idle => \A r \in Request :
                AllocPossible(r) /\ (r.kind = "board" => CornerWorks)
                  <=> Grants(Stores, r) # {}

\* "any changes made will not impact already allocated jobs" (modify_machine):
\* while a job has a board, the triad the board is in is not free.
ChangesHarmless ==
  \A i \in DOMAIN live : live[i].type = "board" =>
    TriadOf(live[i].board) \in full \cup DOMAIN singles
=============================================================================
