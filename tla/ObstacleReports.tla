-------------------------- MODULE ObstacleReports --------------------------
(***************************************************************************)
(* Reports about the obstacles of a scan: obstacle_report_builder.cpp and  *)
(* error_segment_tracker.hpp.                                              *)
(*                                                                         *)
(* The vertices of a scan, already sorted into matched, unmatched and      *)
(* outside the safety circle, are cut into groups at gaps, rid of spikes   *)
(* and fitted by lines.  An unmatched line gets an id that should follow   *)
(* the object from scan to scan.                                           *)
(*                                                                         *)
(* All scans use one builder and one tracker, without a lock; with one     *)
(* scanner their brackets begin ... end follow each other.                 *)
(*                                                                         *)
(* Coordinates are integers; centroids are doubled, distances squared and  *)
(* scores fractions, so that every comparison is exact.                    *)
(***************************************************************************)
EXTENDS Integers, Sequences, FiniteSets, SequencesExt

CONSTANTS
  Scanners,      \* threads inside obstaclesCallback
  Columns,       \* vertices of a scan; vertex i lies at x = Spacing * i
  Spacing,
  Heights,       \* the y coordinates vertices may have
  MinGap2,       \* segment_min_gap, squared
  GapRate,       \* (gap_multiplier * angle_increment)^2, in hundredths
  Outlier2,      \* outlier_filter_distance, squared
  LineTol2,      \* line_fit_tolerance, squared
  MinPoints,     \* min_segment_points
  Cell,          \* error_segment_tracker_cell_size
  MaxDrift2,     \* error_segment_tracker_max_drift, squared
  MaxId          \* bound: ids given out

ReportAssumption ==
  /\ Columns \in Nat /\ Spacing \in Nat \ {0} /\ Heights \subseteq Int
  /\ MinPoints \in Nat \ {0} /\ Cell \in Nat \ {0} /\ MaxId \in Nat /\ MaxDrift2 \in Nat

VARIABLES
  pc,         \* where each scanner is
  scan,       \* the scan each of them handles
  report,     \* last_report_
  at,         \* the line a scanner gives the next id to
  previous,   \* entries of the last cycle
  current,    \* entries of this cycle
  claimed,    \* claimed_ids_
  nextId,     \* next_id_
  origin,     \* where the line was that an id was first given to
  lone        \* the last report, if it named a single line

vars == <<pc, scan, report, at, previous, current, claimed, nextId, origin, lone>>
tracker == <<previous, current, claimed, nextId, origin>>

-----------------------------------------------------------------------------
(* Geometry.                                                               *)

Sq(n) == n * n
Dist2(p, q) == Sq(p.x - q.x) + Sq(p.y - q.y)
Cross(a, b, p) == (b.x - a.x) * (p.y - a.y) - (b.y - a.y) * (p.x - a.x)

(* The distance of p from the line through a and b exceeds the root of     *)
(* limit; from a itself when a and b coincide.                             *)
Beyond(a, b, p, limit) ==
  IF a = b THEN Dist2(a, p) > limit
           ELSE Sq(Cross(a, b, p)) > limit * Dist2(a, b)

(* What maximal perpendicular distance is decided by.                      *)
Deviation(a, b, p) == IF a = b THEN Dist2(a, p) ELSE Sq(Cross(a, b, p))

-----------------------------------------------------------------------------
(* Segments.                                                               *)

(* Phase 1: a gap wider than the spacing of the beams at that range ends a *)
(* group.                                                                  *)
GapBefore(vs, i) ==
  LET p == vs[i - 1]
      range2 == Sq(p.x) + Sq(p.y)
  IN  Dist2(vs[i], p) > MinGap2 /\ 100 * Dist2(vs[i], p) > GapRate * range2

Starts(vs) == {1} \cup {i \in 2..Len(vs) : GapBefore(vs, i)}
Groups(vs) ==
  {g \in Starts(vs) \X (1..Len(vs)) :
     /\ g[1] <= g[2]
     /\ \A i \in (g[1] + 1)..g[2] : i \notin Starts(vs)
     /\ g[2] = Len(vs) \/ g[2] + 1 \in Starts(vs)}

(* Phase 1.5: a spike stands out of the line between its neighbours.       *)
Outlier(vs, g, i) ==
  /\ Outlier2 > 0
  /\ g[1] < i /\ i < g[2]
  /\ Beyond(vs[i - 1], vs[i + 1], vs[i], Outlier2)

Filtered(vs, g) ==
  LET keep == {i \in g[1]..g[2] : ~Outlier(vs, g, i)}
  IN  [i \in 1..Cardinality(keep) |-> vs[SetToSortSeq(keep, <)[i]]]

(* The vertex between first and last that deviates most, the first of them *)
(* when there are several.                                                 *)
Worst(f, first, last) ==
  CHOOSE k \in (first + 1)..(last - 1) :
    \A j \in (first + 1)..(last - 1) :
      LET dk == Deviation(f[first], f[last], f[k])
          dj == Deviation(f[first], f[last], f[j])
      IN  dk > dj \/ (dk = dj /\ k <= j)

(* Faulty variant: the right half of a split is forgotten.                 *)
FitLeft(f) ==
  LET dp[r \in (1..Len(f)) \X (1..Len(f))] ==
        IF r[2] <= r[1] + 1 THEN <<[from |-> f[r[1]], to |-> f[r[2]]]>>
        ELSE LET k == Worst(f, r[1], r[2]) IN
             IF ~Beyond(f[r[1]], f[r[2]], f[k], LineTol2)
               THEN <<[from |-> f[r[1]], to |-> f[r[2]]]>>
               ELSE dp[<<r[1], k>>]
  IN  dp[<<1, Len(f)>>]

(* Phase 2: Douglas-Peucker.  The stack of ranges, left half on top, makes *)
(* the lines come out in scan order.                                       *)
Fit(f) ==
  LET dp[r \in (1..Len(f)) \X (1..Len(f))] ==
        IF r[2] <= r[1] + 1 THEN <<[from |-> f[r[1]], to |-> f[r[2]]]>>
        ELSE LET k == Worst(f, r[1], r[2]) IN
             IF ~Beyond(f[r[1]], f[r[2]], f[k], LineTol2)
               THEN <<[from |-> f[r[1]], to |-> f[r[2]]]>>
               ELSE dp[<<r[1], k>>] \o dp[<<k, r[2]>>]
  IN  dp[<<1, Len(f)>>]

(* Groups with fewer than MinPoints vertices are noise.                    *)
EmitSegments(vs) ==
  LET kept == {g \in Groups(vs) : Len(Filtered(vs, g)) >= MinPoints}
      order == SetToSortSeq(kept, LAMBDA g, h : g[1] < h[1])
  IN  IF vs = <<>> THEN <<>>
      ELSE FlattenSeq([i \in 1..Len(order) |-> Fit(Filtered(vs, order[i]))])

(* A scan: the height of every vertex and what the point checker said of   *)
(* it.                                                                     *)
ScanInputs == [1..Columns -> [y : Heights, class : {"matched", "unmatched", "outside"}]]

Vertices(input, class) ==
  LET is == SetToSortSeq({i \in 1..Columns : input[i].class = class}, <)
  IN  [i \in 1..Len(is) |-> [x |-> Spacing * is[i], y |-> input[is[i]].y]]

(* The unmatched part of the report, ids still to come.  The matched lines *)
(* are fitted likewise and numbered from 0; nothing here depends on them.  *)
BuildReport(input) ==
  [unmatched |-> EmitSegments(Vertices(input, "unmatched")), ids |-> <<>>]

EmptyReport == [unmatched |-> <<>>, ids |-> <<>>]

-----------------------------------------------------------------------------
(* The tracker.                                                            *)

MinOf(a, b) == IF a < b THEN a ELSE b
MaxOf(a, b) == IF a < b THEN b ELSE a

Box(line) ==
  [x0 |-> MinOf(line.from.x, line.to.x), x1 |-> MaxOf(line.from.x, line.to.x),
   y0 |-> MinOf(line.from.y, line.to.y), y1 |-> MaxOf(line.from.y, line.to.y)]
Centre2(line) == [x |-> line.from.x + line.to.x, y |-> line.from.y + line.to.y]
Area(b) == (b.x1 - b.x0) * (b.y1 - b.y0)

ToGrid(v2) == v2 \div (2 * Cell)

(* The cells around the centroid and the box.                              *)
InWindow(e, line) ==
  LET c == Centre2(line)
      b == Box(line)
      near(v, w, lo, hi) ==
        /\ ToGrid(v) >= MinOf(ToGrid(w), ToGrid(2 * lo)) - 1
        /\ ToGrid(v) <= MaxOf(ToGrid(w), ToGrid(2 * hi)) + 1
  IN  near(e.centre.x, c.x, b.x0, b.x1) /\ near(e.centre.y, c.y, b.y0, b.y1)

Drifted(e, line) == MaxDrift2 > 0 /\ Dist2(Centre2(line), e.origin) > 4 * MaxDrift2

(* The score of an entry as a fraction: proximity, 0 beyond one and a half *)
(* cells, or overlap, whichever is larger.                                 *)
AtLeast(s, t) == s[1] * t[2] >= t[1] * s[2]
Proximity(e, line) ==
  LET d == Dist2(e.centre, Centre2(line))
      far == 9 * Sq(Cell)
  IN  IF d < far THEN <<far - d, far>> ELSE <<0, 1>>
Overlap(e, line) ==
  LET b == Box(line)
      w == MinOf(b.x1, e.box.x1) - MaxOf(b.x0, e.box.x0)
      h == MinOf(b.y1, e.box.y1) - MaxOf(b.y0, e.box.y0)
      a == MinOf(Area(b), Area(e.box))
  IN  IF w > 0 /\ h > 0 THEN <<a + w * h, 2 * a>> ELSE <<0, 1>>
Score(e, line) ==
  IF AtLeast(Proximity(e, line), Overlap(e, line)) THEN Proximity(e, line) ELSE Overlap(e, line)

(* Faulty variant: ids claimed in this cycle are candidates again.         *)
CandidatesClaimed(line) == {e \in previous : InWindow(e, line) /\ ~Drifted(e, line)}

Candidates(line) ==
  {e \in previous : /\ e.id \notin claimed
                    /\ InWindow(e, line)
                    /\ ~Drifted(e, line)}

(* The best of them.  Ties go to the lower cell; within a cell the order   *)
(* of std::sort is unspecified.                                            *)
Best(line) ==
  LET top == {e \in Candidates(line) :
                \A d \in Candidates(line) : AtLeast(Score(e, line), Score(d, line))}
      cell(e) == <<ToGrid(e.centre.x), ToGrid(e.centre.y)>>
      before(c, d) == c[1] < d[1] \/ (c[1] = d[1] /\ c[2] <= d[2])
  IN  {e \in top : \A d \in top : before(cell(e), cell(d))}

(* Faulty variant: an entry's origin follows the object.                   *)
EntryMoving(line, id, from) ==
  [centre |-> Centre2(line), box |-> Box(line), origin |-> Centre2(line), id |-> id]

Entry(line, id, from) ==
  [centre |-> Centre2(line), box |-> Box(line), origin |-> from, id |-> id]

-----------------------------------------------------------------------------
Init ==
  /\ pc = [s \in Scanners |-> "idle"]
  /\ scan = [s \in Scanners |-> <<>>]
  /\ report = EmptyReport
  /\ at = [s \in Scanners |-> 0]
  /\ previous = {} /\ current = {} /\ claimed = {}
  /\ nextId = 1
  /\ origin = <<>>
  /\ lone = EmptyReport

BeginScanCycle(s, input) ==
  /\ pc[s] = "idle"
  /\ pc' = [pc EXCEPT ![s] = "build"]
  /\ scan' = [scan EXCEPT ![s] = input]
  /\ current' = {} /\ claimed' = {}
  /\ UNCHANGED <<report, at, previous, nextId, origin, lone>>

Build(s) ==
  /\ pc[s] = "build"
  /\ report' = BuildReport(scan[s])
  /\ at' = [at EXCEPT ![s] = 1]
  /\ scan' = [scan EXCEPT ![s] = <<>>]
  /\ pc' = [pc EXCEPT ![s] = "ids"]
  /\ UNCHANGED <<tracker, lone>>

(* getOrAssignId for the next unmatched line.                              *)
GetOrAssignId(s) ==
  /\ pc[s] = "ids"
  /\ at[s] <= Len(report.unmatched)
  /\ LET line == report.unmatched[at[s]]
         take(id, from) ==
           /\ claimed' = claimed \cup {id}
           /\ current' = current \cup {Entry(line, id, from)}
           /\ report' = [report EXCEPT !.ids = Append(@, id)]
     IN  \/ /\ Best(line) = {}
            /\ nextId <= MaxId
            /\ take(nextId, Centre2(line))
            /\ nextId' = nextId + 1
            /\ origin' = Append(origin, Centre2(line))
         \/ /\ \E e \in Best(line) : take(e.id, e.origin)
            /\ UNCHANGED <<nextId, origin>>
  /\ at' = [at EXCEPT ![s] = @ + 1]
  /\ UNCHANGED <<pc, scan, previous, lone>>

(* publishReport sends the report to the clients; the change of frame it   *)
(* may make is undone before it returns and is not visible here.           *)
PublishReport(s) ==
  /\ pc[s] = "ids"
  /\ at[s] > Len(report.unmatched)
  /\ lone' = IF Len(report.unmatched) = 1 THEN report ELSE EmptyReport
  /\ pc' = [pc EXCEPT ![s] = "end"]
  /\ UNCHANGED <<scan, report, at, tracker>>

(* Faulty variant: the entries of the cycle are not kept for the next.     *)
EndScanCycleNoSwap(s) ==
  /\ pc[s] = "end"
  /\ current' = {} /\ claimed' = {}
  /\ pc' = [pc EXCEPT ![s] = "idle"]
  /\ UNCHANGED <<scan, report, at, previous, nextId, origin, lone>>

EndScanCycle(s) ==
  /\ pc[s] = "end"
  /\ previous' = current
  /\ current' = {} /\ claimed' = {}
  /\ pc' = [pc EXCEPT ![s] = "idle"]
  /\ UNCHANGED <<scan, report, at, nextId, origin, lone>>

Next ==
  \E s \in Scanners :
    \/ \E input \in ScanInputs : BeginScanCycle(s, input)
    \/ Build(s)
    \/ GetOrAssignId(s)
    \/ PublishReport(s)
    \/ EndScanCycle(s)

Spec == Init /\ [][Next]_vars

-----------------------------------------------------------------------------
(* No two lines of a published report have the same id, although ids are   *)
(* looked for greedily, line by line, among overlapping search windows.    *)
IdsUniqueInReport ==
  \A s \in Scanners : pc[s] = "end" =>
    \A i, j \in 1..Len(report.ids) : report.ids[i] = report.ids[j] => i = j

(* However often an id is handed on, it never denotes a line farther from  *)
(* the place where it was first given out than max_drift: a moving object  *)
(* does not keep its id.                                                   *)
IdStaysNearOrigin ==
  MaxDrift2 > 0 =>
    \A i \in 1..Len(report.ids) :
      Dist2(Centre2(report.unmatched[i]), origin[report.ids[i]]) <= 4 * MaxDrift2

(* The fit loses nothing: the lines of a group form a chain from its first *)
(* to its last vertex, and every vertex that is not a spike is within the  *)
(* tolerance of one of them.                                               *)
FitCovers(vs) ==
  \A g \in Groups(vs) :
    LET f == Filtered(vs, g)
        ls == Fit(f)
    IN  Len(f) >= MinPoints =>
          /\ ls[1].from = f[1] /\ ls[Len(ls)].to = f[Len(f)]
          /\ \A i \in 1..(Len(ls) - 1) : ls[i].to = ls[i + 1].from
          /\ \A p \in Range(f) : \E l \in Range(ls) :
               l.from.x <= p.x /\ p.x <= l.to.x /\ ~Beyond(l.from, l.to, p, LineTol2)

(* Every scan being reported is fitted that way, its matched and its       *)
(* unmatched vertices alike.                                               *)
FitWithinTolerance ==
  \A s \in Scanners :
    pc[s] = "build" =>
      /\ FitCovers(Vertices(scan[s], "matched"))
      /\ FitCovers(Vertices(scan[s], "unmatched"))

(* A feature that does not move keeps its id: when it is the only line of  *)
(* two consecutive reports, they name it by the same id.                   *)
StationaryKeepsId ==
  [][lone'.unmatched = lone.unmatched => lone'.ids = lone.ids]_vars
=============================================================================
