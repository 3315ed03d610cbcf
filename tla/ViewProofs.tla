------------------------------ MODULE ViewProofs ------------------------------
(* Proofs about Canvas and View, for a panel and an altimeter of any size,    *)
(* any documents, any air data and any number of balls.                       *)
(*                                                                            *)
(* A picture has any number of widgets, and Drawn goes through them: that is  *)
(* an induction over their number, for which the least number that a set of   *)
(* numbers lacks (WFMin) has to do.                                           *)
EXTENDS View, SequenceTheorems, WellFoundedInduction, TLAPS

-----------------------------------------------------------------------------
(* Induction. *)

\* A set that has 0, and n + 1 for every n it has, has all numbers.
LEMMA NumbersOf ==
    ASSUME NEW S, 0 \in S, \A n \in Nat : n \in S => n + 1 \in S
    PROVE  Nat \subseteq S
<1> DEFINE T == {n \in Nat : n \notin S}
           R == OpToRel(<, Nat)
<1>1. SUFFICES ASSUME T # {} PROVE FALSE
  OBVIOUS
<1>2. PICK x \in T : \A y \in T : ~(<<y, x>> \in R)
  <2>1. T \subseteq Nat
    OBVIOUS
  <2>2. IsWellFoundedOn(R, Nat)
    BY NatLessThanWellFounded
  <2> HIDE DEF T, R
  <2> QED
    BY <1>1, <2>1, <2>2, WFMin
<1>3. x \in Nat /\ x \notin S
  OBVIOUS
<1>4. x # 0 /\ x - 1 \in Nat /\ x - 1 < x
  BY <1>3
<1>5. x - 1 \notin T
  BY <1>2, <1>3, <1>4 DEF OpToRel
<1> QED
  BY <1>3, <1>4, <1>5

\* Induction up to a number.
LEMMA UpTo ==
    ASSUME NEW N \in Nat, NEW S, 0 \in S,
           \A n \in 0..(N - 1) : n \in S => n + 1 \in S
    PROVE  0..N \subseteq S
<1> DEFINE T == {n \in Nat : n \in 0..N => n \in S}
<1>1. 0 \in T
  OBVIOUS
<1>2. ASSUME NEW n \in Nat, n \in T PROVE n + 1 \in T
  <2>1. CASE n + 1 \in 0..N
    BY <1>2, <2>1
  <2>2. CASE n + 1 \notin 0..N
    BY <2>2
  <2> QED BY <2>1, <2>2
<1>3. Nat \subseteq T
  <2> HIDE DEF T
  <2> QED BY <1>1, <1>2, NumbersOf
<1> QED
  BY <1>3

\* The contexts between the widgets of a picture.
LEMMA DrawnInTurn ==
    ASSUME NEW g, NEW picture, Len(picture) \in Nat
    PROVE  \E after :
             /\ after[0] = g
             /\ \A n \in 1..Len(picture) : after[n] = Draw(after[n - 1], picture[n])
             /\ Drawn(g, picture) = after[Len(picture)]
<1> DEFINE N == Len(picture)
           Follows(f, m) ==
             f = [n \in 0..m |-> IF n = 0 THEN g ELSE Draw(f[n - 1], picture[n])]
           S == {m \in Nat : \E f : Follows(f, m)}
<1>1. 0 \in S
  <2> DEFINE f == [n \in 0..0 |-> g]
  <2>1. \A n \in 0..0 : n = 0
    OBVIOUS
  <2>2. Follows(f, 0)
    BY <2>1
  <2> QED BY <2>2
<1>2. ASSUME NEW m \in Nat, m \in S PROVE m + 1 \in S
  <2>1. PICK f : Follows(f, m)
    BY <1>2
  <2> DEFINE h == [n \in 0..(m + 1) |-> IF n = m + 1 THEN Draw(f[m], picture[m + 1]) ELSE f[n]]
  <2>2. ASSUME NEW n \in 0..(m + 1)
        PROVE h[n] = IF n = 0 THEN g ELSE Draw(h[n - 1], picture[n])
    <3>1. CASE n = 0
      <4>1. h[n] = f[0] /\ f[0] = g
        BY <3>1, <2>1
      <4> QED BY <4>1, <3>1
    <3>2. CASE n = m + 1
      <4>1. h[n - 1] = f[m] /\ n # 0
        BY <3>2
      <4> QED BY <4>1, <3>2
    <3>3. CASE n \in 1..m
      <4>1. h[n] = f[n] /\ h[n - 1] = f[n - 1] /\ n # 0
        BY <3>3
      <4>2. f[n] = Draw(f[n - 1], picture[n])
        BY <3>3, <2>1
      <4> QED BY <4>1, <4>2
    <3> QED BY <3>1, <3>2, <3>3
  <2>3. Follows(h, m + 1)
    <3>1. h = [n \in 0..(m + 1) |-> h[n]]
      OBVIOUS
    <3> HIDE DEF h
    <3> QED BY <2>2, <3>1
  <2> HIDE DEF h, Follows
  <2> QED BY <2>3
<1>3. N \in S
  <2> HIDE DEF S
  <2> QED BY <1>1, <1>2, NumbersOf
<1>4. \E f : Follows(f, N)
  BY <1>3
<1> DEFINE after == CHOOSE f : Follows(f, N)
<1>5. Follows(after, N)
  <2> HIDE DEF Follows
  <2> QED BY <1>4
<1>6. Drawn(g, picture) = after[N]
  BY DEF Drawn
<1>7. after[0] = g /\ \A n \in 1..N : after[n] = Draw(after[n - 1], picture[n])
  <2> HIDE DEF after
  <2> QED BY <1>5
<1> QED
  <2> HIDE DEF after
  <2> QED BY <1>6, <1>7


\* A context has these parts and no other.
Parts(turns, shape, saved, path, point, joined, marks) ==
    [turns |-> turns, clip |-> shape, saved |-> saved, path |-> path,
     point |-> point, joined |-> joined, marks |-> marks]

\* Another value for one part.
WithTurns(g, x) == [g EXCEPT !.turns = x]
WithClip(g, x) == [g EXCEPT !.clip = x]
WithSaved(g, x) == [g EXCEPT !.saved = x]
WithPath(g, x) == [g EXCEPT !.path = x]
WithPoint(g, x) == [g EXCEPT !.point = x]
WithJoined(g, x) == [g EXCEPT !.joined = x]
WithMarks(g, x) == [g EXCEPT !.marks = x]

\* A context with another value for one part has the others as they were.
LEMMA OtherPart ==
    ASSUME NEW t, NEW c, NEW s, NEW p, NEW n, NEW j, NEW m, NEW x
    PROVE  LET g == Parts(t, c, s, p, n, j, m)
           IN  /\ WithTurns(g, x) = Parts(x, c, s, p, n, j, m)
               /\ WithClip(g, x) = Parts(t, x, s, p, n, j, m)
               /\ WithSaved(g, x) = Parts(t, c, x, p, n, j, m)
               /\ WithPath(g, x) = Parts(t, c, s, x, n, j, m)
               /\ WithPoint(g, x) = Parts(t, c, s, p, x, j, m)
               /\ WithJoined(g, x) = Parts(t, c, s, p, n, x, m)
               /\ WithMarks(g, x) = Parts(t, c, s, p, n, j, x)
<1>1. WithTurns(Parts(t, c, s, p, n, j, m), x) = Parts(x, c, s, p, n, j, m)
  BY DEF Parts, WithTurns
<1>2. WithClip(Parts(t, c, s, p, n, j, m), x) = Parts(t, x, s, p, n, j, m)
  BY DEF Parts, WithClip
<1>3. WithSaved(Parts(t, c, s, p, n, j, m), x) = Parts(t, c, x, p, n, j, m)
  BY DEF Parts, WithSaved
<1>4. WithPath(Parts(t, c, s, p, n, j, m), x) = Parts(t, c, s, x, n, j, m)
  BY DEF Parts, WithPath
<1>5. WithPoint(Parts(t, c, s, p, n, j, m), x) = Parts(t, c, s, p, x, j, m)
  BY DEF Parts, WithPoint
<1>6. WithJoined(Parts(t, c, s, p, n, j, m), x) = Parts(t, c, s, p, n, x, m)
  BY DEF Parts, WithJoined
<1>7. WithMarks(Parts(t, c, s, p, n, j, m), x) = Parts(t, c, s, p, n, j, x)
  BY DEF Parts, WithMarks
<1> QED
  BY <1>1, <1>2, <1>3, <1>4, <1>5, <1>6, <1>7

\* The parts are what they are called.
LEMMA PartsOf ==
    ASSUME NEW t, NEW c, NEW s, NEW p, NEW n, NEW j, NEW m
    PROVE  LET g == Parts(t, c, s, p, n, j, m)
           IN  /\ g.turns = t /\ g.clip = c /\ g.saved = s /\ g.path = p
               /\ g.point = n /\ g.joined = j /\ g.marks = m
BY DEF Parts

(* The solvers take a truth value that a name stands for for a value like any *)
(* other, and so find the context of an equation that it is an argument of.   *)
true == TRUE
false == FALSE
or(a, b) == a \/ b

(* The calls of cairo, part by part. *)

\* new_path() leaves no path, no point and no line that joins.
LEMMA NewPath ==
    ASSUME NEW t, NEW c, NEW s, NEW p, NEW n, NEW j, NEW m
    PROVE  new_path(Parts(t, c, s, p, n, j, m)) = Parts(t, c, s, {}, false, false, m)
<1>1. \A x : new_path(x) = WithJoined(WithPoint(WithPath(x, {}), false), false)
  BY Zenon DEF new_path, WithPath, WithPoint, WithJoined, false
<1> QED BY <1>1, OtherPart

\* move_to() leaves a point, and the path.
LEMMA MoveTo ==
    ASSUME NEW t, NEW c, NEW s, NEW p, NEW n, NEW j, NEW m
    PROVE  move_to(Parts(t, c, s, p, n, j, m)) = Parts(t, c, s, p, true, j, m)
<1>1. \A x : move_to(x) = WithPoint(x, true)
  BY Zenon DEF move_to, WithPoint, true
<1> QED BY <1>1, OtherPart

\* arc_to() joins the arc to a point that there was.
LEMMA ArcTo ==
    ASSUME NEW t, NEW c, NEW s, NEW p, NEW n, NEW j, NEW m
    PROVE  arc_to(Parts(t, c, s, p, n, j, m)) = Parts(t, c, s, p, true, or(j, n), m)
<1>1. \A x : arc_to(x) = WithPoint(WithJoined(x, or(x.joined, x.point)), true)
  BY Zenon DEF arc_to, WithPoint, WithJoined, true, or
<1>2. WithJoined(Parts(t, c, s, p, n, j, m), or(j, n)) = Parts(t, c, s, p, n, or(j, n), m)
  BY OtherPart
<1>3. WithPoint(Parts(t, c, s, p, n, or(j, n), m), true) = Parts(t, c, s, p, true, or(j, n), m)
  BY OtherPart
<1> QED BY <1>1, <1>2, <1>3, PartsOf

\* rectangle_to() adds the cells of the rectangle, turned.
LEMMA RectangleTo ==
    ASSUME NEW t, NEW c, NEW s, NEW p, NEW n, NEW j, NEW m, NEW area
    PROVE  rectangle_to(Parts(t, c, s, p, n, j, m), area) =
                Parts(t, c, s, p \cup Turned(area, t), true, j, m)
<1>1. \A x : rectangle_to(x, area) =
            WithPoint(WithPath(x, x.path \cup Turned(area, x.turns)), true)
  BY Zenon DEF rectangle_to, WithPath, WithPoint, true
<1> DEFINE path == p \cup Turned(area, t)
<1>2. WithPath(Parts(t, c, s, p, n, j, m), path) = Parts(t, c, s, path, n, j, m)
  BY OtherPart
<1>3. WithPoint(Parts(t, c, s, path, n, j, m), true) = Parts(t, c, s, path, true, j, m)
  BY OtherPart
<1> QED BY <1>1, <1>2, <1>3, PartsOf

\* turn() turns and does nothing else.
LEMMA Turn ==
    ASSUME NEW t, NEW c, NEW s, NEW p, NEW n, NEW j, NEW m
    PROVE  turn(Parts(t, c, s, p, n, j, m)) = Parts((t + 1) % 4, c, s, p, n, j, m)
<1>1. \A x : turn(x) = WithTurns(x, (x.turns + 1) % 4)
  BY Zenon DEF turn, WithTurns
<1>2. Parts(t, c, s, p, n, j, m).turns = t
  BY PartsOf
<1>3. \A x : WithTurns(Parts(t, c, s, p, n, j, m), x) = Parts(x, c, s, p, n, j, m)
  BY OtherPart
<1> HIDE DEF Parts
<1> QED BY <1>1, <1>2, <1>3

\* clip() narrows the clip to the path, and uses the path up.
LEMMA Clip ==
    ASSUME NEW t, NEW c, NEW s, NEW p, NEW n, NEW j, NEW m
    PROVE  clip(Parts(t, c, s, p, n, j, m)) = Parts(t, c \cap p, s, {}, false, false, m)
<1>1. \A x : clip(x) = new_path(WithClip(x, x.clip \cap x.path))
  BY Zenon DEF clip, WithClip
<1>2. WithClip(Parts(t, c, s, p, n, j, m), c \cap p) = Parts(t, c \cap p, s, p, n, j, m)
  BY OtherPart
<1> QED BY <1>1, <1>2, PartsOf, NewPath

\* save() keeps the turns and the clip.
LEMMA SaveParts ==
    ASSUME NEW t, NEW c, NEW s, NEW p, NEW n, NEW j, NEW m
    PROVE  save(Parts(t, c, s, p, n, j, m)) =
                Parts(t, c, Append(s, [turns |-> t, clip |-> c]), p, n, j, m)
<1>1. \A x : save(x) = WithSaved(x, Append(x.saved, [turns |-> x.turns, clip |-> x.clip]))
  BY Zenon DEF save, WithSaved
<1> QED BY <1>1, OtherPart, PartsOf

\* restore() brings back what was kept last.
LEMMA RestoreParts ==
    ASSUME NEW t, NEW c, NEW s, NEW p, NEW n, NEW j, NEW m
    PROVE  restore(Parts(t, c, s, p, n, j, m)) =
                Parts(Last(s).turns, Last(s).clip, Front(s), p, n, j, m)
<1>1. \A x : restore(x) = WithClip(WithTurns(WithSaved(x, Front(x.saved)),
                                         Last(x.saved).turns), Last(x.saved).clip)
  BY Zenon DEF restore, WithSaved, WithTurns, WithClip
<1>2. WithSaved(Parts(t, c, s, p, n, j, m), Front(s)) = Parts(t, c, Front(s), p, n, j, m)
  BY OtherPart
<1>3. \A x, y : WithClip(WithTurns(Parts(t, c, Front(s), p, n, j, m), x), y) =
                    Parts(x, y, Front(s), p, n, j, m)
  BY OtherPart
<1> QED BY <1>1, <1>2, <1>3, PartsOf

\* Between two widgets: the path is used up, but for the point after a text.
Rests(g) ==
    /\ g = Parts(g.turns, g.clip, g.saved, {}, g.point, false, g.marks)
    /\ \E S : g.marks \in Seq(S)

Shapes == {"line", "arc", "disc", "rectangle", "text"}

\* What a widget may touch, and the mark that it leaves.
Touched(g, e) ==
    IF e.shape = "rectangle" THEN Turned(e.area, g.turns) \cap g.clip ELSE g.clip
MarkOf(g, e) ==
    [what |-> e.what, says |-> e.says, number |-> e.number,
     place |-> Turned(e.area, g.turns), cells |-> Touched(g, e), joined |-> false]

\* A widget leaves one mark, and nothing behind but the current point.
LEMMA DrawLeavesMark ==
    ASSUME NEW g, Rests(g), NEW e, e.shape \in Shapes
    PROVE  \E point :
             Draw(g, e) = Parts(g.turns, g.clip, g.saved, {}, point, false,
                                Append(g.marks, MarkOf(g, e)))
<1> DEFINE t == g.turns
           c == g.clip
           s == g.saved
           n == g.point
           m == g.marks
           M == Append(m, MarkOf(g, e))
<1>1. g = Parts(t, c, s, {}, n, false, m)
  BY DEF Rests
<1>2. \A p, x, j : Marked(Parts(t, c, s, p, x, j, m), e, Touched(g, e), false) =
                        Parts(t, c, s, p, x, j, M)
  <2> TAKE p, x, j
  <2>1. WithMarks(Parts(t, c, s, p, x, j, m), M) = Parts(t, c, s, p, x, j, M)
    BY OtherPart
  <2>2. Marked(Parts(t, c, s, p, x, j, m), e, Touched(g, e), false) =
            WithMarks(Parts(t, c, s, p, x, j, m), M)
    <3>1. Parts(t, c, s, p, x, j, m).marks = m /\ Parts(t, c, s, p, x, j, m).turns = g.turns
      BY PartsOf
    <3> QED BY <3>1, Zenon DEF Marked, WithMarks, MarkOf
  <2> QED BY <2>1, <2>2
<1>3. \A x : Draw(g, e) =
        CASE e.shape = "line" -> stroke(move_to(g), e)
          [] e.shape = "arc" -> stroke(arc_to(new_path(g)), e)
          [] e.shape = "disc" -> fill(arc_to(g), e, c)
          [] e.shape = "rectangle" -> fill(rectangle_to(g, e.area), e, rectangle_to(g, e.area).path)
          [] e.shape = "text" -> show_text(move_to(g), e)
  BY Zenon DEF Draw, DrawLine, DrawArc, DrawDisc, DrawRectangle, DrawText
<1> HIDE DEF t, c, s, n, m, M
<1>4. \A x : /\ stroke(x, e) = new_path(Marked(x, e, x.clip, x.joined))
             /\ \A cells : fill(x, e, cells) = new_path(Marked(x, e, cells \cap x.clip, false))
             /\ show_text(x, e) = move_to(Marked(x, e, x.clip, false))
  BY Zenon DEF stroke, fill, show_text, false
<1>5. or(false, false) = false
  BY Zenon DEF or, false
<1>6. CASE e.shape = "line"
  <2>1. move_to(g) = Parts(t, c, s, {}, true, false, m)
    BY <1>1, MoveTo
  <2>2. Touched(g, e) = c
    BY <1>6 DEF Touched, c
  <2>3. stroke(move_to(g), e) = new_path(Parts(t, c, s, {}, true, false, M))
    BY <1>2, <1>4, <2>1, <2>2, PartsOf
  <2>4. Draw(g, e) = stroke(move_to(g), e)
    BY <1>3, <1>6
  <2> QED BY <2>3, <2>4, NewPath DEF t, c, s, M, m
<1>7. CASE e.shape = "arc"
  <2>1. new_path(g) = Parts(t, c, s, {}, false, false, m)
    BY <1>1, NewPath
  <2>2. arc_to(new_path(g)) = Parts(t, c, s, {}, true, false, m)
    BY <1>5, <2>1, ArcTo
  <2>3. Touched(g, e) = c
    BY <1>7 DEF Touched, c
  <2>4. stroke(arc_to(new_path(g)), e) = new_path(Parts(t, c, s, {}, true, false, M))
    BY <1>2, <1>4, <2>2, <2>3, PartsOf
  <2>5. Draw(g, e) = stroke(arc_to(new_path(g)), e)
    BY <1>3, <1>7
  <2> QED BY <2>4, <2>5, NewPath DEF t, c, s, M, m
<1>8. CASE e.shape = "disc"
  <2>1. arc_to(g) = Parts(t, c, s, {}, true, or(false, n), m)
    BY <1>1, ArcTo
  <2>2. Touched(g, e) = c \cap c
    BY <1>8 DEF Touched, c
  <2>3. fill(arc_to(g), e, c) = new_path(Parts(t, c, s, {}, true, or(false, n), M))
    BY <1>2, <1>4, <2>1, <2>2, PartsOf
  <2>4. Draw(g, e) = fill(arc_to(g), e, c)
    BY <1>3, <1>8
  <2> QED BY <2>3, <2>4, NewPath DEF t, c, s, M, m
<1>9. CASE e.shape = "rectangle"
  <2> DEFINE path == Turned(e.area, t)
  <2>1. rectangle_to(g, e.area) = Parts(t, c, s, path, true, false, m)
    <3>1. ASSUME NEW p, NEW x
          PROVE  rectangle_to(Parts(t, c, s, p, n, false, m), x) =
                    Parts(t, c, s, p \cup Turned(x, t), true, false, m)
      BY RectangleTo
    <3>2. {} \cup path = path
      OBVIOUS
    <3> QED BY <1>1, <3>1, <3>2
  <2>2. Touched(g, e) = path \cap c
    BY <1>9 DEF Touched, c, t
  <2>3. fill(rectangle_to(g, e.area), e, path) = new_path(Parts(t, c, s, path, true, false, M))
    <3> HIDE DEF path
    <3> QED BY <1>2, <1>4, <2>1, <2>2, PartsOf
  <2>4. Draw(g, e) = fill(rectangle_to(g, e.area), e, path)
    <3>1. rectangle_to(g, e.area).path = path
      BY <2>1, PartsOf
    <3> QED BY <1>3, <1>9, <3>1
  <2> QED BY <2>3, <2>4, NewPath DEF t, c, s, M, m
<1>10. CASE e.shape = "text"
  <2>1. move_to(g) = Parts(t, c, s, {}, true, false, m)
    BY <1>1, MoveTo
  <2>2. Touched(g, e) = c
    BY <1>10 DEF Touched, c
  <2>3. show_text(move_to(g), e) = move_to(Parts(t, c, s, {}, true, false, M))
    BY <1>2, <1>4, <2>1, <2>2, PartsOf
  <2>4. Draw(g, e) = show_text(move_to(g), e)
    BY <1>3, <1>10
  <2> QED BY <2>3, <2>4, MoveTo DEF t, c, s, M, m
<1> QED
  BY <1>6, <1>7, <1>8, <1>9, <1>10 DEF Shapes

\* h is the context g after n widgets of a picture: nothing but marks and the
\* current point are new.
AfterWidgets(g, picture, n, h) ==
    /\ Rests(h) /\ h.turns = g.turns /\ h.clip = g.clip /\ h.saved = g.saved
    /\ Len(h.marks) = Len(g.marks) + n
    /\ \A k \in 1..Len(g.marks) : h.marks[k] = g.marks[k]
    /\ \A k \in 1..n : h.marks[Len(g.marks) + k] = MarkOf(g, picture[k])

\* A picture leaves one mark for each of its widgets, in order, after those that
\* were there, each within the clip and joined to nothing; and it leaves the
\* turns, the clip and what was saved as they were (widgets.cpp:6-224).
THEOREM PictureLeavesMarks ==
    ASSUME NEW g, Rests(g), NEW S, NEW picture \in Seq(S), \A e \in S : e.shape \in Shapes
    PROVE  AfterWidgets(g, picture, Len(picture), Drawn(g, picture))
<1>1. Len(picture) \in Nat /\ \A n \in 1..Len(picture) : picture[n] \in S
  BY LenProperties, ElementOfSeq
<1>2. PICK after :
        /\ after[0] = g
        /\ \A n \in 1..Len(picture) : after[n] = Draw(after[n - 1], picture[n])
        /\ Drawn(g, picture) = after[Len(picture)]
  BY <1>1, DrawnInTurn
<1> DEFINE Done == {n \in 0..Len(picture) : AfterWidgets(g, picture, n, after[n])}
<1>3. 0 \in Done
  <2>1. Len(g.marks) \in Nat
    BY LenProperties DEF Rests
  <2> QED BY <1>1, <1>2, <2>1 DEF AfterWidgets
<1>4. ASSUME NEW n \in 0..(Len(picture) - 1), n \in Done
      PROVE  n + 1 \in Done
  <2> DEFINE h == after[n]
             e == picture[n + 1]
  <2>1. AfterWidgets(g, picture, n, h) /\ n \in Nat /\ n + 1 \in 1..Len(picture)
    BY <1>1, <1>4
  <2>2. after[n + 1] = Draw(h, e) /\ e.shape \in Shapes
    BY <1>1, <1>2, <2>1
  <2> HIDE DEF h, e
  <2>3. PICK point : Draw(h, e) = Parts(h.turns, h.clip, h.saved, {}, point, false,
                                        Append(h.marks, MarkOf(h, e)))
    BY <2>1, <2>2, DrawLeavesMark DEF AfterWidgets
  <2>4. MarkOf(h, e) = MarkOf(g, e)
    BY <2>1 DEF AfterWidgets, MarkOf, Touched
  <2>5. PICK T : h.marks \in Seq(T) /\ MarkOf(g, e) \in T
    <3>1. PICK U : h.marks \in Seq(U)
      BY <2>1 DEF AfterWidgets, Rests
    <3>2. h.marks \in Seq(U \cup {MarkOf(g, e)})
      BY <3>1, SeqMonotonic
    <3> QED BY <3>2
  <2> DEFINE M == Append(h.marks, MarkOf(g, e))
  <2>6. /\ M \in Seq(T) /\ Len(M) = Len(h.marks) + 1
        /\ \A k \in 1..Len(h.marks) : M[k] = h.marks[k]
        /\ M[Len(h.marks) + 1] = MarkOf(g, e)
        /\ Len(h.marks) \in Nat
    BY <2>5, AppendProperties, LenProperties
  <2> HIDE DEF M
  <2> DEFINE d == Draw(h, e)
  <2>7. d = Parts(h.turns, h.clip, h.saved, {}, point, false, M)
    BY <2>3, <2>4 DEF M
  <2> HIDE DEF d
  <2>8. Rests(d) /\ d.turns = h.turns /\ d.clip = h.clip /\ d.saved = h.saved /\ d.marks = M
    <3>1. /\ d.turns = h.turns /\ d.clip = h.clip /\ d.saved = h.saved
          /\ d.point = point /\ d.marks = M
      BY <2>7, PartsOf
    <3> QED BY <2>6, <2>7, <3>1 DEF Rests
  <2> DEFINE before == Len(g.marks)
  <2>9. before \in Nat /\ Len(h.marks) = before + n
    <3>1. before \in Nat
      BY LenProperties DEF Rests
    <3> QED BY <2>1, <3>1 DEF AfterWidgets
  <2> HIDE DEF before
  <2>10. /\ \A k \in 1..before : h.marks[k] = g.marks[k]
         /\ \A k \in 1..n : h.marks[before + k] = MarkOf(g, picture[k])
         /\ h.turns = g.turns /\ h.clip = g.clip /\ h.saved = g.saved
    BY <2>1 DEF AfterWidgets, before
  <2>11. \A k \in 1..before : M[k] = g.marks[k]
    <3> TAKE k \in 1..before
    <3>1. k \in 1..Len(h.marks)
      BY <2>1, <2>9
    <3> QED BY <2>6, <2>10, <3>1
  <2>12. ASSUME NEW k \in 1..(n + 1)
         PROVE  M[before + k] = MarkOf(g, picture[k])
    <3>1. CASE k = n + 1
      <4>1. before + (n + 1) = Len(h.marks) + 1
        BY <2>1, <2>9
      <4>2. M[Len(h.marks) + 1] = MarkOf(g, e)
        BY <2>6
      <4> QED BY <3>1, <4>1, <4>2 DEF e
    <3>2. CASE k \in 1..n
      <4>1. before + k \in 1..Len(h.marks)
        BY <2>1, <2>9, <3>2
      <4> QED BY <2>6, <2>10, <3>2, <4>1
    <3> QED BY <2>1, <3>1, <3>2
  <2>13. AfterWidgets(g, picture, n + 1, d)
    <3>1. Len(M) = before + (n + 1)
      BY <2>1, <2>6, <2>9
    <3> QED BY <2>8, <2>10, <2>11, <2>12, <3>1 DEF AfterWidgets, before
  <2> QED BY <2>1, <2>2, <2>13 DEF d
<1>5. Len(picture) \in Done
  <2> HIDE DEF Done
  <2>1. 0..Len(picture) \subseteq Done
    BY <1>1, <1>3, <1>4, UpTo
  <2> QED BY <1>1, <2>1
<1> QED BY <1>2, <1>5

\* The marks of h are those of g and, behind them, one for each widget of a
\* picture, that touches no cell outside of some.
Adds(g, picture, within, h) ==
    /\ Len(h.marks) = Len(g.marks) + Len(picture)
    /\ \A k \in 1..Len(g.marks) : h.marks[k] = g.marks[k]
    /\ \A k \in 1..Len(picture) :
        LET m == h.marks[Len(g.marks) + k]
        IN  /\ m.what = picture[k].what /\ m.says = picture[k].says
            /\ m.cells \subseteq within /\ m.joined = false

\* A picture drawn as it is.
LEMMA DrawnAdds ==
    ASSUME NEW g, Rests(g), NEW S, NEW picture \in Seq(S), \A e \in S : e.shape \in Shapes
    PROVE  LET h == Drawn(g, picture)
           IN  /\ Rests(h) /\ h.turns = g.turns /\ h.clip = g.clip /\ h.saved = g.saved
               /\ Adds(g, picture, g.clip, h)
<1> DEFINE h == Drawn(g, picture)
<1>1. AfterWidgets(g, picture, Len(picture), h)
  BY PictureLeavesMarks
<1> HIDE DEF h
<1>2. \A e : /\ MarkOf(g, e).what = e.what /\ MarkOf(g, e).says = e.says
             /\ MarkOf(g, e).cells \subseteq g.clip /\ MarkOf(g, e).joined = false
  BY DEF MarkOf, Touched
<1>3. Adds(g, picture, g.clip, h)
  BY <1>1, <1>2 DEF AfterWidgets, Adds
<1> QED BY <1>1, <1>3 DEF AfterWidgets, h

\* A picture drawn in a region: what was saved is in force again afterwards.
LEMMA ClippedAdds ==
    ASSUME NEW g, Rests(g), NEW top, g.saved = <<top>>, NEW region,
           NEW S, NEW picture \in Seq(S), \A e \in S : e.shape \in Shapes
    PROVE  LET h == Clipped(g, region, picture)
           IN  /\ Rests(h) /\ h.turns = top.turns /\ h.clip = top.clip /\ h.saved = <<>>
               /\ Adds(g, picture, g.clip \cap Turned(region, g.turns), h)
<1> DEFINE within == g.clip \cap Turned(region, g.turns)
           q == clip(rectangle_to(g, region))
           d == Drawn(q, picture)
           h == restore(d)
<1>1. q = Parts(g.turns, within, g.saved, {}, false, false, g.marks)
  <2>1. g = Parts(g.turns, g.clip, g.saved, {}, g.point, false, g.marks)
    BY DEF Rests
  <2>2. ASSUME NEW t, NEW c, NEW s, NEW n, NEW m
        PROVE  clip(rectangle_to(Parts(t, c, s, {}, n, false, m), region)) =
                  Parts(t, c \cap Turned(region, t), s, {}, false, false, m)
    <3> DEFINE path == {} \cup Turned(region, t)
    <3>1. rectangle_to(Parts(t, c, s, {}, n, false, m), region) =
              Parts(t, c, s, path, true, false, m)
      BY RectangleTo
    <3>2. path = Turned(region, t)
      OBVIOUS
    <3> HIDE DEF path
    <3>3. clip(Parts(t, c, s, path, true, false, m)) =
              Parts(t, c \cap path, s, {}, false, false, m)
      BY Clip
    <3> QED BY <3>1, <3>2, <3>3
  <2> QED BY <2>1, <2>2
<1> HIDE DEF within, q
<1>2. /\ q.turns = g.turns /\ q.clip = within /\ q.saved = g.saved
      /\ q.marks = g.marks /\ q.point = false
  BY <1>1, PartsOf
<1>3. Rests(q)
  BY <1>1, <1>2 DEF Rests
<1>4. /\ Rests(d) /\ d.turns = q.turns /\ d.clip = q.clip /\ d.saved = q.saved
      /\ Adds(q, picture, q.clip, d)
  BY <1>3, DrawnAdds
<1> HIDE DEF d
<1>5. h = Parts(top.turns, top.clip, <<>>, {}, d.point, false, d.marks)
  <2>1. d = Parts(d.turns, d.clip, <<top>>, {}, d.point, false, d.marks)
    BY <1>2, <1>4 DEF Rests
  <2>2. Last(<<top>>) = top /\ Front(<<top>>) = <<>>
    BY DEF Last, Front
  <2>3. ASSUME NEW t, NEW c, NEW s, NEW n, NEW m
        PROVE  restore(Parts(t, c, s, {}, n, false, m)) =
                  Parts(Last(s).turns, Last(s).clip, Front(s), {}, n, false, m)
    BY RestoreParts
  <2> QED BY <2>1, <2>2, <2>3
<1> HIDE DEF h
<1>6. /\ h.turns = top.turns /\ h.clip = top.clip /\ h.saved = <<>> /\ h.point = d.point
      /\ h.marks = d.marks
  BY <1>5, PartsOf
<1>7. Rests(h)
  BY <1>4, <1>5, <1>6 DEF Rests
<1>8. Adds(g, picture, within, h)
  BY <1>2, <1>4, <1>6 DEF Adds
<1>9. Clipped(g, region, picture) = h
  BY Zenon DEF Clipped, h, d, q
<1> QED BY <1>6, <1>7, <1>8, <1>9 DEF within

\* The context that is saved, and that has nothing saved before.
LEMMA SaveRests ==
    ASSUME NEW g, Rests(g), g.saved = <<>>
    PROVE  /\ Rests(save(g)) /\ save(g).turns = g.turns /\ save(g).clip = g.clip
           /\ save(g).saved = <<[turns |-> g.turns, clip |-> g.clip]>>
           /\ save(g).marks = g.marks
<1> DEFINE top == [turns |-> g.turns, clip |-> g.clip]
           s == save(g)
<1>1. s = Parts(g.turns, g.clip, <<top>>, {}, g.point, false, g.marks)
  <2> DEFINE t == g.turns
             c == g.clip
             before == g.saved
             n == g.point
             m == g.marks
  <2>1. g = Parts(t, c, before, {}, n, false, m)
    BY DEF Rests
  <2> HIDE DEF t, c, before, n, m
  <2>2. save(Parts(t, c, before, {}, n, false, m)) =
            Parts(t, c, Append(before, [turns |-> t, clip |-> c]), {}, n, false, m)
    BY SaveParts
  <2>3. s = Parts(g.turns, g.clip, Append(g.saved, top), {}, g.point, false, g.marks)
    BY <2>1, <2>2 DEF t, c, before, n, m
  <2>4. Append(g.saved, top) = <<top>>
    OBVIOUS
  <2> HIDE DEF s, top
  <2> QED BY <2>3, <2>4
<1> HIDE DEF s, top
<1>2. /\ s.turns = g.turns /\ s.clip = g.clip /\ s.saved = <<top>>
      /\ s.marks = g.marks /\ s.point = g.point
  BY <1>1, PartsOf
<1>3. Rests(s)
  BY <1>1, <1>2 DEF Rests
<1> QED BY <1>2, <1>3 DEF s, top

\* A context that is turned is the same in everything else.
LEMMA TurnRests ==
    ASSUME NEW g, Rests(g)
    PROVE  /\ Rests(turn(g)) /\ turn(g).turns = (g.turns + 1) % 4 /\ turn(g).clip = g.clip
           /\ turn(g).saved = g.saved /\ turn(g).marks = g.marks
<1> DEFINE h == turn(g)
<1>1. h = Parts((g.turns + 1) % 4, g.clip, g.saved, {}, g.point, false, g.marks)
  <2>1. g = Parts(g.turns, g.clip, g.saved, {}, g.point, false, g.marks)
    BY DEF Rests
  <2>2. ASSUME NEW t, NEW c, NEW s, NEW n, NEW m
        PROVE  turn(Parts(t, c, s, {}, n, false, m)) = Parts((t + 1) % 4, c, s, {}, n, false, m)
    BY Turn
  <2> QED BY <2>1, <2>2
<1> DEFINE turns == (g.turns + 1) % 4
<1> HIDE DEF h, turns
<1>2. /\ h.turns = turns /\ h.clip = g.clip /\ h.saved = g.saved
      /\ h.point = g.point /\ h.marks = g.marks
  BY <1>1, PartsOf DEF turns
<1>3. Rests(h)
  BY <1>1, <1>2 DEF Rests, turns
<1> QED BY <1>2, <1>3 DEF h, turns

\* A context without its marks, at the end of a frame.
LEMMA FlushRests ==
    ASSUME NEW g, Rests(g), NEW h, h = [g EXCEPT !.marks = <<>>]
    PROVE  /\ Rests(h) /\ h.turns = g.turns /\ h.clip = g.clip
           /\ h.saved = g.saved /\ h.marks = <<>>
<1>1. h = WithMarks(g, <<>>)
  BY Zenon DEF WithMarks
<1>2. h = Parts(g.turns, g.clip, g.saved, {}, g.point, false, <<>>)
  <2>1. g = Parts(g.turns, g.clip, g.saved, {}, g.point, false, g.marks)
    BY DEF Rests
  <2>2. ASSUME NEW t, NEW c, NEW s, NEW n, NEW m
        PROVE  WithMarks(Parts(t, c, s, {}, n, false, m), <<>>) = Parts(t, c, s, {}, n, false, <<>>)
    BY OtherPart
  <2> QED BY <1>1, <2>1, <2>2
<1>3. /\ h.turns = g.turns /\ h.clip = g.clip /\ h.saved = g.saved
      /\ h.point = g.point /\ h.marks = <<>>
  BY <1>2, PartsOf
<1>4. Rests(h)
  BY <1>2, <1>3 DEF Rests
<1> QED BY <1>3, <1>4

-----------------------------------------------------------------------------
(* The pictures. *)

Widgets(kinds, texts) ==
    [shape : Shapes, number : Nat, what : kinds, says : texts, area : SUBSET (Int \X Int)]

\* The cells of the panel have whole numbers.
LEMMA AreaCells ==
    ASSUME NEW left \in Int, NEW top \in Int, NEW width \in Int, NEW height \in Int
    PROVE  Area(left, top, width, height) \in SUBSET (Int \X Int)
BY DEF Area

\* One widget after the other, of the kinds and with the texts of some.
LEMMA PicturesOf ==
    ASSUME NEW kinds, NEW texts, "nothing" \in texts
    PROVE  LET S == Widgets(kinds, texts)
           IN  /\ \A w \in kinds, n \in Nat :
                    /\ lines(n, w) \in Seq(S) /\ discs(n, w) \in Seq(S)
                    /\ rosette(n, w) \in Seq(S)
               /\ \A w \in kinds :
                    /\ line(w) \in Seq(S) /\ arc(w) \in Seq(S) /\ disc(w) \in Seq(S)
                    /\ panel(w) \in Seq(S) /\ round_rectangle(w) \in Seq(S)
               /\ \A w \in kinds, area \in SUBSET (Int \X Int) : rectangle(w, area) \in Seq(S)
               /\ \A w \in kinds, t \in texts : draw_text(w, t) \in Seq(S)
<1> DEFINE S == Widgets(kinds, texts)
<1>1. \A w \in kinds, n \in Nat, shape \in Shapes : widgets(n, shape, w) \in Seq(S)
  BY DEF widgets, Widgets
<1>2. \A w \in kinds, t \in texts : draw_text(w, t) \in Seq(S)
  BY DEF draw_text, Widgets, Shapes
<1>3. \A w \in kinds, area \in SUBSET (Int \X Int) : rectangle(w, area) \in Seq(S)
  BY DEF rectangle, Widgets, Shapes
<1>4. \A p, q \in Seq(S) : p \o q \in Seq(S)
  BY ConcatProperties
<1> HIDE DEF S
<1>5. \A w \in kinds, n \in Nat :
          lines(n, w) \in Seq(S) /\ discs(n, w) \in Seq(S) /\ rosette(n, w) \in Seq(S)
  BY <1>1 DEF lines, discs, rosette, Shapes
<1>6. \A w \in kinds : line(w) \in Seq(S) /\ arc(w) \in Seq(S) /\ disc(w) \in Seq(S)
  BY <1>1, <1>5 DEF line, arc, disc, Shapes
<1>7. \A w \in kinds : panel(w) \in Seq(S)
  <2>1. Panel \in SUBSET (Int \X Int)
    BY AreaCells, SizeAssumption DEF Panel
  <2> QED BY <1>3, <2>1 DEF panel
<1>8. \A w \in kinds : round_rectangle(w) \in Seq(S)
  BY <1>4, <1>5, <1>7 DEF round_rectangle
<1> QED BY <1>2, <1>3, <1>5, <1>6, <1>7, <1>8 DEF S

Shows(picture, what) == \E k \in 1..Len(picture) : picture[k].what = what

\* What two pictures show, one after the other, is what either shows.
LEMMA ShowsTogether ==
    ASSUME NEW S, NEW p \in Seq(S), NEW q \in Seq(S), NEW what,
           Shows(p, what) \/ Shows(q, what)
    PROVE  Shows(p \o q, what)
<1>1. Len(p) \in Nat /\ Len(q) \in Nat
  BY LenProperties
<1>2. /\ Len(p \o q) = Len(p) + Len(q)
      /\ \A k \in 1..(Len(p) + Len(q)) :
            (p \o q)[k] = IF k <= Len(p) THEN p[k] ELSE q[k - Len(p)]
  BY ConcatProperties
<1>3. CASE Shows(p, what)
  <2>1. PICK k \in 1..Len(p) : p[k].what = what
    BY <1>3 DEF Shows
  <2>2. k \in 1..(Len(p) + Len(q)) /\ (p \o q)[k] = p[k]
    BY <1>1, <1>2
  <2> QED BY <1>2, <2>1, <2>2 DEF Shows
<1>4. CASE Shows(q, what)
  <2>1. PICK k \in 1..Len(q) : q[k].what = what
    BY <1>4 DEF Shows
  <2>2. /\ Len(p) + k \in 1..(Len(p) + Len(q))
        /\ ~(Len(p) + k <= Len(p)) /\ (Len(p) + k) - Len(p) = k
    BY <1>1
  <2>3. (p \o q)[Len(p) + k] = q[k]
    BY <1>2, <2>2
  <2> QED BY <1>2, <2>1, <2>2, <2>3 DEF Shows
<1> QED BY <1>3, <1>4

\* paint(), up to the first cairo_restore(), behind the background.
AirballPicture ==
    When(live, paintRawAirballs \o paintSmoothAirball)
        \o paintTotemPole \o paintCowCatcher \o paintUnitsAnnotation \o paintAdjusting
AirballTexts == {"nothing", "ias", "name", "value", show_altimeter}
AirballWidgets == Widgets(InAirballRegion \cup {"background"}, AirballTexts)

\* What is painted in the balls' region, and that there is a ball in it.
LEMMA AirballPictureType ==
    /\ AirballPicture \in Seq(AirballWidgets)
    /\ live => Shows(AirballPicture, "ball")
<1> DEFINE S == AirballWidgets
           kinds == InAirballRegion \cup {"background"}
<1>1. /\ \A w \in kinds, n \in Nat :
            lines(n, w) \in Seq(S) /\ discs(n, w) \in Seq(S) /\ rosette(n, w) \in Seq(S)
      /\ \A w \in kinds :
            /\ line(w) \in Seq(S) /\ arc(w) \in Seq(S) /\ disc(w) \in Seq(S)
            /\ panel(w) \in Seq(S) /\ round_rectangle(w) \in Seq(S)
      /\ \A w \in kinds, t \in AirballTexts : draw_text(w, t) \in Seq(S)
  <2>1. "nothing" \in AirballTexts
    BY Zenon DEF AirballTexts
  <2> QED BY <2>1, PicturesOf, Zenon DEF AirballWidgets
<1>2. /\ "ias" \in AirballTexts /\ "name" \in AirballTexts /\ "value" \in AirballTexts
      /\ show_altimeter \in AirballTexts
  BY Zenon DEF AirballTexts
<1>3. \A p, q \in Seq(S) : p \o q \in Seq(S)
  BY ConcatProperties
<1>4. <<>> \in Seq(S)
  OBVIOUS
<1> HIDE DEF S
<1>5. paintRawAirballs \in Seq(S)
  <2>1. "raw ball" \in kinds /\ NumBalls \in Nat
    BY LayoutAssumption DEF InAirballRegion
  <2> QED BY <1>1, <2>1 DEF paintRawAirballs
<1>6. arc("ball") \in Seq(S) /\ disc("ball") \in Seq(S)
  BY <1>1 DEF InAirballRegion
<1> DEFINE numbers == When(show_numeric_airspeed,
                           lines(2, "crosshairs") \o round_rectangle("airspeed")
                               \o draw_text("airspeed", "ias"))
<1>7. lines(2, "crosshairs") \in Seq(S) /\ numbers \in Seq(S)
  <2>1. "crosshairs" \in kinds /\ "airspeed" \in kinds
    BY DEF InAirballRegion
  <2>2. /\ lines(2, "crosshairs") \in Seq(S) /\ round_rectangle("airspeed") \in Seq(S)
        /\ draw_text("airspeed", "ias") \in Seq(S)
    BY <1>1, <1>2, <2>1
  <2>3. lines(2, "crosshairs") \o round_rectangle("airspeed")
            \o draw_text("airspeed", "ias") \in Seq(S)
    BY <1>3, <2>2
  <2> QED BY <1>4, <2>2, <2>3 DEF When
<1> HIDE DEF numbers
<1>8. paintAirballAirspeed = (disc("ball") \o lines(2, "crosshairs")) \o numbers
  BY Zenon DEF paintAirballAirspeed, numbers
<1>9. paintAirballTrueAirspeed \in Seq(S)
  BY <1>1 DEF paintAirballTrueAirspeed, InAirballRegion
<1>10. paintAirballAirspeedLimits \in Seq(S)
  <2>1. paintAirballAirspeedLimitsRotate \in Seq(S)
    BY <1>1, <1>4 DEF paintAirballAirspeedLimitsRotate, When, InAirballRegion
  <2>2. \A what \in kinds : \A v : Limit(v, what) \in Seq(S)
    <3>1. rosette(4, "background") \in Seq(S) /\ \A w \in kinds : rosette(4, w) \in Seq(S)
      BY <1>1
    <3> QED BY <1>3, <1>4, <3>1 DEF Limit, When
  <2>3. "v_fe" \in kinds /\ "v_no" \in kinds /\ "v_ne" \in kinds
    BY DEF InAirballRegion
  <2>4. paintAirballAirspeedLimitsNormal \in Seq(S)
    BY <1>3, <2>2, <2>3 DEF paintAirballAirspeedLimitsNormal
  <2> QED BY <2>1, <2>4 DEF paintAirballAirspeedLimits
<1>11. paintSmoothAirball \in Seq(S) /\ Shows(paintSmoothAirball, "ball")
  <2>1. Shows(arc("ball"), "ball") /\ Shows(disc("ball"), "ball")
    BY DEF Shows, arc, disc, discs, widgets
  <2>2. CASE LowAirspeed
    BY <1>6, <2>1, <2>2 DEF paintSmoothAirball, paintAirballLowAirspeed
  <2>3. CASE ~LowAirspeed
    <3>1. /\ disc("ball") \o lines(2, "crosshairs") \in Seq(S)
          /\ Shows(disc("ball") \o lines(2, "crosshairs"), "ball")
      BY <1>3, <1>6, <1>7, <2>1, ShowsTogether
    <3>2. paintAirballAirspeed \in Seq(S) /\ Shows(paintAirballAirspeed, "ball")
      BY <1>3, <1>7, <1>8, <3>1, ShowsTogether
    <3>3. /\ paintAirballAirspeed \o paintAirballTrueAirspeed \in Seq(S)
          /\ Shows(paintAirballAirspeed \o paintAirballTrueAirspeed, "ball")
      BY <1>3, <1>9, <3>2, ShowsTogether
    <3>4. paintSmoothAirball =
              (paintAirballAirspeed \o paintAirballTrueAirspeed) \o paintAirballAirspeedLimits
      BY <2>3, Zenon DEF paintSmoothAirball
    <3> QED BY <1>3, <1>10, <3>3, <3>4, ShowsTogether
  <2> QED BY <2>2, <2>3
<1>12. paintTotemPole \in Seq(S)
  <2>1. paintTotemPoleLine \in Seq(S)
    <3>1. "pole" \in kinds /\ "alpha_ref" \in kinds
      BY DEF InAirballRegion
    <3>2. /\ line("pole") \in Seq(S) /\ lines(2, "pole") \in Seq(S)
          /\ arc("alpha_ref") \in Seq(S)
      BY <1>1, <3>1
    <3> QED BY <1>3, <3>2 DEF paintTotemPoleLine
  <2>2. paintTotemPoleAlphaX \in Seq(S) /\ paintTotemPoleAlphaY \in Seq(S)
    BY <1>1, <1>4 DEF paintTotemPoleAlphaX, paintTotemPoleAlphaY, When, InAirballRegion
  <2> QED BY <1>3, <2>1, <2>2 DEF paintTotemPole
<1>13. paintCowCatcher \in Seq(S)
  <2>1. "alpha_stall" \in kinds /\ 4 + 4 + 1 \in Nat
    BY DEF InAirballRegion
  <2>2. lines(4 + 4 + 1, "alpha_stall") \in Seq(S)
    BY <1>1, <2>1
  <2> QED BY <1>4, <2>2 DEF paintCowCatcher, When
<1>14. paintUnitsAnnotation \in Seq(S)
  <2>1. "units" \in kinds
    BY DEF InAirballRegion
  <2> QED BY <1>1, <1>2, <2>1, Zenon DEF paintUnitsAnnotation
<1>15. paintAdjusting \in Seq(S)
  <2>1. "adjusting" \in kinds
    BY DEF InAirballRegion
  <2>2. /\ panel("adjusting") \in Seq(S) /\ draw_text("adjusting", "name") \in Seq(S)
        /\ draw_text("adjusting", "value") \in Seq(S)
    BY <1>1, <1>2, <2>1
  <2> QED BY <1>3, <1>4, <2>2 DEF paintAdjusting, When
<1> DEFINE balls == When(live, paintRawAirballs \o paintSmoothAirball)
<1>16. balls \in Seq(S) /\ (live => Shows(balls, "ball"))
  BY <1>3, <1>4, <1>5, <1>11, ShowsTogether DEF When
<1> HIDE DEF balls
<1>17. AirballPicture = (((balls \o paintTotemPole) \o paintCowCatcher)
                            \o paintUnitsAnnotation) \o paintAdjusting
  BY Zenon DEF AirballPicture, balls
<1>18. balls \o paintTotemPole \in Seq(S) /\ (live => Shows(balls \o paintTotemPole, "ball"))
  BY <1>3, <1>12, <1>16, ShowsTogether
<1> DEFINE first == balls \o paintTotemPole
<1> HIDE DEF first
<1>19. first \in Seq(S) /\ (live => Shows(first, "ball"))
  BY <1>18 DEF first
<1>20. /\ first \o paintCowCatcher \in Seq(S)
       /\ live => Shows(first \o paintCowCatcher, "ball")
  BY <1>3, <1>13, <1>19, ShowsTogether
<1>21. /\ (first \o paintCowCatcher) \o paintUnitsAnnotation \in Seq(S)
       /\ live => Shows((first \o paintCowCatcher) \o paintUnitsAnnotation, "ball")
  BY <1>3, <1>14, <1>20, ShowsTogether
<1>22. /\ AirballPicture \in Seq(S)
       /\ live => Shows(AirballPicture, "ball")
  BY <1>3, <1>15, <1>17, <1>21, ShowsTogether DEF first
<1> QED BY <1>22 DEF S

Pointer ==
    IF air.climb = NaN \/ air.climb > 0 THEN "pointer up"
    ELSE IF air.climb < 0 THEN "pointer down" ELSE "pointer level"
VsiWidgets(altitude) ==
    Widgets({"vsi", "tic", Pointer}, {"nothing"})
        \cup Widgets({"thousands"}, {Thousands(altitude)})
        \cup Widgets({"last three digits"}, {LastThreeDigits(altitude)})
        \cup Widgets({"baro"}, {"baro_setting"})

\* What is painted in the altimeter's region.
LEMMA VsiPictureType ==
    ASSUME ScreenTypeOK, NEW altitude
    PROVE  paintVsi(altitude) \in Seq(VsiWidgets(altitude))
<1> DEFINE S == VsiWidgets(altitude)
<1>1. \A kinds, texts, p :
          Widgets(kinds, texts) \subseteq S /\ p \in Seq(Widgets(kinds, texts)) => p \in Seq(S)
  BY SeqMonotonic
<1>2. \A p, q \in Seq(S) : p \o q \in Seq(S)
  BY ConcatProperties
<1>3. /\ Widgets({"vsi", "tic", Pointer}, {"nothing"}) \subseteq S
      /\ Widgets({"thousands"}, {Thousands(altitude)}) \subseteq S
      /\ Widgets({"last three digits"}, {LastThreeDigits(altitude)}) \subseteq S
      /\ Widgets({"baro"}, {"baro_setting"}) \subseteq S
  BY DEF VsiWidgets
<1> HIDE DEF S
<1>4. /\ \A n \in Nat : lines(n, "tic") \in Seq(S) /\ lines(n, Pointer) \in Seq(S)
      /\ \A area \in SUBSET (Int \X Int) : rectangle("vsi", area) \in Seq(S)
  <2> DEFINE kinds == {"vsi", "tic", Pointer}
             texts == {"nothing"}
             W == Widgets(kinds, texts)
  <2>1. "nothing" \in texts /\ "vsi" \in kinds /\ "tic" \in kinds /\ Pointer \in kinds
    OBVIOUS
  <2>2. W \subseteq S
    BY <1>3
  <2> HIDE DEF kinds, texts
  <2>3. /\ \A w \in kinds, n \in Nat : lines(n, w) \in Seq(W)
        /\ \A w \in kinds, area \in SUBSET (Int \X Int) : rectangle(w, area) \in Seq(W)
    BY <2>1, PicturesOf
  <2> QED BY <1>1, <2>1, <2>2, <2>3
<1>5. /\ draw_text("thousands", Thousands(altitude)) \in Seq(S)
      /\ draw_text("last three digits", LastThreeDigits(altitude)) \in Seq(S)
      /\ draw_text("baro", "baro_setting") \in Seq(S)
  <2>1. \A what, text : draw_text(what, text) \in Seq(Widgets({what}, {text}))
    BY DEF draw_text, Widgets, Shapes
  <2> QED BY <1>1, <1>3, <2>1
<1>6. VsiRegion \in SUBSET (Int \X Int)
  <2>1. /\ airballHeight \in Int /\ airballHeight + DisplayMargin \in Int
        /\ AltimeterHeight - 2 * DisplayMargin \in Int /\ Width \in Int /\ 0 \in Int
    BY SizeAssumption, LayoutAssumption DEF airballHeight
  <2> QED BY <2>1, AreaCells DEF VsiRegion
<1>7. paintVsiPointer \in Seq(S)
  <2>1. PICK n \in Nat : paintVsiPointer = lines(n, Pointer)
    <3> DEFINE climb_rate == IF air.climb = NaN THEN 3000 ELSE Within(-3000, 3000, air.climb)
               towards == IF climb_rate > 0 THEN "pointer up"
                          ELSE IF climb_rate < 0 THEN "pointer down" ELSE "pointer level"
               n == IF Abs(climb_rate) > 500 THEN 2 ELSE 1
    <3>1. towards = Pointer
      <4>1. air.climb \in Int \cup {NaN}
        BY DEF ScreenTypeOK
      <4>2. CASE air.climb = NaN
        BY <4>2 DEF Pointer
      <4>3. CASE air.climb \in Int /\ air.climb # NaN
        <5> DEFINE climb == air.climb
        <5>1. climb_rate = Within(-3000, 3000, climb) /\ climb \in Int
          BY <4>3
        <5>2. Pointer = IF climb > 0 THEN "pointer up"
                        ELSE IF climb < 0 THEN "pointer down" ELSE "pointer level"
          BY <4>3 DEF Pointer
        <5> HIDE DEF climb_rate, climb
        <5>3. /\ climb > 0 => Within(-3000, 3000, climb) > 0
              /\ climb < 0 => Within(-3000, 3000, climb) < 0
              /\ climb = 0 => Within(-3000, 3000, climb) = 0
              /\ Within(-3000, 3000, climb) \in Int
          BY <5>1 DEF Within
        <5>4. climb > 0 \/ climb < 0 \/ climb = 0
          BY <5>1
        <5>5. CASE climb > 0
          <6>1. climb_rate > 0
            BY <5>1, <5>3, <5>5
          <6> QED BY <5>2, <5>5, <6>1
        <5>6. CASE climb < 0
          <6>1. climb_rate < 0 /\ ~(climb_rate > 0) /\ ~(climb > 0)
            BY <5>1, <5>3, <5>6
          <6> QED BY <5>2, <5>6, <6>1
        <5>7. CASE climb = 0
          <6>1. ~(climb_rate < 0) /\ ~(climb_rate > 0) /\ ~(climb > 0) /\ ~(climb < 0)
            BY <5>1, <5>3, <5>7
          <6> QED BY <5>2, <6>1
        <5> QED BY <5>4, <5>5, <5>6, <5>7
      <4> HIDE DEF towards
      <4> QED BY <4>1, <4>2, <4>3
    <3>2. paintVsiPointer = lines(n, towards)
      BY DEF paintVsiPointer
    <3>3. n \in Nat
      OBVIOUS
    <3> HIDE DEF n, towards
    <3> QED BY <3>1, <3>2, <3>3
  <2> QED BY <1>4, <2>1
<1>8. paintVsiTicMarks \in Seq(S)
  <2>1. 5 + 2 * 5 \in Nat
    OBVIOUS
  <2> QED BY <1>4, <2>1 DEF paintVsiTicMarks
<1>9. paintAltitude(altitude) \in Seq(S) /\ paintBaroSetting \in Seq(S)
  BY <1>2, <1>5 DEF paintAltitude, paintBaroSetting
<1>10. paintVsi(altitude) \in Seq(S)
  <2>1. rectangle("vsi", VsiRegion) \in Seq(S)
    BY <1>4, <1>6
  <2>2. paintVsi(altitude) = (((rectangle("vsi", VsiRegion) \o paintVsiTicMarks)
                                \o paintVsiPointer) \o paintAltitude(altitude)) \o paintBaroSetting
    BY Zenon DEF paintVsi
  <2> QED BY <1>2, <1>7, <1>8, <1>9, <2>1, <2>2
<1> QED BY <1>10 DEF S

\* The sign is that of the altitude.
LEMMA SignReadsBack ==
    ASSUME NEW altitude, NEW thousands, thousands = Thousands(altitude)
    PROVE  thousands.minus <=> altitude < 0
BY Zenon DEF Thousands

\* The digits give the altitude back, to ten feet.
LEMMA DigitsReadBack ==
    ASSUME NEW altitude \in Int, NEW thousands, thousands = Thousands(altitude),
           NEW digits, digits = LastThreeDigits(altitude)
    PROVE  LET feet == 1000 * thousands.number + digits
           IN  feet <= Abs(altitude) /\ Abs(altitude) < feet + 10
<1> DEFINE a == Abs(altitude)
           n == a \div 1000
           rest == a - 1000 * n
           tens == rest \div 10
<1>1. a \in Nat
  BY DEF Abs
<1> HIDE DEF a
<1>2. n \in Nat /\ rest \in Int
  BY <1>1
<1> HIDE DEF rest
<1>3. 10 * tens <= rest /\ rest < 10 * tens + 10 /\ tens \in Int
  BY <1>2
<1> HIDE DEF n, tens
<1>4. 10 * tens <= a - 1000 * n /\ a - 1000 * n < 10 * tens + 10
  BY <1>3 DEF rest
<1>5. 1000 * n + tens * 10 <= a /\ a < 1000 * n + tens * 10 + 10
  BY <1>1, <1>2, <1>3, <1>4
<1>6. thousands.number = n /\ digits = tens * 10
  BY DEF Thousands, LastThreeDigits, tens, rest, n, a
<1> QED BY <1>5, <1>6 DEF a

-----------------------------------------------------------------------------
(* The store. *)

\* The row of a parameter, as TLC checks it of the table.
LEMMA RowOfTable ==
    ASSUME NEW p \in Params
    PROVE  LET a == ALL_PARAMS[p]
           IN  \/ /\ a.kind = "numeric"
                  /\ a.min \in Int /\ a.max \in Int
                  /\ a.initial \in Int /\ a.increment \in Int
               \/ /\ a.kind = "selection"
                  /\ a.options \in Nat \ {0}
                  /\ a.initial \in 0..(a.options - 1)
               \/ a.kind = "bool" /\ a.initial \in {no, yes}
BY ParamsAssumption, TableAssumption

\* The settings that the program begins with are a store.
LEMMA InitialStoreType == InitialStore \in Stores
<1>1. ASSUME NEW p \in Params
      PROVE  InitialStore[p] \in ValuesOf(p) /\ ValuesOf(p) \subseteq Int
  BY RowOfTable DEF InitialStore, ValuesOf, no, yes
<1> QED BY <1>1 DEF InitialStore, Stores

\* Whatever a document says, what is loaded from it is a store.
LEMMA LoadType ==
    ASSUME NEW s \in Stores, NEW d \in Documents
    PROVE  Load(s, d) \in Stores
<1>1. ASSUME NEW p \in Params
      PROVE  Load(s, d)[p] \in ValuesOf(p) /\ ValuesOf(p) \subseteq Int
  BY RowOfTable, AbsentAssumption DEF Load, Taken, Stores, Documents, ValuesOf, no, yes
<1> QED BY <1>1 DEF Load, Stores

\* A turn of the knob, one way or the other.
LEMMA TurnedType ==
    ASSUME NEW s \in Stores, NEW p \in Params,
           NEW v \in {Incremented(p, s[p]), Decremented(p, s[p])}
    PROVE  [s EXCEPT ![p] = v] \in Stores
<1> DEFINE x == s[p]
<1>1. x \in ValuesOf(p)
  BY DEF Stores
<1> HIDE DEF x
<1>2. ValuesOf(p) \subseteq Int /\ Incremented(p, x) \in ValuesOf(p)
        /\ Decremented(p, x) \in ValuesOf(p)
  BY <1>1, RowOfTable DEF Incremented, Decremented, Clamp, ValuesOf, no, yes
<1>3. v \in ValuesOf(p)
  BY <1>2 DEF x
<1> QED BY <1>2, <1>3 DEF Stores

-----------------------------------------------------------------------------
(* The inductive invariant. *)

\* Between the steps nothing is left on the context but the turns.
ContextRests ==
    /\ Rests(cr) /\ cr.saved = <<>> /\ cr.clip = Panel
    /\ ~wasTurned => cr.turns = 0

\* A mark is in its region, and says what the air data says.
IsRight(m) ==
    /\ m.joined = false
    /\ m.what \in InAirballRegion => m.cells \subseteq Turned(AirballRegion, cr.turns)
    /\ m.what \in InVsiRegion => m.cells \subseteq Turned(VsiRegion, cr.turns)
    /\ m.what = "thousands" /\ air.altitude # NaN => m.says = Thousands(air.altitude)
    /\ m.what = "last three digits" /\ air.altitude # NaN =>
          m.says = LastThreeDigits(air.altitude)
    /\ m.what \in {"pointer up", "pointer level", "pointer down"} => m.what = Pointer
MarksAreRight == \A k \in 1..Len(cr.marks) : IsRight(cr.marks[k])

\* A frame begins with the background.
FrameBegins ==
    /\ upc = "events" => cr.marks = <<>>
    /\ upc # "events" =>
        /\ Len(cr.marks) >= 1 /\ cr.marks[1].what = "background"
        /\ ~wasTurned => cr.marks[1].cells = Panel

\* A cross from corner to corner, which nothing clips.
IsCross(mark) ==
    mark.what = "no data" /\ mark.number = 2 /\ mark.place = Panel /\ mark.cells = Panel

\* While data that was valid when the frame began is, there is a ball; at its end
\* there is that or, if the panel is not turned, the cross.
BallWhileLive ==
    /\ upc \in {"altimeter", "data"} /\ live /\ ~setBack => Shows(cr.marks, "ball")
    /\ upc = "flushed" /\ ~setBack /\ cr.turns = 0 =>
        Shows(cr.marks, "ball") \/ IsCross(cr.marks[Len(cr.marks)])

IInv == ScreenTypeOK /\ ContextRests /\ MarksAreRight /\ FrameBegins /\ BallWhileLive

\* A context that was just made.
LEMMA InitEstablishesIInv == Init => IInv
<1> SUFFICES ASSUME Init PROVE IInv
  OBVIOUS
<1>1. cr = Parts(0, Panel, <<>>, {}, false, false, <<>>)
  BY Zenon DEF Init, Context, Parts, false
<1>2. /\ cr.turns = 0 /\ cr.clip = Panel /\ cr.saved = <<>> /\ cr.path = {}
      /\ cr.point = false /\ cr.joined = false /\ cr.marks = <<>>
  BY <1>1, PartsOf
<1>3. ScreenTypeOK
  <2>1. store \in Stores /\ brightness \in 0..255
    BY InitialStoreType DEF Init
  <2>2. air \in [ias : Nat, tas : Nat, altitude : Int \cup {NaN}, climb : Int \cup {NaN}]
    BY DEF Init
  <2>3. /\ adjusting \in BOOLEAN /\ live \in BOOLEAN /\ setBack \in BOOLEAN
        /\ wasTurned \in BOOLEAN
    BY Zenon DEF Init
  <2>4. upc = "events" /\ cr.turns \in 0..3 /\ cr.clip = Panel /\ cr.saved = <<>>
    BY <1>2 DEF Init
  <2> QED BY <2>1, <2>2, <2>3, <2>4 DEF ScreenTypeOK
<1>4. Rests(cr)
  <2>1. cr.marks \in Seq({})
    BY <1>2
  <2> QED BY <1>1, <1>2, <2>1 DEF Rests
<1> QED
  BY <1>2, <1>3, <1>4
  DEF Init, IInv, ContextRests, MarksAreRight, FrameBegins, BallWhileLive

\* The events between two frames.
LEMMA EventsKeepIInv ==
    ASSUME IInv, Update \/ LoadDocument \/ Adjust \/ StopAdjusting
    PROVE  IInv'
<1>1. upc = "events" /\ upc' = upc /\ cr' = cr /\ wasTurned' = wasTurned
  BY DEF Update, LoadDocument, Adjust, StopAdjusting, screen, data
<1>2. ScreenTypeOK'
  <2> USE DEF IInv, ScreenTypeOK, input, screen, data
  <2>1. CASE Update
    BY <2>1, ViewAssumption DEF Update
  <2>2. CASE LoadDocument
    BY <2>2, ViewAssumption, LoadType DEF LoadDocument
  <2>3. CASE Adjust
    <3>1. PICK p \in Params : store' \in {[store EXCEPT ![p] = Incremented(p, @)],
                                          [store EXCEPT ![p] = Decremented(p, @)]}
      BY <2>3, ViewAssumption DEF Adjust, Adjustable
    <3>2. store' \in Stores
      <4>1. PICK v \in {Incremented(p, store[p]), Decremented(p, store[p])} :
                store' = [store EXCEPT ![p] = v]
        BY <3>1
      <4>2. store \in Stores
        OBVIOUS
      <4> QED BY <4>1, <4>2, TurnedType
    <3>3. adjusting' \in BOOLEAN
      BY <2>3, Zenon DEF Adjust
    <3> QED BY <2>3, <3>2, <3>3 DEF Adjust
  <2>4. CASE StopAdjusting
    BY <2>4 DEF StopAdjusting
  <2> QED BY <2>1, <2>2, <2>3, <2>4
<1>3. cr.marks = <<>>
  BY <1>1 DEF IInv, FrameBegins
<1>4. ContextRests' /\ FrameBegins' /\ BallWhileLive'
  BY <1>1, <1>3 DEF IInv, ContextRests, FrameBegins, BallWhileLive
<1>5. MarksAreRight'
  BY <1>1, <1>3 DEF MarksAreRight
<1> QED BY <1>2, <1>4, <1>5 DEF IInv

\* Marks stay right as long as they, the settings and the air data stay.
LEMMA MarksStayRight ==
    ASSUME MarksAreRight, store' = store, air' = air, cr'.turns = cr.turns,
           NEW k \in 1..Len(cr.marks), cr'.marks[k] = cr.marks[k]
    PROVE  IsRight(cr.marks[k])'
<1>1. AirballRegion' = AirballRegion /\ VsiRegion' = VsiRegion /\ Pointer' = Pointer
  BY DEF AirballRegion, VsiRegion, airballHeight, show_altimeter, Pointer
<1> QED BY <1>1 DEF MarksAreRight, IsRight

\* Time and the clock.
LEMMA ClockKeepsIInv ==
    ASSUME IInv, Expire \/ SetClockBack
    PROVE  IInv'
<1>1. UNCHANGED <<input, upc, screen>>
  BY DEF Expire, SetClockBack
<1>2. ScreenTypeOK'
  <2>1. live' \in BOOLEAN /\ setBack' \in BOOLEAN
    BY Zenon DEF IInv, ScreenTypeOK, Expire, SetClockBack
  <2> QED BY <1>1, <2>1 DEF IInv, ScreenTypeOK, input, screen
<1>3. ContextRests' /\ FrameBegins'
  BY <1>1 DEF IInv, ContextRests, FrameBegins, screen
<1>4. MarksAreRight'
  BY <1>1, MarksStayRight DEF IInv, MarksAreRight, input, screen
<1>5. BallWhileLive'
  <2>1. CASE Expire
    BY <1>1, <2>1 DEF IInv, BallWhileLive, Expire, screen
  <2>2. CASE SetClockBack
    <3>1. upc \in {"altimeter", "data", "flushed"} => setBack'
      BY <2>2 DEF SetClockBack
    <3> QED BY <1>1, <3>1 DEF BallWhileLive, screen
  <2> QED BY <2>1, <2>2
<1> QED BY <1>2, <1>3, <1>4, <1>5 DEF IInv

\* The cells of a region that is not turned are its own.
LEMMA NotTurned ==
    ASSUME NEW cells \in SUBSET (Int \X Int)
    PROVE  Turned(cells, 0) = cells
BY DEF Turned

\* The first part of a frame, in the terms of the lemmas above.
LEMMA PaintAirballKeepsIInv ==
    ASSUME IInv, PaintAirball
    PROVE  IInv'
<1> DEFINE turned == IF rotate_screen THEN turn(cr) ELSE cr
           top == [turns |-> turned.turns, clip |-> turned.clip]
           first == save(turned)
           begun == Drawn(first, paintBackground)
<1>1. cr' = Clipped(begun, AirballRegion, AirballPicture)
  BY Zenon DEF PaintAirball, AirballPicture
<1>2. /\ upc = "events" /\ upc' = "altimeter" /\ UNCHANGED <<input, live>>
      /\ brightness' = setBrightness(screen_brightness)
  BY DEF PaintAirball
<1>3. ~setBack' /\ setBack' \in BOOLEAN
  BY Zenon DEF PaintAirball
<1>4. wasTurned' \in BOOLEAN /\ (~wasTurned' => ~wasTurned /\ ~rotate_screen)
  BY Zenon DEF PaintAirball
<1>5. cr.marks = <<>> /\ Rests(cr) /\ cr.saved = <<>> /\ cr.clip = Panel /\ cr.turns \in 0..3
  BY <1>2 DEF IInv, FrameBegins, ContextRests, ScreenTypeOK
<1>6. /\ Rests(turned) /\ turned.saved = <<>> /\ turned.clip = Panel /\ turned.marks = <<>>
      /\ turned.turns \in 0..3 /\ (~wasTurned' => turned.turns = 0)
  <2>1. CASE rotate_screen
    <3>1. turned = turn(cr)
      BY <2>1
    <3>2. (cr.turns + 1) % 4 \in 0..3
      BY <1>5
    <3> HIDE DEF turned
    <3> QED BY <1>4, <1>5, <2>1, <3>1, <3>2, TurnRests
  <2>2. CASE ~rotate_screen
    BY <1>4, <1>5, <2>2 DEF IInv, ContextRests
  <2> QED BY <2>1, <2>2
<1> HIDE DEF turned
<1>7. /\ Rests(first) /\ first.turns = turned.turns /\ first.clip = Panel
      /\ first.saved = <<top>> /\ first.marks = <<>>
  BY <1>6, SaveRests
<1> HIDE DEF first
<1> DEFINE W == Widgets({"background"}, {"nothing"})
           background == [shape |-> "rectangle", number |-> 1, what |-> "background",
                          says |-> "nothing", area |-> Panel]
<1>8. /\ paintBackground \in Seq(W) /\ Len(paintBackground) = 1
      /\ paintBackground[1] = background
  <2>1. Panel \in SUBSET (Int \X Int) /\ Area(0, 0, Width, Height) = Panel
    BY AreaCells, SizeAssumption DEF Panel
  <2> QED BY <2>1 DEF paintBackground, rectangle, Widgets, Shapes
<1>9. \A e \in W : e.shape \in Shapes
  BY DEF Widgets
<1> HIDE DEF W
<1>10. /\ Rests(begun) /\ begun.turns = turned.turns /\ begun.clip = Panel
       /\ begun.saved = <<top>> /\ Adds(first, paintBackground, Panel, begun)
  BY <1>7, <1>8, <1>9, DrawnAdds
<1>11. Len(begun.marks) = 1 /\ begun.marks[1] = MarkOf(first, background)
  <2>1. AfterWidgets(first, paintBackground, Len(paintBackground), begun)
    BY <1>7, <1>8, <1>9, PictureLeavesMarks
  <2>2. Len(first.marks) = 0
    BY <1>7
  <2> HIDE DEF begun, background
  <2> QED BY <1>8, <2>1, <2>2 DEF AfterWidgets
<1> HIDE DEF begun
<1>12. /\ begun.marks[1].what = "background" /\ begun.marks[1].joined = false
       /\ turned.turns = 0 => begun.marks[1].cells = Panel
  <2>1. Panel \in SUBSET (Int \X Int)
    BY AreaCells, SizeAssumption DEF Panel
  <2>2. begun.marks[1].cells = Turned(Panel, turned.turns) \cap Panel
    BY <1>7, <1>11 DEF MarkOf, Touched
  <2>3. turned.turns = 0 => begun.marks[1].cells = Panel
    BY <2>1, <2>2, NotTurned
  <2> QED BY <1>11, <2>3 DEF MarkOf
<1> DEFINE inside == Panel \cap Turned(AirballRegion, turned.turns)
<1>13. AirballPicture \in Seq(AirballWidgets) /\ (live => Shows(AirballPicture, "ball"))
  BY AirballPictureType
<1>14. \A e \in AirballWidgets : e.shape \in Shapes
  BY DEF AirballWidgets, Widgets
<1>15. /\ Rests(cr') /\ cr'.turns = turned.turns /\ cr'.clip = Panel /\ cr'.saved = <<>>
       /\ Adds(begun, AirballPicture, inside, cr')
  <2>1. top.turns = turned.turns /\ top.clip = Panel
    BY <1>6
  <2> HIDE DEF top
  <2> DEFINE h == Clipped(begun, AirballRegion, AirballPicture)
  <2>2. /\ Rests(h) /\ h.turns = top.turns /\ h.clip = top.clip /\ h.saved = <<>>
        /\ Adds(begun, AirballPicture, begun.clip \cap Turned(AirballRegion, begun.turns), h)
    BY <1>10, <1>13, <1>14, ClippedAdds
  <2> HIDE DEF h
  <2> QED BY <1>1, <1>10, <2>1, <2>2 DEF h
<1>16. Len(AirballPicture) \in Nat
  BY <1>13, LenProperties
<1>17. /\ Len(cr'.marks) = 1 + Len(AirballPicture) /\ cr'.marks[1] = begun.marks[1]
       /\ \A k \in 1..Len(AirballPicture) :
            /\ cr'.marks[1 + k].what = AirballPicture[k].what
            /\ cr'.marks[1 + k].cells \subseteq inside /\ cr'.marks[1 + k].joined = false
  BY <1>11, <1>15 DEF Adds
<1>18. ScreenTypeOK'
  <2>1. brightness' \in 0..255
    <3>1. screen_brightness \in Int
      BY ViewAssumption DEF IInv, ScreenTypeOK, Stores, screen_brightness
    <3>2. Within(0, 100, screen_brightness) \in 0..100
      BY <3>1 DEF Within
    <3> QED BY <1>2, <3>2 DEF setBrightness
  <2> QED BY <1>2, <1>3, <1>4, <1>6, <1>15, <2>1 DEF IInv, ScreenTypeOK, input
<1>19. ContextRests'
  BY <1>6, <1>15 DEF ContextRests
<1>20. FrameBegins'
  BY <1>2, <1>6, <1>12, <1>16, <1>17 DEF FrameBegins
<1>21. MarksAreRight'
  <2>1. AirballRegion' = AirballRegion
    BY <1>2 DEF AirballRegion, airballHeight, show_altimeter, input
  <2> SUFFICES ASSUME NEW k \in 1..Len(cr'.marks) PROVE IsRight(cr.marks[k])'
    BY DEF MarksAreRight
  <2>2. CASE k = 1
    <3>1. cr'.marks[k].what = "background" /\ cr'.marks[k].joined = false
      BY <1>12, <1>17, <2>2
    <3> QED BY <3>1 DEF IsRight, InAirballRegion, InVsiRegion
  <2>3. CASE k # 1
    <3>1. k - 1 \in 1..Len(AirballPicture) /\ 1 + (k - 1) = k
      BY <1>16, <1>17, <2>3
    <3>2. AirballPicture[k - 1] \in AirballWidgets
      BY <1>13, <3>1, ElementOfSeq
    <3>3. cr'.marks[k].what \in InAirballRegion \cup {"background"}
      BY <1>17, <3>1, <3>2 DEF AirballWidgets, Widgets
    <3>4. cr'.marks[k].cells \subseteq inside /\ cr'.marks[k].joined = false
      BY <1>17, <3>1
    <3>5. cr'.marks[k].what \notin InVsiRegion
      BY <3>3 DEF InAirballRegion, InVsiRegion
    <3>6. {"thousands", "last three digits", "pointer up", "pointer level", "pointer down"}
              \subseteq InVsiRegion
      BY DEF InVsiRegion
    <3>7. cr'.marks[k].cells \subseteq Turned(AirballRegion', cr'.turns)
      BY <1>15, <2>1, <3>4
    <3> QED BY <3>4, <3>5, <3>6, <3>7 DEF IsRight
  <2> QED BY <2>2, <2>3
<1>22. BallWhileLive'
  <2>1. live => Shows(cr'.marks, "ball")
    <3>1. SUFFICES ASSUME live PROVE Shows(cr'.marks, "ball")
      OBVIOUS
    <3>2. PICK k \in 1..Len(AirballPicture) : AirballPicture[k].what = "ball"
      BY <1>13, <3>1 DEF Shows
    <3>3. 1 + k \in 1..Len(cr'.marks) /\ cr'.marks[1 + k].what = "ball"
      BY <1>16, <1>17, <3>2
    <3> QED BY <3>3 DEF Shows
  <2> QED BY <1>2, <2>1 DEF BallWhileLive
<1> QED BY <1>18, <1>19, <1>20, <1>21, <1>22 DEF IInv

\* The altimeter.
LEMMA PaintAltimeterKeepsIInv ==
    ASSUME IInv, PaintAltimeter
    PROVE  IInv'
<1>1. /\ upc = "altimeter" /\ upc' = "data" /\ UNCHANGED <<input, data, wasTurned, brightness>>
  BY DEF PaintAltimeter
<1>2. /\ ScreenTypeOK /\ Rests(cr) /\ cr.saved = <<>> /\ cr.clip = Panel
      /\ ~wasTurned => cr.turns = 0
  BY DEF IInv, ContextRests
<1>3. Len(cr.marks) \in Nat
  BY <1>2, LenProperties DEF Rests
<1>4. CASE ~show_altimeter
  <2>1. cr' = cr
    BY <1>4 DEF PaintAltimeter
  <2>2. ScreenTypeOK' /\ ContextRests' /\ FrameBegins'
    BY <1>1, <1>2, <2>1 DEF IInv, ScreenTypeOK, ContextRests, FrameBegins, input, data
  <2>3. MarksAreRight'
    BY <1>1, <2>1, MarksStayRight DEF IInv, MarksAreRight, input
  <2>4. BallWhileLive'
    BY <1>1, <2>1 DEF IInv, BallWhileLive, data
  <2> QED BY <2>2, <2>3, <2>4 DEF IInv
<1>5. CASE show_altimeter
  <2> DEFINE top == [turns |-> cr.turns, clip |-> cr.clip]
             first == save(cr)
             inside == Panel \cap Turned(VsiRegion, cr.turns)
  <2>1. PICK altitude \in IF air.altitude = NaN THEN CastsOfNaN ELSE {air.altitude} :
          cr' = Clipped(first, VsiRegion, paintVsi(altitude))
    BY <1>5 DEF PaintAltimeter
  <2> DEFINE picture == paintVsi(altitude)
             W == VsiWidgets(altitude)
  <2>2. picture \in Seq(W) /\ \A e \in W : e.shape \in Shapes
    <3>1. \A e \in W : e.shape \in Shapes
      BY DEF VsiWidgets, Widgets
    <3> QED BY <1>2, <3>1, VsiPictureType
  <2> HIDE DEF picture, W
  <2>3. /\ Rests(first) /\ first.turns = cr.turns /\ first.clip = Panel
        /\ first.saved = <<top>> /\ first.marks = cr.marks
    BY <1>2, SaveRests
  <2>4. top.turns = cr.turns /\ top.clip = Panel
    BY <1>2
  <2> HIDE DEF first, top
  <2>5. /\ Rests(cr') /\ cr'.turns = cr.turns /\ cr'.clip = Panel /\ cr'.saved = <<>>
        /\ Adds(first, picture, inside, cr')
    <3> DEFINE h == Clipped(first, VsiRegion, picture)
    <3>1. /\ Rests(h) /\ h.turns = top.turns /\ h.clip = top.clip /\ h.saved = <<>>
          /\ Adds(first, picture, first.clip \cap Turned(VsiRegion, first.turns), h)
      BY <2>2, <2>3, ClippedAdds
    <3> HIDE DEF h
    <3>2. cr' = h
      BY <2>1 DEF h, picture
    <3> QED BY <2>3, <2>4, <3>1, <3>2
  <2>6. Len(picture) \in Nat
    BY <2>2, LenProperties
  <2>7. /\ Len(cr'.marks) = Len(cr.marks) + Len(picture)
        /\ \A k \in 1..Len(cr.marks) : cr'.marks[k] = cr.marks[k]
        /\ \A k \in 1..Len(picture) :
            LET m == cr'.marks[Len(cr.marks) + k]
            IN  /\ m.what = picture[k].what /\ m.says = picture[k].says
                /\ m.cells \subseteq inside /\ m.joined = false
    BY <2>3, <2>5 DEF Adds
  <2>8. ScreenTypeOK' /\ ContextRests'
    BY <1>1, <1>2, <2>5 DEF ScreenTypeOK, ContextRests, input, data
  <2>9. FrameBegins'
    BY <1>1, <1>3, <2>6, <2>7 DEF IInv, FrameBegins
  <2>10. BallWhileLive'
    <3>1. ASSUME Shows(cr.marks, "ball") PROVE Shows(cr'.marks, "ball")
      <4>1. PICK k \in 1..Len(cr.marks) : cr.marks[k].what = "ball"
        BY <3>1 DEF Shows
      <4>2. k \in 1..Len(cr'.marks) /\ cr'.marks[k] = cr.marks[k]
        BY <1>3, <2>6, <2>7, <4>1
      <4> QED BY <4>1, <4>2 DEF Shows
    <3> QED BY <1>1, <3>1 DEF IInv, BallWhileLive, data
  <2>11. MarksAreRight'
    <3>1. VsiRegion' = VsiRegion /\ Pointer' = Pointer /\ air' = air /\ store' = store
      BY <1>1 DEF VsiRegion, airballHeight, show_altimeter, Pointer, input
    <3> SUFFICES ASSUME NEW k \in 1..Len(cr'.marks) PROVE IsRight(cr.marks[k])'
      BY DEF MarksAreRight
    <3>2. CASE k \in 1..Len(cr.marks)
      <4>1. IsRight(cr.marks[k])'
        BY <2>5, <2>7, <3>1, <3>2, MarksStayRight DEF IInv
      <4> QED BY <4>1
    <3>3. CASE k \notin 1..Len(cr.marks)
      <4> DEFINE i == k - Len(cr.marks)
                 e == picture[i]
      <4>1. i \in 1..Len(picture) /\ Len(cr.marks) + i = k
        BY <1>3, <2>6, <2>7, <3>3
      <4>2. e \in W
        BY <2>2, <4>1, ElementOfSeq
      <4>3. /\ cr'.marks[k].what = e.what /\ cr'.marks[k].says = e.says
            /\ cr'.marks[k].cells \subseteq inside /\ cr'.marks[k].joined = false
        BY <2>7, <4>1
      <4> HIDE DEF i, e
      <4>4. /\ e.what \in {"vsi", "tic", Pointer, "thousands", "last three digits", "baro"}
            /\ e.what = "thousands" => e.says = Thousands(altitude)
            /\ e.what = "last three digits" => e.says = LastThreeDigits(altitude)
        <5>1. Pointer \in {"pointer up", "pointer level", "pointer down"}
          BY DEF Pointer
        <5> QED BY <4>2, <5>1 DEF W, VsiWidgets, Widgets
      <4>5. air.altitude # NaN => altitude = air.altitude
        BY <2>1
      <4>6. Pointer \in {"pointer up", "pointer level", "pointer down"}
        BY DEF Pointer
      <4>7. e.what \notin InAirballRegion
        BY <4>4, <4>6 DEF InAirballRegion
      <4>8. e.what \in {"pointer up", "pointer level", "pointer down"} => e.what = Pointer
        BY <4>4
      <4>9. cr'.marks[k].cells \subseteq Turned(VsiRegion', cr'.turns)
        BY <2>5, <3>1, <4>3
      <4> QED BY <3>1, <4>3, <4>4, <4>5, <4>7, <4>8, <4>9 DEF IsRight
    <3> QED BY <3>2, <3>3
  <2> QED BY <2>8, <2>9, <2>10, <2>11 DEF IInv
<1> QED BY <1>4, <1>5

\* The cross.
LEMMA PaintNoFlightDataKeepsIInv ==
    ASSUME IInv, PaintNoFlightData
    PROVE  IInv'
<1>1. /\ upc = "data" /\ upc' = "flushed" /\ UNCHANGED <<input, data, wasTurned, brightness>>
  BY DEF PaintNoFlightData
<1>2. /\ ScreenTypeOK /\ Rests(cr) /\ cr.saved = <<>> /\ cr.clip = Panel
      /\ ~wasTurned => cr.turns = 0
  BY DEF IInv, ContextRests
<1>3. Len(cr.marks) \in Nat
  BY <1>2, LenProperties DEF Rests
<1>4. CASE live
  <2>1. cr' = cr
    BY <1>4 DEF PaintNoFlightData
  <2>2. ScreenTypeOK' /\ ContextRests' /\ FrameBegins'
    BY <1>1, <1>2, <2>1 DEF IInv, ScreenTypeOK, ContextRests, FrameBegins, input, data
  <2>3. MarksAreRight'
    BY <1>1, <2>1, MarksStayRight DEF IInv, MarksAreRight, input
  <2>4. BallWhileLive'
    BY <1>1, <1>4, <2>1 DEF IInv, BallWhileLive, data
  <2> QED BY <2>2, <2>3, <2>4 DEF IInv
<1>5. CASE ~live
  <2> DEFINE W == Widgets({"no data"}, {"nothing"})
             cross == [shape |-> "line", number |-> 2, what |-> "no data",
                       says |-> "nothing", area |-> Panel]
  <2>1. /\ paintNoFlightData \in Seq(W) /\ Len(paintNoFlightData) = 1
        /\ paintNoFlightData[1] = cross
    <3>1. Panel \in SUBSET (Int \X Int) /\ Area(0, 0, Width, Height) = Panel
      BY AreaCells, SizeAssumption DEF Panel
    <3>2. cross \in W
      BY <3>1 DEF Widgets, Shapes
    <3>3. paintNoFlightData = <<cross>>
      BY <3>1 DEF paintNoFlightData, diagonals
    <3> HIDE DEF cross, W
    <3> QED BY <3>2, <3>3
  <2>2. \A e \in W : e.shape \in Shapes
    BY DEF Widgets
  <2> HIDE DEF W
  <2>3. cr' = Drawn(cr, paintNoFlightData)
    BY <1>5 DEF PaintNoFlightData
  <2>4. AfterWidgets(cr, paintNoFlightData, Len(paintNoFlightData), cr')
    BY <1>2, <2>1, <2>2, <2>3, PictureLeavesMarks
  <2>5. /\ MarkOf(cr, cross).what = "no data" /\ MarkOf(cr, cross).joined = false
        /\ cr.turns = 0 => IsCross(MarkOf(cr, cross))
    <3>1. Panel \in SUBSET (Int \X Int)
      BY AreaCells, SizeAssumption DEF Panel
    <3>2. Turned(Panel, 0) = Panel
      BY <3>1, NotTurned
    <3> QED BY <1>2, <3>2 DEF MarkOf, Touched, IsCross
  <2> HIDE DEF cross
  <2>6. /\ Rests(cr') /\ cr'.turns = cr.turns /\ cr'.clip = Panel /\ cr'.saved = <<>>
        /\ Len(cr'.marks) = Len(cr.marks) + 1
        /\ \A k \in 1..Len(cr.marks) : cr'.marks[k] = cr.marks[k]
        /\ cr'.marks[Len(cr.marks) + 1] = MarkOf(cr, cross)
    BY <1>2, <2>1, <2>4 DEF AfterWidgets
  <2>7. ScreenTypeOK' /\ ContextRests'
    BY <1>1, <1>2, <2>6 DEF ScreenTypeOK, ContextRests, input, data
  <2>8. FrameBegins'
    BY <1>1, <1>3, <2>6 DEF IInv, FrameBegins
  <2>9. BallWhileLive'
    <3>1. cr'.turns = 0 => IsCross(cr'.marks[Len(cr'.marks)])
      BY <2>5, <2>6
    <3>2. IsCross(cr.marks[Len(cr.marks)])' <=> IsCross(cr'.marks[Len(cr'.marks)])
      BY DEF IsCross
    <3> QED BY <1>1, <3>1, <3>2 DEF BallWhileLive
  <2>10. MarksAreRight'
    <3> SUFFICES ASSUME NEW k \in 1..Len(cr'.marks) PROVE IsRight(cr.marks[k])'
      BY DEF MarksAreRight
    <3>1. CASE k \in 1..Len(cr.marks)
      <4>1. IsRight(cr.marks[k])'
        BY <1>1, <2>6, <3>1, MarksStayRight DEF IInv, input
      <4> QED BY <4>1
    <3>2. CASE k \notin 1..Len(cr.marks)
      <4>1. k = Len(cr.marks) + 1
        BY <1>3, <2>6, <3>2
      <4>2. cr'.marks[k].what = "no data" /\ cr'.marks[k].joined = false
        BY <2>5, <2>6, <4>1
      <4> QED BY <4>2 DEF IsRight, InAirballRegion, InVsiRegion
    <3> QED BY <3>1, <3>2
  <2> QED BY <2>7, <2>8, <2>9, <2>10 DEF IInv
<1> QED BY <1>4, <1>5

\* The end of a frame.
LEMMA FlushKeepsIInv ==
    ASSUME IInv, Flush
    PROVE  IInv'
<1>1. /\ upc' = "events" /\ UNCHANGED <<input, data, wasTurned, brightness>>
  BY DEF Flush
<1>2. /\ Rests(cr') /\ cr'.turns = cr.turns /\ cr'.clip = cr.clip
      /\ cr'.saved = cr.saved /\ cr'.marks = <<>>
  <2>1. Rests(cr)
    BY DEF IInv, ContextRests
  <2>2. cr' = [cr EXCEPT !.marks = <<>>]
    BY Zenon DEF Flush
  <2> QED BY <2>1, <2>2, FlushRests, Zenon
<1>3. ScreenTypeOK' /\ ContextRests' /\ FrameBegins' /\ BallWhileLive'
  BY <1>1, <1>2
  DEF IInv, ScreenTypeOK, ContextRests, FrameBegins, BallWhileLive, input, data
<1>4. MarksAreRight'
  BY <1>2 DEF MarksAreRight
<1> QED BY <1>3, <1>4 DEF IInv

\* A step that changes nothing.
LEMMA StutterKeepsIInv == IInv /\ UNCHANGED vars => IInv'
<1> SUFFICES ASSUME IInv, UNCHANGED vars PROVE IInv'
  OBVIOUS
<1>1. /\ store' = store /\ adjusting' = adjusting /\ air' = air /\ live' = live
      /\ setBack' = setBack /\ upc' = upc /\ cr' = cr /\ wasTurned' = wasTurned
      /\ brightness' = brightness
  BY DEF vars, input, data, screen
<1>2. ScreenTypeOK' /\ ContextRests' /\ FrameBegins' /\ BallWhileLive'
  BY <1>1 DEF IInv, ScreenTypeOK, ContextRests, FrameBegins, BallWhileLive
<1>3. MarksAreRight'
  BY <1>1, MarksStayRight DEF IInv, MarksAreRight
<1> QED BY <1>2, <1>3 DEF IInv

\* Every step keeps the invariant.
LEMMA NextPreservesIInv == IInv /\ [Next]_vars => IInv'
BY EventsKeepIInv, ClockKeepsIInv, PaintAirballKeepsIInv, PaintAltimeterKeepsIInv,
   PaintNoFlightDataKeepsIInv, FlushKeepsIInv, StutterKeepsIInv, Zenon
DEF Next

\* The invariant holds throughout.
LEMMA Invariance == Spec => []IInv
BY InitEstablishesIInv, NextPreservesIInv, PTL DEF Spec

-----------------------------------------------------------------------------
\* The variables keep their types; what the screen is told fits the byte it is
\* sent in, whatever was loaded (st7789vi_screen.cpp); and no part of a frame
\* leaves a clip or a saved state to the next.
THEOREM TypeCorrectness == Spec => []ScreenTypeOK
<1>1. IInv => ScreenTypeOK
  BY DEF IInv
<1> QED
  BY Invariance, <1>1, PTL

\* A frame paints over every cell, as long as no frame was turned, since no clip
\* and nothing saved outlives the part of the frame it is for (AirballView.cpp).
THEOREM AlwaysRepaintsPanel == Spec => []RepaintsPanel
<1>1. IInv => RepaintsPanel
  BY DEF IInv, FrameBegins, RepaintsPanel
<1> QED
  BY Invariance, <1>1, PTL

\* The marks of a sequence are those with numbers from 1 on.
LEMMA MarksNumbered == IInv => DOMAIN cr.marks = 1..Len(cr.marks)
BY DEF IInv, ContextRests, Rests

\* Balls and pole keep to their region and the altimeter to its own, with any
\* layout and however the panel is turned (AirballView.cpp).
THEOREM EverythingInItsPlace == Spec => []InItsPlace
<1>1. IInv => InItsPlace
  BY MarksNumbered DEF IInv, MarksAreRight, IsRight, InItsPlace, MarksOf
<1> QED
  BY Invariance, <1>1, PTL

\* Unless the clock is set back within it, or it is turned, a frame without a ball
\* is crossed out, from corner to corner of the panel, wherever in the frame the
\* data expires (AirballView.cpp).
THEOREM NoDataAlwaysShows == Spec => []NoDataShows
<1>1. IInv => NoDataShows
  <2> SUFFICES ASSUME IInv, upc = "flushed", ~setBack, cr.turns = 0 PROVE NoDataShows
    BY DEF NoDataShows
  <2>1. CASE Shows(cr.marks, "ball")
    <3>1. PICK k \in 1..Len(cr.marks) : cr.marks[k].what = "ball"
      BY <2>1 DEF Shows
    <3>2. k \in MarksOf({"ball"})
      BY <3>1, MarksNumbered DEF MarksOf
    <3> QED BY <3>2 DEF NoDataShows
  <2>2. CASE ~Shows(cr.marks, "ball")
    BY <2>2 DEF IInv, BallWhileLive, IsCross, NoDataShows, CrossedOut, Last
  <2> QED BY <2>1, <2>2
<1> QED
  BY Invariance, <1>1, PTL

\* No ring or arc is joined to the text before it, whatever was drawn
\* (widgets.cpp).
THEOREM StrokesAlwaysStartFresh == Spec => []StrokesStartFresh
<1>1. IInv => StrokesStartFresh
  <2> SUFFICES ASSUME IInv, NEW k \in DOMAIN cr.marks PROVE ~cr.marks[k].joined
    BY DEF StrokesStartFresh
  <2>1. cr.marks[k].joined = false
    BY MarksNumbered DEF IInv, MarksAreRight, IsRight
  <2> QED BY <2>1, Zenon DEF false
<1> QED
  BY Invariance, <1>1, PTL

\* What ReadsBack says of two marks.
ReadsAs(thousands, digits, altitude) ==
    LET feet == 1000 * thousands.number + digits
    IN  /\ thousands.minus <=> altitude < 0
        /\ feet <= Abs(altitude) /\ Abs(altitude) < feet + 10

\* Thousands and digits together.
LEMMA ThousandsAndDigitsRead ==
    ASSUME NEW altitude \in Int
    PROVE  ReadsAs(Thousands(altitude), LastThreeDigits(altitude), altitude)
<1>1. Thousands(altitude).minus <=> altitude < 0
  BY SignReadsBack, Zenon
<1>2. LET feet == 1000 * Thousands(altitude).number + LastThreeDigits(altitude)
      IN  feet <= Abs(altitude) /\ Abs(altitude) < feet + 10
  BY DigitsReadBack
<1> QED BY <1>1, <1>2, Zenon DEF ReadsAs

\* The altimeter shows any altitude, cut to tens of feet towards zero, with its
\* sign, and the pointer is on the side of any climb (AirballView.cpp).
THEOREM AltitudeReadsBack == Spec => []ReadsBack
<1>1. IInv => ReadsBack
  <2> SUFFICES ASSUME IInv PROVE ReadsBack
    OBVIOUS
  <2>1. ASSUME NEW m, NEW k \in DOMAIN cr.marks, m = cr.marks[k] PROVE IsRight(m)
    BY <2>1, MarksNumbered DEF IInv, MarksAreRight
  <2>2. ASSUME air.altitude # NaN
        PROVE  \A k \in MarksOf({"thousands"}), l \in MarksOf({"last three digits"}) :
                 ReadsAs(cr.marks[k].says, cr.marks[l].says, air.altitude)
    <3> TAKE k \in MarksOf({"thousands"}), l \in MarksOf({"last three digits"})
    <3>1. /\ cr.marks[k].says = Thousands(air.altitude)
          /\ cr.marks[l].says = LastThreeDigits(air.altitude)
      BY <2>1, <2>2 DEF MarksOf, IsRight
    <3>2. air.altitude \in Int
      BY <2>2 DEF IInv, ScreenTypeOK
    <3> QED BY <3>1, <3>2, ThousandsAndDigitsRead
  <2>3. ASSUME air.climb # NaN
        PROVE  /\ air.climb > 0 => MarksOf({"pointer down", "pointer level"}) = {}
               /\ air.climb < 0 => MarksOf({"pointer up", "pointer level"}) = {}
    <3>1. air.climb \in Int
      BY <2>3 DEF IInv, ScreenTypeOK
    <3>2. \A k \in MarksOf({"pointer down", "pointer level", "pointer up"}) :
            cr.marks[k].what = Pointer
      BY <2>1 DEF MarksOf, IsRight
    <3>3. CASE air.climb > 0
      <4>1. Pointer = "pointer up" /\ ~(air.climb < 0)
        BY <3>1, <3>3 DEF Pointer
      <4> QED BY <3>2, <4>1 DEF MarksOf
    <3>4. CASE air.climb < 0
      <4>1. Pointer = "pointer down" /\ ~(air.climb > 0)
        BY <2>3, <3>1, <3>4 DEF Pointer
      <4> QED BY <3>2, <4>1 DEF MarksOf
    <3> QED BY <3>3, <3>4
  <2> QED BY <2>2, <2>3, Zenon DEF ReadsBack, ReadsAs
<1> QED
  BY Invariance, <1>1, PTL
=============================================================================
