------------------------------- MODULE Canvas -------------------------------
(* What the calls of view/widgets.cpp do to the cairo context of a screen.    *)
(* The context is made once, with the screen, and is the same in every frame: *)
(* its clip, its transformation and its current path are state that one call  *)
(* leaves to the next, and one frame to the next.                             *)
(*                                                                            *)
(* A widget is a record; Draw is the calls of cairo that draw it.  Positions  *)
(* are left out but for areas, sets of cells: those that are filled or        *)
(* clipped, and those that lines run across; colours and fonts are left out.  *)
EXTENDS Integers, SequencesExt

CONSTANTS
    Width, Height           \* screen_width and screen_height, in cells

ASSUME SizeAssumption == Width \in Nat \ {0} /\ Height \in Nat \ {0}

\* The cells of a rectangle, and those of the panel.
Area(left, top, width, height) ==
    (left..(left + width - 1)) \X (top..(top + height - 1))
Panel == Area(0, 0, Width, Height)

-----------------------------------------------------------------------------
(* The parts of cairo that the view uses.  Of the current path the context    *)
(* keeps the cells of its rectangles, whether there is a current point, and   *)
(* whether an arc was joined to one by a line that nobody asked for.  marks   *)
(* is what was drawn since the frame began; a mark has the text it says, the  *)
(* cells that it may touch and no others, and the place of the area that was  *)
(* asked for, some of which may be clipped or off the panel.                  *)

Context ==
    [turns |-> 0, clip |-> Panel, saved |-> <<>>,
     path |-> {}, point |-> FALSE, joined |-> FALSE, marks |-> <<>>]

\* cairo_translate(0, width) and cairo_rotate(-pi/2): to what was there before.
turn(g) == [g EXCEPT !.turns = (@ + 1) % 4]

\* The cells of the panel that cells are drawn to.
Turned(cells, turns) ==
    LET to(x, y) == CASE turns = 0 -> <<x, y>>
                      [] turns = 1 -> <<y, Width - 1 - x>>
                      [] turns = 2 -> <<Width - 1 - x, Width - 1 - y>>
                      [] turns = 3 -> <<Width - 1 - y, x>>
    IN  {to(c[1], c[2]) : c \in cells}

\* cairo_save(), cairo_restore(): the path is not among what they keep.
save(g) == [g EXCEPT !.saved = Append(@, [turns |-> g.turns, clip |-> g.clip])]
restore(g) ==
    LET top == Last(g.saved)
    IN  [g EXCEPT !.saved = Front(@), !.turns = top.turns, !.clip = top.clip]

new_path(g) == [g EXCEPT !.path = {}, !.point = FALSE, !.joined = FALSE]
move_to(g) == [g EXCEPT !.point = TRUE]
arc_to(g) == [g EXCEPT !.joined = @ \/ g.point, !.point = TRUE]
rectangle_to(g, area) ==
    [g EXCEPT !.path = @ \cup Turned(area, g.turns), !.point = TRUE]

Marked(g, e, cells, joined) ==
    [g EXCEPT !.marks =
        Append(@, [what |-> e.what, says |-> e.says, number |-> e.number,
                   place |-> Turned(e.area, g.turns), cells |-> cells, joined |-> joined])]

\* cairo_stroke(), cairo_fill(), cairo_clip() use the path up.  A stroke or a
\* disc may touch all that the clip lets it, which does not say that it does.
stroke(g, e) == new_path(Marked(g, e, g.clip, g.joined))
fill(g, e, cells) == new_path(Marked(g, e, cells \cap g.clip, FALSE))
clip(g) == new_path([g EXCEPT !.clip = @ \cap g.path])

\* cairo_show_text(): the current point is after the last letter then.
show_text(g, e) == move_to(Marked(g, e, g.clip, FALSE))

-----------------------------------------------------------------------------
(* The widgets, and pictures: sequences of them.  A number of one kind, drawn *)
(* in a row, is one: the first of them uses the path up, and the others begin *)
(* without one.                                                               *)

widgets(number, shape, what) ==
    <<[shape |-> shape, number |-> number, what |-> what, says |-> "nothing", area |-> {}]>>
lines(number, what) == widgets(number, "line", what)
line(what) == lines(1, what)

\* Two lines, each from one corner of an area to the opposite one.
diagonals(what, area) ==
    <<[shape |-> "line", number |-> 2, what |-> what, says |-> "nothing", area |-> area]>>
arc(what) == widgets(1, "arc", what)
rosette(num_petals, what) == widgets(num_petals, "arc", what)
discs(number, what) == widgets(number, "disc", what)
disc(what) == discs(1, what)
draw_text(what, text) ==
    <<[shape |-> "text", number |-> 1, what |-> what, says |-> text, area |-> {}]>>
rectangle(what, area) ==
    <<[shape |-> "rectangle", number |-> 1, what |-> what, says |-> "nothing", area |-> area]>>

\* A rectangle whose place is not among what the model keeps.
panel(what) == rectangle(what, Panel)
round_rectangle(what) == panel(what) \o panel(what) \o discs(4, what)

DrawLine(g, e) == stroke(move_to(g), e)

\* A disc that is joined to a point before it: the border runs to the point
\* and back, and encloses no more.
DrawDisc(g, e) == fill(arc_to(g), e, g.clip)
DrawRectangle(g, e) ==
    LET drawn == rectangle_to(g, e.area) IN fill(drawn, e, drawn.path)
DrawText(g, e) == show_text(move_to(g), e)

\* Mutant: an arc goes on from where the pen is.
DrawArcOn(g, e) == stroke(arc_to(g), e)

DrawArc(g, e) == stroke(arc_to(new_path(g)), e)

Draw(g, e) ==
    CASE e.shape = "line" -> DrawLine(g, e)
      [] e.shape = "arc" -> DrawArc(g, e)
      [] e.shape = "disc" -> DrawDisc(g, e)
      [] e.shape = "rectangle" -> DrawRectangle(g, e)
      [] e.shape = "text" -> DrawText(g, e)

\* The context after the widgets of a picture, from the first to the last.
Drawn(g, picture) ==
    LET after[n \in 0..Len(picture)] ==
            IF n = 0 THEN g ELSE Draw(after[n - 1], picture[n])
    IN  after[Len(picture)]
=============================================================================
