------------------------------- MODULE Canvas -------------------------------
(***************************************************************************)
(* The canvas of subsys/graphics: fd_canvas.c with the drawing classes     *)
(* fd_drawing_rectangle.c, _image.c, _icon.c, _text.c and _battery.c.      *)
(*                                                                         *)
(* The application changes the views of its drawings.  fd_canvas_update    *)
(* compares every view with the one it saw before, collects the bounding   *)
(* box of what changed and has it drawn, at once or by a work queue.  What *)
(* changes meanwhile, or while the display is off, is kept for the next    *)
(* update.  The display is one row of cells, an area is the interval of    *)
(* cells fd_graphics_area_union and its companions work with, and a cell   *)
(* holds the marks that were drawn over each other in it.                  *)
(***************************************************************************)
EXTENDS Naturals, Sequences, SequencesExt

CONSTANTS
    Width,       \* graphics->width
    Drawings,    \* the drawings, a set of numbers
    Inks         \* colours, bitmaps or strings a view may have

VARIABLES
    kind,            \* the class of each drawing
    view,            \* drawing->view
    previous,        \* drawing->previous_view, with the area laid out for it
    planes,          \* canvas->planes: the drawings in the order they are drawn
    change,          \* canvas->change
    rendering,       \* canvas->is_rendering, and whether the work has been done
    render,          \* canvas->render_state
    queued,          \* the canvas has a work queue
    is_display_on,   \* graphics->is_display_on
    cells,           \* the frame buffer
    smeared          \* ghost: cells drawn over without being cleared, see below

canvasVars == <<kind, view, previous, planes, change, rendering, render, queued,
                is_display_on, cells, smeared>>

Classes == {"rectangle", "image", "icon", "text", "battery"}
Cells == 0 .. Width - 1
Empty == [x |-> 0, width |-> 0]
Whole == [x |-> 0, width |-> Width]
Least(a, b) == IF a < b THEN a ELSE b
Most(a, b) == IF a > b THEN a ELSE b
CellsOf(area) == {c \in Cells : area.x <= c /\ c < area.x + area.width}

Hidden == [visible |-> FALSE, x |-> 0, width |-> 0, ink |-> "none"]
Shown == {v \in [visible : {TRUE}, x : Cells, width : 1 .. Width, ink : Inks] : v.x + v.width <= Width}

\* The orders in which the drawings of a screen are drawn.
ScreenPlanes == {SetToSeq(Drawings)} \cup {<<d>> : d \in Drawings}

fd_graphics_area_is_empty(a) == a.width = 0

fd_graphics_area_union(a, b) ==
    IF fd_graphics_area_is_empty(a) THEN b
    ELSE IF fd_graphics_area_is_empty(b) THEN a
    ELSE LET x == Least(a.x, b.x)
         IN [x |-> x, width |-> Most(a.x + a.width, b.x + b.width) - x]

fd_graphics_area_contains(a, b) == b.x >= a.x /\ b.x + b.width <= a.x + a.width

fd_graphics_area_intersects(a, b) ==
    Least(a.x + a.width, b.x + b.width) > Most(a.x, b.x)

\* fd_drawing_*_layout: a view that is not visible has no area.
AreaOf(v) == IF v.visible THEN [x |-> v.x, width |-> v.width] ELSE Empty

Init ==
    /\ kind \in [Drawings -> Classes]
    /\ view = [d \in Drawings |-> Hidden] /\ previous = view
    /\ planes \in ScreenPlanes
    /\ change = [area |-> Whole, opaque |-> FALSE]
    /\ rendering = "no" /\ render = [area |-> Empty, opaque |-> TRUE, planes |-> <<>>]
    /\ queued \in BOOLEAN /\ is_display_on = TRUE
    /\ cells = [c \in Cells |-> {}] /\ smeared = {}

-----------------------------------------------------------------------------
\* The application changes the view of a drawing, at any time.
ChangeView(d, v) ==
    /\ view[d] # v
    /\ view' = [view EXCEPT ![d] = v]
    /\ UNCHANGED <<kind, previous, planes, change, rendering, render, queued, is_display_on, cells, smeared>>

\* Whether a drawing that changes its area from old to new says that the area
\* need not be cleared before it is drawn, in the update function of each class.
RectangleIsOpaque(new, old) == fd_graphics_area_contains(new, old)
ImageIsOpaque(new, old) == fd_graphics_area_contains(new, old)
IconIsOpaque(new, old) == fd_graphics_area_contains(new, old)
TextIsOpaque(new, old) == FALSE
BatteryIsOpaque(new, old) == FALSE

IsOpaque(class, new, old) ==
    CASE class = "rectangle" -> RectangleIsOpaque(new, old)
      [] class = "image" -> ImageIsOpaque(new, old)
      [] class = "icon" -> IconIsOpaque(new, old)
      [] class = "text" -> TextIsOpaque(new, old)
      [] class = "battery" -> BatteryIsOpaque(new, old)

\* Mutant: the new area of a drawing is drawn, the old one is not.
ChangeOfNewArea(d) ==
    IF view[d] = previous[d] THEN [area |-> Empty, opaque |-> TRUE]
    ELSE [area |-> AreaOf(view[d]),
          opaque |-> IsOpaque(kind[d], AreaOf(view[d]), AreaOf(previous[d]))]

\* fd_drawing_*_update: nothing, or the area before and after.
ChangeOf(d) ==
    LET old == AreaOf(previous[d])
        new == AreaOf(view[d])
    IN IF view[d] = previous[d] THEN [area |-> Empty, opaque |-> TRUE]
       ELSE [area |-> fd_graphics_area_union(old, new), opaque |-> IsOpaque(kind[d], new, old)]

\* fd_canvas_add_change.
fd_canvas_add_change(a, b) ==
    [area |-> fd_graphics_area_union(a.area, b.area), opaque |-> a.opaque /\ b.opaque]

\* What the render function of each class does to the marks in a cell: a
\* rectangle and an image replace them, bitmaps are blended with them.
RectangleOver(marks, mark) == {mark}
ImageOver(marks, mark) == {mark}
IconOver(marks, mark) == marks \cup {mark}
TextOver(marks, mark) == marks \cup {mark}
BatteryOver(marks, mark) == marks \cup {mark}

Over(class, marks, mark) ==
    CASE class = "rectangle" -> RectangleOver(marks, mark)
      [] class = "image" -> ImageOver(marks, mark)
      [] class = "icon" -> IconOver(marks, mark)
      [] class = "text" -> TextOver(marks, mark)
      [] class = "battery" -> BatteryOver(marks, mark)

\* The view that is drawn.  A text is laid out when it is updated, but its string
\* is the one at the time it is drawn: after fd_drawing_text_update previous_view
\* has the buffer of view, not a copy of its own.
LiveView(d, old) ==
    IF kind[d] = "text" /\ old.visible /\ view[d].visible
    THEN [old EXCEPT !.width = view[d].width, !.ink = view[d].ink] ELSE old

Drawn(d, v, c, marks) ==
    IF c \in CellsOf(AreaOf(v)) THEN Over(kind[d], marks, <<d, v.ink>>) ELSE marks

\* fd_canvas_render, for what is in state: the cells are cleared unless the
\* change is opaque, then every drawing that meets the area is drawn in it.
Rendered(state, views, old) ==
    [c \in Cells |->
        IF c \notin CellsOf(state.area) THEN old[c]
        ELSE FoldLeft(LAMBDA marks, d :
                          IF fd_graphics_area_intersects(state.area, AreaOf(views[d]))
                          THEN Drawn(d, LiveView(d, views[d]), c, marks) ELSE marks,
                      IF state.opaque THEN old[c] ELSE {}, state.planes)]

\* Cells that show what fd_canvas_render cannot undo: a bitmap drawn over
\* itself, or a string that had changed since it was laid out.
Smears(state, views) ==
    LET On(d) == fd_graphics_area_intersects(state.area, AreaOf(views[d]))
        bitmaps == \E i \in DOMAIN state.planes :
                       kind[state.planes[i]] = "icon" /\ On(state.planes[i]) /\ state.opaque
        strings == \E i \in DOMAIN state.planes :
                       LET d == state.planes[i]
                       IN kind[d] = "text" /\ On(d) /\ view[d] # views[d]
    IN IF bitmaps \/ strings THEN smeared \cup CellsOf(state.area)
       ELSE IF state.opaque THEN smeared ELSE smeared \ CellsOf(state.area)

\* fd_canvas_update.  While a render is under way or the display is off the
\* area is only added to what is pending.
Update(shown_planes, area, opaque) ==
    LET pending == fd_canvas_add_change(change, [area |-> area, opaque |-> opaque])
        all == FoldLeft(LAMBDA a, d : fd_canvas_add_change(a, ChangeOf(d)), pending, shown_planes)
        updated == [d \in Drawings |-> IF d \in Range(shown_planes) THEN view[d] ELSE previous[d]]
        state == [area |-> all.area, opaque |-> all.opaque, planes |-> shown_planes]
    IN IF rendering # "no" \/ ~ is_display_on
       THEN change' = pending /\ UNCHANGED <<previous, rendering, render, cells, smeared>>
       ELSE /\ previous' = updated
            /\ IF fd_graphics_area_is_empty(all.area)
               THEN change' = all /\ UNCHANGED <<rendering, render, cells, smeared>>
               ELSE /\ change' = [area |-> Empty, opaque |-> TRUE]
                    /\ render' = state
                    /\ IF queued
                       THEN rendering' = "queued" /\ UNCHANGED <<cells, smeared>>
                       ELSE /\ cells' = Rendered(state, updated, cells)
                            /\ smeared' = Smears(state, updated)
                            /\ UNCHANGED rendering

\* fd_ux_update: what changed is found by fd_canvas_update.
fd_ux_update ==
    /\ Update(planes, Empty, TRUE)
    /\ UNCHANGED <<kind, view, planes, queued, is_display_on>>

\* fd_ux_set_screen_to: other drawings, and all of the display.
fd_ux_set_screen_to(shown_planes) ==
    /\ planes # shown_planes /\ planes' = shown_planes
    /\ Update(shown_planes, Whole, FALSE)
    /\ UNCHANGED <<kind, view, queued, is_display_on>>

\* fd_canvas_render_work, on the work queue.
fd_canvas_render_work ==
    /\ rendering = "queued" /\ rendering' = "done"
    /\ cells' = Rendered(render, previous, cells)
    /\ smeared' = Smears(render, previous)
    /\ UNCHANGED <<kind, view, previous, planes, change, render, queued, is_display_on>>

RenderWorkDone ==
    /\ rendering = "done" /\ rendering' = "no"
    /\ render' = [area |-> Empty, opaque |-> TRUE, planes |-> <<>>]
    /\ UNCHANGED <<kind, view, previous, planes, change, queued, is_display_on, cells, smeared>>

\* fd_graphics_display_on and fd_graphics_display_off.
SwitchDisplay ==
    /\ is_display_on' = ~ is_display_on
    /\ UNCHANGED <<kind, view, previous, planes, change, rendering, render, queued, cells, smeared>>

Next ==
    \/ \E d \in Drawings : \E v \in Shown \cup {Hidden} : ChangeView(d, v)
    \/ fd_ux_update
    \/ \E p \in ScreenPlanes : fd_ux_set_screen_to(p)
    \/ fd_canvas_render_work \/ RenderWorkDone
    \/ SwitchDisplay

Spec == Init /\ [][Next]_canvasVars

-----------------------------------------------------------------------------
\* What the display would show had it been cleared and drawn completely.
Redrawn ==
    [c \in Cells |->
        FoldLeft(LAMBDA marks, d : Drawn(d, previous[d], c, marks), {}, planes)]

Damaged ==
    CellsOf(change.area)
    \cup (IF rendering = "queued" THEN CellsOf(render.area) ELSE {})

\* No damage is lost: a cell that is neither waiting to be drawn nor being drawn
\* shows what drawing everything from scratch would show, whatever was moved,
\* hidden or put on another screen while a render was under way or the display
\* was off.  Two cases of the code are excepted: icons are blended over their old
\* bitmap, and a string that changes while it is being drawn.
NoDamageLost ==
    \A c \in Cells \ (Damaged \cup smeared) : cells[c] = Redrawn[c]
=============================================================================
