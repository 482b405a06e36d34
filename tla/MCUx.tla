-------------------------------- MODULE MCUx --------------------------------
(***************************************************************************)
(* The user interface, the canvas and the animations, for TLC.  A          *)
(* behaviour exercises one of them, chosen in the initial state; the user  *)
(* interface either with its buttons or with the requests of a host.       *)
(***************************************************************************)
EXTENDS Ux

CONSTANTS Width, Drawings, Inks, PlayerCount, StepCount, Duration, Animations, Callers, MaxCalls

VARIABLES which,
    kind, view, previous, planes, change, rendering, render, queued, is_display_on, cells, smeared,
    sequence, step, elapsed, stop, cancel, next, active, running, pending, ticking, call, calls,
    open, raced, upset

C == INSTANCE Canvas
A == INSTANCE Animation

ASSUME InputAssumption == A!AnimationAssumption

canvas == <<kind, view, previous, planes, change, rendering, render, queued, is_display_on, cells, smeared>>
animation == <<sequence, step, elapsed, stop, cancel, next, active, running, pending, ticking, call,
               calls, open, raced, upset>>
allVars == <<which, uxVars, canvas, animation>>

\* The classes of the two drawings.
Kinds == {<<"rectangle", "text">>, <<"image", "icon">>, <<"battery", "rectangle">>}

MCInit ==
    /\ which \in {"buttons", "host", "canvas", "animation"}
    /\ Init /\ C!Init /\ A!Init
    /\ kind \in Kinds
    /\ which # "canvas" => kind = <<"rectangle", "text">> /\ planes = <<1>> /\ queued = FALSE
    /\ which \notin {"buttons", "host"} => stored = 0

ButtonsStep == /\ which = "buttons" /\ (Inputs \/ Work \/ Restart)
               /\ UNCHANGED <<which, canvas, animation>>
HostStep == /\ which = "host" /\ (Calls \/ Work \/ Restart)
            /\ UNCHANGED <<which, canvas, animation>>
CanvasStep == /\ which = "canvas" /\ C!Next
              /\ UNCHANGED <<which, uxVars, animation>>
AnimationStep == /\ which = "animation" /\ A!Next
                 /\ UNCHANGED <<which, uxVars, canvas>>

MCNext == ButtonsStep \/ HostStep \/ CanvasStep \/ AnimationStep

MCSpec == MCInit /\ [][MCNext]_allVars

\* Canvas: a cell that does not wait to be drawn shows what drawing everything
\* from scratch would show (fd_canvas_update).
NoDamageLost == C!NoDamageLost

\* Animation: a player that has a sequence is going to be ticked, only its current
\* step is open and a sequence that waits is played, but for the interleavings that
\* Animation names (fd_animation_player_tick, fd_animation_start).
PlayersAdvance == A!PlayersAdvance
=============================================================================
