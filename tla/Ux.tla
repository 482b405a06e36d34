--------------------------------- MODULE Ux ---------------------------------
(***************************************************************************)
(* The user interface of subsys/ux on the watch: fd_ux_button.c turns the  *)
(* edges of the button pins into events, fd_ux.c keeps the display state   *)
(* and the active screen, fd_ux_touch.c passes touches on, and the screens *)
(* of applications/watch react.  fd_rpc_server_ux.c drives the same        *)
(* functions from a host.                                                  *)
(*                                                                         *)
(* Ticks and requests run on one work queue.  The pin interrupt calls      *)
(* fd_ux_button_change, and may come between any two steps of the tick:    *)
(* in particular between the moment fd_ux_button_timeout reads the pins    *)
(* and the moment it uses what it read.  A timestamp is abstracted to      *)
(* whether it is zero, which the code uses for "none"; the holds and       *)
(* chords of an event, which no screen looks at, are left out.  What is    *)
(* drawn is the subject of Canvas.                                         *)
(***************************************************************************)
EXTENDS Naturals, Sequences, FiniteSets

CONSTANTS
    ButtonCount,   \* configuration.count
    Debounce,      \* ticks of the debounce timer
    Timeouts,      \* display timeouts that are configured, in ticks; 0 for none
    SplashTicks    \* ticks the splash screen stays

ASSUME UxAssumption == ButtonCount \in Nat /\ Debounce \in Nat

VARIABLES
    level,     \* the buttons that are held down
    edge,      \* a pin interrupt is pending
    buttons,   \* ux_button->buttons
    states,    \* ux_button->states: press and release noted, press sent
    timer,     \* the debounce timer
    started,   \* fd_timer.timestamp is not zero
    at,        \* what the work queue does, and for which button
    read,      \* the pins as fd_ux_button_timeout read them
    pressed,   \* the local of fd_ux_button_timeout_logic
    ux,        \* fd_ux_t, with the release flags of the button and the touch input
    stored,    \* the display timeout in the key/value store
    told,      \* ghost: the last action sent for each button
    muddled,   \* ghost: buttons whose bookkeeping is wrong, see below
    held       \* ghost: buttons held down across a restart, until the pins are read again

uxVars == <<level, edge, buttons, states, timer, started, at, read, pressed, ux,
            stored, told, muddled, held>>

Buttons == 1 .. ButtonCount
left == 1
Screens == {"splash", "time", "powering_off"}
Actions == {"pressed", "released"}
Idle == [pc |-> "idle", button |-> 0]
At(pc, b) == [pc |-> pc, button |-> b]
Stopped == [active |-> FALSE, triggered |-> FALSE, countdown |-> 0]
CapAt(n, cap) == IF n > cap THEN cap ELSE n

\* fd_ux_initialize: the first screen is activated, the configuration comes
\* from the store.
InitialUx(timeout) ==
    [state |-> "on", idle_ticks |-> 0, limit |-> timeout, update_enabled |-> TRUE,
     screen |-> "splash", splash_ticks |-> 0,
     consume |-> FALSE, touchs |-> FALSE, touch_consume |-> FALSE]

\* fd_ux_button_initialize: nothing is pressed, whatever the pins say.
InitialState == [press |-> FALSE, release |-> FALSE, sent |-> FALSE]

Init ==
    /\ level = {} /\ edge = FALSE
    /\ buttons = {} /\ states = [b \in Buttons |-> InitialState]
    /\ timer = Stopped /\ started = FALSE
    /\ at = Idle /\ read = {} /\ pressed = {}
    /\ stored \in Timeouts
    /\ ux = InitialUx(stored)
    /\ told = [b \in Buttons |-> "released"] /\ muddled = {} /\ held = {}

-----------------------------------------------------------------------------
(* fd_ux.c and the screens, as functions of the user interface. *)

\* fd_ux_set_screen_to: a screen that is activated starts its ticks again, one
\* that is previewed does not.
SetScreen(u, s, preview) ==
    IF u.screen = s THEN u
    ELSE [u EXCEPT !.screen = s,
                   !.splash_ticks = IF s = "splash" /\ ~ preview THEN 0 ELSE @]

\* The animate function of the active screen: the splash screen leaves after its
\* ticks, which are capped where they no longer make a difference.  The other two
\* screens only write the time and the countdown; fd_watch_power_off is empty.
Animate(u) ==
    LET ticked == [u EXCEPT !.splash_ticks = CapAt(@ + 1, SplashTicks + 1)]
    IN IF u.screen # "splash" THEN u
       ELSE IF u.splash_ticks > SplashTicks THEN SetScreen(ticked, "time", FALSE)
       ELSE ticked

\* fd_ux_set_state, with the listener of the touch input.
SetState(u, s) ==
    IF u.state = s THEN u
    ELSE LET changed == [u EXCEPT !.state = s, !.idle_ticks = 0]
             shown == IF s = "on" THEN Animate(changed) ELSE changed
         IN [shown EXCEPT !.touch_consume = shown.touchs]

fd_ux_active(u) ==
    CASE u.state = "on" -> [u EXCEPT !.idle_ticks = 0]
      [] u.state = "idle" -> SetState(u, "on")
      [] u.state = "off" -> u

fd_ux_should_idle(u) == u.state = "on" /\ u.limit # 0 /\ u.idle_ticks > u.limit

\* The button functions of the three screens.
ScreenButton(u, action, b) ==
    IF action # "pressed" THEN u
    ELSE CASE u.screen = "time" -> IF b = left THEN SetScreen(u, "splash", FALSE) ELSE u
           [] u.screen # "time" -> SetScreen(u, "time", FALSE)

\* fd_ux_button_event: a press that turns the display on is not passed on, and
\* neither is the next release.
fd_ux_button_event(u, action, b) ==
    IF u.state # "on"
    THEN IF action = "pressed" THEN SetState([u EXCEPT !.consume = TRUE], "on") ELSE u
    ELSE IF u.consume /\ action = "released" THEN [u EXCEPT !.consume = FALSE]
    ELSE ScreenButton(fd_ux_active(u), action, b)

\* fd_ux_touch_event: a touch that turns the display on is consumed with its
\* release, by the listener in SetState.  No screen of the watch has a touch function.
fd_ux_touch_event(u, action) ==
    LET touched == [u EXCEPT !.touchs = (action = "pressed")]
    IN IF u.touch_consume THEN [touched EXCEPT !.touch_consume = (action = "pressed")]
       ELSE IF u.state # "on" THEN SetState(touched, "on")
       ELSE fd_ux_active(touched)

-----------------------------------------------------------------------------
(* The buttons. *)

\* The environment: a button goes down or up.
ButtonMoves(b) ==
    /\ level' = IF b \in level THEN level \ {b} ELSE level \cup {b}
    /\ edge' = TRUE
    /\ UNCHANGED <<buttons, states, timer, started, at, read, pressed, ux, stored, told, muddled, held>>

\* fd_ux_button_check: a change is noted with the time, which is zero before the
\* first tick.
Checked(now) ==
    [b \in Buttons |->
        [states[b] EXCEPT !.press = IF b \in now \ buttons THEN started ELSE @,
                          !.release = IF b \in buttons \ now THEN started ELSE @]]

\* Buttons whose change is noted with time zero, that is not at all.
LostIn(now) == IF started THEN {} ELSE (now \ buttons) \cup (buttons \ now)

\* The interrupt, fd_ux_button_change: ignored while the debounce timer runs.
fd_ux_button_change ==
    /\ edge /\ edge' = FALSE
    /\ IF timer.active THEN UNCHANGED <<buttons, states, timer, muddled, held>>
       ELSE /\ states' = Checked(level)
            /\ muddled' = muddled \cup LostIn(level)
            /\ buttons' = level /\ held' = {}
            /\ timer' = [active |-> TRUE, triggered |-> FALSE, countdown |-> Debounce]
    /\ UNCHANGED <<level, started, at, read, pressed, ux, stored, told>>

-----------------------------------------------------------------------------
(* fd_watch_tick_work: fd_timer_update, then fd_ux_tick. *)

\* fd_timer_update up to the callbacks.
fd_timer_update ==
    /\ at = Idle
    /\ started' = TRUE
    /\ timer' = IF ~ timer.active THEN timer
                ELSE IF timer.countdown <= 1 THEN [Stopped EXCEPT !.triggered = TRUE]
                ELSE [timer EXCEPT !.countdown = @ - 1]
    /\ at' = At("callback", 0)
    /\ UNCHANGED <<level, edge, buttons, states, read, pressed, ux, stored, told, muddled, held>>

\* fd_ux_button_timeout reads the pins.
fd_ux_button_timeout ==
    /\ at.pc = "callback"
    /\ IF timer.triggered
       THEN read' = level /\ timer' = [timer EXCEPT !.triggered = FALSE] /\ at' = At("check", 0)
       ELSE at' = At("tick", 0) /\ read' = {} /\ UNCHANGED timer
    /\ UNCHANGED <<level, edge, buttons, states, started, pressed, ux, stored, told, muddled, held>>

\* Mutant: what the interrupt noted is not looked at again after debouncing.
CheckWithoutButtons ==
    /\ at.pc = "check"
    /\ pressed' = read \ buttons
    /\ at' = At("send", 1)
    /\ UNCHANGED <<level, edge, buttons, states, timer, started, read, ux, stored, told, muddled, held>>

\* The start of fd_ux_button_timeout_logic.
TimeoutCheck ==
    /\ at.pc = "check"
    /\ pressed' = read \ buttons
    /\ states' = Checked(read)
    /\ buttons' = read /\ held' = {}
    /\ at' = At("send", 1)
    /\ UNCHANGED <<level, edge, timer, started, read, ux, stored, told, muddled>>

\* The events for one button: none when it was released and pressed again
\* within the debounce time, the noted release then stays.
Events(s, again) ==
    IF s.press /\ s.sent /\ again THEN <<>>
    ELSE (IF s.press /\ ~ s.sent THEN <<"pressed">> ELSE <<>>)
         \o (IF s.release THEN <<"released">> ELSE <<>>)

AfterEvents(s, again) ==
    IF s.press /\ s.sent /\ again THEN s
    ELSE IF s.release THEN InitialState
    ELSE [s EXCEPT !.sent = s.press \/ @]

Delivered(u, events, b) ==
    CASE events = <<>> -> u
      [] Len(events) = 1 -> fd_ux_button_event(u, events[1], b)
      [] Len(events) = 2 -> fd_ux_button_event(fd_ux_button_event(u, events[1], b), events[2], b)

\* One button of the loop of fd_ux_button_timeout_logic.
TimeoutSend ==
    /\ at.pc = "send" /\ at.button \in Buttons
    /\ LET b == at.button
           s == states[b]
           events == Events(s, b \in pressed)
       IN /\ states' = [states EXCEPT ![b] = AfterEvents(s, b \in pressed)]
          /\ ux' = Delivered(ux, events, b)
          /\ told' = IF events = <<>> THEN told ELSE [told EXCEPT ![b] = events[Len(events)]]
          /\ muddled' = IF ~ s.release THEN muddled
                        ELSE IF b \in buttons THEN muddled \cup {b} ELSE muddled \ {b}
    /\ at' = IF at.button = ButtonCount THEN At("tick", 0) ELSE At("send", at.button + 1)
    /\ UNCHANGED <<level, edge, buttons, timer, started, read, pressed, stored, held>>

\* fd_ux_tick.  The application chooses the state after the idle time.
fd_ux_tick ==
    /\ at.pc = "tick" /\ at' = Idle
    /\ LET counts == ux.limit # 0 /\ ux.state = "on"
           ticked == [ux EXCEPT !.idle_ticks = IF counts THEN @ + 1 ELSE @]
       IN IF counts /\ fd_ux_should_idle(ticked)
          THEN \E s \in {"idle", "off"} : ux' = SetState(ticked, s)
          ELSE ux' = IF ux.update_enabled THEN Animate(ticked) ELSE ticked
    /\ UNCHANGED <<level, edge, buttons, states, timer, started, read, pressed, stored, told, muddled, held>>

-----------------------------------------------------------------------------
(* Requests of a host and calls of the application, on the work queue. *)

Call(u) ==
    /\ at = Idle
    /\ ux' = u
    /\ UNCHANGED <<level, edge, buttons, states, timer, started, at, read, pressed, told, muddled, held>>

set_screen_request(s) == Call(SetScreen(ux, s, FALSE)) /\ UNCHANGED stored
fd_ux_set_screen_preview(s) == Call(SetScreen(ux, s, TRUE)) /\ UNCHANGED stored
send_input_events_request ==
    /\ UNCHANGED stored
    /\ \E action \in Actions :
           \/ Call(fd_ux_touch_event(ux, action))
           \/ \E b \in Buttons : Call(fd_ux_button_event(ux, action, b))
set_update_enabled_request(enabled) == Call([ux EXCEPT !.update_enabled = enabled]) /\ UNCHANGED stored
fd_ux_set_state(s) == Call(SetState(ux, s)) /\ UNCHANGED stored
fd_ux_set_idle_ticks(n) == Call([ux EXCEPT !.limit = n, !.idle_ticks = 0]) /\ UNCHANGED stored

\* The new configuration reaches the store.  The listener of fd_ux_initialize
\* has no context, so it is not found in the user interface's own keys and the
\* timeout in use stays as it is until the next start.
set_display_configuration_request(timeout) ==
    /\ stored' = timeout
    /\ Call(fd_ux_active(ux))

\* The device is started again; the pins keep their level.
Restart ==
    /\ at = Idle
    /\ buttons' = {} /\ states' = [b \in Buttons |-> InitialState]
    /\ timer' = Stopped /\ started' = FALSE /\ edge' = FALSE
    /\ ux' = InitialUx(stored)
    /\ told' = [b \in Buttons |-> "released"] /\ muddled' = {} /\ held' = level
    /\ UNCHANGED <<level, at, read, pressed, stored>>

Inputs == (\E b \in Buttons : ButtonMoves(b)) \/ fd_ux_button_change
Work == fd_timer_update \/ fd_ux_button_timeout \/ TimeoutCheck \/ TimeoutSend \/ fd_ux_tick
Calls ==
    \/ \E s \in Screens : set_screen_request(s) \/ fd_ux_set_screen_preview(s)
    \/ send_input_events_request
    \/ \E enabled \in BOOLEAN : set_update_enabled_request(enabled)
    \/ \E s \in {"on", "idle", "off"} : fd_ux_set_state(s)
    \/ \E n \in Timeouts : fd_ux_set_idle_ticks(n) \/ set_display_configuration_request(n)

Next == Inputs \/ Work \/ Calls \/ Restart

Spec == Init /\ [][Next]_uxVars

-----------------------------------------------------------------------------
UxTypeOK ==
    /\ buttons \subseteq Buttons /\ read \subseteq Buttons
    /\ ux.screen \in Screens /\ ux.state \in {"on", "idle", "off"}
    /\ ux.limit \in Timeouts /\ (ux.idle_ticks <= ux.limit \/ ux.limit = 0)

\* Nothing is under way that could still report a change.
Settled == at = Idle /\ ~ edge /\ ~ timer.active /\ ~ timer.triggered

\* Once the pins are quiet and debounced, the last event sent for every button
\* says whether it is held down: no press or release is lost and none is left
\* over, wherever the interrupt came between the steps of the timeout.  Three cases
\* of the code are excepted: a change noted while the clock was still zero, and a
\* button that was released and pressed again before the timeout looked at it:
\* it is taken for released, or its release stays noted for a later timeout
\* (muddled, until a release is sent); and a button that is held down across a
\* restart, which fd_ux_button_initialize takes for released and does not read: no
\* press is sent until an edge of any button makes the code read the pins (held).
ButtonsSettle ==
    Settled => \A b \in Buttons \ (muddled \cup held) : (told[b] = "pressed") <=> (b \in level)
=============================================================================
