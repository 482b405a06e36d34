------------------------------ MODULE UxProofs ------------------------------
(***************************************************************************)
(* Proofs about the user interface for any number of buttons and any time  *)
(* of debouncing (Ux.tla), and about the animations for any number of      *)
(* players, steps and ticks (Animation.tla).                               *)
(***************************************************************************)
EXTENDS MCUx, TLAPS

-----------------------------------------------------------------------------
(* Buttons.  The interrupt and the timeout of the debounce timer both      *)
(* assign buttons and states; the invariant says what is still going to    *)
(* happen when the two disagree with the pins or with what was sent.       *)

ButtonTypes ==
    /\ timer \in [active : BOOLEAN, triggered : BOOLEAN, countdown : Nat]
    /\ at \in [pc : {"idle", "callback", "check", "send", "tick"}, button : Nat]
    /\ at.pc = "idle" => at.button = 0
    /\ states \in [Buttons -> [press : BOOLEAN, release : BOOLEAN, sent : BOOLEAN]]
    /\ told \in [Buttons -> Actions]
    /\ edge \in BOOLEAN /\ started \in BOOLEAN

\* Restarted, and no interrupt since: what is held down is not known.
Fresh ==
    /\ at.pc \in {"idle", "callback", "tick"}
    /\ \A b \in Buttons : told[b] = "released"
    /\ level \subseteq held

\* What the pins are, the bookkeeping will hear of.
PinsFollowed ==
    edge \/ timer.active \/ timer.triggered \/ Fresh
      \/ level = IF at.pc = "check" THEN read ELSE buttons

\* The tick work is still going to look at this button.
Due(b) ==
    timer.active \/ timer.triggered \/ at.pc = "check" \/ (at.pc = "send" /\ at.button <= b)

\* A press is noted until the release was sent, a release until it was sent, and
\* what is noted was sent unless that is due.
Noted(b) ==
    IF b \in buttons
    THEN states[b].press /\ (states[b].sent \/ Due(b))
    ELSE IF states[b].release THEN Due(b) ELSE ~states[b].press /\ ~states[b].sent

ButtonInv ==
    /\ ButtonTypes
    /\ at.pc # "idle" => started
    /\ at.pc = "send" => timer.active \/ pressed \subseteq buttons
    /\ \A b \in Buttons : (told[b] = "pressed") <=> states[b].sent
    /\ PinsFollowed
    /\ \A b \in Buttons \ muddled : Noted(b)

\* A step that leaves the bookkeeping and the tick work alone.
LEMMA KeptBookkeeping ==
  ASSUME ButtonInv, UNCHANGED <<buttons, states, timer, started, at, read, pressed, told, muddled, held>>,
         edge' \in BOOLEAN, edge' \/ UNCHANGED <<level, edge>>
  PROVE  ButtonInv'
BY DEF ButtonInv, ButtonTypes, PinsFollowed, Fresh, Noted, Due

\* What fd_ux_button_check leaves noted of a button.
LEMMA CheckedFacts ==
  ASSUME ButtonTypes, NEW now
  PROVE  /\ Checked(now) \in [Buttons -> [press : BOOLEAN, release : BOOLEAN, sent : BOOLEAN]]
         /\ \A b \in Buttons :
              /\ Checked(now)[b].sent = states[b].sent
              /\ Checked(now)[b].press = IF b \in now \ buttons THEN started ELSE states[b].press
              /\ Checked(now)[b].release = IF b \in buttons \ now THEN started ELSE states[b].release
<1>1. ASSUME NEW b \in Buttons
      PROVE  /\ Checked(now)[b] \in [press : BOOLEAN, release : BOOLEAN, sent : BOOLEAN]
             /\ Checked(now)[b].sent = states[b].sent
             /\ Checked(now)[b].press = IF b \in now \ buttons THEN started ELSE states[b].press
             /\ Checked(now)[b].release = IF b \in buttons \ now THEN started ELSE states[b].release
  <2>1. PICK s \in [press : BOOLEAN, release : BOOLEAN, sent : BOOLEAN] : s = states[b]
    BY DEF ButtonTypes
  <2>2. Checked(now)[b] =
          [s EXCEPT !.press = IF b \in now \ buttons THEN started ELSE @,
                    !.release = IF b \in buttons \ now THEN started ELSE @]
    BY <2>1 DEF Checked
  <2>3. started \in BOOLEAN
    BY DEF ButtonTypes
  <2> QED
    BY <2>1, <2>2, <2>3
<1>2. Checked(now) = [b \in Buttons |-> Checked(now)[b]]
  BY DEF Checked
<1> QED
  BY <1>1, <1>2

\* The interrupt of a pin keeps what is noted of the buttons.
LEMMA ButtonChangeInv ==
  ASSUME ButtonInv, fd_ux_button_change
  PROVE  ButtonInv'
<1> USE DEF fd_ux_button_change
<1>1. CASE timer.active
  <2>1. UNCHANGED <<buttons, states, timer, started, at, read, pressed, told, muddled, level>>
        /\ edge' = FALSE
    BY <1>1
  <2>2. ButtonTypes'
    BY <2>1 DEF ButtonInv, ButtonTypes
  <2>3. \A b \in Buttons : Noted(b)' <=> Noted(b)
    BY <2>1 DEF Noted, Due
  <2> QED
    BY <1>1, <2>1, <2>2, <2>3 DEF ButtonInv, PinsFollowed
<1>2. CASE ~timer.active
  <2>1. /\ states' = Checked(level) /\ muddled' = muddled \cup LostIn(level) /\ buttons' = level
        /\ timer' = [active |-> TRUE, triggered |-> FALSE, countdown |-> Debounce]
        /\ UNCHANGED <<started, at, told, level>> /\ edge' = FALSE
    BY <1>2
  <2>2. /\ states' \in [Buttons -> [press : BOOLEAN, release : BOOLEAN, sent : BOOLEAN]]
        /\ \A b \in Buttons :
              /\ states'[b].sent = states[b].sent
              /\ states'[b].press = IF b \in level \ buttons THEN started ELSE states[b].press
              /\ states'[b].release = IF b \in buttons \ level THEN started ELSE states[b].release
    BY <2>1, CheckedFacts DEF ButtonInv
  <2>3. ButtonTypes'
    BY <2>1, <2>2, UxAssumption DEF ButtonInv, ButtonTypes
  <2>4. \A b \in Buttons : (told'[b] = "pressed") <=> states'[b].sent
    BY <2>1, <2>2 DEF ButtonInv
  <2>5. ASSUME NEW b \in Buttons \ muddled' PROVE Noted(b)'
    <3>1. b \notin muddled /\ (~started => (b \in level <=> b \in buttons))
      BY <2>1, <2>5 DEF LostIn
    <3>2. Noted(b)
      BY <3>1 DEF ButtonInv
    <3> QED
      BY <2>1, <2>2, <3>1, <3>2 DEF Noted, Due
  <2> QED
    BY <2>1, <2>3, <2>4, <2>5 DEF ButtonInv, PinsFollowed
<1> QED
  BY <1>1, <1>2

\* The timer counts down, and fires when the debounce time is over.
LEMMA TimerUpdateInv ==
  ASSUME ButtonInv, fd_timer_update
  PROVE  ButtonInv'
<1> USE DEF fd_timer_update
<1>1. /\ timer' \in [active : BOOLEAN, triggered : BOOLEAN, countdown : Nat]
      /\ timer'.active \/ timer'.triggered <=> timer.active \/ timer.triggered
  <2>1. timer \in [active : BOOLEAN, triggered : BOOLEAN, countdown : Nat]
    BY DEF ButtonInv, ButtonTypes
  <2>2. CASE ~timer.active
    BY <2>1, <2>2
  <2>3. CASE timer.active /\ timer.countdown <= 1
    BY <2>1, <2>3 DEF Stopped
  <2>4. CASE timer.active /\ ~(timer.countdown <= 1)
    BY <2>1, <2>4
  <2> QED
    BY <2>2, <2>3, <2>4
<1>2. at.pc = "idle" /\ at' = [pc |-> "callback", button |-> 0]
  BY DEF Idle, At
<1>3. ButtonTypes'
  BY <1>1, <1>2 DEF ButtonInv, ButtonTypes
<1>4. PinsFollowed'
  BY <1>1, <1>2 DEF ButtonInv, PinsFollowed, Fresh
<1>5. \A b \in Buttons \ muddled' : Noted(b)'
  BY <1>1, <1>2 DEF ButtonInv, Noted, Due
<1> QED
  BY <1>2, <1>3, <1>4, <1>5 DEF ButtonInv

\* The timeout begins.
LEMMA ButtonTimeoutInv ==
  ASSUME ButtonInv, fd_ux_button_timeout
  PROVE  ButtonInv'
<1> USE DEF fd_ux_button_timeout, At
<1>1. ButtonTypes'
  <2>1. timer \in [active : BOOLEAN, triggered : BOOLEAN, countdown : Nat]
    BY DEF ButtonInv, ButtonTypes
  <2>2. timer' \in [active : BOOLEAN, triggered : BOOLEAN, countdown : Nat]
    BY <2>1
  <2>3. at' \in [pc : {"idle", "callback", "check", "send", "tick"}, button : Nat] /\ at'.pc # "idle"
    OBVIOUS
  <2> QED
    BY <2>2, <2>3 DEF ButtonInv, ButtonTypes
<1>2. PinsFollowed'
  BY DEF ButtonInv, ButtonTypes, PinsFollowed, Fresh
<1>3. \A b \in Buttons \ muddled' : Noted(b)'
  BY DEF ButtonInv, ButtonTypes, Noted, Due
<1> QED
  BY <1>1, <1>2, <1>3 DEF ButtonInv

\* It looks at one button after the other.
LEMMA TimeoutCheckInv ==
  ASSUME ButtonInv, TimeoutCheck
  PROVE  ButtonInv'
<1> USE DEF TimeoutCheck
<1>1. /\ states' = Checked(read) /\ buttons' = read /\ pressed' = read \ buttons
      /\ at' = [pc |-> "send", button |-> 1] /\ started
      /\ UNCHANGED <<level, edge, timer, started, told, muddled>>
  BY DEF At, ButtonInv
<1>2. /\ states' \in [Buttons -> [press : BOOLEAN, release : BOOLEAN, sent : BOOLEAN]]
      /\ \A b \in Buttons :
            /\ states'[b].sent = states[b].sent
            /\ states'[b].press = IF b \in read \ buttons THEN started ELSE states[b].press
            /\ states'[b].release = IF b \in buttons \ read THEN started ELSE states[b].release
  <2>1. ButtonTypes /\ states' = Checked(read)
    BY <1>1 DEF ButtonInv
  <2> QED
    BY ONLY <2>1, CheckedFacts
<1>3. ButtonTypes'
  BY <1>1, <1>2 DEF ButtonInv, ButtonTypes
<1>4. PinsFollowed'
  BY <1>1 DEF ButtonInv, PinsFollowed, Fresh
<1>5. \A b \in Buttons : (told'[b] = "pressed") <=> states'[b].sent
  BY <1>1, <1>2 DEF ButtonInv
<1>6. ASSUME NEW b \in Buttons \ muddled' PROVE Noted(b)'
  <2>1. Noted(b)
    BY <1>1, <1>6 DEF ButtonInv
  <2>2. Due(b)'
    BY <1>1 DEF Due, Buttons
  <2> QED
    BY <1>1, <1>2, <2>1, <2>2 DEF Noted
<1> QED
  BY <1>1, <1>3, <1>4, <1>5, <1>6 DEF ButtonInv

\* What one button of the loop sends and leaves noted.
LEMMA EventsFacts ==
  ASSUME NEW s \in [press : BOOLEAN, release : BOOLEAN, sent : BOOLEAN], NEW again \in BOOLEAN
  PROVE  /\ AfterEvents(s, again) =
              IF s.press /\ s.sent /\ again THEN s
              ELSE [press |-> s.press /\ ~s.release, release |-> FALSE,
                    sent |-> (s.press \/ s.sent) /\ ~s.release]
         /\ (Events(s, again) = <<>>) <=>
              \/ s.press /\ s.sent /\ again
              \/ ~s.release /\ (s.press => s.sent)
         /\ Events(s, again) # <<>> =>
              Events(s, again)[Len(Events(s, again))] = IF s.release THEN "released" ELSE "pressed"
<1>1. AfterEvents(s, again) =
        IF s.press /\ s.sent /\ again THEN s
        ELSE [press |-> s.press /\ ~s.release, release |-> FALSE,
              sent |-> (s.press \/ s.sent) /\ ~s.release]
  <2>1. CASE s.press /\ s.sent /\ again
    BY <2>1 DEF AfterEvents
  <2>2. CASE ~(s.press /\ s.sent /\ again) /\ s.release
    BY <2>2 DEF AfterEvents, InitialState
  <2>3. CASE ~(s.press /\ s.sent /\ again) /\ ~s.release
    <3>1. AfterEvents(s, again) = [s EXCEPT !.sent = s.press \/ @]
      BY <2>3 DEF AfterEvents
    <3>2. s = [press |-> s.press, release |-> FALSE, sent |-> s.sent]
      BY <2>3
    <3> QED
      BY <2>3, <3>1, <3>2
  <2> QED
    BY <2>1, <2>2, <2>3
<1>2. CASE s.press /\ s.sent /\ again
  BY <1>1, <1>2 DEF Events
<1>3. CASE ~(s.press /\ s.sent /\ again)
  <2>1. CASE s.press /\ ~s.sent /\ s.release
    BY <1>1, <1>3, <2>1 DEF Events
  <2>2. CASE ~(s.press /\ ~s.sent) /\ s.release
    BY <1>1, <1>3, <2>2 DEF Events
  <2>3. CASE s.press /\ ~s.sent /\ ~s.release
    BY <1>1, <1>3, <2>3 DEF Events
  <2>4. CASE ~(s.press /\ ~s.sent) /\ ~s.release
    BY <1>1, <1>3, <2>4 DEF Events
  <2> QED
    BY <2>1, <2>2, <2>3, <2>4
<1> QED
  BY <1>2, <1>3

\* It sends the event of a button whose pin changed.
LEMMA TimeoutSendInv ==
  ASSUME ButtonInv, TimeoutSend
  PROVE  ButtonInv'
<1>1. PICK b \in Buttons : b = at.button
  BY DEF TimeoutSend
<1>2. PICK s \in [press : BOOLEAN, release : BOOLEAN, sent : BOOLEAN] : s = states[b]
  BY DEF ButtonInv, ButtonTypes
<1>3. PICK again \in BOOLEAN : again <=> b \in pressed
  OBVIOUS
<1>4. PICK events : events = Events(s, again)
  OBVIOUS
<1>5. /\ at.pc = "send"
      /\ states' = [states EXCEPT ![b] = AfterEvents(s, again)]
      /\ told' = IF events = <<>> THEN told ELSE [told EXCEPT ![b] = events[Len(events)]]
      /\ muddled' = IF ~ s.release THEN muddled
                    ELSE IF b \in buttons THEN muddled \cup {b} ELSE muddled \ {b}
      /\ at' = IF b = ButtonCount THEN At("tick", 0) ELSE At("send", b + 1)
      /\ UNCHANGED <<level, edge, buttons, timer, started, read, pressed>>
  BY <1>1, <1>2, <1>3, <1>4 DEF TimeoutSend
<1>6. PICK after \in [press : BOOLEAN, release : BOOLEAN, sent : BOOLEAN] :
        /\ after = AfterEvents(s, again)
        /\ after = IF s.press /\ s.sent /\ again THEN s
                   ELSE [press |-> s.press /\ ~s.release, release |-> FALSE,
                         sent |-> (s.press \/ s.sent) /\ ~s.release]
  BY EventsFacts
<1>7. PICK last \in Actions :
        /\ told' = [told EXCEPT ![b] = last]
        /\ last = IF (s.press /\ s.sent /\ again) \/ (~s.release /\ (s.press => s.sent)) THEN told[b]
                  ELSE IF s.release THEN "released" ELSE "pressed"
  <2>1. told \in [Buttons -> Actions]
    BY DEF ButtonInv, ButtonTypes
  <2>2. CASE events = <<>>
    <3>1. told' = told /\ told = [told EXCEPT ![b] = told[b]] /\ told[b] \in Actions
      BY <1>5, <2>1, <2>2
    <3>2. (s.press /\ s.sent /\ again) \/ (~s.release /\ (s.press => s.sent))
      BY <1>4, <2>2, EventsFacts
    <3> QED
      BY <3>1, <3>2
  <2>3. CASE events # <<>>
    BY <1>4, <1>5, <2>1, <2>3, EventsFacts DEF Actions
  <2> QED
    BY <2>2, <2>3
<1>8. (told[b] = "pressed") <=> s.sent
  BY <1>2 DEF ButtonInv
<1>9. (last = "pressed") <=> after.sent
  BY <1>6, <1>7, <1>8 DEF Actions
<1>10. /\ states \in [Buttons -> [press : BOOLEAN, release : BOOLEAN, sent : BOOLEAN]]
       /\ told \in [Buttons -> Actions] /\ b \in Nat /\ ButtonCount \in Nat
  BY UxAssumption DEF ButtonInv, ButtonTypes, Buttons
<1>11. /\ states' \in [Buttons -> [press : BOOLEAN, release : BOOLEAN, sent : BOOLEAN]]
       /\ states'[b] = after /\ told'[b] = last
       /\ \A c \in Buttons \ {b} : states'[c] = states[c] /\ told'[c] = told[c]
       /\ told' \in [Buttons -> Actions]
  BY <1>5, <1>6, <1>7, <1>10
<1>12. /\ at' \in [pc : {"idle", "callback", "check", "send", "tick"}, button : Nat]
       /\ at'.pc \in {"send", "tick"} /\ (at'.pc = "send" => at'.button = b + 1)
       /\ (at'.pc = "tick" => b = ButtonCount)
  BY <1>5, <1>10 DEF At
<1>13. ButtonTypes'
  BY <1>5, <1>11, <1>12 DEF ButtonInv, ButtonTypes
<1>14. PinsFollowed'
  BY <1>5, <1>12 DEF ButtonInv, PinsFollowed, Fresh
<1>15. \A c \in Buttons : (told'[c] = "pressed") <=> states'[c].sent
  BY <1>9, <1>11 DEF ButtonInv
<1>16. ASSUME NEW c \in Buttons \ muddled', c # b PROVE Noted(c)'
  <2>1. Noted(c)
    BY <1>5, <1>16 DEF ButtonInv
  <2>2. Due(c) => Due(c)'
    BY <1>1, <1>5, <1>10, <1>12, <1>16 DEF Due, Buttons
  <2> QED
    BY <1>5, <1>11, <1>16, <2>1, <2>2 DEF Noted
<1>17. ASSUME b \notin muddled' PROVE Noted(b)'
  <2>1. CASE b \in buttons
    <3>1. ~s.release /\ Noted(b)
      BY <1>5, <1>17, <2>1 DEF ButtonInv
    <3>2. s.press /\ after.press /\ after.sent
      BY <1>2, <1>6, <2>1, <3>1 DEF Noted
    <3> QED
      BY <1>5, <1>11, <2>1, <3>2 DEF Noted
  <2>2. CASE b \notin buttons
    <3>1. CASE s.release /\ s.press /\ s.sent /\ again
      <4>1. timer.active
        BY <1>3, <1>5, <2>2, <3>1 DEF ButtonInv
      <4> QED
        BY <1>5, <1>6, <1>11, <2>2, <3>1, <4>1 DEF Noted, Due
    <3>2. CASE s.release /\ ~(s.press /\ s.sent /\ again)
      BY <1>5, <1>6, <1>11, <2>2, <3>2 DEF Noted
    <3>3. CASE ~s.release
      <4>1. ~s.press /\ ~s.sent
        BY <1>2, <1>5, <1>17, <2>2, <3>3 DEF ButtonInv, Noted
      <4> QED
        BY <1>5, <1>6, <1>11, <2>2, <3>3, <4>1 DEF Noted
    <3> QED
      BY <3>1, <3>2, <3>3
  <2> QED
    BY <2>1, <2>2
<1>18. started' /\ (at'.pc = "send" => timer'.active \/ pressed' \subseteq buttons')
  BY <1>5 DEF ButtonInv
<1> QED
  BY <1>13, <1>14, <1>15, <1>16, <1>17, <1>18 DEF ButtonInv

\* The tick of the user interface touches no button.
LEMMA UxTickInv ==
  ASSUME ButtonInv, fd_ux_tick
  PROVE  ButtonInv'
BY DEF ButtonInv, ButtonTypes, PinsFollowed, Fresh, Noted, Due, fd_ux_tick, Idle

\* After a restart nothing is known of the buttons but that it began so.
LEMMA RestartInv ==
  ASSUME ButtonInv, Restart
  PROVE  ButtonInv'
BY DEF ButtonInv, ButtonTypes, PinsFollowed, Fresh, Noted, Due, Restart, Idle, InitialState, Stopped, Actions

\* Every step keeps what is noted of the buttons.
LEMMA ButtonStepInv ==
  ASSUME ButtonInv, [Next]_uxVars
  PROVE  ButtonInv'
<1>0. edge \in BOOLEAN
  BY DEF ButtonInv, ButtonTypes
<1>1. ASSUME NEW b \in Buttons, ButtonMoves(b) PROVE ButtonInv'
  BY <1>1, KeptBookkeeping DEF ButtonMoves
<1>2. CASE Calls
  <2>1. UNCHANGED <<level, edge, buttons, states, timer, started, at, read, pressed, told, muddled, held>>
    BY <1>2 DEF Calls, Call, set_screen_request, fd_ux_set_screen_preview, send_input_events_request,
                set_update_enabled_request, fd_ux_set_state, fd_ux_set_idle_ticks,
                set_display_configuration_request
  <2> QED
    BY <1>0, <2>1, KeptBookkeeping
<1>3. CASE UNCHANGED uxVars
  BY <1>0, <1>3, KeptBookkeeping DEF uxVars
<1> QED
  BY <1>1, <1>2, <1>3, ButtonChangeInv, TimerUpdateInv, ButtonTimeoutInv, TimeoutCheckInv,
     TimeoutSendInv, UxTickInv, RestartInv DEF Next, Inputs, Work

\* However the pin interrupt comes between the steps of the debounce timeout, and across
\* restarts: when the pins are quiet and debounced the last event sent for every button says
\* whether it is held down.
THEOREM ButtonsSafe == Spec => []ButtonsSettle
<1>1. Init => ButtonInv
  <2> SUFFICES ASSUME Init PROVE ButtonInv
    OBVIOUS
  <2>1. ButtonTypes
    BY DEF Init, ButtonTypes, Idle, InitialState, Stopped, Actions
  <2>2. \A b \in Buttons : ~states[b].press /\ ~states[b].release /\ ~states[b].sent /\ told[b] = "released"
    BY DEF Init, InitialState
  <2> QED
    BY <2>1, <2>2 DEF Init, Idle, ButtonInv, PinsFollowed, Fresh, Noted
<1>2. ButtonInv => ButtonsSettle
  <2> SUFFICES ASSUME ButtonInv, Settled, NEW b \in Buttons \ (muddled \cup held)
               PROVE  (told[b] = "pressed") <=> (b \in level)
    BY DEF ButtonsSettle
  <2>1. at.pc = "idle" /\ ~Due(b) /\ (Fresh \/ level = buttons)
    BY DEF Settled, Idle, Due, ButtonInv, PinsFollowed
  <2> QED
    BY <2>1 DEF ButtonInv, Fresh, Noted
<1> QED
  BY <1>1, <1>2, ButtonStepInv, PTL DEF Spec

-----------------------------------------------------------------------------
(* Animations. *)

Playable == Animations \cup {A!none}
Places == {"out", "busy", "free", "next", "reset", "start", "timer", "activate", "run",
           "cancel", "cancelled"}
Stages == {"idle", "tick", "ended", "finalize", "next", "take", "put", "fault", "check", "stop", "clear"}

AnimationTypes ==
    /\ sequence \in [A!Players -> Playable] /\ next \in [A!Players -> Playable]
    /\ step \in [A!Players -> Nat] /\ open \in [A!Players -> SUBSET (Playable \X Nat)]
    /\ upset \in [A!Players -> SUBSET {"missed", "replaced", "overtaken", "cut"}]
    /\ active \in BOOLEAN /\ running \in BOOLEAN /\ raced \in BOOLEAN
    /\ ticking \in [pc : Stages, player : Nat, local : Playable]
    /\ ticking.pc = "put" => ticking.local # A!none
    /\ ticking.pc = "fault" => ticking.player \in A!Players
    /\ call \in [A!Threads -> [at : Places, player : Nat, local : Playable]]
    /\ \A t \in A!Threads : call[t].at \in {"busy", "next", "free", "reset", "start"} =>
                                call[t].player \in A!Players /\ call[t].local # A!none

\* The timer runs, is being started or is being stopped; while it is being stopped only
\* a start that has still to see to the timer, or has missed it, has made a player play.
Plays == \E p \in A!Players : sequence[p] # A!none
Ending == ticking.pc \in {"ended", "finalize", "next", "take", "put"}
SeenTo == \E t \in A!Threads : A!SeesToTimer(t)

TimerInv ==
    /\ active => running \/ ticking.pc = "clear" \/ \E t \in A!Threads : call[t].at = "run"
    /\ ~raced /\ (Plays \/ Ending) => running \/ SeenTo
    /\ ~raced /\ Plays /\ ticking.pc = "stop" => SeenTo

\* The one thread that is starting a player plays what the player plays.
Begins(t, p) == call[t].player = p /\ call[t].at \in {"reset", "start"}

StepsInv(p) ==
    upset[p] \cap {"overtaken", "replaced"} = {} =>
        /\ open[p] = IF sequence[p] = A!none \/ A!Starting(p) THEN {} ELSE {<<sequence[p], step[p]>>}
        /\ \A t \in A!Threads : Begins(t, p) => sequence[p] = call[t].local
        /\ \A t \in A!Threads, u \in A!Threads : Begins(t, p) /\ Begins(u, p) => t = u

\* A next sequence waits for the end of another one, and is there when it is read again.
NextInv(p) ==
    /\ "missed" \notin upset[p] /\ next[p] # A!none => sequence[p] # A!none \/ A!AtEnd(p)
    /\ ticking.player = p /\ "cut" \notin upset[p] =>
         ticking.pc # "fault" /\ (ticking.pc = "take" => next[p] # A!none)

AnimationInv ==
    /\ AnimationTypes /\ TimerInv
    /\ \A p \in A!Players : StepsInv(p) /\ NextInv(p)

-----------------------------------------------------------------------------
(* What the steps of a call and of a tick change. *)

\* A thread takes a step in its call.
Moves(t, place) ==
    /\ call' \in [A!Threads -> [at : Places, player : Nat, local : Playable]]
    /\ call'[t].at = place
    /\ place # "out" => call'[t].player = call[t].player /\ call'[t].local = call[t].local
    /\ \A u \in A!Threads \ {t} : call'[u] = call[u]

LEMMA GoesMoves ==
  ASSUME AnimationTypes, NEW t \in A!Threads, NEW place \in Places, A!Goes(t, place)
  PROVE  Moves(t, place)
<1>1. call[t] \in [at : Places, player : Nat, local : Playable]
  BY DEF AnimationTypes
<1>2. call' = [call EXCEPT ![t].at = place]
  BY DEF A!Goes
<1>3. call'[t] = [at |-> place, player |-> call[t].player, local |-> call[t].local]
  BY <1>1, <1>2 DEF AnimationTypes
<1>4. call'[t] \in [at : Places, player : Nat, local : Playable]
  BY <1>1, <1>3
<1>5. \A u \in A!Threads \ {t} : call'[u] = call[u]
  BY <1>2 DEF AnimationTypes
<1>6. call' \in [A!Threads -> [at : Places, player : Nat, local : Playable]]
  BY <1>1, <1>2, <1>3, <1>4 DEF AnimationTypes
<1> QED
  BY <1>3, <1>5, <1>6 DEF Moves

LEMMA ReturnsMoves ==
  ASSUME AnimationTypes, NEW t \in A!Threads, A!Returns(t)
  PROVE  Moves(t, "out")
<1>1. A!Out \in [at : Places, player : Nat, local : Playable] /\ A!Out.at = "out"
  BY DEF A!Out, Places, Playable
<1>2. call' = [call EXCEPT ![t] = A!Out]
  BY DEF A!Returns
<1> QED
  BY <1>1, <1>2 DEF AnimationTypes, Moves

\* What gets between calls and ticks of a player is remembered.
Remembers(p, reason, happened) ==
    /\ upset' \in [A!Players -> SUBSET {"missed", "replaced", "overtaken", "cut"}]
    /\ \A q \in A!Players : upset[q] \subseteq upset'[q]
    /\ \A q \in A!Players \ {p} : upset'[q] = upset[q]
    /\ happened => reason \in upset'[p]

LEMMA UpsetRemembers ==
  ASSUME AnimationTypes, NEW p \in A!Players, NEW reason \in {"missed", "replaced", "overtaken", "cut"},
         NEW happened, A!Upset(p, reason, happened)
  PROVE  Remembers(p, reason, happened)
<1>1. CASE happened
  <2>1. upset' = [upset EXCEPT ![p] = @ \cup {reason}]
    BY <1>1 DEF A!Upset
  <2> QED
    BY <2>1 DEF AnimationTypes, Remembers
<1>2. CASE ~happened
  <2>1. upset' = upset
    BY <1>2 DEF A!Upset
  <2> QED
    BY <1>2, <2>1 DEF AnimationTypes, Remembers
<1> QED
  BY <1>1, <1>2

\* The timer and what sees to it stay as they are.
LEMMA TimerKept ==
  ASSUME TimerInv, UNCHANGED <<active, running, raced>>,
         Plays' => Plays \/ Ending, Ending' => Plays \/ Ending,
         SeenTo => SeenTo', \A t \in A!Threads : call[t].at = "run" => call'[t].at = "run",
         ticking.pc = "clear" => ticking'.pc = "clear",
         ticking'.pc = "stop" => ticking.pc = "stop" \/ ~Plays'
  PROVE  TimerInv'
<1>1. ticking.pc = "stop" => ~Ending
  BY DEF Ending
<1> QED
  BY <1>1 DEF TimerInv

\* The steps of a player stay as they are.
LEMMA StepsKept ==
  ASSUME NEW p \in A!Players, StepsInv(p), upset[p] \subseteq upset'[p],
         open'[p] = open[p], sequence'[p] = sequence[p], step'[p] = step[p],
         \A t \in A!Threads : /\ Begins(t, p)' <=> Begins(t, p)
                              /\ Begins(t, p) => call'[t].local = call[t].local
  PROVE  StepsInv(p)'
<1>1. A!Starting(p)' <=> A!Starting(p)
  BY DEF A!Starting, Begins
<1>2. CASE upset'[p] \cap {"overtaken", "replaced"} = {}
  <2>1. upset[p] \cap {"overtaken", "replaced"} = {}
    BY <1>2
  <2> QED
    BY <1>1, <2>1 DEF StepsInv
<1> QED
  BY <1>2 DEF StepsInv

LEMMA NextKept ==
  ASSUME NEW p \in A!Players, NextInv(p), upset[p] \subseteq upset'[p],
         next'[p] = next[p], sequence'[p] = sequence[p] \/ sequence'[p] # A!none,
         ticking' = ticking \/ (~A!AtEnd(p) /\ ticking'.pc \notin {"fault", "take"})
  PROVE  NextInv(p)'
BY DEF NextInv, A!AtEnd

\* A thread goes on to a place where it still sees to the timer if it has to.
LEMMA MovesSeen ==
  ASSUME NEW t \in A!Threads, NEW place \in Places, Moves(t, place),
         A!SeesToTimer(t) => place \in {"reset", "start", "timer", "activate", "run"},
         call[t].at # "run"
  PROVE  /\ SeenTo => SeenTo'
         /\ \A u \in A!Threads : call[u].at = "run" => call'[u].at = "run"
BY DEF Moves, SeenTo, A!SeesToTimer

\* A thread that is not starting a player, before and after, begins none.
LEMMA MovesApart ==
  ASSUME NEW t \in A!Threads, NEW place \in Places, Moves(t, place),
         call[t].at \notin {"reset", "start"}, place \notin {"reset", "start"}
  PROVE  \A p \in A!Players, u \in A!Threads :
            /\ Begins(u, p)' <=> Begins(u, p)
            /\ Begins(u, p) => call'[u].local = call[u].local
BY DEF Moves, Begins

\* What a thread has still to do is known.
Arguments == \A t \in A!Threads : call[t].at \in {"busy", "next", "free", "reset", "start"} =>
                 call[t].player \in A!Players /\ call[t].local # A!none

LEMMA MovesArguments ==
  ASSUME AnimationTypes, NEW t \in A!Threads, NEW place \in Places, Moves(t, place),
         place \in {"busy", "next", "free", "reset", "start"} =>
             call[t].at \in {"busy", "next", "free", "reset", "start"}
  PROVE  /\ Arguments'
         /\ call' \in [A!Threads -> [at : Places, player : Nat, local : Playable]]
BY DEF AnimationTypes, Moves, Arguments

\* A player that is playing is told to stop, the new sequence is next.
LEMMA AskToStopInv ==
  ASSUME AnimationInv, NEW t \in A!Threads, A!AskToStop(t) \/ A!CancelStops(t) \/ A!CancelEnds(t)
  PROVE  AnimationInv'
<1>1. PICK place \in Places : /\ Moves(t, place) /\ place \notin {"reset", "start"}
                              /\ call[t].at \notin {"reset", "start", "run"} /\ ~A!SeesToTimer(t)
                              /\ place \in {"busy", "next", "free"} => call[t].at = "busy"
  <2>1. CASE A!AskToStop(t)
    <3>1. Moves(t, "next")
      BY <2>1, GoesMoves DEF AnimationInv, A!AskToStop, Places
    <3> QED
      BY <2>1, <3>1 DEF A!AskToStop, A!At, A!SeesToTimer, Places
  <2>2. CASE A!CancelStops(t)
    <3>1. Moves(t, "cancelled")
      BY <2>2, GoesMoves DEF AnimationInv, A!CancelStops, Places
    <3> QED
      BY <2>2, <3>1 DEF A!CancelStops, A!At, A!SeesToTimer, Places
  <2>3. CASE A!CancelEnds(t)
    <3>1. Moves(t, "out")
      BY <2>3, ReturnsMoves DEF AnimationInv, A!CancelEnds
    <3> QED
      BY <2>3, <3>1 DEF A!CancelEnds, A!At, A!SeesToTimer, Places
  <2> QED
    BY <2>1, <2>2, <2>3
<1>2. UNCHANGED <<sequence, step, next, active, running, ticking, open, raced, upset>>
  BY DEF A!AskToStop, A!CancelStops, A!CancelEnds, A!timerVars, A!ghosts
<1>3. AnimationTypes'
  BY <1>1, <1>2, MovesArguments DEF AnimationInv, AnimationTypes, Arguments
<1>4. TimerInv'
  BY <1>1, <1>2, MovesSeen, TimerKept DEF AnimationInv, Plays, Ending
<1>5. ASSUME NEW p \in A!Players PROVE StepsInv(p)' /\ NextInv(p)'
  BY <1>1, <1>2, MovesApart, StepsKept, NextKept DEF AnimationInv
<1> QED
  BY <1>3, <1>4, <1>5 DEF AnimationInv

LEMMA SetNextInv ==
  ASSUME AnimationInv, NEW t \in A!Threads, A!SetNext(t)
  PROVE  AnimationInv'
<1>1. PICK p \in A!Players : p = call[t].player /\ call[t].local # A!none /\ call[t].local \in Playable
  BY DEF AnimationInv, AnimationTypes, A!SetNext, A!At
<1>2. Moves(t, "timer") /\ "timer" \in Places /\ call[t].at = "next" /\ ~A!SeesToTimer(t)
  BY GoesMoves DEF AnimationInv, A!SetNext, A!At, A!SeesToTimer, Places
<1>3. /\ UNCHANGED <<sequence, step, active, running, ticking, open, raced>>
      /\ next' = [next EXCEPT ![p] = call[t].local]
      /\ Remembers(p, "missed", sequence[p] = A!none /\ ~A!LooksAtNext(p))
  BY <1>1, UpsetRemembers DEF A!SetNext, A!timerVars, AnimationInv
<1>4. AnimationTypes'
  BY <1>1, <1>2, <1>3, MovesArguments DEF AnimationInv, AnimationTypes, Arguments, Remembers
<1>5. TimerInv'
  BY <1>2, <1>3, MovesSeen, TimerKept DEF AnimationInv, Plays, Ending
<1>6. ASSUME NEW q \in A!Players PROVE StepsInv(q)'
  BY <1>2, <1>3, MovesApart, StepsKept DEF AnimationInv, Remembers
<1>7. ASSUME NEW q \in A!Players PROVE NextInv(q)'
  <2>1. CASE q # p
    BY <1>3, <2>1, NextKept DEF AnimationInv, AnimationTypes, Remembers
  <2>2. CASE q = p
    <3>1. next'[p] # A!none /\ upset[p] \subseteq upset'[p]
      BY <1>1, <1>3 DEF AnimationInv, AnimationTypes, Remembers
    <3>2. sequence[p] = A!none /\ "missed" \notin upset'[p] => A!AtEnd(p)
      BY <1>3 DEF A!LooksAtNext, A!AtEnd, Remembers
    <3> QED
      BY <1>3, <2>2, <3>1, <3>2 DEF AnimationInv, NextInv, A!AtEnd
  <2> QED
    BY <2>1, <2>2
<1> QED
  BY <1>4, <1>5, <1>6, <1>7 DEF AnimationInv

\* A player that was free plays a new sequence, and its first step is going to be started.
LEMMA SetSequenceInv ==
  ASSUME AnimationInv, NEW t \in A!Threads, A!SetSequence(t)
  PROVE  AnimationInv'
<1>1. PICK p \in A!Players : p = call[t].player /\ call[t].local # A!none /\ call[t].local \in Playable
  BY DEF AnimationInv, AnimationTypes, A!SetSequence, A!At
<1>2. Moves(t, "reset") /\ "reset" \in Places /\ call[t].at = "free" /\ ~A!SeesToTimer(t)
  BY GoesMoves DEF AnimationInv, A!SetSequence, A!At, A!SeesToTimer, Places
<1>3. /\ UNCHANGED <<step, next, active, running, ticking, open, raced>>
      /\ sequence' = [sequence EXCEPT ![p] = call[t].local]
      /\ Remembers(p, "replaced", sequence[p] # A!none)
  BY <1>1, UpsetRemembers DEF A!SetSequence, A!timerVars, AnimationInv
<1>4. AnimationTypes'
  BY <1>1, <1>2, <1>3, MovesArguments DEF AnimationInv, AnimationTypes, Arguments, Remembers
<1>5. TimerInv'
  <2>1. SeenTo' /\ \A u \in A!Threads : call[u].at = "run" => call'[u].at = "run"
    BY <1>2 DEF SeenTo, A!SeesToTimer, Moves
  <2> QED
    BY <1>3, <2>1 DEF AnimationInv, TimerInv
<1>6. ASSUME NEW q \in A!Players PROVE StepsInv(q)'
  <2>1. CASE q # p
    <3>1. \A u \in A!Threads : /\ Begins(u, q)' <=> Begins(u, q)
                               /\ Begins(u, q) => call'[u].local = call[u].local
      BY <1>1, <1>2, <2>1 DEF Begins, Moves
    <3> QED
      BY <1>3, <2>1, <3>1, StepsKept DEF AnimationInv, AnimationTypes, Remembers
  <2>2. CASE q = p /\ upset'[p] \cap {"overtaken", "replaced"} = {}
    <3>1. sequence[p] = A!none /\ upset[p] \cap {"overtaken", "replaced"} = {}
      BY <1>3, <2>2 DEF Remembers
    <3>2. open[p] = {} /\ \A u \in A!Threads : ~Begins(u, p)
      BY <3>1 DEF AnimationInv, StepsInv, AnimationTypes, Begins
    <3>3. \A u \in A!Threads : Begins(u, p)' <=> u = t
      BY <1>1, <1>2, <3>2 DEF Begins, Moves
    <3>4. sequence'[p] = call[t].local /\ call'[t].local = call[t].local
      BY <1>2, <1>3 DEF AnimationInv, AnimationTypes, Moves
    <3>5. A!Starting(p)'
      BY <3>3 DEF A!Starting, Begins
    <3> QED
      BY <1>3, <2>2, <3>2, <3>3, <3>4, <3>5 DEF StepsInv
  <2> QED
    BY <2>1, <2>2 DEF StepsInv
<1>7. ASSUME NEW q \in A!Players PROVE NextInv(q)'
  BY <1>1, <1>3, NextKept DEF AnimationInv, AnimationTypes, Remembers
<1> QED
  BY <1>4, <1>5, <1>6, <1>7 DEF AnimationInv

LEMMA ResetInv ==
  ASSUME AnimationInv, NEW t \in A!Threads, A!Reset(t)
  PROVE  AnimationInv'
<1>1. PICK p \in A!Players : p = call[t].player
  BY DEF AnimationInv, AnimationTypes, A!Reset, A!At
<1>2. Moves(t, "start") /\ "start" \in Places /\ call[t].at = "reset"
  BY GoesMoves DEF AnimationInv, A!Reset, A!At, Places
<1>3. /\ UNCHANGED <<sequence, next, active, running, ticking, open, raced, upset>>
      /\ step' = [step EXCEPT ![p] = 0]
  BY <1>1 DEF A!Reset, A!timerVars, A!ghosts
<1>4. AnimationTypes'
  BY <1>2, <1>3, MovesArguments DEF AnimationInv, AnimationTypes, Arguments
<1>5. TimerInv'
  BY <1>2, <1>3, MovesSeen, TimerKept DEF AnimationInv, Plays, Ending
<1>6. \A q \in A!Players, u \in A!Threads : /\ Begins(u, q)' <=> Begins(u, q)
                                            /\ Begins(u, q) => call'[u].local = call[u].local
  BY <1>2 DEF Begins, Moves
<1>7. ASSUME NEW q \in A!Players PROVE StepsInv(q)'
  <2>1. CASE q # p
    BY <1>3, <1>6, <2>1, StepsKept DEF AnimationInv, AnimationTypes
  <2>2. CASE q = p
    <3>1. A!Starting(p) /\ A!Starting(p)'
      BY <1>1, <1>2, <1>6 DEF A!Starting, Begins
    <3> QED
      BY <1>3, <1>6, <2>2, <3>1 DEF AnimationInv, StepsInv
  <2> QED
    BY <2>1, <2>2
<1>8. ASSUME NEW q \in A!Players PROVE NextInv(q)'
  BY <1>3, NextKept DEF AnimationInv
<1> QED
  BY <1>4, <1>5, <1>7, <1>8 DEF AnimationInv

LEMMA StartStepInv ==
  ASSUME AnimationInv, NEW t \in A!Threads, A!StartStep(t)
  PROVE  AnimationInv'
<1>1. PICK p \in A!Players : p = call[t].player /\ call[t].local # A!none /\ call[t].local \in Playable
  BY DEF AnimationInv, AnimationTypes, A!StartStep, A!At
<1>2. Moves(t, "timer") /\ "timer" \in Places /\ call[t].at = "start"
  BY GoesMoves DEF AnimationInv, A!StartStep, A!At, Places
<1>3. /\ UNCHANGED <<sequence, step, next, active, running, ticking, raced, upset>>
      /\ open' = [open EXCEPT ![p] = @ \cup {<<call[t].local, step[p]>>}]
  BY <1>1 DEF A!StartStep, A!timerVars, A!fields
<1>4. AnimationTypes'
  <2>1. <<call[t].local, step[p]>> \in Playable \X Nat
    BY <1>1 DEF AnimationInv, AnimationTypes
  <2>2. open' \in [A!Players -> SUBSET (Playable \X Nat)]
    BY <1>3, <2>1 DEF AnimationInv, AnimationTypes
  <2> QED
    BY <1>2, <1>3, <2>2, MovesArguments DEF AnimationInv, AnimationTypes, Arguments
<1>5. TimerInv'
  BY <1>2, <1>3, MovesSeen, TimerKept DEF AnimationInv, Plays, Ending
<1>6. ASSUME NEW q \in A!Players PROVE StepsInv(q)'
  <2>1. CASE q # p
    <3>1. \A u \in A!Threads : /\ Begins(u, q)' <=> Begins(u, q)
                               /\ Begins(u, q) => call'[u].local = call[u].local
      BY <1>1, <1>2, <2>1 DEF Begins, Moves
    <3> QED
      BY <1>3, <2>1, <3>1, StepsKept DEF AnimationInv, AnimationTypes
  <2>2. CASE q = p /\ upset[p] \cap {"overtaken", "replaced"} = {}
    <3>1. Begins(t, p) /\ A!Starting(p)
      BY <1>1, <1>2 DEF Begins, A!Starting
    <3>2. /\ open[p] = {} /\ sequence[p] = call[t].local
          /\ \A u \in A!Threads : Begins(u, p) => u = t
      BY <2>2, <3>1 DEF AnimationInv, StepsInv
    <3>3. \A u \in A!Threads : ~Begins(u, p)'
      BY <1>2, <3>2 DEF Begins, Moves
    <3>4. ~A!Starting(p)'
      BY <3>3 DEF Begins, A!Starting
    <3>5. open'[p] = {<<sequence[p], step[p]>>}
      BY <1>3, <3>2 DEF AnimationInv, AnimationTypes
    <3> QED
      BY <1>1, <1>3, <2>2, <3>2, <3>3, <3>4, <3>5 DEF StepsInv
  <2> QED
    BY <1>3, <2>1, <2>2 DEF StepsInv
<1>7. ASSUME NEW q \in A!Players PROVE NextInv(q)'
  BY <1>3, NextKept DEF AnimationInv
<1> QED
  BY <1>4, <1>5, <1>6, <1>7 DEF AnimationInv

\* A start looks at the timer, and starts it unless it runs.
LEMMA SeesActiveInv ==
  ASSUME AnimationInv, NEW t \in A!Threads, A!SeesActive(t)
  PROVE  AnimationInv'
<1>1. Moves(t, "out") /\ "out" \in Places /\ call[t].at = "timer" /\ active
  BY ReturnsMoves DEF AnimationInv, A!SeesActive, A!At, Places
<1>2. /\ UNCHANGED <<sequence, step, next, active, running, ticking, open, upset>>
      /\ raced' = (raced \/ ticking.pc \in {"stop", "clear"})
  BY DEF A!SeesActive, A!timerVars, A!fields
<1>3. AnimationTypes'
  BY <1>1, <1>2, MovesArguments DEF AnimationInv, AnimationTypes, Arguments
<1>4. TimerInv'
  <2>1. \A u \in A!Threads : call[u].at = "run" => call'[u].at = "run"
    BY <1>1 DEF Moves
  <2>2. \A u \in A!Threads : call'[u].at = "run" => A!SeesToTimer(u)'
    BY DEF A!SeesToTimer
  <2>3. ~raced' => running \/ SeenTo'
    BY <1>1, <1>2, <2>1, <2>2 DEF AnimationInv, TimerInv, SeenTo
  <2>4. ~raced' => ticking.pc # "stop"
    BY <1>2
  <2> QED
    BY <1>1, <1>2, <2>1, <2>3, <2>4 DEF AnimationInv, TimerInv
<1>5. ASSUME NEW q \in A!Players PROVE StepsInv(q)' /\ NextInv(q)'
  BY <1>1, <1>2, MovesApart, StepsKept, NextKept DEF AnimationInv
<1> QED
  BY <1>3, <1>4, <1>5 DEF AnimationInv

LEMMA StartTimerInv ==
  ASSUME AnimationInv, NEW t \in A!Threads,
         A!SeesInactive(t) \/ A!SetActive(t) \/ A!StartTimer(t)
  PROVE  AnimationInv'
<1>1. PICK place \in Places : /\ Moves(t, place) /\ place \in {"activate", "run", "out"}
                              /\ call[t].at \notin {"reset", "start"}
                              /\ A!SetActive(t) => place = "run" /\ call[t].at # "run"
                              /\ A!SeesInactive(t) => place = "activate" /\ call[t].at # "run"
  <2>1. CASE A!SeesInactive(t)
    <3>1. Moves(t, "activate")
      BY <2>1, GoesMoves DEF AnimationInv, A!SeesInactive, Places
    <3> QED
      BY <2>1, <3>1 DEF A!SeesInactive, A!SetActive, A!At, Places
  <2>2. CASE A!SetActive(t)
    <3>1. Moves(t, "run")
      BY <2>2, GoesMoves DEF AnimationInv, A!SetActive, Places
    <3> QED
      BY <2>2, <3>1 DEF A!SetActive, A!SeesInactive, A!At, Places
  <2>3. CASE A!StartTimer(t)
    <3>1. Moves(t, "out")
      BY <2>3, ReturnsMoves DEF AnimationInv, A!StartTimer
    <3> QED
      BY <2>3, <3>1 DEF A!StartTimer, A!SetActive, A!SeesInactive, A!At, Places
  <2> QED
    BY <2>1, <2>2, <2>3
<1>2. UNCHANGED <<sequence, step, next, ticking, open, upset>>
  BY DEF A!SeesInactive, A!SetActive, A!StartTimer, A!ghosts, A!fields
<1>3. AnimationTypes'
  <2>1. active' \in BOOLEAN /\ running' \in BOOLEAN /\ raced' \in BOOLEAN
    BY DEF A!SeesInactive, A!SetActive, A!StartTimer, A!ghosts, A!timerVars, AnimationInv, AnimationTypes
  <2> QED
    BY <1>1, <1>2, <2>1, MovesArguments DEF AnimationInv, AnimationTypes, Arguments
<1>4. TimerInv'
  <2>1. CASE A!SeesInactive(t)
    <3>1. UNCHANGED <<active, running, raced>>
      BY <2>1 DEF A!SeesInactive, A!ghosts, A!timerVars
    <3> QED
      BY <1>1, <1>2, <2>1, <3>1, MovesSeen, TimerKept DEF AnimationInv, Plays, Ending
  <2>2. CASE A!SetActive(t)
    <3>1. UNCHANGED <<running, raced>>
      BY <2>2 DEF A!SetActive, A!ghosts
    <3>2. SeenTo' /\ call'[t].at = "run"
      BY <1>1, <2>2 DEF Moves, SeenTo, A!SeesToTimer
    <3> QED
      BY <1>2, <3>1, <3>2 DEF TimerInv
  <2>3. CASE A!StartTimer(t)
    <3>1. running' = TRUE /\ raced' = (ticking.pc = "stop")
      BY <2>3 DEF A!StartTimer
    <3> QED
      BY <1>2, <3>1 DEF TimerInv
  <2> QED
    BY <2>1, <2>2, <2>3
<1>5. ASSUME NEW q \in A!Players PROVE StepsInv(q)' /\ NextInv(q)'
  BY <1>1, <1>2, MovesApart, StepsKept, NextKept DEF AnimationInv
<1> QED
  BY <1>3, <1>4, <1>5 DEF AnimationInv

\* A thread enters a call: it moves from outside to the first place of it.
Enters(t, place, p) ==
    /\ call' \in [A!Threads -> [at : Places, player : Nat, local : Playable]]
    /\ call[t].at = "out" /\ call'[t].at = place /\ call'[t].player = p
    /\ \A u \in A!Threads \ {t} : call'[u] = call[u]

LEMMA EntersApart ==
  ASSUME NEW t \in A!Threads, NEW place \in {"busy", "free", "cancel"}, NEW p, Enters(t, place, p)
  PROVE  /\ SeenTo => SeenTo'
         /\ \A u \in A!Threads : call[u].at = "run" => call'[u].at = "run"
         /\ \A q \in A!Players, u \in A!Threads : /\ Begins(u, q)' <=> Begins(u, q)
                                                  /\ Begins(u, q) => call'[u].local = call[u].local
BY DEF Enters, Begins, SeenTo, A!SeesToTimer

LEMMA StartEnters ==
  ASSUME A!AnimationAssumption, AnimationTypes, NEW t \in A!Threads, NEW p \in A!Players,
         NEW s \in Animations, A!fd_animation_start(t, p, s)
  PROVE  /\ \E place \in {"busy", "free"} : Enters(t, place, p)
         /\ Arguments'
         /\ UNCHANGED <<sequence, step, next, active, running, open, raced, upset>>
<1>1. PICK place \in {"busy", "free"} : place = IF sequence[p] # A!none THEN "busy" ELSE "free"
  OBVIOUS
<1>2. /\ call' = [call EXCEPT ![t] = [at |-> place, player |-> p, local |-> s]]
      /\ call[t].at = "out" /\ s # A!none
  BY <1>1 DEF A!fd_animation_start, A!Calling, A!At, A!AnimationAssumption, A!none
<1>3. [at |-> place, player |-> p, local |-> s] \in [at : Places, player : Nat, local : Playable]
  BY DEF Places, Playable, A!Players
<1>4. Enters(t, place, p) /\ call'[t].local = s
  BY <1>2, <1>3 DEF AnimationTypes, Enters
<1>5. Arguments'
  BY <1>2, <1>4 DEF AnimationTypes, Arguments, Enters
<1> QED
  BY <1>4, <1>5 DEF A!fd_animation_start, A!fields, A!timerVars, A!ghosts

LEMMA StartInv ==
  ASSUME A!AnimationAssumption, AnimationInv, NEW t \in A!Threads, NEW p \in A!Players,
         NEW s \in Animations, A!fd_animation_start(t, p, s),
         ticking' = ticking \/ (A!Is("finalize", p) /\ A!Reaches("next", p))
  PROVE  AnimationInv'
<1>1. /\ Arguments'
      /\ UNCHANGED <<sequence, step, next, active, running, open, raced, upset>>
  BY StartEnters DEF AnimationInv
<1>2. PICK place \in {"busy", "free"} : Enters(t, place, p)
  BY StartEnters DEF AnimationInv
<1>3. ticking' = ticking \/ (/\ ticking.pc = "finalize" /\ ticking.player = p
                             /\ ticking' = [pc |-> "next", player |-> p, local |-> A!none])
  BY DEF A!Is, A!Reaches, A!Work
<1>4. AnimationTypes'
  BY <1>1, <1>2, <1>3 DEF AnimationInv, AnimationTypes, Arguments, Enters, Stages, Playable, A!Players
<1>5. TimerInv'
  BY <1>1, <1>2, <1>3, EntersApart, TimerKept DEF AnimationInv, Plays, Ending
<1>6. ASSUME NEW q \in A!Players PROVE StepsInv(q)'
  BY <1>1, <1>2, EntersApart, StepsKept DEF AnimationInv
<1>7. ASSUME NEW q \in A!Players PROVE NextInv(q)'
  BY <1>1, <1>3 DEF AnimationInv, NextInv, A!AtEnd
<1> QED
  BY <1>4, <1>5, <1>6, <1>7 DEF AnimationInv

LEMMA CancelInv ==
  ASSUME AnimationInv, NEW t \in A!Threads, NEW p \in A!Players, A!fd_animation_cancel(t, p)
  PROVE  AnimationInv'
<1>1. [at |-> "cancel", player |-> p, local |-> A!none] \in [at : Places, player : Nat, local : Playable]
  BY DEF Places, Playable, A!Players
<1>2. Enters(t, "cancel", p)
  BY <1>1 DEF A!fd_animation_cancel, A!Calling, A!At, AnimationInv, AnimationTypes, Enters
<1>3. /\ UNCHANGED <<sequence, step, active, running, ticking, open, raced>>
      /\ next' = [next EXCEPT ![p] = A!none]
      /\ Remembers(p, "cut", ticking.player = p /\ ticking.pc = "take")
  <2>1. A!Upset(p, "cut", ticking.player = p /\ ticking.pc = "take")
    BY DEF A!fd_animation_cancel
  <2>2. Remembers(p, "cut", ticking.player = p /\ ticking.pc = "take")
    BY <2>1, UpsetRemembers DEF AnimationInv
  <2> QED
    BY <2>2 DEF A!fd_animation_cancel, A!timerVars
<1>4. AnimationTypes'
  <2>1. next' \in [A!Players -> Playable]
    BY <1>3 DEF AnimationInv, AnimationTypes, Playable
  <2>2. Arguments'
    BY <1>2 DEF AnimationInv, AnimationTypes, Enters, Arguments
  <2> QED
    BY <1>2, <1>3, <2>1, <2>2 DEF AnimationInv, AnimationTypes, Enters, Remembers, Arguments
<1>5. TimerInv'
  BY <1>2, <1>3, EntersApart, TimerKept DEF AnimationInv, Plays, Ending
<1>6. ASSUME NEW q \in A!Players PROVE StepsInv(q)'
  BY <1>2, <1>3, EntersApart, StepsKept DEF AnimationInv, Remembers
<1>7. ASSUME NEW q \in A!Players PROVE NextInv(q)'
  <2>1. CASE q # p
    BY <1>3, <2>1, NextKept DEF AnimationInv, AnimationTypes, Remembers
  <2>2. CASE q = p
    <3>1. next'[p] = A!none /\ upset[p] \subseteq upset'[p]
      BY <1>3 DEF AnimationInv, AnimationTypes, Remembers
    <3>2. ticking.player = p /\ "cut" \notin upset'[p] => ticking.pc \notin {"take", "fault"}
      BY <1>3, <3>1 DEF AnimationInv, NextInv, Remembers
    <3> QED
      BY <1>3, <2>2, <3>1, <3>2 DEF NextInv
  <2> QED
    BY <2>1, <2>2
<1> QED
  BY <1>4, <1>5, <1>6, <1>7 DEF AnimationInv

LEMMA StopInv ==
  ASSUME AnimationInv, UNCHANGED <<sequence, next, step, open, upset, active, running, raced, ticking, call>>
  PROVE  AnimationInv'
BY DEF AnimationInv, AnimationTypes, TimerInv, StepsInv, NextInv, Plays, Ending, SeenTo, Begins,
       A!SeesToTimer, A!Starting, A!AtEnd

LEMMA AnimationCallsInv ==
  ASSUME A!AnimationAssumption, AnimationInv, A!Calls
  PROVE  AnimationInv'
<1>0. Callers \subseteq A!Threads
  BY DEF A!Threads
<1>1. ASSUME NEW t \in Callers, NEW p \in A!Players, A!fd_animation_stop(t, p) PROVE AnimationInv'
  BY <1>1, StopInv DEF A!fd_animation_stop, A!timerVars, A!ghosts
<1>2. ASSUME NEW t \in Callers, NEW p \in A!Players, A!fd_animation_cancel(t, p) PROVE AnimationInv'
  BY <1>0, <1>2, CancelInv
<1>3. ASSUME NEW t \in Callers, NEW p \in A!Players, NEW s \in Animations,
             A!fd_animation_start(t, p, s), UNCHANGED ticking
      PROVE  AnimationInv'
  BY <1>0, <1>3, StartInv
<1>4. ASSUME NEW t \in Callers, A!CancelStops(t) \/ A!CancelEnds(t) PROVE AnimationInv'
  BY <1>0, <1>4, AskToStopInv
<1>5. ASSUME NEW t \in A!Threads, A!StartGoesOn(t) PROVE AnimationInv'
  BY <1>5, AskToStopInv, SetNextInv, SetSequenceInv, ResetInv, StartStepInv, SeesActiveInv,
     StartTimerInv DEF A!StartGoesOn
<1> QED
  BY <1>1, <1>2, <1>3, <1>4, <1>5 DEF A!Calls

-----------------------------------------------------------------------------
(* The ticks. *)

\* A tick leaves the player for the next one or for the check.
LEMMA AfterTickFacts ==
  ASSUME A!AnimationAssumption, NEW p \in A!Players, A!AfterTick(p)
  PROVE  /\ ticking' \in [pc : Stages, player : Nat, local : Playable]
         /\ ticking'.pc \in {"tick", "check"}
BY DEF A!AnimationAssumption, A!AfterTick, A!Reaches, A!Work, A!Players, Stages, Playable

LEMMA ReachesFacts ==
  ASSUME NEW p \in A!Players \cup {0}, NEW pc \in Stages, A!Reaches(pc, p)
  PROVE  /\ ticking' \in [pc : Stages, player : Nat, local : Playable]
         /\ ticking'.pc = pc /\ ticking'.player = p /\ ticking'.local = A!none
BY DEF A!Reaches, A!Work, A!Players, Stages, Playable

\* A step of the work that leaves the calls and the timer alone.
LEMMA TickKeeps ==
  ASSUME AnimationInv, UNCHANGED <<active, running, raced, call>>,
         Plays' => Plays \/ Ending, Ending' => Plays \/ Ending,
         ticking.pc # "clear",
         ticking'.pc = "stop" => ticking.pc = "stop" \/ ~Plays'
  PROVE  /\ TimerInv'
         /\ Arguments' /\ call' \in [A!Threads -> [at : Places, player : Nat, local : Playable]]
         /\ \A q \in A!Players, u \in A!Threads : /\ Begins(u, q)' <=> Begins(u, q)
                                                  /\ Begins(u, q) => call'[u].local = call[u].local
<1>1. SeenTo => SeenTo'
  BY DEF SeenTo, A!SeesToTimer
<1>2. TimerInv'
  BY <1>1, TimerKept DEF AnimationInv
<1> QED
  BY <1>2 DEF AnimationInv, AnimationTypes, Arguments, Begins

\* A step of the work that leaves all players as they are.
LEMMA SilentInv ==
  ASSUME A!AnimationAssumption, AnimationInv, NEW p \in A!Players,
         A!Silent(p) \/ A!ClearFlags(p) \/ A!CheckNext(p) \/ A!TakeNext(p)
  PROVE  AnimationInv'
<1>1. UNCHANGED <<sequence, step, next, active, running, raced, call, open, upset>>
  BY DEF A!Silent, A!ClearFlags, A!CheckNext, A!TakeNext, A!fields, A!timerVars, A!ghosts
<1>2. /\ ticking' \in [pc : Stages, player : Nat, local : Playable]
      /\ ticking.pc \in {"tick", "ended", "finalize", "next", "take"} /\ ticking.player = p
      /\ \/ ticking'.pc \in {"tick", "check"} /\ (ticking.pc # "tick" => next[p] = A!none)
         \/ ticking'.pc = "finalize" /\ ticking'.player = p /\ ticking.pc = "ended"
         \/ ticking'.pc = "take" /\ ticking'.player = p /\ next[p] # A!none /\ Ending
         \/ /\ ticking'.pc = "put" /\ ticking'.player = p /\ ticking.pc = "take"
            /\ ticking'.local # A!none
         \/ ticking'.pc = "fault" /\ ticking'.player = p /\ ticking.pc = "take" /\ next[p] = A!none
  <2>1. CASE A!Silent(p)
    BY <2>1, AfterTickFacts DEF A!Silent, A!Is
  <2>2. CASE A!ClearFlags(p)
    BY <2>2, ReachesFacts DEF A!ClearFlags, A!Is, Stages
  <2>3. CASE A!CheckNext(p)
    BY <2>3, AfterTickFacts, ReachesFacts DEF A!CheckNext, A!Is, Stages, Ending
  <2>4. CASE A!TakeNext(p)
    <3>1. next[p] \in Playable /\ A!none \in Playable /\ p \in Nat
      BY DEF AnimationInv, AnimationTypes, Playable, A!Players
    <3> QED
      BY <2>4, <3>1 DEF A!TakeNext, A!Is, A!Work, Stages
  <2> QED
    BY <2>1, <2>2, <2>3, <2>4
<1>3. TimerInv' /\ Arguments' /\ \A q \in A!Players, u \in A!Threads :
            /\ Begins(u, q)' <=> Begins(u, q)
            /\ Begins(u, q) => call'[u].local = call[u].local
  BY <1>1, <1>2, TickKeeps DEF Plays, Ending
<1>4. AnimationTypes'
  BY <1>1, <1>2 DEF AnimationInv, AnimationTypes
<1>5. ASSUME NEW q \in A!Players PROVE StepsInv(q)'
  BY <1>1, <1>3, StepsKept DEF AnimationInv
<1>6. ASSUME NEW q \in A!Players PROVE NextInv(q)'
  BY <1>1, <1>2 DEF AnimationInv, NextInv, A!AtEnd
<1> QED
  BY <1>3, <1>4, <1>5, <1>6 DEF AnimationInv

\* A player whose start is under way is not ticked before its first step is started.
LEMMA NotStarting ==
  ASSUME NEW p \in A!Players, Remembers(p, "overtaken", A!Starting(p)),
         upset'[p] \cap {"overtaken", "replaced"} = {}
  PROVE  ~A!Starting(p) /\ (\A t \in A!Threads : ~Begins(t, p))
         /\ upset[p] \cap {"overtaken", "replaced"} = {}
BY DEF Remembers, A!Starting, Begins

\* A step of a sequence goes on.
LEMMA WaypointInv ==
  ASSUME A!AnimationAssumption, AnimationInv, NEW p \in A!Players, A!Waypoint(p)
  PROVE  AnimationInv'
<1>1. /\ UNCHANGED <<sequence, step, next, active, running, raced, call, open>>
      /\ Remembers(p, "overtaken", A!Starting(p))
      /\ ticking.pc = "tick"
  BY UpsetRemembers DEF A!Waypoint, A!timerVars, A!Is, AnimationInv
<1>2. /\ ticking' \in [pc : Stages, player : Nat, local : Playable]
      /\ ticking'.pc \in {"tick", "check"}
  BY AfterTickFacts DEF A!Waypoint
<1>3. TimerInv' /\ \A q \in A!Players, u \in A!Threads :
            /\ Begins(u, q)' <=> Begins(u, q)
            /\ Begins(u, q) => call'[u].local = call[u].local
  BY <1>1, <1>2, TickKeeps DEF Plays, Ending
<1>4. AnimationTypes'
  BY <1>1, <1>2 DEF AnimationInv, AnimationTypes, Remembers
<1>5. ASSUME NEW q \in A!Players PROVE StepsInv(q)'
  BY <1>1, <1>3, StepsKept DEF AnimationInv, Remembers
<1>6. ASSUME NEW q \in A!Players PROVE NextInv(q)'
  BY <1>1, <1>2, NextKept DEF AnimationInv, Remembers, A!AtEnd
<1> QED
  BY <1>3, <1>4, <1>5, <1>6 DEF AnimationInv

\* A step ends and the next one is started.
LEMMA NextStepInv ==
  ASSUME A!AnimationAssumption, AnimationInv, NEW p \in A!Players, A!NextStep(p)
  PROVE  AnimationInv'
<1>1. PICK following \in Nat : following = IF A!LastStep(p) THEN 0 ELSE step[p] + 1
  BY DEF AnimationInv, AnimationTypes
<1>2. /\ UNCHANGED <<sequence, next, active, running, raced, call>>
      /\ Remembers(p, "overtaken", A!Starting(p))
      /\ ticking.pc = "tick" /\ sequence[p] # A!none
      /\ step' = [step EXCEPT ![p] = following]
      /\ open' = [open EXCEPT ![p] = (@ \ {<<sequence[p], step[p]>>}) \cup {<<sequence[p], following>>}]
  BY <1>1, UpsetRemembers DEF A!NextStep, A!StepEnds, A!timerVars, A!Is, AnimationInv
<1>3. /\ ticking' \in [pc : Stages, player : Nat, local : Playable]
      /\ ticking'.pc \in {"tick", "check"}
  BY AfterTickFacts DEF A!NextStep
<1>4. TimerInv' /\ \A q \in A!Players, u \in A!Threads :
            /\ Begins(u, q)' <=> Begins(u, q)
            /\ Begins(u, q) => call'[u].local = call[u].local
  BY <1>2, <1>3, TickKeeps DEF Plays, Ending
<1>5. AnimationTypes'
  <2>1. <<sequence[p], following>> \in Playable \X Nat
    BY DEF AnimationInv, AnimationTypes
  <2>2. open' \in [A!Players -> SUBSET (Playable \X Nat)]
    BY <1>2, <2>1 DEF AnimationInv, AnimationTypes
  <2> QED
    BY <1>2, <1>3, <2>2 DEF AnimationInv, AnimationTypes, Remembers
<1>6. ASSUME NEW q \in A!Players PROVE StepsInv(q)'
  <2>1. CASE q # p
    BY <1>2, <1>4, <2>1, StepsKept DEF AnimationInv, AnimationTypes, Remembers
  <2>2. CASE q = p /\ upset'[p] \cap {"overtaken", "replaced"} = {}
    <3>1. /\ ~A!Starting(p) /\ \A t \in A!Threads : ~Begins(t, p)
          /\ upset[p] \cap {"overtaken", "replaced"} = {}
      BY <1>2, <2>2, NotStarting
    <3>2. open[p] = {<<sequence[p], step[p]>>}
      BY <1>2, <3>1 DEF AnimationInv, StepsInv
    <3>3. open'[p] = {<<sequence[p], following>>} /\ step'[p] = following
      BY <1>2, <3>2 DEF AnimationInv, AnimationTypes
    <3>4. ~A!Starting(p)' /\ \A t \in A!Threads : ~Begins(t, p)'
      BY <1>4, <3>1 DEF A!Starting, Begins
    <3> QED
      BY <1>2, <2>2, <3>3, <3>4 DEF StepsInv
  <2> QED
    BY <2>1, <2>2 DEF StepsInv
<1>7. ASSUME NEW q \in A!Players PROVE NextInv(q)'
  BY <1>2, <1>3, NextKept DEF AnimationInv, Remembers, A!AtEnd
<1> QED
  BY <1>4, <1>5, <1>6, <1>7 DEF AnimationInv

\* A sequence is played out; its player has no step left.
LEMMA SequenceEndsInv ==
  ASSUME A!AnimationAssumption, AnimationInv, NEW p \in A!Players, A!SequenceEnds(p)
  PROVE  AnimationInv'
<1>1. /\ UNCHANGED <<next, active, running, raced, call>>
      /\ Remembers(p, "overtaken", A!Starting(p))
      /\ ticking.pc = "tick" /\ sequence[p] # A!none
      /\ step' = [step EXCEPT ![p] = 0]
      /\ open' = [open EXCEPT ![p] = @ \ {<<sequence[p], step[p]>>}]
      /\ sequence' = [sequence EXCEPT ![p] = A!none]
  BY UpsetRemembers DEF A!SequenceEnds, A!StepEnds, A!timerVars, A!Is, AnimationInv
<1>2. /\ ticking' \in [pc : Stages, player : Nat, local : Playable]
      /\ ticking'.pc = "ended" /\ ticking'.player = p
  BY ReachesFacts DEF A!SequenceEnds, Stages
<1>3. Plays
  BY <1>1 DEF Plays
<1>4. TimerInv' /\ \A q \in A!Players, u \in A!Threads :
            /\ Begins(u, q)' <=> Begins(u, q)
            /\ Begins(u, q) => call'[u].local = call[u].local
  BY <1>1, <1>2, <1>3, TickKeeps
<1>5. AnimationTypes'
  BY <1>1, <1>2 DEF AnimationInv, AnimationTypes, Remembers, Playable
<1>6. ASSUME NEW q \in A!Players PROVE StepsInv(q)'
  <2>1. CASE q # p
    BY <1>1, <1>4, <2>1, StepsKept DEF AnimationInv, AnimationTypes, Remembers
  <2>2. CASE q = p /\ upset'[p] \cap {"overtaken", "replaced"} = {}
    <3>1. /\ ~A!Starting(p) /\ \A t \in A!Threads : ~Begins(t, p)
          /\ upset[p] \cap {"overtaken", "replaced"} = {}
      BY <1>1, <2>2, NotStarting
    <3>2. open[p] = {<<sequence[p], step[p]>>}
      BY <1>1, <3>1 DEF AnimationInv, StepsInv
    <3>3. open'[p] = {} /\ sequence'[p] = A!none
      BY <1>1, <3>2 DEF AnimationInv, AnimationTypes
    <3>4. \A t \in A!Threads : ~Begins(t, p)'
      BY <1>4, <3>1
    <3> QED
      BY <2>2, <3>3, <3>4 DEF StepsInv
  <2> QED
    BY <2>1, <2>2 DEF StepsInv
<1>7. ASSUME NEW q \in A!Players PROVE NextInv(q)'
  BY <1>1, <1>2 DEF AnimationInv, AnimationTypes, NextInv, Remembers, A!AtEnd
<1> QED
  BY <1>4, <1>5, <1>6, <1>7 DEF AnimationInv

\* The next sequence is put in place.
LEMMA PlayNextInv ==
  ASSUME A!AnimationAssumption, AnimationInv, NEW p \in A!Players, A!PlayNext(p)
  PROVE  AnimationInv'
<1>1. /\ UNCHANGED <<step, active, running, raced, call>>
      /\ Remembers(p, "replaced", sequence[p] # A!none)
      /\ ticking.pc = "put" /\ ticking.player = p
      /\ next' = [next EXCEPT ![p] = A!none]
      /\ sequence' = [sequence EXCEPT ![p] = ticking.local]
      /\ open' = [open EXCEPT ![p] = @ \cup {<<ticking.local, step[p]>>}]
  BY UpsetRemembers DEF A!PlayNext, A!timerVars, A!Is, AnimationInv
<1>2. /\ ticking' \in [pc : Stages, player : Nat, local : Playable]
      /\ ticking'.pc \in {"tick", "check"}
  BY AfterTickFacts DEF A!PlayNext
<1>3. ticking.local \in Playable /\ ticking.local # A!none
  BY <1>1 DEF AnimationInv, AnimationTypes
<1>4. TimerInv' /\ \A q \in A!Players, u \in A!Threads :
            /\ Begins(u, q)' <=> Begins(u, q)
            /\ Begins(u, q) => call'[u].local = call[u].local
  BY <1>1, <1>2, TickKeeps DEF Ending
<1>5. AnimationTypes'
  <2>1. <<ticking.local, step[p]>> \in Playable \X Nat
    BY <1>3 DEF AnimationInv, AnimationTypes
  <2>2. open' \in [A!Players -> SUBSET (Playable \X Nat)]
    BY <1>1, <2>1 DEF AnimationInv, AnimationTypes
  <2> QED
    BY <1>1, <1>2, <1>3, <2>2 DEF AnimationInv, AnimationTypes, Remembers, Playable
<1>6. ASSUME NEW q \in A!Players PROVE StepsInv(q)'
  <2>1. CASE q # p
    BY <1>1, <1>4, <2>1, StepsKept DEF AnimationInv, AnimationTypes, Remembers
  <2>2. CASE q = p /\ upset'[p] \cap {"overtaken", "replaced"} = {}
    <3>1. sequence[p] = A!none /\ upset[p] \cap {"overtaken", "replaced"} = {}
      BY <1>1, <2>2 DEF Remembers
    <3>2. open[p] = {} /\ \A t \in A!Threads : ~Begins(t, p)
      BY <3>1 DEF AnimationInv, AnimationTypes, StepsInv, Begins
    <3>3. open'[p] = {<<ticking.local, step[p]>>} /\ sequence'[p] = ticking.local
      BY <1>1, <3>2 DEF AnimationInv, AnimationTypes
    <3>4. ~A!Starting(p)' /\ \A t \in A!Threads : ~Begins(t, p)'
      BY <1>4, <3>2 DEF A!Starting, Begins
    <3> QED
      BY <1>1, <1>3, <2>2, <3>3, <3>4 DEF StepsInv
  <2> QED
    BY <2>1, <2>2 DEF StepsInv
<1>7. ASSUME NEW q \in A!Players PROVE NextInv(q)'
  BY <1>1, <1>2 DEF AnimationInv, AnimationTypes, NextInv, Remembers, A!AtEnd
<1> QED
  BY <1>4, <1>5, <1>6, <1>7 DEF AnimationInv

LEMMA TickInv ==
  ASSUME A!AnimationAssumption, AnimationInv, NEW p \in A!Players, A!TickSteps(p)
  PROVE  AnimationInv'
<1>1. ASSUME NEW s \in Animations, A!Finalize(p, s) PROVE AnimationInv'
  BY <1>1, StartInv DEF A!Finalize, A!Threads
<1> QED
  BY <1>1, SilentInv, WaypointInv, NextStepInv, SequenceEndsInv, PlayNextInv DEF A!TickSteps

-----------------------------------------------------------------------------
\* The work begins, and at its end looks whether the timer is to be stopped.
LEMMA AnimationWorkInv ==
  ASSUME AnimationInv,
         A!fd_animation_work \/ A!CheckActive \/ A!StopTimer \/ A!ClearActive \/ A!fd_animation_timer_irq
  PROVE  AnimationInv'
<1>1. /\ UNCHANGED <<sequence, step, next, raced, call, open, upset>>
      /\ active' \in BOOLEAN /\ running' \in BOOLEAN
  BY DEF A!fd_animation_work, A!CheckActive, A!StopTimer, A!ClearActive, A!fd_animation_timer_irq,
         A!fields, A!timerVars, A!ghosts, AnimationInv, AnimationTypes
<1>2. \/ ticking' = ticking
      \/ /\ ticking' \in [pc : Stages, player : Nat, local : Playable]
         /\ ticking.pc \in {"idle", "check", "stop", "clear"}
         /\ ticking'.pc \in {"idle", "tick", "stop", "clear"}
  BY DEF A!fd_animation_work, A!CheckActive, A!StopTimer, A!ClearActive, A!fd_animation_timer_irq,
         A!Resting, A!Work, A!Reaches, Stages, Playable
<1>3. AnimationTypes'
  BY <1>1, <1>2 DEF AnimationInv, AnimationTypes
<1>4. TimerInv'
  <2>0. (Plays' <=> Plays) /\ (SeenTo' <=> SeenTo)
    BY <1>1 DEF Plays, SeenTo, A!SeesToTimer
  <2>1. CASE A!fd_animation_work
    <3>1. active' = active /\ running' = running /\ ticking.pc = "idle" /\ ticking'.pc = "tick"
      BY <2>1 DEF A!fd_animation_work, A!Resting, A!Work
    <3> QED
      BY <1>1, <2>0, <3>1, TimerKept DEF AnimationInv, Ending
  <2>2. CASE A!CheckActive
    <3>1. /\ active' = active /\ running' = running /\ ticking.pc = "check"
          /\ ticking'.pc \in {"idle", "stop"} /\ (ticking'.pc = "stop" => ~Plays)
      BY <2>2 DEF A!CheckActive, A!Resting, A!Work, A!timerVars, Plays
    <3> QED
      BY <1>1, <2>0, <3>1, TimerKept DEF AnimationInv, Ending
  <2>3. CASE A!StopTimer
    <3>1. active' = active /\ ticking.pc = "stop" /\ ticking'.pc = "clear"
      BY <2>3 DEF A!StopTimer, A!Work, A!Reaches
    <3> QED
      BY <1>1, <2>0, <3>1 DEF AnimationInv, TimerInv, Ending
  <2>4. CASE A!ClearActive
    <3>1. active' = FALSE /\ running' = running /\ ticking.pc = "clear" /\ ticking'.pc = "idle"
      BY <2>4 DEF A!ClearActive, A!Work, A!Resting
    <3> QED
      BY <1>1, <2>0, <3>1 DEF AnimationInv, TimerInv, Ending
  <2>5. CASE A!fd_animation_timer_irq
    <3>1. active' = active /\ running' = running /\ ticking' = ticking
      BY <2>5 DEF A!fd_animation_timer_irq
    <3> QED
      BY <1>1, <2>0, <3>1, TimerKept DEF AnimationInv, Ending
  <2> QED
    BY <2>1, <2>2, <2>3, <2>4, <2>5
<1>5. ASSUME NEW q \in A!Players PROVE StepsInv(q)'
  <2>1. \A u \in A!Threads : /\ Begins(u, q)' <=> Begins(u, q)
                             /\ Begins(u, q) => call'[u].local = call[u].local
    BY <1>1 DEF Begins
  <2> QED
    BY <1>1, <2>1, StepsKept DEF AnimationInv
<1>6. ASSUME NEW q \in A!Players PROVE NextInv(q)'
  BY <1>1, <1>2, NextKept DEF AnimationInv, A!AtEnd
<1> QED
  BY <1>3, <1>4, <1>5, <1>6 DEF AnimationInv

\* However the steps of calls, also from finalize functions, come between those of the
\* work: but for the named interleavings a player that has a sequence is going to be
\* ticked, its current step and no other is open, and a sequence that waits is played when
\* the one before it ends; the null pointer is followed only after a cancel between the
\* work's two reads of next.
THEOREM AnimationsAdvance == A!Spec => []PlayersAdvance
<1>0. A!AnimationAssumption
  BY InputAssumption
<1>1. A!Init => AnimationInv
  <2> SUFFICES ASSUME A!Init PROVE AnimationInv
    OBVIOUS
  <2>1. A!none \in Playable /\ "out" \in Places /\ "idle" \in Stages
    BY DEF Playable, Places, Stages
  <2>2. /\ \A t \in A!Threads : call[t] = [at |-> "out", player |-> 0, local |-> A!none]
        /\ call \in [A!Threads -> [at : Places, player : Nat, local : Playable]]
    BY <2>1 DEF A!Init, A!Out
  <2>3. ticking = [pc |-> "idle", player |-> 0, local |-> A!none]
    BY DEF A!Init, A!Resting, A!Work
  <2>4. AnimationTypes
    <3>1. /\ sequence \in [A!Players -> Playable] /\ next \in [A!Players -> Playable]
          /\ step \in [A!Players -> Nat] /\ open \in [A!Players -> SUBSET (Playable \X Nat)]
          /\ upset \in [A!Players -> SUBSET {"missed", "replaced", "overtaken", "cut"}]
          /\ active \in BOOLEAN /\ running \in BOOLEAN /\ raced \in BOOLEAN
      BY <2>1 DEF A!Init
    <3>2. /\ ticking \in [pc : Stages, player : Nat, local : Playable]
          /\ ticking.pc \notin {"put", "fault"}
      BY <2>1, <2>3
    <3>3. \A t \in A!Threads : call[t].at \notin {"busy", "next", "free", "reset", "start"}
      BY <2>2
    <3> QED
      BY <2>2, <3>1, <3>2, <3>3 DEF AnimationTypes
  <2>5. TimerInv
    BY <2>2, <2>3 DEF A!Init, TimerInv, Plays, Ending
  <2>6. \A p \in A!Players : StepsInv(p) /\ NextInv(p)
    BY <2>2, <2>3 DEF A!Init, StepsInv, NextInv, Begins
  <2> QED
    BY <2>4, <2>5, <2>6 DEF AnimationInv
<1>2. AnimationInv /\ [A!Next]_A!animationVars => AnimationInv'
  <2>1. CASE UNCHANGED A!animationVars
    BY <2>1, StopInv DEF A!animationVars, A!fields, A!timerVars, A!ghosts
  <2> QED
    BY <1>0, <2>1, AnimationCallsInv, AnimationWorkInv, TickInv DEF A!Next, A!WorkSteps
<1>3. AnimationInv => PlayersAdvance
  BY DEF AnimationInv, AnimationTypes, TimerInv, StepsInv, NextInv, Plays, SeenTo, PlayersAdvance,
         A!PlayersAdvance
<1> QED
  BY <1>1, <1>2, <1>3, PTL DEF A!Spec
=============================================================================
