--------------------------- MODULE BootSplitProofs ---------------------------
(***************************************************************************)
(* Proofs about the split boot loader, for every number of blocks, every   *)
(* script of the controllers and any number of faults and restarts.        *)
(*                                                                         *)
(* Messages carry no number, so a handler may be given blocks that another *)
(* handler asked for.  What saves the executable is an order on the line:  *)
(* nothing that follows the last block of an update is a block, and a      *)
(* handler that goes on after another one was served in its wait asks      *)
(* behind the response to that other one, which makes the controller send  *)
(* a request, or nothing, before it answers.                               *)
(***************************************************************************)
EXTENDS BootSplit, SequenceTheorems, TLAPS

\* The block that a frame of the given type is about, 0 if it is about none.
Block(m, type) == IF m.type = type /\ m.op # "storage" THEN m.location ELSE 0

\* What will reach the peripheral, in this order: the frames for it, what a
\* controller that has ended will send when it is started again, and what the
\* controller makes of the frames for it.
Sent(arriving, state) == Len(arriving) + (IF state = "waiting" THEN 0 ELSE 1)
LineOf(arriving, state, asked) ==
  [i \in 1 .. Sent(arriving, state) + Len(asked) |->
     IF i <= Len(arriving) THEN Block(arriving[i], "response")
     ELSE IF i <= Sent(arriving, state) THEN 0
     ELSE Block(asked[i - Sent(arriving, state)], "request")]
Line == LineOf(to_peripheral, status, to_controller)

Behind(line) == line # << >> /\ line[1] = 0

\* A handler that waits is the one that operation names.
Waits == Depth > 0 /\ ~Top.woken
OperationLive ==
  Waits => /\ IsLive
           /\ operation.kind = IF Plan[Top.step] = 0 THEN "storage" ELSE "read"

\* Nothing that follows the last block is a block, and the last frame on the line is
\* what the waiting handler asked for, or about no block.
LastBlockLast(line) == \A i \in 1 .. Len(line) - 1 : line[i] = Blocks => line[i + 1] = 0
OwnLast ==
  Line # << >> /\ Depth > 0 =>
    Line[Len(Line)] = 0 \/ (~Top.woken /\ Line[Len(Line)] = Plan[Top.step])

\* A handler in whose wait another one has ended well does not find a block next.
ResumesBehind == Depth > 0 /\ Top.woken /\ operation.kind = "none" => Behind(Line)

\* Once the executable is whole, a handler that saw it otherwise is not given what it
\* waits for.
Outdated(f) == executable = "whole" /\ f.had = "invalid"
OutdatedStops ==
  Waits /\ Outdated(Top) => Plan[Top.step] # 0 /\ Behind(Line)

\* A handler that saw a whole executable does not install.
SawWhole ==
  \A i \in 1 .. Depth : stack[i].had = "whole" => executable = "whole" /\ InCheck(stack[i].step)

InService ==
  running = "boot" => OperationLive /\ LastBlockLast(Line) /\ OwnLast /\ ResumesBehind /\ OutdatedStops

\* What the controller is told.
ToldValid(m) == m.type = "response" /\ m.op = "update" /\ m.ok /\ m.valid
ValidIsTrue ==
  /\ executable = "whole" => installed
  /\ accepted => executable = "whole"
  /\ \A i \in 1 .. Len(to_controller) : ToldValid(to_controller[i]) => executable = "whole"

\* Without a fault one message is on its way, or the controller has ended.
Kind(f) == IF Plan[f.step] = 0 THEN "storage" ELSE "read"
Quiet ==
  /\ to_peripheral = << >> /\ to_controller = << >> /\ stack = << >>
  /\ status # "waiting" \/ (running = "application" /\ Op = "execute")
Requested ==
  /\ to_peripheral = << Message("request", Op, 0, FALSE, FALSE) >>
  /\ to_controller = << >> /\ stack = << >>
Responded ==
  /\ to_peripheral = << >> /\ stack = << >>
  /\ \E ok, valid \in BOOLEAN : to_controller = << Message("response", Op, 0, ok, valid) >>
Asking(f) ==
  /\ to_peripheral = << >>
  /\ to_controller = << Message("request", Kind(f), Plan[f.step], FALSE, FALSE) >>
Answered(f) ==
  /\ to_peripheral = << Message("response", Kind(f), Plan[f.step], TRUE, FALSE) >>
  /\ to_controller = << >>
Serving ==
  /\ Len(stack) = 1 /\ stack[1].request = Op /\ ~stack[1].woken /\ ~stack[1].lost
  /\ Asking(stack[1]) \/ Answered(stack[1])
InStep ==
  faults = 0 =>
    \/ running # "wild" /\ Quiet
    \/ running = "boot" /\ status = "waiting" /\ (Requested \/ Responded \/ Serving)

Sound == TypeOK /\ SawWhole /\ InService /\ ValidIsTrue
SplitInv == Sound /\ InStep
-----------------------------------------------------------------------------
(* The plan of an update, and the line. *)

\* The steps of a handler: the storage, all blocks, the storage, all blocks but the first.
LEMMA PlanSteps ==
  /\ Len(CheckPlan) = Blocks + 1 /\ Len(Plan) = 2 * Blocks + 1
  /\ Plan[1] = 0 /\ Plan[Blocks + 2] = 0
  /\ \A i \in 2 .. Blocks + 1 : Plan[i] = i - 1
  /\ \A i \in Blocks + 3 .. 2 * Blocks + 1 : Plan[i] = i - Blocks - 1
<1> DEFINE check == [i \in 1 .. Blocks |-> i]
           install == [i \in 1 .. Blocks - 1 |-> i + 1]
<1>1. Blocks \in Nat /\ Blocks >= 2
  BY ConstantsAssumption
<1>2. check \in Seq(Nat) /\ Len(check) = Blocks /\ \A i \in 1 .. Blocks : check[i] = i
  BY <1>1
<1>3. install \in Seq(Nat) /\ Len(install) = Blocks - 1 /\ \A i \in 1 .. Blocks - 1 : install[i] = i + 1
  BY <1>1
<1>4. CheckPlan = << 0 >> \o check /\ InstallPlan = << 0 >> \o install
  BY DEF CheckPlan, InstallPlan
<1> HIDE DEF check, install
<1>5. /\ CheckPlan \in Seq(Nat) /\ Len(CheckPlan) = Blocks + 1 /\ CheckPlan[1] = 0
      /\ \A i \in 2 .. Blocks + 1 : CheckPlan[i] = i - 1
  BY <1>1, <1>2, <1>4
<1>6. /\ InstallPlan \in Seq(Nat) /\ Len(InstallPlan) = Blocks /\ InstallPlan[1] = 0
      /\ \A i \in 2 .. Blocks : InstallPlan[i] = i
  BY <1>1, <1>3, <1>4
<1>7. Len(Plan) = 2 * Blocks + 1
  BY <1>1, <1>5, <1>6 DEF Plan
<1>8. \A i \in 1 .. Blocks + 1 : Plan[i] = CheckPlan[i]
  BY <1>1, <1>5, <1>6 DEF Plan
<1>9. \A i \in Blocks + 2 .. 2 * Blocks + 1 : Plan[i] = InstallPlan[i - (Blocks + 1)]
  BY <1>1, <1>5, <1>6 DEF Plan
<1> QED
  BY <1>1, <1>5, <1>6, <1>7, <1>8, <1>9

\* What the proofs use of the plan.
LEMMA PlanFacts ==
  /\ Len(Plan) \in Nat /\ Len(CheckPlan) \in Nat /\ 1 <= Len(CheckPlan) /\ Len(CheckPlan) < Len(Plan)
  /\ Plan[1] = 0
  /\ \A s \in 1 .. Len(Plan) :
        /\ Plan[s] \in Locations
        /\ Plan[s] = 0 => s # Len(CheckPlan) /\ s < Len(Plan) /\ Plan[s + 1] # 0
        /\ s = Len(CheckPlan) \/ s = Len(Plan) => Plan[s] = Blocks
        /\ Plan[s] = Blocks /\ s < Len(Plan) => s = Len(CheckPlan) /\ Plan[s + 1] = 0
<1>1. Blocks \in Nat /\ Blocks >= 2
  BY ConstantsAssumption
<1>2. ASSUME NEW s \in 1 .. Len(Plan)
      PROVE  s = 1 \/ s = Blocks + 2 \/ s \in 2 .. Blocks + 1 \/ s \in Blocks + 3 .. 2 * Blocks + 1
  BY <1>1, PlanSteps
<1> QED
  BY <1>1, <1>2, PlanSteps DEF Locations

\* The frames on the line, in their order.
LineIs(line, per, con, n) ==
  /\ n \in Nat /\ n >= Len(per)
  /\ line \in Seq(Locations) /\ Len(line) = n + Len(con)
  /\ \A i \in 1 .. Len(per) : line[i] = Block(per[i], "response")
  /\ \A i \in Len(per) + 1 .. n : line[i] = 0
  /\ \A i \in n + 1 .. n + Len(con) : line[i] = Block(con[i - n], "request")

\* The frames for the peripheral come first, those for the controller last.
LEMMA LineShape ==
  ASSUME NEW per, per \in Seq(Messages), NEW con, con \in Seq(Messages), NEW state
  PROVE  LineIs(LineOf(per, state, con), per, con, Sent(per, state))
<1> DEFINE n == Sent(per, state)
<1> DEFINE at(i) == IF i <= Len(per) THEN Block(per[i], "response")
                    ELSE IF i <= n THEN 0 ELSE Block(con[i - n], "request")
<1>1. n \in Nat /\ Len(per) \in Nat /\ Len(con) \in Nat /\ Len(per) <= n
  BY DEF Sent
<1>2. 0 \in Locations
  BY ConstantsAssumption DEF Locations
<1>3. \A m \in Messages : Block(m, "response") \in Locations /\ Block(m, "request") \in Locations
  BY <1>2 DEF Block, Messages
<1>4. \A i \in 1 .. n + Len(con) : at(i) \in Locations
  BY <1>1, <1>2, <1>3
<1>5. LineOf(per, state, con) = [i \in 1 .. n + Len(con) |-> at(i)]
  BY DEF LineOf
<1> HIDE DEF at, n
<1>6. /\ LineOf(per, state, con) \in Seq(Locations) /\ Len(LineOf(per, state, con)) = n + Len(con)
      /\ \A i \in 1 .. n + Len(con) : LineOf(per, state, con)[i] = at(i)
  BY <1>1, <1>4, <1>5
<1> QED
  BY <1>1, <1>6 DEF at, n, LineIs

\* A frame for the controller is the last on the line.
LEMMA LineAppend ==
  ASSUME NEW per, per \in Seq(Messages), NEW con, con \in Seq(Messages), NEW state, NEW m \in Messages
  PROVE  LineOf(per, state, Append(con, m)) = Append(LineOf(per, state, con), Block(m, "request"))
<1> DEFINE n == Sent(per, state)
           a == LineOf(per, state, Append(con, m))
           b == Append(LineOf(per, state, con), Block(m, "request"))
<1>1. n \in Nat /\ Len(per) \in Nat /\ Len(con) \in Nat /\ Len(per) <= n
  BY DEF Sent
<1>2. Block(m, "request") \in Locations
  BY ConstantsAssumption DEF Block, Messages, Locations
<1>3. /\ Append(con, m) \in Seq(Messages) /\ Len(Append(con, m)) = Len(con) + 1
      /\ Append(con, m)[Len(con) + 1] = m
      /\ \A i \in 1 .. Len(con) : Append(con, m)[i] = con[i]
  OBVIOUS
<1> HIDE DEF n
<1>4. LineIs(a, per, Append(con, m), n)
  BY <1>3, LineShape DEF n
<1>5. LineIs(LineOf(per, state, con), per, con, n)
  BY LineShape DEF n
<1>6. /\ b \in Seq(Locations) /\ Len(b) = n + Len(con) + 1
      /\ \A i \in 1 .. n + Len(con) : b[i] = LineOf(per, state, con)[i]
      /\ b[n + Len(con) + 1] = Block(m, "request")
  BY <1>1, <1>2, <1>5 DEF LineIs
<1> HIDE DEF a, b
<1>7. ASSUME NEW i \in 1 .. n + Len(con) + 1 PROVE a[i] = b[i]
  <2>1. CASE i \in 1 .. Len(per)
    BY <1>1, <1>4, <1>5, <1>6, <2>1 DEF LineIs
  <2>2. CASE i \in Len(per) + 1 .. n
    <3>1. a[i] = 0
      BY <1>4, <2>2 DEF LineIs
    <3>2. LineOf(per, state, con)[i] = 0
      BY <1>5, <2>2 DEF LineIs
    <3>3. i \in 1 .. n + Len(con)
      BY <1>1, <2>2
    <3> QED
      BY <1>6, <3>1, <3>2, <3>3
  <2>3. CASE i \in n + 1 .. n + Len(con)
    <3>1. i - n \in 1 .. Len(con) /\ i \in n + 1 .. n + Len(Append(con, m)) /\ i \in 1 .. n + Len(con)
      BY <1>1, <1>3, <2>3
    <3>2. a[i] = Block(Append(con, m)[i - n], "request")
      BY <1>4, <3>1 DEF LineIs
    <3>3. LineOf(per, state, con)[i] = Block(con[i - n], "request")
      BY <1>5, <2>3 DEF LineIs
    <3> QED
      BY <1>3, <1>6, <3>1, <3>2, <3>3
  <2>4. CASE i = n + Len(con) + 1
    <3>1. i - n = Len(con) + 1 /\ i \in n + 1 .. n + Len(Append(con, m))
      BY <1>1, <1>3, <2>4
    <3>2. a[i] = Block(Append(con, m)[i - n], "request")
      BY <1>4, <3>1 DEF LineIs
    <3> QED
      BY <1>3, <1>6, <2>4, <3>1, <3>2
  <2> QED
    BY <1>1, <2>1, <2>2, <2>3, <2>4
<1>8. a = b
  BY <1>1, <1>4, <1>6, <1>7 DEF LineIs
<1> QED
  BY <1>8 DEF a, b

\* A frame for the peripheral is the first.
LEMMA LineTail ==
  ASSUME NEW per, per \in Seq(Messages), NEW con, con \in Seq(Messages), NEW state, per # << >>
  PROVE  /\ LineOf(per, state, con) # << >>
         /\ LineOf(per, state, con)[1] = Block(Head(per), "response")
         /\ LineOf(Tail(per), state, con) = Tail(LineOf(per, state, con))
<1> DEFINE n == Sent(per, state)
           a == LineOf(Tail(per), state, con)
           line == LineOf(per, state, con)
           b == Tail(line)
<1>1. n \in Nat /\ Len(per) \in Nat /\ Len(per) > 0 /\ Len(con) \in Nat /\ Len(per) <= n
  BY DEF Sent
<1>2. /\ Tail(per) \in Seq(Messages) /\ Len(Tail(per)) = Len(per) - 1 /\ Head(per) = per[1]
      /\ Sent(Tail(per), state) = n - 1
      /\ \A i \in 1 .. Len(per) - 1 : Tail(per)[i] = per[i + 1]
  BY DEF Sent
<1> HIDE DEF n
<1>3. LineIs(a, Tail(per), con, n - 1)
  BY <1>2, LineShape
<1>4. LineIs(line, per, con, n)
  BY LineShape DEF n
<1> HIDE DEF a, line
<1>5. line # << >> /\ line[1] = Block(Head(per), "response")
  BY <1>1, <1>2, <1>4 DEF LineIs
<1>6. /\ b \in Seq(Locations) /\ Len(b) = n - 1 + Len(con)
      /\ \A i \in 1 .. n - 1 + Len(con) : b[i] = line[i + 1]
  BY <1>1, <1>4, <1>5 DEF LineIs
<1> HIDE DEF b
<1>7. ASSUME NEW i \in 1 .. n - 1 + Len(con) PROVE a[i] = b[i]
  <2>1. CASE i \in 1 .. Len(per) - 1
    <3>1. a[i] = Block(per[i + 1], "response")
      BY <1>2, <1>3, <2>1 DEF LineIs
    <3>2. i + 1 \in 1 .. Len(per)
      BY <1>1, <2>1
    <3>3. line[i + 1] = Block(per[i + 1], "response")
      BY <1>4, <3>2 DEF LineIs
    <3> QED
      BY <1>6, <3>1, <3>3
  <2>2. CASE i \in Len(per) .. n - 1
    <3>1. a[i] = 0
      BY <1>1, <1>2, <1>3, <2>2 DEF LineIs
    <3>2. i + 1 \in Len(per) + 1 .. n
      BY <1>1, <2>2
    <3>3. line[i + 1] = 0
      BY <1>4, <3>2 DEF LineIs
    <3> QED
      BY <1>6, <3>1, <3>3
  <2>3. CASE i \in n .. n - 1 + Len(con)
    <3>1. i + 1 \in n + 1 .. n + Len(con) /\ (i + 1) - n = i - (n - 1)
      BY <1>1, <2>3
    <3> QED
      BY <1>1, <1>3, <1>4, <1>6, <2>3, <3>1 DEF LineIs
  <2> QED
    BY <1>1, <2>1, <2>2, <2>3
<1>8. a = b
  BY <1>1, <1>3, <1>6, <1>7 DEF LineIs
<1> QED
  BY <1>5, <1>8 DEF a, b, line

\* A handler whose dispatch has served something is otherwise as it was.
LEMMA WakeFacts ==
  ASSUME NEW s, s \in Seq(Frames)
  PROVE  /\ Wake(s) \in Seq(Frames) /\ Len(Wake(s)) = Len(s)
         /\ \A i \in 1 .. Len(s) : Wake(s)[i].had = s[i].had /\ Wake(s)[i].step = s[i].step
         /\ s # << >> => Wake(s)[Len(s)].woken
         /\ s = << >> => Wake(s) = << >>
<1>1. CASE s = << >>
  BY <1>1 DEF Wake
<1>2. CASE s # << >>
  <2> DEFINE n == Len(s)
  <2>1. n \in Nat \ {0} /\ s \in [1 .. n -> Frames]
    BY <1>2
  <2>2. Wake(s) = [s EXCEPT ![n] = [s[n] EXCEPT !.woken = TRUE]]
    BY <1>2, <2>1 DEF Wake
  <2> HIDE DEF n
  <2>3. s[n] \in Frames
    BY <2>1
  <2>4. /\ [s[n] EXCEPT !.woken = TRUE] \in Frames
        /\ [s[n] EXCEPT !.woken = TRUE].had = s[n].had /\ [s[n] EXCEPT !.woken = TRUE].step = s[n].step
        /\ [s[n] EXCEPT !.woken = TRUE].woken
    BY <2>3 DEF Frames
  <2>5. Wake(s) \in [1 .. n -> Frames]
    BY <2>1, <2>2, <2>4
  <2>6. Wake(s) \in Seq(Frames) /\ Len(Wake(s)) = n
    BY <2>1, <2>5
  <2> QED
    BY <1>2, <2>1, <2>2, <2>4, <2>6 DEF n
<1> QED
  BY <1>1, <1>2
-----------------------------------------------------------------------------
(* What the peripheral does to the line: it takes the first frame, and     *)
(* something follows the last one.                                         *)

\* A block may follow any frame but the last block.
LEMMA Appended ==
  ASSUME NEW line, line \in Seq(Locations), NEW x \in Locations, LastBlockLast(line),
         line # << >> => line[Len(line)] # Blocks \/ x = 0
  PROVE  /\ LastBlockLast(Append(line, x)) /\ Append(line, x) # << >>
         /\ Append(line, x)[Len(Append(line, x))] = x
         /\ Behind(line) \/ (line = << >> /\ x = 0) => Behind(Append(line, x))
<1>1. /\ Len(line) \in Nat /\ Len(Append(line, x)) = Len(line) + 1
      /\ \A i \in 1 .. Len(line) : Append(line, x)[i] = line[i]
      /\ Append(line, x)[Len(line) + 1] = x
  OBVIOUS
<1>2. ASSUME NEW i \in 1 .. Len(line), Append(line, x)[i] = Blocks PROVE Append(line, x)[i + 1] = 0
  <2>1. CASE i < Len(line)
    BY <1>1, <1>2, <2>1 DEF LastBlockLast
  <2>2. CASE i = Len(line)
    BY <1>1, <1>2, <2>2
  <2> QED
    BY <1>1, <2>1, <2>2
<1>3. LastBlockLast(Append(line, x))
  BY <1>1, <1>2 DEF LastBlockLast
<1> QED
  BY <1>1, <1>3 DEF Behind

\* What is left when the first frame is taken; nothing is a block behind the last block.
LEMMA Popped ==
  ASSUME NEW line, line \in Seq(Locations), line # << >>, LastBlockLast(line)
  PROVE  /\ Tail(line) \in Seq(Locations) /\ LastBlockLast(Tail(line))
         /\ Tail(line) # << >> => Tail(line)[Len(Tail(line))] = line[Len(line)]
         /\ line[1] = Blocks /\ Tail(line) # << >> => Behind(Tail(line))
<1>1. /\ Len(line) \in Nat \ {0} /\ Len(Tail(line)) = Len(line) - 1 /\ Tail(line) \in Seq(Locations)
      /\ \A i \in 1 .. Len(line) - 1 : Tail(line)[i] = line[i + 1]
  OBVIOUS
<1>2. ASSUME NEW i \in 1 .. Len(line) - 2, Tail(line)[i] = Blocks PROVE Tail(line)[i + 1] = 0
  <2>1. line[i + 1] = Blocks /\ i + 1 \in 1 .. Len(line) - 1
    BY <1>1, <1>2
  <2>2. line[i + 1 + 1] = 0
    BY <2>1 DEF LastBlockLast
  <2> QED
    BY <1>1, <2>1, <2>2
<1>3. LastBlockLast(Tail(line))
  BY <1>1, <1>2 DEF LastBlockLast
<1>4. ASSUME line[1] = Blocks, Tail(line) # << >> PROVE Behind(Tail(line))
  <2>1. Len(line) > 1
    BY <1>1, <1>4
  <2> QED
    BY <1>1, <1>4, <2>1 DEF LastBlockLast, Behind
<1> QED
  BY <1>1, <1>3, <1>4

\* What is left of the line when the peripheral has taken a frame, or none.
Rest == LineOf(to_peripheral', status, to_controller)
Acts ==
  /\ running = "boot" /\ UNCHANGED controller_vars /\ faults' \in 0 .. MaxFaults
  /\ to_peripheral' \in Seq(Messages) /\ Rest \in Seq(Locations)
  /\ LastBlockLast(Rest)
  /\ Rest # << >> => Line # << >> /\ Rest[Len(Rest)] = Line[Len(Line)]

\* A step of the peripheral that takes a frame, or none, is one that Acts describes.
LEMMA ActsFacts ==
  ASSUME TypeOK, InService, running = "boot", UNCHANGED controller_vars, faults' \in 0 .. MaxFaults,
         \/ to_peripheral' = to_peripheral
         \/ to_peripheral # << >> /\ to_peripheral' = Tail(to_peripheral)
  PROVE  /\ Acts
         /\ to_peripheral' = to_peripheral => Rest = Line
         /\ to_peripheral # << >> /\ to_peripheral' = Tail(to_peripheral) =>
              /\ Line # << >> /\ Line[1] = Block(Head(to_peripheral), "response")
              /\ Line[1] = Blocks /\ Rest # << >> => Behind(Rest)
<1>1. to_peripheral \in Seq(Messages) /\ to_controller \in Seq(Messages) /\ LastBlockLast(Line)
  BY DEF TypeOK, InService
<1>2. Line \in Seq(Locations)
  BY <1>1, LineShape DEF Line, LineIs
<1>3. CASE to_peripheral' = to_peripheral /\ ~(to_peripheral # << >> /\ to_peripheral' = Tail(to_peripheral))
  <2>1. Rest = Line
    BY <1>3 DEF Rest, Line
  <2> QED
    BY <1>1, <1>2, <1>3, <2>1 DEF Acts
<1>4. CASE to_peripheral # << >> /\ to_peripheral' = Tail(to_peripheral)
  <2>1. to_peripheral' \in Seq(Messages) /\ to_peripheral' # to_peripheral
    BY <1>1, <1>4
  <2>2. Line # << >> /\ Line[1] = Block(Head(to_peripheral), "response") /\ Rest = Tail(Line)
    BY <1>1, <1>4, LineTail DEF Rest, Line
  <2>3. /\ Tail(Line) \in Seq(Locations) /\ LastBlockLast(Tail(Line))
        /\ Tail(Line) # << >> => Tail(Line)[Len(Tail(Line))] = Line[Len(Line)]
        /\ Line[1] = Blocks /\ Tail(Line) # << >> => Behind(Tail(Line))
    BY <1>1, <1>2, <2>2, Popped
  <2> QED
    BY <1>4, <2>1, <2>2, <2>3 DEF Acts
<1> QED
  BY <1>3, <1>4
-----------------------------------------------------------------------------
(* The steps of the peripheral. *)

\* A frame for the controller does not tell it of a valid update that is not there.
LEMMA ToldKeeps ==
  ASSUME TypeOK, ValidIsTrue, NEW m \in Messages, to_controller' = Append(to_controller, m),
         accepted' = accepted, executable = "whole" => executable' = "whole",
         executable' = "whole" => installed', ToldValid(m) => executable' = "whole"
  PROVE  ValidIsTrue'
<1>1. /\ Len(to_controller) \in Nat /\ Len(to_controller') = Len(to_controller) + 1
      /\ \A i \in 1 .. Len(to_controller) : to_controller'[i] = to_controller[i]
      /\ to_controller'[Len(to_controller) + 1] = m
  BY DEF TypeOK
<1>2. ASSUME NEW i \in 1 .. Len(to_controller'), ToldValid(to_controller'[i]) PROVE executable' = "whole"
  <2>1. CASE i \in 1 .. Len(to_controller)
    BY <1>1, <1>2, <2>1 DEF ValidIsTrue
  <2>2. CASE i = Len(to_controller) + 1
    BY <1>1, <1>2, <2>2
  <2> QED
    BY <1>1, <2>1, <2>2
<1>3. \A i \in 1 .. Len(to_controller') : ToldValid(to_controller'[i]) => executable' = "whole"
  BY <1>2
<1> QED
  BY <1>3 DEF ValidIsTrue, ToldValid

\* A frame of the peripheral follows all others.
LEMMA LineGrows ==
  ASSUME TypeOK, Acts, NEW m \in Messages, to_controller' = Append(to_controller, m)
  PROVE  Line' = Append(Rest, Block(m, "request")) /\ to_controller' \in Seq(Messages)
         /\ Block(m, "request") \in Locations
<1>1. to_controller \in Seq(Messages) /\ status' = status
  BY DEF TypeOK, Acts, controller_vars
<1>2. Line' = LineOf(to_peripheral', status, Append(to_controller, m))
  BY <1>1 DEF Line
<1>3. Block(m, "request") \in Locations
  BY ConstantsAssumption DEF Block, Messages, Locations
<1>4. to_peripheral' \in Seq(Messages)
  BY DEF Acts
<1> QED
  BY <1>1, <1>2, <1>3, <1>4, LineAppend DEF Rest

\* A response is typed, and is about no block.
LEMMA ResponseFacts ==
  ASSUME NEW op \in Requests, NEW ok \in BOOLEAN, NEW valid \in BOOLEAN
  PROVE  /\ Message("response", op, 0, ok, valid) \in Messages
         /\ Block(Message("response", op, 0, ok, valid), "request") = 0
         /\ ToldValid(Message("response", op, 0, ok, valid)) => op = "update" /\ ok /\ valid
  BY ConstantsAssumption DEF Message, Messages, Block, ToldValid, Locations

\* The handler on top of the stack, or one that needed no wait, has answered; s is what is
\* left of the stack.
Responds(s, op, ok, valid) ==
  /\ s \in Seq(Frames) /\ Len(s) <= Depth
  /\ \A i \in 1 .. Len(s) : s[i] = stack[i]
  /\ stack' = Wake(s)
  /\ op \in Requests /\ ok \in BOOLEAN /\ valid \in BOOLEAN
  /\ to_controller' = Append(to_controller, Message("response", op, 0, ok, valid))
  /\ operation' \in Operations
  /\ operation'.kind = "none" => Behind(Rest) \/ Rest = << >> \/ s = << >>
  /\ executable' \in {"invalid", "whole"} /\ running' = running /\ installed' \in BOOLEAN
  /\ executable = "whole" => executable' = "whole"
  /\ executable' = "whole" => installed'
  /\ op = "update" /\ ok /\ valid => executable' = "whole"

\* A response is about no block, so nothing can be taken for one behind it.
LEMMA RespondKeeps ==
  ASSUME Sound, Acts, NEW s, NEW op, NEW ok, NEW valid, Responds(s, op, ok, valid)
  PROVE  Sound'
<1> DEFINE m == Message("response", op, 0, ok, valid)
<1>1. m \in Messages /\ Block(m, "request") = 0 /\ (ToldValid(m) => op = "update" /\ ok /\ valid)
  BY ResponseFacts DEF Responds
<1> HIDE DEF m
<1>2. to_controller' = Append(to_controller, m)
  BY DEF m, Responds
<1>3. Line' = Append(Rest, 0) /\ to_controller' \in Seq(Messages)
  BY <1>1, <1>2, LineGrows DEF Sound
<1>4. /\ LastBlockLast(Line') /\ Line' # << >> /\ Line'[Len(Line')] = 0
      /\ Behind(Rest) \/ Rest = << >> => Behind(Line')
  BY <1>3, Appended, ConstantsAssumption DEF Acts, Locations
<1>5. /\ stack' \in Seq(Frames) /\ Len(stack') = Len(s)
      /\ \A i \in 1 .. Len(s) : stack'[i].had = s[i].had /\ stack'[i].step = s[i].step
      /\ s # << >> => stack'[Len(s)].woken
      /\ s = << >> => stack' = << >>
  BY WakeFacts DEF Responds
<1>6. TypeOK'
  BY <1>3, <1>5 DEF Sound, TypeOK, Acts, controller_vars, Responds
<1>7. SawWhole'
  <2>1. Len(s) \in Nat /\ Depth \in Nat
    BY DEF Sound, TypeOK, Depth, Responds
  <2> QED
    BY <1>5, <2>1 DEF Sound, SawWhole, Depth, InCheck, Responds
<1>8. Depth' > 0 => Top'.woken
  BY <1>5 DEF Depth, Top
<1>9. InService'
  BY <1>4, <1>5, <1>8 DEF InService, OperationLive, Waits, OwnLast, ResumesBehind, OutdatedStops, Depth, Responds
<1>10. ValidIsTrue'
  BY <1>1, <1>2, ToldKeeps DEF Sound, Acts, controller_vars, Responds
<1> QED
  BY <1>6, <1>7, <1>9, <1>10 DEF Sound

\* The stack without the handler on top.
LEMMA PopFacts ==
  ASSUME stack \in Seq(Frames), Depth > 0
  PROVE  /\ Depth \in Nat /\ Depth = Len(stack) /\ Top \in Frames
         /\ Pop \in Seq(Frames) /\ Len(Pop) = Depth - 1 /\ \A i \in 1 .. Depth - 1 : Pop[i] = stack[i]
<1>1. Depth \in Nat /\ Depth = Len(stack) /\ Top = stack[Depth] /\ Top \in Frames
  BY DEF Depth, Top
<1> DEFINE n == Depth - 1
<1>2. n \in Nat /\ n <= Len(stack) /\ Pop = SubSeq(stack, 1, n)
  BY <1>1 DEF Pop
<1> HIDE DEF n
<1>3. /\ SubSeq(stack, 1, n) \in Seq(Frames) /\ Len(SubSeq(stack, 1, n)) = n
      /\ \A i \in 1 .. n : SubSeq(stack, 1, n)[i] = stack[i]
  BY <1>2
<1> QED
  BY <1>1, <1>2, <1>3 DEF n

\* A wait that fails.
LEMMA FailKeeps ==
  ASSUME Sound, Acts, Depth > 0, HandlerFails, running' = running,
         operation.kind = "none" => Top.woken /\ Rest = Line
  PROVE  Sound'
<1>1. stack \in Seq(Frames)
  BY DEF Sound, TypeOK
<1>2. /\ Depth \in Nat /\ Top \in Frames /\ Pop \in Seq(Frames) /\ Len(Pop) = Depth - 1
      /\ \A i \in 1 .. Len(Pop) : Pop[i] = stack[i]
  BY <1>1, PopFacts
<1>3. Top.request \in Requests
  BY <1>2 DEF Frames, Requests
<1>4. /\ stack' = Wake(Pop) /\ to_controller' = Append(to_controller, Message("response", Top.request, 0, FALSE, FALSE))
      /\ operation' = operation /\ executable' = executable /\ installed' = installed
  BY DEF HandlerFails, Return, Respond
<1>5. operation.kind = "none" => Behind(Rest)
  BY DEF Sound, InService, ResumesBehind, Acts
<1>6. /\ operation \in Operations /\ executable \in {"invalid", "whole"} /\ installed \in BOOLEAN
      /\ executable = "whole" => installed
  BY DEF Sound, TypeOK, ValidIsTrue
<1>7. Responds(Pop, Top.request, FALSE, FALSE)
  BY <1>1, <1>2, <1>3, <1>4, <1>5, <1>6 DEF Responds
<1> QED
  BY <1>7, RespondKeeps

\* A request that needs no wait.
LEMMA RespondNowKeeps ==
  ASSUME Sound, Acts, NEW op \in Requests, NEW valid \in BOOLEAN, RespondNow(op, valid),
         op # "update", Depth > 0 => ~Top.woken
  PROVE  Sound'
<1>1. stack \in Seq(Frames) /\ Depth \in Nat /\ Depth = Len(stack)
  BY DEF Sound, TypeOK, Depth
<1>2. /\ stack' = Wake(stack) /\ to_controller' = Append(to_controller, Message("response", op, 0, TRUE, valid))
      /\ operation' = operation /\ executable' = executable /\ installed' = installed /\ running' = running
  BY DEF RespondNow, Respond
<1>3. operation.kind = "none" => stack = << >>
  BY <1>1 DEF Sound, InService, OperationLive, Waits, IsLive, Acts
<1>4. /\ operation \in Operations /\ executable \in {"invalid", "whole"} /\ installed \in BOOLEAN
      /\ executable = "whole" => installed
  BY DEF Sound, TypeOK, ValidIsTrue
<1>5. Responds(stack, op, TRUE, valid)
  BY <1>1, <1>2, <1>3, <1>4 DEF Responds
<1> QED
  BY <1>5, RespondKeeps
\* The handler on top of s asks for what it waits for next.
Asks(s) ==
  /\ s \in Seq(Frames) /\ s # << >> /\ ~s[Len(s)].woken
  /\ Ask(s, to_controller) /\ running' = running
  /\ Rest # << >> => Rest[Len(Rest)] # Blocks \/ Plan[s[Len(s)].step] = 0
  /\ executable' \in {"invalid", "whole"} /\ installed' \in BOOLEAN
  /\ executable = "whole" => executable' = "whole"
  /\ executable' = "whole" => installed'
  /\ \A i \in 1 .. Len(s) : s[i].had = "whole" => executable' = "whole" /\ InCheck(s[i].step)
  /\ executable' = "whole" /\ s[Len(s)].had = "invalid" =>
       Plan[s[Len(s)].step] # 0 /\ Behind(Rest)

\* A request is for the block of the step, which the handler then waits for.
LEMMA AskKeeps ==
  ASSUME Sound, Acts, NEW s, Asks(s)
  PROVE  Sound'
<1> DEFINE f == s[Len(s)]
           kind == IF Plan[f.step] = 0 THEN "storage" ELSE "read"
           place == IF f.lost THEN 0 ELSE Plan[f.step]
           m == Message("request", kind, place, FALSE, FALSE)
<1>0. Len(s) \in Nat /\ Len(s) > 0 /\ f \in Frames
  BY DEF Asks
<1>1. f.step \in 1 .. Len(Plan) /\ f.lost \in BOOLEAN
  BY <1>0 DEF Frames
<1>2. Plan[f.step] \in Locations /\ 0 \in Locations
  BY <1>1, PlanFacts, ConstantsAssumption DEF Locations
<1> HIDE DEF f
<1>3. m \in Messages /\ ~ToldValid(m) /\ (Block(m, "request") = 0 \/ Block(m, "request") = Plan[f.step])
  BY <1>1, <1>2 DEF Message, Messages, ToldValid, Block
<1>4. /\ stack' = s /\ operation' = [kind |-> kind, depth |-> Len(s), step |-> f.step]
      /\ to_controller' = Append(to_controller, m)
  BY DEF Asks, Ask, f
<1> HIDE DEF m
<1>5. Line' = Append(Rest, Block(m, "request")) /\ to_controller' \in Seq(Messages) /\ Block(m, "request") \in Locations
  BY <1>3, <1>4, LineGrows DEF Sound
<1>6. Rest # << >> => Rest[Len(Rest)] # Blocks \/ Block(m, "request") = 0
  BY <1>3 DEF Asks, f
<1>7. /\ LastBlockLast(Line') /\ Line' # << >> /\ Line'[Len(Line')] = Block(m, "request")
      /\ Behind(Rest) => Behind(Line')
  BY <1>5, <1>6, Appended DEF Acts
<1>8. operation' \in Operations
  BY <1>0, <1>1, <1>4, PlanFacts DEF Operations
<1>9. TypeOK'
  BY <1>4, <1>5, <1>8 DEF Sound, TypeOK, Acts, Asks, controller_vars
<1>10. Depth' = Len(s) /\ Top' = f
  BY <1>4 DEF Depth, Top, f
<1>11. SawWhole'
  BY <1>4, <1>10 DEF SawWhole, Asks, InCheck
<1>12. OperationLive'
  BY <1>0, <1>1, <1>4, <1>10 DEF OperationLive, IsLive
<1>13. OwnLast'
  BY <1>3, <1>7, <1>10 DEF OwnLast, Asks, f
<1>14. ResumesBehind' /\ OutdatedStops'
  BY <1>7, <1>10 DEF ResumesBehind, OutdatedStops, Outdated, Asks, f
<1>15. InService'
  BY <1>7, <1>12, <1>13, <1>14 DEF InService
<1>16. ValidIsTrue'
  BY <1>3, <1>4, ToldKeeps DEF Sound, Acts, controller_vars, Asks
<1> QED
  BY <1>9, <1>11, <1>15, <1>16 DEF Sound

\* get_update_metadata and update, served while another handler waits or not.
LEMMA StartKeeps ==
  ASSUME Sound, Acts, NEW op \in {"update", "update_metadata"}, StartHandler(op)
  PROVE  Sound'
<1> DEFINE f == [request |-> op, step |-> 1, had |-> executable, lost |-> FALSE,
                 garbled |-> FALSE, woken |-> FALSE]
           s == Append(stack, f)
<1>1. stack \in Seq(Frames) /\ executable \in {"invalid", "whole"} /\ installed \in BOOLEAN
  BY DEF Sound, TypeOK
<1>2. f \in Frames /\ f.step = 1 /\ ~f.woken /\ f.had = executable
  BY <1>1, PlanFacts DEF Frames
<1>3. Ask(s, to_controller) /\ executable' = executable /\ installed' = installed /\ running' = running
  BY DEF StartHandler
<1> HIDE DEF f
<1>4. /\ s \in Seq(Frames) /\ Len(s) = Len(stack) + 1 /\ Len(stack) \in Nat /\ s # << >>
      /\ s[Len(s)] = f /\ \A i \in 1 .. Len(stack) : s[i] = stack[i]
  BY <1>1, <1>2
<1> HIDE DEF s
<1>5. Plan[1] = 0 /\ InCheck(1)
  BY PlanFacts DEF InCheck
<1>6. \A i \in 1 .. Len(s) : s[i].had = "whole" => executable' = "whole" /\ InCheck(s[i].step)
  <2> SUFFICES ASSUME NEW i \in 1 .. Len(s), s[i].had = "whole"
               PROVE  executable' = "whole" /\ InCheck(s[i].step)
    OBVIOUS
  <2>1. CASE i \in 1 .. Len(stack)
    BY <1>3, <1>4, <2>1 DEF Sound, SawWhole, Depth
  <2>2. CASE i = Len(stack) + 1
    BY <1>2, <1>3, <1>4, <1>5, <2>2
  <2> QED
    BY <1>4, <2>1, <2>2
<1>7. Asks(s)
  BY <1>1, <1>2, <1>3, <1>4, <1>5, <1>6 DEF Asks, Sound, ValidIsTrue
<1> QED
  BY <1>7, AskKeeps
\* The handler f on top of the stack has what it waited for: a frame of the line with the block
\* that it asked for, or its storage; or another handler has ended well in its wait.
HasAnswer(f) ==
  /\ Depth > 0 /\ f \in Frames /\ ~f.woken
  /\ f.had = Top.had /\ f.step = Top.step /\ f.request = Top.request
  /\ \/ /\ Plan[f.step] # 0 /\ Waits
        /\ Line # << >> /\ Line[1] = Plan[f.step]
        /\ Line[1] = Blocks /\ Rest # << >> => Behind(Rest)
     \/ Plan[f.step] = 0 /\ Waits
     \/ Plan[f.step] = 0 /\ Top.woken /\ operation.kind = "none" /\ Rest = Line

\* A handler that writes to a whole executable does not get what it waits for.
LEMMA WritesUnlessWhole ==
  ASSUME Sound, Acts, NEW f, HasAnswer(f), Plan[f.step] # 0 \/ Waits, f.had = "invalid"
  PROVE  executable = "invalid"
<1>1. executable \in {"invalid", "whole"}
  BY DEF Sound, TypeOK
<1>2. ASSUME executable = "whole" PROVE FALSE
  <2>1. Waits /\ Outdated(Top) /\ f.step = Top.step
    BY <1>2 DEF HasAnswer, Outdated
  <2>2. Plan[Top.step] # 0 /\ Behind(Line)
    BY <2>1 DEF Sound, InService, OutdatedStops, Acts
  <2> QED
    BY <2>1, <2>2 DEF HasAnswer, Behind, Waits
<1> QED
  BY <1>1, <1>2

\* A handler that has what it asked for writes only to an executable that is not whole.
LEMMA ContinueKeeps ==
  ASSUME Sound, Acts, NEW f, HasAnswer(f), Continue(f), running' = running
  PROVE  Sound' /\ (executable = "whole" => executable' = "whole")
<1> DEFINE last == f.step = Len(CheckPlan)
           wrote == ~InCheck(f.step) /\ Plan[f.step] # 0
           whole == wrote /\ f.step = Len(Plan) /\ ~f.garbled
           ends == (last /\ (f.request = "update_metadata" \/ IsInstalled(f))) \/ f.step = Len(Plan)
           above == [stack EXCEPT ![Depth] = [f EXCEPT !.step = @ + 1]]
<1>1. /\ stack \in Seq(Frames) /\ executable \in {"invalid", "whole"} /\ installed \in BOOLEAN
      /\ executable = "whole" => installed
  BY DEF Sound, TypeOK, ValidIsTrue
<1>2. /\ Depth \in Nat /\ Depth > 0 /\ Depth = Len(stack) /\ Top \in Frames /\ Top = stack[Depth]
      /\ Pop \in Seq(Frames) /\ Len(Pop) = Depth - 1 /\ \A i \in 1 .. Depth - 1 : Pop[i] = stack[i]
  BY <1>1, PopFacts DEF HasAnswer, Top
<1>3. f \in Frames /\ f.step \in 1 .. Len(Plan) /\ f.had \in {"invalid", "whole"} /\ f.request \in {"update_metadata", "update"}
  BY DEF HasAnswer, Frames
<1>4. f.had = "whole" => executable = "whole" /\ InCheck(f.step)
  BY <1>2 DEF Sound, SawWhole, HasAnswer
<1>5. /\ executable' = IF whole THEN "whole" ELSE IF wrote THEN "invalid" ELSE executable
      /\ installed' = (installed \/ whole)
      /\ ends => Return(TRUE, last \/ whole) /\ operation' = NoOperation
      /\ ~ends => Ask(above, to_controller)
  BY DEF Continue
<1> HIDE DEF above
<1>6. wrote => executable = "invalid"
  BY <1>3, <1>4, WritesUnlessWhole
<1>7. /\ executable = "whole" => executable' = "whole"
      /\ executable' \in {"invalid", "whole"} /\ installed' \in BOOLEAN
      /\ executable' = "whole" => installed'
  BY <1>1, <1>5, <1>6
<1>8. CASE ends
  <2>1. last => Plan[f.step] = Blocks
    BY <1>3, PlanFacts
  <2>2. Plan[f.step] = Blocks /\ Blocks # 0
    BY <1>3, <1>8, <2>1, PlanFacts, ConstantsAssumption
  <2>3. Behind(Rest) \/ Rest = << >>
    BY <2>2 DEF HasAnswer
  <2>4. f.request = "update" /\ (last \/ whole) => executable' = "whole"
    <3>1. CASE whole
      BY <1>5, <3>1
    <3>2. CASE ~whole /\ last
      <4>1. f.step # Len(Plan) /\ InCheck(f.step)
        BY <3>2, PlanFacts DEF InCheck
      <4>2. f.request = "update" => f.had = "whole"
        BY <1>8, <4>1 DEF IsInstalled
      <4> QED
        BY <1>4, <1>7, <4>2
    <3> QED
      BY <3>1, <3>2
  <2>5. /\ stack' = Wake(Pop) /\ operation' = NoOperation
        /\ to_controller' = Append(to_controller, Message("response", f.request, 0, TRUE, last \/ whole))
    BY <1>5, <1>8 DEF Return, Respond, HasAnswer
  <2>6. NoOperation \in Operations /\ f.request \in Requests
    BY <1>3, PlanFacts DEF NoOperation, Operations, Requests
  <2>7. Responds(Pop, f.request, TRUE, last \/ whole)
    BY <1>2, <1>7, <2>3, <2>4, <2>5, <2>6 DEF Responds
  <2> QED
    BY <1>7, <2>7, RespondKeeps
<1>9. CASE ~ends
  <2> DEFINE g == [f EXCEPT !.step = f.step + 1]
  <2>1. f.step < Len(Plan) /\ f.step + 1 \in 1 .. Len(Plan)
    BY <1>3, <1>9, PlanFacts
  <2>2. g \in Frames /\ g.step = f.step + 1 /\ g.had = f.had /\ ~g.woken
    BY <1>3, <2>1 DEF HasAnswer, Frames
  <2>3. above = [stack EXCEPT ![Depth] = g]
    BY DEF above
  <2> HIDE DEF g
  <2>4. /\ above \in Seq(Frames) /\ Len(above) = Depth /\ above # << >> /\ above[Len(above)] = g
        /\ \A i \in 1 .. Depth - 1 : above[i] = stack[i]
    BY <1>1, <1>2, <2>2, <2>3
  <2>5. Rest # << >> => Rest[Len(Rest)] # Blocks \/ Plan[g.step] = 0
    <3>1. Rest # << >> => Rest[Len(Rest)] = 0 \/ Rest[Len(Rest)] = Plan[f.step]
      BY DEF Sound, InService, Acts, OwnLast, HasAnswer
    <3>2. Blocks # 0
      BY ConstantsAssumption
    <3>3. Plan[f.step] = Blocks => Plan[f.step + 1] = 0
      BY <1>3, <2>1, PlanFacts
    <3> QED
      BY <2>2, <3>1, <3>2, <3>3
  <2>6. g.had = "whole" => executable' = "whole" /\ InCheck(g.step)
    <3>1. ASSUME f.had = "whole", last PROVE FALSE
      BY <1>9, <3>1 DEF IsInstalled
    <3> QED
      BY <1>3, <1>4, <1>7, <2>2, <3>1, PlanFacts DEF InCheck
  <2>7. \A i \in 1 .. Len(above) : above[i].had = "whole" => executable' = "whole" /\ InCheck(above[i].step)
    <3> SUFFICES ASSUME NEW i \in 1 .. Len(above), above[i].had = "whole"
                 PROVE  executable' = "whole" /\ InCheck(above[i].step)
      OBVIOUS
    <3>1. CASE i \in 1 .. Depth - 1
      BY <1>2, <1>7, <2>4, <3>1 DEF Sound, SawWhole
    <3>2. CASE i = Depth
      BY <2>4, <2>6, <3>2
    <3> QED
      BY <1>2, <2>4, <3>1, <3>2
  <2>8. ASSUME executable' = "whole", g.had = "invalid" PROVE Plan[g.step] # 0 /\ Behind(Rest)
    <3>1. ~whole
      BY <1>9
    <3>2. executable = "whole"
      BY <1>1, <1>5, <2>8, <3>1
    <3>3. ~(Plan[f.step] # 0 \/ Waits)
      BY <1>3, <2>2, <2>8, <3>2, WritesUnlessWhole
    <3>4. Plan[f.step] = 0 /\ Top.woken /\ operation.kind = "none" /\ Rest = Line
      BY <3>3 DEF HasAnswer
    <3>5. Behind(Line)
      BY <1>2, <3>4 DEF Sound, InService, ResumesBehind, Acts
    <3>6. Plan[f.step + 1] # 0
      BY <1>3, <3>4, PlanFacts
    <3> QED
      BY <2>2, <3>4, <3>5, <3>6
  <2>9. Asks(above)
    BY <1>5, <1>7, <1>9, <2>2, <2>4, <2>5, <2>7, <2>8 DEF Asks
  <2> QED
    BY <1>7, <2>9, AskKeeps
<1> QED
  BY <1>8, <1>9
\* A frame that changes nothing but the line, or ends the boot loader.
LEMMA StillKeeps ==
  ASSUME Sound, Acts, running' \in {"boot", "application", "wild"}, running' = "boot" => Depth = 0,
         UNCHANGED << to_controller, stack, operation, executable, installed >>
  PROVE  Sound'
<1>1. TypeOK' /\ SawWhole' /\ ValidIsTrue'
  BY DEF Sound, TypeOK, SawWhole, ValidIsTrue, Acts, controller_vars, Depth, ToldValid, InCheck
<1>2. Line' = Rest
  BY DEF Line, Rest, Acts, controller_vars
<1>3. ASSUME Depth = 0 PROVE Depth' = 0
  BY <1>3 DEF Depth
<1>4. InService'
  BY <1>2, <1>3 DEF InService, OperationLive, Waits, OwnLast, ResumesBehind, OutdatedStops, Acts
<1> QED
  BY <1>1, <1>4 DEF Sound

\* A request is served: fd_boot_split_peripheral_dispatch_process.
LEMMA ServeKeeps ==
  ASSUME Sound, Acts, NEW op \in Requests \cup {"storage", "read", "none"}, Serve(op),
         Depth > 0 => ~Top.woken
  PROVE  Sound' /\ executable' = executable
<1>1. CASE op \in {"update", "update_metadata"} /\ StartHandler(op)
  BY <1>1, StartKeeps DEF StartHandler
<1>2. CASE op = "identity" /\ get_identity
  BY <1>2, RespondNowKeeps DEF get_identity, RespondNow, Requests
<1>3. CASE op = "executable_metadata" /\ get_executable_metadata
  BY <1>3, RespondNowKeeps DEF get_executable_metadata, RespondNow, Requests
<1>4. CASE op = "execute" /\ executable = "invalid" /\ RespondNow("execute", FALSE)
  BY <1>4, RespondNowKeeps DEF RespondNow, Requests
<1>5. CASE /\ executable = "whole" /\ running' = "application"
           /\ UNCHANGED << to_controller, stack, operation, executable, installed >>
  BY <1>5, StillKeeps
<1> QED
  BY <1>1, <1>2, <1>3, <1>4, <1>5 DEF Serve, execute

\* A response reaches the handler that operation names, or is stored through a dangling pointer.
LEMMA AcceptKeeps ==
  ASSUME Sound, Acts, NEW m \in Messages, m.type = "response", Accept(m),
         Depth > 0 => ~Top.woken,
         Line # << >>, Line[1] = Block(m, "response"), Line[1] = Blocks /\ Rest # << >> => Behind(Rest)
  PROVE  Sound' /\ (executable = "whole" => executable' = "whole")
<1>1. OperationLive /\ running = "boot" /\ stack \in Seq(Frames)
  BY DEF Sound, InService, Acts, TypeOK
<1>2. Depth \in Nat /\ Depth = Len(stack)
  BY <1>1 DEF Depth
<1>3. CASE /\ operation.kind = "none" /\ stack' = Wake(stack)
           /\ UNCHANGED << to_controller, operation, executable, installed, running >>
  <2>1. Depth = 0
    BY <1>1, <1>2, <1>3 DEF OperationLive, Waits, IsLive
  <2>2. stack = << >> /\ stack' = stack
    <3>1. stack = << >>
      BY <1>1, <1>2, <2>1, EmptySeq
    <3> QED
      BY <1>3, <3>1 DEF Wake
  <2> QED
    BY <1>1, <1>3, <2>1, <2>2, StillKeeps
<1>4. CASE /\ running' = "wild"
           /\ UNCHANGED << to_controller, stack, operation, executable, installed >>
  BY <1>4, StillKeeps
<1>5. CASE /\ IsLive /\ operation.kind = m.op /\ UNCHANGED running
           /\ IF m.op = "storage" THEN Continue([Top EXCEPT !.lost = FALSE])
              ELSE IF IsBlockAskedFor(m) THEN Continue(Top)
              ELSE HandlerFails
  <2>1. Depth > 0 /\ Waits /\ Top \in Frames /\ operation.kind # "none"
    BY <1>1, <1>2, <1>5, PopFacts DEF IsLive, Waits
  <2>2. operation.kind = IF Plan[Top.step] = 0 THEN "storage" ELSE "read"
    BY <1>1, <2>1 DEF OperationLive
  <2>3. CASE m.op = "storage"
    <3> DEFINE f == [Top EXCEPT !.lost = FALSE]
    <3>1. /\ f \in Frames /\ f.woken = Top.woken /\ f.had = Top.had /\ f.step = Top.step
          /\ f.request = Top.request /\ Plan[Top.step] = 0
      BY <1>5, <2>1, <2>2, <2>3 DEF Frames
    <3>2. Continue(f)
      BY <1>5, <2>3
    <3> HIDE DEF f
    <3>3. HasAnswer(f)
      BY <2>1, <3>1 DEF HasAnswer, Waits
    <3> QED
      BY <1>5, <3>2, <3>3, ContinueKeeps
  <2>4. CASE m.op # "storage" /\ IsBlockAskedFor(m)
    <3>1. Plan[Top.step] # 0 /\ m.op = "read" /\ m.location = Plan[Top.step]
      BY <1>5, <2>2, <2>4 DEF IsBlockAskedFor
    <3>2. HasAnswer(Top)
      BY <2>1, <3>1 DEF HasAnswer, Waits, Block
    <3> QED
      BY <1>5, <2>4, <3>2, ContinueKeeps
  <2>5. CASE m.op # "storage" /\ ~IsBlockAskedFor(m)
    <3>1. HandlerFails /\ running' = running
      BY <1>5, <2>5
    <3> QED
      BY <2>1, <3>1, FailKeeps DEF HandlerFails
  <2> QED
    BY <2>3, <2>4, <2>5
<1> QED
  BY <1>3, <1>4, <1>5 DEF Accept

\* fd_boot_split_peripheral_dispatch_process.
LEMMA ReceiveKeeps ==
  ASSUME Sound, PeripheralReceive
  PROVE  Sound' /\ (executable = "whole" => executable' = "whole")
<1> DEFINE m == Head(to_peripheral)
<1>1. TypeOK /\ InService /\ to_peripheral \in Seq(Messages) /\ faults \in 0 .. MaxFaults /\ stack \in Seq(Frames)
  BY DEF Sound, TypeOK
<1>2. /\ running = "boot" /\ to_peripheral # << >> /\ to_peripheral' = Tail(to_peripheral)
      /\ Depth > 0 => ~Top.woken
      /\ PeripheralDispatch(m) /\ UNCHANGED controller_vars /\ faults' = faults
  BY DEF PeripheralReceive
<1>3. /\ Acts /\ Line # << >> /\ Line[1] = Block(m, "response")
      /\ Line[1] = Blocks /\ Rest # << >> => Behind(Rest)
  BY <1>1, <1>2, ActsFacts
<1>4. m \in Messages
  BY <1>1, <1>2
<1> HIDE DEF m
<1>5. CASE m.type = "bad" /\ UNCHANGED running /\ Depth > 0 /\ HandlerFails
  <2>1. operation.kind # "none"
    BY <1>1, <1>2, <1>5 DEF InService, OperationLive, Waits, IsLive
  <2> QED
    BY <1>3, <1>5, <2>1, FailKeeps DEF HandlerFails
<1>6. CASE /\ UNCHANGED running /\ ~(Depth > 0)
           /\ UNCHANGED << to_controller, stack, operation, executable, installed >>
  <2>1. Depth = 0
    BY <1>1, <1>6 DEF Depth
  <2> QED
    BY <1>2, <1>3, <1>6, <2>1, StillKeeps
<1>7. CASE m.type = "request" /\ Serve(m.op)
  BY <1>2, <1>3, <1>4, <1>7, ServeKeeps DEF Messages
<1>8. CASE m.type = "response" /\ Accept(m)
  BY <1>2, <1>3, <1>4, <1>8, AcceptKeeps
<1> QED
  BY <1>2, <1>5, <1>6, <1>7, <1>8 DEF PeripheralDispatch

\* The dispatch of a handler that waits has served something else.
LEMMA WokenKeeps ==
  ASSUME Sound, Woken
  PROVE  Sound' /\ (executable = "whole" => executable' = "whole")
<1>1. TypeOK /\ InService /\ to_peripheral \in Seq(Messages) /\ faults \in 0 .. MaxFaults /\ stack \in Seq(Frames)
  BY DEF Sound, TypeOK
<1>2. /\ running = "boot" /\ Depth > 0 /\ Top.woken /\ running' = running
      /\ to_peripheral' = to_peripheral /\ UNCHANGED controller_vars /\ faults' = faults
  BY DEF Woken
<1>3. Acts /\ Rest = Line
  BY <1>1, <1>2, ActsFacts
<1>4. Top \in Frames
  BY <1>1, <1>2, PopFacts
<1>5. CASE HandlerFails
  BY <1>2, <1>3, <1>5, FailKeeps DEF HandlerFails
<1>6. ASSUME operation.kind = "none", Plan[Top.step] = 0, NEW lost \in BOOLEAN, NEW garbled \in BOOLEAN,
             Continue([[Top EXCEPT !.woken = FALSE] EXCEPT !.lost = lost, !.garbled = garbled])
      PROVE  Sound' /\ (executable = "whole" => executable' = "whole")
  <2> DEFINE f == [[Top EXCEPT !.woken = FALSE] EXCEPT !.lost = lost, !.garbled = garbled]
  <2>1. f \in Frames /\ ~f.woken /\ f.had = Top.had /\ f.step = Top.step /\ f.request = Top.request
    BY <1>4 DEF Frames
  <2>2. Continue(f)
    BY <1>6
  <2> HIDE DEF f
  <2>3. HasAnswer(f)
    BY <1>2, <1>3, <1>6, <2>1 DEF HasAnswer
  <2> QED
    BY <1>2, <1>3, <2>2, <2>3, ContinueKeeps
<1>7. Top.step = [Top EXCEPT !.woken = FALSE].step
  BY <1>4 DEF Frames
<1>8. (~InCheck(Top.step)) \in BOOLEAN
  OBVIOUS
<1> QED
  BY <1>5, <1>6, <1>7, <1>8 DEF Woken

\* A wait that gives up leaves the executable as it is.
LEMMA TimeoutKeeps ==
  ASSUME Sound, PeripheralTimeout
  PROVE  Sound' /\ executable' = executable
<1>1. TypeOK /\ InService /\ faults \in Nat /\ MaxFaults \in Nat
  BY ConstantsAssumption DEF Sound, TypeOK
<1>2. /\ running = "boot" /\ Depth > 0 /\ ~Top.woken /\ running' = running /\ HandlerFails
      /\ to_peripheral' = to_peripheral /\ UNCHANGED controller_vars /\ faults' \in 0 .. MaxFaults
  BY <1>1 DEF PeripheralTimeout, Fault
<1>3. Acts /\ operation.kind # "none"
  BY <1>1, <1>2, ActsFacts DEF InService, OperationLive, Waits, IsLive
<1> QED
  BY <1>2, <1>3, FailKeeps DEF HandlerFails
-----------------------------------------------------------------------------
(* What the controller and a damaged byte do to the line: some frames are  *)
(* no longer about a block, it is cut behind such a frame, or a frame that *)
(* is about no block follows.                                              *)

Fades(line, faded) ==
  /\ faded \in Seq(Locations)
  /\ line # << >> => faded # << >>
  /\ \A i \in 1 .. Len(faded) : faded[i] = 0 \/ (i <= Len(line) /\ faded[i] = line[i])
  /\ faded # << >> => faded[Len(faded)] = 0 \/ Len(faded) = Len(line)

\* A line with fewer blocks on it is no danger.
LEMMA FadesKeeps ==
  ASSUME TypeOK, InService, UNCHANGED peripheral_vars, Fades(Line, Line')
  PROVE  InService'
<1> DEFINE a == Line
           b == Line'
<1>1. a \in Seq(Locations) /\ b \in Seq(Locations) /\ Fades(a, b)
  BY LineShape DEF TypeOK, Line, LineIs, Fades
<1>2. UNCHANGED << stack, operation, executable, running, installed >>
  BY DEF peripheral_vars
<1> SUFFICES ASSUME running = "boot" PROVE InService'
  BY <1>2 DEF InService
<1>3. OperationLive /\ LastBlockLast(a) /\ OwnLast /\ ResumesBehind /\ OutdatedStops
  BY DEF InService
<1>4. Behind(Line) => Behind(Line')
  BY <1>1 DEF Behind, Fades
<1>5. OperationLive'
  BY <1>2, <1>3 DEF OperationLive, Waits, IsLive, Depth, Top
<1>6. OwnLast'
  <2>1. OwnLast
    BY <1>3
  <2>2. a # << >> /\ Depth > 0 => a[Len(a)] = 0 \/ (~Top.woken /\ a[Len(a)] = Plan[Top.step])
    BY <2>1 DEF OwnLast
  <2>3. b # << >> => b[Len(b)] = 0 \/ (a # << >> /\ b[Len(b)] = a[Len(a)])
    BY <1>1 DEF Fades
  <2>4. b # << >> /\ Depth > 0 => b[Len(b)] = 0 \/ (~Top.woken /\ b[Len(b)] = Plan[Top.step])
    BY <2>2, <2>3
  <2> QED
    BY <1>2, <2>4 DEF OwnLast, Depth, Top
<1>7. ResumesBehind' /\ OutdatedStops'
  BY <1>2, <1>3, <1>4 DEF ResumesBehind, OutdatedStops, Outdated, Waits, Depth, Top
<1>8. LastBlockLast(b)
  <2> SUFFICES ASSUME NEW i \in 1 .. Len(b) - 1, b[i] = Blocks PROVE b[i + 1] = 0
    BY DEF LastBlockLast
  <2>1. Len(a) \in Nat /\ Len(b) \in Nat /\ Blocks # 0 /\ i \in 1 .. Len(b) /\ i + 1 \in 1 .. Len(b)
    BY <1>1, ConstantsAssumption
  <2>2. i <= Len(a) /\ a[i] = Blocks
    BY <1>1, <2>1 DEF Fades
  <2>3. b[i + 1] = 0 \/ (i + 1 <= Len(a) /\ b[i + 1] = a[i + 1])
    BY <1>1, <2>1 DEF Fades
  <2> QED
    BY <1>3, <2>1, <2>2, <2>3 DEF LastBlockLast
<1> QED
  BY <1>5, <1>6, <1>7, <1>8 DEF InService

\* The controller takes a frame, and answers it, sends a request, or ends.
LEMMA TakesFades ==
  ASSUME NEW per, per \in Seq(Messages), NEW con, con \in Seq(Messages), con # << >>,
         NEW per2, per2 \in Seq(Messages), NEW state,
         Sent(per2, state) = Len(per) + 1,
         Len(per) <= Len(per2), \A i \in 1 .. Len(per) : per2[i] = per[i],
         Len(per2) = Len(per) + 1 =>
           Block(per2[Len(per) + 1], "response") \in {0, Block(Head(con), "request")}
  PROVE  Fades(LineOf(per, "waiting", con), LineOf(per2, state, Tail(con)))
<1> DEFINE n == Len(per)
           c == Len(con)
           a == LineOf(per, "waiting", con)
           b == LineOf(per2, state, Tail(con))
<1>1. n \in Nat /\ c \in Nat \ {0} /\ Sent(per, "waiting") = n /\ Sent(per2, state) = n + 1
  BY DEF Sent
<1>2. /\ Tail(con) \in Seq(Messages) /\ Len(Tail(con)) = c - 1 /\ Head(con) = con[1]
      /\ \A i \in 1 .. c - 1 : Tail(con)[i] = con[i + 1]
  OBVIOUS
<1>3. LineIs(a, per, con, n) /\ LineIs(b, per2, Tail(con), n + 1)
  BY <1>1, <1>2, LineShape
<1> HIDE DEF a, b
<1>4. a \in Seq(Locations) /\ Len(a) = n + c /\ b \in Seq(Locations) /\ Len(b) = n + c
  BY <1>1, <1>2, <1>3 DEF LineIs
<1>5. ASSUME NEW i \in 1 .. n PROVE b[i] = a[i]
  <2>1. a[i] = Block(per[i], "response")
    BY <1>3 DEF LineIs
  <2>2. i \in 1 .. Len(per2) /\ per2[i] = per[i]
    OBVIOUS
  <2>3. b[i] = Block(per2[i], "response")
    BY <1>3, <2>2 DEF LineIs
  <2> QED
    BY <2>1, <2>2, <2>3
<1>6. b[n + 1] = 0 \/ b[n + 1] = a[n + 1]
  <2>1. n + 1 \in n + 1 .. n + c /\ (n + 1) - n = 1
    BY <1>1
  <2>2. a[n + 1] = Block(con[1], "request")
    BY <1>3, <2>1 DEF LineIs
  <2>3. CASE Len(per2) = n + 1
    BY <1>1, <1>2, <1>3, <2>2, <2>3 DEF LineIs
  <2>4. CASE Len(per2) # n + 1
    <3>1. Len(per2) = n
      BY <1>1, <1>3, <2>4 DEF LineIs
    <3> QED
      BY <1>1, <1>3, <3>1 DEF LineIs
  <2> QED
    BY <2>3, <2>4
<1>7. ASSUME NEW i \in n + 2 .. n + c PROVE b[i] = a[i]
  <2>1. i \in n + 1 .. n + c /\ i - n \in 2 .. c /\ i - (n + 1) \in 1 .. c - 1 /\ (i - (n + 1)) + 1 = i - n
    BY <1>1
  <2>2. a[i] = Block(con[i - n], "request")
    BY <1>3, <2>1 DEF LineIs
  <2>3. b[i] = Block(Tail(con)[i - (n + 1)], "request")
    <3>1. i \in (n + 1) + 1 .. (n + 1) + Len(Tail(con))
      BY <1>1, <1>2
    <3> QED
      BY <1>3, <3>1 DEF LineIs
  <2> QED
    BY <1>2, <2>1, <2>2, <2>3
<1>8. ASSUME NEW i \in 1 .. Len(b) PROVE b[i] = 0 \/ (i <= Len(a) /\ b[i] = a[i])
  <2>1. i \in 1 .. n \/ i = n + 1 \/ i \in n + 2 .. n + c
    BY <1>1, <1>4
  <2> QED
    BY <1>4, <1>5, <1>6, <1>7, <2>1
<1>9. b # << >>
  BY <1>1, <1>4
<1> QED
  BY <1>4, <1>8, <1>9 DEF Fades, a, b

\* The line without a frame for the controller: it sends a request or ends.
LEMMA EndsFades ==
  ASSUME NEW per, per \in Seq(Messages), NEW per2, per2 \in Seq(Messages), NEW state,
         Sent(per2, state) = Len(per) + 1,
         Len(per) <= Len(per2), \A i \in 1 .. Len(per) : per2[i] = per[i],
         Len(per2) = Len(per) + 1 => Block(per2[Len(per) + 1], "response") = 0
  PROVE  Fades(LineOf(per, "waiting", << >>), LineOf(per2, state, << >>))
<1> DEFINE n == Len(per)
           a == LineOf(per, "waiting", << >>)
           b == LineOf(per2, state, << >>)
<1>1. n \in Nat /\ Sent(per, "waiting") = n /\ Sent(per2, state) = n + 1 /\ Len(per2) \in Nat
  BY DEF Sent
<1>2. << >> \in Seq(Messages) /\ Len(<< >>) = 0
  OBVIOUS
<1>3. LineIs(a, per, << >>, n) /\ LineIs(b, per2, << >>, n + 1)
  BY <1>1, <1>2, LineShape
<1> HIDE DEF a, b
<1>4. a \in Seq(Locations) /\ Len(a) = n /\ b \in Seq(Locations) /\ Len(b) = n + 1
  BY <1>1, <1>2, <1>3 DEF LineIs
<1>5. \A i \in 1 .. n : b[i] = a[i]
  <2> SUFFICES ASSUME NEW i \in 1 .. n PROVE b[i] = a[i]
    OBVIOUS
  <2>1. a[i] = Block(per[i], "response")
    BY <1>3 DEF LineIs
  <2>2. i \in 1 .. Len(per2) /\ per2[i] = per[i]
    BY <1>1
  <2>3. b[i] = Block(per2[i], "response")
    BY <1>3, <2>2 DEF LineIs
  <2> QED
    BY <2>1, <2>2, <2>3
<1>6. b[n + 1] = 0
  <2>1. CASE Len(per2) = n + 1
    BY <1>1, <1>3, <2>1 DEF LineIs
  <2>2. CASE Len(per2) # n + 1
    <3>1. Len(per2) = n
      BY <1>1, <1>3, <2>2 DEF LineIs
    <3> QED
      BY <1>1, <1>3, <3>1 DEF LineIs
  <2> QED
    BY <2>1, <2>2
<1>7. ASSUME NEW i \in 1 .. Len(b) PROVE b[i] = 0 \/ (i <= Len(a) /\ b[i] = a[i])
  BY <1>1, <1>4, <1>5, <1>6
<1> QED
  BY <1>1, <1>4, <1>6, <1>7 DEF Fades, a, b
\* The frames that were not touched keep their place; those for the controller may be lost
\* behind a place that is about no block.
LEMMA PlacesFade ==
  ASSUME NEW a, NEW b, NEW per, NEW con, NEW per2, NEW con2, NEW n,
         LineIs(a, per, con, n), LineIs(b, per2, con2, n),
         con \in Seq(Messages), con2 \in Seq(Messages),
         \A i \in 1 .. n : b[i] = 0 \/ b[i] = a[i],
         \/ /\ Len(con2) = Len(con)
            /\ \A i \in 1 .. Len(con) :
                 Block(con2[i], "request") = 0 \/ Block(con2[i], "request") = Block(con[i], "request")
         \/ con2 = << >> /\ n > 0 /\ b[n] = 0
  PROVE  Fades(a, b)
<1>1. /\ n \in Nat /\ Len(con) \in Nat /\ Len(con2) \in Nat /\ a \in Seq(Locations) /\ b \in Seq(Locations)
      /\ Len(a) = n + Len(con) /\ Len(b) = n + Len(con2)
  BY DEF LineIs
<1>0. con2 = << >> => Len(con2) = 0
  OBVIOUS
<1>2. ASSUME NEW i \in 1 .. Len(b) PROVE b[i] = 0 \/ (i <= Len(a) /\ b[i] = a[i])
  <2>1. CASE i \in 1 .. n
    BY <1>1, <2>1
  <2>2. CASE i \in n + 1 .. n + Len(con2)
    <3>0. i - n \in 1 .. Len(con2) /\ ~(con2 = << >>)
      BY <1>0, <1>1, <2>2
    <3>1. i - n \in 1 .. Len(con2) /\ Len(con2) = Len(con)
      BY <3>0
    <3>2. b[i] = Block(con2[i - n], "request")
      BY <2>2 DEF LineIs
    <3>3. i \in n + 1 .. n + Len(con)
      BY <1>1, <3>1
    <3>4. a[i] = Block(con[i - n], "request")
      BY <3>3 DEF LineIs
    <3>5. \A j \in 1 .. Len(con) :
             Block(con2[j], "request") = 0 \/ Block(con2[j], "request") = Block(con[j], "request")
      BY <3>0
    <3>6. Block(con2[i - n], "request") = 0 \/ Block(con2[i - n], "request") = Block(con[i - n], "request")
      BY <3>1, <3>5
    <3> QED
      BY <1>1, <3>1, <3>2, <3>3, <3>4, <3>6
  <2> QED
    BY <1>1, <2>1, <2>2
<1>3. Len(b) = Len(a) \/ (b[Len(b)] = 0 /\ Len(b) > 0)
  <2>1. CASE con2 = << >> /\ n > 0 /\ b[n] = 0
    <3>1. Len(b) = n
      BY <1>0, <1>1, <2>1
    <3> QED
      BY <2>1, <3>1
  <2>2. CASE Len(con2) = Len(con)
    BY <1>1, <2>2
  <2> QED
    BY <2>1, <2>2
<1> QED
  BY <1>1, <1>2, <1>3 DEF Fades

\* The controller is started again.
LEMMA RestartFades ==
  ASSUME NEW per, per \in Seq(Messages), NEW con, con \in Seq(Messages), NEW con2, con2 \in {con, << >>},
         NEW state, state # "waiting", NEW m \in Messages, Block(m, "response") = 0
  PROVE  Fades(LineOf(per, state, con), LineOf(Append(per, m), "waiting", con2))
<1> DEFINE n == Len(per) + 1
           a == LineOf(per, state, con)
           b == LineOf(Append(per, m), "waiting", con2)
<1>0. /\ Append(per, m) \in Seq(Messages) /\ Len(Append(per, m)) = n /\ n \in Nat /\ n > 0
      /\ \A i \in 1 .. Len(per) : Append(per, m)[i] = per[i]
      /\ Append(per, m)[n] = m
  OBVIOUS
<1>1. Sent(per, state) = n /\ Sent(Append(per, m), "waiting") = n /\ con2 \in Seq(Messages) /\ Len(per) = n - 1
  <2>1. Sent(per, state) = n /\ Sent(Append(per, m), "waiting") = n
    BY <1>0 DEF Sent
  <2>2. con2 \in Seq(Messages)
    BY EmptySeq
  <2>3. Len(per) = n - 1
    BY <1>0
  <2> QED
    BY <2>1, <2>2, <2>3
<1> HIDE DEF n
<1>2. LineIs(a, per, con, n) /\ LineIs(b, Append(per, m), con2, n)
  BY <1>0, <1>1, LineShape
<1> HIDE DEF a, b
<1>3. b[n] = 0
  BY <1>0, <1>2 DEF LineIs
<1>4. \A i \in 1 .. n - 1 : b[i] = a[i]
  BY <1>0, <1>1, <1>2 DEF LineIs
<1>5. \A i \in 1 .. n : b[i] = 0 \/ b[i] = a[i]
  BY <1>0, <1>3, <1>4
<1>6. Fades(a, b)
  <2>1. CASE con2 = con
    BY <1>1, <1>2, <1>5, <2>1, PlacesFade
  <2>2. CASE con2 = << >>
    BY <1>0, <1>1, <1>2, <1>3, <1>5, <2>2, PlacesFade
  <2> QED
    BY <2>1, <2>2
<1> QED
  BY <1>6 DEF a, b

\* A damaged frame.
LEMMA BadFacts == Bad \in Messages /\ Bad.type = "bad"
<1>1. NoMessage \in [type : {"none"}, op : {"none"}, location : {0}, ok : {FALSE}, valid : {FALSE}]
  BY DEF NoMessage
<1>2. Bad \in [type : {"bad"}, op : {"none"}, location : {0}, ok : {FALSE}, valid : {FALSE}]
  BY <1>1 DEF Bad
<1>3. 0 \in Locations
  BY ConstantsAssumption DEF Locations
<1> QED
  BY <1>2, <1>3 DEF Messages

\* The first frame of a line is damaged.
LEMMA DamageFacts ==
  ASSUME NEW line, line \in Seq(Messages), NEW damaged, line # << >>, damaged = << Bad >> \o Tail(line)
  PROVE  /\ damaged \in Seq(Messages) /\ Len(damaged) = Len(line) /\ damaged[1] = Bad
         /\ \A i \in 2 .. Len(line) : damaged[i] = line[i]
         /\ Bad.type = "bad"
         /\ \A t \in {"request", "response"} : Block(Bad, t) = 0
<1>1. Bad \in Messages /\ Bad.type = "bad"
  BY BadFacts
<1>2. \A t \in {"request", "response"} : Block(Bad, t) = 0
  BY <1>1 DEF Block
<1> HIDE DEF Bad
<1>3. /\ Tail(line) \in Seq(Messages) /\ Len(Tail(line)) = Len(line) - 1 /\ Len(line) \in Nat \ {0}
      /\ \A i \in 1 .. Len(line) - 1 : Tail(line)[i] = line[i + 1]
  OBVIOUS
<1>4. << Bad >> \in Seq(Messages) /\ Len(<< Bad >>) = 1 /\ << Bad >>[1] = Bad
  BY <1>1
<1>5. damaged \in Seq(Messages) /\ Len(damaged) = Len(line) /\ damaged[1] = Bad
  BY <1>3, <1>4
<1>6. ASSUME NEW i \in 2 .. Len(line) PROVE damaged[i] = line[i]
  <2>1. i - 1 \in 1 .. Len(line) - 1 /\ (i - 1) + 1 = i
    BY <1>3
  <2>2. damaged[i] = Tail(line)[i - 1]
    BY <1>3, <1>4
  <2> QED
    BY <1>3, <2>1, <2>2
<1> QED
  BY <1>1, <1>2, <1>5, <1>6

\* A damaged frame is about no block.
LEMMA DamageFades ==
  ASSUME NEW per, per \in Seq(Messages), NEW con, con \in Seq(Messages), NEW state,
         NEW per2, NEW con2,
         \/ per # << >> /\ per2 = << Bad >> \o Tail(per) /\ con2 = con
         \/ con # << >> /\ con2 = << Bad >> \o Tail(con) /\ per2 = per
  PROVE  Fades(LineOf(per, state, con), LineOf(per2, state, con2))
<1> DEFINE n == Sent(per, state)
           a == LineOf(per, state, con)
           b == LineOf(per2, state, con2)
<1>1. CASE per # << >> /\ per2 = << Bad >> \o Tail(per) /\ con2 = con
  <2>1. /\ per2 \in Seq(Messages) /\ Len(per2) = Len(per) /\ Block(per2[1], "response") = 0
        /\ \A i \in 2 .. Len(per) : per2[i] = per[i]
    BY <1>1, DamageFacts
  <2>2. Sent(per2, state) = n /\ n \in Nat /\ Len(per) \in Nat \ {0}
    BY <1>1, <2>1 DEF Sent
  <2>3. LineIs(a, per, con, n) /\ LineIs(b, per2, con, n)
    BY <1>1, <2>1, <2>2, LineShape
  <2> HIDE DEF a, b, n
  <2>4. ASSUME NEW i \in 1 .. n PROVE b[i] = 0 \/ b[i] = a[i]
    <3>1. CASE i = 1
      <4>1. 1 \in 1 .. Len(per2)
        BY <2>1, <2>2
      <4>2. b[1] = Block(per2[1], "response")
        BY <2>3, <4>1 DEF LineIs
      <4> QED
        BY <2>1, <3>1, <4>2
    <3>2. CASE i \in 2 .. Len(per)
      <4>1. i \in 1 .. Len(per) /\ i \in 1 .. Len(per2)
        BY <2>1, <2>2, <3>2
      <4> QED
        BY <2>1, <2>3, <3>2, <4>1 DEF LineIs
    <3>3. CASE i \in Len(per) + 1 .. n
      BY <2>1, <2>3, <3>3 DEF LineIs
    <3> QED
      BY <2>2, <3>1, <3>2, <3>3
  <2>5. Fades(a, b)
    BY <1>1, <2>3, <2>4, PlacesFade
  <2> QED
    BY <2>5 DEF a, b
<1>2. CASE con # << >> /\ con2 = << Bad >> \o Tail(con) /\ per2 = per
  <2>1. /\ con2 \in Seq(Messages) /\ Len(con2) = Len(con) /\ Block(con2[1], "request") = 0
        /\ \A i \in 2 .. Len(con) : con2[i] = con[i]
    BY <1>2, DamageFacts
  <2>2. Len(con) \in Nat
    OBVIOUS
  <2>3. LineIs(a, per, con, n) /\ LineIs(b, per, con2, n)
    BY <1>2, <2>1, LineShape
  <2> HIDE DEF a, b, n
  <2>4. ASSUME NEW i \in 1 .. n PROVE b[i] = 0 \/ b[i] = a[i]
    <3>1. n \in Nat /\ Len(per) \in Nat
      BY <2>3 DEF LineIs
    <3>2. CASE i \in 1 .. Len(per)
      BY <2>3, <3>2 DEF LineIs
    <3>3. CASE i \in Len(per) + 1 .. n
      BY <2>3, <3>3 DEF LineIs
    <3> QED
      BY <3>1, <3>2, <3>3
  <2>5. \A i \in 1 .. Len(con) :
          Block(con2[i], "request") = 0 \/ Block(con2[i], "request") = Block(con[i], "request")
    BY <2>1, <2>2
  <2>6. Fades(a, b)
    BY <2>1, <2>3, <2>4, <2>5, PlacesFade
  <2> QED
    BY <2>6 DEF a, b
<1> QED
  BY <1>1, <1>2
-----------------------------------------------------------------------------
(* The steps of the controller. *)

\* The controller sends a frame, about the block x or none, or ends.
Moves(x) ==
  /\ to_peripheral' \in Seq(Messages) /\ Len(to_peripheral) <= Len(to_peripheral')
  /\ \A i \in 1 .. Len(to_peripheral) : to_peripheral'[i] = to_peripheral[i]
  /\ Sent(to_peripheral', status') = Len(to_peripheral) + 1
  /\ Len(to_peripheral') = Len(to_peripheral) + 1 =>
       Block(to_peripheral'[Len(to_peripheral) + 1], "response") \in {0, x}
  /\ status' \in {"waiting", "finished", "failed"} /\ tries' \in 1 .. 3
  /\ call' \in 1 .. Len(Script[client]) /\ accepted' \in BOOLEAN

\* A frame is sent while the controller waits.
LEMMA SendMoves ==
  ASSUME TypeOK, NEW m \in Messages, to_peripheral' = Append(to_peripheral, m), status' = "waiting",
         NEW x, Block(m, "response") \in {0, x}, tries' \in 1 .. 3, call' \in 1 .. Len(Script[client]),
         accepted' \in BOOLEAN
  PROVE  Moves(x)
<1>1. to_peripheral \in Seq(Messages)
  BY DEF TypeOK
<1>2. /\ to_peripheral' \in Seq(Messages) /\ Len(to_peripheral') = Len(to_peripheral) + 1
      /\ Len(to_peripheral) \in Nat
      /\ \A i \in 1 .. Len(to_peripheral) : to_peripheral'[i] = to_peripheral[i]
      /\ to_peripheral'[Len(to_peripheral) + 1] = m
  BY <1>1
<1>3. Sent(to_peripheral', status') = Len(to_peripheral) + 1
  BY <1>2 DEF Sent
<1> QED
  BY <1>2, <1>3 DEF Moves

\* A request is about no block.
LEMMA RequestFacts ==
  ASSUME NEW op \in Requests
  PROVE  /\ Message("request", op, 0, FALSE, FALSE) \in Messages
         /\ \A t \in {"request", "response"} : Block(Message("request", op, 0, FALSE, FALSE), t) = 0
<1>1. 0 \in Locations
  BY ConstantsAssumption DEF Locations
<1>2. op # "read"
  BY DEF Requests
<1> QED
  BY <1>1, <1>2 DEF Message, Messages, Block

\* A call that fails.
LEMMA CallFailsMoves ==
  ASSUME TypeOK, status = "waiting", NEW reasons, CallFails(reasons)
  PROVE  Moves(0) /\ accepted' = accepted
<1>1. to_peripheral \in Seq(Messages) /\ tries \in 1 .. 3 /\ call \in 1 .. Len(Script[client]) /\ accepted \in BOOLEAN
  BY DEF TypeOK
<1>2. CASE /\ tries < 3 /\ tries' = tries + 1 /\ SendRequest("identity")
           /\ UNCHANGED << status, call, accepted >>
  <2> DEFINE m == Message("request", "identity", 0, FALSE, FALSE)
  <2>1. "identity" \in Requests
    BY DEF Requests
  <2>2. m \in Messages /\ Block(m, "response") = 0
    BY <2>1, RequestFacts
  <2>3. to_peripheral' = Append(to_peripheral, m) /\ status' = "waiting" /\ tries' \in 1 .. 3
    BY <1>1, <1>2 DEF SendRequest
  <2> HIDE DEF m
  <2>4. Moves(0)
    BY <1>1, <1>2, <2>2, <2>3, SendMoves
  <2> QED
    BY <1>2, <2>4
<1>3. CASE /\ status' \in {"finished", "failed"}
           /\ UNCHANGED << tries, call, accepted, to_peripheral >>
  <2>1. Sent(to_peripheral', status') = Len(to_peripheral) + 1 /\ Len(to_peripheral) \in Nat
    BY <1>1, <1>3 DEF Sent
  <2> QED
    BY <1>1, <1>3, <2>1 DEF Moves
<1> QED
  BY <1>2, <1>3 DEF CallFails

\* A response, of the call in progress or of another one.
LEMMA TakeMoves ==
  ASSUME TypeOK, status = "waiting", NEW m \in Messages, m.type = "response", TakeResponse(m)
  PROVE  Moves(0) /\ (accepted' => accepted \/ ToldValid(m))
<1>1. /\ to_peripheral \in Seq(Messages) /\ tries \in 1 .. 3 /\ call \in 1 .. Len(Script[client])
      /\ accepted \in BOOLEAN /\ Script[client] \in Seq(Requests) /\ m.ok \in BOOLEAN /\ m.valid \in BOOLEAN
  BY ConstantsAssumption DEF TypeOK, Messages
<1>2. CASE CallFails("operation")
  BY <1>2, CallFailsMoves
<1>3. CASE status' = "failed" /\ UNCHANGED << tries, call, accepted, to_peripheral >>
  <2>1. Sent(to_peripheral', status') = Len(to_peripheral) + 1 /\ Len(to_peripheral) \in Nat
    BY <1>1, <1>3 DEF Sent
  <2> QED
    BY <1>1, <1>3, <2>1 DEF Moves
<1>4. CASE /\ IsResponseTo(m) /\ ~(client = "python" /\ ResultRaises(m)) /\ ~(client # "python" /\ ResultFails(m))
           /\ ~(call = Len(Script[client])) /\ ~(Op = "update" /\ ~m.valid)
           /\ call' = call + 1
           /\ SendRequest(Script[client][call + 1])
           /\ accepted' = (accepted \/ Op = "update")
           /\ UNCHANGED << tries, status >>
  <2>1. call + 1 \in 1 .. Len(Script[client]) /\ Script[client][call + 1] \in Requests
    BY <1>1, <1>4
  <2>2. Moves(0)
    BY <1>1, <1>4, <2>1, RequestFacts, SendMoves DEF SendRequest
  <2>3. Op = "update" => ToldValid(m)
    BY <1>4 DEF IsResponseTo, ResultRaises, ResultFails, ToldValid
  <2> QED
    BY <1>4, <2>2, <2>3
<1> QED
  BY <1>2, <1>3, <1>4 DEF TakeResponse

\* An answer to a request of the peripheral.
LEMMA AnswerMoves ==
  ASSUME TypeOK, status = "waiting", NEW m \in Messages, m.type = "request", Answer(m),
         UNCHANGED << tries, status, call, accepted >>
  PROVE  Moves(Block(m, "request"))
<1> DEFINE answer == IF m.op = "storage" THEN Message("response", "storage", 0, TRUE, FALSE)
                     ELSE Message("response", "read", m.location, m.location # 0, FALSE)
<1>1. tries \in 1 .. 3 /\ call \in 1 .. Len(Script[client]) /\ accepted \in BOOLEAN
  BY DEF TypeOK
<1>2. to_peripheral' = Append(to_peripheral, answer)
  BY DEF Answer
<1>3. 0 \in Locations /\ m.location \in Locations
  BY ConstantsAssumption DEF Locations, Messages
<1>4. CASE m.op # "storage"
  <2>1. answer \in Messages /\ Block(answer, "response") = Block(m, "request")
    BY <1>3, <1>4 DEF Message, Messages, Block
  <2> HIDE DEF answer
  <2> QED
    BY <1>1, <1>2, <2>1, SendMoves
<1>5. CASE m.op = "storage"
  <2>1. answer \in Messages /\ Block(answer, "response") = 0
    BY <1>3, <1>5 DEF Message, Messages, Block
  <2> HIDE DEF answer
  <2> QED
    BY <1>1, <1>2, <2>1, SendMoves
<1> QED
  BY <1>4, <1>5
\* What the controller is told stays true when it takes the first frame.
LEMMA TellsTail ==
  ASSUME TypeOK, ValidIsTrue, to_controller # << >>, to_controller' = Tail(to_controller),
         UNCHANGED peripheral_vars, accepted' => executable = "whole"
  PROVE  ValidIsTrue'
<1>1. /\ \A i \in 1 .. Len(to_controller) - 1 : to_controller'[i] = to_controller[i + 1]
      /\ Len(to_controller) \in Nat /\ Len(to_controller') = Len(to_controller) - 1
  BY DEF TypeOK
<1>2. ASSUME NEW i \in 1 .. Len(to_controller'), ToldValid(to_controller'[i]) PROVE executable = "whole"
  <2>1. i + 1 \in 1 .. Len(to_controller) /\ to_controller'[i] = to_controller[i + 1]
    BY <1>1
  <2> QED
    BY <1>2, <2>1 DEF ValidIsTrue
<1>3. \A i \in 1 .. Len(to_controller') : ToldValid(to_controller'[i]) => executable = "whole"
  BY <1>2
<1>4. executable = "whole" => installed
  BY DEF ValidIsTrue
<1>5. executable' = executable /\ installed' = installed
  BY DEF peripheral_vars
<1> QED
  BY <1>3, <1>4, <1>5 DEF ValidIsTrue, ToldValid

\* The peripheral is as it was.
LEMMA PeripheralStays ==
  ASSUME Sound, UNCHANGED peripheral_vars, TypeOK', ValidIsTrue', Fades(Line, Line')
  PROVE  Sound'
<1>1. SawWhole'
  BY DEF Sound, SawWhole, peripheral_vars, Depth, InCheck
<1>2. InService'
  BY FadesKeeps DEF Sound
<1> QED
  BY <1>1, <1>2 DEF Sound

\* fd_boot_split_controller_dispatch, and rpc of gateway.py.
LEMMA ControllerReceiveKeeps ==
  ASSUME Sound, ControllerReceive
  PROVE  Sound'
<1> DEFINE m == Head(to_controller)
<1>1. /\ TypeOK /\ ValidIsTrue /\ to_peripheral \in Seq(Messages) /\ to_controller \in Seq(Messages)
  BY DEF Sound, TypeOK
<1>2. /\ status = "waiting" /\ to_controller # << >> /\ to_controller' = Tail(to_controller)
      /\ ControllerDispatch(m) /\ client' = client /\ restarts' = restarts /\ faults' = faults
      /\ UNCHANGED peripheral_vars
  BY DEF ControllerReceive
<1>3. m \in Messages /\ m = to_controller[1] /\ 1 \in 1 .. Len(to_controller) /\ Tail(to_controller) \in Seq(Messages)
  BY <1>1, <1>2
<1> HIDE DEF m
<1>4. (Moves(0) \/ Moves(Block(m, "request"))) /\ (accepted' => accepted \/ ToldValid(m))
  <2>1. ASSUME NEW r, CallFails(r) PROVE Moves(0) /\ (accepted' => accepted \/ ToldValid(m))
    BY <1>1, <1>2, <2>1, CallFailsMoves
  <2>2. CASE m.type = "request" /\ Answer(m) /\ UNCHANGED << tries, status, call, accepted >>
    BY <1>1, <1>2, <1>3, <2>2, AnswerMoves
  <2>3. CASE m.type = "response" /\ TakeResponse(m)
    BY <1>1, <1>2, <1>3, <2>3, TakeMoves
  <2> QED
    BY <1>2, <2>1, <2>2, <2>3 DEF ControllerDispatch
<1>5. TypeOK'
  BY <1>1, <1>2, <1>3, <1>4 DEF TypeOK, Moves, peripheral_vars
<1>6. ValidIsTrue'
  <2>1. ToldValid(m) => executable = "whole"
    BY <1>1, <1>3 DEF ValidIsTrue
  <2>2. accepted' => executable = "whole"
    BY <1>1, <1>4, <2>1 DEF ValidIsTrue
  <2> QED
    BY <1>1, <1>2, <2>2, TellsTail
<1>7. Fades(LineOf(to_peripheral, "waiting", to_controller), LineOf(to_peripheral', status', Tail(to_controller)))
  <2> DEFINE per2 == to_peripheral'
             state == status'
  <2>1. /\ per2 \in Seq(Messages) /\ Len(to_peripheral) <= Len(per2)
        /\ \A i \in 1 .. Len(to_peripheral) : per2[i] = to_peripheral[i]
        /\ Sent(per2, state) = Len(to_peripheral) + 1
        /\ Len(per2) = Len(to_peripheral) + 1 =>
             Block(per2[Len(to_peripheral) + 1], "response") \in {0, Block(Head(to_controller), "request")}
    BY <1>4 DEF Moves, m
  <2> HIDE DEF per2, state
  <2>2. Fades(LineOf(to_peripheral, "waiting", to_controller), LineOf(per2, state, Tail(to_controller)))
    BY <1>1, <1>2, <2>1, TakesFades
  <2> QED
    BY <2>2 DEF per2, state
<1>8. Fades(Line, Line')
  BY <1>2, <1>7 DEF Line
<1> QED
  BY <1>2, <1>5, <1>6, <1>8, PeripheralStays

\* A call that gives up may send the next request.
LEMMA ControllerTimeoutKeeps ==
  ASSUME Sound, ControllerTimeout
  PROVE  Sound'
<1>1. /\ TypeOK /\ ValidIsTrue /\ to_peripheral \in Seq(Messages) /\ faults \in 0 .. MaxFaults
      /\ MaxFaults \in Nat
  BY ConstantsAssumption DEF Sound, TypeOK
<1>2. /\ status = "waiting" /\ to_controller = << >> /\ to_controller' = << >> /\ client' = client
      /\ restarts' = restarts /\ CallFails("gateway") /\ faults' \in 0 .. MaxFaults
      /\ UNCHANGED peripheral_vars
  BY <1>1 DEF ControllerTimeout, Fault
<1>3. Moves(0) /\ accepted' = accepted
  BY <1>1, <1>2, CallFailsMoves
<1>4. TypeOK'
  BY <1>1, <1>2, <1>3 DEF TypeOK, Moves, peripheral_vars
<1>5. ValidIsTrue'
  BY <1>1, <1>2, <1>3 DEF ValidIsTrue, ToldValid, peripheral_vars
<1>6. Fades(LineOf(to_peripheral, "waiting", << >>), LineOf(to_peripheral', status', << >>))
  <2> DEFINE per2 == to_peripheral'
             state == status'
  <2>1. /\ per2 \in Seq(Messages) /\ Len(to_peripheral) <= Len(per2)
        /\ \A i \in 1 .. Len(to_peripheral) : per2[i] = to_peripheral[i]
        /\ Sent(per2, state) = Len(to_peripheral) + 1
        /\ Len(per2) = Len(to_peripheral) + 1 => Block(per2[Len(to_peripheral) + 1], "response") = 0
    BY <1>3 DEF Moves
  <2> HIDE DEF per2, state
  <2>2. Fades(LineOf(to_peripheral, "waiting", << >>), LineOf(per2, state, << >>))
    BY <1>1, <2>1, EndsFades
  <2> QED
    BY <2>2 DEF per2, state
<1>7. Fades(Line, Line')
  BY <1>2, <1>6 DEF Line
<1> QED
  BY <1>2, <1>4, <1>5, <1>7, PeripheralStays

\* The program starts again, with or without what is left in its fifo.
LEMMA ControllerRestartKeeps ==
  ASSUME Sound, ControllerRestart
  PROVE  Sound'
<1> DEFINE m == Message("request", Script[client][1], 0, FALSE, FALSE)
<1>1. /\ TypeOK /\ ValidIsTrue /\ to_peripheral \in Seq(Messages) /\ to_controller \in Seq(Messages)
      /\ client \in Clients /\ restarts \in 0 .. MaxRestarts /\ MaxRestarts \in Nat
  BY ConstantsAssumption DEF Sound, TypeOK
<1>2. /\ status # "waiting" /\ restarts' \in 0 .. MaxRestarts /\ call' = 1 /\ tries' = 1
      /\ status' = "waiting" /\ accepted' = FALSE /\ to_peripheral' = Append(to_peripheral, m)
      /\ to_controller' \in {to_controller, << >>} /\ client' = client /\ UNCHANGED peripheral_vars
      /\ faults' = faults
  BY <1>1 DEF ControllerRestart, SendRequest
<1>3. 1 \in 1 .. Len(Script[client]) /\ Script[client][1] \in Requests
  BY <1>1, ConstantsAssumption, EmptySeq
<1>4. m \in Messages /\ Block(m, "response") = 0
  BY <1>3, RequestFacts
<1> HIDE DEF m
<1>5. to_controller' \in Seq(Messages) /\ to_peripheral' \in Seq(Messages)
  <2>1. Append(to_peripheral, m) \in Seq(Messages)
    BY <1>1, <1>4
  <2>2. << >> \in Seq(Messages)
    OBVIOUS
  <2> QED
    BY <1>1, <1>2, <2>1, <2>2
<1>6. TypeOK'
  <2>1. call' \in 1 .. Len(Script[client']) /\ tries' \in 1 .. 3 /\ client' \in Clients
    BY <1>1, <1>2, <1>3
  <2>2. status' \in {"waiting", "finished", "failed"} /\ accepted' \in BOOLEAN
    BY <1>2
  <2> QED
    BY <1>1, <1>2, <1>5, <2>1, <2>2 DEF TypeOK, peripheral_vars
<1>7. ValidIsTrue'
  <2>1. CASE to_controller' = to_controller
    BY <1>1, <1>2, <2>1 DEF ValidIsTrue, ToldValid, peripheral_vars
  <2>2. CASE to_controller' = << >>
    BY <1>1, <1>2, <2>2 DEF ValidIsTrue, ToldValid, peripheral_vars
  <2> QED
    BY <1>2, <2>1, <2>2
<1>8. Fades(LineOf(to_peripheral, status, to_controller), LineOf(Append(to_peripheral, m), "waiting", to_controller'))
  BY <1>1, <1>2, <1>4, RestartFades
<1>9. Fades(Line, Line')
  BY <1>2, <1>8 DEF Line
<1> QED
  BY <1>2, <1>6, <1>7, <1>9, PeripheralStays

\* A byte is damaged on either line.
LEMMA LineFaultKeeps ==
  ASSUME Sound, LineFault
  PROVE  Sound'
<1>1. /\ TypeOK /\ ValidIsTrue /\ to_peripheral \in Seq(Messages) /\ to_controller \in Seq(Messages)
      /\ faults \in 0 .. MaxFaults /\ MaxFaults \in Nat
  BY ConstantsAssumption DEF Sound, TypeOK
<1>2. /\ faults' \in 0 .. MaxFaults /\ UNCHANGED controller_vars /\ UNCHANGED peripheral_vars
      /\ \/ /\ to_peripheral # << >> /\ to_peripheral' = << Bad >> \o Tail(to_peripheral)
            /\ to_controller' = to_controller
         \/ /\ to_controller # << >> /\ to_controller' = << Bad >> \o Tail(to_controller)
            /\ to_peripheral' = to_peripheral
  BY <1>1 DEF LineFault, Fault, Damage
<1>3. to_peripheral' \in Seq(Messages) /\ to_controller' \in Seq(Messages)
  BY <1>1, <1>2, DamageFacts
<1>4. TypeOK'
  BY <1>1, <1>2, <1>3 DEF TypeOK, peripheral_vars, controller_vars
<1>5. ValidIsTrue'
  <2>1. CASE to_controller' = to_controller
    BY <1>1, <1>2, <2>1 DEF ValidIsTrue, ToldValid, peripheral_vars, controller_vars
  <2>2. CASE to_controller # << >> /\ to_controller' = << Bad >> \o Tail(to_controller)
    <3>1. /\ Len(to_controller') = Len(to_controller) /\ to_controller'[1] = Bad
          /\ \A i \in 2 .. Len(to_controller) : to_controller'[i] = to_controller[i]
          /\ Bad.type = "bad" /\ Len(to_controller) \in Nat
      BY <1>1, <2>2, DamageFacts
    <3>2. ASSUME NEW i \in 1 .. Len(to_controller'), ToldValid(to_controller'[i]) PROVE executable = "whole"
      <4>1. i # 1
        BY <3>1, <3>2 DEF ToldValid
      <4>2. i \in 2 .. Len(to_controller) /\ i \in 1 .. Len(to_controller)
        BY <3>1, <4>1
      <4> QED
        BY <1>1, <3>1, <3>2, <4>2 DEF ValidIsTrue
    <3>3. \A i \in 1 .. Len(to_controller') : ToldValid(to_controller'[i]) => executable = "whole"
      BY <3>2
    <3> QED
      BY <1>1, <1>2, <3>3 DEF ValidIsTrue, ToldValid, peripheral_vars, controller_vars
  <2> QED
    BY <1>2, <2>1, <2>2
<1>6. Fades(LineOf(to_peripheral, status, to_controller), LineOf(to_peripheral', status, to_controller'))
  BY <1>1, <1>2, DamageFades
<1>7. Fades(Line, Line')
  BY <1>2, <1>6 DEF Line, controller_vars
<1> QED
  BY <1>2, <1>4, <1>5, <1>7, PeripheralStays
-----------------------------------------------------------------------------
(* The executable and what the controller is told of it. *)

\* A boot loader with no update, and a controller that makes its first call.
LEMMA InitSound ==
  ASSUME Init
  PROVE  Sound
<1> DEFINE m == Message("request", Script[client][1], 0, FALSE, FALSE)
<1>1. 1 \in 1 .. Len(Script[client]) /\ Script[client][1] \in Requests /\ client \in Clients
  BY ConstantsAssumption, EmptySeq DEF Init
<1>2. m \in Messages /\ Block(m, "response") = 0
  BY <1>1, RequestFacts
<1>3. /\ to_peripheral = << m >> /\ to_controller = << >> /\ status = "waiting" /\ stack = << >>
      /\ executable = "invalid" /\ accepted = FALSE /\ call = 1
  BY DEF Init
<1> HIDE DEF m
<1>4. to_peripheral \in Seq(Messages) /\ to_controller \in Seq(Messages) /\ stack \in Seq(Frames)
  BY <1>2, <1>3
<1>5. operation \in Operations
  BY DEF Init, Operations, NoOperation
<1>6. TypeOK
  <2>1. /\ call \in 1 .. Len(Script[client]) /\ tries \in 1 .. 3
        /\ faults \in 0 .. MaxFaults /\ restarts \in 0 .. MaxRestarts
    BY <1>1, <1>3, ConstantsAssumption DEF Init
  <2>2. /\ status \in {"waiting", "finished", "failed"} /\ accepted \in BOOLEAN
        /\ executable \in {"invalid", "whole"} /\ running \in {"boot", "application", "wild"}
        /\ installed \in BOOLEAN
    BY DEF Init
  <2> QED
    BY <1>1, <1>4, <1>5, <2>1, <2>2 DEF TypeOK
<1>7. LineIs(Line, to_peripheral, to_controller, 1)
  <2>1. Sent(to_peripheral, status) = 1
    BY <1>3 DEF Sent
  <2> QED
    BY <1>4, <2>1, LineShape DEF Line
<1>8. Len(Line) = 1
  BY <1>3, <1>7 DEF LineIs
<1>9. InService
  BY <1>3, <1>8 DEF InService, OperationLive, Waits, LastBlockLast, OwnLast, ResumesBehind, OutdatedStops, Depth
<1>10. SawWhole /\ ValidIsTrue
  BY <1>3 DEF SawWhole, ValidIsTrue, Depth
<1> QED
  BY <1>6, <1>9, <1>10 DEF Sound

\* Every step keeps the invariant, and a whole executable whole.
LEMMA NextKeeps ==
  ASSUME Sound, [Next]_vars
  PROVE  Sound' /\ (executable = "whole" => executable' = "whole")
<1>1. CASE ControllerReceive
  BY <1>1, ControllerReceiveKeeps DEF ControllerReceive, peripheral_vars
<1>2. CASE ControllerTimeout
  BY <1>2, ControllerTimeoutKeeps DEF ControllerTimeout, peripheral_vars
<1>3. CASE ControllerRestart
  BY <1>3, ControllerRestartKeeps DEF ControllerRestart, peripheral_vars
<1>4. CASE PeripheralReceive
  BY <1>4, ReceiveKeeps
<1>5. CASE Woken
  BY <1>5, WokenKeeps
<1>6. CASE PeripheralTimeout
  BY <1>6, TimeoutKeeps
<1>7. CASE LineFault
  BY <1>7, LineFaultKeeps DEF LineFault, peripheral_vars
<1>8. CASE UNCHANGED vars
  <2>1. /\ UNCHANGED << controller_vars, peripheral_vars >>
        /\ to_peripheral' = to_peripheral /\ to_controller' = to_controller /\ faults' = faults
    BY <1>8 DEF vars
  <2>2. Line' = Line
    BY <2>1 DEF Line, controller_vars
  <2>3. TypeOK'
    BY <2>1 DEF Sound, TypeOK, controller_vars, peripheral_vars
  <2>4. ValidIsTrue'
    BY <2>1 DEF Sound, ValidIsTrue, ToldValid, controller_vars, peripheral_vars
  <2>5. SawWhole' /\ InService'
    BY <2>1, <2>2 DEF Sound, SawWhole, InService, OperationLive, Waits, IsLive, LastBlockLast, OwnLast,
                      ResumesBehind, Behind, OutdatedStops, Outdated, Depth, Top, peripheral_vars
  <2> QED
    BY <2>1, <2>3, <2>4, <2>5 DEF Sound, peripheral_vars
<1> QED
  BY <1>1, <1>2, <1>3, <1>4, <1>5, <1>6, <1>7, <1>8 DEF Next, Controller, Peripheral

\* The invariant holds of every state that the two programs reach.
THEOREM SoundHolds == Spec => []Sound
<1>1. Init => Sound
  BY InitSound
<1>2. Sound /\ [Next]_vars => Sound'
  BY NextKeeps
<1> QED
  BY <1>1, <1>2, PTL DEF Spec

\* Once installed as a whole, the executable stays whole: a repeated update does not
\* write it again, whatever handlers were nested when and whatever was lost.
THEOREM WholeStays == Spec => StaysWhole
<1>1. Sound /\ [Next]_vars => [executable = "whole" => executable' = "whole"]_vars
  BY NextKeeps
<1> QED
  BY <1>1, SoundHolds, PTL DEF Spec, StaysWhole

\* A controller that goes on from its update to execute has an installed one, also when
\* the response is one of an earlier update.
THEOREM ValidTrue == Spec => []ValidMeansInstalled
<1>1. Sound => ValidMeansInstalled
  BY DEF Sound, ValidIsTrue, ValidMeansInstalled
<1> QED
  BY <1>1, SoundHolds, PTL
-----------------------------------------------------------------------------
(* Without a fault the two programs work in step. *)

\* What can happen when there is no fault.
LEMMA NoFaultSteps ==
  ASSUME TypeOK, faults' = faults
  PROVE  /\ ~PeripheralTimeout /\ ~LineFault
         /\ status = "waiting" => ~ControllerRestart
         /\ to_controller = << >> => ~ControllerReceive
         /\ running # "application" \/ to_controller # << >> => ~ControllerTimeout
         /\ Depth = 0 \/ ~Top.woken => ~Woken
         /\ to_peripheral = << >> => ~PeripheralReceive
<1>1. ~Fault
  BY ConstantsAssumption DEF TypeOK, Fault
<1>2. ~PeripheralTimeout /\ ~LineFault
  BY <1>1 DEF PeripheralTimeout, LineFault
<1>3. status = "waiting" => ~ControllerRestart
  BY DEF ControllerRestart
<1>4. to_controller = << >> => ~ControllerReceive
  BY DEF ControllerReceive
<1>5. running # "application" \/ to_controller # << >> => ~ControllerTimeout
  BY <1>1 DEF ControllerTimeout
<1>6. Woken => Depth > 0 /\ Top.woken
  BY DEF Woken
<1>7. to_peripheral = << >> => ~PeripheralReceive
  BY DEF PeripheralReceive
<1> QED
  BY <1>2, <1>3, <1>4, <1>5, <1>6, <1>7

\* A call that ends leaves nothing on the line, or the request of the next one.
LEMMA CallEnds ==
  ASSUME to_peripheral = << >>, to_controller' = << >>, stack' = << >>, status = "waiting", client' = client,
         \/ \E reasons : CallFails(reasons)
         \/ \E m \in Messages : TakeResponse(m)
  PROVE  (Requested /\ status = "waiting")' \/ (Quiet /\ status # "waiting")'
<1>1. ASSUME NEW reasons, CallFails(reasons)
      PROVE  (Requested /\ status = "waiting")' \/ (Quiet /\ status # "waiting")'
  <2>1. CASE Op = "identity" /\ client = "python" /\ tries < 3
    <3>1. /\ to_peripheral' = Append(to_peripheral, Message("request", "identity", 0, FALSE, FALSE))
          /\ call' = call /\ status' = "waiting"
      BY <1>1, <2>1 DEF CallFails, SendRequest
    <3>2. Op' = "identity"
      BY <2>1, <3>1 DEF Op
    <3> QED
      BY <3>1, <3>2 DEF Requested
  <2>2. CASE ~(Op = "identity" /\ client = "python" /\ tries < 3)
    BY <1>1, <2>2 DEF CallFails, Quiet
  <2> QED
    BY <2>1, <2>2
<1>2. ASSUME NEW m \in Messages, TakeResponse(m), ~CallFails("operation")
      PROVE  (Requested /\ status = "waiting")' \/ (Quiet /\ status # "waiting")'
  <2>1. CASE call = Len(Script[client]) \/ (Op = "update" /\ ~m.valid)
    BY <1>2, <2>1 DEF TakeResponse, Quiet
  <2>2. CASE ~(call = Len(Script[client]) \/ (Op = "update" /\ ~m.valid))
    <3>1. /\ to_peripheral' = Append(to_peripheral, Message("request", Script[client][call + 1], 0, FALSE, FALSE))
          /\ call' = call + 1 /\ status' = "waiting"
      BY <1>2, <2>2 DEF TakeResponse, SendRequest
    <3>2. Op' = Script[client][call + 1]
      BY <3>1 DEF Op
    <3> QED
      BY <3>1, <3>2 DEF Requested
  <2> QED
    BY <2>1, <2>2
<1> QED
  BY <1>1, <1>2

\* Nothing is on its way: the program starts again, or an execute ends.
LEMMA QuietSteps ==
  ASSUME TypeOK, Quiet, running # "wild", Next, faults' = faults
  PROVE  \/ (running # "wild" /\ Quiet)'
         \/ (running = "boot" /\ status = "waiting" /\ Requested)'
<1>1. /\ to_peripheral = << >> /\ to_controller = << >> /\ stack = << >> /\ Depth = 0
      /\ faults # faults + 1
  BY ConstantsAssumption DEF Quiet, Depth, TypeOK
<1>2. ~ControllerReceive /\ ~PeripheralReceive /\ ~Woken /\ ~PeripheralTimeout /\ ~LineFault
  BY <1>1, NoFaultSteps
<1>3. CASE ControllerTimeout
  <2>1. /\ status = "waiting" /\ Op = "execute" /\ running = "application" /\ CallFails("gateway")
        /\ to_controller' = << >> /\ stack' = << >> /\ running' = "application" /\ client' = client
    BY <1>1, <1>3 DEF ControllerTimeout, Fault, peripheral_vars
  <2>2. /\ status' = "finished" /\ to_peripheral' = << >>
    BY <1>1, <2>1 DEF CallFails
  <2> QED
    BY <2>1, <2>2 DEF Quiet
<1>4. CASE ControllerRestart
  <2> DEFINE m == Message("request", Script[client][1], 0, FALSE, FALSE)
  <2>1. /\ to_peripheral' = Append(<< >>, m)
        /\ call' = 1 /\ client' = client /\ status' = "waiting" /\ running = "boot"
        /\ to_controller' = << >> /\ stack' = << >> /\ running' = running
    BY <1>1, <1>4 DEF ControllerRestart, SendRequest, peripheral_vars
  <2>2. to_peripheral' = << m >>
    BY <2>1
  <2> QED
    BY <2>1, <2>2 DEF Requested, Op
<1> QED
  BY <1>2, <1>3, <1>4 DEF Next, Controller, Peripheral

\* A handler that asks for what its step needs is served.
LEMMA AskServes ==
  ASSUME NEW f, f.step \in 1 .. Len(Plan), ~f.woken, ~f.lost, f.request = Op, Op' = Op,
         Ask(<< f >>, << >>), to_peripheral' = << >>
  PROVE  Serving'
<1> DEFINE m == Message("request", Kind(f), Plan[f.step], FALSE, FALSE)
<1>1. << f >>[Len(<< f >>)] = f /\ Append(<< >>, m) = << m >>
  OBVIOUS
<1>2. Ask(<< f >>, << >>) => stack' = << f >> /\ to_controller' = Append(<< >>, m)
  BY <1>1 DEF Ask, Kind
<1> HIDE DEF m
<1>3. stack' = << f >> /\ to_controller' = << m >>
  BY <1>1, <1>2
<1>4. Len(stack') = 1 /\ stack'[1] = f
  BY <1>3
<1>5. to_controller' = << Message("request", Kind(stack'[1]), Plan[stack'[1].step], FALSE, FALSE) >>
  BY <1>3, <1>4 DEF m
<1>6. Asking(stack[1])'
  BY <1>5 DEF Asking, Kind
<1> QED
  BY <1>4, <1>6 DEF Serving

\* A request was sent: it is served, by a handler or at once.
LEMMA RequestedSteps ==
  ASSUME TypeOK, Requested, running = "boot", status = "waiting", Next, faults' = faults
  PROVE  \/ (running # "wild" /\ Quiet)'
         \/ (running = "boot" /\ status = "waiting" /\ (Responded \/ Serving))'
<1> DEFINE m == Message("request", Op, 0, FALSE, FALSE)
<1>1. /\ to_peripheral = << m >> /\ to_controller = << >> /\ stack = << >> /\ Depth = 0
      /\ faults # faults + 1
  BY ConstantsAssumption DEF Requested, Depth, TypeOK
<1>2. ~ControllerReceive /\ ~ControllerTimeout /\ ~ControllerRestart /\ ~Woken /\ ~PeripheralTimeout /\ ~LineFault
  BY <1>1, NoFaultSteps
<1>3. PeripheralReceive
  BY <1>2 DEF Next, Controller, Peripheral
<1>4. m.type = "request" /\ m.op = Op /\ Head(to_peripheral) = m /\ Tail(to_peripheral) = << >>
  BY <1>1 DEF Message
<1> HIDE DEF m
<1>5. /\ to_peripheral' = << >> /\ UNCHANGED << controller_vars, faults >> /\ Serve(Op)
  BY <1>3, <1>4 DEF PeripheralReceive, PeripheralDispatch
<1>6. status' = "waiting" /\ Op' = Op
  BY <1>5 DEF controller_vars, Op
<1>7. ASSUME NEW valid \in BOOLEAN, RespondNow(Op, valid)
      PROVE  (running = "boot" /\ status = "waiting" /\ Responded)'
  <2>1. /\ to_controller' = << Message("response", Op, 0, TRUE, valid) >>
        /\ stack' = << >> /\ running' = "boot"
    BY <1>1, <1>7 DEF RespondNow, Respond, Wake
  <2> QED
    BY <1>5, <1>6, <2>1 DEF Responded
<1>8. CASE Op \in {"update", "update_metadata"} /\ StartHandler(Op)
  <2> DEFINE f == [request |-> Op, step |-> 1, had |-> executable, lost |-> FALSE, garbled |-> FALSE, woken |-> FALSE]
  <2>1. Ask(Append(stack, f), to_controller) /\ running' = running
    BY <1>8 DEF StartHandler
  <2>2. Append(stack, f) = << f >>
    BY <1>1
  <2>3. f.request = Op /\ f.step = 1 /\ ~f.lost /\ ~f.woken
    OBVIOUS
  <2> HIDE DEF f
  <2>4. Ask(<< f >>, << >>)
    BY <1>1, <2>1, <2>2
  <2>5. Serving'
    BY <1>5, <1>6, <2>3, <2>4, PlanFacts, AskServes
  <2> QED
    BY <1>6, <2>1, <2>5
<1>9. CASE Op = "execute" /\ execute
  <2>1. CASE executable = "whole" /\ running' = "application" /\ UNCHANGED << to_controller, stack >>
    BY <1>1, <1>5, <1>6, <1>9, <2>1 DEF Quiet
  <2> QED
    BY <1>7, <1>9, <2>1 DEF execute
<1> QED
  BY <1>5, <1>7, <1>8, <1>9 DEF Serve, get_identity, get_executable_metadata

\* A response was sent: the controller takes it.
LEMMA RespondedSteps ==
  ASSUME TypeOK, Responded, running = "boot", status = "waiting", Next, faults' = faults
  PROVE  \/ (running # "wild" /\ Quiet)'
         \/ (running = "boot" /\ status = "waiting" /\ Requested)'
<1>1. PICK ok \in BOOLEAN, valid \in BOOLEAN : to_controller = << Message("response", Op, 0, ok, valid) >>
  BY DEF Responded
<1> DEFINE m == Message("response", Op, 0, ok, valid)
<1>2. to_controller = << m >> /\ to_peripheral = << >> /\ stack = << >> /\ Depth = 0 /\ to_controller # << >>
  BY <1>1 DEF Responded, Depth
<1>3. m.type = "response" /\ Head(to_controller) = m /\ Tail(to_controller) = << >>
  BY <1>2 DEF Message
<1>4. m \in Messages
  BY ConstantsAssumption DEF TypeOK, Op, Message, Messages, Locations
<1> HIDE DEF m
<1>5. ControllerReceive
  BY <1>2, NoFaultSteps DEF Next, Controller, Peripheral
<1>6. to_controller' = << >> /\ TakeResponse(m) /\ client' = client /\ UNCHANGED peripheral_vars
  BY <1>3, <1>5 DEF ControllerReceive, ControllerDispatch
<1>7. stack' = << >> /\ running' = running
  BY <1>2, <1>6 DEF peripheral_vars
<1> QED
  BY <1>2, <1>4, <1>6, <1>7, CallEnds

\* The handler that waits has what it asked for: it asks again, or responds.
LEMMA ContinueAnswers ==
  ASSUME NEW f, Continue(f), Len(stack) = 1, stack \in Seq(Frames), f \in Frames, f.request = Op,
         ~f.woken, ~f.lost, f.step = stack[1].step, to_controller = << >>, to_peripheral' = << >>, Op' = Op,
         stack[1].request = Op
  PROVE  (Responded \/ Serving)'
<1> DEFINE g == [f EXCEPT !.step = @ + 1]
<1>1. Depth = 1 /\ Top = stack[1] /\ Pop = << >>
  BY DEF Depth, Top, Pop
<1>2. CASE \E valid \in BOOLEAN : Return(TRUE, valid)
  <2>1. PICK valid \in BOOLEAN : Return(TRUE, valid)
    BY <1>2
  <2>2. to_controller' = << Message("response", Op, 0, TRUE, valid) >> /\ stack' = << >>
    BY <1>1, <2>1 DEF Return, Respond, Wake
  <2> QED
    BY <2>2 DEF Responded
<1>3. CASE f.step # Len(Plan) /\ Ask([stack EXCEPT ![Depth] = g], to_controller)
  <2>1. [stack EXCEPT ![Depth] = g] = << g >>
    BY <1>1
  <2>2. g.step \in 1 .. Len(Plan) /\ g.request = Op /\ ~g.woken /\ ~g.lost
    BY <1>3, PlanFacts DEF Frames
  <2> HIDE DEF g
  <2>3. Ask(<< g >>, << >>)
    BY <1>3, <2>1
  <2> QED
    BY <2>2, <2>3, AskServes
<1> QED
  BY <1>2, <1>3 DEF Continue

\* A handler waits: the controller answers, then the handler goes on.
LEMMA ServingSteps ==
  ASSUME Sound, Serving, running = "boot", status = "waiting", Next, faults' = faults
  PROVE  (running = "boot" /\ status = "waiting" /\ (Responded \/ Serving))'
<1> DEFINE f == stack[1]
<1>1. /\ Depth = 1 /\ Top = f /\ f \in Frames /\ ~Top.woken /\ TypeOK /\ OperationLive /\ f.request = Op
      /\ ~f.lost /\ ~f.woken
  <2>1. TypeOK /\ OperationLive
    BY DEF Sound, InService
  <2>2. Len(stack) = 1 /\ f.request = Op /\ ~f.lost /\ ~f.woken
    BY DEF Serving
  <2>3. stack \in Seq(Frames)
    BY <2>1 DEF TypeOK
  <2>4. f \in Frames
    <3>1. Len(stack) = 1
      BY <2>2
    <3>2. \A i \in 1 .. Len(stack) : stack[i] \in Frames
      BY <2>3
    <3> QED
      BY <3>1, <3>2
  <2> QED
    BY <2>1, <2>2, <2>4 DEF Depth, Top
<1>2. f.step \in 1 .. Len(Plan) /\ Op \in {"update", "update_metadata"}
  BY <1>1 DEF Frames
<1>3. CASE Asking(f)
  <2> DEFINE m == Message("request", Kind(f), Plan[f.step], FALSE, FALSE)
  <2>1. to_peripheral = << >> /\ to_controller = << m >> /\ to_controller # << >>
    BY <1>3 DEF Asking
  <2>2. /\ m.type = "request" /\ m.op = Kind(f) /\ m.location = Plan[f.step]
        /\ Head(to_controller) = m /\ Tail(to_controller) = << >>
    BY <2>1 DEF Message
  <2> HIDE DEF m
  <2>3. ControllerReceive
    BY <1>1, <2>1, NoFaultSteps DEF Next, Controller, Peripheral
  <2>4. /\ to_controller' = << >> /\ Answer(m) /\ UNCHANGED << status, call, client >> /\ UNCHANGED peripheral_vars
    BY <1>2, <2>2, <2>3 DEF ControllerReceive, ControllerDispatch, Serves
  <2>5. to_peripheral' = << Message("response", Kind(f), Plan[f.step], TRUE, FALSE) >>
    <3> DEFINE r == Message("response", Kind(f), Plan[f.step], TRUE, FALSE)
               a == IF m.op = "storage" THEN Message("response", "storage", 0, TRUE, FALSE)
                    ELSE Message("response", "read", m.location, m.location # 0, FALSE)
    <3>1. ASSUME Plan[f.step] = 0 PROVE a = r
      BY <2>2, <3>1 DEF Kind
    <3>2. ASSUME Plan[f.step] # 0 PROVE a = r
      <4>1. m.location # 0 /\ m.op = "read" /\ Kind(f) = "read"
        BY <2>2, <3>2 DEF Kind
      <4>2. a = Message("response", "read", m.location, m.location # 0, FALSE)
        BY <4>1
      <4>3. (m.location # 0) = TRUE
        BY <4>1
      <4>4. a = Message("response", "read", m.location, TRUE, FALSE)
        BY <4>2, <4>3
      <4> QED
        BY <2>2, <4>1, <4>4
    <3>3. a = r
      BY <3>1, <3>2
    <3>4. to_peripheral' = Append(to_peripheral, a)
      BY <2>4 DEF Answer
    <3> HIDE DEF a, r
    <3>5. to_peripheral' = << r >>
      BY <2>1, <3>3, <3>4
    <3> QED
      BY <3>5 DEF r
  <2>6. stack' = stack /\ running' = running /\ Op' = Op
    BY <2>4 DEF peripheral_vars, Op
  <2>7. Answered(stack[1])'
    BY <2>4, <2>5, <2>6 DEF Answered, Kind
  <2> QED
    BY <1>1, <2>4, <2>6, <2>7 DEF Serving, Depth
<1>4. CASE Answered(f)
  <2> DEFINE m == Message("response", Kind(f), Plan[f.step], TRUE, FALSE)
  <2>1. to_peripheral = << m >> /\ to_controller = << >>
    BY <1>4 DEF Answered
  <2>2. /\ m.type = "response" /\ m.op = Kind(f) /\ m.location = Plan[f.step] /\ m.ok
        /\ Head(to_peripheral) = m /\ Tail(to_peripheral) = << >>
    BY <2>1 DEF Message
  <2> HIDE DEF m
  <2>3. PeripheralReceive
    BY <1>1, <2>1, NoFaultSteps DEF Next, Controller, Peripheral
  <2>4. to_peripheral' = << >> /\ Accept(m) /\ UNCHANGED controller_vars
    BY <2>2, <2>3 DEF PeripheralReceive, PeripheralDispatch
  <2>5. IsLive /\ operation.kind = m.op /\ operation.kind # "none"
    BY <1>1, <2>2 DEF OperationLive, Waits, Kind, IsLive
  <2>6. /\ running' = running
        /\ IF m.op = "storage" THEN Continue([Top EXCEPT !.lost = FALSE])
           ELSE IF IsBlockAskedFor(m) THEN Continue(Top) ELSE HandlerFails
    BY <2>4, <2>5 DEF Accept
  <2>7. [Top EXCEPT !.lost = FALSE] = Top /\ (m.op # "storage" => IsBlockAskedFor(m))
    BY <1>1, <2>2 DEF IsBlockAskedFor, Frames
  <2>8. Continue(f)
    BY <1>1, <2>6, <2>7
  <2>9. status' = status /\ Op' = Op
    BY <2>4 DEF controller_vars, Op
  <2> QED
    BY <1>1, <2>1, <2>4, <2>6, <2>8, <2>9, ContinueAnswers DEF TypeOK, Depth
<1> QED
  BY <1>3, <1>4 DEF Serving

\* A step that is no fault, and no fault before it, keeps the programs in step.
LEMMA InStepKeeps ==
  ASSUME Sound, InStep, [Next]_vars
  PROVE  InStep'
<1>1. TypeOK
  BY DEF Sound
<1>2. faults' = faults \/ faults' = faults + 1
  BY DEF Next, Controller, Peripheral, ControllerReceive, ControllerTimeout, ControllerRestart,
         PeripheralReceive, Woken, PeripheralTimeout, LineFault, Fault, vars
<1>3. SUFFICES ASSUME faults' = 0 PROVE InStep'
  BY DEF InStep
<1>4. faults = 0 /\ faults' = faults
  BY <1>1, <1>2, <1>3, ConstantsAssumption DEF TypeOK
<1>5. CASE UNCHANGED vars
  <2>1. /\ to_peripheral' = to_peripheral /\ to_controller' = to_controller /\ stack' = stack
        /\ running' = running /\ status' = status /\ Op' = Op
    BY <1>5 DEF vars, controller_vars, peripheral_vars, Op
  <2>2. (Quiet' <=> Quiet) /\ (Requested' <=> Requested) /\ (Responded' <=> Responded)
    BY <2>1 DEF Quiet, Requested, Responded
  <2>3. Serving' <=> Serving
    BY <2>1 DEF Serving, Asking, Answered, Kind
  <2> QED
    BY <1>4, <2>1, <2>2, <2>3 DEF InStep
<1>6. CASE Next
  <2>1. CASE running # "wild" /\ Quiet
    BY <1>1, <1>4, <1>6, <2>1, QuietSteps DEF InStep
  <2>2. CASE running = "boot" /\ status = "waiting" /\ Requested
    BY <1>1, <1>4, <1>6, <2>2, RequestedSteps DEF InStep
  <2>3. CASE running = "boot" /\ status = "waiting" /\ Responded
    BY <1>1, <1>4, <1>6, <2>3, RespondedSteps DEF InStep
  <2>4. CASE running = "boot" /\ status = "waiting" /\ Serving
    BY <1>4, <1>6, <2>4, ServingSteps DEF InStep
  <2> QED
    BY <1>4, <2>1, <2>2, <2>3, <2>4 DEF InStep
<1> QED
  BY <1>5, <1>6

\* The first request is on its way.
LEMMA InitInStep ==
  ASSUME Init
  PROVE  InStep
  BY DEF Init, InStep, Requested, Op

\* The invariant, with what holds as long as nothing goes wrong.
THEOREM SplitInvHolds == Spec => []SplitInv
<1>1. Init => SplitInv
  BY InitSound, InitInStep DEF SplitInv
<1>2. SplitInv /\ [Next]_vars => SplitInv'
  BY NextKeeps, InStepKeeps DEF SplitInv
<1> QED
  BY <1>1, <1>2, PTL DEF Spec

\* A handler is nested in another one's wait, and operation dangles, only after a timeout
\* or a damaged frame.
THEOREM NestsNever == Spec => []NestsOnlyAfterFault
<1>1. ASSUME SplitInv PROVE NestsOnlyAfterFault
  <2>1. SUFFICES ASSUME faults = 0 PROVE Depth <= 1 /\ running # "wild"
    BY DEF NestsOnlyAfterFault
  <2>2. CASE running # "wild" /\ (stack = << >> \/ Len(stack) = 1)
    <3>1. Len(<< >>) = 0
      OBVIOUS
    <3>2. Len(stack) = 0 \/ Len(stack) = 1
      BY <2>2, <3>1
    <3>3. Depth <= 1
      BY <3>2 DEF Depth
    <3>4. running # "wild"
      BY <2>2
    <3> QED
      BY <3>3, <3>4
  <2> QED
    BY <1>1, <2>1, <2>2 DEF SplitInv, InStep, Quiet, Requested, Responded, Serving
<1> QED
  BY <1>1, SplitInvHolds, PTL
=============================================================================
