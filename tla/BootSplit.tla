----------------------------- MODULE BootSplit -----------------------------
(***************************************************************************)
(* The split boot loader.  The peripheral (fd_boot_split_peripheral.c and  *)
(* applications/boot/split/peripheral) has the update engine and no        *)
(* storage; it serves requests of a controller and, within an update, asks *)
(* the controller for the update, one block at a time.  The controller is  *)
(* fd_boot_split_controller.c with applications/boot/split/controller or   *)
(* another application that calls its functions, or                        *)
(* tools/update/controller.py.  Neither side numbers its messages.         *)
(*                                                                         *)
(* A handler of the peripheral that needs a block waits for it in a nested *)
(* dispatch, which serves whatever arrives; the handlers in progress are a *)
(* stack.  operation is a pointer to a local variable of the call that     *)
(* waits: it names the depth and the step of that call, and dangles when   *)
(* the call has returned.                                                  *)
(***************************************************************************)
EXTENDS Integers, Sequences

CONSTANTS
  Blocks,     \* the update has blocks 1 .. Blocks, the first is its header
  Clients,    \* the controllers: "python" is controller.py, others use the C functions
  Script,     \* [Clients -> Seq(Requests)] the calls that a controller makes
  MaxFaults,  \* how many waits may time out and frames be damaged
  MaxRestarts \* how often the controller is started again

Requests == {"identity", "executable_metadata", "update_metadata", "update", "execute"}

ASSUME ConstantsAssumption ==
  /\ Blocks \in Nat /\ Blocks >= 2
  /\ Script \in [Clients -> Seq(Requests)]
  /\ \A c \in Clients : Script[c] # << >>
  /\ MaxFaults \in Nat /\ MaxRestarts \in Nat

VARIABLES
  to_peripheral, to_controller, \* the frames on the line and in the fifos
  client,      \* which controller it is
  call,        \* the call of the script that waits for its response
  tries,       \* how often get_identity was tried
  status,      \* of the controller: "waiting", "finished", "failed"
  accepted,    \* the controller was told that the update is valid
  stack,       \* of the peripheral: the handlers that wait in a nested dispatch
  operation,   \* fd_boot_split_peripheral.operation
  executable,  \* what the executable storage holds: "invalid", "whole"
  running,     \* of the peripheral: "boot", "application", "wild"
  installed,   \* some update was installed as a whole
  faults, restarts

controller_vars == << client, call, tries, status, accepted, restarts >>
peripheral_vars == << stack, operation, executable, running, installed >>
vars == << to_peripheral, to_controller, controller_vars, peripheral_vars, faults >>

Locations == 0 .. Blocks   \* 0 stands for a location outside of the update

\* The waits of a handler, in their order: 0 for get_update_storage, a block
\* for update_read.  The check of an update reads all of it, the install all
\* but its header.
CheckPlan == << 0 >> \o [i \in 1 .. Blocks |-> i]
InstallPlan == << 0 >> \o [i \in 1 .. Blocks - 1 |-> i + 1]
Plan == CheckPlan \o InstallPlan
InCheck(step) == step <= Len(CheckPlan)

NoMessage == [type |-> "none", op |-> "none", location |-> 0, ok |-> FALSE, valid |-> FALSE]
Message(t, o, l, k, v) == [type |-> t, op |-> o, location |-> l, ok |-> k, valid |-> v]
Bad == [NoMessage EXCEPT !.type = "bad"]
Messages ==
  [type : {"request", "response", "bad"}, op : Requests \cup {"storage", "read", "none"},
   location : Locations, ok : BOOLEAN, valid : BOOLEAN]

Frames ==
  [request : {"update_metadata", "update"}, step : 1 .. Len(Plan),
   had : {"invalid", "whole"},  \* the executable when the handler looked
   lost : BOOLEAN,              \* its storage was never filled in
   garbled : BOOLEAN,           \* another handler used its decryption context
   woken : BOOLEAN]             \* its nested dispatch served something

Operations ==
  [kind : {"none", "storage", "read"}, depth : Nat, step : 0 .. Len(Plan)]
NoOperation == [kind |-> "none", depth |-> 0, step |-> 0]

\* The one type invariant.
TypeOK ==
  /\ to_peripheral \in Seq(Messages) /\ to_controller \in Seq(Messages)
  /\ client \in Clients /\ call \in 1 .. Len(Script[client]) /\ tries \in 1 .. 3
  /\ status \in {"waiting", "finished", "failed"} /\ accepted \in BOOLEAN
  /\ stack \in Seq(Frames) /\ operation \in Operations
  /\ executable \in {"invalid", "whole"}
  /\ running \in {"boot", "application", "wild"} /\ installed \in BOOLEAN
  /\ faults \in 0 .. MaxFaults /\ restarts \in 0 .. MaxRestarts

Fault == faults < MaxFaults /\ faults' = faults + 1

-----------------------------------------------------------------------------
(* The controller.                                                         *)

Op == Script[client][call]

\* fd_boot_split_controller_rps
SendRequest(op) ==
  to_peripheral' = Append(to_peripheral, Message("request", op, 0, FALSE, FALSE))

\* A call failed.  get_identity of controller.py is tried three times.  A
\* failed execute is taken to mean that the application runs; controller.py
\* takes only a timeout or a damaged envelope to mean that.
\* Any other failed call ends the program.
CallFails(reasons) ==
  IF Op = "identity" /\ client = "python" /\ tries < 3
  THEN /\ tries' = tries + 1
       /\ SendRequest("identity")
       /\ UNCHANGED << status, call, accepted >>
  ELSE /\ status' = IF Op = "execute" /\ (client # "python" \/ reasons = "gateway")
                    THEN "finished" ELSE "failed"
       /\ UNCHANGED << tries, call, accepted, to_peripheral >>

\* Mutant: the operation of a response is not compared.
AnyResponse(m) == TRUE

IsResponseTo(m) == m.op = Op

\* decode of controller.py raises for metadata that could not be read; an identity
\* has no error.
MetadataRaises(m) == Op \in {"executable_metadata", "update_metadata"} /\ ~m.ok

\* decode raises for an update that failed, and for every response to an execute:
\* it reads is_valid, which the peripheral does not send.
ResultRaises(m) == Op = "execute" \/ (Op = "update" /\ ~m.ok)

\* fd_boot_split_controller_update and _execute return false.
ResultFails(m) == Op \in {"update", "execute"} /\ ~m.ok

\* A response is for the call in progress if its operation is.  An update that
\* is not valid ends the program, and so does the last call.
TakeResponse(m) ==
  IF \/ ~IsResponseTo(m)
     \/ client = "python" /\ (MetadataRaises(m) \/ ResultRaises(m))
     \/ client # "python" /\ ResultFails(m)
  THEN CallFails("operation")
  ELSE IF call = Len(Script[client]) \/ (Op = "update" /\ ~m.valid)
  THEN status' = "failed" /\ UNCHANGED << tries, call, accepted, to_peripheral >>
  ELSE /\ call' = call + 1
       /\ SendRequest(Script[client][call + 1])
       /\ accepted' = (accepted \/ Op = "update")
       /\ UNCHANGED << tries, status >>

\* The answer to a request of the peripheral: the storage, or a block of it.
Answer(m) ==
  to_peripheral' = Append(to_peripheral,
    IF m.op = "storage" THEN Message("response", "storage", 0, TRUE, FALSE)
    ELSE Message("response", "read", m.location, m.location # 0, FALSE))

\* Mutant: controller.py takes the first frame for the response in every call.
NeverServes == client # "python"

\* Does the call in progress answer requests?  rpc of gateway.py takes the first
\* frame for the response.
Serves == client # "python" \/ Op \in {"update", "update_metadata"}

\* fd_boot_split_controller_dispatch; rx and rpc of controller.py and gateway.py
ControllerDispatch(m) ==
  \/ m.type = "bad" /\ \E r \in {"gateway", "operation"} : CallFails(r)
  \/ /\ m.type = "request" /\ Serves
     /\ Answer(m) /\ UNCHANGED << tries, status, call, accepted >>
  \/ m.type = "request" /\ ~Serves /\ CallFails("operation")
  \/ m.type = "response" /\ TakeResponse(m)

ControllerReceive ==
  /\ status = "waiting" /\ to_controller # << >>
  /\ to_controller' = Tail(to_controller)
  /\ ControllerDispatch(Head(to_controller))
  /\ UNCHANGED << client, restarts, peripheral_vars, faults >>

\* Nothing came for so long that the call gives up.  That is how a successful
\* execute ends; anything else is a fault.
ControllerTimeout ==
  /\ status = "waiting" /\ to_controller = << >>
  /\ \/ Fault
     \/ Op = "execute" /\ running = "application" /\ UNCHANGED faults
  /\ CallFails("gateway")
  /\ UNCHANGED << to_controller, client, restarts, peripheral_vars >>

\* The program is started again; what is on the line may still arrive.
ControllerRestart ==
  /\ status \in {"failed", "finished"} /\ running = "boot" /\ restarts < MaxRestarts
  /\ restarts' = restarts + 1
  /\ call' = 1 /\ tries' = 1 /\ status' = "waiting" /\ accepted' = FALSE
  /\ SendRequest(Script[client][1])
  /\ to_controller' \in {to_controller, << >>}
  /\ UNCHANGED << client, peripheral_vars, faults >>

-----------------------------------------------------------------------------
(* The peripheral.                                                         *)

Depth == Len(stack)
Top == stack[Depth]
Pop == SubSeq(stack, 1, Depth - 1)

\* The outer handler's dispatch has served something and returns true.
Wake(s) == IF s = << >> THEN s ELSE [s EXCEPT ![Len(s)].woken = TRUE]

Respond(op, ok, valid) == Append(to_controller, Message("response", op, 0, ok, valid))

\* Mutant: the request is sent twice.
AskTwice(s, sent) ==
  LET f == s[Len(s)]
      m == Message("request", IF Plan[f.step] = 0 THEN "storage" ELSE "read",
                   Plan[f.step], FALSE, FALSE)
  IN /\ stack' = s
     /\ operation' = [kind |-> m.op, depth |-> Len(s), step |-> f.step]
     /\ to_controller' = sent \o << m, m >>

\* What a handler asks for at a step: get_update_storage and update_read set
\* operation, and send the request.
Ask(s, sent) ==
  LET f == s[Len(s)]
      block == Plan[f.step]
  IN /\ stack' = s
     /\ operation' = [kind |-> IF block = 0 THEN "storage" ELSE "read",
                      depth |-> Len(s), step |-> f.step]
     /\ to_controller' = Append(sent, Message("request", IF block = 0 THEN "storage" ELSE "read",
                                              IF f.lost THEN 0 ELSE block, FALSE, FALSE))

\* The handler on top of the stack returns a response.
Return(ok, valid) ==
  /\ to_controller' = Respond(Top.request, ok, valid)
  /\ stack' = Wake(Pop)

\* operation points to the call that waits on top of the stack.
IsLive == operation.kind # "none" /\ operation.depth = Depth /\ Depth > 0
          /\ operation.step = Top.step

\* Mutant: the update is installed whatever the executable is.
NotInstalled(f) == FALSE

\* fd_boot_get_action finds the executable that the handler looked at to be the
\* one in the update.
IsInstalled(f) == f.had = "whole"

\* A wait of the handler on top is over with what it asked for; f is the handler
\* with that stored.  It goes on to its next step, or returns.
Continue(f) ==
  LET last == f.step = Len(CheckPlan)
      above == [stack EXCEPT ![Depth] = [f EXCEPT !.step = @ + 1]]
      wrote == ~InCheck(f.step) /\ Plan[f.step] # 0
      whole == wrote /\ f.step = Len(Plan) /\ ~f.garbled
  IN /\ executable' = IF whole THEN "whole" ELSE IF wrote THEN "invalid" ELSE executable
     /\ installed' = (installed \/ whole)
     /\ IF \/ last /\ (f.request = "update_metadata" \/ IsInstalled(f))
           \/ f.step = Len(Plan)
        THEN /\ Return(TRUE, last \/ whole)
             /\ operation' = NoOperation
        ELSE Ask(above, to_controller)

\* The top handler's wait fails: so does the handler.  operation is left as it is.
HandlerFails ==
  /\ Return(FALSE, FALSE)
  /\ UNCHANGED << operation, executable, installed >>

\* get_update_metadata and update have to wait: a new handler.
StartHandler(op) ==
  /\ Ask(Append(stack, [request |-> op, step |-> 1, had |-> executable, lost |-> FALSE,
                        garbled |-> FALSE, woken |-> FALSE]),
         to_controller)
  /\ UNCHANGED << executable, installed, running >>

\* A request that needs no wait is answered at once; the dispatch of the handler
\* below has then served something.
RespondNow(op, valid) ==
  /\ to_controller' = Respond(op, TRUE, valid)
  /\ stack' = Wake(stack)
  /\ UNCHANGED << operation, executable, installed, running >>

get_identity == RespondNow("identity", TRUE)

get_executable_metadata == RespondNow("executable_metadata", executable = "whole")

\* fd_boot_execute does not return.
execute ==
  \/ /\ executable = "whole" /\ running' = "application"
     /\ UNCHANGED << to_controller, stack, operation, executable, installed >>
  \/ executable = "invalid" /\ RespondNow("execute", FALSE)

Serve(op) ==
  \/ op \in {"update", "update_metadata"} /\ StartHandler(op)
  \/ op = "identity" /\ get_identity
  \/ op = "executable_metadata" /\ get_executable_metadata
  \/ op = "execute" /\ execute

\* A block is taken if its location is the one asked for and it could be read.
IsBlockAskedFor(m) == m.location = Plan[Top.step] /\ ~Top.lost /\ m.ok

\* A response is stored through operation.  Without an operation it is ignored
\* (frames do not overtake each other, so that does not happen); through a
\* dangling or mistaken pointer anything may be overwritten.
Accept(m) ==
  \/ /\ operation.kind = "none"
     /\ stack' = Wake(stack)
     /\ UNCHANGED << to_controller, operation, executable, installed, running >>
  \/ /\ operation.kind # "none" /\ ~(IsLive /\ operation.kind = m.op)
     /\ running' = "wild"
     /\ UNCHANGED << to_controller, stack, operation, executable, installed >>
  \/ /\ IsLive /\ operation.kind = m.op /\ UNCHANGED running
     /\ IF m.op = "storage" THEN Continue([Top EXCEPT !.lost = FALSE])
        ELSE IF IsBlockAskedFor(m) THEN Continue(Top)
        ELSE HandlerFails

\* fd_boot_split_peripheral_dispatch_process, after the envelope was checked.
PeripheralDispatch(m) ==
  \/ /\ m.type = "bad" /\ UNCHANGED running
     /\ IF Depth > 0 THEN HandlerFails
        ELSE UNCHANGED << to_controller, stack, operation, executable, installed >>
  \/ m.type = "request" /\ Serve(m.op)
  \/ m.type = "response" /\ Accept(m)

PeripheralReceive ==
  /\ running = "boot" /\ to_peripheral # << >>
  /\ Depth > 0 => ~Top.woken
  /\ to_peripheral' = Tail(to_peripheral)
  /\ PeripheralDispatch(Head(to_peripheral))
  /\ UNCHANGED << controller_vars, faults >>

\* The nested dispatch has served something that was not the answer, or that used
\* operation for itself: a read then fails, a get_update_storage with operation
\* cleared returns true with its storage as it was before the call.
Woken ==
  /\ running = "boot" /\ Depth > 0 /\ Top.woken
  /\ LET f == [Top EXCEPT !.woken = FALSE]
     IN IF operation.kind = "none" /\ Plan[f.step] = 0
        THEN \E lost \in BOOLEAN :
               Continue([f EXCEPT !.lost = lost, !.garbled = ~InCheck(f.step)])
        ELSE HandlerFails
  /\ UNCHANGED << running, to_peripheral, controller_vars, faults >>

\* No byte for so long that the wait gives up.
PeripheralTimeout ==
  /\ running = "boot" /\ to_peripheral = << >> /\ Depth > 0 /\ ~Top.woken
  /\ Fault
  /\ HandlerFails
  /\ UNCHANGED << running, to_peripheral, controller_vars >>

-----------------------------------------------------------------------------

\* A byte is lost or changed on the line, or does not fit a fifo.
Damage(line) == line # << >> /\ Head(line) # Bad /\ line' = << Bad >> \o Tail(line)
LineFault ==
  /\ Fault
  /\ \/ Damage(to_peripheral) /\ UNCHANGED to_controller
     \/ Damage(to_controller) /\ UNCHANGED to_peripheral
  /\ UNCHANGED << controller_vars, peripheral_vars >>

Init ==
  /\ client \in Clients /\ call = 1 /\ tries = 1 /\ status = "waiting"
  /\ accepted = FALSE /\ restarts = 0 /\ faults = 0
  /\ to_peripheral = << Message("request", Script[client][1], 0, FALSE, FALSE) >>
  /\ to_controller = << >>
  /\ stack = << >> /\ operation = NoOperation
  /\ executable = "invalid" /\ running = "boot" /\ installed = FALSE

Controller == ControllerReceive \/ ControllerTimeout \/ ControllerRestart
Peripheral == PeripheralReceive \/ Woken \/ PeripheralTimeout

Next == Controller \/ Peripheral \/ LineFault

Spec == Init /\ [][Next]_vars

\* Both programs poll their fifos all the time.
FairSpec == Spec /\ WF_vars(ControllerReceive) /\ WF_vars(PeripheralReceive \/ Woken)
                 /\ WF_vars(ControllerTimeout)

-----------------------------------------------------------------------------
(* Properties.                                                             *)

\* Once installed as a whole the executable stays whole, although update is
\* repeated after timeouts and restarts, and although a handler may have looked
\* at the executable before a handler nested in its wait installed it.
StaysWhole == [][executable = "whole" => executable' = "whole"]_vars

\* The controller goes on to execute only if the peripheral has installed the
\* update as a whole: no other response, late or of another call, is taken for
\* the one of fd_boot_split_controller_update.
ValidMeansInstalled == accepted => installed /\ executable = "whole"

\* Without a fault no request is served inside of another handler's wait, and
\* operation always names the call that waits: the dangling pointer of a wait
\* that was given up needs a timeout or a damaged frame.
NestsOnlyAfterFault == faults = 0 => Depth <= 1 /\ running # "wild"

\* Without a fault the update is installed and run, and the controller's
\* main() ends with success.
CleanUpdateRuns ==
  [](faults = 0) => <>[](running = "application" /\ status = "finished")
=============================================================================
