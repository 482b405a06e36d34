----------------------------- MODULE MCRpcCall -----------------------------
(***************************************************************************)
(* The RPC layer over its USB channel, and the channel over Thread with    *)
(* its TCP transport, for TLC.  A behaviour exercises one of the two,      *)
(* chosen in the initial state.                                            *)
(***************************************************************************)
EXTENDS RpcCall, ThreadTcp

VARIABLE which

allVars == << which, vars, threadVars >>

MCInit ==
  /\ which \in {"usb", "thread"}
  /\ Init /\ ThreadInit
  /\ which = "usb" => bounds = CHOOSE b \in Bounds : TRUE

UsbStep == which = "usb" /\ Next /\ UNCHANGED << which, threadVars >>
ThreadStep == which = "thread" /\ ThreadNext /\ UNCHANGED << which, vars >>

Usb(A) == which = "usb" /\ A /\ UNCHANGED << which, threadVars >>

\* The fairness of RpcCall.
MCSpec ==
  /\ MCInit /\ [][UsbStep \/ ThreadStep]_allVars
  /\ WF_allVars(Usb(Device)) /\ WF_allVars(Usb(fd_rpc_channel_usb_cdc_timer))
  /\ WF_allVars(Usb(StreamChannel_read))

MCSlots == 1 .. 2

\* One behaviour is about the role and the application's calls, one about what is
\* sent in both directions, one about a ring that overflows.
MCBounds ==
  {[connections |-> 2, packets |-> 0, writes |-> 0, roles |-> 2, calls |-> 2],
   [connections |-> 2, packets |-> 1, writes |-> 2, roles |-> 1, calls |-> 1],
   [connections |-> 1, packets |-> 2, writes |-> 0, roles |-> 1, calls |-> 1]}
=============================================================================
