----------------------------- MODULE MCBootSplit -----------------------------
(* An instance of BootSplit: the calls of the controller's main(), of two       *)
(* applications that start with an update or an execute, and of controller.py   *)
(* with every method that it has.                                               *)
EXTENDS BootSplit

MCScript ==
  [main |-> << "identity", "update", "execute" >>,
   update |-> << "update", "execute" >>,
   execute |-> << "execute", "update", "execute" >>,
   python |-> << "identity", "executable_metadata", "update_metadata", "update", "execute" >>]
=============================================================================
