---------------------------- MODULE MCBootUpdate ----------------------------
(***************************************************************************)
(* A small instance of BootUpdate: a flash of two pages, the metadata in   *)
(* the first, and three releases of different lengths whose order differs  *)
(* from the order of their minor or patch numbers alone.                   *)
(***************************************************************************)
EXTENDS BootUpdate

MCVersions == {<< 0, 1, 2 >>, << 0, 2, 0 >>, << 1, 0, 1 >>}
MCLength == [v \in MCVersions |->
               CASE v = << 0, 1, 2 >> -> 9 [] v = << 0, 2, 0 >> -> 7 [] OTHER -> 8]
=============================================================================
