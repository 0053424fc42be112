------------------------------- MODULE MCAget -------------------------------
(***************************************************************************)
(* Instances of Aget for TLC; the configurations give all constants.  Two  *)
(* workers with sections of two bytes are the least that has a middle of a *)
(* section; two runs have a resume, two rounds a restart of the workers.   *)
(***************************************************************************)
EXTENDS Aget

const_HttpWorks == {[http |-> TRUE, connFails |-> FALSE, recvFails |-> FALSE]}

(* HTTP over a network that works, FTP over one where everything may fail.   *)
const_Nets == const_HttpWorks \cup {[http |-> FALSE, connFails |-> TRUE, recvFails |-> TRUE]}

=============================================================================
