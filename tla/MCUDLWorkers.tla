---------------------------- MODULE MCUDLWorkers ----------------------------
(***************************************************************************)
(* The instance of UDLWorkers that TLC checks: the handler that logs       *)
(* little gets a third worker, the one that prints most two requests.      *)
(***************************************************************************)
EXTENDS UDLWorkers

MCNumWorkers  == [p \in Programs |-> IF p = "udl_get_debug" THEN 3 ELSE 2]
MCMaxCommands == [p \in Programs |-> CASE p = "p2p_send_debug" -> 2
                                      [] p \in {"udl_get_debug", "udl_microbenchmark"} -> 3
                                      [] OTHER -> 4]
=============================================================================
