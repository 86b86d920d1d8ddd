------------------------ MODULE MCAgentLifecycle ------------------------
(***************************************************************************)
(* A pool of three threads for the watcher, the receiver and three pages,  *)
(* so that pages can keep the receiver out and have to wait, over two runs *)
(* with either kind of connection.                                         *)
(***************************************************************************)
EXTENDS AgentLifecycle
=============================================================================
