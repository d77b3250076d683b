---------------------------- MODULE MCThreadPool ----------------------------
(***************************************************************************)
(* More requests than workers, so that some wait for a worker.             *)
(***************************************************************************)
EXTENDS ThreadPoolProperties
=============================================================================
