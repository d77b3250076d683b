------------------------------ MODULE MCGevent ------------------------------
(***************************************************************************)
(* Instances of Gevent for TLC.                                            *)
(***************************************************************************)
EXTENDS GeventProperties

CothreadSymmetry == Permutations(Cothreads)

OpsOf(mains, others) == [t \in Threads |-> IF t = Main THEN mains ELSE others]

(* Everything; main is one more cothread that sends and sleeps.            *)
FullOps == OpsOf({"spawn", "init", "send", "sleep", "yield"},
                 {"spawn", "send", "receive", "acquire", "release", "sleep", "wait",
                  "yield", "getaddrinfo"})
(* The same without what keeps a cothread waiting for ever, see the        *)
(* liveness properties.                                                    *)
LiveOps == OpsOf({"spawn", "send", "sleep", "yield"},
                 {"spawn", "receive", "sleep", "wait", "getaddrinfo"})
(* Main does a lookup.                                                     *)
MainLookupOps == OpsOf({"spawn", "sleep", "getaddrinfo"},
                       {"spawn", "sleep", "getaddrinfo"})
=============================================================================
