---------------------------- MODULE MCWebStatus -----------------------------
(* Two pages follow a printer that prints nothing, with a key of its status that comes
   and goes; or one page, and others that poll, watch a print of "_foo", whose file is
   "foo", to its end or until "bar" is printed. *)
EXTENDS WebStatus

MCStatus(v, state, job, keys) == [ver |-> v, state |-> state, job |-> job, keys |-> keys]

MCIdle(k1, k2, k3) ==
  <<MCStatus(1, "IDLE", None, k1), MCStatus(2, "RUNNING", None, k2), MCStatus(3, "FINISH", None, k3)>>
MCPrint(state, job) == <<MCStatus(1, "RUNNING", "_foo", {}), MCStatus(2, state, job, {})>>

MCScenarios ==
  {[sends |-> MCIdle(k1, k2, k3), pages |-> Streams, uploads |-> 0] : k1, k2, k3 \in {{}, Keys}}
  \cup {[sends |-> MCPrint("FINISH", "_foo"), pages |-> {CHOOSE s \in Streams : TRUE}, uploads |-> 1],
        [sends |-> MCPrint("RUNNING", "bar"), pages |-> {CHOOSE s \in Streams : TRUE}, uploads |-> 0]}

MCCandidates == [j \in {"_foo", "bar"} |-> IF j = "_foo" THEN <<"foo", "_foo">> ELSE <<"bar">>]
MCSanitized == [j \in {"_foo", "bar"} |-> IF j = "_foo" THEN "foo" ELSE None]
=============================================================================
