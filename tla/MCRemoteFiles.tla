--------------------------- MODULE MCRemoteFiles ----------------------------
(* A storage with a directory in a directory, a link from one directory to another, and two
   users of it. *)
EXTENDS RemoteFiles

MCFile == [kind |-> "file", to |-> <<>>]
MCDir == [kind |-> "dir", to |-> <<>>]

MCTree ==
  [p \in {<<"a">>, <<"a", "f">>, <<"a", "s">>, <<"a", "s", "g">>, <<"a", "l">>, <<"b">>, <<"b", "h">>} |->
     CASE p = <<"a", "l">> -> [kind |-> "link", to |-> <<"b">>]
       [] p \in {<<"a">>, <<"a", "s">>, <<"b">>} -> MCDir
       [] OTHER -> MCFile]

MCTrees == {MCTree}

MCCall(what, path, to) == [what |-> what, path |-> path, to |-> to, rec |-> TRUE]

MCCalls ==
  [c \in Clients |->
     IF c = "page"
     THEN {MCCall("rmr", <<"a">>, <<>>), MCCall("rmr", <<"a", "..">>, <<>>),
           MCCall("mv", <<"a", "s">>, <<"b", "s">>), MCCall("mkdir", <<"a", "n">>, <<>>),
           MCCall("put", <<"b", "n">>, <<>>)}
     ELSE {MCCall("rmr", <<"a", "l">>, <<>>), MCCall("rmr", <<>>, <<>>), MCCall("rm", <<"a", "f">>, <<>>),
           MCCall("getdir", <<"a">>, <<"t">>), [MCCall("getdir", <<"a">>, <<"t">>) EXCEPT !.rec = FALSE],
           MCCall("getdir", <<"a", "s">>, <<"t">>), MCCall("get", <<"b", "h">>, <<>>), MCCall("ls", <<"a">>, <<>>)}]

MCOddities ==
  {{}, {[name |-> <<".">>, kind |-> "dir"], [name |-> <<"..">>, kind |-> "dir"]},
   {[name |-> <<"..", "f">>, kind |-> "file"]}}
MCWritten == {<<"a", "w">>}
=============================================================================
