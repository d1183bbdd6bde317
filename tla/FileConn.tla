------------------------------ MODULE FileConn ------------------------------
(***************************************************************************)
(* FileClient (file_client.go): the FTPS connection that all file calls    *)
(* share, the calls that are cancelled while their FTP command still runs, *)
(* the streams of Download on connections of their own, and what they      *)
(* leave outside: the local file of DownloadFile and the UploadStatus that *)
(* the web server shows (web.go).                                          *)
(*                                                                         *)
(* Every call runs at most three goroutines: its caller (pc), the function *)
(* handed to withContext or the copy loop of Download (fn), and the        *)
(* background Quit of a cancelled call (quit).  The ftp library is         *)
(* external: a command on a connection ends well or badly, and badly once  *)
(* the connection is closed.                                               *)
(***************************************************************************)
EXTENDS Naturals, FiniteSets

CONSTANTS
  Calls,   \* calls of FileClient methods; a call dials at most one connection, named after it
  None

ASSUME NoneAssumption == None \notin Calls

\* list: one command or several (ListFiles, Delete, MakeDirectory, Rename,
\* RemoveAll); get: DownloadFile; put: Upload from a web handler; stream:
\* Download; close: Close, called by Client.Stop.
Ops == {"list", "get", "put", "stream", "close"}

VARIABLES
  mu,         \* holder of f.mu
  client,     \* f.client: the call that dialled it, or None
  conn,       \* the connection a call dialled
  op,         \* the method of each call
  pc,         \* where its caller is
  on,         \* the connection its function works on
  cancelled,  \* its context is done
  fn,         \* where its function or copy loop is
  quit,       \* where its background Quit is
  complete,   \* calls whose Retrieve has delivered the whole file (ghost)
  temp,       \* calls whose temporary file exists
  file,       \* the local file: the call that wrote it, and whether it is whole
  reader,     \* what the reader returned by Download has come to
  shown       \* session.UploadStatus: Uploading, and whose progress it has

connVars == <<mu, client, conn>>
callVars == <<op, pc, on, cancelled>>
outVars == <<complete, temp, file, reader, shown>>
vars == <<connVars, callVars, fn, quit, outVars>>

InGetConn == {"noop", "dial", "login"}
Holding == InGetConn \cup {"check", "run", "closing"}   \* with f.mu held
Using == {"work", "retrieve"}                           \* the function may talk to its connection
Streaming == {"serve", "quit", "close"}                 \* the copy loop of Download
NoStatus == [uploading |-> FALSE, of |-> None]

Shared(c) == op[c] # "stream"

-----------------------------------------------------------------------------
Init ==
  /\ mu = None
  /\ client = None
  /\ conn = [c \in Calls |-> "unused"]
  /\ op = [c \in Calls |-> "list"]
  /\ pc = [c \in Calls |-> "new"]
  /\ on = [c \in Calls |-> None]
  /\ cancelled = [c \in Calls |-> FALSE]
  /\ fn = [c \in Calls |-> "none"]
  /\ quit = [c \in Calls |-> "none"]
  /\ complete = {}
  /\ temp = {}
  /\ file = [by |-> None, whole |-> TRUE]
  /\ reader = [c \in Calls |-> "none"]
  /\ shown = NoStatus

-----------------------------------------------------------------------------
(* The caller. *)

Goto(c, step) == pc' = [pc EXCEPT ![c] = step]

\* The deferred Unlock; a stream holds nothing.
Return(c) ==
  /\ Goto(c, "returned")
  /\ mu' = IF Shared(c) THEN None ELSE mu

\* A call begins.  An upload handler shows itself first, and Download dials at once.
Begin(c) ==
  /\ pc[c] = "new"
  /\ \E o \in Ops :
       /\ op' = [op EXCEPT ![c] = o]
       /\ Goto(c, IF o = "stream" THEN "dial" ELSE "wait")
       /\ shown' = IF o = "put" THEN [uploading |-> TRUE, of |-> None] ELSE shown
  /\ UNCHANGED <<connVars, on, cancelled, fn, quit, complete, temp, file, reader>>

\* The request goes away; it matters while the call runs or its stream is served.
Cancel(c) ==
  /\ pc[c] \notin {"new", "returned", "done"} \/ fn[c] \in Streaming
  /\ ~cancelled[c]
  /\ cancelled' = [cancelled EXCEPT ![c] = TRUE]
  /\ UNCHANGED <<connVars, op, pc, on, fn, quit, outVars>>

\* f.mu.Lock(), which does not look at the context.
Lock(c) ==
  /\ pc[c] = "wait"
  /\ mu = None
  /\ mu' = c
  /\ Goto(c, IF op[c] = "close" THEN "closing" ELSE IF client = None THEN "dial" ELSE "noop")
  /\ UNCHANGED <<client, conn, op, on, cancelled, fn, quit, outVars>>

\* getConn: the connection answers Noop.
NoopAnswers(c) ==
  /\ pc[c] = "noop"
  /\ on' = [on EXCEPT ![c] = client]
  /\ Goto(c, "check")
  /\ UNCHANGED <<connVars, op, cancelled, fn, quit, outVars>>

\* It does not: it is closed and dropped, and a new one is dialled.
NoopFails(c) ==
  /\ pc[c] = "noop"
  /\ conn' = [conn EXCEPT ![client] = "closed"]
  /\ client' = None
  /\ Goto(c, "dial")
  /\ UNCHANGED <<mu, op, on, cancelled, fn, quit, outVars>>

\* Close.
CloseShared(c) ==
  /\ pc[c] = "closing"
  /\ conn' = [k \in Calls |-> IF k = client THEN "closed" ELSE conn[k]]
  /\ client' = None
  /\ Return(c)
  /\ UNCHANGED <<op, on, cancelled, fn, quit, outVars>>

\* ftp.Dial, of getConn or of Download.
DialFails(c) ==
  /\ pc[c] = "dial"
  /\ Return(c)
  /\ UNCHANGED <<client, conn, op, on, cancelled, fn, quit, outVars>>

DialSucceeds(c) ==
  /\ pc[c] = "dial"
  /\ conn' = [conn EXCEPT ![c] = "open"]
  /\ Goto(c, "login")
  /\ UNCHANGED <<mu, client, op, on, cancelled, fn, quit, outVars>>

\* Mutant: the connection is not closed.
LoginFails_NoQuit(c) ==
  /\ pc[c] = "login"
  /\ Return(c)
  /\ UNCHANGED <<client, conn, op, on, cancelled, fn, quit, outVars>>

LoginFails(c) ==
  /\ pc[c] = "login"
  /\ conn' = [conn EXCEPT ![c] = "closed"]
  /\ Return(c)
  /\ UNCHANGED <<client, op, on, cancelled, fn, quit, outVars>>

\* The new connection becomes f.client.
LoginShared(c) ==
  /\ pc[c] = "login"
  /\ Shared(c)
  /\ client' = c
  /\ on' = [on EXCEPT ![c] = c]
  /\ Goto(c, "check")
  /\ UNCHANGED <<mu, conn, op, cancelled, fn, quit, outVars>>

\* Download registers AfterFunc, starts the copy loop and returns the reader.
LoginOwn(c) ==
  /\ pc[c] = "login"
  /\ ~Shared(c)
  /\ on' = [on EXCEPT ![c] = c]
  /\ fn' = [fn EXCEPT ![c] = "serve"]
  /\ reader' = [reader EXCEPT ![c] = "open"]
  /\ Return(c)
  /\ UNCHANGED <<client, conn, op, cancelled, quit, complete, temp, file, shown>>

\* withContext looks at the context only now ...
CheckContext(c) ==
  /\ pc[c] = "check"
  /\ IF cancelled[c]
     THEN Return(c) /\ UNCHANGED fn
     ELSE /\ Goto(c, "run")
          /\ fn' = [fn EXCEPT ![c] = "work"]
          /\ UNCHANGED mu
  /\ UNCHANGED <<client, conn, op, on, cancelled, quit, outVars>>

\* ... and then waits for the function
FnAnswers(c) ==
  /\ pc[c] = "run"
  /\ fn[c] = "sent"
  /\ fn' = [fn EXCEPT ![c] = "taken"]
  /\ Return(c)
  /\ UNCHANGED <<client, conn, op, on, cancelled, quit, outVars>>

\* Mutants: the connection stays f.client; the function is waited for.
Abandon_KeepsClient(c) ==
  /\ pc[c] = "run"
  /\ cancelled[c]
  /\ quit' = [quit EXCEPT ![c] = "quit"]
  /\ Return(c)
  /\ UNCHANGED <<client, conn, op, on, cancelled, fn, outVars>>
Abandon_Waits(c) ==
  /\ pc[c] = "run"
  /\ cancelled[c]
  /\ fn[c] = "sent"
  /\ client' = None
  /\ quit' = [quit EXCEPT ![c] = "quit"]
  /\ Return(c)
  /\ UNCHANGED <<conn, op, on, cancelled, fn, outVars>>

\* or for the context: the connection is left to the background Quit.
Abandon(c) ==
  /\ pc[c] = "run"
  /\ cancelled[c]
  /\ client' = None
  /\ quit' = [quit EXCEPT ![c] = "quit"]
  /\ Return(c)
  /\ UNCHANGED <<conn, op, on, cancelled, fn, outVars>>

\* The upload handler's deferred reset.
ResetStatus(c) ==
  /\ pc[c] = "returned"
  /\ op[c] = "put"
  /\ shown' = NoStatus
  /\ Goto(c, "done")
  /\ UNCHANGED <<connVars, op, on, cancelled, fn, quit, complete, temp, file, reader>>

-----------------------------------------------------------------------------
(* The background Quit. *)

\* Mutant: the function is waited for before the connection is closed.
Quit_Last(c) ==
  /\ quit[c] = "quit"
  /\ fn[c] = "sent"
  /\ conn' = [conn EXCEPT ![on[c]] = "closed"]
  /\ quit' = [quit EXCEPT ![c] = "drain"]
  /\ UNCHANGED <<mu, client, callVars, fn, outVars>>

Quit(c) ==
  /\ quit[c] = "quit"
  /\ conn' = [conn EXCEPT ![on[c]] = "closed"]
  /\ quit' = [quit EXCEPT ![c] = "drain"]
  /\ UNCHANGED <<mu, client, callVars, fn, outVars>>

\* <-errCh
Drain(c) ==
  /\ quit[c] = "drain"
  /\ fn[c] = "sent"
  /\ fn' = [fn EXCEPT ![c] = "taken"]
  /\ quit' = [quit EXCEPT ![c] = "done"]
  /\ UNCHANGED <<connVars, callVars, outVars>>

-----------------------------------------------------------------------------
(* The function handed to withContext. *)

FnGoto(c, step) == fn' = [fn EXCEPT ![c] = step]

\* A listing, a deletion or an upload ends, with success or an error.
WorkEnds(c) ==
  /\ fn[c] = "work"
  /\ op[c] \in {"list", "put"}
  /\ FnGoto(c, "sent")
  /\ UNCHANGED <<connVars, callVars, quit, outVars>>

\* progressReader.Read calls back; the callback sets the counters of the status.
Progress(c) ==
  /\ fn[c] = "work"
  /\ op[c] = "put"
  /\ shown' = [shown EXCEPT !.of = c]
  /\ UNCHANGED <<connVars, callVars, fn, quit, complete, temp, file, reader>>

\* DownloadFile: the directory and the temporary file, if they can be made.
CreateTemp(c) ==
  /\ fn[c] = "work"
  /\ op[c] = "get"
  /\ \/ FnGoto(c, "retrieve") /\ temp' = temp \cup {c}
     \/ FnGoto(c, "sent") /\ UNCHANGED temp
  /\ UNCHANGED <<connVars, callVars, quit, complete, file, reader, shown>>

\* Retrieve into it.
RetrieveSucceeds(c) ==
  /\ fn[c] = "retrieve"
  /\ conn[on[c]] = "open"
  /\ complete' = complete \cup {c}
  /\ FnGoto(c, "commit")
  /\ UNCHANGED <<connVars, callVars, quit, temp, file, reader, shown>>

\* Mutant: the error is not looked at before the rename.
RetrieveFails_Ignored(c) ==
  /\ fn[c] = "retrieve"
  /\ FnGoto(c, "commit")
  /\ UNCHANGED <<connVars, callVars, quit, outVars>>

RetrieveFails(c) ==
  /\ fn[c] = "retrieve"
  /\ FnGoto(c, "cleanup")
  /\ UNCHANGED <<connVars, callVars, quit, outVars>>

\* Chmod, Close and Rename; each may fail.
Rename(c) ==
  /\ fn[c] = "commit"
  /\ file' = [by |-> c, whole |-> c \in complete]
  /\ temp' = temp \ {c}
  /\ FnGoto(c, "sent")
  /\ UNCHANGED <<connVars, callVars, quit, complete, reader, shown>>

RenameFails(c) ==
  /\ fn[c] = "commit"
  /\ FnGoto(c, "cleanup")
  /\ UNCHANGED <<connVars, callVars, quit, outVars>>

\* The deferred Remove.
RemoveTemp(c) ==
  /\ fn[c] = "cleanup"
  /\ temp' = temp \ {c}
  /\ FnGoto(c, "sent")
  /\ UNCHANGED <<connVars, callVars, quit, complete, file, reader, shown>>

-----------------------------------------------------------------------------
(* The copy loop of Download. *)

\* The reader has taken the whole file from the pipe.
ServeSucceeds(c) ==
  /\ fn[c] = "serve"
  /\ conn[c] = "open"
  /\ reader[c] = "open"
  /\ complete' = complete \cup {c}
  /\ FnGoto(c, "quit")
  /\ UNCHANGED <<connVars, callVars, quit, temp, file, reader, shown>>

\* Mutant: only the deferred Close ends the pipe.
ServeFails_ClosesOnly(c) ==
  /\ fn[c] = "serve"
  /\ FnGoto(c, "quit")
  /\ UNCHANGED <<connVars, callVars, quit, outVars>>

\* The connection broke, or the reader was closed: pw.CloseWithError(err).
ServeFails(c) ==
  /\ fn[c] = "serve"
  /\ reader' = [reader EXCEPT ![c] = IF @ = "open" THEN "error" ELSE @]
  /\ FnGoto(c, "quit")
  /\ UNCHANGED <<connVars, callVars, quit, complete, temp, file, shown>>

\* The deferred calls, last one first: Quit, pw.Close, stop.
ServeQuit(c) ==
  /\ fn[c] = "quit"
  /\ conn' = [conn EXCEPT ![c] = "closed"]
  /\ FnGoto(c, "close")
  /\ UNCHANGED <<mu, client, callVars, quit, outVars>>

ServeClose(c) ==
  /\ fn[c] = "close"
  /\ reader' = [reader EXCEPT ![c] = IF @ = "open" THEN "eof" ELSE @]
  /\ FnGoto(c, "taken")
  /\ UNCHANGED <<connVars, callVars, quit, complete, temp, file, shown>>

\* context.AfterFunc: the connection is closed under the copy loop.
AfterFunc(c) ==
  /\ fn[c] \in Streaming
  /\ cancelled[c]
  /\ conn' = [conn EXCEPT ![c] = "closed"]
  /\ UNCHANGED <<mu, client, callVars, fn, quit, outVars>>

\* The user of the reader closes it, at any time.
CloseReader(c) ==
  /\ reader[c] = "open"
  /\ reader' = [reader EXCEPT ![c] = "closed"]
  /\ UNCHANGED <<connVars, callVars, fn, quit, complete, temp, file, shown>>

-----------------------------------------------------------------------------
GetConn(c) == \/ NoopAnswers(c) \/ NoopFails(c) \/ DialFails(c) \/ DialSucceeds(c)
              \/ LoginFails(c) \/ LoginShared(c) \/ LoginOwn(c)
WithContext(c) == CheckContext(c) \/ FnAnswers(c) \/ Abandon(c) \/ CloseShared(c)
Function(c) == \/ WorkEnds(c) \/ Progress(c) \/ CreateTemp(c) \/ RetrieveSucceeds(c)
               \/ RetrieveFails(c) \/ Rename(c) \/ RenameFails(c) \/ RemoveTemp(c)
Serve(c) == ServeSucceeds(c) \/ ServeFails(c) \/ ServeQuit(c) \/ ServeClose(c)

Next ==
  \E c \in Calls :
    \/ Begin(c) \/ Cancel(c) \/ Lock(c) \/ GetConn(c) \/ WithContext(c) \/ ResetStatus(c)
    \/ Quit(c) \/ Drain(c) \/ Function(c)
    \/ Serve(c) \/ AfterFunc(c) \/ CloseReader(c)

Spec == Init /\ [][Next]_vars

\* Noop, Dial and Login have a timeout of ten seconds, and withContext waits for
\* nothing else once its context is done.  What the function does, and the
\* background Quit, may take as long as they like.
Fairness == \A c \in Calls : WF_vars(GetConn(c)) /\ WF_vars(WithContext(c))

FairSpec == Spec /\ Fairness

\* The timeouts of the ftp library: Quit ends, and so does a command on a closed
\* connection; steps on the local disk end anyhow.  A copy loop waits for its reader
\* to read or to close.
TimeoutsFire ==
  \A c \in Calls :
    /\ WF_vars(Quit(c)) /\ WF_vars(Drain(c)) /\ WF_vars(AfterFunc(c))
    /\ WF_vars((WorkEnds(c) \/ CreateTemp(c) \/ RetrieveFails(c)) /\ conn[on[c]] = "closed")
    /\ WF_vars(Rename(c) \/ RenameFails(c)) /\ WF_vars(RemoveTemp(c))
    /\ WF_vars(Serve(c) /\ (fn[c] = "serve" => reader[c] # "open"))

-----------------------------------------------------------------------------
TypeOK ==
  /\ mu \in Calls \cup {None}
  /\ client \in Calls \cup {None}
  /\ conn \in [Calls -> {"unused", "open", "closed"}]
  /\ op \in [Calls -> Ops]
  /\ pc \in [Calls -> Holding \cup {"new", "wait", "returned", "done"}]
  /\ on \in [Calls -> Calls \cup {None}]
  /\ cancelled \in [Calls -> BOOLEAN]
  /\ fn \in [Calls -> Using \cup Streaming \cup {"none", "commit", "cleanup", "sent", "taken"}]
  /\ quit \in [Calls -> {"none", "quit", "drain", "done"}]
  /\ complete \subseteq Calls
  /\ temp \subseteq Calls
  /\ file \in [by : Calls \cup {None}, whole : BOOLEAN]
  /\ reader \in [Calls -> {"none", "open", "eof", "error", "closed"}]
  /\ shown \in [uploading : BOOLEAN, of : Calls \cup {None}]
  /\ \A c \in Calls : mu = c <=> Shared(c) /\ pc[c] \in Holding

\* No two calls ever use one connection at the same time, although a cancelled call
\* returns while its function still runs (withContext, getConn).
UserOf(k) == {c \in Calls : \/ fn[c] \in Using /\ on[c] = k
                            \/ pc[c] \in {"noop", "check"} /\ Shared(c) /\ client = k
                            \/ fn[c] = "serve" /\ c = k}

OneUserPerConnection == \A k \in Calls : \A c, d \in UserOf(k) : c = d

\* Every open connection is f.client, or somebody is still going to close it: no
\* failed login, dead connection or cancelled call leaves one behind.
NoConnectionLost ==
  \A k \in Calls : conn[k] = "open" =>
    \/ client = k
    \/ pc[k] = "login"
    \/ \E c \in Calls : on[c] = k /\ quit[c] = "quit"
    \/ fn[k] \in {"serve", "quit"}

\* "a failed or cancelled download never replaces an existing file with a partial
\* one" (writeFileAtomically), and a temporary file exists only as long as somebody is
\* going to rename or remove it.
NothingPartial ==
  /\ file.whole
  /\ \A c \in temp : fn[c] \in {"retrieve", "commit", "cleanup"}

\* A reader of Download that comes to the end of the file has had the whole file: a
\* connection that breaks or is cancelled shows as an error, not as the end.
TruncationIsSeen == \A c \in Calls : reader[c] = "eof" => c \in complete

\* No upload is shown when every upload handler has returned, however late the
\* progress callback of a cancelled one comes (handleAPIUpload).
UploadShownWhileRunning ==
  shown.uploading => \E c \in Calls : op[c] = "put" /\ pc[c] \notin {"new", "done"}

\* A cancelled call gives the lock back, so that the next one can go on, even if its
\* FTP command and the Quit of its connection never come to an end.
LockIsReleased == \A c \in Calls : mu = c /\ cancelled[c] ~> mu # c

\* If the timeouts of the ftp library fire, nothing of a call that is cancelled (and
\* whose reader is closed) remains: its function and its Quit end, its temporary
\* file is gone and the connection that it worked on is closed.
Gone(c) ==
  /\ fn[c] \in {"none", "taken"} /\ quit[c] \in {"none", "done"} /\ c \notin temp
  /\ on[c] # None /\ conn[on[c]] = "open" => client = on[c]

NothingRemains ==
  TimeoutsFire => \A c \in Calls : cancelled[c] /\ reader[c] \in {"none", "closed"} ~> Gone(c)

=============================================================================
